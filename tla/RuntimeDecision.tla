-------------------------- MODULE RuntimeDecision ---------------------------
(***************************************************************************)
(* The runtime closed loop: RuntimeDecisionService                         *)
(* (services/runtime_decision.py) takes a decision through recommendation, *)
(* approval, execution on the simulator and rollback.                      *)
(*                                                                         *)
(* Every method runs under the service's lock, so at most one call is in   *)
(* flight; op is that call.  A call is not one step all the same:          *)
(*   - the simulator has a lock of its own, and other requests start, stop,*)
(*     reset, advance or inject scenarios between the snapshot that a call *)
(*     reads and the apply_action that follows;                            *)
(*   - the call changes the record in memory, then writes the event to the *)
(*     audit log, then replaces the state file.  Each write may raise, and *)
(*     the process may stop between any two steps.                         *)
(*                                                                         *)
(* A decision is named by the idempotency key of its creation: decision_id *)
(* is a hash of it, and decisions and request_idempotency change together. *)
(***************************************************************************)
EXTENDS SimulatorPhysics, Sequences, FiniteSets

CONSTANTS Decisions,     \* creation idempotency keys, i.e. decision ids
          Principals,    \* people who request and approve
          Keys,          \* idempotency keys of approve, execute and rollback
          NoOne, NoKey,  \* what an absent person or key is
          Faults         \* which faults may happen

ASSUME NoOneAssumption == NoOne \notin Principals
ASSUME NoKeyAssumption == NoKey \notin Keys
ASSUME FaultsAssumption == Faults \subseteq {"crash", "audit", "persist", "read"}

VARIABLES
    sim,        \* state of the simulator
    mem,        \* _state["decisions"]
    disk,       \* what the state file holds
    op,         \* the call that holds the service's lock
    commands,   \* history: commands each decision sent to this simulator
    seen,       \* history: the approvals a client was last shown
    unread      \* history: the process started without reading the file that
                \* is there, and has not written it since

service == <<mem, disk, op, commands, seen, unread>>
vars == <<sim, mem, disk, op, commands, seen, unread>>

-----------------------------------------------------------------------------
(* Records.                                                                *)

Statuses == {"absent", "awaiting_approval", "approved", "rejected",
             "execution_blocked", "executed_simulation",
             "rolled_back_simulation"}

Approvals == [by : Principals, vote : {"approve", "reject"}, key : Keys]

(* limit is the equipment limit in the snapshot that the receipt's         *)
(* input_snapshot_sha256 commits to.                                       *)
Receipts == [state   : {"none", "rejected", "acknowledged"},
             key     : Keys \cup {NoKey},
             applied : Levels,
             limit   : Levels]

Rollbacks == [available : BOOLEAN, key : Keys \cup {NoKey}, action : Levels]

EventTypes == {"recommendation_created", "approval_recorded",
               "execution_rejected", "simulation_execution_acknowledged",
               "simulation_rollback_acknowledged"}

(* audited: the audit log holds this event's hash.                         *)
Events == [type : EventTypes, audited : BOOLEAN]

(* sealed: record_sha256 is the hash of the record as it is.               *)
Records == [status    : Statuses,
            requester : Principals \cup {NoOne},
            required  : 1..2,
            approvals : SUBSET Approvals,
            command   : Levels,
            receipt   : Receipts,
            rollback  : Rollbacks,
            events    : Seq(Events),
            sealed    : BOOLEAN]

NoReceipt == [state |-> "none", key |-> NoKey,
              applied |-> Derated, limit |-> Derated]

NoRollback == [available |-> FALSE, key |-> NoKey, action |-> Derated]

Absent == [status |-> "absent", requester |-> NoOne, required |-> 1,
           approvals |-> {}, command |-> Derated, receipt |-> NoReceipt,
           rollback |-> NoRollback, events |-> <<>>, sealed |-> TRUE]

EmptyStore == [d \in Decisions |-> Absent]

(* The call in flight: its next step is "apply" (on the simulator),        *)
(* "audit" or "persist"; draft is the record that a creation builds.       *)
Ops == [kind    : {"none", "create", "approve", "execute", "rollback"},
        step    : {"idle", "apply", "audit", "persist"},
        id      : Decisions \cup {NoOne},
        key     : Keys \cup {NoKey},
        command : Levels,
        draft   : Records]

Idle == [kind |-> "none", step |-> "idle", id |-> NoOne, key |-> NoKey,
         command |-> Derated, draft |-> Absent]

LockFree == op.step = "idle"

(* Mutant: an approval is persisted without an audit event.                *)
MutantAuditing(kind, d) ==
    [Idle EXCEPT !.kind = kind, !.id = d,
                 !.step = IF kind = "approve" THEN "persist" ELSE "audit"]

Auditing(kind, d) == [Idle EXCEPT !.kind = kind, !.step = "audit", !.id = d]

Applying(kind, d, k, c) ==
    [Idle EXCEPT !.kind = kind, !.step = "apply", !.id = d,
                 !.key = k, !.command = c]

(* _append_record_event adds the event to the record before it calls the   *)
(* audit writer; record_sha256 is stale until the caller recomputes it.    *)
WithEvent(record, type) ==
    [record EXCEPT !.events = Append(@, [type |-> type, audited |-> FALSE]),
                   !.sealed = FALSE]

(* Mutant: the record keeps the hash it had before the event.              *)
MutantSealed(record) ==
    [record EXCEPT
        !.events = [i \in DOMAIN @ |->
                        IF i = Len(@) THEN [@[i] EXCEPT !.audited = TRUE]
                                      ELSE @[i]]]

(* The audit writer has returned and the caller has rehashed the record.   *)
Sealed(record) ==
    [record EXCEPT
        !.events = [i \in DOMAIN @ |->
                        IF i = Len(@) THEN [@[i] EXCEPT !.audited = TRUE]
                                      ELSE @[i]],
        !.sealed = TRUE]

(* The actions that _project_action may make of a requested one: never     *)
(* beyond the equipment limit, possibly lower for charge and transformer.  *)
Projected(snapshot, requested) ==
    AtMost(EquipmentLimit(snapshot)) \cap AtMost(requested)

Approves(record) == {a \in record.approvals : a.vote = "approve"}

Vetoed(record) == \E a \in record.approvals : a.vote = "reject"

(* A reply carries a copy of the record.                                   *)
Show(d) == seen' = [seen EXCEPT ![d] = mem[d].approvals]

-----------------------------------------------------------------------------
Init ==
    /\ sim \in Constructed
    /\ mem = EmptyStore
    /\ disk = EmptyStore
    /\ op = Idle
    /\ commands = [d \in Decisions |-> <<>>]
    /\ seen = [d \in Decisions |-> {}]
    /\ unread = FALSE

(* create(): a known key is answered from memory.                          *)
CreateReplay(d) ==
    /\ LockFree
    /\ mem[d].status # "absent"
    /\ Show(d)
    /\ UNCHANGED <<sim, mem, disk, op, commands, unread>>

(* create(): gate, forecast and recommendation on one snapshot.  The risk  *)
(* level decides how many approvals are required.  A closed gate raises.   *)
CreateBegin(d, requester, required) ==
    /\ LockFree
    /\ mem[d].status = "absent"
    /\ \E snapshot \in Snapshots(sim) :
          /\ sim' = snapshot
          /\ IF GateOpen(snapshot)
             THEN \E c \in Projected(snapshot, Full) :
                    LET record == [Absent EXCEPT
                                     !.status = "awaiting_approval",
                                     !.requester = requester,
                                     !.required = required,
                                     !.command = c]
                    IN  op' = [Auditing("create", d) EXCEPT
                                 !.draft = WithEvent(record,
                                             "recommendation_created")]
             ELSE UNCHANGED op
    /\ UNCHANGED <<mem, disk, commands, seen, unread>>

(* approve(): a key already used on this decision is answered.             *)
ApproveReplay(d, k) ==
    /\ LockFree
    /\ \E a \in mem[d].approvals : a.key = k
    /\ Show(d)
    /\ UNCHANGED <<sim, mem, disk, op, commands, unread>>

(* Mutant: one approval is enough at any risk level.                       *)
MutantStatusAfter(record, vote) ==
    IF vote = "reject" THEN "rejected"
    ELSE IF Cardinality(Approves(record)) >= 1
         THEN "approved" ELSE "awaiting_approval"

StatusAfter(record, vote) ==
    IF vote = "reject" THEN "rejected"
    ELSE IF Cardinality(Approves(record)) >= record.required
         THEN "approved" ELSE "awaiting_approval"

(* Mutants: a second vote of one person, and a vote after a veto.          *)
MutantSecondVote(record, approver) ==
    /\ record.status \in {"awaiting_approval", "approved"}
    /\ approver # record.requester

MutantLateVote(record, approver) ==
    /\ record.status # "absent"
    /\ approver # record.requester
    /\ \A a \in record.approvals : a.by # approver

MayApprove(record, approver) ==
    /\ record.status \in {"awaiting_approval", "approved"}
    /\ approver # record.requester
    /\ \A a \in record.approvals : a.by # approver

(* approve(): a first vote of somebody else than the requester, also after *)
(* a quorum, when an aye changes nothing and a veto rejects.               *)
ApproveBegin(d, approver, vote, k) ==
    LET voted == [mem[d] EXCEPT
                    !.approvals = @ \cup {[by |-> approver, vote |-> vote,
                                           key |-> k]}]
    IN  /\ LockFree
        /\ \A a \in mem[d].approvals : a.key # k
        /\ MayApprove(mem[d], approver)
        /\ mem' = [mem EXCEPT ![d] =
                     WithEvent([voted EXCEPT !.status =
                                  StatusAfter(voted, vote)],
                               "approval_recorded")]
        /\ op' = Auditing("approve", d)
        /\ UNCHANGED <<sim, disk, commands, seen, unread>>

(* execute(): the key of the receipt is answered from memory.              *)
ExecuteReplay(d, k) ==
    /\ LockFree
    /\ mem[d].receipt.key = k
    /\ Show(d)
    /\ UNCHANGED <<sim, mem, disk, op, commands, unread>>

Blocked(record, k) ==
    WithEvent([record EXCEPT !.status = "execution_blocked",
                             !.receipt.state = "rejected",
                             !.receipt.key = k],
              "execution_rejected")

(* execute(): the gate is read again, and the recommended action projected *)
(* again on the current equipment limits.  The simulator's lock is free    *)
(* when this step ends.                                                    *)
ExecuteBegin(d, k) ==
    /\ LockFree
    /\ mem[d].receipt.key # k
    /\ mem[d].status = "approved"
    /\ \E current \in Snapshots(sim) :
          /\ sim' = current
          /\ \/ /\ ~GateOpen(current)
                /\ mem' = [mem EXCEPT ![d] = Blocked(@, k)]
                /\ op' = Auditing("execute", d)
             \/ /\ GateOpen(current)
                /\ \E c \in Projected(current, mem[d].command) :
                      op' = Applying("execute", d, k, c)
                /\ UNCHANGED mem
    /\ UNCHANGED <<disk, commands, seen, unread>>

(* What execute() writes into the record once apply_action has returned.   *)
Executed(record, k, c, before) ==
    WithEvent([record EXCEPT
                 !.status = "executed_simulation",
                 !.receipt = [state |-> "acknowledged", key |-> k,
                              applied |-> c,
                              limit |-> EquipmentLimit(before)],
                 !.rollback = [@ EXCEPT !.available = TRUE,
                                        !.action = before.power]],
              "simulation_execution_acknowledged")

(* rollback(): answered from memory for the key that rolled it back.       *)
RollbackReplay(d, k) ==
    /\ LockFree
    /\ mem[d].rollback.key = k
    /\ Show(d)
    /\ UNCHANGED <<sim, mem, disk, op, commands, unread>>

(* rollback(): projected on a snapshot whose gate it does not read.        *)
RollbackBegin(d, k) ==
    /\ LockFree
    /\ mem[d].rollback.key # k
    /\ mem[d].status = "executed_simulation"
    /\ mem[d].rollback.available
    /\ \E snapshot \in Snapshots(sim) :
          /\ sim' = snapshot
          /\ \E c \in Projected(snapshot, mem[d].rollback.action) :
                op' = Applying("rollback", d, k, c)
    /\ UNCHANGED <<mem, disk, commands, seen, unread>>

(* Mutant: the status still says that the decision can be rolled back.     *)
MutantRolledBack(record, k) ==
    WithEvent([record EXCEPT !.rollback.key = k],
              "simulation_rollback_acknowledged")

RolledBack(record, k) ==
    WithEvent([record EXCEPT !.status = "rolled_back_simulation",
                             !.rollback = [@ EXCEPT !.available = FALSE,
                                                    !.key = k]],
              "simulation_rollback_acknowledged")

(* apply_action() under the simulator's lock: it may tick first, reads the *)
(* gate once more, and raises through execute() or rollback() if closed.   *)
Apply ==
    /\ op.step = "apply"
    /\ \E before \in Snapshots(sim) :
          \/ /\ ~GateOpen(before)
             /\ sim' = before
             /\ op' = Idle
             /\ UNCHANGED <<mem, commands>>
          \/ /\ GateOpen(before)
             /\ sim' \in Ticks(before, {op.command})
             /\ commands' = [commands EXCEPT ![op.id] = Append(@, op.kind)]
             /\ mem' = [mem EXCEPT ![op.id] =
                          IF op.kind = "execute"
                          THEN Executed(@, op.key, op.command, before)
                          ELSE RolledBack(@, op.key)]
             /\ op' = Auditing(op.kind, op.id)
    /\ UNCHANGED <<disk, seen, unread>>

(* Mutant: approve() returns without _persist().                           *)
MutantPersisting(call) ==
    IF call.kind = "approve" THEN Idle
    ELSE [call EXCEPT !.step = "persist", !.draft = Absent]

Persisting(call) == [call EXCEPT !.step = "persist", !.draft = Absent]

(* audit_writer() returned: the record is hashed; a creation enters        *)
(* decisions and request_idempotency.                                      *)
AuditWrite ==
    /\ op.step = "audit"
    /\ mem' = [mem EXCEPT ![op.id] =
                 Sealed(IF op.kind = "create" THEN op.draft ELSE @)]
    /\ op' = Persisting(op)
    /\ UNCHANGED <<sim, disk, commands, seen, unread>>

(* audit_writer() raised: the call fails and leaves memory as it is.       *)
AuditFails ==
    /\ "audit" \in Faults
    /\ op.step = "audit"
    /\ op' = Idle
    /\ UNCHANGED <<sim, mem, disk, commands, seen, unread>>

(* What clients were shown and this store still has, once it is the file.  *)
Remaining == [d \in Decisions |-> seen[d] \cap mem[d].approvals]

(* _persist() replaces the file by the whole state; the call is answered.  *)
(* A store that began empty because the file was not read ends it here.    *)
Persist ==
    /\ op.step = "persist"
    /\ disk' = mem
    /\ seen' = [IF unread THEN Remaining ELSE seen EXCEPT
                  ![op.id] = mem[op.id].approvals]
    /\ unread' = FALSE
    /\ op' = Idle
    /\ UNCHANGED <<sim, mem, commands>>

(* Mutant: the file is written in place, so a write that raises leaves a   *)
(* torn one behind, which the next _load() takes for an empty store.       *)
MutantAfterRaise == EmptyStore

(* The temporary file takes the damage of a write that raises.             *)
AfterRaise == disk

(* _persist() raised: the file is the old one, memory the new one.         *)
PersistFails ==
    /\ "persist" \in Faults
    /\ op.step = "persist"
    /\ disk' = AfterRaise
    /\ op' = Idle
    /\ UNCHANGED <<sim, mem, commands, seen, unread>>

(* get(), list(), audit(): a reader sees the memory.                       *)
Get(d) ==
    /\ LockFree
    /\ Show(d)
    /\ UNCHANGED <<sim, mem, disk, op, commands, unread>>

(* _load(): a file that cannot be read or parsed, or is not of this schema,*)
(* is passed over without a word, and the store is empty; the file stays.  *)
ReadFails == IF "read" \in Faults THEN BOOLEAN ELSE {FALSE}

Loaded(failed) == IF failed THEN EmptyStore ELSE disk

(* The process stops and starts again: _load() reads the file or fails to, *)
(* and a new simulator is constructed.                                     *)
Crash ==
    /\ "crash" \in Faults
    /\ sim' \in Constructed
    /\ unread' \in ReadFails
    /\ mem' = Loaded(unread')
    /\ op' = Idle
    /\ commands' = [d \in Decisions |-> <<>>]
    /\ UNCHANGED <<disk, seen>>

(* Requests to the simulator itself, in any state of the decision service. *)
SimulatorRequest ==
    /\ \/ sim' \in Snapshots(sim)
       \/ sim' \in Started(sim)
       \/ sim' \in Stopped(sim)
       \/ sim' \in Advanced(sim)
       \/ \E scenario \in Scenarios, n \in 1..MaxDuration :
             sim' \in Injected(sim, scenario, n)
    /\ UNCHANGED service

SimulatorReset == sim' \in Constructed /\ UNCHANGED service

Request ==
    \E d \in Decisions :
        \/ CreateReplay(d)
        \/ \E p \in Principals, n \in 1..2 : CreateBegin(d, p, n)
        \/ Get(d)
        \/ \E k \in Keys :
              \/ ApproveReplay(d, k)
              \/ \E p \in Principals, v \in {"approve", "reject"} :
                    ApproveBegin(d, p, v, k)
              \/ ExecuteReplay(d, k)
              \/ ExecuteBegin(d, k)
              \/ RollbackReplay(d, k)
              \/ RollbackBegin(d, k)

Next ==
    \/ Request
    \/ Apply
    \/ AuditWrite
    \/ AuditFails
    \/ Persist
    \/ PersistFails
    \/ Crash
    \/ SimulatorRequest
    \/ SimulatorReset

Spec == Init /\ [][Next]_vars

-----------------------------------------------------------------------------
(* Properties.                                                             *)

TypeOK ==
    /\ sim \in SimState
    /\ mem \in [Decisions -> Records]
    /\ disk \in [Decisions -> Records]
    /\ op \in Ops
    /\ op.step # "idle" => op.id \in Decisions
    /\ op.step = "apply" =>
          op.kind \in {"execute", "rollback"} /\ op.key \in Keys
    /\ commands \in [Decisions -> Seq({"execute", "rollback"})]
    /\ seen \in [Decisions -> SUBSET Approvals]
    /\ unread \in BOOLEAN

(* The statuses that a record reaches only through a quorum.               *)
QuorumStatuses == {"approved", "execution_blocked", "executed_simulation",
                   "rolled_back_simulation"}

(* A record whose approvals authorise its command: enough of them, from    *)
(* different people, none the requester, none a veto.                      *)
Authorised(record) ==
    /\ Cardinality(record.approvals) >= record.required
    /\ \A a \in record.approvals :
          /\ a.vote = "approve"
          /\ a.by # record.requester
    /\ \A a, b \in record.approvals : a.by = b.by => a = b

(* Whatever fails and whenever the process restarts, the simulator gets    *)
(* commands only for decisions with a full, distinct, veto-free set of     *)
(* approvals, and memory and file never say "executed" without one.        *)
ExecutionAuthorised ==
    \A d \in Decisions :
        /\ commands[d] # <<>> => Authorised(mem[d])
        /\ \A record \in {mem[d], disk[d]} :
              record.status \in QuorumStatuses => Authorised(record)

(* Retries, failed writes and replays notwithstanding, one simulator never *)
(* gets a decision's command twice, nor its rollback twice or first.  (A   *)
(* rollback alone is a decision executed before a restart.)                *)
CommandsInOrder ==
    \A d \in Decisions :
        commands[d] \in {<<>>, <<"execute">>, <<"rollback">>,
                         <<"execute", "rollback">>}

(* Why the two hold: every record is lawful at all times, the commands     *)
(* sent fit the status in memory, and so does the call in flight.          *)
Lawful(record) ==
    /\ \A a \in record.approvals : a.by # record.requester
    /\ \A a, b \in record.approvals : a.by = b.by => a = b
    /\ record.status # "rejected" =>
          \A a \in record.approvals : a.vote = "approve"
    /\ record.status \in QuorumStatuses =>
          Cardinality(record.approvals) >= record.required

CommandsFit(d) ==
    /\ commands[d] # <<>> =>
          mem[d].status \in {"executed_simulation", "rolled_back_simulation"}
    /\ mem[d].status = "executed_simulation" =>
          commands[d] \in {<<>>, <<"execute">>}
    /\ commands[d] \in {<<>>, <<"execute">>, <<"rollback">>,
                        <<"execute", "rollback">>}

CallFits ==
    /\ op.step = "apply" =>
          mem[op.id].status = IF op.kind = "execute" THEN "approved"
                                                     ELSE "executed_simulation"
    /\ op.step = "audit" /\ op.kind = "create" =>
          /\ mem[op.id].status = "absent"
          /\ op.draft.status = "awaiting_approval"
          /\ op.draft.approvals = {}

AuthorityInvariant ==
    /\ \A d \in Decisions :
          Lawful(mem[d]) /\ Lawful(disk[d]) /\ CommandsFit(d)
    /\ CallFits

(* A command rests on approvals that are in the state file already, so a   *)
(* crash right after it cannot lose what authorised it.                    *)
AuthorityIsDurable ==
    \A d \in Decisions : commands[d] # <<>> => Authorised(disk[d])

(* An approval or veto that a client has been shown is in memory, restarts *)
(* notwithstanding, unless the process started without reading its file;   *)
(* and then it is still in the file, until the first write of that process *)
(* replaces it.                                                            *)
AcknowledgedVoteSurvives ==
    \A d \in Decisions :
        /\ seen[d] \subseteq disk[d].approvals
        /\ unread \/ seen[d] \subseteq mem[d].approvals

(* Between calls, record_sha256 is the hash of every record: audit()       *)
(* reports record_sha256_valid.                                            *)
RecordHashValid ==
    LockFree => \A d \in Decisions : mem[d].sealed /\ disk[d].sealed

(* The audit log is written ahead of the state file: an event that is      *)
(* durable in a record has its hash in the audit log.                      *)
DurableEventsAudited ==
    \A d \in Decisions : \A i \in DOMAIN disk[d].events :
        disk[d].events[i].audited

(* A write of the state file forgets nothing: events are only appended,    *)
(* approvals only added, and a receipt or a rejection is never replaced.   *)
(* Only the first write of a process that started without reading the file *)
(* may; a restart alone, a write that raises, and every other write never. *)
Extends(new, old) ==
    /\ Len(new.events) >= Len(old.events)
    /\ \A i \in DOMAIN old.events : new.events[i].type = old.events[i].type
    /\ old.approvals \subseteq new.approvals
    /\ old.receipt.state # "none" => new.receipt = old.receipt
    /\ old.status = "rejected" => new.status = "rejected"

DurableHistoryGrows ==
    [][unread \/ \A d \in Decisions : Extends(disk'[d], disk[d])]_disk

(* Whatever command a stale projection sends, a published snapshot never   *)
(* shows full battery power at 50 C or under injected over-temperature.    *)
ThermalEnvelope ==
    sim.power = Full => /\ sim.temp # "critical"
                        /\ sim.scenario # "battery_overtemperature"

-----------------------------------------------------------------------------
(* Refinement: the state file, seen as the ledger of DecisionLifecycle.    *)

Entry(record) ==
    [stage     |-> record.status,
     requester |-> record.requester,
     required  |-> record.required,
     ayes      |-> {a.by : a \in Approves(record)},
     noes      |-> {a.by : a \in record.approvals \ Approves(record)}]

Lifecycle == INSTANCE DecisionLifecycle
                 WITH ledger <- [d \in Decisions |-> Entry(disk[d])],
                      astray <- unread

(* The file takes one promised lifecycle step at a time, also across       *)
(* crashes; it starts over only in a process that could not read it.       *)
ImplementsLifecycle == Lifecycle!Spec

=============================================================================
