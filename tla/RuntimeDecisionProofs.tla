----------------------- MODULE RuntimeDecisionProofs ------------------------
(***************************************************************************)
(* Theorems about RuntimeDecision, for any sets of decisions, people and   *)
(* keys, any injected scenarios and any combination of faults.             *)
(*                                                                         *)
(* First its types; then, that the simulator receives commands only for    *)
(* decisions that enough distinct people approved and nobody vetoed, each  *)
(* of them once and in order: whatever writes fail, whenever the process   *)
(* restarts, whoever drives the simulator meanwhile.                       *)
(*                                                                         *)
(* Then, what the state file keeps.  Whatever fails, a write only adds to  *)
(* it, but for the first one of a process that started without reading it: *)
(* memory is ahead of the file (Extends) unless unread, a record has no    *)
(* receipt before it is executed or blocked and an absent one is blank, so *)
(* that nothing is overwritten (HistoryInvariant).  When writes do not     *)
(* fail, but the process may stop between any two steps and start without  *)
(* its file, memory agrees with what it was loaded from (Base) except on   *)
(* the record of the call in flight (Settled): what was approved, shown,   *)
(* hashed or commanded is durable.                                         *)
(***************************************************************************)
EXTENDS RuntimeDecision, SequenceTheorems, FiniteSetTheorems, TLAPS

-----------------------------------------------------------------------------
(* The simulator's operators stay within SimState.                         *)

(* A tick of a well-typed simulator, _advance_one, leaves it well-typed.   *)
LEMMA TicksType ==
    ASSUME NEW s \in SimState, NEW commandSet \in SUBSET Levels
    PROVE  Ticks(s, commandSet) \subseteq SimState
<1>1. SUFFICES ASSUME NEW t \in Ticks(s, commandSet)
               PROVE  t \in SimState
  OBVIOUS
<1>2. ActiveScenario(s) \in Scenarios
  BY ScenariosAssumption DEF ActiveScenario, SimState
<1>3. LeftAfterTick(s) \in 0..MaxDuration
  BY MaxDurationAssumption DEF LeftAfterTick, SimState
<1>4. NextBands(s.temp, ActiveScenario(s)) \subseteq Bands
  BY DEF NextBands, SimState, Bands
<1>5. PICK c \in commandSet, b \in NextBands(s.temp, ActiveScenario(s)),
           p \in Levels, sound \in BOOLEAN :
           t = [running  |-> s.running,
                scenario |-> ActiveScenario(s),
                left     |-> LeftAfterTick(s),
                temp     |-> b,
                power    |-> p,
                allowed  |-> DecisionAllowed(s.running, ActiveScenario(s), b, sound)]
  BY DEF Ticks, AtMost
<1> QED
  BY <1>2, <1>3, <1>4, <1>5 DEF SimState, DecisionAllowed

(* So do the other methods.                                                *)
LEMMA SimulatorType ==
    ASSUME NEW s \in SimState
    PROVE  /\ Snapshots(s) \subseteq SimState
           /\ Started(s) \subseteq SimState
           /\ Stopped(s) \subseteq SimState
           /\ Advanced(s) \subseteq SimState
           /\ Constructed \subseteq SimState
           /\ \A scenario \in Scenarios, n \in 1..MaxDuration :
                 Injected(s, scenario, n) \subseteq SimState
<1>1. Fresh \in SimState
  BY MaxDurationAssumption, ScenariosAssumption
  DEF Fresh, SimState, Bands, Levels
<1>2. [s EXCEPT !.running = TRUE] \in SimState
  BY DEF SimState
<1>3. [s EXCEPT !.running = FALSE] \in SimState
  BY DEF SimState
<1>4. ASSUME NEW scenario \in Scenarios, NEW n \in 1..MaxDuration
      PROVE  [s EXCEPT !.scenario = scenario,
                       !.left = IF scenario = "normal" THEN 0 ELSE n]
                \in SimState
  <2>1. (IF scenario = "normal" THEN 0 ELSE n) \in 0..MaxDuration
    BY MaxDurationAssumption
  <2> QED
    BY <2>1 DEF SimState
<1> QED
  BY <1>1, <1>2, <1>3, <1>4, TicksType
  DEF Snapshots, Started, Stopped, Advanced, Constructed, Injected, IdleTicks

-----------------------------------------------------------------------------
(* What the operators on records return.                                   *)

(* _append_record_event keeps a record well-typed.                         *)
LEMMA WithEventType ==
    ASSUME NEW record \in Records, NEW type \in EventTypes
    PROVE  WithEvent(record, type) \in Records
<1>1. [type |-> type, audited |-> FALSE] \in Events
  BY DEF Events
<1>2. Append(record.events, [type |-> type, audited |-> FALSE]) \in Seq(Events)
  BY <1>1 DEF Records
<1> QED
  BY <1>2 DEF WithEvent, Records

(* Hashing the record after the audit write keeps it well-typed.           *)
LEMMA SealedType ==
    ASSUME NEW record \in Records
    PROVE  Sealed(record) \in Records
<1> DEFINE es == record.events
           fs == [i \in DOMAIN es |->
                    IF i = Len(es) THEN [es[i] EXCEPT !.audited = TRUE] ELSE es[i]]
<1>1. es \in Seq(Events)
  BY DEF Records
<1>2. /\ Len(es) \in Nat
      /\ DOMAIN es = 1..Len(es)
      /\ \A i \in DOMAIN es : es[i] \in Events
  BY <1>1
<1>3. ASSUME NEW e \in Events
      PROVE  [e EXCEPT !.audited = TRUE] \in Events
  BY DEF Events
<1>4. fs \in [1..Len(es) -> Events]
  BY <1>2, <1>3
<1>5. fs \in Seq(Events)
  BY <1>2, <1>4
<1>6. Sealed(record) = [record EXCEPT !.events = fs, !.sealed = TRUE]
  BY DEF Sealed
<1> QED
  BY <1>5, <1>6 DEF Records

(* The parts of a record that no event and no hash changes.                *)
LEMMA WithEventFields ==
    ASSUME NEW record \in Records, NEW type \in EventTypes
    PROVE  LET new == WithEvent(record, type)
           IN  /\ new.status = record.status
               /\ new.requester = record.requester
               /\ new.required = record.required
               /\ new.approvals = record.approvals
               /\ new.receipt = record.receipt
BY DEF WithEvent, Records

LEMMA SealedFields ==
    ASSUME NEW record \in Records
    PROVE  /\ Sealed(record).status = record.status
           /\ Sealed(record).requester = record.requester
           /\ Sealed(record).required = record.required
           /\ Sealed(record).approvals = record.approvals
           /\ Sealed(record).receipt = record.receipt
BY DEF Sealed, Records

LEMMA AbsentType == Absent \in Records
<1>1. <<>> \in Seq(Events)
  OBVIOUS
<1> QED
  BY <1>1 DEF Absent, Records, NoReceipt, NoRollback, Receipts, Rollbacks,
              Statuses, Levels

LEMMA OpsType ==
    /\ Idle \in Ops
    /\ \A kind \in {"create", "approve", "execute", "rollback"}, d \in Decisions :
          /\ Auditing(kind, d) \in Ops
          /\ Auditing(kind, d).id = d
          /\ Auditing(kind, d).step = "audit"
          /\ Auditing(kind, d).kind = kind
          /\ Auditing(kind, d).draft = Absent
          /\ \A k \in Keys, c \in Levels :
                /\ Applying(kind, d, k, c) \in Ops
                /\ Applying(kind, d, k, c).id = d
                /\ Applying(kind, d, k, c).step = "apply"
                /\ Applying(kind, d, k, c).kind = kind
                /\ Applying(kind, d, k, c).key = k
<1>1. Idle \in Ops
  BY AbsentType DEF Idle, Ops, Levels
<1>2. ASSUME NEW kind \in {"create", "approve", "execute", "rollback"},
             NEW d \in Decisions
      PROVE  /\ Auditing(kind, d) \in Ops
             /\ Auditing(kind, d).id = d
             /\ Auditing(kind, d).step = "audit"
             /\ Auditing(kind, d).kind = kind
             /\ Auditing(kind, d).draft = Absent
  BY AbsentType DEF Idle, Auditing, Ops, Levels
<1>3. ASSUME NEW kind \in {"create", "approve", "execute", "rollback"},
             NEW d \in Decisions, NEW k \in Keys, NEW c \in Levels
      PROVE  /\ Applying(kind, d, k, c) \in Ops
             /\ Applying(kind, d, k, c).id = d
             /\ Applying(kind, d, k, c).step = "apply"
             /\ Applying(kind, d, k, c).kind = kind
             /\ Applying(kind, d, k, c).key = k
  BY AbsentType DEF Idle, Applying, Ops
<1> QED
  BY <1>1, <1>2, <1>3

(* What execute() and rollback() make of a record is a record.             *)
LEMMA BlockedType ==
    ASSUME NEW record \in Records, NEW k \in Keys
    PROVE  Blocked(record, k) \in Records
<1>1. [record EXCEPT !.status = "execution_blocked",
                     !.receipt.state = "rejected",
                     !.receipt.key = k] \in Records
  BY DEF Records, Receipts, Statuses
<1> QED
  BY <1>1, WithEventType DEF Blocked, EventTypes

LEMMA ExecutedType ==
    ASSUME NEW record \in Records, NEW k \in Keys, NEW c \in Levels,
           NEW before \in SimState
    PROVE  Executed(record, k, c, before) \in Records
<1>1. EquipmentLimit(before) \in Levels
  BY DEF EquipmentLimit, ThermalLimit, Levels
<1>2. [state |-> "acknowledged", key |-> k, applied |-> c,
       limit |-> EquipmentLimit(before)] \in Receipts
  BY <1>1 DEF Receipts
<1>3. [record.rollback EXCEPT !.available = TRUE, !.action = before.power]
        \in Rollbacks
  BY DEF Records, Rollbacks, SimState
<1>4. [record EXCEPT
         !.status = "executed_simulation",
         !.receipt = [state |-> "acknowledged", key |-> k, applied |-> c,
                      limit |-> EquipmentLimit(before)],
         !.rollback = [@ EXCEPT !.available = TRUE, !.action = before.power]]
        \in Records
  BY <1>2, <1>3 DEF Records, Statuses
<1> QED
  BY <1>4, WithEventType DEF Executed, EventTypes

LEMMA RolledBackType ==
    ASSUME NEW record \in Records, NEW k \in Keys
    PROVE  RolledBack(record, k) \in Records
<1>1. [record.rollback EXCEPT !.available = FALSE, !.key = k] \in Rollbacks
  BY DEF Records, Rollbacks
<1>2. [record EXCEPT !.status = "rolled_back_simulation",
                     !.rollback = [@ EXCEPT !.available = FALSE, !.key = k]]
        \in Records
  BY <1>1 DEF Records, Statuses
<1> QED
  BY <1>2, WithEventType DEF RolledBack, EventTypes

-----------------------------------------------------------------------------
(* Type correctness.                                                       *)

LEMMA TypeInit == Init => TypeOK
<1> SUFFICES ASSUME Init PROVE TypeOK
  OBVIOUS
<1>1. sim \in SimState
  <2>1. Fresh \in SimState
    BY MaxDurationAssumption, ScenariosAssumption
    DEF Fresh, SimState, Bands, Levels
  <2> QED
    BY <2>1, SimulatorType DEF Init
<1>2. \A d \in Decisions : <<>> \in Seq({"execute", "rollback"})
  OBVIOUS
<1> QED
  BY <1>1, <1>2, AbsentType, OpsType DEF Init, TypeOK, Idle, EmptyStore

LEMMA TypeStep == TypeOK /\ [Next]_vars => TypeOK'
<1> SUFFICES ASSUME TypeOK, [Next]_vars PROVE TypeOK'
  OBVIOUS
<1> USE DEF TypeOK
<1>sim. \A s \in SimState : /\ Snapshots(s) \subseteq SimState
                           /\ \A c \in Levels : Ticks(s, {c}) \subseteq SimState
  BY SimulatorType, TicksType
<1>show. ASSUME NEW d \in Decisions, Show(d)
         PROVE  seen' \in [Decisions -> SUBSET Approvals]
  BY <1>show DEF Show, Records
<1>1. ASSUME NEW d \in Decisions, CreateReplay(d) PROVE TypeOK'
  BY <1>1, <1>show DEF CreateReplay
<1>2. ASSUME NEW d \in Decisions, NEW p \in Principals, NEW n \in 1..2,
             CreateBegin(d, p, n)
      PROVE  TypeOK'
  <2>1. PICK snapshot \in Snapshots(sim) :
           /\ sim' = snapshot
           /\ IF GateOpen(snapshot)
              THEN \E c \in Projected(snapshot, Full) :
                     LET record == [Absent EXCEPT
                                     !.status = "awaiting_approval",
                                     !.requester = p,
                                     !.required = n,
                                     !.command = c]
                     IN  op' = [Auditing("create", d) EXCEPT
                                 !.draft = WithEvent(record,
                                             "recommendation_created")]
              ELSE UNCHANGED op
    BY <1>2 DEF CreateBegin
  <2>2. CASE op' = op
    BY <1>2, <1>sim, <2>1, <2>2 DEF CreateBegin
  <2>3. ASSUME NEW c \in Levels,
               op' = [Auditing("create", d) EXCEPT
                        !.draft = WithEvent([Absent EXCEPT
                                     !.status = "awaiting_approval",
                                     !.requester = p,
                                     !.required = n,
                                     !.command = c], "recommendation_created")]
        PROVE  TypeOK'
    <3>1. [Absent EXCEPT !.status = "awaiting_approval", !.requester = p,
                         !.required = n, !.command = c] \in Records
      BY AbsentType DEF Records, Statuses
    <3>2. WithEvent([Absent EXCEPT !.status = "awaiting_approval",
                                   !.requester = p, !.required = n,
                                   !.command = c],
                    "recommendation_created") \in Records
      BY <3>1, WithEventType DEF EventTypes
    <3>3. /\ Auditing("create", d) \in Ops
          /\ Auditing("create", d).id = d
          /\ Auditing("create", d).step = "audit"
      BY OpsType
    <3>4. op' \in Ops /\ op'.id \in Decisions /\ op'.step = "audit"
      BY <2>3, <3>2, <3>3 DEF Ops
    <3> QED
      BY <1>2, <1>sim, <2>1, <3>4 DEF CreateBegin
  <2> QED
    BY <2>1, <2>2, <2>3 DEF Projected, AtMost
<1>3. ASSUME NEW d \in Decisions, Get(d) PROVE TypeOK'
  BY <1>3, <1>show DEF Get
<1>4. ASSUME NEW d \in Decisions, NEW k \in Keys, ApproveReplay(d, k)
      PROVE  TypeOK'
  BY <1>4, <1>show DEF ApproveReplay
<1>5. ASSUME NEW d \in Decisions, NEW k \in Keys, NEW p \in Principals,
             NEW v \in {"approve", "reject"}, ApproveBegin(d, p, v, k)
      PROVE  TypeOK'
  <2> DEFINE a == [by |-> p, vote |-> v, key |-> k]
             voted == [mem[d] EXCEPT !.approvals = @ \cup {a}]
             new == [voted EXCEPT !.status = StatusAfter(voted, v)]
  <2>1. a \in Approvals
    BY DEF Approvals
  <2>2. mem[d] \in Records
    OBVIOUS
  <2>3. voted \in Records
    BY <2>1, <2>2 DEF Records
  <2>4. StatusAfter(voted, v) \in Statuses
    BY DEF StatusAfter, Statuses
  <2>5. new \in Records
    BY <2>3, <2>4 DEF Records
  <2>6. WithEvent(new, "approval_recorded") \in Records
    BY <2>5, WithEventType DEF EventTypes
  <2>7. mem' = [mem EXCEPT ![d] = WithEvent(new, "approval_recorded")]
    BY <1>5 DEF ApproveBegin
  <2>8. mem' \in [Decisions -> Records]
    BY <2>6, <2>7
  <2> QED
    BY <1>5, <2>8, OpsType DEF ApproveBegin, Auditing, Idle
<1>6. ASSUME NEW d \in Decisions, NEW k \in Keys, ExecuteReplay(d, k)
      PROVE  TypeOK'
  BY <1>6, <1>show DEF ExecuteReplay
<1>7. ASSUME NEW d \in Decisions, NEW k \in Keys, ExecuteBegin(d, k)
      PROVE  TypeOK'
  <2>1. sim' \in SimState
    BY <1>7, <1>sim DEF ExecuteBegin
  <2>2. mem' \in [Decisions -> Records]
    <3>1. Blocked(mem[d], k) \in Records
      BY BlockedType
    <3>2. mem' = mem \/ mem' = [mem EXCEPT ![d] = Blocked(mem[d], k)]
      BY <1>7 DEF ExecuteBegin
    <3> QED
      BY <3>1, <3>2
  <2>3. /\ op' \in Ops
        /\ op'.id \in Decisions
        /\ op'.step = "audit" \/ (op'.step = "apply" /\ op'.kind = "execute" /\ op'.key = k)
    <3>1. \/ op' = Auditing("execute", d)
          \/ \E c \in Levels : op' = Applying("execute", d, k, c)
      BY <1>7 DEF ExecuteBegin, Projected, AtMost
    <3> QED
      BY <3>1, OpsType
  <2> QED
    BY <1>7, <2>1, <2>2, <2>3 DEF ExecuteBegin
<1>8. ASSUME NEW d \in Decisions, NEW k \in Keys, RollbackReplay(d, k)
      PROVE  TypeOK'
  BY <1>8, <1>show DEF RollbackReplay
<1>9. ASSUME NEW d \in Decisions, NEW k \in Keys, RollbackBegin(d, k)
      PROVE  TypeOK'
  <2>1. sim' \in SimState
    BY <1>9, <1>sim DEF RollbackBegin
  <2>2. /\ op' \in Ops
        /\ op'.id \in Decisions
        /\ op'.kind = "rollback" /\ op'.key = k
    <3>1. \E c \in Levels : op' = Applying("rollback", d, k, c)
      BY <1>9 DEF RollbackBegin, Projected, AtMost
    <3> QED
      BY <3>1, OpsType
  <2> QED
    BY <1>9, <2>1, <2>2 DEF RollbackBegin
<1>10. ASSUME Apply PROVE TypeOK'
  <2>0. /\ op.id \in Decisions
        /\ op.command \in Levels
        /\ mem[op.id] \in Records
    BY <1>10 DEF Apply, Ops
  <2>1. PICK before \in Snapshots(sim) :
           \/ /\ sim' = before
              /\ op' = Idle
              /\ UNCHANGED <<mem, commands>>
           \/ /\ sim' \in Ticks(before, {op.command})
              /\ commands' = [commands EXCEPT ![op.id] = Append(@, op.kind)]
              /\ mem' = [mem EXCEPT ![op.id] =
                           IF op.kind = "execute"
                           THEN Executed(@, op.key, op.command, before)
                           ELSE RolledBack(@, op.key)]
              /\ op' = Auditing(op.kind, op.id)
    BY <1>10 DEF Apply
  <2>2. before \in SimState
    BY <1>sim
  <2>3. CASE op' = Idle /\ sim' = before /\ UNCHANGED <<mem, commands>>
    BY <1>10, <2>2, <2>3, OpsType DEF Apply, Idle
  <2>4. CASE /\ sim' \in Ticks(before, {op.command})
             /\ commands' = [commands EXCEPT ![op.id] = Append(@, op.kind)]
             /\ mem' = [mem EXCEPT ![op.id] =
                          IF op.kind = "execute"
                          THEN Executed(@, op.key, op.command, before)
                          ELSE RolledBack(@, op.key)]
             /\ op' = Auditing(op.kind, op.id)
    <3>1. sim' \in SimState
      BY <1>sim, <2>0, <2>2, <2>4
    <3>2. op.kind \in {"execute", "rollback"} /\ op.key \in Keys
      BY <1>10 DEF Apply
    <3>3. op' \in Ops /\ op'.id \in Decisions /\ op'.step = "audit"
      BY <2>0, <2>4, <3>2, OpsType
    <3>4. mem' \in [Decisions -> Records]
      BY <2>0, <2>2, <2>4, <3>2, ExecutedType, RolledBackType
    <3>5. commands' \in [Decisions -> Seq({"execute", "rollback"})]
      BY <2>0, <2>4, <3>2
    <3> QED
      BY <1>10, <3>1, <3>3, <3>4, <3>5 DEF Apply
  <2> QED
    BY <2>1, <2>3, <2>4
<1>11. ASSUME AuditWrite PROVE TypeOK'
  <2>1. op.id \in Decisions /\ op.draft \in Records /\ mem[op.id] \in Records
    BY <1>11 DEF AuditWrite, Ops
  <2>2. Sealed(op.draft) \in Records /\ Sealed(mem[op.id]) \in Records
    BY <2>1, SealedType
  <2>3. mem' \in [Decisions -> Records]
    BY <1>11, <2>2 DEF AuditWrite
  <2>4. op' \in Ops /\ op'.id = op.id
    BY <1>11, AbsentType DEF AuditWrite, Persisting, Ops
  <2> QED
    BY <1>11, <2>1, <2>3, <2>4 DEF AuditWrite, Persisting
<1>12. ASSUME AuditFails PROVE TypeOK'
  BY <1>12, OpsType DEF AuditFails, Idle
<1>13. ASSUME Persist PROVE TypeOK'
  <2>1. seen' \in [Decisions -> SUBSET Approvals]
    <3>1. \A d \in Decisions : mem[d].approvals \in SUBSET Approvals
      BY DEF Records
    <3>2. Remaining \in [Decisions -> SUBSET Approvals]
      BY <3>1 DEF Remaining
    <3>3. (IF unread THEN Remaining ELSE seen) \in [Decisions -> SUBSET Approvals]
      BY <3>2
    <3> HIDE DEF TypeOK
    <3>4. op.id \in Decisions
      BY <1>13 DEF Persist, TypeOK
    <3> QED
      BY <1>13, <3>1, <3>3, <3>4 DEF Persist
  <2> QED
    BY <1>13, <2>1, OpsType DEF Persist, Idle
<1>14. ASSUME PersistFails PROVE TypeOK'
  BY <1>14, OpsType DEF PersistFails, AfterRaise, Idle
<1>15. ASSUME Crash PROVE TypeOK'
  <2>1. sim' \in SimState
    BY <1>15, SimulatorType DEF Crash
  <2>2. commands' \in [Decisions -> Seq({"execute", "rollback"})]
    BY <1>15 DEF Crash
  <2>3. unread' \in BOOLEAN
    BY <1>15 DEF Crash, ReadFails
  <2>4. mem' \in [Decisions -> Records]
    BY <1>15, AbsentType DEF Crash, Loaded, EmptyStore
  <2> QED
    BY <1>15, <2>1, <2>2, <2>3, <2>4, OpsType DEF Crash, Idle
<1>16. ASSUME SimulatorRequest PROVE TypeOK'
  <2>1. sim' \in SimState
    BY <1>16, SimulatorType DEF SimulatorRequest
  <2> QED
    BY <1>16, <2>1 DEF SimulatorRequest, service
<1>17. ASSUME SimulatorReset PROVE TypeOK'
  <2>1. sim' \in SimState
    BY <1>17, SimulatorType DEF SimulatorReset
  <2> QED
    BY <1>17, <2>1 DEF SimulatorReset, service
<1>18. ASSUME UNCHANGED vars PROVE TypeOK'
  BY <1>18 DEF vars
<1> QED
  BY <1>1, <1>2, <1>3, <1>4, <1>5, <1>6, <1>7, <1>8, <1>9, <1>10, <1>11,
     <1>12, <1>13, <1>14, <1>15, <1>16, <1>17, <1>18 DEF Next, Request

(* Every reachable state of the closed loop is well-typed.                 *)
THEOREM TypeCorrect == Spec => []TypeOK
<1>1. Init => TypeOK
  BY TypeInit
<1>2. TypeOK /\ [Next]_vars => TypeOK'
  BY TypeStep
<1> QED
  BY <1>1, <1>2, PTL DEF Spec

-----------------------------------------------------------------------------
(* What the simulator receives.                                            *)

(* Appending to a sequence of one element.                                 *)
LEMMA AppendToOne ==
    ASSUME NEW a, NEW b
    PROVE  Append(<<a>>, b) = <<a, b>>
<1> DEFINE S == {a, b}
           one == <<a>>
           two == <<a, b>>
<1>1. one \in Seq(S) /\ Len(one) = 1 /\ one[1] = a
  OBVIOUS
<1>2. two \in Seq(S) /\ Len(two) = 2 /\ two[1] = a /\ two[2] = b
  OBVIOUS
<1>3. Append(one, b) \in Seq(S) /\ Len(Append(one, b)) = 2
  BY <1>1
<1>4. Append(one, b)[1] = a /\ Append(one, b)[2] = b
  BY <1>1
<1>5. \A i \in 1..Len(Append(one, b)) : Append(one, b)[i] = two[i]
  BY <1>2, <1>3, <1>4
<1>6. Append(one, b) = two
  <2> DEFINE longer == Append(one, b)
  <2> HIDE DEF one, two, longer, S
  <2> SUFFICES longer = two
    BY DEF longer
  <2> QED
    BY <1>2, <1>3, <1>5, SeqEqual DEF longer
<1> QED
  BY <1>6

(* What a new event leaves alone, for the records the calls build.         *)
LEMMA BlockedFields ==
    ASSUME NEW record \in Records, NEW k \in Keys
    PROVE  LET new == Blocked(record, k)
           IN  /\ new.status = "execution_blocked"
               /\ new.requester = record.requester
               /\ new.required = record.required
               /\ new.approvals = record.approvals
BY DEF Blocked, WithEvent, Records

LEMMA ExecutedFields ==
    ASSUME NEW record \in Records, NEW k, NEW c, NEW before
    PROVE  LET new == Executed(record, k, c, before)
           IN  /\ new.status = "executed_simulation"
               /\ new.requester = record.requester
               /\ new.required = record.required
               /\ new.approvals = record.approvals
BY DEF Executed, WithEvent, Records

LEMMA RolledBackFields ==
    ASSUME NEW record \in Records, NEW k
    PROVE  LET new == RolledBack(record, k)
           IN  /\ new.status = "rolled_back_simulation"
               /\ new.requester = record.requester
               /\ new.required = record.required
               /\ new.approvals = record.approvals
BY DEF RolledBack, WithEvent, Records

(* A record that keeps the approvals of a lawful one and moves on within   *)
(* the statuses behind a quorum, or keeps its status, is lawful.           *)
LEMMA LawfulKept ==
    ASSUME NEW old \in Records, NEW new \in Records, Lawful(old),
           new.requester = old.requester,
           new.required = old.required,
           new.approvals = old.approvals,
           \/ new.status = old.status
           \/ old.status \in QuorumStatuses /\ new.status \in QuorumStatuses
    PROVE  Lawful(new)
BY DEF Lawful, QuorumStatuses

(* A vote accepted by approve() leaves the record lawful.                  *)
LEMMA LawfulVote ==
    ASSUME NEW old \in Records, Lawful(old),
           old.status \in {"awaiting_approval", "approved"},
           NEW p \in Principals, NEW v \in {"approve", "reject"}, NEW k \in Keys,
           p # old.requester,
           \A a \in old.approvals : a.by # p,
           NEW new \in Records,
           new.requester = old.requester,
           new.required = old.required,
           new.approvals = old.approvals \cup {[by |-> p, vote |-> v, key |-> k]},
           new.status = StatusAfter(new, v)
    PROVE  Lawful(new) /\ new.status \in {"awaiting_approval", "approved", "rejected"}
<1> DEFINE vote == [by |-> p, vote |-> v, key |-> k]
<1>1. \A a \in new.approvals : a.by # new.requester
  BY DEF Lawful
<1>2. \A a, b \in new.approvals : a.by = b.by => a = b
  BY DEF Lawful
<1>3. CASE v = "reject"
  <2>1. new.status = "rejected"
    BY <1>3 DEF StatusAfter
  <2> QED
    BY <1>1, <1>2, <2>1 DEF Lawful, QuorumStatuses
<1>4. CASE v = "approve"
  <2>1. \A a \in new.approvals : a.vote = "approve"
    BY <1>4 DEF Lawful
  <2>2. Approves(new) = new.approvals
    BY <2>1 DEF Approves
  <2>3. new.status = IF Cardinality(new.approvals) >= new.required
                     THEN "approved" ELSE "awaiting_approval"
    BY <1>4, <2>2 DEF StatusAfter
  <2> QED
    BY <1>1, <1>2, <2>1, <2>3 DEF Lawful, QuorumStatuses
<1> QED
  BY <1>3, <1>4

-----------------------------------------------------------------------------
LEMMA AuthorityInit == Init => AuthorityInvariant
<1> SUFFICES ASSUME Init PROVE AuthorityInvariant
  OBVIOUS
<1>1. Lawful(Absent)
  BY DEF Lawful, Absent, QuorumStatuses
<1>2. \A d \in Decisions : CommandsFit(d)
  BY DEF Init, CommandsFit, Absent
<1>3. CallFits
  BY DEF Init, CallFits, Idle
<1> QED
  BY <1>1, <1>2, <1>3 DEF Init, AuthorityInvariant, EmptyStore

(* Steps that touch neither the records nor the commands: the invariant is *)
(* kept when the call ends or stays what it was.                           *)
LEMMA AuthorityFrame ==
    ASSUME AuthorityInvariant,
           UNCHANGED <<mem, commands>>,
           disk' = disk \/ disk' = mem,
           op' = op \/ op' = Idle
    PROVE  AuthorityInvariant'
<1>1. \A d \in Decisions : Lawful(mem'[d]) /\ Lawful(disk'[d])
  BY DEF AuthorityInvariant
<1>2. \A d \in Decisions : CommandsFit(d)'
  BY DEF AuthorityInvariant, CommandsFit
<1>3. CallFits'
  BY DEF AuthorityInvariant, CallFits, Idle
<1>4. \A d \in Decisions : Lawful(mem[d])' /\ Lawful(disk[d])'
  BY <1>1 DEF Lawful
<1> QED
  BY <1>2, <1>3, <1>4 DEF AuthorityInvariant

(* Every step of the service keeps the invariant.                          *)
LEMMA AuthorityStep ==
    TypeOK /\ AuthorityInvariant /\ [Next]_vars => AuthorityInvariant'
<1> SUFFICES ASSUME TypeOK, AuthorityInvariant, [Next]_vars
             PROVE  AuthorityInvariant'
  OBVIOUS
<1>mem. \A d \in Decisions : mem[d] \in Records /\ disk[d] \in Records
  BY DEF TypeOK
<1>typ. TypeOK'
  BY TypeStep
<1>inv. /\ \A d \in Decisions :
             /\ Lawful(mem[d])
             /\ Lawful(disk[d])
             /\ CommandsFit(d)
        /\ CallFits
  BY DEF AuthorityInvariant
<1>law. ASSUME \A d \in Decisions :
                 Lawful(mem'[d]) /\ Lawful(disk'[d]) /\ CommandsFit(d)',
               CallFits'
        PROVE  AuthorityInvariant'
  BY <1>law DEF AuthorityInvariant, Lawful
<1>1. ASSUME NEW d \in Decisions, CreateReplay(d) PROVE AuthorityInvariant'
  BY <1>1, AuthorityFrame DEF CreateReplay
<1>2. ASSUME NEW d \in Decisions, NEW p \in Principals, NEW n \in 1..2,
             CreateBegin(d, p, n)
      PROVE  AuthorityInvariant'
  <2>1. CASE op' = op
    BY <1>2, <2>1, AuthorityFrame DEF CreateBegin
  <2>2. CASE op' # op
    <3>1. PICK c \in Levels :
            op' = [Auditing("create", d) EXCEPT
                     !.draft = WithEvent([Absent EXCEPT
                                  !.status = "awaiting_approval",
                                  !.requester = p,
                                  !.required = n,
                                  !.command = c], "recommendation_created")]
      BY <1>2, <2>2 DEF CreateBegin, Projected, AtMost
    <3> DEFINE record == [Absent EXCEPT !.status = "awaiting_approval",
                                        !.requester = p,
                                        !.required = n,
                                        !.command = c]
    <3>2. record \in Records /\ record.status = "awaiting_approval"
                             /\ record.approvals = {}
      BY AbsentType DEF Records, Statuses, Absent
    <3>3. /\ Auditing("create", d) \in Ops
          /\ Auditing("create", d).id = d
          /\ Auditing("create", d).step = "audit"
      BY OpsType
    <3>4. op'.step = "audit" /\ op'.id = d /\ op'.draft = WithEvent(record, "recommendation_created")
      BY <3>1, <3>3 DEF Ops
    <3>5. op'.draft.status = "awaiting_approval" /\ op'.draft.approvals = {}
      BY <3>2, <3>4, WithEventFields DEF EventTypes
    <3>6. CallFits'
      BY <1>2, <3>4, <3>5 DEF CallFits, CreateBegin
    <3>7. \A e \in Decisions : CommandsFit(e)'
      BY <1>2, <1>inv DEF CommandsFit, CreateBegin
    <3> QED
      BY <1>2, <1>inv, <1>law, <3>6, <3>7 DEF CreateBegin
  <2> QED
    BY <2>1, <2>2
<1>3. ASSUME NEW d \in Decisions, Get(d) PROVE AuthorityInvariant'
  BY <1>3, AuthorityFrame DEF Get
<1>4. ASSUME NEW d \in Decisions, NEW k \in Keys, ApproveReplay(d, k)
      PROVE  AuthorityInvariant'
  BY <1>4, AuthorityFrame DEF ApproveReplay
<1>5. ASSUME NEW d \in Decisions, NEW k \in Keys, NEW p \in Principals,
             NEW v \in {"approve", "reject"}, ApproveBegin(d, p, v, k)
      PROVE  AuthorityInvariant'
  <2> DEFINE voted == [mem[d] EXCEPT !.approvals =
                         @ \cup {[by |-> p, vote |-> v, key |-> k]}]
             moved == [voted EXCEPT !.status = StatusAfter(voted, v)]
  <2>1. mem' = [mem EXCEPT ![d] = WithEvent(moved, "approval_recorded")]
    BY <1>5 DEF ApproveBegin
  <2>2. [by |-> p, vote |-> v, key |-> k] \in Approvals
    BY DEF Approvals
  <2>3. voted \in Records /\ voted.requester = mem[d].requester
                          /\ voted.required = mem[d].required
    BY <1>mem, <2>2 DEF Records
  <2>4. moved \in Records /\ moved.requester = mem[d].requester
                          /\ moved.required = mem[d].required
                          /\ moved.approvals = voted.approvals
                          /\ moved.status = StatusAfter(voted, v)
    <3>1. StatusAfter(voted, v) \in Statuses
      BY DEF StatusAfter, Statuses
    <3> QED
      BY <2>3, <3>1 DEF Records
  <2>5. mem'[d] \in Records
    BY <1>typ DEF TypeOK
  <2>6. /\ mem'[d].status = StatusAfter(voted, v)
        /\ mem'[d].requester = mem[d].requester
        /\ mem'[d].required = mem[d].required
        /\ mem'[d].approvals = voted.approvals
    BY <1>mem, <2>1, <2>4, WithEventFields DEF EventTypes, TypeOK
  <2>7. /\ mem[d].status \in {"awaiting_approval", "approved"}
        /\ p # mem[d].requester
        /\ \A a \in mem[d].approvals : a.by # p
    BY <1>5 DEF ApproveBegin, MayApprove
  <2>8. /\ Lawful(mem'[d])
        /\ mem'[d].status \in {"awaiting_approval", "approved", "rejected"}
    <3>1. voted.approvals =
            mem[d].approvals \cup {[by |-> p, vote |-> v, key |-> k]}
      BY <1>mem DEF Records
    <3>2. Approves(mem'[d]) = Approves(voted)
      BY <2>6 DEF Approves
    <3>3. StatusAfter(mem'[d], v) = StatusAfter(voted, v)
      BY <2>3, <2>6, <3>2 DEF StatusAfter
    <3> HIDE DEF voted
    <3> QED
      BY <1>mem, <1>inv, <2>5, <2>6, <2>7, <3>1, <3>3, LawfulVote
  <2>9. commands'[d] = <<>>
    BY <1>5, <1>inv, <2>7 DEF CommandsFit, ApproveBegin
  <2>10. \A e \in Decisions : e # d => mem'[e] = mem[e]
    BY <2>1 DEF TypeOK
  <2>11. \A e \in Decisions : CommandsFit(e)'
    BY <1>5, <1>inv, <2>8, <2>9, <2>10 DEF CommandsFit, ApproveBegin
  <2>12. CallFits'
    BY <1>5, OpsType DEF ApproveBegin, CallFits
  <2> QED
    BY <1>5, <1>inv, <1>law, <2>8, <2>10, <2>11, <2>12 DEF ApproveBegin
<1>6. ASSUME NEW d \in Decisions, NEW k \in Keys, ExecuteReplay(d, k)
      PROVE  AuthorityInvariant'
  BY <1>6, AuthorityFrame DEF ExecuteReplay
<1>7. ASSUME NEW d \in Decisions, NEW k \in Keys, ExecuteBegin(d, k)
      PROVE  AuthorityInvariant'
  <2>1. mem[d].status = "approved"
    BY <1>7 DEF ExecuteBegin
  <2>2. CASE /\ mem' = [mem EXCEPT ![d] = Blocked(@, k)]
             /\ op' = Auditing("execute", d)
    <3>1. mem'[d] = Blocked(mem[d], k) /\ \A e \in Decisions : e # d => mem'[e] = mem[e]
      BY <2>2 DEF TypeOK
    <3>2. Lawful(mem'[d]) /\ mem'[d].status = "execution_blocked"
      BY <1>mem, <1>inv, <2>1, <3>1, BlockedType, BlockedFields, LawfulKept
      DEF QuorumStatuses
    <3>3. \A e \in Decisions : CommandsFit(e)'
      BY <1>7, <1>inv, <2>1, <3>1, <3>2 DEF CommandsFit, ExecuteBegin
    <3>4. CallFits'
      BY <2>2, OpsType DEF CallFits
    <3> QED
      BY <1>7, <1>inv, <1>law, <3>1, <3>2, <3>3, <3>4 DEF ExecuteBegin
  <2>3. ASSUME NEW c \in Levels, op' = Applying("execute", d, k, c), mem' = mem
        PROVE  AuthorityInvariant'
    <3>1. \A e \in Decisions : CommandsFit(e)'
      BY <1>7, <1>inv, <2>3 DEF CommandsFit, ExecuteBegin
    <3>2. CallFits'
      BY <2>1, <2>3, OpsType DEF CallFits
    <3> QED
      BY <1>7, <1>inv, <1>law, <2>3, <3>1, <3>2 DEF ExecuteBegin
  <2> QED
    BY <1>7, <2>2, <2>3 DEF ExecuteBegin, Projected, AtMost
<1>8. ASSUME NEW d \in Decisions, NEW k \in Keys, RollbackReplay(d, k)
      PROVE  AuthorityInvariant'
  BY <1>8, AuthorityFrame DEF RollbackReplay
<1>9. ASSUME NEW d \in Decisions, NEW k \in Keys, RollbackBegin(d, k)
      PROVE  AuthorityInvariant'
  <2>1. PICK c \in Levels : op' = Applying("rollback", d, k, c)
    BY <1>9 DEF RollbackBegin, Projected, AtMost
  <2>2. \A e \in Decisions : CommandsFit(e)'
    BY <1>9, <1>inv DEF CommandsFit, RollbackBegin
  <2>3. CallFits'
    BY <1>9, <2>1, OpsType DEF CallFits, RollbackBegin
  <2> QED
    BY <1>9, <1>inv, <1>law, <2>2, <2>3 DEF RollbackBegin
<1>10. ASSUME Apply PROVE AuthorityInvariant'
  <2>0. op.id \in Decisions /\ op.kind \in {"execute", "rollback"} /\ op.key \in Keys
    BY <1>10 DEF Apply, TypeOK
  <2>1. CASE op' = Idle /\ UNCHANGED <<mem, commands>>
    BY <1>10, <2>1, AuthorityFrame DEF Apply
  <2>2. ASSUME NEW before \in Snapshots(sim),
               commands' = [commands EXCEPT ![op.id] = Append(@, op.kind)],
               mem' = [mem EXCEPT ![op.id] =
                         IF op.kind = "execute"
                         THEN Executed(@, op.key, op.command, before)
                         ELSE RolledBack(@, op.key)],
               op' = Auditing(op.kind, op.id)
        PROVE  AuthorityInvariant'
    <3>0. PICK d \in Decisions : d = op.id
      BY <2>0
    <3>1. /\ \A e \in Decisions : e # d => mem'[e] = mem[e] /\ commands'[e] = commands[e]
          /\ commands'[d] = Append(commands[d], op.kind)
      BY <2>0, <2>2, <3>0 DEF TypeOK
    <3>2. /\ op.kind = "execute" => mem'[d] = Executed(mem[d], op.key, op.command, before)
          /\ op.kind = "rollback" => mem'[d] = RolledBack(mem[d], op.key)
      BY <2>0, <2>2, <3>0 DEF TypeOK
    <3>3. mem'[d] \in Records
      BY <1>typ DEF TypeOK
    <3>4. mem[d].status = IF op.kind = "execute" THEN "approved"
                                                 ELSE "executed_simulation"
      BY <1>10, <1>inv, <3>0 DEF CallFits, Apply
    <3>5. /\ mem'[d].status = IF op.kind = "execute" THEN "executed_simulation"
                                                     ELSE "rolled_back_simulation"
          /\ mem'[d].requester = mem[d].requester
          /\ mem'[d].required = mem[d].required
          /\ mem'[d].approvals = mem[d].approvals
      BY <1>mem, <2>0, <3>2, ExecutedFields, RolledBackFields
    <3>6. Lawful(mem'[d])
      BY <1>mem, <1>inv, <2>0, <3>3, <3>4, <3>5, LawfulKept DEF QuorumStatuses
    <3>7. CommandsFit(d)'
      <4>1. CASE op.kind = "execute"
        <5>1. commands[d] = <<>>
          BY <1>inv, <2>0, <3>4, <4>1 DEF CommandsFit
        <5>2. commands'[d] = Append(<<>>, "execute")
          BY <3>1, <4>1, <5>1
        <5>3. commands'[d] = <<"execute">>
          BY <5>2
        <5> QED
          BY <3>5, <4>1, <5>3 DEF CommandsFit
      <4>2. CASE op.kind = "rollback"
        <5>1. commands[d] \in {<<>>, <<"execute">>}
          BY <1>inv, <2>0, <3>4, <4>2 DEF CommandsFit
        <5>2. commands'[d] \in {Append(<<>>, "rollback"),
                                Append(<<"execute">>, "rollback")}
          BY <3>1, <4>2, <5>1
        <5>3. Append(<<>>, "rollback") = <<"rollback">>
          OBVIOUS
        <5>4. Append(<<"execute">>, "rollback") = <<"execute", "rollback">>
          BY AppendToOne
        <5>5. commands'[d] \in {<<"rollback">>, <<"execute", "rollback">>}
          BY <5>2, <5>3, <5>4
        <5> QED
          BY <3>5, <4>2, <5>5 DEF CommandsFit
      <4> QED
        BY <2>0, <4>1, <4>2
    <3>8. \A e \in Decisions : CommandsFit(e)'
      BY <1>inv, <3>1, <3>7 DEF CommandsFit
    <3>9. CallFits'
      BY <2>0, <2>2, OpsType DEF CallFits
    <3> QED
      BY <1>10, <1>inv, <1>law, <3>1, <3>6, <3>8, <3>9 DEF Apply
  <2> QED
    BY <1>10, <2>1, <2>2 DEF Apply
<1>11. ASSUME AuditWrite PROVE AuthorityInvariant'
  <2>0. PICK d \in Decisions : d = op.id
    BY <1>11 DEF AuditWrite, TypeOK
  <2> DEFINE record == IF op.kind = "create" THEN op.draft ELSE mem[d]
  <2>1. op.id = d /\ op.draft \in Records /\ mem[d] \in Records
    BY <2>0 DEF TypeOK, Ops
  <2>2. mem'[d] = Sealed(record) /\ \A e \in Decisions : e # d => mem'[e] = mem[e]
    BY <1>11, <2>1 DEF AuditWrite, TypeOK
  <2>3. record \in Records
    BY <2>1
  <2>4. Lawful(record)
    BY <1>11, <1>inv, <2>1 DEF AuditWrite, CallFits, Lawful, QuorumStatuses
  <2> HIDE DEF record
  <2>5. /\ mem'[d].status = record.status
        /\ Lawful(mem'[d])
    BY <2>2, <2>3, <2>4, SealedFields, SealedType, LawfulKept
  <2>6. CommandsFit(d)'
    <3>1. CASE op.kind = "create"
      <4>1. commands[d] = <<>> /\ record.status = "awaiting_approval"
        BY <1>11, <1>inv, <2>1, <3>1 DEF AuditWrite, CallFits, CommandsFit, record
      <4> QED
        BY <1>11, <2>5, <4>1 DEF AuditWrite, CommandsFit
    <3>2. CASE op.kind # "create"
      BY <1>11, <1>inv, <2>1, <2>5, <3>2 DEF AuditWrite, CommandsFit, record
    <3> QED
      BY <3>1, <3>2
  <2>7. \A e \in Decisions : CommandsFit(e)'
    BY <1>11, <1>inv, <2>2, <2>6 DEF AuditWrite, CommandsFit
  <2>8. CallFits'
    BY <1>11 DEF AuditWrite, Persisting, CallFits, TypeOK, Ops
  <2> QED
    BY <1>11, <1>inv, <1>law, <2>2, <2>5, <2>7, <2>8 DEF AuditWrite, Persisting
<1>12. ASSUME AuditFails PROVE AuthorityInvariant'
  BY <1>12, AuthorityFrame DEF AuditFails
<1>13. ASSUME Persist PROVE AuthorityInvariant'
  BY <1>13, AuthorityFrame DEF Persist
<1>14. ASSUME PersistFails PROVE AuthorityInvariant'
  BY <1>14, AuthorityFrame DEF PersistFails, AfterRaise
<1>15. ASSUME Crash PROVE AuthorityInvariant'
  <2>1. \A d \in Decisions : CommandsFit(d)'
    BY <1>15 DEF Crash, CommandsFit
  <2>2. CallFits'
    BY <1>15 DEF Crash, CallFits, Idle
  <2>3. Lawful(Absent)
    BY DEF Lawful, Absent, QuorumStatuses
  <2>4. \A d \in Decisions : mem'[d] = Absent \/ mem'[d] = disk[d]
    BY <1>15 DEF Crash, Loaded, EmptyStore
  <2>5. \A d \in Decisions : Lawful(mem'[d])
    BY <1>inv, <2>3, <2>4
  <2> QED
    BY <1>15, <1>inv, <1>law, <2>1, <2>2, <2>5 DEF Crash
<1>16. ASSUME SimulatorRequest PROVE AuthorityInvariant'
  BY <1>16, AuthorityFrame DEF SimulatorRequest, service
<1>17. ASSUME SimulatorReset PROVE AuthorityInvariant'
  BY <1>17, AuthorityFrame DEF SimulatorReset, service
<1>18. ASSUME UNCHANGED vars PROVE AuthorityInvariant'
  BY <1>18, AuthorityFrame DEF vars
<1> QED
  BY <1>1, <1>2, <1>3, <1>4, <1>5, <1>6, <1>7, <1>8, <1>9, <1>10, <1>11,
     <1>12, <1>13, <1>14, <1>15, <1>16, <1>17, <1>18 DEF Next, Request

(* The inductive invariant holds in every reachable state.                 *)
THEOREM AuthorityHolds == Spec => []AuthorityInvariant
<1>1. Init => TypeOK /\ AuthorityInvariant
  BY TypeInit, AuthorityInit
<1>2. TypeOK /\ AuthorityInvariant /\ [Next]_vars
        => (TypeOK /\ AuthorityInvariant)'
  BY TypeStep, AuthorityStep
<1> QED
  BY <1>1, <1>2, PTL DEF Spec

(* No command reaches the simulator, and no record says "approved" or      *)
(* beyond, without a full, distinct, veto-free set of approvals.           *)
THEOREM ExecutionIsAuthorised == Spec => []ExecutionAuthorised
<1>1. TypeOK /\ AuthorityInvariant => ExecutionAuthorised
  BY DEF AuthorityInvariant, ExecutionAuthorised, Authorised, Lawful,
         CommandsFit, QuorumStatuses
<1> QED
  BY <1>1, TypeCorrect, AuthorityHolds, PTL

(* No simulator gets a command of a decision twice, or out of order.       *)
THEOREM CommandsAreInOrder == Spec => []CommandsInOrder
<1>1. AuthorityInvariant => CommandsInOrder
  BY DEF AuthorityInvariant, CommandsInOrder, CommandsFit
<1> QED
  BY <1>1, AuthorityHolds, PTL

-----------------------------------------------------------------------------
(* What the state file keeps.                                              *)

(* Statuses before the simulator is asked: no receipt is written yet.      *)
Unanswered == {"absent", "awaiting_approval", "approved", "rejected"}

Clean(record) ==
    /\ record.status \in Unanswered => record.receipt.state = "none"
    /\ record.status = "absent" => record.approvals = {} /\ record.events = <<>>

(* The call in flight is about to audit a draft without a receipt, or a    *)
(* record that exists.                                                     *)
CallIsClean ==
    op.step = "audit" =>
        IF op.kind = "create" THEN op.draft.receipt.state = "none"
                              ELSE mem[op.id].status # "absent"

HistoryInvariant ==
    /\ \A d \in Decisions :
          /\ unread \/ Extends(mem[d], disk[d])
          /\ Clean(mem[d]) /\ Clean(disk[d])
    /\ CallIsClean

-----------------------------------------------------------------------------
(* What happens to the events of a record.                                 *)

(* A new event comes last and leaves the others as they are.               *)
LEMMA WithEventEvents ==
    ASSUME NEW record \in Records, NEW type \in EventTypes
    PROVE  LET new == WithEvent(record, type).events
           IN  /\ Len(record.events) \in Nat
               /\ DOMAIN record.events = 1..Len(record.events)
               /\ Len(new) = Len(record.events) + 1
               /\ DOMAIN new = 1..Len(new)
               /\ \A i \in DOMAIN record.events : new[i] = record.events[i]
<1> DEFINE es == record.events
           event == [type |-> type, audited |-> FALSE]
<1>1. es \in Seq(Events) /\ event \in Events
  BY DEF Records, Events
<1>2. WithEvent(record, type).events = Append(es, event)
  BY DEF WithEvent, Records
<1> HIDE DEF es, event
<1>3. /\ Append(es, event) \in Seq(Events)
      /\ Len(Append(es, event)) = Len(es) + 1
      /\ \A i \in 1..Len(es) : Append(es, event)[i] = es[i]
  BY <1>1, AppendProperties
<1>4. Len(es) \in Nat /\ DOMAIN es = 1..Len(es)
  BY <1>1, LenProperties
<1>5. DOMAIN Append(es, event) = 1..Len(Append(es, event))
  BY <1>3, LenProperties
<1>6. es = record.events
  BY DEF es
<1> QED
  BY <1>2, <1>3, <1>4, <1>5, <1>6

(* Hashing marks the last event as audited and no other.                   *)
LEMMA SealedEvents ==
    ASSUME NEW record \in Records
    PROVE  LET old == record.events
               new == Sealed(record).events
           IN  /\ Sealed(record).sealed = TRUE
               /\ DOMAIN new = DOMAIN old
               /\ Len(new) = Len(old)
               /\ \A i \in DOMAIN old : new[i].type = old[i].type
               /\ \A i \in DOMAIN old : old[i].audited => new[i].audited
               /\ \A i \in DOMAIN old : i = Len(old) => new[i].audited
<1> DEFINE es == record.events
           fs == [i \in DOMAIN es |->
                    IF i = Len(es) THEN [es[i] EXCEPT !.audited = TRUE] ELSE es[i]]
<1>1. es \in Seq(Events)
  BY DEF Records
<1>2. /\ Len(es) \in Nat
      /\ DOMAIN es = 1..Len(es)
      /\ \A i \in DOMAIN es : es[i] \in Events
  BY <1>1
<1>3. Sealed(record) = [record EXCEPT !.events = fs, !.sealed = TRUE]
  BY DEF Sealed
<1>4. Sealed(record).events = fs /\ Sealed(record).sealed = TRUE
  BY <1>3 DEF Records
<1>5. DOMAIN fs = DOMAIN es
  OBVIOUS
<1>6. ASSUME NEW e \in Events
      PROVE  [e EXCEPT !.audited = TRUE].type = e.type /\ [e EXCEPT !.audited = TRUE].audited
  BY DEF Events
<1>7. \A i \in DOMAIN es :
         /\ fs[i].type = es[i].type
         /\ es[i].audited => fs[i].audited
         /\ i = Len(es) => fs[i].audited
  BY <1>2, <1>6
<1>8. Len(fs) = Len(es)
  <2>1. Sealed(record) \in Records
    BY SealedType
  <2>2. fs \in Seq(Events)
    BY <1>4, <2>1 DEF Records
  <2> HIDE DEF fs
  <2>3. DOMAIN fs = 1..Len(fs) /\ Len(fs) \in Nat
    BY <2>2, LenProperties
  <2> QED
    BY <1>2, <1>5, <2>3
<1> HIDE DEF fs
<1> QED
  BY <1>4, <1>5, <1>7, <1>8

-----------------------------------------------------------------------------
(* Extends is a preorder.                                                  *)
LEMMA ExtendsReflexive ==
    ASSUME NEW record \in Records PROVE Extends(record, record)
<1>1. Len(record.events) \in Nat
  BY LenProperties DEF Records
<1> QED
  BY <1>1 DEF Extends

LEMMA ExtendsTransitive ==
    ASSUME NEW a \in Records, NEW b \in Records, NEW c \in Records,
           Extends(a, b), Extends(b, c)
    PROVE  Extends(a, c)
<1>1. /\ Len(a.events) \in Nat /\ Len(b.events) \in Nat /\ Len(c.events) \in Nat
      /\ DOMAIN b.events = 1..Len(b.events) /\ DOMAIN c.events = 1..Len(c.events)
  BY LenProperties DEF Records
<1>2. Len(a.events) >= Len(c.events)
  BY <1>1 DEF Extends
<1>3. DOMAIN c.events \subseteq DOMAIN b.events
  BY <1>1 DEF Extends
<1>4. \A i \in DOMAIN c.events : a.events[i].type = c.events[i].type
  BY <1>3 DEF Extends
<1> QED
  BY <1>2, <1>4 DEF Extends

(* A record that is changed as the calls do, and gets an event.            *)
LEMMA EventExtends ==
    ASSUME NEW old \in Records, NEW record \in Records, NEW type \in EventTypes,
           record.events = old.events,
           old.approvals \subseteq record.approvals,
           old.receipt.state # "none" => record.receipt = old.receipt,
           old.status = "rejected" => record.status = "rejected"
    PROVE  Extends(WithEvent(record, type), old)
<1> DEFINE new == WithEvent(record, type)
<1>1. /\ Len(old.events) \in Nat
      /\ Len(new.events) = Len(old.events) + 1
      /\ \A i \in DOMAIN old.events : new.events[i] = old.events[i]
  BY WithEventEvents
<1>2. new.status = record.status /\ new.approvals = record.approvals
      /\ new.receipt = record.receipt
  BY WithEventFields
<1> HIDE DEF new
<1>3. Extends(new, old)
  BY <1>1, <1>2 DEF Extends
<1> QED
  BY <1>3 DEF new

LEMMA SealedExtends ==
    ASSUME NEW record \in Records PROVE Extends(Sealed(record), record)
<1>1. Len(record.events) \in Nat
  BY LenProperties DEF Records
<1> DEFINE new == Sealed(record)
<1>2. /\ Len(new.events) = Len(record.events)
      /\ \A i \in DOMAIN record.events : new.events[i].type = record.events[i].type
  BY SealedEvents
<1>3. new.status = record.status /\ new.approvals = record.approvals
      /\ new.receipt = record.receipt
  BY SealedFields
<1> HIDE DEF new
<1>4. Extends(new, record)
  BY <1>1, <1>2, <1>3 DEF Extends
<1> QED
  BY <1>4 DEF new

-----------------------------------------------------------------------------
(* What each call makes of a record extends it, and is clean.              *)
LEMMA VoteGrows ==
    ASSUME NEW old \in Records, Clean(old), NEW p \in Principals,
           NEW v \in {"approve", "reject"}, NEW k \in Keys, MayApprove(old, p),
           NEW voted, voted = [old EXCEPT !.approvals =
                                 @ \cup {[by |-> p, vote |-> v, key |-> k]}],
           NEW new, new = WithEvent([voted EXCEPT !.status = StatusAfter(voted, v)],
                                    "approval_recorded")
    PROVE  Extends(new, old) /\ Clean(new)
<1> DEFINE moved == [voted EXCEPT !.status = StatusAfter(voted, v)]
<1>1. StatusAfter(voted, v) \in {"approved", "awaiting_approval", "rejected"}
  BY DEF StatusAfter
<1>2. [by |-> p, vote |-> v, key |-> k] \in Approvals
  BY DEF Approvals
<1>3. old.status \in {"awaiting_approval", "approved"}
  BY DEF MayApprove
<1>4. /\ voted \in Records /\ old.approvals \subseteq voted.approvals
      /\ voted.events = old.events /\ voted.receipt = old.receipt
  BY <1>2 DEF Records
<1>5. /\ moved \in Records /\ moved.approvals = voted.approvals
      /\ moved.events = voted.events /\ moved.receipt = voted.receipt
      /\ moved.status = StatusAfter(voted, v)
  BY <1>1, <1>4 DEF Records, Statuses
<1> HIDE DEF moved
<1>6. Extends(WithEvent(moved, "approval_recorded"), old)
  BY <1>3, <1>4, <1>5, EventExtends DEF EventTypes
<1>7. new = WithEvent(moved, "approval_recorded")
  BY DEF moved
<1>8. new.status = moved.status /\ new.receipt = moved.receipt
  BY <1>5, <1>7, WithEventFields DEF EventTypes
<1> QED
  BY <1>1, <1>3, <1>4, <1>5, <1>6, <1>7, <1>8 DEF Clean, Unanswered

LEMMA BlockedGrows ==
    ASSUME NEW old \in Records, Clean(old), old.status = "approved", NEW k \in Keys
    PROVE  Extends(Blocked(old, k), old) /\ Clean(Blocked(old, k))
<1> DEFINE record == [old EXCEPT !.status = "execution_blocked",
                                 !.receipt.state = "rejected",
                                 !.receipt.key = k]
<1>1. /\ record \in Records /\ record.events = old.events
      /\ record.approvals = old.approvals
  BY DEF Records, Receipts, Statuses
<1>2. old.receipt.state = "none"
  BY DEF Clean, Unanswered
<1>3. Blocked(old, k) = WithEvent(record, "execution_rejected")
  BY DEF Blocked
<1> HIDE DEF record
<1> QED
  BY <1>1, <1>2, <1>3, EventExtends, BlockedFields DEF Clean, Unanswered, EventTypes

LEMMA ExecutedGrows ==
    ASSUME NEW old \in Records, Clean(old), old.status = "approved",
           NEW k \in Keys, NEW c \in Levels, NEW before \in SimState
    PROVE  Extends(Executed(old, k, c, before), old) /\ Clean(Executed(old, k, c, before))
<1> DEFINE receipt == [state |-> "acknowledged", key |-> k, applied |-> c,
                       limit |-> EquipmentLimit(before)]
           record == [old EXCEPT
                        !.status = "executed_simulation",
                        !.receipt = receipt,
                        !.rollback = [@ EXCEPT !.available = TRUE,
                                               !.action = before.power]]
<1>1. receipt \in Receipts
  BY DEF Receipts, EquipmentLimit, ThermalLimit, Levels
<1>2. [old.rollback EXCEPT !.available = TRUE, !.action = before.power] \in Rollbacks
  BY DEF Records, Rollbacks, SimState
<1>3. /\ record \in Records /\ record.events = old.events
      /\ record.approvals = old.approvals
  BY <1>1, <1>2 DEF Records, Statuses
<1>4. old.receipt.state = "none"
  BY DEF Clean, Unanswered
<1>5. Executed(old, k, c, before) = WithEvent(record, "simulation_execution_acknowledged")
  BY DEF Executed
<1> HIDE DEF record
<1> QED
  BY <1>3, <1>4, <1>5, EventExtends, ExecutedFields DEF Clean, Unanswered, EventTypes

LEMMA RolledBackGrows ==
    ASSUME NEW old \in Records, old.status = "executed_simulation", NEW k \in Keys
    PROVE  Extends(RolledBack(old, k), old) /\ Clean(RolledBack(old, k))
<1> DEFINE record == [old EXCEPT !.status = "rolled_back_simulation",
                                 !.rollback = [@ EXCEPT !.available = FALSE, !.key = k]]
<1>1. [old.rollback EXCEPT !.available = FALSE, !.key = k] \in Rollbacks
  BY DEF Records, Rollbacks
<1>2. /\ record \in Records /\ record.events = old.events
      /\ record.approvals = old.approvals /\ record.receipt = old.receipt
  BY <1>1 DEF Records, Statuses
<1>3. RolledBack(old, k) = WithEvent(record, "simulation_rollback_acknowledged")
  BY DEF RolledBack
<1> HIDE DEF record
<1> QED
  BY <1>2, <1>3, EventExtends, RolledBackFields DEF Clean, Unanswered, EventTypes

(* Hashing keeps a record clean; a drafted one extends an absent one.      *)
LEMMA SealedGrows ==
    ASSUME NEW old \in Records, NEW record \in Records, Clean(old),
           \/ record = old /\ old.status # "absent"
           \/ /\ old.status = "absent" /\ record.status = "awaiting_approval"
              /\ record.receipt.state = "none"
    PROVE  Extends(Sealed(record), old) /\ Clean(Sealed(record))
<1>1. Extends(Sealed(record), record) /\ Sealed(record) \in Records
  BY SealedExtends, SealedType
<1>2. Extends(record, old)
  <2>1. CASE record = old
    BY <2>1, ExtendsReflexive
  <2>2. CASE old.status = "absent" /\ record.status = "awaiting_approval"
    <3>1. old.approvals = {} /\ old.events = <<>> /\ old.receipt.state = "none"
      BY <2>2 DEF Clean, Unanswered
    <3>2. Len(record.events) \in Nat
      BY LenProperties DEF Records
    <3>3. Len(record.events) >= Len(<<>>) /\ DOMAIN <<>> = {}
      BY <3>2
    <3> QED
      BY <2>2, <3>1, <3>3 DEF Extends
  <2> QED
    BY <2>1, <2>2
<1>3. Extends(Sealed(record), old)
  BY <1>1, <1>2, ExtendsTransitive
<1>4. Clean(Sealed(record))
  BY SealedFields DEF Clean, Unanswered
<1> QED
  BY <1>3, <1>4

-----------------------------------------------------------------------------
(* A step after which memory has grown, the file is what it was, and the   *)
(* call is as it should be.                                                *)
LEMMA MemoryGrows ==
    ASSUME TypeOK, TypeOK', HistoryInvariant, UNCHANGED <<disk, unread>>, CallIsClean',
           \A d \in Decisions :
              mem'[d] = mem[d] \/ (Extends(mem'[d], mem[d]) /\ Clean(mem'[d]))
    PROVE  HistoryInvariant'
<1>1. \A d \in Decisions :
         mem[d] \in Records /\ mem'[d] \in Records /\ disk[d] \in Records
  BY DEF TypeOK
<1>2. ASSUME NEW d \in Decisions
      PROVE  /\ unread' \/ Extends(mem'[d], disk'[d])
             /\ Clean(mem'[d]) /\ Clean(disk'[d])
  <2>1. (unread \/ Extends(mem[d], disk[d])) /\ Clean(mem[d]) /\ Clean(disk[d])
    BY DEF HistoryInvariant
  <2>2. CASE mem'[d] = mem[d]
    BY <2>1, <2>2
  <2>3. CASE Extends(mem'[d], mem[d]) /\ Clean(mem'[d])
    BY <1>1, <2>1, <2>3, ExtendsTransitive
  <2> QED
    BY <2>2, <2>3
<1> QED
  BY <1>2 DEF HistoryInvariant, CallIsClean, Extends, Clean

LEMMA HistoryInit == Init => HistoryInvariant
<1> SUFFICES ASSUME Init PROVE HistoryInvariant
  OBVIOUS
<1>1. Clean(Absent) /\ Extends(Absent, Absent)
  BY AbsentType, ExtendsReflexive DEF Clean, Absent, NoReceipt
<1>2. op.step # "audit"
  BY DEF Init, Idle
<1> QED
  BY <1>1, <1>2 DEF Init, HistoryInvariant, CallIsClean, EmptyStore

(* Every step keeps the invariant.                                         *)
LEMMA HistoryStep ==
    ASSUME TypeOK, AuthorityInvariant, HistoryInvariant, [Next]_vars
    PROVE  HistoryInvariant'
<1>typ. TypeOK'
  BY TypeStep
<1>mem. \A d \in Decisions : mem[d] \in Records /\ disk[d] \in Records
  BY DEF TypeOK
<1>inv. /\ \A d \in Decisions : /\ unread \/ Extends(mem[d], disk[d])
                                /\ Clean(mem[d]) /\ Clean(disk[d])
        /\ CallIsClean
  BY DEF HistoryInvariant, CallIsClean
<1>same. ASSUME UNCHANGED <<mem, disk, unread>>, op' = op \/ op' = Idle
         PROVE  HistoryInvariant'
  <2>1. CallIsClean'
    BY <1>same, <1>inv DEF CallIsClean, Idle
  <2> QED
    BY <1>same, <1>typ, <2>1, MemoryGrows
<1>1. ASSUME NEW d \in Decisions, CreateReplay(d) PROVE HistoryInvariant'
  BY <1>1, <1>same DEF CreateReplay
<1>2. ASSUME NEW d \in Decisions, NEW p \in Principals, NEW n \in 1..2,
             CreateBegin(d, p, n)
      PROVE  HistoryInvariant'
  <2>1. CASE op' = op
    BY <1>2, <2>1, <1>same DEF CreateBegin
  <2>2. CASE op' # op
    <3>1. PICK c \in Levels :
            op' = [Auditing("create", d) EXCEPT
                     !.draft = WithEvent([Absent EXCEPT
                                  !.status = "awaiting_approval",
                                  !.requester = p,
                                  !.required = n,
                                  !.command = c], "recommendation_created")]
      BY <1>2, <2>2 DEF CreateBegin, Projected, AtMost
    <3> DEFINE record == [Absent EXCEPT !.status = "awaiting_approval",
                                        !.requester = p,
                                        !.required = n,
                                        !.command = c]
    <3>2. record \in Records /\ record.receipt.state = "none"
      BY AbsentType DEF Records, Statuses, Absent, NoReceipt
    <3>3. Auditing("create", d) \in Ops /\ Auditing("create", d).kind = "create"
      BY OpsType
    <3>4. op'.kind = "create" /\ op'.draft = WithEvent(record, "recommendation_created")
      BY <3>1, <3>3 DEF Ops
    <3>5. op'.draft.receipt = record.receipt
      BY <3>2, <3>4, WithEventFields DEF EventTypes
    <3>6. CallIsClean'
      BY <3>2, <3>4, <3>5 DEF CallIsClean
    <3> QED
      BY <1>2, <1>typ, <3>6, MemoryGrows DEF CreateBegin
  <2> QED
    BY <2>1, <2>2
<1>3. ASSUME NEW d \in Decisions, Get(d) PROVE HistoryInvariant'
  BY <1>3, <1>same DEF Get
<1>4. ASSUME NEW d \in Decisions, NEW k \in Keys, ApproveReplay(d, k)
      PROVE  HistoryInvariant'
  BY <1>4, <1>same DEF ApproveReplay
<1>5. ASSUME NEW d \in Decisions, NEW k \in Keys, NEW p \in Principals,
             NEW v \in {"approve", "reject"}, ApproveBegin(d, p, v, k)
      PROVE  HistoryInvariant'
  <2> DEFINE voted == [mem[d] EXCEPT !.approvals =
                         @ \cup {[by |-> p, vote |-> v, key |-> k]}]
             new == WithEvent([voted EXCEPT !.status = StatusAfter(voted, v)],
                              "approval_recorded")
  <2>1. mem'[d] = new /\ \A e \in Decisions : e # d => mem'[e] = mem[e]
    BY <1>5 DEF ApproveBegin, TypeOK
  <2>2. MayApprove(mem[d], p)
    BY <1>5 DEF ApproveBegin
  <2>3. Extends(new, mem[d]) /\ Clean(new)
    BY <1>mem, <1>inv, <2>2, VoteGrows
  <2>4. mem'[d].status # "absent"
    <3>1. mem[d].status \in {"awaiting_approval", "approved"}
      BY <2>2 DEF MayApprove
    <3>2. StatusAfter(voted, v) \in {"approved", "awaiting_approval", "rejected"}
      BY DEF StatusAfter
    <3>3. [by |-> p, vote |-> v, key |-> k] \in Approvals
      BY DEF Approvals
    <3>4. voted \in Records
      BY <1>mem, <3>3 DEF Records
    <3> HIDE DEF voted
    <3>5. /\ [voted EXCEPT !.status = StatusAfter(voted, v)] \in Records
          /\ [voted EXCEPT !.status = StatusAfter(voted, v)].status = StatusAfter(voted, v)
      BY <3>2, <3>4 DEF Records, Statuses
    <3> QED
      BY <2>1, <3>2, <3>5, WithEventFields DEF EventTypes
  <2>5. CallIsClean'
    <3>1. op' = Auditing("approve", d)
      BY <1>5 DEF ApproveBegin
    <3>2. op'.kind = "approve" /\ op'.id = d
      BY <3>1, OpsType
    <3> QED
      BY <2>4, <3>2 DEF CallIsClean
  <2> HIDE DEF new
  <2> QED
    BY <1>5, <1>typ, <2>1, <2>3, <2>5, MemoryGrows DEF ApproveBegin
<1>6. ASSUME NEW d \in Decisions, NEW k \in Keys, ExecuteReplay(d, k)
      PROVE  HistoryInvariant'
  BY <1>6, <1>same DEF ExecuteReplay
<1>7. ASSUME NEW d \in Decisions, NEW k \in Keys, ExecuteBegin(d, k)
      PROVE  HistoryInvariant'
  <2>1. mem[d].status = "approved" /\ UNCHANGED <<disk, unread>>
    BY <1>7 DEF ExecuteBegin
  <2>2. CASE /\ mem' = [mem EXCEPT ![d] = Blocked(@, k)]
             /\ op' = Auditing("execute", d)
    <3>1. mem'[d] = Blocked(mem[d], k) /\ \A e \in Decisions : e # d => mem'[e] = mem[e]
      BY <2>2 DEF TypeOK
    <3>2. Extends(mem'[d], mem[d]) /\ Clean(mem'[d])
      BY <1>mem, <1>inv, <2>1, <3>1, BlockedGrows
    <3>3. mem'[d].status # "absent"
      BY <1>mem, <3>1, BlockedFields
    <3>4. CallIsClean'
      BY <2>2, <3>3, OpsType DEF CallIsClean
    <3> QED
      BY <1>typ, <2>1, <3>1, <3>2, <3>4, MemoryGrows
  <2>3. ASSUME NEW c \in Levels, op' = Applying("execute", d, k, c), mem' = mem
        PROVE  HistoryInvariant'
    <3>1. CallIsClean'
      BY <2>3, OpsType DEF CallIsClean
    <3> QED
      BY <1>typ, <2>1, <2>3, <3>1, MemoryGrows
  <2> QED
    BY <1>7, <2>2, <2>3 DEF ExecuteBegin, Projected, AtMost
<1>8. ASSUME NEW d \in Decisions, NEW k \in Keys, RollbackReplay(d, k)
      PROVE  HistoryInvariant'
  BY <1>8, <1>same DEF RollbackReplay
<1>9. ASSUME NEW d \in Decisions, NEW k \in Keys, RollbackBegin(d, k)
      PROVE  HistoryInvariant'
  <2>1. PICK c \in Levels : op' = Applying("rollback", d, k, c)
    BY <1>9 DEF RollbackBegin, Projected, AtMost
  <2>2. CallIsClean'
    BY <2>1, OpsType DEF CallIsClean
  <2> QED
    BY <1>9, <1>typ, <2>2, MemoryGrows DEF RollbackBegin
<1>10. ASSUME Apply PROVE HistoryInvariant'
  <2>0. op.id \in Decisions /\ op.kind \in {"execute", "rollback"} /\ op.key \in Keys
        /\ op.command \in Levels /\ sim \in SimState
    BY <1>10 DEF Apply, TypeOK, Ops
  <2>1. CASE op' = Idle /\ UNCHANGED mem
    BY <1>10, <2>1, <1>same DEF Apply
  <2>2. ASSUME NEW before \in Snapshots(sim),
               mem' = [mem EXCEPT ![op.id] =
                         IF op.kind = "execute"
                         THEN Executed(@, op.key, op.command, before)
                         ELSE RolledBack(@, op.key)],
               op' = Auditing(op.kind, op.id)
        PROVE  HistoryInvariant'
    <3>0. PICK d \in Decisions : d = op.id
      BY <2>0
    <3>1. /\ \A e \in Decisions : e # d => mem'[e] = mem[e]
          /\ op.kind = "execute" => mem'[d] = Executed(mem[d], op.key, op.command, before)
          /\ op.kind = "rollback" => mem'[d] = RolledBack(mem[d], op.key)
      BY <2>0, <2>2, <3>0 DEF TypeOK
    <3>2. mem[d].status = IF op.kind = "execute" THEN "approved"
                                                 ELSE "executed_simulation"
      BY <1>10, <3>0 DEF AuthorityInvariant, CallFits, Apply
    <3>3. before \in SimState
      BY <2>0, SimulatorType
    <3>4. Extends(mem'[d], mem[d]) /\ Clean(mem'[d]) /\ mem'[d].status # "absent"
      <4>1. CASE op.kind = "execute"
        BY <1>mem, <1>inv, <2>0, <3>1, <3>2, <3>3, <4>1, ExecutedGrows, ExecutedFields
      <4>2. CASE op.kind = "rollback"
        BY <1>mem, <2>0, <3>1, <3>2, <4>2, RolledBackGrows, RolledBackFields
      <4> QED
        BY <2>0, <4>1, <4>2
    <3>5. CallIsClean'
      BY <2>0, <2>2, <3>0, <3>4, OpsType DEF CallIsClean
    <3> QED
      BY <1>10, <1>typ, <3>1, <3>4, <3>5, MemoryGrows DEF Apply
  <2> QED
    BY <1>10, <2>1, <2>2 DEF Apply
<1>11. ASSUME AuditWrite PROVE HistoryInvariant'
  <2>0. PICK d \in Decisions : d = op.id
    BY <1>11 DEF AuditWrite, TypeOK
  <2> DEFINE record == IF op.kind = "create" THEN op.draft ELSE mem[d]
  <2>1. op.id = d /\ op.draft \in Records /\ mem[d] \in Records
    BY <2>0 DEF TypeOK, Ops
  <2>2. mem'[d] = Sealed(record) /\ \A e \in Decisions : e # d => mem'[e] = mem[e]
    BY <1>11, <2>1 DEF AuditWrite, TypeOK
  <2>3. record \in Records
    BY <2>1
  <2>4. \/ record = mem[d] /\ mem[d].status # "absent"
        \/ /\ mem[d].status = "absent" /\ record.status = "awaiting_approval"
           /\ record.receipt.state = "none"
    BY <1>11, <1>inv, <2>1 DEF AuditWrite, AuthorityInvariant, CallFits, CallIsClean
  <2> HIDE DEF record
  <2>5. Extends(mem'[d], mem[d]) /\ Clean(mem'[d])
    BY <1>inv, <2>1, <2>2, <2>3, <2>4, SealedGrows
  <2>6. CallIsClean'
    BY <1>11 DEF AuditWrite, Persisting, CallIsClean, TypeOK, Ops
  <2> QED
    BY <1>11, <1>typ, <2>2, <2>5, <2>6, MemoryGrows DEF AuditWrite
<1>12. ASSUME AuditFails PROVE HistoryInvariant'
  BY <1>12, <1>same DEF AuditFails
<1>13. ASSUME Persist PROVE HistoryInvariant'
  <2>1. disk' = mem /\ mem' = mem /\ op' = Idle
    BY <1>13 DEF Persist
  <2>2. \A d \in Decisions : Extends(mem'[d], disk'[d]) /\ Clean(mem'[d]) /\ Clean(disk'[d])
    BY <1>mem, <1>inv, <2>1, ExtendsReflexive
  <2>3. CallIsClean'
    BY <2>1 DEF Idle, CallIsClean
  <2> QED
    BY <2>2, <2>3 DEF HistoryInvariant, CallIsClean, Extends, Clean
<1>14. ASSUME PersistFails PROVE HistoryInvariant'
  BY <1>14, <1>same DEF PersistFails, AfterRaise
<1>15. ASSUME Crash PROVE HistoryInvariant'
  <2>1. /\ disk' = disk /\ op' = Idle
        /\ \A d \in Decisions : mem'[d] = IF unread' THEN Absent ELSE disk[d]
    BY <1>15 DEF Crash, Loaded, EmptyStore
  <2>2. Clean(Absent)
    BY DEF Clean, Absent, NoReceipt
  <2>3. \A d \in Decisions : /\ unread' \/ Extends(mem'[d], disk'[d])
                            /\ Clean(mem'[d]) /\ Clean(disk'[d])
    BY <1>mem, <1>inv, <2>1, <2>2, ExtendsReflexive
  <2>4. CallIsClean'
    BY <2>1 DEF Idle, CallIsClean
  <2> QED
    BY <2>3, <2>4 DEF HistoryInvariant, CallIsClean, Extends, Clean
<1>16. ASSUME SimulatorRequest PROVE HistoryInvariant'
  BY <1>16, <1>same DEF SimulatorRequest, service
<1>17. ASSUME SimulatorReset PROVE HistoryInvariant'
  BY <1>17, <1>same DEF SimulatorReset, service
<1>18. ASSUME UNCHANGED vars PROVE HistoryInvariant'
  BY <1>18, <1>same DEF vars
<1> QED
  BY <1>1, <1>2, <1>3, <1>4, <1>5, <1>6, <1>7, <1>8, <1>9, <1>10, <1>11,
     <1>12, <1>13, <1>14, <1>15, <1>16, <1>17, <1>18 DEF Next, Request

(* No write of the state file forgets an event, an approval, a receipt or  *)
(* a rejection, whatever writes and reads fail and whenever the process    *)
(* restarts, except the first of a process that could not read the file.   *)
THEOREM FileNeverForgets == Spec => DurableHistoryGrows
<1>1. TypeOK /\ AuthorityInvariant /\ HistoryInvariant /\ [Next]_vars
        => (TypeOK /\ AuthorityInvariant /\ HistoryInvariant)'
  BY TypeStep, AuthorityStep, HistoryStep
<1>2. TypeOK /\ HistoryInvariant /\ [Next]_vars
        => [unread \/ \A d \in Decisions : Extends(disk'[d], disk[d])]_disk
  <2> SUFFICES ASSUME TypeOK, HistoryInvariant, [Next]_vars, disk' # disk, ~unread
               PROVE  \A d \in Decisions : Extends(disk'[d], disk[d])
    OBVIOUS
  <2>1. disk' = mem
    BY DEF Next, Request, vars, service, CreateReplay, CreateBegin, ApproveReplay,
           ApproveBegin, ExecuteReplay, ExecuteBegin, RollbackReplay, RollbackBegin,
           Get, Apply, AuditWrite, AuditFails, Persist, PersistFails, AfterRaise,
           Crash, SimulatorRequest, SimulatorReset
  <2> QED
    BY <2>1 DEF HistoryInvariant
<1>3. Init => TypeOK /\ AuthorityInvariant /\ HistoryInvariant
  BY TypeInit, AuthorityInit, HistoryInit
<1> QED
  BY <1>1, <1>2, <1>3, PTL DEF Spec, DurableHistoryGrows

-----------------------------------------------------------------------------
(* No write fails; the process may still stop at any time, and start       *)
(* without reading its file.                                               *)
NoFailedWrites == Faults \subseteq {"crash", "read"}

AllAudited(record) == \A i \in DOMAIN record.events : record.events[i].audited

(* All events but the one that the call in flight has just added.          *)
AlmostAudited(record) ==
    \A i \in DOMAIN record.events :
        i # Len(record.events) => record.events[i].audited

(* What the process has of a decision: the file's record, or none when it  *)
(* began without the file.                                                 *)
Base(e) == IF unread THEN Absent ELSE disk[e]

(* Memory is that, except on the record of the call in flight.             *)
Settled ==
    \A e \in Decisions :
        (op.step \in {"audit", "persist"} => e # op.id) => mem[e] = Base(e)

Drafted == IF op.kind = "create" THEN op.draft ELSE mem[op.id]

DurableInvariant ==
    /\ Settled
    /\ \A d \in Decisions :
          /\ seen[d] \subseteq disk[d].approvals
          /\ commands[d] # <<>> => ~unread /\ disk[d].status \in QuorumStatuses
          /\ disk[d].sealed /\ AllAudited(disk[d])
    /\ op.step = "audit" => AlmostAudited(Drafted)
    /\ op.step = "persist" => mem[op.id].sealed /\ AllAudited(mem[op.id])

LEMMA BaseAudit ==
    ASSUME TypeOK, DurableInvariant, NEW e \in Decisions
    PROVE  /\ Base(e).sealed /\ AllAudited(Base(e))
           /\ Base(e).approvals \subseteq disk[e].approvals
           /\ Base(e).status \in QuorumStatuses => ~unread /\ Base(e) = disk[e]
<1>1. Absent.sealed /\ Absent.events = <<>> /\ Absent.approvals = {}
      /\ Absent.status \notin QuorumStatuses
  BY DEF Absent, QuorumStatuses
<1>2. AllAudited(Absent)
  BY <1>1 DEF AllAudited
<1> QED
  BY <1>1, <1>2 DEF DurableInvariant, Base

LEMMA WithEventAudit ==
    ASSUME NEW record \in Records, NEW type \in EventTypes, AllAudited(record)
    PROVE  AlmostAudited(WithEvent(record, type))
<1> DEFINE new == WithEvent(record, type)
<1>1. /\ Len(record.events) \in Nat
      /\ DOMAIN record.events = 1..Len(record.events)
      /\ Len(new.events) = Len(record.events) + 1
      /\ DOMAIN new.events = 1..Len(new.events)
      /\ \A i \in DOMAIN record.events : new.events[i] = record.events[i]
  BY WithEventEvents
<1> HIDE DEF new
<1>2. ASSUME NEW i \in DOMAIN new.events, i # Len(new.events)
      PROVE  new.events[i].audited
  <2>1. i \in DOMAIN record.events
    BY <1>1, <1>2
  <2> QED
    BY <1>1, <2>1 DEF AllAudited
<1>3. AlmostAudited(new)
  BY <1>2 DEF AlmostAudited
<1> QED
  BY <1>3 DEF new

LEMMA SealedAudit ==
    ASSUME NEW record \in Records, AlmostAudited(record)
    PROVE  Sealed(record).sealed /\ AllAudited(Sealed(record))
<1> DEFINE new == Sealed(record)
<1>1. /\ new.sealed = TRUE
      /\ DOMAIN new.events = DOMAIN record.events
      /\ \A i \in DOMAIN record.events : record.events[i].audited => new.events[i].audited
      /\ \A i \in DOMAIN record.events : i = Len(record.events) => new.events[i].audited
  BY SealedEvents
<1> HIDE DEF new
<1>2. new.sealed /\ AllAudited(new)
  BY <1>1 DEF AllAudited, AlmostAudited
<1> QED
  BY <1>2 DEF new

(* The events of what a call makes of a record are those of the record and *)
(* its own.                                                                *)
LEMMA VoteAudit ==
    ASSUME NEW old \in Records, AllAudited(old), NEW p \in Principals,
           NEW v \in {"approve", "reject"}, NEW k \in Keys,
           NEW voted, voted = [old EXCEPT !.approvals =
                                 @ \cup {[by |-> p, vote |-> v, key |-> k]}],
           NEW new, new = WithEvent([voted EXCEPT !.status = StatusAfter(voted, v)],
                                    "approval_recorded")
    PROVE  AlmostAudited(new)
<1> DEFINE moved == [voted EXCEPT !.status = StatusAfter(voted, v)]
<1>1. StatusAfter(voted, v) \in {"approved", "awaiting_approval", "rejected"}
  BY DEF StatusAfter
<1>2. [by |-> p, vote |-> v, key |-> k] \in Approvals
  BY DEF Approvals
<1>3. voted \in Records /\ voted.events = old.events
  BY <1>2 DEF Records
<1>4. moved \in Records /\ moved.events = old.events
  BY <1>1, <1>3 DEF Records, Statuses
<1> HIDE DEF moved
<1>5. AllAudited(moved)
  BY <1>4 DEF AllAudited
<1>6. AlmostAudited(WithEvent(moved, "approval_recorded"))
  BY <1>4, <1>5, WithEventAudit DEF EventTypes
<1> QED
  BY <1>6 DEF moved

LEMMA BlockedAudit ==
    ASSUME NEW old \in Records, AllAudited(old), NEW k \in Keys
    PROVE  AlmostAudited(Blocked(old, k))
<1> DEFINE record == [old EXCEPT !.status = "execution_blocked",
                                 !.receipt.state = "rejected",
                                 !.receipt.key = k]
<1>1. record \in Records /\ record.events = old.events
  BY DEF Records, Receipts, Statuses
<1>2. Blocked(old, k) = WithEvent(record, "execution_rejected")
  BY DEF Blocked
<1> HIDE DEF record
<1>3. AllAudited(record)
  BY <1>1 DEF AllAudited
<1> QED
  BY <1>1, <1>2, <1>3, WithEventAudit DEF EventTypes

LEMMA ExecutedAudit ==
    ASSUME NEW old \in Records, AllAudited(old), NEW k \in Keys, NEW c \in Levels,
           NEW before \in SimState
    PROVE  AlmostAudited(Executed(old, k, c, before))
<1> DEFINE receipt == [state |-> "acknowledged", key |-> k, applied |-> c,
                       limit |-> EquipmentLimit(before)]
           record == [old EXCEPT
                        !.status = "executed_simulation",
                        !.receipt = receipt,
                        !.rollback = [@ EXCEPT !.available = TRUE,
                                               !.action = before.power]]
<1>1. receipt \in Receipts
  BY DEF Receipts, EquipmentLimit, ThermalLimit, Levels
<1>2. [old.rollback EXCEPT !.available = TRUE, !.action = before.power] \in Rollbacks
  BY DEF Records, Rollbacks, SimState
<1>3. record \in Records /\ record.events = old.events
  BY <1>1, <1>2 DEF Records, Statuses
<1>4. Executed(old, k, c, before) = WithEvent(record, "simulation_execution_acknowledged")
  BY DEF Executed
<1> HIDE DEF record
<1>5. AllAudited(record)
  BY <1>3 DEF AllAudited
<1> QED
  BY <1>3, <1>4, <1>5, WithEventAudit DEF EventTypes

LEMMA RolledBackAudit ==
    ASSUME NEW old \in Records, AllAudited(old), NEW k \in Keys
    PROVE  AlmostAudited(RolledBack(old, k))
<1> DEFINE record == [old EXCEPT !.status = "rolled_back_simulation",
                                 !.rollback = [@ EXCEPT !.available = FALSE, !.key = k]]
<1>1. [old.rollback EXCEPT !.available = FALSE, !.key = k] \in Rollbacks
  BY DEF Records, Rollbacks
<1>2. record \in Records /\ record.events = old.events
  BY <1>1 DEF Records, Statuses
<1>3. RolledBack(old, k) = WithEvent(record, "simulation_rollback_acknowledged")
  BY DEF RolledBack
<1> HIDE DEF record
<1>4. AllAudited(record)
  BY <1>2 DEF AllAudited
<1> QED
  BY <1>2, <1>3, <1>4, WithEventAudit DEF EventTypes

-----------------------------------------------------------------------------
LEMMA DurableInit == Init => DurableInvariant
<1> SUFFICES ASSUME Init PROVE DurableInvariant
  OBVIOUS
<1>1. Absent.sealed /\ AllAudited(Absent)
  BY DEF Absent, AllAudited
<1>2. op.step = "idle"
  BY DEF Init, Idle
<1> QED
  BY <1>1, <1>2 DEF Init, DurableInvariant, Settled, Base, EmptyStore

(* A call that changes memory while all is settled, and goes on to write   *)
(* the audit log.                                                          *)
LEMMA StartsAudit ==
    ASSUME DurableInvariant, op.step \in {"idle", "apply"}, UNCHANGED <<disk, seen, unread>>,
           NEW d \in Decisions, op'.step = "audit", op'.id = d,
           \A e \in Decisions : e # d => mem'[e] = mem[e],
           NEW drafted, AlmostAudited(drafted),
           drafted = IF op'.kind = "create" THEN op'.draft ELSE mem'[d],
           \A e \in Decisions : commands'[e] # <<>> => ~unread /\ disk[e].status \in QuorumStatuses
    PROVE  DurableInvariant'
<1>1. Settled'
  BY DEF DurableInvariant, Settled, Base
<1>2. (op.step = "audit" => AlmostAudited(Drafted))'
  BY DEF AlmostAudited, Drafted
<1> QED
  BY <1>1, <1>2 DEF DurableInvariant, AllAudited

(* Between steps on the records: nothing but what clients see, the call    *)
(* reaching the simulator, or giving up before it.                         *)
LEMMA DurableFrame ==
    ASSUME DurableInvariant, UNCHANGED <<mem, disk, commands, unread>>,
           \/ op' = op /\ seen' = seen
           \/ op' = op /\ LockFree /\ \E d \in Decisions : Show(d)
           \/ op.step \in {"idle", "apply"} /\ op'.step \in {"idle", "apply"} /\ seen' = seen,
           TypeOK
    PROVE  DurableInvariant'
<1>1. \A d \in Decisions : seen'[d] \subseteq disk'[d].approvals
  <2>1. CASE seen' = seen
    BY <2>1 DEF DurableInvariant
  <2>2. ASSUME LockFree, NEW d \in Decisions, Show(d)
        PROVE  \A e \in Decisions : seen'[e] \subseteq disk'[e].approvals
    <3>1. mem[d] = Base(d)
      BY <2>2 DEF DurableInvariant, Settled, LockFree
    <3>2. mem[d].approvals \subseteq disk[d].approvals
      BY <3>1, BaseAudit
    <3> QED
      BY <2>2, <3>2 DEF DurableInvariant, Show, TypeOK
  <2> QED
    BY <2>1, <2>2
<1>2. Settled'
  BY DEF DurableInvariant, Settled, Base
<1>3. (op.step = "audit" => AlmostAudited(Drafted))'
  BY DEF DurableInvariant, AlmostAudited, Drafted
<1>4. (op.step = "persist" => mem[op.id].sealed /\ AllAudited(mem[op.id]))'
  BY DEF DurableInvariant, AllAudited
<1> QED
  BY <1>1, <1>2, <1>3, <1>4 DEF DurableInvariant, AllAudited

(* When no write fails, every step keeps memory and file together.         *)
LEMMA DurableStep ==
    ASSUME NoFailedWrites, TypeOK, AuthorityInvariant, HistoryInvariant,
           DurableInvariant, [Next]_vars
    PROVE  DurableInvariant'
<1>mem. \A d \in Decisions : mem[d] \in Records /\ disk[d] \in Records
  BY DEF TypeOK
<1>idle. ASSUME LockFree
         PROVE  /\ op.step = "idle"
                /\ \A d \in Decisions : mem[d] = Base(d) /\ AllAudited(mem[d])
  BY <1>idle, BaseAudit DEF DurableInvariant, Settled, LockFree
<1>1. ASSUME NEW d \in Decisions, CreateReplay(d) PROVE DurableInvariant'
  BY <1>1, DurableFrame DEF CreateReplay
<1>2. ASSUME NEW d \in Decisions, NEW p \in Principals, NEW n \in 1..2,
             CreateBegin(d, p, n)
      PROVE  DurableInvariant'
  <2>1. CASE op' = op
    BY <1>2, <2>1, DurableFrame DEF CreateBegin
  <2>2. CASE op' # op
    <3>1. PICK c \in Levels :
            op' = [Auditing("create", d) EXCEPT
                     !.draft = WithEvent([Absent EXCEPT
                                  !.status = "awaiting_approval",
                                  !.requester = p,
                                  !.required = n,
                                  !.command = c], "recommendation_created")]
      BY <1>2, <2>2 DEF CreateBegin, Projected, AtMost
    <3> DEFINE record == [Absent EXCEPT !.status = "awaiting_approval",
                                        !.requester = p,
                                        !.required = n,
                                        !.command = c]
    <3>2. record \in Records /\ record.events = <<>>
      BY AbsentType DEF Records, Statuses, Absent
    <3>3. /\ Auditing("create", d) \in Ops /\ Auditing("create", d).kind = "create"
          /\ Auditing("create", d).id = d /\ Auditing("create", d).step = "audit"
      BY OpsType
    <3>4. /\ op'.kind = "create" /\ op'.id = d /\ op'.step = "audit"
          /\ op'.draft = WithEvent(record, "recommendation_created")
      BY <3>1, <3>3 DEF Ops
    <3> HIDE DEF record
    <3>5. AllAudited(record)
      BY <3>2 DEF AllAudited
    <3>6. AlmostAudited(op'.draft)
      BY <3>2, <3>4, <3>5, WithEventAudit DEF EventTypes
    <3>7. op.step = "idle" /\ UNCHANGED <<mem, disk, commands, seen, unread>>
      BY <1>2 DEF CreateBegin, LockFree
    <3>8. \A e \in Decisions : commands'[e] # <<>> => ~unread /\ disk[e].status \in QuorumStatuses
      BY <3>7 DEF DurableInvariant
    <3> QED
      BY <3>4, <3>6, <3>7, <3>8, StartsAudit
  <2> QED
    BY <2>1, <2>2
<1>3. ASSUME NEW d \in Decisions, Get(d) PROVE DurableInvariant'
  BY <1>3, DurableFrame DEF Get
<1>4. ASSUME NEW d \in Decisions, NEW k \in Keys, ApproveReplay(d, k)
      PROVE  DurableInvariant'
  BY <1>4, DurableFrame DEF ApproveReplay
<1>5. ASSUME NEW d \in Decisions, NEW k \in Keys, NEW p \in Principals,
             NEW v \in {"approve", "reject"}, ApproveBegin(d, p, v, k)
      PROVE  DurableInvariant'
  <2> DEFINE voted == [mem[d] EXCEPT !.approvals =
                         @ \cup {[by |-> p, vote |-> v, key |-> k]}]
             new == WithEvent([voted EXCEPT !.status = StatusAfter(voted, v)],
                              "approval_recorded")
  <2>1. mem'[d] = new /\ \A e \in Decisions : e # d => mem'[e] = mem[e]
    BY <1>5 DEF ApproveBegin, TypeOK
  <2>2. LockFree /\ op' = Auditing("approve", d)
        /\ UNCHANGED <<disk, commands, seen, unread>>
    BY <1>5 DEF ApproveBegin
  <2>3. AlmostAudited(new)
    BY <1>mem, <1>idle, <2>2, VoteAudit
  <2> HIDE DEF new
  <2>4. op'.kind = "approve" /\ op'.id = d /\ op'.step = "audit"
    BY <2>2, OpsType
  <2>5. \A e \in Decisions : commands'[e] # <<>> => ~unread /\ disk[e].status \in QuorumStatuses
    BY <2>2 DEF DurableInvariant
  <2> QED
    BY <1>idle, <2>1, <2>2, <2>3, <2>4, <2>5, StartsAudit
<1>6. ASSUME NEW d \in Decisions, NEW k \in Keys, ExecuteReplay(d, k)
      PROVE  DurableInvariant'
  BY <1>6, DurableFrame DEF ExecuteReplay
<1>7. ASSUME NEW d \in Decisions, NEW k \in Keys, ExecuteBegin(d, k)
      PROVE  DurableInvariant'
  <2>1. LockFree /\ UNCHANGED <<disk, commands, seen, unread>>
    BY <1>7 DEF ExecuteBegin
  <2>2. CASE /\ mem' = [mem EXCEPT ![d] = Blocked(@, k)]
             /\ op' = Auditing("execute", d)
    <3>1. mem'[d] = Blocked(mem[d], k) /\ \A e \in Decisions : e # d => mem'[e] = mem[e]
      BY <2>2 DEF TypeOK
    <3>2. AlmostAudited(mem'[d])
      BY <1>mem, <1>idle, <2>1, <3>1, BlockedAudit
    <3>3. op'.kind = "execute" /\ op'.id = d /\ op'.step = "audit"
      BY <2>2, OpsType
    <3>4. \A e \in Decisions : commands'[e] # <<>> => ~unread /\ disk[e].status \in QuorumStatuses
      BY <2>1 DEF DurableInvariant
    <3> QED
      BY <1>idle, <2>1, <3>1, <3>2, <3>3, <3>4, StartsAudit
  <2>3. ASSUME NEW c \in Levels, op' = Applying("execute", d, k, c), mem' = mem
        PROVE  DurableInvariant'
    <3>1. op'.step = "apply"
      BY <2>3, OpsType
    <3> QED
      BY <1>idle, <2>1, <2>3, <3>1, DurableFrame
  <2> QED
    BY <1>7, <2>2, <2>3 DEF ExecuteBegin, Projected, AtMost
<1>8. ASSUME NEW d \in Decisions, NEW k \in Keys, RollbackReplay(d, k)
      PROVE  DurableInvariant'
  BY <1>8, DurableFrame DEF RollbackReplay
<1>9. ASSUME NEW d \in Decisions, NEW k \in Keys, RollbackBegin(d, k)
      PROVE  DurableInvariant'
  <2>1. PICK c \in Levels : op' = Applying("rollback", d, k, c)
    BY <1>9 DEF RollbackBegin, Projected, AtMost
  <2>2. op'.step = "apply"
    BY <2>1, OpsType
  <2> QED
    BY <1>9, <1>idle, <2>2, DurableFrame DEF RollbackBegin
<1>10. ASSUME Apply PROVE DurableInvariant'
  <2>0. op.id \in Decisions /\ op.kind \in {"execute", "rollback"} /\ op.key \in Keys
        /\ op.command \in Levels /\ sim \in SimState /\ op.step = "apply"
    BY <1>10 DEF Apply, TypeOK, Ops
  <2>1. CASE op' = Idle /\ UNCHANGED <<mem, commands>>
    BY <1>10, <2>0, <2>1, DurableFrame DEF Apply, Idle
  <2>2. ASSUME NEW before \in Snapshots(sim),
               commands' = [commands EXCEPT ![op.id] = Append(@, op.kind)],
               mem' = [mem EXCEPT ![op.id] =
                         IF op.kind = "execute"
                         THEN Executed(@, op.key, op.command, before)
                         ELSE RolledBack(@, op.key)],
               op' = Auditing(op.kind, op.id)
        PROVE  DurableInvariant'
    <3>0. PICK d \in Decisions : d = op.id
      BY <2>0
    <3>1. /\ \A e \in Decisions : e # d => mem'[e] = mem[e] /\ commands'[e] = commands[e]
          /\ op.kind = "execute" => mem'[d] = Executed(mem[d], op.key, op.command, before)
          /\ op.kind = "rollback" => mem'[d] = RolledBack(mem[d], op.key)
      BY <2>0, <2>2, <3>0 DEF TypeOK
    <3>2. mem[d].status \in QuorumStatuses
      BY <2>0, <3>0 DEF AuthorityInvariant, CallFits, QuorumStatuses
    <3>3. before \in SimState
      BY <2>0, SimulatorType
    <3>4. mem[d] = Base(d) /\ AllAudited(mem[d]) /\ ~unread /\ mem[d] = disk[d]
      BY <2>0, <3>2, BaseAudit DEF DurableInvariant, Settled
    <3>5. AlmostAudited(mem'[d])
      BY <1>mem, <2>0, <3>1, <3>3, <3>4, ExecutedAudit, RolledBackAudit
    <3>6. \A e \in Decisions : commands'[e] # <<>> => ~unread /\ disk[e].status \in QuorumStatuses
      BY <3>1, <3>2, <3>4 DEF DurableInvariant
    <3>7. op'.step = "audit" /\ op'.id = d /\ op'.kind # "create"
      BY <2>0, <2>2, <3>0, OpsType
    <3>8. UNCHANGED <<disk, seen, unread>>
      BY <1>10 DEF Apply
    <3> QED
      BY <2>0, <3>1, <3>5, <3>6, <3>7, <3>8, StartsAudit
  <2> QED
    BY <1>10, <2>1, <2>2 DEF Apply
<1>11. ASSUME AuditWrite PROVE DurableInvariant'
  <2>0. PICK d \in Decisions : d = op.id
    BY <1>11 DEF AuditWrite, TypeOK
  <2> DEFINE record == IF op.kind = "create" THEN op.draft ELSE mem[d]
  <2>1. op.id = d /\ record \in Records /\ op.step = "audit"
    BY <1>11, <2>0 DEF TypeOK, Ops, AuditWrite
  <2>2. /\ mem'[d] = Sealed(record) /\ \A e \in Decisions : e # d => mem'[e] = mem[e]
        /\ UNCHANGED <<disk, commands, seen, unread>>
    BY <1>11, <2>1 DEF AuditWrite, TypeOK
  <2>3. AlmostAudited(record)
    BY <2>1 DEF DurableInvariant, Drafted
  <2> HIDE DEF record
  <2>4. mem'[d].sealed /\ AllAudited(mem'[d])
    BY <2>1, <2>2, <2>3, SealedAudit
  <2>5. op'.step = "persist" /\ op'.id = d
    BY <1>11, <2>1 DEF AuditWrite, Persisting, TypeOK, Ops
  <2>6. Settled'
    BY <2>1, <2>2, <2>5 DEF DurableInvariant, Settled, Base
  <2> QED
    BY <2>2, <2>4, <2>5, <2>6 DEF DurableInvariant, AllAudited
<1>12. ~AuditFails /\ ~PersistFails
  BY DEF NoFailedWrites, AuditFails, PersistFails
<1>13. ASSUME Persist PROVE DurableInvariant'
  <2>0. PICK d \in Decisions : d = op.id
    BY <1>13 DEF Persist, TypeOK
  <2>1. disk' = mem /\ UNCHANGED <<mem, commands>> /\ op' = Idle /\ unread' = FALSE
        /\ op.step = "persist" /\ op.id = d
        /\ seen' = [IF unread THEN Remaining ELSE seen EXCEPT ![d] = mem[d].approvals]
    BY <1>13, <2>0 DEF Persist
  <2>2. op'.step = "idle"
    BY <2>1 DEF Idle
  <2>3. \A e \in Decisions :
           (IF unread THEN Remaining ELSE seen)[e] \subseteq mem[e].approvals
    <3>1. CASE unread
      BY <3>1 DEF Remaining
    <3>2. CASE ~unread
      BY <3>2 DEF DurableInvariant, HistoryInvariant, Extends
    <3> QED
      BY <3>1, <3>2
  <2>4. \A e \in Decisions : seen'[e] \subseteq disk'[e].approvals
    <3>1. (IF unread THEN Remaining ELSE seen) = [e \in Decisions |->
             (IF unread THEN Remaining ELSE seen)[e]]
      BY DEF Remaining, TypeOK
    <3> QED
      BY <2>1, <2>3, <3>1
  <2>5. \A e \in Decisions : commands'[e] # <<>> => disk'[e].status \in QuorumStatuses
    BY <2>1 DEF AuthorityInvariant, CommandsFit, QuorumStatuses
  <2>6. \A e \in Decisions : mem[e].sealed /\ AllAudited(mem[e])
    BY <2>1, BaseAudit DEF DurableInvariant, Settled
  <2>7. Settled'
    BY <2>1, <2>2 DEF Settled, Base
  <2> QED
    BY <2>1, <2>2, <2>4, <2>5, <2>6, <2>7 DEF DurableInvariant, AllAudited
<1>14. ASSUME Crash PROVE DurableInvariant'
  <2>1. /\ UNCHANGED <<disk, seen>> /\ op'.step = "idle"
        /\ \A e \in Decisions : commands'[e] = <<>>
        /\ \A e \in Decisions : mem'[e] = IF unread' THEN Absent ELSE disk[e]
    BY <1>14 DEF Crash, Loaded, EmptyStore, Idle
  <2>2. Settled'
    BY <2>1 DEF Settled, Base
  <2> QED
    BY <2>1, <2>2 DEF DurableInvariant, AllAudited
<1>15. ASSUME SimulatorRequest \/ SimulatorReset \/ UNCHANGED vars PROVE DurableInvariant'
  BY <1>15, DurableFrame DEF SimulatorRequest, SimulatorReset, service, vars
<1> QED
  BY <1>1, <1>2, <1>3, <1>4, <1>5, <1>6, <1>7, <1>8, <1>9, <1>10, <1>11,
     <1>12, <1>13, <1>14, <1>15 DEF Next, Request

-----------------------------------------------------------------------------
(* The invariant of a service whose writes do not fail, across crashes and *)
(* starts without the file.                                                *)
THEOREM DurableHolds ==
    ASSUME NoFailedWrites
    PROVE  Spec => [](TypeOK /\ AuthorityInvariant /\ HistoryInvariant /\ DurableInvariant)
<1>1. Init => TypeOK /\ AuthorityInvariant /\ HistoryInvariant /\ DurableInvariant
  BY TypeInit, AuthorityInit, HistoryInit, DurableInit
<1>2. TypeOK /\ AuthorityInvariant /\ HistoryInvariant /\ DurableInvariant /\ [Next]_vars
        => (TypeOK /\ AuthorityInvariant /\ HistoryInvariant /\ DurableInvariant)'
  BY TypeStep, AuthorityStep, HistoryStep, DurableStep
<1> QED
  BY <1>1, <1>2, PTL DEF Spec

(* What authorised a command is in the file when the simulator gets it.    *)
THEOREM CommandsRestOnTheFile ==
    ASSUME NoFailedWrites
    PROVE  Spec => []AuthorityIsDurable
<1>1. AuthorityInvariant /\ DurableInvariant => AuthorityIsDurable
  BY DEF AuthorityInvariant, DurableInvariant, AuthorityIsDurable, Authorised, Lawful,
         QuorumStatuses
<1> QED
  BY <1>1, DurableHolds, PTL

(* A vote that was shown to a client survives any restart: in memory, or,  *)
(* when the process started without reading the file, still in the file.   *)
THEOREM ShownVotesSurvive ==
    ASSUME NoFailedWrites
    PROVE  Spec => []AcknowledgedVoteSurvives
<1>1. HistoryInvariant /\ DurableInvariant => AcknowledgedVoteSurvives
  BY DEF HistoryInvariant, Extends, DurableInvariant, AcknowledgedVoteSurvives
<1> QED
  BY <1>1, DurableHolds, PTL

(* Between calls every record is the one that its hash was computed of.    *)
THEOREM HashesAreOfTheRecords ==
    ASSUME NoFailedWrites
    PROVE  Spec => []RecordHashValid
<1>1. TypeOK /\ DurableInvariant => RecordHashValid
  <2> SUFFICES ASSUME TypeOK, DurableInvariant, LockFree, NEW d \in Decisions
               PROVE  mem[d].sealed /\ disk[d].sealed
    BY DEF RecordHashValid
  <2>1. mem[d] = Base(d)
    BY DEF DurableInvariant, Settled, LockFree
  <2> QED
    BY <2>1, BaseAudit DEF DurableInvariant
<1> QED
  BY <1>1, DurableHolds, PTL

(* Every event in the file is in the audit log.                            *)
THEOREM FileEventsAreAudited ==
    ASSUME NoFailedWrites
    PROVE  Spec => []DurableEventsAudited
<1>1. DurableInvariant => DurableEventsAudited
  BY DEF DurableInvariant, DurableEventsAudited, AllAudited
<1> QED
  BY <1>1, DurableHolds, PTL

(* The published power respects the temperature it was published with,     *)
(* whatever the clients of the simulator do and whatever fails.            *)
THEOREM PowerIsDerated == Spec => []ThermalEnvelope
<1> DEFINE Safe(s) == s.power = Full =>
                         s.temp # "critical" /\ s.scenario # "battery_overtemperature"
<1>1. ASSUME NEW s \in SimState, NEW commandSet \in SUBSET Levels,
             NEW t \in Ticks(s, commandSet)
      PROVE  Safe(t)
  <2>1. PICK b \in NextBands(s.temp, ActiveScenario(s)),
             p \in AtMost(ThermalLimit(s.temp, ActiveScenario(s))), sound \in BOOLEAN :
             t = [running  |-> s.running,
                  scenario |-> ActiveScenario(s),
                  left     |-> LeftAfterTick(s),
                  temp     |-> b,
                  power    |-> p,
                  allowed  |-> DecisionAllowed(s.running, ActiveScenario(s), b, sound)]
    BY DEF Ticks
  <2>2. p = Full => s.temp = "normal" /\ ActiveScenario(s) # "battery_overtemperature"
    BY DEF AtMost, ThermalLimit, Full, Derated
  <2>3. p = Full => b # "critical"
    BY <2>2 DEF NextBands
  <2> QED
    BY <2>1, <2>2, <2>3
<1>2. ASSUME NEW s \in SimState, NEW t \in IdleTicks(s) PROVE Safe(t)
  BY <1>1, <1>2 DEF IdleTicks
<1>3. Fresh \in SimState
  BY MaxDurationAssumption, ScenariosAssumption DEF Fresh, SimState, Bands, Levels
<1>4. \A t \in Constructed : Safe(t)
  BY <1>2, <1>3 DEF Constructed
<1>5. ASSUME TypeOK, Safe(sim), [Next]_vars PROVE Safe(sim')
  <2>2. sim \in SimState
    BY <1>5 DEF TypeOK
  <2>3. \A t \in Snapshots(sim) \cup Advanced(sim) : Safe(t)
    BY <1>2, <1>5, <2>2 DEF Snapshots, Advanced
  <2>4. \A t \in Started(sim) : Safe(t)
    <3>1. [sim EXCEPT !.running = TRUE] \in SimState
      BY <2>2 DEF SimState
    <3> QED
      BY <1>2, <3>1 DEF Started
  <2>5. \A t \in Stopped(sim) : Safe(t)
    BY <1>5, <2>2 DEF Stopped, SimState
  <2>6. ASSUME NEW scenario \in Scenarios, NEW n \in 1..MaxDuration,
               NEW t \in Injected(sim, scenario, n)
        PROVE  Safe(t)
    <3>1. (IF scenario = "normal" THEN 0 ELSE n) \in 0..MaxDuration
      BY MaxDurationAssumption
    <3>2. [sim EXCEPT !.scenario = scenario,
                      !.left = IF scenario = "normal" THEN 0 ELSE n] \in SimState
      BY <2>2, <3>1 DEF SimState
    <3> QED
      BY <1>2, <2>6, <3>2 DEF Injected
  <2>7. ASSUME Apply PROVE Safe(sim')
    <3>1. op.command \in Levels
      BY <1>5 DEF TypeOK, Ops
    <3>2. \A before \in Snapshots(sim) : before \in SimState
      BY <2>2, SimulatorType
    <3>3. \A before \in Snapshots(sim) : \A t \in Ticks(before, {op.command}) : Safe(t)
      BY <1>1, <3>1, <3>2
    <3> HIDE DEF Safe
    <3> QED
      BY <2>3, <2>7, <3>3 DEF Apply
  <2> HIDE DEF Safe
  <2>8. ASSUME Request PROVE Safe(sim')
    <3>1. sim' = sim \/ sim' \in Snapshots(sim)
      BY <2>8 DEF Request, CreateReplay, CreateBegin, Get, ApproveReplay, ApproveBegin,
             ExecuteReplay, ExecuteBegin, RollbackReplay, RollbackBegin
    <3> QED
      BY <1>5, <2>3, <3>1
  <2>9. ASSUME SimulatorRequest PROVE Safe(sim')
    BY <2>3, <2>4, <2>5, <2>6, <2>9 DEF SimulatorRequest
  <2>10. ASSUME SimulatorReset \/ Crash PROVE Safe(sim')
    BY <1>4, <2>10 DEF SimulatorReset, Crash
  <2>11. ASSUME sim' = sim PROVE Safe(sim')
    BY <1>5, <2>11
  <2> QED
    BY <1>5, <2>7, <2>8, <2>9, <2>10, <2>11
    DEF Next, AuditWrite, AuditFails, Persist, PersistFails, vars
<1>6. TypeOK /\ ThermalEnvelope /\ [Next]_vars => (TypeOK /\ ThermalEnvelope)'
  BY <1>5, TypeStep DEF ThermalEnvelope
<1>7. Init => TypeOK /\ ThermalEnvelope
  BY <1>4, TypeInit DEF Init, ThermalEnvelope
<1> QED
  BY <1>6, <1>7, PTL DEF Spec

-----------------------------------------------------------------------------
(* Refinement: what the call in flight is about to write is one step of    *)
(* the lifecycle away from what the file says.                             *)

Created(old, new) ==
    /\ old.status = "absent" /\ new.status = "awaiting_approval"
    /\ new.approvals = {} /\ new.requester \in Principals

Voted(old, new) ==
    \E p \in Principals, v \in {"approve", "reject"}, k \in Keys :
        /\ MayApprove(old, p)
        /\ new.requester = old.requester /\ new.required = old.required
        /\ new.approvals = old.approvals \cup {[by |-> p, vote |-> v, key |-> k]}
        /\ new.status = StatusAfter(new, v)

Moved(old, new) ==
    /\ <<old.status, new.status>> \in {<<"approved", "executed_simulation">>,
                                       <<"approved", "execution_blocked">>,
                                       <<"executed_simulation", "rolled_back_simulation">>}
    /\ new.requester = old.requester /\ new.required = old.required
    /\ new.approvals = old.approvals

Takes(old, new) == Created(old, new) \/ Voted(old, new) \/ Moved(old, new)

LifecycleInvariant ==
    /\ \A d \in Decisions :
          IsFiniteSet(mem[d].approvals) /\ IsFiniteSet(disk[d].approvals)
    /\ op.step = "audit" => Takes(Base(op.id), Drafted)
    /\ op.step = "persist" => Takes(Base(op.id), mem[op.id])

(* What is hashed keeps what the lifecycle looks at.                       *)
LEMMA TakesSealed ==
    ASSUME NEW old \in Records, NEW record \in Records, Takes(old, record)
    PROVE  Takes(old, Sealed(record))
<1> DEFINE new == Sealed(record)
<1>1. /\ new.status = record.status /\ new.requester = record.requester
      /\ new.required = record.required /\ new.approvals = record.approvals
  BY SealedFields
<1> HIDE DEF new
<1>2. \A v : StatusAfter(new, v) = StatusAfter(record, v)
  BY <1>1 DEF StatusAfter, Approves
<1>3. Created(old, record) => Created(old, new)
  BY <1>1 DEF Created
<1>4. Voted(old, record) => Voted(old, new)
  BY <1>1, <1>2 DEF Voted
<1>5. Moved(old, record) => Moved(old, new)
  BY <1>1 DEF Moved
<1>6. Takes(old, new)
  BY <1>3, <1>4, <1>5 DEF Takes
<1> QED
  BY <1>6 DEF new

LEMMA LifecycleInit == Init => LifecycleInvariant
<1> SUFFICES ASSUME Init PROVE LifecycleInvariant
  OBVIOUS
<1>1. IsFiniteSet(Absent.approvals)
  BY FS_EmptySet DEF Absent
<1>2. op.step = "idle"
  BY DEF Init, Idle
<1> QED
  BY <1>1, <1>2 DEF Init, LifecycleInvariant, EmptyStore

LEMMA LifecycleFrame ==
    ASSUME LifecycleInvariant, UNCHANGED <<mem, disk, unread>>,
           op' = op \/ op'.step \in {"idle", "apply"}
    PROVE  LifecycleInvariant'
<1>1. op'.step \in {"audit", "persist"} => op' = op
  OBVIOUS
<1>2. (op.step = "audit" => Takes(Base(op.id), Drafted))'
  <2>1. op.step = "audit" => Takes(Base(op.id), Drafted)
    BY DEF LifecycleInvariant
  <2> QED
    BY <1>1, <2>1 DEF Takes, Created, Voted, Moved, Drafted, Base, StatusAfter, Approves, MayApprove
<1>3. (op.step = "persist" => Takes(Base(op.id), mem[op.id]))'
  <2>1. op.step = "persist" => Takes(Base(op.id), mem[op.id])
    BY DEF LifecycleInvariant
  <2> QED
    BY <1>1, <2>1 DEF Takes, Created, Voted, Moved, Base, StatusAfter, Approves, MayApprove
<1>4. (\A d \in Decisions : IsFiniteSet(mem[d].approvals) /\ IsFiniteSet(disk[d].approvals))'
  BY DEF LifecycleInvariant
<1> QED
  BY <1>2, <1>3, <1>4 DEF LifecycleInvariant

(* A call that begins, or ends in memory, with everything settled.         *)
LEMMA StartsStep ==
    ASSUME LifecycleInvariant, UNCHANGED <<disk, unread>>, NEW d \in Decisions,
           op'.step = "audit", op'.id = d,
           \A e \in Decisions : e # d => mem'[e] = mem[e],
           IsFiniteSet(mem'[d].approvals),
           NEW drafted, Takes(Base(d), drafted),
           drafted = IF op'.kind = "create" THEN op'.draft ELSE mem'[d]
    PROVE  LifecycleInvariant'
<1>1. Takes(Base(d), IF op'.kind = "create" THEN op'.draft ELSE mem'[d]) /\ Base(d)' = Base(d)
  BY DEF Base
<1>2. (op.step = "audit" => Takes(Base(op.id), Drafted))'
  BY <1>1 DEF Takes, Created, Voted, Moved, Drafted, Base, StatusAfter, Approves, MayApprove
<1> QED
  BY <1>2 DEF LifecycleInvariant

(* Every step of the service, crashes included, keeps to the lifecycle.    *)
LEMMA LifecycleStep ==
    ASSUME NoFailedWrites, TypeOK, AuthorityInvariant, HistoryInvariant,
           DurableInvariant, LifecycleInvariant, [Next]_vars
    PROVE  LifecycleInvariant'
<1>mem. \A d \in Decisions : mem[d] \in Records /\ disk[d] \in Records
  BY DEF TypeOK
<1>fin. \A d \in Decisions : IsFiniteSet(mem[d].approvals) /\ IsFiniteSet(disk[d].approvals)
  BY DEF LifecycleInvariant
<1>set. ASSUME op.step \in {"idle", "apply"} PROVE \A d \in Decisions : Base(d) = mem[d]
  BY <1>set DEF DurableInvariant, Settled
<1>1. ASSUME NEW d \in Decisions, CreateReplay(d) PROVE LifecycleInvariant'
  BY <1>1, LifecycleFrame DEF CreateReplay
<1>2. ASSUME NEW d \in Decisions, NEW p \in Principals, NEW n \in 1..2,
             CreateBegin(d, p, n)
      PROVE  LifecycleInvariant'
  <2>1. CASE op' = op
    BY <1>2, <2>1, LifecycleFrame DEF CreateBegin
  <2>2. CASE op' # op
    <3>1. PICK c \in Levels :
            op' = [Auditing("create", d) EXCEPT
                     !.draft = WithEvent([Absent EXCEPT
                                  !.status = "awaiting_approval",
                                  !.requester = p,
                                  !.required = n,
                                  !.command = c], "recommendation_created")]
      BY <1>2, <2>2 DEF CreateBegin, Projected, AtMost
    <3> DEFINE record == [Absent EXCEPT !.status = "awaiting_approval",
                                        !.requester = p,
                                        !.required = n,
                                        !.command = c]
    <3>2. /\ record \in Records /\ record.approvals = {} /\ record.requester = p
          /\ record.status = "awaiting_approval"
      BY AbsentType DEF Records, Statuses, Absent
    <3>3. /\ Auditing("create", d) \in Ops /\ Auditing("create", d).kind = "create"
          /\ Auditing("create", d).id = d /\ Auditing("create", d).step = "audit"
      BY OpsType
    <3>4. /\ op'.kind = "create" /\ op'.id = d /\ op'.step = "audit"
          /\ op'.draft = WithEvent(record, "recommendation_created")
      BY <3>1, <3>3 DEF Ops
    <3> HIDE DEF record
    <3>5. /\ op'.draft.approvals = {} /\ op'.draft.requester = p
          /\ op'.draft.status = "awaiting_approval"
      BY <3>2, <3>4, WithEventFields DEF EventTypes
    <3>6. LockFree /\ mem[d].status = "absent" /\ UNCHANGED <<mem, disk, unread>>
      BY <1>2 DEF CreateBegin
    <3>7. Takes(Base(d), op'.draft)
      BY <1>set, <3>5, <3>6 DEF Takes, Created, LockFree
    <3> QED
      BY <1>fin, <3>4, <3>6, <3>7, StartsStep
  <2> QED
    BY <2>1, <2>2
<1>3. ASSUME NEW d \in Decisions, Get(d) PROVE LifecycleInvariant'
  BY <1>3, LifecycleFrame DEF Get
<1>4. ASSUME NEW d \in Decisions, NEW k \in Keys, ApproveReplay(d, k)
      PROVE  LifecycleInvariant'
  BY <1>4, LifecycleFrame DEF ApproveReplay
<1>5. ASSUME NEW d \in Decisions, NEW k \in Keys, NEW p \in Principals,
             NEW v \in {"approve", "reject"}, ApproveBegin(d, p, v, k)
      PROVE  LifecycleInvariant'
  <2> DEFINE vote == [by |-> p, vote |-> v, key |-> k]
             voted == [mem[d] EXCEPT !.approvals = @ \cup {vote}]
             moved == [voted EXCEPT !.status = StatusAfter(voted, v)]
  <2>1. /\ mem'[d] = WithEvent(moved, "approval_recorded")
        /\ \A e \in Decisions : e # d => mem'[e] = mem[e]
    BY <1>5 DEF ApproveBegin, TypeOK
  <2>2. LockFree /\ op' = Auditing("approve", d) /\ UNCHANGED <<disk, unread>> /\ MayApprove(mem[d], p)
    BY <1>5 DEF ApproveBegin
  <2>3. vote \in Approvals
    BY DEF Approvals
  <2>4. /\ voted \in Records /\ voted.requester = mem[d].requester
        /\ voted.required = mem[d].required
        /\ voted.approvals = mem[d].approvals \cup {vote}
    <3> HIDE DEF vote
    <3> QED
      BY <1>mem, <2>3 DEF Records
  <2> HIDE DEF voted
  <2>5. /\ moved \in Records /\ moved.requester = mem[d].requester
        /\ moved.required = mem[d].required
        /\ moved.approvals = voted.approvals
        /\ moved.status = StatusAfter(voted, v)
    <3>1. StatusAfter(voted, v) \in Statuses
      BY DEF StatusAfter, Statuses
    <3> QED
      BY <2>4, <3>1 DEF Records
  <2> HIDE DEF moved
  <2>6. /\ mem'[d].status = StatusAfter(voted, v)
        /\ mem'[d].requester = mem[d].requester
        /\ mem'[d].required = mem[d].required
        /\ mem'[d].approvals = mem[d].approvals \cup {vote}
    BY <2>1, <2>4, <2>5, WithEventFields DEF EventTypes
  <2>7. StatusAfter(mem'[d], v) = StatusAfter(voted, v)
    BY <2>4, <2>6 DEF StatusAfter, Approves
  <2>8. Base(d) = mem[d]
    BY <1>set, <2>2 DEF LockFree
  <2>9. Takes(Base(d), mem'[d])
    BY <2>2, <2>6, <2>7, <2>8 DEF Takes, Voted
  <2>10. IsFiniteSet(mem'[d].approvals)
    BY <1>fin, <2>6, FS_AddElement
  <2>11. op'.kind = "approve" /\ op'.id = d /\ op'.step = "audit"
    BY <2>2, OpsType
  <2> QED
    BY <2>1, <2>2, <2>9, <2>10, <2>11, StartsStep
<1>6. ASSUME NEW d \in Decisions, NEW k \in Keys, ExecuteReplay(d, k)
      PROVE  LifecycleInvariant'
  BY <1>6, LifecycleFrame DEF ExecuteReplay
<1>7. ASSUME NEW d \in Decisions, NEW k \in Keys, ExecuteBegin(d, k)
      PROVE  LifecycleInvariant'
  <2>1. LockFree /\ UNCHANGED <<disk, unread>> /\ mem[d].status = "approved"
    BY <1>7 DEF ExecuteBegin
  <2>2. CASE /\ mem' = [mem EXCEPT ![d] = Blocked(@, k)]
             /\ op' = Auditing("execute", d)
    <3>1. mem'[d] = Blocked(mem[d], k) /\ \A e \in Decisions : e # d => mem'[e] = mem[e]
      BY <2>2 DEF TypeOK
    <3>2. /\ mem'[d].status = "execution_blocked"
          /\ mem'[d].requester = mem[d].requester
          /\ mem'[d].required = mem[d].required
          /\ mem'[d].approvals = mem[d].approvals
      BY <1>mem, <3>1, BlockedFields
    <3>3. Takes(Base(d), mem'[d])
      BY <1>set, <2>1, <3>2 DEF Takes, Moved, LockFree
    <3>4. op'.kind = "execute" /\ op'.id = d /\ op'.step = "audit"
      BY <2>2, OpsType
    <3> QED
      BY <1>fin, <2>1, <3>1, <3>2, <3>3, <3>4, StartsStep
  <2>3. ASSUME NEW c \in Levels, op' = Applying("execute", d, k, c), mem' = mem
        PROVE  LifecycleInvariant'
    <3>1. op'.step = "apply"
      BY <2>3, OpsType
    <3> QED
      BY <2>1, <2>3, <3>1, LifecycleFrame
  <2> QED
    BY <1>7, <2>2, <2>3 DEF ExecuteBegin, Projected, AtMost
<1>8. ASSUME NEW d \in Decisions, NEW k \in Keys, RollbackReplay(d, k)
      PROVE  LifecycleInvariant'
  BY <1>8, LifecycleFrame DEF RollbackReplay
<1>9. ASSUME NEW d \in Decisions, NEW k \in Keys, RollbackBegin(d, k)
      PROVE  LifecycleInvariant'
  <2>1. PICK c \in Levels : op' = Applying("rollback", d, k, c)
    BY <1>9 DEF RollbackBegin, Projected, AtMost
  <2>2. op'.step = "apply"
    BY <2>1, OpsType
  <2> QED
    BY <1>9, <2>2, LifecycleFrame DEF RollbackBegin
<1>10. ASSUME Apply PROVE LifecycleInvariant'
  <2>0. op.id \in Decisions /\ op.kind \in {"execute", "rollback"} /\ op.step = "apply"
    BY <1>10 DEF Apply, TypeOK
  <2>1. CASE op' = Idle /\ UNCHANGED mem
    BY <1>10, <2>1, LifecycleFrame DEF Apply, Idle
  <2>2. ASSUME NEW before \in Snapshots(sim),
               mem' = [mem EXCEPT ![op.id] =
                         IF op.kind = "execute"
                         THEN Executed(@, op.key, op.command, before)
                         ELSE RolledBack(@, op.key)],
               op' = Auditing(op.kind, op.id)
        PROVE  LifecycleInvariant'
    <3>0. PICK d \in Decisions : d = op.id
      BY <2>0
    <3>1. /\ \A e \in Decisions : e # d => mem'[e] = mem[e]
          /\ op.kind = "execute" => mem'[d] = Executed(mem[d], op.key, op.command, before)
          /\ op.kind = "rollback" => mem'[d] = RolledBack(mem[d], op.key)
      BY <2>0, <2>2, <3>0 DEF TypeOK
    <3>2. mem[d].status = IF op.kind = "execute" THEN "approved" ELSE "executed_simulation"
      BY <2>0, <3>0 DEF AuthorityInvariant, CallFits
    <3>3. /\ mem'[d].status = IF op.kind = "execute" THEN "executed_simulation"
                                                     ELSE "rolled_back_simulation"
          /\ mem'[d].requester = mem[d].requester
          /\ mem'[d].required = mem[d].required
          /\ mem'[d].approvals = mem[d].approvals
      BY <1>mem, <2>0, <3>1, ExecutedFields, RolledBackFields
    <3>4. Takes(Base(d), mem'[d])
      BY <1>set, <2>0, <3>2, <3>3 DEF Takes, Moved
    <3>5. op'.step = "audit" /\ op'.id = d /\ op'.kind # "create"
      BY <2>0, <2>2, <3>0, OpsType
    <3>6. UNCHANGED <<disk, unread>>
      BY <1>10 DEF Apply
    <3> QED
      BY <1>fin, <3>1, <3>3, <3>4, <3>5, <3>6, StartsStep
  <2> QED
    BY <1>10, <2>1, <2>2 DEF Apply
<1>11. ASSUME AuditWrite PROVE LifecycleInvariant'
  <2>0. PICK d \in Decisions : d = op.id
    BY <1>11 DEF AuditWrite, TypeOK
  <2> DEFINE record == IF op.kind = "create" THEN op.draft ELSE mem[d]
  <2>1. op.id = d /\ record \in Records /\ op.step = "audit"
    BY <1>11, <2>0 DEF TypeOK, Ops, AuditWrite
  <2>2. /\ mem'[d] = Sealed(record) /\ \A e \in Decisions : e # d => mem'[e] = mem[e]
        /\ UNCHANGED <<disk, unread>>
    BY <1>11, <2>1 DEF AuditWrite, TypeOK
  <2>3. Takes(Base(d), record)
    BY <2>1 DEF LifecycleInvariant, Drafted
  <2>4. IsFiniteSet(record.approvals)
    BY <1>fin, <2>1, FS_EmptySet DEF AuthorityInvariant, CallFits
  <2> HIDE DEF record
  <2>5. Takes(Base(d), mem'[d])
    <3>1. Base(d) \in Records
      BY <1>mem, <2>1, <2>0, AbsentType DEF Base
    <3> QED
      BY <3>1, <1>mem, <2>1, <2>2, <2>3, TakesSealed
  <2>6. op'.step = "persist" /\ op'.id = d
    BY <1>11, <2>1 DEF AuditWrite, Persisting, TypeOK, Ops
  <2>7. mem'[d].approvals = record.approvals
    BY <2>1, <2>2, SealedFields
  <2>8. (op.step = "persist" => Takes(Base(op.id), mem[op.id]))'
    <3>1. Takes(Base(d), mem'[d]) /\ Base(d)' = Base(d)
      BY <2>2, <2>5 DEF Base
    <3> HIDE DEF Base
    <3> QED
      BY <2>6, <3>1
      DEF Takes, Created, Voted, Moved, StatusAfter, Approves, MayApprove
  <2> QED
    BY <1>fin, <2>2, <2>4, <2>6, <2>7, <2>8 DEF LifecycleInvariant
<1>12. ~AuditFails /\ ~PersistFails
  BY DEF NoFailedWrites, AuditFails, PersistFails
<1>13. ASSUME Persist PROVE LifecycleInvariant'
  BY <1>13, <1>fin DEF Persist, Idle, LifecycleInvariant
<1>14. ASSUME Crash PROVE LifecycleInvariant'
  <2>1. IsFiniteSet(Absent.approvals)
    BY FS_EmptySet DEF Absent
  <2>2. \A d \in Decisions : mem'[d] = Absent \/ mem'[d] = disk[d]
    BY <1>14 DEF Crash, Loaded, EmptyStore
  <2> QED
    BY <1>14, <1>fin, <2>1, <2>2 DEF Crash, Idle, LifecycleInvariant
<1>15. ASSUME SimulatorRequest \/ SimulatorReset \/ UNCHANGED vars PROVE LifecycleInvariant'
  BY <1>15, LifecycleFrame DEF SimulatorRequest, SimulatorReset, service, vars
<1> QED
  BY <1>1, <1>2, <1>3, <1>4, <1>5, <1>6, <1>7, <1>8, <1>9, <1>10, <1>11,
     <1>12, <1>13, <1>14, <1>15 DEF Next, Request

-----------------------------------------------------------------------------
(* People who said aye are as many as their votes, when nobody voted twice.*)
LEMMA AyesAreVotes ==
    ASSUME NEW record, IsFiniteSet(record.approvals),
           \A a, b \in record.approvals : a.by = b.by => a = b
    PROVE  Cardinality({a.by : a \in Approves(record)}) = Cardinality(Approves(record))
<1> DEFINE votes == Approves(record)
           people == {a.by : a \in votes}
           f == [a \in votes |-> a.by]
<1>1. votes \in SUBSET record.approvals
  BY DEF Approves
<1>2. IsFiniteSet(votes)
  BY <1>1, FS_Subset
<1>3. \A a, b \in votes : a.by = b.by => a = b
  BY <1>1
<1> HIDE DEF votes
<1>4. f \in Bijection(votes, people)
  BY <1>3 DEF Bijection, Injection, Surjection, IsInjective
<1>5. ExistsBijection(votes, people)
  BY <1>4 DEF ExistsBijection
<1> HIDE DEF people
<1>6. Cardinality(people) = Cardinality(votes)
  BY <1>2, <1>5, FS_Bijection
<1> QED
  BY <1>6 DEF votes, people

LEMMA SameCardinality == \A S : Lifecycle!Cardinality(S) = Cardinality(S)
  BY DEF Lifecycle!Cardinality, Cardinality, Lifecycle!IsFiniteSet, IsFiniteSet

(* Entries, field by field.                                                *)
LEMMA EntryShape ==
    ASSUME NEW record
    PROVE  LET e == Entry(record)
           IN  /\ e = [stage |-> e.stage, requester |-> e.requester,
                       required |-> e.required, ayes |-> e.ayes, noes |-> e.noes]
               /\ e.stage = record.status /\ e.requester = record.requester
               /\ e.required = record.required
               /\ e.ayes = {a.by : a \in Approves(record)}
               /\ e.noes = {a.by : a \in record.approvals \ Approves(record)}
BY DEF Entry

LEMMA StageChanges ==
    ASSUME NEW e, e = [stage |-> e.stage, requester |-> e.requester,
                       required |-> e.required, ayes |-> e.ayes, noes |-> e.noes],
           NEW s
    PROVE  [e EXCEPT !.stage = s]
             = [stage |-> s, requester |-> e.requester, required |-> e.required, ayes |-> e.ayes, noes |-> e.noes]
<1> DEFINE x == [e EXCEPT !.stage = s]
<1>1. e \in [stage : {e.stage}, requester : {e.requester}, required : {e.required},
            ayes : {e.ayes}, noes : {e.noes}]
  OBVIOUS
<1>2. x \in [stage : {s}, requester : {e.requester}, required : {e.required}, ayes : {e.ayes}, noes : {e.noes}]
  BY <1>1
<1> HIDE DEF x
<1>3. x = [stage |-> s, requester |-> e.requester, required |-> e.required, ayes |-> e.ayes, noes |-> e.noes]
  BY <1>2
<1> QED
  BY <1>3 DEF x

LEMMA OneMoreVoter ==
    ASSUME NEW votes, NEW more, NEW vote, more = votes \cup {vote}
    PROVE  {a.by : a \in more} = {a.by : a \in votes} \cup {vote.by}
OBVIOUS

(* Replacing the record of d in the file changes the entry of d only.      *)
LEMMA FileBecomes ==
    ASSUME NEW d \in Decisions, NEW entry, Entry(disk'[d]) = entry,
           \A e \in Decisions : e # d => disk'[e] = disk[e]
    PROVE  Lifecycle!Becomes(d, entry)
<1>1. Lifecycle!Becomes(d, entry) <=>
         [e \in Decisions |-> Entry(disk'[e])]
           = [[e \in Decisions |-> Entry(disk[e])] EXCEPT ![d] = entry]
  BY DEF Lifecycle!Becomes, Entry, Approves
<1>2. \A e \in Decisions : e # d => Entry(disk'[e]) = Entry(disk[e])
  BY DEF Entry, Approves
<1> DEFINE old == [e \in Decisions |-> Entry(disk[e])]
           new == [e \in Decisions |-> Entry(disk'[e])]
<1>3. new = [old EXCEPT ![d] = entry]
  <2>1. \A e \in Decisions : new[e] = IF e = d THEN entry ELSE old[e]
    BY <1>2
  <2>2. DOMAIN old = Decisions /\ DOMAIN new = Decisions
    OBVIOUS
  <2>3. new = [e \in Decisions |-> new[e]] /\ old = [e \in Decisions |-> old[e]]
    OBVIOUS
  <2> HIDE DEF old, new
  <2> QED
    BY <2>1, <2>2, <2>3
<1> QED
  BY <1>1, <1>3

(* A record that takes a step of the lifecycle makes its entry take one.   *)
LEMMA EntryTakesStep ==
    ASSUME NEW d \in Decisions, disk[d] \in Records, disk'[d] \in Records,
           Lawful(disk[d]), Lawful(disk'[d]), IsFiniteSet(disk'[d].approvals),
           Takes(disk[d], disk'[d]),
           \A e \in Decisions : e # d => disk'[e] = disk[e]
    PROVE  Lifecycle!Step(d)
<1> DEFINE old == disk[d]
           new == disk'[d]
           ledger == [e \in Decisions |-> Entry(disk[e])]
<1>0. ledger[d] = Entry(old)
  OBVIOUS
<1>1. CASE Created(old, new)
  <2>1. /\ old.status = "absent" /\ new.status = "awaiting_approval"
        /\ new.approvals = {} /\ new.requester \in Principals /\ new.required \in 1..2
    BY <1>1 DEF Created, Records
  <2>2. Approves(new) = {}
    BY <2>1 DEF Approves
  <2>3. Entry(new) = [stage |-> "awaiting_approval", requester |-> new.requester,
                      required |-> new.required, ayes |-> {}, noes |-> {}]
    BY <2>1, <2>2 DEF Entry
  <2>4. Lifecycle!Becomes(d, [Lifecycle!Blank EXCEPT !.stage = "awaiting_approval",
                                                     !.requester = new.requester,
                                                     !.required = new.required])
    <3>1. Entry(new) = [Lifecycle!Blank EXCEPT !.stage = "awaiting_approval",
                                               !.requester = new.requester,
                                               !.required = new.required]
      <4> DEFINE blank == Lifecycle!Blank
                 x == [blank EXCEPT !.stage = "awaiting_approval", !.requester = new.requester,
                                    !.required = new.required]
      <4>1. blank \in [stage : {"absent"}, requester : {NoOne}, required : {1},
                       ayes : {{}}, noes : {{}}]
        BY DEF Lifecycle!Blank
      <4> HIDE DEF blank, new
      <4>2. x \in [stage : {"awaiting_approval"}, requester : {new.requester},
                   required : {new.required}, ayes : {{}}, noes : {{}}]
        BY <4>1
      <4> HIDE DEF x
      <4>3. x = Entry(new)
        BY <2>3, <4>2
      <4> QED
        BY <4>3 DEF x, blank
    <3> QED
      BY <3>1, FileBecomes
  <2>5. Entry(old).stage = "absent"
    BY <2>1 DEF Entry
  <2>6. Lifecycle!Propose(d, new.requester, new.required)
    BY <2>4, <2>5 DEF Lifecycle!Propose
  <2> QED
    BY <2>1, <2>6 DEF Lifecycle!Step
<1>2. CASE Voted(old, new)
  <2>1. PICK p \in Principals, v \in {"approve", "reject"}, k \in Keys :
           /\ MayApprove(old, p)
           /\ new.requester = old.requester /\ new.required = old.required
           /\ new.approvals = old.approvals \cup {[by |-> p, vote |-> v, key |-> k]}
           /\ new.status = StatusAfter(new, v)
    BY <1>2 DEF Voted
  <2> DEFINE vote == [by |-> p, vote |-> v, key |-> k]
             ayes == {a.by : a \in Approves(old)}
             noes == {a.by : a \in old.approvals \ Approves(old)}
  <2>2. Entry(old) = [stage |-> old.status, requester |-> old.requester,
                      required |-> old.required, ayes |-> ayes, noes |-> noes]
    BY DEF Entry
  <2>0. vote.by = p
    OBVIOUS
  <2>3. p \notin ayes
    BY <2>1 DEF MayApprove, Approves
  <2>4. Lifecycle!MayVote(d, p)
    BY <2>1, <2>2, <2>3 DEF Lifecycle!MayVote, MayApprove
  <2>5. CASE v = "approve"
    <3>1. Approves(new) = Approves(old) \cup {vote}
      BY <2>1, <2>5 DEF Approves
    <3>2. {a.by : a \in Approves(new)} = ayes \cup {p}
      <4> HIDE DEF vote
      <4> QED
        BY <2>0, <3>1, OneMoreVoter
    <3>3. {a.by : a \in new.approvals \ Approves(new)} = noes
      <4>1. new.approvals \ Approves(new) = old.approvals \ Approves(old)
        BY <2>1, <2>5 DEF Approves
      <4> QED
        BY <4>1
    <3>4. Cardinality(ayes \cup {p}) = Cardinality(Approves(new))
      BY <3>2, AyesAreVotes DEF Lawful
    <3>5. new.status = IF Lifecycle!Cardinality(ayes \cup {p}) >= old.required
                       THEN "approved" ELSE "awaiting_approval"
      BY <2>1, <2>5, <3>4, SameCardinality DEF StatusAfter
    <3>6. Entry(new) = [stage |-> new.status, requester |-> old.requester,
                        required |-> old.required, ayes |-> ayes \cup {p}, noes |-> noes]
      BY <2>1, <3>2, <3>3 DEF Entry
    <3> HIDE DEF ayes, noes
    <3>7. Entry(new) = [Entry(old) EXCEPT
                          !.ayes = ayes \cup {p},
                          !.stage = IF Lifecycle!Cardinality(ayes \cup {p}) >= old.required
                                    THEN "approved" ELSE "awaiting_approval"]
      <4> DEFINE e == Entry(old)
                 stage == IF Lifecycle!Cardinality(ayes \cup {p}) >= old.required
                          THEN "approved" ELSE "awaiting_approval"
                 x == [e EXCEPT !.ayes = ayes \cup {p}, !.stage = stage]
      <4>1. e \in [stage : {old.status}, requester : {old.requester},
                   required : {old.required}, ayes : {ayes}, noes : {noes}]
        BY <2>2
      <4> HIDE DEF e, stage
      <4>2. x \in [stage : {stage}, requester : {old.requester},
                   required : {old.required}, ayes : {ayes \cup {p}}, noes : {noes}]
        BY <4>1
      <4> HIDE DEF x
      <4>3. new.status = stage
        BY <3>5 DEF stage
      <4>4. x = Entry(new)
        BY <3>6, <4>2, <4>3
      <4> QED
        BY <4>4 DEF x, e, stage
    <3>8. Entry(old).ayes = ayes /\ Entry(old).required = old.required
      BY <2>2
    <3>9. Lifecycle!Becomes(d, [ledger[d] EXCEPT
                          !.ayes = ledger[d].ayes \cup {p},
                          !.stage = IF Lifecycle!Cardinality(ledger[d].ayes \cup {p})
                                         >= ledger[d].required
                                    THEN "approved" ELSE "awaiting_approval"])
      <4> HIDE DEF ledger
      <4> QED
        BY <1>0, <3>7, <3>8, FileBecomes
    <3>10. Lifecycle!Aye(d, p)
      BY <2>4, <3>9 DEF Lifecycle!Aye
    <3> QED
      BY <3>10 DEF Lifecycle!Step
  <2>6. CASE v = "reject"
    <3>1. Approves(new) = Approves(old)
      BY <2>1, <2>6 DEF Approves
    <3>2. {a.by : a \in new.approvals \ Approves(new)} = noes \cup {p}
      <4>1. new.approvals \ Approves(new) = (old.approvals \ Approves(old)) \cup {vote}
        BY <2>1, <2>6 DEF Approves
      <4> HIDE DEF vote
      <4> QED
        BY <2>0, <4>1, OneMoreVoter
    <3>3. new.status = "rejected"
      BY <2>1, <2>6 DEF StatusAfter
    <3>4. Entry(new) = [stage |-> "rejected", requester |-> old.requester,
                        required |-> old.required, ayes |-> ayes, noes |-> noes \cup {p}]
      BY <2>1, <3>1, <3>2, <3>3 DEF Entry
    <3> HIDE DEF ayes, noes
    <3>5. Entry(new) = [Entry(old) EXCEPT !.noes = @ \cup {p}, !.stage = "rejected"]
      <4> DEFINE e == Entry(old)
                 x == [e EXCEPT !.noes = e.noes \cup {p}, !.stage = "rejected"]
      <4>1. /\ e \in [stage : {old.status}, requester : {old.requester},
                      required : {old.required}, ayes : {ayes}, noes : {noes}]
            /\ e.noes = noes
        BY <2>2
      <4> HIDE DEF e
      <4>2. x \in [stage : {"rejected"}, requester : {old.requester},
                   required : {old.required}, ayes : {ayes}, noes : {noes \cup {p}}]
        BY <4>1
      <4> HIDE DEF x
      <4>3. x = Entry(new)
        BY <3>4, <4>2
      <4> QED
        BY <4>3 DEF x, e
    <3>6. Lifecycle!Becomes(d, [ledger[d] EXCEPT !.noes = @ \cup {p}, !.stage = "rejected"])
      <4> HIDE DEF ledger
      <4> QED
        BY <1>0, <3>5, FileBecomes
    <3>7. Lifecycle!Veto(d, p)
      BY <2>4, <3>6 DEF Lifecycle!Veto
    <3> QED
      BY <3>7 DEF Lifecycle!Step
  <2> QED
    BY <2>5, <2>6
<1>3. CASE Moved(old, new)
  <2>1. /\ new.requester = old.requester /\ new.required = old.required
        /\ new.approvals = old.approvals
    BY <1>3 DEF Moved
  <2>2. Entry(new) = [Entry(old) EXCEPT !.stage = new.status]
    <3>1. Approves(new) = Approves(old)
      BY <2>1 DEF Approves
    <3>2. Entry(new) = [stage |-> new.status, requester |-> Entry(old).requester,
                        required |-> Entry(old).required,
                        ayes |-> Entry(old).ayes, noes |-> Entry(old).noes]
      BY <2>1, <3>1 DEF Entry
    <3> QED
      BY <3>2, EntryShape, StageChanges
  <2>3. ASSUME NEW from, NEW to, old.status = from, new.status = to
        PROVE  Lifecycle!Move(d, from, to)
    <3>1. Lifecycle!Becomes(d, [ledger[d] EXCEPT !.stage = to])
      <4> HIDE DEF ledger
      <4> QED
        BY <1>0, <2>2, <2>3, FileBecomes
    <3>2. ledger[d].stage = from
      BY <2>3 DEF Entry
    <3> QED
      BY <3>1, <3>2 DEF Lifecycle!Move
  <2> QED
    BY <1>3, <2>3 DEF Moved, Lifecycle!Step
<1> QED
  BY <1>1, <1>2, <1>3 DEF Takes

(* The entry of a new decision, field by field.                            *)
LEMMA FirstEntry ==
    ASSUME NEW r, NEW n
    PROVE  [Lifecycle!Blank EXCEPT !.stage = "awaiting_approval",
                                   !.requester = r, !.required = n]
             = [stage |-> "awaiting_approval", requester |-> r, required |-> n,
                ayes |-> {}, noes |-> {}]
<1> DEFINE x == [Lifecycle!Blank EXCEPT !.stage = "awaiting_approval",
                                        !.requester = r, !.required = n]
<1>1. x \in [stage : {"awaiting_approval"}, requester : {r}, required : {n},
             ayes : {{}}, noes : {{}}]
  BY DEF Lifecycle!Blank
<1> HIDE DEF x
<1>2. x = [stage |-> "awaiting_approval", requester |-> r, required |-> n,
           ayes |-> {}, noes |-> {}]
  BY <1>1
<1> QED
  BY <1>2 DEF x

(* The first write of a process that started without the file begins the   *)
(* ledger anew, with the one decision that it creates.                     *)
LEMMA FileStartsOver ==
    ASSUME NEW d \in Decisions, disk'[d] \in Records, unread, unread' = FALSE,
           Takes(Absent, disk'[d]),
           \A e \in Decisions : e # d => disk'[e] = Absent
    PROVE  \E p \in Principals, n \in 1..2 : Lifecycle!StartOver(d, p, n)
<1> DEFINE new == disk'[d]
           ledger == [e \in Decisions |-> Entry(disk'[e])]
           first == [Lifecycle!Blank EXCEPT !.stage = "awaiting_approval",
                                            !.requester = new.requester,
                                            !.required = new.required]
<1>1. Created(Absent, new)
  BY DEF Takes, Voted, Moved, MayApprove, Absent
<1>2. new.requester \in Principals /\ new.required \in 1..2
      /\ new.status = "awaiting_approval" /\ new.approvals = {}
  BY <1>1 DEF Created, Records
<1>3. Entry(Absent) = Lifecycle!Blank
  BY DEF Entry, Absent, Approves, Lifecycle!Blank
<1>4. Entry(new) = first
  <2>1. Approves(new) = {} /\ new.approvals \ Approves(new) = {}
    BY <1>2 DEF Approves
  <2>2. {a.by : a \in {}} = {}
    OBVIOUS
  <2>3. Entry(new) = [stage |-> "awaiting_approval", requester |-> new.requester,
                      required |-> new.required, ayes |-> {}, noes |-> {}]
    BY <1>2, <2>1, <2>2 DEF Entry
  <2>4. first = [stage |-> "awaiting_approval", requester |-> new.requester,
                 required |-> new.required, ayes |-> {}, noes |-> {}]
    BY FirstEntry
  <2> QED
    BY <2>3, <2>4
<1> HIDE DEF first, new
<1>5. \A e \in Decisions : Entry(disk'[e]) = IF e = d THEN first ELSE Lifecycle!Blank
  <2>1. Entry(disk'[d]) = first
    BY <1>4 DEF new
  <2> QED
    BY <1>3, <2>1
<1>6. ledger = [e \in Decisions |-> IF e = d THEN first ELSE Lifecycle!Blank]
  BY <1>5
<1>7. Lifecycle!StartOver(d, new.requester, new.required)
  BY <1>6 DEF Lifecycle!StartOver, first, Entry, Approves
<1> QED
  BY <1>2, <1>7

(* RuntimeDecision implements DecisionLifecycle: the state file takes one  *)
(* step of the lifecycle at a time, also across crashes, and starts over   *)
(* only after a start without it, for any decisions, people and keys.      *)
THEOREM FileImplementsLifecycle ==
    ASSUME NoFailedWrites
    PROVE  Spec => ImplementsLifecycle
<1> DEFINE Inv == /\ TypeOK /\ AuthorityInvariant /\ HistoryInvariant
                  /\ DurableInvariant /\ LifecycleInvariant
<1>1. Init => Inv
  BY TypeInit, AuthorityInit, HistoryInit, DurableInit, LifecycleInit
<1>2. Inv /\ [Next]_vars => Inv'
  BY TypeStep, AuthorityStep, HistoryStep, DurableStep, LifecycleStep
<1>3. Init => Lifecycle!Init
  <2>1. Entry(Absent) = Lifecycle!Blank
    BY DEF Entry, Absent, Approves, Lifecycle!Blank
  <2> QED
    BY <2>1 DEF Init, Lifecycle!Init, EmptyStore
<1>4. Inv /\ Inv' /\ [Next]_vars
        => [Lifecycle!Next]_<<[d \in Decisions |-> Entry(disk[d])], unread>>
  <2> SUFFICES ASSUME Inv, Inv', [Next]_vars, <<disk, unread>>' # <<disk, unread>>
               PROVE  Lifecycle!Next
    BY DEF Entry, Approves
  <2>1. Persist \/ Crash
    BY DEF Next, Request, vars, service, CreateReplay, CreateBegin, ApproveReplay,
           ApproveBegin, ExecuteReplay, ExecuteBegin, RollbackReplay, RollbackBegin,
           Get, Apply, AuditWrite, AuditFails, PersistFails, AfterRaise,
           SimulatorRequest, SimulatorReset
  <2>2. CASE Crash
    <3>1. disk' = disk /\ unread' \in BOOLEAN
      BY <2>2 DEF Crash, ReadFails
    <3>2. Lifecycle!Restart
      BY <3>1 DEF Lifecycle!Restart, Entry, Approves
    <3> QED
      BY <3>2 DEF Lifecycle!Next
  <2>3. CASE Persist
    <3>1. PICK d \in Decisions : d = op.id
      BY <2>3 DEF Persist, TypeOK
    <3>2. disk' = mem /\ op.step = "persist" /\ unread' = FALSE /\ unread \in BOOLEAN
      BY <2>3 DEF Persist, TypeOK
    <3>3. \A e \in Decisions : e # d => disk'[e] = Base(e)
      BY <3>1, <3>2 DEF DurableInvariant, Settled
    <3>4. Takes(Base(d), disk'[d])
      BY <3>1, <3>2 DEF LifecycleInvariant
    <3>5. /\ disk[d] \in Records /\ disk'[d] \in Records
          /\ Lawful(disk[d]) /\ Lawful(disk'[d]) /\ IsFiniteSet(disk'[d].approvals)
      BY <3>2 DEF TypeOK, AuthorityInvariant, LifecycleInvariant
    <3>6. CASE unread
      <4>1. \E p \in Principals, n \in 1..2 : Lifecycle!StartOver(d, p, n)
        BY <3>2, <3>3, <3>4, <3>5, <3>6, FileStartsOver DEF Base
      <4> QED
        BY <4>1 DEF Lifecycle!Next
    <3>7. CASE ~unread
      <4>1. Lifecycle!Step(d)
        BY <3>3, <3>4, <3>5, <3>7, EntryTakesStep DEF Base
      <4> QED
        BY <3>2, <3>7, <4>1 DEF Lifecycle!Next
    <3> QED
      BY <3>2, <3>6, <3>7
  <2> QED
    BY <2>1, <2>2, <2>3
<1> HIDE DEF Inv
<1> QED
  BY <1>1, <1>2, <1>3, <1>4, PTL DEF Spec, ImplementsLifecycle, Lifecycle!Spec

=============================================================================
