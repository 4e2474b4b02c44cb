---------------------------- MODULE ShadowGateway ----------------------------
(***************************************************************************)
(* The port integration gateway (integration/gateway.py): signed envelopes *)
(* of several source adapters come in through ingest(), and                *)
(* shadow_snapshot() joins the newest of each into one released state.     *)
(*                                                                         *)
(* An envelope is named by its adapter and sequence number.  The network   *)
(* delays, reorders and redelivers envelopes, which are well signed, so    *)
(* the errors left are those of age, sequence and identifier.              *)
(*                                                                         *)
(* ingest() validates before it takes the lock; the state file is written  *)
(* under the lock, after memory changed.  shadow_snapshot() takes the lock *)
(* twice, once in status() and once to read the values it releases.        *)
(***************************************************************************)
EXTENDS Naturals, SequencesExt

CONSTANTS Dynamic,      \* adapters whose observations must be aligned
          Registries,   \* slow-changing adapters
          MaxSequence,  \* bound on the envelopes of one adapter
          MaxTime,      \* bound on the clock
          MaxAge,       \* max_age_seconds of the dynamic adapters
          AlignMax,     \* SHADOW_ALIGNMENT_MAX_SECONDS
          RecentLimit,  \* snapshot ids kept per adapter (100 in the code)
          Threads,      \* ingest() calls validated and waiting for the lock
          Faults        \* which faults may happen

Adapters == Dynamic \cup Registries

ASSUME BoundsAssumption ==
    /\ {MaxSequence, MaxTime, MaxAge, AlignMax} \subseteq Nat
    /\ {RecentLimit, Threads} \subseteq Nat \ {0}
ASSUME FaultsAssumption ==
    Faults \subseteq {"crash", "persist", "read", "reuse", "resend"}

NoAdapter == "none"
ASSUME NamesAssumption == NoAdapter \notin Adapters

VARIABLES
    now,        \* the clock
    sent,       \* envelopes that each source has sent: sent[a][sequence]
    waiting,    \* envelopes validated, not yet under the lock
    mem,        \* _state["adapters"]
    disk,       \* what the state file holds
    resident,   \* _resident_envelopes: a sequence number, 0 for none
    saving,     \* the adapter whose ingest() is about to write the file
    reader,     \* the shadow_snapshot() in progress
    release,    \* the last state released by this process
    unread,     \* history: the file could not be read, nor is it replaced yet
    saved,      \* history: sequence numbers made durable in this file as new
    heard       \* history: adapters ingested since the process started

store == <<mem, disk, resident, saving, unread, saved, heard>>
vars == <<now, sent, waiting, mem, disk, resident, saving, reader, release,
          unread, saved, heard>>

Numbers == 1..MaxSequence

(* id stands for the snapshot id; ids are ordered like strings.  payload   *)
(* stands for the digest of the values: the number of the envelope that    *)
(* carried them first.                                                     *)
Envelope == [id : Numbers, payload : Numbers, at : 0..MaxTime]

(* What ingest() and status() compare of two envelopes.                    *)
SameSnapshot(a, m, n) ==
    /\ sent[a][m].id = sent[a][n].id
    /\ sent[a][m].payload = sent[a][n].payload

(* last is the newest envelope accepted, 0 for none; recent is the table   *)
(* recent_snapshot_ids, in its order.                                      *)
Evidence == [last : 0..MaxSequence, recent : Seq(Numbers)]

NoEvidence == [last |-> 0, recent |-> <<>>]

(* A call of shadow_snapshot(): at is the clock that status() read, cited  *)
(* the envelopes that the gates saw and the reply cites.                   *)
Idle == [step |-> "idle", at |-> 0, cited |-> [a \in Adapters |-> 0]]

NoRelease == [at |-> 0, cited |-> [a \in Adapters |-> 0],
              values |-> [a \in Adapters |-> 0]]

LockFree == saving = NoAdapter

(* The age check of ingest() and of status(), at clock t.  A registry is   *)
(* good for a day, which is longer than the clock runs here.               *)
Fresh(a, n, t) == a \in Dynamic => t <= sent[a][n].at + MaxAge

(* No two dynamic observations are further apart than the window.          *)
Aligned(numbers) ==
    \A a, b \in Dynamic :
        sent[a][numbers[a]].at <= sent[b][numbers[b]].at + AlignMax

Recent(a) == ToSet(mem[a].recent)

-----------------------------------------------------------------------------
Init ==
    /\ now = 0
    /\ sent = [a \in Adapters |-> <<>>]
    /\ waiting = {}
    /\ mem = [a \in Adapters |-> NoEvidence]
    /\ disk = [a \in Adapters |-> NoEvidence]
    /\ resident = [a \in Adapters |-> 0]
    /\ saving = NoAdapter
    /\ reader = Idle
    /\ release = NoRelease
    /\ unread = FALSE
    /\ saved = [a \in Adapters |-> <<>>]
    /\ heard = {}

Tick ==
    /\ now < MaxTime
    /\ now' = now + 1
    /\ UNCHANGED <<sent, waiting, reader, release>> /\ UNCHANGED store

(* What a source may emit as envelope n: a new snapshot, another payload   *)
(* under an id that it used before, or a snapshot once more.               *)
Emitted(a, n) ==
    LET used == {sent[a][m].id : m \in DOMAIN sent[a]}
    IN  [id : Numbers \ used, payload : {n}, at : {now}]
        \cup {e \in [id : used, payload : {n}, at : {now}] : "reuse" \in Faults}
        \cup {[sent[a][m] EXCEPT !.at = now] :
                 m \in {k \in DOMAIN sent[a] : "resend" \in Faults}}

(* A source emits its next envelope.                                       *)
Send(a) ==
    /\ Len(sent[a]) < MaxSequence
    /\ \E envelope \in Emitted(a, Len(sent[a]) + 1) :
          sent' = [sent EXCEPT ![a] = Append(@, envelope)]
    /\ UNCHANGED <<now, waiting, reader, release>> /\ UNCHANGED store

(* ingest() up to the lock, for a delivery of any envelope, first or not.  *)
Validate(a, n) ==
    /\ n \in DOMAIN sent[a]
    /\ Fresh(a, n, now)
    /\ Cardinality(waiting) < Threads
    /\ waiting' = waiting \cup {<<a, n>>}
    /\ UNCHANGED <<now, sent, reader, release>> /\ UNCHANGED store

Locks(a, n) ==
    /\ LockFree
    /\ <<a, n>> \in waiting
    /\ waiting' = waiting \ {<<a, n>>}

SnapshotKnown(a, n) == \E m \in Recent(a) : SameSnapshot(a, m, n)

(* A known id with the known digest: accepted whatever its sequence and    *)
(* its time of observation, of which the evidence keeps the old ones.      *)
Replay(a, n) ==
    /\ Locks(a, n)
    /\ SnapshotKnown(a, n)
    /\ resident' = [resident EXCEPT ![a] = n]
    /\ heard' = heard \cup {a}
    /\ UNCHANGED <<now, sent, mem, disk, saving, reader, release, unread, saved>>

IdKnown(a, n) == \E m \in Recent(a) : sent[a][m].id = sent[a][n].id

(* Mutant: the sequence may repeat.                                        *)
MutantIsNew(a, n) == ~IdKnown(a, n)

IsNew(a, n) == ~IdKnown(a, n) /\ n > mem[a].last

(* snapshot_id_digest_conflict or sequence_not_increasing.                 *)
Reject(a, n) ==
    /\ Locks(a, n)
    /\ ~SnapshotKnown(a, n)
    /\ ~IsNew(a, n)
    /\ UNCHANGED <<now, sent, reader, release>> /\ UNCHANGED store

(* Mutant: the table grows for ever.                                       *)
MutantUntrimmed(recent) == recent

(* Mutant: the oldest ids are kept.                                        *)
MutantTrimmed(recent) ==
    IF Len(recent) > RecentLimit THEN SubSeq(recent, 1, RecentLimit) ELSE recent

Trimmed(recent) ==
    IF Len(recent) > RecentLimit
    THEN SubSeq(recent, Len(recent) - RecentLimit + 1, Len(recent))
    ELSE recent

(* A new envelope: evidence and values change in memory, then _persist().  *)
Accept(a, n) ==
    /\ Locks(a, n)
    /\ IsNew(a, n)
    /\ mem' = [mem EXCEPT ![a] = [last   |-> n,
                                  recent |-> Trimmed(Append(@.recent, n))]]
    /\ resident' = [resident EXCEPT ![a] = n]
    /\ heard' = heard \cup {a}
    /\ saving' = a
    /\ UNCHANGED <<now, sent, disk, reader, release, unread, saved>>

(* What a write adds to: nothing, when the file that it replaces could not *)
(* be read.                                                                *)
Remaining == IF unread THEN [a \in Adapters |-> <<>>] ELSE saved

Persist ==
    /\ ~LockFree
    /\ disk' = mem
    /\ saved' = [Remaining EXCEPT ![saving] = Append(@, mem[saving].last)]
    /\ unread' = FALSE
    /\ saving' = NoAdapter
    /\ UNCHANGED <<now, sent, waiting, mem, resident, reader, release, heard>>

(* _persist() raised: memory keeps what the file has not got.              *)
PersistFails ==
    /\ "persist" \in Faults
    /\ ~LockFree
    /\ saving' = NoAdapter
    /\ UNCHANGED <<now, sent, waiting, mem, disk, resident, reader, release,
                   unread, saved, heard>>

(* shadow_snapshot(): status() reads the clock, then locks.                *)
ReadClock ==
    /\ reader.step = "idle"
    /\ reader' = [reader EXCEPT !.step = "clock", !.at = now]
    /\ UNCHANGED <<now, sent, waiting, release>> /\ UNCHANGED store

(* Mutant: values need not be the newest evidence.                         *)
MutantReady(t) ==
    /\ \A a \in Adapters : /\ mem[a].last # 0
                           /\ Fresh(a, mem[a].last, t)
    /\ Aligned([a \in Adapters |-> mem[a].last])

(* status(): every feed's newest evidence is fresh and its snapshot is     *)
(* resident; the resident envelopes are aligned.                           *)
Ready(t) ==
    /\ \A a \in Adapters : /\ mem[a].last # 0
                           /\ Fresh(a, mem[a].last, t)
                           /\ resident[a] # 0
                           /\ SameSnapshot(a, resident[a], mem[a].last)
    /\ Aligned(resident)

(* The gates of mode, identity and audit chain may close at any time.      *)
PassGates ==
    /\ reader.step = "clock"
    /\ LockFree
    /\ Ready(reader.at)
    /\ reader' = [reader EXCEPT !.step = "passed",
                                !.cited = [a \in Adapters |-> mem[a].last]]
    /\ UNCHANGED <<now, sent, waiting, release>> /\ UNCHANGED store

(* A blocked reply has no values.                                          *)
Block ==
    /\ reader.step = "clock"
    /\ LockFree
    /\ reader' = Idle
    /\ UNCHANGED <<now, sent, waiting, release>> /\ UNCHANGED store

(* shadow_snapshot(): the values are read under a lock of their own.       *)
Release ==
    /\ reader.step = "passed"
    /\ LockFree
    /\ release' = [at |-> reader.at, cited |-> reader.cited,
                   values |-> resident]
    /\ reader' = Idle
    /\ UNCHANGED <<now, sent, waiting>> /\ UNCHANGED store

(* The members of a table in the order of their ids: each stands behind as *)
(* many as have smaller ones.                                              *)
Before(a, members, n) == {m \in members : sent[a][m].id < sent[a][n].id}

ByName(a, recent) ==
    [i \in DOMAIN recent |-> CHOOSE n \in ToSet(recent) :
        Cardinality(Before(a, ToSet(recent), n)) = i - 1]

ReadFails == {failed \in BOOLEAN : failed => "read" \in Faults}

(* _load(): the file was written with sorted keys, so that the ids come    *)
(* back in the order of their names.  A file that cannot be read, or whose *)
(* schema is another, counts as an empty one.                              *)
Loaded(a, failed) ==
    IF failed THEN NoEvidence ELSE [disk[a] EXCEPT !.recent = ByName(a, @)]

(* Mutant: values outlive the process.                                     *)
MutantKept == resident

(* The values are not in the file.                                         *)
Kept == [a \in Adapters |-> 0]

Crash ==
    /\ "crash" \in Faults
    /\ unread' \in ReadFails
    /\ mem' = [a \in Adapters |-> Loaded(a, unread')]
    /\ resident' = Kept
    /\ waiting' = {}
    /\ saving' = NoAdapter
    /\ reader' = Idle
    /\ release' = NoRelease
    /\ heard' = {}
    /\ UNCHANGED <<now, sent, disk, saved>>

Ingest(a, n) == Validate(a, n) \/ Replay(a, n) \/ Reject(a, n) \/ Accept(a, n)

Next ==
    \/ Tick
    \/ \E a \in Adapters : Send(a)
    \/ \E a \in Adapters, n \in Numbers : Ingest(a, n)
    \/ Persist
    \/ PersistFails
    \/ ReadClock
    \/ PassGates
    \/ Block
    \/ Release
    \/ Crash

Spec == Init /\ [][Next]_vars

-----------------------------------------------------------------------------
(* Properties.                                                             *)

TypeOK ==
    /\ now \in 0..MaxTime
    /\ sent \in [Adapters -> Seq(Envelope)]
    /\ waiting \subseteq Adapters \X Numbers
    /\ mem \in [Adapters -> Evidence]
    /\ disk \in [Adapters -> Evidence]
    /\ \A a \in Adapters : Len(mem[a].recent) <= RecentLimit
    /\ resident \in [Adapters -> 0..MaxSequence]
    /\ saving \in Adapters \cup {NoAdapter}
    /\ reader.step \in {"idle", "clock", "passed"}
    /\ unread \in BOOLEAN
    /\ saved \in [Adapters -> Seq(Numbers)]
    /\ heard \subseteq Adapters

(* Replay protection: across redelivery, reordering, failed writes and     *)
(* restarts, the sequence numbers that become durable as new ones strictly *)
(* increase, so none does twice.  This holds in the life of one file: when *)
(* it cannot be read, the next write starts another, and the envelopes of  *)
(* the old one are new again.                                              *)
SavedInOrder ==
    \A a \in Adapters : \A i, j \in DOMAIN saved[a] :
        i < j => saved[a][i] < saved[a][j]

(* The restart protocol rests on the newest envelope being recognised when *)
(* it is sent again: its id is in the table, in memory and in the file,    *)
(* although the file forgets the order of the table.                       *)
NewestIsRecognised ==
    \A a \in Adapters : \A evidence \in {mem[a], disk[a]} :
        evidence.last # 0 => evidence.last \in ToSet(evidence.recent)

(* Values in memory are always accounted for by a snapshot in the table.   *)
ResidentIsRecorded ==
    \A a \in Adapters : resident[a] # 0 => SnapshotKnown(a, resident[a])

Released == release # NoRelease

(* The snapshot of released values, and the evidence that the reply cites  *)
(* for them, were made durable: "All six current-process payloads must     *)
(* match their latest persisted evidence".                                 *)
ReleaseIsEvidenced ==
    Released => \A a \in Adapters :
        /\ release.cited[a] \in ToSet(saved[a])
        /\ release.values[a] # 0
        /\ \E n \in ToSet(saved[a]) : SameSnapshot(a, n, release.values[a])

(* After a restart nothing is released before every source has resent.     *)
ReleaseAfterResend == Released => heard = Adapters

(* "Values are returned only when mode, identity, audit, freshness,        *)
(* resident payload and time-alignment gates all pass": the values of a    *)
(* release are the snapshots it cites, fresh at its clock and aligned.     *)
ReleasePassesGates ==
    Released =>
        /\ \A a \in Adapters :
              /\ SameSnapshot(a, release.values[a], release.cited[a])
              /\ Fresh(a, release.values[a], release.at)
        /\ Aligned(release.values)

=============================================================================
