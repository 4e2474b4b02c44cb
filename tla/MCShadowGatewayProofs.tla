------------------------ MODULE MCShadowGatewayProofs ------------------------
(***************************************************************************)
(* What ShadowGatewayProofs proves of the gateway holds in both instances  *)
(* of it that MCShadowGateway runs side by side.                           *)
(***************************************************************************)
EXTENDS MCShadowGateway, ShadowGatewayProofs

RP == INSTANCE ShadowGatewayProofs WITH
        Registries <- {Registry}, MaxSequence <- 2, MaxTime <- 1, MaxAge <- 0,
        AlignMax <- 0, RecentLimit <- 2, Threads <- 1, Faults <- {"crash", "read", "resend"}

(* The second instance satisfies what the gateway assumes of its constants.*)
LEMMA InstanceAssumptions ==
    RP!BoundsAssumption /\ RP!FaultsAssumption /\ RP!NamesAssumption
<1>1. RP!BoundsAssumption
  BY DEF RP!BoundsAssumption
<1>2. RP!FaultsAssumption
  BY DEF RP!FaultsAssumption
<1>3. RP!NamesAssumption
  BY NamesAssumption, RegistryAssumption
  DEF RP!NamesAssumption, RP!Adapters, RP!NoAdapter, NoAdapter, Adapters
<1> QED  BY <1>1, <1>2, <1>3

LEMMA SecondInit == R!Init => RP!Init
  BY DEF R!Init, RP!Init, R!Adapters, RP!Adapters, R!NoEvidence, RP!NoEvidence,
     R!NoAdapter, RP!NoAdapter, R!Idle, RP!Idle, R!NoRelease, RP!NoRelease

LEMMA SecondIngest ==
    ASSUME NEW a, NEW n, R!Ingest(a, n)
    PROVE  RP!Ingest(a, n)
<1>1. R!Validate(a, n) => RP!Validate(a, n)
  BY DEF R!Validate, RP!Validate, R!Fresh, RP!Fresh, R!store, RP!store, R!Cardinality,
     RP!Cardinality,
     R!IsFiniteSet, RP!IsFiniteSet
<1>2. R!Replay(a, n) => RP!Replay(a, n)
  BY DEF R!Replay, RP!Replay, R!Locks, RP!Locks, R!LockFree, RP!LockFree, R!NoAdapter, RP!NoAdapter,
     R!SnapshotKnown, RP!SnapshotKnown, R!SameSnapshot, RP!SameSnapshot,
     R!Recent, RP!Recent, R!ToSet, RP!ToSet
<1>3. R!Reject(a, n) => RP!Reject(a, n)
  BY DEF R!Reject, RP!Reject, R!Locks, RP!Locks, R!LockFree, RP!LockFree, R!NoAdapter, RP!NoAdapter,
     R!Recent, RP!Recent, R!ToSet, RP!ToSet, R!IsNew, RP!IsNew, R!IdKnown, RP!IdKnown,
     R!SnapshotKnown, RP!SnapshotKnown, R!SameSnapshot, RP!SameSnapshot, R!store, RP!store
<1>4. R!Accept(a, n) => RP!Accept(a, n)
  BY DEF R!Accept, RP!Accept, R!Locks, RP!Locks, R!LockFree, RP!LockFree, R!NoAdapter, RP!NoAdapter,
     R!Recent, RP!Recent, R!ToSet, RP!ToSet, R!IsNew, RP!IsNew, R!IdKnown, RP!IdKnown,
     R!Trimmed, RP!Trimmed
<1> QED  BY <1>1, <1>2, <1>3, <1>4 DEF R!Ingest, RP!Ingest

(* A step of the second instance is one that the theorems are about.       *)
LEMMA SecondNext == R!Next => RP!Next
<1>1. R!Adapters = RP!Adapters /\ R!Numbers = RP!Numbers
  BY DEF R!Adapters, RP!Adapters, R!Numbers, RP!Numbers
<1>2. R!Tick => RP!Tick
  BY DEF R!Tick, RP!Tick, R!store, RP!store
<1>3. ASSUME NEW a PROVE R!Send(a) => RP!Send(a)
  BY DEF R!Send, RP!Send, R!Emitted, RP!Emitted, R!Numbers, RP!Numbers, R!store, RP!store
<1>4. R!Persist => RP!Persist
  BY DEF R!Persist, RP!Persist, R!Remaining, RP!Remaining, R!Adapters, RP!Adapters,
     R!LockFree, RP!LockFree, R!NoAdapter, RP!NoAdapter
<1>5. R!PersistFails => RP!PersistFails
  BY DEF R!PersistFails, RP!PersistFails, R!LockFree, RP!LockFree, R!NoAdapter, RP!NoAdapter
<1>6. R!ReadClock => RP!ReadClock
  BY DEF R!ReadClock, RP!ReadClock, R!store, RP!store
<1>7. R!PassGates => RP!PassGates
  BY DEF R!PassGates, RP!PassGates, R!LockFree, RP!LockFree, R!NoAdapter, RP!NoAdapter,
     R!Ready, RP!Ready, R!SameSnapshot, RP!SameSnapshot, R!Adapters, RP!Adapters, R!Fresh,
     RP!Fresh, R!Aligned, RP!Aligned,
     R!store, RP!store
<1>8. R!Block => RP!Block
  BY DEF R!Block, RP!Block, R!LockFree, RP!LockFree, R!NoAdapter, RP!NoAdapter, R!Idle, RP!Idle,
     R!Adapters, RP!Adapters, R!store, RP!store
<1>9. R!Release => RP!Release
  BY DEF R!Release, RP!Release, R!LockFree, RP!LockFree, R!NoAdapter, RP!NoAdapter, R!Idle, RP!Idle,
     R!Adapters, RP!Adapters, R!store, RP!store
<1>10. R!Crash => RP!Crash
  BY DEF R!Crash, RP!Crash, R!Adapters, RP!Adapters, R!ReadFails, RP!ReadFails,
     R!NoEvidence, RP!NoEvidence, R!Loaded, RP!Loaded, R!ByName, RP!ByName,
     R!Before, RP!Before, R!ToSet, RP!ToSet, R!Cardinality, RP!Cardinality,
     R!IsFiniteSet, RP!IsFiniteSet, R!Kept, RP!Kept, R!NoAdapter, RP!NoAdapter, R!Idle, RP!Idle,
     R!NoRelease, RP!NoRelease
<1> QED
  BY <1>1, <1>2, <1>3, <1>4, <1>5, <1>6, <1>7, <1>8, <1>9, <1>10, SecondIngest
  DEF R!Next, RP!Next

(* So each instance keeps to its invariants.                               *)
BothInvariant ==
    \/ part = "ingest" /\ OrderInvariant /\ ResidentInvariant
    \/ part = "release" /\ RP!OrderInvariant /\ RP!DurableInvariant

(* An instance never leaves its invariants, whichever of the two runs.     *)
THEOREM BothHold == BothSpec => []BothInvariant
<1>1. BothInit => BothInvariant
  BY InstanceAssumptions, OrderInitially, ResidentInitially, SecondInit, RP!OrderInitially,
     RP!DurableInitially
  DEF BothInit, BothInvariant
<1>2. BothInvariant /\ [BothNext]_<<vars, part>> => BothInvariant'
  <2> SUFFICES ASSUME BothInvariant, [BothNext]_<<vars, part>> PROVE BothInvariant'
    OBVIOUS
  <2>1. CASE part = "ingest"
    <3>1. [Next]_vars /\ part' = part
      BY <2>1 DEF BothNext
    <3> QED  BY <2>1, <3>1, OrderNext, ResidentNext DEF BothInvariant
  <2>2. CASE part = "release"
    <3>1. R!Next \/ UNCHANGED vars
      BY <2>2 DEF BothNext
    <3>2. UNCHANGED vars => UNCHANGED RP!vars
      BY DEF vars, RP!vars
    <3>3. [RP!Next]_(RP!vars) /\ part' = part
      BY <2>2, <3>1, <3>2, SecondNext DEF BothNext
    <3>4. RP!WritesSucceed
      BY DEF RP!WritesSucceed
    <3> QED  BY InstanceAssumptions, <2>2, <3>3, <3>4, RP!OrderNext, RP!DurableNext
             DEF BothInvariant
  <2> QED  BY <2>1, <2>2 DEF BothInvariant
<1> QED  BY <1>1, <1>2, PTL DEF BothSpec

(* What the invariants say, instance by instance.                          *)
LEMMA BothSay ==
    ASSUME BothInvariant
    PROVE  /\ BothTypeOK /\ BothSavedInOrder /\ BothNewestIsRecognised
           /\ BothResidentIsRecorded /\ BothReleaseIsEvidenced /\ BothReleaseAfterResend
<1>1. CASE part = "ingest"
  <2>1. TypeOK /\ SavedInOrder /\ ResidentIsRecorded /\ ReleaseAfterResend /\ TablesHold
    BY <1>1 DEF BothInvariant, OrderInvariant, TableInvariant, ResidentInvariant
  <2>2. NewestIsRecognised
    BY <2>1 DEF TablesHold, Table, NewestIsRecognised
  <2> QED  BY <1>1, <2>1, <2>2 DEF BothTypeOK, BothSavedInOrder, BothNewestIsRecognised,
           BothResidentIsRecorded, BothReleaseIsEvidenced, BothReleaseAfterResend
<1>2. CASE part = "release"
  <2>1. /\ RP!TypeOK /\ RP!SavedInOrder /\ RP!ResidentIsRecorded /\ RP!ReleaseAfterResend
        /\ RP!TablesHold /\ RP!ReleaseIsEvidenced
    BY <1>2 DEF BothInvariant, RP!OrderInvariant, RP!TableInvariant, RP!ResidentInvariant,
       RP!DurableInvariant
  <2>2. R!TypeOK
    BY <2>1 DEF R!TypeOK, RP!TypeOK, R!Adapters, RP!Adapters, R!Numbers, RP!Numbers,
       R!Envelope, RP!Envelope, R!Evidence, RP!Evidence, R!NoAdapter, RP!NoAdapter
  <2>3. R!SavedInOrder
    BY <2>1 DEF R!SavedInOrder, RP!SavedInOrder, R!Adapters, RP!Adapters
  <2>4. R!NewestIsRecognised
    BY <2>1 DEF R!NewestIsRecognised, RP!TablesHold, RP!Table, R!Adapters, RP!Adapters,
       R!ToSet, RP!ToSet
  <2>5. R!ResidentIsRecorded
    BY <2>1 DEF R!ResidentIsRecorded, RP!ResidentIsRecorded, R!SnapshotKnown,
       RP!SnapshotKnown, R!SameSnapshot, RP!SameSnapshot, R!Adapters, RP!Adapters,
       R!Recent, RP!Recent, R!ToSet, RP!ToSet
  <2>6. R!ReleaseIsEvidenced
    BY <2>1 DEF R!ReleaseIsEvidenced, RP!ReleaseIsEvidenced, R!SameSnapshot,
       RP!SameSnapshot, R!Released, RP!Released,
       R!NoRelease, RP!NoRelease, R!Adapters, RP!Adapters, R!ToSet, RP!ToSet
  <2>7. R!ReleaseAfterResend
    BY <2>1 DEF R!ReleaseAfterResend, RP!ReleaseAfterResend, R!Released, RP!Released,
       R!NoRelease, RP!NoRelease, R!Adapters, RP!Adapters
  <2> QED  BY <1>2, <2>2, <2>3, <2>4, <2>5, <2>6, <2>7
           DEF BothTypeOK, BothSavedInOrder, BothNewestIsRecognised,
           BothResidentIsRecorded, BothReleaseIsEvidenced, BothReleaseAfterResend
<1> QED  BY <1>1, <1>2 DEF BothInvariant

(* State and tables of the gateway have their types, in both instances.    *)
THEOREM BothTypeCorrect == BothSpec => []BothTypeOK
  BY BothHold, BothSay, PTL

(* Sequence numbers become durable in order, in both instances.            *)
THEOREM BothSaveInOrder == BothSpec => []BothSavedInOrder
  BY BothHold, BothSay, PTL

(* The newest envelope is recognised when it is sent again, in both.       *)
THEOREM BothRecogniseTheNewest == BothSpec => []BothNewestIsRecognised
  BY BothHold, BothSay, PTL

(* Values in memory have their id in the table, in both instances.         *)
THEOREM BothRecordResidents == BothSpec => []BothResidentIsRecorded
  BY BothHold, BothSay, PTL

(* Released values were made durable, when the state file can be written.  *)
THEOREM BothReleaseEvidence == BothSpec => []BothReleaseIsEvidenced
  BY BothHold, BothSay, PTL

(* Nothing is released before every source has resent, in both instances.  *)
THEOREM BothReleaseLate == BothSpec => []BothReleaseAfterResend
  BY BothHold, BothSay, PTL

=============================================================================
