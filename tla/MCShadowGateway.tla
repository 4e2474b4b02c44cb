--------------------------- MODULE MCShadowGateway ---------------------------
(* Two instances of ShadowGateway for TLC, one beside the other: `ingest` is *)
(* one adapter with many envelopes, clients and faults, `release` a source   *)
(* and a registry with few.                                                  *)
EXTENDS ShadowGateway

CONSTANT Registry
VARIABLE part

ASSUME RegistryAssumption == Registry # NoAdapter

R == INSTANCE ShadowGateway WITH
        Registries <- {Registry}, MaxSequence <- 2, MaxTime <- 1, MaxAge <- 0,
        AlignMax <- 0, RecentLimit <- 2, Threads <- 1, Faults <- {"crash", "read", "resend"}

BothInit == \/ part = "ingest" /\ Init
            \/ part = "release" /\ R!Init

BothNext ==
    /\ UNCHANGED part
    /\ \/ part = "ingest" /\ Next
       \/ part = "release" /\ R!Next

BothSpec == BothInit /\ [][BothNext]_<<vars, part>>

(* State and tables of the gateway have their types, in both instances.      *)
BothTypeOK == IF part = "ingest" THEN TypeOK ELSE R!TypeOK

(* Sequence numbers become durable in order, in both instances.              *)
BothSavedInOrder == IF part = "ingest" THEN SavedInOrder ELSE R!SavedInOrder

(* The newest envelope is recognised when it is sent again, in both.         *)
BothNewestIsRecognised ==
    IF part = "ingest" THEN NewestIsRecognised ELSE R!NewestIsRecognised

(* Values in memory have their id in the table, in both instances.           *)
BothResidentIsRecorded ==
    IF part = "ingest" THEN ResidentIsRecorded ELSE R!ResidentIsRecorded

(* Released values were made durable, as long as the state file can be       *)
(* written.                                                                  *)
BothReleaseIsEvidenced == part = "release" => R!ReleaseIsEvidenced

(* Nothing is released before every source has resent, in both instances.    *)
BothReleaseAfterResend ==
    IF part = "ingest" THEN ReleaseAfterResend ELSE R!ReleaseAfterResend

=============================================================================
