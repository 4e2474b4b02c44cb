---------------------------- MODULE MCSiteEvidence ----------------------------
(* The evidence services of one deployment for TLC.  They share a process    *)
(* and keep no state of their own, so a behaviour is the preparation, the    *)
(* signing and the evaluation of packages of one kind, its `part`.  Packages *)
(* with many facts are edited PackageEdits times, the others MaxEdits times. *)
EXTENDS Integers

CONSTANTS MaxEdits, PackageEdits, Keys, Trusted
ASSUME EditsAssumption == MaxEdits \in Nat /\ PackageEdits \in Nat
(* The key that the sources are given to sign with is one that is trusted.   *)
ASSUME TrustAssumption == "k1" \in Trusted

VARIABLES part, request, report, edits, vouched

vars == <<part, request, report, edits, vouched>>

CA == INSTANCE CarbonAssets
SC == INSTANCE SiteCutover
    WITH Domains <- {"live_port_data", "long_horizon_shadow"},
         ShadowDomains <- {"long_horizon_shadow"},
         Roles <- {"port_owner", "independent_verifier"}, WrongKeys <- {"new", "port_owner"}
PC == INSTANCE PortCollaboration
OP == INSTANCE OperationsPlanning WITH MaxEdits <- PackageEdits
EN == INSTANCE ElectricalNetwork WITH MaxEdits <- PackageEdits
CS == INSTANCE CommercialSettlement WITH MaxEdits <- PackageEdits
AP == INSTANCE AlgorithmProduction WITH MaxEdits <- PackageEdits
MV == INSTANCE MeasurementVerification WITH MaxEdits <- PackageEdits
EC == INSTANCE EnergyCarbonManagement WITH MaxEdits <- PackageEdits
ES == INSTANCE EnterpriseSecurity WITH MaxEdits <- PackageEdits

Init ==
    \/ part = "carbon" /\ CA!Init
    \/ part = "cutover" /\ SC!Init
    \/ part = "collaboration" /\ PC!Init
    \/ part = "planning" /\ OP!Init
    \/ part = "network" /\ EN!Init
    \/ part = "settlement" /\ CS!Init
    \/ part = "qualification" /\ AP!Init
    \/ part = "verification" /\ MV!Init
    \/ part = "cycle" /\ EC!Init
    \/ part = "safeguards" /\ ES!Init

CarbonStep == part = "carbon" /\ CA!Next /\ UNCHANGED part
CutoverStep == part = "cutover" /\ SC!Next /\ UNCHANGED part
CollaborationStep == part = "collaboration" /\ PC!Next /\ UNCHANGED part
PlanningStep == part = "planning" /\ OP!Next /\ UNCHANGED part
NetworkStep == part = "network" /\ EN!Next /\ UNCHANGED part
SettlementStep == part = "settlement" /\ CS!Next /\ UNCHANGED part
QualificationStep == part = "qualification" /\ AP!Next /\ UNCHANGED part
VerificationStep == part = "verification" /\ MV!Next /\ UNCHANGED part
CycleStep == part = "cycle" /\ EC!Next /\ UNCHANGED part
SafeguardsStep == part = "safeguards" /\ ES!Next /\ UNCHANGED part

Next ==
    \/ CarbonStep
    \/ CutoverStep
    \/ CollaborationStep
    \/ PlanningStep
    \/ NetworkStep
    \/ SettlementStep
    \/ QualificationStep
    \/ VerificationStep
    \/ CycleStep
    \/ SafeguardsStep

Spec == Init /\ [][Next]_vars
-------------------------------------------------------------------------------
(* Packages and reports of every part are well formed.                       *)
TypeOK ==
    /\ part = "carbon" => CA!TypeOK
    /\ part = "cutover" => SC!TypeOK
    /\ part = "collaboration" => PC!TypeOK
    /\ part = "planning" => OP!TypeOK
    /\ part = "network" => EN!TypeOK
    /\ part = "settlement" => CS!TypeOK
    /\ part = "qualification" => AP!TypeOK
    /\ part = "verification" => MV!TypeOK
    /\ part = "cycle" => EC!TypeOK
    /\ part = "safeguards" => ES!TypeOK

(* What passes, and for some kinds what is pending, has the content that its *)
(* signers had before them, although each signs a part of it, or before      *)
(* another, and the package can be edited at any time.                       *)
PassesAsSigned ==
    /\ part = "carbon" => CA!PassedAsSigned
    /\ part = "cutover" => SC!JudgedAsSigned
    /\ part = "collaboration" => PC!CollaborationAsSigned
    /\ part = "planning" => OP!PlannedAsSigned
    /\ part = "network" => EN!AssessedAsSigned
    /\ part = "settlement" => CS!SettledAsSigned
    /\ part = "qualification" => AP!QualifiedAsSigned
    /\ part = "verification" => MV!VerifiedAsReviewed
    /\ part = "cycle" => EC!CycleAsReviewed
    /\ part = "safeguards" => ES!SecuredAsSigned

(* A package that is answered as pending lacks its trust only: the same      *)
(* package signed by the right keys in time passes.                          *)
PendingLacksOnlyTrust ==
    /\ part = "carbon" => CA!PendingNeedsOnlyAttester
    /\ part = "cutover" => SC!PendingNeedsOnlyKeys
    /\ part = "collaboration" => PC!PendingNeedsOnlySources
    /\ part = "planning" => OP!BlockedNeedsOnlySources
    /\ part = "network" => EN!BlockedNeedsOnlySources
    /\ part = "settlement" => CS!PendingNeedsOnlySources
    /\ part = "qualification" => AP!BlockedNeedsOnlySources
    /\ part = "verification" => MV!PendingNeedsOnlyReviewer
    /\ part = "cycle" => EC!PendingNeedsOnlyReviewer
    /\ part = "safeguards" => ES!PendingNeedsOnlySources

(* Figures that different gates, rows or signers answer for agree where      *)
(* they speak of one thing: ledgers with registries, energy with power and   *)
(* time, money with quantities.                                              *)
FiguresAgree ==
    /\ part = "carbon" => CA!LedgerMeetsRegistry /\ CA!VerifiedIsCovered
    /\ part = "collaboration" => PC!EnergyFitsStay /\ PC!SharesMatchVoyage
    /\ part = "planning" => OP!PlanCanBeCarriedOut
    /\ part = "network" => EN!ReadyNetworkServes
    /\ part = "settlement" => CS!TenantsPayTheBills
    /\ part = "qualification" => AP!QualifiedKeptPromises
    /\ part = "verification" => MV!NoHourCountedTwice
    /\ part = "cycle" => EC!CycleIsClosed
    /\ part = "safeguards" => ES!TenantsApart

(* Offices that must be apart are held by as many people and keys, whatever  *)
(* the order and number of the approvals.                                    *)
DutiesApart ==
    /\ part = "carbon" => CA!FiveOffices
    /\ part = "cutover" => SC!KeyPerAuthority
    /\ part = "settlement" => CS!TwoApprovers
    /\ part = "verification" => MV!ReviewerIsAStranger
    /\ part = "cycle" => EC!OfficesApart
    /\ part = "safeguards" => ES!ThreeOwnersApprove

(* What is compared is compared the right way round: better figures and      *)
(* better scores are never worse off, and evidence of one package speaks of  *)
(* one stretch of time.                                                      *)
OrderIsKept ==
    /\ part = "cutover" => SC!OnePicture /\ SC!BetterNeverBlocks
    /\ part = "collaboration" => PC!RanksAreFair
    /\ part = "network" => EN!ChargersHelp
    /\ part = "settlement" => CS!CurveRises
    /\ part = "cycle" => EC!PlanDoCheckAct
    /\ part = "safeguards" => ES!BetterNeverBlocks

===============================================================================
