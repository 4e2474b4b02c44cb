---------------------------- MODULE DispatchSwitch ----------------------------
(* The v7 dispatch adapter (rl/dispatch_switch_v7.py) in its replay: causal  *)
(* MPC, the learned policy from hour TakeOver, MPC again from HandBack.  The *)
(* evidence lies in files that others may write at any time: the pointer     *)
(* with the digest of a report, the report with the digest of its policy,    *)
(* the episodes that the report is recomputed from.                          *)
(*                                                                           *)
(* A digest is the content that it is taken of.                              *)
EXTENDS Integers, SequencesExt

CONSTANTS Releases,    \* directories of evidence, each with a report and a policy
          Weights,     \* contents of a policy file that fit the contract
          Outcomes,    \* what a control vector leads to: cost, rest, unsafe
          TakeOver, HandBack, Hours, MaxEdits

VARIABLES
    disk,       \* the files
    switcher,   \* DispatchSwitcherV7: mode, policy, path, sha
    call,       \* how far switch("learned_v7") is and what it has read
    receipts,   \* switch_receipts
    modes,      \* the mode of each decision
    decision,   \* the last decision
    seen,       \* the files when the last switch began
    torn,       \* whether they changed before it returned
    edits

vars == <<disk, switcher, call, receipts, modes, decision, seen, torn, edits>>

Contents == Weights \cup {"misfit"}
Report == [admitted : BOOLEAN, dataset : {"own", "other"}, policy : Contents]
Evidence == [admits : BOOLEAN, intact : BOOLEAN]
Disk == [pointer : Releases \X Report, reports : [Releases -> Report],
         evidence : [Releases -> Evidence], policies : [Releases -> Contents]]

Mpc == [mode |-> "causal_mpc", policy |-> "mpc", path |-> "none", sha |-> "none"]
Idle == [at |-> "idle", release |-> "none", report |-> "none"]
NoDecision == [by |-> "none"]
-------------------------------------------------------------------------------
Init ==
    /\ \E policies \in [Releases -> Contents], admits \in [Releases -> BOOLEAN],
         datasets \in [Releases -> {"own", "other"}], release \in Releases :
          LET reports == [r \in Releases |-> [admitted |-> admits[r], dataset |-> datasets[r],
                                             policy |-> policies[r]]]
          IN  disk = [pointer |-> <<release, reports[release]>>, reports |-> reports,
                      evidence |-> [r \in Releases |-> [admits |-> admits[r], intact |-> TRUE]],
                      policies |-> policies]
    /\ switcher = Mpc /\ call = Idle /\ receipts = <<>> /\ modes = <<>>
    /\ decision = NoDecision /\ seen = disk /\ torn = FALSE /\ edits = 0

(* A release is pointed to, or a file is changed or put back.                *)
EditedDisk(d) ==
    {[d EXCEPT !.pointer = <<r, d.reports[r]>>] : r \in Releases}
        \cup {[d EXCEPT !.reports[r].admitted = TRUE] : r \in Releases}
        \cup {[d EXCEPT !.evidence[r].intact = ~@] : r \in Releases}
        \cup {[d EXCEPT !.policies[r] = c] : r \in Releases, c \in Contents}
Edit ==
    /\ edits < MaxEdits /\ Len(modes) < Hours
    /\ disk' \in EditedDisk(disk) \ {disk}
    /\ edits' = edits + 1
    /\ torn' = (torn \/ call.at # "idle")
    /\ UNCHANGED <<switcher, call, receipts, modes, decision, seen>>

(* Mutant: the mode is set before it is noted where the switch came from.    *)
MutantReceipt(to, reason) == [from |-> to, to |-> to, reason |-> reason, hour |-> Len(modes)]
Receipt(to, reason) == [from |-> switcher.mode, to |-> to, reason |-> reason, hour |-> Len(modes)]
SwitchTo(to, reason) ==
    /\ switcher' = to
    /\ receipts' = Append(receipts, Receipt(to.mode, reason))

(* A call of switch() for this hour is due; the hour's decision follows it.  *)
Due(hour) == call.at = "idle" /\ Len(modes) = hour /\ \A i \in DOMAIN receipts : receipts[i].hour < hour

Blocked ==
    /\ SwitchTo(Mpc, "admission_or_integrity_blocked")
    /\ call' = Idle
Proceed(to) == call' = [call EXCEPT !.at = to] /\ UNCHANGED <<switcher, receipts>>

(* switch("learned_v7"): the pointer and the digest of its report.           *)
BeginSwitch ==
    /\ Due(TakeOver)
    /\ LET release == disk.pointer[1]
       IN  IF disk.reports[release] = disk.pointer[2]
           THEN /\ call' = [Idle EXCEPT !.at = "verify", !.release = release]
                /\ UNCHANGED <<switcher, receipts>>
           ELSE Blocked
    /\ seen' = disk /\ torn' = FALSE /\ decision' = NoDecision
    /\ UNCHANGED <<disk, modes, edits>>

(* verify_report(): the gates recomputed, every digest compared.             *)
ReportVerifies(d, r) ==
    /\ d.evidence[r].intact
    /\ d.reports[r].admitted = d.evidence[r].admits
    /\ d.policies[r] = d.reports[r].policy
    /\ d.reports[r].dataset = "own"

Verify ==
    /\ call.at = "verify"
    /\ IF ReportVerifies(disk, call.release) THEN Proceed("report") ELSE Blocked
    /\ UNCHANGED <<disk, modes, decision, seen, torn, edits>>

(* Mutant: a verified report is taken for an admitted policy.                *)
MutantAdmissible(report) == report.dataset = "own"

(* The report is read again.                                                 *)
Admissible(report) == report.admitted /\ report.dataset = "own"
ReadReport ==
    /\ call.at = "report"
    /\ LET report == disk.reports[call.release]
       IN  IF Admissible(report)
           THEN /\ call' = [call EXCEPT !.at = "policy", !.report = report]
                /\ UNCHANGED <<switcher, receipts>>
           ELSE Blocked
    /\ UNCHANGED <<disk, modes, decision, seen, torn, edits>>

(* The digest of the policy file, and then its content.                      *)
ComparePolicy ==
    /\ call.at = "policy"
    /\ IF disk.policies[call.release] = call.report.policy THEN Proceed("load") ELSE Blocked
    /\ UNCHANGED <<disk, modes, decision, seen, torn, edits>>
LoadPolicy ==
    /\ call.at = "load"
    /\ IF disk.policies[call.release] \in Weights
       THEN /\ SwitchTo([mode |-> "learned_v7", policy |-> disk.policies[call.release],
                         path |-> call.release, sha |-> call.report.policy], "requested")
            /\ call' = Idle
       ELSE Blocked
    /\ UNCHANGED <<disk, modes, decision, seen, torn, edits>>

(* switch("causal_mpc").                                                     *)
SwitchBack ==
    /\ Due(HandBack)
    /\ SwitchTo(Mpc, "requested")
    /\ decision' = NoDecision
    /\ UNCHANGED <<disk, call, modes, seen, torn, edits>>
-------------------------------------------------------------------------------
(* Mutant: what is cheaper is not asked whether it is safe.                  *)
MutantAccepts(candidate, reference) ==
    candidate.rest <= reference.rest + 1 /\ candidate.cost < reference.cost - 1

(* GuardedDispatchPolicyV7 in units of its tolerances: 1e-6 of the cost and  *)
(* 1e-8 of all that must not get worse, for which rest stands.               *)
Accepts(candidate, reference) ==
    /\ candidate.unsafe = 0
    /\ candidate.rest <= reference.rest + 1
    /\ candidate.cost < reference.cost - 1

(* The cheaper of the accepted proposals, the whole one before the one that  *)
(* changes resources only.                                                   *)
Guarded(reference, whole, local) ==
    IF Accepts(whole, reference) /\ (Accepts(local, reference) => whole.cost <= local.cost) THEN whole
    ELSE IF Accepts(local, reference) THEN local
    ELSE reference

Guard(reference) == {Guarded(reference, whole, local) : whole, local \in Outcomes}

(* QualifiedDispatchPolicyV7: the reference of the learned policy is what    *)
(* the guard makes of the static one over MPC.                               *)
Qualified(mpc) == UNION {Guard(reference) : reference \in Guard(mpc)}

FileHolds == switcher.path # "none" => disk.policies[switcher.path] = switcher.sha

(* step() with the file intact.                                              *)
Decided == modes' = Append(modes, switcher'.mode)
MayStep == /\ call.at = "idle" /\ Len(modes) < Hours /\ ~Due(TakeOver) /\ ~Due(HandBack)
StepMpc ==
    /\ MayStep /\ FileHolds /\ switcher.policy = "mpc"
    /\ decision' = NoDecision
    /\ UNCHANGED <<disk, switcher, call, receipts, seen, torn, edits>> /\ Decided
StepLearned ==
    /\ MayStep /\ FileHolds /\ switcher.policy # "mpc"
    /\ \E mpc \in Outcomes : \E chosen \in Qualified(mpc) :
          decision' = [by |-> switcher.policy, file |-> disk.policies[switcher.path],
                       mpc |-> mpc, chosen |-> chosen]
    /\ UNCHANGED <<disk, switcher, call, receipts, seen, torn, edits>> /\ Decided

(* step() with the file damaged: MPC decides.                                *)
StepFallsBack ==
    /\ MayStep /\ ~FileHolds
    /\ SwitchTo(Mpc, "runtime_artifact_integrity_failure")
    /\ decision' = NoDecision
    /\ UNCHANGED <<disk, call, seen, torn, edits>> /\ Decided

Next ==
    \/ Edit
    \/ BeginSwitch
    \/ Verify
    \/ ReadReport
    \/ ComparePolicy
    \/ LoadPolicy
    \/ SwitchBack
    \/ StepMpc
    \/ StepLearned
    \/ StepFallsBack

Spec == Init /\ [][Next]_vars
-------------------------------------------------------------------------------
TypeOK ==
    /\ disk \in Disk /\ seen \in Disk
    /\ switcher \in {Mpc} \cup [mode : {"learned_v7"}, policy : Weights, path : Releases, sha : Contents]
    /\ call.at \in {"idle", "verify", "report", "policy", "load"}
    /\ call.at # "idle" => call.release \in Releases
    /\ call.at \in {"policy", "load"} => call.report \in Report
    /\ modes \in Seq({"causal_mpc", "learned_v7"}) /\ Len(modes) <= Hours

(* "A damaged policy file falls back, and evidence that was not admitted or  *)
(* is of other data blocks the switch": a decision of learned weights is     *)
(* made with the sealed file in place, and the weights are those of a policy *)
(* that was sealed, admitted and verified when the switch began, unless a    *)
(* file changed while switch() read one after the other.                     *)
LearnedIsSealed ==
    decision.by # "none" =>
        /\ decision.file = switcher.sha
        /\ ~torn => LET r == switcher.path IN
            /\ decision.by = decision.file
            /\ seen.pointer = <<r, seen.reports[r]>> /\ seen.reports[r].policy = decision.by
            /\ seen.reports[r].dataset = "own" /\ seen.evidence[r].admits /\ seen.evidence[r].intact

(* Two guards, one within the other: what a learned policy decides is what   *)
(* causal MPC would, or it is cheaper and safe, and no certified quantity is *)
(* worse than under MPC by more than the two tolerances.                     *)
NeverWorseThanMpc ==
    decision.by # "none" =>
        \/ decision.chosen = decision.mpc
        \/ /\ decision.chosen.cost < decision.mpc.cost - 1
           /\ decision.chosen.unsafe = 0
           /\ decision.chosen.rest <= decision.mpc.rest + 2

(* replay_switches() passes by its first two receipts.                       *)
Passed == Len(receipts) > 1 /\ receipts[1].to = "learned_v7" /\ receipts[2].to = "causal_mpc"
LearnedHours == (TakeOver + 1)..HandBack

(* The receipts tell who decided each hour: the last one before it says so,  *)
(* each goes on where the one before ended, no hour outside the window is    *)
(* decided by learned weights, and a replay that passes without them in an   *)
(* hour of the window has the receipt of the damage.                         *)
ReceiptsTellTheModes ==
    /\ \A h \in DOMAIN modes :
        LET before == {i \in DOMAIN receipts : receipts[i].hour < h}
        IN  /\ modes[h] = IF before = {} THEN "causal_mpc"
                          ELSE receipts[CHOOSE i \in before : \A k \in before : k <= i].to
            /\ h \notin LearnedHours => modes[h] = "causal_mpc"
    /\ \A i \in DOMAIN receipts : receipts[i].from = IF i = 1 THEN "causal_mpc" ELSE receipts[i - 1].to
    /\ Len(modes) = Hours /\ Passed /\ (\E h \in LearnedHours : modes[h] = "causal_mpc") =>
        \E i \in DOMAIN receipts : receipts[i].reason = "runtime_artifact_integrity_failure"
===============================================================================
