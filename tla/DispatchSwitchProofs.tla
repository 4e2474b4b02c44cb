------------------------ MODULE DispatchSwitchProofs ------------------------
(***************************************************************************)
(* Proofs about DispatchSwitch, for any releases, weights, outcomes, hours *)
(* and number of edits.                                                    *)
(*                                                                         *)
(* That learned decisions are sealed is not inductive: it depends on what  *)
(* switch() has read so far, on the files when it began, as long as none   *)
(* changed since, and on its being called once.  ReadSoFar and Switched    *)
(* say so of the call and of the switcher.                                 *)
(***************************************************************************)
EXTENDS DispatchSwitch, SequenceTheorems, TLAPS

(* A release is not called like the absence of one; outcomes are numbers.  *)
DispatchAssumptions ==
    /\ "none" \notin Releases
    /\ Outcomes \subseteq [cost : Int, rest : Int, unsafe : Nat]

(* All that is asked of files: that there are four kinds, and a release is *)
(* pointed to.                                                             *)
FourFiles(d) ==
    /\ d = [pointer |-> d.pointer, reports |-> d.reports, evidence |-> d.evidence,
            policies |-> d.policies]
    /\ d.pointer = <<d.pointer[1], d.pointer[2]>> /\ d.pointer[1] \in Releases

Reasons == {"requested", "admission_or_integrity_blocked", "runtime_artifact_integrity_failure"}
ReceiptRecords == [from : {"causal_mpc", "learned_v7"}, to : {"causal_mpc", "learned_v7"},
                   reason : Reasons, hour : Nat]

Shapes ==
    /\ FourFiles(disk)
    /\ call = [at |-> call.at, release |-> call.release, report |-> call.report]
    /\ call.at \in {"idle", "verify", "report", "policy", "load"}
    /\ modes \in Seq({"causal_mpc", "learned_v7"})
    /\ receipts \in Seq(ReceiptRecords)
    /\ switcher.mode \in {"causal_mpc", "learned_v7"}

(* The pointer and the report of r, as they were when the switch began.    *)
Released(r) ==
    /\ seen.pointer = <<r, seen.reports[r]>> /\ seen.reports[r].dataset = "own"
    /\ seen.evidence[r].admits /\ seen.evidence[r].intact

(* The call under way: nothing else happens, and while no file changes what*)
(* it has read is still so.                                                *)
ReadSoFar ==
    call.at # "idle" =>
        /\ call.release \in Releases /\ decision = NoDecision /\ Len(modes) = TakeOver
        /\ seen.pointer = <<call.release, seen.reports[call.release]>>
        /\ ~torn =>
            /\ seen = disk
            /\ call.at # "verify" => ReportVerifies(disk, call.release)
            /\ call.at \in {"policy", "load"} =>
                  call.report = disk.reports[call.release] /\ call.report.admitted

(* The learned weights were loaded in hour TakeOver, by a call that read   *)
(* what was released, unless a file changed meanwhile.                     *)
Switched ==
    switcher # Mpc =>
        /\ switcher.path \in Releases
        /\ \E i \in DOMAIN receipts : receipts[i].hour = TakeOver
        /\ ~torn => /\ Released(switcher.path)
                    /\ seen.reports[switcher.path].policy = switcher.sha
                    /\ switcher.policy = switcher.sha

(* The last decision is the switcher's, made with the sealed file in place.*)
DecidedSo ==
    decision # NoDecision =>
        /\ switcher # Mpc /\ decision.by = switcher.policy /\ decision.file = switcher.sha
        /\ decision.mpc \in Outcomes /\ decision.chosen \in Qualified(decision.mpc)

DispatchInvariant == Shapes /\ ReadSoFar /\ Switched /\ DecidedSo

-----------------------------------------------------------------------------
(* Whatever is edited, the files are of these kinds.                       *)
LEMMA EditedFiles ==
    ASSUME NEW d, FourFiles(d), NEW e \in EditedDisk(d)
    PROVE  FourFiles(e)
<1>1. CASE \E r \in Releases : e = [d EXCEPT !.pointer = <<r, d.reports[r]>>]
  BY <1>1 DEF FourFiles
<1>2. CASE \E r \in Releases : e = [d EXCEPT !.reports[r].admitted = TRUE]
  <2>1. PICK reports : e = [d EXCEPT !.reports = reports]
    BY <1>2
  <2> QED  BY <2>1 DEF FourFiles
<1>3. CASE \E r \in Releases : e = [d EXCEPT !.evidence[r].intact = ~@]
  <2>1. PICK evidence : e = [d EXCEPT !.evidence = evidence]
    BY <1>3
  <2> QED  BY <2>1 DEF FourFiles
<1>4. CASE \E r \in Releases, c \in Contents : e = [d EXCEPT !.policies[r] = c]
  <2>1. PICK policies : e = [d EXCEPT !.policies = policies]
    BY <1>4
  <2> QED  BY <2>1 DEF FourFiles
<1> QED  BY <1>1, <1>2, <1>3, <1>4 DEF EditedDisk

(* A guard returns the reference or what it accepts in its place.          *)
LEMMA GuardKeepsOrAccepts ==
    ASSUME NEW reference, NEW chosen \in Guard(reference)
    PROVE  chosen = reference \/ (chosen \in Outcomes /\ Accepts(chosen, reference))
  BY DEF Guard, Guarded

(* Two guards in a row: the tolerances add up, the gains do too.           *)
LEMMA QualifiedIsNeverWorse ==
    ASSUME DispatchAssumptions, NEW mpc \in Outcomes, NEW chosen \in Qualified(mpc)
    PROVE  \/ chosen = mpc
           \/ chosen.cost < mpc.cost - 1 /\ chosen.unsafe = 0 /\ chosen.rest <= mpc.rest + 2
<1>1. PICK reference \in Guard(mpc) : chosen \in Guard(reference)
  BY DEF Qualified
<1>2. reference = mpc \/ (reference \in Outcomes /\ Accepts(reference, mpc))
  BY GuardKeepsOrAccepts
<1>3. chosen = reference \/ (chosen \in Outcomes /\ Accepts(chosen, reference))
  BY <1>1, GuardKeepsOrAccepts
<1>4. \A o \in Outcomes : o.cost \in Int /\ o.rest \in Int
  BY DEF DispatchAssumptions
<1> QED  BY <1>2, <1>3, <1>4 DEF Accepts

-----------------------------------------------------------------------------
(* The replay starts with MPC and no call.                                 *)
LEMMA InitialDispatch ==
    ASSUME Init
    PROVE  DispatchInvariant
<1>1. FourFiles(disk)
  <2>1. PICK policies \in [Releases -> Contents], admits \in [Releases -> BOOLEAN],
             datasets \in [Releases -> {"own", "other"}], release \in Releases :
           LET reports == [r \in Releases |-> [admitted |-> admits[r], dataset |-> datasets[r],
                                              policy |-> policies[r]]]
           IN  disk = [pointer |-> <<release, reports[release]>>, reports |-> reports,
                       evidence |-> [r \in Releases |-> [admits |-> admits[r], intact |-> TRUE]],
                       policies |-> policies]
    BY DEF Init
  <2> QED  BY <2>1 DEF FourFiles
<1>2. Shapes
  BY <1>1, EmptySeq DEF Init, Shapes, Mpc, Idle
<1>3. ReadSoFar /\ Switched /\ DecidedSo
  BY DEF Init, ReadSoFar, Switched, DecidedSo, Idle
<1> QED  BY <1>2, <1>3 DEF DispatchInvariant

(* A receipt of this hour is one more.                                     *)
LEMMA MoreReceipts ==
    ASSUME Shapes, NEW to, to.mode \in {"causal_mpc", "learned_v7"},
           NEW reason \in Reasons,
           SwitchTo(to, reason)
    PROVE  /\ switcher' = to /\ Len(modes) \in Nat
           /\ receipts' \in Seq(ReceiptRecords)
           /\ \E i \in DOMAIN receipts' : receipts'[i].hour = Len(modes)
<1> DEFINE receipt == Receipt(to.mode, reason)
           n == Len(receipts)
<1>1. Len(modes) \in Nat /\ receipts \in Seq(ReceiptRecords)
  BY LenProperties DEF Shapes
<1>2. receipt \in ReceiptRecords /\ receipt.hour = Len(modes)
  BY <1>1 DEF Receipt, Shapes, ReceiptRecords
<1>3. receipts' = Append(receipts, receipt) /\ switcher' = to
  BY DEF SwitchTo
<1> HIDE DEF receipt, n
<1>4. Append(receipts, receipt) \in Seq(ReceiptRecords) /\ n \in Nat
  BY <1>1, <1>2, AppendProperties, LenProperties DEF n
<1>5. DOMAIN Append(receipts, receipt) = 1..(n + 1) /\ Append(receipts, receipt)[n + 1] = receipt
  BY <1>1, <1>2, <1>4, AppendProperties, LenProperties DEF n
<1>6. n + 1 \in DOMAIN receipts' /\ receipts'[n + 1].hour = Len(modes)
  BY <1>2, <1>3, <1>4, <1>5
<1> QED  BY <1>1, <1>3, <1>4, <1>6

(* A call that is refused leaves MPC in charge.                            *)
LEMMA BlockedPreserves ==
    ASSUME DispatchInvariant, Blocked, UNCHANGED <<disk, modes>>, decision' = NoDecision
    PROVE  DispatchInvariant'
<1>1. Mpc.mode = "causal_mpc" /\ "admission_or_integrity_blocked" \in Reasons
  BY DEF Mpc, Reasons
<1>2. Shapes'
  BY <1>1, MoreReceipts DEF Blocked, DispatchInvariant, Shapes, Idle
<1>3. ReadSoFar' /\ Switched' /\ DecidedSo'
  BY <1>1, MoreReceipts DEF Blocked, DispatchInvariant, ReadSoFar, Switched, DecidedSo, Idle
<1> QED  BY <1>2, <1>3 DEF DispatchInvariant

(* Somebody changes a file.                                                *)
LEMMA EditPreserves ==
    ASSUME DispatchInvariant, Edit
    PROVE  DispatchInvariant'
<1>1. Shapes'
  <2>1. FourFiles(disk')
    BY EditedFiles DEF Edit, DispatchInvariant, Shapes
  <2> QED  BY <2>1 DEF Edit, DispatchInvariant, Shapes
<1>2. ReadSoFar'
  BY DEF Edit, DispatchInvariant, ReadSoFar
<1>3. Switched' /\ DecidedSo'
  BY DEF Edit, DispatchInvariant, Switched, Released, DecidedSo
<1> QED  BY <1>1, <1>2, <1>3 DEF DispatchInvariant

(* The call begins, once: only it leads away from MPC.                     *)
LEMMA BeginSwitchPreserves ==
    ASSUME DispatchInvariant, BeginSwitch
    PROVE  DispatchInvariant'
<1> DEFINE release == disk.pointer[1]
<1>1. CASE disk.reports[release] # disk.pointer[2]
  BY <1>1, BlockedPreserves DEF BeginSwitch
<1>2. CASE disk.reports[release] = disk.pointer[2]
  <2>1. /\ call' = [Idle EXCEPT !.at = "verify", !.release = release]
        /\ UNCHANGED <<switcher, receipts, disk, modes>> /\ seen' = disk /\ decision' = NoDecision
        /\ Len(modes) = TakeOver /\ ~\E i \in DOMAIN receipts : receipts[i].hour = TakeOver
    <3>1. Len(modes) \in Int /\ \A i \in DOMAIN receipts : receipts[i].hour \in Int
      <4>1. \A i \in DOMAIN receipts : receipts[i] \in ReceiptRecords
        BY LenProperties, ElementOfSeq DEF DispatchInvariant, Shapes
      <4> QED  BY <4>1, LenProperties DEF DispatchInvariant, Shapes, ReceiptRecords
    <3> QED  BY <1>2, <3>1 DEF BeginSwitch, Due
  <2>2. switcher' = Mpc
    BY <2>1 DEF DispatchInvariant, Switched
  <2>3. disk.pointer = <<release, disk.reports[release]>> /\ release \in Releases
    BY <1>2 DEF DispatchInvariant, Shapes, FourFiles
  <2> QED  BY <2>1, <2>2, <2>3 DEF DispatchInvariant, Shapes, Idle, ReadSoFar, Switched, DecidedSo
<1> QED  BY <1>1, <1>2

(* The call goes on: every read is of what is there, and is compared.      *)
LEMMA CallPreserves ==
    ASSUME DispatchInvariant, Verify \/ ReadReport \/ ComparePolicy
    PROVE  DispatchInvariant'
<1>1. /\ call.at # "idle" /\ UNCHANGED <<disk, modes, decision, seen, torn, edits>>
      /\ decision = NoDecision
  BY DEF Verify, ReadReport, ComparePolicy, DispatchInvariant, ReadSoFar
<1>2. CASE Blocked
  BY <1>1, <1>2, BlockedPreserves
<1>3. CASE ~Blocked
  <2>1. UNCHANGED <<switcher, receipts>>
    BY <1>3 DEF Verify, ReadReport, ComparePolicy, Proceed
  <2>2. Switched' /\ DecidedSo'
    BY <1>1, <2>1 DEF DispatchInvariant, Switched, Released, DecidedSo
  <2>3. CASE Verify
    <3>1. call' = [call EXCEPT !.at = "report"] /\ ReportVerifies(disk, call.release)
      BY <1>3, <2>3 DEF Verify, Proceed
    <3>2. Shapes' /\ ReadSoFar'
      BY <1>1, <2>1, <3>1 DEF DispatchInvariant, Shapes, ReadSoFar, ReportVerifies
    <3> QED  BY <2>2, <3>2 DEF DispatchInvariant
  <2>4. CASE ReadReport
    <3> DEFINE report == disk.reports[call.release]
    <3>1. /\ call.at = "report" /\ call' = [call EXCEPT !.at = "policy", !.report = report]
          /\ report.admitted
      BY <1>3, <2>4 DEF ReadReport, Admissible
    <3>2. Shapes' /\ ReadSoFar'
      BY <1>1, <2>1, <3>1 DEF DispatchInvariant, Shapes, ReadSoFar, ReportVerifies
    <3> QED  BY <2>2, <3>2 DEF DispatchInvariant
  <2>5. CASE ComparePolicy
    <3>1. call.at = "policy" /\ call' = [call EXCEPT !.at = "load"]
      BY <1>3, <2>5 DEF ComparePolicy, Proceed
    <3>2. Shapes' /\ ReadSoFar'
      BY <1>1, <2>1, <3>1 DEF DispatchInvariant, Shapes, ReadSoFar, ReportVerifies
    <3> QED  BY <2>2, <3>2 DEF DispatchInvariant
  <2> QED  BY <2>3, <2>4, <2>5
<1> QED  BY <1>2, <1>3

(* The call ends with the weights that were released in charge.            *)
LEMMA LoadPolicyPreserves ==
    ASSUME DispatchInvariant, LoadPolicy
    PROVE  DispatchInvariant'
<1>1. /\ call.at = "load" /\ UNCHANGED <<disk, modes, decision, seen, torn, edits>>
      /\ decision = NoDecision
  BY DEF LoadPolicy, DispatchInvariant, ReadSoFar
<1>2. CASE Blocked
  BY <1>1, <1>2, BlockedPreserves
<1>3. CASE ~Blocked
  <2> DEFINE to == [mode |-> "learned_v7", policy |-> disk.policies[call.release],
                    path |-> call.release, sha |-> call.report.policy]
  <2>1. SwitchTo(to, "requested") /\ call' = Idle
    BY <1>3 DEF LoadPolicy
  <2>2. to.mode = "learned_v7" /\ to.path = call.release
        /\ to.policy = disk.policies[call.release] /\ to.sha = call.report.policy
    OBVIOUS
  <2> HIDE DEF to
  <2>3. /\ switcher' = to /\ receipts' \in Seq(ReceiptRecords)
        /\ \E i \in DOMAIN receipts' : receipts'[i].hour = Len(modes)
    <3>1. "requested" \in Reasons
      BY DEF Reasons
    <3> QED  BY <2>1, <2>2, <3>1, MoreReceipts DEF DispatchInvariant
  <2>4. Shapes' /\ ReadSoFar' /\ DecidedSo'
    BY <1>1, <2>1, <2>2, <2>3 DEF DispatchInvariant, Shapes, ReadSoFar, DecidedSo, Idle
  <2>5. Switched'
    <3>1. /\ call.release \in Releases /\ Len(modes) = TakeOver
          /\ seen.pointer = <<call.release, seen.reports[call.release]>>
      BY <1>1 DEF DispatchInvariant, ReadSoFar
    <3>2. ASSUME ~torn
          PROVE  /\ Released(call.release)
                 /\ seen.reports[call.release].policy = to.sha /\ to.policy = to.sha
      <4>1. /\ seen = disk /\ ReportVerifies(disk, call.release)
            /\ call.report = disk.reports[call.release] /\ call.report.admitted
        BY <1>1, <3>2 DEF DispatchInvariant, ReadSoFar
      <4> QED  BY <2>2, <3>1, <4>1 DEF ReportVerifies, Released
    <3> QED  BY <1>1, <2>2, <2>3, <3>1, <3>2 DEF Switched, Released
  <2> QED  BY <2>4, <2>5 DEF DispatchInvariant
<1> QED  BY <1>2, <1>3

(* Back to MPC, or an hour of the replay.                                  *)
LEMMA HourPreserves ==
    ASSUME DispatchAssumptions, DispatchInvariant,
           SwitchBack \/ StepMpc \/ StepLearned \/ StepFallsBack
    PROVE  DispatchInvariant'
<1>1. call.at = "idle" /\ UNCHANGED <<disk, call, seen, torn>>
  BY DEF SwitchBack, StepMpc, StepLearned, StepFallsBack, MayStep, Due
<1>2. Reasons = {"requested", "admission_or_integrity_blocked", "runtime_artifact_integrity_failure"}
      /\ Mpc.mode = "causal_mpc"
  BY DEF Reasons, Mpc
<1>3. CASE SwitchBack \/ StepFallsBack
  <2>1. \E reason \in Reasons : SwitchTo(Mpc, reason)
    BY <1>2, <1>3 DEF SwitchBack, StepFallsBack
  <2>2. switcher' = Mpc /\ receipts' \in Seq(ReceiptRecords) /\ decision' = NoDecision
    BY <1>2, <1>3, <2>1, MoreReceipts DEF DispatchInvariant, SwitchBack, StepFallsBack
  <2>3. modes' \in Seq({"causal_mpc", "learned_v7"})
    <3>1. CASE SwitchBack
      BY <3>1 DEF DispatchInvariant, Shapes, SwitchBack
    <3>2. CASE StepFallsBack
      <4>1. modes' = Append(modes, "causal_mpc")
        BY <1>2, <2>2, <3>2 DEF StepFallsBack, Decided
      <4> QED  BY <4>1, AppendProperties DEF DispatchInvariant, Shapes
    <3> QED  BY <1>3, <3>1, <3>2
  <2> QED  BY <1>1, <1>2, <2>2, <2>3 DEF DispatchInvariant, Shapes, ReadSoFar, Switched, DecidedSo
<1>4. CASE StepMpc \/ StepLearned
  <2>1. UNCHANGED <<switcher, receipts>> /\ modes' = Append(modes, switcher.mode)
    BY <1>4 DEF StepMpc, StepLearned, Decided
  <2>2. Shapes' /\ ReadSoFar' /\ Switched'
    BY <1>1, <2>1, AppendProperties DEF DispatchInvariant, Shapes, ReadSoFar, Switched, Released
  <2>3. DecidedSo'
    <3>1. CASE StepMpc
      BY <3>1 DEF StepMpc, DecidedSo
    <3>2. CASE StepLearned
      <4>1. PICK mpc \in Outcomes : \E chosen \in Qualified(mpc) :
               decision' = [by |-> switcher.policy, file |-> disk.policies[switcher.path],
                            mpc |-> mpc, chosen |-> chosen]
        BY <3>2 DEF StepLearned
      <4>2. switcher # Mpc
        BY <3>2 DEF StepLearned, Mpc
      <4>3. disk.policies[switcher.path] = switcher.sha
        BY <3>2, <4>2 DEF StepLearned, FileHolds, DispatchInvariant, Switched, DispatchAssumptions
      <4> QED  BY <2>1, <4>1, <4>2, <4>3 DEF DecidedSo
    <3> QED  BY <1>4, <3>1, <3>2
  <2> QED  BY <2>2, <2>3 DEF DispatchInvariant
<1> QED  BY <1>3, <1>4

(* Every step keeps the invariant.                                         *)
LEMMA DispatchStepPreserves ==
    ASSUME DispatchAssumptions, DispatchInvariant, [Next]_vars
    PROVE  DispatchInvariant'
<1>1. CASE UNCHANGED vars
  BY <1>1 DEF vars, DispatchInvariant, Shapes, ReadSoFar, Switched, Released, DecidedSo
<1> QED  BY <1>1, EditPreserves, BeginSwitchPreserves, CallPreserves, LoadPolicyPreserves,
            HourPreserves DEF Next

(* What the invariant says of decisions.                                   *)
LEMMA DecisionsAreSound ==
    ASSUME DispatchAssumptions, DispatchInvariant
    PROVE  LearnedIsSealed /\ NeverWorseThanMpc
<1>1. SUFFICES ASSUME decision.by # "none" PROVE LearnedIsSealed /\ NeverWorseThanMpc
  BY DEF LearnedIsSealed, NeverWorseThanMpc
<1>2. decision # NoDecision
  BY <1>1 DEF NoDecision
<1>3. LearnedIsSealed
  BY <1>2 DEF LearnedIsSealed, DispatchInvariant, DecidedSo, Switched, Released
<1>4. NeverWorseThanMpc
  BY <1>2, QualifiedIsNeverWorse DEF NeverWorseThanMpc, DispatchInvariant, DecidedSo
<1> QED  BY <1>3, <1>4

-----------------------------------------------------------------------------
(* In every replay, whatever happens to the files, the call knows what it  *)
(* has read and the decision is the switcher's.                            *)
THEOREM DispatchHolds ==
    ASSUME DispatchAssumptions
    PROVE  Spec => []DispatchInvariant
<1>1. Init => DispatchInvariant
  BY InitialDispatch
<1>2. DispatchInvariant /\ [Next]_vars => DispatchInvariant'
  BY DispatchStepPreserves
<1> QED  BY <1>1, <1>2, PTL DEF Spec

-----------------------------------------------------------------------------
(* The receipts.  The code replays 72 hours, takes over in hour 12 and     *)
(* hands back in hour 48.                                                  *)
HoursAssumption ==
    /\ TakeOver \in Nat /\ HandBack \in Nat /\ Hours \in Nat
    /\ TakeOver < HandBack /\ HandBack <= Hours

(* What the receipts say of an hour: those of earlier hours come first, and*)
(* the last of them names its mode.                                        *)
Told(rs, h, mode) ==
    \E n \in 0..Len(rs) :
        /\ \A i \in DOMAIN rs : rs[i].hour < h <=> i <= n
        /\ mode = IF n = 0 THEN "causal_mpc" ELSE rs[n].to

Latest(rs) == IF rs = <<>> THEN "causal_mpc" ELSE rs[Len(rs)].to

Chained(rs) ==
    \A i \in DOMAIN rs : rs[i].from = IF i = 1 THEN "causal_mpc" ELSE rs[i - 1].to

(* What brings weights in, or keeps them out, is the first receipt of its  *)
(* hour; whatever else leads to MPC was damage, or the hand-back.          *)
Reasoned(rs) ==
    \A i \in DOMAIN rs :
        IF rs[i].to = "learned_v7" \/ rs[i].reason = "admission_or_integrity_blocked"
        THEN rs[i].hour = TakeOver /\ \A j \in DOMAIN rs : j < i => rs[j].hour < TakeOver
        ELSE rs[i].reason = "requested" => rs[i].hour = HandBack

(* Receipts rs, modes ms, a switcher in mode m, and whether it is called.  *)
Logged(rs, ms, m, called) ==
    /\ rs \in Seq(ReceiptRecords)
    /\ ms \in Seq({"causal_mpc", "learned_v7"})
    /\ \A i \in DOMAIN rs : rs[i].hour <= Len(ms)
    /\ m = Latest(rs)
    /\ Chained(rs)
    /\ Reasoned(rs)
    /\ called => \A i \in DOMAIN rs : rs[i].hour < TakeOver
    /\ m = "learned_v7" => \A i \in DOMAIN rs : rs[i].hour < HandBack
    /\ Len(ms) > HandBack => m = "causal_mpc"
    /\ \A h \in DOMAIN ms : Told(rs, h, ms[h])
    /\ \A h \in DOMAIN ms : h \notin LearnedHours => ms[h] = "causal_mpc"

ReceiptsInvariant ==
    /\ DispatchInvariant
    /\ Logged(receipts, modes, switcher.mode, call.at # "idle")

(* One more receipt, of the hour to come.                                  *)
LEMMA ReceiptLogged ==
    ASSUME HoursAssumption, NEW rs, NEW ms, NEW m, NEW called \in BOOLEAN,
           Logged(rs, ms, m, called),
           NEW r \in ReceiptRecords, r.from = m, r.hour = Len(ms),
           IF r.to = "learned_v7" \/ r.reason = "admission_or_integrity_blocked"
           THEN Len(ms) = TakeOver /\ \A i \in DOMAIN rs : rs[i].hour < TakeOver
           ELSE r.reason = "requested" => Len(ms) = HandBack
    PROVE  Logged(Append(rs, r), ms, r.to, FALSE)
<1> DEFINE n == Len(rs)
           more == Append(rs, r)
<1>1. rs \in Seq(ReceiptRecords) /\ n \in Nat /\ DOMAIN rs = 1..n
      /\ Len(ms) \in Nat /\ DOMAIN ms = 1..Len(ms)
      /\ \A i \in 1..n : rs[i] \in ReceiptRecords
  BY LenProperties, ElementOfSeq DEF Logged
<1>2. /\ more \in Seq(ReceiptRecords) /\ Len(more) = n + 1 /\ DOMAIN more = 1..(n + 1)
      /\ \A i \in 1..n : more[i] = rs[i]
      /\ more[n + 1] = r /\ more # <<>>
  <2>1. more \in Seq(ReceiptRecords)
    BY <1>1, AppendProperties
  <2> QED  BY <1>1, <2>1, AppendProperties, LenProperties
<1>3. \A i \in 1..(n + 1) : i \in 1..n \/ i = n + 1
  BY <1>1
<1>4. \A i \in 1..n : rs[i].hour \in Nat
  BY <1>1 DEF ReceiptRecords
<1> HIDE DEF n, more
<1>5. \A i \in DOMAIN more : more[i].hour <= Len(ms)
  BY <1>1, <1>2, <1>3 DEF Logged
<1>6. r.to = Latest(more)
  BY <1>2 DEF Latest
<1>7. Chained(more)
  <2> SUFFICES ASSUME NEW i \in 1..(n + 1)
               PROVE  more[i].from = IF i = 1 THEN "causal_mpc" ELSE more[i - 1].to
    BY <1>2 DEF Chained
  <2>1. CASE i \in 1..n
    <3>1. i # 1 => i - 1 \in 1..n
      BY <1>1, <2>1
    <3> QED  BY <1>1, <1>2, <2>1, <3>1 DEF Logged, Chained
  <2>2. CASE i = n + 1
    <3>1. n = 0 <=> rs = <<>>
      BY <1>1, EmptySeq DEF n
    <3>2. n # 0 => n \in 1..n /\ i - 1 = n /\ i # 1
      BY <1>1, <2>2
    <3>3. n = 0 => i = 1
      BY <2>2
    <3> QED  BY <1>2, <2>2, <3>1, <3>2, <3>3 DEF Logged, Latest, n
  <2> QED  BY <1>3, <2>1, <2>2
<1>8. Reasoned(more)
  <2> SUFFICES ASSUME NEW i \in 1..(n + 1)
               PROVE  IF \/ more[i].to = "learned_v7"
                         \/ more[i].reason = "admission_or_integrity_blocked"
                      THEN /\ more[i].hour = TakeOver
                           /\ \A j \in 1..(n + 1) : j < i => more[j].hour < TakeOver
                      ELSE more[i].reason = "requested" => more[i].hour = HandBack
    BY <1>2 DEF Reasoned
  <2>1. \A j \in 1..(n + 1) : j < i => j \in 1..n
    BY <1>1
  <2>2. CASE i \in 1..n
    BY <1>1, <1>2, <2>1, <2>2 DEF Logged, Reasoned
  <2>3. CASE i = n + 1
    BY <1>1, <1>2, <2>1, <2>3
  <2> QED  BY <1>3, <2>2, <2>3
<1>9. r.to = "learned_v7" => \A i \in DOMAIN more : more[i].hour < HandBack
  BY <1>1, <1>2, <1>3, <1>4 DEF HoursAssumption
<1>10. Len(ms) > HandBack => r.to = "causal_mpc"
  <2>1. r.to \in {"causal_mpc", "learned_v7"}
    BY DEF ReceiptRecords
  <2>2. r.to = "learned_v7" => Len(ms) = TakeOver
    OBVIOUS
  <2>3. ~(TakeOver > HandBack)
    BY DEF HoursAssumption
  <2> QED  BY <2>1, <2>2, <2>3
<1>11. ASSUME NEW h \in DOMAIN ms PROVE Told(more, h, ms[h])
  <2>1. PICK k \in 0..n :
           /\ \A i \in 1..n : rs[i].hour < h <=> i <= k
           /\ ms[h] = IF k = 0 THEN "causal_mpc" ELSE rs[k].to
    BY <1>1 DEF Logged, Told, n
  <2>2. k \in 0..(n + 1) /\ ~(n + 1 <= k) /\ (k # 0 => k \in 1..n) /\ ~(Len(ms) < h)
    BY <1>1
  <2>3. \A i \in 1..(n + 1) : more[i].hour < h <=> i <= k
    BY <1>2, <1>3, <2>1, <2>2
  <2>4. ms[h] = IF k = 0 THEN "causal_mpc" ELSE more[k].to
    BY <1>2, <2>1, <2>2
  <2> QED  BY <1>2, <2>2, <2>3, <2>4 DEF Told
<1> QED  BY <1>2, <1>5, <1>6, <1>7, <1>8, <1>9, <1>10, <1>11 DEF Logged, more

(* One more hour, decided in the switcher's mode.                          *)
LEMMA HourLogged ==
    ASSUME HoursAssumption, NEW rs, NEW ms, NEW m \in {"causal_mpc", "learned_v7"},
           Logged(rs, ms, m, FALSE),
           m = "learned_v7" => Len(ms) + 1 \in LearnedHours
    PROVE  Logged(rs, Append(ms, m), m, FALSE)
<1> DEFINE l == Len(ms)
           longer == Append(ms, m)
           n == Len(rs)
<1>1. /\ l \in Nat /\ DOMAIN ms = 1..l /\ ms \in Seq({"causal_mpc", "learned_v7"})
      /\ n \in Nat /\ DOMAIN rs = 1..n /\ rs \in Seq(ReceiptRecords)
      /\ \A i \in 1..n : rs[i] \in ReceiptRecords
  BY LenProperties, ElementOfSeq DEF Logged
<1>2. /\ longer \in Seq({"causal_mpc", "learned_v7"})
      /\ Len(longer) = l + 1 /\ DOMAIN longer = 1..(l + 1)
      /\ \A h \in 1..l : longer[h] = ms[h]
      /\ longer[l + 1] = m
  <2>1. longer \in Seq({"causal_mpc", "learned_v7"})
    BY <1>1, AppendProperties
  <2> QED  BY <1>1, <2>1, AppendProperties, LenProperties
<1>3. \A h \in 1..(l + 1) : h \in 1..l \/ h = l + 1
  BY <1>1
<1>4. \A i \in 1..n : rs[i].hour \in Nat /\ rs[i].hour <= l
  BY <1>1 DEF ReceiptRecords, Logged
<1> HIDE DEF l, longer
<1>5. \A i \in DOMAIN rs : rs[i].hour <= Len(longer)
  BY <1>1, <1>2, <1>4
<1>6. Len(longer) > HandBack => m = "causal_mpc"
  BY <1>1, <1>2 DEF HoursAssumption, LearnedHours, l
<1>7. ASSUME NEW h \in 1..(l + 1) PROVE Told(rs, h, longer[h])
  <2>1. CASE h \in 1..l
    BY <1>1, <1>2, <2>1 DEF Logged
  <2>2. CASE h = l + 1
    <3>1. n \in 0..n /\ \A i \in 1..n : rs[i].hour < h <=> i <= n
      BY <1>1, <1>4, <2>2
    <3>2. n = 0 <=> rs = <<>>
      BY <1>1, EmptySeq
    <3>3. longer[h] = IF n = 0 THEN "causal_mpc" ELSE rs[n].to
      BY <1>2, <2>2, <3>2 DEF Logged, Latest
    <3> QED  BY <1>1, <3>1, <3>3 DEF Told
  <2> QED  BY <1>3, <2>1, <2>2
<1>8. ASSUME NEW h \in 1..(l + 1), h \notin LearnedHours PROVE longer[h] = "causal_mpc"
  <2>1. CASE h \in 1..l
    BY <1>1, <1>2, <1>8, <2>1 DEF Logged
  <2>2. CASE h = l + 1
    BY <1>2, <1>8, <2>2 DEF l
  <2> QED  BY <1>3, <2>1, <2>2
<1> QED  BY <1>1, <1>2, <1>5, <1>6, <1>7, <1>8 DEF Logged, longer

(* A receipt that SwitchTo writes, and the hours in which it may.          *)
Written(from, to, reason, hour) == [from |-> from, to |-> to, reason |-> reason, hour |-> hour]
Timely(rs, hour, to, reason) ==
    IF to = "learned_v7" \/ reason = "admission_or_integrity_blocked"
    THEN hour = TakeOver /\ \A i \in DOMAIN rs : rs[i].hour < TakeOver
    ELSE reason = "requested" => hour = HandBack

LEMMA SwitchLogged ==
    ASSUME HoursAssumption, NEW rs, NEW ms, NEW m \in {"causal_mpc", "learned_v7"},
           NEW called \in BOOLEAN, Logged(rs, ms, m, called),
           NEW to \in {"causal_mpc", "learned_v7"}, NEW reason \in Reasons,
           Timely(rs, Len(ms), to, reason)
    PROVE  Logged(Append(rs, Written(m, to, reason, Len(ms))), ms, to, FALSE)
<1> DEFINE r == Written(m, to, reason, Len(ms))
<1>1. /\ r \in ReceiptRecords /\ r.from = m /\ r.hour = Len(ms)
      /\ r.to = to /\ r.reason = reason
  <2>1. Len(ms) \in Nat
    BY LenProperties DEF Logged
  <2> QED  BY <2>1 DEF Written, ReceiptRecords
<1>2. IF r.to = "learned_v7" \/ r.reason = "admission_or_integrity_blocked"
      THEN Len(ms) = TakeOver /\ \A i \in DOMAIN rs : rs[i].hour < TakeOver
      ELSE r.reason = "requested" => Len(ms) = HandBack
  BY <1>1 DEF Timely
<1> HIDE DEF r
<1>3. Logged(Append(rs, r), ms, r.to, FALSE)
  BY <1>1, <1>2, ReceiptLogged
<1> QED  BY <1>1, <1>3 DEF r

LEMMA ReceiptsInitially ==
    ASSUME Init PROVE ReceiptsInvariant
<1>1. receipts = <<>> /\ modes = <<>> /\ switcher.mode = "causal_mpc" /\ call.at = "idle"
  BY DEF Init, Mpc, Idle
<1>2. DOMAIN <<>> = {} /\ Len(<<>>) = 0
  OBVIOUS
<1>3. \A S : <<>> \in Seq(S)
  BY EmptySeq
<1>4. Logged(<<>>, <<>>, "causal_mpc", FALSE)
  BY <1>2, <1>3 DEF Logged, Latest, Chained, Reasoned
<1> QED  BY <1>1, <1>4, InitialDispatch DEF ReceiptsInvariant

LEMMA BlockedLogged ==
    ASSUME HoursAssumption, ReceiptsInvariant, Blocked, UNCHANGED modes,
           Len(modes) = TakeOver, \A i \in DOMAIN receipts : receipts[i].hour < TakeOver
    PROVE  Logged(receipts', modes', switcher'.mode, call'.at # "idle")
<1>1. /\ SwitchTo(Mpc, "admission_or_integrity_blocked") /\ call'.at = "idle"
      /\ Mpc.mode = "causal_mpc" /\ "admission_or_integrity_blocked" \in Reasons
  BY DEF Blocked, Idle, Mpc, Reasons
<1>2. Shapes /\ Logged(receipts, modes, switcher.mode, call.at # "idle")
  BY DEF ReceiptsInvariant, DispatchInvariant
<1>3. Timely(receipts, Len(modes), "causal_mpc", "admission_or_integrity_blocked")
  BY DEF Timely
<1>4. switcher.mode \in {"causal_mpc", "learned_v7"} /\ (call.at # "idle") \in BOOLEAN
  BY <1>2 DEF Shapes
<1>5. Logged(Append(receipts, Written(switcher.mode, "causal_mpc", "admission_or_integrity_blocked", Len(modes))),
             modes, "causal_mpc", FALSE)
  BY <1>1, <1>2, <1>3, <1>4, SwitchLogged
<1>6. /\ receipts' = Append(receipts, Written(switcher.mode, "causal_mpc", "admission_or_integrity_blocked", Len(modes)))
      /\ switcher'.mode = "causal_mpc"
  BY <1>1 DEF SwitchTo, Receipt, Written
<1> QED  BY <1>1, <1>5, <1>6

(* The steps of the call, which are all of hour TakeOver.                  *)
LEMMA CallLogged ==
    ASSUME HoursAssumption, ReceiptsInvariant,
           Verify \/ ReadReport \/ ComparePolicy \/ LoadPolicy
    PROVE  Logged(receipts', modes', switcher'.mode, call'.at # "idle")
<1>1. /\ call.at # "idle" /\ UNCHANGED modes /\ Len(modes) = TakeOver
      /\ Logged(receipts, modes, switcher.mode, call.at # "idle") /\ Shapes
  BY DEF Verify, ReadReport, ComparePolicy, LoadPolicy, ReceiptsInvariant, DispatchInvariant, ReadSoFar
<1>2. \A i \in DOMAIN receipts : receipts[i].hour < TakeOver
  BY <1>1 DEF Logged
<1>3. CASE Blocked
  BY <1>1, <1>2, <1>3, BlockedLogged
<1>4. CASE UNCHANGED <<switcher, receipts>> /\ call'.at # "idle"
  <2>1. (call'.at # "idle") = (call.at # "idle")
    BY <1>1, <1>4
  <2> QED  BY <1>1, <1>4, <2>1
<1>5. CASE LoadPolicy /\ ~Blocked
  <2>1. /\ call'.at = "idle" /\ switcher'.mode = "learned_v7"
        /\ receipts' = Append(receipts, Written(switcher.mode, "learned_v7", "requested", Len(modes)))
    BY <1>5 DEF LoadPolicy, Idle, SwitchTo, Receipt, Written
  <2>2. /\ Timely(receipts, Len(modes), "learned_v7", "requested") /\ "requested" \in Reasons
        /\ switcher.mode \in {"causal_mpc", "learned_v7"} /\ (call.at # "idle") \in BOOLEAN
    BY <1>1, <1>2 DEF Timely, Reasons, Shapes
  <2>3. Logged(Append(receipts, Written(switcher.mode, "learned_v7", "requested", Len(modes))),
               modes, "learned_v7", FALSE)
    BY <1>1, <2>2, SwitchLogged
  <2> QED  BY <1>1, <2>1, <2>3
<1>6. Blocked \/ (UNCHANGED <<switcher, receipts>> /\ call'.at # "idle") \/ (LoadPolicy /\ ~Blocked)
  <2>1. call = [at |-> call.at, release |-> call.release, report |-> call.report]
    BY <1>1 DEF Shapes
  <2> QED  BY <2>1 DEF Verify, ReadReport, ComparePolicy, LoadPolicy, Proceed
<1> QED  BY <1>3, <1>4, <1>5, <1>6

LEMMA BeginLogged ==
    ASSUME HoursAssumption, ReceiptsInvariant, BeginSwitch
    PROVE  Logged(receipts', modes', switcher'.mode, call'.at # "idle")
<1>1. /\ call.at = "idle" /\ Len(modes) = TakeOver /\ UNCHANGED modes
      /\ \A i \in DOMAIN receipts : receipts[i].hour < TakeOver
      /\ Logged(receipts, modes, switcher.mode, FALSE)
  BY DEF BeginSwitch, Due, ReceiptsInvariant
<1>2. CASE Blocked
  BY <1>1, <1>2, BlockedLogged
<1>3. CASE UNCHANGED <<switcher, receipts>> /\ call'.at = "verify"
  <2>1. Logged(receipts, modes, switcher.mode, TRUE)
    BY <1>1 DEF Logged
  <2> QED  BY <1>1, <1>3, <2>1
<1>4. Blocked \/ (UNCHANGED <<switcher, receipts>> /\ call'.at = "verify")
  BY DEF BeginSwitch, Idle
<1> QED  BY <1>2, <1>3, <1>4

(* An hour in which learned weights decide lies in the window.             *)
LEMMA LearnedInWindow ==
    ASSUME HoursAssumption, ReceiptsInvariant, MayStep, switcher.mode = "learned_v7"
    PROVE  Len(modes) + 1 \in LearnedHours
<1> DEFINE l == Len(modes)
<1>1. /\ Logged(receipts, modes, switcher.mode, FALSE) /\ Shapes
      /\ call.at = "idle" /\ ~Due(HandBack)
  BY DEF MayStep, ReceiptsInvariant, DispatchInvariant
<1>2. l \in Nat /\ \A i \in DOMAIN receipts : receipts[i].hour < HandBack /\ receipts[i].hour <= l
  BY <1>1, LenProperties DEF Shapes, Logged
<1>3. l # HandBack
  BY <1>1, <1>2 DEF Due
<1>4. ~(l > HandBack)
  BY <1>1 DEF Logged
<1>5. TakeOver <= l
  <2>1. switcher # Mpc
    BY DEF Mpc
  <2>2. PICK i \in DOMAIN receipts : receipts[i].hour = TakeOver
    BY <2>1 DEF ReceiptsInvariant, DispatchInvariant, Switched
  <2> QED  BY <1>2, <2>2
<1> HIDE DEF l
<1>6. l + 1 \in (TakeOver + 1)..HandBack
  BY <1>2, <1>3, <1>4, <1>5 DEF HoursAssumption
<1> QED  BY <1>6 DEF LearnedHours, l

LEMMA HoursLogged ==
    ASSUME HoursAssumption, ReceiptsInvariant,
           SwitchBack \/ StepMpc \/ StepLearned \/ StepFallsBack
    PROVE  Logged(receipts', modes', switcher'.mode, call'.at # "idle")
<1>1. /\ call.at = "idle" /\ call' = call /\ Shapes
      /\ Logged(receipts, modes, switcher.mode, FALSE)
      /\ Mpc.mode = "causal_mpc"
      /\ "requested" \in Reasons /\ "runtime_artifact_integrity_failure" \in Reasons
  BY DEF SwitchBack, StepMpc, StepLearned, StepFallsBack, MayStep, Due, ReceiptsInvariant,
     DispatchInvariant, Mpc, Reasons
<1>2. CASE SwitchBack
  <2>1. /\ UNCHANGED modes /\ Len(modes) = HandBack /\ switcher'.mode = "causal_mpc"
        /\ receipts' = Append(receipts, Written(switcher.mode, "causal_mpc", "requested", Len(modes)))
    BY <1>1, <1>2 DEF SwitchBack, Due, SwitchTo, Receipt, Written
  <2>2. /\ Timely(receipts, Len(modes), "causal_mpc", "requested")
        /\ switcher.mode \in {"causal_mpc", "learned_v7"}
    BY <1>1, <2>1 DEF Timely, Shapes
  <2>3. Logged(Append(receipts, Written(switcher.mode, "causal_mpc", "requested", Len(modes))),
               modes, "causal_mpc", FALSE)
    BY <1>1, <2>2, SwitchLogged
  <2> QED  BY <1>1, <2>1, <2>3
<1>3. CASE StepMpc \/ StepLearned
  <2>1. /\ UNCHANGED <<switcher, receipts>> /\ modes' = Append(modes, switcher.mode)
        /\ MayStep
    BY <1>3 DEF StepMpc, StepLearned, Decided
  <2>2. switcher.mode \in {"causal_mpc", "learned_v7"}
    BY <1>1 DEF Shapes
  <2>3. Logged(receipts, Append(modes, switcher.mode), switcher.mode, FALSE)
    BY <1>1, <2>1, <2>2, HourLogged, LearnedInWindow
  <2> QED  BY <1>1, <2>1, <2>3
<1>4. CASE StepFallsBack
  <2> DEFINE r == Written(switcher.mode, "causal_mpc", "runtime_artifact_integrity_failure", Len(modes))
  <2>1. /\ switcher'.mode = "causal_mpc" /\ receipts' = Append(receipts, r)
        /\ modes' = Append(modes, switcher'.mode)
    BY <1>1, <1>4 DEF StepFallsBack, SwitchTo, Receipt, Written, Decided
  <2>2. /\ Timely(receipts, Len(modes), "causal_mpc", "runtime_artifact_integrity_failure")
        /\ switcher.mode \in {"causal_mpc", "learned_v7"}
    BY <1>1 DEF Timely, Shapes
  <2>3. Logged(Append(receipts, r), modes, "causal_mpc", FALSE)
    BY <1>1, <2>2, SwitchLogged
  <2> HIDE DEF r
  <2>4. Logged(Append(receipts, r), Append(modes, "causal_mpc"), "causal_mpc", FALSE)
    BY <2>3, HourLogged
  <2> QED  BY <1>1, <2>1, <2>4
<1> QED  BY <1>2, <1>3, <1>4

LEMMA ReceiptsNext ==
    ASSUME DispatchAssumptions, HoursAssumption, ReceiptsInvariant, [Next]_vars
    PROVE  ReceiptsInvariant'
<1>1. DispatchInvariant'
  BY DispatchStepPreserves DEF ReceiptsInvariant
<1>2. Logged(receipts', modes', switcher'.mode, call'.at # "idle")
  <2>1. CASE Edit \/ UNCHANGED vars
    BY <2>1 DEF ReceiptsInvariant, Edit, vars
  <2>2. CASE BeginSwitch
    BY <2>2, BeginLogged
  <2>3. CASE Verify \/ ReadReport \/ ComparePolicy \/ LoadPolicy
    BY <2>3, CallLogged
  <2>4. CASE SwitchBack \/ StepMpc \/ StepLearned \/ StepFallsBack
    BY <2>4, HoursLogged
  <2> QED  BY <2>1, <2>2, <2>3, <2>4 DEF Next
<1> QED  BY <1>1, <1>2 DEF ReceiptsInvariant

(* What the last receipt before an hour says is what CHOOSE picks.         *)
LEMMA ToldIsLast ==
    ASSUME NEW rs, rs \in Seq(ReceiptRecords), NEW h, NEW mode, Told(rs, h, mode)
    PROVE  LET before == {i \in DOMAIN rs : rs[i].hour < h}
           IN  mode = IF before = {} THEN "causal_mpc"
                      ELSE rs[CHOOSE i \in before : \A k \in before : k <= i].to
<1> DEFINE before == {i \in DOMAIN rs : rs[i].hour < h}
           last == CHOOSE i \in before : \A k \in before : k <= i
<1>1. Len(rs) \in Nat /\ DOMAIN rs = 1..Len(rs)
  BY LenProperties
<1>2. PICK n \in 0..Len(rs) :
         /\ \A i \in DOMAIN rs : rs[i].hour < h <=> i <= n
         /\ mode = IF n = 0 THEN "causal_mpc" ELSE rs[n].to
  BY DEF Told
<1>3. before = 1..n
  BY <1>1, <1>2
<1> HIDE DEF before
<1>4. CASE n = 0
  <2>1. before = {}
    BY <1>3, <1>4
  <2> QED  BY <1>2, <1>4, <2>1 DEF before
<1>5. CASE n # 0
  <2>1. n \in before /\ \A k \in before : k <= n
    BY <1>1, <1>3, <1>5
  <2>2. last \in before /\ \A k \in before : k <= last
    BY <2>1
  <2>3. last = n
    BY <1>3, <2>1, <2>2
  <2> QED  BY <1>2, <1>5, <2>1, <2>3 DEF before
<1> QED  BY <1>4, <1>5

(* A replay that passes without learned weights in an hour of the window   *)
(* was damaged: the first receipt brought them in, and what led back to MPC*)
(* before the hand-back was no request and no refused call.                *)
LEMMA PassedOrDamaged ==
    ASSUME HoursAssumption, ReceiptsInvariant, Len(modes) = Hours, Passed,
           NEW h \in LearnedHours, modes[h] = "causal_mpc"
    PROVE  \E i \in DOMAIN receipts : receipts[i].reason = "runtime_artifact_integrity_failure"
<1>1. /\ Logged(receipts, modes, switcher.mode, call.at # "idle")
      /\ receipts \in Seq(ReceiptRecords) /\ modes \in Seq({"causal_mpc", "learned_v7"})
  BY DEF ReceiptsInvariant, DispatchInvariant, Shapes
<1>2. /\ Len(receipts) \in Nat /\ DOMAIN receipts = 1..Len(receipts)
      /\ \A i \in 1..Len(receipts) : receipts[i] \in ReceiptRecords
      /\ Len(modes) \in Nat /\ DOMAIN modes = 1..Len(modes)
  BY <1>1, LenProperties, ElementOfSeq
<1>3. /\ h \in DOMAIN modes /\ h \in Int /\ TakeOver < h /\ h <= HandBack
      /\ 1 \in DOMAIN receipts /\ receipts[1].to = "learned_v7"
  BY <1>2 DEF LearnedHours, HoursAssumption, Passed
<1>4. receipts[1].hour = TakeOver
  BY <1>1, <1>3 DEF Logged, Reasoned
<1>5. PICK n \in 0..Len(receipts) :
         /\ \A i \in DOMAIN receipts : receipts[i].hour < h <=> i <= n
         /\ "causal_mpc" = IF n = 0 THEN "causal_mpc" ELSE receipts[n].to
  BY <1>1, <1>3 DEF Logged, Told
<1>6. n \in DOMAIN receipts /\ n # 1 /\ 1 < n /\ receipts[n].to = "causal_mpc" /\ receipts[n].hour < h
  <2>1. 1 <= n
    BY <1>3, <1>4, <1>5
  <2> QED  BY <1>2, <1>3, <1>5, <2>1
<1>7. receipts[n].reason # "admission_or_integrity_blocked"
  <2> SUFFICES ASSUME receipts[n].reason = "admission_or_integrity_blocked" PROVE FALSE
    OBVIOUS
  <2>1. receipts[1].hour < TakeOver
    BY <1>1, <1>3, <1>6 DEF Logged, Reasoned
  <2> QED  BY <1>4, <2>1 DEF HoursAssumption
<1>8. receipts[n].reason # "requested"
  <2> SUFFICES ASSUME receipts[n].reason = "requested" PROVE FALSE
    OBVIOUS
  <2>1. receipts[n].hour = HandBack
    BY <1>1, <1>6 DEF Logged, Reasoned
  <2> QED  BY <1>3, <1>6, <2>1 DEF HoursAssumption
<1> QED  BY <1>2, <1>6, <1>7, <1>8 DEF ReceiptRecords, Reasons

LEMMA ReceiptsTell ==
    ASSUME HoursAssumption, ReceiptsInvariant
    PROVE  ReceiptsTellTheModes
<1>1. /\ Logged(receipts, modes, switcher.mode, call.at # "idle")
      /\ receipts \in Seq(ReceiptRecords)
  BY DEF ReceiptsInvariant, DispatchInvariant, Shapes
<1>2. ASSUME NEW h \in DOMAIN modes
      PROVE  LET before == {i \in DOMAIN receipts : receipts[i].hour < h}
             IN  /\ modes[h] = IF before = {} THEN "causal_mpc"
                               ELSE receipts[CHOOSE i \in before : \A k \in before : k <= i].to
                 /\ h \notin LearnedHours => modes[h] = "causal_mpc"
  <2>1. Told(receipts, h, modes[h]) /\ (h \notin LearnedHours => modes[h] = "causal_mpc")
    BY <1>1 DEF Logged
  <2> QED  BY <1>1, <2>1, ToldIsLast
<1>3. \A i \in DOMAIN receipts :
         receipts[i].from = IF i = 1 THEN "causal_mpc" ELSE receipts[i - 1].to
  BY <1>1 DEF Logged, Chained
<1>4. Len(modes) = Hours /\ Passed /\ (\E h \in LearnedHours : modes[h] = "causal_mpc") =>
         \E i \in DOMAIN receipts : receipts[i].reason = "runtime_artifact_integrity_failure"
  BY PassedOrDamaged
<1> QED  BY <1>2, <1>3, <1>4 DEF ReceiptsTellTheModes

(* The receipts tell who decided each hour, and a replay that passes       *)
(* without learned weights in an hour of their window says what damaged    *)
(* them: for any hours, files and edits.                                   *)
THEOREM ReceiptsAreTrue ==
    ASSUME DispatchAssumptions, HoursAssumption
    PROVE  Spec => []ReceiptsTellTheModes
<1>1. Init => ReceiptsInvariant
  BY ReceiptsInitially
<1>2. ReceiptsInvariant /\ [Next]_vars => ReceiptsInvariant'
  BY ReceiptsNext
<1>3. ReceiptsInvariant => ReceiptsTellTheModes
  BY ReceiptsTell
<1> QED  BY <1>1, <1>2, <1>3, PTL DEF Spec

-----------------------------------------------------------------------------
(* The types.                                                              *)
LEMMA EditedTypes ==
    ASSUME NEW d \in Disk, NEW e \in EditedDisk(d)
    PROVE  e \in Disk
<1>1. /\ d = [pointer |-> d.pointer, reports |-> d.reports, evidence |-> d.evidence,
              policies |-> d.policies]
      /\ d.pointer \in Releases \X Report /\ d.reports \in [Releases -> Report]
      /\ d.evidence \in [Releases -> Evidence] /\ d.policies \in [Releases -> Contents]
  BY DEF Disk
<1>2. CASE \E r \in Releases : e = [d EXCEPT !.pointer = <<r, d.reports[r]>>]
  <2>1. PICK r \in Releases : e = [d EXCEPT !.pointer = <<r, d.reports[r]>>]
    BY <1>2
  <2>2. <<r, d.reports[r]>> \in Releases \X Report
    BY <1>1
  <2>3. e = [pointer |-> <<r, d.reports[r]>>, reports |-> d.reports, evidence |-> d.evidence,
             policies |-> d.policies]
    BY <1>1, <2>1
  <2> QED  BY <1>1, <2>2, <2>3 DEF Disk
<1>3. CASE \E r \in Releases : e = [d EXCEPT !.reports[r].admitted = TRUE]
  <2>1. PICK r \in Releases : e = [d EXCEPT !.reports[r].admitted = TRUE]
    BY <1>3
  <2> DEFINE reports == [d.reports EXCEPT ![r] = [d.reports[r] EXCEPT !.admitted = TRUE]]
  <2>2. [d.reports[r] EXCEPT !.admitted = TRUE] \in Report
    BY <1>1 DEF Report
  <2>3. reports \in [Releases -> Report]
    BY <1>1, <2>2
  <2>4. e = [pointer |-> d.pointer, reports |-> reports, evidence |-> d.evidence,
             policies |-> d.policies]
    BY <1>1, <2>1
  <2> QED  BY <1>1, <2>3, <2>4 DEF Disk
<1>4. CASE \E r \in Releases : e = [d EXCEPT !.evidence[r].intact = ~@]
  <2>1. PICK r \in Releases : e = [d EXCEPT !.evidence[r].intact = ~@]
    BY <1>4
  <2> DEFINE evidence == [d.evidence EXCEPT ![r] = [d.evidence[r] EXCEPT !.intact = ~d.evidence[r].intact]]
  <2>2. [d.evidence[r] EXCEPT !.intact = ~d.evidence[r].intact] \in Evidence
    <3>1. d.evidence[r] \in Evidence /\ (~d.evidence[r].intact) \in BOOLEAN
      BY <1>1
    <3> QED  BY <3>1 DEF Evidence
  <2>3. evidence \in [Releases -> Evidence]
    BY <1>1, <2>2
  <2>4. e = [pointer |-> d.pointer, reports |-> d.reports, evidence |-> evidence,
             policies |-> d.policies]
    BY <1>1, <2>1
  <2> QED  BY <1>1, <2>3, <2>4 DEF Disk
<1>5. CASE \E r \in Releases, c \in Contents : e = [d EXCEPT !.policies[r] = c]
  <2>1. PICK r \in Releases, c \in Contents : e = [d EXCEPT !.policies[r] = c]
    BY <1>5
  <2> DEFINE policies == [d.policies EXCEPT ![r] = c]
  <2>2. policies \in [Releases -> Contents]
    BY <1>1
  <2>3. e = [pointer |-> d.pointer, reports |-> d.reports, evidence |-> d.evidence,
             policies |-> policies]
    BY <1>1, <2>1
  <2> QED  BY <1>1, <2>2, <2>3 DEF Disk
<1> QED  BY <1>2, <1>3, <1>4, <1>5 DEF EditedDisk

LEMMA TypesInitially ==
    ASSUME HoursAssumption, Init PROVE TypeOK
<1>1. PICK policies \in [Releases -> Contents], admits \in [Releases -> BOOLEAN],
           datasets \in [Releases -> {"own", "other"}], release \in Releases :
         LET reports == [r \in Releases |-> [admitted |-> admits[r], dataset |-> datasets[r],
                                            policy |-> policies[r]]]
         IN  disk = [pointer |-> <<release, reports[release]>>, reports |-> reports,
                     evidence |-> [r \in Releases |-> [admits |-> admits[r], intact |-> TRUE]],
                     policies |-> policies]
  BY DEF Init
<1> DEFINE reports == [r \in Releases |-> [admitted |-> admits[r], dataset |-> datasets[r],
                                           policy |-> policies[r]]]
           evidence == [r \in Releases |-> [admits |-> admits[r], intact |-> TRUE]]
<1>2. reports \in [Releases -> Report] /\ evidence \in [Releases -> Evidence]
  BY DEF Report, Evidence
<1>3. disk = [pointer |-> <<release, reports[release]>>, reports |-> reports,
              evidence |-> evidence, policies |-> policies]
  BY <1>1
<1> HIDE DEF reports, evidence
<1>4. disk \in Disk
  BY <1>2, <1>3 DEF Disk
<1>5. /\ seen = disk /\ switcher = Mpc /\ call.at = "idle" /\ modes = <<>>
      /\ <<>> \in Seq({"causal_mpc", "learned_v7"}) /\ Len(<<>>) = 0
  BY EmptySeq DEF Init, Idle
<1>6. 0 <= Hours
  BY DEF HoursAssumption
<1> QED  BY <1>4, <1>5, <1>6 DEF TypeOK

LEMMA TypesNext ==
    ASSUME HoursAssumption, Shapes, TypeOK, [Next]_vars
    PROVE  TypeOK'
<1>1. disk' \in Disk /\ seen' \in Disk
  <2>1. disk' \in EditedDisk(disk) \/ disk' = disk
    BY DEF Next, vars, Edit, BeginSwitch, Verify, ReadReport, ComparePolicy, LoadPolicy,
       SwitchBack, StepMpc, StepLearned, StepFallsBack
  <2>2. seen' = disk \/ seen' = seen
    BY DEF Next, vars, Edit, BeginSwitch, Verify, ReadReport, ComparePolicy, LoadPolicy,
       SwitchBack, StepMpc, StepLearned, StepFallsBack
  <2> QED  BY <2>1, <2>2, EditedTypes DEF TypeOK
<1>2. /\ call'.at \in {"idle", "verify", "report", "policy", "load"}
      /\ call'.at # "idle" => call'.release \in Releases
      /\ call'.at \in {"policy", "load"} => call'.report \in Report
  <2>1. CASE call' = call \/ call' = Idle
    BY <2>1 DEF TypeOK, Idle
  <2>2. CASE BeginSwitch /\ call' # Idle
    <3>1. call' = [Idle EXCEPT !.at = "verify", !.release = disk.pointer[1]]
      BY <2>2 DEF BeginSwitch, Blocked
    <3>2. disk.pointer[1] \in Releases
      BY DEF TypeOK, Disk
    <3> QED  BY <3>1, <3>2 DEF Idle
  <2>3. CASE (Verify \/ ComparePolicy) /\ call' # Idle
    <3>1. \/ call.at = "verify" /\ call' = [call EXCEPT !.at = "report"]
          \/ call.at = "policy" /\ call' = [call EXCEPT !.at = "load"]
      BY <2>3 DEF Verify, ComparePolicy, Blocked, Proceed
    <3> QED  BY <3>1 DEF TypeOK, Shapes
  <2>4. CASE ReadReport /\ call' # Idle
    <3> DEFINE report == disk.reports[call.release]
    <3>1. call.at = "report" /\ call' = [call EXCEPT !.at = "policy", !.report = report]
      BY <2>4 DEF ReadReport, Blocked
    <3>2. report \in Report
      BY <3>1 DEF TypeOK, Disk
    <3> HIDE DEF report
    <3> QED  BY <3>1, <3>2 DEF TypeOK, Shapes
  <2> QED  BY <2>1, <2>2, <2>3, <2>4 DEF Next, vars, Edit, LoadPolicy, Blocked, SwitchBack,
              StepMpc, StepLearned, StepFallsBack
<1>3. switcher' \in {Mpc} \cup [mode : {"learned_v7"}, policy : Weights, path : Releases,
                                sha : Contents]
  <2>1. CASE switcher' = switcher \/ switcher' = Mpc
    BY <2>1 DEF TypeOK
  <2>2. CASE LoadPolicy /\ ~(switcher' = switcher \/ switcher' = Mpc)
    <3>1. /\ call.at = "load" /\ disk.policies[call.release] \in Weights
          /\ switcher' = [mode |-> "learned_v7", policy |-> disk.policies[call.release],
                          path |-> call.release, sha |-> call.report.policy]
      BY <2>2 DEF LoadPolicy, Blocked, SwitchTo
    <3>2. call.release \in Releases /\ call.report.policy \in Contents
      BY <3>1 DEF TypeOK, Report
    <3> QED  BY <3>1, <3>2
  <2> QED  BY <2>1, <2>2 DEF Next, vars, Edit, BeginSwitch, Verify, ReadReport, ComparePolicy,
              Blocked, Proceed, SwitchTo, SwitchBack, StepMpc, StepLearned, StepFallsBack
<1>4. modes' \in Seq({"causal_mpc", "learned_v7"}) /\ Len(modes') <= Hours
  <2>1. CASE modes' = modes
    BY <2>1 DEF TypeOK
  <2>2. CASE (StepMpc \/ StepLearned \/ StepFallsBack)
    <3>1. modes' = Append(modes, switcher'.mode) /\ Len(modes) < Hours
      BY <2>2 DEF StepMpc, StepLearned, StepFallsBack, Decided, MayStep
    <3>2. switcher'.mode \in {"causal_mpc", "learned_v7"}
      BY <1>3 DEF Mpc
    <3>3. Len(modes) \in Nat /\ Hours \in Nat
      BY LenProperties DEF TypeOK, HoursAssumption
    <3>4. Append(modes, switcher'.mode) \in Seq({"causal_mpc", "learned_v7"})
          /\ Len(Append(modes, switcher'.mode)) = Len(modes) + 1
      BY <3>2, AppendProperties DEF TypeOK
    <3> QED  BY <3>1, <3>3, <3>4
  <2> QED  BY <2>1, <2>2 DEF Next, vars, Edit, BeginSwitch, Verify, ReadReport, ComparePolicy,
              LoadPolicy, SwitchBack
<1> QED  BY <1>1, <1>2, <1>3, <1>4 DEF TypeOK

(* The files, the call, the switcher and the hours keep their types.       *)
THEOREM DispatchTypeCorrect ==
    ASSUME DispatchAssumptions, HoursAssumption
    PROVE  Spec => []TypeOK
<1>1. Init => TypeOK
  BY TypesInitially
<1>2. DispatchInvariant /\ TypeOK /\ [Next]_vars => TypeOK'
  BY TypesNext DEF DispatchInvariant
<1> QED  BY <1>1, <1>2, DispatchHolds, PTL DEF Spec

=============================================================================
