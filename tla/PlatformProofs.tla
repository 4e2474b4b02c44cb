--------------------------- MODULE PlatformProofs ---------------------------
(***************************************************************************)
(* First, proofs about RuntimeSimulator, for any keys, size of the table,  *)
(* scenarios and durations.  That keys take effect once depends on the     *)
(* table holding exactly the keys of the last effects.  That a scenario    *)
(* lasts as asked depends on the count that is left: what it has shaped    *)
(* and what is left add up to what was asked.                              *)
(*                                                                         *)
(* Then, what is proved of the simulator, of the audit log                 *)
(* (AuditChainProofs) and of the dispatch switch (DispatchSwitchProofs)    *)
(* alone holds in the process that they are parts of: no other component   *)
(* of MCPlatform writes their variables.                                   *)
(***************************************************************************)
EXTENDS MCPlatform, SequenceTheorems, FiniteSetTheorems, WellFoundedInduction, TLAPS

(* The table is the list of the last effects, without repetition.          *)
KeysInvariant ==
    /\ remembered \in Seq(Keys)
    /\ Len(remembered) <= CacheLimit
    /\ effects = remembered
    /\ \A i, j \in DOMAIN remembered : remembered[i] = remembered[j] => i = j

(* While a scenario is in force, its ticks so far and those left add up.   *)
ScenarioInvariant ==
    /\ sim \in SimState
    /\ asked \in 0..MaxDuration
    /\ shaped \in 0..MaxDuration
    /\ IF sim.scenario = "normal" THEN shaped = asked
                                  ELSE shaped + sim.left = asked

-----------------------------------------------------------------------------
(* What a tick leaves of a state: the scenario and the count move together.*)
LEMMA TickOfAState ==
    ASSUME NEW s \in SimState, NEW t \in IdleTicks(s)
    PROVE  /\ t \in SimState
           /\ t.scenario = ActiveScenario(s)
           /\ t.left = LeftAfterTick(s)
<1>1. PICK c \in Levels :
         t \in {[running  |-> s.running,
                 scenario |-> ActiveScenario(s),
                 left     |-> LeftAfterTick(s),
                 temp     |-> b,
                 power    |-> p,
                 allowed  |-> DecisionAllowed(s.running, ActiveScenario(s), b, sound)] :
                    b \in NextBands(s.temp, ActiveScenario(s)),
                    p \in AtMost(ThermalLimit(s.temp, ActiveScenario(s))) \cap AtMost(c),
                    sound \in BOOLEAN}
    BY DEF IdleTicks, Ticks
<1>2. PICK b \in NextBands(s.temp, ActiveScenario(s)),
           p \in AtMost(ThermalLimit(s.temp, ActiveScenario(s))) \cap AtMost(c),
           sound \in BOOLEAN :
         t = [running  |-> s.running,
              scenario |-> ActiveScenario(s),
              left     |-> LeftAfterTick(s),
              temp     |-> b,
              power    |-> p,
              allowed  |-> DecisionAllowed(s.running, ActiveScenario(s), b, sound)]
    BY <1>1
<1>3. s.running \in BOOLEAN /\ s.scenario \in Scenarios /\ s.left \in 0..MaxDuration
      /\ s.temp \in Bands
    BY DEF SimState
<1>4. ActiveScenario(s) \in Scenarios
    BY <1>3, ScenariosAssumption DEF ActiveScenario
<1>5. LeftAfterTick(s) \in 0..MaxDuration
    BY <1>3, MaxDurationAssumption DEF LeftAfterTick
<1>6. b \in Bands
    BY <1>2, <1>3 DEF NextBands, Bands
<1>7. p \in Levels
    BY <1>2 DEF AtMost
<1>8. DecisionAllowed(s.running, ActiveScenario(s), b, sound) \in BOOLEAN
    BY DEF DecisionAllowed
<1> QED
    BY <1>2, <1>3, <1>4, <1>5, <1>6, <1>7, <1>8 DEF SimState

(* A fresh simulator has no scenario in force after its first tick.        *)
LEMMA ConstructedIsNormal ==
    ASSUME NEW t \in Constructed
    PROVE  t \in SimState /\ t.scenario = "normal"
<1>1. Fresh \in SimState
    BY ScenariosAssumption, MaxDurationAssumption DEF Fresh, SimState, Bands, Levels, Derated
<1>2. ActiveScenario(Fresh) = "normal"
    BY DEF ActiveScenario, Fresh
<1> QED
    BY <1>1, <1>2, TickOfAState DEF Constructed

(* The table after one more key: the last entries, still without           *)
(* repetition when the key was not among them.                             *)
LEMMA LastOnesWithoutRepetition ==
    ASSUME NEW k \in Keys, remembered \in Seq(Keys), Len(remembered) <= CacheLimit,
           \A i, j \in DOMAIN remembered : remembered[i] = remembered[j] => i = j,
           ~Known(k),
           NEW after, after = LastOnes(Append(remembered, k), CacheLimit)
    PROVE  /\ after \in Seq(Keys)
           /\ Len(after) <= CacheLimit
           /\ \A i, j \in DOMAIN after : after[i] = after[j] => i = j
<1> DEFINE longer == Append(remembered, k)
<1>1. longer \in Seq(Keys) /\ Len(longer) = Len(remembered) + 1 /\ Len(remembered) \in Nat
    BY AppendProperties, LenProperties
<1>2. \A i \in 1..Len(remembered) : longer[i] = remembered[i] /\ remembered[i] # k
    BY AppendProperties, LenProperties DEF Known
<1>3. longer[Len(remembered) + 1] = k
    BY AppendProperties
<1>4. \A i, j \in 1..Len(longer) : longer[i] = longer[j] => i = j
    BY <1>1, <1>2, <1>3, LenProperties
<1>5. CASE Len(longer) > CacheLimit
    <2>1. Len(longer) # 0 /\ after = Tail(longer)
        BY <1>1, <1>5, CacheLimitAssumption DEF LastOnes
    <2> HIDE DEF longer
    <2>2. after \in Seq(Keys) /\ Len(after) = Len(longer) - 1
          /\ \A i \in 1..Len(after) : after[i] = longer[i + 1]
        BY <1>1, <2>1, HeadTailProperties, EmptySeq
    <2>3. DOMAIN after = 1..Len(after)
        BY <2>2, LenProperties
    <2> QED
        BY <1>1, <1>4, <2>2, <2>3, CacheLimitAssumption
<1>6. CASE ~(Len(longer) > CacheLimit)
    <2>1. after = longer /\ DOMAIN longer = 1..Len(longer)
        BY <1>1, <1>6, LenProperties DEF LastOnes
    <2> HIDE DEF longer
    <2> QED
        BY <1>1, <1>4, <1>6, <2>1, CacheLimitAssumption
<1> QED
    BY <1>5, <1>6

(* Every mutation that takes effect keeps the table as it should be.       *)
LEMMA RememberKeepsKeys ==
    ASSUME NEW k \in Keys, KeysInvariant, ~Known(k), Remember(k)
    PROVE  KeysInvariant'
<1>1. effects' = remembered' /\ remembered' = LastOnes(Append(remembered, k), CacheLimit)
    BY DEF KeysInvariant, Remember
<1> QED
    BY <1>1, LastOnesWithoutRepetition DEF KeysInvariant

-----------------------------------------------------------------------------
LEMMA KeysInitially == Init => KeysInvariant
    BY CacheLimitAssumption DEF Init, KeysInvariant

LEMMA KeysNext == KeysInvariant /\ [Next]_vars => KeysInvariant'
<1> SUFFICES ASSUME KeysInvariant, [Next]_vars PROVE KeysInvariant'
    OBVIOUS
<1>1. CASE UNCHANGED <<remembered, effects>>
    BY <1>1 DEF KeysInvariant
<1>2. CASE \E k \in Keys : ~Known(k) /\ Remember(k)
    BY <1>2, RememberKeepsKeys
<1>3. UNCHANGED <<remembered, effects>> \/ \E k \in Keys : ~Known(k) /\ Remember(k)
    BY DEF Next, vars, Tick, Replay, ControlStart, ControlStop, ControlReset,
           ControlAdvance, Inject
<1> QED
    BY <1>1, <1>2, <1>3

(* A key that is sent again within the last CacheLimit mutations does not  *)
(* take effect again, for any table size and any keys.                     *)
THEOREM KeysOnce == Spec => []KeysTakeEffectOnce
<1>1. KeysInvariant => KeysTakeEffectOnce
    BY DEF KeysInvariant, KeysTakeEffectOnce
<1> QED
    BY <1>1, KeysInitially, KeysNext, PTL DEF Spec

-----------------------------------------------------------------------------
LEMMA ScenarioInitially == Init => ScenarioInvariant
    BY ConstructedIsNormal, MaxDurationAssumption DEF Init, ScenarioInvariant

(* A tick of s, itself a state whose sum is right.                         *)
LEMMA TickKeepsScenario ==
    ASSUME ScenarioInvariant, NEW s \in SimState,
           s.scenario = sim.scenario, s.left = sim.left,
           sim' \in IdleTicks(s), Ticked
    PROVE  ScenarioInvariant'
<1>1. /\ sim' \in SimState
      /\ sim'.scenario = ActiveScenario(s)
      /\ sim'.left = LeftAfterTick(s)
    BY TickOfAState
<1>2. s.left \in 0..MaxDuration
    BY DEF SimState
<1>3. CASE s.scenario = "normal"
    BY <1>1, <1>3 DEF ScenarioInvariant, Ticked, ActiveScenario
<1>4. CASE s.scenario # "normal" /\ s.left = 0
    BY <1>1, <1>4 DEF ScenarioInvariant, Ticked, ActiveScenario
<1>5. CASE s.scenario # "normal" /\ s.left # 0
    <2>1. sim'.scenario = s.scenario /\ sim'.left = s.left - 1
        BY <1>1, <1>5 DEF ActiveScenario, LeftAfterTick
    <2>2. shaped' = shaped + 1 /\ asked' = asked /\ shaped + s.left = asked
        BY <2>1, <1>5 DEF ScenarioInvariant, Ticked
    <2>3. asked \in 0..MaxDuration /\ shaped \in 0..MaxDuration
        BY DEF ScenarioInvariant
    <2> QED
        BY <1>1, <1>2, <1>5, <2>1, <2>2, <2>3, MaxDurationAssumption DEF ScenarioInvariant
<1> QED
    BY <1>3, <1>4, <1>5

LEMMA InjectKeepsScenario ==
    ASSUME ScenarioInvariant, NEW k \in Keys, NEW scenario \in Scenarios,
           NEW n \in 1..MaxDuration, Inject(k, scenario, n)
    PROVE  ScenarioInvariant'
<1> DEFINE s == [sim EXCEPT !.scenario = scenario,
                            !.left = IF scenario = "normal" THEN 0 ELSE n]
<1>1. /\ s \in SimState /\ s.scenario = scenario
      /\ s.left = IF scenario = "normal" THEN 0 ELSE n
    <2>1. ASSUME NEW left \in 0..MaxDuration,
                 NEW t, t = [sim EXCEPT !.scenario = scenario, !.left = left]
          PROVE  t \in SimState /\ t.scenario = scenario /\ t.left = left
        BY <2>1 DEF ScenarioInvariant, SimState
    <2>2. (IF scenario = "normal" THEN 0 ELSE n) \in 0..MaxDuration
        BY MaxDurationAssumption
    <2> QED
        BY <2>1, <2>2
<1>2. sim' \in IdleTicks(s)
    BY DEF Inject, Injected
<1> HIDE DEF s
<1>3. /\ sim' \in SimState
      /\ sim'.scenario = ActiveScenario(s)
      /\ sim'.left = LeftAfterTick(s)
    BY <1>1, <1>2, TickOfAState
<1>4. CASE scenario = "normal"
    BY <1>1, <1>3, <1>4, MaxDurationAssumption
    DEF Inject, ScenarioInvariant, ActiveScenario
<1>5. CASE scenario # "normal"
    <2>1. sim'.scenario = scenario /\ sim'.left = n - 1
        BY <1>1, <1>3, <1>5 DEF ActiveScenario, LeftAfterTick
    <2>2. asked' = n /\ shaped' = 1
        BY <1>5 DEF Inject
    <2> QED
        BY <1>3, <1>5, <2>1, <2>2, MaxDurationAssumption DEF ScenarioInvariant
<1> QED
    BY <1>4, <1>5

LEMMA ScenarioNext == ScenarioInvariant /\ [Next]_vars => ScenarioInvariant'
<1> SUFFICES ASSUME ScenarioInvariant, [Next]_vars PROVE ScenarioInvariant'
    OBVIOUS
<1>0. sim \in SimState
    BY DEF ScenarioInvariant
<1>1. CASE UNCHANGED <<sim, asked, shaped>>
    BY <1>1 DEF ScenarioInvariant
<1>2. CASE Tick
    BY <1>0, <1>2, TickKeepsScenario DEF Tick
<1>3. ASSUME NEW k \in Keys, ControlStart(k) PROVE ScenarioInvariant'
    <2> DEFINE s == [sim EXCEPT !.running = TRUE]
    <2>1. s \in SimState /\ s.scenario = sim.scenario /\ s.left = sim.left
        BY <1>0 DEF SimState
    <2>2. sim' \in IdleTicks(s) /\ Ticked
        BY <1>3 DEF ControlStart, Started
    <2> HIDE DEF s
    <2> QED
        BY <2>1, <2>2, TickKeepsScenario
<1>4. ASSUME NEW k \in Keys, ControlStop(k) PROVE ScenarioInvariant'
    <2>1. sim' = [sim EXCEPT !.running = FALSE] /\ UNCHANGED <<asked, shaped>>
        BY <1>4 DEF ControlStop, Stopped, history
    <2>2. sim' \in SimState /\ sim'.scenario = sim.scenario /\ sim'.left = sim.left
        BY <1>0, <2>1 DEF SimState
    <2> QED
        BY <2>1, <2>2 DEF ScenarioInvariant
<1>5. ASSUME NEW k \in Keys, ControlReset(k) PROVE ScenarioInvariant'
    BY <1>5, ConstructedIsNormal, MaxDurationAssumption DEF ControlReset, ScenarioInvariant
<1>6. ASSUME NEW k \in Keys, ControlAdvance(k) PROVE ScenarioInvariant'
    <2>1. CASE sim.running
        BY <1>0, <1>6, <2>1, TickKeepsScenario DEF ControlAdvance, Advanced
    <2>2. CASE ~sim.running
        BY <1>1, <1>6, <2>2 DEF ControlAdvance, Advanced, history
    <2> QED
        BY <2>1, <2>2
<1>7. ASSUME NEW k \in Keys, NEW scenario \in Scenarios, NEW n \in 1..MaxDuration,
             Inject(k, scenario, n)
      PROVE  ScenarioInvariant'
    BY <1>7, InjectKeepsScenario
<1> QED
    BY <1>1, <1>2, <1>3, <1>4, <1>5, <1>6, <1>7 DEF Next, vars, Replay

LEMMA ScenarioSums == ScenarioInvariant => ScenarioLastsAsAsked
<1> SUFFICES ASSUME ScenarioInvariant PROVE ScenarioLastsAsAsked
    OBVIOUS
<1>1. sim.left \in Nat /\ asked \in Nat /\ shaped \in Nat
    BY MaxDurationAssumption DEF ScenarioInvariant, SimState
<1> QED
    BY <1>1 DEF ScenarioInvariant, ScenarioLastsAsAsked

(* An injected scenario shapes exactly as many ticks as were asked for,    *)
(* for any duration, across stops, starts, resets and other injections.    *)
THEOREM ScenarioLasts == Spec => []ScenarioLastsAsAsked
    BY ScenarioSums, ScenarioInitially, ScenarioNext, PTL DEF Spec

(* The variables keep their types, the table its bound.                    *)
THEOREM SimulatorTypeCorrect == Spec => []TypeOK
<1>1. KeysInvariant /\ ScenarioInvariant => TypeOK
    BY DEF KeysInvariant, ScenarioInvariant, TypeOK
<1> QED
    BY <1>1, KeysInitially, KeysNext, ScenarioInitially, ScenarioNext, PTL DEF Spec

-----------------------------------------------------------------------------
(* The process.                                                            *)
AP == INSTANCE AuditChainProofs
DP == INSTANCE DispatchSwitchProofs
    WITH Releases <- {"released", "attempt"}, Weights <- {"w1", "w2"},
         Outcomes <- {[cost |-> 4, rest |-> 0, unsafe |-> 0], [cost |-> 2, rest |-> 1, unsafe |-> 0],
                      [cost |-> 0, rest |-> 2, unsafe |-> 0], [cost |-> 0, rest |-> 0, unsafe |-> 1]},
         TakeOver <- 1, HandBack <- 3, Hours <- 4, MaxEdits <- 2

(* The process starts with a log that AuditChain starts with.               *)
LEMMA InitialPlatform ==
    ASSUME PlatformInit, AP!LogAssumptions
    PROVE  AP!LogInvariant
<1>1. AU!Init
  BY DEF PlatformInit
<1>2. AP!Init
  BY <1>1 DEF AU!Init, AP!Init, AU!Genesis, AP!Genesis, AU!Unhashed, AP!Unhashed,
     AU!SetToAllKPermutations, AP!SetToAllKPermutations, AU!SetToSeqs, AP!SetToSeqs,
     AU!Cardinality, AP!Cardinality, AU!IsFiniteSet, AP!IsFiniteSet
<1> QED  BY <1>2, AP!InitialLog

(* A step of the process is a step of the log's, or leaves the log alone.   *)
LEMMA PlatformStep ==
    ASSUME [PlatformNext]_<<part, vars, audit, limiter, dispatch>>
    PROVE  AU!Next \/ UNCHANGED audit
  BY DEF PlatformNext, SimulatorStep, AuditStep, LimiterStep, DispatchStep

LEMMA PlatformStepPreserves ==
    ASSUME AP!LogAssumptions, AP!LogInvariant,
           [PlatformNext]_<<part, vars, audit, limiter, dispatch>>
    PROVE  AP!LogInvariant'
<1>1. [AP!Next]_(AP!vars)
  <2>1. AU!Next => AP!Next
    BY DEF AU!Next, AP!Next, AU!Handle, AP!Handle, AU!HandleRaises, AP!HandleRaises, AU!Lock, AP!Lock, AU!MayLock, AP!MayLock, AU!ReadPrevious, AP!ReadPrevious, AU!PreviousHash, AP!PreviousHash, AU!HashOf, AP!HashOf, AU!Genesis, AP!Genesis, AU!Written, AP!Written, AU!Last, AP!Last, AU!Front, AP!Front, AU!Write, AP!Write, AU!WrittenKinds, AP!WrittenKinds, AU!Part, AP!Part, AU!WriteFails, AP!WriteFails, AU!Crash, AP!Crash
  <2>2. UNCHANGED audit => UNCHANGED AP!vars
    BY DEF audit, AP!vars
  <2> QED  BY <2>1, <2>2, PlatformStep
<1> QED  BY <1>1, AP!StepPreserves

(* What the invariant says is what the runs of MCPlatform check.            *)
LEMMA LogOfPlatform ==
    ASSUME AP!LogInvariant
    PROVE  ChainVerifies /\ VerifiedIsComplete /\ EditsDetected
<1>1. AP!ChainVerifies /\ AP!VerifiedIsComplete /\ AP!EditsDetected
  BY AP!LogIsSound, AP!EditsAreDetected
<1>2. ChainVerifies
  BY <1>1 DEF ChainVerifies, AU!ChainVerifies, AP!ChainVerifies,
     AU!Verifies, AP!Verifies, AU!HashOf, AP!HashOf, AU!Genesis, AP!Genesis
<1>3. VerifiedIsComplete
  BY <1>1 DEF VerifiedIsComplete, AU!VerifiedIsComplete, AP!VerifiedIsComplete,
     AU!AnsweredIsAudited, AP!AnsweredIsAudited, AU!Audited, AP!Audited,
     AU!Verifies, AP!Verifies, AU!HashOf, AP!HashOf, AU!Genesis, AP!Genesis
<1>4. EditsDetected
  BY <1>1 DEF EditsDetected, AU!EditsDetected, AP!EditsDetected, AU!RemoveAt, AP!RemoveAt,
     AU!Verifies, AP!Verifies, AU!HashOf, AP!HashOf, AU!Genesis, AP!Genesis
<1> QED  BY <1>2, <1>3, <1>4

-----------------------------------------------------------------------------
(* So the log is as AuditChain has it, in every state of the process.       *)
THEOREM PlatformLogHolds ==
    ASSUME AP!LogAssumptions
    PROVE  PlatformSpec => []AP!LogInvariant
<1>1. PlatformInit => AP!LogInvariant
  BY InitialPlatform
<1>2. AP!LogInvariant /\ [PlatformNext]_<<part, vars, audit, limiter, dispatch>> => AP!LogInvariant'
  BY PlatformStepPreserves
<1> QED  BY <1>1, <1>2, PTL DEF PlatformSpec

(* verify_audit_chain() accepts every log in which no line is broken,        *)
(* however the appends interleave and whatever fails.                       *)
THEOREM LogVerifies ==
    ASSUME AP!LogAssumptions
    PROVE  PlatformSpec => []ChainVerifies
  BY PlatformLogHolds, LogOfPlatform, PTL

(* A log that it accepts has the event of every answered request.           *)
THEOREM LogIsComplete ==
    ASSUME AP!LogAssumptions
    PROVE  PlatformSpec => []VerifiedIsComplete
  BY PlatformLogHolds, LogOfPlatform, PTL

(* A log without one of its events, the last excepted, or with two of them  *)
(* exchanged, is not accepted.                                              *)
THEOREM EditsOfTheLogAreDetected ==
    ASSUME AP!LogAssumptions
    PROVE  PlatformSpec => []EditsDetected
  BY PlatformLogHolds, LogOfPlatform, PTL

-----------------------------------------------------------------------------
(* The replay of the process, when it is one.                               *)
ReplayHolds == part = "dispatch" => DP!ReceiptsInvariant /\ DP!TypeOK

LEMMA ReplayAssumptions == DP!DispatchAssumptions /\ DP!HoursAssumption
  BY DEF DP!DispatchAssumptions, DP!HoursAssumption

LEMMA InitialReplay ==
    ASSUME PlatformInit
    PROVE  ReplayHolds
<1> SUFFICES ASSUME part = "dispatch" PROVE DP!ReceiptsInvariant /\ DP!TypeOK
  BY DEF ReplayHolds
<1>1. DS!Init
  BY DEF PlatformInit
<1>2. DP!Init
  BY <1>1 DEF DS!Init, DP!Init, DS!Contents, DP!Contents, DS!Mpc, DP!Mpc, DS!Idle, DP!Idle, DS!NoDecision,
       DP!NoDecision
<1> QED  BY <1>2, ReplayAssumptions, DP!ReceiptsInitially, DP!TypesInitially

LEMMA ReplayStep ==
    ASSUME ReplayHolds, [PlatformNext]_<<part, vars, audit, limiter, dispatch>>
    PROVE  ReplayHolds'
<1> SUFFICES ASSUME part' = "dispatch" PROVE DP!ReceiptsInvariant' /\ DP!TypeOK'
  BY DEF ReplayHolds
<1>1. part = "dispatch" /\ (DS!Next \/ UNCHANGED dispatch)
  BY DEF PlatformNext, SimulatorStep, AuditStep, LimiterStep, DispatchStep
<1>2. [DP!Next]_(DP!vars)
  <2>1. DS!Next => DP!Next
    <3>1. DS!Edit => DP!Edit
      BY DEF DS!Edit, DP!Edit, DS!EditedDisk, DP!EditedDisk, DS!Contents, DP!Contents
    <3>2. DS!BeginSwitch => DP!BeginSwitch
      BY DEF DS!BeginSwitch, DP!BeginSwitch, DS!Due, DP!Due, DS!Idle, DP!Idle, DS!Blocked,
         DP!Blocked, DS!SwitchTo, DP!SwitchTo, DS!Receipt, DP!Receipt, DS!Mpc,
         DP!Mpc, DS!NoDecision, DP!NoDecision
    <3>3. DS!Verify => DP!Verify
      BY DEF DS!Verify, DP!Verify, DS!ReportVerifies, DP!ReportVerifies, DS!Proceed,
         DP!Proceed, DS!Blocked, DP!Blocked, DS!SwitchTo, DP!SwitchTo,
         DS!Receipt, DP!Receipt, DS!Mpc, DP!Mpc, DS!Idle, DP!Idle
    <3>4. DS!ReadReport => DP!ReadReport
      BY DEF DS!ReadReport, DP!ReadReport, DS!Admissible, DP!Admissible, DS!Blocked,
         DP!Blocked, DS!SwitchTo, DP!SwitchTo, DS!Receipt, DP!Receipt, DS!Mpc,
         DP!Mpc, DS!Idle, DP!Idle
    <3>5. DS!ComparePolicy => DP!ComparePolicy
      BY DEF DS!ComparePolicy, DP!ComparePolicy, DS!Proceed, DP!Proceed, DS!Blocked,
         DP!Blocked, DS!SwitchTo, DP!SwitchTo, DS!Receipt, DP!Receipt, DS!Mpc,
         DP!Mpc, DS!Idle, DP!Idle
    <3>6. DS!LoadPolicy => DP!LoadPolicy
      BY DEF DS!LoadPolicy, DP!LoadPolicy, DS!SwitchTo, DP!SwitchTo, DS!Receipt, DP!Receipt,
         DS!Idle, DP!Idle, DS!Blocked, DP!Blocked, DS!Mpc, DP!Mpc
    <3>7. DS!SwitchBack => DP!SwitchBack
      BY DEF DS!SwitchBack, DP!SwitchBack, DS!Due, DP!Due, DS!SwitchTo, DP!SwitchTo,
         DS!Receipt, DP!Receipt, DS!Mpc, DP!Mpc, DS!NoDecision, DP!NoDecision
    <3>8. DS!StepMpc => DP!StepMpc
      BY DEF DS!StepMpc, DP!StepMpc, DS!MayStep, DP!MayStep, DS!Due, DP!Due, DS!FileHolds,
         DP!FileHolds, DS!NoDecision, DP!NoDecision, DS!Decided, DP!Decided
    <3>9. DS!StepLearned => DP!StepLearned
      <4>1. \A candidate, reference : DS!Accepts(candidate, reference) <=> DP!Accepts(candidate, reference)
        BY DEF DS!Accepts, DP!Accepts
      <4>2. \A reference, whole, local : DS!Guarded(reference, whole, local) = DP!Guarded(reference, whole, local)
        BY <4>1, Zenon DEF DS!Guarded, DP!Guarded
      <4>3. \A reference : DS!Guard(reference) = DP!Guard(reference)
        BY <4>2 DEF DS!Guard, DP!Guard
      <4>4. \A mpc : DS!Qualified(mpc) = DP!Qualified(mpc)
        BY <4>3 DEF DS!Qualified, DP!Qualified
      <4> QED  BY <4>4 DEF DS!StepLearned, DP!StepLearned, DS!MayStep, DP!MayStep, DS!Due,
               DP!Due, DS!FileHolds, DP!FileHolds, DS!Decided, DP!Decided
    <3>10. DS!StepFallsBack => DP!StepFallsBack
      BY DEF DS!StepFallsBack, DP!StepFallsBack, DS!MayStep, DP!MayStep, DS!Due, DP!Due,
         DS!FileHolds, DP!FileHolds, DS!SwitchTo, DP!SwitchTo, DS!Receipt,
         DP!Receipt, DS!Mpc, DP!Mpc, DS!NoDecision, DP!NoDecision, DS!Decided,
         DP!Decided
    <3> QED  BY <3>1, <3>2, <3>3, <3>4, <3>5, <3>6, <3>7, <3>8, <3>9, <3>10 DEF DS!Next, DP!Next
  <2>2. UNCHANGED dispatch => UNCHANGED DP!vars
    BY DEF dispatch, DP!vars
  <2> QED  BY <1>1, <2>1, <2>2
<1>3. DP!ReceiptsInvariant /\ DP!TypeOK
  BY <1>1 DEF ReplayHolds
<1>4. DP!ReceiptsInvariant'
  BY <1>2, <1>3, ReplayAssumptions, DP!ReceiptsNext
<1>5. DP!TypeOK'
  <2>1. DP!Shapes
    BY <1>3 DEF DP!ReceiptsInvariant, DP!DispatchInvariant
  <2> QED  BY <1>2, <1>3, <2>1, ReplayAssumptions, DP!TypesNext
<1> QED  BY <1>4, <1>5

LEMMA DecisionsOfPlatform ==
    ASSUME ReplayHolds
    PROVE  LearnedIsSealed /\ NeverWorseThanMpc /\ ReceiptsTellTheModes
<1>1. part = "dispatch" => DP!LearnedIsSealed /\ DP!NeverWorseThanMpc
  BY ReplayAssumptions, DP!DecisionsAreSound DEF ReplayHolds, DP!ReceiptsInvariant
<1>2. part = "dispatch" => DP!ReceiptsTellTheModes
  BY ReplayAssumptions, DP!ReceiptsTell DEF ReplayHolds
<1>3. ReceiptsTellTheModes
  BY <1>2 DEF ReceiptsTellTheModes, DS!ReceiptsTellTheModes, DP!ReceiptsTellTheModes,
     DS!LearnedHours, DP!LearnedHours, DS!Passed, DP!Passed
<1> QED  BY <1>1, <1>3 DEF LearnedIsSealed, NeverWorseThanMpc, DS!LearnedIsSealed,
            DP!LearnedIsSealed, DS!NeverWorseThanMpc, DP!NeverWorseThanMpc

(* So the replay is as DispatchSwitch has it, in every state of the process.*)
THEOREM PlatformReplays ==
    PlatformSpec => []ReplayHolds
  BY InitialReplay, ReplayStep, PTL DEF PlatformSpec

(* Learned weights decide only with the sealed file in place, and are those *)
(* of an admitted policy unless a file changed while switch() read them.    *)
THEOREM LearnedWeightsAreSealed ==
    PlatformSpec => []LearnedIsSealed
  BY PlatformReplays, DecisionsOfPlatform, PTL

(* A learned decision is what causal MPC would do, or cheaper and safe.     *)
THEOREM LearnedIsNeverWorse ==
    PlatformSpec => []NeverWorseThanMpc
  BY PlatformReplays, DecisionsOfPlatform, PTL

(* The switch receipts tell who decided each hour of a replay.              *)
THEOREM ReplayReceiptsTell ==
    PlatformSpec => []ReceiptsTellTheModes
  BY PlatformReplays, DecisionsOfPlatform, PTL

-----------------------------------------------------------------------------
(* A step of the process is a step of the simulator or leaves it alone.     *)
LEMMA SimulatorInPlatform ==
    /\ PlatformInit => Init
    /\ [PlatformNext]_<<part, vars, audit, limiter, dispatch>> => [Next]_vars
<1>1. PlatformInit => Init
  BY DEF PlatformInit
<1>2. [PlatformNext]_<<part, vars, audit, limiter, dispatch>> => [Next]_vars
  BY DEF PlatformNext, SimulatorStep, AuditStep, LimiterStep, DispatchStep
<1> QED  BY <1>1, <1>2

(* A retried key does not take effect again, whatever else the process does.*)
THEOREM PlatformKeysOnce == PlatformSpec => []KeysTakeEffectOnce
<1>1. KeysInvariant => KeysTakeEffectOnce
  BY DEF KeysInvariant, KeysTakeEffectOnce
<1>2. PlatformInit => KeysInvariant
  BY SimulatorInPlatform, KeysInitially
<1>3. KeysInvariant /\ [PlatformNext]_<<part, vars, audit, limiter, dispatch>> => KeysInvariant'
  BY SimulatorInPlatform, KeysNext
<1> QED  BY <1>1, <1>2, <1>3, PTL DEF PlatformSpec

(* An injected scenario lasts as long as was asked, whatever else happens.  *)
THEOREM PlatformScenarioLasts == PlatformSpec => []ScenarioLastsAsAsked
<1>1. ScenarioInvariant => ScenarioLastsAsAsked
  BY ScenarioSums
<1>2. PlatformInit => ScenarioInvariant
  BY SimulatorInPlatform, ScenarioInitially
<1>3. ScenarioInvariant /\ [PlatformNext]_<<part, vars, audit, limiter, dispatch>> => ScenarioInvariant'
  BY SimulatorInPlatform, ScenarioNext
<1> QED  BY <1>1, <1>2, <1>3, PTL DEF PlatformSpec

-----------------------------------------------------------------------------
(* The rate limiter.  A deque is what is left of the requests that were    *)
(* granted, without some that are older than the window.                   *)
SuffixOf(times, all, cutoff) ==
    \E k \in 0..Len(all) :
        /\ Len(times) + k = Len(all)
        /\ \A i \in 1..Len(times) : times[i] = all[i + k]
        /\ \A i \in 1..k : all[i] <= cutoff

Counted(all, cutoff) == Cardinality({i \in DOMAIN all : cutoff < all[i]})

LimiterInvariant ==
    /\ now \in 0..MaxTime
    /\ DOMAIN events \subseteq Clients
    /\ refused \subseteq Clients
    /\ \A c \in DOMAIN events : events[c] \in Seq(0..MaxTime)
    /\ granted \in [Clients -> Seq(0..MaxTime)]
    /\ \A c \in Clients :
          /\ \A i, j \in DOMAIN granted[c] : i <= j => granted[c][i] <= granted[c][j]
          /\ \A i \in DOMAIN granted[c] : granted[c][i] <= now
          /\ SuffixOf(RL!Deque(c), granted[c], now - Window)
          /\ Counted(granted[c], now - Window) <= Limit
          /\ c \in refused => Counted(granted[c], now - Window) = Limit

LEMMA LeastOf ==
    ASSUME NEW T, T \subseteq Nat, T # {}
    PROVE  RL!Min(T) \in T /\ \A y \in T : RL!Min(T) <= y
<1> DEFINE R == OpToRel(<, Nat)
<1> HIDE DEF R
<1>1. PICK x \in T : \A y \in T : ~ (<<y, x>> \in R)
  <2>1. IsWellFoundedOn(R, Nat)
    BY NatLessThanWellFounded DEF R
  <2> QED  BY <2>1, WFMin
<1>2. \A y \in Nat : y < x => <<y, x>> \in R
  BY DEF OpToRel, R
<1>3. ASSUME NEW y \in T PROVE x <= y
  <2>1. ~(<<y, x>> \in R)
    BY <1>1
  <2>2. ~(y < x)
    BY <1>2, <2>1
  <2> QED  BY <2>2
<1> QED  BY <1>3 DEF RL!Min

(* The loop stops before the first event in the window, or at the end.     *)
LEMMA LoopStops ==
    ASSUME now \in Int, Window \in Int, NEW times \in Seq(Nat)
    PROVE  LET k == RL!Popped(times)
           IN  /\ k \in 0..Len(times)
               /\ k < Len(times) => times[k + 1] > now - Window
               /\ \A i \in 1..k : times[i] <= now - Window
<1> DEFINE N == Len(times)
           T == RL!Stops(times)
           k == RL!Popped(times)
<1>1. N \in Nat /\ \A i \in 1..N : times[i] \in Nat
  BY LenProperties, ElementOfSeq
<1>2. T = {j \in 0..N : j < N => times[j + 1] > now - Window}
  BY DEF RL!Stops
<1>3. N \in T /\ T \subseteq Nat
  BY <1>1, <1>2
<1>4. k \in T /\ \A y \in T : k <= y
  <2> HIDE DEF T
  <2> QED  BY <1>3, LeastOf DEF RL!Popped, T
<1> HIDE DEF T, k
<1>5. k \in 0..N /\ (k < N => times[k + 1] > now - Window)
  BY <1>2, <1>4
<1>6. ASSUME NEW i \in 1..k PROVE times[i] <= now - Window
  <2> DEFINE j == i - 1
  <2>1. j \in 0..N /\ j < N /\ j < k /\ j + 1 = i /\ i \in 1..N
    BY <1>1, <1>5
  <2>2. j \notin T
    BY <1>1, <1>3, <1>4, <1>5, <2>1
  <2>3. ~(times[j + 1] > now - Window)
    BY <1>2, <2>1, <2>2
  <2> QED  BY <1>1, <2>1, <2>3
<1> QED  BY <1>5, <1>6 DEF k

(* What the loop leaves of a deque is exactly what is in the window.       *)
LEMMA RecentIsCounted ==
    ASSUME now \in Int, Window \in Int,
           NEW all \in Seq(Nat), NEW times \in Seq(Nat),
           \A i, j \in DOMAIN all : i <= j => all[i] <= all[j],
           SuffixOf(times, all, now - Window)
    PROVE  /\ RL!Recent(times) \in Seq(Nat)
           /\ SuffixOf(RL!Recent(times), all, now - Window)
           /\ Counted(all, now - Window) = Len(RL!Recent(times))
<1> DEFINE N == Len(times)
           M == Len(all)
           p == RL!Popped(times)
           r == RL!Recent(times)
           cutoff == now - Window
<1>1. /\ N \in Nat /\ DOMAIN times = 1..N /\ \A i \in 1..N : times[i] \in Nat
      /\ M \in Nat /\ DOMAIN all = 1..M /\ \A i \in 1..M : all[i] \in Nat
      /\ cutoff \in Int
  BY LenProperties, ElementOfSeq
<1>2. /\ p \in 0..N
      /\ p < N => times[p + 1] > cutoff
      /\ \A i \in 1..p : times[i] <= cutoff
  BY LoopStops
<1>3. r = SubSeq(times, p + 1, N)
  BY DEF RL!Recent
<1>4. PICK k \in 0..M : /\ N + k = M
                         /\ \A i \in 1..N : times[i] = all[i + k]
                        /\ \A i \in 1..k : all[i] <= cutoff
  BY DEF SuffixOf
<1> HIDE DEF p, r, cutoff, M, N
<1>5. /\ r \in Seq(Nat)
      /\ Len(r) = N - p
      /\ \A i \in 1..(N - p) : r[i] = times[i + p]
  <2> DEFINE m == p + 1
  <2>1. m \in Int /\ N \in Int /\ r = SubSeq(times, m, N) /\ m <= N + 1
        /\ \A i \in m..N : times[i] \in Nat
    BY <1>1, <1>2, <1>3
  <2>0. m = p + 1
    OBVIOUS
  <2> HIDE DEF m
  <2>2. /\ r \in Seq(Nat)
        /\ Len(r) = IF m <= N THEN N - m + 1 ELSE 0
        /\ \A i \in 1..(N - m + 1) : r[i] = times[m + i - 1]
    BY <2>1, SubSeqProperties
  <2> QED  BY <1>1, <1>2, <2>0, <2>1, <2>2
<1>6. /\ Len(r) + (k + p) = M
      /\ k + p \in 0..M
      /\ \A i \in 1..Len(r) : r[i] = all[i + (k + p)]
  <2>1. Len(r) + (k + p) = M /\ k + p \in 0..M
    BY <1>1, <1>2, <1>4, <1>5
  <2>2. ASSUME NEW i \in 1..Len(r) PROVE r[i] = all[i + (k + p)]
    <3>1. i + p \in 1..N /\ (i + p) + k = i + (k + p) /\ r[i] = times[i + p]
      BY <1>1, <1>2, <1>4, <1>5
    <3> QED  BY <1>4, <3>1
  <2> QED  BY <2>1, <2>2
<1>7. ASSUME NEW i \in 1..(k + p) PROVE all[i] <= cutoff
  <2>1. CASE i \in 1..k
    BY <1>4, <2>1
  <2>2. CASE i \notin 1..k
    <3>1. i - k \in 1..p /\ i - k \in 1..N /\ (i - k) + k = i
      BY <1>1, <1>2, <2>2
    <3> QED  BY <1>2, <1>4, <3>1
  <2> QED  BY <2>1, <2>2
<1>8. SuffixOf(r, all, cutoff)
  BY <1>6, <1>7 DEF SuffixOf, M
<1>9. ASSUME NEW i \in (k + p + 1)..M PROVE cutoff < all[i]
  <2>1. p + 1 \in 1..N /\ p < N /\ all[p + 1 + k] = times[p + 1]
    BY <1>1, <1>2, <1>4
  <2>2. times[p + 1] > cutoff
    BY <1>2, <2>1
  <2>3. p + 1 + k \in DOMAIN all /\ i \in DOMAIN all /\ p + 1 + k <= i
    BY <1>1, <1>2, <1>4
  <2>4. all[p + 1 + k] <= all[i]
    BY <2>3
  <2>5. all[p + 1 + k] \in Nat /\ all[i] \in Nat
    BY <1>1, <2>3
  <2> QED  BY <1>1, <2>1, <2>2, <2>4, <2>5
<1>10. {i \in DOMAIN all : cutoff < all[i]} = (k + p + 1)..M
  <2>1. ASSUME NEW i \in 1..M PROVE cutoff < all[i] <=> i \in (k + p + 1)..M
    <3>1. i \in 1..(k + p) \/ i \in (k + p + 1)..M
      BY <1>1, <1>2
    <3>2. all[i] \in Nat
      BY <1>1
    <3>3. i \in 1..(k + p) => ~(cutoff < all[i]) /\ i \notin (k + p + 1)..M
      BY <1>1, <1>2, <1>7, <3>2
    <3> QED  BY <1>9, <3>1, <3>3
  <2>2. (k + p + 1)..M \subseteq 1..M
    BY <1>1, <1>2
  <2> QED  BY <1>1, <2>1, <2>2
<1>11. Cardinality((k + p + 1)..M) = M - (k + p)
  <2> DEFINE a == k + p + 1
  <2>1. a \in Int /\ M \in Int /\ M - a + 1 = M - (k + p) /\ a <= M + 1
    BY <1>1, <1>2, <1>4
  <2> HIDE DEF a
  <2>2. Cardinality(a..M) = IF a > M THEN 0 ELSE M - a + 1
    BY <2>1, FS_Interval
  <2> QED  BY <2>1, <2>2 DEF a
<1>12. Counted(all, cutoff) = Len(r)
  <2>1. Counted(all, cutoff) = M - (k + p)
    BY <1>10, <1>11 DEF Counted
  <2>2. Len(r) = M - (k + p)
    BY <1>1, <1>2, <1>4, <1>5
  <2> QED  BY <2>1, <2>2
<1> QED  BY <1>5, <1>8, <1>12 DEF r, cutoff

(* A purge drops empty deques only.                                        *)
LEMMA DequesAfter ==
    ASSUME NEW c, NEW times,
           events' = RL!With(c, times) \/ events' = RL!Purged(RL!With(c, times))
    PROVE  /\ RL!Deque(c)' = times
           /\ \A b : b # c => RL!Deque(b)' = RL!Deque(b)
           /\ DOMAIN events' \subseteq DOMAIN events \cup {c}
           /\ \A b \in DOMAIN events' : events'[b] = IF b = c THEN times ELSE events[b]
<1> DEFINE table == RL!With(c, times)
<1>1. /\ DOMAIN table = DOMAIN events \cup {c}
      /\ \A k \in DOMAIN table : table[k] = IF k = c THEN times ELSE events[k]
  BY DEF RL!With
<1> HIDE DEF table
<1>2. /\ DOMAIN events' \subseteq DOMAIN table
      /\ \A k \in DOMAIN events' : events'[k] = table[k]
      /\ \A k \in DOMAIN table : k \notin DOMAIN events' => table[k] = <<>>
  <2>1. CASE events' = table
    BY <2>1
  <2>2. CASE events' = RL!Purged(table)
    <3>1. CASE events' = table
      BY <3>1
    <3>2. CASE events' = [k \in {d \in DOMAIN table : table[d] # <<>>} |-> table[k]]
      BY <3>2
    <3> QED  BY <2>2, <3>1, <3>2 DEF RL!Purged, RL!Kept
  <2> QED  BY <2>1, <2>2 DEF table
<1>3. RL!Deque(c)' = times
  BY <1>1, <1>2 DEF RL!Deque
<1>4. ASSUME NEW b, b # c PROVE RL!Deque(b)' = RL!Deque(b)
  BY <1>1, <1>2, <1>4 DEF RL!Deque
<1>5. /\ DOMAIN events' \subseteq DOMAIN events \cup {c}
      /\ \A b \in DOMAIN events' : events'[b] = IF b = c THEN times ELSE events[b]
  BY <1>1, <1>2
<1> QED  BY <1>3, <1>4, <1>5

(* One more request is granted, inside the window.                         *)
LEMMA OneMoreGranted ==
    ASSUME NEW all \in Seq(Nat), NEW r \in Seq(Nat), NEW t \in Nat, NEW cutoff \in Int,
           cutoff < t, SuffixOf(r, all, cutoff)
    PROVE  /\ SuffixOf(Append(r, t), Append(all, t), cutoff)
           /\ Counted(Append(all, t), cutoff) = Counted(all, cutoff) + 1
<1> DEFINE M == Len(all)
           N == Len(r)
           more == Append(all, t)
           longer == Append(r, t)
<1>1. M \in Nat /\ DOMAIN all = 1..M /\ N \in Nat /\ DOMAIN r = 1..N
  BY LenProperties
<1>2. /\ Len(more) = M + 1 /\ Len(longer) = N + 1
      /\ \A i \in 1..M : more[i] = all[i]
      /\ \A i \in 1..N : longer[i] = r[i]
      /\ more[M + 1] = t /\ longer[N + 1] = t
      /\ DOMAIN more = 1..(M + 1)
  <2>1. more \in Seq(Nat)
    BY AppendProperties
  <2> QED  BY <2>1, AppendProperties, LenProperties
<1>3. PICK k \in 0..M : /\ N + k = M
                        /\ \A i \in 1..N : r[i] = all[i + k]
                        /\ \A i \in 1..k : all[i] <= cutoff
  BY DEF SuffixOf
<1> HIDE DEF more, longer
<1>4. SuffixOf(longer, more, cutoff)
  <2>1. Len(longer) + k = Len(more) /\ k \in 0..Len(more)
    BY <1>1, <1>2, <1>3
  <2>2. ASSUME NEW i \in 1..Len(longer) PROVE longer[i] = more[i + k]
    <3>1. CASE i = N + 1
      BY <1>1, <1>2, <1>3, <3>1
    <3>2. CASE i \in 1..N
      <4>1. i + k \in 1..M
        BY <1>1, <1>3, <3>2
      <4> QED  BY <1>2, <1>3, <3>2, <4>1
    <3> QED  BY <1>1, <1>2, <3>1, <3>2
  <2>3. ASSUME NEW i \in 1..k PROVE more[i] <= cutoff
    <3>1. i \in 1..M
      BY <1>1, <1>3
    <3> QED  BY <1>2, <1>3, <3>1
  <2> QED  BY <2>1, <2>2, <2>3 DEF SuffixOf
<1>5. Counted(more, cutoff) = Counted(all, cutoff) + 1
  <2> DEFINE S == {i \in DOMAIN all : cutoff < all[i]}
  <2>1. IsFiniteSet(S) /\ M + 1 \notin S
    <3>1. IsFiniteSet(1..M)
      BY <1>1, FS_Interval
    <3>2. S \in SUBSET (1..M) /\ M + 1 \notin 1..M
      BY <1>1
    <3> QED  BY <3>1, <3>2, FS_Subset
  <2>2. {i \in DOMAIN more : cutoff < more[i]} = S \cup {M + 1}
    <3>1. \A i \in 1..(M + 1) : i \in 1..M \/ i = M + 1
      BY <1>1
    <3>2. 1..M \subseteq 1..(M + 1) /\ M + 1 \in 1..(M + 1)
      BY <1>1
    <3> HIDE DEF M
    <3> QED  BY <1>1, <1>2, <3>1, <3>2
  <2>3. Cardinality(S \cup {M + 1}) = Cardinality(S) + 1
    <3> HIDE DEF S, M
    <3> QED  BY <2>1, FS_AddElement
  <2> QED  BY <2>2, <2>3 DEF Counted
<1> QED  BY <1>4, <1>5 DEF more, longer

LEMMA LimiterInitially ==
    ASSUME RL!Init PROVE LimiterInvariant
<1>1. /\ now = 0 /\ DOMAIN events = {} /\ refused = {}
      /\ granted = [c \in Clients |-> <<>>]
  BY DEF RL!Init
<1>2. /\ DOMAIN <<>> = {} /\ Len(<<>>) = 0 /\ <<>> \in Seq(0..MaxTime)
  OBVIOUS
<1>3. ASSUME NEW c \in Clients
      PROVE  /\ SuffixOf(RL!Deque(c), granted[c], now - Window)
             /\ Counted(granted[c], now - Window) = 0
  <2>1. RL!Deque(c) = <<>> /\ granted[c] = <<>>
    BY <1>1 DEF RL!Deque
  <2>2. SuffixOf(<<>>, <<>>, now - Window)
    BY <1>2 DEF SuffixOf
  <2>3. {i \in DOMAIN <<>> : now - Window < <<>>[i]} = {}
    BY <1>2
  <2> QED  BY <2>1, <2>2, <2>3, FS_EmptySet DEF Counted
<1> QED  BY <1>1, <1>2, <1>3, LimiterAssumption DEF LimiterInvariant

(* What the invariant says of one client.                                  *)
LEMMA LimiterOfClient ==
    ASSUME LimiterInvariant, NEW c \in Clients
    PROVE  /\ now \in Nat /\ now \in 0..MaxTime /\ now - Window \in Int /\ Window \in Nat
           /\ granted[c] \in Seq(Nat) /\ granted[c] \in Seq(0..MaxTime)
           /\ RL!Deque(c) \in Seq(Nat) /\ RL!Deque(c) \in Seq(0..MaxTime)
           /\ \A i, j \in DOMAIN granted[c] : i <= j => granted[c][i] <= granted[c][j]
           /\ SuffixOf(RL!Deque(c), granted[c], now - Window)
<1>1. granted[c] \in Seq(0..MaxTime) /\ RL!Deque(c) \in Seq(0..MaxTime)
  <2>1. granted[c] \in Seq(0..MaxTime)
    BY DEF LimiterInvariant
  <2>2. \A d \in DOMAIN events : events[d] \in Seq(0..MaxTime)
    BY DEF LimiterInvariant
  <2>3. <<>> \in Seq(0..MaxTime)
    OBVIOUS
  <2> QED  BY <2>1, <2>2, <2>3 DEF RL!Deque
<1>2. Seq(0..MaxTime) \subseteq Seq(Nat)
  BY LimiterAssumption, SeqMonotonic
<1>3. Window \in Nat /\ now \in Nat
  BY LimiterAssumption DEF LimiterInvariant
<1> QED  BY <1>1, <1>2, <1>3 DEF LimiterInvariant

LEMMA TrimmedDeque ==
    ASSUME LimiterInvariant, NEW c \in Clients
    PROVE  LET r == RL!Recent(RL!Deque(c))
           IN  /\ r \in Seq(0..MaxTime) /\ r \in Seq(Nat)
               /\ SuffixOf(r, granted[c], now - Window)
               /\ Counted(granted[c], now - Window) = Len(r)
<1> DEFINE times == RL!Deque(c)
           r == RL!Recent(times)
<1>1. /\ now \in Int /\ Window \in Int
      /\ granted[c] \in Seq(Nat) /\ times \in Seq(Nat) /\ times \in Seq(0..MaxTime)
      /\ \A i, j \in DOMAIN granted[c] : i <= j => granted[c][i] <= granted[c][j]
      /\ SuffixOf(times, granted[c], now - Window)
  BY LimiterOfClient
<1> HIDE DEF times, r
<1>2. /\ r \in Seq(Nat)
      /\ SuffixOf(r, granted[c], now - Window)
      /\ Counted(granted[c], now - Window) = Len(r)
  BY <1>1, RecentIsCounted DEF r
<1>3. r \in Seq(0..MaxTime)
  <2>1. RL!Popped(times) \in 0..Len(times)
    BY <1>1, LoopStops
  <2> DEFINE m == RL!Popped(times) + 1
             n == Len(times)
  <2>2. m \in Int /\ n \in Int /\ \A i \in m..n : times[i] \in 0..MaxTime
    <3>1. n \in Nat /\ \A i \in 1..n : times[i] \in 0..MaxTime
      BY <1>1, LenProperties, ElementOfSeq
    <3>2. m \in Nat /\ m > 0
      BY <2>1
    <3> HIDE DEF m, n
    <3> QED  BY <3>1, <3>2
  <2>3. r = SubSeq(times, m, n)
    BY DEF r, RL!Recent
  <2> HIDE DEF m, n
  <2> QED  BY <2>2, <2>3, SubSeqProperties
<1> QED  BY <1>2, <1>3 DEF r, times

LEMMA AllowKeepsLimiter ==
    ASSUME LimiterInvariant, NEW c \in Clients, RL!Allow(c)
    PROVE  LimiterInvariant'
<1> DEFINE r == RL!Recent(RL!Deque(c))
           cutoff == now - Window
           all == granted[c]
<1>1. /\ r \in Seq(0..MaxTime) /\ r \in Seq(Nat)
      /\ SuffixOf(r, all, cutoff)
      /\ Counted(all, cutoff) = Len(r)
  BY TrimmedDeque
<1>2. /\ now \in Nat /\ now \in 0..MaxTime /\ cutoff \in Int /\ cutoff < now
      /\ all \in Seq(Nat) /\ all \in Seq(0..MaxTime)
  BY LimiterOfClient, LimiterAssumption
<1>3. /\ Len(r) < Limit
      /\ events' = RL!Purged(RL!With(c, Append(r, now)))
      /\ granted' = [granted EXCEPT ![c] = Append(all, now)]
      /\ refused' = {} /\ now' = now
  <2>1. ~(Len(r) >= Limit)
    BY DEF RL!Allow, RL!Full
  <2>2. Len(r) \in Nat /\ Limit \in Nat
    BY <1>1, LenProperties, LimiterAssumption
  <2> QED  BY <2>1, <2>2 DEF RL!Allow
<1> HIDE DEF r
<1>4. /\ RL!Deque(c)' = Append(r, now)
      /\ \A b : b # c => RL!Deque(b)' = RL!Deque(b)
      /\ DOMAIN events' \subseteq DOMAIN events \cup {c}
      /\ \A b \in DOMAIN events' : events'[b] = IF b = c THEN Append(r, now) ELSE events[b]
  BY <1>3, DequesAfter
<1>5. Append(r, now) \in Seq(0..MaxTime) /\ Append(all, now) \in Seq(0..MaxTime)
  BY <1>1, <1>2, AppendProperties
<1>6. /\ granted' \in [Clients -> Seq(0..MaxTime)]
      /\ granted'[c] = Append(all, now)
      /\ \A b \in Clients : b # c => granted'[b] = granted[b]
  BY <1>3, <1>5 DEF LimiterInvariant
<1>7. /\ SuffixOf(Append(r, now), Append(all, now), cutoff)
      /\ Counted(Append(all, now), cutoff) = Len(r) + 1
  <2> HIDE DEF cutoff, all
  <2> QED  BY <1>1, <1>2, OneMoreGranted
<1>8. Counted(granted'[c], cutoff) <= Limit
  <2>1. Len(r) \in Nat /\ Limit \in Nat
    BY <1>1, LenProperties, LimiterAssumption
  <2> QED  BY <1>3, <1>6, <1>7, <2>1
<1>9. /\ \A i, j \in DOMAIN granted'[c] : i <= j => granted'[c][i] <= granted'[c][j]
      /\ \A i \in DOMAIN granted'[c] : granted'[c][i] <= now
  <2>1. /\ \A i, j \in DOMAIN all : i <= j => all[i] <= all[j]
        /\ \A i \in DOMAIN all : all[i] <= now
    BY DEF LimiterInvariant
  <2>2. /\ Len(all) \in Nat /\ DOMAIN all = 1..Len(all)
        /\ DOMAIN Append(all, now) = 1..(Len(all) + 1)
        /\ \A i \in 1..Len(all) : Append(all, now)[i] = all[i]
        /\ Append(all, now)[Len(all) + 1] = now
    BY <1>2, <1>5, AppendProperties, LenProperties
  <2> DEFINE more == Append(all, now)
  <2> HIDE DEF all, more
  <2>3. ASSUME NEW i \in DOMAIN more PROVE more[i] <= now
    BY <1>2, <2>1, <2>2, <2>3 DEF more
  <2>4. ASSUME NEW i \in DOMAIN more, NEW j \in DOMAIN more, i <= j PROVE more[i] <= more[j]
    <3>1. CASE j = Len(all) + 1
      BY <2>2, <2>3, <3>1 DEF more
    <3>2. CASE j \in 1..Len(all)
      <4>1. i \in 1..Len(all)
        BY <2>2, <2>4, <3>2 DEF more
      <4> QED  BY <2>1, <2>2, <2>4, <3>2, <4>1 DEF more
    <3> QED  BY <2>2, <3>1, <3>2 DEF more
  <2> QED  BY <1>6, <2>3, <2>4 DEF more
<1> HIDE DEF all
<1>10. ASSUME NEW b \in Clients
       PROVE  /\ \A i, j \in DOMAIN granted'[b] : i <= j => granted'[b][i] <= granted'[b][j]
              /\ \A i \in DOMAIN granted'[b] : granted'[b][i] <= now
              /\ SuffixOf(RL!Deque(b)', granted'[b], cutoff)
              /\ Counted(granted'[b], cutoff) <= Limit
  <2>1. CASE b = c
    BY <1>4, <1>6, <1>7, <1>8, <1>9, <2>1
  <2>2. CASE b # c
    BY <1>4, <1>6, <2>2 DEF LimiterInvariant
  <2> QED  BY <2>1, <2>2
<1>11. DOMAIN events' \subseteq Clients /\ \A b \in DOMAIN events' : events'[b] \in Seq(0..MaxTime)
  <2>1. \A b \in DOMAIN events' : b # c => b \in DOMAIN events
    BY <1>4
  <2> QED  BY <1>4, <1>5, <2>1 DEF LimiterInvariant
<1> QED  BY <1>2, <1>3, <1>6, <1>10, <1>11 DEF LimiterInvariant

LEMMA RefuseKeepsLimiter ==
    ASSUME LimiterInvariant, NEW c \in Clients, RL!Refuse(c)
    PROVE  LimiterInvariant'
<1> DEFINE r == RL!Recent(RL!Deque(c))
           cutoff == now - Window
<1>1. /\ r \in Seq(0..MaxTime)
      /\ SuffixOf(r, granted[c], cutoff)
      /\ Counted(granted[c], cutoff) = Len(r)
  BY TrimmedDeque
<1>2. /\ Len(r) >= Limit
      /\ events' = RL!With(c, r)
      /\ refused' = {c} /\ UNCHANGED <<now, granted>>
  BY DEF RL!Refuse, RL!Full
<1> HIDE DEF r
<1>3. /\ RL!Deque(c)' = r
      /\ \A b : b # c => RL!Deque(b)' = RL!Deque(b)
      /\ DOMAIN events' \subseteq DOMAIN events \cup {c}
      /\ \A b \in DOMAIN events' : events'[b] = IF b = c THEN r ELSE events[b]
  BY <1>2, DequesAfter
<1>4. Counted(granted[c], cutoff) = Limit
  <2>1. Counted(granted[c], cutoff) <= Limit
    BY DEF LimiterInvariant
  <2>2. Len(r) \in Nat /\ Limit \in Nat
    BY <1>1, LenProperties, LimiterAssumption
  <2> QED  BY <1>1, <1>2, <2>1, <2>2
<1>5. DOMAIN events' \subseteq Clients /\ \A b \in DOMAIN events' : events'[b] \in Seq(0..MaxTime)
  <2>1. \A b \in DOMAIN events' : b # c => b \in DOMAIN events
    BY <1>3
  <2> QED  BY <1>1, <1>3, <2>1 DEF LimiterInvariant
<1>6. ASSUME NEW b \in Clients PROVE SuffixOf(RL!Deque(b)', granted[b], cutoff)
  BY <1>1, <1>3 DEF LimiterInvariant
<1> QED  BY <1>2, <1>4, <1>5, <1>6 DEF LimiterInvariant

LEMMA TickKeepsLimiter ==
    ASSUME LimiterInvariant, RL!Tick
    PROVE  LimiterInvariant'
<1>1. /\ now' = now + 1 /\ now < MaxTime /\ refused' = {}
      /\ UNCHANGED <<events, granted>>
  BY DEF RL!Tick
<1>2. now' \in 0..MaxTime
  BY <1>1, LimiterAssumption DEF LimiterInvariant
<1>3. ASSUME NEW c \in Clients
      PROVE  /\ \A i \in DOMAIN granted[c] : granted[c][i] <= now'
             /\ SuffixOf(RL!Deque(c), granted[c], now' - Window)
             /\ Counted(granted[c], now' - Window) <= Limit
  <2> DEFINE all == granted[c]
             old == now - Window
             new == now' - Window
  <2>1. now \in Nat /\ Window \in Nat /\ all \in Seq(Nat)
    BY LimiterOfClient
  <2>2. old \in Int /\ new \in Int /\ old <= new
    BY <1>1, <2>1
  <2>3. /\ Len(all) \in Nat /\ DOMAIN all = 1..Len(all)
        /\ \A i \in 1..Len(all) : all[i] \in Nat
    BY <2>1, LenProperties, ElementOfSeq
  <2>4. \A i \in DOMAIN all : all[i] <= now'
    <3>1. \A i \in DOMAIN all : all[i] <= now
      BY DEF LimiterInvariant
    <3> QED  BY <1>1, <2>1, <2>3, <3>1
  <2> HIDE DEF old, new, all
  <2>5. SuffixOf(RL!Deque(c), all, old) /\ Counted(all, old) <= Limit
    BY DEF LimiterInvariant, all, old
  <2>6. SuffixOf(RL!Deque(c), all, new)
    <3>1. PICK k \in 0..Len(all) :
             /\ Len(RL!Deque(c)) + k = Len(all)
             /\ \A i \in 1..Len(RL!Deque(c)) : RL!Deque(c)[i] = all[i + k]
             /\ \A i \in 1..k : all[i] <= old
      BY <2>5 DEF SuffixOf
    <3>2. ASSUME NEW i \in 1..k PROVE all[i] <= new
      <4>1. i \in 1..Len(all)
        BY <2>3
      <4> QED  BY <2>2, <2>3, <3>1, <4>1
    <3> QED  BY <3>1, <3>2 DEF SuffixOf
  <2>7. Counted(all, new) <= Limit
    <3> DEFINE S == {i \in DOMAIN all : old < all[i]}
               T == {i \in DOMAIN all : new < all[i]}
    <3>1. IsFiniteSet(S)
      <4>1. IsFiniteSet(1..Len(all))
        BY <2>3, FS_Interval
      <4>2. S \in SUBSET (1..Len(all))
        BY <2>3
      <4> QED  BY <4>1, <4>2, FS_Subset
    <3>2. T \in SUBSET S
      BY <2>2, <2>3
    <3> HIDE DEF S, T
    <3>3. IsFiniteSet(T) /\ Cardinality(T) <= Cardinality(S)
      BY <3>1, <3>2, FS_Subset
    <3>4. Cardinality(T) \in Nat /\ Cardinality(S) \in Nat /\ Limit \in Nat
      BY <3>1, <3>3, FS_CardinalityType, LimiterAssumption
    <3>5. Cardinality(S) <= Limit
      BY <2>5 DEF Counted, S
    <3>6. Cardinality(T) <= Limit
      BY <3>3, <3>4, <3>5
    <3> QED  BY <3>6 DEF Counted, T
  <2> QED  BY <2>4, <2>6, <2>7 DEF all, new
<1>4. \A c \in Clients : RL!Deque(c)' = RL!Deque(c)
  BY <1>1 DEF RL!Deque
<1> QED  BY <1>1, <1>2, <1>3, <1>4 DEF LimiterInvariant

LEMMA LimiterNext ==
    ASSUME LimiterInvariant, RL!Next \/ UNCHANGED limiter
    PROVE  LimiterInvariant'
<1>1. CASE RL!Next
  BY <1>1, AllowKeepsLimiter, RefuseKeepsLimiter, TickKeepsLimiter DEF RL!Next
<1>2. CASE UNCHANGED limiter
  <2>1. \A c \in Clients : RL!Deque(c)' = RL!Deque(c)
    BY <1>2 DEF limiter, RL!Deque
  <2> QED  BY <1>2, <2>1 DEF limiter, LimiterInvariant
<1> QED  BY <1>1, <1>2

LEMMA WindowIsCounted ==
    ASSUME NEW c PROVE RL!InWindow(c) = Counted(granted[c], now - Window)
  BY DEF RL!InWindow, Counted, RL!Cardinality, Cardinality, RL!IsFiniteSet, IsFiniteSet

(* An empty deque leaves nothing in the window.                            *)
LEMMA LimiterIsExact ==
    ASSUME LimiterInvariant
    PROVE  LimitIsExact /\ RL!TypeOK
<1>1. ASSUME NEW c \in Clients
      PROVE  /\ RL!InWindow(c) <= Limit
             /\ c \in refused => RL!InWindow(c) = Limit
  BY WindowIsCounted DEF LimiterInvariant
<1>2. ASSUME NEW c \in Clients, c \notin DOMAIN events
      PROVE  RL!InWindow(c) = 0
  <2>1. RL!Deque(c) = <<>> /\ granted[c] \in Seq(Nat) /\ now - Window \in Int
    BY <1>2, LimiterOfClient DEF RL!Deque
  <2>2. SuffixOf(<<>>, granted[c], now - Window)
    BY <2>1 DEF LimiterInvariant
  <2>3. \A i \in DOMAIN granted[c] : granted[c][i] \in Nat /\ granted[c][i] <= now - Window
    <3>1. Len(<<>>) = 0 /\ Len(granted[c]) \in Nat /\ DOMAIN granted[c] = 1..Len(granted[c])
      BY <2>1, LenProperties
    <3>2. \A i \in 1..Len(granted[c]) : granted[c][i] \in Nat
      BY <2>1, ElementOfSeq
    <3> QED  BY <2>2, <3>1, <3>2 DEF SuffixOf
  <2>4. {i \in DOMAIN granted[c] : now - Window < granted[c][i]} = {}
    BY <2>1, <2>3
  <2> QED  BY <2>4, WindowIsCounted, FS_EmptySet DEF Counted
<1>3. ASSUME NEW c \in DOMAIN events, NEW i \in DOMAIN events[c]
      PROVE  events[c][i] <= now
  <2>1. c \in Clients /\ RL!Deque(c) = events[c] /\ events[c] \in Seq(0..MaxTime)
    BY DEF LimiterInvariant, RL!Deque
  <2>2. SuffixOf(events[c], granted[c], now - Window)
    BY <2>1 DEF LimiterInvariant
  <2>3. PICK k \in 0..Len(granted[c]) :
           /\ Len(events[c]) + k = Len(granted[c])
           /\ \A j \in 1..Len(events[c]) : events[c][j] = granted[c][j + k]
    BY <2>2 DEF SuffixOf
  <2>4. /\ i \in 1..Len(events[c]) /\ Len(events[c]) \in Nat
        /\ DOMAIN granted[c] = 1..Len(granted[c]) /\ Len(granted[c]) \in Nat
    BY <2>1, LimiterOfClient, LenProperties
  <2>5. i + k \in DOMAIN granted[c]
    BY <2>3, <2>4
  <2>6. granted[c][i + k] <= now
    BY <2>1, <2>5 DEF LimiterInvariant
  <2> QED  BY <2>3, <2>4, <2>6
<1>4. LimitIsExact
  BY <1>1, <1>2 DEF LimitIsExact, RL!LimitIsExact
<1>5. RL!TypeOK
  BY <1>3 DEF RL!TypeOK, LimiterInvariant
<1> QED  BY <1>4, <1>5

(* What is known of the limiter holds in every state of the process.       *)
THEOREM PlatformLimits == PlatformSpec => []LimiterInvariant
<1>1. PlatformInit => LimiterInvariant
  BY LimiterInitially DEF PlatformInit
<1>2. LimiterInvariant /\ [PlatformNext]_<<part, vars, audit, limiter, dispatch>> => LimiterInvariant'
  <2>1. [PlatformNext]_<<part, vars, audit, limiter, dispatch>> => RL!Next \/ UNCHANGED limiter
    BY DEF PlatformNext, SimulatorStep, AuditStep, LimiterStep, DispatchStep
  <2> QED  BY <2>1, LimiterNext
<1> QED  BY <1>1, <1>2, PTL DEF PlatformSpec

(* No client gets more than its limit of requests into a window, none is   *)
(* refused that had fewer, and none is forgotten before its requests have  *)
(* left the window: for any limit, window and size of the table.           *)
THEOREM PlatformLimitIsExact == PlatformSpec => []LimitIsExact
  BY PlatformLimits, LimiterIsExact, PTL

-----------------------------------------------------------------------------
(* What the invariants of the components say of types.                      *)
LEMMA PlatformTypes ==
    ASSUME KeysInvariant, ScenarioInvariant, AP!LogInvariant, LimiterInvariant, ReplayHolds
    PROVE  PlatformTypeOK
<1>1. TypeOK
  BY DEF KeysInvariant, ScenarioInvariant, TypeOK
<1>2. AU!TypeOK
  <2>1. AP!TypeOK
    BY DEF AP!LogInvariant, AP!LogTypes
  <2> QED  BY <2>1 DEF AU!TypeOK, AP!TypeOK, AU!Line, AP!Line, AU!Places, AP!Places
<1>3. RL!TypeOK
  BY LimiterIsExact
<1>4. part = "dispatch" => DS!TypeOK
  <2>1. part = "dispatch" => DP!TypeOK
    BY DEF ReplayHolds
  <2> QED  BY <2>1 DEF DS!TypeOK, DP!TypeOK, DS!Disk, DP!Disk, DS!Report, DP!Report, DS!Evidence,
              DP!Evidence, DS!Contents, DP!Contents, DS!Mpc, DP!Mpc
<1> QED  BY <1>1, <1>2, <1>3, <1>4 DEF PlatformTypeOK

(* Every part of the process keeps its types, whichever of them runs.       *)
THEOREM PlatformTypeCorrect ==
    ASSUME AP!LogAssumptions
    PROVE  PlatformSpec => []PlatformTypeOK
<1>1. PlatformInit => KeysInvariant /\ ScenarioInvariant
  BY SimulatorInPlatform, KeysInitially, ScenarioInitially
<1>2. KeysInvariant /\ ScenarioInvariant
      /\ [PlatformNext]_<<part, vars, audit, limiter, dispatch>> => (KeysInvariant /\ ScenarioInvariant)'
  BY SimulatorInPlatform, KeysNext, ScenarioNext
<1>3. KeysInvariant /\ ScenarioInvariant /\ AP!LogInvariant /\ LimiterInvariant /\ ReplayHolds
      => PlatformTypeOK
  BY PlatformTypes
<1> QED  BY <1>1, <1>2, <1>3, PlatformLogHolds, PlatformLimits, PlatformReplays, PTL DEF PlatformSpec

=============================================================================
