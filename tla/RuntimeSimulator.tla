-------------------------- MODULE RuntimeSimulator --------------------------
(***************************************************************************)
(* The simulator as its clients drive it through /runtime/control and      *)
(* /runtime/scenarios/inject: every mutation carries an idempotency key,   *)
(* and the replies to the last CacheLimit mutations (500 in the code) are  *)
(* kept, in one table for both endpoints.  reset() does not clear it.      *)
(***************************************************************************)
EXTENDS SimulatorPhysics, Sequences

CONSTANTS Keys,          \* idempotency keys of control and inject
          CacheLimit     \* mutations remembered

ASSUME CacheLimitAssumption == CacheLimit \in Nat \ {0}

VARIABLES
    sim,           \* state of the simulator
    remembered,    \* keys of _mutation_idempotency, oldest first
    effects,       \* history: keys of the last CacheLimit effects
    asked, shaped  \* history: duration and ticks so far of the injection

vars == <<sim, remembered, effects, asked, shaped>>
history == <<asked, shaped>>

Known(k) == \E i \in DOMAIN remembered : remembered[i] = k

LastOnes(s, n) == IF Len(s) > n THEN Tail(s) ELSE s

Init ==
    /\ sim \in Constructed
    /\ remembered = <<>>
    /\ effects = <<>>
    /\ asked = 0
    /\ shaped = 0

(* Mutant: the table is never trimmed.                                     *)
MutantRemember(k) ==
    /\ remembered' = Append(remembered, k)
    /\ effects' = LastOnes(Append(effects, k), CacheLimit)

(* _remember_mutation: the newest goes in, the oldest out above the limit. *)
Remember(k) ==
    /\ remembered' = LastOnes(Append(remembered, k), CacheLimit)
    /\ effects' = LastOnes(Append(effects, k), CacheLimit)

Ticked ==
    /\ shaped' = IF sim'.scenario = "normal" THEN shaped ELSE shaped + 1
    /\ UNCHANGED asked

(* The clock: a snapshot() that finds a tick due.                          *)
Tick ==
    /\ sim.running
    /\ sim' \in IdleTicks(sim)
    /\ Ticked
    /\ UNCHANGED <<remembered, effects>>

(* control() and inject_scenario() with a remembered key answer the stored *)
(* reply, whatever was asked and whatever has happened since.              *)
Replay(k) == Known(k) /\ UNCHANGED vars

ControlStart(k) ==
    /\ ~Known(k)
    /\ sim' \in Started(sim)
    /\ Ticked
    /\ Remember(k)

ControlStop(k) ==
    /\ ~Known(k)
    /\ sim' \in Stopped(sim)
    /\ Remember(k)
    /\ UNCHANGED history

(* Mutant: reset() forgets the keys as well.                               *)
MutantControlReset(k) ==
    /\ ~Known(k)
    /\ sim' \in Constructed
    /\ asked' = 0
    /\ shaped' = 0
    /\ remembered' = <<k>>
    /\ effects' = LastOnes(Append(effects, k), CacheLimit)

ControlReset(k) ==
    /\ ~Known(k)
    /\ sim' \in Constructed
    /\ asked' = 0
    /\ shaped' = 0
    /\ Remember(k)

(* advance(steps): the further ticks of a longer advance are like Tick.    *)
ControlAdvance(k) ==
    /\ ~Known(k)
    /\ sim' \in Advanced(sim)
    /\ IF sim.running THEN Ticked ELSE UNCHANGED history
    /\ Remember(k)

Inject(k, scenario, duration) ==
    /\ ~Known(k)
    /\ sim' \in Injected(sim, scenario, duration)
    /\ asked' = IF scenario = "normal" THEN 0 ELSE duration
    /\ shaped' = IF scenario = "normal" THEN 0 ELSE 1
    /\ Remember(k)

Next ==
    \/ Tick
    \/ \E k \in Keys :
          \/ Replay(k)
          \/ ControlStart(k)
          \/ ControlStop(k)
          \/ ControlReset(k)
          \/ ControlAdvance(k)
          \/ \E scenario \in Scenarios, n \in 1..MaxDuration :
                Inject(k, scenario, n)

Spec == Init /\ [][Next]_vars

-----------------------------------------------------------------------------
TypeOK ==
    /\ sim \in SimState
    /\ remembered \in Seq(Keys)
    /\ Len(remembered) <= CacheLimit
    /\ asked \in 0..MaxDuration
    /\ shaped \in 0..MaxDuration

(* A key that is retried within the last CacheLimit mutations, across stop,*)
(* reset and evictions of other keys, does not take effect a second time.  *)
KeysTakeEffectOnce ==
    \A i, j \in DOMAIN effects : effects[i] = effects[j] => i = j

(* An injected scenario shapes exactly as many ticks as were asked for,    *)
(* the one that the injection itself runs included, also when the          *)
(* simulator is stopped and started in between.                            *)
ScenarioLastsAsAsked ==
    /\ shaped <= asked
    /\ sim.scenario = "normal" => shaped = asked

=============================================================================
