-------------------------- MODULE SimulatorPhysics --------------------------
(***************************************************************************)
(* The calibrated port simulator (services/runtime_simulator.py) as a      *)
(* state machine without variables: every method of RealtimePortSimulator  *)
(* that changes state is an operator from a simulator state to the set of  *)
(* states it may leave behind.  RuntimeSimulator and RuntimeDecision both  *)
(* build their actions from these operators.                               *)
(*                                                                         *)
(* The physics is data: the model keeps what the control depends on.       *)
(*   temp      the band of _battery_temperature_c: below 46 C, 46 to 50 C, *)
(*             50 C and above                                              *)
(*   power     the band of the published battery power: at most 900 kW in  *)
(*             either direction (Derated), or more (Full)                  *)
(*   left      until_step - step, the ticks the injected scenario has left *)
(*   allowed   decision_allowed of the snapshot the last tick published    *)
(* The snapshot's own copies of scenario and temperature are those of the  *)
(* tick that published it; every method that changes them ends in a tick,  *)
(* so one copy of each is enough.                                          *)
(***************************************************************************)
EXTENDS Naturals

CONSTANTS MaxDuration,        \* bound on duration_steps of an injection
          Scenarios           \* the scenarios that may be injected

(* The scenario ids whose effect is a magnitude only are one value.        *)
ScenarioIds == {"normal", "disturbance", "communications_loss",
                "battery_overtemperature"}

ASSUME MaxDurationAssumption == MaxDuration \in Nat \ {0}
ASSUME ScenariosAssumption == {"normal"} \subseteq Scenarios /\ Scenarios \subseteq ScenarioIds

Derated == 1
Full    == 2
Levels  == {Derated, Full}

Bands == {"normal", "derated", "critical"}

SimState == [running  : BOOLEAN,
             scenario : Scenarios,
             left     : 0..MaxDuration,
             temp     : Bands,
             power    : Levels,
             allowed  : BOOLEAN]

(* Mutant: the injected over-temperature does not derate.                  *)
MutantThermalLimit(temp, scenario) == IF temp # "normal" THEN Derated ELSE Full

(* The limit that the thermal envelope puts on the battery command.        *)
ThermalLimit(temp, scenario) ==
    IF temp # "normal" \/ scenario = "battery_overtemperature"
    THEN Derated ELSE Full

AtMost(limit) == {p \in Levels : p <= limit}

(* One tick moves the temperature to 0.72 T + 0.28 target, with the target *)
(* at most 56.5 C, and at least 53 C under injected over-temperature.      *)
NextBands(temp, scenario) ==
    IF scenario = "battery_overtemperature"
    THEN CASE temp = "normal"   -> {"normal", "derated"}
           [] temp = "derated"  -> {"derated", "critical"}
           [] temp = "critical" -> {"critical"}
    ELSE IF temp = "normal" THEN {"normal", "derated"} ELSE Bands

(* Mutant: the scenario ends a step early.                                 *)
MutantActiveScenario(s) == IF s.left <= 1 THEN "normal" ELSE s.scenario

(* An injected scenario whose last step has passed gives way to "normal".  *)
ActiveScenario(s) == IF s.left = 0 THEN "normal" ELSE s.scenario

(* Mutant: nothing stops the count at zero.                                *)
MutantLeftAfterTick(s) == s.left - 1

LeftAfterTick(s) == IF s.left = 0 THEN 0 ELSE s.left - 1

(* decision_allowed: no critical reason and the simulator runs.  "sound"   *)
(* stands for the two reasons that depend on magnitudes, the transformer   *)
(* overload and the energy balance error.                                  *)
DecisionAllowed(running, scenario, temp, sound) ==
    /\ running
    /\ scenario # "communications_loss"
    /\ temp # "critical"
    /\ sound

(* One tick: the requested battery command, clamped by the band the tick   *)
(* starts in, may be lowered further by the state of charge.               *)
Ticks(s, commands) ==
    LET scenario == ActiveScenario(s)
        limit    == ThermalLimit(s.temp, scenario)
    IN  UNION {{[running  |-> s.running,
                 scenario |-> scenario,
                 left     |-> LeftAfterTick(s),
                 temp     |-> t,
                 power    |-> p,
                 allowed  |-> DecisionAllowed(s.running, scenario, t, sound)] :
                    t \in NextBands(s.temp, scenario),
                    p \in AtMost(limit) \cap AtMost(c),
                    sound \in BOOLEAN} : c \in commands}

(* A tick without a pending action: the battery heuristics pick the power. *)
IdleTicks(s) == Ticks(s, Levels)

(* snapshot(): a running simulator first catches up with the elapsed time. *)
(* It may be due for several ticks; the further ones are those that other  *)
(* snapshot() calls made just before.                                      *)
Snapshots(s) == IF s.running THEN {s} \cup IdleTicks(s) ELSE {s}

(* decision_allowed of the snapshot that snapshot() returns.               *)
GateOpen(s) == s.running /\ s.allowed

(* The equipment limit that _project_action reads from a snapshot.         *)
EquipmentLimit(s) == ThermalLimit(s.temp, s.scenario)

Started(s) == IdleTicks([s EXCEPT !.running = TRUE])

Stopped(s) == {[s EXCEPT !.running = FALSE]}

Fresh == [running |-> TRUE, scenario |-> "normal", left |-> 0,
          temp |-> "normal", power |-> Derated, allowed |-> FALSE]

(* The constructor and reset() both run one tick from the fresh state.     *)
Constructed == IdleTicks(Fresh)

Advanced(s) == IF s.running THEN IdleTicks(s) ELSE {s}

(* Injection ticks even when the simulator is stopped.  For "normal" the   *)
(* step count is never looked at.                                          *)
Injected(s, scenario, duration) ==
    IdleTicks([s EXCEPT !.scenario = scenario,
                        !.left = IF scenario = "normal" THEN 0 ELSE duration])

=============================================================================
