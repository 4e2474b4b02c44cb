------------------------- MODULE MCRuntimeSimulator -------------------------
(* RuntimeSimulator for TLC: more keys than the table holds, so that keys   *)
(* are evicted and come back.                                               *)
EXTENDS RuntimeSimulator, TLC

InterchangeableKeys == Permutations(Keys)

(* The bands behind NextBands, against the arithmetic of _advance_one in    *)
(* tenths of a degree: T' = 0.72 T + 0.28 target, T at most 56.5 C, target  *)
(* at most 48 + 8.5 C and at least 53 C under injected over-temperature.    *)
Band(t) == IF t < 460 THEN "normal" ELSE IF t < 500 THEN "derated" ELSE "critical"

TargetRange(scenario) ==
    IF scenario = "battery_overtemperature" THEN 530..565 ELSE 120..565

Reached(band, scenario) ==
    {Band((72 * t + 28 * target) \div 100) :
        t \in {u \in 120..565 : Band(u) = band}, target \in TargetRange(scenario)}

ASSUME BandsAssumption ==
    \A scenario \in {"normal", "battery_overtemperature"}, band \in Bands :
        Reached(band, scenario) = NextBands(band, scenario)

=============================================================================
