-------------------------- MODULE OperationsPlanning --------------------------
(* The joint plan of vessels, berths, cranes, yard, trucks, reefers, shore   *)
(* power and storage (OperationsEnergyPlanningService).  Eight source        *)
(* systems sign their part of the request one by one                         *)
(* (sign_operations_energy_source.py); evaluate() searches a schedule and a  *)
(* storage trajectory and releases them as advice behind twelve gates.       *)
(*                                                                           *)
(* The interval is an hour.  Times are counted in half slots, quantities in  *)
(* TEU, kW and kWh; the numbers are such that every ratio is whole.  Call    *)
(* and appointment ids are numbers, in the order of their names.             *)
EXTENDS Evidence, SequencesExt

CONSTANTS Trusted, MaxEdits
VARIABLES request, report, edits, vouched
vars == <<request, report, edits, vouched>>

DomainSeq == <<"ais_and_vessel_calls", "berth_plan", "crane_work_orders", "yard_inventory",
               "truck_appointments", "reefer_monitoring", "shore_power_registry",
               "energy_management_system">>
Domains == Range(DomainSeq)
DefaultReport == [status |-> "blocked", passed |-> {}, plan |-> None]
-------------------------------------------------------------------------------
(* The package. *)
Attestation(d) == [domain |-> d, key |-> "none", observed |-> 0, live |-> TRUE, over |-> None]
Policy == [margin |-> 10, age |-> 3, alignment |-> 1, beam |-> 8,
           cost |-> 1, carbon |-> 1, delay |-> 1, degradation |-> 1]
Call(id, berths, yard) ==
    [id |-> id, length |-> 2, eta |-> 0, departure |-> 6, import |-> 4, export |-> 0, min |-> 1, max |-> 2,
     berths |-> berths, yards |-> {yard}, compatible |-> TRUE, hotel |-> 3, shoreMin |-> 4, priority |-> 1]
Berth(id) == [id |-> id, from |-> 0, until |-> 8, length |-> 3, cranes |-> 2, shore |-> TRUE, capacity |-> 2]
Crane(id, berths) == [id |-> id, berths |-> berths, from |-> 0, until |-> 8, rate |-> 2, power |-> 2]
Block(id) == [id |-> id, capacity |-> 12, initial |-> 5, plugs |-> 2, handling |-> 1]
Gate(id) == [id |-> id, max |-> 4, service |-> 1]
Appointment(id, call, direction, from, until, yard) ==
    [id |-> id, call |-> call, direction |-> direction, from |-> from, until |-> until, teu |-> 3,
     yard |-> yard, gates |-> <<"g">>]
Batch(id, call, yard) == [id |-> id, call |-> call, yard |-> yard, from |-> 1, until |-> 6, count |-> 1,
                          power |-> 1, uninterrupted |-> TRUE]
Energy(slot) == [slot |-> slot, start |-> 2 * slot, base |-> 4, renewable |-> 3, limit |-> 30, price |-> 1 + slot, carbon |-> 1]
Storage == [capacity |-> 40, initial |-> 20, min |-> 4, max |-> 36, terminal |-> 16,
            charge |-> 4, discharge |-> 4, chargeEff |-> 50, dischargeEff |-> 50]

Package ==
    [at |-> 2, slots |-> 4, policy |-> Policy,
         calls |-> <<Call(1, <<"b1", "b2">>, "y1"), Call(2, <<"b1">>, "y2")>>,
         berths |-> <<Berth("b1"), Berth("b2")>>,
         cranes |-> <<Crane("c1", {"b1"}), Crane("c2", {"b1", "b2"})>>,
         yards |-> <<Block("y1"), Block("y2")>>, gates |-> <<Gate("g")>>,
         appointments |-> <<Appointment(1, 1, "import_pickup", 2, 8, "y1"),
                            Appointment(2, 2, "export_dropoff", 0, 4, "y2")>>,
         batches |-> <<Batch(1, 1, "y1"), Batch(2, 2, "y1")>>,
         energy |-> [k \in 1..4 |-> Energy(k - 1)], storage |-> Storage,
         attestations |-> [i \in DOMAIN DomainSeq |-> Attestation(DomainSeq[i])]]

(* The validators of the request.                                            *)
Valid(r) ==
    /\ \A c \in Range(r.calls) : /\ c.eta < c.departure /\ c.min <= c.max
                                 /\ ~c.compatible => c.shoreMin = 0
    /\ \A b \in Range(r.yards) : b.initial <= b.capacity
    /\ \A s \in {r.berths, r.cranes} : \A x \in Range(s) : x.from < x.until
    /\ \A s \in {r.appointments, r.batches} : \A x \in Range(s) : x.from < x.until
    /\ r.storage.min <= r.storage.initial /\ r.storage.initial <= r.storage.max
    /\ r.storage.min <= r.storage.terminal /\ r.storage.terminal <= r.storage.max
    /\ Len(r.attestations) >= Cardinality(Domains) /\ r.batches # <<>>

(* source_domain_payload.                                                    *)
Payload(r, d) ==
    CASE d = "ais_and_vessel_calls" -> <<r.calls>>
      [] d = "berth_plan" -> <<r.berths>>
      [] d = "crane_work_orders" -> <<r.cranes>>
      [] d = "yard_inventory" -> <<r.yards>>
      [] d = "truck_appointments" -> <<r.gates, r.appointments>>
      [] d = "reefer_monitoring" -> <<r.batches>>
      [] d = "shore_power_registry" ->
            <<[i \in DOMAIN r.calls |-> <<r.calls[i].id, r.calls[i].compatible, r.calls[i].hotel, r.calls[i].shoreMin>>],
              [i \in DOMAIN r.berths |-> <<r.berths[i].id, r.berths[i].shore, r.berths[i].capacity>>]>>
      [] d = "energy_management_system" -> <<r.energy, r.storage>>
-------------------------------------------------------------------------------
(* The source gates; the horizon starts at 0. *)

Ids(s) == {x.id : x \in Range(s)}
WithId(s, id) == LastWith(s, LAMBDA x : x.id = id)
SlotsComplete(r) == /\ Len(r.energy) = r.slots
                    /\ {e.slot : e \in Range(r.energy)} = 0..(r.slots - 1)
                    /\ \A e \in Range(r.energy) : e.start = 2 * e.slot
ReferencesHold(r) ==
    /\ LET all == <<r.calls, r.berths, r.cranes, r.yards, r.gates, r.appointments, r.batches>>
       IN  \A i \in DOMAIN all : Distinct(all[i], LAMBDA x : x.id)
    /\ \A c \in Range(r.calls) : Range(c.berths) \subseteq Ids(r.berths) /\ c.yards \subseteq Ids(r.yards)
    /\ \A c \in Range(r.cranes) : c.berths \subseteq Ids(r.berths)
    /\ \A a \in Range(r.appointments) : a.call \in Ids(r.calls) /\ a.yard \in Ids(r.yards)
                                        /\ Range(a.gates) \subseteq Ids(r.gates)
    /\ \A b \in Range(r.batches) : b.call \in Ids(r.calls) /\ b.yard \in Ids(r.yards)
    /\ SlotsComplete(r)
Covered(r) == /\ Distinct(r.attestations, LAMBDA a : a.domain) /\ ReferencesHold(r)
              /\ {a.domain : a \in Range(r.attestations)} = Domains
SignatureValid(r, a) == a.key \in Trusted /\ a.over = <<a.domain, Payload(r, a.domain)>>
SourcesSigned(r) == Covered(r) /\ \A a \in Range(r.attestations) : SignatureValid(r, a)
FreshAndAligned(r) ==
    /\ Covered(r)
    /\ \A a, b \in Range(r.attestations) :
        /\ a.live /\ 0 <= r.at - a.observed /\ r.at - a.observed <= r.policy.age
        /\ a.observed - b.observed <= r.policy.alignment
-------------------------------------------------------------------------------
(* Vessels: a search of bounded width over berth, cranes, time and block. *)

SlotCeil(t) == (t + 1) \div 2
SlotFloor(t) == t \div 2
Rate(cranes) == SumOver(cranes, LAMBDA c : c.rate)
Slots(a) == a.start..(a.end - 1)
Overlap(a, b) == Slots(a) \cap Slots(b) # {}
Free(plan, berth, cranes, slots) ==
    \A a \in plan : slots \cap Slots(a) # {} => a.berth # berth /\ a.cranes \cap Ids(cranes) = {}

(* The ways to serve vessel v beside the assignments of plan.                *)
Ways(r, v, plan) ==
    UNION { LET berth == WithId(r.berths, id)
                eligible == SelectSeq(r.cranes, LAMBDA c : id \in c.berths)
                most == Min({v.max, berth.cranes, Len(eligible)})
                first == Max({0, SlotCeil(v.eta), SlotCeil(berth.from)})
                last == Min({r.slots, SlotFloor(v.departure), SlotFloor(berth.until)})
            IN  { [call |-> v.id, berth |-> id, yard |-> yard, cranes |-> {c.id : c \in cranes},
                   start |-> s, end |-> s + (v.import + v.export + Rate(cranes) - 1) \div Rate(cranes),
                   rate |-> Rate(cranes)]
                   : cranes \in {c \in SUBSET Range(eligible) : v.min <= Cardinality(c) /\ Cardinality(c) <= most},
                     s \in first..last, yard \in v.yards }
            : id \in {b \in Range(v.berths) : b \in Ids(r.berths) /\ v.length <= WithId(r.berths, b).length} }
Possible(r, v, plan) ==
    { w \in Ways(r, v, plan) :
        LET berth == WithId(r.berths, w.berth)
            cranes == SelectSeq(r.cranes, LAMBDA c : c.id \in w.cranes)
        IN  /\ w.end <= Min({r.slots, SlotFloor(v.departure), SlotFloor(berth.until)})
            /\ Free(plan, w.berth, cranes, Slots(w))
            /\ \A c \in Range(cranes) : c.from <= 2 * w.start /\ 2 * w.end <= c.until }

(* Tenths of the score: minutes of waiting, slots and use of the block.      *)
Cost(r, v, w) ==
    LET block == WithId(r.yards, w.yard)
    IN  300 * Max({0, 2 * w.start - v.eta}) * v.priority * r.policy.delay
          + 10 * (w.end - w.start) + (10 * block.initial) \div block.capacity

(* The states a search may go on with, all of the same unscheduled vessels:  *)
(* the best, and any of the ties at the cut, which the digests decide on.    *)
Beams(states, width) ==
    LET ahead == {s \in states : Cardinality({t \in states : t.score <= s.score}) <= width}
        ties == {s \in states \ ahead : \A t \in states \ ahead : s.score <= t.score}
    IN  {ahead \cup kept : kept \in kSubset(Min({width, Cardinality(states)}) - Cardinality(ahead), ties)}
ByDeparture(v, w) == \/ v.departure < w.departure
                     \/ v.departure = w.departure /\ v.priority > w.priority
                     \/ v.departure = w.departure /\ v.priority = w.priority /\ v.id < w.id
Expanded(r, states, v) ==
    LET expanded == UNION {{ [score |-> s.score + Cost(r, v, w), plan |-> s.plan \cup {w}, without |-> s.without]
                             : w \in Possible(r, v, s.plan)} : s \in states}
    IN  IF expanded = {} THEN {[s EXCEPT !.without = @ \cup {v.id}] : s \in states} ELSE expanded
(* The last cut keeps one of the best states, and the best of all is taken.  *)
ScheduleVessels(r) ==
    LET order == SortSeq(r.calls, ByDeparture)
        searches == FoldLeft(LAMBDA all, v : UNION {Beams(Expanded(r, states, v), r.policy.beam) : states \in all},
                             {{[score |-> 0, plan |-> {}, without |-> {}]}}, Front(order))
    IN  UNION { LET ends == Expanded(r, states, Last(order))
                IN  {s \in ends : \A t \in ends : s.score <= t.score} : states \in searches }

Moves(v, w, k) == Min({w.rate, v.import + v.export - w.rate * (k - w.start)})
-------------------------------------------------------------------------------
(* Trucks, yard, reefers and shore power. *)

GateLoad(trips, gate, slot) ==
    SumOver({t \in trips : t.gate = gate /\ t.slot = slot}, LAMBDA t : t.teu)
Suits(a, w, k) == IF a.direction = "export_dropoff" THEN k <= w.start ELSE k >= w.end
TripsOf(r, plan, a) ==
    LET last == Min({r.slots, SlotFloor(a.until)}) - 1
        slots == {k \in Max({0, SlotCeil(a.from)})..last : \E w \in plan : w.call = a.call /\ Suits(a, w, k)}
    IN  { [id |-> a.id, call |-> a.call, direction |-> a.direction, yard |-> a.yard, teu |-> a.teu,
           gate |-> g, slot |-> k] : g \in Range(a.gates), k \in slots }
(* Dropping off as late as possible, picking up as early as possible.        *)
WithTrip(r, plan, trips, a) ==
    LET open == {t \in TripsOf(r, plan, a) :
                    GateLoad(trips, t.gate, t.slot) + t.teu <= WithId(r.gates, t.gate).max}
        when == {t.slot : t \in open}
        slot == IF a.direction = "export_dropoff" THEN Max(when) ELSE Min(when)
        gate == FirstWith(a.gates, LAMBDA g : \E t \in open : t.slot = slot /\ t.gate = g)
    IN  IF open = {} THEN trips ELSE trips \cup {t \in open : t.slot = slot /\ t.gate = gate}
ByWindow(a, b) == a.until < b.until \/ (a.until = b.until /\ a.id < b.id)
ScheduleTrucks(r, plan) ==
    FoldLeft(LAMBDA trips, a : WithTrip(r, plan, trips, a), {}, SortSeq(r.appointments, ByWindow))

Change(r, plan, trips, block, k) ==
    SumOver({w \in plan : w.yard = block /\ k \in Slots(w)},
            LAMBDA w : LET v == WithId(r.calls, w.call)
                       IN  (Moves(v, w, k) * (v.import - v.export)) \div (v.import + v.export))
      + SumOver({t \in trips : t.yard = block /\ t.slot = k},
                LAMBDA t : IF t.direction = "export_dropoff" THEN t.teu ELSE -t.teu)
Occupancy(r, plan, trips, b, k) ==
    b.initial + SumOver(0..k, LAMBDA j : Change(r, plan, trips, b.id, j))
YardHolds(r, plan, trips) ==
    \A b \in Range(r.yards), k \in 0..(r.slots - 1) :
        LET o == Occupancy(r, plan, trips, b, k) IN 0 <= o /\ o <= b.capacity

Connected(r, b) ==
    IF b.uninterrupted /\ SlotFloor(b.until) <= r.slots THEN SlotCeil(b.from)..(SlotFloor(b.until) - 1) ELSE {}
ReefersServed(r) ==
    /\ \A b \in Range(r.batches) : Connected(r, b) # {}
    /\ \A y \in Range(r.yards), k \in 0..(r.slots - 1) :
        SumOf(r.batches, LAMBDA b : IF b.yard = y.id /\ k \in Connected(r, b) THEN b.count ELSE 0) <= y.plugs

ShoreLoad(r, w) ==
    LET v == WithId(r.calls, w.call)
        b == WithId(r.berths, w.berth)
    IN  IF v.compatible /\ b.shore THEN Min({v.hotel, b.capacity}) ELSE 0
ShoreServed(r, plan) ==
    \A w \in plan : ShoreLoad(r, w) * (w.end - w.start) >= WithId(r.calls, w.call).shoreMin

(* _slot_components: the load of a slot.                                     *)
Load(r, plan, trips, k) ==
    LET at == {w \in plan : k \in Slots(w)}
    IN  LastWith(r.energy, LAMBDA e : e.slot = k).base
          + SumOver(at, LAMBDA w : ShoreLoad(r, w)
                + SumOver(w.cranes, LAMBDA c : WithId(r.cranes, c).power)
                + Moves(WithId(r.calls, w.call), w, k) * WithId(r.yards, w.yard).handling)
          + SumOver({t \in trips : t.slot = k}, LAMBDA t : t.teu * WithId(r.gates, t.gate).service)
          + SumOf(r.batches, LAMBDA b : IF k \in Connected(r, b) THEN b.count * b.power ELSE 0)
-------------------------------------------------------------------------------
(* _optimize_storage: dynamic programming over the energy stored.  The table *)
(* is cut at 800 entries, which no package here reaches.                     *)

GridLimit(r, e) == (e.limit * (100 - r.policy.margin)) \div 100
Powers(r, e, load) ==
    LET s == r.storage
        required == Max({0, load - e.renewable - GridLimit(r, e)})
    IN  {-s.charge, -(s.charge \div 2), 0, s.discharge \div 2, s.discharge, Min({s.discharge, required})}
Stored(s, energy, power) ==
    IF power >= 0 THEN energy - (100 * power) \div s.dischargeEff
    ELSE energy + (-power * s.chargeEff) \div 100
Flow(r, e, load, power) ==
    LET renewable == Min({e.renewable, Max({0, load - power})})
        grid == Max({0, load - renewable - power})
    IN  [load |-> load, power |-> power, renewable |-> renewable, grid |-> grid,
         limit |-> GridLimit(r, e), error |-> grid + renewable + power - load]
FlowScore(r, e, f) ==
    r.policy.cost * (f.grid * e.price + Abs(f.power) * r.policy.degradation)
      + r.policy.carbon * f.grid * e.carbon + 1000000 * Max({0, f.grid - f.limit})
NextStates(r, states, k, load) ==
    LET e == LastWith(r.energy, LAMBDA x : x.slot = k)
        all == { [energy |-> Stored(r.storage, s.energy, p), path |-> Append(s.path, Flow(r, e, load, p)),
                  score |-> s.score + FlowScore(r, e, Flow(r, e, load, p))]
                 : s \in states, p \in Powers(r, e, load) }
        held == {n \in all : r.storage.min <= n.energy /\ n.energy <= r.storage.max}
    IN  {n \in held : \A m \in held : m.energy = n.energy => n.score <= m.score}
Trajectories(r, loads) ==
    FoldLeft(LAMBDA states, k : NextStates(r, states, k - 1, loads[k]),
             {[energy |-> r.storage.initial, path |-> <<>>, score |-> 0]}, [k \in DOMAIN loads |-> k])
OptimizeStorage(r, loads) ==
    LET states == Trajectories(r, loads)
        ending == {s \in states : s.energy >= r.storage.terminal}
    IN  IF ending # {} THEN {s \in ending : \A t \in ending : s.score <= t.score}
        ELSE IF states # {} THEN {s \in states : \A t \in states : s.energy >= t.energy}
        ELSE {[energy |-> r.storage.initial, path |-> <<>>, score |-> 0]}
-------------------------------------------------------------------------------
(* evaluate(). *)

SourceGates == {"source_domain_coverage", "source_signatures", "source_freshness_alignment"}
Gates(r, s, trips, t) ==
    [source_domain_coverage |-> Covered(r), source_signatures |-> SourcesSigned(r),
     source_freshness_alignment |-> FreshAndAligned(r), vessel_schedule |-> s.without = {},
     berth_compatibility |-> s.without = {}
        /\ \A v, w \in s.plan : v # w /\ v.berth = w.berth => ~Overlap(v, w),
     crane_task_capacity |-> s.without = {}
        /\ \A v, w \in s.plan : v # w /\ Overlap(v, w) => v.cranes \cap w.cranes = {},
     yard_inventory_capacity |-> YardHolds(r, s.plan, trips),
     truck_appointments |-> Cardinality(trips) = Len(r.appointments),
     reefer_safety |-> ReefersServed(r), shore_power_service |-> ShoreServed(r, s.plan),
     energy_balance_and_grid |-> Len(t.path) = r.slots
        /\ \A f \in Range(t.path) : f.error = 0 /\ f.grid <= f.limit,
     storage_soc_and_terminal |-> t.energy >= r.storage.terminal]

(* One report for every tie between schedules and between trajectories.      *)
Reports(r) ==
    UNION { LET trips == ScheduleTrucks(r, s.plan)
                loads == [k \in 1..r.slots |-> Load(r, s.plan, trips, k - 1)]
            IN  { LET gates == Gates(r, s, trips, t)
                      blockers == {g \in DOMAIN gates : ~gates[g]}
                  IN  [passed |-> DOMAIN gates \ blockers,
                       status |-> IF blockers = {} THEN "advisory_plan_ready"
                                  ELSE IF blockers \cap SourceGates = {} THEN "infeasible" ELSE "blocked",
                       plan |-> [vessels |-> s.plan, trips |-> trips, flows |-> t.path, stored |-> t.energy]]
                  : t \in OptimizeStorage(r, loads) }
            : s \in ScheduleVessels(r) }

(* Lookups of what is not there raise before any report is made.             *)
Raises(r) ==
    \/ \E k \in 0..(r.slots - 1) : \A e \in Range(r.energy) : e.slot # k
    \/ \E b \in Range(r.batches) : b.yard \notin Ids(r.yards) /\ Connected(r, b) # {}
-------------------------------------------------------------------------------
(* Edits by whoever prepares the package.                                    *)
EditedQuay(r) ==
    { [r EXCEPT !.calls[1].eta = 3], [r EXCEPT !.calls[1].departure = 7], [r EXCEPT !.calls[2].departure = 3],
      [r EXCEPT !.calls[1].min = 2], [r EXCEPT !.calls[1].length = 4], [r EXCEPT !.calls[2].priority = 2],
      [r EXCEPT !.calls[2].import = 0, !.calls[2].export = 4], [r EXCEPT !.calls[2].import = 3],
      [r EXCEPT !.calls[1].hotel = 1], [r EXCEPT !.calls[1].shoreMin = 5],
      [r EXCEPT !.calls[1].compatible = FALSE, !.calls[1].shoreMin = 0],
      [r EXCEPT !.calls[2].id = 1], [r EXCEPT !.berths[1].until = 5], [r EXCEPT !.berths[1].cranes = 1],
      [r EXCEPT !.berths[2].from = 3], [r EXCEPT !.berths[1].shore = FALSE, !.berths[1].capacity = 0],
      [r EXCEPT !.cranes[2].until = 5], [r EXCEPT !.cranes[1].from = 1], [r EXCEPT !.cranes[1].rate = 4],
      [r EXCEPT !.cranes[2].berths = {"b1"}], [r EXCEPT !.cranes[1].power = 20] }
EditedLand(r) ==
    { [r EXCEPT !.yards[1].initial = 10], [r EXCEPT !.yards[1].capacity = 6], [r EXCEPT !.yards[2].initial = 0],
      [r EXCEPT !.yards[1].plugs = 1], [r EXCEPT !.gates[1].max = 2], [r EXCEPT !.appointments[1].until = 5],
      [r EXCEPT !.appointments[2].from = 3], [r EXCEPT !.appointments[1].teu = 4],
      [r EXCEPT !.appointments[2].call = 1], [r EXCEPT !.batches[1].until = 9],
      [r EXCEPT !.batches[2].count = 2], [r EXCEPT !.batches[2].uninterrupted = FALSE],
      [r EXCEPT !.batches[1].yard = "y9"], [r EXCEPT !.batches[2].call = 9] }
EditedEnergy(r) ==
    { [r EXCEPT !.energy[2].limit = 10], [r EXCEPT !.energy[1].limit = 0], [r EXCEPT !.energy[3].base = 40],
      [r EXCEPT !.energy[1].renewable = 40], [r EXCEPT !.energy = Tail(@)], [r EXCEPT !.energy[4].slot = 2],
      [r EXCEPT !.energy[2].start = 3],
      [r EXCEPT !.energy[4].base = 1, !.energy[4].renewable = 0, !.energy[4].price = 9],
      [r EXCEPT !.storage.terminal = 36], [r EXCEPT !.storage.initial = 4, !.storage.terminal = 4],
      [r EXCEPT !.policy.margin = 40], [r EXCEPT !.policy.degradation = 0], [r EXCEPT !.policy.age = 1],
      [r EXCEPT !.policy.delay = 0], [r EXCEPT !.at = 4],
      [r EXCEPT !.attestations[1].live = FALSE], [r EXCEPT !.attestations[2].observed = 2],
      [r EXCEPT !.attestations[3].domain = r.attestations[4].domain] }
Edited(r) == EditedQuay(r) \cup EditedLand(r) \cup EditedEnergy(r)

(* What each source owns of the request.                                     *)
Owned(d) ==
    CASE d = "ais_and_vessel_calls" -> {"calls"}  [] d = "berth_plan" -> {"berths"}
      [] d = "crane_work_orders" -> {"cranes"}    [] d = "yard_inventory" -> {"yards"}
      [] d = "truck_appointments" -> {"gates", "appointments"}
      [] d = "reefer_monitoring" -> {"batches"}   [] d = "shore_power_registry" -> {}
      [] d = "energy_management_system" -> {"energy", "storage"}

Init == request = Package /\ report = DefaultReport /\ edits = 0 /\ vouched = [f \in {} |-> None]

Edit ==
    /\ edits < MaxEdits
    /\ \E r \in Edited(request) : r # request /\ Valid(r) /\ request' = r
    /\ edits' = edits + 1 /\ report' = DefaultReport
    /\ UNCHANGED vouched

(* Each source signs its domain, which the request has exactly once.         *)
Signed(r, domains, key) ==
    [r EXCEPT !.attestations = [i \in DOMAIN r.attestations |->
        LET a == r.attestations[i]
        IN  IF a.domain \notin domains THEN a
            ELSE [a EXCEPT !.key = key, !.over = <<a.domain, Payload(r, a.domain)>>]]]
Sign ==
    /\ Distinct(request.attestations, LAMBDA a : a.domain)
    /\ \E domains \in {Domains, {"berth_plan"}, {"energy_management_system"}}, key \in {"k1", "k2"} :
        LET fields == UNION {Owned(d) : d \in domains}
        IN  /\ request' = Signed(request, domains, key)
            /\ vouched' = [f \in fields \cup DOMAIN vouched |->
                                IF f \in fields THEN request[f] ELSE vouched[f]]
    /\ request' # request /\ report' = DefaultReport
    /\ UNCHANGED edits

Evaluate ==
    /\ report = DefaultReport
    /\ IF Raises(request) THEN report' = [DefaultReport EXCEPT !.status = "raised"]
       ELSE report' \in Reports(request)
    /\ UNCHANGED <<request, edits, vouched>>

Next == Edit \/ Sign \/ Evaluate
Spec == Init /\ [][Next]_vars
-------------------------------------------------------------------------------
(* The properties. *)

TypeOK ==
    /\ edits \in 0..MaxEdits
    /\ report.status = "advisory_plan_ready" => SourceGates \subseteq report.passed

(* A plan is computed from what the eight systems sent: all content of the   *)
(* request but the policy of the planner is as its owner had it when it      *)
(* signed, whoever signed before or after an edit.                           *)
PlannedAsSigned ==
    report.status \in {"advisory_plan_ready", "infeasible"} =>
        \A d \in Domains : \A f \in Owned(d) : f \in DOMAIN vouched /\ vouched[f] = request[f]

(* A plan that is released can be carried out, judged without its search:    *)
(* every call is served once, in its window, by enough free cranes that may  *)
(* work at its berth; every trip fits its gate; boxes are conserved over the *)
(* yard; and the storage ends where it must.                                 *)
PlanCanBeCarriedOut ==
    report.status = "advisory_plan_ready" =>
        LET plan == report.plan
            busy(k) == {w \in plan.vessels : w.start <= k /\ k < w.end}
            yardOf(v) == CHOOSE y \in v.yards : \E w \in plan.vessels : w.call = v.id /\ w.yard = y
        IN  /\ \A v \in Range(request.calls) :
                \E w \in plan.vessels :
                    /\ {x \in plan.vessels : x.call = v.id} = {w}
                    /\ v.eta <= 2 * w.start /\ 2 * w.end <= v.departure
                    /\ Cardinality(w.cranes) \in v.min..v.max
                    /\ \A id \in w.cranes :
                        LET c == WithId(request.cranes, id)
                        IN  w.berth \in c.berths /\ c.from <= 2 * w.start /\ 2 * w.end <= c.until
            /\ \A k \in 0..(request.slots - 1) :
                /\ \A v, w \in busy(k) : v # w => v.berth # w.berth /\ v.cranes \cap w.cranes = {}
                /\ \A g \in Range(request.gates) : GateLoad(plan.trips, g.id, k) <= g.max
            /\ \A b \in Range(request.yards) :
                Occupancy(request, plan.vessels, plan.trips, b, request.slots - 1) =
                    b.initial
                      + SumOf(request.calls, LAMBDA v : IF yardOf(v) = b.id THEN v.import - v.export ELSE 0)
                      + SumOf(request.appointments,
                              LAMBDA a : IF a.yard # b.id THEN 0
                                         ELSE IF a.direction = "export_dropoff" THEN a.teu ELSE -a.teu)
            /\ plan.stored \in request.storage.terminal..request.storage.max
            /\ \A f \in Range(plan.flows) : f.grid + f.renewable + f.power = f.load

(* A request that is blocked although its plan holds lacks its sources only: *)
(* signed again, live and in time, it is not blocked.                        *)
BlockedNeedsOnlySources ==
    report.status = "blocked" /\ ReferencesHold(request) =>
        LET fresh == [request EXCEPT !.attestations =
                [i \in DOMAIN DomainSeq |-> [Attestation(DomainSeq[i]) EXCEPT !.observed = request.at]]]
        IN  \A x \in Reports(Signed(fresh, Domains, "k1")) : x.status # "blocked"

(* The planning document: infeasible says that trusted data leave no plan,   *)
(* so no trajectory of the storage would have balanced every slot.           *)
InfeasibleHasNoPlan ==
    report.status = "infeasible" /\ Cardinality(report.passed) = 11 /\ "energy_balance_and_grid" \notin report.passed =>
        LET loads == [k \in DOMAIN report.plan.flows |-> report.plan.flows[k].load]
        IN  \A t \in Trajectories(request, loads) :
                \/ t.energy < request.storage.terminal
                \/ \E f \in Range(t.path) : f.error # 0 \/ f.grid > f.limit
===============================================================================
