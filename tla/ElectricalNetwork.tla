--------------------------- MODULE ElectricalNetwork ---------------------------
(* The screening of a site's electrical network                              *)
(* (ElectricalNetworkAssessmentService): six source systems sign their part  *)
(* of a single-line model (sign_electrical_source.py), evaluate() follows    *)
(* the power through it as it is, after each contingency and as an island,   *)
(* and answers behind fourteen gates.                                        *)
(*                                                                           *)
(* Powers are counted in 10 kW and 10 kvar, voltages in 1/10000 pu, branch   *)
(* impedances in 1/1000 pu, the interval is an hour.  Buses are numbers, in  *)
(* the order of their names, and no two branches join the same buses.        *)
EXTENDS Evidence, SequencesExt

CONSTANTS Trusted, MaxEdits
VARIABLES request, report, edits, vouched
vars == <<request, report, edits, vouched>>

DomainSeq == <<"single_line_topology", "scada_switchgear", "power_quality_meters",
               "transformer_monitoring", "charging_management", "battery_management_system">>
Domains == Range(DomainSeq)
DefaultReport == [status |-> "blocked", passed |-> {}, energised |-> {}, power |-> 0]
-------------------------------------------------------------------------------
(* The package. *)
Attestation(d) == [domain |-> d, key |-> "none", observed |-> 0, live |-> TRUE, over |-> None]
Policy == [low |-> 9400, high |-> 10600, loading |-> 90, factor |-> 95, thd |-> 50, hot |-> 120,
           doublings |-> 2, outage |-> 100, island |-> 100, utilisation |-> 85, wait |-> 2,
           age |-> 3, alignment |-> 1]
Bus(id, p, q, critical) ==
    [id |-> id, p |-> p, q |-> q, critical |-> critical, required |-> p > 0]
Branch(id, type, from, to, resistance, reactance, rating, switch) ==
    [id |-> id, type |-> type, from |-> from, to |-> to, r |-> resistance, x |-> reactance,
     rating |-> rating, switch |-> switch]
Switch(id, closed) == [id |-> id, closed |-> closed, healthy |-> TRUE, permissive |-> TRUE]
Source(id, bus, type, blackStart) ==
    [id |-> id, bus |-> bus, type |-> type, available |-> TRUE, p |-> 0, q |-> 0,
     maxP |-> 80, maxQ |-> 30, forming |-> TRUE, blackStart |-> blackStart]
Meter(bus) == [id |-> bus, bus |-> bus, voltage |-> 9950, harmonics |-> <<8, 12, 6>>, thd |-> 16]
Thermal == [id |-> "tx", branch |-> "tx", ambient |-> 25, oil |-> 30, winding |-> 20, ratedOil |-> 55,
            ratedWinding |-> 30, lossRatio |-> 5, oilDecay |-> 70, windingDecay |-> 10]
Pool == [id |-> "agv", bus |-> 3, installed |-> 3, available |-> 2, arrivals |-> 2, service |-> 1]
Warranty ==
    [id |-> "bess", source |-> "bess", bus |-> 2, capacity |-> 200, soc |-> 80, minSoc |-> 20, maxSoc |-> 95,
     health |-> 96, minHealth |-> 80, temperature |-> 30, maxTemperature |-> 45, p |-> 10, q |-> 2,
     maxCharge |-> 80, maxDischarge |-> 80, maxQ |-> 30, chargeEff |-> 50, dischargeEff |-> 50,
     daily |-> 50, maxDaily |-> 300, cumulative |-> 1000, maxCumulative |-> 9000, cycles |-> 200,
     maxCycles |-> 600, reserve |-> 10]
Outage(id, branch, ties) == [id |-> id, branch |-> branch, ties |-> ties, coverage |-> 100]
Island == [id |-> "island", pcc |-> {"s-pcc"}, hours |-> 1, coverage |-> 100]

Package ==
    [at |-> 2, policy |-> Policy,
     buses |-> <<Bus(1, 0, 0, 0), Bus(2, 20, 4, 10), Bus(3, 30, 6, 20)>>,
     branches |-> <<Branch("pcc", "grid_intertie", 1, 2, 2, 3, 100, "s-pcc"),
                    Branch("tx", "transformer", 2, 3, 5, 8, 80, "s-tx"),
                    Branch("backup", "line", 1, 3, 4, 6, 80, "s-tie")>>,
     switches |-> <<Switch("s-pcc", TRUE), Switch("s-tx", TRUE), Switch("s-tie", FALSE)>>,
     sources |-> <<[Source("grid", 1, "grid", FALSE) EXCEPT !.maxP = 200, !.maxQ = 100],
                   Source("bess", 2, "storage", TRUE)>>,
     meters |-> <<Meter(2), Meter(3)>>, thermals |-> <<Thermal>>, pools |-> <<Pool>>,
     warranties |-> <<Warranty>>, outages |-> <<Outage("n1", "tx", {"s-tie"})>>, islands |-> <<Island>>,
     attestations |-> [i \in DOMAIN DomainSeq |-> Attestation(DomainSeq[i])]]

(* The validators of the request.                                            *)
Valid(r) ==
    /\ r.policy.low < r.policy.high
    /\ \A b \in Range(r.buses) : b.critical <= b.p
    /\ \A b \in Range(r.branches) : b.from # b.to
    /\ \A s \in Range(r.sources) : s.p <= s.maxP /\ Abs(s.q) <= s.maxQ
    /\ \A p \in Range(r.pools) : p.available <= p.installed
    /\ \A w \in Range(r.warranties) : w.minSoc <= w.soc /\ w.soc <= w.maxSoc

(* source_domain_payload.                                                    *)
Owned(d) ==
    CASE d = "single_line_topology" -> {"buses", "branches", "sources", "outages", "islands"}
      [] d = "scada_switchgear" -> {"switches"}
      [] d = "power_quality_meters" -> {"meters"}
      [] d = "transformer_monitoring" -> {"thermals"}
      [] d = "charging_management" -> {"pools"}
      [] d = "battery_management_system" -> {"warranties"}
Payload(r, d) ==
    CASE d = "single_line_topology" -> <<r.buses, r.branches, r.sources, r.outages, r.islands>>
      [] d = "scada_switchgear" -> <<r.switches>>
      [] d = "power_quality_meters" -> <<r.meters>>
      [] d = "transformer_monitoring" -> <<r.thermals>>
      [] d = "charging_management" -> <<r.pools>>
      [] d = "battery_management_system" -> <<r.warranties>>
-------------------------------------------------------------------------------
(* The source gates and the references. *)

Ids(s) == {x.id : x \in Range(s)}
WithId(s, id) == LastWith(s, LAMBDA x : x.id = id)

Covered(r) == /\ Distinct(r.attestations, LAMBDA a : a.domain)
              /\ {a.domain : a \in Range(r.attestations)} = Domains
SignatureValid(r, a) == a.key \in Trusted /\ a.over = <<a.domain, Payload(r, a.domain)>>
SourcesSigned(r) == Covered(r) /\ \A a \in Range(r.attestations) : SignatureValid(r, a)
FreshAndAligned(r) ==
    /\ Covered(r)
    /\ \A a, b \in Range(r.attestations) :
        /\ a.live /\ 0 <= r.at - a.observed /\ r.at - a.observed <= r.policy.age
        /\ a.observed - b.observed <= r.policy.alignment

ReferencesHold(r) ==
    /\ LET all == <<r.buses, r.branches, r.switches, r.sources, r.meters, r.thermals, r.pools,
                    r.warranties, r.outages, r.islands>>
       IN  \A i \in DOMAIN all : Distinct(all[i], LAMBDA x : x.id)
    /\ \A b \in Range(r.branches) : {b.from, b.to} \subseteq Ids(r.buses) /\ b.switch \in Ids(r.switches)
    /\ LET placed == <<r.sources, r.meters, r.pools, r.warranties>>
       IN  \A i \in DOMAIN placed : \A x \in Range(placed[i]) : x.bus \in Ids(r.buses)
    /\ \A t \in Range(r.thermals) : \E b \in Range(r.branches) : b.id = t.branch /\ b.type = "transformer"
    /\ \A w \in Range(r.warranties) :
        \E s \in Range(r.sources) : s.id = w.source /\ s.type = "storage" /\ s.bus = w.bus
    /\ \A o \in Range(r.outages) : o.branch \in Ids(r.branches) /\ o.ties \subseteq Ids(r.switches)
    /\ \A i \in Range(r.islands) : i.pcc \subseteq Ids(r.switches)
-------------------------------------------------------------------------------
(* _network_state: the network with some switches set otherwise (over), a    *)
(* branch out of service and perhaps without the grid.                       *)

Closed(r, over, id) == IF id \in DOMAIN over THEN over[id] ELSE WithId(r.switches, id).closed
Coherent(r, over) ==
    \A b \in Range(r.branches) :
        /\ b.switch \in Ids(r.switches)
        /\ Closed(r, over, b.switch) =>
            LET s == WithId(r.switches, b.switch) IN s.healthy /\ s.permissive
Active(r, over, out) ==
    SelectSeq(r.branches, LAMBDA b : /\ b.switch \in Ids(r.switches) /\ Closed(r, over, b.switch)
                                     /\ b.id \notin out /\ {b.from, b.to} \subseteq Ids(r.buses))

(* The buses that active branches reach from root, breadth first, each with  *)
(* the bus and the branch that feed it.                                      *)
Tree(r, active, root) ==
    LET Links(tree, bus) ==
            SelectSeq(active, LAMBDA b : /\ bus \in {b.from, b.to}
                                         /\ \A e \in Range(tree) : e.bus \notin {b.from, b.to} \ {bus})
        Grow(tree, i) ==
            IF i > Len(tree) THEN tree
            ELSE LET links == Links(tree, tree[i].bus)
                 IN  tree \o [k \in DOMAIN links |->
                        [bus |-> IF links[k].from = tree[i].bus THEN links[k].to ELSE links[k].from,
                         up |-> tree[i].bus, by |-> links[k]]]
    IN  FoldLeft(Grow, <<[bus |-> root, up |-> 0, by |-> None]>>, [i \in DOMAIN r.buses |-> i])
Components(r, active) == {{e.bus : e \in Range(Tree(r, active, b))} : b \in Ids(r.buses)}
Radial(r, active) ==
    Len(active) = Cardinality(Ids(r.buses)) - Cardinality(Components(r, active))

Available(r, grid) == {s \in Range(r.sources) : s.available /\ (grid \/ s.type # "grid")}
Roots(sources, component) ==
    {s.bus : s \in {x \in sources : x.bus \in component /\ (x.type = "grid" \/ x.forming)}}
Root(sources, component) ==
    LET grid == {s.bus : s \in {x \in sources : x.bus \in component /\ x.type = "grid"}}
    IN  Min(IF grid # {} THEN grid ELSE Roots(sources, component))

(* What flows into each bus of the tree: what it and those below it need     *)
(* beyond the local sources.                                                 *)
Flow(tree, net) ==
    FoldRight(LAMBDA e, d : IF e.up = 0 THEN d ELSE [d EXCEPT ![e.up] = @ + d[e.bus]], tree, net)
(* The least percentage that covers p + jq on the rating (math.hypot).       *)
Loading(p, q, rating) ==
    CHOOSE x \in 0..400 : /\ x = 400 \/ 10000 * (p * p + q * q) <= x * x * rating * rating
                          /\ x = 0 \/ 10000 * (p * p + q * q) > (x - 1) * (x - 1) * rating * rating
Drop(b, p, q) == (10 * (b.r * p + b.x * q)) \div b.rating

Balance(r, local, tree, power) ==
    Flow(tree, [b \in {e.bus : e \in Range(tree)} |->
        WithId(r.buses, b)[power]
            - SumOver({s \in local : s.bus = b /\ s.type # "grid"}, LAMBDA s : s[power])])
Volts(tree, p, q) ==
    FoldLeft(LAMBDA v, e : IF e.up = 0 THEN v
                           ELSE [v EXCEPT ![e.bus] = v[e.up] - Drop(e.by, p[e.bus], q[e.bus])],
             [b \in DOMAIN p |-> 10000], tree)
Figures(local, tree, p, q) ==
    LET taken == Max({0, p[tree[1].bus]})
        reactive == q[tree[1].bus]
    IN  [p |-> taken, q |-> reactive, buses |-> DOMAIN p, volts |-> Range(Volts(tree, p, q)),
         fits |-> taken <= SumOver(local, LAMBDA s : s.maxP),
         fitsQ |-> Abs(reactive) <= SumOver(local, LAMBDA s : s.maxQ),
         loads |-> {<<e.by.id, Loading(p[e.bus], q[e.bus], e.by.rating)>> : e \in Range(Tail(tree))}]
Studied(r, local, tree) ==
    Figures(local, tree, Balance(r, local, tree, "p"), Balance(r, local, tree, "q"))
Solved(r, active, sources) ==
    {Studied(r, {s \in sources : s.bus \in c}, Tree(r, active, Root(sources, c))) :
        c \in {x \in Components(r, active) : Roots(sources, x) # {}}}
Merged(solved, radial, coherent) ==
    [radial |-> radial, coherent |-> coherent,
     energised |-> UNION {s.buses : s \in solved}, volts |-> UNION {s.volts : s \in solved},
     fits |-> \A s \in solved : s.fits, fitsQ |-> \A s \in solved : s.fitsQ,
     loads |-> UNION {s.loads : s \in solved},
     p |-> SumOver(solved, LAMBDA s : s.p), q |-> SumOver(solved, LAMBDA s : s.q)]
NetworkState(r, over, out, grid) ==
    LET active == Active(r, over, out)
    IN  Merged(Solved(r, active, Available(r, grid)), Radial(r, active), Coherent(r, over))
Normal(r) == NetworkState(r, [s \in {} |-> TRUE], {}, TRUE)

Required(r) == {b.id : b \in {x \in Range(r.buses) : x.required}}
CriticalOf(r, buses) == SumOf(r.buses, LAMBDA b : IF b.id \in buses THEN b.critical ELSE 0)
CoversCritical(r, state, pct) ==
    LET total == CriticalOf(r, Ids(r.buses))
    IN  total > 0 /\ 100 * CriticalOf(r, state.energised) >= pct * total
VoltagesIn(r, volts) == volts # {} /\ \A v \in volts : r.policy.low <= v /\ v <= r.policy.high
LoadingsIn(r, state) == \A l \in state.loads : l[2] <= r.policy.loading
PowerFactorIn(r, state) ==
    \/ state.p = 0 /\ state.q = 0
    \/ 10000 * state.p * state.p >= r.policy.factor * r.policy.factor * (state.p * state.p + state.q * state.q)
Holds(r, state, pct) ==
    /\ state.radial /\ state.coherent /\ CoversCritical(r, state, pct)
    /\ VoltagesIn(r, state.volts) /\ LoadingsIn(r, state) /\ state.fits /\ state.fitsQ
-------------------------------------------------------------------------------
(* The other studies. *)

HarmonicsIn(r, m) ==
    /\ SumOf(m.harmonics, LAMBDA x : x * x) <= r.policy.thd * r.policy.thd
    /\ m.thd <= r.policy.thd

(* The rises approach what the load asks for; what the time constant leaves  *)
(* of the initial difference is given in per cent.  The oil exponent is 1,   *)
(* the winding exponent a half.  The ageing doubles with six degrees.        *)
Approach(initial, ultimate, decay) == ultimate + ((initial - ultimate) * decay) \div 100
HotSpot(t, load) ==
    LET oil == (t.ratedOil * (load * load * t.lossRatio + 10000)) \div (10000 * (t.lossRatio + 1))
        winding == (t.ratedWinding * load) \div 100
    IN  t.ambient + Approach(t.oil, oil, t.oilDecay) + Approach(t.winding, winding, t.windingDecay)
ThermalIn(r, t, state) ==
    LET load == Max({0} \cup {l[2] : l \in {x \in state.loads : x[1] = t.branch}})
    IN  HotSpot(t, load) <= r.policy.hot /\ HotSpot(t, load) <= 110 + 6 * r.policy.doublings

Restored(r, o, ties) ==
    Holds(r, NetworkState(r, [s \in ties |-> TRUE], {o.branch}, TRUE), Max({o.coverage, r.policy.outage}))
OutagePassed(r, o) ==
    /\ o.ties \subseteq Ids(r.switches)
    /\ \E ties \in {t \in SUBSET o.ties : Cardinality(t) <= 3} : Restored(r, o, ties)

BlackStart(r) ==
    {s \in Range(r.sources) : s.available /\ s.type # "grid" /\ s.forming /\ s.blackStart}
StoredAbove(w) == (w.capacity * Max({0, w.soc - w.minSoc})) \div 100
IslandEnergy(r, hours) ==
    SumOver(BlackStart(r), LAMBDA s :
        (IF s.type = "generator" THEN s.maxP * hours ELSE 0)
          + LET w == LastWith(r.warranties, LAMBDA x : x.source = s.id)
            IN  IF w = None THEN 0 ELSE Max({0, StoredAbove(w) - w.reserve}))
IslandPassed(r, i) ==
    LET coverage == Max({i.coverage, r.policy.island})
        state == NetworkState(r, [s \in i.pcc |-> FALSE], {}, FALSE)
    IN  /\ BlackStart(r) # {} /\ Holds(r, state, coverage)
        /\ 100 * IslandEnergy(r, i.hours) >= CriticalOf(r, Ids(r.buses)) * i.hours * coverage

(* Erlang C with c chargers at a = arrivals * service / 2 erlangs (arrivals  *)
(* per hour, service and waiting in half hours), in whole numbers.           *)
Factorial(n) == FoldLeft(LAMBDA x, k : x * k, 1, [k \in 1..n |-> k])
Power(a, n) == FoldLeft(LAMBDA x, k : x * a, 1, [k \in 1..n |-> k])
Served(p) ==
    LET c == p.available
        a == p.arrivals * p.service
        free == 2 * c - a
        waiting == Power(a, c) * 2 * c
        all == SumOver(0..(c - 1), LAMBDA k : Power(a, k) * 2^(c - k) * (Factorial(c) \div Factorial(k)))
    IN  [stable |-> free > 0, load |-> (100 * a) \div (2 * c),
         (* P(wait) / (c mu - lambda) as a fraction                          *)
         wait |-> <<waiting * 2 * p.service, (all * free + waiting) * free>>]
ChargingIn(r, p) ==
    LET s == Served(p)
    IN  s.stable /\ s.load <= r.policy.utilisation /\ s.wait[1] <= r.policy.wait * s.wait[2]

Projected(w) ==
    IF w.p >= 0 THEN w.soc - (10000 * w.p) \div (w.dischargeEff * w.capacity)
    ELSE w.soc + (-w.p * w.chargeEff) \div w.capacity
WarrantyIn(w) ==
    LET throughput == Abs(w.p)
    IN  /\ -w.maxCharge <= w.p /\ w.p <= w.maxDischarge /\ Abs(w.q) <= w.maxQ
        /\ w.minSoc <= Projected(w) /\ Projected(w) <= w.maxSoc
        /\ w.health >= w.minHealth /\ w.temperature <= w.maxTemperature
        /\ w.daily + throughput <= w.maxDaily /\ w.cumulative + throughput <= w.maxCumulative
        /\ throughput <= 2 * w.capacity * (w.maxCycles - w.cycles)
        /\ StoredAbove([w EXCEPT !.soc = Projected(w)]) >= w.reserve
-------------------------------------------------------------------------------
(* evaluate(). *)

SourceGates == {"source_domain_coverage", "source_signatures", "source_freshness_alignment"}
Gates(r, state) ==
    LET serving == Required(r) \subseteq state.energised
    IN  [source_domain_coverage |-> Covered(r), source_signatures |-> SourcesSigned(r),
         source_freshness_alignment |-> FreshAndAligned(r),
         topology_reference_integrity |-> ReferencesHold(r),
         switch_interlock_and_radiality |-> ReferencesHold(r) /\ state.coherent /\ state.radial /\ serving,
         bus_voltage_limits |-> serving
            /\ VoltagesIn(r, state.volts \cup {m.voltage : m \in Range(r.meters)}),
         feeder_transformer_loading |-> LoadingsIn(r, state) /\ state.fits,
         reactive_power_and_power_factor |-> PowerFactorIn(r, state) /\ state.fitsQ,
         harmonic_distortion |-> \A m \in Range(r.meters) : HarmonicsIn(r, m),
         transformer_thermal_aging |-> \A t \in Range(r.thermals) : ThermalIn(r, t, state),
         n_minus_one_resilience |-> \A o \in Range(r.outages) : OutagePassed(r, o),
         island_operation |-> \A i \in Range(r.islands) : IslandPassed(r, i),
         charging_queue_service |-> \A p \in Range(r.pools) : ChargingIn(r, p),
         storage_warranty |-> \A w \in Range(r.warranties) : WarrantyIn(w)]
Judged(state, gates) ==
    LET blockers == {g \in DOMAIN gates : ~gates[g]}
    IN  [passed |-> DOMAIN gates \ blockers, energised |-> state.energised, power |-> state.p,
         status |-> IF blockers \cap SourceGates # {} THEN "blocked"
                    ELSE IF blockers = {} THEN "assessment_ready" ELSE "infeasible"]
Report(r) == LET state == Normal(r) IN Judged(state, Gates(r, state))
-------------------------------------------------------------------------------
(* Edits by whoever prepares the package.                                    *)
EditedGrid(r) ==
    { [r EXCEPT !.buses[2].p = 10], [r EXCEPT !.buses[3].p = 90], [r EXCEPT !.buses[2].critical = 0],
      [r EXCEPT !.buses[3].q = 20], [r EXCEPT !.buses[1].required = TRUE], [r EXCEPT !.buses[3].id = 2],
      [r EXCEPT !.branches[1].r = 120], [r EXCEPT !.branches[2].rating = 30],
      [r EXCEPT !.branches[2].type = "line"], [r EXCEPT !.branches[3].switch = "s-new"],
      [r EXCEPT !.branches[3].to = 2], [r EXCEPT !.branches = ButLast(@)],
      [r EXCEPT !.switches[1].permissive = FALSE], [r EXCEPT !.switches[2].closed = FALSE],
      [r EXCEPT !.switches[3].closed = TRUE], [r EXCEPT !.switches[3].healthy = FALSE],
      [r EXCEPT !.switches[2].closed = FALSE, !.switches[3].closed = TRUE] }
EditedSupply(r) ==
    { [r EXCEPT !.sources[1].available = FALSE], [r EXCEPT !.sources[1].maxP = 40],
      [r EXCEPT !.sources[2].available = FALSE], [r EXCEPT !.sources[2].p = 30, !.sources[2].q = 5],
      [r EXCEPT !.sources[2].forming = FALSE], [r EXCEPT !.sources[2].blackStart = FALSE],
      [r EXCEPT !.sources[2].bus = 3, !.warranties[1].bus = 3], [r EXCEPT !.sources[2].type = "generator"],
      [r EXCEPT !.outages[1].branch = "pcc"], [r EXCEPT !.outages[1].ties = {}],
      [r EXCEPT !.outages[1].coverage = 50], [r EXCEPT !.islands[1].hours = 4],
      [r EXCEPT !.islands[1].pcc = {"s-tx"}], [r EXCEPT !.islands[1].pcc = {"s-pcc", "s-tx"}],
      [r EXCEPT !.policy.island = 30, !.islands[1].coverage = 30], [r EXCEPT !.policy.outage = 30] }
EditedMeters(r) ==
    { [r EXCEPT !.meters[1].voltage = 9000], [r EXCEPT !.meters[1].harmonics = <<50, 20>>],
      [r EXCEPT !.meters[2].thd = 60], [r EXCEPT !.meters[2].bus = 9], [r EXCEPT !.thermals[1].oil = 100],
      [r EXCEPT !.thermals[1].ambient = 60], [r EXCEPT !.pools[1].arrivals = 3], [r EXCEPT !.pools[1].available = 1],
      [r EXCEPT !.pools[1].service = 2], [r EXCEPT !.pools[1].arrivals = 0],
      [r EXCEPT !.warranties[1].daily = 295], [r EXCEPT !.warranties[1].soc = 30],
      [r EXCEPT !.warranties[1].p = -60], [r EXCEPT !.warranties[1].cycles = 600],
      [r EXCEPT !.warranties[1].reserve = 100], [r EXCEPT !.warranties[1].source = "grid"] }
EditedTerms(r) ==
    { [r EXCEPT !.policy.factor = 99], [r EXCEPT !.policy.age = 1], [r EXCEPT !.at = 4],
      [r EXCEPT !.attestations[1].live = FALSE], [r EXCEPT !.attestations[2].observed = 2],
      [r EXCEPT !.attestations[3].domain = r.attestations[4].domain] }
Edited(r) == EditedGrid(r) \cup EditedSupply(r) \cup EditedMeters(r) \cup EditedTerms(r)

Init == request = Package /\ report = DefaultReport /\ edits = 0 /\ vouched = [f \in {} |-> None]

Edit ==
    /\ edits < MaxEdits
    /\ \E r \in Edited(request) : r # request /\ Valid(r) /\ request' = r
    /\ edits' = edits + 1 /\ report' = DefaultReport
    /\ UNCHANGED vouched

(* Each source signs its domain, which the request has exactly once.         *)
Signed(r, domains, key) ==
    [r EXCEPT !.attestations = [i \in DOMAIN r.attestations |->
        LET a == r.attestations[i]
        IN  IF a.domain \notin domains THEN a
            ELSE [a EXCEPT !.key = key, !.over = <<a.domain, Payload(r, a.domain)>>]]]
Sign ==
    /\ Distinct(request.attestations, LAMBDA a : a.domain)
    /\ \E domains \in {Domains, {"scada_switchgear"}, {"single_line_topology"}}, key \in {"k1", "k2"} :
        LET fields == UNION {Owned(d) : d \in domains}
        IN  /\ request' = Signed(request, domains, key)
            /\ vouched' = [f \in fields \cup DOMAIN vouched |->
                                IF f \in fields THEN request[f] ELSE vouched[f]]
    /\ request' # request /\ report' = DefaultReport
    /\ UNCHANGED edits

Evaluate ==
    /\ report = DefaultReport
    /\ report' = Report(request)
    /\ UNCHANGED <<request, edits, vouched>>

Next == Edit \/ Sign \/ Evaluate
Spec == Init /\ [][Next]_vars
-------------------------------------------------------------------------------
(* The properties. *)

TypeOK ==
    /\ edits \in 0..MaxEdits
    /\ report.status # "blocked" => SourceGates \subseteq report.passed

(* The verdict is about the network the six systems reported: all of the     *)
(* request but the policy is as its owner had it when it signed.             *)
AssessedAsSigned ==
    report.status # "blocked" =>
        \A d \in Domains : \A f \in Owned(d) : f \in DOMAIN vouched /\ vouched[f] = request[f]

(* A request whose sources are signed again, live and in time, is judged: no *)
(* engineering gate is behind `blocked`.                                     *)
BlockedNeedsOnlySources ==
    report.status = "blocked" =>
        LET fresh == [request EXCEPT !.attestations =
                [i \in DOMAIN DomainSeq |-> [Attestation(DomainSeq[i]) EXCEPT !.observed = request.at]]]
        IN  Report(Signed(fresh, Domains, "k1")).status # "blocked"

(* Whether a bus is fed, judged by cuts: every set of buses around it that   *)
(* no closed branch leaves holds a root.                                     *)
Fed(r, branches, sources, bus) ==
    \A X \in SUBSET Ids(r.buses) :
        bus \in X /\ (\A b \in branches : (b.from \in X) = (b.to \in X)) =>
            \E s \in sources : s.bus \in X /\ (s.type = "grid" \/ s.forming)
Shut(r, open, shut) ==
    {b \in Range(r.branches) : b.switch \notin open
        /\ (b.switch \in shut \/ \E s \in Range(r.switches) : s.id = b.switch /\ s.closed)}
CriticalBuses(r) == {b.id : b \in {x \in Range(r.buses) : x.critical > 0}}

(* A network that is ready serves, judged without its search: the buses that *)
(* must be energised are fed now, the critical ones after each outage with   *)
(* the approved ties at most and without the grid as an island, as far as    *)
(* full coverage is asked for; what the roots deliver now is what the loads  *)
(* need beyond the local sources; and no ring is closed.                     *)
ReadyNetworkServes ==
    report.status = "assessment_ready" =>
        LET r == request
            now == Shut(r, {}, {})
            on == {s \in Range(r.sources) : s.available}
            own == {s \in on : s.type # "grid"}
        IN  /\ \A b \in Required(r) : Fed(r, now, on, b)
            /\ \A o \in Range(r.outages) : Max({o.coverage, r.policy.outage}) = 100 =>
                \E ties \in SUBSET o.ties : \A b \in CriticalBuses(r) :
                    Fed(r, {x \in Shut(r, {}, ties) : x.id # o.branch}, on, b)
            /\ \A i \in Range(r.islands) : Max({i.coverage, r.policy.island}) = 100 =>
                \A b \in CriticalBuses(r) : Fed(r, Shut(r, i.pcc, {}), own, b)
            /\ report.energised = Ids(r.buses) =>
                report.power >= SumOf(r.buses, LAMBDA b : b.p)
                    - SumOver(own, LAMBDA s : s.p)
            /\ \A b \in now : ~Fed(r, now \ {b}, {[bus |-> b.from, type |-> "grid"]}, b.to)

(* More chargers and fewer vehicles never make a waiting time worse.         *)
ChargersHelp ==
    "charging_queue_service" \in report.passed =>
        \A p \in Range(request.pools) :
            /\ ChargingIn(request, [p EXCEPT !.available = @ + 1])
            /\ p.arrivals > 0 => ChargingIn(request, [p EXCEPT !.arrivals = @ - 1])
===============================================================================
