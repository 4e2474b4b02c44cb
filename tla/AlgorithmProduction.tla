------------------------- MODULE AlgorithmProduction --------------------------
(* Whether a dispatch policy may be put up for release                       *)
(* (AlgorithmProductionQualificationService): six systems sign what they saw *)
(* of it (sign_algorithm_production_evidence.py), evaluate() judges it       *)
(* against the champion behind fifteen gates and promotes nothing.           *)
(*                                                                           *)
(* The schema's floors (12 pairs, 20 forecasts, four seasons, ...) are       *)
(* scaled to two or four of a kind; shares are per cent, times 10 ms, and a  *)
(* baseline metric is 100, so that a change is a whole per cent.             *)
EXTENDS Evidence

CONSTANTS Trusted, MaxEdits
VARIABLES request, report, edits, vouched
vars == <<request, report, edits, vouched>>

DomainSeq == <<"experiment_registry", "forecast_calibration", "runtime_monitoring",
               "execution_receipts", "fault_campaign", "human_review_log">>
Domains == Range(DomainSeq)
Seasons == {"summer", "winter"}
DefaultReport == [status |-> "blocked", passed |-> {}, p95 |-> 0, faults |-> {}, vetoes |-> 0]
-------------------------------------------------------------------------------
(* The package. *)
Attestation(d) == [domain |-> d, key |-> "none", observed |-> 8, live |-> TRUE, over |-> None]
Policy == [candidate |-> "new", baseline |-> "old", seeds |-> 2, pairs |-> 1, nominal |-> 80, lowCover |-> 60,
           highCover |-> 90, mae |-> 6, forecasts |-> 4, truePos |-> 100, falsePos |-> 50, ood |-> 2,
           explanations |-> 2, fidelity |-> 90, receipts |-> 2, tracking |-> 1, ack |-> 20, samples |-> 4,
           p95 |-> 100, p99 |-> 150, faults |-> {"stale_data", "communications_loss"}, recovery |-> 50,
           reviews |-> 2, reviewers |-> 2, hours |-> 8, decisions |-> 10, carbon |-> 0, cost |-> 0, peak |-> 0,
           throughput |-> 0, reserve |-> 0, age |-> 3, alignment |-> 1]
Artifact(role, id) == [role |-> role, policy |-> id, immutable |-> TRUE]
Metrics(value, teu) ==
    [carbon |-> value, cost |-> value, peak |-> value, teu |-> teu, violations |-> 0, breaches |-> 0]
Pair(id, seed, season) ==
    [id |-> id, seed |-> seed, season |-> season, split |-> "read_only_shadow", candidatePolicy |-> "new",
     baselinePolicy |-> "old", candidate |-> Metrics(90, 101), baseline |-> Metrics(100, 100)]
Forecast(id, actual) == [decision |-> id, lower |-> 90, median |-> 100, upper |-> 110, actual |-> actual]
Ood(expected) == [expected |-> expected, score |-> IF expected THEN 2 ELSE 0, threshold |-> 1, detected |-> expected,
                  fallback |-> expected, suppressed |-> expected]
Explanation(id) == [decision |-> id, complete |-> TRUE, fidelity |-> 96, beforeReview |-> TRUE]
Receipt(id) == [command |-> id, current |-> [kw |-> 0], projected |-> [kw |-> 5], acknowledged |-> [kw |-> 5],
                limits |-> [kw |-> [min |-> -9, max |-> 9, delta |-> 6]], ack |-> 12, interlocks |-> TRUE]
Latency(ms) == [parts |-> 13, total |-> ms, timedOut |-> FALSE, fallback |-> FALSE]
Fault(type) == [type |-> type, detected |-> TRUE, closed |-> TRUE, fallback |-> TRUE, unsafe |-> 0, recovery |-> 8]
Review(id, by, outcome) == [decision |-> id, requester |-> "operator", by |-> by, outcome |-> outcome]
Run(id, start, end) == [id |-> id, start |-> start, end |-> end, decisions |-> 20, live |-> TRUE]

Package ==
    [at |-> 9, policy |-> Policy,
     artifacts |-> <<Artifact("candidate", "new"), Artifact("baseline", "old")>>,
     pairs |-> <<Pair("a", 11, "summer"), Pair("b", 11, "winter"), Pair("c", 29, "summer"), Pair("d", 29, "winter")>>,
     shadow |-> <<Run("run", 0, 8)>>,
     forecasts |-> <<Forecast("f1", 100), Forecast("f2", 95), Forecast("f3", 105), Forecast("f4", 112)>>,
     ood |-> <<Ood(TRUE), Ood(TRUE), Ood(FALSE), Ood(FALSE)>>,
     explanations |-> <<Explanation("e1"), Explanation("e2")>>,
     latencies |-> <<Latency(20), Latency(30), Latency(40), Latency(90)>>,
     receipts |-> <<Receipt("c1"), Receipt("c2")>>,
     faults |-> <<Fault("stale_data"), Fault("communications_loss")>>,
     reviews |-> <<Review("d1", "rita", "approve"), Review("d2", "ron", "veto")>>,
     attestations |-> [i \in DOMAIN DomainSeq |-> Attestation(DomainSeq[i])]]

(* The validators of the request.                                            *)
Valid(r) ==
    /\ r.policy.lowCover <= r.policy.nominal /\ r.policy.nominal <= r.policy.highCover
    /\ r.policy.candidate # r.policy.baseline
    /\ \A f \in Range(r.forecasts) : f.lower <= f.median /\ f.median <= f.upper
    /\ \A x \in Range(r.receipts) : \A f \in DOMAIN x.limits : x.limits[f].min < x.limits[f].max
    /\ \A x \in Range(r.reviews) : x.requester # x.by
    /\ \A x \in Range(r.shadow) : x.start < x.end

(* source_domain_payload.                                                    *)
Owned(d) ==
    CASE d = "experiment_registry" -> {"artifacts", "pairs", "shadow"}
      [] d = "forecast_calibration" -> {"forecasts"}
      [] d = "runtime_monitoring" -> {"ood", "explanations", "latencies"}
      [] d = "execution_receipts" -> {"receipts"}
      [] d = "fault_campaign" -> {"faults"}
      [] d = "human_review_log" -> {"reviews"}
Payload(r, d) == [f \in Owned(d) |-> r[f]]
-------------------------------------------------------------------------------
Covered(r) == /\ Distinct(r.attestations, LAMBDA a : a.domain)
              /\ {a.domain : a \in Range(r.attestations)} = Domains
SignatureValid(r, a) == a.key \in Trusted /\ a.over = <<a.domain, Payload(r, a.domain)>>
SourceReady(r) ==
    /\ Covered(r)
    /\ \A a, b \in Range(r.attestations) :
        /\ SignatureValid(r, a)
        /\ a.live /\ 0 <= r.at - a.observed /\ r.at - a.observed <= r.policy.age
        /\ a.observed - b.observed <= r.policy.alignment

(* The comparison of candidate and baseline.                                 *)
OfRole(r, role) == LastWith(r.artifacts, LAMBDA a : a.role = role)
ProvenanceReady(r) ==
    /\ Len(r.artifacts) = 2 /\ OfRole(r, "candidate") # None /\ OfRole(r, "baseline") # None
    /\ OfRole(r, "candidate").policy = r.policy.candidate /\ OfRole(r, "candidate").immutable
    /\ OfRole(r, "baseline").policy = r.policy.baseline /\ OfRole(r, "baseline").immutable
    /\ Distinct(r.pairs, LAMBDA p : p.id)
    /\ \A p \in Range(r.pairs) :
        p.candidatePolicy = r.policy.candidate /\ p.baselinePolicy = r.policy.baseline
Seeds(r) == {p.seed : p \in Range(r.pairs)}
SeedsReady(r) == /\ Cardinality(Seeds(r)) >= r.policy.seeds
                 /\ \A p \in Range(r.pairs) : p.split \in {"test", "read_only_shadow"}
SeasonsReady(r) ==
    /\ {p.season : p \in Range(r.pairs)} = Seasons
    /\ \A seed \in Seeds(r), season \in Seasons :
        Len(SelectSeq(r.pairs, LAMBDA p : p.seed = seed /\ p.season = season)) >= r.policy.pairs
    /\ Cardinality(Seeds(r)) >= r.policy.seeds

(* _improvement, _throughput_change.                                         *)
Change(actual, base) == (100 * (actual - base)) \div base
(* _paired_bootstrap_interval: the 2.5 % quantile of 4000 resampled means is *)
(* somewhere between the least change and the mean.                          *)
CiLow(changes, lucky) ==
    IF lucky THEN SumFunction(changes) \div Len(changes) ELSE Min(Range(changes))
Lower(r, metric, lucky) ==
    CiLow([i \in DOMAIN r.pairs |->
            LET p == r.pairs[i] IN -Change(p.candidate[metric], p.baseline[metric])], lucky)
ComparisonReady(r, lucky) ==
    /\ ProvenanceReady(r) /\ SeasonsReady(r)
    /\ Lower(r, "carbon", lucky) >= r.policy.carbon
    /\ Lower(r, "cost", lucky) >= -r.policy.cost
    /\ Lower(r, "peak", lucky) >= -r.policy.peak
    /\ CiLow([i \in DOMAIN r.pairs |-> Change(r.pairs[i].candidate.teu, r.pairs[i].baseline.teu)], lucky)
            >= -r.policy.throughput
SafetyReady(r) ==
    \A p \in Range(r.pairs) :
        /\ p.candidate.violations <= p.baseline.violations
        /\ IF p.baseline.breaches = 0 THEN p.candidate.breaches = 0
           ELSE Change(p.candidate.breaches, p.baseline.breaches) <= r.policy.reserve
-------------------------------------------------------------------------------
(* What was seen at run time. *)

ForecastReady(r) ==
    LET n == Len(r.forecasts)
        covered == Len(SelectSeq(r.forecasts, LAMBDA f : f.lower <= f.actual /\ f.actual <= f.upper))
    IN  /\ n >= r.policy.forecasts
        /\ r.policy.lowCover * n <= 100 * covered /\ 100 * covered <= r.policy.highCover * n
        /\ SumOf(r.forecasts, LAMBDA f : Abs(f.actual - f.median)) <= r.policy.mae * n
        /\ Distinct(r.forecasts, LAMBDA f : f.decision)

OodReady(r) ==
    LET out == SelectSeq(r.ood, LAMBDA x : x.expected)
        in == SelectSeq(r.ood, LAMBDA x : ~x.expected)
        seen(s) == SelectSeq(s, LAMBDA x : x.detected)
    IN  /\ Len(out) >= r.policy.ood /\ Len(in) >= r.policy.ood
        /\ 100 * Len(seen(out)) >= r.policy.truePos * Len(out)
        /\ 100 * Len(seen(in)) <= r.policy.falsePos * Len(in)
        /\ seen(out) # <<>>
        /\ \A x \in Range(seen(out)) : x.fallback /\ x.suppressed
        /\ \A x \in Range(r.ood) : x.detected = (x.score >= x.threshold)

ExplanationReady(r) ==
    /\ Len(r.explanations) >= r.policy.explanations
    /\ Distinct(r.explanations, LAMBDA x : x.decision)
    /\ \A x \in Range(r.explanations) : x.complete /\ x.beforeReview
    /\ SumOf(r.explanations, LAMBDA x : x.fidelity) >= r.policy.fidelity * Len(r.explanations)

Coherent(x) == \A action \in {x.current, x.projected, x.acknowledged} : DOMAIN action = DOMAIN x.limits
Reached(r, x) ==
    /\ Coherent(x)
    /\ \A f \in DOMAIN x.limits :
        /\ x.limits[f].min <= x.projected[f] /\ x.projected[f] <= x.limits[f].max
        /\ Abs(x.projected[f] - x.current[f]) <= x.limits[f].delta
        /\ Abs(x.acknowledged[f] - x.projected[f]) <= r.policy.tracking
    /\ x.ack <= r.policy.ack /\ x.interlocks
ActionReady(r) ==
    /\ Len(r.receipts) >= r.policy.receipts /\ Distinct(r.receipts, LAMBDA x : x.command)
    /\ \A x \in Range(r.receipts) : Reached(r, x)

(* _percentile: the value at ceil(p * n) in order.                           *)
Ceiling(a, b) == (a + b - 1) \div b
Percentile(values, p) ==
    LET n == Len(values) IN SortSeq(values, <)[Max({1, Min({n, Ceiling(p * n, 100)})})]
Times(r) == [i \in DOMAIN r.latencies |-> r.latencies[i].total]
LatencyReady(r) ==
    /\ Len(r.latencies) >= r.policy.samples
    /\ Percentile(Times(r), 95) <= r.policy.p95 /\ Percentile(Times(r), 99) <= r.policy.p99
    /\ \A x \in Range(r.latencies) : (x.timedOut => x.fallback) /\ x.parts <= x.total

PassedFaults(r) ==
    {type \in r.policy.faults : \E x \in Range(r.faults) :
        /\ x.type = type /\ x.detected /\ x.closed /\ x.fallback /\ x.unsafe = 0
        /\ x.recovery <= r.policy.recovery}
FaultsReady(r) == r.policy.faults \subseteq PassedFaults(r)
Vetoes(r) == Len(SelectSeq(r.reviews, LAMBDA x : x.outcome \in {"reject", "veto"}))
ReviewsReady(r) ==
    /\ Len(r.reviews) >= r.policy.reviews
    /\ Cardinality({x.by : x \in Range(r.reviews)}) >= r.policy.reviewers
    /\ Distinct(r.reviews, LAMBDA x : x.decision)
ShadowReady(r) ==
    /\ SumOf(r.shadow, LAMBDA x : x.end - x.start) >= r.policy.hours
    /\ SumOf(r.shadow, LAMBDA x : x.decisions) >= r.policy.decisions
    /\ \A x \in Range(r.shadow) : x.live
    /\ Distinct(r.shadow, LAMBDA x : x.id)
-------------------------------------------------------------------------------
SourceGates == {"source_domain_coverage", "source_trust_and_time"}
Gates(r, lucky) ==
    [source_domain_coverage |-> Covered(r), source_trust_and_time |-> SourceReady(r),
     immutable_provenance |-> ProvenanceReady(r), multi_seed_validation |-> SeedsReady(r),
     cross_season_validation |-> SeasonsReady(r), probabilistic_calibration |-> ForecastReady(r),
     ood_detection_fallback |-> OodReady(r), policy_explainability |-> ExplanationReady(r),
     action_reachability |-> ActionReady(r), realtime_latency |-> LatencyReady(r),
     fault_injection |-> FaultsReady(r), human_veto_statistics |-> ReviewsReady(r),
     champion_challenger |-> ComparisonReady(r, lucky), safety_non_regression |-> SafetyReady(r),
     shadow_duration |-> ShadowReady(r)]
Report(r, lucky) ==
    LET gates == Gates(r, lucky)
        passed == {g \in DOMAIN gates : gates[g]}
    IN  [status |-> IF ~SourceReady(r) THEN "blocked"
                    ELSE IF passed = DOMAIN gates THEN "qualification_ready" ELSE "not_qualified",
         passed |-> passed, p95 |-> Percentile(Times(r), 95), faults |-> PassedFaults(r), vetoes |-> Vetoes(r)]
-------------------------------------------------------------------------------
(* Edits of a package before it is posted, by whoever prepares it.           *)
EditedTrials(r) ==
    { [r EXCEPT !.artifacts[1].immutable = FALSE], [r EXCEPT !.artifacts[2].policy = "older"],
      [r EXCEPT !.artifacts[2].role = "candidate"], [r EXCEPT !.pairs[2].id = "a"],
      [r EXCEPT !.pairs[1].candidatePolicy = "other"], [r EXCEPT !.pairs[3].seed = 11],
      [r EXCEPT !.pairs[3].seed = 47], [r EXCEPT !.pairs[2].season = "summer"],
      [r EXCEPT !.pairs[1].candidate = Metrics(98, 100)], [r EXCEPT !.pairs[1].candidate.carbon = 105],
      [r EXCEPT !.pairs[1].candidate.peak = 150], [r EXCEPT !.pairs[1].candidate.teu = 90],
      [r EXCEPT !.pairs[1].candidate.violations = 1], [r EXCEPT !.pairs[1].candidate.breaches = 1],
      [r EXCEPT !.pairs[1].candidate.breaches = 2, !.pairs[1].baseline.breaches = 2],
      [r EXCEPT !.pairs[1].candidate.breaches = 3, !.pairs[1].baseline.breaches = 2],
      [r EXCEPT !.policy.peak = 10, !.pairs[1].candidate.peak = 105],
      [r EXCEPT !.policy.carbon = 10],
      [r EXCEPT !.shadow[1].end = 7], [r EXCEPT !.shadow = <<Run("run", 0, 4), Run("two", 4, 8)>>],
      [r EXCEPT !.shadow = Append(@, Run("run", 8, 9))], [r EXCEPT !.shadow[1].live = FALSE] }
EditedRuntime(r) ==
    { [r EXCEPT !.forecasts[1].actual = 80], [r EXCEPT !.forecasts[4].actual = 110],
      [r EXCEPT !.forecasts[4].actual = 124], [r EXCEPT !.forecasts[2].decision = "f1"],
      [r EXCEPT !.ood[1].detected = FALSE], [r EXCEPT !.ood[1].score = 0, !.ood[1].detected = FALSE],
      [r EXCEPT !.ood[1].suppressed = FALSE], [r EXCEPT !.ood[3].score = 1, !.ood[3].detected = TRUE],
      [r EXCEPT !.explanations[1].fidelity = 80], [r EXCEPT !.explanations[1].beforeReview = FALSE],
      [r EXCEPT !.receipts[1].projected.kw = 7], [r EXCEPT !.receipts[1].acknowledged.kw = 6],
      [r EXCEPT !.receipts[1].acknowledged.kw = 8], [r EXCEPT !.receipts[1].current.kw = -2],
      [r EXCEPT !.receipts[1].acknowledged = [kvar |-> 5]], [r EXCEPT !.receipts[2].command = "c1"],
      [r EXCEPT !.receipts[1].ack = 30], [r EXCEPT !.receipts[2].interlocks = FALSE],
      [r EXCEPT !.latencies[4].total = 120], [r EXCEPT !.latencies[1].total = 160],
      [r EXCEPT !.latencies[2].timedOut = TRUE], [r EXCEPT !.latencies[1].total = 10],
      [r EXCEPT !.latencies[2].timedOut = TRUE, !.latencies[2].fallback = TRUE] }
EditedOversight(r) ==
    { [r EXCEPT !.faults[1].detected = FALSE], [r EXCEPT !.faults[1].unsafe = 1],
      [r EXCEPT !.faults = Append(@, [Fault("stale_data") EXCEPT !.unsafe = 1])],
      [r EXCEPT !.faults[2].type = "stale_data"], [r EXCEPT !.faults[2].recovery = 60],
      [r EXCEPT !.reviews[2].by = "rita"], [r EXCEPT !.reviews[2].by = "operator"],
      [r EXCEPT !.reviews[2].decision = "d1"], [r EXCEPT !.reviews[2].outcome = "modify"],
      [r EXCEPT !.policy.baseline = "older", !.artifacts[2].policy = "older"], [r EXCEPT !.policy.age = 1],
      [r EXCEPT !.attestations[1].live = FALSE], [r EXCEPT !.attestations[2].observed = 6],
      [r EXCEPT !.attestations[3].domain = r.attestations[4].domain], [r EXCEPT !.at = 12] }
Edited(r) == EditedTrials(r) \cup EditedRuntime(r) \cup EditedOversight(r)

Init == request = Package /\ report = DefaultReport /\ edits = 0 /\ vouched = [f \in {} |-> None]

Edit ==
    /\ edits < MaxEdits
    /\ \E r \in Edited(request) : r # request /\ Valid(r) /\ request' = r
    /\ edits' = edits + 1 /\ report' = DefaultReport
    /\ UNCHANGED vouched

(* A source signs its own domain, which the request has exactly once.        *)
Signed(r, domains, key) ==
    [r EXCEPT !.attestations = [i \in DOMAIN r.attestations |->
        LET a == r.attestations[i]
        IN  IF a.domain \notin domains THEN a
            ELSE [a EXCEPT !.key = key, !.over = <<a.domain, Payload(r, a.domain)>>]]]
Sign ==
    /\ Distinct(request.attestations, LAMBDA a : a.domain)
    /\ \E domains \in {Domains, {"experiment_registry"}, {"execution_receipts"}}, key \in {"k1", "k2"} :
        LET fields == UNION {Owned(d) : d \in domains}
        IN  /\ request' = Signed(request, domains, key)
            /\ vouched' = [f \in fields \cup DOMAIN vouched |->
                                IF f \in fields THEN request[f] ELSE vouched[f]]
    /\ request' # request /\ report' = DefaultReport
    /\ UNCHANGED edits

Evaluate ==
    /\ report = DefaultReport
    /\ \E lucky \in BOOLEAN : report' = Report(request, lucky)
    /\ UNCHANGED <<request, edits, vouched>>

Next == Edit \/ Sign \/ Evaluate
Spec == Init /\ [][Next]_vars
-------------------------------------------------------------------------------
(* The properties. *)

TypeOK ==
    /\ edits \in 0..MaxEdits
    /\ report.status # "blocked" => SourceGates \subseteq report.passed

(* The verdict is about what the six systems reported: all of the request    *)
(* but the policy is as its owner had it when it signed.                     *)
QualifiedAsSigned ==
    report.status # "blocked" =>
        \A d \in Domains : \A f \in Owned(d) : f \in DOMAIN vouched /\ vouched[f] = request[f]

(* A request whose sources are signed again, live and in time, is judged: no *)
(* finding about the policy is hidden behind `blocked`.                      *)
BlockedNeedsOnlySources ==
    report.status = "blocked" =>
        LET fresh == [request EXCEPT !.attestations =
                [i \in DOMAIN DomainSeq |-> [Attestation(DomainSeq[i]) EXCEPT !.observed = request.at]]]
        IN  Report(Signed(fresh, Domains, "k1"), FALSE).status # "blocked"

(* A policy put up for release kept its promises, whatever the resampling    *)
(* made of the trials: on the sum of the pairs it was no worse than allowed  *)
(* in any metric and in no pair less safe, what the gateway acknowledged was *)
(* near the envelope and near the last action, and 95 of 100 answers, and 99 *)
(* of 100, came in the time promised for them.                               *)
QualifiedKeptPromises ==
    report.status = "qualification_ready" =>
        LET r == request
            total(side, metric) == SumOf(r.pairs, LAMBDA p : p[side][metric])
            within(limit) == Len(SelectSeq(r.latencies, LAMBDA x : x.total <= limit))
        IN  /\ 100 * total("candidate", "carbon") <= (100 - r.policy.carbon) * total("baseline", "carbon")
            /\ \A metric \in {"cost", "peak"} :
                100 * total("candidate", metric) <= (100 + r.policy[metric]) * total("baseline", metric)
            /\ 100 * total("candidate", "teu") >= (100 - r.policy.throughput) * total("baseline", "teu")
            /\ \A p \in Range(r.pairs) : p.candidate.violations <= p.baseline.violations
            /\ \A x \in Range(r.receipts) : \A f \in DOMAIN x.acknowledged :
                /\ x.limits[f].min - r.policy.tracking <= x.acknowledged[f]
                /\ x.acknowledged[f] <= x.limits[f].max + r.policy.tracking
                /\ Abs(x.acknowledged[f] - x.current[f]) <= x.limits[f].delta + r.policy.tracking
            /\ 100 * within(r.policy.p95) >= 95 * Len(r.latencies)
            /\ 100 * within(r.policy.p99) >= 99 * Len(r.latencies)
===============================================================================
