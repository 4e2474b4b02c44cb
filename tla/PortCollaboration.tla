--------------------------- MODULE PortCollaboration ---------------------------
(* A green-corridor package of ship and port: arrivals just in time, berth   *)
(* milestones and priorities, shore power, alternative fuel, port fees and   *)
(* the sharing of the emission benefit.  Seven source domains sign their own *)
(* part (sign_port_collaboration_evidence.py) and the service recomputes     *)
(* everything (PortCollaborationService.evaluate).  Times are hours; money,  *)
(* energy and tonnes are integers.                                           *)
EXTENDS Evidence

CONSTANTS Trusted, MaxEdits     \* trusted key ids; bound on edits
VARIABLES request, report, edits, vouched
vars == <<request, report, edits, vouched>>

DomainSeq == <<"vessel_operator_plan", "port_call_platform", "terminal_berth_operations",
               "shore_power_operator", "alternative_fuel_facility", "port_tariff_authority",
               "corridor_governance_ledger">>
Domains == Range(DomainSeq)
DefaultReport == [status |-> "blocked", passed |-> {}, verified |-> None]
-------------------------------------------------------------------------------
(* The package. *)
Call(id) == [call |-> id, imo |-> id, port |-> "port", advice |-> 2, agreed |-> 10, actual |-> 10,
             distance |-> 80, speed |-> 10, baseSpeed |-> 12, baseFuel |-> 10, fuel |-> 8,
             accepted |-> TRUE]
Milestone(id) == [call |-> id, berth |-> "b1", ready |-> 9, from |-> 10, to |-> 14, fast |-> 11,
                  start |-> 12, end |-> 20, departure |-> 22]
Assignment(id) == [call |-> id, berth |-> "b1", jit |-> TRUE, shore |-> TRUE, fuel |-> TRUE,
                   score |-> 100, rank |-> 1, cohort |-> "c", approved |-> TRUE]
Shore(id) == [call |-> id, berth |-> "b1", start |-> 12, end |-> 20, vessel |-> TRUE,
              compatible |-> TRUE, reserved |-> 10, capacity |-> 12, energy |-> 80, rate |-> 2,
              fee |-> 5, amount |-> 165, status |-> "paid"]
Fuel(id) == [call |-> id, type |-> "methanol", quantity |-> 4, inventory |-> 5, rate |-> 2,
             hours |-> 3, permit |-> 60, safe |-> TRUE, status |-> "served"]
Fee(id) == [call |-> id, base |-> 100, discount |-> 7, payable |-> 93, status |-> "paid"]
Claim(id, category, t) == [id |-> <<id, category>>, call |-> id, category |-> category,
                           tonnes |-> t, status |-> "independently_verified"]
Sharing(id) == [call |-> id, tonnes |-> 4, value |-> 10, total |-> 40, port |-> 24,
                operator |-> 16, status |-> "settled"]
Policy == [port |-> "port", start |-> 0, end |-> 40, deviation |-> 1, lead |-> 6, variance |-> 1,
           age |-> 5, alignment |-> 2, factor |-> 1000, points |-> <<30, 40, 30>>,
           discounts |-> <<2, 3, 2>>, maxDiscount |-> 7, portShare |-> 60, operatorShare |-> 40,
           fuels |-> {"methanol"}]
Attestation(d) == [domain |-> d, key |-> "none", observed |-> 48, live |-> TRUE, over |-> None]

Package ==
    LET ids == <<"x", "y">>
        each(Of(_)) == [i \in DOMAIN ids |-> Of(ids[i])]
    IN  [at |-> 50, policy |-> Policy, calls |-> each(Call), milestones |-> each(Milestone),
         berths |-> each(Assignment), shore |-> each(Shore), fuel |-> each(Fuel), fees |-> each(Fee),
         claims |-> each(LAMBDA c : Claim(c, "jit_arrival", 2)) \o each(LAMBDA c : Claim(c, "shore_power", 1))
                    \o each(LAMBDA c : Claim(c, "alternative_fuel", 1)),
         sharing |-> each(Sharing),
         approvals |-> <<[role |-> "port_authority", by |-> "pia", decision |-> "approved", charter |-> "c1"],
                         [role |-> "vessel_operator", by |-> "vic", decision |-> "approved", charter |-> "c1"]>>,
         attestations |-> [i \in DOMAIN DomainSeq |-> Attestation(DomainSeq[i])]]

(* The validators of the request.                                            *)
Valid(r) ==
    /\ r.policy.start < r.policy.end
    /\ r.policy.portShare + r.policy.operatorShare = 100
    /\ r.policy.maxDiscount <= SumFunction(r.policy.discounts)
    /\ \A s \in Range(r.shore) : s.start < s.end
    /\ Len(r.approvals) >= 2 /\ r.attestations # <<>>

(* source_domain_payload: what each domain signs.                            *)
MutantPayload(r, d) ==        \* the ledger does not cover the sharing
    CASE d = "vessel_operator_plan" -> r.calls
      [] d = "port_call_platform" -> r.milestones
      [] d = "terminal_berth_operations" -> r.berths
      [] d = "shore_power_operator" -> r.shore
      [] d = "alternative_fuel_facility" -> r.fuel
      [] d = "port_tariff_authority" -> r.fees
      [] d = "corridor_governance_ledger" -> <<r.policy, r.claims, r.approvals>>
Payload(r, d) ==
    CASE d = "vessel_operator_plan" -> r.calls
      [] d = "port_call_platform" -> r.milestones
      [] d = "terminal_berth_operations" -> r.berths
      [] d = "shore_power_operator" -> r.shore
      [] d = "alternative_fuel_facility" -> r.fuel
      [] d = "port_tariff_authority" -> r.fees
      [] d = "corridor_governance_ledger" -> <<r.policy, r.claims, r.sharing, r.approvals>>
-------------------------------------------------------------------------------
(* evaluate(): one operator per gate. *)

Covered(r) == /\ {a.domain : a \in Range(r.attestations)} = Domains
              /\ Len(r.attestations) = Cardinality(Domains)
SignatureHolds(r, a) == a.key \in Trusted /\ a.over = <<a.domain, Payload(r, a.domain)>>
SourcesSigned(r) == Covered(r) /\ \A a \in Range(r.attestations) : SignatureHolds(r, a)
TimeLive(r) ==
    \A a, b \in Range(r.attestations) :
        /\ 0 <= r.at - a.observed /\ r.at - a.observed <= r.policy.age /\ a.live
        /\ a.observed - b.observed <= r.policy.alignment

Chartered(r) == /\ r.policy.start < r.policy.end /\ r.policy.fuels # {}
                /\ r.policy.portShare + r.policy.operatorShare = 100
Ids(s) == {x.call : x \in Range(s)}
Linked(r) ==
    /\ Distinct(r.calls, LAMBDA c : c.call) /\ Distinct(r.calls, LAMBDA c : c.imo)
    /\ \A s \in {r.milestones, r.berths, r.shore, r.fuel, r.fees, r.sharing} : Ids(s) = Ids(r.calls)
    /\ \A c \in Range(r.calls) : c.port = r.policy.port

Lead(c) == c.agreed - c.advice
(* Tonnes of CO2e saved by one call on its way.                              *)
Reduction(r, c) == ((c.baseFuel - c.fuel) * r.policy.factor) \div 1000
ConsentGiven(r) == \A c \in Range(r.calls) : c.accepted /\ c.advice < c.agreed /\ Lead(c) >= r.policy.lead
ArrivedInTime(r) ==
    \A c \in Range(r.calls) :
        /\ Abs(c.actual - c.agreed) <= r.policy.deviation
        /\ c.speed <= c.baseSpeed /\ c.fuel <= c.baseFuel
        /\ Abs(c.distance - c.speed * Lead(c)) <= c.speed * r.policy.deviation

MilestonesHold(r) ==
    /\ Linked(r)
    /\ \A c \in Range(r.calls) :
        LET m == Row(r.milestones, c.call)
            b == Row(r.berths, c.call)
        IN  /\ m.berth = b.berth /\ r.policy.start <= m.ready /\ m.departure <= r.policy.end
            /\ m.ready <= c.agreed /\ c.actual <= m.fast
            /\ m.from <= m.fast /\ m.fast <= m.to
            /\ m.fast <= m.start /\ m.start <= m.end /\ m.end <= m.departure

Points(flags, weights) == SumFunction([i \in 1..3 |-> IF flags[i] THEN weights[i] ELSE 0])
Flags(b) == <<b.jit, b.shore, b.fuel>>
Score(r, b) == Points(Flags(b), r.policy.points)
MutantRank(r, b) == Cardinality({i \in DOMAIN r.berths :
    r.berths[i].cohort = b.cohort /\ Score(r, r.berths[i]) >= Score(r, b)})
Rank(r, b) == 1 + Cardinality({i \in DOMAIN r.berths :
    r.berths[i].cohort = b.cohort /\ Score(r, r.berths[i]) > Score(r, b)})
GreenBerths(r) ==
    /\ Linked(r)
    /\ \A b \in Range(r.berths) :
        LET c == Row(r.calls, b.call)
            s == Row(r.shore, b.call)
            f == Row(r.fuel, b.call)
        IN  /\ b.approved /\ b.jit = c.accepted /\ b.shore = (s.vessel /\ s.compatible)
            /\ b.fuel = (f.status \in {"ready", "served"})
            /\ b.score = Score(r, b) /\ b.rank = Rank(r, b)

ShoreReserved(r) ==
    /\ Linked(r)
    /\ \A s \in Range(r.shore) :
        LET m == Row(r.milestones, s.call)
        IN  /\ s.berth = m.berth /\ s.vessel /\ s.compatible /\ s.reserved <= s.capacity
            /\ m.fast <= s.start /\ s.end <= m.departure
            /\ 100 * s.energy <= 105 * s.reserved * (s.end - s.start)
ShoreBilled(r) ==
    Linked(r) /\ \A s \in Range(r.shore) :
        s.status \in {"settled", "paid"} /\ Close(s.amount, s.energy * s.rate + s.fee, r.policy.variance)
FuelServed(r) ==
    Linked(r) /\ \A f \in Range(r.fuel) :
        /\ f.type \in r.policy.fuels /\ f.quantity <= f.inventory /\ f.quantity <= f.rate * f.hours
        /\ f.permit >= r.at /\ f.safe /\ f.status = "served"
Discount(r, call) == Min({Points(Flags(Row(r.berths, call)), r.policy.discounts), r.policy.maxDiscount})
FeesPaid(r) ==
    Linked(r) /\ \A f \in Range(r.fees) :
        /\ f.discount = Discount(r, f.call) /\ f.status = "paid"
        /\ Close(100 * f.payable, f.base * (100 - Discount(r, f.call)), r.policy.variance)

Claims(r, call) == SelectSeq(r.claims, LAMBDA x : x.call = call)
Claimed(r, call) == SumOf(Claims(r, call), LAMBDA x : x.tonnes)
MutantBenefitsShared(r) ==         \* the claim is not compared with the voyage
    /\ Distinct(r.claims, LAMBDA x : x.id)
    /\ \A x \in Range(r.claims) : x.call \in Ids(r.calls) /\ x.status = "independently_verified"
    /\ \A c \in Range(r.calls) :
        LET own == Claims(r, c.call)
            s == FirstWith(r.sharing, LAMBDA x : x.call = c.call)
            jit == FirstWith(own, LAMBDA x : x.category = "jit_arrival")
            v == r.policy.variance
            value == Claimed(r, c.call) * s.value
        IN  /\ s # None /\ jit # None
            /\ {x.category : x \in Range(own)} = {"jit_arrival", "shore_power", "alternative_fuel"}
            /\ Distinct(own, LAMBDA x : x.category)
            /\ Close(s.tonnes, Claimed(r, c.call), v)
            /\ Close(s.total, value, v)
            /\ Close(100 * s.port, value * r.policy.portShare, v)
            /\ Close(100 * s.operator, value * r.policy.operatorShare, v)
            /\ Close(s.total, s.port + s.operator, v) /\ s.status = "settled"
BenefitsShared(r) ==
    /\ Distinct(r.claims, LAMBDA x : x.id)
    /\ \A x \in Range(r.claims) : x.call \in Ids(r.calls) /\ x.status = "independently_verified"
    /\ \A c \in Range(r.calls) :
        LET own == Claims(r, c.call)
            s == FirstWith(r.sharing, LAMBDA x : x.call = c.call)
            jit == FirstWith(own, LAMBDA x : x.category = "jit_arrival")
            v == r.policy.variance
            value == Claimed(r, c.call) * s.value
        IN  /\ s # None /\ jit # None
            /\ {x.category : x \in Range(own)} = {"jit_arrival", "shore_power", "alternative_fuel"}
            /\ Distinct(own, LAMBDA x : x.category)
            /\ Close(jit.tonnes, Reduction(r, c), v) /\ Close(s.tonnes, Claimed(r, c.call), v)
            /\ Close(s.total, value, v)
            /\ Close(100 * s.port, value * r.policy.portShare, v)
            /\ Close(100 * s.operator, value * r.policy.operatorShare, v)
            /\ Close(s.total, s.port + s.operator, v) /\ s.status = "settled"

DualApproval(r) ==
    /\ Len(r.approvals) = 2 /\ Distinct(r.approvals, LAMBDA a : a.by)
    /\ {a.role : a \in {x \in Range(r.approvals) : x.decision = "approved"}}
         = {"port_authority", "vessel_operator"}
    /\ \A a \in Range(r.approvals) : a.charter = "c1"

SourceGates == {"source_domain_coverage", "source_signatures", "source_time_and_live"}
Gates(r) ==
    [source_domain_coverage |-> Covered(r), source_signatures |-> SourcesSigned(r),
     source_time_and_live |-> TimeLive(r), corridor_charter |-> Chartered(r),
     call_identity_and_linkage |-> Linked(r),
     jit_consent_and_notice |-> ConsentGiven(r), jit_arrival_and_fuel |-> ArrivedInTime(r),
     berth_milestones |-> MilestonesHold(r), green_berth_priority |-> GreenBerths(r),
     shore_power_reservation |-> ShoreReserved(r), shore_power_meter_billing |-> ShoreBilled(r),
     alternative_fuel_readiness |-> FuelServed(r), port_fee_incentive |-> FeesPaid(r),
     benefit_sharing |-> BenefitsShared(r), dual_approval_audit |-> DualApproval(r)]

Pending(blockers) == blockers \subseteq SourceGates
Report(r) ==
    LET gates == Gates(r)
        blockers == {g \in DOMAIN gates : ~gates[g]}
    IN  [passed |-> DOMAIN gates \ blockers,
         status |-> IF blockers = {} THEN "evidence_package_passed"
                    ELSE IF Pending(blockers) THEN "reconciled_pending_source_attestation"
                    ELSE "blocked",
         verified |-> IF blockers # {} THEN None
                      ELSE [energy |-> SumOf(r.shore, LAMBDA s : s.energy),
                            benefit |-> SumOf(r.sharing, LAMBDA s : s.total),
                            port |-> SumOf(r.sharing, LAMBDA s : s.port),
                            operator |-> SumOf(r.sharing, LAMBDA s : s.operator)]]
-------------------------------------------------------------------------------
(* Edits by whoever prepares the package.                                    *)
EditedShip(r) ==
    { [r EXCEPT !.calls[1].actual = 12], [r EXCEPT !.calls[1].agreed = 11], [r EXCEPT !.calls[1].fuel = 7],
      [r EXCEPT !.calls[1].advice = 5], [r EXCEPT !.calls[1].speed = 13], [r EXCEPT !.calls[1].imo = "y"],
      [r EXCEPT !.milestones[1].fast = 15], [r EXCEPT !.milestones[1].departure = 18],
      [r EXCEPT !.milestones[1].start = 10], [r EXCEPT !.milestones[1].berth = "b2"],
      [r EXCEPT !.milestones = Tail(@)], [r EXCEPT !.fuel[1].quantity = 6],
      [r EXCEPT !.fuel[1].inventory = 7], [r EXCEPT !.fuel[1].permit = 45],
      [r EXCEPT !.fuel[1].status = "pending"],
      [r EXCEPT !.calls[2].accepted = FALSE, !.berths[2].jit = FALSE, !.berths[2].score = 70] }
EditedPort(r) ==
    { [r EXCEPT !.berths[1].rank = 2], [r EXCEPT !.berths[2].rank = 2], [r EXCEPT !.berths[1].score = 70],
      [r EXCEPT !.shore[1].end = 24], [r EXCEPT !.shore[1].energy = 90, !.shore[1].amount = 185],
      [r EXCEPT !.shore[1].reserved = 13],
      [r EXCEPT !.shore[1] = [@ EXCEPT !.reserved = 20, !.energy = 160, !.amount = 325]], [r EXCEPT !.shore[1].amount = 160],
      [r EXCEPT !.shore[1].start = 11], [r EXCEPT !.fees[1].payable = 90], [r EXCEPT !.fees[1].discount = 5],
      [r EXCEPT !.policy.maxDiscount = 6], [r EXCEPT !.policy.alignment = 0], [r EXCEPT !.at = 54] }
EditedLedger(r) ==
    { [r EXCEPT !.claims[1].tonnes = 1], [r EXCEPT !.claims[1].category = "shore_power"],
      [r EXCEPT !.claims[1].status = "calculated_only"], [r EXCEPT !.claims = Append(@, r.claims[1])],
      [r EXCEPT !.sharing[1].port = 25], [r EXCEPT !.sharing[1].port = 25, !.sharing[1].operator = 15],
      [r EXCEPT !.sharing[1].value = 20], [r EXCEPT !.sharing[1].status = "pending"],
      [r EXCEPT !.sharing[1] = [@ EXCEPT !.value = 20, !.total = 80, !.port = 48, !.operator = 32]],
      [r EXCEPT !.sharing = Append(@, r.sharing[1])],
      [r EXCEPT !.approvals[1].by = "vic"], [r EXCEPT !.approvals[1].decision = "rejected"],
      [r EXCEPT !.approvals[1].role = "vessel_operator"] }
EditedSources(r) ==
    { [r EXCEPT !.attestations[1].live = FALSE], [r EXCEPT !.attestations[1].observed = 45],
      [r EXCEPT !.attestations = Tail(@)], [r EXCEPT !.attestations = Append(@, r.attestations[1])] }
Edited(r) == EditedShip(r) \cup EditedPort(r) \cup EditedLedger(r) \cup EditedSources(r)

Init == request = Package /\ report = DefaultReport /\ edits = 0 /\ vouched = None

(* Attestations are a list that the schema does not let be empty.            *)
Edit ==
    /\ edits < MaxEdits
    /\ \E r \in Edited(request) : r # request /\ r.attestations # <<>> /\ request' = r
    /\ edits' = edits + 1 /\ report' = DefaultReport
    /\ UNCHANGED vouched

(* The signing tool takes a package with every domain once, and a key for    *)
(* each; one of the keys may be unknown to the service.                      *)
Signed(r, odd) ==
    [r EXCEPT !.attestations = [i \in DOMAIN r.attestations |->
        LET a == r.attestations[i]
        IN  [a EXCEPT !.key = IF a.domain = odd THEN "k2" ELSE "k1", !.over = <<a.domain, Payload(r, a.domain)>>]]]
Content(r) == [r EXCEPT !.at = 0, !.attestations = <<>>]
Sign ==
    /\ Valid(request) /\ Covered(request)
    /\ \E odd \in {"none", "shore_power_operator"} :
        request' = Signed(request, odd)
    /\ request' # request
    /\ vouched' = Content(request) /\ report' = DefaultReport
    /\ UNCHANGED edits

Evaluate ==
    /\ report = DefaultReport /\ Valid(request)
    /\ report' = Report(request)
    /\ UNCHANGED <<request, edits, vouched>>

Next == Edit \/ Sign \/ Evaluate
Spec == Init /\ [][Next]_vars
-------------------------------------------------------------------------------
(* The properties. *)

TypeOK == /\ edits \in 0..MaxEdits
          /\ (report.verified # None) = (report.status = "evidence_package_passed")

(* Seven signatures over seven parts leave nothing of the business content   *)
(* unsigned: what passes is what the domains had before them.                *)
CollaborationAsSigned ==
    report.status = "evidence_package_passed" => vouched = Content(request)

(* Pending is only about the sources: the same package with fresh, live and  *)
(* trusted attestations passes.                                              *)
PendingNeedsOnlySources ==
    report.status = "reconciled_pending_source_attestation" =>
        LET fresh == [request EXCEPT !.attestations =
                [i \in DOMAIN DomainSeq |-> [Attestation(DomainSeq[i]) EXCEPT !.observed = request.at]]]
        IN  Report(Signed(fresh, "none")).status = "evidence_package_passed"

(* Whenever the priority gate passes, the ranks of a cohort are the ones a   *)
(* fair competition gives: the best score is first, equals share a rank and  *)
(* nobody is ranked before a better score.                                   *)
RanksAreFair ==
    "green_berth_priority" \in report.passed =>
        \A b, c \in Range(request.berths) :
            b.cohort = c.cohort => /\ (b.score > c.score) = (b.rank < c.rank)
                                   /\ b.score = 100 => b.rank = 1

(* No call takes more shore energy than its berth can deliver between all    *)
(* fast and departure (five per cent of metering tolerance apart), although  *)
(* no single gate compares the two.                                          *)
EnergyFitsStay ==
    report.status # "blocked" =>
        \A s \in Range(request.shore) :
            LET m == Row(request.milestones, s.call)
            IN  100 * s.energy <= 105 * s.capacity * (m.departure - m.fast)

(* The two shares of a call's first allocation are worth the reduction that  *)
(* its own voyage and its verified claims account for.                       *)
SharesMatchVoyage ==
    report.status # "blocked" =>
        \A c \in Range(request.calls) :
            LET s == FirstWith(request.sharing, LAMBDA x : x.call = c.call)
                others == SumOf(Claims(request, c.call),
                                LAMBDA x : IF x.category = "jit_arrival" THEN 0 ELSE x.tonnes)
            IN  Close(s.port + s.operator, (Reduction(request, c) + others) * s.value, 5)

(* The corridor document: one reduction takes part in the sharing once, so   *)
(* the benefit that is released is that of the claims.                       *)
BenefitSharedOnce ==
    report.verified # None =>
        Close(report.verified.benefit,
              SumOf(request.calls, LAMBDA c : Claimed(request, c.call) *
                  FirstWith(request.sharing, LAMBDA x : x.call = c.call).value), 5)
===============================================================================
