------------------------- MODULE CommercialSettlement -------------------------
(* The settlement of a billing period (CommercialSettlementService): eight   *)
(* source systems sign the part of the package they own                      *)
(* (sign_commercial_settlement_evidence.py), evaluate() rebuilds the bills   *)
(* from the meter and answers behind sixteen gates.                          *)
(*                                                                           *)
(* Amounts are whole currency units, shares per cent, certificates 0.1 MWh;  *)
(* the packages are such that every charge divides exactly.                  *)
EXTENDS Evidence

CONSTANTS Trusted, MaxEdits
VARIABLES request, report, edits, vouched
vars == <<request, report, edits, vouched>>

DomainSeq == <<"utility_tariff_invoice", "revenue_metering", "demand_response", "ancillary_services",
               "power_purchase_agreement", "renewable_certificate_registry", "tenant_billing",
               "investment_and_mv">>
Domains == Range(DomainSeq)
DefaultReport == [status |-> "blocked", passed |-> {}, total |-> 0, macc |-> <<>>, verified |-> None]
-------------------------------------------------------------------------------
(* The package. *)
Attestation(d) == [domain |-> d, key |-> "none", observed |-> 8, live |-> TRUE, over |-> None]
Policy == [entity |-> "port", currency |-> "CNY", period |-> "p1", start |-> 0, end |-> 4, intervals |-> 2,
           coverage |-> 100, energyPct |-> 0, demandPct |-> 0, amountPct |-> 0, tenantPct |-> 0,
           age |-> 3, alignment |-> 1, annual |-> 12, discount |-> 2, rule |-> "rule"]
Tariff == [from |-> 0, through |-> 9, currency |-> "CNY", rates |-> [peak |-> 2, offpeak |-> 1],
           demand |-> 2, fixed |-> 10, tax |-> 10]
Interval(id, start, end, period, kwh, kw) ==
    [id |-> id, meter |-> "m", start |-> start, end |-> end, period |-> period, kwh |-> kwh, kw |-> kw,
     quality |-> "measured"]
Invoice == [meter |-> "m", start |-> 0, end |-> 4, currency |-> "CNY", kwh |-> 300, kw |-> 50,
            energy |-> 400, demand |-> 100, fixed |-> 10, tax |-> 51, total |-> 561,
            status |-> "paid", receipt |-> TRUE]
DemandResponse == [id |-> "dr", baseline |-> TRUE, committed |-> 10, reduction |-> 8, hours |-> 1,
                   capacityRate |-> 2, energyRate |-> 1, performance |-> 100, penalties |-> 3,
                   amount |-> 25, currency |-> "CNY", status |-> "paid", receipt |-> TRUE]
Ancillary == [id |-> "as", cleared |-> 5, hours |-> 2, rate |-> 2, performance |-> 90, penalties |-> 3,
              amount |-> 15, currency |-> "CNY", status |-> "paid", receipt |-> TRUE]
PPA == [kwh |-> 30, rate |-> 1, fee |-> 5, amount |-> 35, currency |-> "CNY", status |-> "paid", receipt |-> TRUE]
Certificate == [id |-> "rec", serials |-> "1-300", mwh |-> 3, beneficiary |-> "port", period |-> "p1",
                status |-> "retired", cost |-> 3, currency |-> "CNY", receipt |-> TRUE]
Tenant(id, kwh, kw, energy, demand, fixedTax, ppa, certificate, total) ==
    [id |-> id, kwh |-> kwh, kw |-> kw, energy |-> energy, demand |-> demand, fixedTax |-> fixedTax, ppa |-> ppa,
     certificate |-> certificate, total |-> total, invoice |-> id, status |-> "issued"]
Link == [status |-> "independently_reviewed", period |-> "p1", kwh |-> 30, carbon |-> 3]
Measure(id, savings, kw, carbon, capex, om, incentive, years) ==
    [id |-> id, claim |-> id, savings |-> savings, kw |-> kw, carbon |-> carbon, capex |-> capex, om |-> om,
     incentive |-> incentive, years |-> years, currency |-> "CNY", approved |-> TRUE]
Approval(role, by) == [id |-> role, role |-> role, by |-> by, decision |-> "approved", rule |-> "rule"]

Package ==
    [at |-> 9, policy |-> Policy, tariff |-> Tariff,
     intervals |-> <<Interval("i1", 0, 2, "peak", 100, 50), Interval("i2", 2, 4, "offpeak", 200, 40)>>,
     invoice |-> Invoice, responses |-> <<DemandResponse>>, ancillaries |-> <<Ancillary>>, ppa |-> PPA,
     certificates |-> <<Certificate>>,
     tenants |-> <<Tenant("a", 180, 30, 240, 60, 30, 18, 2, 350), Tenant("b", 120, 20, 160, 40, 31, 17, 1, 249)>>,
     mv |-> Link,
     measures |-> <<Measure("peak", [peak |-> 10], 2, 1, 300, 4, 10, 2),
                    Measure("night", [offpeak |-> 20], 1, 2, 120, 0, 0, 1)>>,
     approvals |-> <<Approval("finance", "fay"), Approval("energy_manager", "ed")>>,
     attestations |-> [i \in DOMAIN DomainSeq |-> Attestation(DomainSeq[i])]]

(* The validators of the request.                                            *)
Valid(r) ==
    /\ r.policy.start < r.policy.end /\ r.tariff.from < r.tariff.through /\ r.invoice.start < r.invoice.end
    /\ \A i \in Range(r.intervals) : i.start < i.end
    /\ \A s \in {r.responses, r.ancillaries, r.certificates, r.tenants, r.measures} : s # <<>>

(* source_domain_payload.                                                    *)
Owned(d) ==
    CASE d = "utility_tariff_invoice" -> {"tariff", "invoice"}
      [] d = "revenue_metering" -> {"intervals"}
      [] d = "demand_response" -> {"responses"}
      [] d = "ancillary_services" -> {"ancillaries"}
      [] d = "power_purchase_agreement" -> {"ppa"}
      [] d = "renewable_certificate_registry" -> {"certificates"}
      [] d = "tenant_billing" -> {"tenants"}
      [] d = "investment_and_mv" -> {"mv", "measures", "approvals"}
Payload(r, d) == [f \in Owned(d) |-> r[f]]
-------------------------------------------------------------------------------
(* The source gates. *)

Covered(r) == /\ Distinct(r.attestations, LAMBDA a : a.domain)
              /\ {a.domain : a \in Range(r.attestations)} = Domains
SignatureValid(r, a) == a.key \in Trusted /\ a.over = <<a.domain, Payload(r, a.domain)>>
SourcesSigned(r) == Covered(r) /\ \A a \in Range(r.attestations) : SignatureValid(r, a)
FreshAndLive(r) ==
    \A a, b \in Range(r.attestations) :
        /\ a.live /\ 0 <= r.at - a.observed /\ r.at - a.observed <= r.policy.age
        /\ a.observed - b.observed <= r.policy.alignment
-------------------------------------------------------------------------------
(* The bills. *)

TariffReady(r) ==
    /\ r.tariff.currency = r.policy.currency /\ r.invoice.currency = r.policy.currency
    /\ r.tariff.from <= r.policy.start /\ r.policy.end <= r.tariff.through
    /\ r.invoice.start = r.policy.start /\ r.invoice.end = r.policy.end
    /\ \A i \in Range(r.intervals) : i.period \in DOMAIN r.tariff.rates

MeterReady(r) ==
    /\ Distinct(r.intervals, LAMBDA i : i.id)
    /\ Len(r.intervals) = r.policy.intervals
    /\ 100 * Len(SelectSeq(r.intervals, LAMBDA i : i.quality = "measured"))
            >= r.policy.coverage * r.policy.intervals
    /\ \A i \in Range(r.intervals) :
        /\ i.quality = "measured" /\ i.meter = r.invoice.meter
        /\ r.policy.start <= i.start /\ i.start < i.end /\ i.end <= r.policy.end

Rate(r, period) == IF period \in DOMAIN r.tariff.rates THEN r.tariff.rates[period] ELSE 0
MeterEnergy(r) == SumOf(r.intervals, LAMBDA i : i.kwh)
MeterPeak(r) == Max({0} \cup {i.kw : i \in Range(r.intervals)})
(* The invoice as the meter and the tariff would have it.                    *)
Expected(r) ==
    LET energy == SumOf(r.intervals, LAMBDA i : i.kwh * Rate(r, i.period))
        demand == MeterPeak(r) * r.tariff.demand
        tax == ((energy + demand + r.tariff.fixed) * r.tariff.tax) \div 100
    IN  [energy |-> energy, demand |-> demand, fixed |-> r.tariff.fixed, tax |-> tax,
         total |-> energy + demand + r.tariff.fixed + tax]

InvoiceReady(r) ==
    /\ TariffReady(r) /\ MeterReady(r)
    /\ Close(r.invoice.kwh, MeterEnergy(r), r.policy.energyPct)
    /\ Close(r.invoice.kw, MeterPeak(r), r.policy.demandPct)
    /\ LET expected == Expected(r)
       IN  \A f \in DOMAIN expected : Close(r.invoice[f], expected[f], r.policy.amountPct)
    /\ Close(r.invoice.total, r.invoice.energy + r.invoice.demand + r.invoice.fixed + r.invoice.tax,
             r.policy.amountPct)
PaymentReady(r) == r.invoice.status = "paid" /\ r.invoice.receipt
-------------------------------------------------------------------------------
(* Markets, certificates and tenants. *)

Settled(r, x, expected) ==
    /\ x.currency = r.policy.currency /\ x.status \in {"paid", "settled"} /\ x.receipt
    /\ Close(x.amount, expected, r.policy.amountPct)
ResponsesReady(r) ==
    \A x \in Range(r.responses) :
        /\ x.baseline
        /\ Settled(r, x, Max({0, ((x.committed * x.capacityRate + x.reduction * x.hours * x.energyRate)
                                    * x.performance) \div 100 - x.penalties}))
AncillariesReady(r) ==
    \A x \in Range(r.ancillaries) :
        Settled(r, x, Max({0, (x.cleared * x.hours * x.rate * x.performance) \div 100 - x.penalties}))
PPAReady(r) == Settled(r, r.ppa, r.ppa.kwh * r.ppa.rate + r.ppa.fee)

CertificatesReady(r) ==
    /\ Distinct(r.certificates, LAMBDA c : c.id) /\ Distinct(r.certificates, LAMBDA c : c.serials)
    /\ \A c \in Range(r.certificates) :
        /\ c.status = "retired" /\ c.beneficiary = r.policy.entity /\ c.period = r.policy.period
        /\ c.currency = r.policy.currency /\ c.receipt

Allocable(r) == r.invoice.total + r.ppa.amount + SumOf(r.certificates, LAMBDA c : c.cost)
Lines(t) == t.energy + t.demand + t.fixedTax + t.ppa + t.certificate
TenantsReady(r) ==
    /\ Distinct(r.tenants, LAMBDA t : t.id) /\ Distinct(r.tenants, LAMBDA t : t.invoice)
    /\ \A t \in Range(r.tenants) :
        Close(t.total, Lines(t), r.policy.tenantPct) /\ t.status \in {"issued", "paid", "approved"}
    /\ Close(SumOf(r.tenants, LAMBDA t : t.total), Allocable(r), r.policy.tenantPct)
    /\ Close(SumOf(r.tenants, LAMBDA t : t.kwh), MeterEnergy(r), r.policy.energyPct)
    /\ Close(SumOf(r.tenants, LAMBDA t : t.kw), MeterPeak(r), r.policy.demandPct)
-------------------------------------------------------------------------------
(* Savings, investments and the abatement curve. *)

MVReady(r) ==
    /\ r.mv.status = "independently_reviewed" /\ r.mv.period = r.policy.period
    /\ r.mv.kwh > 0 /\ r.mv.carbon > 0
Savings(m) == SumFunction(m.savings)
InvestmentReady(r) ==
    /\ Distinct(r.measures, LAMBDA m : m.id) /\ Distinct(r.measures, LAMBDA m : m.claim)
    /\ \A m \in Range(r.measures) :
        m.approved /\ m.currency = r.policy.currency /\ DOMAIN m.savings \subseteq DOMAIN r.tariff.rates
    /\ Close(SumOf(r.measures, Savings), r.mv.kwh, r.policy.energyPct)
    /\ Close(SumOf(r.measures, LAMBDA m : m.carbon), r.mv.carbon, r.policy.amountPct)

AnnualValue(r, m) ==
    r.policy.annual * (SumFunction([p \in DOMAIN m.savings |-> m.savings[p] * Rate(r, p)])
                       + m.kw * r.tariff.demand)
AnnualBenefit(r, m) == AnnualValue(r, m) + m.incentive - m.om
(* _annuity_factor, a fraction; the rate is 1 / d, or nothing when d = 0.    *)
Annuity(d, years) ==
    IF d = 0 THEN <<1, years>> ELSE <<(d + 1) ^ years, d * ((d + 1) ^ years - d ^ years)>>
(* A row of the curve; the marginal cost is cost / (share * carbon), or None.*)
MaccRow(r, m) ==
    LET annuity == Annuity(r.policy.discount, m.years)
    IN  [id |-> m.id, benefit |-> AnnualBenefit(r, m),
         cost |-> m.capex * annuity[1] - AnnualBenefit(r, m) * annuity[2],
         share |-> annuity[2], carbon |-> m.carbon * r.policy.annual]
Cheaper(a, b) ==
    IF a.carbon = 0 \/ b.carbon = 0 THEN a.carbon # 0 /\ b.carbon = 0
    ELSE a.cost * b.share * b.carbon < b.cost * a.share * a.carbon
Macc(r) ==
    LET rows == SortSeq([i \in DOMAIN r.measures |-> MaccRow(r, r.measures[i])], Cheaper)
        sums == [i \in DOMAIN rows |-> SumOf(SubSeq(rows, 1, i), LAMBDA x : x.carbon)]
    IN  [i \in DOMAIN rows |-> [row |-> rows[i], cumulative |-> sums[i]]]
EconomicsReady(r) ==
    /\ InvestmentReady(r)
    /\ \A m \in Range(r.measures) : AnnualBenefit(r, m) > 0 /\ m.carbon > 0
    /\ SumOf(r.measures, LAMBDA m : AnnualBenefit(r, m)) > 0

DualApproval(r) ==
    /\ {a.role : a \in {x \in Range(r.approvals) : x.decision = "approved"}} = {"finance", "energy_manager"}
    /\ Len(r.approvals) = 2
    /\ Distinct(r.approvals, LAMBDA a : a.id) /\ Distinct(r.approvals, LAMBDA a : a.by)
    /\ \A a \in Range(r.approvals) : a.rule = r.policy.rule
-------------------------------------------------------------------------------
SourceGates == {"source_domain_coverage", "source_signatures", "source_time_and_live"}
Gates(r) ==
    [source_domain_coverage |-> Covered(r), source_signatures |-> SourcesSigned(r),
     source_time_and_live |-> FreshAndLive(r), tariff_contract |-> TariffReady(r),
     revenue_meter_quality |-> MeterReady(r), utility_invoice_reconciliation |-> InvoiceReady(r),
     utility_payment_receipt |-> PaymentReady(r), demand_response_settlement |-> ResponsesReady(r),
     ancillary_service_settlement |-> AncillariesReady(r), ppa_settlement |-> PPAReady(r),
     renewable_certificate_registry |-> CertificatesReady(r), tenant_allocation |-> TenantsReady(r),
     measurement_verification_link |-> MVReady(r), investment_approval |-> InvestmentReady(r),
     payback_and_macc |-> EconomicsReady(r), dual_approval_audit |-> DualApproval(r)]

Verified(r) == [invoice |-> r.invoice.total, kwh |-> MeterEnergy(r),
                responses |-> SumOf(r.responses, LAMBDA x : x.amount), ppa |-> r.ppa.amount,
                allocated |-> SumOf(r.tenants, LAMBDA t : t.total), saved |-> r.mv.kwh]
Report(r) ==
    LET gates == Gates(r)
        passed == {g \in DOMAIN gates : gates[g]}
    IN  [status |-> IF passed = DOMAIN gates THEN "evidence_package_passed"
                    ELSE IF DOMAIN gates \ SourceGates \subseteq passed
                    THEN "reconciled_pending_source_attestation" ELSE "blocked",
         passed |-> passed, total |-> Expected(r).total, macc |-> Macc(r),
         verified |-> IF passed = DOMAIN gates THEN Verified(r) ELSE None]
-------------------------------------------------------------------------------
(* Edits of a package before it is posted, by whoever prepares it.           *)
EditedBills(r) ==
    { [r EXCEPT !.tariff.rates = [peak |-> 2]], [r EXCEPT !.tariff.rates.peak = 3], [r EXCEPT !.tariff.through = 3],
      [r EXCEPT !.tariff.currency = "USD"], [r EXCEPT !.policy.end = 5], [r EXCEPT !.policy.amountPct = 10],
      [r EXCEPT !.policy.tenantPct = 10],
      [r EXCEPT !.policy.energyPct = 5, !.invoice.kwh = 310, !.tenants[1].kwh = 170],
      [r EXCEPT !.policy.amountPct = 5, !.policy.tenantPct = 3, !.invoice.energy = 410, !.invoice.total = 571] }
EditedInvoices(r) ==
    { [r EXCEPT !.intervals[1].kwh = 110], [r EXCEPT !.intervals[2].kw = 60],
      [r EXCEPT !.intervals[2].id = "i1"], [r EXCEPT !.intervals[1].quality = "estimated"],
      [r EXCEPT !.intervals[2].period = "peak"], [r EXCEPT !.intervals[1].end = 5],
      [r EXCEPT !.intervals = Append(@, Interval("i3", 0, 2, "peak", 0, 0)), !.policy.intervals = 3],
      [r EXCEPT !.invoice.kwh = 310], [r EXCEPT !.invoice.total = 571], [r EXCEPT !.invoice.meter = "n"],
      [r EXCEPT !.invoice.energy = 410, !.invoice.total = 571], [r EXCEPT !.invoice.status = "approved"],
      [r EXCEPT !.invoice.receipt = FALSE], [r EXCEPT !.tariff.fixed = 20, !.invoice.fixed = 20] }
EditedMarkets(r) ==
    { [r EXCEPT !.responses[1].amount = 30], [r EXCEPT !.responses[1].performance = 50],
      [r EXCEPT !.responses[1].penalties = 40, !.responses[1].amount = 0],
      [r EXCEPT !.responses[1].baseline = FALSE], [r EXCEPT !.responses = Append(@, @[1])],
      [r EXCEPT !.ancillaries[1].status = "pending"], [r EXCEPT !.ancillaries[1].cleared = 10],
      [r EXCEPT !.ppa.amount = 40], [r EXCEPT !.ppa.fee = 10, !.ppa.amount = 40], [r EXCEPT !.ppa.receipt = FALSE],
      [r EXCEPT !.certificates[1].status = "active"], [r EXCEPT !.certificates[1].beneficiary = "tenant"],
      [r EXCEPT !.certificates = Append(@, [Certificate EXCEPT !.id = "rec2", !.cost = 0])],
      [r EXCEPT !.certificates = Append(@, [Certificate EXCEPT !.id = "rec2", !.serials = "301-600"])],
      [r EXCEPT !.tenants[1].total = 355], [r EXCEPT !.tenants[1].ppa = 8], [r EXCEPT !.tenants[1].energy = 245, !.tenants[1].total = 355],
      [r EXCEPT !.tenants[1].certificate = 5, !.tenants[1].total = 353], [r EXCEPT !.tenants[2].id = "a"],
      [r EXCEPT !.tenants[1].certificate = 0, !.tenants[1].total = 348,
                !.tenants[2].certificate = 0, !.tenants[2].total = 248],
      [r EXCEPT !.tenants[2].kwh = 130], [r EXCEPT !.tenants = <<r.tenants[1]>>],
      [r EXCEPT !.tenants[2].status = "disputed"] }
EditedInvestments(r) ==
    { [r EXCEPT !.mv.kwh = 40], [r EXCEPT !.mv.status = "calculated_only"], [r EXCEPT !.mv.period = "p0"],
      [r EXCEPT !.measures[2].claim = "peak"], [r EXCEPT !.measures[1].om = 400],
      [r EXCEPT !.measures[1].om = -100], [r EXCEPT !.measures[1].savings = [peak |-> 5, offpeak |-> 5]],
      [r EXCEPT !.measures[1].savings = [valley |-> 10]], [r EXCEPT !.measures[2].capex = 20 * @],
      [r EXCEPT !.measures[1].carbon = 0, !.measures[2].carbon = 3], [r EXCEPT !.measures[1].carbon = 2],
      [r EXCEPT !.measures[1].approved = FALSE], [r EXCEPT !.policy.discount = 0],
      [r EXCEPT !.measures = [i \in 1..Len(@) |-> @[Len(@) + 1 - i]]] }
EditedApprovals(r) ==
    { [r EXCEPT !.approvals[2].by = "fay"], [r EXCEPT !.approvals[1].by = "flo"], [r EXCEPT !.approvals[1].role = "energy_manager"],
      [r EXCEPT !.approvals[2].decision = "rejected"], [r EXCEPT !.approvals[1].rule = "old"],
      [r EXCEPT !.approvals = Append(@, Approval("finance", "flo"))],
      [r EXCEPT !.attestations[1].live = FALSE], [r EXCEPT !.attestations[2].observed = 6],
      [r EXCEPT !.attestations[3].domain = r.attestations[4].domain], [r EXCEPT !.at = 7] }
Edited(r) ==
    EditedBills(r) \cup EditedInvoices(r) \cup EditedMarkets(r) \cup EditedInvestments(r) \cup EditedApprovals(r)

Init == request = Package /\ report = DefaultReport /\ edits = 0 /\ vouched = [f \in {} |-> None]

Edit ==
    /\ edits < MaxEdits
    /\ \E r \in Edited(request) : r # request /\ Valid(r) /\ request' = r
    /\ edits' = edits + 1 /\ report' = DefaultReport
    /\ UNCHANGED vouched

(* Every source signs its domain, which the request has once.                *)
Signed(r, domains, key) ==
    [r EXCEPT !.attestations = [i \in DOMAIN r.attestations |->
        LET a == r.attestations[i]
        IN  IF a.domain \notin domains THEN a
            ELSE [a EXCEPT !.key = key, !.over = <<a.domain, Payload(r, a.domain)>>]]]
Sign ==
    /\ Covered(request)
    /\ \E domains \in {Domains, {"tenant_billing"}, {"investment_and_mv"}}, key \in {"k1", "k2"} :
        LET fields == UNION {Owned(d) : d \in domains}
        IN  /\ request' = Signed(request, domains, key)
            /\ vouched' = [f \in fields \cup DOMAIN vouched |->
                                IF f \in fields THEN request[f] ELSE vouched[f]]
    /\ request' # request /\ report' = DefaultReport
    /\ UNCHANGED edits

Evaluate ==
    /\ report = DefaultReport
    /\ report' = Report(request)
    /\ UNCHANGED <<request, edits, vouched>>

Next == Edit \/ Sign \/ Evaluate
Spec == Init /\ [][Next]_vars
-------------------------------------------------------------------------------
(* The properties. *)

TypeOK ==
    /\ edits \in 0..MaxEdits
    /\ (report.verified # None) = (report.status = "evidence_package_passed")

(* The verdict is about what the eight systems reported: all of the request  *)
(* but the policy is as its owner had it when it signed.                     *)
SettledAsSigned ==
    report.status = "evidence_package_passed" =>
        \A d \in Domains : \A f \in Owned(d) : f \in DOMAIN vouched /\ vouched[f] = request[f]

(* A package that waits for its sources passes once they sign it again, live *)
(* and in time: no reconciliation is behind `pending`.                       *)
PendingNeedsOnlySources ==
    report.status = "reconciled_pending_source_attestation" =>
        LET fresh == [request EXCEPT !.attestations =
                [i \in DOMAIN DomainSeq |-> [Attestation(DomainSeq[i]) EXCEPT !.observed = request.at]]]
        IN  Report(Signed(fresh, Domains, "k1")).status = "evidence_package_passed"

(* The money goes round: what the tenants' bills itemise is, up to the       *)
(* allowed variances, what the meter, the tariff, the power purchase and the *)
(* certificates cost, and the kilowatt-hours they are billed are the meter's.*)
TenantsPayTheBills ==
    report.status # "blocked" =>
        LET r == request
            itemised == SumOf(r.tenants, LAMBDA t : t.energy + t.demand + t.fixedTax + t.ppa + t.certificate)
            cost == SumOf(r.intervals, LAMBDA i : i.kwh * r.tariff.rates[i.period])
                    + MeterPeak(r) * r.tariff.demand + r.tariff.fixed
        IN  /\ Close(100 * itemised,
                     cost * (100 + r.tariff.tax)
                         + 100 * (r.ppa.kwh * r.ppa.rate + r.ppa.fee
                                  + SumOf(r.certificates, LAMBDA c : c.cost)),
                     2 * r.policy.tenantPct + 2 * r.policy.amountPct)
            /\ Close(SumOf(r.tenants, LAMBDA t : t.kwh), r.invoice.kwh, 2 * r.policy.energyPct)

(* The abatement curve is a curve: marginal costs never fall along it, the   *)
(* rows are the measures, and its end is the abatement that was verified for *)
(* the period, annualised.                                                   *)
CurveRises ==
    LET m == report.macc
        Marginal(x) == (100 * x.cost) \div (x.share * x.carbon)
    IN  /\ \A i \in 1..Len(m) - 1 :
            /\ m[i].cumulative <= m[i + 1].cumulative
            /\ m[i + 1].row.carbon # 0 =>
                m[i].row.carbon # 0 /\ Marginal(m[i].row) <= Marginal(m[i + 1].row)
        /\ "payback_and_macc" \in report.passed =>
            /\ {x.row.id : x \in Range(m)} = {x.id : x \in Range(request.measures)}
            /\ Close(m[Len(m)].cumulative, request.mv.carbon * request.policy.annual, request.policy.amountPct)

(* Finance and energy are two people and both approved the rule in force.    *)
TwoApprovers ==
    report.status # "blocked" =>
        \E f, e \in Range(request.approvals) :
            /\ f.role = "finance" /\ e.role = "energy_manager" /\ f.by # e.by
            /\ \A a \in {f, e} : a.decision = "approved" /\ a.rule = request.policy.rule
===============================================================================
