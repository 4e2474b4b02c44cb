----------------------------- MODULE CarbonAssets -----------------------------
(* The carbon-asset compliance evidence: a package of programme rules,       *)
(* verified emissions, allowance lots, trades, retirements, a registry       *)
(* reconciliation, approvals and a registry attestation is put together by   *)
(* several parties, signed off line by sign_carbon_asset_evidence.py and     *)
(* posted to CarbonAssetComplianceService.evaluate.  People, lots and        *)
(* accounts are names, times and tonnes small integers; a digest is the      *)
(* value it is the digest of.  Prices are left out: no gate reads them.      *)
EXTENDS Integers, Sequences, FiniteSetsExt, TLC

CONSTANTS
    MaxEdits,       \* bound: fields edited after the package was prepared
    Keys,           \* key ids a signer may use
    Trusted         \* carbon_registry_public_keys

VARIABLES
    request,        \* the package as its holder would post it now
    report,         \* the service's last answer about it
    edits,          \* edits so far
    vouched         \* ghost: the package as the attester last signed it

vars == <<request, report, edits, vouched>>

None == [none |-> TRUE]

(* The default report of the dashboard: a blocked scenario valuation.        *)
DefaultReport == [status |-> "blocked", blockers |-> {}, ledger |-> <<>>, verified |-> None]
-------------------------------------------------------------------------------
(* The package. *)

Trade(id, side, lot, qty, at) ==
    [id |-> id, side |-> side, lot |-> lot, qty |-> qty, executed |-> at,
     settled |-> at, status |-> "settled", currency |-> "CNY"]
Retirement(id, qty, at) == [id |-> id, qty |-> qty, at |-> at, period |-> "case", status |-> "confirmed"]
Approval(role, by) == [role |-> role, by |-> by, decision |-> "approved", at |-> 6]

(* A package of the year 0..4 with surrender deadline 10: two tonnes emitted,*)
(* `open` tonnes brought forward, and the trades given.                      *)
Package(open, trades, close) ==
    [start |-> 0, end |-> 4, deadline |-> 10, ratio |-> 1, approvedBy |-> "owner",
     account |-> [holder |-> "port", status |-> "active", approvedBy |-> "registrar"],
     emissions |-> [entity |-> "port", start |-> 0, end |-> 4, tonnes |-> 2,
                    conclusion |-> "accepted", verifier |-> "verifier", at |-> 5],
     lots |-> <<[id |-> "a", serial |-> "sa", vintage |-> "eligible", qty |-> close,
                 status |-> "active", owner |-> "port"]>>,
     trades |-> trades, noTrade |-> trades = <<>>,
     retirements |-> <<Retirement("r", 2, 7)>>,
     book |-> [asOf |-> 8, opening |-> open, bought |-> SumFunction([i \in DOMAIN trades |->
                   IF trades[i].side = "buy" THEN trades[i].qty ELSE 0]),
               sold |-> SumFunction([i \in DOMAIN trades |->
                   IF trades[i].side = "sell" THEN trades[i].qty ELSE 0]),
               retired |-> 2, registry |-> close, internal |-> close, status |-> "reconciled"],
     approvals |-> <<Approval("compliance", "carol"), Approval("finance", "frank")>>,
     attestation |-> [by |-> "attester", at |-> 9, conclusion |-> "confirmed",
                      key |-> "none", signature |-> None]]

Packages == { Package(3, <<>>, 1), Package(1, <<Trade("t", "buy", "a", 2, 3)>>, 1),
              Package(2, <<Trade("t", "buy", "a", 2, 5), Trade("s", "sell", "a", 1, 5)>>, 1) }

(* The model validators of the request: posted packages that break one are   *)
(* answered 422 and never evaluated.                                         *)
Valid(r) ==
    /\ r.start < r.end /\ r.end < r.deadline
    /\ r.emissions.start < r.emissions.end /\ r.emissions.end <= r.emissions.at
    /\ \A t \in Range(r.trades) : t.executed <= t.settled /\ t.qty > 0
    /\ \A x \in Range(r.lots) \cup Range(r.retirements) : x.qty > 0
    /\ r.book.registry >= 0 /\ r.book.internal >= 0 /\ r.book.opening >= 0
    /\ r.lots # <<>> /\ r.retirements # <<>> /\ Len(r.approvals) >= 2
-------------------------------------------------------------------------------
(* evaluate(): one operator per gate. *)

Distinct(s, Key(_)) == \A i, j \in DOMAIN s : Key(s[i]) = Key(s[j]) => i = j
Id(x) == x.id
Total(s, Pick(_)) == SumFunction([i \in DOMAIN s |-> IF Pick(s[i]) THEN s[i].qty ELSE 0])
Bought(r)  == Total(r.trades, LAMBDA t : t.side = "buy")
Sold(r)    == Total(r.trades, LAMBDA t : t.side = "sell")
Retired(r) == Total(r.retirements, LAMBDA t : t.status = "confirmed")
Active(r)  == Total(r.lots, LAMBDA l : l.status \in {"active", "reserved"})
Obligation(r) == r.emissions.tonnes * r.ratio

AccountReady(r) == r.account.status = "active" /\ r.account.holder = r.emissions.entity

EmissionsReady(r) ==
    /\ r.emissions.start = r.start /\ r.emissions.end = r.end
    /\ r.emissions.conclusion = "accepted" /\ r.emissions.at <= r.deadline
    /\ r.emissions.verifier \notin {r.approvedBy, r.account.approvedBy}

LotsEligible(r) == \A l \in Range(r.lots) : l.vintage = "eligible" /\ l.owner = r.account.holder
SerialsUnique(r) == Distinct(r.lots, Id) /\ Distinct(r.lots, LAMBDA l : l.serial)

NoTrade(r) == r.trades = <<>> /\ r.noTrade
TradesConfirmed(r) ==
    \/ NoTrade(r)
    \/ /\ r.trades # <<>> /\ Distinct(r.trades, Id)
       /\ \A t \in Range(r.trades) : /\ r.start <= t.executed /\ t.executed <= r.deadline
                                     /\ t.settled <= r.deadline /\ t.status = "settled"
                                     /\ \E l \in Range(r.lots) : l.id = t.lot
CashSettled(r) ==
    \/ NoTrade(r)
    \/ TradesConfirmed(r) /\ \A t, u \in Range(r.trades) : t.currency = u.currency

Reconciled(r) ==
    /\ r.book.status = "reconciled" /\ r.book.asOf <= r.deadline
    /\ r.book.bought = Bought(r) /\ r.book.sold = Sold(r) /\ r.book.retired = Retired(r)
    /\ r.book.registry = r.book.opening + Bought(r) - Sold(r) - Retired(r)
    /\ r.book.internal = r.book.registry /\ Active(r) = r.book.registry

(* approvals_by_role keeps the last approval of a role.                      *)
ByRole(r, role) ==
    LET of == {i \in DOMAIN r.approvals : r.approvals[i].role = role}
    IN  IF of = {} THEN None ELSE r.approvals[Max(of)]
DualApproval(r) ==
    LET c == ByRole(r, "compliance")
        f == ByRole(r, "finance")
        before == Min({x.at : x \in Range(r.retirements)})
    IN  /\ Len(r.approvals) = 2 /\ c # None /\ f # None
        /\ c.decision = "approved" /\ f.decision = "approved" /\ c.by # f.by
        /\ {c.by, f.by} \cap {r.approvedBy, r.emissions.verifier} = {}
        /\ c.at <= before /\ f.at <= before

RetirementsConfirmed(r) ==
    /\ Distinct(r.retirements, Id)
    /\ \A x \in Range(r.retirements) : /\ x.status = "confirmed" /\ x.period = "case"
                                       /\ r.end <= x.at /\ x.at <= r.deadline
Surrendered(r) == EmissionsReady(r) /\ RetirementsConfirmed(r) /\ Retired(r) >= Obligation(r)

Content(r) == [r EXCEPT !.attestation.signature = None]

(* What the registry signs: everything but the signature itself.             *)
Unsigned(r) == [r EXCEPT !.attestation.signature = None]
SignatureValid(r) ==
    LET s == r.attestation.signature
    IN  /\ s # None /\ r.attestation.key \in Trusted
        /\ s.by = r.attestation.key /\ s.over = Unsigned(r)
Attested(r) ==
    /\ r.attestation.conclusion = "confirmed" /\ r.attestation.at >= r.book.asOf
    /\ r.attestation.by \notin {r.approvedBy, r.account.approvedBy, r.emissions.verifier}
                               \cup {a.by : a \in Range(r.approvals)}
    /\ SignatureValid(r)

Gates(r) ==
    [registry_account |-> AccountReady(r), verified_emissions |-> EmissionsReady(r),
     eligible_allowance_lots |-> LotsEligible(r), serial_integrity |-> SerialsUnique(r),
     trade_confirmation |-> TradesConfirmed(r), cash_settlement |-> CashSettled(r),
     registry_reconciliation |-> Reconciled(r), dual_approval |-> DualApproval(r),
     surrender_quantity |-> Surrendered(r), retirement_confirmation |-> RetirementsConfirmed(r),
     registry_attestation |-> Attested(r)]
Blockers(r) == LET passed == Gates(r) IN {g \in DOMAIN passed : ~passed[g]}

MutantCalculationReady(blockers) == blockers \subseteq {"registry_attestation", "dual_approval"}
CalculationReady(blockers) == blockers \subseteq {"registry_attestation"}

Status(blockers) ==
    IF blockers = {} THEN "evidence_package_passed"
    ELSE IF CalculationReady(blockers) THEN "reconciled_pending_registry_attestation"
    ELSE "blocked"

(* The ledger: opening balance, then every movement by time and id.          *)
Movements(r) ==
    [i \in DOMAIN r.trades |-> [id |-> r.trades[i].id, at |-> r.trades[i].settled,
        delta |-> IF r.trades[i].side = "buy" THEN r.trades[i].qty ELSE -r.trades[i].qty]]
    \o [i \in DOMAIN r.retirements |-> [id |-> r.retirements[i].id, at |-> r.retirements[i].at,
        delta |-> -r.retirements[i].qty]]
Rank == [none |-> 0, r |-> 1, q |-> 2, s |-> 3, t |-> 4, u |-> 5]
Earlier(a, b) == a.at < b.at \/ (a.at = b.at /\ Rank[a.id] < Rank[b.id])
Ledger(r) ==
    LET rows == <<[id |-> "none", at |-> r.start, delta |-> r.book.opening]>>
                    \o SortSeq(Movements(r), Earlier)
        balance[i \in 0..Len(rows)] == IF i = 0 THEN 0 ELSE balance[i - 1] + rows[i].delta
    IN  [i \in DOMAIN rows |-> [id |-> rows[i].id, at |-> rows[i].at, delta |-> rows[i].delta,
                                balance |-> balance[i]]]

Verified(r) == [balance |-> r.book.registry, retired |-> Retired(r),
                surplus |-> Max({0, Retired(r) - Obligation(r)}),
                deficit |-> Max({0, Obligation(r) - Retired(r)})]

MutantReport(r) ==            \* verified as soon as calculated
    LET blockers == Blockers(r)
    IN  [status |-> Status(blockers), blockers |-> blockers, ledger |-> Ledger(r),
         verified |-> IF CalculationReady(blockers) THEN Verified(r) ELSE None]
Report(r) ==
    LET blockers == Blockers(r)
    IN  [status |-> Status(blockers), blockers |-> blockers, ledger |-> Ledger(r),
         verified |-> IF blockers = {} THEN Verified(r) ELSE None]
-------------------------------------------------------------------------------
(* Edits of a package before it is posted, by whoever prepares it.           *)
Swap(s, i, x) == [s EXCEPT ![i] = x]
EditedPeople(r) ==
       { [r EXCEPT !.emissions.verifier = p] : p \in {"owner", "registrar", "carol"} }
  \cup { [r EXCEPT !.approvals[1].by = p] : p \in {"frank", "owner", "verifier"} }
  \cup { [r EXCEPT !.attestation.by = p] : p \in {"carol", "registrar"} }
  \cup { [r EXCEPT !.approvals[2].decision = "rejected"], [r EXCEPT !.approvals[2].at = 8],
         [r EXCEPT !.approvals = Append(@, Approval("finance", "fay"))],
         [r EXCEPT !.approvals[1].role = "finance"] }
EditedFacts(r) ==
       { [r EXCEPT !.account.status = "suspended"], [r EXCEPT !.account.holder = "other"],
         [r EXCEPT !.ratio = 2], [r EXCEPT !.emissions.tonnes = 1], [r EXCEPT !.emissions.start = 1],
         [r EXCEPT !.emissions.conclusion = "qualified"],
         [r EXCEPT !.lots[1].qty = @ + 1], [r EXCEPT !.lots[1].vintage = "old"],
         [r EXCEPT !.lots[1].status = "retired"], [r EXCEPT !.lots = Append(@, r.lots[1])],
         [r EXCEPT !.noTrade = ~@],
         [r EXCEPT !.retirements[1].qty = 1], [r EXCEPT !.retirements[1].status = "pending"],
         [r EXCEPT !.retirements[1].at = 3], [r EXCEPT !.retirements = Append(@, r.retirements[1])],
         [r EXCEPT !.book.opening = @ + 1], [r EXCEPT !.book.internal = @ + 1],
         [r EXCEPT !.book.asOf = 11], [r EXCEPT !.book.asOf = 9], [r EXCEPT !.book.status = "review"],
         [r EXCEPT !.attestation.conclusion = "qualified"], [r EXCEPT !.attestation.at = 7] }
EditedTrades(r) ==
    UNION { { [r EXCEPT !.trades[i].qty = @ + 1], [r EXCEPT !.trades[i].status = "pending"],
              [r EXCEPT !.trades[i].side = "sell"], [r EXCEPT !.trades[i].lot = "b"],
              [r EXCEPT !.trades[i].currency = "USD"], [r EXCEPT !.trades[i].settled = 2] }
            : i \in DOMAIN r.trades }
(* One more movement, booked on every side of the account.                   *)
Booked(r) ==
    { [r EXCEPT !.trades = Append(@, Trade("u", "buy", "a", 1, at)), !.noTrade = FALSE,
                !.book.bought = @ + 1, !.book.registry = @ + 1, !.book.internal = @ + 1,
                !.lots[1].qty = @ + 1] : at \in {2, 9} }
  \cup { [r EXCEPT !.retirements = Append(@, Retirement("q", 1, 8)), !.book.retired = @ + 1,
                !.book.registry = @ - 1, !.book.internal = @ - 1, !.lots[1].qty = @ - 1] }
Edited(r) == EditedPeople(r) \cup EditedFacts(r) \cup EditedTrades(r) \cup Booked(r)

Init ==
    /\ request \in Packages
    /\ report = DefaultReport /\ edits = 0 /\ vouched = None

Edit ==
    /\ edits < MaxEdits
    /\ \E r \in Edited(request) : r # request /\ request' = r
    /\ edits' = edits + 1 /\ report' = DefaultReport
    /\ UNCHANGED vouched

(* sign_carbon_asset_evidence.py: the schema is checked first.               *)
Sign ==
    /\ Valid(request)
    /\ \E k \in Keys :
        LET r == [request EXCEPT !.attestation.key = k]
        IN  /\ request' = [r EXCEPT !.attestation.signature = [by |-> k, over |-> Unsigned(r)]]
            /\ request' # request
            /\ vouched' = Content(r)
    /\ report' = DefaultReport
    /\ UNCHANGED edits

Evaluate ==
    /\ report = DefaultReport /\ Valid(request)
    /\ report' = Report(request)
    /\ UNCHANGED <<request, edits, vouched>>

Next == Edit \/ Sign \/ Evaluate
Spec == Init /\ [][Next]_vars
-------------------------------------------------------------------------------
(* The properties. *)

TypeOK ==
    /\ edits \in 0..MaxEdits
    /\ report.status \in {"blocked", "reconciled_pending_registry_attestation",
                          "evidence_package_passed"}
    /\ (report.verified # None) = (report.status = "evidence_package_passed")

(* The ledger rebuilt from the movements ends, for every package whose       *)
(* calculation is ready, at the balance that the registry, the internal book *)
(* and the active lots state: no movement is missing, doubled or counted     *)
(* with the wrong sign (_build_ledger against registry_reconciliation).      *)
LedgerMeetsRegistry ==
    report.status # "blocked" =>
        /\ report.ledger[Len(report.ledger)].balance = request.book.registry
        /\ report.ledger[Len(report.ledger)].balance = Active(request)
        /\ \A i \in 1..Len(report.ledger) - 1 : report.ledger[i].at <= report.ledger[i + 1].at

(* A package passes only as the attester saw it: no field can be edited      *)
(* after the signature, whoever edits it and whatever the edit repairs.      *)
PassedAsSigned == report.status = "evidence_package_passed" => vouched = Content(request)

(* "Pending" means what it says: an attester that nobody else is and that    *)
(* signs after the reconciliation would make the package pass, unless the    *)
(* report is about a package that fails a rule of its own.                   *)
PendingNeedsOnlyAttester ==
    LET a == [request EXCEPT !.attestation = [by |-> "attester", at |-> 11, conclusion |-> "confirmed",
                                              key |-> "k1", signature |-> None]]
        b == [a EXCEPT !.attestation.signature = [by |-> "k1", over |-> Unsigned(a)]]
    IN  report.status = "reconciled_pending_registry_attestation"
            => Report(b).status = "evidence_package_passed"

(* Five offices, five people: whoever wrote the rules, verified the          *)
(* emissions, approved for compliance and for finance and attested.          *)
FiveOffices ==
    report.status = "evidence_package_passed" =>
        Cardinality({request.approvedBy, request.emissions.verifier, request.attestation.by}
                    \cup {a.by : a \in Range(request.approvals)}) = 5

(* A verified position covers the obligation with retirements that were      *)
(* approved before they were made.                                           *)
VerifiedIsCovered ==
    report.verified # None =>
        /\ report.verified.deficit = 0
        /\ \A x \in Range(request.retirements), a \in Range(request.approvals) : a.at <= x.at
===============================================================================
