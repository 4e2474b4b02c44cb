----------------------- MODULE MeasurementVerification ------------------------
(* Measurement and verification of savings (MeasurementVerificationService): *)
(* a site prepares a package of meter intervals and their evidence, an       *)
(* independent reviewer signs the whole of it (sign_mv_evidence.py),         *)
(* evaluate() calculates behind ten gates and releases verified savings      *)
(* behind the eleventh.                                                      *)
(*                                                                           *)
(* Shares are per cent; an uncertainty interval is given by its squared half *)
(* width, so that no root is taken.                                          *)
EXTENDS Evidence

CONSTANTS Trusted, MaxEdits
VARIABLES request, report, edits, vouched
vars == <<request, report, edits, vouched>>

DefaultReport == [status |-> "blocked", passed |-> {}, savings |-> None, verified |-> None]
-------------------------------------------------------------------------------
(* The package. *)
Boundary == [meters |-> <<"rev", "sub">>, by |-> "manager"]
Plan == [by |-> "manager", expected |-> 4, coverage |-> 75, estimated |-> 25, rmse |-> 10, nmbe |-> 2,
         invoice |-> 10, factor |-> 2]
Baseline == [end |-> 8, frozen |-> 9, rmse |-> 8, nmbe |-> -1, by |-> "modeller"]
Interval(id, meter, start, end, base, actual) ==
    [id |-> id, meter |-> meter, start |-> start, end |-> end, base |-> base, actual |-> actual,
     baseU |-> 2, actualU |-> 1, quality |-> "measured"]
Calibration(meter) == [meter |-> meter, from |-> 5, through |-> 20, status |-> "valid"]
Invoice == [meter |-> "rev", kwh |-> 200, metered |-> 200, variance |-> 0, status |-> "reconciled"]
Adjustment == [by |-> "auditor", approved |-> TRUE]
Review == [by |-> "reviewer", independent |-> TRUE, at |-> 15, conclusion |-> "accepted", key |-> "none",
           over |-> None]

Package ==
    [boundary |-> Boundary, plan |-> Plan, baseline |-> Baseline, start |-> 10, end |-> 14,
     intervals |-> <<Interval("i1", "rev", 10, 12, 100, 90), Interval("i2", "rev", 12, 14, 120, 110),
                     Interval("i3", "sub", 10, 12, 30, 35), Interval("i4", "sub", 12, 14, 30, 20)>>,
     calibrations |-> <<Calibration("rev"), Calibration("sub")>>, invoice |-> Invoice,
     adjustments |-> <<Adjustment>>, review |-> Review]

(* The validators of the request.                                            *)
Valid(r) ==
    /\ r.start < r.end /\ Distinct(r.boundary.meters, LAMBDA m : m)
    /\ \A i \in Range(r.intervals) : i.start < i.end
    /\ \A c \in Range(r.calibrations) : c.from < c.through

(* All that a signature covers: the package without the signature.           *)
Content(r) == [r EXCEPT !.review = IF r.review = None THEN None ELSE [r.review EXCEPT !.over = None]]
-------------------------------------------------------------------------------
(* The gates of the calculation. *)

Meters(r) == Range(r.boundary.meters)
(* _no_overlapping_intervals: neighbours in the order of their start.        *)
NoOverlaps(r) ==
    \A m \in Meters(r) :
        LET items == SortSeq(SelectSeq(r.intervals, LAMBDA i : i.meter = m), LAMBDA a, b : a.start < b.start)
        IN  \A k \in 1..Len(items) - 1 : items[k].end <= items[k + 1].start
Estimated(r) == Len(SelectSeq(r.intervals, LAMBDA i : i.quality = "estimated"))
CoverageReady(r) ==
    /\ Distinct(r.intervals, LAMBDA i : i.id)
    /\ {i.meter : i \in Range(r.intervals)} = Meters(r)
    /\ \A i \in Range(r.intervals) : r.start <= i.start /\ i.end <= r.end
    /\ NoOverlaps(r)
    /\ Len(r.intervals) <= r.plan.expected
    /\ 100 * Len(r.intervals) >= r.plan.coverage * r.plan.expected
    /\ 100 * Estimated(r) <= r.plan.estimated * Len(r.intervals)
BaselineReady(r) == r.baseline.end <= r.start /\ r.baseline.frozen <= r.start
QualityReady(r) == r.baseline.rmse <= r.plan.rmse /\ Abs(r.baseline.nmbe) <= r.plan.nmbe
CalibrationReady(r) ==
    \A m \in Meters(r) :
        LET c == LastWith(r.calibrations, LAMBDA x : x.meter = m)
        IN  c # None /\ c.status = "valid" /\ c.from <= r.start /\ r.end <= c.through
InvoiceReady(r) ==
    LET v == r.invoice
        metered == SumOf(SelectSeq(r.intervals, LAMBDA i : i.meter = v.meter), LAMBDA i : i.actual)
    IN  /\ v.meter \in Meters(r) /\ v.status = "reconciled"
        /\ metered = v.metered
        /\ 100 * Abs(v.kwh - metered) = v.variance * v.kwh
        /\ 100 * Abs(v.kwh - metered) <= r.plan.invoice * v.kwh
AdjustmentsReady(r) == \A a \in Range(r.adjustments) : a.approved
UncertaintyReady(r) == SumOf(r.intervals, LAMBDA i : i.baseU + i.actualU) > 0

(* The gate of the reviewer.                                                 *)
SignatureValid(r) == r.review # None /\ r.review.key \in Trusted /\ r.review.over = Content(r)
Principals(r) == {r.plan.by, r.boundary.by, r.baseline.by} \cup {a.by : a \in Range(r.adjustments)}
IndependentReady(r) ==
    /\ SignatureValid(r)
    /\ r.review.independent /\ r.review.conclusion = "accepted" /\ r.end <= r.review.at
    /\ r.review.by \notin Principals(r)
-------------------------------------------------------------------------------
(* Plan, boundary and factor registry are named by the schema.               *)
Gates(r) ==
    [approved_mv_plan |-> TRUE, measurement_boundary |-> TRUE, baseline_model |-> BaselineReady(r),
     interval_coverage |-> CoverageReady(r), meter_calibration |-> CalibrationReady(r),
     invoice_reconciliation |-> InvoiceReady(r), model_quality |-> QualityReady(r),
     non_routine_adjustments |-> AdjustmentsReady(r), uncertainty |-> UncertaintyReady(r),
     emission_factor_registry |-> TRUE, independent_verification |-> IndependentReady(r)]

(* Savings and the square of the half width of their interval.               *)
Savings(r) ==
    [kwh |-> SumOf(r.intervals, LAMBDA i : i.base) - SumOf(r.intervals, LAMBDA i : i.actual),
     width2 |-> r.plan.factor ^ 2 * SumOf(r.intervals, LAMBDA i : i.baseU ^ 2 + i.actualU ^ 2)]
Report(r) ==
    LET gates == Gates(r)
        passed == {g \in DOMAIN gates : gates[g]}
        ready == DOMAIN gates \ {"independent_verification"} \subseteq passed
    IN  [status |-> IF passed = DOMAIN gates THEN "evidence_package_passed"
                    ELSE IF ready THEN "calculated_pending_independent_verification" ELSE "blocked",
         passed |-> passed, savings |-> IF ready THEN Savings(r) ELSE None,
         verified |-> IF passed = DOMAIN gates THEN Savings(r) ELSE None]
-------------------------------------------------------------------------------
(* Edits of a package, by whoever prepares it.                               *)
EditedMeters(r) ==
    { [r EXCEPT !.intervals[2].start = 11], [r EXCEPT !.intervals[2].start = 10],
      [r EXCEPT !.intervals[2].start = 9], [r EXCEPT !.intervals[2].end = 15],
      [r EXCEPT !.intervals[4].id = "i3"], [r EXCEPT !.intervals[3].meter = "other"],
      [r EXCEPT !.intervals[1].actual = 95], [r EXCEPT !.intervals[1].actual = 80],
      [r EXCEPT !.intervals[3].base = 90], [r EXCEPT !.intervals[1].quality = "estimated"],
      [r EXCEPT !.intervals = ButLast(@)], [r EXCEPT !.intervals = [i \in 1..Len(@) |-> @[Len(@) + 1 - i]]],
      [r EXCEPT !.intervals = Append(@, Interval("i5", "sub", 13, 14, 5, 1))],
      [r EXCEPT !.plan.expected = 5, !.intervals = <<Interval("i5", "sub", 10, 14, 5, 1)>> \o @],
      [r EXCEPT !.intervals = [i \in DOMAIN r.intervals |-> [r.intervals[i] EXCEPT !.baseU = 0, !.actualU = 0]]],
      [r EXCEPT !.boundary.meters = <<"rev">>], [r EXCEPT !.boundary.meters = <<"rev", "sub", "new">>],
      [r EXCEPT !.calibrations[1].through = 13], [r EXCEPT !.calibrations[2].status = "revoked"],
      [r EXCEPT !.calibrations = Append(@, [Calibration("rev") EXCEPT !.status = "expired"])] }
EditedRecords(r) ==
    { [r EXCEPT !.invoice.kwh = 250, !.invoice.variance = 20], [r EXCEPT !.invoice.metered = 190],
      [r EXCEPT !.invoice.variance = 5], [r EXCEPT !.invoice.meter = "sub"], [r EXCEPT !.invoice.status = "review"],
      [r EXCEPT !.invoice.kwh = 0], [r EXCEPT !.baseline.frozen = 11], [r EXCEPT !.baseline.end = 11],
      [r EXCEPT !.baseline.rmse = 12], [r EXCEPT !.baseline.nmbe = -3], [r EXCEPT !.baseline.by = "reviewer"],
      [r EXCEPT !.adjustments[1].approved = FALSE], [r EXCEPT !.adjustments[1].by = "reviewer"],
      [r EXCEPT !.adjustments = <<>>], [r EXCEPT !.plan.coverage = 100], [r EXCEPT !.plan.estimated = 0],
      [r EXCEPT !.end = 13], [r EXCEPT !.start = 8] }
EditedReview(r) ==
    IF r.review = None THEN { [r EXCEPT !.review = Review] }
    ELSE { [r EXCEPT !.review = None], [r EXCEPT !.review.independent = FALSE], [r EXCEPT !.review.at = 13],
           [r EXCEPT !.review.conclusion = "qualified"], [r EXCEPT !.review.by = "manager"],
           [r EXCEPT !.review.by = "modeller"], [r EXCEPT !.review.by = "auditor"],
           [r EXCEPT !.review.key = "k1"] }
Edited(r) == EditedMeters(r) \cup EditedRecords(r) \cup EditedReview(r)

Init == request = Package /\ report = DefaultReport /\ edits = 0 /\ vouched = None

Edit ==
    /\ edits < MaxEdits
    /\ \E r \in Edited(request) : r # request /\ Valid(r) /\ request' = r
    /\ edits' = edits + 1 /\ report' = DefaultReport
    /\ UNCHANGED vouched

(* The reviewer signs the package as it is, its key id included.             *)
Signed(r, key) ==
    LET keyed == [r EXCEPT !.review.key = key] IN [keyed EXCEPT !.review.over = Content(keyed)]
Sign ==
    /\ request.review # None
    /\ \E key \in {"k1", "k2"} : request' = Signed(request, key)
    /\ vouched' = [f \in DOMAIN request \ {"review"} |-> request[f]]
    /\ request' # request /\ report' = DefaultReport
    /\ UNCHANGED edits

Evaluate ==
    /\ report = DefaultReport
    /\ report' = Report(request)
    /\ UNCHANGED <<request, edits, vouched>>

Next == Edit \/ Sign \/ Evaluate
Spec == Init /\ [][Next]_vars
-------------------------------------------------------------------------------
(* The properties. *)

TypeOK ==
    /\ edits \in 0..MaxEdits
    /\ (report.savings # None) = (report.status # "blocked")
    /\ (report.verified # None) = (report.status = "evidence_package_passed")

(* Savings are verified only as the reviewer saw the package.                *)
VerifiedAsReviewed ==
    report.verified # None => vouched # None /\ \A f \in DOMAIN vouched : vouched[f] = request[f]

(* A calculation that waits for its reviewer needs nothing else: a stranger  *)
(* to the project who accepts it afterwards releases the savings.            *)
PendingNeedsOnlyReviewer ==
    report.status = "calculated_pending_independent_verification" =>
        LET reviewed == [request EXCEPT !.review = [Review EXCEPT !.by = "stranger", !.at = request.end]]
        IN  Report(Signed(reviewed, "k1")).verified = report.savings

(* The reviewer approved nothing that the savings rest on, and reviewed them *)
(* when the period was over and the baseline had long been frozen.           *)
ReviewerIsAStranger ==
    report.verified # None =>
        /\ request.review.by \notin {request.plan.by, request.boundary.by, request.baseline.by}
        /\ \A i \in DOMAIN request.adjustments : request.adjustments[i].by # request.review.by
        /\ request.baseline.frozen < request.review.at /\ request.end <= request.review.at

(* No hour is counted twice: in calculated savings no meter has two readings *)
(* for one instant and none from outside the period, every reading was taken *)
(* under a valid calibration, and what a meter saved in its hours adds up.   *)
NoHourCountedTwice ==
    report.savings # None =>
        LET at(m, t) == {i \in Range(request.intervals) : i.meter = m /\ i.start <= t /\ t < i.end}
        IN  /\ \A m \in {i.meter : i \in Range(request.intervals)}, t \in 0..20 :
                /\ Cardinality(at(m, t)) <= 1
                /\ at(m, t) # {} =>
                    /\ request.start <= t /\ t < request.end
                    /\ \E c \in Range(request.calibrations) :
                        c.meter = m /\ c.status = "valid" /\ c.from <= t /\ t < c.through
            /\ report.savings.kwh = SumOver(Meters(request), LAMBDA m :
                    SumOver(UNION {at(m, t) : t \in 0..20}, LAMBDA i : i.base - i.actual))
===============================================================================
