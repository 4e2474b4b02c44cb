------------------------ MODULE EnergyCarbonManagement -------------------------
(* The yearly cycle of the energy and carbon management system               *)
(* (EnergyCarbonManagementService): a site prepares the evidence of a cycle, *)
(* an external reviewer signs the whole of it                                *)
(* (sign_energy_carbon_management_evidence.py), evaluate() checks the cycle  *)
(* behind fourteen gates and the reviewer behind the fifteenth.              *)
(*                                                                           *)
(* Instants are numbers: a cycle is 100 to 200.  A time that may be absent   *)
(* is a sequence of at most one.                                             *)
EXTENDS Evidence

CONSTANTS Trusted, MaxEdits
VARIABLES request, report, edits, vouched
vars == <<request, report, edits, vouched>>

Roles == {"top_management", "energy_manager", "ghg_inventory_owner", "operations_owner", "internal_auditor"}
Topics == {"energy_performance", "objectives_and_action_plans", "monitoring_and_measurement", "ghg_inventory",
           "internal_audit", "corrective_actions", "resources"}
DefaultReport == [status |-> "blocked", passed |-> {}, onTarget |-> 0, total |-> 0]
-------------------------------------------------------------------------------
(* The package.                                                              *)
Context == [standards |-> {"ISO 50001:2018/Amd 1:2024", "ISO 14064-1:2018"}, climate |-> TRUE, by |-> "director"]
Policy == [by |-> "director", approved |-> 70, effective |-> 80, communicated |-> 85, improve |-> TRUE, resources |-> TRUE]
Role(role, person) == [role |-> role, person |-> person, at |-> 60]
Seu(id, energy) == [id |-> id, energy |-> energy, meters |-> {"m-" \o id}, controls |-> {"c-" \o id}]
EnergyReview == [at |-> 75, total |-> 100, minimum |-> 80, seus |-> <<Seu("cranes", 60), Seu("reefer", 25)>>,
                 by |-> "energy"]
Baseline == [end |-> 95, frozen |-> 96, by |-> "energy"]
Enpi(id, direction, target, current) ==
    [id |-> id, direction |-> direction, target |-> target, current |-> current, at |-> 195, owner |-> "energy"]
Objective(id, enpi, target) == [id |-> id, enpi |-> enpi, target |-> target, due |-> 195, owner |-> "energy"]
Plan(id, objective) == [id |-> id, objective |-> objective, start |-> 101, due |-> 180, status |-> "completed", evidence |-> TRUE]
Monitoring == [meters |-> <<"m-cranes", "m-reefer">>, expected |-> 50, received |-> 50, minimum |-> 98, by |-> "energy"]
Control(id, seu) == [id |-> id, seu |-> seu, owner |-> "operations"]
Competence(role, person) ==
    [role |-> role, person |-> person, assessed |-> TRUE, aware |-> TRUE, at |-> 85, through |-> 300]
Inventory == [start |-> 100, end |-> 200, expected |-> 7, reported |-> 7, uncertainty |-> TRUE, by |-> "carbon"]
Audit == [by |-> "auditor", independent |-> TRUE, at |-> 210, scope |-> {"ISO 50001:2018", "ISO 14064-1:2018"},
          conclusion |-> "minor", findings |-> <<"f1">>]
Corrective(id, finding) == [id |-> id, finding |-> finding, status |-> "closed", closed |-> <<220>>, effective |-> TRUE]
ManagementReview == [at |-> 225, chair |-> "director", topics |-> Topics]
Assurance == [by |-> "reviewer", independent |-> TRUE, at |-> 232, conclusion |-> "accepted", key |-> "none", over |-> None]

Offices == <<<<"top_management", "director">>, <<"energy_manager", "energy">>, <<"ghg_inventory_owner", "carbon">>,
             <<"operations_owner", "operations">>, <<"internal_auditor", "auditor">>>>
Package ==
    [start |-> 100, end |-> 200, context |-> Context, policy |-> Policy,
     roles |-> [i \in DOMAIN Offices |-> Role(Offices[i][1], Offices[i][2])],
     review |-> EnergyReview, baseline |-> Baseline, enpis |-> <<Enpi("teu", "decrease", 11, 10)>>,
     objectives |-> <<Objective("o1", "teu", 11)>>, plans |-> <<Plan("p1", "o1")>>, monitoring |-> Monitoring,
     controls |-> <<Control("c-cranes", "cranes"), Control("c-reefer", "reefer")>>,
     competence |-> [i \in DOMAIN Offices |-> Competence(Offices[i][1], Offices[i][2])],
     inventory |-> Inventory, audit |-> Audit, correctives |-> <<Corrective("a1", "f1")>>, declared |-> FALSE,
     management |-> ManagementReview, assurance |-> Assurance]

(* The validators of the request.                                            *)
Valid(r) ==
    /\ r.start < r.end /\ r.inventory.start < r.inventory.end
    /\ Cardinality(r.context.standards) >= 2 /\ Cardinality(r.audit.scope) >= 2
    /\ Len(r.roles) >= 5 /\ Len(r.competence) >= 5
    /\ \A p \in Range(r.plans) : p.start <= p.due /\ (p.status = "completed" => p.evidence)

(* All that a signature covers: the package without the signature.           *)
Content(r) == [r EXCEPT !.assurance = IF r.assurance = None THEN None ELSE [r.assurance EXCEPT !.over = None]]
-------------------------------------------------------------------------------
(* The gates of planning. *)

(* role_map.get(role): the last appointment.                                 *)
Holder(r, role) == LET last == LastWith(r.roles, LAMBDA x : x.role = role) IN IF last = None THEN "nobody" ELSE last.person
Ids(s) == {s[i].id : i \in DOMAIN s}
UniqueIds(s) == Distinct(s, LAMBDA x : x.id)
(* Each of the required roles appears once and no other does.                *)
EachRoleOnce(s) == {x.role : x \in Range(s)} = Roles /\ Distinct(s, LAMBDA x : x.role)

ContextReady(r) ==
    /\ {"ISO 50001:2018", "ISO 50001:2018/Amd 1:2024"} \cap r.context.standards # {}
    /\ "ISO 14064-1:2018" \in r.context.standards /\ r.context.climate
PolicyReady(r) ==
    LET p == r.policy
    IN  /\ p.approved <= p.effective /\ p.effective <= r.start /\ p.communicated <= r.start
        /\ p.improve /\ p.resources /\ p.by = r.context.by
RolesReady(r) ==
    /\ EachRoleOnce(r.roles) /\ \A x \in Range(r.roles) : x.at <= r.start
    /\ Holder(r, "top_management") = r.policy.by
    /\ Holder(r, "internal_auditor") \notin {Holder(r, role) : role \in Roles \ {"internal_auditor"}}
SeuEnergy(r) == SumOf(r.review.seus, LAMBDA u : u.energy)
EnergyReviewReady(r) ==
    /\ UniqueIds(r.review.seus) /\ r.review.at <= r.start
    /\ SeuEnergy(r) <= r.review.total
    /\ 100 * SeuEnergy(r) >= r.review.minimum * r.review.total
    /\ r.review.by = Holder(r, "energy_manager")
BaselineReady(r) == r.baseline.end <= r.start /\ r.baseline.frozen <= r.start /\ r.baseline.by = Holder(r, "energy_manager")
(* The indicator of an objective: the last of that name. *)
EnpiOf(r, o) == LastWith(r.enpis, LAMBDA x : x.id = o.enpi)
ObjectivesReady(r) ==
    /\ UniqueIds(r.enpis) /\ UniqueIds(r.objectives)
    /\ {o.enpi : o \in Range(r.objectives)} = Ids(r.enpis)
    /\ \A e \in Range(r.enpis) : r.start <= e.at /\ e.at <= r.end /\ e.owner = Holder(r, "energy_manager")
    /\ \A o \in Range(r.objectives) :
        LET e == EnpiOf(r, o)
        IN  e # None /\ o.target = e.target /\ o.due <= r.end /\ o.owner = e.owner

(* The gates of doing.                                                       *)
PlansReady(r) ==
    /\ UniqueIds(r.plans) /\ {p.objective : p \in Range(r.plans)} = Ids(r.objectives)
    /\ \A p \in Range(r.plans) :
        r.start <= p.start /\ p.start <= p.due /\ p.due <= r.end /\ p.status = "completed" /\ p.evidence
MonitoringReady(r) ==
    LET m == r.monitoring
    IN  /\ Distinct(m.meters, LAMBDA x : x) /\ UNION {u.meters : u \in Range(r.review.seus)} \subseteq Range(m.meters)
        /\ m.received <= m.expected /\ 100 * m.received >= m.minimum * m.expected
        /\ m.by = Holder(r, "energy_manager")
ControlsReady(r) ==
    /\ UniqueIds(r.controls)
    /\ Ids(r.controls) = UNION {u.controls : u \in Range(r.review.seus)}
    /\ {c.seu : c \in Range(r.controls)} = Ids(r.review.seus)
    /\ \A c \in Range(r.controls) : c.owner = Holder(r, "operations_owner")
CompetenceReady(r) ==
    /\ EachRoleOnce(r.competence)
    /\ \A c \in Range(r.competence) :
        c.person = Holder(r, c.role) /\ c.assessed /\ c.aware /\ c.at <= r.start /\ r.end <= c.through

(* The gates of checking and acting.                                         *)
InventoryReady(r) ==
    LET v == r.inventory
    IN  /\ v.start = r.start /\ v.end = r.end /\ v.expected >= 7 /\ v.reported = v.expected /\ v.uncertainty
        /\ v.by = Holder(r, "ghg_inventory_owner")
AuditReady(r) ==
    /\ r.audit.independent /\ r.audit.by = Holder(r, "internal_auditor") /\ r.end <= r.audit.at
    /\ {"ISO 50001:2018", "ISO 14064-1:2018"} \subseteq r.audit.scope
    /\ Distinct(r.audit.findings, LAMBDA f : f)
CorrectivesReady(r) ==
    IF r.audit.findings = <<>>
    THEN r.audit.conclusion = "conforming" /\ r.correctives = <<>> /\ r.declared
    ELSE /\ UniqueIds(r.correctives) /\ {c.finding : c \in Range(r.correctives)} = Range(r.audit.findings)
         /\ r.audit.conclusion # "conforming"
         /\ \A c \in Range(r.correctives) :
             c.status = "closed" /\ c.effective /\ c.closed # <<>> /\ c.closed[1] <= r.management.at
LatestClose(r) ==
    LET closed == UNION {Range(c.closed) : c \in Range(r.correctives)}
    IN  IF closed = {} THEN r.audit.at ELSE Max(closed)
ManagementReady(r) ==
    /\ r.management.chair = Holder(r, "top_management") /\ Topics \subseteq r.management.topics
    /\ r.audit.at <= r.management.at /\ LatestClose(r) <= r.management.at

(* The gate of the reviewer.                                                 *)
SignatureValid(r) == r.assurance # None /\ r.assurance.key \in Trusted /\ r.assurance.over = Content(r)
AssuranceReady(r) ==
    /\ SignatureValid(r)
    /\ r.assurance.independent /\ r.assurance.conclusion = "accepted" /\ r.management.at <= r.assurance.at
    /\ r.assurance.by \notin {Holder(r, x.role) : x \in Range(r.roles)}
-------------------------------------------------------------------------------
Gates(r) ==
    [context_and_requirements |-> ContextReady(r), policy_and_leadership |-> PolicyReady(r),
     roles_and_responsibilities |-> RolesReady(r), energy_review_and_seus |-> EnergyReviewReady(r),
     energy_baseline |-> BaselineReady(r), enpis_and_objectives |-> ObjectivesReady(r),
     action_plans_and_resources |-> PlansReady(r), monitoring_measurement_analysis |-> MonitoringReady(r),
     operational_controls |-> ControlsReady(r), competence_and_awareness |-> CompetenceReady(r),
     ghg_inventory_governance |-> InventoryReady(r), internal_audit |-> AuditReady(r),
     corrective_actions |-> CorrectivesReady(r), management_review |-> ManagementReady(r),
     independent_assurance |-> AssuranceReady(r)]

(* objectives_on_target: indicators are counted, not objectives.             *)
OnTarget(r) ==
    Cardinality({i \in DOMAIN r.enpis :
        LET e == r.enpis[i] IN IF e.direction = "decrease" THEN e.current <= e.target ELSE e.current >= e.target})
Report(r) ==
    LET gates == Gates(r)
        passed == {g \in DOMAIN gates : gates[g]}
    IN  [status |-> IF passed = DOMAIN gates THEN "evidence_package_passed"
                    ELSE IF DOMAIN gates \ {"independent_assurance"} \subseteq passed
                    THEN "management_cycle_ready_pending_independent_assurance" ELSE "blocked",
         passed |-> passed, onTarget |-> OnTarget(r), total |-> Len(r.objectives)]
-------------------------------------------------------------------------------
(* Edits of a package, by whoever prepares it.                               *)
HandedOver(r, person) ==
    [r EXCEPT !.competence[2].person = person, !.review.by = person, !.baseline.by = person, !.monitoring.by = person,
              !.enpis = [i \in DOMAIN r.enpis |-> [r.enpis[i] EXCEPT !.owner = person]],
              !.objectives = [i \in DOMAIN r.objectives |-> [r.objectives[i] EXCEPT !.owner = person]]]
EditedOffices(r) ==
    { [r EXCEPT !.context.standards = {"ISO 50001:2018", "ISO 14064-1:2018"}], [r EXCEPT !.context.climate = FALSE],
      [r EXCEPT !.context.standards = {"ISO 50001:2018", "ISO 9001:2015"}], [r EXCEPT !.policy.effective = 101],
      [r EXCEPT !.policy.by = "energy"], [r EXCEPT !.roles[1].person = "chief"], [r EXCEPT !.roles[2].at = 150],
      [r EXCEPT !.roles[5].person = "operations"], [r EXCEPT !.roles[5].person = "carbon", !.audit.by = "carbon", !.competence[5].person = "carbon"],
      [r EXCEPT !.roles[4].person = "energy"], [r EXCEPT !.roles[3].person = "reviewer", !.inventory.by = "reviewer", !.competence[3].person = "reviewer"],
      [r EXCEPT !.roles = Append(@, Role("energy_manager", "deputy"))],
      [HandedOver(r, "deputy") EXCEPT !.roles = Append(@, Role("energy_manager", "deputy"))],
      [HandedOver(r, "deputy") EXCEPT !.roles[2].person = "deputy"],
      [r EXCEPT !.competence[2].person = "deputy"], [r EXCEPT !.competence[4].through = 199],
      [r EXCEPT !.competence = Append(@, Competence("energy_manager", "energy"))] }
EditedPlanning(r) ==
    { [r EXCEPT !.review.seus[2].energy = 15], [r EXCEPT !.review.seus[2].energy = 45], [r EXCEPT !.review.by = "carbon"],
      [r EXCEPT !.review.seus = Append(@, Seu("lights", 10))], [r EXCEPT !.review.seus[1].meters = {"m-cranes", "m-yard"}],
      [r EXCEPT !.review.seus[2].id = "cranes"], [r EXCEPT !.baseline.frozen = 110], [r EXCEPT !.enpis[1].current = 12],
      [r EXCEPT !.enpis[1].at = 90], [r EXCEPT !.enpis[1].target = 9], [r EXCEPT !.objectives[1].due = 205],
      [r EXCEPT !.enpis = Append(@, Enpi("share", "increase", 5, 6))],
      [r EXCEPT !.enpis = Append(@, Enpi("teu", "increase", 11, 12))],
      [r EXCEPT !.objectives = Append(@, Objective("o2", "teu", 11)), !.plans = Append(@, Plan("p2", "o2"))],
      [r EXCEPT !.enpis = Append(@, Enpi("share", "increase", 5, 4)), !.plans = Append(@, Plan("p2", "o2")),
                !.objectives = Append(@, Objective("o2", "share", 5))],
      [r EXCEPT !.objectives = Append(@, Objective("o2", "teu", 11))] }
EditedDoing(r) ==
    { [r EXCEPT !.plans[1].status = "in_progress"], [r EXCEPT !.plans[1].due = 201], [r EXCEPT !.plans[1].due = 170], [r EXCEPT !.plans[1].start = 99],
      [r EXCEPT !.plans = Append(@, [Plan("p2", "o1") EXCEPT !.status = "cancelled"])],
      [r EXCEPT !.monitoring.meters = ButLast(@)], [r EXCEPT !.monitoring.received = 48], [r EXCEPT !.monitoring.received = 51],
      [r EXCEPT !.controls[2].owner = "energy"], [r EXCEPT !.controls = Tail(@)],
      [r EXCEPT !.controls[1].seu = "reefer"] }
EditedChecking(r) ==
    { [r EXCEPT !.inventory.end = 190], [r EXCEPT !.inventory.reported = 6], [r EXCEPT !.inventory.expected = 6, !.inventory.reported = 6],
      [r EXCEPT !.audit.at = 190], [r EXCEPT !.audit.at = 226], [r EXCEPT !.audit.findings = <<>>],
      [r EXCEPT !.audit.findings = <<>>, !.audit.conclusion = "conforming", !.correctives = <<>>, !.declared = TRUE],
      [r EXCEPT !.audit.findings = <<"f1", "f2">>], [r EXCEPT !.audit.scope = {"ISO 50001:2018", "ISO 9001:2015"}],
      [r EXCEPT !.correctives[1].closed = <<>>], [r EXCEPT !.correctives[1].status = "open", !.correctives[1].closed = <<>>],
      [r EXCEPT !.correctives[1].effective = FALSE], [r EXCEPT !.correctives[1].closed = <<230>>],
      [r EXCEPT !.correctives = Append(@, [Corrective("a2", "f1") EXCEPT !.status = "open"])],
      [r EXCEPT !.audit.findings = <<"f1", "f2">>, !.correctives = Append(@, Corrective("a2", "f2"))],
      [r EXCEPT !.management.at = 215], [r EXCEPT !.management.at = 233], [r EXCEPT !.management.chair = "energy"],
      [r EXCEPT !.management.topics = @ \ {"resources"}] }
EditedAssurance(r) ==
    IF r.assurance = None THEN { [r EXCEPT !.assurance = Assurance] }
    ELSE { [r EXCEPT !.assurance = None], [r EXCEPT !.assurance.independent = FALSE], [r EXCEPT !.assurance.at = 224],
           [r EXCEPT !.assurance.conclusion = "qualified"], [r EXCEPT !.assurance.by = "auditor"],
           [r EXCEPT !.assurance.key = "k1"] }
Edited(r) == EditedOffices(r) \cup EditedPlanning(r) \cup EditedDoing(r) \cup EditedChecking(r) \cup EditedAssurance(r)

Init == request = Package /\ report = DefaultReport /\ edits = 0 /\ vouched = None

Edit ==
    /\ edits < MaxEdits
    /\ \E r \in Edited(request) : r # request /\ Valid(r) /\ request' = r
    /\ edits' = edits + 1 /\ report' = DefaultReport
    /\ UNCHANGED vouched

(* The reviewer signs the package as it is, its key id included.             *)
Signed(r, key) ==
    LET keyed == [r EXCEPT !.assurance.key = key] IN [keyed EXCEPT !.assurance.over = Content(keyed)]
Sign ==
    /\ request.assurance # None
    /\ \E key \in {"k1", "k2"} : request' = Signed(request, key)
    /\ vouched' = [f \in DOMAIN request \ {"assurance"} |-> request[f]]
    /\ request' # request /\ report' = DefaultReport
    /\ UNCHANGED edits

Evaluate ==
    /\ report = DefaultReport
    /\ report' = Report(request)
    /\ UNCHANGED <<request, edits, vouched>>

Next == Edit \/ Sign \/ Evaluate
Spec == Init /\ [][Next]_vars
-------------------------------------------------------------------------------
(* The properties. *)

Passed == report.status = "evidence_package_passed"
Ready == Passed \/ report.status = "management_cycle_ready_pending_independent_assurance"

TypeOK ==
    /\ edits \in 0..MaxEdits
    /\ report.onTarget \in 0..Len(request.enpis) /\ report.total \in {0, Len(request.objectives)}
    /\ report.status = "evidence_package_passed" => report.passed = DOMAIN Gates(request)

(* A cycle is assured only as its reviewer saw it.                           *)
CycleAsReviewed ==
    Passed => vouched # None /\ \A f \in DOMAIN vouched : vouched[f] = request[f]

(* A cycle that waits for its assurance needs nothing else: a stranger who   *)
(* accepts it after the management review completes it.                      *)
PendingNeedsOnlyReviewer ==
    report.status = "management_cycle_ready_pending_independent_assurance" =>
        LET reviewed == [request EXCEPT !.assurance = [Assurance EXCEPT !.by = "stranger", !.at = request.management.at]]
        IN  Report(Signed(reviewed, "k1")).status = "evidence_package_passed"

(* Who audits has no other office, who assures has none, and every office    *)
(* has one competent holder whose acts the others' gates rely on.            *)
OfficesApart ==
    Ready =>
        LET of(role) == {x.person : x \in {y \in Range(request.roles) : y.role = role}}
        IN  /\ \A role \in Roles :
                /\ Cardinality(of(role)) = 1
                /\ {c.person : c \in {y \in Range(request.competence) : y.role = role}} = of(role)
                /\ role # "internal_auditor" => request.audit.by \notin of(role)
                /\ Passed => request.assurance.by \notin of(role)
            /\ {request.review.by, request.baseline.by, request.monitoring.by} = of("energy_manager")
            /\ {request.policy.by, request.context.by, request.management.chair} = of("top_management")

(* The cycle is closed: every use of energy is metered and controlled, every *)
(* objective has finished plans and figures of the cycle, every finding was  *)
(* closed before the review, and a report of all objectives on target says   *)
(* so of every indicator although it counts the one against the other.       *)
CycleIsClosed ==
    Ready =>
        /\ \A u \in Range(request.review.seus) :
            /\ \A m \in u.meters : \E i \in DOMAIN request.monitoring.meters : request.monitoring.meters[i] = m
            /\ \A c \in u.controls : \E i \in DOMAIN request.controls : request.controls[i].id = c
        /\ \A o \in Range(request.objectives) :
            /\ \E p \in Range(request.plans) : p.objective = o.id /\ p.status = "completed"
            /\ ~ \E p \in Range(request.plans) : p.objective = o.id /\ p.status # "completed"
            /\ report.onTarget = report.total =>
                \E e \in Range(request.enpis) :
                    e.id = o.enpi /\ IF e.direction = "decrease" THEN e.current <= o.target ELSE e.current >= o.target
        /\ \A i \in DOMAIN request.audit.findings :
            \A c \in Range(request.correctives) :
                c.finding = request.audit.findings[i] => c.status = "closed" /\ c.closed # <<>> /\ c.closed[1] <= request.management.at
        /\ report.onTarget <= report.total

(* Plan, do, check, act: what is planned is dated before the cycle, what is  *)
(* done within it, the audit after it, then the review, then the assurance.  *)
PlanDoCheckAct ==
    Ready =>
        LET planned == {request.policy.approved, request.policy.communicated, request.review.at, request.baseline.frozen}
                       \cup {x.at : x \in Range(request.roles)} \cup {c.at : c \in Range(request.competence)}
            done == {e.at : e \in Range(request.enpis)} \cup {p.due : p \in Range(request.plans)}
                    \cup {p.start : p \in Range(request.plans)}
        IN  /\ \A d \in done : (\A p \in planned : p <= d) /\ d <= request.audit.at
            /\ request.audit.at <= request.management.at
            /\ Passed => request.management.at <= request.assurance.at
===============================================================================
