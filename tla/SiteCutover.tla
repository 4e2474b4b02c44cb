----------------------------- MODULE SiteCutover -----------------------------
(* The package on which an external cutover review is asked for: a signed    *)
(* piece of evidence per responsible domain, the operational acceptance      *)
(* figures of the site and the approvals of the responsible offices.         *)
(* sign_site_cutover_package.py signs it, SiteCutoverService.evaluate judges *)
(* it against the keys of the deployment.  Digests are the values they are   *)
(* digests of; days, hours and minutes are integers in policy units.         *)
EXTENDS Integers, Sequences, FiniteSets, Functions

CONSTANTS
    Domains,        \* MODULE_DOMAINS
    ShadowDomains,  \* those that may come from a production shadow
    Roles,          \* APPROVAL_ROLES
    WrongKeys,      \* keys a signer may use by mistake
    MaxEdits        \* bound: edits after the package was prepared

VARIABLES request, report, edits, vouched
vars == <<request, report, edits, vouched>>

None == [none |-> TRUE]
Nobody == [content |-> None, votes |-> None]
Authorities == Domains \cup Roles

(* SITE_CUTOVER_TRUSTED_SIGNERS_JSON: the key named after an authority is    *)
(* configured for it, every other key is unknown.                            *)
Authority(key) == IF key \in Authorities THEN key ELSE "nobody"

DefaultReport == [status |-> "blocked", eligible |-> FALSE]
-------------------------------------------------------------------------------
(* The package; the window is 0..10 and evaluation happens at 13.            *)

Evidence(d) ==
    [domain |-> d, site |-> "site", tenant |-> "tenant", window |-> "w", cutoff |-> 9,
     observed |-> 11, mode |-> "live_site", verified |-> TRUE, conclusion |-> "accepted",
     exceptions |-> {}, key |-> d, digest |-> None]
Approval(r) == [role |-> r, decision |-> "approved", at |-> 12, key |-> r, bound |-> None]

Policy == [site |-> "site", tenant |-> "tenant", window |-> "w", start |-> 0, end |-> 10,
           shadowDays |-> 180, seasons |-> 2, age |-> 3, alignment |-> 1, balance |-> 10,
           bill |-> 5, rollback |-> 30, rpo |-> 15, rto |-> 60]
Scenarios == {"peak_operations", "off_peak_operations", "extreme_weather",
              "equipment_failure", "grid_derating", "planned_maintenance"}
Operation ==
    [required |-> 6, ready |-> 6, snapshots |-> 1000, releases |-> 100,
     meters |-> 100, calibrated |-> 100, balance |-> 10, bill |-> 5,
     shadowDays |-> 180, seasons |-> {"summer", "winter"}, scenarios |-> Scenarios,
     gateway |-> TRUE, capabilities |-> TRUE, interlocks |-> TRUE, receipts |-> 100, fallback |-> TRUE,
     takeover |-> TRUE, rollbackDrill |-> TRUE, rollback |-> 30,
     restore |-> TRUE, rpo |-> 15, rto |-> 60, exercise |-> TRUE, severity1 |-> 0, severity2 |-> 0,
     trained |-> 100, benefit |-> TRUE, authorityOff |-> TRUE]
Listed(S) == CHOOSE s \in Bijection(1..Cardinality(S), S) : TRUE
Package ==
    LET domains == Listed(Domains)
        roles == Listed(Roles)
    IN  [at |-> 13, policy |-> Policy, operation |-> Operation,
         modules |-> [i \in DOMAIN domains |-> Evidence(domains[i])],
         approvals |-> [i \in DOMAIN roles |-> Approval(roles[i])]]

(* module_signature_payload and approval_subject_sha256.                     *)
Payload(m) == [m EXCEPT !.digest = None]
Subject(r) == [r EXCEPT !.approvals = <<>>]
-------------------------------------------------------------------------------
(* evaluate(): one operator per gate. *)

Once(s, Of(_), all) == Len(s) = Cardinality(all) /\ {Of(x) : x \in Range(s)} = all

Covered(r) == Once(r.modules, LAMBDA m : m.domain, Domains)

DigestHolds(m) == m.digest = Payload(m)
MutantVerified(key, authority) == Authority(key) # "nobody"
Verified(key, authority) == Authority(key) = authority
ModulesSigned(r) ==
    Covered(r) /\ \A m \in Range(r.modules) : DigestHolds(m) /\ Verified(m.key, m.domain)

OneSite(r) ==
    Covered(r) /\ \A m \in Range(r.modules) :
        m.site = r.policy.site /\ m.tenant = r.policy.tenant /\ m.window = r.policy.window

Fresh(r) ==
    /\ Covered(r)
    /\ \A m, n \in Range(r.modules) : m.cutoff - n.cutoff <= r.policy.alignment
    /\ \A m \in Range(r.modules) :
        /\ r.policy.start <= m.cutoff /\ m.cutoff <= r.policy.end
        /\ m.cutoff <= m.observed /\ m.observed <= r.at /\ r.at - m.observed <= r.policy.age
        /\ m.mode = "live_site" \/ (m.domain \in ShadowDomains /\ m.mode = "production_shadow")

Accepted(r) ==
    Covered(r) /\ \A m \in Range(r.modules) :
        m.verified /\ m.conclusion = "accepted" /\ m.exceptions = {}

LiveData(o) == o.required >= 6 /\ o.ready = o.required /\ o.snapshots >= 1000 /\ o.releases >= 100
Metered(o, p) == /\ o.meters = 100 /\ o.calibrated = 100
                 /\ o.balance <= p.balance /\ o.bill <= p.bill
Shadowed(o, p) == /\ o.shadowDays >= p.shadowDays /\ Cardinality(o.seasons) >= p.seasons
                  /\ Scenarios \subseteq o.scenarios
Executed(o) == o.gateway /\ o.capabilities /\ o.interlocks /\ o.receipts = 100 /\ o.fallback
TakenOver(o, p) == o.takeover /\ o.rollbackDrill /\ o.rollback <= p.rollback
Restored(o, p) == o.restore /\ o.rpo <= p.rpo /\ o.rto <= p.rto
Secured(o) == o.exercise /\ o.severity1 = 0 /\ o.severity2 = 0

Bound(r, a) == a.bound = Subject(r) /\ r.policy.end <= a.at /\ a.at <= r.at
ApprovedByAll(r) ==
    /\ Once(r.approvals, LAMBDA a : a.role, Roles)
    /\ \A a \in Range(r.approvals) : a.decision = "approved" /\ Bound(r, a)
ApprovalsSigned(r) == ApprovedByAll(r) /\ \A a \in Range(r.approvals) : Verified(a.key, a.role)

Gates(r) ==
    LET o == r.operation
        p == r.policy
    IN  [module_coverage |-> Covered(r), module_signatures |-> ModulesSigned(r),
         site_tenant_window |-> OneSite(r), freshness_and_cutoff |-> Fresh(r),
         module_acceptance |-> Accepted(r), live_data_closed_loop |-> LiveData(o),
         metering_and_calibration |-> Metered(o, p), long_horizon_shadow |-> Shadowed(o, p),
         production_execution |-> Executed(o), takeover_and_rollback |-> TakenOver(o, p),
         resilience_and_restore |-> Restored(o, p), cyber_readiness |-> Secured(o),
         training_and_change |-> o.trained = 100, benefit_assurance |-> o.benefit,
         binding_approvals |-> ApprovalsSigned(r), application_authority_boundary |-> o.authorityOff]
Blockers(r) == LET passed == Gates(r) IN {g \in DOMAIN passed : ~passed[g]}

(* Only the trust in the keys is missing: what they signed is what is here.  *)
OnlyTrustMissing(r, blockers) ==
    /\ blockers \subseteq {"module_signatures", "binding_approvals"}
    /\ \A m \in Range(r.modules) : DigestHolds(m)
    /\ ApprovedByAll(r)

Report(r) ==
    LET blockers == Blockers(r)
    IN  [eligible |-> blockers = {},
         status |-> IF blockers = {} THEN "eligible_for_external_cutover_review"
                    ELSE IF OnlyTrustMissing(r, blockers) THEN "reconciled_pending_attestation"
                    ELSE "blocked"]
-------------------------------------------------------------------------------
(* Worse and better operational figures: what a site may post.               *)
Worse(o) ==
    { [o EXCEPT !.required = 5, !.ready = 5], [o EXCEPT !.ready = 5], [o EXCEPT !.snapshots = 999],
      [o EXCEPT !.releases = 99], [o EXCEPT !.meters = 99], [o EXCEPT !.calibrated = 99],
      [o EXCEPT !.balance = 11], [o EXCEPT !.bill = 6], [o EXCEPT !.shadowDays = 179],
      [o EXCEPT !.seasons = {"summer"}], [o EXCEPT !.scenarios = Scenarios \ {"grid_derating"}],
      [o EXCEPT !.gateway = FALSE], [o EXCEPT !.receipts = 99], [o EXCEPT !.rollback = 31],
      [o EXCEPT !.rpo = 16], [o EXCEPT !.rto = 61], [o EXCEPT !.restore = FALSE],
      [o EXCEPT !.severity2 = 1], [o EXCEPT !.trained = 99], [o EXCEPT !.authorityOff = FALSE] }
Better(o) ==
    { [o EXCEPT !.required = 7, !.ready = 7], [o EXCEPT !.snapshots = @ + 1], [o EXCEPT !.releases = @ + 1],
      [o EXCEPT !.balance = @ - 1], [o EXCEPT !.bill = @ - 1], [o EXCEPT !.shadowDays = @ + 1],
      [o EXCEPT !.seasons = @ \cup {"autumn"}], [o EXCEPT !.scenarios = @ \cup {"strike"}],
      [o EXCEPT !.rollback = @ - 1], [o EXCEPT !.rpo = @ - 1], [o EXCEPT !.rto = @ - 1] }
EditedModules(r) ==
    UNION { { [r EXCEPT !.modules[i].site = "other"], [r EXCEPT !.modules[i].cutoff = 7],
              [r EXCEPT !.modules[i].cutoff = 8], [r EXCEPT !.modules[i].observed = 8],
              [r EXCEPT !.modules[i].mode = "production_shadow"],
              [r EXCEPT !.modules[i].exceptions = {"e"}], [r EXCEPT !.modules[i].verified = FALSE],
              [r EXCEPT !.modules = Append(@, r.modules[i])], [r EXCEPT !.modules = SubSeq(@, 1, i - 1) \o SubSeq(@, i + 1, Len(@))] }
            : i \in DOMAIN r.modules }
EditedApprovals(r) ==
    UNION { { [r EXCEPT !.approvals[i].decision = "rejected"], [r EXCEPT !.approvals[i].decision = "approved"],
              [r EXCEPT !.approvals[i].at = 9], [r EXCEPT !.approvals[i].at = 12],
              [r EXCEPT !.approvals = Append(@, r.approvals[i])] } : i \in DOMAIN r.approvals }
Edited(r) ==
       { [r EXCEPT !.operation = o] : o \in Worse(r.operation) }
  \cup EditedModules(r) \cup EditedApprovals(r)
  \cup { [r EXCEPT !.policy.rollback = 29], [r EXCEPT !.policy.site = "other"], [r EXCEPT !.at = 15] }

Init == request = Package /\ report = DefaultReport /\ edits = 0 /\ vouched = Nobody

Edit ==
    /\ edits < MaxEdits
    /\ \E r \in Edited(request) : r # request /\ request' = r
    /\ edits' = edits + 1 /\ report' = DefaultReport
    /\ UNCHANGED vouched

(* sign_package: every module, then every approval over the signed modules.  *)
Signed(r, keyOf) ==
    LET modules == [i \in DOMAIN r.modules |->
                       LET m == [r.modules[i] EXCEPT !.key = keyOf[r.modules[i].domain]]
                       IN  [m EXCEPT !.digest = Payload(m)]]
        s == [r EXCEPT !.modules = modules]
    IN  [s EXCEPT !.approvals = [i \in DOMAIN r.approvals |->
             [r.approvals[i] EXCEPT !.key = keyOf[r.approvals[i].role], !.bound = Subject(s)]]]
Signers == {[a \in Authorities |-> a]}
           \cup {[a \in Authorities |-> IF a = b THEN k ELSE a] : b \in Authorities, k \in WrongKeys}

(* What the signatures cover, and what else the gate of the approvals reads: *)
(* approval_subject_sha256 leaves the approvals out, so that nobody signs    *)
(* what an office decided, nor when.                                         *)
Content(r) == [r EXCEPT !.approvals = <<>>, !.modules = [i \in DOMAIN r.modules |-> Payload(@[i])]]
Votes(r) == [i \in DOMAIN r.approvals |-> r.approvals[i].decision]

Sign ==
    /\ request.modules # <<>>
    /\ \E keyOf \in Signers : request' = Signed(request, keyOf)
    /\ request' # request
    /\ vouched' = [content |-> Content(request'), votes |-> Votes(request')]
    /\ report' = DefaultReport
    /\ UNCHANGED edits

Evaluate ==
    /\ report = DefaultReport /\ request.modules # <<>>
    /\ report' = Report(request)
    /\ UNCHANGED <<request, edits, vouched>>

Next == Edit \/ Sign \/ Evaluate
Spec == Init /\ [][Next]_vars
-------------------------------------------------------------------------------
(* The properties. *)

TypeOK ==
    /\ edits \in 0..MaxEdits
    /\ report.status \in {"blocked", "reconciled_pending_attestation",
                          "eligible_for_external_cutover_review"}
    /\ report.eligible = (report.status = "eligible_for_external_cutover_review")

(* A package is eligible, and even pending, only with what the signatures of *)
(* its domains and offices cover as they had it before them: the policy, the *)
(* figures and every piece of evidence, edited in whatever order.            *)
JudgedAsSigned == report.status # "blocked" => vouched.content = Content(request)

(* "Content changed after signing" makes a package blocked: what is judged   *)
(* has the votes that were there when it was signed.                         *)
ChangedAfterSigningBlocks == report.status # "blocked" => vouched.votes = Votes(request)

(* A package that is answered as pending lacks its trust only: signed by the *)
(* keys of its authorities it is eligible.                                   *)
PendingNeedsOnlyKeys ==
    report.status = "reconciled_pending_attestation" =>
        Report(Signed(request, [a \in Authorities |-> a])).eligible

(* One key never answers for two authorities: domains and offices of an      *)
(* eligible package signed with as many keys.                                *)
KeyPerAuthority ==
    report.eligible =>
        Cardinality({m.key : m \in Range(request.modules)} \cup {a.key : a \in Range(request.approvals)})
            = Cardinality(Authorities)

(* All evidence of an eligible package speaks of one stretch of time: any    *)
(* two cut-offs are aligned and none is older than the policy allows.        *)
OnePicture ==
    report.eligible =>
        \A m, n \in Range(request.modules) :
            /\ m.cutoff - n.cutoff <= request.policy.alignment
            /\ request.at - m.observed <= request.policy.age

(* Better operational figures, signed like the others, never lose what the   *)
(* worse ones had: no comparison points the wrong way.                       *)
BetterNeverBlocks ==
    report.eligible =>
        \A o \in Better(request.operation) :
            Report(Signed([request EXCEPT !.operation = o], [a \in Authorities |-> a])).eligible
===============================================================================
