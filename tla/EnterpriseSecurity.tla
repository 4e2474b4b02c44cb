-------------------------- MODULE EnterpriseSecurity ---------------------------
(* The enterprise and OT safeguards of a site (EnterpriseSecurityService):   *)
(* nine systems answer each for a part of a package, one run of              *)
(* sign_enterprise_security_evidence.py signs all parts with their keys,     *)
(* evaluate() checks the sources behind three gates and what they say behind *)
(* seventeen.                                                                *)
(*                                                                           *)
(* The yes-or-no answers of a part are the set of the safeguards it lacks;   *)
(* of the counts and figures there are those that a limit applies to.        *)
(* Availability is in hundredths of a per cent, times are in minutes.        *)
EXTENDS Evidence

CONSTANTS Trusted, MaxEdits
VARIABLES request, report, edits, vouched
vars == <<request, report, edits, vouched>>

DomainSeq == <<"identity_provider", "authorization_and_tenant_control", "message_and_timeseries_platform",
               "ha_orchestrator", "backup_dr_platform", "worm_siem_platform", "pki_key_management",
               "ot_security_monitor", "enterprise_governance">>
Domains == Range(DomainSeq)
Frameworks == {"NIST SP 800-82 Rev.3", "NIST SP 800-207", "NIST SP 800-63C-4"}
Zones == {"enterprise_it", "industrial_dmz", "ot_control", "safety_system"}
Offices == {"enterprise_owner", "chief_information_security_officer", "ot_security_owner"}

DefaultReport == [status |-> "blocked", passed |-> {}, verified |-> None]
-------------------------------------------------------------------------------
(* The package.                                                              *)
Policy == [start |-> 0, end |-> 100, frameworks |-> Frameworks, slo |-> 9990, rpo |-> 15, rto |-> 30,
           retention |-> 2555, keyAge |-> 90, age |-> 40, alignment |-> 10, tls |-> "TLS1.2", architecture |-> "v1"]
Identity == [keys |-> 2, deprovision |-> 15, missing |-> {}]
Authorization == [users |-> 20, bindings |-> 24, tenants |-> <<"a", "b">>, keys |-> [a |-> "ka", b |-> "kb"],
                  tests |-> 50, rejected |-> 50, missing |-> {}]
Platform == [nodes |-> 3, published |-> 10000, acked |-> 10000, duplicates |-> 0, store |-> 3, replicas |-> 3,
             days |-> 730, missing |-> {}]
Availability == [api |-> 3, worker |-> 3, zones |-> 3, database |-> 3, failover |-> 2, available |-> 9999,
                 capacity |-> 120, missing |-> {}]
Backup == [days |-> 365, rpo |-> 5, rto |-> 20, missing |-> {}]
AuditLog == [days |-> 2555, generated |-> 10000, delivered |-> 10000, rules |-> 12, detection |-> 4, missing |-> {}]
Pki == [tls |-> "TLS1.3", expired |-> 0, remaining |-> 90, keyAge |-> 30, missing |-> {}]
Ot == [zones |-> Zones, inventory |-> 100, remediation |-> 98, missing |-> {}]
Approval(role, by) == [role |-> role, by |-> by, decision |-> "approved", architecture |-> "v1"]
Attestation(d) == [domain |-> d, observed |-> 45, live |-> TRUE, key |-> "none", over |-> None]

Package ==
    [at |-> 50, policy |-> Policy, identity |-> Identity, authorization |-> Authorization, platform |-> Platform,
     ha |-> Availability, backup |-> Backup, audit |-> AuditLog, pki |-> Pki, ot |-> Ot,
     approvals |-> <<Approval("enterprise_owner", "eve"), Approval("chief_information_security_officer", "cy"),
                     Approval("ot_security_owner", "otto")>>,
     attestations |-> [i \in DOMAIN DomainSeq |-> Attestation(DomainSeq[i])]]

(* The validators of the request.                                            *)
Valid(r) ==
    /\ r.policy.start < r.policy.end /\ Cardinality(r.policy.frameworks) >= 3 /\ r.identity.keys >= 2
    /\ Distinct(r.authorization.tenants, LAMBDA t : t) /\ Cardinality(r.ot.zones) >= 4 /\ Len(r.approvals) >= 3
    /\ r.attestations # <<>>

(* source_domain_payload.                                                    *)
Owned(d) ==
    CASE d = "identity_provider" -> {"identity"}
      [] d = "authorization_and_tenant_control" -> {"authorization"}
      [] d = "message_and_timeseries_platform" -> {"platform"}
      [] d = "ha_orchestrator" -> {"ha"}
      [] d = "backup_dr_platform" -> {"backup"}
      [] d = "worm_siem_platform" -> {"audit"}
      [] d = "pki_key_management" -> {"pki"}
      [] d = "ot_security_monitor" -> {"ot"}
      [] d = "enterprise_governance" -> {"policy", "approvals"}
Payload(r, d) == [f \in Owned(d) |-> r[f]]
-------------------------------------------------------------------------------
(* The source gates. *)

Covered(r) == /\ Distinct(r.attestations, LAMBDA a : a.domain)
              /\ {a.domain : a \in Range(r.attestations)} = Domains
SignatureValid(r, a) == a.key \in Trusted /\ a.over = <<a.domain, Payload(r, a.domain)>>
SourcesSigned(r) == Covered(r) /\ \A a \in Range(r.attestations) : SignatureValid(r, a)
FreshAndLive(r) ==
    \A a, b \in Range(r.attestations) :
        /\ a.live /\ 0 <= r.at - a.observed /\ r.at - a.observed <= r.policy.age
        /\ a.observed - b.observed <= r.policy.alignment
-------------------------------------------------------------------------------
(* The gates of the safeguards. *)

Governed(r) == Frameworks \subseteq r.policy.frameworks /\ r.policy.start <= r.at /\ r.at <= r.policy.end
Federated(r) == "https" \notin r.identity.missing /\ r.identity.keys >= 2
LifecycleReady(r) ==
    /\ r.identity.missing \cap {"mfa", "phishing_resistant", "deprovisioning", "dormant_disabled", "break_glass"} = {}
    /\ r.identity.deprovision <= 60
NamedReady(r) == r.authorization.bindings >= r.authorization.users /\ "least_privilege" \notin r.authorization.missing
Segregated(r) == "privileged_review" \notin r.authorization.missing
TenantsReady(r) ==
    LET z == r.authorization
    IN  /\ Range(z.tenants) = DOMAIN z.keys
        /\ \A t, u \in DOMAIN z.keys : z.keys[t] = z.keys[u] => t = u
        /\ z.tests = z.rejected
        /\ z.missing \cap {"row_level_security", "partition_keys"} = {}
MessagingReady(r) ==
    LET p == r.platform
    IN  /\ p.nodes >= 3 /\ 1000 * p.acked >= 999 * p.published /\ p.duplicates = 0
        /\ p.missing \cap {"quorum", "durable", "idempotency", "acknowledgements", "schemas", "dead_letters", "replay"} = {}
SeriesReady(r) ==
    /\ r.platform.store >= 2 /\ r.platform.replicas >= 2 /\ r.platform.days >= 30
    /\ r.platform.missing \cap {"series_export", "tenant_partition"} = {}
TopologyReady(r) ==
    /\ \A tier \in {"api", "worker", "zones", "database"} : r.ha[tier] >= 2
    /\ r.ha.missing \cap {"health_checks", "failover", "split_brain"} = {}
FailoverReady(r) ==
    /\ "failover_drill" \notin r.ha.missing
    /\ r.ha.failover <= r.policy.rto /\ r.ha.available >= r.policy.slo /\ r.ha.capacity >= 100
BackupReady(r) == r.backup.missing \cap {"encrypted", "immutable", "separate", "offline"} = {} /\ r.backup.days >= 30
RecoveryReady(r) ==
    /\ r.backup.missing \cap {"restore_drill", "hash_matches"} = {}
    /\ r.backup.rpo <= r.policy.rpo /\ r.backup.rto <= r.policy.rto
WormReady(r) ==
    /\ r.audit.missing \cap {"worm", "retention_lock", "hash_chain", "clocks", "redaction"} = {}
    /\ r.audit.days >= r.policy.retention /\ 1000 * r.audit.delivered >= 999 * r.audit.generated
SiemReady(r) == r.audit.rules >= 5 /\ "detection_drill" \notin r.audit.missing /\ r.audit.detection <= 15

TlsRank(version) == CASE version = "TLS1.2" -> 2 [] version = "TLS1.3" -> 3 [] OTHER -> 0
PkiReady(r) ==
    /\ TlsRank(r.pki.tls) >= TlsRank(r.policy.tls) /\ r.pki.missing = {}
    /\ r.pki.expired = 0 /\ r.pki.remaining <= 397 /\ r.pki.keyAge <= r.policy.keyAge
Segmented(r) ==
    /\ Zones \subseteq r.ot.zones /\ r.ot.inventory >= 95 /\ r.ot.remediation >= 95
    /\ r.ot.missing \cap {"default_deny", "no_internet", "read_only_gateway", "egress_allowlist", "jump_host",
                          "remote_mfa", "recorded", "just_in_time"} = {}

Approved(r) ==
    /\ Len(r.approvals) = 3
    /\ {a.role : a \in {x \in Range(r.approvals) : x.decision = "approved"}} = Offices
    /\ Distinct(r.approvals, LAMBDA a : a.by)
    /\ \A a \in Range(r.approvals) : a.architecture = r.policy.architecture
OtSafe(r) ==
    /\ r.ot.missing \cap {"exercise", "interlock", "manual_control", "no_command_authority"} = {}
    /\ Approved(r)
-------------------------------------------------------------------------------
SourceGates == {"source_domain_coverage", "source_signatures", "source_time_and_live"}
Gates(r) ==
    [source_domain_coverage |-> Covered(r), source_signatures |-> SourcesSigned(r),
     source_time_and_live |-> FreshAndLive(r), governance_frameworks |-> Governed(r),
     federated_identity |-> Federated(r), mfa_and_identity_lifecycle |-> LifecycleReady(r),
     named_rbac_least_privilege |-> NamedReady(r), segregation_and_privileged_review |-> Segregated(r),
     tenant_isolation |-> TenantsReady(r), durable_messaging |-> MessagingReady(r),
     timeseries_resilience |-> SeriesReady(r), ha_topology |-> TopologyReady(r),
     failover_and_slo |-> FailoverReady(r), immutable_backups |-> BackupReady(r),
     restore_rpo_rto |-> RecoveryReady(r), worm_audit_retention |-> WormReady(r),
     siem_detection_response |-> SiemReady(r), mtls_and_key_rotation |-> PkiReady(r),
     ot_segmentation_remote_access |-> Segmented(r), ot_safety_and_approvals |-> OtSafe(r)]

Verified(r) ==
    [users |-> r.authorization.users, organizations |-> Len(r.authorization.tenants), nodes |-> r.platform.nodes,
     rpo |-> r.backup.rpo, rto |-> r.backup.rto, retention |-> r.audit.days, tls |-> r.pki.tls]
Report(r) ==
    LET gates == Gates(r)
        passed == {g \in DOMAIN gates : gates[g]}
    IN  [status |-> IF passed = DOMAIN gates THEN "evidence_package_passed"
                    ELSE IF DOMAIN gates \ SourceGates \subseteq passed THEN "reconciled_pending_source_attestation"
                    ELSE "blocked",
         passed |-> passed, verified |-> IF passed = DOMAIN gates THEN Verified(r) ELSE None]
-------------------------------------------------------------------------------
(* Edits of a package, by whoever prepares it.                               *)
EditedAccess(r) ==
    { [r EXCEPT !.identity.missing = {"mfa"}], [r EXCEPT !.identity.missing = {"https"}],
      [r EXCEPT !.identity.deprovision = 61], [r EXCEPT !.identity.deprovision = 60],
      [r EXCEPT !.authorization.bindings = 19], [r EXCEPT !.authorization.missing = {"least_privilege"}],
      [r EXCEPT !.authorization.missing = {"privileged_review"}], [r EXCEPT !.authorization.keys.b = "ka"],
      [r EXCEPT !.authorization.tenants = <<"a", "b", "c">>], [r EXCEPT !.authorization.rejected = 49],
      [r EXCEPT !.authorization.tenants = <<"a", "b", "c">>, !.authorization.keys = [a |-> "ka", b |-> "kb", c |-> "kb"]],
      [r EXCEPT !.authorization.missing = {"partition_keys"}], [r EXCEPT !.authorization.tenants = <<"a">>] }
EditedPlatform(r) ==
    { [r EXCEPT !.platform.nodes = 2], [r EXCEPT !.platform.acked = 9900], [r EXCEPT !.platform.acked = 9990],
      [r EXCEPT !.platform.duplicates = 1], [r EXCEPT !.platform.missing = {"replay"}],
      [r EXCEPT !.platform.missing = {"series_export"}], [r EXCEPT !.platform.replicas = 1],
      [r EXCEPT !.ha.zones = 1], [r EXCEPT !.ha.missing = {"split_brain"}], [r EXCEPT !.ha.failover = 31],
      [r EXCEPT !.ha.available = 9985], [r EXCEPT !.ha.capacity = 99], [r EXCEPT !.backup.missing = {"restore_drill"}],
      [r EXCEPT !.backup.missing = {"offline"}], [r EXCEPT !.backup.rpo = 16], [r EXCEPT !.backup.rto = 31] }
EditedOversight(r) ==
    { [r EXCEPT !.audit.days = 365], [r EXCEPT !.audit.delivered = @ - 11], [r EXCEPT !.audit.detection = 16],
      [r EXCEPT !.audit.missing = {"worm"}], [r EXCEPT !.pki.tls = "TLS1.2"], [r EXCEPT !.policy.tls = "TLS1.3"],
      [r EXCEPT !.policy.tls = "TLS1.3", !.pki.tls = "TLS1.2"], [r EXCEPT !.pki.keyAge = 91], [r EXCEPT !.pki.expired = 1],
      [r EXCEPT !.pki.remaining = 398], [r EXCEPT !.pki.missing = {"revocation"}], [r EXCEPT !.ot.missing = {"jump_host"}],
      [r EXCEPT !.ot.missing = {"interlock"}], [r EXCEPT !.ot.zones = (@ \ {"safety_system"}) \cup {"guest"}],
      [r EXCEPT !.ot.inventory = 94], [r EXCEPT !.policy.frameworks = (@ \ {"NIST SP 800-207"}) \cup {"ISO 27001"}],
      [r EXCEPT !.policy.rto = 15], [r EXCEPT !.policy.retention = @ + 445] }
EditedTrust(r) ==
    { [r EXCEPT !.policy.architecture = "v2"], [r EXCEPT !.approvals[2].by = "eve"], [r EXCEPT !.approvals[1].decision = "rejected"],
      [r EXCEPT !.approvals[3].role = "enterprise_owner"], [r EXCEPT !.approvals[3].architecture = "v0"],
      [r EXCEPT !.approvals = Append(@, [Approval("ot_security_owner", "olga") EXCEPT !.decision = "rejected"])],
      [r EXCEPT !.at = 101], [r EXCEPT !.at = 90], [r EXCEPT !.at = 44],
      [r EXCEPT !.attestations[1].live = FALSE], [r EXCEPT !.attestations[2].observed = 30],
      [r EXCEPT !.attestations[2].observed = 35], [r EXCEPT !.attestations[3].domain = r.attestations[4].domain],
      [r EXCEPT !.attestations = ButLast(@)] }
Edited(r) == EditedAccess(r) \cup EditedPlatform(r) \cup EditedOversight(r) \cup EditedTrust(r)

Init == request = Package /\ report = DefaultReport /\ edits = 0 /\ vouched = [f \in {} |-> None]

Edit ==
    /\ edits < MaxEdits
    /\ \E r \in Edited(request) : r # request /\ Valid(r) /\ request' = r
    /\ edits' = edits + 1 /\ report' = DefaultReport
    /\ UNCHANGED vouched

(* All nine parts are signed, each with the key that is named for it.        *)
Signed(r, Key) ==
    [r EXCEPT !.attestations = [i \in DOMAIN r.attestations |->
        LET a == r.attestations[i]
        IN  [a EXCEPT !.key = Key[a.domain], !.over = <<a.domain, Payload(r, a.domain)>>]]]
Sign ==
    /\ {a.domain : a \in Range(request.attestations)} = Domains
    /\ \E odd \in Domains, key \in {"k1", "k2"} :
        request' = Signed(request, [d \in Domains |-> IF d = odd THEN key ELSE "k1"])
    /\ vouched' = [f \in DOMAIN request \ {"at", "attestations"} |-> request[f]]
    /\ request' # request /\ report' = DefaultReport
    /\ UNCHANGED edits

Evaluate ==
    /\ report = DefaultReport
    /\ report' = Report(request)
    /\ UNCHANGED <<request, edits, vouched>>

Next == Edit \/ Sign \/ Evaluate
Spec == Init /\ [][Next]_vars
-------------------------------------------------------------------------------
(* The properties. *)

Passed == report.status = "evidence_package_passed"
Reconciled == Passed \/ report.status = "reconciled_pending_source_attestation"

TypeOK ==
    /\ edits \in 0..MaxEdits
    /\ (report.verified # None) = Passed
    /\ DOMAIN vouched \in {{}, DOMAIN request \ {"at", "attestations"}}

(* Safeguards are verified only as the nine systems signed them, policy and  *)
(* approvals included.                                                       *)
SecuredAsSigned ==
    Passed => DOMAIN vouched # {} /\ \A f \in DOMAIN vouched : vouched[f] = request[f]

(* A package that waits for its sources needs nothing else: attested now by  *)
(* the nine systems it passes.                                               *)
PendingNeedsOnlySources ==
    report.status = "reconciled_pending_source_attestation" =>
        LET fresh == [request EXCEPT !.attestations =
                        [i \in DOMAIN DomainSeq |-> [Attestation(DomainSeq[i]) EXCEPT !.observed = request.at]]]
        IN  Report(Signed(fresh, [d \in Domains |-> "k1"])).status = "evidence_package_passed"

(* The architecture in force was approved by three people in three offices,  *)
(* and nobody who was asked refused it.                                      *)
ThreeOwnersApprove ==
    Reconciled =>
        /\ \A o \in Offices :
            Cardinality({i \in DOMAIN request.approvals :
                request.approvals[i].role = o /\ request.approvals[i].architecture = request.policy.architecture}) = 1
        /\ Cardinality({request.approvals[i].by : i \in DOMAIN request.approvals}) = 3
        /\ \A i \in DOMAIN request.approvals : request.approvals[i].decision # "rejected"

(* Every tenant has a key of its own and there is no key without a tenant.   *)
TenantsApart ==
    Reconciled =>
        LET z == request.authorization
        IN  /\ Cardinality({z.keys[t] : t \in DOMAIN z.keys}) = Len(z.tenants)
            /\ \A i \in DOMAIN z.tenants : z.tenants[i] \in DOMAIN z.keys

(* Better figures never block: no gate that is open closes when one measure  *)
(* of the site improves, whatever it was before.                             *)
Better(r) ==
    { [r EXCEPT !.pki.tls = "TLS1.3"], [r EXCEPT !.pki.keyAge = @ - 1], [r EXCEPT !.pki.remaining = @ - 1],
      [r EXCEPT !.audit.days = @ + 1], [r EXCEPT !.audit.delivered = @ + 1], [r EXCEPT !.audit.detection = @ - 1],
      [r EXCEPT !.backup.rpo = @ - 1], [r EXCEPT !.backup.rto = @ - 1], [r EXCEPT !.ha.failover = @ - 1],
      [r EXCEPT !.ha.available = @ + 1], [r EXCEPT !.platform.acked = @ + 1], [r EXCEPT !.platform.nodes = @ + 1],
      [r EXCEPT !.identity.deprovision = @ - 1], [r EXCEPT !.ot.remediation = @ + 1] }
BetterNeverBlocks ==
    Reconciled => \A r \in Better(request) : report.passed \ SourceGates \subseteq Report(r).passed
===============================================================================
