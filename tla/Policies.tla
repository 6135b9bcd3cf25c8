------------------------------- MODULE Policies -------------------------------
(* The two sets of rules AutoService asks before it acts: what an operator may *)
(* promise by himself (permission.py, with the defaults of its domains), and   *)
(* what a tenant's configuration lacks for an environment (compliance.py).     *)
(* Both are functions of their arguments; the theorems are about every rule    *)
(* set, or about the tables in the source.  The drafts that the morning        *)
(* message shows (morning_push.py) are chosen by such a function as well.      *)
EXTENDS Integers, Sequences, FiniteSets

-----------------------------------------------------------------------------
(* Permissions                                                                 *)

CONSTANTS
  Subjects,   \* what a rule may be about: the words it looks for in an action
  NoAmount    \* an action that names no number

(* An action is a record: what it says, a set of subjects, and its amount.     *)
(* A rule without a threshold has the operator "contains".  Any other operator *)
(* the pattern lets through, as in "refund<>5", compares nothing.              *)
Rules == [about : Subjects, operator : STRING, threshold : Nat]

About(subject)        == [about |-> subject, operator |-> "contains", threshold |-> 0]
Below(subject, n)     == [about |-> subject, operator |-> "<", threshold |-> n]
AtLeast(subject, n)   == [about |-> subject, operator |-> ">=", threshold |-> n]

Compares(operator, amount, threshold) ==
  \/ operator = "<"  /\ amount < threshold
  \/ operator = "<=" /\ amount <= threshold
  \/ operator = ">"  /\ amount > threshold
  \/ operator = ">=" /\ amount >= threshold
  \/ operator = "="  /\ amount = threshold

MatchesThreshold(action, rule) ==
  action.amount /= NoAmount /\ Compares(rule.operator, action.amount, rule.threshold)

Matches(action, rule) ==
  /\ rule.about \in action.says
  /\ rule.operator = "contains" \/ MatchesThreshold(action, rule)

AnyMatches(action, rules) == \E rule \in rules : Matches(action, rule)

(* The strictest rules first; what no rule knows goes to the supervisor.       *)
CheckPermission(permissions, action) ==
  IF AnyMatches(action, permissions.forbidden) THEN "forbidden"
  ELSE IF AnyMatches(action, permissions.requires_process) THEN "requires_process"
  ELSE IF AnyMatches(action, permissions.requires_supervisor) THEN "requires_supervisor"
  ELSE IF AnyMatches(action, permissions.can_approve_immediately) THEN "approve_immediately"
  ELSE "requires_supervisor"

Allowed(permissions, action) == CheckPermission(permissions, action) = "approve_immediately"

DefaultCustomerService ==
  [can_approve_immediately |-> {Below("refund", 100), Below("deferred repayment", 7)} \cup
     {About(s) : s \in {"reset password", "unlock account", "resend code", "change contact",
                        "query bill", "explain policy"}},
   requires_supervisor |-> {AtLeast("refund", 100), AtLeast("deferred repayment", 7)} \cup
     {About(s) : s \in {"close account", "VIP upgrade", "special discount", "escalate complaint"}},
   requires_process |-> {About(s) : s \in {"large compensation", "legal", "media", "bulk refund"}},
   forbidden |-> {About(s) : s \in {"disclose other users", "promise off policy",
                                    "change transactions", "bypass verification"}}]

DefaultMarketing ==
  [can_approve_immediately |-> {Below("trial", 30), Below("discount", 10), Below("deferred payment", 15)} \cup
     {About(s) : s \in {"product material", "arrange demo", "present quote"}},
   requires_supervisor |-> {AtLeast("trial", 30), AtLeast("discount", 10)} \cup
     {About(s) : s \in {"custom development", "special payment terms", "strategic cooperation"}},
   requires_process |-> {About(s) : s \in {"annual agreement", "exclusive agency", "white label",
                                           "source licence"}},
   forbidden |-> {About(s) : s \in {"false promise", "disparage competitor",
                                    "disclose other customers", "promise unreleased"}}]

NoPermissions == [can_approve_immediately |-> {}, requires_supervisor |-> {},
                  requires_process |-> {}, forbidden |-> {}]

DefaultPermissions(domain) ==
  IF domain = "customer-service" THEN DefaultCustomerService
  ELSE IF domain = "marketing" THEN DefaultMarketing
  ELSE NoPermissions

(* A product's own permissions replace those of the domain, the forbidden ones *)
(* included.  The lists a product leaves out are empty.                        *)
CheckDomainPermission(action, product, domain) ==
  CheckPermission(
    IF product = NoPermissions THEN DefaultPermissions(domain) ELSE product, action)

-----------------------------------------------------------------------------
(* Compliance                                                                  *)

CONSTANTS
  Satisfied,   \* the pairs <<target, value>> where value matches or contains target
  NoSoul       \* no soul in the configuration, no soul.json

(* A configuration has parts ("tenant", "soul"), each with fields.             *)
ResolveField(config, field) ==
  IF field.part \in DOMAIN config /\ field.name \in DOMAIN config[field.part]
  THEN config[field.part][field.name] ELSE "none"

(* Values are told apart as far as the conditions do: "none", "true", "false", *)
(* "blank" (no characters, no elements) and others.                            *)
EvaluateCondition(value, condition) ==
  \/ condition.type = "must_be_true"   /\ value = "true"
  \/ condition.type = "must_be_false"  /\ value = "false"
  \/ condition.type = "must_exist"     /\ value /= "none"
  \/ condition.type = "must_not_empty" /\ value \notin {"none", "blank"}
  \/ condition.type \in {"must_match", "must_contain"} /\ <<condition.target, value>> \in Satisfied

Passes(config, rule) == EvaluateCondition(ResolveField(config, rule.field), rule.condition)

(* The rules a scan fails: of all regions ("all"), or of one.                  *)
ScanFails(rules, config, region) ==
  {rule \in rules : region \in {"all", rule.region} /\ ~Passes(config, rule)}

RiskLevel(failed) ==
  IF failed = {} THEN "pass"
  ELSE IF \E rule \in failed : rule.severity = "critical" THEN "critical"
  ELSE IF \E rule \in failed : rule.severity = "high" THEN "high"
  ELSE "low"

Blocked(failed, environment) == \E rule \in failed : environment \in rule.blocking

(* The rules of rules.yaml: what they block goes by their severity.            *)
BlockedBy(severity) ==
  CASE severity = "critical" -> {"production", "dream_engine"}
    [] severity = "high"     -> {"production"}
    [] severity = "medium"   -> {}

ComplianceRule(id, region, severity, part, name, type) ==
  [rule_id |-> id, region |-> region, severity |-> severity,
   field |-> [part |-> part, name |-> name], condition |-> [type |-> type, target |-> "none"],
   blocking |-> BlockedBy(severity)]

ComplianceRules ==
  {ComplianceRule("eu-01", "EU", "critical", "soul", "disclosure_enabled", "must_be_true"),
   ComplianceRule("eu-02", "EU", "critical", "tenant", "privacy_policy_url", "must_not_empty"),
   ComplianceRule("eu-03", "EU", "critical", "tenant", "consent_mechanism_enabled", "must_be_true"),
   ComplianceRule("eu-04", "EU", "high", "tenant", "data_retention_days", "must_exist"),
   ComplianceRule("eu-05", "EU", "high", "tenant", "right_to_erasure_enabled", "must_be_true"),
   ComplianceRule("eu-06", "EU", "medium", "soul", "human_escalation_enabled", "must_be_true"),
   ComplianceRule("us-01", "US", "critical", "tenant", "data_collection_disclosure", "must_be_true"),
   ComplianceRule("us-02", "US", "high", "tenant", "opt_out_enabled", "must_be_true"),
   ComplianceRule("us-03", "US", "critical", "tenant", "coppa_compliant", "must_be_true"),
   ComplianceRule("us-04", "US", "medium", "soul", "automated_decision_notice", "must_be_true"),
   ComplianceRule("cn-01", "CN", "critical", "tenant", "provider_registration_id", "must_not_empty"),
   ComplianceRule("cn-02", "CN", "critical", "soul", "ai_content_labeling", "must_be_true"),
   ComplianceRule("cn-03", "CN", "critical", "tenant", "data_cross_border_enabled", "must_be_false"),
   ComplianceRule("cn-04", "CN", "high", "tenant", "user_identity_verification", "must_be_true"),
   ComplianceRule("cn-05", "CN", "high", "tenant", "complaint_channel_url", "must_not_empty"),
   ComplianceRule("cn-06", "CN", "medium", "tenant", "training_data_compliance", "must_be_true")}

(* What /api/onboard/activate writes, whatever was there before.               *)
ActivatedTenant ==
  [status |-> "active", privacy_policy_url |-> "blank", consent_mechanism_enabled |-> "false",
   data_retention_days |-> "none", right_to_erasure_enabled |-> "false",
   data_collection_disclosure |-> "false", opt_out_enabled |-> "false", coppa_compliant |-> "false",
   provider_registration_id |-> "blank", data_cross_border_enabled |-> "false",
   user_identity_verification |-> "false", complaint_channel_url |-> "blank",
   training_data_compliance |-> "false"]

ActivatedSoul ==
  [disclosure_enabled |-> "false", human_escalation_enabled |-> "false",
   automated_decision_notice |-> "false", ai_content_labeling |-> "false"]

(* /api/compliance/check reads the soul from the tenant's config, else from    *)
(* soul.json; a file that does not parse is an empty soul, no file is none.    *)
CheckedConfig(tenant, soul, soulFile) ==
  IF soul /= NoSoul THEN [tenant |-> tenant, soul |-> soul]
  ELSE IF soulFile = NoSoul THEN [tenant |-> tenant]
  ELSE [tenant |-> tenant, soul |-> soulFile]

(* _run_compliance_check of the proposal pipeline scans the proposal itself:   *)
(* its flags are the rules it fails.                                           *)
ProposalFlags(proposal) == ScanFails(ComplianceRules, proposal, "all")

ProposalPasses(proposal) == ProposalFlags(proposal) = {}

-----------------------------------------------------------------------------
(* The morning message                                                         *)

PriorityOrder == [high |-> 0, medium |-> 1, low |-> 2]

(* The drafts by their priority, as list_proposals returns them: newest first. *)
(* The sort keeps that order among equals.                                     *)
Before(drafts, i, j) ==
  \/ PriorityOrder[drafts[i]] < PriorityOrder[drafts[j]]
  \/ PriorityOrder[drafts[i]] = PriorityOrder[drafts[j]] /\ i < j

AreBefore(drafts, j) == {i \in DOMAIN drafts : Before(drafts, i, j)}

TopProposals(drafts) == {j \in DOMAIN drafts : Cardinality(AreBefore(drafts, j)) < 5}
=============================================================================
