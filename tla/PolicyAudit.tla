---------------------------- MODULE PolicyAudit ----------------------------
(***************************************************************************)
(* policyAudit(): the rules R1 to R6 as sets of findings, and inventory()  *)
(* as the facts the report prints beside them.  A finding is a record of   *)
(* its rule, its severity, the event it is keyed by (None for the finding  *)
(* about the whole trace) and the events it cites.                         *)
(***************************************************************************)
EXTENDS AuditTrace

Finding(rule, severity, key, cites) ==
    [rule |-> rule, severity |-> severity, key |-> key, cites |-> cites]

(* Mutant of At: keyed by the run instead of the event. *)
AtRun(t, rule, severity, i) == Finding(rule, severity, t[i].run, {t[i].id})

(* One finding at the position i of t, citing its event.                   *)
At(t, rule, severity, i) == Finding(rule, severity, t[i].id, {t[i].id})

(* R0: without declared capabilities the boundary rules are not applied.   *)
NoManifest(m) ==
    IF m.declared = {} THEN {Finding("OAA-R-CAP-000", "info", None, {})} ELSE {}

UndeclaredCapability(t, m) ==
    {At(t, "OAA-R-CAP-001", "high", i) :
        i \in {i \in ToolCalls(t) : m.declared # {} /\ t[i].cap # None
                                    /\ t[i].cap \notin m.declared}}

DeniedCapability(t, m) ==
    {At(t, "OAA-R-CAP-002", "critical", i) : i \in {i \in ToolCalls(t) : t[i].cap \in m.denied}}

(* Tools with any policy decision, in whatever run.                        *)
DecidedTools(t) == {t[i].name : i \in {i \in PolicyDecisions(t) : t[i].name # None}}

(* Mutant of Unsupervised: the approval must come before the call. *)
UnsupervisedSoFar(t, m) ==
    {i \in ToolCalls(t) : /\ t[i].cap \in m.high_risk
                          /\ \A j \in HumanApprovals(t) : j < i => t[j].run # t[i].run}

Unsupervised(t, m) ==
    {i \in ToolCalls(t) : /\ t[i].cap \in m.high_risk
                          /\ t[i].run \notin ApprovedRuns(t)
                          /\ \A j \in DOMAIN t : t[j].id = t[i].id => ~t[j].signal}

NoApproval(t, i) ==
    At(t, "OAA-R-OVERSIGHT-001", IF t[i].name \in DecidedTools(t) THEN "medium" ELSE "high", i)

HighRiskNoApproval(t, m) == {NoApproval(t, i) : i \in Unsupervised(t, m)}

(* Mutant of DeniedBefore: an approval of the run clears its denials. *)
DeniedBeforeUncleared(t, i) ==
    /\ t[i].run \notin ApprovedRuns(t)
    /\ \E j \in Denials(t) : j < i /\ t[j].run = t[i].run /\ t[j].name = t[i].name

DeniedBefore(t, i) ==
    \E j \in Denials(t) : j < i /\ t[j].run = t[i].run /\ t[j].name = t[i].name

DenyIgnored(t) ==
    {At(t, "OAA-R-POLICY-001", "critical", i) :
        i \in {i \in ToolCalls(t) : t[i].name # None /\ DeniedBefore(t, i)}}

MissingPolicy(t) ==
    {At(t, "OAA-R-POLICY-002", "medium", i) :
        i \in {i \in Tagged(t, {"high_risk", "mutation"}) :
                   t[i].name # None /\ t[i].name \notin DecidedTools(t)}}

BrokenLink(t, i) ==
    Finding("OAA-R-INTEGRITY-001", "medium", t[i].id,
            {t[i].id} \cup {t[j].id : j \in {j \in Linked(t) : Precedes(Linked(t), j, i)}})

ChainBreak(t) == {BrokenLink(t, i) : i \in Breaks(t, Linked(t))}

Findings(t, m) ==
    NoManifest(m) \cup UndeclaredCapability(t, m) \cup DeniedCapability(t, m)
    \cup HighRiskNoApproval(t, m) \cup DenyIgnored(t) \cup MissingPolicy(t) \cup ChainBreak(t)

(* The position of a finding in `findings`: rule and event, as makeFindingId. *)
FindingId(f) == <<f.rule, f.key>>

Cited(F, rules) == UNION {f.cites : f \in {f \in F : f.rule \in rules}}

-----------------------------------------------------------------------------
(* inventory(): the tools named by calls and decisions, failures charged   *)
(* to the last tool called in the run, and the risky calls with what       *)
(* followed them.                                                          *)
HighRiskTags == {"human_required", "high_risk", "mutation", "filesystem", "network", "secret"}

NamedDecisions(t) == {i \in PolicyDecisions(t) : t[i].name # None /\ t[i].decision # None}
NamedCalls(t)     == {i \in ToolCalls(t) : t[i].name # None}

(* The error at i is charged to the call at c: no other named call and no  *)
(* other error of the run lies between them.                               *)
ChargedTo(t, i, c) ==
    /\ c \in NamedCalls(t) /\ c < i /\ t[c].run = t[i].run
    /\ \A k \in NamedCalls(t) \cup Errors(t) : ~(c < k /\ k < i /\ t[k].run = t[i].run)

ToolSummary(t, name) ==
    LET calls == {i \in NamedCalls(t) : t[i].name = name}
        decided(d) == {i \in NamedDecisions(t) : t[i].name = name /\ t[i].decision = d}
    IN  [calls    |-> Cardinality(calls),
         failures |-> Cardinality({i \in Errors(t) : \E c \in calls : ChargedTo(t, i, c)}),
         denied   |-> Cardinality(decided("deny")),
         approved |-> Cardinality(decided("allow"))]

InventoriedTools(t) == {t[i].name : i \in NamedCalls(t) \cup NamedDecisions(t)}

(* The first capability seen for a tool names it in the inventory.         *)
CapabilityOf(t, name) ==
    LET seen == {i \in NamedCalls(t) \cup NamedDecisions(t) : t[i].name = name /\ t[i].cap # None}
    IN  IF seen = {} THEN None ELSE t[CHOOSE i \in seen : \A j \in seen : i <= j].cap

(* Policy decisions counted for a capability, through its tools.           *)
PolicyCount(t, cap) ==
    Cardinality({i \in PolicyDecisions(t) :
                    t[i].name # None /\ CapabilityOf(t, t[i].name) = cap /\ cap # None})

HighRiskActions(t) == {i \in Tagged(t, HighRiskTags) : t[i].name # None}

(* has_approval: an approval of the run at or after the call.              *)
HasApproval(t, i) ==
    /\ t[i].at # None
    /\ \E j \in HumanApprovals(t) :
          t[j].human # None /\ t[j].run = t[i].run /\ t[j].at # None /\ t[j].at >= t[i].at
=============================================================================
