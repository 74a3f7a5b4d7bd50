----------------------------- MODULE DriftGuard -----------------------------
(***************************************************************************)
(* driftGuard(), which compares the rates of two windows of events, and    *)
(* auditDrift(), which compares what the policy decided of each tool in    *)
(* two audits.  Beside the fields of AuditTrace their events have          *)
(*                                                                         *)
(*   rule     policy.rule_id                                               *)
(*   tokens   model_output.token_count, 0 when there is none               *)
(*                                                                         *)
(* A rate is a fraction [num, den], exact where the code has a float.      *)
(***************************************************************************)
EXTENDS PolicyAudit, Scoring

(* A rate over nothing is 0.                                               *)
Rate(n, d) == [num |-> n, den |-> Greatest(1, d)]

ComputeStats(t) ==
    LET n == Len(t)
        calls == Cardinality(ToolCalls(t))
        count(S) == Cardinality(S)
    IN  [tool_call_rate |-> Rate(calls, n),
         deny_rate |-> Rate(count(Denials(t)), count(PolicyDecisions(t))),
         error_rate |-> Rate(count(Errors(t)), n),
         human_approval_rate |-> Rate(count(HumanApprovals(t)), n),
         avg_risk_tag_count |-> Rate(count(UNION {{i} \X t[i].tags : i \in ToolCalls(t)}), calls),
         high_risk_action_fraction |-> Rate(count(Tagged(t, {"high_risk", "mutation"})), calls),
         unique_tools_count |-> Rate(count({t[i].name : i \in NamedCalls(t)}), 1),
         model_output_token_rate |->
             Rate(count(UNION {{i} \X (1 .. t[i].tokens) : i \in OfType(t, "model_output")}), n),
         recording_mode_fidelity |->
             Rate(3 * Mode(t, "full") + 2 * Mode(t, "delta") + Mode(t, "validation"), calls)]

Gap(a, b) == IF a <= b THEN b - a ELSE a - b

(* The relative change from a to b exceeds the threshold; from 0 every     *)
(* change does.                                                            *)
Drifted(a, b, threshold) ==
    IF a.num = 0 THEN b.num # 0
    ELSE threshold.den * Gap(b.num * a.den, a.num * b.den) > threshold.num * (a.num * b.den)

DriftedMetrics(s, t, threshold) ==
    {m \in DOMAIN ComputeStats(s) : Drifted(ComputeStats(s)[m], ComputeStats(t)[m], threshold)}

DriftScore(s, t, threshold) == Rounded(100 * Cardinality(DriftedMetrics(s, t, threshold)), 9)

-----------------------------------------------------------------------------
(* The profile of a tool in an audit.                                      *)
DecisionsOf(t, name) == {t[i].decision : i \in {i \in NamedDecisions(t) : t[i].name = name}}

RuleIdsOf(t, name) ==
    {t[i].rule : i \in {i \in NamedDecisions(t) : t[i].name = name}} \ {None}

CalledTools(t) == {t[i].name : i \in NamedCalls(t)}

RankOf(decision) == CASE decision = "allow" -> 2 [] decision = "ask_user" -> 1 [] OTHER -> 0

MostPermissive(decisions) ==
    IF "allow" \in decisions THEN "allow" ELSE IF "ask_user" \in decisions THEN "ask_user" ELSE "deny"

EscalationSeverity(before, after) ==
    IF RankOf(before) = 0 /\ RankOf(after) = 2 THEN "critical"
    ELSE IF RankOf(after) = 2 THEN "high" ELSE "medium"

(* Tools some decision was made about in both audits, and not the same.    *)
Comparable(previous, current) ==
    {name \in InventoriedTools(previous) :
        DecisionsOf(previous, name) # {} /\ DecisionsOf(current, name) # {}}

Altered(previous, current) ==
    {name \in Comparable(previous, current) :
        \/ DecisionsOf(previous, name) # DecisionsOf(current, name)
        \/ RuleIdsOf(previous, name) # RuleIdsOf(current, name)}

Escalated(previous, current) ==
    {name \in Altered(previous, current) :
        RankOf(MostPermissive(DecisionsOf(current, name)))
          > RankOf(MostPermissive(DecisionsOf(previous, name)))}

AuditDrift(previous, current) ==
    [permission_escalations |->
        {[tool |-> name,
          severity |-> EscalationSeverity(MostPermissive(DecisionsOf(previous, name)),
                                          MostPermissive(DecisionsOf(current, name)))] :
            name \in Escalated(previous, current)},
     new_tools |-> CalledTools(current) \ CalledTools(previous),
     policy_changes |-> Altered(previous, current) \ Escalated(previous, current)]

DriftDetected(drift) == \E kind \in DOMAIN drift : drift[kind] # {}
=============================================================================
