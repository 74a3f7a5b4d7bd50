------------------------------ MODULE Scoring ------------------------------
(***************************************************************************)
(* computeRiskScore(): the Evidence Admission Score and the Agent Risk     *)
(* Score of a trace.  The code computes in floating point; here a score    *)
(* that is not an integer is a fraction [num, den] and Math.round rounds   *)
(* it exactly.                                                             *)
(***************************************************************************)
EXTENDS AuditTrace

Least(a, b)    == IF a <= b THEN a ELSE b
Greatest(a, b) == IF a >= b THEN a ELSE b

Clamp(x, low, high) == Greatest(low, Least(high, x))

(* Math.round(num / den) for den > 0.                                      *)
Rounded(num, den) == (2 * num + den) \div (2 * den)

Grade(score) == CASE score >= 90 -> "A"
                  [] score >= 75 /\ score < 90 -> "B"
                  [] score >= 60 /\ score < 75 -> "C"
                  [] score >= 40 /\ score < 60 -> "D"
                  [] score < 40 -> "F"

-----------------------------------------------------------------------------
Unpaired(t) ==
    {t[i].name : i \in {i \in ToolCalls(t) : Filled(t[i].name)}}
      \ {t[i].of : i \in Observations(t)}

Mode(t, mode) == Cardinality({i \in ToolCalls(t) : t[i].mode = mode})

(* Fifty points for evidence ids, thirty for dates, two per tool nothing   *)
(* was observed of, and a bonus for the recording mode of the calls.       *)
TraceCompleteness(t) ==
    LET n == Len(t)
        calls == Greatest(1, Cardinality(ToolCalls(t)))
        unnumbered == Cardinality({i \in DOMAIN t : ~t[i].evidence.numbered})
        undated == Cardinality({i \in DOMAIN t : t[i].at = None})
        bonus == 3 * Mode(t, "full") + Mode(t, "delta") - 2 * Mode(t, "validation")
        den == n * calls
        num == den * (100 - 2 * Cardinality(Unpaired(t)))
                 - calls * (50 * unnumbered + 30 * undated) + n * bonus
    IN  IF n = 0 THEN [num |-> 0, den |-> 1]
        ELSE [num |-> Clamp(num, 0, 100 * den), den |-> den]

(* The bonus for who is named in the record, by what backs it.             *)
AttributionBonus(a) ==
    LET points == (IF a.authorized THEN 4 ELSE 0)
                + (CASE a.origin = "subject_consented" -> 8
                     [] a.origin \in {"administrator_assigned", "organization_wide"} -> 2
                     [] a.origin = "unknown" -> -4
                     [] OTHER -> 0)
                + (CASE a.backing = "qualified_signature" -> 8
                     [] a.backing = "principal_key_signed" -> 5
                     [] a.backing = "unknown" -> -4
                     [] OTHER -> 0)
                + (CASE a.identity \in {"qualified_certificate", "notified_eid"} -> 4
                     [] a.identity = "organization_attested" -> 2
                     [] OTHER -> 0)
                + (IF a.floor THEN 4 ELSE 0)
    IN  Clamp(points, -8, 20)

(* Mutant of ProvenanceIntegrity: asks for a signature on every event.     *)
ProvenanceIntegrityOfAll(t, anchors, mismatches, attribution) ==
    IF Linked(t) = {} THEN 20
    ELSE IF Breaks(t, Linked(t)) # {} THEN 0
    ELSE IF Signed(t) = DOMAIN t THEN 100 ELSE 60

(* anchors: how many of the four provenance fields the source record has.  *)
ProvenanceIntegrity(t, anchors, mismatches, attribution) ==
    LET signed == \A i \in Linked(t) : t[i].evidence.signature # None
        anchored == Least(100, (IF signed THEN 100 ELSE 60) + 5 * anchors)
        enveloped == IF \E i \in Linked(t) : t[i].evidence.format = "dsse"
                     THEN Least(100, anchored + 3) ELSE anchored
        attributed == IF attribution = None THEN enveloped
                      ELSE Clamp(enveloped + AttributionBonus(attribution), 0, 100)
    IN  IF Linked(t) = {} THEN 20
        ELSE IF \/ Breaks(t, Linked(t)) # {}
                \/ \E i \in Linked(t) : /\ t[i].evidence.algorithm # None
                                        /\ t[i].evidence.signature = None
        THEN 0
        ELSE Greatest(0, attributed - 20 * mismatches)

ObjectiveVerification(t) ==
    LET calls == Cardinality(ToolCalls(t))
        verified == Cardinality(Verifications(t))
    IN  CASE calls = 0 -> 80
          [] calls > 0 /\ 5 * verified >= 4 * calls -> 100
          [] calls > 0 /\ 5 * verified < 4 * calls /\ 2 * verified >= calls -> 70
          [] calls > 0 /\ 2 * verified < calls /\ verified > 0 -> 40
          [] calls > 0 /\ verified = 0 -> 50

PolicyCoverage(t) ==
    LET calls == Cardinality(ToolCalls(t))
        decisions == Cardinality(PolicyDecisions(t))
    IN  IF decisions = 0 THEN (IF calls = 0 THEN 50 ELSE 0)
        ELSE Least(100, Rounded(100 * decisions, Greatest(calls, 1)))

HumanOversight(t) ==
    LET approvals == Cardinality(HumanApprovals(t))
        required == Cardinality(Tagged(t, {"human_required", "high_risk"}))
    IN  IF required = 0 THEN 80
        ELSE IF approvals >= required THEN 100
        ELSE Rounded(100 * approvals, required)

(* contamination: the score of contamination(), None when it was not run.  *)
ContaminationInverted(contamination) ==
    IF contamination = None THEN 100 ELSE Greatest(0, 100 - contamination)

(* 0.20, 0.20, 0.20, 0.15, 0.15 and 0.10 of the components, rounded.       *)
EvidenceAdmissionScore(t, anchors, mismatches, attribution, contamination) ==
    LET tc == TraceCompleteness(t)
        others == 4 * (ProvenanceIntegrity(t, anchors, mismatches, attribution)
                         + ObjectiveVerification(t))
                  + 3 * (PolicyCoverage(t) + HumanOversight(t))
                  + 2 * ContaminationInverted(contamination)
    IN  Rounded(4 * tc.num + tc.den * others, 20 * tc.den)

-----------------------------------------------------------------------------
(* Mutant of Penalties: a verification stands in for an approval. *)
PenaltiesUnlessVerified(t) ==
    Least(30, 5 * Cardinality(Denials(t)))
      + (IF Verifications(t) = {}
         THEN 10 * Cardinality({i \in Tagged(t, {"human_required"}) : t[i].run \notin ApprovedRuns(t)})
         ELSE 0)

Penalties(t) ==
    LET unapproved == {i \in Tagged(t, {"human_required"}) : t[i].run \notin ApprovedRuns(t)}
    IN  Least(30, 5 * Cardinality(Denials(t)))
      + Least(20, 3 * Cardinality(Tagged(t, {"high_risk", "mutation", "destructive"})))
      + Least(15, 3 * Cardinality(Errors(t)))
      + Least(25, 10 * Cardinality(unapproved))
      + (IF Breaks(t, Linked(t)) = {} THEN 0 ELSE 20)

(* drift: the drift_score of driftGuard(), None when it was not run.       *)
AgentRiskScore(t, drift) ==
    LET observed == Greatest(0, 100 - Penalties(t))
    IN  IF drift = None THEN observed ELSE Greatest(0, observed - Rounded(15 * drift, 100))
=============================================================================
