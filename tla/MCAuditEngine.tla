--------------------------- MODULE MCAuditEngine ---------------------------
(* The trace model on files of a few events.                               *)
EXTENDS AuditEngine, DriftGuard, BenchmarkAudit, TLC

Proto(type, name, cap, tags) ==
    [run |-> "r", type |-> type, name |-> name, cap |-> cap, tags |-> tags, decision |-> None,
     human |-> None, signal |-> FALSE, source |-> {}, of |-> None, at |-> "dated",
     mode |-> None, identity |-> "known", wellformed |-> TRUE]

Call     == Proto("tool_call", "sh", "exec", {"high_risk", "human_required"})
Fetch    == [Proto("tool_call", "get", None, {"network"}) EXCEPT !.run = "q", !.mode = "full"]
Deny     == [Proto("policy_decision", "sh", "exec", {}) EXCEPT !.decision = "deny", !.at = None]
Approval == [Proto("human_approval", None, None, {}) EXCEPT !.human = "approve"]
Verified == [Proto("observation", None, None, {}) EXCEPT !.source = {"verifier", "filter"},
                                                            !.of = "sh"]
Garbled  == [Proto("error", None, None, {}) EXCEPT !.wellformed = FALSE]

MCEntrusted ==
    {<<Deny, "bare">>, <<Garbled, "bare">>, <<Call, "hashed">>, <<Deny, "foreign">>}
      \cup ({Call, Fetch, Approval, Verified} \X {"signed"})

MCEntrustedLinks == {Call, Deny} \X {"hashed", "follows"}

MCDigest      == <<"h1", "h2", "h3", "h4">>
MCForeignHash == <<"f1", "f2", "f1", "f2">>
MCForeign     == {"f1", "f2"}

MCManifests ==
    { [declared |-> {}, denied |-> {}, high_risk |-> {"exec"}],
      [declared |-> {"read"}, denied |-> {"exec"}, high_risk |-> {"exec"}] }

MCTaintTags == [output |-> {"network"}, input |-> {}, personal |-> {"network"}, supplied |-> {}]

MCUploads ==
    { [Plain EXCEPT !.unparsable = TRUE],
      [Plain EXCEPT !.anchors = 4,
                    !.attribution = [authorized |-> TRUE, origin |-> "unknown", backing |-> "unknown",
                                     identity |-> "unknown", floor |-> FALSE]] }

MCNoMeta == [intended_use |-> FALSE, deployment_context |-> FALSE, qms_reference |-> FALSE,
             source_files |-> FALSE, attribution |-> None]

-----------------------------------------------------------------------------
(* The comparisons of two audits, on all audits of up to two events.       *)
Compared ==
    {[Proto("policy_decision", "sh", None, {}) @@ [rule |-> r, tokens |-> 0] EXCEPT !.decision = d] :
        d \in {"allow", "ask_user", "deny"}, r \in {None, "rule"}}
      \cup {Proto("tool_call", n, None, {}) @@ [rule |-> None, tokens |-> 0] : n \in {"sh", "get"}}

Audits == UNION {[1 .. n -> Compared] : n \in 0 .. 2}

(* A tool escalates when some decision is more permissive than all before. *)
ASSUME EscalationsAreExact ==
    \A p, c \in Audits :
        {e.tool : e \in AuditDrift(p, c).permission_escalations} =
        {n \in {"sh", "get"} :
            /\ DecisionsOf(p, n) # {}
            /\ \E d \in DecisionsOf(c, n) : \A e \in DecisionsOf(p, n) : RankOf(d) > RankOf(e)}

(* A benchmark never supports one side and the other, and a claim is       *)
(* supported only of a candidate that regressed on fewer samples.          *)
SamplesOf(b, c, both, none) ==
    [i \in 1 .. b + c + both + none |->
        [id |-> i, baseline |-> i <= b \/ (b + c < i /\ i <= b + c + both),
         candidate |-> b < i /\ i <= b + c + both]]

ASSUME SupportIsOneSided ==
    \A b, c \in 0 .. 11, both, none \in {0, 9} :
        PairedAudit(SamplesOf(b, c, both, none), TRUE).verdict = "supports_claim"
            => /\ b < c
               /\ PairedAudit(SamplesOf(c, b, both, none), TRUE).verdict # "supports_claim"
=============================================================================
