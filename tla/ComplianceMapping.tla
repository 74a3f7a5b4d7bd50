-------------------------- MODULE ComplianceMapping --------------------------
(***************************************************************************)
(* buildComplianceMappings(): what a report says of each requirement of    *)
(* four frameworks, and the events it cites for it.                        *)
(*                                                                         *)
(* A subject s is what the function is given:                              *)
(*   t         the events                                                  *)
(*   findings  the findings of the policy audit, as PolicyAudit has them   *)
(*   meta      the report's metadata: which fields the caller filled       *)
(*   bench     a benchmark audit, None when there is none                  *)
(***************************************************************************)
EXTENDS PolicyAudit

CONSTANTS
    NetworkNames,   \* tool names and capabilities that name the network
    TaintTags       \* [label group -> the tags whose text contains its words]

Entry(status, S, s) == [status |-> status, cites |-> Ids(s.t, S)]

Silent(status) == [status |-> status, cites |-> {}]

Graded(entry, rules, s) == [entry EXCEPT !.cites = @ \cup Cited(s.findings, rules)]

(* `partial` when there is something to cite, `otherwise` when not.        *)
Partly(S, otherwise, s) == IF S = {} THEN Silent(otherwise) ELSE Entry("partial", S, s)

BoundaryRules == {"OAA-R-CAP-001", "OAA-R-CAP-002"}
PolicyRules   == BoundaryRules \cup {"OAA-R-POLICY-001", "OAA-R-POLICY-002"}
RuntimeRules  == PolicyRules \cup {"OAA-R-OVERSIGHT-001", "OAA-R-INTEGRITY-001"}

RiskyCalls(t) == Tagged(t, {"high_risk", "mutation"})
OverNetwork(t, S) == {i \in S : t[i].name \in NetworkNames \/ t[i].cap \in NetworkNames}
TaggedCalls(t) == {i \in ToolCalls(t) : t[i].tags # {}}
Observing(t, word) == {i \in Observations(t) : word \in t[i].source}
NamedSigner(t) == {i \in SignerKey(t) : t[i].evidence.signer # "none"}
Identified(t, levels) == \E i \in DOMAIN t : t[i].identity \in levels

-----------------------------------------------------------------------------
(* OWASP Top 10 for Agentic Applications                                   *)
AAI01(s) ==
    LET seen == Observations(s.t) IN
    IF seen \cap Signed(s.t) # {} THEN Entry("supported", seen \cap Signed(s.t), s)
    ELSE Partly(seen, "not_applicable", s)

AAI02(s) ==
    LET decided == PolicyDecisions(s.t) IN
    IF ToolCalls(s.t) = {} THEN Silent("not_applicable")
    ELSE Graded(Entry(IF decided # {} THEN "supported" ELSE "partial",
                      ToolCalls(s.t) \cup decided, s), PolicyRules, s)

AAI03(s) ==
    LET capable == {i \in ToolCalls(s.t) : Filled(s.t[i].cap)}
        found == Cited(s.findings, BoundaryRules)
    IN  CASE ToolCalls(s.t) = {} -> Silent("not_applicable")
          [] ToolCalls(s.t) # {} /\ Denials(s.t) # {} /\ found # {} ->
                 Graded(Entry("supported", Denials(s.t) \cup capable, s), BoundaryRules, s)
          [] ToolCalls(s.t) # {} /\ ~(Denials(s.t) # {} /\ found # {}) ->
                 Graded(Entry("partial", IF PolicyDecisions(s.t) # {} \/ found # {}
                                         THEN PolicyDecisions(s.t) \cup capable
                                         ELSE ToolCalls(s.t), s), BoundaryRules, s)

AAI04(s) == IF SignerKey(s.t) = {} THEN Silent("not_applicable")
            ELSE Entry("supported", SignerKey(s.t), s)

AAI05(s) ==
    LET refused == OverNetwork(s.t, Denials(s.t)) IN
    IF refused # {} THEN Entry("supported", refused, s)
    ELSE Partly(OverNetwork(s.t, ToolCalls(s.t)), "not_applicable", s)

AAI06(s) == Partly(Tagged(s.t, TaintTags.output), "not_evaluated", s)

AAI07(s) ==
    LET unexpected == {i \in ToolCalls(s.t) : ~Filled(s.t[i].cap)}
        found == Cited(s.findings, BoundaryRules)
    IN  IF Errors(s.t) # {} \/ (unexpected # {} /\ found # {})
        THEN Graded(Entry("partial", Errors(s.t), s), BoundaryRules, s)
        ELSE Partly(First(ToolCalls(s.t), 3), "not_evaluated", s)

AAI08(s) ==
    LET filters == Observing(s.t, "filter")
        returns == Observing(s.t, "return")
    IN  IF filters # {} THEN Entry("supported", filters, s)
        ELSE Partly(IF returns # {} THEN returns ELSE Observations(s.t), "not_evaluated", s)

(* Mutant of AAI09: one approval for every risky call. *)
AAI09Counted(s) ==
    IF RiskyCalls(s.t) = {} THEN Silent("not_applicable")
    ELSE Entry(IF Cardinality(HumanApprovals(s.t)) >= Cardinality(RiskyCalls(s.t))
               THEN "supported" ELSE "partial", HumanApprovals(s.t) \cup RiskyCalls(s.t), s)

AAI09(s) ==
    IF RiskyCalls(s.t) = {} THEN Silent("not_applicable")
    ELSE Graded(Entry(IF HumanApprovals(s.t) # {} THEN "supported" ELSE "partial",
                      HumanApprovals(s.t) \cup RiskyCalls(s.t), s), {"OAA-R-OVERSIGHT-001"}, s)

AAI10(s) ==
    IF Evident(s.t) = {} THEN Silent("not_applicable")
    ELSE LET covered == 2 * Cardinality(Hashed(s.t)) > Len(s.t) IN
         Graded(Entry(IF covered THEN "supported" ELSE "partial",
                      IF covered THEN Hashed(s.t) ELSE Evident(s.t), s),
                {"OAA-R-INTEGRITY-001"}, s)

Owasp(s) ==
    [AAI01 |-> AAI01(s), AAI02 |-> AAI02(s), AAI03 |-> AAI03(s), AAI04 |-> AAI04(s),
     AAI05 |-> AAI05(s), AAI06 |-> AAI06(s), AAI07 |-> AAI07(s), AAI08 |-> AAI08(s),
     AAI09 |-> AAI09(s), AAI10 |-> AAI10(s)]

-----------------------------------------------------------------------------
(* EU AI Act, Annex IV                                                     *)
SystemDescription(s) ==
    CASE Identified(s.t, {"known", "unknown"}) /\ ToolCalls(s.t) # {} ->
             Entry("supported", First(ToolCalls(s.t), 5), s)
      [] Identified(s.t, {"known", "unknown"}) /\ ToolCalls(s.t) = {} -> Entry("partial", First(DOMAIN s.t, 3), s)
      [] ~Identified(s.t, {"known", "unknown"}) -> Silent("partial")

DesignSpecifications(s) ==
    IF s.meta.intended_use /\ s.meta.deployment_context
    THEN Entry("supported", First(ToolCalls(s.t), 5), s) ELSE Silent("partial")

RiskManagement(s) ==
    IF PolicyDecisions(s.t) # {}
    THEN Entry("partial", PolicyDecisions(s.t) \cup HumanApprovals(s.t), s)
    ELSE Partly(First(ToolCalls(s.t), 5), "not_evaluated", s)

DataGovernance(s) == Partly(Tagged(s.t, TaintTags.input), "not_evaluated", s)

(* A benchmark cites its samples, which are not events of the trace, the   *)
(* first five of them; a supported claim has no findings to cite.          *)
SamplesCited(bench) == {bench.cites[i] : i \in {i \in DOMAIN bench.cites : i <= 5}}

TestingValidation(s) ==
    IF s.bench = None THEN Silent("not_evaluated")
    ELSE [status |-> IF s.bench.verdict = "supports_claim" /\ ~s.bench.faulted
                     THEN "supported" ELSE "partial",
          cites |-> SamplesCited(s.bench)]

LifecycleChanges(s) ==
    IF /\ NamedSigner(s.t) # {}
       /\ NamedSigner(s.t) = Evident(s.t)
       /\ Evident(s.t) \subseteq Signed(s.t)
    THEN Entry("supported", First(NamedSigner(s.t), 5), s)
    ELSE Partly(First(NamedSigner(s.t), 5), "not_evaluated", s)

AttributionGrading(s) ==
    LET a == s.meta.attribution IN
    IF a = None THEN Silent("not_evaluated")
    ELSE LET strong == /\ a.backing \in {"qualified_signature", "principal_key_signed"}
                       /\ a.origin = "subject_consented"
                       /\ a.identity # "unknown"
         IN  Entry(IF strong THEN "supported" ELSE "partial", First(DOMAIN s.t, 3), s)

Monitoring(s) == Entry("partial", First(DOMAIN s.t, 3), s)

HumanOversightMeasures(s) ==
    LET asked == {i \in PolicyDecisions(s.t) : s.t[i].decision = "ask_user"} IN
    IF HumanApprovals(s.t) # {}
    THEN Entry("supported", HumanApprovals(s.t) \cup RiskyCalls(s.t) \cup asked, s)
    ELSE Partly(IF asked # {} THEN asked ELSE RiskyCalls(s.t), "not_applicable", s)

IntendedUse(s) ==
    CASE Identified(s.t, {"known"}) /\ s.meta.intended_use -> Entry("supported", First(ToolCalls(s.t), 3), s)
      [] Identified(s.t, {"known"}) /\ ~s.meta.intended_use ->
             Partly(First(ToolCalls(s.t), 3), "not_evaluated", s)
      [] ~Identified(s.t, {"known"}) -> Silent("not_evaluated")

LoggingCapability(s) ==
    IF Evident(s.t) # {} /\ Evident(s.t) \subseteq Signed(s.t) \cap Hashed(s.t)
    THEN Entry("supported", First(Evident(s.t), 5), s)
    ELSE Partly(First(Evident(s.t), 5), "not_evaluated", s)

(* The two organisational entries are the same whatever the metadata says. *)
QualityManagement(s) == Silent("not_evaluated")
Transparency(s)      == Silent("not_evaluated")

AccuracyRobustness(s) ==
    CASE Evident(s.t) = {} -> Silent("not_applicable")
      [] Evident(s.t) # {} /\ Hashed(s.t) = {} -> Entry("partial", Evident(s.t), s)
      [] Evident(s.t) # {} /\ Hashed(s.t) # {} -> Entry(IF Signed(s.t) # {} THEN "supported" ELSE "partial",
                                                         Hashed(s.t) \cup Signed(s.t), s)

AnnexIV(s) ==
    [system_description |-> SystemDescription(s), design |-> DesignSpecifications(s),
     risk_management |-> RiskManagement(s), data_governance |-> DataGovernance(s),
     testing |-> TestingValidation(s), lifecycle |-> LifecycleChanges(s),
     attribution |-> AttributionGrading(s), monitoring |-> Monitoring(s),
     human_oversight |-> HumanOversightMeasures(s), intended_use |-> IntendedUse(s),
     logging |-> LoggingCapability(s), qms |-> QualityManagement(s),
     transparency |-> Transparency(s), accuracy |-> AccuracyRobustness(s)]

-----------------------------------------------------------------------------
(* NIST AI RMF.  Responses are the events in which a risk was acted upon.  *)
Responses(t) == Denials(t) \cup Errors(t)
Sensitive(s) == Partly(Tagged(s.t, TaintTags.personal), "not_evaluated", s)

(* Entries that depend on there being findings cite what the findings do.  *)
FindingsCited(s, rules) ==
    IF s.findings = {} THEN Silent("not_evaluated")
    ELSE [status |-> "partial", cites |-> Cited(s.findings, rules)]

Measure27(s) ==
    Graded(Entry(IF s.findings # {} THEN "supported" ELSE "partial",
                 PolicyDecisions(s.t) \cup Hashed(s.t), s), RuntimeRules, s)

Benchmarked(s) ==
    IF s.bench = None THEN Silent("not_evaluated")
    ELSE [status |-> IF s.bench.verdict # "inconclusive" THEN "supported" ELSE "partial",
          cites |-> SamplesCited(s.bench)]

Manage23(s) ==
    Partly(IF HumanApprovals(s.t) # {} /\ Denials(s.t) # {}
           THEN HumanApprovals(s.t) \cup Denials(s.t) ELSE Responses(s.t), "not_evaluated", s)

Measure21(s) ==
    LET checks == Verifications(s.t)
        calls == ToolCalls(s.t)
    IN  IF checks # {} /\ calls # {} /\ 2 * Cardinality(checks) >= Cardinality(calls)
        THEN Entry("supported", checks \cup First(calls, 3), s)
        ELSE Partly(IF checks = {} THEN {} ELSE checks \cup First(calls, 3), "not_evaluated", s)

(* At most five of the cited events, and up to three decisions: which five *)
(* depends on the order of the findings.                                   *)
Measure23(s) ==
    IF s.findings # {} \/ (ToolCalls(s.t) # {} /\ PolicyDecisions(s.t) # {})
    THEN Graded(Entry("partial", First(PolicyDecisions(s.t), 3), s), {f.rule : f \in s.findings}, s)
    ELSE Partly(First(DOMAIN s.t, 3), "not_evaluated", s)

Sampled(t) == First(ToolCalls(t), 3) \cup First(PolicyDecisions(t), 3)

Measure22(s) ==
    IF s.t = <<>> THEN Silent("not_evaluated") ELSE Entry("partial", Sampled(s.t), s)

Measure24(s) ==
    IF ToolCalls(s.t) = {} \/ PolicyDecisions(s.t) = {} THEN Silent("not_evaluated")
    ELSE Entry("partial", Sampled(s.t), s)

Map51(s) ==
    IF TaggedCalls(s.t) = {} THEN Silent("not_evaluated")
    ELSE Entry("partial", TaggedCalls(s.t) \cup PolicyDecisions(s.t), s)

Measure25(s) ==
    IF HumanApprovals(s.t) # {} /\ TaggedCalls(s.t) # {}
    THEN Entry("supported", HumanApprovals(s.t) \cup TaggedCalls(s.t), s)
    ELSE Partly(TaggedCalls(s.t) \cup PolicyDecisions(s.t), "not_evaluated", s)

Manage24(s) ==
    IF Verifications(s.t) = {} \/ (Denials(s.t) = {} /\ s.findings = {})
    THEN Silent("not_evaluated")
    ELSE Entry("partial", Verifications(s.t) \cup First(Denials(s.t), 2), s)

Map15(s) == Partly(First(DOMAIN s.t, 3),
                   IF s.meta.intended_use \/ s.meta.deployment_context
                   THEN "partial" ELSE "not_evaluated", s)

(* An empty signer key counts here: only undefined and 'none' do not.      *)
Map23(s) == Partly(First({i \in DOMAIN s.t : s.t[i].evidence.signer \notin {None, "none"}}, 5),
                   "not_evaluated", s)

NistRmf(s) ==
    [govern11 |-> Silent("not_evaluated"), map22 |-> Partly(TaggedCalls(s.t), "not_evaluated", s),
     measure27 |-> Measure27(s), measure29 |-> Benchmarked(s), manage23 |-> Manage23(s),
     measure21 |-> Measure21(s), measure23 |-> Measure23(s),
     map41 |-> FindingsCited(s, {f.rule : f \in s.findings}), measure22 |-> Measure22(s),
     manage32 |-> Partly(Denials(s.t) \cup Verifications(s.t), "not_evaluated", s),
     manage22 |-> Partly(Responses(s.t) \cup HumanApprovals(s.t), "not_evaluated", s),
     manage42 |-> Partly(Responses(s.t), "not_evaluated", s),
     map51 |-> Map51(s), map32 |-> FindingsCited(s, RuntimeRules), measure25 |-> Measure25(s),
     measure24 |-> Measure24(s), measure26 |-> Sensitive(s),
     measure28 |-> Partly(Denials(s.t) \cup First(TaggedCalls(s.t), 3), "not_evaluated", s),
     measure210 |-> Sensitive(s), manage13 |-> FindingsCited(s, RuntimeRules),
     manage24 |-> Manage24(s), map15 |-> Map15(s), map23 |-> Map23(s),
     manage41 |-> Silent("not_evaluated"), measure211 |-> Sensitive(s)]

-----------------------------------------------------------------------------
(* ISO/IEC 42001                                                           *)
OperationalMonitoring(s) ==
    LET seen == Responses(s.t) \cup First({i \in DOMAIN s.t : s.t[i].evidence.hash # None}, 5)
    IN  IF seen # {} /\ Hashed(s.t) = DOMAIN s.t /\ Signed(s.t) # {}
        THEN Entry("supported", seen, s) ELSE Partly(seen, "not_evaluated", s)

ThirdParty(s) ==
    IF s.t # <<>> /\ NamedSigner(s.t) = DOMAIN s.t
    THEN Entry("supported", First(NamedSigner(s.t), 5), s)
    ELSE Partly(First(NamedSigner(s.t), 5), "not_evaluated", s)

OperationReporting(s) ==
    IF s.t # <<>> /\ Evident(s.t) = DOMAIN s.t
    THEN Entry("supported", First(DOMAIN s.t, 5), s)
    ELSE Partly(First(DOMAIN s.t, 5), "not_evaluated", s)

ThirdPartyMonitoring(s) ==
    IF NamedSigner(s.t) = {} \/ Responses(s.t) = {} THEN Silent("not_evaluated")
    ELSE Entry("partial", First(NamedSigner(s.t), 3) \cup First(Errors(s.t), 2)
                            \cup First(Denials(s.t), 2), s)

(* Entries a field of the metadata alone decides.                          *)
Declared(field, S, s) == IF field THEN Entry("partial", S, s) ELSE Silent("not_evaluated")

Iso42001(s) ==
    [impact_assessment |-> Silent("not_evaluated"), impacts |-> Sensitive(s),
     verification |-> Partly(Verifications(s.t), "not_evaluated", s),
     data_quality |-> Silent("not_evaluated"), monitoring |-> OperationalMonitoring(s),
     performance |-> Benchmarked(s),
     runtime_quality |-> Partly(First(TaggedCalls(s.t), 5), "not_evaluated", s),
     runtime_input |-> Partly(Tagged(s.t, TaintTags.supplied), "not_evaluated", s),
     third_party |-> ThirdParty(s), communication |-> Silent("not_evaluated"),
     reporting |-> OperationReporting(s),
     design |-> Declared(s.meta.intended_use, First(ToolCalls(s.t), 3), s),
     preparation |-> Partly(Observing(s.t, "input"), "not_evaluated", s),
     third_party_monitoring |-> ThirdPartyMonitoring(s),
     policy |-> Declared(s.meta.qms_reference, {}, s),
     documentation |-> Declared(s.meta.source_files, First(DOMAIN s.t, 3), s)]

Mappings(s) ==
    [owasp |-> Owasp(s), eu |-> AnnexIV(s), nist |-> NistRmf(s), iso |-> Iso42001(s)]

Entries(s) ==
    LET m == Mappings(s) IN UNION {{m[p][r] : r \in DOMAIN m[p]} : p \in DOMAIN m}

(* The statuses a report gives, without what it cites.                     *)
Statuses(s) ==
    LET m == Mappings(s) IN
    [p \in DOMAIN m |-> [r \in DOMAIN m[p] |-> m[p][r].status]]
=============================================================================
