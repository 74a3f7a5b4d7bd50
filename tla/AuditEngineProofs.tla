------------------------- MODULE AuditEngineProofs -------------------------
(***************************************************************************)
(* Proofs about AuditEngine, for every set of events, bound and manifest.  *)
(***************************************************************************)
EXTENDS AuditEngine, DriftGuard, BenchmarkAudit, FiniteSetTheorems, WellFoundedInduction, TLAPS

(* A report holds the findings of the policy audit over the events it read,*)
(* beside them at most the one about lines that could not be parsed, and   *)
(* shows those events or none.                                             *)
Unparsed == Finding("OAA-P-001", "medium", None, {})

Audited ==
    report # None =>
        /\ Findings(report.events, report.manifest) \subseteq report.findings
        /\ report.findings \subseteq Findings(report.events, report.manifest) \cup {Unparsed}
        /\ report.shown \in {report.events, <<>>}

(* Every change to the file is counted, and touches nothing else.          *)
LEMMA EditsAreCounted ==
    ASSUME NEW i, \/ Lose(i) \/ Repeat(i) \/ Reorder(i) \/ Alter(i)
                  \/ Rewrite(i) \/ Reseal(i) \/ Flag(i) \/ Relabel(i)
    PROVE  edits' = edits + 1 /\ report' = report /\ recorded' = recorded
<1>1. ASSUME NEW u, Edit(u) PROVE edits' = edits + 1 /\ report' = report /\ recorded' = recorded
  BY <1>1 DEF Edit
<1>2. CASE Lose(i) \/ Repeat(i) \/ Reorder(i) BY <1>1, <1>2 DEF Lose, Repeat, Reorder
<1>3. ASSUME NEW x, EditLine(i, x) PROVE edits' = edits + 1 /\ report' = report /\ recorded' = recorded
  BY <1>1, <1>3 DEF EditLine
<1>4. CASE Alter(i) \/ Rewrite(i) BY <1>3, <1>4 DEF Alter, Rewrite
<1>5. CASE Reseal(i) BY <1>3, <1>5 DEF Reseal
<1>6. CASE Flag(i) \/ Relabel(i) BY <1>3, <1>6 DEF Flag, Relabel
<1> QED BY <1>2, <1>4, <1>5, <1>6

(* The three fronts render what the audit of the accepted events found;    *)
(* the report job changes only what is shown.                              *)
THEOREM AuditedThm == Spec => []Audited
<1>1. Init => Audited
  BY DEF Init, Audited
<1>2. Audited /\ [Next]_vars => Audited'
  <2> SUFFICES ASSUME Audited, [Next]_vars PROVE Audited'
    OBVIOUS
  <2>1. ASSUME NEW front, NEW m, NEW t, NEW u, NEW k, Render(front, m, t, u, k) PROVE Audited'
    <3>1. ParseErrors(u) \subseteq {Unparsed} BY DEF ParseErrors, Unparsed
    <3> QED BY <2>1, <3>1 DEF Render, Audited
  <2>2. CASE report' = report
    BY <2>2 DEF Audited
  <2>3. CASE \E m \in Manifests : CmdReport(m) \/ ProcessAuditJob(m)
    BY <2>1, <2>3 DEF CmdReport, ProcessAuditJob
  <2>4. CASE \E upload \in Uploads : HandlePostRun(upload)
    BY <2>1, <2>4 DEF HandlePostRun
  <2>5. CASE ProcessReportJob
    BY <2>5 DEF ProcessReportJob, Audited
  <2>6. CASE \E e \in Entrusted : Record(e[1], e[2])
    BY <2>2, <2>6 DEF Record
  <2>7. CASE \E i \in DOMAIN trace : \/ Lose(i) \/ Repeat(i) \/ Reorder(i) \/ Alter(i)
                                 \/ Rewrite(i) \/ Reseal(i) \/ Flag(i) \/ Relabel(i)
    BY <2>2, <2>7, EditsAreCounted
  <2>8. CASE UNCHANGED vars
    BY <2>2, <2>8 DEF vars
  <2> QED
    BY <2>3, <2>4, <2>5, <2>6, <2>7, <2>8 DEF Next
<1> QED
  BY <1>1, <1>2, PTL DEF Spec

-----------------------------------------------------------------------------
(* What a finding is keyed by and cites, rule by rule.                     *)
LEMMA FindingShape ==
    ASSUME NEW t, NEW m, NEW f \in Findings(t, m)
    PROVE  \/ f = Finding("OAA-R-CAP-000", "info", None, {})
           \/ \E i \in DOMAIN t :
                /\ f.key = t[i].id
                /\ \/ f = At(t, "OAA-R-CAP-001", "high", i)
                   \/ f = At(t, "OAA-R-CAP-002", "critical", i)
                   \/ /\ i \in Unsupervised(t, m)
                      /\ f = NoApproval(t, i)
                   \/ f = At(t, "OAA-R-POLICY-001", "critical", i)
                   \/ f = At(t, "OAA-R-POLICY-002", "medium", i)
                   \/ f = BrokenLink(t, i)
<1>1. CASE f \in NoManifest(m)
  BY <1>1 DEF NoManifest
<1>2. CASE f \in UndeclaredCapability(t, m) \cup DeniedCapability(t, m)
  BY <1>2 DEF UndeclaredCapability, DeniedCapability, ToolCalls, OfType, At, Finding
<1>3. CASE f \in HighRiskNoApproval(t, m)
  BY <1>3 DEF HighRiskNoApproval, Unsupervised, ToolCalls, OfType, At, Finding, NoApproval
<1>4. CASE f \in DenyIgnored(t) \cup MissingPolicy(t)
  BY <1>4 DEF DenyIgnored, MissingPolicy, Tagged, ToolCalls, OfType, At, Finding
<1>5. CASE f \in ChainBreak(t)
  <2>1. PICK i \in Breaks(t, Linked(t)) :
           f = BrokenLink(t, i)
    BY <1>5 DEF ChainBreak
  <2>2. i \in DOMAIN t
    BY DEF Breaks, Linked
  <2>3. f.key = t[i].id
    BY <2>1 DEF Finding, BrokenLink
  <2> QED
    BY <2>1, <2>2, <2>3
<1> QED
  BY <1>1, <1>2, <1>3, <1>4, <1>5 DEF Findings

(* With distinct ids the event determines the position, the rule the       *)
(* severity and the citations.                                             *)
LEMMA FindingIdInjective ==
    ASSUME NEW t, NEW m, DistinctIds(t), NEW f \in Findings(t, m), NEW g \in Findings(t, m),
           FindingId(f) = FindingId(g)
    PROVE  f = g
<1>1. f.rule = g.rule /\ f.key = g.key
  BY DEF FindingId
<1>2. CASE f.rule = "OAA-R-CAP-000"
  <2>1. f = Finding("OAA-R-CAP-000", "info", None, {})
    BY <1>2, FindingShape DEF Finding, At, NoApproval, BrokenLink
  <2>2. g.rule = "OAA-R-CAP-000"
    BY <1>1, <1>2
  <2>3. g = Finding("OAA-R-CAP-000", "info", None, {})
    BY <2>2, FindingShape DEF Finding, At, NoApproval, BrokenLink
  <2> QED
    BY <2>1, <2>3
<1>3. CASE f.rule # "OAA-R-CAP-000"
  <2>1. PICK i \in DOMAIN t : f.key = t[i].id
                /\ \/ f = At(t, "OAA-R-CAP-001", "high", i)
                   \/ f = At(t, "OAA-R-CAP-002", "critical", i)
                   \/ f = NoApproval(t, i)
                   \/ f = At(t, "OAA-R-POLICY-001", "critical", i)
                   \/ f = At(t, "OAA-R-POLICY-002", "medium", i)
                   \/ f = BrokenLink(t, i)
    BY <1>3, FindingShape DEF Finding
  <2>2. PICK k \in DOMAIN t : g.key = t[k].id
                /\ \/ g = At(t, "OAA-R-CAP-001", "high", k)
                   \/ g = At(t, "OAA-R-CAP-002", "critical", k)
                   \/ g = NoApproval(t, k)
                   \/ g = At(t, "OAA-R-POLICY-001", "critical", k)
                   \/ g = At(t, "OAA-R-POLICY-002", "medium", k)
                   \/ g = BrokenLink(t, k)
    BY <1>1, <1>3, FindingShape DEF Finding
  <2>3. i = k
    BY <1>1, <2>1, <2>2 DEF DistinctIds
  <2> QED
    BY <1>1, <2>1, <2>2, <2>3 DEF At, Finding, NoApproval, BrokenLink
<1> QED
  BY <1>2, <1>3

(* RowPerFinding: no two findings of one report share the key of their D1  *)
(* row, so INSERT OR IGNORE drops none of them.                            *)
THEOREM RowPerFindingThm == Spec => []RowPerFinding
<1>1. Audited => RowPerFinding
  <2> SUFFICES ASSUME Audited, report # None, DistinctIds(report.events),
                      NEW f \in report.findings, NEW g \in report.findings, FindingId(f) = FindingId(g)
               PROVE  f = g
    BY DEF RowPerFinding
  <2>1. f.rule = g.rule BY DEF FindingId
  <2>2. ASSUME NEW h \in Findings(report.events, report.manifest) PROVE h.rule # "OAA-P-001"
    BY <2>2, FindingShape DEF Finding, At, NoApproval, BrokenLink
  <2>3. Unparsed.rule = "OAA-P-001" BY DEF Unparsed, Finding
  <2> DEFINE F == Findings(report.events, report.manifest)
  <2>4. f \in F \cup {Unparsed} /\ g \in F \cup {Unparsed} BY DEF Audited
  <2>5. CASE f \in F /\ g \in F BY <2>5, FindingIdInjective
  <2>6. CASE f = Unparsed /\ g = Unparsed BY <2>6
  <2> QED BY <2>1, <2>2, <2>3, <2>4, <2>5, <2>6
<1> QED
  BY <1>1, AuditedThm, PTL

(* ApprovalsAgree: the inventory and the policy audit never contradict each *)
(* other about the approval of one action.                                  *)
THEOREM ApprovalsAgreeThm == Spec => []ApprovalsAgree
<1>1. Audited => ApprovalsAgree
  <2> SUFFICES ASSUME Audited, report # None, DistinctIds(report.events),
                      NEW i \in HighRiskActions(report.events), HasApproval(report.events, i),
                      NEW f \in report.findings,
                      f.rule = "OAA-R-OVERSIGHT-001", f.key = report.events[i].id
               PROVE  FALSE
    BY DEF ApprovalsAgree
  <2> DEFINE t == report.events
  <2>1. PICK k \in Unsupervised(t, report.manifest) : k \in DOMAIN t /\ f.key = t[k].id
    <3>1. Unparsed.rule # "OAA-R-OVERSIGHT-001" BY DEF Unparsed, Finding
    <3>2. f \in Findings(t, report.manifest) BY <3>1 DEF Audited
    <3> QED BY <3>2, FindingShape DEF Finding, At, NoApproval, BrokenLink
  <2>2. i \in DOMAIN t
    BY DEF HighRiskActions, Tagged, ToolCalls, OfType
  <2>3. k = i
    BY <2>1, <2>2 DEF DistinctIds
  <2>4. t[i].run \in ApprovedRuns(t)
    BY DEF HasApproval, ApprovedRuns
  <2> QED
    BY <2>1, <2>3, <2>4 DEF Unsupervised
<1> QED
  BY <1>1, AuditedThm, PTL

-----------------------------------------------------------------------------
(* What the mapping cites lies in C when the events and the findings do.   *)
Bounded(s, C) ==
    /\ Ids(s.t, DOMAIN s.t) \subseteq C
    /\ \A f \in s.findings : f.cites \subseteq C
    /\ s.bench = None

LEMMA FirstSubset == ASSUME NEW S, NEW n PROVE First(S, n) \subseteq S
  BY DEF First

LEMMA PositionSubsets ==
    ASSUME NEW t
    PROVE  /\ ToolCalls(t) \subseteq DOMAIN t /\ PolicyDecisions(t) \subseteq DOMAIN t
           /\ HumanApprovals(t) \subseteq DOMAIN t /\ Observations(t) \subseteq DOMAIN t
           /\ Errors(t) \subseteq DOMAIN t /\ Denials(t) \subseteq DOMAIN t
           /\ Verifications(t) \subseteq DOMAIN t
           /\ Evident(t) \subseteq DOMAIN t /\ Hashed(t) \subseteq DOMAIN t
           /\ Signed(t) \subseteq DOMAIN t /\ SignerKey(t) \subseteq DOMAIN t
           /\ RiskyCalls(t) \subseteq DOMAIN t /\ TaggedCalls(t) \subseteq DOMAIN t
           /\ NamedSigner(t) \subseteq DOMAIN t
           /\ Responses(t) \subseteq DOMAIN t /\ Sampled(t) \subseteq DOMAIN t
  BY FirstSubset DEF OfType, ToolCalls, PolicyDecisions, HumanApprovals, Observations, Errors, Denials,
     Verifications, Evident, Hashed, Signed, SignerKey, RiskyCalls, Tagged, TaggedCalls, NamedSigner,
     Responses, Sampled

LEMMA TaggedSubset == ASSUME NEW t, NEW tags PROVE Tagged(t, tags) \subseteq DOMAIN t
  BY DEF Tagged, ToolCalls, OfType

LEMMA ObservingSubset == ASSUME NEW t, NEW src PROVE Observing(t, src) \subseteq DOMAIN t
  BY DEF Observing, Observations, OfType

LEMMA NetworkSubset == ASSUME NEW t, NEW S PROVE OverNetwork(t, S) \subseteq S
  BY DEF OverNetwork

LEMMA SilentWithin == ASSUME NEW C, NEW x PROVE Silent(x).cites \subseteq C
  BY DEF Silent

LEMMA CitedWithin ==
    ASSUME NEW s, NEW C, Bounded(s, C), NEW rules
    PROVE  Cited(s.findings, rules) \subseteq C
  BY DEF Cited, Bounded

LEMMA EntryWithin ==
    ASSUME NEW s, NEW C, Bounded(s, C), NEW S, S \subseteq DOMAIN s.t, NEW x
    PROVE  Entry(x, S, s).cites \subseteq C
  BY DEF Entry, Ids, Bounded

LEMMA GradedWithin ==
    ASSUME NEW s, NEW C, Bounded(s, C), NEW S, S \subseteq DOMAIN s.t, NEW x, NEW rules
    PROVE  Graded(Entry(x, S, s), rules, s).cites \subseteq C
<1>1. Graded(Entry(x, S, s), rules, s).cites = Entry(x, S, s).cites \cup Cited(s.findings, rules)
  BY DEF Graded, Entry
<1> QED
  BY <1>1, EntryWithin, CitedWithin

LEMMA PartlyWithin ==
    ASSUME NEW s, NEW C, Bounded(s, C), NEW S, S \subseteq DOMAIN s.t, NEW x
    PROVE  Partly(S, x, s).cites \subseteq C
  BY EntryWithin, SilentWithin DEF Partly

(* The ten OWASP entries.                                                 *)
LEMMA OwaspWithin ==
    ASSUME NEW s, NEW C, Bounded(s, C)
    PROVE  \A r \in DOMAIN Owasp(s) : Owasp(s)[r].cites \subseteq C
<1>1. AAI01(s).cites \subseteq C
  BY PositionSubsets, EntryWithin, PartlyWithin DEF AAI01
<1>2. AAI02(s).cites \subseteq C
  BY PositionSubsets, SilentWithin, GradedWithin DEF AAI02
<1>3. AAI03(s).cites \subseteq C
  BY PositionSubsets, SilentWithin, GradedWithin DEF AAI03
<1>4. AAI04(s).cites \subseteq C
  BY PositionSubsets, SilentWithin, EntryWithin DEF AAI04
<1>5. AAI05(s).cites \subseteq C
  BY PositionSubsets, NetworkSubset, EntryWithin, PartlyWithin DEF AAI05
<1>6. AAI06(s).cites \subseteq C
  BY TaggedSubset, PartlyWithin DEF AAI06
<1>7. AAI07(s).cites \subseteq C
  BY FirstSubset, PositionSubsets, GradedWithin, PartlyWithin DEF AAI07
<1>8. AAI08(s).cites \subseteq C
  BY PositionSubsets, ObservingSubset, EntryWithin, PartlyWithin DEF AAI08
<1>9. AAI09(s).cites \subseteq C
  <2>1. HumanApprovals(s.t) \cup RiskyCalls(s.t) \subseteq DOMAIN s.t
    BY PositionSubsets
  <2> QED
    BY <2>1, SilentWithin, GradedWithin DEF AAI09
<1>10. AAI10(s).cites \subseteq C
  BY PositionSubsets, SilentWithin, GradedWithin DEF AAI10
<1> QED
  BY <1>1, <1>2, <1>3, <1>4, <1>5, <1>6, <1>7, <1>8, <1>9, <1>10 DEF Owasp

(* The fourteen entries of Annex IV.                                       *)
LEMMA AnnexIVWithin ==
    ASSUME NEW s, NEW C, Bounded(s, C)
    PROVE  \A r \in DOMAIN AnnexIV(s) : AnnexIV(s)[r].cites \subseteq C
<1>1. SystemDescription(s).cites \subseteq C
  <2>1. First(ToolCalls(s.t), 5) \subseteq DOMAIN s.t /\ First(DOMAIN s.t, 3) \subseteq DOMAIN s.t
    BY FirstSubset, PositionSubsets
  <2> DEFINE named == Identified(s.t, {"known", "unknown"})
  <2>2. CASE named /\ ToolCalls(s.t) # {}
    BY <2>1, <2>2, EntryWithin DEF SystemDescription
  <2>3. CASE named /\ ToolCalls(s.t) = {}
    BY <2>1, <2>3, EntryWithin DEF SystemDescription
  <2>4. CASE ~named
    BY <2>4, SilentWithin DEF SystemDescription
  <2> QED
    BY <2>2, <2>3, <2>4
<1>2. DesignSpecifications(s).cites \subseteq C
  BY FirstSubset, PositionSubsets, SilentWithin, EntryWithin DEF DesignSpecifications
<1>3. RiskManagement(s).cites \subseteq C
  BY FirstSubset, PositionSubsets, EntryWithin, PartlyWithin DEF RiskManagement
<1>4. DataGovernance(s).cites \subseteq C
  BY TaggedSubset, PartlyWithin DEF DataGovernance
<1>5. TestingValidation(s).cites \subseteq C
  BY SilentWithin DEF TestingValidation, Bounded
<1>6. LifecycleChanges(s).cites \subseteq C
  BY FirstSubset, PositionSubsets, EntryWithin, PartlyWithin DEF LifecycleChanges
<1>7. AttributionGrading(s).cites \subseteq C
  BY FirstSubset, PositionSubsets, SilentWithin, EntryWithin DEF AttributionGrading
<1>8. Monitoring(s).cites \subseteq C
  BY FirstSubset, EntryWithin DEF Monitoring
<1>9. HumanOversightMeasures(s).cites \subseteq C
  BY PositionSubsets, EntryWithin, PartlyWithin DEF HumanOversightMeasures
<1>10. IntendedUse(s).cites \subseteq C
  <2>1. First(ToolCalls(s.t), 3) \subseteq DOMAIN s.t
    BY FirstSubset, PositionSubsets
  <2> DEFINE named == Identified(s.t, {"known"})
  <2>2. CASE named /\ s.meta.intended_use
    BY <2>1, <2>2, EntryWithin DEF IntendedUse
  <2>3. CASE named /\ ~s.meta.intended_use
    BY <2>1, <2>3, PartlyWithin DEF IntendedUse
  <2>4. CASE ~named
    BY <2>4, SilentWithin DEF IntendedUse
  <2> QED
    BY <2>2, <2>3, <2>4
<1>11. LoggingCapability(s).cites \subseteq C
  BY FirstSubset, PositionSubsets, EntryWithin, PartlyWithin DEF LoggingCapability
<1>12. QualityManagement(s).cites \subseteq C
  BY SilentWithin DEF QualityManagement
<1>13. Transparency(s).cites \subseteq C
  BY SilentWithin DEF Transparency
<1>14. AccuracyRobustness(s).cites \subseteq C
  BY PositionSubsets, SilentWithin, EntryWithin DEF AccuracyRobustness
<1> QED
  BY <1>1, <1>2, <1>3, <1>4, <1>5, <1>6, <1>7, <1>8, <1>9, <1>10, <1>11, <1>12, <1>13, <1>14 DEF AnnexIV

(* The twenty-five NIST entries.                                           *)
LEMMA NistWithin ==
    ASSUME NEW s, NEW C, Bounded(s, C)
    PROVE  \A r \in DOMAIN NistRmf(s) : NistRmf(s)[r].cites \subseteq C
<1>1. NistRmf(s).govern11.cites \subseteq C
  BY SilentWithin DEF NistRmf
<1>2. NistRmf(s).map22.cites \subseteq C
  BY PositionSubsets, PartlyWithin DEF NistRmf
<1>3. NistRmf(s).measure27.cites \subseteq C
  BY PositionSubsets, GradedWithin DEF NistRmf, Measure27
<1>4. NistRmf(s).measure29.cites \subseteq C
  BY SilentWithin DEF NistRmf, Benchmarked, Bounded
<1>5. NistRmf(s).manage23.cites \subseteq C
  BY PositionSubsets, PartlyWithin DEF NistRmf, Manage23
<1>6. NistRmf(s).measure21.cites \subseteq C
  BY FirstSubset, PositionSubsets, EntryWithin, PartlyWithin DEF NistRmf, Measure21
<1>7. NistRmf(s).measure23.cites \subseteq C
  BY FirstSubset, PositionSubsets, GradedWithin, PartlyWithin DEF NistRmf, Measure23
<1>8. NistRmf(s).map41.cites \subseteq C
  BY SilentWithin, CitedWithin DEF NistRmf, FindingsCited
<1>9. NistRmf(s).measure22.cites \subseteq C
  BY PositionSubsets, SilentWithin, EntryWithin DEF NistRmf, Measure22
<1>10. NistRmf(s).manage32.cites \subseteq C
  BY PositionSubsets, PartlyWithin DEF NistRmf
<1>11. NistRmf(s).manage22.cites \subseteq C
  BY PositionSubsets, PartlyWithin DEF NistRmf
<1>12. NistRmf(s).manage42.cites \subseteq C
  BY PositionSubsets, PartlyWithin DEF NistRmf
<1>13. NistRmf(s).map51.cites \subseteq C
  <2>1. TaggedCalls(s.t) \cup PolicyDecisions(s.t) \subseteq DOMAIN s.t
    BY PositionSubsets
  <2>2. Map51(s).cites \subseteq C
    BY <2>1, SilentWithin, EntryWithin DEF Map51
  <2> QED
    BY <2>2 DEF NistRmf
<1>14. NistRmf(s).map32.cites \subseteq C
  BY SilentWithin, CitedWithin DEF NistRmf, FindingsCited
<1>15. NistRmf(s).measure25.cites \subseteq C
  BY PositionSubsets, EntryWithin, PartlyWithin DEF NistRmf, Measure25
<1>16. NistRmf(s).measure24.cites \subseteq C
  BY PositionSubsets, SilentWithin, EntryWithin DEF NistRmf, Measure24
<1>17. NistRmf(s).measure26.cites \subseteq C
  BY TaggedSubset, PartlyWithin DEF NistRmf, Sensitive
<1>18. NistRmf(s).measure28.cites \subseteq C
  BY FirstSubset, PositionSubsets, PartlyWithin DEF NistRmf
<1>19. NistRmf(s).measure210.cites \subseteq C
  BY TaggedSubset, PartlyWithin DEF NistRmf, Sensitive
<1>20. NistRmf(s).manage13.cites \subseteq C
  BY SilentWithin, CitedWithin DEF NistRmf, FindingsCited
<1>21. NistRmf(s).manage24.cites \subseteq C
  BY FirstSubset, PositionSubsets, SilentWithin, EntryWithin DEF NistRmf, Manage24
<1>22. NistRmf(s).map15.cites \subseteq C
  BY FirstSubset, PartlyWithin DEF NistRmf, Map15
<1>23. NistRmf(s).map23.cites \subseteq C
  BY FirstSubset, PartlyWithin DEF NistRmf, Map23
<1>24. NistRmf(s).manage41.cites \subseteq C
  BY SilentWithin DEF NistRmf
<1>25. NistRmf(s).measure211.cites \subseteq C
  BY TaggedSubset, PartlyWithin DEF NistRmf, Sensitive
<1>26. DOMAIN NistRmf(s) = {"govern11", "map22", "measure27", "measure29", "manage23", "measure21", "measure23", "map41",
                           "measure22", "manage32", "manage22", "manage42", "map51", "map32", "measure25", "measure24",
                           "measure26", "measure28", "measure210", "manage13", "manage24", "map15", "map23", "manage41", "measure211"}
  BY DEF NistRmf
<1> QED
  BY <1>1, <1>2, <1>3, <1>4, <1>5, <1>6, <1>7, <1>8, <1>9, <1>10, <1>11, <1>12, <1>13,
     <1>14, <1>15, <1>16, <1>17, <1>18, <1>19, <1>20, <1>21, <1>22, <1>23, <1>24, <1>25, <1>26

(* The sixteen ISO entries.                                                *)
LEMMA IsoWithin ==
    ASSUME NEW s, NEW C, Bounded(s, C)
    PROVE  \A r \in DOMAIN Iso42001(s) : Iso42001(s)[r].cites \subseteq C
<1>1. Iso42001(s).impact_assessment.cites \subseteq C
  BY SilentWithin DEF Iso42001
<1>2. Iso42001(s).impacts.cites \subseteq C
  BY TaggedSubset, PartlyWithin DEF Iso42001, Sensitive
<1>3. Iso42001(s).verification.cites \subseteq C
  BY PositionSubsets, PartlyWithin DEF Iso42001
<1>4. Iso42001(s).data_quality.cites \subseteq C
  BY SilentWithin DEF Iso42001
<1>5. Iso42001(s).monitoring.cites \subseteq C
  <2>1. Responses(s.t) \cup First({i \in DOMAIN s.t : s.t[i].evidence.hash # None}, 5) \subseteq DOMAIN s.t
    BY FirstSubset, PositionSubsets
  <2> DEFINE seen == Responses(s.t) \cup First({i \in DOMAIN s.t : s.t[i].evidence.hash # None}, 5)
  <2>3. Entry("supported", seen, s).cites \subseteq C /\ Partly(seen, "not_evaluated", s).cites \subseteq C
    BY <2>1, EntryWithin, PartlyWithin
  <2>2. OperationalMonitoring(s).cites \subseteq C
    BY <2>3 DEF OperationalMonitoring
  <2> QED
    BY <2>2 DEF Iso42001
<1>6. Iso42001(s).performance.cites \subseteq C
  BY SilentWithin DEF Iso42001, Benchmarked, Bounded
<1>7. Iso42001(s).runtime_quality.cites \subseteq C
  BY FirstSubset, PositionSubsets, PartlyWithin DEF Iso42001
<1>8. Iso42001(s).runtime_input.cites \subseteq C
  BY TaggedSubset, PartlyWithin DEF Iso42001
<1>9. Iso42001(s).third_party.cites \subseteq C
  BY FirstSubset, PositionSubsets, EntryWithin, PartlyWithin DEF Iso42001, ThirdParty
<1>10. Iso42001(s).communication.cites \subseteq C
  BY SilentWithin DEF Iso42001
<1>11. Iso42001(s).reporting.cites \subseteq C
  BY FirstSubset, EntryWithin, PartlyWithin DEF Iso42001, OperationReporting
<1>12. Iso42001(s).design.cites \subseteq C
  BY FirstSubset, PositionSubsets, SilentWithin, EntryWithin DEF Iso42001, Declared
<1>13. Iso42001(s).preparation.cites \subseteq C
  BY ObservingSubset, PartlyWithin DEF Iso42001
<1>14. Iso42001(s).third_party_monitoring.cites \subseteq C
  BY FirstSubset, PositionSubsets, SilentWithin, EntryWithin DEF Iso42001, ThirdPartyMonitoring
<1>15. Iso42001(s).policy.cites \subseteq C
  BY SilentWithin, EntryWithin DEF Iso42001, Declared
<1>16. Iso42001(s).documentation.cites \subseteq C
  BY FirstSubset, SilentWithin, EntryWithin DEF Iso42001, Declared
<1> QED
  BY <1>1, <1>2, <1>3, <1>4, <1>5, <1>6, <1>7, <1>8, <1>9, <1>10, <1>11, <1>12, <1>13, <1>14, <1>15, <1>16 DEF Iso42001

LEMMA EntriesWithin ==
    ASSUME NEW s, NEW C, Bounded(s, C), NEW e \in Entries(s)
    PROVE  e.cites \subseteq C
<1>1. PICK p \in DOMAIN Mappings(s) : \E r \in DOMAIN Mappings(s)[p] : e = Mappings(s)[p][r]
  BY DEF Entries
<1>2. p \in {"owasp", "eu", "nist", "iso"}
  BY DEF Mappings
<1>3. Mappings(s)[p] \in {Owasp(s), AnnexIV(s), NistRmf(s), Iso42001(s)}
  BY <1>2 DEF Mappings
<1> QED
  BY <1>1, <1>3, OwaspWithin, AnnexIVWithin, NistWithin, IsoWithin

(* Every finding cites events of the trace it was made from.               *)
LEMMA FindingsWithin ==
    ASSUME NEW t, NEW m, NEW f \in Findings(t, m)
    PROVE  f.cites \subseteq Ids(t, DOMAIN t)
<1>1. CASE f = Finding("OAA-R-CAP-000", "info", None, {})
  BY <1>1 DEF Finding
<1>2. ASSUME NEW i \in DOMAIN t
      PROVE  {t[i].id} \cup {t[j].id : j \in {j \in Linked(t) : Precedes(Linked(t), j, i)}}
               \subseteq Ids(t, DOMAIN t)
  BY DEF Ids, Linked
<1>3. ASSUME NEW i \in DOMAIN t, NEW r, NEW x PROVE At(t, r, x, i).cites \subseteq Ids(t, DOMAIN t)
  BY DEF At, Finding, Ids
<1>4. ASSUME NEW i \in DOMAIN t PROVE NoApproval(t, i).cites \subseteq Ids(t, DOMAIN t)
  BY <1>3 DEF NoApproval
<1>5. ASSUME NEW i \in DOMAIN t PROVE BrokenLink(t, i).cites \subseteq Ids(t, DOMAIN t)
  BY <1>2 DEF BrokenLink, Finding
<1> QED
  BY <1>1, <1>3, <1>4, <1>5, FindingShape

(* CitesAreEvents: a report, rendered or rendered again, cites for no      *)
(* finding and no requirement an event that was not in its trace.          *)
THEOREM CitesAreEventsThm == Spec => []CitesAreEvents
<1>1. Audited => CitesAreEvents
  <2> SUFFICES ASSUME Audited, report # None PROVE CitesAreEvents
    BY DEF CitesAreEvents
  <2> DEFINE C == Ids(report.events, DOMAIN report.events)
             s == Subject(report.shown, report.findings, NoMeta)
  <2>1. \A f \in report.findings : f.cites \subseteq C
    <3>1. Unparsed.cites = {} BY DEF Unparsed, Finding
    <3>2. \A f \in Findings(report.events, report.manifest) : f.cites \subseteq C BY FindingsWithin
    <3> QED BY <3>1, <3>2 DEF Audited
  <2>2. Ids(report.shown, DOMAIN report.shown) \subseteq C
    BY DEF Audited, Ids
  <2>3. Bounded(s, C)
    BY <2>1, <2>2 DEF Bounded, Subject
  <2>4. \A e \in Entries(s) : e.cites \subseteq C
    BY <2>3, EntriesWithin
  <2> QED
    BY <2>1, <2>4 DEF CitesAreEvents
<1> QED
  BY <1>1, AuditedThm, PTL

-----------------------------------------------------------------------------
(* The file is a sequence throughout.                                      *)
IsSequence == edits \in Nat /\ \E S : trace \in Seq(S)

THEOREM IsSequenceThm == Spec => []IsSequence
<1>1. Init => IsSequence
  <2> SUFFICES ASSUME Init PROVE IsSequence
    OBVIOUS
  <2>1. trace \in Seq({}) /\ edits \in Nat
    BY DEF Init
  <2> QED
    BY <2>1 DEF IsSequence
<1>2. IsSequence /\ [Next]_vars => IsSequence'
  <2> SUFFICES ASSUME IsSequence, [Next]_vars PROVE IsSequence'
    OBVIOUS
  <2> PICK S : trace \in Seq(S)
    BY DEF IsSequence
  <2>1. CASE trace' = trace /\ edits' = edits
    BY <2>1 DEF IsSequence
  <2>2. ASSUME NEW T, NEW u \in Seq(T), Edit(u) PROVE IsSequence'
    BY <2>2 DEF Edit, IsSequence
  <2>3. ASSUME NEW e \in Entrusted, Record(e[1], e[2]) PROVE IsSequence'
    <3> DEFINE x == Event(e[1], e[2], Len(recorded) + 1)
    <3>1. trace \in Seq(S \cup {x}) /\ x \in S \cup {x}
      OBVIOUS
    <3> HIDE DEF x
    <3>2. Append(trace, x) \in Seq(S \cup {x})
      BY <3>1
    <3>3. trace' = Append(trace, x) /\ edits' = edits
      BY <2>3 DEF Record, x
    <3> QED
      BY <3>2, <3>3 DEF IsSequence
  <2>4. ASSUME NEW i \in DOMAIN trace, Lose(i) PROVE IsSequence'
    <3>1. [j \in 1 .. Len(trace) - 1 |-> trace[IF j < i THEN j ELSE j + 1]] \in Seq(S)
      OBVIOUS
    <3> QED
      BY <2>2, <2>4, <3>1 DEF Lose
  <2>5. ASSUME NEW i \in DOMAIN trace, Repeat(i) PROVE IsSequence'
    <3>1. Append(trace, trace[i]) \in Seq(S)
      OBVIOUS
    <3> QED
      BY <2>2, <2>5, <3>1 DEF Repeat
  <2>6. ASSUME NEW i \in DOMAIN trace, NEW x, EditLine(i, x) PROVE IsSequence'
    <3>1. trace \in Seq(S \cup {x}) /\ x \in S \cup {x}
      OBVIOUS
    <3>2. [trace EXCEPT ![i] = x] \in Seq(S \cup {x})
      BY <3>1
    <3> QED
      BY <2>2, <2>6, <3>2 DEF EditLine
  <2>7. ASSUME NEW i \in DOMAIN trace, Reorder(i) PROVE IsSequence'
    <3>1. i < Len(trace)
      BY <2>7 DEF Reorder
    <3>2. [trace EXCEPT ![i] = trace[i + 1], ![i + 1] = trace[i]] \in Seq(S)
      BY <3>1
    <3> QED
      BY <2>2, <2>7, <3>2 DEF Reorder
  <2>8. CASE \E m \in Manifests : CmdReport(m) \/ ProcessAuditJob(m)
    BY <2>1, <2>8 DEF CmdReport, ProcessAuditJob
  <2>9. CASE (\E upload \in Uploads : HandlePostRun(upload)) \/ ProcessReportJob \/ UNCHANGED vars
    BY <2>1, <2>9 DEF HandlePostRun, ProcessReportJob, vars
  <2>10. CASE \E i \in DOMAIN trace : Alter(i) \/ Rewrite(i) \/ Reseal(i) \/ Flag(i) \/ Relabel(i)
    BY <2>6, <2>10 DEF Alter, Rewrite, Reseal, Flag, Relabel
  <2> QED
    BY <2>3, <2>4, <2>5, <2>7, <2>8, <2>9, <2>10 DEF Next
<1> QED
  BY <1>1, <1>2, PTL DEF Spec

(* Of all steps that change the file only the recorder's is no edit.       *)
LEMMA RecordingStep ==
    ASSUME edits \in Nat, [Next]_vars, trace' # trace, edits' = edits
    PROVE  \E e \in Entrusted : Record(e[1], e[2])
<1>1. ASSUME \E i \in DOMAIN trace : \/ Lose(i) \/ Repeat(i) \/ Reorder(i) \/ Alter(i)
                                 \/ Rewrite(i) \/ Reseal(i) \/ Flag(i) \/ Relabel(i)
      PROVE  FALSE
  BY <1>1, EditsAreCounted
<1>2. ASSUME \/ \E m \in Manifests : CmdReport(m) \/ ProcessAuditJob(m)
             \/ \E upload \in Uploads : HandlePostRun(upload)
             \/ ProcessReportJob
             \/ UNCHANGED vars
      PROVE  FALSE
  BY <1>2 DEF CmdReport, ProcessAuditJob, HandlePostRun, ProcessReportJob, vars
<1> QED BY <1>1, <1>2 DEF Next

(* A step that changes the file without an edit appends one event.         *)
LEMMA RecordExtends ==
    ASSUME IsSequence, [Next]_vars, trace' # trace, edits' = edits
    PROVE  /\ DOMAIN trace = 1 .. Len(trace) /\ Len(trace) \in Nat
           /\ DOMAIN trace' = 1 .. Len(trace) + 1 /\ Len(trace') = Len(trace) + 1
           /\ \A i \in DOMAIN trace : trace'[i] = trace[i]
<1> PICK S : trace \in Seq(S)
  BY DEF IsSequence
<1>1. PICK e \in Entrusted : Record(e[1], e[2])
  BY RecordingStep DEF IsSequence
<1> DEFINE x == Event(e[1], e[2], Len(recorded) + 1)
<1>2. trace' = Append(trace, x)
  BY <1>1 DEF Record
<1> HIDE DEF x
<1> QED
  BY <1>2

(* What one event more leaves in place.                                    *)
LEMMA ExtensionKeeps ==
    ASSUME NEW t, NEW u, NEW n \in Nat, DOMAIN t = 1 .. n, DOMAIN u = 1 .. n + 1,
           \A i \in DOMAIN t : u[i] = t[i]
    PROVE  /\ DOMAIN t \subseteq DOMAIN u
           /\ \A kind : OfType(t, kind) = {i \in OfType(u, kind) : i <= n}
           /\ Denials(t) \subseteq Denials(u)
           /\ \A tags : Tagged(t, tags) \subseteq Tagged(u, tags)
           /\ Errors(t) \subseteq Errors(u)
           /\ Breaks(t, Linked(t)) \subseteq Breaks(u, Linked(u))
<1>1. DOMAIN t \subseteq DOMAIN u
  OBVIOUS
<1>2. \A kind : OfType(t, kind) = {i \in OfType(u, kind) : i <= n}
  BY DEF OfType
<1>3. Denials(t) \subseteq Denials(u) /\ Errors(t) \subseteq Errors(u)
  BY DEF Denials, PolicyDecisions, Errors, OfType
<1>4. \A tags : Tagged(t, tags) \subseteq Tagged(u, tags)
  BY DEF Tagged, ToolCalls, OfType
<1>5. Linked(t) = {i \in Linked(u) : i <= n} /\ Linked(u) \subseteq 1 .. n + 1
  BY DEF Linked
<1>6. ASSUME NEW i \in Breaks(t, Linked(t)) PROVE i \in Breaks(u, Linked(u))
  <2>1. i \in Linked(t) /\ t[i].evidence.prev # None
    BY DEF Breaks
  <2>2. PICK j \in Linked(t) : /\ Precedes(Linked(t), j, i) /\ t[j].evidence.hash # None
                               /\ t[i].evidence.prev # t[j].evidence.hash
    BY DEF Breaks
  <2>3. Precedes(Linked(u), j, i)
    BY <1>5, <2>1, <2>2 DEF Precedes
  <2>4. i \in DOMAIN t /\ j \in DOMAIN t
    BY <2>1 DEF Linked
  <2> QED
    BY <1>5, <2>1, <2>2, <2>3, <2>4 DEF Breaks
<1> QED
  BY <1>1, <1>2, <1>3, <1>4, <1>5, <1>6

(* CriticalFindingsStand: what is recorded later withdraws no critical     *)
(* finding.                                                                *)
THEOREM CriticalFindingsStandThm == Spec => CriticalFindingsStand
<1> DEFINE Stands == \A m \in Manifests : edits' = edits /\ report' = report =>
                         Critical(trace, m) \subseteq Critical(trace', m)
<1>1. IsSequence /\ [Next]_vars => [Stands]_vars
  <2> SUFFICES ASSUME IsSequence, [Next]_vars, NEW m \in Manifests, edits' = edits, trace' # trace,
                      NEW f \in Critical(trace, m)
               PROVE  f \in Critical(trace', m)
    BY DEF vars
  <2> DEFINE n == Len(trace)
  <2>1. /\ n \in Nat /\ DOMAIN trace = 1 .. n /\ DOMAIN trace' = 1 .. n + 1
        /\ \A i \in DOMAIN trace : trace'[i] = trace[i]
    BY RecordExtends
  <2> HIDE DEF n
  <2>2. ToolCalls(trace) \subseteq ToolCalls(trace') /\ Denials(trace) \subseteq Denials(trace')
    BY <2>1, ExtensionKeeps DEF ToolCalls
  <2>3. ToolCalls(trace) \subseteq DOMAIN trace /\ Denials(trace) \subseteq DOMAIN trace
    BY DEF ToolCalls, Denials, PolicyDecisions, OfType
  <2>4. f \in Findings(trace, m) /\ f.severity = "critical"
    BY DEF Critical
  <2>5. CASE f \in DeniedCapability(trace, m)
    <3>1. PICK i \in ToolCalls(trace) : /\ trace[i].cap \in m.denied
                                        /\ f = At(trace, "OAA-R-CAP-002", "critical", i)
      BY <2>5 DEF DeniedCapability
    <3>2. f = At(trace', "OAA-R-CAP-002", "critical", i)
      BY <2>1, <2>3, <3>1 DEF At
    <3>3. f \in DeniedCapability(trace', m)
      BY <2>1, <2>2, <2>3, <3>1, <3>2 DEF DeniedCapability
    <3> QED
      BY <2>4, <3>3 DEF Critical, Findings
  <2>6. CASE f \in DenyIgnored(trace)
    <3>1. PICK i \in ToolCalls(trace) : /\ trace[i].name # None /\ DeniedBefore(trace, i)
                                        /\ f = At(trace, "OAA-R-POLICY-001", "critical", i)
      BY <2>6 DEF DenyIgnored
    <3>2. f = At(trace', "OAA-R-POLICY-001", "critical", i)
      BY <2>1, <2>3, <3>1 DEF At
    <3>3. DeniedBefore(trace', i)
      BY <2>1, <2>2, <2>3, <3>1 DEF DeniedBefore
    <3>4. f \in DenyIgnored(trace')
      BY <2>1, <2>2, <2>3, <3>1, <3>2, <3>3 DEF DenyIgnored
    <3> QED
      BY <2>4, <3>4 DEF Critical, Findings
  <2>7. f \in DeniedCapability(trace, m) \cup DenyIgnored(trace)
    <3>1. f \notin NoManifest(m)
      BY <2>4 DEF NoManifest, Finding
    <3>2. f \notin UndeclaredCapability(trace, m)
      BY <2>4 DEF UndeclaredCapability, At, Finding
    <3>3. f \notin HighRiskNoApproval(trace, m)
      BY <2>4 DEF HighRiskNoApproval, NoApproval, At, Finding
    <3>4. f \notin MissingPolicy(trace)
      BY <2>4 DEF MissingPolicy, At, Finding
    <3>5. f \notin ChainBreak(trace)
      BY <2>4 DEF ChainBreak, BrokenLink, Finding
    <3> QED
      BY <2>4, <3>1, <3>2, <3>3, <3>4, <3>5 DEF Findings
  <2> QED
    BY <2>5, <2>6, <2>7
<1> QED
  BY <1>1, IsSequenceThm, PTL DEF Spec, CriticalFindingsStand

-----------------------------------------------------------------------------
(* Calls that needed a human and whose run has no approval.                *)
Unapproved(t) == {i \in Tagged(t, {"human_required"}) : t[i].run \notin ApprovedRuns(t)}

LEMMA PenaltiesMonotone ==
    ASSUME NEW t, NEW u, IsFiniteSet(DOMAIN u), DOMAIN t \subseteq DOMAIN u,
           Denials(t) \subseteq Denials(u), Errors(t) \subseteq Errors(u),
           \A tags : Tagged(t, tags) \subseteq Tagged(u, tags),
           Unapproved(t) \subseteq Unapproved(u),
           Breaks(t, Linked(t)) \subseteq Breaks(u, Linked(u))
    PROVE  /\ Penalties(t) \in Int /\ Penalties(u) \in Int
           /\ Penalties(t) <= Penalties(u)
<1> DEFINE tags == {"high_risk", "mutation", "destructive"}
<1>1. /\ Denials(u) \subseteq DOMAIN u /\ Errors(u) \subseteq DOMAIN u
      /\ Tagged(u, tags) \subseteq DOMAIN u /\ Unapproved(u) \subseteq DOMAIN u
  BY DEF Denials, PolicyDecisions, Errors, Tagged, ToolCalls, OfType, Unapproved
<1>2. /\ IsFiniteSet(Denials(u)) /\ IsFiniteSet(Errors(u))
      /\ IsFiniteSet(Tagged(u, tags)) /\ IsFiniteSet(Unapproved(u))
  BY <1>1, FS_Subset
<1>3. /\ IsFiniteSet(Denials(t)) /\ IsFiniteSet(Errors(t))
      /\ IsFiniteSet(Tagged(t, tags)) /\ IsFiniteSet(Unapproved(t))
  BY <1>2, FS_Subset
<1>4. /\ Cardinality(Denials(t)) <= Cardinality(Denials(u))
      /\ Cardinality(Errors(t)) <= Cardinality(Errors(u))
      /\ Cardinality(Tagged(t, tags)) <= Cardinality(Tagged(u, tags))
      /\ Cardinality(Unapproved(t)) <= Cardinality(Unapproved(u))
  BY <1>2, FS_Subset
<1>5. /\ Cardinality(Denials(t)) \in Nat /\ Cardinality(Errors(t)) \in Nat
      /\ Cardinality(Tagged(t, tags)) \in Nat /\ Cardinality(Unapproved(t)) \in Nat
      /\ Cardinality(Denials(u)) \in Nat /\ Cardinality(Errors(u)) \in Nat
      /\ Cardinality(Tagged(u, tags)) \in Nat /\ Cardinality(Unapproved(u)) \in Nat
  BY <1>2, <1>3, FS_CardinalityType
<1> DEFINE broken(v) == IF Breaks(v, Linked(v)) = {} THEN 0 ELSE 20
<1>6. broken(t) <= broken(u) /\ broken(t) \in Int /\ broken(u) \in Int
  OBVIOUS
<1>7. ASSUME NEW v \in {t, u}
      PROVE  Penalties(v) = Least(30, 5 * Cardinality(Denials(v)))
               + Least(20, 3 * Cardinality(Tagged(v, tags))) + Least(15, 3 * Cardinality(Errors(v)))
               + Least(25, 10 * Cardinality(Unapproved(v))) + broken(v)
  BY DEF Penalties, Unapproved
<1> HIDE DEF broken, tags
<1> QED
  BY <1>4, <1>5, <1>6, <1>7 DEF Least

(* RiskNeverImproves: only a human approval, or an edit of the file, can   *)
(* raise the agent risk score of a trace.                                  *)
THEOREM RiskNeverImprovesThm == Spec => RiskNeverImproves
<1> DEFINE Kept == trace' # trace /\ edits' = edits /\ trace'[Len(trace')].type # "human_approval" =>
                      AgentRiskScore(trace', None) <= AgentRiskScore(trace, None)
<1>1. IsSequence /\ [Next]_vars => [Kept]_vars
  <2> SUFFICES ASSUME IsSequence, [Next]_vars, edits' = edits, trace' # trace,
                      trace'[Len(trace')].type # "human_approval"
               PROVE  AgentRiskScore(trace', None) <= AgentRiskScore(trace, None)
    BY DEF vars
  <2> DEFINE n == Len(trace)
  <2>1. /\ n \in Nat /\ DOMAIN trace = 1 .. n /\ DOMAIN trace' = 1 .. n + 1 /\ Len(trace') = n + 1
        /\ \A i \in DOMAIN trace : trace'[i] = trace[i]
    BY RecordExtends
  <2> HIDE DEF n
  <2>2. /\ DOMAIN trace \subseteq DOMAIN trace'
        /\ \A kind : OfType(trace, kind) = {i \in OfType(trace', kind) : i <= n}
        /\ Denials(trace) \subseteq Denials(trace') /\ Errors(trace) \subseteq Errors(trace')
        /\ \A tags : Tagged(trace, tags) \subseteq Tagged(trace', tags)
        /\ Breaks(trace, Linked(trace)) \subseteq Breaks(trace', Linked(trace'))
    BY <2>1, ExtensionKeeps
  <2>3. HumanApprovals(trace') \subseteq DOMAIN trace
    BY <2>1 DEF HumanApprovals, OfType
  <2>4. HumanApprovals(trace) = HumanApprovals(trace')
    BY <2>1, <2>3 DEF HumanApprovals, OfType
  <2>5. ApprovedRuns(trace) = ApprovedRuns(trace')
    BY <2>1, <2>3, <2>4 DEF ApprovedRuns
  <2>6. Tagged(trace, {"human_required"}) \subseteq DOMAIN trace
    BY DEF Tagged, ToolCalls, OfType
  <2>7. Unapproved(trace) \subseteq Unapproved(trace')
    BY <2>1, <2>2, <2>5, <2>6 DEF Unapproved
  <2>8. IsFiniteSet(DOMAIN trace')
    BY <2>1, FS_Interval
  <2>9. /\ Penalties(trace) \in Int /\ Penalties(trace') \in Int
        /\ Penalties(trace) <= Penalties(trace')
    BY <2>2, <2>7, <2>8, PenaltiesMonotone
  <2> QED
    BY <2>9 DEF AgentRiskScore, Greatest
<1> QED
  BY <1>1, IsSequenceThm, PTL DEF Spec, RiskNeverImproves

-----------------------------------------------------------------------------
(* Induction over the naturals, with a set for the predicate: the library's *)
(* own theorem takes the predicate as an operator.                          *)
LEMMA SetInduction ==
    ASSUME NEW S, 0 \in S, \A n \in Nat : n \in S => n + 1 \in S
    PROVE  \A n \in Nat : n \in S
<1> DEFINE T == {n \in Nat : n \notin S}
           R == OpToRel(<, Nat)
<1>1. \A x, y \in Nat : <<x, y>> \in R <=> x < y
  BY DEF OpToRel
<1>2. IsWellFoundedOn(R, Nat) BY NatLessThanWellFounded
<1> HIDE DEF R
<1>3. SUFFICES ASSUME T # {} PROVE FALSE OBVIOUS
<1>4. T \subseteq Nat OBVIOUS
<1> HIDE DEF T
<1>5. PICK x \in T : \A y \in T : ~ (<<y, x>> \in R) BY <1>2, <1>3, <1>4, WFMin
<1>6. x \in Nat /\ x \notin S BY DEF T
<1>7. x - 1 \in Nat /\ x - 1 < x BY <1>6
<1>8. x - 1 \notin T BY <1>1, <1>5, <1>6, <1>7
<1>9. x - 1 \in S BY <1>7, <1>8 DEF T
<1> QED BY <1>6, <1>7, <1>9

(* A position with another before it has one directly before it.           *)
LEMMA PredecessorExists ==
    ASSUME NEW H \in SUBSET Nat, NEW i \in Nat, NEW l \in H, l < i
    PROVE  \E j \in H : Precedes(H, j, i)
<1> DEFINE S == {n \in Nat : (\E j \in H : j < n) => \E j \in H : Precedes(H, j, n)}
<1>1. 0 \in S OBVIOUS
<1>2. ASSUME NEW n \in Nat, n \in S PROVE n + 1 \in S
  <2>1. CASE n \in H BY <2>1 DEF Precedes
  <2>2. CASE n \notin H BY <1>2, <2>2 DEF Precedes
  <2> QED BY <2>1, <2>2
<1> HIDE DEF S
<1>3. i \in S BY <1>1, <1>2, SetInduction
<1> QED BY <1>3 DEF S

(* The record: every hash is the digest of its event or foreign, and the   *)
(* hashed events are linked, the first to the genesis hash.                *)
LinkedTo(t, k) ==
    \/ t[k].evidence.prev = Genesis /\ \A l \in Hashed(t) : ~ (l < k)
    \/ \E l \in Hashed(t) : /\ Precedes(Hashed(t), l, k)
                            /\ t[k].evidence.prev = t[l].evidence.hash

RecordedOK ==
    /\ \E S : recorded \in Seq(S)
    /\ Len(recorded) <= MaxEvents
    /\ \A k \in DOMAIN recorded :
          /\ {"content", "evidence"} \subseteq DOMAIN recorded[k]
          /\ recorded[k].content = Digest[k]
    /\ \A k \in Hashed(recorded) :
          /\ recorded[k].evidence.hash \in {Digest[k], ForeignHash[k]}
          /\ LinkedTo(recorded, k)

(* The file: no text has the genesis hash for its digest.                  *)
TextOK(e) == "content" \in DOMAIN e /\ e.content # Genesis

TraceOK ==
    /\ \E S : trace \in Seq(S)
    /\ \A i \in DOMAIN trace : TextOK(trace[i])

(* What an event written by the recorder holds.                            *)
LEMMA RecordedEvent ==
    ASSUME RecordedOK, NEW e \in Entrusted, Record(e[1], e[2])
    PROVE  LET n == Len(recorded) + 1
               x == Event(e[1], e[2], n)
           IN  /\ n \in 1 .. MaxEvents
               /\ {"content", "evidence"} \subseteq DOMAIN x /\ x.content = Digest[n]
               /\ Filled(x.evidence.hash) =>
                     /\ x.evidence.hash \in {Digest[n], ForeignHash[n]}
                     /\ x.evidence.prev = PrevHash
<1> DEFINE n == Len(recorded) + 1
           x == Event(e[1], e[2], n)
<1>1. n \in 1 .. MaxEvents
  BY EngineAssumption DEF Record, RecordedOK
<1> HIDE DEF n
<1>2. {"content", "evidence"} \subseteq DOMAIN x /\ x.content = Digest[n] /\ x.evidence = Evidence(e[2], n)
  BY DEF Event
<1>3. e[2] \in {"bare", "hashed", "signed", "foreign", "follows"} BY EngineAssumption
<1>4. Filled(Evidence(e[2], n).hash) =>
         /\ Evidence(e[2], n).hash \in {Digest[n], ForeignHash[n]}
         /\ Evidence(e[2], n).prev = PrevHash
  BY <1>3 DEF Evidence, NoEvidence, Filled
<1> QED BY <1>1, <1>2, <1>4 DEF n

(* Links do not change when an event is appended.                          *)
LEMMA LinksStay ==
    ASSUME NEW t, NEW u, NEW n \in Nat, DOMAIN t = 1 .. n, DOMAIN u = 1 .. n + 1,
           \A i \in DOMAIN t : u[i] = t[i]
    PROVE  /\ Hashed(t) = {i \in Hashed(u) : i <= n} /\ Hashed(u) \subseteq 1 .. n + 1
           /\ \A k \in Hashed(t) : LinkedTo(t, k) => LinkedTo(u, k)
<1>1. Hashed(t) = {i \in Hashed(u) : i <= n} /\ Hashed(u) \subseteq 1 .. n + 1
  BY DEF Hashed
<1>2. ASSUME NEW k \in Hashed(t), LinkedTo(t, k) PROVE LinkedTo(u, k)
  <2>1. k \in 1 .. n /\ u[k] = t[k] BY DEF Hashed
  <2>2. \A l \in Hashed(u) : l < k => l \in Hashed(t) BY <1>1, <2>1
  <2>3. CASE t[k].evidence.prev = Genesis /\ \A l \in Hashed(t) : ~ (l < k)
    BY <2>1, <2>2, <2>3 DEF LinkedTo
  <2>4. ASSUME NEW l \in Hashed(t), Precedes(Hashed(t), l, k), t[k].evidence.prev = t[l].evidence.hash
        PROVE  LinkedTo(u, k)
    <3>1. l \in Hashed(u) /\ u[l] = t[l] BY <1>1 DEF Hashed
    <3>2. Precedes(Hashed(u), l, k) BY <2>2, <2>4, <3>1 DEF Precedes
    <3> QED BY <2>1, <2>4, <3>1, <3>2 DEF LinkedTo
  <2> QED BY <1>2, <2>3, <2>4 DEF LinkedTo
<1> QED BY <1>1, <1>2

LEMMA RecordedStep ==
    ASSUME RecordedOK, NEW e \in Entrusted, Record(e[1], e[2])
    PROVE  RecordedOK'
<1> PICK S : recorded \in Seq(S) BY DEF RecordedOK
<1> DEFINE n == Len(recorded)
           x == Event(e[1], e[2], n + 1)
<1>1. recorded' = Append(recorded, x) BY DEF Record
<1>2. /\ n + 1 \in 1 .. MaxEvents
      /\ {"content", "evidence"} \subseteq DOMAIN x /\ x.content = Digest[n + 1]
      /\ Filled(x.evidence.hash) => /\ x.evidence.hash \in {Digest[n + 1], ForeignHash[n + 1]}
                                    /\ x.evidence.prev = PrevHash
  BY RecordedEvent
<1> HIDE DEF x
<1>3. /\ n \in Nat /\ DOMAIN recorded = 1 .. n /\ DOMAIN recorded' = 1 .. n + 1 /\ Len(recorded') = n + 1
      /\ \A i \in DOMAIN recorded : recorded'[i] = recorded[i]
      /\ recorded'[n + 1] = x
  BY <1>1
<1>4. recorded' \in Seq(S \cup {x})
  <2>1. recorded \in Seq(S \cup {x}) OBVIOUS
  <2> QED BY <1>1, <2>1
<1> HIDE DEF n
<1>5. /\ Hashed(recorded) = {i \in Hashed(recorded') : i <= n} /\ Hashed(recorded') \subseteq 1 .. n + 1
      /\ \A k \in Hashed(recorded) : LinkedTo(recorded, k) => LinkedTo(recorded', k)
  BY <1>3, LinksStay
<1>6. ASSUME n + 1 \in Hashed(recorded') PROVE LinkedTo(recorded', n + 1)
  <2>1. x.evidence.prev = PrevHash BY <1>2, <1>3, <1>6 DEF Hashed
  <2>2. CASE Hashed(recorded) = {}
    <3>1. \A l \in Hashed(recorded') : ~ (l < n + 1) BY <1>3, <1>5, <2>2
    <3> QED BY <1>3, <2>1, <2>2, <3>1 DEF PrevHash, LinkedTo
  <2>3. CASE Hashed(recorded) # {}
    <3>1. Hashed(recorded) \in SUBSET Nat BY <1>3 DEF Hashed
    <3>2. \A l \in Hashed(recorded) : l < n + 1 BY <1>3, <1>5
    <3>3. \E j \in Hashed(recorded) : \A l \in Hashed(recorded) : l <= j
      <4>1. PICK h \in Hashed(recorded) : h < n + 1 BY <2>3, <3>2
      <4>2. n + 1 \in Nat BY <1>3
      <4>3. PICK j \in Hashed(recorded) : Precedes(Hashed(recorded), j, n + 1)
        BY <3>1, <4>1, <4>2, PredecessorExists
      <4> QED BY <3>2, <4>3 DEF Precedes
    <3> DEFINE j == CHOOSE i \in Hashed(recorded) : \A l \in Hashed(recorded) : l <= i
    <3>4. j \in Hashed(recorded) /\ \A l \in Hashed(recorded) : l <= j BY <3>3
    <3>5. x.evidence.prev = recorded[j].evidence.hash BY <2>1, <2>3 DEF PrevHash
    <3> HIDE DEF j
    <3>6. j \in Hashed(recorded') /\ recorded'[j] = recorded[j] BY <1>3, <1>5, <3>4 DEF Hashed
    <3>7. Precedes(Hashed(recorded'), j, n + 1) BY <1>3, <1>5, <3>2, <3>4, <3>6 DEF Precedes
    <3> QED BY <1>3, <3>5, <3>6, <3>7 DEF LinkedTo
  <2> QED BY <2>2, <2>3
<1>7. \A k \in DOMAIN recorded' : /\ {"content", "evidence"} \subseteq DOMAIN recorded'[k]
                                  /\ recorded'[k].content = Digest[k]
  <2> TAKE k \in DOMAIN recorded'
  <2>1. CASE k \in 1 .. n BY <1>3, <2>1 DEF RecordedOK
  <2>2. CASE k = n + 1 BY <1>2, <1>3, <2>2
  <2> QED BY <1>3, <2>1, <2>2
<1>8. \A k \in Hashed(recorded') : /\ recorded'[k].evidence.hash \in {Digest[k], ForeignHash[k]}
                                   /\ LinkedTo(recorded', k)
  <2> TAKE k \in Hashed(recorded')
  <2>1. CASE k <= n BY <1>3, <1>5, <2>1 DEF RecordedOK, Hashed
  <2>2. CASE k = n + 1 BY <1>2, <1>3, <1>6, <2>2 DEF Hashed
  <2> QED BY <1>3, <1>5, <2>1, <2>2
<1> QED BY <1>2, <1>3, <1>4, <1>7, <1>8 DEF RecordedOK

(* The file before and after a step that leaves the record alone.          *)
LEMMA TextsStay ==
    ASSUME TraceOK, NEW S, trace' \in Seq(S),
           \A j \in DOMAIN trace' : TextOK(trace'[j]) \/ \E i \in DOMAIN trace : trace'[j] = trace[i]
    PROVE  TraceOK'
  BY DEF TraceOK, TextOK

ChainInv == RecordedOK /\ TraceOK

THEOREM ChainInvariant == Spec => []ChainInv
<1>1. Init => ChainInv
  <2> SUFFICES ASSUME Init PROVE ChainInv OBVIOUS
  <2>1. recorded \in Seq({}) /\ trace \in Seq({}) /\ Len(recorded) = 0 /\ Hashed(recorded) = {}
    BY DEF Init, Hashed
  <2>2. DOMAIN recorded = {} /\ DOMAIN trace = {} BY DEF Init
  <2> QED BY <2>1, <2>2, EngineAssumption DEF ChainInv, RecordedOK, TraceOK
<1>2. ChainInv /\ [Next]_vars => ChainInv'
  <2> SUFFICES ASSUME ChainInv, [Next]_vars PROVE ChainInv'
    OBVIOUS
  <2> USE DEF ChainInv
  <2> PICK S : trace \in Seq(S) BY DEF TraceOK
  <2>1. ASSUME recorded' = recorded PROVE RecordedOK'
    BY <2>1 DEF RecordedOK, LinkedTo, Hashed, Precedes
  <2>2. ASSUME recorded' = recorded, trace' = trace PROVE ChainInv'
    BY <2>1, <2>2 DEF TraceOK, TextOK
  <2>3. ASSUME NEW e \in Entrusted, Record(e[1], e[2]) PROVE ChainInv'
    <3>1. RecordedOK' BY <2>3, RecordedStep
    <3> DEFINE x == Event(e[1], e[2], Len(recorded) + 1)
    <3>2. trace' = Append(trace, x) BY <2>3 DEF Record
    <3>3. TextOK(x)
      <4>1. /\ Len(recorded) + 1 \in 1 .. MaxEvents
            /\ "content" \in DOMAIN x /\ x.content = Digest[Len(recorded) + 1]
        BY <2>3, RecordedEvent
      <4> HIDE DEF x
      <4> QED BY <4>1, DigestAssumption DEF TextOK
    <3> HIDE DEF x
    <3>4. trace' \in Seq(S \cup {x})
      <4>1. trace \in Seq(S \cup {x}) OBVIOUS
      <4> QED BY <3>2, <4>1
    <3>5. \A i \in DOMAIN trace' : trace'[i] = x \/ (i \in DOMAIN trace /\ trace'[i] = trace[i])
      BY <3>2
    <3>6. TraceOK' BY <3>3, <3>4, <3>5, TextsStay
    <3> QED BY <3>1, <3>6
  <2>4. ASSUME NEW i \in DOMAIN trace, Lose(i) PROVE ChainInv'
    <3> DEFINE u == [j \in 1 .. Len(trace) - 1 |-> trace[IF j < i THEN j ELSE j + 1]]
    <3>1. u \in Seq(S) /\ \A j \in DOMAIN u : \E l \in DOMAIN trace : u[j] = trace[l]
      OBVIOUS
    <3>2. trace' = u /\ recorded' = recorded BY <2>4 DEF Lose, Edit
    <3> QED BY <2>1, <3>1, <3>2, TextsStay
  <2>5. ASSUME NEW i \in DOMAIN trace, Repeat(i) PROVE ChainInv'
    <3>1. trace' = Append(trace, trace[i]) /\ recorded' = recorded BY <2>5 DEF Repeat, Edit
    <3>2. trace' \in Seq(S) /\ \A j \in DOMAIN trace' : \E l \in DOMAIN trace : trace'[j] = trace[l]
      BY <3>1
    <3> QED BY <2>1, <3>1, <3>2, TextsStay
  <2>6. ASSUME NEW i \in DOMAIN trace, NEW x, TextOK(x), EditLine(i, x) PROVE ChainInv'
    <3>1. trace' = [trace EXCEPT ![i] = x] /\ recorded' = recorded BY <2>6 DEF EditLine, Edit
    <3>2. \A j \in DOMAIN trace' : j \in DOMAIN trace /\ (trace'[j] = trace[j] \/ trace'[j] = x)
      BY <3>1
    <3>3. trace' \in Seq(S \cup {x})
      <4>1. trace \in Seq(S \cup {x}) /\ x \in S \cup {x} OBVIOUS
      <4> QED BY <3>1, <4>1
    <3>4. TraceOK' BY <2>6, <3>2, <3>3, TextsStay
    <3> QED BY <2>1, <3>1, <3>4
  <2>7. ASSUME NEW i \in DOMAIN trace, Reorder(i) PROVE ChainInv'
    <3> DEFINE u == [trace EXCEPT ![i] = trace[i + 1], ![i + 1] = trace[i]]
    <3>1. u \in Seq(S) /\ \A j \in DOMAIN u : \E l \in DOMAIN trace : u[j] = trace[l]
      BY <2>7 DEF Reorder
    <3>2. trace' = u /\ recorded' = recorded BY <2>7 DEF Reorder, Edit
    <3> QED BY <2>1, <3>1, <3>2, TextsStay
  <2>8. CASE \E m \in Manifests : CmdReport(m) \/ ProcessAuditJob(m)
    BY <2>2, <2>8 DEF CmdReport, ProcessAuditJob
  <2>9. CASE (\E upload \in Uploads : HandlePostRun(upload)) \/ ProcessReportJob \/ UNCHANGED vars
    BY <2>2, <2>9 DEF HandlePostRun, ProcessReportJob, vars
  <2>10. ASSUME NEW i \in DOMAIN trace, Alter(i) \/ Rewrite(i) \/ Reseal(i) \/ Flag(i) \/ Relabel(i)
         PROVE  ChainInv'
    <3>1. TextOK(trace[i]) BY DEF TraceOK
    <3>2. Changed # Genesis BY DigestAssumption
    <3>3. ASSUME Alter(i) PROVE ChainInv'
      <4>1. TextOK([trace[i] EXCEPT !.content = Changed]) BY <3>1, <3>2 DEF TextOK
      <4> QED BY <2>6, <3>3, <4>1 DEF Alter
    <3>4. ASSUME Rewrite(i) PROVE ChainInv'
      <4>1. PICK new : EditLine(i, [trace[i] EXCEPT !.evidence = new]) BY <3>4 DEF Rewrite
      <4>2. TextOK([trace[i] EXCEPT !.evidence = new]) BY <3>1 DEF TextOK
      <4> QED BY <2>6, <4>1, <4>2
    <3>5. ASSUME Reseal(i) PROVE ChainInv'
      <4>1. PICK text \in {trace[i].content, Changed} :
               EditLine(i, [trace[i] EXCEPT !.content = text, !.evidence.present = TRUE,
                                            !.evidence.hash = text])
        BY <3>5 DEF Reseal
      <4>2. text # Genesis BY <3>1, <3>2 DEF TextOK
      <4>3. TextOK([trace[i] EXCEPT !.content = text, !.evidence.present = TRUE,
                                    !.evidence.hash = text])
        BY <3>1, <4>2 DEF TextOK
      <4> QED BY <2>6, <4>1, <4>3
    <3>6. ASSUME Flag(i) PROVE ChainInv'
      <4>1. TextOK([trace[i] EXCEPT !.signal = ~ @]) BY <3>1 DEF TextOK
      <4> QED BY <2>6, <3>6, <4>1 DEF Flag
    <3>7. ASSUME Relabel(i) PROVE ChainInv'
      <4>1. PICK mode : EditLine(i, [trace[i] EXCEPT !.mode = mode]) BY <3>7 DEF Relabel
      <4>2. TextOK([trace[i] EXCEPT !.mode = mode]) BY <3>1 DEF TextOK
      <4> QED BY <2>6, <4>1, <4>2
    <3> QED BY <2>10, <3>3, <3>4, <3>5, <3>6, <3>7
  <2> QED
    BY <2>3, <2>4, <2>5, <2>7, <2>8, <2>9, <2>10 DEF Next
<1> QED
  BY <1>1, <1>2, PTL DEF Spec

(* What stands before a position is what stands directly before it.        *)
LEMMA BehindOne ==
    ASSUME NEW t, Hashed(t) \in SUBSET Nat, NEW i, NEW j, Precedes(Hashed(t), j, i)
    PROVE  Behind(t, i) = {Vouched(t[j])}
<1>1. \A l \in Hashed(t) : Precedes(Hashed(t), l, i) => l = j BY DEF Precedes
<1>2. {l \in Hashed(t) : Precedes(Hashed(t), l, i)} = {j} BY <1>1 DEF Precedes
<1> QED BY <1>2 DEF Behind

(* The hashes of the record: none is the genesis hash, every one is linked,*)
(* and those that are digests are of the event that carries them.          *)
LEMMA RecordedHashes ==
    ASSUME RecordedOK
    PROVE  /\ Hashed(recorded) \in SUBSET Nat /\ Hashed(recorded) \subseteq 1 .. MaxEvents
           /\ \A k \in Hashed(recorded) :
                 /\ recorded[k].evidence.hash \notin {None, "", Genesis}
                 /\ recorded[k].evidence.prev # None
                 /\ recorded[k].evidence.hash \notin Foreign =>
                       recorded[k].content = recorded[k].evidence.hash
<1> PICK S : recorded \in Seq(S) BY DEF RecordedOK
<1>1. Hashed(recorded) \in SUBSET Nat /\ Hashed(recorded) \subseteq 1 .. MaxEvents
  BY EngineAssumption DEF RecordedOK, Hashed
<1>2. \A k \in Hashed(recorded) : recorded[k].evidence.hash \in {Digest[k], ForeignHash[k]}
  BY DEF RecordedOK
<1>3. \A k \in 1 .. MaxEvents : /\ Digest[k] \notin {None, "", Genesis}
                                /\ ForeignHash[k] \notin {None, "", Genesis} /\ ForeignHash[k] \in Foreign
  BY DigestAssumption
<1>4. \A k \in Hashed(recorded) : recorded[k].evidence.hash \notin {None, "", Genesis}
  <2> TAKE k \in Hashed(recorded)
  <2>1. k \in 1 .. MaxEvents BY <1>1
  <2> QED BY <1>2, <1>3, <2>1
<1>5. \A k \in Hashed(recorded) : recorded[k].evidence.prev # None
  <2> TAKE k \in Hashed(recorded)
  <2>1. LinkedTo(recorded, k) BY DEF RecordedOK
  <2>2. Genesis # None BY DigestAssumption
  <2> QED BY <1>4, <2>1, <2>2 DEF LinkedTo
<1>6. ASSUME NEW k \in Hashed(recorded), recorded[k].evidence.hash \notin Foreign
      PROVE  recorded[k].content = recorded[k].evidence.hash
  <2>1. k \in 1 .. MaxEvents /\ k \in DOMAIN recorded BY <1>1 DEF Hashed
  <2>2. recorded[k].evidence.hash = Digest[k] BY <1>2, <1>3, <1>6, <2>1
  <2> QED BY <2>1, <2>2 DEF RecordedOK
<1> QED BY <1>1, <1>4, <1>5, <1>6

(* TamperingShows: in a file in whose chain validate() finds nothing, a    *)
(* line with a recorded evidence block has the recorded text, and before   *)
(* it stands what was recorded before it.                                  *)
THEOREM TamperingShowsThm == Spec => []TamperingShows
<1>1. ChainInv => TamperingShows
  <2> SUFFICES ASSUME RecordedOK, TraceOK, ChainWarnings(trace) = {}, Mismatched(trace) = {},
                      NEW i \in Hashed(trace), NEW k \in Hashed(recorded),
                      trace[i].evidence = recorded[k].evidence
               PROVE  /\ Vouched(trace[i]) = Vouched(recorded[k])
                      /\ Behind(trace, i) = Behind(recorded, k)
    BY DEF ChainInv, TamperingShows
  <2> PICK S : trace \in Seq(S) BY DEF TraceOK
  <2>1. Hashed(trace) \in SUBSET Nat /\ i \in Nat BY DEF Hashed
  <2>2. Hashed(recorded) \in SUBSET Nat BY RecordedHashes
  <2>3. ASSUME NEW j \in Hashed(trace), NEW l \in Hashed(recorded),
               trace[j].evidence.hash = recorded[l].evidence.hash
        PROVE  Vouched(trace[j]) = Vouched(recorded[l])
    <3>1. CASE trace[j].evidence.hash \in Foreign BY <2>3, <3>1 DEF Vouched
    <3>2. CASE trace[j].evidence.hash \notin Foreign
      <4>1. trace[j].content = trace[j].evidence.hash BY <3>2 DEF Mismatched
      <4>2. recorded[l].content = recorded[l].evidence.hash BY <2>3, <3>2, RecordedHashes
      <4> QED BY <2>3, <4>1, <4>2 DEF Vouched
    <3> QED BY <3>1, <3>2
  <2>4. Vouched(trace[i]) = Vouched(recorded[k]) BY <2>3
  <2>5. trace[i].evidence.prev = recorded[k].evidence.prev /\ trace[i].evidence.prev # None
    BY RecordedHashes
  <2>6. LinkedTo(recorded, k) BY DEF RecordedOK
  <2>7. ASSUME \A j \in Hashed(trace) : ~ (j < i) PROVE Behind(trace, i) = Behind(recorded, k)
    <3>1. \A j \in Hashed(trace) : i <= j BY <2>1, <2>7
    <3>2. trace[i].evidence.prev = Genesis BY <2>5, <3>1 DEF ChainWarnings, WrongGenesis
    <3>3. \A l \in Hashed(recorded) : ~ (l < k) BY <2>5, <2>6, <3>2, RecordedHashes DEF LinkedTo
    <3>4. Behind(trace, i) = {} BY <2>7 DEF Behind, Precedes
    <3>5. Behind(recorded, k) = {} BY <3>3 DEF Behind, Precedes
    <3> QED BY <3>4, <3>5
  <2>8. ASSUME NEW h \in Hashed(trace), h < i PROVE Behind(trace, i) = Behind(recorded, k)
    <3>1. PICK j \in Hashed(trace) : Precedes(Hashed(trace), j, i)
      BY <2>1, <2>8, PredecessorExists
    <3>2. trace[i].evidence.prev = trace[j].evidence.hash
      <4>1. trace[j].evidence.hash # None BY DEF Hashed, Filled
      <4> QED BY <2>5, <3>1, <4>1 DEF ChainWarnings, Breaks
    <3>3. trace[j].evidence.hash # Genesis
      <4>1. CASE trace[j].evidence.hash \in Foreign BY <4>1, DigestAssumption
      <4>2. CASE trace[j].evidence.hash \notin Foreign
        <5>1. trace[j].evidence.hash = trace[j].content BY <4>2 DEF Mismatched
        <5>2. TextOK(trace[j]) BY DEF TraceOK, Hashed
        <5> QED BY <5>1, <5>2 DEF TextOK
      <4> QED BY <4>1, <4>2
    <3>4. PICK l \in Hashed(recorded) : /\ Precedes(Hashed(recorded), l, k)
                                        /\ recorded[k].evidence.prev = recorded[l].evidence.hash
      BY <2>5, <2>6, <3>2, <3>3 DEF LinkedTo
    <3>5. Vouched(trace[j]) = Vouched(recorded[l]) BY <2>3, <2>5, <3>2, <3>4
    <3>6. Behind(trace, i) = {Vouched(trace[j])} BY <2>1, <3>1, BehindOne
    <3>7. Behind(recorded, k) = {Vouched(recorded[l])} BY <2>2, <3>4, BehindOne
    <3> QED BY <3>5, <3>6, <3>7
  <2> QED BY <2>4, <2>7, <2>8
<1> QED
  BY <1>1, ChainInvariant, PTL

(* NoFalseAlarm: the hashed events of the record are linked, so validate() *)
(* has nothing to say of it; and a file without edits is the record.       *)
LEMMA RecordIsClean ==
    ASSUME RecordedOK
    PROVE  ChainWarnings(recorded) = {} /\ Mismatched(recorded) = {}
<1> DEFINE H == Hashed(recorded)
<1>1. H \in SUBSET Nat BY RecordedHashes
<1>2. ASSUME NEW k \in H PROVE recorded[k].evidence.prev # None /\ LinkedTo(recorded, k)
  BY RecordedHashes DEF RecordedOK
<1>3. WrongGenesis(recorded, H) = {}
  <2> SUFFICES ASSUME NEW i \in H, \A j \in H : i <= j PROVE recorded[i].evidence.prev \in {None, Genesis}
    BY DEF WrongGenesis
  <2>1. \A l \in H : ~ Precedes(H, l, i) BY <1>1 DEF Precedes
  <2> QED BY <1>2, <2>1 DEF LinkedTo
<1>4. Gaps(recorded, H) = {} BY <1>2 DEF Gaps
<1>5. Breaks(recorded, H) = {}
  <2> SUFFICES ASSUME NEW i \in H, NEW j \in H, Precedes(H, j, i)
               PROVE  recorded[i].evidence.prev = recorded[j].evidence.hash
    BY DEF Breaks, Precedes
  <2>1. PICK l \in H : Precedes(H, l, i) /\ recorded[i].evidence.prev = recorded[l].evidence.hash
    BY <1>2 DEF LinkedTo, Precedes
  <2>2. l = j BY <1>1, <2>1 DEF Precedes
  <2> QED BY <2>1, <2>2
<1>6. Mismatched(recorded) = {}
  <2> SUFFICES ASSUME NEW i \in H, recorded[i].evidence.hash \notin Foreign
               PROVE  recorded[i].evidence.hash = recorded[i].content
    BY DEF Mismatched
  <2> QED BY RecordedHashes
<1> QED BY <1>3, <1>4, <1>5, <1>6 DEF ChainWarnings

Untouched == edits \in Nat /\ (edits = 0 => trace = recorded)

THEOREM NoFalseAlarmThm == Spec => []NoFalseAlarm
<1>1. Init => Untouched BY DEF Init, Untouched
<1>2. Untouched /\ [Next]_vars => Untouched'
  <2> SUFFICES ASSUME Untouched, [Next]_vars PROVE Untouched' OBVIOUS
  <2>2. ASSUME NEW e \in Entrusted, Record(e[1], e[2]) PROVE Untouched'
    <3> DEFINE x == Event(e[1], e[2], Len(recorded) + 1)
    <3>1. recorded' = Append(recorded, x) /\ trace' = Append(trace, x) /\ edits' = edits
      BY <2>2 DEF Record
    <3> HIDE DEF x
    <3> QED BY <3>1 DEF Untouched
  <2>3. CASE \E i \in DOMAIN trace : \/ Lose(i) \/ Repeat(i) \/ Reorder(i) \/ Alter(i)
                                 \/ Rewrite(i) \/ Reseal(i) \/ Flag(i) \/ Relabel(i)
    <3>1. edits' = edits + 1 BY <2>3, EditsAreCounted
    <3> QED BY <3>1 DEF Untouched
  <2>4. CASE \E m \in Manifests : CmdReport(m) \/ ProcessAuditJob(m)
    BY <2>4 DEF CmdReport, ProcessAuditJob, Untouched
  <2>5. CASE (\E upload \in Uploads : HandlePostRun(upload)) \/ ProcessReportJob \/ UNCHANGED vars
    BY <2>5 DEF HandlePostRun, ProcessReportJob, vars, Untouched
  <2> QED BY <2>2, <2>3, <2>4, <2>5 DEF Next
<1>3. ChainInv /\ Untouched => NoFalseAlarm
  BY RecordIsClean DEF ChainInv, Untouched, NoFalseAlarm
<1> QED BY <1>1, <1>2, <1>3, ChainInvariant, PTL DEF Spec

-----------------------------------------------------------------------------
(* A trace and the same trace after one signed event.                      *)
SignedExtension(t, u, n) ==
    /\ n \in Nat /\ Len(t) = n /\ Len(u) = n + 1
    /\ DOMAIN t = 1 .. n /\ DOMAIN u = 1 .. n + 1 /\ \A i \in DOMAIN t : u[i] = t[i]
    /\ LET e == u[n + 1].evidence IN
          /\ e.present /\ Filled(e.hash) /\ Filled(e.signature)
          /\ Filled(e.signer) /\ e.signer # "none"

LEMMA SignedStep ==
    ASSUME ChainInv, IsSequence, [Next]_vars, trace' # trace, edits' = edits,
           trace'[Len(trace')].evidence.signature # None
    PROVE  SignedExtension(trace, trace', Len(trace))
<1> PICK S : trace \in Seq(S) BY DEF IsSequence
<1>1. PICK e \in Entrusted : Record(e[1], e[2])
  BY RecordingStep DEF IsSequence
<1> DEFINE k == Len(recorded) + 1
           x == Event(e[1], e[2], k)
<1>2. trace' = Append(trace, x) BY <1>1 DEF Record
<1>3. k \in 1 .. MaxEvents BY <1>1, RecordedEvent DEF ChainInv
<1> HIDE DEF k
<1>4. x.evidence = Evidence(e[2], k) BY DEF Event
<1> HIDE DEF x
<1>5. /\ Len(trace) \in Nat /\ Len(trace') = Len(trace) + 1
      /\ DOMAIN trace = 1 .. Len(trace) /\ DOMAIN trace' = 1 .. Len(trace) + 1
      /\ \A i \in DOMAIN trace : trace'[i] = trace[i]
      /\ trace'[Len(trace) + 1] = x
  BY <1>2
<1>6. x.evidence.signature # None BY <1>5
<1>7. e[2] \in {"signed", "foreign"}
  <2>1. e[2] \in {"bare", "hashed", "signed", "foreign", "follows"} BY EngineAssumption
  <2>2. \A kind \in {"bare", "hashed", "follows"} : Evidence(kind, k).signature = None
    BY DEF Evidence, NoEvidence
  <2> QED BY <1>4, <1>6, <2>1, <2>2
<1>8. /\ Digest[k] \notin {None, ""} /\ ForeignHash[k] \notin {None, ""}
      /\ "key" \notin {None, ""} /\ "key" # "none"
  BY <1>3, DigestAssumption
<1>9. /\ x.evidence.present /\ x.evidence.hash \in {Digest[k], ForeignHash[k]}
      /\ x.evidence.signature = Digest[k] /\ x.evidence.signer = "key"
  BY <1>4, <1>7 DEF Evidence, NoEvidence
<1> QED BY <1>5, <1>8, <1>9 DEF SignedExtension, Filled

(* Every set of positions the mapping looks at only grows.                 *)
LEMMA PositionsGrow ==
    ASSUME NEW t, NEW u, NEW n, SignedExtension(t, u, n)
    PROVE  /\ ToolCalls(t) = {i \in ToolCalls(u) : i <= n}
           /\ PolicyDecisions(t) \subseteq PolicyDecisions(u)
           /\ HumanApprovals(t) \subseteq HumanApprovals(u)
           /\ Observations(t) \subseteq Observations(u)
           /\ Errors(t) \subseteq Errors(u) /\ Denials(t) \subseteq Denials(u)
           /\ Signed(t) \subseteq Signed(u) /\ SignerKey(t) \subseteq SignerKey(u)
           /\ \A tags : Tagged(t, tags) \subseteq Tagged(u, tags)
           /\ \A sources : Observing(t, sources) \subseteq Observing(u, sources)
           /\ \A S, T : S \subseteq DOMAIN t /\ S \subseteq T => OverNetwork(t, S) \subseteq OverNetwork(u, T)
           /\ \A levels : Identified(t, levels) => Identified(u, levels)
<1>0. n \in Nat /\ DOMAIN t = 1 .. n /\ DOMAIN u = 1 .. n + 1 /\ \A i \in DOMAIN t : u[i] = t[i]
  BY DEF SignedExtension
<1>1. /\ DOMAIN t \subseteq DOMAIN u
      /\ \A kind : OfType(t, kind) = {i \in OfType(u, kind) : i <= n}
      /\ Denials(t) \subseteq Denials(u) /\ Errors(t) \subseteq Errors(u)
      /\ \A tags : Tagged(t, tags) \subseteq Tagged(u, tags)
  BY <1>0, ExtensionKeeps
<1>2. /\ ToolCalls(t) = {i \in ToolCalls(u) : i <= n}
      /\ PolicyDecisions(t) \subseteq PolicyDecisions(u)
      /\ HumanApprovals(t) \subseteq HumanApprovals(u) /\ Observations(t) \subseteq Observations(u)
  BY <1>1 DEF ToolCalls, PolicyDecisions, HumanApprovals, Observations
<1>3. Signed(t) \subseteq Signed(u) /\ SignerKey(t) \subseteq SignerKey(u)
  BY <1>0, <1>1 DEF Signed, SignerKey
<1>4. \A sources : Observing(t, sources) \subseteq Observing(u, sources)
  BY <1>0, <1>1, <1>2, PositionSubsets DEF Observing
<1>5. \A S, T : S \subseteq DOMAIN t /\ S \subseteq T => OverNetwork(t, S) \subseteq OverNetwork(u, T)
  BY <1>0 DEF OverNetwork
<1>6. \A levels : Identified(t, levels) => Identified(u, levels)
  BY <1>0, <1>1 DEF Identified
<1> QED BY <1>1, <1>2, <1>3, <1>4, <1>5, <1>6

(* The event appended is evident, hashed, signed and has a named signer.   *)
LEMMA EvidenceGrows ==
    ASSUME NEW t, NEW u, NEW n, SignedExtension(t, u, n)
    PROVE  /\ Evident(u) = Evident(t) \cup {n + 1} /\ Evident(t) = {i \in Evident(u) : i <= n}
           /\ Hashed(u) = Hashed(t) \cup {n + 1}
           /\ Signed(u) = Signed(t) \cup {n + 1}
           /\ NamedSigner(u) = NamedSigner(t) \cup {n + 1}
           /\ NamedSigner(t) = {i \in NamedSigner(u) : i <= n}
           /\ n \in Nat /\ Evident(t) \subseteq 1 .. n /\ Hashed(t) \subseteq 1 .. n
           /\ NamedSigner(t) \subseteq 1 .. n
<1> USE DEF SignedExtension
<1>1. /\ Evident(u) = Evident(t) \cup {n + 1} /\ Evident(t) \subseteq 1 .. n
      /\ Hashed(u) = Hashed(t) \cup {n + 1} /\ Hashed(t) \subseteq 1 .. n
      /\ Signed(u) = Signed(t) \cup {n + 1}
  BY DEF Evident, Hashed, Signed
<1>2. NamedSigner(u) = NamedSigner(t) \cup {n + 1} /\ NamedSigner(t) \subseteq 1 .. n
  BY DEF NamedSigner, SignerKey
<1> QED BY <1>1, <1>2

(* The first ones of a set stay the first ones when later ones are added.  *)
LEMMA FirstGrows ==
    ASSUME NEW T, NEW S, NEW n, NEW k, S = {i \in T : i <= n}, T \in SUBSET Int, n \in Int
    PROVE  First(S, k) \subseteq First(T, k)
<1> SUFFICES ASSUME NEW i \in First(S, k) PROVE i \in First(T, k) OBVIOUS
<1>1. i \in S /\ i \in T /\ Cardinality({j \in S : j <= i}) <= k BY DEF First
<1>2. {j \in S : j <= i} = {j \in T : j <= i}
  <2>1. i \in Int /\ i <= n BY <1>1
  <2>2. \A j \in T : j <= i => j \in S BY <2>1
  <2> QED BY <2>2
<1> QED BY <1>1, <1>2 DEF First

(* What the boundary findings cite they go on citing.                      *)
LEMMA BoundaryGrows ==
    ASSUME NEW t, NEW u, NEW n, NEW m, SignedExtension(t, u, n)
    PROVE  Cited(Findings(t, m), BoundaryRules) \subseteq Cited(Findings(u, m), BoundaryRules)
<1> SUFFICES ASSUME NEW f \in Findings(t, m), f.rule \in BoundaryRules PROVE f \in Findings(u, m)
  BY DEF Cited
<1>1. ToolCalls(t) \subseteq ToolCalls(u) /\ ToolCalls(t) \subseteq DOMAIN t
      /\ \A i \in DOMAIN t : u[i] = t[i]
  <2>1. ToolCalls(t) = {i \in ToolCalls(u) : i <= n} BY PositionsGrow
  <2> QED BY <2>1, PositionSubsets DEF SignedExtension
<1>2. f \notin NoManifest(m) BY DEF NoManifest, Finding, BoundaryRules
<1>3. f \notin HighRiskNoApproval(t, m)
  BY DEF HighRiskNoApproval, NoApproval, At, Finding, BoundaryRules
<1>4. f \notin DenyIgnored(t) /\ f \notin MissingPolicy(t)
  BY DEF DenyIgnored, MissingPolicy, At, Finding, BoundaryRules
<1>5. f \notin ChainBreak(t) BY DEF ChainBreak, BrokenLink, Finding, BoundaryRules
<1>6. ASSUME f \in UndeclaredCapability(t, m) PROVE f \in UndeclaredCapability(u, m)
  <2>1. PICK i \in ToolCalls(t) : /\ m.declared # {} /\ t[i].cap # None /\ t[i].cap \notin m.declared
                                  /\ f = At(t, "OAA-R-CAP-001", "high", i)
    BY <1>6 DEF UndeclaredCapability
  <2>2. f = At(u, "OAA-R-CAP-001", "high", i) BY <1>1, <2>1 DEF At
  <2> QED BY <1>1, <2>1, <2>2 DEF UndeclaredCapability
<1>7. ASSUME f \in DeniedCapability(t, m) PROVE f \in DeniedCapability(u, m)
  <2>1. PICK i \in ToolCalls(t) : t[i].cap \in m.denied /\ f = At(t, "OAA-R-CAP-002", "critical", i)
    BY <1>7 DEF DeniedCapability
  <2>2. f = At(u, "OAA-R-CAP-002", "critical", i) BY <1>1, <2>1 DEF At
  <2> QED BY <1>1, <2>1, <2>2 DEF DeniedCapability
<1> QED BY <1>2, <1>3, <1>4, <1>5, <1>6, <1>7 DEF Findings

-----------------------------------------------------------------------------
(* The statuses of the entries the mapping is built from.                  *)
LEMMA StatusOf ==
    /\ \A x, S, s : Entry(x, S, s).status = x
    /\ \A x : Silent(x).status = x
    /\ \A x, S, s, rules : Graded(Entry(x, S, s), rules, s).status = x
    /\ \A x, S, s : S = {} => Partly(S, x, s).status = x
    /\ \A x, S, s : S # {} => Partly(S, x, s).status = "partial"
  BY DEF Entry, Silent, Graded, Partly

LEMMA Ranks ==
    /\ Rank("supported") = 2 /\ Rank("partial") = 1
    /\ Rank("not_evaluated") = 0 /\ Rank("not_applicable") = 0
  BY DEF Rank

(* Two subjects, the second after one signed event.                        *)
Later(s, r, n) ==
    /\ SignedExtension(s.t, r.t, n)
    /\ s.meta = r.meta /\ s.bench = None /\ r.bench = None
    /\ Cited(s.findings, BoundaryRules) \subseteq Cited(r.findings, BoundaryRules)

LEMMA OwaspNeverFalls ==
    ASSUME NEW s, NEW r, NEW n, Later(s, r, n)
    PROVE  \A x \in DOMAIN Owasp(s) : Rank(Owasp(r)[x].status) >= Rank(Owasp(s)[x].status)
<1> DEFINE t == s.t
           u == r.t
<1>0. /\ ToolCalls(t) = {i \in ToolCalls(u) : i <= n}
      /\ ToolCalls(t) \subseteq ToolCalls(u)
      /\ PolicyDecisions(t) \subseteq PolicyDecisions(u)
      /\ HumanApprovals(t) \subseteq HumanApprovals(u)
      /\ Observations(t) \subseteq Observations(u)
      /\ Errors(t) \subseteq Errors(u) /\ Denials(t) \subseteq Denials(u)
      /\ Signed(t) \subseteq Signed(u) /\ SignerKey(t) \subseteq SignerKey(u)
      /\ \A tags : Tagged(t, tags) \subseteq Tagged(u, tags)
      /\ \A sources : Observing(t, sources) \subseteq Observing(u, sources)
      /\ \A S, T : S \subseteq DOMAIN t /\ S \subseteq T => OverNetwork(t, S) \subseteq OverNetwork(u, T)
  BY PositionsGrow DEF Later
<1>1. Rank(AAI01(r).status) >= Rank(AAI01(s).status)
  BY <1>0, StatusOf, Ranks DEF AAI01
<1>2. Rank(AAI02(r).status) >= Rank(AAI02(s).status)
  BY <1>0, StatusOf, Ranks DEF AAI02
<1>3. Rank(AAI03(r).status) >= Rank(AAI03(s).status)
  BY <1>0, StatusOf, Ranks DEF AAI03, Later
<1>4. Rank(AAI04(r).status) >= Rank(AAI04(s).status)
  BY <1>0, StatusOf, Ranks DEF AAI04
<1>5. Rank(AAI05(r).status) >= Rank(AAI05(s).status)
  <2>1. Denials(t) \subseteq DOMAIN t /\ ToolCalls(t) \subseteq DOMAIN t BY PositionSubsets
  <2>2. /\ OverNetwork(t, Denials(t)) \subseteq OverNetwork(u, Denials(u))
        /\ OverNetwork(t, ToolCalls(t)) \subseteq OverNetwork(u, ToolCalls(u))
    BY <1>0, <2>1
  <2> QED BY <2>2, StatusOf, Ranks DEF AAI05
<1>6. Rank(AAI06(r).status) >= Rank(AAI06(s).status)
  BY <1>0, StatusOf, Ranks DEF AAI06
<1>7. Rank(AAI07(r).status) >= Rank(AAI07(s).status)
  <2>1. First(ToolCalls(t), 3) \subseteq First(ToolCalls(u), 3)
    <3>1. n \in Int BY DEF Later, SignedExtension
    <3>2. ToolCalls(u) \in SUBSET Int
      BY PositionSubsets DEF Later, SignedExtension
    <3> HIDE DEF t, u
    <3> QED BY <1>0, <3>1, <3>2, FirstGrows
  <2>2. {i \in ToolCalls(t) : ~Filled(t[i].cap)} \subseteq {i \in ToolCalls(u) : ~Filled(u[i].cap)}
    BY <1>0, PositionSubsets DEF Later, SignedExtension
  <2> QED BY <1>0, <2>1, <2>2, StatusOf, Ranks DEF AAI07, Later
<1>8. Rank(AAI08(r).status) >= Rank(AAI08(s).status)
  BY <1>0, StatusOf, Ranks DEF AAI08
<1>9. Rank(AAI09(r).status) >= Rank(AAI09(s).status)
  BY <1>0, StatusOf, Ranks DEF AAI09, RiskyCalls
<1>10. Rank(AAI10(r).status) >= Rank(AAI10(s).status)
  <2>1. /\ Hashed(u) = Hashed(t) \cup {n + 1} /\ Hashed(t) \subseteq 1 .. n /\ n \in Nat
        /\ Evident(u) = Evident(t) \cup {n + 1} /\ Len(t) = n /\ Len(u) = n + 1
    <3>1. SignedExtension(t, u, n) /\ Len(t) = n /\ Len(u) = n + 1 BY DEF Later, SignedExtension
    <3> HIDE DEF t, u
    <3> QED BY <3>1, EvidenceGrows
  <2>2. IsFiniteSet(1 .. n) BY <2>1, FS_Interval
  <2>3. IsFiniteSet(Hashed(t)) BY <2>1, <2>2, FS_Subset
  <2>4. n + 1 \notin Hashed(t) BY <2>1
  <2>5. Cardinality(Hashed(u)) = Cardinality(Hashed(t)) + 1 /\ Cardinality(Hashed(t)) \in Nat
    BY <2>1, <2>3, <2>4, FS_AddElement, FS_CardinalityType
  <2>6. 2 * Cardinality(Hashed(t)) > Len(t) => 2 * Cardinality(Hashed(u)) > Len(u)
    BY <2>1, <2>5
  <2> QED BY <2>1, <2>6, StatusOf, Ranks DEF AAI10
<1> QED
  BY <1>1, <1>2, <1>3, <1>4, <1>5, <1>6, <1>7, <1>8, <1>9, <1>10 DEF Owasp

LEMMA AnnexIVNeverFalls ==
    ASSUME NEW s, NEW r, NEW n, Later(s, r, n)
    PROVE  \A x \in DOMAIN AnnexIV(s) : Rank(AnnexIV(r)[x].status) >= Rank(AnnexIV(s)[x].status)
<1> DEFINE t == s.t
           u == r.t
<1>0. /\ ToolCalls(t) = {i \in ToolCalls(u) : i <= n}
      /\ ToolCalls(t) \subseteq ToolCalls(u)
      /\ PolicyDecisions(t) \subseteq PolicyDecisions(u)
      /\ HumanApprovals(t) \subseteq HumanApprovals(u)
      /\ \A tags : Tagged(t, tags) \subseteq Tagged(u, tags)
      /\ \A levels : Identified(t, levels) => Identified(u, levels)
      /\ s.meta = r.meta /\ s.bench = None /\ r.bench = None
      /\ n \in Nat /\ DOMAIN u = 1 .. n + 1 /\ \A i \in DOMAIN t : u[i] = t[i]
  <2>1. SignedExtension(t, u, n) /\ s.meta = r.meta /\ s.bench = None /\ r.bench = None BY DEF Later
  <2>2. n \in Nat /\ DOMAIN u = 1 .. n + 1 /\ \A i \in DOMAIN t : u[i] = t[i]
    BY <2>1 DEF SignedExtension
  <2> HIDE DEF t, u
  <2> QED BY <2>1, <2>2, PositionsGrow
<1>00. /\ Evident(u) = Evident(t) \cup {n + 1} /\ Evident(t) = {i \in Evident(u) : i <= n}
       /\ Hashed(u) = Hashed(t) \cup {n + 1} /\ Signed(u) = Signed(t) \cup {n + 1}
       /\ NamedSigner(u) = NamedSigner(t) \cup {n + 1}
       /\ NamedSigner(t) = {i \in NamedSigner(u) : i <= n}
       /\ Evident(u) \in SUBSET Int /\ NamedSigner(u) \in SUBSET Int /\ ToolCalls(u) \in SUBSET Int
  <2>1. SignedExtension(t, u, n) BY DEF Later
  <2>2. /\ Evident(u) \subseteq DOMAIN u /\ NamedSigner(u) \subseteq DOMAIN u
        /\ ToolCalls(u) \subseteq DOMAIN u
    BY PositionSubsets
  <2> HIDE DEF t, u
  <2> QED BY <1>0, <2>1, <2>2, EvidenceGrows
<1>000. \A k : /\ First(ToolCalls(t), k) \subseteq First(ToolCalls(u), k)
               /\ First(Evident(t), k) \subseteq First(Evident(u), k)
               /\ First(NamedSigner(t), k) \subseteq First(NamedSigner(u), k)
  BY <1>0, <1>00, FirstGrows
<1>1. Rank(SystemDescription(r).status) >= Rank(SystemDescription(s).status)
  <2>1. SystemDescription(s).status \in {"supported", "partial"} BY StatusOf DEF SystemDescription
  <2>2. SystemDescription(r).status \in {"supported", "partial"} BY StatusOf DEF SystemDescription
  <2>3. SystemDescription(s).status = "supported" => SystemDescription(r).status = "supported"
    BY <1>0, StatusOf DEF SystemDescription
  <2> QED BY <2>1, <2>2, <2>3, Ranks
<1>2. Rank(DesignSpecifications(r).status) >= Rank(DesignSpecifications(s).status)
  BY <1>0, StatusOf, Ranks DEF DesignSpecifications
<1>3. Rank(RiskManagement(r).status) >= Rank(RiskManagement(s).status)
  BY <1>0, <1>000, StatusOf, Ranks DEF RiskManagement
<1>4. Rank(DataGovernance(r).status) >= Rank(DataGovernance(s).status)
  BY <1>0, StatusOf, Ranks DEF DataGovernance
<1>5. Rank(TestingValidation(r).status) >= Rank(TestingValidation(s).status)
  BY <1>0, StatusOf, Ranks DEF TestingValidation
<1>6. Rank(LifecycleChanges(r).status) >= Rank(LifecycleChanges(s).status)
  <2>1. (NamedSigner(t) = Evident(t) /\ Evident(t) \subseteq Signed(t))
           => /\ NamedSigner(u) # {} /\ NamedSigner(u) = Evident(u)
              /\ Evident(u) \subseteq Signed(u)
    BY <1>00
  <2> QED BY <1>000, <2>1, StatusOf, Ranks DEF LifecycleChanges
<1>7. Rank(AttributionGrading(r).status) >= Rank(AttributionGrading(s).status)
  BY <1>0, StatusOf, Ranks DEF AttributionGrading
<1>8. Rank(Monitoring(r).status) >= Rank(Monitoring(s).status)
  BY StatusOf, Ranks DEF Monitoring
<1>9. Rank(HumanOversightMeasures(r).status) >= Rank(HumanOversightMeasures(s).status)
  <2>1. {i \in PolicyDecisions(t) : t[i].decision = "ask_user"}
          \subseteq {i \in PolicyDecisions(u) : u[i].decision = "ask_user"}
    BY <1>0, PositionSubsets
  <2>2. RiskyCalls(t) \subseteq RiskyCalls(u) BY <1>0 DEF RiskyCalls
  <2> QED BY <1>0, <2>1, <2>2, StatusOf, Ranks DEF HumanOversightMeasures
<1>10. Rank(IntendedUse(r).status) >= Rank(IntendedUse(s).status)
  BY <1>0, <1>000, StatusOf, Ranks DEF IntendedUse
<1>11. Rank(LoggingCapability(r).status) >= Rank(LoggingCapability(s).status)
  <2>1. Evident(t) \subseteq Signed(t) \cap Hashed(t)
           => Evident(u) # {} /\ Evident(u) \subseteq Signed(u) \cap Hashed(u)
    BY <1>00
  <2> QED BY <1>000, <2>1, StatusOf, Ranks DEF LoggingCapability
<1>12. Rank(AccuracyRobustness(r).status) >= Rank(AccuracyRobustness(s).status)
  BY <1>00, StatusOf, Ranks DEF AccuracyRobustness
<1>13. /\ Rank(QualityManagement(r).status) >= Rank(QualityManagement(s).status)
       /\ Rank(Transparency(r).status) >= Rank(Transparency(s).status)
  BY StatusOf, Ranks DEF QualityManagement, Transparency
<1> QED
  BY <1>1, <1>2, <1>3, <1>4, <1>5, <1>6, <1>7, <1>8, <1>9, <1>10, <1>11, <1>12, <1>13 DEF AnnexIV

(* StatusNeverFalls: a signed event appended to the record lowers no       *)
(* status of the OWASP entries or of Annex IV.                             *)
THEOREM StatusNeverFallsThm == Spec => StatusNeverFalls
<1> DEFINE Old(m) == Subject(trace, Findings(trace, m), NoMeta)
           New(m) == Subject(trace', Findings(trace', m), NoMeta)
           Kept == trace' # trace /\ edits' = edits /\ trace'[Len(trace')].evidence.signature # None =>
             \A m \in Manifests :
               LET before == Subject(trace, Findings(trace, m), NoMeta)
                   after  == Subject(trace', Findings(trace', m), NoMeta)
               IN  \A pq \in {<<Owasp(before), Owasp(after)>>, <<AnnexIV(before), AnnexIV(after)>>} :
                       \A r \in DOMAIN pq[1] : Rank(pq[2][r].status) >= Rank(pq[1][r].status)
<1>1. ChainInv /\ IsSequence /\ [Next]_vars => [Kept]_vars
  <2> SUFFICES ASSUME ChainInv, IsSequence, [Next]_vars, trace' # trace, edits' = edits,
                      trace'[Len(trace')].evidence.signature # None, NEW m \in Manifests
               PROVE  /\ \A r \in DOMAIN Owasp(Old(m)) :
                            Rank(Owasp(New(m))[r].status) >= Rank(Owasp(Old(m))[r].status)
                      /\ \A r \in DOMAIN AnnexIV(Old(m)) :
                            Rank(AnnexIV(New(m))[r].status) >= Rank(AnnexIV(Old(m))[r].status)
    OBVIOUS
  <2>1. SignedExtension(trace, trace', Len(trace)) BY SignedStep
  <2>2. Later(Old(m), New(m), Len(trace)) BY <2>1, BoundaryGrows DEF Later, Subject
  <2> QED BY <2>2, OwaspNeverFalls, AnnexIVNeverFalls
<1> QED
  BY <1>1, ChainInvariant, IsSequenceThm, PTL DEF Spec, StatusNeverFalls

-----------------------------------------------------------------------------
(* VerifiedChainScores: what validate() finds sound the score does not     *)
(* treat as broken.                                                        *)
THEOREM VerifiedChainScoresThm == Spec => []VerifiedChainScores
<1>1. VerifiedChainScores
  <2> SUFFICES ASSUME Linked(trace) # {}, Linked(trace) = Hashed(trace), Valid(trace),
                      ChainWarnings(trace) = {}, Mismatched(trace) = {}
               PROVE  ProvenanceIntegrity(trace, 0, 0, None)
                        >= (IF Hashed(trace) \subseteq Signed(trace) THEN 100 ELSE 60)
    BY DEF VerifiedChainScores
  <2>1. Breaks(trace, Linked(trace)) = {}
    BY DEF ChainWarnings
  <2>2. Forged(trace) = {}
    <3>1. "signature" \in DOMAIN ValidationErrors(trace)
          /\ ValidationErrors(trace)["signature"] = Forged(trace)
      BY DEF ValidationErrors
    <3> QED
      BY <3>1 DEF Valid
  <2>3. \A i \in Linked(trace) : trace[i].evidence.algorithm # None => trace[i].evidence.signature # None
    BY <2>2 DEF Forged, Linked, Filled
  <2>4. Hashed(trace) \subseteq Signed(trace) => \A i \in Linked(trace) : trace[i].evidence.signature # None
    BY DEF Signed, Filled
  <2> QED
    BY <2>1, <2>3, <2>4 DEF ProvenanceIntegrity, Least, Greatest
<1> QED
  BY <1>1, PTL

-----------------------------------------------------------------------------
(* A rounded quotient of a number between zero and m divisors.             *)
LEMMA RoundedWithin ==
    ASSUME NEW x \in Int, NEW d \in Int, d > 0, NEW m \in Nat, 0 <= x, x <= m * d
    PROVE  Rounded(x, d) \in 0 .. m
<1> DEFINE a == 2 * x + d
           q == a \div (2 * d)
<1>1. a \in Int /\ 2 * d \in Int /\ 2 * d > 0 /\ a >= 0 OBVIOUS
<1>2. q \in Int /\ (2 * d) * q <= a /\ a < (2 * d) * (q + 1)
  <2> DEFINE b == 2 * d
  <2>1. b \in Int /\ b > 0 OBVIOUS
  <2> HIDE DEF a, b
  <2>2. (a \div b) \in Int /\ a = b * (a \div b) + (a % b) /\ a % b \in 0 .. b - 1 BY <1>1, <2>1
  <2>3. b * (a \div b) <= a /\ a < b * (a \div b) + b BY <1>1, <2>1, <2>2
  <2> QED BY <2>1, <2>2, <2>3 DEF b
<1> HIDE DEF q
<1>3. a <= (2 * d) * m + d BY DEF a
<1>4. ~ (q >= m + 1)
  <2> SUFFICES ASSUME q >= m + 1 PROVE FALSE OBVIOUS
  <2>1. (2 * d) * q >= (2 * d) * (m + 1) BY <1>1, <1>2
  <2>2. (2 * d) * (m + 1) = (2 * d) * m + 2 * d OBVIOUS
  <2> QED BY <1>1, <1>2, <1>3, <2>1, <2>2
<1>5. q >= 0
  <2> SUFFICES ASSUME q + 1 <= 0 PROVE FALSE BY <1>2
  <2>1. (2 * d) * (q + 1) <= 0 BY <1>1, <1>2
  <2> QED BY <1>1, <1>2, <2>1
<1> QED BY <1>2, <1>4, <1>5 DEF Rounded, q

(* What the counts in the scores are.                                      *)
LEMMA Counts ==
    ASSUME NEW S, NEW t \in Seq(S)
    PROVE  /\ Len(t) \in Nat
           /\ \A X \in SUBSET DOMAIN t : Cardinality(X) \in Nat
           /\ Cardinality(Unpaired(t)) \in Nat
<1>1. Len(t) \in Nat /\ DOMAIN t = 1 .. Len(t) OBVIOUS
<1>2. IsFiniteSet(DOMAIN t) BY <1>1, FS_Interval
<1>3. \A X \in SUBSET DOMAIN t : IsFiniteSet(X) /\ Cardinality(X) \in Nat
  BY <1>2, FS_Subset, FS_CardinalityType
<1>4. IsFiniteSet({t[i].name : i \in {i \in ToolCalls(t) : Filled(t[i].name)}})
  <2> DEFINE I == {i \in ToolCalls(t) : Filled(t[i].name)}
             f == [i \in I |-> t[i].name]
  <2>1. IsFiniteSet(I) BY <1>3, PositionSubsets
  <2>2. {t[i].name : i \in I} = {f[i] : i \in I} OBVIOUS
  <2>3. f \in Surjection(I, {f[i] : i \in I}) BY DEF Surjection
  <2>4. IsFiniteSet({f[i] : i \in I}) BY <2>1, <2>3, FS_Surjection
  <2> QED BY <2>2, <2>4
<1>5. IsFiniteSet(Unpaired(t)) BY <1>4, FS_Subset DEF Unpaired
<1> QED BY <1>1, <1>3, <1>5, FS_CardinalityType

(* A fraction between zero and a hundred.                                  *)
LEMMA CompletenessRange ==
    ASSUME NEW S, NEW t \in Seq(S)
    PROVE  LET tc == TraceCompleteness(t)
           IN  tc.num \in Int /\ tc.den \in Int /\ tc.den > 0 /\ 0 <= tc.num /\ tc.num <= 100 * tc.den
<1> DEFINE n == Len(t)
           calls == Greatest(1, Cardinality(ToolCalls(t)))
           unnumbered == Cardinality({i \in DOMAIN t : ~t[i].evidence.numbered})
           undated == Cardinality({i \in DOMAIN t : t[i].at = None})
           bonus == 3 * Mode(t, "full") + Mode(t, "delta") - 2 * Mode(t, "validation")
           den == n * calls
           num == den * (100 - 2 * Cardinality(Unpaired(t)))
                    - calls * (50 * unnumbered + 30 * undated) + n * bonus
<1>1. n \in Nat /\ calls \in Int /\ calls >= 1 /\ unnumbered \in Nat /\ undated \in Nat
  <2>1. Cardinality(ToolCalls(t)) \in Nat BY Counts, PositionSubsets
  <2>2. unnumbered \in Nat BY Counts
  <2>3. undated \in Nat BY Counts
  <2> QED BY <2>1, <2>2, <2>3 DEF Greatest
<1>2. bonus \in Int
  <2>1. \A mode : Mode(t, mode) \in Nat
    <3> SUFFICES ASSUME NEW mode PROVE Mode(t, mode) \in Nat OBVIOUS
    <3>1. {i \in ToolCalls(t) : t[i].mode = mode} \in SUBSET DOMAIN t BY PositionSubsets
    <3> QED BY <3>1, Counts DEF Mode
  <2>2. Mode(t, "full") \in Nat /\ Mode(t, "delta") \in Nat /\ Mode(t, "validation") \in Nat BY <2>1
  <2> QED BY <2>2
<1>3. Cardinality(Unpaired(t)) \in Nat BY Counts
<1>4. TraceCompleteness(t) = IF n = 0 THEN [num |-> 0, den |-> 1]
                             ELSE [num |-> Clamp(num, 0, 100 * den), den |-> den]
  BY DEF TraceCompleteness
<1> HIDE DEF n, calls, unnumbered, undated, bonus
<1>5. den \in Int /\ (n # 0 => den > 0) BY <1>1
<1>6. num \in Int
  <2>1. den * (100 - 2 * Cardinality(Unpaired(t))) \in Int BY <1>3, <1>5
  <2>2. calls * (50 * unnumbered + 30 * undated) \in Int BY <1>1
  <2>3. n * bonus \in Int BY <1>1, <1>2
  <2> HIDE DEF den
  <2> QED BY <2>1, <2>2, <2>3
<1> HIDE DEF num, den
<1>7. CASE n = 0 BY <1>4, <1>7
<1>8. CASE n # 0
  <2>1. Clamp(num, 0, 100 * den) \in Int /\ 0 <= Clamp(num, 0, 100 * den) /\ Clamp(num, 0, 100 * den) <= 100 * den
    BY <1>5, <1>6, <1>8 DEF Clamp, Greatest, Least
  <2> QED BY <1>4, <1>5, <1>8, <2>1
<1> QED BY <1>7, <1>8

(* The other components are percentages.                                   *)
LEMMA ComponentRanges ==
    ASSUME NEW S, NEW t \in Seq(S), NEW anchors \in Nat, NEW mismatches \in Nat, NEW attribution,
           NEW contamination \in {None} \cup 0 .. 100
    PROVE  /\ ProvenanceIntegrity(t, anchors, mismatches, attribution) \in 0 .. 100
           /\ ObjectiveVerification(t) \in 0 .. 100
           /\ PolicyCoverage(t) \in 0 .. 100
           /\ HumanOversight(t) \in 0 .. 100
           /\ ContaminationInverted(contamination) \in 0 .. 100
<1>1. ProvenanceIntegrity(t, anchors, mismatches, attribution) \in 0 .. 100
  <2>1. AttributionBonus(attribution) \in Int
    BY DEF AttributionBonus, Clamp, Greatest, Least
  <2> DEFINE signed == \A i \in Linked(t) : t[i].evidence.signature # None
             anchored == Least(100, (IF signed THEN 100 ELSE 60) + 5 * anchors)
             enveloped == IF \E i \in Linked(t) : t[i].evidence.format = "dsse"
                          THEN Least(100, anchored + 3) ELSE anchored
             attributed == IF attribution = None THEN enveloped
                           ELSE Clamp(enveloped + AttributionBonus(attribution), 0, 100)
  <2>2. anchored \in 0 .. 100 BY DEF Least
  <2>3. enveloped \in 0 .. 100
    <3> HIDE DEF anchored
    <3> QED BY <2>2 DEF Least
  <2>4. attributed \in 0 .. 100
    <3> HIDE DEF enveloped
    <3>1. Clamp(enveloped + AttributionBonus(attribution), 0, 100) \in 0 .. 100
      <4> DEFINE y == enveloped + AttributionBonus(attribution)
      <4>1. y \in Int BY <2>1, <2>3
      <4> HIDE DEF y
      <4>2. Clamp(y, 0, 100) \in 0 .. 100 BY <4>1 DEF Clamp, Greatest, Least
      <4> QED BY <4>2 DEF y
    <3> QED BY <2>3, <3>1
  <2>5. ProvenanceIntegrity(t, anchors, mismatches, attribution)
          \in {20, 0, Greatest(0, attributed - 20 * mismatches)}
    BY DEF ProvenanceIntegrity
  <2>6. Greatest(0, attributed - 20 * mismatches) \in 0 .. 100
    <3> HIDE DEF attributed
    <3> QED BY <2>4 DEF Greatest
  <2> HIDE DEF attributed
  <2> QED BY <2>5, <2>6
<1>2. /\ Cardinality(ToolCalls(t)) \in Nat /\ Cardinality(Verifications(t)) \in Nat
      /\ Cardinality(PolicyDecisions(t)) \in Nat /\ Cardinality(HumanApprovals(t)) \in Nat
      /\ Cardinality(Tagged(t, {"human_required", "high_risk"})) \in Nat
  BY Counts, PositionSubsets, TaggedSubset
<1>3. ObjectiveVerification(t) \in 0 .. 100
  <2> DEFINE calls == Cardinality(ToolCalls(t))
             verified == Cardinality(Verifications(t))
  <2>1. calls \in Nat /\ verified \in Nat BY <1>2
  <2>2. \/ calls = 0 /\ ObjectiveVerification(t) = 80
        \/ calls > 0 /\ ObjectiveVerification(t) \in {100, 70, 40, 50}
    <3>1. calls = 0 \/ calls > 0 BY <2>1
    <3>2. CASE calls = 0 BY <3>2 DEF ObjectiveVerification
    <3>3. CASE calls > 0
      <4>1. calls # 0 BY <3>3
      <4>2. \/ 5 * verified >= 4 * calls
            \/ 5 * verified < 4 * calls /\ 2 * verified >= calls
            \/ 2 * verified < calls /\ verified > 0
            \/ verified = 0
        BY <2>1
      <4> QED BY <3>3, <4>1, <4>2 DEF ObjectiveVerification
    <3> QED BY <3>1, <3>2, <3>3
  <2> QED BY <2>2
<1>4. PolicyCoverage(t) \in 0 .. 100
  <2> DEFINE calls == Cardinality(ToolCalls(t))
             decisions == Cardinality(PolicyDecisions(t))
             d == Greatest(calls, 1)
  <2>1. d \in Int /\ d > 0 /\ 100 * decisions \in Int /\ 100 * decisions >= 0 BY <1>2 DEF Greatest
  <2>2. 100 * decisions <= (100 * decisions) * d BY <2>1
  <2>3. Rounded(100 * decisions, d) \in 0 .. 100 * decisions
    <3> HIDE DEF d
    <3> QED BY <1>2, <2>1, <2>2, RoundedWithin, SMTT(30)
  <2>4. Rounded(100 * decisions, d) \in Int /\ Rounded(100 * decisions, d) >= 0 BY <1>2, <2>3
  <2>5. Least(100, Rounded(100 * decisions, d)) \in 0 .. 100
    <3> DEFINE y == Rounded(100 * decisions, d)
    <3>1. y \in Int /\ y >= 0 BY <2>4
    <3> HIDE DEF y
    <3>2. Least(100, y) \in 0 .. 100 BY <3>1 DEF Least
    <3> QED BY <3>2 DEF y
  <2>6. PolicyCoverage(t) \in {50, 0, Least(100, Rounded(100 * decisions, d))} BY DEF PolicyCoverage
  <2> HIDE DEF d
  <2> QED BY <2>5, <2>6
<1>5. HumanOversight(t) \in 0 .. 100
  <2> DEFINE approvals == Cardinality(HumanApprovals(t))
             required == Cardinality(Tagged(t, {"human_required", "high_risk"}))
  <2>1. ASSUME required # 0, approvals < required PROVE Rounded(100 * approvals, required) \in 0 .. 100
    <3> HIDE DEF approvals, required
    <3>1. approvals \in Nat /\ required \in Nat BY <1>2 DEF approvals, required
    <3> DEFINE x == 100 * approvals
    <3>2. required \in Int /\ required > 0 /\ x \in Int /\ 0 <= x /\ x <= 100 * required
      BY <2>1, <3>1
    <3> HIDE DEF x
    <3>3. Rounded(x, required) \in 0 .. 100 BY <3>2, RoundedWithin
    <3> QED BY <3>3 DEF x
  <2>2. required \in Nat /\ approvals \in Nat BY <1>2
  <2>3. CASE required = 0 BY <2>3 DEF HumanOversight
  <2>4. CASE required # 0 /\ approvals >= required BY <2>4 DEF HumanOversight
  <2> HIDE DEF approvals, required
  <2>5. CASE required # 0 /\ approvals < required
    <3>1. ~ (approvals >= required) BY <2>2, <2>5
    <3>2. HumanOversight(t) = Rounded(100 * approvals, required) BY <2>5, <3>1 DEF HumanOversight, approvals, required
    <3> QED BY <2>1, <2>5, <3>2
  <2> QED BY <2>2, <2>3, <2>4, <2>5
<1>6. ContaminationInverted(contamination) \in 0 .. 100
  <2>1. CASE contamination = None BY <2>1 DEF ContaminationInverted
  <2>2. CASE contamination # None
    <3>1. contamination \in 0 .. 100 BY <2>2
    <3> QED BY <2>2, <3>1 DEF ContaminationInverted, Greatest
  <2> QED BY <2>1, <2>2
<1> QED BY <1>1, <1>3, <1>4, <1>5, <1>6

(* The weights sum to 20; without provenance 16 of them are left.          *)
LEMMA WeightedWithin ==
    ASSUME NEW S, NEW t \in Seq(S), NEW anchors \in Nat, NEW mismatches \in Nat, NEW attribution,
           NEW contamination \in {None} \cup 0 .. 100
    PROVE  /\ EvidenceAdmissionScore(t, anchors, mismatches, attribution, contamination) \in 0 .. 100
           /\ ProvenanceIntegrity(t, anchors, mismatches, attribution) = 0 =>
                 EvidenceAdmissionScore(t, anchors, mismatches, attribution, contamination) \in 0 .. 80
<1> DEFINE tc == TraceCompleteness(t)
           pi == ProvenanceIntegrity(t, anchors, mismatches, attribution)
           others == 4 * (pi + ObjectiveVerification(t)) + 3 * (PolicyCoverage(t) + HumanOversight(t))
                       + 2 * ContaminationInverted(contamination)
           x == 4 * tc.num + tc.den * others
           d == 20 * tc.den
<1>1. tc.num \in Int /\ tc.den \in Int /\ tc.den > 0 /\ 0 <= tc.num /\ tc.num <= 100 * tc.den
  BY CompletenessRange
<1>2. others \in Int /\ 0 <= others /\ others <= 1600 /\ (pi = 0 => others <= 1200)
  <2> DEFINE ov == ObjectiveVerification(t)
             cover == PolicyCoverage(t)
             ho == HumanOversight(t)
             ci == ContaminationInverted(contamination)
  <2>1. pi \in 0 .. 100 /\ ov \in 0 .. 100 /\ cover \in 0 .. 100 /\ ho \in 0 .. 100 /\ ci \in 0 .. 100
    <3>1. pi \in 0 .. 100 BY ComponentRanges
    <3>2. ov \in 0 .. 100 BY ComponentRanges, ZenonT(40)
    <3>3. cover \in 0 .. 100 /\ ho \in 0 .. 100 BY ComponentRanges, ZenonT(40)
    <3>4. ci \in 0 .. 100 BY ComponentRanges
    <3> QED BY <3>1, <3>2, <3>3, <3>4
  <2>2. others = 4 * (pi + ov) + 3 * (cover + ho) + 2 * ci OBVIOUS
  <2> HIDE DEF pi, ov, cover, ho, ci, others
  <2> QED BY <2>1, <2>2
<1>3. EvidenceAdmissionScore(t, anchors, mismatches, attribution, contamination) = Rounded(x, d)
  BY DEF EvidenceAdmissionScore
<1> DEFINE num == tc.num
           den == tc.den
<1>4. /\ num \in Int /\ den \in Int /\ den > 0 /\ 0 <= num /\ num <= 100 * den
      /\ x = 4 * num + den * others /\ d = 20 * den
  BY <1>1
<1> HIDE DEF tc, pi, others, x, d, num, den
<1>5. den * others \in Int /\ 0 <= den * others /\ den * others <= den * 1600
  BY <1>2, <1>4
<1>6. pi = 0 => den * others <= den * 1200
  BY <1>2, <1>4
<1>7. x \in Int /\ d \in Int /\ d > 0 /\ 0 <= x /\ x <= 100 * d /\ (pi = 0 => x <= 80 * d)
  BY <1>4, <1>5, <1>6
<1>8. Rounded(x, d) \in 0 .. 100 BY <1>7, RoundedWithin
<1>9. pi = 0 => Rounded(x, d) \in 0 .. 80 BY <1>7, RoundedWithin
<1> QED BY <1>3, <1>8, <1>9 DEF pi

(* Both scores of every trace are percentages, so that Grade covers them;  *)
(* whatever else is in order, a record whose chain breaks is neither       *)
(* admitted with an A nor judged to be of a risk of A.                     *)
THEOREM BrokenChainIsNoA ==
    ASSUME NEW S, NEW t \in Seq(S), NEW anchors \in Nat, NEW mismatches \in Nat, NEW attribution,
           NEW contamination \in {None} \cup 0 .. 100, NEW drift \in {None} \cup Nat
    PROVE  LET admission == EvidenceAdmissionScore(t, anchors, mismatches, attribution, contamination)
               risk == AgentRiskScore(t, drift)
           IN  /\ admission \in 0 .. 100 /\ risk \in 0 .. 100
               /\ Breaks(t, Linked(t)) # {} =>
                     /\ admission <= 80 /\ risk <= 80
                     /\ Grade(admission) # "A" /\ Grade(risk) # "A"
<1> DEFINE admission == EvidenceAdmissionScore(t, anchors, mismatches, attribution, contamination)
           risk == AgentRiskScore(t, drift)
           broken == Breaks(t, Linked(t)) # {}
<1>1. admission \in 0 .. 100 /\ (broken => admission \in 0 .. 80)
  <2>1. broken => ProvenanceIntegrity(t, anchors, mismatches, attribution) = 0
    <3>1. broken => Linked(t) # {} BY DEF Breaks
    <3> QED BY <3>1 DEF ProvenanceIntegrity
  <2> QED BY <2>1, WeightedWithin
<1>2. Penalties(t) \in Int /\ Penalties(t) >= 0 /\ (broken => Penalties(t) >= 20)
  <2> DEFINE unapproved == {i \in Tagged(t, {"human_required"}) : t[i].run \notin ApprovedRuns(t)}
  <2>1. /\ Cardinality(Denials(t)) \in Nat /\ Cardinality(Errors(t)) \in Nat
        /\ Cardinality(Tagged(t, {"high_risk", "mutation", "destructive"})) \in Nat
        /\ Cardinality(unapproved) \in Nat
    <3>1. unapproved \subseteq DOMAIN t BY TaggedSubset
    <3> QED BY <3>1, Counts, PositionSubsets, TaggedSubset
  <2> DEFINE a == Cardinality(Denials(t))
             b == Cardinality(Tagged(t, {"high_risk", "mutation", "destructive"}))
             c == Cardinality(Errors(t))
             e == Cardinality(unapproved)
             last == IF Breaks(t, Linked(t)) = {} THEN 0 ELSE 20
  <2>2. Penalties(t) = Least(30, 5 * a) + Least(20, 3 * b) + Least(15, 3 * c) + Least(25, 10 * e) + last
    BY DEF Penalties
  <2>3. last \in {0, 20} /\ (broken => last = 20) OBVIOUS
  <2>4. a \in Nat /\ b \in Nat /\ c \in Nat /\ e \in Nat BY <2>1
  <2> HIDE DEF a, b, c, e, last, broken
  <2>5. Least(30, 5 * a) \in Nat /\ Least(20, 3 * b) \in Nat /\ Least(15, 3 * c) \in Nat /\ Least(25, 10 * e) \in Nat
    BY <2>4 DEF Least
  <2> QED BY <2>2, <2>3, <2>5, SMTT(30)
<1>3. risk \in 0 .. 100 /\ (broken => risk <= 80)
  <2> DEFINE observed == Greatest(0, 100 - Penalties(t))
  <2>1. observed \in 0 .. 100 /\ (broken => observed <= 80)
    <3> DEFINE p == Penalties(t)
    <3>1. p \in Int /\ p >= 0 BY <1>2
    <3>2. ASSUME broken PROVE p >= 20 BY <1>2, <3>2
    <3> HIDE DEF p, broken
    <3>3. Greatest(0, 100 - p) \in 0 .. 100 BY <3>1 DEF Greatest
    <3>4. ASSUME broken PROVE Greatest(0, 100 - p) <= 80 BY <3>1, <3>2, <3>4 DEF Greatest
    <3> QED BY <3>3, <3>4 DEF p
  <2> HIDE DEF observed
  <2>2. CASE drift = None BY <2>1, <2>2 DEF AgentRiskScore, observed
  <2>3. CASE drift # None
    <3>1. drift \in Nat BY <2>3
    <3> DEFINE y == Rounded(15 * drift, 100)
    <3>2. y \in Int /\ y >= 0 BY <3>1 DEF Rounded
    <3>3. risk = Greatest(0, observed - y) BY <2>3 DEF AgentRiskScore, observed
    <3> HIDE DEF y, risk
    <3> QED BY <2>1, <3>2, <3>3 DEF Greatest
  <2> QED BY <2>2, <2>3
<1> HIDE DEF admission, risk, broken
<1>4. \A s \in 0 .. 80 : Grade(s) # "A"
  <2> SUFFICES ASSUME NEW s \in 0 .. 80 PROVE Grade(s) # "A" OBVIOUS
  <2>1. ~ (s >= 90) OBVIOUS
  <2>2. \/ s >= 75 /\ s < 90
        \/ s >= 60 /\ s < 75
        \/ s >= 40 /\ s < 60
        \/ s < 40
    OBVIOUS
  <2> QED BY <2>1, <2>2 DEF Grade
<1>5. broken => admission \in 0 .. 80 /\ risk \in 0 .. 80 BY <1>1, <1>3
<1>6. /\ admission \in 0 .. 100 /\ risk \in 0 .. 100
      /\ broken => /\ admission <= 80 /\ risk <= 80
                   /\ Grade(admission) # "A" /\ Grade(risk) # "A"
  <2>1. broken => Grade(admission) # "A" /\ Grade(risk) # "A" BY <1>4, <1>5
  <2>2. ASSUME broken PROVE admission <= 80 /\ risk <= 80
    <3>1. admission \in 0 .. 80 /\ risk \in 0 .. 80 BY <1>5, <2>2
    <3> QED BY <3>1
  <2> QED BY <1>1, <1>3, <2>1, <2>2
<1> QED BY <1>6 DEF admission, risk, broken

-----------------------------------------------------------------------------
(* The comparisons of two audits.                                          *)
LEMMA RanksAreOrdered ==
    ASSUME NEW D \in SUBSET {"allow", "ask_user", "deny"}, D # {}
    PROVE  /\ MostPermissive(D) \in D
           /\ \A d \in D : RankOf(d) <= RankOf(MostPermissive(D))
           /\ \A d \in D : RankOf(d) \in 0 .. 2
  BY DEF MostPermissive, RankOf

(* auditDrift reports a tool as escalated exactly when some decision about *)
(* it is now more permissive than every one before.                        *)
THEOREM EscalationsAreExactThm ==
    ASSUME NEW p, NEW c,
           \A n : DecisionsOf(p, n) \subseteq {"allow", "ask_user", "deny"}
                 /\ DecisionsOf(c, n) \subseteq {"allow", "ask_user", "deny"}
    PROVE  \A n \in InventoriedTools(p) :
              n \in Escalated(p, c) <=>
                 /\ DecisionsOf(p, n) # {}
                 /\ \E d \in DecisionsOf(c, n) : \A e \in DecisionsOf(p, n) : RankOf(d) > RankOf(e)
<1> SUFFICES ASSUME NEW n \in InventoriedTools(p), DecisionsOf(p, n) # {}
             PROVE  n \in Escalated(p, c) <=>
                      \E d \in DecisionsOf(c, n) : \A e \in DecisionsOf(p, n) : RankOf(d) > RankOf(e)
  BY DEF Escalated, Altered, Comparable
<1> DEFINE P == DecisionsOf(p, n)
           C == DecisionsOf(c, n)
<1>1. /\ MostPermissive(P) \in P
      /\ \A e \in P : RankOf(e) <= RankOf(MostPermissive(P)) /\ RankOf(e) \in 0 .. 2
  BY RanksAreOrdered
<1>2. C # {} => /\ MostPermissive(C) \in C
                /\ \A d \in C : RankOf(d) <= RankOf(MostPermissive(C)) /\ RankOf(d) \in 0 .. 2
  BY RanksAreOrdered
<1>3. ASSUME n \in Escalated(p, c)
      PROVE  \E d \in C : \A e \in P : RankOf(d) > RankOf(e)
  <2>1. C # {} /\ RankOf(MostPermissive(C)) > RankOf(MostPermissive(P))
    BY <1>3 DEF Escalated, Altered, Comparable
  <2>2. \A e \in P : RankOf(MostPermissive(C)) > RankOf(e) BY <1>1, <1>2, <2>1
  <2> QED BY <1>2, <2>1, <2>2
<1>4. ASSUME NEW d \in C, \A e \in P : RankOf(d) > RankOf(e)
      PROVE  n \in Escalated(p, c)
  <2>1. RankOf(d) > RankOf(MostPermissive(P)) /\ d \notin P BY <1>1, <1>4
  <2>2. RankOf(MostPermissive(C)) > RankOf(MostPermissive(P)) BY <1>1, <1>2, <2>1
  <2>3. n \in Altered(p, c) BY <2>1 DEF Altered, Comparable
  <2> QED BY <2>2, <2>3 DEF Escalated
<1> QED BY <1>3, <1>4

(* An audit compared with itself has not drifted.                          *)
THEOREM NoDriftOfSelf == \A t : ~DriftDetected(AuditDrift(t, t))
<1> SUFFICES ASSUME NEW t PROVE ~DriftDetected(AuditDrift(t, t)) OBVIOUS
<1>1. Altered(t, t) = {} BY DEF Altered
<1>2. Escalated(t, t) = {} BY <1>1 DEF Escalated
<1>3. /\ AuditDrift(t, t).permission_escalations = {}
      /\ AuditDrift(t, t).new_tools = {} /\ AuditDrift(t, t).policy_changes = {}
  BY <1>1, <1>2 DEF AuditDrift
<1>4. DOMAIN AuditDrift(t, t) = {"permission_escalations", "new_tools", "policy_changes"}
  BY DEF AuditDrift
<1> QED BY <1>3, <1>4 DEF DriftDetected

-----------------------------------------------------------------------------
(* Benchmarks.                                                             *)
LEMMA VerdictIsSigned ==
    ASSUME NEW delta \in Int, NEW n \in Nat, NEW convincing \in BOOLEAN
    PROVE  /\ VerdictOf(delta, n, convincing) = "supports_claim" => delta >= 0 /\ convincing
           /\ VerdictOf(delta, n, convincing) = "rejects_claim" => delta < 0
  BY DEF VerdictOf

(* A supported claim comes without a regression finding, and a rejected    *)
(* one with it.                                                            *)
THEOREM PairedVerdicts ==
    ASSUME NEW S, NEW samples \in Seq(S), NEW claim \in BOOLEAN
    PROVE  LET result == PairedAudit(samples, claim)
               rules == {f.rule : f \in result.findings}
           IN  /\ result.verdict = "supports_claim" => "OAA-B-001" \notin rules
               /\ result.verdict = "rejects_claim" => "OAA-B-001" \in rules
<1> DEFINE n == Len(samples)
           delta == Passing(samples, "candidate") - Passing(samples, "baseline")
           sig == Significant(Cardinality(Regressed(samples)), Cardinality(Improved(samples)))
           F == PairedAudit(samples, claim).findings
           v == PairedAudit(samples, claim).verdict
<1>1. \A side : Passing(samples, side) \in Nat
  <2>1. IsFiniteSet(DOMAIN samples) BY FS_Interval
  <2> QED BY <2>1, FS_Subset, FS_CardinalityType DEF Passing
<1>2. delta \in Int /\ n \in Nat BY <1>1
<1>3. sig \in BOOLEAN BY DEF Significant
<1>4. v = VerdictOf(delta, n, sig) BY DEF PairedAudit
<1>5. v = "supports_claim" => ~(delta < 0) BY <1>2, <1>3, <1>4, VerdictIsSigned
<1>6. v = "rejects_claim" => delta < 0 BY <1>2, <1>3, <1>4, VerdictIsSigned
<1>7. "OAA-B-001" \in {f.rule : f \in F} <=> delta < 0
  <2>1. PICK small, vague, cites, all :
           F = BenchFindings(delta, small, vague, FALSE, cites, all)
    BY DEF PairedAudit
  <2> HIDE DEF delta, F
  <2>2. ASSUME delta < 0 PROVE BenchFinding("OAA-B-001", "high", cites) \in F
    BY <2>1, <2>2 DEF BenchFindings
  <2>3. BenchFinding("OAA-B-001", "high", cites).rule = "OAA-B-001" BY DEF BenchFinding
  <2>4. ASSUME NEW f \in F, ~(delta < 0)
        PROVE  f \in {BenchFinding("OAA-B-002", "medium", <<>>), BenchFinding("OAA-B-003", "low", all)}
    BY <2>1, <2>4 DEF BenchFindings
  <2>5. /\ BenchFinding("OAA-B-002", "medium", <<>>).rule # "OAA-B-001"
        /\ BenchFinding("OAA-B-003", "low", all).rule # "OAA-B-001"
    BY DEF BenchFinding
  <2> QED BY <2>2, <2>3, <2>4, <2>5
<1> QED BY <1>5, <1>6, <1>7

(* A claim backed by totals alone is never reported as tested: the finding *)
(* that it cannot be keeps Annex IV item 7 at "partial".                   *)
THEOREM TotalsNeverSuffice ==
    ASSUME NEW candidate, NEW baseline, NEW s,
           s.bench = Bench(AggregateAudit(candidate, baseline, TRUE)), s.bench # None
    PROVE  TestingValidation(s).status = "partial"
<1>1. BenchFinding("OAA-B-004", "low", <<>>) \in AggregateAudit(candidate, baseline, TRUE).findings
  BY DEF AggregateAudit, BenchFindings
<1> DEFINE r == AggregateAudit(candidate, baseline, TRUE)
<1>2. r.findings # {} BY <1>1
<1> HIDE DEF r
<1>3. Bench(r).faulted = TRUE BY <1>2 DEF Bench
<1>4. s.bench.faulted = TRUE BY <1>3 DEF r
<1> QED BY <1>4 DEF TestingValidation
=============================================================================
