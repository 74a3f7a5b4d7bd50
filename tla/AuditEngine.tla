---------------------------- MODULE AuditEngine ----------------------------
(***************************************************************************)
(* A trace from the recorder to the report.  A recorder appends events and *)
(* chains their hashes; before it is audited the file may lose, repeat or  *)
(* reorder lines, and a line may be edited, within the digest of its text  *)
(* or in what computeEventHash() leaves out: the evidence block itself,    *)
(* human_approval and recording_mode.  Then one of the three fronts (the   *)
(* CLI, the POST route, the queue's audit job) reads the file, runs the    *)
(* engines once and renders a report, which a report job may render again. *)
(*                                                                         *)
(* The engines are the operators of AuditTrace, PolicyAudit, Scoring and   *)
(* ComplianceMapping.                                                      *)
(***************************************************************************)
EXTENDS ComplianceMapping, Scoring

CONSTANTS
    Entrusted,     \* what recorders write: <<an event without id, content and
                   \* evidence, the kind of evidence attached to it>>
    Digest,        \* the digest of the n-th recorded event
    ForeignHash,   \* the hash of the n-th event in a producer's own scheme, which
                   \* may come again: two AEP records of one run share them
    Changed,       \* the digest of an event whose text was changed
    Manifests,     \* the capability manifests a caller passes
    Uploads,       \* what the POST route reads of a body beside its events:
                   \* [unparsable, anchors, attribution], see Plain
    NoMeta,        \* the metadata of a caller that gives none
    MaxEvents,     \* bound on the events recorded
    MaxEdits       \* bound on the changes to the file

ASSUME EngineAssumption ==
    /\ MaxEvents \in Nat /\ MaxEdits \in Nat
    /\ \A e \in Entrusted : e[2] \in {"bare", "hashed", "signed", "foreign", "follows"}

(* A digest is neither the genesis hash nor one of another scheme, a text  *)
(* that was changed has another, and a signer has a name.                  *)
ASSUME DigestAssumption ==
    /\ Genesis \notin {None, Changed} \cup Foreign /\ None # "key"
    /\ \A n \in 1 .. MaxEvents :
          /\ Digest[n] \notin {None, "", Genesis, Changed} \cup Foreign
          /\ ForeignHash[n] \in Foreign \ {None, ""}

VARIABLES
    recorded,  \* what the recorder wrote
    trace,     \* what the file holds
    edits,     \* the number of changes made to the file
    report     \* None, or the report rendered of it

vars == <<recorded, trace, edits, report>>

-----------------------------------------------------------------------------
(* The recorder.  prevHash of the adapters: the hash of the last hashed    *)
(* event, the genesis hash before there is one.                            *)
PrevHash ==
    IF Hashed(recorded) = {} THEN Genesis
    ELSE recorded[CHOOSE i \in Hashed(recorded) : \A j \in Hashed(recorded) : j <= i].evidence.hash

Evidence(kind, n) ==
    CASE kind = "bare" -> NoEvidence
      [] kind = "follows" ->
             [NoEvidence EXCEPT !.present = TRUE, !.numbered = TRUE, !.prev = PrevHash]
      [] kind = "hashed" ->
             [NoEvidence EXCEPT !.present = TRUE, !.numbered = TRUE, !.prev = PrevHash,
                                !.hash = Digest[n]]
      [] kind \in {"signed", "foreign"} ->
             [NoEvidence EXCEPT !.present = TRUE, !.numbered = TRUE, !.prev = PrevHash,
                                !.hash = IF kind = "signed" THEN Digest[n] ELSE ForeignHash[n],
                                !.signature = Digest[n], !.algorithm = "ed25519",
                                !.signer = "key"]

Event(proto, kind, n) ==
    [id |-> n, run |-> proto.run, type |-> proto.type, name |-> proto.name, cap |-> proto.cap,
     tags |-> proto.tags, decision |-> proto.decision, human |-> proto.human,
     signal |-> proto.signal, source |-> proto.source, of |-> proto.of,
     at |-> IF proto.at = None THEN None ELSE n, mode |-> proto.mode,
     identity |-> proto.identity, wellformed |-> proto.wellformed,
     content |-> Digest[n], evidence |-> Evidence(kind, n)]

Record(proto, kind) ==
    LET n == Len(recorded) + 1 IN
    /\ report = None /\ n <= MaxEvents
    /\ recorded' = Append(recorded, Event(proto, kind, n))
    /\ trace' = Append(trace, Event(proto, kind, n))
    /\ UNCHANGED <<edits, report>>

-----------------------------------------------------------------------------
(* The file.                                                               *)
Edit(t) ==
    /\ report = None /\ edits < MaxEdits
    /\ trace' = t /\ edits' = edits + 1
    /\ UNCHANGED <<recorded, report>>

Lose(i)    == Edit([j \in 1 .. Len(trace) - 1 |-> trace[IF j < i THEN j ELSE j + 1]])
Repeat(i)  == Edit(Append(trace, trace[i]))
Reorder(i) == /\ i < Len(trace)
              /\ Edit([trace EXCEPT ![i] = trace[i + 1], ![i + 1] = trace[i]])

(* A line is edited.  Of its text the digest tells; its evidence block may *)
(* be taken out, lose its link or its signature, point to the genesis hash *)
(* or have the hash computed anew over the text, changed or not; and two   *)
(* more fields are in no digest.                                           *)
EditLine(i, e) == Edit([trace EXCEPT ![i] = e])

Alter(i) == EditLine(i, [trace[i] EXCEPT !.content = Changed])

Rewrite(i) ==
    LET old == trace[i].evidence IN
    \E new \in {NoEvidence, [old EXCEPT !.prev = None], [old EXCEPT !.signature = None],
                [old EXCEPT !.present = TRUE, !.prev = Genesis]} :
        EditLine(i, [trace[i] EXCEPT !.evidence = new])

Reseal(i) ==
    \E text \in {trace[i].content, Changed} :
        EditLine(i, [trace[i] EXCEPT !.content = text, !.evidence.present = TRUE,
                                     !.evidence.hash = text])

Flag(i)    == EditLine(i, [trace[i] EXCEPT !.signal = ~ @])
Relabel(i) == \E mode \in {None, "full", "delta", "validation"} \ {trace[i].mode} :
                  EditLine(i, [trace[i] EXCEPT !.mode = mode])

-----------------------------------------------------------------------------
(* The fronts.  Each reads the events the schema accepts; the CLI refuses  *)
(* a file of which nothing is left, though not an empty one.               *)
Subject(t, findings, meta) == [t |-> t, findings |-> findings, meta |-> meta, bench |-> None]

(* A body without lines that are no JSON, without provenance fields (an    *)
(* AEP record has up to four) and without attribution.                     *)
Plain == [unparsable |-> FALSE, anchors |-> 0, attribution |-> None]

(* OAA-P-001: lines of the upload could not be parsed.                     *)
ParseErrors(upload) ==
    IF upload.unparsable THEN {Finding("OAA-P-001", "medium", None, {})} ELSE {}

Render(front, m, t, upload, mismatches) ==
    report' = [front |-> front, events |-> t, shown |-> t, manifest |-> m,
               findings |-> Findings(t, m) \cup ParseErrors(upload),
               admission |-> EvidenceAdmissionScore(t, upload.anchors, mismatches,
                                                    upload.attribution, None),
               risk |-> AgentRiskScore(t, None)]

CmdReport(m) ==
    /\ report = None
    /\ trace = <<>> \/ Accepted(trace) # <<>>
    /\ Render("cli", m, Accepted(trace), Plain, 0)
    /\ UNCHANGED <<recorded, trace, edits>>

(* The route declares what the trace uses: a capability, or the tool's     *)
(* name where there is none.                                               *)
DerivedManifest(t) ==
    [declared |-> {v \in {IF t[i].cap # None THEN t[i].cap ELSE t[i].name : i \in ToolCalls(t)} :
                       Filled(v)},
     denied |-> {}, high_risk |-> {}]

HandlePostRun(upload) ==
    /\ report = None
    /\ LET t == Accepted(trace) IN
       Render("post", DerivedManifest(t), t, upload, Cardinality(Mismatched(t)))
    /\ UNCHANGED <<recorded, trace, edits>>

ProcessAuditJob(m) ==
    /\ report = None
    /\ LET t == Accepted(trace) IN Render("job", m, t, Plain, Cardinality(Mismatched(t)))
    /\ UNCHANGED <<recorded, trace, edits>>

(* The report job: the stored findings and score, and no events.           *)
ProcessReportJob ==
    /\ report # None /\ report.front # "cli"
    /\ report' = [report EXCEPT !.shown = <<>>]
    /\ UNCHANGED <<recorded, trace, edits>>

-----------------------------------------------------------------------------
Init == recorded = <<>> /\ trace = <<>> /\ edits = 0 /\ report = None

Next ==
    \/ \E e \in Entrusted : Record(e[1], e[2])
    \/ \E i \in DOMAIN trace :
          \/ Lose(i) \/ Repeat(i) \/ Reorder(i)
          \/ Alter(i) \/ Rewrite(i) \/ Reseal(i) \/ Flag(i) \/ Relabel(i)
    \/ \E m \in Manifests : CmdReport(m) \/ ProcessAuditJob(m)
    \/ \E upload \in Uploads : HandlePostRun(upload)
    \/ ProcessReportJob

Spec == Init /\ [][Next]_vars

-----------------------------------------------------------------------------
(* Properties.                                                             *)
(* What the chain vouches for of an event: the hash, and the text where    *)
(* the hash is the digest of it; and what the event before it holds.       *)
Vouched(e) ==
    [hash |-> e.evidence.hash, text |-> IF e.evidence.hash \in Foreign THEN None ELSE e.content]

Behind(t, i) == {Vouched(t[j]) : j \in {j \in Hashed(t) : Precedes(Hashed(t), j, i)}}

(* Losing, repeating, reordering or changing hashed events shows, as far   *)
(* as evidence blocks go that nobody rewrote: validate() warns of the      *)
(* chain or finds a mismatch, or every hashed line whose evidence block is *)
(* one the recorder wrote has the text of that event, and the hashed line  *)
(* before it is, hash and text, the one that was recorded before it (none  *)
(* if it was the first).  Lines edited in what the digest leaves out are   *)
(* in the scope of it; a rewritten block is not, but the line it stands    *)
(* before still pins its hash, and with it its text.                       *)
TamperingShows ==
    \/ ChainWarnings(trace) # {} \/ Mismatched(trace) # {}
    \/ \A i \in Hashed(trace), k \in Hashed(recorded) :
           trace[i].evidence = recorded[k].evidence =>
               /\ Vouched(trace[i]) = Vouched(recorded[k])
               /\ Behind(trace, i) = Behind(recorded, k)

(* The other way about, the validator never cries wolf: of a file nobody   *)
(* touched it says nothing, whatever kinds of evidence the recorder mixed  *)
(* in its chain, hashes of a producer's own scheme included.               *)
NoFalseAlarm == edits = 0 => ChainWarnings(trace) = {} /\ Mismatched(trace) = {}

DistinctIds(t) == \A i, j \in DOMAIN t : t[i].id = t[j].id => i = j

(* Findings are stored under run and finding_id with INSERT OR IGNORE: in  *)
(* a trace of distinct ids every finding has a row of its own.             *)
RowPerFinding ==
    report # None /\ DistinctIds(report.events)
        => \A f, g \in report.findings : FindingId(f) = FindingId(g) => f = g

(* Every finding and every entry of the four frameworks cites only events  *)
(* of the trace the report was made from.                                  *)
CitesAreEvents ==
    report # None =>
        LET ids == Ids(report.events, DOMAIN report.events) IN
        /\ \A f \in report.findings : f.cites \subseteq ids
        /\ \A e \in Entries(Subject(report.shown, report.findings, NoMeta)) : e.cites \subseteq ids

(* The report never shows an action as approved in the inventory and lists *)
(* it among the findings as a high risk without approval.                  *)
ApprovalsAgree ==
    report # None /\ DistinctIds(report.events) =>
        LET t == report.events IN
        \A i \in HighRiskActions(t) :
            HasApproval(t, i) =>
                ~\E f \in report.findings : f.rule = "OAA-R-OVERSIGHT-001" /\ f.key = t[i].id

(* A chain the engines verified is scored as one: without a break, a gap   *)
(* or a mismatch, provenance scores at least 60, and a signature on every  *)
(* chained event gives the full 100.                                       *)
VerifiedChainScores ==
    (Linked(trace) # {} /\ Linked(trace) = Hashed(trace) /\ Valid(trace) /\ ChainWarnings(trace) = {}
       /\ Mismatched(trace) = {})
    => ProvenanceIntegrity(trace, 0, 0, None) >= (IF Hashed(trace) \subseteq Signed(trace) THEN 100 ELSE 60)

(* Recording more never withdraws a critical finding: a denied capability  *)
(* or a call after a denial stays reported whatever is decided later.      *)
Critical(t, m) == {f \in Findings(t, m) : f.severity = "critical"}

CriticalFindingsStand ==
    [][\A m \in Manifests : edits' = edits /\ report' = report =>
            Critical(trace, m) \subseteq Critical(trace', m)]_vars

(* Only a human approval improves the agent risk score: no other event     *)
(* appended to the trace raises it.                                        *)
RiskNeverImproves ==
    [][trace' # trace /\ edits' = edits /\ trace'[Len(trace')].type # "human_approval" =>
            AgentRiskScore(trace', None) <= AgentRiskScore(trace, None)]_vars

(* Evidence is never held against the system: a signed, well-formed event  *)
(* lowers no status of the OWASP entries or of Annex IV.                   *)
Rank(status) == CASE status = "supported" -> 2 [] status = "partial" -> 1 [] OTHER -> 0

StatusNeverFalls ==
    [][trace' # trace /\ edits' = edits /\ trace'[Len(trace')].evidence.signature # None =>
         \A m \in Manifests :
           LET before == Subject(trace, Findings(trace, m), NoMeta)
               after  == Subject(trace', Findings(trace', m), NoMeta)
           IN  \A pq \in {<<Owasp(before), Owasp(after)>>, <<AnnexIV(before), AnnexIV(after)>>} :
                   \A r \in DOMAIN pq[1] : Rank(pq[2][r].status) >= Rank(pq[1][r].status)]_vars

-----------------------------------------------------------------------------
(* The audit links the chain with validate()'s semantics (policy-audit     *)
(* index.ts:125): both find a broken link, or neither does.                *)
ChainBreaksAgree == (Breaks(trace, Linked(trace)) = {}) <=> (Breaks(trace, Hashed(trace)) = {})

(* The report job renders the stored report again, in another format: what *)
(* it says of the four frameworks is what was said before.                 *)
RerenderKeepsStatuses ==
    report # None =>
        Statuses(Subject(report.shown, report.findings, NoMeta))
          = Statuses(Subject(report.events, report.findings, NoMeta))
=============================================================================
