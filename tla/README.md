# Open Agent Audit: TLA+ models and proofs

This directory is a verification development kept beside the code of Open
Agent Audit. It models the parts of the system in which several requests, queue
deliveries or scheduled sweeps meet in shared stores, and the engines that judge
a trace or a passport, checks them with TLC on small instances, and proves the
most important results with TLAPS for every instance. All paths below are
relative to the repository.

## 1. The system

Open Agent Audit is a TypeScript monorepo. `packages/worker` is the deployed
program: one Cloudflare Worker (`src/index.ts`) with `fetch`, `queue` and
`scheduled` entry points, three Durable Object classes, D1 tables
(`migrations/`), R2 buckets (`RAW_TRACES`, `REPORTS`, `ARTIFACTS`) and a KV
namespace (`PASSPORTS`). `packages/core` and `packages/passport` are libraries
of mostly pure functions it calls; `adapters`, `cli`, `schema` and `dashboard`
are conversions, a sequential front end, types and a React client. The CLI and
the Worker run the same engines over the same canonical trace.

A Worker isolate is single threaded, but every `await` on a binding lets other
requests run, other isolates run at the same time, any call on a binding may
throw before or after it took effect, and an isolate may be evicted between two
calls. D1 statements (and one `batch`) are atomic and serialised; KV and R2
operations are atomic per key; nothing spans two of them. Those are the units
of the models.

| component | state it keeps | operations | what is hard | what makes it correct |
|---|---|---|---|---|
| Passport routes | documents and revocation mirror in KV; `passport_issuances`, `passport_revocations` in D1 | issue, revoke, renew, status | guard read long before the write it protects; three places of revocation evidence; document put before its owner row; tables created on first use | only the owner revokes, one revocation wins, a success answer means both stores hold it, a recorded revocation sticks |
| Federation registry | `registered_passports`, `status_lists` (counter, hex bitstring) | register, revoke, serve the list | index claimed in one statement and used in another; read-modify-write of the bitstring | positions are unique, the list marks exactly the revoked |
| Approvals | `approvals` | create, decide, decide a batch | two decisions at once, explanation by a second statement, failure inside a batch | one decision per approval, truthful answers, tenant isolation |
| Ingestion and queue consumers | R2 objects of a run; `audit_runs`, `findings`, `projects`, `tenants` | `POST /api/v1/runs`, audit job, report job | at-least-once delivery, partial failure across four stores | a completed run has its evidence and findings; redelivery changes nothing |
| Retention | the same, plus a policy | archive, prune | pruning races a writer; sweeps start from D1 rows | nothing is pruned early, everything due is pruned |
| Audit run coordinator (DO) | run record, set of finished chunks | init, chunk-complete, finalize, status | two separate puts; redelivery | counts a chunk that is named once |
| Tenant limiter (DO) | window start and count | check | window boundary | the cap holds, tenants are independent |
| Alert gate (DO) and dispatch | last firing per rule, rate window | gate, reset; Slack, webhook, e-mail | recorded before dispatched; shared by all runs | no duplicate within a window, cap holds |
| Dashboard cache | per-isolate map | read through | slow computation overwrites a newer one; entry limit | bounded staleness |
| Authentication | configuration only | `resolvePrincipal`, `readTenant`, `checkAuth` | single- and multi-tenant modes, fail closed | tenant comes from the key only |
| Scheduler | none | cadence gate, poll with one retry | time windows | at most one retry, retention runs on every tick |
| Passport library | none | issue, renew, sign, verify layers | unknown versus active | absence of evidence is not `active` unless trusted |
| Validation, policy audit, scoring, inventory | none | functions of a trace of events | a file that lost, repeated or changed lines, in what a digest covers or not; engines that each read the trace their own way | tampering shows as far as the digests reach, the engines agree with one another, recording more hides nothing |
| Drift guard, benchmark audit | none | functions of two traces or of paired samples | boundaries | agree with their definitions |
| Report rendering | none | four compliance frameworks, HTML, Markdown, CSV | the same evidence feeds many requirements | statuses follow from cited events |

Interaction: the router authenticates and hands a tenant to the handlers. The
ingestion pipeline calls the tenant limiter, the core algorithms and the alert
gate; Passport issuance reads the canonical report the pipeline stored; the
sweep deletes what the pipeline stored. Passports, federation and approvals
share no rows with each other.

`PROJECT.json` lists every component with its status, the hazards with their
lines, and maps each definition to the source lines it translates.

## 2. Modules

### PassportLedger, PassportRegistry, PassportRegistryProofs

`PassportRegistry` is the four Passport routes. A request is a process;
`pc[r]` names the binding call it awaits, and an action is the code from that
call's completion to the next call: `Guard` (`guardPassportWrite`),
`ReadDocument`, `Claim` (`backfillPassportOwnership`), `Lookup`, `ReadMirror`
and `Heal` (`resolveRevocation`), `Transition` and `Publish`
(`handlePassportRevoke`), `PutDocument`, `Own`, `Undo` and `Reply` (issue and
renew), `LoadEvidence` (`loadCanonicalRunReport`). `Bootstrap` is the creation
of a missing table and the second try. `D1Error` lets the awaited D1 call fail,
applied or not, and `AfterD1Error` says how each handler goes on; failing KV
and R2 calls are branches of their actions. `Evict` ends a request silently.
`Init` ranges over every legacy state: unowned or owned documents, embedded
revocations, revocations that exist in KV only, tables that do not exist yet.

`known` and `minted` are history: the evidence stored when a request arrived,
and the id it created. Body validation (400), authentication (401) and
document contents are left out; the status verdict is what
`verifyPassportLayers` says of a trusted registry. A read of a stale KV value
is covered by a read that fails, because both are treated as no record. D1
reports `changes`, so the `undefined` branch of
`insertAuthoritativeRevocation` is not taken.

`PassportLedger` is the abstract specification: two write-once tables, who may
write a row, and what each answer promises about them. It has no KV, no
failing call and no handler position. `PassportRegistry` implements it under
the identity mapping of the shared variables (`LedgerSpec`).

### FederationStatusList, FederationStatusListProofs

One step per D1 statement of `handleFederationRegister` (`ClaimIndex`,
`InsertRow`) and `handleFederationRevoke` (`FindRow`, `Flag`, `ReadList`,
`WriteList`). The hex bitstring is the set of positions that are 1 and its
length in characters; `SetBit` is the growth of `setBit`, `ServedBits` what
the pairwise decoding of `handleStatusList` leaves of it. `Fail` is a statement
that throws, applied or not, or an eviction.

### ApprovalLedger, Approvals, ApprovalsProofs

One step per statement of `handleCreateApproval` (`Insert`),
`transitionApproval` (`Transition`) and `approvalDecisionFailure` (`Explain`);
a single decision is a batch of one. A request can only name ids whose row
exists, or an id that never will: ids are random and known through answers and
`GET /api/v1/approvals` only.

`ApprovalLedger` is the abstract specification: each item of a request is
decided in one instant, its row and its outcome together. It has no second
statement and no position between two statements. `Approvals` implements it
with the phase of a request computed from its position and its outcomes
(`PhaseOf`), the other variables being shared (`LedgerSpec`): although the reason
of a refusal is read by a second statement, at a time when other requests have
moved on, no caller can tell it from an answer given at once.

### AuditPipeline, AuditPipelineProofs

`AuditPipeline` is what happens to the evidence of a run: `handlePostRun`
(`PostBegin`, `PostRaw`, `PostBundle`, `PostUpsert`, `PostInsert`), the queue
consumers (`Fetch`, `Put`, `Upsert`, `Insert` are `processAuditJob`, `Get` and
`PutReport` are `processReportJob`, `Ack` and `Retry` are `handleQueue`), and
the sweep (`Tick`, `Archive`, `PruneBegin`, `List`, `Delete`, `PruneRows` are
`applyRetention`, `pruneRun` and `deleteR2Prefix`). `at[c]` and `post[r]` name
the awaited call. `PostFail`, `ConsumerFail`, `SweepD1Fail` and `SweepR2Fail`
let it throw, applied or not; `SweepEvict` ends the sweep with its calls. When
a list or delete call throws, `Promise.all` gives up at once and the other
calls run on: `listing` and `deleting` outlive `pruning`, and the sweep goes on
with its next decision while they do.

The queue is external: `Deliver` hands out a message that is not acknowledged,
also while an earlier delivery is being worked on, `Drop` loses it after
`MaxDeliveries`. So are the producers, of which the repository holds none:
`SendAudit` stores a trace and sends its job, `SendReport` asks for a report of
a run that has a row. `LateJobs` says whether they may also do so for a run
past its retention. `age` is the class of a row's age: `hot` before
`archive_after_days`, `stale`, `expired` from `retention_days` on. The latter
is at least 180 days, so nothing a young run's POST or message started is still
under way (`Settled`): queues keep a message for days.

Abstractions: one key stands for the formats of a report; `inventory.json` and
`validation.json`, which nobody reads, are written with `score.json`; the
`INSERT OR IGNORE` of tenant and project, which commutes with everything, is
part of the upsert's step; the content of objects is left out (a redelivered
audit job computes the same from the same trace; that a report job renders
without the events is in `AuditEngine`); the rate limiter's refusal (429) and the
size limit (413) end a POST before it stores anything; alerts change no store of
a run. `planRetention` sorts its decisions by run id; the model
executes them in any order.

What an upload, an audit job and a report job compute is `AuditEngine`'s; the
limiter and the alerts of the same handlers are `RunIntake`'s. The three modules
share no state: the pipeline's properties do not depend on what a trace says,
and the engines' not on which store it came from.

### RetentionCalendar

The two clocks of retention: `RetainUntil` is `retentionDate` (six calendar
months, days of a short month run over), `Retention`, `ArchiveAfter`, `AgeDays`
and `Action` are `resolvePolicy`, `ageDays` and `classify`, `Selected` is the
sweep's SELECT. Time advances in half days, so that the SELECT (by instant) and
`ageDays` (by whole days) can differ. `AuditPipeline` takes the classes of age
as given; this module is where they come from.

### AuditTrace, PolicyAudit, Scoring, ComplianceMapping, AuditEngine, AuditEngineProofs

`AuditEngine` is a trace from the recorder to the report. `Record` is a recorder
that chains hashes as the adapters do (`prevHash` of `aep-v0_2.ts`): events
without evidence, with a link only, with a digest, with digest and signature, or
with a signature and a hash of the producer's own (`Foreign`), which may come
again. Then the file changes: `Lose`, `Repeat` and `Reorder` move whole lines;
`Alter` changes the text of a line, `Rewrite` its evidence block (taken out,
without its link, without its signature, linked to the genesis hash), `Reseal`
has the hash computed anew over the text; `Flag` and `Relabel` change
`human_approval` and `recording_mode`, which no digest covers. `CmdReport` (the
CLI), `HandlePostRun` (the upload) and `ProcessAuditJob` (the queue) each read
the file in their own way (`Accepted` is `validateEvents`; the upload derives its
manifest from the trace, may report lines it could not parse, and passes the
provenance fields and the attribution of an AEP record to the score; the CLI
refuses a file of which nothing was valid, but not an empty one), run the engines
and render; `ProcessReportJob` renders again from what was stored, without the
events (`renderReport([], ...)`, index.ts:3093).

The engines are operators on a sequence of events, module by module:
`AuditTrace` is `validate()` with its link states, gaps, mismatches, schema and
duplicate checks, as sets of positions; `PolicyAudit` is every rule of
`policyAudit()` and the inventory's high-risk actions and approvals; `Scoring`
is both scores; `ComplianceMapping` is the status and the citations of every
requirement of OWASP, EU AI Act Annex IV, NIST and ISO. An event is a record of
the fields these functions tell apart. Its `content` stands for the digest
`computeEventHash` returns, of what that function reads: the evidence block,
`signal` (`human_approval`) and `mode` (`recording_mode`) are outside it. A hash
in the canonical scheme is right exactly when it equals `content`; hashes in a
producer's own scheme are linked and not recomputed, as in the code.

`TamperingShows` and `NoFalseAlarm` are the two directions of what a hash chain is
for. Of a file nobody touched the validator says nothing, though the recorder may
mix all kinds of evidence in one chain. In a file it has nothing to say about, a
hashed line whose evidence block the recorder wrote carries the text that was
recorded with it (the hash alone, where it is in a foreign scheme), and the hashed
line before it is, in hash and text, the one recorded before it. That is as much
as the code gives. It does not reach a line whose evidence block was rewritten,
what was cut off at the end, lines without a hash, or the fields no digest covers
(see the list in section 3). Timestamps are the order of
recording. Scores are integers with the code's `Math.round`; where the code has
a float in between, the model has an exact fraction. Contamination and drift
enter the scores as the number they yield, absent in this instance.

### DriftGuard, BenchmarkAudit

`driftGuard`'s rates and thresholds, `auditDrift`'s escalations and changes, and
the paired and aggregate verdicts of `benchmarkAudit` with McNemar's test as the
integer inequality that its p-value stands for. They have no state:
`MCAuditEngine` states two facts of them as ASSUMEs (`EscalationsAreExact`,
`SupportIsOneSided`), which TLC evaluates on all pairs of audits of up to two
decisions or calls, and on benchmarks of up to eleven samples in each discordant
class.

### FixedWindow, TenantLimiter, AlertRules, RunIntake, RunIntakeProofs

`RunIntake` is an upload on its way through the Durable Objects: `Check` (the
limiter's `handleCheck`), `Audit` (the score breaches some rules,
`evaluateAlerts`), `HandleGate` (`AlertGatekeeper.handleGate` and `gateAlerts`),
`Dispatch` (`dispatchAlert` for each alert and channel, any of which may fail),
`Abandon` (a call fails or the isolate goes), `HandleReset` (at any time, alerts
on their way included). A worker that has ended takes the next upload. A Durable Object's
input gate holds other requests back while it reads and writes its storage, so
each of its requests is one step; what interleaves are the Workers between
them. The gate is one object for all tenants (`idFromName('default')`).
`AlertRules` holds the gate's arithmetic, `TenantLimiter` the limiter's.

`FixedWindow` is the abstract specification of both: for each key time is cut
into windows no shorter than `Window`, and at most `Limit` grants are made in
each. `TenantLimiter` implements it under the mapping `Started`, `Counted`
(`LimiterPromise`), the gate under `gate.window_start`, `gate.window_count`
(`GateWindow`, a reset aside). `EvaluateAlerts` and `GateAlerts` are the loops of
`evaluateAlerts` and `gateAlerts`, as recursive functions over the length of the
prefix worked on; `GateOne` is the body of the latter. `passed` and `held` are
history, of what the gate let through and withheld (`Passage`), and
`QuietAfterPassing` and `ReasonsAreTrue` compare every two entries of it: no rule
passes twice within its quiet period, and what was withheld as a repeat or as
one too many was one, of an earlier alert of the same batch perhaps.

### RunCoordinator, RunCoordinatorProofs

The Durable Object of one run: `HandleInit`, `HandleChunkComplete` with or
without an index, `HandleFinalize`. `chunks_done` and the record are put
separately, and `EvictedChunkComplete` is an eviction between the two puts.
Every request may be delivered again, after its answer too; `answered` is the
set of chunks whose sender saw a 200.

### PassportDocuments, PassportDocumentsProofs

The library behind the Passport routes, over a population of documents: `Issue`,
`Renew`, `Revoke` (the deprecated flag inside a document),
`CreateRevocationRecord`, and what holders do: `Import` a document without audit
reference, `EditDocument`, `EditRecord`. The verdict operators (`Status`,
`VerifySignature`, `IssuanceAuthenticity`, `RevocationAuthenticity`,
`RevocationStatus`, `Freshness`) are those of `sign.ts` and `revocation.ts`,
judged by verifiers with and without key and with and without trust in the
registry. A signature or a digest is the payload it is taken of; only `Issue`
and `Renew` attest. `EditRecord` changes the date of a revocation record or
strips its digest or its signature; an unsigned record without a digest is bound
by its id alone (`Bound`), which only a verifier that trusts its source believes.
`minted`, `evidence` and `revoked` are history: `evidence` is when the lineage of
an id was last audited, or when it began, if no document of it names an audit.

## 3. Runs

| run | instance | shows |
|---|---|---|
| `passport_single` | 3 requests, 1 legacy passport, 1 id to mint, single tenant | `IInv`, `OneRevocationWinner`, `RenewalKeepsOwner`: three writers race for one unowned passport |
| `passport_multi` | 2 requests of 2 tenants, 2 ids to mint | `RevocationAuthorized`, `ReportedIssuanceOwned`, `RegistryRevocationSticks`, and the refinement `LedgerSpec` |
| `federation` | 2 agents, 2 handlers, 9 positions | `IInv`, `DistinctIndices`, `NoFalseRevocation`, and `OnlyLastCharacterUnserved`: of the stored list a verifier misses at most what an odd last hex character holds |
| `approvals` | 3 requests of 2 tenants, 2 approvals, batches of 2 | `ReportedDecisionStands` and the refinement `LedgerSpec`, which fixes every answer and who may decide what |
| `pipeline` | 1 run, 2 consumers, 3 deliveries, 3 failing calls, fairness | `IInv`, `CompleteUntilExpiry`, `NoOrphans`, `OnlyExpiredIsRemoved`, and the liveness `ReplayConverges`, `ExpiredIsPruned`, `ArchivedInTheEnd` |
| `audit_engine` | traces of up to 3 events of 8 kinds, 1 edit, 2 manifests, 2 uploads | `TamperingShows`, `NoFalseAlarm`; the engines agree: `RowPerFinding`, `ApprovalsAgree`, `VerifiedChainScores`; more evidence hides nothing: `CriticalFindingsStand`, `RiskNeverImproves`, `StatusNeverFalls` |
| `run_intake` | 2 workers with one upload after another, 1 tenant, limit 2 and window 2, 3 rules (one with its own quiet period, one disabled), cap 2, 4 instants | `LimiterPromise`, `BurstBounded`, `GateWindow`, `QuietAfterPassing`, `ReasonsAreTrue` |
| `coordinator` | 4 chunks, 2 reports without index, 2 evictions, fairness | `Accounted`, `AnsweredIsMarked`, `DoneInTheEnd` |
| `passport_documents` | 3 issuances, 2 copies, 1 record, 3 days, every key, trust and sequence a verifier may have | `AuthenticIsMinted`, `RevokedIsRevoked`, `RevocationLasts`, `EvidenceDated` |

Three runs must find a violation, each of a statement of the repository that the
code does not keep:

* `federation_lost`: two revocations read, modify and write the bitstring, and
  one of two bits that were both acknowledged is lost (index.ts:589).
* `documents_summary`: a renewal with a new report points to it and keeps the
  risk and evidence summary of the old one (passport/src/lifecycle.ts:96).
* `retained_until`: six calendar months are up to 184 days, the sweep prunes at
  180, so a run goes before the `retain_until` stored with its trace
  (index.ts:1085).

Further disagreements met while modelling. Each configuration below can be run
on the module its name begins with (`MCRunCoordinator_undercount` on
`RunCoordinator` itself), and ends with the named property violated:

| configuration | property | what the code does |
|---|---|---|
| `MCPassportRegistry_mirror` | `MirrorNeverFalseActive` | a revocation known to the KV mirror only is reported active when reading the mirror fails (index.ts:1763 against :1772) |
| `MCPassportRegistry_embedded` | `EmbeddedNeverActive` | the status route ignores a revocation embedded in the document, which revoke and renew honour (index.ts:2098 against :2051) |
| `MCPassportRegistry_renew_race` | `RenewalNeverFromRevoked` | a renewal overtaken by a revocation still mints (index.ts:2190 against lifecycle.ts:42) |
| `MCFederationStatusList_served` | `ServedListComplete` | an odd last hex character of the list is not served (index.ts:615) |
| `MCAuditPipeline_resurrect` | `NoOrphans` | a job for an expired run puts an object after its bucket was listed; no sweep finds it again (index.ts:3108) |
| `MCAuditEngine_links` | `ChainBreaksAgree` | the policy audit links events that carry only `prev_hash`, the validator does not, though policy-audit/index.ts:125 says their semantics match |
| `MCAuditEngine_rerender` | `RerenderKeepsStatuses` | a report job renders without the events, so the framework statuses of the stored report change with its format (index.ts:3093) |
| `MCRunIntake_held` | `HeldAfterNotice` | an alert whose dispatch failed is still remembered as fired and suppressed as a repeat (index.ts:2974 against alerting/index.ts:469, if firing is notifying) |
| `MCPassportDocuments_evidence` | `EvidenceNeverYounger` | the second extension of a document without `audit_ref` dates its evidence at the first extension: `renew` falls back to `issued_at` and does not look at the source's `evidence_as_of` (lifecycle.ts:80), though types.ts:79-81 says it is never the renewal time; so `maxEvidenceAgeDays` (types.ts:128-133) can be outlived extension by extension |
| `MCRunCoordinator_undercount` | `CountedInTheEnd` | after an eviction between the two puts a chunk is marked and never counted (AuditRunCoordinator.ts:99) |

`LateJobs`, which lets producers send jobs for expired runs, is what the
resurrected objects need; `FindingsHaveRow` and `OnlyExpiredIsRemoved` are proved
without it.

What the hash chain does not cover, in the code as in the model. The digest of an
event leaves out the evidence block, `human_approval` and `recording_mode`
(validate/index.ts:82-93; schema/src/index.ts:274-275), so `Flag` and `Relabel`
raise nothing, and a `human_approval` set afterwards silences the oversight
finding of the event (policy-audit/index.ts:86). It leaves out `tool_name` and
other fields of the adapters as well, which no engine reads. A first hashed event
without `prev_hash` is accepted (validate/index.ts:370), and no block's own fields
are in a digest: whoever drops the head of a file and strips the link of the new
first line, or recomputes a line's hash, is seen only where an untouched block
follows that names the hash (`Rewrite`, `Reseal`). Hashes of AEP records are
`runId:hash:idx` (aep-v0_2.ts:383), the same for every record of one run, and are
not recomputed, so a line may stand in for another one of the same hash.
`TamperingShows` claims none of this.

Visible in the models and without a configuration: the rollback of an issuance
swallows the failure of its own delete and may leave the document (`Undo`;
index.ts:1568-1569 says it is rolled back); an item of a batch decision that
throws takes the results of committed items with it (`Throw`; index.ts:2438-2439
says items are independent); a redelivered audit job makes a run the sweep
archived completed again until the next sweep (`UpsertRow`); `status()` calls a
passport expired at the instant of its expiry, `isExpired()` only after it
(`Status`, `IsExpired`), and `isExpired()` answers true when there is no date,
where docs/trust-passport-v0.1.md:70 says false; a `human_approval` event counts
as an approval whatever it decided (`Unsupervised`), and at any place in the run,
where scoring/index.ts:375 says preceding; the benchmark's threshold of five
points is compared as a float, so an exact five points may fall on either side
(benchmark-audit/index.ts:121), where `VerdictOf` is exact.

Bounds. Requests are one-shot in `PassportRegistry` and `Approvals`; a second
request of the same client is a further request. Two requests are enough for
every pairwise race; three add an interloper between guard and write. One
legacy passport carries all legacy states; a second fresh id is needed for two
mints. `MaxCount` 9 lets the list reach a third hex character and a second
byte. One run is enough in `AuditPipeline`: runs share no key and no row and
meet only in the sweep, which takes them one after the other; what a second run
adds, decisions that wait behind another run's prune and stragglers of an
abandoned prune, the proofs cover for every number of runs. Three failing calls
let a delivery fail and its retry succeed, all three deliveries fail, or a
delivery and a prune. `PruneExpired` is TRUE in the runs; for the other value
`RemovalOnlyWhenDue` says that nothing is ever removed. Symmetry is used for requests, agents, ids,
tenants and consumers, which no definition tells apart, and not where liveness
is checked.

`Quiescent`, and `Rest` in the pipeline, let a finished instance stutter, so
deadlock is checked everywhere else; the engine, the intake, the documents and
the calendar simply end when their bounds are reached, and their configurations
say so.

Three events let a link, a gap and a break occur in one chain, an approval stand
before, between and after two risky calls, and a denial be followed by a call
and by an approval; the kinds cover what the rules tell apart, and one edit is
enough for each way of tampering. A foreign hash comes again with the third event.
The uploads are one with unparsable lines and one with all provenance fields and
an attribution; the network tag counts as output and as personal data, so that
the requirements that read tags by their words reach `partial`.

With two uploads per window, a burst adds up across the boundary: the second
upload of a window and the first of the next are an instant apart, and TLC meets
the greatest burst there is, three uploads within the length of a window. (Twice
the limit is not reached: a window begins with an upload, and a stretch that meets
the next window has left that one behind.) A clock of four instants crosses the
boundary of a window of two. One tenant is enough, since the limiter of a tenant is
an object of its own; that tenants are independent is part of the refinement that is
proved for all. The rule with its own quiet period of one
overrides the gate's. Four chunks with two evictions leave chunks that are
counted and chunks that are not. Three issuances allow a renewal of a renewal;
the dates include one that has passed, one still ahead, and an evidence age just
at its limit.

Each property has a mutant in its module: a definition changed the way a
plausible bug would change it, for which TLC reports the property violated.

Fairness. The request handlers of passports, federation and approvals promise
nothing that needs it. `AuditPipeline!FairSpec` assumes weak fairness of what
the platform drives on: the awaits of a running invocation (`PostStep`,
`ConsumerStep`, `R2Step`, `SweepStep`), deliveries and the final drop of a
message, and the cron trigger (`Tick`). It promises no request, no job, no
passing of time and no failure. With as many failures as deliveries a message is
dropped, which is the queue's contract and not the program's, and which
`ReplayConverges` excepts; the instance reaches it.
`RunCoordinator!Fairness` assumes that whoever initialises, finalises or reports
a chunk sends its request until it is answered: the at-least-once delivery the
handler's own comment counts on. It promises no absence of evictions.

## 4. Proofs

The proofs of the state machines follow one scheme: an inductive invariant, a
conjunction of named parts, with `Init => IInv` and one step per action for
`IInv /\ [Next]_vars => IInv'`; the properties follow from it. The constants'
assumptions are the named `ASSUME`s of each module and nothing else: any sets
of passports, tenants and requests, any batch length, either tenancy mode,
traces of any length, any list of rules, any limits and windows. A theorem that
needs more has it as a hypothesis of its own: `~LateJobs`, a gate that is on
(`MaxPerWindow > 0`), the two years of `RetentionCalendar`. Of digests they
assume what the models rest on: none is the genesis hash or a hash of another
scheme, and a changed text has another one (`DigestAssumption`). Foreign hashes
may repeat.

What a loop over a sequence computes is proved by induction on the length of
its prefix, with a set of numbers for the predicate (`SetInduction`, from the
well-ordering of the naturals), after the recursive function was shown to exist
(`EvaluationExists`, `RunExists`).

* `PassportRegistry`. The properties are not inductive: that only the owner
  revokes needs `Entitled` (past guard and claim the caller's owner row is
  there, and rows are final), `OneRevocationWinner` needs
  `CommittedRevocation` (from its insert on, the winner's record is the one in
  D1), `RegistryRevocationSticks` needs `KnownRevocation` (a request that
  arrived later gets no further than the lookup). `ImplementsLedger` proves
  the refinement: every step maps to a ledger step or a stutter.
* `FederationStatusList`. `DistinctIndices` needs `ClaimedOnce`, which also
  covers positions claimed but not yet inserted; `NoFalseRevocation` needs
  `RevokingHandlers`, which bounds the copies that may still be written back, and
  `OnlyLastCharacterUnserved` (theorem `LittleIsUnserved`) needs that each of
  these copies is long enough for its own positions (`StringsHold`).
* `Approvals`. `ReportedDecisionStands` needs that recorded outcomes keep
  describing their rows (`OutcomesHold`) and that one request decides an
  approval once (`DecidedOnceBy`). `ImplementsLedger` proves the refinement,
  where the hard step is the explanation: what the second statement reads is
  what the first would have answered, since a request waits there only with an
  item that had no effect (`Waiting`), a row of another tenant never becomes the
  caller's, and a decided row stays decided (`ExplainIsOutcome`). That refusals
  are true and that only the owner's tenant decides (`TrueRefusals`,
  `OwnTenantDecides`) are theorems about the handlers as well.
* `AuditPipeline`. `IInv` has a part that holds whatever producers send and a
  part under `~LateJobs`. Unconditionally, whatever a sweep has planned, begun
  or left in flight belongs to a row that is there and expired (`RemovalIsDue`),
  which gives `RemovalOnlyWhenDue`; and findings have a row
  (`FindingsHaveCause`). Without late jobs a run is settled before it expires
  (`ExpiredIsSettled`), so each writer still finds what it stored earlier
  (`WritersProgress`), which makes an answered run complete
  (`AnsweredIsComplete`), and a prune has listed or will list every object
  (`PruneCovers`), which makes a run whose row went empty (`GoneIsEmpty`).
  `CompletenessIsKept` and `PruningLeavesNoOrphans` carry `~LateJobs` as their
  hypothesis; `MCAuditPipeline_resurrect` shows that the second needs it.
* `RetentionCalendar` (last section of `AuditPipelineProofs`).
  `PrunedNearItsDate`: whatever the policy says, a pruned run is 180 days old and
  at most four days short of the date its upload noted. `LongPolicyKeepsTheDate`:
  a policy of 184 days keeps every date, and TLC finds a run pruned too early
  with 183. Both rest on the length of six months from any day (`HalfYear`), and
  that on the recursive `FirstOfMonth` being a table (`FirstDays`).
* `AuditEngine`. `AuditedThm` is the invariant the reports satisfy: they carry
  the findings of the events they were made from, and at most that of the parser
  besides. Every finding has one of a few
  shapes with a key (`FindingShape`), and the id is injective on them
  (`FindingIdInjective`), which gives `RowPerFindingThm`; `CitesAreEventsThm` goes
  through every requirement of the four frameworks (`OwaspWithin` to
  `IsoWithin`). The action properties need that a recorded event only extends
  the trace (`RecordExtends`) and that what the rules saw stays seen
  (`ExtensionKeeps`): `CriticalFindingsStandThm`, and `RiskNeverImprovesThm` with
  the penalties' monotonicity (`PenaltiesMonotone`). `StatusNeverFallsThm` goes
  through the requirements of OWASP and Annex IV with what an extension does to
  each kind of evidence (`EvidenceGrows`, `FirstGrows`, `BoundaryGrows`).
  `VerifiedChainScoresThm` is arithmetic over the validator's verdict;
  `BrokenChainIsNoA` shows for any trace that both scores are percentages and
  that a broken chain caps them at 80, below an A. The chain
  has an invariant of its own (`ChainInvariant`): each hashed event of the record
  carries its digest or a foreign hash and the hash of the hashed event before it,
  and no text in the file has the genesis hash for its digest, whatever was edited.
  `TamperingShowsThm` then goes from a line with a recorded block to the line
  before it: where there is none the block names the genesis hash, which no hash of
  the record is (`RecordedHashes`), so it was the first; where there is one its hash
  is the one the block names, and in the canonical scheme equal hashes mean equal
  texts, because neither line is a mismatch. `NoFalseAlarmThm` needs that a
  chained record passes every check (`RecordIsClean`) and that a file without
  edits is the record. Of the pure operators:
  `EscalationsAreExactThm` and `NoDriftOfSelf` for any two traces,
  `PairedVerdicts` and `TotalsNeverSuffice` for any samples and totals.
* `RunIntake`. `LimiterRefines` proves the refinement of `FixedWindow`: a check is
  a grant, the opening of a window, or a stutter. `BurstBoundedThm` needs a
  history invariant (`HistoryOK`): the window holds the last `count` grants and
  began with the first of them, and the earlier ones but for one window's worth are
  a whole window older; so any two grants that are twice the limit less one apart
  are a window apart. The gate's invariant
  (`IntakeInvariant`) says that what it remembers is what passed: no passage under
  a quiet period is later than the remembered firing of its rule, each remembered
  firing is a passage, and the last `window_count` passages are of the current
  window (`Consistent`). One alert keeps it and is judged truly (`StepIsSound`),
  so a batch does (`BatchIsSound`), which gives `QuietAfterPassingThm`, `ReasonsAreTrueThm` and the
  refinement `GateKeepsWindow`. Three theorems say what the two loops compute for
  any input: `ExactlyTheBreached` (an alert for each breached rule that is
  enabled, in their order, and no other), `NothingIsLost` (a batch is split in
  two, each alert in one part and in order), `GateOffPasses`.
* `RunCoordinator`. `Accounted` is inductive only with `reported = chunks_done`
  (every report that reached the run is marked before it is counted);
  `NeverOverCounted` and `FinalStandsThm` follow.
* `PassportDocuments`. The invariant `Sound` says what signatures in circulation
  cover (`SignedIsMinted`, `RecordsAreSigned`), that a document carries the date
  of its lineage's last audit, or of its first issue while it was never renewed
  (`Lineage`) and what fields documents have
  (`Shape`, which a copy with one changed field needs). The four properties of
  the run follow for any number of documents, copies and records.

Only model-checked: the violations, which are behaviours and need no proof, and
the liveness properties (`ReplayConverges`, `ExpiredIsPruned`, `ArchivedInTheEnd`,
`DoneInTheEnd`), since fairness and ENABLED are out of the prover's reach. Every
other property of the runs has its theorem.

Two hazards have no property: the leftovers of a POST that fails after its raw
trace was stored and before its row (index.ts:1148), which no sweep finds,
since sweeps start from rows, and which `NoOrphans` excepts; and the dashboard
cache, which is not modelled.

## 5. Plan

What would add most from here:

1. A composition of `AuditPipeline`, `AuditEngine` and `PassportRegistry` over
   the canonical report an issuance hashes and a report job replaces. Apart they
   reach some hundred thousand states each, so the product needs an abstraction
   of the engines first.
2. An abstract specification of the coordinator (a set of chunks counted at
   most once) and of the status list (a set that only grows, short of the lost
   bit), with their refinements proved.
3. The calendar over leap years.

## 6. Not modelled

* Dashboard cache: one map per isolate around two read routes; no store depends
  on it. Its hazard is listed.
* Authentication, tenant binding and scheduler: decision tables over
  configuration and the clock without state of their own; their answers are the
  inputs of the modules.
* Contamination: n-gram and MinHash arithmetic over texts; the scores take its
  number.
* Adapters but for their hash chain, the CLI's other commands, schema shape
  checks, the dashboard: conversions, views and argument parsing without shared
  state. HTML, Markdown and CSV layout is text.
* Cryptography and canonical JSON: a digest or a signature stands for the
  payload it is taken of, that is, collisions and forgeries do not happen.
* Deployment identity, provenance and smoke tests: release tooling.
