--------------------------- MODULE AuditPipeline ---------------------------
(***************************************************************************)
(* The evidence of audit runs (packages/worker/src/index.ts): ingestion by *)
(* POST /api/v1/runs, the audit and report queue consumers, and the        *)
(* retention sweep of the scheduled handler.  A run lives in three R2      *)
(* buckets and in two D1 tables; nothing spans them.  An action is the     *)
(* code between two awaits.  Any call may throw, applied or not, and any   *)
(* invocation may be evicted; a queue delivers at least once.              *)
(***************************************************************************)
EXTENDS Naturals, FiniteSets

CONSTANTS
    Runs,           \* run ids
    Consumers,      \* queue consumer invocations that may overlap
    NoRun,          \* what an idle consumer works on or an idle sweep prunes
    PruneExpired,   \* RetentionPolicy.prune_expired
    LateJobs,       \* may a producer send a job for an expired run?
    MaxDeliveries,  \* deliveries of a message before the queue drops it
    MaxFaults       \* bound on calls that throw and on evictions

ASSUME PipelineAssumption ==
    /\ NoRun \notin Runs
    /\ PruneExpired \in BOOLEAN
    /\ LateJobs \in BOOLEAN
    /\ MaxDeliveries \in Nat
    /\ MaxFaults \in Nat

VARIABLES
    row,        \* audit_runs.status, "none" where there is no row
    findings,   \* are the run's rows in table findings?
    objects,    \* R2: the keys stored under runs/<run>/
    age,        \* of the row, against archive_after_days and retention_days
    flawed,     \* does the audit of the run's trace find anything?
    post,       \* the POST that creates the run: the call it awaits
    msg,        \* the run's audit and report job in their queues
    delivered,  \* how often these messages were delivered
    work,       \* consumer -> the run it works on
    at,         \* consumer -> the call it awaits
    plan,       \* the decision on the run the sweep still has to execute
    pruning,    \* the run pruneRun works on
    listing,    \* buckets whose R2 list call for the run is in flight
    deleting,   \* keys of the run whose R2 delete call is in flight
    faults      \* calls that have thrown so far

rowVars == <<row, findings, age>>
queueVars == <<msg, delivered, work, at>>
sweepVars == <<plan, pruning, listing, deleting>>
vars == <<row, findings, objects, age, flawed, post, msg, delivered, work, at,
          plan, pruning, listing, deleting, faults>>

Types == {"audit", "report"}

(* report stands for the formats a report is rendered in; inventory.json   *)
(* and validation.json are written like score.json and read by nobody.     *)
Keys == {"raw", "findings.json", "score.json", "report"}
Rendered == Keys \ {"raw"}
Buckets == {"RAW_TRACES", "ARTIFACTS", "REPORTS"}
Prefix(b) == CASE b = "RAW_TRACES" -> {"raw"}
               [] b = "ARTIFACTS" -> {"findings.json", "score.json"}
               [] b = "REPORTS" -> {"report"}

Init ==
    /\ row = [r \in Runs |-> "none"]
    /\ findings = [r \in Runs |-> FALSE]
    /\ objects = [r \in Runs |-> {}]
    /\ age = [r \in Runs |-> "hot"]
    /\ flawed \in [Runs -> BOOLEAN]
    /\ post = [r \in Runs |-> "none"]
    /\ msg = [r \in Runs |-> [t \in Types |-> "none"]]
    /\ delivered = [r \in Runs |-> [t \in Types |-> 0]]
    /\ work = [c \in Consumers |-> NoRun]
    /\ at = [c \in Consumers |-> "idle"]
    /\ plan = [r \in Runs |-> "none"]
    /\ pruning = NoRun
    /\ listing = [r \in Runs |-> {}]
    /\ deleting = [r \in Runs |-> {}]
    /\ faults = 0

Fault == faults < MaxFaults /\ faults' = faults + 1
Store(r, K) == objects' = [objects EXCEPT ![r] = @ \cup K]

-----------------------------------------------------------------------------
(* writeRunToD1: the upsert keeps created_at of a row that exists and      *)
(* makes its status completed; a new row is as young as it can be.         *)
UpsertRow(r) ==
    /\ row' = [row EXCEPT ![r] = "completed"]
    /\ age' = IF row[r] = "none" THEN [age EXCEPT ![r] = "hot"] ELSE age
    /\ UNCHANGED findings

(* INSERT OR IGNORE of all findings in one batch; their rows reference the *)
(* run's, so the batch throws when that is gone.                           *)
InsertFindings(r) ==
    /\ row[r] # "none"
    /\ findings' = [findings EXCEPT ![r] = TRUE]
    /\ UNCHANGED <<row, age>>

-----------------------------------------------------------------------------
(* handlePostRun *)

Born(r) == post[r] # "none" \/ msg[r]["audit"] # "none"
PostGoto(r, l) == post' = [post EXCEPT ![r] = l]

(* The limiter let the request in and the run id is drawn. *)
PostBegin(r) ==
    /\ ~Born(r)
    /\ PostGoto(r, "raw")
    /\ UNCHANGED <<rowVars, objects, flawed, queueVars, sweepVars, faults>>

PostRaw(r) ==
    /\ post[r] = "raw"
    /\ Store(r, {"raw"})
    /\ PostGoto(r, "bundle")
    /\ UNCHANGED <<rowVars, flawed, queueVars, sweepVars, faults>>

(* Promise.all over the reports and artifacts *)
PostBundle(r) ==
    /\ post[r] = "bundle"
    /\ Store(r, Rendered)
    /\ PostGoto(r, "upsert")
    /\ UNCHANGED <<rowVars, flawed, queueVars, sweepVars, faults>>

PostUpsert(r) ==
    /\ post[r] = "upsert"
    /\ UpsertRow(r)
    /\ PostGoto(r, IF flawed[r] THEN "insert" ELSE "created")
    /\ UNCHANGED <<objects, flawed, queueVars, sweepVars, faults>>

PostInsert(r) ==
    /\ post[r] = "insert"
    /\ InsertFindings(r)
    /\ PostGoto(r, "created")
    /\ UNCHANGED <<objects, flawed, queueVars, sweepVars, faults>>

(* The awaited call throws, applied or not, or the isolate is evicted: no  *)
(* 201 is sent and nothing is undone.                                      *)
PostFail(r) ==
    /\ Fault
    /\ \/ /\ post[r] = "raw"
          /\ \E K \in SUBSET {"raw"} : Store(r, K)
          /\ UNCHANGED rowVars
       \/ /\ post[r] = "bundle"
          /\ \E K \in SUBSET Rendered : Store(r, K)
          /\ UNCHANGED rowVars
       \/ /\ post[r] \in {"upsert", "insert"}
          /\ \/ UNCHANGED rowVars
             \/ post[r] = "upsert" /\ UpsertRow(r)
             \/ post[r] = "insert" /\ InsertFindings(r)
          /\ UNCHANGED objects
    /\ PostGoto(r, "failed")
    /\ UNCHANGED <<flawed, queueVars, sweepVars>>

-----------------------------------------------------------------------------
(* The producers, which the Worker only binds.  One stores a trace and     *)
(* sends its audit job, or sends the job of an expired run again; one asks *)
(* for a report of a run that has a row.                                   *)
SetMsg(r, t, l) == msg' = [msg EXCEPT ![r][t] = l]

SendAudit(r) ==
    /\ \/ ~Born(r) /\ Store(r, {"raw"})
       \/ /\ LateJobs /\ age[r] = "expired" /\ row[r] # "none"
          /\ msg[r]["audit"] \in {"acked", "dropped"}
          /\ UNCHANGED objects
    /\ SetMsg(r, "audit", "waiting")
    /\ delivered' = [delivered EXCEPT ![r]["audit"] = 0]
    /\ UNCHANGED <<rowVars, flawed, post, work, at, sweepVars, faults>>

SendReport(r) ==
    /\ row[r] # "none"
    /\ LateJobs \/ age[r] # "expired"
    /\ msg[r]["report"] = "none"
    /\ SetMsg(r, "report", "waiting")
    /\ UNCHANGED <<rowVars, objects, flawed, post, delivered, work, at, sweepVars,
                   faults>>

(* A message that is not acknowledged is delivered, perhaps although an    *)
(* earlier delivery is still being worked on.                              *)
Deliver(c, r, t) ==
    /\ work[c] = NoRun
    /\ msg[r][t] = "waiting"
    /\ delivered[r][t] < MaxDeliveries
    /\ delivered' = [delivered EXCEPT ![r][t] = @ + 1]
    /\ work' = [work EXCEPT ![c] = r]
    /\ at' = [at EXCEPT ![c] = IF t = "audit" THEN "fetch" ELSE "get"]
    /\ UNCHANGED <<rowVars, objects, flawed, post, msg, sweepVars, faults>>

(* The type of the job a consumer that awaits this call works on. *)
JobAt(l) == IF l \in {"get", "rerender"} THEN "report" ELSE "audit"

Drop(r, t) ==
    /\ msg[r][t] = "waiting"
    /\ delivered[r][t] = MaxDeliveries
    /\ \A c \in Consumers : ~(work[c] = r /\ JobAt(at[c]) = t)
    /\ SetMsg(r, t, "dropped")
    /\ UNCHANGED <<rowVars, objects, flawed, post, delivered, work, at, sweepVars,
                   faults>>

-----------------------------------------------------------------------------
(* handleQueue: a consumer works on one message of its batch at a time.    *)
(* The acknowledgement follows the last call without an await; a call that *)
(* throws leaves the message to be delivered again.                        *)
ConsumerGoto(c, l) == at' = [at EXCEPT ![c] = l] /\ UNCHANGED <<msg, work>>

Leave(c) ==
    /\ work' = [work EXCEPT ![c] = NoRun]
    /\ at' = [at EXCEPT ![c] = "idle"]

Ack(c, r) == Leave(c) /\ SetMsg(r, JobAt(at[c]), "acked")

(* Mutant of Retry: a message that failed is acknowledged all the same. *)
RetryAcknowledged(c) == Ack(c, work[c])

Retry(c) == Leave(c) /\ UNCHANGED msg

(* processAuditJob reads the trace and runs the engines. *)
Fetch(c, r) ==
    /\ work[c] = r /\ at[c] = "fetch"
    /\ IF "raw" \in objects[r] THEN ConsumerGoto(c, "findings.json") ELSE Retry(c)
    /\ UNCHANGED <<rowVars, objects, flawed, post, delivered, sweepVars, faults>>

(* processReportJob reads both artifacts. *)
Get(c, r) ==
    /\ work[c] = r /\ at[c] = "get"
    /\ IF {"findings.json", "score.json"} \subseteq objects[r]
         THEN ConsumerGoto(c, "rerender") ELSE Retry(c)
    /\ UNCHANGED <<rowVars, objects, flawed, post, delivered, sweepVars, faults>>

(* The order in which processAuditJob stores what it rendered. *)
After == [k \in Rendered |-> CASE k = "findings.json" -> "score.json"
                               [] k = "score.json" -> "report"
                               [] k = "report" -> "upsert"]

Put(c, r) ==
    /\ work[c] = r /\ at[c] \in Rendered
    /\ Store(r, {at[c]})
    /\ ConsumerGoto(c, After[at[c]])
    /\ UNCHANGED <<rowVars, flawed, post, delivered, sweepVars, faults>>

(* processReportJob stores the report in the format asked for. *)
PutReport(c, r) ==
    /\ work[c] = r /\ at[c] = "rerender"
    /\ Store(r, {"report"})
    /\ Ack(c, r)
    /\ UNCHANGED <<rowVars, flawed, post, delivered, sweepVars, faults>>

(* Mutant of Upsert: acknowledged before the findings are in. *)
UpsertAcknowledged(c, r) ==
    /\ work[c] = r /\ at[c] = "upsert"
    /\ UpsertRow(r)
    /\ Ack(c, r)
    /\ UNCHANGED <<objects, flawed, post, delivered, sweepVars, faults>>

Upsert(c, r) ==
    /\ work[c] = r /\ at[c] = "upsert"
    /\ UpsertRow(r)
    /\ IF flawed[r] THEN ConsumerGoto(c, "insert") ELSE Ack(c, r)
    /\ UNCHANGED <<objects, flawed, post, delivered, sweepVars, faults>>

Insert(c, r) ==
    /\ work[c] = r /\ at[c] = "insert"
    /\ \/ InsertFindings(r) /\ Ack(c, r)
       \/ row[r] = "none" /\ Retry(c) /\ UNCHANGED rowVars
    /\ UNCHANGED <<objects, flawed, post, delivered, sweepVars, faults>>

(* The awaited call throws, applied or not, or the isolate is evicted. *)
ConsumerFail(c, r) ==
    /\ work[c] = r
    /\ Fault
    /\ \/ UNCHANGED <<rowVars, objects>>
       \/ at[c] \in Rendered /\ Store(r, {at[c]}) /\ UNCHANGED rowVars
       \/ at[c] = "rerender" /\ Store(r, {"report"}) /\ UNCHANGED rowVars
       \/ at[c] = "upsert" /\ UpsertRow(r) /\ UNCHANGED objects
       \/ at[c] = "insert" /\ InsertFindings(r) /\ UNCHANGED objects
    /\ Retry(c)
    /\ UNCHANGED <<flawed, post, delivered, sweepVars>>

-----------------------------------------------------------------------------
(* Time.  A row grows older than archive_after_days, then than             *)
(* retention_days.  The latter are at least 180, so that nothing the queue *)
(* or an invocation did for the young run is still under way.              *)
Settled(r) ==
    /\ post[r] \in {"none", "created", "failed"}
    /\ \A t \in Types : msg[r][t] # "waiting"
    /\ \A c \in Consumers : work[c] # r

GrowOld(r) ==
    /\ row[r] # "none"
    /\ \/ age[r] = "hot" /\ age' = [age EXCEPT ![r] = "stale"]
       \/ age[r] = "stale" /\ Settled(r) /\ age' = [age EXCEPT ![r] = "expired"]
    /\ UNCHANGED <<row, findings, objects, flawed, post, queueVars, sweepVars, faults>>

-----------------------------------------------------------------------------
(* Mutants of Decision: prunes at the archive age; takes an archived row   *)
(* for one that was dealt with.                                            *)
DecisionByArchiveAge(r) == IF PruneExpired THEN "prune" ELSE "archive"

DecisionArchivedIsFinal(r) ==
    IF age[r] = "expired" /\ PruneExpired /\ row[r] # "archived" THEN "prune" ELSE "archive"

(* planRetention *)
Decision(r) ==
    IF age[r] = "expired" /\ PruneExpired THEN "prune" ELSE "archive"

(* Mutant of Selected: takes the later cutoff. *)
SelectedExpired(q) == row[q] # "none" /\ age[q] = "expired"

(* WHERE created_at < archiveCutoff *)
Selected(q) == row[q] # "none" /\ age[q] # "hot"

(* applyRetention selects the rows past archive_after_days and plans. *)
Idle == pruning = NoRun /\ \A r \in Runs : plan[r] = "none"

Tick ==
    /\ Idle
    /\ \E r \in Runs : Selected(r)
    /\ plan' = [r \in Runs |-> IF Selected(r) THEN Decision(r) ELSE "none"]
    /\ UNCHANGED <<rowVars, objects, flawed, post, queueVars, pruning, listing,
                   deleting, faults>>

ArchiveRow(r) ==
    /\ row' = IF row[r] = "none" THEN row ELSE [row EXCEPT ![r] = "archived"]
    /\ UNCHANGED <<findings, age>>

Archive(r) ==
    /\ pruning = NoRun
    /\ plan[r] = "archive"
    /\ ArchiveRow(r)
    /\ plan' = [plan EXCEPT ![r] = "none"]
    /\ UNCHANGED <<objects, flawed, post, queueVars, pruning, listing, deleting, faults>>

(* pruneRun starts a deleteR2Prefix for each bucket. *)
PruneBegin(r) ==
    /\ pruning = NoRun
    /\ plan[r] = "prune"
    /\ pruning' = r
    /\ plan' = [plan EXCEPT ![r] = "none"]
    /\ listing' = [listing EXCEPT ![r] = Buckets]
    /\ UNCHANGED <<rowVars, objects, flawed, post, queueVars, deleting, faults>>

List(r, b) ==
    /\ b \in listing[r]
    /\ listing' = [listing EXCEPT ![r] = @ \ {b}]
    /\ deleting' = [deleting EXCEPT ![r] = @ \cup (objects[r] \cap Prefix(b))]
    /\ UNCHANGED <<rowVars, objects, flawed, post, queueVars, plan, pruning, faults>>

Delete(r, k) ==
    /\ k \in deleting[r]
    /\ deleting' = [deleting EXCEPT ![r] = @ \ {k}]
    /\ objects' = [objects EXCEPT ![r] = @ \ {k}]
    /\ UNCHANGED <<rowVars, flawed, post, queueVars, plan, pruning, listing, faults>>

InFlight(r) == listing[r] # {} \/ deleting[r] # {}

DeleteRows(r) ==
    /\ row' = [row EXCEPT ![r] = "none"]
    /\ findings' = [findings EXCEPT ![r] = FALSE]
    /\ UNCHANGED age

(* Mutant of PruneRows: the rows go first, or at least not last. *)
PruneRowsAtOnce(r) ==
    /\ pruning = r
    /\ DeleteRows(r)
    /\ pruning' = NoRun
    /\ UNCHANGED <<objects, flawed, post, queueVars, plan, listing, deleting, faults>>

(* Only when all three are done are the rows deleted, in one batch. *)
PruneRows(r) ==
    /\ pruning = r
    /\ ~InFlight(r)
    /\ DeleteRows(r)
    /\ pruning' = NoRun
    /\ UNCHANGED <<objects, flawed, post, queueVars, plan, listing, deleting, faults>>

(* A statement of the sweep throws, applied or not; the sweep goes on. *)
SweepD1Fail(r) ==
    /\ Fault
    /\ \/ /\ pruning = NoRun /\ plan[r] = "archive"
          /\ plan' = [plan EXCEPT ![r] = "none"]
          /\ ArchiveRow(r) \/ UNCHANGED rowVars
       \/ /\ pruning = r /\ ~InFlight(r)
          /\ UNCHANGED plan
          /\ DeleteRows(r) \/ UNCHANGED rowVars
    /\ pruning' = NoRun
    /\ UNCHANGED <<objects, flawed, post, queueVars, listing, deleting>>

(* A list or delete call throws: pruneRun is given up at once, while its   *)
(* other calls, and the deletes their lists lead to, run on.               *)
SweepR2Fail(r) ==
    /\ Fault
    /\ \/ /\ \E b \in listing[r] : listing' = [listing EXCEPT ![r] = @ \ {b}]
          /\ UNCHANGED <<deleting, objects>>
       \/ /\ \E k \in deleting[r] :
               /\ deleting' = [deleting EXCEPT ![r] = @ \ {k}]
               /\ objects' \in {objects, [objects EXCEPT ![r] = @ \ {k}]}
          /\ UNCHANGED listing
    /\ pruning' = IF pruning = r THEN NoRun ELSE pruning
    /\ UNCHANGED <<rowVars, flawed, post, queueVars, plan>>

SweepEvict ==
    /\ Fault
    /\ ~Idle \/ \E r \in Runs : InFlight(r)
    /\ plan' = [r \in Runs |-> "none"]
    /\ pruning' = NoRun
    /\ listing' = [r \in Runs |-> {}]
    /\ deleting' = [r \in Runs |-> {}]
    /\ UNCHANGED <<rowVars, objects, flawed, post, queueVars>>

-----------------------------------------------------------------------------
PostStep(r) == PostRaw(r) \/ PostBundle(r) \/ PostUpsert(r) \/ PostInsert(r)
ConsumerStep(c, r) ==
    Fetch(c, r) \/ Get(c, r) \/ Put(c, r) \/ PutReport(c, r) \/ Upsert(c, r)
      \/ Insert(c, r)
R2Step(r) == (\E b \in Buckets : List(r, b)) \/ (\E k \in Keys : Delete(r, k))
SweepStep(r) == Archive(r) \/ PruneBegin(r) \/ PruneRows(r)

(* Every run has come and gone; the bound on runs stops the model here. *)
Rest ==
    /\ \A r \in Runs : Born(r) /\ Settled(r) /\ row[r] = "none"
    /\ UNCHANGED vars

Next ==
    \/ \E r \in Runs :
         \/ PostBegin(r) \/ PostStep(r) \/ PostFail(r)
         \/ SendAudit(r) \/ SendReport(r) \/ GrowOld(r)
         \/ R2Step(r) \/ SweepStep(r) \/ SweepD1Fail(r) \/ SweepR2Fail(r)
         \/ \E c \in Consumers : ConsumerStep(c, r) \/ ConsumerFail(c, r)
         \/ \E t \in Types : Drop(r, t) \/ \E c \in Consumers : Deliver(c, r, t)
    \/ Tick \/ SweepEvict
    \/ Rest

Spec == Init /\ [][Next]_vars

(* An invocation runs on, the queue delivers and drops, the cron trigger   *)
(* ticks; no request, job or passing of time is promised, and the calls    *)
(* that throw are bounded by MaxFaults.                                    *)
Fairness ==
    /\ \A r \in Runs : WF_vars(PostStep(r)) /\ WF_vars(R2Step(r)) /\ WF_vars(SweepStep(r))
    /\ \A r \in Runs, t \in Types :
         WF_vars(Drop(r, t)) /\ WF_vars(\E c \in Consumers : Deliver(c, r, t))
    /\ \A c \in Consumers : WF_vars(\E r \in Runs : ConsumerStep(c, r))
    /\ WF_vars(Tick)

FairSpec == Spec /\ Fairness

-----------------------------------------------------------------------------
TypeOK ==
    /\ row \in [Runs -> {"none", "completed", "archived"}]
    /\ findings \in [Runs -> BOOLEAN]
    /\ objects \in [Runs -> SUBSET Keys]
    /\ age \in [Runs -> {"hot", "stale", "expired"}]
    /\ flawed \in [Runs -> BOOLEAN]
    /\ post \in [Runs -> {"none", "raw", "bundle", "upsert", "insert", "created", "failed"}]
    /\ msg \in [Runs -> [Types -> {"none", "waiting", "acked", "dropped"}]]
    /\ delivered \in [Runs -> [Types -> 0..MaxDeliveries]]
    /\ work \in [Consumers -> Runs \cup {NoRun}]
    /\ at \in [Consumers -> Rendered \cup {"idle", "fetch", "upsert", "insert", "get",
                                           "rerender"}]
    /\ plan \in [Runs -> {"none", "archive", "prune"}]
    /\ pruning \in Runs \cup {NoRun}
    /\ listing \in [Runs -> SUBSET Buckets]
    /\ deleting \in [Runs -> SUBSET Keys]
    /\ faults \in 0..MaxFaults

(* The run was reported as audited: 201 was sent, or its job acknowledged. *)
Answered(r) == post[r] = "created" \/ msg[r]["audit"] = "acked"

Complete(r) ==
    /\ row[r] # "none"
    /\ findings[r] = flawed[r]
    /\ objects[r] = Keys

(* A run reported as audited has its row, all its findings and all its     *)
(* objects until it expires, whatever was delivered twice or failed before *)
(* in its own audit, in a report job or in the sweep's work on other runs. *)
CompleteUntilExpiry ==
    \A r \in Runs : Answered(r) /\ age[r] # "expired" => Complete(r)

(* What an audited run stored in R2 or in findings is never left without   *)
(* the row by which the sweep finds it: pruneRun may fail anywhere, a run  *)
(* is gone from all stores or it will be selected again.                   *)
NoOrphans ==
    \A r \in Runs : Answered(r) /\ row[r] = "none" =>
        ~findings[r] /\ objects[r] = {}

(* Only expired runs lose anything, and only if the policy prunes: neither *)
(* a straggling call of an earlier sweep nor a plan made before the run    *)
(* came back removes evidence of a younger row.                            *)
OnlyExpiredIsRemoved ==
    [][\A r \in Runs :
         \/ row'[r] = "none" /\ row[r] # "none"
         \/ ~findings'[r] /\ findings[r]
         \/ ~(objects[r] \subseteq objects'[r])
         => age[r] = "expired" /\ PruneExpired]_vars

(* Findings never outlive the row they reference, which a consumer inserts *)
(* and a sweep deletes in separate statements.                             *)
FindingsHaveRow == \A r \in Runs : findings[r] => row[r] # "none"

(* "crash after durable side effect, before ACK -> replay converges"       *)
(* (R2-Q-03): unless as many calls fail as there are deliveries, an audit  *)
(* job ends up acknowledged, with a complete run, or one that has expired  *)
(* in the meantime.                                                        *)
ReplayConverges ==
    \A r \in Runs : msg[r]["audit"] = "waiting" ~>
        \/ msg[r]["audit"] = "acked" /\ (Complete(r) \/ age[r] = "expired")
        \/ msg[r]["audit"] = "dropped" /\ faults >= MaxDeliveries

(* Every expired run is pruned in the end, and every run past the archive  *)
(* age is archived for good although redelivered jobs set it to completed. *)
ExpiredIsPruned ==
    PruneExpired => \A r \in Runs :
        age[r] = "expired" /\ row[r] # "none" ~> row[r] = "none"
ArchivedInTheEnd ==
    \A r \in Runs : <>[](row[r] # "none" /\ age[r] # "hot" => row[r] = "archived")

-----------------------------------------------------------------------------
(* The inductive invariant: a part that holds whatever producers send, and *)
(* a part for producers that leave expired runs alone.                     *)

(* An idle consumer has no run; one inserts findings where there are any.  *)
WorkShape ==
    \A c \in Consumers :
        /\ at[c] = "idle" <=> work[c] = NoRun
        /\ at[c] = "insert" => flawed[work[c]]

(* Whatever is about to be removed belongs to an expired row. *)
RemovalIsDue(r) ==
    /\ plan[r] = "prune" \/ pruning = r \/ InFlight(r) =>
         row[r] # "none" /\ age[r] = "expired" /\ PruneExpired
    /\ pruning = r => plan[r] # "prune"

FindingsHaveCause(r) ==
    /\ findings[r] => row[r] # "none" /\ flawed[r]
    /\ post[r] = "insert" => flawed[r]

(* Before its first call a run has left no trace. *)
UnbornLeftNothing(r) ==
    ~Born(r) => /\ row[r] = "none" /\ age[r] = "hot" /\ objects[r] = {}
                /\ msg[r]["report"] = "none"
                /\ \A c \in Consumers : work[c] # r

ExpiredIsSettled(r) == age[r] = "expired" => Settled(r)

(* pruneRun has listed, or will list, every object of its run. *)
PruneCovers(r) ==
    pruning = r => \A k \in objects[r] :
        k \in deleting[r] \/ \E b \in listing[r] : k \in Prefix(b)

(* What has been stored by the time a call is awaited. *)
StoredBy(l) ==
    CASE l \in {"bundle", "findings.json"} -> {"raw"}
      [] l = "score.json" -> {"raw", "findings.json"}
      [] l = "report" -> Keys \ {"report"}
      [] l \in {"upsert", "insert"} -> Keys
      [] OTHER -> {}
WritersProgress(r) ==
    /\ StoredBy(post[r]) \subseteq objects[r]
    /\ post[r] = "insert" => row[r] # "none"
    /\ \A c \in Consumers : work[c] = r =>
         /\ StoredBy(at[c]) \subseteq objects[r]
         /\ at[c] = "insert" => row[r] # "none"

AnsweredIsComplete(r) ==
    Answered(r) => age[r] = "expired" \/ Complete(r)

GoneIsEmpty(r) == age[r] = "expired" /\ row[r] = "none" => objects[r] = {}

AnyInv(r) == RemovalIsDue(r) /\ FindingsHaveCause(r)

PunctualInv(r) ==
    /\ UnbornLeftNothing(r)
    /\ ExpiredIsSettled(r)
    /\ PruneCovers(r)
    /\ WritersProgress(r)
    /\ AnsweredIsComplete(r)
    /\ GoneIsEmpty(r)

IInv ==
    /\ TypeOK
    /\ WorkShape
    /\ \A r \in Runs : AnyInv(r) /\ (~LateJobs => PunctualInv(r))
=============================================================================
