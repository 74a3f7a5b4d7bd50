------------------------ MODULE AuditPipelineProofs ------------------------
(***************************************************************************)
(* Proofs about module AuditPipeline.  IInv is inductive (InitIInv and     *)
(* NextIInv); the properties follow from it.  A step disturbs one run, or  *)
(* is a step of the sweep as a whole (Tick, SweepEvict): SameInv and       *)
(* OneRun say so once, and the proof of NextIInv shows for each action     *)
(* that the types, the shape of the consumers and the invariants of the    *)
(* one run it works on are preserved.  The last section is about the      *)
(* clocks of RetentionCalendar, where AuditPipeline's classes of age come  *)
(* from.                                                                   *)
(***************************************************************************)
EXTENDS AuditPipeline, Integers, Sequences, TLAPS

USE PipelineAssumption

LEMMA InitIInv == Init => IInv
<1> SUFFICES ASSUME Init PROVE IInv
  OBVIOUS
<1>1. TypeOK
  BY DEF Init, TypeOK
<1>2. WorkShape /\ \A r \in Runs : AnyInv(r)
  BY DEF Init, WorkShape, AnyInv, RemovalIsDue, InFlight, FindingsHaveCause
<1>3. \A r \in Runs : PunctualInv(r)
  BY DEF Init, PunctualInv, UnbornLeftNothing, ExpiredIsSettled, PruneCovers,
     WritersProgress, StoredBy, AnsweredIsComplete, Answered, GoneIsEmpty, Types
<1>4. QED
  BY <1>1, <1>2, <1>3 DEF IInv

(* The step leaves run q alone. *)
Same(q) ==
    /\ row'[q] = row[q] /\ findings'[q] = findings[q] /\ objects'[q] = objects[q]
    /\ age'[q] = age[q] /\ flawed'[q] = flawed[q] /\ post'[q] = post[q]
    /\ msg'[q] = msg[q] /\ plan'[q] = plan[q] /\ (pruning' = q <=> pruning = q)
    /\ listing'[q] = listing[q] /\ deleting'[q] = deleting[q]
    /\ \A c \in Consumers : /\ work'[c] = q <=> work[c] = q
                            /\ work[c] = q => at'[c] = at[c]

(* A run that is left alone keeps its invariants. *)
LEMMA SameInv ==
    ASSUME NEW q \in Runs, Same(q), AnyInv(q), ~LateJobs => PunctualInv(q)
    PROVE  AnyInv(q)' /\ (~LateJobs => PunctualInv(q)')
<1>1. AnyInv(q)'
  BY DEF Same, AnyInv, RemovalIsDue, InFlight, FindingsHaveCause
<1>2. ASSUME ~LateJobs PROVE PunctualInv(q)'
  <2>1. UnbornLeftNothing(q)' /\ ExpiredIsSettled(q)'
    BY <1>2 DEF Same, PunctualInv, UnbornLeftNothing, Born, ExpiredIsSettled,
       Settled
  <2>2. PruneCovers(q)' /\ GoneIsEmpty(q)'
    BY <1>2 DEF Same, PunctualInv, PruneCovers, GoneIsEmpty
  <2>3. WritersProgress(q)'
    BY <1>2 DEF Same, PunctualInv, WritersProgress
  <2>4. AnsweredIsComplete(q)'
    BY <1>2 DEF Same, PunctualInv, AnsweredIsComplete, Answered, Complete
  <2>5. QED
    BY <2>1, <2>2, <2>3, <2>4 DEF PunctualInv
<1>3. QED
  BY <1>1, <1>2

(* What a D1 statement, and what storing objects, may leave. *)
LEMMA RowTypes ==
    ASSUME TypeOK, NEW r \in Runs,
           \/ UpsertRow(r) \/ InsertFindings(r) \/ ArchiveRow(r) \/ DeleteRows(r)
           \/ UNCHANGED rowVars
    PROVE  /\ row' \in [Runs -> {"none", "completed", "archived"}]
           /\ findings' \in [Runs -> BOOLEAN]
           /\ age' \in [Runs -> {"hot", "stale", "expired"}]
<1>1. CASE UpsertRow(r)
  BY <1>1 DEF UpsertRow, TypeOK
<1>2. CASE InsertFindings(r)
  BY <1>2 DEF InsertFindings, TypeOK
<1>3. CASE ArchiveRow(r)
  BY <1>3 DEF ArchiveRow, TypeOK
<1>4. CASE DeleteRows(r)
  BY <1>4 DEF DeleteRows, TypeOK
<1>5. CASE UNCHANGED rowVars
  BY <1>5 DEF rowVars, TypeOK
<1>6. QED
  BY <1>1, <1>2, <1>3, <1>4, <1>5

LEMMA StoreType ==
    ASSUME TypeOK, NEW r \in Runs, NEW K \in SUBSET Keys, Store(r, K) \/ UNCHANGED objects
    PROVE  /\ objects' \in [Runs -> SUBSET Keys]
           /\ objects[r] \subseteq objects'[r]
<1>1. CASE Store(r, K)
  BY <1>1 DEF Store, TypeOK
<1>2. CASE UNCHANGED objects
  BY <1>2 DEF TypeOK
<1>3. QED
  BY <1>1, <1>2

LEMMA QueueTypes ==
    ASSUME TypeOK, NEW c \in Consumers, NEW r \in Runs, UNCHANGED delivered,
           \/ Ack(c, r) \/ Retry(c)
           \/ \E l \in Rendered \cup {"upsert", "insert", "rerender"} : ConsumerGoto(c, l)
    PROVE  /\ msg' \in [Runs -> [Types -> {"none", "waiting", "acked", "dropped"}]]
           /\ delivered' \in [Runs -> [Types -> 0..MaxDeliveries]]
           /\ work' \in [Consumers -> Runs \cup {NoRun}]
           /\ at' \in [Consumers -> Rendered \cup {"idle", "fetch", "upsert", "insert",
                                                    "get", "rerender"}]
<1>1. CASE Ack(c, r)
  <2>1. JobAt(at[c]) \in Types
    BY DEF JobAt, Types
  <2>2. msg' \in [Runs -> [Types -> {"none", "waiting", "acked", "dropped"}]]
    BY <1>1, <2>1 DEF Ack, SetMsg, TypeOK
  <2>3. QED
    BY <1>1, <2>2 DEF Ack, Leave, TypeOK
<1>2. CASE Retry(c)
  BY <1>2 DEF Retry, Leave, TypeOK
<1>3. CASE \E l \in Rendered \cup {"upsert", "insert", "rerender"} : ConsumerGoto(c, l)
  BY <1>3 DEF ConsumerGoto, TypeOK
<1>4. QED
  BY <1>1, <1>2, <1>3

(* Apart from DeleteRows these statements remove nothing. *)
LEMMA RowsKept ==
    ASSUME TypeOK, NEW q \in Runs, NEW r \in Runs,
           UpsertRow(q) \/ InsertFindings(q) \/ ArchiveRow(q) \/ UNCHANGED <<row, findings>>
    PROVE  (row[r] # "none" => row'[r] # "none") /\ (findings[r] => findings'[r])
BY DEF UpsertRow, InsertFindings, ArchiveRow, TypeOK

LEMMA ObjectsKept ==
    ASSUME TypeOK, NEW q \in Runs, NEW r \in Runs, NEW K \in SUBSET Keys,
           Store(q, K) \/ UNCHANGED objects
    PROVE  objects[r] \subseteq objects'[r]
<1>1. CASE Store(q, K)
  <2>1. CASE q = r
    BY <1>1, <2>1 DEF Store
  <2>2. CASE q # r
    BY <1>1, <2>2 DEF Store
  <2>3. QED
    BY <2>1, <2>2
<1>2. CASE UNCHANGED objects
  BY <1>2
<1>3. QED
  BY <1>1, <1>2

LEMMA StoredAll == StoredBy("upsert") = Keys /\ StoredBy("insert") = Keys
BY DEF StoredBy

(* A step that removes nothing of a run keeps a complete run complete.     *)
LEMMA AnswerKept ==
    ASSUME NEW r \in Runs, TypeOK, TypeOK', AnyInv(r)', AnsweredIsComplete(r),
           objects[r] \subseteq objects'[r], row[r] # "none" => row'[r] # "none",
           findings[r] => findings'[r], flawed' = flawed,
           row[r] # "none" \/ age[r] = "expired" => age'[r] = age[r],
           Answered(r)' => Answered(r) \/ Complete(r)'
    PROVE  AnsweredIsComplete(r)'
<1>1. Complete(r) => Complete(r)'
  <2>1. findings[r] \in BOOLEAN /\ flawed[r] \in BOOLEAN /\ findings'[r] \in BOOLEAN
    BY DEF TypeOK
  <2>2. findings[r] = flawed[r] => findings'[r] = flawed'[r]
    BY <2>1 DEF AnyInv, FindingsHaveCause
  <2>3. objects'[r] \subseteq Keys
    BY DEF TypeOK
  <2>4. QED
    BY <2>2, <2>3 DEF Complete
<1>2. Complete(r) => row[r] # "none"
  BY DEF Complete
<1>3. QED
  BY <1>1, <1>2 DEF AnsweredIsComplete

(* A step on one run preserves the invariant if it does so for that run. *)
LEMMA OneRun ==
    ASSUME IInv, NEW r \in Runs, TypeOK', WorkShape', \A q \in Runs \ {r} : Same(q),
           AnyInv(r)', ~LateJobs => PunctualInv(r)'
    PROVE  IInv'
BY SameInv DEF IInv

LEMMA NextIInv == IInv /\ [Next]_vars => IInv'
<1> SUFFICES ASSUME IInv, [Next]_vars PROVE IInv'
  OBVIOUS
<1> USE DEF rowVars, queueVars, sweepVars
<1>0. TypeOK /\ WorkShape /\ \A r \in Runs : AnyInv(r) /\ (~LateJobs => PunctualInv(r))
  BY DEF IInv
<1>1. ASSUME NEW r \in Runs, PostBegin(r) PROVE IInv'
  <2>1. TypeOK'
    BY <1>0, <1>1 DEF PostBegin, PostGoto, TypeOK
  <2>2. WorkShape'
    BY <1>0, <1>1 DEF PostBegin, WorkShape
  <2>3. \A q \in Runs \ {r} : Same(q)
    BY <1>0, <1>1 DEF PostBegin, PostGoto, Same
  <2>4. AnyInv(r)'
    BY <1>0, <1>1 DEF PostBegin, PostGoto, AnyInv, RemovalIsDue, InFlight,
       FindingsHaveCause
  <2>5. ASSUME ~LateJobs PROVE PunctualInv(r)'
    <3>0. AnyInv(r) /\ PunctualInv(r)
      BY <1>0, <2>5
    <3>1. PunctualInv(r)'
      BY <1>0, <3>0, <2>5, <1>1 DEF PostBegin, PostGoto, UnbornLeftNothing,
         Born, ExpiredIsSettled, Settled, Types, PruneCovers, RemovalIsDue,
         InFlight, Buckets, Prefix, Keys, WritersProgress, StoredBy,
         AnsweredIsComplete, Answered, GoneIsEmpty, PunctualInv
    <3>7. QED
      BY <3>1 DEF PunctualInv
  <2>6. QED
    BY <2>1, <2>2, <2>3, <2>4, <2>5, OneRun
<1>2. ASSUME NEW r \in Runs, PostRaw(r) PROVE IInv'
  <2>1. TypeOK'
    BY <1>0, <1>2 DEF PostRaw, PostGoto, Store, TypeOK, Keys
  <2>2. WorkShape'
    BY <1>0, <1>2 DEF PostRaw, WorkShape
  <2>3. \A q \in Runs \ {r} : Same(q)
    BY <1>0, <1>2 DEF PostRaw, PostGoto, Store, Same
  <2>4. AnyInv(r)'
    BY <1>0, <1>2 DEF PostRaw, PostGoto, AnyInv, RemovalIsDue, InFlight,
       FindingsHaveCause
  <2>5. ASSUME ~LateJobs PROVE PunctualInv(r)'
    <3>0. AnyInv(r) /\ PunctualInv(r)
      BY <1>0, <2>5
    <3>1. /\ UnbornLeftNothing(r)'
          /\ ExpiredIsSettled(r)'
          /\ PruneCovers(r)'
          /\ WritersProgress(r)'
          /\ GoneIsEmpty(r)'
      BY <1>0, <3>0, <2>5, <1>2 DEF PostRaw, PostGoto, Store,
         UnbornLeftNothing, Born, ExpiredIsSettled, Settled, Types,
         PruneCovers, RemovalIsDue, WritersProgress, StoredBy, GoneIsEmpty,
         TypeOK, PunctualInv, AnyInv
    <3>5. AnsweredIsComplete(r)'
      <4>1. /\ objects[r] \subseteq objects'[r] /\ flawed' = flawed
            /\ row[r] # "none" => row'[r] # "none"
            /\ findings[r] => findings'[r]
            /\ row[r] # "none" \/ age[r] = "expired" => age'[r] = age[r]
        BY <1>0, <3>0, <2>5, <1>2 DEF PostRaw, Store
      <4>2. Answered(r)' => Answered(r) \/ Complete(r)'
        BY <1>0, <3>0, <2>5, <1>2 DEF PostRaw, PostGoto, Answered
      <4>3. QED
        BY <1>0, <2>1, <2>4, <3>0, <4>1, <4>2, AnswerKept DEF PunctualInv
    <3>7. QED
      BY <3>1, <3>5 DEF PunctualInv
  <2>6. QED
    BY <2>1, <2>2, <2>3, <2>4, <2>5, OneRun
<1>3. ASSUME NEW r \in Runs, PostBundle(r) PROVE IInv'
  <2>1. TypeOK'
    BY <1>0, <1>3 DEF PostBundle, PostGoto, Store, TypeOK, Rendered
  <2>2. WorkShape'
    BY <1>0, <1>3 DEF PostBundle, WorkShape
  <2>3. \A q \in Runs \ {r} : Same(q)
    BY <1>0, <1>3 DEF PostBundle, PostGoto, Store, Same
  <2>4. AnyInv(r)'
    BY <1>0, <1>3 DEF PostBundle, PostGoto, AnyInv, RemovalIsDue, InFlight,
       FindingsHaveCause
  <2>5. ASSUME ~LateJobs PROVE PunctualInv(r)'
    <3>0. AnyInv(r) /\ PunctualInv(r)
      BY <1>0, <2>5
    <3>1. /\ UnbornLeftNothing(r)'
          /\ ExpiredIsSettled(r)'
          /\ PruneCovers(r)'
          /\ WritersProgress(r)'
          /\ GoneIsEmpty(r)'
      BY <1>0, <3>0, <2>5, <1>3 DEF PostBundle, PostGoto, Store,
         UnbornLeftNothing, Born, ExpiredIsSettled, Settled, Types,
         PruneCovers, RemovalIsDue, WritersProgress, StoredBy, Rendered,
         GoneIsEmpty, TypeOK, PunctualInv, AnyInv
    <3>5. AnsweredIsComplete(r)'
      <4>1. /\ objects[r] \subseteq objects'[r] /\ flawed' = flawed
            /\ row[r] # "none" => row'[r] # "none"
            /\ findings[r] => findings'[r]
            /\ row[r] # "none" \/ age[r] = "expired" => age'[r] = age[r]
        BY <1>0, <3>0, <2>5, <1>3 DEF PostBundle, Store
      <4>2. Answered(r)' => Answered(r) \/ Complete(r)'
        BY <1>0, <3>0, <2>5, <1>3 DEF PostBundle, PostGoto, Answered
      <4>3. QED
        BY <1>0, <2>1, <2>4, <3>0, <4>1, <4>2, AnswerKept DEF PunctualInv
    <3>7. QED
      BY <3>1, <3>5 DEF PunctualInv
  <2>6. QED
    BY <2>1, <2>2, <2>3, <2>4, <2>5, OneRun
<1>4. ASSUME NEW r \in Runs, PostUpsert(r) PROVE IInv'
  <2>1. TypeOK'
    BY <1>0, <1>4 DEF PostUpsert, PostGoto, UpsertRow, TypeOK
  <2>2. WorkShape'
    BY <1>0, <1>4 DEF PostUpsert, WorkShape
  <2>3. \A q \in Runs \ {r} : Same(q)
    BY <1>0, <1>4 DEF PostUpsert, PostGoto, UpsertRow, Same
  <2>4. AnyInv(r)'
    BY <1>0, <1>4 DEF PostUpsert, PostGoto, UpsertRow, AnyInv, RemovalIsDue,
       InFlight, FindingsHaveCause
  <2>5. ASSUME ~LateJobs PROVE PunctualInv(r)'
    <3>0. AnyInv(r) /\ PunctualInv(r)
      BY <1>0, <2>5
    <3>1. /\ UnbornLeftNothing(r)'
          /\ ExpiredIsSettled(r)'
          /\ PruneCovers(r)'
          /\ WritersProgress(r)'
          /\ GoneIsEmpty(r)'
      BY <1>0, <3>0, <2>5, <1>4 DEF PostUpsert, PostGoto, UpsertRow,
         UnbornLeftNothing, Born, ExpiredIsSettled, Settled, Types,
         PruneCovers, WritersProgress, StoredBy, GoneIsEmpty, TypeOK,
         PunctualInv, AnyInv
    <3>5. AnsweredIsComplete(r)'
      <4>1. /\ objects[r] \subseteq objects'[r] /\ flawed' = flawed
            /\ row[r] # "none" => row'[r] # "none"
            /\ findings[r] => findings'[r]
            /\ row[r] # "none" \/ age[r] = "expired" => age'[r] = age[r]
        BY <1>0, <3>0, <2>5, <1>4 DEF PostUpsert, UpsertRow, PunctualInv,
           ExpiredIsSettled, Settled
      <4>2. Answered(r)' => Answered(r) \/ Complete(r)'
        <5>1. StoredBy(post[r]) = Keys
          BY <1>4, StoredAll DEF PostUpsert
        <5>2. StoredBy(post[r]) \subseteq objects[r]
          BY <1>4, <3>0 DEF PostUpsert, PunctualInv, WritersProgress
        <5>3. objects'[r] = Keys
          BY <1>0, <1>4, <5>1, <5>2 DEF PostUpsert, TypeOK
        <5>4. Answered(r)' => Answered(r) \/ (row'[r] # "none" /\ findings'[r] = flawed'[r])
          BY <1>0, <3>0, <1>4 DEF PostUpsert, PostGoto, UpsertRow,
             Answered, TypeOK, AnyInv, FindingsHaveCause
        <5>5. QED
          BY <5>3, <5>4 DEF Complete
      <4>3. QED
        BY <1>0, <2>1, <2>4, <3>0, <4>1, <4>2, AnswerKept DEF PunctualInv
    <3>7. QED
      BY <3>1, <3>5 DEF PunctualInv
  <2>6. QED
    BY <2>1, <2>2, <2>3, <2>4, <2>5, OneRun
<1>5. ASSUME NEW r \in Runs, PostInsert(r) PROVE IInv'
  <2>1. TypeOK'
    BY <1>0, <1>5 DEF PostInsert, PostGoto, InsertFindings, TypeOK
  <2>2. WorkShape'
    BY <1>0, <1>5 DEF PostInsert, WorkShape
  <2>3. \A q \in Runs \ {r} : Same(q)
    BY <1>0, <1>5 DEF PostInsert, PostGoto, InsertFindings, Same
  <2>4. AnyInv(r)'
    BY <1>0, <1>5 DEF PostInsert, InsertFindings, AnyInv, RemovalIsDue,
       InFlight, FindingsHaveCause
  <2>5. ASSUME ~LateJobs PROVE PunctualInv(r)'
    <3>0. AnyInv(r) /\ PunctualInv(r)
      BY <1>0, <2>5
    <3>1. /\ UnbornLeftNothing(r)'
          /\ ExpiredIsSettled(r)'
          /\ PruneCovers(r)'
          /\ WritersProgress(r)'
          /\ GoneIsEmpty(r)'
      BY <1>0, <3>0, <2>5, <1>5 DEF PostInsert, PostGoto, InsertFindings,
         UnbornLeftNothing, Born, ExpiredIsSettled, Settled, Types,
         PruneCovers, Keys, WritersProgress, StoredBy, Rendered, GoneIsEmpty,
         TypeOK, PunctualInv
    <3>5. AnsweredIsComplete(r)'
      <4>1. /\ objects[r] \subseteq objects'[r] /\ flawed' = flawed
            /\ row[r] # "none" => row'[r] # "none"
            /\ findings[r] => findings'[r]
            /\ row[r] # "none" \/ age[r] = "expired" => age'[r] = age[r]
        BY <1>0, <3>0, <2>5, <1>5 DEF PostInsert, InsertFindings
      <4>2. Answered(r)' => Answered(r) \/ Complete(r)'
        <5>1. StoredBy(post[r]) = Keys
          BY <1>5, StoredAll DEF PostInsert
        <5>2. StoredBy(post[r]) \subseteq objects[r]
          BY <1>5, <3>0 DEF PostInsert, PunctualInv, WritersProgress
        <5>3. objects'[r] = Keys
          BY <1>0, <1>5, <5>1, <5>2 DEF PostInsert, TypeOK
        <5>4. Answered(r)' => Answered(r) \/ (row'[r] # "none" /\ findings'[r] = flawed'[r])
          BY <1>0, <3>0, <1>5 DEF PostInsert, InsertFindings, TypeOK,
             AnyInv, FindingsHaveCause
        <5>5. QED
          BY <5>3, <5>4 DEF Complete
      <4>3. QED
        BY <1>0, <2>1, <2>4, <3>0, <4>1, <4>2, AnswerKept DEF PunctualInv
    <3>7. QED
      BY <3>1, <3>5 DEF PunctualInv
  <2>6. QED
    BY <2>1, <2>2, <2>3, <2>4, <2>5, OneRun
<1>6. ASSUME NEW r \in Runs, PostFail(r) PROVE IInv'
  <2>1. TypeOK'
    <3>1. /\ row' \in [Runs -> {"none", "completed", "archived"}]
          /\ findings' \in [Runs -> BOOLEAN]
          /\ age' \in [Runs -> {"hot", "stale", "expired"}]
      BY <1>0, <1>6, RowTypes DEF PostFail
    <3>2. objects' \in [Runs -> SUBSET Keys]
      BY <1>0, <1>6, StoreType DEF PostFail, Keys, Rendered
    <3>6. faults' \in 0..MaxFaults
      BY <1>0, <1>6 DEF PostFail, Fault, TypeOK
    <3>5. QED
      BY <1>0, <1>6, <3>1, <3>2, <3>6 DEF PostFail, PostGoto, TypeOK
  <2>2. WorkShape'
    BY <1>0, <1>6 DEF PostFail, WorkShape
  <2>3. \A q \in Runs \ {r} : Same(q)
    BY <1>0, <1>6 DEF PostFail, PostGoto, Store, UpsertRow, InsertFindings,
       Same, TypeOK
  <2>4. AnyInv(r)'
    BY <1>0, <1>6 DEF PostFail, PostGoto, UpsertRow, InsertFindings, AnyInv,
       RemovalIsDue, InFlight, FindingsHaveCause, TypeOK
  <2>5. ASSUME ~LateJobs PROVE PunctualInv(r)'
    <3>0. AnyInv(r) /\ PunctualInv(r)
      BY <1>0, <2>5
    <3>1. /\ UnbornLeftNothing(r)'
          /\ ExpiredIsSettled(r)'
          /\ PruneCovers(r)'
          /\ WritersProgress(r)'
          /\ GoneIsEmpty(r)'
      BY <1>0, <3>0, <2>5, <1>6 DEF PostFail, PostGoto, Fault, Store,
         UpsertRow, InsertFindings, UnbornLeftNothing, Born, ExpiredIsSettled,
         Settled, Types, PruneCovers, RemovalIsDue, WritersProgress, StoredBy,
         GoneIsEmpty, TypeOK, PunctualInv, AnyInv
    <3>5. AnsweredIsComplete(r)'
      <4>1. /\ objects[r] \subseteq objects'[r] /\ flawed' = flawed
            /\ row[r] # "none" => row'[r] # "none"
            /\ findings[r] => findings'[r]
            /\ row[r] # "none" \/ age[r] = "expired" => age'[r] = age[r]
        BY <1>0, <3>0, <2>5, <1>6 DEF PostFail, Store, UpsertRow,
           InsertFindings, TypeOK, PunctualInv, ExpiredIsSettled, Settled
      <4>2. Answered(r)' => Answered(r) \/ Complete(r)'
        BY <1>0, <3>0, <2>5, <1>6 DEF PostFail, PostGoto, Answered
      <4>3. QED
        BY <1>0, <2>1, <2>4, <3>0, <4>1, <4>2, AnswerKept DEF PunctualInv
    <3>7. QED
      BY <3>1, <3>5 DEF PunctualInv
  <2>6. QED
    BY <2>1, <2>2, <2>3, <2>4, <2>5, OneRun
<1>7. ASSUME NEW r \in Runs, SendAudit(r) PROVE IInv'
  <2>1. TypeOK'
    <3>1. "audit" \in Types
      BY DEF Types
    <3>2. objects' \in [Runs -> SUBSET Keys]
      BY <1>0, <1>7, StoreType DEF SendAudit, Keys
    <3>3. msg' \in [Runs -> [Types -> {"none", "waiting", "acked", "dropped"}]]
      BY <1>0, <1>7, <3>1 DEF SendAudit, SetMsg, TypeOK
    <3>4. delivered' \in [Runs -> [Types -> 0..MaxDeliveries]]
      BY <1>0, <1>7, <3>1 DEF SendAudit, TypeOK
    <3>5. QED
      BY <1>0, <1>7, <3>2, <3>3, <3>4 DEF SendAudit, TypeOK
  <2>2. WorkShape'
    BY <1>0, <1>7 DEF SendAudit, WorkShape
  <2>3. \A q \in Runs \ {r} : Same(q)
    BY <1>0, <1>7 DEF SendAudit, Store, SetMsg, Same, TypeOK
  <2>4. AnyInv(r)'
    BY <1>0, <1>7 DEF SendAudit, AnyInv, RemovalIsDue, InFlight, FindingsHaveCause
  <2>5. ASSUME ~LateJobs PROVE PunctualInv(r)'
    <3>0. AnyInv(r) /\ PunctualInv(r)
      BY <1>0, <2>5
    <3>1. UnbornLeftNothing(r)'
      <4>1. msg'[r]["audit"] = "waiting"
        BY <1>0, <1>7 DEF SendAudit, SetMsg, TypeOK, Types
      <4>2. QED
        BY <4>1 DEF UnbornLeftNothing, Born
    <3>2. ExpiredIsSettled(r)' /\ WritersProgress(r)' /\ GoneIsEmpty(r)'
      BY <1>0, <3>0, <2>5, <1>7 DEF SendAudit, Store, SetMsg,
         ExpiredIsSettled, Settled, UnbornLeftNothing, Born, WritersProgress,
         GoneIsEmpty, PunctualInv
    <3>3. PruneCovers(r)'
      <4>1. row[r] = "none"
        BY <2>5, <3>0, <1>7 DEF SendAudit, PunctualInv, UnbornLeftNothing
      <4>2. pruning' # r
        BY <3>0, <4>1, <1>7 DEF SendAudit, AnyInv, RemovalIsDue
      <4>3. QED
        BY <4>2 DEF PruneCovers
    <3>5. AnsweredIsComplete(r)'
      <4>1. /\ objects[r] \subseteq objects'[r] /\ flawed' = flawed
            /\ row[r] # "none" => row'[r] # "none"
            /\ findings[r] => findings'[r]
            /\ row[r] # "none" \/ age[r] = "expired" => age'[r] = age[r]
        BY <1>0, <3>0, <2>5, <1>7 DEF SendAudit, Store, TypeOK
      <4>2. Answered(r)' => Answered(r) \/ Complete(r)'
        BY <1>0, <3>0, <2>5, <1>7 DEF SendAudit, SetMsg, Answered
      <4>3. QED
        BY <1>0, <2>1, <2>4, <3>0, <4>1, <4>2, AnswerKept DEF PunctualInv
    <3>7. QED
      BY <3>1, <3>2, <3>3, <3>5 DEF PunctualInv
  <2>6. QED
    BY <2>1, <2>2, <2>3, <2>4, <2>5, OneRun
<1>8. ASSUME NEW r \in Runs, SendReport(r) PROVE IInv'
  <2>1. TypeOK'
    BY <1>0, <1>8 DEF SendReport, SetMsg, TypeOK
  <2>2. WorkShape'
    BY <1>0, <1>8 DEF SendReport, WorkShape
  <2>3. \A q \in Runs \ {r} : Same(q)
    BY <1>0, <1>8 DEF SendReport, SetMsg, Same
  <2>4. AnyInv(r)'
    BY <1>0, <1>8 DEF SendReport, AnyInv, RemovalIsDue, InFlight, FindingsHaveCause
  <2>5. ASSUME ~LateJobs PROVE PunctualInv(r)'
    <3>0. AnyInv(r) /\ PunctualInv(r)
      BY <1>0, <2>5
    <3>1. PunctualInv(r)'
      BY <1>0, <3>0, <2>5, <1>8 DEF SendReport, SetMsg, UnbornLeftNothing,
         Born, ExpiredIsSettled, Settled, Types, PruneCovers, RemovalIsDue,
         InFlight, Buckets, Prefix, Keys, WritersProgress, AnsweredIsComplete,
         Answered, Complete, GoneIsEmpty, PunctualInv, AnyInv
    <3>7. QED
      BY <3>1 DEF PunctualInv
  <2>6. QED
    BY <2>1, <2>2, <2>3, <2>4, <2>5, OneRun
<1>9. ASSUME NEW r \in Runs, GrowOld(r) PROVE IInv'
  <2>1. TypeOK'
    BY <1>0, <1>9 DEF GrowOld, TypeOK
  <2>2. WorkShape'
    BY <1>0, <1>9 DEF GrowOld, WorkShape
  <2>3. \A q \in Runs \ {r} : Same(q)
    BY <1>0, <1>9 DEF GrowOld, Same, TypeOK
  <2>4. AnyInv(r)'
    BY <1>0, <1>9 DEF GrowOld, AnyInv, RemovalIsDue, InFlight, FindingsHaveCause
  <2>5. ASSUME ~LateJobs PROVE PunctualInv(r)'
    <3>0. AnyInv(r) /\ PunctualInv(r)
      BY <1>0, <2>5
    <3>1. PunctualInv(r)'
      BY <1>0, <3>0, <2>5, <1>9 DEF GrowOld, UnbornLeftNothing, Born,
         ExpiredIsSettled, Settled, Types, PruneCovers, RemovalIsDue,
         InFlight, Buckets, Prefix, Keys, WritersProgress, AnsweredIsComplete,
         Answered, Complete, GoneIsEmpty, TypeOK, PunctualInv, AnyInv
    <3>7. QED
      BY <3>1 DEF PunctualInv
  <2>6. QED
    BY <2>1, <2>2, <2>3, <2>4, <2>5, OneRun
<1>10. ASSUME NEW r \in Runs, NEW b \in Buckets, List(r, b) PROVE IInv'
  <2>1. TypeOK'
    BY <1>0, <1>10 DEF List, TypeOK
  <2>2. WorkShape'
    BY <1>0, <1>10 DEF List, WorkShape
  <2>3. \A q \in Runs \ {r} : Same(q)
    BY <1>0, <1>10 DEF List, Same
  <2>4. AnyInv(r)'
    BY <1>0, <1>10 DEF List, AnyInv, RemovalIsDue, InFlight, FindingsHaveCause
  <2>5. ASSUME ~LateJobs PROVE PunctualInv(r)'
    <3>0. AnyInv(r) /\ PunctualInv(r)
      BY <1>0, <2>5
    <3>1. PunctualInv(r)'
      BY <1>0, <3>0, <2>5, <1>10 DEF List, UnbornLeftNothing, Born,
         ExpiredIsSettled, Settled, Types, PruneCovers, RemovalIsDue,
         InFlight, Buckets, Prefix, Keys, WritersProgress, Rendered,
         AnsweredIsComplete, Answered, Complete, GoneIsEmpty, TypeOK,
         PunctualInv
    <3>7. QED
      BY <3>1 DEF PunctualInv
  <2>6. QED
    BY <2>1, <2>2, <2>3, <2>4, <2>5, OneRun
<1>11. ASSUME NEW r \in Runs, NEW k \in Keys, Delete(r, k) PROVE IInv'
  <2>1. TypeOK'
    BY <1>0, <1>11 DEF Delete, TypeOK
  <2>2. WorkShape'
    BY <1>0, <1>11 DEF Delete, WorkShape
  <2>3. \A q \in Runs \ {r} : Same(q)
    BY <1>0, <1>11 DEF Delete, Same
  <2>4. AnyInv(r)'
    BY <1>0, <1>11 DEF Delete, AnyInv, RemovalIsDue, InFlight, FindingsHaveCause
  <2>5. ASSUME ~LateJobs PROVE PunctualInv(r)'
    <3>0. AnyInv(r) /\ PunctualInv(r)
      BY <1>0, <2>5
    <3>1. /\ UnbornLeftNothing(r)'
          /\ ExpiredIsSettled(r)'
          /\ WritersProgress(r)'
          /\ AnsweredIsComplete(r)'
          /\ GoneIsEmpty(r)'
      BY <1>0, <3>0, <2>5, <1>11 DEF Delete, UnbornLeftNothing, Born,
         ExpiredIsSettled, Settled, Types, WritersProgress, StoredBy, Keys,
         Rendered, RemovalIsDue, InFlight, AnsweredIsComplete, GoneIsEmpty,
         PunctualInv, AnyInv
    <3>3. PruneCovers(r)'
      <4>1. /\ objects'[r] = objects[r] \ {k}
            /\ deleting'[r] = deleting[r] \ {k}
        BY <1>0, <1>11 DEF Delete, TypeOK
      <4>2. PruneCovers(r)
        BY <3>0 DEF PunctualInv
      <4>3. QED
        BY <1>11, <4>1, <4>2 DEF Delete, PruneCovers
    <3>7. QED
      BY <3>1, <3>3 DEF PunctualInv
  <2>6. QED
    BY <2>1, <2>2, <2>3, <2>4, <2>5, OneRun
<1>12. ASSUME NEW r \in Runs, Archive(r) PROVE IInv'
  <2>1. TypeOK'
    BY <1>0, <1>12 DEF Archive, ArchiveRow, TypeOK
  <2>2. WorkShape'
    BY <1>0, <1>12 DEF Archive, WorkShape
  <2>3. \A q \in Runs \ {r} : Same(q)
    BY <1>0, <1>12 DEF Archive, ArchiveRow, Same
  <2>4. AnyInv(r)'
    BY <1>0, <1>12 DEF Archive, ArchiveRow, AnyInv, RemovalIsDue, InFlight,
       FindingsHaveCause
  <2>5. ASSUME ~LateJobs PROVE PunctualInv(r)'
    <3>0. AnyInv(r) /\ PunctualInv(r)
      BY <1>0, <2>5
    <3>1. PunctualInv(r)'
      BY <1>0, <3>0, <2>5, <1>12 DEF Archive, ArchiveRow, UnbornLeftNothing,
         Born, ExpiredIsSettled, Settled, Types, PruneCovers, RemovalIsDue,
         InFlight, Buckets, Prefix, Keys, WritersProgress, AnsweredIsComplete,
         Answered, Complete, GoneIsEmpty, PunctualInv
    <3>7. QED
      BY <3>1 DEF PunctualInv
  <2>6. QED
    BY <2>1, <2>2, <2>3, <2>4, <2>5, OneRun
<1>13. ASSUME NEW r \in Runs, PruneBegin(r) PROVE IInv'
  <2>1. TypeOK'
    BY <1>0, <1>13 DEF PruneBegin, TypeOK
  <2>2. WorkShape'
    BY <1>0, <1>13 DEF PruneBegin, WorkShape
  <2>3. \A q \in Runs \ {r} : Same(q)
    BY <1>0, <1>13 DEF PruneBegin, Same
  <2>4. AnyInv(r)'
    BY <1>0, <1>13 DEF PruneBegin, AnyInv, RemovalIsDue, FindingsHaveCause, TypeOK
  <2>5. ASSUME ~LateJobs PROVE PunctualInv(r)'
    <3>0. AnyInv(r) /\ PunctualInv(r)
      BY <1>0, <2>5
    <3>1. /\ UnbornLeftNothing(r)'
          /\ ExpiredIsSettled(r)'
          /\ WritersProgress(r)'
          /\ AnsweredIsComplete(r)'
          /\ GoneIsEmpty(r)'
      BY <1>0, <3>0, <2>5, <1>13 DEF PruneBegin, UnbornLeftNothing, Born,
         ExpiredIsSettled, Settled, Types, WritersProgress, StoredBy, Keys,
         Rendered, AnsweredIsComplete, Answered, Complete, GoneIsEmpty,
         PunctualInv
    <3>3. PruneCovers(r)'
      <4>1. ASSUME NEW k \in Keys PROVE \E b \in Buckets : k \in Prefix(b)
        <5>1. Prefix("RAW_TRACES") = {"raw"} /\ Prefix("REPORTS") = {"report"}
              /\ Prefix("ARTIFACTS") = {"findings.json", "score.json"}
          BY DEF Prefix
        <5>2. QED
          BY <5>1 DEF Keys, Buckets
      <4>2. listing'[r] = Buckets /\ objects'[r] \subseteq Keys
        BY <1>0, <1>13 DEF PruneBegin, TypeOK
      <4>3. QED
        BY <4>1, <4>2 DEF PruneCovers
    <3>7. QED
      BY <3>1, <3>3 DEF PunctualInv
  <2>6. QED
    BY <2>1, <2>2, <2>3, <2>4, <2>5, OneRun
<1>14. ASSUME NEW r \in Runs, PruneRows(r) PROVE IInv'
  <2>1. TypeOK'
    BY <1>0, <1>14 DEF PruneRows, DeleteRows, TypeOK
  <2>2. WorkShape'
    BY <1>0, <1>14 DEF PruneRows, WorkShape
  <2>3. \A q \in Runs \ {r} : Same(q)
    BY <1>0, <1>14 DEF PruneRows, DeleteRows, Same
  <2>4. AnyInv(r)'
    BY <1>0, <1>14 DEF PruneRows, DeleteRows, AnyInv, RemovalIsDue, InFlight,
       FindingsHaveCause, TypeOK
  <2>5. ASSUME ~LateJobs PROVE PunctualInv(r)'
    <3>0. AnyInv(r) /\ PunctualInv(r)
      BY <1>0, <2>5
    <3>1. PunctualInv(r)'
      BY <1>0, <3>0, <2>5, <1>14 DEF PruneRows, DeleteRows, UnbornLeftNothing,
         Born, ExpiredIsSettled, Settled, Types, PruneCovers, RemovalIsDue,
         InFlight, Buckets, Prefix, Keys, WritersProgress, AnsweredIsComplete,
         GoneIsEmpty, PunctualInv, AnyInv
    <3>7. QED
      BY <3>1 DEF PunctualInv
  <2>6. QED
    BY <2>1, <2>2, <2>3, <2>4, <2>5, OneRun
<1>15. ASSUME NEW r \in Runs, SweepD1Fail(r) PROVE IInv'
  <2>1. TypeOK'
    <3>1. /\ row' \in [Runs -> {"none", "completed", "archived"}]
          /\ findings' \in [Runs -> BOOLEAN]
          /\ age' \in [Runs -> {"hot", "stale", "expired"}]
      BY <1>0, <1>15, RowTypes DEF SweepD1Fail
    <3>6. faults' \in 0..MaxFaults
      BY <1>0, <1>15 DEF SweepD1Fail, Fault, TypeOK
    <3>5. QED
      BY <1>0, <1>15, <3>1, <3>6 DEF SweepD1Fail, TypeOK
  <2>2. WorkShape'
    BY <1>0, <1>15 DEF SweepD1Fail, WorkShape
  <2>3. \A q \in Runs \ {r} : Same(q)
    BY <1>0, <1>15 DEF SweepD1Fail, DeleteRows, ArchiveRow, Same, TypeOK
  <2>4. AnyInv(r)'
    BY <1>0, <1>15 DEF SweepD1Fail, DeleteRows, ArchiveRow, AnyInv,
       RemovalIsDue, InFlight, FindingsHaveCause, TypeOK
  <2>5. ASSUME ~LateJobs PROVE PunctualInv(r)'
    <3>0. AnyInv(r) /\ PunctualInv(r)
      BY <1>0, <2>5
    <3>1. /\ UnbornLeftNothing(r)'
          /\ ExpiredIsSettled(r)'
          /\ PruneCovers(r)'
          /\ WritersProgress(r)'
          /\ GoneIsEmpty(r)'
      BY <1>0, <3>0, <2>5, <1>15 DEF SweepD1Fail, DeleteRows, ArchiveRow,
         Fault, UnbornLeftNothing, Born, ExpiredIsSettled, Settled, Types,
         PruneCovers, RemovalIsDue, InFlight, Prefix, WritersProgress,
         Rendered, GoneIsEmpty, TypeOK, PunctualInv, AnyInv
    <3>5. AnsweredIsComplete(r)'
      BY <1>0, <3>0, <2>5, <1>15 DEF SweepD1Fail, DeleteRows, ArchiveRow,
         Fault, AnsweredIsComplete, Answered, Complete, RemovalIsDue, TypeOK,
         PunctualInv, AnyInv
    <3>7. QED
      BY <3>1, <3>5 DEF PunctualInv
  <2>6. QED
    BY <2>1, <2>2, <2>3, <2>4, <2>5, OneRun
<1>16. ASSUME NEW r \in Runs, SweepR2Fail(r) PROVE IInv'
  <2>1. TypeOK'
    <3>1. CASE \E b \in listing[r] : listing' = [listing EXCEPT ![r] = @ \ {b}]
               /\ UNCHANGED <<deleting, objects>>
      BY <1>0, <1>16, <3>1 DEF SweepR2Fail, Fault, TypeOK
    <3>2. CASE /\ \E k \in deleting[r] :
                    /\ deleting' = [deleting EXCEPT ![r] = @ \ {k}]
                    /\ objects' \in {objects, [objects EXCEPT ![r] = @ \ {k}]}
               /\ UNCHANGED listing
      BY <1>0, <1>16, <3>2, SMTT(30) DEF SweepR2Fail, Fault, TypeOK
    <3>3. QED
      BY <1>16, <3>1, <3>2 DEF SweepR2Fail
  <2>2. WorkShape'
    BY <1>0, <1>16 DEF SweepR2Fail, WorkShape
  <2>3. \A q \in Runs \ {r} : Same(q)
    BY <1>0, <1>16 DEF SweepR2Fail, Same, TypeOK
  <2>4. AnyInv(r)'
    BY <1>0, <1>16 DEF SweepR2Fail, AnyInv, RemovalIsDue, InFlight,
       FindingsHaveCause
  <2>5. ASSUME ~LateJobs PROVE PunctualInv(r)'
    <3>0. AnyInv(r) /\ PunctualInv(r)
      BY <1>0, <2>5
    <3>1. PunctualInv(r)'
      BY <1>0, <3>0, <2>5, <1>16 DEF SweepR2Fail, Fault, UnbornLeftNothing,
         Born, ExpiredIsSettled, Settled, Types, PruneCovers, RemovalIsDue,
         InFlight, Buckets, Prefix, Keys, WritersProgress, StoredBy,
         AnsweredIsComplete, GoneIsEmpty, PunctualInv, AnyInv
    <3>7. QED
      BY <3>1 DEF PunctualInv
  <2>6. QED
    BY <2>1, <2>2, <2>3, <2>4, <2>5, OneRun
<1>17. ASSUME NEW c \in Consumers, NEW r \in Runs, Fetch(c, r) PROVE IInv'
  <2>1. TypeOK'
    <3>1. Retry(c) \/ \E l \in Rendered \cup {"upsert", "insert", "rerender"} : ConsumerGoto(c, l)
      BY <1>17 DEF Fetch, Keys, Rendered
    <3>2. /\ msg' \in [Runs -> [Types -> {"none", "waiting", "acked", "dropped"}]]
          /\ work' \in [Consumers -> Runs \cup {NoRun}]
          /\ at' \in [Consumers -> Rendered \cup {"idle", "fetch", "upsert", "insert",
                                                  "get", "rerender"}]
      BY <1>0, <1>17, <3>1, QueueTypes DEF Fetch
    <3>3. QED
      BY <1>0, <1>17, <3>2 DEF Fetch, TypeOK
  <2>2. WorkShape'
    BY <1>0, <1>17 DEF Fetch, ConsumerGoto, Retry, Leave, WorkShape, TypeOK
  <2>3. \A q \in Runs \ {r} : Same(q)
    BY <1>0, <1>17 DEF Fetch, ConsumerGoto, Retry, Leave, Same, TypeOK
  <2>4. AnyInv(r)'
    BY <1>0, <1>17 DEF Fetch, AnyInv, RemovalIsDue, InFlight, FindingsHaveCause
  <2>5. ASSUME ~LateJobs PROVE PunctualInv(r)'
    <3>0. AnyInv(r) /\ PunctualInv(r)
      BY <1>0, <2>5
    <3>1. /\ UnbornLeftNothing(r)'
          /\ ExpiredIsSettled(r)'
          /\ PruneCovers(r)'
          /\ AnsweredIsComplete(r)'
          /\ GoneIsEmpty(r)'
      BY <1>0, <3>0, <2>5, <1>17 DEF Fetch, ConsumerGoto, Retry, Leave,
         UnbornLeftNothing, Born, ExpiredIsSettled, Settled, Types,
         PruneCovers, RemovalIsDue, InFlight, Buckets, Prefix,
         AnsweredIsComplete, Answered, Complete, GoneIsEmpty, PunctualInv
    <3>4. WritersProgress(r)'
      BY <1>0, <3>0, <2>5, <1>17 DEF Fetch, ConsumerGoto, Retry, Leave,
         WritersProgress, StoredBy, Keys, TypeOK, PunctualInv
    <3>7. QED
      BY <3>1, <3>4 DEF PunctualInv
  <2>6. QED
    BY <2>1, <2>2, <2>3, <2>4, <2>5, OneRun
<1>18. ASSUME NEW c \in Consumers, NEW r \in Runs, Get(c, r) PROVE IInv'
  <2>1. TypeOK'
    <3>1. Retry(c) \/ \E l \in Rendered \cup {"upsert", "insert", "rerender"} : ConsumerGoto(c, l)
      BY <1>18 DEF Get, Keys, Rendered
    <3>2. /\ msg' \in [Runs -> [Types -> {"none", "waiting", "acked", "dropped"}]]
          /\ work' \in [Consumers -> Runs \cup {NoRun}]
          /\ at' \in [Consumers -> Rendered \cup {"idle", "fetch", "upsert", "insert",
                                                  "get", "rerender"}]
      BY <1>0, <1>18, <3>1, QueueTypes DEF Get
    <3>3. QED
      BY <1>0, <1>18, <3>2 DEF Get, TypeOK
  <2>2. WorkShape'
    BY <1>0, <1>18 DEF Get, ConsumerGoto, Retry, Leave, WorkShape, TypeOK
  <2>3. \A q \in Runs \ {r} : Same(q)
    BY <1>0, <1>18 DEF Get, ConsumerGoto, Retry, Leave, Same, TypeOK
  <2>4. AnyInv(r)'
    BY <1>0, <1>18 DEF Get, AnyInv, RemovalIsDue, InFlight, FindingsHaveCause
  <2>5. ASSUME ~LateJobs PROVE PunctualInv(r)'
    <3>0. AnyInv(r) /\ PunctualInv(r)
      BY <1>0, <2>5
    <3>1. PunctualInv(r)'
      BY <1>0, <3>0, <2>5, <1>18 DEF Get, ConsumerGoto, Retry, Leave,
         UnbornLeftNothing, Born, ExpiredIsSettled, Settled, Types,
         PruneCovers, RemovalIsDue, InFlight, Buckets, Prefix, Keys,
         WritersProgress, StoredBy, AnsweredIsComplete, Answered, Complete,
         WorkShape, FindingsHaveCause, GoneIsEmpty, TypeOK, PunctualInv,
         AnyInv
    <3>7. QED
      BY <3>1 DEF PunctualInv
  <2>6. QED
    BY <2>1, <2>2, <2>3, <2>4, <2>5, OneRun
<1>19. ASSUME NEW c \in Consumers, NEW r \in Runs, Put(c, r) PROVE IInv'
  <2>1. TypeOK'
    BY <1>0, <1>19 DEF Put, ConsumerGoto, Store, After, TypeOK, Keys, Rendered
  <2>2. WorkShape'
    BY <1>0, <1>19 DEF Put, ConsumerGoto, After, WorkShape, Rendered, Keys
  <2>3. \A q \in Runs \ {r} : Same(q)
    BY <1>0, <1>19 DEF Put, ConsumerGoto, Store, Same
  <2>4. AnyInv(r)'
    BY <1>0, <1>19 DEF Put, AnyInv, RemovalIsDue, InFlight, FindingsHaveCause
  <2>5. ASSUME ~LateJobs PROVE PunctualInv(r)'
    <3>0. AnyInv(r) /\ PunctualInv(r)
      BY <1>0, <2>5
    <3>1. /\ UnbornLeftNothing(r)'
          /\ ExpiredIsSettled(r)'
          /\ PruneCovers(r)'
          /\ WritersProgress(r)'
          /\ GoneIsEmpty(r)'
      BY <1>0, <3>0, <2>5, <1>19 DEF Put, ConsumerGoto, Store, After,
         UnbornLeftNothing, Born, ExpiredIsSettled, Settled, Types,
         PruneCovers, RemovalIsDue, Prefix, Keys, WritersProgress, StoredBy,
         Rendered, GoneIsEmpty, TypeOK, PunctualInv, AnyInv
    <3>5. AnsweredIsComplete(r)'
      <4>1. /\ objects[r] \subseteq objects'[r] /\ flawed' = flawed
            /\ row[r] # "none" => row'[r] # "none"
            /\ findings[r] => findings'[r]
            /\ row[r] # "none" \/ age[r] = "expired" => age'[r] = age[r]
        BY <1>0, <3>0, <2>5, <1>19 DEF Put, Store
      <4>2. Answered(r)' => Answered(r) \/ Complete(r)'
        BY <1>0, <3>0, <2>5, <1>19 DEF Put, ConsumerGoto, Answered
      <4>3. QED
        BY <1>0, <2>1, <2>4, <3>0, <4>1, <4>2, AnswerKept DEF PunctualInv
    <3>7. QED
      BY <3>1, <3>5 DEF PunctualInv
  <2>6. QED
    BY <2>1, <2>2, <2>3, <2>4, <2>5, OneRun
<1>20. ASSUME NEW c \in Consumers, NEW r \in Runs, PutReport(c, r) PROVE IInv'
  <2>1. TypeOK'
    BY <1>0, <1>20 DEF PutReport, Store, Ack, Leave, SetMsg, TypeOK, Keys
  <2>2. WorkShape'
    BY <1>0, <1>20 DEF PutReport, Ack, Leave, WorkShape, TypeOK
  <2>3. \A q \in Runs \ {r} : Same(q)
    BY <1>0, <1>20 DEF PutReport, Store, Ack, Leave, SetMsg, Same
  <2>4. AnyInv(r)'
    BY <1>0, <1>20 DEF PutReport, AnyInv, RemovalIsDue, InFlight, FindingsHaveCause
  <2>5. ASSUME ~LateJobs PROVE PunctualInv(r)'
    <3>0. AnyInv(r) /\ PunctualInv(r)
      BY <1>0, <2>5
    <3>1. /\ UnbornLeftNothing(r)'
          /\ ExpiredIsSettled(r)'
          /\ PruneCovers(r)'
          /\ WritersProgress(r)'
          /\ GoneIsEmpty(r)'
      BY <1>0, <3>0, <2>5, <1>20 DEF PutReport, Store, Ack, Leave, SetMsg,
         JobAt, UnbornLeftNothing, Born, ExpiredIsSettled, Settled, Types,
         PruneCovers, RemovalIsDue, WritersProgress, StoredBy, GoneIsEmpty,
         PunctualInv, AnyInv
    <3>5. AnsweredIsComplete(r)'
      <4>1. /\ objects[r] \subseteq objects'[r] /\ flawed' = flawed
            /\ row[r] # "none" => row'[r] # "none"
            /\ findings[r] => findings'[r]
            /\ row[r] # "none" \/ age[r] = "expired" => age'[r] = age[r]
        BY <1>0, <3>0, <2>5, <1>20 DEF PutReport, Store
      <4>2. Answered(r)' => Answered(r) \/ Complete(r)'
        BY <1>0, <3>0, <2>5, <1>20 DEF PutReport, Ack, SetMsg, JobAt, Answered
      <4>3. QED
        BY <1>0, <2>1, <2>4, <3>0, <4>1, <4>2, AnswerKept DEF PunctualInv
    <3>7. QED
      BY <3>1, <3>5 DEF PunctualInv
  <2>6. QED
    BY <2>1, <2>2, <2>3, <2>4, <2>5, OneRun
<1>21. ASSUME NEW c \in Consumers, NEW r \in Runs, Upsert(c, r) PROVE IInv'
  <2>1. TypeOK'
    <3>1. /\ row' \in [Runs -> {"none", "completed", "archived"}]
          /\ findings' \in [Runs -> BOOLEAN]
          /\ age' \in [Runs -> {"hot", "stale", "expired"}]
      BY <1>0, <1>21, RowTypes DEF Upsert
    <3>4. /\ msg' \in [Runs -> [Types -> {"none", "waiting", "acked", "dropped"}]]
          /\ delivered' \in [Runs -> [Types -> 0..MaxDeliveries]]
          /\ work' \in [Consumers -> Runs \cup {NoRun}]
          /\ at' \in [Consumers -> Rendered \cup {"idle", "fetch", "upsert", "insert",
                                                  "get", "rerender"}]
      BY <1>0, <1>21, QueueTypes DEF Upsert
    <3>5. QED
      BY <1>0, <1>21, <3>1, <3>4 DEF Upsert, TypeOK
  <2>2. WorkShape'
    BY <1>0, <1>21 DEF Upsert, ConsumerGoto, Ack, Leave, WorkShape, TypeOK
  <2>3. \A q \in Runs \ {r} : Same(q)
    BY <1>0, <1>21 DEF Upsert, UpsertRow, ConsumerGoto, Ack, Leave, SetMsg,
       Same, TypeOK
  <2>4. AnyInv(r)'
    BY <1>0, <1>21 DEF Upsert, UpsertRow, AnyInv, RemovalIsDue, InFlight,
       FindingsHaveCause
  <2>5. ASSUME ~LateJobs PROVE PunctualInv(r)'
    <3>0. AnyInv(r) /\ PunctualInv(r)
      BY <1>0, <2>5
    <3>1. /\ UnbornLeftNothing(r)'
          /\ ExpiredIsSettled(r)'
          /\ PruneCovers(r)'
          /\ WritersProgress(r)'
          /\ GoneIsEmpty(r)'
      BY <1>0, <3>0, <2>5, <1>21 DEF Upsert, UpsertRow, ConsumerGoto, Ack,
         Leave, SetMsg, JobAt, UnbornLeftNothing, Born, ExpiredIsSettled,
         Settled, Types, PruneCovers, Keys, WritersProgress, StoredBy,
         GoneIsEmpty, TypeOK, PunctualInv, AnyInv
    <3>5. AnsweredIsComplete(r)'
      <4>1. /\ objects[r] \subseteq objects'[r] /\ flawed' = flawed
            /\ row[r] # "none" => row'[r] # "none"
            /\ findings[r] => findings'[r]
            /\ row[r] # "none" \/ age[r] = "expired" => age'[r] = age[r]
        BY <1>0, <3>0, <2>5, <1>21 DEF Upsert, UpsertRow, PunctualInv,
           ExpiredIsSettled, Settled
      <4>2. Answered(r)' => Answered(r) \/ Complete(r)'
        <5>1. StoredBy(at[c]) = Keys
          BY <1>21, StoredAll DEF Upsert
        <5>2. StoredBy(at[c]) \subseteq objects[r]
          BY <1>21, <3>0 DEF Upsert, PunctualInv, WritersProgress
        <5>3. objects'[r] = Keys
          BY <1>0, <1>21, <5>1, <5>2 DEF Upsert, TypeOK
        <5>4. Answered(r)' => Answered(r) \/ (row'[r] # "none" /\ findings'[r] = flawed'[r])
          BY <1>0, <3>0, <1>21 DEF Upsert, UpsertRow, ConsumerGoto,
             Answered, TypeOK, AnyInv, FindingsHaveCause
        <5>5. QED
          BY <5>3, <5>4 DEF Complete
      <4>3. QED
        BY <1>0, <2>1, <2>4, <3>0, <4>1, <4>2, AnswerKept DEF PunctualInv
    <3>7. QED
      BY <3>1, <3>5 DEF PunctualInv
  <2>6. QED
    BY <2>1, <2>2, <2>3, <2>4, <2>5, OneRun
<1>22. ASSUME NEW c \in Consumers, NEW r \in Runs, Insert(c, r) PROVE IInv'
  <2>1. TypeOK'
    <3>1. /\ row' \in [Runs -> {"none", "completed", "archived"}]
          /\ findings' \in [Runs -> BOOLEAN]
          /\ age' \in [Runs -> {"hot", "stale", "expired"}]
      BY <1>0, <1>22, RowTypes DEF Insert
    <3>4. /\ msg' \in [Runs -> [Types -> {"none", "waiting", "acked", "dropped"}]]
          /\ delivered' \in [Runs -> [Types -> 0..MaxDeliveries]]
          /\ work' \in [Consumers -> Runs \cup {NoRun}]
          /\ at' \in [Consumers -> Rendered \cup {"idle", "fetch", "upsert", "insert",
                                                  "get", "rerender"}]
      BY <1>0, <1>22, QueueTypes DEF Insert
    <3>5. QED
      BY <1>0, <1>22, <3>1, <3>4 DEF Insert, TypeOK
  <2>2. WorkShape'
    <3>1. Leave(c)
      BY <1>22 DEF Insert, Ack, Retry
    <3>2. QED
      BY <1>0, <1>22, <3>1 DEF Insert, Leave, WorkShape, TypeOK
  <2>3. \A q \in Runs \ {r} : Same(q)
    BY <1>0, <1>22 DEF Insert, InsertFindings, Ack, Retry, Leave, SetMsg, Same,
       TypeOK
  <2>4. AnyInv(r)'
    BY <1>0, <1>22 DEF Insert, InsertFindings, AnyInv, RemovalIsDue, InFlight,
       FindingsHaveCause, WorkShape
  <2>5. ASSUME ~LateJobs PROVE PunctualInv(r)'
    <3>0. AnyInv(r) /\ PunctualInv(r)
      BY <1>0, <2>5
    <3>1. /\ UnbornLeftNothing(r)'
          /\ ExpiredIsSettled(r)'
          /\ PruneCovers(r)'
          /\ WritersProgress(r)'
          /\ GoneIsEmpty(r)'
      BY <1>0, <3>0, <2>5, <1>22 DEF Insert, InsertFindings, Ack, Retry,
         Leave, SetMsg, JobAt, UnbornLeftNothing, Born, ExpiredIsSettled,
         Settled, Types, PruneCovers, Keys, WritersProgress, StoredBy,
         Rendered, GoneIsEmpty, TypeOK, PunctualInv
    <3>5. AnsweredIsComplete(r)'
      <4>1. /\ objects[r] \subseteq objects'[r] /\ flawed' = flawed
            /\ row[r] # "none" => row'[r] # "none"
            /\ findings[r] => findings'[r]
            /\ row[r] # "none" \/ age[r] = "expired" => age'[r] = age[r]
        BY <1>0, <3>0, <2>5, <1>22 DEF Insert, InsertFindings, TypeOK
      <4>2. ASSUME InsertFindings(r) PROVE Complete(r)'
        <5>1. StoredBy(at[c]) = Keys
          BY <1>22, StoredAll DEF Insert
        <5>2. objects'[r] = Keys
          <6>1. StoredBy(at[c]) \subseteq objects[r]
            BY <1>22, <3>0 DEF Insert, PunctualInv, WritersProgress
          <6>2. QED
            BY <1>0, <1>22, <5>1, <6>1 DEF Insert, TypeOK
        <5>3. row'[r] # "none" /\ findings'[r] = TRUE
          BY <1>0, <4>2 DEF InsertFindings, TypeOK
        <5>4. flawed'[r] = TRUE
          BY <1>0, <1>22 DEF Insert, WorkShape
        <5>5. QED
          BY <5>2, <5>3, <5>4 DEF Complete
      <4>3. ASSUME Retry(c) PROVE Answered(r)' = Answered(r)
        BY <1>22, <4>3 DEF Insert, Retry, Answered
      <4>4. Answered(r)' => Answered(r) \/ Complete(r)'
        BY <1>22, <4>2, <4>3 DEF Insert
      <4>5. QED
        BY <1>0, <2>1, <2>4, <3>0, <4>1, <4>4, AnswerKept DEF PunctualInv
    <3>7. QED
      BY <3>1, <3>5 DEF PunctualInv
  <2>6. QED
    BY <2>1, <2>2, <2>3, <2>4, <2>5, OneRun
<1>23. ASSUME NEW c \in Consumers, NEW r \in Runs, ConsumerFail(c, r) PROVE IInv'
  <2>1. TypeOK'
    <3>1. /\ row' \in [Runs -> {"none", "completed", "archived"}]
          /\ findings' \in [Runs -> BOOLEAN]
          /\ age' \in [Runs -> {"hot", "stale", "expired"}]
      BY <1>0, <1>23, RowTypes DEF ConsumerFail
    <3>2. objects' \in [Runs -> SUBSET Keys]
      BY <1>0, <1>23, StoreType DEF ConsumerFail, Keys, Rendered
    <3>6. faults' \in 0..MaxFaults
      BY <1>0, <1>23 DEF ConsumerFail, Fault, TypeOK
    <3>4. /\ msg' \in [Runs -> [Types -> {"none", "waiting", "acked", "dropped"}]]
          /\ delivered' \in [Runs -> [Types -> 0..MaxDeliveries]]
          /\ work' \in [Consumers -> Runs \cup {NoRun}]
          /\ at' \in [Consumers -> Rendered \cup {"idle", "fetch", "upsert", "insert",
                                                  "get", "rerender"}]
      BY <1>0, <1>23, QueueTypes DEF ConsumerFail
    <3>5. QED
      BY <1>0, <1>23, <3>1, <3>2, <3>6, <3>4 DEF ConsumerFail, TypeOK
  <2>2. WorkShape'
    BY <1>0, <1>23 DEF ConsumerFail, Retry, Leave, WorkShape, TypeOK
  <2>3. \A q \in Runs \ {r} : Same(q)
    BY <1>0, <1>23 DEF ConsumerFail, Store, UpsertRow, InsertFindings, Retry,
       Leave, Same, TypeOK
  <2>4. AnyInv(r)'
    BY <1>0, <1>23 DEF ConsumerFail, UpsertRow, InsertFindings, AnyInv,
       RemovalIsDue, InFlight, FindingsHaveCause, WorkShape, TypeOK
  <2>5. ASSUME ~LateJobs PROVE PunctualInv(r)'
    <3>0. AnyInv(r) /\ PunctualInv(r)
      BY <1>0, <2>5
    <3>1. /\ UnbornLeftNothing(r)'
          /\ ExpiredIsSettled(r)'
          /\ PruneCovers(r)'
          /\ WritersProgress(r)'
          /\ GoneIsEmpty(r)'
      BY <1>0, <3>0, <2>5, <1>23 DEF ConsumerFail, Fault, Store, UpsertRow,
         InsertFindings, Retry, Leave, UnbornLeftNothing, Born,
         ExpiredIsSettled, Settled, Types, PruneCovers, RemovalIsDue,
         WritersProgress, GoneIsEmpty, TypeOK, PunctualInv, AnyInv
    <3>5. AnsweredIsComplete(r)'
      <4>1. /\ objects[r] \subseteq objects'[r] /\ flawed' = flawed
            /\ row[r] # "none" => row'[r] # "none"
            /\ findings[r] => findings'[r]
            /\ row[r] # "none" \/ age[r] = "expired" => age'[r] = age[r]
        BY <1>0, <3>0, <2>5, <1>23 DEF ConsumerFail, Store, UpsertRow,
           InsertFindings, TypeOK, PunctualInv, ExpiredIsSettled, Settled
      <4>2. Answered(r)' => Answered(r) \/ Complete(r)'
        BY <1>0, <3>0, <2>5, <1>23 DEF ConsumerFail, Retry, Answered
      <4>3. QED
        BY <1>0, <2>1, <2>4, <3>0, <4>1, <4>2, AnswerKept DEF PunctualInv
    <3>7. QED
      BY <3>1, <3>5 DEF PunctualInv
  <2>6. QED
    BY <2>1, <2>2, <2>3, <2>4, <2>5, OneRun
<1>24. ASSUME NEW r \in Runs, NEW t \in Types, Drop(r, t) PROVE IInv'
  <2>1. TypeOK'
    BY <1>0, <1>24 DEF Drop, SetMsg, TypeOK
  <2>2. WorkShape'
    BY <1>0, <1>24 DEF Drop, WorkShape
  <2>3. \A q \in Runs \ {r} : Same(q)
    BY <1>0, <1>24 DEF Drop, SetMsg, Same
  <2>4. AnyInv(r)'
    BY <1>0, <1>24 DEF Drop, AnyInv, RemovalIsDue, InFlight, FindingsHaveCause
  <2>5. ASSUME ~LateJobs PROVE PunctualInv(r)'
    <3>0. AnyInv(r) /\ PunctualInv(r)
      BY <1>0, <2>5
    <3>1. PunctualInv(r)'
      BY <1>0, <3>0, <2>5, <1>24 DEF Drop, SetMsg, UnbornLeftNothing, Born,
         ExpiredIsSettled, Settled, Types, PruneCovers, RemovalIsDue,
         InFlight, Buckets, Prefix, Keys, WritersProgress, AnsweredIsComplete,
         Answered, Complete, GoneIsEmpty, PunctualInv, AnyInv
    <3>7. QED
      BY <3>1 DEF PunctualInv
  <2>6. QED
    BY <2>1, <2>2, <2>3, <2>4, <2>5, OneRun
<1>25. ASSUME NEW c \in Consumers, NEW r \in Runs, NEW t \in Types, Deliver(c, r, t) PROVE IInv'
  <2>1. TypeOK'
    BY <1>0, <1>25 DEF Deliver, TypeOK
  <2>2. WorkShape'
    BY <1>0, <1>25 DEF Deliver, WorkShape, TypeOK
  <2>3. \A q \in Runs \ {r} : Same(q)
    BY <1>0, <1>25 DEF Deliver, Same
  <2>4. AnyInv(r)'
    BY <1>0, <1>25 DEF Deliver, AnyInv, RemovalIsDue, InFlight, FindingsHaveCause
  <2>5. ASSUME ~LateJobs PROVE PunctualInv(r)'
    <3>0. AnyInv(r) /\ PunctualInv(r)
      BY <1>0, <2>5
    <3>1. UnbornLeftNothing(r)'
      <4>1. Born(r)
        BY <3>0, <1>25 DEF Deliver, PunctualInv, UnbornLeftNothing, Born, Types
      <4>2. QED
        BY <1>25, <4>1 DEF Deliver, UnbornLeftNothing, Born
    <3>2. /\ ExpiredIsSettled(r)'
          /\ PruneCovers(r)'
          /\ WritersProgress(r)'
          /\ AnsweredIsComplete(r)'
          /\ GoneIsEmpty(r)'
      BY <1>0, <3>0, <2>5, <1>25 DEF Deliver, ExpiredIsSettled, Settled,
         UnbornLeftNothing, Born, Types, PruneCovers, RemovalIsDue, InFlight,
         Buckets, Prefix, Keys, WritersProgress, StoredBy, Rendered,
         AnsweredIsComplete, Answered, Complete, WorkShape, GoneIsEmpty,
         TypeOK, PunctualInv
    <3>7. QED
      BY <3>1, <3>2 DEF PunctualInv
  <2>6. QED
    BY <2>1, <2>2, <2>3, <2>4, <2>5, OneRun
<1>26. ASSUME Tick PROVE IInv'
  <2>1. TypeOK' /\ WorkShape'
    BY <1>0, <1>26 DEF Tick, Decision, TypeOK, WorkShape
  <2>2. ASSUME NEW r \in Runs PROVE AnyInv(r)'
    BY <1>0, <1>26 DEF Tick, Selected, Decision, Idle, AnyInv, RemovalIsDue,
       InFlight, FindingsHaveCause
  <2>3. ASSUME ~LateJobs, NEW r \in Runs PROVE PunctualInv(r)'
    BY <1>0, <1>26, <2>3 DEF Tick, PunctualInv, UnbornLeftNothing, Born,
       ExpiredIsSettled, Settled, PruneCovers, WritersProgress,
       AnsweredIsComplete, Answered, Complete, GoneIsEmpty
  <2>4. QED
    BY <2>1, <2>2, <2>3 DEF IInv
<1>27. ASSUME SweepEvict PROVE IInv'
  <2>1. TypeOK' /\ WorkShape'
    BY <1>0, <1>27 DEF SweepEvict, Fault, TypeOK, WorkShape
  <2>2. ASSUME NEW r \in Runs PROVE AnyInv(r)'
    BY <1>0, <1>27 DEF SweepEvict, AnyInv, RemovalIsDue, InFlight, FindingsHaveCause
  <2>3. ASSUME ~LateJobs, NEW r \in Runs PROVE PunctualInv(r)'
    BY <1>0, <1>27, <2>3 DEF SweepEvict, PunctualInv, UnbornLeftNothing, Born,
       ExpiredIsSettled, Settled, PruneCovers, WritersProgress,
       AnsweredIsComplete, Answered, Complete, GoneIsEmpty
  <2>4. QED
    BY <2>1, <2>2, <2>3 DEF IInv
<1>28. ASSUME UNCHANGED vars PROVE IInv'
  <2>1. TypeOK' /\ WorkShape' /\ \A r \in Runs : Same(r)
    BY <1>0, <1>28 DEF vars, TypeOK, WorkShape, Same
  <2>2. QED
    BY <1>0, <2>1, SameInv DEF IInv
<1>29. QED
  BY <1>1, <1>2, <1>3, <1>4, <1>5, <1>6, <1>7, <1>8, <1>9, <1>10, <1>11, <1>12,
     <1>13, <1>14, <1>15, <1>16, <1>17, <1>18, <1>19, <1>20, <1>21, <1>22, <1>23,
     <1>24, <1>25, <1>26, <1>27, <1>28 DEF Next, Rest, PostStep, R2Step,
     SweepStep, ConsumerStep

-----------------------------------------------------------------------------
(* The inductive invariant holds in every reachable state, for any number  *)
(* of runs and of overlapping consumers, with late jobs or without.        *)
THEOREM Invariance == Spec => []IInv
<1>1. Init => IInv
  BY InitIInv
<1>2. IInv /\ [Next]_vars => IInv'
  BY NextIInv
<1>3. QED
  BY <1>1, <1>2, PTL DEF Spec

(* The variables of the pipeline have their types.                         *)
THEOREM TypeCorrect == Spec => []TypeOK
<1>1. IInv => TypeOK
  BY DEF IInv
<1>2. QED
  BY <1>1, Invariance, PTL

(* Findings never outlive the row they reference, whatever producers send: *)
(* writeRunToD1 and pruneRun touch both tables in an order that keeps it.  *)
THEOREM FindingsAreReferenced == Spec => []FindingsHaveRow
<1>1. IInv => FindingsHaveRow
  BY DEF IInv, AnyInv, FindingsHaveCause, FindingsHaveRow
<1>2. QED
  BY <1>1, Invariance, PTL

(* If no producer sends a job for an expired run, what was answered with   *)
(* 201 or acknowledged is complete in all stores until it expires.         *)
THEOREM CompletenessIsKept == ~LateJobs => (Spec => []CompleteUntilExpiry)
<1> SUFFICES ASSUME ~LateJobs PROVE Spec => []CompleteUntilExpiry
  OBVIOUS
<1>1. IInv => CompleteUntilExpiry
  BY DEF IInv, PunctualInv, AnsweredIsComplete, CompleteUntilExpiry
<1>2. QED
  BY <1>1, Invariance, PTL

(* Under the same assumption no audited run loses its row before its       *)
(* objects and findings: a pruning that fails half way is found again.     *)
THEOREM PruningLeavesNoOrphans == ~LateJobs => (Spec => []NoOrphans)
<1> SUFFICES ASSUME ~LateJobs PROVE Spec => []NoOrphans
  OBVIOUS
<1>1. IInv => NoOrphans
  <2> SUFFICES ASSUME IInv, NEW r \in Runs, Answered(r), row[r] = "none"
               PROVE  ~findings[r] /\ objects[r] = {}
    BY DEF NoOrphans
  <2>1. ~findings[r]
    BY DEF IInv, AnyInv, FindingsHaveCause
  <2>2. age[r] = "expired"
    BY DEF IInv, PunctualInv, AnsweredIsComplete, Complete
  <2>3. QED
    BY <2>1, <2>2 DEF IInv, PunctualInv, GoneIsEmpty
<1>2. QED
  BY <1>1, Invariance, PTL

(* No step removes a row, findings or an object of a run that is not       *)
(* expired or while the policy does not prune, whatever producers send.    *)
THEOREM RemovalOnlyWhenDue == Spec => OnlyExpiredIsRemoved
<1> DEFINE Removal(r) ==
      \/ row'[r] = "none" /\ row[r] # "none"
      \/ ~findings'[r] /\ findings[r]
      \/ ~(objects[r] \subseteq objects'[r])
<1> USE DEF rowVars, queueVars, sweepVars
<1>1. ASSUME IInv, [Next]_vars, NEW r \in Runs, Removal(r)
      PROVE  age[r] = "expired" /\ PruneExpired
  <2>1. plan[r] = "prune" \/ pruning = r \/ InFlight(r)
    <3>0. TypeOK
      BY <1>1 DEF IInv
    <3>1. ASSUME NEW q \in Runs,
                 \/ PostBegin(q) \/ PostStep(q) \/ PostFail(q) \/ SendAudit(q)
                 \/ SendReport(q) \/ GrowOld(q) \/ Archive(q) \/ PruneBegin(q)
                 \/ \E b \in Buckets : List(q, b)
          PROVE  FALSE
      <4>1. (row[r] # "none" => row'[r] # "none") /\ (findings[r] => findings'[r])
        <5>1. \/ UpsertRow(q) \/ InsertFindings(q) \/ ArchiveRow(q)
              \/ UNCHANGED <<row, findings>>
          BY <3>1 DEF PostBegin, PostStep, PostRaw, PostBundle,
             PostUpsert, PostInsert, PostFail, SendAudit, SendReport,
             GrowOld, Archive, PruneBegin, List
        <5>2. QED
          BY <3>0, <5>1, RowsKept
      <4>2. objects[r] \subseteq objects'[r]
        <5>1. UNCHANGED objects \/ \E K \in SUBSET Keys : Store(q, K)
          BY <3>1 DEF PostBegin, PostStep, PostRaw, PostBundle,
             PostUpsert, PostInsert, PostFail, SendAudit, SendReport,
             GrowOld, Archive, PruneBegin, List, Keys, Rendered
        <5>2. QED
          BY <3>0, <5>1, ObjectsKept
      <4>3. QED
        BY <1>1, <4>1, <4>2
    <3>2. ASSUME NEW q \in Runs, NEW c \in Consumers,
                 \/ ConsumerStep(c, q) \/ ConsumerFail(c, q)
                 \/ \E t \in Types : Drop(q, t) \/ Deliver(c, q, t)
          PROVE  FALSE
      BY <1>1, <3>0, <3>2, SMTT(30) DEF ConsumerStep, Fetch, Get, Put, PutReport,
         Upsert, Insert, ConsumerFail, Drop, Deliver, Store, UpsertRow,
         InsertFindings, TypeOK
    <3>3. ASSUME NEW q \in Runs,
                 \/ \E k \in Keys : Delete(q, k)
                 \/ PruneRows(q) \/ SweepD1Fail(q) \/ SweepR2Fail(q)
          PROVE  plan[r] = "prune" \/ pruning = r \/ InFlight(r)
      <4>1. CASE \E k \in Keys : Delete(q, k)
        BY <1>1, <3>0, <4>1 DEF Delete, InFlight
      <4>2. CASE PruneRows(q)
        BY <1>1, <3>0, <4>2 DEF PruneRows, DeleteRows
      <4>3. CASE SweepD1Fail(q)
        BY <1>1, <3>0, <4>3, RowsKept DEF SweepD1Fail, DeleteRows, TypeOK
      <4>4. CASE SweepR2Fail(q)
        BY <1>1, <3>0, <4>4 DEF SweepR2Fail, InFlight, TypeOK
      <4>5. QED
        BY <3>3, <4>1, <4>2, <4>3, <4>4
    <3>4. ASSUME Tick \/ SweepEvict \/ UNCHANGED vars \/ \E q \in Runs, t \in Types : Drop(q, t)
          PROVE  FALSE
      BY <1>1, <3>4 DEF Tick, SweepEvict, vars, Drop
    <3>5. QED
      BY <1>1, <3>1, <3>2, <3>3, <3>4 DEF Next, R2Step, SweepStep, Rest
  <2>2. QED
    BY <1>1, <2>1 DEF IInv, AnyInv, RemovalIsDue
<1>2. IInv /\ [Next]_vars =>
        \A r \in Runs : Removal(r) => age[r] = "expired" /\ PruneExpired
  BY <1>1
<1>3. QED
  BY <1>2, Invariance, PTL DEF Spec, OnlyExpiredIsRemoved
-----------------------------------------------------------------------------
(* RetentionCalendar: where the classes of age of AuditPipeline come from, *)
(* and how far the sweep's days may miss the date an upload noted.         *)
CONSTANTS None, RetentionDays, ArchiveAfterDays, Uploads, MaxTime
VARIABLES now, created, status
R == INSTANCE RetentionCalendar

(* The first day of each of two years' months. *)
Starts == <<0, 31, 59, 90, 120, 151, 181, 212, 243, 273, 304, 334, 365,
            396, 424, 455, 485, 516, 546, 577, 608, 638, 669, 699, 730>>

(* The recursive FirstOfMonth is the table, by induction over the months.  *)
LEMMA FirstDays == \A m \in 0 .. 24 : R!FirstOfMonth[m] = Starts[m + 1]
<1> DEFINE g == [m \in 0 .. 24 |-> Starts[m + 1]]
           Calendar(f) == f = [m \in 0 .. 24 |->
              IF m = 0 THEN 0 ELSE f[m - 1] + R!MonthDays[((m - 1) % 12) + 1]]
<1>0. \A m \in 0 .. 24 : m \in {0, 1, 2, 3, 4, 5, 6, 7, 8, 9, 10, 11, 12, 13, 14, 15, 16,
                             17, 18, 19, 20, 21, 22, 23, 24}
  OBVIOUS
<1>1. \A m \in 1 .. 24 : Starts[m + 1] = Starts[m] + R!MonthDays[((m - 1) % 12) + 1]
  BY <1>0 DEF Starts, R!MonthDays
<1>2. Calendar(g)
  <2>1. \A m \in 0 .. 24 : g[m] = IF m = 0 THEN 0 ELSE g[m - 1] + R!MonthDays[((m - 1) % 12) + 1]
    BY <1>1 DEF Starts
  <2> QED
    BY <2>1
<1> DEFINE f == R!FirstOfMonth
<1>3. Calendar(f)
  <2>1. f = CHOOSE h : Calendar(h)
    BY DEF R!FirstOfMonth
  <2> HIDE DEF g, f, Calendar
  <2> QED
    BY <1>2, <2>1
<1> HIDE DEF f
<1> DEFINE Right(m) == f[m] = Starts[m + 1]
<1>4. Right(0)
  BY <1>3 DEF Starts
<1>5. \A m \in 0 .. 23 : Right(m) => Right(m + 1)
  <2> SUFFICES ASSUME NEW m \in 0 .. 23, Right(m) PROVE Right(m + 1)
    OBVIOUS
  <2>1. m + 1 \in 1 .. 24 /\ (m + 1) - 1 = m /\ m + 1 # 0
    OBVIOUS
  <2>2. f[m + 1] = f[m] + R!MonthDays[(m % 12) + 1]
    BY <1>3, <2>1
  <2>3. Starts[m + 2] = Starts[m + 1] + R!MonthDays[(m % 12) + 1]
    BY <1>1, <2>1
  <2> QED
    BY <2>2, <2>3
<1> HIDE DEF Right
<1>6. Right(1) /\ Right(2) /\ Right(3) /\ Right(4) /\ Right(5) /\ Right(6)
  BY <1>4, <1>5
<1>7. Right(7) /\ Right(8) /\ Right(9) /\ Right(10) /\ Right(11) /\ Right(12)
  BY <1>5, <1>6
<1>8. Right(13) /\ Right(14) /\ Right(15) /\ Right(16) /\ Right(17) /\ Right(18)
  BY <1>5, <1>7
<1>9. Right(19) /\ Right(20) /\ Right(21) /\ Right(22) /\ Right(23) /\ Right(24)
  BY <1>5, <1>8
<1>10. \A m \in 0 .. 24 : Right(m)
  BY <1>0, <1>4, <1>6, <1>7, <1>8, <1>9
<1> QED
  BY <1>10 DEF Right, f

(* Six months from a day of the first year are 181 to 184 days.            *)
LEMMA HalfYear ==
    ASSUME NEW time \in 0 .. 729
    PROVE  /\ R!RetainUntil(time) \in Int
           /\ R!RetainUntil(time) >= (time \div 2) + 181
           /\ R!RetainUntil(time) <= (time \div 2) + 184
<1> DEFINE day == time \div 2
           m == R!MonthOf(day)
           F(i) == Starts[i + 1]
<1>1. day \in 0 .. 364
  OBVIOUS
<1>2. \A i \in 0 .. 24 : R!FirstOfMonth[i] = F(i)
  BY FirstDays
<1>3. \E i \in 0 .. 11 : F(i) <= day /\ day < F(i + 1)
  BY <1>1 DEF Starts
<1>4. m \in 0 .. 23 /\ F(m) <= day /\ day < F(m + 1)
  <2>1. \E i \in 0 .. 23 : R!FirstOfMonth[i] <= day /\ day < R!FirstOfMonth[i + 1]
    BY <1>2, <1>3
  <2>2. m \in 0 .. 23 /\ R!FirstOfMonth[m] <= day /\ day < R!FirstOfMonth[m + 1]
    BY <2>1 DEF R!MonthOf
  <2> HIDE DEF m, day
  <2> QED
    BY <1>2, <2>2
<1> HIDE DEF m, day
<1>5. m \in {0, 1, 2, 3, 4, 5, 6, 7, 8, 9, 10, 11}
  <2>1. \A i \in 12 .. 23 : ~(F(i) <= 364)
    <3> SUFFICES ASSUME NEW i \in 12 .. 23 PROVE ~(F(i) <= 364)
      OBVIOUS
    <3>1. i \in {12, 13, 14, 15, 16, 17, 18, 19, 20, 21, 22, 23}
      OBVIOUS
    <3> QED
      BY <3>1 DEF Starts
  <2>2. F(m) <= 364
    BY <1>1, <1>4 DEF Starts
  <2>3. m \notin 12 .. 23
    <3> HIDE DEF F
    <3> QED
      BY <2>1, <2>2
  <2> QED
    BY <1>4, <2>3
<1>6. R!RetainUntil(time) = F(m + 6) + (day - F(m))
  BY <1>2, <1>4, <1>5 DEF R!RetainUntil, m, day
<1>7. F(m + 6) - F(m) \in 181 .. 184
  BY <1>5 DEF Starts
<1> QED
  BY <1>1, <1>4, <1>6, <1>7 DEF day, Starts

(* A run that is gone was as old as the policy asks, whatever that is.      *)
LEMMA GoneIsOld ==
    ASSUME Uploads \subseteq 0 .. 729, MaxTime \in Nat, RetentionDays \in Int \cup {None}
    PROVE  R!Spec => []( /\ created \in 0 .. 729 /\ now \in Nat
                         /\ status = "gone" => now - created >= 2 * R!Retention )
<1> DEFINE Kept == /\ created \in 0 .. 729 /\ now \in Nat
                   /\ status = "gone" => now - created >= 2 * R!Retention
<1>1. R!Retention \in Int /\ R!Retention >= 180
  BY DEF R!Retention, R!Greatest, R!MIN_RETENTION_DAYS
<1>2. R!Init => Kept
  BY DEF R!Init
<1>3. Kept /\ [R!Next]_(R!vars) => Kept'
  <2> SUFFICES ASSUME Kept, [R!Next]_(R!vars) PROVE Kept'
    OBVIOUS
  <2>0. R!Retention' = R!Retention
    BY DEF R!Retention
  <2>1. CASE R!Tick
    BY <1>1, <2>0, <2>1 DEF R!Tick
  <2>2. CASE R!ApplyRetention
    <3>1. ASSUME R!Action = "prune" PROVE now - created >= 2 * R!Retention
      BY <1>1, <3>1 DEF R!Action, R!AgeDays, R!Greatest
    <3>2. status' = "gone" => R!Action = "prune"
      BY <2>2 DEF R!ApplyRetention, R!Selected, R!Action
    <3>3. QED
      BY <2>0, <2>2, <3>1, <3>2 DEF R!ApplyRetention
  <2>3. CASE UNCHANGED R!vars
    BY <2>0, <2>3 DEF R!vars
  <2>4. QED
    BY <2>1, <2>2, <2>3 DEF R!Next
<1>4. QED
  BY <1>2, <1>3, PTL DEF R!Spec

(* What the sweep keeps of the date retentionDate noted (index.ts:1087): a *)
(* pruned run is 180 days old at least and at most four days short of its  *)
(* six months, whatever RETENTION_POLICY says.                             *)
THEOREM PrunedNearItsDate ==
    ASSUME Uploads \subseteq 0 .. 729, MaxTime \in Nat, RetentionDays \in Int \cup {None}
    PROVE  R!Spec => [](status = "gone" =>
                          /\ now - created >= 2 * R!MIN_RETENTION_DAYS
                          /\ (now \div 2) + 4 >= R!RetainUntil(created))
<1> DEFINE Kept == /\ created \in 0 .. 729 /\ now \in Nat
                   /\ status = "gone" => now - created >= 2 * R!Retention
           Goal == status = "gone" => /\ now - created >= 2 * R!MIN_RETENTION_DAYS
                                      /\ (now \div 2) + 4 >= R!RetainUntil(created)
<1>1. R!Retention \in Int /\ R!Retention >= R!MIN_RETENTION_DAYS
  BY DEF R!Retention, R!Greatest, R!MIN_RETENTION_DAYS
<1>2. Kept => Goal
  <2> SUFFICES ASSUME Kept, status = "gone" PROVE Goal
    OBVIOUS
  <2>1. R!RetainUntil(created) \in Int /\ R!RetainUntil(created) <= (created \div 2) + 184
    BY HalfYear, ZenonT(40)
  <2>2. now - created >= 2 * R!MIN_RETENTION_DAYS
    BY <1>1 DEF R!MIN_RETENTION_DAYS
  <2>3. (now \div 2) >= (created \div 2) + 180
    BY <2>2 DEF R!MIN_RETENTION_DAYS
  <2>4. QED
    BY <2>1, <2>2, <2>3
<1>3. R!Spec => []Kept
  BY GoneIsOld
<1>4. QED
  BY <1>2, <1>3, PTL

(* The date of every upload is kept by a policy of 184 days, and run       *)
(* retained_until shows it is not by the default of 180 days.              *)
THEOREM LongPolicyKeepsTheDate ==
    ASSUME Uploads \subseteq 0 .. 729, MaxTime \in Nat,
           RetentionDays \in Int, RetentionDays # None, RetentionDays >= 184
    PROVE  R!Spec => []R!RetainedUntil
<1> DEFINE Kept == /\ created \in 0 .. 729 /\ now \in Nat
                   /\ status = "gone" => now - created >= 2 * R!Retention
<1>1. R!Retention \in Int /\ R!Retention >= 184
  BY DEF R!Retention, R!Greatest, R!MIN_RETENTION_DAYS
<1>2. Kept => R!RetainedUntil
  <2> SUFFICES ASSUME Kept, status = "gone" PROVE (now \div 2) >= R!RetainUntil(created)
    BY DEF R!RetainedUntil
  <2>1. R!RetainUntil(created) \in Int /\ R!RetainUntil(created) <= (created \div 2) + 184
    BY HalfYear, ZenonT(40)
  <2>2. (now \div 2) >= (created \div 2) + 184
    BY <1>1
  <2>3. QED
    BY <2>1, <2>2
<1>3. R!Spec => []Kept
  BY GoneIsOld
<1>4. QED
  BY <1>2, <1>3, PTL
=============================================================================
