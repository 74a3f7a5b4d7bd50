------------------------ MODULE RunCoordinatorProofs ------------------------
(***************************************************************************)
(* The run coordinator counts every report once, for any number of chunks, *)
(* deliveries and evictions.                                               *)
(***************************************************************************)
EXTENDS RunCoordinator, FiniteSetTheorems, TLAPS

USE CoordinatorAssumption

(* A set of chunks is finite, and one more chunk counts one more.          *)
LEMMA OneMore ==
    ASSUME NEW S \in SUBSET Chunks, NEW c \in Chunks
    PROVE  /\ IsFiniteSet(S) /\ Cardinality(S) \in Nat
           /\ Cardinality(S \cup {c}) = IF c \in S THEN Cardinality(S) ELSE Cardinality(S) + 1
<1>1. IsFiniteSet(S) BY FS_Subset
<1>2. Cardinality(S) \in Nat BY <1>1, FS_CardinalityType
<1>3. Cardinality(S \cup {c}) = IF c \in S THEN Cardinality(S) ELSE Cardinality(S) + 1
  BY <1>1, FS_AddElement
<1> QED BY <1>1, <1>2, <1>3

LEMMA InitIInv == Init => IInv
<1> SUFFICES ASSUME Init PROVE IInv OBVIOUS
<1> QED BY DEF Init, IInv, TypeOK, Accounted, AnsweredIsMarked

LEMMA InitKeeps == ASSUME IInv, HandleInit PROVE IInv'
<1>1. Cardinality({}) = 0 BY FS_EmptySet
<1>2. run' = [status |-> "running", chunks_complete |-> 0] /\ run = None BY DEF HandleInit
<1>3. Accounted'
  <2>1. reported' = {} /\ unindexed' = 0 /\ evicted' = 0 /\ run'.chunks_complete = 0
    BY <1>2 DEF IInv, HandleInit
  <2> QED BY <1>1, <2>1 DEF Accounted
<1>4. TypeOK' BY <1>2 DEF IInv, TypeOK, HandleInit
<1>5. AnsweredIsMarked' BY <1>2 DEF IInv, AnsweredIsMarked, HandleInit
<1>7. (reported = chunks_done)' /\ (run = None => reported = {} /\ unindexed = 0 /\ evicted = 0)'
  BY <1>2 DEF IInv, HandleInit
<1> QED BY <1>3, <1>4, <1>5, <1>7 DEF IInv

(* The run stays stored, by every report and by finalising.                *)
LEMMA RunStays ==
    ASSUME IInv, run # None PROVE /\ \A c : Counted(c) \in [status : {"running", "completed"}, chunks_complete : Nat]
                                  /\ Finalized \in [status : {"running", "completed"}, chunks_complete : Nat]
<1>1. run \in [status : {"running", "completed"}, chunks_complete : Nat] BY DEF IInv, TypeOK
<1> QED BY <1>1 DEF Counted, Finalized

LEMMA ReportKeeps ==
    ASSUME IInv, NEW c \in Chunks \cup {None}, HandleChunkComplete(c) PROVE IInv'
<1>1. run # None /\ run' = Counted(c) /\ chunks_done' = Marked(c) /\ reported' = reported \cup Index(c)
  BY DEF HandleChunkComplete
<1>2. run \in [status : {"running", "completed"}, chunks_complete : Nat] BY <1>1 DEF IInv, TypeOK
<1>3. run' \in [status : {"running", "completed"}, chunks_complete : Nat] BY <1>1, RunStays
<1>4. Index(c) \subseteq Chunks BY DEF Index
<1>5. TypeOK' BY <1>1, <1>3, <1>4 DEF IInv, TypeOK, HandleChunkComplete, Marked
<1>6. reported' = chunks_done' BY <1>1 DEF IInv, Marked
<1>7. AnsweredIsMarked'
  <2>1. answered' \subseteq answered \cup Index(c) BY DEF HandleChunkComplete
  <2>2. answered \subseteq chunks_done BY DEF IInv, AnsweredIsMarked
  <2> QED BY <2>1, <2>2, <1>1, <1>3 DEF AnsweredIsMarked, Marked
<1>8. Accounted'
  <2>1. CASE c = None
    <3>1. Index(c) = {} /\ reported' = reported BY <2>1, <1>1 DEF Index
    <3>2. unindexed' = unindexed + 1 /\ evicted' = evicted BY <2>1 DEF HandleChunkComplete
    <3>3. run'.chunks_complete = run.chunks_complete + 1
      BY <2>1, <1>1, <1>2 DEF Counted, FirstSighting
    <3>4. Cardinality(reported) \in Nat BY <2>1, OneMore, FS_Subset, FS_CardinalityType DEF IInv, TypeOK
    <3>5. unindexed \in Nat /\ evicted \in Nat BY DEF IInv, TypeOK
    <3>6. run.chunks_complete = Cardinality(reported) + unindexed - evicted
      BY <1>1 DEF IInv, Accounted
    <3>7. run'.chunks_complete = Cardinality(reported) + unindexed + 1 - evicted
      BY <3>3, <3>4, <3>5, <3>6
    <3>8. Cardinality(reported') = Cardinality(reported) BY <3>1
    <3> QED BY <3>2, <3>4, <3>5, <3>7, <3>8 DEF Accounted
  <2>2. CASE c \in Chunks
    <3>1. Index(c) = {c} /\ c # None BY <2>2 DEF Index
    <3>2. Cardinality(reported) \in Nat
          /\ Cardinality(reported') = IF c \in reported THEN Cardinality(reported) ELSE Cardinality(reported) + 1
      BY <2>2, <3>1, <1>1, OneMore DEF IInv, TypeOK
    <3>3. run'.chunks_complete = IF c \in reported THEN run.chunks_complete ELSE run.chunks_complete + 1
      BY <1>1, <1>2, <3>1 DEF Counted, FirstSighting, IInv
    <3> QED BY <3>1, <3>2, <3>3, <1>1, <1>2 DEF IInv, Accounted, TypeOK, HandleChunkComplete
  <2> QED BY <2>1, <2>2
<1>9. run' # None BY <1>3
<1> QED BY <1>5, <1>6, <1>7, <1>8, <1>9 DEF IInv

(* The chunk is marked but not counted: one eviction more accounts for it. *)
LEMMA EvictionKeeps ==
    ASSUME IInv, NEW c \in Chunks, EvictedChunkComplete(c) PROVE IInv'
<1>1. /\ run # None /\ run' = run /\ answered' = answered /\ unindexed' = unindexed
      /\ evicted' = evicted + 1 /\ evicted < MaxEvictions
      /\ chunks_done' = Marked(c) /\ reported' = reported \cup {c} /\ c \notin chunks_done
  BY DEF EvictedChunkComplete, FirstSighting
<1>2. Index(c) = {c} BY DEF Index
<1>3. TypeOK' BY <1>1, <1>2 DEF IInv, TypeOK, Marked
<1>4. Cardinality(reported) \in Nat /\ Cardinality(reported') = Cardinality(reported) + 1
  BY <1>1, OneMore DEF IInv, TypeOK
<1>5. Accounted' BY <1>1, <1>4 DEF IInv, TypeOK, Accounted
<1>6. AnsweredIsMarked' BY <1>1 DEF IInv, AnsweredIsMarked, Marked
<1>7. reported' = chunks_done' BY <1>1, <1>2 DEF IInv, Marked
<1> QED BY <1>1, <1>3, <1>5, <1>6, <1>7 DEF IInv

LEMMA FinalizeKeeps == ASSUME IInv, HandleFinalize PROVE IInv'
<1>1. run # None /\ run' = Finalized /\ UNCHANGED <<chunks_done, answered, reported, unindexed, evicted>>
  BY DEF HandleFinalize
<1>2. /\ run' \in [status : {"running", "completed"}, chunks_complete : Nat]
      /\ run'.chunks_complete = run.chunks_complete
  BY <1>1, RunStays DEF Finalized, IInv, TypeOK
<1>3. run' # None BY <1>2
<1> QED BY <1>1, <1>2, <1>3 DEF IInv, TypeOK, Accounted, AnsweredIsMarked

(* Every step keeps the inductive invariant.                               *)
THEOREM CoordinatorInvariant == Spec => []IInv
<1>1. IInv /\ [Next]_vars => IInv'
  <2> SUFFICES ASSUME IInv, [Next]_vars PROVE IInv' OBVIOUS
  <2>1. CASE HandleInit BY <2>1, InitKeeps
  <2>2. CASE HandleFinalize BY <2>2, FinalizeKeeps
  <2>3. ASSUME NEW c \in Chunks \cup {None}, HandleChunkComplete(c) PROVE IInv' BY <2>3, ReportKeeps
  <2>4. ASSUME NEW c \in Chunks, EvictedChunkComplete(c) PROVE IInv' BY <2>4, EvictionKeeps
  <2>5. CASE UNCHANGED vars
    BY <2>5 DEF vars, IInv, TypeOK, Accounted, AnsweredIsMarked
  <2> QED BY <2>1, <2>2, <2>3, <2>4, <2>5 DEF Next
<1> QED BY InitIInv, <1>1, PTL DEF Spec

(* The count is exact but for evictions, whatever the order of requests.   *)
THEOREM AccountedThm == Spec => []Accounted
<1>1. IInv => Accounted BY DEF IInv
<1> QED BY <1>1, CoordinatorInvariant, PTL

(* The count never exceeds the distinct chunks and the reports without an  *)
(* index.                                                                  *)
THEOREM NeverOverCounted ==
    Spec => [](run # None => run.chunks_complete <= Cardinality(Chunks) + unindexed)
<1>1. IInv => (run # None => run.chunks_complete <= Cardinality(Chunks) + unindexed)
  <2> SUFFICES ASSUME IInv, run # None PROVE run.chunks_complete <= Cardinality(Chunks) + unindexed
    OBVIOUS
  <2>1. Cardinality(reported) <= Cardinality(Chunks) /\ Cardinality(reported) \in Nat /\ Cardinality(Chunks) \in Nat
    BY FS_Subset, FS_CardinalityType DEF IInv, TypeOK
  <2> QED BY <2>1 DEF IInv, TypeOK, Accounted
<1> QED BY <1>1, CoordinatorInvariant, PTL

(* A chunk whose report was answered is never counted again.               *)
THEOREM AnsweredThm == Spec => []AnsweredIsMarked
<1>1. IInv => AnsweredIsMarked BY DEF IInv
<1> QED BY <1>1, CoordinatorInvariant, PTL

(* Nothing after the finalisation undoes it, and no count falls.           *)
THEOREM FinalStandsThm == Spec => FinalStands
<1> DEFINE Stands ==
             run # None => /\ run' # None /\ run'.chunks_complete >= run.chunks_complete
                           /\ run.status = "completed" => run'.status = "completed"
<1>1. IInv /\ [Next]_vars => [Stands]_vars
  <2> SUFFICES ASSUME IInv, Next, run # None PROVE Stands
    BY DEF IInv
  <2>1. run \in [status : {"running", "completed"}, chunks_complete : Nat] BY DEF IInv, TypeOK
  <2>2. CASE HandleInit BY <2>2 DEF HandleInit
  <2>3. CASE HandleFinalize BY <2>1, <2>3, RunStays DEF HandleFinalize, Finalized
  <2>4. ASSUME NEW c \in Chunks \cup {None}, HandleChunkComplete(c) PROVE Stands
    BY <2>1, <2>4, RunStays DEF HandleChunkComplete, Counted
  <2>5. ASSUME NEW c \in Chunks, EvictedChunkComplete(c) PROVE Stands
    BY <2>1, <2>5 DEF EvictedChunkComplete
  <2> QED BY <2>2, <2>3, <2>4, <2>5 DEF Next
<1> QED BY <1>1, CoordinatorInvariant, PTL DEF Spec, FinalStands
=============================================================================
