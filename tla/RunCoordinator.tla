--------------------------- MODULE RunCoordinator ---------------------------
(***************************************************************************)
(* The AuditRunCoordinator Durable Object of one run: it is initialised,   *)
(* told of every finished chunk, and finalised.  Requests are delivered at *)
(* least once and in any order, also again after they were answered.  The  *)
(* object's input gate holds the next request back while a handler waits   *)
(* for its storage, so a handler is one step, unless the object is evicted *)
(* between two of its writes.  A request before init is answered 404,      *)
(* changes nothing and is sent again: it is no step of the model.          *)
(***************************************************************************)
EXTENDS Integers, FiniteSets

CONSTANTS
    Chunks,          \* chunk indexes
    None,            \* nothing stored; a chunk_index left out
    MaxUnindexed,    \* bound on reports without an index
    MaxEvictions     \* bound on evictions between two puts

ASSUME CoordinatorAssumption ==
    /\ IsFiniteSet(Chunks) /\ None \notin Chunks
    /\ None \notin [status : {"running", "completed"}, chunks_complete : Nat]
    /\ MaxUnindexed \in Nat /\ MaxEvictions \in Nat

VARIABLES
    run,           \* the stored RunState, or None
    chunks_done,   \* the stored set of indexes
    answered,      \* the chunks whose report was answered with 200
    reported,      \* history: the chunks of all reports that reached the run
    unindexed,     \* history: how many reports had no index
    evicted        \* history: how many reports were cut off between the puts

vars == <<run, chunks_done, answered, reported, unindexed, evicted>>

Init ==
    /\ run = None /\ chunks_done = {} /\ answered = {}
    /\ reported = {} /\ unindexed = 0 /\ evicted = 0

(* 409 when the run exists already: nothing changes.                       *)
HandleInit ==
    /\ run = None
    /\ run' = [status |-> "running", chunks_complete |-> 0]
    /\ UNCHANGED <<chunks_done, answered, reported, unindexed, evicted>>

(* The index of a report, if it has one.                                   *)
Index(c) == {c} \ {None}

FirstSighting(c) == c = None \/ c \notin chunks_done

Counted(c) == [run EXCEPT !.chunks_complete = IF FirstSighting(c) THEN @ + 1 ELSE @]

(* Mutant of Marked: the index is remembered by running runs only. *)
MarkedWhileRunning(c) ==
    IF run.status = "running" THEN chunks_done \cup Index(c) ELSE chunks_done

(* Mutant of Marked: the set is started anew by every report. *)
MarkedAlone(c) == Index(c)

Marked(c) == chunks_done \cup Index(c)

(* A report is handled; its answer may get lost.                           *)
HandleChunkComplete(c) ==
    /\ run # None
    /\ c = None => unindexed < MaxUnindexed
    /\ run' = Counted(c) /\ chunks_done' = Marked(c)
    /\ reported' = reported \cup Index(c)
    /\ unindexed' = IF c = None THEN unindexed + 1 ELSE unindexed
    /\ answered' \in {answered, answered \cup Index(c)}
    /\ UNCHANGED evicted

(* The object is evicted between the puts of chunks_done and of run.       *)
EvictedChunkComplete(c) ==
    /\ run # None /\ FirstSighting(c) /\ evicted < MaxEvictions
    /\ chunks_done' = Marked(c) /\ reported' = reported \cup {c}
    /\ evicted' = evicted + 1
    /\ UNCHANGED <<run, answered, unindexed>>

(* Mutant of Finalized: the new status is not stored. *)
FinalizedUnsaved == run

Finalized == [run EXCEPT !.status = "completed"]

HandleFinalize ==
    /\ run # None /\ run' = Finalized
    /\ UNCHANGED <<chunks_done, answered, reported, unindexed, evicted>>

Next ==
    \/ HandleInit \/ HandleFinalize
    \/ \E c \in Chunks \cup {None} : HandleChunkComplete(c)
    \/ \E c \in Chunks : EvictedChunkComplete(c)

(* Whoever sends a request sends it until it is answered.                  *)
Fairness ==
    /\ WF_vars(HandleInit) /\ WF_vars(HandleFinalize)
    /\ \A c \in Chunks : WF_vars(HandleChunkComplete(c) /\ c \in answered')

Spec == Init /\ [][Next]_vars /\ Fairness

-----------------------------------------------------------------------------
(* Properties.                                                             *)
TypeOK ==
    /\ run = None \/ run \in [status : {"running", "completed"}, chunks_complete : Nat]
    /\ chunks_done \subseteq Chunks /\ reported \subseteq Chunks /\ answered \subseteq Chunks
    /\ unindexed \in 0 .. MaxUnindexed /\ evicted \in 0 .. MaxEvictions

(* A chunk that is named counts once, however often and however late it is *)
(* reported; a report that names none counts each time it is delivered.    *)
(* The count is short by the evictions between the two puts, and never     *)
(* over.                                                                   *)
Accounted ==
    run # None => run.chunks_complete = Cardinality(reported) + unindexed - evicted

(* An answered report is remembered: its redelivery cannot be a first      *)
(* sighting.                                                               *)
AnsweredIsMarked == answered \subseteq chunks_done /\ (run = None => answered = {})

(* The inductive invariant: besides, every report that reached the run is  *)
(* marked, and none reaches a run that was not initialised.                *)
IInv ==
    /\ TypeOK /\ Accounted /\ AnsweredIsMarked
    /\ reported = chunks_done
    /\ run = None => reported = {} /\ unindexed = 0 /\ evicted = 0

(* A completed run stays completed, a late report included, and the count  *)
(* never falls.                                                            *)
FinalStands ==
    [][run # None => /\ run' # None /\ run'.chunks_complete >= run.chunks_complete
                     /\ run.status = "completed" => run'.status = "completed"]_vars

(* Every chunk is marked and the run completed in the end.                 *)
DoneInTheEnd == <>(chunks_done = Chunks /\ run # None /\ run.status = "completed")

(* "count distinct chunk indexes" (AuditRunCoordinator.ts:86): once every  *)
(* chunk is reported and answered, the count stays the number of chunks.   *)
CountedInTheEnd == <>[](run # None /\ run.chunks_complete >= Cardinality(Chunks))
=============================================================================
