----------------------------- MODULE Approvals -----------------------------
(***************************************************************************)
(* The approval routes of the Worker (packages/worker/src/index.ts):       *)
(*   POST /approvals, POST /approvals/:id/decision, POST /approvals/batch  *)
(* A decision is one conditional UPDATE ... RETURNING; when it matches no  *)
(* row a SELECT tells "not found" from "already decided".  A batch runs    *)
(* these two statements for its items one after the other, a single        *)
(* decision is a batch of one.  Statements of different requests           *)
(* interleave, any of them may throw, applied or not, and the isolate may  *)
(* be evicted between two.                                                 *)
(***************************************************************************)
EXTENDS Naturals, Sequences

CONSTANTS
    Ids,          \* approval ids to be drawn by crypto.randomUUID
    UnknownId,    \* an id no approval ever has
    Tenants,
    Requests,     \* one HTTP request each
    NoTenant,     \* the tenant of an id that has no row
    Nobody,       \* the decider of an undecided approval
    MaxItems      \* bound on the items of a batch (100 in the code)

ASSUME ApprovalsAssumption ==
    /\ UnknownId \notin Ids
    /\ NoTenant \notin Tenants
    /\ Nobody \notin Requests
    /\ MaxItems \in Nat \ {0}

VARIABLES
    tenantOf,     \* approvals.tenant_id: id -> tenant
    status,       \* approvals.status: id -> "none" where there is no row
    decider,      \* id -> the request that decided it (history)
    tenant,       \* request -> its authenticated tenant
    items,        \* request -> the decisions asked for
    results,      \* request -> outcomes of the items handled so far
    pc            \* request -> the statement it awaits, or how it ended

rows == <<tenantOf, status, decider>>
vars == <<tenantOf, status, decider, tenant, items, results, pc>>

Decisions == {"approved", "denied"}
Outcomes == {"decided", "invalid", "not_found", "conflict"}
Items == [id : Ids \cup {UnknownId}, decision : Decisions \cup {"invalid"}]

Init ==
    /\ tenantOf = [a \in Ids |-> NoTenant]
    /\ status = [a \in Ids |-> "none"]
    /\ decider = [a \in Ids |-> Nobody]
    /\ tenant = [r \in Requests |-> NoTenant]
    /\ items = [r \in Requests |-> << >>]
    /\ results = [r \in Requests |-> << >>]
    /\ pc = [r \in Requests |-> "idle"]

Goto(r, l) == pc' = [pc EXCEPT ![r] = l]

(* An id is known outside the Worker only once its row is in D1.           *)
Nameable(i) == i.id \in Ids => status[i.id] # "none"

Arrive(r) ==
    /\ pc[r] = "idle"
    /\ \E t \in Tenants : tenant' = [tenant EXCEPT ![r] = t]
    /\ \/ Goto(r, "insert") /\ UNCHANGED items
       \/ \E n \in 1..MaxItems : \E s \in [1..n -> Items] :
            /\ \A k \in 1..n : Nameable(s[k])
            /\ items' = [items EXCEPT ![r] = s]
            /\ Goto(r, "decide")
    /\ UNCHANGED <<tenantOf, status, decider, results>>

-----------------------------------------------------------------------------
(* The row a create writes: pending, under an id nobody has. *)
AddRow(r, a) ==
    /\ status[a] = "none"
    /\ status' = [status EXCEPT ![a] = "pending"]
    /\ tenantOf' = [tenantOf EXCEPT ![a] = tenant[r]]
    /\ UNCHANGED decider

(* handleCreateApproval: one atomic D1 batch. *)
Insert(r) ==
    /\ pc[r] = "insert"
    /\ \E a \in Ids : AddRow(r, a)
    /\ Goto(r, "done")
    /\ UNCHANGED <<tenant, items, results>>

-----------------------------------------------------------------------------
Item(r) == items[r][Len(results[r]) + 1]

(* The outcome of the current item; after the last one the answer is sent. *)
Record(r, outcome) ==
    /\ results' = [results EXCEPT ![r] = Append(@, outcome)]
    /\ Goto(r, IF Len(results[r]) + 1 = Len(items[r]) THEN "done" ELSE "decide")

(* Mutant of Matches: the UPDATE has no condition on the status. *)
MatchesDecided(r, i) ==
    i.id \in Ids /\ status[i.id] # "none" /\ tenantOf[i.id] = tenant[r]

(* WHERE tenant_id = ? AND id = ? AND status = 'pending' *)
Matches(r, i) ==
    i.id \in Ids /\ status[i.id] = "pending" /\ tenantOf[i.id] = tenant[r]

SetDecision(r, i) ==
    /\ status' = [status EXCEPT ![i.id] = i.decision]
    /\ decider' = [decider EXCEPT ![i.id] = r]
    /\ UNCHANGED tenantOf

RejectItem(r) ==
    /\ pc[r] = "decide"
    /\ Item(r).decision = "invalid"
    /\ Record(r, "invalid")
    /\ UNCHANGED <<tenantOf, status, decider, tenant, items>>

(* transitionApproval *)
Transition(r) ==
    /\ pc[r] = "decide"
    /\ Item(r).decision # "invalid"
    /\ \/ Matches(r, Item(r)) /\ SetDecision(r, Item(r)) /\ Record(r, "decided")
       \/ ~Matches(r, Item(r)) /\ Goto(r, "explain") /\ UNCHANGED <<rows, results>>
    /\ UNCHANGED <<tenant, items>>

(* Mutant of Exists: the SELECT has no condition on the tenant. *)
ExistsAnyTenant(r, i) == i.id \in Ids /\ status[i.id] # "none"

(* WHERE tenant_id = ? AND id = ? *)
Exists(r, i) == i.id \in Ids /\ tenantOf[i.id] = tenant[r]

(* approvalDecisionFailure *)
Explain(r) ==
    /\ pc[r] = "explain"
    /\ Record(r, IF Exists(r, Item(r)) THEN "conflict" ELSE "not_found")
    /\ UNCHANGED <<tenantOf, status, decider, tenant, items>>

-----------------------------------------------------------------------------
(* A statement throws, applied or not: the request is answered 5xx and the *)
(* outcomes of its earlier items are dropped with it.                      *)
Throw(r) ==
    /\ pc[r] \in {"insert", "decide", "explain"}
    /\ pc[r] = "decide" => Item(r).decision # "invalid"
    /\ \/ UNCHANGED rows
       \/ pc[r] = "insert" /\ \E a \in Ids : AddRow(r, a)
       \/ pc[r] = "decide" /\ Matches(r, Item(r)) /\ SetDecision(r, Item(r))
    /\ Goto(r, "error")
    /\ UNCHANGED <<tenant, items, results>>

(* The isolate is evicted: no answer at all. *)
Evict(r) ==
    /\ pc[r] \in {"insert", "decide", "explain"}
    /\ Goto(r, "dead")
    /\ UNCHANGED <<tenantOf, status, decider, tenant, items, results>>

(* Every request has ended; the bound on requests stops the model here. *)
Quiescent ==
    /\ \A r \in Requests : pc[r] \in {"done", "error", "dead"}
    /\ UNCHANGED vars

Handle(r) == Insert(r) \/ RejectItem(r) \/ Transition(r) \/ Explain(r)

Next ==
    \/ \E r \in Requests : Arrive(r) \/ Handle(r) \/ Throw(r) \/ Evict(r)
    \/ Quiescent

Spec == Init /\ [][Next]_vars

-----------------------------------------------------------------------------
(* Every variable holds a value of its kind; a request has recorded an     *)
(* outcome for the items it is past and still has one to handle.           *)
TypeOK ==
    /\ tenantOf \in [Ids -> Tenants \cup {NoTenant}]
    /\ status \in [Ids -> Decisions \cup {"none", "pending"}]
    /\ decider \in [Ids -> Requests \cup {Nobody}]
    /\ tenant \in [Requests -> Tenants \cup {NoTenant}]
    /\ items \in [Requests -> Seq(Items)]
    /\ results \in [Requests -> Seq(Outcomes)]
    /\ pc \in [Requests -> {"idle", "insert", "decide", "explain",
                            "done", "error", "dead"}]
    /\ \A r \in Requests :
         /\ Len(results[r]) <= Len(items[r])
         /\ pc[r] \in {"decide", "explain"} =>
              Len(results[r]) < Len(items[r]) /\ tenant[r] \in Tenants
         /\ pc[r] = "insert" => tenant[r] \in Tenants

Decided(r, k) == k \in 1..Len(results[r]) /\ results[r][k] = "decided"

(* A decision that was reported stands: the approval has that status, and  *)
(* no other item of this or another request, however the statements        *)
(* interleave or fail, is told that it decided the same approval.          *)
ReportedDecisionStands ==
    \A r \in Requests : \A k \in 1..Len(results[r]) : Decided(r, k) =>
        /\ status[items[r][k].id] = items[r][k].decision
        /\ decider[items[r][k].id] = r
        /\ \A q \in Requests : \A l \in 1..Len(results[q]) :
             Decided(q, l) /\ items[q][l].id = items[r][k].id => q = r /\ l = k

(* 409 is only told of an approval of the caller's tenant that is decided, *)
(* although it is derived from a second statement that runs later and does *)
(* not look at the status; 404 is never told of the caller's own approval. *)
RefusalsAreTrue ==
    \A r \in Requests : \A k \in 1..Len(results[r]) :
        LET a == items[r][k].id IN
        /\ results[r][k] = "conflict" =>
             a \in Ids /\ status[a] \in Decisions /\ tenantOf[a] = tenant[r]
        /\ results[r][k] = "not_found" =>
             a = UnknownId \/ tenantOf[a] # tenant[r]

(* Whoever decided an approval acted for the tenant that owns it. *)
DecidedByOwnTenant ==
    \A a \in Ids : decider[a] # Nobody =>
        status[a] \in Decisions /\ tenant[decider[a]] = tenantOf[a]

(* pending -> decided happens once, and a row never changes its tenant. *)
DecisionsAreFinal ==
    [][\A a \in Ids :
         /\ status[a] \in Decisions =>
              status'[a] = status[a] /\ decider'[a] = decider[a]
         /\ status[a] # "none" =>
              status'[a] # "none" /\ tenantOf'[a] = tenantOf[a]]_vars

-----------------------------------------------------------------------------
(* The handlers implement the ledger: the UPDATE and the SELECT that runs  *)
(* later, with other requests in between, give every item the outcome that *)
(* one atomic decision would have given it, and a request that fails has   *)
(* had at most the effect of the statement it failed at.                   *)
PhaseOf(l) ==
    CASE l = "idle" -> "new"
      [] l \in {"insert", "decide", "explain"} -> "open"
      [] l \in {"done", "error", "dead"} -> "over"

Phase == [r \in Requests |-> PhaseOf(pc[r])]

Ledger == INSTANCE ApprovalLedger WITH phase <- Phase
LedgerSpec == Ledger!Spec

-----------------------------------------------------------------------------
(* The inductive invariant.                                                *)

(* Only rows have a tenant, and only decided ones a decider. *)
RowShape ==
    \A a \in Ids :
        /\ tenantOf[a] = NoTenant <=> status[a] = "none"
        /\ decider[a] # Nobody <=> status[a] \in Decisions

(* A request decides after it has arrived. *)
DecidersArrived == \A a \in Ids : decider[a] # Nobody => pc[decider[a]] # "idle"

(* The ids a request names have rows, and an item that found none pending  *)
(* waits to be explained.                                                  *)
NamedRows ==
    \A r \in Requests :
        /\ pc[r] = "idle" => items[r] = << >> /\ results[r] = << >>
        /\ \A k \in 1..Len(items[r]) :
             items[r][k].id \in Ids => status[items[r][k].id] # "none"
        /\ pc[r] = "explain" => ~Matches(r, Item(r))

(* What each outcome recorded so far says of its row. *)
OutcomeHolds(r, k) ==
    LET a == items[r][k].id IN
    /\ results[r][k] = "decided" =>
         a \in Ids /\ status[a] = items[r][k].decision /\ decider[a] = r
    /\ results[r][k] = "conflict" =>
         a \in Ids /\ status[a] \in Decisions /\ tenantOf[a] = tenant[r]
    /\ results[r][k] = "not_found" /\ a \in Ids => tenantOf[a] # tenant[r]
OutcomesHold ==
    \A r \in Requests : \A k \in 1..Len(results[r]) : OutcomeHolds(r, k)

(* Of the items of one request that name an approval, at most one decides. *)
DecidedOnceBy ==
    \A r \in Requests : \A k, l \in 1..Len(results[r]) :
        results[r][k] = "decided" /\ results[r][l] = "decided"
          /\ items[r][k].id = items[r][l].id => k = l

IInv ==
    /\ TypeOK
    /\ RowShape
    /\ DecidedByOwnTenant
    /\ DecidersArrived
    /\ NamedRows
    /\ OutcomesHold
    /\ DecidedOnceBy
=============================================================================
