--------------------------- MODULE ApprovalLedger ---------------------------
(***************************************************************************)
(* What the approval routes promise: every item of a request is decided in *)
(* one instant, the row and the outcome together, as if no other request   *)
(* ran.  No second statement, no position between two statements and no    *)
(* cause of a failure appears here; Approvals implements this module with  *)
(* the phase of a request computed from its position.                      *)
(***************************************************************************)
EXTENDS Naturals, Sequences

CONSTANTS
    Ids, UnknownId, Tenants, Requests,
    NoTenant,     \* the tenant of an id that has no row
    Nobody        \* the decider of an undecided approval

VARIABLES
    tenantOf, status, decider,   \* the rows
    tenant, items, results,      \* of a request: its tenant, its items, their outcomes
    phase                        \* request -> "new", "open" or "over"

rows == <<tenantOf, status, decider>>
vars == <<tenantOf, status, decider, tenant, items, results, phase>>

Items == [id : Ids \cup {UnknownId}, decision : {"approved", "denied", "invalid"}]

Init ==
    /\ tenantOf = [a \in Ids |-> NoTenant]
    /\ status = [a \in Ids |-> "none"]
    /\ decider = [a \in Ids |-> Nobody]
    /\ tenant = [r \in Requests |-> NoTenant]
    /\ items = [r \in Requests |-> << >>]
    /\ results = [r \in Requests |-> << >>]
    /\ phase = [r \in Requests |-> "new"]

Becomes(r, p) == phase' = [phase EXCEPT ![r] = p]

(* A request arrives with the items to decide, none when it creates.       *)
Arrive(r) ==
    /\ phase[r] = "new" /\ Becomes(r, "open")
    /\ \E t \in Tenants : tenant' = [tenant EXCEPT ![r] = t]
    /\ items'[r] \in Seq(Items) /\ items' = [items EXCEPT ![r] = items'[r]]
    /\ UNCHANGED <<tenantOf, status, decider, results>>

-----------------------------------------------------------------------------
(* What a row is to a caller, and with it the outcome of an item.          *)
Own(r, a) == a \in Ids /\ tenantOf[a] = tenant[r]

Outcome(r, i) ==
    CASE i.decision = "invalid" -> "invalid"
      [] i.decision # "invalid" /\ ~Own(r, i.id) -> "not_found"
      [] i.decision # "invalid" /\ Own(r, i.id) ->
             IF status[i.id] = "pending" THEN "decided" ELSE "conflict"

(* The rows after an item with that outcome.                               *)
TakesEffect(r, i) ==
    /\ status' = IF Outcome(r, i) = "decided" THEN [status EXCEPT ![i.id] = i.decision] ELSE status
    /\ decider' = IF Outcome(r, i) = "decided" THEN [decider EXCEPT ![i.id] = r] ELSE decider
    /\ UNCHANGED tenantOf

AddRow(r) ==
    \E a \in Ids :
        /\ status[a] = "none"
        /\ status' = [status EXCEPT ![a] = "pending"]
        /\ tenantOf' = [tenantOf EXCEPT ![a] = tenant[r]]
        /\ UNCHANGED decider

Current(r) == items[r][Len(results[r]) + 1]

Create(r) ==
    /\ phase[r] = "open" /\ items[r] = << >>
    /\ AddRow(r) /\ Becomes(r, "over")
    /\ UNCHANGED <<tenant, items, results>>

Decide(r) ==
    /\ phase[r] = "open" /\ Len(results[r]) < Len(items[r])
    /\ TakesEffect(r, Current(r))
    /\ results' = [results EXCEPT ![r] = Append(@, Outcome(r, Current(r)))]
    /\ Becomes(r, IF Len(results[r]) + 1 = Len(items[r]) THEN "over" ELSE "open")
    /\ UNCHANGED <<tenant, items>>

(* A request that fails has done nothing more, or the one thing it was at. *)
Fail(r) ==
    /\ phase[r] = "open" /\ Becomes(r, "over")
    /\ \/ UNCHANGED rows
       \/ items[r] = << >> /\ AddRow(r)
       \/ Len(results[r]) < Len(items[r]) /\ TakesEffect(r, Current(r))
    /\ UNCHANGED <<tenant, items, results>>

Next == \E r \in Requests : Arrive(r) \/ Create(r) \/ Decide(r) \/ Fail(r)

Spec == Init /\ [][Next]_vars
=============================================================================
