--------------------------- MODULE TenantLimiter ---------------------------
(***************************************************************************)
(* The TenantLimiter Durable Object: one fixed window per tenant.  A       *)
(* request is handled in one step, since the object's input gate holds     *)
(* other requests back while it reads and writes its storage.              *)
(***************************************************************************)
EXTENDS Integers, Sequences

CONSTANTS
    Tenants,
    NoWindow,         \* nothing stored
    LIMIT_PER_MINUTE,
    WINDOW_MS         \* in units of the model's clock

ASSUME LimiterAssumption ==
    /\ LIMIT_PER_MINUTE \in Nat /\ WINDOW_MS \in Nat \ {0}
    /\ NoWindow \notin [window_start : Nat, count : Nat]

VARIABLES
    now,      \* Date.now() in every object
    window,   \* the stored window of each tenant, or NoWindow
    granted   \* history: the instants at which each tenant was let through

LimiterInit == window = [t \in Tenants |-> NoWindow] /\ granted = [t \in Tenants |-> <<>>]

(* Mutant of Expired: a window ends an instant early. *)
ExpiredEarly(t) == window[t] = NoWindow \/ now - window[t].window_start >= WINDOW_MS - 1

Expired(t) == window[t] = NoWindow \/ now - window[t].window_start >= WINDOW_MS

(* Mutant of Current: every check starts the window anew. *)
CurrentSliding(t) ==
    [window_start |-> now, count |-> IF Expired(t) THEN 0 ELSE window[t].count]

Current(t) == IF Expired(t) THEN [window_start |-> now, count |-> 0] ELSE window[t]

Allowed(t) == Current(t).count < LIMIT_PER_MINUTE

HandleCheck(t) ==
    /\ window' = [window EXCEPT ![t] =
                    [Current(t) EXCEPT !.count = IF Allowed(t) THEN @ + 1 ELSE @]]
    /\ granted' = IF Allowed(t) THEN [granted EXCEPT ![t] = Append(@, now)] ELSE granted

-----------------------------------------------------------------------------
(* The windows as FixedWindow sees them: before a tenant's first check     *)
(* its window is one that is over.                                         *)
Started == [t \in Tenants |-> IF window[t] = NoWindow THEN -WINDOW_MS ELSE window[t].window_start]
Counted == [t \in Tenants |-> IF window[t] = NoWindow THEN 0 ELSE window[t].count]

Promise == INSTANCE FixedWindow WITH
    Keys <- Tenants, Limit <- LIMIT_PER_MINUTE, Window <- WINDOW_MS,
    start <- Started, used <- Counted
=============================================================================
