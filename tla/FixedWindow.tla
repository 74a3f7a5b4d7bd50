---------------------------- MODULE FixedWindow ----------------------------
(***************************************************************************)
(* What the tenant limiter and the alert gate promise of time: for each    *)
(* key it is cut into windows no shorter than Window, and no more than     *)
(* Limit grants are made in each of them.                                  *)
(***************************************************************************)
EXTENDS Integers

CONSTANTS Keys, Limit, Window

VARIABLES now, start, used

vars == <<now, start, used>>

Over(k) == now - start[k] >= Window

Init == \A k \in Keys : Over(k) /\ used[k] = 0

(* Time passes.                                                            *)
Pass == now' > now /\ UNCHANGED <<start, used>>

(* Some grants, as many as the window still has.                           *)
Grant(k) ==
    /\ \E n \in used[k] + 1 .. Limit : used' = [used EXCEPT ![k] = n]
    /\ UNCHANGED <<now, start>>

(* A new window opens, when the old one is over.                           *)
Open(k) ==
    /\ Over(k)
    /\ start' = [start EXCEPT ![k] = now]
    /\ \E n \in 0 .. Limit : used' = [used EXCEPT ![k] = n]
    /\ UNCHANGED now

Next == Pass \/ \E k \in Keys : Grant(k) \/ Open(k)

Spec == Init /\ [][Next]_vars
=============================================================================
