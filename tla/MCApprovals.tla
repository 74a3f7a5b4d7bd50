---------------------------- MODULE MCApprovals ----------------------------
(* Instances of Approvals for TLC. *)
EXTENDS Approvals, TLC

(* Requests, ids and tenants are each interchangeable. *)
Symmetry == Permutations(Requests) \cup Permutations(Ids) \cup Permutations(Tenants)
=============================================================================
