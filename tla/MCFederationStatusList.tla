----------------------- MODULE MCFederationStatusList -----------------------
(* Instances of FederationStatusList for TLC. *)
EXTENDS FederationStatusList, TLC

(* Agents are interchangeable, and so are handlers. *)
Symmetry == Permutations(Agents) \cup Permutations(Requests)
=============================================================================
