-------------------------- MODULE MCAuditPipeline --------------------------
(* Instances of AuditPipeline for TLC. *)
EXTENDS AuditPipeline, TLC

(* No definition tells two runs or two consumers apart. *)
Symmetry == Permutations(Runs) \cup Permutations(Consumers)
=============================================================================
