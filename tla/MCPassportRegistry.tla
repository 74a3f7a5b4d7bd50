------------------------ MODULE MCPassportRegistry ------------------------
(* Instances of PassportRegistry for TLC: requests of two tenants race on  *)
(* one legacy passport and on the ids they mint.                           *)
EXTENDS PassportRegistry, TLC

(* Requests are interchangeable: no definition tells one from another. *)
RequestSymmetry == Permutations(Requests)
=============================================================================
