--------------------------- MODULE MCCriteriaSync ---------------------------
(* Finite instances of CriteriaSync for TLC. *)
EXTENDS CriteriaSync, TLC

\* Requests are interchangeable.
RequestSymmetry == Permutations(Requests)
=============================================================================
