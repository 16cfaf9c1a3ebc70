--------------------------- MODULE MCSimFeedback ---------------------------
(* Finite instances of SimFeedback for TLC. *)
EXTENDS SimFeedback, TLC

\* Requests are interchangeable.
RequestSymmetry == Permutations(Requests)
=============================================================================
