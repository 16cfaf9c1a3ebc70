------------------------- MODULE MCSimSessionLesson -------------------------
(* Finite instances of the refinement for TLC. *)
EXTENDS SimSessionLesson
=============================================================================
