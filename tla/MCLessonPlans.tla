--------------------------- MODULE MCLessonPlans ----------------------------
(* Finite instances of LessonPlans for TLC. *)
EXTENDS LessonPlans, TLC

\* Requests are interchangeable.
RequestSymmetry == Permutations(Requests)
=============================================================================
