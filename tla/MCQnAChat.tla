----------------------------- MODULE MCQnAChat ------------------------------
(* Finite instances of QnAChat for TLC. *)
EXTENDS QnAChat, TLC

\* Requests are interchangeable, and so are users.
Interchangeable == Permutations(Requests) \cup Permutations(Users)
=============================================================================
