---------------------------- MODULE MCSimSession ----------------------------
(* Finite instances of SimSession for TLC. *)
EXTENDS SimSessionAlone, TLC

\* Bound: once two requests have met, only two levels and no raw text of a
\* row that parsed are told apart; no guard of the code looks at either.
TwoLevels == overlapped =>
    RawOnlyIfUnparsed /\ \A i \in Positions : utterances[i].understanding <= 1

\* Requests are interchangeable.
RequestSymmetry == Permutations(Requests)
=============================================================================
