-------------------------- MODULE SimSessionLesson --------------------------
(***************************************************************************)
(* SimSession implements Lesson: read from its rows, the lesson that the   *)
(* overlapping requests of one session produce is one that a single        *)
(* teacher could have given step by step.                                  *)
(***************************************************************************)
EXTENDS SimSession

Opened(k) == \E i \in Positions :
                utterances[i].kind = "phase_enter" /\ utterances[i].phase = k

\* The transitions recorded for a phase.
LeftBy(k) == {utterances[i].kind : i \in InPhase(k)} \cap Transitions

L == INSTANCE Lesson WITH
        state <- status,
        current <- phase,
        opened <- Opened(phase),
        turns <- TurnsUsed,
        agreed <- Agreed(phase),
        closed <- [k \in Phases |-> LeftBy(k)]

\* Every step of the requests is a step of the lesson, or changes nothing in it.
ImplementsLesson == L!Spec
=============================================================================
