------------------------------- MODULE Lesson -------------------------------
(***************************************************************************)
(* What a simulation promises to the teacher, with no requests, rows or    *)
(* locks: a lesson goes through its phases one by one; a phase is opened   *)
(* once, then taught by at most MaxTurns utterances in the whole lesson;   *)
(* reactions make personas agree; the class moves on when all agree or the *)
(* teacher skips; the lesson ends once.                                    *)
(*                                                                         *)
(* A regenerated reaction replaces the old one, so Correct may also take   *)
(* one persona out of the agreement.                                       *)
(***************************************************************************)
EXTENDS Integers

CONSTANTS Personas, NPhases, MaxTurns

VARIABLES
    state,    \* "running", "finished" or "deleted"
    current,  \* the phase being taught
    opened,   \* whether that phase has been opened
    turns,    \* utterances the teacher has typed so far
    agreed,   \* personas that agree in the current phase
    closed    \* how each phase was left: by agreement, by skipping, or not yet

vars == <<state, current, opened, turns, agreed, closed>>

Ways == {"agree_advance", "skip"}

Init ==
    /\ state = "running"
    /\ current = 0
    /\ opened = FALSE
    /\ turns = 0
    /\ agreed = {}
    /\ closed = [k \in 0 .. NPhases - 1 |-> {}]

\* The plan's prompt is put to the class; nobody agrees yet.
Open ==
    /\ state = "running" /\ ~opened
    /\ opened' = TRUE
    /\ UNCHANGED <<state, current, turns, agreed, closed>>

\* The teacher speaks to all personas or to one of them.
Teach ==
    /\ state = "running" /\ opened /\ turns < MaxTurns
    /\ turns' = turns + 1
    /\ \E audience \in {Personas} \cup {{p} : p \in Personas} :
          agreed' \in {agreed \cup more : more \in SUBSET audience}
    /\ UNCHANGED <<state, current, opened, closed>>

\* One reaction is generated again.
Correct(p) ==
    /\ state = "running" /\ opened
    /\ agreed' \in {agreed \cup {p}, agreed \ {p}}
    /\ UNCHANGED <<state, current, opened, turns, closed>>

\* The phase is left by agreement of all, or by the teacher's decision.
Leave(way) ==
    /\ state = "running"
    /\ way = "agree_advance" => agreed = Personas
    /\ closed' = [closed EXCEPT ![current] = {way}]
    /\ UNCHANGED turns

\* The class goes on to the next phase.
MoveOn(way) ==
    /\ Leave(way)
    /\ current + 1 < NPhases
    /\ current' = current + 1
    /\ opened' = FALSE
    /\ agreed' = {}
    /\ UNCHANGED state

\* The last phase is left, and the lesson is over.
Complete(way) ==
    /\ Leave(way)
    /\ current + 1 = NPhases
    /\ state' = "finished"
    /\ UNCHANGED <<current, opened, agreed>>

\* The teacher ends the lesson in the middle of a phase.
Stop ==
    /\ state = "running"
    /\ state' = "finished"
    /\ UNCHANGED <<current, opened, turns, agreed, closed>>

Delete ==
    /\ state # "deleted"
    /\ state' = "deleted"
    /\ opened' = FALSE /\ turns' = 0 /\ agreed' = {}
    /\ closed' = [k \in 0 .. NPhases - 1 |-> {}]
    /\ UNCHANGED current

Next ==
    \/ Open \/ Teach \/ Stop \/ Delete
    \/ \E p \in Personas : Correct(p)
    \/ \E way \in Ways : MoveOn(way) \/ Complete(way)

Spec == Init /\ [][Next]_vars
=============================================================================
