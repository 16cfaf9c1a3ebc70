----------------------------- MODULE SimSession -----------------------------
(***************************************************************************)
(* A teaching simulation while several requests work on it at once:        *)
(* app/services/simulation/session_service.py over the tables              *)
(* simulation_sessions and simulation_utterances.                          *)
(*                                                                         *)
(* Every request is an asyncio task with a database session of its own.    *)
(* It loads the session row, makes its checks on what it read, waits for   *)
(* Gemini holding no lock, and only then takes SQLite's write lock with a  *)
(* conditional UPDATE (_lock_running) that it keeps until it commits or    *)
(* rolls back.  So a request is three steps: load, ask, write.  Whatever   *)
(* it read before the write may be stale by then.                          *)
(***************************************************************************)
EXTENDS Integers, Sequences, FiniteSetsExt

CONSTANTS
    Requests,          \* requests that may be in flight at the same time
    Seats,             \* number of personas seated in the session
    NPhases,           \* number of phases (scenes) of the lesson
    MaxTurns,          \* settings.SIM_MAX_TEACHER_TURNS
    MaxUnderstanding,  \* 100 in the code
    AgreeThreshold,    \* agreement.AGREE_THRESHOLD, 80 in the code
    MaxRise            \* UNDERSTANDING_MAX_RISE, 20 in the code

ASSUME SeatsAssumption == Seats \in Nat \ {0}
ASSUME PhasesAssumption == NPhases \in Nat \ {0}
ASSUME TurnsAssumption == MaxTurns \in Nat
ASSUME ScaleAssumption == /\ MaxUnderstanding \in Nat
                          /\ AgreeThreshold \in 1 .. MaxUnderstanding
                          /\ MaxRise \in Nat

VARIABLES
    status,      \* "running", "finished", or "deleted" with its user
    phase,       \* current_phase_idx
    utterances,  \* the rows of the session; the row with seq i is utterances[i]
    req          \* what each request is doing, and what it has read

vars == <<status, phase, utterances, req>>

-----------------------------------------------------------------------------
(* Rows.                                                                   *)

Personas == 1 .. Seats      \* in seat order
Phases == 0 .. NPhases - 1
Levels == 0 .. MaxUnderstanding

None == -1       \* no understanding: Python's None
Everyone == 0    \* an utterance without a target persona

Transitions == {"agree_advance", "skip"}
Ends == {"finish", "last_phase"}
Kinds == {"phase_enter", "plan", "say", "student"} \cup Transitions \cup Ends

(***************************************************************************)
(* What a student row stores of a reaction: its understanding (None when   *)
(* the answer did not parse and `structured' is NULL), and whether         *)
(* `content' is the model's raw text rather than the student's words.      *)
(***************************************************************************)
Reaction == [understanding : Levels \cup {None}, raw : BOOLEAN]
Unparsed == [understanding |-> None, raw |-> TRUE]

Row == [kind : Kinds, phase : Phases, who : 0 .. Seats,
        understanding : Levels \cup {None}, raw : BOOLEAN]

\* A system row or a teacher row; who is the target of a teacher's utterance.
Line(kind, k, who) ==
    [kind |-> kind, phase |-> k, who |-> who,
     understanding |-> None, raw |-> FALSE]

StudentLine(k, p, reaction) ==
    [kind |-> "student", phase |-> k, who |-> p,
     understanding |-> reaction.understanding, raw |-> reaction.raw]

\* The students who answer an utterance, and their rows in seat order.
Responders(target) == IF target = Everyone THEN Personas ELSE {target}

StudentLines(k, target, reactions) ==
    IF target = Everyone
    THEN [p \in Personas |-> StudentLine(k, p, reactions[p])]
    ELSE <<StudentLine(k, target, reactions[target])>>

\* One commit: the plan's prompt opens the phase, the whole class reacts.
EnterRows(k, reactions) ==
    <<Line("phase_enter", k, 0), Line("plan", k, Everyone)>>
        \o StudentLines(k, Everyone, reactions)

\* Mutant: the utterance is filed under the first student who answers it.
SayRowsFirstResponder(k, target, reactions) ==
    <<Line("say", k, Min(Responders(target)))>> \o StudentLines(k, target, reactions)

\* One commit: the teacher's utterance and the reactions to it.
SayRows(k, target, reactions) ==
    <<Line("say", k, target)>> \o StudentLines(k, target, reactions)

-----------------------------------------------------------------------------
(* Reading the rows.                                                       *)

Positions == DOMAIN utterances
InPhase(k) == {i \in Positions : utterances[i].phase = k}

\* The rows of persona p in phase k, and those whose answer parsed.
Mine(k, p) ==
    {i \in InPhase(k) : utterances[i].kind = "student" /\ utterances[i].who = p}
Valid(k, p) == {i \in Mine(k, p) : utterances[i].understanding # None}

\* Only what the teacher typed counts as a turn, not the plan's prompt.
UserTurns == {i \in Positions : utterances[i].kind = "say"}
TurnsUsed == Cardinality(UserTurns)

\* Understanding of p's last parsed reaction in phase k before row n.
Previous(k, p, n) ==
    LET before == {i \in Valid(k, p) : i < n}
    IN  IF before = {} THEN None ELSE utterances[Max(before)].understanding

\* Mutant: agreement judged on the last reaction.
AgreedByLast(k) ==
    {p \in Personas : Previous(k, p, Len(utterances) + 1) >= AgreeThreshold}

\* A persona agrees as soon as one reaction of the phase reached the threshold.
\* Rows from before there were levels, with a rule of their own, are left out.
Agreed(k) ==
    {p \in Personas :
        \E i \in Mine(k, p) : utterances[i].understanding >= AgreeThreshold}
AllAgreed(k) == Agreed(k) = Personas

\* The last row of p in phase k failed to parse.
Regenerable(k, p) ==
    /\ Mine(k, p) # {}
    /\ utterances[Max(Mine(k, p))].understanding = None

-----------------------------------------------------------------------------
(* What is stored of a model answer.                                       *)

(***************************************************************************)
(* An answer that parsed: the level it claims, whether it states a         *)
(* misconception, whether that text survives the schema's cleaning,        *)
(* whether it is on task, and whether it only echoes the teacher or        *)
(* repeats what the student showed before.                                 *)
(***************************************************************************)
Answer == {a \in [level : Levels, misconception : BOOLEAN, kept : BOOLEAN,
                  onTask : BOOLEAN, echo : BOOLEAN] :
              a.kept => a.misconception}

AtMost(a, b) == IF a <= b THEN a ELSE b

\* StudentReaction caps a misconception below the threshold.
Parsed(a) == IF a.misconception THEN AtMost(a.level, AgreeThreshold - 1)
             ELSE a.level

\* An off-task answer keeps the previous level, whatever the model claims.
OnTaskLevel(a, previous) ==
    IF ~a.onTask /\ ~a.kept THEN previous ELSE Parsed(a)

\* An echo does not raise the level; nothing raises it by more than MaxRise.
Held(a, previous) ==
    IF a.echo THEN AtMost(OnTaskLevel(a, previous), previous)
    ELSE OnTaskLevel(a, previous)
BoundedByHold(a, previous) ==   \* mutant: no limit to the rise
    IF previous = None THEN Parsed(a) ELSE Held(a, previous)
Bounded(a, previous) ==
    IF previous = None THEN Parsed(a)
    ELSE AtMost(Held(a, previous), previous + MaxRise)

\* Mutant: the first reaction is stored like any other.
StoredUncapped(a, previous, first) == Bounded(a, previous)

\* The first reaction of a phase stays below the threshold.
Stored(a, previous, first) ==
    IF first THEN AtMost(Bounded(a, previous), AgreeThreshold - 1)
    ELSE Bounded(a, previous)

Reactions(previous, first) ==
    {[understanding |-> Stored(a, previous, first), raw |-> FALSE] : a \in Answer}
        \cup {Unparsed}

-----------------------------------------------------------------------------
(* Requests.                                                               *)

Ops == {"enter", "say", "agree", "skip", "finish", "regenerate"}
AskingOps == {"enter", "say", "regenerate"}   \* those that call Gemini

\* The argument of a request: a target for say, a persona for regenerate.
Arguments(op) == CASE op = "say" -> 0 .. Seats
                   [] op = "regenerate" -> Personas
                   [] OTHER -> {0}

(***************************************************************************)
(* Between its steps a request keeps: the phase it loaded, and what it     *)
(* read before asking: each persona's previous level, and for regenerate   *)
(* the row it will rewrite and whether it was the persona's only one.      *)
(***************************************************************************)
Request == [op : Ops \cup {"none"}, pc : {"idle", "loaded", "asking"},
            idx : Phases, arg : 0 .. Seats,
            previous : [Personas -> Levels \cup {None}],
            row : Nat, first : BOOLEAN]

Idle == [op |-> "none", pc |-> "idle", idx |-> 0, arg |-> 0,
         previous |-> [p \in Personas |-> None], row |-> 0, first |-> FALSE]

TypeOK ==
    /\ status \in {"running", "finished", "deleted"}
    /\ phase \in Phases
    /\ utterances \in Seq(Row)
    /\ req \in [Requests -> Request]
    /\ \A r \in Requests : req[r].op = "regenerate" => req[r].arg \in Personas

\* create_session commits the session, its phases and its personas together.
Init ==
    /\ status = "running"
    /\ phase = 0
    /\ utterances = <<>>
    /\ req = [r \in Requests |-> Idle]

Return(r) == req' = [req EXCEPT ![r] = Idle]

(***************************************************************************)
(* A request arrives and loads the session row.  A session that is gone or *)
(* finished, a phase index that is not the current one and an unknown      *)
(* persona are refused here and change nothing.                            *)
(***************************************************************************)
Load(r, op, arg) ==
    /\ req[r].pc = "idle"
    /\ status = "running"
    /\ arg \in Arguments(op)
    /\ req' = [req EXCEPT ![r] = [Idle EXCEPT !.op = op, !.pc = "loaded",
                                              !.idx = phase, !.arg = arg]]
    /\ UNCHANGED <<status, phase, utterances>>

\* What a request finds before it asks Gemini and that makes it answer at once.
Refused(r) ==
    \/ status = "deleted"
    \/ req[r].op = "enter" /\ InPhase(req[r].idx) # {}
    \/ req[r].op = "say" /\ (InPhase(req[r].idx) = {} \/ TurnsUsed >= MaxTurns)
    \/ req[r].op = "regenerate" /\ ~Regenerable(req[r].idx, req[r].arg)

Refuse(r) ==
    /\ req[r].pc = "loaded" /\ req[r].op \in AskingOps
    /\ Refused(r)
    /\ Return(r)
    /\ UNCHANGED <<status, phase, utterances>>

\* Mutant: the row is looked up by its place in a list that starts at 0.
SnapshotOffByOne(r) ==
    LET row == Max(Mine(req[r].idx, req[r].arg))
    IN  IF req[r].op # "regenerate" THEN req[r]
        ELSE [req[r] EXCEPT !.row = row - 1]

\* What say and regenerate remember of the rows while Gemini answers.
Snapshot(r) ==
    LET k == req[r].idx
        p == req[r].arg
        row == Max(Mine(k, p))
    IN  IF req[r].op = "enter" THEN req[r]
        ELSE IF req[r].op = "say"
        THEN [req[r] EXCEPT !.previous =
                [q \in Personas |-> IF q \in Responders(p)
                                    THEN Previous(k, q, Len(utterances) + 1)
                                    ELSE None]]
        ELSE [req[r] EXCEPT !.row = row,
                            !.first = (Mine(k, p) = {row}),
                            !.previous = [q \in Personas |->
                                IF q = p THEN Previous(k, p, row) ELSE None]]

Ask(r) ==
    /\ req[r].pc = "loaded" /\ req[r].op \in AskingOps
    /\ ~Refused(r)
    /\ req' = [req EXCEPT ![r] = [Snapshot(r) EXCEPT !.pc = "asking"]]
    /\ UNCHANGED <<status, phase, utterances>>

(***************************************************************************)
(* Gemini fails (quota, overload, timeout), the write lock cannot be had   *)
(* within busy_timeout, or the server stops: nothing has been written.     *)
(***************************************************************************)
Drop(r) ==
    /\ req[r].pc # "idle"
    /\ Return(r)
    /\ UNCHANGED <<status, phase, utterances>>

-----------------------------------------------------------------------------
(* Writing, under the lock.                                                *)

ReadyToWrite(r, op) ==
    /\ req[r].op = op
    /\ req[r].pc = IF op \in AskingOps THEN "asking" ELSE "loaded"

\* Mutant: the conditional UPDATE without the condition on the phase.
LockedAnyPhase(r) == status = "running"

\* _lock_running: still running, and still in the phase the request loaded.
Locked(r) == status = "running" /\ phase = req[r].idx

LockLost(r) ==
    /\ \E op \in Ops : ReadyToWrite(r, op)
    /\ ~Locked(r)
    /\ Return(r)
    /\ UNCHANGED <<status, phase, utterances>>

AppendRows(rows) == utterances' = utterances \o rows

\* Another request entered first: its rows are returned, nothing is written.
EnterStored(r) ==
    /\ ReadyToWrite(r, "enter") /\ Locked(r)
    /\ InPhase(req[r].idx) # {}
    /\ Return(r)
    /\ UNCHANGED <<status, phase, utterances>>

EnterWrite(r) ==
    /\ ReadyToWrite(r, "enter") /\ Locked(r)
    /\ InPhase(req[r].idx) = {}
    /\ \E reactions \in [Personas -> Reactions(None, TRUE)] :
          AppendRows(EnterRows(req[r].idx, reactions))
    /\ Return(r)
    /\ UNCHANGED <<status, phase>>

\* Another request used the last turn while this one waited: TURN_LIMIT.
SayOverLimit(r) ==
    /\ ReadyToWrite(r, "say") /\ Locked(r)
    /\ TurnsUsed >= MaxTurns
    /\ Return(r)
    /\ UNCHANGED <<status, phase, utterances>>

\* Mutant: the turns are not counted again under the lock.
SayWriteUnchecked(r) ==
    /\ ReadyToWrite(r, "say") /\ Locked(r)
    /\ \E reactions \in [Responders(req[r].arg) -> {Unparsed}] :
          AppendRows(SayRows(req[r].idx, req[r].arg, reactions))
    /\ Return(r)
    /\ UNCHANGED <<status, phase>>

SayWrite(r) ==
    /\ ReadyToWrite(r, "say") /\ Locked(r)
    /\ TurnsUsed < MaxTurns
    /\ \E reactions \in [Responders(req[r].arg) -> Reaction] :
          /\ \A p \in Responders(req[r].arg) :
                reactions[p] \in Reactions(req[r].previous[p], FALSE)
          /\ AppendRows(SayRows(req[r].idx, req[r].arg, reactions))
    /\ Return(r)
    /\ UNCHANGED <<status, phase>>

(***************************************************************************)
(* regenerate sets the fields of the row object it loaded before asking,   *)
(* whose `structured' was NULL.  The ORM writes only the columns that      *)
(* differ from that old value, so a second failure leaves the stored       *)
(* `structured' as it is and still replaces `content'.                     *)
(***************************************************************************)
Rewritten(row, reaction) ==
    [row EXCEPT !.raw = reaction.raw,
                !.understanding = IF reaction.understanding = None THEN @
                                  ELSE reaction.understanding]

RegenerateWrite(r) ==
    /\ ReadyToWrite(r, "regenerate") /\ Locked(r)
    /\ \E reaction \in Reactions(req[r].previous[req[r].arg], req[r].first) :
          utterances' = [utterances EXCEPT ![req[r].row] = Rewritten(@, reaction)]
    /\ Return(r)
    /\ UNCHANGED <<status, phase>>

\* An agree request finds that not everyone agrees: NOT_ALL_AGREED.
AgreeRefused(r) ==
    /\ ReadyToWrite(r, "agree") /\ Locked(r)
    /\ ~AllAgreed(phase)
    /\ Return(r)
    /\ UNCHANGED <<status, phase, utterances>>

TransitionLine(r) ==
    Line(IF req[r].op = "agree" THEN "agree_advance" ELSE "skip", phase, 0)

\* Mutant: a phase must have been entered before it is left.
MayAdvanceEntered(r) ==
    /\ ReadyToWrite(r, "agree") \/ ReadyToWrite(r, "skip")
    /\ Locked(r) /\ InPhase(phase) # {}
    /\ req[r].op = "agree" => AllAgreed(phase)

\* Agreement is needed to agree, nothing to skip.
MayAdvance(r) ==
    /\ ReadyToWrite(r, "agree") \/ ReadyToWrite(r, "skip")
    /\ Locked(r)
    /\ req[r].op = "agree" => AllAgreed(phase)

\* Mutant: the index may go one past the last phase.
AdvanceWriteTooFar(r) ==
    /\ MayAdvance(r)
    /\ phase + 1 <= NPhases
    /\ AppendRows(<<TransitionLine(r)>>)
    /\ phase' = phase + 1
    /\ Return(r)
    /\ UNCHANGED status

AdvanceWrite(r) ==
    /\ MayAdvance(r)
    /\ phase + 1 < NPhases
    /\ AppendRows(<<TransitionLine(r)>>)
    /\ phase' = phase + 1
    /\ Return(r)
    /\ UNCHANGED status

\* Advancing from the last phase ends the lesson.
AdvanceEnds(r) ==
    /\ MayAdvance(r)
    /\ phase + 1 = NPhases
    /\ AppendRows(<<TransitionLine(r), Line("last_phase", phase, 0)>>)
    /\ status' = "finished"
    /\ Return(r)
    /\ UNCHANGED phase

FinishWrite(r) ==
    /\ ReadyToWrite(r, "finish") /\ Locked(r)
    /\ AppendRows(<<Line("finish", phase, 0)>>)
    /\ status' = "finished"
    /\ Return(r)
    /\ UNCHANGED phase

\* The administrator deletes the user: the session and its rows cascade.
DeleteUser ==
    /\ status # "deleted"
    /\ status' = "deleted"
    /\ utterances' = <<>>
    /\ UNCHANGED <<phase, req>>

Write(r) ==
    \/ EnterStored(r) \/ EnterWrite(r)
    \/ SayOverLimit(r) \/ SayWrite(r)
    \/ RegenerateWrite(r)
    \/ AgreeRefused(r) \/ AdvanceWrite(r) \/ AdvanceEnds(r)
    \/ FinishWrite(r)

Proceed(r) == Refuse(r) \/ Ask(r) \/ LockLost(r) \/ Write(r)

Arrive(r) == \E op \in Ops : \E arg \in 0 .. Seats : Load(r, op, arg)

Next ==
    \/ \E r \in Requests : Arrive(r) \/ Proceed(r) \/ Drop(r)
    \/ DeleteUser

Spec == Init /\ [][Next]_vars

(***************************************************************************)
(* Fairness.  A request that is being served goes on: asyncio resumes it,  *)
(* Gemini's call returns or times out, busy_timeout bounds the wait for    *)
(* the lock.  And a teacher who keeps pressing skip: she presses again     *)
(* whenever a request is free, and a press that is possible again and      *)
(* again is not dropped for ever.                                          *)
(***************************************************************************)
SkipWrite(r) == req[r].op = "skip" /\ (AdvanceWrite(r) \/ AdvanceEnds(r))

FairSpec ==
    /\ Spec
    /\ \A r \in Requests : /\ WF_vars(Proceed(r))
                           /\ SF_vars(Load(r, "skip", 0))
                           /\ SF_vars(SkipWrite(r))

\* A lesson can always be brought to its end by skipping, whatever the other
\* requests do, also in a phase that nobody entered.
SkippingEndsLesson == <>(status # "running")

-----------------------------------------------------------------------------
(* What the transcript promises, whatever the requests interleave.         *)

KindAt(i) == utterances[i].kind
PhaseAt(i) == utterances[i].phase

\* The turn limit is checked once before Gemini is asked and again under the
\* lock: however many requests wait together, the lesson never exceeds it.
TurnBudget == TurnsUsed <= MaxTurns

\* A phase is opened once, however many enter requests race, and nothing is
\* said in a phase before the row that opens it.
OpenedOnceBeforeUse ==
    /\ \A i, j \in Positions :
          /\ KindAt(i) = "phase_enter" /\ KindAt(j) = "phase_enter"
          /\ PhaseAt(i) = PhaseAt(j)
          => i = j
    /\ \A i \in Positions : KindAt(i) \in {"plan", "say", "student"} =>
          \E j \in 1 .. i - 1 :
             KindAt(j) = "phase_enter" /\ PhaseAt(j) = PhaseAt(i)

\* Rows are in phase order, no phase is left without the row that says how,
\* and after that row nothing more is written in the phase: an answer that
\* comes back late is not filed under a phase the class has left.
LeftPhasesClosed ==
    /\ \A i, j \in Positions : i < j =>
          /\ PhaseAt(i) <= PhaseAt(j)
          /\ KindAt(i) \in Transitions =>
                PhaseAt(i) < PhaseAt(j) \/ KindAt(j) = "last_phase"
    /\ status # "deleted" =>
          \A k \in 0 .. phase - 1 :
             \E i \in Positions : KindAt(i) \in Transitions /\ PhaseAt(i) = k

\* The lesson is finished exactly when its last row says so, and nothing
\* follows that row.
EndIsLastRow ==
    /\ \A i \in Positions :
          KindAt(i) \in Ends => i = Len(utterances) /\ status = "finished"
    /\ status = "finished" =>
          Len(utterances) > 0 /\ KindAt(Len(utterances)) \in Ends

\* A transition recorded as agreed is backed by the rows above it: each
\* persona has a reaction of that phase at the threshold, and no later
\* rewrite of a reaction takes it away.
AgreementBacksTransition ==
    \A i \in Positions : KindAt(i) = "agree_advance" =>
        \A p \in Personas : \E j \in 1 .. i - 1 :
            /\ utterances[j].kind = "student" /\ utterances[j].who = p
            /\ PhaseAt(j) = PhaseAt(i)
            /\ utterances[j].understanding >= AgreeThreshold

\* What the transcript of a lesson is, whatever requests overlap: within its
\* turns, each phase opened once and closed for good, ended by its last row.
LessonInOrder ==
    /\ TurnBudget
    /\ OpenedOnceBeforeUse
    /\ LeftPhasesClosed
    /\ EndIsLastRow

\* Nobody agrees on the strength of the plan alone: before an agreed
\* transition the teacher has spoken, in that phase, to every persona.  It
\* rests on the cap of first reactions, also when they are regenerated.
NobodyAgreesUntaught ==
    \A i \in Positions : KindAt(i) = "agree_advance" =>
        \A p \in Personas : \E j \in 1 .. i - 1 :
            /\ KindAt(j) = "say" /\ PhaseAt(j) = PhaseAt(i)
            /\ utterances[j].who \in {Everyone, p}

\* The closest teacher row above a reaction is the utterance it answers:
\* regenerate rebuilds its context from that row.
NearestTeacherAsked ==
    \A i \in Positions : KindAt(i) = "student" =>
        \E j \in 1 .. i - 1 :
            /\ KindAt(j) \in {"plan", "say"} /\ PhaseAt(j) = PhaseAt(i)
            /\ utterances[j].who \in {Everyone, utterances[i].who}
            /\ \A n \in j + 1 .. i : KindAt(n) = "student"

\* What a stored reaction means: the teacher's words it answers stand above
\* it, and an agreement was reached by teaching.
ReactionsEarned == NearestTeacherAsked /\ NobodyAgreesUntaught

\* The row a regenerate request waits to rewrite stays a reaction of the
\* persona it was asked for, in the phase it loaded.
RewriteTarget ==
    \A r \in Requests :
        ReadyToWrite(r, "regenerate") /\ status # "deleted" =>
            req[r].row \in Mine(req[r].idx, req[r].arg)

\* regenerate, which overwrites a row found before the wait for Gemini, hits
\* the row it was asked for and takes nothing away that a transition rests on.
RewritesSafe == RewriteTarget /\ AgreementBacksTransition

(***************************************************************************)
(* The transcript only grows at its end.  The one exception is a reaction  *)
(* of the phase being taught, which keeps its place, phase and persona.    *)
(***************************************************************************)
HistoryFrozen ==
    [][status' = "deleted" \/
         /\ Len(utterances') >= Len(utterances)
         /\ \A i \in Positions : utterances'[i] # utterances[i] =>
               /\ KindAt(i) = "student" /\ PhaseAt(i) = phase
               /\ utterances'[i] = [utterances[i] EXCEPT
                     !.understanding = utterances'[i].understanding,
                     !.raw = utterances'[i].raw]]_utterances

\* A finished lesson stays as it was when it ended, also for the requests
\* that were waiting for Gemini at that moment; only deletion follows.
FinishedIsFinal ==
    [][status = "finished" => status' = "deleted" /\ phase' = phase]_
        <<status, phase, utterances>>

\* The past of a lesson stays as it was: rows of phases that were left, and
\* everything once the lesson has ended, also for requests still under way.
PastKept == HistoryFrozen /\ FinishedIsFinal

-----------------------------------------------------------------------------
(* What the documentation says of reactions.  These hold when one request  *)
(* works on the session at a time; requests that overlap break them.       *)

\* A row shows the model's raw text exactly when its answer did not parse
\* (student_utterance).
RawOnlyIfUnparsed ==
    \A i \in Positions : KindAt(i) = "student" =>
        (utterances[i].raw <=> utterances[i].understanding = None)

\* A persona's level never rises by more than MaxRise over its previous
\* parsed reaction of the phase (student_utterance).
RiseBounded ==
    \A k \in Phases, p \in Personas : \A i \in Valid(k, p) :
        Previous(k, p, i) # None =>
            utterances[i].understanding <= Previous(k, p, i) + MaxRise

-----------------------------------------------------------------------------
(* The inductive invariant: the promises above that are proved, and what   *)
(* they need.                                                              *)

\* No row lies in a phase ahead of the session, and while the lesson runs
\* the current phase has not been left.
RowsBelow ==
    \A i \in Positions :
        /\ PhaseAt(i) <= phase
        /\ KindAt(i) \in Transitions /\ PhaseAt(i) = phase => status # "running"

\* What say saw before it asked Gemini is still there: its phase was entered.
SayTarget ==
    \A r \in Requests :
        ReadyToWrite(r, "say") /\ status # "deleted" => InPhase(req[r].idx) # {}

\* A teacher's utterance to p above row i of phase k.
TaughtBefore(k, p, i) ==
    \E j \in 1 .. i - 1 : /\ KindAt(j) = "say" /\ PhaseAt(j) = k
                          /\ utterances[j].who \in {Everyone, p}

\* A persona that agrees, or reacts again, has been taught in the phase.
AgreementTaught ==
    \A i \in Positions :
        KindAt(i) = "student" /\ utterances[i].understanding >= AgreeThreshold
        => TaughtBefore(PhaseAt(i), utterances[i].who, i)

SecondTaught ==
    \A i, m \in Positions :
        /\ m < i /\ KindAt(i) = "student" /\ KindAt(m) = "student"
        /\ PhaseAt(i) = PhaseAt(m) /\ utterances[i].who = utterances[m].who
        => TaughtBefore(PhaseAt(i), utterances[i].who, i)

\* A reaction that regenerate does not take for the first has one above it.
FirstIsFirst ==
    \A r \in Requests :
        ReadyToWrite(r, "regenerate") /\ status # "deleted" /\ ~req[r].first =>
            \E m \in Mine(req[r].idx, req[r].arg) : m < req[r].row

IInv ==
    /\ TypeOK
    /\ RowsBelow
    /\ SayTarget
    /\ RewriteTarget
    /\ TurnBudget
    /\ OpenedOnceBeforeUse
    /\ LeftPhasesClosed
    /\ EndIsLastRow
    /\ AgreementBacksTransition
    /\ NearestTeacherAsked
    /\ AgreementTaught
    /\ SecondTaught
    /\ FirstIsFirst
=============================================================================
