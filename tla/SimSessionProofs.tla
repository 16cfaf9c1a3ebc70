-------------------------- MODULE SimSessionProofs --------------------------
(***************************************************************************)
(* Theorems about SimSession, for any number of requests, personas,        *)
(* phases and turns and any scale of understanding, the refinement of      *)
(* Lesson, and what is stored of reactions when requests do not meet.      *)
(***************************************************************************)
EXTENDS SimSessionLesson, SimSessionAlone, OrderingProofs, TLAPS

USE SeatsAssumption, PhasesAssumption, TurnsAssumption, ScaleAssumption

-----------------------------------------------------------------------------
(* Facts about the operators the rows are read with.                       *)

\* Rows are appended behind the rows there are.
LEMMA Appended ==
    ASSUME NEW s \in Seq(Row), NEW R \in Seq(Row)
    PROVE  /\ s \o R \in Seq(Row)
           /\ Len(s \o R) = Len(s) + Len(R)
           /\ \A i \in 1 .. Len(s) : (s \o R)[i] = s[i]
           /\ \A i \in 1 .. Len(s \o R) :
                 i > Len(s) => i - Len(s) \in 1 .. Len(R)
                               /\ (s \o R)[i] = R[i - Len(s)]
OBVIOUS

LEMMA LineType ==
    ASSUME NEW kind \in Kinds, NEW k \in Phases, NEW who \in 0 .. Seats
    PROVE  Line(kind, k, who) \in Row
BY DEF Line, Row

\* The rows of the students: one per responder, in the phase they answer in.
LEMMA StudentLinesFacts ==
    ASSUME NEW k \in Phases, NEW target \in 0 .. Seats,
           NEW reactions \in [Responders(target) -> Reaction]
    PROVE  LET R == StudentLines(k, target, reactions)
           IN  /\ R \in Seq(Row) /\ Len(R) >= 1
               /\ \A i \in 1 .. Len(R) : R[i].kind = "student" /\ R[i].phase = k
               /\ \A i \in 1 .. Len(R) : \E p \in Responders(target) :
                     /\ R[i].who = p
                     /\ R[i].understanding = reactions[p].understanding
               /\ target = Everyone => \A i \in 1 .. Len(R) : R[i].who = i
<1>1. \A p \in Personas, x \in Reaction :
         StudentLine(k, p, x) \in Row /\ StudentLine(k, p, x).kind = "student"
         /\ StudentLine(k, p, x).phase = k /\ StudentLine(k, p, x).who = p
         /\ StudentLine(k, p, x).understanding = x.understanding
  BY DEF StudentLine, Row, Reaction, Personas, Kinds
<1>2. CASE target = Everyone
  <2>1. reactions \in [Personas -> Reaction]
    BY <1>2 DEF Responders
  <2>2. StudentLines(k, target, reactions)
          = [p \in 1 .. Seats |-> StudentLine(k, p, reactions[p])]
    BY <1>2 DEF StudentLines, Personas
  <2>3. [p \in 1 .. Seats |-> StudentLine(k, p, reactions[p])] \in Seq(Row)
        /\ Len([p \in 1 .. Seats |-> StudentLine(k, p, reactions[p])]) = Seats
    BY <1>1, <2>1 DEF Personas
  <2>4. Responders(target) = 1 .. Seats
    BY <1>2 DEF Responders, Personas
  <2>5. QED
    BY <1>1, <2>1, <2>2, <2>3, <2>4 DEF Personas
<1>3. CASE target # Everyone
  <2>1. target \in Personas /\ reactions[target] \in Reaction
    BY <1>3 DEF Responders, Everyone, Personas
  <2>2. StudentLines(k, target, reactions)
          = <<StudentLine(k, target, reactions[target])>>
    BY <1>3 DEF StudentLines
  <2>3. Responders(target) = {target}
    BY <1>3 DEF Responders
  <2>4. QED
    BY <1>1, <1>3, <2>1, <2>2, <2>3
<1>4. QED
  BY <1>2, <1>3

\* What is stored of an answer is a level, and a first reaction is one below
\* the threshold.
LEMMA StoredLevel ==
    ASSUME NEW a \in Answer, NEW previous \in Levels \cup {None},
           NEW first \in BOOLEAN
    PROVE  /\ Stored(a, previous, first) \in Levels
           /\ first => Stored(a, previous, first) < AgreeThreshold
<1> DEFINE T == AgreeThreshold - 1
<1>1. a.level \in Levels /\ T \in Levels
  BY DEF Answer, Levels
<1>2. Parsed(a) \in Levels
  BY <1>1 DEF Parsed, AtMost
<1>3. CASE previous = None
  <2>1. Bounded(a, previous) = Parsed(a)
    BY <1>3 DEF Bounded
  <2>2. QED
    BY <2>1, <1>1, <1>2 DEF Stored, AtMost, Levels
<1>4. CASE previous \in Levels
  <2>1. previous # None
    BY <1>4 DEF Levels, None
  <2>2. Held(a, previous) \in Levels
    BY <1>2, <1>4 DEF Held, OnTaskLevel, AtMost
  <2>3. Bounded(a, previous) \in Levels
    BY <2>1, <2>2, <1>4 DEF Bounded, AtMost, Levels
  <2>4. QED
    BY <2>3, <1>1 DEF Stored, AtMost, Levels
<1>5. QED
  BY <1>3, <1>4

LEMMA ReactionsType ==
    ASSUME NEW previous \in Levels \cup {None}, NEW first \in BOOLEAN
    PROVE  /\ Reactions(previous, first) \subseteq Reaction
           /\ first => \A x \in Reactions(previous, first) :
                          x.understanding < AgreeThreshold
<1>1. Unparsed \in Reaction /\ Unparsed.understanding < AgreeThreshold
  BY DEF Unparsed, Reaction, None
<1>2. ASSUME NEW x \in Reactions(previous, first)
      PROVE  x \in Reaction /\ (first => x.understanding < AgreeThreshold)
  <2>1. CASE x = Unparsed
    BY <2>1, <1>1
  <2>2. CASE x # Unparsed
    <3>1. PICK a \in Answer :
             x = [understanding |-> Stored(a, previous, first), raw |-> FALSE]
      BY <2>2 DEF Reactions
    <3>2. Stored(a, previous, first) \in Levels
          /\ (first => Stored(a, previous, first) < AgreeThreshold)
      BY StoredLevel
    <3>3. QED
      BY <3>1, <3>2 DEF Reaction
  <2>3. QED
    BY <2>1, <2>2
<1>3. QED
  BY <1>2

\* The sets of positions that are read are finite sets of positions.
LEMMA PositionSets ==
    ASSUME TypeOK
    PROVE  /\ Positions = 1 .. Len(utterances)
           /\ \A S \in SUBSET Positions : IsFiniteSet(S) /\ S \subseteq Int
           /\ \A i \in Positions : utterances[i] \in Row
<1>1. Positions = 1 .. Len(utterances) /\ Len(utterances) \in Nat
  BY DEF TypeOK, Positions
<1>2. IsFiniteSet(Positions)
  BY <1>1, FS_Interval
<1>3. \A S \in SUBSET Positions : IsFiniteSet(S)
  BY <1>2, FS_Subset
<1>4. \A S \in SUBSET Positions : S \subseteq Int
  BY <1>1
<1>5. \A i \in Positions : utterances[i] \in Row
  BY <1>1 DEF TypeOK
<1>6. QED
  BY <1>1, <1>3, <1>4, <1>5

LEMMA PreviousType ==
    ASSUME TypeOK, NEW k, NEW p, NEW n
    PROVE  Previous(k, p, n) \in Levels \cup {None}
<1> DEFINE before == {i \in Valid(k, p) : i < n}
<1>1. CASE before = {}
  BY <1>1 DEF Previous
<1>2. CASE before # {}
  <2>1. before \in SUBSET Positions
    BY DEF Valid, Mine, InPhase
  <2>2. Max(before) \in before
    BY <2>1, <1>2, PositionSets, MaxOfFinite
  <2>3. utterances[Max(before)] \in Row
    BY <2>1, <2>2, PositionSets
  <2>4. QED
    BY <2>3, <1>2 DEF Previous, Row
<1>3. QED
  BY <1>1, <1>2

-----------------------------------------------------------------------------
(* The shapes of the steps.                                                *)

\* The rows one enter commits.
LEMMA EnterRowsFacts ==
    ASSUME NEW k \in Phases, NEW reactions \in [Personas -> Reaction]
    PROVE  LET R == EnterRows(k, reactions)
           IN  /\ R \in Seq(Row) /\ Len(R) >= 3
               /\ \A i \in 1 .. Len(R) : R[i].phase = k
               /\ R[1].kind = "phase_enter" /\ R[2].kind = "plan"
               /\ R[2].who = Everyone
               /\ \A i \in 3 .. Len(R) :
                     /\ R[i].kind = "student" /\ R[i].who = i - 2
                     /\ \E p \in Personas : /\ R[i].who = p
                           /\ R[i].understanding = reactions[p].understanding
<1> DEFINE A == <<Line("phase_enter", k, 0), Line("plan", k, Everyone)>>
           B == StudentLines(k, Everyone, reactions)
<1>1. /\ A \in Seq(Row) /\ Len(A) = 2
      /\ A[1].kind = "phase_enter" /\ A[2].kind = "plan"
      /\ A[1].phase = k /\ A[2].phase = k /\ A[2].who = Everyone
  BY LineType DEF Line, Kinds, Everyone
<1>2. /\ B \in Seq(Row) /\ Len(B) >= 1
      /\ \A i \in 1 .. Len(B) :
            /\ B[i].kind = "student" /\ B[i].phase = k /\ B[i].who = i
            /\ \E p \in Personas : /\ B[i].who = p
                  /\ B[i].understanding = reactions[p].understanding
  <2>1. Everyone \in 0 .. Seats /\ Responders(Everyone) = Personas
    BY DEF Everyone, Responders
  <2>2. QED
    BY <2>1, StudentLinesFacts
<1> HIDE DEF A, B
<1>3. /\ A \o B \in Seq(Row) /\ Len(A \o B) = 2 + Len(B) /\ Len(B) \in Nat
      /\ (A \o B)[1] = A[1] /\ (A \o B)[2] = A[2]
      /\ \A i \in 3 .. Len(A \o B) :
            i - 2 \in 1 .. Len(B) /\ (A \o B)[i] = B[i - 2]
  <2>1. /\ A \o B \in Seq(Row)
        /\ Len(A \o B) = Len(A) + Len(B)
        /\ \A i \in 1 .. Len(A) : (A \o B)[i] = A[i]
        /\ \A i \in 1 .. Len(A \o B) :
              i > Len(A) => i - Len(A) \in 1 .. Len(B)
                            /\ (A \o B)[i] = B[i - Len(A)]
    BY <1>1, <1>2, Appended
  <2>2. Len(B) \in Nat
    BY <1>2
  <2>3. QED
    BY <1>1, <2>1, <2>2
<1>4. \A i \in 3 .. Len(A \o B) :
         /\ (A \o B)[i].kind = "student" /\ (A \o B)[i].phase = k
         /\ (A \o B)[i].who = i - 2
         /\ \E p \in Personas : /\ (A \o B)[i].who = p
               /\ (A \o B)[i].understanding = reactions[p].understanding
  BY <1>2, <1>3
<1>5. /\ Len(A \o B) >= 3
      /\ \A i \in 1 .. Len(A \o B) : i <= 2 \/ i \in 3 .. Len(A \o B)
  BY <1>2, <1>3
<1>6. \A i \in 1 .. Len(A \o B) : (A \o B)[i].phase = k
  BY <1>1, <1>3, <1>4, <1>5
<1>7. QED
  BY <1>1, <1>3, <1>4, <1>5, <1>6 DEF EnterRows, A, B

\* The rows one say commits.
LEMMA SayRowsFacts ==
    ASSUME NEW k \in Phases, NEW target \in 0 .. Seats,
           NEW reactions \in [Responders(target) -> Reaction]
    PROVE  LET R == SayRows(k, target, reactions)
           IN  /\ R \in Seq(Row) /\ Len(R) >= 2
               /\ \A i \in 1 .. Len(R) : R[i].phase = k
               /\ R[1].kind = "say" /\ R[1].who = target
               /\ \A i \in 2 .. Len(R) : /\ R[i].kind = "student"
                                         /\ R[i].who \in Responders(target)
<1> DEFINE A == <<Line("say", k, target)>>
           B == StudentLines(k, target, reactions)
<1>1. A \in Seq(Row) /\ Len(A) = 1 /\ A[1].kind = "say" /\ A[1].phase = k
      /\ A[1].who = target
  BY LineType DEF Line, Kinds
<1>2. /\ B \in Seq(Row) /\ Len(B) >= 1
      /\ \A i \in 1 .. Len(B) : /\ B[i].kind = "student" /\ B[i].phase = k
                                /\ B[i].who \in Responders(target)
  BY StudentLinesFacts
<1> HIDE DEF A, B
<1>3. /\ A \o B \in Seq(Row) /\ Len(A \o B) = 1 + Len(B) /\ Len(B) \in Nat
      /\ (A \o B)[1] = A[1]
      /\ \A i \in 2 .. Len(A \o B) :
            i - 1 \in 1 .. Len(B) /\ (A \o B)[i] = B[i - 1]
  <2>1. /\ A \o B \in Seq(Row)
        /\ Len(A \o B) = Len(A) + Len(B)
        /\ \A i \in 1 .. Len(A) : (A \o B)[i] = A[i]
        /\ \A i \in 1 .. Len(A \o B) :
              i > Len(A) => i - Len(A) \in 1 .. Len(B)
                            /\ (A \o B)[i] = B[i - Len(A)]
    BY <1>1, <1>2, Appended
  <2>2. Len(B) \in Nat
    BY <1>2
  <2>3. QED
    BY <1>1, <2>1, <2>2
<1>4. \A i \in 2 .. Len(A \o B) :
         /\ (A \o B)[i].kind = "student" /\ (A \o B)[i].phase = k
         /\ (A \o B)[i].who \in Responders(target)
  BY <1>2, <1>3
<1>5. /\ Len(A \o B) >= 2
      /\ \A i \in 1 .. Len(A \o B) : i <= 1 \/ i \in 2 .. Len(A \o B)
  BY <1>2, <1>3
<1>6. \A i \in 1 .. Len(A \o B) : (A \o B)[i].phase = k
  BY <1>1, <1>3, <1>4, <1>5
<1>7. QED
  BY <1>1, <1>3, <1>4, <1>5, <1>6 DEF SayRows, A, B

\* A step that commits the rows R behind the others, in the current phase.
Commits(R) ==
    /\ status = "running"
    /\ R \in Seq(Row) /\ Len(R) >= 1
    /\ \A i \in 1 .. Len(R) : R[i].phase = phase
    /\ utterances' = utterances \o R

\* The prompt of the plan goes to everyone, each persona answers it once, and
\* nobody agrees yet.
EnterAnswers(R) ==
    /\ Len(R) >= 3 /\ R[2].kind = "plan" /\ R[2].who = Everyone
    /\ \A i \in 3 .. Len(R) :
          /\ R[i].kind = "student" /\ R[i].who = i - 2 /\ R[i].who \in Personas
          /\ R[i].understanding < AgreeThreshold

EnterShape(R) ==
    /\ Commits(R) /\ UNCHANGED <<status, phase>>
    /\ InPhase(phase) = {}
    /\ R[1].kind = "phase_enter"
    /\ \A i \in 2 .. Len(R) : R[i].kind \in {"plan", "student"}
    /\ EnterAnswers(R)

SayShape(R) ==
    /\ Commits(R) /\ UNCHANGED <<status, phase>>
    /\ InPhase(phase) # {}
    /\ TurnsUsed < MaxTurns
    /\ R[1].kind = "say" /\ R[1].who \in 0 .. Seats
    /\ \A i \in 2 .. Len(R) : R[i].kind = "student"
    /\ \A i \in 2 .. Len(R) : R[i].who \in Responders(R[1].who)

\* The transition row of a phase that is left, backed by the agreement.
LeavesPhase(R) ==
    /\ Commits(R)
    /\ R[1].kind \in Transitions
    /\ R[1].kind = "agree_advance" => AllAgreed(phase)

AdvanceShape(R) ==
    /\ LeavesPhase(R) /\ Len(R) = 1
    /\ phase + 1 \in Phases /\ phase' = phase + 1
    /\ UNCHANGED status

LastPhaseShape(R) ==
    /\ LeavesPhase(R) /\ Len(R) = 2 /\ R[2].kind = "last_phase"
    /\ phase + 1 = NPhases
    /\ status' = "finished" /\ UNCHANGED phase

FinishShape(R) ==
    /\ Commits(R) /\ Len(R) = 1 /\ R[1].kind = "finish"
    /\ status' = "finished" /\ UNCHANGED phase

\* A step that stores another reaction in row n.
RewriteShape(n, x) ==
    /\ status = "running" /\ UNCHANGED <<status, phase>>
    /\ n \in Positions /\ x \in Reaction
    /\ utterances[n].kind = "student" /\ utterances[n].phase = phase
    /\ utterances[n].who \in Personas
    /\ x.understanding >= AgreeThreshold =>
          \E r \in Requests :
             /\ ReadyToWrite(r, "regenerate") /\ ~req[r].first
             /\ req[r].row = n /\ n \in Mine(req[r].idx, req[r].arg)
    /\ utterances' = [utterances EXCEPT ![n] = Rewritten(@, x)]

DeleteShape ==
    status # "deleted" /\ status' = "deleted" /\ utterances' = <<>> /\ UNCHANGED phase

LEMMA RequestFields ==
    ASSUME TypeOK, NEW r \in Requests
    PROVE  /\ req[r] \in Request
           /\ req[r].idx \in Phases /\ req[r].arg \in 0 .. Seats
           /\ req[r].first \in BOOLEAN /\ req[r].row \in Nat
           /\ req[r].previous \in [Personas -> Levels \cup {None}]
BY DEF TypeOK, Request

LEMMA EnterStep ==
    ASSUME TypeOK, NEW r \in Requests, EnterWrite(r)
    PROVE  \E R \in Seq(Row) : EnterShape(R)
<1>1. PICK reactions \in [Personas -> Reactions(None, TRUE)] :
         utterances' = utterances \o EnterRows(phase, reactions)
  BY DEF EnterWrite, AppendRows, Locked
<1>2. reactions \in [Personas -> Reaction]
  <2>1. Reactions(None, TRUE) \subseteq Reaction
    BY ReactionsType
  <2>2. QED
    BY <2>1
<1>3. phase \in Phases
  BY DEF TypeOK
<1> DEFINE R == EnterRows(phase, reactions)
<1>4. /\ R \in Seq(Row) /\ Len(R) >= 3
      /\ \A i \in 1 .. Len(R) : R[i].phase = phase
      /\ R[1].kind = "phase_enter" /\ R[2].kind = "plan" /\ R[2].who = Everyone
      /\ \A i \in 3 .. Len(R) :
            /\ R[i].kind = "student" /\ R[i].who = i - 2
            /\ \E p \in Personas : /\ R[i].who = p
                  /\ R[i].understanding = reactions[p].understanding
  BY <1>2, <1>3, EnterRowsFacts
<1> HIDE DEF R
<1>5. Len(R) \in Nat
  BY <1>4
<1>6. \A i \in 2 .. Len(R) : R[i].kind \in {"plan", "student"}
  <2>1. ASSUME NEW i \in 2 .. Len(R)
        PROVE  i = 2 \/ i \in 3 .. Len(R)
    BY <1>5
  <2>2. QED
    BY <1>4, <2>1
<1>7. utterances' = utterances \o R
  BY <1>1 DEF R
<1>8. EnterAnswers(R)
  <2>1. \A p \in Personas : reactions[p].understanding < AgreeThreshold
    BY ReactionsType
  <2>2. QED
    BY <1>4, <2>1 DEF EnterAnswers
<1>9. EnterShape(R)
  BY <1>4, <1>6, <1>7, <1>8 DEF EnterShape, Commits, EnterWrite, Locked
<1>10. QED
  BY <1>4, <1>9

LEMMA SayStep ==
    ASSUME TypeOK, SayTarget, NEW r \in Requests, SayWrite(r)
    PROVE  \E R \in Seq(Row) : SayShape(R)
<1>1. phase \in Phases /\ req[r].idx = phase /\ status = "running"
      /\ req[r].arg \in 0 .. Seats
  BY RequestFields DEF TypeOK, SayWrite, Locked
<1>2. PICK target \in 0 .. Seats : target = req[r].arg
  BY <1>1
<1>3. PICK reactions \in [Responders(target) -> Reaction] :
         utterances' = utterances \o SayRows(phase, target, reactions)
  BY <1>1, <1>2 DEF SayWrite, AppendRows
<1> DEFINE R == SayRows(phase, target, reactions)
<1>4. /\ R \in Seq(Row) /\ Len(R) >= 2
      /\ \A i \in 1 .. Len(R) : R[i].phase = phase
      /\ R[1].kind = "say" /\ R[1].who = target
      /\ \A i \in 2 .. Len(R) : /\ R[i].kind = "student"
                                /\ R[i].who \in Responders(target)
  BY <1>1, SayRowsFacts
<1> HIDE DEF R
<1>5. utterances' = utterances \o R
  BY <1>3 DEF R
<1>6. InPhase(phase) # {}
  BY <1>1 DEF SayTarget, SayWrite
<1>7. UNCHANGED <<status, phase>> /\ TurnsUsed < MaxTurns
  BY DEF SayWrite
<1>8. Commits(R)
  BY <1>1, <1>4, <1>5 DEF Commits
<1>9. SayShape(R)
  BY <1>4, <1>6, <1>7, <1>8 DEF SayShape
<1>10. QED
  BY <1>4, <1>9

LEMMA TransitionRow ==
    ASSUME TypeOK, NEW r \in Requests, MayAdvance(r)
    PROVE  /\ TransitionLine(r) \in Row
           /\ TransitionLine(r).phase = phase
           /\ TransitionLine(r).kind \in Transitions
           /\ TransitionLine(r).kind = "agree_advance" => AllAgreed(phase)
           /\ status = "running"
<1>1. phase \in Phases /\ status = "running"
  BY DEF TypeOK, MayAdvance, Locked
<1>2. CASE req[r].op = "agree"
  <2>1. TransitionLine(r) = Line("agree_advance", phase, 0)
    BY <1>2 DEF TransitionLine
  <2>2. AllAgreed(phase)
    BY <1>2 DEF MayAdvance
  <2>3. QED
    BY <1>1, <2>1, <2>2, LineType DEF Line, Kinds, Transitions
<1>3. CASE req[r].op # "agree"
  <2>1. TransitionLine(r) = Line("skip", phase, 0)
    BY <1>3 DEF TransitionLine
  <2>2. QED
    BY <1>1, <2>1, LineType DEF Line, Kinds, Transitions
<1>4. QED
  BY <1>2, <1>3

LEMMA AdvanceStep ==
    ASSUME TypeOK, NEW r \in Requests, AdvanceWrite(r)
    PROVE  \E R \in Seq(Row) : AdvanceShape(R)
<1>1. phase \in Phases /\ phase + 1 \in Phases
  BY DEF TypeOK, AdvanceWrite, Phases
<1> DEFINE R == <<TransitionLine(r)>>
<1>2. TransitionLine(r) \in Row /\ TransitionLine(r).phase = phase
      /\ TransitionLine(r).kind \in Transitions
      /\ (TransitionLine(r).kind = "agree_advance" => AllAgreed(phase))
      /\ status = "running"
  BY TransitionRow DEF AdvanceWrite
<1>3. R \in Seq(Row) /\ Len(R) = 1 /\ R[1] = TransitionLine(r)
  BY <1>2
<1>4. utterances' = utterances \o R
  BY DEF AdvanceWrite, AppendRows
<1> HIDE DEF R
<1>5. AdvanceShape(R)
  BY <1>1, <1>2, <1>3, <1>4
     DEF AdvanceShape, LeavesPhase, Commits, AdvanceWrite
<1>6. QED
  BY <1>3, <1>5

LEMMA LastPhaseStep ==
    ASSUME TypeOK, NEW r \in Requests, AdvanceEnds(r)
    PROVE  \E R \in Seq(Row) : LastPhaseShape(R)
<1> DEFINE R == <<TransitionLine(r), Line("last_phase", phase, 0)>>
<1>1. TransitionLine(r) \in Row /\ TransitionLine(r).phase = phase
      /\ TransitionLine(r).kind \in Transitions
      /\ (TransitionLine(r).kind = "agree_advance" => AllAgreed(phase))
      /\ status = "running"
  BY TransitionRow DEF AdvanceEnds
<1>2. /\ Line("last_phase", phase, 0) \in Row
      /\ Line("last_phase", phase, 0).kind = "last_phase"
      /\ Line("last_phase", phase, 0).phase = phase
  BY LineType DEF TypeOK, Kinds, Ends, Line
<1>3. /\ R \in Seq(Row) /\ Len(R) = 2 /\ R[1] = TransitionLine(r)
      /\ R[2] = Line("last_phase", phase, 0)
  BY <1>1, <1>2
<1>4. utterances' = utterances \o R
  BY DEF AdvanceEnds, AppendRows
<1> HIDE DEF R
<1>5. \A i \in 1 .. Len(R) : R[i].phase = phase
  <2>1. \A i \in 1 .. 2 : i = 1 \/ i = 2
    OBVIOUS
  <2>2. QED
    BY <1>1, <1>2, <1>3, <2>1
<1>6. LastPhaseShape(R)
  BY <1>1, <1>2, <1>3, <1>4, <1>5
     DEF LastPhaseShape, LeavesPhase, Commits, AdvanceEnds
<1>7. QED
  BY <1>3, <1>6

LEMMA FinishStep ==
    ASSUME TypeOK, NEW r \in Requests, FinishWrite(r)
    PROVE  \E R \in Seq(Row) : FinishShape(R)
<1> DEFINE R == <<Line("finish", phase, 0)>>
<1>1. /\ Line("finish", phase, 0) \in Row
      /\ Line("finish", phase, 0).kind = "finish"
      /\ Line("finish", phase, 0).phase = phase
  BY LineType DEF TypeOK, Kinds, Ends, Line
<1>2. R \in Seq(Row) /\ Len(R) = 1 /\ R[1] = Line("finish", phase, 0)
  BY <1>1
<1>3. utterances' = utterances \o R /\ status = "running"
  BY DEF FinishWrite, AppendRows, Locked
<1> HIDE DEF R
<1>4. FinishShape(R)
  BY <1>1, <1>2, <1>3 DEF FinishShape, Commits, FinishWrite
<1>5. QED
  BY <1>2, <1>4

LEMMA RegenerateStep ==
    ASSUME TypeOK, RewriteTarget, NEW r \in Requests, RegenerateWrite(r)
    PROVE  /\ req[r].row \in Positions
           /\ req[r].previous[req[r].arg] \in Levels \cup {None}
           /\ \E x \in Reactions(req[r].previous[req[r].arg], req[r].first) :
                 x \in Reaction /\ RewriteShape(req[r].row, x)
<1>1. status = "running" /\ phase = req[r].idx
      /\ ReadyToWrite(r, "regenerate") /\ UNCHANGED <<status, phase>>
  BY DEF RegenerateWrite, Locked
<1>2. /\ req[r].row \in Positions
      /\ utterances[req[r].row].kind = "student"
      /\ utterances[req[r].row].phase = phase
      /\ utterances[req[r].row].who \in Personas
      /\ req[r].row \in Mine(req[r].idx, req[r].arg)
  BY <1>1 DEF RewriteTarget, Mine, InPhase, TypeOK, ReadyToWrite
<1>3. req[r].previous[req[r].arg] \in Levels \cup {None}
  <2>1. req[r].arg \in Personas
    BY <1>1 DEF TypeOK, ReadyToWrite
  <2>2. QED
    BY <2>1, RequestFields
<1>4. PICK x \in Reactions(req[r].previous[req[r].arg], req[r].first) :
         utterances' = [utterances EXCEPT ![req[r].row] = Rewritten(@, x)]
  BY DEF RegenerateWrite
<1>5. x \in Reaction /\ (req[r].first => x.understanding < AgreeThreshold)
  <2>1. req[r].first \in BOOLEAN
    BY RequestFields
  <2>2. Reactions(req[r].previous[req[r].arg], req[r].first) \subseteq Reaction
        /\ (req[r].first =>
              \A y \in Reactions(req[r].previous[req[r].arg], req[r].first) :
                 y.understanding < AgreeThreshold)
    BY <1>3, <2>1, ReactionsType
  <2>3. QED
    BY <2>2
<1>6. RewriteShape(req[r].row, x)
  <2>1. x.understanding >= AgreeThreshold => ~req[r].first
    <3>1. x.understanding \in Int
      BY <1>5 DEF Reaction, Levels, None
    <3>2. QED
      BY <1>5, <3>1
  <2>2. QED
    BY <1>1, <1>2, <1>4, <1>5, <2>1 DEF RewriteShape
<1>7. QED
  BY <1>2, <1>3, <1>5, <1>6

\* Whatever a step does to the session and its rows, it is one of these.
LEMMA StepShapes ==
    ASSUME TypeOK, SayTarget, RewriteTarget, [Next]_vars
    PROVE  \/ UNCHANGED <<status, phase, utterances>>
           \/ \E R \in Seq(Row) : \/ EnterShape(R) \/ SayShape(R)
                                  \/ AdvanceShape(R) \/ LastPhaseShape(R)
                                  \/ FinishShape(R)
           \/ \E n \in Positions, x \in Reaction : RewriteShape(n, x)
           \/ DeleteShape
<1>1. CASE UNCHANGED vars
  BY <1>1 DEF vars
<1>2. CASE DeleteUser
  BY <1>2 DEF DeleteUser, DeleteShape
<1>3. ASSUME NEW r \in Requests, Arrive(r) \/ Drop(r)
      PROVE  UNCHANGED <<status, phase, utterances>>
  BY <1>3 DEF Arrive, Load, Drop
<1>4. ASSUME NEW r \in Requests, Refuse(r) \/ Ask(r) \/ LockLost(r)
      PROVE  UNCHANGED <<status, phase, utterances>>
  BY <1>4 DEF Refuse, Ask, LockLost
<1>5. ASSUME NEW r \in Requests, EnterStored(r) \/ SayOverLimit(r) \/ AgreeRefused(r)
      PROVE  UNCHANGED <<status, phase, utterances>>
  BY <1>5 DEF EnterStored, SayOverLimit, AgreeRefused
<1>6. ASSUME NEW r \in Requests, RegenerateWrite(r)
      PROVE  \E n \in Positions, x \in Reaction : RewriteShape(n, x)
  BY <1>6, RegenerateStep
<1>7. CASE Next
  BY <1>2, <1>3, <1>4, <1>5, <1>6, <1>7, EnterStep, SayStep, AdvanceStep,
     LastPhaseStep, FinishStep DEF Next, Proceed, Write
<1>8. QED
  BY <1>1, <1>7

\* Every row stays a row, and every commit puts rows at the end.
LEMMA CommitFacts ==
    ASSUME TypeOK, NEW R \in Seq(Row), Commits(R)
    PROVE  /\ utterances' \in Seq(Row)
           /\ Positions \subseteq Positions'
           /\ Len(utterances') = Len(utterances) + Len(R)
           /\ Positions' = 1 .. Len(utterances')
           /\ \A i \in Positions : utterances'[i] = utterances[i]
           /\ \A i \in Positions' : i \notin Positions =>
                 /\ i - Len(utterances) \in 1 .. Len(R)
                 /\ utterances'[i] = R[i - Len(utterances)]
                 /\ utterances'[i].phase = phase
                 /\ i > Len(utterances)
<1>1. utterances \in Seq(Row) /\ utterances' = utterances \o R
  BY DEF TypeOK, Commits
<1>2. /\ utterances \o R \in Seq(Row)
      /\ Len(utterances \o R) = Len(utterances) + Len(R)
      /\ \A i \in 1 .. Len(utterances) : (utterances \o R)[i] = utterances[i]
      /\ \A i \in 1 .. Len(utterances \o R) :
            i > Len(utterances) =>
               i - Len(utterances) \in 1 .. Len(R)
               /\ (utterances \o R)[i] = R[i - Len(utterances)]
  BY <1>1, Appended
<1>3. Positions = 1 .. Len(utterances) /\ Positions' = 1 .. Len(utterances')
  BY <1>1, <1>2 DEF Positions
<1>4. Len(utterances) \in Nat /\ Len(R) \in Nat
  BY <1>1
<1>5. \A i \in Positions' : i \notin Positions => i > Len(utterances)
  BY <1>3, <1>4
<1>6. QED
  BY <1>1, <1>2, <1>3, <1>4, <1>5 DEF Commits

LEMMA RewriteFacts ==
    ASSUME TypeOK, NEW n \in Positions, NEW x \in Reaction, RewriteShape(n, x)
    PROVE  /\ utterances' \in Seq(Row)
           /\ Len(utterances') = Len(utterances)
           /\ Positions' = Positions
           /\ \A i \in Positions : i # n => utterances'[i] = utterances[i]
           /\ \A i \in Positions : /\ utterances'[i].kind = utterances[i].kind
                                   /\ utterances'[i].phase = utterances[i].phase
                                   /\ utterances'[i].who = utterances[i].who
<1>1. utterances[n] \in Row
  BY PositionSets
<1> DEFINE new == Rewritten(utterances[n], x)
<1>2. /\ new \in Row /\ new.kind = utterances[n].kind
      /\ new.phase = utterances[n].phase /\ new.who = utterances[n].who
  BY <1>1 DEF Rewritten, Row, Reaction
<1>3. utterances' = [utterances EXCEPT ![n] = new]
  BY DEF RewriteShape
<1> HIDE DEF new
<1>4. utterances \in Seq(Row) /\ n \in 1 .. Len(utterances)
  BY PositionSets DEF TypeOK
<1>5. /\ utterances' \in Seq(Row) /\ Len(utterances') = Len(utterances)
      /\ utterances'[n] = new
      /\ \A i \in 1 .. Len(utterances) : i # n => utterances'[i] = utterances[i]
  BY <1>2, <1>3, <1>4
<1>6. QED
  BY <1>2, <1>4, <1>5 DEF Positions

-----------------------------------------------------------------------------
(* The requests.                                                           *)

\* What a request remembers while it asks is of the right type, and the row
\* that regenerate will rewrite is one of the persona's rows.
LEMMA SnapshotFacts ==
    ASSUME TypeOK, NEW r \in Requests, Ask(r)
    PROVE  /\ Snapshot(r) \in Request
           /\ Snapshot(r).op = req[r].op /\ Snapshot(r).idx = req[r].idx
           /\ Snapshot(r).arg = req[r].arg
           /\ req[r].op = "regenerate" =>
                 /\ Snapshot(r).row \in Mine(req[r].idx, req[r].arg)
                 /\ Snapshot(r).first \/ \E m \in Mine(req[r].idx, req[r].arg) :
                                             m < Snapshot(r).row
<1>1. PICK q \in Request : q = req[r]
  BY RequestFields
<1>2. q.op \in AskingOps
  BY <1>1 DEF Ask
<1>3. CASE q.op = "enter"
  BY <1>1, <1>3 DEF Snapshot
<1>4. CASE q.op = "say"
  <2> DEFINE seen == [p \in Personas |->
                         IF p \in Responders(q.arg)
                         THEN Previous(q.idx, p, Len(utterances) + 1) ELSE None]
  <2>1. \A p \in Personas :
           Previous(q.idx, p, Len(utterances) + 1) \in Levels \cup {None}
    BY PreviousType
  <2>2. seen \in [Personas -> Levels \cup {None}]
    BY <2>1
  <2>3. Snapshot(r) = [q EXCEPT !.previous = seen]
    BY <1>1, <1>4 DEF Snapshot
  <2> HIDE DEF seen
  <2>4. QED
    BY <1>1, <1>4, <2>2, <2>3 DEF Request
<1>5. CASE q.op = "regenerate"
  <2> DEFINE row == Max(Mine(q.idx, q.arg))
             seen == [p \in Personas |->
                         IF p = q.arg THEN Previous(q.idx, q.arg, row) ELSE None]
             only == Mine(q.idx, q.arg) = {row}
  <2>1. Mine(q.idx, q.arg) # {}
    BY <1>1, <1>5 DEF Ask, Refused, Regenerable
  <2>2. Mine(q.idx, q.arg) \in SUBSET Positions
    BY DEF Mine, InPhase
  <2>3. row \in Mine(q.idx, q.arg) /\ row \in Positions
    BY <2>1, <2>2, PositionSets, MaxOfFinite
  <2>4. row \in Nat
    BY <2>3, PositionSets DEF TypeOK
  <2>9. only \/ \E m \in Mine(q.idx, q.arg) : m < row
    <3>1. \A m \in Mine(q.idx, q.arg) : m <= row /\ m \in Int
      BY <2>1, <2>2, PositionSets, MaxOfFinite
    <3>2. QED
      BY <2>3, <2>4, <3>1
  <2>5. Previous(q.idx, q.arg, row) \in Levels \cup {None}
    BY PreviousType
  <2>6. seen \in [Personas -> Levels \cup {None}] /\ only \in BOOLEAN
    BY <2>5
  <2>7. Snapshot(r) = [q EXCEPT !.row = row, !.first = only, !.previous = seen]
    BY <1>1, <1>5 DEF Snapshot
  <2> HIDE DEF row, seen, only
  <2>8. /\ Snapshot(r) \in Request /\ Snapshot(r).row = row
        /\ Snapshot(r).first = only
        /\ Snapshot(r).op = q.op /\ Snapshot(r).idx = q.idx /\ Snapshot(r).arg = q.arg
    BY <1>1, <2>4, <2>6, <2>7 DEF Request
  <2>10. Snapshot(r).first \/ \E m \in Mine(q.idx, q.arg) : m < row
    BY Zenon, <2>8, <2>9
  <2>11. QED
    BY <1>1, <1>5, <2>3, <2>8, <2>10
<1>6. QED
  BY <1>2, <1>3, <1>4, <1>5 DEF AskingOps

LEMMA IdleType == Idle \in Request /\ Idle.op = "none" /\ Idle.pc = "idle"
BY DEF Idle, Request, Phases, Levels

\* A request becomes "asking" only by Ask; it is loaded with an argument of
\* its operation.
LEMMA RequestStep ==
    ASSUME TypeOK, [Next]_vars
    PROVE  /\ req' \in [Requests -> Request]
           /\ \A r \in Requests :
                 /\ req'[r].op = "regenerate" => req'[r].arg \in Personas
                 /\ req'[r] = req[r] \/ req'[r].pc # "asking" \/ Ask(r)
<1>1. req \in [Requests -> Request]
      /\ \A r \in Requests : req[r].op = "regenerate" => req[r].arg \in Personas
  BY DEF TypeOK
<1>2. CASE UNCHANGED req
  BY <1>1, <1>2
<1>3. ASSUME NEW r \in Requests, Return(r)
      PROVE  /\ req' \in [Requests -> Request]
             /\ \A s \in Requests :
                   /\ req'[s].op = "regenerate" => req'[s].arg \in Personas
                   /\ req'[s] = req[s] \/ req'[s].pc # "asking" \/ Ask(s)
  BY <1>1, <1>3, IdleType DEF Return
<1>4. ASSUME NEW r \in Requests, Ask(r)
      PROVE  /\ req' \in [Requests -> Request]
             /\ \A s \in Requests :
                   /\ req'[s].op = "regenerate" => req'[s].arg \in Personas
                   /\ req'[s] = req[s] \/ req'[s].pc # "asking" \/ Ask(s)
  <2>1. PICK q \in Request : q = Snapshot(r)
    BY <1>4, SnapshotFacts
  <2>2. q.op = req[r].op /\ q.arg = req[r].arg
    BY <1>4, <2>1, SnapshotFacts
  <2> DEFINE new == [q EXCEPT !.pc = "asking"]
  <2>3. new \in Request /\ new.op = q.op /\ new.arg = q.arg
    BY DEF Request
  <2>4. req' = [req EXCEPT ![r] = new]
    BY <1>4, <2>1 DEF Ask
  <2> HIDE DEF new
  <2>5. QED
    BY <1>1, <1>4, <2>2, <2>3, <2>4
<1>5. ASSUME NEW r \in Requests, Arrive(r)
      PROVE  /\ req' \in [Requests -> Request]
             /\ \A s \in Requests :
                   /\ req'[s].op = "regenerate" => req'[s].arg \in Personas
                   /\ req'[s] = req[s] \/ req'[s].pc # "asking" \/ Ask(s)
  <2>1. PICK op \in Ops, arg \in 0 .. Seats : Load(r, op, arg)
    BY <1>5 DEF Arrive
  <2> DEFINE new == [Idle EXCEPT !.op = op, !.pc = "loaded",
                                 !.idx = phase, !.arg = arg]
  <2>2. phase \in Phases /\ (op = "regenerate" => arg \in Personas)
    BY <2>1 DEF TypeOK, Load, Arguments
  <2>3. new \in Request /\ new.op = op /\ new.arg = arg /\ new.pc = "loaded"
    BY <2>2, IdleType DEF Request, Idle
  <2>4. req' = [req EXCEPT ![r] = new]
    BY <2>1 DEF Load
  <2> HIDE DEF new
  <2>5. QED
    BY <1>1, <2>2, <2>3, <2>4
<1>6. CASE Next
  <2>1. ASSUME NEW r \in Requests, Write(r) \/ LockLost(r) \/ Refuse(r) \/ Drop(r)
        PROVE  Return(r)
    BY <2>1 DEF Write, LockLost, Refuse, Drop, EnterStored, EnterWrite,
       SayOverLimit, SayWrite, RegenerateWrite, AgreeRefused, AdvanceWrite,
       AdvanceEnds, FinishWrite
  <2>2. CASE DeleteUser
    BY <1>2, <2>2 DEF DeleteUser
  <2>3. QED
    BY <1>3, <1>4, <1>5, <1>6, <2>1, <2>2 DEF Next, Proceed
<1>7. QED
  BY <1>2, <1>6 DEF vars

\* Every step leaves every variable in its type.
LEMMA TypeStep ==
    ASSUME TypeOK, SayTarget, RewriteTarget, [Next]_vars
    PROVE  TypeOK'
<1>1. /\ req' \in [Requests -> Request]
      /\ \A r \in Requests : req'[r].op = "regenerate" => req'[r].arg \in Personas
  BY RequestStep
<1>2. CASE UNCHANGED <<status, phase, utterances>>
  BY <1>1, <1>2 DEF TypeOK
<1>3. ASSUME NEW R \in Seq(Row), EnterShape(R) \/ SayShape(R) \/ AdvanceShape(R)
                                 \/ LastPhaseShape(R) \/ FinishShape(R)
      PROVE  TypeOK'
  <2>1. Commits(R)
    BY <1>3 DEF EnterShape, SayShape, AdvanceShape, LastPhaseShape, FinishShape,
       LeavesPhase
  <2>2. utterances' \in Seq(Row)
    BY <2>1, CommitFacts
  <2>3. status' \in {"running", "finished", "deleted"} /\ phase' \in Phases
    BY <1>3 DEF EnterShape, SayShape, AdvanceShape, LastPhaseShape, FinishShape,
       TypeOK
  <2>4. QED
    BY <1>1, <2>2, <2>3 DEF TypeOK
<1>4. ASSUME NEW n \in Positions, NEW x \in Reaction, RewriteShape(n, x)
      PROVE  TypeOK'
  <2>1. utterances' \in Seq(Row)
    BY <1>4, RewriteFacts
  <2>2. QED
    BY <1>1, <1>4, <2>1 DEF TypeOK, RewriteShape
<1>5. CASE DeleteShape
  BY <1>1, <1>5 DEF TypeOK, DeleteShape
<1>6. QED
  BY <1>2, <1>3, <1>4, <1>5, StepShapes

\* Until the session is deleted no row goes away or changes its kind, phase
\* or persona.
LEMMA RowsKept ==
    ASSUME TypeOK, SayTarget, RewriteTarget, [Next]_vars, status' # "deleted"
    PROVE  /\ UNCHANGED status \/ status = "running"
           /\ Positions \subseteq Positions'
           /\ \A i \in Positions : /\ utterances'[i].kind = utterances[i].kind
                                   /\ utterances'[i].phase = utterances[i].phase
                                   /\ utterances'[i].who = utterances[i].who
<1>1. CASE UNCHANGED <<status, phase, utterances>>
  BY <1>1 DEF Positions
<1>2. ASSUME NEW R \in Seq(Row), Commits(R)
      PROVE  /\ Positions \subseteq Positions' /\ status = "running"
             /\ \A i \in Positions : utterances'[i] = utterances[i]
  BY <1>2, CommitFacts DEF Commits
<1>3. ASSUME NEW n \in Positions, NEW x \in Reaction, RewriteShape(n, x)
      PROVE  /\ Positions \subseteq Positions' /\ UNCHANGED status
             /\ \A i \in Positions : /\ utterances'[i].kind = utterances[i].kind
                                     /\ utterances'[i].phase = utterances[i].phase
                                     /\ utterances'[i].who = utterances[i].who
  BY <1>3, RewriteFacts DEF RewriteShape
<1>4. QED
  BY <1>1, <1>2, <1>3, StepShapes DEF DeleteShape, EnterShape, SayShape,
     AdvanceShape, LastPhaseShape, FinishShape, LeavesPhase

-----------------------------------------------------------------------------
(* Each part of the inductive invariant is preserved.                      *)

LEMMA SayTargetStep ==
    ASSUME TypeOK, SayTarget, RewriteTarget, [Next]_vars
    PROVE  SayTarget'
<1> SUFFICES ASSUME NEW r \in Requests, ReadyToWrite(r, "say")', status' # "deleted"
             PROVE  InPhase(req[r].idx)' # {}
  BY DEF SayTarget
<1>1. req'[r].op = "say" /\ req'[r].pc = "asking"
  BY DEF ReadyToWrite, AskingOps
<1>2. InPhase(req'[r].idx) # {}
  <2>1. CASE req'[r] = req[r]
    <3>1. ReadyToWrite(r, "say") /\ status # "deleted"
      BY <1>1, <2>1, RowsKept DEF ReadyToWrite, AskingOps
    <3>2. QED
      BY <2>1, <3>1 DEF SayTarget
  <2>2. CASE Ask(r)
    <3>1. PICK q \in Request : q = Snapshot(r)
      BY <2>2, SnapshotFacts
    <3>2. req'[r] = [q EXCEPT !.pc = "asking"]
      BY <2>2, <3>1 DEF Ask, TypeOK
    <3>3. req[r].op = "say" /\ req'[r].idx = req[r].idx
      BY <1>1, <2>2, <3>1, <3>2, SnapshotFacts DEF Request
    <3>4. QED
      BY <2>2, <3>3 DEF Ask, Refused
  <2>3. QED
    BY <1>1, <2>1, <2>2, RequestStep
<1>3. PICK i \in Positions : utterances[i].phase = req'[r].idx
  BY <1>2 DEF InPhase
<1>4. i \in Positions' /\ utterances'[i].phase = req'[r].idx
  BY <1>3, RowsKept
<1>5. QED
  BY <1>4 DEF InPhase

LEMMA RewriteTargetStep ==
    ASSUME TypeOK, SayTarget, RewriteTarget, [Next]_vars
    PROVE  RewriteTarget'
<1> SUFFICES ASSUME NEW r \in Requests, ReadyToWrite(r, "regenerate")',
                    status' # "deleted"
             PROVE  req'[r].row \in Mine(req[r].idx, req[r].arg)'
  BY DEF RewriteTarget
<1>1. req'[r].op = "regenerate" /\ req'[r].pc = "asking"
  BY DEF ReadyToWrite, AskingOps
<1>2. req'[r].row \in Mine(req'[r].idx, req'[r].arg)
  <2>1. CASE req'[r] = req[r]
    <3>1. ReadyToWrite(r, "regenerate") /\ status # "deleted"
      BY <1>1, <2>1, RowsKept DEF ReadyToWrite, AskingOps
    <3>2. QED
      BY <2>1, <3>1 DEF RewriteTarget
  <2>2. CASE Ask(r)
    <3>1. PICK q \in Request : q = Snapshot(r)
      BY <2>2, SnapshotFacts
    <3>2. req'[r] = [q EXCEPT !.pc = "asking"]
      BY <2>2, <3>1 DEF Ask, TypeOK
    <3>3. /\ req'[r].op = q.op /\ req'[r].idx = q.idx
          /\ req'[r].arg = q.arg /\ req'[r].row = q.row
      BY <3>2 DEF Request
    <3>4. QED
      BY <1>1, <2>2, <3>1, <3>3, SnapshotFacts
  <2>3. QED
    BY <1>1, <2>1, <2>2, RequestStep
<1>3. PICK i \in Positions :
         /\ i = req'[r].row /\ utterances[i].phase = req'[r].idx
         /\ utterances[i].kind = "student" /\ utterances[i].who = req'[r].arg
  BY <1>2 DEF Mine, InPhase
<1>4. /\ i \in Positions' /\ utterances'[i].phase = req'[r].idx
      /\ utterances'[i].kind = "student" /\ utterances'[i].who = req'[r].arg
  BY <1>3, RowsKept
<1>5. QED
  BY <1>3, <1>4 DEF Mine, InPhase

LEMMA RowsBelowStep ==
    ASSUME TypeOK, SayTarget, RewriteTarget, RowsBelow, [Next]_vars
    PROVE  RowsBelow'
<1>1. CASE UNCHANGED <<status, phase, utterances>>
  BY <1>1 DEF RowsBelow, Positions, KindAt, PhaseAt
<1>2. ASSUME NEW R \in Seq(Row), EnterShape(R) \/ SayShape(R)
      PROVE  RowsBelow'
  <2>1. Commits(R) /\ UNCHANGED <<status, phase>> /\ phase \in Nat
    BY <1>2 DEF EnterShape, SayShape, TypeOK, Phases
  <2>2. \A i \in 1 .. Len(R) : R[i].kind \notin Transitions
    <3>1. \A i \in 1 .. Len(R) : i = 1 \/ i \in 2 .. Len(R)
      OBVIOUS
    <3>2. QED
      BY <1>2, <3>1 DEF EnterShape, SayShape, Transitions
  <2>3. QED
    BY SMTT(30), <2>1, <2>2, CommitFacts DEF RowsBelow, KindAt, PhaseAt
<1>3. ASSUME NEW R \in Seq(Row), AdvanceShape(R)
      PROVE  RowsBelow'
  <2>1. Commits(R) /\ phase' = phase + 1 /\ phase \in Nat
    BY <1>3 DEF AdvanceShape, LeavesPhase, TypeOK, Phases
  <2>2. \A i \in Positions : utterances[i].phase <= phase
                             /\ utterances[i].phase \in Nat
    <3>1. \A i \in Positions : utterances[i].phase \in Nat
      BY PositionSets DEF Row, Phases
    <3>2. QED
      BY <3>1 DEF RowsBelow, PhaseAt
  <2>3. \A i \in Positions' : utterances'[i].phase <= phase
                              /\ utterances'[i].phase \in Nat
    BY SMTT(30), <2>1, <2>2, CommitFacts
  <2>4. QED
    BY <2>1, <2>3 DEF RowsBelow, KindAt, PhaseAt
<1>4. ASSUME NEW R \in Seq(Row), LastPhaseShape(R) \/ FinishShape(R)
      PROVE  RowsBelow'
  <2>1. Commits(R) /\ phase' = phase /\ status' = "finished" /\ phase \in Nat
    BY <1>4 DEF LastPhaseShape, FinishShape, LeavesPhase, TypeOK, Phases
  <2>2. QED
    BY <2>1, CommitFacts DEF RowsBelow, KindAt, PhaseAt
<1>5. ASSUME NEW n \in Positions, NEW x \in Reaction, RewriteShape(n, x)
      PROVE  RowsBelow'
  BY <1>5, RewriteFacts DEF RowsBelow, KindAt, PhaseAt, RewriteShape
<1>6. CASE DeleteShape
  BY <1>6 DEF RowsBelow, DeleteShape, Positions
<1>7. QED
  BY <1>1, <1>2, <1>3, <1>4, <1>5, <1>6, StepShapes

\* What the teacher types is one turn.
LEMMA SayTurn ==
    ASSUME TypeOK, NEW R \in Seq(Row), SayShape(R)
    PROVE  TurnsUsed \in Nat /\ TurnsUsed' = TurnsUsed + 1
<1> DEFINE last == Len(utterances) + 1
<1>0. IsFiniteSet(UserTurns) /\ Cardinality(UserTurns) \in Nat
  <2>1. UserTurns \in SUBSET Positions
    BY DEF UserTurns
  <2>2. IsFiniteSet(UserTurns)
    BY <2>1, PositionSets
  <2>3. QED
    BY <2>2, FS_CardinalityType
<1>1. Commits(R) /\ R[1].kind = "say"
      /\ \A i \in 2 .. Len(R) : R[i].kind = "student"
  BY DEF SayShape
<1>2. Len(utterances) \in Nat /\ Len(R) \in Nat /\ Len(R) >= 1
  BY <1>1 DEF TypeOK, Commits
<1>3. last \in Positions' /\ last \notin Positions
  BY <1>1, <1>2, CommitFacts, PositionSets
<1>4. \A i \in Positions' : i \notin Positions =>
         (utterances'[i].kind = "say" <=> i = last)
  <2> SUFFICES ASSUME NEW i \in Positions', i \notin Positions
               PROVE  utterances'[i].kind = "say" <=> i = last
    OBVIOUS
  <2>1. /\ i - Len(utterances) \in 1 .. Len(R) /\ i \in Int
        /\ utterances'[i] = R[i - Len(utterances)]
    BY <1>1, <1>2, CommitFacts
  <2>2. CASE i = last
    BY <1>1, <1>2, <2>1, <2>2
  <2>3. CASE i # last
    <3>1. i - Len(utterances) \in 2 .. Len(R)
      BY <1>2, <2>1, <2>3
    <3>2. QED
      BY <1>1, <2>1, <2>3, <3>1
  <2>4. QED
    BY <2>2, <2>3
<1>5. UserTurns' = UserTurns \cup {last}
  <2> HIDE DEF last
  <2>1. QED
    BY <1>1, <1>3, <1>4, CommitFacts DEF UserTurns
<1>6. last \notin UserTurns
  BY <1>3 DEF UserTurns
<1>7. Cardinality(UserTurns') = Cardinality(UserTurns) + 1
  BY <1>0, <1>5, <1>6, FS_AddElement
<1>8. QED
  BY <1>0, <1>7 DEF TurnsUsed

LEMMA TurnBudgetStep ==
    ASSUME TypeOK, SayTarget, RewriteTarget, TurnBudget, [Next]_vars
    PROVE  TurnBudget'
<1>1. CASE UNCHANGED <<status, phase, utterances>>
  <2>1. UserTurns' = UserTurns
    BY <1>1 DEF UserTurns, Positions
  <2>2. QED
    BY <2>1 DEF TurnBudget, TurnsUsed
<1>2. ASSUME NEW R \in Seq(Row), SayShape(R)
      PROVE  TurnBudget'
  <2>1. TurnsUsed \in Nat /\ TurnsUsed' = TurnsUsed + 1 /\ TurnsUsed < MaxTurns
    BY <1>2, SayTurn DEF SayShape
  <2>2. QED
    BY <2>1 DEF TurnBudget
<1>3. ASSUME NEW R \in Seq(Row), EnterShape(R) \/ AdvanceShape(R)
                                 \/ LastPhaseShape(R) \/ FinishShape(R)
      PROVE  TurnBudget'
  <2>1. Commits(R)
    BY <1>3 DEF EnterShape, AdvanceShape, LastPhaseShape, FinishShape, LeavesPhase
  <2>2. \A i \in 1 .. Len(R) : R[i].kind # "say"
    <3>1. \A i \in 1 .. Len(R) : i = 1 \/ i \in 2 .. Len(R)
      OBVIOUS
    <3>2. CASE EnterShape(R)
      BY <3>1, <3>2 DEF EnterShape
    <3>3. CASE LastPhaseShape(R)
      <4>1. \A i \in 1 .. 2 : i = 1 \/ i = 2
        OBVIOUS
      <4>2. QED
        BY <3>3, <4>1 DEF LastPhaseShape, LeavesPhase, Transitions
    <3>4. CASE AdvanceShape(R) \/ FinishShape(R)
      BY <3>4 DEF AdvanceShape, FinishShape, LeavesPhase, Transitions
    <3>5. QED
      BY <1>3, <3>2, <3>3, <3>4
  <2>3. UserTurns' = UserTurns
    BY <2>1, <2>2, CommitFacts DEF UserTurns
  <2>4. QED
    BY <2>3 DEF TurnBudget, TurnsUsed
<1>4. ASSUME NEW n \in Positions, NEW x \in Reaction, RewriteShape(n, x)
      PROVE  TurnBudget'
  <2>1. UserTurns' = UserTurns
    BY <1>4, RewriteFacts DEF UserTurns
  <2>2. QED
    BY <2>1 DEF TurnBudget, TurnsUsed
<1>5. CASE DeleteShape
  <2>1. UserTurns' = {}
    BY <1>5 DEF DeleteShape, UserTurns, Positions
  <2>2. QED
    BY <2>1, FS_EmptySet DEF TurnBudget, TurnsUsed
<1>6. QED
  BY <1>1, <1>2, <1>3, <1>4, <1>5, StepShapes

LEMMA OpenedStep ==
    ASSUME TypeOK, SayTarget, RewriteTarget, RowsBelow, EndIsLastRow,
           OpenedOnceBeforeUse, [Next]_vars
    PROVE  OpenedOnceBeforeUse'
<1> DEFINE last == Len(utterances) + 1
<1>1. CASE UNCHANGED <<status, phase, utterances>>
  BY <1>1 DEF OpenedOnceBeforeUse, Positions, KindAt, PhaseAt
<1>2. ASSUME NEW R \in Seq(Row), EnterShape(R)
      PROVE  OpenedOnceBeforeUse'
  <2>1. Commits(R) /\ InPhase(phase) = {} /\ R[1].kind = "phase_enter"
        /\ \A i \in 2 .. Len(R) : R[i].kind \in {"plan", "student"}
    BY <1>2 DEF EnterShape
  <2>2. Len(utterances) \in Nat /\ Len(R) \in Nat /\ Len(R) >= 1
    BY <2>1 DEF TypeOK, Commits
  <2>3. \A i \in Positions : utterances[i].phase # phase /\ i < last /\ i \in Nat
    BY <2>1, <2>2, PositionSets DEF InPhase
  <2>4. last \in Positions' /\ last \notin Positions
    BY <2>1, <2>2, CommitFacts, PositionSets
  <2>5. utterances'[last] = R[1]
    <3>1. utterances'[last] = R[last - Len(utterances)]
      <4> HIDE DEF last
      <4>1. QED
        BY <2>1, <2>4, CommitFacts
    <3>2. last - Len(utterances) = 1
      BY <2>2
    <3>3. QED
      BY <3>1, <3>2
  <2>6. \A i \in Positions' : i \notin Positions =>
           /\ i >= last /\ utterances'[i].phase = phase
           /\ utterances'[i].kind = "phase_enter" => i = last
    <3> SUFFICES ASSUME NEW i \in Positions', i \notin Positions
                 PROVE  /\ i >= last /\ utterances'[i].phase = phase
                        /\ utterances'[i].kind = "phase_enter" => i = last
      OBVIOUS
    <3>1. /\ i - Len(utterances) \in 1 .. Len(R) /\ i \in Int
          /\ utterances'[i] = R[i - Len(utterances)]
          /\ utterances'[i].phase = phase
      BY <2>1, <2>2, CommitFacts
    <3>2. CASE i # last
      <4>1. i - Len(utterances) \in 2 .. Len(R)
        BY <2>2, <3>1, <3>2
      <4>2. QED
        BY <2>1, <2>2, <3>1, <4>1
    <3>3. QED
      BY <2>2, <3>1, <3>2
  <2>7. \A i, j \in Positions' :
           /\ utterances'[i].kind = "phase_enter"
           /\ utterances'[j].kind = "phase_enter"
           /\ utterances'[i].phase = utterances'[j].phase
           => i = j
    <3> HIDE DEF last
    <3>1. QED
      BY <2>1, <2>3, <2>6, CommitFacts DEF OpenedOnceBeforeUse, KindAt, PhaseAt
  <2>8. \A i \in Positions' : utterances'[i].kind \in {"plan", "say", "student"} =>
           \E j \in 1 .. i - 1 : /\ utterances'[j].kind = "phase_enter"
                                 /\ utterances'[j].phase = utterances'[i].phase
    <3> SUFFICES ASSUME NEW i \in Positions',
                        utterances'[i].kind \in {"plan", "say", "student"}
                 PROVE  \E j \in 1 .. i - 1 :
                           /\ utterances'[j].kind = "phase_enter"
                           /\ utterances'[j].phase = utterances'[i].phase
      OBVIOUS
    <3>1. CASE i \in Positions
      <4>1. utterances'[i] = utterances[i]
        BY <2>1, <3>1, CommitFacts
      <4>2. PICK j \in 1 .. i - 1 : /\ utterances[j].kind = "phase_enter"
                                    /\ utterances[j].phase = utterances[i].phase
        BY <3>1, <4>1 DEF OpenedOnceBeforeUse, KindAt, PhaseAt
      <4>3. j \in Positions
        BY <2>2, <3>1, <4>2, PositionSets
      <4>4. QED
        BY <2>1, <4>1, <4>2, <4>3, CommitFacts
    <3>2. CASE i \notin Positions
      <4>1. i >= last /\ utterances'[i].phase = phase /\ i \in Int
        BY <2>1, <2>6, <3>2, CommitFacts
      <4>2. i # last /\ R[1].phase = phase
        BY <2>1, <2>2, <2>5 DEF Commits
      <4>3. last \in 1 .. i - 1
        BY <2>2, <4>1, <4>2
      <4>4. QED
        BY <2>1, <2>5, <4>1, <4>2, <4>3
    <3>3. QED
      BY <3>1, <3>2
  <2>9. QED
    BY <2>7, <2>8 DEF OpenedOnceBeforeUse, KindAt, PhaseAt
<1>3. ASSUME NEW R \in Seq(Row), SayShape(R) \/ AdvanceShape(R)
                                 \/ LastPhaseShape(R) \/ FinishShape(R)
      PROVE  OpenedOnceBeforeUse'
  <2>1. Commits(R)
    BY <1>3 DEF SayShape, AdvanceShape, LastPhaseShape, FinishShape, LeavesPhase
  <2>2. Len(utterances) \in Nat /\ Len(R) \in Nat
    BY <2>1 DEF TypeOK, Commits
  <2>3. \A i \in 1 .. Len(R) :
           /\ R[i].kind # "phase_enter"
           /\ R[i].kind \in {"plan", "say", "student"} => InPhase(phase) # {}
    <3>1. \A i \in 1 .. Len(R) : i = 1 \/ i \in 2 .. Len(R)
      OBVIOUS
    <3>2. CASE SayShape(R)
      BY <3>1, <3>2 DEF SayShape
    <3>3. CASE LastPhaseShape(R)
      <4>1. \A i \in 1 .. 2 : i = 1 \/ i = 2
        OBVIOUS
      <4>2. QED
        BY <3>3, <4>1 DEF LastPhaseShape, LeavesPhase, Transitions
    <3>4. CASE AdvanceShape(R) \/ FinishShape(R)
      BY <3>4 DEF AdvanceShape, FinishShape, LeavesPhase, Transitions
    <3>5. QED
      BY <1>3, <3>2, <3>3, <3>4
  <2>4. InPhase(phase) # {} =>
           \E j \in Positions : /\ utterances[j].kind = "phase_enter"
                                /\ utterances[j].phase = phase
    <3> SUFFICES ASSUME InPhase(phase) # {}
                 PROVE  \E j \in Positions : /\ utterances[j].kind = "phase_enter"
                                             /\ utterances[j].phase = phase
      OBVIOUS
    <3>1. PICK i \in Positions : utterances[i].phase = phase
      BY DEF InPhase
    <3>2. utterances[i].kind \notin Transitions \cup Ends
      BY <2>1, <3>1 DEF Commits, RowsBelow, EndIsLastRow, KindAt, PhaseAt
    <3>3. utterances[i].kind \in {"phase_enter", "plan", "say", "student"}
      BY <3>1, <3>2, PositionSets DEF Row, Kinds
    <3>4. CASE utterances[i].kind # "phase_enter"
      <4>1. PICK j \in 1 .. i - 1 : /\ utterances[j].kind = "phase_enter"
                                    /\ utterances[j].phase = phase
        BY <3>1, <3>3, <3>4 DEF OpenedOnceBeforeUse, KindAt, PhaseAt
      <4>2. j \in Positions
        BY <2>2, <3>1, <4>1, PositionSets
      <4>3. QED
        BY <4>1, <4>2
    <3>5. QED
      BY <3>1, <3>4
  <2>5. \A i \in Positions' : i \notin Positions =>
           /\ i > Len(utterances) /\ i \in Int /\ utterances'[i].phase = phase
           /\ utterances'[i].kind # "phase_enter"
           /\ utterances'[i].kind \in {"plan", "say", "student"} =>
                 InPhase(phase) # {}
    BY <2>1, <2>3, CommitFacts
  <2>6. \A i, j \in Positions' :
           /\ utterances'[i].kind = "phase_enter"
           /\ utterances'[j].kind = "phase_enter"
           /\ utterances'[i].phase = utterances'[j].phase
           => i = j
    BY <2>1, <2>5, CommitFacts DEF OpenedOnceBeforeUse, KindAt, PhaseAt
  <2>7. ASSUME NEW i \in Positions',
               utterances'[i].kind \in {"plan", "say", "student"}
        PROVE  \E j \in 1 .. i - 1 : /\ utterances'[j].kind = "phase_enter"
                                     /\ utterances'[j].phase = utterances'[i].phase
    <3>1. CASE i \in Positions
      <4>1. utterances'[i] = utterances[i]
        BY <2>1, <3>1, CommitFacts
      <4>2. PICK j \in 1 .. i - 1 : /\ utterances[j].kind = "phase_enter"
                                    /\ utterances[j].phase = utterances[i].phase
        BY <2>7, <3>1, <4>1 DEF OpenedOnceBeforeUse, KindAt, PhaseAt
      <4>3. j \in Positions
        BY <2>2, <3>1, <4>2, PositionSets
      <4>4. QED
        BY <2>1, <4>1, <4>2, <4>3, CommitFacts
    <3>2. CASE i \notin Positions
      <4>1. PICK j \in Positions : /\ utterances[j].kind = "phase_enter"
                                   /\ utterances[j].phase = phase
        BY <2>4, <2>5, <2>7, <3>2
      <4>2. j \in 1 .. i - 1
        BY <2>2, <2>5, <3>2, <4>1, PositionSets
      <4>3. QED
        BY <2>1, <2>5, <3>2, <4>1, <4>2, CommitFacts
    <3>3. QED
      BY <3>1, <3>2
  <2>8. QED
    BY <2>6, <2>7 DEF OpenedOnceBeforeUse, KindAt, PhaseAt
<1>4. ASSUME NEW n \in Positions, NEW x \in Reaction, RewriteShape(n, x)
      PROVE  OpenedOnceBeforeUse'
  <2>1. /\ Positions' = Positions /\ Positions = 1 .. Len(utterances)
        /\ Len(utterances) \in Nat
        /\ \A i \in Positions : /\ utterances'[i].kind = utterances[i].kind
                                /\ utterances'[i].phase = utterances[i].phase
    BY <1>4, RewriteFacts, PositionSets DEF TypeOK
  <2>2. \A i \in Positions : \A j \in 1 .. i - 1 : j \in Positions
    BY <2>1
  <2>3. QED
    BY SMTT(30), <2>1, <2>2 DEF OpenedOnceBeforeUse, KindAt, PhaseAt
<1>5. CASE DeleteShape
  BY <1>5 DEF OpenedOnceBeforeUse, DeleteShape, Positions
<1>6. QED
  BY <1>1, <1>2, <1>3, <1>4, <1>5, StepShapes

LEMMA LeftPhasesStep ==
    ASSUME TypeOK, SayTarget, RewriteTarget, RowsBelow, LeftPhasesClosed,
           [Next]_vars
    PROVE  LeftPhasesClosed'
<1>1. CASE UNCHANGED <<status, phase, utterances>>
  BY <1>1 DEF LeftPhasesClosed, Positions, KindAt, PhaseAt
<1>2. ASSUME NEW R \in Seq(Row), EnterShape(R) \/ SayShape(R) \/ AdvanceShape(R)
                                 \/ LastPhaseShape(R) \/ FinishShape(R)
      PROVE  LeftPhasesClosed'
  <2>1. Commits(R) /\ status = "running" /\ phase \in Nat
    BY <1>2 DEF EnterShape, SayShape, AdvanceShape, LastPhaseShape, FinishShape,
       LeavesPhase, Commits, TypeOK, Phases
  <2>2. Len(utterances) \in Nat /\ Len(R) \in Nat
    BY <2>1 DEF TypeOK, Commits
  \* Behind a row that leaves a phase a commit puts only the end of the lesson.
  <2>3. \A i, j \in 1 .. Len(R) :
           i < j /\ R[i].kind \in Transitions => R[j].kind = "last_phase"
    <3>1. \A i \in 1 .. Len(R) : i = 1 \/ i \in 2 .. Len(R)
      OBVIOUS
    <3>2. CASE EnterShape(R) \/ SayShape(R)
      BY <3>1, <3>2 DEF EnterShape, SayShape, Transitions
    <3>3. CASE LastPhaseShape(R)
      <4>1. \A i, j \in 1 .. 2 : i < j => j = 2
        OBVIOUS
      <4>2. QED
        BY <3>3, <4>1 DEF LastPhaseShape
    <3>4. CASE AdvanceShape(R) \/ FinishShape(R)
      BY <3>4 DEF AdvanceShape, FinishShape
    <3>5. QED
      BY <1>2, <3>2, <3>3, <3>4
  <2>4. \A i \in Positions :
           /\ utterances'[i] = utterances[i] /\ i <= Len(utterances) /\ i \in Nat
           /\ utterances[i].phase \in Nat /\ utterances[i].phase <= phase
           /\ utterances[i].kind \in Transitions => utterances[i].phase < phase
    <3>1. \A i \in Positions : utterances[i].phase \in Nat
      BY PositionSets DEF Row, Phases
    <3>2. \A i \in Positions :
             /\ utterances[i].phase <= phase
             /\ utterances[i].kind \in Transitions => utterances[i].phase # phase
      BY <2>1 DEF RowsBelow, KindAt, PhaseAt
    <3>3. QED
      BY <2>1, <2>2, <3>1, <3>2, CommitFacts, PositionSets
  <2>5. \A i \in Positions' : i \notin Positions =>
           /\ i - Len(utterances) \in 1 .. Len(R) /\ i > Len(utterances)
           /\ utterances'[i] = R[i - Len(utterances)] /\ i \in Nat
           /\ utterances'[i].phase = phase
    BY <2>1, <2>2, CommitFacts
  <2>6. ASSUME NEW i \in Positions', NEW j \in Positions', i < j
        PROVE  /\ utterances'[i].phase <= utterances'[j].phase
               /\ utterances'[i].kind \in Transitions =>
                     \/ utterances'[i].phase < utterances'[j].phase
                     \/ utterances'[j].kind = "last_phase"
    <3>1. CASE i \in Positions /\ j \in Positions
      BY <2>4, <2>6, <3>1 DEF LeftPhasesClosed, KindAt, PhaseAt
    <3>2. CASE i \in Positions /\ j \notin Positions
      BY <2>4, <2>5, <3>2
    <3>3. CASE i \notin Positions /\ j \in Positions
      BY <2>2, <2>4, <2>5, <2>6, <3>3
    <3>4. CASE i \notin Positions /\ j \notin Positions
      <4>1. /\ utterances'[i].phase = phase /\ utterances'[j].phase = phase
            /\ utterances'[i] = R[i - Len(utterances)]
            /\ utterances'[j] = R[j - Len(utterances)]
            /\ i - Len(utterances) \in 1 .. Len(R)
            /\ j - Len(utterances) \in 1 .. Len(R)
            /\ i - Len(utterances) < j - Len(utterances)
        BY <2>2, <2>5, <2>6, <3>4
      <4>2. QED
        BY <2>1, <2>3, <4>1
    <3>5. QED
      BY <3>1, <3>2, <3>3, <3>4
  <2>7. ASSUME NEW k \in 0 .. phase' - 1
        PROVE  \E i \in Positions' : /\ utterances'[i].kind \in Transitions
                                     /\ utterances'[i].phase = k
    <3>1. CASE k \in 0 .. phase - 1
      <4>1. PICK i \in Positions : utterances[i].kind \in Transitions
                                   /\ utterances[i].phase = k
        BY <2>1, <3>1 DEF LeftPhasesClosed, KindAt, PhaseAt
      <4>2. QED
        BY <2>1, <2>4, <4>1, CommitFacts
    <3>2. CASE k \notin 0 .. phase - 1
      <4>1. AdvanceShape(R) /\ k = phase
        BY <1>2, <2>1, <3>2 DEF EnterShape, SayShape, AdvanceShape,
           LastPhaseShape, FinishShape
      <4>2. Len(R) = 1 /\ R[1].kind \in Transitions
        BY <4>1 DEF AdvanceShape, LeavesPhase
      <4> DEFINE last == Len(utterances) + 1
      <4>3. last \in Positions' /\ last \notin Positions
            /\ last - Len(utterances) = 1
        BY SMTT(30), <2>1, <2>2, <4>2, CommitFacts, PositionSets
      <4> HIDE DEF last
      <4>4. utterances'[last] = R[last - Len(utterances)]
            /\ utterances'[last].phase = phase
        BY <2>5, <4>3
      <4>5. QED
        BY <4>1, <4>2, <4>3, <4>4
    <3>3. QED
      BY <3>1, <3>2
  <2>8. QED
    BY <2>6, <2>7 DEF LeftPhasesClosed, KindAt, PhaseAt
<1>3. ASSUME NEW n \in Positions, NEW x \in Reaction, RewriteShape(n, x)
      PROVE  LeftPhasesClosed'
  <2>1. /\ Positions' = Positions /\ UNCHANGED <<status, phase>>
        /\ \A i \in Positions : /\ utterances'[i].kind = utterances[i].kind
                                /\ utterances'[i].phase = utterances[i].phase
    BY <1>3, RewriteFacts DEF RewriteShape
  <2>2. QED
    BY <2>1 DEF LeftPhasesClosed, KindAt, PhaseAt
<1>4. CASE DeleteShape
  BY <1>4 DEF LeftPhasesClosed, DeleteShape, Positions
<1>5. QED
  BY <1>1, <1>2, <1>3, <1>4, StepShapes

LEMMA EndIsLastRowStep ==
    ASSUME TypeOK, SayTarget, RewriteTarget, EndIsLastRow, [Next]_vars
    PROVE  EndIsLastRow'
<1>1. CASE UNCHANGED <<status, phase, utterances>>
  BY <1>1 DEF EndIsLastRow, Positions, KindAt
<1>2. ASSUME NEW R \in Seq(Row), EnterShape(R) \/ SayShape(R) \/ AdvanceShape(R)
                                 \/ LastPhaseShape(R) \/ FinishShape(R)
      PROVE  EndIsLastRow'
  <2>1. Commits(R) /\ status = "running"
    BY <1>2 DEF EnterShape, SayShape, AdvanceShape, LastPhaseShape, FinishShape,
       LeavesPhase, Commits
  <2>2. Len(utterances) \in Nat /\ Len(R) \in Nat /\ Len(R) >= 1
    BY <2>1 DEF TypeOK, Commits
  \* A commit holds an end only as its last row, and exactly when it ends.
  <2>3. /\ status' = "finished" <=> R[Len(R)].kind \in Ends
        /\ \A i \in 1 .. Len(R) : R[i].kind \in Ends => i = Len(R)
    <3>1. \A i \in 1 .. Len(R) : i = 1 \/ i \in 2 .. Len(R)
      OBVIOUS
    <3>2. CASE EnterShape(R) \/ SayShape(R)
      <4>1. \A i \in 1 .. Len(R) : R[i].kind \notin Ends
        BY <3>1, <3>2 DEF EnterShape, SayShape, Ends
      <4>2. Len(R) \in 1 .. Len(R) /\ status' # "finished"
        BY <2>1, <2>2, <3>2 DEF EnterShape, SayShape
      <4>3. QED
        BY <4>1, <4>2
    <3>3. CASE LastPhaseShape(R)
      <4>1. \A i \in 1 .. 2 : i = 1 \/ i = 2
        OBVIOUS
      <4>2. QED
        BY <3>3, <4>1 DEF LastPhaseShape, LeavesPhase, Ends, Transitions
    <3>4. CASE AdvanceShape(R) \/ FinishShape(R)
      BY <2>1, <3>4 DEF AdvanceShape, FinishShape, LeavesPhase, Ends, Transitions
    <3>5. QED
      BY <1>2, <3>2, <3>3, <3>4
  <2>4. \A i \in Positions : utterances'[i].kind \notin Ends
    BY <2>1, CommitFacts DEF EndIsLastRow, KindAt
  <2>5. Len(utterances') = Len(utterances) + Len(R)
    BY <2>1, CommitFacts
  <2>6. \A i \in Positions' : i \notin Positions =>
           /\ i - Len(utterances) \in 1 .. Len(R) /\ i \in Int
           /\ utterances'[i] = R[i - Len(utterances)]
    BY <2>1, <2>2, CommitFacts
  <2>7. \A i \in Positions' : utterances'[i].kind \in Ends =>
           i = Len(utterances') /\ status' = "finished"
    <3> SUFFICES ASSUME NEW i \in Positions', utterances'[i].kind \in Ends
                 PROVE  i = Len(utterances') /\ status' = "finished"
      OBVIOUS
    <3>1. i \notin Positions
      BY <2>4
    <3>2. i - Len(utterances) = Len(R) /\ i \in Int
      BY <2>3, <2>6, <3>1
    <3>3. utterances'[i] = R[Len(R)]
      BY <2>6, <3>1, <3>2
    <3>4. QED
      BY <2>2, <2>3, <2>5, <3>2, <3>3
  <2>8. Len(utterances') > 0 /\ utterances'[Len(utterances')] = R[Len(R)]
    <3>1. /\ Len(utterances') \in Positions' /\ Len(utterances') \notin Positions
          /\ Len(utterances') - Len(utterances) = Len(R)
          /\ Len(utterances') > 0
      BY <2>1, <2>2, <2>5, CommitFacts, PositionSets
    <3>2. QED
      BY <2>6, <3>1
  <2>9. QED
    BY <2>3, <2>7, <2>8 DEF EndIsLastRow, KindAt
<1>3. ASSUME NEW n \in Positions, NEW x \in Reaction, RewriteShape(n, x)
      PROVE  EndIsLastRow'
  <2>1. /\ \A i \in Positions' : utterances'[i].kind \notin Ends
        /\ status' = "running"
    BY <1>3, RewriteFacts DEF EndIsLastRow, KindAt, RewriteShape
  <2>2. QED
    BY <2>1 DEF EndIsLastRow, KindAt
<1>4. CASE DeleteShape
  BY <1>4 DEF EndIsLastRow, DeleteShape, Positions
<1>5. QED
  BY <1>1, <1>2, <1>3, <1>4, StepShapes

LEMMA AgreementStep ==
    ASSUME TypeOK, SayTarget, RewriteTarget, RowsBelow, AgreementBacksTransition,
           [Next]_vars
    PROVE  AgreementBacksTransition'
<1>0. /\ \A i \in Positions : \A j \in 1 .. i - 1 : j \in Positions
      /\ Positions = 1 .. Len(utterances) /\ Len(utterances) \in Nat
  BY PositionSets DEF TypeOK
<1>1. CASE UNCHANGED <<status, phase, utterances>>
  BY <1>1 DEF AgreementBacksTransition, Positions, KindAt, PhaseAt
<1>2. ASSUME NEW R \in Seq(Row), EnterShape(R) \/ SayShape(R) \/ AdvanceShape(R)
                                 \/ LastPhaseShape(R) \/ FinishShape(R)
      PROVE  AgreementBacksTransition'
  <2>1. Commits(R)
    BY <1>2 DEF EnterShape, SayShape, AdvanceShape, LastPhaseShape, FinishShape,
       LeavesPhase
  \* Agreement is recorded only of personas that agree.
  <2>2. \A i \in 1 .. Len(R) : R[i].kind = "agree_advance" => AllAgreed(phase)
    <3>1. \A i \in 1 .. Len(R) : i = 1 \/ i \in 2 .. Len(R)
      OBVIOUS
    <3>2. CASE EnterShape(R) \/ SayShape(R)
      BY <3>1, <3>2 DEF EnterShape, SayShape
    <3>3. CASE LastPhaseShape(R)
      <4>1. \A i \in 1 .. 2 : i = 1 \/ i = 2
        OBVIOUS
      <4>2. QED
        BY <3>3, <4>1 DEF LastPhaseShape, LeavesPhase
    <3>4. CASE AdvanceShape(R) \/ FinishShape(R)
      BY <3>4 DEF AdvanceShape, FinishShape, LeavesPhase
    <3>5. QED
      BY <1>2, <3>2, <3>3, <3>4
  <2> SUFFICES ASSUME NEW i \in Positions', utterances'[i].kind = "agree_advance",
                      NEW p \in Personas
               PROVE  \E j \in 1 .. i - 1 :
                         /\ utterances'[j].kind = "student"
                         /\ utterances'[j].who = p
                         /\ utterances'[j].phase = utterances'[i].phase
                         /\ utterances'[j].understanding >= AgreeThreshold
    BY DEF AgreementBacksTransition, KindAt, PhaseAt
  <2>3. CASE i \in Positions
    <3>1. utterances'[i] = utterances[i]
      BY <2>1, <2>3, CommitFacts
    <3>2. PICK j \in 1 .. i - 1 :
             /\ utterances[j].kind = "student" /\ utterances[j].who = p
             /\ utterances[j].phase = utterances[i].phase
             /\ utterances[j].understanding >= AgreeThreshold
      BY <2>3, <3>1 DEF AgreementBacksTransition, KindAt, PhaseAt
    <3>3. utterances'[j] = utterances[j]
      BY <1>0, <2>1, <2>3, <3>2, CommitFacts
    <3>4. QED
      BY <3>1, <3>2, <3>3
  <2>4. CASE i \notin Positions
    <3>1. /\ i - Len(utterances) \in 1 .. Len(R) /\ i > Len(utterances)
          /\ utterances'[i] = R[i - Len(utterances)]
          /\ utterances'[i].phase = phase /\ i \in Int
      BY <1>0, <2>1, <2>4, CommitFacts
    <3>2. p \in Agreed(phase)
      BY <2>2, <3>1 DEF AllAgreed
    <3>3. PICK j \in Mine(phase, p) : utterances[j].understanding >= AgreeThreshold
      BY <3>2 DEF Agreed
    <3>4. /\ j \in Positions /\ utterances[j].kind = "student"
          /\ utterances[j].who = p /\ utterances[j].phase = phase
      BY DEF Mine, InPhase
    <3>5. j \in 1 .. i - 1
      BY <1>0, <3>1, <3>4
    <3>6. utterances'[j] = utterances[j]
      BY <2>1, <3>4, CommitFacts
    <3>7. QED
      BY <3>1, <3>3, <3>4, <3>5, <3>6
  <2>5. QED
    BY <2>3, <2>4
\* A rewrite concerns the current phase, whose agreement is not recorded yet.
<1>3. ASSUME NEW n \in Positions, NEW x \in Reaction, RewriteShape(n, x)
      PROVE  AgreementBacksTransition'
  <2> SUFFICES ASSUME NEW i \in Positions', utterances'[i].kind = "agree_advance",
                      NEW p \in Personas
               PROVE  \E j \in 1 .. i - 1 :
                         /\ utterances'[j].kind = "student"
                         /\ utterances'[j].who = p
                         /\ utterances'[j].phase = utterances'[i].phase
                         /\ utterances'[j].understanding >= AgreeThreshold
    BY DEF AgreementBacksTransition, KindAt, PhaseAt
  <2>1. /\ i \in Positions /\ utterances[i].kind = "agree_advance"
        /\ utterances'[i].phase = utterances[i].phase
    BY <1>3, RewriteFacts
  <2>2. PICK j \in 1 .. i - 1 :
           /\ utterances[j].kind = "student" /\ utterances[j].who = p
           /\ utterances[j].phase = utterances[i].phase
           /\ utterances[j].understanding >= AgreeThreshold
    BY <2>1 DEF AgreementBacksTransition, KindAt, PhaseAt
  <2>3. utterances[i].phase # phase /\ utterances[n].phase = phase
    BY <1>3, <2>1 DEF RowsBelow, KindAt, PhaseAt, Transitions, RewriteShape
  <2>4. j \in Positions /\ j # n
    BY <1>0, <2>1, <2>2, <2>3
  <2>5. utterances'[j] = utterances[j]
    BY <1>3, <2>4, RewriteFacts
  <2>6. QED
    BY <2>1, <2>2, <2>5
<1>4. CASE DeleteShape
  BY <1>4 DEF AgreementBacksTransition, DeleteShape, Positions
<1>5. QED
  BY <1>1, <1>2, <1>3, <1>4, StepShapes

-----------------------------------------------------------------------------
(* What the reactions rest on.                                             *)

\* Only the deletion of the session takes rows away.
LEMMA DeletedStep ==
    ASSUME TypeOK, SayTarget, RewriteTarget, [Next]_vars, status' = "deleted"
    PROVE  UNCHANGED <<status, phase, utterances>> \/ utterances' = <<>>
BY StepShapes DEF DeleteShape, EnterShape, SayShape, AdvanceShape, LastPhaseShape,
   FinishShape, RewriteShape, LeavesPhase, Commits

\* A new reaction follows the plan's prompt, in a phase that had no row, or
\* an utterance of the teacher, with other new reactions in between.
AnswersPlan(i) ==
    \E j \in Positions' :
        /\ j = Len(utterances) + 2 /\ j < i
        /\ InPhase(phase) = {}
        /\ utterances'[j].kind = "plan" /\ utterances'[j].who = Everyone
        /\ utterances'[j].phase = phase
        /\ utterances'[j - 1].kind = "phase_enter"
        /\ \A n \in j + 1 .. i : /\ utterances'[n].kind = "student"
                                 /\ utterances'[n].who = n - j
        /\ utterances'[i].understanding < AgreeThreshold

AnswersTeacher(i) ==
    \E j \in Positions' :
        /\ j = Len(utterances) + 1 /\ j < i
        /\ utterances'[j].kind = "say" /\ utterances'[j].phase = phase
        /\ utterances'[j].who \in {Everyone, utterances'[i].who}
        /\ \A n \in j + 1 .. i : utterances'[n].kind = "student"

LEMMA NewReaction ==
    ASSUME TypeOK, SayTarget, RewriteTarget, [Next]_vars,
           NEW i \in Positions', i \notin Positions,
           utterances'[i].kind = "student"
    PROVE  /\ utterances'[i].phase = phase /\ i > Len(utterances) /\ i \in Nat
           /\ AnswersPlan(i) \/ AnswersTeacher(i)
<1> DEFINE base == Len(utterances)
<1>0. base \in Nat
  BY DEF TypeOK
<1>1. ASSUME NEW R \in Seq(Row), Commits(R)
      PROVE  /\ utterances'[i].phase = phase /\ i > base /\ i \in Nat
             /\ i - base \in 1 .. Len(R) /\ Len(R) \in Nat
             /\ \A n \in 1 .. Len(R) : /\ base + n \in Positions'
                                       /\ utterances'[base + n] = R[n]
                                       /\ R[n].phase = phase
  <2>1. Len(R) \in Nat
    OBVIOUS
  <2>2. \A n \in 1 .. Len(R) : base + n \in Positions' /\ base + n \notin Positions
    BY <1>0, <1>1, <2>1, CommitFacts, PositionSets
  <2>3. \A n \in 1 .. Len(R) : utterances'[base + n] = R[(base + n) - base]
    <3>1. \A m \in Positions' : m \notin Positions => utterances'[m] = R[m - base]
      BY <1>1, CommitFacts
    <3> HIDE DEF base
    <3>2. QED
      BY <2>2, <3>1
  <2>4. \A n \in 1 .. Len(R) : (base + n) - base = n
    BY <1>0
  <2>5. i \in Nat
    BY <1>0, <1>1, <2>1, CommitFacts
  <2>6. QED
    BY <1>1, <2>1, <2>2, <2>3, <2>4, <2>5, CommitFacts DEF Commits
<1>2. ASSUME NEW R \in Seq(Row), EnterShape(R)
      PROVE  /\ utterances'[i].phase = phase /\ i > base /\ i \in Nat
             /\ AnswersPlan(i)
  <2>1. Commits(R) /\ InPhase(phase) = {} /\ R[1].kind = "phase_enter"
        /\ EnterAnswers(R)
    BY <1>2 DEF EnterShape
  <2>2. /\ Len(R) >= 3 /\ R[2].kind = "plan" /\ R[2].who = Everyone
        /\ \A n \in 3 .. Len(R) : /\ R[n].kind = "student" /\ R[n].who = n - 2
                                  /\ R[n].understanding < AgreeThreshold
    BY <2>1 DEF EnterAnswers
  <2>3. /\ utterances'[i].phase = phase /\ i > base /\ i \in Nat
        /\ i - base \in 1 .. Len(R) /\ Len(R) \in Nat
        /\ \A n \in 1 .. Len(R) : /\ base + n \in Positions'
                                  /\ utterances'[base + n] = R[n]
                                  /\ R[n].phase = phase
    BY <1>1, <2>1
  <2>4. /\ base + 2 \in Positions' /\ utterances'[base + 2] = R[2]
        /\ utterances'[base + 1] = R[1] /\ (base + 2) - 1 = base + 1
        /\ R[2].phase = phase
    <3>1. 1 \in 1 .. Len(R) /\ 2 \in 1 .. Len(R)
      BY <2>2, <2>3
    <3>2. (base + 2) - 1 = base + 1
      BY <1>0
    <3>3. QED
      BY <2>3, <3>1, <3>2
  <2>5. i - base \in 3 .. Len(R) /\ utterances'[i] = R[i - base]
    <3>1. PICK n \in 1 .. Len(R) : n = i - base
      BY <2>3
    <3>2. i = base + n
      BY <1>0, <2>3, <3>1
    <3>3. utterances'[i] = R[n]
      BY <2>3, <3>2
    <3>4. n # 1 /\ n # 2
      BY <2>1, <2>2, <3>3
    <3>5. n \in 3 .. Len(R)
      BY <2>3, <3>4
    <3>6. QED
      BY <3>1, <3>3, <3>5
  <2>6. \A n \in base + 3 .. i : /\ utterances'[n].kind = "student"
                                 /\ utterances'[n].who = n - (base + 2)
    <3> SUFFICES ASSUME NEW n \in base + 3 .. i
                 PROVE  /\ utterances'[n].kind = "student"
                        /\ utterances'[n].who = n - (base + 2)
      OBVIOUS
    <3>1. PICK m \in 3 .. Len(R) : n = base + m
      <4>1. n - base \in 3 .. Len(R) /\ n = base + (n - base)
        BY <1>0, <2>3, <2>5
      <4>2. QED
        BY <4>1
    <3>2. utterances'[n] = R[m] /\ m - 2 = n - (base + 2)
      BY <1>0, <2>3, <3>1
    <3>3. QED
      BY <2>2, <3>1, <3>2
  <2>7. utterances'[i].understanding < AgreeThreshold
    BY <2>2, <2>5
  <2>8. base + 2 < i /\ (base + 2) + 1 = base + 3
    BY <1>0, <2>3, <2>5
  <2>9. AnswersPlan(i)
    BY <2>1, <2>2, <2>4, <2>6, <2>7, <2>8 DEF AnswersPlan
  <2>10. QED
    BY <2>3, <2>9
<1>3. ASSUME NEW R \in Seq(Row), SayShape(R)
      PROVE  /\ utterances'[i].phase = phase /\ i > base /\ i \in Nat
             /\ AnswersTeacher(i)
  <2>1. /\ Commits(R) /\ R[1].kind = "say" /\ R[1].who \in 0 .. Seats
        /\ \A n \in 2 .. Len(R) : R[n].kind = "student"
                                  /\ R[n].who \in Responders(R[1].who)
    BY <1>3 DEF SayShape
  <2>2. /\ utterances'[i].phase = phase /\ i > base /\ i \in Nat
        /\ i - base \in 1 .. Len(R) /\ Len(R) \in Nat
        /\ \A n \in 1 .. Len(R) : /\ base + n \in Positions'
                                  /\ utterances'[base + n] = R[n]
                                  /\ R[n].phase = phase
    BY <1>1, <2>1
  <2>3. PICK m \in 1 .. Len(R) : i = base + m
    <3>1. i - base \in 1 .. Len(R) /\ i = base + (i - base)
      BY <1>0, <2>2
    <3>2. QED
      BY <3>1
  <2>4. utterances'[i] = R[m]
    BY <2>2, <2>3
  <2>5. m \in 2 .. Len(R)
    BY <2>1, <2>2, <2>4
  <2>6. utterances'[base + 1] = R[1] /\ base + 1 \in Positions' /\ base + 1 < i
        /\ R[1].phase = phase
    BY <1>0, <2>2, <2>3, <2>5
  <2>7. R[1].who \in {Everyone, R[m].who}
    BY <2>1, <2>5 DEF Responders
  <2>8. \A n \in base + 2 .. i : utterances'[n].kind = "student"
    <3> SUFFICES ASSUME NEW n \in base + 2 .. i
                 PROVE  utterances'[n].kind = "student"
      OBVIOUS
    <3>1. PICK l \in 2 .. Len(R) : n = base + l
      <4>1. n - base \in 2 .. Len(R) /\ n = base + (n - base)
        BY <1>0, <2>2, <2>3
      <4>2. QED
        BY <4>1
    <3>2. utterances'[n] = R[l]
      BY <2>2, <3>1
    <3>3. QED
      BY <2>1, <3>1, <3>2
  <2>9. (base + 1) + 1 = base + 2
    BY <1>0
  <2>10. AnswersTeacher(i)
    BY <2>1, <2>4, <2>6, <2>7, <2>8, <2>9 DEF AnswersTeacher
  <2>11. QED
    BY <2>2, <2>10
<1>4. ASSUME NEW R \in Seq(Row), AdvanceShape(R) \/ LastPhaseShape(R) \/ FinishShape(R)
      PROVE  FALSE
  <2>1. Commits(R) /\ \A n \in 1 .. Len(R) : R[n].kind # "student"
    <3>1. CASE LastPhaseShape(R)
      <4>1. \A n \in 1 .. 2 : n = 1 \/ n = 2
        OBVIOUS
      <4>2. QED
        BY <3>1, <4>1 DEF LastPhaseShape, LeavesPhase, Transitions
    <3>2. CASE AdvanceShape(R) \/ FinishShape(R)
      BY <3>2 DEF AdvanceShape, FinishShape, LeavesPhase, Transitions
    <3>3. QED
      BY <1>4, <3>1, <3>2
  <2>2. QED
    BY <2>1, CommitFacts
<1>5. CASE UNCHANGED <<status, phase, utterances>>
  BY <1>5 DEF Positions
<1>6. ASSUME NEW n \in Positions, NEW x \in Reaction, RewriteShape(n, x)
      PROVE  FALSE
  BY <1>6, RewriteFacts
<1>7. CASE DeleteShape
  BY <1>7 DEF DeleteShape, Positions
<1>8. QED
  BY <1>2, <1>3, <1>4, <1>5, <1>6, <1>7, StepShapes

\* A reaction keeps its understanding, or its rewrite is one that was not
\* the persona's first of the phase, or does not raise it to the threshold.
LEMMA OldReaction ==
    ASSUME TypeOK, SayTarget, RewriteTarget, FirstIsFirst, [Next]_vars,
           status' # "deleted", NEW i \in Positions,
           utterances'[i].understanding >= AgreeThreshold
    PROVE  \/ utterances[i].understanding >= AgreeThreshold
           \/ \E m \in Positions :
                 /\ m < i /\ utterances[m].kind = "student"
                 /\ utterances[m].phase = utterances[i].phase
                 /\ utterances[m].who = utterances[i].who
<1>1. CASE UNCHANGED <<status, phase, utterances>>
  BY <1>1
<1>2. ASSUME NEW R \in Seq(Row), Commits(R)
      PROVE  utterances[i].understanding >= AgreeThreshold
  BY <1>2, CommitFacts
<1>3. ASSUME NEW n \in Positions, NEW x \in Reaction, RewriteShape(n, x)
      PROVE  \/ utterances[i].understanding >= AgreeThreshold
             \/ \E m \in Positions :
                 /\ m < i /\ utterances[m].kind = "student"
                 /\ utterances[m].phase = utterances[i].phase
                 /\ utterances[m].who = utterances[i].who
  <2>1. CASE i # n
    BY <1>3, <2>1, RewriteFacts
  <2>2. CASE i = n
    <3>1. utterances'[i] = Rewritten(utterances[i], x)
      BY <1>3, <2>2 DEF RewriteShape, Positions
    <3>2. utterances[i] \in Row
      BY PositionSets
    <3>3. CASE x.understanding = None
      BY <3>1, <3>2, <3>3 DEF Rewritten, Row
    <3>4. CASE x.understanding # None
      <4>1. utterances'[i].understanding = x.understanding
        BY <3>1, <3>2, <3>4 DEF Rewritten, Row
      <4>2. PICK r \in Requests :
               /\ ReadyToWrite(r, "regenerate") /\ ~req[r].first
               /\ req[r].row = i /\ i \in Mine(req[r].idx, req[r].arg)
        BY <1>3, <2>2, <4>1 DEF RewriteShape
      <4>3. status # "deleted"
        BY <1>3 DEF RewriteShape
      <4>4. PICK m \in Mine(req[r].idx, req[r].arg) : m < i
        BY <4>2, <4>3 DEF FirstIsFirst
      <4>5. QED
        BY <4>2, <4>4 DEF Mine, InPhase
    <3>5. QED
      BY <3>3, <3>4
  <2>3. QED
    BY <2>1, <2>2
<1>4. QED
  BY <1>1, <1>2, <1>3, StepShapes DEF DeleteShape, EnterShape, SayShape,
     AdvanceShape, LastPhaseShape, FinishShape, LeavesPhase

LEMMA NearestTeacherStep ==
    ASSUME TypeOK, SayTarget, RewriteTarget, NearestTeacherAsked, [Next]_vars
    PROVE  NearestTeacherAsked'
<1>0. CASE UNCHANGED <<status, phase, utterances>> \/ utterances' = <<>>
  BY <1>0 DEF NearestTeacherAsked, Positions, KindAt, PhaseAt
<1> SUFFICES ASSUME status' # "deleted",
                    NEW i \in Positions', utterances'[i].kind = "student"
             PROVE  \E j \in 1 .. i - 1 :
                       /\ utterances'[j].kind \in {"plan", "say"}
                       /\ utterances'[j].phase = utterances'[i].phase
                       /\ utterances'[j].who \in {Everyone, utterances'[i].who}
                       /\ \A n \in j + 1 .. i : utterances'[n].kind = "student"
  BY <1>0, DeletedStep DEF NearestTeacherAsked, KindAt, PhaseAt
<1>1. CASE i \in Positions
  <2>1. /\ utterances[i].kind = "student" /\ utterances'[i].who = utterances[i].who
        /\ utterances'[i].phase = utterances[i].phase
    BY <1>1, RowsKept
  <2>2. PICK j \in 1 .. i - 1 :
           /\ utterances[j].kind \in {"plan", "say"}
           /\ utterances[j].phase = utterances[i].phase
           /\ utterances[j].who \in {Everyone, utterances[i].who}
           /\ \A n \in j + 1 .. i : utterances[n].kind = "student"
    BY <1>1, <2>1 DEF NearestTeacherAsked, KindAt, PhaseAt
  <2>3. j \in Positions /\ \A n \in j + 1 .. i : n \in Positions
    BY <1>1, PositionSets DEF TypeOK
  <2>4. QED
    BY <2>1, <2>2, <2>3, RowsKept
<1>2. CASE i \notin Positions
  <2>1. /\ utterances'[i].phase = phase /\ i \in Nat
        /\ AnswersPlan(i) \/ AnswersTeacher(i)
    BY <1>2, NewReaction
  <2>2. Len(utterances) \in Nat
    BY DEF TypeOK
  <2>3. CASE AnswersPlan(i)
    <3>1. PICK j \in Positions' :
             /\ j = Len(utterances) + 2 /\ j < i
             /\ utterances'[j].kind = "plan" /\ utterances'[j].who = Everyone
             /\ utterances'[j].phase = phase
             /\ \A n \in j + 1 .. i : utterances'[n].kind = "student"
      BY <2>3 DEF AnswersPlan
    <3>2. j \in 1 .. i - 1
      BY <2>1, <2>2, <3>1
    <3>3. QED
      BY <2>1, <3>1, <3>2
  <2>4. CASE AnswersTeacher(i)
    <3>1. PICK j \in Positions' :
             /\ j = Len(utterances) + 1 /\ j < i
             /\ utterances'[j].kind = "say" /\ utterances'[j].phase = phase
             /\ utterances'[j].who \in {Everyone, utterances'[i].who}
             /\ \A n \in j + 1 .. i : utterances'[n].kind = "student"
      BY <2>4 DEF AnswersTeacher
    <3>2. j \in 1 .. i - 1
      BY <2>1, <2>2, <3>1
    <3>3. QED
      BY <2>1, <3>1, <3>2
  <2>5. QED
    BY <2>1, <2>3, <2>4
<1>3. QED
  BY <1>1, <1>2

\* A new reaction that follows an utterance of the teacher is taught.
LEMMA AnswerTaught ==
    ASSUME TypeOK, NEW i \in Nat, utterances'[i].phase = phase, AnswersTeacher(i)
    PROVE  TaughtBefore(PhaseAt(i), utterances[i].who, i)'
<1>1. Len(utterances) \in Nat
  BY DEF TypeOK
<1>2. PICK j \in Positions' :
         /\ j = Len(utterances) + 1 /\ j < i
         /\ utterances'[j].kind = "say" /\ utterances'[j].phase = phase
         /\ utterances'[j].who \in {Everyone, utterances'[i].who}
  BY DEF AnswersTeacher
<1>3. j \in 1 .. i - 1
  BY <1>1, <1>2
<1>4. QED
  BY <1>2, <1>3 DEF TaughtBefore, KindAt, PhaseAt

LEMMA AgreementTaughtStep ==
    ASSUME TypeOK, SayTarget, RewriteTarget, FirstIsFirst, SecondTaught,
           AgreementTaught, [Next]_vars
    PROVE  AgreementTaught'
<1>0. CASE UNCHANGED <<status, phase, utterances>> \/ utterances' = <<>>
  BY <1>0 DEF AgreementTaught, TaughtBefore, Positions, KindAt, PhaseAt
<1> SUFFICES ASSUME status' # "deleted",
                    NEW i \in Positions', utterances'[i].kind = "student",
                    utterances'[i].understanding >= AgreeThreshold
             PROVE  TaughtBefore(PhaseAt(i), utterances[i].who, i)'
  BY <1>0, DeletedStep DEF AgreementTaught, KindAt, PhaseAt
<1>1. CASE i \in Positions
  <2>1. /\ utterances[i].kind = "student" /\ utterances'[i].who = utterances[i].who
        /\ utterances'[i].phase = utterances[i].phase
    BY <1>1, RowsKept
  <2>2. TaughtBefore(utterances[i].phase, utterances[i].who, i)
    BY <1>1, <2>1, OldReaction DEF AgreementTaught, SecondTaught, KindAt, PhaseAt
  <2>3. PICK j \in 1 .. i - 1 :
           /\ utterances[j].kind = "say" /\ utterances[j].phase = utterances[i].phase
           /\ utterances[j].who \in {Everyone, utterances[i].who}
    BY <2>2 DEF TaughtBefore, KindAt, PhaseAt
  <2>4. j \in Positions
    BY <1>1, PositionSets DEF TypeOK
  <2>5. QED
    BY <2>1, <2>3, <2>4, RowsKept DEF TaughtBefore, KindAt, PhaseAt
<1>2. CASE i \notin Positions
  <2>1. utterances'[i].phase = phase /\ i \in Nat
        /\ (AnswersPlan(i) \/ AnswersTeacher(i))
    BY <1>2, NewReaction
  <2>2. ~AnswersPlan(i)
    <3> SUFFICES ASSUME AnswersPlan(i)
                 PROVE  FALSE
      OBVIOUS
    <3>1. utterances'[i].understanding < AgreeThreshold
      BY DEF AnswersPlan
    <3>2. utterances'[i].understanding \in Int
      <4>1. utterances'[i] \in Row
        BY TypeStep DEF TypeOK, Positions
      <4>2. QED
        BY <4>1 DEF Row, Levels, None
    <3>3. QED
      BY <3>1, <3>2
  <2>3. QED
    BY <2>1, <2>2, AnswerTaught
<1>3. QED
  BY <1>1, <1>2

LEMMA SecondTaughtStep ==
    ASSUME TypeOK, SayTarget, RewriteTarget, SecondTaught, [Next]_vars
    PROVE  SecondTaught'
<1>0. CASE UNCHANGED <<status, phase, utterances>> \/ utterances' = <<>>
  BY <1>0 DEF SecondTaught, TaughtBefore, Positions, KindAt, PhaseAt
<1> SUFFICES ASSUME status' # "deleted",
                    NEW i \in Positions', NEW m \in Positions', m < i,
                    utterances'[i].kind = "student", utterances'[m].kind = "student",
                    utterances'[i].phase = utterances'[m].phase,
                    utterances'[i].who = utterances'[m].who
             PROVE  TaughtBefore(PhaseAt(i), utterances[i].who, i)'
  BY <1>0, DeletedStep DEF SecondTaught, KindAt, PhaseAt
<1>1. CASE i \in Positions
  <2>1. m \in Positions
    <3>1. m \in Nat /\ m >= 1
      BY TypeStep DEF TypeOK, Positions
    <3>2. QED
      BY <1>1, <3>1, PositionSets DEF TypeOK
  <2>2. /\ utterances[i].kind = "student" /\ utterances'[i].who = utterances[i].who
        /\ utterances'[i].phase = utterances[i].phase
        /\ utterances[m].kind = "student" /\ utterances'[m].who = utterances[m].who
        /\ utterances'[m].phase = utterances[m].phase
    BY <1>1, <2>1, RowsKept
  <2>3. TaughtBefore(utterances[i].phase, utterances[i].who, i)
    BY <1>1, <2>1, <2>2 DEF SecondTaught, KindAt, PhaseAt
  <2>4. PICK j \in 1 .. i - 1 :
           /\ utterances[j].kind = "say" /\ utterances[j].phase = utterances[i].phase
           /\ utterances[j].who \in {Everyone, utterances[i].who}
    BY <2>3 DEF TaughtBefore, KindAt, PhaseAt
  <2>5. j \in Positions
    BY <1>1, PositionSets DEF TypeOK
  <2>6. QED
    BY <2>2, <2>4, <2>5, RowsKept DEF TaughtBefore, KindAt, PhaseAt
<1>2. CASE i \notin Positions
  <2>0. Len(utterances) \in Nat
    BY DEF TypeOK
  <2>1. utterances'[i].phase = phase /\ i \in Nat
        /\ (AnswersPlan(i) \/ AnswersTeacher(i))
    BY <1>2, NewReaction
  <2>2. ~AnswersPlan(i)
    <3> SUFFICES ASSUME AnswersPlan(i)
                 PROVE  FALSE
      OBVIOUS
    <3>1. PICK j \in Positions' :
             /\ j = Len(utterances) + 2 /\ InPhase(phase) = {}
             /\ utterances'[j].kind = "plan"
             /\ utterances'[j - 1].kind = "phase_enter"
             /\ \A n \in j + 1 .. i : utterances'[n].who = n - j
      BY DEF AnswersPlan
    <3>2. m \notin Positions
      <4>1. m \in Positions => utterances[m].phase = phase
        BY <2>1, RowsKept
      <4>2. QED
        BY <3>1, <4>1 DEF InPhase
    <3>3. m > Len(utterances) /\ m \in Nat
      BY <3>2, NewReaction
    <3>4. j - 1 = Len(utterances) + 1 /\ m # j /\ m # j - 1
      BY <2>0, <3>1
    <3>5. m \in j + 1 .. i /\ i \in j + 1 .. i
      BY <2>0, <2>1, <3>1, <3>3, <3>4
    <3>6. m - j = i - j
      BY <3>1, <3>5
    <3>7. QED
      BY <2>0, <2>1, <3>1, <3>3, <3>6
  <2>3. QED
    BY <2>1, <2>2, AnswerTaught
<1>3. QED
  BY <1>1, <1>2

LEMMA FirstIsFirstStep ==
    ASSUME TypeOK, SayTarget, RewriteTarget, FirstIsFirst, [Next]_vars
    PROVE  FirstIsFirst'
<1> SUFFICES ASSUME NEW r \in Requests, ReadyToWrite(r, "regenerate")',
                    status' # "deleted", ~req'[r].first
             PROVE  \E m \in Mine(req[r].idx, req[r].arg)' : m < req'[r].row
  BY DEF FirstIsFirst
<1>1. req'[r].op = "regenerate" /\ req'[r].pc = "asking"
  BY DEF ReadyToWrite, AskingOps
<1>2. \E m \in Mine(req'[r].idx, req'[r].arg) : m < req'[r].row
  <2>1. CASE req'[r] = req[r]
    <3>1. ReadyToWrite(r, "regenerate") /\ status # "deleted" /\ ~req[r].first
      BY <1>1, <2>1, RowsKept DEF ReadyToWrite, AskingOps
    <3>2. QED
      BY <2>1, <3>1 DEF FirstIsFirst
  <2>2. CASE Ask(r)
    <3>1. PICK q \in Request : q = Snapshot(r)
      BY <2>2, SnapshotFacts
    <3>2. req'[r] = [q EXCEPT !.pc = "asking"]
      BY <2>2, <3>1 DEF Ask, TypeOK
    <3>3. /\ req'[r].op = q.op /\ req'[r].idx = q.idx /\ req'[r].arg = q.arg
          /\ req'[r].row = q.row /\ req'[r].first = q.first
      BY <3>2 DEF Request
    <3>4. QED
      BY <1>1, <2>2, <3>1, <3>3, SnapshotFacts
  <2>3. QED
    BY <1>1, <2>1, <2>2, RequestStep
<1>3. PICK m \in Positions :
         /\ m < req'[r].row /\ utterances[m].phase = req'[r].idx
         /\ utterances[m].kind = "student" /\ utterances[m].who = req'[r].arg
  BY <1>2 DEF Mine, InPhase
<1>4. /\ m \in Positions' /\ utterances'[m].phase = req'[r].idx
      /\ utterances'[m].kind = "student" /\ utterances'[m].who = req'[r].arg
  BY <1>3, RowsKept
<1>5. QED
  BY <1>3, <1>4 DEF Mine, InPhase

-----------------------------------------------------------------------------
(* The theorems.                                                           *)

LEMMA InitIInv == Init => IInv
<1> SUFFICES ASSUME Init
             PROVE  IInv
  OBVIOUS
<1>1. utterances = <<>> /\ status = "running" /\ phase = 0 /\ Positions = {}
  BY DEF Init, Positions
<1>2. TypeOK
  BY IdleType, <1>1 DEF Init, TypeOK, Phases
<1>3. \A r \in Requests : ~ReadyToWrite(r, "say") /\ ~ReadyToWrite(r, "regenerate")
  BY DEF Init, ReadyToWrite, Idle
<1>4. RowsBelow /\ SayTarget /\ RewriteTarget
  BY <1>1, <1>3 DEF RowsBelow, SayTarget, RewriteTarget
<1>5. TurnBudget
  <2>1. UserTurns = {}
    BY <1>1 DEF UserTurns
  <2>2. QED
    BY <2>1, FS_EmptySet DEF TurnBudget, TurnsUsed
<1>6. OpenedOnceBeforeUse /\ EndIsLastRow /\ AgreementBacksTransition
  BY <1>1 DEF OpenedOnceBeforeUse, EndIsLastRow, AgreementBacksTransition
<1>7. LeftPhasesClosed
  BY <1>1 DEF LeftPhasesClosed
<1>8. NearestTeacherAsked /\ AgreementTaught /\ SecondTaught /\ FirstIsFirst
  BY <1>1, <1>3 DEF NearestTeacherAsked, AgreementTaught, SecondTaught, FirstIsFirst
<1>9. QED
  BY <1>2, <1>4, <1>5, <1>6, <1>7, <1>8 DEF IInv

\* Every step keeps the promises of the transcript and what they rest on.
LEMMA InvariantStep ==
    ASSUME IInv, [Next]_vars
    PROVE  IInv'
<1>1. /\ TypeOK /\ RowsBelow /\ SayTarget /\ RewriteTarget /\ TurnBudget
      /\ OpenedOnceBeforeUse /\ LeftPhasesClosed /\ EndIsLastRow
      /\ AgreementBacksTransition /\ NearestTeacherAsked
      /\ AgreementTaught /\ SecondTaught /\ FirstIsFirst
  BY DEF IInv
<1>2. TypeOK'
  BY <1>1, TypeStep
<1>3. SayTarget' /\ RewriteTarget' /\ RowsBelow'
  BY <1>1, SayTargetStep, RewriteTargetStep, RowsBelowStep
<1>4. TurnBudget' /\ OpenedOnceBeforeUse'
  BY <1>1, TurnBudgetStep, OpenedStep
<1>5. LeftPhasesClosed' /\ EndIsLastRow' /\ AgreementBacksTransition'
  BY <1>1, LeftPhasesStep, EndIsLastRowStep, AgreementStep
<1>6. NearestTeacherAsked' /\ AgreementTaught' /\ SecondTaught' /\ FirstIsFirst'
  BY <1>1, NearestTeacherStep, AgreementTaughtStep, SecondTaughtStep, FirstIsFirstStep
<1>7. QED
  BY <1>2, <1>3, <1>4, <1>5, <1>6 DEF IInv

\* They hold in every state, whatever requests overlap: IInv is inductive.
THEOREM Inductive == Spec => []IInv
<1>1. Init => IInv
  BY InitIInv
<1>2. IInv /\ [Next]_vars => IInv'
  BY InvariantStep
<1>3. QED
  BY <1>1, <1>2, PTL DEF Spec

\* Every variable keeps its type.
THEOREM TypeCorrect == Spec => []TypeOK
<1>1. IInv => TypeOK
  BY DEF IInv
<1>2. QED
  BY <1>1, Inductive, PTL

\* However many say requests wait for Gemini together, the teacher's turns
\* never exceed SIM_MAX_TEACHER_TURNS: the count is taken again under the lock.
THEOREM TurnsBounded == Spec => []TurnBudget
<1>1. IInv => TurnBudget
  BY DEF IInv
<1>2. QED
  BY <1>1, Inductive, PTL

\* A phase is opened once and only then used, however many enter requests race.
THEOREM PhasesOpenedOnce == Spec => []OpenedOnceBeforeUse
<1>1. IInv => OpenedOnceBeforeUse
  BY DEF IInv
<1>2. QED
  BY <1>1, Inductive, PTL

\* Nothing is written into a phase the class has left, and every phase left
\* has the row that says how.
THEOREM PhasesClosedForGood == Spec => []LeftPhasesClosed
<1>1. IInv => LeftPhasesClosed
  BY DEF IInv
<1>2. QED
  BY <1>1, Inductive, PTL

\* The lesson is finished exactly when its last row says so.
THEOREM EndRecorded == Spec => []EndIsLastRow
<1>1. IInv => EndIsLastRow
  BY DEF IInv
<1>2. QED
  BY <1>1, Inductive, PTL

\* An agreed transition is backed by a reaction of every persona, and no
\* rewrite takes that reaction away.
THEOREM TransitionsBacked == Spec => []AgreementBacksTransition
<1>1. IInv => AgreementBacksTransition
  BY DEF IInv
<1>2. QED
  BY <1>1, Inductive, PTL

\* The row regenerate rewrites after Gemini answered is still a reaction of
\* the persona and phase it was asked for.
THEOREM RewritesRightRow == Spec => []RewriteTarget
<1>1. IInv => RewriteTarget
  BY DEF IInv
<1>2. QED
  BY <1>1, Inductive, PTL

\* The lesson's transcript is in order in every state: turns, openings,
\* closed phases and the end together.
THEOREM LessonsInOrder == Spec => []LessonInOrder
<1>1. IInv => LessonInOrder
  BY DEF IInv, LessonInOrder
<1>2. QED
  BY <1>1, Inductive, PTL

\* regenerate hits the right row and leaves every transition backed.
THEOREM RewritesAreSafe == Spec => []RewritesSafe
<1>1. IInv => RewritesSafe
  BY DEF IInv, RewritesSafe
<1>2. QED
  BY <1>1, Inductive, PTL

\* The teacher's row a reaction answers stands next above it, and an agreement
\* is recorded only after the teacher has spoken to every persona in the phase.
THEOREM ReactionsAreEarned == Spec => []ReactionsEarned
<1>1. IInv => ReactionsEarned
  <2> SUFFICES ASSUME IInv
               PROVE  NobodyAgreesUntaught
    BY DEF IInv, ReactionsEarned
  <2> SUFFICES ASSUME NEW i \in Positions, utterances[i].kind = "agree_advance",
                      NEW p \in Personas
               PROVE  \E l \in 1 .. i - 1 :
                         /\ utterances[l].kind = "say"
                         /\ utterances[l].phase = utterances[i].phase
                         /\ utterances[l].who \in {Everyone, p}
    BY DEF NobodyAgreesUntaught, KindAt, PhaseAt
  <2>1. PICK j \in 1 .. i - 1 :
           /\ utterances[j].kind = "student" /\ utterances[j].who = p
           /\ utterances[j].phase = utterances[i].phase
           /\ utterances[j].understanding >= AgreeThreshold
    BY DEF IInv, AgreementBacksTransition, KindAt, PhaseAt
  <2>2. i \in Nat /\ j \in Nat /\ j \in Positions
    BY <2>1, PositionSets DEF IInv, TypeOK
  <2>3. PICK l \in 1 .. j - 1 :
           /\ utterances[l].kind = "say" /\ utterances[l].phase = utterances[j].phase
           /\ utterances[l].who \in {Everyone, p}
    BY <2>1, <2>2 DEF IInv, AgreementTaught, TaughtBefore, KindAt, PhaseAt
  <2>4. l \in 1 .. i - 1
    BY <2>1, <2>2, <2>3
  <2>5. QED
    BY <2>1, <2>3, <2>4
<1>2. QED
  BY <1>1, Inductive, PTL

\* Rows are only added at the end; only reactions of the current phase are
\* rewritten, and these keep kind, phase and persona.
THEOREM HistoryKept == Spec => HistoryFrozen
<1>1. ASSUME IInv, [Next]_vars
      PROVE  [status' = "deleted" \/
                /\ Len(utterances') >= Len(utterances)
                /\ \A i \in Positions : utterances'[i] # utterances[i] =>
                      /\ KindAt(i) = "student" /\ PhaseAt(i) = phase
                      /\ utterances'[i] = [utterances[i] EXCEPT
                            !.understanding = utterances'[i].understanding,
                            !.raw = utterances'[i].raw]]_utterances
  <2> SUFFICES ASSUME status' # "deleted", utterances' # utterances
               PROVE  /\ Len(utterances') >= Len(utterances)
                      /\ \A i \in Positions : utterances'[i] # utterances[i] =>
                            /\ KindAt(i) = "student" /\ PhaseAt(i) = phase
                            /\ utterances'[i] = [utterances[i] EXCEPT
                                  !.understanding = utterances'[i].understanding,
                                  !.raw = utterances'[i].raw]
    OBVIOUS
  <2>1. TypeOK /\ SayTarget /\ RewriteTarget /\ Len(utterances) \in Nat
    BY <1>1 DEF IInv, TypeOK
  <2>2. ASSUME NEW R \in Seq(Row), Commits(R)
        PROVE  /\ Len(utterances') >= Len(utterances)
               /\ \A i \in Positions : utterances'[i] = utterances[i]
    BY <2>1, <2>2, CommitFacts
  <2>3. ASSUME NEW n \in Positions, NEW x \in Reaction, RewriteShape(n, x)
        PROVE  /\ Len(utterances') >= Len(utterances)
               /\ \A i \in Positions : utterances'[i] # utterances[i] =>
                     /\ KindAt(i) = "student" /\ PhaseAt(i) = phase
                     /\ utterances'[i] = [utterances[i] EXCEPT
                           !.understanding = utterances'[i].understanding,
                           !.raw = utterances'[i].raw]
    <3>1. /\ Len(utterances') = Len(utterances)
          /\ \A i \in Positions : i # n => utterances'[i] = utterances[i]
      BY <2>1, <2>3, RewriteFacts
    <3>2. PICK row \in Row : row = utterances[n]
      BY <2>1, PositionSets
    <3>3. utterances'[n] = Rewritten(row, x)
      BY <2>1, <2>3, <3>2 DEF RewriteShape, TypeOK, Positions
    <3>4. Rewritten(row, x)
            = [row EXCEPT !.understanding = Rewritten(row, x).understanding,
                          !.raw = Rewritten(row, x).raw]
      BY DEF Rewritten, Row
    <3>5. KindAt(n) = "student" /\ PhaseAt(n) = phase
      BY <2>3 DEF RewriteShape, KindAt, PhaseAt
    <3>6. utterances'[n] = [utterances[n] EXCEPT
                              !.understanding = utterances'[n].understanding,
                              !.raw = utterances'[n].raw]
      BY <3>2, <3>3, <3>4, Zenon
    <3>7. Len(utterances') >= Len(utterances)
      BY <2>1, <3>1
    <3>8. \A i \in Positions : utterances'[i] # utterances[i] => i = n
      BY <3>1
    <3>9. QED
      BY <3>5, <3>6, <3>7, <3>8, Zenon
  <2>4. QED
    BY <1>1, <2>1, <2>2, <2>3, StepShapes DEF EnterShape, SayShape, AdvanceShape,
       LastPhaseShape, FinishShape, LeavesPhase, DeleteShape
<1>2. QED
  BY <1>1, Inductive, PTL DEF Spec, HistoryFrozen

\* A finished lesson is only ever deleted, whatever was still under way.
THEOREM FinishedStays == Spec => FinishedIsFinal
<1>1. ASSUME IInv, [Next]_vars
      PROVE  [status = "finished" => status' = "deleted" /\ phase' = phase]_
                <<status, phase, utterances>>
  <2>1. TypeOK /\ SayTarget /\ RewriteTarget
    BY <1>1 DEF IInv
  <2>2. QED
    BY <1>1, <2>1, StepShapes DEF EnterShape, SayShape, AdvanceShape,
       LastPhaseShape, FinishShape, LeavesPhase, Commits, RewriteShape, DeleteShape
<1>2. QED
  BY <1>1, Inductive, PTL DEF Spec, FinishedIsFinal

\* The past of a lesson stays as it was, whatever is still under way.
THEOREM PastStays == Spec => PastKept
<1>1. HistoryFrozen /\ FinishedIsFinal => PastKept
  BY DEF PastKept
<1>2. QED
  BY <1>1, HistoryKept, FinishedStays, PTL

-----------------------------------------------------------------------------
(***************************************************************************)
(* SimSession implements Lesson.  The proof follows the shapes of the      *)
(* steps: what is appended or rewritten decides which step of the lesson   *)
(* it is.                                                                  *)
(*                                                                         *)
(* The lesson is read from the set of the rows, whatever their order; only *)
(* the number of turns is counted by position.                             *)
(***************************************************************************)

Said == {utterances[i] : i \in Positions}

OpenedIn(rows, k) == \E u \in rows : u.kind = "phase_enter" /\ u.phase = k
LeftIn(rows, k) == {u.kind : u \in {v \in rows : v.phase = k}} \cap Transitions
AgreedIn(rows, k) ==
    {p \in Personas : \E u \in rows :
        /\ u.kind = "student" /\ u.phase = k /\ u.who = p
        /\ u.understanding >= AgreeThreshold}

LEMMA ReadBefore ==
    /\ Opened(phase) <=> OpenedIn(Said, phase)
    /\ Agreed(phase) = AgreedIn(Said, phase)
    /\ \A k : LeftBy(k) = LeftIn(Said, k)
<1>1. Opened(phase) <=> OpenedIn(Said, phase)
  BY DEF Opened, OpenedIn, Said
<1>2. Agreed(phase) = AgreedIn(Said, phase)
  BY DEF Agreed, Mine, InPhase, AgreedIn, Said
<1>3. \A k : LeftBy(k) = LeftIn(Said, k)
  BY DEF LeftBy, InPhase, LeftIn, Said
<1>4. QED
  BY <1>1, <1>2, <1>3

LEMMA ReadAfter ==
    /\ Opened(phase)' <=> OpenedIn(Said', phase')
    /\ Agreed(phase)' = AgreedIn(Said', phase')
    /\ \A k : LeftBy(k)' = LeftIn(Said', k)
<1>1. Opened(phase)' <=> OpenedIn(Said', phase')
  BY DEF Opened, OpenedIn, Said
<1>2. Agreed(phase)' = AgreedIn(Said', phase')
  BY DEF Agreed, Mine, InPhase, AgreedIn, Said
<1>3. \A k : LeftBy(k)' = LeftIn(Said', k)
  BY DEF LeftBy, InPhase, LeftIn, Said
<1>4. QED
  BY <1>1, <1>2, <1>3

LEMMA OpenedIsSaid == Opened(phase) \in BOOLEAN /\ Opened(phase)' \in BOOLEAN
BY DEF Opened

\* In a phase that runs and has rows the row that opens it is there.
LEMMA RunningOpened ==
    ASSUME IInv, status = "running", InPhase(phase) # {}
    PROVE  Opened(phase)
<1>1. PICK i \in Positions : utterances[i].phase = phase
  BY DEF InPhase
<1>2. utterances[i].kind \notin Transitions \cup Ends
  BY <1>1 DEF IInv, RowsBelow, EndIsLastRow, KindAt, PhaseAt
<1>3. utterances[i].kind \in {"phase_enter", "plan", "say", "student"}
  BY <1>2, PositionSets DEF IInv, Row, Kinds
<1>4. CASE utterances[i].kind = "phase_enter"
  BY <1>1, <1>4 DEF Opened
<1>5. CASE utterances[i].kind # "phase_enter"
  <2>1. PICK j \in 1 .. i - 1 : /\ utterances[j].kind = "phase_enter"
                                /\ utterances[j].phase = phase
    BY <1>1, <1>3, <1>5 DEF IInv, OpenedOnceBeforeUse, KindAt, PhaseAt
  <2>2. j \in Positions
    BY <2>1, PositionSets DEF IInv, TypeOK
  <2>3. QED
    BY <2>1, <2>2 DEF Opened
<1>6. QED
  BY <1>4, <1>5

\* While a phase runs it has not been left.
LEMMA RunningNotLeft ==
    ASSUME IInv, status = "running"
    PROVE  LeftBy(phase) = {}
BY DEF IInv, RowsBelow, LeftBy, InPhase, KindAt, PhaseAt

\* The rows of a commit, by their place behind the others.
LEMMA CommittedRows ==
    ASSUME TypeOK, NEW R \in Seq(Row), Commits(R)
    PROVE  /\ Len(utterances) \in Nat /\ Len(R) \in Nat
           /\ \A n \in 1 .. Len(R) : /\ Len(utterances) + n \in Positions'
                                     /\ utterances'[Len(utterances) + n] = R[n]
                                     /\ R[n].phase = phase
           /\ \A i \in Positions' : i \notin Positions =>
                 \E n \in 1 .. Len(R) : /\ i = Len(utterances) + n
                                        /\ utterances'[i] = R[n]
           /\ \A i \in Positions : i \in Positions' /\ utterances'[i] = utterances[i]
<1> DEFINE base == Len(utterances)
<1>1. base \in Nat /\ Len(R) \in Nat
  BY DEF TypeOK
<1>2. \A n \in 1 .. Len(R) : base + n \in Positions' /\ base + n \notin Positions
  BY <1>1, CommitFacts, PositionSets
<1>3. \A n \in 1 .. Len(R) : (base + n) - base = n
  BY <1>1
<1>4. \A i \in Positions' : i \notin Positions =>
         i - base \in 1 .. Len(R) /\ utterances'[i] = R[i - base]
  BY CommitFacts
<1>5. \A i \in Positions' : i \notin Positions => i = base + (i - base)
  <2>1. \A i \in Positions' : i \in Int
    BY CommitFacts
  <2>2. QED
    BY <1>1, <2>1
<1>6. \A i \in Positions : i \in Positions' /\ utterances'[i] = utterances[i]
  BY CommitFacts
<1> HIDE DEF base
<1>7. \A n \in 1 .. Len(R) : utterances'[base + n] = R[n]
  <2> SUFFICES ASSUME NEW n \in 1 .. Len(R)
               PROVE  utterances'[base + n] = R[n]
    OBVIOUS
  <2>1. utterances'[base + n] = R[(base + n) - base]
    BY <1>2, <1>4
  <2>2. QED
    BY <1>3, <2>1
<1>8. QED
  BY <1>1, <1>2, <1>4, <1>5, <1>6, <1>7 DEF Commits, base

\* A commit adds its rows, and turns only with what the teacher types.
LEMMA SaidAfterCommit ==
    ASSUME TypeOK, NEW R \in Seq(Row), Commits(R)
    PROVE  /\ Said' = Said \cup {R[n] : n \in 1 .. Len(R)}
           /\ (\A n \in 1 .. Len(R) : R[n].kind # "say") => UserTurns' = UserTurns
<1>1. Said' \subseteq Said \cup {R[n] : n \in 1 .. Len(R)}
  <2> SUFFICES ASSUME NEW u \in Said', u \notin Said
               PROVE  \E n \in 1 .. Len(R) : u = R[n]
    OBVIOUS
  <2>1. PICK i \in Positions' : u = utterances'[i]
    BY DEF Said
  <2>2. i \notin Positions
    BY <2>1, CommittedRows DEF Said
  <2>3. QED
    BY <2>1, <2>2, CommittedRows
<1>2. Said \subseteq Said'
  BY CommittedRows DEF Said
<1>3. \A n \in 1 .. Len(R) : R[n] \in Said'
  BY CommittedRows DEF Said
<1>4. ASSUME \A n \in 1 .. Len(R) : R[n].kind # "say"
      PROVE  UserTurns' = UserTurns
  <2>1. UserTurns' \subseteq UserTurns
    BY <1>4, CommittedRows DEF UserTurns
  <2>2. UserTurns \subseteq UserTurns'
    BY CommittedRows DEF UserTurns
  <2>3. QED
    BY <2>1, <2>2
<1>5. QED
  BY <1>1, <1>2, <1>3, <1>4

-----------------------------------------------------------------------------
(* Each shape of a step is a step of the lesson.                           *)

\* The row of the plan opens the phase; the class has not agreed yet.
LEMMA EnterOpens ==
    ASSUME IInv, NEW R \in Seq(Row), EnterShape(R)
    PROVE  L!Open
<1> DEFINE New == {R[n] : n \in 1 .. Len(R)}
<1>1. TypeOK /\ Commits(R) /\ InPhase(phase) = {} /\ status = "running"
      /\ Len(R) \in Nat /\ Len(R) >= 3
  BY DEF IInv, EnterShape, EnterAnswers, Commits
<1>2. \A n \in 1 .. Len(R) : n = 1 \/ n = 2 \/ n \in 3 .. Len(R)
  BY <1>1
<1>3. \A u \in New : /\ u.kind \notin Transitions \cup {"say"}
                     /\ u.kind = "student" => ~(u.understanding >= AgreeThreshold)
  <2> SUFFICES ASSUME NEW n \in 1 .. Len(R)
               PROVE  /\ R[n].kind \notin Transitions \cup {"say"}
                      /\ R[n].kind = "student" =>
                            ~(R[n].understanding >= AgreeThreshold)
    OBVIOUS
  <2>1. CASE n = 1
    BY <2>1 DEF EnterShape, Transitions
  <2>2. CASE n = 2
    BY <2>2 DEF EnterShape, EnterAnswers, Transitions
  <2>3. CASE n \in 3 .. Len(R)
    <3>1. R[n].kind = "student" /\ R[n].understanding < AgreeThreshold
      BY <2>3 DEF EnterShape, EnterAnswers
    <3>2. R[n].understanding \in Int
      <4>1. R[n] \in Row
        OBVIOUS
      <4>2. QED
        BY <4>1 DEF Row, Levels, None
    <3>3. QED
      BY <3>1, <3>2 DEF Transitions
  <2>4. QED
    BY <1>2, <2>1, <2>2, <2>3
<1>4. R[1] \in New /\ R[1].kind = "phase_enter" /\ R[1].phase = phase
  <2>1. 1 \in 1 .. Len(R)
    BY <1>1
  <2>2. QED
    BY <1>1, <2>1 DEF EnterShape, Commits
<1>5. Said' = Said \cup New /\ UserTurns' = UserTurns
  BY <1>1, <1>3, SaidAfterCommit
<1>6. \A u \in Said : u.phase # phase
  BY <1>1 DEF Said, InPhase
<1>7. phase' = phase /\ status' = status
  BY DEF EnterShape
<1> HIDE DEF New
<1>8. ~Opened(phase) /\ Opened(phase)'
  BY <1>4, <1>5, <1>6, <1>7, ReadBefore, ReadAfter DEF OpenedIn
<1>9. Agreed(phase)' = Agreed(phase)
  BY <1>3, <1>5, <1>6, <1>7, ReadBefore, ReadAfter DEF AgreedIn
<1>10. \A k : LeftBy(k)' = LeftBy(k)
  <2>1. \A k : LeftIn(Said', k) = LeftIn(Said, k)
    BY <1>3, <1>5 DEF LeftIn
  <2>2. QED
    BY <2>1, ReadBefore, ReadAfter
<1>11. QED
  BY <1>1, <1>5, <1>7, <1>8, <1>9, <1>10 DEF L!Open, TurnsUsed

\* What the teacher types is one turn; only those she asked may come to agree.
LEMMA SayTeaches ==
    ASSUME IInv, NEW R \in Seq(Row), SayShape(R)
    PROVE  L!Teach
<1> DEFINE New == {R[n] : n \in 1 .. Len(R)}
<1>1. TypeOK /\ Commits(R) /\ InPhase(phase) # {} /\ status = "running"
      /\ TurnsUsed < MaxTurns /\ R[1].who \in 0 .. Seats /\ phase' = phase
      /\ status' = status
  BY DEF IInv, SayShape, Commits
<1>2. PICK who \in 0 .. Seats : who = R[1].who
  BY <1>1
<1>3. \A u \in New : /\ u.kind \in {"say", "student"}
                     /\ u.kind = "student" => u.who \in Responders(who)
  <2> SUFFICES ASSUME NEW n \in 1 .. Len(R)
               PROVE  /\ R[n].kind \in {"say", "student"}
                      /\ R[n].kind = "student" => R[n].who \in Responders(who)
    OBVIOUS
  <2>1. n = 1 \/ n \in 2 .. Len(R)
    OBVIOUS
  <2>2. QED
    BY <1>2, <2>1 DEF SayShape
<1>4. Said' = Said \cup New
  BY <1>1, SaidAfterCommit
<1>5. TurnsUsed' = TurnsUsed + 1
  BY <1>1, SayTurn
<1> HIDE DEF New
<1>6. Opened(phase) /\ Opened(phase)'
  <2>1. Opened(phase)
    BY <1>1, RunningOpened
  <2>2. QED
    BY <1>1, <1>4, <2>1, ReadBefore, ReadAfter DEF OpenedIn
<1>7. Responders(who) \in {Personas} \cup {{p} : p \in Personas}
  BY DEF Responders, Personas, Everyone
<1>8. \E more \in SUBSET Responders(who) : Agreed(phase)' = Agreed(phase) \cup more
  <2>1. /\ AgreedIn(Said, phase) \subseteq AgreedIn(Said', phase)
        /\ AgreedIn(Said', phase) \subseteq AgreedIn(Said, phase) \cup Responders(who)
    BY <1>3, <1>4 DEF AgreedIn
  <2>2. Agreed(phase)'
          = Agreed(phase) \cup (Agreed(phase)' \cap Responders(who))
    BY <1>1, <2>1, ReadBefore, ReadAfter
  <2>3. QED
    BY <2>2
<1>9. \A k : LeftBy(k)' = LeftBy(k)
  <2>1. \A k : LeftIn(Said', k) = LeftIn(Said, k)
    BY <1>3, <1>4 DEF LeftIn, Transitions
  <2>2. QED
    BY <2>1, ReadBefore, ReadAfter
<1>10. QED
  <2>1. \E audience \in {Personas} \cup {{p} : p \in Personas} :
           \E more \in SUBSET audience : Agreed(phase)' = Agreed(phase) \cup more
    BY <1>7, <1>8
  <2>2. QED
    BY <1>1, <1>5, <1>6, <1>9, <2>1 DEF L!Teach

\* A reaction generated again changes the mind of one persona at most.
LEMMA RewriteCorrects ==
    ASSUME IInv, NEW n \in Positions, NEW x \in Reaction, RewriteShape(n, x)
    PROVE  \E p \in Personas : L!Correct(p)
<1>1. TypeOK /\ status = "running" /\ phase' = phase /\ status' = status
      /\ utterances[n].phase = phase /\ utterances[n].who \in Personas
  BY DEF IInv, RewriteShape
<1>2. /\ Positions' = Positions
      /\ \A i \in Positions : i # n => utterances'[i] = utterances[i]
      /\ \A i \in Positions : /\ utterances'[i].kind = utterances[i].kind
                              /\ utterances'[i].phase = utterances[i].phase
                              /\ utterances'[i].who = utterances[i].who
  BY <1>1, RewriteFacts
<1>3. PICK p \in Personas : p = utterances[n].who
  BY <1>1
<1>4. InPhase(phase) # {}
  BY <1>1 DEF InPhase
<1>5. Opened(phase) /\ Opened(phase)'
  <2>1. Opened(phase)
    BY <1>1, <1>4, RunningOpened
  <2>2. QED
    BY <1>1, <1>2, <2>1 DEF Opened
<1>6. \A q \in Personas : q # p => (q \in Agreed(phase)' <=> q \in Agreed(phase))
  <2> SUFFICES ASSUME NEW q \in Personas, q # p
               PROVE  q \in Agreed(phase)' <=> q \in Agreed(phase)
    OBVIOUS
  <2>1. \A i \in Positions :
           /\ (utterances'[i].kind = "student" /\ utterances'[i].phase = phase
                 /\ utterances'[i].who = q)
              <=> (utterances[i].kind = "student" /\ utterances[i].phase = phase
                     /\ utterances[i].who = q)
           /\ utterances[i].who = q => utterances'[i] = utterances[i]
    BY <1>2, <1>3
  <2>2. QED
    BY <1>1, <1>2, <2>1 DEF Agreed, Mine, InPhase
<1>7. Agreed(phase)' \in {Agreed(phase) \cup {p}, Agreed(phase) \ {p}}
  <2>1. Agreed(phase) \subseteq Personas /\ Agreed(phase)' \subseteq Personas
    BY DEF Agreed, Personas
  <2>2. CASE p \in Agreed(phase)'
    BY <1>6, <2>1, <2>2
  <2>3. CASE p \notin Agreed(phase)'
    BY <1>6, <2>1, <2>3
  <2>4. QED
    BY <2>2, <2>3
<1>8. \A k : LeftBy(k)' = LeftBy(k)
  BY <1>2 DEF LeftBy, InPhase
<1>9. UserTurns' = UserTurns
  BY <1>2 DEF UserTurns
<1>10. L!Correct(p)
  BY <1>1, <1>5, <1>7, <1>8, <1>9 DEF L!Correct, TurnsUsed
<1>11. QED
  BY <1>10

\* A phase is left in one way, which its transition row says.
LEMMA LeavesInOneWay ==
    ASSUME IInv, NEW R \in Seq(Row), LeavesPhase(R),
           Len(R) = 1 \/ (Len(R) = 2 /\ R[2].kind = "last_phase")
    PROVE  /\ Said' = Said \cup {R[n] : n \in 1 .. Len(R)}
           /\ \A n \in 1 .. Len(R) : /\ R[n].kind \in Transitions \cup {"last_phase"}
                                     /\ R[n].phase = phase
           /\ L!Leave(R[1].kind) /\ R[1].kind \in L!Ways
<1> DEFINE New == {R[n] : n \in 1 .. Len(R)}
           way == R[1].kind
<1>1. TypeOK /\ Commits(R) /\ status = "running" /\ phase \in Phases
      /\ Len(R) >= 1 /\ way \in Transitions
      /\ (way = "agree_advance" => Agreed(phase) = Personas)
  BY DEF IInv, TypeOK, LeavesPhase, Commits, AllAgreed
<1>2. \A n \in 1 .. Len(R) : n = 1 \/ (n = 2 /\ R[n].kind = "last_phase")
  <2>1. CASE Len(R) = 1
    BY <2>1
  <2>2. CASE Len(R) = 2 /\ R[2].kind = "last_phase"
    <3>1. \A n \in 1 .. 2 : n = 1 \/ n = 2
      OBVIOUS
    <3>2. QED
      BY <2>2, <3>1
  <2>3. QED
    BY <2>1, <2>2
<1>3. \A n \in 1 .. Len(R) : /\ R[n].kind \in {way, "last_phase"}
                             /\ R[n].phase = phase
  BY <1>1, <1>2 DEF Commits
<1>4. R[1] \in New
  <2>1. 1 \in 1 .. Len(R)
    BY <1>1
  <2>2. QED
    BY <2>1
<1>5. Said' = Said \cup New /\ UserTurns' = UserTurns
  BY <1>1, <1>3, SaidAfterCommit DEF Transitions
<1>6. \A u \in New : u.kind \in {way, "last_phase"} /\ u.phase = phase
  BY <1>3
<1>7. R[1].kind = way
  OBVIOUS
<1> HIDE DEF New, way
<1>8. LeftBy(phase) = {}
  BY <1>1, RunningNotLeft
<1>9. \A k : k # phase => LeftIn(Said', k) = LeftIn(Said, k)
  BY <1>5, <1>6 DEF LeftIn
<1>10. LeftIn(Said', phase) = {way}
  <2>1. LeftIn(Said, phase) = {}
    BY <1>8, ReadBefore
  <2>2. LeftIn(Said', phase) \subseteq {way}
    BY <1>5, <1>6, <2>1 DEF LeftIn, Transitions
  <2>3. way \in LeftIn(Said', phase)
    BY <1>1, <1>4, <1>5, <1>6, <1>7 DEF LeftIn
  <2>4. QED
    BY <2>2, <2>3
<1>11. [k \in Phases |-> LeftBy(k)]'
         = [[k \in Phases |-> LeftBy(k)] EXCEPT ![phase] = {way}]
  <2>1. \A k \in Phases : LeftBy(k)' = IF k = phase THEN {way} ELSE LeftBy(k)
    BY <1>9, <1>10, ReadBefore, ReadAfter
  <2>2. QED
    BY <1>1, <2>1
<1>12. L!Leave(way)
  BY <1>1, <1>5, <1>11 DEF L!Leave, TurnsUsed
<1>13. way \in L!Ways
  BY <1>1 DEF L!Ways, Transitions
<1>14. QED
  BY <1>1, <1>3, <1>5, <1>12, <1>13 DEF New, way

LEMMA AdvanceMovesOn ==
    ASSUME IInv, NEW R \in Seq(Row), AdvanceShape(R)
    PROVE  \E way \in L!Ways : L!MoveOn(way)
<1>1. /\ Said' = Said \cup {R[n] : n \in 1 .. Len(R)}
      /\ \A n \in 1 .. Len(R) : R[n].phase = phase
      /\ L!Leave(R[1].kind) /\ R[1].kind \in L!Ways
  BY LeavesInOneWay DEF AdvanceShape
<1>2. phase \in Nat /\ phase + 1 < NPhases /\ phase' = phase + 1 /\ status' = status
  BY DEF AdvanceShape, IInv, TypeOK, Phases
<1>3. \A u \in Said' : u.phase # phase'
  <2>1. \A u \in Said : u.phase <= phase /\ u.phase \in Nat
    <3>1. \A i \in Positions : utterances[i].phase \in Phases
      BY PositionSets DEF IInv, Row
    <3>2. QED
      BY <3>1 DEF Said, IInv, RowsBelow, PhaseAt, Phases
  <2>2. QED
    BY <1>1, <1>2, <2>1
<1>4. ~Opened(phase)'
  BY <1>3, ReadAfter DEF OpenedIn
<1>5. Agreed(phase)' = {}
  BY <1>3, ReadAfter DEF AgreedIn
<1>6. L!MoveOn(R[1].kind)
  BY <1>1, <1>2, <1>4, <1>5 DEF L!MoveOn
<1>7. QED
  BY <1>1, <1>6

LEMMA LastPhaseCompletes ==
    ASSUME IInv, NEW R \in Seq(Row), LastPhaseShape(R)
    PROVE  \E way \in L!Ways : L!Complete(way)
<1> DEFINE New == {R[n] : n \in 1 .. Len(R)}
<1>1. /\ Said' = Said \cup New
      /\ \A u \in New : u.kind \in Transitions \cup {"last_phase"}
      /\ L!Leave(R[1].kind) /\ R[1].kind \in L!Ways
  BY LeavesInOneWay DEF LastPhaseShape
<1>2. phase + 1 = NPhases /\ phase' = phase /\ status' = "finished"
  BY DEF LastPhaseShape
<1> HIDE DEF New
<1>3. Opened(phase)' = Opened(phase)
  <2>1. OpenedIn(Said', phase) <=> OpenedIn(Said, phase)
    BY <1>1 DEF OpenedIn, Transitions
  <2>2. QED
    BY <1>2, <2>1, ReadBefore, ReadAfter, OpenedIsSaid
<1>4. Agreed(phase)' = Agreed(phase)
  <2>1. AgreedIn(Said', phase) = AgreedIn(Said, phase)
    BY <1>1 DEF AgreedIn, Transitions
  <2>2. QED
    BY <1>2, <2>1, ReadBefore, ReadAfter
<1>5. L!Complete(R[1].kind)
  BY <1>1, <1>2, <1>3, <1>4 DEF L!Complete
<1>6. QED
  BY <1>1, <1>5

LEMMA FinishStops ==
    ASSUME IInv, NEW R \in Seq(Row), FinishShape(R)
    PROVE  L!Stop
<1> DEFINE New == {R[n] : n \in 1 .. Len(R)}
<1>1. TypeOK /\ Commits(R) /\ status = "running" /\ status' = "finished"
      /\ phase' = phase
  BY DEF IInv, FinishShape, Commits
<1>2. \A n \in 1 .. Len(R) : R[n].kind = "finish"
  BY DEF FinishShape
<1>3. Said' = Said \cup New /\ UserTurns' = UserTurns
  BY <1>1, <1>2, SaidAfterCommit
<1>4. \A u \in New : u.kind = "finish"
  BY <1>2
<1> HIDE DEF New
<1>5. Opened(phase)' = Opened(phase)
  <2>1. OpenedIn(Said', phase) <=> OpenedIn(Said, phase)
    BY <1>3, <1>4 DEF OpenedIn
  <2>2. QED
    BY <1>1, <2>1, ReadBefore, ReadAfter, OpenedIsSaid
<1>6. Agreed(phase)' = Agreed(phase)
  BY <1>1, <1>3, <1>4, ReadBefore, ReadAfter DEF AgreedIn
<1>7. \A k : LeftBy(k)' = LeftBy(k)
  <2>1. \A k : LeftIn(Said', k) = LeftIn(Said, k)
    BY <1>3, <1>4 DEF LeftIn, Transitions
  <2>2. QED
    BY <2>1, ReadBefore, ReadAfter
<1>8. QED
  BY <1>1, <1>3, <1>5, <1>6, <1>7 DEF L!Stop, TurnsUsed

\* Without rows there is no lesson to read.
LEMMA NoRowsRead ==
    ASSUME utterances = <<>>
    PROVE  /\ ~Opened(phase) /\ TurnsUsed = 0 /\ Agreed(phase) = {}
           /\ [k \in Phases |-> LeftBy(k)] = [k \in 0 .. NPhases - 1 |-> {}]
<1>1. Positions = {}
  BY DEF Positions
<1>2. ~Opened(phase) /\ Agreed(phase) = {} /\ UserTurns = {}
  BY <1>1 DEF Opened, Agreed, Mine, InPhase, UserTurns
<1>3. TurnsUsed = 0
  BY <1>2, FS_EmptySet DEF TurnsUsed
<1>4. \A k : LeftBy(k) = {}
  BY <1>1 DEF LeftBy, InPhase
<1>5. QED
  BY <1>2, <1>3, <1>4 DEF Phases

LEMMA NoRowsReadAfter ==
    ASSUME utterances' = <<>>
    PROVE  /\ ~Opened(phase)' /\ TurnsUsed' = 0 /\ Agreed(phase)' = {}
           /\ [k \in Phases |-> LeftBy(k)]' = [k \in 0 .. NPhases - 1 |-> {}]
<1>1. Positions' = {}
  BY DEF Positions
<1>2. ~Opened(phase)' /\ Agreed(phase)' = {} /\ UserTurns' = {}
  BY <1>1 DEF Opened, Agreed, Mine, InPhase, UserTurns
<1>3. TurnsUsed' = 0
  BY <1>2, FS_EmptySet DEF TurnsUsed
<1>4. \A k : LeftBy(k)' = {}
  BY <1>1 DEF LeftBy, InPhase
<1>5. QED
  BY <1>2, <1>3, <1>4 DEF Phases

LEMMA DeleteDeletes ==
    ASSUME DeleteShape
    PROVE  L!Delete
BY NoRowsReadAfter DEF DeleteShape, L!Delete

-----------------------------------------------------------------------------
\* Whatever requests overlap on a session, what its rows say is a lesson that
\* one teacher could have given step by step: each phase opened once, taught
\* within the turns and left in one way, the end reached once.
THEOREM SessionsAreLessons == Spec => ImplementsLesson
<1>1. Init => L!Init
  BY NoRowsRead DEF Init, L!Init
<1>2. ASSUME IInv, [Next]_vars
      PROVE  [L!Next]_(L!vars)
  <2>1. TypeOK /\ SayTarget /\ RewriteTarget
    BY <1>2 DEF IInv
  <2>2. CASE UNCHANGED <<status, phase, utterances>>
    BY <2>2 DEF L!vars, Opened, TurnsUsed, UserTurns, Agreed, Mine, LeftBy,
       InPhase, Positions
  <2>3. ASSUME NEW R \in Seq(Row), \/ EnterShape(R) \/ SayShape(R)
                                   \/ AdvanceShape(R) \/ LastPhaseShape(R)
                                   \/ FinishShape(R)
        PROVE  L!Next
    BY <1>2, <2>3, EnterOpens, SayTeaches, AdvanceMovesOn, LastPhaseCompletes,
       FinishStops DEF L!Next
  <2>4. ASSUME NEW n \in Positions, NEW x \in Reaction, RewriteShape(n, x)
        PROVE  L!Next
    BY <1>2, <2>4, RewriteCorrects DEF L!Next
  <2>5. CASE DeleteShape
    BY <2>5, DeleteDeletes DEF L!Next
  <2>6. QED
    BY <1>2, <2>1, <2>2, <2>3, <2>4, <2>5, StepShapes
<1>3. QED
  BY <1>1, <1>2, Inductive, PTL DEF Spec, ImplementsLesson, L!Spec

-----------------------------------------------------------------------------
(* Reactions stored while every request works alone.                       *)

\* Whoever is at work when no two have met is the only one.
LEMMA OnlyOne ==
    ASSUME ~Meeting, NEW r \in Requests, NEW s \in Requests,
           req[r].pc # "idle", req[s].pc # "idle"
    PROVE  r = s
BY DEF Meeting, AtWork

LEMMA ReadyIsAtWork ==
    ASSUME NEW r \in Requests, NEW op \in Ops, ReadyToWrite(r, op)
    PROVE  req[r].pc # "idle"
BY DEF ReadyToWrite

\* Where no two requests meet, one that is waiting to write was so before, or
\* has just asked; meanwhile the rows have not changed, unless by the deletion.
LEMMA NobodyElse ==
    ASSUME TypeOK, [Next]_vars, ~Meeting, ~Meeting',
           NEW r \in Requests, NEW op \in {"say", "regenerate"}, ReadyToWrite(r, op)'
    PROVE  \/ UNCHANGED <<status, utterances, req>>
           \/ Ask(r)
           \/ status' = "deleted"
<1>1. req'[r].op = op /\ req'[r].pc = "asking"
  BY DEF ReadyToWrite, AskingOps
<1>2. \A s \in Requests : req'[s].pc # "idle" => s = r
  BY <1>1 DEF Meeting, AtWork
<1>3. req \in [Requests -> Request]
  BY DEF TypeOK
<1>4. ASSUME NEW s \in Requests, req[s].pc # "idle", Return(s)
      PROVE  FALSE
  <2>1. req'[s].pc = "idle" /\ \A q \in Requests \ {s} : req'[q] = req[q]
    BY <1>3, <1>4 DEF Return, Idle
  <2>2. r # s /\ req[r].pc # "idle"
    BY <1>1, <2>1
  <2>3. QED
    BY <1>4, <2>2, OnlyOne
<1>5. ASSUME NEW s \in Requests, Arrive(s)
      PROVE  FALSE
  <2>1. req'[s].pc = "loaded"
    BY <1>3, <1>5 DEF Arrive, Load
  <2>2. QED
    BY <1>1, <1>2, <2>1
<1>6. ASSUME NEW s \in Requests, Ask(s)
      PROVE  Ask(r)
  <2>1. \A q \in Requests \ {s} : req'[q] = req[q]
    BY <1>3, <1>6 DEF Ask
  <2>2. CASE r = s
    BY <2>2, <1>6
  <2>3. CASE r # s
    <3>1. req[r].pc # "idle" /\ req[s].pc # "idle"
      BY <1>1, <1>6, <2>1, <2>3 DEF Ask
    <3>2. QED
      BY <2>3, <3>1, OnlyOne
  <2>4. QED
    BY <2>2, <2>3
<1>7. ASSUME NEW s \in Requests, Refuse(s) \/ LockLost(s) \/ Write(s) \/ Drop(s)
      PROVE  req[s].pc # "idle" /\ Return(s)
  <2>1. CASE Refuse(s) \/ Drop(s)
    BY <2>1 DEF Refuse, Drop
  <2>2. CASE LockLost(s)
    BY <2>2 DEF LockLost, ReadyToWrite
  <2>3. CASE EnterStored(s) \/ EnterWrite(s) \/ SayOverLimit(s) \/ SayWrite(s)
    BY <2>3 DEF EnterStored, EnterWrite, SayOverLimit, SayWrite, ReadyToWrite
  <2>4. CASE RegenerateWrite(s) \/ AgreeRefused(s) \/ FinishWrite(s)
    BY <2>4 DEF RegenerateWrite, AgreeRefused, FinishWrite, ReadyToWrite
  <2>5. CASE AdvanceWrite(s) \/ AdvanceEnds(s)
    BY <2>5 DEF AdvanceWrite, AdvanceEnds, MayAdvance, ReadyToWrite
  <2>6. QED
    BY <1>7, <2>1, <2>2, <2>3, <2>4, <2>5 DEF Write
<1>8. CASE UNCHANGED vars
  BY <1>8 DEF vars
<1>9. CASE DeleteUser
  BY <1>9 DEF DeleteUser
<1>10. CASE Next
  BY <1>4, <1>5, <1>6, <1>7, <1>9, <1>10 DEF Next, Proceed
<1>11. QED
  BY <1>8, <1>10

\* What a request remembers when it asks is what the rows say.
LEMMA AskReads ==
    ASSUME TypeOK, NEW r \in Requests, Ask(r)
    PROVE  LevelsCurrent(r)' /\ RowCurrent(r)'
<1>1. req \in [Requests -> Request] /\ UNCHANGED utterances
  BY DEF TypeOK, Ask
<1>2. PICK q \in Request : q = req[r]
  BY RequestFields
<1>3. PICK s : s = Snapshot(r)
  OBVIOUS
<1>4. s \in Request /\ s.op = q.op /\ s.idx = q.idx /\ s.arg = q.arg
  BY <1>2, <1>3, SnapshotFacts
<1>5. req'[r] = [s EXCEPT !.pc = "asking"]
  BY <1>1, <1>3 DEF Ask
<1>6. /\ req'[r].op = q.op /\ req'[r].idx = q.idx /\ req'[r].arg = q.arg
      /\ req'[r].previous = s.previous /\ req'[r].row = s.row
  BY <1>4, <1>5 DEF Request
<1>7. LevelsCurrent(r)'
  <2> SUFFICES ASSUME q.op = "say", NEW p \in Responders(q.arg)
               PROVE  s.previous[p] = Previous(q.idx, p, Len(utterances) + 1)'
    BY <1>6 DEF LevelsCurrent, ReadyToWrite
  <2>1. p \in Personas
    BY <1>2 DEF Responders, Request, Personas, Everyone
  <2>2. s = [q EXCEPT !.previous =
                [n \in Personas |-> IF n \in Responders(q.arg)
                                    THEN Previous(q.idx, n, Len(utterances) + 1)
                                    ELSE None]]
    BY <1>2, <1>3 DEF Snapshot
  <2>3. s.previous[p] = Previous(q.idx, p, Len(utterances) + 1)
    BY <2>1, <2>2 DEF Request
  <2>4. Previous(q.idx, p, Len(utterances) + 1)' = Previous(q.idx, p, Len(utterances) + 1)
    BY <1>1 DEF Previous, Valid, Mine, InPhase, Positions
  <2>5. QED
    BY <2>3, <2>4
<1>8. RowCurrent(r)'
  <2> SUFFICES ASSUME q.op = "regenerate", ReadyToWrite(r, "regenerate")'
               PROVE  /\ \A i \in Mine(q.idx, q.arg)' : i <= s.row
                      /\ utterances'[s.row].understanding = None
                      /\ s.previous[q.arg] = Previous(q.idx, q.arg, s.row)'
    BY <1>6 DEF RowCurrent, ReadyToWrite
  <2>1. q.arg \in Personas
    BY <1>2 DEF TypeOK
  <2>2. PICK row : row = Max(Mine(q.idx, q.arg))
    OBVIOUS
  <2>3. s = [q EXCEPT !.row = row,
                !.first = (Mine(q.idx, q.arg) = {row}),
                !.previous = [n \in Personas |->
                    IF n = q.arg THEN Previous(q.idx, q.arg, row) ELSE None]]
    BY <1>2, <1>3, <2>2 DEF Snapshot
  <2>4. s.row = row /\ s.previous[q.arg] = Previous(q.idx, q.arg, row)
    BY <2>1, <2>3 DEF Request
  <2>5. Mine(q.idx, q.arg) # {} /\ utterances[row].understanding = None
    BY <1>2, <2>2 DEF Ask, Refused, Regenerable
  <2>6. Mine(q.idx, q.arg) \in SUBSET Positions
    BY DEF Mine, InPhase
  <2>7. \A i \in Mine(q.idx, q.arg) : i <= row
    BY <2>2, <2>5, <2>6, PositionSets, MaxOfFinite
  <2>8. Mine(q.idx, q.arg)' = Mine(q.idx, q.arg)
    BY <1>1 DEF Mine, InPhase, Positions
  <2>9. Previous(q.idx, q.arg, s.row)' = Previous(q.idx, q.arg, s.row)
    BY <1>1 DEF Previous, Valid, Mine, InPhase, Positions
  <2>10. QED
    BY <1>1, <2>4, <2>5, <2>7, <2>8, <2>9
<1>9. QED
  BY <1>7, <1>8

LEMMA ReadIsCurrentStep ==
    ASSUME TypeOK, ReadIsCurrent, OneAtWork, OneAtWork', [Next]_vars,
           overlapped \in BOOLEAN, overlapped' = (overlapped \/ Meeting')
    PROVE  ReadIsCurrent'
<1> SUFFICES ASSUME ~overlapped', status' # "deleted", NEW r \in Requests
             PROVE  LevelsCurrent(r)' /\ RowCurrent(r)'
  BY DEF ReadIsCurrent
<1>1. ~overlapped /\ ~Meeting /\ ~Meeting'
  BY DEF OneAtWork
<1>2. CASE Ask(r)
  BY <1>2, AskReads
<1>3. CASE UNCHANGED <<status, utterances, req>>
  <2>1. LevelsCurrent(r) /\ RowCurrent(r)
    BY <1>1, <1>3 DEF ReadIsCurrent
  <2>2. LevelsCurrent(r)' = LevelsCurrent(r)
    BY <1>3 DEF LevelsCurrent, ReadyToWrite, Previous, Valid, Mine, InPhase, Positions
  <2>3. RowCurrent(r)' = RowCurrent(r)
    BY <1>3 DEF RowCurrent, ReadyToWrite, Previous, Valid, Mine, InPhase, Positions
  <2>4. QED
    BY <2>1, <2>2, <2>3
<1>4. CASE ~Ask(r) /\ ~UNCHANGED <<status, utterances, req>>
  <2>1. ~ReadyToWrite(r, "say")' /\ ~ReadyToWrite(r, "regenerate")'
    BY <1>1, <1>4, NobodyElse
  <2>2. QED
    BY <2>1 DEF LevelsCurrent, RowCurrent
<1>5. QED
  BY <1>2, <1>3, <1>4

-----------------------------------------------------------------------------
(* The rows that are appended answer with the reactions that were chosen.  *)

\* Each student's row holds the reaction of its persona, who has no other.
Answers(R, reactions) ==
    /\ \A i \in DOMAIN R : R[i].kind = "student" =>
          \E p \in DOMAIN reactions :
             /\ R[i].who = p
             /\ R[i].understanding = reactions[p].understanding
             /\ R[i].raw = reactions[p].raw
    /\ \A i, j \in DOMAIN R :
          R[i].kind = "student" /\ R[j].kind = "student" /\ R[i].who = R[j].who => i = j

LEMMA LinesAnswer ==
    ASSUME NEW k \in Phases, NEW target \in 0 .. Seats,
           NEW reactions \in [Responders(target) -> Reaction]
    PROVE  StudentLines(k, target, reactions) \in Seq(Row)
           /\ Answers(StudentLines(k, target, reactions), reactions)
<1>1. StudentLines(k, target, reactions) \in Seq(Row)
  BY StudentLinesFacts
<1>2. CASE target = Everyone
  <2>1. StudentLines(k, target, reactions)
          = [p \in 1 .. Seats |-> StudentLine(k, p, reactions[p])]
    BY <1>2 DEF StudentLines, Personas
  <2>2. DOMAIN reactions = 1 .. Seats
    BY <1>2 DEF Responders, Personas
  <2>3. QED
    BY <1>1, <2>1, <2>2 DEF Answers, StudentLine
<1>3. CASE target # Everyone
  <2>1. StudentLines(k, target, reactions)
          = <<StudentLine(k, target, reactions[target])>>
    BY <1>3 DEF StudentLines
  <2>2. DOMAIN reactions = {target}
    BY <1>3 DEF Responders
  <2>3. PICK line : line = StudentLine(k, target, reactions[target])
    OBVIOUS
  <2>4. /\ line.who = target /\ line.understanding = reactions[target].understanding
        /\ line.raw = reactions[target].raw
    BY <2>3 DEF StudentLine
  <2>5. DOMAIN <<line>> = {1} /\ <<line>>[1] = line
    OBVIOUS
  <2>6. Answers(<<line>>, reactions)
    BY <2>2, <2>4, <2>5 DEF Answers
  <2>7. QED
    BY <1>1, <2>1, <2>3, <2>6
<1>4. QED
  BY <1>2, <1>3

LEMMA BehindOthers ==
    ASSUME NEW A \in Seq(Row), NEW B \in Seq(Row), NEW reactions,
           \A i \in 1 .. Len(A) : A[i].kind # "student", Answers(B, reactions)
    PROVE  Answers(A \o B, reactions)
<1> DEFINE R == A \o B
<1>1. /\ R \in Seq(Row) /\ Len(R) = Len(A) + Len(B)
      /\ \A i \in 1 .. Len(A) : R[i] = A[i]
      /\ \A i \in 1 .. Len(R) : i > Len(A) =>
            i - Len(A) \in 1 .. Len(B) /\ R[i] = B[i - Len(A)]
  BY Appended
<1> HIDE DEF R
<1>2. /\ Len(A) \in Nat /\ DOMAIN R = 1 .. Len(R) /\ DOMAIN B = 1 .. Len(B)
  BY <1>1
<1>3. \A i \in DOMAIN R : R[i].kind = "student" => i > Len(A)
  BY <1>1, <1>2
<1>4. \A i \in DOMAIN R : R[i].kind = "student" =>
         i - Len(A) \in DOMAIN B /\ R[i] = B[i - Len(A)]
  BY <1>1, <1>2, <1>3
<1>5. \A i \in DOMAIN R : R[i].kind = "student" =>
          \E p \in DOMAIN reactions :
             /\ R[i].who = p
             /\ R[i].understanding = reactions[p].understanding
             /\ R[i].raw = reactions[p].raw
  BY <1>4 DEF Answers
<1>6. ASSUME NEW i \in DOMAIN R, NEW j \in DOMAIN R,
             R[i].kind = "student", R[j].kind = "student", R[i].who = R[j].who
      PROVE  i = j
  <2>1. i - Len(A) = j - Len(A)
    BY <1>4, <1>6 DEF Answers
  <2>2. QED
    BY <1>2, <2>1
<1>7. Answers(R, reactions)
  BY <1>5, <1>6 DEF Answers
<1>8. QED
  BY <1>7 DEF R

-----------------------------------------------------------------------------
(* What is stored of an answer fits what the documentation says.           *)

RawFits(x) == x.raw <=> x.understanding = None

RisesFrom(x, previous) ==
    previous = None \/ x.understanding = None \/ x.understanding <= previous + MaxRise

LEMMA ReactionsDocumented ==
    ASSUME NEW previous \in Levels \cup {None}, NEW first \in BOOLEAN,
           NEW x \in Reactions(previous, first)
    PROVE  x \in Reaction /\ RawFits(x) /\ RisesFrom(x, previous)
<1>1. x \in Reaction
  BY ReactionsType
<1>2. CASE x = Unparsed
  BY <1>1, <1>2 DEF Unparsed, RawFits, RisesFrom
<1>3. CASE x # Unparsed
  <2>1. PICK a \in Answer :
           x = [understanding |-> Stored(a, previous, first), raw |-> FALSE]
    BY <1>3 DEF Reactions
  <2>2. Stored(a, previous, first) \in Levels
    BY StoredLevel
  <2>3. PICK level \in Levels : level = Stored(a, previous, first)
    BY <2>2
  <2>4. x.understanding = level /\ x.raw = FALSE
    BY <2>1, <2>3
  <2>5. level # None
    BY DEF Levels, None
  <2>6. ASSUME previous # None
        PROVE  level <= previous + MaxRise
    <3>1. previous \in Levels
      BY <2>6
    <3>2. a.level \in Levels
      BY DEF Answer
    <3>3. Parsed(a) \in Levels
      BY <3>2 DEF Parsed, AtMost, Levels
    <3>4. Held(a, previous) \in Levels
      BY <3>1, <3>3 DEF Held, OnTaskLevel, AtMost
    <3>5. Bounded(a, previous) <= previous + MaxRise /\ Bounded(a, previous) \in Int
      BY <2>6, <3>1, <3>4 DEF Bounded, AtMost, Levels
    <3>6. QED
      BY <2>3, <3>1, <3>5 DEF Stored, AtMost, Levels
  <2>7. QED
    BY <1>1, <2>4, <2>5, <2>6 DEF RawFits, RisesFrom
<1>4. QED
  BY <1>2, <1>3

\* A commit, and a rewrite, of what the documentation says of reactions.
Documented(R) ==
    /\ Commits(R)
    /\ \A i \in DOMAIN R : R[i].kind = "student" =>
          /\ R[i].who \in Personas /\ RawFits(R[i])
          /\ RisesFrom(R[i], Previous(phase, R[i].who, Len(utterances) + 1))
    /\ \A i, j \in DOMAIN R :
          R[i].kind = "student" /\ R[j].kind = "student" /\ R[i].who = R[j].who => i = j

DocumentedRewrite(n, x) ==
    /\ RewriteShape(n, x)
    /\ utterances[n].understanding = None
    /\ \A i \in Mine(phase, utterances[n].who) : i <= n
    /\ RawFits(x) /\ RisesFrom(x, Previous(phase, utterances[n].who, n))

\* Rows that answer with reactions that fit the levels before them.
LEMMA AnswersDocumented ==
    ASSUME NEW R \in Seq(Row), Commits(R), NEW who \in SUBSET Personas,
           NEW reactions \in [who -> Reaction], Answers(R, reactions),
           \A p \in who : /\ RawFits(reactions[p])
                          /\ RisesFrom(reactions[p], Previous(phase, p, Len(utterances) + 1))
    PROVE  Documented(R)
<1>1. DOMAIN reactions = who
  OBVIOUS
<1>2. ASSUME NEW i \in DOMAIN R, R[i].kind = "student"
      PROVE  /\ R[i].who \in Personas /\ RawFits(R[i])
             /\ RisesFrom(R[i], Previous(phase, R[i].who, Len(utterances) + 1))
  <2>1. PICK p \in who : /\ R[i].who = p
                         /\ R[i].understanding = reactions[p].understanding
                         /\ R[i].raw = reactions[p].raw
    BY <1>1, <1>2 DEF Answers
  <2>2. RawFits(R[i])
    BY <2>1 DEF RawFits
  <2>3. RisesFrom(R[i], Previous(phase, p, Len(utterances) + 1))
    BY <2>1 DEF RisesFrom
  <2>4. QED
    BY <2>1, <2>2, <2>3
<1>3. QED
  BY <1>2 DEF Documented, Answers

LEMMA EnterDocumented ==
    ASSUME TypeOK, NEW r \in Requests, EnterWrite(r)
    PROVE  \E R \in Seq(Row) : Documented(R)
<1>1. PICK reactions \in [Personas -> Reactions(None, TRUE)] :
         utterances' = utterances \o EnterRows(phase, reactions)
  BY DEF EnterWrite, AppendRows, Locked
<1>2. \A p \in Personas : /\ reactions[p] \in Reaction /\ RawFits(reactions[p])
                          /\ RisesFrom(reactions[p], None)
  BY ReactionsDocumented
<1>3. reactions \in [Personas -> Reaction] /\ phase \in Phases /\ status = "running"
  BY <1>2 DEF TypeOK, EnterWrite, Locked
<1>4. PICK A : A = <<Line("phase_enter", phase, 0), Line("plan", phase, Everyone)>>
  OBVIOUS
<1>5. A \in Seq(Row) /\ \A i \in 1 .. Len(A) : A[i].kind # "student"
  BY <1>3, <1>4, LineType DEF Line, Kinds, Everyone
<1>6. PICK B : B = StudentLines(phase, Everyone, reactions)
  OBVIOUS
<1>7. B \in Seq(Row) /\ Answers(B, reactions)
  <2>1. Everyone \in 0 .. Seats /\ Responders(Everyone) = Personas
    BY DEF Everyone, Responders
  <2>2. QED
    BY <1>3, <1>6, <2>1, LinesAnswer
<1>8. PICK R : R = A \o B
  OBVIOUS
<1>9. R = EnterRows(phase, reactions)
  BY <1>4, <1>6, <1>8 DEF EnterRows
<1>10. Answers(R, reactions)
  BY <1>5, <1>7, <1>8, BehindOthers
<1>11. /\ R \in Seq(Row) /\ Len(R) >= 3
       /\ \A i \in 1 .. Len(R) : R[i].phase = phase
  BY <1>3, <1>9, EnterRowsFacts
<1>12. Commits(R)
  BY <1>1, <1>3, <1>9, <1>11 DEF Commits
<1>13. \A p \in Personas : Previous(phase, p, Len(utterances) + 1) = None
  <2>1. InPhase(phase) = {}
    BY DEF EnterWrite, Locked
  <2>2. QED
    BY <2>1 DEF Previous, Valid, Mine
<1>14. Documented(R)
  BY <1>2, <1>3, <1>10, <1>11, <1>12, <1>13, AnswersDocumented
<1>15. QED
  BY <1>11, <1>14

LEMMA SayDocumented ==
    ASSUME TypeOK, NEW r \in Requests, LevelsCurrent(r), SayWrite(r)
    PROVE  \E R \in Seq(Row) : Documented(R)
<1>1. phase \in Phases /\ req[r].idx = phase /\ status = "running"
      /\ req[r].arg \in 0 .. Seats /\ ReadyToWrite(r, "say")
  BY RequestFields DEF TypeOK, SayWrite, Locked
<1>2. PICK target \in 0 .. Seats : target = req[r].arg
  BY <1>1
<1>3. PICK reactions \in [Responders(target) -> Reaction] :
         /\ \A p \in Responders(target) :
               reactions[p] \in Reactions(req[r].previous[p], FALSE)
         /\ utterances' = utterances \o SayRows(phase, target, reactions)
  BY <1>1, <1>2 DEF SayWrite, AppendRows
<1>4. Responders(target) \in SUBSET Personas
  BY DEF Responders, Personas, Everyone
<1>5. ASSUME NEW p \in Responders(target)
      PROVE  /\ RawFits(reactions[p])
             /\ RisesFrom(reactions[p], Previous(phase, p, Len(utterances) + 1))
  <2>1. req[r].previous[p] = Previous(phase, p, Len(utterances) + 1)
    BY <1>1, <1>2 DEF LevelsCurrent
  <2>2. Previous(phase, p, Len(utterances) + 1) \in Levels \cup {None}
    BY PreviousType
  <2>3. reactions[p] \in Reactions(Previous(phase, p, Len(utterances) + 1), FALSE)
    BY <1>3, <2>1
  <2>4. QED
    BY <2>2, <2>3, ReactionsDocumented
<1>6. PICK A : A = <<Line("say", phase, target)>>
  OBVIOUS
<1>7. A \in Seq(Row) /\ \A i \in 1 .. Len(A) : A[i].kind # "student"
  BY <1>1, <1>6, LineType DEF Line, Kinds
<1>8. PICK B : B = StudentLines(phase, target, reactions)
  OBVIOUS
<1>9. B \in Seq(Row) /\ Answers(B, reactions)
  BY <1>1, <1>8, LinesAnswer
<1>10. PICK R : R = A \o B
  OBVIOUS
<1>11. R = SayRows(phase, target, reactions)
  BY <1>6, <1>8, <1>10 DEF SayRows
<1>12. Answers(R, reactions)
  BY <1>7, <1>9, <1>10, BehindOthers
<1>13. /\ R \in Seq(Row) /\ Len(R) >= 2
       /\ \A i \in 1 .. Len(R) : R[i].phase = phase
  BY <1>1, <1>11, SayRowsFacts
<1>14. Commits(R)
  BY <1>1, <1>3, <1>11, <1>13 DEF Commits
<1>15. Documented(R)
  BY <1>4, <1>5, <1>12, <1>13, <1>14, AnswersDocumented
<1>16. QED
  BY <1>13, <1>15

\* Commits without a student's row.
LEMMA NoReaction ==
    ASSUME NEW R \in Seq(Row), Commits(R),
           \A i \in DOMAIN R : R[i].kind # "student"
    PROVE  Documented(R)
BY DEF Documented

LEMMA LeavesDocumented ==
    ASSUME NEW R \in Seq(Row), AdvanceShape(R) \/ LastPhaseShape(R) \/ FinishShape(R)
    PROVE  Documented(R)
<1>1. Commits(R)
  BY DEF AdvanceShape, LastPhaseShape, LeavesPhase, FinishShape
<1>2. \A i \in DOMAIN R : i = 1 \/ (i = 2 /\ Len(R) = 2)
  BY DEF AdvanceShape, LastPhaseShape, FinishShape
<1>3. \A i \in DOMAIN R : R[i].kind # "student"
  BY <1>2 DEF AdvanceShape, LastPhaseShape, LeavesPhase, FinishShape, Transitions
<1>4. QED
  BY <1>1, <1>3, NoReaction

LEMMA RegenerateDocumented ==
    ASSUME TypeOK, RewriteTarget, NEW r \in Requests, RowCurrent(r), RegenerateWrite(r)
    PROVE  \E n \in Positions, x \in Reaction : DocumentedRewrite(n, x)
<1>1. ReadyToWrite(r, "regenerate") /\ req[r].idx = phase /\ status = "running"
  BY DEF RegenerateWrite, Locked
<1>2. PICK n \in Positions : n = req[r].row
  BY RegenerateStep
<1>3. PICK x \in Reactions(req[r].previous[req[r].arg], req[r].first) :
         x \in Reaction /\ RewriteShape(n, x)
  BY <1>2, RegenerateStep
<1>4. utterances[n].who = req[r].arg
  BY <1>1, <1>2 DEF RewriteTarget, Mine
<1>5. /\ \A i \in Mine(phase, utterances[n].who) : i <= n
      /\ utterances[n].understanding = None
      /\ req[r].previous[req[r].arg] = Previous(phase, utterances[n].who, n)
  BY <1>1, <1>2, <1>4 DEF RowCurrent
<1>6. RawFits(x) /\ RisesFrom(x, Previous(phase, utterances[n].who, n))
  <2>1. req[r].first \in BOOLEAN
    BY RequestFields
  <2>2. Previous(phase, utterances[n].who, n) \in Levels \cup {None}
    BY PreviousType
  <2>3. x \in Reactions(Previous(phase, utterances[n].who, n), req[r].first)
    BY <1>5
  <2>4. QED
    BY <2>1, <2>2, <2>3, ReactionsDocumented
<1>7. QED
  BY <1>3, <1>5, <1>6 DEF DocumentedRewrite

\* Whatever a step does to the rows while every request works alone.
LEMMA AloneShapes ==
    ASSUME TypeOK, RewriteTarget, SayTarget, [Next]_vars, status # "deleted",
           \A r \in Requests : LevelsCurrent(r) /\ RowCurrent(r)
    PROVE  \/ UNCHANGED utterances
           \/ \E R \in Seq(Row) : Documented(R)
           \/ \E n \in Positions, x \in Reaction : DocumentedRewrite(n, x)
           \/ DeleteShape
<1>1. CASE UNCHANGED vars
  BY <1>1 DEF vars
<1>2. CASE DeleteUser
  BY <1>2 DEF DeleteUser, DeleteShape
<1>3. ASSUME NEW r \in Requests,
             Arrive(r) \/ Drop(r) \/ Refuse(r) \/ Ask(r) \/ LockLost(r)
      PROVE  UNCHANGED utterances
  BY <1>3 DEF Arrive, Load, Drop, Refuse, Ask, LockLost
<1>4. ASSUME NEW r \in Requests, EnterStored(r) \/ SayOverLimit(r) \/ AgreeRefused(r)
      PROVE  UNCHANGED utterances
  BY <1>4 DEF EnterStored, SayOverLimit, AgreeRefused
<1>5. ASSUME NEW r \in Requests, EnterWrite(r) \/ SayWrite(r)
      PROVE  \E R \in Seq(Row) : Documented(R)
  BY <1>5, EnterDocumented, SayDocumented
<1>6. ASSUME NEW r \in Requests, AdvanceWrite(r) \/ AdvanceEnds(r) \/ FinishWrite(r)
      PROVE  \E R \in Seq(Row) : Documented(R)
  <2>1. \E R \in Seq(Row) : AdvanceShape(R) \/ LastPhaseShape(R) \/ FinishShape(R)
    BY <1>6, AdvanceStep, LastPhaseStep, FinishStep
  <2>2. QED
    BY <2>1, LeavesDocumented
<1>7. ASSUME NEW r \in Requests, RegenerateWrite(r)
      PROVE  \E n \in Positions, x \in Reaction : DocumentedRewrite(n, x)
  BY <1>7, RegenerateDocumented
<1>8. CASE Next
  BY <1>2, <1>3, <1>4, <1>5, <1>6, <1>7, <1>8 DEF Next, Proceed, Write
<1>9. QED
  BY <1>1, <1>8

\* A level is the same when the parsed rows before are the same.
LEMMA SamePrevious ==
    ASSUME TypeOK, NEW k, NEW p, NEW m, NEW n,
           {i \in Valid(k, p)' : i < m} = {i \in Valid(k, p) : i < n},
           \A i \in Valid(k, p) : i < n =>
              utterances'[i].understanding = utterances[i].understanding
    PROVE  Previous(k, p, m)' = Previous(k, p, n)
<1>1. PICK before : before = {i \in Valid(k, p) : i < n}
  OBVIOUS
<1>2. /\ Previous(k, p, n) =
            IF before = {} THEN None ELSE utterances[Max(before)].understanding
      /\ Previous(k, p, m)' =
            IF before = {} THEN None ELSE utterances'[Max(before)].understanding
  BY <1>1 DEF Previous
<1>3. CASE before = {}
  BY <1>2, <1>3
<1>4. CASE before # {}
  <2>1. before \in SUBSET Positions
    BY <1>1 DEF Valid, Mine, InPhase
  <2>2. Max(before) \in before
    BY <2>1, <1>4, PositionSets, MaxOfFinite
  <2>3. utterances'[Max(before)].understanding = utterances[Max(before)].understanding
    BY <1>1, <2>2
  <2>4. QED
    BY <1>2, <2>3
<1>5. QED
  BY <1>3, <1>4

LEMMA CommitDocumented ==
    ASSUME TypeOK, RawOnlyIfUnparsed, RiseBounded, NEW R \in Seq(Row), Documented(R)
    PROVE  RawOnlyIfUnparsed' /\ RiseBounded'
<1> DEFINE end == Len(utterances)
<1>1. /\ Positions \subseteq Positions'
      /\ \A i \in Positions : utterances'[i] = utterances[i]
      /\ \A i \in Positions' : i \notin Positions =>
            /\ i - end \in 1 .. Len(R) /\ utterances'[i] = R[i - end]
            /\ utterances'[i].phase = phase /\ i > end
      /\ Positions' = 1 .. Len(utterances')
      /\ utterances' \in Seq(Row)
  BY CommitFacts DEF Documented
<1>2. /\ Positions = 1 .. end /\ end \in Nat /\ DOMAIN R = 1 .. Len(R)
      /\ Positions' \subseteq Int
  BY <1>1, PositionSets DEF TypeOK
<1>3. RawOnlyIfUnparsed'
  <2> SUFFICES ASSUME NEW i \in Positions', utterances'[i].kind = "student"
               PROVE  RawFits(utterances'[i])
    BY DEF RawOnlyIfUnparsed, KindAt, RawFits
  <2>1. CASE i \in Positions
    BY <1>1, <2>1 DEF RawOnlyIfUnparsed, KindAt, RawFits
  <2>2. CASE i \notin Positions
    BY <1>1, <1>2, <2>2 DEF Documented
  <2>3. QED
    BY <2>1, <2>2
<1>4. RiseBounded'
  <2> SUFFICES ASSUME NEW k \in Phases, NEW p \in Personas, NEW i \in Valid(k, p)',
                      Previous(k, p, i)' # None
               PROVE  utterances'[i].understanding <= Previous(k, p, i)' + MaxRise
    BY DEF RiseBounded
  <2>1. \A j \in Positions : j \in Valid(k, p)' <=> j \in Valid(k, p)
    BY <1>1 DEF Valid, Mine, InPhase
  <2>2. Valid(k, p) \subseteq Positions
    BY DEF Valid, Mine, InPhase
  <2>3. /\ i \in Positions' /\ utterances'[i].kind = "student"
        /\ utterances'[i].who = p /\ utterances'[i].phase = k
        /\ utterances'[i].understanding # None
    BY DEF Valid, Mine, InPhase
  <2>4. CASE i \in Positions
    <3>1. {j \in Valid(k, p)' : j < i} = {j \in Valid(k, p) : j < i}
      <4>1. \A j \in Valid(k, p)' : j < i => j \in Positions
        <5>1. Valid(k, p)' \subseteq Positions'
          BY DEF Valid, Mine, InPhase
        <5>2. QED
          BY <1>1, <1>2, <2>4, <5>1
      <4>2. QED
        BY <2>1, <2>2, <4>1
    <3>2. Previous(k, p, i)' = Previous(k, p, i)
      BY <1>1, <2>2, <3>1, SamePrevious
    <3>3. i \in Valid(k, p) /\ utterances'[i] = utterances[i]
      BY <1>1, <2>1, <2>4
    <3>4. QED
      BY <3>2, <3>3 DEF RiseBounded
  <2>5. CASE i \notin Positions
    <3>1. i - end \in DOMAIN R /\ utterances'[i] = R[i - end] /\ k = phase /\ i > end
      BY <1>1, <1>2, <2>3, <2>5
    <3>2. RisesFrom(R[i - end], Previous(phase, p, end + 1))
      BY <2>3, <3>1 DEF Documented
    <3>3. {j \in Valid(k, p)' : j < i} = {j \in Valid(k, p) : j < end + 1}
      <4>1. ASSUME NEW j \in Valid(k, p)', j < i
            PROVE  j \in Positions
        <5>1. /\ j \in Positions' /\ utterances'[j].kind = "student"
              /\ utterances'[j].who = p
          BY DEF Valid, Mine, InPhase
        <5>2. CASE j \notin Positions
          <6>1. j - end \in DOMAIN R /\ utterances'[j] = R[j - end]
            BY <1>1, <1>2, <5>1, <5>2
          <6>2. j - end = i - end
            BY <2>3, <3>1, <5>1, <6>1 DEF Documented
          <6>3. i \in Int /\ j \in Int /\ end \in Int
            BY <1>2, <2>3, <5>1
          <6>4. QED
            BY <4>1, <6>2, <6>3
        <5>3. QED
          BY <5>2
      <4>2. \A j \in Positions : j < i /\ j < end + 1
        BY <1>2, <2>3, <3>1
      <4>3. QED
        BY <2>1, <2>2, <4>1, <4>2
    <3>4. Previous(k, p, i)' = Previous(k, p, end + 1)
      BY <1>1, <2>2, <3>3, SamePrevious
    <3>5. QED
      BY <2>3, <3>1, <3>2, <3>4 DEF RisesFrom
  <2>6. QED
    BY <2>4, <2>5
<1>5. QED
  BY <1>3, <1>4

LEMMA RewriteDocumented ==
    ASSUME TypeOK, RawOnlyIfUnparsed, RiseBounded,
           NEW n \in Positions, NEW x \in Reaction, DocumentedRewrite(n, x)
    PROVE  RawOnlyIfUnparsed' /\ RiseBounded'
<1>1. /\ Positions' = Positions
      /\ \A i \in Positions : i # n => utterances'[i] = utterances[i]
      /\ \A i \in Positions : /\ utterances'[i].kind = utterances[i].kind
                              /\ utterances'[i].phase = utterances[i].phase
                              /\ utterances'[i].who = utterances[i].who
  BY RewriteFacts DEF DocumentedRewrite
<1>2. /\ utterances[n].understanding = None /\ utterances[n].phase = phase
      /\ utterances[n].kind = "student" /\ utterances[n] \in Row
  BY PositionSets DEF DocumentedRewrite, RewriteShape
<1>3. utterances'[n].understanding = x.understanding /\ utterances'[n].raw = x.raw
  <2>1. utterances'[n] = Rewritten(utterances[n], x)
    BY DEF DocumentedRewrite, RewriteShape, TypeOK, Positions
  <2>2. QED
    BY <1>2, <2>1 DEF Rewritten, Row
<1>4. RawOnlyIfUnparsed'
  <2> SUFFICES ASSUME NEW i \in Positions, utterances'[i].kind = "student"
               PROVE  RawFits(utterances'[i])
    BY <1>1 DEF RawOnlyIfUnparsed, KindAt, RawFits
  <2>1. CASE i # n
    BY <1>1, <2>1 DEF RawOnlyIfUnparsed, KindAt, RawFits
  <2>2. CASE i = n
    BY <1>3, <2>2 DEF DocumentedRewrite, RawFits
  <2>3. QED
    BY <2>1, <2>2
<1>5. ASSUME NEW k \in Phases, NEW p \in Personas, NEW i \in Valid(k, p)'
      PROVE  /\ Previous(k, p, i)' = Previous(k, p, i)
             /\ i \in Mine(k, p)
  <2>1. /\ Mine(k, p)' = Mine(k, p)
        /\ Valid(k, p) \subseteq Mine(k, p) /\ Valid(k, p)' \subseteq Mine(k, p)
        /\ Mine(k, p) \subseteq Positions
    BY <1>1 DEF Valid, Mine, InPhase
  <2>2. \A j \in Mine(k, p) : j # n => (j \in Valid(k, p)' <=> j \in Valid(k, p))
    BY <1>1, <2>1 DEF Valid
  <2>3. \A j \in Mine(k, p) : j < i => j # n
    <3>1. CASE n \in Mine(k, p)
      <4>1. k = phase /\ p = utterances[n].who
        BY <1>2, <3>1 DEF Mine, InPhase
      <4>2. i <= n
        BY <2>1, <4>1 DEF DocumentedRewrite
      <4>3. i \in Int /\ n \in Int
        BY <2>1, PositionSets
      <4>4. QED
        BY <4>2, <4>3
    <3>2. QED
      BY <3>1
  <2>4. {j \in Valid(k, p)' : j < i} = {j \in Valid(k, p) : j < i}
    BY <2>1, <2>2, <2>3
  <2>5. \A j \in Valid(k, p) : j < i =>
           utterances'[j].understanding = utterances[j].understanding
    BY <1>1, <2>1, <2>3
  <2>6. QED
    BY <2>1, <2>4, <2>5, SamePrevious
<1>6. RiseBounded'
  <2> SUFFICES ASSUME NEW k \in Phases, NEW p \in Personas, NEW i \in Valid(k, p)',
                      Previous(k, p, i)' # None
               PROVE  utterances'[i].understanding <= Previous(k, p, i)' + MaxRise
    BY DEF RiseBounded
  <2>1. Previous(k, p, i)' = Previous(k, p, i) /\ i \in Mine(k, p)
    BY <1>5
  <2>2. utterances'[i].understanding # None
    BY DEF Valid
  <2>3. CASE i # n
    <3>1. i \in Valid(k, p) /\ utterances'[i] = utterances[i]
      BY <1>1, <2>1, <2>2, <2>3 DEF Valid, Mine, InPhase
    <3>2. QED
      BY <2>1, <3>1 DEF RiseBounded
  <2>4. CASE i = n
    <3>1. k = phase /\ p = utterances[n].who
      BY <1>2, <2>1, <2>4 DEF Mine, InPhase
    <3>2. RisesFrom(x, Previous(k, p, n))
      BY <3>1 DEF DocumentedRewrite
    <3>3. QED
      BY <1>3, <2>1, <2>2, <2>4, <3>2 DEF RisesFrom
  <2>5. QED
    BY <2>3, <2>4
<1>7. QED
  BY <1>4, <1>6

\* A step of requests that work alone takes nobody out of an agreement.
LEMMA AgreedStays ==
    ASSUME TypeOK, NEW k \in Phases,
           \/ \E R \in Seq(Row) : Documented(R)
           \/ \E n \in Positions, x \in Reaction : DocumentedRewrite(n, x)
    PROVE  Agreed(k) \subseteq Agreed(k)'
<1>1. \A i \in Positions : utterances[i].understanding >= AgreeThreshold =>
         i \in Positions' /\ utterances'[i] = utterances[i]
  <2>1. ASSUME NEW R \in Seq(Row), Documented(R), NEW i \in Positions
        PROVE  i \in Positions' /\ utterances'[i] = utterances[i]
    BY <2>1, CommitFacts DEF Documented
  <2>2. ASSUME NEW n \in Positions, NEW x \in Reaction, DocumentedRewrite(n, x),
               NEW i \in Positions, utterances[i].understanding >= AgreeThreshold
        PROVE  i \in Positions' /\ utterances'[i] = utterances[i]
    <3>1. i # n
      BY <2>2 DEF DocumentedRewrite, None
    <3>2. QED
      BY <2>2, <3>1, RewriteFacts DEF DocumentedRewrite
  <2>3. QED
    BY <2>1, <2>2
<1>2. QED
  BY <1>1 DEF Agreed, Mine, InPhase

LEMMA AloneStep ==
    ASSUME IInv, AInv, [AloneNext]_<<vars, overlapped>>
    PROVE  /\ AInv'
           /\ \/ overlapped' \/ status' = "deleted"
              \/ \A k \in Phases : Agreed(k) \subseteq Agreed(k)'
<1>1. [Next]_vars /\ overlapped' \in BOOLEAN /\ (overlapped => overlapped')
  BY DEF AloneNext, AInv
<1>2. TypeOK /\ RewriteTarget /\ SayTarget
  BY DEF IInv
<1>3. OneAtWork'
  <2>1. CASE AloneNext
    BY <2>1 DEF AloneNext, OneAtWork
  <2>2. CASE UNCHANGED <<vars, overlapped>>
    BY <2>2 DEF AInv, OneAtWork, Meeting, AtWork, vars
  <2>3. QED
    BY <2>1, <2>2
<1>4. ReadIsCurrent'
  <2>1. CASE AloneNext
    BY <1>1, <1>2, <1>3, <2>1, ReadIsCurrentStep DEF AInv, AloneNext
  <2>2. CASE UNCHANGED <<vars, overlapped>>
    <3>1. UNCHANGED <<status, utterances, req, overlapped>>
      BY <2>2 DEF vars
    <3>2. ASSUME NEW r \in Requests
          PROVE  LevelsCurrent(r)' = LevelsCurrent(r) /\ RowCurrent(r)' = RowCurrent(r)
      BY <3>1 DEF LevelsCurrent, RowCurrent, ReadyToWrite, Previous, Valid, Mine,
                  InPhase, Positions
    <3>3. QED
      BY <3>1, <3>2 DEF AInv, ReadIsCurrent
  <2>3. QED
    BY <2>1, <2>2
<1>5. ASSUME ~overlapped'
      PROVE  /\ RawOnlyIfUnparsed' /\ RiseBounded'
             /\ \/ status' = "deleted"
                \/ \A k \in Phases : Agreed(k) \subseteq Agreed(k)'
  <2>1. ~overlapped /\ RawOnlyIfUnparsed /\ RiseBounded
    BY <1>1, <1>5 DEF AInv, StoredAsDocumented
  <2>2. CASE UNCHANGED utterances
    BY <2>1, <2>2 DEF RawOnlyIfUnparsed, RiseBounded, KindAt, Previous, Agreed,
                      Valid, Mine, InPhase, Positions
  <2>3. CASE DeleteShape
    BY <2>3 DEF DeleteShape, RawOnlyIfUnparsed, RiseBounded, Valid, Mine, InPhase,
                Positions
  <2>4. CASE \E R \in Seq(Row) : Documented(R)
    BY <1>2, <2>1, <2>4, CommitDocumented, AgreedStays
  <2>5. CASE \E n \in Positions, x \in Reaction : DocumentedRewrite(n, x)
    BY <1>2, <2>1, <2>5, RewriteDocumented, AgreedStays
  <2>6. CASE status = "deleted"
    <3>1. status' = "deleted" /\ (UNCHANGED utterances \/ DeleteShape)
      BY <1>1, <1>2, <2>6, StepShapes
         DEF EnterShape, SayShape, AdvanceShape, LastPhaseShape, FinishShape,
             LeavesPhase, Commits, RewriteShape, DeleteShape
    <3>2. QED
      BY <2>2, <2>3, <3>1
  <2>7. CASE status # "deleted"
    <3>1. \A r \in Requests : LevelsCurrent(r) /\ RowCurrent(r)
      BY <2>1, <2>7 DEF AInv, ReadIsCurrent
    <3>2. QED
      BY <1>1, <1>2, <2>2, <2>3, <2>4, <2>5, <2>7, <3>1, AloneShapes
  <2>8. QED
    BY <2>6, <2>7
<1>6. StoredAsDocumented'
  BY <1>5 DEF StoredAsDocumented
<1>7. QED
  BY <1>1, <1>3, <1>4, <1>5, <1>6 DEF AInv

\* Alone, the requests do what they do together.
LEMMA AloneInvariant == AloneSpec => [](IInv /\ AInv)
<1>1. AloneInit => IInv /\ AInv
  <2> SUFFICES ASSUME AloneInit
               PROVE  IInv /\ AInv
    OBVIOUS
  <2>1. IInv /\ overlapped = FALSE
    BY InitIInv DEF AloneInit
  <2>2. \A r \in Requests : req[r].pc = "idle"
    BY DEF AloneInit, Init, Idle
  <2>3. OneAtWork /\ ReadIsCurrent
    BY <2>2 DEF OneAtWork, Meeting, AtWork, ReadIsCurrent, LevelsCurrent, RowCurrent,
                ReadyToWrite, AskingOps
  <2>4. Positions = {}
    BY DEF AloneInit, Init, Positions
  <2>5. RawOnlyIfUnparsed /\ RiseBounded
    BY <2>4 DEF RawOnlyIfUnparsed, RiseBounded, Valid, Mine, InPhase
  <2>6. QED
    BY <2>1, <2>3, <2>5 DEF AInv, StoredAsDocumented
<1>2. IInv /\ AInv /\ [AloneNext]_<<vars, overlapped>> => (IInv /\ AInv)'
  <2> SUFFICES ASSUME IInv, AInv, [AloneNext]_<<vars, overlapped>>
               PROVE  IInv' /\ AInv'
    OBVIOUS
  <2>1. [Next]_vars
    BY DEF AloneNext
  <2>2. QED
    BY <2>1, InvariantStep, AloneStep
<1>3. QED
  BY <1>1, <1>2, PTL DEF AloneSpec

\* Reactions stored while requests work alone keep the raw text exactly when
\* they did not parse, and no level rises by more than MaxRise.
THEOREM ReactionsAsDocumented == AloneSpec => []StoredAsDocumented
<1>1. AInv => StoredAsDocumented
  BY DEF AInv
<1>2. QED
  BY <1>1, AloneInvariant, PTL

\* Once agreed, agreed until the end of the phase, while requests work alone.
THEOREM AgreementLasts == AloneSpec => AgreementStays
<1>1. /\ IInv /\ AInv /\ [AloneNext]_<<vars, overlapped>>
      => [overlapped' \/ status' = "deleted" \/
            \A k \in Phases : Agreed(k) \subseteq Agreed(k)']_utterances
  BY AloneStep
<1>2. QED
  BY <1>1, AloneInvariant, PTL DEF AloneSpec, AgreementStays
=============================================================================
