---------------------------- MODULE SimFeedback ----------------------------
(***************************************************************************)
(* The feedback of one finished simulation: feedback.generate,             *)
(* guidelines.save and the deletion of the user, over the session's row,   *)
(* the guideline rows and the report files in the user's directory.        *)
(*                                                                         *)
(* A request that generates feedback writes its report file before it      *)
(* knows whether its feedback will be the one that is kept, and the file   *)
(* system takes no part in the transaction that decides it.                *)
(***************************************************************************)
EXTENDS Integers, FiniteSetsExt

CONSTANTS
    Requests,      \* requests that may be in flight at the same time
    MaxCalls,      \* bound: feedbacks generated in the session's lifetime
    MaxVersions,   \* bound: guideline versions
    Failures       \* whether a step that writes may fail

ASSUME CallsAssumption == MaxCalls \in Nat /\ MaxVersions \in Nat
ASSUME FailuresAssumption == Failures \in BOOLEAN

VARIABLES
    alive,       \* the session's row exists
    stored,      \* feedback_json with its report path and guideline version
    rows,        \* rows of simulation_feedback_guidelines
    disk,        \* report files: which feedback a file holds, 0 if there is none
    calls,       \* feedbacks generated so far
    answers,     \* feedbacks that teachers were shown as the session's
    req,         \* the requests
    deletion,    \* how far the deletion of the user has come
    collected,   \* the report file it collected, 0 if there was none
    broken       \* a step that writes has failed

vars == <<alive, stored, rows, disk, calls, answers, req, deletion, collected, broken>>
lesson == <<alive, stored, disk, calls, answers>>
removal == <<deletion, collected, broken>>

Files == 1 .. MaxCalls
Versions == 0 .. MaxVersions       \* 0: no guideline, or one that is switched off

NoFeedback == [content |-> 0, file |-> 0, version |-> 0]
Feedback == [content : 0 .. MaxCalls, file : 0 .. MaxCalls, version : Versions]
GuidelineRow == [version : 1 .. MaxVersions, enabled : BOOLEAN]

\* What a request holds: the feedback it generated, or the version it will save.
Request == [pc : {"idle", "loaded", "asking", "saved", "lost", "numbered"},
            mine : Feedback]
Idle == [pc |-> "idle", mine |-> NoFeedback]

TypeOK ==
    /\ alive \in BOOLEAN
    /\ stored \in Feedback
    /\ rows \subseteq GuidelineRow
    /\ disk \in [Files -> 0 .. MaxCalls]
    /\ calls \in 0 .. MaxCalls
    /\ answers \subseteq Feedback
    /\ req \in [Requests -> Request]
    /\ deletion \in {"none", "collected", "committed", "done"}
    /\ collected \in 0 .. MaxCalls
    /\ broken \in BOOLEAN

Init ==
    /\ alive = TRUE
    /\ stored = NoFeedback
    /\ rows = {}
    /\ disk = [f \in Files |-> 0]
    /\ calls = 0
    /\ answers = {}
    /\ req = [r \in Requests |-> Idle]
    /\ deletion = "none"
    /\ collected = 0
    /\ broken = FALSE

Goto(r, pc, mine) == req' = [req EXCEPT ![r] = [pc |-> pc, mine |-> mine]]
Return(r) == req' = [req EXCEPT ![r] = Idle]

-----------------------------------------------------------------------------
(* generate.                                                               *)

\* The session's row is loaded; feedback that is there is answered as cached.
Load(r) ==
    /\ req[r].pc = "idle" /\ alive
    /\ IF stored # NoFeedback
       THEN answers' = answers \cup {stored} /\ UNCHANGED req
       ELSE Goto(r, "loaded", NoFeedback) /\ UNCHANGED answers
    /\ UNCHANGED <<alive, stored, rows, disk, calls, removal>>

Latest == Max({g.version : g \in rows} \cup {0})

\* Mutant: the version is recorded although the guideline is switched off.
InForceSwitchedOff == Latest

\* The newest guideline, if it is switched on.
InForce == IF \E g \in rows : g.version = Latest /\ g.enabled THEN Latest ELSE 0

\* The guideline is read, and Gemini is asked with its text.
ReadGuideline(r) ==
    /\ req[r].pc = "loaded"
    /\ Goto(r, "asking", [NoFeedback EXCEPT !.version = InForce])
    /\ UNCHANGED <<lesson, rows, removal>>

\* The file name of the n-th call: it has a random part, so it is a new one.
NewName(n) == n

\* The answer is rendered and written to a file of its own.
SaveReport(r) ==
    LET n == calls + 1
    IN  /\ req[r].pc = "asking" /\ calls < MaxCalls
        /\ calls' = n
        /\ disk' = [disk EXCEPT ![NewName(n)] = n]
        /\ Goto(r, "saved", [req[r].mine EXCEPT !.content = n, !.file = NewName(n)])
        /\ UNCHANGED <<alive, stored, rows, answers, removal>>

\* The conditional UPDATE finds the row only while it has no feedback.
Free == alive /\ stored = NoFeedback

Publish(r) ==
    /\ req[r].pc = "saved" /\ Free
    /\ stored' = req[r].mine
    /\ answers' = answers \cup {req[r].mine}
    /\ Return(r)
    /\ UNCHANGED <<alive, rows, disk, calls, removal>>

Lose(r) ==
    /\ req[r].pc = "saved" /\ ~Free
    /\ Goto(r, "lost", req[r].mine)
    /\ UNCHANGED <<lesson, rows, removal>>

\* Mutants: the row is refreshed, which fails if it is gone, before the file
\* is removed; and the loser answers with its own feedback.
UnlinkAfterRefresh(r) ==
    /\ req[r].pc = "lost"
    /\ disk' = IF alive THEN [disk EXCEPT ![req[r].mine.file] = 0] ELSE disk
    /\ answers' = IF alive THEN answers \cup {stored} ELSE answers
    /\ Return(r)
    /\ UNCHANGED <<alive, stored, rows, calls, removal>>
UnlinkAnswerOwn(r) ==
    /\ req[r].pc = "lost"
    /\ disk' = [disk EXCEPT ![req[r].mine.file] = 0]
    /\ answers' = answers \cup {req[r].mine}
    /\ Return(r)
    /\ UNCHANGED <<alive, stored, rows, calls, removal>>

\* The loser removes its file and answers with what is stored by now; the
\* refresh fails, and there is no answer, if the session has been deleted.
Unlink(r) ==
    /\ req[r].pc = "lost"
    /\ disk' = [disk EXCEPT ![req[r].mine.file] = 0]
    /\ answers' = IF alive THEN answers \cup {stored} ELSE answers
    /\ Return(r)
    /\ UNCHANGED <<alive, stored, rows, calls, removal>>

\* Gemini fails or its answer does not parse: nothing has been written.
GiveUp(r) ==
    /\ req[r].pc \in {"loaded", "asking"}
    /\ Return(r)
    /\ UNCHANGED <<lesson, rows, removal>>

\* The server stops, or the database stays locked: the file is left behind.
Break(r) ==
    /\ Failures
    /\ req[r].pc \in {"saved", "lost", "numbered"}
    /\ broken' = TRUE
    /\ Return(r)
    /\ UNCHANGED <<lesson, rows, deletion, collected>>

-----------------------------------------------------------------------------
(* guidelines.save.                                                        *)

\* Mutant: counting starts at 0.
NumberFromZero(r) ==
    /\ req[r].pc = "idle" /\ Latest < MaxVersions
    /\ Goto(r, "numbered", [NoFeedback EXCEPT !.version = Latest])
    /\ UNCHANGED <<lesson, rows, removal>>

\* The largest version is read, outside any transaction.
Number(r) ==
    /\ req[r].pc = "idle" /\ Latest < MaxVersions
    /\ Goto(r, "numbered", [NoFeedback EXCEPT !.version = Latest + 1])
    /\ UNCHANGED <<lesson, rows, removal>>

\* The unique index on the version.
Taken(v) == \E g \in rows : g.version = v

Insert(r) ==
    /\ req[r].pc = "numbered" /\ ~Taken(req[r].mine.version)
    /\ \E on \in BOOLEAN :
          rows' = rows \cup {[version |-> req[r].mine.version, enabled |-> on]}
    /\ Return(r)
    /\ UNCHANGED <<alive, stored, disk, calls, answers, removal>>

\* CONFLICT_RETRY
Conflict(r) ==
    /\ req[r].pc = "numbered" /\ Taken(req[r].mine.version)
    /\ Return(r)
    /\ UNCHANGED <<lesson, rows, removal>>

-----------------------------------------------------------------------------
(* delete_user.                                                            *)

\* The path of the report is collected while its row exists.
CollectPaths ==
    /\ deletion = "none"
    /\ deletion' = "collected"
    /\ collected' = stored.file
    /\ UNCHANGED <<lesson, rows, req, broken>>

DeleteRows ==
    /\ deletion = "collected"
    /\ deletion' = "committed"
    /\ alive' = FALSE
    /\ stored' = NoFeedback
    /\ UNCHANGED <<rows, disk, calls, answers, req, collected, broken>>

\* The collected file is removed, and then the user's directory as a whole,
\* with what was saved there since.
RemoveFiles ==
    /\ deletion = "committed"
    /\ deletion' = "done"
    /\ disk' = [f \in Files |-> 0]
    /\ UNCHANGED <<alive, stored, rows, calls, answers, req, collected, broken>>

\* The server stops between the commit and the removal.
BreakDeletion ==
    /\ Failures
    /\ deletion = "committed"
    /\ deletion' = "done" /\ broken' = TRUE
    /\ UNCHANGED <<lesson, rows, req, collected>>

-----------------------------------------------------------------------------
Generate(r) ==
    ReadGuideline(r) \/ SaveReport(r) \/ Publish(r) \/ Lose(r) \/ Unlink(r)

SaveGuideline(r) == Insert(r) \/ Conflict(r)
DeleteUser == CollectPaths \/ DeleteRows \/ RemoveFiles \/ BreakDeletion

Next ==
    \/ \E r \in Requests : \/ Load(r) \/ Generate(r) \/ GiveUp(r) \/ Break(r)
                           \/ Number(r) \/ SaveGuideline(r)
    \/ DeleteUser

Spec == Init /\ [][Next]_vars

-----------------------------------------------------------------------------
\* The report of the stored feedback is on disk and holds that feedback, even
\* while requests that lost the race remove theirs and after steps that failed.
ReportOnDisk ==
    stored # NoFeedback => disk[stored.file] = stored.content

\* A report file is the stored one, or belongs to a request or a deletion that
\* is still at work, unless a step failed: once the user is deleted no report
\* of hers stays, also none of a request that was waiting for Gemini.
NoOrphans ==
    broken \/ \A f \in Files : disk[f] # 0 =>
        \/ stored # NoFeedback /\ stored.file = f
        \/ \E r \in Requests : req[r].pc \in {"saved", "lost"} /\ req[r].mine.file = f
        \/ deletion = "committed"

\* Files and rows match whatever requests and the deletion overlap: the stored
\* feedback has its report, and no report is left without a row.
FilesMatchRows == ReportOnDisk /\ NoOrphans

\* However many requests generate feedback together, every teacher is shown
\* the one that is stored.
AnswersAgree ==
    alive => \A a \in answers : a = stored

\* Guideline versions are numbered without gaps, each given to one row.
VersionsUnique ==
    /\ \A g, h \in rows : g.version = h.version => g = h
    /\ {g.version : g \in rows} = 1 .. Cardinality(rows)

\* The version recorded with feedback is that of one guideline, which was
\* switched on, although newer guidelines are saved while Gemini answers and
\* two administrators save at once.
GuidelineTraceable ==
    /\ VersionsUnique
    /\ stored.version # 0 => [version |-> stored.version, enabled |-> TRUE] \in rows
=============================================================================
