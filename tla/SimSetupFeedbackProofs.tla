----------------------- MODULE SimSetupFeedbackProofs -----------------------
(***************************************************************************)
(* Theorems about what lies around a lesson: its feedback (SimFeedback),   *)
(* for any number of requests, feedbacks and guideline versions, whether   *)
(* or not steps fail; then its setup (Creation), for any dataset, any      *)
(* names, draws and limits within the assumptions.                         *)
(***************************************************************************)
EXTENDS SimFeedback, Creation, OrderingProofs, SequenceTheorems

USE CallsAssumption, FailuresAssumption

-----------------------------------------------------------------------------
(* The inductive invariant.                                                *)

Holds(r) == req[r].pc \in {"saved", "lost"}
FileOf(r) == req[r].mine.file

\* The session's row is there until the deletion of the user is committed, and
\* it alone has feedback.
RowThere ==
    /\ alive <=> deletion \in {"none", "collected"}
    /\ ~alive => stored = NoFeedback

\* What is stored is one of the feedbacks generated, with its file.
StoredWithFile == stored # NoFeedback =>
    /\ stored.content \in 1 .. calls
    /\ stored.file = stored.content
    /\ disk[stored.file] = stored.content

\* So is what a request holds, and as long as the user is there, its file.
HeldWithFile == \A r \in Requests : Holds(r) =>
    /\ req[r].mine.content \in 1 .. calls
    /\ FileOf(r) = req[r].mine.content
    /\ FileOf(r) # stored.file
    /\ alive => disk[FileOf(r)] = FileOf(r)

\* Two requests never hold one file.
HeldApart == \A r, q \in Requests :
    Holds(r) /\ Holds(q) /\ r # q => FileOf(r) # FileOf(q)

\* Who has lost has lost to feedback that is stored, and that is the answer.
AnswersStored == alive =>
    /\ \A a \in answers : a = stored /\ a # NoFeedback
    /\ \A r \in Requests : req[r].pc = "lost" => stored # NoFeedback

\* Guideline rows are numbered 1, 2, ...; a request saves one of these numbers
\* or the next.
Numbered ==
    /\ IsFiniteSet(rows)
    /\ VersionsUnique
    /\ \A r \in Requests : req[r].pc = "numbered" =>
          req[r].mine.version \in 1 .. Cardinality(rows) + 1

Recorded(v) == v # 0 => [version |-> v, enabled |-> TRUE] \in rows

\* A version on its way into the session is that of a row switched on.
VersionsRecorded ==
    /\ Recorded(stored.version)
    /\ \A r \in Requests : req[r].pc \in {"asking", "saved", "lost"} =>
          Recorded(req[r].mine.version)

IInv == /\ TypeOK /\ RowThere /\ StoredWithFile /\ HeldWithFile /\ HeldApart
        /\ NoOrphans /\ AnswersStored /\ Numbered /\ VersionsRecorded

-----------------------------------------------------------------------------
(* Versions.                                                               *)

\* The latest version is the number of rows.
LEMMA LatestIsCount ==
    ASSUME IsFiniteSet(rows), VersionsUnique
    PROVE  Latest = Cardinality(rows) /\ Latest \in Nat
<1> DEFINE n == Cardinality(rows)
<1>1. n \in Nat
  BY FS_CardinalityType
<1>2. {g.version : g \in rows} \cup {0} = 0 .. n
  <2> SUFFICES {g.version : g \in rows} = 1 .. n
    BY <1>1
  <2> QED
    BY DEF VersionsUnique
<1>3. Max(0 .. n) = n
  <2>1. n \in 0 .. n /\ \A y \in 0 .. n : n >= y
    BY <1>1
  <2>2. \A x \in 0 .. n : (\A y \in 0 .. n : x >= y) => x = n
    BY <1>1
  <2> QED
    BY <2>1, <2>2 DEF Max
<1>4. QED
  BY <1>1, <1>2, <1>3 DEF Latest

\* A row of the next number keeps the numbering.
LEMMA NextNumber ==
    ASSUME Numbered, rows \subseteq GuidelineRow,
           NEW v \in 1 .. Cardinality(rows) + 1, ~Taken(v),
           NEW g, g.version = v, rows' = rows \cup {g}
    PROVE  /\ IsFiniteSet(rows') /\ VersionsUnique'
           /\ Cardinality(rows') = Cardinality(rows) + 1
<1>1. Cardinality(rows) \in Nat /\ IsFiniteSet(rows)
  BY FS_CardinalityType DEF Numbered
<1>2. g \notin rows
  BY DEF Taken
<1>3. IsFiniteSet(rows') /\ Cardinality(rows') = Cardinality(rows) + 1
  BY <1>1, <1>2, FS_AddElement
<1>4. {h.version : h \in rows} = 1 .. Cardinality(rows)
  BY DEF Numbered, VersionsUnique
<1>5. v = Cardinality(rows) + 1
  <2>1. v \notin {h.version : h \in rows}
    BY DEF Taken
  <2>2. v \notin 1 .. Cardinality(rows)
    BY <1>4, <2>1, Zenon
  <2>3. QED
    BY <1>1, <2>2
<1>6. {h.version : h \in rows'} = {h.version : h \in rows} \cup {v}
  OBVIOUS
<1>7. {h.version : h \in rows'} = 1 .. Cardinality(rows')
  <2>1. (1 .. Cardinality(rows)) \cup {v} = 1 .. Cardinality(rows) + 1
    BY <1>1, <1>5
  <2>2. QED
    BY <1>3, <1>4, <1>6, <2>1
<1>8. \A h, k \in rows' : h.version = k.version => h = k
  BY DEF Numbered, VersionsUnique, Taken
<1>9. QED
  BY <1>3, <1>7, <1>8 DEF VersionsUnique

-----------------------------------------------------------------------------
(* Every step preserves the invariant, part by part.                       *)

\* The form of what requests hold.
LEMMA Forms ==
    /\ NoFeedback \in Feedback /\ Idle \in Request
    /\ \A pc \in {"idle", "loaded", "asking", "saved", "lost", "numbered"} :
       \A mine \in Feedback : [pc |-> pc, mine |-> mine] \in Request
    /\ \A x \in Request : x.mine \in Feedback
    /\ \A x \in Feedback :
          x.content \in 0 .. MaxCalls /\ x.file \in 0 .. MaxCalls /\ x.version \in Versions
    /\ \A c \in 0 .. MaxCalls, f \in 0 .. MaxCalls, v \in Versions :
          [content |-> c, file |-> f, version |-> v] \in Feedback
BY DEF NoFeedback, Feedback, Idle, Request, Versions

\* A request moves on with something of that form.
LEMMA Moves ==
    ASSUME TypeOK, NEW r \in Requests, NEW mine \in Feedback,
           NEW pc \in {"idle", "loaded", "asking", "saved", "lost", "numbered"},
           Goto(r, pc, mine)
    PROVE  req' \in [Requests -> Request]
BY Forms DEF Goto, TypeOK

LEMMA Returns ==
    ASSUME TypeOK, NEW r \in Requests, Return(r)
    PROVE  req' \in [Requests -> Request]
BY Forms DEF Return, TypeOK

LEMMA TypeStep == IInv /\ [Next]_vars => TypeOK'
<1> SUFFICES ASSUME IInv, [Next]_vars
             PROVE  TypeOK'
  OBVIOUS
<1> USE DEF TypeOK, lesson, removal
<1>0. TypeOK /\ Numbered /\ \A r \in Requests : req[r].mine \in Feedback
  BY Forms DEF IInv
<1>1. ASSUME NEW r \in Requests, Load(r)
      PROVE  TypeOK'
  BY <1>0, <1>1, Forms, Moves DEF Load
<1>2. ASSUME NEW r \in Requests, ReadGuideline(r)
      PROVE  TypeOK'
  <2>1. InForce \in Versions
    BY <1>0 DEF InForce, GuidelineRow, Versions
  <2>2. [NoFeedback EXCEPT !.version = InForce] \in Feedback
    BY <2>1 DEF NoFeedback, Feedback
  <2>3. QED
    BY <1>0, <1>2, <2>2, Moves DEF ReadGuideline
<1>3. ASSUME NEW r \in Requests, SaveReport(r)
      PROVE  TypeOK'
  <2>1. calls + 1 \in 0 .. MaxCalls /\ calls + 1 \in Files
    BY <1>0, <1>3 DEF SaveReport, Files
  <2>2. [req[r].mine EXCEPT !.content = calls + 1, !.file = NewName(calls + 1)] \in Feedback
    BY <1>0, <2>1 DEF NewName, Feedback
  <2>3. QED
    BY <1>0, <1>3, <2>1, <2>2, Moves DEF SaveReport, NewName
<1>4. ASSUME NEW r \in Requests, Publish(r)
      PROVE  TypeOK'
  BY <1>0, <1>4, Returns DEF Publish
<1>5. ASSUME NEW r \in Requests, Lose(r)
      PROVE  TypeOK'
  BY <1>0, <1>5, Moves DEF Lose
<1>6. ASSUME NEW r \in Requests, Unlink(r)
      PROVE  TypeOK'
  <2>1. req' \in [Requests -> Request]
    BY <1>0, <1>6, Returns DEF Unlink
  <2>2. answers' \subseteq Feedback
    BY <1>0, <1>6 DEF Unlink
  <2>3. disk' \in [Files -> 0 .. MaxCalls]
    <3>1. disk \in [Files -> 0 .. MaxCalls] /\ 0 \in 0 .. MaxCalls
      BY <1>0
    <3>2. disk' = [disk EXCEPT ![req[r].mine.file] = 0]
      BY <1>6 DEF Unlink
    <3>3. QED
      BY <3>1, <3>2
  <2>4. QED
    BY <1>0, <1>6, <2>1, <2>2, <2>3 DEF Unlink
<1>7. ASSUME NEW r \in Requests, GiveUp(r) \/ Break(r) \/ Conflict(r)
      PROVE  TypeOK'
  BY <1>0, <1>7, Returns DEF GiveUp, Break, Conflict
<1>8. ASSUME NEW r \in Requests, Number(r)
      PROVE  TypeOK'
  <2>1. Latest + 1 \in Versions
    BY <1>0, <1>8, LatestIsCount DEF Number, Numbered, Versions
  <2>2. [NoFeedback EXCEPT !.version = Latest + 1] \in Feedback
    BY <2>1 DEF NoFeedback, Feedback
  <2>3. QED
    BY <1>0, <1>8, <2>2, Moves DEF Number
<1>9. ASSUME NEW r \in Requests, Insert(r)
      PROVE  TypeOK'
  <2>1. req[r].mine.version \in 1 .. MaxVersions
    <3>1. Cardinality(rows) \in Nat
      BY <1>0, FS_CardinalityType DEF Numbered
    <3>2. req[r].mine.version \in 1 .. Cardinality(rows) + 1
      BY <1>0, <1>9 DEF Insert, Numbered
    <3>3. QED
      BY <1>0, <3>1, <3>2, Forms DEF Versions
  <2>2. \A on \in BOOLEAN : [version |-> req[r].mine.version, enabled |-> on] \in GuidelineRow
    BY <2>1 DEF GuidelineRow
  <2>3. rows' \subseteq GuidelineRow
    BY <1>0, <1>9, <2>2 DEF Insert
  <2>4. QED
    BY <1>0, <1>9, <2>3, Returns DEF Insert
<1>10. ASSUME DeleteUser
       PROVE  TypeOK'
  <2>1. stored.file \in 0 .. MaxCalls
    BY <1>0, Forms
  <2>2. ASSUME CollectPaths
        PROVE  TypeOK'
    BY <1>0, <2>1, <2>2 DEF CollectPaths
  <2>3. ASSUME DeleteRows
        PROVE  TypeOK'
    BY <1>0, <2>3, Forms DEF DeleteRows
  <2>4. ASSUME RemoveFiles
        PROVE  TypeOK'
    BY <1>0, <2>4 DEF RemoveFiles
  <2>5. ASSUME BreakDeletion
        PROVE  TypeOK'
    BY <1>0, <2>5 DEF BreakDeletion
  <2>6. QED
    BY <1>10, <2>2, <2>3, <2>4, <2>5 DEF DeleteUser
<1>11. CASE UNCHANGED vars
  BY <1>0, <1>11 DEF vars
<1>12. QED
  BY <1>1, <1>2, <1>3, <1>4, <1>5, <1>6, <1>7, <1>8, <1>9, <1>10, <1>11
     DEF Next, Generate, SaveGuideline

\* Files, rows, requests and answers: what the promises about files rest on.
FileInv == RowThere /\ StoredWithFile /\ HeldWithFile /\ HeldApart
           /\ NoOrphans /\ AnswersStored

\* A step that leaves the files alone, and every request that holds one.
LEMMA Calm ==
    ASSUME IInv, UNCHANGED <<alive, stored, disk, calls, deletion, broken>>,
           \A a \in answers' : a \in answers \/ (a = stored /\ a # NoFeedback),
           \A q \in Requests :
              \/ req'[q] = req[q]
              \/ ~Holds(q) /\ req'[q].pc \notin {"saved", "lost"}
    PROVE  FileInv'
<1>1. \A q \in Requests : Holds(q)' => Holds(q) /\ req'[q] = req[q]
  BY DEF Holds
<1>2. \A q \in Requests : Holds(q) => Holds(q)' /\ req'[q] = req[q]
  BY DEF Holds
<1>3. RowThere' /\ StoredWithFile'
  BY DEF IInv, RowThere, StoredWithFile
<1>4. HeldWithFile' /\ HeldApart'
  BY <1>1 DEF IInv, HeldWithFile, HeldApart, FileOf
<1>5. NoOrphans'
  BY <1>2 DEF IInv, NoOrphans, Holds
<1>6. AnswersStored'
  BY <1>1 DEF IInv, AnswersStored, Holds
<1>7. QED
  BY <1>3, <1>4, <1>5, <1>6 DEF FileInv

LEMMA FilesStep == IInv /\ [Next]_vars => FileInv'
<1> SUFFICES ASSUME IInv, [Next]_vars
             PROVE  FileInv'
  OBVIOUS
<1> USE DEF lesson, removal
<1>0. /\ req \in [Requests -> Request] /\ disk \in [Files -> 0 .. MaxCalls]
      /\ calls \in 0 .. MaxCalls
  BY DEF IInv, TypeOK
<1>1. \A r \in Requests : \A pc, mine : Goto(r, pc, mine) =>
         /\ req'[r].pc = pc /\ req'[r].mine = mine
         /\ \A q \in Requests : q # r => req'[q] = req[q]
  BY <1>0 DEF Goto
<1>2. \A r \in Requests : Return(r) =>
         /\ req'[r].pc = "idle"
         /\ \A q \in Requests : q # r => req'[q] = req[q]
  BY <1>0 DEF Return, Idle
<1>3. ASSUME NEW r \in Requests,
             Load(r) \/ ReadGuideline(r) \/ GiveUp(r) \/ Number(r) \/ Conflict(r) \/ Insert(r)
      PROVE  FileInv'
  <2>1. /\ req'[r] = req[r] \/ req'[r].pc \notin {"saved", "lost"}
        /\ \A q \in Requests : q # r => req'[q] = req[q]
    BY <1>1, <1>2, <1>3
       DEF Load, ReadGuideline, GiveUp, Number, Conflict, Insert, Holds
  <2>2. ~Holds(r)
    BY <1>3 DEF Load, ReadGuideline, GiveUp, Number, Conflict, Insert, Holds
  <2>3. \A a \in answers' : a \in answers \/ (a = stored /\ a # NoFeedback)
    BY <1>3 DEF Load, ReadGuideline, GiveUp, Number, Conflict, Insert
  <2>4. UNCHANGED <<alive, stored, disk, calls, deletion, broken>>
    BY <1>3 DEF Load, ReadGuideline, GiveUp, Number, Conflict, Insert
  <2>5. QED
    BY <2>1, <2>2, <2>3, <2>4, Calm
<1>4. ASSUME NEW r \in Requests, SaveReport(r)
      PROVE  FileInv'
  <2> DEFINE n == calls + 1
  <2>1. /\ n \in Files /\ n \in Nat /\ calls' = n /\ n # 0 /\ n \notin 1 .. calls
        /\ (1 .. calls) \subseteq 1 .. n /\ n \in 1 .. n
    BY <1>0, <1>4 DEF SaveReport, Files
  <2>2. /\ UNCHANGED <<alive, stored, rows, answers, deletion, collected, broken>>
        /\ ~Holds(r) /\ disk' = [disk EXCEPT ![n] = n]
    BY <1>4 DEF SaveReport, NewName, Holds
  <2>3. disk'[n] = n /\ \A f \in Files : f # n => disk'[f] = disk[f]
    BY <1>0, <2>1, <2>2
  <2>4. /\ req'[r].pc = "saved"
        /\ req'[r].mine = [req[r].mine EXCEPT !.content = n, !.file = n]
        /\ \A q \in Requests : q # r => req'[q] = req[q]
    BY <1>1, <1>4 DEF SaveReport, NewName
  <2>5. req'[r].mine.content = n /\ req'[r].mine.file = n
    BY <1>0, <2>4, Forms DEF Feedback
  <2>6. (1 .. calls) \subseteq Files
    BY <1>0 DEF Files
  <2>7. \A q \in Requests : q # r => (Holds(q)' <=> Holds(q))
    BY <2>4 DEF Holds
  <2>8. StoredWithFile'
    BY <2>1, <2>2, <2>3, <2>6 DEF IInv, StoredWithFile
  <2>9. stored.file # n
    <3>1. CASE stored = NoFeedback
      BY <2>1, <3>1 DEF NoFeedback
    <3>2. CASE stored # NoFeedback
      BY <2>1, <3>2 DEF IInv, StoredWithFile
    <3>3. QED
      BY <3>1, <3>2
  <2>10. HeldWithFile'
    <3> SUFFICES ASSUME NEW q \in Requests, Holds(q)'
                 PROVE  /\ req'[q].mine.content \in 1 .. calls'
                        /\ FileOf(q)' = req'[q].mine.content
                        /\ FileOf(q)' # stored'.file
                        /\ alive' => disk'[FileOf(q)'] = FileOf(q)'
      BY DEF HeldWithFile
    <3>1. CASE q = r
      BY <2>1, <2>2, <2>3, <2>5, <2>9, <3>1 DEF FileOf
    <3>2. CASE q # r
      <4>1. /\ req[q].mine.content \in 1 .. calls
            /\ FileOf(q) = req[q].mine.content /\ FileOf(q) # stored.file
            /\ alive => disk[FileOf(q)] = FileOf(q)
        BY <2>7, <3>2 DEF IInv, HeldWithFile
      <4>2. FileOf(q)' = FileOf(q) /\ req'[q] = req[q]
        BY <2>4, <3>2 DEF FileOf
      <4>3. FileOf(q) \in Files /\ FileOf(q) # n
        BY <2>1, <2>6, <4>1
      <4>4. QED
        BY <2>1, <2>2, <2>3, <4>1, <4>2, <4>3
    <3>3. QED
      BY <3>1, <3>2
  <2>11. HeldApart'
    <3>1. \A q \in Requests : q # r /\ Holds(q)' =>
             Holds(q) /\ FileOf(q)' = FileOf(q) /\ FileOf(q) # n
      BY <2>1, <2>4, <2>7 DEF IInv, HeldWithFile, FileOf
    <3>2. FileOf(r)' = n
      BY <2>5 DEF FileOf
    <3>3. HeldApart
      BY DEF IInv
    <3>4. QED
      BY <3>1, <3>2, <3>3 DEF HeldApart
  <2>12. NoOrphans'
    <3> SUFFICES ASSUME ~broken, NEW f \in Files, disk'[f] # 0
                 PROVE  \/ stored # NoFeedback /\ stored.file = f
                        \/ \E q \in Requests : req'[q].pc \in {"saved", "lost"}
                                               /\ req'[q].mine.file = f
                        \/ deletion = "committed"
      BY <2>2 DEF NoOrphans
    <3>1. CASE f = n
      BY <2>4, <2>5, <3>1
    <3>2. CASE f # n
      <4>1. disk[f] # 0
        BY <2>3, <3>2
      <4>2. CASE \E q \in Requests : Holds(q) /\ req[q].mine.file = f
        BY <2>2, <2>4, <4>2 DEF Holds
      <4>3. QED
        BY <4>1, <4>2 DEF IInv, NoOrphans, Holds
    <3>3. QED
      BY <3>1, <3>2
  <2>13. RowThere' /\ AnswersStored'
    BY <2>2, <2>4 DEF IInv, RowThere, AnswersStored
  <2>14. QED
    BY <2>8, <2>10, <2>11, <2>12, <2>13 DEF FileInv
<1>5. ASSUME NEW r \in Requests, Publish(r)
      PROVE  FileInv'
  <2>1. /\ UNCHANGED <<alive, disk, calls, deletion, broken>> /\ Holds(r)
        /\ alive /\ stored = NoFeedback /\ stored' = req[r].mine
        /\ answers' = answers \cup {req[r].mine}
    BY <1>5 DEF Publish, Free, Holds
  <2>2. /\ ~Holds(r)' /\ req'[r].pc # "lost"
        /\ \A q \in Requests : q # r => req'[q] = req[q]
    BY <1>2, <1>5 DEF Publish, Holds
  <2>3. \A q \in Requests : Holds(q)' => q # r /\ Holds(q) /\ FileOf(q)' = FileOf(q)
    BY <2>2 DEF Holds, FileOf
  <2>4. /\ req[r].mine.content \in 1 .. calls /\ FileOf(r) = req[r].mine.content
        /\ disk[FileOf(r)] = FileOf(r) /\ stored'.file = FileOf(r)
    BY <2>1 DEF IInv, HeldWithFile, FileOf
  <2>5. stored' # NoFeedback
    BY <2>1, <2>4 DEF NoFeedback
  <2>6. RowThere' /\ StoredWithFile'
    BY <2>1, <2>4 DEF IInv, RowThere, StoredWithFile
  <2>7. HeldApart'
    BY <2>3 DEF IInv, HeldApart
  <2>8. HeldWithFile'
    <3>1. \A q \in Requests : Holds(q)' => FileOf(q)' # stored'.file
      BY <2>1, <2>3, <2>4 DEF IInv, HeldApart
    <3>2. \A q \in Requests : Holds(q)' => req'[q] = req[q]
      BY <2>2, <2>3
    <3>3. QED
      BY <2>1, <2>3, <3>1, <3>2 DEF IInv, HeldWithFile
  <2>9. NoOrphans'
    <3> SUFFICES ASSUME ~broken, NEW f \in Files, disk[f] # 0
                 PROVE  \/ stored'.file = f
                        \/ \E q \in Requests : Holds(q)' /\ req'[q].mine.file = f
                        \/ deletion = "committed"
      BY <2>1, <2>5 DEF NoOrphans, Holds
    <3>1. CASE \E q \in Requests : Holds(q) /\ req[q].mine.file = f
      BY <2>2, <2>4, <3>1 DEF Holds, FileOf
    <3>2. QED
      BY <2>1, <3>1 DEF IInv, NoOrphans, Holds
  <2>10. AnswersStored'
    BY <2>1, <2>2, <2>5 DEF IInv, AnswersStored
  <2>11. QED
    BY <2>6, <2>7, <2>8, <2>9, <2>10 DEF FileInv
<1>6. ASSUME NEW r \in Requests, Lose(r)
      PROVE  FileInv'
  <2>1. /\ UNCHANGED <<alive, stored, disk, calls, answers, deletion, broken>>
        /\ req[r].pc = "saved" /\ (alive => stored # NoFeedback)
    BY <1>6 DEF Lose, Free
  <2>2. /\ req'[r].pc = "lost" /\ req'[r].mine = req[r].mine
        /\ \A q \in Requests : q # r => req'[q] = req[q]
    BY <1>1, <1>6 DEF Lose
  <2>3. \A q \in Requests : (Holds(q)' <=> Holds(q)) /\ req'[q].mine = req[q].mine
    BY <2>1, <2>2 DEF Holds
  <2>4. RowThere' /\ StoredWithFile'
    BY <2>1 DEF IInv, RowThere, StoredWithFile
  <2>5. HeldWithFile' /\ HeldApart'
    BY <2>1, <2>3 DEF IInv, HeldWithFile, HeldApart, FileOf
  <2>6. NoOrphans'
    BY <2>1, <2>3 DEF IInv, NoOrphans, Holds
  <2>7. AnswersStored'
    BY <2>1, <2>2 DEF IInv, AnswersStored
  <2>8. QED
    BY <2>4, <2>5, <2>6, <2>7 DEF FileInv
<1>7. ASSUME NEW r \in Requests, Unlink(r)
      PROVE  FileInv'
  <2>1. /\ UNCHANGED <<alive, stored, calls, deletion, broken>> /\ Holds(r)
        /\ req[r].pc = "lost" /\ disk' = [disk EXCEPT ![FileOf(r)] = 0]
        /\ answers' = IF alive THEN answers \cup {stored} ELSE answers
    BY <1>7 DEF Unlink, Holds, FileOf
  <2>2. /\ ~Holds(r)' /\ req'[r].pc # "lost"
        /\ \A q \in Requests : q # r => req'[q] = req[q]
    BY <1>2, <1>7 DEF Unlink, Holds
  <2>3. \A q \in Requests : Holds(q)' =>
           /\ Holds(q) /\ req'[q] = req[q] /\ FileOf(q)' = FileOf(q)
           /\ FileOf(q) # FileOf(r)
    BY <2>1, <2>2 DEF IInv, HeldApart, Holds, FileOf
  <2>4. FileOf(r) \in Files /\ FileOf(r) # stored.file
    BY <1>0, <2>1 DEF IInv, HeldWithFile, Files
  <2>5. disk'[FileOf(r)] = 0 /\ \A f \in Files : f # FileOf(r) => disk'[f] = disk[f]
    BY <1>0, <2>1, <2>4
  <2>6. (1 .. calls) \subseteq Files
    BY <1>0 DEF Files
  <2>7. RowThere' /\ StoredWithFile'
    BY <2>1, <2>4, <2>5, <2>6 DEF IInv, RowThere, StoredWithFile
  <2>8. HeldApart'
    BY <2>3 DEF IInv, HeldApart
  <2>9. HeldWithFile'
    BY <2>1, <2>3, <2>5, <2>6 DEF IInv, HeldWithFile
  <2>10. NoOrphans'
    <3> SUFFICES ASSUME ~broken, NEW f \in Files, disk'[f] # 0
                 PROVE  \/ stored # NoFeedback /\ stored.file = f
                        \/ \E q \in Requests : Holds(q)' /\ req'[q].mine.file = f
                        \/ deletion = "committed"
      BY <2>1 DEF NoOrphans, Holds
    <3>1. f # FileOf(r) /\ disk[f] # 0
      BY <2>5
    <3>2. CASE \E q \in Requests : Holds(q) /\ req[q].mine.file = f
      BY <2>2, <3>1, <3>2 DEF Holds, FileOf
    <3>3. QED
      BY <3>1, <3>2 DEF IInv, NoOrphans, Holds
  <2>11. AnswersStored'
    BY <2>1, <2>2 DEF IInv, AnswersStored
  <2>12. QED
    BY <2>7, <2>8, <2>9, <2>10, <2>11 DEF FileInv
<1>8. ASSUME NEW r \in Requests, Break(r)
      PROVE  FileInv'
  <2>1. /\ UNCHANGED <<alive, stored, disk, calls, answers, deletion>> /\ broken'
        /\ ~Holds(r)' /\ \A q \in Requests : q # r => req'[q] = req[q]
    BY <1>2, <1>8 DEF Break, Holds
  <2>2. \A q \in Requests : Holds(q)' => Holds(q) /\ req'[q] = req[q]
    BY <2>1 DEF Holds
  <2>3. RowThere' /\ StoredWithFile' /\ NoOrphans'
    BY <2>1 DEF IInv, RowThere, StoredWithFile, NoOrphans
  <2>4. HeldWithFile' /\ HeldApart'
    BY <2>1, <2>2 DEF IInv, HeldWithFile, HeldApart, FileOf
  <2>5. AnswersStored'
    BY <2>1, <2>2 DEF IInv, AnswersStored, Holds
  <2>6. QED
    BY <2>3, <2>4, <2>5 DEF FileInv
<1>9. ASSUME DeleteUser
      PROVE  FileInv'
  <2>1. req' = req /\ calls' = calls /\ answers' = answers
    BY <1>9 DEF DeleteUser, CollectPaths, DeleteRows, RemoveFiles, BreakDeletion
  <2>2. \A q \in Requests : (Holds(q)' <=> Holds(q)) /\ FileOf(q)' = FileOf(q)
    BY <2>1 DEF Holds, FileOf
  <2>3. HeldApart'
    BY <2>2 DEF IInv, HeldApart
  <2>4. CASE CollectPaths \/ BreakDeletion
    <3>1. UNCHANGED <<alive, stored, disk>> /\ deletion' \in {"collected", "done"}
          /\ (alive' <=> deletion' = "collected") /\ deletion # "collected"
      BY <2>4 DEF IInv, RowThere, CollectPaths, BreakDeletion
    <3>2. RowThere' /\ StoredWithFile' /\ AnswersStored'
      BY <2>1, <3>1 DEF IInv, RowThere, StoredWithFile, AnswersStored
    <3>3. HeldWithFile'
      BY <2>1, <2>2, <3>1 DEF IInv, HeldWithFile
    <3>4. NoOrphans'
      BY <2>1, <2>4, <3>1 DEF IInv, NoOrphans, CollectPaths, BreakDeletion
    <3>5. QED
      BY <2>3, <3>2, <3>3, <3>4 DEF FileInv
  <2>5. CASE DeleteRows
    <3>1. ~alive' /\ stored' = NoFeedback /\ disk' = disk /\ deletion' = "committed"
      BY <2>5 DEF DeleteRows
    <3>2. RowThere' /\ StoredWithFile' /\ AnswersStored' /\ NoOrphans'
      BY <3>1 DEF RowThere, StoredWithFile, AnswersStored, NoOrphans
    <3>3. HeldWithFile'
      BY <2>1, <2>2, <3>1 DEF IInv, HeldWithFile, NoFeedback
    <3>4. QED
      BY <2>3, <3>2, <3>3 DEF FileInv
  <2>6. CASE RemoveFiles
    <3>1. /\ UNCHANGED <<alive, stored>> /\ ~alive /\ stored = NoFeedback
          /\ disk' = [f \in Files |-> 0] /\ deletion' = "done"
      BY <2>6 DEF RemoveFiles, IInv, RowThere
    <3>2. RowThere' /\ StoredWithFile' /\ AnswersStored' /\ NoOrphans'
      BY <3>1 DEF RowThere, StoredWithFile, AnswersStored, NoOrphans
    <3>3. HeldWithFile'
      BY <2>1, <2>2, <3>1 DEF IInv, HeldWithFile
    <3>4. QED
      BY <2>3, <3>2, <3>3 DEF FileInv
  <2>7. QED
    BY <1>9, <2>4, <2>5, <2>6 DEF DeleteUser
<1>10. CASE UNCHANGED vars
  BY <1>10, Calm DEF vars
<1>11. QED
  BY <1>3, <1>4, <1>5, <1>6, <1>7, <1>8, <1>9, <1>10
     DEF Next, Generate, SaveGuideline

LEMMA VersionsStep == IInv /\ [Next]_vars => Numbered' /\ VersionsRecorded'
<1> SUFFICES ASSUME IInv, [Next]_vars
             PROVE  Numbered' /\ VersionsRecorded'
  OBVIOUS
<1> USE DEF TypeOK, Idle, NoFeedback, Request, Feedback, Versions,
            lesson, removal, Goto, Return
<1>1. TypeOK /\ Numbered /\ VersionsRecorded /\ Cardinality(rows) \in Nat
  BY FS_CardinalityType DEF IInv, Numbered
<1>2. ASSUME NEW r \in Requests, Insert(r)
      PROVE  Numbered' /\ VersionsRecorded'
  <2> DEFINE v == req[r].mine.version
  <2>1. v \in 1 .. Cardinality(rows) + 1 /\ ~Taken(v)
    BY <1>1, <1>2 DEF Insert, Numbered
  <2>2. PICK on \in BOOLEAN : rows' = rows \cup {[version |-> v, enabled |-> on]}
    BY <1>2 DEF Insert
  <2>3. /\ IsFiniteSet(rows') /\ VersionsUnique'
        /\ Cardinality(rows') = Cardinality(rows) + 1
    BY <1>1, <2>1, <2>2, NextNumber
  <2>4. /\ stored' = stored /\ req'[r].pc = "idle"
        /\ \A q \in Requests : q # r => req'[q] = req[q]
    BY <1>1, <1>2 DEF Insert
  <2>5. \A q \in Requests : req'[q].pc = "numbered" =>
           req'[q].mine.version \in 1 .. Cardinality(rows') + 1
    <3>1. 1 .. Cardinality(rows) + 1 \subseteq 1 .. Cardinality(rows') + 1
      BY <1>1, <2>3
    <3>2. QED
      BY <1>1, <2>4, <3>1 DEF Numbered
  <2>6. \A n : Recorded(n) => Recorded(n)'
    BY <2>2 DEF Recorded
  <2>7. Recorded(stored.version)'
    BY <1>1, <2>4, <2>6 DEF VersionsRecorded, Recorded
  <2>8. \A q \in Requests : req'[q].pc \in {"asking", "saved", "lost"} =>
           Recorded(req[q].mine.version)' /\ req'[q] = req[q]
    BY <1>1, <2>2, <2>4 DEF VersionsRecorded, Recorded
  <2>9. VersionsRecorded'
    BY <2>7, <2>8 DEF VersionsRecorded, Recorded
  <2>10. QED
    BY <2>3, <2>5, <2>9 DEF Numbered
<1>3. ASSUME rows' = rows,
             stored' = stored \/ stored' = NoFeedback
               \/ \E q \in Requests : req[q].pc = "saved" /\ stored' = req[q].mine,
             \A q \in Requests :
                 \/ req'[q] = req[q] \/ req'[q] = Idle
                 \/ req'[q].pc = "loaded"
                 \/ req'[q].pc = "asking" /\ req'[q].mine.version = InForce
                 \/ req'[q].pc = "numbered" /\ req'[q].mine.version = Latest + 1
                 \/ /\ req[q].pc \in {"asking", "saved"} /\ req'[q].pc \in {"saved", "lost"}
                    /\ req'[q].mine.version = req[q].mine.version
      PROVE  Numbered' /\ VersionsRecorded'
  <2>1. Recorded(InForce)
    <3> SUFFICES ASSUME NEW g \in rows, g.version = Latest, g.enabled
                 PROVE  g = [version |-> Latest, enabled |-> TRUE]
      BY DEF Recorded, InForce
    <3> QED
      BY <1>1 DEF GuidelineRow
  <2>2. Latest + 1 \in 1 .. Cardinality(rows) + 1
    BY <1>1, LatestIsCount DEF Numbered
  <2>3. VersionsUnique'
    BY <1>1, <1>3 DEF Numbered, VersionsUnique
  <2>4. Numbered'
    <3>1. \A q \in Requests : req'[q].pc = "numbered" =>
             req'[q].mine.version \in 1 .. Cardinality(rows) + 1
      BY <1>1, <1>3, <2>2 DEF Numbered
    <3>2. QED
      BY <1>1, <1>3, <2>3, <3>1 DEF Numbered
  <2>5. stored'.version # 0 => [version |-> stored'.version, enabled |-> TRUE] \in rows
    <3>1. CASE stored' = stored
      BY <1>1, <3>1 DEF VersionsRecorded, Recorded
    <3>2. CASE stored' = NoFeedback
      BY <3>2
    <3>3. ASSUME NEW q \in Requests, req[q].pc = "saved", stored' = req[q].mine
          PROVE  stored'.version # 0 =>
                    [version |-> stored'.version, enabled |-> TRUE] \in rows
      BY <1>1, <3>3 DEF VersionsRecorded, Recorded
    <3>4. QED
      BY <1>3, <3>1, <3>2, <3>3
  <2>6. \A q \in Requests :
           req'[q].pc \in {"asking", "saved", "lost"} /\ req'[q].mine.version # 0 =>
             [version |-> req'[q].mine.version, enabled |-> TRUE] \in rows
    <3> SUFFICES ASSUME NEW q \in Requests, req'[q].pc \in {"asking", "saved", "lost"}
                 PROVE  Recorded(req'[q].mine.version)
      BY DEF Recorded
    <3>1. CASE req'[q] = req[q]
      BY <1>1, <3>1 DEF VersionsRecorded
    <3>2. CASE req[q].pc \in {"asking", "saved"}
               /\ req'[q].mine.version = req[q].mine.version
      BY <1>1, <3>2 DEF VersionsRecorded
    <3>3. CASE req'[q].pc = "asking" /\ req'[q].mine.version = InForce
      BY <2>1, <3>3
    <3>4. req'[q] # Idle /\ req'[q].pc \notin {"loaded", "numbered"}
      OBVIOUS
    <3>5. QED
      BY <1>3, <3>1, <3>2, <3>3, <3>4
  <2>7. VersionsRecorded'
    BY <1>3, <2>5, <2>6 DEF VersionsRecorded, Recorded
  <2>8. QED
    BY <2>4, <2>7
<1>4. ASSUME NEW r \in Requests, Load(r) \/ ReadGuideline(r) \/ GiveUp(r) \/ Break(r)
      PROVE  Numbered' /\ VersionsRecorded'
  BY <1>1, <1>3, <1>4 DEF Load, ReadGuideline, GiveUp, Break
<1>5. ASSUME NEW r \in Requests, SaveReport(r)
      PROVE  Numbered' /\ VersionsRecorded'
  BY <1>1, <1>3, <1>5 DEF SaveReport
<1>6. ASSUME NEW r \in Requests, Publish(r) \/ Lose(r) \/ Unlink(r)
      PROVE  Numbered' /\ VersionsRecorded'
  BY <1>1, <1>3, <1>6 DEF Publish, Lose, Unlink
<1>7. ASSUME NEW r \in Requests, Number(r) \/ Conflict(r)
      PROVE  Numbered' /\ VersionsRecorded'
  BY <1>1, <1>3, <1>7 DEF Number, Conflict
<1>8. ASSUME DeleteUser
      PROVE  Numbered' /\ VersionsRecorded'
  BY <1>1, <1>3, <1>8 DEF DeleteUser, CollectPaths, DeleteRows, RemoveFiles, BreakDeletion
<1>9. CASE UNCHANGED vars
  BY <1>1, <1>3, <1>9 DEF vars
<1>10. QED
  BY <1>2, <1>4, <1>5, <1>6, <1>7, <1>8, <1>9 DEF Next, Generate, SaveGuideline

LEMMA InitIInv == Init => IInv
<1> SUFFICES ASSUME Init
             PROVE  IInv
  OBVIOUS
<1>1. TypeOK
  <2>1. stored \in Feedback /\ req \in [Requests -> Request]
    BY Forms DEF Init
  <2>2. calls \in 0 .. MaxCalls /\ collected \in 0 .. MaxCalls
    BY DEF Init
  <2>3. disk \in [Files -> 0 .. MaxCalls]
    BY DEF Init, Files
  <2>4. QED
    BY <2>1, <2>2, <2>3 DEF Init, TypeOK
<1>2. RowThere /\ StoredWithFile /\ AnswersStored /\ NoOrphans
  BY DEF Init, RowThere, StoredWithFile, AnswersStored, NoOrphans, Idle
<1>3. HeldWithFile /\ HeldApart
  BY DEF Init, HeldWithFile, HeldApart, Holds, Idle
<1>4. VersionsRecorded
  BY DEF Init, VersionsRecorded, Recorded, Idle, NoFeedback
<1>5. Numbered
  <2>1. IsFiniteSet(rows) /\ Cardinality(rows) = 0
    BY FS_EmptySet DEF Init
  <2>2. QED
    BY <2>1 DEF Init, Numbered, VersionsUnique, Idle
<1>6. QED
  BY <1>1, <1>2, <1>3, <1>4, <1>5 DEF IInv

-----------------------------------------------------------------------------
(* The theorems.                                                           *)

\* Whatever requests, saved guidelines, failures and the deletion overlap: the
\* invariant holds that the promises below follow from.
THEOREM Inductive == Spec => []IInv
<1>1. IInv /\ [Next]_vars => IInv'
  BY TypeStep, FilesStep, VersionsStep DEF IInv, FileInv
<1>2. QED
  BY InitIInv, <1>1, PTL DEF Spec

\* Rows, files and requests always have the form the code gives them.
THEOREM TypeCorrect == Spec => []TypeOK
<1>1. IInv => TypeOK
  BY DEF IInv
<1>2. QED
  BY <1>1, Inductive, PTL

\* The stored feedback has its report on disk, and without failures no report
\* is left without a row.
THEOREM FilesAndRows == Spec => []FilesMatchRows
<1>1. IInv => FilesMatchRows
  BY DEF IInv, FilesMatchRows, ReportOnDisk, StoredWithFile
<1>2. QED
  BY <1>1, Inductive, PTL

\* Every teacher is shown the feedback that is stored, and nobody another.
THEOREM AnswersAreOne == Spec => []AnswersAgree
<1>1. IInv => AnswersAgree
  BY DEF IInv, AnswersAgree, AnswersStored
<1>2. QED
  BY <1>1, Inductive, PTL

\* The version recorded with feedback is that of one guideline, switched on.
THEOREM GuidelinesTraceable == Spec => []GuidelineTraceable
<1>1. IInv => GuidelineTraceable
  BY DEF IInv, GuidelineTraceable, Numbered, VersionsRecorded, Recorded
<1>2. QED
  BY <1>1, Inductive, PTL

LEMMA ListOf ==
    ASSUME NEW n \in Nat, NEW S, NEW list \in [1 .. n -> S]
    PROVE  list \in Seq(S) /\ Len(list) = n /\ DOMAIN list = 1 .. n
OBVIOUS

-----------------------------------------------------------------------------
(* Setup: what holds of the constants throughout.                          *)

USE PoolAssumption, LimitAssumption, SeedsAssumption, ProfilesAssumption, WaitingAssumption,
    PhasesAssumption
    DEF MinPersonas

-----------------------------------------------------------------------------
(* Lists and draws.                                                        *)

LEMMA InOrderLists ==
    ASSUME NEW S \in SUBSET Int, IsFiniteSet(S)
    PROVE  Cardinality(S) \in Nat /\ Lists(InOrder(S), S)
<1>1. PICK key \in [S -> Int] : key = [i \in S |-> i]
  OBVIOUS
<1>2. \A x, y \in S : key[x] = key[y] => x = y
  BY <1>1
<1>3. Cardinality(S) \in Nat /\ Lists(Ordered(S, key), S)
  BY <1>2, OrderedList
<1>4. QED
  BY <1>1, <1>3 DEF InOrder

LEMMA DrawnFrom ==
    ASSUME NEW S, NEW n \in Nat \ {0}, NEW list \in [1 .. n -> S], NEW number \in Nat
    PROVE  Drawn(list, number) \in S
<1>1. Len(list) = n
  OBVIOUS
<1>2. number % n \in 0 .. n - 1
  OBVIOUS
<1>3. 1 + (number % n) \in 1 .. n
  BY <1>2
<1>4. QED
  BY <1>1, <1>3 DEF Drawn

\* The first places of a list have no more elements than places.
LEMMA FewBefore ==
    ASSUME NEW n \in Nat, NEW S, NEW list \in [1 .. n -> S], NEW i \in 1 .. n
    PROVE  /\ IsFiniteSet(Before(list, i))
           /\ Cardinality(Before(list, i)) <= i - 1
           /\ Cardinality(Before(list, i)) \in Nat
<1> DEFINE T == Before(list, i)
<1>1. PICK f : f = [j \in 1 .. i - 1 |-> list[j]]
  OBVIOUS
<1>2. f \in Surjection(1 .. i - 1, T)
  BY <1>1 DEF Surjection, Before
<1> HIDE DEF T
<1>3. IsFiniteSet(1 .. i - 1) /\ Cardinality(1 .. i - 1) = i - 1
  <2>1. PICK m \in Nat : m = i - 1
    OBVIOUS
  <2>2. IsFiniteSet(1 .. m) /\ Cardinality(1 .. m) = m
    <3>1. PICK a \in Int, b \in Int : a = 1 /\ b = m
      OBVIOUS
    <3>2. IsFiniteSet(a .. b) /\ Cardinality(a .. b) = IF a > b THEN 0 ELSE b - a + 1
      BY FS_Interval
    <3>3. QED
      BY <3>1, <3>2
  <2>3. QED
    BY <2>1, <2>2
<1>4. IsFiniteSet(T) /\ Cardinality(T) <= i - 1
  BY <1>2, <1>3, FS_Surjection
<1>5. QED
  BY <1>4, FS_CardinalityType DEF T

\* So a larger set has others.
LEMMA SomeLeft ==
    ASSUME NEW S, NEW T, IsFiniteSet(S), IsFiniteSet(T), NEW m \in Nat,
           Cardinality(T) < m, Cardinality(S) >= m
    PROVE  \E x \in S : x \notin T
<1>1. CASE S \subseteq T
  <2>1. Cardinality(S) <= Cardinality(T)
    BY <1>1, FS_Subset
  <2>2. Cardinality(S) \in Nat /\ Cardinality(T) \in Nat
    BY FS_CardinalityType
  <2>3. QED
    BY <2>1, <2>2
<1>2. QED
  BY <1>1

\* The names of a pool that are not used: some, or all are used.
LEMMA FreeNames ==
    ASSUME NEW pool \in Seq(Names), NEW used
    PROVE  \E m \in Nat :
              /\ Unused(pool, used) \in [1 .. m -> ToSet(pool) \ used]
              /\ m = 0 <=> ToSet(pool) \subseteq used
              /\ Unused(pool, used) # <<>> <=> m # 0
<1>1. PICK places \in SUBSET Int : places = {k \in DOMAIN pool : pool[k] \notin used}
  <2>1. DOMAIN pool = 1 .. Len(pool)
    OBVIOUS
  <2>2. DOMAIN pool \subseteq Int
    BY <2>1
  <2>3. {k \in DOMAIN pool : pool[k] \notin used} \in SUBSET Int
    BY <2>2
  <2>4. QED
    BY <2>3
<1>2. IsFiniteSet(places)
  <2>1. IsFiniteSet(1 .. Len(pool)) /\ DOMAIN pool = 1 .. Len(pool)
    BY FS_Interval
  <2>2. QED
    BY <1>1, <2>1, FS_Subset
<1>3. PICK list : list = Sublist(pool, places)
  OBVIOUS
<1>4. list = Unused(pool, used)
  BY <1>1, <1>3 DEF Unused
<1>5. PICK m \in Nat : m = Cardinality(places)
  BY <1>2, FS_CardinalityType
<1>6. PICK order : /\ Lists(order, places)
                   /\ \A k \in 1 .. m : list[k] = pool[order[k]]
  BY <1>2, <1>3, <1>5, SublistOf
<1>7. DOMAIN list = 1 .. m
  BY <1>2, <1>3, <1>5, SublistOf
<1>8. \A k \in 1 .. m : list[k] \in ToSet(pool) \ used
  <2>1. \A k \in 1 .. m : order[k] \in places
    BY <1>5, <1>6 DEF Lists
  <2>2. QED
    BY <1>1, <1>6, <2>1 DEF ToSet
<1>9. list = [k \in 1 .. m |-> list[k]]
  <2>1. Unused(pool, used) = [k \in DOMAIN Ordered(places, [i \in places |-> i]) |->
                              pool[Ordered(places, [i \in places |-> i])[k]]]
    BY <1>3, <1>4 DEF Sublist
  <2>2. QED
    BY <1>4, <1>7, <2>1
<1>10. list \in [1 .. m -> ToSet(pool) \ used]
  BY <1>8, <1>9
<1>11. m = 0 <=> ToSet(pool) \subseteq used
  <2>1. m = 0 <=> places = {}
    BY <1>2, <1>5, FS_EmptySet
  <2>2. places = {} <=> ToSet(pool) \subseteq used
    BY <1>1 DEF ToSet
  <2>3. QED
    BY <2>1, <2>2
<1>12. list # <<>> <=> m # 0
  <2>1. CASE m = 0
    <3>1. list \in [{} -> ToSet(pool) \ used]
      BY <1>10, <2>1
    <3>2. QED
      BY <2>1, <3>1
  <2>2. CASE m # 0
    BY <1>7, <2>2
  <2>3. QED
    BY <2>1, <2>2
<1>13. QED
  BY <1>4, <1>10, <1>11, <1>12

-----------------------------------------------------------------------------
(* The students and names a seed gives.                                    *)

\* Nothing twice in a list.
Apart(list) == \A i, j \in DOMAIN list : list[i] = list[j] => i = j

LEMMA EarlierApart ==
    ASSUME NEW n \in Nat, NEW S, NEW list \in [1 .. n -> S],
           \A i \in 1 .. n : list[i] \notin Before(list, i)
    PROVE  Apart(list)
<1>1. ASSUME NEW i \in 1 .. n, NEW j \in 1 .. n, list[i] = list[j], i < j
      PROVE  FALSE
  <2>1. i \in 1 .. j - 1
    BY <1>1
  <2>2. list[j] \in Before(list, j)
    BY <1>1, <2>1 DEF Before
  <2>3. QED
    BY <2>2
<1>2. ASSUME NEW i \in 1 .. n, NEW j \in 1 .. n, list[i] = list[j]
      PROVE  i = j
  <2>1. ~(i < j) /\ ~(j < i)
    BY <1>1, <1>2
  <2>2. QED
    BY <2>1
<1>3. QED
  BY <1>2 DEF Apart

LEMMA SampleApart ==
    ASSUME NEW level \in Filters, NEW n \in MinPersonas .. AbsoluteMax, NEW seed \in Seeds,
           NEW picked \in Sample(level, n, seed)
    PROVE  picked \in [1 .. n -> Records] /\ Apart(picked)
<1>1. PICK order : order = IF level = "all" THEN OrderOf[seed] ELSE <<level>>
  OBVIOUS
<1>2. order \in Seq(ToSet(Levels)) /\ Len(order) \in Nat \ {0}
  <2>1. CASE level = "all"
    BY <1>1, <2>1
  <2>2. CASE level # "all"
    <3>1. level \in ToSet(Levels)
      BY <2>2
    <3>2. QED
      BY <1>1, <2>2, <3>1
  <2>3. QED
    BY <2>1, <2>2
<1>3. picked \in [1 .. n -> Records] /\ n \in Nat
  BY DEF Sample
<1>4. ASSUME NEW i \in 1 .. n
      PROVE  picked[i] \notin Before(picked, i)
  <2>1. PICK before : before = Before(picked, i)
    OBVIOUS
  <2>2. PICK wanted : wanted = order[1 + ((i - 1) % Len(order))]
    OBVIOUS
  <2>3. wanted \in ToSet(Levels)
    <3>1. (i - 1) % Len(order) \in 0 .. Len(order) - 1
      BY <1>2
    <3>2. 1 + ((i - 1) % Len(order)) \in 1 .. Len(order)
      BY <1>2, <3>1
    <3>3. QED
      BY <1>2, <2>2, <3>2
  <2>4. PICK all \in SUBSET Records : all = {x \in Records : LevelOf[x] = wanted}
    OBVIOUS
  <2>5. PICK left \in SUBSET Records : left = all \ before
    OBVIOUS
  <2>6. picked[i] = Drawn(InOrder(left), Draw[seed][i])
    BY <1>1, <2>1, <2>2, <2>4, <2>5 DEF Sample
  <2>7. IsFiniteSet(Records) /\ Records \subseteq Int
    <3>1. PICK k \in Nat : Records = 1 .. k
      OBVIOUS
    <3>2. QED
      BY <3>1, FS_Interval
  <2>8. IsFiniteSet(all) /\ IsFiniteSet(left)
    BY <2>7, FS_Subset
  <2>9. \E x \in all : x \notin before
    <3>1. IsFiniteSet(before) /\ Cardinality(before) <= i - 1 /\ Cardinality(before) \in Nat
      BY <1>3, <2>1, FewBefore
    <3>2. Cardinality(before) < AbsoluteMax
      BY <3>1
    <3>3. Cardinality(all) >= AbsoluteMax
      BY <2>3, <2>4
    <3>4. QED
      BY <2>8, <3>1, <3>2, <3>3, SomeLeft
  <2>10. PICK m \in Nat : m = Cardinality(left) /\ Lists(InOrder(left), left)
    BY <2>7, <2>8, InOrderLists
  <2>11. m # 0
    <3>1. left # {}
      BY <2>5, <2>9
    <3>2. Cardinality(left) # 0
      BY <2>8, <3>1, FS_EmptySet
    <3>3. QED
      BY <2>10, <3>2
  <2>12. InOrder(left) \in [1 .. m -> left]
    BY <2>10 DEF Lists
  <2>13. Draw[seed][i] \in Nat
    OBVIOUS
  <2>14. picked[i] \in left
    BY <2>6, <2>11, <2>12, <2>13, DrawnFrom
  <2>15. QED
    BY <2>1, <2>5, <2>14
<1>5. QED
  BY <1>3, <1>4, EarlierApart

LEMMA PseudonymsApart ==
    ASSUME NEW n \in MinPersonas .. AbsoluteMax, NEW seed \in Seeds,
           NEW records \in [1 .. n -> Records], NEW names \in Pseudonyms(records, seed)
    PROVE  names \in [1 .. n -> Names] /\ Apart(names)
<1>1. names \in [1 .. n -> Names] /\ n \in Nat
  BY DEF Pseudonyms
<1>2. ASSUME NEW i \in 1 .. n
      PROVE  names[i] \notin Before(names, i)
  <2>1. PICK before : before = Before(names, i)
    OBVIOUS
  <2>2. PICK pool \in Seq(Names) : pool = NamesOf[GenderOf[records[i]]]
                                   /\ Cardinality(ToSet(pool)) >= AbsoluteMax
    OBVIOUS
  <2>3. names[i] = Drawn(Unused(pool, before), Draw[seed][i])
    BY <2>1, <2>2 DEF Pseudonyms
  <2>4. PICK m \in Nat : /\ Unused(pool, before) \in [1 .. m -> ToSet(pool) \ before]
                         /\ m = 0 <=> ToSet(pool) \subseteq before
    BY FreeNames
  <2>5. m # 0
    <3>1. IsFiniteSet(before) /\ Cardinality(before) <= i - 1 /\ Cardinality(before) \in Nat
      BY <1>1, <2>1, FewBefore
    <3>2. Cardinality(before) < AbsoluteMax
      BY <3>1
    <3>3. IsFiniteSet(ToSet(pool))
      <4>1. PICK k \in Nat : k = Len(pool) /\ pool \in [1 .. k -> Names]
        OBVIOUS
      <4>2. pool \in Surjection(1 .. k, ToSet(pool))
        BY <4>1 DEF Surjection, ToSet
      <4>3. QED
        BY <4>2, FS_Interval, FS_Surjection
    <3>4. QED
      BY <2>2, <2>4, <3>1, <3>2, <3>3, SomeLeft
  <2>6. Draw[seed][i] \in Nat
    OBVIOUS
  <2>7. names[i] \in ToSet(pool) \ before
    <3>1. PICK rest, list, k : rest = ToSet(pool) \ before /\ list = Unused(pool, before)
                               /\ k = Draw[seed][i]
      OBVIOUS
    <3>2. list \in [1 .. m -> rest] /\ m \in Nat \ {0} /\ k \in Nat
      BY <2>4, <2>5, <2>6, <3>1
    <3>3. Drawn(list, k) \in rest
      BY <3>2, DrawnFrom
    <3>4. QED
      BY <2>3, <3>1, <3>3
  <2>8. QED
    BY <2>1, <2>7
<1>3. QED
  BY <1>1, <1>2, EarlierApart

\* A class: students of the dataset and their names, none of them twice.
Class(class, n) ==
    /\ class.records \in [1 .. n -> Records] /\ Apart(class.records)
    /\ class.names \in [1 .. n -> Names] /\ Apart(class.names)

LEMMA ClassesApart ==
    ASSUME NEW level \in Filters, NEW n \in MinPersonas .. AbsoluteMax, NEW seed \in Seeds,
           NEW class \in Classes[level][n][seed]
    PROVE  Class(class, n)
<1>1. PICK records \in Sample(level, n, seed) :
         \E names \in Pseudonyms(records, seed) :
            class = [records |-> records, names |-> names]
  BY DEF Classes
<1>2. PICK names \in Pseudonyms(records, seed) :
         class = [records |-> records, names |-> names]
  BY <1>1
<1>3. records \in [1 .. n -> Records] /\ Apart(records)
  BY SampleApart
<1>4. names \in [1 .. n -> Names] /\ Apart(names)
  BY <1>3, PseudonymsApart
<1>5. QED
  BY <1>2, <1>3, <1>4 DEF Class
-----------------------------------------------------------------------------
(* The inductive invariant.                                                *)

Ref == [source : {"dataset", "custom"}, id : Nat, plain : BOOLEAN]
Shown == [ref : Ref, who : Nat, name : Names]
Seat == [ref : Ref, who : Nat, name : Names, level : ToSet(Levels)]
SomePhases == [count : Nat, name : Nat, question : Nat, minutes : Int]
Own == [id : Nat, who : Nat]
Session == [plan : Nat, seats : Seq(Seat), phases : SomePhases, shown : Seq(Shown),
            gone : SUBSET Nat]
Call == [op : {"none", "draft", "create", "own"}, plan : Nat, seats : Seq(Seat),
         phases : SomePhases, shown : Seq(Shown), gone : SUBSET Nat,
         profile : Profile \cup {<<>>}]

SetupTypeOK ==
    /\ account \in BOOLEAN /\ plans \in Nat
    /\ own \subseteq Own /\ IsFiniteSet(own)
    /\ born \in Seq(Profile)
    /\ setting \in Nat
    /\ sessions \in Seq(Session)
    /\ page \in [cands : Seq(Shown), gone : SUBSET Nat, phases : SomePhases]
    /\ pending \in [Calls -> Call]

\* The numbers of her own students so far.
OwnNumbers == {OwnNumber(k) : k \in 1 .. Len(born)}

\* Ids and numbers tell her own students apart.
OwnApart ==
    /\ \A o \in own : o.id \in 1 .. Len(born) /\ o.who \in OwnNumbers
    /\ \A o, p \in own : o.id = p.id \/ o.who = p.who => o = p

\* An id leads to the student shown, as long as that one is not deleted.
Leads(c) ==
    /\ c.ref.source = "dataset" => c.who \in Records /\ c.ref = RecordRef(c.who)
    /\ c.ref.source = "custom" =>
          /\ c.who \in OwnNumbers /\ c.ref = OwnRef(c.ref.id)
          /\ account => \/ c.ref.id \in page.gone
                        \/ \E o \in own : o.id = c.ref.id /\ o.who = c.who

PageLeads == \A i \in DOMAIN page.cands : Leads(page.cands[i])

\* Whoever sits in a class is known.
Known(seats) == \A i \in DOMAIN seats : seats[i].who \in Records \cup OwnNumbers

\* A session that waits for Gemini could be stored as it is.
CallSound(r) ==
    /\ At(r, "create") => /\ Sound(pending[r]) /\ AsShown(pending[r]) /\ Known(pending[r].seats)
                          /\ account => pending[r].plan \in 1 .. plans
    /\ At(r, "own") => pending[r].profile \in Profile
WaitingSound == \A r \in Calls : CallSound(r)

SessionsKnown == \A k \in DOMAIN sessions : Known(sessions[k].seats)
SessionsInv == SessionsKnown /\ SessionsSound /\ SeatsAsShown
PageInv == PageLeads /\ NamesSpent(page.cands)
PhasesFit == page.phases.count > 0 => Fits(page.phases)

SetupInv == /\ SetupTypeOK /\ OwnApart /\ WaitingSound
            /\ SessionsInv /\ PageInv /\ PhasesFit

-----------------------------------------------------------------------------
(* Students.                                                               *)

LEMMA Pools ==
    ASSUME NEW g \in DOMAIN NamesOf
    PROVE  /\ NamesOf[g] \in Seq(Names) /\ Len(NamesOf[g]) \in Nat \ {0}
           /\ NamesOf[g] \in [1 .. Len(NamesOf[g]) -> Names]
<1>1. PICK pool \in Seq(Names) : pool = NamesOf[g] /\ Cardinality(ToSet(pool)) >= AbsoluteMax
  OBVIOUS
<1>2. Len(pool) # 0
  <2>1. SUFFICES ASSUME Len(pool) = 0  PROVE FALSE
    OBVIOUS
  <2>2. ToSet(pool) = {}
    BY <2>1 DEF ToSet
  <2>3. Cardinality(ToSet(pool)) = 0
    BY <2>2, FS_EmptySet
  <2>4. QED
    BY <1>1, <2>3
<1>3. Len(pool) \in Nat /\ pool \in [1 .. Len(pool) -> Names]
  OBVIOUS
<1>4. QED
  BY <1>1, <1>2, <1>3

\* A student of hers is none of the dataset, and has the profile she gave it.
LEMMA OwnStudent ==
    ASSUME born \in Seq(Profile), NEW k \in 1 .. Len(born)
    PROVE  /\ OwnNumber(k) \in Nat /\ OwnNumber(k) \notin Records
           /\ Level(OwnNumber(k)) = born[k].level /\ Gender(OwnNumber(k)) = born[k].gender
           /\ born[k] \in Profile
<1>1. PICK m \in Nat : m = Cardinality(Records) /\ Records = 1 .. m
  OBVIOUS
<1>2. OwnNumber(k) = m + k
  BY <1>1 DEF OwnNumber
<1>3. Len(born) \in Nat
  OBVIOUS
<1>4. k \in Nat /\ k > 0
  BY <1>3
<1>5. OwnNumber(k) \in Nat /\ OwnNumber(k) \notin Records /\ OwnNumber(k) - m = k
  <2>1. PICK x : x = OwnNumber(k)
    OBVIOUS
  <2>2. x \in Nat /\ x > m /\ x - m = k
    BY <1>2, <1>4, <2>1
  <2>3. x \notin 1 .. m
    BY <2>2
  <2>4. QED
    BY <1>1, <2>1, <2>2, <2>3
<1>6. QED
  BY <1>1, <1>5 DEF Level, Gender

LEMMA KnownStudent ==
    ASSUME born \in Seq(Profile), NEW who \in Records \cup OwnNumbers
    PROVE  who \in Nat /\ Level(who) \in ToSet(Levels) /\ Gender(who) \in DOMAIN NamesOf
<1>1. CASE who \in Records
  <2>1. who \in Nat
    <3>1. PICK m \in Nat : Records = 1 .. m
      OBVIOUS
    <3>2. QED
      BY <1>1, <3>1
  <2>2. QED
    BY <1>1, <2>1 DEF Level, Gender
<1>2. CASE who \in OwnNumbers
  <2>1. PICK k \in 1 .. Len(born) : who = OwnNumber(k)
    BY <1>2 DEF OwnNumbers
  <2>2. born[k].level \in ToSet(Levels) /\ born[k].gender \in DOMAIN NamesOf
    BY <2>1, OwnStudent DEF Profile
  <2>3. QED
    BY <2>1, <2>2, OwnStudent
<1>3. QED
  BY <1>1, <1>2

\* Profiles are added and never changed.
Grown == /\ born \in Seq(Profile) /\ born' \in Seq(Profile)
         /\ Len(born) <= Len(born')
         /\ \A k \in 1 .. Len(born) : born'[k] = born[k]

LEMMA SameStudent ==
    ASSUME Grown, NEW who \in Records \cup OwnNumbers
    PROVE  /\ Level(who)' = Level(who) /\ Gender(who)' = Gender(who)
           /\ who \in Records \cup OwnNumbers'
           /\ who \in OwnNumbers => who \in OwnNumbers'
<1>1. CASE who \in Records
  BY <1>1, OwnStudent DEF Level, Gender, OwnNumbers, Grown
<1>2. CASE who \in OwnNumbers
  <2>1. PICK k \in 1 .. Len(born) : who = OwnNumber(k)
    BY <1>2 DEF OwnNumbers
  <2>2. k \in 1 .. Len(born') /\ born'[k] = born[k]
    BY <2>1 DEF Grown
  <2>3. who \in OwnNumbers'
    BY <2>1, <2>2 DEF OwnNumbers
  <2>4. who \notin Records /\ who - Cardinality(Records) = k
    <3>1. PICK m \in Nat : m = Cardinality(Records) /\ Records = 1 .. m
      OBVIOUS
    <3>2. OwnNumber(k) = m + k
      BY <3>1 DEF OwnNumber
    <3>3. Len(born) \in Nat
      BY DEF Grown
    <3>4. k \in Nat /\ k > 0
      BY <3>3
    <3>5. who \in Int /\ who > m /\ who - m = k
      BY <2>1, <3>2, <3>4
    <3>6. who \notin 1 .. m
      BY <3>5
    <3>7. QED
      BY <3>1, <3>5, <3>6
  <2>5. QED
    BY <2>2, <2>3, <2>4 DEF Level, Gender
<1>3. QED
  BY <1>1, <1>2

LEMMA SoundKept ==
    ASSUME Grown, NEW s, Known(s.seats)
    PROVE  Known(s.seats)' /\ (Sound(s) => Sound(s)')
<1>1. \A i \in DOMAIN s.seats : /\ Level(s.seats[i].who)' = Level(s.seats[i].who)
                                /\ s.seats[i].who \in Records \cup OwnNumbers'
  BY SameStudent DEF Known
<1>2. QED
  BY <1>1 DEF Known, Sound

-----------------------------------------------------------------------------
(* Seats.                                                                  *)

\* What the picks of a request look like before they are checked.
Picks(picks, n) ==
    /\ DOMAIN picks = 1 .. n /\ Len(picks) = n
    /\ \A i \in 1 .. n : /\ picks[i].ref \in Ref
                         /\ picks[i].ref.source = "dataset" =>
                               picks[i].ref = RecordRef(picks[i].ref.id)

\* A seat has the student its pick asks for.
Sits(seat, pick) ==
    /\ seat \in Seat
    /\ seat.ref = pick.ref /\ seat.name = pick.name /\ seat.level = Level(seat.who)
    /\ pick.ref.source = "dataset" => seat.who = pick.ref.id /\ seat.who \in Records
    /\ pick.ref.source = "custom" =>
          /\ \E o \in own : o.id = pick.ref.id /\ o.who = seat.who
          /\ pick.ref = OwnRef(pick.ref.id)

LEMMA OwnById ==
    ASSUME OwnApart, NEW o \in own
    PROVE  OwnWith(o.id) = o
BY DEF OwnApart, OwnWith

LEMMA SeatOf ==
    ASSUME SetupTypeOK, OwnApart, NEW n \in Nat, NEW picks, Picks(picks, n),
           Acceptable(picks), NEW i \in 1 .. n
    PROVE  Sits(Seats(picks)[i], picks[i])
<1>1. PICK places : places = {j \in DOMAIN picks : picks[j].ref.source = "custom"}
  OBVIOUS
<1>2. IsFiniteSet(places) /\ places \in SUBSET Int
  <2>1. IsFiniteSet(1 .. n)
    BY FS_Interval
  <2>2. places \subseteq 1 .. n
    BY <1>1 DEF Picks
  <2>3. IsFiniteSet(places)
    BY <2>1, <2>2, FS_Subset
  <2>4. QED
    BY <2>2, <2>3
<1>3. PICK custom : custom = Customs(picks)
  OBVIOUS
<1>4. custom = Sublist(picks, places)
  BY <1>1, <1>3 DEF Customs
<1>5. PICK m \in Nat : m = Cardinality(places)
  BY <1>2, FS_CardinalityType
<1>6. DOMAIN custom = 1 .. m
  BY <1>2, <1>4, <1>5, SublistOf
<1>7. PICK order : /\ Lists(order, places)
                   /\ \A k \in 1 .. m : custom[k] = picks[order[k]]
  BY <1>2, <1>4, <1>5, SublistOf
<1>8. PICK ids, copies : /\ ids = [k \in DOMAIN custom |-> custom[k].ref.id]
                         /\ copies = Snapshot(ids)
  OBVIOUS
<1>9. \A k \in 1 .. m : copies[k] = OwnWith(ids[k]).who
  <2>1. DOMAIN ids = 1 .. m
    BY <1>6, <1>8
  <2>2. QED
    BY <1>8, <2>1 DEF Snapshot
<1>10. PICK who : who = WhoSits(picks[i], custom, copies)
  OBVIOUS
<1>11. Seats(picks)[i] = [ref |-> picks[i].ref, who |-> who, name |-> picks[i].name,
                          level |-> Level(who)]
  BY <1>3, <1>8, <1>10 DEF Seats, Picks
<1>12. picks[i].name \in Names /\ picks[i].ref \in Ref
  BY DEF Acceptable, Picks
<1>13. CASE picks[i].ref.source = "dataset"
  <2>1. who = picks[i].ref.id /\ who \in Records
    BY <1>10, <1>13 DEF Acceptable, Picks, WhoSits
  <2>2. who \in Nat /\ Level(who) \in ToSet(Levels)
    BY <2>1, KnownStudent DEF SetupTypeOK
  <2>3. Seats(picks)[i] \in Seat
    BY <1>11, <1>12, <2>2 DEF Seat
  <2>4. QED
    BY <1>11, <1>13, <2>1, <2>3 DEF Sits
<1>14. CASE picks[i].ref.source = "custom"
  <2>1. PICK o \in own : o.id = picks[i].ref.id
    BY <1>14 DEF Acceptable, Picks
  <2>2. i \in places
    BY <1>1, <1>14 DEF Picks
  <2>3. \E k \in 1 .. m : order[k] = i
    BY <1>5, <1>7, <2>2 DEF Lists
  <2>4. \E k \in DOMAIN custom : custom[k] = picks[i]
    BY <1>6, <1>7, <2>3
  <2>5. PICK k : k = CHOOSE j \in DOMAIN custom : custom[j] = picks[i]
    OBVIOUS
  <2>6. who = o.who
    <3>1. who = copies[k]
      BY <1>10, <1>14, <2>5 DEF WhoSits
    <3>2. k \in 1 .. m /\ custom[k] = picks[i]
      BY <1>6, <2>4, <2>5
    <3>3. ids[k] = o.id
      BY <1>6, <1>8, <2>1, <3>2
    <3>4. copies[k] = OwnWith(o.id).who
      BY <1>9, <3>2, <3>3
    <3>5. QED
      BY <3>1, <3>4, OwnById
  <2>7. who \in Nat /\ Level(who) \in ToSet(Levels)
    <3>1. who \in OwnNumbers /\ born \in Seq(Profile)
      BY <2>6 DEF OwnApart, SetupTypeOK
    <3>2. QED
      BY <3>1, KnownStudent
  <2>8. Seats(picks)[i] \in Seat
    BY <1>11, <1>12, <2>7 DEF Seat
  <2>9. picks[i].ref = OwnRef(picks[i].ref.id)
    <3>1. picks[i].ref.plain
      BY <1>14 DEF Acceptable, Picks
    <3>2. PICK ref \in Ref : ref = picks[i].ref
      BY <1>12
    <3>3. ref = [source |-> ref.source, id |-> ref.id, plain |-> ref.plain]
      BY DEF Ref
    <3>4. QED
      BY <1>14, <3>1, <3>2, <3>3 DEF OwnRef, Ref
  <2>10. QED
    BY <1>11, <1>14, <2>1, <2>6, <2>8, <2>9 DEF Sits
<1>15. QED
  BY <1>12, <1>13, <1>14 DEF Ref

LEMMA RefSplit ==
    ASSUME NEW pick, pick.ref \in Ref
    PROVE  pick.ref.source = "dataset" \/ pick.ref.source = "custom"
BY DEF Ref

\* The seats of a class: who was picked, nobody twice.
Seated(seats, picks, n) ==
    /\ seats \in [1 .. n -> Seat]
    /\ \A i \in 1 .. n : Sits(seats[i], picks[i])
    /\ \A i, j \in 1 .. n : i # j => seats[i].who # seats[j].who /\ seats[i].name # seats[j].name
    /\ \A i \in 1 .. n : seats[i].who \in Records \cup OwnNumbers

LEMMA SeatsRight ==
    ASSUME SetupTypeOK, OwnApart, NEW n \in Nat, NEW picks, Picks(picks, n), Acceptable(picks)
    PROVE  Seated(Seats(picks), picks, n)
<1>1. PICK seats : seats = Seats(picks)
  OBVIOUS
<1>2. \A i \in 1 .. n : Sits(seats[i], picks[i])
  BY <1>1, SeatOf
<1>3. seats \in [1 .. n -> Seat]
  <2>1. DOMAIN seats = 1 .. n /\ seats = [i \in DOMAIN seats |-> seats[i]]
    BY <1>1 DEF Seats, Picks
  <2>2. \A i \in 1 .. n : seats[i] \in Seat
    BY <1>2 DEF Sits
  <2>3. QED
    BY <2>1, <2>2
<1>4. ASSUME NEW i \in 1 .. n, NEW o \in own, o.who = seats[i].who
      PROVE  seats[i].who \in OwnNumbers /\ seats[i].who \notin Records
  <2>1. seats[i].who \in OwnNumbers
    BY <1>4 DEF OwnApart
  <2>2. QED
    BY <2>1, OwnStudent DEF OwnNumbers, SetupTypeOK
<1>5. \A i \in 1 .. n : picks[i].ref.source = "dataset" \/ picks[i].ref.source = "custom"
  BY RefSplit DEF Picks
<1>6. ASSUME NEW i \in 1 .. n
      PROVE  seats[i].who \in Records \cup OwnNumbers
  <2>1. Sits(seats[i], picks[i])
    BY <1>2
  <2>2. QED
    BY <2>1, <1>4, <1>5 DEF Sits
<1>7. ASSUME NEW i \in 1 .. n, NEW j \in 1 .. n, i # j
      PROVE  seats[i].who # seats[j].who /\ seats[i].name # seats[j].name
  <2>1. Sits(seats[i], picks[i]) /\ Sits(seats[j], picks[j])
    BY <1>2
  <2>2. picks[i].ref # picks[j].ref /\ picks[i].name # picks[j].name
    BY <1>7 DEF Acceptable, Picks
  <2>3. seats[i].name # seats[j].name
    BY <2>1, <2>2 DEF Sits
  <2>4. CASE picks[i].ref.source = "dataset" /\ picks[j].ref.source = "dataset"
    <3>1. picks[i].ref = RecordRef(picks[i].ref.id) /\ picks[j].ref = RecordRef(picks[j].ref.id)
      BY <2>4 DEF Picks
    <3>2. picks[i].ref.id # picks[j].ref.id
      BY <2>2, <3>1
    <3>3. QED
      BY <2>1, <2>3, <2>4, <3>2 DEF Sits
  <2>5. CASE picks[i].ref.source = "custom" /\ picks[j].ref.source = "custom"
    <3>1. picks[i].ref = OwnRef(picks[i].ref.id) /\ picks[j].ref = OwnRef(picks[j].ref.id)
      BY <2>1, <2>5 DEF Sits
    <3>2. picks[i].ref.id # picks[j].ref.id
      BY <2>2, <3>1
    <3>3. PICK o \in own, p \in own : /\ o.id = picks[i].ref.id /\ o.who = seats[i].who
                                      /\ p.id = picks[j].ref.id /\ p.who = seats[j].who
      BY <2>1, <2>5 DEF Sits
    <3>4. o.who # p.who
      BY <3>2, <3>3 DEF OwnApart
    <3>5. QED
      BY <2>3, <3>3, <3>4
  <2>6. CASE picks[i].ref.source = "dataset" /\ picks[j].ref.source = "custom"
    <3>1. seats[i].who \in Records
      BY <2>1, <2>6 DEF Sits
    <3>2. seats[j].who \notin Records
      BY <2>1, <2>6, <1>4 DEF Sits
    <3>3. QED
      BY <2>3, <3>1, <3>2
  <2>7. CASE picks[i].ref.source = "custom" /\ picks[j].ref.source = "dataset"
    <3>1. seats[j].who \in Records
      BY <2>1, <2>7 DEF Sits
    <3>2. seats[i].who \notin Records
      BY <2>1, <2>7, <1>4 DEF Sits
    <3>3. QED
      BY <2>3, <3>1, <3>2
  <2>8. QED
    BY <1>5, <2>4, <2>5, <2>6, <2>7
<1>8. QED
  BY <1>1, <1>2, <1>3, <1>6, <1>7 DEF Seated

-----------------------------------------------------------------------------
(* The students offered.                                                   *)

\* A name is used again only when none of the gender is left.
LEMMA OwnNamesSpent ==
    ASSUME SetupTypeOK, OwnApart, NEW n \in Nat, NEW students \in [1 .. n -> own],
           NEW m \in Nat, NEW used, used \in Seq(Names), Len(used) = m,
           NEW names \in OwnNames(students, used), NEW i \in 1 .. n
    PROVE  /\ names[i] \in Names
           /\ names[i] \in ToSet(used) \cup Before(names, i) =>
                 ToSet(NamesOf[Gender(students[i].who)]) \subseteq ToSet(used) \cup Before(names, i)
<1>1. PICK taken : taken = ToSet(used) \cup Before(names, i)
  OBVIOUS
<1>2. PICK g \in DOMAIN NamesOf : g = Gender(students[i].who)
  <2>1. students[i] \in own
    OBVIOUS
  <2>2. students[i].who \in OwnNumbers /\ born \in Seq(Profile)
    BY <2>1 DEF OwnApart, SetupTypeOK
  <2>3. QED
    BY <2>2, KnownStudent
<1>3. PICK k \in Nat \ {0}, pool \in Seq(Names) :
         pool = NamesOf[g] /\ k = Len(pool) /\ pool \in [1 .. k -> Names]
  BY Pools
<1>4. PICK free : free = Unused(pool, taken)
  OBVIOUS
<1>5. names[i] = IF free # <<>> THEN free[1] ELSE Drawn(pool, Len(used) + i - 1)
  BY <1>1, <1>2, <1>3, <1>4 DEF OwnNames
<1>6. PICK f \in Nat : /\ free \in [1 .. f -> ToSet(pool) \ taken]
                       /\ f = 0 <=> ToSet(pool) \subseteq taken
                       /\ free # <<>> <=> f # 0
  BY <1>4, FreeNames
<1>7. ToSet(pool) \subseteq Names
  BY <1>3 DEF ToSet
<1>8. CASE f # 0
  <2>1. names[i] = free[1] /\ 1 \in 1 .. f
    BY <1>5, <1>6, <1>8
  <2>2. names[i] \in ToSet(pool) \ taken
    BY <1>6, <2>1
  <2>3. QED
    BY <1>1, <1>7, <2>2
<1>9. CASE f = 0
  <2>1. names[i] = Drawn(pool, Len(used) + i - 1) /\ Len(used) + i - 1 \in Nat
    BY <1>5, <1>6, <1>9
  <2>2. names[i] \in Names
    BY <1>3, <2>1, DrawnFrom
  <2>3. QED
    BY <1>1, <1>2, <1>3, <1>6, <1>9, <2>2
<1>10. QED
  BY <1>6, <1>8, <1>9

\* The page: m students of the dataset, then n of her own.
Offered(cands, class, m, students, names, n) ==
    /\ cands \in Seq(Shown) /\ Len(cands) = m + n
    /\ \A i \in 1 .. m :
          cands[i] = Candidate(RecordRef(class.records[i]), class.records[i], class.names[i])
    /\ \A i \in 1 .. n :
          cands[m + i] = Candidate(OwnRef(students[i].id), students[i].who, names[i])

LEMMA CandidatesOffered ==
    ASSUME SetupTypeOK, NEW m \in Nat, NEW class, Class(class, m),
           NEW n \in Nat, NEW students \in [1 .. n -> own], NEW names \in [1 .. n -> Names]
    PROVE  Offered(Candidates(class, students, names), class, m, students, names, n)
<1>1. PICK first : first = [i \in 1 .. m |->
         Candidate(RecordRef(class.records[i]), class.records[i], class.names[i])]
  OBVIOUS
<1>2. PICK last : last = [i \in 1 .. n |->
         Candidate(OwnRef(students[i].id), students[i].who, names[i])]
  OBVIOUS
<1>3. Candidates(class, students, names) = first \o last
  <2>1. DOMAIN class.records = 1 .. m /\ DOMAIN students = 1 .. n
    BY DEF Class
  <2>2. QED
    BY <1>1, <1>2, <2>1 DEF Candidates
<1>4. first \in Seq(Shown) /\ Len(first) = m
  <2>1. ASSUME NEW i \in 1 .. m
        PROVE  first[i] \in Shown
    <3>1. class.records[i] \in Nat /\ class.names[i] \in Names
      <4>1. class.records[i] \in Records /\ class.names[i] \in Names
        BY DEF Class
      <4>2. PICK k \in Nat : Records = 1 .. k
        OBVIOUS
      <4>3. QED
        BY <4>1, <4>2
    <3>2. RecordRef(class.records[i]) \in Ref
      BY <3>1 DEF RecordRef, Ref
    <3>3. QED
      BY <1>1, <3>1, <3>2 DEF Candidate, Shown
  <2>2. first \in [1 .. m -> Shown]
    BY <1>1, <2>1
  <2>3. QED
    BY <2>2, ListOf
<1>5. last \in Seq(Shown) /\ Len(last) = n
  <2>1. ASSUME NEW i \in 1 .. n
        PROVE  last[i] \in Shown
    <3>1. students[i].id \in Nat /\ students[i].who \in Nat
      BY DEF SetupTypeOK, Own
    <3>2. OwnRef(students[i].id) \in Ref
      BY <3>1 DEF OwnRef, Ref
    <3>3. QED
      BY <1>2, <3>1, <3>2 DEF Candidate, Shown
  <2>2. last \in [1 .. n -> Shown]
    BY <1>2, <2>1
  <2>3. QED
    BY <2>2, ListOf
<1>6. /\ first \o last \in Seq(Shown) /\ Len(first \o last) = m + n
      /\ \A i \in 1 .. m + n : (first \o last)[i] = IF i <= m THEN first[i] ELSE last[i - m]
  <2>1. /\ first \o last \in Seq(Shown) /\ Len(first \o last) = Len(first) + Len(last)
        /\ \A i \in 1 .. Len(first) + Len(last) :
              (first \o last)[i] = IF i <= Len(first) THEN first[i] ELSE last[i - Len(first)]
    <3>1. first \in Seq(Shown) /\ last \in Seq(Shown)
      BY <1>4, <1>5
    <3>2. QED
      BY <3>1, ConcatProperties
  <2>2. QED
    BY <1>4, <1>5, <2>1
<1>7. \A i \in 1 .. m : (first \o last)[i] = first[i]
  BY <1>6
<1>8. ASSUME NEW i \in 1 .. n
      PROVE  (first \o last)[m + i] = last[i]
  <2>1. m + i \in 1 .. m + n /\ ~(m + i <= m) /\ (m + i) - m = i
    OBVIOUS
  <2>2. QED
    BY <1>6, <2>1
<1>9. QED
  BY <1>1, <1>2, <1>3, <1>6, <1>7, <1>8 DEF Offered

LEMMA OfferedSpent ==
    ASSUME SetupTypeOK, OwnApart, NEW m \in Nat, NEW class, Class(class, m),
           NEW n \in Nat, NEW students \in [1 .. n -> own],
           NEW names \in OwnNames(students, class.names), names \in [1 .. n -> Names],
           NEW cands, Offered(cands, class, m, students, names, n)
    PROVE  NamesSpent(cands)
<1>1. PICK used : used = class.names /\ used \in [1 .. m -> Names] /\ Apart(used)
  BY DEF Class
<1>2. used \in Seq(Names) /\ Len(used) = m /\ DOMAIN used = 1 .. m
  BY <1>1
<1>3. DOMAIN cands = 1 .. m + n
  BY DEF Offered
<1>4. ASSUME NEW i \in 1 .. m
      PROVE  cands[i].name = used[i]
  <2>1. cands[i] = Candidate(RecordRef(class.records[i]), class.records[i], class.names[i])
    BY DEF Offered
  <2>2. QED
    BY <1>1, <2>1 DEF Candidate
<1>5. ASSUME NEW i \in 1 .. n
      PROVE  cands[m + i].name = names[i] /\ cands[m + i].who = students[i].who
  <2>1. cands[m + i] = Candidate(OwnRef(students[i].id), students[i].who, names[i])
    BY DEF Offered
  <2>2. QED
    BY <2>1 DEF Candidate
<1>6. ASSUME NEW i \in 1 .. m + n, NEW j \in 1 .. m + n, i < j, cands[i].name = cands[j].name
      PROVE  ToSet(NamesOf[Gender(cands[j].who)]) \subseteq {cands[k].name : k \in 1 .. j - 1}
  <2>1. CASE j <= m
    <3>1. i \in 1 .. m /\ j \in 1 .. m /\ i # j
      BY <1>6, <2>1
    <3>2. used[i] # used[j]
      BY <1>1, <1>2, <3>1 DEF Apart
    <3>3. QED
      BY <1>4, <1>6, <3>1, <3>2
  <2>2. CASE j > m
    <3>1. PICK h \in 1 .. n : j = m + h
      <4>1. j - m \in 1 .. n /\ j = m + (j - m)
        BY <2>2
      <4>2. QED
        BY <4>1
    <3>2. cands[j].name = names[h] /\ cands[j].who = students[h].who
      BY <1>5, <3>1
    <3>3. ASSUME NEW k \in 1 .. j - 1
          PROVE  cands[k].name \in ToSet(used) \cup Before(names, h)
      <4>1. CASE k <= m
        <5>1. k \in 1 .. m
          BY <3>1, <4>1
        <5>2. QED
          BY <1>2, <1>4, <5>1 DEF ToSet
      <4>2. CASE k > m
        <5>1. k - m \in 1 .. h - 1 /\ k - m \in 1 .. n /\ k = m + (k - m)
          BY <3>1, <4>2
        <5>2. cands[k].name = names[k - m]
          BY <1>5, <5>1
        <5>3. QED
          BY <5>1, <5>2 DEF Before
      <4>3. QED
        BY <3>1, <4>1, <4>2
    <3>4. names[h] \in ToSet(used) \cup Before(names, h)
      <4>1. i \in 1 .. j - 1
        BY <1>6
      <4>2. QED
        BY <1>6, <3>2, <3>3, <4>1
    <3>5. ToSet(NamesOf[Gender(students[h].who)]) \subseteq ToSet(used) \cup Before(names, h)
      BY <1>1, <1>2, <3>4, OwnNamesSpent
    <3>6. ASSUME NEW x \in ToSet(used) \cup Before(names, h)
          PROVE  \E k \in 1 .. j - 1 : cands[k].name = x
      <4>1. CASE x \in ToSet(used)
        <5>1. PICK k \in 1 .. m : x = used[k]
          BY <1>2, <4>1 DEF ToSet
        <5>2. k \in 1 .. j - 1
          BY <3>1
        <5>3. QED
          BY <1>4, <5>1, <5>2
      <4>2. CASE x \in Before(names, h)
        <5>1. PICK k \in 1 .. h - 1 : x = names[k]
          BY <4>2 DEF Before
        <5>2. m + k \in 1 .. j - 1 /\ k \in 1 .. n
          BY <3>1
        <5>3. QED
          BY <1>5, <5>1, <5>2
      <4>3. QED
        BY <3>6, <4>1, <4>2
    <3>7. ToSet(used) \cup Before(names, h) \subseteq {cands[k].name : k \in 1 .. j - 1}
      BY <3>6
    <3>8. QED
      BY <3>2, <3>5, <3>7
  <2>3. QED
    BY <2>1, <2>2
<1>7. QED
  BY <1>3, <1>6 DEF NamesSpent

-----------------------------------------------------------------------------
(* What stays.                                                             *)

LEMMA SessionsStay ==
    ASSUME SetupTypeOK, SessionsInv, Grown, sessions' = sessions, account' = account,
           plans' \in Nat, plans <= plans'
    PROVE  SessionsInv'
<1>1. PICK list : list = sessions
  OBVIOUS
<1>2. ASSUME NEW k \in DOMAIN list
      PROVE  /\ Known(list[k].seats)' /\ Sound(list[k])'
             /\ account' /\ list[k].plan \in 1 .. plans' /\ AsShown(list[k])
  <2>1. /\ Known(list[k].seats) /\ Sound(list[k]) /\ AsShown(list[k])
        /\ account /\ list[k].plan \in 1 .. plans
    BY <1>1 DEF SessionsInv, SessionsKnown, SessionsSound, SeatsAsShown
  <2>2. Known(list[k].seats)' /\ Sound(list[k])'
    BY <2>1, SoundKept
  <2>3. plans \in Nat
    BY DEF SetupTypeOK
  <2>4. list[k].plan \in 1 .. plans'
    BY <2>1, <2>3
  <2>5. QED
    BY <2>1, <2>2, <2>4
<1>3. sessions' = list
  BY <1>1
<1>4. SessionsKnown'
  BY <1>2, <1>3 DEF SessionsKnown, Known
<1>5. SessionsSound'
  BY <1>2, <1>3 DEF SessionsSound, Sound, Level
<1>6. SeatsAsShown'
  BY <1>2, <1>3 DEF SeatsAsShown, AsShown
<1>7. QED
  BY <1>4, <1>5, <1>6 DEF SessionsInv

LEMMA CallStays ==
    ASSUME SetupTypeOK, WaitingSound, Grown, NEW r \in Calls, pending'[r] = pending[r],
           account' => account /\ plans' \in Nat /\ plans <= plans'
    PROVE  CallSound(r)'
<1>1. PICK c : c = pending[r]
  OBVIOUS
<1>2. pending'[r] = c
  BY <1>1
<1>3. CASE c.op = "create"
  <2>1. Sound(c) /\ AsShown(c) /\ Known(c.seats) /\ (account => c.plan \in 1 .. plans)
    BY <1>1, <1>3 DEF WaitingSound, CallSound, At
  <2>2. Known(c.seats)' /\ Sound(c)'
    BY <2>1, SoundKept
  <2>3. account' => c.plan \in 1 .. plans'
    BY <2>1 DEF SetupTypeOK
  <2>4. QED
    BY <1>2, <1>3, <2>1, <2>2, <2>3 DEF CallSound, At, Sound, Level, Known, AsShown
<1>4. CASE c.op = "own"
  BY <1>1, <1>2, <1>4 DEF WaitingSound, CallSound, At
<1>5. CASE c.op \notin {"create", "own"}
  BY <1>2, <1>5 DEF CallSound, At
<1>6. QED
  BY <1>3, <1>4, <1>5

LEMMA SpentKept ==
    ASSUME NEW cands, page'.cands = cands, NamesSpent(cands),
           \A j \in DOMAIN cands : Gender(cands[j].who)' = Gender(cands[j].who)
    PROVE  NamesSpent(page.cands)'
<1>1. ASSUME NEW i \in DOMAIN page'.cands, NEW j \in DOMAIN page'.cands, i < j,
             page'.cands[i].name = page'.cands[j].name
      PROVE  ToSet(NamesOf[Gender(page.cands[j].who)'])
                \subseteq {page'.cands[k].name : k \in 1 .. j - 1}
  <2>1. /\ i \in DOMAIN cands /\ j \in DOMAIN cands
        /\ cands[i].name = cands[j].name /\ page'.cands[j].who = cands[j].who
    BY <1>1
  <2>2. ToSet(NamesOf[Gender(cands[j].who)]) \subseteq {cands[k].name : k \in 1 .. j - 1}
    BY <1>1, <2>1 DEF NamesSpent
  <2>3. Gender(cands[j].who)' = Gender(cands[j].who)
    BY <2>1
  <2>4. Gender(page.cands[j].who)' = Gender(cands[j].who)'
    BY <2>1 DEF Gender
  <2>5. {cands[k].name : k \in 1 .. j - 1} = {page'.cands[k].name : k \in 1 .. j - 1}
    OBVIOUS
  <2>6. QED
    BY <2>2, <2>3, <2>4, <2>5
<1>2. QED
  BY <1>1 DEF NamesSpent

LEMMA PageStays ==
    ASSUME SetupTypeOK, PageInv, Grown, page'.cands = page.cands, account' => account,
           page.gone \subseteq page'.gone,
           account' => \A o \in own : o \in own' \/ o.id \in page'.gone
    PROVE  PageInv'
<1>1. PICK cands \in Seq(Shown) : cands = page.cands
  BY DEF SetupTypeOK
<1>2. page'.cands = cands
  BY <1>1
<1>3. ASSUME NEW i \in DOMAIN cands
      PROVE  Leads(cands[i])'
  <2>1. PICK c : c = cands[i]
    OBVIOUS
  <2>2. Leads(c)
    BY <1>1, <2>1 DEF PageInv, PageLeads
  <2>3. c.who \in OwnNumbers => c.who \in OwnNumbers'
    BY SameStudent
  <2>4. QED
    BY <2>1, <2>2, <2>3 DEF Leads
<1>4. PageLeads'
  BY <1>2, <1>3 DEF PageLeads, Leads
<1>5. \A i \in DOMAIN cands : Gender(cands[i].who)' = Gender(cands[i].who)
  <2> TAKE i \in DOMAIN cands
  <2>1. PICK c \in Shown : c = cands[i]
    OBVIOUS
  <2>2. Leads(c)
    BY <1>1, <2>1 DEF PageInv, PageLeads
  <2>3. c.who \in Records \cup OwnNumbers
    <3>1. c.ref.source = "dataset" \/ c.ref.source = "custom"
      BY RefSplit DEF Shown
    <3>2. QED
      BY <2>2, <3>1 DEF Leads
  <2>4. QED
    BY <2>1, <2>3, SameStudent
<1>6. NamesSpent(cands)
  BY <1>1 DEF PageInv
<1>7. NamesSpent(page.cands)'
  BY <1>2, <1>5, <1>6, SpentKept
<1>8. QED
  BY <1>4, <1>7 DEF PageInv

LEMMA Unborn == SetupTypeOK /\ born' = born => Grown
BY DEF SetupTypeOK, Grown

LEMMA EmptyCall == NotWaiting \in Call /\ Phases(0, 0, 0, None) \in SomePhases
<1>1. Phases(0, 0, 0, None) \in SomePhases
  BY DEF Phases, SomePhases, None
<1>2. <<>> \in Seq(Seat) /\ <<>> \in Seq(Shown)
  OBVIOUS
<1>3. QED
  BY <1>1, <1>2 DEF NotWaiting, Call

\* A request changes; the others do not.
LEMMA OneChanges ==
    ASSUME SetupTypeOK, NEW r \in Calls, NEW c \in Call, pending' = [pending EXCEPT ![r] = c]
    PROVE  /\ pending' \in [Calls -> Call] /\ pending'[r] = c
           /\ \A q \in Calls : q # r => pending'[q] = pending[q]
BY DEF SetupTypeOK

LEMMA WaitersStay ==
    ASSUME SetupTypeOK, WaitingSound, Grown,
           NEW r \in Calls, \A q \in Calls : q # r => pending'[q] = pending[q],
           account' => account /\ plans' \in Nat /\ plans <= plans', CallSound(r)'
    PROVE  WaitingSound'
<1>1. ASSUME NEW q \in Calls, q # r
      PROVE  CallSound(q)'
  BY <1>1, CallStays
<1>2. QED
  BY <1>1 DEF WaitingSound, CallSound

LEMMA Answered ==
    ASSUME SetupTypeOK, WaitingSound, Grown, NEW r \in Calls, Answer(r),
           account' => account /\ plans' \in Nat /\ plans <= plans'
    PROVE  pending' \in [Calls -> Call] /\ WaitingSound'
<1>1. /\ pending' \in [Calls -> Call] /\ pending'[r] = NotWaiting
      /\ \A q \in Calls : q # r => pending'[q] = pending[q]
  BY EmptyCall, OneChanges DEF Answer
<1>2. CallSound(r)'
  BY <1>1 DEF CallSound, At, NotWaiting
<1>3. WaitingSound'
  BY <1>1, <1>2, WaitersStay
<1>4. QED
  BY <1>1, <1>3

LEMMA AllWaitersStay ==
    ASSUME SetupTypeOK, WaitingSound, Grown, pending' = pending,
           account' => account /\ plans' \in Nat /\ plans <= plans'
    PROVE  WaitingSound'
<1>1. ASSUME NEW q \in Calls
      PROVE  CallSound(q)'
  BY CallStays
<1>2. QED
  BY <1>1 DEF WaitingSound, CallSound

-----------------------------------------------------------------------------
(* A creation begins.                                                      *)

\* A class that can be taught, n seats.
Teaches(seats, n) ==
    /\ seats \in [1 .. n -> Seat]
    /\ \A i, j \in 1 .. n : i # j => seats[i].who # seats[j].who /\ seats[i].name # seats[j].name
    /\ \A i \in 1 .. n : /\ seats[i].level = Level(seats[i].who)
                         /\ seats[i].who \in Records \cup OwnNumbers

\* The class asked for.
Matches(seats, shown, gone, n) ==
    /\ shown \in Seq(Shown) /\ gone \in SUBSET Nat
    /\ shown # <<>> =>
          /\ Len(shown) = n
          /\ \A i \in 1 .. n :
                /\ seats[i].name = shown[i].name
                /\ \/ seats[i].who = shown[i].who
                   \/ shown[i].ref.source = "custom" /\ shown[i].ref.id \in gone

LEMMA BeginStep ==
    ASSUME SetupInv, NEW r \in Calls, MayBegin(r), NEW n \in MinPersonas .. AbsoluteMax,
           NEW seats, Teaches(seats, n), NEW shown, NEW gone, Matches(seats, shown, gone, n),
           Begin(r, seats, shown, gone)
    PROVE  SetupInv'
<1>1. PICK c : c = [op |-> "create", plan |-> plans, seats |-> seats, phases |-> page.phases,
                    shown |-> shown, gone |-> gone, profile |-> <<>>]
  OBVIOUS
<1>2. /\ pending' = [pending EXCEPT ![r] = c]
      /\ UNCHANGED <<account, plans, own, born, setting, sessions, page>>
  BY <1>1 DEF Begin
<1>3. n \in Nat /\ seats \in Seq(Seat) /\ Len(seats) = n /\ DOMAIN seats = 1 .. n
  <2>1. n \in Nat /\ seats \in [1 .. n -> Seat]
    BY DEF Teaches
  <2>2. QED
    BY <2>1
<1>4. c \in Call
  <2>1. page.phases \in SomePhases /\ plans \in Nat
    BY DEF SetupInv, SetupTypeOK
  <2>2. shown \in Seq(Shown) /\ gone \in SUBSET Nat
    BY DEF Matches
  <2>3. QED
    BY <1>1, <1>3, <2>1, <2>2 DEF Call
<1>5. /\ SetupTypeOK /\ WaitingSound /\ SessionsInv /\ PageInv /\ PhasesFit /\ OwnApart
  BY DEF SetupInv
<1>6. /\ pending' \in [Calls -> Call] /\ pending'[r] = c
      /\ \A q \in Calls : q # r => pending'[q] = pending[q]
  BY <1>2, <1>4, <1>5, OneChanges
<1>7. Grown
  BY <1>2, <1>5, Unborn
<1>8. account' = account /\ plans' = plans /\ own' = own /\ born' = born /\ setting' = setting
      /\ sessions' = sessions /\ page' = page
  BY <1>2
<1>9. plans' \in Nat /\ plans <= plans' /\ plans' > 0
  BY <1>5, <1>8 DEF SetupTypeOK, MayBegin
<1>10. CallSound(r)'
  <2>1. /\ c.op = "create" /\ c.plan = plans /\ c.seats = seats /\ c.phases = page.phases
        /\ c.shown = shown /\ c.gone = gone
    BY <1>1
  <2>2. Accepted(c.phases)
    BY <2>1 DEF MayBegin
  <2>3. \A i \in 1 .. n : Level(seats[i].who)' = Level(seats[i].who)
    BY <1>8 DEF Level
  <2>4. \A i \in 1 .. n : seats[i].name \in Names
    BY DEF Teaches, Seat
  <2>5. Sound(c)'
    <3>1. \A i \in 1 .. n : seats[i].level = Level(seats[i].who)'
      BY <2>3 DEF Teaches
    <3>2. \A i, j \in 1 .. n : i # j =>
             seats[i].who # seats[j].who /\ seats[i].name # seats[j].name
      BY DEF Teaches
    <3>3. Len(c.seats) \in MinPersonas .. AbsoluteMax /\ DOMAIN c.seats = 1 .. n
      BY <1>3, <2>1
    <3>4. QED
      BY <2>1, <2>2, <2>4, <3>1, <3>2, <3>3 DEF Sound, Level
  <2>6. AsShown(c)
    BY <1>3, <2>1 DEF AsShown, Matches
  <2>7. Known(c.seats)'
    BY <1>3, <1>8, <2>1 DEF Known, Teaches, OwnNumbers
  <2>8. c.plan \in 1 .. plans'
    BY <1>8, <1>9, <2>1
  <2>9. QED
    BY <1>6, <2>1, <2>5, <2>6, <2>7, <2>8 DEF CallSound, At, Sound, Level, AsShown, Known
<1>11. WaitingSound'
  BY <1>5, <1>6, <1>7, <1>8, <1>9, <1>10, WaitersStay
<1>12. SessionsInv'
  BY <1>5, <1>7, <1>8, <1>9, SessionsStay
<1>13. PageInv'
  BY <1>5, <1>7, <1>8, PageStays
<1>14. PhasesFit' /\ OwnApart'
  BY <1>5, <1>8 DEF PhasesFit, OwnApart, OwnNumbers
<1>15. SetupTypeOK'
  BY <1>5, <1>6, <1>8 DEF SetupTypeOK
<1>16. QED
  BY <1>11, <1>12, <1>13, <1>14, <1>15 DEF SetupInv

LEMMA SeatedTeaches ==
    ASSUME NEW n, NEW picks, NEW seats, Seated(seats, picks, n)
    PROVE  Teaches(seats, n)
BY DEF Seated, Teaches, Sits

LEMMA StartStep ==
    ASSUME SetupInv, NEW r \in Calls, NEW chosen \in Ticked, Start(r, chosen)
    PROVE  SetupInv'
<1>1. SetupTypeOK /\ OwnApart /\ PageLeads
  BY DEF SetupInv, PageInv
<1>2. PICK cands \in Seq(Shown) : cands = page.cands
  BY <1>1 DEF SetupTypeOK
<1>3. chosen \in SUBSET Int /\ IsFiniteSet(chosen) /\ chosen \subseteq DOMAIN cands
  <2>1. chosen \subseteq DOMAIN cands
    BY <1>2 DEF Ticked, kSubset
  <2>2. DOMAIN cands = 1 .. Len(cands) /\ Len(cands) \in Nat
    OBVIOUS
  <2>3. IsFiniteSet(DOMAIN cands)
    BY <2>2, FS_Interval
  <2>4. IsFiniteSet(chosen)
    BY <2>1, <2>3, FS_Subset
  <2>5. QED
    BY <2>1, <2>2, <2>4
<1>4. PICK order : order = InOrder(chosen)
  OBVIOUS
<1>5. PICK n \in Nat : n = Cardinality(chosen) /\ order \in [1 .. n -> chosen]
  BY <1>3, <1>4, InOrderLists DEF Lists
<1>6. PICK picks : picks = [k \in DOMAIN order |-> page.cands[order[k]]]
  OBVIOUS
<1>7. MayBegin(r) /\ Acceptable(picks) /\ Begin(r, Seats(picks), picks, page.gone)
  BY <1>4, <1>6 DEF Start
<1>8. picks \in [1 .. n -> Shown] /\ \A i \in 1 .. n : Leads(picks[i])
  <2>1. ASSUME NEW i \in 1 .. n
        PROVE  picks[i] \in Shown /\ Leads(picks[i])
    <3>1. order[i] \in DOMAIN cands /\ picks[i] = cands[order[i]]
      BY <1>2, <1>3, <1>5, <1>6
    <3>2. QED
      BY <1>1, <1>2, <3>1 DEF PageLeads
  <2>2. DOMAIN order = 1 .. n
    BY <1>5
  <2>3. QED
    BY <1>6, <2>1, <2>2
<1>9. picks \in Seq(Shown) /\ Len(picks) = n /\ DOMAIN picks = 1 .. n
  BY <1>8
<1>10. Picks(picks, n)
  <2>1. ASSUME NEW i \in 1 .. n
        PROVE  /\ picks[i].ref \in Ref
               /\ picks[i].ref.source = "dataset" => picks[i].ref = RecordRef(picks[i].ref.id)
    <3>1. picks[i] \in Shown /\ Leads(picks[i])
      BY <1>8
    <3>2. RecordRef(picks[i].who).id = picks[i].who
      BY DEF RecordRef
    <3>3. QED
      BY <3>1, <3>2 DEF Shown, Leads
  <2>2. QED
    BY <1>9, <2>1 DEF Picks
<1>11. PICK seats : seats = Seats(picks)
  OBVIOUS
<1>12. Seated(seats, picks, n)
  BY <1>1, <1>7, <1>10, <1>11, SeatsRight
<1>13. Matches(seats, picks, page.gone, n)
  <2>1. ASSUME NEW i \in 1 .. n
        PROVE  /\ seats[i].name = picks[i].name
               /\ \/ seats[i].who = picks[i].who
                  \/ picks[i].ref.source = "custom" /\ picks[i].ref.id \in page.gone
    <3>1. Sits(seats[i], picks[i]) /\ Leads(picks[i]) /\ account
      BY <1>7, <1>8, <1>12 DEF Seated, MayBegin
    <3>2. seats[i].name = picks[i].name
      BY <3>1 DEF Sits
    <3>3. CASE picks[i].ref.source = "dataset"
      <4>1. picks[i].ref = RecordRef(picks[i].who) /\ seats[i].who = picks[i].ref.id
        BY <3>1, <3>3 DEF Sits, Leads
      <4>2. QED
        BY <3>2, <4>1 DEF RecordRef
    <3>4. CASE picks[i].ref.source = "custom" /\ picks[i].ref.id \notin page.gone
      <4>1. PICK o \in own, p \in own : /\ o.id = picks[i].ref.id /\ o.who = seats[i].who
                                        /\ p.id = picks[i].ref.id /\ p.who = picks[i].who
        BY <3>1, <3>4 DEF Sits, Leads
      <4>2. o = p
        BY <1>1, <4>1 DEF OwnApart
      <4>3. QED
        BY <3>2, <4>1, <4>2
    <3>5. picks[i].ref.source = "dataset" \/ picks[i].ref.source = "custom"
      BY <1>8, RefSplit DEF Shown
    <3>6. QED
      BY <3>2, <3>3, <3>4, <3>5
  <2>2. page.gone \in SUBSET Nat
    BY <1>1 DEF SetupTypeOK
  <2>3. QED
    BY <1>9, <2>1, <2>2 DEF Matches
<1>14. n \in MinPersonas .. AbsoluteMax
  BY <1>7, <1>9 DEF Acceptable
<1>15. Teaches(seats, n)
  BY <1>12, SeatedTeaches
<1>16. QED
  BY <1>7, <1>11, <1>13, <1>14, <1>15, BeginStep

LEMMA OddOnes ==
    ASSUME NEW picks \in OddPicks
    PROVE  Picks(picks, 2)
<1> DEFINE refs == {RecordRef(1), OwnRef(1), OwnRef(2), [OwnRef(1) EXCEPT !.plain = FALSE]}
           names == {NamesOf[g][1] : g \in DOMAIN NamesOf} \cup {"nobody"}
           asked == {[ref |-> x, name |-> n] : x \in refs, n \in names}
<1>1. \A ref \in refs : ref \in Ref /\ (ref.source = "dataset" => ref = RecordRef(ref.id))
  <2>1. RecordRef(1) \in Ref /\ RecordRef(1).id = 1
    BY DEF RecordRef, Ref
  <2>2. \A k \in Nat : OwnRef(k) \in Ref /\ OwnRef(k).source = "custom"
    BY DEF OwnRef, Ref
  <2>3. PICK odd : odd = [OwnRef(1) EXCEPT !.plain = FALSE]
    OBVIOUS
  <2>4. odd = [source |-> "custom", id |-> 1, plain |-> FALSE]
    BY <2>3 DEF OwnRef
  <2>5. odd \in Ref /\ odd.source = "custom"
    BY <2>4 DEF Ref
  <2>6. 1 \in Nat /\ 2 \in Nat
    OBVIOUS
  <2>7. QED
    BY <2>1, <2>2, <2>3, <2>5, <2>6
<1>2. OddPicks = {<<p, q>> : p \in asked, q \in asked}
  BY DEF OddPicks
<1> HIDE DEF names, refs
<1>3. PICK p \in asked, q \in asked : picks = <<p, q>>
  BY <1>2
<1>4. p.ref \in refs /\ q.ref \in refs
  OBVIOUS
<1>5. DOMAIN picks = 1 .. 2 /\ Len(picks) = 2 /\ picks[1] = p /\ picks[2] = q
  BY <1>3
<1>6. \A i \in 1 .. 2 : picks[i].ref \in refs
  BY <1>4, <1>5
<1>7. QED
  BY <1>1, <1>5, <1>6 DEF Picks

LEMMA StartOtherStep ==
    ASSUME SetupInv, NEW r \in Calls, NEW picks \in OddPicks, StartOther(r, picks)
    PROVE  SetupInv'
<1>1. SetupTypeOK /\ OwnApart
  BY DEF SetupInv
<1>2. Picks(picks, 2) /\ DOMAIN picks = 1 .. 2 /\ Len(picks) = 2
  BY OddOnes DEF Picks
<1>3. PICK seats, shown : /\ seats = Seats(picks)
                          /\ shown = [i \in 1 .. 2 |->
                                Candidate(picks[i].ref, WhoIs(picks[i].ref), picks[i].name)]
  OBVIOUS
<1>4. MayBegin(r) /\ Acceptable(picks) /\ Begin(r, seats, shown, {})
  BY <1>2, <1>3 DEF StartOther
<1>5. Seated(seats, picks, 2)
  BY <1>1, <1>2, <1>3, <1>4, SeatsRight
<1>6. ASSUME NEW i \in 1 .. 2
      PROVE  /\ shown[i] \in Shown
             /\ seats[i].name = shown[i].name /\ seats[i].who = shown[i].who
  <2>1. Sits(seats[i], picks[i])
    BY <1>5 DEF Seated
  <2>2. seats[i].who = WhoIs(picks[i].ref)
    <3>1. CASE picks[i].ref.source = "dataset"
      BY <2>1, <3>1 DEF Sits, WhoIs
    <3>2. CASE picks[i].ref.source = "custom"
      <4>1. PICK o \in own : o.id = picks[i].ref.id /\ o.who = seats[i].who
        BY <2>1, <3>2 DEF Sits
      <4>2. OwnWith(picks[i].ref.id) = o
        BY <1>1, <4>1, OwnById
      <4>3. QED
        BY <3>2, <4>1, <4>2 DEF WhoIs
    <3>3. QED
      BY <1>2, <3>1, <3>2, RefSplit DEF Picks
  <2>3. shown[i] = [ref |-> picks[i].ref, who |-> seats[i].who, name |-> picks[i].name]
    BY <1>3, <2>2 DEF Candidate
  <2>4. seats[i] \in Seat /\ seats[i].name = picks[i].name /\ picks[i].ref \in Ref
    BY <1>2, <2>1 DEF Sits, Picks
  <2>5. QED
    BY <2>3, <2>4 DEF Seat, Shown
<1>7. shown \in Seq(Shown) /\ Len(shown) = 2
  <2>1. PICK n \in Nat : n = 2
    OBVIOUS
  <2>2. shown \in [1 .. n -> Shown]
    BY <1>3, <1>6, <2>1
  <2>3. shown \in Seq(Shown) /\ Len(shown) = n
    BY <2>2
  <2>4. QED
    BY <2>1, <2>3
<1>8. Matches(seats, shown, {}, 2)
  BY <1>6, <1>7 DEF Matches
<1>9. 2 \in MinPersonas .. AbsoluteMax
  OBVIOUS
<1>10. Teaches(seats, 2)
  BY <1>5, SeatedTeaches
<1>11. QED
  BY <1>4, <1>8, <1>9, <1>10, BeginStep

LEMMA StartRandomStep ==
    ASSUME SetupInv, NEW r \in Calls, NEW level \in Filters, NEW n \in MinPersonas .. AbsoluteMax,
           NEW seed \in Seeds, StartRandom(r, level, n, seed)
    PROVE  SetupInv'
<1>1. PICK class \in Classes[level][n][seed] :
         Begin(r, [i \in DOMAIN class.records |->
                      [ref |-> RecordRef(class.records[i]), who |-> class.records[i],
                       name |-> class.names[i], level |-> LevelOf[class.records[i]]]], <<>>, {})
  BY DEF StartRandom
<1>2. Class(class, n)
  BY ClassesApart
<1>3. PICK seats : seats = [i \in 1 .. n |->
         [ref |-> RecordRef(class.records[i]), who |-> class.records[i],
          name |-> class.names[i], level |-> LevelOf[class.records[i]]]]
  OBVIOUS
<1>4. MayBegin(r) /\ Begin(r, seats, <<>>, {})
  BY <1>1, <1>2, <1>3 DEF StartRandom, Class
<1>5. ASSUME NEW i \in 1 .. n
      PROVE  /\ seats[i] \in Seat /\ seats[i].who = class.records[i]
             /\ seats[i].name = class.names[i]
             /\ seats[i].level = Level(seats[i].who) /\ seats[i].who \in Records
  <2>1. class.records[i] \in Records /\ class.names[i] \in Names
    BY <1>2 DEF Class
  <2>2. /\ class.records[i] \in Nat /\ LevelOf[class.records[i]] \in ToSet(Levels)
        /\ LevelOf[class.records[i]] = Level(class.records[i])
    <3>1. PICK k \in Nat : Records = 1 .. k
      OBVIOUS
    <3>2. QED
      BY <2>1, <3>1 DEF Level
  <2>3. RecordRef(class.records[i]) \in Ref
    BY <2>2 DEF RecordRef, Ref
  <2>4. QED
    BY <1>3, <2>1, <2>2, <2>3 DEF Seat
<1>6. Teaches(seats, n)
  <2>1. seats \in [1 .. n -> Seat]
    BY <1>3, <1>5
  <2>2. ASSUME NEW i \in 1 .. n, NEW j \in 1 .. n, i # j
        PROVE  seats[i].who # seats[j].who /\ seats[i].name # seats[j].name
    <3>1. class.records[i] # class.records[j] /\ class.names[i] # class.names[j]
      BY <1>2, <2>2 DEF Class, Apart
    <3>2. QED
      BY <1>5, <3>1
  <2>3. QED
    BY <1>5, <2>1, <2>2 DEF Teaches
<1>7. Matches(seats, <<>>, {}, n)
  BY DEF Matches
<1>8. QED
  BY <1>4, <1>6, <1>7, BeginStep

-----------------------------------------------------------------------------
(* The other steps.                                                        *)

\* What most steps leave alone.
LEMMA Rest ==
    ASSUME SetupInv, born' = born, own' = own, account' = account, sessions' = sessions,
           plans' \in Nat, plans <= plans'
    PROVE  SessionsInv' /\ OwnApart'
<1>1. /\ SetupTypeOK /\ SessionsInv /\ OwnApart
  BY DEF SetupInv
<1>2. Grown
  BY <1>1, Unborn
<1>3. SessionsInv'
  BY <1>1, <1>2, SessionsStay
<1>4. OwnApart'
  BY <1>1 DEF OwnApart, OwnNumbers
<1>5. QED
  BY <1>3, <1>4

\* A page with the same students is as good.
LEMMA SameStudents ==
    ASSUME SetupInv, born' = born, own' = own, account' = account,
           page'.cands = page.cands, page'.gone = page.gone
    PROVE  PageInv'
<1>1. SetupTypeOK /\ PageInv
  BY DEF SetupInv
<1>2. Grown
  BY <1>1, Unborn
<1>3. QED
  BY <1>1, <1>2, PageStays

LEMMA LoadStep ==
    ASSUME SetupInv, NEW level \in Filters, NEW seed \in Seeds, LoadCandidates(level, seed)
    PROVE  SetupInv'
<1>1. SetupTypeOK /\ OwnApart /\ WaitingSound /\ PhasesFit
  BY DEF SetupInv
<1>2. PICK students : students = Ordered(own, [o \in own |-> o.id])
  OBVIOUS
<1>3. PICK n \in Nat : n = Cardinality(own) /\ students \in [1 .. n -> own]
  <2>1. PICK key \in [own -> Int] : key = [o \in own |-> o.id]
    <3>1. \A o \in own : o.id \in Int
      BY <1>1 DEF SetupTypeOK, Own
    <3>2. [o \in own |-> o.id] \in [own -> Int]
      BY <3>1
    <3>3. QED
      BY <3>2
  <2>2. IsFiniteSet(own) /\ \A x, y \in own : key[x] = key[y] => x = y
    BY <1>1, <2>1 DEF SetupTypeOK, OwnApart
  <2>3. Cardinality(own) \in Nat /\ Lists(Ordered(own, key), own)
    BY <2>2, OrderedList
  <2>4. QED
    BY <1>2, <2>1, <2>3 DEF Lists
<1>4. PICK class \in Classes[level][AbsoluteMax][seed] :
         \E names \in OwnNames(students, class.names) :
            page' = [page EXCEPT !.cands = Candidates(class, students, names), !.gone = {}]
  BY <1>2 DEF LoadCandidates
<1>5. PICK names \in OwnNames(students, class.names) :
         page' = [page EXCEPT !.cands = Candidates(class, students, names), !.gone = {}]
  BY <1>4
<1>6. PICK m \in Nat : m = AbsoluteMax /\ m \in MinPersonas .. AbsoluteMax
  OBVIOUS
<1>7. Class(class, m)
  BY <1>4, <1>6, ClassesApart
<1>8. names \in [1 .. n -> Names]
  BY <1>3 DEF OwnNames
<1>9. PICK cands : cands = Candidates(class, students, names)
  OBVIOUS
<1>10. Offered(cands, class, m, students, names, n)
  BY <1>1, <1>3, <1>7, <1>8, <1>9, CandidatesOffered
<1>11. NamesSpent(cands)
  BY <1>1, <1>3, <1>7, <1>8, <1>10, OfferedSpent
<1>12. /\ page'.cands = cands /\ page'.gone = {} /\ page'.phases = page.phases
       /\ UNCHANGED <<account, plans, own, born, setting, sessions, pending>>
  BY <1>1, <1>5, <1>9 DEF LoadCandidates, SetupTypeOK
<1>13. /\ account' = account /\ plans' = plans /\ own' = own /\ born' = born
       /\ setting' = setting /\ sessions' = sessions /\ pending' = pending
  BY <1>12
<1>14. plans' \in Nat /\ plans <= plans'
  BY <1>1, <1>13 DEF SetupTypeOK
<1>15. SetupTypeOK'
  <2>1. cands \in Seq(Shown)
    BY <1>10 DEF Offered
  <2>2. page' \in [cands : Seq(Shown), gone : SUBSET Nat, phases : SomePhases]
    BY <1>1, <1>5, <1>9, <2>1 DEF SetupTypeOK
  <2>3. QED
    BY <1>1, <1>13, <2>2 DEF SetupTypeOK
<1>16. ASSUME NEW i \in 1 .. m + n
       PROVE  Leads(cands[i])'
  <2>1. CASE i <= m
    <3>1. i \in 1 .. m
      BY <2>1
    <3>2. cands[i] = Candidate(RecordRef(class.records[i]), class.records[i], class.names[i])
      BY <1>10, <3>1 DEF Offered
    <3>3. class.records[i] \in Records
      BY <1>7, <3>1 DEF Class
    <3>4. QED
      BY <3>2, <3>3 DEF Leads, Candidate, RecordRef
  <2>2. CASE i > m
    <3>1. i - m \in 1 .. n /\ i = m + (i - m)
      BY <2>2
    <3>2. PICK o \in own : o = students[i - m]
      BY <1>3, <3>1
    <3>3. cands[i] = Candidate(OwnRef(o.id), o.who, names[i - m])
      BY <1>10, <3>1, <3>2 DEF Offered
    <3>4. o.who \in OwnNumbers'
      BY <1>1, <1>13 DEF OwnApart, OwnNumbers
    <3>5. cands[i].ref = OwnRef(o.id) /\ cands[i].who = o.who /\ cands[i].ref.id = o.id
          /\ cands[i].ref.source = "custom"
      BY <3>3 DEF Candidate, OwnRef
    <3>6. o \in own'
      BY <1>13
    <3>7. QED
      BY <3>4, <3>5, <3>6 DEF Leads
  <2>3. QED
    BY <2>1, <2>2
<1>17. PageInv'
  <2>1. DOMAIN cands = 1 .. m + n
    BY <1>10 DEF Offered
  <2>2. PageLeads'
    BY <1>12, <1>16, <2>1 DEF PageLeads, Leads
  <2>3. \A j \in DOMAIN cands : Gender(cands[j].who)' = Gender(cands[j].who)
    BY <1>13 DEF Gender
  <2>4. NamesSpent(page.cands)'
    BY <1>11, <1>12, <2>3, SpentKept
  <2>5. QED
    BY <2>2, <2>4 DEF PageInv
<1>18. PhasesFit'
  BY <1>1, <1>12 DEF PhasesFit
<1>19. WaitingSound'
  BY <1>1, <1>13, <1>14, Unborn, AllWaitersStay
<1>20. SessionsInv' /\ OwnApart'
  BY <1>13, <1>14, Rest
<1>21. QED
  BY <1>15, <1>17, <1>18, <1>19, <1>20 DEF SetupInv

LEMMA FallbackFits == Fallback \in SomePhases /\ Fits(Fallback)
<1>1. Fallback = [count |-> 3, name |-> 1, question |-> 0, minutes |-> None]
  BY DEF Fallback, Phases
<1>2. None \in Int
  BY DEF None
<1>3. Fallback \in SomePhases
  BY <1>1, <1>2 DEF SomePhases
<1>4. Fits(Fallback)
  BY <1>1 DEF Fits
<1>5. QED
  BY <1>3, <1>4

LEMMA FitFits ==
    ASSUME NEW p \in Answers, p.count > 2
    PROVE  Fit(p) \in SomePhases /\ Fits(Fit(p))
<1>1. p.count \in Nat /\ p.name \in Nat /\ p.question \in Nat /\ p.minutes \in Int
  OBVIOUS
<1>2. PICK c, n, q, m : /\ c = Least(p.count, MaxPhases) /\ n = Least(p.name, Letters)
                        /\ q = Least(p.question, Letters)
                        /\ m = IF p.minutes \in 0 .. MaxMinutes THEN p.minutes ELSE None
  OBVIOUS
<1>3. c \in Nat /\ c > 0 /\ c <= MaxPhases
  BY <1>1, <1>2 DEF Least
<1>4. n \in Nat /\ n <= Letters /\ q \in Nat /\ q <= Letters
  BY <1>1, <1>2 DEF Least
<1>5. m \in Int /\ (m = None \/ m \in 0 .. MaxMinutes)
  BY <1>1, <1>2 DEF None
<1>6. Fit(p) = [count |-> c, name |-> n, question |-> q, minutes |-> m]
  BY <1>2 DEF Fit, Phases
<1>7. Fit(p) \in SomePhases
  BY <1>3, <1>4, <1>5, <1>6 DEF SomePhases
<1>8. Fits(Fit(p))
  BY <1>3, <1>4, <1>5, <1>6 DEF Fits
<1>9. QED
  BY <1>7, <1>8

\* New phases on the page.
LEMMA NewPhases ==
    ASSUME SetupInv, NEW p \in SomePhases, p.count > 0 => Fits(p),
           page' = [page EXCEPT !.phases = p],
           born' = born, own' = own, account' = account
    PROVE  /\ PageInv' /\ PhasesFit'
           /\ page' \in [cands : Seq(Shown), gone : SUBSET Nat, phases : SomePhases]
<1>1. SetupTypeOK
  BY DEF SetupInv
<1>2. page'.cands = page.cands /\ page'.gone = page.gone /\ page'.phases = p
  BY <1>1 DEF SetupTypeOK
<1>3. page' \in [cands : Seq(Shown), gone : SUBSET Nat, phases : SomePhases]
  BY <1>1 DEF SetupTypeOK
<1>4. PageInv'
  BY <1>2, SameStudents
<1>5. PhasesFit'
  BY <1>2 DEF PhasesFit, Fits
<1>6. QED
  BY <1>3, <1>4, <1>5

LEMMA InheritedFits ==
    ASSUME SetupInv, NEW p \in Inherited(plans)
    PROVE  p \in SomePhases /\ Fits(p)
<1>1. PICK k \in DOMAIN sessions : p = sessions[k].phases
  BY DEF Inherited
<1>2. sessions[k] \in Session
  BY DEF SetupInv, SetupTypeOK
<1>3. Accepted(p)
  BY <1>1 DEF SetupInv, SessionsInv, SessionsSound, Sound
<1>4. QED
  BY <1>1, <1>2, <1>3 DEF Session, Accepted

\* The waiting requests when only what r does changes.
LEMMA Waits ==
    ASSUME SetupInv, born' = born, account' = account, plans' = plans,
           NEW r \in Calls, NEW c \in Call, pending' = [pending EXCEPT ![r] = c],
           c.op # "create", c.op = "own" => c.profile \in Profile
    PROVE  pending' \in [Calls -> Call] /\ WaitingSound'
<1>1. SetupTypeOK /\ WaitingSound
  BY DEF SetupInv
<1>2. Grown
  BY <1>1, Unborn
<1>3. /\ pending' \in [Calls -> Call] /\ pending'[r] = c
      /\ \A q \in Calls : q # r => pending'[q] = pending[q]
  BY <1>1, OneChanges
<1>4. CallSound(r)'
  BY <1>3 DEF CallSound, At
<1>5. plans' \in Nat /\ plans <= plans'
  BY <1>1 DEF SetupTypeOK
<1>6. WaitingSound'
  BY <1>1, <1>2, <1>3, <1>4, <1>5, WaitersStay
<1>7. QED
  BY <1>3, <1>6

LEMMA NoneWaits ==
    ASSUME SetupInv, born' = born, account' = account, plans' \in Nat, plans <= plans',
           pending' = pending
    PROVE  WaitingSound'
<1>1. SetupTypeOK /\ WaitingSound
  BY DEF SetupInv
<1>2. Grown
  BY <1>1, Unborn
<1>3. QED
  BY <1>1, <1>2, AllWaitersStay

LEMMA DraftStep ==
    ASSUME SetupInv, NEW r \in Calls, Draft(r)
    PROVE  SetupInv'
<1>1. SetupTypeOK
  BY DEF SetupInv
<1>2. /\ account' = account /\ plans' = plans /\ own' = own /\ born' = born
      /\ setting' = setting /\ sessions' = sessions
  BY DEF Draft
<1>3. plans' \in Nat /\ plans <= plans'
  BY <1>1, <1>2 DEF SetupTypeOK
<1>4. SessionsInv' /\ OwnApart'
  BY <1>2, <1>3, Rest
<1>5. ASSUME NEW p \in SomePhases, Fits(p), page' = [page EXCEPT !.phases = p], pending' = pending
      PROVE  SetupInv'
  <2>1. /\ PageInv' /\ PhasesFit'
        /\ page' \in [cands : Seq(Shown), gone : SUBSET Nat, phases : SomePhases]
    BY <1>2, <1>5, NewPhases
  <2>2. WaitingSound'
    BY <1>2, <1>3, <1>5, NoneWaits
  <2>3. SetupTypeOK'
    BY <1>1, <1>2, <1>5, <2>1 DEF SetupTypeOK
  <2>4. QED
    BY <1>4, <2>1, <2>2, <2>3 DEF SetupInv
<1>6. CASE \E p \in Inherited(plans) : page' = [page EXCEPT !.phases = p] /\ pending' = pending
  BY <1>5, <1>6, InheritedFits
<1>7. CASE page' = [page EXCEPT !.phases = Fallback] /\ pending' = pending
  BY <1>5, <1>7, FallbackFits
<1>8. CASE pending' = [pending EXCEPT ![r].op = "draft"] /\ page' = page
  <2>1. PICK c : c = [pending[r] EXCEPT !.op = "draft"]
    OBVIOUS
  <2>2. c \in Call /\ c.op = "draft"
    <3>1. pending[r] \in Call
      BY <1>1 DEF SetupTypeOK
    <3>2. QED
      BY <2>1, <3>1 DEF Call
  <2>3. pending' = [pending EXCEPT ![r] = c]
    BY <1>8, <2>1
  <2>4. pending' \in [Calls -> Call] /\ WaitingSound'
    BY <1>2, <2>2, <2>3, Waits
  <2>5. PageInv'
    BY <1>2, <1>8, SameStudents
  <2>6. PhasesFit'
    BY <1>8 DEF SetupInv, PhasesFit
  <2>7. SetupTypeOK'
    BY <1>1, <1>2, <1>8, <2>4 DEF SetupTypeOK
  <2>8. QED
    BY <1>4, <2>4, <2>5, <2>6, <2>7 DEF SetupInv
<1>9. QED
  BY <1>6, <1>7, <1>8 DEF Draft

LEMMA DraftedStep ==
    ASSUME SetupInv, NEW r \in Calls, Drafted(r)
    PROVE  SetupInv'
<1>1. SetupTypeOK
  BY DEF SetupInv
<1>2. /\ account' = account /\ plans' = plans /\ own' = own /\ born' = born
      /\ setting' = setting /\ sessions' = sessions
  BY DEF Drafted
<1>3. plans' \in Nat /\ plans <= plans'
  BY <1>1, <1>2 DEF SetupTypeOK
<1>4. SessionsInv' /\ OwnApart'
  BY <1>2, <1>3, Rest
<1>5. PICK p \in SomePhases : Fits(p) /\ page' = [page EXCEPT !.phases = p]
  BY FallbackFits, FitFits DEF Drafted
<1>6. /\ PageInv' /\ PhasesFit'
      /\ page' \in [cands : Seq(Shown), gone : SUBSET Nat, phases : SomePhases]
  BY <1>2, <1>5, NewPhases
<1>7. pending' \in [Calls -> Call] /\ WaitingSound'
  BY <1>2, EmptyCall, Waits DEF Drafted, Answer, NotWaiting
<1>8. SetupTypeOK'
  BY <1>1, <1>2, <1>6, <1>7 DEF SetupTypeOK
<1>9. QED
  BY <1>4, <1>6, <1>7, <1>8 DEF SetupInv

LEMMA FillStep ==
    ASSUME SetupInv, Fill
    PROVE  SetupInv'
<1>1. SetupTypeOK /\ PhasesFit
  BY DEF SetupInv
<1>2. /\ account' = account /\ plans' = plans /\ own' = own /\ born' = born
      /\ setting' = setting /\ sessions' = sessions /\ pending' = pending
  BY DEF Fill
<1>3. plans' \in Nat /\ plans <= plans'
  BY <1>1, <1>2 DEF SetupTypeOK
<1>4. PICK q \in SomePhases : q = page.phases /\ Fits(q)
  BY <1>1 DEF SetupTypeOK, PhasesFit, Fill
<1>5. PICK p : p = [q EXCEPT !.name = 1, !.question = 1]
  OBVIOUS
<1>6. p = [count |-> q.count, name |-> 1, question |-> 1, minutes |-> q.minutes]
  BY <1>5 DEF SomePhases
<1>7. p \in SomePhases
  BY <1>6 DEF SomePhases
<1>8. Fits(p)
  BY <1>4, <1>6 DEF Fits
<1>9. page' = [page EXCEPT !.phases = p]
  BY <1>1, <1>4, <1>5 DEF Fill, SetupTypeOK
<1>10. /\ PageInv' /\ PhasesFit'
       /\ page' \in [cands : Seq(Shown), gone : SUBSET Nat, phases : SomePhases]
  BY <1>2, <1>7, <1>8, <1>9, NewPhases
<1>11. WaitingSound'
  BY <1>2, <1>3, NoneWaits
<1>12. SessionsInv' /\ OwnApart'
  BY <1>2, <1>3, Rest
<1>13. SetupTypeOK'
  BY <1>1, <1>2, <1>10 DEF SetupTypeOK
<1>14. QED
  BY <1>10, <1>11, <1>12, <1>13 DEF SetupInv

LEMMA AskOwnStep ==
    ASSUME SetupInv, NEW r \in Calls, AskOwn(r)
    PROVE  SetupInv'
<1>1. SetupTypeOK
  BY DEF SetupInv
<1>2. /\ account' = account /\ plans' = plans /\ own' = own /\ born' = born
      /\ setting' = setting /\ sessions' = sessions /\ page' = page
  BY DEF AskOwn
<1>3. plans' \in Nat /\ plans <= plans'
  BY <1>1, <1>2 DEF SetupTypeOK
<1>4. PICK made : /\ made = Len(born) + Cardinality(InFlight("own")) /\ made < Len(Profiles)
                  /\ pending' = [pending EXCEPT ![r].op = "own",
                                                ![r].profile = Profiles[made + 1]]
  BY DEF AskOwn
<1>5. made \in Nat
  <2>1. InFlight("own") \subseteq Calls
    BY DEF InFlight
  <2>2. Cardinality(InFlight("own")) \in Nat
    BY <2>1, FS_Subset, FS_CardinalityType
  <2>3. Len(born) \in Nat
    BY <1>1 DEF SetupTypeOK
  <2>4. QED
    BY <1>4, <2>2, <2>3
<1>6. PICK profile \in Profile : profile = Profiles[made + 1]
  <2>1. made + 1 \in 1 .. Len(Profiles)
    BY <1>4, <1>5
  <2>2. QED
    BY <2>1
<1>7. PICK c : c = [pending[r] EXCEPT !.op = "own", !.profile = profile]
  OBVIOUS
<1>8. c \in Call /\ c.op = "own" /\ c.profile \in Profile
  <2>1. pending[r] \in Call
    BY <1>1 DEF SetupTypeOK
  <2>2. QED
    BY <1>7, <2>1 DEF Call
<1>9. pending' = [pending EXCEPT ![r] = c]
  BY <1>1, <1>4, <1>6, <1>7 DEF SetupTypeOK
<1>10. pending' \in [Calls -> Call] /\ WaitingSound'
  BY <1>2, <1>8, <1>9, Waits
<1>11. PageInv'
  BY <1>2, SameStudents
<1>12. PhasesFit'
  BY <1>2 DEF SetupInv, PhasesFit
<1>13. SetupTypeOK'
  BY <1>1, <1>2, <1>10 DEF SetupTypeOK
<1>14. SessionsInv' /\ OwnApart'
  BY <1>2, <1>3, Rest
<1>15. QED
  BY <1>10, <1>11, <1>12, <1>13, <1>14 DEF SetupInv

\* The next id is of none of her own students.
LEMMA FreshId ==
    ASSUME SetupTypeOK, OwnApart, NEW i \in NextIds
    PROVE  i \in 1 .. Len(born) + 1 /\ \A o \in own : o.id # i
<1>1. PICK n \in Nat : n = Len(born)
  BY DEF SetupTypeOK
<1>2. \A o \in own : o.id \in 1 .. n
  BY <1>1 DEF OwnApart
<1>3. PICK ids : ids = {0} \cup {o.id : o \in own}
  OBVIOUS
<1>4. ids \subseteq 0 .. n
  BY <1>2, <1>3
<1>5. IsFiniteSet(ids) /\ ids \in SUBSET Int /\ ids # {}
  <2>1. IsFiniteSet(0 .. n)
    BY FS_Interval
  <2>2. IsFiniteSet(ids)
    BY <1>4, <2>1, FS_Subset
  <2>3. QED
    BY <1>3, <1>4, <2>2
<1>6. PICK top : top = Max(ids)
  OBVIOUS
<1>7. top \in ids /\ \A y \in ids : y <= top
  BY <1>5, <1>6, MaxOfFinite
<1>8. i = 1 + top \/ i = 1 + n
  BY <1>1, <1>3, <1>6 DEF NextIds
<1>9. \A o \in own : o.id \in ids
  BY <1>3
<1>10. top \in 0 .. n
  BY <1>4, <1>7
<1>11. QED
  BY <1>1, <1>2, <1>7, <1>8, <1>9, <1>10

LEMMA StoreOwnStep ==
    ASSUME SetupInv, NEW r \in Calls, StoreOwn(r)
    PROVE  SetupInv'
<1>1. SetupTypeOK /\ OwnApart /\ WaitingSound /\ SessionsInv /\ PageInv /\ PhasesFit
  BY DEF SetupInv
<1>2. /\ account' = account /\ plans' = plans
      /\ setting' = setting /\ sessions' = sessions /\ page' = page
  BY DEF StoreOwn
<1>3. plans' \in Nat /\ plans <= plans'
  BY <1>1, <1>2 DEF SetupTypeOK
<1>4. PICK n \in Nat : n = Len(born)
  BY <1>1 DEF SetupTypeOK
<1>5. PICK profile \in Profile : born' = Append(born, profile)
  BY <1>1 DEF StoreOwn, WaitingSound, CallSound
<1>6. /\ born' \in Seq(Profile) /\ Len(born') = n + 1
      /\ \A k \in 1 .. n : born'[k] = born[k]
  BY <1>1, <1>4, <1>5, AppendProperties DEF SetupTypeOK
<1>7. Grown
  BY <1>1, <1>4, <1>6 DEF Grown, SetupTypeOK
<1>8. PICK i \in NextIds : own' = own \cup {[id |-> i, who |-> OwnNumber(n + 1)]}
  BY <1>6 DEF StoreOwn
<1>9. PICK new : new = [id |-> i, who |-> OwnNumber(n + 1)] /\ own' = own \cup {new}
  BY <1>8
<1>10. i \in 1 .. n + 1 /\ \A o \in own : o.id # i
  BY <1>1, <1>4, FreshId
<1>11. \A k \in 1 .. n + 1 : OwnNumber(k) \in OwnNumbers'
  BY <1>6 DEF OwnNumbers
<1>12. n + 1 \in 1 .. n + 1
  OBVIOUS
<1>13. \A o \in own : o.who # new.who
  <2>1. PICK m \in Nat : m = Cardinality(Records)
    OBVIOUS
  <2>2. new.who = m + (n + 1)
    BY <1>9, <2>1 DEF OwnNumber
  <2>3. ASSUME NEW o \in own
        PROVE  o.who # new.who
    <3>1. PICK k \in 1 .. n : o.who = OwnNumber(k)
      BY <1>1, <1>4 DEF OwnApart, OwnNumbers
    <3>2. o.who = m + k
      BY <2>1, <3>1 DEF OwnNumber
    <3>3. QED
      BY <2>2, <3>2
  <2>4. QED
    BY <2>3
<1>14. OwnApart'
  <2>1. ASSUME NEW o \in own'
        PROVE  o.id \in 1 .. Len(born') /\ o.who \in OwnNumbers'
    <3>1. CASE o \in own
      <4>1. o.id \in 1 .. n /\ o.who \in OwnNumbers
        BY <1>1, <1>4, <3>1 DEF OwnApart
      <4>2. PICK k \in 1 .. n : o.who = OwnNumber(k)
        BY <1>4, <4>1 DEF OwnNumbers
      <4>3. k \in 1 .. n + 1 /\ o.id \in 1 .. n + 1
        BY <4>1
      <4>4. QED
        BY <1>6, <1>11, <4>2, <4>3
    <3>2. CASE o = new
      BY <1>6, <1>9, <1>10, <1>11, <1>12, <3>2
    <3>3. QED
      BY <1>9, <3>1, <3>2
  <2>2. ASSUME NEW o \in own', NEW p \in own', o.id = p.id \/ o.who = p.who
        PROVE  o = p
    <3>1. new.id = i
      BY <1>9
    <3>2. CASE o \in own /\ p \in own
      BY <1>1, <2>2, <3>2 DEF OwnApart
    <3>3. CASE o = new /\ p \in own
      BY <1>10, <1>13, <2>2, <3>1, <3>3
    <3>4. CASE o \in own /\ p = new
      BY <1>10, <1>13, <2>2, <3>1, <3>4
    <3>5. QED
      BY <1>9, <3>2, <3>3, <3>4
  <2>3. QED
    BY <2>1, <2>2 DEF OwnApart
<1>15. own' \subseteq Own /\ IsFiniteSet(own')
  <2>1. OwnNumber(n + 1) \in Nat
    BY <1>4 DEF OwnNumber
  <2>2. new \in Own
    BY <1>9, <1>10, <2>1 DEF Own
  <2>3. IsFiniteSet(own \cup {new})
    BY <1>1, FS_AddElement DEF SetupTypeOK
  <2>4. QED
    BY <1>1, <1>9, <2>2, <2>3 DEF SetupTypeOK
<1>16. pending' \in [Calls -> Call] /\ WaitingSound'
  BY <1>1, <1>2, <1>3, <1>7, Answered DEF StoreOwn
<1>17. SessionsInv'
  BY <1>1, <1>2, <1>3, <1>7, SessionsStay
<1>18. PageInv'
  BY <1>1, <1>2, <1>7, <1>9, PageStays
<1>19. PhasesFit'
  BY <1>1, <1>2 DEF PhasesFit
<1>20. SetupTypeOK'
  BY <1>1, <1>2, <1>6, <1>15, <1>16 DEF SetupTypeOK
<1>21. QED
  BY <1>14, <1>16, <1>17, <1>18, <1>19, <1>20 DEF SetupInv

LEMMA DeleteOwnStep ==
    ASSUME SetupInv, NEW o \in own, DeleteOwn(o)
    PROVE  SetupInv'
<1>1. SetupTypeOK /\ OwnApart /\ WaitingSound /\ SessionsInv /\ PageInv /\ PhasesFit
  BY DEF SetupInv
<1>2. /\ account' = account /\ plans' = plans /\ born' = born
      /\ setting' = setting /\ sessions' = sessions /\ pending' = pending
      /\ own' = own \ {o} /\ page' = [page EXCEPT !.gone = @ \cup {o.id}]
  BY DEF DeleteOwn
<1>3. plans' \in Nat /\ plans <= plans' /\ Grown
  <2>1. plans \in Nat
    BY <1>1 DEF SetupTypeOK
  <2>2. Grown
    BY <1>1, <1>2, Unborn
  <2>3. QED
    BY <1>2, <2>1, <2>2
<1>4. /\ page'.cands = page.cands /\ page'.gone = page.gone \cup {o.id}
      /\ page'.phases = page.phases
  BY <1>1, <1>2 DEF SetupTypeOK
<1>5. OwnApart'
  BY <1>1, <1>2 DEF OwnApart, OwnNumbers
<1>6. PageInv'
  <2>1. \A p \in own : p \in own' \/ p.id \in page'.gone
    BY <1>2, <1>4
  <2>2. page.gone \subseteq page'.gone
    BY <1>4
  <2>3. QED
    BY <1>1, <1>2, <1>3, <1>4, <2>1, <2>2, PageStays
<1>7. PhasesFit'
  BY <1>1, <1>4 DEF PhasesFit
<1>8. SetupTypeOK'
  <2>1. o.id \in Nat
    BY <1>1 DEF SetupTypeOK, Own
  <2>2. page' \in [cands : Seq(Shown), gone : SUBSET Nat, phases : SomePhases]
    BY <1>1, <1>2, <2>1 DEF SetupTypeOK
  <2>3. IsFiniteSet(own \ {o}) /\ own \ {o} \subseteq Own
    BY <1>1, FS_Subset DEF SetupTypeOK
  <2>4. QED
    BY <1>1, <1>2, <2>2, <2>3 DEF SetupTypeOK
<1>9. WaitingSound'
  BY <1>2, <1>3, NoneWaits
<1>10. SessionsInv'
  BY <1>1, <1>2, <1>3, SessionsStay
<1>11. QED
  BY <1>5, <1>6, <1>7, <1>8, <1>9, <1>10 DEF SetupInv

LEMMA StoreStep ==
    ASSUME SetupInv, NEW r \in Calls, Store(r)
    PROVE  SetupInv'
<1>1. SetupTypeOK /\ OwnApart /\ WaitingSound /\ SessionsInv /\ PageInv /\ PhasesFit
  BY DEF SetupInv
<1>2. /\ account' = account /\ plans' = plans /\ own' = own /\ born' = born
      /\ setting' = setting /\ page' = page
  BY DEF Store
<1>3. plans' \in Nat /\ plans <= plans' /\ Grown
  BY <1>1, <1>2, Unborn DEF SetupTypeOK
<1>4. PICK c \in Call : c = pending[r]
  BY <1>1 DEF SetupTypeOK
<1>5. PICK s : s = [plan |-> c.plan, seats |-> c.seats, phases |-> c.phases,
                    shown |-> c.shown, gone |-> c.gone]
  OBVIOUS
<1>6. sessions' = Append(sessions, s) /\ account
  BY <1>4, <1>5 DEF Store
<1>7. /\ Sound(c) /\ AsShown(c) /\ Known(c.seats) /\ c.plan \in 1 .. plans
  BY <1>1, <1>4, <1>6 DEF WaitingSound, CallSound, Store
<1>8. /\ s.plan = c.plan /\ s.seats = c.seats /\ s.phases = c.phases
      /\ s.shown = c.shown /\ s.gone = c.gone
  BY <1>5
<1>9. s \in Session
  BY <1>5 DEF Session, Call
<1>10. PICK n \in Nat : n = Len(sessions) /\ DOMAIN sessions = 1 .. n
  <2>1. sessions \in Seq(Session)
    BY <1>1 DEF SetupTypeOK
  <2>2. Len(sessions) \in Nat /\ DOMAIN sessions = 1 .. Len(sessions)
    BY <2>1
  <2>3. QED
    BY <2>2
<1>11. /\ sessions' \in Seq(Session) /\ Len(sessions') = n + 1
       /\ \A k \in 1 .. n : sessions'[k] = sessions[k]
       /\ sessions'[n + 1] = s
  BY <1>1, <1>6, <1>9, <1>10, AppendProperties DEF SetupTypeOK
<1>12. DOMAIN sessions' = 1 .. n + 1
  BY <1>11
<1>13. Sound(s) /\ AsShown(s) /\ Known(s.seats)
  BY <1>7, <1>8 DEF Sound, AsShown, Known
<1>14. ASSUME NEW k \in 1 .. n + 1
       PROVE  /\ Sound(sessions'[k]) /\ AsShown(sessions'[k]) /\ Known(sessions'[k].seats)
              /\ sessions'[k].plan \in 1 .. plans
  <2>1. CASE k = n + 1
    BY <1>7, <1>8, <1>11, <1>13, <2>1
  <2>2. CASE k # n + 1
    <3>1. k \in 1 .. n
      BY <2>2
    <3>2. /\ Sound(sessions[k]) /\ AsShown(sessions[k]) /\ Known(sessions[k].seats)
          /\ sessions[k].plan \in 1 .. plans
      BY <1>1, <1>10, <3>1 DEF SessionsInv, SessionsKnown, SessionsSound, SeatsAsShown
    <3>3. QED
      BY <1>11, <3>1, <3>2
  <2>3. QED
    BY <2>1, <2>2
<1>15. SessionsInv'
  <2>1. SessionsKnown'
    BY <1>2, <1>12, <1>14 DEF SessionsKnown, Known, OwnNumbers
  <2>2. SessionsSound'
    <3>1. PICK list : list = sessions'
      OBVIOUS
    <3>2. ASSUME NEW k \in 1 .. n + 1
          PROVE  Sound(list[k])' /\ list[k].plan \in 1 .. plans' /\ account'
      <4>1. Sound(list[k]) /\ Known(list[k].seats) /\ list[k].plan \in 1 .. plans
        BY <1>14, <3>1
      <4>2. Sound(list[k])'
        BY <1>3, <4>1, SoundKept
      <4>3. QED
        BY <1>2, <1>6, <4>1, <4>2
    <3>3. DOMAIN list = 1 .. n + 1
      BY <1>12, <3>1
    <3>4. QED
      BY <3>1, <3>2, <3>3 DEF SessionsSound, Sound, Level
  <2>3. SeatsAsShown'
    BY <1>12, <1>14 DEF SeatsAsShown, AsShown
  <2>4. QED
    BY <2>1, <2>2, <2>3 DEF SessionsInv
<1>16. pending' \in [Calls -> Call] /\ WaitingSound'
  BY <1>1, <1>2, <1>3, Answered DEF Store
<1>17. PageInv'
  BY <1>2, SameStudents
<1>18. PhasesFit' /\ OwnApart'
  BY <1>1, <1>2 DEF PhasesFit, OwnApart, OwnNumbers
<1>19. SetupTypeOK'
  BY <1>1, <1>2, <1>11, <1>16 DEF SetupTypeOK
<1>20. QED
  BY <1>15, <1>16, <1>17, <1>18, <1>19 DEF SetupInv

LEMMA FailStep ==
    ASSUME SetupInv, NEW r \in Calls, Fail(r)
    PROVE  SetupInv'
<1>1. SetupTypeOK /\ WaitingSound /\ PhasesFit
  BY DEF SetupInv
<1>2. /\ account' = account /\ plans' = plans /\ own' = own /\ born' = born
      /\ setting' = setting /\ sessions' = sessions /\ page' = page
  BY DEF Fail
<1>3. plans' \in Nat /\ plans <= plans' /\ Grown
  BY <1>1, <1>2, Unborn DEF SetupTypeOK
<1>4. pending' \in [Calls -> Call] /\ WaitingSound'
  BY <1>1, <1>2, <1>3, Answered DEF Fail
<1>5. SessionsInv' /\ OwnApart' /\ PageInv'
  BY <1>2, <1>3, Rest, SameStudents
<1>6. PhasesFit'
  BY <1>1, <1>2 DEF PhasesFit
<1>7. SetupTypeOK'
  BY <1>1, <1>2, <1>4 DEF SetupTypeOK
<1>8. QED
  BY <1>4, <1>5, <1>6, <1>7 DEF SetupInv

\* Steps that change how many plans there are, or the limit, and no more.
LEMMA CountsStep ==
    ASSUME SetupInv, account' = account, own' = own, born' = born, sessions' = sessions,
           page' = page, pending' = pending, plans' \in Nat, plans <= plans', setting' \in Nat
    PROVE  SetupInv'
<1>1. SetupTypeOK /\ PhasesFit
  BY DEF SetupInv
<1>2. WaitingSound'
  BY NoneWaits
<1>3. SessionsInv' /\ OwnApart' /\ PageInv'
  BY Rest, SameStudents
<1>4. PhasesFit' /\ SetupTypeOK'
  BY <1>1 DEF PhasesFit, SetupTypeOK
<1>5. QED
  BY <1>2, <1>3, <1>4 DEF SetupInv

LEMMA OthersStep ==
    SetupInv /\ (UploadPlan \/ (\E n \in MinPersonas .. AbsoluteMax : SetLimit(n))
                 \/ UNCHANGED setupVars) => SetupInv'
<1>1. ASSUME SetupInv
      PROVE  plans \in Nat /\ setting \in Nat
  BY <1>1 DEF SetupInv, SetupTypeOK
<1>2. ASSUME SetupInv, UploadPlan
      PROVE  SetupInv'
  <2>1. /\ account' = account /\ own' = own /\ born' = born /\ sessions' = sessions
        /\ page' = page /\ pending' = pending /\ setting' = setting /\ plans' = plans + 1
    BY <1>2 DEF UploadPlan
  <2>2. QED
    BY <1>1, <1>2, <2>1, CountsStep
<1>3. ASSUME SetupInv, NEW n \in MinPersonas .. AbsoluteMax, SetLimit(n)
      PROVE  SetupInv'
  <2>1. /\ account' = account /\ own' = own /\ born' = born /\ sessions' = sessions
        /\ page' = page /\ pending' = pending /\ setting' = n /\ plans' = plans
    BY <1>3 DEF SetLimit
  <2>2. n \in Nat
    OBVIOUS
  <2>3. QED
    BY <1>1, <1>3, <2>1, <2>2, CountsStep
<1>4. ASSUME SetupInv, UNCHANGED setupVars
      PROVE  SetupInv'
  <2>1. /\ account' = account /\ own' = own /\ born' = born /\ sessions' = sessions
        /\ page' = page /\ pending' = pending /\ setting' = setting /\ plans' = plans
    BY <1>4 DEF setupVars
  <2>2. QED
    BY <1>1, <1>4, <2>1, CountsStep
<1>5. QED
  BY <1>2, <1>3, <1>4

LEMMA DeleteTeacherStep ==
    ASSUME SetupInv, DeleteTeacher
    PROVE  SetupInv'
<1>1. SetupTypeOK /\ WaitingSound /\ PageInv /\ PhasesFit
  BY DEF SetupInv
<1>2. /\ account' = FALSE /\ plans' = 0 /\ own' = {} /\ born' = born /\ sessions' = <<>>
      /\ setting' = setting /\ page' = page /\ pending' = pending
  BY DEF DeleteTeacher
<1>3. Grown
  BY <1>1, <1>2, Unborn
<1>4. WaitingSound'
  BY <1>1, <1>2, <1>3, AllWaitersStay
<1>5. PageInv'
  BY <1>1, <1>2, <1>3, PageStays
<1>6. SessionsInv'
  BY <1>2 DEF SessionsInv, SessionsKnown, SessionsSound, SeatsAsShown
<1>7. OwnApart' /\ PhasesFit'
  BY <1>1, <1>2 DEF OwnApart, PhasesFit
<1>8. SetupTypeOK'
  <2>1. own' \subseteq Own /\ IsFiniteSet(own')
    BY <1>2, FS_EmptySet
  <2>2. sessions' \in Seq(Session)
    BY <1>2
  <2>3. account' \in BOOLEAN /\ plans' \in Nat
    BY <1>2
  <2>4. QED
    BY <1>1, <1>2, <2>1, <2>2, <2>3 DEF SetupTypeOK
<1>9. QED
  BY <1>4, <1>5, <1>6, <1>7, <1>8 DEF SetupInv

-----------------------------------------------------------------------------
(* The theorems.                                                           *)

LEMMA SetupInitInv == SetupInit => SetupInv
<1> SUFFICES ASSUME SetupInit  PROVE SetupInv
  OBVIOUS
<1>1. /\ account = TRUE /\ plans = 0 /\ own = {} /\ born = <<>> /\ sessions = <<>>
      /\ setting = AbsoluteMax + 1 /\ page = NoPage
      /\ pending = [r \in Calls |-> NotWaiting]
  BY DEF SetupInit
<1>2. page.cands = <<>> /\ page.gone = {} /\ page.phases = Phases(0, 0, 0, None)
  BY <1>1 DEF NoPage
<1>3. SetupTypeOK
  <2>1. page \in [cands : Seq(Shown), gone : SUBSET Nat, phases : SomePhases]
    BY <1>1, EmptyCall DEF NoPage
  <2>2. pending \in [Calls -> Call]
    BY <1>1, EmptyCall
  <2>3. IsFiniteSet({})
    BY FS_EmptySet
  <2>4. QED
    BY <1>1, <2>1, <2>2, <2>3 DEF SetupTypeOK
<1>4. OwnApart
  BY <1>1 DEF OwnApart
<1>5. WaitingSound
  BY <1>1 DEF WaitingSound, CallSound, At, NotWaiting
<1>6. SessionsInv
  BY <1>1 DEF SessionsInv, SessionsKnown, SessionsSound, SeatsAsShown
<1>7. PageInv
  BY <1>2 DEF PageInv, PageLeads, NamesSpent
<1>8. PhasesFit
  BY <1>2 DEF PhasesFit, Phases
<1>9. QED
  BY <1>3, <1>4, <1>5, <1>6, <1>7, <1>8 DEF SetupInv

LEMMA SetupStep == SetupInv /\ [SetupNext]_setupVars => SetupInv'
<1> SUFFICES ASSUME SetupInv, [SetupNext]_setupVars  PROVE SetupInv'
  OBVIOUS
<1>1. ASSUME NEW level \in Filters, NEW seed \in Seeds, LoadCandidates(level, seed)
      PROVE  SetupInv'
  BY <1>1, LoadStep
<1>2. ASSUME NEW r \in Calls, Draft(r) \/ Drafted(r)
      PROVE  SetupInv'
  BY <1>2, DraftStep, DraftedStep
<1>3. CASE Fill
  BY <1>3, FillStep
<1>4. ASSUME NEW r \in Calls, AskOwn(r) \/ StoreOwn(r)
      PROVE  SetupInv'
  BY <1>4, AskOwnStep, StoreOwnStep
<1>5. ASSUME NEW o \in own, DeleteOwn(o)
      PROVE  SetupInv'
  BY <1>5, DeleteOwnStep
<1>6. ASSUME NEW r \in Calls, NEW chosen \in Ticked, Start(r, chosen)
      PROVE  SetupInv'
  BY <1>6, StartStep
<1>7. ASSUME NEW r \in Calls, NEW picks \in OddPicks, StartOther(r, picks)
      PROVE  SetupInv'
  BY <1>7, StartOtherStep
<1>8. ASSUME NEW r \in Calls, NEW level \in Filters, NEW n \in MinPersonas .. AbsoluteMax,
             NEW seed \in Seeds, StartRandom(r, level, n, seed)
      PROVE  SetupInv'
  BY <1>8, StartRandomStep
<1>9. ASSUME NEW r \in Calls, Store(r) \/ Fail(r)
      PROVE  SetupInv'
  BY <1>9, StoreStep, FailStep
<1>10. CASE UploadPlan \/ (\E n \in MinPersonas .. AbsoluteMax : SetLimit(n))
            \/ UNCHANGED setupVars
  BY <1>10, OthersStep
<1>11. CASE DeleteTeacher
  BY <1>11, DeleteTeacherStep
<1>12. QED
  BY <1>1, <1>2, <1>3, <1>4, <1>5, <1>6, <1>7, <1>8, <1>9, <1>10, <1>11 DEF SetupNext

\* The strengthened invariant holds throughout: ids tell own students apart, the
\* page leads to whom it shows, and a creation that waits could be stored.
THEOREM SetupInductive == SetupSpec => []SetupInv
<1>1. QED
  BY SetupInitInv, SetupStep, PTL DEF SetupSpec

\* Every session create_session stores has an account, a plan, a class of a legal
\* size without repeated students or names, and phases that can be taught, for
\* any dataset and whatever happens while Gemini adapts the students.
THEOREM ClassesSound == SetupSpec => []SessionsSound
<1>1. SetupInv => SessionsSound
  BY DEF SetupInv, SessionsInv
<1>2. QED
  BY <1>1, SetupInductive, PTL

\* The class stored is the one that was asked for, with the same students under
\* the same names, unless the teacher deleted one of hers after loading the page.
THEOREM ClassesAsShown == SetupSpec => []SeatsAsShown
<1>1. SetupInv => SeatsAsShown
  BY DEF SetupInv, SessionsInv
<1>2. QED
  BY <1>1, SetupInductive, PTL

\* What the setup page offers can be started with: names are repeated only when
\* those of the gender are used up, and drafts have the form creation takes.
THEOREM StartableAsOffered == SetupSpec => []OffersStartable
<1>1. SetupInv => OffersStartable
  BY DEF SetupInv, PageInv, PhasesFit, OffersStartable
<1>2. QED
  BY <1>1, SetupInductive, PTL
=============================================================================
