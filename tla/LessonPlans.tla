----------------------------- MODULE LessonPlans ----------------------------
(***************************************************************************)
(* The lesson plans of one student: app/routers/views.py (upload, cleanup) *)
(* and the logout of app/routers/auth.py, the analysis of a plan by        *)
(* app/services/lessonplan_analysis_service.py, and what an administrator  *)
(* deletes: an analysis report, or the student with all that is hers.      *)
(*                                                                         *)
(* Three places have to agree that no transaction spans: the disk (PDF     *)
(* files and report files), SQLite (lessonplan_uploads, analysis_reports)  *)
(* and the student's File Search store, found by its display name.  Each   *)
(* call of Gemini runs in a thread while other requests go on.             *)
(***************************************************************************)
EXTENDS Integers, Sequences, FiniteSets

CONSTANTS
    Requests,     \* requests and background tasks in flight at the same time
    MaxArrivals,  \* bound: requests in all
    MaxPlans,     \* bound: PDF files that are sent
    MaxStores,    \* bound: stores that are created
    MaxReports    \* bound: report files that are written

ASSUME PlanBounds == /\ MaxArrivals \in Nat
                     /\ MaxPlans \in Nat \ {0}
                     /\ MaxStores \in Nat
                     /\ MaxReports \in Nat

VARIABLES
    student,     \* whether the student's row is there, and what went with it
    disk,        \* the plan in each PDF file, 0 where the file does not exist
    stores,      \* File Search stores with the student's display name
    docs,        \* the plans in each store
    uploads,     \* rows of lessonplan_uploads, in the order of their ids
    reports,     \* rows of analysis_reports
    files,       \* report files on disk
    lost,        \* report files that disappeared without the program
    minted,      \* plans, stores and report files so far
    arrived,     \* requests so far
    req,         \* what each request is doing, and what it has read
    settled,     \* an upload succeeded and no request since is about to undo it
    overlapped,  \* two requests of the student were in flight together
    spilled      \* a report file was left behind when saving was cut short

vars == <<student, disk, stores, docs, uploads, reports, files, lost, minted, arrived,
          req, settled, overlapped, spilled>>

cloud == <<stores, docs>>
rows == <<uploads, reports>>
database == <<student, rows>>
history == <<arrived, settled, overlapped, spilled>>
disks == <<disk, files, lost>>

-----------------------------------------------------------------------------
(* Rows, files and stores.                                                 *)

Plans == 1 .. MaxPlans
Stores == 1 .. MaxStores
Reports == 1 .. MaxReports

\* The file of a plan from before the uploads table, and its text.
OldFile == 0
Old == MaxPlans + 1
Names == Plans \cup {OldFile}
Texts == Plans \cup {Old, 0}

(***************************************************************************)
(* A row names its PDF file, the plan by the hash of the file, and the     *)
(* store of its File Search document; a row made for a plan from before    *)
(* the table has neither hash nor document.  A report tells which plan it  *)
(* was written from, 0 if that is not followed.                            *)
(***************************************************************************)
Upload == [file : Names, plan : Plans \cup {0}, store : Stores \cup {0}]
Report == [id : Reports, upload : Nat \ {0}, about : Plans \cup {0}]

Latest == Len(uploads)
ReportOf(u) == {p \in reports : p.upload = u}

\* The row of a plan from before the table has no hash: one for each file.
Synthetic == {u \in 1 .. Len(uploads) : uploads[u].plan = 0}

\* The dashboard shows the last upload as ready, and the store has its plan.
Ready == Latest > 0 /\ uploads[Latest].store # 0 /\ disk[uploads[Latest].file] # 0
Searchable == /\ uploads[Latest].store \in stores
              /\ uploads[Latest].plan \in docs[uploads[Latest].store]

-----------------------------------------------------------------------------
(* Requests.                                                               *)

(***************************************************************************)
(* upload:  look remove forget find create put row                         *)
(* cleanup: look remove forget                                             *)
(* logout:  forget, the answer, and in the background look remove          *)
(* analyze: find create retrieve write insert winner                       *)
(* delete:  unlink check unlinkPlan                                        *)
(* erase:   rows files look remove                                         *)
(***************************************************************************)
Ops == {"upload", "cleanup", "logout", "analyze", "delete", "erase"}
AdminOps == {"delete", "erase"}
Steps == {"idle", "look", "remove", "forget", "find", "create", "put", "row",
          "retrieve", "write", "insert", "winner", "unlink", "check", "unlinkPlan",
          "rows", "files"}

Request == [op : Ops \cup {"none"}, pc : Steps, file : Plans \cup {0},
            plan : Plans \cup {0}, store : Stores \cup {0}, upload : Nat,
            report : Reports \cup {0}, about : Plans \cup {0}, sure : BOOLEAN,
            seen : SUBSET Reports, names : SUBSET Names]

Idle == [op |-> "none", pc |-> "idle", file |-> 0, plan |-> 0, store |-> 0,
         upload |-> 0, report |-> 0, about |-> 0, sure |-> FALSE, seen |-> {}, names |-> {}]

(***************************************************************************)
(* "gone" once the row of the student is deleted, and "cleared" (which the *)
(* program does not record) when that deletion has come to its end without *)
(* a failure and without a request of hers on its way.                     *)
(***************************************************************************)
Students == {"here", "gone", "cleared"}

TypeOK ==
    /\ student \in Students
    /\ disk \in [Names -> Texts]
    /\ stores \subseteq Stores
    /\ docs \in [Stores -> SUBSET Plans]
    /\ uploads \in Seq(Upload)
    /\ reports \subseteq Report
    /\ files \subseteq Reports
    /\ lost \subseteq Reports
    /\ minted \in [plan : 0 .. MaxPlans, store : 0 .. MaxStores, report : 0 .. MaxReports]
    /\ req \in [Requests -> Request]
    /\ settled \in {"no", "mixed", "alone"}
    /\ arrived \in 0 .. MaxArrivals
    /\ {overlapped, spilled} \subseteq BOOLEAN
    /\ \A p \in reports : p.upload <= Latest
    /\ \A p, q \in reports : p.upload = q.upload => p = q
    /\ Cardinality(Synthetic) <= 1

Init ==
    /\ student = "here"
    /\ \E old \in {Old, 0} : disk = [k \in Names |-> IF k = OldFile THEN old ELSE 0]
    /\ stores = {}
    /\ docs = [s \in Stores |-> {}]
    /\ uploads = <<>>
    /\ reports = {}
    /\ files = {}
    /\ lost = {}
    /\ minted = [plan |-> 0, store |-> 0, report |-> 0]
    /\ arrived = 0
    /\ req = [r \in Requests |-> Idle]
    /\ settled = "no"
    /\ overlapped = FALSE
    /\ spilled = FALSE

At(r, step) == req[r].pc = step
Goto(r, step) == req' = [req EXCEPT ![r].pc = step]
Return(r) == req' = [req EXCEPT ![r] = Idle]

\* Two requests of the student meet; the administrator's do not count.
Meets(r, op) == \E o \in Requests \ {r} :
                    {req[o].op, op} \subseteq Ops \ AdminOps

Arrive(r, op, rec) ==
    /\ At(r, "idle")
    /\ student = "here"
    /\ arrived < MaxArrivals
    /\ arrived' = arrived + 1
    /\ req' = [req EXCEPT ![r] = rec]
    /\ overlapped' = (overlapped \/ Meets(r, op))
    /\ UNCHANGED spilled

-----------------------------------------------------------------------------
(* Replacing the plan: upload, cleanup, logout.                            *)

(***************************************************************************)
(* The name of a PDF file is the second and the name of the plan: an       *)
(* upload of the same plan in the same second writes the same file.        *)
(***************************************************************************)
SameSecond == {req[o].file : o \in {o \in Requests : req[o].op = "upload"}}

\* The file is written, and removed again when it is no readable PDF.
SendPlan(r) ==
    LET k == minted.plan + 1
    IN  /\ k \in Plans
        /\ minted' = [minted EXCEPT !.plan = k]
        /\ settled' = "no"
        /\ \E name \in {k} \cup SameSecond :
            \/ /\ disk' = [disk EXCEPT ![name] = k]
               /\ Arrive(r, "upload", [Idle EXCEPT !.op = "upload", !.pc = "look", !.file = name,
                                         !.plan = k, !.sure = TRUE])
            \/ /\ disk' = [disk EXCEPT ![name] = 0]
               /\ Arrive(r, "upload", Idle)
        /\ UNCHANGED <<cloud, database, files, lost>>

Cleanup(r) ==
    /\ Arrive(r, "cleanup", [Idle EXCEPT !.op = "cleanup", !.pc = "look"])
    /\ settled' = "no"
    /\ UNCHANGED <<disks, cloud, database, minted>>

\* The session is revoked and the ids are forgotten before the answer.
Logout(r) ==
    /\ Arrive(r, "logout", [Idle EXCEPT !.op = "logout", !.pc = "forget"])
    /\ settled' = "no"
    /\ UNCHANGED <<disks, cloud, database, minted>>

\* The store is the last of what a deleted student leaves.
AfterErasure(r, ok) ==
    IF req[r].op = "erase" /\ req[r].sure /\ ok THEN "cleared" ELSE student

\* What follows the removal of the store, which never fails to its caller.
AfterRemoval(r, ok) ==
    /\ IF req[r].op \in {"logout", "erase"} THEN Return(r)
       ELSE req' = [req EXCEPT ![r].pc = "forget", ![r].store = 0, ![r].sure = @ /\ ok]
    /\ student' = AfterErasure(r, ok)

\* Mutant: the store is looked for under a name it does not have.
LookElsewhere(r) ==
    /\ At(r, "look")
    /\ AfterRemoval(r, TRUE)
    /\ UNCHANGED <<disks, cloud, rows, minted, history>>

\* delete_store_by_display_name takes the first store of that name ...
LookStore(r) ==
    /\ At(r, "look")
    /\ \/ \E s \in stores : req' = [req EXCEPT ![r].pc = "remove", ![r].store = s]
                            /\ UNCHANGED student
       \/ stores = {} /\ AfterRemoval(r, TRUE)
       \/ AfterRemoval(r, FALSE)
    /\ UNCHANGED <<disks, cloud, rows, minted, history>>

\* ... and deletes it by its id.  An error is logged and nothing else.  A deletion
\* that failed here does not take effect later.
RemoveStore(r) ==
    /\ At(r, "remove")
    /\ \/ /\ stores' = stores \ {req[r].store}
          /\ docs' = [docs EXCEPT ![req[r].store] = {}]
          /\ AfterRemoval(r, TRUE)
       \/ AfterRemoval(r, FALSE) /\ UNCHANGED cloud
    /\ UNCHANGED <<disks, rows, minted, history>>

AfterForget(r) ==
    CASE req[r].op = "upload" -> Goto(r, "find")
      [] req[r].op = "cleanup" -> Return(r)
      [] req[r].op = "logout" -> Goto(r, "look")

\* forget_file_search_ids commits.
Forget(r) ==
    /\ At(r, "forget")
    /\ uploads' = [i \in 1 .. Latest |-> [uploads[i] EXCEPT !.store = 0]]
    /\ AfterForget(r)
    /\ UNCHANGED <<student, disks, cloud, reports, minted, history>>

\* The database is locked for too long: only logout goes on.
ForgetFails(r) ==
    /\ At(r, "forget")
    /\ \/ req[r].op = "cleanup" /\ Return(r)
       \/ req[r].op = "logout" /\ Goto(r, "look")
    /\ UNCHANGED <<disks, cloud, database, minted, history>>

AfterStore(r) == IF req[r].op = "upload" THEN "put" ELSE "retrieve"

\* _get_or_create_store lists the stores and creates one in another call.
FindStore(r) ==
    /\ At(r, "find")
    /\ \/ \E s \in stores : req' = [req EXCEPT ![r].pc = AfterStore(r), ![r].store = s]
       \/ stores = {} /\ Goto(r, "create")
    /\ UNCHANGED <<disks, cloud, database, minted, history>>

\* A thread that the time limit of an analysis left behind makes no store: one of
\* the same name would come of it, as of two requests that meet.
CreateStore(r) ==
    LET s == minted.store + 1
    IN  /\ At(r, "create")
        /\ s \in Stores
        /\ minted' = [minted EXCEPT !.store = s]
        /\ stores' = stores \cup {s}
        /\ req' = [req EXCEPT ![r].pc = AfterStore(r), ![r].store = s]
        /\ UNCHANGED <<disks, docs, database, history>>

\* The file is read by its name when it is sent.
Sent(r) ==
    /\ req[r].store \in stores
    /\ disk[req[r].file] # 0
    /\ docs' = [docs EXCEPT ![req[r].store] = @ \cup {disk[req[r].file]}]

\* Mutant: the end of the waiting counts as success.
PutAnyway(r) ==
    /\ At(r, "put")
    /\ Sent(r) \/ UNCHANGED docs
    /\ Goto(r, "row")
    /\ UNCHANGED <<disks, stores, database, minted, history>>

Put(r) ==
    /\ At(r, "put")
    /\ Sent(r)
    /\ Goto(r, "row")
    /\ UNCHANGED <<disks, stores, database, minted, history>>

\* The row is committed before the redirect.
AddRow(r) ==
    /\ At(r, "row")
    /\ student = "here"
    /\ uploads' = Append(uploads, [file |-> req[r].file, plan |-> req[r].plan,
                                   store |-> req[r].store])
    /\ settled' = IF req[r].sure THEN "alone" ELSE "mixed"
    /\ Return(r)
    /\ UNCHANGED <<student, disks, cloud, reports, minted, arrived, overlapped, spilled>>

\* The transaction is rolled back and the file removed; what was committed on
\* the way stays, and a document that timed out may be there later.  No row
\* is added for a student who is gone.
FailUpload(r) ==
    /\ req[r].op = "upload"
    /\ req[r].pc \in {"forget", "find", "create", "put", "row"}
    /\ \/ UNCHANGED docs
       \/ At(r, "put") /\ Sent(r)
    /\ disk' = [disk EXCEPT ![req[r].file] = 0]
    /\ Return(r)
    /\ UNCHANGED <<files, lost, stores, database, minted, history>>

-----------------------------------------------------------------------------
(* The analysis of a plan.                                                 *)

Analysis(u) == [Idle EXCEPT !.op = "analyze", !.pc = "find", !.upload = u,
                            !.sure = settled = "alone"]

\* The last upload, not analysed yet, or the plan from before the table.
Analyze(r) ==
    /\ IF Latest = 0 THEN disk[OldFile] # 0 ELSE ReportOf(Latest) = {}
    /\ Arrive(r, "analyze", Analysis(Latest))
    /\ UNCHANGED <<disks, cloud, database, minted, settled>>

\* The report of the last upload has no file: its row is deleted first.
AnalyzeAgain(r) ==
    /\ \E p \in ReportOf(Latest) :
        /\ p.id \notin files
        /\ reports' = reports \ {p}
    /\ Arrive(r, "analyze", Analysis(Latest))
    /\ UNCHANGED <<student, disks, cloud, uploads, minted, settled>>

\* The first pass takes the text of the plan from the store, if it finds any;
\* the second writes the report without looking at it again.  What the text
\* is from is followed where the analysis began on a settled upload.
Retrieve(r) ==
    /\ At(r, "retrieve")
    /\ req[r].store \in stores
    /\ \E k \in {0} \cup IF req[r].sure /\ ~ overlapped THEN docs[req[r].store] ELSE {} :
          req' = [req EXCEPT ![r].pc = "write", ![r].store = 0, ![r].about = k]
    /\ UNCHANGED <<disks, cloud, database, minted, history>>

\* No store, no active criteria, an error, the timeout, or an empty report.
Stop(r) ==
    /\ req[r].op = "analyze"
    /\ req[r].pc \in {"find", "create", "retrieve", "write"}
    /\ Return(r)
    /\ UNCHANGED <<disks, cloud, database, minted, history>>

NewReport(r, u, i) == [id |-> i, upload |-> u,
                       about |-> IF overlapped THEN 0 ELSE req[r].about]

WriteFile(i) ==
    /\ i \in Reports
    /\ minted' = [minted EXCEPT !.report = i]
    /\ files' = files \cup {i}

\* save_report: a file of its own name for each report.
Write(r) ==
    LET i == minted.report + 1
    IN  /\ At(r, "write")
        /\ req[r].upload # 0
        /\ WriteFile(i)
        /\ req' = [req EXCEPT ![r].pc = "insert", ![r].report = i]
        /\ UNCHANGED <<disk, lost, cloud, database, history>>

(***************************************************************************)
(* A plan from before the table gets a row first, which holds the write    *)
(* lock of the database until the report is committed with it.  Cut short, *)
(* both rows are rolled back and the file stays; when the file cannot be   *)
(* written, the new row is committed alone.                                *)
(***************************************************************************)
WriteLegacy(r) ==
    LET i == minted.report + 1
        row == [file |-> OldFile, plan |-> 0, store |-> 0]
    IN  /\ At(r, "write")
        /\ req[r].upload = 0
        /\ Synthetic = {} /\ student = "here"
        /\ \/ /\ WriteFile(i)
              /\ uploads' = Append(uploads, row)
              /\ reports' = reports \cup {NewReport(r, Latest + 1, i)}
              /\ UNCHANGED spilled
           \/ WriteFile(i) /\ spilled' = TRUE /\ UNCHANGED database
           \/ /\ uploads' = Append(uploads, row)
              /\ UNCHANGED <<reports, files, minted, spilled>>
        /\ Return(r)
        /\ UNCHANGED <<student, disk, lost, cloud, arrived, settled, overlapped>>

\* Another analysis has made that row: its report is named, or the last
\* upload is taken instead.  A student who is gone has neither.
TakeOver(r) ==
    /\ At(r, "write")
    /\ req[r].upload = 0
    /\ Synthetic # {} \/ student # "here"
    /\ IF Latest = 0 \/ ReportOf(Latest) # {} THEN Return(r)
       ELSE req' = [req EXCEPT ![r].upload = Latest]
    /\ UNCHANGED <<disks, cloud, database, minted, history>>

\* Mutant: no unique index on upload_id.
InsertTwice(r) ==
    /\ At(r, "insert")
    /\ reports' = reports \cup {NewReport(r, req[r].upload, req[r].report)}
    /\ Return(r)
    /\ UNCHANGED <<student, disks, cloud, uploads, minted, history>>

\* The unique index on upload_id decides between two analyses of one upload,
\* and the foreign key refuses a report of a student who is gone.
Insert(r) ==
    /\ At(r, "insert")
    /\ IF ReportOf(req[r].upload) = {} /\ student = "here"
       THEN /\ reports' = reports \cup {NewReport(r, req[r].upload, req[r].report)}
            /\ Return(r)
       ELSE Goto(r, "winner") /\ UNCHANGED reports
    /\ UNCHANGED <<student, disks, cloud, uploads, minted, history>>

\* Mutants: the file of the first is removed; no file is removed.
FindWinnerRemovesFirst(r) ==
    /\ At(r, "winner")
    /\ files' = files \ {p.id : p \in ReportOf(req[r].upload)}
    /\ Return(r)
    /\ UNCHANGED <<disk, lost, cloud, database, minted, history>>

\* The one that came second removes its file, unless the row of the first is
\* gone already: then the answer is given without a stored report.
FindWinner(r) ==
    /\ At(r, "winner")
    /\ IF ReportOf(req[r].upload) # {}
       THEN files' = files \ {req[r].report} /\ UNCHANGED spilled
       ELSE spilled' = TRUE /\ UNCHANGED files
    /\ Return(r)
    /\ UNCHANGED <<disk, lost, cloud, database, minted, arrived, settled, overlapped>>

\* The timeout of 180 s, or an error of the database, after the file.
CutShort(r) ==
    /\ req[r].pc \in {"insert", "winner"}
    /\ spilled' = TRUE
    /\ Return(r)
    /\ UNCHANGED <<disks, cloud, database, minted, arrived, settled, overlapped>>

-----------------------------------------------------------------------------
(* An administrator deletes reports.                                       *)

\* The rows of one report or of several are deleted, and committed before any
\* file is touched.
DeleteReports(r) ==
    \E gone \in SUBSET reports \ {{}} :
        /\ reports' = reports \ gone
        /\ Arrive(r, "delete", [Idle EXCEPT !.op = "delete", !.pc = "unlink",
                                  !.seen = {p.id : p \in gone},
                                  !.names = {uploads[p.upload].file : p \in gone}])
        /\ settled' = IF \E p \in gone : p.upload = Latest THEN "no" ELSE settled
        /\ UNCHANGED <<student, disks, cloud, uploads, minted>>

\* One file after the other; an error is logged and nothing else.
UnlinkReport(r) ==
    /\ At(r, "unlink")
    /\ \E i \in req[r].seen :
        /\ \/ files' = files \ {i} /\ UNCHANGED spilled
           \/ spilled' = TRUE /\ UNCHANGED files
        /\ req' = [req EXCEPT ![r].seen = @ \ {i},
                              ![r].pc = IF req[r].seen = {i} THEN "check" ELSE @]
    /\ UNCHANGED <<student, disk, lost, cloud, database, minted, arrived, settled, overlapped>>

PlanDone(r, name) ==
    IF req[r].names = {name} THEN Return(r)
    ELSE req' = [req EXCEPT ![r].pc = "check", ![r].file = 0, ![r].names = @ \ {name}]

\* A PDF stays when another report, or a simulated lesson, names it.
CheckPlan(r) ==
    /\ At(r, "check")
    /\ \E name \in req[r].names :
        \/ PlanDone(r, name)
        \/ /\ \A p \in reports : uploads[p.upload].file # name
           /\ req' = [req EXCEPT ![r].pc = "unlinkPlan", ![r].file = name]
    /\ UNCHANGED <<disks, cloud, database, minted, history>>

UnlinkPlan(r) ==
    /\ At(r, "unlinkPlan")
    /\ disk' = [disk EXCEPT ![req[r].file] = 0]
    /\ PlanDone(r, req[r].file)
    /\ UNCHANGED <<files, lost, cloud, database, minted, history>>

-----------------------------------------------------------------------------
(* An administrator deletes the student.                                   *)

\* Her reports are read for their files, and all rows for the deletion.
DeleteUser(r) ==
    /\ Arrive(r, "erase", [Idle EXCEPT !.op = "erase", !.pc = "rows",
                             !.seen = {p.id : p \in reports}])
    /\ UNCHANGED <<disks, cloud, database, minted, settled>>

\* Mutant: foreign keys are not enforced.
DeleteRowsAnyway(r) ==
    /\ At(r, "rows")
    /\ student' = "gone"
    /\ uploads' = <<>>
    /\ reports' = {p \in reports : p.id \notin req[r].seen}
    /\ settled' = "no"
    /\ req' = [req EXCEPT ![r].pc = "files", ![r].seen = {}]
    /\ UNCHANGED <<disks, cloud, minted, arrived, overlapped, spilled>>

(***************************************************************************)
(* One transaction.  The foreign key of a report that was stored after the *)
(* rows were read refuses the deletion as a whole; so may a lock.          *)
(***************************************************************************)
DeleteRows(r) ==
    /\ At(r, "rows")
    /\ \/ /\ {p.id : p \in reports} \subseteq req[r].seen
          /\ student' = IF student = "here" THEN "gone" ELSE student
          /\ uploads' = <<>>
          /\ reports' = {}
          /\ settled' = "no"
          /\ req' = [req EXCEPT ![r].pc = "files", ![r].seen = {},
                        ![r].sure = /\ ~overlapped
                                    /\ \A o \in Requests : req[o].op \in AdminOps \cup {"none"}]
       \/ Return(r) /\ UNCHANGED <<database, settled>>
    /\ UNCHANGED <<disks, cloud, minted, arrived, overlapped, spilled>>

\* The directories of her plans and reports go as they are now; what cannot be
\* removed is left.  The store is next.
RemoveFiles(r) ==
    /\ At(r, "files")
    /\ \E rest \in SUBSET files, left \in {disk, [k \in Names |-> 0]} :
        /\ files' = rest
        /\ disk' = left
        /\ spilled' = (spilled \/ rest # {})
        /\ req' = [req EXCEPT ![r].pc = "look",
                      ![r].sure = @ /\ rest = {} /\ \A k \in Names : left[k] = 0]
    /\ UNCHANGED <<lost, cloud, database, minted, arrived, settled, overlapped>>

-----------------------------------------------------------------------------
(* The environment.                                                        *)

\* One report file is lost with the disk, or moved away by hand.
LoseFile ==
    /\ lost = {}
    /\ \E p \in reports :
        /\ files' = files \ {p.id}
        /\ lost' = {p.id} \cap files
    /\ UNCHANGED <<disk, cloud, database, minted, req, history>>

\* The server stops: every request and background task is gone.
Restart ==
    /\ \E r \in Requests : ~ At(r, "idle")
    /\ req' = [r \in Requests |-> Idle]
    /\ spilled' = (spilled \/ \E r \in Requests : req[r].pc \in {"insert", "winner", "unlink", "files"})
    /\ UNCHANGED <<disks, cloud, database, minted, arrived, settled, overlapped>>

Replace(r) ==
    \/ SendPlan(r) \/ Cleanup(r) \/ Logout(r)
    \/ LookStore(r) \/ RemoveStore(r) \/ Forget(r) \/ ForgetFails(r)
    \/ FindStore(r) \/ CreateStore(r) \/ Put(r) \/ AddRow(r) \/ FailUpload(r)

Analyse(r) ==
    \/ Analyze(r) \/ AnalyzeAgain(r) \/ Retrieve(r) \/ Stop(r)
    \/ Write(r) \/ WriteLegacy(r) \/ TakeOver(r)
    \/ Insert(r) \/ FindWinner(r) \/ CutShort(r)

Delete(r) == DeleteReports(r) \/ UnlinkReport(r) \/ CheckPlan(r) \/ UnlinkPlan(r)

Erase(r) == DeleteUser(r) \/ DeleteRows(r) \/ RemoveFiles(r)

Next ==
    \/ \E r \in Requests : Replace(r) \/ Analyse(r) \/ Delete(r) \/ Erase(r)
    \/ LoseFile
    \/ Restart

Spec == Init /\ [][Next]_vars

-----------------------------------------------------------------------------
(* Properties.                                                             *)

(***************************************************************************)
(* The file of a stored report is on disk, whatever analyses of the same   *)
(* upload, deletions, timeouts and restarts come together, unless it was   *)
(* lost from outside.                                                      *)
(***************************************************************************)
ReportOnDisk == \A p \in reports : p.id \in files \cup lost

(***************************************************************************)
(* Every report file has a row, or a request that will store or remove it: *)
(* the analysis that comes second leaves nothing behind.  Only saving or   *)
(* deleting that was cut short leaves a file.                              *)
(***************************************************************************)
NoStrayReports ==
    ~ spilled =>
        \A i \in files :
            \/ \E p \in reports : p.id = i
            \/ \E r \in Requests :
                  \/ req[r].report = i /\ req[r].pc \in {"insert", "winner"}
                  \/ At(r, "unlink") /\ i \in req[r].seen
                  \/ At(r, "files")

(***************************************************************************)
(* A deleted student has no row, whatever of hers was on its way and is    *)
(* stored later; and when nothing was on its way and nothing failed, she   *)
(* has no file and no store either.                                        *)
(***************************************************************************)
GoneForGood ==
    /\ student # "here" => uploads = <<>> /\ reports = {}
    /\ student = "cleared" =>
          stores = {} /\ files = {} /\ \A k \in Names : disk[k] = 0

(***************************************************************************)
(* Rows and files match, whatever uploads, analyses, deletions of reports  *)
(* or of the student, timeouts and restarts come together.                 *)
(***************************************************************************)
RowsMatchFiles == ReportOnDisk /\ NoStrayReports /\ GoneForGood

(***************************************************************************)
(* After an upload has succeeded the dashboard offers its plan, and the    *)
(* plan is in the store, until the student uploads, cleans up or logs out  *)
(* again or its report is deleted (app/routers/views.py:104): through      *)
(* removals that fail, uploads that time out, analyses, deletions and      *)
(* restarts, for a student whose requests do not meet and a File Search    *)
(* that deletes nothing after it answered with an error.                   *)
(***************************************************************************)
EntryKept == ~ overlapped /\ settled # "no" => Ready /\ Searchable

(***************************************************************************)
(* The report of an upload is about that plan and no other (a report says  *)
(* nothing of a plan the search did not find), if the student's requests   *)
(* did not meet and the store was emptied for the upload.                  *)
(***************************************************************************)
ReportOfItsUpload ==
    \A p \in reports : p.about \in {0, uploads[p.upload].plan}

-----------------------------------------------------------------------------
(* The inductive invariant: what the properties rest on.                   *)

Here == student = "here"
Pending(r) == req[r].pc \in {"insert", "winner"}
Hers(r) == req[r].op \notin AdminOps \cup {"none"}

\* What a request carries fits its operation; an upload has a plan and a file.
RequestsSound ==
    \A r \in Requests :
        /\ req[r].op = "none" <=> req[r].pc = "idle"
        /\ req[r].pc \in {"look", "remove"} =>
              req[r].op \in {"upload", "cleanup", "logout", "erase"}
        /\ req[r].pc = "forget" => req[r].op \in {"upload", "cleanup", "logout"}
        /\ req[r].pc \in {"find", "create"} => req[r].op \in {"upload", "analyze"}
        /\ req[r].pc \in {"put", "row"} => req[r].op = "upload"
        /\ req[r].pc \in {"retrieve", "write", "insert", "winner"} => req[r].op = "analyze"
        /\ req[r].pc \in {"unlink", "check", "unlinkPlan"} => req[r].op = "delete"
        /\ req[r].pc \in {"rows", "files"} => req[r].op = "erase"
        /\ req[r].op = "upload" => req[r].file # 0 /\ req[r].plan # 0
        /\ req[r].op = "analyze" /\ Here => req[r].upload <= Latest
        /\ At(r, "insert") \/ At(r, "winner") => req[r].upload # 0

\* Only the file from before the table has that plan.
PlansOnDisk == \A k \in Plans : disk[k] \in Plans \cup {0}

\* Nothing has a number that is still to be given out; a store that is not
\* there has no documents.
GivenOut ==
    /\ \A p \in reports : p.id <= minted.report
    /\ \A i \in files : i <= minted.report
    /\ \A i \in 1 .. Latest : uploads[i].file <= minted.plan
    /\ \A s \in stores : s <= minted.store
    /\ \A s \in Stores : docs[s] # {} => s \in stores
    /\ \A r \in Requests :
        /\ req[r].report <= minted.report /\ req[r].file <= minted.plan
        /\ \A i \in req[r].seen : i <= minted.report
        /\ \A k \in req[r].names : k <= minted.plan

\* A report file that waits for its row is of no other row or request.
FilesApart ==
    /\ \A p, q \in reports : p.id = q.id => p = q
    /\ \A r \in Requests : Pending(r) =>
        /\ req[r].report # 0
        /\ Here => req[r].report \in files
        /\ \A p \in reports : p.id # req[r].report
        /\ \A o \in Requests \ {r} : Pending(o) => req[o].report # req[r].report
    /\ \A r \in Requests : At(r, "unlink") =>
        /\ \A p \in reports : p.id \notin req[r].seen
        /\ \A o \in Requests : Pending(o) => req[o].report \notin req[r].seen

\* What a deletion has done by the step it is at.
Erasing ==
    \A r \in Requests : req[r].op = "erase" =>
        /\ req[r].pc # "rows" => ~Here
        /\ req[r].sure =>
            /\ ~Here
            /\ \A o \in Requests : ~Hers(o)
            /\ \A s, t \in stores : s = t
            /\ req[r].pc \in {"look", "remove"} =>
                  files = {} /\ \A k \in Names : disk[k] = 0
            /\ req[r].pc = "remove" => stores \subseteq {req[r].store}

ClearedQuiet == student = "cleared" => \A o \in Requests : ~Hers(o)

\* Requests of hers that do not meet, and the one store they work on.
OneAtATime ==
    ~overlapped =>
        /\ \A r, o \in Requests : Hers(r) /\ Hers(o) => r = o
        /\ \A s, t \in stores : s = t
        /\ \A r \in Requests : At(r, "create") => stores = {}

\* An upload that meets no other: its file is its own, and when the old store
\* was removed the new one gets its plan alone.
UploadUnderWay ==
    ~overlapped /\ Here =>
        \A r \in Requests : req[r].op = "upload" =>
            /\ settled = "no"
            /\ disk[req[r].file] = req[r].plan
            /\ \A i \in 1 .. Latest : uploads[i].file # req[r].file
            /\ \A o \in Requests : req[o].op = "delete" =>
                  req[r].file \notin req[o].names \cup {req[o].file}
            /\ At(r, "remove") => stores \subseteq {req[r].store}
            /\ req[r].sure => /\ req[r].pc \in {"forget", "find", "create"} => stores = {}
                              /\ At(r, "put") => docs[req[r].store] = {}
                              /\ At(r, "row") => docs[req[r].store] = {req[r].plan}
            /\ At(r, "row") => /\ req[r].store \in stores
                               /\ req[r].plan \in docs[req[r].store]

\* The entry of an upload that succeeded.
EntryStands ==
    ~overlapped /\ settled # "no" =>
        /\ Here /\ Ready /\ Searchable /\ uploads[Latest].file # OldFile
        /\ settled = "alone" => docs[uploads[Latest].store] = {uploads[Latest].plan}
        /\ \A i \in 1 .. Latest - 1 : uploads[i].file # uploads[Latest].file
        /\ \A r \in Requests :
            /\ req[r].op \notin {"upload", "cleanup", "logout"}
            /\ req[r].op = "analyze" => req[r].upload # 0
            /\ req[r].op = "delete" =>
                  uploads[Latest].file \notin req[r].names \cup {req[r].file}

\* What an analysis that began on a settled upload can find in the stores.
AnalysisAbout ==
    ~overlapped /\ Here =>
        \A r \in Requests : req[r].op = "analyze" =>
            /\ req[r].sure => /\ req[r].upload # 0
                              /\ \A s \in Stores :
                                    docs[s] \subseteq {uploads[req[r].upload].plan}
            /\ req[r].about # 0 => /\ req[r].upload # 0
                                   /\ req[r].about = uploads[req[r].upload].plan

IInv ==
    /\ TypeOK
    /\ RequestsSound /\ PlansOnDisk /\ GivenOut
    /\ FilesApart /\ ReportOnDisk /\ NoStrayReports
    /\ Erasing /\ ClearedQuiet /\ GoneForGood
    /\ OneAtATime /\ UploadUnderWay /\ EntryStands
    /\ AnalysisAbout /\ ReportOfItsUpload
=============================================================================
