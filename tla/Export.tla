------------------------------- MODULE Export -------------------------------
(***************************************************************************)
(* The administrator's export: app/services/admin_export_service.py, its   *)
(* route in routers/admin/exports.py and the names in                      *)
(* utils/admin_export_naming.py.                                           *)
(*                                                                         *)
(* What goes into the archive is collected with one query after another;   *)
(* the driver opens no transaction for reads, so each sees the database of *)
(* its own moment.  The files are read later still, one by one, while the      *)
(* archive is being sent.  Teachers and other administrators go on         *)
(* meanwhile: what they do is modelled by its effect on rows and files     *)
(* (see LessonPlans and SimSession for how they do it).                    *)
(***************************************************************************)
EXTENDS Ordering, FiniteSetsExt, SequencesExt

CONSTANTS
    Users,       \* teachers
    Files,       \* names of lesson-plan files
    UploadIds, ReportIds, SimIds, ChatIds,
    Includes,    \* the sets of kinds an administrator may ask for (the meta
                 \* files are always there)
    MaxRows,     \* reports, and simulations, to begin with (a bound)
    MaxFiles,    \* plan files to begin with (a bound)
    MaxChanges   \* changes by others while the export runs (a bound)

Kinds == {"reports", "conversations", "lessonplans"}

ASSUME IdsAssumption == UploadIds \cup ReportIds \cup SimIds \cup ChatIds \subseteq Nat \ {0}
ASSUME IncludesAssumption == Includes \subseteq SUBSET Kinds
ASSUME ChangesAssumption == MaxChanges \in Nat

VARIABLES
    db,       \* the rows: users, uploads, reports, sims and chats
    disk,     \* the plan files, by directory, owner and name
    md,       \* the report files, by report
    export,   \* the export: what it asks for, where it is, what it has read
    archive,  \* the files written into the archive, in order
    changes,  \* changes by others so far
    since     \* uploads that were there all the time the export collects

vars == <<db, disk, md, export, archive, changes, since>>

-----------------------------------------------------------------------------
(* Rows and files.                                                         *)

Upload == [id : UploadIds, user : Users, file : Files]
Report == [id : ReportIds, user : Users, upload : UploadIds \cup {0}, file : Files]
Sim == [id : SimIds, user : Users, upload : UploadIds]

\* Uploads are saved below app/static/uploads, older ones below data/lessonplan.
PlanFile == [dir : {"static", "data"}, user : Users, file : Files]

\* What an entry is read from: a file, or what was read from the database.
Stored(dir, user, file) == [dir |-> dir, user |-> user, file |-> file]

Of(rows, users) == {row \in rows : row.user \in users}
IdsOf(rows) == {row.id : row \in rows}
ById(rows) == Ordered(rows, [row \in rows |-> row.id])

(***************************************************************************)
(* An entry of the plan.  path is where it goes in the archive: the kind,  *)
(* the user and the number; the original name that ends it may be the same *)
(* everywhere, so it does not help to tell two paths apart.  source is     *)
(* what is read for it, status whether that was there when the entry was   *)
(* made, and file the name it stands for among the lesson plans.           *)
(***************************************************************************)
Entry(kind, user, number, file, source, status, upload) ==
    [kind |-> kind, path |-> <<kind, user, number>>, user |-> user, file |-> file,
     source |-> source, status |-> status, upload |-> upload]

Status(there) == IF there THEN "OK" ELSE "MISSING"

\* Where a plan is looked for, in this order; the first place if nowhere.  The two
\* directories without the user that the code tries last are left out.
SourceOf(user, file) ==
    LET uploaded == Stored("static", user, file)
        old == Stored("data", user, file)
    IN  IF uploaded \notin disk /\ old \in disk THEN old ELSE uploaded

-----------------------------------------------------------------------------
(* The export.                                                             *)

Idle == [pc |-> "idle", include |-> {}, users |-> {}, entries |-> <<>>,
         rows |-> <<>>, seen |-> {}, left |-> <<>>, manifest |-> {}]

Asks(kind) == kind \in export.include

Goes(pc) == export.pc = pc

\* collect: the users come first, and without any the plan is empty.
CollectUsers(include, selected) ==
    /\ Goes("idle")
    /\ LET users == selected \cap db.users
       IN  export' = [export EXCEPT !.include = include, !.users = users,
                                    !.pc = IF users = {} THEN "sending" ELSE "reports"]
    /\ since' = Of(db.uploads, selected \cap db.users)
    /\ UNCHANGED <<db, disk, md, archive, changes>>

\* A report is numbered by its upload, an old one by itself.
NumberOfReport(r) ==
    IF r.upload # 0 THEN <<"upload", r.upload>> ELSE <<"report", r.id>>

ReportEntry(r) ==
    Entry("report", r.user, NumberOfReport(r), r.file, Stored("md", r.user, r.id),
          Status(r.id \in md), r.upload)

CollectReports ==
    /\ Goes("reports")
    /\ LET rows == IF Asks("reports") THEN Of(db.reports, export.users) ELSE {}
           ordered == ById(rows)
       IN  export' = [export EXCEPT !.pc = "sessions",
                          !.entries = [i \in DOMAIN ordered |-> ReportEntry(ordered[i])]]
    /\ UNCHANGED <<db, disk, md, archive, changes, since>>

\* Conversations are written from what was read here, whatever happens to them.
SessionEntry(s) ==
    Entry("conversation", s.user, <<"session", s.id>>, "", Stored("chat", s.user, s.id), "OK", 0)

CollectSessions ==
    /\ Goes("sessions")
    /\ LET rows == IF Asks("conversations")
                   THEN ById(Of(db.chats, export.users)) ELSE <<>>
       IN  export' = [export EXCEPT
                !.pc = IF Asks("lessonplans") THEN "scan" ELSE "sims",
                !.entries = @ \o [i \in DOMAIN rows |-> SessionEntry(rows[i])]]
    /\ UNCHANGED <<db, disk, md, archive, changes, since>>

\* Old plan files, numbered by their place in the directory of the user.
ScanEntry(f) ==
    Entry("lessonplan", f.user, <<"file", f.file>>, f.file, f, "OK", 0)

ScanDisk ==
    /\ Goes("scan")
    /\ LET found == {f \in disk : f.dir = "data" /\ f.user \in export.users}
           ordered == SetToSeq(found)
       IN  export' = [export EXCEPT !.pc = "plan rows",
                !.seen = {<<f.user, f.file>> : f \in found},
                !.entries = @ \o [i \in DOMAIN ordered |-> ScanEntry(ordered[i])]]
    /\ UNCHANGED <<db, disk, md, archive, changes, since>>

CollectPlanRows ==
    /\ Goes("plan rows")
    /\ export' = [export EXCEPT !.pc = "links",
                     !.rows = ById(Of(db.reports, export.users))]
    /\ UNCHANGED <<db, disk, md, archive, changes, since>>

(***************************************************************************)
(* A report stands for its plan, unless a file of that name was seen.  The *)
(* plan may be stored under the name of the upload instead.                *)
(***************************************************************************)
PlanOfReport(r) ==
    LET links == {u \in Of(db.uploads, export.users) : u.id = r.upload}
        own == SourceOf(r.user, r.file)
        linked == {SourceOf(r.user, u.file) : u \in links} \cap disk
        source == IF own \in disk \/ linked = {} THEN own
                  ELSE CHOOSE f \in linked : TRUE
    IN  Entry("lessonplan", r.user, NumberOfReport(r), r.file, source,
              Status(source \in disk), r.upload)

Key(row) == <<row.user, row.file>>

\* The rows whose name has not been seen, in the files or in a row before.
Unseen(rows, seen) ==
    Sublist(rows, {i \in DOMAIN rows :
                      /\ Key(rows[i]) \notin seen
                      /\ \A j \in 1 .. i - 1 : Key(rows[j]) # Key(rows[i])})

CollectPlansOfReports ==
    /\ Goes("links")
    /\ LET rows == Unseen(export.rows, export.seen)
       IN  export' = [export EXCEPT !.pc = "uploads", !.rows = rows,
                !.seen = @ \cup {Key(rows[i]) : i \in DOMAIN rows},
                !.entries = @ \o [i \in DOMAIN rows |-> PlanOfReport(rows[i])]]
    /\ UNCHANGED <<db, disk, md, archive, changes, since>>

PlanOfUpload(u) ==
    LET source == SourceOf(u.user, u.file)
    IN  Entry("lessonplan", u.user, <<"upload", u.id>>, u.file, source,
              Status(source \in disk), u.id)

\* Mutant: only names tell whether an upload has its entry.
LeftUploadsByName ==
    Unseen(ById(Of(db.uploads, export.users)), export.seen)

\* Uploads that no entry stands for, by their number or by their name.
LeftUploads ==
    LET seenIds == {export.rows[i].upload : i \in DOMAIN export.rows}
        left == {u \in Of(db.uploads, export.users) : u.id \notin seenIds}
    IN  Unseen(ById(left), export.seen)

CollectUploads ==
    /\ Goes("uploads")
    /\ export' = [export EXCEPT !.pc = "sims", !.rows = <<>>,
            !.entries = @ \o [i \in DOMAIN LeftUploads |-> PlanOfUpload(LeftUploads[i])]]
    /\ UNCHANGED <<db, disk, md, archive, changes, since>>

CollectSims ==
    /\ Goes("sims")
    /\ LET rows == IF Asks("conversations")
                   THEN ById(Of(db.sims, export.users)) ELSE <<>>
       IN  export' = [export EXCEPT !.pc = "sim names", !.rows = rows]
    /\ UNCHANGED <<db, disk, md, archive, changes, since>>

\* Of a simulation there are the utterances as they are, and a readable text.
SimKinds == <<"simulation", "simulation_report">>

SimEntry(kind, s) ==
    Entry(kind, s.user, <<"session", s.id>>, "", Stored("sim", s.user, s.id), "OK", s.upload)

SimEntries(rows) ==
    [i \in 1 .. 2 * Len(rows) |->
        SimEntry(SimKinds[1 + ((i + 1) % 2)], rows[(i + 1) \div 2])]

Failed == [Idle EXCEPT !.pc = "failed"]

(***************************************************************************)
(* The names of the plans are read after the simulations: if the row of    *)
(* one is gone by then the request fails.  Then everything is collected;   *)
(* the order of the archive is not that of the queries.                    *)
(***************************************************************************)
CollectSimNames ==
    /\ Goes("sim names")
    /\ LET rows == export.rows
           all == export.entries \o SimEntries(rows)
           plans == {i \in DOMAIN all : all[i].kind = "lessonplan"}
       IN  export' =
            IF \A i \in DOMAIN rows : rows[i].upload \in IdsOf(db.uploads)
            THEN [export EXCEPT !.pc = "sending", !.rows = <<>>, !.entries = all,
                    !.left = Sublist(all, DOMAIN all \ plans) \o Sublist(all, plans)]
            ELSE Failed
    /\ UNCHANGED <<db, disk, md, archive, changes, since>>

\* What a file holds when it is read; only report and plan files can be missing.
Readable(source) ==
    /\ source.dir \in {"static", "data"} => source \in disk
    /\ source.dir = "md" => source.file \in md

Written(e, there) ==
    [path |-> e.path, holds |-> IF there THEN <<e.source>> ELSE <<>>,
     sha |-> IF there THEN <<e.source>> ELSE <<>>]

\* Mutant: the hash is that of the file that was there when it was planned.
EmitPlanned ==
    /\ Goes("sending") /\ export.left # <<>>
    /\ LET e == Head(export.left)
       IN  archive' = Append(archive,
                [Written(e, Readable(e.source)) EXCEPT
                    !.sha = IF e.status = "OK" THEN <<e.source>> ELSE <<>>])
    /\ export' = [export EXCEPT !.left = Tail(@)]
    /\ UNCHANGED <<db, disk, md, changes, since>>

\* One file: an empty one without a hash if there is nothing to read.
Emit ==
    /\ Goes("sending") /\ export.left # <<>>
    /\ LET e == Head(export.left)
       IN  archive' = Append(archive, Written(e, Readable(e.source)))
    /\ export' = [export EXCEPT !.left = Tail(@)]
    /\ UNCHANGED <<db, disk, md, changes, since>>

\* The manifest is last: a line for every entry, with the hash of its path.
EmitManifest ==
    /\ Goes("sending") /\ export.left = <<>>
    /\ export' = [export EXCEPT !.pc = "done",
            !.manifest = {[path |-> e.path, status |-> e.status,
                           sha |-> LET at == {i \in DOMAIN archive : archive[i].path = e.path}
                                   IN  archive[Max(at)].sha] : e \in ToSet(export.entries)}]
    /\ UNCHANGED <<db, disk, md, archive, changes, since>>

Export ==
    \/ \E include \in Includes, selected \in SUBSET Users \ {{}} :
           CollectUsers(include, selected)
    \/ CollectReports \/ CollectSessions
    \/ ScanDisk \/ CollectPlanRows \/ CollectPlansOfReports \/ CollectUploads
    \/ CollectSims \/ CollectSimNames
    \/ Emit \/ EmitManifest

-----------------------------------------------------------------------------
(* What others do while the export runs, by its effect.                    *)

Collecting == export.pc \notin {"idle", "sending", "done", "failed"}

\* Rows and files from now on.
Change(d, files, reportFiles) ==
    /\ changes < MaxChanges
    /\ export.pc \notin {"done", "failed"}
    /\ changes' = changes + 1
    /\ db' = d /\ disk' = files /\ md' = reportFiles
    /\ since' = IF Collecting THEN since \cap d.uploads ELSE since
    /\ UNCHANGED <<export, archive>>

\* A plan is uploaded: a file with a name of its own, and a row.
SendPlan(u) ==
    /\ u.user \in db.users /\ u.id \notin IdsOf(db.uploads)
    /\ \A v \in db.uploads : v.file # u.file
    /\ Change([db EXCEPT !.uploads = @ \cup {u}],
              disk \cup {Stored("static", u.user, u.file)}, md)

\* A plan is analysed; a report whose file is gone is replaced.
Analyse(u, r) ==
    LET stale == {o \in db.reports : o.upload = u.id}
        report == [id |-> r, user |-> u.user, upload |-> u.id, file |-> u.file]
    IN  /\ u \in db.uploads
        /\ IdsOf(stale) \cap md = {}
        /\ r \notin IdsOf(db.reports)
        /\ Change([db EXCEPT !.reports = (@ \ stale) \cup {report}], disk, md \cup {r})

StartSim(u, s) ==
    /\ u \in db.uploads /\ s \notin IdsOf(db.sims)
    /\ Change([db EXCEPT !.sims = @ \cup {[id |-> s, user |-> u.user, upload |-> u.id]}],
              disk, md)

Chat(user, c) ==
    /\ user \in db.users /\ c \notin IdsOf(db.chats)
    /\ Change([db EXCEPT !.chats = @ \cup {[id |-> c, user |-> user]}], disk, md)

\* An administrator deletes a report: first the row, the files after it, and
\* they may be those of a deletion that began before the export.
DeleteReport(r) ==
    /\ r \in db.reports
    /\ Change([db EXCEPT !.reports = @ \ {r}], disk, md)

UnlinkReport(r) ==
    /\ r \in md \ IdsOf(db.reports)
    /\ Change(db, disk, md \ {r})

\* The deletion of a report, or of a teacher, ends with the plan: removed if
\* neither a report nor a simulation refers to it.
UnlinkPlan(f) ==
    /\ f \in disk
    /\ \A r \in db.reports : <<r.user, r.file>> # <<f.user, f.file>>
    /\ \A s \in db.sims : \A u \in db.uploads :
           u.id = s.upload => <<u.user, u.file>> # <<f.user, f.file>>
    /\ Change(db, disk \ {f}, md)

\* An administrator deletes a teacher, with all the rows; the files go later.
DeleteUser(user) ==
    /\ user \in db.users
    /\ Change([users |-> db.users \ {user},
               uploads |-> {u \in db.uploads : u.user # user},
               reports |-> {r \in db.reports : r.user # user},
               sims |-> {s \in db.sims : s.user # user},
               chats |-> {c \in db.chats : c.user # user}], disk, md)

Others ==
    \/ \E u \in Upload : SendPlan(u)
    \/ \E u \in db.uploads, r \in ReportIds : Analyse(u, r)
    \/ \E u \in db.uploads, s \in SimIds : StartSim(u, s)
    \/ \E user \in db.users, c \in ChatIds : Chat(user, c)
    \/ \E r \in db.reports : DeleteReport(r)
    \/ \E r \in md : UnlinkReport(r)
    \/ \E f \in disk : UnlinkPlan(f)
    \/ \E user \in db.users : DeleteUser(user)

-----------------------------------------------------------------------------

\* Ids are unique, a report belongs to an upload of its own, and every row to
\* a user that is there.  Older releases left reports without an upload, and
\* reports that name their plan otherwise than the upload does.
Consistent(d) ==
    /\ \A rows \in {d.uploads, d.reports, d.sims, d.chats} : IsFiniteSet(rows)
    /\ \A u, v \in d.uploads : u = v \/ (u.id # v.id /\ Key(u) # Key(v))
    /\ \A r, q \in d.reports : r = q \/ (r.id # q.id /\ (r.upload = 0 \/ r.upload # q.upload))
    /\ \A r \in d.reports : r.upload = 0 \/ \E u \in d.uploads : u.id = r.upload /\ u.user = r.user
    /\ \A s, t \in d.sims : s = t \/ s.id # t.id
    /\ \A s \in d.sims : \E u \in d.uploads : u.id = s.upload /\ u.user = s.user
    /\ \A c, b \in d.chats : c = b \/ c.id # b.id

\* The rows to begin with are numbered from 1; the rest comes by Others.
Few(rows) == UNION {kSubset(n, rows) : n \in 0 .. MaxRows}

Init ==
    /\ db \in {d \in [users : {Users}, uploads : SUBSET Upload, reports : Few(Report),
                      sims : Few(Sim), chats : {{}}] :
              /\ Consistent(d)
              /\ \A rows \in {d.uploads, d.reports} : IdsOf(rows) = 1 .. Cardinality(rows)}
    /\ disk \in {files \in SUBSET PlanFile :
                    IsFiniteSet(files) /\ Cardinality(files) <= MaxFiles}
    /\ md \in SUBSET IdsOf(db.reports)
    /\ export = Idle
    /\ archive = <<>>
    /\ changes = 0
    /\ since = {}

Next == Export \/ Others

Spec == Init /\ [][Next]_vars

-----------------------------------------------------------------------------
(* Properties.                                                             *)

Planned == ToSet(export.entries)

\* No two files of the archive have one path, although they come from five
\* queries, a directory and two tables that name a plan differently: a second
\* one would overwrite the first when the archive is unpacked, and its line in
\* the manifest would show the hash of the other.  A plan that was uploaded
\* before the export began and is still there has exactly one file, under its
\* number, or is one of the files that stand for its name.
EveryUploadOnce ==
    /\ \A i, j \in DOMAIN export.entries :
           export.entries[i].path = export.entries[j].path => i = j
    /\ Goes("sending") \/ Goes("done") =>
           \A u \in since : Asks("lessonplans") =>
               LET plans == {e \in Planned : e.kind = "lessonplan"}
               IN  \/ Cardinality({e \in plans : e.upload = u.id}) = 1
                   \/ \E e \in plans : e.user = u.user /\ e.file = u.file

\* The manifest tells the truth about the archive, whatever happened to the
\* files after their entries were made: it has the paths that are in the
\* archive, and for each the hash of what is in there, blank for an empty one.
ManifestTrue ==
    Goes("done") =>
        /\ {line.path : line \in export.manifest} = {archive[i].path : i \in DOMAIN archive}
        /\ Len(archive) = Cardinality(export.manifest)
        /\ \A line \in export.manifest : \E i \in DOMAIN archive :
               archive[i].path = line.path /\ archive[i].holds = line.sha

\* The request fails only when a teacher who has simulations is deleted while
\* it collects (the names of the plans are looked up without a default).
FailsOnlyByDeletion == Goes("failed") => db.users # Users
=============================================================================
