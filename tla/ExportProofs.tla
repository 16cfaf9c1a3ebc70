---------------------------- MODULE ExportProofs ----------------------------
(***************************************************************************)
(* Theorems about Export, for any rows and files to begin with and any     *)
(* number of changes by others while it runs.                              *)
(***************************************************************************)
EXTENDS Export, OrderingProofs

USE IdsAssumption, IncludesAssumption, ChangesAssumption

-----------------------------------------------------------------------------
(* Types.                                                                  *)

ChatRow == [id : ChatIds, user : Users]

Database == [users : SUBSET Users, uploads : SUBSET Upload, reports : SUBSET Report,
             sims : SUBSET Sim, chats : SUBSET ChatRow]

EntryKinds == {"report", "conversation", "lessonplan", "simulation", "simulation_report"}

Numbers == ({"upload", "report", "session"} \X Nat) \cup ({"file"} \X Files)

Paths == EntryKinds \X Users \X Numbers

Source == [dir : {"static", "data", "md", "chat", "sim"}, user : Users, file : Files \cup Nat]

Statuses == {"OK", "MISSING"}

Entries == [kind : EntryKinds, path : Paths, user : Users, file : Files \cup {""},
            source : Source, status : Statuses, upload : Nat]

Steps == {"idle", "reports", "sessions", "scan", "plan rows", "links", "uploads", "sims",
          "sim names", "sending", "done", "failed"}

Line == [path : Paths, status : Statuses, sha : Seq(Source)]

Run == [pc : Steps, include : SUBSET Kinds, users : SUBSET Users, entries : Seq(Entries),
        rows : Seq(Report) \cup Seq(Sim), seen : SUBSET (Users \X Files),
        left : Seq(Entries), manifest : SUBSET Line]

File == [path : Paths, holds : Seq(Source), sha : Seq(Source)]

Typed ==
    /\ db \in Database
    /\ disk \subseteq PlanFile /\ IsFiniteSet(disk)
    /\ export \in Run
    /\ archive \in Seq(File)
    /\ changes \in Nat

-----------------------------------------------------------------------------
(* The inductive invariant.                                                *)

\* The first parts of a path are the kind and the user of its entry.
PathsTell == \A e \in Planned : e.path[1] = e.kind /\ e.path[2] = e.user

EntriesApart ==
    \A i, j \in DOMAIN export.entries :
        export.entries[i].path = export.entries[j].path => i = j

\* A plan for a file of the directory, and the plan for a report.
OfFile(e) == e.kind = "lessonplan" /\ e.upload = 0 /\ \E f \in Files : e.path[3] = <<"file", f>>

OfRow(e, r) ==
    /\ e.kind = "lessonplan" /\ e.upload = r.upload /\ e.user = r.user
    /\ e.path[3] = NumberOfReport(r)

\* What has been collected so far.
SoFar ==
    \A e \in Planned :
        /\ ~Goes("idle") /\ ~Goes("reports")
        /\ Goes("sessions") => e.kind = "report"
        /\ Goes("scan") => e.kind \in {"report", "conversation"}
        /\ Goes("plan rows") \/ Goes("links") =>
              e.kind \in {"report", "conversation"} \/ OfFile(e)
        /\ Goes("uploads") =>
              \/ e.kind \in {"report", "conversation"} \/ OfFile(e)
              \/ \E i \in DOMAIN export.rows : OfRow(e, export.rows[i])
        /\ Goes("sims") \/ Goes("sim names") =>
              e.kind \in {"report", "conversation", "lessonplan"}

\* The rows a query returned, each once.
RowsApart ==
    /\ Goes("links") \/ Goes("uploads") =>
          /\ export.rows \in Seq(Report)
          /\ \A i, j \in DOMAIN export.rows :
                NumberOfReport(export.rows[i]) = NumberOfReport(export.rows[j]) => i = j
    /\ Goes("sim names") =>
          /\ export.rows \in Seq(Sim)
          /\ \A i, j \in DOMAIN export.rows :
                export.rows[i].id = export.rows[j].id => i = j

\* What counts as seen has an entry.
StandsFor(e, user, file) == e.kind = "lessonplan" /\ e.user = user /\ e.file = file

SeenHasEntry ==
    /\ Goes("plan rows") \/ Goes("links") \/ Goes("uploads") =>
          \A k \in export.seen : \E e \in Planned : StandsFor(e, k[1], k[2])
    /\ Goes("uploads") =>
          \A i \in DOMAIN export.rows : \E e \in Planned : OfRow(e, export.rows[i])

\* An upload that was there all the time.
SinceThere ==
    /\ Goes("idle") => since = {}
    /\ Collecting => \A u \in since : u \in db.uploads /\ u.user \in export.users

Covered(u) ==
    \/ Cardinality({e \in {p \in Planned : p.kind = "lessonplan"} : e.upload = u.id}) = 1
    \/ \E e \in Planned : StandsFor(e, u.user, u.file)

UploadsCovered ==
    Goes("sims") \/ Goes("sim names") \/ Goes("sending") \/ Goes("done") =>
        \A u \in since : Asks("lessonplans") => Covered(u)

\* The names of the plans are there as long as no teacher is deleted.
NamesThere ==
    /\ Goes("sim names") /\ db.users = Users =>
          \A i \in DOMAIN export.rows : export.rows[i].upload \in IdsOf(db.uploads)
    /\ Goes("failed") => db.users # Users

\* What is in the archive and what is left make up what was planned.
PathsOf(list) == {list[i].path : i \in DOMAIN list}

ArchiveGrows ==
    /\ Goes("idle") => export = Idle
    /\ ~Goes("sending") /\ ~Goes("done") => archive = <<>>
    /\ \A i \in DOMAIN archive : archive[i].holds = archive[i].sha
    /\ Goes("sending") =>
          /\ Len(archive) + Len(export.left) = Len(export.entries)
          /\ PathsOf(archive) \cup PathsOf(export.left) = PathsOf(export.entries)

IInv ==
    /\ Typed /\ Consistent(db) /\ PathsTell /\ EntriesApart /\ SoFar /\ RowsApart
    /\ SeenHasEntry /\ SinceThere /\ UploadsCovered /\ NamesThere
    /\ ArchiveGrows /\ ManifestTrue

-----------------------------------------------------------------------------
(* Lists.                                                                  *)

\* The elements of a set, each once.
EachOnce(list, S) ==
    /\ list \in Seq(S)
    /\ \A i, j \in DOMAIN list : list[i] = list[j] => i = j
    /\ \A x \in S : \E i \in DOMAIN list : list[i] = x

LEMMA ListsEachOnce ==
    ASSUME NEW list, NEW S, Cardinality(S) \in Nat, Lists(list, S)
    PROVE  EachOnce(list, S) /\ Len(list) = Cardinality(S)
BY DEF Lists, EachOnce

\* Rows by their ids.
LEMMA RowsById ==
    ASSUME NEW rows, IsFiniteSet(rows), \A r \in rows : r.id \in Int,
           \A r, q \in rows : r.id = q.id => r = q
    PROVE  EachOnce(ById(rows), rows)
<1>1. PICK key \in [rows -> Int] : key = [row \in rows |-> row.id]
  OBVIOUS
<1>2. Cardinality(rows) \in Nat /\ Lists(Ordered(rows, key), rows)
  <2>1. \A x, y \in rows : key[x] = key[y] => x = y
    BY <1>1
  <2>2. QED
    BY <2>1, OrderedList
<1>3. QED
  BY <1>1, <1>2, ListsEachOnce DEF ById

\* The elements of a set in any order.
LEMMA AnyOrder ==
    ASSUME NEW S, IsFiniteSet(S)
    PROVE  EachOnce(SetToSeq(S), S)
<1>1. Cardinality(S) \in Nat /\ ExistsBijection(1 .. Cardinality(S), S)
  BY FS_CardinalityType
<1>2. PICK f \in Bijection(1 .. Cardinality(S), S) : TRUE
  BY <1>1 DEF ExistsBijection
<1>3. f \in [1 .. Cardinality(S) -> S] /\ IsInjective(f)
  BY <1>2 DEF Bijection, Injection
<1>4. SetToSeq(S) \in [1 .. Cardinality(S) -> S] /\ IsInjective(SetToSeq(S))
  BY <1>3 DEF SetToSeq
<1>5. SetToSeq(S) \in Injection(1 .. Cardinality(S), S)
  BY <1>4 DEF Injection
<1>6. SetToSeq(S) \in Surjection(1 .. Cardinality(S), S)
  <2>1. Cardinality(1 .. Cardinality(S)) = Cardinality(S)
    BY <1>1, FS_Interval
  <2>2. QED
    BY <1>5, <2>1, FS_Injection
<1>7. Lists(SetToSeq(S), S)
  BY <1>4, <1>6 DEF Lists, Surjection, IsInjective
<1>8. QED
  BY <1>1, <1>7, ListsEachOnce

\* Lists put after one another.
JoinOf(all, s, t) ==
    /\ Len(all) = Len(s) + Len(t)
    /\ \A i \in DOMAIN s : i \in DOMAIN all /\ all[i] = s[i]
    /\ \A i \in DOMAIN t : Len(s) + i \in DOMAIN all /\ all[Len(s) + i] = t[i]
    /\ \A i \in DOMAIN all :
           \/ i \in DOMAIN s /\ all[i] = s[i]
           \/ \E j \in DOMAIN t : i = Len(s) + j /\ all[i] = t[j]

LEMMA Joined ==
    ASSUME NEW S, NEW s \in Seq(S), NEW t \in Seq(S)
    PROVE  s \o t \in Seq(S) /\ JoinOf(s \o t, s, t)
<1>1. PICK all : all = s \o t
  OBVIOUS
<1>2. all \in Seq(S) /\ Len(all) = Len(s) + Len(t)
  BY <1>1
<1>3. DOMAIN s = 1 .. Len(s) /\ DOMAIN t = 1 .. Len(t) /\ DOMAIN all = 1 .. Len(s) + Len(t)
  BY <1>2
<1>4. \A i \in DOMAIN s : i \in DOMAIN all /\ all[i] = s[i]
  BY <1>1
<1>5. \A i \in DOMAIN t : Len(s) + i \in DOMAIN all /\ all[Len(s) + i] = t[i]
  BY <1>1
<1>6. ASSUME NEW i \in DOMAIN all
      PROVE  \/ i \in DOMAIN s /\ all[i] = s[i]
             \/ \E j \in DOMAIN t : i = Len(s) + j /\ all[i] = t[j]
  <2>1. CASE i \in DOMAIN s
    BY <1>4, <2>1
  <2>2. CASE i \notin DOMAIN s
    <3>1. Len(s) \in Nat /\ Len(t) \in Nat /\ i \in Nat /\ i <= Len(s) + Len(t) /\ i > Len(s)
      BY <1>3, <2>2
    <3>2. i - Len(s) \in DOMAIN t /\ i = Len(s) + (i - Len(s))
      BY <1>3, <3>1
    <3>3. QED
      BY <1>5, <3>2
  <2>3. QED
    BY <2>1, <2>2
<1>7. QED
  BY <1>1, <1>2, <1>4, <1>5, <1>6 DEF JoinOf

\* Entries are added to the plan.
LEMMA Collected ==
    ASSUME Typed, PathsTell, EntriesApart, NEW new \in Seq(Entries),
           export'.entries = export.entries \o new,
           \A i \in DOMAIN new : new[i].path[1] = new[i].kind /\ new[i].path[2] = new[i].user,
           \A i, j \in DOMAIN new : new[i].path = new[j].path => i = j,
           \A e \in Planned, i \in DOMAIN new : e.path # new[i].path
    PROVE  /\ export'.entries \in Seq(Entries) /\ PathsTell' /\ EntriesApart'
           /\ Planned' = Planned \cup ToSet(new)
<1> DEFINE old == export.entries
           all == old \o new
<1>1. old \in Seq(Entries)
  BY DEF Typed, Run
<1>2. /\ all \in Seq(Entries) /\ Len(old) \in Nat
      /\ \A i \in DOMAIN old : i \in DOMAIN all /\ all[i] = old[i]
      /\ \A i \in DOMAIN new : Len(old) + i \in DOMAIN all /\ all[Len(old) + i] = new[i]
      /\ \A i \in DOMAIN all :
            \/ i \in DOMAIN old /\ all[i] = old[i]
            \/ \E j \in DOMAIN new : i = Len(old) + j /\ all[i] = new[j]
  <2>1. all \in Seq(Entries) /\ JoinOf(all, old, new)
    BY <1>1, Joined
  <2> HIDE DEF all
  <2>2. Len(old) \in Nat
    BY <1>1
  <2>3. QED
    BY <2>1, <2>2 DEF JoinOf
<1>3. \A i \in DOMAIN old : old[i] \in Planned
  BY DEF Planned, ToSet
<1>4. \A i, j \in DOMAIN old : old[i].path = old[j].path => i = j
  BY DEF EntriesApart
<1>5. export'.entries = all
  OBVIOUS
<1> HIDE DEF old, all
<1>6. ASSUME NEW i \in DOMAIN all, NEW j \in DOMAIN all, all[i].path = all[j].path
      PROVE  i = j
  <2>1. CASE i \in DOMAIN old /\ all[i] = old[i]
    <3>1. CASE j \in DOMAIN old /\ all[j] = old[j]
      BY <1>4, <1>6, <2>1, <3>1
    <3>2. CASE \E k \in DOMAIN new : j = Len(old) + k /\ all[j] = new[k]
      BY <1>3, <1>6, <2>1, <3>2
    <3>3. QED
      BY <1>2, <3>1, <3>2
  <2>2. CASE \E k \in DOMAIN new : i = Len(old) + k /\ all[i] = new[k]
    <3>1. CASE j \in DOMAIN old /\ all[j] = old[j]
      BY <1>3, <1>6, <2>2, <3>1
    <3>2. CASE \E k \in DOMAIN new : j = Len(old) + k /\ all[j] = new[k]
      BY <1>6, <2>2, <3>2
    <3>3. QED
      BY <1>2, <3>1, <3>2
  <2>3. QED
    BY <1>2, <2>1, <2>2
<1>7. Planned' = Planned \cup ToSet(new)
  <2>1. Planned = {old[i] : i \in DOMAIN old} /\ Planned' = {all[i] : i \in DOMAIN all}
    BY <1>5 DEF Planned, ToSet, old
  <2>2. ToSet(new) = {new[i] : i \in DOMAIN new}
    BY DEF ToSet
  <2>3. QED
    BY <1>2, <2>1, <2>2
<1>8. PathsTell'
  <2>1. \A e \in ToSet(new) : e.path[1] = e.kind /\ e.path[2] = e.user
    BY DEF ToSet
  <2>2. QED
    BY <1>7, <2>1 DEF PathsTell
<1>9. QED
  BY <1>2, <1>5, <1>6, <1>7, <1>8 DEF EntriesApart

-----------------------------------------------------------------------------
(* Entries.                                                                *)

LEMMA NumberTyped ==
    ASSUME NEW r \in Report
    PROVE  /\ NumberOfReport(r) \in Numbers
           /\ \A f : NumberOfReport(r) # <<"file", f>>
           /\ \A n \in Nat : NumberOfReport(r) = <<"upload", n>> => r.upload = n
BY DEF NumberOfReport, Numbers, Report

LEMMA NumbersTell ==
    ASSUME NEW r \in Report, NEW q \in Report, NumberOfReport(r) = NumberOfReport(q)
    PROVE  r.upload = q.upload /\ (r.upload = 0 => r.id = q.id)
BY DEF NumberOfReport, Report

IsEntry(e, kind, user, number, file, upload) ==
    /\ e \in Entries
    /\ e.path = <<kind, user, number>> /\ e.kind = kind /\ e.user = user
    /\ e.file = file /\ e.upload = upload
    /\ e.path[1] = kind /\ e.path[2] = user /\ e.path[3] = number

LEMMA EntryTyped ==
    ASSUME NEW kind \in EntryKinds, NEW user \in Users, NEW number \in Numbers,
           NEW file \in Files \cup {""}, NEW source \in Source, NEW status \in Statuses,
           NEW upload \in Nat
    PROVE  IsEntry(Entry(kind, user, number, file, source, status, upload),
                   kind, user, number, file, upload)
BY DEF Entry, Entries, Paths, IsEntry

LEMMA ReportEntryTyped ==
    ASSUME NEW r \in Report
    PROVE  /\ ReportEntry(r) \in Entries
           /\ ReportEntry(r).path = <<"report", r.user, NumberOfReport(r)>>
           /\ ReportEntry(r).kind = "report" /\ ReportEntry(r).user = r.user
<1>1. r.user \in Users /\ r.file \in Files /\ r.upload \in Nat /\ r.id \in Nat
  BY DEF Report
<1>2. Stored("md", r.user, r.id) \in Source /\ Status(r.id \in md) \in Statuses
  BY <1>1 DEF Stored, Source, Status, Statuses
<1>3. "report" \in EntryKinds
  BY DEF EntryKinds
<1>4. IsEntry(ReportEntry(r), "report", r.user, NumberOfReport(r), r.file, r.upload)
  BY <1>1, <1>2, <1>3, NumberTyped, EntryTyped DEF ReportEntry
<1>5. QED
  BY <1>4 DEF IsEntry

LEMMA SessionEntryTyped ==
    ASSUME NEW s \in ChatRow
    PROVE  /\ SessionEntry(s) \in Entries
           /\ SessionEntry(s).path = <<"conversation", s.user, <<"session", s.id>>>>
           /\ SessionEntry(s).kind = "conversation" /\ SessionEntry(s).user = s.user
<1>1. s.user \in Users /\ s.id \in Nat
  BY DEF ChatRow
<1>2. /\ Stored("chat", s.user, s.id) \in Source /\ "OK" \in Statuses
      /\ <<"session", s.id>> \in Numbers /\ "conversation" \in EntryKinds
  BY <1>1 DEF Stored, Source, Statuses, Numbers, EntryKinds
<1>3. IsEntry(SessionEntry(s), "conversation", s.user, <<"session", s.id>>, "", 0)
  BY <1>1, <1>2, EntryTyped DEF SessionEntry
<1>4. QED
  BY <1>3 DEF IsEntry

LEMMA ScanEntryTyped ==
    ASSUME NEW f \in PlanFile
    PROVE  /\ ScanEntry(f) \in Entries
           /\ ScanEntry(f).path = <<"lessonplan", f.user, <<"file", f.file>>>>
           /\ OfFile(ScanEntry(f)) /\ StandsFor(ScanEntry(f), f.user, f.file)
<1>1. f.user \in Users /\ f.file \in Files /\ f \in Source
  BY DEF PlanFile, Source
<1>2. "OK" \in Statuses /\ <<"file", f.file>> \in Numbers /\ "lessonplan" \in EntryKinds
  BY <1>1 DEF Statuses, Numbers, EntryKinds
<1>3. IsEntry(ScanEntry(f), "lessonplan", f.user, <<"file", f.file>>, f.file, 0)
  BY <1>1, <1>2, EntryTyped DEF ScanEntry
<1>4. QED
  BY <1>1, <1>3 DEF IsEntry, OfFile, StandsFor

LEMMA PlanOfReportTyped ==
    ASSUME Typed, NEW r \in Report
    PROVE  /\ PlanOfReport(r) \in Entries
           /\ PlanOfReport(r).path = <<"lessonplan", r.user, NumberOfReport(r)>>
           /\ OfRow(PlanOfReport(r), r) /\ StandsFor(PlanOfReport(r), r.user, r.file)
<1> DEFINE links == {u \in Of(db.uploads, export.users) : u.id = r.upload}
           own == SourceOf(r.user, r.file)
           linked == {SourceOf(r.user, u.file) : u \in links} \cap disk
           source == IF own \in disk \/ linked = {} THEN own ELSE CHOOSE f \in linked : TRUE
<1>1. r.user \in Users /\ r.file \in Files /\ r.upload \in Nat /\ r.id \in Nat
  BY DEF Report
<1>2. own \in Source /\ disk \subseteq Source
  BY <1>1 DEF SourceOf, Stored, Source, Typed, PlanFile
<1>3. source \in Source
  <2>1. linked \subseteq disk
    OBVIOUS
  <2> HIDE DEF own, linked
  <2>2. QED
    BY <1>2, <2>1
<1>4. Status(source \in disk) \in Statuses /\ "lessonplan" \in EntryKinds
  BY DEF Status, Statuses, EntryKinds
<1>5. PlanOfReport(r) = Entry("lessonplan", r.user, NumberOfReport(r), r.file, source,
                              Status(source \in disk), r.upload)
  BY DEF PlanOfReport
<1> HIDE DEF source
<1>6. IsEntry(PlanOfReport(r), "lessonplan", r.user, NumberOfReport(r), r.file, r.upload)
  <2>1. PICK status \in Statuses : status = Status(source \in disk)
    BY <1>4
  <2>2. PlanOfReport(r) = Entry("lessonplan", r.user, NumberOfReport(r), r.file, source,
                                status, r.upload)
    BY <1>5, <2>1
  <2>3. "lessonplan" \in EntryKinds /\ NumberOfReport(r) \in Numbers
    BY NumberTyped DEF EntryKinds
  <2> HIDE DEF own, linked
  <2>4. QED
    BY <1>1, <1>3, <2>2, <2>3, EntryTyped
<1>7. QED
  BY <1>6 DEF IsEntry, OfRow, StandsFor

LEMMA PlanOfUploadTyped ==
    ASSUME NEW u \in Upload
    PROVE  /\ PlanOfUpload(u) \in Entries
           /\ PlanOfUpload(u).path = <<"lessonplan", u.user, <<"upload", u.id>>>>
           /\ PlanOfUpload(u).upload = u.id
           /\ PlanOfUpload(u).kind = "lessonplan" /\ PlanOfUpload(u).user = u.user
           /\ StandsFor(PlanOfUpload(u), u.user, u.file)
<1>1. u.user \in Users /\ u.file \in Files /\ u.id \in Nat
  BY DEF Upload
<1>2. SourceOf(u.user, u.file) \in Source
  BY <1>1 DEF SourceOf, Stored, Source
<1>3. /\ Status(SourceOf(u.user, u.file) \in disk) \in Statuses /\ "lessonplan" \in EntryKinds
      /\ <<"upload", u.id>> \in Numbers
  BY <1>1 DEF Status, Statuses, EntryKinds, Numbers
<1>4. IsEntry(PlanOfUpload(u), "lessonplan", u.user, <<"upload", u.id>>, u.file, u.id)
  BY <1>1, <1>2, <1>3, EntryTyped DEF PlanOfUpload
<1>5. QED
  BY <1>4 DEF IsEntry, StandsFor

LEMMA SimEntryTyped ==
    ASSUME NEW s \in Sim, NEW kind \in {"simulation", "simulation_report"}
    PROVE  /\ SimEntry(kind, s) \in Entries
           /\ SimEntry(kind, s).path = <<kind, s.user, <<"session", s.id>>>>
           /\ SimEntry(kind, s).kind = kind /\ SimEntry(kind, s).user = s.user
<1>1. s.user \in Users /\ s.id \in Nat /\ s.upload \in Nat
  BY DEF Sim
<1>2. /\ Stored("sim", s.user, s.id) \in Source /\ "OK" \in Statuses
      /\ <<"session", s.id>> \in Numbers /\ kind \in EntryKinds
  BY <1>1 DEF Stored, Source, Statuses, Numbers, EntryKinds
<1>3. IsEntry(SimEntry(kind, s), kind, s.user, <<"session", s.id>>, "", s.upload)
  BY <1>1, <1>2, EntryTyped DEF SimEntry
<1>4. QED
  BY <1>3 DEF IsEntry

-----------------------------------------------------------------------------
(* What others do.                                                         *)

\* The tables of a database.
Tables(users, uploads, reports, sims, chats) ==
    [users |-> users, uploads |-> uploads, reports |-> reports, sims |-> sims, chats |-> chats]

\* The rows and files after a change by others.
ChangeSound ==
    /\ db' \in Database /\ Consistent(db)'
    /\ disk' \subseteq PlanFile /\ IsFiniteSet(disk')
    /\ db'.users \subseteq db.users
    /\ db'.users = db.users => IdsOf(db.uploads) \subseteq IdsOf(db'.uploads)

LEMMA DbFields ==
    ASSUME Typed
    PROVE  /\ db.users \subseteq Users /\ db.uploads \subseteq Upload
           /\ db.reports \subseteq Report /\ db.sims \subseteq Sim /\ db.chats \subseteq ChatRow
           /\ db = Tables(db.users, db.uploads, db.reports, db.sims, db.chats)
BY DEF Typed, Database, Tables


\* Tables that are typed and consistent make a database that is.
Sound(users, uploads, reports, sims, chats) ==
    /\ users \subseteq Users /\ uploads \subseteq Upload /\ reports \subseteq Report
    /\ sims \subseteq Sim /\ chats \subseteq ChatRow
    /\ IsFiniteSet(uploads) /\ IsFiniteSet(reports) /\ IsFiniteSet(sims) /\ IsFiniteSet(chats)
    /\ \A u, v \in uploads : u = v \/ (u.id # v.id /\ Key(u) # Key(v))
    /\ \A r, q \in reports : r = q \/ (r.id # q.id /\ (r.upload = 0 \/ r.upload # q.upload))
    /\ \A r \in reports : r.upload = 0 \/ \E u \in uploads : u.id = r.upload /\ u.user = r.user
    /\ \A s, t \in sims : s = t \/ s.id # t.id
    /\ \A s \in sims : \E u \in uploads : u.id = s.upload /\ u.user = s.user
    /\ \A c, b \in chats : c = b \/ c.id # b.id

LEMMA SoundTables ==
    ASSUME NEW users, NEW uploads, NEW reports, NEW sims, NEW chats,
           Sound(users, uploads, reports, sims, chats)
    PROVE  /\ Tables(users, uploads, reports, sims, chats) \in Database
           /\ Consistent(Tables(users, uploads, reports, sims, chats))
BY DEF Sound, Tables, Database, Consistent

LEMMA TablesSound ==
    ASSUME Typed, Consistent(db)
    PROVE  Sound(db.users, db.uploads, db.reports, db.sims, db.chats)
BY DbFields DEF Sound, Consistent

LEMMA SendPlanSound ==
    ASSUME Typed, Consistent(db), NEW u \in Upload, SendPlan(u)
    PROVE  ChangeSound
<1> DEFINE uploads == db.uploads \cup {u}
<1>1. db' = Tables(db.users, uploads, db.reports, db.sims, db.chats)
  BY DbFields DEF SendPlan, Change, Tables
<1>2. Sound(db.users, db.uploads, db.reports, db.sims, db.chats)
  BY TablesSound
<1>3. \A v \in db.uploads : v.id # u.id /\ v.file # u.file
  BY DEF SendPlan, IdsOf
<1>4. IsFiniteSet(uploads)
  <2>1. IsFiniteSet(db.uploads)
    BY <1>2 DEF Sound
  <2>2. QED
    BY <2>1, FS_AddElement
<1>5. Sound(db.users, uploads, db.reports, db.sims, db.chats)
  BY <1>2, <1>3, <1>4 DEF Sound, Key
<1>6. db' \in Database /\ Consistent(db)'
  BY <1>1, <1>5, SoundTables
<1>7. disk' \subseteq PlanFile /\ IsFiniteSet(disk')
  <2>1. disk' = disk \cup {Stored("static", u.user, u.file)}
    BY DEF SendPlan, Change
  <2>2. Stored("static", u.user, u.file) \in PlanFile
    BY DEF Stored, PlanFile, Upload
  <2>3. QED
    BY <2>1, <2>2, FS_AddElement DEF Typed
<1>8. QED
  BY <1>1, <1>6, <1>7 DEF ChangeSound, Tables, IdsOf

LEMMA AnalyseSound ==
    ASSUME Typed, Consistent(db), NEW u \in db.uploads, NEW r \in ReportIds, Analyse(u, r)
    PROVE  ChangeSound
<1> DEFINE stale == {o \in db.reports : o.upload = u.id}
           report == [id |-> r, user |-> u.user, upload |-> u.id, file |-> u.file]
           reports == (db.reports \ stale) \cup {report}
<1>1. db' = Tables(db.users, db.uploads, reports, db.sims, db.chats)
  BY DbFields DEF Analyse, Change, Tables
<1>2. Sound(db.users, db.uploads, db.reports, db.sims, db.chats)
  BY TablesSound
<1>3. u \in Upload /\ report \in Report
  BY <1>2 DEF Sound, Upload, Report
<1>4. \A q \in db.reports : q.id # r
  BY DEF Analyse, IdsOf
<1>5. IsFiniteSet(reports)
  <2>1. IsFiniteSet(db.reports \ stale)
    BY <1>2, FS_Difference DEF Sound
  <2> HIDE DEF stale, report
  <2>2. QED
    BY <2>1, FS_AddElement
<1>6. Sound(db.users, db.uploads, reports, db.sims, db.chats)
  <2>1. reports \subseteq Report
    BY <1>2, <1>3 DEF Sound
  <2>2. \A a \in reports : a = report \/ (a \in db.reports /\ a.upload # u.id /\ a.id # r)
    BY <1>4
  <2>3. report.id = r /\ report.upload = u.id /\ report.user = u.user
    OBVIOUS
  <2> HIDE DEF report, reports, stale
  <2>4. QED
    BY <1>2, <1>5, <2>1, <2>2, <2>3 DEF Sound
<1>7. db' \in Database /\ Consistent(db)'
  BY <1>1, <1>6, SoundTables
<1>8. disk' = disk
  BY DEF Analyse, Change
<1>9. QED
  BY <1>1, <1>7, <1>8 DEF ChangeSound, Tables, Typed

LEMMA StartSimSound ==
    ASSUME Typed, Consistent(db), NEW u \in db.uploads, NEW s \in SimIds, StartSim(u, s)
    PROVE  ChangeSound
<1> DEFINE sim == [id |-> s, user |-> u.user, upload |-> u.id]
           sims == db.sims \cup {sim}
<1>1. db' = Tables(db.users, db.uploads, db.reports, sims, db.chats)
  BY DbFields DEF StartSim, Change, Tables
<1>2. Sound(db.users, db.uploads, db.reports, db.sims, db.chats)
  BY TablesSound
<1>3. sim \in Sim
  BY <1>2 DEF Sound, Upload, Sim
<1>4. \A q \in db.sims : q.id # s
  BY DEF StartSim, IdsOf
<1>5. IsFiniteSet(sims)
  BY <1>2, FS_AddElement DEF Sound
<1>6. Sound(db.users, db.uploads, db.reports, sims, db.chats)
  BY <1>2, <1>3, <1>4, <1>5 DEF Sound
<1>7. db' \in Database /\ Consistent(db)'
  BY <1>1, <1>6, SoundTables
<1>8. disk' = disk
  BY DEF StartSim, Change
<1>9. QED
  BY <1>1, <1>7, <1>8 DEF ChangeSound, Tables, Typed

LEMMA ChatSound ==
    ASSUME Typed, Consistent(db), NEW user \in db.users, NEW c \in ChatIds, Chat(user, c)
    PROVE  ChangeSound
<1> DEFINE chat == [id |-> c, user |-> user]
           chats == db.chats \cup {chat}
<1>1. db' = Tables(db.users, db.uploads, db.reports, db.sims, chats)
  BY DbFields DEF Chat, Change, Tables
<1>2. Sound(db.users, db.uploads, db.reports, db.sims, db.chats)
  BY TablesSound
<1>3. chat \in ChatRow
  BY <1>2 DEF Sound, ChatRow
<1>4. \A q \in db.chats : q.id # c
  BY DEF Chat, IdsOf
<1>5. IsFiniteSet(chats)
  BY <1>2, FS_AddElement DEF Sound
<1>6. Sound(db.users, db.uploads, db.reports, db.sims, chats)
  BY <1>2, <1>3, <1>4, <1>5 DEF Sound
<1>7. db' \in Database /\ Consistent(db)'
  BY <1>1, <1>6, SoundTables
<1>8. disk' = disk
  BY DEF Chat, Change
<1>9. QED
  BY <1>1, <1>7, <1>8 DEF ChangeSound, Tables, Typed

LEMMA DeleteReportSound ==
    ASSUME Typed, Consistent(db), NEW r \in db.reports, DeleteReport(r)
    PROVE  ChangeSound
<1> DEFINE reports == db.reports \ {r}
<1>1. db' = Tables(db.users, db.uploads, reports, db.sims, db.chats)
  BY DbFields DEF DeleteReport, Change, Tables
<1>2. Sound(db.users, db.uploads, db.reports, db.sims, db.chats)
  BY TablesSound
<1>3. IsFiniteSet(reports)
  BY <1>2, FS_RemoveElement DEF Sound
<1>4. Sound(db.users, db.uploads, reports, db.sims, db.chats)
  BY <1>2, <1>3 DEF Sound
<1>5. db' \in Database /\ Consistent(db)'
  BY <1>1, <1>4, SoundTables
<1>6. disk' = disk
  BY DEF DeleteReport, Change
<1>7. QED
  BY <1>1, <1>5, <1>6 DEF ChangeSound, Tables, Typed

LEMMA DeleteUserSound ==
    ASSUME Typed, Consistent(db), NEW user \in db.users, DeleteUser(user)
    PROVE  ChangeSound
<1> DEFINE users == db.users \ {user}
           uploads == {u \in db.uploads : u.user # user}
           reports == {r \in db.reports : r.user # user}
           sims == {s \in db.sims : s.user # user}
           chats == {c \in db.chats : c.user # user}
<1>1. db' = Tables(users, uploads, reports, sims, chats)
  BY DEF DeleteUser, Change, Tables
<1>2. Sound(db.users, db.uploads, db.reports, db.sims, db.chats)
  BY TablesSound
<1>3. IsFiniteSet(uploads) /\ IsFiniteSet(reports) /\ IsFiniteSet(sims) /\ IsFiniteSet(chats)
  <2>1. /\ uploads \in SUBSET db.uploads /\ reports \in SUBSET db.reports
        /\ sims \in SUBSET db.sims /\ chats \in SUBSET db.chats
    OBVIOUS
  <2> HIDE DEF uploads, reports, sims, chats
  <2>2. QED
    BY <1>2, <2>1, FS_Subset DEF Sound
<1>4. Sound(users, uploads, reports, sims, chats)
  BY <1>2, <1>3 DEF Sound
<1>5. db' \in Database /\ Consistent(db)'
  <2> HIDE DEF users, uploads, reports, sims, chats
  <2>1. QED
    BY <1>1, <1>4, SoundTables
<1>6. disk' = disk /\ db'.users = users /\ user \notin users
  BY <1>1 DEF DeleteUser, Change, Tables
<1>7. QED
  BY <1>5, <1>6 DEF ChangeSound, Typed

\* What all these steps have in common.
Changed ==
    /\ UNCHANGED <<export, archive>> /\ changes' \in Nat
    /\ export.pc \notin {"done", "failed"}
    /\ since' = IF Collecting THEN since \cap db'.uploads ELSE since

LEMMA ChangeChanges ==
    ASSUME Typed, NEW d, NEW files, NEW reportFiles, Change(d, files, reportFiles)
    PROVE  Changed
BY DEF Change, Changed, Typed

LEMMA OthersSound ==
    ASSUME Typed, Consistent(db), Others
    PROVE  ChangeSound /\ Changed
<1>1. CASE \E u \in Upload : SendPlan(u)
  BY <1>1, SendPlanSound, ChangeChanges DEF SendPlan
<1>2. CASE \E u \in db.uploads, r \in ReportIds : Analyse(u, r)
  BY <1>2, AnalyseSound, ChangeChanges DEF Analyse
<1>3. CASE \E u \in db.uploads, s \in SimIds : StartSim(u, s)
  BY <1>3, StartSimSound, ChangeChanges DEF StartSim
<1>4. CASE \E user \in db.users, c \in ChatIds : Chat(user, c)
  BY <1>4, ChatSound, ChangeChanges DEF Chat
<1>5. CASE \E r \in db.reports : DeleteReport(r)
  BY <1>5, DeleteReportSound, ChangeChanges DEF DeleteReport
<1>6. CASE \E r \in md : UnlinkReport(r)
  <2>1. PICK r \in md : Change(db, disk, md \ {r})
    BY <1>6 DEF UnlinkReport
  <2>2. QED
    BY <2>1, ChangeChanges DEF Change, Typed, ChangeSound
<1>7. CASE \E f \in disk : UnlinkPlan(f)
  <2>1. PICK f \in disk : Change(db, disk \ {f}, md)
    BY <1>7 DEF UnlinkPlan
  <2>2. IsFiniteSet(disk')
    BY <2>1, FS_RemoveElement DEF Change, Typed
  <2>3. QED
    BY <2>1, <2>2, ChangeChanges DEF Change, Typed, ChangeSound
<1>8. CASE \E user \in db.users : DeleteUser(user)
  BY <1>8, DeleteUserSound, ChangeChanges DEF DeleteUser
<1>9. QED
  BY <1>1, <1>2, <1>3, <1>4, <1>5, <1>6, <1>7, <1>8 DEF Others

-----------------------------------------------------------------------------
(* Steps that keep the inductive invariant.                                *)

LEMMA ChangeKeeps ==
    ASSUME IInv, Others
    PROVE  IInv'
<1>1. ChangeSound /\ Changed
  BY OthersSound DEF IInv
<1>2. Typed' /\ Consistent(db)'
  BY <1>1 DEF IInv, Typed, ChangeSound, Changed
<1>3. /\ PathsTell' /\ EntriesApart' /\ SoFar' /\ RowsApart' /\ SeenHasEntry'
      /\ ArchiveGrows' /\ ManifestTrue'
  BY <1>1 DEF Changed, IInv, PathsTell, EntriesApart, SoFar, RowsApart, SeenHasEntry,
              ArchiveGrows, ManifestTrue, Planned, Goes
<1>4. since' \subseteq since /\ (Collecting => since' \subseteq db'.uploads)
  BY <1>1 DEF Changed
<1>5. SinceThere'
  BY <1>1, <1>4 DEF Changed, IInv, SinceThere, Goes, Collecting
<1>6. UploadsCovered'
  <2>1. \A u : Covered(u)' <=> Covered(u)
    BY <1>1 DEF Changed, Covered, Planned
  <2>2. QED
    BY <1>1, <1>4, <2>1 DEF Changed, IInv, UploadsCovered, Goes, Asks
<1>7. NamesThere'
  <2>1. db'.users = Users => db.users = Users /\ IdsOf(db.uploads) \subseteq IdsOf(db'.uploads)
    BY <1>1, DbFields DEF IInv, ChangeSound
  <2>2. QED
    BY <1>1, <2>1 DEF Changed, IInv, NamesThere, Goes
<1>8. QED
  BY <1>2, <1>3, <1>5, <1>6, <1>7 DEF IInv

\* While it collects, the export only reads.
Reads ==
    /\ Collecting /\ Collecting'
    /\ UNCHANGED <<db, disk, archive, changes, since>>
    /\ export' \in Run /\ export'.users = export.users /\ export'.include = export.include

Aside ==
    Typed /\ Consistent(db) /\ SinceThere /\ ArchiveGrows /\ ManifestTrue

LEMMA ReadsKeep ==
    ASSUME IInv, Reads
    PROVE  Aside'
<1>1. Typed' /\ Consistent(db)' /\ SinceThere'
  BY DEF Reads, IInv, Typed, SinceThere, Collecting, Goes
<1>2. ArchiveGrows'
  BY DEF Reads, IInv, ArchiveGrows, Collecting, Goes
<1>3. ManifestTrue'
  BY DEF Reads, ManifestTrue, Collecting, Goes
<1>4. QED
  BY <1>1, <1>2, <1>3 DEF Aside

LEMMA CollectUsersKeeps ==
    ASSUME IInv, NEW include \in Includes, NEW selected \in SUBSET Users,
           CollectUsers(include, selected)
    PROVE  IInv'
<1> DEFINE users == selected \cap db.users
           pc == IF users = {} THEN "sending" ELSE "reports"
<1>1. /\ export = Idle /\ archive = <<>>
      /\ UNCHANGED <<db, disk, md, archive, changes>>
  BY DEF CollectUsers, IInv, ArchiveGrows, Goes
<1>2. /\ export' = [pc |-> pc, include |-> include, users |-> users, entries |-> <<>>,
                    rows |-> <<>>, seen |-> {}, left |-> <<>>, manifest |-> {}]
      /\ since' = Of(db.uploads, users)
  BY <1>1 DEF CollectUsers, Idle
<1>3. Typed' /\ Consistent(db)'
  <2>1. export' \in Run
    BY <1>2 DEF Run, Steps
  <2>2. QED
    BY <1>1, <2>1 DEF IInv, Typed
<1>4. Planned' = {} /\ DOMAIN export'.entries = {} /\ export'.entries = <<>>
  BY <1>2 DEF Planned, ToSet
<1>5. /\ PathsTell' /\ EntriesApart' /\ SoFar' /\ RowsApart' /\ SeenHasEntry' /\ NamesThere'
  BY <1>2, <1>4 DEF PathsTell, EntriesApart, SoFar, RowsApart, SeenHasEntry, NamesThere, Goes
<1>6. SinceThere'
  BY <1>1, <1>2 DEF SinceThere, Goes, Collecting, Of
<1>7. UploadsCovered'
  <2>1. users = {} => since' = {}
    BY <1>2 DEF Of
  <2>2. QED
    BY <1>2, <2>1 DEF UploadsCovered, Goes
<1>8. ArchiveGrows' /\ ManifestTrue'
  BY <1>1, <1>2 DEF ArchiveGrows, ManifestTrue, Goes, PathsOf
<1>9. QED
  BY <1>3, <1>5, <1>6, <1>7, <1>8 DEF IInv

LEMMA CollectReportsKeeps ==
    ASSUME IInv, CollectReports
    PROVE  IInv'
<1> DEFINE rows == IF Asks("reports") THEN Of(db.reports, export.users) ELSE {}
           ordered == ById(rows)
           new == [i \in DOMAIN ordered |-> ReportEntry(ordered[i])]
<1>1. /\ export.pc = "reports" /\ export \in Run
      /\ UNCHANGED <<db, disk, md, archive, changes, since>>
      /\ export' = [export EXCEPT !.pc = "sessions", !.entries = new]
  BY DEF CollectReports, Goes, IInv, Typed
<1>2. EachOnce(ordered, rows)
  <2>1. rows \in SUBSET db.reports
    BY DEF Of
  <2>2. IsFiniteSet(rows)
    <3> HIDE DEF rows
    <3>1. QED
      BY <2>1, FS_Subset DEF IInv, Consistent
  <2>3. \A r \in rows : r \in Report
    BY <2>1, DbFields DEF IInv
  <2>4. \A r, q \in rows : r.id = q.id => r = q
    BY <2>1 DEF IInv, Consistent
  <2>5. \A r \in rows : r.id \in Int
    BY <2>3 DEF Report
  <2> HIDE DEF rows
  <2>6. QED
    BY <2>2, <2>4, <2>5, RowsById
<1>3. \A i \in DOMAIN ordered : ordered[i] \in Report
  <2>1. rows \subseteq Report
    BY DbFields DEF IInv, Of
  <2> HIDE DEF rows, ordered
  <2>2. QED
    BY <1>2, <2>1 DEF EachOnce
<1>4. new \in Seq(Entries) /\ DOMAIN new = DOMAIN ordered
  <2>1. DOMAIN ordered = 1 .. Len(ordered) /\ Len(ordered) \in Nat
    BY <1>2 DEF EachOnce
  <2>2. \A i \in DOMAIN ordered : ReportEntry(ordered[i]) \in Entries
    BY <1>3, ReportEntryTyped
  <2> HIDE DEF ordered
  <2>3. QED
    BY <2>1, <2>2
<1>5. \A i \in DOMAIN new : new[i].path[1] = new[i].kind /\ new[i].path[2] = new[i].user
                             /\ new[i].kind = "report"
  <2> HIDE DEF ordered
  <2>1. QED
    BY <1>3, <1>4, ReportEntryTyped
<1>6. \A i, j \in DOMAIN new : new[i].path = new[j].path => i = j
  <2> SUFFICES ASSUME NEW i \in DOMAIN ordered, NEW j \in DOMAIN ordered,
                      ReportEntry(ordered[i]).path = ReportEntry(ordered[j]).path
               PROVE  i = j
    BY <1>4
  <2>1. NumberOfReport(ordered[i]) = NumberOfReport(ordered[j])
    <3> HIDE DEF ordered
    <3>1. QED
      BY <1>3, ReportEntryTyped
  <2>2. ordered[i].upload = ordered[j].upload /\ (ordered[i].upload = 0 => ordered[i].id = ordered[j].id)
    <3> HIDE DEF ordered
    <3>1. QED
      BY <1>3, <2>1, NumbersTell
  <2>3. ordered[i] \in db.reports /\ ordered[j] \in db.reports
    <3>1. ordered[i] \in rows /\ ordered[j] \in rows
      <4> HIDE DEF ordered, rows
      <4>1. QED
        BY <1>2 DEF EachOnce
    <3>2. QED
      BY <3>1 DEF Of
  <2>4. ordered[i] = ordered[j]
    <3> HIDE DEF ordered
    <3>1. QED
      BY <2>2, <2>3 DEF IInv, Consistent
  <2>5. QED
    <3> HIDE DEF ordered, rows
    <3>1. QED
      BY <1>2, <2>4 DEF EachOnce
<1>7. Planned = {}
  BY <1>1 DEF IInv, SoFar, Goes
<1>8. export'.entries = export.entries \o new
  <2>1. export.entries = <<>>
    <3>1. Len(export.entries) = 0
      <4>1. export.entries \in Seq(Entries)
        BY <1>1 DEF Run
      <4>2. 1 \notin DOMAIN export.entries
        BY <1>7 DEF Planned, ToSet
      <4>3. QED
        BY <4>1, <4>2
    <3>2. QED
      BY <1>1, <3>1 DEF Run
  <2> HIDE DEF new
  <2>2. QED
    BY <1>1, <1>4, <2>1 DEF Run
<1> HIDE DEF new, ordered, rows
<1>9. export'.entries \in Seq(Entries) /\ PathsTell' /\ EntriesApart' /\ Planned' = ToSet(new)
  <2>1. Typed /\ PathsTell /\ EntriesApart
    BY DEF IInv
  <2>2. \A e \in Planned, i \in DOMAIN new : e.path # new[i].path
    BY <1>7
  <2>3. \A i \in DOMAIN new : new[i].path[1] = new[i].kind /\ new[i].path[2] = new[i].user
    BY <1>5
  <2>4. QED
    BY <1>4, <1>6, <1>7, <1>8, <2>1, <2>2, <2>3, Collected
<1>10. Aside'
  <2>1. Reads
    BY <1>1, <1>9 DEF Reads, Run, Steps, Collecting
  <2>2. QED
    BY <2>1, ReadsKeep
<1>11. SoFar' /\ RowsApart' /\ SeenHasEntry' /\ UploadsCovered' /\ NamesThere'
  BY <1>1, <1>5, <1>9 DEF SoFar, RowsApart, SeenHasEntry, UploadsCovered, NamesThere, Goes, ToSet, Run
<1>12. QED
  BY <1>9, <1>10, <1>11 DEF IInv, Aside

LEMMA CollectSessionsKeeps ==
    ASSUME IInv, CollectSessions
    PROVE  IInv'
<1> DEFINE rows == IF Asks("conversations") THEN ById(Of(db.chats, export.users)) ELSE <<>>
           new == [i \in DOMAIN rows |-> SessionEntry(rows[i])]
           pc == IF Asks("lessonplans") THEN "scan" ELSE "sims"
<1>1. /\ export.pc = "sessions" /\ export \in Run
      /\ UNCHANGED <<db, disk, md, archive, changes, since>>
      /\ export' = [export EXCEPT !.pc = pc, !.entries = export.entries \o new]
  BY DEF CollectSessions, Goes, IInv, Typed
<1>2. /\ rows \in Seq(ChatRow)
      /\ \A i, j \in DOMAIN rows : rows[i].id = rows[j].id => i = j
  <2>1. PICK chats \in SUBSET db.chats : chats = Of(db.chats, export.users)
    BY DEF Of
  <2>2. /\ IsFiniteSet(chats) /\ \A c \in chats : c \in ChatRow
        /\ \A c, b \in chats : c.id = b.id => c = b
    BY DbFields, FS_Subset DEF IInv, Consistent
  <2>3. EachOnce(ById(chats), chats)
    BY <2>2, RowsById DEF ChatRow
  <2>4. CASE Asks("conversations")
    <3>1. rows = ById(chats)
      BY <2>1, <2>4
    <3> HIDE DEF rows
    <3>2. QED
      BY <2>2, <2>3, <3>1 DEF EachOnce
  <2>5. CASE ~Asks("conversations")
    BY <2>5
  <2>6. QED
    BY <2>4, <2>5
<1> HIDE DEF rows
<1>3. /\ new \in Seq(Entries) /\ DOMAIN new = DOMAIN rows
      /\ \A i \in DOMAIN rows :
            /\ new[i].path = <<"conversation", rows[i].user, <<"session", rows[i].id>>>>
            /\ new[i].kind = "conversation" /\ new[i].user = rows[i].user
  <2>1. \A i \in DOMAIN rows : rows[i] \in ChatRow
    BY <1>2
  <2>2. QED
    BY <1>2, <2>1, SessionEntryTyped
<1> HIDE DEF new
<1>4. /\ \A i \in DOMAIN new : new[i].path[1] = new[i].kind /\ new[i].path[2] = new[i].user
      /\ \A i, j \in DOMAIN new : new[i].path = new[j].path => i = j
      /\ \A e \in ToSet(new) : e.kind = "conversation"
  BY <1>2, <1>3 DEF ToSet
<1>5. \A e \in Planned : e.kind = "report" /\ e.path[1] = "report"
  BY <1>1 DEF IInv, SoFar, PathsTell, Goes
<1>6. export'.entries = export.entries \o new
  BY <1>1 DEF Run
<1>7. /\ export'.entries \in Seq(Entries) /\ PathsTell' /\ EntriesApart'
      /\ Planned' = Planned \cup ToSet(new)
  <2>1. Typed /\ PathsTell /\ EntriesApart
    BY DEF IInv
  <2>2. \A e \in Planned, i \in DOMAIN new : e.path # new[i].path
    BY <1>3, <1>5
  <2>3. QED
    BY <1>3, <1>4, <1>6, <2>1, <2>2, Collected
<1>8. Aside'
  <2>1. Reads
    BY <1>1, <1>7 DEF Reads, Run, Steps, Collecting
  <2>2. QED
    BY <2>1, ReadsKeep
<1>9. SoFar' /\ RowsApart' /\ SeenHasEntry' /\ UploadsCovered' /\ NamesThere'
  BY <1>1, <1>4, <1>5, <1>7
     DEF SoFar, RowsApart, SeenHasEntry, UploadsCovered, NamesThere, Goes, Run, Asks
<1>10. QED
  BY <1>7, <1>8, <1>9 DEF IInv, Aside

LEMMA ScanDiskKeeps ==
    ASSUME IInv, ScanDisk
    PROVE  IInv'
<1>1. PICK found \in SUBSET disk : found = {f \in disk : f.dir = "data" /\ f.user \in export.users}
  OBVIOUS
<1>2. PICK ordered : ordered = SetToSeq(found)
  OBVIOUS
<1> DEFINE new == [i \in DOMAIN ordered |-> ScanEntry(ordered[i])]
           seen == {<<f.user, f.file>> : f \in found}
<1>3. /\ export.pc = "scan" /\ export \in Run
      /\ UNCHANGED <<db, disk, md, archive, changes, since>>
      /\ export' = [export EXCEPT !.pc = "plan rows", !.seen = seen,
                                  !.entries = export.entries \o new]
  BY <1>1, <1>2 DEF ScanDisk, Goes, IInv, Typed
<1>4. EachOnce(ordered, found)
  <2>1. IsFiniteSet(found)
    BY FS_Subset DEF IInv, Typed
  <2>2. QED
    BY <1>2, <2>1, AnyOrder
<1>5. /\ \A f \in found : f \in PlanFile
      /\ \A f, g \in found : f.user = g.user /\ f.file = g.file => f = g
  BY <1>1 DEF IInv, Typed, PlanFile
<1>6. /\ new \in Seq(Entries) /\ DOMAIN new = DOMAIN ordered
      /\ \A i \in DOMAIN ordered :
            /\ new[i].path = <<"lessonplan", ordered[i].user, <<"file", ordered[i].file>>>>
            /\ OfFile(new[i]) /\ StandsFor(new[i], ordered[i].user, ordered[i].file)
  <2>1. /\ \A i \in DOMAIN ordered : ordered[i] \in PlanFile
        /\ DOMAIN ordered = 1 .. Len(ordered) /\ Len(ordered) \in Nat
    BY <1>4, <1>5 DEF EachOnce
  <2>2. QED
    BY <2>1, ScanEntryTyped
<1> HIDE DEF new
<1>7. /\ \A i \in DOMAIN new : new[i].path[1] = new[i].kind /\ new[i].path[2] = new[i].user
      /\ \A i, j \in DOMAIN new : new[i].path = new[j].path => i = j
      /\ \A e \in ToSet(new) : OfFile(e)
  <2>1. \A i \in DOMAIN new : new[i].path[1] = new[i].kind /\ new[i].path[2] = new[i].user
    BY <1>6 DEF OfFile, StandsFor
  <2>2. \A i, j \in DOMAIN new : new[i].path = new[j].path => i = j
    BY <1>4, <1>5, <1>6 DEF EachOnce
  <2>3. QED
    BY <1>6, <2>1, <2>2 DEF ToSet
<1>8. \A e \in Planned : e.kind \in {"report", "conversation"} /\ e.path[1] = e.kind
  BY <1>3 DEF IInv, SoFar, PathsTell, Goes
<1>9. /\ export'.entries = export.entries \o new
      /\ export' \in Run \/ export'.entries \notin Seq(Entries)
      /\ export'.pc = "plan rows" /\ export'.seen = seen
      /\ export'.users = export.users /\ export'.include = export.include
  <2>1. seen \subseteq Users \X Files
    BY <1>5 DEF PlanFile
  <2> HIDE DEF seen
  <2>2. QED
    BY <1>3, <2>1 DEF Run, Steps
<1>10. /\ export'.entries \in Seq(Entries) /\ PathsTell' /\ EntriesApart'
       /\ Planned' = Planned \cup ToSet(new)
  <2>1. Typed /\ PathsTell /\ EntriesApart
    BY DEF IInv
  <2>2. \A e \in Planned, i \in DOMAIN new : e.path # new[i].path
    BY <1>6, <1>8
  <2>3. QED
    BY <1>6, <1>7, <1>9, <2>1, <2>2, Collected
<1>11. Aside'
  <2>1. Reads
    BY <1>3, <1>9, <1>10 DEF Reads, Collecting
  <2>2. QED
    BY <2>1, ReadsKeep
<1>12. SoFar' /\ RowsApart' /\ UploadsCovered' /\ NamesThere'
  BY <1>7, <1>8, <1>9, <1>10 DEF SoFar, RowsApart, UploadsCovered, NamesThere, Goes
<1>13. SeenHasEntry'
  <2>1. ASSUME NEW f \in found
        PROVE  \E e \in ToSet(new) : StandsFor(e, f.user, f.file)
    BY <1>4, <1>6 DEF EachOnce, ToSet
  <2>2. \A k \in seen : \E e \in ToSet(new) : StandsFor(e, k[1], k[2])
    BY <2>1
  <2>3. QED
    BY <1>9, <1>10, <2>2 DEF SeenHasEntry, Goes
<1>14. QED
  BY <1>10, <1>11, <1>12, <1>13 DEF IInv, Aside

LEMMA CollectPlanRowsKeeps ==
    ASSUME IInv, CollectPlanRows
    PROVE  IInv'
<1>1. PICK reports \in SUBSET db.reports : reports = Of(db.reports, export.users)
  BY DEF Of
<1>2. PICK rows : rows = ById(reports)
  OBVIOUS
<1>3. /\ export.pc = "plan rows" /\ export \in Run
      /\ UNCHANGED <<db, disk, md, archive, changes, since>>
      /\ export' = [export EXCEPT !.pc = "links", !.rows = rows]
  BY <1>1, <1>2 DEF CollectPlanRows, Goes, IInv, Typed
<1>4. /\ IsFiniteSet(reports) /\ \A r \in reports : r \in Report
      /\ \A r, q \in reports : r = q \/ (r.id # q.id /\ (r.upload = 0 \/ r.upload # q.upload))
  BY DbFields, FS_Subset DEF IInv, Consistent
<1>5. EachOnce(rows, reports)
  <2>1. /\ \A r \in reports : r.id \in Int
        /\ \A r, q \in reports : r.id = q.id => r = q
    BY <1>4 DEF Report
  <2>2. QED
    BY <1>2, <1>4, <2>1, RowsById
<1>6. rows \in Seq(Report)
  BY <1>4, <1>5 DEF EachOnce
<1>7. ASSUME NEW i \in DOMAIN rows, NEW j \in DOMAIN rows,
             NumberOfReport(rows[i]) = NumberOfReport(rows[j])
      PROVE  i = j
  <2>1. rows[i] \in reports /\ rows[j] \in reports
    BY <1>5 DEF EachOnce
  <2>2. /\ rows[i].upload = rows[j].upload
        /\ rows[i].upload = 0 => rows[i].id = rows[j].id
    BY <1>4, <1>7, <2>1, NumbersTell
  <2>3. QED
    BY <1>4, <1>5, <2>1, <2>2 DEF EachOnce
<1>8. export' \in Run /\ export'.pc = "links" /\ export'.rows = rows
      /\ export'.entries = export.entries /\ export'.seen = export.seen
      /\ export'.users = export.users /\ export'.include = export.include
  BY <1>3, <1>6 DEF Run, Steps
<1>9. Aside'
  <2>1. Reads
    BY <1>3, <1>8 DEF Reads, Collecting
  <2>2. QED
    BY <2>1, ReadsKeep
<1>10. PathsTell' /\ EntriesApart' /\ SoFar' /\ SeenHasEntry' /\ UploadsCovered' /\ NamesThere'
  <2>1. Planned' = Planned
    BY <1>8 DEF Planned
  <2>2. PathsTell' /\ EntriesApart'
    BY <1>8, <2>1 DEF IInv, PathsTell, EntriesApart
  <2>3. SoFar' /\ UploadsCovered' /\ NamesThere'
    BY <1>3, <1>8, <2>1 DEF IInv, SoFar, UploadsCovered, NamesThere, Goes
  <2>4. SeenHasEntry'
    BY <1>3, <1>8, <2>1 DEF IInv, SeenHasEntry, Goes
  <2>5. QED
    BY <2>2, <2>3, <2>4
<1>11. RowsApart'
  BY <1>6, <1>7, <1>8 DEF RowsApart, Goes
<1>12. QED
  BY <1>9, <1>10, <1>11 DEF IInv, Aside

\* The first place of a list with a given key.
LEMMA FirstPlace ==
    ASSUME NEW S, NEW rows \in Seq(S), NEW n \in DOMAIN rows
    PROVE  \E m \in DOMAIN rows :
              /\ Key(rows[m]) = Key(rows[n])
              /\ \A j \in 1 .. m - 1 : Key(rows[j]) # Key(rows[m])
<1> DEFINE places == {j \in DOMAIN rows : Key(rows[j]) = Key(rows[n])}
<1>1. PICK minus \in [DOMAIN rows -> Int] : \A j \in DOMAIN rows : minus[j] = 0 - j
  <2>1. [j \in DOMAIN rows |-> 0 - j] \in [DOMAIN rows -> Int]
    OBVIOUS
  <2>2. QED
    BY <2>1
<1> DEFINE negatives == {minus[j] : j \in places}
<1>2. IsFiniteSet(places) /\ n \in places /\ places \subseteq DOMAIN rows
  <2>1. IsFiniteSet(DOMAIN rows)
    BY FS_Interval
  <2>2. places \in SUBSET DOMAIN rows /\ n \in places
    OBVIOUS
  <2> HIDE DEF places
  <2>3. QED
    BY <2>1, <2>2, FS_Subset
<1>3. \A j \in DOMAIN rows : j \in places <=> Key(rows[j]) = Key(rows[n])
  OBVIOUS
<1> HIDE DEF places
<1>4. negatives \in SUBSET Int /\ negatives # {}
  BY <1>1, <1>2
<1>5. IsFiniteSet(negatives)
  <2>1. PICK f \in Surjection(places, negatives) : TRUE
    <3>1. [j \in places |-> minus[j]] \in Surjection(places, negatives)
      BY <1>2 DEF Surjection
    <3>2. QED
      BY <3>1
  <2> HIDE DEF negatives
  <2>2. QED
    BY <1>2, <2>1, FS_Surjection
<1>6. PICK m \in places : \A j \in places : minus[j] <= minus[m]
  <2>1. Max(negatives) \in negatives /\ \A y \in negatives : y <= Max(negatives)
    <3> HIDE DEF negatives
    <3>1. QED
      BY <1>4, <1>5, MaxOfFinite
  <2>2. QED
    BY <2>1
<1>7. m \in DOMAIN rows /\ Key(rows[m]) = Key(rows[n])
  BY <1>2, <1>3
<1>8. ASSUME NEW j \in 1 .. m - 1
      PROVE  Key(rows[j]) # Key(rows[m])
  <2>1. j \in DOMAIN rows /\ j < m
    BY <1>7
  <2>2. ~(0 - j <= 0 - m)
    BY <1>7, <2>1
  <2>3. QED
    BY <1>1, <1>3, <1>6, <1>7, <2>1, <2>2
<1>9. QED
  BY <1>7, <1>8

\* A part of a list, with every name that was not seen once.
PartOf(part, rows) ==
    \E place \in [DOMAIN part -> DOMAIN rows] :
        /\ \A i, j \in DOMAIN part : place[i] = place[j] => i = j
        /\ \A i \in DOMAIN part : part[i] = rows[place[i]]

LEMMA UnseenRows ==
    ASSUME NEW S, NEW rows \in Seq(S), NEW seen
    PROVE  /\ Unseen(rows, seen) \in Seq(S)
           /\ PartOf(Unseen(rows, seen), rows)
           /\ \A n \in DOMAIN rows :
                  \/ Key(rows[n]) \in seen
                  \/ \E i \in DOMAIN Unseen(rows, seen) : Key(Unseen(rows, seen)[i]) = Key(rows[n])
<1> DEFINE places == {i \in DOMAIN rows :
                         /\ Key(rows[i]) \notin seen
                         /\ \A j \in 1 .. i - 1 : Key(rows[j]) # Key(rows[i])}
           n == Cardinality(places)
<1>1. PICK part : part = Unseen(rows, seen)
  OBVIOUS
<1>2. part = Sublist(rows, places)
  BY <1>1 DEF Unseen
<1>3. places \in SUBSET Int /\ IsFiniteSet(places) /\ places \subseteq DOMAIN rows
  <2>1. IsFiniteSet(DOMAIN rows) /\ DOMAIN rows \subseteq Int
    BY FS_Interval
  <2>2. places \subseteq DOMAIN rows
    OBVIOUS
  <2> HIDE DEF places
  <2>3. QED
    BY <2>1, <2>2, FS_Subset
<1>4. \A k \in DOMAIN rows : Key(rows[k]) \notin seen =>
          \E m \in places : Key(rows[m]) = Key(rows[k])
  <2> SUFFICES ASSUME NEW k \in DOMAIN rows, Key(rows[k]) \notin seen
               PROVE  \E m \in places : Key(rows[m]) = Key(rows[k])
    OBVIOUS
  <2>1. PICK m \in DOMAIN rows : /\ Key(rows[m]) = Key(rows[k])
                                 /\ \A j \in 1 .. m - 1 : Key(rows[j]) # Key(rows[m])
    BY FirstPlace
  <2>2. QED
    BY <2>1
<1> HIDE DEF places
<1>5. PICK order : /\ n \in Nat /\ DOMAIN part = 1 .. n /\ Lists(order, places)
                   /\ \A k \in 1 .. n : part[k] = rows[order[k]]
  BY <1>2, <1>3, SublistOf
<1>6. /\ order \in [1 .. n -> places]
      /\ \A i, j \in 1 .. n : order[i] = order[j] => i = j
      /\ \A x \in places : \E i \in 1 .. n : order[i] = x
  BY <1>5 DEF Lists
<1>7. part \in Seq(S)
  <2>1. ASSUME NEW k \in 1 .. n
        PROVE  part[k] \in S
    <3>1. order[k] \in DOMAIN rows /\ part[k] = rows[order[k]]
      BY <1>3, <1>5, <1>6
    <3>2. QED
      BY <3>1
  <2>2. part = [k \in 1 .. n |-> part[k]]
    BY <1>1, <1>2, <1>5 DEF Sublist
  <2>3. QED
    BY <1>5, <2>1, <2>2
<1>8. PartOf(part, rows)
  <2>1. order \in [DOMAIN part -> DOMAIN rows]
    BY <1>3, <1>5, <1>6
  <2>2. QED
    BY <1>5, <1>6, <2>1 DEF PartOf
<1>9. \A k \in DOMAIN rows : Key(rows[k]) \in seen \/ \E i \in DOMAIN part : Key(part[i]) = Key(rows[k])
  <2>1. ASSUME NEW m \in places
        PROVE  \E i \in DOMAIN part : Key(part[i]) = Key(rows[m])
    <3>1. PICK i \in 1 .. n : order[i] = m
      BY <1>6
    <3>2. QED
      BY <1>5, <3>1
  <2>2. QED
    BY <1>4, <2>1
<1>10. QED
  BY <1>1, <1>7, <1>8, <1>9

LEMMA CollectPlansOfReportsKeeps ==
    ASSUME IInv, CollectPlansOfReports
    PROVE  IInv'
<1>1. export.pc = "links" /\ export \in Run /\ export.rows \in Seq(Report)
  BY DEF CollectPlansOfReports, Goes, IInv, Typed, RowsApart
<1>2. PICK rows : rows = Unseen(export.rows, export.seen)
  OBVIOUS
<1> DEFINE new == [i \in DOMAIN rows |-> PlanOfReport(rows[i])]
           seen == export.seen \cup {Key(rows[i]) : i \in DOMAIN rows}
<1>3. /\ UNCHANGED <<db, disk, md, archive, changes, since>>
      /\ export' = [export EXCEPT !.pc = "uploads", !.rows = rows, !.seen = seen,
                                  !.entries = export.entries \o new]
  BY <1>2 DEF CollectPlansOfReports
<1>4. rows \in Seq(Report) /\ PartOf(rows, export.rows)
  BY <1>1, <1>2, UnseenRows
<1>5. \A i, j \in DOMAIN rows : NumberOfReport(rows[i]) = NumberOfReport(rows[j]) => i = j
  <2>1. PICK place \in [DOMAIN rows -> DOMAIN export.rows] :
           /\ \A i, j \in DOMAIN rows : place[i] = place[j] => i = j
           /\ \A i \in DOMAIN rows : rows[i] = export.rows[place[i]]
    BY <1>4 DEF PartOf
  <2>2. \A i, j \in DOMAIN export.rows :
           NumberOfReport(export.rows[i]) = NumberOfReport(export.rows[j]) => i = j
    BY <1>1 DEF IInv, RowsApart, Goes
  <2>3. QED
    BY <2>1, <2>2
<1>6. /\ new \in Seq(Entries) /\ DOMAIN new = DOMAIN rows
      /\ \A i \in DOMAIN rows :
            /\ new[i].path = <<"lessonplan", rows[i].user, NumberOfReport(rows[i])>>
            /\ OfRow(new[i], rows[i]) /\ StandsFor(new[i], rows[i].user, rows[i].file)
            /\ rows[i] \in Report
  <2>1. /\ \A i \in DOMAIN rows : rows[i] \in Report
        /\ DOMAIN rows = 1 .. Len(rows) /\ Len(rows) \in Nat
    BY <1>4
  <2>2. Typed
    BY DEF IInv
  <2>3. QED
    BY <2>1, <2>2, PlanOfReportTyped
<1> HIDE DEF new
<1>7. /\ \A i \in DOMAIN new : new[i].path[1] = new[i].kind /\ new[i].path[2] = new[i].user
      /\ \A i, j \in DOMAIN new : new[i].path = new[j].path => i = j
      /\ \A e \in ToSet(new) : \E i \in DOMAIN rows : OfRow(e, rows[i])
  <2>1. \A i \in DOMAIN new : new[i].path[1] = new[i].kind /\ new[i].path[2] = new[i].user
    BY <1>6 DEF OfRow, StandsFor
  <2>2. \A i, j \in DOMAIN new : new[i].path = new[j].path => i = j
    BY <1>5, <1>6
  <2>3. QED
    BY <1>6, <2>1, <2>2 DEF ToSet
<1>8. \A e \in Planned : \/ e.kind \in {"report", "conversation"} /\ e.path[1] = e.kind
                         \/ OfFile(e)
  BY <1>1 DEF IInv, SoFar, PathsTell, Goes
<1>9. /\ export'.entries = export.entries \o new
      /\ export' \in Run \/ export'.entries \notin Seq(Entries)
      /\ export'.pc = "uploads" /\ export'.seen = seen /\ export'.rows = rows
      /\ export'.users = export.users /\ export'.include = export.include
  <2>1. seen \subseteq Users \X Files
    <3>1. \A i \in DOMAIN rows : Key(rows[i]) \in Users \X Files
      BY <1>6 DEF Key, Report
    <3>2. QED
      BY <1>1, <3>1 DEF Run
  <2> HIDE DEF seen
  <2>2. QED
    BY <1>1, <1>3, <1>4, <2>1 DEF Run, Steps
<1>10. /\ export'.entries \in Seq(Entries) /\ PathsTell' /\ EntriesApart'
       /\ Planned' = Planned \cup ToSet(new)
  <2>1. Typed /\ PathsTell /\ EntriesApart
    BY DEF IInv
  <2>2. \A e \in Planned, i \in DOMAIN new : e.path # new[i].path
    <3> SUFFICES ASSUME NEW e \in Planned, NEW i \in DOMAIN new
                 PROVE  e.path # new[i].path
      OBVIOUS
    <3>1. new[i].path[1] = "lessonplan" /\ new[i].path[3] = NumberOfReport(rows[i])
      BY <1>6
    <3>2. CASE OfFile(e)
      <4>1. PICK f \in Files : e.path[3] = <<"file", f>>
        BY <3>2 DEF OfFile
      <4>2. NumberOfReport(rows[i]) # <<"file", f>>
        BY <1>6, NumberTyped
      <4>3. QED
        BY <3>1, <4>1, <4>2
    <3>3. CASE e.kind \in {"report", "conversation"} /\ e.path[1] = e.kind
      BY <3>1, <3>3
    <3>4. QED
      BY <1>8, <3>2, <3>3
  <2>3. QED
    BY <1>6, <1>7, <1>9, <2>1, <2>2, Collected
<1>11. Aside'
  <2>1. Reads
    BY <1>1, <1>3, <1>9, <1>10 DEF Reads, Collecting
  <2>2. QED
    BY <2>1, ReadsKeep
<1>12. SoFar' /\ RowsApart' /\ UploadsCovered' /\ NamesThere'
  BY <1>4, <1>5, <1>7, <1>8, <1>9, <1>10 DEF SoFar, RowsApart, UploadsCovered, NamesThere, Goes
<1>13. SeenHasEntry'
  <2>1. \A i \in DOMAIN rows : new[i] \in Planned'
    BY <1>6, <1>10 DEF ToSet
  <2>2. ASSUME NEW k \in seen
        PROVE  \E e \in Planned' : StandsFor(e, k[1], k[2])
    <3>1. CASE k \in export.seen
      <4>1. \E e \in Planned : StandsFor(e, k[1], k[2])
        BY <1>1, <3>1 DEF IInv, SeenHasEntry, Goes
      <4>2. QED
        BY <1>10, <4>1
    <3>2. CASE \E i \in DOMAIN rows : k = Key(rows[i])
      BY <1>6, <2>1, <3>2 DEF Key
    <3>3. QED
      BY <3>1, <3>2
  <2>3. \A i \in DOMAIN rows : \E e \in Planned' : OfRow(e, rows[i])
    BY <1>6, <2>1
  <2> HIDE DEF seen
  <2>4. QED
    BY <1>9, <2>2, <2>3 DEF SeenHasEntry, Goes
<1>14. QED
  BY <1>10, <1>11, <1>12, <1>13 DEF IInv, Aside

\* Two plans for one report.
LEMMA SameRow ==
    ASSUME Typed, PathsTell, EntriesApart, NEW e \in Planned, NEW f \in Planned, NEW r,
           OfRow(e, r), OfRow(f, r)
    PROVE  e = f
<1>1. e \in Entries /\ f \in Entries
  BY DEF Typed, Run, Planned, ToSet
<1>2. e.path \in Paths /\ f.path \in Paths
  BY <1>1 DEF Entries
<1>3. e.path[1] = f.path[1] /\ e.path[2] = f.path[2] /\ e.path[3] = f.path[3]
  BY DEF PathsTell, OfRow
<1>4. e.path = f.path
  BY <1>2, <1>3 DEF Paths
<1>5. QED
  BY <1>4 DEF EntriesApart, Planned, ToSet

\* The uploads no report stands for.
Left == {u \in Of(db.uploads, export.users) :
            u.id \notin {export.rows[i].upload : i \in DOMAIN export.rows}}

LEMMA LeftRows ==
    ASSUME IInv
    PROVE  /\ EachOnce(ById(Left), Left)
           /\ Left \subseteq Upload /\ Left \subseteq db.uploads
<1>1. Left \in SUBSET db.uploads
  BY DEF Left, Of
<1>2. IsFiniteSet(Left) /\ Left \subseteq Upload
  <2>1. IsFiniteSet(Left)
    BY <1>1, FS_Subset DEF IInv, Consistent
  <2>2. QED
    BY <1>1, <2>1, DbFields DEF IInv
<1>3. \A u, v \in Left : u.id = v.id => u = v
  BY <1>1 DEF IInv, Consistent
<1>4. \A u \in Left : u.id \in Int
  BY <1>2 DEF Upload
<1>5. EachOnce(ById(Left), Left)
  BY <1>2, <1>3, <1>4, RowsById
<1>6. QED
  BY <1>1, <1>2, <1>5

LEMMA CollectUploadsKeeps ==
    ASSUME IInv, CollectUploads
    PROVE  IInv'
<1>1. export.pc = "uploads" /\ export \in Run /\ export.rows \in Seq(Report)
  BY DEF CollectUploads, Goes, IInv, Typed, RowsApart
<1>2. PICK all : all = ById(Left)
  OBVIOUS
<1>3. PICK rows : rows = Unseen(all, export.seen)
  OBVIOUS
<1>4. LeftUploads = rows
  BY <1>2, <1>3 DEF LeftUploads, Left
<1> DEFINE new == [i \in DOMAIN rows |-> PlanOfUpload(rows[i])]
<1>5. /\ UNCHANGED <<db, disk, md, archive, changes, since>>
      /\ export' = [export EXCEPT !.pc = "sims", !.rows = <<>>,
                                  !.entries = export.entries \o new]
  BY <1>4 DEF CollectUploads
<1>6. /\ EachOnce(all, Left) /\ all \in Seq(Left)
      /\ \A u, v \in Left : u.id = v.id => u = v
      /\ \A u \in Left : u \in Upload
  BY <1>2, LeftRows DEF IInv, Consistent, EachOnce
<1>7. /\ rows \in Seq(Left) /\ PartOf(rows, all)
      /\ \A n \in DOMAIN all : \/ Key(all[n]) \in export.seen
                              \/ \E i \in DOMAIN rows : Key(rows[i]) = Key(all[n])
  BY <1>3, <1>6, UnseenRows
<1>8. \A i, j \in DOMAIN rows : rows[i].id = rows[j].id => i = j
  <2>1. PICK place \in [DOMAIN rows -> DOMAIN all] :
           /\ \A i, j \in DOMAIN rows : place[i] = place[j] => i = j
           /\ \A i \in DOMAIN rows : rows[i] = all[place[i]]
    BY <1>7 DEF PartOf
  <2>2. \A i, j \in DOMAIN rows : rows[i].id = rows[j].id => rows[i] = rows[j]
    BY <1>6, <1>7
  <2>3. QED
    BY <1>6, <2>1, <2>2 DEF EachOnce
<1>9. /\ new \in Seq(Entries) /\ DOMAIN new = DOMAIN rows
      /\ \A i \in DOMAIN rows :
            /\ new[i].path = <<"lessonplan", rows[i].user, <<"upload", rows[i].id>>>>
            /\ new[i].upload = rows[i].id /\ new[i].kind = "lessonplan"
            /\ new[i].user = rows[i].user
            /\ StandsFor(new[i], rows[i].user, rows[i].file)
            /\ rows[i] \in Upload /\ rows[i] \in Left
  <2>1. /\ \A i \in DOMAIN rows : rows[i] \in Left
        /\ DOMAIN rows = 1 .. Len(rows) /\ Len(rows) \in Nat
    BY <1>7
  <2>2. \A i \in DOMAIN rows : rows[i] \in Upload
    BY <1>6, <2>1
  <2>3. QED
    BY <2>1, <2>2, PlanOfUploadTyped
<1> HIDE DEF new
<1>10. /\ \A i \in DOMAIN new : new[i].path[1] = new[i].kind /\ new[i].path[2] = new[i].user
       /\ \A i, j \in DOMAIN new : new[i].path = new[j].path => i = j
       /\ \A e \in ToSet(new) : e.kind = "lessonplan"
  <2>1. \A i \in DOMAIN new : new[i].path[1] = new[i].kind /\ new[i].path[2] = new[i].user
    BY <1>9
  <2>2. \A i, j \in DOMAIN new : new[i].path = new[j].path => i = j
    BY <1>8, <1>9
  <2>3. QED
    BY <1>9, <2>1, <2>2 DEF ToSet
<1>11. \A e \in Planned : \/ e.kind \in {"report", "conversation"} /\ e.path[1] = e.kind
                          \/ OfFile(e)
                          \/ \E i \in DOMAIN export.rows : OfRow(e, export.rows[i])
  BY <1>1 DEF IInv, SoFar, PathsTell, Goes
<1>12. export'.entries = export.entries \o new
  BY <1>1, <1>5 DEF Run
<1>13. ASSUME NEW e \in Planned, NEW i \in DOMAIN new
       PROVE  e.path # new[i].path
  <2>1. new[i].path[1] = "lessonplan" /\ new[i].path[3] = <<"upload", rows[i].id>>
    BY <1>9
  <2>2. CASE e.kind \in {"report", "conversation"} /\ e.path[1] = e.kind
    BY <2>1, <2>2
  <2>3. CASE OfFile(e)
    BY <2>1, <2>3 DEF OfFile
  <2>4. CASE \E k \in DOMAIN export.rows : OfRow(e, export.rows[k])
    <3>1. PICK k \in DOMAIN export.rows : OfRow(e, export.rows[k])
      BY <2>4
    <3>2. export.rows[k] \in Report /\ rows[i].id \in Nat
      BY <1>1, <1>9 DEF Upload
    <3>3. rows[i].id # export.rows[k].upload
      BY <1>9 DEF Left
    <3>4. NumberOfReport(export.rows[k]) # <<"upload", rows[i].id>>
      BY <3>2, <3>3, NumberTyped
    <3>5. QED
      BY <2>1, <3>1, <3>4 DEF OfRow
  <2>5. QED
    BY <1>11, <2>2, <2>3, <2>4
<1>14. /\ export'.entries \in Seq(Entries) /\ PathsTell' /\ EntriesApart'
       /\ Planned' = Planned \cup ToSet(new)
  <2>1. Typed /\ PathsTell /\ EntriesApart
    BY DEF IInv
  <2>2. QED
    BY <1>9, <1>10, <1>12, <1>13, <2>1, Collected
<1>15. /\ export' \in Run /\ export'.pc = "sims" /\ export'.users = export.users
       /\ export'.include = export.include
  <2>1. export.entries \o new \in Seq(Entries) /\ <<>> \in Seq(Sim) /\ "sims" \in Steps
    BY <1>12, <1>14 DEF Steps
  <2>2. QED
    BY <1>1, <1>5, <2>1 DEF Run
<1>16. Aside'
  <2>1. Reads
    BY <1>1, <1>5, <1>15 DEF Reads, Collecting
  <2>2. QED
    BY <2>1, ReadsKeep
<1>17. SoFar' /\ RowsApart' /\ SeenHasEntry' /\ NamesThere'
  BY <1>10, <1>11, <1>14, <1>15 DEF SoFar, RowsApart, SeenHasEntry, NamesThere, Goes, OfFile, OfRow
<1>18. ASSUME NEW u \in since
       PROVE  Covered(u)'
  <2>1. u \in db.uploads /\ u.user \in export.users /\ u \in Upload /\ u.id \in Nat \ {0}
    BY <1>1, DbFields DEF IInv, SinceThere, Collecting, Upload
  <2>2. CASE u \in Left
    <3>1. PICK n \in DOMAIN all : all[n] = u
      BY <1>6, <2>2 DEF EachOnce
    <3>2. CASE Key(u) \in export.seen
      <4>1. \E e \in Planned : StandsFor(e, u.user, u.file)
        BY <1>1, <3>2 DEF IInv, SeenHasEntry, Goes, Key
      <4>2. QED
        BY <1>14, <4>1 DEF Covered
    <3>3. CASE \E i \in DOMAIN rows : Key(rows[i]) = Key(u)
      <4>1. PICK i \in DOMAIN rows : Key(rows[i]) = Key(u)
        BY <3>3
      <4>2. StandsFor(new[i], u.user, u.file) /\ new[i] \in Planned'
        BY <1>9, <1>14, <4>1 DEF Key, ToSet
      <4>3. QED
        BY <4>2 DEF Covered
    <3>4. QED
      BY <1>7, <3>1, <3>2, <3>3
  <2>3. CASE u \notin Left
    <3>1. PICK i \in DOMAIN export.rows : export.rows[i].upload = u.id
      BY <2>1, <2>3 DEF Left, Of
    <3>2. PICK e \in Planned : OfRow(e, export.rows[i])
      BY <1>1 DEF IInv, SeenHasEntry, Goes
    <3>3. ASSUME NEW f \in Planned', f.kind = "lessonplan", f.upload = u.id
          PROVE  f = e
      <4>1. f \notin ToSet(new)
        <5>1. ASSUME NEW j \in DOMAIN new
              PROVE  new[j].upload # u.id
          BY <1>9, <3>1 DEF Left
        <5>2. QED
          BY <3>3, <5>1 DEF ToSet
      <4>2. f \in Planned
        BY <1>14, <4>1
      <4>3. PICK j \in DOMAIN export.rows : OfRow(f, export.rows[j])
        BY <1>11, <2>1, <3>3, <4>2 DEF OfFile
      <4>4. /\ export.rows[i] \in Report /\ export.rows[j] \in Report
            /\ export.rows[j].upload = u.id
        BY <1>1, <3>3, <4>3 DEF OfRow
      <4>5. NumberOfReport(export.rows[i]) = NumberOfReport(export.rows[j])
        BY <2>1, <3>1, <4>4 DEF NumberOfReport
      <4>6. i = j
        BY <1>1, <4>5 DEF IInv, RowsApart, Goes
      <4>7. QED
        BY <3>2, <4>2, <4>3, <4>6, SameRow DEF IInv
    <3>4. e \in Planned' /\ e.kind = "lessonplan" /\ e.upload = u.id
      BY <1>14, <3>1, <3>2 DEF OfRow
    <3>5. {f \in {p \in Planned' : p.kind = "lessonplan"} : f.upload = u.id} = {e}
      BY <3>3, <3>4
    <3>6. QED
      BY <3>5, FS_Singleton DEF Covered
  <2>4. QED
    BY <2>2, <2>3
<1>19. UploadsCovered'
  BY <1>5, <1>18 DEF UploadsCovered
<1>20. QED
  BY <1>14, <1>16, <1>17, <1>19 DEF IInv, Aside

LEMMA CollectSimsKeeps ==
    ASSUME IInv, CollectSims
    PROVE  IInv'
<1>1. PICK sims \in SUBSET db.sims : sims = Of(db.sims, export.users)
  BY DEF Of
<1>2. PICK rows : rows = IF Asks("conversations") THEN ById(sims) ELSE <<>>
  OBVIOUS
<1>3. /\ export.pc = "sims" /\ export \in Run
      /\ UNCHANGED <<db, disk, md, archive, changes, since>>
      /\ export' = [export EXCEPT !.pc = "sim names", !.rows = rows]
  BY <1>1, <1>2 DEF CollectSims, Goes, IInv, Typed
<1>4. /\ IsFiniteSet(sims) /\ \A s \in sims : s \in Sim
      /\ \A s, t \in sims : s.id = t.id => s = t
      /\ \A s \in sims : \E u \in db.uploads : u.id = s.upload
  BY DbFields, FS_Subset DEF IInv, Consistent
<1>5. EachOnce(ById(sims), sims)
  BY <1>4, RowsById DEF Sim
<1>6. /\ rows \in Seq(Sim)
      /\ \A i, j \in DOMAIN rows : rows[i].id = rows[j].id => i = j
      /\ \A i \in DOMAIN rows : rows[i].upload \in IdsOf(db.uploads)
  <2>1. CASE Asks("conversations")
    <3>1. /\ rows \in Seq(sims) /\ \A i \in DOMAIN rows : rows[i] \in sims
          /\ \A i, j \in DOMAIN rows : rows[i] = rows[j] => i = j
      BY <1>2, <1>5, <2>1 DEF EachOnce
    <3>2. \A i \in DOMAIN rows : rows[i].upload \in IdsOf(db.uploads)
      BY <1>4, <3>1 DEF IdsOf
    <3>3. rows \in Seq(Sim) /\ \A i, j \in DOMAIN rows : rows[i].id = rows[j].id => i = j
      BY <1>4, <3>1
    <3>4. QED
      BY <3>2, <3>3
  <2>2. CASE ~Asks("conversations")
    BY <1>2, <2>2
  <2>3. QED
    BY <2>1, <2>2
<1>7. export' \in Run /\ export'.pc = "sim names" /\ export'.rows = rows
      /\ export'.entries = export.entries
      /\ export'.users = export.users /\ export'.include = export.include
  BY <1>3, <1>6 DEF Run, Steps
<1>8. Aside'
  <2>1. Reads
    BY <1>3, <1>7 DEF Reads, Collecting
  <2>2. QED
    BY <2>1, ReadsKeep
<1>9. Planned' = Planned
  BY <1>7 DEF Planned
<1>10. PathsTell' /\ EntriesApart' /\ SoFar' /\ RowsApart' /\ SeenHasEntry'
  <2>1. PathsTell' /\ EntriesApart'
    BY <1>7, <1>9 DEF IInv, PathsTell, EntriesApart
  <2>2. SoFar'
    BY <1>3, <1>7, <1>9 DEF IInv, SoFar, Goes
  <2>3. RowsApart' /\ SeenHasEntry'
    BY <1>6, <1>7 DEF RowsApart, SeenHasEntry, Goes
  <2>4. QED
    BY <2>1, <2>2, <2>3
<1>11. UploadsCovered' /\ NamesThere'
  <2>1. \A u : Covered(u)' <=> Covered(u)
    BY <1>9 DEF Covered
  <2>2. UploadsCovered'
    BY <1>3, <1>7, <2>1 DEF IInv, UploadsCovered, Goes, Asks
  <2>3. NamesThere'
    BY <1>3, <1>6, <1>7 DEF NamesThere, Goes
  <2>4. QED
    BY <2>2, <2>3
<1>12. QED
  BY <1>8, <1>10, <1>11 DEF IInv, Aside

\* The place of a simulation whose entries are at two places after one another.
LEMMA Halves ==
    ASSUME NEW n \in Nat, NEW i \in 1 .. 2 * n
    PROVE  /\ (i + 1) \div 2 \in 1 .. n
           /\ (i + 1) % 2 \in {0, 1}
           /\ i + 1 = 2 * ((i + 1) \div 2) + ((i + 1) % 2)
OBVIOUS

LEMMA SimEntriesListed ==
    ASSUME NEW rows \in Seq(Sim), \A i, j \in DOMAIN rows : rows[i].id = rows[j].id => i = j
    PROVE  /\ SimEntries(rows) \in Seq(Entries)
           /\ \A i \in DOMAIN SimEntries(rows) :
                 /\ SimEntries(rows)[i].kind \in {"simulation", "simulation_report"}
                 /\ SimEntries(rows)[i].path[1] = SimEntries(rows)[i].kind
                 /\ SimEntries(rows)[i].path[2] = SimEntries(rows)[i].user
           /\ \A i, j \in DOMAIN SimEntries(rows) :
                 SimEntries(rows)[i].path = SimEntries(rows)[j].path => i = j
<1>1. PICK n \in Nat : n = Len(rows)
  OBVIOUS
<1>2. PICK new : new = SimEntries(rows)
  OBVIOUS
<1>3. ASSUME NEW i \in 1 .. 2 * n
      PROVE  \E k \in {"simulation", "simulation_report"}, m \in 1 .. n :
                /\ new[i] = SimEntry(k, rows[m]) /\ rows[m] \in Sim
                /\ k = SimKinds[1 + ((i + 1) % 2)] /\ m = (i + 1) \div 2
  <2>1. (i + 1) \div 2 \in 1 .. n /\ (i + 1) % 2 \in {0, 1}
    BY Halves
  <2>2. PICK m, k : m \in 1 .. n /\ m = (i + 1) \div 2 /\ k = SimKinds[1 + ((i + 1) % 2)]
    BY <2>1
  <2>3. k \in {"simulation", "simulation_report"}
    BY <2>1, <2>2 DEF SimKinds
  <2>4. new[i] = SimEntry(k, rows[m])
    BY <1>1, <1>2, <2>2 DEF SimEntries
  <2>5. QED
    BY <1>1, <2>2, <2>3, <2>4
<1>4. /\ DOMAIN new = 1 .. 2 * n
      /\ new = [i \in 1 .. 2 * n |-> new[i]]
  BY <1>1, <1>2 DEF SimEntries
<1>5. ASSUME NEW i \in 1 .. 2 * n
      PROVE  /\ new[i] \in Entries
             /\ new[i].kind \in {"simulation", "simulation_report"}
             /\ new[i].path[1] = new[i].kind /\ new[i].path[2] = new[i].user
  BY <1>3, SimEntryTyped
<1>6. new \in Seq(Entries)
  BY <1>4, <1>5
<1>7. ASSUME NEW i \in 1 .. 2 * n, NEW j \in 1 .. 2 * n, new[i].path = new[j].path
      PROVE  i = j
  <2>1. PICK k \in {"simulation", "simulation_report"}, m \in 1 .. n :
           /\ new[i] = SimEntry(k, rows[m]) /\ rows[m] \in Sim
           /\ k = SimKinds[1 + ((i + 1) % 2)] /\ m = (i + 1) \div 2
    BY <1>3
  <2>2. PICK k2 \in {"simulation", "simulation_report"}, m2 \in 1 .. n :
           /\ new[j] = SimEntry(k2, rows[m2]) /\ rows[m2] \in Sim
           /\ k2 = SimKinds[1 + ((j + 1) % 2)] /\ m2 = (j + 1) \div 2
    BY <1>3
  <2>3. k = k2 /\ rows[m].id = rows[m2].id
    <3>1. new[i].path[1] = k /\ new[i].path[3][2] = rows[m].id
      <4>1. new[i].path = <<k, rows[m].user, <<"session", rows[m].id>>>>
        BY <2>1, SimEntryTyped
      <4>2. QED
        BY <4>1
    <3>2. new[j].path[1] = k2 /\ new[j].path[3][2] = rows[m2].id
      <4>1. new[j].path = <<k2, rows[m2].user, <<"session", rows[m2].id>>>>
        BY <2>2, SimEntryTyped
      <4>2. QED
        BY <4>1
    <3>3. QED
      BY <1>7, <3>1, <3>2
  <2>4. m = m2
    BY <1>1, <2>3
  <2>5. (i + 1) % 2 = (j + 1) % 2
    <3>1. (i + 1) % 2 \in {0, 1} /\ (j + 1) % 2 \in {0, 1}
      BY Halves
    <3>2. QED
      BY <2>1, <2>2, <2>3, <3>1 DEF SimKinds
  <2>6. /\ i + 1 = 2 * m + ((i + 1) % 2)
        /\ j + 1 = 2 * m + ((j + 1) % 2)
    BY <2>1, <2>2, <2>4, Halves
  <2>7. QED
    BY <2>5, <2>6
<1>8. QED
  BY <1>2, <1>4, <1>5, <1>6, <1>7

\* What a sublist has.
LEMMA SublistHas ==
    ASSUME NEW S, NEW list \in Seq(S), NEW places \in SUBSET (DOMAIN list)
    PROVE  /\ IsFiniteSet(places) /\ Cardinality(places) \in Nat
           /\ Sublist(list, places) \in Seq(S)
           /\ Len(Sublist(list, places)) = Cardinality(places)
           /\ \A k \in DOMAIN Sublist(list, places) :
                  \E i \in places : Sublist(list, places)[k] = list[i]
           /\ \A i \in places : \E k \in DOMAIN Sublist(list, places) :
                  Sublist(list, places)[k] = list[i]
<1>1. IsFiniteSet(places) /\ places \in SUBSET Int
  BY FS_Interval, FS_Subset
<1>2. PICK part, n : part = Sublist(list, places) /\ n = Cardinality(places)
  OBVIOUS
<1>3. PICK order : /\ n \in Nat /\ DOMAIN part = 1 .. n /\ Lists(order, places)
                   /\ \A k \in 1 .. n : part[k] = list[order[k]]
  BY <1>1, <1>2, SublistOf
<1>4. /\ order \in [1 .. n -> places]
      /\ \A i \in places : \E k \in 1 .. n : order[k] = i
  BY <1>2, <1>3 DEF Lists
<1>5. \A k \in 1 .. n : part[k] = list[order[k]] /\ order[k] \in places
  BY <1>3, <1>4
<1>6. part \in Seq(S) /\ Len(part) = n
  <2>1. \A k \in 1 .. n : part[k] \in S
    BY <1>5
  <2>2. part = [k \in 1 .. n |-> part[k]]
    BY <1>2, <1>3 DEF Sublist
  <2>3. QED
    BY <1>3, <2>1, <2>2
<1>7. \A i \in places : \E k \in 1 .. n : part[k] = list[i]
  BY <1>4, <1>5
<1>8. QED
  BY <1>1, <1>2, <1>3, <1>5, <1>6, <1>7

\* The archive has its own order, of the same entries.
LEMMA Reordered ==
    ASSUME NEW all \in Seq(Entries), NEW plans \in SUBSET (DOMAIN all),
           NEW left, left = Sublist(all, DOMAIN all \ plans) \o Sublist(all, plans)
    PROVE  /\ left \in Seq(Entries) /\ Len(left) = Len(all)
           /\ PathsOf(left) = PathsOf(all)
<1>1. PICK rest \in SUBSET (DOMAIN all) : rest = DOMAIN all \ plans
  OBVIOUS
<1>2. PICK a, b : a = Sublist(all, rest) /\ b = Sublist(all, plans)
  OBVIOUS
<1>3. /\ IsFiniteSet(rest) /\ Cardinality(rest) \in Nat
      /\ a \in Seq(Entries) /\ Len(a) = Cardinality(rest)
      /\ \A k \in DOMAIN a : \E i \in rest : a[k] = all[i]
      /\ \A i \in rest : \E k \in DOMAIN a : a[k] = all[i]
  BY <1>2, SublistHas
<1>4. /\ IsFiniteSet(plans) /\ Cardinality(plans) \in Nat
      /\ b \in Seq(Entries) /\ Len(b) = Cardinality(plans)
      /\ \A k \in DOMAIN b : \E i \in plans : b[k] = all[i]
      /\ \A i \in plans : \E k \in DOMAIN b : b[k] = all[i]
  BY <1>2, SublistHas
<1>5. left = a \o b
  BY <1>1, <1>2
<1>6. /\ left \in Seq(Entries) /\ Len(left) = Len(a) + Len(b)
      /\ \A k \in DOMAIN a : k \in DOMAIN left /\ left[k] = a[k]
      /\ \A k \in DOMAIN b : Len(a) + k \in DOMAIN left /\ left[Len(a) + k] = b[k]
      /\ \A k \in DOMAIN left : \/ k \in DOMAIN a /\ left[k] = a[k]
                               \/ \E j \in DOMAIN b : k = Len(a) + j /\ left[k] = b[j]
  <2>1. a \in Seq(Entries) /\ b \in Seq(Entries)
    BY <1>3, <1>4
  <2>2. left \in Seq(Entries) /\ JoinOf(left, a, b)
    BY <1>5, <2>1, Joined
  <2>3. QED
    BY <2>2 DEF JoinOf
<1>7. Len(a) + Len(b) = Len(all)
  <2>1. DOMAIN all = 1 .. Len(all) /\ Len(all) \in Nat
    OBVIOUS
  <2>2. IsFiniteSet(1 .. Len(all)) /\ Cardinality(1 .. Len(all)) = Len(all)
    <3>1. PICK n \in Nat : n = Len(all)
      BY <2>1
    <3>2. IsFiniteSet(1 .. n) /\ Cardinality(1 .. n) = IF 1 > n THEN 0 ELSE n - 1 + 1
      BY FS_Interval
    <3>3. (IF 1 > n THEN 0 ELSE n - 1 + 1) = n
      OBVIOUS
    <3>4. QED
      BY <3>1, <3>2, <3>3
  <2>3. Cardinality(rest) = Cardinality(DOMAIN all) - Cardinality(DOMAIN all \cap plans)
    BY <1>1, <2>1, <2>2, FS_Difference
  <2>4. DOMAIN all \cap plans = plans
    OBVIOUS
  <2>5. Cardinality(rest) = Len(all) - Cardinality(plans)
    BY <2>1, <2>2, <2>3, <2>4
  <2>6. /\ Cardinality(plans) \in Nat /\ Len(b) = Cardinality(plans)
        /\ Len(a) = Cardinality(rest)
    BY <1>3, <1>4
  <2>7. QED
    BY <2>1, <2>5, <2>6
<1>8. ASSUME NEW k \in DOMAIN left
      PROVE  \E i \in DOMAIN all : left[k] = all[i]
  <2>1. CASE k \in DOMAIN a /\ left[k] = a[k]
    BY <1>3, <2>1
  <2>2. CASE \E j \in DOMAIN b : k = Len(a) + j /\ left[k] = b[j]
    BY <1>4, <2>2
  <2>3. QED
    BY <1>6, <2>1, <2>2
<1>9. ASSUME NEW i \in DOMAIN all
      PROVE  \E k \in DOMAIN left : left[k] = all[i]
  <2>1. CASE i \in rest
    <3>1. PICK k \in DOMAIN a : a[k] = all[i]
      BY <1>3, <2>1
    <3>2. QED
      BY <1>6, <3>1
  <2>2. CASE i \in plans
    <3>1. PICK k \in DOMAIN b : b[k] = all[i]
      BY <1>4, <2>2
    <3>2. QED
      BY <1>6, <3>1
  <2>3. QED
    BY <1>1, <2>1, <2>2
<1>10. PathsOf(left) = PathsOf(all)
  <2>1. ASSUME NEW x \in PathsOf(left)
        PROVE  x \in PathsOf(all)
    BY <1>8, <2>1 DEF PathsOf
  <2>2. ASSUME NEW x \in PathsOf(all)
        PROVE  x \in PathsOf(left)
    BY <1>9, <2>2 DEF PathsOf
  <2>3. QED
    BY <2>1, <2>2
<1>11. QED
  BY <1>6, <1>7, <1>10

LEMMA CollectSimNamesKeeps ==
    ASSUME IInv, CollectSimNames
    PROVE  IInv'
<1>1. PICK rows \in Seq(Sim) : rows = export.rows
  BY DEF CollectSimNames, IInv, RowsApart, Goes
<1>2. PICK new : new = SimEntries(rows)
  OBVIOUS
<1>3. PICK all : all = export.entries \o new
  OBVIOUS
<1>4. PICK plans \in SUBSET (DOMAIN all) : plans = {i \in DOMAIN all : all[i].kind = "lessonplan"}
  OBVIOUS
<1>5. PICK left : left = Sublist(all, DOMAIN all \ plans) \o Sublist(all, plans)
  OBVIOUS
<1>6. /\ export.pc = "sim names" /\ export \in Run
      /\ UNCHANGED <<db, disk, md, archive, changes, since>>
      /\ export' = IF \A i \in DOMAIN rows : rows[i].upload \in IdsOf(db.uploads)
                   THEN [export EXCEPT !.pc = "sending", !.rows = <<>>, !.entries = all, !.left = left]
                   ELSE Failed
  BY <1>1, <1>2, <1>3, <1>4, <1>5 DEF CollectSimNames, Goes, IInv, Typed
<1>7. Consistent(db)' /\ archive' = <<>> /\ archive = <<>>
  BY <1>6 DEF IInv, Consistent, ArchiveGrows, Goes
<1>8. CASE \A i \in DOMAIN rows : rows[i].upload \in IdsOf(db.uploads)
  <2>1. /\ new \in Seq(Entries)
        /\ \A i \in DOMAIN new : /\ new[i].kind \in {"simulation", "simulation_report"}
                                /\ new[i].path[1] = new[i].kind
                                /\ new[i].path[2] = new[i].user
        /\ \A i, j \in DOMAIN new : new[i].path = new[j].path => i = j
    <3>1. \A i, j \in DOMAIN rows : rows[i].id = rows[j].id => i = j
      BY <1>1, <1>6 DEF IInv, RowsApart, Goes
    <3>2. QED
      BY <1>2, <3>1, SimEntriesListed
  <2>2. \A e \in Planned : e.kind \in {"report", "conversation", "lessonplan"} /\ e.path[1] = e.kind
    BY <1>6 DEF IInv, SoFar, PathsTell, Goes
  <2>3. export' = [export EXCEPT !.pc = "sending", !.rows = <<>>, !.entries = all, !.left = left]
    BY <1>6, <1>8
  <2>4. export'.entries = all
    BY <1>6, <2>3 DEF Run
  <2>5. /\ all \in Seq(Entries) /\ PathsTell' /\ EntriesApart'
        /\ Planned' = Planned \cup ToSet(new)
    <3>1. Typed /\ PathsTell /\ EntriesApart
      BY DEF IInv
    <3>2. \A e \in Planned, i \in DOMAIN new : e.path # new[i].path
      BY <2>1, <2>2
    <3>3. QED
      BY <1>3, <2>1, <2>4, <3>1, <3>2, Collected
  <2>6. left \in Seq(Entries) /\ Len(left) = Len(all) /\ PathsOf(left) = PathsOf(all)
    BY <1>5, <2>5, Reordered
  <2>7. /\ export' \in Run /\ export'.pc = "sending" /\ export'.left = left
        /\ export'.include = export.include
    <3>1. <<>> \in Seq(Sim) /\ "sending" \in Steps
      BY DEF Steps
    <3>2. all \in Seq(Entries) /\ left \in Seq(Entries) /\ export \in Run
      BY <1>6, <2>5, <2>6
    <3>3. QED
      BY <2>3, <3>1, <3>2 DEF Run
  <2>8. Typed'
    BY <1>6, <2>7 DEF IInv, Typed
  <2>9. SoFar' /\ RowsApart' /\ SeenHasEntry' /\ SinceThere' /\ NamesThere' /\ ManifestTrue'
    BY <2>7 DEF SoFar, RowsApart, SeenHasEntry, SinceThere, NamesThere, ManifestTrue, Goes, Collecting
  <2>10. UploadsCovered'
    <3>1. \A e \in ToSet(new) : e.kind # "lessonplan"
      BY <2>1 DEF ToSet
    <3>2. {p \in Planned' : p.kind = "lessonplan"} = {p \in Planned : p.kind = "lessonplan"}
      BY <2>5, <3>1
    <3>3. ASSUME NEW u, Covered(u)
          PROVE  Covered(u)'
      BY <2>5, <3>2, <3>3 DEF Covered
    <3>4. QED
      BY <1>6, <2>7, <3>3 DEF IInv, UploadsCovered, Goes, Asks
  <2>11. ArchiveGrows'
    <3>1. Len(archive') = 0 /\ PathsOf(archive') = {} /\ DOMAIN archive' = {}
      BY <1>7 DEF PathsOf
    <3>2. Len(left) \in Nat
      BY <2>6
    <3>3. QED
      BY <2>4, <2>6, <2>7, <3>1, <3>2 DEF ArchiveGrows, Goes
  <2>12. QED
    BY <1>7, <2>5, <2>8, <2>9, <2>10, <2>11 DEF IInv
<1>9. CASE ~(\A i \in DOMAIN rows : rows[i].upload \in IdsOf(db.uploads))
  <2>1. /\ export' = Failed /\ export'.pc = "failed" /\ export'.entries = <<>>
        /\ export' \in Run
    <3>1. export' = Failed
      BY <1>6, <1>9
    <3>2. QED
      <4>1. <<>> \in Seq(Sim) /\ <<>> \in Seq(Entries) /\ "failed" \in Steps
        BY DEF Steps
      <4>2. QED
        BY <3>1, <4>1 DEF Failed, Idle, Run
  <2>2. Typed'
    BY <1>6, <2>1 DEF IInv, Typed
  <2>3. Planned' = {}
    BY <2>1 DEF Planned, ToSet
  <2>4. db.users # Users
    BY <1>1, <1>6, <1>9 DEF IInv, NamesThere, Goes
  <2>5. /\ PathsTell' /\ EntriesApart' /\ SoFar' /\ RowsApart' /\ SeenHasEntry' /\ SinceThere'
        /\ UploadsCovered'
    BY <2>1, <2>3 DEF PathsTell, EntriesApart, SoFar, RowsApart, SeenHasEntry, SinceThere,
                      UploadsCovered, Goes, Collecting
  <2>6. NamesThere' /\ ArchiveGrows' /\ ManifestTrue'
    <3>1. db' = db /\ DOMAIN archive' = {}
      <4>1. db' = db
        BY <1>6
      <4>2. QED
        BY <1>7, <4>1
    <3>2. QED
      BY <1>7, <2>1, <2>4, <3>1 DEF NamesThere, ArchiveGrows, ManifestTrue, Goes
  <2>7. QED
    BY <1>7, <2>2, <2>5, <2>6 DEF IInv
<1>10. QED
  BY <1>8, <1>9

LEMMA EmitKeeps ==
    ASSUME IInv, Emit
    PROVE  IInv'
<1>1. /\ export.pc = "sending" /\ export \in Run /\ export.left # <<>>
      /\ export.left \in Seq(Entries) /\ export.entries \in Seq(Entries)
      /\ archive \in Seq(File)
      /\ UNCHANGED <<db, disk, md, changes, since>>
  BY DEF Emit, Goes, IInv, Typed, Run
<1>2. PICK left \in Seq(Entries) : left = export.left
  BY <1>1
<1>3. PICK e \in Entries : e = Head(left) /\ e = left[1]
  BY <1>1, <1>2
<1>4. PICK w : w = Written(e, Readable(e.source))
  OBVIOUS
<1>5. w \in File /\ w.path = e.path /\ w.holds = w.sha
  <2>1. e.source \in Source /\ e.path \in Paths
    BY DEF Entries
  <2>2. PICK content \in Seq(Source) : content = IF Readable(e.source) THEN <<e.source>> ELSE <<>>
    <3>1. <<e.source>> \in Seq(Source) /\ <<>> \in Seq(Source)
      BY <2>1
    <3>2. CASE Readable(e.source)
      BY <3>1, <3>2, Zenon
    <3>3. CASE ~Readable(e.source)
      BY <3>1, <3>3, Zenon
    <3>4. QED
      BY <3>2, <3>3
  <2>3. w = [path |-> e.path, holds |-> content, sha |-> content]
    BY <1>4, <2>2 DEF Written
  <2>4. QED
    BY <2>1, <2>3 DEF File
<1>6. /\ archive' = Append(archive, w)
      /\ export' = [export EXCEPT !.left = Tail(left)]
  BY <1>2, <1>3, <1>4 DEF Emit
<1>7. /\ archive' \in Seq(File) /\ Len(archive') = Len(archive) + 1
      /\ \A i \in DOMAIN archive : i \in DOMAIN archive' /\ archive'[i] = archive[i]
      /\ Len(archive) + 1 \in DOMAIN archive' /\ archive'[Len(archive) + 1] = w
      /\ \A i \in DOMAIN archive' : i \in DOMAIN archive \/ i = Len(archive) + 1
  BY <1>1, <1>5, <1>6
<1>8. /\ Tail(left) \in Seq(Entries) /\ Len(Tail(left)) = Len(left) - 1 /\ Len(left) \in Nat \ {0}
      /\ \A i \in DOMAIN Tail(left) : i + 1 \in DOMAIN left /\ Tail(left)[i] = left[i + 1]
      /\ \A i \in DOMAIN left : i = 1 \/ (i - 1 \in DOMAIN Tail(left) /\ Tail(left)[i - 1] = left[i])
  BY <1>1, <1>2
<1>9. /\ export' \in Run /\ export'.pc = "sending" /\ export'.entries = export.entries
      /\ export'.left = Tail(left) /\ export'.users = export.users
      /\ export'.include = export.include
  BY <1>1, <1>6, <1>8 DEF Run
<1>10. Typed' /\ Consistent(db)'
  BY <1>1, <1>7, <1>9 DEF IInv, Typed
<1>11. Planned' = Planned
  BY <1>9 DEF Planned
<1>12. PathsTell' /\ EntriesApart'
  BY <1>9, <1>11 DEF IInv, PathsTell, EntriesApart
<1>13. SoFar' /\ RowsApart' /\ SeenHasEntry' /\ SinceThere' /\ NamesThere' /\ ManifestTrue'
  BY <1>9 DEF SoFar, RowsApart, SeenHasEntry, SinceThere, NamesThere, ManifestTrue, Goes, Collecting
<1>14. UploadsCovered'
  <2>1. \A u : Covered(u)' <=> Covered(u)
    BY <1>11 DEF Covered
  <2>2. QED
    BY <1>1, <1>9, <2>1 DEF IInv, UploadsCovered, Goes, Asks
<1>15. /\ \A i \in DOMAIN archive : archive[i].holds = archive[i].sha
       /\ Len(archive) + Len(left) = Len(export.entries)
       /\ PathsOf(archive) \cup PathsOf(left) = PathsOf(export.entries)
  BY <1>1, <1>2 DEF IInv, ArchiveGrows, Goes
<1>16. PathsOf(archive') \cup PathsOf(Tail(left)) = PathsOf(archive) \cup PathsOf(left)
  <2>1. PathsOf(archive') = PathsOf(archive) \cup {e.path}
    <3>1. \A x : x \in PathsOf(archive') <=> x \in PathsOf(archive) \/ x = e.path
      BY <1>5, <1>7 DEF PathsOf
    <3>2. QED
      BY <3>1
  <2>2. PathsOf(left) = PathsOf(Tail(left)) \cup {e.path}
    <3>1. 1 \in DOMAIN left /\ left[1].path = e.path
      BY <1>3, <1>8
    <3>2. ASSUME NEW x \in PathsOf(left)
          PROVE  x \in PathsOf(Tail(left)) \/ x = e.path
      <4>1. PICK i \in DOMAIN left : x = left[i].path
        BY DEF PathsOf
      <4>2. QED
        BY <1>8, <3>1, <4>1 DEF PathsOf
    <3>3. ASSUME NEW x \in PathsOf(Tail(left))
          PROVE  x \in PathsOf(left)
      <4>1. PICK i \in DOMAIN Tail(left) : x = Tail(left)[i].path
        BY DEF PathsOf
      <4>2. QED
        BY <1>8, <4>1 DEF PathsOf
    <3>4. QED
      BY <3>1, <3>2, <3>3 DEF PathsOf
  <2>3. QED
    BY <2>1, <2>2
<1>17. ArchiveGrows'
  <2>1. \A i \in DOMAIN archive' : archive'[i].holds = archive'[i].sha
    BY <1>5, <1>7, <1>15
  <2>2. Len(archive') + Len(Tail(left)) = Len(export.entries)
    <3>1. PICK a \in Nat, b \in Nat : a = Len(archive) /\ b = Len(left)
      BY <1>1, <1>2
    <3>2. Len(archive') = a + 1 /\ Len(Tail(left)) = b - 1 /\ a + b = Len(export.entries)
      BY <1>7, <1>8, <1>15, <3>1
    <3>3. (a + 1) + (b - 1) = a + b
      OBVIOUS
    <3>4. QED
      BY <3>2, <3>3
  <2>3. QED
    BY <1>9, <1>15, <1>16, <2>1, <2>2 DEF ArchiveGrows, Goes
<1>18. QED
  BY <1>10, <1>12, <1>13, <1>14, <1>17 DEF IInv

\* The line of an entry.
LineOf(e) ==
    [path |-> e.path, status |-> e.status,
     sha |-> LET at == {i \in DOMAIN archive : archive[i].path = e.path} IN archive[Max(at)].sha]

LEMMA LineTrue ==
    ASSUME archive \in Seq(File), NEW e \in Entries, e.path \in PathsOf(archive)
    PROVE  /\ LineOf(e) \in Line /\ LineOf(e).path = e.path
           /\ \E i \in DOMAIN archive : archive[i].path = e.path /\ archive[i].sha = LineOf(e).sha
<1> DEFINE at == {i \in DOMAIN archive : archive[i].path = e.path}
<1>1. at \in SUBSET DOMAIN archive /\ at # {}
  BY DEF PathsOf
<1>2. Max(at) \in at
  <2>1. IsFiniteSet(DOMAIN archive) /\ DOMAIN archive \subseteq Int
    BY FS_Interval
  <2> HIDE DEF at
  <2>2. IsFiniteSet(at) /\ at \in SUBSET Int
    BY <1>1, <2>1, FS_Subset
  <2>3. QED
    BY <1>1, <2>2, MaxOfFinite
<1>3. PICK m : m = Max(at)
  OBVIOUS
<1>4. m \in DOMAIN archive /\ archive[m].path = e.path
  BY <1>2, <1>3
<1>5. LineOf(e) = [path |-> e.path, status |-> e.status, sha |-> archive[m].sha]
  BY <1>3 DEF LineOf
<1>6. /\ archive[m].sha \in Seq(Source) /\ e.path \in Paths /\ e.status \in Statuses
  <2>1. archive[m] \in File
    BY <1>4
  <2>2. QED
    BY <2>1 DEF File, Entries
<1>7. LineOf(e) \in Line /\ LineOf(e).path = e.path /\ LineOf(e).sha = archive[m].sha
  BY <1>5, <1>6 DEF Line
<1>8. QED
  BY <1>4, <1>7

LEMMA EmitManifestKeeps ==
    ASSUME IInv, EmitManifest
    PROVE  IInv'
<1>1. /\ export.pc = "sending" /\ export \in Run /\ export.left = <<>>
      /\ export.entries \in Seq(Entries) /\ archive \in Seq(File)
      /\ UNCHANGED <<db, disk, md, archive, changes, since>>
  BY DEF EmitManifest, Goes, IInv, Typed, Run
<1> DEFINE lines == {LineOf(e) : e \in Planned}
<1>2. export' = [export EXCEPT !.pc = "done", !.manifest = lines]
  BY DEF EmitManifest, LineOf, Planned
<1>3. /\ Len(archive) = Len(export.entries)
      /\ PathsOf(archive) = PathsOf(export.entries)
      /\ \A i \in DOMAIN archive : archive[i].holds = archive[i].sha
  <2>1. Len(<<>>) = 0 /\ PathsOf(<<>>) = {} /\ Len(archive) \in Nat
    BY <1>1 DEF PathsOf
  <2>2. /\ Len(archive) + Len(<<>>) = Len(export.entries)
        /\ PathsOf(archive) \cup PathsOf(<<>>) = PathsOf(export.entries)
        /\ \A i \in DOMAIN archive : archive[i].holds = archive[i].sha
    BY <1>1 DEF IInv, ArchiveGrows, Goes
  <2>3. PICK n \in Nat : n = Len(archive)
    BY <2>1
  <2>4. n + 0 = n
    OBVIOUS
  <2>5. QED
    BY <2>1, <2>2, <2>3, <2>4
<1>4. ASSUME NEW e \in Planned
      PROVE  /\ LineOf(e) \in Line /\ LineOf(e).path = e.path
             /\ \E i \in DOMAIN archive :
                   archive[i].path = e.path /\ archive[i].holds = LineOf(e).sha
  <2>1. e \in Entries /\ e.path \in PathsOf(archive)
    <3>1. PICK i \in DOMAIN export.entries : e = export.entries[i]
      BY DEF Planned, ToSet
    <3>2. e \in Entries /\ e.path \in PathsOf(export.entries)
      BY <1>1, <3>1 DEF PathsOf
    <3>3. QED
      BY <1>3, <3>2
  <2>2. QED
    BY <1>1, <1>3, <2>1, LineTrue
<1>5. \A line \in lines : /\ line \in Line
                          /\ \E e \in Planned : line = LineOf(e) /\ line.path = e.path
                          /\ \E i \in DOMAIN archive :
                                archive[i].path = line.path /\ archive[i].holds = line.sha
  BY <1>4
<1>6. {line.path : line \in lines} = {archive[i].path : i \in DOMAIN archive}
  <2>1. {line.path : line \in lines} = {e.path : e \in Planned}
    BY <1>4
  <2>2. {e.path : e \in Planned} = PathsOf(export.entries)
    BY DEF Planned, ToSet, PathsOf
  <2>3. QED
    BY <1>3, <2>1, <2>2 DEF PathsOf
<1>7. IsFiniteSet(lines) /\ Cardinality(lines) = Len(export.entries)
  <2>1. PICK n \in Nat : n = Len(export.entries) /\ DOMAIN export.entries = 1 .. n
    BY <1>1
  <2>2. PICK f \in [1 .. n -> lines] : \A i \in 1 .. n : f[i] = LineOf(export.entries[i])
    <3>1. \A i \in 1 .. n : LineOf(export.entries[i]) \in lines
      BY <2>1 DEF Planned, ToSet
    <3> HIDE DEF lines
    <3>2. [i \in 1 .. n |-> LineOf(export.entries[i])] \in [1 .. n -> lines]
      BY <3>1
    <3>3. QED
      BY <3>2
  <2>3. ASSUME NEW i \in 1 .. n, NEW j \in 1 .. n, f[i] = f[j]
        PROVE  i = j
    <3>1. export.entries[i] \in Planned /\ export.entries[j] \in Planned
      BY <2>1 DEF Planned, ToSet
    <3>2. export.entries[i].path = export.entries[j].path
      BY <1>4, <2>2, <2>3, <3>1
    <3>3. QED
      BY <2>1, <3>2 DEF IInv, EntriesApart
  <2>4. ASSUME NEW line \in lines
        PROVE  \E i \in 1 .. n : f[i] = line
    BY <2>1, <2>2 DEF Planned, ToSet
  <2> HIDE DEF lines
  <2>5. f \in Bijection(1 .. n, lines)
    BY <2>2, <2>3, <2>4 DEF Bijection, Injection, Surjection, IsInjective
  <2>6. IsFiniteSet(1 .. n) /\ Cardinality(1 .. n) = n
    <3>1. IsFiniteSet(1 .. n) /\ Cardinality(1 .. n) = IF 1 > n THEN 0 ELSE n - 1 + 1
      BY FS_Interval
    <3>2. (IF 1 > n THEN 0 ELSE n - 1 + 1) = n
      OBVIOUS
    <3>3. QED
      BY <3>1, <3>2
  <2>7. IsFiniteSet(lines) /\ Cardinality(lines) = Cardinality(1 .. n)
    <3>1. PICK numbers : numbers = 1 .. n
      OBVIOUS
    <3>2. IsFiniteSet(numbers) /\ f \in Bijection(numbers, lines)
      BY <2>5, <2>6, <3>1
    <3>3. IsFiniteSet(lines) /\ Cardinality(lines) = Cardinality(numbers)
      BY <3>2, FS_Bijection DEF ExistsBijection
    <3>4. QED
      BY <3>1, <3>3
  <2>8. QED
    BY <2>1, <2>6, <2>7
<1> HIDE DEF lines
<1>8. /\ export' \in Run /\ export'.pc = "done" /\ export'.entries = export.entries
      /\ export'.manifest = lines /\ export'.include = export.include
  <2>1. lines \subseteq Line /\ "done" \in Steps
    BY <1>5 DEF Steps
  <2>2. QED
    BY <1>1, <1>2, <2>1 DEF Run
<1>9. Typed' /\ Consistent(db)'
  BY <1>1, <1>8 DEF IInv, Typed
<1>10. Planned' = Planned
  BY <1>8 DEF Planned
<1>11. PathsTell' /\ EntriesApart'
  BY <1>8, <1>10 DEF IInv, PathsTell, EntriesApart
<1>12. SoFar' /\ RowsApart' /\ SeenHasEntry' /\ SinceThere' /\ NamesThere'
  BY <1>8 DEF SoFar, RowsApart, SeenHasEntry, SinceThere, NamesThere, Goes, Collecting
<1>13. UploadsCovered'
  <2>1. \A u : Covered(u)' <=> Covered(u)
    BY <1>10 DEF Covered
  <2>2. QED
    BY <1>1, <1>8, <2>1 DEF IInv, UploadsCovered, Goes, Asks
<1>14. ArchiveGrows'
  BY <1>1, <1>3, <1>8 DEF ArchiveGrows, Goes
<1>15. ManifestTrue'
  BY <1>1, <1>3, <1>5, <1>6, <1>7, <1>8 DEF ManifestTrue
<1>16. QED
  BY <1>9, <1>11, <1>12, <1>13, <1>14, <1>15 DEF IInv

-----------------------------------------------------------------------------
(* Theorems.                                                               *)

LEMMA InitSound ==
    ASSUME Init
    PROVE  IInv
<1>1. db \in Database /\ Consistent(db)
  BY DEF Init, Database, Few, kSubset
<1>2. /\ disk \subseteq PlanFile /\ IsFiniteSet(disk) /\ export = Idle /\ archive = <<>>
      /\ changes = 0 /\ since = {}
  BY DEF Init
<1>3. Typed
  <2>1. <<>> \in Seq(Sim) /\ <<>> \in Seq(Entries) /\ <<>> \in Seq(File) /\ "idle" \in Steps
    BY DEF Steps
  <2>2. export \in Run
    BY <1>2, <2>1 DEF Idle, Run
  <2>3. QED
    BY <1>1, <1>2, <2>1, <2>2 DEF Typed
<1>4. Planned = {} /\ export.pc = "idle" /\ DOMAIN export.entries = {} /\ DOMAIN archive = {}
  BY <1>2 DEF Planned, ToSet, Idle
<1>5. /\ PathsTell /\ EntriesApart /\ SoFar /\ RowsApart /\ SeenHasEntry /\ SinceThere
      /\ UploadsCovered /\ NamesThere /\ ArchiveGrows /\ ManifestTrue
  BY <1>2, <1>4 DEF PathsTell, EntriesApart, SoFar, RowsApart, SeenHasEntry, SinceThere,
     UploadsCovered, NamesThere, ArchiveGrows, ManifestTrue, Goes, Collecting
<1>6. QED
  BY <1>1, <1>3, <1>5 DEF IInv

\* The inductive invariant of the export.
THEOREM ExportInvariant == Spec => []IInv
<1>1. Init => IInv
  BY InitSound
<1>2. IInv /\ [Next]_vars => IInv'
  <2> SUFFICES ASSUME IInv, [Next]_vars
               PROVE  IInv'
    OBVIOUS
  <2>1. CASE \E include \in Includes, selected \in SUBSET Users \ {{}} :
                CollectUsers(include, selected)
    BY <2>1, CollectUsersKeeps
  <2>2. CASE CollectReports
    BY <2>2, CollectReportsKeeps
  <2>3. CASE CollectSessions
    BY <2>3, CollectSessionsKeeps
  <2>4. CASE ScanDisk
    BY <2>4, ScanDiskKeeps
  <2>5. CASE CollectPlanRows
    BY <2>5, CollectPlanRowsKeeps
  <2>6. CASE CollectPlansOfReports
    BY <2>6, CollectPlansOfReportsKeeps
  <2>7. CASE CollectUploads
    BY <2>7, CollectUploadsKeeps
  <2>8. CASE CollectSims
    BY <2>8, CollectSimsKeeps
  <2>9. CASE CollectSimNames
    BY <2>9, CollectSimNamesKeeps
  <2>10. CASE Emit
    BY <2>10, EmitKeeps
  <2>11. CASE EmitManifest
    BY <2>11, EmitManifestKeeps
  <2>12. CASE Others
    BY <2>12, ChangeKeeps
  <2>13. CASE UNCHANGED vars
    <3>1. UNCHANGED <<db, disk, md, export, archive, changes, since>>
      BY <2>13 DEF vars
    <3>2. Typed' /\ Consistent(db)'
      BY <3>1 DEF IInv, Typed
    <3>3. /\ PathsTell' /\ EntriesApart' /\ SoFar' /\ RowsApart' /\ SeenHasEntry'
          /\ ArchiveGrows' /\ ManifestTrue'
      <4>1. PathsTell' /\ EntriesApart' /\ SoFar'
        BY <3>1 DEF IInv, PathsTell, EntriesApart, SoFar, Planned, Goes
      <4>2. RowsApart' /\ SeenHasEntry'
        BY <3>1 DEF IInv, RowsApart, SeenHasEntry, Planned, Goes
      <4>3. ArchiveGrows' /\ ManifestTrue'
        <5>1. ArchiveGrows'
          BY <3>1 DEF IInv, ArchiveGrows, Goes
        <5>2. ManifestTrue'
          <6>1. archive' = archive /\ export' = export /\ export'.manifest = export.manifest
            BY <3>1
          <6>2. ManifestTrue
            BY DEF IInv
          <6>3. QED
            BY <6>1, <6>2 DEF ManifestTrue, Goes
        <5>3. QED
          BY <5>1, <5>2
      <4>4. QED
        BY <4>1, <4>2, <4>3
    <3>4. SinceThere' /\ NamesThere'
      BY <3>1 DEF IInv, SinceThere, NamesThere, Goes, Collecting
    <3>5. UploadsCovered'
      <4>1. \A u : Covered(u)' <=> Covered(u)
        BY <3>1 DEF Covered, Planned
      <4>2. QED
        BY <3>1, <4>1 DEF IInv, UploadsCovered, Goes, Asks
    <3>6. QED
      BY <3>2, <3>3, <3>4, <3>5 DEF IInv
  <2>14. QED
    BY <2>1, <2>2, <2>3, <2>4, <2>5, <2>6, <2>7, <2>8, <2>9, <2>10, <2>11, <2>12, <2>13
       DEF Next, Export
<1>3. QED
  BY <1>1, <1>2, PTL DEF Spec

\* Rows, files, plan and archive are what the code takes them for, in every
\* state: an entry of each kind has the fields the archive and the manifest
\* are written from.
THEOREM ExportTyped == Spec => []Typed
<1>1. IInv => Typed
  BY DEF IInv
<1>2. QED
  BY <1>1, ExportInvariant, PTL

\* However many plans, reports, conversations and simulations there are, and
\* whatever teachers and administrators do between the queries, no two files
\* of the archive have one path, and an upload that was there all the time has
\* one file, or a file of its name stands for it.
THEOREM UploadsExportedOnce == Spec => []EveryUploadOnce
<1>1. IInv => EveryUploadOnce
  <2> SUFFICES ASSUME IInv
               PROVE  EveryUploadOnce
    OBVIOUS
  <2>1. \A u \in since : (Goes("sending") \/ Goes("done")) /\ Asks("lessonplans") => Covered(u)
    BY DEF IInv, UploadsCovered
  <2>2. \A u : Covered(u) =>
           \/ Cardinality({e \in {p \in Planned : p.kind = "lessonplan"} : e.upload = u.id}) = 1
           \/ \E e \in {p \in Planned : p.kind = "lessonplan"} : e.user = u.user /\ e.file = u.file
    BY DEF Covered, StandsFor
  <2>3. EntriesApart
    BY DEF IInv
  <2>4. QED
    BY <2>1, <2>2, <2>3 DEF EveryUploadOnce, EntriesApart
<1>2. QED
  BY <1>1, ExportInvariant, PTL

\* The manifest has a line for every file of the archive, with the hash of
\* what the file holds, although files come and go while it is being sent.
THEOREM ManifestOfArchive == Spec => []ManifestTrue
<1>1. IInv => ManifestTrue
  BY DEF IInv
<1>2. QED
  BY <1>1, ExportInvariant, PTL

\* Only the deletion of a teacher makes the request fail.
THEOREM OnlyDeletionFails == Spec => []FailsOnlyByDeletion
<1>1. IInv => FailsOnlyByDeletion
  BY DEF IInv, NamesThere, FailsOnlyByDeletion
<1>2. QED
  BY <1>1, ExportInvariant, PTL
=============================================================================
