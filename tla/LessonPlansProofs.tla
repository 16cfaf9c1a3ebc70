-------------------------- MODULE LessonPlansProofs -------------------------
(***************************************************************************)
(* Rows, files and stores of a student's lesson plans agree, for any       *)
(* number of requests, plans, stores and reports: TypeOK, RowsMatchFiles,  *)
(* EntryKept and ReportOfItsUpload hold in every state, because IInv does. *)
(*                                                                         *)
(* A lemma for each action first says what the action does, value by       *)
(* value, and then that each part of IInv survives it.                     *)
(***************************************************************************)
EXTENDS LessonPlans, FiniteSetTheorems, TLAPS

-----------------------------------------------------------------------------
(* What the types say of each value.                                       *)

Shapes ==
    /\ Latest \in Nat
    /\ minted.plan \in Nat /\ minted.store \in Nat /\ minted.report \in Nat
    /\ \A i \in 1 .. Latest : /\ uploads[i].file \in Names
                              /\ uploads[i].plan \in Plans \cup {0}
                              /\ uploads[i].store \in Stores \cup {0}
    /\ \A p \in reports : /\ p.id \in Reports /\ p.upload \in 1 .. Latest
                          /\ p.about \in Plans \cup {0}
    /\ \A p, q \in reports : p.upload = q.upload => p = q
    /\ disk \in [Names -> Texts] /\ docs \in [Stores -> SUBSET Plans]
    /\ stores \subseteq Stores /\ files \subseteq Reports
    /\ \A i \in Reports \cup Names \cup Plans \cup Stores : i \in Nat
    /\ \A i \in Reports \cup Plans \cup Stores : i # 0
    /\ Plans \subseteq Names
    /\ \A o \in Requests :
        /\ req[o].seen \subseteq Reports /\ req[o].names \subseteq Names
        /\ req[o].file \in Plans \cup {0} /\ req[o].plan \in Plans \cup {0}
        /\ req[o].report \in Reports \cup {0} /\ req[o].upload \in Nat
        /\ req[o].store \in Stores \cup {0} /\ req[o].about \in Plans \cup {0}
        /\ req[o].sure \in BOOLEAN

LEMMA Shaped ==
    ASSUME TypeOK
    PROVE  Shapes
<1>1. /\ \A i \in 1 .. Len(uploads) : uploads[i] \in Upload
      /\ Len(uploads) \in Nat
  BY DEF TypeOK
<1>2. \A i \in 1 .. Len(uploads) : /\ uploads[i].file \in Names
                                   /\ uploads[i].plan \in Plans \cup {0}
                                   /\ uploads[i].store \in Stores \cup {0}
  BY <1>1 DEF Upload
<1>3. \A p \in reports : /\ p.id \in Reports /\ p.upload \in 1 .. Len(uploads)
                         /\ p.about \in Plans \cup {0}
  BY DEF TypeOK, Report, Latest
<1>4. \A p, q \in reports : p.upload = q.upload => p = q
  BY DEF TypeOK
<1>5. minted.plan \in Nat /\ minted.store \in Nat /\ minted.report \in Nat
  BY DEF TypeOK
<1>6. \A o \in Requests : req[o] \in Request
  BY DEF TypeOK
<1>7. \A o \in Requests :
        /\ req[o].seen \subseteq Reports /\ req[o].names \subseteq Names
        /\ req[o].file \in Plans \cup {0} /\ req[o].plan \in Plans \cup {0}
        /\ req[o].report \in Reports \cup {0} /\ req[o].upload \in Nat
        /\ req[o].store \in Stores \cup {0} /\ req[o].about \in Plans \cup {0}
        /\ req[o].sure \in BOOLEAN
  BY <1>6 DEF Request
<1>8. /\ disk \in [Names -> Texts] /\ docs \in [Stores -> SUBSET Plans]
      /\ stores \subseteq Stores /\ files \subseteq Reports
  BY DEF TypeOK
<1>9. /\ \A i \in Reports \cup Names \cup Plans \cup Stores : i \in Nat
      /\ \A i \in Reports \cup Plans \cup Stores : i # 0
      /\ Plans \subseteq Names
  BY PlanBounds DEF Reports, Names, Plans, Stores, OldFile
<1>10. QED
  BY <1>1, <1>2, <1>3, <1>4, <1>5, <1>7, <1>8, <1>9 DEF Shapes, Latest

-----------------------------------------------------------------------------
(* What a step does to the requests.                                       *)

Typed == req' \in [Requests -> Request]
Others(r) == \A o \in Requests \ {r} : req'[o] = req[o]

\* The request keeps what it works on; its step, store and sureness apart.
Keeps(r) ==
    /\ req'[r].op = req[r].op /\ req'[r].file = req[r].file
    /\ req'[r].plan = req[r].plan /\ req'[r].upload = req[r].upload
    /\ req'[r].report = req[r].report /\ req'[r].about = req[r].about
    /\ req'[r].seen = req[r].seen /\ req'[r].names = req[r].names
KeepsStore(r) == req'[r].store = req[r].store /\ req'[r].sure = req[r].sure

LEMMA IdleType == Idle \in Request
BY DEF Idle, Request, Steps, Ops

LEMMA Set ==
    ASSUME TypeOK, NEW r \in Requests, NEW q \in Request,
           req' = [req EXCEPT ![r] = q]
    PROVE  Typed /\ Others(r) /\ req'[r] = q
BY DEF TypeOK, Typed, Others

LEMMA Returned ==
    ASSUME TypeOK, NEW r \in Requests, Return(r)
    PROVE  Typed /\ Others(r) /\ req'[r] = Idle
BY Set, IdleType DEF Return

LEMMA SetStep ==
    ASSUME TypeOK, NEW r \in Requests, NEW s \in Steps,
           req' = [req EXCEPT ![r].pc = s]
    PROVE  /\ Typed /\ Others(r) /\ req'[r].pc = s /\ Keeps(r)
           /\ KeepsStore(r)
<1>1. req \in [Requests -> Request] /\ req[r] \in Request
  BY DEF TypeOK
<1>2. QED
  BY <1>1 DEF Request, Typed, Others, Keeps, KeepsStore

LEMMA SetStore ==
    ASSUME TypeOK, NEW r \in Requests, NEW s \in Steps,
           NEW n \in Stores \cup {0},
           req' = [req EXCEPT ![r].pc = s, ![r].store = n]
    PROVE  /\ Typed /\ Others(r) /\ req'[r].pc = s /\ req'[r].store = n
           /\ Keeps(r) /\ req'[r].sure = req[r].sure
<1>1. req \in [Requests -> Request] /\ req[r] \in Request
  BY DEF TypeOK
<1>2. QED
  BY <1>1 DEF Request, Typed, Others, Keeps, KeepsStore

LEMMA SetReport ==
    ASSUME TypeOK, NEW r \in Requests, NEW s \in Steps, NEW i \in Reports,
           req' = [req EXCEPT ![r].pc = s, ![r].report = i]
    PROVE  /\ Typed /\ Others(r) /\ req'[r].pc = s /\ req'[r].report = i
           /\ req'[r].op = req[r].op /\ req'[r].file = req[r].file
           /\ req'[r].plan = req[r].plan /\ req'[r].upload = req[r].upload
           /\ req'[r].about = req[r].about /\ req'[r].seen = req[r].seen
           /\ req'[r].names = req[r].names /\ KeepsStore(r)
<1>1. req \in [Requests -> Request] /\ req[r] \in Request
  BY DEF TypeOK
<1>2. QED
  BY <1>1 DEF Request, Typed, Others, Keeps, KeepsStore

LEMMA SetUpload ==
    ASSUME TypeOK, NEW r \in Requests, NEW u \in Nat,
           req' = [req EXCEPT ![r].upload = u]
    PROVE  /\ Typed /\ Others(r) /\ req'[r].upload = u
           /\ req'[r].op = req[r].op /\ req'[r].file = req[r].file
           /\ req'[r].plan = req[r].plan /\ req'[r].report = req[r].report
           /\ req'[r].about = req[r].about /\ req'[r].seen = req[r].seen
           /\ req'[r].names = req[r].names /\ req'[r].pc = req[r].pc
           /\ KeepsStore(r)
<1>1. req \in [Requests -> Request] /\ req[r] \in Request
  BY DEF TypeOK
<1>2. QED
  BY <1>1 DEF Request, Typed, Others, Keeps, KeepsStore

LEMMA SetStoreSure ==
    ASSUME TypeOK, NEW r \in Requests, NEW s \in Steps,
           NEW n \in Stores \cup {0}, NEW b \in BOOLEAN,
           req' = [req EXCEPT ![r].pc = s, ![r].store = n, ![r].sure = b]
    PROVE  /\ Typed /\ Others(r) /\ req'[r].pc = s /\ req'[r].store = n
           /\ req'[r].sure = b /\ Keeps(r)
<1> DEFINE q == [[[req[r] EXCEPT !.pc = s] EXCEPT !.store = n] EXCEPT !.sure = b]
<1>1. req \in [Requests -> Request] /\ req[r] \in Request
  BY DEF TypeOK
<1>2. req' = [req EXCEPT ![r] = q]
  BY <1>1, Zenon
<1>3. q \in Request
  BY <1>1 DEF Request
<1>4. /\ q.pc = s /\ q.store = n /\ q.sure = b
      /\ q.op = req[r].op /\ q.file = req[r].file /\ q.plan = req[r].plan
      /\ q.upload = req[r].upload /\ q.report = req[r].report
      /\ q.about = req[r].about /\ q.seen = req[r].seen /\ q.names = req[r].names
  BY <1>1 DEF Request
<1> HIDE DEF q
<1>5. QED
  BY <1>2, <1>3, <1>4, Set DEF Keeps

LEMMA SetSure ==
    ASSUME TypeOK, NEW r \in Requests, NEW s \in Steps, NEW b \in BOOLEAN,
           req' = [req EXCEPT ![r].pc = s, ![r].sure = b]
    PROVE  /\ Typed /\ Others(r) /\ req'[r].pc = s /\ req'[r].sure = b
           /\ Keeps(r) /\ req'[r].store = req[r].store
<1>1. req \in [Requests -> Request] /\ req[r] \in Request
  BY DEF TypeOK
<1>2. QED
  BY <1>1 DEF Request, Typed, Others, Keeps, KeepsStore

LEMMA SetSeen ==
    ASSUME TypeOK, NEW r \in Requests, NEW s \in Steps,
           NEW S \in SUBSET Reports,
           req' = [req EXCEPT ![r].seen = S, ![r].pc = s]
    PROVE  /\ Typed /\ Others(r) /\ req'[r].seen = S /\ req'[r].pc = s
           /\ req'[r].op = req[r].op /\ req'[r].file = req[r].file
           /\ req'[r].plan = req[r].plan /\ req'[r].upload = req[r].upload
           /\ req'[r].report = req[r].report /\ req'[r].about = req[r].about
           /\ req'[r].names = req[r].names /\ KeepsStore(r)
<1>1. req \in [Requests -> Request] /\ req[r] \in Request
  BY DEF TypeOK
<1>2. QED
  BY <1>1 DEF Request, Typed, Others, Keeps, KeepsStore

LEMMA SetFile ==
    ASSUME TypeOK, NEW r \in Requests, NEW s \in Steps,
           NEW k \in Plans \cup {0},
           req' = [req EXCEPT ![r].pc = s, ![r].file = k]
    PROVE  /\ Typed /\ Others(r) /\ req'[r].pc = s /\ req'[r].file = k
           /\ req'[r].op = req[r].op /\ req'[r].plan = req[r].plan
           /\ req'[r].upload = req[r].upload /\ req'[r].report = req[r].report
           /\ req'[r].about = req[r].about /\ req'[r].seen = req[r].seen
           /\ req'[r].names = req[r].names /\ KeepsStore(r)
<1>1. req \in [Requests -> Request] /\ req[r] \in Request
  BY DEF TypeOK
<1>2. QED
  BY <1>1 DEF Request, Typed, Others, Keeps, KeepsStore

LEMMA SetNames ==
    ASSUME TypeOK, NEW r \in Requests, NEW s \in Steps,
           NEW k \in Plans \cup {0}, NEW N \in SUBSET Names,
           req' = [req EXCEPT ![r].pc = s, ![r].file = k, ![r].names = N]
    PROVE  /\ Typed /\ Others(r) /\ req'[r].pc = s /\ req'[r].file = k
           /\ req'[r].names = N /\ req'[r].op = req[r].op
           /\ req'[r].plan = req[r].plan /\ req'[r].upload = req[r].upload
           /\ req'[r].report = req[r].report /\ req'[r].about = req[r].about
           /\ req'[r].seen = req[r].seen /\ KeepsStore(r)
<1> DEFINE q == [[[req[r] EXCEPT !.pc = s] EXCEPT !.file = k] EXCEPT !.names = N]
<1>1. req \in [Requests -> Request] /\ req[r] \in Request
  BY DEF TypeOK
<1>2. req' = [req EXCEPT ![r] = q]
  BY <1>1, Zenon
<1>3. q \in Request
  BY <1>1 DEF Request
<1>4. /\ q.pc = s /\ q.file = k /\ q.names = N
      /\ q.op = req[r].op /\ q.plan = req[r].plan /\ q.store = req[r].store
      /\ q.upload = req[r].upload /\ q.report = req[r].report
      /\ q.about = req[r].about /\ q.sure = req[r].sure /\ q.seen = req[r].seen
  BY <1>1 DEF Request
<1> HIDE DEF q
<1>5. QED
  BY <1>2, <1>3, <1>4, Set DEF KeepsStore

-----------------------------------------------------------------------------
(* What the steps do, value by value.                                      *)

\* A request arrives; when it is the student's, either it meets another one
\* or there is no other one.
Fresh(r) == req[r].op = "none" /\ At(r, "idle") /\ Here
Alone(r) == ~overlapped' => ~overlapped /\ \A o \in Requests \ {r} : ~Hers(o)

Starts(r, op, step) ==
    /\ req'[r].op = op /\ req'[r].pc = step /\ req'[r].store = 0
    /\ req'[r].report = 0 /\ req'[r].about = 0
NoFile(r) == req'[r].file = 0 /\ req'[r].plan = 0
NoNames(r) == req'[r].seen = {} /\ req'[r].names = {}

LEMMA Arrived ==
    ASSUME TypeOK, RequestsSound, NEW r \in Requests, NEW op \in Ops,
           NEW q \in Request, Arrive(r, op, q)
    PROVE  /\ Typed /\ Others(r) /\ req'[r] = q /\ Fresh(r)
           /\ arrived' \in 0 .. MaxArrivals /\ overlapped' \in BOOLEAN
           /\ spilled' = spilled
           /\ op \notin AdminOps => Alone(r)
           /\ op \in AdminOps => overlapped' = overlapped
<1>1. /\ At(r, "idle") /\ Here /\ spilled' = spilled
      /\ req' = [req EXCEPT ![r] = q]
      /\ arrived < MaxArrivals /\ arrived' = arrived + 1
      /\ overlapped' = (overlapped \/ Meets(r, op))
  BY DEF Arrive, Here
<1>2. Typed /\ Others(r) /\ req'[r] = q
  BY <1>1, Set
<1>3. req[r].op = "none"
  BY <1>1 DEF RequestsSound, At
<1>4. arrived' \in 0 .. MaxArrivals
  BY <1>1, PlanBounds DEF TypeOK
<1>5. \A o \in Requests : req[o].op \in Ops \cup {"none"}
  BY DEF TypeOK, Request
<1>6. Meets(r, op) \in BOOLEAN /\ overlapped \in BOOLEAN
  BY DEF Meets, TypeOK
<1>7. op \in AdminOps => ~Meets(r, op)
  BY DEF Meets
<1>8. op \notin AdminOps /\ ~Meets(r, op) => \A o \in Requests \ {r} : ~Hers(o)
  BY <1>5 DEF Meets, Hers
<1>9. QED
  BY <1>1, <1>2, <1>3, <1>4, <1>6, <1>7, <1>8 DEF Fresh, Alone

\* The rows stay, or some reports go: their types are not in question.
LEMMA TypesKept ==
    ASSUME TypeOK, Typed, uploads' = uploads, reports' \subseteq reports,
           student' \in Students, disk' \in [Names -> Texts],
           stores' \subseteq Stores, docs' \in [Stores -> SUBSET Plans],
           files' \subseteq Reports, lost' \subseteq Reports,
           minted' \in [plan : 0 .. MaxPlans, store : 0 .. MaxStores,
                        report : 0 .. MaxReports],
           settled' \in {"no", "mixed", "alone"}, arrived' \in 0 .. MaxArrivals,
           overlapped' \in BOOLEAN, spilled' \in BOOLEAN
    PROVE  TypeOK'
<1>1. Latest' = Latest /\ Synthetic' = Synthetic
  BY DEF Latest, Synthetic
<1>2. /\ \A p \in reports' : p.upload <= Latest'
      /\ \A p, q \in reports' : p.upload = q.upload => p = q
      /\ reports' \subseteq Report
      /\ uploads' \in Seq(Upload)
      /\ Cardinality(Synthetic') <= 1
  BY <1>1 DEF TypeOK
<1>3. QED
  BY <1>2 DEF TypeOK, Typed

\* The PDF file of a request is removed.
PlanGone(r) ==
    /\ disk'[req[r].file] = 0
    /\ \A k \in Names \ {req[r].file} : disk'[k] = disk[k]

\* A report file of the next number is written.
FileWritten ==
    /\ minted'.plan = minted.plan /\ minted'.store = minted.store
    /\ minted'.report = minted.report + 1
    /\ minted.report + 1 \in Reports
    /\ files' = files \cup {minted.report + 1}

\* The text of the file of a request is added to its store.
Stored(r) ==
    /\ req[r].store \in stores
    /\ disk[req[r].file] # 0
    /\ docs'[req[r].store] = docs[req[r].store] \cup {disk[req[r].file]}
    /\ \A s \in Stores : s # req[r].store => docs'[s] = docs[s]

RowAdded(file, plan, store) ==
    /\ Latest' = Latest + 1
    /\ \A i \in 1 .. Latest : uploads'[i] = uploads[i]
    /\ uploads'[Latest + 1].file = file
    /\ uploads'[Latest + 1].plan = plan
    /\ uploads'[Latest + 1].store = store

ReportAdded(r, u, i) ==
    \E p \in Report : /\ p.id = i /\ p.upload = u
                      /\ p.about = IF overlapped THEN 0 ELSE req[r].about
                      /\ reports' = reports \cup {p}

\* What follows the removal of a store.
Removed(r) ==
    \/ req[r].op \in {"logout", "erase"} /\ req'[r] = Idle
    \/ /\ req[r].op \in {"upload", "cleanup"}
       /\ Keeps(r) /\ req'[r].pc = "forget" /\ req'[r].store = 0

Clears(r) ==
    \/ student' = student
    \/ req[r].op = "erase" /\ req[r].sure /\ student' = "cleared"

LEMMA StoresForgotten ==
    ASSUME TypeOK,
           uploads' = [i \in 1 .. Latest |-> [uploads[i] EXCEPT !.store = 0]]
    PROVE  /\ uploads' \in Seq(Upload) /\ Latest' = Latest
           /\ uploads = <<>> => uploads' = <<>>
           /\ \A i \in 1 .. Latest : /\ uploads'[i].file = uploads[i].file
                                     /\ uploads'[i].plan = uploads[i].plan
                                     /\ uploads'[i].store = 0
<1>1. uploads \in Seq(Upload) /\ Latest \in Nat /\ Latest = Len(uploads)
  BY DEF TypeOK, Latest
<1>2. \A i \in 1 .. Latest : uploads[i] \in Upload
  BY <1>1
<1>3. \A i \in 1 .. Latest : /\ [uploads[i] EXCEPT !.store = 0] \in Upload
                            /\ [uploads[i] EXCEPT !.store = 0].file = uploads[i].file
                            /\ [uploads[i] EXCEPT !.store = 0].plan = uploads[i].plan
                            /\ [uploads[i] EXCEPT !.store = 0].store = 0
  BY <1>2 DEF Upload
<1>4. uploads' \in Seq(Upload) /\ Len(uploads') = Latest
  BY <1>1, <1>3
<1>5. \A i \in 1 .. Latest : /\ uploads'[i].file = uploads[i].file
                            /\ uploads'[i].plan = uploads[i].plan
                            /\ uploads'[i].store = 0
  BY <1>3
<1>6. uploads = <<>> => uploads' = <<>>
  BY <1>1, <1>4
<1>7. QED
  BY <1>4, <1>5, <1>6 DEF Latest

LEMMA RowAppended ==
    ASSUME TypeOK, NEW row \in Upload, uploads' = Append(uploads, row)
    PROVE  /\ uploads' \in Seq(Upload) /\ Latest' = Latest + 1
           /\ RowAdded(row.file, row.plan, row.store)
           /\ row.plan # 0 => Synthetic' = Synthetic
           /\ Synthetic = {} => Synthetic' \subseteq {Latest + 1}
<1>1. uploads \in Seq(Upload) /\ Latest \in Nat /\ Latest = Len(uploads)
  BY DEF TypeOK, Latest
<1>2. /\ uploads' \in Seq(Upload) /\ Len(uploads') = Latest + 1
      /\ \A i \in 1 .. Latest : uploads'[i] = uploads[i]
      /\ uploads'[Latest + 1] = row
  BY <1>1
<1>3. RowAdded(row.file, row.plan, row.store)
  BY <1>2 DEF RowAdded, Latest
<1>4. /\ row.plan # 0 => Synthetic' = Synthetic
      /\ Synthetic = {} => Synthetic' \subseteq {Latest + 1}
  BY <1>1, <1>2 DEF Synthetic
<1>5. QED
  BY <1>2, <1>3, <1>4 DEF Latest

LEMMA AtMostOne ==
    ASSUME NEW S, NEW x, S \subseteq {x}
    PROVE  Cardinality(S) <= 1
<1>1. Cardinality({}) = 0 /\ Cardinality({x}) = 1
  BY FS_EmptySet, FS_Singleton
<1>2. S = {} \/ S = {x}
  OBVIOUS
<1>3. QED
  BY <1>1, <1>2

LEMMA SentTyped ==
    ASSUME TypeOK, PlansOnDisk, RequestsSound, NEW r \in Requests,
           req[r].op = "upload", Sent(r)
    PROVE  docs' \in [Stores -> SUBSET Plans] /\ Stored(r)
<1>1. Shapes
  BY Shaped
<1>2. disk[req[r].file] \in Plans
  BY <1>1 DEF PlansOnDisk, RequestsSound, Sent, Shapes
<1>3. QED
  BY <1>1, <1>2 DEF Sent, Stored, Shapes

LEMMA AnalysisType ==
    ASSUME Shapes
    PROVE  LET a == Analysis(Latest)
           IN  /\ a \in Request
               /\ a.op = "analyze" /\ a.pc = "find" /\ a.upload = Latest
               /\ a.sure => settled = "alone"
               /\ a.file = 0 /\ a.plan = 0 /\ a.store = 0
               /\ a.report = 0 /\ a.about = 0 /\ a.seen = {} /\ a.names = {}
<1>1. PICK b \in BOOLEAN : b = (settled = "alone")
  OBVIOUS
<1>2. Analysis(Latest) = [Idle EXCEPT !.op = "analyze", !.pc = "find",
                                      !.upload = Latest, !.sure = b]
  BY <1>1, Zenon DEF Analysis
<1> DEFINE q == [[[[Idle EXCEPT !.op = "analyze"] EXCEPT !.pc = "find"]
                     EXCEPT !.upload = Latest] EXCEPT !.sure = b]
<1>3. Analysis(Latest) = q
  BY <1>2, Zenon
<1>4. /\ Idle \in Request /\ Idle.file = 0 /\ Idle.plan = 0 /\ Idle.store = 0
      /\ Idle.report = 0 /\ Idle.about = 0 /\ Idle.seen = {} /\ Idle.names = {}
  BY DEF Idle, Request, Ops, Steps, Shapes
<1>5. "analyze" \in Ops /\ "find" \in Steps /\ Latest \in Nat
  BY DEF Ops, Steps, Shapes
<1>6. q \in Request
  BY <1>4, <1>5 DEF Request
<1>7. /\ q.op = "analyze" /\ q.pc = "find" /\ q.upload = Latest /\ q.sure = b
      /\ q.file = 0 /\ q.plan = 0 /\ q.store = 0
      /\ q.report = 0 /\ q.about = 0 /\ q.seen = {} /\ q.names = {}
  BY <1>4 DEF Request
<1> HIDE DEF q
<1>8. QED
  BY <1>1, <1>3, <1>6, <1>7

LEMMA FileTyped ==
    ASSUME TypeOK, WriteFile(minted.report + 1)
    PROVE  /\ FileWritten /\ files' \subseteq Reports
           /\ minted' \in [plan : 0 .. MaxPlans, store : 0 .. MaxStores,
                           report : 0 .. MaxReports]
BY PlanBounds, SMTT(60) DEF TypeOK, WriteFile, FileWritten, Reports

LEMMA ReportTyped ==
    ASSUME Shapes, NEW r \in Requests, NEW u \in Nat \ {0}, NEW i \in Reports
    PROVE  /\ NewReport(r, u, i) \in Report
           /\ NewReport(r, u, i).id = i /\ NewReport(r, u, i).upload = u
           /\ NewReport(r, u, i).about = IF overlapped THEN 0 ELSE req[r].about
BY DEF NewReport, Report, Shapes

LEMMA ReportsGrown ==
    ASSUME TypeOK, NEW r \in Requests, NEW u \in Nat, NEW i, NEW n \in Nat,
           Latest <= n, u <= n, \A p \in reports : p.upload # u,
           ReportAdded(r, u, i)
    PROVE  /\ reports' \subseteq Report
           /\ \A q \in reports' : q.upload <= n
           /\ \A q, s \in reports' : q.upload = s.upload => q = s
<1>1. PICK p \in Report : p.upload = u /\ reports' = reports \cup {p}
  BY DEF ReportAdded
<1>2. /\ reports \subseteq Report
      /\ \A q \in reports : q.upload <= Latest
      /\ \A q, s \in reports : q.upload = s.upload => q = s
      /\ \A q \in reports : q.upload \in Nat
      /\ Latest \in Nat
  BY DEF TypeOK, Report, Latest
<1>3. QED
  BY <1>1, <1>2

\* A plan file is done with; some others of the same deletion may be left.
NamesLeft(r) ==
    \/ req'[r] = Idle
    \/ /\ req'[r].pc = "check" /\ req'[r].file = 0
       /\ req'[r].names \subseteq req[r].names /\ req'[r].op = req[r].op
       /\ req'[r].plan = req[r].plan /\ req'[r].upload = req[r].upload
       /\ req'[r].report = req[r].report /\ req'[r].about = req[r].about
       /\ req'[r].seen = req[r].seen /\ KeepsStore(r)

LEMMA Deleted ==
    ASSUME TypeOK, Shapes, NEW r \in Requests, NEW name, PlanDone(r, name)
    PROVE  Typed /\ Others(r) /\ NamesLeft(r)
<1>1. CASE Return(r)
  BY <1>1, Returned DEF NamesLeft
<1>2. CASE req' = [req EXCEPT ![r].pc = "check", ![r].file = 0, ![r].names = @ \ {name}]
  <2>1. req \in [Requests -> Request] /\ req[r] \in Request /\ "check" \in Steps
    BY DEF TypeOK, Steps
  <2>2. QED
    BY <1>2, <2>1 DEF Request, Typed, Others, NamesLeft, KeepsStore
<1>3. QED
  BY <1>1, <1>2 DEF PlanDone

RowsRefuse(r) ==
    /\ At(r, "rows") /\ Return(r)
    /\ UNCHANGED <<database, settled, disks, cloud, minted, arrived, overlapped, spilled>>

LEMMA CleanupKeeps ==
    ASSUME IInv, NEW r \in Requests, Cleanup(r)
    PROVE  IInv'
<1>1. TypeOK /\ RequestsSound /\ Shapes
  BY Shaped DEF IInv
<1>2. /\ Typed /\ Others(r) /\ Fresh(r) /\ Alone(r)
      /\ Starts(r, "cleanup", "look") /\ NoFile(r) /\ NoNames(r)
      /\ req'[r].upload = 0 /\ req'[r].sure = FALSE
      /\ settled' = "no"
      /\ UNCHANGED <<student, disk, stores, docs, uploads, reports, files,
                     lost, minted, spilled>>
      /\ Latest' = Latest
      /\ arrived' \in 0 .. MaxArrivals /\ overlapped' \in BOOLEAN
  <2>1. [Idle EXCEPT !.op = "cleanup", !.pc = "look"] \in Request
    BY <1>1 DEF Idle, Request, Ops, Steps, Shapes
  <2>2. "cleanup" \in Ops /\ "cleanup" \notin AdminOps
    BY DEF Ops, AdminOps
  <2>3. Arrive(r, "cleanup",
           [Idle EXCEPT !.op = "cleanup", !.pc = "look"])
    BY DEF Cleanup
  <2>4. /\ Typed /\ Others(r) /\ Fresh(r)
        /\ Alone(r)
        /\ req'[r] = [Idle EXCEPT !.op = "cleanup", !.pc = "look"]
        /\ arrived' \in 0 .. MaxArrivals /\ overlapped' \in BOOLEAN
        /\ spilled' = spilled
    BY <1>1, <2>1, <2>2, <2>3, Arrived
  <2>5. QED
    BY <2>4 DEF Cleanup, Idle, Starts, NoFile, NoNames, disks, cloud, database,
                 rows, Latest
<1>3. TypeOK'
  BY <1>1, <1>2, TypesKept DEF TypeOK
<1>4. RequestsSound' /\ PlansOnDisk' /\ GivenOut'
  BY <1>1, <1>2, SMTT(60) DEF IInv, RequestsSound, PlansOnDisk, GivenOut, At,
       Here, Hers, AdminOps, Others, Shapes, Fresh, Alone, Starts, NoFile,
       NoNames
<1>5. FilesApart'
  BY <1>1, <1>2, SMTT(60) DEF IInv, FilesApart, GivenOut, Erasing,
       RequestsSound, Pending, At, Here, Hers, AdminOps, Others, Shapes,
       Fresh, Alone, Starts, NoFile, NoNames
<1>6. ReportOnDisk'
  BY <1>1, <1>2, SMTT(60) DEF IInv, ReportOnDisk, FilesApart, Erasing,
       GoneForGood, RequestsSound, Pending, At, Here, Hers, AdminOps, Others,
       Shapes, Fresh, Alone, Starts, NoFile, NoNames
<1>7. NoStrayReports'
  BY <1>1, <1>2, SMTT(60) DEF IInv, NoStrayReports, RequestsSound, At, Here,
       Hers, AdminOps, Others, Shapes, Fresh, Alone, Starts, NoFile, NoNames
<1>8. Erasing'
  BY <1>1, <1>2, SMTT(60) DEF IInv, Erasing, OneAtATime, RequestsSound,
       ClearedQuiet, At, Here, Hers, AdminOps, Others, Shapes, Fresh, Alone,
       Starts, NoFile, NoNames
<1>9. ClearedQuiet' /\ GoneForGood'
  BY <1>1, <1>2, SMTT(60) DEF IInv, ClearedQuiet, Erasing, RequestsSound,
       GoneForGood, At, Here, Hers, AdminOps, Others, Shapes, Fresh, Alone,
       Starts, NoFile, NoNames
<1>10. OneAtATime' /\ UploadUnderWay'
  BY <1>1, <1>2, SMTT(60) DEF IInv, OneAtATime, RequestsSound, UploadUnderWay,
       GivenOut, Erasing, At, Here, Hers, AdminOps, Others, Shapes, Fresh,
       Alone, Starts, NoFile, NoNames
<1>11. EntryStands'
  BY <1>1, <1>2, SMTT(60) DEF IInv, EntryStands, UploadUnderWay, OneAtATime,
       RequestsSound, GivenOut, GoneForGood, Ready, Searchable, OldFile, At,
       Here, Hers, AdminOps, Others, Shapes, Fresh, Alone, Starts, NoFile,
       NoNames
<1>12. AnalysisAbout' /\ ReportOfItsUpload'
  BY <1>1, <1>2, SMTT(60) DEF IInv, AnalysisAbout, EntryStands, OneAtATime,
       GivenOut, RequestsSound, ReportOfItsUpload, FilesApart, Ready,
       Searchable, OldFile, Pending, At, Here, Hers, AdminOps, Others, Shapes,
       Fresh, Alone, Starts, NoFile, NoNames
<1>13. QED
  BY <1>3, <1>4, <1>5, <1>6, <1>7, <1>8, <1>9, <1>10, <1>11, <1>12 DEF IInv

LEMMA LogoutKeeps ==
    ASSUME IInv, NEW r \in Requests, Logout(r)
    PROVE  IInv'
<1>1. TypeOK /\ RequestsSound /\ Shapes
  BY Shaped DEF IInv
<1>2. /\ Typed /\ Others(r) /\ Fresh(r) /\ Alone(r)
      /\ Starts(r, "logout", "forget") /\ NoFile(r) /\ NoNames(r)
      /\ req'[r].upload = 0 /\ req'[r].sure = FALSE
      /\ settled' = "no"
      /\ UNCHANGED <<student, disk, stores, docs, uploads, reports, files,
                     lost, minted, spilled>>
      /\ Latest' = Latest
      /\ arrived' \in 0 .. MaxArrivals /\ overlapped' \in BOOLEAN
  <2>1. [Idle EXCEPT !.op = "logout", !.pc = "forget"] \in Request
    BY <1>1 DEF Idle, Request, Ops, Steps, Shapes
  <2>2. "logout" \in Ops /\ "logout" \notin AdminOps
    BY DEF Ops, AdminOps
  <2>3. Arrive(r, "logout",
           [Idle EXCEPT !.op = "logout", !.pc = "forget"])
    BY DEF Logout
  <2>4. /\ Typed /\ Others(r) /\ Fresh(r)
        /\ Alone(r)
        /\ req'[r] = [Idle EXCEPT !.op = "logout", !.pc = "forget"]
        /\ arrived' \in 0 .. MaxArrivals /\ overlapped' \in BOOLEAN
        /\ spilled' = spilled
    BY <1>1, <2>1, <2>2, <2>3, Arrived
  <2>5. QED
    BY <2>4 DEF Logout, Idle, Starts, NoFile, NoNames, disks, cloud, database,
                 rows, Latest
<1>3. TypeOK'
  BY <1>1, <1>2, TypesKept DEF TypeOK
<1>4. RequestsSound' /\ PlansOnDisk' /\ GivenOut'
  BY <1>1, <1>2, SMTT(60) DEF IInv, RequestsSound, PlansOnDisk, GivenOut, At,
       Here, Hers, AdminOps, Others, Shapes, Fresh, Alone, Starts, NoFile,
       NoNames
<1>5. FilesApart'
  BY <1>1, <1>2, SMTT(60) DEF IInv, FilesApart, GivenOut, Erasing,
       RequestsSound, Pending, At, Here, Hers, AdminOps, Others, Shapes,
       Fresh, Alone, Starts, NoFile, NoNames
<1>6. ReportOnDisk'
  BY <1>1, <1>2, SMTT(60) DEF IInv, ReportOnDisk, FilesApart, Erasing,
       GoneForGood, RequestsSound, Pending, At, Here, Hers, AdminOps, Others,
       Shapes, Fresh, Alone, Starts, NoFile, NoNames
<1>7. NoStrayReports'
  BY <1>1, <1>2, SMTT(60) DEF IInv, NoStrayReports, RequestsSound, At, Here,
       Hers, AdminOps, Others, Shapes, Fresh, Alone, Starts, NoFile, NoNames
<1>8. Erasing'
  BY <1>1, <1>2, SMTT(60) DEF IInv, Erasing, OneAtATime, RequestsSound,
       ClearedQuiet, At, Here, Hers, AdminOps, Others, Shapes, Fresh, Alone,
       Starts, NoFile, NoNames
<1>9. ClearedQuiet' /\ GoneForGood'
  BY <1>1, <1>2, SMTT(60) DEF IInv, ClearedQuiet, Erasing, RequestsSound,
       GoneForGood, At, Here, Hers, AdminOps, Others, Shapes, Fresh, Alone,
       Starts, NoFile, NoNames
<1>10. OneAtATime' /\ UploadUnderWay'
  BY <1>1, <1>2, SMTT(60) DEF IInv, OneAtATime, RequestsSound, UploadUnderWay,
       GivenOut, Erasing, At, Here, Hers, AdminOps, Others, Shapes, Fresh,
       Alone, Starts, NoFile, NoNames
<1>11. EntryStands'
  BY <1>1, <1>2, SMTT(60) DEF IInv, EntryStands, UploadUnderWay, OneAtATime,
       RequestsSound, GivenOut, GoneForGood, Ready, Searchable, OldFile, At,
       Here, Hers, AdminOps, Others, Shapes, Fresh, Alone, Starts, NoFile,
       NoNames
<1>12. AnalysisAbout' /\ ReportOfItsUpload'
  BY <1>1, <1>2, SMTT(60) DEF IInv, AnalysisAbout, EntryStands, OneAtATime,
       GivenOut, RequestsSound, ReportOfItsUpload, FilesApart, Ready,
       Searchable, OldFile, Pending, At, Here, Hers, AdminOps, Others, Shapes,
       Fresh, Alone, Starts, NoFile, NoNames
<1>13. QED
  BY <1>3, <1>4, <1>5, <1>6, <1>7, <1>8, <1>9, <1>10, <1>11, <1>12 DEF IInv

\* A request goes on with what it had, or less of it, or ends.
GoesOn(o) ==
    /\ req'[o].op \in {req[o].op, "none"}
    /\ req'[o].op = "analyze" => /\ req'[o].upload = req[o].upload
                                 /\ req'[o].about = req[o].about
                                 /\ req'[o].sure => req[o].sure
    /\ req'[o].op = "delete" =>
          req'[o].names \cup {req'[o].file} \subseteq req[o].names \cup {req[o].file, OldFile}

\* Then the entry stays, and what analyses found, if rows and files do.
LEMMA EntryLeftAlone ==
    ASSUME EntryStands, \A o \in Requests : GoesOn(o), Latest' = Latest,
           UNCHANGED <<student, stores, docs, uploads, settled, overlapped>>,
           ~overlapped /\ settled # "no" =>
                disk'[uploads[Latest].file] = disk[uploads[Latest].file]
    PROVE  EntryStands'
<1> SUFFICES ASSUME (~overlapped /\ settled # "no")'
             PROVE  /\ (/\ Here /\ Ready /\ Searchable /\ uploads[Latest].file # OldFile
                        /\ settled = "alone" =>
                              docs[uploads[Latest].store] = {uploads[Latest].plan}
                        /\ \A i \in 1 .. Latest - 1 : uploads[i].file # uploads[Latest].file)'
                    /\ \A o \in Requests :
                          /\ req'[o].op \notin {"upload", "cleanup", "logout"}
                          /\ req'[o].op = "analyze" => req'[o].upload # 0
                          /\ req'[o].op = "delete" =>
                                uploads'[Latest'].file \notin req'[o].names \cup {req'[o].file}
  BY DEF EntryStands
<1>1. /\ Here /\ Ready /\ Searchable /\ uploads[Latest].file # OldFile
      /\ settled = "alone" => docs[uploads[Latest].store] = {uploads[Latest].plan}
      /\ \A i \in 1 .. Latest - 1 : uploads[i].file # uploads[Latest].file
  BY DEF EntryStands
<1>2. ASSUME NEW o \in Requests
      PROVE  /\ req[o].op \notin {"upload", "cleanup", "logout"}
             /\ req[o].op = "analyze" => req[o].upload # 0
             /\ req[o].op = "delete" =>
                   uploads[Latest].file \notin req[o].names \cup {req[o].file}
  BY DEF EntryStands
<1>3. ASSUME NEW o \in Requests
      PROVE  /\ req'[o].op \notin {"upload", "cleanup", "logout"}
             /\ req'[o].op = "analyze" => req'[o].upload # 0
             /\ req'[o].op = "delete" =>
                   uploads'[Latest'].file \notin req'[o].names \cup {req'[o].file}
  BY <1>1, <1>2, <1>3 DEF GoesOn
<1>4. QED
  BY <1>1, <1>3 DEF Here, Ready, Searchable

LEMMA AnalysesLeftAlone ==
    ASSUME AnalysisAbout, \A o \in Requests : GoesOn(o),
           UNCHANGED <<student, docs, uploads, overlapped>>
    PROVE  AnalysisAbout'
<1> SUFFICES ASSUME (~overlapped /\ Here)', NEW o \in Requests, req'[o].op = "analyze"
             PROVE  /\ req'[o].sure => /\ req'[o].upload # 0
                                       /\ \A s \in Stores :
                                             docs'[s] \subseteq {uploads'[req'[o].upload].plan}
                    /\ req'[o].about # 0 => /\ req'[o].upload # 0
                                            /\ req'[o].about = uploads'[req'[o].upload].plan
  BY DEF AnalysisAbout
<1>1. GoesOn(o) /\ req[o].op = "analyze" /\ ~overlapped /\ Here
  BY DEF GoesOn, Here
<1>2. QED
  BY <1>1 DEF AnalysisAbout, GoesOn

\* An upload goes on as it was, if its file does.
LEMMA UploadLeftAlone ==
    ASSUME UploadUnderWay, RequestsSound, \A o \in Requests : GoesOn(o), Latest' = Latest,
           \A o \in Requests : req'[o].op = "upload" => req'[o] = req[o],
           \A i \in 1 .. Latest : uploads'[i].file = uploads[i].file,
           \A o \in Requests : ~overlapped /\ req[o].op = "upload" =>
                disk'[req[o].file] = disk[req[o].file],
           UNCHANGED <<student, stores, docs, settled, overlapped>>
    PROVE  UploadUnderWay'
<1> SUFFICES ASSUME (~overlapped /\ Here)', NEW o \in Requests, req'[o].op = "upload"
             PROVE  /\ settled' = "no"
                    /\ disk'[req'[o].file] = req'[o].plan
                    /\ \A i \in 1 .. Latest' : uploads'[i].file # req'[o].file
                    /\ \A p \in Requests : req'[p].op = "delete" =>
                          req'[o].file \notin req'[p].names \cup {req'[p].file}
                    /\ At(o, "remove")' => stores' \subseteq {req'[o].store}
                    /\ req'[o].sure =>
                          /\ req'[o].pc \in {"forget", "find", "create"} => stores' = {}
                          /\ At(o, "put")' => docs'[req'[o].store] = {}
                          /\ At(o, "row")' => docs'[req'[o].store] = {req'[o].plan}
                    /\ At(o, "row")' => /\ req'[o].store \in stores'
                                       /\ req'[o].plan \in docs'[req'[o].store]
  BY DEF UploadUnderWay
<1>1. req'[o] = req[o] /\ req[o].op = "upload" /\ ~overlapped /\ Here /\ req[o].file # OldFile
  BY DEF Here, RequestsSound, OldFile
<1>2. /\ settled = "no"
      /\ disk[req[o].file] = req[o].plan
      /\ \A i \in 1 .. Latest : uploads[i].file # req[o].file
      /\ \A p \in Requests : req[p].op = "delete" =>
            req[o].file \notin req[p].names \cup {req[p].file}
      /\ At(o, "remove") => stores \subseteq {req[o].store}
      /\ req[o].sure => /\ req[o].pc \in {"forget", "find", "create"} => stores = {}
                        /\ At(o, "put") => docs[req[o].store] = {}
                        /\ At(o, "row") => docs[req[o].store] = {req[o].plan}
      /\ At(o, "row") => req[o].store \in stores /\ req[o].plan \in docs[req[o].store]
  BY <1>1 DEF UploadUnderWay
<1>3. \A p \in Requests : req'[p].op = "delete" =>
         req[o].file \notin req'[p].names \cup {req'[p].file}
  BY <1>1, <1>2 DEF GoesOn
<1>4. QED
  BY <1>1, <1>2, <1>3 DEF At

\* While an upload, a cleanup or a removal of the store is under way there is
\* no entry, and unless requests meet no other upload and no analysis runs.
LEMMA RunsAlone ==
    ASSUME IInv, NEW r \in Requests,
           \/ req[r].op \in {"upload", "cleanup", "logout"}
           \/ req[r].pc \in {"look", "remove", "forget"}
    PROVE  /\ overlapped \/ settled = "no"
           /\ ~overlapped /\ Here => \A o \in Requests :
                 req[o].op # "analyze" /\ (req[o].op = "upload" => o = r)
<1>1. \/ req[r].op \in {"upload", "cleanup", "logout"}
      \/ req[r].op = "erase" /\ req[r].pc # "rows"
  BY DEF IInv, RequestsSound
<1>2. CASE req[r].op = "erase" /\ req[r].pc # "rows"
  <2>1. ~Here
    BY <1>2 DEF IInv, Erasing
  <2>2. QED
    BY <2>1 DEF IInv, EntryStands
<1>3. CASE req[r].op \in {"upload", "cleanup", "logout"}
  <2>1. overlapped \/ settled = "no"
    BY <1>3 DEF IInv, EntryStands
  <2>2. ~overlapped => \A o \in Requests : Hers(o) => o = r
    BY <1>3 DEF IInv, OneAtATime, Hers, AdminOps
  <2>3. QED
    BY <1>3, <2>1, <2>2 DEF Hers, AdminOps
<1>4. QED
  BY <1>1, <1>2, <1>3

LEMMA LookStoreKeeps ==
    ASSUME IInv, NEW r \in Requests, LookStore(r)
    PROVE  IInv'
<1>1. TypeOK /\ RequestsSound /\ Shapes
  BY Shaped DEF IInv
<1>2. /\ Typed /\ Others(r) /\ At(r, "look")
      /\ \/ /\ req'[r].pc = "remove" /\ req'[r].store \in stores
            /\ Keeps(r) /\ req'[r].sure = req[r].sure /\ student' = student
         \/ /\ stores = {} /\ Removed(r) /\ Clears(r)
            /\ req'[r].sure => req[r].sure
         \/ Removed(r) /\ ~req'[r].sure /\ student' = student
      /\ UNCHANGED <<disk, stores, docs, uploads, reports, files, lost,
                     minted, settled, overlapped, spilled>>
      /\ Latest' = Latest
      /\ student' \in Students
      /\ UNCHANGED arrived
  <2>1. ASSUME NEW ok \in BOOLEAN, AfterRemoval(r, ok)
        PROVE  /\ Typed /\ Others(r) /\ Removed(r)
               /\ req'[r].sure => req[r].sure /\ ok
               /\ student' \in Students
               /\ student' = student \/ (ok /\ Clears(r))
    <3>1. student' = AfterErasure(r, ok)
      BY <2>1 DEF AfterRemoval
    <3>2. /\ student' \in Students
          /\ student' = student \/ (ok /\ Clears(r))
      BY <3>1, <1>1 DEF AfterErasure, Clears, TypeOK, Students
    <3>3. CASE req[r].op \in {"logout", "erase"}
      <4>1. Return(r)
        BY <2>1, <3>3 DEF AfterRemoval
      <4>2. QED
        BY <4>1, <1>1, <3>2, <3>3, Returned DEF Removed, Idle
    <3>4. CASE req[r].op \notin {"logout", "erase"}
      <4>1. PICK b \in BOOLEAN : b = (req[r].sure /\ ok)
        BY <1>1, <2>1 DEF Shapes
      <4>2. req' = [req EXCEPT ![r].pc = "forget", ![r].store = 0, ![r].sure = b]
        BY <2>1, <3>4, <4>1, Zenon DEF AfterRemoval
      <4>3. "forget" \in Steps /\ 0 \in Stores \cup {0}
        BY DEF Steps
      <4>4. /\ Typed /\ Others(r) /\ Keeps(r)
            /\ req'[r].pc = "forget" /\ req'[r].store = 0 /\ req'[r].sure = b
        BY <1>1, <4>2, <4>3, SetStoreSure
      <4>5. req[r].op \in {"upload", "cleanup"}
        BY <1>1, <3>4 DEF RequestsSound, LookStore, RemoveStore, At
      <4>6. QED
        BY <3>2, <4>1, <4>4, <4>5 DEF Removed
    <3>5. QED
      BY <3>3, <3>4
  <2>2. At(r, "look") /\ UNCHANGED <<disks, cloud, rows, minted, history>>
    BY DEF LookStore
  <2>3. CASE \E s \in stores : /\ req' = [req EXCEPT ![r].pc = "remove", ![r].store = s]
                               /\ UNCHANGED student
    <3>1. PICK s \in stores : /\ req' = [req EXCEPT ![r].pc = "remove", ![r].store = s]
                              /\ UNCHANGED student
      BY <2>3
    <3>2. "remove" \in Steps /\ s \in Stores \cup {0}
      BY <1>1 DEF Steps, Shapes
    <3>3. /\ Typed /\ Others(r) /\ Keeps(r) /\ req'[r].sure = req[r].sure
          /\ req'[r].pc = "remove" /\ req'[r].store = s
      BY <1>1, <3>1, <3>2, SetStore, ZenonT(60)
    <3>4. student' \in Students
      BY <1>1, <3>1 DEF TypeOK
    <3>5. QED
      BY <2>2, <3>1, <3>3, <3>4 DEF disks, cloud, rows, history, Latest
  <2>4. CASE stores = {} /\ AfterRemoval(r, TRUE)
    BY <2>1, <2>2, <2>4 DEF disks, cloud, rows, history, Latest, Clears
  <2>5. CASE AfterRemoval(r, FALSE)
    BY <2>1, <2>2, <2>5 DEF disks, cloud, rows, history, Latest
  <2>6. QED
    BY <2>3, <2>4, <2>5 DEF LookStore
<1>3. TypeOK'
  BY <1>1, <1>2, TypesKept DEF TypeOK
<1>4. RequestsSound' /\ PlansOnDisk' /\ GivenOut'
  <2>1. /\ req'[r].op \in {req[r].op, "none"} /\ (req'[r].op = "none" <=> req'[r].pc = "idle")
        /\ req'[r].pc \in {"idle", "remove", "forget"}
        /\ req'[r].pc = "forget" => req'[r].op \in {"upload", "cleanup"}
        /\ req'[r].report \in {req[r].report, 0} /\ req'[r].file \in {req[r].file, 0}
        /\ req'[r].seen \subseteq req[r].seen /\ req'[r].names \subseteq req[r].names
        /\ req'[r].op # "none" => Keeps(r)
    BY <1>1, <1>2 DEF Removed, Keeps, Idle, RequestsSound, At
  <2>2. Here' => Here
    BY <1>2 DEF Here, Clears
  <2>3. RequestsSound'
    BY <1>1, <1>2, <2>1, <2>2 DEF RequestsSound, Others, Keeps, At
  <2>4. PlansOnDisk' /\ GivenOut'
    BY <1>1, <1>2, <2>1 DEF IInv, PlansOnDisk, GivenOut, Others, Shapes
  <2>5. QED
    BY <2>3, <2>4
<1>5. FilesApart'
  <2>1. \A o \in Requests : /\ Pending(o)' => Pending(o) /\ req'[o].report = req[o].report
                            /\ At(o, "unlink")' => At(o, "unlink") /\ req'[o].seen = req[o].seen
    BY <1>2 DEF Pending, At, Others, Removed, Idle
  <2>2. Here' => Here
    BY <1>2 DEF Here, Clears
  <2>3. QED
    BY <1>2, <2>1, <2>2 DEF IInv, FilesApart, Pending, At
<1>6. ReportOnDisk'
  BY <1>1, <1>2, SMTT(60) DEF IInv, ReportOnDisk, FilesApart, Erasing,
       GoneForGood, RequestsSound, Pending, At, Here, Hers, AdminOps, Idle,
       Others, Shapes, Keeps, Removed, Clears
<1>7. NoStrayReports'
  BY <1>1, <1>2, SMTT(60) DEF IInv, NoStrayReports, RequestsSound, At, Here,
       Idle, Others, Shapes, Keeps, Removed, Clears
<1>8. Erasing'
  BY <1>1, <1>2, SMTT(60) DEF IInv, Erasing, OneAtATime, RequestsSound,
       ClearedQuiet, At, Here, Hers, AdminOps, Idle, Others, Shapes, Keeps,
       Removed, Clears
<1>9. ClearedQuiet' /\ GoneForGood'
  BY <1>1, <1>2, SMTT(60) DEF IInv, ClearedQuiet, Erasing, RequestsSound,
       GoneForGood, At, Here, Hers, AdminOps, Idle, Others, Shapes, Keeps,
       Removed, Clears
<1>10. OneAtATime' /\ UploadUnderWay'
  <2>1. \A o \in Requests :
          /\ Hers(o)' => Hers(o)
          /\ At(o, "create")' => At(o, "create")
    BY <1>2 DEF Hers, AdminOps, At, Others, Removed, Keeps, Idle
  <2>2. OneAtATime'
    BY <1>2, <2>1 DEF IInv, OneAtATime, At
  <2>3. Here' => Here
    BY <1>2 DEF Here, Clears
  <2>4. ASSUME ~overlapped, Here'
        PROVE  \A o \in Requests : req[o].op = "upload" => o = r
    BY <1>1, <1>2, <2>3, <2>4 DEF IInv, OneAtATime, Erasing, RequestsSound, Hers, AdminOps, At, Here
  <2>5. \A o \in Requests : req'[o].op = "delete" => req'[o] = req[o]
    BY <1>1, <1>2 DEF Others, Removed, Keeps, Idle, RequestsSound, At
  <2>6. req'[r].op = "upload" =>
          /\ req[r].op = "upload" /\ Keeps(r)
          /\ req'[r].sure => req[r].sure
          /\ \/ req'[r].pc = "remove" /\ req'[r].store \in stores
             \/ req'[r].pc = "forget" /\ (stores = {} \/ ~req'[r].sure)
    BY <1>2 DEF Removed, Keeps, Idle
  <2>7. \A s, t \in stores : ~overlapped => s = t
    BY DEF IInv, OneAtATime
  <2>8. ASSUME ~overlapped', Here', NEW o \in Requests, req'[o].op = "upload"
        PROVE  /\ settled = "no" /\ disk[req'[o].file] = req'[o].plan
               /\ \A i \in 1 .. Latest : uploads[i].file # req'[o].file
               /\ \A p \in Requests : req'[p].op = "delete" =>
                     req'[o].file \notin req'[p].names \cup {req'[p].file}
               /\ At(o, "remove")' => stores \subseteq {req'[o].store}
               /\ req'[o].sure /\ req'[o].pc \in {"forget", "find", "create"} => stores = {}
               /\ req'[o].pc \notin {"put", "row"}
    <3>1. ~overlapped /\ Here /\ o = r
      BY <1>2, <2>3, <2>4, <2>8 DEF Others
    <3>2. req[r].op = "upload" /\ Keeps(r) /\ (req'[r].sure => req[r].sure)
      BY <2>6, <2>8, <3>1
    <3>3. /\ settled = "no" /\ disk[req[r].file] = req[r].plan
          /\ \A i \in 1 .. Latest : uploads[i].file # req[r].file
          /\ \A p \in Requests : req[p].op = "delete" =>
                req[r].file \notin req[p].names \cup {req[p].file}
      BY <3>1, <3>2 DEF IInv, UploadUnderWay
    <3>4. QED
      BY <2>5, <2>6, <2>7, <2>8, <3>1, <3>2, <3>3 DEF Keeps, At
  <2>9. UploadUnderWay'
    BY <1>2, <2>8 DEF UploadUnderWay, At
  <2>10. QED
    BY <2>2, <2>9
<1>11. EntryStands'
  BY <1>2, RunsAlone DEF EntryStands, At
<1>12. AnalysisAbout' /\ ReportOfItsUpload'
  <2>1. \A o \in Requests : req'[o].op = "analyze" => req[o].op = "analyze"
    BY <1>2 DEF Others, Idle, Keeps, Removed
  <2>2. Here' => Here
    BY <1>2 DEF Here, Clears
  <2>3. AnalysisAbout'
    BY <1>2, <2>1, <2>2, RunsAlone DEF AnalysisAbout, At
  <2>4. QED
    BY <1>2, <2>3 DEF IInv, ReportOfItsUpload
<1>13. QED
  BY <1>3, <1>4, <1>5, <1>6, <1>7, <1>8, <1>9, <1>10, <1>11, <1>12 DEF IInv

LEMMA RemoveStoreKeeps ==
    ASSUME IInv, NEW r \in Requests, RemoveStore(r)
    PROVE  IInv'
<1>1. TypeOK /\ RequestsSound /\ Shapes
  BY Shaped DEF IInv
<1>2. /\ Typed /\ Others(r) /\ At(r, "remove") /\ Removed(r)
      /\ \/ /\ stores' = stores \ {req[r].store} /\ Clears(r)
            /\ \A s \in Stores : docs'[s] = IF s = req[r].store THEN {} ELSE docs[s]
            /\ req'[r].sure => req[r].sure
         \/ UNCHANGED <<stores, docs, student>> /\ ~req'[r].sure
      /\ UNCHANGED <<disk, uploads, reports, files, lost, minted, settled,
                     overlapped, spilled>>
      /\ Latest' = Latest
      /\ student' \in Students /\ docs' \in [Stores -> SUBSET Plans]
      /\ UNCHANGED arrived
  <2>1. ASSUME NEW ok \in BOOLEAN, AfterRemoval(r, ok)
        PROVE  /\ Typed /\ Others(r) /\ Removed(r)
               /\ req'[r].sure => req[r].sure /\ ok
               /\ student' \in Students
               /\ student' = student \/ (ok /\ Clears(r))
    <3>1. student' = AfterErasure(r, ok)
      BY <2>1 DEF AfterRemoval
    <3>2. /\ student' \in Students
          /\ student' = student \/ (ok /\ Clears(r))
      BY <3>1, <1>1 DEF AfterErasure, Clears, TypeOK, Students
    <3>3. CASE req[r].op \in {"logout", "erase"}
      <4>1. Return(r)
        BY <2>1, <3>3 DEF AfterRemoval
      <4>2. QED
        BY <4>1, <1>1, <3>2, <3>3, Returned DEF Removed, Idle
    <3>4. CASE req[r].op \notin {"logout", "erase"}
      <4>1. PICK b \in BOOLEAN : b = (req[r].sure /\ ok)
        BY <1>1, <2>1 DEF Shapes
      <4>2. req' = [req EXCEPT ![r].pc = "forget", ![r].store = 0, ![r].sure = b]
        BY <2>1, <3>4, <4>1, Zenon DEF AfterRemoval
      <4>3. "forget" \in Steps /\ 0 \in Stores \cup {0}
        BY DEF Steps
      <4>4. /\ Typed /\ Others(r) /\ Keeps(r)
            /\ req'[r].pc = "forget" /\ req'[r].store = 0 /\ req'[r].sure = b
        BY <1>1, <4>2, <4>3, SetStoreSure
      <4>5. req[r].op \in {"upload", "cleanup"}
        BY <1>1, <3>4 DEF RequestsSound, LookStore, RemoveStore, At
      <4>6. QED
        BY <3>2, <4>1, <4>4, <4>5 DEF Removed
    <3>5. QED
      BY <3>3, <3>4
  <2>2. At(r, "remove") /\ UNCHANGED <<disks, rows, minted, history>>
    BY DEF RemoveStore
  <2>3. CASE /\ stores' = stores \ {req[r].store}
             /\ docs' = [docs EXCEPT ![req[r].store] = {}]
             /\ AfterRemoval(r, TRUE)
    <3>1. /\ \A s \in Stores : docs'[s] = IF s = req[r].store THEN {} ELSE docs[s]
          /\ docs' \in [Stores -> SUBSET Plans]
      BY <1>1, <2>3 DEF Shapes
    <3>2. QED
      BY <2>1, <2>2, <2>3, <3>1 DEF disks, rows, history, Latest, Clears
  <2>4. CASE AfterRemoval(r, FALSE) /\ UNCHANGED cloud
    BY <1>1, <2>1, <2>2, <2>4 DEF disks, cloud, rows, history, Latest, Shapes
  <2>5. QED
    BY <2>3, <2>4 DEF RemoveStore
<1>3. TypeOK'
  BY <1>1, <1>2, TypesKept DEF TypeOK
<1>4. RequestsSound' /\ PlansOnDisk' /\ GivenOut'
  BY <1>1, <1>2, SMTT(60) DEF IInv, RequestsSound, PlansOnDisk, GivenOut, At,
       Here, Idle, Others, Shapes, Removed, Clears, Keeps
<1>5. FilesApart'
  BY <1>1, <1>2, SMTT(60) DEF IInv, FilesApart, GivenOut, Erasing,
       RequestsSound, Pending, At, Here, Hers, AdminOps, Idle, Others, Shapes,
       Removed, Clears, Keeps
<1>6. ReportOnDisk'
  BY <1>1, <1>2, SMTT(60) DEF IInv, ReportOnDisk, FilesApart, Erasing,
       GoneForGood, RequestsSound, Pending, At, Here, Hers, AdminOps, Idle,
       Others, Shapes, Removed, Clears, Keeps
<1>7. NoStrayReports'
  BY <1>1, <1>2, SMTT(60) DEF IInv, NoStrayReports, RequestsSound, At, Here,
       Idle, Others, Shapes, Removed, Clears, Keeps
<1>8. Erasing'
  BY <1>1, <1>2, SMTT(60) DEF IInv, Erasing, OneAtATime, RequestsSound,
       ClearedQuiet, At, Here, Hers, AdminOps, Idle, Others, Shapes, Removed,
       Clears, Keeps
<1>9. ClearedQuiet' /\ GoneForGood'
  BY <1>1, <1>2, SMTT(60) DEF IInv, ClearedQuiet, Erasing, RequestsSound,
       GoneForGood, At, Here, Hers, AdminOps, Idle, Others, Shapes, Removed,
       Clears, Keeps
<1>10. OneAtATime' /\ UploadUnderWay'
  <2>1. OneAtATime'
    BY <1>1, <1>2, SMTT(60) DEF IInv, OneAtATime, RequestsSound, At, Hers,
         Here, AdminOps, Idle, Others, Shapes, Removed, Clears, Keeps
  <2>2. UploadUnderWay'
    BY <1>1, <1>2, SMTT(60) DEF IInv, OneAtATime, RequestsSound, UploadUnderWay,
         Erasing, At, Here, Hers, AdminOps, Idle, Others, Shapes, Removed,
         Clears, Keeps
  <2>3. QED
    BY <2>1, <2>2
<1>11. EntryStands'
  BY <1>2, RunsAlone DEF EntryStands, At
<1>12. AnalysisAbout' /\ ReportOfItsUpload'
  <2>1. \A o \in Requests : req'[o].op = "analyze" => req[o].op = "analyze"
    BY <1>2 DEF Others, Idle, Keeps, Removed
  <2>2. Here' => Here
    BY <1>2 DEF Here, Clears
  <2>3. AnalysisAbout'
    BY <1>2, <2>1, <2>2, RunsAlone DEF AnalysisAbout, At
  <2>4. QED
    BY <1>2, <2>3 DEF IInv, ReportOfItsUpload
<1>13. QED
  BY <1>3, <1>4, <1>5, <1>6, <1>7, <1>8, <1>9, <1>10, <1>11, <1>12 DEF IInv

LEMMA ForgetKeeps ==
    ASSUME IInv, NEW r \in Requests, Forget(r)
    PROVE  IInv'
<1>1. TypeOK /\ RequestsSound /\ Shapes
  BY Shaped DEF IInv
<1>2. /\ Typed /\ Others(r) /\ At(r, "forget")
      /\ \/ /\ req[r].op = "upload" /\ req'[r].pc = "find"
            /\ Keeps(r) /\ KeepsStore(r)
         \/ req[r].op = "cleanup" /\ req'[r] = Idle
         \/ /\ req[r].op = "logout" /\ req'[r].pc = "look"
            /\ Keeps(r) /\ KeepsStore(r)
      /\ Latest' = Latest /\ (uploads = <<>> => uploads' = <<>>)
      /\ \A i \in 1 .. Latest : /\ uploads'[i].file = uploads[i].file
                               /\ uploads'[i].plan = uploads[i].plan
                               /\ uploads'[i].store = 0
      /\ UNCHANGED <<student, disk, stores, docs, reports, files, lost,
                     minted, settled, overlapped, spilled>>
      /\ UNCHANGED arrived
  <2>1. /\ At(r, "forget") /\ AfterForget(r)
        /\ uploads' = [i \in 1 .. Latest |-> [uploads[i] EXCEPT !.store = 0]]
        /\ UNCHANGED <<student, disks, cloud, reports, minted, history>>
    BY DEF Forget
  <2>2. /\ Latest' = Latest /\ (uploads = <<>> => uploads' = <<>>)
        /\ \A i \in 1 .. Latest : /\ uploads'[i].file = uploads[i].file
                                /\ uploads'[i].plan = uploads[i].plan
                                /\ uploads'[i].store = 0
    BY <1>1, <2>1, StoresForgotten
  <2>3. /\ Typed /\ Others(r)
        /\ \/ /\ req[r].op = "upload" /\ req'[r].pc = "find"
              /\ Keeps(r) /\ KeepsStore(r)
           \/ req[r].op = "cleanup" /\ req'[r] = Idle
           \/ /\ req[r].op = "logout" /\ req'[r].pc = "look"
              /\ Keeps(r) /\ KeepsStore(r)
    <3>1. req[r].op \in {"upload", "cleanup", "logout"}
      BY <1>1, <2>1 DEF RequestsSound, At
    <3>2. "find" \in Steps /\ "look" \in Steps
      BY DEF Steps
    <3>3. QED
      BY <1>1, <2>1, <3>1, <3>2, SetStep, Returned DEF AfterForget, Goto
  <2>4. QED
    BY <2>1, <2>2, <2>3 DEF disks, cloud, history, Latest
<1>3. TypeOK'
  <2>1. uploads' = [i \in 1 .. Latest |-> [uploads[i] EXCEPT !.store = 0]]
    BY DEF Forget
  <2>2. uploads' \in Seq(Upload)
    BY <1>1, <2>1, StoresForgotten
  <2>3. Synthetic' = Synthetic
    BY <1>2 DEF Synthetic, Latest
  <2>4. QED
    BY <1>1, <1>2, <2>2, <2>3 DEF TypeOK, Typed
<1>4. RequestsSound'
  BY <1>1, <1>2, SMTT(60) DEF IInv, RequestsSound, At, Here, Idle, Others,
       Shapes, Keeps, KeepsStore
<1>5. PlansOnDisk'
  BY <1>1, <1>2, SMTT(60) DEF IInv, PlansOnDisk, RequestsSound, At, Here,
       Idle, Others, Shapes, Keeps, KeepsStore
<1>6. GivenOut'
  BY <1>1, <1>2, SMTT(60) DEF IInv, GivenOut, At, Here, Idle, Others, Shapes,
       Keeps, KeepsStore
<1>7. FilesApart'
  <2>1. \A o \in Requests : /\ Pending(o)' => Pending(o)
                            /\ At(o, "unlink")' => At(o, "unlink")
                            /\ req'[o].report = req[o].report \/ ~Pending(o)'
                            /\ req'[o].seen = req[o].seen \/ ~At(o, "unlink")'
    BY <1>2 DEF Pending, At, Others, Keeps, Idle
  <2>2. QED
    BY <1>2, <2>1 DEF IInv, FilesApart, Here, Pending, At
<1>8. ReportOnDisk'
  BY <1>1, <1>2, SMTT(60) DEF IInv, ReportOnDisk, FilesApart, Erasing,
       GoneForGood, RequestsSound, Pending, At, Here, Hers, AdminOps, Idle,
       Others, Shapes, Keeps, KeepsStore
<1>9. NoStrayReports'
  <2>1. \A o \in Requests : /\ Pending(o) => Pending(o)' /\ req'[o].report = req[o].report
                            /\ At(o, "unlink") => At(o, "unlink")' /\ req'[o].seen = req[o].seen
                            /\ At(o, "files") => At(o, "files")'
    BY <1>2 DEF Pending, At, Others
  <2>2. QED
    BY <1>2, <2>1 DEF IInv, NoStrayReports, Pending, At
<1>10. Erasing'
  BY <1>1, <1>2, SMTT(60) DEF IInv, Erasing, OneAtATime, RequestsSound,
       ClearedQuiet, At, Here, Hers, AdminOps, Idle, Others, Shapes, Keeps,
       KeepsStore
<1>11. ClearedQuiet' /\ GoneForGood'
  BY <1>1, <1>2, SMTT(60) DEF IInv, ClearedQuiet, Erasing, RequestsSound,
       GoneForGood, At, Here, Hers, AdminOps, Idle, Others, Shapes, Keeps,
       KeepsStore
<1>12. OneAtATime'
  <2>1. \A o \in Requests : Hers(o)' => Hers(o)
    BY <1>1, <1>2 DEF Hers, AdminOps, Others, Keeps, Idle
  <2>2. \A o \in Requests : ~At(o, "create")' \/ At(o, "create")
    BY <1>2 DEF At, Others, Idle
  <2>3. QED
    BY <1>2, <2>1, <2>2 DEF IInv, OneAtATime, At
<1>13. UploadUnderWay'
  <2>1. \A o \in Requests :
          /\ req'[o].op = "upload" \/ req'[o].op = "delete" =>
                /\ req'[o].op = req[o].op /\ req'[o].file = req[o].file
                /\ req'[o].plan = req[o].plan /\ req'[o].store = req[o].store
                /\ req'[o].sure = req[o].sure /\ req'[o].names = req[o].names
                /\ req'[o].pc = req[o].pc
                      \/ (req[o].pc = "forget" /\ req'[o].pc = "find")
    BY <1>2 DEF At, Others, Keeps, KeepsStore, Idle
  <2>2. /\ settled' = settled /\ student' = student /\ overlapped' = overlapped
        /\ disk' = disk /\ stores' = stores /\ docs' = docs /\ Latest' = Latest
        /\ \A i \in 1 .. Latest : uploads'[i].file = uploads[i].file
    BY <1>2
  <2>3. QED
    BY <2>1, <2>2 DEF IInv, UploadUnderWay, At, Here
<1>14. EntryStands'
  BY <1>2, RunsAlone DEF EntryStands, At
<1>15. AnalysisAbout'
  BY <1>1, <1>2, SMTT(60) DEF IInv, AnalysisAbout, EntryStands, OneAtATime,
       GivenOut, RequestsSound, Ready, Searchable, OldFile, At, Here, Hers,
       AdminOps, Idle, Others, Shapes, Keeps, KeepsStore
<1>16. ReportOfItsUpload'
  BY <1>1, <1>2, SMTT(60) DEF IInv, ReportOfItsUpload, AnalysisAbout,
       FilesApart, RequestsSound, Pending, At, Here, Idle, Others, Shapes,
       Keeps, KeepsStore
<1>17. QED
  BY <1>3, <1>4, <1>5, <1>6, <1>7, <1>8, <1>9, <1>10, <1>11, <1>12, <1>13,
       <1>14, <1>15, <1>16 DEF IInv

LEMMA ForgetFailsKeeps ==
    ASSUME IInv, NEW r \in Requests, ForgetFails(r)
    PROVE  IInv'
<1>1. TypeOK /\ RequestsSound /\ Shapes
  BY Shaped DEF IInv
<1>2. /\ Typed /\ Others(r) /\ At(r, "forget")
      /\ \/ req[r].op = "cleanup" /\ req'[r] = Idle
         \/ /\ req[r].op = "logout" /\ req'[r].pc = "look"
            /\ Keeps(r) /\ KeepsStore(r)
      /\ UNCHANGED <<student, disk, stores, docs, uploads, reports, files,
                     lost, minted, settled, overlapped, spilled>>
      /\ Latest' = Latest
      /\ UNCHANGED arrived
  <2>1. "look" \in Steps
    BY DEF Steps
  <2>2. QED
    BY <1>1, <2>1, SetStep, Returned
       DEF ForgetFails, Goto, disks, cloud, database, rows, history, Latest
<1>3. TypeOK'
  BY <1>1, <1>2, TypesKept DEF TypeOK
<1>4. RequestsSound' /\ PlansOnDisk' /\ GivenOut'
  BY <1>1, <1>2, SMTT(60) DEF IInv, RequestsSound, PlansOnDisk, GivenOut, At,
       Here, Idle, Others, Shapes, Keeps, KeepsStore
<1>5. FilesApart'
  BY <1>1, <1>2, SMTT(60) DEF IInv, FilesApart, GivenOut, Erasing,
       RequestsSound, Pending, At, Here, Hers, AdminOps, Idle, Others, Shapes,
       Keeps, KeepsStore
<1>6. ReportOnDisk'
  BY <1>1, <1>2, SMTT(60) DEF IInv, ReportOnDisk, FilesApart, Erasing,
       GoneForGood, RequestsSound, Pending, At, Here, Hers, AdminOps, Idle,
       Others, Shapes, Keeps, KeepsStore
<1>7. NoStrayReports'
  BY <1>1, <1>2, SMTT(60) DEF IInv, NoStrayReports, RequestsSound, At, Here,
       Idle, Others, Shapes, Keeps, KeepsStore
<1>8. Erasing'
  BY <1>1, <1>2, SMTT(60) DEF IInv, Erasing, OneAtATime, RequestsSound,
       ClearedQuiet, At, Here, Hers, AdminOps, Idle, Others, Shapes, Keeps,
       KeepsStore
<1>9. ClearedQuiet' /\ GoneForGood'
  BY <1>1, <1>2, SMTT(60) DEF IInv, ClearedQuiet, Erasing, RequestsSound,
       GoneForGood, At, Here, Hers, AdminOps, Idle, Others, Shapes, Keeps,
       KeepsStore
<1>10. OneAtATime' /\ UploadUnderWay'
  BY <1>1, <1>2, SMTT(60) DEF IInv, OneAtATime, RequestsSound, UploadUnderWay,
       GivenOut, Erasing, At, Here, Hers, AdminOps, Idle, Others, Shapes,
       Keeps, KeepsStore
<1>11. EntryStands'
  BY <1>2, RunsAlone DEF EntryStands, At
<1>12. AnalysisAbout' /\ ReportOfItsUpload'
  <2>1. \A o \in Requests : req'[o].op = "analyze" => req[o].op = "analyze"
    BY <1>2 DEF Others, Idle, Keeps
  <2>2. Here' => Here
    BY <1>2 DEF Here
  <2>3. AnalysisAbout'
    BY <1>2, <2>1, <2>2, RunsAlone DEF AnalysisAbout, At
  <2>4. QED
    BY <1>2, <2>3 DEF IInv, ReportOfItsUpload
<1>13. QED
  BY <1>3, <1>4, <1>5, <1>6, <1>7, <1>8, <1>9, <1>10, <1>11, <1>12 DEF IInv

LEMMA FindStoreKeeps ==
    ASSUME IInv, NEW r \in Requests, FindStore(r)
    PROVE  IInv'
<1>1. TypeOK /\ RequestsSound /\ Shapes
  BY Shaped DEF IInv
<1>2. /\ Typed /\ Others(r) /\ At(r, "find") /\ Keeps(r)
      /\ req'[r].sure = req[r].sure
      /\ \/ req[r].op = "upload" /\ req'[r].pc = "put" /\ req'[r].store \in stores
         \/ req[r].op # "upload" /\ req'[r].pc = "retrieve" /\ req'[r].store \in stores
         \/ stores = {} /\ req'[r].pc = "create" /\ req'[r].store = req[r].store
      /\ UNCHANGED <<student, disk, stores, docs, uploads, reports, files,
                     lost, minted, settled, overlapped, spilled>>
      /\ Latest' = Latest
      /\ UNCHANGED arrived
  <2>1. AfterStore(r) \in Steps /\ "create" \in Steps
    BY DEF AfterStore, Steps
  <2>2. \A s \in stores : s \in Stores \cup {0}
    BY <1>1 DEF Shapes
  <2>3. QED
    BY <1>1, <2>1, <2>2, SetStep, SetStore
       DEF FindStore, Goto, KeepsStore, AfterStore, disks, cloud, database, rows,
           history, Latest
<1>3. TypeOK'
  BY <1>1, <1>2, TypesKept DEF TypeOK
<1>4. RequestsSound' /\ PlansOnDisk' /\ GivenOut'
  BY <1>1, <1>2, SMTT(60) DEF IInv, RequestsSound, PlansOnDisk, GivenOut, At,
       Here, Others, Shapes, Keeps
<1>5. FilesApart'
  BY <1>1, <1>2, SMTT(60) DEF IInv, FilesApart, GivenOut, Erasing,
       RequestsSound, Pending, At, Here, Hers, AdminOps, Others, Shapes, Keeps
<1>6. ReportOnDisk'
  BY <1>1, <1>2, SMTT(60) DEF IInv, ReportOnDisk, FilesApart, Erasing,
       GoneForGood, RequestsSound, Pending, At, Here, Hers, AdminOps, Others,
       Shapes, Keeps
<1>7. NoStrayReports'
  BY <1>1, <1>2, SMTT(60) DEF IInv, NoStrayReports, RequestsSound, At, Here,
       Others, Shapes, Keeps
<1>8. Erasing'
  BY <1>1, <1>2, SMTT(60) DEF IInv, Erasing, OneAtATime, RequestsSound,
       ClearedQuiet, At, Here, Hers, AdminOps, Others, Shapes, Keeps
<1>9. ClearedQuiet' /\ GoneForGood'
  BY <1>1, <1>2, SMTT(60) DEF IInv, ClearedQuiet, Erasing, RequestsSound,
       GoneForGood, At, Here, Hers, AdminOps, Others, Shapes, Keeps
<1>10. OneAtATime' /\ UploadUnderWay'
  BY <1>1, <1>2, SMTT(60) DEF IInv, OneAtATime, RequestsSound, UploadUnderWay,
       GivenOut, Erasing, At, Here, Hers, AdminOps, Others, Shapes, Keeps
<1>11. EntryStands'
  BY <1>1, <1>2, SMTT(60) DEF IInv, EntryStands, UploadUnderWay, OneAtATime,
       RequestsSound, GivenOut, GoneForGood, Ready, Searchable, OldFile, At,
       Here, Hers, AdminOps, Others, Shapes, Keeps
<1>12. AnalysisAbout' /\ ReportOfItsUpload'
  BY <1>1, <1>2, SMTT(60) DEF IInv, AnalysisAbout, EntryStands, OneAtATime,
       GivenOut, RequestsSound, ReportOfItsUpload, FilesApart, Ready,
       Searchable, OldFile, Pending, At, Here, Hers, AdminOps, Others, Shapes,
       Keeps
<1>13. QED
  BY <1>3, <1>4, <1>5, <1>6, <1>7, <1>8, <1>9, <1>10, <1>11, <1>12 DEF IInv

LEMMA CreateStoreKeeps ==
    ASSUME IInv, NEW r \in Requests, CreateStore(r)
    PROVE  IInv'
<1>1. TypeOK /\ RequestsSound /\ Shapes
  BY Shaped DEF IInv
<1>2. /\ Typed /\ Others(r) /\ At(r, "create") /\ Keeps(r)
      /\ req'[r].sure = req[r].sure /\ req'[r].store = minted.store + 1
      /\ minted.store + 1 \in Stores /\ stores' = stores \cup {minted.store + 1}
      /\ minted'.plan = minted.plan /\ minted'.report = minted.report
      /\ minted'.store = minted.store + 1
      /\ \/ req[r].op = "upload" /\ req'[r].pc = "put"
         \/ req[r].op # "upload" /\ req'[r].pc = "retrieve"
      /\ UNCHANGED <<student, disk, docs, uploads, reports, files, lost,
                     settled, overlapped, spilled>>
      /\ Latest' = Latest
      /\ minted' \in [plan : 0 .. MaxPlans, store : 0 .. MaxStores,
                        report : 0 .. MaxReports]
      /\ UNCHANGED arrived
  <2>1. AfterStore(r) \in Steps
    BY DEF AfterStore, Steps
  <2>2. minted.store + 1 \in Stores /\ minted' = [minted EXCEPT !.store = minted.store + 1]
    BY DEF CreateStore
  <2>3. /\ minted'.plan = minted.plan /\ minted'.report = minted.report
        /\ minted'.store = minted.store + 1
        /\ minted' \in [plan : 0 .. MaxPlans, store : 0 .. MaxStores,
                       report : 0 .. MaxReports]
    BY <1>1, <2>2, PlanBounds DEF TypeOK, Stores
  <2>4. /\ At(r, "create") /\ stores' = stores \cup {minted.store + 1}
        /\ req' = [req EXCEPT ![r].pc = AfterStore(r), ![r].store = minted.store + 1]
        /\ UNCHANGED <<disks, docs, database, history>>
    BY DEF CreateStore
  <2>5. /\ Typed /\ Others(r) /\ Keeps(r) /\ req'[r].sure = req[r].sure
        /\ req'[r].pc = AfterStore(r) /\ req'[r].store = minted.store + 1
    BY <1>1, <2>1, <2>2, <2>4, SetStore
  <2>6. QED
    BY <2>2, <2>3, <2>4, <2>5
       DEF AfterStore, disks, database, rows, history, Latest
<1>3. TypeOK'
  BY <1>1, <1>2, TypesKept DEF TypeOK, Shapes
<1>4. RequestsSound' /\ PlansOnDisk' /\ GivenOut'
  BY <1>1, <1>2, SMTT(60) DEF IInv, RequestsSound, PlansOnDisk, GivenOut, At,
       Here, Others, Shapes, Keeps
<1>5. FilesApart'
  BY <1>1, <1>2, SMTT(60) DEF IInv, FilesApart, GivenOut, Erasing,
       RequestsSound, Pending, At, Here, Hers, AdminOps, Others, Shapes, Keeps
<1>6. ReportOnDisk'
  BY <1>1, <1>2, SMTT(60) DEF IInv, ReportOnDisk, FilesApart, Erasing,
       GoneForGood, RequestsSound, Pending, At, Here, Hers, AdminOps, Others,
       Shapes, Keeps
<1>7. NoStrayReports'
  BY <1>1, <1>2, SMTT(60) DEF IInv, NoStrayReports, RequestsSound, At, Here,
       Others, Shapes, Keeps
<1>8. Erasing'
  BY <1>1, <1>2, SMTT(60) DEF IInv, Erasing, OneAtATime, RequestsSound,
       ClearedQuiet, At, Here, Hers, AdminOps, Others, Shapes, Keeps
<1>9. ClearedQuiet' /\ GoneForGood'
  BY <1>1, <1>2, SMTT(60) DEF IInv, ClearedQuiet, Erasing, RequestsSound,
       GoneForGood, At, Here, Hers, AdminOps, Others, Shapes, Keeps
<1>10. OneAtATime' /\ UploadUnderWay'
  BY <1>1, <1>2, SMTT(60) DEF IInv, OneAtATime, RequestsSound, UploadUnderWay,
       GivenOut, Erasing, At, Here, Hers, AdminOps, Others, Shapes, Keeps
<1>11. EntryStands'
  BY <1>1, <1>2, SMTT(60) DEF IInv, EntryStands, UploadUnderWay, OneAtATime,
       RequestsSound, GivenOut, GoneForGood, Ready, Searchable, OldFile, At,
       Here, Hers, AdminOps, Others, Shapes, Keeps
<1>12. AnalysisAbout' /\ ReportOfItsUpload'
  BY <1>1, <1>2, SMTT(60) DEF IInv, AnalysisAbout, EntryStands, OneAtATime,
       GivenOut, RequestsSound, ReportOfItsUpload, FilesApart, Ready,
       Searchable, OldFile, Pending, At, Here, Hers, AdminOps, Others, Shapes,
       Keeps
<1>13. QED
  BY <1>3, <1>4, <1>5, <1>6, <1>7, <1>8, <1>9, <1>10, <1>11, <1>12 DEF IInv

LEMMA PutKeeps ==
    ASSUME IInv, NEW r \in Requests, Put(r)
    PROVE  IInv'
<1>1. TypeOK /\ RequestsSound /\ Shapes
  BY Shaped DEF IInv
<1>2. /\ Typed /\ Others(r) /\ At(r, "put") /\ Keeps(r) /\ KeepsStore(r)
      /\ req'[r].pc = "row" /\ Stored(r)
      /\ UNCHANGED <<student, disk, stores, uploads, reports, files, lost,
                     minted, settled, overlapped, spilled>>
      /\ Latest' = Latest
      /\ docs' \in [Stores -> SUBSET Plans]
      /\ UNCHANGED arrived
  <2>1. "row" \in Steps
    BY DEF Steps
  <2>2. Sent(r)
    BY DEF Put
  <2>3. Stored(r) /\ docs' \in [Stores -> SUBSET Plans]
    BY <1>1, <2>2, SentTyped DEF IInv, RequestsSound, Put, At
  <2>4. QED
    BY <1>1, <2>1, <2>3, SetStep
       DEF Put, Goto, disks, database, rows, history, Latest
<1>3. TypeOK'
  BY <1>1, <1>2, TypesKept DEF TypeOK
<1>4. RequestsSound' /\ PlansOnDisk' /\ GivenOut'
  BY <1>1, <1>2, SMTT(60) DEF IInv, RequestsSound, PlansOnDisk, GivenOut, At,
       Here, Others, Shapes, Keeps, KeepsStore, Stored
<1>5. FilesApart'
  BY <1>1, <1>2, SMTT(60) DEF IInv, FilesApart, GivenOut, Erasing,
       RequestsSound, Pending, At, Here, Hers, AdminOps, Others, Shapes,
       Keeps, KeepsStore, Stored
<1>6. ReportOnDisk'
  BY <1>1, <1>2, SMTT(60) DEF IInv, ReportOnDisk, FilesApart, Erasing,
       GoneForGood, RequestsSound, Pending, At, Here, Hers, AdminOps, Others,
       Shapes, Keeps, KeepsStore, Stored
<1>7. NoStrayReports'
  BY <1>1, <1>2, SMTT(60) DEF IInv, NoStrayReports, RequestsSound, At, Here,
       Others, Shapes, Keeps, KeepsStore, Stored
<1>8. Erasing'
  BY <1>1, <1>2, SMTT(60) DEF IInv, Erasing, OneAtATime, RequestsSound,
       ClearedQuiet, At, Here, Hers, AdminOps, Others, Shapes, Keeps,
       KeepsStore, Stored
<1>9. ClearedQuiet' /\ GoneForGood'
  BY <1>1, <1>2, SMTT(60) DEF IInv, ClearedQuiet, Erasing, RequestsSound,
       GoneForGood, At, Here, Hers, AdminOps, Others, Shapes, Keeps,
       KeepsStore, Stored
<1>10. OneAtATime' /\ UploadUnderWay'
  BY <1>1, <1>2, SMTT(60) DEF IInv, OneAtATime, RequestsSound, UploadUnderWay,
       GivenOut, Erasing, At, Here, Hers, AdminOps, Others, Shapes, Keeps,
       KeepsStore, Stored
<1>11. EntryStands'
  BY <1>1, <1>2, SMTT(60) DEF IInv, EntryStands, UploadUnderWay, OneAtATime,
       RequestsSound, GivenOut, GoneForGood, Ready, Searchable, OldFile, At,
       Here, Hers, AdminOps, Others, Shapes, Keeps, KeepsStore, Stored
<1>12. AnalysisAbout' /\ ReportOfItsUpload'
  BY <1>1, <1>2, SMTT(60) DEF IInv, AnalysisAbout, EntryStands, OneAtATime,
       GivenOut, RequestsSound, ReportOfItsUpload, FilesApart, Ready,
       Searchable, OldFile, Pending, At, Here, Hers, AdminOps, Others, Shapes,
       Keeps, KeepsStore, Stored
<1>13. QED
  BY <1>3, <1>4, <1>5, <1>6, <1>7, <1>8, <1>9, <1>10, <1>11, <1>12 DEF IInv

LEMMA FailUploadKeeps ==
    ASSUME IInv, NEW r \in Requests, FailUpload(r)
    PROVE  IInv'
<1>1. TypeOK /\ RequestsSound /\ Shapes
  BY Shaped DEF IInv
<1>2. /\ Typed /\ Others(r) /\ req'[r] = Idle
      /\ req[r].op = "upload" /\ PlanGone(r)
      /\ docs' = docs \/ (At(r, "put") /\ Stored(r))
      /\ UNCHANGED <<student, stores, uploads, reports, files, lost, minted,
                     settled, overlapped, spilled>>
      /\ Latest' = Latest
      /\ UNCHANGED arrived
  <2>1. /\ req[r].op = "upload" /\ Return(r)
        /\ disk' = [disk EXCEPT ![req[r].file] = 0]
        /\ docs' = docs \/ (At(r, "put") /\ Sent(r))
        /\ UNCHANGED <<files, lost, stores, database, minted, history>>
    BY DEF FailUpload
  <2>2. req[r].file \in Names
    BY <1>1 DEF Shapes, Names, OldFile
  <2>3. PlanGone(r)
    BY <1>1, <2>1, <2>2 DEF PlanGone, Shapes
  <2>4. Sent(r) => Stored(r)
    BY <1>1 DEF Sent, Stored, Shapes
  <2>5. QED
    BY <1>1, <2>1, <2>3, <2>4, Returned DEF database, rows, history, Latest
<1>3. TypeOK'
  <2>1. docs' = docs \/ (At(r, "put") /\ Sent(r))
    BY DEF FailUpload
  <2>2. docs' \in [Stores -> SUBSET Plans]
    BY <1>1, <1>2, <2>1, SentTyped DEF IInv, Shapes
  <2>3. disk' \in [Names -> Texts]
    BY <1>1 DEF FailUpload, Shapes, Texts
  <2>4. QED
    BY <1>1, <1>2, <2>2, <2>3, TypesKept DEF TypeOK
<1>4. RequestsSound' /\ PlansOnDisk' /\ GivenOut'
  BY <1>1, <1>2, SMTT(60) DEF IInv, RequestsSound, PlansOnDisk, GivenOut, At,
       Here, Idle, Others, Shapes, PlanGone, Stored
<1>5. FilesApart'
  BY <1>1, <1>2, SMTT(60) DEF IInv, FilesApart, GivenOut, Erasing,
       RequestsSound, Pending, At, Here, Hers, AdminOps, Idle, Others, Shapes,
       PlanGone, Stored
<1>6. ReportOnDisk'
  BY <1>1, <1>2, SMTT(60) DEF IInv, ReportOnDisk, FilesApart, Erasing,
       GoneForGood, RequestsSound, Pending, At, Here, Hers, AdminOps, Idle,
       Others, Shapes, PlanGone, Stored
<1>7. NoStrayReports'
  BY <1>1, <1>2, SMTT(60) DEF IInv, NoStrayReports, RequestsSound, At, Here,
       Idle, Others, Shapes, PlanGone, Stored
<1>8. Erasing'
  BY <1>1, <1>2, SMTT(60) DEF IInv, Erasing, OneAtATime, RequestsSound,
       ClearedQuiet, At, Here, Hers, AdminOps, Idle, Others, Shapes, PlanGone,
       Stored
<1>9. ClearedQuiet' /\ GoneForGood'
  BY <1>1, <1>2, SMTT(60) DEF IInv, ClearedQuiet, Erasing, RequestsSound,
       GoneForGood, At, Here, Hers, AdminOps, Idle, Others, Shapes, PlanGone,
       Stored
<1>10. OneAtATime' /\ UploadUnderWay'
  BY <1>1, <1>2, SMTT(60) DEF IInv, OneAtATime, RequestsSound, UploadUnderWay,
       GivenOut, Erasing, At, Here, Hers, AdminOps, Idle, Others, Shapes,
       PlanGone, Stored
<1>11. EntryStands'
  BY <1>1, <1>2, SMTT(60) DEF IInv, EntryStands, UploadUnderWay, OneAtATime,
       RequestsSound, GivenOut, GoneForGood, Ready, Searchable, OldFile, At,
       Here, Hers, AdminOps, Idle, Others, Shapes, PlanGone, Stored
<1>12. AnalysisAbout' /\ ReportOfItsUpload'
  BY <1>1, <1>2, SMTT(60) DEF IInv, AnalysisAbout, EntryStands, OneAtATime,
       GivenOut, RequestsSound, ReportOfItsUpload, FilesApart, Ready,
       Searchable, OldFile, Pending, At, Here, Hers, AdminOps, Idle, Others,
       Shapes, PlanGone, Stored
<1>13. QED
  BY <1>3, <1>4, <1>5, <1>6, <1>7, <1>8, <1>9, <1>10, <1>11, <1>12 DEF IInv

LEMMA SendPlanKeeps ==
    ASSUME IInv, NEW r \in Requests, SendPlan(r)
    PROVE  IInv'
<1>1. TypeOK /\ RequestsSound /\ Shapes
  BY Shaped DEF IInv
<1>2. /\ Typed /\ Others(r) /\ Fresh(r) /\ Alone(r)
      /\ settled' = "no"
      /\ minted'.plan = minted.plan + 1 /\ minted'.store = minted.store
      /\ minted'.report = minted.report
      /\ \E name \in Plans :
             /\ name <= minted.plan + 1 /\ (~overlapped' => name = minted.plan + 1)
             /\ \A k \in Names \ {name} : disk'[k] = disk[k]
             /\ \/ disk'[name] = 0 /\ req'[r] = Idle
                \/ /\ disk'[name] = minted.plan + 1 /\ minted.plan + 1 \in Plans
                   /\ Starts(r, "upload", "look") /\ NoNames(r)
                   /\ req'[r].file = name /\ req'[r].plan = minted.plan + 1
                   /\ req'[r].upload = 0 /\ req'[r].sure
      /\ UNCHANGED <<student, stores, docs, uploads, reports, files, lost,
                     spilled>>
      /\ Latest' = Latest
      /\ arrived' \in 0 .. MaxArrivals /\ overlapped' \in BOOLEAN
  <2> DEFINE k == minted.plan + 1
             q(name) == [Idle EXCEPT !.op = "upload", !.pc = "look", !.file = name,
                                     !.plan = k, !.sure = TRUE]
  <2>1. /\ k \in Plans /\ minted' = [minted EXCEPT !.plan = k] /\ settled' = "no"
        /\ UNCHANGED <<cloud, database, files, lost>>
    BY DEF SendPlan
  <2>2. minted'.plan = k /\ minted'.store = minted.store /\ minted'.report = minted.report
    BY <1>1, <2>1 DEF TypeOK
  <2>3. PICK name \in {k} \cup SameSecond :
          \/ disk' = [disk EXCEPT ![name] = k] /\ Arrive(r, "upload", q(name))
          \/ disk' = [disk EXCEPT ![name] = 0] /\ Arrive(r, "upload", Idle)
    BY DEF SendPlan
  <2>4. "upload" \in Ops /\ "upload" \notin AdminOps
    BY DEF Ops, AdminOps
  <2>5. name \in Plans /\ name <= k
    BY <1>1, <2>1 DEF IInv, SameSecond, RequestsSound, GivenOut, Shapes
  <2>6. q(name) \in Request /\ Idle \in Request
    BY <2>1, <2>5, IdleType DEF Idle, Request, Ops, Steps
  <2>7. /\ Typed /\ Others(r) /\ Fresh(r) /\ Alone(r)
        /\ arrived' \in 0 .. MaxArrivals /\ overlapped' \in BOOLEAN
        /\ spilled' = spilled
        /\ \/ disk' = [disk EXCEPT ![name] = k] /\ req'[r] = q(name)
           \/ disk' = [disk EXCEPT ![name] = 0] /\ req'[r] = Idle
    BY <1>1, <2>3, <2>4, <2>6, Arrived
  <2>8. ~overlapped' => name = k
    <3>1. \A o \in Requests : req[o].op = "upload" => Hers(o) /\ o # r
      BY <2>7 DEF Hers, AdminOps, Fresh
    <3>2. QED
      BY <2>3, <2>7, <3>1 DEF Alone, SameSecond
  <2>9. /\ \A n \in Names \ {name} : disk'[n] = disk[n]
        /\ \/ disk'[name] = 0 /\ req'[r] = Idle
           \/ disk'[name] = k /\ req'[r] = q(name)
    BY <1>1, <2>5, <2>7 DEF Shapes
  <2>10. req'[r] = q(name) => /\ Starts(r, "upload", "look") /\ NoNames(r)
                              /\ req'[r].file = name /\ req'[r].plan = k
                              /\ req'[r].upload = 0 /\ req'[r].sure
    BY DEF Idle, Starts, NoNames
  <2>11. QED
    BY <2>1, <2>2, <2>5, <2>7, <2>8, <2>9, <2>10 DEF cloud, database, rows, Latest
<1>3. TypeOK'
  <2>1. minted' = [minted EXCEPT !.plan = minted.plan + 1] /\ minted.plan + 1 \in Plans
    BY DEF SendPlan
  <2>2. minted' \in [plan : 0 .. MaxPlans, store : 0 .. MaxStores,
                    report : 0 .. MaxReports]
    BY SMTT(30), <1>1, <2>1, PlanBounds DEF TypeOK, Plans
  <2>3. disk' \in [Names -> Texts]
    BY <1>1, <2>1 DEF SendPlan, Shapes, Texts
  <2>4. QED
    BY <1>1, <1>2, <2>2, <2>3, TypesKept DEF TypeOK
<1>4. RequestsSound' /\ PlansOnDisk' /\ GivenOut'
  BY <1>1, <1>2, SMTT(60) DEF IInv, RequestsSound, PlansOnDisk, GivenOut, At,
       Here, Hers, AdminOps, Idle, Others, Shapes, Fresh, Alone, Starts,
       NoNames
<1>5. FilesApart'
  BY <1>1, <1>2, SMTT(60) DEF IInv, FilesApart, GivenOut, Erasing,
       RequestsSound, Pending, At, Here, Hers, AdminOps, Idle, Others, Shapes,
       Fresh, Alone, Starts, NoNames
<1>6. ReportOnDisk'
  BY <1>1, <1>2, SMTT(60) DEF IInv, ReportOnDisk, FilesApart, Erasing,
       GoneForGood, RequestsSound, Pending, At, Here, Hers, AdminOps, Idle,
       Others, Shapes, Fresh, Alone, Starts, NoNames
<1>7. NoStrayReports'
  BY <1>1, <1>2, SMTT(60) DEF IInv, NoStrayReports, RequestsSound, At, Here,
       Hers, AdminOps, Idle, Others, Shapes, Fresh, Alone, Starts, NoNames
<1>8. Erasing'
  BY <1>1, <1>2, SMTT(60) DEF IInv, Erasing, OneAtATime, RequestsSound,
       ClearedQuiet, At, Here, Hers, AdminOps, Idle, Others, Shapes, Fresh,
       Alone, Starts, NoNames
<1>9. ClearedQuiet' /\ GoneForGood'
  BY <1>1, <1>2, SMTT(60) DEF IInv, ClearedQuiet, Erasing, RequestsSound,
       GoneForGood, At, Here, Hers, AdminOps, Idle, Others, Shapes, Fresh,
       Alone, Starts, NoNames
<1>10. OneAtATime' /\ UploadUnderWay'
  BY <1>1, <1>2, SMTT(60) DEF IInv, OneAtATime, RequestsSound, UploadUnderWay,
       GivenOut, Erasing, At, Here, Hers, AdminOps, Idle, Others, Shapes,
       Fresh, Alone, Starts, NoNames
<1>11. EntryStands'
  BY <1>1, <1>2, SMTT(60) DEF IInv, EntryStands, UploadUnderWay, OneAtATime,
       RequestsSound, GivenOut, GoneForGood, Ready, Searchable, OldFile, At,
       Here, Hers, AdminOps, Idle, Others, Shapes, Fresh, Alone, Starts,
       NoNames
<1>12. AnalysisAbout' /\ ReportOfItsUpload'
  BY <1>1, <1>2, SMTT(60) DEF IInv, AnalysisAbout, EntryStands, OneAtATime,
       GivenOut, RequestsSound, ReportOfItsUpload, FilesApart, Ready,
       Searchable, OldFile, Pending, At, Here, Hers, AdminOps, Idle, Others,
       Shapes, Fresh, Alone, Starts, NoNames
<1>13. QED
  BY <1>3, <1>4, <1>5, <1>6, <1>7, <1>8, <1>9, <1>10, <1>11, <1>12 DEF IInv

LEMMA AddRowKeeps ==
    ASSUME IInv, NEW r \in Requests, AddRow(r)
    PROVE  IInv'
<1>1. TypeOK /\ RequestsSound /\ Shapes
  BY Shaped DEF IInv
<1>2. /\ Typed /\ Others(r) /\ req'[r] = Idle
      /\ At(r, "row") /\ Here
      /\ RowAdded(req[r].file, req[r].plan, req[r].store)
      /\ settled' \in {"mixed", "alone"} /\ (settled' = "alone" => req[r].sure)
      /\ UNCHANGED <<student, disk, stores, docs, reports, files, lost,
                     minted, overlapped, spilled>>
      /\ UNCHANGED arrived
  <2> DEFINE row == [file |-> req[r].file, plan |-> req[r].plan, store |-> req[r].store]
  <2>1. /\ At(r, "row") /\ Here /\ uploads' = Append(uploads, row) /\ Return(r)
        /\ settled' = IF req[r].sure THEN "alone" ELSE "mixed"
        /\ UNCHANGED <<student, disks, cloud, reports, minted, arrived, overlapped, spilled>>
    BY DEF AddRow, Here
  <2>2. row \in Upload
    BY <1>1 DEF Upload, Shapes, Names, OldFile
  <2>3. RowAdded(row.file, row.plan, row.store)
    BY <1>1, <2>1, <2>2, RowAppended
  <2>4. QED
    BY <1>1, <2>1, <2>3, Returned DEF disks, cloud
<1>3. TypeOK'
  <2> DEFINE row == [file |-> req[r].file, plan |-> req[r].plan, store |-> req[r].store]
  <2>1. row \in Upload /\ row.plan # 0
    BY <1>1, <1>2 DEF Upload, Shapes, Names, OldFile, RequestsSound, At
  <2>2. uploads' = Append(uploads, row)
    BY DEF AddRow
  <2>3. uploads' \in Seq(Upload) /\ Latest' = Latest + 1 /\ Synthetic' = Synthetic
    BY <1>1, <2>1, <2>2, RowAppended
  <2>4. \A p \in reports : p.upload <= Latest'
    BY <1>1, <2>3 DEF Shapes
  <2>5. QED
    BY <1>1, <1>2, <2>3, <2>4 DEF TypeOK, Typed
<1>4. RequestsSound' /\ PlansOnDisk' /\ GivenOut'
  BY <1>1, <1>2, SMTT(60) DEF IInv, RequestsSound, PlansOnDisk, GivenOut, At,
       Here, Idle, Others, Shapes, RowAdded
<1>5. FilesApart'
  BY <1>1, <1>2, SMTT(60) DEF IInv, FilesApart, GivenOut, Erasing,
       RequestsSound, Pending, At, Here, Hers, AdminOps, Idle, Others, Shapes,
       RowAdded
<1>6. ReportOnDisk'
  BY <1>1, <1>2, SMTT(60) DEF IInv, ReportOnDisk, FilesApart, Erasing,
       GoneForGood, RequestsSound, Pending, At, Here, Hers, AdminOps, Idle,
       Others, Shapes, RowAdded
<1>7. NoStrayReports'
  BY <1>1, <1>2, SMTT(60) DEF IInv, NoStrayReports, RequestsSound, At, Here,
       Idle, Others, Shapes, RowAdded
<1>8. Erasing'
  BY <1>1, <1>2, SMTT(60) DEF IInv, Erasing, OneAtATime, RequestsSound,
       ClearedQuiet, At, Here, Hers, AdminOps, Idle, Others, Shapes, RowAdded
<1>9. ClearedQuiet' /\ GoneForGood'
  BY <1>1, <1>2, SMTT(60) DEF IInv, ClearedQuiet, Erasing, RequestsSound,
       GoneForGood, At, Here, Hers, AdminOps, Idle, Others, Shapes, RowAdded
<1>10. OneAtATime' /\ UploadUnderWay'
  BY <1>1, <1>2, SMTT(60) DEF IInv, OneAtATime, RequestsSound, UploadUnderWay,
       GivenOut, Erasing, At, Here, Hers, AdminOps, Idle, Others, Shapes,
       RowAdded
<1>11. EntryStands'
  BY <1>1, <1>2, SMTT(60) DEF IInv, EntryStands, UploadUnderWay, OneAtATime,
       RequestsSound, GivenOut, GoneForGood, Ready, Searchable, OldFile, At,
       Here, Hers, AdminOps, Idle, Others, Shapes, RowAdded
<1>12. AnalysisAbout' /\ ReportOfItsUpload'
  BY <1>1, <1>2, SMTT(60) DEF IInv, AnalysisAbout, EntryStands, OneAtATime,
       GivenOut, RequestsSound, ReportOfItsUpload, FilesApart, Ready,
       Searchable, OldFile, Pending, At, Here, Hers, AdminOps, Idle, Others,
       Shapes, RowAdded
<1>13. QED
  BY <1>3, <1>4, <1>5, <1>6, <1>7, <1>8, <1>9, <1>10, <1>11, <1>12 DEF IInv

LEMMA AnalyzeKeeps ==
    ASSUME IInv, NEW r \in Requests, Analyze(r)
    PROVE  IInv'
<1>1. TypeOK /\ RequestsSound /\ Shapes
  BY Shaped DEF IInv
<1>2. /\ Typed /\ Others(r) /\ Fresh(r) /\ Alone(r)
      /\ Starts(r, "analyze", "find") /\ NoFile(r) /\ NoNames(r)
      /\ req'[r].upload = Latest /\ (req'[r].sure => settled = "alone")
      /\ Latest = 0 \/ \A p \in reports : p.upload # Latest
      /\ UNCHANGED <<student, disk, stores, docs, uploads, reports, files,
                     lost, minted, settled, spilled>>
      /\ Latest' = Latest
      /\ arrived' \in 0 .. MaxArrivals /\ overlapped' \in BOOLEAN
  <2>1. /\ Analysis(Latest) \in Request
        /\ Analysis(Latest).op = "analyze" /\ Analysis(Latest).pc = "find"
        /\ Analysis(Latest).upload = Latest
        /\ Analysis(Latest).sure => settled = "alone"
        /\ Analysis(Latest).file = 0 /\ Analysis(Latest).plan = 0
        /\ Analysis(Latest).store = 0 /\ Analysis(Latest).report = 0
        /\ Analysis(Latest).about = 0
        /\ Analysis(Latest).seen = {} /\ Analysis(Latest).names = {}
    BY <1>1, AnalysisType
  <2>2. "analyze" \in Ops /\ "analyze" \notin AdminOps
    BY DEF Ops, AdminOps
  <2>3. Arrive(r, "analyze", Analysis(Latest))
    BY DEF Analyze
  <2>4. /\ Typed /\ Others(r) /\ Fresh(r) /\ Alone(r)
        /\ req'[r] = Analysis(Latest) /\ spilled' = spilled
        /\ arrived' \in 0 .. MaxArrivals /\ overlapped' \in BOOLEAN
    BY <1>1, <2>1, <2>2, <2>3, Arrived
  <2>5. Latest = 0 \/ \A p \in reports : p.upload # Latest
    BY DEF Analyze, ReportOf
  <2>6. QED
    BY <2>1, <2>4, <2>5
       DEF Analyze, Starts, NoFile, NoNames, disks, cloud, database, rows, Latest
<1>3. TypeOK'
  BY <1>1, <1>2, TypesKept DEF TypeOK
<1>4. RequestsSound' /\ PlansOnDisk' /\ GivenOut'
  BY <1>1, <1>2, SMTT(60) DEF IInv, RequestsSound, PlansOnDisk, GivenOut, At,
       Here, Hers, AdminOps, Others, Shapes, Fresh, Alone, Starts, NoFile,
       NoNames
<1>5. FilesApart'
  BY <1>1, <1>2, SMTT(60) DEF IInv, FilesApart, GivenOut, Erasing,
       RequestsSound, Pending, At, Here, Hers, AdminOps, Others, Shapes,
       Fresh, Alone, Starts, NoFile, NoNames
<1>6. ReportOnDisk'
  BY <1>1, <1>2, SMTT(60) DEF IInv, ReportOnDisk, FilesApart, Erasing,
       GoneForGood, RequestsSound, Pending, At, Here, Hers, AdminOps, Others,
       Shapes, Fresh, Alone, Starts, NoFile, NoNames
<1>7. NoStrayReports'
  BY <1>1, <1>2, SMTT(60) DEF IInv, NoStrayReports, RequestsSound, At, Here,
       Hers, AdminOps, Others, Shapes, Fresh, Alone, Starts, NoFile, NoNames
<1>8. Erasing'
  BY <1>1, <1>2, SMTT(60) DEF IInv, Erasing, OneAtATime, RequestsSound,
       ClearedQuiet, At, Here, Hers, AdminOps, Others, Shapes, Fresh, Alone,
       Starts, NoFile, NoNames
<1>9. ClearedQuiet' /\ GoneForGood'
  BY <1>1, <1>2, SMTT(60) DEF IInv, ClearedQuiet, Erasing, RequestsSound,
       GoneForGood, At, Here, Hers, AdminOps, Others, Shapes, Fresh, Alone,
       Starts, NoFile, NoNames
<1>10. OneAtATime' /\ UploadUnderWay'
  BY <1>1, <1>2, SMTT(60) DEF IInv, OneAtATime, RequestsSound, UploadUnderWay,
       GivenOut, Erasing, At, Here, Hers, AdminOps, Others, Shapes, Fresh,
       Alone, Starts, NoFile, NoNames
<1>11. EntryStands'
  BY <1>1, <1>2, SMTT(60) DEF IInv, EntryStands, UploadUnderWay, OneAtATime,
       RequestsSound, GivenOut, GoneForGood, Ready, Searchable, OldFile, At,
       Here, Hers, AdminOps, Others, Shapes, Fresh, Alone, Starts, NoFile,
       NoNames
<1>12. AnalysisAbout' /\ ReportOfItsUpload'
  BY <1>1, <1>2, SMTT(60) DEF IInv, AnalysisAbout, EntryStands, OneAtATime,
       GivenOut, RequestsSound, ReportOfItsUpload, FilesApart, Ready,
       Searchable, OldFile, Pending, At, Here, Hers, AdminOps, Others, Shapes,
       Fresh, Alone, Starts, NoFile, NoNames
<1>13. QED
  BY <1>3, <1>4, <1>5, <1>6, <1>7, <1>8, <1>9, <1>10, <1>11, <1>12 DEF IInv

LEMMA AnalyzeAgainKeeps ==
    ASSUME IInv, NEW r \in Requests, AnalyzeAgain(r)
    PROVE  IInv'
<1>1. TypeOK /\ RequestsSound /\ Shapes
  BY Shaped DEF IInv
<1>2. /\ Typed /\ Others(r) /\ Fresh(r) /\ Alone(r)
      /\ Starts(r, "analyze", "find") /\ NoFile(r) /\ NoNames(r)
      /\ req'[r].upload = Latest /\ (req'[r].sure => settled = "alone")
      /\ \E p \in reports : p.upload = Latest /\ p.id \notin files /\ reports' = reports \ {p}
      /\ UNCHANGED <<student, disk, stores, docs, uploads, files, lost,
                     minted, settled, spilled>>
      /\ Latest' = Latest
      /\ arrived' \in 0 .. MaxArrivals /\ overlapped' \in BOOLEAN
  <2>1. /\ Analysis(Latest) \in Request
        /\ Analysis(Latest).op = "analyze" /\ Analysis(Latest).pc = "find"
        /\ Analysis(Latest).upload = Latest
        /\ Analysis(Latest).sure => settled = "alone"
        /\ Analysis(Latest).file = 0 /\ Analysis(Latest).plan = 0
        /\ Analysis(Latest).store = 0 /\ Analysis(Latest).report = 0
        /\ Analysis(Latest).about = 0
        /\ Analysis(Latest).seen = {} /\ Analysis(Latest).names = {}
    BY <1>1, AnalysisType
  <2>2. "analyze" \in Ops /\ "analyze" \notin AdminOps
    BY DEF Ops, AdminOps
  <2>3. Arrive(r, "analyze", Analysis(Latest))
    BY DEF AnalyzeAgain
  <2>4. /\ Typed /\ Others(r) /\ Fresh(r) /\ Alone(r)
        /\ req'[r] = Analysis(Latest) /\ spilled' = spilled
        /\ arrived' \in 0 .. MaxArrivals /\ overlapped' \in BOOLEAN
    BY <1>1, <2>1, <2>2, <2>3, Arrived
  <2>5. \E p \in reports : p.upload = Latest /\ p.id \notin files /\ reports' = reports \ {p}
    BY DEF AnalyzeAgain, ReportOf
  <2>6. QED
    BY <2>1, <2>4, <2>5
       DEF AnalyzeAgain, Starts, NoFile, NoNames, disks, cloud, Latest
<1>3. TypeOK'
  BY <1>1, <1>2, TypesKept DEF TypeOK
<1>4. RequestsSound' /\ PlansOnDisk' /\ GivenOut'
  BY <1>1, <1>2, SMTT(60) DEF IInv, RequestsSound, PlansOnDisk, GivenOut, At,
       Here, Hers, AdminOps, Others, Shapes, Fresh, Alone, Starts, NoFile,
       NoNames
<1>5. FilesApart'
  BY <1>1, <1>2, SMTT(60) DEF IInv, FilesApart, GivenOut, Erasing,
       RequestsSound, Pending, At, Here, Hers, AdminOps, Others, Shapes,
       Fresh, Alone, Starts, NoFile, NoNames
<1>6. ReportOnDisk'
  BY <1>1, <1>2, SMTT(60) DEF IInv, ReportOnDisk, FilesApart, Erasing,
       GoneForGood, RequestsSound, Pending, At, Here, Hers, AdminOps, Others,
       Shapes, Fresh, Alone, Starts, NoFile, NoNames
<1>7. NoStrayReports'
  BY <1>1, <1>2, SMTT(60) DEF IInv, NoStrayReports, RequestsSound, At, Here,
       Hers, AdminOps, Others, Shapes, Fresh, Alone, Starts, NoFile, NoNames
<1>8. Erasing'
  BY <1>1, <1>2, SMTT(60) DEF IInv, Erasing, OneAtATime, RequestsSound,
       ClearedQuiet, At, Here, Hers, AdminOps, Others, Shapes, Fresh, Alone,
       Starts, NoFile, NoNames
<1>9. ClearedQuiet' /\ GoneForGood'
  BY <1>1, <1>2, SMTT(60) DEF IInv, ClearedQuiet, Erasing, RequestsSound,
       GoneForGood, At, Here, Hers, AdminOps, Others, Shapes, Fresh, Alone,
       Starts, NoFile, NoNames
<1>10. OneAtATime' /\ UploadUnderWay'
  BY <1>1, <1>2, SMTT(60) DEF IInv, OneAtATime, RequestsSound, UploadUnderWay,
       GivenOut, Erasing, At, Here, Hers, AdminOps, Others, Shapes, Fresh,
       Alone, Starts, NoFile, NoNames
<1>11. EntryStands'
  BY <1>1, <1>2, SMTT(60) DEF IInv, EntryStands, UploadUnderWay, OneAtATime,
       RequestsSound, GivenOut, GoneForGood, Ready, Searchable, OldFile, At,
       Here, Hers, AdminOps, Others, Shapes, Fresh, Alone, Starts, NoFile,
       NoNames
<1>12. AnalysisAbout' /\ ReportOfItsUpload'
  BY <1>1, <1>2, SMTT(60) DEF IInv, AnalysisAbout, EntryStands, OneAtATime,
       GivenOut, RequestsSound, ReportOfItsUpload, FilesApart, Ready,
       Searchable, OldFile, Pending, At, Here, Hers, AdminOps, Others, Shapes,
       Fresh, Alone, Starts, NoFile, NoNames
<1>13. QED
  BY <1>3, <1>4, <1>5, <1>6, <1>7, <1>8, <1>9, <1>10, <1>11, <1>12 DEF IInv

LEMMA RetrieveKeeps ==
    ASSUME IInv, NEW r \in Requests, Retrieve(r)
    PROVE  IInv'
<1>1. TypeOK /\ RequestsSound /\ Shapes
  BY Shaped DEF IInv
<1>2. /\ Typed /\ Others(r) /\ At(r, "retrieve") /\ req[r].store \in stores
      /\ req'[r].pc = "write" /\ req'[r].store = 0 /\ req'[r].sure = req[r].sure
      /\ \/ req'[r].about = 0
         \/ req[r].sure /\ ~overlapped /\ req'[r].about \in docs[req[r].store]
      /\ req'[r].op = req[r].op /\ req'[r].file = req[r].file
      /\ req'[r].plan = req[r].plan /\ req'[r].upload = req[r].upload
      /\ req'[r].report = req[r].report /\ req'[r].seen = req[r].seen
      /\ req'[r].names = req[r].names
      /\ UNCHANGED <<student, disk, stores, docs, uploads, reports, files,
                     lost, minted, settled, overlapped, spilled>>
      /\ Latest' = Latest
      /\ UNCHANGED arrived
  <2>1. /\ At(r, "retrieve") /\ req[r].store \in stores
        /\ UNCHANGED <<disks, cloud, database, minted, history>>
    BY DEF Retrieve
  <2>2. \E k \in Plans \cup {0}, n \in Stores \cup {0}, s \in Steps :
          /\ n = 0 /\ s = "write"
          /\ k = 0 \/ (req[r].sure /\ ~overlapped /\ k \in docs[req[r].store])
          /\ req' = [req EXCEPT ![r].pc = s, ![r].store = n, ![r].about = k]
    BY <1>1, <2>1 DEF Retrieve, Shapes, Steps
  <2>3. PICK k \in Plans \cup {0}, n \in Stores \cup {0}, s \in Steps :
          /\ n = 0 /\ s = "write"
          /\ k = 0 \/ (req[r].sure /\ ~overlapped /\ k \in docs[req[r].store])
          /\ req' = [req EXCEPT ![r].pc = s, ![r].store = n, ![r].about = k]
    BY <2>2
  <2>4. k = 0 \/ (req[r].sure /\ ~overlapped /\ k \in docs[req[r].store])
    BY <2>3
  <2>5. /\ Typed /\ Others(r) /\ req'[r].about = k
        /\ req'[r].pc = "write" /\ req'[r].store = 0 /\ req'[r].sure = req[r].sure
        /\ req'[r].op = req[r].op /\ req'[r].file = req[r].file
        /\ req'[r].plan = req[r].plan /\ req'[r].upload = req[r].upload
        /\ req'[r].report = req[r].report /\ req'[r].seen = req[r].seen
        /\ req'[r].names = req[r].names
    <3> DEFINE q == [[[req[r] EXCEPT !.pc = s] EXCEPT !.store = n] EXCEPT !.about = k]
    <3>1. req \in [Requests -> Request] /\ req[r] \in Request
      BY <1>1 DEF TypeOK
    <3>2. req' = [req EXCEPT ![r] = q]
      BY <2>3, <3>1, Zenon
    <3>3. q \in Request
      BY <2>3, <3>1 DEF Request
    <3>4. /\ q.about = k /\ q.pc = "write" /\ q.store = 0 /\ q.sure = req[r].sure
          /\ q.op = req[r].op /\ q.file = req[r].file
          /\ q.plan = req[r].plan /\ q.upload = req[r].upload
          /\ q.report = req[r].report /\ q.seen = req[r].seen
          /\ q.names = req[r].names
      BY <2>3, <3>1 DEF Request
    <3> HIDE DEF q
    <3>5. QED
      BY <1>1, <3>2, <3>3, <3>4, Set
  <2>6. QED
    BY <2>1, <2>4, <2>5 DEF disks, cloud, database, rows, history, Latest
<1>3. TypeOK'
  BY <1>1, <1>2, TypesKept DEF TypeOK
<1>4. RequestsSound' /\ PlansOnDisk' /\ GivenOut'
  BY <1>1, <1>2, SMTT(60) DEF IInv, RequestsSound, PlansOnDisk, GivenOut, At,
       Here, Others, Shapes
<1>5. FilesApart'
  BY <1>1, <1>2, SMTT(60) DEF IInv, FilesApart, GivenOut, Erasing,
       RequestsSound, Pending, At, Here, Hers, AdminOps, Others, Shapes
<1>6. ReportOnDisk'
  BY <1>1, <1>2, SMTT(60) DEF IInv, ReportOnDisk, FilesApart, Erasing,
       GoneForGood, RequestsSound, Pending, At, Here, Hers, AdminOps, Others,
       Shapes
<1>7. NoStrayReports'
  BY <1>1, <1>2, SMTT(60) DEF IInv, NoStrayReports, RequestsSound, At, Here,
       Others, Shapes
<1>8. Erasing'
  BY <1>1, <1>2, SMTT(60) DEF IInv, Erasing, OneAtATime, RequestsSound,
       ClearedQuiet, At, Here, Hers, AdminOps, Others, Shapes
<1>9. ClearedQuiet' /\ GoneForGood'
  BY <1>1, <1>2, SMTT(60) DEF IInv, ClearedQuiet, Erasing, RequestsSound,
       GoneForGood, At, Here, Hers, AdminOps, Others, Shapes
<1>10. OneAtATime' /\ UploadUnderWay'
  BY <1>1, <1>2, SMTT(60) DEF IInv, OneAtATime, RequestsSound, UploadUnderWay,
       GivenOut, Erasing, At, Here, Hers, AdminOps, Others, Shapes
<1>11. EntryStands'
  BY <1>1, <1>2, SMTT(60) DEF IInv, EntryStands, UploadUnderWay, OneAtATime,
       RequestsSound, GivenOut, GoneForGood, Ready, Searchable, OldFile, At,
       Here, Hers, AdminOps, Others, Shapes
<1>12. AnalysisAbout' /\ ReportOfItsUpload'
  BY <1>1, <1>2, SMTT(60) DEF IInv, AnalysisAbout, EntryStands, OneAtATime,
       GivenOut, RequestsSound, ReportOfItsUpload, FilesApart, Ready,
       Searchable, OldFile, Pending, At, Here, Hers, AdminOps, Others, Shapes
<1>13. QED
  BY <1>3, <1>4, <1>5, <1>6, <1>7, <1>8, <1>9, <1>10, <1>11, <1>12 DEF IInv

LEMMA StopKeeps ==
    ASSUME IInv, NEW r \in Requests, Stop(r)
    PROVE  IInv'
<1>1. TypeOK /\ RequestsSound /\ Shapes
  BY Shaped DEF IInv
<1>2. /\ Typed /\ Others(r) /\ req'[r] = Idle
      /\ req[r].op = "analyze" /\ ~Pending(r)
      /\ UNCHANGED <<student, disk, stores, docs, uploads, reports, files,
                     lost, minted, settled, overlapped, spilled>>
      /\ Latest' = Latest
      /\ UNCHANGED arrived
  BY <1>1, Returned
     DEF Stop, Pending, disks, cloud, database, rows, history, Latest
<1>3. TypeOK'
  BY <1>1, <1>2, TypesKept DEF TypeOK
<1>4. RequestsSound' /\ PlansOnDisk' /\ GivenOut'
  BY <1>1, <1>2, SMTT(60) DEF IInv, RequestsSound, PlansOnDisk, GivenOut, At,
       Here, Idle, Others, Shapes, Pending
<1>5. FilesApart'
  BY <1>1, <1>2, SMTT(60) DEF IInv, FilesApart, GivenOut, Erasing,
       RequestsSound, Pending, At, Here, Hers, AdminOps, Idle, Others, Shapes
<1>6. ReportOnDisk'
  BY <1>1, <1>2, SMTT(60) DEF IInv, ReportOnDisk, FilesApart, Erasing,
       GoneForGood, RequestsSound, Pending, At, Here, Hers, AdminOps, Idle,
       Others, Shapes
<1>7. NoStrayReports'
  BY <1>1, <1>2, SMTT(60) DEF IInv, NoStrayReports, RequestsSound, At, Here,
       Idle, Others, Shapes, Pending
<1>8. Erasing'
  BY <1>1, <1>2, SMTT(60) DEF IInv, Erasing, OneAtATime, RequestsSound,
       ClearedQuiet, At, Here, Hers, AdminOps, Idle, Others, Shapes, Pending
<1>9. ClearedQuiet' /\ GoneForGood'
  BY <1>1, <1>2, SMTT(60) DEF IInv, ClearedQuiet, Erasing, RequestsSound,
       GoneForGood, At, Here, Hers, AdminOps, Idle, Others, Shapes, Pending
<1>10. OneAtATime' /\ UploadUnderWay'
  BY <1>1, <1>2, SMTT(60) DEF IInv, OneAtATime, RequestsSound, UploadUnderWay,
       GivenOut, Erasing, At, Here, Hers, AdminOps, Idle, Others, Shapes,
       Pending
<1>11. EntryStands'
  BY <1>1, <1>2, SMTT(60) DEF IInv, EntryStands, UploadUnderWay, OneAtATime,
       RequestsSound, GivenOut, GoneForGood, Ready, Searchable, OldFile, At,
       Here, Hers, AdminOps, Idle, Others, Shapes, Pending
<1>12. AnalysisAbout' /\ ReportOfItsUpload'
  BY <1>1, <1>2, SMTT(60) DEF IInv, AnalysisAbout, EntryStands, OneAtATime,
       GivenOut, RequestsSound, ReportOfItsUpload, FilesApart, Ready,
       Searchable, OldFile, Pending, At, Here, Hers, AdminOps, Idle, Others,
       Shapes
<1>13. QED
  BY <1>3, <1>4, <1>5, <1>6, <1>7, <1>8, <1>9, <1>10, <1>11, <1>12 DEF IInv

LEMMA WriteKeeps ==
    ASSUME IInv, NEW r \in Requests, Write(r)
    PROVE  IInv'
<1>1. TypeOK /\ RequestsSound /\ Shapes
  BY Shaped DEF IInv
<1>2. /\ Typed /\ Others(r) /\ At(r, "write") /\ req[r].upload # 0
      /\ FileWritten
      /\ req'[r].pc = "insert" /\ req'[r].report = minted.report + 1
      /\ req'[r].op = req[r].op /\ req'[r].file = req[r].file
      /\ req'[r].plan = req[r].plan /\ req'[r].upload = req[r].upload
      /\ req'[r].about = req[r].about /\ req'[r].seen = req[r].seen
      /\ req'[r].names = req[r].names /\ KeepsStore(r)
      /\ UNCHANGED <<student, disk, stores, docs, uploads, reports, lost,
                     settled, overlapped, spilled>>
      /\ Latest' = Latest
      /\ UNCHANGED arrived
  <2>1. /\ At(r, "write") /\ req[r].upload # 0 /\ WriteFile(minted.report + 1)
        /\ req' = [req EXCEPT ![r].pc = "insert", ![r].report = minted.report + 1]
        /\ UNCHANGED <<disk, lost, cloud, database, history>>
    BY DEF Write
  <2>2. FileWritten
    BY <1>1, <2>1, FileTyped
  <2>3. "insert" \in Steps /\ minted.report + 1 \in Reports
    BY <2>1 DEF Steps, WriteFile
  <2>4. QED
    BY <1>1, <2>1, <2>2, <2>3, SetReport DEF cloud, database, rows, history, Latest
<1>3. TypeOK'
  <2>1. /\ files' \subseteq Reports
        /\ minted' \in [plan : 0 .. MaxPlans, store : 0 .. MaxStores,
                       report : 0 .. MaxReports]
    BY <1>1, FileTyped DEF Write
  <2>2. QED
    BY <1>1, <1>2, <2>1, TypesKept DEF TypeOK
<1>4. RequestsSound' /\ PlansOnDisk' /\ GivenOut'
  BY <1>1, <1>2, SMTT(60) DEF IInv, RequestsSound, PlansOnDisk, GivenOut, At,
       Here, Others, Shapes, KeepsStore, FileWritten
<1>5. FilesApart'
  BY <1>1, <1>2, SMTT(60) DEF IInv, FilesApart, GivenOut, Erasing,
       RequestsSound, Pending, At, Here, Hers, AdminOps, Others, Shapes,
       KeepsStore, FileWritten
<1>6. ReportOnDisk'
  BY <1>1, <1>2, SMTT(60) DEF IInv, ReportOnDisk, FilesApart, Erasing,
       GoneForGood, RequestsSound, Pending, At, Here, Hers, AdminOps, Others,
       Shapes, KeepsStore, FileWritten
<1>7. NoStrayReports'
  BY <1>1, <1>2, SMTT(60) DEF IInv, NoStrayReports, RequestsSound, At, Here,
       Others, Shapes, KeepsStore, FileWritten
<1>8. Erasing'
  BY <1>1, <1>2, SMTT(60) DEF IInv, Erasing, OneAtATime, RequestsSound,
       ClearedQuiet, At, Here, Hers, AdminOps, Others, Shapes, KeepsStore,
       FileWritten
<1>9. ClearedQuiet' /\ GoneForGood'
  BY <1>1, <1>2, SMTT(60) DEF IInv, ClearedQuiet, Erasing, RequestsSound,
       GoneForGood, At, Here, Hers, AdminOps, Others, Shapes, KeepsStore,
       FileWritten
<1>10. OneAtATime' /\ UploadUnderWay'
  BY <1>1, <1>2, SMTT(60) DEF IInv, OneAtATime, RequestsSound, UploadUnderWay,
       GivenOut, Erasing, At, Here, Hers, AdminOps, Others, Shapes,
       KeepsStore, FileWritten
<1>11. EntryStands'
  BY <1>1, <1>2, SMTT(60) DEF IInv, EntryStands, UploadUnderWay, OneAtATime,
       RequestsSound, GivenOut, GoneForGood, Ready, Searchable, OldFile, At,
       Here, Hers, AdminOps, Others, Shapes, KeepsStore, FileWritten
<1>12. AnalysisAbout' /\ ReportOfItsUpload'
  BY <1>1, <1>2, SMTT(60) DEF IInv, AnalysisAbout, EntryStands, OneAtATime,
       GivenOut, RequestsSound, ReportOfItsUpload, FilesApart, Ready,
       Searchable, OldFile, Pending, At, Here, Hers, AdminOps, Others, Shapes,
       KeepsStore, FileWritten
<1>13. QED
  BY <1>3, <1>4, <1>5, <1>6, <1>7, <1>8, <1>9, <1>10, <1>11, <1>12 DEF IInv

LEMMA WriteLegacyKeeps ==
    ASSUME IInv, NEW r \in Requests, WriteLegacy(r)
    PROVE  IInv'
<1>1. TypeOK /\ RequestsSound /\ Shapes
  BY Shaped DEF IInv
<1>2. /\ Typed /\ Others(r) /\ req'[r] = Idle /\ At(r, "write")
      /\ req[r].upload = 0 /\ Here
      /\ \/ /\ FileWritten /\ RowAdded(OldFile, 0, 0)
            /\ ReportAdded(r, Latest + 1, minted.report + 1)
            /\ spilled' = spilled
         \/ /\ FileWritten /\ spilled'
            /\ UNCHANGED <<uploads, reports>> /\ Latest' = Latest
         \/ /\ RowAdded(OldFile, 0, 0)
            /\ UNCHANGED <<reports, files, minted, spilled>>
      /\ UNCHANGED <<student, disk, stores, docs, lost, settled, overlapped>>
      /\ UNCHANGED arrived
  <2> DEFINE i == minted.report + 1
             row == [file |-> OldFile, plan |-> 0, store |-> 0]
             p == NewReport(r, Latest + 1, i)
  <2>1. /\ At(r, "write") /\ req[r].upload = 0 /\ Here /\ Return(r)
        /\ \/ /\ WriteFile(i) /\ uploads' = Append(uploads, row)
              /\ reports' = reports \cup {p}
              /\ spilled' = spilled
           \/ WriteFile(i) /\ spilled' = TRUE /\ UNCHANGED database
           \/ /\ uploads' = Append(uploads, row)
              /\ UNCHANGED <<reports, files, minted, spilled>>
        /\ UNCHANGED <<student, disk, lost, cloud, arrived, settled, overlapped>>
    BY DEF WriteLegacy, Here
  <2>2. WriteFile(i) => FileWritten
    BY <1>1, FileTyped
  <2>3. uploads' = Append(uploads, row) => RowAdded(OldFile, 0, 0)
    <3>1. row \in Upload
      BY <1>1 DEF Upload, Names
    <3>2. row.file = OldFile /\ row.plan = 0 /\ row.store = 0
      OBVIOUS
    <3>3. uploads' = Append(uploads, row) => RowAdded(row.file, row.plan, row.store)
      BY <1>1, <3>1, RowAppended
    <3>4. QED
      BY <3>2, <3>3
  <2>4. WriteFile(i) /\ reports' = reports \cup {p} => ReportAdded(r, Latest + 1, i)
    <3>1. SUFFICES ASSUME WriteFile(i), reports' = reports \cup {p}
                   PROVE  ReportAdded(r, Latest + 1, i)
      OBVIOUS
    <3>2. i \in Reports /\ Latest + 1 \in Nat \ {0}
      BY <1>1, <3>1 DEF WriteFile, Shapes
    <3>3. /\ p \in Report /\ p.id = i /\ p.upload = Latest + 1
          /\ p.about = IF overlapped THEN 0 ELSE req[r].about
      BY <1>1, <3>2, ReportTyped
    <3>4. QED
      BY <3>1, <3>3 DEF ReportAdded
  <2>5. Typed /\ Others(r) /\ req'[r] = Idle
    BY <1>1, <2>1, Returned
  <2>6. QED
    BY <2>1, <2>2, <2>3, <2>4, <2>5 DEF database, rows, cloud, Latest
<1>3. TypeOK'
  <2> DEFINE row == [file |-> OldFile, plan |-> 0, store |-> 0]
  <2>1. /\ Synthetic = {}
        /\ uploads' = Append(uploads, row) \/ UNCHANGED <<uploads, reports>>
        /\ WriteFile(minted.report + 1) \/ UNCHANGED <<files, minted>>
        /\ spilled' = TRUE \/ spilled' = spilled
    BY DEF WriteLegacy, database, rows
  <2>2. /\ files' \subseteq Reports
        /\ minted' \in [plan : 0 .. MaxPlans, store : 0 .. MaxStores,
                       report : 0 .. MaxReports]
        /\ spilled' \in BOOLEAN
    BY <1>1, <2>1, FileTyped DEF TypeOK
  <2>3. CASE UNCHANGED <<uploads, reports>>
    BY <1>1, <1>2, <2>2, <2>3, TypesKept DEF TypeOK
  <2>4. CASE uploads' = Append(uploads, row)
    <3>1. row \in Upload
      BY DEF Upload, Names
    <3>2. /\ uploads' \in Seq(Upload) /\ Latest' = Latest + 1
          /\ Synthetic' \subseteq {Latest + 1}
      BY <1>1, <2>1, <2>4, <3>1, RowAppended
    <3>3. Cardinality(Synthetic') <= 1
      BY <3>2, AtMostOne
    <3>4. /\ reports' \subseteq Report
          /\ \A q \in reports' : q.upload <= Latest'
          /\ \A q, s \in reports' : q.upload = s.upload => q = s
      <4>1. Latest \in Nat /\ \A q \in reports : q.upload \in 1 .. Latest
        BY <1>1 DEF Shapes
      <4>2. CASE reports' = reports
        BY <1>1, <3>2, <4>1, <4>2 DEF TypeOK
      <4>3. CASE ReportAdded(r, Latest + 1, minted.report + 1)
        BY <1>1, <3>2, <4>1, <4>3, ReportsGrown
      <4>4. QED
        BY <1>2, <4>2, <4>3
    <3>5. QED
      BY <1>1, <1>2, <2>2, <3>2, <3>3, <3>4 DEF TypeOK, Typed
  <2>5. QED
    BY <2>1, <2>3, <2>4
<1>4. RequestsSound' /\ PlansOnDisk' /\ GivenOut'
  BY <1>1, <1>2, SMTT(60) DEF IInv, RequestsSound, PlansOnDisk, GivenOut, At,
       Here, Idle, OldFile, Others, Shapes, FileWritten, RowAdded, ReportAdded
<1>5. FilesApart'
  BY <1>1, <1>2, SMTT(60) DEF IInv, FilesApart, GivenOut, Erasing,
       RequestsSound, Pending, At, Here, Hers, AdminOps, Idle, OldFile,
       Others, Shapes, FileWritten, RowAdded, ReportAdded
<1>6. ReportOnDisk'
  BY <1>1, <1>2, SMTT(60) DEF IInv, ReportOnDisk, FilesApart, Erasing,
       GoneForGood, RequestsSound, Pending, At, Here, Hers, AdminOps, Idle,
       OldFile, Others, Shapes, FileWritten, RowAdded, ReportAdded
<1>7. NoStrayReports'
  BY <1>1, <1>2, SMTT(60) DEF IInv, NoStrayReports, RequestsSound, At, Here,
       Idle, OldFile, Others, Shapes, FileWritten, RowAdded, ReportAdded
<1>8. Erasing'
  BY <1>1, <1>2, SMTT(60) DEF IInv, Erasing, OneAtATime, RequestsSound,
       ClearedQuiet, At, Here, Hers, AdminOps, Idle, OldFile, Others, Shapes,
       FileWritten, RowAdded, ReportAdded
<1>9. ClearedQuiet' /\ GoneForGood'
  BY <1>1, <1>2, SMTT(60) DEF IInv, ClearedQuiet, Erasing, RequestsSound,
       GoneForGood, At, Here, Hers, AdminOps, Idle, OldFile, Others, Shapes,
       FileWritten, RowAdded, ReportAdded
<1>10. OneAtATime' /\ UploadUnderWay'
  BY <1>1, <1>2, SMTT(60) DEF IInv, OneAtATime, RequestsSound, UploadUnderWay,
       GivenOut, Erasing, At, Here, Hers, AdminOps, Idle, OldFile, Others,
       Shapes, FileWritten, RowAdded, ReportAdded
<1>11. EntryStands'
  BY <1>1, <1>2, SMTT(60) DEF IInv, EntryStands, UploadUnderWay, OneAtATime,
       RequestsSound, GivenOut, GoneForGood, Ready, Searchable, OldFile, At,
       Here, Hers, AdminOps, Idle, Others, Shapes, FileWritten, RowAdded,
       ReportAdded
<1>12. AnalysisAbout' /\ ReportOfItsUpload'
  BY <1>1, <1>2, SMTT(60) DEF IInv, AnalysisAbout, EntryStands, OneAtATime,
       GivenOut, RequestsSound, ReportOfItsUpload, FilesApart, Ready,
       Searchable, OldFile, Pending, At, Here, Hers, AdminOps, Idle, Others,
       Shapes, FileWritten, RowAdded, ReportAdded
<1>13. QED
  BY <1>3, <1>4, <1>5, <1>6, <1>7, <1>8, <1>9, <1>10, <1>11, <1>12 DEF IInv

LEMMA TakeOverKeeps ==
    ASSUME IInv, NEW r \in Requests, TakeOver(r)
    PROVE  IInv'
<1>1. TypeOK /\ RequestsSound /\ Shapes
  BY Shaped DEF IInv
<1>2. /\ Typed /\ Others(r) /\ At(r, "write")
      /\ \/ req'[r] = Idle
         \/ /\ req'[r].upload = Latest /\ Latest # 0 /\ req[r].upload = 0
            /\ req'[r].op = req[r].op /\ req'[r].file = req[r].file
            /\ req'[r].plan = req[r].plan /\ req'[r].report = req[r].report
            /\ req'[r].about = req[r].about /\ req'[r].seen = req[r].seen
            /\ req'[r].names = req[r].names /\ req'[r].pc = req[r].pc
            /\ KeepsStore(r)
      /\ UNCHANGED <<student, disk, stores, docs, uploads, reports, files,
                     lost, minted, settled, overlapped, spilled>>
      /\ Latest' = Latest
      /\ UNCHANGED arrived
  <2>1. Latest \in Nat
    BY <1>1 DEF Shapes
  <2>2. QED
    BY <1>1, <2>1, SetUpload, Returned
       DEF TakeOver, disks, cloud, database, rows, history, Latest
<1>3. TypeOK'
  BY <1>1, <1>2, TypesKept DEF TypeOK
<1>4. RequestsSound' /\ PlansOnDisk' /\ GivenOut'
  BY <1>1, <1>2, SMTT(60) DEF IInv, RequestsSound, PlansOnDisk, GivenOut, At,
       Here, Idle, Others, Shapes, KeepsStore
<1>5. FilesApart'
  BY <1>1, <1>2, SMTT(60) DEF IInv, FilesApart, GivenOut, Erasing,
       RequestsSound, Pending, At, Here, Hers, AdminOps, Idle, Others, Shapes,
       KeepsStore
<1>6. ReportOnDisk'
  BY <1>1, <1>2, SMTT(60) DEF IInv, ReportOnDisk, FilesApart, Erasing,
       GoneForGood, RequestsSound, Pending, At, Here, Hers, AdminOps, Idle,
       Others, Shapes, KeepsStore
<1>7. NoStrayReports'
  BY <1>1, <1>2, SMTT(60) DEF IInv, NoStrayReports, RequestsSound, At, Here,
       Idle, Others, Shapes, KeepsStore
<1>8. Erasing'
  BY <1>1, <1>2, SMTT(60) DEF IInv, Erasing, OneAtATime, RequestsSound,
       ClearedQuiet, At, Here, Hers, AdminOps, Idle, Others, Shapes,
       KeepsStore
<1>9. ClearedQuiet' /\ GoneForGood'
  BY <1>1, <1>2, SMTT(60) DEF IInv, ClearedQuiet, Erasing, RequestsSound,
       GoneForGood, At, Here, Hers, AdminOps, Idle, Others, Shapes, KeepsStore
<1>10. OneAtATime' /\ UploadUnderWay'
  BY <1>1, <1>2, SMTT(60) DEF IInv, OneAtATime, RequestsSound, UploadUnderWay,
       GivenOut, Erasing, At, Here, Hers, AdminOps, Idle, Others, Shapes,
       KeepsStore
<1>11. EntryStands'
  BY <1>1, <1>2, SMTT(60) DEF IInv, EntryStands, UploadUnderWay, OneAtATime,
       RequestsSound, GivenOut, GoneForGood, Ready, Searchable, OldFile, At,
       Here, Hers, AdminOps, Idle, Others, Shapes, KeepsStore
<1>12. AnalysisAbout' /\ ReportOfItsUpload'
  BY <1>1, <1>2, SMTT(60) DEF IInv, AnalysisAbout, EntryStands, OneAtATime,
       GivenOut, RequestsSound, ReportOfItsUpload, FilesApart, Ready,
       Searchable, OldFile, Pending, At, Here, Hers, AdminOps, Idle, Others,
       Shapes, KeepsStore
<1>13. QED
  BY <1>3, <1>4, <1>5, <1>6, <1>7, <1>8, <1>9, <1>10, <1>11, <1>12 DEF IInv

LEMMA InsertKeeps ==
    ASSUME IInv, NEW r \in Requests, Insert(r)
    PROVE  IInv'
<1>1. TypeOK /\ RequestsSound /\ Shapes
  BY Shaped DEF IInv
<1>2. /\ Typed /\ Others(r) /\ At(r, "insert")
      /\ \/ /\ req'[r] = Idle /\ Here /\ \A p \in reports : p.upload # req[r].upload
            /\ ReportAdded(r, req[r].upload, req[r].report)
         \/ /\ req'[r].pc = "winner" /\ Keeps(r) /\ KeepsStore(r)
            /\ reports' = reports
      /\ UNCHANGED <<student, disk, stores, docs, uploads, files, lost,
                     minted, settled, overlapped, spilled>>
      /\ Latest' = Latest
      /\ UNCHANGED arrived
  <2> DEFINE p == NewReport(r, req[r].upload, req[r].report)
  <2>1. /\ At(r, "insert")
        /\ UNCHANGED <<student, disks, cloud, uploads, minted, history>>
        /\ \/ /\ ReportOf(req[r].upload) = {} /\ Here
              /\ reports' = reports \cup {p} /\ Return(r)
           \/ Goto(r, "winner") /\ reports' = reports
    BY DEF Insert, Here
  <2>2. /\ p \in Report /\ p.id = req[r].report /\ p.upload = req[r].upload
        /\ p.about = IF overlapped THEN 0 ELSE req[r].about
    <3>1. req[r].upload \in Nat \ {0} /\ req[r].report \in Reports
      BY <1>1, <2>1 DEF IInv, RequestsSound, FilesApart, Pending, At, Shapes
    <3>2. QED
      BY <1>1, <3>1, ReportTyped
  <2>3. ReportOf(req[r].upload) = {} => \A q \in reports : q.upload # req[r].upload
    BY DEF ReportOf
  <2>4. reports' = reports \cup {p} => ReportAdded(r, req[r].upload, req[r].report)
    BY <2>2 DEF ReportAdded
  <2>5. "winner" \in Steps
    BY DEF Steps
  <2>6. QED
    BY <1>1, <2>1, <2>3, <2>4, <2>5, SetStep, Returned
       DEF Goto, disks, cloud, history, Latest
<1>3. TypeOK'
  <2>1. /\ reports' \subseteq Report
        /\ \A q \in reports' : q.upload <= Latest
        /\ \A q, s \in reports' : q.upload = s.upload => q = s
    <3>1. CASE reports' = reports
      BY <1>1, <3>1 DEF TypeOK
    <3>2. CASE /\ Here /\ \A p \in reports : p.upload # req[r].upload
               /\ ReportAdded(r, req[r].upload, req[r].report)
      <4>1. req[r].upload \in Nat /\ req[r].upload <= Latest /\ Latest \in Nat
        BY <1>1, <1>2, <3>2 DEF RequestsSound, At, Shapes
      <4>2. QED
        BY <1>1, <3>2, <4>1, ReportsGrown
    <3>3. QED
      BY <1>2, <3>1, <3>2
  <2>2. Synthetic' = Synthetic
    BY <1>2 DEF Synthetic
  <2>3. QED
    BY <1>1, <1>2, <2>1, <2>2 DEF TypeOK, Typed
<1>4. RequestsSound' /\ PlansOnDisk' /\ GivenOut'
  BY <1>1, <1>2, SMTT(60) DEF IInv, RequestsSound, PlansOnDisk, GivenOut, At,
       Here, Idle, Others, Shapes, Keeps, KeepsStore, ReportAdded
<1>5. FilesApart'
  BY <1>1, <1>2, SMTT(60) DEF IInv, FilesApart, GivenOut, Erasing,
       RequestsSound, Pending, At, Here, Hers, AdminOps, Idle, Others, Shapes,
       Keeps, KeepsStore, ReportAdded
<1>6. ReportOnDisk'
  BY <1>1, <1>2, SMTT(60) DEF IInv, ReportOnDisk, FilesApart, Erasing,
       GoneForGood, RequestsSound, Pending, At, Here, Hers, AdminOps, Idle,
       Others, Shapes, Keeps, KeepsStore, ReportAdded
<1>7. NoStrayReports'
  BY <1>1, <1>2, SMTT(60) DEF IInv, NoStrayReports, RequestsSound, At, Here,
       Idle, Others, Shapes, Keeps, KeepsStore, ReportAdded
<1>8. Erasing'
  BY <1>1, <1>2, SMTT(60) DEF IInv, Erasing, OneAtATime, RequestsSound,
       ClearedQuiet, At, Here, Hers, AdminOps, Idle, Others, Shapes, Keeps,
       KeepsStore, ReportAdded
<1>9. ClearedQuiet' /\ GoneForGood'
  BY <1>1, <1>2, SMTT(60) DEF IInv, ClearedQuiet, Erasing, RequestsSound,
       GoneForGood, At, Here, Hers, AdminOps, Idle, Others, Shapes, Keeps,
       KeepsStore, ReportAdded
<1>10. OneAtATime' /\ UploadUnderWay'
  BY <1>1, <1>2, SMTT(60) DEF IInv, OneAtATime, RequestsSound, UploadUnderWay,
       GivenOut, Erasing, At, Here, Hers, AdminOps, Idle, Others, Shapes,
       Keeps, KeepsStore, ReportAdded
<1>11. EntryStands'
  BY <1>1, <1>2, SMTT(60) DEF IInv, EntryStands, UploadUnderWay, OneAtATime,
       RequestsSound, GivenOut, GoneForGood, Ready, Searchable, OldFile, At,
       Here, Hers, AdminOps, Idle, Others, Shapes, Keeps, KeepsStore,
       ReportAdded
<1>12. AnalysisAbout' /\ ReportOfItsUpload'
  BY <1>1, <1>2, SMTT(60) DEF IInv, AnalysisAbout, EntryStands, OneAtATime,
       GivenOut, RequestsSound, ReportOfItsUpload, FilesApart, Ready,
       Searchable, OldFile, Pending, At, Here, Hers, AdminOps, Idle, Others,
       Shapes, Keeps, KeepsStore, ReportAdded
<1>13. QED
  BY <1>3, <1>4, <1>5, <1>6, <1>7, <1>8, <1>9, <1>10, <1>11, <1>12 DEF IInv

LEMMA FindWinnerKeeps ==
    ASSUME IInv, NEW r \in Requests, FindWinner(r)
    PROVE  IInv'
<1>1. TypeOK /\ RequestsSound /\ Shapes
  BY Shaped DEF IInv
<1>2. /\ Typed /\ Others(r) /\ req'[r] = Idle /\ At(r, "winner")
      /\ \/ files' = files \ {req[r].report} /\ spilled' = spilled
         \/ spilled' = TRUE /\ files' = files
      /\ UNCHANGED <<student, disk, stores, docs, uploads, reports, lost,
                     minted, settled, overlapped>>
      /\ Latest' = Latest
      /\ UNCHANGED arrived
  BY <1>1, Returned
     DEF FindWinner, disks, cloud, database, rows, history, Latest
<1>3. TypeOK'
  BY <1>1, <1>2, TypesKept DEF TypeOK
<1>4. RequestsSound' /\ PlansOnDisk' /\ GivenOut'
  BY <1>1, <1>2, SMTT(60) DEF IInv, RequestsSound, PlansOnDisk, GivenOut, At,
       Here, Idle, Others, Shapes
<1>5. FilesApart'
  BY <1>1, <1>2, SMTT(60) DEF IInv, FilesApart, GivenOut, Erasing,
       RequestsSound, Pending, At, Here, Hers, AdminOps, Idle, Others, Shapes
<1>6. ReportOnDisk'
  BY <1>1, <1>2, SMTT(60) DEF IInv, ReportOnDisk, FilesApart, Erasing,
       GoneForGood, RequestsSound, Pending, At, Here, Hers, AdminOps, Idle,
       Others, Shapes
<1>7. NoStrayReports'
  BY <1>1, <1>2, SMTT(60) DEF IInv, NoStrayReports, RequestsSound, At, Here,
       Idle, Others, Shapes
<1>8. Erasing'
  BY <1>1, <1>2, SMTT(60) DEF IInv, Erasing, OneAtATime, RequestsSound,
       ClearedQuiet, At, Here, Hers, AdminOps, Idle, Others, Shapes
<1>9. ClearedQuiet' /\ GoneForGood'
  BY <1>1, <1>2, SMTT(60) DEF IInv, ClearedQuiet, Erasing, RequestsSound,
       GoneForGood, At, Here, Hers, AdminOps, Idle, Others, Shapes
<1>10. OneAtATime' /\ UploadUnderWay'
  BY <1>1, <1>2, SMTT(60) DEF IInv, OneAtATime, RequestsSound, UploadUnderWay,
       GivenOut, Erasing, At, Here, Hers, AdminOps, Idle, Others, Shapes
<1>11. EntryStands'
  BY <1>1, <1>2, SMTT(60) DEF IInv, EntryStands, UploadUnderWay, OneAtATime,
       RequestsSound, GivenOut, GoneForGood, Ready, Searchable, OldFile, At,
       Here, Hers, AdminOps, Idle, Others, Shapes
<1>12. AnalysisAbout' /\ ReportOfItsUpload'
  BY <1>1, <1>2, SMTT(60) DEF IInv, AnalysisAbout, EntryStands, OneAtATime,
       GivenOut, RequestsSound, ReportOfItsUpload, FilesApart, Ready,
       Searchable, OldFile, Pending, At, Here, Hers, AdminOps, Idle, Others,
       Shapes
<1>13. QED
  BY <1>3, <1>4, <1>5, <1>6, <1>7, <1>8, <1>9, <1>10, <1>11, <1>12 DEF IInv

LEMMA CutShortKeeps ==
    ASSUME IInv, NEW r \in Requests, CutShort(r)
    PROVE  IInv'
<1>1. TypeOK /\ RequestsSound /\ Shapes
  BY Shaped DEF IInv
<1>2. /\ Typed /\ Others(r) /\ req'[r] = Idle
      /\ spilled' = TRUE
      /\ UNCHANGED <<student, disk, stores, docs, uploads, reports, files,
                     lost, minted, settled, overlapped>>
      /\ Latest' = Latest
      /\ UNCHANGED arrived
  BY <1>1, Returned
     DEF CutShort, disks, cloud, database, rows, history, Latest
<1>3. TypeOK'
  BY <1>1, <1>2, TypesKept DEF TypeOK
<1>4. RequestsSound' /\ PlansOnDisk' /\ GivenOut'
  BY <1>1, <1>2, SMTT(60) DEF IInv, RequestsSound, PlansOnDisk, GivenOut, At,
       Here, Idle, Others, Shapes
<1>5. FilesApart'
  BY <1>1, <1>2, SMTT(60) DEF IInv, FilesApart, GivenOut, Erasing,
       RequestsSound, Pending, At, Here, Hers, AdminOps, Idle, Others, Shapes
<1>6. ReportOnDisk'
  BY <1>1, <1>2, SMTT(60) DEF IInv, ReportOnDisk, FilesApart, Erasing,
       GoneForGood, RequestsSound, Pending, At, Here, Hers, AdminOps, Idle,
       Others, Shapes
<1>7. NoStrayReports'
  BY <1>1, <1>2, SMTT(60) DEF IInv, NoStrayReports, RequestsSound, At, Here,
       Idle, Others, Shapes
<1>8. Erasing'
  BY <1>1, <1>2, SMTT(60) DEF IInv, Erasing, OneAtATime, RequestsSound,
       ClearedQuiet, At, Here, Hers, AdminOps, Idle, Others, Shapes
<1>9. ClearedQuiet' /\ GoneForGood'
  BY <1>1, <1>2, SMTT(60) DEF IInv, ClearedQuiet, Erasing, RequestsSound,
       GoneForGood, At, Here, Hers, AdminOps, Idle, Others, Shapes
<1>10. OneAtATime' /\ UploadUnderWay'
  BY <1>1, <1>2, SMTT(60) DEF IInv, OneAtATime, RequestsSound, UploadUnderWay,
       GivenOut, Erasing, At, Here, Hers, AdminOps, Idle, Others, Shapes
<1>11. EntryStands'
  BY <1>1, <1>2, SMTT(60) DEF IInv, EntryStands, UploadUnderWay, OneAtATime,
       RequestsSound, GivenOut, GoneForGood, Ready, Searchable, OldFile, At,
       Here, Hers, AdminOps, Idle, Others, Shapes
<1>12. AnalysisAbout' /\ ReportOfItsUpload'
  BY <1>1, <1>2, SMTT(60) DEF IInv, AnalysisAbout, EntryStands, OneAtATime,
       GivenOut, RequestsSound, ReportOfItsUpload, FilesApart, Ready,
       Searchable, OldFile, Pending, At, Here, Hers, AdminOps, Idle, Others,
       Shapes
<1>13. QED
  BY <1>3, <1>4, <1>5, <1>6, <1>7, <1>8, <1>9, <1>10, <1>11, <1>12 DEF IInv

LEMMA DeleteReportsKeeps ==
    ASSUME IInv, NEW r \in Requests, DeleteReports(r)
    PROVE  IInv'
<1>1. TypeOK /\ RequestsSound /\ Shapes
  BY Shaped DEF IInv
<1>2. /\ Typed /\ Others(r) /\ Fresh(r) /\ overlapped' = overlapped
      /\ Starts(r, "delete", "unlink") /\ NoFile(r)
      /\ req'[r].upload = 0 /\ ~req'[r].sure
      /\ \E gone \in SUBSET reports :
             /\ reports' = reports \ gone
             /\ \A p \in gone : p.id \in req'[r].seen
             /\ \A i \in req'[r].seen : \E p \in gone : i = p.id
             /\ \A k \in req'[r].names : \E p \in gone : k = uploads[p.upload].file
             /\ \/ settled' = "no"
                \/ settled' = settled /\ \A p \in gone : p.upload # Latest
      /\ UNCHANGED <<student, disk, stores, docs, uploads, files, lost,
                     minted, spilled>>
      /\ Latest' = Latest
      /\ arrived' \in 0 .. MaxArrivals
  <2> DEFINE q(gone) == [Idle EXCEPT !.op = "delete", !.pc = "unlink",
                               !.seen = {p.id : p \in gone},
                               !.names = {uploads[p.upload].file : p \in gone}]
  <2>1. PICK gone \in SUBSET reports :
          /\ reports' = reports \ gone /\ Arrive(r, "delete", q(gone))
          /\ settled' = IF \E p \in gone : p.upload = Latest THEN "no" ELSE settled
          /\ UNCHANGED <<student, disks, cloud, uploads, minted>>
    BY DEF DeleteReports
  <2>2. /\ {p.id : p \in gone} \in SUBSET Reports
        /\ {uploads[p.upload].file : p \in gone} \in SUBSET Names
    BY <1>1, <2>1 DEF Shapes
  <2>3. q(gone) \in Request
    BY <2>2 DEF Idle, Request, Ops, Steps
  <2>4. "delete" \in Ops /\ "delete" \in AdminOps
    BY DEF Ops, AdminOps
  <2>5. /\ Typed /\ Others(r) /\ Fresh(r) /\ overlapped' = overlapped
        /\ req'[r] = q(gone) /\ arrived' \in 0 .. MaxArrivals /\ spilled' = spilled
    BY <1>1, <2>1, <2>3, <2>4, Arrived
  <2>6. /\ Starts(r, "delete", "unlink") /\ NoFile(r)
        /\ req'[r].upload = 0 /\ ~req'[r].sure
        /\ req'[r].seen = {p.id : p \in gone}
        /\ req'[r].names = {uploads[p.upload].file : p \in gone}
    BY <2>5 DEF Idle, Starts, NoFile
  <2>7. QED
    BY <2>1, <2>5, <2>6 DEF disks, cloud, Latest
<1>3. TypeOK'
  BY <1>1, <1>2, TypesKept DEF TypeOK
<1>4. RequestsSound' /\ PlansOnDisk' /\ GivenOut'
  BY <1>1, <1>2, SMTT(60) DEF IInv, RequestsSound, PlansOnDisk, GivenOut, At,
       Here, Others, Shapes, Fresh, Starts, NoFile
<1>5. FilesApart'
  BY <1>1, <1>2, SMTT(60) DEF IInv, FilesApart, GivenOut, Erasing,
       RequestsSound, Pending, At, Here, Hers, AdminOps, Others, Shapes,
       Fresh, Starts, NoFile
<1>6. ReportOnDisk'
  BY <1>1, <1>2, SMTT(60) DEF IInv, ReportOnDisk, FilesApart, Erasing,
       GoneForGood, RequestsSound, Pending, At, Here, Hers, AdminOps, Others,
       Shapes, Fresh, Starts, NoFile
<1>7. NoStrayReports'
  BY <1>1, <1>2, SMTT(60) DEF IInv, NoStrayReports, RequestsSound, At, Here,
       Others, Shapes, Fresh, Starts, NoFile
<1>8. Erasing'
  BY <1>1, <1>2, SMTT(60) DEF IInv, Erasing, OneAtATime, RequestsSound,
       ClearedQuiet, At, Here, Hers, AdminOps, Others, Shapes, Fresh, Starts,
       NoFile
<1>9. ClearedQuiet' /\ GoneForGood'
  BY <1>1, <1>2, SMTT(60) DEF IInv, ClearedQuiet, Erasing, RequestsSound,
       GoneForGood, At, Here, Hers, AdminOps, Others, Shapes, Fresh, Starts,
       NoFile
<1>10. OneAtATime' /\ UploadUnderWay'
  BY <1>1, <1>2, SMTT(60) DEF IInv, OneAtATime, RequestsSound, UploadUnderWay,
       GivenOut, Erasing, At, Here, Hers, AdminOps, Others, Shapes, Fresh,
       Starts, NoFile
<1>11. EntryStands'
  BY <1>1, <1>2, SMTT(60) DEF IInv, EntryStands, UploadUnderWay, OneAtATime,
       RequestsSound, GivenOut, GoneForGood, Ready, Searchable, OldFile, At,
       Here, Hers, AdminOps, Others, Shapes, Fresh, Starts, NoFile
<1>12. AnalysisAbout' /\ ReportOfItsUpload'
  BY <1>1, <1>2, SMTT(60) DEF IInv, AnalysisAbout, EntryStands, OneAtATime,
       GivenOut, RequestsSound, ReportOfItsUpload, FilesApart, Ready,
       Searchable, OldFile, Pending, At, Here, Hers, AdminOps, Others, Shapes,
       Fresh, Starts, NoFile
<1>13. QED
  BY <1>3, <1>4, <1>5, <1>6, <1>7, <1>8, <1>9, <1>10, <1>11, <1>12 DEF IInv

LEMMA UnlinkReportKeeps ==
    ASSUME IInv, NEW r \in Requests, UnlinkReport(r)
    PROVE  IInv'
<1>1. TypeOK /\ RequestsSound /\ Shapes
  BY Shaped DEF IInv
<1>2. /\ Typed /\ Others(r) /\ At(r, "unlink")
      /\ \E i \in req[r].seen :
             /\ \/ files' = files \ {i} /\ spilled' = spilled
                \/ files' = files /\ spilled' = TRUE
             /\ req'[r].seen = req[r].seen \ {i}
             /\ \/ req'[r].pc = "check" /\ req[r].seen = {i}
                \/ req'[r].pc = "unlink"
      /\ req'[r].op = req[r].op /\ req'[r].file = req[r].file
      /\ req'[r].plan = req[r].plan /\ req'[r].upload = req[r].upload
      /\ req'[r].report = req[r].report /\ req'[r].about = req[r].about
      /\ req'[r].names = req[r].names /\ KeepsStore(r)
      /\ UNCHANGED <<student, disk, stores, docs, uploads, reports, lost,
                     minted, settled, overlapped>>
      /\ Latest' = Latest
      /\ UNCHANGED arrived
  <2>1. /\ At(r, "unlink")
        /\ UNCHANGED <<student, disk, lost, cloud, database, minted, arrived, settled, overlapped>>
    BY DEF UnlinkReport
  <2>2. PICK i \in req[r].seen :
          /\ \/ files' = files \ {i} /\ UNCHANGED spilled
             \/ spilled' = TRUE /\ UNCHANGED files
          /\ req' = [req EXCEPT ![r].seen = @ \ {i},
                                ![r].pc = IF req[r].seen = {i} THEN "check" ELSE @]
    BY DEF UnlinkReport
  <2>3. PICK S \in SUBSET Reports : S = req[r].seen \ {i}
    BY <1>1 DEF Shapes
  <2>4. PICK s \in Steps : s = IF req[r].seen = {i} THEN "check" ELSE "unlink"
    BY DEF Steps
  <2>5. req' = [req EXCEPT ![r].seen = S, ![r].pc = s]
    BY <2>1, <2>2, <2>3, <2>4 DEF At
  <2>6. /\ Typed /\ Others(r) /\ req'[r].seen = S /\ req'[r].pc = s
        /\ req'[r].op = req[r].op /\ req'[r].file = req[r].file
        /\ req'[r].plan = req[r].plan /\ req'[r].upload = req[r].upload
        /\ req'[r].report = req[r].report /\ req'[r].about = req[r].about
        /\ req'[r].names = req[r].names /\ KeepsStore(r)
    BY <1>1, <2>5, SetSeen
  <2>7. QED
    BY <2>1, <2>2, <2>3, <2>4, <2>6 DEF cloud, database, rows, Latest
<1>3. TypeOK'
  BY <1>1, <1>2, TypesKept DEF TypeOK
<1>4. RequestsSound' /\ PlansOnDisk' /\ GivenOut'
  BY <1>1, <1>2, SMTT(60) DEF IInv, RequestsSound, PlansOnDisk, GivenOut, At,
       Here, Others, Shapes, KeepsStore
<1>5. FilesApart'
  BY <1>1, <1>2, SMTT(60) DEF IInv, FilesApart, GivenOut, Erasing,
       RequestsSound, Pending, At, Here, Hers, AdminOps, Others, Shapes,
       KeepsStore
<1>6. ReportOnDisk'
  BY <1>1, <1>2, SMTT(60) DEF IInv, ReportOnDisk, FilesApart, Erasing,
       GoneForGood, RequestsSound, Pending, At, Here, Hers, AdminOps, Others,
       Shapes, KeepsStore
<1>7. NoStrayReports'
  BY <1>1, <1>2, SMTT(60) DEF IInv, NoStrayReports, RequestsSound, At, Here,
       Others, Shapes, KeepsStore
<1>8. Erasing'
  BY <1>1, <1>2, SMTT(60) DEF IInv, Erasing, OneAtATime, RequestsSound,
       ClearedQuiet, At, Here, Hers, AdminOps, Others, Shapes, KeepsStore
<1>9. ClearedQuiet' /\ GoneForGood'
  BY <1>1, <1>2, SMTT(60) DEF IInv, ClearedQuiet, Erasing, RequestsSound,
       GoneForGood, At, Here, Hers, AdminOps, Others, Shapes, KeepsStore
<1>10. OneAtATime' /\ UploadUnderWay'
  BY <1>1, <1>2, SMTT(60) DEF IInv, OneAtATime, RequestsSound, UploadUnderWay,
       GivenOut, Erasing, At, Here, Hers, AdminOps, Others, Shapes, KeepsStore
<1>11. EntryStands'
  BY <1>1, <1>2, SMTT(60) DEF IInv, EntryStands, UploadUnderWay, OneAtATime,
       RequestsSound, GivenOut, GoneForGood, Ready, Searchable, OldFile, At,
       Here, Hers, AdminOps, Others, Shapes, KeepsStore
<1>12. AnalysisAbout' /\ ReportOfItsUpload'
  BY <1>1, <1>2, SMTT(60) DEF IInv, AnalysisAbout, EntryStands, OneAtATime,
       GivenOut, RequestsSound, ReportOfItsUpload, FilesApart, Ready,
       Searchable, OldFile, Pending, At, Here, Hers, AdminOps, Others, Shapes,
       KeepsStore
<1>13. QED
  BY <1>3, <1>4, <1>5, <1>6, <1>7, <1>8, <1>9, <1>10, <1>11, <1>12 DEF IInv

LEMMA CheckPlanKeeps ==
    ASSUME IInv, NEW r \in Requests, CheckPlan(r)
    PROVE  IInv'
<1>1. TypeOK /\ RequestsSound /\ Shapes
  BY Shaped DEF IInv
<1>2. /\ Typed /\ Others(r) /\ At(r, "check")
      /\ \/ NamesLeft(r)
         \/ /\ req'[r].pc = "unlinkPlan" /\ req'[r].file \in req[r].names
            /\ req'[r].names = req[r].names /\ req'[r].op = req[r].op
            /\ req'[r].plan = req[r].plan /\ req'[r].upload = req[r].upload
            /\ req'[r].report = req[r].report /\ req'[r].about = req[r].about
            /\ req'[r].seen = req[r].seen /\ KeepsStore(r)
      /\ UNCHANGED <<student, disk, stores, docs, uploads, reports, files,
                     lost, minted, settled, overlapped, spilled>>
      /\ Latest' = Latest
      /\ UNCHANGED arrived
  <2>1. At(r, "check") /\ UNCHANGED <<disks, cloud, database, minted, history>>
    BY DEF CheckPlan
  <2>2. PICK name \in req[r].names :
          \/ PlanDone(r, name)
          \/ req' = [req EXCEPT ![r].pc = "unlinkPlan", ![r].file = name]
    BY DEF CheckPlan
  <2>3. name \in Plans \cup {0} /\ "unlinkPlan" \in Steps
    BY <1>1 DEF Shapes, Names, OldFile, Steps
  <2>4. CASE PlanDone(r, name)
    BY <1>1, <2>1, <2>4, Deleted
       DEF disks, cloud, database, rows, history, Latest
  <2>5. CASE req' = [req EXCEPT ![r].pc = "unlinkPlan", ![r].file = name]
    <3>1. /\ Typed /\ Others(r) /\ req'[r].pc = "unlinkPlan" /\ req'[r].file = name
          /\ req'[r].names = req[r].names /\ req'[r].op = req[r].op
          /\ req'[r].plan = req[r].plan /\ req'[r].upload = req[r].upload
          /\ req'[r].report = req[r].report /\ req'[r].about = req[r].about
          /\ req'[r].seen = req[r].seen /\ KeepsStore(r)
      BY <1>1, <2>3, <2>5, SetFile
    <3>2. QED
      BY <2>1, <3>1 DEF disks, cloud, database, rows, history, Latest
  <2>6. QED
    BY <2>2, <2>4, <2>5
<1>3. TypeOK'
  BY <1>1, <1>2, TypesKept DEF TypeOK
<1>4. RequestsSound' /\ PlansOnDisk' /\ GivenOut'
  BY <1>1, <1>2, SMTT(60) DEF IInv, RequestsSound, PlansOnDisk, GivenOut, At,
       Here, Idle, Others, Shapes, KeepsStore, NamesLeft
<1>5. FilesApart'
  BY <1>1, <1>2, SMTT(60) DEF IInv, FilesApart, GivenOut, Erasing,
       RequestsSound, Pending, At, Here, Hers, AdminOps, Idle, Others, Shapes,
       KeepsStore, NamesLeft
<1>6. ReportOnDisk'
  BY <1>1, <1>2, SMTT(60) DEF IInv, ReportOnDisk, FilesApart, Erasing,
       GoneForGood, RequestsSound, Pending, At, Here, Hers, AdminOps, Idle,
       Others, Shapes, KeepsStore, NamesLeft
<1>7. NoStrayReports'
  BY <1>1, <1>2, SMTT(60) DEF IInv, NoStrayReports, RequestsSound, At, Here,
       Idle, Others, Shapes, KeepsStore, NamesLeft
<1>8. Erasing'
  BY <1>1, <1>2, SMTT(60) DEF IInv, Erasing, OneAtATime, RequestsSound,
       ClearedQuiet, At, Here, Hers, AdminOps, Idle, Others, Shapes,
       KeepsStore, NamesLeft
<1>9. ClearedQuiet' /\ GoneForGood'
  BY <1>1, <1>2, SMTT(60) DEF IInv, ClearedQuiet, Erasing, RequestsSound,
       GoneForGood, At, Here, Hers, AdminOps, Idle, Others, Shapes,
       KeepsStore, NamesLeft
<1>10. OneAtATime'
  BY <1>1, <1>2, SMTT(60) DEF IInv, OneAtATime, RequestsSound, At, Here, Hers,
       AdminOps, Idle, Others, Shapes, KeepsStore, NamesLeft
<1>11. UploadUnderWay'
  <2>1. \A o \in Requests : req'[o].op = "upload" => req'[o] = req[o]
    BY <1>1, <1>2 DEF Others, NamesLeft, RequestsSound, At, Idle
  <2>2. \A o \in Requests : req'[o].op = "delete" =>
          /\ req[o].op = "delete" /\ req'[o].names \subseteq req[o].names
          /\ req'[o].file \in req[o].names \cup {req[o].file, 0}
    BY <1>1, <1>2 DEF Others, NamesLeft, RequestsSound, At, Idle
  <2>3. UNCHANGED <<overlapped, student, settled, disk, uploads, stores, docs>> /\ Latest' = Latest
    BY <1>2
  <2>4. QED
    BY <1>1, <2>1, <2>2, <2>3 DEF IInv, UploadUnderWay, RequestsSound, At, Here
<1>12. EntryStands' /\ AnalysisAbout' /\ ReportOfItsUpload'
  <2>1. \A o \in Requests \ {r} : GoesOn(o)
    BY <1>2 DEF GoesOn, Others
  <2>2. GoesOn(r)
    BY <1>2 DEF GoesOn, NamesLeft, KeepsStore, Idle, OldFile
  <2>3. QED
    BY <1>2, <2>1, <2>2, EntryLeftAlone, AnalysesLeftAlone DEF IInv, ReportOfItsUpload
<1>13. QED
  BY <1>3, <1>4, <1>5, <1>6, <1>7, <1>8, <1>9, <1>10, <1>11, <1>12 DEF IInv

LEMMA UnlinkPlanKeeps ==
    ASSUME IInv, NEW r \in Requests, UnlinkPlan(r)
    PROVE  IInv'
<1>1. TypeOK /\ RequestsSound /\ Shapes
  BY Shaped DEF IInv
<1>2. /\ Typed /\ Others(r) /\ At(r, "unlinkPlan")
      /\ NamesLeft(r) /\ PlanGone(r)
      /\ UNCHANGED <<student, stores, docs, uploads, reports, files, lost,
                     minted, settled, overlapped, spilled>>
      /\ Latest' = Latest
      /\ UNCHANGED arrived
  <2>1. /\ At(r, "unlinkPlan") /\ PlanDone(r, req[r].file)
        /\ disk' = [disk EXCEPT ![req[r].file] = 0]
        /\ UNCHANGED <<files, lost, cloud, database, minted, history>>
    BY DEF UnlinkPlan
  <2>2. req[r].file \in Names
    BY <1>1 DEF Shapes, Names, OldFile
  <2>3. PlanGone(r)
    BY <1>1, <2>1, <2>2 DEF PlanGone, Shapes
  <2>4. Typed /\ Others(r) /\ NamesLeft(r)
    BY <1>1, <2>1, Deleted
  <2>5. QED
    BY <2>1, <2>3, <2>4 DEF cloud, database, rows, history, Latest
<1>3. TypeOK'
  <2>1. disk' \in [Names -> Texts]
    BY <1>1 DEF UnlinkPlan, Shapes, Texts
  <2>2. QED
    BY <1>1, <1>2, <2>1, TypesKept DEF TypeOK
<1>4. RequestsSound' /\ PlansOnDisk' /\ GivenOut'
  BY <1>1, <1>2, SMTT(60) DEF IInv, RequestsSound, PlansOnDisk, GivenOut, At,
       Here, Idle, Others, Shapes, PlanGone, NamesLeft, KeepsStore
<1>5. FilesApart'
  BY <1>1, <1>2, SMTT(60) DEF IInv, FilesApart, GivenOut, Erasing,
       RequestsSound, Pending, At, Here, Hers, AdminOps, Idle, Others, Shapes,
       PlanGone, NamesLeft, KeepsStore
<1>6. ReportOnDisk'
  BY <1>1, <1>2, SMTT(60) DEF IInv, ReportOnDisk, FilesApart, Erasing,
       GoneForGood, RequestsSound, Pending, At, Here, Hers, AdminOps, Idle,
       Others, Shapes, PlanGone, NamesLeft, KeepsStore
<1>7. NoStrayReports'
  BY <1>1, <1>2, SMTT(60) DEF IInv, NoStrayReports, RequestsSound, At, Here,
       Idle, Others, Shapes, PlanGone, NamesLeft, KeepsStore
<1>8. Erasing'
  BY <1>1, <1>2, SMTT(60) DEF IInv, Erasing, OneAtATime, RequestsSound,
       ClearedQuiet, At, Here, Hers, AdminOps, Idle, Others, Shapes, PlanGone,
       NamesLeft, KeepsStore
<1>9. ClearedQuiet' /\ GoneForGood'
  BY <1>1, <1>2, SMTT(60) DEF IInv, ClearedQuiet, Erasing, RequestsSound,
       GoneForGood, At, Here, Hers, AdminOps, Idle, Others, Shapes, PlanGone,
       NamesLeft, KeepsStore
<1>10. OneAtATime' /\ UploadUnderWay'
  BY <1>1, <1>2, SMTT(60) DEF IInv, OneAtATime, RequestsSound, UploadUnderWay,
       GivenOut, Erasing, At, Here, Hers, AdminOps, Idle, Others, Shapes,
       PlanGone, NamesLeft, KeepsStore
<1>11. EntryStands'
  BY <1>1, <1>2, SMTT(60) DEF IInv, EntryStands, UploadUnderWay, OneAtATime,
       RequestsSound, GivenOut, GoneForGood, Ready, Searchable, OldFile, At,
       Here, Hers, AdminOps, Idle, Others, Shapes, PlanGone, NamesLeft,
       KeepsStore
<1>12. AnalysisAbout' /\ ReportOfItsUpload'
  BY <1>1, <1>2, SMTT(60) DEF IInv, AnalysisAbout, EntryStands, OneAtATime,
       GivenOut, RequestsSound, ReportOfItsUpload, FilesApart, Ready,
       Searchable, OldFile, Pending, At, Here, Hers, AdminOps, Idle, Others,
       Shapes, PlanGone, NamesLeft, KeepsStore
<1>13. QED
  BY <1>3, <1>4, <1>5, <1>6, <1>7, <1>8, <1>9, <1>10, <1>11, <1>12 DEF IInv

LEMMA DeleteUserKeeps ==
    ASSUME IInv, NEW r \in Requests, DeleteUser(r)
    PROVE  IInv'
<1>1. TypeOK /\ RequestsSound /\ Shapes
  BY Shaped DEF IInv
<1>2. /\ Typed /\ Others(r) /\ Fresh(r) /\ overlapped' = overlapped
      /\ Starts(r, "erase", "rows") /\ NoFile(r)
      /\ req'[r].upload = 0 /\ req'[r].sure = FALSE /\ req'[r].names = {}
      /\ req'[r].seen = {p.id : p \in reports}
      /\ UNCHANGED <<student, disk, stores, docs, uploads, reports, files,
                     lost, minted, settled, spilled>>
      /\ Latest' = Latest
      /\ arrived' \in 0 .. MaxArrivals /\ overlapped' \in BOOLEAN
  <2>1. [Idle EXCEPT !.op = "erase", !.pc = "rows",
                             !.seen = {p.id : p \in reports}] \in Request
    <3>1. {p.id : p \in reports} \in SUBSET Reports
      BY <1>1 DEF Shapes
    <3>2. QED
      BY <3>1 DEF Idle, Request, Ops, Steps
  <2>2. "erase" \in Ops /\ "erase" \in AdminOps
    BY DEF Ops, AdminOps
  <2>3. Arrive(r, "erase",
           [Idle EXCEPT !.op = "erase", !.pc = "rows",
                             !.seen = {p.id : p \in reports}])
    BY DEF DeleteUser
  <2>4. /\ Typed /\ Others(r) /\ Fresh(r)
        /\ overlapped' = overlapped
        /\ req'[r] = [Idle EXCEPT !.op = "erase", !.pc = "rows",
                             !.seen = {p.id : p \in reports}]
        /\ arrived' \in 0 .. MaxArrivals /\ overlapped' \in BOOLEAN
        /\ spilled' = spilled
    BY <1>1, <2>1, <2>2, <2>3, Arrived
  <2>5. QED
    BY <2>4 DEF DeleteUser, Idle, Starts, NoFile, NoNames, disks, cloud, database,
                 rows, Latest
<1>3. TypeOK'
  BY <1>1, <1>2, TypesKept DEF TypeOK
<1>4. RequestsSound' /\ PlansOnDisk' /\ GivenOut'
  BY <1>1, <1>2, SMTT(60) DEF IInv, RequestsSound, PlansOnDisk, GivenOut, At,
       Here, Others, Shapes, Fresh, Starts, NoFile
<1>5. FilesApart'
  BY <1>1, <1>2, SMTT(60) DEF IInv, FilesApart, GivenOut, Erasing,
       RequestsSound, Pending, At, Here, Hers, AdminOps, Others, Shapes,
       Fresh, Starts, NoFile
<1>6. ReportOnDisk'
  BY <1>1, <1>2, SMTT(60) DEF IInv, ReportOnDisk, FilesApart, Erasing,
       GoneForGood, RequestsSound, Pending, At, Here, Hers, AdminOps, Others,
       Shapes, Fresh, Starts, NoFile
<1>7. NoStrayReports'
  BY <1>1, <1>2, SMTT(60) DEF IInv, NoStrayReports, RequestsSound, At, Here,
       Others, Shapes, Fresh, Starts, NoFile
<1>8. Erasing'
  BY <1>1, <1>2, SMTT(60) DEF IInv, Erasing, OneAtATime, RequestsSound,
       ClearedQuiet, At, Here, Hers, AdminOps, Others, Shapes, Fresh, Starts,
       NoFile
<1>9. ClearedQuiet' /\ GoneForGood'
  BY <1>1, <1>2, SMTT(60) DEF IInv, ClearedQuiet, Erasing, RequestsSound,
       GoneForGood, At, Here, Hers, AdminOps, Others, Shapes, Fresh, Starts,
       NoFile
<1>10. OneAtATime' /\ UploadUnderWay'
  BY <1>1, <1>2, SMTT(60) DEF IInv, OneAtATime, RequestsSound, UploadUnderWay,
       GivenOut, Erasing, At, Here, Hers, AdminOps, Others, Shapes, Fresh,
       Starts, NoFile
<1>11. EntryStands'
  BY <1>1, <1>2, SMTT(60) DEF IInv, EntryStands, UploadUnderWay, OneAtATime,
       RequestsSound, GivenOut, GoneForGood, Ready, Searchable, OldFile, At,
       Here, Hers, AdminOps, Others, Shapes, Fresh, Starts, NoFile
<1>12. AnalysisAbout' /\ ReportOfItsUpload'
  BY <1>1, <1>2, SMTT(60) DEF IInv, AnalysisAbout, EntryStands, OneAtATime,
       GivenOut, RequestsSound, ReportOfItsUpload, FilesApart, Ready,
       Searchable, OldFile, Pending, At, Here, Hers, AdminOps, Others, Shapes,
       Fresh, Starts, NoFile
<1>13. QED
  BY <1>3, <1>4, <1>5, <1>6, <1>7, <1>8, <1>9, <1>10, <1>11, <1>12 DEF IInv

LEMMA RowsGoneKeeps ==
    ASSUME IInv, NEW r \in Requests, DeleteRows(r), ~RowsRefuse(r)
    PROVE  IInv'
<1>1. TypeOK /\ RequestsSound /\ Shapes
  BY Shaped DEF IInv
<1>2. /\ Typed /\ Others(r) /\ At(r, "rows")
      /\ req'[r].pc = "files" /\ req'[r].seen = {}
      /\ req'[r].sure => ~overlapped /\ \A o \in Requests : ~Hers(o)
      /\ req'[r].op = req[r].op /\ req'[r].file = req[r].file
      /\ req'[r].plan = req[r].plan /\ req'[r].upload = req[r].upload
      /\ req'[r].report = req[r].report /\ req'[r].about = req[r].about
      /\ req'[r].names = req[r].names /\ req'[r].store = req[r].store
      /\ student' \in Students /\ student' # "here"
      /\ student' = "cleared" => student = "cleared"
      /\ uploads' = <<>> /\ Latest' = 0 /\ reports' = {} /\ settled' = "no"
      /\ \A p \in reports : p.id \in req[r].seen
      /\ UNCHANGED <<disk, stores, docs, files, lost, minted, overlapped,
                     spilled>>
      /\ UNCHANGED arrived
  <2> DEFINE met == /\ ~overlapped
                    /\ \A o \in Requests : req[o].op \in AdminOps \cup {"none"}
  <2>1. /\ At(r, "rows") /\ {p.id : p \in reports} \subseteq req[r].seen
        /\ student' = IF student = "here" THEN "gone" ELSE student
        /\ uploads' = <<>> /\ reports' = {} /\ settled' = "no"
        /\ req' = [req EXCEPT ![r].pc = "files", ![r].seen = {}, ![r].sure = met]
        /\ UNCHANGED <<disks, cloud, minted, arrived, overlapped, spilled>>
    BY DEF DeleteRows, RowsRefuse
  <2>2. PICK b \in BOOLEAN : b = met
    OBVIOUS
  <2>3. req' = [req EXCEPT ![r].pc = "files", ![r].seen = {}, ![r].sure = b]
    BY <2>1, <2>2, Zenon
  <2>4. req \in [Requests -> Request] /\ req[r] \in Request /\ "files" \in Steps
    BY <1>1 DEF TypeOK, Steps
  <2>5. {} \in SUBSET Reports
    OBVIOUS
  <2>6. /\ Typed /\ Others(r)
        /\ req'[r].pc = "files" /\ req'[r].seen = {} /\ req'[r].sure = b
        /\ req'[r].op = req[r].op /\ req'[r].file = req[r].file
        /\ req'[r].plan = req[r].plan /\ req'[r].upload = req[r].upload
        /\ req'[r].report = req[r].report /\ req'[r].about = req[r].about
        /\ req'[r].names = req[r].names /\ req'[r].store = req[r].store
    BY <2>3, <2>4, <2>5 DEF Request, Typed, Others
  <2>7. b => ~overlapped /\ \A o \in Requests : ~Hers(o)
    BY <2>2 DEF Hers
  <2>8. /\ student' \in Students /\ student' # "here"
        /\ student' = "cleared" => student = "cleared"
    BY <1>1, <2>1 DEF TypeOK, Students
  <2>9. Latest' = 0
    BY <2>1 DEF Latest
  <2>10. QED
    BY <2>1, <2>6, <2>7, <2>8, <2>9 DEF disks, cloud
<1>3. TypeOK'
  <2>1. uploads' \in Seq(Upload) /\ Synthetic' = {}
    BY <1>2 DEF Synthetic
  <2>2. Cardinality(Synthetic') <= 1
    BY <2>1, FS_EmptySet
  <2>3. QED
    BY <1>1, <1>2, <2>1, <2>2 DEF TypeOK, Typed
<1>4. RequestsSound' /\ PlansOnDisk' /\ GivenOut'
  BY <1>1, <1>2, SMTT(60) DEF IInv, RequestsSound, PlansOnDisk, GivenOut, At,
       Here, Others, Shapes
<1>5. FilesApart'
  <2>1. \A o \in Requests : /\ Pending(o)' => Pending(o) /\ req'[o].report = req[o].report
                            /\ At(o, "unlink")' => At(o, "unlink")
                                                   /\ req'[o].seen = req[o].seen
    BY <1>2 DEF Pending, At, Others
  <2>2. reports' = {} /\ ~Here'
    BY <1>2 DEF Here
  <2>3. QED
    BY <2>1, <2>2 DEF IInv, FilesApart, Pending, At
<1>6. ReportOnDisk'
  BY <1>1, <1>2, SMTT(60) DEF IInv, ReportOnDisk, FilesApart, Erasing,
       GoneForGood, RequestsSound, Pending, At, Here, Hers, AdminOps, Others,
       Shapes
<1>7. NoStrayReports'
  BY <1>1, <1>2, SMTT(60) DEF IInv, NoStrayReports, RequestsSound, At, Here,
       Others, Shapes
<1>8. Erasing'
  <2>1. /\ ~Here' /\ \A o \in Requests : Hers(o)' => Hers(o)
        /\ UNCHANGED <<stores, files, disk>>
    BY <1>1, <1>2 DEF Here, Hers, AdminOps, RequestsSound, At, Others
  <2>2. \A o \in Requests \ {r} : req'[o] = req[o]
    BY <1>2 DEF Others
  <2>3. req'[r].pc = "files" /\ (req'[r].sure => ~overlapped /\ \A o \in Requests : ~Hers(o))
    BY <1>2
  <2>4. QED
    BY <2>1, <2>2, <2>3 DEF IInv, Erasing, OneAtATime
<1>9. ClearedQuiet' /\ GoneForGood'
  BY <1>1, <1>2, SMTT(60) DEF IInv, ClearedQuiet, Erasing, RequestsSound,
       GoneForGood, At, Here, Hers, AdminOps, Others, Shapes
<1>10. OneAtATime' /\ UploadUnderWay'
  BY <1>1, <1>2, SMTT(60) DEF IInv, OneAtATime, RequestsSound, UploadUnderWay,
       GivenOut, Erasing, At, Here, Hers, AdminOps, Others, Shapes
<1>11. EntryStands'
  BY <1>1, <1>2, SMTT(60) DEF IInv, EntryStands, UploadUnderWay, OneAtATime,
       RequestsSound, GivenOut, GoneForGood, Ready, Searchable, OldFile, At,
       Here, Hers, AdminOps, Others, Shapes
<1>12. AnalysisAbout' /\ ReportOfItsUpload'
  BY <1>1, <1>2, SMTT(60) DEF IInv, AnalysisAbout, EntryStands, OneAtATime,
       GivenOut, RequestsSound, ReportOfItsUpload, FilesApart, Ready,
       Searchable, OldFile, Pending, At, Here, Hers, AdminOps, Others, Shapes
<1>13. QED
  BY <1>3, <1>4, <1>5, <1>6, <1>7, <1>8, <1>9, <1>10, <1>11, <1>12 DEF IInv

LEMMA RowsRefusedKeeps ==
    ASSUME IInv, NEW r \in Requests, RowsRefuse(r)
    PROVE  IInv'
<1>1. TypeOK /\ RequestsSound /\ Shapes
  BY Shaped DEF IInv
<1>2. /\ Typed /\ Others(r) /\ req'[r] = Idle /\ At(r, "rows")
      /\ UNCHANGED <<student, disk, stores, docs, uploads, reports, files,
                     lost, minted, settled, overlapped, spilled>>
      /\ Latest' = Latest
      /\ UNCHANGED arrived
  BY <1>1, Returned
     DEF RowsRefuse, disks, cloud, database, rows, history, Latest
<1>3. TypeOK'
  BY <1>1, <1>2, TypesKept DEF TypeOK
<1>4. RequestsSound' /\ PlansOnDisk' /\ GivenOut'
  BY <1>1, <1>2, SMTT(60) DEF IInv, RequestsSound, PlansOnDisk, GivenOut, At,
       Here, Idle, Others, Shapes
<1>5. FilesApart'
  BY <1>1, <1>2, SMTT(60) DEF IInv, FilesApart, GivenOut, Erasing,
       RequestsSound, Pending, At, Here, Hers, AdminOps, Idle, Others, Shapes
<1>6. ReportOnDisk'
  BY <1>1, <1>2, SMTT(60) DEF IInv, ReportOnDisk, FilesApart, Erasing,
       GoneForGood, RequestsSound, Pending, At, Here, Hers, AdminOps, Idle,
       Others, Shapes
<1>7. NoStrayReports'
  BY <1>1, <1>2, SMTT(60) DEF IInv, NoStrayReports, RequestsSound, At, Here,
       Idle, Others, Shapes
<1>8. Erasing'
  BY <1>1, <1>2, SMTT(60) DEF IInv, Erasing, OneAtATime, RequestsSound,
       ClearedQuiet, At, Here, Hers, AdminOps, Idle, Others, Shapes
<1>9. ClearedQuiet' /\ GoneForGood'
  BY <1>1, <1>2, SMTT(60) DEF IInv, ClearedQuiet, Erasing, RequestsSound,
       GoneForGood, At, Here, Hers, AdminOps, Idle, Others, Shapes
<1>10. OneAtATime' /\ UploadUnderWay'
  BY <1>1, <1>2, SMTT(60) DEF IInv, OneAtATime, RequestsSound, UploadUnderWay,
       GivenOut, Erasing, At, Here, Hers, AdminOps, Idle, Others, Shapes
<1>11. EntryStands'
  BY <1>1, <1>2, SMTT(60) DEF IInv, EntryStands, UploadUnderWay, OneAtATime,
       RequestsSound, GivenOut, GoneForGood, Ready, Searchable, OldFile, At,
       Here, Hers, AdminOps, Idle, Others, Shapes
<1>12. AnalysisAbout' /\ ReportOfItsUpload'
  BY <1>1, <1>2, SMTT(60) DEF IInv, AnalysisAbout, EntryStands, OneAtATime,
       GivenOut, RequestsSound, ReportOfItsUpload, FilesApart, Ready,
       Searchable, OldFile, Pending, At, Here, Hers, AdminOps, Idle, Others,
       Shapes
<1>13. QED
  BY <1>3, <1>4, <1>5, <1>6, <1>7, <1>8, <1>9, <1>10, <1>11, <1>12 DEF IInv

LEMMA RemoveFilesKeeps ==
    ASSUME IInv, NEW r \in Requests, RemoveFiles(r)
    PROVE  IInv'
<1>1. TypeOK /\ RequestsSound /\ Shapes
  BY Shaped DEF IInv
<1>2. /\ Typed /\ Others(r) /\ At(r, "files") /\ Keeps(r)
      /\ req'[r].pc = "look" /\ req'[r].store = req[r].store
      /\ req'[r].sure => req[r].sure /\ files' = {} /\ \A k \in Names : disk'[k] = 0
      /\ disk' = disk \/ \A k \in Names : disk'[k] = 0
      /\ files' \subseteq files /\ (~spilled' => ~spilled /\ files' = {})
      /\ UNCHANGED <<student, stores, docs, uploads, reports, lost, minted,
                     settled, overlapped>>
      /\ Latest' = Latest
      /\ UNCHANGED arrived
  <2>1. /\ At(r, "files")
        /\ UNCHANGED <<lost, cloud, database, minted, arrived, settled, overlapped>>
    BY DEF RemoveFiles
  <2>2. PICK rest \in SUBSET files, left \in {disk, [k \in Names |-> 0]} :
          /\ files' = rest /\ disk' = left
          /\ spilled' = (spilled \/ rest # {})
          /\ req' = [req EXCEPT ![r].pc = "look",
                 ![r].sure = @ /\ rest = {} /\ \A k \in Names : left[k] = 0]
    BY DEF RemoveFiles
  <2> DEFINE clean == req[r].sure /\ rest = {} /\ \A k \in Names : left[k] = 0
  <2>3. PICK b \in BOOLEAN : b = clean
    BY <1>1 DEF Shapes
  <2>4. req' = [req EXCEPT ![r].pc = "look", ![r].sure = b]
    BY <2>2, <2>3, Zenon
  <2>5. "look" \in Steps
    BY DEF Steps
  <2>6. /\ Typed /\ Others(r) /\ Keeps(r) /\ req'[r].pc = "look"
        /\ req'[r].store = req[r].store /\ req'[r].sure = b
    BY <1>1, <2>3, <2>4, <2>5, SetSure
  <2>7. b => req[r].sure /\ files' = {} /\ \A k \in Names : disk'[k] = 0
    BY <1>1, <2>2, <2>3 DEF Shapes
  <2>8. /\ disk' = disk \/ \A k \in Names : disk'[k] = 0
        /\ files' \subseteq files /\ (~spilled' => ~spilled /\ files' = {})
    BY <1>1, <2>2 DEF Shapes
  <2>9. QED
    BY <2>1, <2>6, <2>7, <2>8 DEF cloud, database, rows, Latest
<1>3. TypeOK'
  <2>1. disk' \in [Names -> Texts] /\ spilled' \in BOOLEAN
    BY <1>1 DEF RemoveFiles, Shapes, Texts, TypeOK
  <2>2. QED
    BY <1>1, <1>2, <2>1, TypesKept DEF TypeOK
<1>4. RequestsSound' /\ PlansOnDisk' /\ GivenOut'
  BY <1>1, <1>2, SMTT(60) DEF IInv, RequestsSound, PlansOnDisk, GivenOut, At,
       Here, Others, Shapes, Keeps
<1>5. FilesApart'
  BY <1>1, <1>2, SMTT(60) DEF IInv, FilesApart, GivenOut, Erasing,
       RequestsSound, Pending, At, Here, Hers, AdminOps, Others, Shapes, Keeps
<1>6. ReportOnDisk'
  BY <1>1, <1>2, SMTT(60) DEF IInv, ReportOnDisk, FilesApart, Erasing,
       GoneForGood, RequestsSound, Pending, At, Here, Hers, AdminOps, Others,
       Shapes, Keeps
<1>7. NoStrayReports'
  BY <1>1, <1>2, SMTT(60) DEF IInv, NoStrayReports, RequestsSound, At, Here,
       Others, Shapes, Keeps
<1>8. Erasing'
  BY <1>1, <1>2, SMTT(60) DEF IInv, Erasing, OneAtATime, RequestsSound,
       ClearedQuiet, At, Here, Hers, AdminOps, Others, Shapes, Keeps
<1>9. ClearedQuiet' /\ GoneForGood'
  BY <1>1, <1>2, SMTT(60) DEF IInv, ClearedQuiet, Erasing, RequestsSound,
       GoneForGood, At, Here, Hers, AdminOps, Others, Shapes, Keeps
<1>10. OneAtATime' /\ UploadUnderWay'
  BY <1>1, <1>2, SMTT(60) DEF IInv, OneAtATime, RequestsSound, UploadUnderWay,
       GivenOut, Erasing, At, Here, Hers, AdminOps, Others, Shapes, Keeps
<1>11. EntryStands'
  BY <1>1, <1>2, SMTT(60) DEF IInv, EntryStands, UploadUnderWay, OneAtATime,
       RequestsSound, GivenOut, GoneForGood, Erasing, Ready, Searchable,
       OldFile, At, Here, Hers, AdminOps, Others, Shapes, Keeps
<1>12. AnalysisAbout' /\ ReportOfItsUpload'
  BY <1>1, <1>2, SMTT(60) DEF IInv, AnalysisAbout, EntryStands, OneAtATime,
       GivenOut, RequestsSound, ReportOfItsUpload, FilesApart, Ready,
       Searchable, OldFile, Pending, At, Here, Hers, AdminOps, Others, Shapes,
       Keeps
<1>13. QED
  BY <1>3, <1>4, <1>5, <1>6, <1>7, <1>8, <1>9, <1>10, <1>11, <1>12 DEF IInv

LEMMA LoseFileKeeps ==
    ASSUME IInv, LoseFile
    PROVE  IInv'
<1>1. TypeOK /\ RequestsSound /\ Shapes
  BY Shaped DEF IInv
<1>2. /\ \E p \in reports : files' = files \ {p.id} /\ lost' = {p.id} \cap files
      /\ lost = {}
      /\ req' = req /\ Latest' = Latest
      /\ UNCHANGED <<student, disk, stores, docs, uploads, reports, minted,
                     settled, overlapped, spilled>>
      /\ UNCHANGED arrived
  BY DEF LoseFile, cloud, database, rows, history, Latest
<1>3. TypeOK'
  <2>1. Typed /\ lost' \subseteq Reports /\ files' \subseteq Reports
    BY <1>1, <1>2 DEF TypeOK, Typed, Shapes
  <2>2. QED
    BY <1>1, <1>2, <2>1, TypesKept DEF TypeOK
<1>4. RequestsSound' /\ PlansOnDisk' /\ GivenOut'
  BY <1>1, <1>2, SMTT(60) DEF IInv, RequestsSound, PlansOnDisk, GivenOut, At,
       Here, Others, Shapes
<1>5. FilesApart'
  BY <1>1, <1>2, SMTT(60) DEF IInv, FilesApart, GivenOut, Erasing,
       RequestsSound, Pending, At, Here, Hers, AdminOps, Others, Shapes
<1>6. ReportOnDisk'
  BY <1>1, <1>2, SMTT(60) DEF IInv, ReportOnDisk, FilesApart, Erasing,
       GoneForGood, RequestsSound, Pending, At, Here, Hers, AdminOps, Others,
       Shapes
<1>7. NoStrayReports'
  BY <1>1, <1>2, SMTT(60) DEF IInv, NoStrayReports, RequestsSound, At, Here,
       Others, Shapes
<1>8. Erasing'
  BY <1>1, <1>2, SMTT(60) DEF IInv, Erasing, OneAtATime, RequestsSound,
       ClearedQuiet, At, Here, Hers, AdminOps, Others, Shapes
<1>9. ClearedQuiet' /\ GoneForGood'
  BY <1>1, <1>2, SMTT(60) DEF IInv, ClearedQuiet, Erasing, RequestsSound,
       GoneForGood, At, Here, Hers, AdminOps, Others, Shapes
<1>10. OneAtATime' /\ UploadUnderWay'
  BY <1>1, <1>2, SMTT(60) DEF IInv, OneAtATime, RequestsSound, UploadUnderWay,
       GivenOut, Erasing, At, Here, Hers, AdminOps, Others, Shapes
<1>11. EntryStands'
  BY <1>1, <1>2, SMTT(60) DEF IInv, EntryStands, UploadUnderWay, OneAtATime,
       RequestsSound, GivenOut, GoneForGood, Ready, Searchable, OldFile, At,
       Here, Hers, AdminOps, Others, Shapes
<1>12. AnalysisAbout' /\ ReportOfItsUpload'
  BY <1>1, <1>2, SMTT(60) DEF IInv, AnalysisAbout, EntryStands, OneAtATime,
       GivenOut, RequestsSound, ReportOfItsUpload, FilesApart, Ready,
       Searchable, OldFile, Pending, At, Here, Hers, AdminOps, Others, Shapes
<1>13. QED
  BY <1>3, <1>4, <1>5, <1>6, <1>7, <1>8, <1>9, <1>10, <1>11, <1>12 DEF IInv

LEMMA RestartKeeps ==
    ASSUME IInv, Restart
    PROVE  IInv'
<1>1. TypeOK /\ RequestsSound /\ Shapes
  BY Shaped DEF IInv
<1>2. /\ \A o \in Requests : req'[o] = Idle
      /\ Typed /\ Latest' = Latest
      /\ ~spilled' => /\ ~spilled
                      /\ \A o \in Requests : req[o].pc \notin {"insert", "winner", "unlink", "files"}
      /\ UNCHANGED <<student, disk, stores, docs, uploads, reports, files,
                     lost, minted, settled, overlapped>>
      /\ UNCHANGED arrived /\ spilled' \in BOOLEAN
  <2>1. Idle \in Request
    BY IdleType
  <2>2. QED
    BY <1>1, <2>1
       DEF Restart, Typed, TypeOK, disks, cloud, database, rows, history, Latest
<1>3. TypeOK'
  BY <1>1, <1>2, TypesKept DEF TypeOK
<1>4. RequestsSound' /\ PlansOnDisk' /\ GivenOut'
  BY <1>1, <1>2, SMTT(60) DEF IInv, RequestsSound, PlansOnDisk, GivenOut, At,
       Here, Idle, Others, Shapes
<1>5. FilesApart'
  BY <1>1, <1>2, SMTT(60) DEF IInv, FilesApart, GivenOut, Erasing,
       RequestsSound, Pending, At, Here, Hers, AdminOps, Idle, Others, Shapes
<1>6. ReportOnDisk'
  BY <1>1, <1>2, SMTT(60) DEF IInv, ReportOnDisk, FilesApart, Erasing,
       GoneForGood, RequestsSound, Pending, At, Here, Hers, AdminOps, Idle,
       Others, Shapes
<1>7. NoStrayReports'
  BY <1>1, <1>2, SMTT(60) DEF IInv, NoStrayReports, RequestsSound, At, Here,
       Idle, Others, Shapes
<1>8. Erasing'
  BY <1>1, <1>2, SMTT(60) DEF IInv, Erasing, OneAtATime, RequestsSound,
       ClearedQuiet, At, Here, Hers, AdminOps, Idle, Others, Shapes
<1>9. ClearedQuiet' /\ GoneForGood'
  BY <1>1, <1>2, SMTT(60) DEF IInv, ClearedQuiet, Erasing, RequestsSound,
       GoneForGood, At, Here, Hers, AdminOps, Idle, Others, Shapes
<1>10. OneAtATime' /\ UploadUnderWay'
  BY <1>1, <1>2, SMTT(60) DEF IInv, OneAtATime, RequestsSound, UploadUnderWay,
       GivenOut, Erasing, At, Here, Hers, AdminOps, Idle, Others, Shapes
<1>11. EntryStands'
  BY <1>1, <1>2, SMTT(60) DEF IInv, EntryStands, UploadUnderWay, OneAtATime,
       RequestsSound, GivenOut, GoneForGood, Ready, Searchable, OldFile, At,
       Here, Hers, AdminOps, Idle, Others, Shapes
<1>12. AnalysisAbout' /\ ReportOfItsUpload'
  BY <1>1, <1>2, SMTT(60) DEF IInv, AnalysisAbout, EntryStands, OneAtATime,
       GivenOut, RequestsSound, ReportOfItsUpload, FilesApart, Ready,
       Searchable, OldFile, Pending, At, Here, Hers, AdminOps, Idle, Others,
       Shapes
<1>13. QED
  BY <1>3, <1>4, <1>5, <1>6, <1>7, <1>8, <1>9, <1>10, <1>11, <1>12 DEF IInv

LEMMA DeleteRowsKeeps ==
    ASSUME IInv, NEW r \in Requests, DeleteRows(r)
    PROVE  IInv'
BY RowsGoneKeeps, RowsRefusedKeeps

-----------------------------------------------------------------------------
(* The invariant.                                                          *)

LEMMA InitKeeps ==
    ASSUME Init
    PROVE  IInv
<1>1. PICK old \in {Old, 0} : disk = [k \in Names |-> IF k = OldFile THEN old ELSE 0]
  BY DEF Init
<1>2. /\ student = "here" /\ stores = {} /\ docs = [s \in Stores |-> {}]
      /\ uploads = <<>> /\ reports = {} /\ files = {} /\ lost = {}
      /\ minted = [plan |-> 0, store |-> 0, report |-> 0]
      /\ arrived = 0 /\ req = [r \in Requests |-> Idle]
      /\ settled = "no" /\ overlapped = FALSE /\ spilled = FALSE
  BY DEF Init
<1>3. Latest = 0 /\ Synthetic = {}
  BY <1>2 DEF Latest, Synthetic
<1>4. /\ \A r \in Requests : req[r] = Idle
      /\ \A r \in Requests : /\ req[r].op = "none" /\ req[r].pc = "idle"
                             /\ req[r].report = 0 /\ req[r].file = 0
                             /\ req[r].seen = {} /\ req[r].names = {}
  BY <1>2 DEF Idle
<1>5. TypeOK
  <2>1. Cardinality(Synthetic) <= 1
    BY <1>3, FS_EmptySet
  <2>2. req \in [Requests -> Request]
    BY <1>2, IdleType
  <2>3. disk \in [Names -> Texts]
    BY <1>1 DEF Texts
  <2>4. minted \in [plan : 0 .. MaxPlans, store : 0 .. MaxStores, report : 0 .. MaxReports]
    BY <1>2, PlanBounds
  <2>5. arrived \in 0 .. MaxArrivals
    BY <1>2, PlanBounds
  <2>6. uploads \in Seq(Upload)
    BY <1>2
  <2>7. QED
    BY <1>2, <2>1, <2>2, <2>3, <2>4, <2>5, <2>6 DEF TypeOK, Students
<1>6. RequestsSound /\ PlansOnDisk /\ GivenOut
  <2>1. \A k \in Plans : k \in Names /\ k # OldFile
    BY DEF Plans, Names, OldFile
  <2>2. QED
    BY <1>1, <1>2, <1>3, <1>4, <2>1 DEF RequestsSound, PlansOnDisk, GivenOut, At
<1>7. FilesApart /\ ReportOnDisk /\ NoStrayReports
  BY <1>2, <1>4 DEF FilesApart, ReportOnDisk, NoStrayReports, Pending, At
<1>8. Erasing /\ ClearedQuiet /\ GoneForGood
  BY <1>2, <1>4 DEF Erasing, ClearedQuiet, GoneForGood
<1>9. OneAtATime /\ UploadUnderWay /\ EntryStands
  BY <1>2, <1>4 DEF OneAtATime, UploadUnderWay, EntryStands, Hers, At
<1>10. AnalysisAbout /\ ReportOfItsUpload
  BY <1>2, <1>4 DEF AnalysisAbout, ReportOfItsUpload
<1>11. QED
  BY <1>5, <1>6, <1>7, <1>8, <1>9, <1>10 DEF IInv

LEMMA StutterKeeps ==
    ASSUME IInv, UNCHANGED vars
    PROVE  IInv'
<1>1. /\ student' = student /\ disk' = disk /\ stores' = stores /\ docs' = docs
      /\ uploads' = uploads /\ reports' = reports /\ files' = files /\ lost' = lost
      /\ minted' = minted /\ arrived' = arrived /\ req' = req /\ settled' = settled
      /\ overlapped' = overlapped /\ spilled' = spilled
  BY DEF vars
<1>2. TypeOK' /\ RequestsSound' /\ PlansOnDisk' /\ GivenOut'
  BY <1>1 DEF IInv, TypeOK, RequestsSound, PlansOnDisk, GivenOut, At, Here, Latest,
              Synthetic
<1>3. FilesApart' /\ ReportOnDisk' /\ NoStrayReports'
  BY <1>1 DEF IInv, FilesApart, ReportOnDisk, NoStrayReports, Pending, At, Here
<1>4. Erasing' /\ ClearedQuiet' /\ GoneForGood'
  BY <1>1 DEF IInv, Erasing, ClearedQuiet, GoneForGood, Hers, Here
<1>5. OneAtATime' /\ UploadUnderWay' /\ EntryStands'
  BY <1>1 DEF IInv, OneAtATime, UploadUnderWay, EntryStands, Hers, At, Here, Latest,
              Ready, Searchable
<1>6. AnalysisAbout' /\ ReportOfItsUpload'
  BY <1>1 DEF IInv, AnalysisAbout, ReportOfItsUpload, Here
<1>7. QED
  BY <1>2, <1>3, <1>4, <1>5, <1>6 DEF IInv

LEMMA NextKeeps ==
    ASSUME IInv, [Next]_vars
    PROVE  IInv'
<1>1. ASSUME NEW r \in Requests, Replace(r)
      PROVE  IInv'
  BY <1>1, SendPlanKeeps, CleanupKeeps, LogoutKeeps, LookStoreKeeps,
     RemoveStoreKeeps, ForgetKeeps, ForgetFailsKeeps, FindStoreKeeps,
     CreateStoreKeeps, PutKeeps, AddRowKeeps, FailUploadKeeps DEF Replace
<1>2. ASSUME NEW r \in Requests, Analyse(r)
      PROVE  IInv'
  BY <1>2, AnalyzeKeeps, AnalyzeAgainKeeps, RetrieveKeeps, StopKeeps, WriteKeeps,
     WriteLegacyKeeps, TakeOverKeeps, InsertKeeps, FindWinnerKeeps, CutShortKeeps
     DEF Analyse
<1>3. ASSUME NEW r \in Requests, Delete(r)
      PROVE  IInv'
  BY <1>3, DeleteReportsKeeps, UnlinkReportKeeps, CheckPlanKeeps, UnlinkPlanKeeps
     DEF Delete
<1>4. ASSUME NEW r \in Requests, Erase(r)
      PROVE  IInv'
  BY <1>4, DeleteUserKeeps, DeleteRowsKeeps, RemoveFilesKeeps DEF Erase
<1>5. CASE UNCHANGED vars
  BY <1>5, StutterKeeps
<1>6. QED
  BY <1>1, <1>2, <1>3, <1>4, <1>5, LoseFileKeeps, RestartKeeps DEF Next

-----------------------------------------------------------------------------
(* The theorems.                                                           *)

(***************************************************************************)
(* The invariant holds in every state: of uploads, stores, analyses,       *)
(* deletions, lost files and restarts each step keeps it.                  *)
(***************************************************************************)
THEOREM InvariantHolds == Spec => []IInv
BY InitKeeps, NextKeeps, PTL DEF Spec

(***************************************************************************)
(* Rows, files, stores and requests have their types at all times; in      *)
(* particular an upload has one report and a plan from before the table    *)
(* one row, whatever analyses of it come together.                         *)
(***************************************************************************)
THEOREM TypesHold == Spec => []TypeOK
<1>1. IInv => TypeOK
  BY DEF IInv
<1>2. QED
  BY <1>1, InvariantHolds, PTL

(***************************************************************************)
(* The file of a stored report is on disk, no report file is left without  *)
(* a row unless saving or deleting was cut short, and a deleted student    *)
(* has no rows, whatever uploads, analyses, deletions, timeouts, lost      *)
(* files and restarts come together.                                       *)
(***************************************************************************)
THEOREM FilesHaveRows == Spec => []RowsMatchFiles
<1>1. IInv => RowsMatchFiles
  BY DEF IInv, RowsMatchFiles
<1>2. QED
  BY <1>1, InvariantHolds, PTL

(***************************************************************************)
(* The plan the dashboard offers is on disk and in the store, until the    *)
(* student replaces it or its report is deleted, if her requests do not    *)
(* meet.                                                                   *)
(***************************************************************************)
THEOREM UploadsStay == Spec => []EntryKept
<1>1. IInv => EntryKept
  BY DEF IInv, EntryStands, EntryKept
<1>2. QED
  BY <1>1, InvariantHolds, PTL

(***************************************************************************)
(* A report whose text is followed is about the plan of its upload.        *)
(***************************************************************************)
THEOREM ReportsAreAboutTheirPlan == Spec => []ReportOfItsUpload
<1>1. IInv => ReportOfItsUpload
  BY DEF IInv
<1>2. QED
  BY <1>1, InvariantHolds, PTL
=============================================================================
