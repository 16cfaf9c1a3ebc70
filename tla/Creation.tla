------------------------------ MODULE Creation ------------------------------
(***************************************************************************)
(* How a lesson is set up, by one teacher: the students offered            *)
(* (services/simulation/persona_pool.py), her own students (library.py),   *)
(* the draft of the phases (phase_split.py), and the creation of the       *)
(* session (session_service.create_session), with the routes of            *)
(* routers/simulation.  What follows is SimSession's.                      *)
(*                                                                         *)
(* The page of the setup keeps what it was shown.  Between that and the    *)
(* creation, and while Gemini adapts the students, plans are uploaded,     *)
(* own students added and deleted, and the limit changed.                  *)
(***************************************************************************)
EXTENDS Ordering, FiniteSetsExt, SequencesExt

CONSTANTS
    Calls,          \* requests that wait for Gemini at the same time
    Records,        \* numbers of the students in the dataset
    Levels,         \* their levels, a sequence
    LevelOf, GenderOf,  \* of the students in the dataset
    NamesOf,        \* the names for each gender, sequences
    Neutral,        \* the names for neither gender, a sequence
    Seeds,
    OrderOf,        \* the order a seed puts the levels in
    Draw,           \* the numbers a seed draws
    AbsoluteMax,    \* settings.SIM_MAX_PERSONAS
    Answers,        \* what Gemini may split a plan into
    Letters,        \* how long a name or a question of a phase may be
    MaxPhases, MaxMinutes,
    Profiles,       \* the own students she makes, in order: level and gender
    Filters,        \* the levels asked for: some, or "all"
    MaxPlans, MaxSessions  \* bounds: uploads and sessions

MinPersonas == 2          \* MIN_PERSONAS
DefaultMaxPersonas == 4   \* DEFAULT_MAX_PERSONAS
None == -1

Names == UNION {ToSet(NamesOf[g]) : g \in DOMAIN NamesOf} \cup ToSet(Neutral)
Profile == [level : ToSet(Levels), gender : DOMAIN NamesOf]

ASSUME PoolAssumption ==
    /\ Cardinality(Records) \in Nat /\ Records = 1 .. Cardinality(Records)
    /\ LevelOf \in [Records -> ToSet(Levels)]
    /\ GenderOf \in [Records -> DOMAIN NamesOf]
    /\ \A l \in ToSet(Levels) : Cardinality({x \in Records : LevelOf[x] = l}) >= AbsoluteMax
    /\ \A g \in DOMAIN NamesOf : /\ NamesOf[g] \in Seq(Names)
                                 /\ Cardinality(ToSet(NamesOf[g])) >= AbsoluteMax
ASSUME LimitAssumption == AbsoluteMax \in Nat /\ AbsoluteMax >= MinPersonas
ASSUME SeedsAssumption ==
    /\ Filters \subseteq ToSet(Levels) \cup {"all"}
    /\ \A seed \in Seeds : /\ OrderOf[seed] \in Seq(ToSet(Levels)) \ {<<>>}
                           /\ \A i \in 1 .. AbsoluteMax : Draw[seed][i] \in Nat
ASSUME ProfilesAssumption == Profiles \in Seq(Profile)
ASSUME WaitingAssumption == IsFiniteSet(Calls)
ASSUME PhasesAssumption ==
    /\ Letters \in Nat \ {0} /\ MaxPhases \in Nat /\ MaxPhases >= 3 /\ MaxMinutes \in Nat
    /\ Answers \subseteq [count : Nat, name : Nat, question : Nat, minutes : Int]

VARIABLES
    account,   \* the teacher's account exists
    plans,     \* uploads so far; the last is the plan in use
    own,       \* her own students, by id
    born,      \* the profiles of all own students there ever were
    setting,   \* the limit an administrator stored
    sessions,  \* the sessions created, in order
    page,      \* the page of the setup: students and phases, as shown
    pending    \* what each request is doing

setupVars == <<account, plans, own, born, setting, sessions, page, pending>>

-----------------------------------------------------------------------------
(* Students.                                                               *)

\* A student is known by a number: a record, or one of her own after those.
OwnNumber(k) == Cardinality(Records) + k
Level(who) == IF who \in Records THEN LevelOf[who] ELSE born[who - Cardinality(Records)].level
Gender(who) == IF who \in Records THEN GenderOf[who] ELSE born[who - Cardinality(Records)].gender

\* plain is false for another spelling of the same number, as in custom:01.
RecordRef(x) == [source |-> "dataset", id |-> x, plain |-> TRUE]
OwnRef(i) == [source |-> "custom", id |-> i, plain |-> TRUE]

\* What a stored limit comes to: one that cannot be used is the default.
EffectiveMax ==
    IF setting \in MinPersonas .. AbsoluteMax THEN setting
    ELSE IF DefaultMaxPersonas < AbsoluteMax THEN DefaultMaxPersonas ELSE AbsoluteMax

InOrder(numbers) == Ordered(numbers, [i \in numbers |-> i])

Drawn(list, number) == list[1 + (number % Len(list))]

Before(list, i) == {list[j] : j \in 1 .. i - 1}

\* n students of a level, or of all levels in turn, each drawn from those that
\* are left.  There is one such list.
Sample(level, n, seed) ==
    LET order == IF level = "all" THEN OrderOf[seed] ELSE <<level>>
        Left(picked, i) ==
            {x \in Records : LevelOf[x] = order[1 + ((i - 1) % Len(order))]}
                \ Before(picked, i)
    IN  {picked \in [1 .. n -> Records] : \A i \in 1 .. n :
            picked[i] = Drawn(InOrder(Left(picked, i)), Draw[seed][i])}

\* The names of a pool that are not used, in its order.
Unused(pool, used) == Sublist(pool, {k \in DOMAIN pool : pool[k] \notin used})

\* A name for each student of the dataset, none of them twice.
Pseudonyms(records, seed) ==
    {names \in [DOMAIN records -> Names] : \A i \in DOMAIN records :
        names[i] = Drawn(Unused(NamesOf[GenderOf[records[i]]], Before(names, i)),
                         Draw[seed][i])}

\* The classes that seeds give: students of the dataset, and their names.
Classes ==
    [level \in Filters |-> [n \in MinPersonas .. AbsoluteMax |-> [seed \in Seeds |->
        UNION {{[records |-> records, names |-> names] : names \in Pseudonyms(records, seed)} :
               records \in Sample(level, n, seed)}]]]

\* Mutant: the names given to her own students are not remembered.
OwnNamesForgetful(students, used) ==
    {names \in [DOMAIN students -> Names] : \A i \in DOMAIN students :
        LET pool == NamesOf[Gender(students[i].who)]
            free == Unused(pool, ToSet(used))
        IN  names[i] = IF free # <<>> THEN free[1] ELSE Drawn(pool, Len(used))}

\* Her own students get the first names left over, or repeat one.
OwnNames(students, used) ==
    {names \in [DOMAIN students -> Names] : \A i \in DOMAIN students :
        LET pool == NamesOf[Gender(students[i].who)]
            free == Unused(pool, ToSet(used) \cup Before(names, i))
        IN  names[i] = IF free # <<>> THEN free[1] ELSE Drawn(pool, Len(used) + i - 1)}

Candidate(ref, who, name) == [ref |-> ref, who |-> who, name |-> name]

\* The students offered: the sample, then all of her own whatever the filter.
Candidates(class, students, names) ==
    [i \in DOMAIN class.records |->
        Candidate(RecordRef(class.records[i]), class.records[i], class.names[i])]
    \o [i \in DOMAIN students |->
          Candidate(OwnRef(students[i].id), students[i].who, names[i])]

-----------------------------------------------------------------------------
(* Phases.  All phases of one list are alike, told apart by what creation  *)
(* looks at: how many there are, the lengths of the fields, the minutes.   *)

Phases(count, name, question, minutes) ==
    [count |-> count, name |-> name, question |-> question, minutes |-> minutes]

Fallback == Phases(3, 1, 0, None)

Least(a, b) == IF a < b THEN a ELSE b

\* What Gemini found, cut to what creation takes.
Fit(p) ==
    Phases(Least(p.count, MaxPhases), Least(p.name, Letters), Least(p.question, Letters),
           IF p.minutes \in 0 .. MaxMinutes THEN p.minutes ELSE None)

\* PhaseIn: not too long, and a name and a question; a draft may lack these.
Fits(p) ==
    /\ p.count \in 1 .. MaxPhases
    /\ p.name <= Letters /\ p.question <= Letters
    /\ p.minutes \in {None} \cup 0 .. MaxMinutes
Accepted(p) == Fits(p) /\ p.name > 0 /\ p.question > 0

\* The phases of the last session about a plan.
Inherited(plan) ==
    LET about == {i \in DOMAIN sessions : sessions[i].plan = plan}
    IN  {sessions[i].phases : i \in {j \in about : \A k \in about : k <= j}}

-----------------------------------------------------------------------------
(* The page.                                                               *)

NoPage == [cands |-> <<>>, gone |-> {}, phases |-> Phases(0, 0, 0, None)]
NotWaiting == [op |-> "none", plan |-> 0, seats |-> <<>>, phases |-> Phases(0, 0, 0, None),
         shown |-> <<>>, gone |-> {}, profile |-> <<>>]

At(r, op) == pending[r].op = op
InFlight(op) == {r \in Calls : At(r, op)}
Answer(r) == pending' = [pending EXCEPT ![r] = NotWaiting]

\* GET candidates: nothing is stored, all own students are listed.
LoadCandidates(level, seed) ==
    /\ account /\ plans > 0
    /\ LET students == Ordered(own, [o \in own |-> o.id])
       IN  \E class \in Classes[level][AbsoluteMax][seed] :
           \E names \in OwnNames(students, class.names) :
              page' = [page EXCEPT !.cands = Candidates(class, students, names), !.gone = {}]
    /\ UNCHANGED <<account, plans, own, born, setting, sessions, pending>>

\* GET draft: inherited phases at once, otherwise Gemini splits the plan.  A
\* plan without text is not sent.
Draft(r) ==
    /\ account /\ plans > 0 /\ At(r, "none")
    /\ \/ /\ Inherited(plans) # {}
          /\ \E p \in Inherited(plans) : page' = [page EXCEPT !.phases = p]
          /\ pending' = pending
       \/ /\ Inherited(plans) = {}
          /\ page' = [page EXCEPT !.phases = Fallback]
          /\ pending' = pending
       \/ /\ Inherited(plans) = {}
          /\ pending' = [pending EXCEPT ![r].op = "draft"]
          /\ page' = page
    /\ UNCHANGED <<account, plans, own, born, setting, sessions>>

\* Two phases or fewer, an answer that does not parse, or none: three rows.
Drafted(r) ==
    /\ At(r, "draft")
    /\ \/ \E p \in Answers : p.count > 2 /\ page' = [page EXCEPT !.phases = Fit(p)]
       \/ page' = [page EXCEPT !.phases = Fallback]
    /\ Answer(r)
    /\ UNCHANGED <<account, plans, own, born, setting, sessions>>

\* The teacher fills what the draft leaves empty.
Fill ==
    /\ page.phases.count > 0
    /\ page' = [page EXCEPT !.phases.name = 1, !.phases.question = 1]
    /\ UNCHANGED <<account, plans, own, born, setting, sessions, pending>>

-----------------------------------------------------------------------------
(* Her own students.                                                       *)

\* POST library: the student is adapted first, then stored.
AskOwn(r) ==
    LET made == Len(born) + Cardinality(InFlight("own"))
    IN  /\ account /\ At(r, "none") /\ made < Len(Profiles)
        /\ pending' = [pending EXCEPT ![r].op = "own", ![r].profile = Profiles[made + 1]]
    /\ UNCHANGED <<account, plans, own, born, setting, sessions, page>>

\* A table made by create_all gives the id of a deleted last row out again,
\* one made by the migration does not.
NextIds == {1 + Max({0} \cup {o.id : o \in own}), 1 + Len(born)}

StoreOwn(r) ==
    /\ At(r, "own") /\ account
    /\ born' = Append(born, pending[r].profile)
    /\ \E i \in NextIds : own' = own \cup {[id |-> i, who |-> OwnNumber(Len(born'))]}
    /\ Answer(r)
    /\ UNCHANGED <<account, plans, setting, sessions, page>>

\* DELETE library: lessons keep their copies; other pages still show it.
DeleteOwn(o) ==
    /\ o \in own
    /\ own' = own \ {o}
    /\ page' = [page EXCEPT !.gone = @ \cup {o.id}]
    /\ UNCHANGED <<account, plans, born, setting, sessions, pending>>

-----------------------------------------------------------------------------
(* Creation.                                                               *)

\* Mutant: two spellings of one number are two students.
AcceptableSpelled(picks) ==
    /\ Len(picks) \in MinPersonas .. EffectiveMax
    /\ \A i, j \in DOMAIN picks : picks[i].ref = picks[j].ref => i = j
    /\ \A i, j \in DOMAIN picks : picks[i].name = picks[j].name => i = j
    /\ \A i \in DOMAIN picks :
          /\ picks[i].name \in Names
          /\ picks[i].ref.source = "custom" => \E o \in own : o.id = picks[i].ref.id
          /\ picks[i].ref.source = "dataset" => picks[i].ref.id \in Records

\* What the request is checked for; one that is refused changes nothing.
Acceptable(picks) ==
    /\ Len(picks) \in MinPersonas .. AbsoluteMax
    /\ \A i, j \in DOMAIN picks : picks[i].ref = picks[j].ref => i = j
    /\ Len(picks) <= EffectiveMax
    /\ \A i, j \in DOMAIN picks : picks[i].name = picks[j].name => i = j
    /\ \A i \in DOMAIN picks :
          /\ picks[i].name \in Names
          /\ picks[i].ref.source = "custom" =>
                picks[i].ref.plain /\ \E o \in own : o.id = picks[i].ref.id
          /\ picks[i].ref.source = "dataset" => picks[i].ref.id \in Records

\* Mutant: in the order of the table.
SnapshotAsFound(ids) ==
    LET found == Ordered({o \in own : o.id \in ToSet(ids)}, [o \in own |-> o.id])
    IN  [k \in DOMAIN ids |-> found[k].who]

OwnWith(i) == CHOOSE o \in own : o.id = i

\* Her own students with these ids, in this order.
Snapshot(ids) == [k \in DOMAIN ids |-> OwnWith(ids[k]).who]

Customs(picks) == Sublist(picks, {i \in DOMAIN picks : picks[i].ref.source = "custom"})

\* The student of a pick, where copies are the customs' students.
WhoSits(pick, customs, copies) ==
    IF pick.ref.source = "dataset" THEN pick.ref.id
    ELSE copies[CHOOSE k \in DOMAIN customs : customs[k] = pick]

\* Each seat gets a copy of its student.
Seats(picks) ==
    LET customs == Customs(picks)
        copies == Snapshot([k \in DOMAIN customs |-> customs[k].ref.id])
        who == [i \in DOMAIN picks |-> WhoSits(picks[i], customs, copies)]
    IN  [i \in DOMAIN picks |-> [ref |-> picks[i].ref, who |-> who[i], name |-> picks[i].name,
                                 level |-> Level(who[i])]]

\* The plan, the limit and her own students are read now, in one step (the code
\* reads them one after the other), and those of the dataset are adapted.
MayBegin(r) ==
    /\ account /\ plans > 0 /\ At(r, "none")
    /\ Len(sessions) + Cardinality(InFlight("create")) < MaxSessions
    /\ Accepted(page.phases)

Begin(r, seats, shown, gone) ==
    /\ pending' = [pending EXCEPT ![r] =
           [op |-> "create", plan |-> plans, seats |-> seats, phases |-> page.phases,
            shown |-> shown, gone |-> gone, profile |-> <<>>]]
    /\ UNCHANGED <<account, plans, own, born, setting, sessions, page>>

\* The page sends the students that are ticked, in the order of the table.
Start(r, chosen) ==
    LET rows == InOrder(chosen)
        picks == [k \in DOMAIN rows |-> page.cands[rows[k]]]
    IN  MayBegin(r) /\ Acceptable(picks) /\ Begin(r, Seats(picks), picks, page.gone)

WhoIs(ref) == IF ref.source = "dataset" THEN ref.id ELSE OwnWith(ref.id).who

\* Any other client may send any picks, or ask for a random class.
StartOther(r, picks) ==
    /\ MayBegin(r) /\ Acceptable(picks)
    /\ Begin(r, Seats(picks),
             [i \in DOMAIN picks |->
                Candidate(picks[i].ref, WhoIs(picks[i].ref), picks[i].name)], {})

StartRandom(r, level, n, seed) ==
    /\ MayBegin(r) /\ n <= EffectiveMax
    /\ \E class \in Classes[level][n][seed] :
          Begin(r, [i \in DOMAIN class.records |->
                      [ref |-> RecordRef(class.records[i]), who |-> class.records[i],
                       name |-> class.names[i], level |-> LevelOf[class.records[i]]]], <<>>, {})

\* Gemini has adapted every student: session, phases and seats in one commit.
Store(r) ==
    /\ At(r, "create") /\ account
    /\ sessions' = Append(sessions,
           [plan |-> pending[r].plan, seats |-> pending[r].seats, phases |-> pending[r].phases,
            shown |-> pending[r].shown, gone |-> pending[r].gone])
    /\ Answer(r)
    /\ UNCHANGED <<account, plans, own, born, setting, page>>

\* Gemini failed for one of them, or the account is gone: nothing is stored.
Fail(r) ==
    /\ pending[r].op \in {"create", "own"}
    /\ Answer(r)
    /\ UNCHANGED <<account, plans, own, born, setting, sessions, page>>

-----------------------------------------------------------------------------
(* What others do.                                                         *)

UploadPlan ==
    /\ account /\ plans < MaxPlans
    /\ plans' = plans + 1
    /\ UNCHANGED <<account, own, born, setting, sessions, page, pending>>

SetLimit(n) ==
    /\ setting' = n
    /\ UNCHANGED <<account, plans, own, born, sessions, page, pending>>

\* With the account go its uploads, own students and sessions.
DeleteTeacher ==
    /\ account
    /\ account' = FALSE /\ plans' = 0 /\ own' = {} /\ sessions' = <<>>
    /\ UNCHANGED <<born, setting, page, pending>>

\* Picks of other clients, few but odd: unknown names, ids of students that
\* may be deleted, another spelling.
OddPicks ==
    LET refs == {RecordRef(1), OwnRef(1), OwnRef(2), [OwnRef(1) EXCEPT !.plain = FALSE]}
        names == {NamesOf[g][1] : g \in DOMAIN NamesOf} \cup {"nobody"}
        pick == {[ref |-> x, name |-> n] : x \in refs, n \in names}
    IN  {<<p, q>> : p \in pick, q \in pick}

SetupInit ==
    /\ account = TRUE
    /\ plans = 0 /\ own = {} /\ born = <<>> /\ sessions = <<>>
    /\ setting = AbsoluteMax + 1   \* from before the maximum was lowered
    /\ page = NoPage
    /\ pending = [r \in Calls |-> NotWaiting]

\* A teacher ticks as many students as are allowed.
Ticked == UNION {kSubset(n, DOMAIN page.cands) :
                      n \in {k \in MinPersonas .. EffectiveMax : k <= Len(page.cands)}}

SetupNext ==
    \/ \E level \in Filters, seed \in Seeds : LoadCandidates(level, seed)
    \/ \E r \in Calls : Draft(r) \/ Drafted(r)
    \/ Fill
    \/ \E r \in Calls : AskOwn(r) \/ StoreOwn(r)
    \/ \E o \in own : DeleteOwn(o)
    \/ \E r \in Calls, chosen \in Ticked : Start(r, chosen)
    \/ \E r \in Calls, picks \in OddPicks : StartOther(r, picks)
    \/ \E r \in Calls, level \in Filters, n \in MinPersonas .. AbsoluteMax, seed \in Seeds :
           StartRandom(r, level, n, seed)
    \/ \E r \in Calls : Store(r) \/ Fail(r)
    \/ UploadPlan
    \/ \E n \in MinPersonas .. AbsoluteMax : SetLimit(n)
    \/ DeleteTeacher

SetupSpec == SetupInit /\ [][SetupNext]_setupVars

-----------------------------------------------------------------------------
(* Properties.                                                             *)

Sound(s) ==
    /\ Len(s.seats) \in MinPersonas .. AbsoluteMax
    /\ \A i, j \in DOMAIN s.seats : i # j =>
          s.seats[i].who # s.seats[j].who /\ s.seats[i].name # s.seats[j].name
    /\ \A i \in DOMAIN s.seats :
          s.seats[i].name \in Names /\ s.seats[i].level = Level(s.seats[i].who)
    /\ Accepted(s.phases)

\* Whatever client asked, and whatever changed while Gemini adapted: a session
\* belongs to an account and a plan that exist, has a class of a legal size in
\* which nobody sits twice and no name is used twice, each with the level of
\* the student it is a copy of, and phases that can be taught.
SessionsSound ==
    \A k \in DOMAIN sessions :
        account /\ sessions[k].plan \in 1 .. plans /\ Sound(sessions[k])

AsShown(s) == s.shown # <<>> =>
    /\ Len(s.seats) = Len(s.shown)
    /\ \A i \in DOMAIN s.seats :
          /\ s.seats[i].name = s.shown[i].name
          /\ \/ s.seats[i].who = s.shown[i].who
             \/ s.shown[i].ref.source = "custom" /\ s.shown[i].ref.id \in s.gone

\* The class is the one asked for, on the page the teacher saw or by another
\* client: the same students in the same order under the same names, unless
\* she deleted one of her own after the page had been loaded, whose id another
\* may have by now.
SeatsAsShown == \A k \in DOMAIN sessions : AsShown(sessions[k])

NamesSpent(cands) == \A i, j \in DOMAIN cands : i < j /\ cands[i].name = cands[j].name =>
    ToSet(NamesOf[Gender(cands[j].who)]) \subseteq {cands[k].name : k \in 1 .. j - 1}

\* What the page offers can be started with: two students share a name only
\* when all names of the gender are taken, and no draft is too long or too
\* big for creation, so that only empty fields are left to fill.
OffersStartable ==
    NamesSpent(page.cands) /\ (page.phases.count > 0 => Fits(page.phases))
=============================================================================
