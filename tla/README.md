# A formal model of the lesson-design feedback system

TLA+ modules, TLC configurations and TLAPS proofs for the FastAPI application
under `src/app`. Student teachers upload lesson plans, have them analysed by
Google Gemini, ask questions about them, and teach a simulated class of
personas. Administrators maintain the evaluation criteria, which live in Gemini
File Search and are cached in SQLite.

Contents: 1 inventory, 2 plan, 3 how the modules correspond to the code, 4 what
is checked, 5 what is proved, 6 where the code and its documents differ, 7 what
is not modelled.

## 1. Inventory

### What all components share

- One server process, one asyncio loop. A handler runs undisturbed between two
  `await`s. Blocking calls of Gemini run in a thread (`asyncio.to_thread`), and
  other requests go on meanwhile.
- SQLite in WAL mode, one `AsyncSession` per request (`db.py`). The driver
  begins a transaction at the first statement that writes: reads see what was
  last committed, only one transaction writes at a time, and the others wait for
  `busy_timeout`. `get_db` commits after the response has been sent, so some
  handlers commit earlier on purpose.
- Gemini File Search is outside every transaction. An upload is an operation
  that is polled, and may take effect after its caller has given up.
- Files (plans, reports) are outside every transaction, too.

### Components

| Component | State | Operations | Hard behaviour | What makes it correct |
|---|---|---|---|---|
| Simulation session (`services/simulation/session_service.py`, `agreement.py`, `routers/simulation/core.py`) | `simulation_sessions` (status, current phase), `simulation_utterances` | create, enter, say, regenerate, agree, skip, finish; deletion with the user | checks made before the wait for Gemini are stale after it; only `_lock_running` serialises the writers | turn limit, one opening per phase, nothing written in a phase that was left, one end, agreement backed by reactions, order of rows |
| Feedback and guidelines (`feedback.py`, `guidelines.py`) | `feedback_json` and its report path in the session row, report files, guideline versions | generate, save a guideline, user deletion | each of several generating requests writes a file before the UPDATE decides | feedback is written once, everybody sees the same, its file exists, no file is left behind |
| Criteria (`routers/admin/criteria.py`, `criteria_*_service.py`, `criteria_repository.py`, `app_state_repository.py`) | documents and versioned alias maps in File Search, cached rows, sync state | upload, delete, replace, rename, activate, deactivate, reconcile, search | three places to change without a transaction, one lock, late uploads, a second instance | reconcile skips only when it may, acknowledged changes stay, the newest alias map is never lost |
| QnA (`routers/qna.py`, `services/qna_service.py`) | `chat_sessions`, `chat_messages` | ask, open, take back a failed question, deletion by an administrator | rows and ownership are checked before Gemini and written after it, row ids are reused | whole exchanges, no orphan rows, nothing filed with a stranger |
| Lesson plans (`routers/views.py`, logout in `routers/auth.py`, `file_search_service.py`) | PDF files, `lessonplan_uploads`, the student's File Search store | upload, cleanup, logout | the old store is deleted before the new document exists; the logout deletes in the background | an acknowledged upload stays usable; no row offers a deleted document |
| Analysis (`lessonplan_analysis_service.py`, `report_storage_service.py`) | `analysis_reports`, report files | analyse, analyse again when the file is gone, deletion of reports or of the student | 180 s between the check for a report and the insert; file first, row later | one report per upload, its file on disk, no stray files, about the right plan |
| Deletion by administrators (`admin_deletion_service.py`) | all of the above | delete user, conversation, report | rows first, files later, other requests in flight | as above |
| Accounts and sessions (`auth_service.py`, `routers/auth.py`, `routers/admin/account.py`, `auth_middleware.py`) | `users` with `session_version`, password hash and failed-login counter; signed cookies | register, log in, log out, reset and change a password, delete | conditional updates race each other, cookies cannot be taken back, row ids are reused | a version stands for one password of an account, a logout or a new password shuts out every cookie of the account, no two accounts of one name, every failure counts; a deleted account's cookies make nobody an administrator (they may open the account that gets its id: section 6) |
| Setting up a lesson (`persona_pool.py`, `library.py`, `adaptation.py`, `phase_split.py`, `create_session`) | the teacher's own students, the limit of students, sessions; what the page was shown | candidates, own students, draft, creation | the page and the wait for Gemini are older than the rows they refer to | the class created is the class shown, legal sizes and names, drafts that can be started with |
| Start and migrations (`main.py`, `db.py`, `migrations/`) | the schema, rows in an old form | 17 scripts at every start | SQLite commits each change of the schema at once; the process can be killed between any two | no row is lost, what is served has today's schema, a start always gets through |
| Export (`admin_export_service.py`, `routers/admin/exports.py`) | the plan of the archive, the archive | collect, send | five queries and a directory listing, each of its own moment; files read later | every upload once, a truthful manifest |
| Prompts, stored evaluations, admin pages, templates, scripts | files and rows of their own | read mostly; whole-file writes without a wait | none that needs a model | see section 7 |

How they interact: a simulation and a QnA conversation name a row of
`lessonplan_uploads`; analysis and QnA search the student's store and the
criteria's store with a filter built from the alias map; deleting a user runs
through the rows of all of them and then through the files; requests that find
the criteria unreadable mark them for a resync.

## 2. Plan

In the order in which the modules were and will be written, most important
behaviour first:

1. `SimSession`: the requests on one session. *Done, with proofs.*
2. `Lesson` (abstract) and `SimSessionLesson`: the session implements a lesson
   that is given step by step. *Done, with the proof.*
3. `SimFeedback`: feedback, report files, guidelines. *Done, with proofs.*
4. `CriteriaSync`: cloud, cache, lock, faults. *Done, with proofs of all but
   liveness.*
5. `QnAChat`: conversations and the mark for a resync. *Done, with proofs.*
6. `LessonPlans`: uploads, stores, analysis reports. *Done, with proofs.*
7. `AuthSessions`, with the abstract `SignedIn` that it implements, strangers
   included. *Done, with proofs of the invariants and of the refinement.*
8. `Startup`: the migrations under crashes. *Done with TLC.*
9. `Export`: the archive while others change rows and files. *Done, with proofs.*
10. `Creation`: setting up a lesson. *Done, with proofs.*
11. In `LessonPlans`, the deletion of the student while an analysis or upload of
    hers is in flight. *Done, with proofs.*
12. The citation windows of the analysis as a pure algorithm against a reference
    definition. *Planned.*

Section 5 says which theorems there are, and why the rest of what the runs check
stays with TLC.

Modules meant to be proved about take their parameters as CONSTANTS with named
assumptions, have one action per step of a handler, state invariants as
conjunctions of named parts, and use no RECURSIVE operator.

## 3. The modules and the code

A request is a process with a program counter. A step runs from one `await` on
something shared (Gemini, the database lock, the disk between two transactions)
to the next, with everything the handler does in between; what a handler keeps
in local variables over an `await` is a field of its request record, so that
stale reads are as stale in the model as in the program.

`SimSession`. `status`, `phase` and `utterances` are the session row and its rows;
`utterances[i]` is the row with `seq = i`. `req[r]` is what a request has read.
Each operation is `Load` (checks before Gemini: owner, status, phase, turn limit),
`Ask` or `Drop` (Gemini answered, or failed), and a write under `_lock_running`:
`EnterWrite`, `SayWrite`, `RegenerateWrite`, `AdvanceWrite` / `AdvanceEnds` (agree
and skip), `FinishWrite`; `LockLost` is the conditional UPDATE that matches no row.
`DeleteUser` removes session and rows at any moment. Texts are left out; of a
reaction the model keeps `understanding` and whether `content` is raw. `Held`,
`Bounded` and `Stored` are the corrections that `student_utterance` applies (held
level of an echo or an off-task utterance, bounded rise, first reaction capped
below the threshold). `Agreed` is `compute_agreement`, without the rule for rows
from before there were levels (`agreement.py:20`), which no new session has. What
stands after the promises exists for the proof only. Every writer takes the lock
before it asks for `next_seq`, so two rows never get one `seq` and the
`IntegrityError` branches for it are not reached; they are left out. The initial
state is what `create_session` commits.

`Lesson` and `SimSessionLesson`. `Lesson` has no requests, rows or locks: open,
teach, correct a reaction, leave a phase by agreement or by decision, stop. The
mapping computes its variables from the rows.

`SimFeedback`. `stored` is the feedback with its file and guideline version,
`disk` the report files, `rows` the guidelines. `generate` is `Load`,
`ReadGuideline`, `SaveReport`, `Publish` or `Lose` (the UPDATE on
`feedback_json IS NULL`), `Unlink`; `guidelines.save` is `Number`, `Insert` or
`Conflict`; the deletion of the user is `CollectPaths`, `DeleteRows`,
`RemoveFiles`. `Break`, `GiveUp` and `BreakDeletion` are the failures.

`CriteriaSync`. `docs` and `maps` are the store, `lateDocs` and `lateMaps` the
uploads that timed out and may appear later; `cache`, `sync`, `stamp` the
database; `tx` a reconcile that was flushed by a request and is committed only
when that request's session closes; `lock` is `alias_map_mutation_lock`. A
request follows the list of steps its operation has in `Plan`, and each call may
end as `Outcomes` says: done, failed, done but reported as failed, or late.
`Foreign` is a second instance of the program on the same Gemini project, with a
change that is whole (section 7).

`QnAChat`. `sessions` and `messages` with plain SQLite row ids (`NextId`: the
largest id plus one, so that the id of a deleted last row is given out again);
`now` is the second of `CURRENT_TIMESTAMP`. A question reads, asks whether the
criteria can be used, retrieves, asks Gemini, and stores in one commit; the failed
first question of a new conversation deletes it again. The compensation re-reads
by id (`routers/qna.py:537`). `sync` is the state of the criteria. A question that
could not look them up flushes a mark for a resync (`Mark`) and keeps the write
lock of SQLite while Gemini answers: `req[r].pending` is "mark" then, every write
of another request has to wait or to fail (`Writable`), and the mark is committed
with the answer or not at all. When the flush itself fails (`MarkRefused`), the
transaction takes nothing but a rollback (`Usable`). `Repair` is a reconcile of
another request that writes `ok`. How many exchanges a question sees is `History`,
as the query computes it. Citations, prompts and the choice of the evaluation's
passes are left out.

`LessonPlans`. `disk` and `files` are the PDF and report files, `stores` and `docs`
the File Search stores of the student's display name, `uploads` and `reports` the
tables. The steps of an upload are `SendPlan` (the file, and every check that
rejects it), `LookStore`/`RemoveStore`, `Forget`, `FindStore`/`CreateStore`, `Put`,
`AddRow`, with `FailUpload` at each of them; cleanup and logout share them. An
analysis is `Analyze` or `AnalyzeAgain`, the store, `Retrieve` (first pass of
Gemini), `Write` (report file), `Insert` (unique index on `upload_id`),
`FindWinner`; `WriteLegacy` and `TakeOver` are the plans from before the uploads
table. An administrator deletes reports (`DeleteReports`, one or several, rows
before files) or the student: `DeleteUser` reads what there is, `DeleteRows` is the
transaction, which a report stored meanwhile makes fail as a whole, then
`RemoveFiles` and the store. Facts that the model showed and that its properties
respect:

- Two analyses, or an analysis and an upload, can both find no store and create
  two of one name; an upload removes only one of them. So a document of an
  earlier plan may survive, and `EntryKept` and `ReportOfItsUpload` are stated
  for a student whose requests do not meet (`overlapped`).
- Two uploads of one file name in one second share a PDF file (`SameSecond`),
  and the one that fails removes the other's.
- An upload and a cleanup delete the store before they forget its ids. A crash
  in between leaves a row that looks ready without a document.
- An analysis does not look at the ids at all: after a cleanup or a failed
  upload it searches an empty store, or the plan that could not be removed. The
  text of a report is therefore followed only for analyses that began on an
  upload that succeeded and whose removal of the old store did (`settled`,
  `sure`).
- A report file stays behind after a timeout, a database error or a restart
  between file and row, or when the first report or the student was deleted in
  the gap (`spilled`).
- When a request of a deleted student was on its way, her store can be made again
  after it was removed, and keeps the plan of the upload that could not be stored.
  No row is left in any case; files and store are promised to be gone only when
  nothing of hers was on its way and nothing failed (`"cleared"`).

`AuthSessions`. `users` is the table by row id, `cookies` every cookie ever
issued: a browser may keep copies, so none is ever forgotten. `account` (in rows
and cookies) names an account for good, which the code does not do: in a
table of users that `create_all` made ids are reused after a deletion, with version
0. The table that `drop_users_email_column` rebuilds is AUTOINCREMENT; `IdsReturn`
says which of the two it is. `Row.lower` is FALSE for a name stored before ids were
normalised. Operations: `RegisterCheck`/`RegisterInsert`/`RegisterEnter`,
`LoginUser`, `LoginAdmin` with `TouchLocked`, `RecordFailedLogin` and
`ResetLoginCounter`/`EnterAdmin`, `Logout` (conditional UPDATE),
`AdminAsks`/`AdminLoads` with `ResetPassword` and `DeleteUser`,
`ChangeAsks`/`ChangeOwn` (conditional UPDATE on version and hash), `Restart`,
which also seeds the administrator. `OperatorLocks` and `LockPasses` are outside
the program. Facts that the model respects: only administrators change their own
password and only others are reset; a login of an administrator whose reset of
the counter overlaps a change of the password gets a cookie with the version read
after it.

`SignedIn` and `AuthSignedIn`. `SignedIn` has no cookies and versions: it keeps for
each account its password, the browsers inside, and those that ever signed in. The
mapping takes as inside *every* browser with a cookie that the account's row
accepts, whosever the cookie was. With ids that come back these are more than a
table of sessions would let in, and `SignedIn` says which: when an account is
opened, signed out, or gets another password from an administrator, nobody is
inside but *strangers*, browsers that had signed in to an older account which is
closed by now. Such a stranger can do what anybody inside can, signing the others
out included, and stays until a version shuts its cookie out; one that has cookies
with several versions may be let in again by a later one. An administrator's own
change of the password leaves her browser only, and a closed account nobody. As long as no
account is closed there are no strangers, and the promise is that of a table of
sessions. Another effect of returning ids is in `RegisterEnter`: its cookie is made
from the row found by id after the commit, which may be that of the next owner of
the id, so that a browser can be entered into an account that it did not register;
`SignIn` asks nothing of who signs in.

`Startup`. `disk` is what a process that starts would find, `conn` what its
statements see, `todo` the statements left of the script that runs. `Scripts`
gives each migration of `main.py`, in order, as the statements that the code
builds from what it reads of the schema; `Run` executes one, and whether it
commits at once or with its transaction follows the driver (a transaction begins
before a statement that changes rows; only the rebuild of `users` begins one
itself). `Crash` drops what is not committed and starts again. A statement that
fails lets the start get no further; what the settings may leave out (the seeded
administrator, the dropping of the invite codes) may or may not happen.

`Export`. The steps of `collect` are the queries in their order, then `LeftUploads`
(the directory), then `Emit` per file while the archive is sent, with the manifest
last. `Others` are the changes of teachers and administrators that the export can
see, by their effect on rows and files. Queries return rows in the order of their
ids, which `Ordering` defines by rank, for every finite set of rows, and not by a
sort; `Sublist` is the selection of positions from a list. The path of an entry is
its kind, user and number: the original file name that ends it can be the same
everywhere. `since` are the uploads that were there all the time.

`Creation`. `page` is what the setup page was shown: candidates, and own students
deleted since. `LoadCandidates` samples and names (`Sample`, `Pseudonyms`,
`OwnNames`), `Draft`/`Drafted` fills the phases, `AskOwn`/`StoreOwn`/`DeleteOwn`
are the library, `Start` sends what is ticked, `StartOther` is any other client,
`StartRandom` the random class, and `Store` the commit after Gemini has adapted the
students. Phases are a number, two lengths and minutes. What a session is created
as is `SimSession`'s initial state. `Sample`, `Pseudonyms` and `OwnNames` are sets of
the lists that satisfy, place by place, what the loop in the code does there: which
is one list, and the proofs need no induction to say what it holds. `Classes` tables
the results for TLC.

External parts, modelled from how `src/` uses them: File Search (calls that
fail, take effect unseen, or appear late; deletion of a store with its
documents), SQLite's locking and row ids, process restarts, loss of a file. The
method `list_documents`, which `_user_file_search_store_has_documents` calls,
counts as unavailable, as the note in `file_search_service.py` on `documents.list()`
says of the SDK; the function then answers no.

## 4. What is checked

Every property has a mutant: a plausible mistake in one definition (dropped
guard, wrong order, missing reset) under which TLC finds it violated. The mutated
definitions stand before the real ones in the modules and are marked `Mutant`.

| Run | Instance | Shows |
|---|---|---|
| `sim_race` | 2 requests, 2 personas, 1 phase, 2 turns, 3 levels | agreement and rewrites; nobody agrees untaught and questions stay next to their reactions; what the docstrings say of raw text, rise and lasting agreement |
| `sim_lesson` | 2 requests, 1 persona, 2 phases, 1 turn, fairness | types; phases opened once, within their turns, closed for good; the past; refinement of `Lesson`; skipping ends the lesson |
| `fb_race` | 3 requests, 3 feedbacks, 2 guideline versions, failures | feedback is written once, seen by all, has its file and its guideline; no orphans |
| `crit_race` | 2 requests, 1 criterion and 1 legacy one, 6 operations, 1 fault of 5 kinds | cached rows, acknowledged changes, the alias map |
| `crit_live` | 2 requests, 1 criterion, fairness, 1 fault | the lock comes back; a marked table is repaired |
| `qna_race` | 2 requests, 2 users, 2 conversations, 3 questions, 2 seconds | whole exchanges, nothing stranded, the mark and the answer in one commit |
| `plan_race` | 2 in flight of 4 requests, 3 plans, 2 stores, 2 reports | files, rows and store keep together, and go with the student |
| `auth_race` | 2 requests, 1 browser, 3 accounts, 2 passwords, 2 versions, 2 failures, ids that come back | one account per name, a version stands for one password, the counter, nobody inherits an administrator's row; refinement of `SignedIn`, strangers included |
| `start_crash` | an empty database and ones of earlier releases, 1 account, 1 conversation, 2 kills, fairness | nothing is lost, what is served is whole but for the indexes that nothing repairs, a start gets through |
| `export_race` | 1 teacher, 2 plans, 2 uploads, 2 reports (1 to begin with), 2 changes | every upload once, a truthful manifest |
| `creation` | 2 requests, 6 students and 2 own ones, limits of 2 and 3 | sessions are sound, the class is the one shown, what is offered can be started |
| `qna_filed` | as small as the counterexample needs | section 6 |

Bounds. The races of this code are between two requests that read, wait and
write, so two requests show each pair in every order; feedback has three because
a loser, a winner and a guideline change meet. Two phases have a first, a last and
a change between them; with a turn limit of one a request can be at and over it,
and a second turn is what a lasting agreement needs. In `sim_race` levels go from 0
to 2 with a threshold and a rise of 1, so that a rise can be too high;
`SimSessionAlone` adds a history variable `overlapped`, because what the docstrings
say of single reactions is promised to a teacher whose requests do not meet only
(section 6). The constraint `TwoLevels` cuts states in which requests have met and
a third level, or the raw text of a row that parsed, is stored: no guard looks at
either, so each of these states has a twin that is kept. `sim_race` and
`sim_lesson` share the personas and the phases between them: both at two are more
than TLC can do in minutes. One fault
per behaviour in `crit_race` combines with every interleaving of two operations;
the operation lists of the two criteria runs differ because `activate` and
`rename` take the steps of `deactivate` and would only add states to the larger
one. In `auth_race` one browser is enough for the invariants, because a cookie is
compared with its row and never with another cookie, and its two accounts are the
administrator's and one other, or two of one name. An id comes back only to a third
account, after an administrator has deleted the second. The constraint `OneAtATime`
looks no further where the third account exists and a login has failed or a lock is
on: counter and lock are looked at with up to two accounts, ids that come back
without them. The one browser can be its own stranger, with the cookie it had of the
deleted account. In
`start_crash` a second kill can hit what the repair of the first does; `Init` has
the empty database and, for each script, one in which the scripts up to it have
run, in the order in which a start runs them. In `creation` one
plan, one filter and one seed are enough: samples, names and ids still collide.
Bounds are constants with `Max` in their names (and `Reserve` in `CriteriaSync`,
which keeps room in the clock for a repair) and stand in guards.

`CHECK_DEADLOCK FALSE` is in every configuration because every instance may really
stop: a finished or deleted lesson accepts nothing more, a server that serves has
no start left to do, and the other models end when their bounds are used up.

Symmetry is used on requests, in `qna_race` on users and in `auth_race` on
browsers; never with liveness. The refinement of `SignedIn` is a
step property without liveness, its mapping does not mention requests, and a
permutation of the browsers takes its steps to its steps.

Fairness. `SimSession!FairSpec`: a request that is being served goes on (calls of
Gemini have time limits, `busy_timeout` bounds the wait for the database), and a
teacher who keeps pressing skip is, again and again, able to and in the end not
dropped; nothing is assumed of the other operations. `CriteriaSync!FairSpec`: weak
fairness of each request's steps for the same reasons, strong fairness of taking
the lock because `asyncio.Lock` serves waiters in turn, and strong fairness of
visits because pages that list criteria keep being opened and each one older than
the TTL triggers a reconcile. `Startup!Spec`: the process goes on by itself
whenever it runs; kills are bounded by `MaxCrashes`, and nothing else is assumed.

Only model-checked: liveness (`SkippingEndsLesson`, `LockHandedBack`, `Repaired`,
`BootFinishes`) and everything about the start. Everything else that the runs check
is also proved (section 5).

## 5. What is proved

Eight components have proofs, for every value of their constants: any number of
requests, and bounds as large as one likes. Each proof is about the module TLC
checks; the strengthened invariant, `IInv` (for `AuthSignedIn` also `KInv`), stands
at the end of the module it is about or before its proof, and TLC checked it on the
instance of the component's run before it was proved.

**`SimSessionProofs`**, from `SeatsAssumption`, `PhasesAssumption`,
`TurnsAssumption` and `ScaleAssumption` (at least one seat and phase, the
threshold above zero and within the scale):

| Theorem | Statement |
|---|---|
| `Inductive` | `Spec => []IInv` |
| `TypeCorrect`, `LessonsInOrder`, `PastStays` | `TypeOK`, `LessonInOrder`, `PastKept` of `sim_lesson` |
| `RewritesAreSafe`, `ReactionsAreEarned` | `RewritesSafe`, `ReactionsEarned` of `sim_race` |
| `SessionsAreLessons` | `Spec => ImplementsLesson`, the refinement of `sim_lesson` |
| `ReactionsAsDocumented`, `AgreementLasts` | `StoredAsDocumented`, `AgreementStays` of `sim_race` |
| `TurnsBounded`, `PhasesOpenedOnce`, `PhasesClosedForGood`, `EndRecorded`, `TransitionsBacked`, `HistoryKept`, `FinishedStays` | their parts, one by one |

Why the invariant is stronger than the promises. `LeftPhasesClosed` says how
phases that were left look, and does not exclude a row of a phase that is still
to come, or a transition row in a phase the session has not left: the next
append would break it. `RowsBelow` excludes both. `OpenedOnceBeforeUse` needs to
know, when `SayWrite` appends, that the phase was entered: `say` checked it
before Gemini, and `SayTarget` keeps it true until the write because rows only go
with the session. `RewriteTarget` does the same for the row a waiting
`regenerate` holds. `AgreementBacksTransition` survives a rewrite because rewrites
need a running session in the phase they loaded (`Locked`), and `RowsBelow` says
that phase has no transition yet.

`ReactionsEarned` says that an agreed transition was taught for, and the reason is
numeric: a first reaction is capped below the threshold. So the invariant follows
single reactions: one at the threshold has an utterance of the teacher to its
persona above it (`AgreementTaught`), and so has every second reaction of a persona
in a phase (`SecondTaught`). A `regenerate` writes over a row after a wait, and
treats it as a first reaction only if it was one when it was read; `FirstIsFirst`
says that otherwise there still is one above it.

The refinement. The variables of `Lesson` are computed from the rows
(`SimSessionLesson`). One lemma per write step says which step of the lesson it is
(`EnterOpens`, `SayTeaches`, `RewriteCorrects`, `AdvanceMovesOn`,
`LastPhaseCompletes`, `FinishStops`, `DeleteDeletes`), after lemmas about what is
read from rows before and after an append; every other step leaves the rows alone
and so stutters.

What the docstrings say of single reactions (`SimSessionAlone`) is proved for
requests that do not meet, with an invariant of its own, `AInv`: a request writes
with levels and a row that it read before Gemini answered, and `ReadIsCurrent` says
that these are still the last ones when it writes. It holds because whoever else
could change the rows would have to be at work at the same time (`NobodyElse`).
Then a commit appends one reaction of each persona at most, bounded by the level
before it, and a rewrite hits the last row of its persona, which did not parse
(`Documented`, `DocumentedRewrite`), so that it is nobody's previous level and takes
nobody out of an agreement.

How the proof is laid out. Lemmas about the operators (largest position, rows
appended, rows of students, stored levels) come first, then what each write step
looks like as an append of rows or a rewrite of one (`EnterStep`, `SayStep` and
their companions), then one lemma per part of `IInv` over these shapes, and
`Inductive` combines them. The conjuncts of `IInv` that `sim_race` does not list
are consequences of the proof; TLC checked `IInv` as a whole while it was found.

**`SimSetupFeedbackProofs`** is about what lies around a lesson: `SimFeedback` and
then `Creation`. For the feedback, from `CallsAssumption` and `FailuresAssumption`,
whether or not steps fail:

| Theorem | Statement |
|---|---|
| `Inductive` | `Spec => []IInv` |
| `TypeCorrect`, `FilesAndRows`, `AnswersAreOne`, `GuidelinesTraceable` | `TypeOK`, `FilesMatchRows`, `AnswersAgree`, `GuidelineTraceable` of `fb_race` |

The promises speak of what is stored; the steps that could break them start from
what a request holds. A loser removes the file it holds: `HeldWithFile` says that
this is never the stored one, and stays true because `HeldApart` keeps the files of
two requests apart when one of them is published. A request publishes what it
holds: its file must be there as long as the user is (`HeldWithFile` again), and
the version with it that of a row switched on (`VersionsRecorded`).
`AnswersStored` adds that whoever has lost has lost to feedback that is stored, so
that the answer read after the removal is feedback. Two administrators who save
together hold the same number; `Numbered` says that it is at most one more than
there are rows, so that the unique index, which refuses a number that is taken,
leaves no gap either.

For the setup, from the assumptions of `Creation`: every level has as many students,
and every gender as many names, as the largest class (the dataset and `SIM_MAX_PERSONAS`
see to that, as the note at `assign_pseudonyms` says), the limit is at least
`MIN_PERSONAS`, draws are numbers, phases have at least the three rows of the
fallback, and finitely many requests wait.

| Theorem | Statement |
|---|---|
| `SetupInductive` | `SetupSpec => []SetupInv` |
| `ClassesSound`, `ClassesAsShown`, `StartableAsOffered` | `SessionsSound`, `SeatsAsShown`, `OffersStartable` of `creation` |

A session is stored long after its picks were checked, so the invariant says of each
creation that waits what the promises say of a session (`WaitingSound`): rows that
change meanwhile do not matter, because the students were copied before the wait. What
the copies are is decided when the request begins, from picks the page made earlier.
`PageLeads` says of each student on the page that its id still leads to it, unless it
was deleted since; a new student can have the id of a deleted one, and then that id
is in `gone`. `OwnApart` keeps ids and students one to one, for both ways SQLite
gives ids out (`FreshId`). Levels and genders are looked up by number among the
profiles there ever were, which only grow (`Grown`, `SameStudent`). That no student
and no name comes twice in a class follows by counting: fewer were drawn before than
the level has students, or the gender names (`FewBefore`, `SomeLeft`), so that one is
left to draw. `SeatsRight` follows the code from picks to seats: by their references,
which differ, and for own students in the order of the query. `SetupInv` stands in
the proof module; TLC checked it on the instance of `creation` first.

**`AuthSessionsProofs`**, from the assumptions on the constants of `AuthSessions`:

| Theorem | Statement |
|---|---|
| `Inductive` | `Spec => []IInv` |
| `TypeCorrect`, `VersionsTellPasswords`, `FailuresCounted` | `TypeOK`, `VersionTellsPassword`, `CountsFailures` of `auth_race` |
| `DeletedStayOutWhereIdsDoNotReturn` | `Spec => []DeletedStayOut` from `~IdsReturn` (section 6); no run has it as a property |

`VersionTellsPassword` speaks of cookies whose version is that of the row. It
holds on because no cookie is ever ahead of its row (`NoneAhead`): otherwise a
version that is raised could meet one that was given out before. `GivenOut` says
that an id used again belongs to an account younger than every cookie.
`CountsFailures` needs that there is one administrator's row at most (`OneAdmin`
with the distinct names), because failures are counted for her and not for the
table, and `LooksRight` keeps what a waiting request has seen: an administrator's
row is never deleted, and a name that was free has only rows in lower case, which
the unique index can tell apart. The proof first reduces the nineteen steps to
their effects (rows stay, one is written, added or dropped; a new cookie is that of
a row; requests go on with what is right), one lemma per step, and then shows for
each part of `IInv` that every effect keeps it.

The second half of the module is about `AuthSignedIn`, from the same assumptions:

| Theorem | Statement |
|---|---|
| `KnownInductive` | `Spec => []KInv` |
| `SignedInImplemented` | `Spec => ImplementsSignedIn`, the refinement of `auth_race` |
| `AdminsOwnTheirs` | `AdminsOwn` of `auth_race` |

The mapping reads an account's password and the browsers inside from its row and
its cookies, which needs that an account has one row at most (`AccountsApart`).
The hard step is the change of one's own password: `SignedIn` lets only a browser
that is inside do it, and the code looked at the cookie before the password was
checked. `Known` keeps the cookie the request came with, and its conditional UPDATE
then says that the version of that cookie is still the row's. That the cookie is of
the same account, although ids are used again, is `AdminsKnown`: an id is free again
only after an administrator deleted its owner, and she has been in the table since
before the first deletion. So nobody acts as an administrator with a cookie of
another account (`AdminsOwn`).

Other accounts do get the ids of deleted ones, and then a cookie is accepted for an
account it was not issued to. `CookiesPlaced` says of every cookie that its account
has no row but that of the cookie's id, and that the row of this id, if there is
one, belongs to the same account or a younger one. A logout or a reset raises the
version above that of every cookie of the account itself (`NoneAhead`), so that
what is still let in are cookies of older accounts, which have no row any more:
strangers (`OlderCookie`). The same is said of a new account, which has no cookies
of its own. Neither `NoneAhead` nor anything else bounds how far strangers' cookies
are ahead of the row, which is why the promise cannot be stronger. The proof sorts
the steps by their outcome (nothing, a cookie, a row touched, revoked, changed by
its owner, created, deleted), shows one lemma per step, and for each outcome that
it keeps `KInv` and is a step of `SignedIn` or changes nothing in it. Where ids do
not come back none of this is needed: a row and a cookie have the number of their
account (`OwnIds`).

**`LessonPlansProofs`**, from `PlanBounds` (the bounds are numbers):

| Theorem | Statement |
|---|---|
| `InvariantHolds` | `Spec => []IInv` |
| `TypesHold`, `FilesHaveRows`, `UploadsStay`, `ReportsAreAboutTheirPlan` | `TypeOK`, `RowsMatchFiles`, `EntryKept`, `ReportOfItsUpload` of `plan_race` |

The promises are about rows, files and stores when nothing is under way; what
breaks them is a step of a request that read them long before. So the invariant
says for each step what the request that is there has done and may rely on.
`FilesApart`: a report file that waits for its row is of no other row or request,
so that the analysis that comes second removes its own file and not the winner's.
`GivenOut`: nothing has a number that is still to be given out. `Erasing`: what a
deletion of the student has removed by the step it is at. For a student whose
requests do not meet, `OneAtATime` says that she has one store at most,
`UploadUnderWay` what an upload finds (an empty store if the old one was removed;
a file of its own, which no deletion that is under way has on its list),
`EntryStands` what the entry it leaves has, and `AnalysisAbout` what an analysis
can find in the stores and has found. There is one lemma per action; the deletion
of the student and the insert of a report, which touch all of the above, have the
longest.

**`QnAChatProofs`**, from `HistoryAssumption`, `QnABounds` and `NoDocAssumption`:

| Theorem | Statement |
|---|---|
| `InvariantHolds` | `Spec => []IInv` |
| `TypesHold`, `ConversationsArePairs`, `NothingIsStranded` | `TypeOK`, `PairsWhole`, `NothingStranded` of `qna_race` |
| `MarksGoWithAnswers` | `MarkGoesWithAnswer` of `qna_race` |

A conversation is read by position, and positions depend on which rows there are.
What is inductive is about single rows: questions have odd ids, and the row with
the next id is the answer, in the same conversation (`Exchanged`), because both are
stored in one commit and the largest id there is is even. Deletions take rows by
ids they read before, which may be used again by then; `RowsTogether` says that
their lists have a question with its answer or neither. From there to positions
the argument counts: the place of a row is the number of rows up to it, the answer
comes one place after its question, and so, two by two, questions are at odd places
(`NextHasNextPlace`, `TwoByTwo`, `PairsFollow`). For this `InOrder` is defined by
rank and not by a sort. `RoomLeft` keeps the ids within their bound. `TextsApart`
is what `MarkGoesWithAnswer` needs: the row that is stored tells whose question it
was. The attempt to prove that property corrected the model: a repair could be
recorded while another request held the write lock of SQLite, which the database
would not let it do.

**`CriteriaSyncProofs`**, from `CriteriaAssumption`:

| Theorem | Statement |
|---|---|
| `InvariantHolds` | `Spec => []IInv` |
| `TypesHold`, `RowsAreRight`, `AcknowledgementsStand` | `TypeOK`, `RowsRight`, `AcknowledgedKept` of `crit_race` |
| `TruthOnlyAdvances` | `TruthAdvances` of `crit_race` |

Everything rests on the order of the alias maps by `updated_at`: no two have the
same (`MapsApart`), nothing older can come to count, and so a map that a cleanup
finds stale stays stale whatever is published meanwhile (`Dated`). What a request
may rely on is a part of the invariant for each of its steps: `Shaped` (which of the
maps it has, and what it made of the one it fetched), `Rooted` (documents it listed
or uploaded were really there), `Dated` (the order of its maps and of the one that
counts) and `Trusted` (what it is going to publish contradicts nothing that was
acknowledged, and what it published is still true of what it changes).

A step of the request that has the lock can change all of this for itself only: the
others rest, without a map of their own (`LockHeld`, `RestingStays`, `LockStep`).
What happens without the lock is the hard part: searches that remove old maps, a
second instance, and maps or documents that appear late. `World` describes what
these may do to the cloud, and `KnowledgeStays` that every request may still rely on
what it did; a late map is either older than the one that counts or agrees with what
was acknowledged (`LateSound`). The skipped repair is right because the date stored
with the rows is never ahead of the map that counts, also in a repair that is
flushed and not committed (`TableSound`). That only one request has such rows
(`LockHeld`) is why its commit cannot undo another's. `CriteriaAssumption` says two
things for the proof: there is a criterion, and no request is called `"free"`, the
value of a lock that nobody holds.

**`ExportProofs`**, from `IdsAssumption`, `IncludesAssumption` and
`ChangesAssumption` (row ids are positive numbers, the kinds that are asked for are
among the three, the number of changes is bounded by a number):

| Theorem | Statement |
|---|---|
| `ExportInvariant` | `Spec => []IInv` |
| `ExportTyped` | what rows, files, plan and archive are |
| `UploadsExportedOnce`, `ManifestOfArchive` | `EveryUploadOnce`, `ManifestTrue` of `export_race` |
| `OnlyDeletionFails` | `Spec => []FailsOnlyByDeletion`; no run has it as a property |

Each step reads the database of another moment, so what one step collected says
little about what the next finds. What can be relied on: an upload that is there
all the time (`since`) is in the table at every one of these moments (`SinceThere`);
what has a name in `seen`, or a number in the rows of the reports, has an entry
(`SeenHasEntry`); and so the upload itself, or what kept it out, has one
(`UploadsCovered`). That no two entries have one path cannot follow from the rows,
which may have changed between two queries: a report can be deleted and its upload
analysed again. It follows from which kinds of entry there can be at a step
(`SoFar`): paths of different queries differ in the kind, plans from the directory
have a file for their number, and the upload that a report stood for is left out by
its number. Uploads and old reports are numbered apart. `ArchiveGrows` says that
what is in the archive and what is left make up the plan, which is all that the
manifest at the end needs. Others are reduced to what they do to the tables: these
stay consistent, and an upload, once gone, is no longer in `since` (`OthersSound`,
`ChangeKeeps`).

**`OrderingProofs`** holds what several of the proofs need about numbers and lists:
what `Max` of the community modules returns, that `Ordered` lists every element of a
finite set once and in the order of its keys, and what a `Sublist` has.

### What stays with TLC

- Liveness: the prover has no rules for fairness and `ENABLED`.
- `Startup`: a script is a list of statements that is built from what was read of
  the schema by concatenation, selection and folds. What such a recursive
  definition computes for every input needs induction over data, which the
  provers do not have.

## 6. Where the code and its documents differ

Shown by a run:

- `qna_filed`: `_get_session` checks whose conversation it is, before the wait
  for Gemini only. Row ids are reused, so an answer can be stored in another
  user's new conversation.
Met while modelling, without a run of their own:

- A test asserts that the cookie of a deleted account is rejected
  (`tests/test_session_revocation.py:260`). It is until the next registration: the
  new account gets the id of the deleted one, if that was the highest, and version
  0, and `get_current_user` accepts the old cookie for it
  (`dependencies.py:71`). A logout of either, or a reset by an administrator, ends
  that unless the stranger has cookies of later versions, too. `DeletedStayOut`
  states what the test asks for: added to the invariants of `auth_race`, TLC refutes
  it. In a table that was rebuilt by `drop_users_email_column`, where ids do not
  come back, it holds (`DeletedStayOutWhereIdsDoNotReturn`). What the cookies do
  promise in both tables is `SignedIn`, which has the strangers in it, and
  `AdminsOwn`.
- `get_conversation_history` means to return the last exchanges
  (`qna_service.py:706`) and returns the first ones of a long conversation: the
  query orders by time and limits before it takes the last (`:688`).
- The logout forgets the document ids so that the dashboard does not offer a
  document that is about to be deleted (`auth.py:561`). An upload under way commits
  its row after that, and the background task deletes its store (`:571`).
- A start that is killed between the CREATE TABLE and the CREATE INDEX of a new
  table leaves it without its indexes, and `create_all` never looks at it again.
  Scripts repair some of them; `Unrepaired` lists those that stay missing, the
  unique ones of `users.username` and `criteria.document_id` among them.
- The export fails when a teacher with simulations is deleted while it collects:
  the names of plans are looked up without a default
  (`admin_export_service.py:528`). `OnlyDeletionFails` proves that nothing else
  does that.
- Overlapping requests break what `agreement.py` and `student_utterance` say of
  lasting agreement and of bounded rises: `regenerate` rewrites a row that another
  `regenerate` has repaired meanwhile (`session_service.py:843`), and the previous
  level is read before the wait (`:688`). `StoredAsDocumented` and
  `AgreementStays` therefore speak of requests that do not meet.
- Of two regenerated reactions of one failed row, the first parsed and the second
  not, the row keeps the structured value of the first with the raw text of the
  second: `structured = None` equals the value the row object was loaded with, so
  the ORM writes nothing (`session_service.py:865`).
- The mark that a failed upload of a criterion leaves can be lost: a reconcile in
  another request has flushed `ok`, released the lock, and is committed after its
  response; the failing request sees `needs_resync` as last committed and writes
  nothing; then `ok` is committed.
- A criterion whose upload was answered with an error, but whose document appears
  late, is made active by the next reconcile
  (`criteria_reconciliation_service.py:213`); the design document
  (`docs/superpowers/specs/2026-05-15-criteria-cloud-metadata-design.md`) says
  `uploaded`.
- The entry of a deleted criterion may come back through an alias map that
  appears late; its document does not, and `AcknowledgedKept` says no more.
- The repair at the start compares alias maps and never documents, so it does not
  notice a document without an entry after a crash.
- Two first questions about one document create two conversations.

## 7. What is not modelled

- Simulations that start while an administrator deletes the plan they use
  (`CheckPlan` takes either answer of the reference check). An upload is let in and
  writes its file in one step, so it never begins to write after the deletion of
  its student.
- Which stores QnA searches, the two passes of an evaluation question, and the
  mark for a resync that an analysis leaves (that of a question is in `QnAChat`).
- A second instance that changes the criteria while this one does: `Foreign` takes
  its fetch, upload and delete as one step, but `alias_map_mutation_lock` is a lock
  of one process (`criteria_alias_map_service.py:30`). Two processes that fetch the
  same alias map can lose one of the two changes; `AcknowledgedKept` does not speak
  of that.
- Lesson plans: a deletion of a store that fails at the client and takes effect
  later (`file_search_service.py:518`), which would take the document of an upload
  that had gone on, so `EntryKept` rests on there being none; and a thread that goes
  on after the 180 s of an analysis are over and still creates the store
  (`lessonplan_analysis_service.py:185`), which makes two of one name as requests
  that meet do.
- A change of the API key and the wipe of the upload cache, alias maps that do not
  parse, one-time migrations of criteria, the audit report, the order of search
  results.
- Accounts: rate limits, CSRF tokens, the equalised time of a login, and the order
  in which two answers to one browser arrive (every cookie is kept).
- Export: the filter by date, which only makes the queries smaller, the format of
  the files, and the two places without the user where a plan is looked for last
  (`admin_export_service.py:430`). `ManifestTrue` is about paths and hashes; the
  `source_status` that was true when the plan of the archive was made is not
  compared with what is sent. What the ORM keeps of rows it has read is left out, and the
  removal of old plan files is coarser than in the code (`UnlinkPlan`).
- Creation: more than one teacher or page; texts; which names `adapt` gives. What
  `create_session` reads at several awaits before it asks Gemini (upload, limit,
  own students) is read in one step (`Begin`).
- Start: indexes on ids, which are primary keys already; the indexes no script is
  about are one per table; releases whose scripts came in another order than the
  one in which a start runs them.
- Feedback: that the guideline whose version is recorded is the one Gemini was
  asked with (both come from one read before the wait).
- The seeded administrator's password policy, whose error stops a start on purpose.
- In databases whose tables were made by `create_all`, ids of simulation sessions
  could be given out again after a user is deleted; `SimSession` takes `deleted`
  as final.
- Wording: prompts, rendering, post-processing of reports, names of files.
- Prompts: one file, rewritten by handlers that never wait; stored evaluations:
  files written whole, listed and deleted one by one.
- Read-only parts (lists, details), pure I/O helpers, templates, scripts, and code
  no route uses (`lessonplan_vector_service.py`). Bounded retries of a single call
  (`gemini_retry.py`) are a call that takes longer.
