------------------------------ MODULE QnAChat -------------------------------
(***************************************************************************)
(* Conversations about a lesson plan: app/routers/qna.py and               *)
(* app/services/qna_service.py over the tables chat_sessions and           *)
(* chat_messages, with the administrator's deletions.                      *)
(*                                                                         *)
(* A question finds or creates the conversation of its document, reads the *)
(* history and whether the criteria can be used, waits for Gemini, and     *)
(* stores question and answer in one commit.  No transaction is open while *)
(* it waits, unless it could not look up the criteria: then its mark that  *)
(* they need a resync is written and uncommitted, and nobody else can      *)
(* write.  A question that fails deletes the conversation it created.  A   *)
(* deletion reads the rows it will delete first and deletes them by id     *)
(* afterwards.  Both tables have plain SQLite row ids: the id of a deleted *)
(* last row is given out again.                                            *)
(***************************************************************************)
EXTENDS Integers, Sequences, FiniteSets, FiniteSetsExt

CONSTANTS
    Requests,      \* requests that may be in flight at the same time
    Users,         \* students
    Docs,          \* File Search documents of lesson plans
    HistoryPairs,  \* exchanges given to Gemini with a question, 5 in the code
    MaxSessions,   \* bound: conversations that exist at the same time
    MaxQuestions,  \* bound: questions asked and conversations opened
    MaxTime        \* bound: seconds of the database clock that tell apart

NoDoc == "no document"   \* a conversation opened by name, document_id NULL
NoUser == "nobody"       \* the user of a request slot that is not in use

ASSUME HistoryAssumption == HistoryPairs \in Nat \ {0}
ASSUME QnABounds == MaxSessions \in Nat /\ MaxQuestions \in Nat /\ MaxTime \in Nat
ASSUME NoDocAssumption == NoDoc \notin Docs /\ NoUser \notin Users

VARIABLES
    users,     \* accounts that exist
    sessions,  \* rows of chat_sessions
    messages,  \* rows of chat_messages
    sync,      \* app_state: the criteria are "ok" or they need a resync
    now,       \* the second of CURRENT_TIMESTAMP
    asked,     \* questions and openings so far
    broken,    \* a deletion was cut short, or met rows that took over an id
    req        \* what each request is doing, and what it has read

vars == <<users, sessions, messages, sync, now, asked, broken, req>>

-----------------------------------------------------------------------------
(* Rows.                                                                   *)

Ids == 1 .. MaxSessions
Questions == 1 .. MaxQuestions

\* updated_at is the time of creation: no statement updates a conversation.
Session == [id : Ids, owner : Users, doc : Docs \cup {NoDoc},
            updated : 0 .. MaxTime]

\* The text of a message is the question it belongs to.
Message == [id : 1 .. 2 * MaxQuestions, session : Ids,
            role : {"user", "assistant"}, text : Questions, author : Users]

\* SQLite gives out the largest row id that exists plus one.
NextId(rows) == IF rows = {} THEN 1 ELSE Max({row.id : row \in rows}) + 1

Exists(s) == \E row \in sessions : row.id = s
Owns(u, s) == \E row \in sessions : row.id = s /\ row.owner = u
MessagesOf(s) == {row \in messages : row.session = s}

\* The conversations of a document, and the newest of them: several of the
\* same second are in no particular order.
Of(u, d) == {row \in sessions : row.owner = u /\ row.doc = d}
Newest(u, d) == {row \in Of(u, d) : \A other \in Of(u, d) :
                    other.updated <= row.updated}

-----------------------------------------------------------------------------
(* The history of a conversation.                                          *)

\* The rows by their ids: each comes at the place that it makes the rows up to
\* it count.
UpTo(rows, m) == {row \in rows : row.id <= m.id}
Nth(rows, i) == CHOOSE m \in rows : Cardinality(UpTo(rows, m)) = i
InOrder(s) == [i \in 1 .. Cardinality(MessagesOf(s)) |-> Nth(MessagesOf(s), i)]

FirstRows(rows, n) == SubSeq(rows, 1, IF n < Len(rows) THEN n ELSE Len(rows))
LastRows(rows, n) == SubSeq(rows, IF n < Len(rows) THEN Len(rows) - n + 1 ELSE 1,
                            Len(rows))

\* Rows two by two, where they are a question and an answer.
Paired(rows) ==
    LET at == {i \in 1 .. Len(rows) \div 2 : /\ rows[2 * i - 1].role = "user"
                                             /\ rows[2 * i].role = "assistant"}
        place(k) == CHOOSE i \in at : Cardinality({j \in at : j <= i}) = k
    IN  [k \in 1 .. Cardinality(at) |->
            <<rows[2 * place(k) - 1].text, rows[2 * place(k)].text>>]

\* Mutant: the query has no limit and the last pairs are not cut off.
HistoryUncut(s) == Paired(InOrder(s))

\* get_conversation_history reads the first rows, and of those the last pairs.
History(s) == LastRows(Paired(FirstRows(InOrder(s), 2 * HistoryPairs)), HistoryPairs)

-----------------------------------------------------------------------------
(* Requests.                                                               *)

(***************************************************************************)
(* chat asks about a document, ask in a conversation that is named, open   *)
(* creates a conversation; an administrator deletes conversations or an    *)
(* account.  A request keeps the conversation it works in, whether it      *)
(* created it, what its transaction holds, and the rows it will delete.     *)
(***************************************************************************)
Ops == {"chat", "ask", "open", "deleteSessions", "deleteUser"}
Steps == {"idle", "create", "found", "filtering", "retrieving", "asking",
          "undo", "deleting"}

(***************************************************************************)
(* What a question has left in its transaction: nothing; the mark that the *)
(* criteria need a resync, which only its own commit will show to others;  *)
(* or, after that mark could not be written, an error that accepts nothing *)
(* but a rollback.                                                         *)
(***************************************************************************)
Pending == {"none", "mark", "error"}

Request == [op : Ops \cup {"none"}, pc : Steps, user : Users \cup {NoUser},
            doc : Docs \cup {NoDoc}, session : Ids \cup {0}, created : BOOLEAN,
            text : Questions \cup {0}, pending : Pending,
            targets : SUBSET Ids, rows : SUBSET (1 .. 2 * MaxQuestions)]

Idle == [op |-> "none", pc |-> "idle", user |-> NoUser, doc |-> NoDoc,
         session |-> 0, created |-> FALSE, text |-> 0, pending |-> "none",
         targets |-> {}, rows |-> {}]

TablesTyped ==
    /\ users \subseteq Users
    /\ sessions \subseteq Session
    /\ messages \subseteq Message
    /\ sync \in {"ok", "needs_resync"}
    /\ now \in 0 .. MaxTime
    /\ asked \in 0 .. MaxQuestions
    /\ broken \in BOOLEAN
    /\ req \in [Requests -> Request]
    /\ \A a, b \in sessions : a.id = b.id => a = b
    /\ \A a, b \in messages : a.id = b.id => a = b

TypeOK == TablesTyped /\ \A s \in Ids : Len(History(s)) <= HistoryPairs

Init ==
    /\ users = Users
    /\ sessions = {}
    /\ messages = {}
    /\ sync = "ok"
    /\ now = 0
    /\ asked = 0
    /\ broken = FALSE
    /\ req = [r \in Requests |-> Idle]

\* Mutant: the mark is kept in memory until the commit.
WritableUnflushed(r) == TRUE

\* SQLite has one writer: a mark that is not yet committed keeps others out,
\* for longer than busy_timeout lets them wait.
Writable(r) == \A other \in Requests \ {r} : req[other].pending # "mark"

Goto(r, step) == req' = [req EXCEPT ![r].pc = step]
Return(r) == req' = [req EXCEPT ![r] = Idle]

\* A request of a logged-in user; each one has a text of its own.
Arrives(r, u) ==
    /\ req[r].pc = "idle" /\ u \in users
    /\ asked < MaxQuestions
    /\ asked' = asked + 1
    /\ UNCHANGED <<users, sessions, messages, sync, now, broken>>

Fresh(op, u) == [Idle EXCEPT !.op = op, !.user = u, !.text = asked + 1]

\* chat_with_document looks for the conversation of the document.
Chat(r, u, d) ==
    /\ Arrives(r, u)
    /\ IF Of(u, d) = {}
       THEN req' = [req EXCEPT ![r] = [Fresh("chat", u) EXCEPT !.doc = d, !.pc = "create"]]
       ELSE \E row \in Newest(u, d) :
               req' = [req EXCEPT ![r] = [Fresh("chat", u) EXCEPT
                          !.doc = d, !.pc = "found", !.session = row.id]]

\* A question in a conversation that the client names.
AskIn(r, u, s) ==
    /\ Arrives(r, u)
    /\ Exists(s)
    /\ req' = [req EXCEPT ![r] = [Fresh("ask", u) EXCEPT !.pc = "found", !.session = s]]

Open(r, u) ==
    /\ Arrives(r, u)
    /\ req' = [req EXCEPT ![r] = [Fresh("open", u) EXCEPT !.pc = "create"]]

\* INSERT and COMMIT; the foreign key needs the account.
Create(r) ==
    /\ req[r].pc = "create" /\ req[r].user \in users
    /\ Writable(r)
    /\ LET s == NextId(sessions)
       IN  /\ s \in Ids
           /\ sessions' = sessions \cup {[id |-> s, owner |-> req[r].user,
                                          doc |-> req[r].doc, updated |-> now]}
           /\ req' = [req EXCEPT ![r] =
                 IF @.op = "open" THEN Idle
                 ELSE [@ EXCEPT !.pc = "found", !.session = s, !.created = TRUE]]
    /\ UNCHANGED <<users, messages, sync, now, asked, broken>>

\* Unless the criteria are in order every question is told so and goes
\* without them.
CriteriaReady == sync = "ok"

\* Before a question waits for Gemini it reads whether criteria can be used,
\* and the History that Gemini is given.  Only an evaluation looks them up.
Inform(r, evaluation) ==
    Goto(r, IF evaluation /\ CriteriaReady THEN "filtering" ELSE "asking")

\* Mutant: the question is stored before Gemini is asked.
ReadStoring(r) ==
    /\ req[r].pc = "found" /\ Owns(req[r].user, req[r].session)
    /\ messages' = messages \cup {[id |-> NextId(messages), session |-> req[r].session,
          role |-> "user", text |-> req[r].text, author |-> req[r].user]}
    /\ \E evaluation \in BOOLEAN : Inform(r, evaluation)
    /\ UNCHANGED <<users, sessions, sync, now, asked, broken>>

\* ask_question: the conversation is the user's; the history is read.
Read(r) ==
    /\ req[r].pc = "found" /\ Owns(req[r].user, req[r].session)
    /\ \E evaluation \in BOOLEAN : Inform(r, evaluation)
    /\ UNCHANGED <<users, sessions, messages, sync, now, asked, broken>>

\* active_stable_id_filter: a filter on the active criteria, which are then
\* searched in two passes, or none, and the plan alone is searched.
Filtered(r, active) == Goto(r, IF active THEN "retrieving" ELSE "asking")

Filter(r) ==
    /\ req[r].pc = "filtering"
    /\ \E active \in BOOLEAN : Filtered(r, active)
    /\ UNCHANGED <<users, sessions, messages, sync, now, asked, broken>>

\* The lookup fails: the mark is flushed, not committed.
Mark(r) ==
    /\ req[r].pc = "filtering" /\ Writable(r)
    /\ req' = [req EXCEPT ![r].pending = "mark", ![r].pc = "asking"]
    /\ UNCHANGED <<users, sessions, messages, sync, now, asked, broken>>

\* ... and the mark cannot be written while another question holds the lock.
\* The error is only logged.
MarkRefused(r) ==
    /\ req[r].pc = "filtering" /\ ~Writable(r)
    /\ req' = [req EXCEPT ![r].pending = "error", ![r].pc = "asking"]
    /\ UNCHANGED <<users, sessions, messages, sync, now, asked, broken>>

\* The first pass of an evaluation reads the plan; whether it finds the text
\* or fails, the second pass is asked.
Retrieve(r) ==
    /\ req[r].pc = "retrieving"
    /\ Goto(r, "asking")
    /\ UNCHANGED <<users, sessions, messages, sync, now, asked, broken>>

\* After a flush that failed a transaction takes only a rollback.
Usable(r) == req[r].pending # "error"

\* The foreign key of the messages: a conversation with that id exists.
Storable(r) == Exists(req[r].session)

\* _save_messages and the router's commit; the answer goes to the user.
Save(r) ==
    /\ req[r].pc = "asking" /\ Storable(r)
    /\ Writable(r) /\ Usable(r)
    /\ LET row(id, role) == [id |-> id, session |-> req[r].session, role |-> role,
                             text |-> req[r].text, author |-> req[r].user]
           next == NextId(messages)
       IN  messages' = messages \cup {row(next, "user"), row(next + 1, "assistant")}
    /\ sync' = IF req[r].pending = "mark" THEN "needs_resync" ELSE sync
    /\ Return(r)
    /\ UNCHANGED <<users, sessions, now, asked, broken>>

\* The steps in which a question may fail.
Waits == {"create", "found", "filtering", "retrieving", "asking"}

\* Mutant: the conversation a failed question created stays.
FailKeeping(r) ==
    /\ req[r].pc \in Waits
    /\ Return(r)
    /\ UNCHANGED <<users, sessions, messages, sync, now, asked, broken>>

(***************************************************************************)
(* A question fails: Gemini's error or timeout, an empty answer, a         *)
(* conversation or account that is gone, a database that stays locked.     *)
(* The rollback takes the mark back and frees the lock.  If the request    *)
(* created the conversation it now takes it back.                          *)
(***************************************************************************)
Fail(r) ==
    /\ req[r].pc \in Waits
    /\ IF req[r].created
       THEN req' = [req EXCEPT ![r].pc = "undo", ![r].pending = "none"]
       ELSE Return(r)
    /\ UNCHANGED <<users, sessions, messages, sync, now, asked, broken>>

-----------------------------------------------------------------------------
(* Deletions.                                                              *)

\* db.delete loads what the cascade reaches: the messages of the targets.
Loaded(targets) == {row.id : row \in {m \in messages : m.session \in targets}}

Deleting(r, op, u, targets) ==
    req' = [req EXCEPT ![r] = [@ EXCEPT !.op = op, !.user = u, !.pc = "deleting",
                                        !.targets = targets, !.rows = Loaded(targets)]]

\* The created conversation is read again, by its id.
Undo(r) ==
    /\ req[r].pc = "undo" /\ Exists(req[r].session)
    /\ Deleting(r, req[r].op, req[r].user, {req[r].session})
    /\ UNCHANGED <<users, sessions, messages, sync, now, asked, broken>>

UndoGone(r) ==
    /\ req[r].pc = "undo" /\ ~Exists(req[r].session)
    /\ Return(r)
    /\ UNCHANGED <<users, sessions, messages, sync, now, asked, broken>>

\* The administrator deletes conversations of one user, one or several.
DeleteSessions(r, u) ==
    /\ req[r].pc = "idle"
    /\ \E targets \in SUBSET {row.id : row \in {x \in sessions : x.owner = u}} :
          targets # {} /\ Deleting(r, "deleteSessions", u, targets)
    /\ UNCHANGED <<users, sessions, messages, sync, now, asked, broken>>

\* The administrator deletes an account with its conversations.
DeleteUser(r, u) ==
    /\ req[r].pc = "idle" /\ u \in users
    /\ Deleting(r, "deleteUser", u, {row.id : row \in {x \in sessions : x.owner = u}})
    /\ UNCHANGED <<users, sessions, messages, sync, now, asked, broken>>

\* The rows left when those that were loaded are deleted by their ids.
SessionsLeft(r) == {row \in sessions : row.id \notin req[r].targets}
MessagesLeft(r) == {row \in messages : row.id \notin req[r].rows}
UsersLeft(r) == users \ (IF req[r].op = "deleteUser" THEN {req[r].user} ELSE {})

\* No row that stays refers to one that goes.
Deletable(r) ==
    /\ \A m \in MessagesLeft(r) : m.session \notin req[r].targets
    /\ \A s \in SessionsLeft(r) : s.owner \in UsersLeft(r)

\* Messages of another conversation have the ids that were read.
Misses(r) == \E m \in messages : m.id \in req[r].rows /\ m.session \notin req[r].targets

CommitDelete(r) ==
    /\ req[r].pc = "deleting" /\ Writable(r) /\ Deletable(r)
    /\ sessions' = SessionsLeft(r)
    /\ messages' = MessagesLeft(r)
    /\ users' = UsersLeft(r)
    /\ broken' = (broken \/ Misses(r))
    /\ Return(r)
    /\ UNCHANGED <<sync, now, asked>>

\* IntegrityError: everything is rolled back.
RefuseDelete(r) ==
    /\ req[r].pc = "deleting" /\ Writable(r) /\ ~Deletable(r)
    /\ Return(r)
    /\ UNCHANGED <<users, sessions, messages, sync, now, asked, broken>>

\* A deletion meets a database error, such as a lock that is not released.
AbortDelete(r) ==
    /\ req[r].pc \in {"undo", "deleting"}
    /\ broken' = TRUE
    /\ Return(r)
    /\ UNCHANGED <<users, sessions, messages, sync, now, asked>>

-----------------------------------------------------------------------------

Tick ==
    /\ now < MaxTime
    /\ now' = now + 1
    /\ UNCHANGED <<users, sessions, messages, sync, asked, broken, req>>

\* A reconcile repairs the criteria, when nobody holds the lock.
Repair ==
    /\ sync = "needs_resync"
    /\ \A r \in Requests : req[r].pending # "mark"
    /\ sync' = "ok"
    /\ UNCHANGED <<users, sessions, messages, now, asked, broken, req>>

\* The server stops; what was committed stays.
Restart ==
    /\ \E r \in Requests : req[r].pc # "idle"
    /\ req' = [r \in Requests |-> Idle]
    /\ broken' = TRUE
    /\ UNCHANGED <<users, sessions, messages, sync, now, asked>>

Arrive(r) ==
    \E u \in Users :
        \/ \E d \in Docs : Chat(r, u, d)
        \/ \E s \in Ids : AskIn(r, u, s)
        \/ Open(r, u)
        \/ DeleteSessions(r, u)
        \/ DeleteUser(r, u)

Proceed(r) ==
    \/ Create(r) \/ Read(r) \/ Filter(r) \/ Mark(r) \/ MarkRefused(r)
    \/ Retrieve(r) \/ Save(r) \/ Fail(r)
    \/ Undo(r) \/ UndoGone(r)
    \/ CommitDelete(r) \/ RefuseDelete(r) \/ AbortDelete(r)

Next ==
    \/ \E r \in Requests : Arrive(r) \/ Proceed(r)
    \/ Tick
    \/ Repair
    \/ Restart

Spec == Init /\ [][Next]_vars

-----------------------------------------------------------------------------
(* What holds of conversations.                                            *)

\* A conversation is a list of questions, each followed by its own answer,
\* whatever requests and deletions overlap: the history is read by position.
PairsWhole ==
    \A s \in Ids : LET rows == InOrder(s) IN
        /\ Len(rows) % 2 = 0
        /\ \A i \in 1 .. Len(rows) \div 2 :
              /\ rows[2 * i - 1].role = "user"
              /\ rows[2 * i].role = "assistant"
              /\ rows[2 * i].text = rows[2 * i - 1].text

\* Every message belongs to a conversation and every conversation to an
\* account, also when an answer comes back after the conversation is deleted.
NoOrphanRows ==
    /\ \A m \in messages : Exists(m.session)
    /\ \A s \in sessions : s.owner \in users

\* A conversation about a document that has no messages is one whose first
\* question is being answered or taken back: a failed question leaves no
\* empty conversation in the list.  The exceptions: the server stops, the
\* database refuses the deletion, or a deletion hits rows with reused ids.
NoneLeftEmpty ==
    broken \/ \A s \in sessions : MessagesOf(s.id) = {} =>
        \/ s.doc = NoDoc
        \/ \E r \in Requests : req[r].created /\ req[r].session = s.id

\* Conversations end whole, whatever requests, deletions and locks overlap:
\* no row without its parent, no conversation without a question.
NothingStranded == NoOrphanRows /\ NoneLeftEmpty

\* A question whose lookup of the criteria failed is answered and marks them
\* in one commit, or does neither; while it waits no repair of the criteria is
\* recorded that its mark would undo.
MarkGoesWithAnswer ==
    [][\A r \in Requests :
          /\ req[r].pending = "mark" /\ req'[r] = req[r] => sync' = sync
          /\ req[r].pending # "none"
                /\ (\E m \in messages' \ messages : m.text = req[r].text)
                => sync' = "needs_resync"]_vars

-----------------------------------------------------------------------------
(* What the code says of conversations, and does not do.                   *)

\* A question and its answer are stored in a conversation of the user who
\* asked (_get_session checks whose conversation it is before Gemini).
FiledWithOwner ==
    \A m \in messages : Owns(m.author, m.session)

-----------------------------------------------------------------------------
(* Why it holds: the inductive invariant of QnAChatProofs.                 *)

\* What a request keeps while it is at a step: a question keeps its text, and
\* what it created until that is taken back; a deletion takes back no more
\* than the conversation.
RequestSound(q) ==
    /\ q.pc = "idle" => q = Idle
    /\ q.pc \in Waits =>
          /\ q.op \in {"chat", "ask", "open"}
          /\ q.user \in Users
          /\ q.text # 0
    /\ q.pc \in (Waits \ {"create"}) \cup {"undo"} => q.session \in Ids
    /\ q.op = "open" => q.pc = "create" /\ q.doc = NoDoc
    /\ q.op = "ask" => q.pc # "create"
    /\ q.op = "deleteUser" => q.pc = "deleting" /\ q.user \in Users
    /\ q.pending # "none" => q.pc = "asking"
    /\ q.pc = "undo" => q.created
    /\ q.created => q.op = "chat" /\ q.pc # "create"
    /\ q.created /\ q.pc = "deleting" => q.targets = {q.session}

RequestsSound == \A r \in Requests : RequestSound(req[r])

\* Questions in flight have texts of their own.
TextsApart ==
    /\ \A r \in Requests : req[r].text <= asked
    /\ \A a, b \in Requests : req[a].text = req[b].text /\ req[a].text # 0 => a = b

\* The ids of questions are odd, and the answer to each is the next row, in
\* the same conversation.
IsQuestion(m) == m.role = "user" /\ \E k \in Questions : m.id = 2 * k - 1
IsAnswer(m) == m.role = "assistant" /\ \E k \in Questions : m.id = 2 * k
Answers(n, m) == /\ IsAnswer(n) /\ n.id = m.id + 1
                 /\ n.session = m.session /\ n.text = m.text
Exchanged ==
    \A m \in messages :
        \/ IsQuestion(m) /\ \E n \in messages : Answers(n, m)
        \/ IsAnswer(m) /\ \E n \in messages : IsQuestion(n) /\ Answers(m, n)

\* Deletions read questions together with their answers, so they also remove
\* them together, whatever rows have the ids by then.
Together(q) == \A k \in Questions : 2 * k - 1 \in q.rows <=> 2 * k \in q.rows
RowsTogether == \A r \in Requests : Together(req[r])

\* The ids given out leave room for the questions in flight.
InFlight == {req[r].text : r \in Requests} \ {0}
RoomLeft == \A m \in messages : m.id <= 2 * (asked - Cardinality(InFlight))

IInv ==
    /\ TablesTyped
    /\ RequestsSound
    /\ TextsApart
    /\ Exchanged
    /\ RowsTogether
    /\ RoomLeft
    /\ NothingStranded
=============================================================================
