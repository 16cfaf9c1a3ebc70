------------------------------ MODULE Startup ------------------------------
(***************************************************************************)
(* The start of the server: app/main.py startup_event, db.create_tables    *)
(* and the scripts in app/migrations, on a database of any earlier release *)
(* or none, with a process that may stop between any two statements.       *)
(*                                                                         *)
(* SQLite runs a change of the schema at once: the driver opens a          *)
(* transaction only before a statement that changes rows, and engine.begin *)
(* commits it when the script ends.  So a process that stops half way      *)
(* leaves whatever statements it has run, and the next start must be able  *)
(* to go on from there.  Only the rebuild of users opens a transaction     *)
(* around changes of the schema.                                           *)
(***************************************************************************)
EXTENDS Naturals, SequencesExt

CONSTANTS
    People,      \* accounts in the old database
    Admin,       \* the account that is seeded
    Chats,       \* conversations in the old database
    MaxCrashes   \* times the process is killed (a bound of the model)

ASSUME PeopleAssumption == Admin \notin People
ASSUME CrashesAssumption == MaxCrashes \in Nat

VARIABLES
    disk,    \* the database as a process that starts would find it
    conn,    \* the database as the statements of the open transaction see it
    mode,    \* whether a transaction is open, and references are enforced
    step,    \* the script that runs: 0 before the first
    todo,    \* its statements that are left
    crashes,
    before   \* who had an account, and which chats a document, at first

vars == <<disk, conn, mode, step, todo, crashes, before>>

-----------------------------------------------------------------------------
(* The schema is a set of things: <<table>>, and <<table, column or index>> *)
(* for the columns and indexes that some script is about.                  *)

Lockout == <<"failed_login_count", "locked_until", "last_failed_login_at">>
FsIds == <<"fs_document_id", "fs_store_id">>

\* The tables of the simulation in the order of their references, with indexes.
SimTables == <<
    <<"simulation_sessions", <<"ix_user_id", "ix_upload_id">>>>,
    <<"simulation_phases", <<"uq_session_idx">>>>,
    <<"simulation_personas", <<"uq_session_seat">>>>,
    <<"simulation_utterances", <<"uq_session_seq", "ix_session_phase">>>>,
    <<"simulation_persona_library", <<"ix_library_user_id">>>>,
    <<"simulation_feedback_guidelines", <<"uq_version">>>> >>

(***************************************************************************)
(* What the models say of the other tables: columns that scripts are       *)
(* about, and indexes, those no script is about as one ("ix_others").  An  *)
(* index on an id, which is the primary key already, is left out.          *)
(***************************************************************************)
Models == <<
    <<"users", ToSet(Lockout) \cup {"session_version"}, <<"ux_username">>>>,
    <<"app_state", {}, <<>>>>,
    <<"criteria", {"file_path", "display_alias", "stable_id"},
      <<"ux_document_id", "ix_others", "ix_stable_id">>>>,
    <<"lessonplan_uploads", ToSet(FsIds),
      <<"ix_user_id", "ix_created_at", "uq_synthetic">>>>,
    <<"chat_sessions", {"document_id", "upload_id"},
      <<"ix_user_id", "ix_others", "ix_document_id", "ix_upload_id">>>>,
    <<"chat_messages", {}, <<"ix_others">>>>,
    <<"analysis_reports", {"upload_id"},
      <<"ix_user_id", "ix_others", "uq_upload_id">>>> >>

Table(t) == {<<t>>}
Parts(t, names) == {<<t, n>> : n \in names}
OfTable(schema, t) == {x \in schema : x[1] = t}

(***************************************************************************)
(* A statement: what it does, the things it makes or removes, and the      *)
(* things that must be there for it, or it fails.                          *)
(***************************************************************************)
Statement(do, what, needs) == [do |-> do, what |-> what, needs |-> needs]
CreateTable(t, cols) == Statement("add", Table(t) \cup Parts(t, cols), {})
Add(t, name, cols) ==
    Statement("add", Parts(t, {name}), Table(t) \cup Parts(t, cols))
Drop(what) == Statement("drop", what, {})
Do(do, needs) == Statement(do, {}, needs)

\* The statements of a script whose things are missing.
Missing(schema, statements) ==
    SelectSeq(statements, LAMBDA s : s.what \cap schema = {})

\* A script about a table that is not there does nothing.
Ensure(schema, t, statements) ==
    IF <<t>> \in schema THEN Missing(schema, statements) ELSE <<>>

AddAll(t, names, cols) == [i \in DOMAIN names |-> Add(t, names[i], cols)]

-----------------------------------------------------------------------------
(* The scripts, as the statements each runs on what it finds.              *)

\* Base.metadata.create_all: a table that is there is left alone.
CreateTables(db) ==
    LET tables == Models \o [i \in DOMAIN SimTables |->
                                <<SimTables[i][1], {}, SimTables[i][2]>>]
        make(t) == IF <<t[1]>> \in db.schema THEN <<>>
                   ELSE <<CreateTable(t[1], t[2])>> \o AddAll(t[1], t[3], {})
    IN  FlattenSeq([i \in DOMAIN tables |-> make(tables[i])])

\* The column comes with a default; rows without a value get it afterwards.
CriteriaFilePath(db) ==
    LET add == Ensure(db.schema, "criteria", <<Add("criteria", "file_path", {})>>)
    IN  IF add = <<>> THEN add
        ELSE add \o <<Do("default", {<<"criteria", "file_path">>})>>

CriteriaDisplayAlias(db) ==
    Ensure(db.schema, "criteria", <<Add("criteria", "display_alias", {})>>)

CriteriaStableId(db) ==
    Ensure(db.schema, "criteria",
           <<Add("criteria", "stable_id", {}),
             Add("criteria", "ix_stable_id", {"stable_id"})>>)

AppState(db) == Missing(db.schema, <<CreateTable("app_state", {})>>)

UsersLockout(db) == Ensure(db.schema, "users", AddAll("users", Lockout, {}))

DropUserProfiles(db) ==
    IF <<"user_profiles">> \in db.schema THEN <<Drop(Table("user_profiles"))>>
    ELSE <<>>

\* Indexes on the columns that refer to users, for the tables that exist.
ChildIndexes(db) ==
    SelectSeq([i \in 1 .. 3 |->
                  Add(<<"chat_sessions", "analysis_reports", "lessonplan_uploads">>[i],
                      "ix_user_id", {})],
              LAMBDA s : s.needs \subseteq db.schema /\ s.what \cap db.schema = {})

\* Mutant: references are to be ignored once the transaction is open.
RebuildUsersRefsLate(db) ==
    <<Do("begin", {}), Do("refs off", {}), Drop(Table("users_new")),
      CreateTable("users_new", ToSet(Lockout) \cup {"ux_username"}),
      Do("copy", Table("users_new") \cup Parts("users", ToSet(Lockout))),
      Do("drop users", Table("users")),
      Do("rename", Table("users_new"))>>
    \o ChildIndexes(db) \o <<Do("commit", {}), Do("refs on", {})>>

\* One transaction, with references not enforced: a new table, its rows, its name.
RebuildUsers(db) ==
    <<Do("refs off", {}), Do("begin", {}),
      Drop(Table("users_new")),
      CreateTable("users_new", ToSet(Lockout) \cup {"ux_username"}),
      Do("copy", Table("users_new") \cup Parts("users", ToSet(Lockout))),
      Do("drop users", Table("users")),
      Do("rename", Table("users_new"))>>
    \o ChildIndexes(db) \o <<Do("commit", {}), Do("refs on", {})>>

\* First as if the column could simply be dropped (see Rebuild).
DropEmail(db) ==
    IF <<"users", "email">> \notin db.schema THEN <<>>
    ELSE <<Drop(Parts("users", {"ix_email"})),
           Drop(Parts("users", {"email", "email is unique"}))>>

SessionVersion(db) ==
    Ensure(db.schema, "users", <<Add("users", "session_version", {})>>)

\* The two plain indexes are made with the table only.
LessonplanUploads(db) ==
    (IF <<"lessonplan_uploads">> \in db.schema THEN <<>>
     ELSE <<CreateTable("lessonplan_uploads", {}),
            Add("lessonplan_uploads", "ix_user_id", {}),
            Add("lessonplan_uploads", "ix_created_at", {})>>)
    \o Missing(db.schema, <<Add("lessonplan_uploads", "uq_synthetic", {})>>)
    \o Ensure(db.schema, "analysis_reports",
              <<Add("analysis_reports", "upload_id", {}),
                Add("analysis_reports", "uq_upload_id", {"upload_id"})>>)

UploadFsIds(db) ==
    Ensure(db.schema, "lessonplan_uploads", AddAll("lessonplan_uploads", FsIds, {}))

\* Mutant: the titles are cleaned before the paths in them are kept.
ChatDocumentIdLate(db) ==
    IF <<"chat_sessions">> \notin db.schema THEN <<>>
    ELSE Missing(db.schema,
                 <<Add("chat_sessions", "document_id", {}),
                   Add("chat_sessions", "ix_document_id", {"document_id"})>>)
         \o <<Do("clean", {<<"chat_sessions", "document_id">>,
                           <<"lessonplan_uploads", "fs_document_id">>}),
              Do("backfill", {<<"chat_sessions", "document_id">>})>>

\* Paths are copied out of the titles, and only then titles are replaced.
ChatDocumentId(db) ==
    IF <<"chat_sessions">> \notin db.schema THEN <<>>
    ELSE Missing(db.schema,
                 <<Add("chat_sessions", "document_id", {}),
                   Add("chat_sessions", "ix_document_id", {"document_id"})>>)
         \o <<Do("backfill", {<<"chat_sessions", "document_id">>}),
              Do("clean", {<<"chat_sessions", "document_id">>,
                           <<"lessonplan_uploads", "fs_document_id">>})>>

ChatUploadId(db) ==
    Ensure(db.schema, "chat_sessions",
           <<Add("chat_sessions", "upload_id", {}),
             Add("chat_sessions", "ix_upload_id", {"upload_id"})>>)

SimulationTables(db) ==
    LET make(t) == <<CreateTable(t[1], {})>> \o AddAll(t[1], t[2], {})
    IN  FlattenSeq([i \in DOMAIN SimTables |->
                        Missing(db.schema, make(SimTables[i]))])

RenameLabel(db) ==
    IF <<"chat_sessions">> \in db.schema THEN <<Do("rename label", {})>> ELSE <<>>

\* Without a password in production nobody is seeded, and it is only logged.
SeedAdmin(db) ==
    IF Admin \in db.users THEN <<>>
    ELSE <<Do("seed", {<<"users", "session_version">>} \cup
                      Parts("users", ToSet(Lockout)))>>

DropInviteCodes(db) ==
    IF <<"invite_codes">> \in db.schema THEN <<Drop(Table("invite_codes"))>>
    ELSE <<>>

\* Mutant: the column is added before the rebuild, which leaves it out.
ScriptsVersionFirst(db) ==
    <<CreateTables(db), CriteriaFilePath(db), CriteriaDisplayAlias(db),
      CriteriaStableId(db), AppState(db), UsersLockout(db), DropUserProfiles(db),
      SessionVersion(db), DropEmail(db), LessonplanUploads(db), UploadFsIds(db),
      ChatDocumentId(db), ChatUploadId(db), SimulationTables(db), RenameLabel(db),
      SeedAdmin(db), DropInviteCodes(db)>>

\* startup_event: what each script would run on this database, in order.
Scripts(db) ==
    <<CreateTables(db), CriteriaFilePath(db), CriteriaDisplayAlias(db),
      CriteriaStableId(db), AppState(db), UsersLockout(db), DropUserProfiles(db),
      DropEmail(db), SessionVersion(db), LessonplanUploads(db), UploadFsIds(db),
      ChatDocumentId(db), ChatUploadId(db), SimulationTables(db), RenameLabel(db),
      SeedAdmin(db), DropInviteCodes(db)>>

LastScript == 17
Optional == {16, 17}  \* SeedAdmin and DropInviteCodes, as the settings say
Serving == step = LastScript + 1

-----------------------------------------------------------------------------
(* The database: its schema, the rows of users and of the new users, and   *)
(* of each conversation whether its title is the path of a document, its   *)
(* document_id is, and its label is the old one.                           *)

Chat == [path : BOOLEAN, document : BOOLEAN, oldLabel : BOOLEAN]

\* What a statement does to the database.
After(s, db) ==
    CASE s.do = "add" -> [db EXCEPT !.schema = @ \cup s.what]
      [] s.do = "drop" ->
            [db EXCEPT !.schema = {x \in @ : x \notin s.what /\ <<x[1]>> \notin s.what}]
      [] s.do = "copy" -> [db EXCEPT !.copies = db.users]
      [] s.do = "drop users" ->
            [db EXCEPT !.schema = @ \ OfTable(@, "users"), !.users = {}]
      [] s.do = "rename" ->
            [db EXCEPT !.users = db.copies, !.copies = {},
                       !.schema = {IF x[1] = "users_new" THEN [x EXCEPT ![1] = "users"]
                                   ELSE x : x \in @}]
      [] s.do = "backfill" ->
            [db EXCEPT !.chats = [c \in DOMAIN @ |->
                [@[c] EXCEPT !.document = @ \/ db.chats[c].path]]]
      [] s.do = "clean" ->
            [db EXCEPT !.chats = [c \in DOMAIN @ |-> [@[c] EXCEPT !.path = FALSE]]]
      [] s.do = "rename label" ->
            [db EXCEPT !.chats = [c \in DOMAIN @ |-> [@[c] EXCEPT !.oldLabel = FALSE]]]
      [] s.do = "seed" -> [db EXCEPT !.users = @ \cup {Admin}]
      [] OTHER -> db

\* Statements on rows, before which the driver opens a transaction.
OnRows == {"default", "copy", "backfill", "clean", "rename label", "seed"}

(***************************************************************************)
(* What SQLite refuses: a statement without what it needs, making what is  *)
(* there, dropping a column that is unique by its declaration, or a table  *)
(* that rows refer to while references are enforced.                       *)
(***************************************************************************)
IsUniqueColumn(s) ==
    s.do = "drop" /\ <<"users", "email is unique">> \in s.what \cap conn.schema

Fails(s) ==
    \/ IsUniqueColumn(s)
    \/ ~ (s.needs \subseteq conn.schema)
    \/ s.do = "add" /\ s.what \cap conn.schema # {}
    \/ s.do = "drop users" /\ mode.refs /\ DOMAIN conn.chats # {}

-----------------------------------------------------------------------------
(* Databases of earlier releases: each appended its script to the others.  *)
(* What a script left is taken in the order in which a start runs them; a  *)
(* combination that only another order of releases would give is left out. *)

Empty == [schema |-> {}, users |-> {}, copies |-> {}, chats |-> <<>>]

\* The tables that no script makes, with the indexes that none makes.
OldestSchema ==
    {<<"user_profiles">>, <<"invite_codes">>, <<"users">>, <<"users", "ux_username">>,
     <<"criteria">>, <<"criteria", "ux_document_id">>}
    \cup {<<t>> : t \in {"chat_sessions", "chat_messages", "analysis_reports"}}
    \cup {<<t, "ix_user_id">> : t \in {"chat_sessions", "analysis_reports"}}
    \cup {<<t, "ix_others">> : t \in {"criteria", "chat_sessions", "chat_messages",
                                      "analysis_reports"}}

Oldest(email, chats) ==
    [schema |-> OldestSchema \cup {<<"users", "email">>, <<"users", email>>},
     users |-> People, copies |-> {}, chats |-> chats]

OldDatabases ==
    LET released[k \in 1 .. LastScript, email \in {"ix_email", "email is unique"},
                 chats \in [Chats -> Chat]] ==
            IF k = 1 THEN Oldest(email, chats)
            ELSE LET db == released[k - 1, email, chats]
                 IN  FoldLeft(LAMBDA d, s : After(s, d), db, Scripts(db)[k])
    IN  {released[k, email, chats] : k \in 1 .. LastScript,
             email \in {"ix_email", "email is unique"}, chats \in [Chats -> Chat]}

HasDocument(chat) == chat.path \/ chat.document

Init ==
    /\ \E db \in {Empty} \cup OldDatabases :
          /\ \A c \in DOMAIN db.chats : db.chats[c].document =>
                <<"chat_sessions", "document_id">> \in db.schema
          /\ disk = db
    /\ conn = disk
    /\ mode = [tx |-> FALSE, refs |-> TRUE]
    /\ step = 0
    /\ todo = <<>>
    /\ crashes = 0
    /\ before = [people |-> disk.users,
                 documents |-> {c \in DOMAIN disk.chats : HasDocument(disk.chats[c])}]

\* A script ends, its transaction is committed, and the next one looks.
NextScript ==
    /\ todo = <<>>
    /\ step <= LastScript
    /\ disk' = conn
    /\ mode' = [tx |-> FALSE, refs |-> TRUE]
    /\ step' = step + 1
    /\ \/ todo' = IF step = LastScript THEN <<>> ELSE Scripts(conn)[step + 1]
       \/ step + 1 \in Optional /\ todo' = <<>>
    /\ UNCHANGED <<conn, crashes, before>>

(***************************************************************************)
(* One statement; outside a transaction it is on disk at once.  One that   *)
(* fails ends the start, and would end every other at the same place: that *)
(* is a start that does not get any further.                               *)
(***************************************************************************)
Run ==
    /\ todo # <<>>
    /\ LET s == Head(todo)
           tx == (mode.tx \/ s.do \in OnRows \cup {"begin"}) /\ s.do # "commit"
       IN  /\ ~ Fails(s)
           /\ conn' = After(s, conn)
           /\ disk' = IF tx THEN disk ELSE conn'
           /\ mode' = [tx |-> tx,
                       refs |-> IF mode.tx THEN mode.refs
                                ELSE s.do # "refs off" /\ (mode.refs \/ s.do = "refs on")]
    /\ todo' = Tail(todo)
    /\ UNCHANGED <<step, crashes, before>>

\* Only this failure is expected: the column goes with a rebuild of the table.
Rebuild ==
    /\ todo # <<>> /\ IsUniqueColumn(Head(todo))
    /\ todo' = RebuildUsers(conn)
    /\ UNCHANGED <<disk, conn, mode, step, crashes, before>>

\* The process is killed, and started again.
Crash ==
    /\ crashes < MaxCrashes
    /\ crashes' = crashes + 1
    /\ conn' = disk
    /\ mode' = [tx |-> FALSE, refs |-> TRUE]
    /\ step' = 0
    /\ todo' = <<>>
    /\ UNCHANGED <<disk, before>>

Next == NextScript \/ Run \/ Rebuild \/ Crash

\* The process goes on by itself, whenever it runs.
Spec == /\ Init /\ [][Next]_vars
        /\ WF_vars(NextScript) /\ WF_vars(Run) /\ WF_vars(Rebuild)
-----------------------------------------------------------------------------
(* Properties.                                                             *)

(***************************************************************************)
(* Wherever the process stops: nobody loses an account while the table is  *)
(* rebuilt, and no conversation loses the document it is about while the   *)
(* path moves from its title to document_id.                               *)
(***************************************************************************)
NothingLost ==
    /\ before.people \subseteq disk.users
    /\ \A c \in before.documents : HasDocument(disk.chats[c])

\* Indexes that only the statement after CREATE TABLE makes: a process that
\* stops between the two leaves a table that no later start completes.
Unrepaired ==
    Parts("users", {"ux_username"})
    \cup Parts("lessonplan_uploads", {"ix_user_id", "ix_created_at"})
    \cup Parts("criteria", {"ux_document_id", "ix_others"})
    \cup Parts("chat_sessions", {"ix_user_id", "ix_others"})
    \cup Parts("chat_messages", {"ix_others"})
    \cup Parts("analysis_reports", {"ix_user_id", "ix_others"})

Wanted ==
    UNION {Table(t[1]) \cup Parts(t[1], t[2] \cup ToSet(t[3])) : t \in ToSet(Models)}
    \cup UNION {Table(t[1]) \cup Parts(t[1], ToSet(t[2])) : t \in ToSet(SimTables)}

(***************************************************************************)
(* When requests are served, from whatever release the database came and   *)
(* wherever earlier starts stopped, the tables, columns and indexes that   *)
(* the models declare are there, but for the indexes that nothing repairs, *)
(* the old ones are gone, and every row has its new form.                  *)
(***************************************************************************)
ServesWhole == Serving =>
    /\ Wanted \ Unrepaired \subseteq disk.schema
    /\ disk.schema \cap {<<"users", "email">>, <<"user_profiles">>} = {}
    /\ \A c \in DOMAIN disk.chats : ~disk.chats[c].path /\ ~disk.chats[c].oldLabel
    /\ \A c \in before.documents : disk.chats[c].document

\* Once it is no longer killed, the server comes up and stays up: no half
\* done change makes a statement of the next start fail for ever.
BootFinishes == <>[]Serving
=============================================================================
