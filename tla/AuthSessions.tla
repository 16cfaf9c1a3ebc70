---------------------------- MODULE AuthSessions ----------------------------
(***************************************************************************)
(* Accounts, logins and sessions: app/services/auth_service.py, its routes *)
(* in routers/auth.py, the administrator's changes of accounts in          *)
(* routers/admin/users.py and account.py, and the checks of every request  *)
(* in dependencies.py and middleware/auth_middleware.py.                   *)
(*                                                                         *)
(* There is no table of sessions.  A login is a signed cookie that names   *)
(* an account and the value of users.session_version at the time; nobody   *)
(* can take it back, only raise the version in the row.  A browser may     *)
(* keep copies, so a cookie once issued can come back at any time.         *)
(*                                                                         *)
(* Every request is an asyncio task with a database session of its own.    *)
(* What it has read may be stale when it writes; hashing a password does   *)
(* not yield, so a check of a password belongs to the step before it.      *)
(***************************************************************************)
EXTENDS Integers, FiniteSetsExt

CONSTANTS
    Requests,     \* requests in flight at the same time
    Browsers,     \* where cookies are kept
    Names,        \* ids that validate_user_id accepts, in lower case
    Admin,        \* the reserved id "admin"
    NoBrowser,    \* the browser of a request slot that is not in use
    NoRow,        \* an id without a row in the table
    IdsReturn,    \* whether the table users gives ids out again
    MaxAccounts,  \* accounts ever created (a bound of the model)
    MaxHash,      \* passwords ever set for one account (a bound of the model)
    MaxVersion,   \* session_version (a bound of the model)
    MaxFailures,  \* failed administrator logins in a row (a bound of the model)
    OperatorLock, \* whether an operator locks administrators (a bound as well)
    MaxAttempts   \* settings.ADMIN_MAX_FAILED_ATTEMPTS

ASSUME AccountsAssumption == MaxAccounts \in Nat \ {0} /\ IdsReturn \in BOOLEAN
ASSUME HashAssumption == MaxHash \in Nat \ {0}
ASSUME VersionAssumption == MaxVersion \in Nat
ASSUME FailuresAssumption == MaxFailures \in Nat /\ OperatorLock \in BOOLEAN
ASSUME AttemptsAssumption == MaxAttempts \in Int
ASSUME NamesAssumption == Admin \notin Names /\ NoBrowser \notin Browsers

VARIABLES
    users,     \* the table users by id, NoRow where there is none
    cookies,   \* every cookie that was ever issued
    req,       \* what each request is doing, and what it has read
    accounts,  \* how many accounts were created: names an account for good
    failures   \* failed administrator logins since the last success or reset

vars == <<users, cookies, req, accounts, failures>>

-----------------------------------------------------------------------------
(* Rows.  The ids are SQLite's.  In a table that create_all made they are   *)
(* one more than the highest in the table, so an id may come back after its *)
(* owner was deleted, with version 0.  Only the table that                 *)
(* drop_users_email_column rebuilds is AUTOINCREMENT.                      *)

Ids == 1 .. MaxAccounts
Accounts == 1 .. MaxAccounts
Hashes == 0 .. MaxHash  \* passwords of one account by number; 0 for NULL
Versions == 0 .. MaxVersion

\* Public failures stop the counter one below the number that would lock.
SoftCap == IF MaxAttempts >= 1 THEN MaxAttempts - 1 ELSE 0

(***************************************************************************)
(* lower is FALSE for a name from before ids were normalised, stored with  *)
(* capitals.  locked says whether locked_until is NULL, ahead or passed;   *)
(* only an operator sets it.  account is the model's own name for the      *)
(* account, which the code does not have.                                  *)
(***************************************************************************)
Row == [name : Names \cup {Admin}, lower : BOOLEAN, admin : BOOLEAN,
        hash : Hashes, version : Versions, fails : 0 .. SoftCap,
        locked : {"no", "ahead", "passed"}, failedAt : BOOLEAN,
        account : Accounts]
ASSUME NoRowAssumption == NoRow \notin Row

Exists(id) == users[id] # NoRow
Present == {id \in Ids : Exists(id)}

NewRow(account, name, admin, hash) ==
    [name |-> name, lower |-> TRUE, admin |-> admin, hash |-> hash,
     version |-> 0, fails |-> 0, locked |-> "no", failedAt |-> FALSE,
     account |-> account]

NextId ==
    IF ~IdsReturn THEN accounts + 1
    ELSE IF Present = {} THEN 1 ELSE Max(Present) + 1

\* Rows whose name is this one when capitals are ignored, and exactly.
Called(name) == {id \in Present : users[id].name = name}
CalledExactly(name) == {id \in Called(name) : users[id].lower}

(* Cookies.  account and hash are the model's: the account the row belonged *)
(* to, and the password it had, when its version was read.                 *)
Cookie == [id : Ids, version : Versions, browser : Browsers,
           account : Accounts, hash : Hashes]

CookieFor(id, b) ==
    [id |-> id, version |-> users[id].version, browser |-> b,
     account |-> users[id].account, hash |-> users[id].hash]

\* What get_current_user asks of a cookie, and the middleware of pages.
Accepted(c) == Exists(c.id) /\ users[c.id].version = c.version

AcceptedAsAdmin(c) == Accepted(c) /\ users[c.id].admin

(***************************************************************************)
(* A request in flight: its browser, the id of the row it is about, the    *)
(* name it registers, and the version and hash it has loaded.              *)
(***************************************************************************)
Request == [op : {"none", "register", "login", "change", "reset", "delete"},
            pc : {"idle", "checked", "inserted", "failing", "locked",
                  "clearing", "cleared", "allowed", "loaded"},
            browser : Browsers \cup {NoBrowser}, id : Ids,
            name : Names \cup {Admin}, version : Versions, hash : Hashes]

Idle == [op |-> "none", pc |-> "idle", browser |-> NoBrowser, id |-> 1,
         name |-> Admin, version |-> 0, hash |-> 0]

IsIdle(r) == req[r].pc = "idle"
At(r, op, pc) == req[r].op = op /\ req[r].pc = pc
Goes(r, pc) == req' = [req EXCEPT ![r].pc = pc]
Ends(r) == req' = [req EXCEPT ![r] = Idle]

\* Accounts made before ids were normalised, with or without a password.
LegacyRow(name, hash) ==
    [NewRow(1, name, FALSE, hash) EXCEPT !.lower = FALSE]

Init ==
    /\ \/ users = [id \in Ids |-> NoRow]
       \/ \E name \in Names, hash \in {0, 1} :
             users = [id \in Ids |-> IF id = 1 THEN LegacyRow(name, hash) ELSE NoRow]
    /\ cookies = {}
    /\ req = [r \in Requests |-> Idle]
    /\ accounts = IF users[1] = NoRow THEN 0 ELSE 1
    /\ failures = 0

-----------------------------------------------------------------------------
(* Registration: the check, the insertion, and the cookie from a refresh.  *)

Taken(name) == Called(name) # {}

RegisterCheck(r, b, name) ==
    /\ IsIdle(r)
    /\ ~Taken(name)
    /\ req' = [req EXCEPT ![r] = [Idle EXCEPT !.op = "register", !.pc = "checked",
                                              !.browser = b, !.name = name]]
    /\ UNCHANGED <<users, cookies, accounts, failures>>

\* Mutant: nothing keeps two rows of one name apart.
RegisterInsertBlindly(r) ==
    /\ At(r, "register", "checked")
    /\ accounts < MaxAccounts
    /\ LET id == NextId
       IN  /\ users' = [users EXCEPT ![id] =
                            NewRow(accounts + 1, req[r].name, FALSE, 1)]
           /\ req' = [req EXCEPT ![r].pc = "inserted", ![r].id = id]
    /\ accounts' = accounts + 1
    /\ UNCHANGED <<cookies, failures>>

\* The unique index on username refuses a second row: rolled back, "taken".
RegisterInsert(r) ==
    /\ At(r, "register", "checked")
    /\ \/ /\ CalledExactly(req[r].name) # {}
          /\ Ends(r)
          /\ UNCHANGED <<users, accounts>>
       \/ /\ CalledExactly(req[r].name) = {}
          /\ accounts < MaxAccounts
          /\ users' = [users EXCEPT ![NextId] =
                           NewRow(accounts + 1, req[r].name, FALSE, 1)]
          /\ req' = [req EXCEPT ![r].pc = "inserted", ![r].id = NextId]
          /\ accounts' = accounts + 1
    /\ UNCHANGED <<cookies, failures>>

\* The row may be gone again when it is refreshed: an error, and no cookie.
RegisterEnter(r) ==
    /\ At(r, "register", "inserted")
    /\ cookies' = cookies \cup (IF Exists(req[r].id)
                                THEN {CookieFor(req[r].id, req[r].browser)}
                                ELSE {})
    /\ Ends(r)
    /\ UNCHANGED <<users, accounts, failures>>

-----------------------------------------------------------------------------
(* Login of a teacher: one read, and the cookie without another step.      *)

LoginUser(b, id, hash) ==
    /\ Exists(id) /\ ~users[id].admin
    /\ users[id].hash # 0 /\ hash = users[id].hash
    /\ cookies' = cookies \cup {CookieFor(id, b)}
    /\ UNCHANGED <<users, req, accounts, failures>>

-----------------------------------------------------------------------------
(* Login of an administrator.                                              *)

\* The row as read, and the password presented checked against it.
LoginAdmin(r, b, id, hash) ==
    /\ IsIdle(r)
    /\ Exists(id) /\ users[id].admin
    /\ LET row == users[id]
           clear == row.fails = 0 /\ row.locked = "no" /\ ~row.failedAt
           passed == row.hash # 0 /\ hash = row.hash
           next == IF row.locked = "ahead" THEN "locked"
                   ELSE IF passed THEN "clearing" ELSE "failing"
       IN  \/ /\ next = "clearing" /\ clear    \* nothing to reset: signed in
              /\ cookies' = cookies \cup {CookieFor(id, b)}
              /\ UNCHANGED req
           \/ /\ ~(next = "clearing" /\ clear)
              /\ req' = [req EXCEPT ![r] = [Idle EXCEPT !.op = "login", !.pc = next,
                                                        !.browser = b, !.id = id]]
              /\ UNCHANGED cookies
    /\ UNCHANGED <<users, accounts, failures>>

\* While it is locked only the time of the attempt is written.
TouchLocked(r) ==
    /\ At(r, "login", "locked")
    /\ users' = [users EXCEPT ![req[r].id].failedAt = TRUE]
    /\ Ends(r)
    /\ UNCHANGED <<cookies, accounts, failures>>

CountedFails(row) ==
    IF SoftCap = 0 THEN 0
    ELSE IF row.locked = "passed" THEN 1
    ELSE IF row.fails < SoftCap THEN row.fails + 1 ELSE row.fails

\* One UPDATE computes the counter from the row as it is, not as it was read.
RecordFailedLogin(r) ==
    /\ At(r, "login", "failing")
    /\ failures < MaxFailures
    /\ LET row == users[req[r].id]
       IN  /\ users' = [users EXCEPT ![req[r].id] =
                [row EXCEPT !.fails = CountedFails(row), !.failedAt = TRUE,
                            !.locked = IF @ = "passed" THEN "no" ELSE @]]
           /\ failures' = IF row.locked = "passed" THEN 1 ELSE failures + 1
    /\ Ends(r)
    /\ UNCHANGED <<cookies, accounts>>

\* Mutant: the lock is cleared, the counter is kept.
ResetLoginLock(r) ==
    /\ At(r, "login", "clearing")
    /\ users' = [users EXCEPT ![req[r].id] =
                    [@ EXCEPT !.locked = "no", !.failedAt = FALSE]]
    /\ failures' = 0
    /\ Goes(r, "cleared")
    /\ UNCHANGED <<cookies, accounts>>

\* A login that succeeds resets the counter, and only then ...
ResetLoginCounter(r) ==
    /\ At(r, "login", "clearing")
    /\ users' = [users EXCEPT ![req[r].id] =
                    [@ EXCEPT !.fails = 0, !.locked = "no", !.failedAt = FALSE]]
    /\ failures' = 0
    /\ Goes(r, "cleared")
    /\ UNCHANGED <<cookies, accounts>>

\* ... refreshes the row, whose version goes into the cookie.
EnterAdmin(r) ==
    /\ At(r, "login", "cleared")
    /\ cookies' = cookies \cup {CookieFor(req[r].id, req[r].browser)}
    /\ Ends(r)
    /\ UNCHANGED <<users, accounts, failures>>

-----------------------------------------------------------------------------
(* Signing out.                                                            *)

\* revoke_sessions_if_current: one conditional UPDATE, for any cookie.
Logout(c) ==
    /\ c \in cookies /\ Accepted(c)
    /\ users[c.id].version < MaxVersion
    /\ users' = [users EXCEPT ![c.id].version = @ + 1]
    /\ UNCHANGED <<cookies, req, accounts, failures>>

-----------------------------------------------------------------------------
(* An administrator changes accounts.                                      *)

\* get_current_admin, before the body of the request is read.
AdminAsks(r, c, op, id) ==
    /\ IsIdle(r)
    /\ c \in cookies /\ AcceptedAsAdmin(c)
    /\ req' = [req EXCEPT ![r] = [Idle EXCEPT !.op = op, !.pc = "allowed",
                                              !.browser = c.browser, !.id = id]]
    /\ UNCHANGED <<users, cookies, accounts, failures>>

\* Mutant: the target may be an administrator, oneself among them.
AdminLoadsAnyone(r) ==
    /\ req[r].op \in {"reset", "delete"} /\ req[r].pc = "allowed"
    /\ IF Exists(req[r].id)
       THEN req' = [req EXCEPT ![r].pc = "loaded",
                               ![r].version = users[req[r].id].version]
       ELSE Ends(r)
    /\ UNCHANGED <<users, cookies, accounts, failures>>

\* The target must be there and be no administrator; so it is never oneself.
AdminLoads(r) ==
    /\ req[r].op \in {"reset", "delete"} /\ req[r].pc = "allowed"
    /\ IF Exists(req[r].id) /\ ~users[req[r].id].admin
       THEN req' = [req EXCEPT ![r].pc = "loaded",
                               ![r].version = users[req[r].id].version]
       ELSE Ends(r)
    /\ UNCHANGED <<users, cookies, accounts, failures>>

NewPassword(row, version) ==
    [row EXCEPT !.hash = @ + 1, !.version = version, !.fails = 0,
                !.locked = "no", !.failedAt = FALSE]

\* Mutant: the new version is computed from the row as it was loaded.
ResetPasswordFromLoaded(r) ==
    /\ At(r, "reset", "loaded") /\ Exists(req[r].id)
    /\ users[req[r].id].hash < MaxHash /\ req[r].version < MaxVersion
    /\ users' = [users EXCEPT ![req[r].id] = NewPassword(@, req[r].version + 1)]
    /\ Ends(r)
    /\ UNCHANGED <<cookies, accounts, failures>>

\* The version is raised in the database; a row that is gone is an error.
ResetPassword(r) ==
    /\ At(r, "reset", "loaded")
    /\ \/ /\ Exists(req[r].id)
          /\ users[req[r].id].hash < MaxHash
          /\ users[req[r].id].version < MaxVersion
          /\ users' = [users EXCEPT ![req[r].id] = NewPassword(@, @.version + 1)]
       \/ ~Exists(req[r].id) /\ UNCHANGED users
    /\ Ends(r)
    /\ UNCHANGED <<cookies, accounts, failures>>

DeleteUser(r) ==
    /\ At(r, "delete", "loaded")
    /\ users' = [users EXCEPT ![req[r].id] = NoRow]
    /\ Ends(r)
    /\ UNCHANGED <<cookies, accounts, failures>>

\* change_own_password: signed in, and the password presented is the loaded one.
ChangeAsks(r, c, hash) ==
    /\ IsIdle(r)
    /\ c \in cookies /\ AcceptedAsAdmin(c)
    /\ hash = users[c.id].hash /\ hash # 0
    /\ req' = [req EXCEPT ![r] = [Idle EXCEPT
                 !.op = "change", !.pc = "loaded", !.browser = c.browser,
                 !.id = c.id, !.version = c.version, !.hash = hash]]
    /\ UNCHANGED <<users, cookies, accounts, failures>>

\* Mutant: the update of the own password is not conditional.
ChangeOwnAnyway(r) ==
    /\ At(r, "change", "loaded")
    /\ users[req[r].id].hash < MaxHash /\ req[r].version < MaxVersion
    /\ LET id == req[r].id
           new == NewPassword(users[id], req[r].version + 1)
       IN  /\ users' = [users EXCEPT ![id] = new]
           /\ cookies' = cookies \cup
                {[id |-> id, version |-> new.version, browser |-> req[r].browser,
                  account |-> new.account, hash |-> new.hash]}
    /\ failures' = 0
    /\ Ends(r)
    /\ UNCHANGED accounts

\* The version and the hash it has loaded must still be those of the row.
StillAsLoaded(r) == /\ users[req[r].id].version = req[r].version
                    /\ users[req[r].id].hash = req[r].hash

\* One conditional UPDATE; the caller's own cookie gets the new version.
ChangeOwn(r) ==
    /\ At(r, "change", "loaded")
    /\ \/ /\ StillAsLoaded(r)
          /\ req[r].hash < MaxHash /\ req[r].version < MaxVersion
          /\ LET id == req[r].id
                 new == NewPassword(users[id], req[r].version + 1)
             IN  /\ users' = [users EXCEPT ![id] = new]
                 /\ cookies' = cookies \cup
                      {[id |-> id, version |-> new.version,
                        browser |-> req[r].browser,
                        account |-> new.account, hash |-> new.hash]}
          /\ failures' = 0
       \/ ~StillAsLoaded(r) /\ UNCHANGED <<users, cookies, failures>>
    /\ Ends(r)
    /\ UNCHANGED accounts

-----------------------------------------------------------------------------
(* The server, time, and the operator.                                     *)

(***************************************************************************)
(* The server stops at any time, and starts: what was under way is gone;   *)
(* the account of the administrator is made if nobody is called so, unless *)
(* the server runs in production without an initial password.              *)
(***************************************************************************)
Restart ==
    /\ req' = [r \in Requests |-> Idle]
    /\ \/ UNCHANGED <<users, accounts>>
       \/ /\ Called(Admin) = {}
          /\ accounts < MaxAccounts
          /\ users' = [users EXCEPT ![NextId] =
                           NewRow(accounts + 1, Admin, TRUE, 1)]
          /\ accounts' = accounts + 1
    /\ UNCHANGED <<cookies, failures>>

\* Outside the application: an operator locks an administrator, time passes.
OperatorLocks(id) ==
    /\ OperatorLock
    /\ Exists(id) /\ users[id].admin /\ users[id].locked = "no"
    /\ users' = [users EXCEPT ![id].locked = "ahead"]
    /\ UNCHANGED <<cookies, req, accounts, failures>>

LockPasses(id) ==
    /\ Exists(id) /\ users[id].locked = "ahead"
    /\ users' = [users EXCEPT ![id].locked = "passed"]
    /\ UNCHANGED <<cookies, req, accounts, failures>>

-----------------------------------------------------------------------------
Step(r) ==
    \/ RegisterInsert(r) \/ RegisterEnter(r)
    \/ TouchLocked(r) \/ RecordFailedLogin(r)
    \/ ResetLoginCounter(r) \/ EnterAdmin(r)
    \/ AdminLoads(r) \/ ResetPassword(r) \/ DeleteUser(r)
    \/ ChangeOwn(r)

Next ==
    \/ \E r \in Requests :
        \/ Step(r)
        \/ \E b \in Browsers :
            \/ \E name \in Names : RegisterCheck(r, b, name)
            \/ \E id \in Ids, hash \in Hashes \ {0} : LoginAdmin(r, b, id, hash)
        \/ \E c \in cookies :
            \/ \E op \in {"reset", "delete"}, id \in Ids : AdminAsks(r, c, op, id)
            \/ \E hash \in Hashes \ {0} : ChangeAsks(r, c, hash)
    \/ \E b \in Browsers, id \in Ids, hash \in Hashes \ {0} : LoginUser(b, id, hash)
    \/ \E c \in cookies : Logout(c)
    \/ \E id \in Ids : OperatorLocks(id) \/ LockPasses(id)
    \/ Restart

Spec == Init /\ [][Next]_vars

-----------------------------------------------------------------------------
(* Properties.                                                             *)

(***************************************************************************)
(* No two accounts have the same id, capitals ignored, however their       *)
(* registrations overlap and whatever old names are stored: the check of   *)
(* register_regular_user covers old names, the index covers the overlap.   *)
(***************************************************************************)
NamesDistinct ==
    \A i, j \in Present : users[i].name = users[j].name => i = j

\* The tables, the cookies and the requests have the form the code gives them,
\* with no two accounts of one name.
TypeOK ==
    /\ users \in [Ids -> Row \cup {NoRow}]
    /\ cookies \subseteq Cookie
    /\ req \in [Requests -> Request]
    /\ accounts \in 0 .. MaxAccounts
    /\ failures \in Nat
    /\ NamesDistinct

(***************************************************************************)
(* A session version stands for one password: whatever cookie of an        *)
(* account is accepted, its version was read from the row when the row had *)
(* the password it has now.  Overlapping changes never reuse a version.    *)
(***************************************************************************)
VersionTellsPassword ==
    \A c \in cookies :
        (Accepted(c) /\ c.account = users[c.id].account)
            => c.hash = users[c.id].hash

(***************************************************************************)
(* A cookie that acts as an administrator was issued to her account: ids   *)
(* are given out again after a deletion, but only an administrator deletes *)
(* and none is deleted, so nobody inherits her row.                        *)
(***************************************************************************)
AdminsOwn ==
    \A c \in cookies : AcceptedAsAdmin(c) => c.account = users[c.id].account

(***************************************************************************)
(* What the test of old cookies after a deletion asks for: a cookie of an  *)
(* account that is deleted is accepted no more.  It holds where ids do not *)
(* return.  In a table that create_all made it does not: the id is given   *)
(* out again, with version 0, and AdminsOwn and SignedIn are what is left. *)
(***************************************************************************)
DeletedStayOut ==
    \A c \in cookies : Accepted(c) =>
        \E id \in Present : users[id].account = c.account

(***************************************************************************)
(* The counter of failed administrator logins misses none of them, however *)
(* they overlap, and stops at the soft cap: it is the number of failures   *)
(* since the last success or reset, up to the cap.                         *)
(***************************************************************************)
CountsFailures ==
    \A id \in Present : users[id].admin =>
        users[id].fails = IF failures < SoftCap THEN failures ELSE SoftCap
=============================================================================
