------------------------- MODULE AuthSessionsProofs -------------------------
(***************************************************************************)
(* Theorems about AuthSessions, for any number of requests, browsers,      *)
(* names, accounts, passwords and versions; and at the end that it         *)
(* implements SignedIn: the rows and cookies change as the passwords and   *)
(* the browsers signed in do.                                              *)
(***************************************************************************)
EXTENDS AuthSignedIn, OrderingProofs, TLAPS

USE AccountsAssumption, HashAssumption, VersionAssumption, FailuresAssumption,
    AttemptsAssumption, NamesAssumption, NoRowAssumption

-----------------------------------------------------------------------------
(* The inductive invariant.                                                *)

\* Ids and accounts are numbers that have been given out.
GivenOut ==
    /\ Present \subseteq 1 .. accounts
    /\ \A id \in Present : users[id].account <= accounts
    /\ \A c \in cookies : c.account <= accounts

\* Only the account called admin is an administrator's.
OneAdmin == \A id \in Present : users[id].admin => users[id].name = Admin

\* What a request goes on with after it has looked: a name of which every row
\* is in lower case, a row of an administrator, which is never deleted, or a
\* row of a teacher, which may be gone.
Right(q) ==
    /\ q.op # "none" => q.browser \in Browsers
    /\ q.op = "register" /\ q.pc = "checked" =>
          Called(q.name) = CalledExactly(q.name)
    /\ q.op \in {"login", "change"} => Exists(q.id) /\ users[q.id].admin
    /\ q.op \in {"reset", "delete"} /\ q.pc = "loaded" =>
          (Exists(q.id) => ~users[q.id].admin)
LooksRight == \A r \in Requests : Right(req[r])

\* No cookie is ahead of its account's row, and one that is level with it knows
\* the password.
Ahead(c) == Exists(c.id) /\ users[c.id].account = c.account =>
    /\ c.version <= users[c.id].version
    /\ c.version = users[c.id].version => c.hash = users[c.id].hash
NoneAhead == \A c \in cookies : Ahead(c)

\* Failures are those of the administrator.
Cap(n) == IF n < SoftCap THEN n ELSE SoftCap
Counted ==
    /\ CountsFailures
    /\ (\A id \in Present : ~users[id].admin) => failures = 0

IInv == TypeOK /\ GivenOut /\ OneAdmin /\ LooksRight /\ NoneAhead /\ Counted

-----------------------------------------------------------------------------
(* Facts about rows.                                                       *)

LEMMA Bounds ==
    /\ Ids = 1 .. MaxAccounts /\ MaxAccounts \in Nat
    /\ SoftCap \in Nat /\ MaxHash \in Nat /\ MaxVersion \in Nat
BY DEF Ids, SoftCap

\* As long as fewer accounts were created than the bound, the next id is free.
LEMMA NextIdFree ==
    ASSUME TypeOK, GivenOut, accounts < MaxAccounts
    PROVE  /\ NextId \in 1 .. accounts + 1 /\ NextId \in Ids /\ ~Exists(NextId)
           /\ ~IdsReturn => NextId = accounts + 1
<1>1. accounts \in Nat /\ MaxAccounts \in Nat /\ Present \subseteq 1 .. accounts
  BY DEF TypeOK, GivenOut
<1>0. CASE ~IdsReturn
  <2>1. NextId = accounts + 1
    BY <1>0 DEF NextId
  <2>2. NextId \in Ids /\ NextId \in 1 .. accounts + 1 /\ NextId \notin 1 .. accounts
    BY <1>1, <2>1, Bounds
  <2>3. QED
    BY <1>0, <1>1, <2>1, <2>2 DEF Present
<1>2. CASE IdsReturn /\ Present = {}
  <2>1. NextId = 1
    BY <1>2 DEF NextId
  <2>2. NextId \in Ids /\ NextId \in 1 .. accounts + 1
    BY <1>1, <2>1, Bounds
  <2>3. QED
    BY <1>2, <2>2 DEF Present
<1>3. CASE IdsReturn /\ Present # {}
  <2> DEFINE p == Max(Present)
  <2>1. IsFiniteSet(Present) /\ Present \in SUBSET Int
    <3>1. IsFiniteSet(1 .. accounts) /\ (1 .. accounts) \subseteq Int
      BY <1>1, FS_Interval
    <3>2. IsFiniteSet(Present)
      BY <1>1, <3>1, FS_Subset
    <3>3. QED
      BY <1>1, <3>1, <3>2
  <2>2. p \in Present /\ \A y \in Present : y <= p
    BY <1>3, <2>1, MaxOfFinite
  <2>3. NextId = p + 1
    BY <1>3 DEF NextId
  <2> HIDE DEF p
  <2>4. p \in 1 .. accounts /\ \A y \in Present : y \in Int
    BY <1>1, <2>1, <2>2
  <2>5. NextId \notin Present
    BY <2>2, <2>3, <2>4
  <2>6. NextId \in Ids /\ NextId \in 1 .. accounts + 1
    BY <1>1, <2>3, <2>4, Bounds
  <2>7. QED
    BY <1>3, <2>5, <2>6 DEF Present
<1>4. QED
  BY <1>0, <1>2, <1>3

LEMMA NewPasswordFacts ==
    ASSUME NEW row \in Row, NEW version \in Versions, row.hash < MaxHash
    PROVE  LET new == NewPassword(row, version)
           IN  /\ new \in Row /\ new # NoRow
               /\ new.name = row.name /\ new.lower = row.lower
               /\ new.admin = row.admin /\ new.account = row.account
               /\ new.fails = 0 /\ new.version = version
               /\ new.hash = row.hash + 1
<1>1. row.hash + 1 \in Hashes /\ 0 \in 0 .. SoftCap
  BY Bounds DEF Row, Hashes
<1>2. NewPassword(row, version) \in Row
  BY <1>1 DEF NewPassword, Row
<1>3. QED
  BY <1>2 DEF NewPassword, Row

LEMMA CookieForFacts ==
    ASSUME TypeOK, NEW id \in Ids, Exists(id), NEW b \in Browsers
    PROVE  LET c == CookieFor(id, b)
           IN  /\ c \in Cookie
               /\ c.id = id /\ c.version = users[id].version
               /\ c.account = users[id].account /\ c.hash = users[id].hash
<1>1. users[id] \in Row
  BY DEF TypeOK, Exists
<1>2. QED
  BY <1>1 DEF CookieFor, Cookie, Row

-----------------------------------------------------------------------------
(* The steps by their effect.                                              *)

\* Rows stay as they are.
Stays == users' = users /\ accounts' = accounts /\ failures' = failures

\* One row is written: it stays that of its account, its version is not
\* lowered, and is raised with a new password.
Writes(id, row) ==
    /\ id \in Ids /\ Exists(id) /\ row \in Row
    /\ users' = [users EXCEPT ![id] = row]
    /\ row.name = users[id].name /\ row.lower = users[id].lower
    /\ row.admin = users[id].admin /\ row.account = users[id].account
    /\ row.version >= users[id].version
    /\ row.version = users[id].version => row.hash = users[id].hash
    /\ accounts' = accounts
    /\ row.admin => row.fails = Cap(failures')
    /\ ~row.admin => failures' = failures

\* The row of a new account is added: that of an administrator by a start.
Adds(id, row) ==
    /\ id \in Ids /\ id \in 1 .. accounts + 1 /\ ~Exists(id) /\ row \in Row
    /\ ~IdsReturn => id = accounts + 1
    /\ users' = [users EXCEPT ![id] = row]
    /\ accounts' = accounts + 1 /\ accounts' \in 0 .. MaxAccounts
    /\ row.account = accounts' /\ row.lower /\ row.fails = 0
    /\ Called(row.name) = {}
    /\ row.admin => row.name = Admin /\ \A r \in Requests : req'[r] = Idle
    /\ failures' = failures

\* A row that is no administrator's is removed, if it is there.
Drops(id) ==
    /\ id \in Ids /\ (Exists(id) => ~users[id].admin)
    /\ users' = [users EXCEPT ![id] = NoRow]
    /\ accounts' = accounts /\ failures' = failures

RowsEffect ==
    \/ Stays
    \/ \E id, row : Writes(id, row)
    \/ \E id, row : Adds(id, row)
    \/ \E id : Drops(id)

\* A new cookie is that of a row.
Fresh(c) ==
    /\ c \in Cookie /\ Exists(c.id)
    /\ c.account = users[c.id].account
    /\ c.version = users[c.id].version /\ c.hash = users[c.id].hash

CookiesEffect == \A c \in cookies' : c \in cookies \/ Fresh(c)'

\* A request goes on with what is right in the state before the step.
RequestsEffect ==
    req' \in [Requests -> Request] /\ \A r \in Requests : Right(req'[r])

Effect == RowsEffect /\ CookiesEffect /\ RequestsEffect /\ failures' \in Nat

-----------------------------------------------------------------------------
(* Each part of the invariant is kept by every effect.                     *)

\* What a written row changes.
LEMMA Others ==
    ASSUME TypeOK, NEW id \in Ids, NEW row, users' = [users EXCEPT ![id] = row]
    PROVE  users'[id] = row /\ \A i \in Ids : i # id => users'[i] = users[i]
BY DEF TypeOK

LEMMA TypeKept == IInv /\ Effect => TypeOK'
<1> SUFFICES ASSUME IInv, Effect
             PROVE  TypeOK'
  OBVIOUS
<1>1. TypeOK /\ NamesDistinct /\ accounts \in 0 .. MaxAccounts
  BY DEF IInv, TypeOK
<1>2. cookies' \subseteq Cookie /\ req' \in [Requests -> Request] /\ failures' \in Nat
  BY <1>1 DEF Effect, CookiesEffect, RequestsEffect, Fresh, TypeOK
<1>3. /\ users' \in [Ids -> Row \cup {NoRow}]
      /\ accounts' \in 0 .. MaxAccounts /\ NamesDistinct'
  <2>1. CASE Stays
    BY <1>1, <2>1 DEF Stays, TypeOK, NamesDistinct, Present, Exists
  <2>2. ASSUME NEW id, NEW row, Writes(id, row)
        PROVE  /\ users' \in [Ids -> Row \cup {NoRow}]
               /\ accounts' \in 0 .. MaxAccounts /\ NamesDistinct'
    <3>1. users' \in [Ids -> Row \cup {NoRow}] /\ accounts' \in 0 .. MaxAccounts
      BY <1>1, <2>2 DEF Writes, TypeOK
    <3>2. Present' \subseteq Present /\ \A i \in Present' : users'[i].name = users[i].name
      BY <1>1, <2>2, Others DEF Writes, Present, Exists
    <3>3. QED
      BY <1>1, <3>1, <3>2 DEF NamesDistinct
  <2>3. ASSUME NEW id, NEW row, Adds(id, row)
        PROVE  /\ users' \in [Ids -> Row \cup {NoRow}]
               /\ accounts' \in 0 .. MaxAccounts /\ NamesDistinct'
    <3>1. users' \in [Ids -> Row \cup {NoRow}] /\ accounts' \in 0 .. MaxAccounts
      BY <1>1, <2>3 DEF Adds, TypeOK
    <3>2. /\ users'[id] = row
          /\ \A i \in Present' : i # id => i \in Present /\ users'[i] = users[i]
      <4>1. users'[id] = row /\ \A i \in Ids : i # id => users'[i] = users[i]
        BY <1>1, <2>3, Others DEF Adds
      <4>2. QED
        BY <4>1 DEF Present, Exists
    <3>3. \A i \in Present : users[i].name # row.name
      BY <2>3 DEF Adds, Called
    <3>4. QED
      BY <1>1, <3>1, <3>2, <3>3 DEF NamesDistinct
  <2>4. ASSUME NEW id, Drops(id)
        PROVE  /\ users' \in [Ids -> Row \cup {NoRow}]
               /\ accounts' \in 0 .. MaxAccounts /\ NamesDistinct'
    <3>1. users' \in [Ids -> Row \cup {NoRow}] /\ accounts' \in 0 .. MaxAccounts
      BY <1>1, <2>4 DEF Drops, TypeOK
    <3>2. \A i \in Present' : i \in Present /\ users'[i] = users[i]
      BY <1>1, <2>4, Others DEF Drops, Present, Exists
    <3>3. QED
      BY <1>1, <3>1, <3>2 DEF NamesDistinct
  <2>5. QED
    BY <2>1, <2>2, <2>3, <2>4 DEF Effect, RowsEffect
<1>4. QED
  BY <1>2, <1>3 DEF TypeOK

LEMMA RowsKept == IInv /\ Effect => GivenOut' /\ OneAdmin'
<1> SUFFICES ASSUME IInv, Effect
             PROVE  GivenOut' /\ OneAdmin'
  OBVIOUS
<1>1. TypeOK /\ GivenOut /\ OneAdmin /\ accounts \in Nat
  BY DEF IInv, TypeOK
<1>2. accounts' \in Nat /\ accounts <= accounts'
  BY <1>1 DEF Effect, RowsEffect, Stays, Writes, Adds, Drops
<1>3. \A i \in Present' : /\ i \in 1 .. accounts'
                          /\ users'[i].account <= accounts'
                          /\ users'[i].admin => users'[i].name = Admin
  <2>0. \A i \in Present : /\ i \in 1 .. accounts' /\ users[i] \in Row
                           /\ users[i].account <= accounts'
    <3>1. \A i \in Present : users[i] \in Row /\ users[i].account \in Nat
                             /\ i \in 1 .. accounts /\ users[i].account <= accounts
      BY <1>1, Bounds DEF GivenOut, Present, Exists, TypeOK, Row, Accounts
    <3>2. QED
      BY <1>1, <1>2, <3>1
  <2>1. CASE Stays
    BY <1>1, <2>0, <2>1 DEF Stays, OneAdmin, Present, Exists
  <2>2. ASSUME NEW id, NEW row, Writes(id, row), NEW i \in Present'
        PROVE  /\ i \in 1 .. accounts'
               /\ users'[i].account <= accounts'
               /\ users'[i].admin => users'[i].name = Admin
    <3>1. i \in Present /\ users'[i].name = users[i].name
          /\ users'[i].admin = users[i].admin /\ users'[i].account = users[i].account
      BY <1>1, <2>2, Others DEF Writes, Present, Exists
    <3>2. QED
      BY <1>1, <2>0, <3>1 DEF OneAdmin
  <2>3. ASSUME NEW id, NEW row, Adds(id, row), NEW i \in Present'
        PROVE  /\ i \in 1 .. accounts'
               /\ users'[i].account <= accounts'
               /\ users'[i].admin => users'[i].name = Admin
    <3>1. CASE i = id
      <4>1. users'[i] = row
        <5>1. users'[id] = row
          BY <1>1, <2>3, Others DEF Adds
        <5>2. QED
          BY <3>1, <5>1
      <4>2. /\ row.account = accounts' /\ accounts' = accounts + 1 /\ i \in 1 .. accounts + 1
            /\ row.admin => row.name = Admin
        BY <2>3, <3>1 DEF Adds
      <4>3. QED
        BY <1>2, <4>1, <4>2
    <3>2. CASE i # id
      <4>1. i \in Present /\ users'[i] = users[i]
        BY <1>1, <2>3, <3>2, Others DEF Adds, Present, Exists
      <4>2. QED
        BY <1>1, <2>0, <4>1 DEF OneAdmin
    <3>3. QED
      BY <3>1, <3>2
  <2>4. ASSUME NEW id, Drops(id), NEW i \in Present'
        PROVE  /\ i \in 1 .. accounts'
               /\ users'[i].account <= accounts'
               /\ users'[i].admin => users'[i].name = Admin
    <3>1. i \in Present /\ users'[i] = users[i]
      BY <1>1, <2>4, Others DEF Drops, Present, Exists
    <3>2. QED
      BY <1>1, <2>0, <3>1 DEF OneAdmin
  <2>5. QED
    BY <2>1, <2>2, <2>3, <2>4 DEF Effect, RowsEffect
<1>4. \A c \in cookies' : c.account <= accounts'
  <2> SUFFICES ASSUME NEW c \in cookies'
               PROVE  c.account <= accounts'
    OBVIOUS
  <2>1. CASE c \in cookies
    <3>1. c.account \in Nat /\ c.account <= accounts
      BY <1>1, <2>1, Bounds DEF TypeOK, Cookie, Accounts, GivenOut
    <3>2. QED
      BY <1>1, <1>2, <3>1
  <2>2. CASE Fresh(c)'
    <3>1. c.id \in Present'
      BY <2>2 DEF Fresh, Cookie, Present
    <3>2. QED
      BY <1>3, <2>2, <3>1 DEF Fresh
  <2>3. QED
    BY <2>1, <2>2 DEF Effect, CookiesEffect
<1>5. QED
  BY <1>3, <1>4 DEF GivenOut, OneAdmin

LEMMA RightKept ==
    ASSUME TypeOK, RowsEffect, NEW r \in Requests, NEW q \in Request, q = req'[r], Right(q)
    PROVE  Right(q)'
<1>1. TypeOK /\ Right(q)
  OBVIOUS
<1>2. q.id \in Ids
  BY <1>1 DEF Request
<1>3. CASE Stays
  BY <1>1, <1>3 DEF Stays, Right, Called, CalledExactly, Present, Exists
<1>4. ASSUME NEW id, NEW row, Writes(id, row)
      PROVE  Right(q)'
  <2>1. \A i \in Ids : /\ Exists(i)' <=> Exists(i)
                       /\ users'[i].admin = users[i].admin
                       /\ users'[i].name = users[i].name
                       /\ users'[i].lower = users[i].lower
    BY <1>1, <1>4, NoRowAssumption, Others DEF Writes, Exists
  <2>2. Called(q.name)' = Called(q.name) /\ CalledExactly(q.name)' = CalledExactly(q.name)
    BY <2>1 DEF Called, CalledExactly, Present
  <2>3. QED
    BY <1>1, <1>2, <2>1, <2>2 DEF Right
<1>5. ASSUME NEW id, NEW row, Adds(id, row)
      PROVE  Right(q)'
  <2>1. /\ users'[id] = row /\ row # NoRow /\ id \in Ids /\ ~Exists(id) /\ row.lower
        /\ \A i \in Ids : i # id => users'[i] = users[i]
    BY <1>1, <1>5, NoRowAssumption, Others DEF Adds
  <2>2. CASE q = Idle
    BY <2>2 DEF Right, Idle
  <2>3. CASE ~row.admin
    <3>1. ASSUME q.op = "register", q.pc = "checked"
          PROVE  Called(q.name)' = CalledExactly(q.name)'
      <4>1. \A i \in Called(q.name) : users[i].lower
        BY <1>1, <3>1 DEF Right, CalledExactly
      <4>2. \A i \in Called(q.name)' : users'[i].lower
        BY <2>1, <4>1 DEF Called, Present, Exists
      <4>3. QED
        BY <4>2 DEF CalledExactly
    <3>2. ASSUME q.op \in {"login", "change"}
          PROVE  Exists(q.id)' /\ users'[q.id].admin
      <4>1. Exists(q.id) /\ users[q.id].admin
        BY <1>1, <3>2 DEF Right
      <4>2. QED
        BY <1>2, <2>1, <4>1 DEF Exists
    <3>3. ASSUME q.op \in {"reset", "delete"}, q.pc = "loaded"
          PROVE  Exists(q.id)' => ~users'[q.id].admin
      <4>1. Exists(q.id) => ~users[q.id].admin
        BY <1>1, <3>3 DEF Right
      <4>2. QED
        BY <1>2, <2>1, <2>3, <4>1 DEF Exists
    <3>4. QED
      BY <3>1, <3>2, <3>3 DEF Right
  <2>4. QED
    BY <1>5, <2>2, <2>3 DEF Adds
<1>6. ASSUME NEW id, Drops(id)
      PROVE  Right(q)'
  <2>1. /\ users'[id] = NoRow /\ (Exists(id) => ~users[id].admin)
        /\ \A i \in Ids : i # id => users'[i] = users[i]
    BY <1>1, <1>6, Others DEF Drops
  <2>2. ASSUME q.op = "register", q.pc = "checked"
        PROVE  Called(q.name)' = CalledExactly(q.name)'
    <3>1. \A i \in Called(q.name) : users[i].lower
      BY <1>1, <2>2 DEF Right, CalledExactly
    <3>2. \A i \in Called(q.name)' : users'[i].lower
      BY <2>1, <3>1 DEF Called, Present, Exists
    <3>3. QED
      BY <3>2 DEF CalledExactly
  <2>3. ASSUME q.op \in {"login", "change"}
        PROVE  Exists(q.id)' /\ users'[q.id].admin
    <3>1. Exists(q.id) /\ users[q.id].admin
      BY <1>1, <2>3 DEF Right
    <3>2. QED
      BY <1>2, <2>1, <3>1 DEF Exists
  <2>4. ASSUME q.op \in {"reset", "delete"}, q.pc = "loaded"
        PROVE  Exists(q.id)' => ~users'[q.id].admin
    <3>1. Exists(q.id) => ~users[q.id].admin
      BY <1>1, <2>4 DEF Right
    <3>2. QED
      BY <1>2, <2>1, <3>1 DEF Exists
  <2>5. QED
    BY <2>2, <2>3, <2>4 DEF Right
<1>7. QED
  BY <1>3, <1>4, <1>5, <1>6 DEF RowsEffect

LEMMA RequestsKept == IInv /\ Effect => LooksRight'
<1> SUFFICES ASSUME IInv, Effect, NEW r \in Requests
             PROVE  Right(req[r])'
  BY DEF LooksRight
<1>1. PICK q \in Request : q = req'[r] /\ Right(q)
  BY DEF Effect, RequestsEffect
<1>2. Right(q)'
  BY <1>1, RightKept DEF IInv, Effect
<1>3. QED
  BY <1>1, <1>2 DEF Right, Called, CalledExactly, Present, Exists

LEMMA CookiesKept == IInv /\ Effect => NoneAhead'
<1> SUFFICES ASSUME IInv, Effect, NEW c \in cookies'
             PROVE  Ahead(c)'
  BY DEF NoneAhead
<1>1. TypeOK /\ GivenOut /\ accounts \in Nat
  BY DEF IInv, TypeOK
<1>2. CASE Fresh(c)'
  <2>1. c.version \in Nat
    BY <1>2, Bounds DEF Fresh, Cookie, Versions
  <2>2. QED
    BY <1>2, <2>1 DEF Fresh, Ahead
<1>3. CASE c \in cookies
  <2>1. /\ c.id \in Ids /\ c.version \in Nat /\ c.account \in Nat
        /\ c.account <= accounts /\ Ahead(c)
    BY <1>1, <1>3, Bounds DEF IInv, TypeOK, Cookie, Versions, Accounts, GivenOut, NoneAhead
  <2>2. CASE Stays
    BY <2>1, <2>2 DEF Stays, Ahead, Exists
  <2>3. ASSUME NEW id, NEW row, Writes(id, row)
        PROVE  Ahead(c)'
    <3>1. CASE c.id = id
      <4>1. /\ users'[id] = row /\ Exists(id) /\ row.account = users[id].account
            /\ row.version >= users[id].version
            /\ row.version = users[id].version => row.hash = users[id].hash
            /\ row.version \in Nat /\ users[id].version \in Nat
        BY <1>1, <2>3, Bounds, Others DEF Writes, TypeOK, Row, Versions, Exists
      <4>2. QED
        BY <2>1, <3>1, <4>1 DEF Ahead
    <3>2. CASE c.id # id
      <4>1. users'[c.id] = users[c.id]
        BY <1>1, <2>1, <2>3, <3>2, Others DEF Writes
      <4>2. QED
        BY <2>1, <4>1 DEF Ahead, Exists
    <3>3. QED
      BY <3>1, <3>2
  <2>4. ASSUME NEW id, NEW row, Adds(id, row)
        PROVE  Ahead(c)'
    <3>1. CASE c.id = id
      <4>1. users'[id].account = accounts + 1
        BY <1>1, <2>4, Others DEF Adds
      <4>2. c.account # accounts + 1
        BY <1>1, <2>1
      <4>3. QED
        BY <3>1, <4>1, <4>2 DEF Ahead
    <3>2. CASE c.id # id
      <4>1. users'[c.id] = users[c.id]
        BY <1>1, <2>1, <2>4, <3>2, Others DEF Adds
      <4>2. QED
        BY <2>1, <4>1 DEF Ahead, Exists
    <3>3. QED
      BY <3>1, <3>2
  <2>5. ASSUME NEW id, Drops(id)
        PROVE  Ahead(c)'
    <3>1. CASE c.id = id
      BY <1>1, <2>5, <3>1, Others DEF Drops, Ahead, Exists
    <3>2. CASE c.id # id
      <4>1. users'[c.id] = users[c.id]
        BY <1>1, <2>1, <2>5, <3>2, Others DEF Drops
      <4>2. QED
        BY <2>1, <4>1 DEF Ahead, Exists
    <3>3. QED
      BY <3>1, <3>2
  <2>6. QED
    BY <2>2, <2>3, <2>4, <2>5 DEF Effect, RowsEffect
<1>4. QED
  BY <1>2, <1>3 DEF Effect, CookiesEffect

LEMMA CountKept == IInv /\ Effect => Counted'
<1> SUFFICES ASSUME IInv, Effect
             PROVE  Counted'
  OBVIOUS
<1>1. /\ TypeOK /\ OneAdmin /\ NamesDistinct
      /\ \A i \in Present : users[i].admin => users[i].fails = Cap(failures)
      /\ (\A i \in Present : ~users[i].admin) => failures = 0
  BY DEF IInv, TypeOK, Counted, CountsFailures, Cap
<1>2. SUFFICES /\ \A i \in Present' : users'[i].admin => users'[i].fails = Cap(failures')
               /\ (\A i \in Present' : ~users'[i].admin) => failures' = 0
  BY DEF Counted, CountsFailures, Cap
<1>3. CASE Stays
  BY <1>1, <1>3 DEF Stays, Present, Exists
<1>4. ASSUME NEW id, NEW row, Writes(id, row)
      PROVE  /\ \A i \in Present' : users'[i].admin => users'[i].fails = Cap(failures')
             /\ (\A i \in Present' : ~users'[i].admin) => failures' = 0
  <2>1. /\ users'[id] = row /\ id \in Present /\ row.admin = users[id].admin
        /\ Present' = Present /\ \A i \in Present : i # id => users'[i] = users[i]
    <3>1. /\ users'[id] = row /\ row # NoRow /\ id \in Ids /\ Exists(id)
          /\ \A i \in Ids : i # id => users'[i] = users[i]
      BY <1>1, <1>4, NoRowAssumption, Others DEF Writes
    <3>2. \A i \in Ids : Exists(i)' <=> Exists(i)
      BY <3>1 DEF Exists
    <3>3. row.admin = users[id].admin
      BY <1>4 DEF Writes
    <3>4. QED
      BY <3>1, <3>2, <3>3 DEF Present
  <2>2. CASE row.admin
    <3>1. \A i \in Present : i # id => ~users[i].admin
      <4>1. id \in Present /\ users[id].name = Admin
        BY <1>1, <2>1, <2>2 DEF OneAdmin
      <4>2. QED
        BY <1>1, <4>1 DEF OneAdmin, NamesDistinct
    <3>2. row.fails = Cap(failures')
      BY <1>4, <2>2 DEF Writes
    <3>3. QED
      BY <2>1, <2>2, <3>1, <3>2
  <2>3. CASE ~row.admin
    <3>1. failures' = failures
      BY <1>4, <2>3 DEF Writes
    <3>2. \A i \in Present : /\ users'[i].admin = users[i].admin
                             /\ users[i].admin => users'[i] = users[i]
      BY <2>1, <2>3
    <3>3. QED
      BY <1>1, <2>1, <3>1, <3>2
  <2>4. QED
    BY <2>2, <2>3
<1>5. ASSUME NEW id, NEW row, Adds(id, row)
      PROVE  /\ \A i \in Present' : users'[i].admin => users'[i].fails = Cap(failures')
             /\ (\A i \in Present' : ~users'[i].admin) => failures' = 0
  <2>1. /\ users'[id] = row /\ id \in Present' /\ id \notin Present
        /\ Present' = Present \cup {id} /\ \A i \in Present : users'[i] = users[i]
        /\ failures' = failures /\ row.fails = 0
    <3>1. /\ users'[id] = row /\ row # NoRow /\ id \in Ids /\ ~Exists(id)
          /\ \A i \in Ids : i # id => users'[i] = users[i]
      BY <1>1, <1>5, NoRowAssumption, Others DEF Adds
    <3>2. \A i \in Ids : Exists(i)' <=> Exists(i) \/ i = id
      BY <3>1 DEF Exists
    <3>3. failures' = failures /\ row.fails = 0
      BY <1>5 DEF Adds
    <3>4. QED
      BY <3>1, <3>2, <3>3 DEF Present, Exists
  <2>2. CASE row.admin
    <3>1. \A i \in Present : ~users[i].admin
      BY <1>1, <1>5, <2>2 DEF Adds, Called, OneAdmin
    <3>2. failures = 0 /\ Cap(0) = 0
      BY <1>1, <3>1, Bounds DEF Cap
    <3>3. QED
      BY <2>1, <2>2, <3>1, <3>2
  <2>3. CASE ~row.admin
    BY <1>1, <2>1, <2>3
  <2>4. QED
    BY <2>2, <2>3
<1>6. ASSUME NEW id, Drops(id)
      PROVE  /\ \A i \in Present' : users'[i].admin => users'[i].fails = Cap(failures')
             /\ (\A i \in Present' : ~users'[i].admin) => failures' = 0
  <2>1. /\ failures' = failures
        /\ \A i \in Present' : i \in Present /\ users'[i] = users[i]
        /\ \A i \in Present : i \in Present' \/ ~users[i].admin
    BY <1>1, <1>6, Others DEF Drops, Present, Exists
  <2>2. QED
    BY <1>1, <2>1
<1>7. QED
  BY <1>3, <1>4, <1>5, <1>6 DEF Effect, RowsEffect

-----------------------------------------------------------------------------
(* Every step has such an effect.                                          *)

\* The form of the rows and requests that steps write.
LEMMA Forms ==
    /\ Idle \in Request /\ Right(Idle)
    /\ \A row \in Row : /\ row.hash \in Hashes /\ row.version \in Versions
                        /\ row.fails \in 0 .. SoftCap /\ row # NoRow
    /\ \A c \in Cookie : c.id \in Ids /\ c.browser \in Browsers
                         /\ c.version \in Versions
    /\ \A q \in Request : /\ q.id \in Ids /\ q.name \in Names \cup {Admin}
                          /\ q.version \in Versions /\ q.hash \in Hashes
<1>1. 1 \in Ids /\ 0 \in Hashes /\ 0 \in Versions
  BY Bounds DEF Hashes, Versions
<1>2. Idle \in Request
  BY <1>1 DEF Idle, Request
<1>3. Right(Idle)
  BY DEF Right, Idle
<1>4. QED
  BY <1>2, <1>3, NoRowAssumption DEF Row, Cookie, Request

\* Requests: one goes on with q, or ends.
LEMMA OneGoes ==
    ASSUME IInv, NEW r \in Requests, NEW q \in Request, Right(q),
           req' = [req EXCEPT ![r] = q]
    PROVE  RequestsEffect
<1>1. req \in [Requests -> Request] /\ \A x \in Requests : Right(req[x])
  BY DEF IInv, TypeOK, LooksRight
<1>2. req' \in [Requests -> Request]
  BY <1>1
<1>3. \A x \in Requests : req'[x] = q \/ req'[x] = req[x]
  BY <1>1
<1>4. \A x \in Requests : Right(req'[x])
  BY <1>1, <1>3 DEF Right
<1>5. QED
  BY <1>2, <1>4 DEF RequestsEffect

LEMMA NoneGoes ==
    ASSUME IInv, req' = req
    PROVE  RequestsEffect
BY DEF IInv, TypeOK, LooksRight, RequestsEffect

\* Cookies: those of before, and perhaps that of a row.
LEMMA OneCookie ==
    ASSUME NEW c, c \in Cookie, Fresh(c)', cookies' \subseteq cookies \cup {c}
    PROVE  CookiesEffect
BY DEF CookiesEffect

LEMMA NoCookie ==
    ASSUME cookies' = cookies
    PROVE  CookiesEffect
BY DEF CookiesEffect

\* A row with only its lock changed is written.
LEMMA Locks ==
    ASSUME IInv, NEW id \in Ids, Exists(id), NEW row \in Row,
           users' = [users EXCEPT ![id] = row],
           row.name = users[id].name, row.lower = users[id].lower,
           row.admin = users[id].admin, row.account = users[id].account,
           row.version = users[id].version, row.hash = users[id].hash,
           accounts' = accounts,
           \/ row.fails = users[id].fails /\ failures' = failures
           \/ row.admin /\ row.fails = Cap(failures')
    PROVE  RowsEffect
<1>1. users[id].version \in Nat
  BY Bounds DEF IInv, TypeOK, Exists, Row, Versions
<1>2. users[id].admin => users[id].fails = Cap(failures)
  BY DEF IInv, Counted, CountsFailures, Cap, Present
<1>3. Writes(id, row)
  BY <1>1, <1>2 DEF Writes
<1>4. QED
  BY <1>3 DEF RowsEffect

-----------------------------------------------------------------------------
(* Registration.                                                           *)

LEMMA RegisterCheckEffect ==
    ASSUME IInv, NEW r \in Requests, NEW b \in Browsers, NEW name \in Names,
           RegisterCheck(r, b, name)
    PROVE  Effect
<1> DEFINE q == [Idle EXCEPT !.op = "register", !.pc = "checked",
                             !.browser = b, !.name = name]
<1>1. q \in Request /\ q.op = "register" /\ q.name = name /\ q.browser = b
  BY Forms DEF Request, Idle
<1>2. Right(q)
  BY <1>1 DEF RegisterCheck, Taken, Right, CalledExactly
<1>3. RequestsEffect
  <2> HIDE DEF q
  <2>1. req' = [req EXCEPT ![r] = q]
    BY DEF RegisterCheck, q
  <2>2. QED
    BY <1>1, <1>2, <2>1, OneGoes
<1>4. RowsEffect /\ CookiesEffect
  BY NoCookie DEF RegisterCheck, RowsEffect, Stays
<1>5. QED
  BY <1>3, <1>4 DEF Effect, IInv, TypeOK, RegisterCheck

LEMMA RegisterInsertEffect ==
    ASSUME IInv, NEW r \in Requests, RegisterInsert(r)
    PROVE  Effect
<1>1. /\ TypeOK /\ GivenOut /\ failures \in Nat /\ req \in [Requests -> Request]
      /\ req[r] \in Request /\ Right(req[r]) /\ accounts \in 0 .. MaxAccounts
      /\ accounts \in Nat
  BY DEF IInv, TypeOK, LooksRight
<1>2. CookiesEffect /\ failures' \in Nat /\ failures' = failures
  BY <1>1, NoCookie DEF RegisterInsert
<1>3. CASE Ends(r) /\ UNCHANGED <<users, accounts>>
  <2>1. RequestsEffect
    BY <1>3, Forms, OneGoes DEF Ends
  <2>2. QED
    BY <1>2, <1>3, <2>1 DEF Effect, RowsEffect, Stays
<1>4. CASE /\ CalledExactly(req[r].name) = {}
           /\ accounts < MaxAccounts
           /\ users' = [users EXCEPT ![NextId] =
                            NewRow(accounts + 1, req[r].name, FALSE, 1)]
           /\ req' = [req EXCEPT ![r].pc = "inserted", ![r].id = NextId]
           /\ accounts' = accounts + 1
  <2> DEFINE q == [req[r] EXCEPT !.pc = "inserted", !.id = NextId]
             row == NewRow(accounts + 1, req[r].name, FALSE, 1)
  <2>1. /\ NextId \in 1 .. accounts + 1 /\ NextId \in Ids /\ ~Exists(NextId)
        /\ ~IdsReturn => NextId = accounts + 1
    BY <1>1, <1>4, NextIdFree
  <2>2. q \in Request /\ q.op = "register" /\ q.pc = "inserted" /\ q.browser \in Browsers
    BY <1>1, <2>1 DEF Request, RegisterInsert, At, Right
  <2>3. RequestsEffect
    <3>1. Right(q)
      BY <2>2 DEF Right
    <3>2. req' = [req EXCEPT ![r] = q]
      BY <1>1, <1>4
    <3> HIDE DEF q
    <3>3. QED
      BY <2>2, <3>1, <3>2, OneGoes
  <2>4. accounts + 1 \in Accounts /\ req[r].name \in Names \cup {Admin}
    BY <1>1, <1>4, Forms, Bounds DEF Accounts
  <2>5. /\ row \in Row /\ row.name = req[r].name /\ row.lower /\ ~row.admin
        /\ row.account = accounts + 1 /\ row.fails = 0
    BY <2>4, Bounds DEF NewRow, Row, Hashes, Versions
  <2>6. Called(row.name) = {}
    BY <1>1, <1>4, <2>5 DEF Right, RegisterInsert, At
  <2>7. Adds(NextId, row)
    <3> HIDE DEF row
    <3>1. users' = [users EXCEPT ![NextId] = row]
      BY <1>4 DEF row
    <3>2. accounts' \in 0 .. MaxAccounts
      BY <1>1, <1>4, Bounds
    <3>3. QED
      BY <1>2, <1>4, <2>1, <2>5, <2>6, <3>1, <3>2 DEF Adds
  <2>8. QED
    BY <1>2, <2>3, <2>7 DEF Effect, RowsEffect
<1>5. QED
  BY <1>3, <1>4 DEF RegisterInsert

\* A step that changes no row, ends the request and gives a cookie.
LEMMA EnterEffect ==
    ASSUME IInv, NEW r \in Requests, Ends(r), UNCHANGED <<users, accounts, failures>>,
           NEW id \in Ids, NEW b \in Browsers, Exists(id),
           cookies' = cookies \cup {CookieFor(id, b)}
    PROVE  Effect
<1>1. RequestsEffect
  BY Forms, OneGoes DEF Ends
<1>2. CookiesEffect
  <2>1. PICK c \in Cookie :
           /\ c = CookieFor(id, b) /\ c.id = id /\ c.version = users[id].version
           /\ c.account = users[id].account /\ c.hash = users[id].hash
    BY CookieForFacts DEF IInv
  <2>2. Fresh(c)'
    BY <2>1 DEF Fresh, Exists
  <2>3. QED
    BY <2>1, <2>2, OneCookie
<1>3. QED
  BY <1>1, <1>2 DEF Effect, RowsEffect, Stays, IInv, TypeOK

LEMMA RegisterEnterEffect ==
    ASSUME IInv, NEW r \in Requests, RegisterEnter(r)
    PROVE  Effect
<1>1. UNCHANGED <<users, accounts, failures>> /\ Ends(r)
  BY DEF RegisterEnter
<1>2. CASE Exists(req[r].id)
  <2>1. req[r].id \in Ids /\ req[r].browser \in Browsers
    BY Forms DEF IInv, TypeOK, LooksRight, Right, RegisterEnter, At
  <2>2. cookies' = cookies \cup {CookieFor(req[r].id, req[r].browser)}
    BY <1>2 DEF RegisterEnter
  <2>3. QED
    BY <1>1, <1>2, <2>1, <2>2, EnterEffect
<1>3. CASE ~Exists(req[r].id)
  <2>1. CookiesEffect
    BY <1>3, NoCookie DEF RegisterEnter
  <2>2. RequestsEffect
    BY <1>1, Forms, OneGoes DEF Ends
  <2>3. QED
    BY <1>1, <2>1, <2>2 DEF Effect, RowsEffect, Stays, IInv, TypeOK
<1>4. QED
  BY <1>2, <1>3

-----------------------------------------------------------------------------
(* Logins and signing out.                                                 *)

LEMMA LoginUserEffect ==
    ASSUME IInv, NEW b \in Browsers, NEW id \in Ids, NEW hash, LoginUser(b, id, hash)
    PROVE  Effect
<1>1. PICK c \in Cookie :
         /\ c = CookieFor(id, b) /\ c.id = id /\ c.version = users[id].version
         /\ c.account = users[id].account /\ c.hash = users[id].hash
  BY CookieForFacts DEF IInv, LoginUser
<1>2. Fresh(c)'
  BY <1>1 DEF Fresh, Exists, LoginUser
<1>3. CookiesEffect
  BY <1>1, <1>2, OneCookie DEF LoginUser
<1>4. QED
  BY <1>3, NoneGoes DEF LoginUser, Effect, RowsEffect, Stays, IInv, TypeOK

LEMMA LoginAdminEffect ==
    ASSUME IInv, NEW r \in Requests, NEW b \in Browsers, NEW id \in Ids, NEW hash,
           LoginAdmin(r, b, id, hash)
    PROVE  Effect
<1>1. Exists(id) /\ users[id].admin /\ UNCHANGED <<users, accounts, failures>>
  BY DEF LoginAdmin
<1>2. CASE cookies' = cookies \cup {CookieFor(id, b)} /\ UNCHANGED req
  <2>1. PICK c \in Cookie :
           /\ c = CookieFor(id, b) /\ c.id = id /\ c.version = users[id].version
           /\ c.account = users[id].account /\ c.hash = users[id].hash
    BY <1>1, CookieForFacts DEF IInv
  <2>2. Fresh(c)'
    BY <1>1, <2>1 DEF Fresh, Exists
  <2>3. CookiesEffect
    BY <1>2, <2>1, <2>2, OneCookie
  <2>4. QED
    BY <1>1, <1>2, <2>3, NoneGoes DEF Effect, RowsEffect, Stays, IInv, TypeOK
<1>3. CASE UNCHANGED cookies
           /\ \E pc \in {"locked", "clearing", "failing"} :
                 req' = [req EXCEPT ![r] = [Idle EXCEPT !.op = "login", !.pc = pc,
                                                        !.browser = b, !.id = id]]
  <2>1. PICK pc \in {"locked", "clearing", "failing"} :
           req' = [req EXCEPT ![r] = [Idle EXCEPT !.op = "login", !.pc = pc,
                                                  !.browser = b, !.id = id]]
    BY <1>3
  <2> DEFINE q == [Idle EXCEPT !.op = "login", !.pc = pc, !.browser = b, !.id = id]
  <2>2. q \in Request /\ q.op = "login" /\ q.id = id /\ q.browser = b
    BY Forms DEF Request, Idle
  <2>3. Right(q)
    BY <1>1, <2>2 DEF Right
  <2> HIDE DEF q
  <2>4. RequestsEffect
    BY <2>1, <2>2, <2>3, OneGoes DEF q
  <2>5. CookiesEffect
    BY <1>3, NoCookie
  <2>6. QED
    BY <1>1, <2>4, <2>5 DEF Effect, RowsEffect, Stays, IInv, TypeOK
<1>4. QED
  BY <1>2, <1>3 DEF LoginAdmin

\* What a login knows of its row.
LEMMA LoginRow ==
    ASSUME IInv, NEW r \in Requests, req[r].op \in {"login", "change"}
    PROVE  /\ req[r].id \in Ids /\ Exists(req[r].id) /\ req[r].browser \in Browsers
           /\ users[req[r].id] \in Row /\ users[req[r].id].admin
           /\ users[req[r].id].fails = Cap(failures)
<1>1. req[r].id \in Ids /\ Exists(req[r].id) /\ users[req[r].id].admin
      /\ req[r].browser \in Browsers
  BY Forms DEF IInv, TypeOK, LooksRight, Right
<1>2. users[req[r].id] \in Row
  BY <1>1 DEF IInv, TypeOK, Exists
<1>3. users[req[r].id].fails = Cap(failures)
  BY <1>1 DEF IInv, Counted, CountsFailures, Cap, Present
<1>4. QED
  BY <1>1, <1>2, <1>3

LEMMA TouchLockedEffect ==
    ASSUME IInv, NEW r \in Requests, TouchLocked(r)
    PROVE  Effect
<1> DEFINE id == req[r].id
           row == [users[id] EXCEPT !.failedAt = TRUE]
<1>1. /\ id \in Ids /\ Exists(id) /\ users[id] \in Row
      /\ users \in [Ids -> Row \cup {NoRow}]
  BY LoginRow DEF TouchLocked, At, IInv, TypeOK
<1>2. users' = [users EXCEPT ![id] = row]
  BY <1>1 DEF TouchLocked
<1>3. row \in Row /\ row.name = users[id].name /\ row.lower = users[id].lower
      /\ row.admin = users[id].admin /\ row.account = users[id].account
      /\ row.version = users[id].version /\ row.hash = users[id].hash
      /\ row.fails = users[id].fails
  BY <1>1 DEF Row
<1>4. RowsEffect
  <2> HIDE DEF row, id
  <2>1. accounts' = accounts /\ failures' = failures
    BY DEF TouchLocked
  <2>2. QED
    BY <1>1, <1>2, <1>3, <2>1, Locks
<1>5. QED
  BY <1>4, NoCookie, Forms, OneGoes DEF TouchLocked, Ends, Effect, IInv, TypeOK

LEMMA RecordFailedLoginEffect ==
    ASSUME IInv, NEW r \in Requests, RecordFailedLogin(r)
    PROVE  Effect
<1> DEFINE id == req[r].id
           row == [users[id] EXCEPT !.fails = CountedFails(users[id]), !.failedAt = TRUE,
                                    !.locked = IF @ = "passed" THEN "no" ELSE @]
<1>1. /\ id \in Ids /\ Exists(id) /\ users[id] \in Row /\ users[id].admin
      /\ users[id].fails = Cap(failures) /\ failures \in Nat
      /\ users[id].fails \in 0 .. SoftCap
  BY LoginRow, Forms DEF RecordFailedLogin, At, IInv, TypeOK
<1>2. users' = [users EXCEPT ![id] = row]
  BY DEF RecordFailedLogin
<1>3. failures' = IF users[id].locked = "passed" THEN 1 ELSE failures + 1
  BY DEF RecordFailedLogin
<1>4. CountedFails(users[id]) \in 0 .. SoftCap /\ CountedFails(users[id]) = Cap(failures')
  BY <1>1, <1>3, Bounds DEF CountedFails, Cap
<1>5. row \in Row /\ row.name = users[id].name /\ row.lower = users[id].lower
      /\ row.admin = users[id].admin /\ row.account = users[id].account
      /\ row.version = users[id].version /\ row.hash = users[id].hash
      /\ row.fails = Cap(failures')
  BY <1>1, <1>4 DEF Row
<1>6. RowsEffect
  <2> HIDE DEF row, id
  <2>1. accounts' = accounts
    BY DEF RecordFailedLogin
  <2>2. QED
    BY <1>1, <1>2, <1>5, <2>1, Locks
<1>7. failures' \in Nat
  BY <1>1, <1>3
<1>8. QED
  BY <1>6, <1>7, NoCookie, Forms, OneGoes DEF RecordFailedLogin, Ends, Effect

LEMMA ResetLoginCounterEffect ==
    ASSUME IInv, NEW r \in Requests, ResetLoginCounter(r)
    PROVE  Effect
<1> DEFINE id == req[r].id
           row == [users[id] EXCEPT !.fails = 0, !.locked = "no", !.failedAt = FALSE]
           q == [req[r] EXCEPT !.pc = "cleared"]
<1>1. /\ id \in Ids /\ Exists(id) /\ users[id] \in Row /\ users[id].admin
      /\ users \in [Ids -> Row \cup {NoRow}]
      /\ req[r] \in Request /\ Right(req[r]) /\ req[r].op = "login"
      /\ req \in [Requests -> Request]
  BY LoginRow DEF ResetLoginCounter, At, IInv, TypeOK, LooksRight
<1>2. users' = [users EXCEPT ![id] = row]
  BY <1>1 DEF ResetLoginCounter
<1>3. failures' = 0 /\ Cap(0) = 0 /\ 0 \in 0 .. SoftCap
  BY Bounds DEF ResetLoginCounter, Cap
<1>4. row \in Row /\ row.name = users[id].name /\ row.lower = users[id].lower
      /\ row.admin = users[id].admin /\ row.account = users[id].account
      /\ row.version = users[id].version /\ row.hash = users[id].hash
      /\ row.fails = Cap(failures')
  BY <1>1, <1>3 DEF Row
<1>5. RowsEffect
  <2> HIDE DEF row, id
  <2>1. accounts' = accounts
    BY DEF ResetLoginCounter
  <2>2. QED
    BY <1>1, <1>2, <1>4, <2>1, Locks
<1>6. RequestsEffect
  <2>1. q \in Request /\ q.op = "login" /\ q.id = id /\ q.browser = req[r].browser
    BY <1>1 DEF Request
  <2>2. Right(q)
    BY <1>1, <2>1 DEF Right
  <2>3. req' = [req EXCEPT ![r] = q]
    BY <1>1 DEF ResetLoginCounter, Goes
  <2> HIDE DEF q
  <2>4. QED
    BY <2>1, <2>2, <2>3, OneGoes
<1>7. QED
  BY <1>3, <1>5, <1>6, NoCookie DEF ResetLoginCounter, Effect

LEMMA EnterAdminEffect ==
    ASSUME IInv, NEW r \in Requests, EnterAdmin(r)
    PROVE  Effect
<1>1. req[r].id \in Ids /\ Exists(req[r].id) /\ req[r].browser \in Browsers
  BY LoginRow DEF EnterAdmin, At
<1>2. QED
  BY <1>1, EnterEffect DEF EnterAdmin

LEMMA LogoutEffect ==
    ASSUME IInv, NEW c \in cookies, Logout(c)
    PROVE  Effect
<1> DEFINE row == [users[c.id] EXCEPT !.version = @ + 1]
<1>1. /\ c.id \in Ids /\ Exists(c.id) /\ users[c.id] \in Row
      /\ users \in [Ids -> Row \cup {NoRow}]
  BY Forms DEF Logout, Accepted, IInv, TypeOK, Exists
<1>2. users[c.id].version \in Nat /\ users[c.id].version + 1 \in Versions
  BY <1>1, Bounds DEF Row, Versions, Logout
<1>3. users' = [users EXCEPT ![c.id] = row]
  BY <1>1 DEF Logout
<1>4. row \in Row /\ row.name = users[c.id].name /\ row.lower = users[c.id].lower
      /\ row.admin = users[c.id].admin /\ row.account = users[c.id].account
      /\ row.version = users[c.id].version + 1 /\ row.fails = users[c.id].fails
  BY <1>1, <1>2 DEF Row
<1>5. users[c.id].admin => users[c.id].fails = Cap(failures)
  BY <1>1 DEF IInv, Counted, CountsFailures, Cap, Present
<1>6. RowsEffect
  <2> HIDE DEF row
  <2>1. accounts' = accounts /\ failures' = failures
    BY DEF Logout
  <2>2. Writes(c.id, row)
    BY <1>1, <1>2, <1>3, <1>4, <1>5, <2>1 DEF Writes
  <2>3. QED
    BY <2>2 DEF RowsEffect
<1>7. QED
  BY <1>6, NoCookie, NoneGoes DEF Logout, Effect, IInv, TypeOK

-----------------------------------------------------------------------------
(* An administrator's changes.                                             *)

LEMMA AdminAsksEffect ==
    ASSUME IInv, NEW r \in Requests, NEW c \in cookies, NEW op \in {"reset", "delete"},
           NEW id \in Ids, AdminAsks(r, c, op, id)
    PROVE  Effect
<1> DEFINE q == [Idle EXCEPT !.op = op, !.pc = "allowed",
                             !.browser = c.browser, !.id = id]
<1>1. c.browser \in Browsers
  BY Forms DEF IInv, TypeOK
<1>2. q \in Request /\ q.op = op /\ q.pc = "allowed" /\ q.browser = c.browser
  BY <1>1, Forms DEF Request, Idle
<1>3. Right(q)
  BY <1>1, <1>2 DEF Right
<1>4. req' = [req EXCEPT ![r] = q]
  BY DEF AdminAsks
<1> HIDE DEF q
<1>5. RequestsEffect
  BY <1>2, <1>3, <1>4, OneGoes
<1>6. QED
  BY <1>5, NoCookie DEF AdminAsks, Effect, RowsEffect, Stays, IInv, TypeOK

LEMMA AdminLoadsEffect ==
    ASSUME IInv, NEW r \in Requests, AdminLoads(r)
    PROVE  Effect
<1> DEFINE id == req[r].id
           q == [req[r] EXCEPT !.pc = "loaded", !.version = users[id].version]
<1>1. /\ id \in Ids /\ users \in [Ids -> Row \cup {NoRow}]
      /\ req[r] \in Request /\ Right(req[r]) /\ req[r].op \in {"reset", "delete"}
      /\ req \in [Requests -> Request] /\ failures \in Nat
  BY Forms DEF AdminLoads, IInv, TypeOK, LooksRight
<1>2. RequestsEffect
  <2>1. CASE Ends(r)
    BY <2>1, Forms, OneGoes DEF Ends
  <2>2. CASE Exists(id) /\ ~users[id].admin
    <3>1. users[id].version \in Versions
      BY <1>1, <2>2, Forms DEF Exists
    <3>2. q \in Request /\ q.op = req[r].op /\ q.id = id /\ q.browser = req[r].browser
      BY <1>1, <3>1 DEF Request
    <3>3. Right(q)
      BY <1>1, <2>2, <3>2 DEF Right
    <3>4. req' = [req EXCEPT ![r] = q]
      BY <1>1, <2>2 DEF AdminLoads
    <3> HIDE DEF q
    <3>5. QED
      BY <3>2, <3>3, <3>4, OneGoes
  <2>3. QED
    BY <2>1, <2>2 DEF AdminLoads
<1>3. QED
  BY <1>1, <1>2, NoCookie DEF AdminLoads, Effect, RowsEffect, Stays

\* A new password with a raised version.
LEMMA NewPasswordWrites ==
    ASSUME IInv, NEW id \in Ids, Exists(id), users[id].hash < MaxHash,
           NEW version \in Versions, version > users[id].version,
           users' = [users EXCEPT ![id] = NewPassword(users[id], version)],
           accounts' = accounts, failures' \in Nat,
           IF users[id].admin THEN failures' = 0 ELSE failures' = failures
    PROVE  RowsEffect
<1>1. users[id] \in Row /\ users[id].version \in Nat /\ version \in Nat
  BY Bounds DEF IInv, TypeOK, Exists, Row, Versions
<1>2. PICK row : row = NewPassword(users[id], version)
  OBVIOUS
<1>3. /\ row \in Row /\ row.name = users[id].name /\ row.lower = users[id].lower
      /\ row.admin = users[id].admin /\ row.account = users[id].account
      /\ row.fails = 0 /\ row.version = version
  BY <1>1, <1>2, NewPasswordFacts
<1>4. Cap(0) = 0
  BY Bounds DEF Cap
<1>5. Writes(id, row)
  BY <1>1, <1>2, <1>3, <1>4 DEF Writes
<1>6. QED
  BY <1>5 DEF RowsEffect

LEMMA ResetPasswordEffect ==
    ASSUME IInv, NEW r \in Requests, ResetPassword(r)
    PROVE  Effect
<1> DEFINE id == req[r].id
<1>1. /\ id \in Ids /\ users \in [Ids -> Row \cup {NoRow}] /\ failures \in Nat
      /\ Exists(id) => ~users[id].admin
  BY Forms DEF ResetPassword, At, IInv, TypeOK, LooksRight, Right
<1>2. UNCHANGED <<cookies, accounts, failures>>
  BY DEF ResetPassword
<1>3. RowsEffect
  <2>1. CASE UNCHANGED users
    BY <1>2, <2>1 DEF RowsEffect, Stays
  <2>2. CASE /\ Exists(id) /\ users[id].hash < MaxHash
             /\ users[id].version < MaxVersion
             /\ users' = [users EXCEPT ![id] =
                             NewPassword(users[id], users[id].version + 1)]
    <3> DEFINE version == users[id].version + 1
    <3>1. version \in Versions /\ version > users[id].version
      BY <1>1, <2>2, Bounds, Forms DEF Exists, Versions
    <3>2. /\ users' = [users EXCEPT ![id] = NewPassword(users[id], version)]
          /\ accounts' = accounts /\ failures' = failures /\ ~users[id].admin
      BY <1>1, <1>2, <2>2
    <3> HIDE DEF id, version
    <3>3. QED
      BY <1>1, <2>2, <3>1, <3>2, NewPasswordWrites
  <2>3. QED
    BY <1>1, <2>1, <2>2 DEF ResetPassword
<1>4. RequestsEffect
  BY Forms, OneGoes DEF ResetPassword, Ends
<1>5. QED
  BY <1>1, <1>2, <1>3, <1>4, NoCookie DEF Effect

LEMMA DeleteUserEffect ==
    ASSUME IInv, NEW r \in Requests, DeleteUser(r)
    PROVE  Effect
<1>1. req[r].id \in Ids /\ (Exists(req[r].id) => ~users[req[r].id].admin)
  BY Forms DEF DeleteUser, At, IInv, TypeOK, LooksRight, Right
<1>2. Drops(req[r].id)
  BY <1>1 DEF Drops, DeleteUser
<1>3. QED
  BY <1>2, NoCookie, Forms, OneGoes DEF DeleteUser, Ends, Effect, RowsEffect, IInv, TypeOK

LEMMA ChangeAsksEffect ==
    ASSUME IInv, NEW r \in Requests, NEW c \in cookies, NEW hash \in Hashes,
           ChangeAsks(r, c, hash)
    PROVE  Effect
<1> DEFINE q == [Idle EXCEPT !.op = "change", !.pc = "loaded", !.browser = c.browser,
                             !.id = c.id, !.version = c.version, !.hash = hash]
<1>1. c.browser \in Browsers /\ c.id \in Ids /\ c.version \in Versions
  BY Forms DEF IInv, TypeOK
<1>2. q \in Request /\ q.op = "change" /\ q.id = c.id /\ q.browser = c.browser
  BY <1>1, Forms DEF Request, Idle
<1>3. Right(q)
  BY <1>1, <1>2 DEF Right, ChangeAsks, AcceptedAsAdmin, Accepted
<1>4. req' = [req EXCEPT ![r] = q]
  BY DEF ChangeAsks
<1> HIDE DEF q
<1>5. RequestsEffect
  BY <1>2, <1>3, <1>4, OneGoes
<1>6. QED
  BY <1>5, NoCookie DEF ChangeAsks, Effect, RowsEffect, Stays, IInv, TypeOK

LEMMA ChangeOwnEffect ==
    ASSUME IInv, NEW r \in Requests, ChangeOwn(r)
    PROVE  Effect
<1> DEFINE id == req[r].id
           version == req[r].version + 1
<1>1. /\ id \in Ids /\ Exists(id) /\ users[id] \in Row /\ users[id].admin
      /\ req[r].browser \in Browsers
  BY LoginRow DEF ChangeOwn, At
<1>2. RequestsEffect
  BY Forms, OneGoes DEF ChangeOwn, Ends
<1>3. CASE UNCHANGED <<users, cookies, failures>>
  BY <1>2, <1>3, NoCookie DEF ChangeOwn, Effect, RowsEffect, Stays, IInv, TypeOK
<1>4. CASE /\ StillAsLoaded(r)
           /\ req[r].hash < MaxHash /\ req[r].version < MaxVersion
           /\ failures' = 0
           /\ users' = [users EXCEPT ![id] = NewPassword(users[id], version)]
           /\ cookies' = cookies \cup
                {[id |-> id, version |-> NewPassword(users[id], version).version,
                  browser |-> req[r].browser,
                  account |-> NewPassword(users[id], version).account,
                  hash |-> NewPassword(users[id], version).hash]}
  <2>1. /\ users[id].version = req[r].version /\ users[id].hash < MaxHash
        /\ users[id].version \in Nat /\ version \in Versions
        /\ version > users[id].version
    BY <1>1, <1>4, Bounds DEF StillAsLoaded, Row, Versions
  <2> HIDE DEF id, version
  <2>2. PICK row : row = NewPassword(users[id], version)
    OBVIOUS
  <2>3. /\ row \in Row /\ row.version = version
    BY <1>1, <2>1, <2>2, NewPasswordFacts
  <2>4. RowsEffect
    BY <1>1, <1>4, <2>1, NewPasswordWrites DEF ChangeOwn
  <2>5. PICK c : c = [id |-> id, version |-> row.version, browser |-> req[r].browser,
                      account |-> row.account, hash |-> row.hash]
    OBVIOUS
  <2>6. /\ c \in Cookie /\ c.id = id /\ c.version = row.version
        /\ c.account = row.account /\ c.hash = row.hash
    BY <1>1, <2>3, <2>5 DEF Cookie, Row
  <2>7. users'[id] = row
    BY <1>1, <1>4, <2>2, Others DEF IInv
  <2>8. Fresh(c)'
    BY <1>1, <2>3, <2>6, <2>7, NoRowAssumption DEF Fresh, Exists
  <2>9. CookiesEffect
    BY <1>4, <2>2, <2>5, <2>6, <2>8, OneCookie
  <2>10. QED
    BY <1>2, <1>4, <2>4, <2>9 DEF Effect
<1>5. QED
  BY <1>3, <1>4 DEF ChangeOwn

-----------------------------------------------------------------------------
(* The server and the operator.                                            *)

LEMMA RestartEffect ==
    ASSUME IInv, Restart
    PROVE  Effect
<1>1. \A r \in Requests : req'[r] = Idle
  BY DEF Restart
<1>2. RequestsEffect
  BY <1>1, Forms DEF Restart, RequestsEffect
<1>3. CASE UNCHANGED <<users, accounts>>
  BY <1>2, <1>3, NoCookie DEF Restart, Effect, RowsEffect, Stays, IInv, TypeOK
<1>4. CASE /\ Called(Admin) = {} /\ accounts < MaxAccounts
           /\ users' = [users EXCEPT ![NextId] = NewRow(accounts + 1, Admin, TRUE, 1)]
           /\ accounts' = accounts + 1
  <2>1. accounts \in 0 .. MaxAccounts /\ accounts \in Nat
    BY DEF IInv, TypeOK
  <2>2. /\ NextId \in 1 .. accounts + 1 /\ NextId \in Ids /\ ~Exists(NextId)
        /\ ~IdsReturn => NextId = accounts + 1
    BY <1>4, NextIdFree DEF IInv
  <2>3. PICK row : row = NewRow(accounts + 1, Admin, TRUE, 1)
    OBVIOUS
  <2>4. /\ row \in Row /\ row.name = Admin /\ row.lower /\ row.admin
        /\ row.account = accounts + 1 /\ row.fails = 0
    BY <1>4, <2>1, <2>3, Bounds DEF NewRow, Row, Hashes, Versions, Accounts
  <2>5. accounts' \in 0 .. MaxAccounts
    BY <1>4, <2>1, Bounds
  <2>6. Adds(NextId, row)
    BY <1>1, <1>4, <2>2, <2>3, <2>4, <2>5 DEF Adds, Restart
  <2>7. QED
    BY <1>2, <2>6, NoCookie DEF Restart, Effect, RowsEffect, IInv, TypeOK
<1>5. QED
  BY <1>3, <1>4 DEF Restart

LEMMA LockEffect ==
    ASSUME IInv, NEW id \in Ids, OperatorLocks(id) \/ LockPasses(id)
    PROVE  Effect
<1>1. Exists(id) /\ users[id] \in Row /\ users \in [Ids -> Row \cup {NoRow}]
  BY DEF OperatorLocks, LockPasses, IInv, TypeOK, Exists
<1>2. PICK locked \in {"ahead", "passed"} : users' = [users EXCEPT ![id].locked = locked]
  BY DEF OperatorLocks, LockPasses
<1> DEFINE row == [users[id] EXCEPT !.locked = locked]
<1>3. users' = [users EXCEPT ![id] = row]
  BY <1>1, <1>2
<1>4. row \in Row /\ row.name = users[id].name /\ row.lower = users[id].lower
      /\ row.admin = users[id].admin /\ row.account = users[id].account
      /\ row.version = users[id].version /\ row.hash = users[id].hash
      /\ row.fails = users[id].fails
  BY <1>1 DEF Row
<1>5. UNCHANGED <<cookies, req, accounts, failures>>
  BY DEF OperatorLocks, LockPasses
<1> HIDE DEF row
<1>6. RowsEffect
  BY <1>1, <1>3, <1>4, <1>5, Locks
<1>7. QED
  BY <1>5, <1>6, NoCookie, NoneGoes DEF Effect, IInv, TypeOK

-----------------------------------------------------------------------------
(* The theorems.                                                           *)

LEMMA StepEffect == IInv /\ [Next]_vars => Effect
<1> SUFFICES ASSUME IInv, [Next]_vars
             PROVE  Effect
  OBVIOUS
<1>1. ASSUME NEW r \in Requests, Step(r)
      PROVE  Effect
  BY <1>1, RegisterInsertEffect, RegisterEnterEffect, TouchLockedEffect,
     RecordFailedLoginEffect, ResetLoginCounterEffect, EnterAdminEffect,
     AdminLoadsEffect, ResetPasswordEffect, DeleteUserEffect, ChangeOwnEffect DEF Step
<1>2. ASSUME NEW r \in Requests, NEW b \in Browsers,
             \/ \E name \in Names : RegisterCheck(r, b, name)
             \/ \E id \in Ids, hash \in Hashes \ {0} : LoginAdmin(r, b, id, hash)
      PROVE  Effect
  BY <1>2, RegisterCheckEffect, LoginAdminEffect
<1>3. ASSUME NEW r \in Requests, NEW c \in cookies,
             \/ \E op \in {"reset", "delete"}, id \in Ids : AdminAsks(r, c, op, id)
             \/ \E hash \in Hashes \ {0} : ChangeAsks(r, c, hash)
      PROVE  Effect
  BY <1>3, AdminAsksEffect, ChangeAsksEffect
<1>4. ASSUME NEW b \in Browsers, NEW id \in Ids, NEW hash, LoginUser(b, id, hash)
      PROVE  Effect
  BY <1>4, LoginUserEffect
<1>5. ASSUME NEW c \in cookies, Logout(c)
      PROVE  Effect
  BY <1>5, LogoutEffect
<1>6. ASSUME NEW id \in Ids, OperatorLocks(id) \/ LockPasses(id)
      PROVE  Effect
  BY <1>6, LockEffect
<1>7. CASE Restart
  BY <1>7, RestartEffect
<1>8. CASE UNCHANGED vars
  BY <1>8, NoCookie, NoneGoes DEF vars, Effect, RowsEffect, Stays, IInv, TypeOK
<1>9. QED
  BY <1>1, <1>2, <1>3, <1>4, <1>5, <1>6, <1>7, <1>8 DEF Next

LEMMA InitIInv == Init => IInv
<1> SUFFICES ASSUME Init
             PROVE  IInv
  OBVIOUS
<1>1. PICK legacy :
         /\ \/ legacy = NoRow
            \/ \E name \in Names, hash \in {0, 1} : legacy = LegacyRow(name, hash)
         /\ users = [id \in Ids |-> IF id = 1 THEN legacy ELSE NoRow]
  <2>1. CASE users = [id \in Ids |-> NoRow]
    BY <2>1
  <2>2. CASE \E name \in Names, hash \in {0, 1} :
                users = [id \in Ids |-> IF id = 1 THEN LegacyRow(name, hash) ELSE NoRow]
    BY <2>2
  <2>3. QED
    BY <2>1, <2>2 DEF Init
<1>2. legacy = NoRow \/ (legacy \in Row /\ ~legacy.admin /\ legacy.account = 1)
  <2>1. ASSUME NEW name \in Names, NEW hash \in {0, 1}
        PROVE  LET row == LegacyRow(name, hash)
               IN  row \in Row /\ ~row.admin /\ row.account = 1
    <3>1. hash \in Hashes /\ 0 \in Versions /\ 0 \in 0 .. SoftCap /\ 1 \in Accounts
      BY Bounds DEF Hashes, Versions, Accounts
    <3>2. QED
      BY <3>1 DEF LegacyRow, NewRow, Row
  <2>2. CASE legacy # NoRow
    <3>1. PICK name \in Names, hash \in {0, 1} : legacy = LegacyRow(name, hash)
      BY <1>1, <2>2
    <3>2. QED
      BY <2>1, <3>1
  <2>3. QED
    BY <2>2
<1>3. 1 \in Ids /\ users[1] = legacy /\ \A id \in Ids \ {1} : ~Exists(id)
  BY <1>1, Bounds DEF Exists
<1>4. /\ cookies = {} /\ req = [r \in Requests |-> Idle] /\ failures = 0
      /\ accounts = IF legacy = NoRow THEN 0 ELSE 1
  BY <1>3 DEF Init
<1>5. Present \subseteq {1} /\ (1 \in Present <=> legacy # NoRow)
  BY <1>3 DEF Present, Exists
<1>6. TypeOK
  <2>1. users \in [Ids -> Row \cup {NoRow}]
    BY <1>1, <1>2
  <2>2. NamesDistinct
    BY <1>5 DEF NamesDistinct
  <2>3. QED
    BY <1>4, <2>1, <2>2, Forms, Bounds DEF TypeOK
<1>7. GivenOut /\ OneAdmin
  BY <1>2, <1>3, <1>4, <1>5, NoRowAssumption DEF GivenOut, OneAdmin
<1>8. LooksRight /\ NoneAhead
  BY <1>4, Forms DEF LooksRight, NoneAhead
<1>9. Counted
  BY <1>2, <1>3, <1>4, <1>5 DEF Counted, CountsFailures
<1>10. QED
  BY <1>6, <1>7, <1>8, <1>9 DEF IInv

\* However registrations, logins, logouts, changed passwords, deletions and
\* restarts overlap, the invariant holds that the promises below follow from.
THEOREM Inductive == Spec => []IInv
<1>1. IInv /\ [Next]_vars => IInv'
  BY StepEffect, TypeKept, RowsKept, RequestsKept, CookiesKept, CountKept DEF IInv
<1>2. QED
  BY InitIInv, <1>1, PTL DEF Spec

\* Rows, cookies and requests have the form the code gives them, and no two
\* accounts have one name.
THEOREM TypeCorrect == Spec => []TypeOK
<1>1. IInv => TypeOK
  BY DEF IInv
<1>2. QED
  BY <1>1, Inductive, PTL

\* An accepted cookie was issued with the password its account has now.
THEOREM VersionsTellPasswords == Spec => []VersionTellsPassword
<1>1. IInv => VersionTellsPassword
  BY DEF IInv, NoneAhead, Ahead, VersionTellsPassword, Accepted
<1>2. QED
  BY <1>1, Inductive, PTL

\* The counter of failed administrator logins misses none, up to the cap.
THEOREM FailuresCounted == Spec => []CountsFailures
<1>1. IInv => CountsFailures
  BY DEF IInv, Counted
<1>2. QED
  BY <1>1, Inductive, PTL

\* Where no id is given out again, rows and cookies have the id of their account.
OwnIds ==
    ~IdsReturn => /\ \A id \in Present : users[id].account = id
                  /\ \A c \in cookies : c.account = c.id

\* A new row has the next number, and a new cookie is that of a row.
LEMMA OwnIdsKept == IInv /\ OwnIds /\ Effect => OwnIds'
<1> SUFFICES ASSUME IInv, OwnIds, Effect, ~IdsReturn
             PROVE  /\ \A id \in Present' : users'[id].account = id
                    /\ \A c \in cookies' : c.account = c.id
  BY DEF OwnIds
<1>1. TypeOK /\ \A id \in Present : users[id].account = id
  BY DEF IInv, OwnIds
<1>2. ASSUME NEW i \in Present'
      PROVE  users'[i].account = i
  <2>1. CASE Stays
    BY <1>1, <1>2, <2>1 DEF Stays, Present, Exists
  <2>2. ASSUME NEW id, NEW row, Writes(id, row)
        PROVE  users'[i].account = i
    <3>1. users'[id] = row /\ \A j \in Ids : j # id => users'[j] = users[j]
      BY <1>1, <2>2, Others DEF Writes
    <3>2. QED
      BY <1>1, <1>2, <2>2, <3>1 DEF Writes, Present, Exists
  <2>3. ASSUME NEW id, NEW row, Adds(id, row)
        PROVE  users'[i].account = i
    <3>1. users'[id] = row /\ \A j \in Ids : j # id => users'[j] = users[j]
      BY <1>1, <2>3, Others DEF Adds
    <3>2. row.account = id
      BY <2>3 DEF Adds
    <3>3. QED
      BY <1>1, <1>2, <3>1, <3>2 DEF Present, Exists
  <2>4. ASSUME NEW id, Drops(id)
        PROVE  users'[i].account = i
    <3>1. users'[id] = NoRow /\ \A j \in Ids : j # id => users'[j] = users[j]
      BY <1>1, <2>4, Others DEF Drops
    <3>2. QED
      BY <1>1, <1>2, <3>1 DEF Present, Exists
  <2>5. QED
    BY <2>1, <2>2, <2>3, <2>4 DEF Effect, RowsEffect
<1>3. ASSUME NEW c \in cookies'
      PROVE  c.account = c.id
  <2>1. CASE c \in cookies
    BY <2>1 DEF OwnIds
  <2>2. CASE Fresh(c)'
    <3>1. c.id \in Present' /\ c.account = users'[c.id].account
      BY <2>2 DEF Fresh, Cookie, Present
    <3>2. QED
      BY <1>2, <3>1
  <2>3. QED
    BY <2>1, <2>2 DEF Effect, CookiesEffect
<1>4. QED
  BY <1>2, <1>3

\* In a table that gives no id out again, as the one drop_users_email_column
\* rebuilds, the cookies of a deleted account are accepted no more.
THEOREM DeletedStayOutWhereIdsDoNotReturn ==
    ASSUME ~IdsReturn
    PROVE  Spec => []DeletedStayOut
<1>1. Init => OwnIds
  <2> SUFFICES ASSUME Init
               PROVE  OwnIds
    OBVIOUS
  <2>1. \A id \in Present : users[id].account = id
    BY Bounds DEF Init, Present, Exists, LegacyRow, NewRow
  <2>2. QED
    BY <2>1 DEF Init, OwnIds
<1>2. IInv /\ OwnIds => DeletedStayOut
  <2> SUFFICES ASSUME IInv, OwnIds, NEW c \in cookies, Accepted(c)
               PROVE  \E id \in Present : users[id].account = c.account
    BY DEF DeletedStayOut
  <2>1. c.id \in Present
    BY DEF IInv, Accepted, Present, TypeOK, Cookie
  <2>2. QED
    BY <2>1 DEF OwnIds
<1>3. IInv /\ OwnIds /\ [Next]_vars => OwnIds'
  BY StepEffect, OwnIdsKept
<1>4. QED
  BY Inductive, <1>1, <1>2, <1>3, PTL DEF Spec

-----------------------------------------------------------------------------
(* The refinement of SignedIn, and what it needs beyond IInv.              *)

\* An account has one row at most.
AccountsApart ==
    \A i, j \in Present : users[i].account = users[j].account => i = j

SomeAdmin == \E id \in Present : users[id].admin

\* An administrator has a password.  Her cookies are those of her account: an
\* id is used again only after a deletion, and she was there before the first.
AdminsKnown ==
    /\ \A id \in Present : users[id].admin => users[id].hash # 0
    /\ \A c \in cookies : (Exists(c.id) /\ users[c.id].admin) \/ ~SomeAdmin =>
          Exists(c.id) /\ users[c.id].account = c.account

\* The cookie that a change of the own password came with.
CameWith(q, c) ==
    /\ c.id = q.id /\ c.browser = q.browser /\ c.version = q.version
    /\ c.account = users[q.id].account

Known(q) ==
    /\ q.op = "register" /\ q.pc = "inserted" /\ Exists(q.id) =>
          users[q.id].hash # 0
    /\ q.op \in {"reset", "delete"} => SomeAdmin
    /\ q.op = "change" => \E c \in cookies : CameWith(q, c)

\* A cookie names the row of its account for as long as the account has one;
\* later the row of that id, if any, is that of a younger account.
Placed(c) ==
    /\ \A i \in Present : users[i].account = c.account => i = c.id
    /\ \A i \in Present : i = c.id => c.account <= users[i].account
CookiesPlaced == \A c \in cookies : Placed(c)

KInv == /\ AccountsApart /\ AdminsKnown /\ CookiesPlaced
        /\ \A r \in Requests : Known(req[r])

-----------------------------------------------------------------------------
(* The steps by their outcome for rows and cookies.                        *)

Idles == UNCHANGED <<users, cookies, accounts>>

Enters(id, b) ==
    /\ UNCHANGED <<users, accounts>>
    /\ id \in Ids /\ b \in Browsers /\ Exists(id) /\ users[id].hash # 0
    /\ cookies' = cookies \cup {CookieFor(id, b)}

\* One row is written: it stays that of its account.
Rewrites(id, row) ==
    /\ id \in Ids /\ Exists(id) /\ row \in Row
    /\ users' = [users EXCEPT ![id] = row]
    /\ row.admin = users[id].admin /\ row.account = users[id].account
    /\ row.hash # users[id].hash => row.hash # 0
    /\ row.version >= users[id].version
    /\ accounts' = accounts

\* Neither version nor password change.
Touches(id, row) ==
    /\ Rewrites(id, row) /\ cookies' = cookies
    /\ row.version = users[id].version /\ row.hash = users[id].hash

\* The version is raised, by a cookie that is level or with a new password.
Revokes(id, row) ==
    /\ Rewrites(id, row) /\ cookies' = cookies
    /\ row.version > users[id].version
    /\ row.hash = users[id].hash =>
          \E c \in cookies : c.id = id /\ c.version = users[id].version

\* The password is changed by its owner.
Changes(id, row, b) ==
    /\ Rewrites(id, row) /\ row.version > users[id].version /\ users[id].admin
    /\ row.hash # users[id].hash
    /\ \E c \in cookies : /\ c.id = id /\ c.browser = b
                          /\ c.version = users[id].version
                          /\ c.account = users[id].account
    /\ b \in Browsers
    /\ cookies' = cookies \cup
          {[id |-> id, version |-> row.version, browser |-> b,
            account |-> row.account, hash |-> row.hash]}

Creates(id, row) ==
    /\ id \in Ids /\ ~Exists(id) /\ row \in Row /\ row.hash # 0
    /\ users' = [users EXCEPT ![id] = row]
    /\ accounts' = accounts + 1 /\ row.account = accounts'
    /\ row.admin => /\ \A i \in Present : ~users[i].admin
                    /\ \A r \in Requests : req'[r] = Idle
    /\ cookies' = cookies

Deletes(id) ==
    /\ id \in Ids /\ SomeAdmin /\ (Exists(id) => ~users[id].admin)
    /\ users' = [users EXCEPT ![id] = NoRow]
    /\ accounts' = accounts /\ cookies' = cookies

Outcome ==
    \/ Idles
    \/ \E id, b : Enters(id, b)
    \/ \E id, row : Touches(id, row) \/ Revokes(id, row) \/ Creates(id, row)
    \/ \E id, row, b : Changes(id, row, b)
    \/ \E id : Deletes(id)

RequestsKnown == \A r \in Requests : Known(req'[r])

-----------------------------------------------------------------------------
(* Each outcome keeps the invariant.                                       *)

LEMMA ApartKept == IInv /\ KInv /\ Outcome => AccountsApart'
<1> SUFFICES ASSUME IInv, KInv, Outcome
             PROVE  AccountsApart'
  OBVIOUS
<1>1. TypeOK /\ AccountsApart /\ accounts \in Nat
      /\ \A i \in Present : users[i].account # accounts + 1
  <2>1. TypeOK /\ AccountsApart /\ accounts \in Nat
    BY DEF IInv, KInv, TypeOK
  <2>2. ASSUME NEW i \in Present
        PROVE  users[i].account # accounts + 1
    <3>1. users[i].account \in Nat /\ users[i].account <= accounts
      BY <2>1, Bounds DEF IInv, TypeOK, Present, Exists, Row, Accounts, GivenOut
    <3>2. QED
      BY <2>1, <3>1
  <2>3. QED
    BY <2>1, <2>2
<1>2. CASE users' = users
  BY <1>1, <1>2 DEF AccountsApart, Present, Exists
<1>3. ASSUME NEW id, NEW row, Rewrites(id, row)
      PROVE  AccountsApart'
  <2>1. \A i \in Present' : i \in Present /\ users'[i].account = users[i].account
    BY <1>1, <1>3, Others DEF Rewrites, Present, Exists
  <2>2. QED
    BY <1>1, <2>1 DEF AccountsApart
<1>4. ASSUME NEW id, NEW row, Creates(id, row)
      PROVE  AccountsApart'
  <2>1. /\ users'[id].account = accounts + 1
        /\ \A i \in Present' : i # id => i \in Present /\ users'[i] = users[i]
    <3>1. /\ users'[id] = row /\ row.account = accounts + 1
          /\ \A i \in Ids : i # id => users'[i] = users[i]
      BY <1>1, <1>4, Others DEF Creates
    <3>2. QED
      BY <3>1 DEF Present, Exists
  <2>2. QED
    BY <1>1, <2>1 DEF AccountsApart
<1>5. ASSUME NEW id, Deletes(id)
      PROVE  AccountsApart'
  <2>1. \A i \in Present' : i \in Present /\ users'[i] = users[i]
    BY <1>1, <1>5, Others DEF Deletes, Present, Exists
  <2>2. QED
    BY <1>1, <2>1 DEF AccountsApart
<1>6. QED
  BY <1>2, <1>3, <1>4, <1>5
     DEF Outcome, Idles, Enters, Touches, Revokes, Changes

\* What an outcome does to the rows there are and to their administrators.
LEMMA AdminsStay ==
    ASSUME IInv, KInv, Outcome
    PROVE  /\ \/ \A i \in Present : users[i].admin =>
                    i \in Present' /\ users'[i].admin
              \/ ~SomeAdmin
           /\ SomeAdmin => SomeAdmin'
           /\ \A i \in Present' :
                 \/ i \in Present /\ users'[i].admin = users[i].admin
                    /\ users'[i].account = users[i].account
                    /\ (users[i].hash # 0 => users'[i].hash # 0)
                 \/ i \notin Present /\ users'[i].hash # 0
                    /\ (users'[i].admin => ~SomeAdmin)
           /\ ~SomeAdmin => Present \subseteq Present'
<1>1. TypeOK
  BY DEF IInv
<1>2. CASE users' = users
  BY <1>1, <1>2 DEF SomeAdmin, Present, Exists
<1>3. ASSUME NEW id, NEW row, Rewrites(id, row)
      PROVE  /\ Present' = Present
             /\ \A i \in Present : /\ users'[i].admin = users[i].admin
                                   /\ users'[i].account = users[i].account
                                   /\ users[i].hash # 0 => users'[i].hash # 0
  <2>1. /\ users'[id] = row /\ row # NoRow /\ id \in Ids /\ Exists(id)
        /\ \A i \in Ids : i # id => users'[i] = users[i]
    BY <1>1, <1>3, NoRowAssumption, Others DEF Rewrites
  <2>2. \A i \in Ids : Exists(i)' <=> Exists(i)
    BY <2>1 DEF Exists
  <2>3. QED
    BY <1>3, <2>1, <2>2 DEF Present, Rewrites
<1>4. ASSUME NEW id, NEW row, Creates(id, row)
      PROVE  /\ Present' = Present \cup {id} /\ id \notin Present
             /\ \A i \in Present : users'[i] = users[i]
             /\ users'[id].hash # 0 /\ (users'[id].admin => ~SomeAdmin)
  <2>1. /\ users'[id] = row /\ row # NoRow /\ id \in Ids /\ ~Exists(id)
        /\ \A i \in Ids : i # id => users'[i] = users[i]
    BY <1>1, <1>4, NoRowAssumption, Others DEF Creates
  <2>2. \A i \in Ids : Exists(i)' <=> Exists(i) \/ i = id
    BY <2>1 DEF Exists
  <2>3. QED
    BY <1>4, <2>1, <2>2 DEF Present, Creates, SomeAdmin
<1>5. ASSUME NEW id, Deletes(id)
      PROVE  /\ \A i \in Present' : i \in Present /\ users'[i] = users[i]
             /\ \A i \in Present : users[i].admin => i \in Present'
             /\ SomeAdmin
  <2>1. /\ users'[id] = NoRow /\ SomeAdmin /\ (Exists(id) => ~users[id].admin)
        /\ \A i \in Ids : i # id => users'[i] = users[i]
    BY <1>1, <1>5, Others DEF Deletes
  <2>2. QED
    BY <2>1 DEF Present, Exists
<1>6. CASE \E id, row : Rewrites(id, row)
  BY <1>3, <1>6 DEF SomeAdmin
<1>7. CASE \E id, row : Creates(id, row)
  BY <1>4, <1>7 DEF SomeAdmin
<1>8. CASE \E id : Deletes(id)
  BY <1>5, <1>8 DEF SomeAdmin
<1>9. QED
  BY <1>2, <1>6, <1>7, <1>8
     DEF Outcome, Idles, Enters, Touches, Revokes, Changes

\* Cookies are only added, each for the account of its row.
LEMMA CookiesAdded ==
    ASSUME IInv, KInv, Outcome
    PROVE  /\ cookies \subseteq cookies'
           /\ \A c \in cookies' : c \in cookies
                 \/ (c.id \in Present' /\ users'[c.id].account = c.account)
<1>1. CASE cookies' = cookies
  BY <1>1
<1>2. ASSUME NEW id, NEW b, Enters(id, b)
      PROVE  \A c \in cookies' : c \in cookies
                \/ (c.id \in Present' /\ users'[c.id].account = c.account)
  BY <1>2 DEF Enters, CookieFor, Present, Exists
<1>3. ASSUME NEW id, NEW row, NEW b, Changes(id, row, b)
      PROVE  \A c \in cookies' : c \in cookies
                \/ (c.id \in Present' /\ users'[c.id].account = c.account)
  <2>1. users'[id] = row /\ row # NoRow /\ id \in Ids
    BY <1>3, NoRowAssumption, Others DEF Changes, Rewrites, IInv
  <2>2. QED
    BY <1>3, <2>1 DEF Changes, Present, Exists
<1>4. QED
  BY <1>1, <1>2, <1>3
     DEF Outcome, Idles, Enters, Touches, Revokes, Creates, Changes, Deletes

LEMMA KnownAdminsKept == IInv /\ KInv /\ Outcome => AdminsKnown'
<1> SUFFICES ASSUME IInv, KInv, Outcome
             PROVE  AdminsKnown'
  OBVIOUS
<1>1. AdminsKnown
  BY DEF KInv
<1>2. \A i \in Present' : users'[i].admin => users'[i].hash # 0
  BY <1>1, AdminsStay DEF AdminsKnown
<1>3. ASSUME NEW c \in cookies', \/ c.id \in Present' /\ users'[c.id].admin
                                \/ ~SomeAdmin'
      PROVE  c.id \in Present' /\ users'[c.id].account = c.account
  <2>1. CASE c \in cookies
    <3>1. c.id \in Ids
      BY <2>1, Forms DEF IInv, TypeOK
    <3>2. (c.id \in Present /\ users[c.id].admin) \/ ~SomeAdmin =>
             c.id \in Present /\ users[c.id].account = c.account
      BY <1>1, <2>1, <3>1 DEF AdminsKnown, Present
    <3>3. CASE c.id \in Present' /\ users'[c.id].admin
      BY <3>2, <3>3, AdminsStay
    <3>4. CASE ~SomeAdmin'
      BY <3>2, <3>4, AdminsStay
    <3>5. QED
      BY <1>3, <3>3, <3>4
  <2>2. QED
    BY <2>1, CookiesAdded
<1>4. \A c \in cookies' : Exists(c.id)' <=> c.id \in Present'
  <2>1. \A c \in cookies' : c.id \in Ids
    BY CookiesAdded, Forms DEF IInv, TypeOK, Present
  <2>2. QED
    BY <2>1 DEF Present
<1>5. QED
  BY <1>2, <1>3, <1>4 DEF AdminsKnown

\* The rows of an outcome's next state: those of before, of the same accounts,
\* and perhaps that of the newest account.
LEMMA AccountsStay ==
    ASSUME IInv, KInv, Outcome
    PROVE  \A i \in Present' :
              \/ i \in Present /\ users'[i].account = users[i].account
              \/ i \notin Present /\ users'[i].account = accounts + 1
<1>1. CASE users' = users
  BY <1>1 DEF Present, Exists
<1>2. ASSUME NEW id, NEW row, Rewrites(id, row)
      PROVE  \A i \in Present' : i \in Present /\ users'[i].account = users[i].account
  BY <1>2, Others DEF Rewrites, Present, Exists, IInv
<1>3. ASSUME NEW id, NEW row, Creates(id, row)
      PROVE  \A i \in Present' :
                \/ i \in Present /\ users'[i].account = users[i].account
                \/ i \notin Present /\ users'[i].account = accounts + 1
  BY <1>3, Others DEF Creates, Present, Exists, IInv
<1>4. ASSUME NEW id, Deletes(id)
      PROVE  \A i \in Present' : i \in Present /\ users'[i].account = users[i].account
  BY <1>4, Others DEF Deletes, Present, Exists, IInv
<1>5. QED
  BY <1>1, <1>2, <1>3, <1>4
     DEF Outcome, Idles, Enters, Touches, Revokes, Changes

LEMMA PlacedKept == IInv /\ KInv /\ AccountsApart' /\ Outcome => CookiesPlaced'
<1> SUFFICES ASSUME IInv, KInv, AccountsApart', Outcome, NEW c \in cookies'
             PROVE  Placed(c)'
  BY DEF CookiesPlaced
<1>1. CASE c \in cookies
  <2>1. /\ Placed(c) /\ c.account \in Nat /\ c.account <= accounts
        /\ accounts \in Nat
    BY <1>1, Bounds DEF KInv, CookiesPlaced, IInv, TypeOK, Cookie, Accounts, GivenOut
  <2>2. \A i \in Present' : users'[i].account = c.account => i = c.id
    BY <2>1, AccountsStay DEF Placed
  <2>3. \A i \in Present' : i = c.id => c.account <= users'[i].account
    BY <2>1, AccountsStay DEF Placed
  <2>4. QED
    BY <2>2, <2>3 DEF Placed
<1>2. CASE c.id \in Present' /\ users'[c.id].account = c.account
  <2>1. c.account \in Int
    BY <1>2, AccountsStay, Bounds
       DEF IInv, TypeOK, Present, Exists, Row, Accounts
  <2>2. QED
    BY <1>2, <2>1 DEF Placed, AccountsApart
<1>3. QED
  BY <1>1, <1>2, CookiesAdded

LEMMA KnownKept ==
    ASSUME IInv, KInv, Outcome, NEW q \in Request, Known(q), Right(q)
    PROVE  Known(q)'
<1>1. q.id \in Ids
  BY Forms
<1>2. ASSUME q.op = "register", q.pc = "inserted", Exists(q.id)'
      PROVE  users'[q.id].hash # 0
  BY <1>1, <1>2, AdminsStay DEF Known, Present
<1>3. ASSUME q.op \in {"reset", "delete"}
      PROVE  SomeAdmin'
  BY <1>3, AdminsStay DEF Known
<1>4. ASSUME q.op = "change"
      PROVE  (\E c \in cookies : CameWith(q, c))'
  <2>1. PICK c \in cookies : CameWith(q, c)
    BY <1>4 DEF Known
  <2>2. q.id \in Present /\ users[q.id].admin
    BY <1>1, <1>4 DEF Right, Present
  <2>3. users'[q.id].account = users[q.id].account
    BY <2>2, AdminsStay DEF SomeAdmin
  <2>4. CameWith(q, c)'
    BY <2>1, <2>3 DEF CameWith
  <2>5. QED
    BY <2>1, <2>4, CookiesAdded
<1>5. QED
  BY <1>2, <1>3, <1>4 DEF Known

LEMMA KInvKept ==
    ASSUME IInv, KInv, Outcome, RequestsEffect, RequestsKnown
    PROVE  KInv'
<1>1. ASSUME NEW r \in Requests
      PROVE  Known(req[r])'
  <2>1. PICK q \in Request : q = req'[r] /\ Known(q) /\ Right(q)
    BY DEF RequestsEffect, RequestsKnown
  <2>2. Known(q)'
    BY <2>1, KnownKept
  <2>3. QED
    BY <2>1, <2>2 DEF Known, Exists, SomeAdmin, Present, CameWith
<1>2. QED
  BY <1>1, ApartKept, KnownAdminsKept, PlacedKept DEF KInv

-----------------------------------------------------------------------------
(* Each outcome is a step of SignedIn, or changes nothing in it.           *)

\* What the mapping reads from an account's row.
Reads ==
    /\ \A id \in Present :
          /\ PasswordOf(users[id].account) = users[id].hash
          /\ Inside(users[id].account) =
                {b \in Browsers : \E c \in cookies :
                    /\ c.browser = b /\ c.id = id
                    /\ c.version = users[id].version}
    /\ \A a : (\A id \in Present : users[id].account # a) =>
          PasswordOf(a) = 0 /\ Inside(a) = {}

LEMMA Reading == AccountsApart => Reads
<1> SUFFICES ASSUME AccountsApart
             PROVE  Reads
  OBVIOUS
<1>1. ASSUME NEW id \in Present
      PROVE  /\ PasswordOf(users[id].account) = users[id].hash
             /\ Inside(users[id].account) =
                   {b \in Browsers : \E c \in cookies :
                       /\ c.browser = b /\ c.id = id
                       /\ c.version = users[id].version}
  <2> DEFINE a == users[id].account
  <2>1. RowsOf(a) = {id} /\ id \in Int
    BY <1>1, Bounds DEF AccountsApart, RowsOf, Present
  <2>2. (CHOOSE i \in {id} : TRUE) = id
    OBVIOUS
  <2>3. PasswordOf(a) = users[id].hash
    <3> HIDE DEF a
    <3>1. QED
      BY <2>1, <2>2 DEF PasswordOf
  <2>4. Inside(a) = {b \in Browsers : \E c \in cookies :
                       /\ c.browser = b /\ c.id = id
                       /\ c.version = users[id].version}
    <3> HIDE DEF a
    <3>1. Exists(id)
      BY <1>1 DEF Present
    <3>2. QED
      BY <2>1, <3>1 DEF Inside, Accepted
  <2>5. QED
    BY <2>3, <2>4
<1>2. ASSUME NEW a, \A id \in Present : users[id].account # a
      PROVE  PasswordOf(a) = 0 /\ Inside(a) = {}
  <2>1. RowsOf(a) = {}
    BY <1>2 DEF RowsOf
  <2>2. QED
    BY <2>1 DEF PasswordOf, Inside
<1>3. QED
  BY <1>1, <1>2 DEF Reads

\* An account is read as before.
Same(a) == /\ PasswordOf(a)' = PasswordOf(a) /\ Inside(a)' = Inside(a)
           /\ Been(a)' = Been(a)

\* An account whose row and cookies stay is read as before.
LEMMA OtherAccount ==
    ASSUME Reads, Reads', NEW a,
           \A i \in Present : users[i].account = a => i \in Present' /\ users'[i] = users[i],
           \A i \in Present' : users'[i].account = a => i \in Present /\ users'[i] = users[i],
           cookies \subseteq cookies',
           \A c \in cookies' : c \in cookies \/
              (c.account # a /\ \A i \in Present : users[i].account = a => i # c.id)
    PROVE  Same(a)
<1>0. Been(a)' = Been(a)
  BY DEF Been
<1>1. CASE \E i \in Present : users[i].account = a
  <2>1. PICK i \in Present : users[i].account = a
    BY <1>1
  <2>2. i \in Present' /\ users'[i] = users[i]
    BY <2>1
  <2>3. PasswordOf(a) = users[i].hash /\ PasswordOf(a)' = users'[i].hash
    BY <2>1, <2>2 DEF Reads
  <2>4. /\ Inside(a) = {b \in Browsers : \E c \in cookies :
              /\ c.browser = b /\ c.id = i
              /\ c.version = users[i].version}
        /\ Inside(a)' = {b \in Browsers : \E c \in cookies' :
              /\ c.browser = b /\ c.id = i
              /\ c.version = users[i].version}
    BY <2>1, <2>2 DEF Reads
  <2>5. Inside(a)' = Inside(a)
    BY <2>1, <2>4
  <2>6. QED
    BY <1>0, <2>2, <2>3, <2>5 DEF Same
<1>2. CASE \A i \in Present : users[i].account # a
  <2>1. \A i \in Present' : users'[i].account # a
    BY <1>2
  <2>2. QED
    BY <1>0, <1>2, <2>1 DEF Reads, Same
<1>3. QED
  BY <1>1, <1>2

LEMMA Unread ==
    ASSUME \A a \in Accounts : Same(a)
    PROVE  UNCHANGED S!vars
BY DEF S!vars, Same

\* The other accounts when the row of one is written.
LEMMA OthersWhenWritten ==
    ASSUME IInv, KInv, Reads, Reads', NEW id \in Ids, NEW row, NEW account,
           users' = [users EXCEPT ![id] = row],
           Exists(id) => users[id].account = account,
           row # NoRow => row.account = account,
           cookies \subseteq cookies',
           \A c \in cookies' : c \in cookies \/ (c.account = account /\ c.id = id),
           NEW a, a # account
    PROVE  Same(a)
<1>1. users'[id] = row /\ \A i \in Ids : i # id => users'[i] = users[i]
  BY Others DEF IInv
<1>2. \A i \in Present : users[i].account = a => i \in Present' /\ users'[i] = users[i]
  BY <1>1 DEF Present, Exists
<1>3. \A i \in Present' : users'[i].account = a => i \in Present /\ users'[i] = users[i]
  BY <1>1 DEF Present, Exists
<1>4. \A c \in cookies' : c \in cookies \/
         (c.account # a /\ \A i \in Present : users[i].account = a => i # c.id)
  BY DEF Present
<1>5. QED
  BY <1>2, <1>3, <1>4, OtherAccount

\* Who comes in with a cookie of an older account without a row is a stranger.
LEMMA OlderCookie ==
    ASSUME IInv, Reads, NEW c \in cookies, NEW account \in Accounts,
           c.account < account, \A i \in Present : users[i].account # c.account
    PROVE  c.browser \in S!Strangers(account)
<1>1. c.account \in Accounts /\ c.browser \in Browsers
  BY DEF IInv, TypeOK, Cookie
<1>2. PasswordOf(c.account) = 0
  BY DEF Reads
<1>3. c.browser \in Been(c.account)
  BY <1>1 DEF Been
<1>4. QED
  BY <1>1, <1>2, <1>3 DEF S!Strangers

LEMMA ToStrangers ==
    ASSUME NEW account \in Accounts, Inside(account)' \subseteq S!Strangers(account),
           \A a : a # account => Same(a)
    PROVE  S!LeftToStrangers(account)
<1>1. [a \in Accounts |-> Inside(a)]' =
         [[a \in Accounts |-> Inside(a)] EXCEPT ![account] = Inside(account)']
  BY DEF Same
<1>2. QED
  BY <1>1 DEF S!LeftToStrangers

\* Cookies change nothing in who ever signed in, unless one is added.
LEMMA SameBeen == ASSUME cookies' = cookies PROVE \A a : Been(a)' = Been(a)
BY DEF Been

LEMMA EntersMaps ==
    ASSUME IInv, KInv, Reads, Reads', NEW id, NEW b, Enters(id, b)
    PROVE  S!Next
<1>1. /\ id \in Present /\ id \in Present' /\ users' = users /\ b \in Browsers
      /\ users[id].account \in Accounts /\ users[id].hash # 0
  BY DEF Enters, Present, Exists, IInv, TypeOK, Row
<1>2. PICK account \in Accounts : account = users[id].account
  BY <1>1
<1>3. PICK c : /\ cookies' = cookies \cup {c}
               /\ c.id = id /\ c.browser = b /\ c.account = account
               /\ c.version = users[id].version
  <2>1. PICK c : c = CookieFor(id, b)
    OBVIOUS
  <2>2. /\ c.id = id /\ c.browser = b /\ c.account = account
        /\ c.version = users[id].version
    BY <1>2, <2>1 DEF CookieFor
  <2>3. QED
    BY <2>1, <2>2 DEF Enters
<1>4. PasswordOf(account) = users[id].hash /\ PasswordOf(account)' = users[id].hash
  BY <1>2, <1>1 DEF Reads
<1>5. Inside(account)' = Inside(account) \cup {b}
  <2>1. Inside(account) = {d \in Browsers : \E e \in cookies :
                              e.browser = d /\ e.id = id /\ e.version = users[id].version}
    BY <1>1, <1>2 DEF Reads
  <2>2. Inside(account)' = {d \in Browsers : \E e \in cookies' :
                              e.browser = d /\ e.id = id /\ e.version = users[id].version}
    BY <1>1, <1>2 DEF Reads
  <2>3. QED
    BY <1>1, <1>3, <2>1, <2>2
<1>6. Been(account)' = Been(account) \cup {b}
  BY <1>1, <1>3 DEF Been
<1>7. \A a : a # account => Same(a)
  <2>1. users' = [users EXCEPT ![id] = users[id]] /\ id \in Ids /\ Exists(id)
    BY <1>1 DEF Present, IInv, TypeOK
  <2>2. \A x \in cookies' : x \in cookies \/ (x.account = account /\ x.id = id)
    BY <1>3
  <2>3. cookies \subseteq cookies'
    BY <1>3
  <2>4. QED
    BY <1>2, <2>1, <2>2, <2>3, OthersWhenWritten
<1>8. S!SignIn(account, b)
  BY <1>1, <1>4, <1>5, <1>6, <1>7 DEF S!SignIn, Same
<1>9. QED
  BY <1>1, <1>8 DEF S!Next

\* What is read when the row of an account is written again.
LEMMA RewriteRead ==
    ASSUME IInv, KInv, Reads, Reads', NEW id, NEW row, Rewrites(id, row)
    PROVE  /\ id \in Present /\ id \in Present' /\ users'[id] = row
           /\ row.account = users[id].account /\ row.account \in Accounts
           /\ PasswordOf(row.account) = users[id].hash
           /\ PasswordOf(row.account)' = row.hash
           /\ users[id].hash \in Hashes /\ row.hash \in Hashes
           /\ users[id].version \in Nat /\ row.version \in Nat
<1>1. users'[id] = row /\ row # NoRow /\ row \in Row /\ users[id] \in Row
      /\ id \in Ids /\ Exists(id) /\ row.account = users[id].account
  BY NoRowAssumption, Others DEF Rewrites, IInv, TypeOK, Exists
<1>2. id \in Present /\ id \in Present'
  BY <1>1 DEF Present, Exists
<1>3. QED
  BY <1>1, <1>2, Bounds DEF Reads, Row, Versions

\* Raising the version shuts out all cookies there are.
LEMMA OldCookies ==
    ASSUME IInv, NEW id \in Present, NEW c \in cookies, c.id = id,
           c.account = users[id].account
    PROVE  c.version \in Nat /\ c.version <= users[id].version
BY Bounds DEF IInv, NoneAhead, Ahead, Present, TypeOK, Cookie, Versions

LEMMA TouchesMaps ==
    ASSUME IInv, KInv, Reads, Reads', NEW id, NEW row, Touches(id, row)
    PROVE  UNCHANGED S!vars
<1>1. /\ Rewrites(id, row) /\ cookies' = cookies /\ id \in Ids
      /\ row.version = users[id].version /\ row.hash = users[id].hash
      /\ users' = [users EXCEPT ![id] = row]
  BY DEF Touches, Rewrites
<1>2. PICK account \in Accounts : account = row.account
  BY <1>1, RewriteRead
<1>3. /\ id \in Present /\ id \in Present' /\ users'[id] = row
      /\ users[id].account = account
      /\ PasswordOf(account) = users[id].hash /\ PasswordOf(account)' = row.hash
  BY <1>1, <1>2, RewriteRead
<1>4. Inside(account)' = Inside(account)
  <2>1. Inside(account) = {b \in Browsers : \E c \in cookies :
           c.browser = b /\ c.id = id /\ c.version = row.version}
    BY <1>1, <1>3 DEF Reads
  <2>2. Inside(account)' = {b \in Browsers : \E c \in cookies :
           c.browser = b /\ c.id = id /\ c.version = row.version}
    <3>1. users'[id].account = account /\ users'[id].version = row.version
      BY <1>2, <1>3
    <3>2. id \in Present'
      BY <1>3
    <3>3. QED
      BY <1>1, <3>1, <3>2 DEF Reads
  <2>3. QED
    BY <2>1, <2>2
<1>5. \A a : a # account => Same(a)
  <2>1. cookies \subseteq cookies' /\ \A c \in cookies' : c \in cookies
    BY <1>1
  <2>2. QED
    BY <1>1, <1>2, <1>3, <2>1, OthersWhenWritten
<1>6. Same(account)
  BY <1>1, <1>3, <1>4, SameBeen DEF Same
<1>7. QED
  BY <1>5, <1>6, Unread

LEMMA RevokesMaps ==
    ASSUME IInv, KInv, Reads, Reads', NEW id, NEW row, Revokes(id, row)
    PROVE  S!Next
<1>1. Rewrites(id, row) /\ cookies' = cookies /\ row.version > users[id].version
      /\ (row.hash # users[id].hash => row.hash # 0)
      /\ (row.hash = users[id].hash =>
            \E c \in cookies : c.id = id /\ c.version = users[id].version)
  BY DEF Revokes, Rewrites
<1> DEFINE account == row.account
<1>2. /\ id \in Present /\ id \in Present' /\ users'[id] = row
      /\ account = users[id].account /\ account \in Accounts
      /\ PasswordOf(account) = users[id].hash /\ PasswordOf(account)' = row.hash
      /\ row.hash \in Hashes /\ users[id].version \in Nat /\ row.version \in Nat
  BY <1>1, RewriteRead
<1>3. Inside(account)' \subseteq S!Strangers(account)
  <2> SUFFICES ASSUME NEW b \in Inside(account)'
               PROVE  b \in S!Strangers(account)
    OBVIOUS
  <2>1. PICK c \in cookies : c.browser = b /\ c.id = id /\ c.version = row.version
    BY <1>1, <1>2 DEF Reads
  <2>2. c.account # account
    BY <1>1, <1>2, <2>1, OldCookies
  <2>3. /\ \A i \in Present : users[i].account = c.account => i = id
        /\ c.account <= account
    BY <1>2, <2>1 DEF KInv, CookiesPlaced, Placed
  <2>4. c.account \in Int /\ account \in Int
    BY <1>2, Bounds DEF IInv, TypeOK, Cookie, Accounts
  <2>5. c.account < account /\ \A i \in Present : users[i].account # c.account
    BY <1>2, <2>2, <2>3, <2>4
  <2> HIDE DEF account
  <2>6. QED
    BY <1>2, <2>1, <2>5, OlderCookie
<1>4. \A a : a # account => Same(a)
  <2> HIDE DEF account
  <2>1. cookies \subseteq cookies' /\ \A c \in cookies' : c \in cookies
    BY <1>1
  <2>2. /\ id \in Ids /\ users' = [users EXCEPT ![id] = row]
        /\ users[id].account = account /\ row.account = account
    BY <1>1, <1>2 DEF Rewrites, account
  <2>3. QED
    BY <2>1, <2>2, OthersWhenWritten
<1> HIDE DEF account
<1>5. S!LeftToStrangers(account) /\ \A a : Been(a)' = Been(a)
  BY <1>1, <1>2, <1>3, <1>4, ToStrangers, SameBeen
<1>6. CASE row.hash # users[id].hash
  <2>1. S!SetPassword(account)
    BY <1>1, <1>2, <1>4, <1>5, <1>6 DEF S!SetPassword, S!Secrets, Hashes, Same
  <2>2. QED
    BY <1>2, <2>1 DEF S!Next
<1>7. CASE row.hash = users[id].hash
  <2>1. PICK c \in cookies : c.id = id /\ c.version = users[id].version
    BY <1>1, <1>7
  <2>2. c.browser \in Browsers
    BY DEF IInv, TypeOK, Cookie
  <2>3. c.browser \in Inside(account)
    BY <1>2, <2>1, <2>2 DEF Reads
  <2>4. S!SignOut(account)
    BY <1>2, <1>4, <1>5, <1>7, <2>3 DEF S!SignOut, Same
  <2>5. QED
    BY <1>2, <2>4 DEF S!Next
<1>8. QED
  BY <1>6, <1>7

LEMMA ChangesMaps ==
    ASSUME IInv, KInv, Reads, Reads', NEW id, NEW row, NEW b, Changes(id, row, b)
    PROVE  S!Next
<1>1. /\ Rewrites(id, row) /\ row.version > users[id].version
      /\ row.hash # users[id].hash /\ row.hash # 0 /\ b \in Browsers
      /\ users[id].admin
      /\ \E c \in cookies : /\ c.id = id /\ c.browser = b
                            /\ c.version = users[id].version
                            /\ c.account = users[id].account
  BY DEF Changes, Rewrites
<1> DEFINE account == row.account
<1>2. /\ id \in Present /\ id \in Present' /\ users'[id] = row
      /\ account = users[id].account /\ account \in Accounts
      /\ PasswordOf(account) = users[id].hash /\ PasswordOf(account)' = row.hash
      /\ row.hash \in Hashes /\ users[id].version \in Nat /\ row.version \in Nat
  BY <1>1, RewriteRead
<1>3. PICK new : /\ cookies' = cookies \cup {new}
                 /\ new.id = id /\ new.browser = b /\ new.version = row.version
                 /\ new.account = account
  <2>1. PICK new : new = [id |-> id, version |-> row.version, browser |-> b,
                          account |-> row.account, hash |-> row.hash]
    OBVIOUS
  <2>2. QED
    BY <2>1 DEF Changes
<1>4. b \in Inside(account)
  BY <1>1, <1>2 DEF Reads
<1>5. Inside(account)' = {b}
  <2>0. \A c \in cookies : c.id = id => c.account = account
    BY <1>1, <1>2 DEF KInv, AdminsKnown, Present
  <2>1. \A c \in cookies : c.id = id => c.version # row.version
    BY <1>1, <1>2, <2>0, OldCookies
  <2>2. \A x : (\E c \in cookies' : /\ c.browser = x /\ c.id = id
                                    /\ c.version = row.version) <=> x = b
    BY <1>3, <2>1
  <2>3. Inside(users[id].account)' =
           {x \in Browsers : \E c \in cookies' :
               /\ c.browser = x /\ c.id = id
               /\ c.version = users'[id].version}
    BY <1>2 DEF Reads
  <2>4. users'[id] = row /\ row.account = account /\ b \in Browsers
    BY <1>1, <1>2
  <2>5. QED
    BY <2>2, <2>3, <2>4
<1>6. \A a : a # account => Same(a)
  <2> HIDE DEF account
  <2>1. /\ cookies \subseteq cookies'
        /\ \A c \in cookies' : c \in cookies \/ (c.account = account /\ c.id = id)
    BY <1>3
  <2>2. /\ id \in Ids /\ users' = [users EXCEPT ![id] = row]
        /\ users[id].account = account /\ row.account = account
    BY <1>1, <1>2 DEF Rewrites, account
  <2>3. QED
    BY <2>1, <2>2, OthersWhenWritten
<1> HIDE DEF account
<1>7. Been(account)' = Been(account) \cup {b}
  BY <1>1, <1>3 DEF Been
<1>8. S!ChangeOwn(account, b)
  <2>1. row.hash \in S!Secrets \ {0, PasswordOf(account)}
    BY <1>1, <1>2 DEF S!Secrets, Hashes
  <2>2. [a \in Accounts |-> PasswordOf(a)]' =
           [[a \in Accounts |-> PasswordOf(a)] EXCEPT ![account] = row.hash]
    BY <1>2, <1>6 DEF Same
  <2>3. [a \in Accounts |-> Inside(a)]' =
           [[a \in Accounts |-> Inside(a)] EXCEPT ![account] = {b}]
    BY <1>2, <1>5, <1>6 DEF Same
  <2>4. [a \in Accounts |-> Been(a)]' =
           [[a \in Accounts |-> Been(a)] EXCEPT ![account] = @ \cup {b}]
    BY <1>2, <1>6, <1>7 DEF Same
  <2>5. QED
    BY <1>2, <1>4, <2>1, <2>2, <2>3, <2>4 DEF S!ChangeOwn
<1>9. QED
  BY <1>1, <1>2, <1>8 DEF S!Next

LEMMA CreatesMaps ==
    ASSUME IInv, KInv, Reads, Reads', NEW id, NEW row, Creates(id, row)
    PROVE  S!Next
<1> DEFINE account == row.account
<1>1. /\ id \in Ids /\ ~Exists(id) /\ row \in Row /\ row # NoRow /\ row.hash # 0
      /\ users' = [users EXCEPT ![id] = row] /\ users'[id] = row
      /\ account = accounts + 1 /\ cookies' = cookies /\ accounts \in Nat
      /\ account \in Accounts /\ row.hash \in Hashes
  BY NoRowAssumption, Others DEF Creates, IInv, TypeOK, Row
<1>2. \A i \in Present : users[i].account # account
  <2>1. ASSUME NEW i \in Present
        PROVE  users[i].account \in Nat /\ users[i].account <= accounts
    BY Bounds DEF IInv, TypeOK, Present, Exists, Row, Accounts, GivenOut
  <2>2. QED
    BY <1>1, <2>1
<1>3. \A c \in cookies : c.account < account
  <2>1. ASSUME NEW c \in cookies
        PROVE  c.account \in Nat /\ c.account <= accounts
    BY Bounds DEF IInv, TypeOK, Cookie, Accounts, GivenOut
  <2>2. QED
    BY <1>1, <2>1
<1>4. PasswordOf(account) = 0
  BY <1>2 DEF Reads
<1>5. id \in Present'
  BY <1>1 DEF Present, Exists
<1>6. PasswordOf(account)' = row.hash
  BY <1>1, <1>5 DEF Reads
<1>7. Inside(account)' \subseteq S!Strangers(account)
  <2> SUFFICES ASSUME NEW b \in Inside(account)'
               PROVE  b \in S!Strangers(account)
    OBVIOUS
  <2>1. PICK c \in cookies : c.browser = b /\ c.id = id
    BY <1>1, <1>5 DEF Reads
  <2>2. \A i \in Present : users[i].account # c.account
    BY <1>1, <2>1 DEF KInv, CookiesPlaced, Placed, Present
  <2>3. c.account < account
    BY <1>3
  <2> HIDE DEF account
  <2>4. QED
    BY <1>1, <2>1, <2>2, <2>3, OlderCookie
<1>8. \A a : a # account => Same(a)
  BY <1>1, OthersWhenWritten
<1> HIDE DEF account
<1>9. S!LeftToStrangers(account) /\ \A a : Been(a)' = Been(a)
  BY <1>1, <1>7, <1>8, ToStrangers, SameBeen
<1>10. S!SetPassword(account)
  BY <1>1, <1>4, <1>6, <1>8, <1>9 DEF S!SetPassword, S!Secrets, Hashes, Same
<1>11. QED
  BY <1>1, <1>10 DEF S!Next

LEMMA DeletesMaps ==
    ASSUME IInv, KInv, Reads, Reads', NEW id, Deletes(id)
    PROVE  S!Next \/ UNCHANGED S!vars
<1>1. /\ id \in Ids /\ users' = [users EXCEPT ![id] = NoRow] /\ cookies' = cookies
      /\ users'[id] = NoRow /\ \A i \in Ids : i # id => users'[i] = users[i]
  BY Others DEF Deletes, IInv
<1>2. CASE ~Exists(id)
  <2>1. \A i \in Ids : users'[i] = users[i]
    BY <1>1, <1>2 DEF Exists
  <2>2. Present' = Present
    BY <2>1 DEF Present, Exists
  <2>3. \A a : Same(a)
    BY <1>1, <2>1, <2>2, OtherAccount DEF Present
  <2>4. QED
    BY <2>3, Unread
<1>3. CASE Exists(id)
  <2>1. PICK account \in Accounts : account = users[id].account /\ id \in Present
    BY <1>1, <1>3 DEF Present, Exists, IInv, TypeOK, Row
  <2>2. \A i \in Present' : users'[i].account # account
    BY <1>1, <2>1 DEF Present, Exists, KInv, AccountsApart
  <2>3. PasswordOf(account)' = 0 /\ Inside(account)' = {}
    BY <2>2 DEF Reads
  <2>4. \A a : a # account => Same(a)
    <3>1. ASSUME NEW a, a # account
          PROVE  Same(a)
      <4>1. \A i \in Present : users[i].account = a => i \in Present' /\ users'[i] = users[i]
        BY <1>1, <2>1, <3>1 DEF Present, Exists
      <4>2. \A i \in Present' : users'[i].account = a => i \in Present /\ users'[i] = users[i]
        BY <1>1 DEF Present, Exists
      <4>3. cookies \subseteq cookies' /\ \A c \in cookies' : c \in cookies
        BY <1>1
      <4>4. QED
        BY <4>1, <4>2, <4>3, OtherAccount
    <3>2. QED
      BY <3>1
  <2>5. S!Close(account)
    BY <1>1, <2>3, <2>4, SameBeen DEF S!Close, Same
  <2>6. QED
    BY <2>1, <2>5 DEF S!Next
<1>4. QED
  BY <1>2, <1>3

LEMMA OutcomeMaps ==
    ASSUME IInv, KInv, Reads, Reads', Outcome
    PROVE  S!Next \/ UNCHANGED S!vars
<1>1. CASE Idles
  <2>1. UNCHANGED <<users, cookies>>
    BY <1>1 DEF Idles
  <2>2. \A a : Same(a)
    BY <2>1, OtherAccount DEF Present, Exists
  <2>3. QED
    BY <2>2, Unread
<1>2. QED
  BY <1>1, EntersMaps, TouchesMaps, RevokesMaps, CreatesMaps, ChangesMaps,
     DeletesMaps DEF Outcome

-----------------------------------------------------------------------------
(* Every step has such an outcome.                                         *)

\* A request that goes on with q, or ends.
LEMMA OneKnown ==
    ASSUME IInv, KInv, NEW r \in Requests, NEW q, Known(q),
           req' = [req EXCEPT ![r] = q]
    PROVE  RequestsKnown
BY DEF IInv, TypeOK, KInv, RequestsKnown, Known

LEMMA IdleKnown == Known(Idle)
BY DEF Known, Idle

LEMMA Ended ==
    ASSUME IInv, KInv, NEW r \in Requests, Ends(r)
    PROVE  RequestsKnown
BY IdleKnown, OneKnown DEF Ends

LEMMA NoneKnown ==
    ASSUME KInv, req' = req
    PROVE  RequestsKnown
BY DEF KInv, RequestsKnown

\* An administrator has a password.
LEMMA AdminsHash ==
    ASSUME KInv, NEW id \in Ids, Exists(id), users[id].admin
    PROVE  users[id].hash # 0 /\ SomeAdmin
BY DEF KInv, AdminsKnown, Present, SomeAdmin

LEMMA RegisterCheckOutcome ==
    ASSUME IInv, KInv, NEW r \in Requests, NEW b, NEW name, RegisterCheck(r, b, name)
    PROVE  Outcome /\ RequestsKnown
<1> DEFINE q == [Idle EXCEPT !.op = "register", !.pc = "checked",
                             !.browser = b, !.name = name]
<1>1. q.op = "register" /\ q.pc = "checked"
  BY DEF Idle
<1>2. Known(q)
  BY <1>1 DEF Known
<1>3. req' = [req EXCEPT ![r] = q]
  BY DEF RegisterCheck
<1> HIDE DEF q
<1>4. QED
  BY <1>2, <1>3, OneKnown DEF RegisterCheck, Outcome, Idles

\* The row of a new account.
LEMMA CreateOutcome ==
    ASSUME NEW id \in Ids, ~Exists(id), accounts + 1 \in Accounts,
           NEW name \in Names \cup {Admin}, NEW admin \in BOOLEAN,
           users' = [users EXCEPT ![id] = NewRow(accounts + 1, name, admin, 1)],
           accounts' = accounts + 1, cookies' = cookies,
           admin => /\ \A i \in Present : ~users[i].admin
                    /\ \A r \in Requests : req'[r] = Idle
    PROVE  \E row : Creates(id, row)
<1>1. 1 \in Hashes /\ 0 \in Versions /\ 0 \in 0 .. SoftCap
  BY Bounds, HashAssumption DEF Hashes, Versions
<1>2. PICK row : row = NewRow(accounts + 1, name, admin, 1)
  OBVIOUS
<1>3. row \in Row
  BY <1>1, <1>2 DEF NewRow, Row
<1>4. row.hash # 0 /\ row.account = accounts + 1 /\ row.admin = admin
  BY <1>2 DEF NewRow
<1>5. Creates(id, row)
  BY <1>2, <1>3, <1>4 DEF Creates
<1>6. QED
  BY <1>5

LEMMA RegisterInsertOutcome ==
    ASSUME IInv, KInv, NEW r \in Requests, RegisterInsert(r)
    PROVE  Outcome /\ RequestsKnown
<1>1. /\ TypeOK /\ GivenOut /\ req \in [Requests -> Request] /\ req[r] \in Request
      /\ accounts \in Nat /\ cookies' = cookies
  BY DEF IInv, TypeOK, RegisterInsert
<1>2. CASE Ends(r) /\ UNCHANGED <<users, accounts>>
  BY <1>1, <1>2, Ended DEF Outcome, Idles
<1>3. CASE /\ accounts < MaxAccounts
           /\ users' = [users EXCEPT ![NextId] =
                            NewRow(accounts + 1, req[r].name, FALSE, 1)]
           /\ req' = [req EXCEPT ![r].pc = "inserted", ![r].id = NextId]
           /\ accounts' = accounts + 1
  <2>1. NextId \in Ids /\ ~Exists(NextId)
    BY <1>1, <1>3, NextIdFree
  <2>2. accounts + 1 \in Accounts /\ req[r].name \in Names \cup {Admin}
    BY <1>1, <1>3, Forms, Bounds DEF Accounts
  <2>3. \E row : Creates(NextId, row)
    BY <1>1, <1>3, <2>1, <2>2, CreateOutcome
  <2> DEFINE q == [req[r] EXCEPT !.pc = "inserted", !.id = NextId]
  <2>4. q.op = "register" /\ q.id = NextId
    BY <1>1 DEF Request, RegisterInsert, At
  <2>5. Known(q)
    BY <2>1, <2>4 DEF Known
  <2>6. req' = [req EXCEPT ![r] = q]
    BY <1>1, <1>3
  <2> HIDE DEF q
  <2>7. RequestsKnown
    BY <2>5, <2>6, OneKnown
  <2>8. QED
    BY <2>3, <2>7 DEF Outcome
<1>4. QED
  BY <1>2, <1>3 DEF RegisterInsert

LEMMA RegisterEnterOutcome ==
    ASSUME IInv, KInv, NEW r \in Requests, RegisterEnter(r)
    PROVE  Outcome /\ RequestsKnown
<1>1. /\ Ends(r) /\ UNCHANGED <<users, accounts>>
      /\ req[r].id \in Ids /\ req[r].browser \in Browsers
      /\ Exists(req[r].id) => users[req[r].id].hash # 0
  BY Forms DEF RegisterEnter, At, IInv, TypeOK, LooksRight, Right, KInv, Known
<1>2. CASE Exists(req[r].id)
  <2>1. Enters(req[r].id, req[r].browser)
    BY <1>1, <1>2 DEF RegisterEnter, Enters
  <2>2. QED
    BY <1>1, <2>1, Ended DEF Outcome
<1>3. CASE ~Exists(req[r].id)
  BY <1>1, <1>3, Ended DEF RegisterEnter, Outcome, Idles
<1>4. QED
  BY <1>2, <1>3

LEMMA LoginUserOutcome ==
    ASSUME IInv, KInv, NEW b \in Browsers, NEW id \in Ids, NEW hash,
           LoginUser(b, id, hash)
    PROVE  Outcome /\ RequestsKnown
<1>1. Enters(id, b)
  BY DEF LoginUser, Enters
<1>2. QED
  BY <1>1, NoneKnown DEF LoginUser, Outcome

LEMMA LoginAdminOutcome ==
    ASSUME IInv, KInv, NEW r \in Requests, NEW b \in Browsers, NEW id \in Ids, NEW hash,
           LoginAdmin(r, b, id, hash)
    PROVE  Outcome /\ RequestsKnown
<1>1. /\ Exists(id) /\ users[id].hash # 0 /\ UNCHANGED <<users, accounts>>
  BY AdminsHash DEF LoginAdmin
<1>2. CASE cookies' = cookies \cup {CookieFor(id, b)} /\ UNCHANGED req
  <2>1. Enters(id, b)
    BY <1>1, <1>2 DEF Enters
  <2>2. QED
    BY <1>2, <2>1, NoneKnown DEF Outcome
<1>3. CASE UNCHANGED cookies
           /\ \E pc \in {"locked", "clearing", "failing"} :
                 req' = [req EXCEPT ![r] = [Idle EXCEPT !.op = "login", !.pc = pc,
                                                        !.browser = b, !.id = id]]
  <2>1. PICK pc : req' = [req EXCEPT ![r] = [Idle EXCEPT !.op = "login", !.pc = pc,
                                                         !.browser = b, !.id = id]]
    BY <1>3
  <2> DEFINE q == [Idle EXCEPT !.op = "login", !.pc = pc, !.browser = b, !.id = id]
  <2>2. q.op = "login"
    BY DEF Idle
  <2>3. Known(q)
    BY <2>2 DEF Known
  <2> HIDE DEF q
  <2>4. RequestsKnown
    BY <2>1, <2>3, OneKnown DEF q
  <2>5. QED
    BY <1>1, <1>3, <2>4 DEF Outcome, Idles
<1>4. QED
  BY <1>2, <1>3 DEF LoginAdmin

\* A row that keeps account, version and password.
LEMMA TouchOutcome ==
    ASSUME NEW id \in Ids, Exists(id), NEW row \in Row,
           users' = [users EXCEPT ![id] = row],
           row.admin = users[id].admin, row.account = users[id].account,
           row.version = users[id].version, row.hash = users[id].hash,
           UNCHANGED <<cookies, accounts>>
    PROVE  Outcome
<1>1. row.version \in Nat
  BY Bounds DEF Row, Versions
<1>2. Touches(id, row)
  BY <1>1 DEF Touches, Rewrites
<1>3. QED
  BY <1>2 DEF Outcome

LEMMA TouchLockedOutcome ==
    ASSUME IInv, KInv, NEW r \in Requests, TouchLocked(r)
    PROVE  Outcome /\ RequestsKnown
<1> DEFINE id == req[r].id
           row == [users[id] EXCEPT !.failedAt = TRUE]
<1>1. /\ id \in Ids /\ Exists(id) /\ users[id] \in Row
      /\ users \in [Ids -> Row \cup {NoRow}]
  BY LoginRow DEF TouchLocked, At, IInv, TypeOK
<1>2. users' = [users EXCEPT ![id] = row]
  BY <1>1 DEF TouchLocked
<1>3. row \in Row /\ row.admin = users[id].admin /\ row.account = users[id].account
      /\ row.version = users[id].version /\ row.hash = users[id].hash
  BY <1>1 DEF Row
<1>4. UNCHANGED <<cookies, accounts>> /\ Ends(r)
  BY DEF TouchLocked
<1> HIDE DEF id, row
<1>5. QED
  BY <1>1, <1>2, <1>3, <1>4, TouchOutcome, Ended

LEMMA RecordFailedLoginOutcome ==
    ASSUME IInv, KInv, NEW r \in Requests, RecordFailedLogin(r)
    PROVE  Outcome /\ RequestsKnown
<1> DEFINE id == req[r].id
           row == [users[id] EXCEPT !.fails = CountedFails(users[id]), !.failedAt = TRUE,
                                    !.locked = IF @ = "passed" THEN "no" ELSE @]
<1>1. /\ id \in Ids /\ Exists(id) /\ users[id] \in Row
      /\ users[id].fails \in 0 .. SoftCap
  BY LoginRow, Forms DEF RecordFailedLogin, At
<1>2. users' = [users EXCEPT ![id] = row]
  BY DEF RecordFailedLogin
<1>3. CountedFails(users[id]) \in 0 .. SoftCap
  BY <1>1, Bounds DEF CountedFails
<1>4. row \in Row /\ row.admin = users[id].admin /\ row.account = users[id].account
      /\ row.version = users[id].version /\ row.hash = users[id].hash
  BY <1>1, <1>3 DEF Row
<1>5. UNCHANGED <<cookies, accounts>> /\ Ends(r)
  BY DEF RecordFailedLogin
<1> HIDE DEF id, row
<1>6. QED
  BY <1>1, <1>2, <1>4, <1>5, TouchOutcome, Ended

LEMMA ResetLoginCounterOutcome ==
    ASSUME IInv, KInv, NEW r \in Requests, ResetLoginCounter(r)
    PROVE  Outcome /\ RequestsKnown
<1> DEFINE id == req[r].id
           row == [users[id] EXCEPT !.fails = 0, !.locked = "no", !.failedAt = FALSE]
           q == [req[r] EXCEPT !.pc = "cleared"]
<1>1. /\ id \in Ids /\ Exists(id) /\ users[id] \in Row
      /\ users \in [Ids -> Row \cup {NoRow}]
      /\ req[r] \in Request /\ req[r].op = "login" /\ req \in [Requests -> Request]
  BY LoginRow DEF ResetLoginCounter, At, IInv, TypeOK
<1>2. users' = [users EXCEPT ![id] = row]
  BY <1>1 DEF ResetLoginCounter
<1>3. 0 \in 0 .. SoftCap
  BY Bounds
<1>4. row \in Row /\ row.admin = users[id].admin /\ row.account = users[id].account
      /\ row.version = users[id].version /\ row.hash = users[id].hash
  BY <1>3, <1>1 DEF Row
<1>5. UNCHANGED <<cookies, accounts>>
  BY DEF ResetLoginCounter
<1>6. Known(q) /\ req' = [req EXCEPT ![r] = q]
  <2>1. q.op = "login"
    BY <1>1 DEF Request
  <2>2. req' = [req EXCEPT ![r] = q]
    BY <1>1 DEF ResetLoginCounter, Goes
  <2>3. QED
    BY <2>1, <2>2 DEF Known
<1> HIDE DEF id, row, q
<1>7. QED
  BY <1>1, <1>2, <1>4, <1>5, <1>6, TouchOutcome, OneKnown

LEMMA EnterAdminOutcome ==
    ASSUME IInv, KInv, NEW r \in Requests, EnterAdmin(r)
    PROVE  Outcome /\ RequestsKnown
<1>1. /\ req[r].id \in Ids /\ Exists(req[r].id) /\ req[r].browser \in Browsers
      /\ users[req[r].id].admin
  BY LoginRow DEF EnterAdmin, At
<1>2. Enters(req[r].id, req[r].browser)
  BY <1>1, AdminsHash DEF EnterAdmin, Enters
<1>3. QED
  BY <1>2, Ended DEF EnterAdmin, Outcome

LEMMA LogoutOutcome ==
    ASSUME IInv, KInv, NEW c \in cookies, Logout(c)
    PROVE  Outcome /\ RequestsKnown
<1> DEFINE row == [users[c.id] EXCEPT !.version = @ + 1]
<1>1. /\ c.id \in Ids /\ Exists(c.id) /\ users[c.id] \in Row
      /\ users \in [Ids -> Row \cup {NoRow}]
  BY Forms DEF Logout, Accepted, IInv, TypeOK, Exists
<1>2. users[c.id].version \in Nat /\ users[c.id].version + 1 \in Versions
  BY <1>1, Bounds DEF Row, Versions, Logout
<1>3. users' = [users EXCEPT ![c.id] = row]
  BY <1>1 DEF Logout
<1>4. row \in Row /\ row.admin = users[c.id].admin /\ row.account = users[c.id].account
      /\ row.version = users[c.id].version + 1 /\ row.hash = users[c.id].hash
  BY <1>1, <1>2 DEF Row
<1>5. row.version > users[c.id].version /\ row.version >= users[c.id].version
  BY <1>2, <1>4
<1> HIDE DEF row
<1>6. accounts' = accounts /\ cookies' = cookies
  BY DEF Logout
<1>7. Rewrites(c.id, row)
  BY <1>1, <1>3, <1>4, <1>5, <1>6 DEF Rewrites
<1>8. Revokes(c.id, row)
  BY <1>5, <1>6, <1>7 DEF Revokes, Logout, Accepted
<1>9. QED
  BY <1>8, NoneKnown DEF Logout, Outcome

LEMMA AdminAsksOutcome ==
    ASSUME IInv, KInv, NEW r \in Requests, NEW c \in cookies, NEW op \in {"reset", "delete"},
           NEW id, AdminAsks(r, c, op, id)
    PROVE  Outcome /\ RequestsKnown
<1> DEFINE q == [Idle EXCEPT !.op = op, !.pc = "allowed",
                             !.browser = c.browser, !.id = id]
<1>1. q.op = op
  BY DEF Idle
<1>2. SomeAdmin
  BY Forms, AdminsHash DEF AdminAsks, AcceptedAsAdmin, Accepted, IInv, TypeOK
<1>3. Known(q)
  BY <1>1, <1>2 DEF Known
<1>4. req' = [req EXCEPT ![r] = q]
  BY DEF AdminAsks
<1> HIDE DEF q
<1>5. QED
  BY <1>3, <1>4, OneKnown DEF AdminAsks, Outcome, Idles

LEMMA AdminLoadsOutcome ==
    ASSUME IInv, KInv, NEW r \in Requests, AdminLoads(r)
    PROVE  Outcome /\ RequestsKnown
<1> DEFINE q == [req[r] EXCEPT !.pc = "loaded", !.version = users[req[r].id].version]
<1>1. /\ req[r] \in Request /\ req[r].op \in {"reset", "delete"}
      /\ req \in [Requests -> Request] /\ SomeAdmin
  BY DEF AdminLoads, IInv, TypeOK, KInv, Known
<1>2. CASE Ends(r)
  BY <1>2, Ended DEF AdminLoads, Outcome, Idles
<1>3. CASE req' = [req EXCEPT ![r].pc = "loaded",
                              ![r].version = users[req[r].id].version]
  <2>1. q.op = req[r].op
    BY <1>1 DEF Request
  <2>2. Known(q)
    BY <1>1, <2>1 DEF Known
  <2>3. req' = [req EXCEPT ![r] = q]
    BY <1>1, <1>3
  <2> HIDE DEF q
  <2>4. QED
    BY <2>2, <2>3, OneKnown DEF AdminLoads, Outcome, Idles
<1>4. QED
  BY <1>2, <1>3 DEF AdminLoads

LEMMA ResetPasswordOutcome ==
    ASSUME IInv, KInv, NEW r \in Requests, ResetPassword(r)
    PROVE  Outcome /\ RequestsKnown
<1> DEFINE id == req[r].id
<1>1. /\ id \in Ids /\ users \in [Ids -> Row \cup {NoRow}]
      /\ UNCHANGED <<cookies, accounts>> /\ Ends(r)
  BY Forms DEF ResetPassword, IInv, TypeOK
<1>2. CASE UNCHANGED users
  BY <1>1, <1>2, Ended DEF Outcome, Idles
<1>3. CASE /\ Exists(id) /\ users[id].hash < MaxHash
           /\ users[id].version < MaxVersion
           /\ users' = [users EXCEPT ![id] =
                           NewPassword(users[id], users[id].version + 1)]
  <2>1. users[id] \in Row /\ users[id].version \in Nat /\ users[id].hash \in Nat
        /\ users[id].version + 1 \in Versions
    <3>1. users[id] \in Row
      BY <1>1, <1>3 DEF Exists
    <3>2. users[id].version \in 0 .. MaxVersion /\ users[id].hash \in 0 .. MaxHash
      BY <3>1 DEF Row, Versions, Hashes
    <3>3. QED
      BY <1>3, <3>1, <3>2, Bounds DEF Versions
  <2>2. PICK row : row = NewPassword(users[id], users[id].version + 1)
    OBVIOUS
  <2>3. /\ row \in Row /\ row.admin = users[id].admin /\ row.account = users[id].account
        /\ row.version = users[id].version + 1 /\ row.hash = users[id].hash + 1
    BY <1>3, <2>1, <2>2, NewPasswordFacts
  <2> HIDE DEF id
  <2>4. Revokes(id, row)
    BY <1>1, <1>3, <2>1, <2>2, <2>3 DEF Revokes, Rewrites
  <2>5. QED
    BY <1>1, <2>4, Ended DEF Outcome
<1>4. QED
  BY <1>1, <1>2, <1>3 DEF ResetPassword

LEMMA DeleteUserOutcome ==
    ASSUME IInv, KInv, NEW r \in Requests, DeleteUser(r)
    PROVE  Outcome /\ RequestsKnown
<1>1. /\ req[r].id \in Ids /\ (Exists(req[r].id) => ~users[req[r].id].admin)
      /\ SomeAdmin
  BY Forms DEF DeleteUser, At, IInv, TypeOK, LooksRight, Right, KInv, Known
<1>2. Deletes(req[r].id)
  BY <1>1 DEF Deletes, DeleteUser
<1>3. QED
  BY <1>2, Ended DEF DeleteUser, Outcome

LEMMA ChangeAsksOutcome ==
    ASSUME IInv, KInv, NEW r \in Requests, NEW c \in cookies, NEW hash,
           ChangeAsks(r, c, hash)
    PROVE  Outcome /\ RequestsKnown
<1> DEFINE q == [Idle EXCEPT !.op = "change", !.pc = "loaded", !.browser = c.browser,
                             !.id = c.id, !.version = c.version, !.hash = hash]
<1>1. /\ q.op = "change" /\ q.id = c.id /\ q.browser = c.browser
      /\ q.version = c.version
  BY DEF Idle
<1>2. users[c.id].account = c.account
  BY DEF ChangeAsks, AcceptedAsAdmin, Accepted, KInv, AdminsKnown
<1>3. Known(q)
  BY <1>1, <1>2 DEF Known, CameWith
<1>4. req' = [req EXCEPT ![r] = q]
  BY DEF ChangeAsks
<1> HIDE DEF q
<1>5. QED
  BY <1>3, <1>4, OneKnown DEF ChangeAsks, Outcome, Idles

LEMMA ChangeOwnOutcome ==
    ASSUME IInv, KInv, NEW r \in Requests, ChangeOwn(r)
    PROVE  Outcome /\ RequestsKnown
<1> DEFINE id == req[r].id
           b == req[r].browser
           version == req[r].version + 1
<1>1. /\ id \in Ids /\ Exists(id) /\ users[id] \in Row /\ b \in Browsers
      /\ users[id].admin /\ Ends(r) /\ accounts' = accounts
  BY LoginRow DEF ChangeOwn, At
<1>2. PICK c \in cookies : c.id = id /\ c.browser = b /\ c.version = req[r].version
                           /\ c.account = users[id].account
  BY DEF KInv, Known, CameWith, ChangeOwn, At
<1>3. CASE UNCHANGED <<users, cookies>>
  BY <1>1, <1>3, Ended DEF Outcome, Idles
<1>4. CASE /\ StillAsLoaded(r)
           /\ req[r].hash < MaxHash /\ req[r].version < MaxVersion
           /\ users' = [users EXCEPT ![id] = NewPassword(users[id], version)]
           /\ cookies' = cookies \cup
                {[id |-> id, version |-> NewPassword(users[id], version).version,
                  browser |-> b,
                  account |-> NewPassword(users[id], version).account,
                  hash |-> NewPassword(users[id], version).hash]}
  <2>1. /\ users[id].version = req[r].version /\ users[id].hash < MaxHash
        /\ users[id].version \in Nat /\ version \in Versions
        /\ version > users[id].version /\ users[id].hash \in Nat
    <3>1. users[id].version = req[r].version /\ users[id].hash < MaxHash
      BY <1>4 DEF StillAsLoaded
    <3>2. users[id].version \in Nat /\ users[id].hash \in Nat
      BY <1>1, Bounds DEF Row, Versions, Hashes
    <3>3. version \in Versions /\ version > users[id].version
      BY <1>4, <3>1, <3>2, Bounds DEF Versions
    <3>4. QED
      BY <3>1, <3>2, <3>3
  <2>2. PICK row : row = NewPassword(users[id], version)
    OBVIOUS
  <2> HIDE DEF id, b, version
  <2>3. /\ row \in Row /\ row.admin = users[id].admin /\ row.account = users[id].account
        /\ row.version = version /\ row.hash = users[id].hash + 1
    BY <1>1, <2>1, <2>2, NewPasswordFacts
  <2>4. row.hash # 0 /\ row.hash # users[id].hash /\ row.version >= users[id].version
        /\ row.version > users[id].version
    <3>1. version \in Nat
      BY <2>1, Bounds DEF Versions
    <3>2. QED
      BY <2>1, <2>3, <3>1
  <2>5. users' = [users EXCEPT ![id] = row]
    BY <1>4, <2>2 DEF id, version
  <2>6. Rewrites(id, row)
    BY <1>1, <2>3, <2>4, <2>5 DEF Rewrites
  <2>7. Changes(id, row, b)
    BY <1>1, <1>2, <1>4, <2>1, <2>2, <2>6, <2>4 DEF Changes, id, b, version
  <2>8. QED
    BY <1>1, <2>7, Ended DEF Outcome
<1>5. QED
  BY <1>3, <1>4 DEF ChangeOwn

LEMMA RestartOutcome ==
    ASSUME IInv, KInv, Restart
    PROVE  Outcome /\ RequestsKnown
<1>1. (\A r \in Requests : req'[r] = Idle) /\ cookies' = cookies
  BY DEF Restart
<1>2. RequestsKnown
  BY <1>1, IdleKnown DEF RequestsKnown
<1>3. CASE UNCHANGED <<users, accounts>>
  BY <1>1, <1>2, <1>3 DEF Outcome, Idles
<1>4. CASE /\ Called(Admin) = {} /\ accounts < MaxAccounts
           /\ users' = [users EXCEPT ![NextId] = NewRow(accounts + 1, Admin, TRUE, 1)]
           /\ accounts' = accounts + 1
  <2>1. accounts \in Nat /\ accounts + 1 \in Accounts
    BY <1>4, Bounds DEF IInv, TypeOK, Accounts
  <2>2. NextId \in Ids /\ ~Exists(NextId)
    BY <1>4, NextIdFree DEF IInv
  <2>3. \A i \in Present : ~users[i].admin
    BY <1>4 DEF IInv, OneAdmin, Called
  <2>4. \E row : Creates(NextId, row)
    BY <1>1, <1>4, <2>1, <2>2, <2>3, CreateOutcome
  <2>5. QED
    BY <1>2, <2>4 DEF Outcome
<1>5. QED
  BY <1>3, <1>4 DEF Restart

LEMMA LockOutcome ==
    ASSUME IInv, KInv, NEW id \in Ids, OperatorLocks(id) \/ LockPasses(id)
    PROVE  Outcome /\ RequestsKnown
<1>1. Exists(id) /\ users[id] \in Row /\ users \in [Ids -> Row \cup {NoRow}]
  BY DEF OperatorLocks, LockPasses, IInv, TypeOK, Exists
<1>2. PICK locked \in {"ahead", "passed"} : users' = [users EXCEPT ![id].locked = locked]
  BY DEF OperatorLocks, LockPasses
<1> DEFINE row == [users[id] EXCEPT !.locked = locked]
<1>3. users' = [users EXCEPT ![id] = row]
  BY <1>1, <1>2
<1>4. row \in Row /\ row.admin = users[id].admin /\ row.account = users[id].account
      /\ row.version = users[id].version /\ row.hash = users[id].hash
  BY <1>1 DEF Row
<1>5. UNCHANGED <<cookies, req, accounts>>
  BY DEF OperatorLocks, LockPasses
<1> HIDE DEF row
<1>6. QED
  BY <1>1, <1>3, <1>4, <1>5, TouchOutcome, NoneKnown

LEMMA StepOutcome == IInv /\ KInv /\ [Next]_vars => Outcome /\ RequestsKnown
<1> SUFFICES ASSUME IInv, KInv, [Next]_vars
             PROVE  Outcome /\ RequestsKnown
  OBVIOUS
<1>1. ASSUME NEW r \in Requests, Step(r)
      PROVE  Outcome /\ RequestsKnown
  BY <1>1, RegisterInsertOutcome, RegisterEnterOutcome, TouchLockedOutcome,
     RecordFailedLoginOutcome, ResetLoginCounterOutcome, EnterAdminOutcome,
     AdminLoadsOutcome, ResetPasswordOutcome, DeleteUserOutcome, ChangeOwnOutcome
     DEF Step
<1>2. ASSUME NEW r \in Requests, NEW b \in Browsers,
             \/ \E name \in Names : RegisterCheck(r, b, name)
             \/ \E id \in Ids, hash \in Hashes \ {0} : LoginAdmin(r, b, id, hash)
      PROVE  Outcome /\ RequestsKnown
  BY <1>2, RegisterCheckOutcome, LoginAdminOutcome
<1>3. ASSUME NEW r \in Requests, NEW c \in cookies,
             \/ \E op \in {"reset", "delete"}, id \in Ids : AdminAsks(r, c, op, id)
             \/ \E hash \in Hashes \ {0} : ChangeAsks(r, c, hash)
      PROVE  Outcome /\ RequestsKnown
  BY <1>3, AdminAsksOutcome, ChangeAsksOutcome
<1>4. ASSUME NEW b \in Browsers, NEW id \in Ids, NEW hash, LoginUser(b, id, hash)
      PROVE  Outcome /\ RequestsKnown
  BY <1>4, LoginUserOutcome
<1>5. ASSUME NEW c \in cookies, Logout(c)
      PROVE  Outcome /\ RequestsKnown
  BY <1>5, LogoutOutcome
<1>6. ASSUME NEW id \in Ids, OperatorLocks(id) \/ LockPasses(id)
      PROVE  Outcome /\ RequestsKnown
  BY <1>6, LockOutcome
<1>7. CASE Restart
  BY <1>7, RestartOutcome
<1>8. CASE UNCHANGED vars
  BY <1>8, NoneKnown DEF vars, Outcome, Idles
<1>9. QED
  BY <1>1, <1>2, <1>3, <1>4, <1>5, <1>6, <1>7, <1>8 DEF Next

-----------------------------------------------------------------------------
(* The theorems.                                                           *)

LEMMA InitKInv == Init => KInv
<1> SUFFICES ASSUME Init
             PROVE  KInv
  OBVIOUS
<1>1. \A i \in Present : i = 1 /\ ~users[i].admin
  <2>1. ASSUME NEW name \in Names, NEW hash \in {0, 1}
        PROVE  ~LegacyRow(name, hash).admin
    BY DEF LegacyRow, NewRow
  <2>2. QED
    BY <2>1 DEF Init, Present, Exists
<1>2. AccountsApart
  BY <1>1 DEF AccountsApart
<1>3. AdminsKnown
  BY <1>1 DEF AdminsKnown, Init
<1>4. \A r \in Requests : Known(req[r])
  BY IdleKnown DEF Init
<1>5. CookiesPlaced
  BY DEF CookiesPlaced, Init
<1>6. QED
  BY <1>2, <1>3, <1>4, <1>5 DEF KInv

\* Accounts have one row each, administrators a password and cookies of their
\* own, and requests go on with what they may know.
THEOREM KnownInductive == Spec => []KInv
<1>1. IInv /\ KInv /\ [Next]_vars => KInv'
  BY StepEffect, StepOutcome, KInvKept DEF Effect
<1>2. QED
  BY InitKInv, Inductive, <1>1, PTL DEF Spec

LEMMA InitMaps == Init => S!Init
<1> SUFFICES ASSUME Init
             PROVE  S!Init
  OBVIOUS
<1>1. Reads
  BY InitKInv, Reading DEF KInv
<1>2. \A i \in Present : users[i].hash \in {0, 1}
  <2>1. ASSUME NEW name \in Names, NEW hash \in {0, 1}
        PROVE  LegacyRow(name, hash).hash \in {0, 1}
    BY DEF LegacyRow, NewRow
  <2>2. QED
    BY <2>1 DEF Init, Present, Exists
<1>3. \A a : PasswordOf(a) \in {0, 1}
  <2> SUFFICES ASSUME NEW a
               PROVE  PasswordOf(a) \in {0, 1}
    OBVIOUS
  <2>1. CASE \E i \in Present : users[i].account = a
    BY <1>1, <1>2, <2>1 DEF Reads
  <2>2. CASE \A i \in Present : users[i].account # a
    BY <1>1, <2>2 DEF Reads
  <2>3. QED
    BY <2>1, <2>2
<1>4. \A a : Inside(a) = {} /\ Been(a) = {}
  BY DEF Init, Inside, Been
<1>5. QED
  BY <1>3, <1>4 DEF S!Init

\* Whatever copies of old cookies come back and however changes overlap, the
\* server lets in who signed in and was not shut out since, and beside them only
\* browsers of deleted accounts that were older.
THEOREM SignedInImplemented == Spec => ImplementsSignedIn
<1>1. IInv /\ KInv /\ KInv' /\ [Next]_vars => [S!Next]_(S!vars)
  <2> SUFFICES ASSUME IInv, KInv, KInv', [Next]_vars
               PROVE  S!Next \/ UNCHANGED S!vars
    OBVIOUS
  <2>1. Reads
    BY Reading DEF KInv
  <2>2. Reads'
    <3>1. AccountsApart'
      BY DEF KInv
    <3>2. QED
      BY <3>1, Reading, PTL
  <2>3. QED
    BY <2>1, <2>2, StepOutcome, OutcomeMaps
<1>2. QED
  BY InitMaps, Inductive, KnownInductive, <1>1, PTL DEF Spec, ImplementsSignedIn, S!Spec

\* Nobody acts as an administrator with a cookie of another account, although
\* ids are given out again: no deletion comes before the administrator, and none
\* removes her row.
THEOREM AdminsOwnTheirs == Spec => []AdminsOwn
<1>1. KInv => AdminsOwn
  BY DEF KInv, AdminsKnown, AdminsOwn, AcceptedAsAdmin, Accepted
<1>2. QED
  BY <1>1, KnownInductive, PTL
=============================================================================
