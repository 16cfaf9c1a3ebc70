---------------------------- MODULE CriteriaSync ----------------------------
(***************************************************************************)
(* Evaluation criteria: documents in a cloud store, an alias map document  *)
(* in the same store that says which of them are active, and a table that  *)
(* caches both.  There is no transaction over the cloud, so the router     *)
(* orders its calls, marks the table as in need of a resync when one of    *)
(* them fails, and reconcile repairs it.                                   *)
(*                                                                         *)
(* Changes and reconcile run under alias_map_mutation_lock.  Searches read *)
(* the alias map without it, and remove older versions of it they find.    *)
(* reconcile in a request only flushes its rows: the transaction is        *)
(* committed after the response, when the lock is long released.           *)
(***************************************************************************)
EXTENDS Integers, Sequences, FiniteSets

CONSTANTS
    Requests,   \* requests in flight
    Criteria,   \* stable_ids
    Legacy,     \* surrogates of documents without a stable_id
    Aliases,    \* names an administrator may give
    Ops,        \* what requests do
    Faults,     \* what may go wrong
    MaxTime,    \* bound: alias maps published, and so values of updated_at
    Reserve,    \* bound: how many of those changes leave to repairs, if any
    MaxFaults   \* bound: faults in one behaviour

Changes == {"upload", "delete", "replace", "rename", "activate", "deactivate"}
Repairs == {"list", "resync", "boot"}

ASSUME CriteriaAssumption ==
    /\ "free" \notin Requests
    /\ Criteria # {} /\ Legacy \subseteq Criteria
    /\ Ops \subseteq Changes \cup {"list", "resync", "search"}
    /\ Faults \subseteq {"call", "late", "crash", "db", "foreign"}
    /\ MaxTime \in Nat \ {0} /\ Reserve \in Nat /\ MaxFaults \in Nat

VARIABLES
    docs,       \* criteria documents in the cloud store
    lateDocs,   \* uploads that timed out and may still appear
    maps,       \* alias map documents in the cloud store
    lateMaps,   \* and those that may still appear
    clock,      \* the last updated_at
    minted,     \* stable_ids given out so far
    cache,      \* rows of the criteria table
    sync,       \* criteria_sync_state
    stamp,      \* criteria_last_alias_map_updated_at
    tx,         \* a reconcile that was flushed and is not committed
    lock,       \* the holder of alias_map_mutation_lock
    req,        \* the requests
    acked,      \* what administrators were last acked of each criterion
    faults      \* faults so far

cloud == <<docs, lateDocs, maps, lateMaps, clock, minted>>
table == <<cache, sync, stamp>>
quiet == <<acked, faults>>
vars == <<cloud, table, tx, lock, req, quiet>>

NoAlias == "none"
Entry == [status : {"active", "uploaded"}, alias : Aliases \cup {NoAlias}]
Absent == [status |-> "absent", alias |-> NoAlias]
Unknown == [status |-> "unknown", alias |-> NoAlias]
Shared == [status |-> "shared", alias |-> NoAlias]   \* another instance changed it
Slot == Entry \cup {Absent}
NewEntry == [status |-> "active", alias |-> NoAlias]

Rows == [Criteria -> Slot]
NoRows == [c \in Criteria |-> Absent]
Map == [at : 1 .. MaxTime, entries : Rows]
NoMap == [at |-> 0, entries |-> NoRows]

Free == "free"
Tx == [cache : Rows, sync : {"none", "ok", "needs_resync"}, stamp : 0 .. MaxTime]

\* Mutant: the old map is deleted before the new one is uploaded.
StatusRetireFirst == <<"fetch", "retire", "publish", "load", "commit">>

\* The steps of the handlers: calls of the cloud, and rows read and written.
Status == <<"fetch", "publish", "retire", "load", "commit">>
Repair == <<"guard", "list", "fetch", "publish", "retire", "commit">>
Plan == [upload     |-> <<"add", "fetch", "publish", "retire", "commit">>,
         delete     |-> <<"fetch", "remove", "publish", "retire", "commit">>,
         replace    |-> <<"fetch", "add", "publish", "retire", "remove", "commit">>,
         rename     |-> Status, activate |-> Status, deactivate |-> Status,
         list       |-> Repair, resync |-> Repair, boot |-> Repair,
         search     |-> <<"look", "clean">>]

\* The steps that are taken under the lock, and the others.
Working == {"add", "fetch", "remove", "publish", "retire", "load", "commit",
            "guard", "list", "recover", "mark"}
Steps == Working \cup {"idle", "waiting", "look", "clean", "closing"}

\* What follows a step that went well.
After(q) == CHOOSE s \in Steps : \E i \in 1 .. Len(Plan[q.op]) - 1 :
                Plan[q.op][i] = q.step /\ Plan[q.op][i + 1] = s

Request == [op : Changes \cup Repairs \cup {"search", "none"}, step : Steps,
            sid : Criteria, new : Criteria, alias : Aliases \cup {NoAlias},
            base : Map \cup {NoMap}, mine : Map \cup {NoMap}, listed : SUBSET Criteria,
            stale : SUBSET (1 .. MaxTime), seen : Rows, retry : BOOLEAN]

AnyCriterion == CHOOSE c \in Criteria : TRUE
Idle == [op |-> "none", step |-> "idle", sid |-> AnyCriterion, new |-> AnyCriterion,
         alias |-> NoAlias, base |-> NoMap, mine |-> NoMap, listed |-> {},
         stale |-> {}, seen |-> NoRows, retry |-> FALSE]
Waiting(op, c, a) == [Idle EXCEPT !.op = op, !.step = "waiting", !.sid = c, !.alias = a]

TypeOK ==
    /\ docs \subseteq Criteria /\ lateDocs \subseteq Criteria
    /\ maps \subseteq Map /\ lateMaps \subseteq Map
    /\ clock \in 0 .. MaxTime
    /\ minted \subseteq Criteria
    /\ cache \in Rows
    /\ sync \in {"none", "ok", "needs_resync"}
    /\ stamp \in 0 .. MaxTime
    /\ tx \subseteq Tx /\ \A s, t \in tx : s = t
    /\ lock \in Requests \cup {Free}
    /\ req \in [Requests -> Request]
    /\ acked \in [Criteria -> Slot \cup {Unknown, Shared}]
    /\ faults \in 0 .. MaxFaults

-----------------------------------------------------------------------------
(* The alias map that counts is the newest.                                *)

Newest(M) == CHOOSE m \in M \cup {NoMap} : \A n \in M : n.at <= m.at
Truth == Newest(maps)

\* reconcile's guard: nothing has changed in the cloud since the last one.
WouldSkip == sync = "ok" /\ stamp # 0 /\ Truth.at = stamp

\* A surrogate cannot be searched for, so it must not be active.
Normal(c, e) ==
    IF c \in Legacy /\ e.status = "active" THEN [e EXCEPT !.status = "uploaded"] ELSE e

\* reconcile: entries without a document go, documents without an entry get one.
Cleaned(q) ==
    [c \in Criteria |->
        IF c \notin q.listed THEN Absent
        ELSE Normal(c, IF q.base.entries[c] = Absent THEN NewEntry ELSE q.base.entries[c])]

\* The entries a request publishes.
Edited(q) ==
    LET old == q.base.entries
    IN  CASE q.op = "upload"     -> [old EXCEPT ![q.new] = NewEntry]
          [] q.op = "delete"     -> [old EXCEPT ![q.sid] = Absent]
          [] q.op = "replace"    -> [old EXCEPT ![q.sid] = Absent,
                                                ![q.new] = [NewEntry EXCEPT !.alias = old[q.sid].alias]]
          [] q.op = "rename"     -> [old EXCEPT ![q.sid].alias = q.alias]
          [] q.op = "activate"   -> [old EXCEPT ![q.sid].status = "active"]
          [] q.op = "deactivate" -> [old EXCEPT ![q.sid].status = "uploaded"]
          [] q.op \in Repairs    -> Cleaned(q)

\* The criteria a request changes.
Touched(q) == CASE q.op \in Repairs -> {}
                [] q.op = "upload"  -> {q.new}
                [] q.op = "replace" -> {q.sid, q.new}
                [] OTHER            -> {q.sid}

\* What is known of them from now on.
Tell(criteria, slots) ==
    acked' = [c \in Criteria |->
                IF c \in criteria /\ acked[c] # Shared THEN slots[c] ELSE acked[c]]

\* Rows after the request: only the columns that differ from what was loaded
\* are written, and only into rows that are there.
Written(q) ==
    LET e == q.mine.entries
        status(c) == IF q.op \in {"activate", "deactivate"} /\ q.seen[c].status # e[c].status
                     THEN e[c].status ELSE cache[c].status
        alias(c) == IF q.op = "rename" /\ c = q.sid /\ q.seen[c].alias # q.alias
                    THEN q.alias ELSE cache[c].alias
    IN  [c \in Criteria |->
            IF Absent \in {e[c], q.seen[c], cache[c]} THEN cache[c]
            ELSE [status |-> status(c), alias |-> alias(c)]]

Stored(q) ==
    CASE q.op = "upload"  -> [cache EXCEPT ![q.new] = NewEntry]
      [] q.op = "delete"  -> [cache EXCEPT ![q.sid] = Absent]
      [] q.op = "replace" -> [cache EXCEPT ![q.sid] = Absent, ![q.new] = q.mine.entries[q.new]]
      [] OTHER            -> Written(q)

-----------------------------------------------------------------------------
(* Requests.                                                               *)

Init ==
    /\ docs \in SUBSET Criteria
    /\ \/ maps = {}
       \/ \E e \in Rows : maps = {[at |-> 1, entries |-> e]}
    /\ minted = docs \cup Legacy \cup {c \in Criteria : \E m \in maps : m.entries[c] # Absent}
    /\ lateDocs = {} /\ lateMaps = {} /\ clock = 1
    /\ cache = NoRows /\ sync = "none" /\ stamp = 0
    /\ tx = {} /\ lock = Free
    /\ \E r \in Requests : req = [[s \in Requests |-> Idle] EXCEPT
                                    ![r] = Waiting("boot", AnyCriterion, NoAlias)]
    /\ acked = [c \in Criteria |-> Unknown]
    /\ faults = 0

At(r, step) == req[r].step = step
Set(r, q) == req' = [req EXCEPT ![r] = q]
Go(r, step) == req' = [req EXCEPT ![r].step = step]
Proceed(r) == Go(r, After(req[r]))

\* A handler ends, and the lock is released with it.
Return(r) ==
    /\ req' = [req EXCEPT ![r] = Idle]
    /\ lock' = IF lock = r THEN Free ELSE lock

\* Bounds: there are stable_ids for the uploads in flight, and changes leave
\* alias maps for repairs to publish.
InFlight(ops) == Cardinality({r \in Requests : req[r].op \in ops})
Room(op) ==
    /\ op \in {"upload", "replace"} =>
          InFlight({"upload", "replace"}) < Cardinality(Criteria \ minted)
    /\ op \in Changes => Reserve = 0 \/ clock + InFlight(Changes) + Reserve < MaxTime

\* Changes are accepted only while the table is in sync; the state is read
\* before the request waits for the lock.
Arrive(r) ==
    /\ At(r, "idle")
    /\ \E op \in Ops, c \in Criteria, a \in Aliases \cup {NoAlias} :
          /\ op \in Changes => sync = "ok"
          /\ Room(op)
          /\ op = "replace" => c \in Legacy
          /\ op = "activate" => c \notin Legacy
          /\ op # "rename" => a = NoAlias
          /\ op # "list" /\ (op \in {"upload", "resync", "search"} => c = AnyCriterion)
          /\ Set(r, [Waiting(op, c, a) EXCEPT !.step = IF op = "search" THEN "look" ELSE @])
    /\ UNCHANGED <<cloud, table, tx, lock, quiet>>

\* A page that lists the criteria is opened.
Visit(r) ==
    /\ At(r, "idle") /\ "list" \in Ops
    /\ Set(r, Waiting("list", AnyCriterion, NoAlias))
    /\ UNCHANGED <<cloud, table, tx, lock, quiet>>

\* Mutant: the lock is not waited for.
BeginUnlocked(r) ==
    /\ At(r, "waiting")
    /\ IF req[r].op = "delete" /\ cache[req[r].sid] = Absent
       THEN Return(r)
       ELSE lock' = r /\ Go(r, Plan[req[r].op][1])
    /\ UNCHANGED <<cloud, table, tx, quiet>>

\* The lock is taken; deleting a criterion that has no row is refused.
Begin(r) ==
    /\ At(r, "waiting") /\ lock = Free
    /\ IF req[r].op = "delete" /\ cache[req[r].sid] = Absent
       THEN Return(r)
       ELSE lock' = r /\ Go(r, Plan[req[r].op][1])
    /\ UNCHANGED <<cloud, table, tx, quiet>>

\* A step fails.  A change that has begun to write to the cloud marks the
\* table, one of the status first looks whether the cloud took it; a listing
\* swallows the error, the other repairs record it.
WriteStarted(q) ==
    CASE q.op = "upload"              -> TRUE
      [] q.op \in {"list", "search"}  -> FALSE
      [] q.op \in {"resync", "boot"}  -> TRUE
      [] OTHER                        -> q.step # "fetch"

Rescued(q) == q.op \in {"activate", "deactivate"} /\ ~q.retry

\* Mutant: a handler that gives up keeps the lock.
FailLocked(r) ==
    /\ UNCHANGED lock
    /\ IF ~WriteStarted(req[r]) THEN req' = [req EXCEPT ![r] = Idle]
       ELSE Go(r, IF Rescued(req[r]) THEN "recover" ELSE "mark")

Fail(r) ==
    IF ~WriteStarted(req[r]) THEN Return(r)
    ELSE Go(r, IF Rescued(req[r]) THEN "recover" ELSE "mark") /\ UNCHANGED lock

\* How a call of the cloud can end: it is answered, or it is not and may have
\* been carried out all the same, now or later.
May(fault) == fault \in Faults /\ faults < MaxFaults
Outcomes == {"done"} \cup (IF May("call") THEN {"lost", "unseen"} ELSE {})
                     \cup (IF May("late") THEN {"late"} ELSE {})

Blame(fault) == May(fault) /\ faults' = faults + 1
Tally(outcome) == faults' = faults + (IF outcome = "done" THEN 0 ELSE 1)
Answered(r, outcome) ==
    /\ IF outcome = "done" THEN Proceed(r) /\ UNCHANGED lock ELSE Fail(r)
    /\ Tally(outcome)

\* fetch and search remove the older maps they saw, if the store lets them.
Sweep(stale) ==
    \/ maps' = {m \in maps : m.at \notin stale} /\ UNCHANGED faults
    \/ maps' = maps /\ (\E m \in maps : m.at \in stale) /\ Blame("call")
Older == {m.at : m \in maps} \ {Truth.at}

-----------------------------------------------------------------------------
(* Calls of the cloud.                                                     *)

\* A document with a new stable_id is uploaded.
Add(r) ==
    /\ At(r, "add")
    /\ \E c \in Criteria \ minted, outcome \in Outcomes :
          LET q == [req[r] EXCEPT !.new = c]
          IN  /\ minted' = minted \cup {c}
              /\ docs' = IF outcome \in {"done", "unseen"} THEN docs \cup {c} ELSE docs
              /\ lateDocs' = IF outcome = "late" THEN lateDocs \cup {c} ELSE lateDocs
              /\ Set(r, [q EXCEPT !.step = IF outcome = "done" THEN After(q) ELSE "mark"])
              /\ Tally(outcome)
    /\ UNCHANGED <<maps, lateMaps, clock, table, tx, lock, acked>>

\* The newest alias map is read, and older ones are removed if the store lets
\* them be.  A change needs an entry to change, and, but for an upload, a map.
Fetch(r) ==
    LET q == req[r]
        row == q.op = "replace" => cache[q.sid] # Absent
    IN  /\ At(r, "fetch") /\ (q.op \in Repairs => q.base.at = 0)
        /\ \/ /\ Sweep(Older)
              /\ IF q.op \in Repairs \cup {"upload"}
                 THEN Set(r, [q EXCEPT !.base = Truth, !.step = After(q)]) /\ UNCHANGED lock
                 ELSE IF Truth.at = 0 THEN Go(r, "mark") /\ UNCHANGED lock
                 ELSE IF q.op = "delete" \/ (Truth.entries[q.sid] # Absent /\ row)
                 THEN Set(r, [q EXCEPT !.base = Truth, !.step = After(q)]) /\ UNCHANGED lock
                 ELSE Return(r)
           \/ Blame("call") /\ Fail(r) /\ UNCHANGED maps
        /\ UNCHANGED <<docs, lateDocs, lateMaps, clock, minted, table, tx, acked>>

\* A document is deleted; the store refuses to delete one that is not there.
Remove(r) ==
    /\ At(r, "remove")
    /\ \E outcome \in Outcomes \ {"late"} :
          /\ outcome = "done" => req[r].sid \in docs
          /\ docs' = IF outcome \in {"done", "unseen"} THEN docs \ {req[r].sid} ELSE docs
          /\ Answered(r, outcome)
    /\ Tell({req[r].sid}, [c \in Criteria |-> Unknown])
    /\ UNCHANGED <<lateDocs, maps, lateMaps, clock, minted, table, tx>>

RemoveMissing(r) ==
    /\ At(r, "remove") /\ req[r].sid \notin docs
    /\ Fail(r)
    /\ UNCHANGED <<cloud, table, tx, quiet>>

\* Nothing to publish: the map has no entry for what was deleted, or is clean.
Unneeded(q) == \/ q.op = "delete" /\ q.base.entries[q.sid] = Absent
               \/ q.op \in Repairs /\ Cleaned(q) = q.base.entries

PublishNothing(r) ==
    /\ At(r, "publish") /\ Unneeded(req[r])
    /\ Go(r, "commit")
    /\ UNCHANGED <<cloud, table, tx, lock, quiet>>

\* A new alias map is uploaded before the old one is deleted.
Publish(r) ==
    LET new == [at |-> clock + 1, entries |-> Edited(req[r])]
    IN  /\ At(r, "publish") /\ ~Unneeded(req[r]) /\ clock < MaxTime
        /\ \E outcome \in Outcomes :
              /\ maps' = IF outcome \in {"done", "unseen"} THEN maps \cup {new} ELSE maps
              /\ lateMaps' = IF outcome = "late" THEN lateMaps \cup {new} ELSE lateMaps
              /\ LET q == [req[r] EXCEPT !.mine = new]
                 IN  IF outcome = "done" THEN Set(r, [q EXCEPT !.step = After(q)]) /\ UNCHANGED lock
                     ELSE IF ~WriteStarted(q) THEN Return(r)
                     ELSE Set(r, [q EXCEPT !.step = IF Rescued(q) THEN "recover" ELSE "mark"])
                          /\ UNCHANGED lock
              /\ Tally(outcome)
        /\ clock' = clock + 1
        /\ Tell(Touched(req[r]), [c \in Criteria |-> Unknown])
        /\ UNCHANGED <<docs, lateDocs, minted, table, tx>>

\* The old alias map is deleted; a search may have been faster, and then the
\* call fails.
Retire(r) ==
    LET old == req[r].base
    IN  /\ At(r, "retire")
        /\ \/ old.at = 0 /\ Proceed(r) /\ UNCHANGED <<maps, lock, faults>>
           \/ old.at # 0 /\ old \notin maps /\ Fail(r) /\ UNCHANGED <<maps, faults>>
           \/ /\ old \in maps
              /\ \E outcome \in Outcomes \ {"late"} :
                    /\ maps' = IF outcome = "lost" THEN maps ELSE maps \ {old}
                    /\ Answered(r, outcome)
        /\ UNCHANGED <<docs, lateDocs, lateMaps, clock, minted, table, tx, acked>>

\* _recover_status_mutation_from_cloud: if the newest map is the one this
\* request published, the change took place.
Recover(r) ==
    LET q == req[r]
    IN  /\ At(r, "recover")
        /\ \/ /\ Sweep(Older)
              /\ IF Truth.at = q.mine.at
                 THEN Set(r, [q EXCEPT !.step = "load", !.retry = TRUE])
                 ELSE Go(r, "mark")
           \/ Blame("call") /\ Go(r, "mark") /\ UNCHANGED maps
        /\ UNCHANGED <<docs, lateDocs, lateMaps, clock, minted, table, tx, lock, acked>>

-----------------------------------------------------------------------------
(* reconcile.                                                              *)

\* Nothing to do if the newest map is the one of the last reconcile; if it
\* cannot be read, or is another, everything is compared.
Guard(r) ==
    /\ At(r, "guard")
    /\ \/ /\ sync = "ok" /\ stamp # 0
          /\ Sweep(Older)
          /\ IF WouldSkip THEN Return(r)
             ELSE Set(r, [req[r] EXCEPT !.base = Truth, !.step = "list"]) /\ UNCHANGED lock
       \/ /\ IF sync = "ok" /\ stamp # 0 THEN Blame("call") ELSE UNCHANGED faults
          /\ Go(r, "list") /\ UNCHANGED <<maps, lock>>
    /\ UNCHANGED <<docs, lateDocs, lateMaps, clock, minted, table, tx, acked>>

List(r) ==
    /\ At(r, "list")
    /\ \/ /\ Set(r, [req[r] EXCEPT !.listed = docs,
                       !.step = IF req[r].base.at = 0 THEN "fetch" ELSE "publish"])
          /\ UNCHANGED <<lock, faults>>
       \/ Blame("call") /\ Fail(r)
    /\ UNCHANGED <<cloud, table, tx, acked>>

\* Mutants: the newest map is looked up again when the rows are written; the
\* state is misspelt.
RebuiltNewest(q) == [cache |-> Cleaned(q), sync |-> "ok", stamp |-> Truth.at]
RebuiltTypo(q) == [cache |-> Cleaned(q), sync |-> "synced", stamp |-> q.base.at]

\* The rows as they are in the cloud, and the map they were taken from.
Rebuilt(q) == [cache |-> Cleaned(q), sync |-> "ok",
               stamp |-> IF q.mine.at # 0 THEN q.mine.at ELSE q.base.at]

Store(t) == cache' = t.cache /\ sync' = t.sync /\ stamp' = t.stamp

\* Only one transaction writes at a time.  A request leaves its own open until
\* it has answered; the repair at the start of the server commits at once.
Flush(r, t) ==
    /\ tx = {}
    /\ IF req[r].op = "boot"
       THEN Store(t) /\ Return(r) /\ UNCHANGED tx
       ELSE tx' = {t} /\ req' = [req EXCEPT ![r] = [Idle EXCEPT !.op = req[r].op, !.step = "closing"]]
            /\ lock' = Free /\ UNCHANGED table

Rebuild(r) ==
    /\ At(r, "commit") /\ req[r].op \in Repairs
    /\ Flush(r, Rebuilt(req[r]))
    /\ UNCHANGED <<cloud, quiet>>

FlagRepair(r) ==
    /\ At(r, "mark") /\ req[r].op \in Repairs
    /\ Flush(r, [cache |-> cache, sync |-> "needs_resync", stamp |-> stamp])
    /\ UNCHANGED <<cloud, quiet>>

\* Mutant: a session that was answered is not committed.
CloseDiscarding(r) ==
    /\ At(r, "closing")
    /\ tx' = {} /\ Return(r)
    /\ UNCHANGED <<cloud, table, quiet>>

Close(r) ==
    /\ At(r, "closing")
    /\ \A t \in tx : Store(t)
    /\ tx' = {} /\ Return(r)
    /\ UNCHANGED <<cloud, quiet>>

-----------------------------------------------------------------------------
(* Rows of a change.                                                       *)

\* Rows are loaded as last committed, also while a reconcile is uncommitted.
Load(r) ==
    /\ At(r, "load")
    /\ Set(r, [req[r] EXCEPT !.seen = cache, !.step = "commit"])
    /\ UNCHANGED <<cloud, table, tx, lock, quiet>>

\* The change is answered; what it was about is known now.
Commit(r) ==
    LET q == req[r]
    IN  /\ At(r, "commit") /\ q.op \in Changes /\ tx = {}
        /\ cache' = Stored(q)
        /\ Tell(Touched(q), IF q.op = "delete" THEN NoRows ELSE q.mine.entries)
        /\ Return(r)
        /\ UNCHANGED <<cloud, sync, stamp, tx, faults>>

\* needs_resync is written, unless the row that was loaded says so already.
Mark(r) ==
    LET q == req[r]
    IN  /\ At(r, "mark") /\ q.op \in Changes
        /\ sync = "needs_resync" \/ tx = {}
        /\ sync' = "needs_resync"
        /\ Return(r)
        /\ UNCHANGED <<cloud, cache, stamp, tx, acked, faults>>

\* The database stays locked: a change is rolled back and goes on to mark the
\* table, which may fail as well; a request that repairs gives up.
DatabaseFails(r) ==
    /\ Blame("db")
    /\ \/ At(r, "commit") /\ req[r].op \in Changes /\ Fail(r)
       \/ At(r, "commit") /\ req[r].op = "boot" /\ Go(r, "mark") /\ UNCHANGED lock
       \/ At(r, "commit") /\ req[r].op \in {"list", "resync"} /\ Return(r)
       \/ At(r, "mark") /\ Return(r)
    /\ UNCHANGED <<cloud, table, tx, acked>>

-----------------------------------------------------------------------------
(* Searches, the other instance, the store, and crashes.                   *)

\* A search reads the newest map, and then removes the older ones it saw.
Look(r) ==
    /\ At(r, "look")
    /\ Set(r, [req[r] EXCEPT !.step = "clean", !.stale = Older])
    /\ UNCHANGED <<cloud, table, tx, lock, quiet>>

Clean(r) ==
    /\ At(r, "clean")
    /\ Sweep(req[r].stale)
    /\ Return(r)
    /\ UNCHANGED <<docs, lateDocs, lateMaps, clock, minted, table, tx, acked>>

(***************************************************************************)
(* Another instance of the program switches a criterion on or off.  Its    *)
(* fetch, upload and delete are one step here, although the lock is one of *)
(* a process only: the update that two instances lose when both change the *)
(* alias map at the same time is outside this model.                       *)
(***************************************************************************)
Foreign ==
    /\ Blame("foreign") /\ clock < MaxTime /\ maps # {}
    /\ \E c \in Criteria \ Legacy, s \in {"active", "uploaded"} :
          /\ Truth.entries[c] # Absent
          /\ maps' = (maps \ {Truth}) \cup
                {[at |-> clock + 1, entries |-> [Truth.entries EXCEPT ![c].status = s]]}
          /\ acked' = [acked EXCEPT ![c] = Shared]
    /\ clock' = clock + 1
    /\ UNCHANGED <<docs, lateDocs, lateMaps, minted, table, tx, lock, req>>

DocAppears(c) ==
    /\ c \in lateDocs
    /\ docs' = docs \cup {c} /\ lateDocs' = lateDocs \ {c}
    /\ UNCHANGED <<maps, lateMaps, clock, minted, table, tx, lock, req, quiet>>

MapAppears(m) ==
    /\ m \in lateMaps
    /\ maps' = maps \cup {m} /\ lateMaps' = lateMaps \ {m}
    /\ UNCHANGED <<docs, lateDocs, clock, minted, table, tx, lock, req, quiet>>

\* Requests, locks and open transactions are gone; the server starts with a repair.
Crash ==
    /\ Blame("crash")
    /\ \E r \in Requests : req' = [[s \in Requests |-> Idle] EXCEPT
                                    ![r] = Waiting("boot", AnyCriterion, NoAlias)]
    /\ tx' = {} /\ lock' = Free
    /\ UNCHANGED <<cloud, table, acked>>

-----------------------------------------------------------------------------
Call(r) == Add(r) \/ Fetch(r) \/ Remove(r) \/ RemoveMissing(r) \/ Publish(r)
           \/ PublishNothing(r) \/ Retire(r) \/ Recover(r)
Repairing(r) == Guard(r) \/ List(r) \/ Rebuild(r) \/ FlagRepair(r)
Locked(r) == Call(r) \/ Repairing(r) \/ Load(r) \/ Commit(r) \/ Mark(r)

Next ==
    \/ \E r \in Requests : \/ Arrive(r) \/ Visit(r) \/ Begin(r) \/ Locked(r) \/ Close(r)
                           \/ DatabaseFails(r) \/ Look(r) \/ Clean(r)
    \/ \E c \in Criteria : DocAppears(c)
    \/ \E m \in lateMaps : MapAppears(m)
    \/ Foreign \/ Crash

Spec == Init /\ [][Next]_vars

\* Every call of the cloud and every wait for the database has a time limit,
\* asyncio.Lock serves those who wait in turn, and pages that list criteria
\* keep being opened.
FairSpec ==
    /\ Spec
    /\ \A r \in Requests : /\ WF_vars(Locked(r)) /\ WF_vars(Close(r))
                          /\ SF_vars(Begin(r)) /\ WF_vars(Look(r) \/ Clean(r))
    /\ SF_vars(\E r \in Requests : Visit(r))

-----------------------------------------------------------------------------
\* reconcile skips only when the rows are what the newest alias map says,
\* whatever failed, arrived late or was written by others before.
SkipIsRight == WouldSkip => cache = Truth.entries

\* What an administrator was acked of a criterion stays true in the cloud, until
\* the criterion is changed again: no late upload, failed change, search or
\* reconcile takes it back.  A deleted one may get its entry back, by a late
\* alias map, but never its document.  Another instance counts with changes that
\* are whole (Foreign).
AcknowledgedKept ==
    \A c \in Criteria :
        /\ acked[c] = Absent => c \notin docs
        /\ acked[c] \in Entry /\ c \in docs => Truth.entries[c] = acked[c]

\* A document without a stable_id cannot be searched for: it is never shown as
\* active, even if an old alias map says so.
LegacyNeverActive == \A c \in Legacy : cache[c].status # "active"

\* The rows can be relied on: where a reconcile is skipped they are what the
\* cloud says, and they never offer a document that no search can find.
RowsRight == SkipIsRight /\ LegacyNeverActive

\* No request keeps the lock for good, although it waits for the cloud, for
\* searches that get in its way and for the transaction of another request.
LockHandedBack == \A r \in Requests : lock = r ~> lock # r

\* A table that needs a resync is repaired by the pages that list it.
Repaired == sync = "needs_resync" ~> sync = "ok"

\* The alias map that counts is never lost, and never replaced by an older one.
TruthAdvances == [][Truth'.at >= Truth.at]_maps

-----------------------------------------------------------------------------
(* The invariant that is inductive.                                        *)

\* No surrogate is active.
Searchable(rows) == \A c \in Legacy : rows[c].status # "active"

\* Nothing that was acked of a document there is is contradicted.
Agrees(rows) == \A c \in docs : acked[c] \in Entry => rows[c] = acked[c]

\* Every alias map that counts, counted, may come to count, or is compared.
Known == maps \cup lateMaps \cup {NoMap} \cup {req[r].base : r \in Requests}
              \cup {req[r].mine : r \in Requests}

\* Criteria whose document is there, or was and never comes back.
Settled == minted \ lateDocs

Fetched(q) ==
    \/ q.base.at # 0
    \/ q.step \in {"remove", "publish", "retire", "load", "commit", "recover"}
    \/ q.op = "replace" /\ q.step = "add"
Published(q) == q.mine.at # 0 /\ q.step \in {"retire", "remove", "load", "commit"}
HasNew(q) == \/ q.op = "upload" /\ q.step \in {"fetch", "publish", "retire", "commit"}
             \/ q.op = "replace" /\ q.step \in {"publish", "retire", "remove", "commit"}
Removed(q) == \/ q.op = "delete" /\ q.step \in {"publish", "retire", "commit"}
              \/ q.op = "replace" /\ q.step = "commit"

\* What a request knows at each of its steps.
StepFits(q) ==
    /\ q.op = "none" <=> q.step = "idle"
    /\ q.op = "search" <=> q.step \in {"look", "clean"}
    /\ q.step = "add" => q.op \in {"upload", "replace"}
    /\ q.step = "remove" => q.op \in {"delete", "replace"}
    /\ q.step = "load" => q.op \in {"rename", "activate", "deactivate"}
    /\ q.step = "recover" => q.op \in {"activate", "deactivate"}
    /\ q.step \in {"guard", "list", "closing"} => q.op \in Repairs
Knows(q) ==
    /\ q.step \notin Working => q.base = NoMap /\ q.listed = {}
    /\ \/ q.step \notin Working \/ q.step \in {"add", "fetch", "publish", "guard", "list"}
       \/ q.op = "delete" /\ q.step = "remove"
       => q.mine = NoMap
    /\ \/ q.step \in {"retire", "load", "recover"}
       \/ q.op = "replace" /\ q.step = "remove"
       \/ q.op \in Changes \ {"delete"} /\ q.step = "commit"
       => q.mine.at # 0
    /\ q.mine.at # 0 => q.mine.at > q.base.at /\ q.mine.entries = Edited(q)
    /\ q.step = "commit" /\ q.mine.at = 0 => Unneeded(q)
    /\ /\ q.op \in {"replace", "rename", "activate", "deactivate"}
       /\ q.step \in {"add", "publish", "retire", "remove", "load", "commit", "recover"}
       => q.base.entries[q.sid] # Absent
StaysSearchable(q) ==
    /\ q.op \in Changes => Searchable(q.base.entries)
    /\ Searchable(q.mine.entries)
    /\ q.op = "activate" => q.sid \notin Legacy
    /\ q.op = "replace" => q.sid \in Legacy
    /\ HasNew(q) => q.new \notin Legacy
Shaped(q) == StepFits(q) /\ Knows(q) /\ StaysSearchable(q)

\* What it knows of the documents, and of the order of the alias maps.
Rooted(q) ==
    /\ HasNew(q) => q.new \in Settled
    /\ q.listed \subseteq Settled
    /\ Removed(q) => q.sid \in Settled \ docs
Dated(q) ==
    /\ q.base.at <= Truth.at
    /\ Published(q) => q.mine.at <= Truth.at
    /\ \A a \in q.stale : a < Truth.at
    /\ Fetched(q) => stamp <= q.base.at /\ \A t \in tx : t.stamp <= q.base.at
    /\ q.mine.at # 0 => \A m \in lateMaps : m.at <= q.mine.at

\* What it is going to publish contradicts nothing, and what it has published
\* is still the truth about what it changes.
Trusted(q) ==
    /\ Fetched(q) => Agrees(q.base.entries)
    /\ q.op \in Repairs /\ q.step \in {"fetch", "publish", "retire", "commit"}
       => \A c \in docs : acked[c] \in Entry => c \in q.listed
    /\ q.op \in Changes /\ Published(q)
       => \A c \in Touched(q) : acked[c] # Shared => Truth.entries[c] = q.mine.entries[c]
    /\ \/ q.op \in Changes
       \/ q.op \in Repairs /\ q.step \in {"retire", "commit"}
       \/ q.op \in Repairs /\ Fetched(q) /\ Searchable(q.base.entries)
       => Searchable(Truth.entries)

\* One request works at a time, and one has rows that are not committed.
LockHeld ==
    \A r \in Requests :
        /\ req[r].step \in Working => lock = r
        /\ req[r].step = "closing" => tx # {} /\ \A s \in Requests \ {r} : ~At(s, "closing")
RequestsSound == \A r \in Requests : /\ Shaped(req[r]) /\ Rooted(req[r])
                                     /\ Dated(req[r]) /\ Trusted(req[r])

DocsMinted == docs \cup lateDocs \cup Legacy \subseteq minted /\ docs \cap lateDocs = {}
MapsApart ==
    /\ \A m \in Known : m.at <= clock
    /\ \A m, n \in Known : m.at = n.at => m = n
EntriesSettled == \A m \in Known, c \in Criteria : m.entries[c] # Absent => c \in Settled
LateSound ==
    \A m \in lateMaps : Searchable(m.entries) /\ (m.at > Truth.at => Agrees(m.entries))

\* A repair that is flushed will be as right as the rows that are committed.
TableSound ==
    /\ stamp <= Truth.at
    /\ sync = "ok" => Searchable(Truth.entries)
    /\ \A t \in tx :
          /\ t.stamp <= Truth.at /\ Searchable(t.cache)
          /\ t.sync = "ok" => Searchable(Truth.entries)
          /\ t.sync = "ok" /\ t.stamp # 0 /\ t.stamp = Truth.at => t.cache = Truth.entries
AckSound ==
    \A c \in Criteria :
        /\ acked[c] = Absent => c \in Settled \ docs
        /\ acked[c] \in Entry => c \in Settled /\ (c \in Legacy => acked[c].status # "active")

IInv == /\ TypeOK /\ LockHeld /\ RequestsSound
        /\ DocsMinted /\ MapsApart /\ EntriesSettled /\ LateSound
        /\ TableSound /\ AckSound /\ RowsRight /\ AcknowledgedKept
=============================================================================
