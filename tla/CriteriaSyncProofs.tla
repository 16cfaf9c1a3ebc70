------------------------- MODULE CriteriaSyncProofs -------------------------
(***************************************************************************)
(* The table of criteria agrees with the alias map that counts, and what   *)
(* was acknowledged stays, for any number of requests, criteria, alias     *)
(* maps and faults: TypeOK, RowsRight and AcknowledgedKept hold in every   *)
(* state, because IInv does, and TruthAdvances in every step.              *)
(*                                                                         *)
(* Everything rests on the order of the alias maps: which of them counts   *)
(* is only ever told by its updated_at.                                    *)
(***************************************************************************)
EXTENDS CriteriaSync, OrderingProofs

-----------------------------------------------------------------------------
(* The newest of a set of alias maps.                                      *)

Apart(M) == \A m, n \in M : m.at = n.at => m = n

LEMMA MapShape ==
    /\ \A m \in Map \cup {NoMap} : /\ m.at \in Nat /\ m.entries \in Rows
                                   /\ m = [at |-> m.at, entries |-> m.entries]
    /\ \A m \in Map : m.at \in 1 .. MaxTime
    /\ NoMap.at = 0 /\ NoMap.entries = NoRows /\ NoMap \notin Map
    /\ NoRows \in Rows /\ \A c \in Criteria : NoRows[c] = Absent
BY CriteriaAssumption DEF Map, NoMap, Rows, NoRows, Slot

LEMMA NewestIsThere ==
    ASSUME NEW M \in SUBSET Map
    PROVE  /\ Newest(M) \in M \cup {NoMap}
           /\ \A n \in M : n.at <= Newest(M).at
<1> DEFINE times == {m.at : m \in M}
<1>1. CASE M = {}
  BY <1>1 DEF Newest
<1>2. CASE M # {}
  <2>1. times \subseteq 1 .. MaxTime /\ times # {}
    BY <1>2, MapShape
  <2>2. times \in SUBSET Int /\ IsFiniteSet(times)
    <3>1. MaxTime \in Int
      BY CriteriaAssumption
    <3>2. IsFiniteSet(1 .. MaxTime)
      BY <3>1, FS_Interval
    <3>3. IsFiniteSet(times)
      BY <2>1, <3>2, FS_Subset
    <3>4. times \in SUBSET Int
      BY <2>1
    <3>5. QED
      BY <3>3, <3>4
  <2>3. Max(times) \in times /\ \A y \in times : y <= Max(times)
    BY <2>1, <2>2, MaxOfFinite
  <2>4. PICK m \in M : m.at = Max(times)
    BY <2>3
  <2>5. \A n \in M : n.at <= m.at
    BY <2>3, <2>4
  <2> HIDE DEF times
  <2>6. \E k \in M \cup {NoMap} : \A n \in M : n.at <= k.at
    BY <2>5
  <2>7. QED
    BY <2>6 DEF Newest
<1>3. QED
  BY <1>1, <1>2

LEMMA NewestIs ==
    ASSUME NEW M \in SUBSET Map, Apart(M), NEW m \in M, \A n \in M : n.at <= m.at
    PROVE  Newest(M) = m
<1>1. Newest(M) \in M \cup {NoMap} /\ m.at <= Newest(M).at
  BY NewestIsThere
<1>2. m.at >= 1 /\ m.at \in Nat
  BY MapShape
<1>3. Newest(M) \in M
  BY <1>1, <1>2, MapShape
<1>4. Newest(M).at = m.at
  BY <1>1, <1>2, <1>3, MapShape
<1>5. QED
  BY <1>3, <1>4 DEF Apart

\* Which map counts changes only when a newer one comes.
LEMMA NewestKept ==
    ASSUME NEW M \in SUBSET Map, Apart(M), NEW N \in SUBSET M,
           Newest(M) \in M => Newest(M) \in N
    PROVE  Newest(N) = Newest(M)
<1>1. CASE Newest(M) \in M
  <2>1. Newest(M) \in N /\ \A n \in N : n.at <= Newest(M).at
    BY <1>1, NewestIsThere
  <2>2. Apart(N) /\ N \in SUBSET Map
    BY DEF Apart
  <2>3. QED
    BY <2>1, <2>2, NewestIs
<1>2. CASE Newest(M) \notin M
  <2>1. M = {}
    <3> SUFFICES ASSUME NEW m \in M PROVE FALSE
      OBVIOUS
    <3>1. Newest(M) = NoMap /\ m.at <= Newest(M).at
      BY <1>2, NewestIsThere
    <3>2. QED
      BY <3>1, MapShape
  <2>2. QED
    BY <2>1
<1>3. QED
  BY <1>1, <1>2

LEMMA NewestAdded ==
    ASSUME NEW M \in SUBSET Map, Apart(M), NEW m \in Map, \A n \in M : n.at # m.at
    PROVE  /\ m.at > Newest(M).at => Newest(M \cup {m}) = m
           /\ m.at < Newest(M).at => Newest(M \cup {m}) = Newest(M)
<1>1. M \cup {m} \in SUBSET Map /\ Apart(M \cup {m})
  BY DEF Apart
<1>2. Newest(M) \in M \cup {NoMap} /\ \A n \in M : n.at <= Newest(M).at
  BY NewestIsThere
<1>3. m.at \in 1 .. MaxTime /\ Newest(M).at \in Nat /\ \A n \in M : n.at \in Nat
  BY <1>2, MapShape
<1>4. CASE m.at > Newest(M).at
  <2>1. \A n \in M \cup {m} : n.at <= m.at
    BY <1>2, <1>3, <1>4
  <2>2. QED
    BY <1>1, <1>4, <2>1, <1>3, NewestIs
<1>5. CASE m.at < Newest(M).at
  <2>1. Newest(M) \in M
    BY <1>2, <1>3, <1>5, MapShape
  <2>2. \A n \in M \cup {m} : n.at <= Newest(M).at
    BY <1>2, <1>3, <1>5
  <2>3. QED
    BY <1>1, <1>3, <1>5, <2>1, <2>2, NewestIs
<1>6. QED
  BY <1>4, <1>5

-----------------------------------------------------------------------------
(* What follows a step, and what a request publishes and stores.           *)

\* A step comes once in a plan, and so what follows it does.
LEMMA AfterAt ==
    ASSUME NEW q, NEW i \in 1 .. Len(Plan[q.op]) - 1, Plan[q.op][i] = q.step,
           \A j \in 1 .. Len(Plan[q.op]) - 1 : Plan[q.op][j] = q.step => j = i,
           NEW s \in Steps, Plan[q.op][i + 1] = s
    PROVE  After(q) = s
BY DEF After

LEMMA AfterUpload ==
    ASSUME NEW q, q.op = "upload"
    PROVE  /\ q.step = "add" => After(q) = "fetch"
           /\ q.step = "fetch" => After(q) = "publish"
           /\ q.step = "publish" => After(q) = "retire"
           /\ q.step = "retire" => After(q) = "commit"
<1>1. Plan[q.op] = <<"add", "fetch", "publish", "retire", "commit">>
  BY DEF Plan
<1>2. Len(Plan[q.op]) - 1 = 4
  BY <1>1
<1>3. /\ Plan[q.op][1] = "add" /\ Plan[q.op][2] = "fetch"
      /\ Plan[q.op][3] = "publish" /\ Plan[q.op][4] = "retire"
      /\ Plan[q.op][5] = "commit"
  BY <1>1
<1>4. 1 .. 4 = {1, 2, 3, 4}
  OBVIOUS
<1>5. \A i \in 1 .. 4 : Plan[q.op][i + 1] \in Steps
  BY <1>3, <1>4 DEF Steps, Working
<1>6. CASE q.step = "add"
  <2>1. \A j \in 1 .. 4 : Plan[q.op][j] = q.step => j = 1
    BY <1>3, <1>4, <1>6
  <2>2. 1 \in 1 .. Len(Plan[q.op]) - 1 /\ Plan[q.op][1] = q.step
    BY <1>2, <1>3, <1>4, <1>6
  <2>3. Plan[q.op][1 + 1] \in Steps
    BY <1>4, <1>5
  <2>4. After(q) = Plan[q.op][1 + 1]
    BY <1>2, <2>1, <2>2, <2>3, AfterAt
  <2>5. QED
    BY <1>3, <1>6, <2>4
<1>7. CASE q.step = "fetch"
  <2>1. \A j \in 1 .. 4 : Plan[q.op][j] = q.step => j = 2
    BY <1>3, <1>4, <1>7
  <2>2. 2 \in 1 .. Len(Plan[q.op]) - 1 /\ Plan[q.op][2] = q.step
    BY <1>2, <1>3, <1>4, <1>7
  <2>3. Plan[q.op][2 + 1] \in Steps
    BY <1>4, <1>5
  <2>4. After(q) = Plan[q.op][2 + 1]
    BY <1>2, <2>1, <2>2, <2>3, AfterAt
  <2>5. QED
    BY <1>3, <1>7, <2>4
<1>8. CASE q.step = "publish"
  <2>1. \A j \in 1 .. 4 : Plan[q.op][j] = q.step => j = 3
    BY <1>3, <1>4, <1>8
  <2>2. 3 \in 1 .. Len(Plan[q.op]) - 1 /\ Plan[q.op][3] = q.step
    BY <1>2, <1>3, <1>4, <1>8
  <2>3. Plan[q.op][3 + 1] \in Steps
    BY <1>4, <1>5
  <2>4. After(q) = Plan[q.op][3 + 1]
    BY <1>2, <2>1, <2>2, <2>3, AfterAt
  <2>5. QED
    BY <1>3, <1>8, <2>4
<1>9. CASE q.step = "retire"
  <2>1. \A j \in 1 .. 4 : Plan[q.op][j] = q.step => j = 4
    BY <1>3, <1>4, <1>9
  <2>2. 4 \in 1 .. Len(Plan[q.op]) - 1 /\ Plan[q.op][4] = q.step
    BY <1>2, <1>3, <1>4, <1>9
  <2>3. Plan[q.op][4 + 1] \in Steps
    BY <1>4, <1>5
  <2>4. After(q) = Plan[q.op][4 + 1]
    BY <1>2, <2>1, <2>2, <2>3, AfterAt
  <2>5. QED
    BY <1>3, <1>9, <2>4
<1>10. QED
  BY <1>6, <1>7, <1>8, <1>9

LEMMA AfterDelete ==
    ASSUME NEW q, q.op = "delete"
    PROVE  /\ q.step = "fetch" => After(q) = "remove"
           /\ q.step = "remove" => After(q) = "publish"
           /\ q.step = "publish" => After(q) = "retire"
           /\ q.step = "retire" => After(q) = "commit"
<1>1. Plan[q.op] = <<"fetch", "remove", "publish", "retire", "commit">>
  BY DEF Plan
<1>2. Len(Plan[q.op]) - 1 = 4
  BY <1>1
<1>3. /\ Plan[q.op][1] = "fetch" /\ Plan[q.op][2] = "remove"
      /\ Plan[q.op][3] = "publish" /\ Plan[q.op][4] = "retire"
      /\ Plan[q.op][5] = "commit"
  BY <1>1
<1>4. 1 .. 4 = {1, 2, 3, 4}
  OBVIOUS
<1>5. \A i \in 1 .. 4 : Plan[q.op][i + 1] \in Steps
  BY <1>3, <1>4 DEF Steps, Working
<1>6. CASE q.step = "fetch"
  <2>1. \A j \in 1 .. 4 : Plan[q.op][j] = q.step => j = 1
    BY <1>3, <1>4, <1>6
  <2>2. 1 \in 1 .. Len(Plan[q.op]) - 1 /\ Plan[q.op][1] = q.step
    BY <1>2, <1>3, <1>4, <1>6
  <2>3. Plan[q.op][1 + 1] \in Steps
    BY <1>4, <1>5
  <2>4. After(q) = Plan[q.op][1 + 1]
    BY <1>2, <2>1, <2>2, <2>3, AfterAt
  <2>5. QED
    BY <1>3, <1>6, <2>4
<1>7. CASE q.step = "remove"
  <2>1. \A j \in 1 .. 4 : Plan[q.op][j] = q.step => j = 2
    BY <1>3, <1>4, <1>7
  <2>2. 2 \in 1 .. Len(Plan[q.op]) - 1 /\ Plan[q.op][2] = q.step
    BY <1>2, <1>3, <1>4, <1>7
  <2>3. Plan[q.op][2 + 1] \in Steps
    BY <1>4, <1>5
  <2>4. After(q) = Plan[q.op][2 + 1]
    BY <1>2, <2>1, <2>2, <2>3, AfterAt
  <2>5. QED
    BY <1>3, <1>7, <2>4
<1>8. CASE q.step = "publish"
  <2>1. \A j \in 1 .. 4 : Plan[q.op][j] = q.step => j = 3
    BY <1>3, <1>4, <1>8
  <2>2. 3 \in 1 .. Len(Plan[q.op]) - 1 /\ Plan[q.op][3] = q.step
    BY <1>2, <1>3, <1>4, <1>8
  <2>3. Plan[q.op][3 + 1] \in Steps
    BY <1>4, <1>5
  <2>4. After(q) = Plan[q.op][3 + 1]
    BY <1>2, <2>1, <2>2, <2>3, AfterAt
  <2>5. QED
    BY <1>3, <1>8, <2>4
<1>9. CASE q.step = "retire"
  <2>1. \A j \in 1 .. 4 : Plan[q.op][j] = q.step => j = 4
    BY <1>3, <1>4, <1>9
  <2>2. 4 \in 1 .. Len(Plan[q.op]) - 1 /\ Plan[q.op][4] = q.step
    BY <1>2, <1>3, <1>4, <1>9
  <2>3. Plan[q.op][4 + 1] \in Steps
    BY <1>4, <1>5
  <2>4. After(q) = Plan[q.op][4 + 1]
    BY <1>2, <2>1, <2>2, <2>3, AfterAt
  <2>5. QED
    BY <1>3, <1>9, <2>4
<1>10. QED
  BY <1>6, <1>7, <1>8, <1>9

LEMMA AfterReplace ==
    ASSUME NEW q, q.op = "replace"
    PROVE  /\ q.step = "fetch" => After(q) = "add"
           /\ q.step = "add" => After(q) = "publish"
           /\ q.step = "publish" => After(q) = "retire"
           /\ q.step = "retire" => After(q) = "remove"
           /\ q.step = "remove" => After(q) = "commit"
<1>1. Plan[q.op] = <<"fetch", "add", "publish", "retire", "remove", "commit">>
  BY DEF Plan
<1>2. Len(Plan[q.op]) - 1 = 5
  BY <1>1
<1>3. /\ Plan[q.op][1] = "fetch" /\ Plan[q.op][2] = "add"
      /\ Plan[q.op][3] = "publish" /\ Plan[q.op][4] = "retire"
      /\ Plan[q.op][5] = "remove" /\ Plan[q.op][6] = "commit"
  BY <1>1
<1>4. 1 .. 5 = {1, 2, 3, 4, 5}
  OBVIOUS
<1>5. \A i \in 1 .. 5 : Plan[q.op][i + 1] \in Steps
  BY <1>3, <1>4 DEF Steps, Working
<1>6. CASE q.step = "fetch"
  <2>1. \A j \in 1 .. 5 : Plan[q.op][j] = q.step => j = 1
    BY <1>3, <1>4, <1>6
  <2>2. 1 \in 1 .. Len(Plan[q.op]) - 1 /\ Plan[q.op][1] = q.step
    BY <1>2, <1>3, <1>4, <1>6
  <2>3. Plan[q.op][1 + 1] \in Steps
    BY <1>4, <1>5
  <2>4. After(q) = Plan[q.op][1 + 1]
    BY <1>2, <2>1, <2>2, <2>3, AfterAt
  <2>5. QED
    BY <1>3, <1>6, <2>4
<1>7. CASE q.step = "add"
  <2>1. \A j \in 1 .. 5 : Plan[q.op][j] = q.step => j = 2
    BY <1>3, <1>4, <1>7
  <2>2. 2 \in 1 .. Len(Plan[q.op]) - 1 /\ Plan[q.op][2] = q.step
    BY <1>2, <1>3, <1>4, <1>7
  <2>3. Plan[q.op][2 + 1] \in Steps
    BY <1>4, <1>5
  <2>4. After(q) = Plan[q.op][2 + 1]
    BY <1>2, <2>1, <2>2, <2>3, AfterAt
  <2>5. QED
    BY <1>3, <1>7, <2>4
<1>8. CASE q.step = "publish"
  <2>1. \A j \in 1 .. 5 : Plan[q.op][j] = q.step => j = 3
    BY <1>3, <1>4, <1>8
  <2>2. 3 \in 1 .. Len(Plan[q.op]) - 1 /\ Plan[q.op][3] = q.step
    BY <1>2, <1>3, <1>4, <1>8
  <2>3. Plan[q.op][3 + 1] \in Steps
    BY <1>4, <1>5
  <2>4. After(q) = Plan[q.op][3 + 1]
    BY <1>2, <2>1, <2>2, <2>3, AfterAt
  <2>5. QED
    BY <1>3, <1>8, <2>4
<1>9. CASE q.step = "retire"
  <2>1. \A j \in 1 .. 5 : Plan[q.op][j] = q.step => j = 4
    BY <1>3, <1>4, <1>9
  <2>2. 4 \in 1 .. Len(Plan[q.op]) - 1 /\ Plan[q.op][4] = q.step
    BY <1>2, <1>3, <1>4, <1>9
  <2>3. Plan[q.op][4 + 1] \in Steps
    BY <1>4, <1>5
  <2>4. After(q) = Plan[q.op][4 + 1]
    BY <1>2, <2>1, <2>2, <2>3, AfterAt
  <2>5. QED
    BY <1>3, <1>9, <2>4
<1>10. CASE q.step = "remove"
  <2>1. \A j \in 1 .. 5 : Plan[q.op][j] = q.step => j = 5
    BY <1>3, <1>4, <1>10
  <2>2. 5 \in 1 .. Len(Plan[q.op]) - 1 /\ Plan[q.op][5] = q.step
    BY <1>2, <1>3, <1>4, <1>10
  <2>3. Plan[q.op][5 + 1] \in Steps
    BY <1>4, <1>5
  <2>4. After(q) = Plan[q.op][5 + 1]
    BY <1>2, <2>1, <2>2, <2>3, AfterAt
  <2>5. QED
    BY <1>3, <1>10, <2>4
<1>11. QED
  BY <1>6, <1>7, <1>8, <1>9, <1>10

LEMMA AfterStatus ==
    ASSUME NEW q, q.op \in {"rename", "activate", "deactivate"}
    PROVE  /\ q.step = "fetch" => After(q) = "publish"
           /\ q.step = "publish" => After(q) = "retire"
           /\ q.step = "retire" => After(q) = "load"
<1>1. Plan[q.op] = <<"fetch", "publish", "retire", "load", "commit">>
  BY DEF Plan, Status
<1>2. Len(Plan[q.op]) - 1 = 4
  BY <1>1
<1>3. /\ Plan[q.op][1] = "fetch" /\ Plan[q.op][2] = "publish"
      /\ Plan[q.op][3] = "retire" /\ Plan[q.op][4] = "load"
      /\ Plan[q.op][5] = "commit"
  BY <1>1
<1>4. 1 .. 4 = {1, 2, 3, 4}
  OBVIOUS
<1>5. \A i \in 1 .. 4 : Plan[q.op][i + 1] \in Steps
  BY <1>3, <1>4 DEF Steps, Working
<1>6. CASE q.step = "fetch"
  <2>1. \A j \in 1 .. 4 : Plan[q.op][j] = q.step => j = 1
    BY <1>3, <1>4, <1>6
  <2>2. 1 \in 1 .. Len(Plan[q.op]) - 1 /\ Plan[q.op][1] = q.step
    BY <1>2, <1>3, <1>4, <1>6
  <2>3. Plan[q.op][1 + 1] \in Steps
    BY <1>4, <1>5
  <2>4. After(q) = Plan[q.op][1 + 1]
    BY <1>2, <2>1, <2>2, <2>3, AfterAt
  <2>5. QED
    BY <1>3, <1>6, <2>4
<1>7. CASE q.step = "publish"
  <2>1. \A j \in 1 .. 4 : Plan[q.op][j] = q.step => j = 2
    BY <1>3, <1>4, <1>7
  <2>2. 2 \in 1 .. Len(Plan[q.op]) - 1 /\ Plan[q.op][2] = q.step
    BY <1>2, <1>3, <1>4, <1>7
  <2>3. Plan[q.op][2 + 1] \in Steps
    BY <1>4, <1>5
  <2>4. After(q) = Plan[q.op][2 + 1]
    BY <1>2, <2>1, <2>2, <2>3, AfterAt
  <2>5. QED
    BY <1>3, <1>7, <2>4
<1>8. CASE q.step = "retire"
  <2>1. \A j \in 1 .. 4 : Plan[q.op][j] = q.step => j = 3
    BY <1>3, <1>4, <1>8
  <2>2. 3 \in 1 .. Len(Plan[q.op]) - 1 /\ Plan[q.op][3] = q.step
    BY <1>2, <1>3, <1>4, <1>8
  <2>3. Plan[q.op][3 + 1] \in Steps
    BY <1>4, <1>5
  <2>4. After(q) = Plan[q.op][3 + 1]
    BY <1>2, <2>1, <2>2, <2>3, AfterAt
  <2>5. QED
    BY <1>3, <1>8, <2>4
<1>9. QED
  BY <1>6, <1>7, <1>8

LEMMA AfterRepair ==
    ASSUME NEW q, q.op \in Repairs
    PROVE  /\ q.step = "fetch" => After(q) = "publish"
           /\ q.step = "publish" => After(q) = "retire"
           /\ q.step = "retire" => After(q) = "commit"
<1>1. Plan[q.op] = <<"guard", "list", "fetch", "publish", "retire", "commit">>
  BY DEF Plan, Repair, Repairs
<1>2. Len(Plan[q.op]) - 1 = 5
  BY <1>1
<1>3. /\ Plan[q.op][1] = "guard" /\ Plan[q.op][2] = "list"
      /\ Plan[q.op][3] = "fetch" /\ Plan[q.op][4] = "publish"
      /\ Plan[q.op][5] = "retire" /\ Plan[q.op][6] = "commit"
  BY <1>1
<1>4. 1 .. 5 = {1, 2, 3, 4, 5}
  OBVIOUS
<1>5. \A i \in 1 .. 5 : Plan[q.op][i + 1] \in Steps
  BY <1>3, <1>4 DEF Steps, Working
<1>6. CASE q.step = "fetch"
  <2>1. \A j \in 1 .. 5 : Plan[q.op][j] = q.step => j = 3
    BY <1>3, <1>4, <1>6
  <2>2. 3 \in 1 .. Len(Plan[q.op]) - 1 /\ Plan[q.op][3] = q.step
    BY <1>2, <1>3, <1>4, <1>6
  <2>3. Plan[q.op][3 + 1] \in Steps
    BY <1>4, <1>5
  <2>4. After(q) = Plan[q.op][3 + 1]
    BY <1>2, <2>1, <2>2, <2>3, AfterAt
  <2>5. QED
    BY <1>3, <1>6, <2>4
<1>7. CASE q.step = "publish"
  <2>1. \A j \in 1 .. 5 : Plan[q.op][j] = q.step => j = 4
    BY <1>3, <1>4, <1>7
  <2>2. 4 \in 1 .. Len(Plan[q.op]) - 1 /\ Plan[q.op][4] = q.step
    BY <1>2, <1>3, <1>4, <1>7
  <2>3. Plan[q.op][4 + 1] \in Steps
    BY <1>4, <1>5
  <2>4. After(q) = Plan[q.op][4 + 1]
    BY <1>2, <2>1, <2>2, <2>3, AfterAt
  <2>5. QED
    BY <1>3, <1>7, <2>4
<1>8. CASE q.step = "retire"
  <2>1. \A j \in 1 .. 5 : Plan[q.op][j] = q.step => j = 5
    BY <1>3, <1>4, <1>8
  <2>2. 5 \in 1 .. Len(Plan[q.op]) - 1 /\ Plan[q.op][5] = q.step
    BY <1>2, <1>3, <1>4, <1>8
  <2>3. Plan[q.op][5 + 1] \in Steps
    BY <1>4, <1>5
  <2>4. After(q) = Plan[q.op][5 + 1]
    BY <1>2, <2>1, <2>2, <2>3, AfterAt
  <2>5. QED
    BY <1>3, <1>8, <2>4
<1>9. QED
  BY <1>6, <1>7, <1>8

LEMMA AfterIs ==
    ASSUME NEW q
    PROVE  /\ q.step = "add" /\ q.op = "upload" => After(q) = "fetch"
           /\ q.step = "add" /\ q.op = "replace" => After(q) = "publish"
           /\ q.step = "fetch" /\ q.op = "delete" => After(q) = "remove"
           /\ q.step = "fetch" /\ q.op = "replace" => After(q) = "add"
           /\ q.step = "fetch" /\ q.op \in (Changes \cup Repairs) \ {"delete", "replace"}
              => After(q) = "publish"
           /\ q.step = "remove" /\ q.op = "delete" => After(q) = "publish"
           /\ q.step = "remove" /\ q.op = "replace" => After(q) = "commit"
           /\ q.step = "publish" /\ q.op \in Changes \cup Repairs => After(q) = "retire"
           /\ q.step = "retire" /\ q.op \in {"upload", "delete"} \cup Repairs => After(q) = "commit"
           /\ q.step = "retire" /\ q.op = "replace" => After(q) = "remove"
           /\ q.step = "retire" /\ q.op \in {"rename", "activate", "deactivate"} => After(q) = "load"
BY AfterUpload, AfterDelete, AfterReplace, AfterStatus, AfterRepair DEF Changes

LEMMA SlotShape ==
    /\ \A e \in Entry : /\ e.status \in {"active", "uploaded"}
                        /\ e.alias \in Aliases \cup {NoAlias}
                        /\ e # Absent /\ e # Unknown /\ e # Shared
    /\ \A s \in {"active", "uploaded"}, a \in Aliases \cup {NoAlias} :
          [status |-> s, alias |-> a] \in Entry
    /\ Slot = Entry \cup {Absent} /\ NewEntry \in Entry /\ NewEntry.status = "active"
    /\ NewEntry.alias = NoAlias /\ Absent.status = "absent" /\ Absent.alias = NoAlias
    /\ Unknown # Absent /\ Shared # Absent /\ Unknown # Shared
    /\ Unknown \notin Entry /\ Shared \notin Entry /\ Absent \notin Entry
BY DEF Entry, Absent, Unknown, Shared, Slot, NewEntry

\* Entries are changed into entries.
LEMMA EntryChanged ==
    ASSUME NEW e \in Entry
    PROVE  /\ \A s \in {"active", "uploaded"} :
                 /\ [e EXCEPT !.status = s] \in Entry
                 /\ [e EXCEPT !.status = s].status = s
           /\ \A a \in Aliases \cup {NoAlias} :
                 /\ [e EXCEPT !.alias = a] \in Entry
                 /\ [e EXCEPT !.alias = a].status = e.status
BY DEF Entry

\* Two requests with the same aim publish the same.
SameAim(p, q) ==
    /\ p.op = q.op /\ p.sid = q.sid /\ p.new = q.new /\ p.alias = q.alias
    /\ p.base = q.base /\ p.listed = q.listed

LEMMA SameResult ==
    ASSUME NEW p, NEW q, SameAim(p, q)
    PROVE  /\ Cleaned(p) = Cleaned(q) /\ Edited(p) = Edited(q)
           /\ Touched(p) = Touched(q) /\ (Unneeded(p) <=> Unneeded(q))
<1>1. Cleaned(p) = Cleaned(q)
  BY DEF SameAim, Cleaned
<1>2. Edited(p) = Edited(q)
  BY <1>1 DEF SameAim, Edited
<1>3. QED
  BY <1>1, <1>2 DEF SameAim, Touched, Unneeded

LEMMA CleanedType ==
    ASSUME NEW q, q.base.entries \in Rows
    PROVE  /\ Cleaned(q) \in Rows /\ Searchable(Cleaned(q))
           /\ \A c \in Criteria \ q.listed : Cleaned(q)[c] = Absent
           /\ \A c \in Criteria \cap q.listed :
                 /\ q.base.entries[c] \in Entry
                 /\ c \in Legacy => q.base.entries[c].status # "active"
                 => Cleaned(q)[c] = q.base.entries[c]
<1> DEFINE old(c) == IF q.base.entries[c] = Absent THEN NewEntry ELSE q.base.entries[c]
<1>1. \A c \in Criteria : Cleaned(q)[c] = IF c \notin q.listed THEN Absent ELSE Normal(c, old(c))
  BY DEF Cleaned
<1>2. \A c \in Criteria : old(c) \in Entry
  BY SlotShape DEF Rows
<1>3. \A c \in Criteria, e \in Entry :
        /\ Normal(c, e) \in Entry
        /\ c \in Legacy => Normal(c, e).status # "active"
        /\ (c \in Legacy => e.status # "active") => Normal(c, e) = e
  BY EntryChanged, SlotShape DEF Normal
<1> HIDE DEF old
<1>4. \A c \in Criteria : /\ Cleaned(q)[c] \in Slot
                          /\ c \in Legacy => Cleaned(q)[c].status # "active"
  BY <1>1, <1>2, <1>3, SlotShape
<1>5. Cleaned(q) \in Rows
  BY <1>4 DEF Cleaned, Rows
<1>6. \A c \in Criteria \cap q.listed : q.base.entries[c] \in Entry => old(c) = q.base.entries[c]
  BY SlotShape DEF old
<1>7. QED
  BY <1>1, <1>3, <1>4, <1>5, <1>6, CriteriaAssumption DEF Searchable

\* What a change publishes, criterion by criterion.
LEMMA EditedFacts ==
    ASSUME NEW q \in Request, q.op \in Changes,
           q.op \in {"replace", "rename", "activate", "deactivate"}
           => q.base.entries[q.sid] # Absent
    PROVE  /\ Edited(q) \in Rows
           /\ \A c \in Criteria \ Touched(q) : Edited(q)[c] = q.base.entries[c]
           /\ \A c \in Touched(q) :
                 \/ /\ Edited(q)[c] = Absent
                    /\ q.op \in {"delete", "replace"} /\ c = q.sid
                 \/ /\ Edited(q)[c] \in Entry
                    /\ q.op \in {"upload", "replace"} /\ c = q.new
                 \/ /\ Edited(q)[c] \in Entry
                    /\ q.op \in {"rename", "activate", "deactivate"} /\ c = q.sid
                    /\ q.base.entries[c] \in Entry
                    /\ Edited(q)[c].status = "active"
                       => q.op = "activate" \/ q.base.entries[c].status = "active"
           /\ Touched(q) \subseteq Criteria
<1>1. /\ q.base.entries \in Rows /\ q.sid \in Criteria /\ q.new \in Criteria
      /\ q.alias \in Aliases \cup {NoAlias}
  BY MapShape DEF Request
<1>2. q.base.entries[q.sid] \in Slot
  BY <1>1 DEF Rows
<1>3. q.base.entries[q.sid].alias \in Aliases \cup {NoAlias}
  BY <1>2, SlotShape
<1>4. CASE q.op = "upload"
  <2>1. Edited(q) = [q.base.entries EXCEPT ![q.new] = NewEntry] /\ Touched(q) = {q.new}
    BY <1>4 DEF Edited, Touched, Repairs
  <2>2. QED
    BY <1>1, <1>4, <2>1, SlotShape DEF Rows
<1>5. CASE q.op = "delete"
  <2>1. Edited(q) = [q.base.entries EXCEPT ![q.sid] = Absent] /\ Touched(q) = {q.sid}
    BY <1>5 DEF Edited, Touched, Repairs
  <2>2. QED
    BY <1>1, <1>5, <2>1, SlotShape DEF Rows
<1>6. CASE q.op = "replace"
  <2> DEFINE e == [NewEntry EXCEPT !.alias = q.base.entries[q.sid].alias]
  <2>1. /\ Edited(q) = [q.base.entries EXCEPT ![q.sid] = Absent, ![q.new] = e]
        /\ Touched(q) = {q.sid, q.new}
    BY <1>6 DEF Edited, Touched, Repairs
  <2>2. e \in Entry
    BY <1>3, SlotShape, EntryChanged
  <2> HIDE DEF e
  <2>3. QED
    BY <1>1, <1>6, <2>1, <2>2, SlotShape DEF Rows
<1>7. CASE q.op \in {"rename", "activate", "deactivate"}
  <2>1. Touched(q) = {q.sid}
    BY <1>7 DEF Touched, Repairs
  <2>2. q.base.entries[q.sid] \in Entry
    BY <1>2, <1>7, SlotShape
  <2>3. \E e \in Entry :
           /\ Edited(q) = [q.base.entries EXCEPT ![q.sid] = e]
           /\ e.status = "active" => q.op = "activate" \/ q.base.entries[q.sid].status = "active"
    <3>1. CASE q.op = "rename"
      <4> DEFINE e == [q.base.entries[q.sid] EXCEPT !.alias = q.alias]
      <4>1. e \in Entry /\ e.status = q.base.entries[q.sid].status
        BY <1>1, <2>2, EntryChanged
      <4>2. Edited(q) = [q.base.entries EXCEPT ![q.sid] = e]
        BY <3>1 DEF Edited, Repairs
      <4>3. QED
        BY <4>1, <4>2
    <3>2. CASE q.op = "activate"
      BY <1>1, <2>2, <3>2, EntryChanged DEF Edited, Repairs
    <3>3. CASE q.op = "deactivate"
      BY <1>1, <2>2, <3>3, EntryChanged DEF Edited, Repairs
    <3>4. QED
      BY <1>7, <3>1, <3>2, <3>3
  <2>4. QED
    BY <1>1, <1>7, <2>1, <2>2, <2>3, SlotShape DEF Rows
<1>8. QED
  BY <1>4, <1>5, <1>6, <1>7 DEF Changes

LEMMA EditedSearchable ==
    ASSUME NEW q \in Request, q.op \in Changes,
           q.op \in {"replace", "rename", "activate", "deactivate"}
           => q.base.entries[q.sid] # Absent,
           Searchable(q.base.entries),
           q.op = "activate" => q.sid \notin Legacy,
           q.op \in {"upload", "replace"} => q.new \notin Legacy
    PROVE  Searchable(Edited(q))
<1> SUFFICES ASSUME NEW c \in Legacy, Edited(q)[c].status = "active"
             PROVE  FALSE
  BY DEF Searchable
<1>1. c \in Criteria /\ q.base.entries[c].status # "active"
  BY CriteriaAssumption DEF Searchable
<1>2. QED
  BY <1>1, EditedFacts, SlotShape

\* What a change writes into the table.
LEMMA StoredFacts ==
    ASSUME NEW q \in Request, q.op \in Changes, cache \in Rows
    PROVE  /\ Stored(q) \in Rows
           /\ /\ LegacyNeverActive /\ Searchable(q.mine.entries)
              /\ q.op = "upload" => q.new \notin Legacy
              => Searchable(Stored(q))
           /\ q.op = "delete" /\ cache[q.sid] = Absent => Stored(q) = cache
<1>1. /\ q.mine.entries \in Rows /\ q.seen \in Rows /\ q.sid \in Criteria
      /\ q.new \in Criteria /\ q.alias \in Aliases \cup {NoAlias}
  BY MapShape DEF Request
<1>2. \A c \in Criteria : /\ q.mine.entries[c] \in Slot /\ q.seen[c] \in Slot
                          /\ cache[c] \in Slot
  BY <1>1 DEF Rows
<1>3. CASE q.op = "upload"
  <2>1. Stored(q) = [cache EXCEPT ![q.new] = NewEntry]
    BY <1>3 DEF Stored
  <2>2. QED
    BY <1>1, <1>3, <2>1, SlotShape, CriteriaAssumption
    DEF Rows, Searchable, LegacyNeverActive
<1>4. CASE q.op = "delete"
  <2>1. Stored(q) = [cache EXCEPT ![q.sid] = Absent]
    BY <1>4 DEF Stored
  <2>2. QED
    BY <1>1, <1>4, <2>1, SlotShape, CriteriaAssumption
    DEF Rows, Searchable, LegacyNeverActive
<1>5. CASE q.op = "replace"
  <2>1. Stored(q) = [cache EXCEPT ![q.sid] = Absent, ![q.new] = q.mine.entries[q.new]]
    BY <1>5 DEF Stored
  <2>2. QED
    BY <1>1, <1>2, <1>5, <2>1, SlotShape, CriteriaAssumption
    DEF Rows, Searchable, LegacyNeverActive
<1>6. CASE q.op \in {"rename", "activate", "deactivate"}
  <2>1. Stored(q) = Written(q)
    BY <1>6 DEF Stored
  <2>2. \A c \in Criteria :
          Written(q)[c] =
             IF Absent \in {q.mine.entries[c], q.seen[c], cache[c]} THEN cache[c]
             ELSE [status |-> IF /\ q.op \in {"activate", "deactivate"}
                                 /\ q.seen[c].status # q.mine.entries[c].status
                              THEN q.mine.entries[c].status ELSE cache[c].status,
                   alias |-> IF q.op = "rename" /\ c = q.sid /\ q.seen[c].alias # q.alias
                             THEN q.alias ELSE cache[c].alias]
    BY DEF Written
  <2>3. \A c \in Criteria :
          /\ Written(q)[c] \in Slot
          /\ Written(q)[c].status \in {q.mine.entries[c].status, cache[c].status}
    <3> SUFFICES ASSUME NEW c \in Criteria
                 PROVE  /\ Written(q)[c] \in Slot
                        /\ Written(q)[c].status \in {q.mine.entries[c].status, cache[c].status}
      OBVIOUS
    <3>1. CASE Absent \in {q.mine.entries[c], q.seen[c], cache[c]}
      BY <1>2, <2>2, <3>1
    <3>2. CASE Absent \notin {q.mine.entries[c], q.seen[c], cache[c]}
      <4>1. q.mine.entries[c] \in Entry /\ cache[c] \in Entry
        BY <1>2, <3>2, SlotShape
      <4> DEFINE st == IF /\ q.op \in {"activate", "deactivate"}
                          /\ q.seen[c].status # q.mine.entries[c].status
                       THEN q.mine.entries[c].status ELSE cache[c].status
                 al == IF q.op = "rename" /\ c = q.sid /\ q.seen[c].alias # q.alias
                       THEN q.alias ELSE cache[c].alias
      <4>2. /\ st \in {"active", "uploaded"} /\ al \in Aliases \cup {NoAlias}
            /\ st \in {q.mine.entries[c].status, cache[c].status}
        BY <1>1, <4>1, SlotShape
      <4>3. Written(q)[c] = [status |-> st, alias |-> al]
        BY <2>2, <3>2
      <4> HIDE DEF st, al
      <4>4. QED
        BY <4>2, <4>3, SlotShape
    <3>3. QED
      BY <3>1, <3>2
  <2>4. Written(q) \in Rows
    BY <2>3 DEF Written, Rows
  <2>5. QED
    BY <1>6, <2>1, <2>3, <2>4, CriteriaAssumption DEF Searchable, LegacyNeverActive
<1>7. QED
  BY <1>3, <1>4, <1>5, <1>6 DEF Changes

-----------------------------------------------------------------------------
(* What the types and the order of the maps say of a state.                *)

LEMMA Types ==
    ASSUME TypeOK
    PROVE  /\ req \in [Requests -> Request] /\ \A r \in Requests : req[r] \in Request
           /\ \A r \in Requests : /\ req[r].base \in Map \cup {NoMap}
                                  /\ req[r].mine \in Map \cup {NoMap}
           /\ Known \subseteq Map \cup {NoMap}
           /\ maps \in SUBSET Map /\ lateMaps \in SUBSET Map
           /\ clock \in Nat /\ stamp \in Nat /\ \A t \in tx : t \in Tx /\ t.stamp \in Nat
           /\ Settled \subseteq Criteria
<1>1. req \in [Requests -> Request] /\ \A r \in Requests : req[r] \in Request
  BY DEF TypeOK
<1>2. \A r \in Requests : /\ req[r].base \in Map \cup {NoMap}
                          /\ req[r].mine \in Map \cup {NoMap}
  BY <1>1 DEF Request
<1>3. maps \in SUBSET Map /\ lateMaps \in SUBSET Map /\ clock \in Nat /\ stamp \in Nat
  BY CriteriaAssumption DEF TypeOK
<1>4. \A t \in tx : t \in Tx /\ t.stamp \in Nat
  BY CriteriaAssumption DEF TypeOK, Tx
<1>5. Settled \subseteq Criteria
  BY DEF TypeOK, Settled
<1>6. QED
  BY <1>1, <1>2, <1>3, <1>4, <1>5 DEF Known

LEMMA TruthIs ==
    ASSUME TypeOK, MapsApart
    PROVE  /\ Truth \in maps \cup {NoMap} /\ Truth \in Known
           /\ Truth.at \in Nat /\ Truth.at <= clock /\ Truth.entries \in Rows
           /\ \A n \in maps : n.at <= Truth.at
           /\ Apart(maps) /\ Apart(Known) /\ Apart(maps \cup lateMaps)
           /\ maps # {} => Truth \in maps
<1>1. maps \in SUBSET Map /\ Known \subseteq Map \cup {NoMap} /\ maps \cup lateMaps \subseteq Known
      /\ NoMap \in Known
  BY Types DEF Known
<1>2. Truth \in maps \cup {NoMap} /\ \A n \in maps : n.at <= Truth.at
  BY <1>1, NewestIsThere DEF Truth
<1>3. Truth \in Known
  BY <1>1, <1>2
<1>4. Truth.at \in Nat /\ Truth.entries \in Rows
  BY <1>1, <1>3, MapShape
<1>5. Apart(maps) /\ Apart(Known) /\ Apart(maps \cup lateMaps) /\ Truth.at <= clock
  BY <1>1, <1>3 DEF MapsApart, Apart
<1>6. maps # {} => Truth \in maps
  <2> SUFFICES ASSUME NEW m \in maps, Truth = NoMap PROVE FALSE
    BY <1>2
  <2>1. m.at <= 0 /\ m.at >= 1 /\ m.at \in Nat
    BY <1>1, <1>2, MapShape
  <2>2. QED
    BY <2>1
<1>7. QED
  BY <1>1, <1>2, <1>3, <1>4, <1>5, <1>6

-----------------------------------------------------------------------------
(* What a request knows stays true as long as the newest map only advances *)
(* and others do nothing to what it works on.                              *)

Sound(r) == Shaped(req[r]) /\ Rooted(req[r]) /\ Dated(req[r]) /\ Trusted(req[r])

Advances ==
    /\ Truth'.at >= Truth.at /\ Truth'.at \in Nat
    /\ Searchable(Truth.entries) => Searchable(Truth'.entries)

\* A request that has not begun, or has ended, knows nothing.
LEMMA RestingSound ==
    ASSUME NEW r \in Requests, Truth'.at \in Nat,
           req'[r].step \notin Working, StepFits(req'[r]),
           req'[r].base = NoMap, req'[r].mine = NoMap, req'[r].listed = {},
           \A a \in req'[r].stale : a < Truth'.at,
           req'[r].op \in Changes => Searchable(Truth'.entries),
           req'[r].op = "activate" => req'[r].sid \notin Legacy,
           req'[r].op = "replace" => req'[r].sid \in Legacy
    PROVE  Sound(r)'
<1> DEFINE q == req'[r]
<1>1. q.base.at = 0 /\ q.mine.at = 0 /\ Searchable(NoMap.entries)
  BY MapShape, SlotShape, CriteriaAssumption DEF Searchable
<1>2. /\ q.step \notin {"add", "fetch", "remove", "publish", "retire", "load", "commit",
                        "guard", "list", "recover", "mark"}
  BY DEF Working
<1>3. ~HasNew(q) /\ ~Removed(q) /\ ~Fetched(q) /\ ~Published(q)
  BY <1>1, <1>2 DEF HasNew, Removed, Fetched, Published
<1>4. Knows(q)
  BY <1>1, <1>2 DEF Knows
<1>5. StaysSearchable(q)
  BY <1>1, <1>3 DEF StaysSearchable
<1>6. Shaped(req[r])'
  BY <1>4, <1>5 DEF Shaped
<1> HIDE DEF q
<1>7. Rooted(req[r])'
  BY <1>3 DEF Rooted, q
<1>8. Dated(req[r])'
  BY <1>1, <1>3 DEF Dated, q
<1>9. Trusted(req[r])'
  BY <1>2, <1>3 DEF Trusted, q
<1>10. QED
  BY <1>6, <1>7, <1>8, <1>9 DEF Sound

LEMMA RestingStays ==
    ASSUME TypeOK, RequestsSound, NEW r \in Requests, req[r].step \notin Working,
           req'[r] = req[r], Advances, Truth.at \in Nat
    PROVE  Sound(r)'
<1>1. Shaped(req[r]) /\ Dated(req[r]) /\ Trusted(req[r]) /\ req[r] \in Request
  BY Types DEF RequestsSound
<1>2. /\ StepFits(req[r]) /\ req[r].base = NoMap /\ req[r].mine = NoMap /\ req[r].listed = {}
      /\ req[r].op = "activate" => req[r].sid \notin Legacy
      /\ req[r].op = "replace" => req[r].sid \in Legacy
  BY <1>1 DEF Shaped, Knows, StaysSearchable
<1>3. \A a \in req[r].stale : a < Truth'.at
  <2>1. \A a \in req[r].stale : a \in Nat /\ a < Truth.at
    BY <1>1, CriteriaAssumption DEF Dated, Request
  <2>2. QED
    BY <2>1 DEF Advances
<1>4. req[r].op \in Changes => Searchable(Truth'.entries)
  BY <1>1 DEF Trusted, Advances
<1>5. QED
  BY <1>2, <1>3, <1>4, RestingSound DEF Advances

\* What may happen around a request that does not take part in it.
World ==
    /\ Advances
    /\ Settled \subseteq Settled' /\ docs' \subseteq docs \cup lateDocs
    /\ stamp' \in {stamp} \cup {t.stamp : t \in tx}
    /\ \A t \in tx' : t.stamp \in {stamp} \cup {u.stamp : u \in tx}
    /\ lateMaps' \subseteq lateMaps
    /\ \A c \in Criteria : \/ acked'[c] = acked[c] \/ acked'[c] = Shared
                           \/ acked'[c] = Unknown /\ acked[c] # Shared
Standing(q) == Published(q) \/ (q.mine.at # 0 /\ q.mine = Truth)
Stands(q) ==
    q.op \in Changes /\ Standing(q)
    => \A c \in Criteria : acked'[c] # Shared => Truth'.entries[c] = Truth.entries[c]

\* p knows no more than q, of the same aim.
Less(p, q) ==
    /\ SameAim(p, q) /\ p.mine = q.mine /\ p.stale = q.stale
    /\ p.step = "closing" => q.step = "closing"
    /\ Fetched(p) => Fetched(q)
    /\ Published(p) => Standing(q)
    /\ HasNew(p) => HasNew(q)
    /\ Removed(p) => Removed(q) \/ q.sid \in Settled' \ docs'
    /\ p.op \in Repairs /\ p.step \in {"fetch", "publish", "retire", "commit"}
       => q.step \in {"fetch", "publish", "retire", "commit"}
    /\ p.op \in Repairs /\ p.step \in {"retire", "commit"}
       => q.step \in {"retire", "commit"} \/ Searchable(q.base.entries)

\* Rows of this state contradict nothing in the next.
AgreesThen(rows) == \A c \in docs' : acked'[c] \in Entry => rows[c] = acked'[c]

LEMMA AgreementStays ==
    ASSUME TypeOK, World, DocsMinted, AckSound, NEW rows, Agrees(rows)
    PROVE  AgreesThen(rows)
<1> SUFFICES ASSUME NEW c \in docs', acked'[c] \in Entry
             PROVE  rows[c] = acked'[c]
  BY DEF AgreesThen
<1>1. c \in docs \cup lateDocs /\ c \in Criteria
  BY DEF World, TypeOK
<1>2. acked'[c] = acked[c]
  BY <1>1, SlotShape DEF World
<1>3. c \in Settled
  BY <1>1, <1>2 DEF AckSound
<1>4. c \in docs
  BY <1>1, <1>3 DEF Settled
<1>5. QED
  BY <1>2, <1>4 DEF Agrees

LEMMA KnowledgeStays ==
    ASSUME IInv, NEW r \in Requests, World, Stands(req[r]), Less(req'[r], req[r])
    PROVE  Rooted(req[r])' /\ Dated(req[r])' /\ Trusted(req[r])'
<1> DEFINE q == req[r]
           p == req'[r]
<1>1. /\ Rooted(q) /\ Dated(q) /\ Trusted(q) /\ q \in Request
      /\ TypeOK /\ DocsMinted /\ AckSound /\ MapsApart
  BY Types DEF IInv, RequestsSound
<1>2. /\ p.op = q.op /\ p.sid = q.sid /\ p.new = q.new /\ p.base = q.base
      /\ p.listed = q.listed /\ p.mine = q.mine /\ p.stale = q.stale
      /\ Touched(p) = Touched(q)
  BY SameResult DEF Less, SameAim
<1>3. /\ Fetched(p) => Fetched(q)
      /\ Published(p) => Standing(q)
      /\ HasNew(p) => HasNew(q)
      /\ Removed(p) => Removed(q) \/ q.sid \in Settled' \ docs'
      /\ p.op \in Repairs /\ p.step \in {"fetch", "publish", "retire", "commit"}
         => q.step \in {"fetch", "publish", "retire", "commit"}
      /\ p.op \in Repairs /\ p.step \in {"retire", "commit"}
         => q.step \in {"retire", "commit"} \/ Searchable(q.base.entries)
  BY DEF Less
<1>4. /\ q.base.at \in Nat /\ q.mine.at \in Nat /\ Truth.at \in Nat
      /\ \A a \in q.stale : a \in Nat
      /\ q.sid \in Criteria
  BY <1>1, MapShape, TruthIs, CriteriaAssumption DEF Request
<1>5. Standing(q) => q.mine.at <= Truth.at
  BY <1>1, <1>4 DEF Standing, Dated
<1>6. Fetched(p) => Fetched(q)
  BY <1>3
<1>7. p.step \in {"retire", "commit"} => Fetched(p)
  BY DEF Fetched
<1> HIDE DEF p, q
<1>8. /\ HasNew(p) => p.new \in Settled'
      /\ p.listed \subseteq Settled'
      /\ Removed(p) => p.sid \in Settled' \ docs'
  <2>1. HasNew(p) => p.new \in Settled'
    BY <1>1, <1>2, <1>3 DEF Rooted, World
  <2>2. p.listed \subseteq Settled'
    BY <1>1, <1>2 DEF Rooted, World
  <2>3. Removed(p) => p.sid \in Settled' \ docs'
    <3>1. Settled \cap lateDocs = {}
      BY DEF Settled
    <3>2. QED
      BY <1>1, <1>2, <1>3, <3>1 DEF Rooted, World
  <2>4. QED
    BY <2>1, <2>2, <2>3
<1>9. /\ p.base.at <= Truth'.at
      /\ Published(p) => p.mine.at <= Truth'.at
      /\ \A a \in p.stale : a < Truth'.at
      /\ Fetched(p) => stamp' <= p.base.at /\ \A t \in tx' : t.stamp <= p.base.at
      /\ p.mine.at # 0 => \A m \in lateMaps' : m.at <= p.mine.at
  <2>1. p.base.at <= Truth'.at /\ (Published(p) => p.mine.at <= Truth'.at)
    BY <1>1, <1>2, <1>3, <1>4, <1>5 DEF Dated, World, Advances
  <2>2. \A a \in p.stale : a < Truth'.at
    BY <1>1, <1>2, <1>4 DEF Dated, World, Advances
  <2>3. Fetched(p) => stamp' <= p.base.at /\ \A t \in tx' : t.stamp <= p.base.at
    BY <1>1, <1>2, <1>3 DEF Dated, World
  <2>4. p.mine.at # 0 => \A m \in lateMaps' : m.at <= p.mine.at
    BY <1>1, <1>2 DEF Dated, World
  <2>5. QED
    BY <2>1, <2>2, <2>3, <2>4
<1>10. /\ Fetched(p) => AgreesThen(p.base.entries)
       /\ p.op \in Repairs /\ p.step \in {"fetch", "publish", "retire", "commit"}
          => \A c \in docs' : acked'[c] \in Entry => c \in p.listed
       /\ p.op \in Changes /\ Published(p)
          => \A c \in Touched(p) : acked'[c] # Shared => Truth'.entries[c] = p.mine.entries[c]
       /\ \/ p.op \in Changes
          \/ p.op \in Repairs /\ p.step \in {"retire", "commit"}
          \/ p.op \in Repairs /\ Fetched(p) /\ Searchable(p.base.entries)
          => Searchable(Truth'.entries)
  <2>1. Fetched(p) => AgreesThen(p.base.entries)
    <3>1. Fetched(p) => Agrees(q.base.entries)
      BY <1>1, <1>3 DEF Trusted
    <3>2. QED
      BY <3>1, <1>1, <1>2, AgreementStays
  <2>2. p.op \in Repairs /\ p.step \in {"fetch", "publish", "retire", "commit"}
        => \A c \in docs' : acked'[c] \in Entry => c \in p.listed
    <3> SUFFICES ASSUME p.op \in Repairs, p.step \in {"fetch", "publish", "retire", "commit"},
                        NEW c \in docs', acked'[c] \in Entry
                 PROVE  c \in p.listed
      OBVIOUS
    <3>1. \A k \in docs : acked[k] \in Entry => k \in q.listed
      BY <1>1, <1>2, <1>3 DEF Trusted
    <3>2. c \in docs \cup lateDocs /\ c \in Criteria
      BY <1>1 DEF World, TypeOK
    <3>3. acked'[c] = acked[c]
      BY <3>2, SlotShape DEF World
    <3>4. c \in docs
      BY <1>1, <3>2, <3>3 DEF AckSound, Settled
    <3>5. QED
      BY <1>2, <3>1, <3>3, <3>4
  <2>3. p.op \in Changes /\ Published(p)
        => \A c \in Touched(p) : acked'[c] # Shared => Truth'.entries[c] = p.mine.entries[c]
    <3> SUFFICES ASSUME p.op \in Changes, Published(p), NEW c \in Touched(p),
                        acked'[c] # Shared
                 PROVE  Truth'.entries[c] = p.mine.entries[c]
      OBVIOUS
    <3>1. c \in Criteria
      BY <1>1, <1>2 DEF Touched, Changes, Repairs, Request
    <3>2. acked[c] # Shared
      BY <3>1, SlotShape DEF World
    <3>3. Truth.entries[c] = q.mine.entries[c]
      BY <1>1, <1>2, <1>3, <3>2 DEF Trusted, Standing
    <3>4. Truth'.entries[c] = Truth.entries[c]
      BY <1>2, <1>3, <3>1 DEF Stands, q
    <3>5. QED
      BY <1>2, <3>3, <3>4
  <2>4. \/ p.op \in Changes
        \/ p.op \in Repairs /\ p.step \in {"retire", "commit"}
        \/ p.op \in Repairs /\ Fetched(p) /\ Searchable(p.base.entries)
        => Searchable(Truth'.entries)
    BY <1>1, <1>2, <1>3, <1>6, <1>7 DEF Trusted, World, Advances
  <2>5. QED
    BY <2>1, <2>2, <2>3, <2>4
<1>11. Rooted(req[r])'
  BY <1>8 DEF Rooted, p
<1>12. Dated(req[r])'
  BY <1>9 DEF Dated, p
<1>13. Trusted(req[r])'
  BY <1>10 DEF Trusted, AgreesThen, Agrees, p
<1>14. QED
  BY <1>11, <1>12, <1>13

-----------------------------------------------------------------------------
(* What a step does to the requests.                                       *)

Typed == req' \in [Requests -> Request]
Alone(r) == \A s \in Requests \ {r} : req'[s] = req[s]
Keeps(r) ==
    /\ SameAim(req'[r], req[r]) /\ req'[r].mine = req[r].mine
    /\ req'[r].stale = req[r].stale /\ req'[r].seen = req[r].seen
    /\ req'[r].retry = req[r].retry

LEMMA IdleType ==
    /\ Idle \in Request
    /\ \A op \in Changes \cup Repairs \cup {"search"}, c \in Criteria,
          a \in Aliases \cup {NoAlias} : Waiting(op, c, a) \in Request
<1>1. AnyCriterion \in Criteria
  BY CriteriaAssumption DEF AnyCriterion
<1>2. NoMap \in Map \cup {NoMap} /\ NoRows \in Rows
  BY MapShape
<1>3. Idle \in Request
  BY <1>1, <1>2 DEF Idle, Request, Steps, Working
<1>4. "waiting" \in Steps
  BY DEF Steps
<1>5. ASSUME NEW op \in Changes \cup Repairs \cup {"search"}, NEW c \in Criteria,
             NEW a \in Aliases \cup {NoAlias}
      PROVE  Waiting(op, c, a) \in Request
  <2>1. op \in Changes \cup Repairs \cup {"search", "none"}
    OBVIOUS
  <2>2. Waiting(op, c, a) = [Idle EXCEPT !.op = op, !.step = "waiting", !.sid = c, !.alias = a]
    BY DEF Waiting
  <2>3. QED
    BY <1>3, <1>4, <2>1, <2>2 DEF Request
<1>6. QED
  BY <1>3, <1>5

LEMMA SetDoes ==
    ASSUME TypeOK, NEW r \in Requests, NEW q \in Request, Set(r, q)
    PROVE  Typed /\ Alone(r) /\ req'[r] = q
BY DEF TypeOK, Set, Typed, Alone

LEMMA GoDoes ==
    ASSUME TypeOK, NEW r \in Requests, NEW st \in Steps, Go(r, st)
    PROVE  Typed /\ Alone(r) /\ req'[r].step = st /\ Keeps(r)
<1>1. req \in [Requests -> Request] /\ req[r] \in Request
  BY Types
<1>2. QED
  BY <1>1 DEF Go, Request, Typed, Alone, Keeps, SameAim

LEMMA ReturnDoes ==
    ASSUME TypeOK, NEW r \in Requests, Return(r)
    PROVE  /\ Typed /\ Alone(r) /\ req'[r] = Idle
           /\ lock' = IF lock = r THEN Free ELSE lock
           /\ lock' \in Requests \cup {Free}
BY IdleType DEF TypeOK, Return, Typed, Alone

\* A failing request ends, or goes on to look what became of its change, or to
\* mark the table.
LEMMA FailDoes ==
    ASSUME TypeOK, NEW r \in Requests, Fail(r)
    PROVE  /\ Typed /\ Alone(r) /\ lock' \in Requests \cup {Free}
           /\ \/ Return(r)
              \/ /\ lock' = lock /\ Keeps(r)
                 /\ \/ req'[r].step = "mark"
                    \/ /\ req'[r].step = "recover" /\ req[r].step # "fetch"
                       /\ req[r].op \in {"activate", "deactivate"}
<1>1. CASE ~WriteStarted(req[r])
  BY <1>1, ReturnDoes DEF Fail
<1>2. CASE WriteStarted(req[r])
  <2> DEFINE st == IF Rescued(req[r]) THEN "recover" ELSE "mark"
  <2>1. st \in Steps
    BY DEF Steps, Working
  <2>2. Go(r, st) /\ lock' = lock
    BY <1>2 DEF Fail
  <2>3. Typed /\ Alone(r) /\ req'[r].step = st /\ Keeps(r)
    BY <2>1, <2>2, GoDoes
  <2>4. st = "recover" => req[r].op \in {"activate", "deactivate"} /\ req[r].step # "fetch"
    BY <1>2 DEF Rescued, WriteStarted
  <2>5. lock' \in Requests \cup {Free}
    BY <2>2 DEF TypeOK
  <2>6. QED
    BY <2>2, <2>3, <2>4, <2>5
<1>3. QED
  BY <1>1, <1>2

\* The faults are counted up to their bound.
LEMMA FaultsCounted ==
    ASSUME TypeOK
    PROVE  /\ \A f : Blame(f) => faults' \in 0 .. MaxFaults
           /\ \A o \in Outcomes : Tally(o) => faults' \in 0 .. MaxFaults
           /\ (UNCHANGED faults) => faults' \in 0 .. MaxFaults
BY CriteriaAssumption DEF TypeOK, Blame, May, Tally, Outcomes

-----------------------------------------------------------------------------
(* The step and what goes with it: one lemma for all requests.             *)

LEMMA ShapedAgain ==
    ASSUME NEW p, NEW q, Shaped(q), SameAim(p, q), p.mine = q.mine,
           p.step \in Working, StepFits(p),
           \/ p.step \in {"add", "fetch", "publish", "guard", "list"}
           \/ p.op = "delete" /\ p.step = "remove"
           => p.mine = NoMap,
           \/ p.step \in {"retire", "load", "recover"}
           \/ p.op = "replace" /\ p.step = "remove"
           \/ p.op \in Changes \ {"delete"} /\ p.step = "commit"
           => p.mine.at # 0,
           p.step = "commit" /\ p.mine.at = 0 => Unneeded(p),
           /\ p.op \in {"replace", "rename", "activate", "deactivate"}
           /\ p.step \in {"add", "publish", "retire", "remove", "load", "commit", "recover"}
           => p.base.entries[p.sid] # Absent,
           HasNew(p) => p.new \notin Legacy
    PROVE  Shaped(p)
<1>1. Edited(p) = Edited(q)
  BY SameResult
<1>2. Knows(p)
  BY <1>1 DEF Shaped, Knows, SameAim
<1>3. StaysSearchable(p)
  BY DEF Shaped, StaysSearchable, SameAim
<1>4. QED
  BY <1>2, <1>3 DEF Shaped

\* A request on its way to mark the table, or to look again.
LEMMA GivingUp ==
    ASSUME NEW p, NEW q, Shaped(q), SameAim(p, q), p.mine = q.mine, p.stale = q.stale,
           q.step \in Working,
           \/ p.step = "mark"
           \/ /\ p.step = "recover" /\ q.step \in {"retire", "commit", "load"}
              /\ q.op \in {"activate", "deactivate"}
    PROVE  Shaped(p) /\ Less(p, q)
<1>2. StepFits(p)
  BY DEF Shaped, StepFits, SameAim, Working
<1>3. \/ q.mine.at # 0 /\ q.base.entries[q.sid] # Absent
      \/ p.step = "mark"
  BY DEF Shaped, Knows, Changes
<1>4. ~HasNew(p) /\ ~Removed(p) /\ ~Published(p)
  BY DEF HasNew, Removed, Published
<1>5. p.step \in Working /\ (p.op \in {"activate", "deactivate"} => p.op \notin Repairs)
  BY DEF Working, Repairs
<1>6. p.op = q.op /\ p.base = q.base /\ p.sid = q.sid
  BY DEF SameAim
<1>7. Shaped(p)
  BY <1>2, <1>3, <1>4, <1>5, <1>6, ShapedAgain
<1>8. Fetched(p) => Fetched(q)
  BY <1>6 DEF Fetched
<1>9. Less(p, q)
  BY <1>4, <1>8 DEF Less
<1>10. QED
  BY <1>7, <1>9

\* A step under the lock: the others rest, and need only be left alone.
LEMMA LockStep ==
    ASSUME IInv, NEW r \in Requests, req[r].step \in Working, Alone(r), Advances,
           Sound(r)', req'[r].step \in Working => lock' = lock,
           IF req'[r].step = "closing" THEN tx = {} /\ tx' # {} ELSE tx' = tx
    PROVE  LockHeld' /\ RequestsSound'
<1>1. lock = r /\ \A s \in Requests \ {r} : req[s].step \notin Working
  BY DEF IInv, LockHeld
<1>2. \A s \in Requests \ {r} : Sound(s)'
  BY <1>1, RestingStays, TruthIs DEF IInv, Alone
<1>3. \A s \in Requests : Sound(s)'
  BY <1>2
<1>4. RequestsSound'
  BY <1>3 DEF RequestsSound, Sound
<1>5. \A s \in Requests : req'[s].step \in Working => lock' = s
  BY <1>1 DEF Alone
<1>6. \A s \in Requests : req'[s].step = "closing"
         => tx' # {} /\ \A u \in Requests \ {s} : req'[u].step # "closing"
  BY DEF Alone, IInv, LockHeld, At
<1>7. QED
  BY <1>4, <1>5, <1>6 DEF LockHeld, At

\* A step of a request that does not hold the lock, or of the world.
LEMMA OthersSound ==
    ASSUME IInv, World, NEW s \in Requests, req'[s] = req[s], Stands(req[s])
    PROVE  Sound(s)'
<1>1. Shaped(req[s])
  BY DEF IInv, RequestsSound
<1>2. Less(req'[s], req[s])
  BY DEF Less, SameAim, Standing
<1>3. Rooted(req[s])' /\ Dated(req[s])' /\ Trusted(req[s])'
  BY <1>2, KnowledgeStays
<1>4. Shaped(req[s])'
  BY <1>1 DEF Shaped, StepFits, Knows, StaysSearchable
<1>5. QED
  BY <1>3, <1>4 DEF Sound

\* The alias maps are the ones that were known.
LEMMA KnownStays ==
    ASSUME NEW r \in Requests, Alone(r), req'[r].base \in Known, req'[r].mine \in Known,
           maps' \cup lateMaps' \subseteq Known
    PROVE  Known' \subseteq Known
<1> SUFFICES ASSUME NEW m \in Known'
             PROVE  m \in Known
  OBVIOUS
<1>1. CASE m \in maps' \cup lateMaps' \cup {NoMap}
  BY <1>1 DEF Known
<1>2. CASE m \in {req'[s].base : s \in Requests} \cup {req'[s].mine : s \in Requests}
  <2>1. PICK s \in Requests : m = req'[s].base \/ m = req'[s].mine
    BY <1>2
  <2>2. CASE s = r
    BY <2>1, <2>2
  <2>3. CASE s # r
    BY <2>1, <2>3 DEF Alone, Known
  <2>4. QED
    BY <2>2, <2>3
<1>3. QED
  BY <1>1, <1>2 DEF Known

CloudSound == /\ DocsMinted /\ MapsApart /\ EntriesSettled /\ LateSound
              /\ AckSound /\ AcknowledgedKept

\* Older alias maps may go.
LEMMA CloudStays ==
    ASSUME IInv, Truth' = Truth, Known' \subseteq Known,
           UNCHANGED <<docs, lateDocs, lateMaps, clock, minted, acked>>
    PROVE  CloudSound'
<1>1. DocsMinted'
  BY DEF IInv, DocsMinted
<1>2. MapsApart'
  BY DEF IInv, MapsApart
<1>3. Settled' = Settled
  BY DEF Settled
<1>4. EntriesSettled'
  BY <1>3 DEF IInv, EntriesSettled
<1>5. LateSound'
  BY DEF IInv, LateSound, Agrees
<1>6. AckSound' /\ AcknowledgedKept'
  BY <1>3 DEF IInv, AckSound, AcknowledgedKept
<1>7. QED
  BY <1>1, <1>2, <1>4, <1>5, <1>6 DEF CloudSound

\* A table that is not written stays right: a newer map is no reason to skip.
LEMMA TableStays ==
    ASSUME IInv, Advances, Truth' = Truth \/ Truth'.at > Truth.at,
           UNCHANGED <<table, tx>>
    PROVE  TableSound' /\ RowsRight'
<1>1. /\ stamp' = stamp /\ cache' = cache /\ sync' = sync /\ tx' = tx
      /\ stamp \in Nat /\ Truth.at \in Nat /\ Truth'.at \in Nat
      /\ \A t \in tx : t.stamp \in Nat
  BY Types, TruthIs DEF IInv, table, Advances
<1>2. TableSound'
  BY <1>1 DEF IInv, TableSound, Advances
<1>3. SkipIsRight'
  BY <1>1 DEF IInv, RowsRight, SkipIsRight, WouldSkip, TableSound, Advances
<1>4. LegacyNeverActive'
  BY <1>1 DEF IInv, RowsRight, LegacyNeverActive
<1>5. QED
  BY <1>2, <1>3, <1>4 DEF RowsRight

\* The maps that fetch and the searches remove do not count.
LEMMA SweepDoes ==
    ASSUME TypeOK, MapsApart, NEW old, Truth.at \notin old, Sweep(old)
    PROVE  /\ maps' \subseteq maps /\ Truth' = Truth /\ faults' \in 0 .. MaxFaults
<1>1. maps \in SUBSET Map /\ Apart(maps)
  BY Types, TruthIs
<1>2. maps' \subseteq maps /\ (Truth \in maps => Truth \in maps')
  BY DEF Sweep
<1>3. Truth' = Truth
  BY <1>1, <1>2, NewestKept DEF Truth
<1>4. faults' \in 0 .. MaxFaults
  BY FaultsCounted DEF Sweep
<1>5. QED
  BY <1>2, <1>3, <1>4

LEMMA SameTruthAdvances ==
    ASSUME TypeOK, MapsApart, Truth' = Truth
    PROVE  Advances
BY TruthIs DEF Advances

LEMMA SameMapsSameTruth ==
    ASSUME maps' = maps
    PROVE  Truth' = Truth
BY DEF Truth

\* The documents, what was acknowledged and the table stay as they are, and the
\* map that counts as well.
Quiet ==
    /\ Truth' = Truth /\ maps' \subseteq maps
    /\ UNCHANGED <<docs, lateDocs, lateMaps, clock, minted, table, tx, acked>>

LEMMA QuietWorld ==
    ASSUME IInv, Quiet
    PROVE  World /\ Advances /\ \A q : Stands(q)
<1>1. Advances
  BY SameTruthAdvances DEF IInv, Quiet
<1>2. World
  BY <1>1 DEF World, Quiet, Settled, table
<1>3. \A q : Stands(q)
  BY DEF Stands, Quiet
<1>4. QED
  BY <1>1, <1>2, <1>3

LEMMA QuietTypes ==
    ASSUME TypeOK, Quiet, Typed, lock' \in Requests \cup {Free}, faults' \in 0 .. MaxFaults
    PROVE  TypeOK'
BY DEF TypeOK, Quiet, Typed, table

LEMMA QuietStep ==
    ASSUME IInv, NEW r \in Requests, req[r].step \in Working, Quiet, Typed, Alone(r),
           Sound(r)', req'[r].step # "closing", req'[r].step \in Working => lock' = lock,
           lock' \in Requests \cup {Free}, faults' \in 0 .. MaxFaults,
           req'[r].base \in Known, req'[r].mine \in Known
    PROVE  IInv'
<1>1. Advances
  BY QuietWorld
<1>2. LockHeld' /\ RequestsSound'
  BY <1>1, LockStep DEF Quiet
<1>3. Known' \subseteq Known
  <2>1. maps' \cup lateMaps' \subseteq Known
    BY DEF Quiet, Known
  <2>2. QED
    BY <2>1, KnownStays
<1>4. CloudSound'
  BY <1>3, CloudStays DEF Quiet
<1>5. TableSound' /\ RowsRight'
  BY <1>1, TableStays DEF Quiet
<1>6. TypeOK'
  BY QuietTypes DEF IInv
<1>7. QED
  BY <1>2, <1>4, <1>5, <1>6 DEF IInv, CloudSound

LEMMA IdleSound ==
    ASSUME NEW r \in Requests, Truth'.at \in Nat, req'[r] = Idle
    PROVE  Sound(r)' /\ req'[r].base \in Known /\ req'[r].mine \in Known
                     /\ req'[r].step \notin Working /\ req'[r].step # "closing"
<1>1. /\ Idle.step = "idle" /\ Idle.op = "none" /\ Idle.base = NoMap /\ Idle.mine = NoMap
      /\ Idle.listed = {} /\ Idle.stale = {}
  BY DEF Idle
<1>2. Idle.step \notin Working /\ StepFits(Idle) /\ Idle.op \notin Changes
  BY <1>1 DEF Working, StepFits, Repairs, Changes
<1>3. Idle.op # "activate" /\ Idle.op # "replace" /\ \A a \in Idle.stale : a < Truth'.at
  BY <1>1
<1>4. Sound(r)'
  BY <1>1, <1>2, <1>3, RestingSound
<1>5. QED
  BY <1>1, <1>2, <1>4 DEF Known

\* The step goes on with what it knows.
LEMMA QuietMove ==
    ASSUME IInv, NEW r \in Requests, req[r].step \in Working, Quiet, Typed, Alone(r),
           Shaped(req'[r]), Less(req'[r], req[r]),
           lock' = lock, faults' \in 0 .. MaxFaults
    PROVE  IInv'
<1>1. Rooted(req[r])' /\ Dated(req[r])' /\ Trusted(req[r])'
  BY QuietWorld, KnowledgeStays
<1>2. Shaped(req[r])'
  BY DEF Shaped, StepFits, Knows, StaysSearchable
<1>3. Sound(r)'
  BY <1>1, <1>2 DEF Sound
<1>4. req'[r].base \in Known /\ req'[r].mine \in Known
  BY DEF Less, SameAim, Known
<1>5. lock' \in Requests \cup {Free} /\ req'[r].step # "closing"
  BY DEF IInv, TypeOK, Less, Working
<1>6. QED
  BY <1>3, <1>4, <1>5, QuietStep

LEMMA QuietReturn ==
    ASSUME IInv, NEW r \in Requests, req[r].step \in Working, Quiet, Return(r),
           faults' \in 0 .. MaxFaults
    PROVE  IInv'
<1>1. /\ Typed /\ Alone(r) /\ req'[r] = Idle /\ lock' \in Requests \cup {Free}
  BY ReturnDoes DEF IInv
<1>2. Truth'.at \in Nat
  BY QuietWorld DEF Advances
<1>3. QED
  BY <1>1, <1>2, IdleSound, QuietStep

LEMMA QuietFail ==
    ASSUME IInv, NEW r \in Requests, Quiet, Fail(r), faults' \in 0 .. MaxFaults,
           req[r].step \in {"fetch", "list", "remove", "retire", "commit"}
    PROVE  IInv'
<1>1. req[r].step \in Working
  BY DEF Working
<1>2. Typed /\ Alone(r) /\ lock' \in Requests \cup {Free}
  BY FailDoes DEF IInv
<1>3. CASE Return(r)
  BY <1>1, <1>3, QuietReturn
<1>4. CASE ~Return(r)
  <2>1. /\ lock' = lock /\ Keeps(r)
        /\ \/ req'[r].step = "mark"
           \/ /\ req'[r].step = "recover" /\ req[r].step # "fetch"
              /\ req[r].op \in {"activate", "deactivate"}
    BY <1>4, FailDoes DEF IInv
  <2>2. Shaped(req[r])
    BY DEF IInv, RequestsSound
  <2>3. req[r].op \in {"activate", "deactivate"} => req[r].step \notin {"list", "remove"}
    BY <2>2 DEF Shaped, StepFits, Repairs
  <2>4. Shaped(req'[r]) /\ Less(req'[r], req[r])
    BY <1>1, <2>1, <2>2, <2>3, GivingUp DEF Keeps
  <2>5. QED
    BY <1>1, <1>2, <2>1, <2>4, QuietMove
<1>5. QED
  BY <1>3, <1>4

-----------------------------------------------------------------------------
(* Actions that change nothing but a request, or remove maps that do not   *)
(* count.                                                                  *)

LEMMA NothingQuiet ==
    ASSUME UNCHANGED <<cloud, table, tx, acked>>
    PROVE  Quiet
BY SameMapsSameTruth DEF Quiet, cloud

LEMMA RemoveMissingKeeps ==
    ASSUME IInv, NEW r \in Requests, RemoveMissing(r)
    PROVE  IInv'
<1>1. Quiet /\ Fail(r) /\ req[r].step = "remove" /\ UNCHANGED faults
  BY NothingQuiet DEF RemoveMissing, quiet, At
<1>2. faults' \in 0 .. MaxFaults
  BY <1>1 DEF IInv, TypeOK
<1>3. QED
  BY <1>1, <1>2, QuietFail

LEMMA DatabaseFailsKeeps ==
    ASSUME IInv, NEW r \in Requests, DatabaseFails(r)
    PROVE  IInv'
<1>1. Quiet /\ faults' \in 0 .. MaxFaults
  BY NothingQuiet, FaultsCounted DEF DatabaseFails, IInv
<1>2. req[r].step \in {"commit", "mark"} /\ req[r].step \in Working
  BY DEF DatabaseFails, At, Working
<1>3. CASE At(r, "commit") /\ Fail(r)
  BY <1>1, <1>3, QuietFail DEF At
<1>4. CASE At(r, "commit") /\ Go(r, "mark") /\ UNCHANGED lock
  <2>1. Typed /\ Alone(r) /\ req'[r].step = "mark" /\ Keeps(r)
    BY <1>4, GoDoes DEF IInv, Steps, Working
  <2>2. Shaped(req'[r]) /\ Less(req'[r], req[r])
    BY <1>2, <2>1, GivingUp DEF Keeps, IInv, RequestsSound
  <2>3. QED
    BY <1>1, <1>2, <1>4, <2>1, <2>2, QuietMove
<1>5. CASE Return(r)
  BY <1>1, <1>2, <1>5, QuietReturn
<1>6. QED
  BY <1>3, <1>4, <1>5 DEF DatabaseFails

\* There is nothing to publish: the map the repair compared was clean.
LEMMA PublishNothingKeeps ==
    ASSUME IInv, NEW r \in Requests, PublishNothing(r)
    PROVE  IInv'
<1> DEFINE q == req[r]
           p == req'[r]
<1>1. /\ Quiet /\ faults' \in 0 .. MaxFaults /\ q.step = "publish" /\ q.step \in Working
      /\ Unneeded(q) /\ lock' = lock
  BY NothingQuiet DEF PublishNothing, quiet, IInv, TypeOK, At, Working
<1>2. Typed /\ Alone(r) /\ p.step = "commit" /\ Keeps(r)
  BY GoDoes DEF PublishNothing, IInv, Steps, Working
<1>3. Shaped(q) /\ q \in Request /\ q.base.entries \in Rows
  BY Types, MapShape DEF IInv, RequestsSound
<1>4. SameAim(p, q) /\ p.mine = q.mine /\ p.stale = q.stale /\ p.op = q.op
      /\ (Unneeded(p) <=> Unneeded(q)) /\ p.base = q.base /\ p.sid = q.sid /\ p.new = q.new
  BY <1>2, SameResult DEF Keeps, SameAim
<1> HIDE DEF p, q
<1>5. q.mine = NoMap /\ NoMap.at = 0
  BY <1>1, <1>3, MapShape DEF Shaped, Knows
<1>6. \/ q.op = "delete" /\ q.op \notin Repairs
      \/ q.op \in Repairs /\ Cleaned(q) = q.base.entries /\ q.op \notin Changes
  BY <1>1 DEF Unneeded, Repairs, Changes
<1>7. q.op \in Repairs => Searchable(q.base.entries)
  BY <1>3, <1>6, CleanedType DEF Repairs
<1>8. StepFits(p)
  BY <1>1, <1>2, <1>3, <1>4 DEF Shaped, StepFits
<1>9. ~HasNew(p) /\ ~Published(p) /\ (Removed(p) => Removed(q)) /\ Fetched(q)
  BY <1>1, <1>2, <1>4, <1>5, <1>6 DEF HasNew, Published, Removed, Fetched, Repairs
<1>10. Shaped(p)
  <2>1. p.op \notin {"replace", "rename", "activate", "deactivate", "upload"}
    BY <1>4, <1>6 DEF Repairs
  <2>2. p.op \in Changes => p.op = "delete"
    BY <1>4, <1>6
  <2>3. p.step \in Working
    BY <1>2 DEF Working
  <2>4. Unneeded(p)
    BY <1>1, <1>4
  <2>5. QED
    BY <1>2, <1>3, <1>4, <1>8, <1>9, <2>1, <2>2, <2>3, <2>4, ShapedAgain
<1>11. Less(p, q)
  BY <1>1, <1>2, <1>4, <1>7, <1>9 DEF Less
<1>12. QED
  BY <1>1, <1>2, <1>10, <1>11, QuietMove DEF p, q

LEMMA LoadKeeps ==
    ASSUME IInv, NEW r \in Requests, Load(r)
    PROVE  IInv'
<1> DEFINE q == req[r]
           p == req'[r]
<1>1. /\ Quiet /\ faults' \in 0 .. MaxFaults /\ q.step = "load" /\ q.step \in Working
      /\ lock' = lock /\ Set(r, [q EXCEPT !.seen = cache, !.step = "commit"])
  BY NothingQuiet DEF Load, quiet, IInv, TypeOK, At, Working
<1>2. q \in Request /\ cache \in Rows /\ Shaped(q)
  BY Types DEF IInv, TypeOK, RequestsSound
<1>3. /\ [q EXCEPT !.seen = cache, !.step = "commit"] \in Request
      /\ LET n == [q EXCEPT !.seen = cache, !.step = "commit"]
         IN  SameAim(n, q) /\ n.mine = q.mine /\ n.stale = q.stale /\ n.step = "commit"
  BY <1>2 DEF Request, Steps, Working, SameAim
<1>4. Typed /\ Alone(r) /\ p = [q EXCEPT !.seen = cache, !.step = "commit"]
  BY <1>1, <1>3, SetDoes DEF IInv
<1>5. SameAim(p, q) /\ p.mine = q.mine /\ p.stale = q.stale /\ p.step = "commit"
  BY <1>3, <1>4
<1> HIDE DEF p, q
<1>6. /\ q.op \in {"rename", "activate", "deactivate"} /\ q.mine.at # 0
      /\ q.base.entries[q.sid] # Absent
      /\ p.op = q.op /\ p.sid = q.sid /\ p.base = q.base
  BY <1>1, <1>2, <1>5 DEF Shaped, StepFits, Knows, SameAim
<1>7. ~HasNew(p) /\ ~Removed(p) /\ Fetched(q) /\ Standing(q) /\ p.op \notin Repairs
  BY <1>1, <1>6 DEF HasNew, Removed, Fetched, Standing, Published, Repairs
<1>8. StepFits(p)
  BY <1>5, <1>6, <1>7 DEF StepFits
<1>9. Shaped(p)
  <2>1. p.step \in Working
    BY <1>5 DEF Working
  <2>2. QED
    BY <1>2, <1>5, <1>6, <1>7, <1>8, <2>1, ShapedAgain
<1>10. Less(p, q)
  BY <1>5, <1>7 DEF Less
<1>11. QED
  BY <1>1, <1>4, <1>9, <1>10, QuietMove DEF p, q

LEMMA RetireGoesOn ==
    ASSUME IInv, NEW r \in Requests, req[r].step = "retire", Quiet, Proceed(r),
           lock' = lock, faults' \in 0 .. MaxFaults
    PROVE  IInv'
<1> DEFINE q == req[r]
           p == req'[r]
<1>1. q.step = "retire" /\ q.step \in Working /\ Shaped(q) /\ q \in Request
  BY Types DEF IInv, RequestsSound, Working
<1>2. q.op \in Changes \cup Repairs
  BY <1>1 DEF Shaped, StepFits, Request
<1>3. /\ After(q) \in {"commit", "remove", "load"}
      /\ After(q) = "remove" <=> q.op = "replace"
      /\ After(q) = "load" <=> q.op \in {"rename", "activate", "deactivate"}
  BY <1>1, <1>2, AfterIs DEF Changes, Repairs
<1>4. Typed /\ Alone(r) /\ p.step = After(q) /\ Keeps(r)
  BY <1>3, GoDoes DEF Proceed, IInv, Steps, Working
<1>5. SameAim(p, q) /\ p.mine = q.mine /\ p.stale = q.stale
  BY <1>4 DEF Keeps
<1> HIDE DEF p, q
<1>6. p.op = q.op /\ p.sid = q.sid /\ p.base = q.base /\ p.new = q.new
  BY <1>5 DEF SameAim
<1>7. /\ q.mine.at # 0
      /\ q.op \in {"replace", "rename", "activate", "deactivate"} => q.base.entries[q.sid] # Absent
  BY <1>1 DEF Shaped, Knows
<1>8. (HasNew(p) => HasNew(q)) /\ (Removed(p) => Removed(q)) /\ Fetched(q) /\ Standing(q)
  BY <1>1, <1>3, <1>4, <1>6, <1>7 DEF HasNew, Removed, Fetched, Standing, Published
<1>9. HasNew(q) => q.new \notin Legacy
  BY <1>1 DEF Shaped, StaysSearchable
<1>10. StepFits(p)
  BY <1>1, <1>2, <1>3, <1>4, <1>6 DEF Shaped, StepFits, Changes, Repairs
<1>11. Shaped(p)
  <2>1. p.step \in Working /\ p.mine.at # 0
        /\ p.step \notin {"add", "fetch", "publish", "guard", "list"}
        /\ ~(p.op = "delete" /\ p.step = "remove")
    BY <1>3, <1>4, <1>5, <1>6, <1>7 DEF Working
  <2>2. QED
    BY <1>1, <1>5, <1>6, <1>7, <1>8, <1>9, <1>10, <2>1, ShapedAgain
<1>12. Less(p, q)
  BY <1>1, <1>3, <1>4, <1>5, <1>8 DEF Less
<1>13. QED
  BY <1>1, <1>4, <1>11, <1>12, QuietMove DEF p, q

\* The map that is deleted is older than the one that was published.
LEMMA RetireKeeps ==
    ASSUME IInv, NEW r \in Requests, Retire(r)
    PROVE  IInv'
<1> DEFINE old == req[r].base
<1>1. /\ req[r].step = "retire" /\ TypeOK /\ MapsApart
      /\ UNCHANGED <<docs, lateDocs, lateMaps, clock, minted, table, tx, acked>>
  BY DEF IInv, Retire, At
<1>2. maps \in SUBSET Map /\ Apart(maps) /\ Truth.at \in Nat
  BY <1>1, Types, TruthIs
<1>3. old.at < Truth.at
  <2>1. Shaped(req[r]) /\ Dated(req[r])
    BY DEF IInv, RequestsSound
  <2>2. req[r].mine.at # 0 /\ req[r].mine.at > old.at
    BY <1>1, <2>1 DEF Shaped, Knows
  <2>3. req[r].mine.at <= Truth.at
    BY <1>1, <2>1, <2>2 DEF Dated, Published
  <2>4. req[r].mine.at \in Nat /\ old.at \in Nat
    BY <1>1, Types, MapShape
  <2>5. QED
    BY <1>2, <2>2, <2>3, <2>4
<1>4. \A M \in {maps, maps \ {old}} : Newest(M) = Truth
  <2>1. Truth \in maps => Truth \in maps \ {old}
    BY <1>2, <1>3
  <2>2. QED
    BY <1>2, <2>1, NewestKept DEF Truth
<1> HIDE DEF old
<1>5. ASSUME maps' \in {maps, maps \ {old}}
      PROVE  Quiet
  BY <1>1, <1>4, <1>5 DEF Quiet, Truth
<1>6. CASE Proceed(r) /\ UNCHANGED <<maps, lock, faults>>
  <2>1. faults' \in 0 .. MaxFaults
    BY <1>1, <1>6, FaultsCounted
  <2>2. QED
    BY <1>1, <1>5, <1>6, <2>1, RetireGoesOn
<1>7. CASE Fail(r) /\ UNCHANGED <<maps, faults>>
  <2>1. faults' \in 0 .. MaxFaults
    BY <1>1, <1>7, FaultsCounted
  <2>2. QED
    BY <1>1, <1>5, <1>7, <2>1, QuietFail
<1>8. ASSUME NEW outcome \in Outcomes \ {"late"},
             maps' = IF outcome = "lost" THEN maps ELSE maps \ {old},
             Answered(r, outcome)
      PROVE  IInv'
  <2>1. Quiet
    BY <1>5, <1>8
  <2>2. faults' \in 0 .. MaxFaults
    BY <1>1, <1>8, FaultsCounted DEF Answered
  <2>3. CASE outcome = "done"
    BY <1>1, <1>8, <2>1, <2>2, <2>3, RetireGoesOn DEF Answered
  <2>4. CASE outcome # "done"
    BY <1>1, <1>8, <2>1, <2>2, <2>4, QuietFail DEF Answered
  <2>5. QED
    BY <2>3, <2>4
<1>9. QED
  BY <1>6, <1>7, <1>8 DEF Retire, old

\* The change took place if the newest map is the one that was published.
LEMMA RecoverKeeps ==
    ASSUME IInv, NEW r \in Requests, Recover(r)
    PROVE  IInv'
<1> DEFINE q == req[r]
           p == req'[r]
<1>1. /\ q.step = "recover" /\ q.step \in Working /\ TypeOK /\ MapsApart /\ lock' = lock
      /\ UNCHANGED <<docs, lateDocs, lateMaps, clock, minted, table, tx, acked>>
      /\ Shaped(q) /\ q \in Request
  BY Types DEF IInv, Recover, At, Working, RequestsSound
<1>2. CASE Sweep(Older)
  <2>1. Truth.at \notin Older
    BY DEF Older
  <2>2. Quiet /\ faults' \in 0 .. MaxFaults
    BY <1>1, <1>2, <2>1, SweepDoes DEF Quiet
  <2>3. CASE Go(r, "mark")
    <3>1. Typed /\ Alone(r) /\ p.step = "mark" /\ Keeps(r)
      BY <2>3, GoDoes DEF IInv, Steps, Working
    <3>2. Shaped(p) /\ Less(p, q)
      BY <1>1, <3>1, GivingUp DEF Keeps
    <3>3. QED
      BY <1>1, <2>2, <3>1, <3>2, QuietMove
  <2>4. CASE Truth.at = q.mine.at /\ Set(r, [q EXCEPT !.step = "load", !.retry = TRUE])
    <3>1. /\ [q EXCEPT !.step = "load", !.retry = TRUE] \in Request
          /\ LET n == [q EXCEPT !.step = "load", !.retry = TRUE]
             IN  SameAim(n, q) /\ n.mine = q.mine /\ n.stale = q.stale /\ n.step = "load"
      BY <1>1 DEF Request, Steps, Working, SameAim
    <3>2. Typed /\ Alone(r) /\ p = [q EXCEPT !.step = "load", !.retry = TRUE]
      BY <2>4, <3>1, SetDoes DEF IInv
    <3>3. SameAim(p, q) /\ p.mine = q.mine /\ p.stale = q.stale /\ p.step = "load"
      BY <3>1, <3>2
    <3>4. q.mine = Truth
      <4>1. q.mine \in Known /\ Truth \in Known /\ Apart(Known)
        BY <1>1, TruthIs DEF Known
      <4>2. QED
        BY <2>4, <4>1 DEF Apart
    <3> HIDE DEF p, q
    <3>5. /\ q.op \in {"activate", "deactivate"} /\ q.mine.at # 0
          /\ q.base.entries[q.sid] # Absent
          /\ p.op = q.op /\ p.sid = q.sid /\ p.base = q.base
      BY <1>1, <3>3 DEF Shaped, StepFits, Knows, SameAim
    <3>6. ~HasNew(p) /\ ~Removed(p) /\ Fetched(q) /\ Standing(q) /\ p.op \notin Repairs
      BY <1>1, <3>4, <3>5 DEF HasNew, Removed, Fetched, Standing, Repairs
    <3>7. StepFits(p) /\ p.step \in Working
      BY <3>3, <3>5, <3>6 DEF StepFits, Working
    <3>8. Shaped(p)
      BY <1>1, <3>3, <3>5, <3>6, <3>7, ShapedAgain
    <3>9. Less(p, q)
      BY <3>3, <3>6 DEF Less
    <3>10. QED
      BY <1>1, <2>2, <3>2, <3>8, <3>9, QuietMove DEF p, q
  <2>5. QED
    BY <1>2, <2>3, <2>4 DEF Recover
<1>3. CASE Blame("call") /\ Go(r, "mark") /\ UNCHANGED maps
  <2>1. Quiet /\ faults' \in 0 .. MaxFaults
    BY <1>1, <1>3, FaultsCounted, SameMapsSameTruth DEF Quiet
  <2>2. Typed /\ Alone(r) /\ p.step = "mark" /\ Keeps(r)
    BY <1>3, GoDoes DEF IInv, Steps, Working
  <2>3. Shaped(p) /\ Less(p, q)
    BY <1>1, <2>2, GivingUp DEF Keeps
  <2>4. QED
    BY <1>1, <2>1, <2>2, <2>3, QuietMove
<1>4. QED
  BY <1>2, <1>3 DEF Recover

-----------------------------------------------------------------------------
(* The newest map is read, and the documents are listed.                   *)

\* What a request takes as its base is the truth at that moment.
LEMMA BaseTaken ==
    ASSUME IInv, NEW r \in Requests, Quiet, Typed, Alone(r), lock' = lock,
           faults' \in 0 .. MaxFaults,
           req'[r].op = req[r].op, req'[r].sid = req[r].sid, req'[r].new = req[r].new,
           req'[r].listed = req[r].listed, req'[r].mine = req[r].mine,
           req'[r].stale = req[r].stale, req'[r].base = Truth,
           \/ req[r].step = "guard" /\ req'[r].step = "list"
           \/ req[r].step = "fetch" /\ req'[r].step = After(req[r]),
           req[r].op \in {"replace", "rename", "activate", "deactivate"}
           => Truth.entries[req[r].sid] # Absent
    PROVE  IInv'
<1> DEFINE q == req[r]
           p == req'[r]
<1>1. /\ q.step \in {"guard", "fetch"} /\ q.step \in Working
      /\ Shaped(q) /\ Rooted(q) /\ Dated(q) /\ Trusted(q) /\ q \in Request
      /\ TypeOK /\ MapsApart
  BY Types DEF IInv, RequestsSound, Working
<1>2. /\ q.op \in Changes \cup Repairs /\ (q.step = "guard" => q.op \in Repairs)
      /\ q.mine = NoMap /\ NoMap.at = 0
  BY <1>1, MapShape DEF Shaped, StepFits, Knows, Request
<1>3. /\ p.step \in {"list", "add", "remove", "publish"}
      /\ p.step = "list" => q.op \in Repairs
      /\ p.step = "add" => q.op = "replace"
      /\ p.step = "remove" => q.op = "delete"
      /\ q.op = "replace" => p.step # "publish"
      /\ p.step = "publish" => q.step = "fetch"
      /\ q.op = "delete" => p.step # "publish"
  BY <1>1, <1>2, AfterIs DEF Changes, Repairs
<1> HIDE DEF p, q
<1>4. /\ p.op = q.op /\ p.sid = q.sid /\ p.new = q.new /\ p.listed = q.listed
      /\ p.mine = NoMap /\ p.stale = q.stale /\ p.base = Truth
  BY <1>2 DEF p, q
<1>5. ~Removed(p) /\ ~Published(p) /\ (HasNew(p) => HasNew(q))
  BY <1>2, <1>3, <1>4 DEF Removed, Published, HasNew
<1>6. q.op \in Changes => Searchable(Truth.entries)
  BY <1>1 DEF Trusted
<1>7. p.step \in Working
  BY <1>3 DEF Working
<1>8. StepFits(p)
  BY <1>2, <1>3, <1>4 DEF StepFits, Changes, Repairs
<1>9. Knows(p)
  <2>1. q.op \in {"replace", "rename", "activate", "deactivate"} => Truth.entries[q.sid] # Absent
    BY DEF q
  <2>2. p.step \notin {"retire", "load", "recover", "commit"}
    BY <1>3
  <2>3. ~(p.op = "replace" /\ p.step = "remove")
    BY <1>3, <1>4
  <2>4. QED
    BY <1>2, <1>4, <1>7, <2>1, <2>2, <2>3 DEF Knows
<1>10. StaysSearchable(p)
  BY <1>1, <1>2, <1>4, <1>5, <1>6 DEF Shaped, StaysSearchable
<1>11. Rooted(req[r])'
  <2>1. Settled' = Settled /\ docs' = docs
    BY DEF Quiet, Settled
  <2>2. HasNew(p) => p.new \in Settled
    BY <1>1, <1>4, <1>5 DEF Rooted
  <2>3. p.listed \subseteq Settled
    BY <1>1, <1>4 DEF Rooted
  <2>4. QED
    BY <1>5, <2>1, <2>2, <2>3 DEF Rooted, p
<1>12. Dated(req[r])'
  <2>1. Truth' = Truth /\ stamp' = stamp /\ tx' = tx
    BY DEF Quiet, table
  <2>2. stamp <= Truth.at /\ \A t \in tx : t.stamp <= Truth.at
    BY DEF IInv, TableSound
  <2>3. Truth.at <= Truth.at /\ \A a \in p.stale : a < Truth.at
    BY <1>1, <1>4, TruthIs DEF Dated
  <2>4. p.mine.at = 0
    BY <1>2, <1>4
  <2>5. QED
    BY <1>4, <1>5, <2>1, <2>2, <2>3, <2>4 DEF Dated, p
<1>13. Trusted(req[r])'
  <2>1. Truth' = Truth /\ docs' = docs /\ acked' = acked
    BY DEF Quiet
  <2>2. Agrees(Truth.entries)
    BY DEF IInv, AcknowledgedKept, Agrees, TypeOK
  <2>3. p.op \in Repairs /\ p.step \in {"fetch", "publish", "retire", "commit"}
        => \A c \in docs : acked[c] \in Entry => c \in p.listed
    BY <1>1, <1>3, <1>4 DEF Trusted
  <2>4. \/ p.op \in Changes
        \/ p.op \in Repairs /\ p.step \in {"retire", "commit"}
        \/ p.op \in Repairs /\ Fetched(p) /\ Searchable(p.base.entries)
        => Searchable(Truth.entries)
    BY <1>3, <1>4, <1>6
  <2>5. QED
    BY <1>4, <1>5, <2>1, <2>2, <2>3, <2>4 DEF Trusted, Agrees, p
<1>14. Shaped(req[r])'
  BY <1>8, <1>9, <1>10 DEF Shaped, StepFits, Knows, StaysSearchable, p
<1>15. p.base \in Known /\ p.mine \in Known
  BY <1>1, <1>4, TruthIs DEF Known
<1>16. lock' \in Requests \cup {Free}
  BY DEF IInv, TypeOK
<1>17. QED
  BY <1>1, <1>3, <1>11, <1>12, <1>13, <1>14, <1>15, <1>16, QuietStep DEF Sound, p, q

LEMMA FetchKeeps ==
    ASSUME IInv, NEW r \in Requests, Fetch(r)
    PROVE  IInv'
<1> DEFINE q == req[r]
           n == [q EXCEPT !.base = Truth, !.step = After(q)]
<1>1. /\ q.step = "fetch" /\ q.step \in Working /\ TypeOK /\ MapsApart
      /\ UNCHANGED <<docs, lateDocs, lateMaps, clock, minted, table, tx, acked>>
      /\ Shaped(q) /\ q \in Request /\ q.op \in Changes \cup Repairs
  BY Types DEF IInv, Fetch, At, Working, RequestsSound, Shaped, StepFits, Request
<1> DEFINE Taken ==
             /\ Set(r, n) /\ lock' = lock
             /\ q.op \in {"replace", "rename", "activate", "deactivate"}
                => Truth.entries[q.sid] # Absent
<1>2. CASE Sweep(Older) /\ (Taken \/ (Go(r, "mark") /\ lock' = lock) \/ Return(r))
  <2>1. Truth.at \notin Older
    BY DEF Older
  <2>2. Quiet /\ faults' \in 0 .. MaxFaults
    BY <1>1, <1>2, <2>1, SweepDoes DEF Quiet
  <2>3. CASE Taken
    <3>1. Truth \in Map \cup {NoMap}
      BY <1>1, TruthIs, Types
    <3>2. After(q) \in Steps
      BY <1>1, AfterIs DEF Steps, Working, Changes, Repairs
    <3>3. /\ n \in Request /\ n.op = q.op /\ n.sid = q.sid /\ n.new = q.new
          /\ n.listed = q.listed /\ n.mine = q.mine /\ n.stale = q.stale
          /\ n.base = Truth /\ n.step = After(q)
      BY <1>1, <3>1, <3>2 DEF Request
    <3> HIDE DEF n
    <3>4. Typed /\ Alone(r) /\ req'[r] = n
      BY <2>3, <3>3, SetDoes DEF IInv
    <3>5. QED
      BY <1>1, <2>2, <2>3, <3>3, <3>4, BaseTaken
  <2>4. CASE Go(r, "mark") /\ lock' = lock
    <3>1. Typed /\ Alone(r) /\ req'[r].step = "mark" /\ Keeps(r)
      BY <2>4, GoDoes DEF IInv, Steps, Working
    <3>2. Shaped(req'[r]) /\ Less(req'[r], q)
      BY <1>1, <3>1, GivingUp DEF Keeps
    <3>3. QED
      BY <1>1, <2>2, <2>4, <3>1, <3>2, QuietMove
  <2>5. CASE Return(r)
    BY <1>1, <2>2, <2>5, QuietReturn
  <2>6. QED
    BY <1>2, <2>3, <2>4, <2>5
<1>3. CASE Blame("call") /\ Fail(r) /\ UNCHANGED maps
  <2>1. Quiet /\ faults' \in 0 .. MaxFaults
    BY <1>1, <1>3, FaultsCounted, SameMapsSameTruth DEF Quiet
  <2>2. QED
    BY <1>1, <1>3, <2>1, QuietFail
<1>4. \/ Sweep(Older) /\ (Taken \/ (Go(r, "mark") /\ lock' = lock) \/ Return(r))
      \/ Blame("call") /\ Fail(r) /\ UNCHANGED maps
  BY <1>1 DEF Fetch, Repairs
<1>5. QED
  BY <1>2, <1>3, <1>4

LEMMA GuardKeeps ==
    ASSUME IInv, NEW r \in Requests, Guard(r)
    PROVE  IInv'
<1> DEFINE q == req[r]
           n == [q EXCEPT !.base = Truth, !.step = "list"]
<1>1. /\ q.step = "guard" /\ q.step \in Working /\ TypeOK /\ MapsApart
      /\ UNCHANGED <<docs, lateDocs, lateMaps, clock, minted, table, tx, acked>>
      /\ Shaped(q) /\ q \in Request /\ q.op \in Repairs
  BY Types DEF IInv, Guard, At, Working, RequestsSound, Shaped, StepFits, Request
<1>2. CASE Sweep(Older) /\ (Return(r) \/ (Set(r, n) /\ lock' = lock))
  <2>1. Truth.at \notin Older
    BY DEF Older
  <2>2. Quiet /\ faults' \in 0 .. MaxFaults
    BY <1>1, <1>2, <2>1, SweepDoes DEF Quiet
  <2>3. CASE Return(r)
    BY <1>1, <2>2, <2>3, QuietReturn
  <2>4. CASE Set(r, n) /\ lock' = lock
    <3>1. Truth \in Map \cup {NoMap}
      BY <1>1, TruthIs, Types
    <3>2. /\ n \in Request /\ n.op = q.op /\ n.sid = q.sid /\ n.new = q.new
          /\ n.listed = q.listed /\ n.mine = q.mine /\ n.stale = q.stale
          /\ n.base = Truth /\ n.step = "list"
      BY <1>1, <3>1 DEF Request, Steps, Working
    <3> HIDE DEF n
    <3>3. Typed /\ Alone(r) /\ req'[r] = n
      BY <2>4, <3>2, SetDoes DEF IInv
    <3>4. q.op \notin {"replace", "rename", "activate", "deactivate"}
      BY <1>1 DEF Repairs
    <3>5. QED
      BY <1>1, <2>2, <2>4, <3>2, <3>3, <3>4, BaseTaken
  <2>5. QED
    BY <1>2, <2>3, <2>4
<1>3. CASE Go(r, "list") /\ UNCHANGED <<maps, lock>> /\ faults' \in 0 .. MaxFaults
  <2>1. Quiet
    BY <1>1, <1>3, SameMapsSameTruth DEF Quiet
  <2>2. Typed /\ Alone(r) /\ req'[r].step = "list" /\ Keeps(r)
    BY <1>3, GoDoes DEF IInv, Steps, Working
  <2> DEFINE p == req'[r]
  <2>3. SameAim(p, q) /\ p.mine = q.mine /\ p.stale = q.stale /\ p.step = "list"
    BY <2>2 DEF Keeps
  <2> HIDE DEF p, q
  <2>4. p.op = q.op /\ p.base = q.base /\ p.op \in Repairs
    BY <1>1, <2>3 DEF SameAim
  <2>5. ~HasNew(p) /\ ~Removed(p) /\ ~Published(p) /\ (Fetched(p) => Fetched(q))
    BY <2>3, <2>4 DEF HasNew, Removed, Published, Fetched, Repairs
  <2>6. StepFits(p) /\ p.step \in Working /\ p.mine = NoMap
    BY <1>1, <2>3, <2>4 DEF StepFits, Working, Repairs, Shaped, Knows
  <2>7. Shaped(p)
    BY <1>1, <2>3, <2>4, <2>5, <2>6, ShapedAgain DEF Repairs
  <2>8. Less(p, q)
    BY <2>3, <2>5 DEF Less
  <2>9. QED
    BY <1>1, <1>3, <2>1, <2>2, <2>7, <2>8, QuietMove DEF p, q
<1>4. \/ Sweep(Older) /\ (Return(r) \/ (Set(r, n) /\ lock' = lock))
      \/ Go(r, "list") /\ UNCHANGED <<maps, lock>> /\ faults' \in 0 .. MaxFaults
  BY <1>1, FaultsCounted DEF Guard
<1>5. QED
  BY <1>2, <1>3, <1>4

\* What is listed is there: no entry of it will be taken for an old one.
LEMMA ListKeeps ==
    ASSUME IInv, NEW r \in Requests, List(r)
    PROVE  IInv'
<1> DEFINE q == req[r]
           p == req'[r]
           n == [q EXCEPT !.listed = docs, !.step = IF q.base.at = 0 THEN "fetch" ELSE "publish"]
<1>1. /\ q.step = "list" /\ q.step \in Working /\ TypeOK /\ MapsApart /\ Quiet
      /\ Shaped(q) /\ Rooted(q) /\ Dated(q) /\ Trusted(q)
      /\ q \in Request /\ q.op \in Repairs
  BY NothingQuiet, Types DEF IInv, List, At, Working, RequestsSound, Shaped, StepFits, Request
<1>2. CASE Set(r, n) /\ UNCHANGED <<lock, faults>>
  <2>1. /\ n \in Request /\ n.op = q.op /\ n.sid = q.sid /\ n.new = q.new
        /\ n.listed = docs /\ n.mine = q.mine /\ n.stale = q.stale /\ n.base = q.base
        /\ n.step = IF q.base.at = 0 THEN "fetch" ELSE "publish"
    <3>1. docs \in SUBSET Criteria
      BY <1>1 DEF TypeOK
    <3>2. (IF q.base.at = 0 THEN "fetch" ELSE "publish") \in Steps
      BY DEF Steps, Working
    <3>3. QED
      BY <1>1, <3>1, <3>2 DEF Request
  <2> HIDE DEF n
  <2>2. Typed /\ Alone(r) /\ p = n /\ faults' \in 0 .. MaxFaults
        /\ lock' = lock /\ lock' \in Requests \cup {Free}
    BY <1>1, <1>2, <2>1, SetDoes, FaultsCounted DEF TypeOK
  <2> HIDE DEF p, q
  <2>3. /\ p.op \in Repairs /\ p.listed = docs /\ p.base = q.base /\ p.mine = NoMap
        /\ p.stale = q.stale /\ p.step \in {"fetch", "publish"} /\ p.mine.at = 0
        /\ p.step = "publish" => q.base.at # 0
    BY <1>1, <2>1, <2>2, MapShape DEF Shaped, Knows
  <2>4. ~HasNew(p) /\ ~Removed(p) /\ ~Published(p) /\ (Fetched(p) => Fetched(q))
    BY <2>3 DEF HasNew, Removed, Published, Fetched, Repairs
  <2>5. Shaped(req[r])'
    <3>1. StepFits(p) /\ p.op \notin Changes /\ p.step \in Working
      BY <2>3 DEF StepFits, Repairs, Changes, Working
    <3>2. Knows(p)
      BY <2>3, <3>1 DEF Knows, Repairs
    <3>3. StaysSearchable(p)
      BY <1>1, <2>3, <2>4, <3>1 DEF Shaped, StaysSearchable, Knows, Repairs
    <3>4. QED
      BY <3>1, <3>2, <3>3 DEF Shaped, StepFits, Knows, StaysSearchable, p
  <2>6. Rooted(req[r])'
    <3>1. docs' \subseteq Settled' /\ docs' = docs
      BY <1>1 DEF IInv, DocsMinted, Settled, Quiet
    <3>2. QED
      BY <2>3, <2>4, <3>1 DEF Rooted, p
  <2>7. Dated(req[r])'
    <3>1. Truth' = Truth /\ stamp' = stamp /\ tx' = tx
      BY <1>1 DEF Quiet, table
    <3>2. QED
      BY <1>1, <2>3, <2>4, <3>1 DEF Dated, p
  <2>8. Trusted(req[r])'
    <3>1. Truth' = Truth /\ docs' = docs /\ acked' = acked
      BY <1>1 DEF Quiet
    <3>2. Fetched(p) => Agrees(p.base.entries)
      BY <1>1, <2>3, <2>4 DEF Trusted
    <3>3. \/ p.op \in Changes
          \/ p.op \in Repairs /\ p.step \in {"retire", "commit"}
          \/ p.op \in Repairs /\ Fetched(p) /\ Searchable(p.base.entries)
          => Searchable(Truth.entries)
      BY <1>1, <2>3, <2>4 DEF Trusted, Repairs, Changes
    <3>4. QED
      BY <2>3, <2>4, <3>1, <3>2, <3>3 DEF Trusted, Agrees, p
  <2>9. p.base \in Known /\ p.mine \in Known
    BY <2>3 DEF Known, q
  <2>10. QED
    BY <1>1, <2>2, <2>3, <2>5, <2>6, <2>7, <2>8, <2>9, QuietStep DEF Sound, p, q
<1>3. CASE Blame("call") /\ Fail(r)
  <2>1. faults' \in 0 .. MaxFaults
    BY <1>1, <1>3, FaultsCounted
  <2>2. QED
    BY <1>1, <1>3, <2>1, QuietFail
<1>4. QED
  BY <1>2, <1>3 DEF List

-----------------------------------------------------------------------------
(* Documents are uploaded and deleted.                                     *)

\* Documents come that nobody was told of, or go; nobody is told more.
Moved ==
    /\ Truth' = Truth /\ DocsMinted' /\ Settled \subseteq Settled'
    /\ \A c \in docs' : c \in docs \/ c \notin Settled
    /\ \A c \in Criteria : acked'[c] = acked[c] \/ acked'[c] = Unknown
    /\ UNCHANGED <<maps, lateMaps, clock, table, tx>>

LEMMA AgreementMoves ==
    ASSUME IInv, Moved, TypeOK', NEW rows, Agrees(rows)
    PROVE  AgreesThen(rows)
<1> SUFFICES ASSUME NEW c \in docs', acked'[c] \in Entry
             PROVE  rows[c] = acked'[c]
  BY DEF AgreesThen
<1>1. c \in Criteria
  BY DEF TypeOK
<1>2. acked'[c] = acked[c] /\ acked[c] \in Entry
  BY <1>1, SlotShape DEF Moved
<1>3. c \in docs
  BY <1>1, <1>2 DEF IInv, AckSound, Moved
<1>4. QED
  BY <1>2, <1>3 DEF Agrees

LEMMA CloudMoves ==
    ASSUME IInv, Moved, TypeOK', Known' \subseteq Known
    PROVE  CloudSound' /\ TableSound' /\ RowsRight'
<1>1. MapsApart' /\ EntriesSettled'
  BY DEF IInv, Moved, MapsApart, EntriesSettled
<1>2. LateSound'
  <2> SUFFICES ASSUME NEW m \in lateMaps
               PROVE  Searchable(m.entries) /\ (m.at > Truth.at => AgreesThen(m.entries))
    BY DEF LateSound, Moved, AgreesThen, Agrees
  <2>1. QED
    BY AgreementMoves DEF IInv, LateSound
<1>3. \A c \in Criteria : acked'[c] # Unknown => acked'[c] = acked[c]
  BY DEF Moved
<1>4. AckSound'
  BY <1>3, SlotShape DEF IInv, AckSound, Moved
<1>5. AcknowledgedKept'
  <2>1. Agrees(Truth.entries)
    BY DEF IInv, AcknowledgedKept, Agrees, TypeOK
  <2>2. AgreesThen(Truth.entries)
    BY <2>1, AgreementMoves
  <2>3. \A c \in Criteria : acked'[c] = Absent => c \notin docs'
    BY <1>4 DEF AckSound
  <2>4. QED
    BY <2>2, <2>3 DEF AcknowledgedKept, AgreesThen, Moved
<1>6. Advances
  BY SameTruthAdvances DEF IInv, Moved
<1>7. TableSound' /\ RowsRight'
  BY <1>6, TableStays DEF Moved
<1>8. QED
  BY <1>1, <1>2, <1>4, <1>5, <1>7 DEF CloudSound, Moved

\* The new stable_id is in no map, and nobody was told of it.
LEMMA AddKeeps ==
    ASSUME IInv, NEW r \in Requests, Add(r)
    PROVE  IInv'
<1> DEFINE q == req[r]
           p == req'[r]
<1>1. /\ q.step = "add" /\ q.step \in Working /\ TypeOK /\ MapsApart
      /\ Shaped(q) /\ Rooted(q) /\ Dated(q) /\ Trusted(q) /\ q \in Request
      /\ q.op \in {"upload", "replace"} /\ q.op \in Changes /\ q.op \notin Repairs
      /\ UNCHANGED <<maps, lateMaps, clock, table, tx, lock, acked>>
  BY Types DEF IInv, Add, At, Working, RequestsSound, Shaped, StepFits, Changes, Repairs
<1>2. PICK c \in Criteria \ minted, outcome \in Outcomes :
        /\ minted' = minted \cup {c}
        /\ docs' = IF outcome \in {"done", "unseen"} THEN docs \cup {c} ELSE docs
        /\ lateDocs' = IF outcome = "late" THEN lateDocs \cup {c} ELSE lateDocs
        /\ LET n == [q EXCEPT !.new = c]
           IN  Set(r, [n EXCEPT !.step = IF outcome = "done" THEN After(n) ELSE "mark"])
        /\ Tally(outcome)
  BY DEF Add
<1> DEFINE n == [q EXCEPT !.new = c]
           st == IF outcome = "done" THEN After(n) ELSE "mark"
           k == [n EXCEPT !.step = st]
<1>3. /\ n.step = "add" /\ n.op = q.op
      /\ n \in Request
  BY <1>1 DEF Request
<1>4. /\ st \in Steps
      /\ st = IF outcome # "done" THEN "mark" ELSE IF q.op = "upload" THEN "fetch" ELSE "publish"
  BY <1>1, <1>3, AfterIs DEF Steps, Working
<1> HIDE DEF st
<1>5. /\ k \in Request /\ k.op = q.op /\ k.sid = q.sid /\ k.new = c
      /\ k.listed = q.listed /\ k.mine = q.mine /\ k.stale = q.stale
      /\ k.base = q.base /\ k.step = st
  BY <1>1, <1>4 DEF Request
<1>6. Set(r, k)
  BY <1>2 DEF st
<1> HIDE DEF k, n
<1>7. Typed /\ Alone(r) /\ p = k /\ faults' \in 0 .. MaxFaults
  BY <1>1, <1>2, <1>5, <1>6, SetDoes, FaultsCounted
<1> HIDE DEF p, q
<1>8. /\ p.op = q.op /\ p.sid = q.sid /\ p.new = c
      /\ p.listed = q.listed /\ p.mine = NoMap /\ p.stale = q.stale
      /\ p.base = q.base /\ p.step \in {"mark", "fetch", "publish"} /\ p.mine.at = 0
      /\ p.step = "fetch" => q.op = "upload"
      /\ p.step = "publish" => q.op = "replace"
      /\ p.step # "mark" => outcome = "done"
  BY <1>1, <1>4, <1>5, <1>7, MapShape DEF Shaped, Knows
<1>9. TypeOK'
  <2>1. docs' \subseteq Criteria /\ lateDocs' \subseteq Criteria /\ minted' \subseteq Criteria
    BY <1>1, <1>2 DEF TypeOK
  <2>2. QED
    BY <1>1, <1>7, <2>1 DEF TypeOK, Typed, table
<1>10. /\ Settled \subseteq Settled' /\ c \notin Settled /\ c \notin docs \cup lateDocs
       /\ outcome = "done" => c \in Settled'
  BY <1>2 DEF IInv, DocsMinted, Settled
<1>11. DocsMinted'
  BY <1>2, <1>10 DEF IInv, DocsMinted
<1>12. Moved
  BY <1>1, <1>2, <1>10, <1>11, SameMapsSameTruth DEF Moved
<1>13. ~Removed(p) /\ ~Published(p) /\ (HasNew(p) => outcome = "done") /\ (Fetched(p) => Fetched(q))
  BY <1>1, <1>8 DEF Removed, Published, HasNew, Fetched
<1>14. Shaped(req[r])'
  <2>1. StepFits(p)
    BY <1>1, <1>8 DEF StepFits, Repairs
  <2>2. Knows(p)
    BY <1>1, <1>8 DEF Shaped, Knows, Working, Repairs
  <2>3. c \notin Legacy
    BY <1>2 DEF IInv, DocsMinted
  <2>4. StaysSearchable(p)
    BY <1>1, <1>8, <2>3 DEF Shaped, StaysSearchable, Knows
  <2>5. QED
    BY <2>1, <2>2, <2>4 DEF Shaped, StepFits, Knows, StaysSearchable, p
<1>15. Rooted(req[r])'
  BY <1>1, <1>8, <1>10, <1>13 DEF Rooted, p
<1>16. Dated(req[r])'
  BY <1>1, <1>8, <1>12, <1>13 DEF Dated, p, Moved, table
<1>17. Trusted(req[r])'
  <2>1. Fetched(p) => AgreesThen(p.base.entries)
    BY <1>1, <1>8, <1>9, <1>12, <1>13, AgreementMoves DEF Trusted
  <2>2. Truth' = Truth /\ Searchable(Truth.entries)
    BY <1>1, <1>12 DEF Trusted, Moved
  <2>3. QED
    BY <1>1, <1>8, <1>13, <2>1, <2>2 DEF Trusted, Agrees, AgreesThen, p
<1>18. Known' \subseteq Known
  BY <1>1, <1>7, <1>8, KnownStays DEF Known, q, p
<1>19. LockHeld' /\ RequestsSound'
  <2>1. Advances
    BY <1>1, <1>12, SameTruthAdvances DEF Moved
  <2>2. QED
    BY <1>1, <1>7, <1>8, <1>14, <1>15, <1>16, <1>17, <2>1, LockStep DEF Sound, p, q
<1>20. QED
  BY <1>9, <1>12, <1>18, <1>19, CloudMoves DEF IInv, CloudSound

\* A document that was not answered for appears after all.
LEMMA DocAppearsKeeps ==
    ASSUME IInv, NEW c \in Criteria, DocAppears(c)
    PROVE  IInv'
<1>1. /\ c \in lateDocs /\ docs' = docs \cup {c} /\ lateDocs' = lateDocs \ {c}
      /\ UNCHANGED <<maps, lateMaps, clock, minted, table, tx, lock, req, quiet>>
  BY DEF DocAppears
<1>2. TypeOK'
  BY <1>1 DEF IInv, TypeOK, table, quiet
<1>3. /\ DocsMinted' /\ Settled \subseteq Settled' /\ c \notin Settled
      /\ docs' \subseteq docs \cup lateDocs
  BY <1>1 DEF IInv, DocsMinted, Settled
<1>4. Truth' = Truth
  BY <1>1, SameMapsSameTruth
<1>5. Moved
  BY <1>1, <1>3, <1>4 DEF Moved, quiet
<1>6. World /\ Advances
  BY <1>1, <1>3, <1>4, SameTruthAdvances DEF IInv, World, table, quiet
<1>7. \A s \in Requests : Sound(s)'
  BY <1>1, <1>4, <1>6, OthersSound DEF Stands
<1>8. RequestsSound' /\ LockHeld'
  BY <1>1, <1>7 DEF RequestsSound, Sound, IInv, LockHeld, At
<1>9. Known' \subseteq Known
  BY <1>1 DEF Known
<1>10. QED
  BY <1>2, <1>5, <1>8, <1>9, CloudMoves DEF IInv, CloudSound

\* A document is deleted that was there, and so it is not one that may come.
LEMMA RemoveKeeps ==
    ASSUME IInv, NEW r \in Requests, Remove(r)
    PROVE  IInv'
<1> DEFINE q == req[r]
           p == req'[r]
<1>1. /\ q.step = "remove" /\ q.step \in Working /\ TypeOK /\ MapsApart
      /\ Shaped(q) /\ Rooted(q) /\ Dated(q) /\ Trusted(q) /\ q \in Request
      /\ q.op \in {"delete", "replace"}
      /\ UNCHANGED <<lateDocs, maps, lateMaps, clock, minted, table, tx>>
      /\ acked' = [c \in Criteria |-> IF c \in {q.sid} /\ acked[c] # Shared
                                      THEN [d \in Criteria |-> Unknown][c] ELSE acked[c]]
  BY Types DEF IInv, Remove, At, Working, RequestsSound, Shaped, StepFits, Tell
<1>2. PICK outcome \in Outcomes \ {"late"} :
        /\ outcome = "done" => q.sid \in docs
        /\ docs' = IF outcome \in {"done", "unseen"} THEN docs \ {q.sid} ELSE docs
        /\ Answered(r, outcome)
  BY DEF Remove
<1>3. q.sid \in Criteria
  BY <1>1 DEF Request
<1>4. \A c \in Criteria : acked'[c] = acked[c] \/ (acked'[c] = Unknown /\ acked[c] # Shared)
  BY <1>1
<1>5. docs' \subseteq docs /\ Settled' = Settled /\ DocsMinted'
  BY <1>1, <1>2 DEF IInv, DocsMinted, Settled
<1>6. Truth' = Truth
  BY <1>1, SameMapsSameTruth
<1>7. Moved
  BY <1>1, <1>4, <1>5, <1>6 DEF Moved
<1>8. World /\ Advances
  BY <1>1, <1>4, <1>5, <1>6, SameTruthAdvances DEF World, table
<1>9. Stands(q)
  BY <1>6 DEF Stands
<1>10. \/ outcome = "done" /\ Proceed(r) /\ lock' = lock
       \/ outcome # "done" /\ Go(r, "mark") /\ lock' = lock
  BY <1>1, <1>2 DEF Answered, Fail, WriteStarted, Rescued
<1>11. /\ After(q) \in Steps /\ (q.op = "delete" => After(q) = "publish")
       /\ q.op = "replace" => After(q) = "commit"
  BY <1>1, AfterIs DEF Steps, Working
<1>12. /\ Typed /\ Alone(r) /\ Keeps(r)
       /\ p.step = IF outcome = "done" THEN After(q) ELSE "mark"
  BY <1>1, <1>10, <1>11, GoDoes DEF Proceed, Steps, Working
<1>13. SameAim(p, q) /\ p.mine = q.mine /\ p.stale = q.stale
  BY <1>12 DEF Keeps
<1> HIDE DEF p, q
<1>14. p.op = q.op /\ p.sid = q.sid /\ p.base = q.base /\ p.new = q.new
  BY <1>13 DEF SameAim
<1>15. Shaped(p) /\ Less(p, q)
  <2>1. CASE outcome # "done"
    BY <1>1, <1>12, <1>13, <2>1, GivingUp
  <2>2. CASE outcome = "done" /\ q.op = "delete"
    <3>1. p.step = "publish" /\ p.step \in Working /\ p.mine = NoMap /\ p.op \notin Repairs
      BY <1>1, <1>11, <1>12, <1>13, <1>14, <2>2 DEF Working, Shaped, Knows, Repairs
    <3>2. q.sid \in Settled' \ docs'
      BY <1>2, <1>5, <2>2 DEF IInv, DocsMinted, Settled
    <3>3. ~HasNew(p) /\ ~Published(p) /\ Fetched(q) /\ StepFits(p)
      BY <1>1, <1>14, <2>2, <3>1 DEF HasNew, Published, Fetched, StepFits
    <3>4. Shaped(p)
      BY <1>1, <1>13, <1>14, <2>2, <3>1, <3>3, ShapedAgain
    <3>5. QED
      BY <1>13, <3>1, <3>2, <3>3, <3>4 DEF Less
  <2>3. CASE outcome = "done" /\ q.op = "replace"
    <3>1. p.step = "commit" /\ p.step \in Working /\ p.mine.at # 0 /\ p.op \notin Repairs
          /\ q.base.entries[q.sid] # Absent
      BY <1>1, <1>11, <1>12, <1>13, <1>14, <2>3 DEF Working, Shaped, Knows, Repairs
    <3>2. q.sid \in Settled' \ docs'
      BY <1>2, <1>5, <2>3 DEF IInv, DocsMinted, Settled
    <3>3. HasNew(q) /\ Standing(q) /\ Fetched(q) /\ StepFits(p)
      BY <1>1, <1>13, <1>14, <2>3, <3>1 DEF HasNew, Standing, Published, Fetched, StepFits
    <3>4. q.new \notin Legacy
      BY <1>1, <3>3 DEF Shaped, StaysSearchable
    <3>5. Shaped(p)
      BY <1>1, <1>13, <1>14, <2>3, <3>1, <3>3, <3>4, ShapedAgain
    <3>6. QED
      BY <1>13, <3>1, <3>2, <3>3, <3>5 DEF Less
  <2>4. QED
    BY <1>1, <2>1, <2>2, <2>3
<1>16. Sound(r)'
  <2>1. Rooted(req[r])' /\ Dated(req[r])' /\ Trusted(req[r])'
    BY <1>8, <1>9, <1>15, KnowledgeStays DEF p, q
  <2>2. Shaped(req[r])'
    BY <1>15 DEF Shaped, StepFits, Knows, StaysSearchable, p
  <2>3. QED
    BY <2>1, <2>2 DEF Sound
<1>17. TypeOK'
  <2>1. acked' \in [Criteria -> Slot \cup {Unknown, Shared}]
    <3>1. acked \in [Criteria -> Slot \cup {Unknown, Shared}]
      BY <1>1 DEF TypeOK
    <3>2. QED
      BY <1>1, <3>1
  <2>2. docs' \subseteq Criteria
    BY <1>1, <1>5 DEF TypeOK
  <2>3. faults' \in 0 .. MaxFaults
    BY <1>1, <1>2, FaultsCounted DEF Answered
  <2>4. lock' = lock
    BY <1>10
  <2>5. QED
    BY <1>1, <1>12, <2>1, <2>2, <2>3, <2>4 DEF TypeOK, Typed, table
<1>18. Known' \subseteq Known
  <2>1. p.base \in Known /\ p.mine \in Known
    BY <1>13, <1>14 DEF Known, q
  <2>2. QED
    BY <1>1, <1>12, <2>1, KnownStays DEF Known, p
<1>19. LockHeld' /\ RequestsSound'
  BY <1>1, <1>8, <1>10, <1>12, <1>15, <1>16, LockStep DEF Less, p, q
<1>20. QED
  BY <1>7, <1>17, <1>18, <1>19, CloudMoves DEF IInv, CloudSound

-----------------------------------------------------------------------------
(* A new alias map.                                                        *)

LEMMA NewTruth ==
    ASSUME TypeOK, MapsApart, NEW new \in Map, new.at = clock + 1,
           maps' \subseteq maps \cup {new}, new \in maps'
    PROVE  Truth' = new /\ Truth'.at > Truth.at
<1>1. maps' \in SUBSET Map /\ clock \in Nat /\ Truth.at \in Nat /\ Truth.at <= clock
  BY Types, TruthIs
<1>2. \A m \in maps : m.at \in Nat /\ m.at <= clock
  BY Types, MapShape DEF MapsApart, Known
<1>3. Apart(maps')
  BY <1>1, <1>2, TruthIs DEF Apart
<1>4. \A m \in maps' : m.at <= new.at
  BY <1>1, <1>2
<1>5. Truth' = new
  BY <1>1, <1>3, <1>4, NewestIs DEF Truth
<1>6. QED
  BY <1>1, <1>5

\* Of what was acknowledged some is taken back, and nothing new is.
Told ==
    /\ UNCHANGED <<docs, lateDocs, minted>>
    /\ \A c \in Criteria : acked'[c] = acked[c] \/ acked'[c] \in {Unknown, Shared}

LEMMA AgreementTold ==
    ASSUME TypeOK, Told, NEW rows, Agrees(rows)
    PROVE  AgreesThen(rows)
BY SlotShape DEF TypeOK, Told, Agrees, AgreesThen

LEMMA MapComes ==
    ASSUME IInv, Told, NEW new \in Map, new.at = clock + 1, clock' = clock + 1,
           Known' \subseteq Known \cup {new}, lateMaps' \subseteq lateMaps \cup {new},
           new \in lateMaps' => Searchable(new.entries),
           \A c \in Criteria : new.entries[c] # Absent => c \in Settled,
           AgreesThen(new.entries), Truth' \in {Truth, new}
    PROVE  CloudSound'
<1>1. TypeOK /\ MapsApart /\ clock \in Nat /\ Truth.at \in Nat /\ Truth.at <= clock
  BY Types, TruthIs DEF IInv
<1>2. \A m \in Known : m.at \in Nat /\ m.at <= clock
  BY <1>1, Types, MapShape DEF MapsApart
<1>3. MapsApart'
  BY <1>1, <1>2 DEF MapsApart
<1>4. Settled' = Settled /\ docs' = docs
  BY DEF Settled, Told
<1>5. EntriesSettled'
  BY <1>4 DEF IInv, EntriesSettled
<1>6. DocsMinted'
  BY DEF IInv, DocsMinted, Told
<1>7. LateSound'
  <2> SUFFICES ASSUME NEW m \in lateMaps'
               PROVE  Searchable(m.entries) /\ (m.at > Truth'.at => AgreesThen(m.entries))
    BY DEF LateSound, AgreesThen, Agrees
  <2>1. CASE m = new
    BY <2>1
  <2>2. CASE m # new
    <3>1. m \in lateMaps /\ m \in Known
      BY <2>2 DEF Known
    <3>2. Searchable(m.entries) /\ (m.at > Truth.at => AgreesThen(m.entries))
      BY <1>1, <3>1, AgreementTold DEF IInv, LateSound
    <3>3. Truth' = new => ~(m.at > Truth'.at)
      BY <1>1, <1>2, <3>1
    <3>4. QED
      BY <3>2, <3>3
  <2>3. QED
    BY <2>1, <2>2
<1>8. \A c \in Criteria : acked'[c] \in Entry \cup {Absent} => acked'[c] = acked[c]
  BY SlotShape DEF Told
<1>9. AckSound'
  BY <1>4, <1>8 DEF IInv, AckSound
<1>10. AcknowledgedKept'
  <2>1. Agrees(Truth.entries)
    BY DEF IInv, AcknowledgedKept, Agrees, TypeOK
  <2>2. AgreesThen(Truth'.entries)
    BY <1>1, <2>1, AgreementTold
  <2>3. \A c \in Criteria : acked'[c] = Absent => c \notin docs'
    BY <1>9 DEF AckSound
  <2>4. QED
    BY <2>2, <2>3 DEF AcknowledgedKept, AgreesThen
<1>11. QED
  BY <1>3, <1>5, <1>6, <1>7, <1>9, <1>10 DEF CloudSound

\* What a request publishes contradicts nothing.
LEMMA EditedSound ==
    ASSUME IInv, NEW r \in Requests, req[r].step = "publish",
           UNCHANGED <<docs, lateDocs, minted>>, Tell(Touched(req[r]), [c \in Criteria |-> Unknown])
    PROVE  /\ Edited(req[r]) \in Rows /\ Searchable(Edited(req[r]))
           /\ \A c \in Criteria : Edited(req[r])[c] # Absent => c \in Settled
           /\ Told /\ AgreesThen(Edited(req[r]))
           /\ \A c \in Criteria : acked'[c] = acked[c] \/ (acked'[c] = Unknown /\ acked[c] # Shared)
<1> DEFINE q == req[r]
<1>1. /\ TypeOK /\ q \in Request /\ Shaped(q) /\ Rooted(q) /\ Trusted(q)
      /\ q.base \in Known /\ q.base.entries \in Rows /\ q.step = "publish"
  BY Types, MapShape DEF IInv, RequestsSound, Known
<1>2. q.op \in Changes \cup Repairs
  BY <1>1 DEF Shaped, StepFits, Request
<1>3. acked' = [c \in Criteria |-> IF c \in Touched(q) /\ acked[c] # Shared
                                   THEN [d \in Criteria |-> Unknown][c] ELSE acked[c]]
  BY DEF Tell
<1> HIDE DEF q
<1>4. \A c \in Criteria :
         /\ acked'[c] = acked[c] \/ (acked'[c] = Unknown /\ acked[c] # Shared)
         /\ acked'[c] \in Entry => acked'[c] = acked[c] /\ c \notin Touched(q)
  BY <1>3, SlotShape
<1>5. Told
  BY <1>4 DEF Told
<1>6. Agrees(q.base.entries)
  BY <1>1 DEF Trusted, Fetched
<1>7. docs' = docs /\ docs \subseteq Criteria
  BY <1>1 DEF TypeOK
<1>8. CASE q.op \in Changes
  <2>1. /\ Searchable(q.base.entries) /\ (q.op = "activate" => q.sid \notin Legacy)
        /\ q.op \in {"replace", "rename", "activate", "deactivate"}
           => q.base.entries[q.sid] # Absent
        /\ q.op \in {"upload", "replace"} => HasNew(q)
    BY <1>1, <1>8 DEF Shaped, StaysSearchable, Knows, HasNew
  <2>2. q.op \in {"upload", "replace"} => q.new \notin Legacy /\ q.new \in Settled
    BY <1>1, <2>1 DEF Shaped, StaysSearchable, Rooted
  <2>3. Searchable(Edited(q))
    BY <1>1, <1>8, <2>1, <2>2, EditedSearchable
  <2>4. /\ Edited(q) \in Rows /\ Touched(q) \subseteq Criteria
        /\ \A c \in Criteria \ Touched(q) : Edited(q)[c] = q.base.entries[c]
        /\ \A c \in Touched(q) :
              \/ Edited(q)[c] = Absent
              \/ q.op \in {"upload", "replace"} /\ c = q.new
              \/ q.base.entries[c] \in Entry
    BY <1>1, <1>8, <2>1, EditedFacts
  <2>5. \A c \in Criteria : Edited(q)[c] # Absent => c \in Settled
    <3>1. \A c \in Criteria : q.base.entries[c] # Absent => c \in Settled
      BY <1>1 DEF IInv, EntriesSettled
    <3>2. QED
      BY <2>2, <2>4, <3>1, SlotShape
  <2>6. AgreesThen(Edited(q))
    BY <1>4, <1>6, <1>7, <2>4 DEF AgreesThen, Agrees
  <2>7. QED
    BY <1>4, <1>5, <2>3, <2>4, <2>5, <2>6 DEF q
<1>9. CASE q.op \in Repairs
  <2>1. Edited(q) = Cleaned(q)
    BY <1>9 DEF Edited, Repairs
  <2>2. /\ Cleaned(q) \in Rows /\ Searchable(Cleaned(q))
        /\ \A c \in Criteria \ q.listed : Cleaned(q)[c] = Absent
        /\ \A c \in Criteria \cap q.listed :
              /\ q.base.entries[c] \in Entry
              /\ c \in Legacy => q.base.entries[c].status # "active"
              => Cleaned(q)[c] = q.base.entries[c]
    BY <1>1, CleanedType
  <2>3. \A c \in Criteria : Edited(q)[c] # Absent => c \in Settled
    BY <1>1, <2>1, <2>2 DEF Rooted
  <2>4. AgreesThen(Edited(q))
    <3> SUFFICES ASSUME NEW c \in docs', acked'[c] \in Entry
                 PROVE  Edited(q)[c] = acked'[c]
      BY DEF AgreesThen
    <3>1. c \in docs /\ c \in Criteria /\ acked'[c] = acked[c] /\ acked[c] \in Entry
      BY <1>4, <1>7
    <3>2. c \in q.listed /\ q.base.entries[c] = acked[c]
      BY <1>1, <1>6, <1>9, <3>1 DEF Trusted, Agrees
    <3>3. c \in Legacy => acked[c].status # "active"
      BY <3>1 DEF IInv, AckSound
    <3>4. QED
      BY <2>1, <2>2, <3>1, <3>2, <3>3
  <2>5. QED
    BY <1>4, <1>5, <2>1, <2>2, <2>3, <2>4 DEF q
<1>10. QED
  BY <1>2, <1>8, <1>9

\* The request that publishes knows its map, which is newer than all others.
LEMMA PublishKeeps ==
    ASSUME IInv, NEW r \in Requests, Publish(r)
    PROVE  IInv'
<1> DEFINE q == req[r]
           p == req'[r]
           new == [at |-> clock + 1, entries |-> Edited(q)]
           n == [q EXCEPT !.mine = new]
<1>1. /\ q.step = "publish" /\ q.step \in Working /\ TypeOK /\ MapsApart
      /\ Shaped(q) /\ Rooted(q) /\ Dated(q) /\ Trusted(q) /\ q \in Request
      /\ clock < MaxTime /\ clock' = clock + 1
      /\ UNCHANGED <<docs, lateDocs, minted, table, tx>>
      /\ Tell(Touched(q), [c \in Criteria |-> Unknown])
  BY Types DEF IInv, Publish, At, Working, RequestsSound
<1>2. q.op \in Changes \cup Repairs
  BY <1>1 DEF Shaped, StepFits, Request
<1>3. /\ Edited(q) \in Rows /\ Searchable(Edited(q))
      /\ \A c \in Criteria : Edited(q)[c] # Absent => c \in Settled
      /\ Told /\ AgreesThen(Edited(q))
      /\ \A c \in Criteria : acked'[c] = acked[c] \/ (acked'[c] = Unknown /\ acked[c] # Shared)
  BY <1>1, EditedSound
<1>4. /\ clock \in Nat /\ clock + 1 \in 1 .. MaxTime /\ clock' \in 0 .. MaxTime
      /\ Truth.at \in Nat /\ Truth.at <= clock /\ q.base.at \in Nat
  BY <1>1, TruthIs, Types, MapShape, CriteriaAssumption DEF TypeOK
<1>5. /\ new \in Map /\ new.at = clock + 1 /\ new.entries = Edited(q) /\ new.at # 0
  BY <1>3, <1>4 DEF Map
<1>6. PICK outcome \in Outcomes :
        /\ maps' = IF outcome \in {"done", "unseen"} THEN maps \cup {new} ELSE maps
        /\ lateMaps' = IF outcome = "late" THEN lateMaps \cup {new} ELSE lateMaps
        /\ IF outcome = "done" THEN Set(r, [n EXCEPT !.step = After(n)]) /\ UNCHANGED lock
           ELSE IF ~WriteStarted(n) THEN Return(r)
           ELSE Set(r, [n EXCEPT !.step = IF Rescued(n) THEN "recover" ELSE "mark"])
                /\ UNCHANGED lock
        /\ Tally(outcome)
  BY DEF Publish
<1>7. /\ n \in Request /\ n.step = "publish" /\ n.op = q.op
  BY <1>1, <1>5 DEF Request
<1>8. After(n) = "retire"
  BY <1>2, <1>7, AfterIs
<1> DEFINE st == IF outcome = "done" THEN "retire"
                 ELSE IF Rescued(n) THEN "recover" ELSE "mark"
           k == [n EXCEPT !.step = st]
<1>9. Return(r) \/ (Set(r, k) /\ lock' = lock)
  BY <1>6, <1>8
<1>10. /\ st \in {"retire", "recover", "mark"} /\ st \in Steps /\ st \in Working
       /\ (st = "retire" => outcome = "done")
       /\ (st = "recover" => q.op \in {"activate", "deactivate"})
  BY <1>7 DEF Rescued, Steps, Working
<1> HIDE DEF st, new
<1>11. /\ k \in Request /\ k.op = q.op /\ k.sid = q.sid /\ k.new = q.new /\ k.alias = q.alias
       /\ k.listed = q.listed /\ k.mine = new /\ k.stale = q.stale
       /\ k.base = q.base /\ k.step = st
  BY <1>1, <1>5, <1>10 DEF Request
<1> HIDE DEF k, n
<1>12. /\ Typed /\ Alone(r) /\ lock' \in Requests \cup {Free} /\ faults' \in 0 .. MaxFaults
       /\ p = Idle \/ (p = k /\ lock' = lock)
  <2>1. faults' \in 0 .. MaxFaults
    BY <1>1, <1>6, FaultsCounted
  <2>2. CASE Return(r)
    BY <1>1, <2>1, <2>2, ReturnDoes
  <2>3. CASE Set(r, k) /\ lock' = lock
    BY <1>1, <1>11, <2>1, <2>3, SetDoes DEF TypeOK
  <2>4. QED
    BY <1>9, <2>2, <2>3
<1>13. maps' \subseteq maps \cup {new} /\ lateMaps' \subseteq lateMaps \cup {new}
       /\ (outcome = "done" => new \in maps')
  BY <1>6
<1>14. /\ Truth' = new \/ Truth' = Truth
       /\ outcome = "done" => Truth' = new
       /\ Truth'.at \in Nat /\ Truth'.at >= Truth.at /\ (Truth' # Truth => Truth'.at > Truth.at)
  <2>1. CASE new \in maps'
    BY <1>1, <1>4, <1>5, <1>13, <2>1, NewTruth
  <2>2. CASE new \notin maps'
    BY <1>4, <1>6, <1>13, <2>2, SameMapsSameTruth
  <2>3. QED
    BY <2>1, <2>2
<1>15. Advances /\ (Searchable(Truth.entries) => Searchable(Truth'.entries))
  BY <1>3, <1>5, <1>14 DEF Advances
<1>16. Known' \subseteq Known \cup {new}
  <2> SUFFICES ASSUME NEW m \in Known', m # new
               PROVE  m \in Known
    OBVIOUS
  <2>1. CASE m \in maps' \cup lateMaps' \cup {NoMap}
    BY <1>13, <2>1 DEF Known
  <2>2. CASE \E s \in Requests : m \in {req'[s].base, req'[s].mine}
    <3>1. PICK s \in Requests : m \in {req'[s].base, req'[s].mine}
      BY <2>2
    <3>2. CASE s # r
      BY <1>12, <3>1, <3>2 DEF Alone, Known
    <3>3. CASE s = r
      <4>1. p.base \in Known
        BY <1>11, <1>12 DEF Idle, Known, q
      <4>2. p.mine \in Known \cup {new}
        BY <1>11, <1>12 DEF Idle, Known
      <4>3. QED
        BY <3>1, <3>3, <4>1, <4>2
    <3>4. QED
      BY <3>2, <3>3
  <2>3. QED
    BY <2>1, <2>2 DEF Known
<1>17. CloudSound'
  BY <1>1, <1>3, <1>5, <1>13, <1>14, <1>16, MapComes DEF IInv
<1>18. TableSound' /\ RowsRight'
  BY <1>1, <1>14, <1>15, TableStays
<1>19. Sound(r)'
  <2>1. CASE p = Idle
    BY <1>14, <2>1, IdleSound
  <2>2. CASE p = k /\ lock' = lock
    <3> HIDE DEF p, q
    <3>1. /\ p.op = q.op /\ p.sid = q.sid /\ p.new = q.new
          /\ p.listed = q.listed /\ p.mine = new /\ p.stale = q.stale
          /\ p.base = q.base /\ p.step = st /\ SameAim(p, q)
      BY <1>11, <2>2 DEF SameAim
    <3>2. (HasNew(p) => HasNew(q)) /\ (Removed(p) => Removed(q)) /\ Fetched(q)
          /\ (Published(p) => outcome = "done")
      BY <1>1, <1>10, <3>1 DEF HasNew, Removed, Fetched, Published
    <3>3. p.op \in Repairs => p.op \notin Changes /\ p.step \notin {"load", "recover"}
      BY <1>10, <3>1 DEF Changes, Repairs
    <3>4. Shaped(req[r])'
      <4>1. StepFits(p)
        BY <1>1, <1>2, <1>10, <3>1 DEF Shaped, StepFits, Changes, Repairs
      <4>2. new.at > q.base.at /\ Edited(p) = Edited(q)
        <5>1. q.base.at <= clock
          BY <1>1 DEF MapsApart, Known, q
        <5>2. QED
          BY <1>4, <1>5, <3>1, <5>1, SameResult
      <4>3. Knows(p)
        BY <1>1, <1>5, <1>10, <3>1, <4>2 DEF Shaped, Knows, Changes
      <4>4. StaysSearchable(p)
        BY <1>1, <1>3, <1>5, <3>1, <3>2 DEF Shaped, StaysSearchable
      <4>5. QED
        BY <4>1, <4>3, <4>4 DEF Shaped, StepFits, Knows, StaysSearchable, p
    <3>5. Rooted(req[r])'
      <4>1. Settled' = Settled /\ docs' = docs
        BY <1>1 DEF Settled
      <4>2. QED
        BY <1>1, <3>1, <3>2, <4>1 DEF Rooted, p
    <3>6. Dated(req[r])'
      <4>1. q.base.at <= Truth'.at
        BY <1>1, <1>4, <1>14 DEF Dated
      <4>2. Published(p) => new.at <= Truth'.at
        BY <1>5, <1>4, <1>14, <3>2
      <4>3. \A a \in q.stale : a < Truth'.at
        <5>1. \A a \in q.stale : a \in Nat
          BY <1>1, CriteriaAssumption DEF Request
        <5>2. QED
          BY <1>1, <1>4, <1>14, <5>1 DEF Dated
      <4>4. stamp' <= q.base.at /\ \A t \in tx' : t.stamp <= q.base.at
        BY <1>1, <3>2 DEF Dated, table
      <4>5. \A m \in lateMaps' : m.at <= new.at
        <5>1. \A m \in lateMaps : m.at <= clock /\ m.at \in Nat
          BY <1>1, Types, MapShape DEF MapsApart, Known
        <5>2. QED
          BY <1>4, <1>5, <1>13, <5>1
      <4>6. QED
        BY <3>1, <4>1, <4>2, <4>3, <4>4, <4>5 DEF Dated, p
    <3>7. Trusted(req[r])'
      <4>1. AgreesThen(p.base.entries)
        BY <1>1, <1>3, <3>1, <3>2, AgreementTold DEF Trusted
      <4>2. p.op \in Repairs => \A c \in docs' : acked'[c] \in Entry => c \in p.listed
        <5> SUFFICES ASSUME p.op \in Repairs, NEW c \in docs', acked'[c] \in Entry
                     PROVE  c \in p.listed
          OBVIOUS
        <5>1. c \in docs /\ c \in Criteria
          BY <1>1 DEF TypeOK
        <5>2. acked'[c] = acked[c]
          BY <1>3, <5>1, SlotShape
        <5>3. QED
          BY <1>1, <3>1, <5>1, <5>2 DEF Trusted
      <4>3. Published(p) => Truth'.entries = p.mine.entries
        BY <1>14, <3>1, <3>2
      <4>4. p.op \in Repairs /\ p.step \in {"retire", "commit"} => Searchable(Truth'.entries)
        BY <1>3, <1>5, <1>10, <1>14, <3>1
      <4>5. \/ p.op \in Changes
            \/ p.op \in Repairs /\ Searchable(p.base.entries)
            => Searchable(Truth'.entries)
        BY <1>1, <1>15, <3>1, <3>2 DEF Trusted
      <4>6. QED
        BY <4>1, <4>2, <4>3, <4>4, <4>5 DEF Trusted, AgreesThen, Agrees, p
    <3>8. QED
      BY <3>4, <3>5, <3>6, <3>7 DEF Sound
  <2>3. QED
    BY <1>12, <2>1, <2>2
<1>20. (p.step \in Working => lock' = lock) /\ p.step # "closing"
  BY <1>10, <1>11, <1>12 DEF Idle, Working
<1>21. LockHeld' /\ RequestsSound'
  BY <1>1, <1>12, <1>15, <1>19, <1>20, LockStep DEF q
<1>22. TypeOK'
  <2>1. acked' \in [Criteria -> Slot \cup {Unknown, Shared}]
    <3>1. acked \in [Criteria -> Slot \cup {Unknown, Shared}]
      BY <1>1 DEF TypeOK
    <3>2. QED
      BY <1>1, <3>1 DEF Tell
  <2>2. maps' \subseteq Map /\ lateMaps' \subseteq Map
    BY <1>1, <1>5, <1>13 DEF TypeOK
  <2>3. QED
    BY <1>1, <1>4, <1>12, <2>1, <2>2 DEF TypeOK, Typed, table
<1>23. QED
  BY <1>17, <1>18, <1>21, <1>22 DEF IInv, CloudSound

\* Nothing that waits for a lock or holds it is disturbed.
LEMMA WorldStep ==
    ASSUME IInv, World, UNCHANGED <<tx, lock, req>>, \A s \in Requests : Stands(req[s])
    PROVE  LockHeld' /\ RequestsSound'
<1>1. \A s \in Requests : Sound(s)'
  BY OthersSound
<1>2. QED
  BY <1>1 DEF RequestsSound, Sound, IInv, LockHeld, At

\* What another instance changes is known to have been changed by it.
LEMMA ForeignKeeps ==
    ASSUME IInv, Foreign
    PROVE  IInv'
<1>1. /\ TypeOK /\ MapsApart /\ clock < MaxTime /\ clock' = clock + 1
      /\ UNCHANGED <<docs, lateDocs, lateMaps, minted, table, tx, lock, req>>
      /\ faults' \in 0 .. MaxFaults
  BY FaultsCounted DEF IInv, Foreign
<1>2. PICK c \in Criteria \ Legacy, s \in {"active", "uploaded"} :
        /\ Truth.entries[c] # Absent
        /\ maps' = (maps \ {Truth}) \cup
              {[at |-> clock + 1, entries |-> [Truth.entries EXCEPT ![c].status = s]]}
        /\ acked' = [acked EXCEPT ![c] = Shared]
  BY DEF Foreign
<1>3. /\ clock \in Nat /\ clock + 1 \in 1 .. MaxTime /\ clock' \in 0 .. MaxTime
      /\ Truth.entries \in Rows /\ Truth.at \in Nat /\ Truth \in Known
  BY <1>1, TruthIs, Types, CriteriaAssumption DEF TypeOK
<1> DEFINE rows == [Truth.entries EXCEPT ![c].status = s]
           new == [at |-> clock + 1, entries |-> rows]
<1>4. /\ rows \in Rows /\ rows[c].status = s /\ rows[c] # Absent
      /\ \A d \in Criteria \ {c} : rows[d] = Truth.entries[d]
  <2>1. Truth.entries[c] \in Entry /\ \A d \in Criteria : Truth.entries[d] \in Slot
    BY <1>2, <1>3, SlotShape DEF Rows
  <2> DEFINE e == [Truth.entries[c] EXCEPT !.status = s]
  <2>2. e \in Entry /\ e.status = s
    BY <2>1, EntryChanged
  <2>3. rows = [Truth.entries EXCEPT ![c] = e]
    OBVIOUS
  <2> HIDE DEF e, rows
  <2>4. rows[c] = e /\ \A d \in Criteria \ {c} : rows[d] = Truth.entries[d]
    BY <1>3, <2>3 DEF Rows
  <2>5. rows \in Rows
    BY <1>3, <2>1, <2>2, <2>3, SlotShape DEF Rows
  <2>6. QED
    BY <2>2, <2>4, <2>5, SlotShape
<1> HIDE DEF rows
<1>5. new \in Map /\ new.at = clock + 1 /\ new.entries = rows
  BY <1>3, <1>4 DEF Map
<1>6. maps' = (maps \ {Truth}) \cup {new}
  BY <1>2 DEF rows
<1> HIDE DEF new
<1>7. Truth' = new /\ Truth'.at > Truth.at
  BY <1>1, <1>5, <1>6, NewTruth
<1>8. Searchable(Truth.entries) => Searchable(rows)
  BY <1>2, <1>4, CriteriaAssumption DEF Searchable
<1>9. Advances
  BY <1>3, <1>5, <1>7, <1>8 DEF Advances
<1>10. \A d \in Criteria : \/ acked'[d] = acked[d]
                           \/ d = c /\ acked'[d] = Shared
  BY <1>1, <1>2 DEF TypeOK
<1>11. acked'[c] = Shared
  BY <1>1, <1>2 DEF TypeOK
<1>12. Told
  BY <1>1, <1>10 DEF Told
<1>13. World
  BY <1>1, <1>9, <1>10 DEF World, Settled, table
<1>14. \A q : Stands(q)
  BY <1>4, <1>5, <1>7, <1>11 DEF Stands
<1>15. LockHeld' /\ RequestsSound'
  BY <1>1, <1>13, <1>14, WorldStep
<1>16. Known' \subseteq Known \cup {new}
  BY <1>1, <1>6 DEF Known
<1>17. AgreesThen(rows)
  <2>1. Agrees(Truth.entries)
    BY DEF IInv, AcknowledgedKept, Agrees, TypeOK
  <2>2. AgreesThen(Truth.entries)
    BY <1>1, <1>12, <2>1, AgreementTold
  <2>3. c \notin docs' \/ acked'[c] \notin Entry
    BY <1>11, SlotShape
  <2>4. docs' \subseteq Criteria
    BY <1>1 DEF TypeOK
  <2>5. QED
    BY <1>4, <2>2, <2>3, <2>4 DEF AgreesThen
<1>18. \A d \in Criteria : rows[d] # Absent => d \in Settled
  BY <1>2, <1>3, <1>4 DEF IInv, EntriesSettled
<1>19. new \notin lateMaps'
  BY <1>1, <1>3, <1>5 DEF MapsApart, Known
<1>20. CloudSound'
  BY <1>1, <1>5, <1>7, <1>12, <1>16, <1>17, <1>18, <1>19, MapComes
<1>21. TableSound' /\ RowsRight'
  BY <1>1, <1>7, <1>9, TableStays
<1>22. TypeOK'
  <2>1. maps' \subseteq Map
    BY <1>1, <1>5, <1>6 DEF TypeOK
  <2>2. acked' \in [Criteria -> Slot \cup {Unknown, Shared}]
    BY <1>1, <1>2 DEF TypeOK
  <2>3. QED
    BY <1>1, <1>3, <2>1, <2>2 DEF TypeOK, table
<1>23. QED
  BY <1>15, <1>20, <1>21, <1>22 DEF IInv, CloudSound

\* An alias map appears late: it counts only if it is newer than the one that
\* does, and then no change has been published since.
LEMMA MapAppearsKeeps ==
    ASSUME IInv, NEW m \in lateMaps, MapAppears(m)
    PROVE  IInv'
<1>1. /\ TypeOK /\ MapsApart /\ maps' = maps \cup {m} /\ lateMaps' = lateMaps \ {m}
      /\ UNCHANGED <<docs, lateDocs, clock, minted, table, tx, lock, req, quiet>>
  BY DEF IInv, MapAppears
<1>2. m \in Map /\ m \in Known /\ m.at \in Nat /\ Truth.at \in Nat /\ Truth \in Known
  BY <1>1, Types, MapShape, TruthIs DEF Known
<1>3. Searchable(m.entries) /\ (m.at > Truth.at => Agrees(m.entries))
  BY DEF IInv, LateSound
<1>4. /\ m.at > Truth.at => Truth' = m
      /\ m.at <= Truth.at => Truth' = Truth
  <2>1. CASE m \in maps
    <3>1. maps' = maps
      BY <1>1, <2>1
    <3>2. m.at <= Truth.at
      BY <1>1, <2>1, TruthIs
    <3>3. QED
      BY <1>2, <3>1, <3>2, SameMapsSameTruth
  <2>2. CASE m \notin maps
    <3>1. \A n \in maps : n.at # m.at
      BY <1>1, <1>2, <2>2 DEF MapsApart, Known
    <3>2. m.at # Truth.at
      BY <1>1, <1>2, <2>2, MapShape, TruthIs DEF MapsApart
    <3>3. maps \in SUBSET Map /\ Apart(maps)
      BY <1>1, Types, TruthIs
    <3>4. /\ m.at > Truth.at => Truth' = m
          /\ m.at < Truth.at => Truth' = Truth
      BY <1>1, <1>2, <3>1, <3>3, NewestAdded DEF Truth
    <3>5. QED
      BY <1>2, <3>2, <3>4
  <2>3. QED
    BY <2>1, <2>2
<1>5. /\ Truth'.at \in Nat /\ Truth'.at >= Truth.at
      /\ Truth' = Truth \/ (Truth'.at > Truth.at /\ Truth' = m /\ m.at > Truth.at)
  BY <1>2, <1>4
<1>6. Advances
  BY <1>3, <1>5 DEF Advances
<1>7. World
  BY <1>1, <1>6 DEF World, Settled, table, quiet
<1>8. ASSUME NEW s \in Requests
      PROVE  Stands(req[s])
  <2> DEFINE q == req[s]
  <2> SUFFICES ASSUME q.op \in Changes, Standing(q)
               PROVE  Truth' = Truth
    BY DEF Stands
  <2>1. Dated(q) /\ q.mine.at \in Nat
    BY <1>1, Types, MapShape DEF IInv, RequestsSound
  <2>2. q.mine.at # 0 /\ q.mine.at <= Truth.at
    BY <1>2, <2>1 DEF Standing, Published, Dated
  <2>3. m.at <= q.mine.at
    BY <2>1, <2>2 DEF Dated
  <2>4. QED
    BY <1>2, <1>4, <2>1, <2>2, <2>3
<1>9. LockHeld' /\ RequestsSound'
  BY <1>1, <1>7, <1>8, WorldStep
<1>10. Known' \subseteq Known
  BY <1>1, <1>2 DEF Known
<1>11. DocsMinted' /\ MapsApart' /\ EntriesSettled' /\ AckSound'
  <2>1. Settled' = Settled /\ acked' = acked
    BY <1>1 DEF Settled, quiet
  <2>2. QED
    BY <1>1, <1>10, <2>1 DEF IInv, DocsMinted, MapsApart, EntriesSettled, AckSound
<1>12. LateSound'
  <2>1. \A n \in lateMaps : n.at \in Nat
    BY <1>1, Types, MapShape
  <2>2. \A n \in lateMaps' : n.at > Truth'.at => n.at > Truth.at
    BY <1>1, <1>2, <1>5, <2>1
  <2>3. QED
    BY <1>1, <2>2 DEF IInv, LateSound, Agrees, quiet
<1>13. AcknowledgedKept'
  BY <1>1, <1>3, <1>5 DEF IInv, AcknowledgedKept, Agrees, quiet
<1>14. TableSound' /\ RowsRight'
  BY <1>1, <1>5, <1>6, TableStays
<1>15. TypeOK'
  BY <1>1, <1>2 DEF TypeOK, table, quiet
<1>16. QED
  BY <1>9, <1>11, <1>12, <1>13, <1>14, <1>15 DEF IInv

-----------------------------------------------------------------------------
(* Requests that do not hold the lock.                                     *)

\* Those who wait, search or do nothing disturb nobody.
LEMMA RestStep ==
    ASSUME IInv, NEW r \in Requests, Quiet, Typed, Alone(r), Sound(r)',
           req'[r].step \notin Working, req'[r].step # "closing",
           req'[r].base \in Known, req'[r].mine \in Known,
           lock' = lock \/ (lock = r /\ lock' = Free), faults' \in 0 .. MaxFaults
    PROVE  IInv'
<1>1. World /\ Advances /\ \A q : Stands(q)
  BY QuietWorld
<1>2. \A s \in Requests : Sound(s)'
  <2>1. \A s \in Requests \ {r} : Sound(s)'
    BY <1>1, OthersSound DEF Alone
  <2>2. QED
    BY <2>1
<1>3. LockHeld'
  BY DEF IInv, LockHeld, At, Alone, Quiet
<1>4. Known' \subseteq Known
  <2>1. maps' \cup lateMaps' \subseteq Known
    BY DEF Quiet, Known
  <2>2. QED
    BY <2>1, KnownStays
<1>5. CloudSound'
  BY <1>4, CloudStays DEF Quiet
<1>6. TableSound' /\ RowsRight'
  BY <1>1, TableStays DEF Quiet
<1>7. TypeOK'
  <2>1. lock' \in Requests \cup {Free}
    BY DEF IInv, TypeOK
  <2>2. QED
    BY <2>1, QuietTypes DEF IInv
<1>8. QED
  BY <1>2, <1>3, <1>5, <1>6, <1>7 DEF IInv, CloudSound, RequestsSound, Sound

LEMMA WaitingIs ==
    ASSUME NEW op, NEW c, NEW a
    PROVE  LET q == Waiting(op, c, a)
           IN  /\ q.op = op /\ q.step = "waiting" /\ q.sid = c /\ q.base = NoMap
               /\ q.mine = NoMap /\ q.listed = {} /\ q.stale = {}
BY DEF Waiting, Idle

LEMMA ArriveKeeps ==
    ASSUME IInv, NEW r \in Requests, Arrive(r)
    PROVE  IInv'
<1>1. TypeOK /\ MapsApart /\ Quiet /\ lock' = lock /\ faults' \in 0 .. MaxFaults
  BY NothingQuiet, FaultsCounted DEF IInv, Arrive, quiet
<1>2. PICK op \in Ops, c \in Criteria, a \in Aliases \cup {NoAlias} :
         /\ op \in Changes => sync = "ok"
         /\ op = "replace" => c \in Legacy
         /\ op = "activate" => c \notin Legacy
         /\ op # "list"
         /\ Set(r, [Waiting(op, c, a) EXCEPT !.step = IF op = "search" THEN "look" ELSE @])
  BY DEF Arrive
<1> DEFINE w == Waiting(op, c, a)
           k == [w EXCEPT !.step = IF op = "search" THEN "look" ELSE @]
           p == req'[r]
<1>3. op \in Changes \cup {"resync", "search"}
  BY <1>2, CriteriaAssumption
<1>4. w \in Request
  BY <1>2, <1>3, IdleType DEF Repairs
<1>5. /\ w.op = op /\ w.step = "waiting" /\ w.sid = c /\ w.base = NoMap
      /\ w.mine = NoMap /\ w.listed = {} /\ w.stale = {}
  BY WaitingIs
<1> HIDE DEF w
<1>6. /\ k \in Request /\ k.op = op /\ k.sid = c /\ k.base = NoMap
      /\ k.mine = NoMap /\ k.listed = {} /\ k.stale = {}
      /\ k.step = IF op = "search" THEN "look" ELSE "waiting"
  BY <1>4, <1>5 DEF Request, Steps, Working
<1>7. Set(r, k)
  BY <1>2 DEF w
<1> HIDE DEF k
<1>8. Typed /\ Alone(r) /\ p = k
  BY <1>1, <1>6, <1>7, SetDoes
<1>9. k.step \notin Working /\ k.step # "closing" /\ StepFits(k)
  BY <1>3, <1>6 DEF Working, StepFits, Changes, Repairs
<1>10. /\ Truth'.at \in Nat /\ Truth' = Truth
       /\ op \in Changes => Searchable(Truth'.entries)
  BY <1>1, <1>2, TruthIs DEF IInv, TableSound, Quiet
<1>11. Sound(r)'
  <2>1. \A t \in p.stale : t < Truth'.at
    BY <1>6, <1>8
  <2>2. QED
    BY <1>2, <1>6, <1>8, <1>9, <1>10, <2>1, RestingSound
<1>12. QED
  BY <1>1, <1>6, <1>8, <1>9, <1>11, RestStep DEF Known

LEMMA VisitKeeps ==
    ASSUME IInv, NEW r \in Requests, Visit(r)
    PROVE  IInv'
<1> DEFINE w == Waiting("list", AnyCriterion, NoAlias)
<1>1. /\ TypeOK /\ MapsApart /\ Quiet /\ lock' = lock /\ faults' \in 0 .. MaxFaults
      /\ Set(r, w)
  BY NothingQuiet, FaultsCounted DEF IInv, Visit, quiet
<1>2. w \in Request
  BY IdleType, CriteriaAssumption DEF Repairs, AnyCriterion
<1>3. /\ w.op = "list" /\ w.step = "waiting" /\ w.base = NoMap
      /\ w.mine = NoMap /\ w.listed = {} /\ w.stale = {}
  BY WaitingIs
<1> HIDE DEF w
<1>4. Typed /\ Alone(r) /\ req'[r] = w
  BY <1>1, <1>2, SetDoes
<1>5. w.step \notin Working /\ w.step # "closing" /\ StepFits(w)
      /\ w.op \notin Changes \cup {"activate", "replace"}
  BY <1>3 DEF Working, StepFits, Changes, Repairs
<1>6. Truth'.at \in Nat
  BY <1>1, TruthIs DEF Quiet
<1>7. Sound(r)'
  <2>1. \A t \in req'[r].stale : t < Truth'.at
    BY <1>3, <1>4
  <2>2. QED
    BY <1>3, <1>4, <1>5, <1>6, <2>1, RestingSound
<1>8. QED
  BY <1>1, <1>3, <1>4, <1>5, <1>7, RestStep DEF Known

\* A search will remove maps older than the one that counts now.
LEMMA LookKeeps ==
    ASSUME IInv, NEW r \in Requests, Look(r)
    PROVE  IInv'
<1> DEFINE q == req[r]
           k == [q EXCEPT !.step = "clean", !.stale = Older]
<1>1. /\ TypeOK /\ MapsApart /\ Quiet /\ lock' = lock /\ faults' \in 0 .. MaxFaults
      /\ Set(r, k) /\ q \in Request /\ Shaped(q) /\ q.step = "look"
  BY NothingQuiet, FaultsCounted, Types DEF IInv, Look, quiet, At, RequestsSound
<1>2. /\ Truth.at \in Nat /\ Truth' = Truth
      /\ \A m \in maps : m \in Map /\ m.at \in 1 .. MaxTime /\ m.at <= Truth.at
  BY <1>1, TruthIs, Types, MapShape DEF Quiet
<1>3. Older \in SUBSET (1 .. MaxTime) /\ \A t \in Older : t < Truth.at
  BY <1>2 DEF Older
<1>4. /\ q.op = "search" /\ q.base = NoMap /\ q.mine = NoMap /\ q.listed = {}
  BY <1>1 DEF Shaped, StepFits, Knows, Working
<1>5. /\ k \in Request /\ k.op = "search" /\ k.base = NoMap /\ k.step = "clean"
      /\ k.mine = NoMap /\ k.listed = {} /\ k.stale = Older
  BY <1>1, <1>3, <1>4 DEF Request, Steps, Working
<1> HIDE DEF k, q
<1>6. Typed /\ Alone(r) /\ req'[r] = k
  BY <1>1, <1>5, SetDoes
<1>7. k.step \notin Working /\ k.step # "closing" /\ StepFits(k)
      /\ k.op \notin Changes \cup {"activate", "replace"}
  BY <1>5 DEF Working, StepFits, Changes, Repairs
<1>8. Sound(r)'
  BY <1>2, <1>3, <1>5, <1>6, <1>7, RestingSound
<1>9. QED
  BY <1>1, <1>5, <1>6, <1>7, <1>8, RestStep DEF Known

LEMMA CleanKeeps ==
    ASSUME IInv, NEW r \in Requests, Clean(r)
    PROVE  IInv'
<1>1. /\ TypeOK /\ MapsApart /\ Sweep(req[r].stale) /\ Return(r) /\ Dated(req[r])
      /\ req[r] \in Request
      /\ UNCHANGED <<docs, lateDocs, lateMaps, clock, minted, table, tx, acked>>
  BY Types DEF IInv, Clean, RequestsSound
<1>2. Truth.at \notin req[r].stale
  BY <1>1, TruthIs DEF Dated
<1>3. Quiet /\ faults' \in 0 .. MaxFaults
  BY <1>1, <1>2, SweepDoes DEF Quiet
<1>4. /\ Typed /\ Alone(r) /\ req'[r] = Idle
      /\ lock' = lock \/ (lock = r /\ lock' = Free)
  BY <1>1, ReturnDoes
<1>5. Truth'.at \in Nat
  BY <1>1, <1>3, TruthIs DEF Quiet
<1>6. QED
  BY <1>3, <1>4, <1>5, IdleSound, RestStep

\* The lock is free, and so nobody works.
LEMMA BeginKeeps ==
    ASSUME IInv, NEW r \in Requests, Begin(r)
    PROVE  IInv'
<1> DEFINE q == req[r]
           p == req'[r]
<1>1. /\ TypeOK /\ MapsApart /\ Quiet /\ lock = Free /\ faults' \in 0 .. MaxFaults
      /\ q \in Request /\ Shaped(q) /\ q.step = "waiting"
      /\ Return(r) \/ (lock' = r /\ Go(r, Plan[q.op][1]))
  BY NothingQuiet, FaultsCounted, Types DEF IInv, Begin, quiet, At, RequestsSound
<1>2. CASE Return(r)
  <2>1. Typed /\ Alone(r) /\ req'[r] = Idle /\ (lock' = lock \/ (lock = r /\ lock' = Free))
    BY <1>1, <1>2, ReturnDoes
  <2>2. Truth'.at \in Nat
    BY <1>1, TruthIs DEF Quiet
  <2>3. QED
    BY <1>1, <2>1, <2>2, IdleSound, RestStep
<1>3. CASE lock' = r /\ Go(r, Plan[q.op][1])
  <2>1. q.op \in Changes \cup Repairs
    BY <1>1 DEF Shaped, StepFits, Request
  <2>2. Plan[q.op][1] = IF q.op = "upload" THEN "add"
                        ELSE IF q.op \in Repairs THEN "guard" ELSE "fetch"
    BY <2>1 DEF Plan, Status, Repair, Changes, Repairs
  <2>3. Typed /\ Alone(r) /\ p.step = Plan[q.op][1] /\ Keeps(r)
    BY <1>1, <1>3, <2>2, GoDoes DEF Steps, Working
  <2>4. SameAim(p, q) /\ p.mine = q.mine /\ p.stale = q.stale
    BY <2>3 DEF Keeps
  <2> HIDE DEF p, q
  <2>5. /\ p.op = q.op /\ p.base = NoMap /\ p.mine = NoMap /\ NoMap.at = 0
        /\ p.step \in {"add", "guard", "fetch"} /\ p.step \in Working
        /\ p.step = "add" => p.op = "upload"
        /\ p.step = "guard" => p.op \in Repairs
        /\ p.step = "fetch" => p.op \notin Repairs \cup {"upload"}
    BY <1>1, <2>2, <2>3, <2>4, MapShape DEF Working, Shaped, Knows, SameAim, Repairs
  <2>6. ~HasNew(p) /\ ~Removed(p) /\ ~Published(p) /\ ~Fetched(p)
    BY <2>5 DEF HasNew, Removed, Published, Fetched
  <2>7. StepFits(p)
    BY <2>1, <2>5 DEF StepFits, Changes, Repairs
  <2>8. Shaped(p)
    BY <1>1, <2>4, <2>5, <2>6, <2>7, ShapedAgain
  <2>9. Less(p, q)
    BY <2>4, <2>5, <2>6 DEF Less
  <2>10. World /\ Advances /\ Stands(q)
    BY <1>1, QuietWorld
  <2>11. Sound(r)'
    <3>1. Rooted(req[r])' /\ Dated(req[r])' /\ Trusted(req[r])'
      BY <2>9, <2>10, KnowledgeStays DEF p, q
    <3>2. Shaped(req[r])'
      BY <2>8 DEF Shaped, StepFits, Knows, StaysSearchable, p
    <3>3. QED
      BY <3>1, <3>2 DEF Sound
  <2>12. \A s \in Requests \ {r} : Sound(s)'
    BY <1>1, <2>3, <2>10, OthersSound, QuietWorld DEF Alone
  <2>13. RequestsSound'
    BY <2>11, <2>12 DEF RequestsSound, Sound
  <2>14. \A s \in Requests : req[s].step \notin Working
    BY <1>1, CriteriaAssumption DEF IInv, LockHeld, Free
  <2>15. LockHeld'
    <3>1. \A s \in Requests : req'[s].step \in Working => lock' = s
      BY <1>3, <2>3, <2>14 DEF Alone
    <3>2. \A s \in Requests : req'[s].step = "closing" => s # r /\ req[s].step = "closing"
      BY <2>3, <2>5 DEF Alone, p
    <3>3. \A s \in Requests : req'[s].step = "closing"
             => tx' # {} /\ \A u \in Requests \ {s} : req'[u].step # "closing"
      BY <1>1, <3>2 DEF IInv, LockHeld, At, Quiet
    <3>4. QED
      BY <3>1, <3>3 DEF LockHeld, At
  <2>16. Known' \subseteq Known
    <3>1. maps' \cup lateMaps' \subseteq Known
      BY <1>1 DEF Quiet, Known
    <3>2. p.base \in Known /\ p.mine \in Known
      BY <2>5 DEF Known
    <3>3. QED
      BY <2>3, <3>1, <3>2, KnownStays DEF p
  <2>17. CloudSound'
    BY <1>1, <2>16, CloudStays DEF Quiet
  <2>18. TableSound' /\ RowsRight'
    BY <1>1, <2>10, TableStays DEF Quiet
  <2>19. TypeOK'
    BY <1>1, <1>3, <2>3, QuietTypes
  <2>20. QED
    BY <2>13, <2>15, <2>17, <2>18, <2>19 DEF IInv, CloudSound
<1>4. QED
  BY <1>1, <1>2, <1>3

\* After a crash only the repair at the start is waiting.
LEMMA Restarted ==
    ASSUME TypeOK', Truth'.at \in Nat, NEW r \in Requests,
           req' = [[s \in Requests |-> Idle] EXCEPT ![r] = Waiting("boot", AnyCriterion, NoAlias)]
    PROVE  /\ RequestsSound' /\ LockHeld'
           /\ \A s \in Requests : req'[s].base = NoMap /\ req'[s].mine = NoMap
<1> DEFINE w == Waiting("boot", AnyCriterion, NoAlias)
<1>1. /\ w.op = "boot" /\ w.step = "waiting" /\ w.base = NoMap
      /\ w.mine = NoMap /\ w.listed = {} /\ w.stale = {}
  BY WaitingIs
<1>2. req'[r] = w /\ \A s \in Requests \ {r} : req'[s] = Idle
  OBVIOUS
<1> HIDE DEF w
<1>3. w.step \notin Working /\ w.step # "closing" /\ StepFits(w)
      /\ w.op \notin Changes \cup {"activate", "replace"}
  BY <1>1 DEF Working, StepFits, Changes, Repairs
<1>4. Sound(r)'
  <2>1. \A t \in req'[r].stale : t < Truth'.at
    BY <1>1, <1>2
  <2>2. QED
    BY <1>1, <1>2, <1>3, <2>1, RestingSound
<1>5. \A s \in Requests \ {r} : Sound(s)' /\ req'[s].step \notin Working \cup {"closing"}
  BY <1>2, IdleSound
<1>6. \A s \in Requests : Sound(s)' /\ req'[s].step \notin Working \cup {"closing"}
  BY <1>2, <1>3, <1>4, <1>5
<1>7. RequestsSound' /\ LockHeld'
  BY <1>6 DEF RequestsSound, Sound, LockHeld, At
<1>8. \A s \in Requests : req'[s].base = NoMap /\ req'[s].mine = NoMap
  BY <1>1, <1>2 DEF Idle
<1>9. QED
  BY <1>7, <1>8

LEMMA CrashKeeps ==
    ASSUME IInv, Crash
    PROVE  IInv'
<1>1. /\ TypeOK /\ MapsApart /\ tx' = {} /\ lock' = Free /\ faults' \in 0 .. MaxFaults
      /\ UNCHANGED <<cloud, table, acked>>
  BY FaultsCounted DEF IInv, Crash
<1> DEFINE w == Waiting("boot", AnyCriterion, NoAlias)
<1>2. PICK r \in Requests : req' = [[s \in Requests |-> Idle] EXCEPT ![r] = w]
  BY DEF Crash
<1>3. w \in Request /\ Idle \in Request
  BY IdleType, CriteriaAssumption DEF Repairs, AnyCriterion
<1>4. Typed
  BY <1>2, <1>3 DEF Typed
<1>5. TypeOK'
  BY <1>1, <1>4 DEF TypeOK, Typed, cloud, table
<1>6. Truth' = Truth /\ Truth'.at \in Nat
  BY <1>1, SameMapsSameTruth, TruthIs DEF cloud
<1>7. /\ RequestsSound' /\ LockHeld'
      /\ \A s \in Requests : req'[s].base = NoMap /\ req'[s].mine = NoMap
  BY <1>2, <1>5, <1>6, Restarted
<1>8. Known' \subseteq Known
  BY <1>1, <1>7 DEF Known, cloud
<1>9. CloudSound'
  BY <1>1, <1>6, <1>8, CloudStays DEF cloud
<1>10. TableSound'
  BY <1>1, <1>6 DEF IInv, TableSound, table
<1>11. RowsRight'
  BY <1>1, <1>6 DEF IInv, RowsRight, SkipIsRight, WouldSkip, LegacyNeverActive, table
<1>12. QED
  BY <1>5, <1>7, <1>9, <1>10, <1>11 DEF IInv, CloudSound

-----------------------------------------------------------------------------
(* The start: one repair is waiting, and nobody knows anything.            *)

LEMMA FirstRequests ==
    ASSUME Init
    PROVE  /\ req \in [Requests -> Request] /\ RequestsSound /\ LockHeld
           /\ \A s \in Requests : req[s].base = NoMap /\ req[s].mine = NoMap
<1> DEFINE w == Waiting("boot", AnyCriterion, NoAlias)
<1>1. PICK r \in Requests : req = [[s \in Requests |-> Idle] EXCEPT ![r] = w]
  BY DEF Init
<1>2. w \in Request /\ Idle \in Request
  BY IdleType, CriteriaAssumption DEF Repairs, AnyCriterion
<1>3. req \in [Requests -> Request]
  BY <1>1, <1>2
<1>4. \A s \in Requests :
        /\ req[s].op \in {"boot", "none"} /\ req[s].step \in {"waiting", "idle"}
        /\ req[s].op = "none" <=> req[s].step = "idle"
        /\ req[s].base = NoMap /\ req[s].mine = NoMap /\ req[s].listed = {}
        /\ req[s].stale = {}
  <2>1. w.op = "boot" /\ w.step = "waiting" /\ w.base = NoMap
        /\ w.mine = NoMap /\ w.listed = {} /\ w.stale = {}
    BY WaitingIs
  <2>2. Idle.op = "none" /\ Idle.step = "idle" /\ Idle.base = NoMap
        /\ Idle.mine = NoMap /\ Idle.listed = {} /\ Idle.stale = {}
    BY DEF Idle
  <2> HIDE DEF w
  <2>3. \A s \in Requests : req[s] = w \/ req[s] = Idle
    BY <1>1
  <2>4. QED
    BY <2>1, <2>2, <2>3
<1>5. Truth.at \in Nat /\ NoMap.at = 0
  <2>1. maps \in SUBSET Map
    BY CriteriaAssumption DEF Init, Map
  <2>2. QED
    BY <2>1, NewestIsThere, MapShape DEF Truth
<1>6. Searchable(NoMap.entries)
  BY MapShape, SlotShape, CriteriaAssumption DEF Searchable
<1>7. ASSUME NEW s \in Requests
      PROVE  Shaped(req[s]) /\ Rooted(req[s]) /\ Dated(req[s]) /\ Trusted(req[s])
  <2> DEFINE q == req[s]
  <2>1. /\ q.op \in {"boot", "none"} /\ q.step \in {"waiting", "idle"}
        /\ q.op = "none" <=> q.step = "idle"
        /\ q.base = NoMap /\ q.mine = NoMap /\ q.listed = {} /\ q.stale = {}
    BY <1>4
  <2> HIDE DEF q
  <2>2. ~HasNew(q) /\ ~Removed(q) /\ ~Published(q) /\ ~Fetched(q)
    BY <1>5, <2>1 DEF HasNew, Removed, Published, Fetched
  <2>3. q.op \notin Changes /\ q.step \notin Working /\ StepFits(q)
    BY <2>1 DEF Changes, Working, StepFits, Repairs
  <2>4. Knows(q)
    BY <1>5, <2>1, <2>3 DEF Knows, Working
  <2>5. StaysSearchable(q)
    BY <1>6, <2>1, <2>2, <2>3 DEF StaysSearchable
  <2>6. Rooted(q)
    BY <2>1, <2>2 DEF Rooted
  <2>7. Dated(q)
    BY <1>5, <2>1, <2>2 DEF Dated
  <2>8. Trusted(q)
    BY <2>1, <2>2, <2>3 DEF Trusted
  <2>9. QED
    BY <2>3, <2>4, <2>5, <2>6, <2>7, <2>8 DEF Shaped, q
<1>8. LockHeld
  BY <1>4 DEF LockHeld, Working, At
<1>9. QED
  BY <1>3, <1>4, <1>7, <1>8 DEF RequestsSound

LEMMA InitHolds ==
    ASSUME Init
    PROVE  IInv
<1>1. /\ docs \subseteq Criteria /\ lateDocs = {} /\ lateMaps = {} /\ clock = 1
      /\ cache = NoRows /\ sync = "none" /\ stamp = 0 /\ tx = {} /\ lock = Free
      /\ acked = [c \in Criteria |-> Unknown] /\ faults = 0
      /\ minted = docs \cup Legacy \cup {c \in Criteria : \E m \in maps : m.entries[c] # Absent}
      /\ \/ maps = {}
         \/ \E e \in Rows : maps = {[at |-> 1, entries |-> e]}
  BY DEF Init
<1>2. /\ maps \in SUBSET Map /\ \A m \in maps : m.at = 1
      /\ \A m, n \in maps : m = n
  BY <1>1, CriteriaAssumption DEF Map
<1>3. /\ req \in [Requests -> Request] /\ RequestsSound /\ LockHeld
      /\ \A s \in Requests : req[s].base = NoMap /\ req[s].mine = NoMap
  BY FirstRequests
<1>4. TypeOK
  BY <1>1, <1>2, <1>3, MapShape, CriteriaAssumption DEF TypeOK
<1>5. Known \subseteq maps \cup {NoMap}
  BY <1>1, <1>3 DEF Known
<1>6. Settled = minted
  BY <1>1 DEF Settled
<1>7. DocsMinted
  BY <1>1 DEF DocsMinted
<1>8. MapsApart
  BY <1>1, <1>2, <1>5, MapShape DEF MapsApart
<1>9. EntriesSettled
  BY <1>1, <1>5, <1>6, MapShape DEF EntriesSettled
<1>10. LateSound
  BY <1>1 DEF LateSound
<1>11. Truth.at \in Nat
  BY <1>2, NewestIsThere, MapShape DEF Truth
<1>12. TableSound
  BY <1>1, <1>11 DEF TableSound
<1>13. AckSound /\ AcknowledgedKept
  BY <1>1, SlotShape DEF AckSound, AcknowledgedKept
<1>14. RowsRight
  BY <1>1, MapShape, SlotShape, CriteriaAssumption
  DEF RowsRight, SkipIsRight, WouldSkip, LegacyNeverActive
<1>15. QED
  BY <1>3, <1>4, <1>7, <1>8, <1>9, <1>10, <1>12, <1>13, <1>14 DEF IInv

-----------------------------------------------------------------------------
(* The table is written.                                                   *)

\* A repair's rows, which are committed at once or when it has answered.
LEMMA FlushKeeps ==
    ASSUME IInv, NEW r \in Requests, req[r].step \in Working, req[r].op \in Repairs,
           NEW t \in Tx, Flush(r, t), UNCHANGED <<cloud, quiet>>,
           t.stamp <= Truth.at, Searchable(t.cache),
           t.sync = "ok" => Searchable(Truth.entries),
           t.sync = "ok" /\ t.stamp # 0 /\ t.stamp = Truth.at => t.cache = Truth.entries
    PROVE  IInv'
<1> DEFINE q == req[r]
           p == req'[r]
           k == [Idle EXCEPT !.op = q.op, !.step = "closing"]
<1>1. /\ TypeOK /\ MapsApart /\ tx = {} /\ Truth' = Truth /\ Truth'.at \in Nat /\ Advances
      /\ t.cache \in Rows /\ t.sync \in {"none", "ok", "needs_resync"} /\ t.stamp \in 0 .. MaxTime
      /\ UNCHANGED <<docs, lateDocs, maps, lateMaps, clock, minted, acked, faults>>
  BY SameMapsSameTruth, TruthIs, SameTruthAdvances DEF IInv, Flush, cloud, quiet, Tx
<1>2. \/ Store(t) /\ Return(r) /\ tx' = tx
      \/ Set(r, k) /\ tx' = {t} /\ lock' = Free /\ UNCHANGED table
  BY DEF Flush, Set
<1>3. /\ k \in Request /\ k.op = q.op /\ k.step = "closing" /\ k.base = NoMap
      /\ k.mine = NoMap /\ k.listed = {} /\ k.stale = {}
  BY IdleType DEF Idle, Request, Steps, Repairs
<1> HIDE DEF k
<1>4. /\ Typed /\ Alone(r) /\ lock' \in Requests \cup {Free} /\ p.step \notin Working
      /\ IF p.step = "closing" THEN tx = {} /\ tx' # {} ELSE tx' = tx
      /\ p.base \in Known /\ p.mine \in Known
      /\ Sound(r)'
  <2>1. CASE Store(t) /\ Return(r) /\ tx' = tx
    BY <1>1, <2>1, ReturnDoes, IdleSound
  <2>2. CASE Set(r, k) /\ tx' = {t} /\ lock' = Free /\ UNCHANGED table
    <3>1. Typed /\ Alone(r) /\ p = k
      BY <1>1, <1>3, <2>2, SetDoes
    <3>2. k.step \notin Working /\ StepFits(k)
          /\ k.op \notin Changes \cup {"activate", "replace"}
      BY <1>3 DEF Working, StepFits, Changes, Repairs
    <3>3. \A a \in p.stale : a < Truth'.at
      BY <1>3, <3>1
    <3>4. Sound(r)'
      BY <1>1, <1>3, <3>1, <3>2, <3>3, RestingSound
    <3>5. QED
      BY <1>1, <1>3, <2>2, <3>1, <3>2, <3>4 DEF Known
  <2>3. QED
    BY <1>2, <2>1, <2>2
<1>5. LockHeld' /\ RequestsSound'
  BY <1>1, <1>4, LockStep
<1>6. CloudSound'
  <2>1. Known' \subseteq Known
    BY <1>1, <1>4, KnownStays DEF Known
  <2>2. QED
    BY <1>1, <2>1, CloudStays
<1>7. TypeOK' /\ TableSound' /\ RowsRight'
  <2>1. CASE Store(t) /\ tx' = tx
    <3>1. cache' = t.cache /\ sync' = t.sync /\ stamp' = t.stamp /\ tx' = {}
      BY <1>1, <2>1 DEF Store
    <3>2. TypeOK'
      BY <1>1, <1>4, <3>1 DEF TypeOK, Typed
    <3>3. TableSound'
      BY <1>1, <3>1 DEF TableSound
    <3>4. RowsRight'
      BY <1>1, <3>1 DEF RowsRight, SkipIsRight, WouldSkip, LegacyNeverActive, Searchable
    <3>5. QED
      BY <3>2, <3>3, <3>4
  <2>2. CASE tx' = {t} /\ UNCHANGED table
    <3>1. TypeOK'
      BY <1>1, <1>4, <2>2 DEF TypeOK, Typed, table
    <3>2. TableSound'
      BY <1>1, <2>2 DEF IInv, TableSound, table
    <3>3. RowsRight'
      BY <1>1, <2>2 DEF IInv, RowsRight, SkipIsRight, WouldSkip, LegacyNeverActive, table
    <3>4. QED
      BY <3>1, <3>2, <3>3
  <2>3. QED
    BY <1>2, <2>1, <2>2
<1>8. QED
  BY <1>5, <1>6, <1>7 DEF IInv, CloudSound

\* The rows are those of the map that was published or compared, and of none
\* that is newer.
LEMMA RebuildKeeps ==
    ASSUME IInv, NEW r \in Requests, Rebuild(r)
    PROVE  IInv'
<1> DEFINE q == req[r]
           t == Rebuilt(q)
<1>1. /\ TypeOK /\ MapsApart /\ q.step = "commit" /\ q.step \in Working /\ q.op \in Repairs
      /\ q \in Request /\ Shaped(q) /\ Dated(q) /\ Trusted(q) /\ q.base.entries \in Rows
      /\ q.base \in Map \cup {NoMap} /\ q.mine \in Map \cup {NoMap}
      /\ q.base \in Known /\ q.mine \in Known
  BY Types, MapShape DEF IInv, Rebuild, At, Working, RequestsSound, Known
<1>2. /\ t.cache = Cleaned(q) /\ t.sync = "ok"
      /\ t.stamp = IF q.mine.at # 0 THEN q.mine.at ELSE q.base.at
      /\ t = [cache |-> t.cache, sync |-> t.sync, stamp |-> t.stamp]
  BY DEF Rebuilt
<1>3. Flush(r, t) /\ UNCHANGED <<cloud, quiet>>
  BY DEF Rebuild
<1> HIDE DEF q, t
<1>4. Cleaned(q) \in Rows /\ Searchable(Cleaned(q))
  BY <1>1, CleanedType
<1>5. t \in Tx
  <2>1. q.base.at \in 0 .. MaxTime /\ q.mine.at \in 0 .. MaxTime
    BY <1>1, MapShape, CriteriaAssumption
  <2>2. QED
    BY <1>2, <1>4, <2>1 DEF Tx
<1>6. t.stamp <= Truth.at
  BY <1>1, <1>2 DEF Dated, Published
<1>7. Searchable(Truth.entries)
  BY <1>1 DEF Trusted
<1>8. t.stamp = Truth.at => t.cache = Truth.entries
  <2>1. Truth \in Known /\ Apart(Known)
    BY <1>1, TruthIs
  <2>2. CASE q.mine.at # 0
    <3>1. q.mine.entries = Cleaned(q)
      BY <1>1, <2>2 DEF Shaped, Knows, Edited, Repairs
    <3>2. QED
      BY <1>1, <1>2, <2>1, <2>2, <3>1 DEF Apart
  <2>3. CASE q.mine.at = 0
    <3>1. q.base.entries = Cleaned(q)
      BY <1>1, <2>3 DEF Shaped, Knows, Unneeded, Repairs
    <3>2. QED
      BY <1>1, <1>2, <2>1, <2>3, <3>1 DEF Apart
  <2>4. QED
    BY <2>2, <2>3
<1>9. QED
  BY <1>1, <1>2, <1>3, <1>4, <1>5, <1>6, <1>7, <1>8, FlushKeeps DEF q

LEMMA FlagRepairKeeps ==
    ASSUME IInv, NEW r \in Requests, FlagRepair(r)
    PROVE  IInv'
<1> DEFINE t == [cache |-> cache, sync |-> "needs_resync", stamp |-> stamp]
<1>1. /\ req[r].step \in Working /\ req[r].op \in Repairs
      /\ Flush(r, t) /\ UNCHANGED <<cloud, quiet>>
  BY DEF FlagRepair, At, Working
<1>2. t \in Tx /\ t.stamp <= Truth.at /\ t.sync # "ok"
  BY DEF IInv, TypeOK, Tx, TableSound
<1>3. Searchable(t.cache)
  BY DEF IInv, RowsRight, LegacyNeverActive, Searchable
<1> HIDE DEF t
<1>4. QED
  BY <1>1, <1>2, <1>3, FlushKeeps

\* The answer is given, and the rows are committed.
LEMMA CloseKeeps ==
    ASSUME IInv, NEW r \in Requests, Close(r)
    PROVE  IInv'
<1>1. /\ TypeOK /\ MapsApart /\ req[r].step = "closing" /\ tx' = {} /\ Return(r)
      /\ Truth' = Truth /\ Truth'.at \in Nat /\ Advances
      /\ UNCHANGED <<docs, lateDocs, maps, lateMaps, clock, minted, acked, faults>>
  BY SameMapsSameTruth, TruthIs, SameTruthAdvances DEF IInv, Close, At, cloud, quiet
<1>2. tx # {} /\ \A s \in Requests \ {r} : req[s].step # "closing"
  BY <1>1 DEF IInv, LockHeld, At
<1>3. PICK t \in tx : TRUE
  BY <1>2
<1>4. /\ cache' = t.cache /\ sync' = t.sync /\ stamp' = t.stamp
      /\ t.cache \in Rows /\ t.sync \in {"none", "ok", "needs_resync"} /\ t.stamp \in 0 .. MaxTime
  BY <1>1, <1>3 DEF Close, Store, TypeOK, Tx
<1>5. /\ Typed /\ Alone(r) /\ req'[r] = Idle
      /\ lock' = IF lock = r THEN Free ELSE lock
      /\ lock' \in Requests \cup {Free}
  BY <1>1, ReturnDoes
<1>6. /\ Sound(r)' /\ req'[r].base \in Known /\ req'[r].mine \in Known
      /\ req'[r].step \notin Working /\ req'[r].step # "closing"
  BY <1>1, <1>5, IdleSound
<1>7. World /\ \A q : Stands(q)
  BY <1>1, <1>3, <1>4 DEF World, Stands, Settled
<1>8. RequestsSound'
  <2>1. \A s \in Requests \ {r} : Sound(s)'
    BY <1>5, <1>7, OthersSound DEF Alone
  <2>2. QED
    BY <1>6, <2>1 DEF RequestsSound, Sound
<1>9. LockHeld'
  BY <1>2, <1>5, <1>6 DEF IInv, LockHeld, At, Alone
<1>10. CloudSound'
  <2>1. Known' \subseteq Known
    BY <1>1, <1>5, <1>6, KnownStays DEF Known
  <2>2. QED
    BY <1>1, <2>1, CloudStays
<1>11. TypeOK'
  BY <1>1, <1>4, <1>5 DEF TypeOK, Typed
<1>12. TableSound'
  BY <1>1, <1>3, <1>4 DEF IInv, TableSound
<1>13. RowsRight'
  BY <1>1, <1>3, <1>4
  DEF IInv, TableSound, RowsRight, SkipIsRight, WouldSkip, LegacyNeverActive, Searchable
<1>14. QED
  BY <1>8, <1>9, <1>10, <1>11, <1>12, <1>13 DEF IInv, CloudSound

LEMMA MarkKeeps ==
    ASSUME IInv, NEW r \in Requests, Mark(r)
    PROVE  IInv'
<1>1. /\ TypeOK /\ MapsApart /\ req[r].step \in Working /\ Return(r)
      /\ Truth' = Truth /\ Truth'.at \in Nat /\ Advances
      /\ sync' = "needs_resync"
      /\ UNCHANGED <<docs, lateDocs, maps, lateMaps, clock, minted, cache, stamp, tx, acked, faults>>
  BY SameMapsSameTruth, TruthIs, SameTruthAdvances DEF IInv, Mark, At, Working, cloud
<1>2. /\ Typed /\ Alone(r) /\ req'[r] = Idle /\ lock' \in Requests \cup {Free}
      /\ Sound(r)' /\ req'[r].base \in Known /\ req'[r].mine \in Known
      /\ req'[r].step \notin Working /\ req'[r].step # "closing"
  BY <1>1, ReturnDoes, IdleSound
<1>3. LockHeld' /\ RequestsSound'
  BY <1>1, <1>2, LockStep
<1>4. CloudSound'
  <2>1. Known' \subseteq Known
    BY <1>1, <1>2, KnownStays DEF Known
  <2>2. QED
    BY <1>1, <2>1, CloudStays
<1>5. TypeOK'
  BY <1>1, <1>2 DEF TypeOK, Typed
<1>6. TableSound' /\ RowsRight'
  BY <1>1
  DEF IInv, TableSound, RowsRight, SkipIsRight, WouldSkip, LegacyNeverActive, Searchable
<1>7. QED
  BY <1>3, <1>4, <1>5, <1>6 DEF IInv, CloudSound

\* A change is answered: what it changed is the truth, and no row that a repair
\* would trust is touched without a newer map.
LEMMA CommitKeeps ==
    ASSUME IInv, NEW r \in Requests, Commit(r)
    PROVE  IInv'
<1> DEFINE q == req[r]
           rows == IF q.op = "delete" THEN NoRows ELSE q.mine.entries
<1>1. /\ TypeOK /\ MapsApart /\ q.step = "commit" /\ q.step \in Working /\ q.op \in Changes
      /\ q \in Request /\ Shaped(q) /\ Rooted(q) /\ Dated(q) /\ Trusted(q)
      /\ q.base \in Known /\ q.mine \in Known
      /\ q.base \in Map \cup {NoMap} /\ q.mine \in Map \cup {NoMap}
      /\ Return(r) /\ tx = {} /\ cache' = Stored(q) /\ Tell(Touched(q), rows)
      /\ Truth' = Truth /\ Truth'.at \in Nat /\ Advances
      /\ UNCHANGED <<docs, lateDocs, maps, lateMaps, clock, minted, sync, stamp, tx, faults>>
  BY SameMapsSameTruth, TruthIs, SameTruthAdvances, Types
  DEF IInv, Commit, At, Working, RequestsSound, Known, cloud
<1>2. /\ Typed /\ Alone(r) /\ req'[r] = Idle /\ lock' \in Requests \cup {Free}
      /\ Sound(r)' /\ req'[r].base \in Known /\ req'[r].mine \in Known
      /\ req'[r].step \notin Working /\ req'[r].step # "closing"
  BY <1>1, ReturnDoes, IdleSound
<1> HIDE DEF q, rows
<1>3. LockHeld' /\ RequestsSound'
  BY <1>1, <1>2, LockStep DEF q
<1>4. /\ q.base.at \in Nat /\ q.mine.at \in Nat /\ stamp \in Nat /\ Truth.at \in Nat
      /\ \A m \in lateMaps : m.at \in Nat
  BY <1>1, Types, MapShape, TruthIs
<1>5. /\ q.mine.at # 0 => /\ q.mine.at > q.base.at /\ q.mine.entries = Edited(q)
                          /\ q.mine.at <= Truth.at
                          /\ \A m \in lateMaps : m.at <= q.mine.at
      /\ q.mine.at = 0 => q.op = "delete" /\ q.base.entries[q.sid] = Absent
      /\ stamp <= q.base.at
      /\ q.op \in {"replace", "rename", "activate", "deactivate"}
         => q.base.entries[q.sid] # Absent
      /\ q.op \in {"delete", "replace"} => Removed(q)
      /\ q.op \in {"upload", "replace"} => HasNew(q)
  BY <1>1 DEF Shaped, Knows, Dated, Published, Fetched, Unneeded, Removed, HasNew, Changes, Repairs
<1>6. \A c \in Criteria :
        /\ acked'[c] \in Slot \cup {Unknown, Shared}
        /\ \/ acked'[c] = acked[c]
           \/ /\ c \in Touched(q) /\ acked[c] # Shared /\ acked'[c] = rows[c]
  <2>1. \A c \in Criteria : NoRows[c] \in Slot /\ q.mine.entries[c] \in Slot
    BY <1>1, MapShape, SlotShape DEF Rows
  <2>2. \A c \in Criteria : rows[c] \in Slot /\ acked[c] \in Slot \cup {Unknown, Shared}
    BY <1>1, <2>1 DEF rows, TypeOK
  <2>3. QED
    BY <1>1, <2>2 DEF Tell
<1>7. /\ q.op = "delete" => \A c \in Touched(q) : c = q.sid /\ rows[c] = Absent
      /\ \A c \in Touched(q) : rows[c] = Absent => c = q.sid /\ q.op \in {"delete", "replace"}
      /\ Touched(q) \subseteq Criteria
      /\ q.op # "delete" => rows = q.mine.entries /\ q.mine.at # 0
  <2>1. /\ Touched(q) \subseteq Criteria
        /\ \A c \in Touched(q) : Edited(q)[c] = Absent => c = q.sid /\ q.op \in {"delete", "replace"}
    BY <1>1, <1>5, EditedFacts, SlotShape
  <2>2. q.op = "delete" => Touched(q) = {q.sid} /\ rows = NoRows
    BY DEF Touched, Repairs, rows
  <2>3. q.op # "delete" => rows = q.mine.entries /\ q.mine.at # 0
    BY <1>5 DEF rows
  <2>4. q.sid \in Criteria
    BY <1>1 DEF Request
  <2>5. QED
    BY <1>5, <2>1, <2>2, <2>3, <2>4, MapShape
<1>8. AckSound'
  <2>1. Settled' = Settled /\ docs' = docs
    BY <1>1 DEF Settled
  <2> SUFFICES ASSUME NEW c \in Criteria
               PROVE  /\ acked'[c] = Absent => c \in Settled \ docs
                      /\ acked'[c] \in Entry
                         => c \in Settled /\ (c \in Legacy => acked'[c].status # "active")
    BY <2>1 DEF AckSound
  <2>2. CASE acked'[c] = acked[c]
    BY <2>2 DEF IInv, AckSound
  <2>3. CASE c \in Touched(q) /\ acked'[c] = rows[c]
    <3>1. acked'[c] = Absent => c \in Settled \ docs
      BY <1>1, <1>5, <1>7, <2>3 DEF Rooted
    <3>2. acked'[c] \in Entry => q.op # "delete"
      BY <1>7, <2>3, SlotShape
    <3>3. q.mine.entries[c] \in Entry => c \in Settled
      BY <1>1, SlotShape DEF IInv, EntriesSettled
    <3>4. c \in Legacy => q.mine.entries[c].status # "active"
      BY <1>1 DEF Shaped, StaysSearchable, Searchable
    <3>5. QED
      BY <1>7, <2>3, <3>1, <3>2, <3>3, <3>4
  <2>4. QED
    BY <1>6, <2>2, <2>3
<1>9. AcknowledgedKept'
  <2> SUFFICES ASSUME NEW c \in Criteria, acked'[c] \in Entry, c \in docs
               PROVE  Truth.entries[c] = acked'[c]
    BY <1>1, <1>8 DEF AcknowledgedKept, AckSound
  <2>1. CASE acked'[c] = acked[c]
    BY <2>1 DEF IInv, AcknowledgedKept
  <2>2. CASE c \in Touched(q) /\ acked[c] # Shared /\ acked'[c] = rows[c]
    <3>1. q.op # "delete"
      BY <1>7, <2>2, SlotShape
    <3>2. Published(q)
      BY <1>1, <1>7, <3>1 DEF Published
    <3>3. Truth.entries[c] = q.mine.entries[c]
      BY <1>1, <2>2, <3>2 DEF Trusted
    <3>4. QED
      BY <1>7, <2>2, <3>1, <3>3
  <2>3. QED
    BY <1>6, <2>1, <2>2
<1>10. LateSound'
  <2> SUFFICES ASSUME NEW m \in lateMaps, m.at > Truth.at
               PROVE  AgreesThen(m.entries)
    BY <1>1 DEF IInv, LateSound, AgreesThen, Agrees
  <2>1. q.mine.at = 0
    BY <1>4, <1>5
  <2>2. \A c \in Criteria : acked'[c] \in Entry => acked'[c] = acked[c]
    BY <1>5, <1>6, <1>7, <2>1, SlotShape
  <2>3. QED
    BY <1>1, <2>2 DEF IInv, LateSound, AgreesThen, Agrees, TypeOK
<1>11. DocsMinted' /\ MapsApart' /\ EntriesSettled'
  <2>1. Known' \subseteq Known
    BY <1>1, <1>2, KnownStays DEF Known
  <2>2. Settled' = Settled
    BY <1>1 DEF Settled
  <2>3. QED
    BY <1>1, <2>1, <2>2 DEF IInv, DocsMinted, MapsApart, EntriesSettled
<1>12. TableSound'
  BY <1>1 DEF IInv, TableSound
<1>13. /\ Stored(q) \in Rows /\ Searchable(Stored(q))
       /\ q.op = "delete" /\ cache[q.sid] = Absent => Stored(q) = cache
  <2>1. q.op = "upload" => q.new \notin Legacy
    BY <1>1, <1>5 DEF Shaped, StaysSearchable
  <2>2. cache \in Rows /\ LegacyNeverActive /\ Searchable(q.mine.entries)
    BY <1>1 DEF IInv, TypeOK, RowsRight, Shaped, StaysSearchable
  <2>3. QED
    BY <1>1, <2>1, <2>2, StoredFacts
<1>14. RowsRight'
  <2>1. LegacyNeverActive'
    BY <1>1, <1>13 DEF LegacyNeverActive, Searchable
  <2>2. SkipIsRight'
    <3> SUFFICES ASSUME WouldSkip'
                 PROVE  cache' = Truth'.entries
      BY DEF SkipIsRight
    <3>1. WouldSkip /\ stamp = Truth.at
      BY <1>1 DEF WouldSkip
    <3>2. cache = Truth.entries
      BY <3>1 DEF IInv, RowsRight, SkipIsRight
    <3>3. q.mine.at = 0
      BY <1>4, <1>5, <3>1
    <3>4. q.base.at <= Truth.at
      BY <1>1 DEF Dated
    <3>5. q.base = Truth
      BY <1>1, <1>4, <1>5, <3>1, <3>4, TruthIs DEF Apart
    <3>6. QED
      BY <1>1, <1>5, <1>13, <3>2, <3>3, <3>5
  <2>3. QED
    BY <2>1, <2>2 DEF RowsRight
<1>15. TypeOK'
  <2>1. acked' \in [Criteria -> Slot \cup {Unknown, Shared}]
    BY <1>1, <1>6 DEF Tell
  <2>2. QED
    BY <1>1, <1>2, <1>13, <2>1 DEF TypeOK, Typed
<1>16. QED
  BY <1>3, <1>8, <1>9, <1>10, <1>11, <1>12, <1>14, <1>15 DEF IInv

-----------------------------------------------------------------------------
(* The theorems.                                                           *)

LEMMA StutterKeeps ==
    ASSUME IInv, UNCHANGED vars
    PROVE  IInv'
BY DEF vars, cloud, table, quiet, IInv, TypeOK, LockHeld, At, RequestsSound, Shaped, StepFits,
   Knows, StaysSearchable, Rooted, Dated, Trusted, Agrees, DocsMinted, MapsApart, EntriesSettled,
   Known, Settled, LateSound, TableSound, AckSound, RowsRight, SkipIsRight, WouldSkip,
   LegacyNeverActive, AcknowledgedKept, Truth

LEMMA NextKeeps ==
    ASSUME IInv, [Next]_vars
    PROVE  IInv'
<1>1. ASSUME NEW r \in Requests, Call(r)
      PROVE  IInv'
  BY <1>1, AddKeeps, FetchKeeps, RemoveKeeps, RemoveMissingKeeps, PublishKeeps,
     PublishNothingKeeps, RetireKeeps, RecoverKeeps DEF Call
<1>2. ASSUME NEW r \in Requests, Repairing(r)
      PROVE  IInv'
  BY <1>2, GuardKeeps, ListKeeps, RebuildKeeps, FlagRepairKeeps DEF Repairing
<1>3. ASSUME NEW r \in Requests, Locked(r)
      PROVE  IInv'
  BY <1>1, <1>2, <1>3, LoadKeeps, CommitKeeps, MarkKeeps DEF Locked
<1>4. ASSUME NEW r \in Requests,
             \/ Arrive(r) \/ Visit(r) \/ Begin(r) \/ Close(r)
             \/ DatabaseFails(r) \/ Look(r) \/ Clean(r)
      PROVE  IInv'
  BY <1>4, ArriveKeeps, VisitKeeps, BeginKeeps, CloseKeeps, DatabaseFailsKeeps, LookKeeps,
     CleanKeeps
<1>5. ASSUME NEW c \in Criteria, DocAppears(c)
      PROVE  IInv'
  BY <1>5, DocAppearsKeeps
<1>6. ASSUME NEW m \in lateMaps, MapAppears(m)
      PROVE  IInv'
  BY <1>6, MapAppearsKeeps
<1>7. CASE Foreign \/ Crash
  BY <1>7, ForeignKeeps, CrashKeeps
<1>8. CASE UNCHANGED vars
  BY <1>8, StutterKeeps
<1>9. QED
  BY <1>3, <1>4, <1>5, <1>6, <1>7, <1>8 DEF Next

\* The inductive invariant holds in every state the program can reach.
THEOREM InvariantHolds == Spec => []IInv
BY InitHolds, NextKeeps, PTL DEF Spec

\* Every variable keeps to what the code can store in it.
THEOREM TypesHold == Spec => []TypeOK
<1>1. IInv => TypeOK
  BY DEF IInv
<1>2. QED
  BY <1>1, InvariantHolds, PTL

\* Where a reconcile is skipped the rows are what the newest alias map says, and
\* no row offers a document that no search can find.
THEOREM RowsAreRight == Spec => []RowsRight
<1>1. IInv => RowsRight
  BY DEF IInv
<1>2. QED
  BY <1>1, InvariantHolds, PTL

\* What an administrator was acknowledged of a criterion stays true in the cloud
\* until the criterion is changed again.
THEOREM AcknowledgementsStand == Spec => []AcknowledgedKept
<1>1. IInv => AcknowledgedKept
  BY DEF IInv
<1>2. QED
  BY <1>1, InvariantHolds, PTL

\* The map that counts is still there, or another instance has put a newer one
\* in its place.
LEMMA TruthGoesOn ==
    ASSUME IInv, [Next]_vars
    PROVE  Truth'.at >= Truth.at
<1>1. IInv' /\ TypeOK /\ MapsApart /\ TypeOK' /\ MapsApart'
  BY NextKeeps DEF IInv
<1>2. /\ Truth \in maps \cup {NoMap} /\ Truth.at \in Nat /\ maps \in SUBSET Map
      /\ maps' \in SUBSET Map
  BY <1>1, TruthIs, Types DEF TypeOK
<1>3. /\ Truth' \in maps' \cup {NoMap} /\ \A n \in maps' : n.at <= Truth'.at
  BY <1>2, NewestIsThere DEF Truth
<1>4. ASSUME Truth \in maps => Truth \in maps'
      PROVE  Truth'.at >= Truth.at
  <2>1. CASE Truth \in maps
    <3>1. Truth.at <= Truth'.at /\ Truth'.at \in Nat
      BY <1>2, <1>3, <1>4, <2>1, MapShape
    <3>2. QED
      BY <1>2, <3>1
  <2>2. CASE Truth = NoMap
    BY <1>2, <1>3, <2>2, MapShape
  <2>3. QED
    BY <1>2, <2>1, <2>2
<1>5. ASSUME NEW old, Truth.at \notin old, Sweep(old)
      PROVE  Truth'.at >= Truth.at
  BY <1>4, <1>5 DEF Sweep
<1>6. ASSUME maps' = maps
      PROVE  Truth'.at >= Truth.at
  BY <1>4, <1>6
<1>7. Truth.at \notin Older
  BY DEF Older
<1>8. ASSUME NEW r \in Requests, Call(r)
      PROVE  Truth'.at >= Truth.at
  <2>1. CASE Add(r) \/ Remove(r) \/ RemoveMissing(r) \/ PublishNothing(r)
    BY <1>6, <2>1 DEF Add, Remove, RemoveMissing, PublishNothing, cloud
  <2>2. CASE Fetch(r) \/ Recover(r)
    <3>1. Fetch(r) => Sweep(Older) \/ maps' = maps
      BY DEF Fetch
    <3>2. Recover(r) => Sweep(Older) \/ maps' = maps
      BY DEF Recover
    <3>3. Sweep(Older) \/ maps' = maps
      BY <2>2, <3>1, <3>2
    <3>4. QED
      BY <1>5, <1>6, <1>7, <3>3
  <2>3. CASE Publish(r)
    <3>1. maps \subseteq maps'
      BY <2>3 DEF Publish
    <3>2. QED
      BY <1>4, <3>1
  <2>4. CASE Retire(r)
    <3>1. req[r].step = "retire" /\ maps \ {req[r].base} \subseteq maps'
      BY <2>4 DEF Retire, At
    <3>2. Shaped(req[r]) /\ Dated(req[r]) /\ req[r].base.at \in Nat /\ req[r].mine.at \in Nat
      BY <1>1, Types, MapShape DEF IInv, RequestsSound
    <3>3. req[r].mine.at # 0 /\ req[r].mine.at > req[r].base.at /\ req[r].mine.at <= Truth.at
      BY <3>1, <3>2 DEF Shaped, Knows, Dated, Published
    <3>4. Truth # req[r].base
      BY <1>2, <3>2, <3>3
    <3>5. QED
      BY <1>4, <3>1, <3>4
  <2>5. QED
    BY <1>8, <2>1, <2>2, <2>3, <2>4 DEF Call
<1>9. ASSUME NEW r \in Requests, Repairing(r)
      PROVE  Truth'.at >= Truth.at
  <2>1. Guard(r) => Sweep(Older) \/ maps' = maps
    BY DEF Guard
  <2>2. List(r) \/ Rebuild(r) \/ FlagRepair(r) => maps' = maps
    BY DEF List, Rebuild, FlagRepair, cloud
  <2>3. QED
    BY <1>5, <1>6, <1>7, <1>9, <2>1, <2>2 DEF Repairing
<1>10. ASSUME NEW r \in Requests, Clean(r)
       PROVE  Truth'.at >= Truth.at
  <2>1. Sweep(req[r].stale) /\ Dated(req[r])
    BY <1>10 DEF Clean, IInv, RequestsSound
  <2>2. Truth.at \notin req[r].stale
    BY <1>2, <2>1 DEF Dated
  <2>3. QED
    BY <1>5, <2>1, <2>2
<1>11. CASE Foreign
  <2>1. PICK new \in maps' : new.at = clock + 1
    <3>1. \E e : [at |-> clock + 1, entries |-> e] \in maps'
      BY <1>11 DEF Foreign
    <3>2. \A e : [at |-> clock + 1, entries |-> e].at = clock + 1
      OBVIOUS
    <3>3. QED
      BY <3>1, <3>2
  <2>2. new.at <= Truth'.at /\ Truth.at <= clock /\ clock \in Nat /\ Truth'.at \in Nat
    BY <1>1, <1>2, <1>3, <2>1, TruthIs, Types, MapShape
  <2>3. QED
    BY <1>2, <2>1, <2>2
<1>12. ASSUME NEW m \in lateMaps, MapAppears(m)
       PROVE  Truth'.at >= Truth.at
  BY <1>4, <1>12 DEF MapAppears
<1>13. ASSUME NEW r \in Requests,
              \/ Load(r) \/ Commit(r) \/ Mark(r)
              \/ Arrive(r) \/ Visit(r) \/ Begin(r) \/ Close(r)
              \/ DatabaseFails(r) \/ Look(r)
       PROVE  Truth'.at >= Truth.at
  BY <1>6, <1>13
  DEF Load, Commit, Mark, Arrive, Visit, Begin, Close, DatabaseFails, Look, cloud
<1>14. ASSUME NEW c \in Criteria, DocAppears(c)
       PROVE  Truth'.at >= Truth.at
  BY <1>6, <1>14 DEF DocAppears
<1>15. CASE Crash \/ UNCHANGED vars
  BY <1>6, <1>15 DEF Crash, vars, cloud
<1>16. QED
  BY <1>8, <1>9, <1>10, <1>11, <1>12, <1>13, <1>14, <1>15 DEF Next, Locked

\* The alias map that counts is never lost, and never replaced by an older one,
\* whatever searches, repairs and late uploads do to the others.
THEOREM TruthOnlyAdvances == Spec => TruthAdvances
<1>1. IInv /\ [Next]_vars => [Truth'.at >= Truth.at]_maps
  BY TruthGoesOn
<1>2. QED
  BY <1>1, InvariantHolds, PTL DEF Spec, TruthAdvances
=============================================================================
