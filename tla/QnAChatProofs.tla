-------------------------- MODULE QnAChatProofs ----------------------------
(***************************************************************************)
(* Proofs about QnAChat, for any number of requests, students, documents   *)
(* and questions.  First what ids and ranks are, then why rows in the      *)
(* order of their ids come as question and answer, and then one lemma for  *)
(* every kind of step.                                                     *)
(***************************************************************************)
EXTENDS QnAChat, OrderingProofs, FunctionTheorems, SequenceTheorems

-----------------------------------------------------------------------------
(* Ids.                                                                    *)

\* The id given out next is larger than those of all rows, by one than the
\* largest.
LEMMA NextIdIsNew ==
    ASSUME NEW rows, NEW n \in Nat, \A row \in rows : row.id \in 1 .. n
    PROVE  /\ NextId(rows) \in 1 .. n + 1
           /\ \A row \in rows : row.id < NextId(rows)
           /\ rows = {} => NextId(rows) = 1
           /\ rows # {} => \E row \in rows : NextId(rows) = row.id + 1
<1>1. CASE rows = {}
  BY <1>1 DEF NextId
<1>2. CASE rows # {}
  <2> DEFINE ids == {row.id : row \in rows}
  <2>1. ids \subseteq 1 .. n /\ ids # {}
    BY <1>2
  <2>2. ids \in SUBSET Int
    BY <2>1
  <2>3. IsFiniteSet(ids)
    <3> HIDE DEF ids
    <3>1. IsFiniteSet(1 .. n)
      BY FS_Interval
    <3>2. ids \in SUBSET (1 .. n)
      BY <2>1
    <3>3. QED
      BY <3>1, <3>2, FS_Subset
  <2> DEFINE top == Max(ids)
  <2>4. top \in ids /\ \A i \in ids : i <= top
    <3> HIDE DEF ids
    <3>1. QED
      BY <2>1, <2>2, <2>3, MaxOfFinite
  <2>5. NextId(rows) = top + 1
    BY <1>2 DEF NextId
  <2>6. PICK row \in rows : top = row.id
    BY <2>4
  <2>7. top \in 1 .. n
    BY <2>1, <2>4
  <2>8. \A r \in rows : r.id \in ids /\ r.id \in Int
    OBVIOUS
  <2> HIDE DEF top, ids
  <2>9. QED
    BY <1>2, <2>4, <2>5, <2>6, <2>7, <2>8
<1>3. QED
  BY <1>1, <1>2

-----------------------------------------------------------------------------
(* Rows in the order of their ids.                                         *)

Distinct(S) ==
    /\ \A m \in S : m.id \in Int
    /\ \A a, b \in S : a.id = b.id => a = b

\* A row with a larger id has more rows up to it.
LEMMA RankGrows ==
    ASSUME NEW S, IsFiniteSet(S), Distinct(S)
    PROVE  /\ \A m \in S : Cardinality(UpTo(S, m)) \in 1 .. Cardinality(S)
           /\ \A a, b \in S : a.id < b.id =>
                Cardinality(UpTo(S, a)) < Cardinality(UpTo(S, b))
<1>1. \A m \in S : /\ UpTo(S, m) \subseteq S /\ m \in UpTo(S, m)
                   /\ IsFiniteSet(UpTo(S, m))
  BY FS_Subset DEF UpTo, Distinct
<1>2. ASSUME NEW m \in S
      PROVE  Cardinality(UpTo(S, m)) \in 1 .. Cardinality(S)
  <2>1. Cardinality(UpTo(S, m)) \in Nat /\ Cardinality(S) \in Nat
    BY <1>1, FS_CardinalityType
  <2>2. Cardinality(UpTo(S, m)) <= Cardinality(S)
    BY <1>1, FS_Subset
  <2>3. Cardinality(UpTo(S, m)) # 0
    BY <1>1, FS_EmptySet
  <2>4. QED
    BY <2>1, <2>2, <2>3
<1>3. ASSUME NEW a \in S, NEW b \in S, a.id < b.id
      PROVE  Cardinality(UpTo(S, a)) < Cardinality(UpTo(S, b))
  <2>1. \A m \in S : m.id \in Int
    BY DEF Distinct
  <2>2. UpTo(S, a) \subseteq UpTo(S, b)
    BY <1>3, <2>1 DEF UpTo
  <2>3. b \in UpTo(S, b) /\ b \notin UpTo(S, a)
    BY <1>3, <2>1 DEF UpTo
  <2>4. Cardinality(UpTo(S, a)) <= Cardinality(UpTo(S, b))
        /\ Cardinality(UpTo(S, a)) # Cardinality(UpTo(S, b))
    BY <1>1, <2>2, <2>3, FS_Subset
  <2>5. Cardinality(UpTo(S, a)) \in Nat /\ Cardinality(UpTo(S, b)) \in Nat
    BY <1>1, FS_CardinalityType
  <2>6. QED
    BY <2>4, <2>5
<1>4. QED
  BY <1>2, <1>3

\* Every place has one row.
LEMMA NthIsThere ==
    ASSUME NEW S, IsFiniteSet(S), Distinct(S)
    PROVE  /\ \A i \in 1 .. Cardinality(S) :
                 Nth(S, i) \in S /\ Cardinality(UpTo(S, Nth(S, i))) = i
           /\ \A m \in S : m = Nth(S, Cardinality(UpTo(S, m)))
<1> DEFINE rank == [m \in S |-> Cardinality(UpTo(S, m))]
           n == Cardinality(S)
<1>1. n \in Nat
  BY FS_CardinalityType
<1>2. \A a, b \in S : rank[a] = rank[b] => a = b
  <2> SUFFICES ASSUME NEW a \in S, NEW b \in S, rank[a] = rank[b]
               PROVE  a = b
    OBVIOUS
  <2>1. Cardinality(UpTo(S, a)) = Cardinality(UpTo(S, b))
    OBVIOUS
  <2>2. a.id \in Int /\ b.id \in Int /\ (a.id = b.id => a = b)
    BY DEF Distinct
  <2>3. /\ Cardinality(UpTo(S, a)) \in Int /\ Cardinality(UpTo(S, b)) \in Int
        /\ a.id < b.id => Cardinality(UpTo(S, a)) < Cardinality(UpTo(S, b))
        /\ b.id < a.id => Cardinality(UpTo(S, b)) < Cardinality(UpTo(S, a))
    BY RankGrows
  <2>4. QED
    BY <2>1, <2>2, <2>3
<1>3. rank \in [S -> 1 .. n]
  BY RankGrows
<1>4. rank \in Injection(S, 1 .. n)
  <2> HIDE DEF rank, n
  <2>1. QED
    BY <1>2, <1>3 DEF Injection, IsInjective
<1>5. IsFiniteSet(1 .. n) /\ Cardinality(1 .. n) = n
  BY <1>1, FS_Interval
<1>6. rank \in Surjection(S, 1 .. n)
  <2> HIDE DEF rank
  <2>1. QED
    BY <1>4, <1>5, FS_Injection
<1>7. \A i \in 1 .. n : \E m \in S : rank[m] = i
  <2> HIDE DEF rank
  <2>1. QED
    BY <1>6 DEF Surjection
<1>8. \A i \in 1 .. n : Nth(S, i) \in S /\ Cardinality(UpTo(S, Nth(S, i))) = i
  BY <1>7 DEF Nth
<1>9. ASSUME NEW m \in S
      PROVE  m = Nth(S, Cardinality(UpTo(S, m)))
  <2>1. Cardinality(UpTo(S, m)) \in 1 .. n
    BY <1>3
  <2>2. PICK k \in S : k = Nth(S, Cardinality(UpTo(S, m)))
                       /\ Cardinality(UpTo(S, k)) = Cardinality(UpTo(S, m))
    BY <1>8, <2>1
  <2>3. k = m
    BY <1>2, <2>2
  <2>4. QED
    BY <2>2, <2>3
<1>10. QED
  BY <1>8, <1>9

\* Places and ids grow together.
LEMMA NthInOrder ==
    ASSUME NEW S, IsFiniteSet(S), Distinct(S),
           NEW i \in 1 .. Cardinality(S), NEW j \in 1 .. Cardinality(S)
    PROVE  Nth(S, i).id < Nth(S, j).id <=> i < j
<1> DEFINE a == Nth(S, i)
           b == Nth(S, j)
<1>1. /\ a \in S /\ Cardinality(UpTo(S, a)) = i
      /\ b \in S /\ Cardinality(UpTo(S, b)) = j
  BY NthIsThere
<1> HIDE DEF a, b
<1>2. /\ a.id < b.id => i < j
      /\ b.id < a.id => j < i
  BY <1>1, RankGrows
<1>3. a.id \in Int /\ b.id \in Int /\ (a.id = b.id => a = b)
  BY <1>1 DEF Distinct
<1>4. a.id = b.id => i = j
  BY <1>1, <1>3
<1>5. i \in Int /\ j \in Int
  BY FS_CardinalityType
<1>6. a.id < b.id <=> i < j
  BY <1>2, <1>3, <1>4, <1>5
<1>7. QED
  BY <1>6 DEF a, b

\* The row whose id is one larger has the next place.
LEMMA NextHasNextPlace ==
    ASSUME NEW S, IsFiniteSet(S), Distinct(S),
           NEW m \in S, NEW n \in S, n.id = m.id + 1
    PROVE  Cardinality(UpTo(S, n)) = Cardinality(UpTo(S, m)) + 1
<1>1. \A k \in S : k.id \in Int /\ (k.id = n.id => k = n)
  BY DEF Distinct
<1>2. UpTo(S, n) = UpTo(S, m) \cup {n}
  <2>1. ASSUME NEW k \in S
        PROVE  k.id <= n.id <=> k.id <= m.id \/ k = n
    BY <1>1, m.id \in Int, n.id \in Int
  <2>2. QED
    BY <2>1 DEF UpTo
<1>3. n \notin UpTo(S, m)
  BY <1>1, m.id \in Int, n.id \in Int DEF UpTo
<1>4. IsFiniteSet(UpTo(S, m))
  BY FS_Subset DEF UpTo
<1>5. QED
  BY <1>2, <1>3, <1>4, FS_AddElement

\* Rows of one conversation of which every question is followed by its answer
\* and every answer by nothing but its question preceded.
Conversation(S) ==
    /\ IsFiniteSet(S) /\ Distinct(S)
    /\ \A m \in S : \/ m.role = "user" /\ \E n \in S : Answers(n, m)
                    \/ m.role = "assistant" /\ \E n \in S : n.role = "user" /\ Answers(m, n)

\* A question and its answer are neighbours.
LEMMA AnswerIsNext ==
    ASSUME NEW S, Conversation(S)
    PROVE  \A i \in 1 .. Cardinality(S) :
              \/ /\ Nth(S, i).role = "user"
                 /\ i + 1 \in 1 .. Cardinality(S)
                 /\ Answers(Nth(S, i + 1), Nth(S, i))
              \/ /\ Nth(S, i).role = "assistant"
                 /\ i - 1 \in 1 .. Cardinality(S)
                 /\ Nth(S, i - 1).role = "user"
<1> SUFFICES ASSUME NEW i \in 1 .. Cardinality(S)
             PROVE  \/ /\ Nth(S, i).role = "user"
                       /\ i + 1 \in 1 .. Cardinality(S)
                       /\ Answers(Nth(S, i + 1), Nth(S, i))
                    \/ /\ Nth(S, i).role = "assistant"
                       /\ i - 1 \in 1 .. Cardinality(S)
                       /\ Nth(S, i - 1).role = "user"
  OBVIOUS
<1>0. IsFiniteSet(S) /\ Distinct(S) /\ Cardinality(S) \in Nat
  BY FS_CardinalityType DEF Conversation
<1> DEFINE m == Nth(S, i)
<1>1. m \in S /\ Cardinality(UpTo(S, m)) = i
  BY <1>0, NthIsThere
<1> HIDE DEF m
<1>2. CASE m.role = "user" /\ \E n \in S : Answers(n, m)
  <2>1. PICK n \in S : Answers(n, m)
    BY <1>2
  <2>2. Cardinality(UpTo(S, n)) = i + 1
    BY <1>0, <1>1, <2>1, NextHasNextPlace DEF Answers
  <2>3. i + 1 \in 1 .. Cardinality(S)
    BY <1>0, <2>2, RankGrows
  <2>4. n = Nth(S, i + 1)
    BY <1>0, <2>2, NthIsThere
  <2>5. QED
    BY <1>2, <2>1, <2>3, <2>4 DEF m
<1>3. CASE m.role = "assistant" /\ \E n \in S : n.role = "user" /\ Answers(m, n)
  <2>1. PICK n \in S : n.role = "user" /\ Answers(m, n)
    BY <1>3
  <2>2. i = Cardinality(UpTo(S, n)) + 1
    BY <1>0, <1>1, <2>1, NextHasNextPlace DEF Answers
  <2>3. Cardinality(UpTo(S, n)) \in 1 .. Cardinality(S)
    BY <1>0, RankGrows
  <2>4. i - 1 \in 1 .. Cardinality(S) /\ Cardinality(UpTo(S, n)) = i - 1
    BY <1>0, <2>2, <2>3
  <2>5. n = Nth(S, i - 1)
    BY <1>0, <2>4, NthIsThere
  <2>6. QED
    BY <1>3, <2>1, <2>4, <2>5 DEF m
<1>4. QED
  BY <1>1, <1>2, <1>3 DEF Conversation

\* So questions have the odd places: the first one that had not would follow
\* an answer whose question had not either.
LEMMA QuestionsAreOdd ==
    ASSUME NEW S, Conversation(S)
    PROVE  \A i \in 1 .. Cardinality(S) : Nth(S, i).role = "user" <=> i % 2 = 1
<1> DEFINE n == Cardinality(S)
           even == {n - i : i \in {j \in 1 .. n : j % 2 = 0 /\ Nth(S, j).role = "user"}}
<1>0. IsFiniteSet(S) /\ n \in Nat
  BY FS_CardinalityType DEF Conversation
<1>1. even = {}
  <2> SUFFICES ASSUME even # {}
               PROVE  FALSE
    OBVIOUS
  <2>1. even \subseteq 0 .. n
    BY <1>0
  <2>2. IsFiniteSet(even) /\ even \in SUBSET Int
    <3> HIDE DEF even
    <3>1. IsFiniteSet(0 .. n)
      BY <1>0, FS_Interval
    <3>2. even \in SUBSET (0 .. n)
      BY <2>1
    <3>3. IsFiniteSet(even)
      BY <3>1, <3>2, FS_Subset
    <3>4. QED
      BY <1>0, <2>1, <3>3
  <2> DEFINE top == Max(even)
  <2>3. top \in even /\ \A k \in even : k <= top
    <3> HIDE DEF even
    <3>1. QED
      BY <2>2, MaxOfFinite
  <2>4. PICK i \in 1 .. n : i % 2 = 0 /\ Nth(S, i).role = "user" /\ top = n - i
    BY <2>3
  <2>5. \A j \in 1 .. n : j % 2 = 0 /\ Nth(S, j).role = "user" => n - j <= n - i
    BY <2>3, <2>4
  <2> HIDE DEF n, top, even
  <2>6. i - 1 \in 1 .. n
    BY <1>0, <2>4
  <2>7. Nth(S, i - 1).role # "user"
    <3>1. Nth(S, i - 1).role = "user" =>
             Answers(Nth(S, (i - 1) + 1), Nth(S, i - 1))
      BY <2>6, AnswerIsNext DEF n
    <3>2. (i - 1) + 1 = i
      BY <1>0, <2>4
    <3>3. Nth(S, i).role # "assistant"
      BY <2>4
    <3>4. QED
      BY <3>1, <3>2, <3>3 DEF Answers, IsAnswer
  <2>8. (i - 1) - 1 \in 1 .. n /\ Nth(S, (i - 1) - 1).role = "user"
    BY <2>6, <2>7, AnswerIsNext DEF n
  <2>9. ((i - 1) - 1) % 2 = 0 /\ ~(n - ((i - 1) - 1) <= n - i)
    BY <1>0, <2>4, <2>8
  <2>10. QED
    BY <2>5, <2>8, <2>9
<1>2. \A i \in 1 .. n : Nth(S, i).role = "user" => i % 2 = 1
  BY <1>0, <1>1
<1>3. ASSUME NEW i \in 1 .. n, i % 2 = 1
      PROVE  Nth(S, i).role = "user"
  <2> HIDE DEF n
  <2>1. CASE Nth(S, i).role # "user"
    <3>1. i - 1 \in 1 .. n /\ Nth(S, i - 1).role = "user"
      BY <2>1, AnswerIsNext DEF n
    <3>2. (i - 1) % 2 = 1
      BY <1>2, <3>1
    <3>3. QED
      BY <1>0, <1>3, <3>2
  <2>2. QED
    BY <2>1
<1>4. QED
  BY <1>2, <1>3

\* Two by two they are questions with their answers.
LEMMA TwoByTwo ==
    ASSUME NEW S, Conversation(S)
    PROVE  /\ Cardinality(S) % 2 = 0
           /\ \A i \in 1 .. Cardinality(S) \div 2 :
                 /\ 2 * i - 1 \in 1 .. Cardinality(S) /\ 2 * i \in 1 .. Cardinality(S)
                 /\ Nth(S, 2 * i - 1).role = "user"
                 /\ Nth(S, 2 * i).role = "assistant"
                 /\ Nth(S, 2 * i).text = Nth(S, 2 * i - 1).text
<1> DEFINE n == Cardinality(S)
<1>0. n \in Nat
  BY FS_CardinalityType DEF Conversation
<1>1. n % 2 = 0
  <2>1. CASE n % 2 = 1
    <3>1. n \in 1 .. n
      BY <1>0, <2>1
    <3>2. Nth(S, n).role = "user"
      BY <2>1, <3>1, QuestionsAreOdd
    <3>3. n + 1 \in 1 .. n
      BY <3>1, <3>2, AnswerIsNext
    <3>4. QED
      BY <1>0, <3>3
  <2>2. QED
    BY <1>0, <2>1
<1>2. ASSUME NEW i \in 1 .. n \div 2
      PROVE  /\ 2 * i - 1 \in 1 .. n /\ 2 * i \in 1 .. n
             /\ Nth(S, 2 * i - 1).role = "user"
             /\ Nth(S, 2 * i).role = "assistant"
             /\ Nth(S, 2 * i).text = Nth(S, 2 * i - 1).text
  <2> HIDE DEF n
  <2>1. /\ 2 * i - 1 \in 1 .. n /\ 2 * i \in 1 .. n
        /\ (2 * i - 1) % 2 = 1 /\ (2 * i - 1) + 1 = 2 * i
    BY <1>0
  <2>2. Nth(S, 2 * i - 1).role = "user"
    BY <2>1, QuestionsAreOdd DEF n
  <2>3. Answers(Nth(S, 2 * i), Nth(S, 2 * i - 1))
    <3> DEFINE j == 2 * i - 1
    <3>1. j \in 1 .. n /\ Nth(S, j).role = "user" /\ j + 1 = 2 * i
      BY <2>1, <2>2
    <3> HIDE DEF j
    <3>2. Answers(Nth(S, j + 1), Nth(S, j))
      BY <3>1, AnswerIsNext DEF n
    <3>3. QED
      BY <3>1, <3>2 DEF j
  <2>4. QED
    BY <2>1, <2>2, <2>3 DEF Answers, IsAnswer
<1>3. QED
  BY <1>1, <1>2

-----------------------------------------------------------------------------
(* What the invariant says of the lists that are read.                     *)

LEMMA RowsAreFew ==
    ASSUME TablesTyped
    PROVE  /\ IsFiniteSet(messages) /\ Distinct(messages)
           /\ \A s : IsFiniteSet(MessagesOf(s)) /\ Distinct(MessagesOf(s))
<1>1. \A m \in messages : m.id \in 1 .. 2 * MaxQuestions
  BY DEF TablesTyped, Message
<1>2. 2 * MaxQuestions \in Nat
  BY QnABounds
<1>3. \A a, b \in messages : a.id = b.id => a = b
  BY DEF TablesTyped
<1> DEFINE id == [m \in messages |-> m.id]
<1>4. id \in Injection(messages, 1 .. 2 * MaxQuestions)
  BY <1>1, <1>3 DEF Injection, IsInjective
<1>5. IsFiniteSet(1 .. 2 * MaxQuestions)
  BY <1>2, FS_Interval
<1>6. IsFiniteSet(messages)
  <2> HIDE DEF id
  <2>1. QED
    BY <1>4, <1>5, FS_Injection
<1>7. Distinct(messages)
  BY <1>1, <1>3 DEF Distinct
<1>8. ASSUME NEW s
      PROVE  IsFiniteSet(MessagesOf(s)) /\ Distinct(MessagesOf(s))
  <2>1. MessagesOf(s) \in SUBSET messages
    BY DEF MessagesOf
  <2>2. QED
    BY <1>6, <1>7, <2>1, FS_Subset DEF Distinct
<1>9. QED
  BY <1>6, <1>7, <1>8

LEMMA OrderedRows ==
    ASSUME TablesTyped, NEW s
    PROVE  /\ Cardinality(MessagesOf(s)) \in Nat
           /\ InOrder(s) \in Seq(messages)
           /\ Len(InOrder(s)) = Cardinality(MessagesOf(s))
           /\ \A i \in 1 .. Cardinality(MessagesOf(s)) :
                 InOrder(s)[i] = Nth(MessagesOf(s), i)
<1> DEFINE n == Cardinality(MessagesOf(s))
<1>1. IsFiniteSet(MessagesOf(s)) /\ Distinct(MessagesOf(s))
  BY RowsAreFew
<1>2. n \in Nat
  BY <1>1, FS_CardinalityType
<1>3. \A i \in 1 .. n : Nth(MessagesOf(s), i) \in messages
  BY <1>1, NthIsThere DEF MessagesOf
<1>4. InOrder(s) = [i \in 1 .. n |-> Nth(MessagesOf(s), i)]
  BY DEF InOrder
<1> HIDE DEF n
<1>5. InOrder(s) \in [1 .. n -> messages]
  BY <1>3, <1>4
<1>6. InOrder(s) \in Seq(messages) /\ Len(InOrder(s)) = n
  BY <1>2, <1>5
<1>7. QED
  BY <1>2, <1>4, <1>6 DEF n

LEMMA PairsFollow ==
    ASSUME TablesTyped, Exchanged
    PROVE  PairsWhole
<1> SUFFICES ASSUME NEW s \in Ids
             PROVE  /\ Len(InOrder(s)) % 2 = 0
                    /\ \A i \in 1 .. Len(InOrder(s)) \div 2 :
                          /\ InOrder(s)[2 * i - 1].role = "user"
                          /\ InOrder(s)[2 * i].role = "assistant"
                          /\ InOrder(s)[2 * i].text = InOrder(s)[2 * i - 1].text
  BY DEF PairsWhole
<1> DEFINE S == MessagesOf(s)
<1>1. IsFiniteSet(S) /\ Distinct(S)
  BY RowsAreFew
<1>2. ASSUME NEW m \in S
      PROVE  \/ m.role = "user" /\ \E n \in S : Answers(n, m)
             \/ m.role = "assistant" /\ \E n \in S : n.role = "user" /\ Answers(m, n)
  <2>1. m \in messages /\ m.session = s
    BY DEF MessagesOf
  <2>2. \A n \in messages : n.session = s => n \in S
    BY DEF MessagesOf
  <2>3. CASE IsQuestion(m) /\ \E n \in messages : Answers(n, m)
    BY <2>1, <2>2, <2>3 DEF IsQuestion, Answers
  <2>4. CASE IsAnswer(m) /\ \E n \in messages : IsQuestion(n) /\ Answers(m, n)
    BY <2>1, <2>2, <2>4 DEF IsQuestion, IsAnswer, Answers
  <2>5. QED
    BY <2>1, <2>3, <2>4 DEF Exchanged
<1>3. Conversation(S)
  BY <1>1, <1>2 DEF Conversation
<1>4. /\ Len(InOrder(s)) = Cardinality(S)
      /\ \A i \in 1 .. Cardinality(S) : InOrder(s)[i] = Nth(S, i)
  BY OrderedRows
<1> HIDE DEF S
<1>5. QED
  BY <1>3, <1>4, TwoByTwo

\* A question is given at most so many exchanges.
LEMMA HistoryIsShort ==
    ASSUME TablesTyped, NEW s \in Ids
    PROVE  Len(History(s)) <= HistoryPairs
<1> DEFINE n == IF 2 * HistoryPairs < Len(InOrder(s)) THEN 2 * HistoryPairs
                ELSE Len(InOrder(s))
           first == SubSeq(InOrder(s), 1, n)
           at == {i \in 1 .. Len(first) \div 2 :
                     first[2 * i - 1].role = "user" /\ first[2 * i].role = "assistant"}
           pairs == Paired(first)
<1>0. HistoryPairs \in Nat
  BY HistoryAssumption
<1>1. InOrder(s) \in Seq(messages) /\ Len(InOrder(s)) \in Nat
  BY OrderedRows
<1>2. n \in Nat /\ n <= Len(InOrder(s))
  BY <1>0, <1>1
<1>3. Len(first) \in Nat
  <2>1. \A i \in 1 .. n : InOrder(s)[i] \in messages
    BY <1>1, <1>2, ElementOfSeq
  <2> HIDE DEF n
  <2>2. Len(first) = IF 1 <= n THEN n - 1 + 1 ELSE 0
    BY <1>2, <2>1, SubSeqProperties
  <2>3. QED
    BY <1>2, <2>2
<1>4. IsFiniteSet(at)
  <2>1. Len(first) \div 2 \in Nat
    <3> HIDE DEF first
    <3>1. QED
      BY <1>3
  <2>2. IsFiniteSet(1 .. Len(first) \div 2)
    <3>1. PICK half \in Nat : half = Len(first) \div 2
      BY <2>1
    <3>2. IsFiniteSet(1 .. half)
      BY FS_Interval
    <3>3. QED
      BY <3>1, <3>2
  <2>3. at \in SUBSET (1 .. Len(first) \div 2)
    OBVIOUS
  <2> HIDE DEF at
  <2>4. QED
    BY <2>2, <2>3, FS_Subset
<1>5. Cardinality(at) \in Nat
  <2> HIDE DEF at
  <2>1. QED
    BY <1>4, FS_CardinalityType
<1> DEFINE place(k) == CHOOSE i \in at : Cardinality({j \in at : j <= i}) = k
           exchange(k) == <<first[2 * place(k) - 1].text, first[2 * place(k)].text>>
           many == Cardinality(at)
           exchanges == {exchange(k) : k \in 1 .. many}
<1>6. pairs = [k \in 1 .. many |-> exchange(k)]
  BY Zenon DEF Paired
<1>7. many \in Nat
  BY <1>5
<1>8. pairs \in Seq(exchanges) /\ Len(pairs) = many
  <2> HIDE DEF pairs, many, exchange
  <2>1. pairs \in [1 .. many -> exchanges]
    BY <1>6
  <2> HIDE DEF exchanges
  <2>2. QED
    BY <1>7, <2>1
<1>9. History(s) = LastRows(pairs, HistoryPairs)
  BY DEF History, FirstRows
<1> HIDE DEF pairs, many, exchanges
<1>10. Len(LastRows(pairs, HistoryPairs)) <= HistoryPairs
  <2> DEFINE from == IF HistoryPairs < many THEN many - HistoryPairs + 1 ELSE 1
  <2>1. from \in 1 .. many + 1 /\ many - from + 1 <= HistoryPairs
    BY <1>0, <1>7
  <2>2. LastRows(pairs, HistoryPairs) = SubSeq(pairs, from, many)
    BY <1>8 DEF LastRows
  <2>3. \A i \in from .. many : pairs[i] \in exchanges
    <3>1. \A i \in from .. many : i \in 1 .. Len(pairs)
      BY <1>7, <1>8, <2>1
    <3>2. QED
      BY <1>8, <3>1, ElementOfSeq
  <2> HIDE DEF from
  <2>4. from \in Int /\ many \in Int
    BY <1>7, <2>1
  <2>5. Len(SubSeq(pairs, from, many)) = IF from <= many THEN many - from + 1 ELSE 0
    BY <2>3, <2>4, SubSeqProperties
  <2>6. QED
    BY <1>0, <2>1, <2>2, <2>4, <2>5
<1>11. QED
  BY <1>9, <1>10

-----------------------------------------------------------------------------
(* Parts of the invariant that several kinds of step keep alike.           *)

LEMMA InFlightIsFinite ==
    ASSUME TablesTyped, TextsApart
    PROVE  /\ IsFiniteSet(InFlight) /\ InFlight \subseteq 1 .. asked
           /\ Cardinality(InFlight) \in 0 .. asked
<1>1. asked \in Nat /\ \A r \in Requests : req[r].text \in Nat /\ req[r].text <= asked
  BY QnABounds DEF TablesTyped, TextsApart, Request, Questions
<1>2. InFlight \subseteq 1 .. asked
  BY <1>1 DEF InFlight
<1>3. IsFiniteSet(1 .. asked) /\ Cardinality(1 .. asked) = asked
  BY <1>1, FS_Interval
<1>4. InFlight \in SUBSET (1 .. asked)
  BY <1>2
<1>5. IsFiniteSet(InFlight) /\ Cardinality(InFlight) <= Cardinality(1 .. asked)
  BY <1>3, <1>4, FS_Subset
<1>6. Cardinality(InFlight) \in Nat
  BY <1>5, FS_CardinalityType
<1>7. QED
  BY <1>1, <1>2, <1>3, <1>5, <1>6

\* With fewer questions in flight there is more room.
LEMMA RoomGrows ==
    ASSUME TablesTyped, TextsApart, RoomLeft, NEW few \in SUBSET InFlight
    PROVE  \A m \in messages : m.id <= 2 * (asked - Cardinality(few))
<1>1. IsFiniteSet(InFlight) /\ Cardinality(InFlight) \in Int
  BY InFlightIsFinite
<1>2. Cardinality(few) <= Cardinality(InFlight) /\ Cardinality(few) \in Nat
  BY <1>1, FS_Subset, FS_CardinalityType
<1>3. asked \in Int /\ \A m \in messages : m.id \in Int
  BY DEF TablesTyped, Message
<1>4. \A m \in messages : m.id <= 2 * (asked - Cardinality(InFlight))
  BY DEF RoomLeft
<1>5. QED
  BY <1>1, <1>2, <1>3, <1>4

\* A request that had not created anything, or keeps what it created, or need
\* not keep it, leaves no conversation without a reason to be empty.
Excused(r, q) ==
    req[r].created => \/ q.created /\ q.session = req[r].session
                      \/ ~Exists(req[r].session)
                      \/ MessagesOf(req[r].session) # {}

\* One request goes on and nothing is written.
LEMMA OneGoesOn ==
    ASSUME IInv, NEW r \in Requests, NEW q \in Request,
           req' = [req EXCEPT ![r] = q],
           UNCHANGED <<users, sessions, messages, sync, now, asked>>,
           broken' \in BOOLEAN, broken => broken',
           RequestSound(q), q.text \in {0, req[r].text}, Together(q),
           broken' \/ Excused(r, q)
    PROVE  IInv'
<1>0. /\ TablesTyped /\ RequestsSound /\ TextsApart /\ Exchanged
      /\ RowsTogether /\ RoomLeft /\ NoOrphanRows /\ NoneLeftEmpty
  BY DEF IInv, NothingStranded
<1>1. /\ req \in [Requests -> Request]
      /\ users' = users /\ sessions' = sessions /\ messages' = messages
      /\ sync' = sync /\ now' = now /\ asked' = asked
  BY <1>0 DEF TablesTyped
<1>2. \A p \in Requests : req'[p] = IF p = r THEN q ELSE req[p]
  BY <1>1
<1>3. TablesTyped'
  BY <1>0, <1>1 DEF TablesTyped
<1>4. RequestsSound'
  BY <1>0, <1>2 DEF RequestsSound
<1>5. TextsApart'
  <2>1. \A p \in Requests : req'[p].text = req[p].text \/ req'[p].text = 0
    BY <1>2
  <2>2. 0 <= asked
    BY <1>0, QnABounds DEF TablesTyped
  <2>3. QED
    BY <1>0, <1>1, <2>1, <2>2 DEF TextsApart
<1>6. Exchanged'
  BY <1>0, <1>1 DEF Exchanged, IsQuestion, IsAnswer, Answers
<1>7. RowsTogether'
  <2>1. \A p \in Requests : Together(req[p])
    BY <1>0 DEF RowsTogether, Together
  <2>2. \A p \in Requests : Together(req'[p])
    BY <1>2, <2>1
  <2>3. QED
    BY <2>2 DEF RowsTogether, Together
<1>8. RoomLeft'
  <2>1. InFlight' \subseteq InFlight
    BY <1>2 DEF InFlight
  <2>2. QED
    BY <1>0, <1>1, <2>1, RoomGrows DEF RoomLeft
<1>9. NoOrphanRows'
  BY <1>0, <1>1 DEF NoOrphanRows, Exists
<1>10. NoneLeftEmpty'
  <2> SUFFICES ASSUME ~broken', NEW s \in sessions, MessagesOf(s.id) = {}, s.doc # NoDoc
               PROVE  \E p \in Requests : req'[p].created /\ req'[p].session = s.id
    BY <1>1 DEF NoneLeftEmpty, MessagesOf
  <2>1. PICK p \in Requests : req[p].created /\ req[p].session = s.id
    BY <1>0 DEF NoneLeftEmpty
  <2>2. Exists(s.id)
    BY DEF Exists
  <2>3. CASE p = r
    BY <1>2, <2>1, <2>2, <2>3 DEF Excused
  <2>4. CASE p # r
    BY <1>2, <2>1, <2>4
  <2>5. QED
    BY <2>3, <2>4
<1>11. QED
  BY <1>3, <1>4, <1>5, <1>6, <1>7, <1>8, <1>9, <1>10 DEF IInv, NothingStranded

-----------------------------------------------------------------------------
(* Steps of a question that write nothing.                                 *)

LEMMA IdleIsSound ==
    Idle \in Request /\ RequestSound(Idle) /\ Together(Idle)
<1>1. Idle \in Request
  BY DEF Idle, Request, Ops, Steps, Pending
<1>2. QED
  BY <1>1 DEF Idle, RequestSound, Together, Waits

LEMMA RequestIsSound ==
    ASSUME IInv, NEW r \in Requests
    PROVE  /\ req \in [Requests -> Request] /\ req[r] \in Request
           /\ RequestSound(req[r]) /\ Together(req[r])
           /\ req[r].text \in Nat /\ broken \in BOOLEAN
BY DEF IInv, TablesTyped, RequestsSound, RowsTogether, Together, Request, Questions

\* The request ends.
LEMMA ReturnKeeps ==
    ASSUME IInv, NEW r \in Requests, Return(r),
           UNCHANGED <<users, sessions, messages, sync, now, asked>>,
           broken' \in BOOLEAN, broken => broken',
           broken' \/ Excused(r, Idle)
    PROVE  IInv'
<1>1. req' = [req EXCEPT ![r] = Idle]
  BY DEF Return
<1>2. Idle.text \in {0, req[r].text}
  BY DEF Idle
<1>3. QED
  BY <1>1, <1>2, IdleIsSound, OneGoesOn

\* A question goes on to wait for what comes next.
LEMMA GotoKeeps ==
    ASSUME IInv, NEW r \in Requests, NEW step \in Waits \ {"create"},
           NEW pending \in Pending,
           req[r].pc \in Waits \ {"create"},
           req' = [req EXCEPT ![r].pc = step, ![r].pending = pending],
           pending # "none" => step = "asking",
           UNCHANGED <<users, sessions, messages, sync, now, asked, broken>>
    PROVE  IInv'
<1> DEFINE q == [req[r] EXCEPT !.pc = step, !.pending = pending]
<1>1. /\ req[r] \in Request /\ RequestSound(req[r]) /\ Together(req[r])
      /\ broken \in BOOLEAN
  BY RequestIsSound
<1>2. req' = [req EXCEPT ![r] = q]
  BY RequestIsSound
<1>3. q \in Request
  BY <1>1 DEF Request, Steps, Waits
<1>4. /\ q.pc = step /\ q.pending = pending
      /\ q.op = req[r].op /\ q.user = req[r].user /\ q.doc = req[r].doc
      /\ q.session = req[r].session /\ q.created = req[r].created
      /\ q.text = req[r].text /\ q.rows = req[r].rows
  BY <1>1 DEF Request
<1> HIDE DEF q
<1>5. RequestSound(q)
  BY <1>1, <1>4 DEF RequestSound, Waits
<1>6. Together(q) /\ Excused(r, q)
  BY <1>1, <1>4 DEF Together, Excused
<1>7. QED
  BY <1>1, <1>2, <1>3, <1>4, <1>5, <1>6, OneGoesOn

LEMMA QuestionGoesOn ==
    ASSUME IInv, NEW r \in Requests,
           Read(r) \/ Filter(r) \/ Mark(r) \/ MarkRefused(r) \/ Retrieve(r)
    PROVE  IInv'
<1>1. /\ req \in [Requests -> Request] /\ req[r] \in Request
      /\ RequestSound(req[r])
  BY RequestIsSound
<1>2. ASSUME NEW step \in Waits \ {"create"}, Goto(r, step),
             req[r].pc \in Waits \ {"create"},
             req[r].pending = "none",
             UNCHANGED <<users, sessions, messages, sync, now, asked, broken>>
      PROVE  IInv'
  <2>1. req' = [req EXCEPT ![r].pc = step, ![r].pending = "none"]
    BY <1>1, <1>2 DEF Goto, Request
  <2>2. "none" \in Pending
    BY DEF Pending
  <2>3. QED
    BY <1>2, <2>1, <2>2, GotoKeeps
<1>3. req[r].pc # "asking" => req[r].pending = "none"
  BY <1>1 DEF RequestSound
<1>4. CASE Read(r)
  <2>1. PICK step \in {"filtering", "asking"} : Goto(r, step)
    BY <1>4 DEF Read, Inform
  <2>2. QED
    BY <1>2, <1>3, <1>4, <2>1 DEF Read, Waits
<1>5. CASE Filter(r)
  <2>1. PICK step \in {"retrieving", "asking"} : Goto(r, step)
    BY <1>5 DEF Filter, Filtered
  <2>2. QED
    BY <1>2, <1>3, <1>5, <2>1 DEF Filter, Waits
<1>6. CASE Retrieve(r)
  BY <1>2, <1>3, <1>6 DEF Retrieve, Waits
<1>7. CASE Mark(r)
  <2>1. req' = [req EXCEPT ![r].pc = "asking", ![r].pending = "mark"]
    BY <1>1, <1>7 DEF Mark
  <2>2. QED
    BY <1>7, <2>1, GotoKeeps DEF Mark, Waits, Pending
<1>8. CASE MarkRefused(r)
  <2>1. req' = [req EXCEPT ![r].pc = "asking", ![r].pending = "error"]
    BY <1>1, <1>8 DEF MarkRefused
  <2>2. QED
    BY <1>8, <2>1, GotoKeeps DEF MarkRefused, Waits, Pending
<1>9. QED
  BY <1>4, <1>5, <1>6, <1>7, <1>8

\* A question that fails takes back the conversation that it created.
LEMMA FailKeeps ==
    ASSUME IInv, NEW r \in Requests, Fail(r)
    PROVE  IInv'
<1> DEFINE q == [req[r] EXCEPT !.pc = "undo", !.pending = "none"]
<1>1. /\ req[r] \in Request /\ RequestSound(req[r]) /\ Together(req[r])
      /\ broken \in BOOLEAN
  BY RequestIsSound
<1>2. CASE req[r].created
  <2>1. req' = [req EXCEPT ![r] = q]
    BY <1>2, RequestIsSound DEF Fail
  <2>2. q \in Request
    BY <1>1 DEF Request, Steps, Pending
  <2>3. /\ q.pc = "undo" /\ q.pending = "none"
        /\ q.op = req[r].op /\ q.user = req[r].user /\ q.doc = req[r].doc
        /\ q.session = req[r].session /\ q.created = req[r].created
        /\ q.text = req[r].text /\ q.rows = req[r].rows
    BY <1>1 DEF Request
  <2>4. req[r].pc \in Waits
    BY DEF Fail
  <2> HIDE DEF q
  <2>5. RequestSound(q)
    BY <1>1, <1>2, <2>3, <2>4 DEF RequestSound, Waits
  <2>6. Together(q) /\ Excused(r, q)
    BY <1>1, <2>3 DEF Together, Excused
  <2>7. QED
    BY <1>1, <2>1, <2>2, <2>3, <2>5, <2>6, OneGoesOn DEF Fail
<1>3. CASE ~req[r].created
  BY <1>1, <1>3, ReturnKeeps DEF Fail, Excused
<1>4. QED
  BY <1>2, <1>3

-----------------------------------------------------------------------------
(* Deletions.                                                              *)

\* A deletion reads a question together with its answer.
LEMMA LoadedTogether ==
    ASSUME IInv, NEW targets
    PROVE  /\ Loaded(targets) \in SUBSET (1 .. 2 * MaxQuestions)
           /\ \A k \in Questions : 2 * k - 1 \in Loaded(targets)
                                       <=> 2 * k \in Loaded(targets)
<1>0. /\ \A m \in messages : m.id \in 1 .. 2 * MaxQuestions
      /\ Exchanged
  BY DEF IInv, TablesTyped, Message
<1>1. \A m \in messages : m.session \in targets => m.id \in Loaded(targets)
  BY DEF Loaded
<1>2. \A i \in Loaded(targets) : \E m \in messages : m.session \in targets /\ m.id = i
  BY DEF Loaded
<1>3. Loaded(targets) \in SUBSET (1 .. 2 * MaxQuestions)
  BY <1>0, <1>2
<1>4. ASSUME NEW k \in Questions, 2 * k - 1 \in Loaded(targets)
      PROVE  2 * k \in Loaded(targets)
  <2>0. k \in Int
    BY DEF Questions
  <2>1. PICK m \in messages : m.session \in targets /\ m.id = 2 * k - 1
    BY <1>2, <1>4
  <2>2. ~IsAnswer(m)
    BY <2>0, <2>1 DEF IsAnswer, Questions
  <2>3. PICK n \in messages : Answers(n, m)
    BY <1>0, <2>2 DEF Exchanged
  <2>4. n.id = 2 * k /\ n.session \in targets
    BY <2>0, <2>1, <2>3 DEF Answers
  <2>5. QED
    BY <1>1, <2>4
<1>5. ASSUME NEW k \in Questions, 2 * k \in Loaded(targets)
      PROVE  2 * k - 1 \in Loaded(targets)
  <2>0. k \in Int
    BY DEF Questions
  <2>1. PICK m \in messages : m.session \in targets /\ m.id = 2 * k
    BY <1>2, <1>5
  <2>2. ~IsQuestion(m)
    BY <2>0, <2>1 DEF IsQuestion, Questions
  <2>3. PICK n \in messages : Answers(m, n)
    BY <1>0, <2>2 DEF Exchanged
  <2>4. n.id = 2 * k - 1 /\ n.session \in targets
    <3>1. 2 * k = n.id + 1 /\ n.session = m.session
      BY <2>1, <2>3 DEF Answers
    <3>2. n.id \in Int
      BY <1>0
    <3>3. QED
      BY <2>0, <2>1, <3>1, <3>2
  <2>5. QED
    BY <1>1, <2>4
<1>6. QED
  BY <1>3, <1>4, <1>5

\* A deletion has read what it will delete.
LEMMA DeletingKeeps ==
    ASSUME IInv, NEW r \in Requests, NEW op \in Ops, NEW u \in Users \cup {NoUser},
           NEW targets \in SUBSET Ids,
           Deleting(r, op, u, targets),
           req[r].pc \in {"idle", "undo"},
           op # "open", op = "deleteUser" => u \in Users,
           req[r].created => op = "chat" /\ targets = {req[r].session},
           UNCHANGED <<users, sessions, messages, sync, now, asked, broken>>
    PROVE  IInv'
<1> DEFINE q == [req[r] EXCEPT !.op = op, !.user = u, !.pc = "deleting",
                               !.targets = targets, !.rows = Loaded(targets)]
<1>1. /\ req \in [Requests -> Request] /\ req[r] \in Request
      /\ RequestSound(req[r]) /\ broken \in BOOLEAN
  BY RequestIsSound
<1>2. req' = [req EXCEPT ![r] = q]
  BY DEF Deleting
<1>3. Loaded(targets) \in SUBSET (1 .. 2 * MaxQuestions)
  BY LoadedTogether
<1>4. q \in Request
  BY <1>1, <1>3 DEF Request, Steps
<1>5. /\ q.op = op /\ q.user = u /\ q.pc = "deleting" /\ q.targets = targets
      /\ q.rows = Loaded(targets) /\ q.pending = req[r].pending
      /\ q.session = req[r].session /\ q.created = req[r].created
      /\ q.text = req[r].text
  BY <1>1 DEF Request
<1> HIDE DEF q
<1>6. req[r].pending = "none"
  BY <1>1 DEF RequestSound
<1>7. RequestSound(q)
  BY <1>5, <1>6 DEF RequestSound, Waits
<1>8. Together(q) /\ Excused(r, q)
  BY <1>5, LoadedTogether DEF Together, Excused
<1>9. QED
  BY <1>1, <1>2, <1>4, <1>5, <1>7, <1>8, OneGoesOn

LEMMA DeletionBegins ==
    ASSUME IInv, NEW r \in Requests, NEW u \in Users,
           DeleteSessions(r, u) \/ DeleteUser(r, u)
    PROVE  IInv'
<1>1. req[r].pc = "idle" => ~req[r].created
  BY RequestIsSound DEF RequestSound, Idle
<1>2. \A row \in sessions : row.id \in Ids
  BY DEF IInv, TablesTyped, Session
<1>3. CASE DeleteSessions(r, u)
  <2>1. PICK targets \in SUBSET {row.id : row \in {x \in sessions : x.owner = u}} :
           Deleting(r, "deleteSessions", u, targets)
    BY <1>3 DEF DeleteSessions
  <2>2. targets \in SUBSET Ids
    BY <1>2
  <2>3. QED
    BY <1>1, <1>3, <2>1, <2>2, DeletingKeeps DEF DeleteSessions, Ops
<1>4. CASE DeleteUser(r, u)
  <2> DEFINE targets == {row.id : row \in {x \in sessions : x.owner = u}}
  <2>1. Deleting(r, "deleteUser", u, targets)
    BY <1>4 DEF DeleteUser
  <2>2. targets \in SUBSET Ids
    BY <1>2
  <2> HIDE DEF targets
  <2>3. QED
    BY <1>1, <1>4, <2>1, <2>2, DeletingKeeps DEF DeleteUser, Ops
<1>5. QED
  BY <1>3, <1>4

LEMMA UndoKeeps ==
    ASSUME IInv, NEW r \in Requests, Undo(r) \/ UndoGone(r)
    PROVE  IInv'
<1>1. req[r] \in Request /\ RequestSound(req[r]) /\ broken \in BOOLEAN
  BY RequestIsSound
<1>2. CASE Undo(r)
  <2>1. /\ req[r].session \in Ids /\ req[r].op # "open" /\ req[r].op # "deleteUser"
        /\ req[r].created => req[r].op = "chat"
    BY <1>1, <1>2 DEF Undo, RequestSound
  <2>2. req[r].op \in Ops
    BY <1>1, <1>2 DEF Undo, RequestSound, Ops
  <2>3. req[r].user \in Users \cup {NoUser} /\ {req[r].session} \in SUBSET Ids
    BY <1>1, <2>1 DEF Request
  <2>4. QED
    BY <1>2, <2>1, <2>2, <2>3, DeletingKeeps DEF Undo
<1>3. CASE UndoGone(r)
  BY <1>1, <1>3, ReturnKeeps DEF UndoGone, Excused
<1>4. QED
  BY <1>2, <1>3

\* A deletion is refused because of rows that it does not know; a conversation
\* that it created and that has no rows would not be one of them.
LEMMA RefuseKeeps ==
    ASSUME IInv, NEW r \in Requests, RefuseDelete(r)
    PROVE  IInv'
<1>1. RequestSound(req[r]) /\ broken \in BOOLEAN
  BY RequestIsSound
<1>2. Excused(r, Idle)
  <2> SUFFICES ASSUME req[r].created, MessagesOf(req[r].session) = {}
               PROVE  FALSE
    BY DEF Excused
  <2>1. req[r].targets = {req[r].session} /\ req[r].op = "chat"
    BY <1>1 DEF RefuseDelete, RequestSound
  <2>2. \A m \in messages : m.session # req[r].session
    BY DEF MessagesOf
  <2>3. \A m \in MessagesLeft(r) : m.session \notin req[r].targets
    BY <2>1, <2>2 DEF MessagesLeft
  <2>4. UsersLeft(r) = users
    BY <2>1 DEF UsersLeft
  <2>5. \A s \in SessionsLeft(r) : s.owner \in users
    BY DEF SessionsLeft, IInv, NothingStranded, NoOrphanRows
  <2>6. QED
    BY <2>3, <2>4, <2>5 DEF RefuseDelete, Deletable
<1>3. QED
  BY <1>1, <1>2, ReturnKeeps DEF RefuseDelete

LEMMA AbortKeeps ==
    ASSUME IInv, NEW r \in Requests, AbortDelete(r)
    PROVE  IInv'
BY ReturnKeeps DEF AbortDelete

-----------------------------------------------------------------------------
(* Steps that write.                                                       *)

\* The rows of a deletion, the conversation and all its messages, go; what it
\* deletes by mistake is noted.
LEMMA CommitKeeps ==
    ASSUME IInv, NEW r \in Requests, CommitDelete(r)
    PROVE  IInv'
<1>0. /\ TablesTyped /\ RequestsSound /\ TextsApart /\ Exchanged
      /\ RowsTogether /\ RoomLeft /\ NoOrphanRows /\ NoneLeftEmpty
  BY DEF IInv, NothingStranded
<1>1. /\ sessions' = SessionsLeft(r) /\ messages' = MessagesLeft(r)
      /\ users' = UsersLeft(r) /\ broken' = (broken \/ Misses(r))
      /\ req' = [req EXCEPT ![r] = Idle]
      /\ sync' = sync /\ now' = now /\ asked' = asked
      /\ req[r].pc = "deleting" /\ Deletable(r)
  BY DEF CommitDelete, Return
<1>2. /\ req \in [Requests -> Request] /\ RequestSound(req[r])
      /\ Together(req[r]) /\ broken \in BOOLEAN
  BY RequestIsSound
<1>3. \A p \in Requests : req'[p] = IF p = r THEN Idle ELSE req[p]
  BY <1>1, <1>2
<1>4. SessionsLeft(r) \subseteq sessions /\ MessagesLeft(r) \subseteq messages
      /\ UsersLeft(r) \subseteq users
  BY DEF SessionsLeft, MessagesLeft, UsersLeft
<1>5. TablesTyped'
  <2>1. req' \in [Requests -> Request]
    BY <1>1, <1>2, IdleIsSound
  <2>2. broken' \in BOOLEAN
    BY <1>1, <1>2 DEF Misses
  <2>3. QED
    BY <1>0, <1>1, <1>4, <2>1, <2>2 DEF TablesTyped
<1>6. RequestsSound'
  BY <1>0, <1>3, IdleIsSound DEF RequestsSound
<1>7. TextsApart'
  <2>1. \A p \in Requests : req'[p].text = req[p].text \/ req'[p].text = 0
    BY <1>3 DEF Idle
  <2>2. 0 <= asked
    BY <1>0, QnABounds DEF TablesTyped
  <2>3. QED
    BY <1>0, <1>1, <2>1, <2>2 DEF TextsApart
<1>8. Exchanged'
  <2>1. \A m \in messages : m \in MessagesLeft(r) <=> m.id \notin req[r].rows
    BY DEF MessagesLeft
  <2>2. ASSUME NEW m \in messages, NEW n \in messages, IsQuestion(m), Answers(n, m)
        PROVE  m.id \in req[r].rows <=> n.id \in req[r].rows
    <3>1. PICK k \in Questions : m.id = 2 * k - 1
      BY <2>2 DEF IsQuestion
    <3>2. n.id = 2 * k
      BY <2>2, <3>1 DEF Answers, Questions
    <3>3. QED
      BY <1>2, <3>1, <3>2 DEF Together
  <2>3. ASSUME NEW m \in MessagesLeft(r)
        PROVE  \/ IsQuestion(m) /\ \E n \in MessagesLeft(r) : Answers(n, m)
               \/ IsAnswer(m) /\ \E n \in MessagesLeft(r) : IsQuestion(n) /\ Answers(m, n)
    <3>1. m \in messages
      BY <1>4
    <3>2. CASE IsQuestion(m) /\ \E n \in messages : Answers(n, m)
      BY <2>1, <2>2, <3>1, <3>2
    <3>3. CASE IsAnswer(m) /\ \E n \in messages : IsQuestion(n) /\ Answers(m, n)
      BY <2>1, <2>2, <3>1, <3>3
    <3>4. QED
      BY <1>0, <3>1, <3>2, <3>3 DEF Exchanged
  <2>4. QED
    BY <1>1, <2>3 DEF Exchanged, IsQuestion, IsAnswer, Answers
<1>9. RowsTogether'
  <2>1. \A p \in Requests : Together(req[p])
    BY <1>0 DEF RowsTogether, Together
  <2>2. \A p \in Requests : Together(req'[p])
    BY <1>3, <2>1, IdleIsSound
  <2>3. QED
    BY <2>2 DEF RowsTogether, Together
<1>10. RoomLeft'
  <2>1. InFlight' \subseteq InFlight
    BY <1>3 DEF InFlight, Idle
  <2>2. \A m \in MessagesLeft(r) : m.id <= 2 * (asked - Cardinality(InFlight'))
    BY <1>0, <1>4, <2>1, RoomGrows
  <2>3. QED
    BY <1>1, <2>2 DEF RoomLeft
<1>11. NoOrphanRows'
  <2>1. \A m \in MessagesLeft(r) : \E row \in SessionsLeft(r) : row.id = m.session
    BY <1>0, <1>1, <1>4 DEF Deletable, NoOrphanRows, Exists, SessionsLeft
  <2>2. \A s \in SessionsLeft(r) : s.owner \in UsersLeft(r)
    BY <1>1 DEF Deletable
  <2>3. QED
    BY <1>1, <2>1, <2>2 DEF NoOrphanRows, Exists
<1>12. NoneLeftEmpty'
  <2> SUFFICES ASSUME ~broken', NEW s \in SessionsLeft(r), s.doc # NoDoc,
                      \A m \in MessagesLeft(r) : m.session # s.id
               PROVE  \E p \in Requests : req'[p].created /\ req'[p].session = s.id
    BY <1>1 DEF NoneLeftEmpty, MessagesOf
  <2>1. ~broken /\ \A m \in messages : m.id \in req[r].rows =>
                       m.session \in req[r].targets
    BY <1>1 DEF Misses
  <2>2. s \in sessions /\ s.id \notin req[r].targets
    BY DEF SessionsLeft
  <2>3. MessagesOf(s.id) = {}
    BY <2>1, <2>2 DEF MessagesOf, MessagesLeft
  <2>4. PICK p \in Requests : req[p].created /\ req[p].session = s.id
    BY <1>0, <2>1, <2>2, <2>3 DEF NoneLeftEmpty
  <2>5. p # r
    BY <1>1, <1>2, <2>2, <2>4 DEF RequestSound
  <2>6. QED
    BY <1>3, <2>4, <2>5
<1>13. QED
  BY <1>5, <1>6, <1>7, <1>8, <1>9, <1>10, <1>11, <1>12 DEF IInv, NothingStranded

-----------------------------------------------------------------------------
(* Questions that arrive, and their rows.                                  *)

\* A question arrives with a text of its own.
LEMMA ArrivesKeeps ==
    ASSUME IInv, NEW r \in Requests, NEW u \in Users, Arrives(r, u),
           NEW q \in Request, req' = [req EXCEPT ![r] = q],
           RequestSound(q), Together(q), q.text = asked + 1
    PROVE  IInv'
<1>0. /\ TablesTyped /\ RequestsSound /\ TextsApart /\ Exchanged
      /\ RowsTogether /\ RoomLeft /\ NoOrphanRows /\ NoneLeftEmpty
  BY DEF IInv, NothingStranded
<1>1. /\ users' = users /\ sessions' = sessions /\ messages' = messages
      /\ sync' = sync /\ now' = now /\ broken' = broken
      /\ asked' = asked + 1 /\ asked < MaxQuestions /\ req[r].pc = "idle"
  BY DEF Arrives
<1>2. /\ req \in [Requests -> Request] /\ req[r] = Idle
  BY <1>1, RequestIsSound DEF RequestSound
<1>3. \A p \in Requests : req'[p] = IF p = r THEN q ELSE req[p]
  BY <1>2
<1>4. asked \in Nat
  BY <1>0, QnABounds DEF TablesTyped
<1>5. TablesTyped'
  <2>1. req' \in [Requests -> Request]
    BY <1>2
  <2>2. asked' \in 0 .. MaxQuestions
    BY <1>1, <1>4, QnABounds
  <2>3. QED
    BY <1>0, <1>1, <2>1, <2>2 DEF TablesTyped
<1>6. RequestsSound'
  BY <1>0, <1>3 DEF RequestsSound
<1>7. TextsApart'
  <2>1. \A p \in Requests : req[p].text \in Nat /\ req[p].text <= asked
    BY <1>0, RequestIsSound DEF TextsApart
  <2>2. \A p \in Requests : p # r => req'[p].text = req[p].text
    BY <1>3
  <2>3. req'[r].text = asked + 1
    BY <1>3
  <2>4. \A p \in Requests : req'[p].text <= asked + 1
    BY <1>4, <2>1, <2>2, <2>3
  <2>5. ASSUME NEW a \in Requests, NEW b \in Requests,
               req'[a].text = req'[b].text, req'[a].text # 0
        PROVE  a = b
    <3>1. CASE a = r
      BY <1>4, <2>1, <2>2, <2>3, <2>5, <3>1
    <3>2. CASE b = r
      BY <1>4, <2>1, <2>2, <2>3, <2>5, <3>2
    <3>3. CASE a # r /\ b # r
      BY <1>0, <2>2, <2>5, <3>3 DEF TextsApart
    <3>4. QED
      BY <3>1, <3>2, <3>3
  <2>6. QED
    BY <1>1, <2>4, <2>5 DEF TextsApart
<1>8. Exchanged'
  BY <1>0, <1>1 DEF Exchanged, IsQuestion, IsAnswer, Answers
<1>9. RowsTogether'
  <2>1. \A p \in Requests : Together(req[p])
    BY <1>0 DEF RowsTogether, Together
  <2>2. \A p \in Requests : Together(req'[p])
    BY <1>3, <2>1
  <2>3. QED
    BY <2>2 DEF RowsTogether, Together
<1>10. RoomLeft'
  <2>1. /\ IsFiniteSet(InFlight) /\ asked + 1 \notin InFlight
        /\ Cardinality(InFlight) \in Int
    BY <1>0, <1>4, InFlightIsFinite
  <2>2. InFlight' = InFlight \cup {asked + 1}
    <3>1. req[r].text = 0
      BY <1>2 DEF Idle
    <3>2. \A p \in Requests : req'[p].text =
             IF p = r THEN asked + 1 ELSE req[p].text
      BY <1>3
    <3>3. asked + 1 # 0
      BY <1>4
    <3>4. QED
      BY <3>1, <3>2, <3>3 DEF InFlight
  <2>3. Cardinality(InFlight') = Cardinality(InFlight) + 1
    BY <2>1, <2>2, FS_AddElement
  <2>4. \A m \in messages : m.id \in Int /\ m.id <= 2 * (asked - Cardinality(InFlight))
    BY <1>0 DEF RoomLeft, TablesTyped, Message
  <2>5. 2 * (asked' - Cardinality(InFlight')) = 2 * (asked - Cardinality(InFlight))
    BY <1>1, <1>4, <2>1, <2>3
  <2>6. QED
    BY <1>1, <2>4, <2>5 DEF RoomLeft
<1>11. NoOrphanRows'
  BY <1>0, <1>1 DEF NoOrphanRows, Exists
<1>12. NoneLeftEmpty'
  <2>1. ~req[r].created
    BY <1>2 DEF Idle
  <2> SUFFICES ASSUME ~broken, NEW s \in sessions, MessagesOf(s.id) = {}, s.doc # NoDoc
               PROVE  \E p \in Requests : req'[p].created /\ req'[p].session = s.id
    BY <1>1 DEF NoneLeftEmpty, MessagesOf
  <2>2. PICK p \in Requests : req[p].created /\ req[p].session = s.id
    BY <1>0 DEF NoneLeftEmpty
  <2>3. QED
    BY <1>3, <2>1, <2>2
<1>13. QED
  BY <1>5, <1>6, <1>7, <1>8, <1>9, <1>10, <1>11, <1>12 DEF IInv, NothingStranded

LEMMA QuestionArrives ==
    ASSUME IInv, NEW r \in Requests, NEW u \in Users,
           \/ \E d \in Docs : Chat(r, u, d)
           \/ \E s \in Ids : AskIn(r, u, s)
           \/ Open(r, u)
    PROVE  IInv'
<1> DEFINE q(op, d, step, s) ==
             [Idle EXCEPT !.op = op, !.user = u, !.text = asked + 1,
                          !.doc = d, !.pc = step, !.session = s]
<1>1. Arrives(r, u)
  BY DEF Chat, AskIn, Open
<1>2. asked + 1 \in Questions /\ asked + 1 # 0
  BY <1>1, QnABounds DEF Arrives, Questions, IInv, TablesTyped
<1>3. ASSUME NEW op \in {"chat", "ask", "open"}, NEW d \in Docs \cup {NoDoc},
             NEW step \in {"create", "found"}, NEW s \in Ids \cup {0},
             step = "found" => s \in Ids,
             op = "open" => step = "create" /\ d = NoDoc,
             op = "ask" => step = "found",
             req' = [req EXCEPT ![r] = q(op, d, step, s)]
      PROVE  IInv'
  <2> DEFINE new == q(op, d, step, s)
  <2>1. Idle \in Request /\ Idle.pending = "none" /\ Idle.created = FALSE
        /\ Idle.rows = {}
    BY IdleIsSound DEF Idle
  <2>2. new \in Request
    <3> DEFINE fresh == [Idle EXCEPT !.op = op, !.user = u, !.text = asked + 1]
    <3>1. fresh \in Request
      BY <1>2, <2>1 DEF Request, Ops
    <3>2. new = [fresh EXCEPT !.doc = d, !.pc = step, !.session = s]
      BY <2>1 DEF Request
    <3> HIDE DEF fresh, new
    <3>3. QED
      BY <3>1, <3>2 DEF Request, Steps
  <2>3. /\ new.op = op /\ new.user = u /\ new.text = asked + 1 /\ new.doc = d
        /\ new.pc = step /\ new.session = s /\ new.pending = "none"
        /\ new.created = FALSE /\ new.rows = {}
    BY <2>1 DEF Request
  <2>4. req' = [req EXCEPT ![r] = new]
    BY <1>3
  <2> HIDE DEF new
  <2>5. RequestSound(new)
    BY <1>2, <1>3, <2>3 DEF RequestSound, Waits
  <2>6. Together(new)
    BY <2>3 DEF Together
  <2>7. QED
    BY <1>1, <2>2, <2>3, <2>4, <2>5, <2>6, ArrivesKeeps
<1>4. Idle.session = 0 /\ Idle.doc = NoDoc /\ Idle \in Request
  BY IdleIsSound DEF Idle
<1>5. ASSUME NEW d \in Docs, Chat(r, u, d)
      PROVE  IInv'
  <2>1. CASE Of(u, d) = {}
    <3>1. req' = [req EXCEPT ![r] = q("chat", d, "create", 0)]
      BY <1>4, <1>5, <2>1 DEF Chat, Fresh, Request
    <3>2. QED
      BY <1>3, <3>1
  <2>2. CASE Of(u, d) # {}
    <3>1. PICK row \in Newest(u, d) :
             req' = [req EXCEPT ![r] = [Fresh("chat", u) EXCEPT
                        !.doc = d, !.pc = "found", !.session = row.id]]
      BY <1>5, <2>2 DEF Chat
    <3>2. row.id \in Ids
      BY DEF Newest, Of, IInv, TablesTyped, Session
    <3>3. req' = [req EXCEPT ![r] = q("chat", d, "found", row.id)]
      BY <1>4, <3>1 DEF Fresh, Request
    <3>4. QED
      BY <1>3, <3>2, <3>3
  <2>3. QED
    BY <2>1, <2>2
<1>6. ASSUME NEW s \in Ids, AskIn(r, u, s)
      PROVE  IInv'
  <2>1. req' = [req EXCEPT ![r] = q("ask", NoDoc, "found", s)]
    BY <1>4, <1>6 DEF AskIn, Fresh, Request
  <2>2. QED
    BY <1>3, <2>1
<1>7. CASE Open(r, u)
  <2>1. req' = [req EXCEPT ![r] = q("open", NoDoc, "create", 0)]
    BY <1>4, <1>7 DEF Open, Fresh, Request
  <2>2. QED
    BY <1>3, <2>1
<1>8. QED
  BY <1>5, <1>6, <1>7

\* A conversation is created with an id of its own, by a request that from now
\* on is the reason that it is empty.
LEMMA CreateKeeps ==
    ASSUME IInv, NEW r \in Requests, Create(r)
    PROVE  IInv'
<1> DEFINE s == NextId(sessions)
           row == [id |-> s, owner |-> req[r].user, doc |-> req[r].doc,
                   updated |-> now]
           found == [req[r] EXCEPT !.pc = "found", !.session = s, !.created = TRUE]
           q == IF req[r].op = "open" THEN Idle ELSE found
<1>0. /\ TablesTyped /\ RequestsSound /\ TextsApart /\ Exchanged
      /\ RowsTogether /\ RoomLeft /\ NoOrphanRows /\ NoneLeftEmpty
  BY DEF IInv, NothingStranded
<1>1. /\ users' = users /\ messages' = messages /\ sync' = sync /\ now' = now
      /\ asked' = asked /\ broken' = broken
      /\ s \in Ids /\ sessions' = sessions \cup {row}
      /\ req[r].pc = "create" /\ req[r].user \in users
      /\ req' = [req EXCEPT ![r] = q]
  BY DEF Create
<1>2. /\ req \in [Requests -> Request] /\ req[r] \in Request
      /\ RequestSound(req[r]) /\ Together(req[r])
  BY RequestIsSound
<1>3. \A x \in sessions : x.id # s
  <2>1. \A x \in sessions : x.id \in 1 .. MaxSessions
    BY <1>0 DEF TablesTyped, Session, Ids
  <2>2. \A x \in sessions : x.id < s
    BY <2>1, QnABounds, NextIdIsNew
  <2>3. QED
    BY <1>1, <2>1, <2>2 DEF Ids
<1>4. /\ row \in Session /\ row.id = s /\ row.owner = req[r].user
      /\ row.doc = req[r].doc
  BY <1>0, <1>1, <1>2 DEF TablesTyped, Session, Request
<1>5. /\ found \in Request
      /\ found.pc = "found" /\ found.session = s /\ found.created = TRUE
      /\ found.op = req[r].op /\ found.user = req[r].user /\ found.doc = req[r].doc
      /\ found.pending = req[r].pending /\ found.text = req[r].text
      /\ found.rows = req[r].rows
  BY <1>1, <1>2 DEF Request, Steps
<1> HIDE DEF row, found, s
<1>6. RequestSound(q) /\ Together(q) /\ q \in Request /\ q.text \in {0, req[r].text}
  <2>1. CASE req[r].op = "open"
    BY <2>1, IdleIsSound DEF Idle
  <2>2. CASE req[r].op # "open"
    <3>1. RequestSound(found)
      <4>1. /\ req[r].op # "deleteUser" /\ req[r].user \in Users
            /\ req[r].text # 0 /\ req[r].op \in {"chat", "ask", "open"}
            /\ req[r].pending = "none"
        BY <1>1, <1>2 DEF RequestSound, Waits
      <4>2. req[r].op = "chat"
        BY <1>1, <1>2, <2>2, <4>1 DEF RequestSound
      <4>3. QED
        BY <1>1, <1>5, <2>2, <4>1, <4>2 DEF RequestSound, Waits
    <3>2. Together(found)
      BY <1>2, <1>5 DEF Together
    <3>3. QED
      BY <1>5, <2>2, <3>1, <3>2
  <2>3. QED
    BY <2>1, <2>2
<1> HIDE DEF q
<1>7. \A p \in Requests : req'[p] = IF p = r THEN q ELSE req[p]
  BY <1>1, <1>2
<1>8. TablesTyped'
  <2>1. req' \in [Requests -> Request]
    BY <1>1, <1>2, <1>6
  <2>2. sessions' \subseteq Session
    BY <1>0, <1>1, <1>4 DEF TablesTyped
  <2>3. \A a, b \in sessions' : a.id = b.id => a = b
    BY <1>0, <1>1, <1>3, <1>4 DEF TablesTyped
  <2>4. QED
    BY <1>0, <1>1, <2>1, <2>2, <2>3 DEF TablesTyped
<1>9. RequestsSound'
  BY <1>0, <1>6, <1>7 DEF RequestsSound
<1>10. TextsApart'
  <2>1. \A p \in Requests : req'[p].text = req[p].text \/ req'[p].text = 0
    BY <1>6, <1>7
  <2>2. 0 <= asked
    BY <1>0, QnABounds DEF TablesTyped
  <2>3. QED
    BY <1>0, <1>1, <2>1, <2>2 DEF TextsApart
<1>11. Exchanged'
  BY <1>0, <1>1 DEF Exchanged, IsQuestion, IsAnswer, Answers
<1>12. RowsTogether'
  <2>1. \A p \in Requests : Together(req[p])
    BY <1>0 DEF RowsTogether, Together
  <2>2. \A p \in Requests : Together(req'[p])
    BY <1>6, <1>7, <2>1
  <2>3. QED
    BY <2>2 DEF RowsTogether, Together
<1>13. RoomLeft'
  <2>1. InFlight' \subseteq InFlight
    BY <1>6, <1>7 DEF InFlight
  <2>2. QED
    BY <1>0, <1>1, <2>1, RoomGrows DEF RoomLeft
<1>14. NoOrphanRows'
  BY <1>0, <1>1, <1>4 DEF NoOrphanRows, Exists
<1>15. NoneLeftEmpty'
  <2> SUFFICES ASSUME ~broken, NEW x \in sessions \cup {row},
                      MessagesOf(x.id) = {}, x.doc # NoDoc
               PROVE  \E p \in Requests : req'[p].created /\ req'[p].session = x.id
    BY <1>1 DEF NoneLeftEmpty, MessagesOf
  <2>1. CASE x \in sessions
    <3>1. PICK p \in Requests : req[p].created /\ req[p].session = x.id
      BY <1>0, <2>1 DEF NoneLeftEmpty
    <3>2. p # r
      BY <1>1, <1>2, <3>1 DEF RequestSound
    <3>3. QED
      BY <1>7, <3>1, <3>2
  <2>2. CASE x = row
    <3>1. req[r].op # "open"
      BY <1>2, <1>4, <2>2 DEF RequestSound
    <3>2. q.created = TRUE /\ q.session = x.id
      BY <1>4, <1>5, <2>2, <3>1 DEF q
    <3>3. QED
      BY <1>7, <3>2
  <2>3. QED
    BY <2>1, <2>2
<1>16. QED
  BY <1>8, <1>9, <1>10, <1>11, <1>12, <1>13, <1>14, <1>15 DEF IInv, NothingStranded

\* A question and its answer are stored under the next two ids.
LEMMA SaveKeeps ==
    ASSUME IInv, NEW r \in Requests, Save(r)
    PROVE  IInv'
<1> DEFINE next == NextId(messages)
           asks == [id |-> next, session |-> req[r].session, role |-> "user",
                    text |-> req[r].text, author |-> req[r].user]
           tells == [id |-> next + 1, session |-> req[r].session,
                     role |-> "assistant", text |-> req[r].text,
                     author |-> req[r].user]
<1>0. /\ TablesTyped /\ RequestsSound /\ TextsApart /\ Exchanged
      /\ RowsTogether /\ RoomLeft /\ NoOrphanRows /\ NoneLeftEmpty
  BY DEF IInv, NothingStranded
<1>1. /\ users' = users /\ sessions' = sessions /\ now' = now
      /\ asked' = asked /\ broken' = broken
      /\ messages' = messages \cup {asks, tells}
      /\ req[r].pc = "asking" /\ Exists(req[r].session)
      /\ req' = [req EXCEPT ![r] = Idle]
      /\ sync' = IF req[r].pending = "mark" THEN "needs_resync" ELSE sync
  BY DEF Save, Return, Storable
<1>2. /\ req \in [Requests -> Request] /\ req[r] \in Request
      /\ RequestSound(req[r])
  BY RequestIsSound
<1>3. /\ req[r].text \in Questions /\ req[r].text # 0 /\ req[r].user \in Users
      /\ req[r].session \in Ids
  BY <1>1, <1>2 DEF RequestSound, Request, Waits
<1>4. \A p \in Requests : req'[p] = IF p = r THEN Idle ELSE req[p]
  BY <1>1, <1>2
<1>5. asked \in 0 .. MaxQuestions /\ MaxQuestions \in Nat
  BY <1>0, QnABounds DEF TablesTyped
<1>6. /\ IsFiniteSet(InFlight) /\ Cardinality(InFlight) \in 1 .. asked
      /\ InFlight' = InFlight \ {req[r].text}
      /\ Cardinality(InFlight') = Cardinality(InFlight) - 1
  <2>1. IsFiniteSet(InFlight) /\ Cardinality(InFlight) \in 0 .. asked
    BY <1>0, InFlightIsFinite
  <2>2. req[r].text \in InFlight
    BY <1>3 DEF InFlight
  <2>3. Cardinality(InFlight) # 0
    BY <2>1, <2>2, FS_EmptySet
  <2>4. InFlight' = InFlight \ {req[r].text}
    <3>1. \A p \in Requests : p # r => req[p].text # req[r].text
      BY <1>0, <1>3 DEF TextsApart
    <3>2. \A p \in Requests : req'[p].text = IF p = r THEN 0 ELSE req[p].text
      BY <1>4 DEF Idle
    <3>3. QED
      BY <1>3, <3>1, <3>2 DEF InFlight
  <2>5. Cardinality(InFlight') = Cardinality(InFlight) - 1
    BY <2>1, <2>2, <2>4, FS_RemoveElement
  <2>6. QED
    BY <1>5, <2>1, <2>3, <2>4, <2>5
<1>7. \A m \in messages : m.id \in 1 .. 2 * MaxQuestions /\ m.id < next
  <2>1. \A m \in messages : m.id \in 1 .. 2 * MaxQuestions
    BY <1>0 DEF TablesTyped, Message
  <2>2. 2 * MaxQuestions \in Nat
    BY <1>5
  <2>3. \A m \in messages : m.id < next
    BY <2>1, <2>2, NextIdIsNew
  <2>4. QED
    BY <2>1, <2>3
<1>8. PICK k \in Nat : next = 2 * k + 1 /\ 2 * k <= 2 * (asked - Cardinality(InFlight))
  <2>1. CASE messages = {}
    <3>1. next = 1
      BY <2>1 DEF NextId
    <3>2. 0 <= 2 * (asked - Cardinality(InFlight))
      BY <1>5, <1>6
    <3>3. QED
      BY <3>1, <3>2
  <2>2. CASE messages # {}
    <3>1. 2 * MaxQuestions \in Nat
      BY <1>5
    <3>2. PICK m \in messages : next = m.id + 1
      BY <1>7, <2>2, <3>1, NextIdIsNew
    <3>3. IsAnswer(m)
      <4>1. CASE \E n \in messages : Answers(n, m)
        <5>1. PICK n \in messages : n.id = next
          BY <3>2, <4>1 DEF Answers
        <5>2. n.id < next /\ n.id \in Int
          BY <1>7
        <5>3. QED
          BY <5>1, <5>2
      <4>2. QED
        BY <1>0, <4>1 DEF Exchanged
    <3>4. PICK k \in Questions : m.id = 2 * k
      BY <3>3 DEF IsAnswer
    <3>5. m.id <= 2 * (asked - Cardinality(InFlight))
      BY <1>0 DEF RoomLeft
    <3>6. QED
      BY <3>2, <3>4, <3>5 DEF Questions
  <2>3. QED
    BY <2>1, <2>2
<1> HIDE DEF next
<1>9. /\ k + 1 \in Questions /\ next = 2 * (k + 1) - 1 /\ next + 1 = 2 * (k + 1)
      /\ next \in 1 .. 2 * MaxQuestions /\ next + 1 \in 1 .. 2 * MaxQuestions
      /\ next \in Int
  BY <1>5, <1>6, <1>8 DEF Questions
<1>10. /\ asks \in Message /\ asks.id = next /\ asks.role = "user"
       /\ asks.session = req[r].session /\ asks.text = req[r].text
       /\ tells \in Message /\ tells.id = next + 1 /\ tells.role = "assistant"
       /\ tells.session = req[r].session /\ tells.text = req[r].text
  BY <1>3, <1>9 DEF Message
<1> HIDE DEF asks, tells
<1>11. TablesTyped'
  <2>1. req' \in [Requests -> Request]
    BY <1>1, <1>2, IdleIsSound
  <2>2. messages' \subseteq Message
    BY <1>0, <1>1, <1>10 DEF TablesTyped
  <2>3. \A a, b \in messages' : a.id = b.id => a = b
    <3>1. \A m \in messages : m.id # next /\ m.id # next + 1
      BY <1>7, <1>9
    <3>2. next # next + 1
      BY <1>9
    <3>3. QED
      BY <1>0, <1>1, <1>10, <3>1, <3>2 DEF TablesTyped
  <2>4. QED
    BY <1>0, <1>1, <2>1, <2>2, <2>3 DEF TablesTyped
<1>12. RequestsSound'
  BY <1>0, <1>4, IdleIsSound DEF RequestsSound
<1>13. TextsApart'
  <2>1. \A p \in Requests : req'[p].text = req[p].text \/ req'[p].text = 0
    BY <1>4 DEF Idle
  <2>2. QED
    BY <1>0, <1>1, <1>5, <2>1 DEF TextsApart
<1>14. Exchanged'
  <2>1. IsQuestion(asks) /\ Answers(tells, asks) /\ IsAnswer(tells)
    BY <1>9, <1>10 DEF IsQuestion, IsAnswer, Answers
  <2>2. ASSUME NEW m \in messages'
        PROVE  \/ IsQuestion(m) /\ \E n \in messages' : Answers(n, m)
               \/ IsAnswer(m) /\ \E n \in messages' : IsQuestion(n) /\ Answers(m, n)
    <3>1. CASE m \in messages
      BY <1>0, <1>1, <3>1 DEF Exchanged
    <3>2. CASE m = asks
      BY <1>1, <2>1, <3>2
    <3>3. CASE m = tells
      BY <1>1, <2>1, <3>3
    <3>4. QED
      BY <1>1, <3>1, <3>2, <3>3
  <2>3. QED
    BY <2>2 DEF Exchanged, IsQuestion, IsAnswer, Answers
<1>15. RowsTogether'
  <2>1. \A p \in Requests : Together(req[p])
    BY <1>0 DEF RowsTogether, Together
  <2>2. \A p \in Requests : Together(req'[p])
    BY <1>4, <2>1, IdleIsSound
  <2>3. QED
    BY <2>2 DEF RowsTogether, Together
<1>16. RoomLeft'
  <2>1. \A m \in messages : m.id \in Int /\ m.id <= 2 * (asked - Cardinality(InFlight))
    BY <1>0, <1>7 DEF RoomLeft
  <2>2. \A m \in messages : m.id <= 2 * (asked - (Cardinality(InFlight) - 1))
    BY <1>5, <1>6, <2>1
  <2>3. /\ next <= 2 * (asked - (Cardinality(InFlight) - 1))
        /\ next + 1 <= 2 * (asked - (Cardinality(InFlight) - 1))
    BY <1>5, <1>6, <1>8
  <2>4. \A m \in messages' : m.id <= 2 * (asked' - Cardinality(InFlight'))
    BY <1>1, <1>6, <1>10, <2>2, <2>3
  <2>5. QED
    BY <2>4 DEF RoomLeft
<1>17. NoOrphanRows'
  BY <1>0, <1>1, <1>10 DEF NoOrphanRows, Exists
<1>18. NoneLeftEmpty'
  <2> SUFFICES ASSUME ~broken, NEW s \in sessions, s.doc # NoDoc,
                      \A m \in messages' : m.session # s.id
               PROVE  \E p \in Requests : req'[p].created /\ req'[p].session = s.id
    BY <1>1 DEF NoneLeftEmpty, MessagesOf
  <2>1. MessagesOf(s.id) = {} /\ s.id # req[r].session
    BY <1>1, <1>10 DEF MessagesOf
  <2>2. PICK p \in Requests : req[p].created /\ req[p].session = s.id
    BY <1>0, <2>1 DEF NoneLeftEmpty
  <2>3. QED
    BY <1>4, <2>1, <2>2
<1>19. QED
  BY <1>11, <1>12, <1>13, <1>14, <1>15, <1>16, <1>17, <1>18 DEF IInv, NothingStranded

-----------------------------------------------------------------------------
(* The others, and the theorems.                                           *)

LEMMA SamePlaces ==
    ASSUME IInv, UNCHANGED <<users, sessions, messages, asked, req>>,
           sync' \in {"ok", "needs_resync"}, now' \in 0 .. MaxTime,
           broken' = broken
    PROVE  IInv'
<1>0. /\ TablesTyped /\ RequestsSound /\ TextsApart /\ Exchanged
      /\ RowsTogether /\ RoomLeft /\ NoOrphanRows /\ NoneLeftEmpty
  BY DEF IInv, NothingStranded
<1>1. TablesTyped'
  BY <1>0 DEF TablesTyped
<1>2. RequestsSound' /\ TextsApart' /\ RowsTogether'
  BY <1>0 DEF RequestsSound, TextsApart, RowsTogether
<1>3. Exchanged'
  BY <1>0 DEF Exchanged, IsQuestion, IsAnswer, Answers
<1>4. RoomLeft'
  BY <1>0 DEF RoomLeft, InFlight
<1>5. NoOrphanRows' /\ NoneLeftEmpty'
  BY <1>0 DEF NoOrphanRows, NoneLeftEmpty, Exists, MessagesOf
<1>6. QED
  BY <1>1, <1>2, <1>3, <1>4, <1>5 DEF IInv, NothingStranded

\* The server stops: no request is in flight any more.
LEMMA RestartKeeps ==
    ASSUME IInv, Restart
    PROVE  IInv'
<1>0. /\ TablesTyped /\ RequestsSound /\ TextsApart /\ Exchanged
      /\ RowsTogether /\ RoomLeft /\ NoOrphanRows /\ NoneLeftEmpty
  BY DEF IInv, NothingStranded
<1>1. /\ users' = users /\ sessions' = sessions /\ messages' = messages
      /\ sync' = sync /\ now' = now /\ asked' = asked
      /\ broken' = TRUE /\ req' = [r \in Requests |-> Idle]
  BY DEF Restart
<1>2. \A p \in Requests : req'[p] = Idle
  BY <1>1
<1>3. TablesTyped'
  BY <1>0, <1>1, IdleIsSound DEF TablesTyped
<1>4. RequestsSound'
  BY <1>2, IdleIsSound DEF RequestsSound
<1>5. TextsApart'
  <2>1. Idle.text = 0 /\ 0 <= asked
    BY <1>0, QnABounds DEF Idle, TablesTyped
  <2>2. QED
    BY <1>1, <1>2, <2>1 DEF TextsApart
<1>6. Exchanged'
  BY <1>0, <1>1 DEF Exchanged, IsQuestion, IsAnswer, Answers
<1>7. RowsTogether'
  BY <1>2, IdleIsSound DEF RowsTogether
<1>8. RoomLeft'
  <2>1. InFlight' \subseteq InFlight
    BY <1>2 DEF InFlight, Idle
  <2>2. QED
    BY <1>0, <1>1, <2>1, RoomGrows DEF RoomLeft
<1>9. NoOrphanRows' /\ NoneLeftEmpty'
  BY <1>0, <1>1 DEF NoOrphanRows, NoneLeftEmpty, Exists
<1>10. QED
  BY <1>3, <1>4, <1>5, <1>6, <1>7, <1>8, <1>9 DEF IInv, NothingStranded

LEMMA InitHolds == Init => IInv
<1> SUFFICES ASSUME Init
             PROVE  IInv
  OBVIOUS
<1>1. TablesTyped
  <2>1. req \in [Requests -> Request]
    BY IdleIsSound DEF Init
  <2>2. 0 \in 0 .. MaxTime /\ 0 \in 0 .. MaxQuestions
    BY QnABounds
  <2>3. QED
    BY <2>1, <2>2 DEF Init, TablesTyped
<1>2. RequestsSound
  BY IdleIsSound DEF Init, RequestsSound
<1>3. TextsApart
  BY DEF Init, TextsApart, Idle
<1>4. RowsTogether
  BY IdleIsSound DEF Init, RowsTogether
<1>5. Exchanged /\ RoomLeft /\ NothingStranded
  BY DEF Init, Exchanged, RoomLeft, NothingStranded, NoOrphanRows, NoneLeftEmpty
<1>6. QED
  BY <1>1, <1>2, <1>3, <1>4, <1>5 DEF IInv

LEMMA NextKeeps == IInv /\ [Next]_vars => IInv'
<1> SUFFICES ASSUME IInv, [Next]_vars
             PROVE  IInv'
  OBVIOUS
<1>0. /\ sync \in {"ok", "needs_resync"} /\ now \in 0 .. MaxTime
      /\ MaxTime \in Nat
  BY QnABounds DEF IInv, TablesTyped
<1>1. ASSUME NEW r \in Requests, Arrive(r)
      PROVE  IInv'
  BY <1>1, QuestionArrives, DeletionBegins DEF Arrive
<1>2. ASSUME NEW r \in Requests, Proceed(r)
      PROVE  IInv'
  BY <1>2, CreateKeeps, QuestionGoesOn, SaveKeeps, FailKeeps, UndoKeeps,
     CommitKeeps, RefuseKeeps, AbortKeeps DEF Proceed
<1>3. CASE Tick
  BY <1>0, <1>3, SamePlaces DEF Tick
<1>4. CASE Repair
  BY <1>0, <1>4, SamePlaces DEF Repair
<1>5. CASE Restart
  BY <1>5, RestartKeeps
<1>6. CASE UNCHANGED vars
  BY <1>0, <1>6, SamePlaces DEF vars
<1>7. QED
  BY <1>1, <1>2, <1>3, <1>4, <1>5, <1>6 DEF Next

THEOREM InvariantHolds == Spec => []IInv
<1>1. QED
  BY InitHolds, NextKeeps, PTL DEF Spec

\* The tables and the requests have their types, no two rows have one id, and
\* what Gemini is given of a conversation is as short as the code says.
THEOREM TypesHold == Spec => []TypeOK
<1>1. IInv => TypeOK
  BY HistoryIsShort DEF IInv, TypeOK
<1>2. QED
  BY <1>1, InvariantHolds, PTL

\* Read by position, a conversation is questions with their own answers,
\* whatever requests and deletions overlap.
THEOREM ConversationsArePairs == Spec => []PairsWhole
<1>1. IInv => PairsWhole
  BY PairsFollow DEF IInv
<1>2. QED
  BY <1>1, InvariantHolds, PTL

\* No row without its parent, and no conversation about a document that is
\* empty for no reason: compensation works, also among deletions by id.
THEOREM NothingIsStranded == Spec => []NothingStranded
<1>1. IInv => NothingStranded
  BY DEF IInv
<1>2. QED
  BY <1>1, InvariantHolds, PTL

\* The mark of a question is committed with its answer or not at all, and
\* nobody writes it or repairs it while the question waits.
THEOREM MarksGoWithAnswers == Spec => MarkGoesWithAnswer
<1> DEFINE MarkRules ==
      \A r \in Requests :
          /\ req[r].pending = "mark" /\ req'[r] = req[r] => sync' = sync
          /\ req[r].pending # "none"
                /\ (\E m \in messages' \ messages : m.text = req[r].text)
                => sync' = "needs_resync"
<1>1. ASSUME IInv, Next
      PROVE  MarkRules
  <2> SUFFICES ASSUME NEW r \in Requests
               PROVE  /\ req[r].pending = "mark" /\ req'[r] = req[r] => sync' = sync
                      /\ req[r].pending # "none"
                            /\ (\E m \in messages' \ messages : m.text = req[r].text)
                            => sync' = "needs_resync"
    OBVIOUS
  <2>1. ASSUME sync' = sync, messages' \subseteq messages
        PROVE  /\ req[r].pending = "mark" /\ req'[r] = req[r] => sync' = sync
               /\ ~ \E m \in messages' \ messages : m.text = req[r].text
    BY <2>1
  <2>2. ASSUME NEW p \in Requests, Save(p)
        PROVE  /\ req[r].pending = "mark" /\ req'[r] = req[r] => sync' = sync
               /\ req[r].pending # "none"
                     /\ (\E m \in messages' \ messages : m.text = req[r].text)
                     => sync' = "needs_resync"
    <3>1. /\ req \in [Requests -> Request] /\ RequestSound(req[p])
          /\ RequestSound(req[r])
      BY <1>1, RequestIsSound
    <3>2. /\ req' = [req EXCEPT ![p] = Idle] /\ Writable(p) /\ Usable(p)
          /\ req[p].pc = "asking"
          /\ sync' = IF req[p].pending = "mark" THEN "needs_resync" ELSE sync
          /\ \A m \in messages' \ messages : m.text = req[p].text
      BY <2>2 DEF Save, Return
    <3>3. req[p].text # 0
      BY <3>1, <3>2 DEF RequestSound, Waits
    <3>4. CASE p = r
      <4>1. req[r].pending = "mark" => req'[r] # req[r]
        BY <3>1, <3>2, <3>4 DEF Idle
      <4>2. req[r].pending # "none" => req[r].pending = "mark"
        BY <1>1, <3>2, <3>4 DEF Usable, IInv, TablesTyped, Request, Pending
      <4>3. QED
        BY <3>2, <3>4, <4>1, <4>2
    <3>5. CASE p # r
      <4>1. req[r].pending # "mark"
        BY <3>2, <3>5 DEF Writable
      <4>2. req[p].text # req[r].text
        BY <1>1, <3>3, <3>5 DEF IInv, TextsApart
      <4>3. QED
        BY <3>2, <4>1, <4>2
    <3>6. QED
      BY <3>4, <3>5
  <2>3. CASE Repair
    BY <2>3 DEF Repair
  <2>4. CASE Tick \/ Restart
    BY <2>1, <2>4 DEF Tick, Restart
  <2>5. ASSUME NEW p \in Requests, Arrive(p)
        PROVE  sync' = sync /\ messages' \subseteq messages
    BY <2>5 DEF Arrive, Chat, AskIn, Open, Arrives, DeleteSessions, DeleteUser
  <2>6. ASSUME NEW p \in Requests, Proceed(p), ~Save(p)
        PROVE  sync' = sync /\ messages' \subseteq messages
    <3>1. CASE CommitDelete(p)
      BY <3>1 DEF CommitDelete, MessagesLeft
    <3>2. CASE ~CommitDelete(p)
      BY <2>6, <3>2 DEF Proceed, Create, Read, Filter, Mark, MarkRefused, Retrieve,
         Fail, Undo, UndoGone, RefuseDelete, AbortDelete
    <3>3. QED
      BY <3>1, <3>2
  <2>7. QED
    BY <1>1, <2>1, <2>2, <2>3, <2>4, <2>5, <2>6 DEF Next
<1>2. IInv /\ [Next]_vars => [MarkRules]_vars
  BY <1>1
<1>4. QED
  BY <1>2, InvariantHolds, PTL DEF Spec, MarkGoesWithAnswer
=============================================================================
