-------------------------- MODULE ActiveListProofs --------------------------
(***************************************************************************)
(* What the pointer operations of the active list do to the queue it       *)
(* stands for, for any number of matches.  Each lemma names the queue      *)
(* before and exhibits the queue after.                                    *)
(***************************************************************************)
EXTENDS ActiveList, FiniteSetTheorems, TLAPS

\* L is a list of S through the queue q of length n.
Queue(L, S, q, n) ==
    /\ n \in Nat
    /\ q \in [1..n -> S]
    /\ Represents(L, q, n)
    /\ \A m \in S : \E i \in 1..n : q[i] = m

\* A queue of any length is a witness of IsListOf: its length can only be
\* the number of matches, as it contains each of them once.
LEMMA QueueIsList ==
    ASSUME NEW L, NEW S, NEW q, NEW n, Queue(L, S, q, n)
    PROVE  IsListOf(L, S) /\ n = Cardinality(S)
<1>1. n \in Nat /\ q \in [1..n -> S]
  BY DEF Queue
<1>2. q \in Bijection(1..n, S)
  BY <1>1 DEF Queue, Represents, Bijection, Injection, Surjection, IsInjective
<1>3. ExistsBijection(1..n, S)
  BY <1>2 DEF ExistsBijection
<1>4. Cardinality(S) = n
  BY <1>1, <1>3, FS_CountingElements
<1>5. QED
  BY <1>1, <1>4 DEF Queue, IsListOf

\* A list of the matches in S has a queue that enumerates S in the order of
\* the active_next pointers.
LEMMA ListHasQueue ==
    ASSUME NEW L, NEW S, IsFiniteSet(S), IsListOf(L, S)
    PROVE  \E n \in Nat : \E q \in [1..n -> S] : Queue(L, S, q, n)
<1>1. Cardinality(S) \in Nat
  BY FS_CardinalityType
<1>2. PICK q \in [1..Cardinality(S) -> S] :
          /\ Represents(L, q, Cardinality(S))
          /\ \A m \in S : \E i \in 1..Cardinality(S) : q[i] = m
  BY DEF IsListOf
<1>3. Queue(L, S, q, Cardinality(S))
  BY <1>1, <1>2 DEF Queue
<1>4. QED
  BY <1>1, <1>3

\* The queue of a list depends only on its two ends and on the pointers of
\* the matches in it.
LEMMA QueueFrame ==
    ASSUME NEW L, NEW K, NEW S, NEW q, NEW n, Queue(L, S, q, n),
           K.head = L.head, K.tail = L.tail,
           \A m \in S : K.next[m] = L.next[m] /\ K.prev[m] = L.prev[m]
    PROVE  Queue(K, S, q, n)
<1>1. \A i \in 1..n : q[i] \in S
  BY DEF Queue
<1>2. Represents(K, q, n)
  BY <1>1 DEF Queue, Represents
<1>3. QED
  BY <1>2 DEF Queue

-----------------------------------------------------------------------------
\* The operations keep the type of the list.
LEMMA AppendTailType ==
    ASSUME NEW L \in ListType, NEW m \in Match
    PROVE  AppendTail(L, m) \in ListType
BY DEF AppendTail, ListType, Pointer

\* Taking a match off the list with remove_sfe_ipv4_connection_match leaves
\* pointers to matches, or null.
LEMMA UnlinkType ==
    ASSUME NEW L \in ListType, NEW m \in Match
    PROVE  Unlink(L, m) \in ListType
BY DEF Unlink, ListType, Pointer

\* So does the removal of the counter match in periodic_sync.
LEMMA UnlinkCounterType ==
    ASSUME NEW L \in ListType, NEW m \in Match
    PROVE  UnlinkCounter(L, m) \in ListType
BY DEF UnlinkCounter, ListType, Pointer

\* So does the removal of the head in periodic_sync.
LEMMA PopHeadType ==
    ASSUME NEW L \in ListType, L.head \in Match
    PROVE  PopHead(L) \in ListType
BY DEF PopHead, ListType, Pointer

\* So does the allocation of the matches of a new connection.
LEMMA FreshType ==
    ASSUME NEW L \in ListType, NEW S
    PROVE  Fresh(L, S) \in ListType
BY DEF Fresh, ListType, Pointer

-----------------------------------------------------------------------------
\* The receive path appends a match that is not in the list and whose
\* active_next is null.
LEMMA AppendTailQueue ==
    ASSUME NEW L \in ListType, NEW S \in SUBSET Match, NEW m \in Match \ S,
           NEW q, NEW n, Queue(L, S, q, n), L.next[m] = NULL
    PROVE  \E r : Queue(AppendTail(L, m), S \cup {m}, r, n + 1)
<1> DEFINE r == [i \in 1..(n + 1) |-> IF i = n + 1 THEN m ELSE q[i]]
           K == AppendTail(L, m)
<1>1. n \in Nat /\ q \in [1..n -> S] /\ NULL \notin Match
  BY NullAssumption DEF Queue
<1>2. \A i \in 1..n : q[i] \in S /\ q[i] \in Match /\ q[i] # m /\ r[i] = q[i]
  BY <1>1
<1>3. r \in [1..(n + 1) -> S \cup {m}] /\ r[n + 1] = m
  BY <1>1
<1>4. \A i, j \in 1..(n + 1) : r[i] = r[j] => i = j
  BY <1>1, <1>2, <1>3 DEF Queue, Represents
<1> HIDE DEF r
<1>5. L.tail = NULL <=> n = 0
  BY <1>1, <1>2 DEF Queue, Represents
<1>6. /\ K.tail = m
      /\ K.head = IF n = 0 THEN m ELSE L.head
      /\ K.prev = [L.prev EXCEPT ![m] = L.tail]
      /\ K.next = IF n = 0 THEN L.next ELSE [L.next EXCEPT ![L.tail] = m]
  BY <1>5 DEF AppendTail, ListType
<1> HIDE DEF K
<1>7. K.head = r[1]
  BY <1>1, <1>2, <1>3, <1>6 DEF Queue, Represents
<1>8. \A i \in 1..(n + 1) : K.prev[r[i]] = (IF i = 1 THEN NULL ELSE r[i - 1])
  <2>1. ASSUME NEW i \in 1..n PROVE K.prev[r[i]] = (IF i = 1 THEN NULL ELSE r[i - 1])
    BY <1>1, <1>2, <1>6, <2>1 DEF Queue, Represents, ListType
  <2>2. K.prev[r[n + 1]] = (IF n + 1 = 1 THEN NULL ELSE r[n + 1 - 1])
    BY <1>1, <1>2, <1>3, <1>6 DEF Queue, Represents, ListType
  <2>3. QED
    BY <1>1, <2>1, <2>2
<1>9. \A i \in 1..(n + 1) : K.next[r[i]] = (IF i = n + 1 THEN NULL ELSE r[i + 1])
  <2>1. ASSUME NEW i \in 1..n, i # n PROVE K.next[r[i]] = r[i + 1]
    <3>1. q[i] # q[n]
      BY <1>1, <2>1 DEF Queue, Represents
    <3>2. L.tail = q[n] /\ L.next[q[i]] = q[i + 1] /\ n # 0
      BY <1>1, <2>1 DEF Queue, Represents
    <3>3. QED
      BY <1>1, <1>2, <1>6, <2>1, <3>1, <3>2 DEF ListType
  <2>2. n # 0 => K.next[r[n]] = r[n + 1]
    BY <1>1, <1>2, <1>3, <1>6 DEF Queue, Represents, ListType
  <2>3. K.next[r[n + 1]] = NULL
    <3>1. n # 0 => L.tail # m
      BY <1>1, <1>2 DEF Queue, Represents
    <3>2. QED
      BY <1>3, <1>6, <3>1 DEF ListType
  <2>4. QED
    BY <1>1, <2>1, <2>2, <2>3
<1>10. \A x \in S \cup {m} : \E i \in 1..(n + 1) : r[i] = x
  BY <1>1, <1>2, <1>3 DEF Queue
<1>11. Represents(K, r, n + 1)
  BY <1>1, <1>3, <1>4, <1>6, <1>7, <1>8, <1>9 DEF Represents
<1>12. QED
  <2>1. Queue(K, S \cup {m}, r, n + 1)
    BY <1>1, <1>3, <1>10, <1>11 DEF Queue
  <2>2. QED
    BY <2>1 DEF K

-----------------------------------------------------------------------------
\* Joining the neighbours of a match takes it out of the queue, wherever in
\* the queue it is.
LEMMA UnlinkQueue ==
    ASSUME NEW L \in ListType, NEW S \in SUBSET Match, NEW m \in S,
           NEW q, NEW n, Queue(L, S, q, n)
    PROVE  \E r : Queue(Unlink(L, m), S \ {m}, r, n - 1)
<1>1. n \in Nat /\ q \in [1..n -> S] /\ NULL \notin Match
  BY NullAssumption DEF Queue
<1>2. PICK k \in 1..n : q[k] = m
  BY DEF Queue
<1>3. n >= 1 /\ n - 1 \in Nat
  BY <1>1, <1>2
<1> DEFINE r == [i \in 1..(n - 1) |-> IF i < k THEN q[i] ELSE q[i + 1]]
           K == Unlink(L, m)
<1>4. \A i, j \in 1..n : q[i] = q[j] => i = j
  BY DEF Queue, Represents
<1>5. \A i \in 1..n : q[i] \in S /\ q[i] \in Match /\ q[i] # NULL /\ (q[i] = m <=> i = k)
  BY <1>1, <1>2, <1>4
<1>6. /\ \A i \in 1..(n - 1) : i < k => r[i] = q[i]
      /\ \A i \in 1..(n - 1) : i >= k => r[i] = q[i + 1]
  BY <1>1, <1>2
<1>7. r \in [1..(n - 1) -> S \ {m}]
  BY <1>1, <1>2, <1>5
<1>8. \A i, j \in 1..(n - 1) : r[i] = r[j] => i = j
  BY <1>1, <1>2, <1>4
<1> HIDE DEF r
<1>9. \A x \in S \ {m} : \E i \in 1..(n - 1) : r[i] = x
  <2> SUFFICES ASSUME NEW x \in S \ {m} PROVE \E i \in 1..(n - 1) : r[i] = x
    OBVIOUS
  <2>1. PICK j \in 1..n : q[j] = x
    BY DEF Queue
  <2>2. j # k
    BY <1>2, <2>1
  <2>3. CASE j < k
    <3>1. j \in 1..(n - 1) /\ r[j] = x
      BY <1>1, <1>2, <1>6, <2>1, <2>3
    <3>2. QED
      BY <3>1
  <2>4. CASE j > k
    <3>1. j - 1 \in 1..(n - 1) /\ j - 1 >= k
      BY <1>1, <1>2, <2>1, <2>4
    <3>2. r[j - 1] = q[(j - 1) + 1]
      BY <1>6, <3>1
    <3>3. QED
      BY <1>1, <2>1, <3>1, <3>2
  <2>5. QED
    BY <1>1, <1>2, <2>1, <2>2, <2>3, <2>4
<1>10. /\ L.next[m] = IF k = n THEN NULL ELSE q[k + 1]
       /\ L.prev[m] = IF k = 1 THEN NULL ELSE q[k - 1]
  BY <1>1, <1>2 DEF Queue, Represents
<1>11. /\ L.next[m] = NULL <=> k = n
       /\ L.prev[m] = NULL <=> k = 1
  BY <1>1, <1>2, <1>5, <1>10
<1>12. /\ K.head = IF k = 1 THEN L.next[m] ELSE L.head
       /\ K.tail = IF k = n THEN L.prev[m] ELSE L.tail
       /\ K.next = IF k = 1 THEN L.next ELSE [L.next EXCEPT ![L.prev[m]] = L.next[m]]
       /\ K.prev = IF k = n THEN L.prev ELSE [L.prev EXCEPT ![L.next[m]] = L.prev[m]]
  BY <1>11 DEF Unlink, ListType
<1> HIDE DEF K
<1>13. K.head = IF n - 1 = 0 THEN NULL ELSE r[1]
  <2>1. L.head = q[1]
    BY <1>3 DEF Queue, Represents
  <2>2. CASE k = 1
    BY <1>1, <1>2, <1>3, <1>6, <1>10, <1>12, <2>2
  <2>3. CASE k # 1
    BY <1>1, <1>2, <1>3, <1>6, <1>12, <2>1, <2>3
  <2>4. QED
    BY <2>2, <2>3
<1>14. K.tail = IF n - 1 = 0 THEN NULL ELSE r[n - 1]
  <2>1. L.tail = q[n]
    BY <1>3 DEF Queue, Represents
  <2>2. CASE k = n
    BY <1>1, <1>2, <1>3, <1>6, <1>10, <1>12, <2>2
  <2>3. CASE k # n
    <3>1. n - 1 \in 1..(n - 1) /\ n - 1 >= k /\ (n - 1) + 1 = n
      BY <1>1, <1>2, <1>3, <2>3
    <3>2. r[n - 1] = q[n]
      BY <1>6, <3>1
    <3>3. QED
      BY <1>12, <2>1, <2>3, <3>1, <3>2
  <2>4. QED
    BY <2>2, <2>3
<1>15. \A i \in 1..n : L.next[q[i]] = (IF i = n THEN NULL ELSE q[i + 1])
  BY DEF Queue, Represents
<1>16. \A i \in 1..n : L.prev[q[i]] = (IF i = 1 THEN NULL ELSE q[i - 1])
  BY DEF Queue, Represents
<1>17. \A i \in 1..(n - 1) : K.next[r[i]] = (IF i = n - 1 THEN NULL ELSE r[i + 1])
  <2> SUFFICES ASSUME NEW i \in 1..(n - 1)
               PROVE  K.next[r[i]] = (IF i = n - 1 THEN NULL ELSE r[i + 1])
    OBVIOUS
  <2>0. i \in 1..n /\ i + 1 \in 1..n /\ L.next \in [Match -> Pointer]
    BY <1>1 DEF ListType
  <2>1. CASE i < k - 1
    <3>1. r[i] = q[i] /\ r[i + 1] = q[i + 1] /\ i # n - 1
      BY <1>1, <1>2, <1>6, <2>1
    <3>2. L.prev[m] = q[k - 1] /\ k - 1 \in 1..n
      BY <1>1, <1>2, <1>10, <2>1
    <3>3. L.prev[m] # q[i]
      BY <1>4, <2>0, <2>1, <3>2
    <3>4. K.next[q[i]] = L.next[q[i]]
      BY <1>5, <1>12, <2>0, <3>3
    <3>5. QED
      BY <1>1, <1>15, <2>0, <3>1, <3>4
  <2>2. CASE i = k - 1
    <3>1. r[i] = q[i] /\ L.prev[m] = q[i] /\ k # 1
      BY <1>1, <1>2, <1>6, <1>10, <2>2
    <3>2. K.next[r[i]] = L.next[m]
      BY <1>5, <1>12, <2>0, <3>1
    <3>3. i # n - 1 => r[i + 1] = q[k + 1]
      BY <1>1, <1>2, <1>6, <2>2
    <3>4. QED
      BY <1>1, <1>2, <1>10, <2>2, <3>2, <3>3
  <2>3. CASE i >= k
    <3>1. r[i] = q[i + 1]
      BY <1>6, <2>3
    <3>2. i # n - 1 => r[i + 1] = q[(i + 1) + 1]
      BY <1>1, <1>2, <1>6, <2>3
    <3>3. k # 1 => L.prev[m] # q[i + 1]
      <4>1. k # 1 => k - 1 \in 1..n /\ k - 1 # i + 1
        BY <1>1, <1>2, <2>3
      <4>2. QED
        BY <1>4, <1>10, <2>0, <4>1
    <3>4. K.next[q[i + 1]] = L.next[q[i + 1]]
      BY <1>5, <1>12, <2>0, <3>3
    <3>5. QED
      BY <1>1, <1>15, <2>0, <3>1, <3>2, <3>4
  <2>4. QED
    BY <1>1, <1>2, <2>1, <2>2, <2>3
<1>18. \A i \in 1..(n - 1) : K.prev[r[i]] = (IF i = 1 THEN NULL ELSE r[i - 1])
  <2> SUFFICES ASSUME NEW i \in 1..(n - 1)
               PROVE  K.prev[r[i]] = (IF i = 1 THEN NULL ELSE r[i - 1])
    OBVIOUS
  <2>0. i \in 1..n /\ i + 1 \in 1..n /\ L.prev \in [Match -> Pointer]
    BY <1>1 DEF ListType
  <2>1. CASE i < k
    <3>1. r[i] = q[i] /\ (i # 1 => r[i - 1] = q[i - 1])
      BY <1>1, <1>2, <1>6, <2>1
    <3>2. k # n => L.next[m] # q[i]
      <4>1. k # n => k + 1 \in 1..n /\ k + 1 # i
        BY <1>1, <1>2, <2>1
      <4>2. QED
        BY <1>4, <1>10, <2>0, <4>1
    <3>3. K.prev[q[i]] = L.prev[q[i]]
      BY <1>5, <1>12, <2>0, <3>2
    <3>4. QED
      BY <1>1, <1>16, <2>0, <3>1, <3>3
  <2>2. CASE i = k
    <3>1. r[i] = q[i + 1] /\ L.next[m] = q[i + 1] /\ k # n
      BY <1>1, <1>2, <1>6, <1>10, <2>2
    <3>2. K.prev[r[i]] = L.prev[m]
      BY <1>5, <1>12, <2>0, <3>1
    <3>3. i # 1 => r[i - 1] = q[k - 1]
      BY <1>1, <1>2, <1>6, <2>2
    <3>4. QED
      BY <1>1, <1>2, <1>10, <2>2, <3>2, <3>3
  <2>3. CASE i > k
    <3>1. r[i] = q[i + 1] /\ i # 1 /\ r[i - 1] = q[(i - 1) + 1]
      BY <1>1, <1>2, <1>6, <2>3
    <3>2. k + 1 \in 1..n /\ k + 1 # i + 1 /\ L.next[m] = q[k + 1]
      BY <1>1, <1>2, <1>10, <2>3
    <3>3. L.next[m] # q[i + 1]
      BY <1>4, <2>0, <3>2
    <3>4. K.prev[q[i + 1]] = L.prev[q[i + 1]]
      BY <1>5, <1>12, <2>0, <3>3
    <3>5. QED
      BY <1>1, <1>16, <2>0, <3>1, <3>4
  <2>4. QED
    BY <1>1, <1>2, <2>1, <2>2, <2>3
<1>19. Represents(K, r, n - 1)
  BY <1>8, <1>13, <1>14, <1>17, <1>18 DEF Represents
<1>20. Queue(K, S \ {m}, r, n - 1)
  BY <1>3, <1>7, <1>9, <1>19 DEF Queue
<1>21. QED
  BY <1>20 DEF K

-----------------------------------------------------------------------------
(***************************************************************************)
(* The same facts for lists, without their queues.                         *)
(***************************************************************************)
LEMMA MatchSetsAreFinite ==
    ASSUME NEW S \in SUBSET Match PROVE IsFiniteSet(S)
<1>1. IsFiniteSet({"original"}) /\ IsFiniteSet({"reply"})
  BY FS_Singleton
<1>2. IsFiniteSet(Dir)
  <2>1. Dir = {"original"} \cup {"reply"}
    BY DEF Dir
  <2>2. QED
    BY <1>1, <2>1, FS_Union
<1>3. IsFiniteSet(Match)
  BY <1>2, ConnAssumption, FS_Product DEF Match
<1>4. QED
  BY <1>3, FS_Subset

\* The counter match of a match is the other match of the same connection.
LEMMA CounterMatch ==
    ASSUME NEW m \in Match
    PROVE  /\ counter_match(m) \in Match /\ counter_match(m) # m
           /\ connection(counter_match(m)) = connection(m)
           /\ connection(m) \in Conn
           /\ \A x \in Match : connection(x) = connection(m) => x = m \/ x = counter_match(m)
BY DEF Match, Dir, counter_match, connection

\* The ends of a list, and where its pointers may lead.
LEMMA ListEnds ==
    ASSUME NEW L \in ListType, NEW S \in SUBSET Match, IsListOf(L, S)
    PROVE  /\ L.head = NULL <=> S = {}
           /\ L.tail = NULL <=> S = {}
           /\ L.head \in S \cup {NULL} /\ L.tail \in S \cup {NULL}
           /\ \A m \in S : /\ L.next[m] \in S \cup {NULL} /\ L.prev[m] \in S \cup {NULL}
                           /\ L.prev[m] = NULL <=> m = L.head
                           /\ L.prev[m] # m
<1>1. IsFiniteSet(S)
  BY MatchSetsAreFinite
<1>2. PICK n \in Nat : \E q \in [1..n -> S] : Queue(L, S, q, n)
  BY <1>1, ListHasQueue
<1>3. PICK q \in [1..n -> S] : Queue(L, S, q, n)
  BY <1>2
<1>4. \A i \in 1..n : q[i] \in S /\ q[i] # NULL
  BY <1>3, NullAssumption
<1>5. /\ L.head = (IF n = 0 THEN NULL ELSE q[1])
      /\ L.tail = (IF n = 0 THEN NULL ELSE q[n])
      /\ \A i \in 1..n : L.next[q[i]] = (IF i = n THEN NULL ELSE q[i + 1])
      /\ \A i \in 1..n : L.prev[q[i]] = (IF i = 1 THEN NULL ELSE q[i - 1])
      /\ \A i, j \in 1..n : q[i] = q[j] => i = j
      /\ \A m \in S : \E i \in 1..n : q[i] = m
  BY <1>3 DEF Queue, Represents
<1>6. /\ L.head = NULL <=> S = {}
      /\ L.tail = NULL <=> S = {}
      /\ L.head \in S \cup {NULL} /\ L.tail \in S \cup {NULL}
  <2>1. CASE n = 0
    BY <1>5, <2>1
  <2>2. CASE n # 0
    <3>1. 1 \in 1..n /\ n \in 1..n
      BY <2>2
    <3>2. QED
      BY <1>4, <1>5, <2>2, <3>1
  <2>3. QED
    BY <2>1, <2>2
<1>7. ASSUME NEW m \in S
      PROVE  /\ L.next[m] \in S \cup {NULL} /\ L.prev[m] \in S \cup {NULL}
             /\ L.prev[m] = NULL <=> m = L.head
             /\ L.prev[m] # m
  <2>1. PICK i \in 1..n : q[i] = m
    BY <1>5
  <2>2. (i # n => i + 1 \in 1..n) /\ (i # 1 => i - 1 \in 1..n) /\ n # 0 /\ 1 \in 1..n
    BY <2>1
  <2>3. L.next[m] \in S \cup {NULL} /\ L.prev[m] \in S \cup {NULL}
    BY <1>4, <1>5, <2>1, <2>2
  <2>p. L.prev[m] = (IF i = 1 THEN NULL ELSE q[i - 1])
    BY <1>5, <2>1
  <2>4. L.prev[m] = NULL <=> i = 1
    BY <1>4, <2>2, <2>p
  <2>5. m = L.head <=> i = 1
    BY <1>5, <2>1, <2>2
  <2>6. L.prev[m] # m
    <3>1. i # 1 => q[i - 1] # q[i]
      BY <1>5, <2>1, <2>2
    <3>2. QED
      BY <1>4, <2>1, <2>p, <3>1
  <2>7. QED
    BY <2>3, <2>4, <2>5, <2>6
<1>8. QED
  BY <1>6, <1>7

\* Whether a list is well formed depends on its ends and on the pointers of
\* its own matches only.
LEMMA ListFrame ==
    ASSUME NEW L, NEW K, NEW S \in SUBSET Match, IsListOf(L, S),
           K.head = L.head, K.tail = L.tail,
           \A m \in S : K.next[m] = L.next[m] /\ K.prev[m] = L.prev[m]
    PROVE  IsListOf(K, S)
<1>1. IsFiniteSet(S)
  BY MatchSetsAreFinite
<1>2. PICK n \in Nat : \E q \in [1..n -> S] : Queue(L, S, q, n)
  BY <1>1, ListHasQueue
<1>3. PICK q \in [1..n -> S] : Queue(L, S, q, n)
  BY <1>2
<1>4. Queue(K, S, q, n)
  BY <1>3, QueueFrame
<1>5. QED
  BY <1>4, QueueIsList

\* The append of the receive path adds the match to the list, if its
\* active_next is null.
LEMMA AppendTailList ==
    ASSUME NEW L \in ListType, NEW S \in SUBSET Match, NEW m \in Match \ S,
           IsListOf(L, S), L.next[m] = NULL
    PROVE  IsListOf(AppendTail(L, m), S \cup {m})
<1>1. IsFiniteSet(S)
  BY MatchSetsAreFinite
<1>2. PICK n \in Nat : \E q \in [1..n -> S] : Queue(L, S, q, n)
  BY <1>1, ListHasQueue
<1>3. PICK q \in [1..n -> S] : Queue(L, S, q, n)
  BY <1>2
<1>4. PICK r : Queue(AppendTail(L, m), S \cup {m}, r, n + 1)
  BY <1>3, AppendTailQueue
<1>5. QED
  BY <1>4, QueueIsList

\* Taking a match off the list leaves a list of the others.
LEMMA UnlinkList ==
    ASSUME NEW L \in ListType, NEW S \in SUBSET Match, NEW m \in S, IsListOf(L, S)
    PROVE  IsListOf(Unlink(L, m), S \ {m})
<1>1. IsFiniteSet(S)
  BY MatchSetsAreFinite
<1>2. PICK n \in Nat : \E q \in [1..n -> S] : Queue(L, S, q, n)
  BY <1>1, ListHasQueue
<1>3. PICK q \in [1..n -> S] : Queue(L, S, q, n)
  BY <1>2
<1>4. PICK r : Queue(Unlink(L, m), S \ {m}, r, n - 1)
  BY <1>3, UnlinkQueue
<1>5. QED
  BY <1>4, QueueIsList

\* The timer's two removals are Unlink, but for the fields of what they remove.
LEMMA UnlinkCounterList ==
    ASSUME NEW L \in ListType, NEW S \in SUBSET Match, NEW m \in S, IsListOf(L, S),
           L.prev[m] # NULL
    PROVE  IsListOf(UnlinkCounter(L, m), S \ {m})
<1> DEFINE U == Unlink(L, m)
           K == UnlinkCounter(L, m)
<1>1. IsListOf(U, S \ {m})
  BY UnlinkList
<1>2. K.head = U.head /\ K.tail = U.tail
  BY DEF Unlink, UnlinkCounter, ListType
<1>3. \A x \in S \ {m} : K.next[x] = U.next[x] /\ K.prev[x] = U.prev[x]
  BY DEF Unlink, UnlinkCounter, ListType, Pointer
<1>4. QED
  BY <1>1, <1>2, <1>3, ListFrame

\* Taking the head off in periodic_sync leaves a list of the others.
LEMMA PopHeadList ==
    ASSUME NEW L \in ListType, NEW S \in SUBSET Match, IsListOf(L, S), L.head # NULL
    PROVE  L.head \in S /\ IsListOf(PopHead(L), S \ {L.head})
<1> DEFINE m == L.head
           U == Unlink(L, m)
           K == PopHead(L)
<1>1. m \in S /\ m \in Match /\ L.prev[m] = NULL
  BY ListEnds
<1>2. IsListOf(U, S \ {m})
  BY <1>1, UnlinkList
<1>3. K.head = U.head /\ K.tail = U.tail
  BY <1>1 DEF Unlink, PopHead, ListType
<1>4. \A x \in S \ {m} : K.next[x] = U.next[x] /\ K.prev[x] = U.prev[x]
  BY <1>1 DEF Unlink, PopHead, ListType, Pointer
<1>5. QED
  BY <1>1, <1>2, <1>3, <1>4, ListFrame
=============================================================================
