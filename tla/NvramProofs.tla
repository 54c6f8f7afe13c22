------------------------------ MODULE NvramProofs ------------------------------
(***************************************************************************)
(* Proofs about Nvram for any number of processes, files, variables and    *)
(* faults, any size of the partition and any place where a copy is cut.    *)
(***************************************************************************)
EXTENDS Nvram, Numbers

-----------------------------------------------------------------------------
(***************************************************************************)
(* The names that have a value.  FirstNames(g, s, n) says that g has the   *)
(* result of Listed for every number of names up to n.                     *)
(***************************************************************************)
FirstNames(g, s, n) ==
    g = [i \in 0 .. n |-> IF i = 0 THEN <<>>
                          ELSE IF s[Order[i]] = Absent THEN g[i - 1]
                          ELSE Append(g[i - 1], Order[i])]

\* A name is in the order of the hash table, and once.
LEMMA OrderFacts ==
    /\ Order \in Seq(Name) /\ Len(Order) \in Nat
    /\ \A i \in 1 .. Len(Order) : Order[i] \in Name
    /\ \A i, j \in 1 .. Len(Order) : Order[i] = Order[j] => i = j
    /\ \A n \in Name : \E i \in 1 .. Len(Order) : Order[i] = n
<1>1. Order \in Seq(Name) /\ \A i, j \in 1 .. Len(Order) : Order[i] = Order[j] => i = j
  BY StoreAssumption
<1>2. \A n \in Name : \E i \in 1 .. Len(Order) : Order[i] = n
  BY DEF Name
<1> HIDE DEF Name
<1>3. QED
  BY <1>1, <1>2

\* The recursion of Listed has a solution for every number of names.
LEMMA FirstNamesExist ==
    ASSUME NEW s
    PROVE  \E g : FirstNames(g, s, Len(Order))
<1> DEFINE Missing == {n \in Nat : ~ \E g : FirstNames(g, s, n)}
<1>1. Missing = {}
  <2>1. SUFFICES ASSUME Missing # {} PROVE FALSE
    OBVIOUS
  <2>2. PICK n \in Missing : \A m \in Missing : n <= m
    BY <2>1, LeastNat
  <2>3. n \in Nat
    OBVIOUS
  <2>4. CASE n = 0
    <3>1. FirstNames([i \in 0 .. 0 |-> <<>>], s, 0)
      BY DEF FirstNames
    <3>2. QED
      BY <2>4, <3>1
  <2>5. CASE n # 0
    <3>1. n - 1 \in Nat /\ ~ (n <= n - 1)
      BY <2>3, <2>5
    <3>2. PICK h : FirstNames(h, s, n - 1)
      <4>1. n - 1 \notin Missing
        <5> HIDE DEF Missing
        <5>1. QED
          BY <2>2, <3>1
      <4>2. QED
        BY <3>1, <4>1
    <3> DEFINE g == [i \in 0 .. n |-> IF i = 0 THEN <<>>
                                      ELSE IF s[Order[i]] = Absent THEN h[i - 1]
                                      ELSE Append(h[i - 1], Order[i])]
    <3>3. ASSUME NEW i \in 0 .. n - 1 PROVE g[i] = h[i]
      <4>1. i \in 0 .. n
        BY <2>3
      <4>2. h = [j \in 0 .. n - 1 |-> IF j = 0 THEN <<>>
                                     ELSE IF s[Order[j]] = Absent THEN h[j - 1]
                                     ELSE Append(h[j - 1], Order[j])]
        BY <3>2 DEF FirstNames
      <4>3. h[i] = IF i = 0 THEN <<>> ELSE IF s[Order[i]] = Absent THEN h[i - 1]
                   ELSE Append(h[i - 1], Order[i])
        BY <4>2
      <4>4. QED
        BY <4>1, <4>3
    <3>4. ASSUME NEW i \in 0 .. n
          PROVE  g[i] = IF i = 0 THEN <<>>
                        ELSE IF s[Order[i]] = Absent THEN g[i - 1]
                        ELSE Append(g[i - 1], Order[i])
      <4>1. CASE i = 0
        BY <4>1
      <4>2. CASE i # 0
        <5>1. i - 1 \in 0 .. n - 1
          BY <2>3, <4>2
        <5>2. g[i - 1] = h[i - 1]
          BY <3>3, <5>1
        <5>3. g[i] = IF s[Order[i]] = Absent THEN h[i - 1] ELSE Append(h[i - 1], Order[i])
          BY <4>2
        <5> HIDE DEF g
        <5>4. QED
          BY <4>2, <5>2, <5>3
      <4>3. QED
        BY <4>1, <4>2
    <3>5. g = [i \in 0 .. n |-> g[i]]
      OBVIOUS
    <3> HIDE DEF g
    <3>6. FirstNames(g, s, n)
      BY <3>4, <3>5 DEF FirstNames
    <3>7. QED
      BY <3>6
  <2>6. QED
    BY <2>4, <2>5
<1>2. QED
  BY <1>1, OrderFacts

\* Listed is the last value of that solution.
LEMMA ListedIs ==
    ASSUME NEW s
    PROVE  \E g : FirstNames(g, s, Len(Order)) /\ Listed(s) = g[Len(Order)]
<1> DEFINE h == CHOOSE h : h = [i \in 0 .. Len(Order) |->
                                  IF i = 0 THEN <<>>
                                  ELSE IF s[Order[i]] = Absent THEN h[i - 1]
                                  ELSE Append(h[i - 1], Order[i])]
<1>1. Listed(s) = h[Len(Order)]
  BY DEF Listed
<1>2. FirstNames(h, s, Len(Order))
  <2>1. PICK k : FirstNames(k, s, Len(Order))
    BY FirstNamesExist
  <2>2. \E g : g = [i \in 0 .. Len(Order) |-> IF i = 0 THEN <<>>
                                             ELSE IF s[Order[i]] = Absent THEN g[i - 1]
                                             ELSE Append(g[i - 1], Order[i])]
    BY <2>1 DEF FirstNames
  <2>3. QED
    BY <2>2 DEF FirstNames
<1>3. QED
  BY <1>1, <1>2

\* q lists the names among the first i that have a value in s, each once.
ListsFirst(q, s, i) ==
    /\ q \in Seq(Name)
    /\ \A k \in 1 .. Len(q) : s[q[k]] # Absent /\ \E j \in 1 .. i : q[k] = Order[j]
    /\ \A j \in 1 .. i : s[Order[j]] # Absent => \E k \in 1 .. Len(q) : q[k] = Order[j]
    /\ \A k, l \in 1 .. Len(q) : q[k] = q[l] => k = l

\* One more name listed.
LEMMA ListsNext ==
    ASSUME NEW s, NEW i \in 1 .. Len(Order), NEW q, ListsFirst(q, s, i - 1)
    PROVE  /\ s[Order[i]] = Absent => ListsFirst(q, s, i)
           /\ s[Order[i]] # Absent => ListsFirst(Append(q, Order[i]), s, i)
<1>1. i \in Int /\ i >= 1 /\ i <= Len(Order) /\ Len(Order) \in Nat /\ Order[i] \in Name
  BY OrderFacts
<1>2. q \in Seq(Name) /\ Len(q) \in Nat
  BY DEF ListsFirst
<1>3. \A j \in 1 .. i : j \in 1 .. i - 1 \/ j = i
  BY <1>1
<1>4. \A j \in 1 .. i - 1 : j \in 1 .. i /\ j # i /\ j \in 1 .. Len(Order)
  BY <1>1
<1>5. ASSUME s[Order[i]] = Absent PROVE ListsFirst(q, s, i)
  <2>1. \A k \in 1 .. Len(q) : s[q[k]] # Absent /\ \E j \in 1 .. i : q[k] = Order[j]
    BY <1>4 DEF ListsFirst
  <2>2. \A j \in 1 .. i : s[Order[j]] # Absent => \E k \in 1 .. Len(q) : q[k] = Order[j]
    BY <1>3, <1>5 DEF ListsFirst
  <2>3. QED
    BY <2>1, <2>2 DEF ListsFirst
<1>6. ASSUME s[Order[i]] # Absent PROVE ListsFirst(Append(q, Order[i]), s, i)
  <2> DEFINE r == Append(q, Order[i])
             m == Len(q) + 1
  <2>1. r \in Seq(Name) /\ Len(r) = m
    BY <1>1, <1>2
  <2>2. (\A k \in 1 .. Len(q) : r[k] = q[k] /\ k \in 1 .. m /\ k # m) /\ r[m] = Order[i]
    BY <1>1, <1>2
  <2>3. \A k \in 1 .. m : k \in 1 .. Len(q) \/ k = m
    BY <1>2
  <2>4. m \in 1 .. m
    BY <1>2
  <2> HIDE DEF r, m
  <2>5. \A k \in 1 .. m : s[r[k]] # Absent /\ \E j \in 1 .. i : r[k] = Order[j]
    <3> SUFFICES ASSUME NEW k \in 1 .. m
                 PROVE  s[r[k]] # Absent /\ \E j \in 1 .. i : r[k] = Order[j]
      OBVIOUS
    <3>1. CASE k \in 1 .. Len(q)
      BY <1>4, <2>2, <3>1 DEF ListsFirst
    <3>2. CASE k = m
      BY <1>1, <1>6, <2>2, <3>2
    <3>3. QED
      BY <2>3, <3>1, <3>2
  <2>6. \A j \in 1 .. i : s[Order[j]] # Absent => \E k \in 1 .. m : r[k] = Order[j]
    <3> SUFFICES ASSUME NEW j \in 1 .. i, s[Order[j]] # Absent
                 PROVE  \E k \in 1 .. m : r[k] = Order[j]
      OBVIOUS
    <3>1. CASE j \in 1 .. i - 1
      BY <2>2, <3>1 DEF ListsFirst
    <3>2. CASE j = i
      BY <2>2, <2>4, <3>2
    <3>3. QED
      BY <1>3, <3>1, <3>2
  <2>7. \A k \in 1 .. Len(q) : q[k] # Order[i]
    <3> SUFFICES ASSUME NEW k \in 1 .. Len(q), q[k] = Order[i] PROVE FALSE
      OBVIOUS
    <3>1. PICK j \in 1 .. i - 1 : q[k] = Order[j]
      BY DEF ListsFirst
    <3>2. QED
      BY <1>4, <3>1, OrderFacts
  <2>8. \A k, l \in 1 .. m : r[k] = r[l] => k = l
    BY <2>2, <2>3, <2>7 DEF ListsFirst
  <2>9. ListsFirst(r, s, i)
    BY <2>1, <2>5, <2>6, <2>8 DEF ListsFirst
  <2>10. QED
    BY <2>9 DEF r
<1>7. QED
  BY <1>5, <1>6

\* Listed holds the names that have a value, each once.
LEMMA ListedLists == ASSUME NEW s PROVE ListsFirst(Listed(s), s, Len(Order))
<1>1. PICK g : FirstNames(g, s, Len(Order)) /\ Listed(s) = g[Len(Order)]
  BY ListedIs
<1> DEFINE N == Len(Order)
           Bad == {i \in Nat : i <= N /\ ~ ListsFirst(g[i], s, i)}
<1>2. N \in Nat
  BY OrderFacts
<1> HIDE DEF N
<1>3. Bad = {}
  <2>1. SUFFICES ASSUME Bad # {} PROVE FALSE
    OBVIOUS
  <2>2. PICK i \in Bad : \A j \in Bad : i <= j
    BY <2>1, LeastNat
  <2>3. i \in Nat /\ i <= N /\ ~ ListsFirst(g[i], s, i)
    OBVIOUS
  <2>4. g[i] = IF i = 0 THEN <<>> ELSE IF s[Order[i]] = Absent THEN g[i - 1]
               ELSE Append(g[i - 1], Order[i])
    <3>1. g = [j \in 0 .. N |-> IF j = 0 THEN <<>>
                              ELSE IF s[Order[j]] = Absent THEN g[j - 1]
                              ELSE Append(g[j - 1], Order[j])]
      BY <1>1 DEF FirstNames, N
    <3>2. i \in 0 .. N
      BY <1>2, <2>3
    <3>3. QED
      BY <3>1, <3>2
  <2>5. CASE i = 0
    <3>1. g[i] = <<>>
      BY <2>4, <2>5
    <3>2. <<>> \in Seq(Name) /\ Len(<<>>) = 0
      OBVIOUS
    <3>3. 1 .. 0 = {} /\ 1 .. i = {}
      BY <2>5
    <3>4. ListsFirst(g[i], s, i)
      BY <3>1, <3>2, <3>3 DEF ListsFirst
    <3>5. QED
      BY <2>3, <3>4
  <2>6. CASE i # 0
    <3>1. i - 1 \in Nat /\ i - 1 <= N /\ ~ (i <= i - 1) /\ i \in 1 .. N
      BY <1>2, <2>3, <2>6
    <3>2. i - 1 \notin Bad
      <4> HIDE DEF Bad
      <4>1. QED
        BY <2>2, <3>1
    <3>3. ListsFirst(g[i - 1], s, i - 1)
      BY <3>1, <3>2
    <3>4. ListsFirst(g[i], s, i)
      BY <2>4, <2>6, <3>1, <3>3, ListsNext DEF N
    <3>5. QED
      BY <2>3, <3>4
  <2>7. QED
    BY <2>5, <2>6
<1>4. N \notin Bad /\ N <= N
  BY <1>2, <1>3
<1>5. ListsFirst(g[N], s, N)
  BY <1>2, <1>4
<1>6. QED
  BY <1>1, <1>5 DEF N

\* Listed(s) lists the names that have a value, and no more than there are.
LEMMA ListedNames ==
    ASSUME NEW s
    PROVE  /\ Listed(s) \in Seq(Name)
           /\ \A k \in 1 .. Len(Listed(s)) : Listed(s)[k] \in Name /\ s[Listed(s)[k]] # Absent
           /\ \A n \in Name : s[n] # Absent => \E k \in 1 .. Len(Listed(s)) : Listed(s)[k] = n
           /\ Len(Listed(s)) <= Cardinality({n \in Name : s[n] # Absent})
<1> DEFINE q == Listed(s)
           T == {n \in Name : s[n] # Absent}
<1>1. ListsFirst(q, s, Len(Order))
  BY ListedLists
<1> HIDE DEF q
<1>2. q \in Seq(Name) /\ Len(q) \in Nat /\ \A k \in 1 .. Len(q) : q[k] \in Name
  BY <1>1 DEF ListsFirst
<1>3. \A n \in Name : s[n] # Absent => \E k \in 1 .. Len(q) : q[k] = n
  <2> SUFFICES ASSUME NEW n \in Name, s[n] # Absent
               PROVE  \E k \in 1 .. Len(q) : q[k] = n
    OBVIOUS
  <2>1. PICK j \in 1 .. Len(Order) : Order[j] = n
    BY OrderFacts
  <2>2. QED
    BY <1>1, <2>1 DEF ListsFirst
<1>4. \A k \in 1 .. Len(q) : q[k] \in T
  BY <1>1, <1>2 DEF ListsFirst
<1>5. IsFiniteSet(T)
  <2>1. Order \in Surjection(1 .. Len(Order), Name)
    BY OrderFacts DEF Surjection
  <2>2. IsFiniteSet(1 .. Len(Order))
    BY OrderFacts, FS_Interval
  <2>3. IsFiniteSet(Name)
    BY <2>1, <2>2, FS_Surjection
  <2>4. T \in SUBSET Name
    OBVIOUS
  <2>5. QED
    BY <2>3, <2>4, FS_Subset
<1>6. Cardinality(T) \in Nat
  BY <1>5, FS_CardinalityType
<1>7. Len(q) <= Cardinality(T)
  <2>1. SUFFICES ASSUME ~ (Len(q) <= Cardinality(T)) PROVE FALSE
    OBVIOUS
  <2>2. IsFiniteSet(1 .. Len(q)) /\ Cardinality(1 .. Len(q)) = Len(q)
    <3>1. 1 \in Int /\ Len(q) \in Int /\ Len(q) >= 0
      BY <1>2
    <3>2. Cardinality(1 .. Len(q)) = IF 1 > Len(q) THEN 0 ELSE Len(q) - 1 + 1
      BY <3>1, FS_Interval
    <3>3. IsFiniteSet(1 .. Len(q))
      BY <3>1, FS_Interval
    <3>4. QED
      BY <3>1, <3>2, <3>3
  <2>3. [k \in 1 .. Len(q) |-> q[k]] \in [1 .. Len(q) -> T]
    BY <1>4
  <2>4. Cardinality(T) < Cardinality(1 .. Len(q))
    BY <1>2, <1>6, <2>1, <2>2
  <2> DEFINE f == [k \in 1 .. Len(q) |-> q[k]]
  <2> HIDE DEF T
  <2>5. PICK x \in 1 .. Len(q), y \in 1 .. Len(q) : x # y /\ f[x] = f[y]
    <3> HIDE DEF f
    <3>1. f \in [1 .. Len(q) -> T]
      BY <2>3 DEF f
    <3>2. QED
      BY <1>5, <2>2, <2>4, <3>1, FS_PigeonHole
  <2>6. q[x] = q[y]
    BY <2>5
  <2>7. QED
    BY <1>1, <2>5, <2>6 DEF ListsFirst
<1>8. QED
  BY <1>2, <1>3, <1>4, <1>7 DEF q

-----------------------------------------------------------------------------
(***************************************************************************)
(* Images and their lists.                                                 *)
(***************************************************************************)
LEMMA Sizes ==
    /\ Room \in Nat /\ Room >= 1 /\ Half \in Nat /\ Half >= 1 /\ Half <= Room
    /\ Position = 1 .. Room + 1 /\ \A i \in Position : i \in Nat /\ i >= 1 /\ i <= Room + 1
BY StoreAssumption DEF Position

\* The list of an image has an end: a NUL with nothing but tuples before it.
EndAt(img, e) == img.cells[e] = Nul /\ \A i \in 1 .. e - 1 : IsTuple(img.cells[i])
HasEnd(img)   == \E e \in Position : EndAt(img, e)

\* What the tuples of the list say, whether their '=' is there or not.
ListStore(img) == StoreUpTo(img, ListEnd(img) - 1)

\* A cell is a tuple or one of the three special ones.
LEMMA CellFacts ==
    /\ Nul \in Cell /\ Erased \in Cell /\ BeyondEof \in Cell
    /\ Nul # Erased /\ Nul # BeyondEof /\ Erased # BeyondEof
    /\ ~ IsTuple(Nul) /\ ~ IsTuple(Erased) /\ ~ IsTuple(BeyondEof)
    /\ \A c \in Cell : IsTuple(c) => c \in Tuple /\ c.name \in Name /\ c.value \in Value /\ c.eq \in BOOLEAN
<1>1. {Nul, Erased, BeyondEof} \cap Tuple = {} /\ Nul # Erased /\ Nul # BeyondEof /\ Erased # BeyondEof
  BY CellAssumption
<1>2. \A c \in Tuple : IsTuple(c) /\ c \in Cell /\ c.name \in Name /\ c.value \in Value /\ c.eq \in BOOLEAN
  BY <1>1 DEF IsTuple, Cell, Tuple
<1>3. \A c \in Cell : IsTuple(c) => c \in Tuple
  BY DEF IsTuple, Cell
<1>4. QED
  BY <1>1, <1>2, <1>3 DEF IsTuple, Cell

\* A name, a value and what is between them make a tuple and none of the special cells.
LEMMA NewTuple ==
    ASSUME NEW n \in Name, NEW v \in Value, NEW b \in BOOLEAN
    PROVE  LET c == [name |-> n, value |-> v, eq |-> b]
           IN  c \in Cell /\ IsTuple(c) /\ c.name = n /\ c.value = v /\ (Readable(c) <=> b)
BY CellAssumption DEF Readable, IsTuple, Cell, Tuple

\* A non-empty set of positions has a least one.
LEMMA MinPosition ==
    ASSUME NEW T, T \subseteq Nat, T # {}
    PROVE  Min(T) \in T /\ \A y \in T : Min(T) <= y
<1>1. \E x \in T : \A y \in T : x <= y
  BY LeastNat
<1>2. QED
  BY <1>1 DEF Min

\* A non-empty set of positions has a greatest one.
LEMMA MaxPosition ==
    ASSUME NEW T, NEW b \in Nat, T \subseteq 0 .. b, T # {}
    PROVE  Max(T) \in T
<1>1. \E x \in T : \A y \in T : y <= x
  BY GreatestNat
<1>2. \E x \in T : \A y \in T : x >= y
  BY <1>1
<1>3. QED
  BY <1>2 DEF Max

\* The list ends at a cell that is no tuple, with only tuples before it, or at the last position.
LEMMA ListEndIs ==
    ASSUME NEW img
    PROVE  /\ ListEnd(img) \in Position
           /\ \A i \in 1 .. ListEnd(img) - 1 : IsTuple(img.cells[i])
           /\ IsTuple(img.cells[ListEnd(img)]) => ListEnd(img) = Room + 1
<1> DEFINE T == {i \in Position : ~ IsTuple(img.cells[i])} \cup {Room + 1}
<1>1. T \subseteq Nat /\ T # {} /\ T \subseteq Position
  BY Sizes
<1>2. \A i \in Position : i \notin T => IsTuple(img.cells[i])
  OBVIOUS
<1>3. \A i \in T : IsTuple(img.cells[i]) => i = Room + 1
  OBVIOUS
<1> DEFINE e == Min(T)
<1> HIDE DEF T
<1>4. e \in T /\ \A y \in T : e <= y
  BY <1>1, MinPosition
<1>5. ListEnd(img) = e
  BY DEF ListEnd, T
<1> HIDE DEF e
<1>6. \A i \in 1 .. e - 1 : i \in Position /\ i \notin T
  BY <1>1, <1>4, Sizes
<1>7. QED
  BY <1>1, <1>2, <1>3, <1>4, <1>5, <1>6

\* The NUL that a list ends with is where ListEnd finds it.
LEMMA EndIsListEnd ==
    ASSUME NEW img, NEW e \in Position, EndAt(img, e)
    PROVE  ListEnd(img) = e
<1> DEFINE l == ListEnd(img)
<1>1. /\ l \in Position /\ \A i \in 1 .. l - 1 : IsTuple(img.cells[i])
      /\ IsTuple(img.cells[l]) => l = Room + 1
  BY ListEndIs
<1> HIDE DEF l
<1>2. ~ IsTuple(img.cells[e]) /\ \A i \in 1 .. e - 1 : IsTuple(img.cells[i])
  BY CellFacts DEF EndAt
<1>3. ~ (e < l)
  <2> SUFFICES ASSUME e < l PROVE FALSE
    OBVIOUS
  <2>1. e \in 1 .. l - 1
    BY <1>1, Sizes
  <2>2. QED
    BY <1>1, <1>2, <2>1
<1>4. ~ (l < e)
  <2> SUFFICES ASSUME l < e PROVE FALSE
    OBVIOUS
  <2>1. l \in 1 .. e - 1 /\ l # Room + 1
    BY <1>1, Sizes
  <2>2. QED
    BY <1>1, <1>2, <2>1
<1>5. QED
  BY <1>1, <1>3, <1>4, Sizes DEF l

\* A list is holed exactly if it has no end.
LEMMA HoledIs == ASSUME NEW img PROVE Holed(img) <=> ~ HasEnd(img)
<1>1. ASSUME HasEnd(img) PROVE ~ Holed(img)
  <2>1. PICK e \in Position : EndAt(img, e)
    BY <1>1 DEF HasEnd
  <2>2. QED
    BY <2>1, EndIsListEnd DEF Holed, EndAt
<1>2. ASSUME ~ Holed(img) PROVE HasEnd(img)
  BY <1>2, ListEndIs DEF Holed, HasEnd, EndAt
<1>3. QED
  BY <1>1, <1>2

\* What the list of an image says of one name.
LEMMA StoreAt ==
    ASSUME NEW img, img.cells \in [Position -> Cell], NEW n \in Name
    PROVE  LET inList(i) == i \in 1 .. ListEnd(img) - 1 /\ img.cells[i].name = n
           IN  \/ ListStore(img)[n] = Absent /\ \A i \in Position : ~ inList(i)
               \/ \E i \in Position : inList(i) /\ ListStore(img)[n] = img.cells[i].value
<1> DEFINE l == ListEnd(img)
           at == {i \in 1 .. l - 1 : img.cells[i].name = n}
<1>1. ListStore(img)[n] = IF at = {} THEN Absent ELSE img.cells[Max(at)].value
  BY DEF ListStore, StoreUpTo
<1>2. l \in Position
  BY ListEndIs
<1> HIDE DEF l
<1>3. at \subseteq 0 .. Room + 1 /\ Room + 1 \in Nat /\ at \subseteq Position
  BY <1>2, Sizes
<1>4. CASE at = {}
  BY <1>1, <1>4 DEF l
<1>5. CASE at # {}
  <2>1. Max(at) \in at
    <3> HIDE DEF at
    <3>1. QED
      BY <1>3, <1>5, MaxPosition
  <2>2. ListStore(img)[n] = img.cells[Max(at)].value
    BY <1>1, <1>5
  <2> DEFINE m == Max(at)
  <2>3. m \in Position /\ m \in 1 .. l - 1 /\ img.cells[m].name = n
    BY <1>3, <2>1
  <2> HIDE DEF m
  <2>4. QED
    BY <2>2, <2>3 DEF l, m
<1>6. QED
  BY <1>4, <1>5

\* What an image holds is a store.
LEMMA StoreType ==
    ASSUME NEW img, img.cells \in [Position -> Cell]
    PROVE  ListStore(img) \in Store
<1>1. ASSUME NEW n \in Name PROVE ListStore(img)[n] \in Value \cup {Absent}
  <2>1. \A i \in Position : i \in 1 .. ListEnd(img) - 1 => IsTuple(img.cells[i]) /\ img.cells[i] \in Cell
    BY ListEndIs
  <2>2. \A i \in Position : i \in 1 .. ListEnd(img) - 1 => img.cells[i].value \in Value
    BY <2>1, CellFacts
  <2>3. QED
    BY <2>2, StoreAt
<1>2. ListStore(img) = [n \in Name |-> ListStore(img)[n]]
  BY DEF ListStore, StoreUpTo
<1> DEFINE s == ListStore(img)
<1> HIDE DEF s
<1>3. s = [n \in Name |-> s[n]] /\ \A n \in Name : s[n] \in Value \cup {Absent}
  BY <1>1, <1>2 DEF s
<1>4. s \in Store
  BY <1>3 DEF Store
<1>5. QED
  BY <1>4 DEF s

\* Two images whose lists are the same up to the NUL hold the same.
LEMMA SameList ==
    ASSUME NEW a, a.cells \in [Position -> Cell], NEW b, b.cells \in [Position -> Cell],
           NEW e \in Position, EndAt(a, e), \A i \in 1 .. e : b.cells[i] = a.cells[i]
    PROVE  EndAt(b, e) /\ ListStore(b) = ListStore(a)
<1>1. e \in 1 .. e /\ \A i \in 1 .. e - 1 : i \in 1 .. e
  BY Sizes
<1>2. EndAt(b, e)
  BY <1>1 DEF EndAt
<1>3. ListEnd(a) = e /\ ListEnd(b) = e
  BY <1>2, EndIsListEnd
<1>4. \A n \in Name : {i \in 1 .. e - 1 : b.cells[i].name = n} = {i \in 1 .. e - 1 : a.cells[i].name = n}
  BY <1>1
<1>5. ASSUME NEW n \in Name PROVE ListStore(b)[n] = ListStore(a)[n]
  <2> DEFINE at == {i \in 1 .. e - 1 : a.cells[i].name = n}
  <2>1. /\ ListStore(a)[n] = IF at = {} THEN Absent ELSE a.cells[Max(at)].value
        /\ ListStore(b)[n] = IF at = {} THEN Absent ELSE b.cells[Max(at)].value
    BY <1>3, <1>4 DEF ListStore, StoreUpTo
  <2>2. at # {} => Max(at) \in at
    <3>1. at \subseteq 0 .. Room + 1 /\ Room + 1 \in Nat
      BY Sizes
    <3> HIDE DEF at
    <3>2. QED
      BY <3>1, MaxPosition
  <2>3. at # {} => b.cells[Max(at)] = a.cells[Max(at)]
    BY <1>1, <2>2
  <2> HIDE DEF at
  <2>4. QED
    BY <2>1, <2>3
<1>6. ListStore(a) = [n \in Name |-> ListStore(a)[n]] /\ ListStore(b) = [n \in Name |-> ListStore(b)[n]]
  BY DEF ListStore, StoreUpTo
<1> DEFINE s == ListStore(a)
           t == ListStore(b)
<1> HIDE DEF s, t
<1>7. s = t
  <2>1. s = [n \in Name |-> s[n]] /\ t = [n \in Name |-> t[n]] /\ \A n \in Name : t[n] = s[n]
    BY <1>5, <1>6 DEF s, t
  <2>2. QED
    BY <2>1
<1>8. QED
  BY <1>2, <1>7 DEF s, t

\* Only the cells count.
LEMMA SameCells ==
    ASSUME NEW a, NEW b, a.cells = b.cells
    PROVE  ListStore(a) = ListStore(b) /\ HasEnd(a) = HasEnd(b) /\ Short(a) = Short(b)
BY DEF ListStore, StoreUpTo, ListEnd, HasEnd, EndAt, Short

\* The list holds s: its tuples are pairs of s, and none is missing.
Lists(img, e, s) ==
    /\ \A i \in 1 .. e - 1 : IsTuple(img.cells[i]) /\ img.cells[i].value = s[img.cells[i].name]
    /\ \A n \in Name : s[n] # Absent => \E i \in 1 .. e - 1 : img.cells[i].name = n

\* An image whose list is a row of pairs of s, none of s missing, holds s.
LEMMA ListHolds ==
    ASSUME NEW img, img.cells \in [Position -> Cell], NEW s \in Store,
           NEW e \in Position, img.cells[e] = Nul, Lists(img, e, s)
    PROVE  EndAt(img, e) /\ ListStore(img) = s
<1>1. EndAt(img, e)
  BY DEF EndAt, Lists
<1>2. ListEnd(img) = e
  BY <1>1, EndIsListEnd
<1>3. \A i \in 1 .. e - 1 : i \in Position /\ img.cells[i] \in Cell
  BY Sizes
<1>4. ASSUME NEW n \in Name PROVE ListStore(img)[n] = s[n]
  <2>1. CASE \E i \in Position : /\ i \in 1 .. e - 1 /\ img.cells[i].name = n
                                 /\ ListStore(img)[n] = img.cells[i].value
    BY <2>1 DEF Lists
  <2>2. CASE ListStore(img)[n] = Absent /\ \A i \in Position : ~ (i \in 1 .. e - 1 /\ img.cells[i].name = n)
    BY <1>3, <2>2 DEF Lists
  <2>3. QED
    BY <1>2, <2>1, <2>2, StoreAt
<1>5. ListStore(img) = [n \in Name |-> ListStore(img)[n]] /\ s = [n \in Name |-> s[n]]
  BY DEF ListStore, StoreUpTo, Store
<1> DEFINE t == ListStore(img)
<1> HIDE DEF t
<1>6. t = s
  <2>1. t = [n \in Name |-> t[n]] /\ s = [n \in Name |-> s[n]] /\ \A n \in Name : t[n] = s[n]
    BY <1>4, <1>5 DEF t
  <2>2. QED
    BY <2>1
<1>7. QED
  BY <1>1, <1>6 DEF t

\* No '=' is missing.
AllRead(img) == \A i \in Position : IsTuple(img.cells[i]) => Readable(img.cells[i])

\* The image of the first store.
LEMMA ImageOfFirst ==
    /\ ImageOf(FirstStore) \in Image /\ ~ Short(ImageOf(FirstStore))
    /\ HasEnd(ImageOf(FirstStore)) /\ ListStore(ImageOf(FirstStore)) = FirstStore
    /\ FirstStore \in Store /\ AllRead(ImageOf(FirstStore))
<1> DEFINE q == Listed(FirstStore)
           img == ImageOf(FirstStore)
<1>1. FirstStore \in Store
  BY StoreAssumption DEF Store
<1>2. /\ q \in Seq(Name) /\ Len(q) \in Nat
      /\ \A k \in 1 .. Len(q) : q[k] \in Name /\ FirstStore[q[k]] # Absent
      /\ \A n \in Name : FirstStore[n] # Absent => \E k \in 1 .. Len(q) : q[k] = n
  <2>1. /\ q \in Seq(Name)
        /\ \A k \in 1 .. Len(q) : q[k] \in Name /\ FirstStore[q[k]] # Absent
        /\ \A n \in Name : FirstStore[n] # Absent => \E k \in 1 .. Len(q) : q[k] = n
    BY ListedNames, Zenon
  <2> HIDE DEF q
  <2>2. QED
    BY <2>1
<1>3. Len(q) < Room
  <2>1. Len(q) <= Cardinality({n \in Name : FirstStore[n] # Absent})
    BY ListedNames
  <2>2. Cardinality({n \in Name : FirstStore[n] # Absent}) < Room
    BY StoreAssumption
  <2> DEFINE c == Cardinality({n \in Name : FirstStore[n] # Absent})
  <2>3. c \in Nat
    <3>1. IsFiniteSet(Name)
      <4>1. Order \in Surjection(1 .. Len(Order), Name)
        BY OrderFacts DEF Surjection
      <4>2. QED
        BY <4>1, OrderFacts, FS_Interval, FS_Surjection
    <3>2. {n \in Name : FirstStore[n] # Absent} \in SUBSET Name
      OBVIOUS
    <3>3. QED
      BY <3>1, <3>2, FS_Subset, FS_CardinalityType
  <2> HIDE DEF c
  <2>4. Len(q) <= c /\ c < Room
    BY <2>1, <2>2 DEF c
  <2>5. QED
    BY <1>2, <2>3, <2>4, Sizes
<1> DEFINE e == Len(q) + 1
<1>4. e \in Position /\ e = Len(q) + 1
  BY <1>2, <1>3, Sizes
<1> HIDE DEF q
<1>5. /\ img.magic = TRUE /\ img.len = Len(q)
      /\ img.cells = [i \in Position |-> CASE i <= Len(q) -> [name |-> q[i], value |-> FirstStore[q[i]], eq |-> TRUE]
                                           [] i = Len(q) + 1 -> Nul
                                           [] OTHER -> Erased]
      /\ img = [magic |-> img.magic, len |-> img.len, cells |-> img.cells]
  BY DEF ImageOf, q
<1> HIDE DEF img, e
<1>6. ASSUME NEW i \in Position
      PROVE  /\ i <= Len(q) => i \in 1 .. Len(q) /\ img.cells[i] = [name |-> q[i], value |-> FirstStore[q[i]], eq |-> TRUE]
             /\ i = e => img.cells[i] = Nul
             /\ i > e => img.cells[i] = Erased
  BY <1>2, <1>4, <1>5, Sizes
<1>7. ASSUME NEW i \in Position, i <= Len(q)
      PROVE  /\ img.cells[i] \in Cell /\ IsTuple(img.cells[i])
             /\ img.cells[i].name = q[i] /\ img.cells[i].value = FirstStore[q[i]]
             /\ Readable(img.cells[i])
  <2>1. i \in 1 .. Len(q)
    BY <1>6, <1>7
  <2>2. q[i] \in Name /\ FirstStore[q[i]] # Absent
    BY <1>2, <2>1
  <2> DEFINE n == q[i]
             v == FirstStore[q[i]]
  <2>3. n \in Name /\ v \in Value
    BY <1>1, <2>2 DEF Store
  <2>4. img.cells[i] = [name |-> n, value |-> v, eq |-> TRUE]
    BY <1>6, <1>7
  <2> HIDE DEF n, v
  <2>5. /\ img.cells[i] \in Cell /\ IsTuple(img.cells[i]) /\ img.cells[i].name = n /\ img.cells[i].value = v
        /\ Readable(img.cells[i])
    <3>1. [name |-> n, value |-> v, eq |-> TRUE] \in Cell
          /\ IsTuple([name |-> n, value |-> v, eq |-> TRUE]) /\ Readable([name |-> n, value |-> v, eq |-> TRUE])
      BY <2>3, NewTuple
    <3>2. QED
      BY <2>4, <3>1
  <2>6. QED
    BY <2>5 DEF n, v
<1>8. \A i \in Position : img.cells[i] \in Cell /\ img.cells[i] # BeyondEof
  <2> SUFFICES ASSUME NEW i \in Position PROVE img.cells[i] \in Cell /\ img.cells[i] # BeyondEof
    OBVIOUS
  <2>1. i <= Len(q) \/ i = e \/ i > e
    BY <1>2, <1>4, Sizes
  <2>2. QED
    BY <1>6, <1>7, <2>1, CellFacts
<1>9. img.cells \in [Position -> Cell]
  <2>1. img.cells = [i \in Position |-> img.cells[i]]
    BY <1>5
  <2>2. QED
    BY <1>8, <2>1
<1>10. img \in Image
  <2>1. img.len \in 0 .. Room
    BY <1>2, <1>3, <1>5, Sizes
  <2>2. ~ (Room + 1 <= Len(q)) /\ Room + 1 \in Position
    BY <1>2, <1>3, Sizes
  <2>3. img.cells[Room + 1] \in {Nul, Erased}
    BY <1>5, <2>2
  <2>4. QED
    BY <1>5, <1>9, <2>1, <2>3, CellFacts DEF Image, Cells
<1>11. Lists(img, e, FirstStore)
  <2>1. \A i \in 1 .. e - 1 : i \in Position /\ i <= Len(q)
    BY <1>2, <1>3, <1>4, Sizes
  <2>2. \A k \in 1 .. Len(q) : k \in Position /\ k <= Len(q) /\ k \in 1 .. e - 1
    BY <1>2, <1>3, <1>4, Sizes
  <2>3. QED
    BY <1>2, <1>7, <2>1, <2>2 DEF Lists
<1>12. EndAt(img, e) /\ ListStore(img) = FirstStore
  BY <1>1, <1>4, <1>6, <1>9, <1>11, ListHolds
<1>13. AllRead(img)
  <2> SUFFICES ASSUME NEW i \in Position, IsTuple(img.cells[i]) PROVE Readable(img.cells[i])
    BY DEF AllRead
  <2>1. i <= Len(q) \/ i = e \/ i > e
    BY <1>2, <1>4, Sizes
  <2>2. QED
    BY <1>6, <1>7, <2>1, CellFacts
<1>14. QED
  BY <1>1, <1>4, <1>8, <1>10, <1>12, <1>13 DEF HasEnd, Short, img

\* The list that a parser reads is the list, if no '=' of it is missing.
LEMMA ReadAll ==
    ASSUME NEW img, AllRead(img)
    PROVE  StoreOf(img) = ListStore(img) /\ ParseEnd(img) = ListEnd(img)
<1>1. {i \in Position : ~ Readable(img.cells[i])} = {i \in Position : ~ IsTuple(img.cells[i])}
  BY DEF AllRead, Readable
<1>2. ParseEnd(img) = ListEnd(img)
  BY <1>1 DEF ParseEnd, ListEnd
<1>3. QED
  BY <1>2 DEF StoreOf, ListStore

\* Nor if the tuples stay tuples, whatever becomes of the '='.
LEMMA SameTuples ==
    ASSUME NEW a, NEW b,
           \A i \in Position : /\ IsTuple(b.cells[i]) <=> IsTuple(a.cells[i])
                               /\ IsTuple(a.cells[i]) => /\ b.cells[i].name = a.cells[i].name
                                                         /\ b.cells[i].value = a.cells[i].value
    PROVE  ListEnd(b) = ListEnd(a) /\ ListStore(b) = ListStore(a)
<1>1. {i \in Position : ~ IsTuple(b.cells[i])} = {i \in Position : ~ IsTuple(a.cells[i])}
  <2>1. \A i \in Position : ~ IsTuple(b.cells[i]) <=> ~ IsTuple(a.cells[i])
    BY Zenon
  <2>2. QED
    BY <2>1, Zenon
<1>2. ListEnd(b) = ListEnd(a)
  BY <1>1 DEF ListEnd
<1> DEFINE l == ListEnd(a)
<1>3. \A i \in 1 .. l - 1 : i \in Position /\ IsTuple(a.cells[i])
  BY ListEndIs, Sizes
<1>9. \A i \in 1 .. l - 1 : b.cells[i].name = a.cells[i].name /\ b.cells[i].value = a.cells[i].value
  BY <1>3, Zenon
<1> HIDE DEF l
<1>4. \A n \in Name : {i \in 1 .. l - 1 : b.cells[i].name = n} = {i \in 1 .. l - 1 : a.cells[i].name = n}
  BY <1>9
<1>5. ASSUME NEW n \in Name PROVE ListStore(b)[n] = ListStore(a)[n]
  <2> DEFINE at == {i \in 1 .. l - 1 : a.cells[i].name = n}
  <2>1. /\ ListStore(a)[n] = IF at = {} THEN Absent ELSE a.cells[Max(at)].value
        /\ ListStore(b)[n] = IF at = {} THEN Absent ELSE b.cells[Max(at)].value
    BY <1>2, <1>4 DEF ListStore, StoreUpTo, l
  <2>2. at # {} => Max(at) \in at
    <3>1. at \subseteq 0 .. Room + 1 /\ Room + 1 \in Nat
      BY <1>3, Sizes
    <3> HIDE DEF at
    <3>2. QED
      BY <3>1, MaxPosition
  <2>3. at # {} => b.cells[Max(at)].value = a.cells[Max(at)].value
    BY <1>9, <2>2
  <2> HIDE DEF at
  <2>4. QED
    BY <2>1, <2>3
<1> DEFINE s == ListStore(a)
           t == ListStore(b)
<1>6. s = [n \in Name |-> s[n]] /\ t = [n \in Name |-> t[n]] /\ \A n \in Name : t[n] = s[n]
  BY <1>5 DEF ListStore, StoreUpTo
<1> HIDE DEF s, t
<1>7. s = t
  BY <1>6
<1>8. QED
  BY <1>2, <1>7 DEF s, t

-----------------------------------------------------------------------------
(***************************************************************************)
(* What is done to images.                                                 *)
(***************************************************************************)
LEMMA ImageFields ==
    ASSUME NEW img \in Image
    PROVE  /\ img.magic \in BOOLEAN /\ img.len \in 0 .. Room /\ img.cells \in [Position -> Cell]
           /\ img.cells \in Cells /\ ~ IsTuple(img.cells[Room + 1])
           /\ \A i \in Position : img.cells[i] \in Cell
           /\ \A c \in Cells : [img EXCEPT !.cells = c] \in Image
           /\ \A c \in Cells : [img EXCEPT !.magic = TRUE, !.cells = c] \in Image
           /\ \A c \in Cells, l \in 0 .. Room : [img EXCEPT !.cells = c, !.len = l] \in Image
<1>1. img.cells \in Cells
  BY DEF Image
<1>2. img.cells \in [Position -> Cell] /\ ~ IsTuple(img.cells[Room + 1])
  BY <1>1 DEF Cells
<1>3. QED
  BY <1>1, <1>2 DEF Image

\* A new file has no magic number and no cells.
LEMMA EmptyFileIs ==
    /\ EmptyFile \in Image /\ ~ EmptyFile.magic
    /\ \A i \in Position : EmptyFile.cells[i] = BeyondEof
<1>1. [i \in Position |-> BeyondEof] \in Cells
  BY CellFacts, Sizes DEF Cells
<1>2. 0 \in 0 .. Room
  BY Sizes
<1>3. QED
  BY <1>1, <1>2 DEF EmptyFile, Image

\* A first part of a copy has the header of what is copied.
LEMMA FirstPartIs ==
    ASSUME NEW to \in Image, NEW from \in Image
    PROVE  LET img == FirstPart(to, from)
           IN  /\ img \in Image /\ img.magic = from.magic /\ img.len = from.len
               /\ \A i \in Position : i <= Half => img.cells[i] = from.cells[i]
               /\ \A i \in Position : ~ (i <= Half) => img.cells[i] = to.cells[i]
               /\ ~ Short(to) /\ ~ Short(from) => ~ Short(img)
<1> DEFINE c == [i \in Position |-> IF i <= Half THEN from.cells[i] ELSE to.cells[i]]
           img == [from EXCEPT !.cells = c]
<1>1. c \in Cells
  <2>1. c \in [Position -> Cell]
    BY ImageFields
  <2>2. c[Room + 1] = from.cells[Room + 1] \/ c[Room + 1] = to.cells[Room + 1]
    BY Sizes
  <2>3. QED
    BY <2>1, <2>2, ImageFields DEF Cells
<1>2. \A i \in Position : /\ i <= Half => c[i] = from.cells[i]
                          /\ ~ (i <= Half) => c[i] = to.cells[i]
  OBVIOUS
<1> HIDE DEF c
<1>3. img \in Image /\ img.magic = from.magic /\ img.len = from.len /\ img.cells = c
  BY <1>1 DEF Image
<1>4. FirstPart(to, from) = img
  BY DEF FirstPart, c
<1> HIDE DEF img
<1>5. ~ Short(to) /\ ~ Short(from) => ~ Short(img)
  BY <1>2, <1>3 DEF Short
<1>6. QED
  BY <1>2, <1>3, <1>4, <1>5

\* The second part of a copy keeps the header and the first cells.
LEMMA RestPartIs ==
    ASSUME NEW to \in Image, NEW from \in Image
    PROVE  LET img == RestPart(to, from)
           IN  /\ img \in Image /\ img.magic = to.magic /\ img.len = to.len
               /\ \A i \in Position : i <= Half => img.cells[i] = to.cells[i]
               /\ \A i \in Position : ~ (i <= Half) => img.cells[i] = from.cells[i]
               /\ ~ Short(to) /\ ~ Short(from) => ~ Short(img)
<1> DEFINE c == [i \in Position |-> IF i <= Half THEN to.cells[i] ELSE from.cells[i]]
           img == [to EXCEPT !.cells = c]
<1>1. c \in Cells
  <2>1. c \in [Position -> Cell]
    BY ImageFields
  <2>2. c[Room + 1] = from.cells[Room + 1] \/ c[Room + 1] = to.cells[Room + 1]
    BY Sizes
  <2>3. QED
    BY <2>1, <2>2, ImageFields DEF Cells
<1>2. \A i \in Position : /\ i <= Half => c[i] = to.cells[i]
                          /\ ~ (i <= Half) => c[i] = from.cells[i]
  OBVIOUS
<1> HIDE DEF c
<1>3. img \in Image /\ img.magic = to.magic /\ img.len = to.len /\ img.cells = c
  BY <1>1 DEF Image
<1>4. RestPart(to, from) = img
  BY DEF RestPart, c
<1> HIDE DEF img
<1>5. ~ Short(to) /\ ~ Short(from) => ~ Short(img)
  BY <1>2, <1>3 DEF Short
<1>6. QED
  BY <1>2, <1>3, <1>4, <1>5

\* The first part of a copy of b has been made in img.
FirstCopied(img, b) ==
    /\ img.magic = b.magic /\ img.len = b.len
    /\ \A i \in Position : i <= Half => img.cells[i] = b.cells[i]

\* Both parts together are the whole.
LEMMA CopyIsWhole ==
    ASSUME NEW img \in Image, NEW b \in Image, FirstCopied(img, b)
    PROVE  RestPart(img, b).cells = b.cells
<1> DEFINE c == RestPart(img, b).cells
<1>1. c \in [Position -> Cell] /\ b.cells \in [Position -> Cell]
  BY RestPartIs, ImageFields
<1>2. \A i \in Position : c[i] = b.cells[i]
  <2> SUFFICES ASSUME NEW i \in Position PROVE c[i] = b.cells[i]
    OBVIOUS
  <2>1. CASE i <= Half
    BY <2>1, RestPartIs DEF FirstCopied
  <2>2. CASE ~ (i <= Half)
    BY <2>2, RestPartIs
  <2>3. QED
    BY <2>1, <2>2
<1> HIDE DEF c
<1>3. c = b.cells
  BY <1>1, <1>2
<1>4. QED
  BY <1>3 DEF c

\* nvram_commit's clearing leaves no tuple; a short file stays short.
LEMMA ClearedIs ==
    ASSUME NEW img \in Image
    PROVE  /\ Cleared(img) \in Image
           /\ \A i \in Position : img.cells[i] # BeyondEof => Cleared(img).cells[i] = Erased
           /\ \A i \in Position : ~ IsTuple(Cleared(img).cells[i])
<1> DEFINE c == [i \in Position |-> IF img.cells[i] = BeyondEof THEN BeyondEof ELSE Erased]
<1>1. c \in Cells
  BY CellFacts, Sizes DEF Cells
<1>2. Cleared(img) = [img EXCEPT !.magic = TRUE, !.cells = c]
  BY DEF Cleared
<1>3. \A i \in Position : (img.cells[i] # BeyondEof => c[i] = Erased) /\ ~ IsTuple(c[i])
  BY CellFacts
<1> HIDE DEF c
<1>4. Cleared(img) \in Image /\ Cleared(img).cells = c
  BY <1>1, <1>2, ImageFields DEF Image
<1>5. QED
  BY <1>3, <1>4

\* Writing a tuple changes one cell.
LEMMA WithTupleIs ==
    ASSUME NEW img \in Image, NEW i \in Position, i <= Room, NEW n \in Name, NEW v \in Value
    PROVE  LET new == WithTuple(img, i, n, v)
           IN  /\ new \in Image
               /\ IsTuple(new.cells[i]) /\ new.cells[i].name = n /\ new.cells[i].value = v
               /\ Readable(new.cells[i])
               /\ \A j \in Position : j # i => new.cells[j] = img.cells[j]
<1> DEFINE t == [name |-> n, value |-> v, eq |-> TRUE]
           c == [img.cells EXCEPT ![i] = t]
           new == [img EXCEPT !.cells = c]
<1>1. t \in Cell /\ IsTuple(t) /\ t.name = n /\ t.value = v /\ Readable(t)
  BY NewTuple
<1>2. WithTuple(img, i, n, v) = [img EXCEPT !.cells = c]
  BY DEF WithTuple
<1> HIDE DEF t
<1>3. c \in Cells /\ c[i] = t /\ \A j \in Position : j # i => c[j] = img.cells[j]
  <2>1. c \in [Position -> Cell] /\ c[i] = t /\ \A j \in Position : j # i => c[j] = img.cells[j]
    BY <1>1, ImageFields
  <2>2. c[Room + 1] = img.cells[Room + 1]
    BY <2>1, Sizes
  <2>3. QED
    BY <2>1, <2>2, ImageFields DEF Cells
<1> HIDE DEF c
<1>4. new \in Image /\ new.cells = c
  BY <1>3, ImageFields DEF Image
<1> HIDE DEF new
<1>5. WithTuple(img, i, n, v) = new
  BY <1>2 DEF new
<1>6. QED
  BY <1>1, <1>3, <1>4, <1>5

\* Ending the list changes one cell and the length.
LEMMA EndedIs ==
    ASSUME NEW img \in Image, NEW i \in Position
    PROVE  LET new == Ended(img, i)
           IN  /\ new \in Image /\ new.cells[i] = Nul
               /\ \A j \in Position : j # i => new.cells[j] = img.cells[j]
<1> DEFINE c == [img.cells EXCEPT ![i] = Nul]
           l == i - 1
           new == [img EXCEPT !.cells = c, !.len = l]
<1>1. Ended(img, i) = [img EXCEPT !.cells = c, !.len = l]
  BY DEF Ended
<1>2. c \in Cells /\ c[i] = Nul /\ \A j \in Position : j # i => c[j] = img.cells[j]
  <2>1. c \in [Position -> Cell] /\ c[i] = Nul /\ \A j \in Position : j # i => c[j] = img.cells[j]
    BY CellFacts, ImageFields
  <2>2. c[Room + 1] = img.cells[Room + 1] \/ c[Room + 1] = Nul
    BY <2>1, Sizes
  <2>3. QED
    BY <2>1, <2>2, CellFacts, ImageFields DEF Cells
<1>3. l \in 0 .. Room
  BY Sizes
<1> HIDE DEF c, l
<1>4. new \in Image /\ new.cells = c
  BY <1>2, <1>3, ImageFields DEF Image
<1> HIDE DEF new
<1>5. Ended(img, i) = new
  BY <1>1 DEF new
<1>6. QED
  BY <1>2, <1>4, <1>5


\* Only the '=' of one tuple changes.
LEMMA WithEqIs ==
    ASSUME NEW img \in Image, NEW i \in Position, IsTuple(img.cells[i]), NEW b \in BOOLEAN
    PROVE  LET new == WithEq(img, i, b)
           IN  /\ new \in Image
               /\ IsTuple(new.cells[i]) /\ (Readable(new.cells[i]) <=> b)
               /\ new.cells[i].name = img.cells[i].name /\ new.cells[i].value = img.cells[i].value
               /\ \A j \in Position : j # i => new.cells[j] = img.cells[j]
               /\ (\A j \in Position : new.cells[j] = Nul <=> img.cells[j] = Nul)
               /\ ListEnd(new) = ListEnd(img) /\ ListStore(new) = ListStore(img)
               /\ ~ Short(img) => ~ Short(new)
<1> DEFINE t == [img.cells[i] EXCEPT !.eq = b]
           c == [img.cells EXCEPT ![i] = t]
           new == [img EXCEPT !.cells = c]
<1>1. t \in Cell /\ IsTuple(t) /\ t.name = img.cells[i].name /\ t.value = img.cells[i].value /\ (Readable(t) <=> b)
  <2>1. img.cells[i] \in Tuple
    BY CellFacts, ImageFields
  <2> DEFINE o == img.cells[i]
  <2> HIDE DEF o
  <2>2. [o EXCEPT !.eq = b] = [name |-> o.name, value |-> o.value, eq |-> b] /\ o.name \in Name /\ o.value \in Value
    BY <2>1 DEF Tuple, o
  <2>3. t = [name |-> o.name, value |-> o.value, eq |-> b]
    BY <2>2 DEF o
  <2> HIDE DEF t
  <2>4. QED
    BY <2>2, <2>3, NewTuple DEF o
<1>2. WithEq(img, i, b) = [img EXCEPT !.cells = c]
  BY DEF WithEq
<1> HIDE DEF t
<1>3. c \in Cells /\ c[i] = t /\ \A j \in Position : j # i => c[j] = img.cells[j]
  <2>1. c \in [Position -> Cell] /\ c[i] = t /\ \A j \in Position : j # i => c[j] = img.cells[j]
    BY <1>1, ImageFields
  <2>2. i # Room + 1
    BY ImageFields
  <2>3. c[Room + 1] = img.cells[Room + 1]
    BY <2>1, <2>2, Sizes
  <2>4. QED
    BY <2>1, <2>3, ImageFields DEF Cells
<1> HIDE DEF c
<1>4. new \in Image /\ new.cells = c
  BY <1>3, ImageFields DEF Image
<1> HIDE DEF new
<1>5. WithEq(img, i, b) = new
  BY <1>2 DEF new
<1>6. \A j \in Position : /\ IsTuple(new.cells[j]) <=> IsTuple(img.cells[j])
                          /\ IsTuple(img.cells[j]) => /\ new.cells[j].name = img.cells[j].name
                                                      /\ new.cells[j].value = img.cells[j].value
  BY <1>1, <1>3, <1>4
<1>7. ListEnd(new) = ListEnd(img) /\ ListStore(new) = ListStore(img)
  BY <1>6, SameTuples
<1>8. ~ Short(img) => ~ Short(new)
  BY <1>1, <1>3, <1>4, CellFacts DEF Short
<1>9. QED
  BY <1>1, <1>3, <1>4, <1>5, <1>7, <1>8, CellFacts

\* A '=' that goes astray leaves an image, and no file short.
LEMMA StrayedIs ==
    ASSUME NEW img \in Image, NEW new \in Strayed(img)
    PROVE  new \in Image
<1>1. CASE new = img
  BY <1>1
<1>2. CASE new # img
  <2>1. PICK i \in Position : new = [img EXCEPT !.cells[i] = Erased]
    BY <1>2 DEF Strayed
  <2> DEFINE c == [img.cells EXCEPT ![i] = Erased]
  <2>2. c \in Cells
    <3>1. c \in [Position -> Cell] /\ c[i] = Erased /\ \A j \in Position : j # i => c[j] = img.cells[j]
      BY CellFacts, ImageFields
    <3>2. c[Room + 1] = img.cells[Room + 1] \/ c[Room + 1] = Erased
      BY <3>1, Sizes
    <3>3. QED
      BY <3>1, <3>2, CellFacts, ImageFields DEF Cells
  <2>3. new = [img EXCEPT !.cells = c]
    BY <2>1
  <2> HIDE DEF c
  <2>4. QED
    BY <2>2, <2>3, ImageFields
<1>3. QED
  BY <1>1, <1>2

\* Tuples at the first cells say a store.
LEMMA UpToType ==
    ASSUME NEW img \in Image, NEW k \in 0 .. Room + 1, \A i \in 1 .. k : IsTuple(img.cells[i])
    PROVE  StoreUpTo(img, k) \in Store
<1>5. \A i \in 1 .. k : i \in Position
  BY Sizes
<1>4. \A i \in 1 .. k : img.cells[i] \in Cell
  BY <1>5, ImageFields
<1>1. \A i \in 1 .. k : img.cells[i].value \in Value
  BY <1>4, CellFacts
<1>2. ASSUME NEW n \in Name
      PROVE  LET at == {i \in 1 .. k : img.cells[i].name = n}
             IN  (IF at = {} THEN Absent ELSE img.cells[Max(at)].value) \in Value \cup {Absent}
  <2> DEFINE at == {i \in 1 .. k : img.cells[i].name = n}
  <2>1. at \subseteq 1 .. k /\ at \subseteq 0 .. Room + 1 /\ Room + 1 \in Nat
    BY Sizes
  <2> HIDE DEF at
  <2>2. at # {} => Max(at) \in 1 .. k
    BY <2>1, MaxPosition
  <2>3. (IF at = {} THEN Absent ELSE img.cells[Max(at)].value) \in Value \cup {Absent}
    BY <1>1, <2>2
  <2>4. QED
    BY <2>3 DEF at
<1>3. QED
  BY <1>2 DEF StoreUpTo, Store

\* What a parser reads of an image is a store.
LEMMA ReadType == ASSUME NEW img \in Image PROVE StoreOf(img) \in Store
<1> DEFINE T == {i \in Position : ~ Readable(img.cells[i])} \cup {Room + 1}
           e == Min(T)
<1>1. T \subseteq Nat /\ T # {} /\ T \subseteq Position
  BY Sizes
<1>2. \A i \in Position : i \notin T => IsTuple(img.cells[i])
  BY DEF Readable
<1>3. ParseEnd(img) = e
  BY DEF ParseEnd
<1> HIDE DEF T
<1>4. e \in T /\ \A y \in T : e <= y
  BY <1>1, MinPosition
<1> HIDE DEF e
<1>5. e - 1 \in 0 .. Room + 1 /\ \A i \in 1 .. e - 1 : i \in Position /\ i \notin T
  BY <1>1, <1>4, Sizes
<1>6. QED
  BY <1>2, <1>3, <1>5, UpToType DEF StoreOf

-----------------------------------------------------------------------------
(***************************************************************************)
(* Where a process is, and what it has there.                              *)
(***************************************************************************)
ReaderPc == {"find_rdonly", "open_staging_rdonly", "open_flash_rdonly", "read_rest", "got"}
FilePc   == {"fill", "fill_rest", "parse", "cut", "commit", "tuples", "reparse", "recut"}
CopyPc   == {"create", "fill", "fill_rest", "save", "save_rest"}
SavingPc == {"save_read", "save", "save_rest", "unlink"}
EditPc   == {"find", "read_flash", "create", "open"} \cup FilePc
WriterPc == EditPc \cup CopyPc \cup SavingPc
Pc       == {"idle"} \cup ReaderPc \cup WriterPc

HandleOK(p) ==
    /\ pc[p] \in EditPc => cmd[p].write
    /\ pc[p] \in ReaderPc => ~ cmd[p].write
    /\ pc[p] \in SavingPc => cmd[p].commit
    /\ pc[p] \in FilePc => file[p] # NoFile
    /\ pc[p] \notin FilePc /\ pc[p] # "read_rest" => file[p] = NoFile
    /\ pc[p] \in CopyPc => buf[p] \in Image /\ ~ Short(buf[p])
    /\ pc[p] = "read_rest" => buf[p] \in Image
    /\ pc[p] \in Cutting => ptr[p] <= Room
    /\ pc[p] = "tuples" => \A i \in 1 .. Len(todo[p]) : tuples[p][todo[p][i]] # Absent

Costs == {"update", "end", "variable"}

Shape ==
    /\ flash \in Image /\ ~ Short(flash)
    /\ files \in [Inode -> Image]
    /\ staging \in Inode \cup {NoFile}
    /\ pc \in [Proc -> Pc] /\ cmd \in [Proc -> Command] /\ file \in [Proc -> Inode \cup {NoFile}]
    /\ tuples \in [Proc -> Store] /\ todo \in [Proc -> Seq(Name)] /\ ptr \in [Proc -> Position]
    /\ buf \in [Proc -> Image \cup {NoImage}] /\ seen \in [Proc -> SUBSET Store]
    /\ may \subseteq Store /\ maySaved \subseteq Store
    /\ trouble \subseteq Costs
    /\ \A p \in Proc : HandleOK(p)

\* All that process q has stays as it is.
Stays(q) ==
    /\ pc'[q] = pc[q] /\ cmd'[q] = cmd[q] /\ file'[q] = file[q] /\ tuples'[q] = tuples[q]
    /\ todo'[q] = todo[q] /\ ptr'[q] = ptr[q] /\ buf'[q] = buf[q]

\* Only process p moves.
Moves(p) ==
    /\ pc' \in [Proc -> Pc] /\ cmd' \in [Proc -> Command] /\ file' \in [Proc -> Inode \cup {NoFile}]
    /\ tuples' \in [Proc -> Store] /\ todo' \in [Proc -> Seq(Name)] /\ ptr' \in [Proc -> Position]
    /\ buf' \in [Proc -> Image \cup {NoImage}]
    /\ \A q \in Proc \ {p} : Stays(q)

\* What the command line can be.
LEMMA CommandFacts ==
    /\ (CHOOSE c \in Command : TRUE) \in Command
    /\ \A c \in Command : /\ c.write \in BOOLEAN /\ c.commit \in BOOLEAN
                          /\ ~ c.write => DOMAIN c.edits = {}
                          /\ \A n \in DOMAIN c.edits : c.edits[n] \in Value \cup {Absent}
BY CommandAssumption

\* Edits make a store of a store.
LEMMA AskedIs ==
    ASSUME NEW s \in Store, NEW c \in Command
    PROVE  Asked(s, c) \in Store /\ Edited(s, c) \in Store
<1>1. \A n \in Name : /\ s[n] \in Value \cup {Absent}
                      /\ n \in DOMAIN c.edits => c.edits[n] \in Value \cup {Absent}
  BY CommandFacts DEF Store
<1>2. QED
  BY <1>1 DEF Asked, Edited, Store

-----------------------------------------------------------------------------
(***************************************************************************)
(* What the history records.                                               *)
(***************************************************************************)
LEMMA CostIs ==
    ASSUME NEW w
    PROVE  /\ Cost(w) \in Costs
           /\ Cost(w) = "update" <=> w \in LosesUpdate
           /\ Cost(w) = "end" <=> w \in LosesEnd
<1>1. ~ (w \in LosesUpdate /\ w \in LosesEnd)
  BY DEF LosesUpdate, LosesEnd
<1>2. CASE w \in LosesUpdate
  <2>1. Cost(w) = "update"
    BY <1>1, <1>2 DEF Cost
  <2>2. QED
    BY <1>1, <1>2, <2>1 DEF Costs
<1>3. CASE w \in LosesEnd
  <2>1. Cost(w) = "end"
    BY <1>1, <1>3 DEF Cost
  <2>2. QED
    BY <1>1, <1>3, <2>1 DEF Costs
<1>4. CASE w \notin LosesUpdate /\ w \notin LosesEnd
  <2>1. Cost(w) = "variable"
    BY <1>4 DEF Cost
  <2>2. QED
    BY <1>4, <2>1 DEF Costs
<1>5. QED
  BY <1>2, <1>3, <1>4

\* Noting what happened only adds to trouble; trouble after the step bounds what was noted.
LEMMA NoteIs ==
    ASSUME NEW what, Note(what)
    PROVE  /\ trouble \subseteq Costs => trouble' \subseteq Costs
           /\ trouble \subseteq trouble'
           /\ "end" \notin trouble' => "end" \notin trouble /\ \A w \in what : w \notin LosesEnd
           /\ trouble' \subseteq {"update"} => /\ trouble \subseteq {"update"}
                                               /\ \A w \in what : w \in LosesUpdate
           /\ trouble' = {} => trouble = {} /\ what = {}
<1>1. trouble' = trouble \cup {Cost(w) : w \in what}
  BY DEF Note
<1>2. \A w \in what : Cost(w) \in trouble'
  BY <1>1
<1>3. trouble \subseteq Costs => trouble' \subseteq Costs
  BY <1>1, CostIs
<1>4. "end" \notin trouble' => "end" \notin trouble /\ \A w \in what : w \notin LosesEnd
  BY <1>1, <1>2, CostIs
<1>5. trouble' \subseteq {"update"} => trouble \subseteq {"update"} /\ \A w \in what : w \in LosesUpdate
  <2> SUFFICES ASSUME trouble' \subseteq {"update"}
               PROVE  trouble \subseteq {"update"} /\ \A w \in what : w \in LosesUpdate
    OBVIOUS
  <2>1. \A w \in what : Cost(w) = "update"
    BY <1>2
  <2>2. QED
    BY <1>1, <2>1, CostIs
<1>6. trouble' = {} => trouble = {} /\ what = {}
  BY <1>1, <1>2
<1>7. QED
  BY <1>1, <1>3, <1>4, <1>5, <1>6

\* When notes a case exactly if its condition holds.
LEMMA WhenIs == ASSUME NEW condition, NEW w PROVE w \in When(condition, w) <=> condition
BY DEF When

\* What costs an end or a variable does not count as a lost update.
LEMMA LossKinds ==
    /\ \A w \in {"killed_in_commit", "killed_in_copy", "no_space", "faulted", "torn_copy", "torn_save",
                 "mixed_copy", "over_cut"} : w \in LosesEnd /\ w \notin LosesUpdate
    /\ \A w \in {"interleaved", "torn_open", "dropped", "io_error", "torn_unbacked", "killed_in_rehash"} : w \notin LosesUpdate
BY DEF LosesEnd, LosesUpdate

\* The stores there may be after the command of p.
After(p) == {Asked(s, cmd[p]) : s \in may}

\* What may be afterwards, for a command that took effect, may have, or did not.
LEMMA SettleIs ==
    ASSUME NEW p, NEW effect \in {"kept", "perhaps", "none"}, Settle(p, effect)
    PROVE  /\ trouble' # {} => may' = {} /\ maySaved' = {}
           /\ trouble' = {} =>
                /\ effect = "kept" => may' = After(p)
                /\ effect = "perhaps" => may' = may \cup After(p)
                /\ effect = "none" => may' = may
                /\ ~ cmd[p].commit \/ effect = "none" => maySaved' = maySaved
                /\ cmd[p].commit /\ effect = "kept" => maySaved' = After(p)
                /\ cmd[p].commit /\ effect = "perhaps" => maySaved' = maySaved \cup may \cup After(p)
<1> DEFINE after == {Asked(s, cmd[p]) : s \in may}
           expected == CASE effect = "kept" -> after
                         [] effect = "perhaps" -> may \cup after
                         [] OTHER -> may
           saved == CASE ~ cmd[p].commit \/ effect = "none" -> maySaved
                      [] cmd[p].commit /\ effect = "kept" -> after
                      [] OTHER -> maySaved \cup expected
<1>1. /\ may' = IF trouble' = {} THEN expected ELSE {}
      /\ maySaved' = IF trouble' = {} THEN saved ELSE {}
  BY DEF Settle
<1>2. after = After(p)
  BY DEF After
<1> HIDE DEF after
<1>3. /\ effect = "kept" => expected = after
      /\ effect = "perhaps" => expected = may \cup after
      /\ effect = "none" => expected = may
  OBVIOUS
<1>4. /\ ~ cmd[p].commit \/ effect = "none" => saved = maySaved
      /\ cmd[p].commit /\ effect = "kept" => saved = after
      /\ cmd[p].commit /\ effect = "perhaps" => saved = maySaved \cup may \cup after
  OBVIOUS
<1> HIDE DEF expected, saved
<1>5. QED
  BY <1>1, <1>2, <1>3, <1>4

\* What there may be after a command are stores.
LEMMA AfterType ==
    ASSUME Shape, NEW p \in Proc
    PROVE  After(p) \subseteq Store
<1>1. cmd[p] \in Command /\ may \subseteq Store
  BY DEF Shape
<1>2. QED
  BY <1>1, AskedIs DEF After

\* A command that is over leaves stores in may and maySaved.
LEMMA SettleType ==
    ASSUME Shape, NEW p \in Proc, NEW effect \in {"kept", "perhaps", "none"}, Settle(p, effect)
    PROVE  may' \subseteq Store /\ maySaved' \subseteq Store
<1>1. may \subseteq Store /\ maySaved \subseteq Store /\ After(p) \subseteq Store
  BY AfterType DEF Shape
<1>2. cmd[p].commit \in BOOLEAN
  BY CommandFacts DEF Shape
<1>3. CASE trouble' # {}
  BY <1>3, SettleIs
<1>4. CASE trouble' = {}
  BY <1>1, <1>2, <1>4, SettleIs
<1>5. QED
  BY <1>3, <1>4

-----------------------------------------------------------------------------
(***************************************************************************)
(* The steps, as far as types and handles go.                              *)
(***************************************************************************)
LEMMA ShapeKept ==
    ASSUME Shape, NEW p \in Proc, Moves(p), HandleOK(p)',
           flash' \in Image, ~ Short(flash'), files' \in [Inode -> Image], staging' \in Inode \cup {NoFile},
           seen' \in [Proc -> SUBSET Store], may' \subseteq Store, maySaved' \subseteq Store,
           trouble' \subseteq Costs
    PROVE  Shape'
<1>1. ASSUME NEW q \in Proc \ {p} PROVE HandleOK(q)'
  BY DEF Shape, HandleOK, Moves, Stays
<1>2. \A q \in Proc : HandleOK(q)'
  BY <1>1
<1>3. QED
  BY <1>2 DEF Shape, Moves

\* A process that does not run is at none of the places of a command.
LEMMA PcSets ==
    /\ "idle" \in Pc /\ "idle" \notin WriterPc /\ "idle" \notin ReaderPc /\ "idle" \notin SavingPc
    /\ "idle" \notin FilePc /\ "idle" \notin CopyPc /\ "idle" \notin EditPc /\ "idle" # "read_rest"
    /\ Cutting = {"cut", "recut"} /\ Cutting \subseteq FilePc /\ "read_rest" \in ReaderPc
    /\ FilePc \subseteq EditPc /\ EditPc \subseteq WriterPc /\ "idle" \notin Cutting
BY DEF Pc, ReaderPc, FilePc, CopyPc, SavingPc, WriterPc, EditPc, Cutting

\* A process that is gone has no file, and the others stay as they are.
LEMMA GoneIs ==
    ASSUME Shape, NEW p \in Proc, Gone(p)
    PROVE  /\ Moves(p) /\ HandleOK(p)'
           /\ pc'[p] = "idle" /\ file'[p] = NoFile
           /\ seen' = [seen EXCEPT ![p] = {}] /\ seen' \in [Proc -> SUBSET Store]
<1>1. /\ pc' = [pc EXCEPT ![p] = "idle"] /\ file' = [file EXCEPT ![p] = NoFile]
      /\ tuples' = [tuples EXCEPT ![p] = FirstStore] /\ todo' = [todo EXCEPT ![p] = <<>>]
      /\ ptr' = [ptr EXCEPT ![p] = 1] /\ buf' = [buf EXCEPT ![p] = NoImage]
      /\ cmd' = [cmd EXCEPT ![p] = CHOOSE c \in Command : TRUE] /\ seen' = [seen EXCEPT ![p] = {}]
  BY DEF Gone, Goto
<1>2. FirstStore \in Store /\ <<>> \in Seq(Name) /\ 1 \in Position
      /\ (CHOOSE c \in Command : TRUE) \in Command
  BY ImageOfFirst, CommandFacts, Sizes
<1> DEFINE c0 == CHOOSE c \in Command : TRUE
<1> HIDE DEF c0
<1>3. cmd' = [cmd EXCEPT ![p] = c0] /\ c0 \in Command
  BY <1>1, <1>2 DEF c0
<1>4. /\ pc' \in [Proc -> Pc] /\ cmd' \in [Proc -> Command] /\ file' \in [Proc -> Inode \cup {NoFile}]
      /\ tuples' \in [Proc -> Store] /\ todo' \in [Proc -> Seq(Name)] /\ ptr' \in [Proc -> Position]
      /\ buf' \in [Proc -> Image \cup {NoImage}] /\ seen' \in [Proc -> SUBSET Store]
  BY <1>1, <1>2, <1>3, PcSets DEF Shape
<1>5. \A q \in Proc \ {p} : Stays(q)
  BY <1>1, <1>3 DEF Shape, Stays
<1>6. pc'[p] = "idle" /\ file'[p] = NoFile
  BY <1>1 DEF Shape
<1>7. HandleOK(p)'
  BY <1>6, PcSets DEF HandleOK
<1>8. QED
  BY <1>1, <1>4, <1>5, <1>6, <1>7 DEF Moves

\* A process that ends by itself: what it leaves.
LEMMA ExitIs ==
    ASSUME Shape, NEW p \in Proc, NEW effect \in {"kept", "perhaps", "none"}, NEW what,
           Exit(p, effect, what)
    PROVE  /\ Note(what) /\ Settle(p, effect)
           /\ Moves(p) /\ HandleOK(p)'
           /\ pc'[p] = "idle" /\ file'[p] = NoFile
           /\ seen' = [seen EXCEPT ![p] = {}] /\ seen' \in [Proc -> SUBSET Store]
           /\ may' \subseteq Store /\ maySaved' \subseteq Store /\ trouble' \subseteq Costs
<1>1. Note(what) /\ Gone(p) /\ Settle(p, effect)
  BY DEF Exit
<1>2. trouble' \subseteq Costs
  BY <1>1, NoteIs DEF Shape
<1>3. QED
  BY <1>1, <1>2, GoneIs, SettleType

\* A process that ends by itself keeps Shape.
LEMMA ExitShape ==
    ASSUME Shape, NEW p \in Proc, NEW effect \in {"kept", "perhaps", "none"}, NEW what,
           Exit(p, effect, what), flash' = flash,
           files' \in [Inode -> Image], staging' \in Inode \cup {NoFile}
    PROVE  Shape'
<1>1. flash' \in Image /\ ~ Short(flash')
  BY DEF Shape
<1>2. QED
  BY <1>1, ExitIs, ShapeKept

\* A command begins.
LEMMA StartIs ==
    ASSUME Shape, NEW p \in Proc, Start(p)
    PROVE  /\ Shape' /\ Moves(p) /\ cmd'[p] \in Command
           /\ pc[p] = "idle"
           /\ cmd'[p].write => pc'[p] = "find"
           /\ ~ cmd'[p].write => pc'[p] = "find_rdonly"
           /\ file'[p] = NoFile
           /\ seen' = [q \in Proc |->
                CASE q = p /\ ~ cmd'[p].write ->
                       may \cup UNION {During(may, cmd[w]) : w \in {w \in Proc : Running(w) /\ Writes(cmd[w])}}
                  [] q # p /\ Reading(q) -> During(seen[q] \cup may, cmd'[p])
                  [] OTHER -> {}]
           /\ Note(When(Writes(cmd'[p]) /\ {w \in Proc : Running(w) /\ Writes(cmd[w])} # {}, "overlap"))
           /\ UNCHANGED <<flash, files, staging, may, maySaved, flashTorn>>
<1> DEFINE writers == {w \in Proc : Running(w) /\ Writes(cmd[w])}
<1>1. pc[p] = "idle" /\ UNCHANGED <<flash, files, staging, file, tuples, todo, ptr, buf, may, maySaved, flashTorn>>
  BY DEF Start
<1>2. PICK c \in Command :
           /\ cmd' = [cmd EXCEPT ![p] = c]
           /\ Goto(p, IF c.write THEN "find" ELSE "find_rdonly")
           /\ seen' = [q \in Proc |->
                CASE q = p /\ ~ c.write -> may \cup UNION {During(may, cmd[w]) : w \in writers}
                  [] q # p /\ Reading(q) -> During(seen[q] \cup may, c)
                  [] OTHER -> {}]
           /\ Note(When(Writes(c) /\ writers # {}, "overlap"))
  BY DEF Start
<1>3. cmd'[p] = c /\ cmd' \in [Proc -> Command] /\ \A q \in Proc \ {p} : cmd'[q] = cmd[q]
  BY <1>2 DEF Shape
<1>4. /\ pc' \in [Proc -> Pc] /\ \A q \in Proc \ {p} : pc'[q] = pc[q]
      /\ c.write => pc'[p] = "find"
      /\ ~ c.write => pc'[p] = "find_rdonly"
  BY <1>2 DEF Shape, Goto, Pc, WriterPc, EditPc, ReaderPc
<1>5. Moves(p)
  BY <1>1, <1>3, <1>4 DEF Moves, Stays, Shape
<1>6. file'[p] = NoFile
  BY <1>1, PcSets DEF Shape, HandleOK
<1>7. HandleOK(p)'
  <2>1. CASE c.write
    BY <1>3, <1>4, <1>6, <2>1 DEF HandleOK, ReaderPc, FilePc, CopyPc, SavingPc, Cutting
  <2>2. CASE ~ c.write
    BY <1>3, <1>4, <1>6, <2>2 DEF HandleOK, EditPc, ReaderPc, FilePc, CopyPc, SavingPc, Cutting
  <2>3. QED
    BY <2>1, <2>2
<1>8. seen' \in [Proc -> SUBSET Store]
  <2>1. \A S \in SUBSET Store, d \in Command : During(S, d) \in SUBSET Store
    BY AskedIs DEF During
  <2>2. \A q \in Proc : /\ During(seen[q] \cup may, c) \in SUBSET Store
                        /\ During(may, cmd[q]) \in SUBSET Store
    BY <2>1 DEF Shape
  <2>3. may \cup UNION {During(may, cmd[w]) : w \in writers} \in SUBSET Store
    BY <2>2 DEF Shape
  <2>4. ASSUME NEW q \in Proc PROVE seen'[q] \in SUBSET Store
    <3>1. CASE q = p /\ ~ c.write
      <4>1. seen'[q] = may \cup UNION {During(may, cmd[w]) : w \in writers}
        BY <1>1, <1>2, <3>1 DEF Running
      <4>2. QED
        BY <2>3, <4>1
    <3>2. CASE q # p /\ Reading(q)
      <4>1. seen'[q] = During(seen[q] \cup may, c)
        BY <1>2, <3>2
      <4>2. QED
        BY <2>2, <4>1
    <3>3. CASE ~ (q = p /\ ~ c.write) /\ ~ (q # p /\ Reading(q))
      <4>1. seen'[q] = {}
        BY <1>2, <3>3
      <4>2. QED
        BY <4>1
    <3>4. QED
      BY <3>1, <3>2, <3>3
  <2>5. \E F : seen' = [q \in Proc |-> F[q]]
    <3> DEFINE F == seen'
    <3>1. seen' = [q \in Proc |-> seen'[q]]
      BY <1>2
    <3>2. QED
      BY <3>1
  <2>6. QED
    BY <2>4, <2>5
<1>9. trouble' \subseteq Costs
  BY <1>2, NoteIs DEF Shape
<1>10. Shape'
  BY <1>1, <1>5, <1>7, <1>8, <1>9, ShapeKept DEF Shape
<1>11. QED
  BY <1>1, <1>2, <1>3, <1>4, <1>5, <1>6, <1>10

\* Moving one process moves no other.
LEMMA GotoIs ==
    ASSUME Shape, NEW p \in Proc, NEW label \in Pc, Goto(p, label)
    PROVE  pc' \in [Proc -> Pc] /\ pc'[p] = label /\ \A q \in Proc \ {p} : pc'[q] = pc[q]
BY DEF Shape, Goto

\* A reader has looked for the staging file.
LEMMA FindForReadingIs ==
    ASSUME Shape, NEW p \in Proc, FindForReading(p)
    PROVE  /\ Shape' /\ Moves(p) /\ pc[p] = "find_rdonly"
           /\ staging # NoFile => pc'[p] = "open_staging_rdonly"
           /\ staging = NoFile => pc'[p] = "open_flash_rdonly"
           /\ file'[p] = NoFile
           /\ UNCHANGED <<flash, files, staging, cmd, tuples, buf, history>>
<1>1. pc[p] = "find_rdonly" /\ UNCHANGED <<flash, files, staging, cmd, file, tuples, todo, ptr, buf, history>>
  BY DEF FindForReading
<1> DEFINE l == IF staging # NoFile THEN "open_staging_rdonly" ELSE "open_flash_rdonly"
<1>2. l \in Pc /\ l \in ReaderPc /\ l \notin WriterPc \cup SavingPc \cup FilePc \cup CopyPc /\ l # "tuples"
      /\ l # "read_rest"
  BY DEF Pc, ReaderPc, WriterPc, EditPc, SavingPc, FilePc, CopyPc, Cutting
<1>3. Goto(p, l)
  BY DEF FindForReading
<1> HIDE DEF l
<1>4. pc' \in [Proc -> Pc] /\ pc'[p] = l /\ \A q \in Proc \ {p} : pc'[q] = pc[q]
  BY <1>2, <1>3, GotoIs
<1>5. Moves(p)
  BY <1>1, <1>4 DEF Moves, Stays, Shape
<1>6. file[p] = NoFile /\ ~ cmd[p].write
  BY <1>1 DEF Shape, HandleOK, ReaderPc, FilePc
<1>7. HandleOK(p)'
  BY <1>1, <1>2, <1>4, <1>6, PcSets DEF HandleOK
<1>8. Shape'
  BY <1>1, <1>5, <1>7, ShapeKept DEF Shape, history
<1>9. QED
  BY <1>1, <1>4, <1>5, <1>6, <1>8 DEF l

\* What a reader maps, and whether a writer is at work there.
ReadImage(p) == IF pc[p] = "open_staging_rdonly" THEN files[staging] ELSE flash
Beside(p) == IF pc[p] = "open_staging_rdonly" THEN SomeoneIn(staging, p)
             ELSE flashTorn \/ \E q \in Proc : Saving(q)

\* A reader has the first pages of a file or of the partition, or has given up.
LEMMA OpenReadingIs ==
    ASSUME Shape, NEW p \in Proc, OpenReading(p)
    PROVE  /\ Shape' /\ Moves(p) /\ pc[p] \in {"open_staging_rdonly", "open_flash_rdonly"}
           /\ UNCHANGED <<flash, files, staging, flashTorn>>
           /\ \/ Exit(p, "none", {}) /\ pc'[p] = "idle" /\ file'[p] = NoFile
              \/ /\ pc[p] = "open_staging_rdonly" => staging \in Inode
                 /\ pc'[p] = "read_rest" /\ cmd' = cmd /\ buf'[p] = ReadImage(p)
                 /\ file'[p] = IF pc[p] = "open_staging_rdonly" THEN staging ELSE NoFile
                 /\ seen' = IF Beside(p) THEN [seen EXCEPT ![p] = Store] ELSE seen
                 /\ UNCHANGED <<tuples, may, maySaved, trouble>>
<1> DEFINE staged == pc[p] = "open_staging_rdonly"
           img == IF staged THEN files[staging] ELSE flash
           f == IF staged THEN staging ELSE NoFile
<1>1. pc[p] \in {"open_staging_rdonly", "open_flash_rdonly"} /\ UNCHANGED <<flash, files, staging, flashTorn>>
  BY DEF OpenReading
<1>2. \/ Exit(p, "none", {})
      \/ /\ ~ (staged /\ staging = NoFile)
         /\ buf' = [buf EXCEPT ![p] = img]
         /\ file' = [file EXCEPT ![p] = f]
         /\ seen' = IF Beside(p) THEN [seen EXCEPT ![p] = Store] ELSE seen
         /\ Goto(p, "read_rest")
         /\ UNCHANGED <<cmd, tuples, todo, ptr, may, maySaved, trouble>>
  BY DEF OpenReading, Beside
<1>3. CASE Exit(p, "none", {})
  <2>1. flash' = flash /\ files' \in [Inode -> Image] /\ staging' \in Inode \cup {NoFile}
    BY <1>1 DEF Shape
  <2>2. Shape'
    BY <1>3, <2>1, ExitShape
  <2>3. Moves(p) /\ pc'[p] = "idle" /\ file'[p] = NoFile
    BY <1>3, ExitIs
  <2>4. QED
    BY <1>1, <1>3, <2>2, <2>3
<1>4. CASE /\ ~ (staged /\ staging = NoFile)
           /\ buf' = [buf EXCEPT ![p] = img]
           /\ file' = [file EXCEPT ![p] = f]
           /\ seen' = IF Beside(p) THEN [seen EXCEPT ![p] = Store] ELSE seen
           /\ Goto(p, "read_rest")
           /\ UNCHANGED <<cmd, tuples, todo, ptr, may, maySaved, trouble>>
  <2>1. /\ "read_rest" \in Pc /\ "read_rest" \notin WriterPc \cup SavingPc \cup FilePc \cup CopyPc
        /\ "read_rest" # "tuples" /\ pc[p] \in ReaderPc
    BY <1>1 DEF Pc, ReaderPc, WriterPc, EditPc, SavingPc, FilePc, CopyPc
  <2>2. pc' \in [Proc -> Pc] /\ pc'[p] = "read_rest" /\ \A q \in Proc \ {p} : pc'[q] = pc[q]
    BY <1>4, <2>1, GotoIs
  <2>3. (staged => staging \in Inode) /\ img \in Image /\ f \in Inode \cup {NoFile}
    BY <1>4 DEF Shape
  <2>4. img = ReadImage(p)
    BY DEF ReadImage
  <2> HIDE DEF img, f
  <2>5. /\ buf' \in [Proc -> Image \cup {NoImage}] /\ buf'[p] = img /\ \A q \in Proc \ {p} : buf'[q] = buf[q]
        /\ file' \in [Proc -> Inode \cup {NoFile}] /\ file'[p] = f /\ \A q \in Proc \ {p} : file'[q] = file[q]
    BY <1>4, <2>3 DEF Shape
  <2>6. Moves(p)
    BY <1>4, <2>2, <2>5 DEF Moves, Stays, Shape
  <2>7. ~ cmd[p].write
    BY <2>1 DEF Shape, HandleOK
  <2>8. HandleOK(p)'
    BY <1>4, <2>1, <2>2, <2>3, <2>5, <2>7, PcSets DEF HandleOK
  <2>9. seen' \in [Proc -> SUBSET Store]
    BY <1>4 DEF Shape
  <2>10. Shape'
    BY <1>1, <1>4, <2>6, <2>8, <2>9, ShapeKept DEF Shape
  <2>11. QED
    BY <1>1, <1>4, <2>2, <2>3, <2>4, <2>5, <2>6, <2>10 DEF f
<1>5. QED
  BY <1>2, <1>3, <1>4

\* What is behind a reader's mapping now.
ReadNow(p) == IF file[p] = NoFile THEN flash ELSE files[file[p]]

\* A reader has the other pages too and has parsed them all, or has given up.
LEMMA ReadRestIs ==
    ASSUME Shape, NEW p \in Proc, ReadRest(p)
    PROVE  /\ Shape' /\ Moves(p) /\ pc[p] = "read_rest" /\ file'[p] = NoFile /\ buf[p] \in Image
           /\ UNCHANGED <<flash, files, staging, flashTorn>>
           /\ \/ Exit(p, "none", {}) /\ pc'[p] = "idle"
              \/ /\ pc'[p] = "got" /\ cmd' = cmd
                 /\ tuples'[p] = StoreOf(RestPart(buf[p], ReadNow(p)))
                 /\ seen' = IF ReadNow(p) # buf[p] THEN [seen EXCEPT ![p] = Store] ELSE seen
                 /\ seen'[p] = IF ReadNow(p) # buf[p] THEN Store ELSE seen[p]
                 /\ UNCHANGED <<may, maySaved, trouble>>
           /\ StoreOf(RestPart(buf[p], ReadNow(p))) \in Store
<1> DEFINE now == ReadNow(p)
           img == RestPart(buf[p], now)
<1>1. pc[p] = "read_rest" /\ UNCHANGED <<flash, files, staging, flashTorn>>
  BY DEF ReadRest
<1>2. \/ Exit(p, "none", {})
      \/ /\ tuples' = [tuples EXCEPT ![p] = StoreOf(img)]
         /\ seen' = IF now # buf[p] THEN [seen EXCEPT ![p] = Store] ELSE seen
         /\ file' = [file EXCEPT ![p] = NoFile]
         /\ buf' = [buf EXCEPT ![p] = NoImage]
         /\ Goto(p, "got")
         /\ UNCHANGED <<cmd, todo, ptr, may, maySaved, trouble>>
  BY DEF ReadRest, ReadNow
<1>3. "read_rest" \in ReaderPc
  BY DEF ReaderPc
<1>4. buf[p] \in Image /\ now \in Image /\ ~ cmd[p].write
  BY <1>1, <1>3 DEF Shape, HandleOK, ReadNow
<1> HIDE DEF now
<1>5. StoreOf(img) \in Store
  BY <1>4, RestPartIs, ReadType
<1> DEFINE s == StoreOf(img)
<1> HIDE DEF s
<1>6. CASE Exit(p, "none", {})
  <2>1. flash' = flash /\ files' \in [Inode -> Image] /\ staging' \in Inode \cup {NoFile}
    BY <1>1 DEF Shape
  <2>2. Shape'
    BY <1>6, <2>1, ExitShape
  <2>3. Moves(p) /\ pc'[p] = "idle" /\ file'[p] = NoFile
    BY <1>6, ExitIs
  <2>4. QED
    BY <1>1, <1>4, <1>5, <1>6, <2>2, <2>3 DEF now
<1>7. CASE /\ tuples' = [tuples EXCEPT ![p] = StoreOf(img)]
           /\ seen' = IF now # buf[p] THEN [seen EXCEPT ![p] = Store] ELSE seen
           /\ file' = [file EXCEPT ![p] = NoFile]
           /\ buf' = [buf EXCEPT ![p] = NoImage]
           /\ Goto(p, "got")
           /\ UNCHANGED <<cmd, todo, ptr, may, maySaved, trouble>>
  <2>1. "got" \in Pc /\ "got" \notin WriterPc \cup SavingPc \cup FilePc \cup CopyPc /\ "got" # "tuples" /\ "got" # "read_rest"
    BY DEF Pc, ReaderPc, WriterPc, EditPc, SavingPc, FilePc, CopyPc
  <2>2. pc' \in [Proc -> Pc] /\ pc'[p] = "got" /\ \A q \in Proc \ {p} : pc'[q] = pc[q]
    BY <1>7, <2>1, GotoIs
  <2>3. tuples' = [tuples EXCEPT ![p] = s] /\ s \in Store
    BY <1>5, <1>7 DEF s
  <2>4. /\ tuples' \in [Proc -> Store] /\ tuples'[p] = s
        /\ file' \in [Proc -> Inode \cup {NoFile}] /\ buf' \in [Proc -> Image \cup {NoImage}] /\ file'[p] = NoFile
        /\ \A q \in Proc \ {p} : tuples'[q] = tuples[q] /\ file'[q] = file[q] /\ buf'[q] = buf[q]
    BY <1>7, <2>3 DEF Shape
  <2>5. Moves(p)
    BY <1>7, <2>2, <2>4 DEF Moves, Stays, Shape
  <2>6. HandleOK(p)'
    BY <1>4, <1>7, <2>1, <2>2, <2>4, PcSets DEF HandleOK
  <2>7. seen' \in [Proc -> SUBSET Store] /\ seen'[p] = IF now # buf[p] THEN Store ELSE seen[p]
    BY <1>7 DEF Shape
  <2>8. Shape'
    BY <1>1, <1>7, <2>5, <2>6, <2>7, ShapeKept DEF Shape
  <2>9. QED
    BY <1>1, <1>4, <1>5, <1>7, <2>2, <2>4, <2>5, <2>7, <2>8 DEF now, s
<1>8. QED
  BY <1>2, <1>6, <1>7

\* A reader ends, or goes on to save what is staged.
LEMMA CloseIs ==
    ASSUME Shape, NEW p \in Proc, Close(p)
    PROVE  /\ Shape' /\ Moves(p) /\ pc[p] = "got" /\ file'[p] = NoFile
           /\ UNCHANGED <<flash, files, staging, flashTorn>>
           /\ \/ ~ cmd[p].commit /\ Exit(p, "none", {}) /\ pc'[p] = "idle"
              \/ /\ cmd[p].commit /\ cmd' = cmd /\ pc'[p] = "save_read"
                 /\ seen' = [seen EXCEPT ![p] = {}] /\ UNCHANGED <<may, maySaved, trouble>>
<1>1. pc[p] = "got" /\ UNCHANGED <<flash, files, staging, flashTorn>>
  BY DEF Close
<1>2. \/ ~ cmd[p].commit /\ Exit(p, "none", {})
      \/ /\ cmd[p].commit /\ Goto(p, "save_read") /\ tuples' = [tuples EXCEPT ![p] = FirstStore]
         /\ seen' = [seen EXCEPT ![p] = {}] /\ UNCHANGED <<cmd, file, todo, ptr, buf, may, maySaved, trouble>>
  BY DEF Close
<1>3. CASE ~ cmd[p].commit /\ Exit(p, "none", {})
  <2>1. flash' = flash /\ files' \in [Inode -> Image] /\ staging' \in Inode \cup {NoFile}
    BY <1>1 DEF Shape
  <2>2. Shape' /\ Moves(p) /\ pc'[p] = "idle" /\ file'[p] = NoFile
    BY <1>3, <2>1, ExitShape, ExitIs
  <2>3. QED
    BY <1>1, <1>3, <2>2
<1>4. CASE /\ cmd[p].commit /\ Goto(p, "save_read") /\ tuples' = [tuples EXCEPT ![p] = FirstStore]
           /\ seen' = [seen EXCEPT ![p] = {}] /\ UNCHANGED <<cmd, file, todo, ptr, buf, may, maySaved, trouble>>
  <2>1. /\ "save_read" \in Pc /\ "save_read" \in SavingPc /\ "save_read" \notin EditPc \cup ReaderPc \cup CopyPc \cup FilePc
        /\ "save_read" # "tuples" /\ "got" \notin FilePc
    BY DEF Pc, ReaderPc, WriterPc, EditPc, SavingPc, FilePc, CopyPc
  <2>2. pc' \in [Proc -> Pc] /\ pc'[p] = "save_read" /\ \A q \in Proc \ {p} : pc'[q] = pc[q]
    BY <1>4, <2>1, GotoIs
  <2>3. FirstStore \in Store
    BY ImageOfFirst
  <2>4. tuples' \in [Proc -> Store] /\ \A q \in Proc \ {p} : tuples'[q] = tuples[q]
    BY <1>4, <2>3 DEF Shape
  <2>5. file[p] = NoFile
    BY <1>1, <2>1 DEF Shape, HandleOK
  <2>6. Moves(p)
    BY <1>4, <2>2, <2>4 DEF Moves, Stays, Shape
  <2>7. HandleOK(p)'
    BY <1>4, <2>1, <2>2, <2>5, PcSets DEF HandleOK
  <2>8. seen' \in [Proc -> SUBSET Store]
    BY <1>4 DEF Shape
  <2>9. Shape'
    BY <1>1, <1>4, <2>6, <2>7, <2>8, ShapeKept DEF Shape
  <2>10. QED
    BY <1>1, <1>4, <2>2, <2>5, <2>6, <2>9
<1>5. QED
  BY <1>2, <1>3, <1>4

\* A writer has looked for the staging file.
LEMMA FindStagingIs ==
    ASSUME Shape, NEW p \in Proc, FindStaging(p)
    PROVE  /\ Shape' /\ Moves(p) /\ pc[p] = "find"
           /\ staging # NoFile => pc'[p] = "open"
           /\ staging = NoFile => pc'[p] = "read_flash"
           /\ file'[p] = NoFile
           /\ UNCHANGED <<flash, files, staging, cmd, tuples, buf, history>>
<1>1. pc[p] = "find" /\ UNCHANGED <<flash, files, staging, cmd, file, tuples, todo, ptr, buf, history>>
  BY DEF FindStaging
<1> DEFINE l == IF staging # NoFile THEN "open" ELSE "read_flash"
<1>2. l \in Pc /\ l \in WriterPc /\ l \notin ReaderPc \cup SavingPc \cup FilePc \cup CopyPc /\ l # "tuples"
  BY DEF Pc, ReaderPc, WriterPc, EditPc, SavingPc, FilePc, CopyPc, Cutting
<1>3. Goto(p, l)
  BY DEF FindStaging
<1> HIDE DEF l
<1>4. pc' \in [Proc -> Pc] /\ pc'[p] = l /\ \A q \in Proc \ {p} : pc'[q] = pc[q]
  BY <1>2, <1>3, GotoIs
<1>5. Moves(p)
  BY <1>1, <1>4 DEF Moves, Stays, Shape
<1>6. file[p] = NoFile /\ cmd[p].write
  BY <1>1 DEF Shape, HandleOK, EditPc, FilePc
<1>7. HandleOK(p)'
  BY <1>1, <1>2, <1>4, <1>6, PcSets DEF HandleOK
<1>8. Shape'
  BY <1>1, <1>5, <1>7, ShapeKept DEF Shape, history
<1>9. QED
  BY <1>1, <1>4, <1>5, <1>6, <1>8 DEF l

\* Without a lost end, no copy was mixed; with lost updates only, nobody else was in the file.
LEMMA MixedIs ==
    ASSUME NEW p \in Proc, NEW what, Note(what), Mixed(p) \subseteq what
    PROVE  /\ "end" \notin trouble' => ~ CopyMixed(p) /\ ~ OverCut(p, 1)
           /\ trouble' \subseteq {"update"} => ~ SomeoneIn(file[p], p) /\ ~ CopyMixed(p)
<1>1. /\ CopyMixed(p) => "mixed_copy" \in what
      /\ OverCut(p, 1) => "over_cut" \in what
      /\ SomeoneIn(file[p], p) => "interleaved" \in what
  BY WhenIs DEF Mixed
<1>2. QED
  BY <1>1, NoteIs, LossKinds

\* The partition is in the buffer, and was whole unless an end may be lost.
LEMMA ReadFlashIs ==
    ASSUME Shape, NEW p \in Proc, ReadFlash(p)
    PROVE  /\ Shape' /\ Moves(p) /\ pc[p] = "read_flash"
           /\ pc'[p] = "create" /\ buf'[p] = flash /\ file'[p] = NoFile
           /\ UNCHANGED <<flash, files, staging, cmd, tuples, seen, may, maySaved, flashTorn>>
           /\ trouble \subseteq trouble'
           /\ "end" \notin trouble' => ~ flashTorn /\ ~ \E q \in Proc : Saving(q)
           /\ trouble' \subseteq {"update"} => ~ flashTorn /\ ~ \E q \in Proc : Saving(q)
<1>1. pc[p] = "read_flash" /\ buf' = [buf EXCEPT ![p] = flash] /\ Goto(p, "create")
      /\ UNCHANGED <<flash, files, staging, cmd, file, tuples, todo, ptr, seen, may, maySaved, flashTorn>>
  BY DEF ReadFlash
<1> DEFINE torn == flashTorn \/ \E q \in Proc : Saving(q)
           what == When(torn, "torn_copy")
<1>2. Note(what)
  BY DEF ReadFlash
<1>3. torn => "torn_copy" \in what
  BY WhenIs
<1> HIDE DEF torn, what
<1>4. /\ trouble \subseteq trouble'
      /\ "end" \notin trouble' => ~ torn
      /\ trouble' \subseteq {"update"} => ~ torn
      /\ trouble \subseteq Costs => trouble' \subseteq Costs
  BY <1>2, <1>3, NoteIs, LossKinds
<1>5. "create" \in Pc /\ "create" \notin ReaderPc \cup SavingPc \cup FilePc
  BY DEF Pc, ReaderPc, WriterPc, EditPc, SavingPc, FilePc, CopyPc, Cutting
<1>6. pc' \in [Proc -> Pc] /\ pc'[p] = "create" /\ \A q \in Proc \ {p} : pc'[q] = pc[q]
  BY <1>1, <1>5, GotoIs
<1>7. buf' \in [Proc -> Image \cup {NoImage}] /\ buf'[p] = flash /\ \A q \in Proc \ {p} : buf'[q] = buf[q]
  BY <1>1 DEF Shape
<1>8. Moves(p)
  BY <1>1, <1>6, <1>7 DEF Moves, Stays, Shape
<1>9. file[p] = NoFile /\ cmd[p].write
  BY <1>1 DEF Shape, HandleOK, EditPc, FilePc
<1>10. HandleOK(p)'
  BY <1>1, <1>5, <1>6, <1>7, <1>9, PcSets DEF HandleOK, Shape
<1>11. Shape'
  BY <1>1, <1>4, <1>8, <1>10, ShapeKept DEF Shape
<1>12. QED
  BY <1>1, <1>4, <1>6, <1>7, <1>8, <1>9, <1>11 DEF torn

\* The staging file was created, or another process's opened.
LEMMA CreateStagingIs ==
    ASSUME Shape, NEW p \in Proc, CreateStaging(p)
    PROVE  /\ Shape' /\ Moves(p) /\ pc[p] = "create"
           /\ pc'[p] = "fill" /\ buf'[p] = buf[p] /\ buf[p] \in Image
           /\ file'[p] \in Inode /\ staging' = file'[p]
           /\ staging # NoFile => file'[p] = staging /\ files' = files
           /\ staging = NoFile => /\ file'[p] \in Free /\ files'[file'[p]] = EmptyFile
                                  /\ \A f \in Inode \ {file'[p]} : files'[f] = files[f]
           /\ UNCHANGED <<flash, cmd, tuples, buf, seen, may, maySaved, flashTorn>>
           /\ trouble \subseteq trouble'
           /\ trouble' = {} => staging = NoFile
<1>1. pc[p] = "create" /\ UNCHANGED <<flash, cmd, tuples, todo, ptr, buf, seen, may, maySaved, flashTorn>>
  BY DEF CreateStaging
<1>2. PICK f \in Inode :
        /\ IF staging # NoFile THEN f = staging ELSE f \in Free
        /\ staging' = f
        /\ files' = [files EXCEPT ![f] = IF staging # NoFile THEN @ ELSE EmptyFile]
        /\ file' = [file EXCEPT ![p] = f]
        /\ Goto(p, "fill")
  BY DEF CreateStaging
<1> DEFINE what == When(staging # NoFile, "recreated")
<1>3. Note(what)
  BY DEF CreateStaging
<1>4. staging # NoFile => "recreated" \in what
  BY WhenIs
<1> HIDE DEF what
<1>5. trouble \subseteq trouble' /\ (trouble' = {} => staging = NoFile) /\ trouble' \subseteq Costs
  BY <1>3, <1>4, NoteIs DEF Shape
<1>6. "fill" \in Pc /\ "fill" \in WriterPc /\ "fill" \in FilePc /\ "fill" \in CopyPc /\ "create" \in CopyPc
      /\ "fill" \notin ReaderPc \cup SavingPc \cup Cutting /\ "create" \in EditPc
  BY DEF Pc, ReaderPc, WriterPc, EditPc, SavingPc, FilePc, CopyPc, Cutting
<1>7. pc' \in [Proc -> Pc] /\ pc'[p] = "fill" /\ \A q \in Proc \ {p} : pc'[q] = pc[q]
  BY <1>2, <1>6, GotoIs
<1>8. file' \in [Proc -> Inode \cup {NoFile}] /\ file'[p] = f /\ \A q \in Proc \ {p} : file'[q] = file[q]
  BY <1>2 DEF Shape
<1>9. f # NoFile
  BY CellAssumption
<1>10. Moves(p)
  BY <1>1, <1>7, <1>8 DEF Moves, Stays, Shape
<1>11. cmd[p].write /\ buf[p] \in Image /\ ~ Short(buf[p])
  BY <1>1, <1>6 DEF Shape, HandleOK
<1>12. HandleOK(p)'
  BY <1>1, <1>6, <1>7, <1>8, <1>9, <1>11, PcSets DEF HandleOK
<1>13. files' \in [Inode -> Image]
  BY <1>2, EmptyFileIs DEF Shape
<1>14. /\ staging # NoFile => f = staging /\ files' = files
       /\ staging = NoFile => f \in Free /\ files'[f] = EmptyFile /\ \A g \in Inode \ {f} : files'[g] = files[g]
  BY <1>2 DEF Shape
<1>15. Shape'
  BY <1>1, <1>2, <1>5, <1>10, <1>12, <1>13, ShapeKept DEF Shape
<1>16. QED
  BY <1>1, <1>2, <1>5, <1>7, <1>8, <1>10, <1>11, <1>14, <1>15

\* Only file f changes.
OnlyFile(f) == \A g \in Inode \ {f} : files'[g] = files[g]

\* The first part of the copy has been made, or the RAM file system was full.
LEMMA FillIs ==
    ASSUME Shape, NEW p \in Proc, Fill(p)
    PROVE  /\ Shape' /\ Moves(p) /\ pc[p] = "fill" /\ cmd' = cmd /\ file[p] \in Inode /\ buf[p] \in Image
           /\ \/ /\ pc'[p] = "fill_rest" /\ file'[p] = file[p] /\ buf'[p] = buf[p]
                 /\ files'[file[p]] = FirstPart(files[file[p]], buf[p]) /\ OnlyFile(file[p])
              \/ /\ pc'[p] = "open" /\ file'[p] = NoFile /\ files' = files
                 /\ "end" \in trouble' /\ ~ trouble' \subseteq {"update"}
           /\ UNCHANGED <<flash, staging, seen, may, maySaved, flashTorn>>
           /\ trouble \subseteq trouble'
           /\ "end" \notin trouble' => ~ CopyMixed(p) /\ ~ OverCut(p, 1)
           /\ trouble' \subseteq {"update"} => ~ SomeoneIn(file[p], p)
<1>1. pc[p] = "fill" /\ UNCHANGED <<flash, staging, cmd, tuples, todo, ptr, seen, may, maySaved, flashTorn>>
  BY DEF Fill
<1>2. \/ /\ files' = [files EXCEPT ![file[p]] = FirstPart(files[file[p]], buf[p])]
         /\ Goto(p, "fill_rest")
         /\ UNCHANGED <<file, buf>>
      \/ /\ Goto(p, "open")
         /\ file' = [file EXCEPT ![p] = NoFile]
         /\ buf' = [buf EXCEPT ![p] = NoImage]
         /\ UNCHANGED files
  BY DEF Fill
<1> DEFINE what == Mixed(p) \cup When(pc'[p] = "open", "no_space")
<1>3. Note(what)
  BY DEF Fill
<1>4. Mixed(p) \subseteq what /\ (pc'[p] = "open" => "no_space" \in what)
  BY WhenIs
<1> HIDE DEF what
<1>5. /\ trouble \subseteq trouble' /\ trouble' \subseteq Costs
      /\ "end" \notin trouble' => ~ CopyMixed(p) /\ ~ OverCut(p, 1) /\ pc'[p] # "open"
      /\ trouble' \subseteq {"update"} => ~ SomeoneIn(file[p], p) /\ pc'[p] # "open"
  <2>1. trouble \subseteq trouble' /\ trouble' \subseteq Costs
    BY <1>3, NoteIs DEF Shape
  <2>2. /\ "end" \notin trouble' => pc'[p] # "open"
        /\ trouble' \subseteq {"update"} => pc'[p] # "open"
    BY <1>3, <1>4, NoteIs, LossKinds
  <2>3. /\ "end" \notin trouble' => ~ CopyMixed(p) /\ ~ OverCut(p, 1)
        /\ trouble' \subseteq {"update"} => ~ SomeoneIn(file[p], p)
    BY <1>3, <1>4, MixedIs
  <2>4. QED
    BY <2>1, <2>2, <2>3
<1>6. /\ "fill_rest" \in Pc /\ "fill_rest" \in WriterPc /\ "fill_rest" \in FilePc /\ "fill_rest" \in CopyPc
      /\ "fill" \in CopyPc /\ "fill" \in EditPc /\ "fill" \in FilePc
      /\ "fill_rest" \notin ReaderPc \cup SavingPc \cup Cutting
      /\ "open" \in Pc /\ "open" \in WriterPc /\ "open" \notin ReaderPc \cup SavingPc \cup FilePc \cup CopyPc
  BY DEF Pc, ReaderPc, WriterPc, EditPc, SavingPc, FilePc, CopyPc, Cutting
<1>7. file[p] \in Inode /\ buf[p] \in Image /\ ~ Short(buf[p]) /\ cmd[p].write
  BY <1>1, <1>6 DEF Shape, HandleOK
<1>8. CASE /\ files' = [files EXCEPT ![file[p]] = FirstPart(files[file[p]], buf[p])]
           /\ Goto(p, "fill_rest")
           /\ UNCHANGED <<file, buf>>
  <2>1. pc' \in [Proc -> Pc] /\ pc'[p] = "fill_rest" /\ \A q \in Proc \ {p} : pc'[q] = pc[q]
    BY <1>8, <1>6, GotoIs
  <2>2. FirstPart(files[file[p]], buf[p]) \in Image
    BY <1>7, FirstPartIs DEF Shape
  <2>3. files' \in [Inode -> Image] /\ files'[file[p]] = FirstPart(files[file[p]], buf[p]) /\ OnlyFile(file[p])
    BY <1>7, <1>8, <2>2 DEF Shape, OnlyFile
  <2>4. Moves(p)
    BY <1>1, <1>8, <2>1 DEF Moves, Stays, Shape
  <2>5. HandleOK(p)'
    BY <1>1, <1>6, <1>7, <1>8, <2>1, CellAssumption, PcSets DEF HandleOK
  <2>6. Shape'
    BY <1>1, <1>5, <2>3, <2>4, <2>5, ShapeKept DEF Shape
  <2>7. QED
    BY <1>1, <1>5, <1>7, <1>8, <2>1, <2>3, <2>4, <2>6
<1>9. CASE /\ Goto(p, "open")
           /\ file' = [file EXCEPT ![p] = NoFile]
           /\ buf' = [buf EXCEPT ![p] = NoImage]
           /\ UNCHANGED files
  <2>1. pc' \in [Proc -> Pc] /\ pc'[p] = "open" /\ \A q \in Proc \ {p} : pc'[q] = pc[q]
    BY <1>9, <1>6, GotoIs
  <2>2. /\ file' \in [Proc -> Inode \cup {NoFile}] /\ buf' \in [Proc -> Image \cup {NoImage}] /\ file'[p] = NoFile
        /\ \A q \in Proc \ {p} : file'[q] = file[q] /\ buf'[q] = buf[q]
    BY <1>9 DEF Shape
  <2>3. Moves(p)
    BY <1>1, <2>1, <2>2 DEF Moves, Stays, Shape
  <2>4. HandleOK(p)'
    BY <1>1, <1>6, <1>7, <2>1, <2>2, PcSets DEF HandleOK
  <2>5. Shape'
    BY <1>1, <1>5, <1>9, <2>3, <2>4, ShapeKept DEF Shape
  <2>6. QED
    BY <1>1, <1>5, <1>7, <1>9, <2>1, <2>2, <2>3, <2>5
<1>10. QED
  BY <1>2, <1>8, <1>9

\* The rest of the copy has been made, or the RAM file system was full.
LEMMA FillRestIs ==
    ASSUME Shape, NEW p \in Proc, FillRest(p)
    PROVE  /\ Shape' /\ Moves(p) /\ pc[p] = "fill_rest" /\ cmd' = cmd /\ file[p] \in Inode /\ buf[p] \in Image
           /\ pc'[p] = "open" /\ file'[p] = NoFile
           /\ OnlyFile(file[p])
           /\ \/ files'[file[p]] = RestPart(files[file[p]], buf[p])
              \/ "end" \in trouble' /\ ~ trouble' \subseteq {"update"}
           /\ UNCHANGED <<flash, staging, seen, may, maySaved, flashTorn>>
           /\ trouble \subseteq trouble'
           /\ "end" \notin trouble' => ~ CopyMixed(p) /\ ~ OverCut(p, 1)
           /\ trouble' \subseteq {"update"} => ~ SomeoneIn(file[p], p)
<1>1. /\ pc[p] = "fill_rest" /\ Goto(p, "open")
      /\ file' = [file EXCEPT ![p] = NoFile] /\ buf' = [buf EXCEPT ![p] = NoImage]
      /\ UNCHANGED <<flash, staging, cmd, tuples, todo, ptr, seen, may, maySaved, flashTorn>>
  BY DEF FillRest
<1>2. PICK full \in BOOLEAN :
       /\ files' = [files EXCEPT ![file[p]] = IF full THEN @ ELSE RestPart(files[file[p]], buf[p])]
       /\ Note(Mixed(p) \cup When(full, "no_space"))
  BY DEF FillRest
<1> DEFINE what == Mixed(p) \cup When(full, "no_space")
<1>3. Note(what)
  BY <1>2
<1>4. Mixed(p) \subseteq what /\ (full => "no_space" \in what)
  BY WhenIs
<1> HIDE DEF what
<1>5. trouble \subseteq trouble' /\ trouble' \subseteq Costs
  BY <1>3, NoteIs DEF Shape
<1>6. /\ full => "end" \in trouble' /\ ~ trouble' \subseteq {"update"}
      /\ "end" \notin trouble' => ~ CopyMixed(p) /\ ~ OverCut(p, 1)
      /\ trouble' \subseteq {"update"} => ~ SomeoneIn(file[p], p)
  <2>1. full => "end" \in trouble' /\ ~ trouble' \subseteq {"update"}
    BY <1>3, <1>4, NoteIs, LossKinds
  <2>2. QED
    BY <1>3, <1>4, <2>1, MixedIs
<1>7. /\ "fill_rest" \in EditPc /\ "fill_rest" \in FilePc /\ "fill_rest" \in CopyPc
      /\ "open" \in Pc /\ "open" \in WriterPc /\ "open" \notin ReaderPc \cup SavingPc \cup FilePc \cup CopyPc
  BY DEF Pc, ReaderPc, WriterPc, EditPc, SavingPc, FilePc, CopyPc, Cutting
<1>8. file[p] \in Inode /\ buf[p] \in Image /\ ~ Short(buf[p]) /\ cmd[p].write
  BY <1>1, <1>7 DEF Shape, HandleOK
<1>9. RestPart(files[file[p]], buf[p]) \in Image
  BY <1>8, RestPartIs DEF Shape
<1>10. /\ files' \in [Inode -> Image] /\ OnlyFile(file[p])
       /\ ~ full => files'[file[p]] = RestPart(files[file[p]], buf[p])
  BY <1>2, <1>8, <1>9 DEF Shape, OnlyFile
<1>11. pc' \in [Proc -> Pc] /\ pc'[p] = "open" /\ \A q \in Proc \ {p} : pc'[q] = pc[q]
  BY <1>1, <1>7, GotoIs
<1>12. /\ file' \in [Proc -> Inode \cup {NoFile}] /\ buf' \in [Proc -> Image \cup {NoImage}] /\ file'[p] = NoFile
       /\ \A q \in Proc \ {p} : file'[q] = file[q] /\ buf'[q] = buf[q]
  BY <1>1 DEF Shape
<1>13. Moves(p)
  BY <1>1, <1>11, <1>12 DEF Moves, Stays, Shape
<1>14. HandleOK(p)'
  BY <1>1, <1>7, <1>8, <1>11, <1>12, PcSets DEF HandleOK
<1>15. Shape'
  BY <1>1, <1>5, <1>10, <1>13, <1>14, ShapeKept DEF Shape
<1>16. QED
  BY <1>1, <1>5, <1>6, <1>8, <1>10, <1>11, <1>12, <1>13, <1>15

\* A writer has mapped the staging file and begins to parse it, or has given up.
LEMMA OpenStagingIs ==
    ASSUME Shape, NEW p \in Proc, OpenStaging(p)
    PROVE  /\ Shape' /\ Moves(p) /\ pc[p] = "open"
           /\ UNCHANGED <<flash, files, staging, flashTorn>>
           /\ \/ \E what : /\ Exit(p, "none", what) /\ pc'[p] = "idle" /\ file'[p] = NoFile
                           /\ staging # NoFile /\ files[staging].magic => "full" \in what
              \/ /\ pc'[p] = "parse" /\ cmd' = cmd
                 /\ staging \in Inode /\ file'[p] = staging /\ buf'[p] = buf[p] /\ ptr'[p] = 1
                 /\ tuples'[p] = [n \in Name |-> Absent]
                 /\ files[staging].magic
                 /\ trouble' \subseteq {"update"} => ~ SomeoneIn(staging, p) /\ ~ HalfCopied(staging)
                 /\ UNCHANGED <<seen, may, maySaved>>
           /\ trouble \subseteq trouble'
<1> DEFINE img == files[staging]
           full == staging # NoFile /\ img.magic
           fails == staging = NoFile \/ ~ img.magic \/ img.len >= Room
           refused == When(full, "full")
           beside == When(SomeoneIn(staging, p), "interleaved") \cup When(HalfCopied(staging), "torn_open")
           none == [n \in Name |-> Absent]
<1>1. pc[p] = "open" /\ UNCHANGED <<flash, files, staging, flashTorn>>
  BY DEF OpenStaging
<1>2. \/ Exit(p, "none", refused)
      \/ /\ ~ fails
         /\ file' = [file EXCEPT ![p] = staging]
         /\ tuples' = [tuples EXCEPT ![p] = none]
         /\ ptr' = [ptr EXCEPT ![p] = 1]
         /\ Goto(p, "parse")
         /\ Note(beside)
         /\ UNCHANGED <<cmd, todo, buf, seen, may, maySaved>>
  BY DEF OpenStaging
<1>3. full => "full" \in refused
  BY WhenIs
<1>4. /\ SomeoneIn(staging, p) => "interleaved" \in beside
      /\ HalfCopied(staging) => "torn_open" \in beside
  BY WhenIs
<1> HIDE DEF refused, beside
<1>5. CASE Exit(p, "none", refused)
  <2>1. flash' = flash /\ files' \in [Inode -> Image] /\ staging' \in Inode \cup {NoFile}
    BY <1>1 DEF Shape
  <2>2. Shape'
    BY <1>5, <2>1, ExitShape
  <2>3. Moves(p) /\ pc'[p] = "idle" /\ file'[p] = NoFile /\ trouble \subseteq trouble'
    BY <1>5, ExitIs, NoteIs
  <2>4. QED
    BY <1>1, <1>3, <1>5, <2>2, <2>3
<1>6. CASE /\ ~ fails
           /\ file' = [file EXCEPT ![p] = staging]
           /\ tuples' = [tuples EXCEPT ![p] = none]
           /\ ptr' = [ptr EXCEPT ![p] = 1]
           /\ Goto(p, "parse")
           /\ Note(beside)
           /\ UNCHANGED <<cmd, todo, buf, seen, may, maySaved>>
  <2>1. staging \in Inode /\ staging # NoFile /\ img.magic
    BY <1>6, CellAssumption DEF Shape
  <2>2. none \in Store
    BY DEF Store
  <2> HIDE DEF none, img
  <2>3. trouble \subseteq trouble' /\ trouble' \subseteq Costs
    BY <1>6, NoteIs DEF Shape
  <2>4. trouble' \subseteq {"update"} => ~ SomeoneIn(staging, p) /\ ~ HalfCopied(staging)
    BY <1>4, <1>6, NoteIs, LossKinds
  <2>5. /\ "parse" \in Pc /\ "parse" \in FilePc /\ "open" \in EditPc /\ "parse" \notin Cutting
        /\ "parse" \notin ReaderPc \cup SavingPc \cup CopyPc
    BY DEF Pc, ReaderPc, WriterPc, EditPc, SavingPc, FilePc, CopyPc, Cutting
  <2>6. pc' \in [Proc -> Pc] /\ pc'[p] = "parse" /\ \A q \in Proc \ {p} : pc'[q] = pc[q]
    BY <1>6, <2>5, GotoIs
  <2>7. /\ file' \in [Proc -> Inode \cup {NoFile}] /\ tuples' \in [Proc -> Store] /\ ptr' \in [Proc -> Position]
        /\ file'[p] = staging /\ tuples'[p] = none /\ ptr'[p] = 1
        /\ \A q \in Proc \ {p} : file'[q] = file[q] /\ tuples'[q] = tuples[q] /\ ptr'[q] = ptr[q]
    BY <1>6, <2>1, <2>2, Sizes DEF Shape
  <2>8. Moves(p)
    BY <1>6, <2>6, <2>7 DEF Moves, Stays, Shape
  <2>9. cmd[p].write
    BY <1>1, <2>5 DEF Shape, HandleOK
  <2>10. HandleOK(p)'
    BY <1>6, <2>1, <2>5, <2>6, <2>7, <2>9, PcSets DEF HandleOK
  <2>11. Shape'
    BY <1>1, <1>6, <2>3, <2>8, <2>10, ShapeKept DEF Shape
  <2>12. QED
    BY <1>1, <1>6, <2>1, <2>3, <2>4, <2>6, <2>7, <2>8, <2>11 DEF none, img
<1>7. QED
  BY <1>2, <1>5, <1>6

\* The labels of a parser.
LEMMA ParseLabels ==
    /\ Parsing = {"parse", "cut", "reparse", "recut"} /\ Parsing \subseteq FilePc
    /\ \A l \in Parsing : l \in Pc /\ l \in EditPc /\ l \notin ReaderPc \cup SavingPc \cup CopyPc /\ l # "tuples"
BY DEF Parsing, Pc, ReaderPc, WriterPc, EditPc, SavingPc, FilePc, CopyPc

\* A parser has put a NUL over a '=' and taken the tuple.
LEMMA CutEntryIs ==
    ASSUME Shape, NEW p \in Proc, CutEntry(p)
    PROVE  /\ Shape' /\ Moves(p) /\ pc[p] \in {"parse", "reparse"} /\ file[p] \in Inode
           /\ file'[p] = file[p] /\ ptr'[p] = ptr[p]
           /\ Readable(Parsed(p)) /\ IsTuple(Parsed(p)) /\ ptr[p] <= Room
           /\ files'[file[p]] = WithEq(files[file[p]], ptr[p], FALSE) /\ OnlyFile(file[p])
           /\ pc[p] = "parse" => /\ pc'[p] = "cut"
                                 /\ tuples'[p] = [tuples[p] EXCEPT ![Parsed(p).name] = Parsed(p).value]
           /\ pc[p] = "reparse" => pc'[p] = "recut" /\ tuples'[p] = tuples[p]
           /\ UNCHANGED <<flash, staging, cmd, buf, seen, may, maySaved, flashTorn, trouble>>
<1> DEFINE f == file[p]
           c == Parsed(p)
           img == files[f]
           new == WithEq(img, ptr[p], FALSE)
           l == IF pc[p] = "parse" THEN "cut" ELSE "recut"
           s == IF pc[p] = "parse" THEN [tuples[p] EXCEPT ![c.name] = c.value] ELSE tuples[p]
<1>1. /\ pc[p] \in {"parse", "reparse"} /\ Readable(c) /\ files' = [files EXCEPT ![f] = new]
      /\ UNCHANGED <<flash, staging, cmd, file, todo, ptr, buf, seen, may, maySaved, flashTorn, trouble>>
      /\ pc[p] = "parse" => /\ tuples' = [tuples EXCEPT ![p][c.name] = c.value]
                            /\ Goto(p, "cut")
      /\ pc[p] # "parse" => UNCHANGED tuples /\ Goto(p, "recut")
  BY DEF CutEntry, history
<1>2. f \in Inode /\ cmd[p].write /\ f # NoFile
  BY <1>1, ParseLabels, PcSets DEF Shape, HandleOK
<1>3. img \in Image /\ ptr[p] \in Position /\ c = img.cells[ptr[p]] /\ IsTuple(c)
  BY <1>1, <1>2 DEF Shape, Parsed, Readable
<1> HIDE DEF f, c, img
<1>4. ptr[p] <= Room
  <2>1. ptr[p] # Room + 1
    BY <1>3, ImageFields
  <2>2. QED
    BY <1>3, <2>1, Sizes
<1>5. c.name \in Name /\ c.value \in Value
  BY <1>3, ImageFields, CellFacts
<1>6. new \in Image
  BY <1>3, WithEqIs
<1> HIDE DEF new
<1>7. files' \in [Inode -> Image] /\ files'[f] = new /\ OnlyFile(f)
  BY <1>1, <1>2, <1>6 DEF Shape, OnlyFile
<1>8. s \in Store
  <2>1. tuples[p] \in [Name -> Value \cup {Absent}]
    BY DEF Shape, Store
  <2>2. QED
    BY <1>5, <2>1 DEF Store
<1>9. tuples' \in [Proc -> Store] /\ tuples'[p] = s /\ \A q \in Proc \ {p} : tuples'[q] = tuples[q]
  <2>1. tuples' = [tuples EXCEPT ![p] = s]
    BY <1>1 DEF Shape
  <2> HIDE DEF s
  <2>2. QED
    BY <1>8, <2>1 DEF Shape
<1>10. l \in Parsing /\ Goto(p, l)
  BY <1>1, ParseLabels
<1>11. pc' \in [Proc -> Pc] /\ pc'[p] = l /\ \A q \in Proc \ {p} : pc'[q] = pc[q]
  <2> HIDE DEF l
  <2>1. QED
    BY <1>10, ParseLabels, GotoIs
<1>12. Moves(p)
  BY <1>1, <1>9, <1>11 DEF Moves, Stays, Shape
<1>13. HandleOK(p)'
  <2> HIDE DEF l
  <2>1. pc'[p] \in Parsing /\ cmd'[p] = cmd[p] /\ file'[p] = f /\ ptr'[p] = ptr[p]
    BY <1>1, <1>10, <1>11 DEF f
  <2>2. QED
    BY <1>2, <1>4, <2>1, ParseLabels, PcSets DEF HandleOK
<1>14. Shape'
  BY <1>1, <1>7, <1>12, <1>13, ShapeKept DEF Shape
<1>15. pc[p] = "parse" => /\ pc'[p] = "cut"
                          /\ tuples'[p] = [tuples[p] EXCEPT ![c.name] = c.value]
  BY <1>9, <1>11
<1>16. pc[p] = "reparse" => pc'[p] = "recut" /\ tuples'[p] = tuples[p]
  BY <1>9, <1>11
<1>17. QED
  BY <1>1, <1>2, <1>3, <1>4, <1>7, <1>12, <1>14, <1>15, <1>16 DEF f, c, img, new

\* A parser has put the '=' back.
LEMMA RestoreIs ==
    ASSUME Shape, NEW p \in Proc, Restore(p)
    PROVE  /\ Shape' /\ Moves(p) /\ pc[p] \in Cutting /\ file[p] \in Inode
           /\ file'[p] = file[p] /\ ptr'[p] = ptr[p] + 1
           /\ pc[p] = "cut" => pc'[p] = "parse"
           /\ pc[p] = "recut" => pc'[p] = "reparse"
           /\ OnlyFile(file[p])
           /\ IsTuple(Parsed(p)) /\ ~ Readable(Parsed(p))
                => files'[file[p]] = WithEq(files[file[p]], ptr[p], TRUE)
           /\ UNCHANGED <<flash, staging, cmd, tuples, buf, seen, may, maySaved, flashTorn, trouble>>
<1> DEFINE f == file[p]
           img == files[f]
           cutTuple == IsTuple(Parsed(p)) /\ ~ Readable(Parsed(p))
           news == IF cutTuple THEN {WithEq(img, ptr[p], TRUE)} ELSE Strayed(img)
           l == IF pc[p] = "cut" THEN "parse" ELSE "reparse"
<1>1. /\ pc[p] \in Cutting /\ ptr' = [ptr EXCEPT ![p] = @ + 1] /\ Goto(p, l)
      /\ UNCHANGED <<flash, staging, cmd, file, tuples, todo, buf, seen, may, maySaved, flashTorn, trouble>>
  BY DEF Restore, history
<1>2. PICK new \in news : files' = [files EXCEPT ![f] = new]
  BY DEF Restore
<1>3. f \in Inode /\ cmd[p].write /\ f # NoFile
  BY <1>1, PcSets DEF Shape, HandleOK
<1>4. img \in Image /\ ptr[p] \in Position /\ Parsed(p) = img.cells[ptr[p]]
  BY <1>3 DEF Shape, Parsed
<1>5. new \in Image
  <2> HIDE DEF img
  <2>1. CASE cutTuple
    <3>1. new = WithEq(img, ptr[p], TRUE) /\ IsTuple(img.cells[ptr[p]])
      BY <1>2, <1>4, <2>1
    <3>2. QED
      BY <1>4, <3>1, WithEqIs
  <2>2. CASE ~ cutTuple
    BY <1>2, <1>4, <2>2, StrayedIs
  <2>3. QED
    BY <2>1, <2>2
<1>6. cutTuple => new = WithEq(img, ptr[p], TRUE)
  BY <1>2
<1> HIDE DEF f, img, news, cutTuple
<1>7. files' \in [Inode -> Image] /\ files'[f] = new /\ OnlyFile(f)
  BY <1>2, <1>3, <1>5 DEF Shape, OnlyFile
<1>8. ptr[p] + 1 \in Position
  BY <1>1, <1>4, Sizes DEF Shape, HandleOK
<1>9. ptr' \in [Proc -> Position] /\ ptr'[p] = ptr[p] + 1 /\ \A q \in Proc \ {p} : ptr'[q] = ptr[q]
  BY <1>1, <1>8 DEF Shape
<1>10. l \in Parsing /\ l \notin Cutting
  BY ParseLabels, PcSets
<1>11. pc' \in [Proc -> Pc] /\ pc'[p] = l /\ \A q \in Proc \ {p} : pc'[q] = pc[q]
  <2> HIDE DEF l
  <2>1. QED
    BY <1>1, <1>10, ParseLabels, GotoIs
<1>12. Moves(p)
  BY <1>1, <1>9, <1>11 DEF Moves, Stays, Shape
<1>13. HandleOK(p)'
  <2> HIDE DEF l
  <2>1. pc'[p] \in Parsing /\ pc'[p] \notin Cutting /\ cmd'[p] = cmd[p] /\ file'[p] = f
    BY <1>1, <1>10, <1>11 DEF f
  <2>2. QED
    BY <1>3, <2>1, ParseLabels, PcSets DEF HandleOK
<1>14. Shape'
  BY <1>1, <1>7, <1>12, <1>13, ShapeKept DEF Shape
<1>15. (pc[p] = "cut" => pc'[p] = "parse") /\ (pc[p] = "recut" => pc'[p] = "reparse")
  BY <1>11
<1>16. QED
  BY <1>1, <1>3, <1>6, <1>7, <1>9, <1>12, <1>14, <1>15 DEF f, img, cutTuple

\* A writer has its table, edited, or has died on a list without an end.
LEMMA EndParseIs ==
    ASSUME Shape, NEW p \in Proc, EndParse(p)
    PROVE  /\ Shape' /\ Moves(p) /\ pc[p] = "parse" /\ file[p] \in Inode /\ ~ Readable(Parsed(p))
           /\ UNCHANGED <<flash, files, staging, flashTorn>> /\ trouble \subseteq trouble'
           /\ \/ IsHole(Parsed(p)) /\ Exit(p, "none", {}) /\ pc'[p] = "idle" /\ file'[p] = NoFile
              \/ /\ pc'[p] = "commit" /\ cmd' = cmd /\ file'[p] = file[p] /\ buf'[p] = buf[p]
                 /\ tuples'[p] = Edited(tuples[p], cmd[p])
                 /\ trouble' \subseteq {"update"} => ~ IsHole(Parsed(p))
                 /\ trouble' = {} => tuples'[p] = Asked(tuples[p], cmd[p])
                 /\ UNCHANGED <<seen, may, maySaved>>
<1> DEFINE edited == Edited(tuples[p], cmd[p])
           other == edited # Asked(tuples[p], cmd[p])
           hole == IsHole(Parsed(p))
           what == When(hole, "torn_open") \cup When(other, "refused")
<1>1. pc[p] = "parse" /\ ~ Readable(Parsed(p)) /\ UNCHANGED <<flash, files, staging, flashTorn>>
  BY DEF EndParse
<1>2. \/ hole /\ Exit(p, "none", {})
      \/ /\ tuples' = [tuples EXCEPT ![p] = Edited(@, cmd[p])]
         /\ ptr' = [ptr EXCEPT ![p] = 1]
         /\ Goto(p, "commit")
         /\ Note(what)
         /\ UNCHANGED <<cmd, file, todo, buf, seen, may, maySaved>>
  BY DEF EndParse
<1>3. (hole => "torn_open" \in what) /\ (other => "refused" \in what)
  BY WhenIs
<1> HIDE DEF what, hole
<1>4. "parse" \in Parsing /\ file[p] \in Inode /\ cmd[p].write /\ file[p] # NoFile
  BY <1>1, ParseLabels, PcSets DEF Shape, HandleOK
<1>5. CASE hole /\ Exit(p, "none", {})
  <2>1. flash' = flash /\ files' \in [Inode -> Image] /\ staging' \in Inode \cup {NoFile}
    BY <1>1 DEF Shape
  <2>2. Shape'
    BY <1>5, <2>1, ExitShape
  <2>3. Moves(p) /\ pc'[p] = "idle" /\ file'[p] = NoFile /\ trouble \subseteq trouble'
    BY <1>5, ExitIs, NoteIs
  <2>4. QED
    BY <1>1, <1>4, <1>5, <2>2, <2>3 DEF hole
<1>6. CASE /\ tuples' = [tuples EXCEPT ![p] = Edited(@, cmd[p])]
           /\ ptr' = [ptr EXCEPT ![p] = 1]
           /\ Goto(p, "commit")
           /\ Note(what)
           /\ UNCHANGED <<cmd, file, todo, buf, seen, may, maySaved>>
  <2>1. edited \in Store
    BY AskedIs DEF Shape
  <2>2. tuples' = [tuples EXCEPT ![p] = edited]
    BY <1>6 DEF Shape
  <2> HIDE DEF other
  <2>3. /\ trouble \subseteq trouble' /\ trouble' \subseteq Costs
        /\ trouble' = {} => ~ other
    BY <1>3, <1>6, NoteIs DEF Shape
  <2>4. trouble' \subseteq {"update"} => ~ hole
    BY <1>3, <1>6, NoteIs, LossKinds
  <2> HIDE DEF edited
  <2>5. /\ "commit" \in Pc /\ "commit" \in FilePc /\ "commit" \notin Cutting
        /\ "commit" \notin ReaderPc \cup SavingPc \cup CopyPc
    BY DEF Pc, ReaderPc, WriterPc, EditPc, SavingPc, FilePc, CopyPc, Cutting
  <2>6. pc' \in [Proc -> Pc] /\ pc'[p] = "commit" /\ \A q \in Proc \ {p} : pc'[q] = pc[q]
    BY <1>6, <2>5, GotoIs
  <2>7. /\ tuples' \in [Proc -> Store] /\ ptr' \in [Proc -> Position] /\ tuples'[p] = edited
        /\ \A q \in Proc \ {p} : tuples'[q] = tuples[q] /\ ptr'[q] = ptr[q]
    BY <1>6, <2>1, <2>2, Sizes DEF Shape
  <2>8. Moves(p)
    BY <1>6, <2>6, <2>7 DEF Moves, Stays, Shape
  <2>9. HandleOK(p)'
    BY <1>4, <1>6, <2>5, <2>6, <2>7, PcSets DEF HandleOK
  <2>10. Shape'
    BY <1>1, <1>6, <2>3, <2>8, <2>9, ShapeKept DEF Shape
  <2>11. QED
    BY <1>1, <1>4, <1>6, <2>3, <2>4, <2>6, <2>7, <2>8, <2>10 DEF edited, hole, other
<1>7. QED
  BY <1>2, <1>5, <1>6

\* A commit is done: the process goes on to save the file, or ends.
LEMMA EndReparseIs ==
    ASSUME Shape, NEW p \in Proc, EndReparse(p)
    PROVE  /\ Shape' /\ Moves(p) /\ pc[p] = "reparse" /\ file[p] \in Inode /\ ~ Readable(Parsed(p))
           /\ file'[p] = NoFile
           /\ UNCHANGED <<flash, files, staging, flashTorn>> /\ trouble' = trouble
           /\ \/ cmd[p].commit /\ cmd' = cmd /\ pc'[p] = "save_read" /\ UNCHANGED <<seen, may, maySaved>>
              \/ ~ cmd[p].commit /\ pc'[p] = "idle" /\ Exit(p, "kept", {})
              \/ IsHole(Parsed(p)) /\ pc'[p] = "idle" /\ Exit(p, "perhaps", {})
<1> DEFINE hole == IsHole(Parsed(p))
<1>1. pc[p] = "reparse" /\ ~ Readable(Parsed(p)) /\ UNCHANGED <<flash, files, staging, flashTorn>>
  BY DEF EndReparse
<1>2. \/ /\ cmd[p].commit
         /\ Goto(p, "save_read")
         /\ file' = [file EXCEPT ![p] = NoFile]
         /\ ptr' = [ptr EXCEPT ![p] = 1]
         /\ UNCHANGED <<cmd, tuples, todo, buf, seen, may, maySaved, trouble>>
      \/ ~ cmd[p].commit /\ Exit(p, "kept", {})
      \/ hole /\ Exit(p, "perhaps", {})
  BY DEF EndReparse
<1> HIDE DEF hole
<1>3. "reparse" \in Parsing /\ file[p] \in Inode /\ cmd[p].write
  BY <1>1, ParseLabels, PcSets DEF Shape, HandleOK
<1>4. ASSUME NEW effect \in {"kept", "perhaps"}, Exit(p, effect, {})
      PROVE  Shape' /\ Moves(p) /\ pc'[p] = "idle" /\ file'[p] = NoFile /\ trouble' = trouble
  <2>1. effect \in {"kept", "perhaps", "none"}
    BY <1>4
  <2>2. flash' = flash /\ files' \in [Inode -> Image] /\ staging' \in Inode \cup {NoFile}
    BY <1>1 DEF Shape
  <2>3. Shape'
    BY <1>4, <2>1, <2>2, ExitShape
  <2>4. Note({}) /\ Moves(p) /\ pc'[p] = "idle" /\ file'[p] = NoFile
    BY <1>4, <2>1, ExitIs
  <2>5. QED
    BY <2>3, <2>4 DEF Note
<1>5. CASE /\ cmd[p].commit
           /\ Goto(p, "save_read")
           /\ file' = [file EXCEPT ![p] = NoFile]
           /\ ptr' = [ptr EXCEPT ![p] = 1]
           /\ UNCHANGED <<cmd, tuples, todo, buf, seen, may, maySaved, trouble>>
  <2>1. /\ "save_read" \in Pc /\ "save_read" \in SavingPc
        /\ "save_read" \notin EditPc \cup ReaderPc \cup CopyPc \cup FilePc /\ "save_read" # "tuples"
    BY DEF Pc, ReaderPc, WriterPc, EditPc, SavingPc, FilePc, CopyPc
  <2>2. pc' \in [Proc -> Pc] /\ pc'[p] = "save_read" /\ \A q \in Proc \ {p} : pc'[q] = pc[q]
    BY <1>5, <2>1, GotoIs
  <2>3. /\ file' \in [Proc -> Inode \cup {NoFile}] /\ file'[p] = NoFile /\ ptr' \in [Proc -> Position]
        /\ \A q \in Proc \ {p} : file'[q] = file[q] /\ ptr'[q] = ptr[q]
    BY <1>5, Sizes DEF Shape
  <2>4. Moves(p)
    BY <1>5, <2>2, <2>3 DEF Moves, Stays, Shape
  <2>5. HandleOK(p)'
    BY <1>5, <2>1, <2>2, <2>3, PcSets DEF HandleOK
  <2>6. Shape'
    BY <1>1, <1>5, <2>4, <2>5, ShapeKept DEF Shape
  <2>7. QED
    BY <1>1, <1>3, <1>5, <2>2, <2>3, <2>4, <2>6
<1>6. CASE ~ cmd[p].commit /\ Exit(p, "kept", {})
  BY <1>1, <1>3, <1>4, <1>6
<1>7. CASE hole /\ Exit(p, "perhaps", {})
  BY <1>1, <1>3, <1>4, <1>7 DEF hole
<1>8. QED
  BY <1>2, <1>5, <1>6, <1>7

\* The commit clears the file, or dies on a short one.
LEMMA ClearIs ==
    ASSUME Shape, NEW p \in Proc, Clear(p)
    PROVE  /\ Shape' /\ Moves(p) /\ pc[p] = "commit" /\ file[p] \in Inode
           /\ files'[file[p]] = Cleared(files[file[p]]) /\ OnlyFile(file[p])
           /\ UNCHANGED <<flash, staging, flashTorn>>
           /\ \/ Short(files[file[p]]) /\ "end" \in trouble' /\ pc'[p] = "idle" /\ ~ trouble' \subseteq {"update"}
              \/ /\ ~ Short(files[file[p]])
                 /\ pc'[p] = "tuples" /\ file'[p] = file[p] /\ cmd' = cmd
                 /\ tuples' = tuples /\ todo'[p] = Listed(tuples[p]) /\ ptr'[p] = 1
                 /\ UNCHANGED <<seen, may, maySaved>>
           /\ trouble \subseteq trouble'
           /\ "end" \notin trouble' => ~ CopyMixed(p) /\ ~ OverCut(p, 1)
           /\ trouble' \subseteq {"update"} => ~ SomeoneIn(file[p], p)
<1> DEFINE f == file[p]
           what == Mixed(p) \cup {"faulted"}
           todo1 == Listed(tuples[p])
<1>1. /\ pc[p] = "commit" /\ UNCHANGED <<flash, staging, flashTorn>>
      /\ files' = [files EXCEPT ![f] = Cleared(files[f])]
  BY DEF Clear
<1>2. IF Short(files[f])
      THEN Exit(p, "none", what)
      ELSE /\ todo' = [todo EXCEPT ![p] = todo1]
           /\ ptr' = [ptr EXCEPT ![p] = 1]
           /\ Goto(p, "tuples")
           /\ Note(Mixed(p))
           /\ UNCHANGED <<cmd, file, tuples, buf, seen, may, maySaved>>
  BY DEF Clear
<1>3. /\ "tuples" \in Pc /\ "tuples" \in WriterPc /\ "tuples" \in FilePc /\ "tuples" \notin ReaderPc \cup SavingPc \cup CopyPc
      /\ "tuples" \notin Cutting /\ "commit" \in EditPc /\ "commit" \in FilePc
  BY DEF Pc, ReaderPc, WriterPc, EditPc, SavingPc, FilePc, CopyPc, Cutting
<1>4. f \in Inode /\ cmd[p].write
  BY <1>1, <1>3 DEF Shape, HandleOK
<1> HIDE DEF f
<1>5. files' \in [Inode -> Image] /\ files'[f] = Cleared(files[f]) /\ OnlyFile(f)
  <2>1. Cleared(files[f]) \in Image
    BY <1>4, ClearedIs DEF Shape
  <2>2. QED
    BY <1>1, <1>4, <2>1 DEF Shape, OnlyFile
<1>6. CASE Short(files[f])
  <2>1. Exit(p, "none", what)
    BY <1>2, <1>6
  <2>2. Mixed(p) \subseteq what /\ "faulted" \in what
    OBVIOUS
  <2> HIDE DEF what
  <2>3. flash' = flash /\ staging' \in Inode \cup {NoFile}
    BY <1>1 DEF Shape
  <2>4. Shape'
    BY <1>5, <2>1, <2>3, ExitShape
  <2>5. Note(what) /\ Moves(p) /\ pc'[p] = "idle"
    BY <2>1, ExitIs
  <2>6. trouble \subseteq trouble' /\ "end" \in trouble' /\ ~ trouble' \subseteq {"update"}
    BY <2>2, <2>5, NoteIs, LossKinds
  <2>7. QED
    BY <1>1, <1>4, <1>5, <1>6, <2>4, <2>5, <2>6 DEF f
<1>7. CASE ~ Short(files[f])
  <2>1. /\ todo' = [todo EXCEPT ![p] = todo1] /\ ptr' = [ptr EXCEPT ![p] = 1]
        /\ Goto(p, "tuples") /\ Note(Mixed(p)) /\ UNCHANGED <<cmd, file, tuples, buf, seen, may, maySaved>>
    BY <1>2, <1>7
  <2>2. todo1 \in Seq(Name) /\ 1 \in Position /\ \A k \in 1 .. Len(todo1) : tuples[p][todo1[k]] # Absent
    <3> DEFINE s == tuples[p]
    <3> HIDE DEF s
    <3>1. Listed(s) \in Seq(Name) /\ \A k \in 1 .. Len(Listed(s)) : s[Listed(s)[k]] # Absent
      BY ListedNames
    <3>2. 1 \in Position
      BY Sizes
    <3>3. QED
      BY <3>1, <3>2 DEF s
  <2> HIDE DEF todo1
  <2>3. pc' \in [Proc -> Pc] /\ pc'[p] = "tuples" /\ \A q \in Proc \ {p} : pc'[q] = pc[q]
    BY <1>3, <2>1, GotoIs
  <2>4. /\ todo' \in [Proc -> Seq(Name)] /\ ptr' \in [Proc -> Position] /\ todo'[p] = todo1 /\ ptr'[p] = 1
        /\ \A q \in Proc \ {p} : todo'[q] = todo[q] /\ ptr'[q] = ptr[q]
    BY <2>1, <2>2 DEF Shape
  <2>5. Moves(p)
    BY <2>1, <2>3, <2>4 DEF Moves, Stays, Shape
  <2>6. file[p] # NoFile
    BY <1>1, <1>3 DEF Shape, HandleOK
  <2>7. HandleOK(p)'
    BY <1>3, <1>4, <2>1, <2>2, <2>3, <2>4, <2>6, PcSets DEF HandleOK
  <2>8. Mixed(p) \subseteq Mixed(p)
    OBVIOUS
  <2>9. trouble \subseteq trouble' /\ trouble' \subseteq Costs
    BY <2>1, NoteIs DEF Shape
  <2>10. ("end" \notin trouble' => ~ CopyMixed(p) /\ ~ OverCut(p, 1)) /\ (trouble' \subseteq {"update"} => ~ SomeoneIn(file[p], p))
    BY <2>1, <2>8, MixedIs
  <2>11. Shape'
    BY <1>1, <1>5, <2>1, <2>5, <2>7, <2>9, ShapeKept DEF Shape
  <2>12. QED
    BY <1>1, <1>4, <1>5, <1>7, <2>1, <2>3, <2>4, <2>5, <2>9, <2>10, <2>11 DEF f, todo1
<1>8. QED
  BY <1>6, <1>7

\* One tuple more is in the file, or it did not fit.
LEMMA WriteTupleIs ==
    ASSUME Shape, NEW p \in Proc, WriteTuple(p)
    PROVE  /\ Shape' /\ Moves(p) /\ pc[p] = "tuples" /\ pc'[p] = "tuples" /\ file[p] \in Inode /\ file'[p] = file[p]
           /\ todo[p] # <<>> /\ todo'[p] = Tail(todo[p])
           /\ Head(todo[p]) \in Name /\ tuples[p][Head(todo[p])] \in Value
           /\ OnlyFile(file[p]) /\ trouble \subseteq trouble'
           /\ \/ /\ ptr[p] <= Room /\ ptr'[p] = ptr[p] + 1
                 /\ files'[file[p]] = WithTuple(files[file[p]], ptr[p], Head(todo[p]), tuples[p][Head(todo[p])])
                 /\ "end" \notin trouble' => ~ OverCut(p, ptr[p])
              \/ ptr'[p] = ptr[p] /\ files' = files /\ ~ trouble' \subseteq {"update"}
           /\ UNCHANGED <<flash, staging, cmd, tuples, buf, seen, may, maySaved, flashTorn>>
<1> DEFINE f == file[p]
           n == Head(todo[p])
           new == WithTuple(files[f], ptr[p], n, tuples[p][n])
           over == When(OverCut(p, ptr[p]), "over_cut")
<1>1. /\ pc[p] = "tuples" /\ todo[p] # <<>> /\ todo' = [todo EXCEPT ![p] = Tail(@)]
      /\ UNCHANGED <<flash, staging, pc, cmd, file, tuples, buf, seen, may, maySaved, flashTorn>>
      /\ IF ptr[p] <= Room
         THEN /\ files' = [files EXCEPT ![f] = new]
              /\ ptr' = [ptr EXCEPT ![p] = @ + 1]
              /\ Note(over)
         ELSE Note({"dropped"}) /\ UNCHANGED <<files, ptr>>
  BY DEF WriteTuple
<1>2. /\ "tuples" \in FilePc /\ "tuples" \notin Cutting
  BY DEF Pc, ReaderPc, WriterPc, EditPc, SavingPc, FilePc, CopyPc, Cutting
<1>3. f \in Inode
  BY <1>1, <1>2 DEF Shape, HandleOK
<1>4. /\ todo[p] \in Seq(Name) /\ tuples[p] \in Store
      /\ \A k \in 1 .. Len(todo[p]) : tuples[p][todo[p][k]] # Absent
  BY <1>1 DEF Shape, HandleOK
<1>5. /\ n \in Name /\ Tail(todo[p]) \in Seq(Name) /\ n = todo[p][1] /\ 1 \in 1 .. Len(todo[p])
      /\ \A k \in 1 .. Len(Tail(todo[p])) : k + 1 \in 1 .. Len(todo[p]) /\ Tail(todo[p])[k] = todo[p][k + 1]
  BY <1>1, <1>4
<1>6. tuples[p][n] \in Value
  BY <1>4, <1>5 DEF Store
<1>7. /\ todo' \in [Proc -> Seq(Name)] /\ todo'[p] = Tail(todo[p]) /\ \A q \in Proc \ {p} : todo'[q] = todo[q]
  BY <1>1, <1>5 DEF Shape
<1>12. OverCut(p, ptr[p]) => "over_cut" \in over
  BY WhenIs
<1> HIDE DEF f, n, over
<1>8. HandleOK(p)' /\ pc'[p] = pc[p] /\ pc'[p] = "tuples" /\ tuples' = tuples /\ cmd' = cmd /\ file' = file
  <2>1. pc'[p] = pc[p] /\ cmd'[p] = cmd[p] /\ file'[p] = file[p] /\ buf'[p] = buf[p] /\ tuples'[p] = tuples[p]
    BY <1>1
  <2>2. \A k \in 1 .. Len(todo'[p]) : tuples'[p][todo'[p][k]] # Absent
    BY <1>4, <1>5, <1>7, <2>1
  <2>3. HandleOK(p)'
    BY <1>1, <1>2, <2>1, <2>2 DEF HandleOK, Shape
  <2>4. QED
    BY <1>1, <2>3
<1>9. CASE ptr[p] <= Room
  <2>1. files' = [files EXCEPT ![f] = new] /\ ptr' = [ptr EXCEPT ![p] = @ + 1] /\ Note(over)
    BY <1>1, <1>9
  <2>9. trouble \subseteq trouble' /\ trouble' \subseteq Costs
    BY <2>1, NoteIs DEF Shape
  <2>10. "end" \notin trouble' => ~ OverCut(p, ptr[p])
    BY <1>12, <2>1, NoteIs, LossKinds
  <2>2. ptr[p] \in Position /\ ptr[p] + 1 \in Position
    BY <1>9, Sizes DEF Shape
  <2>3. new \in Image
    BY <1>3, <1>5, <1>6, <1>9, <2>2, WithTupleIs DEF Shape, n
  <2> HIDE DEF new
  <2>4. files' \in [Inode -> Image] /\ files'[f] = new /\ OnlyFile(f)
    BY <1>3, <2>1, <2>3 DEF Shape, OnlyFile
  <2>5. ptr' \in [Proc -> Position] /\ ptr'[p] = ptr[p] + 1 /\ \A q \in Proc \ {p} : ptr'[q] = ptr[q]
    BY <2>1, <2>2 DEF Shape
  <2>6. Moves(p)
    BY <1>1, <1>7, <2>5 DEF Moves, Stays, Shape
  <2>7. Shape'
    BY <1>1, <1>8, <2>1, <2>4, <2>6, <2>9, ShapeKept DEF Shape
  <2>8. QED
    BY <1>1, <1>3, <1>5, <1>6, <1>7, <1>8, <1>9, <2>1, <2>4, <2>5, <2>6, <2>7, <2>9, <2>10 DEF f, n, new
<1>10. CASE ~ (ptr[p] <= Room)
  <2>1. Note({"dropped"}) /\ UNCHANGED <<files, ptr>>
    BY <1>1, <1>10
  <2> DEFINE what == {"dropped"}
  <2>2. "dropped" \in what
    OBVIOUS
  <2>3. Note(what)
    BY <2>1
  <2> HIDE DEF what
  <2>4. trouble \subseteq trouble' /\ trouble' \subseteq Costs /\ ~ trouble' \subseteq {"update"}
    BY <2>2, <2>3, NoteIs, LossKinds DEF Shape
  <2>5. Moves(p)
    BY <1>1, <1>7, <2>1 DEF Moves, Stays, Shape
  <2>6. Shape'
    BY <1>1, <1>8, <2>1, <2>4, <2>5, ShapeKept DEF Shape
  <2>7. OnlyFile(f)
    BY <2>1 DEF OnlyFile
  <2>8. QED
    BY <1>1, <1>3, <1>5, <1>6, <1>7, <1>8, <2>1, <2>4, <2>5, <2>6, <2>7 DEF f, n
<1>11. QED
  BY <1>9, <1>10

\* The list has its end; it is parsed once more.
LEMMA EndListIs ==
    ASSUME Shape, NEW p \in Proc, EndList(p)
    PROVE  /\ Shape' /\ Moves(p) /\ pc[p] = "tuples" /\ file[p] \in Inode /\ file'[p] = file[p]
           /\ todo[p] = <<>> /\ files'[file[p]] = Ended(files[file[p]], ptr[p]) /\ OnlyFile(file[p])
           /\ pc'[p] = "reparse" /\ ptr'[p] = 1 /\ cmd' = cmd
           /\ trouble \subseteq trouble' /\ (trouble' = {} => file[p] = staging)
           /\ "end" \notin trouble' => ~ OverCut(p, ptr[p])
           /\ UNCHANGED <<flash, staging, tuples, buf, seen, may, maySaved, flashTorn>>
<1> DEFINE f == file[p]
           new == Ended(files[f], ptr[p])
           what == When(f # staging, "unlinked") \cup When(OverCut(p, ptr[p]), "over_cut")
<1>1. /\ pc[p] = "tuples" /\ todo[p] = <<>> /\ files' = [files EXCEPT ![f] = new]
      /\ ptr' = [ptr EXCEPT ![p] = 1] /\ Goto(p, "reparse") /\ Note(what)
      /\ UNCHANGED <<flash, staging, cmd, file, tuples, todo, buf, seen, may, maySaved, flashTorn>>
  BY DEF EndList
<1>2. /\ "tuples" \in FilePc /\ "reparse" \in Pc /\ "reparse" \in FilePc /\ "reparse" \notin Cutting
      /\ "reparse" \notin ReaderPc \cup SavingPc \cup CopyPc
  BY DEF Pc, ReaderPc, WriterPc, EditPc, SavingPc, FilePc, CopyPc, Cutting
<1>3. f \in Inode /\ cmd[p].write
  BY <1>1, <1>2, PcSets DEF Shape, HandleOK
<1>4. files' \in [Inode -> Image] /\ files'[f] = new /\ OnlyFile(f)
  <2>1. new \in Image
    BY <1>3, EndedIs DEF Shape
  <2> HIDE DEF new, f
  <2>2. QED
    BY <1>1, <1>3, <2>1 DEF Shape, OnlyFile
<1>5. /\ f # staging => "unlinked" \in what
      /\ OverCut(p, ptr[p]) => "over_cut" \in what
  BY WhenIs
<1> HIDE DEF what
<1>6. trouble \subseteq trouble' /\ trouble' \subseteq Costs /\ (trouble' = {} => f = staging)
  BY <1>1, <1>5, NoteIs DEF Shape
<1>7. "end" \notin trouble' => ~ OverCut(p, ptr[p])
  BY <1>1, <1>5, NoteIs, LossKinds
<1>8. pc' \in [Proc -> Pc] /\ pc'[p] = "reparse" /\ \A q \in Proc \ {p} : pc'[q] = pc[q]
  BY <1>1, <1>2, GotoIs
<1>9. ptr' \in [Proc -> Position] /\ ptr'[p] = 1 /\ \A q \in Proc \ {p} : ptr'[q] = ptr[q]
  BY <1>1, Sizes DEF Shape
<1>10. Moves(p)
  BY <1>1, <1>8, <1>9 DEF Moves, Stays, Shape
<1>11. file[p] # NoFile
  BY <1>1, <1>2 DEF Shape, HandleOK
<1>12. HandleOK(p)'
  BY <1>1, <1>2, <1>3, <1>8, <1>9, <1>11, PcSets DEF HandleOK
<1>13. Shape'
  BY <1>1, <1>4, <1>6, <1>10, <1>12, ShapeKept DEF Shape
<1>14. QED
  BY <1>1, <1>3, <1>4, <1>6, <1>7, <1>8, <1>9, <1>10, <1>13

\* The whole staging file is in the buffer, or the process has given up.
LEMMA ReadStagingIs ==
    ASSUME Shape, NEW p \in Proc, ReadStaging(p)
    PROVE  /\ Shape' /\ Moves(p) /\ pc[p] = "save_read" /\ file'[p] = NoFile
           /\ UNCHANGED <<flash, files, staging, flashTorn>> /\ trouble \subseteq trouble'
           /\ \/ Exit(p, "perhaps", {}) /\ pc'[p] = "idle"
              \/ /\ staging \in Inode /\ ~ Short(files[staging])
                 /\ pc'[p] = "save" /\ buf'[p] = files[staging] /\ cmd' = cmd /\ UNCHANGED <<seen, may, maySaved>>
                 /\ "end" \notin trouble' => ~ SomeoneIn(staging, p)
                 /\ trouble' \subseteq {"update"} => ~ SomeoneIn(staging, p)
<1> DEFINE img == files[staging]
           what == When(SomeoneIn(staging, p), "torn_save")
<1>1. /\ pc[p] = "save_read" /\ UNCHANGED <<flash, files, staging, flashTorn>>
      /\ IF staging = NoFile \/ Short(img)
         THEN Exit(p, "perhaps", {})
         ELSE /\ buf' = [buf EXCEPT ![p] = img]
              /\ Goto(p, "save")
              /\ Note(what)
              /\ UNCHANGED <<cmd, file, tuples, todo, ptr, seen, may, maySaved>>
  BY DEF ReadStaging
<1>2. /\ "save_read" \in SavingPc /\ "save_read" \notin FilePc
      /\ "save" \in Pc /\ "save" \in WriterPc /\ "save" \in SavingPc /\ "save" \in CopyPc
      /\ "save" \notin EditPc \cup ReaderPc
  BY DEF Pc, ReaderPc, WriterPc, EditPc, SavingPc, FilePc, CopyPc, Cutting
<1>3. cmd[p].commit /\ file[p] = NoFile
  BY <1>1, <1>2 DEF Shape, HandleOK
<1>4. CASE staging = NoFile \/ Short(img)
  <2>1. Exit(p, "perhaps", {}) /\ flash' = flash /\ files' \in [Inode -> Image] /\ staging' \in Inode \cup {NoFile}
    BY <1>1, <1>4 DEF Shape
  <2>2. Shape'
    BY <2>1, ExitShape
  <2>3. Note({}) /\ Moves(p) /\ pc'[p] = "idle" /\ file'[p] = NoFile
    BY <2>1, ExitIs
  <2>4. trouble \subseteq trouble'
    BY <2>3, NoteIs
  <2>5. QED
    BY <1>1, <2>1, <2>2, <2>3, <2>4
<1>5. CASE staging # NoFile /\ ~ Short(img)
  <2>1. /\ buf' = [buf EXCEPT ![p] = img] /\ Goto(p, "save") /\ Note(what)
        /\ UNCHANGED <<cmd, file, tuples, todo, ptr, seen, may, maySaved>>
    BY <1>1, <1>5
  <2>2. staging \in Inode /\ img \in Image
    BY <1>5 DEF Shape
  <2>3. SomeoneIn(staging, p) => "torn_save" \in what
    BY WhenIs
  <2> HIDE DEF what
  <2>4. /\ trouble \subseteq trouble' /\ trouble' \subseteq Costs
        /\ "end" \notin trouble' => ~ SomeoneIn(staging, p)
        /\ trouble' \subseteq {"update"} => ~ SomeoneIn(staging, p)
    <3>1. trouble \subseteq trouble' /\ trouble' \subseteq Costs
      BY <2>1, NoteIs DEF Shape
    <3>2. QED
      BY <2>1, <2>3, <3>1, NoteIs, LossKinds
  <2>5. pc' \in [Proc -> Pc] /\ pc'[p] = "save" /\ \A q \in Proc \ {p} : pc'[q] = pc[q]
    BY <1>2, <2>1, GotoIs
  <2>6. buf' \in [Proc -> Image \cup {NoImage}] /\ buf'[p] = img /\ \A q \in Proc \ {p} : buf'[q] = buf[q]
    BY <2>1, <2>2 DEF Shape
  <2>7. Moves(p)
    BY <2>1, <2>5, <2>6 DEF Moves, Stays, Shape
  <2>8. HandleOK(p)'
    BY <1>2, <1>3, <1>5, <2>1, <2>2, <2>5, <2>6, PcSets DEF HandleOK
  <2>9. Shape'
    BY <1>1, <2>1, <2>4, <2>7, <2>8, ShapeKept DEF Shape
  <2>10. QED
    BY <1>1, <1>3, <1>5, <2>1, <2>2, <2>4, <2>5, <2>6, <2>7, <2>9
<1>6. QED
  BY <1>4, <1>5

\* The first part of the partition has been written.
LEMMA SaveIs ==
    ASSUME Shape, NEW p \in Proc, Save(p)
    PROVE  /\ Shape' /\ Moves(p) /\ pc[p] = "save" /\ pc'[p] = "save_rest" /\ file'[p] = NoFile
           /\ buf[p] \in Image /\ flash' = FirstPart(flash, buf[p]) /\ buf'[p] = buf[p]
           /\ UNCHANGED <<files, staging, cmd, file, buf, tuples, seen, may, maySaved, flashTorn>>
           /\ trouble \subseteq trouble'
           /\ "end" \notin trouble' => ~ \E q \in Proc \ {p} : Saving(q)
           /\ trouble' \subseteq {"update"} => ~ \E q \in Proc \ {p} : Saving(q)
<1> DEFINE others == \E q \in Proc \ {p} : Saving(q)
           what == When(others, "torn_save")
<1>1. /\ pc[p] = "save" /\ flash' = FirstPart(flash, buf[p]) /\ Goto(p, "save_rest") /\ Note(what)
      /\ UNCHANGED <<files, staging, cmd, file, tuples, todo, ptr, buf, seen, may, maySaved, flashTorn>>
  BY DEF Save
<1>2. others => "torn_save" \in what
  BY WhenIs
<1> HIDE DEF others, what
<1>3. /\ trouble \subseteq trouble' /\ trouble' \subseteq Costs
      /\ "end" \notin trouble' => ~ others
      /\ trouble' \subseteq {"update"} => ~ others
  <2>1. trouble \subseteq trouble' /\ trouble' \subseteq Costs
    BY <1>1, NoteIs DEF Shape
  <2>2. QED
    BY <1>1, <1>2, <2>1, NoteIs, LossKinds
<1>4. /\ "save" \in SavingPc /\ "save" \in CopyPc /\ "save" \notin FilePc
      /\ "save_rest" \in Pc /\ "save_rest" \in WriterPc /\ "save_rest" \in SavingPc /\ "save_rest" \in CopyPc
      /\ "save_rest" \notin EditPc \cup ReaderPc
  BY DEF Pc, ReaderPc, WriterPc, EditPc, SavingPc, FilePc, CopyPc, Cutting
<1>5. cmd[p].commit /\ file[p] = NoFile /\ buf[p] \in Image /\ ~ Short(buf[p])
  BY <1>1, <1>4 DEF Shape, HandleOK
<1>6. pc' \in [Proc -> Pc] /\ pc'[p] = "save_rest" /\ \A q \in Proc \ {p} : pc'[q] = pc[q]
  BY <1>1, <1>4, GotoIs
<1>7. Moves(p)
  BY <1>1, <1>6 DEF Moves, Stays, Shape
<1>8. HandleOK(p)'
  BY <1>1, <1>4, <1>5, <1>6, PcSets DEF HandleOK
<1>9. flash' \in Image /\ ~ Short(flash')
  BY <1>1, <1>5, FirstPartIs DEF Shape
<1>10. Shape'
  BY <1>1, <1>3, <1>7, <1>8, <1>9, ShapeKept DEF Shape
<1>11. QED
  BY <1>1, <1>3, <1>5, <1>6, <1>7, <1>10 DEF others

\* The rest of the partition has been written, or an I/O error taken for success.
LEMMA SaveRestIs ==
    ASSUME Shape, NEW p \in Proc, SaveRest(p)
    PROVE  /\ Shape' /\ Moves(p) /\ pc[p] = "save_rest" /\ pc'[p] = "unlink" /\ file'[p] = NoFile
           /\ buf[p] \in Image
           /\ UNCHANGED <<files, staging, cmd, file, buf, tuples, seen, may, maySaved>>
           /\ trouble \subseteq trouble'
           /\ \/ ~ flashTorn' /\ flash' = RestPart(flash, buf[p])
              \/ flashTorn' /\ flash' = flash /\ ~ trouble' \subseteq {"update"}
<1>1. /\ pc[p] = "save_rest" /\ Goto(p, "unlink")
      /\ UNCHANGED <<files, staging, cmd, file, tuples, todo, ptr, buf, seen, may, maySaved>>
  BY DEF SaveRest
<1>2. PICK io_error \in BOOLEAN :
        /\ flash' = IF io_error THEN flash ELSE RestPart(flash, buf[p])
        /\ flashTorn' = io_error
        /\ Note(When(io_error, "io_error"))
  BY DEF SaveRest
<1> DEFINE what == When(io_error, "io_error")
<1>3. io_error => "io_error" \in what
  BY WhenIs
<1>4. Note(what)
  BY <1>2
<1> HIDE DEF what
<1>5. /\ trouble \subseteq trouble' /\ trouble' \subseteq Costs
      /\ trouble' \subseteq {"update"} => ~ io_error
  <2>1. trouble \subseteq trouble' /\ trouble' \subseteq Costs
    BY <1>4, NoteIs DEF Shape
  <2>2. QED
    BY <1>3, <1>4, <2>1, NoteIs, LossKinds
<1>6. /\ "save_rest" \in SavingPc /\ "save_rest" \in CopyPc /\ "save_rest" \notin FilePc
      /\ "unlink" \in Pc /\ "unlink" \in WriterPc /\ "unlink" \in SavingPc
      /\ "unlink" \notin EditPc \cup ReaderPc \cup CopyPc
  BY DEF Pc, ReaderPc, WriterPc, EditPc, SavingPc, FilePc, CopyPc, Cutting
<1>7. cmd[p].commit /\ file[p] = NoFile /\ buf[p] \in Image /\ ~ Short(buf[p])
  BY <1>1, <1>6 DEF Shape, HandleOK
<1>8. pc' \in [Proc -> Pc] /\ pc'[p] = "unlink" /\ \A q \in Proc \ {p} : pc'[q] = pc[q]
  BY <1>1, <1>6, GotoIs
<1>9. Moves(p)
  BY <1>1, <1>8 DEF Moves, Stays, Shape
<1>10. HandleOK(p)'
  BY <1>1, <1>6, <1>7, <1>8, PcSets DEF HandleOK
<1>11. flash' \in Image /\ ~ Short(flash')
  BY <1>2, <1>7, RestPartIs DEF Shape
<1>12. Shape'
  BY <1>1, <1>5, <1>9, <1>10, <1>11, ShapeKept DEF Shape
<1>13. QED
  BY <1>1, <1>2, <1>5, <1>7, <1>8, <1>9, <1>12

\* The name of the staging file is gone; what others have open keeps its contents.
LEMMA UnlinkIs ==
    ASSUME Shape, NEW p \in Proc, Unlink(p)
    PROVE  /\ Shape' /\ Moves(p) /\ pc[p] = "unlink" /\ pc'[p] = "idle" /\ file'[p] = NoFile
           /\ staging' = NoFile /\ UNCHANGED <<flash, flashTorn>>
           /\ \A f \in Inode : f # staging \/ (\E q \in Proc : file[q] = f) => files'[f] = files[f]
           /\ trouble \subseteq trouble'
           /\ trouble' \subseteq {"update"} => ~ flashTorn
           /\ \E what : /\ staging # NoFile => Exit(p, "kept", what)
                        /\ staging = NoFile => Exit(p, "perhaps", what)
<1> DEFINE what == When(flashTorn, "torn_unbacked")
           effect == IF staging = NoFile THEN "perhaps" ELSE "kept"
<1>1. /\ pc[p] = "unlink" /\ staging' = NoFile /\ UNCHANGED <<flash, flashTorn>>
      /\ files' = [f \in Inode |-> IF f = staging /\ \A q \in Proc : file[q] # f THEN EmptyFile ELSE files[f]]
      /\ Exit(p, effect, what)
  BY DEF Unlink
<1>2. flashTorn => "torn_unbacked" \in what
  BY WhenIs
<1>3. effect \in {"kept", "perhaps", "none"} /\ (staging # NoFile => effect = "kept")
      /\ (staging = NoFile => effect = "perhaps")
  OBVIOUS
<1> HIDE DEF what, effect
<1>4. files' \in [Inode -> Image]
  BY <1>1, EmptyFileIs DEF Shape
<1>5. Shape'
  BY <1>1, <1>3, <1>4, ExitShape
<1>6. Note(what) /\ Moves(p) /\ pc'[p] = "idle" /\ file'[p] = NoFile
  BY <1>1, <1>3, ExitIs
<1>7. trouble \subseteq trouble' /\ (trouble' \subseteq {"update"} => ~ flashTorn)
  <2>1. trouble \subseteq trouble'
    BY <1>6, NoteIs
  <2>2. QED
    BY <1>2, <1>6, <2>1, NoteIs, LossKinds
<1>8. \A f \in Inode : f # staging \/ (\E q \in Proc : file[q] = f) => files'[f] = files[f]
  BY <1>1
<1>9. \E w : /\ staging # NoFile => Exit(p, "kept", w)
             /\ staging = NoFile => Exit(p, "perhaps", w)
  BY <1>1, <1>3
<1>10. QED
  BY <1>1, <1>5, <1>6, <1>7, <1>8, <1>9

\* A process is killed: nothing is written, and without a lost end it was in no commit or copy.
LEMMA KillIs ==
    ASSUME Shape, NEW p \in Proc, Kill(p)
    PROVE  /\ Shape' /\ Moves(p) /\ pc[p] # "idle" /\ pc'[p] = "idle" /\ file'[p] = NoFile
           /\ UNCHANGED <<flash, files, staging>>
           /\ flashTorn' = (flashTorn \/ Saving(p))
           /\ Settle(p, "perhaps") /\ seen' = [seen EXCEPT ![p] = {}]
           /\ trouble \subseteq trouble'
           /\ "end" \notin trouble' => pc[p] # "tuples" /\ pc[p] # "fill" /\ pc[p] # "fill_rest"
           /\ trouble' \subseteq {"update"} => /\ pc[p] # "tuples" /\ pc[p] # "fill" /\ pc[p] # "fill_rest"
                                               /\ pc[p] \notin Cutting
                                               /\ ~ (Saving(p) /\ staging = NoFile)
<1> DEFINE inCommit == pc[p] \in Committing
           inCopy == pc[p] \in Filling
           inRehash == pc[p] \in Cutting
           unbacked == Saving(p) /\ staging = NoFile
           what == When(inCommit, "killed_in_commit") \cup When(inCopy, "killed_in_copy")
                   \cup When(inRehash, "killed_in_rehash") \cup When(unbacked, "torn_unbacked")
<1>1. /\ pc[p] # "idle" /\ Note(what) /\ Gone(p) /\ Settle(p, "perhaps")
      /\ flashTorn' = (flashTorn \/ Saving(p)) /\ UNCHANGED <<flash, files, staging>>
  BY DEF Kill, Running
<1>2. /\ inCommit => "killed_in_commit" \in what
      /\ inCopy => "killed_in_copy" \in what
      /\ inRehash => "killed_in_rehash" \in what
      /\ unbacked => "torn_unbacked" \in what
  BY WhenIs
<1>3. (inCommit <=> pc[p] = "tuples") /\ (inCopy <=> pc[p] = "fill" \/ pc[p] = "fill_rest")
  BY DEF Committing, Filling
<1> HIDE DEF what, inCommit, inCopy, inRehash
<1>4. trouble \subseteq trouble' /\ trouble' \subseteq Costs
  BY <1>1, NoteIs DEF Shape
<1>5. /\ "end" \notin trouble' => ~ inCommit /\ ~ inCopy
      /\ trouble' \subseteq {"update"} => ~ inCommit /\ ~ inCopy /\ ~ inRehash /\ ~ unbacked
  BY <1>1, <1>2, NoteIs, LossKinds
<1>6. Moves(p) /\ HandleOK(p)' /\ pc'[p] = "idle" /\ file'[p] = NoFile
      /\ seen' = [seen EXCEPT ![p] = {}] /\ seen' \in [Proc -> SUBSET Store]
  BY <1>1, GoneIs
<1>7. may' \subseteq Store /\ maySaved' \subseteq Store
  BY <1>1, SettleType
<1>8. Shape'
  BY <1>1, <1>4, <1>6, <1>7, ShapeKept DEF Shape
<1>9. QED
  BY <1>1, <1>3, <1>4, <1>5, <1>6, <1>8 DEF unbacked, inRehash

\* The power goes: all processes and files are gone, the partition stays.
LEMMA PowerLossIs ==
    ASSUME Shape, PowerLoss
    PROVE  /\ Shape' /\ \A p \in Proc : pc'[p] = "idle" /\ file'[p] = NoFile
           /\ staging' = NoFile /\ flash' = flash
           /\ flashTorn' = (flashTorn \/ \E p \in Proc : Saving(p))
           /\ trouble \subseteq trouble'
           /\ trouble' \subseteq {"update"} => ~ flashTorn'
           /\ may' = maySaved'
           /\ trouble' = {} => /\ maySaved \subseteq may'
                               /\ \A p \in Proc : cmd[p].commit => may \subseteq may' /\ After(p) \subseteq may'
<1> DEFINE c0 == CHOOSE c \in Command : TRUE
           what == When(flashTorn', "torn_unbacked")
           committing == {p \in Proc : cmd[p].commit}
           perhaps == maySaved \cup {Asked(s, cmd[p]) : s \in may, p \in committing}
                      \cup (IF committing = {} THEN {} ELSE may)
           known == IF trouble' = {} THEN perhaps ELSE {}
<1>1. /\ flashTorn' = (flashTorn \/ \E p \in Proc : Saving(p)) /\ Note(what)
      /\ pc' = [p \in Proc |-> "idle"] /\ cmd' = [p \in Proc |-> c0]
      /\ file' = [p \in Proc |-> NoFile] /\ tuples' = [p \in Proc |-> FirstStore]
      /\ todo' = [p \in Proc |-> <<>>] /\ ptr' = [p \in Proc |-> 1] /\ buf' = [p \in Proc |-> NoImage]
      /\ files' = [f \in Inode |-> EmptyFile] /\ staging' = NoFile /\ flash' = flash
      /\ seen' = [p \in Proc |-> {}] /\ may' = known /\ maySaved' = known
  BY DEF PowerLoss
<1>2. flashTorn' => "torn_unbacked" \in what
  BY WhenIs
<1>3. c0 \in Command
  BY CommandFacts
<1>4. perhaps \subseteq Store
  <2>1. may \subseteq Store /\ maySaved \subseteq Store
    BY DEF Shape
  <2>2. \A s \in may, p \in committing : Asked(s, cmd[p]) \in Store
    BY <2>1, AskedIs DEF Shape
  <2>3. {Asked(s, cmd[p]) : s \in may, p \in committing} \subseteq Store
    BY <2>2
  <2>4. QED
    BY <2>1, <2>3
<1>5. /\ maySaved \subseteq perhaps
      /\ \A p \in Proc : cmd[p].commit => may \subseteq perhaps /\ After(p) \subseteq perhaps
  <2>1. ASSUME NEW p \in Proc, cmd[p].commit PROVE may \subseteq perhaps /\ After(p) \subseteq perhaps
    <3>1. p \in committing
      BY <2>1
    <3> HIDE DEF committing
    <3>2. QED
      BY <3>1 DEF After
  <2>2. QED
    BY <2>1
<1> HIDE DEF what, c0, perhaps
<1>6. trouble \subseteq trouble' /\ trouble' \subseteq Costs /\ (trouble' \subseteq {"update"} => ~ flashTorn')
  <2>1. trouble \subseteq trouble' /\ trouble' \subseteq Costs
    BY <1>1, NoteIs DEF Shape
  <2>2. QED
    BY <1>1, <1>2, <2>1, NoteIs, LossKinds
<1>7. \A p \in Proc : HandleOK(p)'
  <2> SUFFICES ASSUME NEW p \in Proc PROVE HandleOK(p)'
    OBVIOUS
  <2>1. pc'[p] = "idle" /\ file'[p] = NoFile
    BY <1>1
  <2>2. QED
    BY <2>1, PcSets DEF HandleOK
<1>8. Shape'
  <2>1. FirstStore \in Store /\ <<>> \in Seq(Name) /\ 1 \in Position /\ EmptyFile \in Image
    BY ImageOfFirst, EmptyFileIs, Sizes
  <2>2. /\ pc' \in [Proc -> Pc] /\ cmd' \in [Proc -> Command] /\ file' \in [Proc -> Inode \cup {NoFile}]
        /\ tuples' \in [Proc -> Store] /\ todo' \in [Proc -> Seq(Name)] /\ ptr' \in [Proc -> Position]
        /\ buf' \in [Proc -> Image \cup {NoImage}] /\ seen' \in [Proc -> SUBSET Store]
        /\ files' \in [Inode -> Image]
    BY <1>1, <1>3, <2>1, PcSets
  <2>3. may' \subseteq Store /\ maySaved' \subseteq Store
    BY <1>1, <1>4
  <2>4. QED
    BY <1>1, <1>6, <1>7, <2>2, <2>3 DEF Shape
<1>9. QED
  BY <1>1, <1>5, <1>6, <1>8

\* Shape holds at first.
LEMMA ShapeInit == Init => Shape
<1> SUFFICES ASSUME Init PROVE Shape
  OBVIOUS
<1> DEFINE c0 == CHOOSE c \in Command : TRUE
           first == ImageOf(FirstStore)
<1>1. /\ flash = first /\ files = [f \in Inode |-> EmptyFile] /\ staging = NoFile
      /\ pc = [p \in Proc |-> "idle"] /\ cmd = [p \in Proc |-> c0]
      /\ file = [p \in Proc |-> NoFile] /\ tuples = [p \in Proc |-> FirstStore]
      /\ todo = [p \in Proc |-> <<>>] /\ ptr = [p \in Proc |-> 1] /\ buf = [p \in Proc |-> NoImage]
      /\ seen = [p \in Proc |-> {}] /\ may = {FirstStore} /\ maySaved = {FirstStore} /\ trouble = {}
  BY DEF Init
<1>2. c0 \in Command
  BY CommandFacts
<1> HIDE DEF c0, first
<1>3. \A p \in Proc : HandleOK(p)
  BY <1>1, PcSets DEF HandleOK
<1>4. FirstStore \in Store /\ <<>> \in Seq(Name) /\ 1 \in Position /\ EmptyFile \in Image /\ first \in Image /\ ~ Short(first)
  BY ImageOfFirst, EmptyFileIs, Sizes DEF first
<1>5. /\ pc \in [Proc -> Pc] /\ cmd \in [Proc -> Command] /\ file \in [Proc -> Inode \cup {NoFile}]
      /\ tuples \in [Proc -> Store] /\ todo \in [Proc -> Seq(Name)] /\ ptr \in [Proc -> Position]
      /\ buf \in [Proc -> Image \cup {NoImage}] /\ seen \in [Proc -> SUBSET Store]
      /\ files \in [Inode -> Image]
  BY <1>1, <1>2, <1>4, PcSets
<1>6. QED
  BY <1>1, <1>3, <1>4, <1>5 DEF Shape

\* Every step keeps Shape.
LEMMA ShapeNext == Shape /\ [Next]_vars => Shape'
<1> SUFFICES ASSUME Shape, [Next]_vars PROVE Shape'
  OBVIOUS
<1>1. CASE PowerLoss
  BY <1>1, PowerLossIs
<1>2. ASSUME NEW p \in Proc, Step(p) PROVE Shape'
  <2>1. CASE Start(p)
    BY <2>1, StartIs
  <2>2. CASE FindForReading(p) \/ OpenReading(p) \/ ReadRest(p) \/ Close(p)
    BY <2>2, FindForReadingIs, OpenReadingIs, ReadRestIs, CloseIs
  <2>3. CASE FindStaging(p) \/ ReadFlash(p) \/ CreateStaging(p) \/ Fill(p) \/ FillRest(p)
    BY <2>3, FindStagingIs, ReadFlashIs, CreateStagingIs, FillIs, FillRestIs
  <2>4. CASE OpenStaging(p) \/ Clear(p) \/ WriteTuple(p) \/ EndList(p)
    BY <2>4, OpenStagingIs, ClearIs, WriteTupleIs, EndListIs
  <2>7. CASE CutEntry(p) \/ Restore(p) \/ EndParse(p) \/ EndReparse(p)
    BY <2>7, CutEntryIs, RestoreIs, EndParseIs, EndReparseIs
  <2>5. CASE ReadStaging(p) \/ Save(p) \/ SaveRest(p) \/ Unlink(p) \/ Kill(p)
    BY <2>5, ReadStagingIs, SaveIs, SaveRestIs, UnlinkIs, KillIs
  <2>6. QED
    BY <1>2, <2>1, <2>2, <2>3, <2>4, <2>5, <2>7 DEF Step
<1>3. CASE UNCHANGED vars
  <2>1. UNCHANGED <<flash, files, staging, pc, cmd, file, tuples, todo, ptr, buf, seen, may, maySaved, trouble>>
    BY <1>3 DEF vars, process, history
  <2>2. \A p \in Proc : HandleOK(p)'
    BY <2>1 DEF Shape, HandleOK
  <2>3. QED
    BY <2>1, <2>2 DEF Shape
<1>4. QED
  BY <1>1, <1>2, <1>3 DEF Next

\* TypeOK: every variable keeps its type, and a process that writes a file holds one, whatever the
\* processes do, and wherever one is killed or the power goes.
THEOREM TypeCorrect == Spec => []TypeOK
<1>1. Shape => TypeOK
  <2> SUFFICES ASSUME Shape PROVE TypeOK
    OBVIOUS
  <2>1. ASSUME NEW p \in Proc PROVE InWindow(p, file[p]) \/ Parses(p, file[p]) => file[p] # NoFile
    BY DEF InWindow, Committing, Filling, Parses, Parsing, Shape, HandleOK, FilePc
  <2>2. \A p \in Proc : buf[p] \in Image \cup {NoImage}
    BY DEF Shape
  <2>3. QED
    BY <2>1, <2>2 DEF Shape, TypeOK
<1>2. QED
  BY <1>1, ShapeInit, ShapeNext, PTL DEF Spec

-----------------------------------------------------------------------------
(***************************************************************************)
(* The end of the list.                                                    *)
(***************************************************************************)
SaverNow == \E p \in Proc : Saving(p)
InUse(f) == f = staging \/ \E p \in Proc : file[p] = f
Below(img, e) == \A i \in 1 .. e - 1 : IsTuple(img.cells[i])
\* The file has an end, or someone is in the middle of giving it one.
EndComes(f) ==
    \/ HasEnd(files[f])
    \/ \E p \in Proc : /\ file[p] = f
                       /\ pc[p] \in Filling \/ (pc[p] = "tuples" /\ Below(files[f], ptr[p]))

CopyAlone == \A p, q \in Proc : p # q /\ file[p] = file[q] /\ pc[p] = "fill_rest"
                                  => pc[q] # "fill_rest" /\ pc[q] # "tuples"
\* The same list as b, as far as the cells below Half and the ends go.
SameEnds(img, b) == \A i \in Position : i <= Half => /\ IsTuple(img.cells[i]) <=> IsTuple(b.cells[i])
                                                     /\ img.cells[i] = Nul <=> b.cells[i] = Nul
CopyBegun == \A p \in Proc : pc[p] = "fill_rest" => SameEnds(files[file[p]], buf[p])
CopyHasEnd == \A p \in Proc : pc[p] \in CopyPc => HasEnd(buf[p])
FlashHasEnd == ~ flashTorn /\ ~ SaverNow => HasEnd(flash)
OneSaver == \A p, q \in Proc : Saving(p) /\ Saving(q) => p = q
SaveBegun == \A p \in Proc : Saving(p) => FirstCopied(flash, buf[p])
FilesEnd == \A f \in Inode : InUse(f) => EndComes(f)
\* The entry whose '=' a parser has covered is still there, and nobody else's.
Cuts ==
    \A p \in Proc : pc[p] \in Cutting =>
        /\ IsTuple(Parsed(p)) /\ ~ Readable(Parsed(p))
        /\ \A q \in Proc \ {p} : pc[q] \in Cutting /\ file[q] = file[p] => ptr[q] # ptr[p]
Ends ==
    /\ CopyAlone /\ CopyBegun /\ CopyHasEnd /\ FlashHasEnd /\ OneSaver /\ SaveBegun /\ FilesEnd
    /\ Cuts

\* The places of a process, listed.
LEMMA LabelSets ==
    /\ CopyPc = {"create", "fill", "fill_rest", "save", "save_rest"}
    /\ Filling = {"fill", "fill_rest"} /\ Committing = {"tuples"}
    /\ FilePc = {"fill", "fill_rest", "parse", "cut", "commit", "tuples", "reparse", "recut"}
    /\ Cutting = {"cut", "recut"} /\ Parsing = {"parse", "cut", "reparse", "recut"}
    /\ SavingPc = {"save_read", "save", "save_rest", "unlink"}
    /\ \A p : Saving(p) <=> pc[p] = "save_rest"
BY DEF CopyPc, Filling, Committing, FilePc, SavingPc, Saving, Cutting, Parsing

\* A process that copies or commits has a file.
LEMMA HasFile == ASSUME Shape, NEW p \in Proc, pc[p] \in FilePc PROVE file[p] \in Inode
BY DEF Shape, HandleOK

\* The cells with a covered '=' stay as they are.
LEMMA CutsStay ==
    ASSUME Shape, Cuts, NEW p \in Proc, Moves(p), pc'[p] \notin Cutting,
           \A q \in Proc \ {p} : pc[q] \in Cutting
             => files'[file[q]].cells[ptr[q]] = files[file[q]].cells[ptr[q]]
    PROVE  Cuts'
<1>1. \A q \in Proc \ {p} : pc'[q] = pc[q] /\ file'[q] = file[q] /\ ptr'[q] = ptr[q]
  BY DEF Moves, Stays
<1> SUFFICES ASSUME NEW q \in Proc, pc'[q] \in Cutting
             PROVE  /\ IsTuple(Parsed(q)') /\ ~ Readable(Parsed(q)')
                    /\ \A r \in Proc \ {q} : pc'[r] \in Cutting /\ file'[r] = file'[q] => ptr'[r] # ptr'[q]
  BY DEF Cuts, IsTuple, Readable
<1>2. q # p /\ pc[q] \in Cutting
  BY <1>1
<1>3. Parsed(q)' = Parsed(q)
  BY <1>1, <1>2 DEF Parsed
<1>4. IsTuple(Parsed(q)) /\ ~ Readable(Parsed(q))
  BY <1>2 DEF Cuts
<1>5. ASSUME NEW r \in Proc \ {q}, pc'[r] \in Cutting, file'[r] = file'[q] PROVE ptr'[r] # ptr'[q]
  <2>1. r # p
    BY <1>5
  <2>2. pc[r] \in Cutting /\ file[r] = file[q]
    BY <1>1, <1>2, <1>5, <2>1
  <2>3. ptr[r] # ptr[q]
    BY <1>2, <1>5, <2>2 DEF Cuts
  <2>4. QED
    BY <1>1, <1>2, <2>1, <2>3
<1>6. QED
  BY <1>3, <1>4, <1>5

\* An image that agrees with b in what is a tuple and what is the end has an end if b has one.
LEMMA SameEndsEnd ==
    ASSUME NEW a, NEW b, HasEnd(b),
           \A i \in Position : /\ IsTuple(a.cells[i]) <=> IsTuple(b.cells[i])
                               /\ a.cells[i] = Nul <=> b.cells[i] = Nul
    PROVE  HasEnd(a)
<1>1. PICK e \in Position : EndAt(b, e)
  BY DEF HasEnd
<1>2. \A i \in 1 .. e - 1 : i \in Position
  BY Sizes
<1>3. EndAt(a, e)
  BY <1>1, <1>2 DEF EndAt
<1>4. QED
  BY <1>3 DEF HasEnd

\* A step that writes no image whose end matters.
LEMMA EndsQuiet ==
    ASSUME Shape, Ends, NEW p \in Proc, Moves(p),
           flash' = flash, flashTorn' <=> (flashTorn \/ Saving(p)),
           pc[p] \notin {"fill", "fill_rest", "tuples"},
           pc'[p] \notin {"fill_rest", "tuples", "save_rest", "cut", "recut"},
           pc'[p] \in CopyPc => HasEnd(buf'[p]),
           \A q \in Proc \ {p} : file[q] \in Inode => files'[file[q]] = files[file[q]],
           \A f \in Inode : InUse(f)' => \/ InUse(f) /\ files'[f] = files[f]
                                         \/ file'[p] = f /\ pc'[p] = "fill"
    PROVE  Ends'
<1>1. \A q \in Proc \ {p} : pc'[q] = pc[q] /\ file'[q] = file[q] /\ buf'[q] = buf[q] /\ ptr'[q] = ptr[q]
  BY DEF Moves, Stays
<1>2. CopyAlone'
  BY <1>1 DEF CopyAlone, Ends
<1>3. CopyBegun'
  <2> SUFFICES ASSUME NEW q \in Proc, pc'[q] = "fill_rest" PROVE SameEnds(files'[file'[q]], buf'[q])
    BY DEF CopyBegun, SameEnds
  <2>1. q \in Proc \ {p} /\ pc[q] = "fill_rest" /\ file'[q] = file[q] /\ buf'[q] = buf[q]
    BY <1>1
  <2>2. file[q] \in Inode
    BY <2>1, HasFile, LabelSets
  <2>3. files'[file[q]] = files[file[q]]
    BY <2>1, <2>2
  <2>4. SameEnds(files[file[q]], buf[q])
    BY <2>1 DEF Ends, CopyBegun
  <2>5. QED
    BY <2>1, <2>3, <2>4
<1>4. CopyHasEnd'
  BY <1>1 DEF Ends, CopyHasEnd
<1>5. \A q \in Proc : Saving(q)' => q # p /\ Saving(q)
  BY <1>1, LabelSets DEF Saving
<1>6. FlashHasEnd'
  <2> SUFFICES ASSUME ~ flashTorn', ~ SaverNow' PROVE HasEnd(flash')
    BY DEF FlashHasEnd
  <2>1. ~ flashTorn /\ ~ Saving(p)
    OBVIOUS
  <2>2. ~ SaverNow
    <3> SUFFICES ASSUME NEW q \in Proc, Saving(q) PROVE FALSE
      BY DEF SaverNow
    <3>1. q # p
      BY <2>1
    <3>2. Saving(q)'
      BY <1>1, <3>1, LabelSets DEF Saving
    <3>3. QED
      BY <3>2 DEF SaverNow
  <2>3. QED
    BY <2>1, <2>2 DEF Ends, FlashHasEnd
<1>7. OneSaver'
  BY <1>5 DEF Ends, OneSaver
<1>8. SaveBegun'
  <2> SUFFICES ASSUME NEW q \in Proc, Saving(q)' PROVE FirstCopied(flash', buf'[q])
    BY DEF SaveBegun
  <2>1. q # p /\ Saving(q)
    BY <1>5
  <2>2. QED
    BY <1>1, <2>1 DEF Ends, SaveBegun
<1>9. FilesEnd'
  <2> SUFFICES ASSUME NEW f \in Inode, InUse(f)' PROVE EndComes(f)'
    BY DEF FilesEnd
  <2>1. CASE file'[p] = f /\ pc'[p] = "fill"
    BY <2>1, LabelSets DEF EndComes
  <2>2. CASE InUse(f) /\ files'[f] = files[f]
    <3>1. EndComes(f)
      BY <2>2 DEF Ends, FilesEnd
    <3>2. CASE HasEnd(files[f])
      BY <2>2, <3>2 DEF EndComes
    <3>3. ASSUME NEW q \in Proc, file[q] = f,
                 pc[q] \in Filling \/ (pc[q] = "tuples" /\ Below(files[f], ptr[q]))
          PROVE  EndComes(f)'
      <4>1. q # p
        BY <3>3, LabelSets
      <4>2. file'[q] = f /\ (pc'[q] \in Filling \/ (pc'[q] = "tuples" /\ Below(files'[f], ptr'[q])))
        BY <1>1, <2>2, <3>3, <4>1
      <4>3. QED
        BY <4>2 DEF EndComes
    <3>4. QED
      BY <3>1, <3>2, <3>3 DEF EndComes
  <2>3. QED
    BY <2>1, <2>2
<1>10. Cuts'
  <2>1. pc'[p] \notin Cutting
    BY LabelSets
  <2>2. \A q \in Proc : pc[q] \in Cutting => file[q] \in Inode
    BY LabelSets, HasFile
  <2>3. QED
    BY <2>1, <2>2, CutsStay DEF Ends
<1>11. QED
  BY <1>2, <1>3, <1>4, <1>6, <1>7, <1>8, <1>9, <1>10 DEF Ends

\* A step that opens nothing but the staging file brings no file into use.
LEMMA InUseStill ==
    ASSUME NEW p \in Proc, Moves(p), staging' = staging, file'[p] \in {NoFile, staging, file[p]},
           NEW f \in Inode, InUse(f)'
    PROVE  InUse(f)
<1>1. f # NoFile
  BY CellAssumption
<1>2. CASE f = staging'
  BY <1>2 DEF InUse
<1>3. ASSUME NEW q \in Proc, file'[q] = f PROVE InUse(f)
  <2>1. CASE q = p
    BY <1>1, <1>3, <2>1 DEF InUse
  <2>2. CASE q # p
    BY <1>3, <2>2 DEF InUse, Moves, Stays
  <2>3. QED
    BY <2>1, <2>2
<1>4. QED
  BY <1>2, <1>3 DEF InUse

\* A step that writes no image keeps Ends.
LEMMA EndsStill ==
    ASSUME Shape, Ends, NEW p \in Proc, Moves(p),
           flash' = flash, flashTorn' <=> (flashTorn \/ Saving(p)), files' = files, staging' = staging,
           file'[p] \in {NoFile, staging, file[p]},
           pc[p] \notin {"fill", "fill_rest", "tuples"},
           pc'[p] \notin {"fill_rest", "tuples", "save_rest", "cut", "recut"},
           pc'[p] \in CopyPc => HasEnd(buf'[p])
    PROVE  Ends'
<1>1. \A f \in Inode : InUse(f)' => InUse(f)
  BY InUseStill
<1>2. \A f \in Inode : InUse(f)' => InUse(f) /\ files'[f] = files[f]
  BY <1>1
<1>3. \A q \in Proc \ {p} : file[q] \in Inode => files'[file[q]] = files[file[q]]
  OBVIOUS
<1>4. QED
  BY <1>2, <1>3, EndsQuiet

\* A command that ends without having written changes nothing here.
LEMMA EndsExit ==
    ASSUME Shape, Ends, NEW p \in Proc, Moves(p), pc'[p] = "idle", file'[p] = NoFile,
           pc[p] \notin {"fill", "fill_rest", "tuples"},
           flash' = flash, flashTorn' <=> (flashTorn \/ Saving(p)), files' = files, staging' = staging
    PROVE  Ends'
<1>1. pc'[p] \notin {"fill_rest", "tuples", "save_rest", "cut", "recut"} /\ pc'[p] \notin CopyPc
  BY LabelSets
<1>2. QED
  BY <1>1, EndsStill

\* The commands that only read, and the writers before they copy.
LookPc == {"idle", "find", "find_rdonly", "open_staging_rdonly", "open_flash_rdonly", "read_rest", "got"}
LEMMA ReadSteps ==
    ASSUME Shape, NEW p \in Proc,
           Start(p) \/ FindForReading(p) \/ OpenReading(p) \/ ReadRest(p) \/ Close(p) \/ FindStaging(p)
    PROVE  /\ Moves(p) /\ pc[p] \in LookPc /\ pc'[p] \in LookPc \cup {"open", "read_flash", "save_read"}
           /\ file'[p] \in {NoFile, staging}
           /\ file'[p] = NoFile \/ pc'[p] = "read_rest"
           /\ flash' = flash /\ flashTorn' = flashTorn /\ files' = files /\ staging' = staging
<1>1. CASE Start(p)
  <2>1. cmd'[p] \in Command
    BY <1>1, StartIs
  <2>2. cmd'[p].write \in BOOLEAN
    BY <2>1, CommandFacts
  <2>3. pc'[p] = "find" \/ pc'[p] = "find_rdonly"
    BY <1>1, <2>2, StartIs
  <2>4. QED
    BY <1>1, <2>3, StartIs DEF LookPc
<1>2. CASE FindForReading(p)
  BY <1>2, FindForReadingIs DEF history, LookPc
<1>3. CASE OpenReading(p)
  <2>1. /\ Moves(p) /\ pc[p] \in {"open_staging_rdonly", "open_flash_rdonly"}
        /\ UNCHANGED <<flash, files, staging, flashTorn>>
    BY <1>3, OpenReadingIs
  <2>2. \/ pc'[p] = "idle" /\ file'[p] = NoFile
        \/ pc'[p] = "read_rest" /\ file'[p] \in {NoFile, staging}
    BY <1>3, OpenReadingIs
  <2>3. QED
    BY <2>1, <2>2 DEF LookPc
<1>4. CASE ReadRest(p)
  <2>1. /\ Moves(p) /\ pc[p] = "read_rest" /\ file'[p] = NoFile
        /\ UNCHANGED <<flash, files, staging, flashTorn>>
    BY <1>4, ReadRestIs
  <2>2. pc'[p] = "idle" \/ pc'[p] = "got"
    BY <1>4, ReadRestIs
  <2>3. QED
    BY <2>1, <2>2 DEF LookPc
<1>5. CASE Close(p)
  BY <1>5, CloseIs DEF LookPc
<1>6. CASE FindStaging(p)
  BY <1>6, FindStagingIs DEF history, LookPc
<1>7. QED
  BY <1>1, <1>2, <1>3, <1>4, <1>5, <1>6

\* So do the steps that only look.
LEMMA EndsReadSteps ==
    ASSUME Shape, Ends, NEW p \in Proc,
           Start(p) \/ FindForReading(p) \/ OpenReading(p) \/ ReadRest(p) \/ Close(p) \/ FindStaging(p)
    PROVE  Ends'
<1>1. /\ Moves(p) /\ pc[p] \in LookPc /\ pc'[p] \in LookPc \cup {"open", "read_flash", "save_read"}
      /\ file'[p] \in {NoFile, staging}
      /\ flash' = flash /\ flashTorn' = flashTorn /\ files' = files /\ staging' = staging
  BY ReadSteps
<1>2. pc[p] \notin {"fill", "fill_rest", "tuples"} /\ pc'[p] \notin {"fill_rest", "tuples", "save_rest", "cut", "recut"}
      /\ pc'[p] \notin CopyPc /\ ~ Saving(p)
  BY <1>1, LabelSets DEF LookPc
<1>3. QED
  BY <1>1, <1>2, EndsStill

\* A copy of a whole partition has an end.
LEMMA EndsReadFlash ==
    ASSUME Shape, Ends, NEW p \in Proc, ReadFlash(p), "end" \notin trouble'
    PROVE  Ends'
<1>1. /\ Moves(p) /\ pc[p] = "read_flash" /\ pc'[p] = "create" /\ buf'[p] = flash /\ file'[p] = NoFile
      /\ UNCHANGED <<flash, files, staging, flashTorn>> /\ ~ flashTorn /\ ~ \E q \in Proc : Saving(q)
  BY ReadFlashIs
<1>2. HasEnd(buf'[p]) /\ ~ Saving(p)
  BY <1>1, LabelSets DEF Ends, FlashHasEnd, SaverNow
<1>3. QED
  BY <1>1, <1>2, EndsStill

\* A new file's end is still to come from its copy.
LEMMA EndsCreate ==
    ASSUME Shape, Ends, NEW p \in Proc, CreateStaging(p)
    PROVE  Ends'
<1>1. /\ Moves(p) /\ pc[p] = "create" /\ pc'[p] = "fill" /\ buf'[p] = buf[p]
      /\ file'[p] \in Inode /\ staging' = file'[p]
      /\ staging # NoFile => file'[p] = staging /\ files' = files
      /\ staging = NoFile => file'[p] \in Free /\ \A f \in Inode \ {file'[p]} : files'[f] = files[f]
      /\ UNCHANGED <<flash, flashTorn>>
  BY CreateStagingIs
<1>2. HasEnd(buf'[p]) /\ ~ Saving(p)
  BY <1>1, LabelSets DEF Ends, CopyHasEnd
<1>3. \A q \in Proc \ {p} : file[q] \in Inode => files'[file[q]] = files[file[q]]
  BY <1>1 DEF Free
<1>4. ASSUME NEW f \in Inode, InUse(f)', f # file'[p] PROVE InUse(f) /\ files'[f] = files[f]
  BY <1>1, <1>4 DEF InUse, Moves, Stays
<1>5. QED
  BY <1>1, <1>2, <1>3, <1>4, EndsQuiet

\* Opening writes nothing.
LEMMA EndsOpenStaging ==
    ASSUME Shape, Ends, NEW p \in Proc, OpenStaging(p)
    PROVE  Ends'
<1>1. /\ Moves(p) /\ pc[p] = "open" /\ UNCHANGED <<flash, files, staging, flashTorn>>
      /\ \/ pc'[p] = "idle" /\ file'[p] = NoFile
         \/ pc'[p] = "parse" /\ file'[p] = staging
  BY OpenStagingIs
<1>2. pc'[p] \notin CopyPc /\ ~ Saving(p)
  BY <1>1, LabelSets
<1>3. QED
  BY <1>1, <1>2, EndsStill

\* Nor does the end of a parse.
LEMMA EndsParsed ==
    ASSUME Shape, Ends, NEW p \in Proc, EndParse(p) \/ EndReparse(p)
    PROVE  Ends'
<1>1. /\ Moves(p) /\ pc[p] \in {"parse", "reparse"} /\ UNCHANGED <<flash, files, staging, flashTorn>>
      /\ pc'[p] \in {"idle", "commit", "save_read"} /\ file'[p] \in {NoFile, file[p]}
  <2>1. CASE EndParse(p)
    BY <2>1, EndParseIs
  <2>2. CASE EndReparse(p)
    BY <2>2, EndReparseIs
  <2>3. QED
    BY <2>1, <2>2
<1>2. pc'[p] \notin CopyPc /\ ~ Saving(p)
  BY <1>1, LabelSets
<1>3. QED
  BY <1>1, <1>2, EndsStill

\* A parser covers a '=' or puts it back: what is a tuple and what is the end stays.
LEMMA EndsEq ==
    ASSUME Shape, Ends, NEW p \in Proc, Moves(p), NEW f \in Inode, f = file[p], OnlyFile(f),
           NEW i \in Position, i = ptr[p], NEW b \in BOOLEAN,
           IsTuple(files[f].cells[i]), files'[f] = WithEq(files[f], i, b),
           flash' = flash, flashTorn' = flashTorn, staging' = staging, file'[p] = f,
           pc[p] \in Parsing, pc'[p] \in Parsing,
           b => pc[p] \in Cutting /\ pc'[p] \notin Cutting,
           ~ b => Readable(files[f].cells[i]) /\ ptr'[p] = i
    PROVE  Ends'
<1>1. \A q \in Proc \ {p} : pc'[q] = pc[q] /\ file'[q] = file[q] /\ buf'[q] = buf[q] /\ ptr'[q] = ptr[q]
  BY DEF Moves, Stays
<1>2. \A q \in Proc : file'[q] = file[q]
  BY <1>1
<1>3. files[f] \in Image
  BY DEF Shape
<1> DEFINE old == files[f]
           new == files'[f]
<1>4. /\ IsTuple(new.cells[i]) /\ (Readable(new.cells[i]) <=> b)
      /\ \A j \in Position : j # i => new.cells[j] = old.cells[j]
      /\ \A j \in Position : new.cells[j] = Nul <=> old.cells[j] = Nul
  BY <1>3, WithEqIs
<1>5. \A j \in Position : IsTuple(new.cells[j]) <=> IsTuple(old.cells[j])
  BY <1>4
<1>6. f # NoFile
  BY CellAssumption
<1>7. ASSUME NEW g \in Inode
      PROVE  \A j \in Position : /\ IsTuple(files'[g].cells[j]) <=> IsTuple(files[g].cells[j])
                                 /\ files'[g].cells[j] = Nul <=> files[g].cells[j] = Nul
  <2>1. CASE g = f
    BY <1>4, <1>5, <2>1
  <2>2. CASE g # f
    BY <2>2 DEF OnlyFile
  <2>3. QED
    BY <2>1, <2>2
<1> HIDE DEF old, new
<1>8. \A q \in Proc : /\ pc'[q] \in CopyPc \cup {"tuples"} <=> pc[q] \in CopyPc \cup {"tuples"}
                      /\ pc[q] \in CopyPc \cup {"tuples"} => q # p /\ pc'[q] = pc[q]
  BY <1>1, LabelSets
<1>9. CopyAlone'
  BY <1>2, <1>8, LabelSets DEF Ends, CopyAlone
<1>10. CopyBegun'
  <2> SUFFICES ASSUME NEW q \in Proc, pc'[q] = "fill_rest" PROVE SameEnds(files'[file'[q]], buf'[q])
    BY DEF CopyBegun, SameEnds
  <2>1. pc[q] = "fill_rest" /\ q # p
    BY <1>8, LabelSets
  <2>2. file[q] \in Inode /\ file'[q] = file[q] /\ buf'[q] = buf[q]
    BY <1>1, <2>1, HasFile, LabelSets
  <2>3. SameEnds(files[file[q]], buf[q])
    BY <2>1 DEF Ends, CopyBegun
  <2>4. QED
    BY <1>7, <2>2, <2>3 DEF SameEnds
<1>11. CopyHasEnd'
  <2> SUFFICES ASSUME NEW q \in Proc, pc'[q] \in CopyPc PROVE HasEnd(buf'[q])
    BY DEF CopyHasEnd, HasEnd, EndAt, IsTuple
  <2>1. pc[q] \in CopyPc /\ q # p
    BY <1>8, LabelSets
  <2>2. QED
    BY <1>1, <2>1 DEF Ends, CopyHasEnd
<1>12. \A q \in Proc : Saving(q)' <=> Saving(q)
  <2> SUFFICES ASSUME NEW q \in Proc PROVE Saving(q)' <=> Saving(q)
    OBVIOUS
  <2>1. pc'[q] = "save_rest" <=> pc[q] = "save_rest"
    BY <1>8, LabelSets
  <2>2. QED
    BY <2>1 DEF Saving
<1>13. FlashHasEnd'
  BY <1>12 DEF Ends, FlashHasEnd, SaverNow
<1>14. OneSaver'
  BY <1>12 DEF Ends, OneSaver
<1>15. SaveBegun'
  <2> SUFFICES ASSUME NEW q \in Proc, Saving(q)' PROVE FirstCopied(flash', buf'[q])
    BY DEF SaveBegun
  <2>1. Saving(q) /\ q # p
    BY <1>8, <1>12, LabelSets
  <2>2. QED
    BY <1>1, <2>1 DEF Ends, SaveBegun
<1>16. FilesEnd'
  <2> SUFFICES ASSUME NEW g \in Inode, InUse(g)' PROVE EndComes(g)'
    BY DEF FilesEnd
  <2>1. InUse(g)
    BY <1>2 DEF InUse
  <2>2. EndComes(g)
    BY <2>1 DEF Ends, FilesEnd
  <2>3. CASE HasEnd(files[g])
    <3>1. HasEnd(files'[g])
      BY <1>7, <2>3, SameEndsEnd
    <3>2. QED
      BY <3>1 DEF EndComes
  <2>4. ASSUME NEW q \in Proc, file[q] = g,
               pc[q] \in Filling \/ (pc[q] = "tuples" /\ Below(files[g], ptr[q]))
        PROVE  EndComes(g)'
    <3>1. q # p /\ pc'[q] = pc[q] /\ file'[q] = g /\ ptr'[q] = ptr[q]
      BY <1>1, <1>8, <2>4, LabelSets
    <3>2. ASSUME Below(files[g], ptr[q]) PROVE Below(files'[g], ptr'[q])
      <4>1. \A j \in 1 .. ptr[q] - 1 : j \in Position
        BY Sizes DEF Shape
      <4>2. QED
        BY <1>7, <3>1, <3>2, <4>1 DEF Below
    <3>3. QED
      BY <2>4, <3>1, <3>2 DEF EndComes
  <2>5. QED
    BY <2>2, <2>3, <2>4 DEF EndComes
<1>17. Cuts'
  <2>0. \A q \in Proc : pc[q] \in Cutting => file[q] \in Inode /\ ptr[q] \in Position
    BY LabelSets, HasFile DEF Shape
  <2>1. ASSUME NEW q \in Proc \ {p}, pc[q] \in Cutting, file[q] = f PROVE ptr[q] # i
    <3>1. CASE b
      BY <2>1, <3>1 DEF Ends, Cuts
    <3>2. CASE ~ b
      <4>1. ~ Readable(files[f].cells[ptr[q]])
        BY <2>1 DEF Ends, Cuts, Parsed
      <4>2. QED
        BY <3>2, <4>1
    <3>3. QED
      BY <3>1, <3>2
  <2>2. \A q \in Proc \ {p} : pc[q] \in Cutting
           => files'[file[q]].cells[ptr[q]] = files[file[q]].cells[ptr[q]]
    <3> SUFFICES ASSUME NEW q \in Proc \ {p}, pc[q] \in Cutting
                 PROVE  files'[file[q]].cells[ptr[q]] = files[file[q]].cells[ptr[q]]
      OBVIOUS
    <3>1. CASE file[q] = f
      BY <1>4, <2>0, <2>1, <3>1 DEF old, new
    <3>2. CASE file[q] # f
      BY <2>0, <3>2 DEF OnlyFile
    <3>3. QED
      BY <3>1, <3>2
  <2>3. CASE pc'[p] \notin Cutting
    BY <2>2, <2>3, CutsStay DEF Ends
  <2>4. CASE pc'[p] \in Cutting
    <3>1. ~ b /\ ptr'[p] = i
      BY <2>4
    <3>2. /\ IsTuple(files'[f].cells[i]) /\ ~ Readable(files'[f].cells[i])
      BY <1>4, <3>1 DEF new
    <3> SUFFICES ASSUME NEW q \in Proc, pc'[q] \in Cutting
                 PROVE  /\ IsTuple(files'[file'[q]].cells[ptr'[q]]) /\ ~ Readable(files'[file'[q]].cells[ptr'[q]])
                        /\ \A r \in Proc \ {q} : pc'[r] \in Cutting /\ file'[r] = file'[q] => ptr'[r] # ptr'[q]
      BY DEF Cuts, Parsed, IsTuple, Readable
    <3>3. CASE q = p
      <4>1. ASSUME NEW r \in Proc \ {p}, pc'[r] \in Cutting, file'[r] = f PROVE ptr'[r] # i
        BY <1>1, <2>1, <4>1
      <4>2. QED
        BY <3>1, <3>2, <3>3, <4>1
    <3>4. CASE q # p
      <4>1. pc[q] \in Cutting /\ file'[q] = file[q] /\ ptr'[q] = ptr[q]
        BY <1>1, <3>4
      <4>2. /\ IsTuple(files[file[q]].cells[ptr[q]]) /\ ~ Readable(files[file[q]].cells[ptr[q]])
        BY <4>1 DEF Ends, Cuts, Parsed
      <4>3. ASSUME NEW r \in Proc \ {q}, pc'[r] \in Cutting, file'[r] = file[q] PROVE ptr'[r] # ptr[q]
        <5>1. CASE r = p
          BY <2>1, <3>1, <3>4, <4>1, <4>3, <5>1
        <5>2. CASE r # p
          <6>1. pc[r] \in Cutting /\ file[r] = file[q] /\ ptr'[r] = ptr[r]
            BY <1>1, <4>3, <5>2
          <6>2. QED
            BY <4>1, <6>1 DEF Ends, Cuts
        <5>3. QED
          BY <5>1, <5>2
      <4>4. QED
        BY <2>2, <3>4, <4>1, <4>2, <4>3
    <3>5. QED
      BY <3>3, <3>4
  <2>5. QED
    BY <2>3, <2>4
<1>18. QED
  BY <1>9, <1>10, <1>11, <1>13, <1>14, <1>15, <1>16, <1>17 DEF Ends

\* A '=' is covered.
LEMMA EndsCutEntry ==
    ASSUME Shape, Ends, NEW p \in Proc, CutEntry(p)
    PROVE  Ends'
<1>0. PICK f \in Inode, i \in Position : f = file[p] /\ i = ptr[p]
  BY CutEntryIs DEF Shape
<1>1. /\ Moves(p) /\ pc[p] \in {"parse", "reparse"} /\ file'[p] = f /\ ptr'[p] = i
      /\ files'[f] = WithEq(files[f], i, FALSE) /\ OnlyFile(f)
      /\ UNCHANGED <<flash, staging, flashTorn>>
  BY <1>0, CutEntryIs
<1>2. Readable(files[f].cells[i]) /\ IsTuple(files[f].cells[i])
  BY <1>0, CutEntryIs DEF Parsed
<1>3. pc'[p] = "cut" \/ pc'[p] = "recut"
  BY <1>1, CutEntryIs
<1>4. pc[p] \in Parsing /\ pc'[p] \in Parsing
  BY <1>1, <1>3, LabelSets
<1>5. QED
  BY <1>0, <1>1, <1>2, <1>4, EndsEq

\* A '=' goes back where it was.
LEMMA EndsRestore ==
    ASSUME Shape, Ends, NEW p \in Proc, Restore(p)
    PROVE  Ends'
<1>0. PICK f \in Inode, i \in Position : f = file[p] /\ i = ptr[p]
  BY RestoreIs DEF Shape
<1>1. Moves(p) /\ pc[p] \in Cutting /\ file'[p] = f /\ OnlyFile(f) /\ UNCHANGED <<flash, staging, flashTorn>>
  BY <1>0, RestoreIs
<1>2. IsTuple(files[f].cells[i]) /\ ~ Readable(files[f].cells[i])
  BY <1>0, <1>1 DEF Ends, Cuts, Parsed
<1>3. files'[f] = WithEq(files[f], i, TRUE)
  BY <1>0, <1>2, RestoreIs DEF Parsed
<1>4. pc'[p] = "parse" \/ pc'[p] = "reparse"
  BY <1>1, LabelSets, RestoreIs
<1>5. pc[p] \in Parsing /\ pc'[p] \in Parsing /\ pc'[p] \notin Cutting
  BY <1>1, <1>4, LabelSets
<1>6. QED
  BY <1>0, <1>1, <1>2, <1>3, <1>5, EndsEq

\* Nobody is in the file, so what goes to the partition has an end.
LEMMA EndsReadStaging ==
    ASSUME Shape, Ends, NEW p \in Proc, ReadStaging(p), "end" \notin trouble'
    PROVE  Ends'
<1>1. /\ Moves(p) /\ pc[p] = "save_read" /\ file'[p] = NoFile /\ UNCHANGED <<flash, files, staging, flashTorn>>
      /\ \/ pc'[p] = "idle"
         \/ staging \in Inode /\ pc'[p] = "save" /\ buf'[p] = files[staging] /\ ~ SomeoneIn(staging, p)
  BY ReadStagingIs
<1>2. ~ Saving(p)
  BY <1>1, LabelSets
<1>3. CASE pc'[p] = "idle"
  BY <1>1, <1>2, <1>3, EndsExit
<1>4. CASE staging \in Inode /\ pc'[p] = "save" /\ buf'[p] = files[staging] /\ ~ SomeoneIn(staging, p)
  <2>1. EndComes(staging)
    BY <1>4 DEF Ends, FilesEnd, InUse
  <2>2. ASSUME NEW q \in Proc, file[q] = staging,
               pc[q] \in Filling \/ (pc[q] = "tuples" /\ Below(files[staging], ptr[q]))
        PROVE  FALSE
    BY <1>1, <1>4, <2>2, LabelSets DEF SomeoneIn, InWindow
  <2>3. HasEnd(files[staging])
    BY <2>1, <2>2 DEF EndComes
  <2>4. HasEnd(buf'[p])
    BY <1>4, <2>3
  <2>5. QED
    BY <1>1, <1>2, <1>4, <2>4, EndsStill
<1>5. QED
  BY <1>1, <1>3, <1>4

\* Files still in use keep their contents.
LEMMA EndsUnlink ==
    ASSUME Shape, Ends, NEW p \in Proc, Unlink(p)
    PROVE  Ends'
<1>1. /\ Moves(p) /\ pc[p] = "unlink" /\ pc'[p] = "idle" /\ file'[p] = NoFile
      /\ staging' = NoFile /\ UNCHANGED <<flash, flashTorn>>
      /\ \A f \in Inode : f # staging \/ (\E q \in Proc : file[q] = f) => files'[f] = files[f]
  BY UnlinkIs
<1>2. pc'[p] \notin CopyPc /\ ~ Saving(p)
  BY <1>1, LabelSets
<1>3. ASSUME NEW f \in Inode, InUse(f)' PROVE InUse(f) /\ files'[f] = files[f]
  <2>1. f # NoFile
    BY CellAssumption
  <2>2. PICK q \in Proc : file'[q] = f
    BY <1>1, <1>3, <2>1 DEF InUse
  <2>3. q # p
    BY <1>1, <2>1, <2>2
  <2>4. file[q] = f
    BY <1>1, <2>2, <2>3 DEF Moves, Stays
  <2>5. QED
    BY <1>1, <2>4 DEF InUse
<1>4. \A q \in Proc \ {p} : file[q] \in Inode => files'[file[q]] = files[file[q]]
  BY <1>1
<1>5. QED
  BY <1>1, <1>2, <1>3, <1>4, EndsQuiet

\* Nobody who owed an end is killed, unless one is lost.
LEMMA EndsKill ==
    ASSUME Shape, Ends, NEW p \in Proc, Kill(p), "end" \notin trouble'
    PROVE  Ends'
<1>1. /\ Moves(p) /\ pc'[p] = "idle" /\ file'[p] = NoFile /\ UNCHANGED <<flash, files, staging>>
      /\ flashTorn' = (flashTorn \/ Saving(p))
      /\ pc[p] # "tuples" /\ pc[p] # "fill" /\ pc[p] # "fill_rest"
  BY KillIs
<1>2. QED
  BY <1>1, EndsExit

\* The partition was whole, or its end is lost.
LEMMA EndsPowerLoss ==
    ASSUME Shape, Ends, PowerLoss
    PROVE  Ends'
<1>1. /\ \A p \in Proc : pc'[p] = "idle" /\ file'[p] = NoFile
      /\ staging' = NoFile /\ flash' = flash
      /\ flashTorn' = (flashTorn \/ \E p \in Proc : Saving(p))
  BY PowerLossIs
<1>2. \A f \in Inode : ~ InUse(f)'
  BY <1>1, CellAssumption DEF InUse
<1>3. FlashHasEnd'
  BY <1>1 DEF Ends, FlashHasEnd, SaverNow
<1>4. \A p \in Proc : ~ Saving(p)' /\ pc'[p] \notin CopyPc
  BY <1>1, LabelSets DEF Saving
<1>5. QED
  BY <1>1, <1>2, <1>3, <1>4, LabelSets DEF Ends, CopyAlone, CopyBegun, CopyHasEnd, OneSaver, SaveBegun, FilesEnd, Cuts

\* A step that writes one file, which nobody else is copying to.
LEMMA EndsFile ==
    ASSUME Shape, Ends, NEW p \in Proc, Moves(p), NEW f \in Inode, f = file[p], OnlyFile(f),
           flash' = flash, flashTorn' = flashTorn, staging' = staging,
           file'[p] \in {f, NoFile}, pc[p] # "save_rest", pc'[p] # "save_rest",
           pc'[p] \in CopyPc => HasEnd(buf'[p]),
           pc'[p] = "fill_rest" => file'[p] = f /\ SameEnds(files'[f], buf'[p]),
           pc'[p] \notin Cutting,
           \A q \in Proc \ {p} : file[q] = f /\ pc[q] \in Cutting
                                  => files'[f].cells[ptr[q]] = files[f].cells[ptr[q]],
           \A q \in Proc \ {p} : file[q] = f => /\ pc[q] # "fill_rest"
                                                /\ pc'[p] = "fill_rest" => pc[q] # "tuples",
           EndComes(f)'
    PROVE  Ends'
<1>1. \A q \in Proc \ {p} : pc'[q] = pc[q] /\ file'[q] = file[q] /\ buf'[q] = buf[q] /\ ptr'[q] = ptr[q]
  BY DEF Moves, Stays
<1>2. f # NoFile /\ \A q \in Proc : pc[q] \in FilePc => file[q] # NoFile
  BY CellAssumption DEF Shape, HandleOK
<1>3. \A q \in Proc : file'[q] # NoFile => file'[q] = file[q]
  BY <1>1
<1>4. CopyAlone'
  <2> SUFFICES ASSUME NEW q \in Proc, NEW r \in Proc, q # r, file'[q] = file'[r], pc'[q] = "fill_rest"
               PROVE  pc'[r] # "fill_rest" /\ pc'[r] # "tuples"
    BY DEF CopyAlone
  <2>1. CASE q = p
    <3>1. file[r] = f /\ r # p
      BY <1>1, <2>1
    <3>2. QED
      BY <1>1, <2>1, <3>1
  <2>2. CASE q # p
    <3>1. pc[q] = "fill_rest" /\ file[q] # NoFile /\ file'[q] = file[q]
      BY <1>1, <1>2, <2>2, LabelSets
    <3>2. file[r] = file[q]
      BY <1>3, <3>1
    <3>3. file[q] # f
      BY <2>2, <3>1
    <3>4. r # p
      BY <3>2, <3>3
    <3>5. QED
      BY <1>1, <3>1, <3>2, <3>4 DEF Ends, CopyAlone
  <2>3. QED
    BY <2>1, <2>2
<1>5. CopyBegun'
  <2> SUFFICES ASSUME NEW q \in Proc, pc'[q] = "fill_rest" PROVE SameEnds(files'[file'[q]], buf'[q])
    BY DEF CopyBegun, SameEnds
  <2>1. CASE q = p
    BY <2>1
  <2>2. CASE q # p
    <3>1. pc[q] = "fill_rest" /\ file'[q] = file[q] /\ buf'[q] = buf[q] /\ file[q] # f
      BY <1>1, <2>2
    <3>2. file[q] \in Inode
      BY <3>1, HasFile, LabelSets
    <3>3. files'[file[q]] = files[file[q]]
      BY <3>1, <3>2 DEF OnlyFile
    <3>4. SameEnds(files[file[q]], buf[q])
      BY <3>1 DEF Ends, CopyBegun
    <3>5. QED
      BY <3>1, <3>3, <3>4
  <2>3. QED
    BY <2>1, <2>2
<1>6. CopyHasEnd'
  BY <1>1 DEF Ends, CopyHasEnd
<1>7. \A q \in Proc : Saving(q)' <=> Saving(q)
  <2> SUFFICES ASSUME NEW q \in Proc PROVE Saving(q)' <=> Saving(q)
    OBVIOUS
  <2>1. pc'[q] = "save_rest" <=> pc[q] = "save_rest"
    BY <1>1
  <2>2. QED
    BY <2>1 DEF Saving
<1>8. FlashHasEnd'
  BY <1>7 DEF Ends, FlashHasEnd, SaverNow
<1>9. OneSaver'
  BY <1>7 DEF Ends, OneSaver
<1>10. SaveBegun'
  <2> SUFFICES ASSUME NEW q \in Proc, Saving(q)' PROVE FirstCopied(flash', buf'[q])
    BY DEF SaveBegun
  <2>1. Saving(q) /\ q # p
    BY <1>7, LabelSets
  <2>2. QED
    BY <1>1, <2>1 DEF Ends, SaveBegun
<1>11. FilesEnd'
  <2> SUFFICES ASSUME NEW g \in Inode, InUse(g)', g # f PROVE EndComes(g)'
    BY DEF FilesEnd
  <2>1. files'[g] = files[g]
    BY DEF OnlyFile
  <2>2. g # NoFile
    BY CellAssumption
  <2>3. InUse(g)
    <3>1. CASE g = staging'
      BY <3>1 DEF InUse
    <3>2. ASSUME NEW q \in Proc, file'[q] = g PROVE InUse(g)
      BY <1>3, <2>2, <3>2 DEF InUse
    <3>3. QED
      BY <3>1, <3>2 DEF InUse
  <2>4. EndComes(g)
    BY <2>3 DEF Ends, FilesEnd
  <2>5. ASSUME NEW q \in Proc, file[q] = g,
               pc[q] \in Filling \/ (pc[q] = "tuples" /\ Below(files[g], ptr[q]))
        PROVE  EndComes(g)'
    <3>1. q # p
      BY <2>5
    <3>2. file'[q] = g /\ (pc'[q] \in Filling \/ (pc'[q] = "tuples" /\ Below(files'[g], ptr'[q])))
      BY <1>1, <2>1, <2>5, <3>1
    <3>3. QED
      BY <3>2 DEF EndComes
  <2>6. QED
    BY <2>1, <2>4, <2>5 DEF EndComes
<1>12. Cuts'
  <2>1. ASSUME NEW q \in Proc \ {p}, pc[q] \in Cutting
        PROVE  files'[file[q]].cells[ptr[q]] = files[file[q]].cells[ptr[q]]
    <3>1. CASE file[q] = f
      BY <2>1, <3>1
    <3>2. CASE file[q] # f
      BY <2>1, <3>2, LabelSets, HasFile DEF OnlyFile
    <3>3. QED
      BY <3>1, <3>2
  <2>2. QED
    BY <2>1, CutsStay DEF Ends
<1>13. QED
  BY <1>4, <1>5, <1>6, <1>8, <1>9, <1>10, <1>11, <1>12 DEF Ends

\* Cells before the first that is written stay as they are.
LEMMA NotOverCut ==
    ASSUME Shape, NEW p \in Proc, NEW i \in Position, ~ OverCut(p, i), NEW f \in Inode, f = file[p],
           \A j \in Position : j < i => files'[f].cells[j] = files[f].cells[j]
    PROVE  \A q \in Proc \ {p} : file[q] = f /\ pc[q] \in Cutting
                                  => files'[f].cells[ptr[q]] = files[f].cells[ptr[q]]
<1> SUFFICES ASSUME NEW q \in Proc \ {p}, file[q] = f, pc[q] \in Cutting
             PROVE  files'[f].cells[ptr[q]] = files[f].cells[ptr[q]]
  OBVIOUS
<1>1. ~ (ptr[q] >= i)
  BY DEF OverCut
<1>2. ptr[q] \in Position
  BY DEF Shape
<1>3. ptr[q] < i
  BY <1>1, <1>2, Sizes
<1>4. QED
  BY <1>2, <1>3

\* No '=' is covered where the whole file is written.
LEMMA NothingBefore ==
    ASSUME Shape, NEW p \in Proc, ~ OverCut(p, 1), NEW f \in Inode, f = file[p]
    PROVE  \A q \in Proc \ {p} : file[q] = f /\ pc[q] \in Cutting
                                  => files'[f].cells[ptr[q]] = files[f].cells[ptr[q]]
<1>1. 1 \in Position /\ \A j \in Position : ~ (j < 1)
  BY Sizes
<1>2. QED
  BY <1>1, NotOverCut

\* The first part of a copy leaves the end to the second.
LEMMA EndsFill ==
    ASSUME Shape, Ends, NEW p \in Proc, Fill(p), "end" \notin trouble'
    PROVE  Ends'
<1>0. PICK f \in Inode : f = file[p]
  BY FillIs
<1>1. /\ Moves(p) /\ pc[p] = "fill" /\ f \in Inode /\ buf[p] \in Image
      /\ pc'[p] = "fill_rest" /\ file'[p] = f /\ buf'[p] = buf[p]
      /\ files'[f] = FirstPart(files[f], buf[p]) /\ OnlyFile(f)
      /\ UNCHANGED <<flash, staging, flashTorn>> /\ ~ CopyMixed(p) /\ ~ OverCut(p, 1)
  BY <1>0, FillIs
<1>2. \A q \in Proc \ {p} : file[q] = f => pc[q] # "fill_rest" /\ pc[q] # "tuples"
  BY <1>0, <1>1, LabelSets DEF CopyMixed
<1>3. SameEnds(files'[f], buf'[p])
  BY <1>1, FirstPartIs DEF SameEnds, Shape
<1>4. HasEnd(buf'[p])
  BY <1>1, LabelSets DEF Ends, CopyHasEnd
<1>5. EndComes(f)'
  BY <1>1, LabelSets DEF EndComes
<1>6. \A q \in Proc \ {p} : file[q] = f /\ pc[q] \in Cutting
                             => files'[f].cells[ptr[q]] = files[f].cells[ptr[q]]
  BY <1>0, <1>1, NothingBefore
<1>7. pc'[p] \notin Cutting
  BY <1>1, LabelSets
<1>8. QED
  BY <1>0, <1>1, <1>2, <1>3, <1>4, <1>5, <1>6, <1>7, EndsFile

\* The second part completes it.
LEMMA EndsFillRest ==
    ASSUME Shape, Ends, NEW p \in Proc, FillRest(p), "end" \notin trouble'
    PROVE  Ends'
<1>0. PICK f \in Inode : f = file[p]
  BY FillRestIs
<1>1. /\ Moves(p) /\ pc[p] = "fill_rest" /\ f \in Inode /\ buf[p] \in Image
      /\ pc'[p] = "open" /\ file'[p] = NoFile
      /\ files'[f] = RestPart(files[f], buf[p]) /\ OnlyFile(f)
      /\ UNCHANGED <<flash, staging, flashTorn>> /\ ~ OverCut(p, 1)
  BY <1>0, FillRestIs
<1>2. \A q \in Proc \ {p} : file[q] = f => pc[q] # "fill_rest" /\ pc[q] # "tuples"
  BY <1>0, <1>1 DEF Ends, CopyAlone
<1>3. SameEnds(files[f], buf[p]) /\ HasEnd(buf[p])
  BY <1>0, <1>1, LabelSets DEF Ends, CopyBegun, CopyHasEnd
<1>4. HasEnd(files'[f])
  <2>1. files[f] \in Image
    BY <1>1 DEF Shape
  <2>2. \A i \in Position : /\ IsTuple(files'[f].cells[i]) <=> IsTuple(buf[p].cells[i])
                            /\ files'[f].cells[i] = Nul <=> buf[p].cells[i] = Nul
    BY <1>1, <1>3, <2>1, RestPartIs DEF SameEnds
  <2>3. QED
    BY <1>3, <2>2, SameEndsEnd
<1>5. EndComes(f)' /\ pc'[p] \notin CopyPc /\ pc'[p] \notin Cutting
  BY <1>1, <1>4, LabelSets DEF EndComes
<1>6. \A q \in Proc \ {p} : file[q] = f /\ pc[q] \in Cutting
                             => files'[f].cells[ptr[q]] = files[f].cells[ptr[q]]
  BY <1>0, <1>1, NothingBefore
<1>7. QED
  BY <1>0, <1>1, <1>2, <1>5, <1>6, EndsFile

\* Who clears a list has yet to write all of it.
LEMMA EndsClear ==
    ASSUME Shape, Ends, NEW p \in Proc, Clear(p), "end" \notin trouble'
    PROVE  Ends'
<1>0. PICK f \in Inode : f = file[p]
  BY ClearIs
<1>1. /\ Moves(p) /\ pc[p] = "commit" /\ f \in Inode /\ OnlyFile(f) /\ UNCHANGED <<flash, staging, flashTorn>>
      /\ pc'[p] = "tuples" /\ file'[p] = f /\ ptr'[p] = 1 /\ ~ CopyMixed(p) /\ ~ OverCut(p, 1)
  BY <1>0, ClearIs
<1>2. \A q \in Proc \ {p} : file[q] = f => pc[q] # "fill_rest"
  BY <1>0, <1>1 DEF CopyMixed
<1>3. Below(files'[f], 1)
  BY DEF Below
<1>4. EndComes(f)' /\ pc'[p] \notin CopyPc /\ pc'[p] \notin Cutting
  BY <1>1, <1>3, LabelSets DEF EndComes
<1>5. \A q \in Proc \ {p} : file[q] = f /\ pc[q] \in Cutting
                             => files'[f].cells[ptr[q]] = files[f].cells[ptr[q]]
  BY <1>0, <1>1, NothingBefore
<1>6. QED
  BY <1>0, <1>1, <1>2, <1>4, <1>5, EndsFile

\* A tuple goes before the end its process will write, or behind one that is there.
LEMMA EndsWriteTuple ==
    ASSUME Shape, Ends, NEW p \in Proc, WriteTuple(p), "end" \notin trouble'
    PROVE  Ends'
<1>0. PICK f \in Inode : f = file[p]
  BY WriteTupleIs
<1>4. PICK i, n : i = ptr[p] /\ n = Head(todo[p])
  OBVIOUS
<1>1. /\ Moves(p) /\ pc[p] = "tuples" /\ pc'[p] = "tuples" /\ f \in Inode /\ file'[p] = f
      /\ n \in Name /\ tuples[p][n] \in Value /\ OnlyFile(f)
      /\ \/ /\ i <= Room /\ ptr'[p] = i + 1 /\ files'[f] = WithTuple(files[f], i, n, tuples[p][n])
            /\ ~ OverCut(p, i)
         \/ ptr'[p] = i /\ files' = files
      /\ UNCHANGED <<flash, staging, flashTorn>>
  BY <1>0, <1>4, WriteTupleIs
<1>2. \A q \in Proc \ {p} : file[q] = f => pc[q] # "fill_rest"
  BY <1>0, <1>1 DEF Ends, CopyAlone
<1>3. EndComes(f) /\ i \in Position /\ files[f] \in Image
  BY <1>0, <1>1, <1>4 DEF Ends, FilesEnd, InUse, Shape
<1>5. CASE /\ i <= Room /\ ptr'[p] = i + 1 /\ files'[f] = WithTuple(files[f], i, n, tuples[p][n])
           /\ ~ OverCut(p, i)
  <2> DEFINE old == files[f]
             new == files'[f]
  <2>1. IsTuple(new.cells[i]) /\ \A j \in Position : j # i => new.cells[j] = old.cells[j]
    BY <1>1, <1>3, <1>5, WithTupleIs
  <2>2. \A e \in Position : Below(old, e) => Below(new, e)
    <3> SUFFICES ASSUME NEW e \in Position, Below(old, e), NEW j \in 1 .. e - 1 PROVE IsTuple(new.cells[j])
      BY DEF Below
    <3>1. j \in Position
      BY Sizes
    <3>2. QED
      BY <2>1, <3>1 DEF Below
  <2> HIDE DEF old, new
  <2>3. HasEnd(old) \/ \E q \in Proc : /\ file[q] = f
                                       /\ pc[q] \in Filling \/ (pc[q] = "tuples" /\ Below(old, ptr[q]))
    BY <1>3 DEF EndComes, old
  <2>4. ASSUME Below(new, i) PROVE EndComes(f)'
    <3>1. Below(new, i + 1)
      <4> SUFFICES ASSUME NEW j \in 1 .. (i + 1) - 1 PROVE IsTuple(new.cells[j])
        BY DEF Below
      <4>1. j = i \/ j \in 1 .. i - 1
        BY <1>3, Sizes
      <4>2. QED
        BY <2>1, <2>4, <4>1 DEF Below
    <3>2. QED
      BY <1>1, <1>5, <3>1 DEF EndComes, new
  <2>5. ASSUME HasEnd(old) PROVE EndComes(f)'
    <3>1. PICK e \in Position : EndAt(old, e)
      BY <2>5 DEF HasEnd
    <3>2. Below(old, e) /\ old.cells[e] = Nul
      BY <3>1 DEF EndAt, Below
    <3>3. CASE e # i
      <4>1. Below(new, e) /\ new.cells[e] = Nul
        BY <2>1, <2>2, <3>2, <3>3
      <4>2. HasEnd(new)
        BY <4>1 DEF HasEnd, EndAt, Below
      <4>3. QED
        BY <4>2 DEF EndComes, new
    <3>4. CASE e = i
      <4>1. Below(new, i)
        BY <2>2, <3>2, <3>4
      <4>2. QED
        BY <2>4, <4>1
    <3>5. QED
      BY <3>3, <3>4
  <2>6. ASSUME NEW q \in Proc, file[q] = f,
               pc[q] \in Filling \/ (pc[q] = "tuples" /\ Below(old, ptr[q]))
        PROVE  EndComes(f)'
    <3>1. CASE q = p
      <4>1. Below(old, i)
        BY <1>1, <1>4, <2>6, <3>1, LabelSets
      <4>2. Below(new, i)
        BY <1>3, <2>2, <4>1
      <4>3. QED
        BY <2>4, <4>2
    <3>2. CASE q # p
      <4>1. pc'[q] = pc[q] /\ file'[q] = file[q] /\ ptr'[q] = ptr[q] /\ ptr[q] \in Position
        BY <1>1, <3>2 DEF Moves, Stays, Shape
      <4>2. Below(old, ptr[q]) => Below(new, ptr[q])
        BY <2>2, <4>1
      <4>3. QED
        BY <2>6, <4>1, <4>2 DEF EndComes, new
    <3>3. QED
      BY <3>1, <3>2
  <2>7. EndComes(f)'
    BY <2>3, <2>5, <2>6
  <2>8. \A q \in Proc \ {p} : file[q] = f /\ pc[q] \in Cutting
                               => files'[f].cells[ptr[q]] = files[f].cells[ptr[q]]
    <3>1. \A j \in Position : j < i => files'[f].cells[j] = files[f].cells[j]
      <4>1. \A j \in Position : j < i => j # i
        BY <1>3, Sizes
      <4>2. QED
        BY <2>1, <4>1 DEF old, new
    <3>2. QED
      BY <1>0, <1>3, <1>5, <3>1, NotOverCut
  <2>9. QED
    BY <1>0, <1>1, <1>2, <2>7, <2>8, EndsFile, LabelSets
<1>6. CASE ptr'[p] = i /\ files' = files
  <2>1. EndComes(f)'
    <3>1. \A q \in Proc : pc'[q] = pc[q] /\ file'[q] = file[q] /\ ptr'[q] = ptr[q]
      BY <1>0, <1>1, <1>4, <1>6 DEF Moves, Stays
    <3>2. QED
      BY <1>3, <1>6, <3>1 DEF EndComes
  <2>2. pc'[p] \notin CopyPc /\ pc'[p] \notin Cutting
    BY <1>1, LabelSets
  <2>3. \A q \in Proc \ {p} : file[q] = f /\ pc[q] \in Cutting
                               => files'[f].cells[ptr[q]] = files[f].cells[ptr[q]]
    BY <1>6
  <2>4. QED
    BY <1>0, <1>1, <1>2, <2>1, <2>2, <2>3, EndsFile
<1>7. QED
  BY <1>1, <1>5, <1>6

\* The end is there, unless another process has more tuples to write, and an end to follow.
LEMMA EndsEndList ==
    ASSUME Shape, Ends, NEW p \in Proc, EndList(p), "end" \notin trouble'
    PROVE  Ends'
<1>0. PICK f \in Inode : f = file[p]
  BY EndListIs
<1>1. PICK i : i = ptr[p]
  OBVIOUS
<1>2. /\ Moves(p) /\ pc[p] = "tuples" /\ file'[p] = f /\ files'[f] = Ended(files[f], i) /\ OnlyFile(f)
      /\ pc'[p] = "reparse" /\ ~ OverCut(p, i)
      /\ UNCHANGED <<flash, staging, flashTorn>>
  BY <1>0, <1>1, EndListIs
<1>3. \A q \in Proc \ {p} : file[q] = f => pc[q] # "fill_rest"
  BY <1>0, <1>2 DEF Ends, CopyAlone
<1>4. EndComes(f) /\ i \in Position /\ files[f] \in Image
  BY <1>0, <1>1, <1>2 DEF Ends, FilesEnd, InUse, Shape
<1> DEFINE old == files[f]
           new == files'[f]
<1>5. new.cells[i] = Nul /\ \A j \in Position : j # i => new.cells[j] = old.cells[j]
  BY <1>2, <1>4, EndedIs
<1>6. \A e \in Position : e <= i /\ Below(old, e) => Below(new, e)
  <2> SUFFICES ASSUME NEW e \in Position, e <= i, Below(old, e), NEW j \in 1 .. e - 1 PROVE IsTuple(new.cells[j])
    BY DEF Below
  <2>1. j \in Position /\ j # i
    BY <1>4, Sizes
  <2>2. QED
    BY <1>5, <2>1 DEF Below
<1>7. HasEnd(old) \/ \E q \in Proc : /\ file[q] = f
                                     /\ pc[q] \in Filling \/ (pc[q] = "tuples" /\ Below(old, ptr[q]))
  BY <1>4 DEF EndComes
<1> HIDE DEF old, new
<1>8. ASSUME Below(old, i) PROVE EndComes(f)'
  <2>1. i <= i
    BY <1>4, Sizes
  <2>2. EndAt(new, i)
    BY <1>4, <1>5, <1>6, <1>8, <2>1 DEF EndAt, Below
  <2>3. HasEnd(new)
    BY <1>4, <2>2 DEF HasEnd
  <2>4. QED
    BY <2>3 DEF EndComes, new
\* the cells below e are tuples: either the new end is among them, or they stay
<1>9. ASSUME NEW e \in Position, Below(old, e) PROVE Below(old, i) \/ (e < i /\ Below(new, e))
  <2>1. CASE i <= e
    <3>1. \A j \in 1 .. i - 1 : j \in 1 .. e - 1
      BY <1>4, <2>1, Sizes
    <3>2. QED
      BY <1>9, <3>1 DEF Below
  <2>2. CASE e < i
    <3>1. e <= i
      BY <1>4, <2>2, Sizes
    <3>2. QED
      BY <1>6, <1>9, <2>2, <3>1
  <2>3. QED
    BY <1>4, <2>1, <2>2, Sizes
<1>10. ASSUME HasEnd(old) PROVE EndComes(f)'
  <2>1. PICK e \in Position : EndAt(old, e)
    BY <1>10 DEF HasEnd
  <2>2. Below(old, e) /\ old.cells[e] = Nul
    BY <2>1 DEF EndAt, Below
  <2>3. CASE e < i /\ Below(new, e)
    <3>1. e # i
      BY <1>4, <2>3, Sizes
    <3>2. EndAt(new, e)
      BY <1>5, <2>2, <2>3, <3>1 DEF EndAt, Below
    <3>3. HasEnd(new)
      BY <3>2 DEF HasEnd
    <3>4. EndComes(f)'
      BY <3>3 DEF EndComes, new
    <3>5. QED
      BY <3>4
  <2>4. QED
    BY <1>8, <1>9, <2>2, <2>3
<1>11. ASSUME NEW q \in Proc, file[q] = f,
              pc[q] \in Filling \/ (pc[q] = "tuples" /\ Below(old, ptr[q]))
       PROVE  EndComes(f)'
  <2>1. ASSUME q # p PROVE pc'[q] = pc[q] /\ file'[q] = file[q] /\ ptr'[q] = ptr[q]
    BY <1>2, <2>1 DEF Moves, Stays
  <2>2. CASE pc[q] \in Filling
    <3>1. q # p
      BY <1>2, <2>2, LabelSets
    <3>2. QED
      BY <1>11, <2>1, <2>2, <3>1 DEF EndComes
  <2>3. CASE pc[q] = "tuples" /\ Below(old, ptr[q])
    <3>1. Below(old, i) \/ (ptr[q] < i /\ Below(new, ptr[q]))
      BY <1>9, <2>3 DEF Shape
    <3>2. CASE ptr[q] < i /\ Below(new, ptr[q])
      <4>1. q # p
        BY <1>1, <1>4, <3>2, Sizes
      <4>2. QED
        BY <1>11, <2>1, <2>3, <3>2, <4>1 DEF EndComes, new
    <3>3. QED
      BY <1>8, <3>1, <3>2
  <2>4. QED
    BY <1>11, <2>2, <2>3
<1>12. EndComes(f)'
  BY <1>7, <1>10, <1>11
<1>13. pc'[p] \notin CopyPc /\ pc'[p] \notin Cutting
  BY <1>2, LabelSets
<1>14. \A q \in Proc \ {p} : file[q] = f /\ pc[q] \in Cutting
                              => files'[f].cells[ptr[q]] = files[f].cells[ptr[q]]
  <2>1. \A j \in Position : j < i => files'[f].cells[j] = files[f].cells[j]
    <3>1. \A j \in Position : j < i => j # i
      BY <1>4, Sizes
    <3>2. QED
      BY <1>5, <3>1 DEF old, new
  <2>2. QED
    BY <1>0, <1>2, <1>4, <2>1, NotOverCut
<1>15. QED
  BY <1>0, <1>2, <1>3, <1>12, <1>13, <1>14, EndsFile

\* A write of the partition leaves the files alone.
LEMMA EndsFlash ==
    ASSUME Shape, Ends, NEW p \in Proc, Moves(p), file'[p] = NoFile, file[p] = NoFile,
           files' = files, staging' = staging,
           pc[p] \notin FilePc, pc'[p] \notin FilePc,
           pc'[p] \in CopyPc => HasEnd(buf'[p]),
           \A q \in Proc \ {p} : ~ Saving(q),
           pc'[p] = "save_rest" => FirstCopied(flash', buf'[p]),
           ~ flashTorn' /\ pc'[p] # "save_rest" => HasEnd(flash')
    PROVE  Ends'
<1>1. \A q \in Proc \ {p} : pc'[q] = pc[q] /\ file'[q] = file[q] /\ buf'[q] = buf[q] /\ ptr'[q] = ptr[q]
  BY DEF Moves, Stays
<1>2. \A q \in Proc \ {p} : ~ Saving(q)'
  BY <1>1 DEF Saving
<1>3. \A q \in Proc : file'[q] = file[q]
  BY <1>1
<1>4. CopyAlone' /\ CopyBegun' /\ CopyHasEnd'
  BY <1>1, LabelSets DEF Ends, CopyAlone, CopyBegun, CopyHasEnd, SameEnds
<1>5. FlashHasEnd' /\ OneSaver' /\ SaveBegun'
  <2>1. \A q \in Proc : Saving(q)' => q = p /\ pc'[p] = "save_rest"
    BY <1>2 DEF Saving
  <2>2. pc'[p] = "save_rest" => SaverNow'
    BY DEF SaverNow, Saving
  <2>3. QED
    BY <2>1, <2>2 DEF FlashHasEnd, OneSaver, SaveBegun
<1>6. FilesEnd'
  <2> SUFFICES ASSUME NEW f \in Inode, InUse(f)' PROVE EndComes(f)'
    BY DEF FilesEnd
  <2>1. EndComes(f)
    BY <1>3 DEF Ends, FilesEnd, InUse
  <2>2. ASSUME NEW q \in Proc, file[q] = f,
               pc[q] \in Filling \/ (pc[q] = "tuples" /\ Below(files[f], ptr[q]))
        PROVE  EndComes(f)'
    <3>1. q # p
      BY <2>2, LabelSets
    <3>2. file'[q] = f /\ (pc'[q] \in Filling \/ (pc'[q] = "tuples" /\ Below(files'[f], ptr'[q])))
      BY <1>1, <2>2, <3>1
    <3>3. QED
      BY <3>2 DEF EndComes
  <2>3. QED
    BY <2>1, <2>2 DEF EndComes
<1>7. Cuts'
  BY LabelSets, CutsStay DEF Ends
<1>8. QED
  BY <1>4, <1>5, <1>6, <1>7 DEF Ends

\* One saver at a time has begun.
LEMMA EndsSave ==
    ASSUME Shape, Ends, NEW p \in Proc, Save(p), "end" \notin trouble'
    PROVE  Ends'
<1>1. /\ Moves(p) /\ pc[p] = "save" /\ pc'[p] = "save_rest" /\ file'[p] = NoFile /\ file' = file
      /\ buf[p] \in Image /\ flash' = FirstPart(flash, buf[p]) /\ buf'[p] = buf[p]
      /\ UNCHANGED <<files, staging, flashTorn>> /\ ~ \E q \in Proc \ {p} : Saving(q)
  BY SaveIs
<1>2. FirstCopied(flash', buf'[p]) /\ HasEnd(buf'[p])
  <2>1. flash \in Image
    BY DEF Shape
  <2>2. FirstCopied(flash', buf'[p])
    BY <1>1, <2>1, FirstPartIs DEF FirstCopied
  <2>3. QED
    BY <1>1, <2>2, LabelSets DEF Ends, CopyHasEnd
<1>3. pc[p] \notin FilePc /\ pc'[p] \notin FilePc /\ file[p] = NoFile
  BY <1>1, LabelSets
<1>4. QED
  BY <1>1, <1>2, <1>3, EndsFlash

\* The partition is the whole buffer.
LEMMA EndsSaveRest ==
    ASSUME Shape, Ends, NEW p \in Proc, SaveRest(p)
    PROVE  Ends'
<1>1. /\ Moves(p) /\ pc[p] = "save_rest" /\ pc'[p] = "unlink" /\ file'[p] = NoFile /\ file' = file
      /\ buf[p] \in Image /\ UNCHANGED <<files, staging>>
      /\ ~ flashTorn' => flash' = RestPart(flash, buf[p])
  BY SaveRestIs
<1>2. FirstCopied(flash, buf[p]) /\ HasEnd(buf[p]) /\ Saving(p)
  BY <1>1, LabelSets DEF Ends, CopyHasEnd, SaveBegun
<1>3. ~ flashTorn' => HasEnd(flash')
  <2>1. flash \in Image
    BY DEF Shape
  <2>2. RestPart(flash, buf[p]).cells = buf[p].cells
    BY <1>1, <1>2, <2>1, CopyIsWhole
  <2>3. QED
    BY <1>1, <1>2, <2>2, SameCells
<1>4. \A q \in Proc \ {p} : ~ Saving(q)
  BY <1>2 DEF Ends, OneSaver
<1>5. pc[p] \notin FilePc /\ pc'[p] \notin FilePc /\ pc'[p] \notin CopyPc /\ file[p] = NoFile
  BY <1>1, LabelSets
<1>6. QED
  BY <1>1, <1>3, <1>4, <1>5, EndsFlash

\* What was there before nothing happened that can cost the end.
EndsOK == "end" \notin trouble => Ends

\* EndsOK holds at first.
LEMMA EndsInit == Init => EndsOK
<1> SUFFICES ASSUME Init PROVE Ends
  BY DEF EndsOK
<1>1. \A p \in Proc : pc[p] = "idle" /\ file[p] = NoFile
  BY DEF Init
<1>2. flash = ImageOf(FirstStore) /\ staging = NoFile
  BY DEF Init
<1>3. \A p \in Proc : ~ Saving(p) /\ pc[p] \notin CopyPc
  BY <1>1, LabelSets DEF Saving
<1>4. \A f \in Inode : ~ InUse(f)
  BY <1>1, <1>2, CellAssumption DEF InUse
<1>5. HasEnd(flash)
  BY <1>2, ImageOfFirst
<1>6. \A p \in Proc : pc[p] \notin Cutting
  BY <1>1, LabelSets
<1>7. QED
  BY <1>1, <1>3, <1>4, <1>5, <1>6 DEF Ends, CopyAlone, CopyBegun, CopyHasEnd, FlashHasEnd, OneSaver, SaveBegun, FilesEnd, Cuts

\* Trouble only grows.
LEMMA TroubleStays ==
    ASSUME Shape, Next
    PROVE  trouble \subseteq trouble'
<1>1. CASE PowerLoss
  BY <1>1, PowerLossIs
<1>2. ASSUME NEW p \in Proc, Step(p) PROVE trouble \subseteq trouble'
  <2>1. CASE Start(p)
    <3>1. Note(When(Writes(cmd'[p]) /\ {w \in Proc : Running(w) /\ Writes(cmd[w])} # {}, "overlap"))
      BY <2>1, StartIs
    <3>2. QED
      BY <3>1, NoteIs
  <2>2. CASE FindForReading(p) \/ FindStaging(p)
    BY <2>2, FindForReadingIs, FindStagingIs DEF history
  <2>3. CASE OpenReading(p) \/ ReadRest(p) \/ Close(p)
    <3>1. Exit(p, "none", {}) \/ trouble' = trouble
      BY <2>3, OpenReadingIs, ReadRestIs, CloseIs
    <3>2. QED
      BY <3>1, ExitIs, NoteIs
  <2>4. CASE ReadFlash(p) \/ CreateStaging(p) \/ Fill(p) \/ FillRest(p)
    BY <2>4, ReadFlashIs, CreateStagingIs, FillIs, FillRestIs
  <2>5. CASE OpenStaging(p) \/ Clear(p) \/ WriteTuple(p) \/ EndList(p)
    BY <2>5, OpenStagingIs, ClearIs, WriteTupleIs, EndListIs
  <2>6. CASE ReadStaging(p) \/ Save(p) \/ SaveRest(p) \/ Unlink(p) \/ Kill(p)
    BY <2>6, ReadStagingIs, SaveIs, SaveRestIs, UnlinkIs, KillIs
  <2>7. CASE CutEntry(p) \/ Restore(p) \/ EndParse(p) \/ EndReparse(p)
    BY <2>7, CutEntryIs, RestoreIs, EndParseIs, EndReparseIs
  <2>8. QED
    BY <1>2, <2>1, <2>2, <2>3, <2>4, <2>5, <2>6, <2>7 DEF Step
<1>3. QED
  BY <1>1, <1>2 DEF Next

\* Every step keeps EndsOK.
LEMMA EndsNext == Shape /\ EndsOK /\ [Next]_vars => EndsOK'
<1> SUFFICES ASSUME Shape, EndsOK, [Next]_vars, "end" \notin trouble' PROVE Ends'
  BY DEF EndsOK
<1>1. CASE UNCHANGED vars
  <2>1. UNCHANGED <<flash, files, staging, pc, cmd, file, tuples, todo, ptr, buf, trouble, flashTorn>>
    BY <1>1 DEF vars, process, history
  <2>2. Ends
    BY <2>1 DEF EndsOK
  <2>3. QED
    BY <2>1, <2>2 DEF Ends, CopyAlone, CopyBegun, CopyHasEnd, FlashHasEnd, OneSaver, SaveBegun, FilesEnd,
                      InUse, EndComes, SaverNow, Saving, Cuts, Parsed
<1>2. CASE Next
  <2>1. Ends
    BY <1>2, TroubleStays DEF EndsOK
  <2>2. CASE PowerLoss
    BY <2>1, <2>2, EndsPowerLoss
  <2>3. ASSUME NEW p \in Proc, Step(p) PROVE Ends'
    <3>1. CASE Start(p) \/ FindForReading(p) \/ OpenReading(p) \/ ReadRest(p) \/ Close(p) \/ FindStaging(p)
      BY <2>1, <3>1, EndsReadSteps
    <3>2. CASE ReadFlash(p) \/ CreateStaging(p) \/ Fill(p) \/ FillRest(p) \/ OpenStaging(p)
      BY <2>1, <3>2, EndsReadFlash, EndsCreate, EndsFill, EndsFillRest, EndsOpenStaging
    <3>3. CASE Clear(p) \/ WriteTuple(p) \/ EndList(p)
      BY <2>1, <3>3, EndsClear, EndsWriteTuple, EndsEndList
    <3>4. CASE ReadStaging(p) \/ Save(p) \/ SaveRest(p) \/ Unlink(p) \/ Kill(p)
      BY <2>1, <3>4, EndsReadStaging, EndsSave, EndsSaveRest, EndsUnlink, EndsKill
    <3>5. CASE CutEntry(p) \/ Restore(p) \/ EndParse(p) \/ EndReparse(p)
      BY <2>1, <3>5, EndsCutEntry, EndsRestore, EndsParsed
    <3>6. QED
      BY <2>3, <3>1, <3>2, <3>3, <3>4, <3>5 DEF Step
  <2>4. QED
    BY <1>2, <2>2, <2>3 DEF Next
<1>3. QED
  BY <1>1, <1>2

\* StagingHasEnd: outside commits and copies the staging file holds a list with an end, however many
\* writers there are and however their commits overlap, unless one of the things that can cost it has happened.
THEOREM StagingAlwaysHasEnd == Spec => []StagingHasEnd
<1>1. Shape /\ EndsOK => StagingHasEnd
  <2> SUFFICES ASSUME Shape, EndsOK, staging # NoFile, \A p \in Proc : ~ InWindow(p, staging), "end" \notin trouble
               PROVE  ~ Holed(files[staging])
    BY DEF StagingHasEnd
  <2>1. staging \in Inode
    BY DEF Shape
  <2>2. EndComes(staging)
    BY <2>1 DEF EndsOK, Ends, FilesEnd, InUse
  <2>3. ASSUME NEW q \in Proc, file[q] = staging, pc[q] \in Filling \/ pc[q] = "tuples" PROVE FALSE
    BY <2>3, LabelSets DEF InWindow
  <2>4. HasEnd(files[staging])
    BY <2>2, <2>3 DEF EndComes
  <2>5. QED
    BY <2>4, HoledIs
<1>2. QED
  BY <1>1, ShapeInit, ShapeNext, EndsInit, EndsNext, PTL DEF Spec

-----------------------------------------------------------------------------
(***************************************************************************)
(* The list of a commit, while it is written.                              *)
(***************************************************************************)
\* Before cell e of img there are pairs of s, behind it there is nothing yet, and what is missing of s is in rest.
WrittenSoFar(img, e, s, rest) ==
    /\ \A i \in 1 .. e - 1 : Readable(img.cells[i]) /\ img.cells[i].value = s[img.cells[i].name]
    /\ \A i \in Position : i >= e => img.cells[i] = Erased
    /\ \A n \in Name : s[n] # Absent => \/ \E k \in 1 .. Len(rest) : rest[k] = n
                                        \/ \E i \in 1 .. e - 1 : img.cells[i].name = n

\* After the clearing nothing is written and the whole table is to be.
LEMMA ClearedIsWritten ==
    ASSUME NEW img \in Image, ~ Short(img), NEW s
    PROVE  WrittenSoFar(Cleared(img), 1, s, Listed(s))
<1>1. \A i \in Position : Cleared(img).cells[i] = Erased
  BY ClearedIs DEF Short
<1>2. \A n \in Name : s[n] # Absent => \E k \in 1 .. Len(Listed(s)) : Listed(s)[k] = n
  BY ListedNames
<1> DEFINE new == Cleared(img)
           rest == Listed(s)
<1> HIDE DEF new, rest
<1>3. (\A i \in Position : new.cells[i] = Erased) /\ \A n \in Name : s[n] # Absent => \E k \in 1 .. Len(rest) : rest[k] = n
  BY <1>1, <1>2 DEF new, rest
<1>4. \A i \in 1 .. 1 - 1 : FALSE
  OBVIOUS
<1>5. WrittenSoFar(new, 1, s, rest)
  BY <1>3, <1>4 DEF WrittenSoFar
<1>6. QED
  BY <1>5 DEF new, rest

\* A tuple moves from what is to be written to what is.
LEMMA OneMoreWritten ==
    ASSUME NEW img \in Image, NEW e \in Position, e <= Room, NEW s \in Store,
           NEW rest \in Seq(Name), rest # <<>>, s[Head(rest)] \in Value,
           WrittenSoFar(img, e, s, rest)
    PROVE  WrittenSoFar(WithTuple(img, e, Head(rest), s[Head(rest)]), e + 1, s, Tail(rest))
<1> DEFINE n == Head(rest)
           new == WithTuple(img, e, n, s[n])
<1>1. n \in Name /\ n = rest[1] /\ Len(rest) \in Nat
      /\ \A k \in 1 .. Len(rest) : k = 1 \/ (k - 1 \in 1 .. Len(Tail(rest)) /\ Tail(rest)[k - 1] = rest[k])
  OBVIOUS
<1>2. /\ Readable(new.cells[e]) /\ new.cells[e].name = n /\ new.cells[e].value = s[n]
      /\ \A j \in Position : j # e => new.cells[j] = img.cells[j]
  BY <1>1, WithTupleIs
<1> HIDE DEF n, new
<1>3. \A i \in 1 .. e : i \in Position /\ (i = e \/ i \in 1 .. e - 1) /\ (i \in 1 .. e - 1 => i # e)
  BY Sizes
<1>4. (e + 1) - 1 = e
  BY Sizes
<1>5. ASSUME NEW i \in 1 .. e PROVE Readable(new.cells[i]) /\ new.cells[i].value = s[new.cells[i].name]
  <2>1. CASE i = e
    BY <1>2, <2>1
  <2>2. CASE i \in 1 .. e - 1
    BY <1>2, <1>3, <2>2 DEF WrittenSoFar
  <2>3. QED
    BY <1>3, <2>1, <2>2
<1>6. ASSUME NEW i \in Position, i >= e + 1 PROVE new.cells[i] = Erased
  <2>1. i # e /\ i >= e
    BY <1>6, Sizes
  <2>2. QED
    BY <1>2, <2>1 DEF WrittenSoFar
<1>7. ASSUME NEW m \in Name, s[m] # Absent
      PROVE  (\E k \in 1 .. Len(Tail(rest)) : Tail(rest)[k] = m) \/ \E i \in 1 .. e : new.cells[i].name = m
  <2>1. CASE m = n
    <3>1. e \in 1 .. e
      BY Sizes
    <3>2. QED
      BY <1>2, <2>1, <3>1
  <2>2. CASE m # n /\ \E k \in 1 .. Len(rest) : rest[k] = m
    BY <1>1, <2>2 DEF n
  <2>3. CASE \E i \in 1 .. e - 1 : img.cells[i].name = m
    <3>1. PICK i \in 1 .. e - 1 : img.cells[i].name = m
      BY <2>3
    <3>2. i \in 1 .. e
      BY Sizes
    <3>3. new.cells[i] = img.cells[i]
      BY <1>2, <1>3, <3>2
    <3>4. QED
      BY <3>1, <3>2, <3>3
  <2>4. QED
    BY <1>7, <2>1, <2>2, <2>3 DEF WrittenSoFar
<1>8. WrittenSoFar(new, e + 1, s, Tail(rest))
  BY <1>4, <1>5, <1>6, <1>7 DEF WrittenSoFar
<1>9. QED
  BY <1>8 DEF n, new

\* A list written to its end holds the table it was written from.
LEMMA EndedIsWhole ==
    ASSUME NEW img \in Image, NEW e \in Position, NEW s \in Store, WrittenSoFar(img, e, s, <<>>)
    PROVE  HasEnd(Ended(img, e)) /\ ListStore(Ended(img, e)) = s /\ AllRead(Ended(img, e))
<1> DEFINE new == Ended(img, e)
<1>1. new \in Image /\ new.cells[e] = Nul /\ \A j \in Position : j # e => new.cells[j] = img.cells[j]
  BY EndedIs
<1> HIDE DEF new
<1>2. \A i \in 1 .. e - 1 : i \in Position /\ i # e
  BY Sizes
<1>3. Lists(new, e, s)
  BY <1>1, <1>2 DEF WrittenSoFar, Lists, Readable
<1>4. new.cells \in [Position -> Cell]
  BY <1>1, ImageFields
<1>5. EndAt(new, e) /\ ListStore(new) = s
  BY <1>1, <1>3, <1>4, ListHolds
<1>6. AllRead(new)
  <2> SUFFICES ASSUME NEW i \in Position, IsTuple(new.cells[i]) PROVE Readable(new.cells[i])
    BY DEF AllRead
  <2>1. CASE i \in 1 .. e - 1
    BY <1>1, <1>2, <2>1 DEF WrittenSoFar
  <2>2. CASE i = e
    BY <1>1, <2>2, CellFacts
  <2>3. CASE i > e
    <3>1. i >= e /\ i # e
      BY <2>3, Sizes
    <3>2. QED
      BY <1>1, <3>1, CellFacts DEF WrittenSoFar
  <2>4. QED
    BY <2>1, <2>2, <2>3, Sizes
<1>7. QED
  BY <1>5, <1>6 DEF new, HasEnd

\* The first cells, one by one.
LEMMA UpToNone == ASSUME NEW img PROVE StoreUpTo(img, 0) = [n \in Name |-> Absent]
BY DEF StoreUpTo

LEMMA UpToNext ==
    ASSUME NEW img, NEW i \in Position, NEW m \in Name, img.cells[i].name = m
    PROVE  StoreUpTo(img, i) = [StoreUpTo(img, i - 1) EXCEPT ![m] = img.cells[i].value]
<1> DEFINE At(k, n) == {j \in 1 .. k : img.cells[j].name = n}
           s == StoreUpTo(img, i - 1)
           t == StoreUpTo(img, i)
           V(S) == IF S = {} THEN Absent ELSE img.cells[Max(S)].value
<1>1. s = [n \in Name |-> V(At(i - 1, n))] /\ t = [n \in Name |-> V(At(i, n))]
  BY DEF StoreUpTo
<1> HIDE DEF s, t
<1>2. i \in Nat /\ i >= 1 /\ i \in 1 .. i /\ \A j \in 1 .. i : j = i \/ j \in 1 .. i - 1
  BY Sizes
<1>3. \A n \in Name : n # m => At(i, n) = At(i - 1, n)
  BY <1>2
<1>4. Max(At(i, m)) = i
  <2> DEFINE T == At(i, m)
  <2>1. i \in T /\ T \subseteq 0 .. i /\ \A j \in T : j <= i
    BY <1>2
  <2> HIDE DEF T
  <2>2. Max(T) = CHOOSE x \in T : \A y \in T : x >= y
    BY DEF Max
  <2>3. \A y \in T : i >= y
    BY <1>2, <2>1
  <2>4. Max(T) \in T /\ \A y \in T : Max(T) >= y
    BY <2>1, <2>2, <2>3
  <2>5. Max(T) >= i /\ Max(T) <= i
    BY <2>1, <2>4
  <2> DEFINE x == Max(T)
  <2>6. x \in 0 .. i
    BY <2>1, <2>4
  <2> HIDE DEF x
  <2>7. x = i
    BY <1>2, <2>5, <2>6 DEF x
  <2>8. QED
    BY <2>7 DEF x, T
<1>5. i \in At(i, m)
  BY <1>2
<1>6. V(At(i, m)) = img.cells[i].value
  BY <1>4, <1>5
<1>7. \A n \in Name : n # m => V(At(i, n)) = V(At(i - 1, n))
  BY <1>3
<1> HIDE DEF V, At
<1>8. t = [s EXCEPT ![m] = img.cells[i].value]
  BY <1>1, <1>6, <1>7
<1>9. QED
  BY <1>8 DEF s, t

\* The '=' does not matter.
LEMMA SameUpTo ==
    ASSUME NEW a, NEW b, NEW k \in 0 .. Room + 1,
           \A i \in 1 .. k : b.cells[i].name = a.cells[i].name /\ b.cells[i].value = a.cells[i].value
    PROVE  StoreUpTo(b, k) = StoreUpTo(a, k)
<1> DEFINE s == StoreUpTo(a, k)
           t == StoreUpTo(b, k)
<1>1. ASSUME NEW n \in Name PROVE t[n] = s[n]
  <2> DEFINE at == {i \in 1 .. k : a.cells[i].name = n}
  <2>1. at = {i \in 1 .. k : b.cells[i].name = n}
    OBVIOUS
  <2>2. /\ s[n] = IF at = {} THEN Absent ELSE a.cells[Max(at)].value
        /\ t[n] = IF at = {} THEN Absent ELSE b.cells[Max(at)].value
    BY <2>1 DEF StoreUpTo
  <2>3. at \subseteq 0 .. Room + 1 /\ Room + 1 \in Nat /\ at \subseteq 1 .. k
    BY Sizes
  <2> HIDE DEF at
  <2>4. at # {} => Max(at) \in 1 .. k
    BY <2>3, MaxPosition
  <2> HIDE DEF s, t
  <2>5. QED
    BY <2>2, <2>4
<1>2. s = [n \in Name |-> s[n]] /\ t = [n \in Name |-> t[n]]
  BY DEF StoreUpTo
<1> HIDE DEF s, t
<1>3. s = t
  BY <1>1, <1>2
<1>4. QED
  BY <1>3 DEF s, t

-----------------------------------------------------------------------------
(***************************************************************************)
(* The variables nobody touches.                                           *)
(***************************************************************************)
Bystander == {n \in Name : \A c \in Command : n \notin DOMAIN c.edits}
Keeps(s) == \A n \in Bystander : s[n] = FirstStore[n]
Good(img) == Keeps(ListStore(img)) /\ AllRead(img)
HalfWritten == {"fill_rest", "tuples"} \cup Parsing

\* A parser at cell i: it has taken what is before it, and no '=' is missing but its own.
ParseOK(img, label, i, s) ==
    /\ Keeps(ListStore(img))
    /\ \A j \in Position : IsTuple(img.cells[j]) => (Readable(img.cells[j]) <=> ~ (label \in Cutting /\ j = i))
    /\ label \in Cutting => IsTuple(img.cells[i])
    /\ label = "parse" => i <= ListEnd(img) /\ s = StoreUpTo(img, i - 1)
    /\ label = "cut" => i < ListEnd(img) /\ s = StoreUpTo(img, i)

OneWriter == \A p, q \in Proc : p # q /\ file[p] = file[q] /\ pc[p] \in HalfWritten => pc[q] \notin HalfWritten
CopyKeeps == \A p \in Proc : pc[p] \in CopyPc => Good(buf[p])
FlashKeeps == ~ flashTorn /\ ~ SaverNow => Good(flash)
\* a file nobody is half way through keeps them, or it is new and its copy is to come
FilesKeep ==
    \A f \in Inode :
       InUse(f) /\ (\A p \in Proc : file[p] = f => pc[p] \notin HalfWritten)
         => \/ Good(files[f])
            \/ ~ files[f].magic /\ \E p \in Proc : file[p] = f /\ pc[p] = "fill"
TableKeeps == \A p \in Proc : pc[p] = "commit" \/ pc[p] = "tuples" => Keeps(tuples[p])
HalfOK(p) ==
    /\ pc[p] = "fill_rest" => FirstCopied(files[file[p]], buf[p])
    /\ pc[p] = "tuples" => WrittenSoFar(files[file[p]], ptr[p], tuples[p], todo[p])
    /\ pc[p] \in Parsing => ParseOK(files[file[p]], pc[p], ptr[p], tuples[p])
HalfWay == \A p \in Proc : HalfOK(p)
TornIsStaged == flashTorn => staging # NoFile
Keeping == OneWriter /\ CopyKeeps /\ FlashKeeps /\ FilesKeep /\ TableKeeps /\ HalfWay /\ TornIsStaged

\* Who is not touched is where he was.
LEMMA HalfStays ==
    ASSUME NEW q \in Proc, HalfOK(q), Stays(q),
           pc[q] \in HalfWritten => files'[file[q]] = files[file[q]]
    PROVE  HalfOK(q)'
<1>1. /\ pc'[q] = pc[q] /\ file'[q] = file[q] /\ ptr'[q] = ptr[q] /\ tuples'[q] = tuples[q]
      /\ todo'[q] = todo[q] /\ buf'[q] = buf[q]
  BY DEF Stays
<1>2. CASE pc[q] \notin HalfWritten
  BY <1>1, <1>2 DEF HalfOK, HalfWritten
<1>3. CASE pc[q] \in HalfWritten
  BY <1>1, <1>3 DEF HalfOK
<1>4. QED
  BY <1>2, <1>3

\* Only who is half way through a file has something to say of it.
LEMMA NotHalf == ASSUME NEW q \in Proc, pc[q] \notin HalfWritten PROVE HalfOK(q)
BY DEF HalfOK, HalfWritten

\* A file that is parsed is good as long as no '=' is out.
LEMMA ParsedGood ==
    ASSUME NEW p \in Proc, HalfOK(p), pc[p] \in Parsing \ Cutting
    PROVE  Good(files[file[p]])
BY DEF HalfOK, ParseOK, Good, AllRead

\* A copy of a good image is good.
LEMMA CopyGood ==
    ASSUME NEW img \in Image, NEW b \in Image, FirstCopied(img, b), Good(b)
    PROVE  Good(RestPart(img, b))
<1>1. RestPart(img, b).cells = b.cells
  BY CopyIsWhole
<1> DEFINE new == RestPart(img, b)
<1> HIDE DEF new
<1>2. new.cells = b.cells
  BY <1>1 DEF new
<1>3. Good(new)
  BY <1>2, SameCells DEF Good, AllRead
<1>4. QED
  BY <1>3 DEF new

\* Nobody else is half way through a file that only one process is in.
LEMMA NobodyHalfWay ==
    ASSUME NEW p \in Proc, NEW f, ~ SomeoneIn(f, p)
    PROVE  \A q \in Proc \ {p} : file[q] = f => pc[q] \notin HalfWritten
BY LabelSets DEF SomeoneIn, InWindow, Parses, HalfWritten

\* A step that writes no image.
LEMMA KeepsQuiet ==
    ASSUME Shape, Keeping, NEW p \in Proc, Moves(p),
           flash' = flash, flashTorn' <=> (flashTorn \/ Saving(p)), flashTorn' => staging' # NoFile,
           pc[p] # "fill" /\ pc[p] \notin HalfWritten, pc'[p] # "save_rest",
           pc'[p] \in HalfWritten => /\ HalfOK(p)' /\ file'[p] \in Inode
                                     /\ \A q \in Proc \ {p} : file[q] = file'[p] => pc[q] \notin HalfWritten,
           pc'[p] \in CopyPc => Good(buf'[p]),
           pc'[p] = "commit" \/ pc'[p] = "tuples" => Keeps(tuples'[p]),
           \A q \in Proc \ {p} : file[q] \in Inode => files'[file[q]] = files[file[q]],
           \A f \in Inode : InUse(f)' => \/ InUse(f) /\ files'[f] = files[f]
                                         \/ file'[p] = f /\ pc'[p] = "fill" /\ ~ files'[f].magic
    PROVE  Keeping'
<1>1. \A q \in Proc \ {p} : Stays(q)
  BY DEF Moves
<1>2. OneWriter'
  <2> SUFFICES ASSUME NEW q \in Proc, NEW r \in Proc, q # r, file'[q] = file'[r],
                      pc'[q] \in HalfWritten, pc'[r] \in HalfWritten
               PROVE  FALSE
    BY DEF OneWriter
  <2>1. CASE q = p
    BY <1>1, <2>1 DEF Stays
  <2>2. CASE r = p
    BY <1>1, <2>2 DEF Stays
  <2>3. CASE q # p /\ r # p
    <3>1. file[q] = file[r] /\ pc[q] \in HalfWritten /\ pc[r] \in HalfWritten
      BY <1>1, <2>3 DEF Stays
    <3>2. QED
      BY <3>1 DEF Keeping, OneWriter
  <2>4. QED
    BY <2>1, <2>2, <2>3
<1>3. CopyKeeps'
  BY <1>1 DEF CopyKeeps, Keeping, Stays
<1>4. \A q \in Proc : Saving(q)' <=> q # p /\ Saving(q)
  <2> SUFFICES ASSUME NEW q \in Proc PROVE Saving(q)' <=> q # p /\ Saving(q)
    OBVIOUS
  <2>1. pc'[q] = "save_rest" <=> q # p /\ pc[q] = "save_rest"
    BY <1>1 DEF Stays
  <2>2. QED
    BY <2>1 DEF Saving
<1>5. FlashKeeps'
  BY <1>4 DEF FlashKeeps, Keeping, SaverNow
<1>6. FilesKeep'
  <2> SUFFICES ASSUME NEW f \in Inode, InUse(f)', \A q \in Proc : file'[q] = f => pc'[q] \notin HalfWritten
               PROVE  \/ Good(files'[f])
                      \/ ~ files'[f].magic /\ \E q \in Proc : file'[q] = f /\ pc'[q] = "fill"
    BY DEF FilesKeep
  <2>1. CASE file'[p] = f /\ pc'[p] = "fill" /\ ~ files'[f].magic
    BY <2>1
  <2>2. CASE InUse(f) /\ files'[f] = files[f]
    <3>1. \A q \in Proc : file[q] = f => pc[q] \notin HalfWritten
      BY <1>1 DEF Stays
    <3>2. \/ Good(files[f])
          \/ ~ files[f].magic /\ \E q \in Proc : file[q] = f /\ pc[q] = "fill"
      BY <2>2, <3>1 DEF Keeping, FilesKeep
    <3>3. ASSUME NEW q \in Proc, file[q] = f, pc[q] = "fill" PROVE file'[q] = f /\ pc'[q] = "fill"
      BY <1>1, <3>3 DEF Stays
    <3>4. QED
      BY <2>2, <3>2, <3>3
  <2>3. QED
    BY <2>1, <2>2
<1>7. TableKeeps'
  BY <1>1 DEF TableKeeps, Keeping, Stays
<1>8. HalfWay'
  <2> SUFFICES ASSUME NEW q \in Proc PROVE HalfOK(q)'
    BY DEF HalfWay
  <2>1. CASE q = p
    <3>1. pc'[p] \notin HalfWritten => HalfOK(p)'
      BY DEF HalfOK, HalfWritten
    <3>2. QED
      BY <2>1, <3>1
  <2>2. CASE q # p
    <3>1. pc[q] \in HalfWritten => files'[file[q]] = files[file[q]]
      <4> SUFFICES ASSUME pc[q] \in HalfWritten PROVE files'[file[q]] = files[file[q]]
        OBVIOUS
      <4>1. file[q] \in Inode
        BY HasFile, LabelSets DEF HalfWritten
      <4>2. QED
        BY <2>2, <4>1
    <3>2. HalfOK(q) /\ Stays(q)
      BY <1>1, <2>2 DEF Keeping, HalfWay
    <3>3. QED
      BY <3>1, <3>2, HalfStays
  <2>3. QED
    BY <2>1, <2>2
<1>9. TornIsStaged'
  BY DEF TornIsStaged
<1>10. QED
  BY <1>2, <1>3, <1>5, <1>6, <1>7, <1>8, <1>9 DEF Keeping

\* A step that writes no image keeps Keeping.
LEMMA KeepsStill ==
    ASSUME Shape, Keeping, NEW p \in Proc, Moves(p),
           flash' = flash, flashTorn' <=> (flashTorn \/ Saving(p)), files' = files, staging' = staging,
           flashTorn' => staging # NoFile,
           file'[p] \in {NoFile, staging},
           pc[p] # "fill" /\ pc[p] \notin HalfWritten, pc'[p] # "save_rest",
           pc'[p] \in HalfWritten => /\ HalfOK(p)' /\ file'[p] \in Inode
                                     /\ \A q \in Proc \ {p} : file[q] = file'[p] => pc[q] \notin HalfWritten,
           pc'[p] \in CopyPc => Good(buf'[p]),
           pc'[p] = "commit" \/ pc'[p] = "tuples" => Keeps(tuples'[p])
    PROVE  Keeping'
<1>1. \A f \in Inode : InUse(f)' => InUse(f)
  BY InUseStill
<1>2. \A f \in Inode : InUse(f)' => InUse(f) /\ files'[f] = files[f]
  BY <1>1
<1>3. \A q \in Proc \ {p} : file[q] \in Inode => files'[file[q]] = files[file[q]]
  OBVIOUS
<1>4. QED
  BY <1>2, <1>3, KeepsQuiet

\* So do the steps that only look.
LEMMA KeepsReadSteps ==
    ASSUME Shape, Keeping, NEW p \in Proc,
           Start(p) \/ FindForReading(p) \/ OpenReading(p) \/ ReadRest(p) \/ Close(p) \/ FindStaging(p)
    PROVE  Keeping'
<1>1. /\ Moves(p) /\ file'[p] \in {NoFile, staging}
      /\ pc[p] \in LookPc /\ pc'[p] \in LookPc \cup {"open", "read_flash", "save_read"}
      /\ flash' = flash /\ flashTorn' = flashTorn /\ files' = files /\ staging' = staging
  BY ReadSteps
<1>2. pc[p] # "fill" /\ pc[p] \notin HalfWritten /\ pc'[p] # "save_rest" /\ pc'[p] \notin HalfWritten
      /\ pc'[p] \notin CopyPc /\ pc'[p] # "commit" /\ pc'[p] # "tuples" /\ ~ Saving(p)
  BY <1>1, LabelSets DEF LookPc, HalfWritten
<1>3. flashTorn => staging # NoFile
  BY DEF Keeping, TornIsStaged
<1>4. QED
  BY <1>1, <1>2, <1>3, KeepsStill

\* What is copied from a whole partition has what nobody names.
LEMMA KeepsReadFlash ==
    ASSUME Shape, Keeping, NEW p \in Proc, ReadFlash(p), trouble' \subseteq {"update"}
    PROVE  Keeping'
<1>1. /\ Moves(p) /\ pc[p] = "read_flash" /\ pc'[p] = "create" /\ buf'[p] = flash /\ file'[p] = NoFile
      /\ UNCHANGED <<flash, files, staging, flashTorn>> /\ ~ flashTorn /\ ~ \E q \in Proc : Saving(q)
  BY ReadFlashIs
<1>2. Good(buf'[p]) /\ ~ Saving(p) /\ pc[p] # "fill" /\ pc[p] \notin HalfWritten /\ pc'[p] \notin HalfWritten
  BY <1>1, LabelSets DEF Keeping, FlashKeeps, SaverNow, HalfWritten
<1>3. QED
  BY <1>1, <1>2, KeepsStill

\* A new file is still to be filled; one that was there is as it was.
LEMMA KeepsCreate ==
    ASSUME Shape, Keeping, NEW p \in Proc, CreateStaging(p)
    PROVE  Keeping'
<1>1. /\ Moves(p) /\ pc[p] = "create" /\ pc'[p] = "fill" /\ buf'[p] = buf[p]
      /\ file'[p] \in Inode /\ staging' = file'[p]
      /\ staging # NoFile => file'[p] = staging /\ files' = files
      /\ staging = NoFile => file'[p] \in Free /\ files'[file'[p]] = EmptyFile
                             /\ \A f \in Inode \ {file'[p]} : files'[f] = files[f]
      /\ UNCHANGED <<flash, flashTorn>>
  BY CreateStagingIs
<1>2. Good(buf'[p]) /\ ~ Saving(p) /\ pc[p] # "fill" /\ pc[p] \notin HalfWritten /\ pc'[p] \notin HalfWritten
  BY <1>1, LabelSets DEF Keeping, CopyKeeps, HalfWritten
<1>3. \A q \in Proc \ {p} : file[q] \in Inode => files'[file[q]] = files[file[q]]
  BY <1>1 DEF Free
<1>4. ASSUME NEW f \in Inode, InUse(f)'
      PROVE  \/ InUse(f) /\ files'[f] = files[f]
             \/ file'[p] = f /\ pc'[p] = "fill" /\ ~ files'[f].magic
  <2>1. CASE f # file'[p]
    BY <1>1, <1>4, <2>1 DEF InUse, Moves, Stays
  <2>2. CASE f = file'[p] /\ staging # NoFile
    BY <1>1, <2>2 DEF InUse
  <2>3. CASE f = file'[p] /\ staging = NoFile
    BY <1>1, <2>3, EmptyFileIs
  <2>4. QED
    BY <2>1, <2>2, <2>3
<1>5. staging' # NoFile
  BY <1>1, CellAssumption
<1>6. QED
  BY <1>1, <1>2, <1>3, <1>4, <1>5, KeepsQuiet

\* A file nobody is half way through has what nobody names, and the edits do not name it.
LEMMA KeepsOpenStaging ==
    ASSUME Shape, Keeping, NEW p \in Proc, OpenStaging(p), trouble' \subseteq {"update"}
    PROVE  Keeping'
<1>1. Moves(p) /\ pc[p] = "open" /\ UNCHANGED <<flash, files, staging, flashTorn>>
  BY OpenStagingIs
<1>2. ~ Saving(p) /\ (flashTorn => staging # NoFile) /\ pc[p] # "fill" /\ pc[p] \notin HalfWritten
  BY <1>1, LabelSets DEF Keeping, TornIsStaged, HalfWritten
<1>3. CASE pc'[p] = "idle" /\ file'[p] = NoFile
  BY <1>1, <1>2, <1>3, KeepsStill, LabelSets DEF HalfWritten
<1>4. CASE /\ pc'[p] = "parse" /\ staging \in Inode /\ file'[p] = staging /\ ptr'[p] = 1
           /\ tuples'[p] = [n \in Name |-> Absent]
           /\ files[staging].magic /\ ~ SomeoneIn(staging, p)
  <2> DEFINE img == files[staging]
  <2>1. \A q \in Proc \ {p} : file[q] = staging => pc[q] \notin HalfWritten
    BY <1>4, NobodyHalfWay
  <2>2. Good(img)
    <3>1. \A q \in Proc : file[q] = staging => pc[q] \notin HalfWritten
      BY <1>2, <2>1
    <3>2. QED
      BY <1>4, <3>1 DEF Keeping, FilesKeep, InUse
  <2> HIDE DEF img
  <2>3. ParseOK(img, "parse", 1, tuples'[p])
    <3>1. 1 <= ListEnd(img)
      BY ListEndIs, Sizes
    <3>2. "parse" \notin Cutting /\ "parse" # "cut"
      BY LabelSets
    <3>3. tuples'[p] = StoreUpTo(img, 1 - 1)
      BY <1>4, UpToNone
    <3>4. QED
      BY <2>2, <3>1, <3>2, <3>3 DEF ParseOK, Good, AllRead, Readable
  <2>4. HalfOK(p)'
    BY <1>1, <1>4, <2>3 DEF HalfOK, img
  <2>5. pc'[p] \notin CopyPc /\ pc'[p] # "commit" /\ pc'[p] # "tuples" /\ pc'[p] # "save_rest"
    BY <1>4, LabelSets
  <2>6. QED
    BY <1>1, <1>2, <1>4, <2>1, <2>4, <2>5, KeepsStill
<1>5. QED
  BY <1>3, <1>4, OpenStagingIs

\* Nobody is in the file that goes to the partition.
LEMMA KeepsReadStaging ==
    ASSUME Shape, Keeping, NEW p \in Proc, ReadStaging(p), trouble' \subseteq {"update"}
    PROVE  Keeping'
<1>1. /\ Moves(p) /\ pc[p] = "save_read" /\ file'[p] = NoFile /\ UNCHANGED <<flash, files, staging, flashTorn>>
      /\ \/ pc'[p] = "idle"
         \/ staging \in Inode /\ pc'[p] = "save" /\ buf'[p] = files[staging] /\ ~ SomeoneIn(staging, p)
  BY ReadStagingIs
<1>2. /\ ~ Saving(p) /\ (flashTorn => staging # NoFile) /\ pc[p] # "fill" /\ pc[p] \notin HalfWritten
      /\ pc'[p] \notin HalfWritten /\ pc'[p] # "save_rest" /\ pc'[p] # "commit" /\ pc'[p] # "tuples"
  BY <1>1, LabelSets DEF Keeping, TornIsStaged, HalfWritten
<1>3. CASE pc'[p] = "idle"
  BY <1>1, <1>2, <1>3, KeepsStill, LabelSets
<1>4. CASE staging \in Inode /\ pc'[p] = "save" /\ buf'[p] = files[staging] /\ ~ SomeoneIn(staging, p)
  <2>1. \A q \in Proc : file[q] = staging => pc[q] \notin HalfWritten /\ pc[q] # "fill"
    BY <1>1, <1>4, LabelSets DEF SomeoneIn, InWindow, Parses, HalfWritten
  <2>2. Good(files[staging])
    BY <1>4, <2>1 DEF Keeping, FilesKeep, InUse
  <2>3. Good(buf'[p])
    BY <1>4, <2>2
  <2>4. QED
    BY <1>1, <1>2, <1>4, <2>3, KeepsStill
<1>5. QED
  BY <1>1, <1>3, <1>4

\* Files still in use keep their contents.
LEMMA KeepsUnlink ==
    ASSUME Shape, Keeping, NEW p \in Proc, Unlink(p), trouble' \subseteq {"update"}
    PROVE  Keeping'
<1>1. /\ Moves(p) /\ pc[p] = "unlink" /\ pc'[p] = "idle" /\ file'[p] = NoFile
      /\ staging' = NoFile /\ UNCHANGED <<flash, flashTorn>> /\ ~ flashTorn
      /\ \A f \in Inode : f # staging \/ (\E q \in Proc : file[q] = f) => files'[f] = files[f]
  BY UnlinkIs
<1>2. /\ pc'[p] \notin CopyPc /\ ~ Saving(p) /\ pc[p] # "fill" /\ pc[p] \notin HalfWritten
      /\ pc'[p] \notin HalfWritten /\ pc'[p] # "save_rest" /\ pc'[p] # "commit" /\ pc'[p] # "tuples"
  BY <1>1, LabelSets DEF HalfWritten
<1>3. ASSUME NEW f \in Inode, InUse(f)' PROVE InUse(f) /\ files'[f] = files[f]
  <2>1. f # NoFile
    BY CellAssumption
  <2>2. PICK q \in Proc : file'[q] = f
    BY <1>1, <1>3, <2>1 DEF InUse
  <2>3. q # p
    BY <1>1, <2>1, <2>2
  <2>4. file[q] = f
    BY <1>1, <2>2, <2>3 DEF Moves, Stays
  <2>5. QED
    BY <1>1, <2>4 DEF InUse
<1>4. \A q \in Proc \ {p} : file[q] \in Inode => files'[file[q]] = files[file[q]]
  BY <1>1
<1>5. QED
  BY <1>1, <1>2, <1>3, <1>4, KeepsQuiet

\* The partition was whole.
LEMMA KeepsPowerLoss ==
    ASSUME Shape, Keeping, PowerLoss, trouble' \subseteq {"update"}
    PROVE  Keeping'
<1>1. /\ \A p \in Proc : pc'[p] = "idle" /\ file'[p] = NoFile
      /\ staging' = NoFile /\ flash' = flash
      /\ flashTorn' = (flashTorn \/ \E p \in Proc : Saving(p))
      /\ ~ flashTorn'
  BY PowerLossIs
<1>2. \A f \in Inode : ~ InUse(f)'
  BY <1>1, CellAssumption DEF InUse
<1>3. FlashKeeps'
  BY <1>1 DEF Keeping, FlashKeeps, SaverNow
<1>4. \A p \in Proc : pc'[p] \notin CopyPc /\ pc'[p] \notin HalfWritten
  BY <1>1, LabelSets DEF HalfWritten
<1>5. HalfWay'
  <2>1. \A p \in Proc : pc'[p] # "fill_rest" /\ pc'[p] # "tuples" /\ pc'[p] \notin Parsing
    BY <1>1, LabelSets
  <2>2. QED
    BY <2>1 DEF HalfWay, HalfOK
<1>6. QED
  BY <1>1, <1>2, <1>3, <1>4, <1>5 DEF Keeping, OneWriter, CopyKeeps, FilesKeep, TableKeeps, TornIsStaged

\* A step that writes one file, which nobody else is half way through.
LEMMA KeepsFile ==
    ASSUME Shape, Keeping, NEW p \in Proc, Moves(p), NEW f \in Inode, f = file[p], OnlyFile(f),
           flash' = flash, flashTorn' <=> flashTorn, staging' = staging,
           file'[p] \in {f, NoFile}, pc[p] # "save_rest", pc'[p] # "save_rest",
           pc'[p] \in CopyPc => pc[p] \in CopyPc /\ buf'[p] = buf[p],
           pc'[p] = "commit" \/ pc'[p] = "tuples" => Keeps(tuples'[p]),
           pc'[p] \in HalfWritten => file'[p] = f /\ HalfOK(p)',
           \A q \in Proc \ {p} : file[q] = f => pc[q] \notin HalfWritten,
           pc'[p] \in HalfWritten \/ Good(files'[f])
    PROVE  Keeping'
<1>1. \A q \in Proc \ {p} : Stays(q)
  BY DEF Moves
<1>2. f # NoFile /\ \A q \in Proc : pc[q] \in HalfWritten => file[q] \in Inode
  BY CellAssumption, HasFile, LabelSets DEF HalfWritten
<1>3. OneWriter'
  <2> SUFFICES ASSUME NEW q \in Proc, NEW r \in Proc, q # r, file'[q] = file'[r],
                      pc'[q] \in HalfWritten, pc'[r] \in HalfWritten
               PROVE  FALSE
    BY DEF OneWriter
  <2>1. CASE q = p
    <3>1. file[r] = f /\ pc[r] \in HalfWritten
      BY <1>1, <2>1 DEF Stays
    <3>2. QED
      BY <2>1, <3>1
  <2>2. CASE r = p
    <3>1. file[q] = f /\ pc[q] \in HalfWritten
      BY <1>1, <2>2 DEF Stays
    <3>2. QED
      BY <2>2, <3>1
  <2>3. CASE q # p /\ r # p
    <3>1. file[q] = file[r] /\ pc[q] \in HalfWritten /\ pc[r] \in HalfWritten
      BY <1>1, <2>3 DEF Stays
    <3>2. QED
      BY <3>1 DEF Keeping, OneWriter
  <2>4. QED
    BY <2>1, <2>2, <2>3
<1>4. CopyKeeps'
  BY <1>1 DEF CopyKeeps, Keeping, Stays
<1>5. \A q \in Proc : Saving(q)' <=> Saving(q)
  <2> SUFFICES ASSUME NEW q \in Proc PROVE Saving(q)' <=> Saving(q)
    OBVIOUS
  <2>1. pc'[q] = "save_rest" <=> pc[q] = "save_rest"
    BY <1>1 DEF Stays
  <2>2. QED
    BY <2>1 DEF Saving
<1>6. FlashKeeps'
  BY <1>5 DEF FlashKeeps, Keeping, SaverNow
<1>7. FilesKeep'
  <2> SUFFICES ASSUME NEW g \in Inode, InUse(g)', \A q \in Proc : file'[q] = g => pc'[q] \notin HalfWritten
               PROVE  \/ Good(files'[g])
                      \/ ~ files'[g].magic /\ \E q \in Proc : file'[q] = g /\ pc'[q] = "fill"
    BY DEF FilesKeep
  <2>1. CASE g = f
    BY <2>1
  <2>2. CASE g # f
    <3>1. files'[g] = files[g] /\ g # NoFile
      BY <2>2, CellAssumption DEF OnlyFile
    <3>2. InUse(g)
      BY <1>1, <2>2, <3>1 DEF InUse, Stays
    <3>3. \A q \in Proc : file[q] = g => pc[q] \notin HalfWritten
      BY <1>1, <2>2 DEF Stays
    <3>4. \/ Good(files[g])
          \/ ~ files[g].magic /\ \E q \in Proc : file[q] = g /\ pc[q] = "fill"
      BY <3>2, <3>3 DEF Keeping, FilesKeep
    <3>5. ASSUME NEW q \in Proc, file[q] = g, pc[q] = "fill" PROVE file'[q] = g /\ pc'[q] = "fill"
      BY <1>1, <2>2, <3>5 DEF Stays
    <3>6. QED
      BY <3>1, <3>4, <3>5
  <2>3. QED
    BY <2>1, <2>2
<1>8. TableKeeps'
  BY <1>1 DEF TableKeeps, Keeping, Stays
<1>9. HalfWay'
  <2> SUFFICES ASSUME NEW q \in Proc PROVE HalfOK(q)'
    BY DEF HalfWay
  <2>1. CASE q = p
    <3>1. pc'[p] \notin HalfWritten => HalfOK(p)'
      BY DEF HalfOK, HalfWritten
    <3>2. QED
      BY <2>1, <3>1
  <2>2. CASE q # p
    <3>1. pc[q] \in HalfWritten => files'[file[q]] = files[file[q]]
      BY <1>2, <2>2 DEF OnlyFile
    <3>2. HalfOK(q) /\ Stays(q)
      BY <1>1, <2>2 DEF Keeping, HalfWay
    <3>3. QED
      BY <3>1, <3>2, HalfStays
  <2>3. QED
    BY <2>1, <2>2
<1>10. TornIsStaged'
  BY DEF TornIsStaged, Keeping
<1>11. QED
  BY <1>3, <1>4, <1>6, <1>7, <1>8, <1>9, <1>10 DEF Keeping

\* A '=' goes, and its tuple into the table.
LEMMA CutIs ==
    ASSUME NEW img \in Image, NEW i \in Position, Readable(img.cells[i]), NEW s
    PROVE  /\ ParseOK(img, "parse", i, s)
                => ParseOK(WithEq(img, i, FALSE), "cut", i, [s EXCEPT ![img.cells[i].name] = img.cells[i].value])
           /\ ParseOK(img, "reparse", i, s) => ParseOK(WithEq(img, i, FALSE), "recut", i, s)
<1> DEFINE out == WithEq(img, i, FALSE)
           new == [s EXCEPT ![img.cells[i].name] = img.cells[i].value]
<1>1. IsTuple(img.cells[i])
  BY DEF Readable
<1>2. /\ IsTuple(out.cells[i]) /\ ~ Readable(out.cells[i])
      /\ out.cells[i].name = img.cells[i].name /\ out.cells[i].value = img.cells[i].value
      /\ \A j \in Position : j # i => out.cells[j] = img.cells[j]
      /\ ListEnd(out) = ListEnd(img) /\ ListStore(out) = ListStore(img)
  BY <1>1, WithEqIs
<1> HIDE DEF out
<1>3. "parse" \notin Cutting /\ "reparse" \notin Cutting /\ "cut" \in Cutting /\ "recut" \in Cutting
  BY LabelSets
<1>4. ASSUME Keeps(ListStore(img)), \A j \in Position : IsTuple(img.cells[j]) => Readable(img.cells[j]),
             NEW l \in Cutting
      PROVE  /\ Keeps(ListStore(out)) /\ IsTuple(out.cells[i])
             /\ \A j \in Position : IsTuple(out.cells[j]) => (Readable(out.cells[j]) <=> ~ (l \in Cutting /\ j = i))
  BY <1>2, <1>4
<1>5. ASSUME ParseOK(img, "reparse", i, s) PROVE ParseOK(out, "recut", i, s)
  <2>1. Keeps(ListStore(img)) /\ \A j \in Position : IsTuple(img.cells[j]) => Readable(img.cells[j])
    BY <1>3, <1>5 DEF ParseOK
  <2>2. QED
    BY <1>3, <1>4, <2>1 DEF ParseOK
<1>6. ASSUME ParseOK(img, "parse", i, s) PROVE ParseOK(out, "cut", i, new)
  <2>1. Keeps(ListStore(img)) /\ \A j \in Position : IsTuple(img.cells[j]) => Readable(img.cells[j])
    BY <1>3, <1>6 DEF ParseOK
  <2>2. i < ListEnd(img)
    <3>1. i <= ListEnd(img) /\ i \in Nat /\ ListEnd(img) \in Position
      BY <1>6, ListEndIs, Sizes DEF ParseOK
    <3>2. i # ListEnd(img)
      BY <1>1, ListEndIs, ImageFields
    <3> DEFINE l == ListEnd(img)
    <3>3. l \in Nat
      BY <3>1, Sizes
    <3> HIDE DEF l
    <3>4. i <= l /\ i # l /\ i \in Nat
      BY <3>1, <3>2 DEF l
    <3>5. i < l
      BY <3>3, <3>4
    <3>6. QED
      BY <3>5 DEF l
  <2>3. new = StoreUpTo(out, i)
    <3>1. img.cells[i].name \in Name
      BY <1>1, CellFacts, ImageFields
    <3>2. s = StoreUpTo(img, i - 1)
      BY <1>6 DEF ParseOK
    <3>3. StoreUpTo(img, i) = [s EXCEPT ![img.cells[i].name] = img.cells[i].value]
      BY <3>1, <3>2, UpToNext
    <3>4. StoreUpTo(out, i) = StoreUpTo(img, i)
      <4>1. \A j \in 1 .. i : j \in Position
        BY Sizes
      <4>2. \A j \in 1 .. i : out.cells[j].name = img.cells[j].name /\ out.cells[j].value = img.cells[j].value
        BY <1>2, <4>1
      <4>3. i \in 0 .. Room + 1
        BY Sizes
      <4>4. QED
        BY <4>2, <4>3, SameUpTo
    <3>5. QED
      BY <3>3, <3>4
  <2> HIDE DEF new
  <2>4. QED
    BY <1>2, <1>3, <1>4, <2>1, <2>2, <2>3 DEF ParseOK
<1>7. QED
  BY <1>5, <1>6 DEF out, new

\* The '=' comes back.
LEMMA RestoredIs ==
    ASSUME NEW img \in Image, NEW i \in Position, NEW s, NEW label \in Cutting, ParseOK(img, label, i, s)
    PROVE  /\ IsTuple(img.cells[i]) /\ ~ Readable(img.cells[i])
           /\ label = "cut" => ParseOK(WithEq(img, i, TRUE), "parse", i + 1, s)
           /\ label = "recut" => ParseOK(WithEq(img, i, TRUE), "reparse", i + 1, s)
<1> DEFINE out == WithEq(img, i, TRUE)
<1>1. IsTuple(img.cells[i]) /\ ~ Readable(img.cells[i])
  BY DEF ParseOK
<1>2. /\ IsTuple(out.cells[i]) /\ Readable(out.cells[i])
      /\ out.cells[i].name = img.cells[i].name /\ out.cells[i].value = img.cells[i].value
      /\ \A j \in Position : j # i => out.cells[j] = img.cells[j]
      /\ ListEnd(out) = ListEnd(img) /\ ListStore(out) = ListStore(img)
  BY <1>1, WithEqIs
<1> HIDE DEF out
<1>3. "parse" \notin Cutting /\ "reparse" \notin Cutting
  BY LabelSets
<1>4. \A j \in Position : IsTuple(out.cells[j]) => Readable(out.cells[j])
  BY <1>2 DEF ParseOK
<1>5. Keeps(ListStore(out))
  BY <1>2 DEF ParseOK
<1>6. label = "recut" => ParseOK(out, "reparse", i + 1, s)
  BY <1>3, <1>4, <1>5 DEF ParseOK
<1>7. ASSUME label = "cut" PROVE ParseOK(out, "parse", i + 1, s)
  <2>1. i < ListEnd(img) /\ s = StoreUpTo(img, i) /\ i \in Nat /\ ListEnd(img) \in Nat
    BY <1>7, ListEndIs, Sizes DEF ParseOK
  <2>2. StoreUpTo(out, i) = StoreUpTo(img, i)
    <3>1. \A j \in 1 .. i : j \in Position
      BY Sizes
    <3>2. \A j \in 1 .. i : out.cells[j].name = img.cells[j].name /\ out.cells[j].value = img.cells[j].value
      BY <1>2, <3>1
    <3>3. i \in 0 .. Room + 1
      BY Sizes
    <3>4. QED
      BY <3>2, <3>3, SameUpTo
  <2>3. i + 1 <= ListEnd(img) /\ (i + 1) - 1 = i
    BY <2>1
  <2>4. i + 1 <= ListEnd(out) /\ s = StoreUpTo(out, (i + 1) - 1)
    BY <1>2, <2>1, <2>2, <2>3
  <2>5. QED
    BY <1>3, <1>4, <1>5, <2>4 DEF ParseOK
<1>8. QED
  BY <1>1, <1>6, <1>7 DEF out

\* A parser that finds no further '=' has all of the list.
LEMMA ParsedAll ==
    ASSUME NEW img \in Image, NEW i \in Position, NEW s, ParseOK(img, "parse", i, s), ~ Readable(img.cells[i])
    PROVE  s = ListStore(img) /\ i = ListEnd(img)
<1>1. ~ IsTuple(img.cells[i])
  BY LabelSets DEF ParseOK
<1>2. i <= ListEnd(img) /\ s = StoreUpTo(img, i - 1)
  BY DEF ParseOK
<1> DEFINE l == ListEnd(img)
<1>3. l \in Position /\ \A j \in 1 .. l - 1 : IsTuple(img.cells[j])
  BY ListEndIs
<1> HIDE DEF l
<1>4. i <= l /\ i \in Nat /\ l \in Nat /\ i >= 1
  BY <1>2, <1>3, Sizes DEF l
<1>5. ~ (i < l)
  <2> SUFFICES ASSUME i < l PROVE FALSE
    OBVIOUS
  <2>1. i \in 1 .. l - 1
    BY <1>4
  <2>2. QED
    BY <1>1, <1>3, <2>1
<1>6. i = l
  BY <1>4, <1>5
<1>7. QED
  BY <1>2, <1>6 DEF ListStore, l

\* The parser's own NUL: nobody else is half way through the file.
LEMMA KeepsCutEntry ==
    ASSUME Shape, Keeping, NEW p \in Proc, CutEntry(p)
    PROVE  Keeping'
<1>0. PICK f \in Inode : f = file[p]
  BY CutEntryIs
<1> DEFINE img == files[f]
           i == ptr[p]
<1>1. /\ Moves(p) /\ file'[p] = f /\ ptr'[p] = i /\ OnlyFile(f)
      /\ Readable(img.cells[i]) /\ files'[f] = WithEq(img, i, FALSE)
      /\ \/ pc[p] = "parse" /\ pc'[p] = "cut" /\ tuples'[p] = [tuples[p] EXCEPT ![img.cells[i].name] = img.cells[i].value]
         \/ pc[p] = "reparse" /\ pc'[p] = "recut" /\ tuples'[p] = tuples[p]
      /\ UNCHANGED <<flash, staging, flashTorn>>
  BY <1>0, CutEntryIs DEF Parsed
<1>2. /\ pc[p] \in HalfWritten /\ pc'[p] \in HalfWritten /\ pc'[p] \notin CopyPc /\ pc'[p] # "commit"
      /\ pc'[p] # "tuples" /\ pc'[p] # "fill_rest" /\ pc[p] # "save_rest" /\ pc'[p] # "save_rest"
      /\ pc[p] \in Parsing
  BY <1>1, LabelSets DEF HalfWritten
<1>3. \A q \in Proc \ {p} : file[q] = f => pc[q] \notin HalfWritten
  BY <1>0, <1>2 DEF Keeping, OneWriter
<1>4. HalfOK(p)'
  <2>1. ParseOK(img, pc[p], i, tuples[p]) /\ img \in Image /\ i \in Position
    BY <1>0, <1>2 DEF Keeping, HalfWay, HalfOK, Shape
  <2> HIDE DEF img, i
  <2>2. ParseOK(WithEq(img, i, FALSE), pc'[p], i, tuples'[p])
    <3>1. CASE pc[p] = "parse"
      <4>1. ParseOK(img, "parse", i, tuples[p]) /\ Readable(img.cells[i])
        BY <1>1, <2>1, <3>1
      <4>2. pc'[p] = "cut" /\ tuples'[p] = [tuples[p] EXCEPT ![img.cells[i].name] = img.cells[i].value]
        BY <1>1, <3>1
      <4>3. ParseOK(WithEq(img, i, FALSE), "cut", i, [tuples[p] EXCEPT ![img.cells[i].name] = img.cells[i].value])
        BY <2>1, <4>1, CutIs
      <4>4. QED
        BY <4>2, <4>3
    <3>2. CASE pc[p] = "reparse"
      <4>1. ParseOK(img, "reparse", i, tuples[p]) /\ Readable(img.cells[i])
        BY <1>1, <2>1, <3>2
      <4>2. pc'[p] = "recut" /\ tuples'[p] = tuples[p]
        BY <1>1, <3>2
      <4>3. QED
        BY <2>1, <4>1, <4>2, CutIs
    <3>3. QED
      BY <1>1, <3>1, <3>2
  <2>3. ParseOK(files'[file'[p]], pc'[p], ptr'[p], tuples'[p])
    BY <1>1, <2>2
  <2>4. QED
    BY <1>2, <2>3 DEF HalfOK
<1> HIDE DEF img, i
<1>5. QED
  BY <1>0, <1>1, <1>2, <1>3, <1>4, KeepsFile

\* It is taken back before anybody else comes.
LEMMA KeepsRestore ==
    ASSUME Shape, Keeping, NEW p \in Proc, Restore(p)
    PROVE  Keeping'
<1>0. PICK f \in Inode : f = file[p]
  BY RestoreIs
<1> DEFINE img == files[f]
           i == ptr[p]
<1>1. /\ Moves(p) /\ file'[p] = f /\ ptr'[p] = i + 1 /\ OnlyFile(f) /\ tuples'[p] = tuples[p]
      /\ IsTuple(img.cells[i]) /\ ~ Readable(img.cells[i]) => files'[f] = WithEq(img, i, TRUE)
      /\ pc[p] \in Cutting /\ (pc[p] = "cut" => pc'[p] = "parse") /\ (pc[p] = "recut" => pc'[p] = "reparse")
      /\ UNCHANGED <<flash, staging, flashTorn>>
  BY <1>0, RestoreIs DEF Parsed
<1>2. /\ pc[p] \in HalfWritten /\ pc'[p] \in HalfWritten /\ pc'[p] \notin CopyPc /\ pc'[p] # "commit"
      /\ pc'[p] # "tuples" /\ pc'[p] # "fill_rest" /\ pc[p] # "save_rest" /\ pc'[p] # "save_rest"
      /\ pc[p] \in Parsing /\ (pc[p] = "cut" \/ pc[p] = "recut")
  BY <1>1, LabelSets DEF HalfWritten
<1>3. \A q \in Proc \ {p} : file[q] = f => pc[q] \notin HalfWritten
  BY <1>0, <1>2 DEF Keeping, OneWriter
<1>4. HalfOK(p)'
  <2>1. ParseOK(img, pc[p], i, tuples[p]) /\ img \in Image /\ i \in Position
    BY <1>0, <1>2 DEF Keeping, HalfWay, HalfOK, Shape
  <2> HIDE DEF img, i
  <2>2. IsTuple(img.cells[i]) /\ ~ Readable(img.cells[i])
    BY <1>1, <2>1, RestoredIs
  <2>3. ParseOK(WithEq(img, i, TRUE), pc'[p], i + 1, tuples[p])
    BY <1>1, <1>2, <2>1, RestoredIs
  <2>4. ParseOK(files'[file'[p]], pc'[p], ptr'[p], tuples'[p])
    BY <1>1, <2>2, <2>3
  <2>5. QED
    BY <1>2, <2>4 DEF HalfOK
<1> HIDE DEF img, i
<1>5. QED
  BY <1>0, <1>1, <1>2, <1>3, <1>4, KeepsFile

\* The parsed table has what the file has, and the edits do not name it.
LEMMA KeepsParsed ==
    ASSUME Shape, Keeping, NEW p \in Proc, EndParse(p) \/ EndReparse(p)
    PROVE  Keeping'
<1>0. PICK f \in Inode : f = file[p]
  BY EndParseIs, EndReparseIs
<1>1. /\ Moves(p) /\ file'[p] \in {f, NoFile} /\ files' = files /\ OnlyFile(f) /\ UNCHANGED <<flash, staging, flashTorn>>
      /\ pc[p] \in {"parse", "reparse"} /\ ~ Readable(files[f].cells[ptr[p]])
      /\ pc'[p] \in {"idle", "commit", "save_read"}
      /\ pc'[p] = "commit" => pc[p] = "parse" /\ tuples'[p] = Edited(tuples[p], cmd[p])
  BY <1>0, EndParseIs, EndReparseIs DEF Parsed, OnlyFile
<1>2. /\ pc[p] \in HalfWritten /\ pc'[p] \notin HalfWritten /\ pc'[p] \notin CopyPc
      /\ pc'[p] # "tuples" /\ pc[p] # "save_rest" /\ pc'[p] # "save_rest"
      /\ pc[p] \in Parsing \ Cutting
  BY <1>1, LabelSets DEF HalfWritten
<1>3. \A q \in Proc \ {p} : file[q] = f => pc[q] \notin HalfWritten
  BY <1>0, <1>2 DEF Keeping, OneWriter
<1>4. Good(files[f])
  BY <1>0, <1>2, ParsedGood DEF Keeping, HalfWay
<1>5. ASSUME pc'[p] = "commit" PROVE Keeps(tuples'[p])
  <2>1. ParseOK(files[f], "parse", ptr[p], tuples[p]) /\ files[f] \in Image /\ ptr[p] \in Position
    BY <1>0, <1>1, <1>2, <1>5 DEF Keeping, HalfWay, HalfOK, Shape
  <2>2. tuples[p] = ListStore(files[f])
    BY <1>1, <2>1, ParsedAll
  <2>3. \A n \in Bystander : n \in Name /\ n \notin DOMAIN cmd[p].edits
    BY DEF Bystander, Shape
  <2>4. \A n \in Bystander : tuples'[p][n] = tuples[p][n]
    BY <1>1, <1>5, <2>3 DEF Edited
  <2>5. QED
    BY <1>4, <2>2, <2>4 DEF Good, Keeps
<1>6. QED
  BY <1>0, <1>1, <1>2, <1>3, <1>4, <1>5, KeepsFile

\* Nobody is killed half way through a file, except where no '=' is out.
LEMMA KeepsKill ==
    ASSUME Shape, Keeping, NEW p \in Proc, Kill(p), trouble' \subseteq {"update"}
    PROVE  Keeping'
<1>1. /\ Moves(p) /\ pc'[p] = "idle" /\ file'[p] = NoFile /\ UNCHANGED <<flash, files, staging>>
      /\ flashTorn' = (flashTorn \/ Saving(p))
      /\ pc[p] # "tuples" /\ pc[p] # "fill" /\ pc[p] # "fill_rest" /\ pc[p] \notin Cutting
      /\ ~ (Saving(p) /\ staging = NoFile)
  BY KillIs
<1>2. flashTorn' => staging # NoFile
  BY <1>1 DEF Keeping, TornIsStaged
<1>3. /\ pc'[p] # "save_rest" /\ pc'[p] # "commit" /\ pc'[p] # "tuples" /\ pc'[p] \notin CopyPc
      /\ pc'[p] \notin HalfWritten
  BY <1>1, LabelSets DEF HalfWritten
<1>4. CASE pc[p] \notin HalfWritten
  BY <1>1, <1>2, <1>3, <1>4, KeepsStill
<1>5. CASE pc[p] \in HalfWritten
  <2>1. pc[p] \in Parsing \ Cutting /\ pc[p] # "save_rest" /\ ~ Saving(p)
    BY <1>1, <1>5, LabelSets DEF HalfWritten
  <2>2. PICK f \in Inode : f = file[p]
    BY <2>1, HasFile, LabelSets
  <2>3. Good(files'[f])
    BY <1>1, <2>1, <2>2, ParsedGood DEF Keeping, HalfWay
  <2>4. \A q \in Proc \ {p} : file[q] = f => pc[q] \notin HalfWritten
    BY <1>5, <2>2 DEF Keeping, OneWriter
  <2>5. OnlyFile(f)
    BY <1>1 DEF OnlyFile
  <2>6. flashTorn' <=> flashTorn
    BY <1>1, <2>1
  <2>7. QED
    BY <1>1, <1>3, <2>1, <2>2, <2>3, <2>4, <2>5, <2>6, KeepsFile
<1>6. QED
  BY <1>4, <1>5

\* The first part of a copy begins with nobody else in the file.
LEMMA KeepsFill ==
    ASSUME Shape, Keeping, NEW p \in Proc, Fill(p), trouble' \subseteq {"update"}
    PROVE  Keeping'
<1>0. PICK f \in Inode : f = file[p]
  BY FillIs
<1>1. /\ Moves(p) /\ pc[p] = "fill" /\ pc'[p] = "fill_rest" /\ file'[p] = f /\ buf'[p] = buf[p]
      /\ buf[p] \in Image /\ files'[f] = FirstPart(files[f], buf[p])
      /\ OnlyFile(f) /\ UNCHANGED <<flash, staging, flashTorn>> /\ ~ SomeoneIn(f, p)
  BY <1>0, FillIs
<1>2. \A q \in Proc \ {p} : file[q] = f => pc[q] \notin HalfWritten
  BY <1>1, NobodyHalfWay
<1>3. pc[p] \in CopyPc /\ pc'[p] \in HalfWritten
  BY <1>1, LabelSets DEF HalfWritten
<1>4. HalfOK(p)'
  <2>1. files[f] \in Image
    BY DEF Shape
  <2>2. FirstCopied(files'[f], buf'[p])
    BY <1>1, <2>1, FirstPartIs DEF FirstCopied
  <2>3. pc'[p] # "tuples" /\ pc'[p] \notin Parsing
    BY <1>1, LabelSets
  <2>4. QED
    BY <1>1, <2>2, <2>3 DEF HalfOK
<1>5. pc'[p] # "commit" /\ pc'[p] # "tuples" /\ pc'[p] # "save_rest" /\ pc[p] # "save_rest"
  BY <1>1
<1>6. QED
  BY <1>0, <1>1, <1>2, <1>3, <1>4, <1>5, KeepsFile

\* The second part makes the file the buffer.
LEMMA KeepsFillRest ==
    ASSUME Shape, Keeping, NEW p \in Proc, FillRest(p), trouble' \subseteq {"update"}
    PROVE  Keeping'
<1>0. PICK f \in Inode : f = file[p]
  BY FillRestIs
<1>1. /\ Moves(p) /\ pc[p] = "fill_rest" /\ buf[p] \in Image
      /\ pc'[p] = "open" /\ file'[p] = NoFile
      /\ files'[f] = RestPart(files[f], buf[p]) /\ OnlyFile(f)
      /\ UNCHANGED <<flash, staging, flashTorn>> /\ ~ SomeoneIn(f, p)
  BY <1>0, FillRestIs
<1>2. \A q \in Proc \ {p} : file[q] = f => pc[q] \notin HalfWritten
  BY <1>1, NobodyHalfWay
<1>3. FirstCopied(files[f], buf[p]) /\ Good(buf[p])
  BY <1>0, <1>1, LabelSets DEF Keeping, CopyKeeps, HalfWay, HalfOK
<1>4. Good(files'[f])
  <2>1. files[f] \in Image
    BY DEF Shape
  <2>2. QED
    BY <1>1, <1>3, <2>1, CopyGood
<1>5. /\ pc'[p] \notin CopyPc /\ pc'[p] \notin HalfWritten /\ pc'[p] # "commit" /\ pc'[p] # "tuples"
      /\ pc[p] # "save_rest" /\ pc'[p] # "save_rest"
  BY <1>1, LabelSets DEF HalfWritten
<1>6. QED
  BY <1>0, <1>1, <1>2, <1>4, <1>5, KeepsFile

\* A commit begins with nobody else in the file.
LEMMA KeepsClear ==
    ASSUME Shape, Keeping, NEW p \in Proc, Clear(p), trouble' \subseteq {"update"}
    PROVE  Keeping'
<1>0. PICK f \in Inode : f = file[p]
  BY ClearIs
<1>1. /\ Moves(p) /\ pc[p] = "commit" /\ OnlyFile(f) /\ UNCHANGED <<flash, staging, flashTorn>>
      /\ files'[f] = Cleared(files[f]) /\ ~ Short(files[f])
      /\ pc'[p] = "tuples" /\ file'[p] = f /\ ptr'[p] = 1 /\ tuples' = tuples /\ todo'[p] = Listed(tuples[p])
      /\ ~ SomeoneIn(f, p)
  BY <1>0, ClearIs
<1>2. \A q \in Proc \ {p} : file[q] = f => pc[q] \notin HalfWritten
  BY <1>1, NobodyHalfWay
<1>3. WrittenSoFar(files'[f], ptr'[p], tuples'[p], todo'[p])
  <2>1. files[f] \in Image
    BY DEF Shape
  <2>2. WrittenSoFar(Cleared(files[f]), 1, tuples[p], Listed(tuples[p]))
    BY <1>1, <2>1, ClearedIsWritten
  <2>3. QED
    BY <1>1, <2>2
<1>4. /\ pc'[p] \notin CopyPc /\ pc'[p] \in HalfWritten /\ pc'[p] # "fill_rest" /\ pc'[p] \notin Parsing
      /\ pc[p] # "save_rest" /\ pc'[p] # "save_rest"
  BY <1>1, LabelSets DEF HalfWritten
<1>5. HalfOK(p)'
  BY <1>1, <1>3, <1>4 DEF HalfOK
<1>6. Keeps(tuples'[p])
  BY <1>1 DEF Keeping, TableKeeps
<1>7. QED
  BY <1>0, <1>1, <1>2, <1>4, <1>5, <1>6, KeepsFile

\* The list goes on as the table has it.
LEMMA KeepsWriteTuple ==
    ASSUME Shape, Keeping, NEW p \in Proc, WriteTuple(p), trouble' \subseteq {"update"}
    PROVE  Keeping'
<1>0. PICK f \in Inode : f = file[p]
  BY WriteTupleIs
<1> DEFINE n == Head(todo[p])
<1>1. /\ Moves(p) /\ pc[p] = "tuples" /\ pc'[p] = "tuples" /\ file'[p] = f /\ OnlyFile(f)
      /\ todo[p] # <<>> /\ todo'[p] = Tail(todo[p]) /\ tuples[p][n] \in Value
      /\ ptr[p] <= Room /\ ptr'[p] = ptr[p] + 1 /\ tuples' = tuples
      /\ files'[f] = WithTuple(files[f], ptr[p], n, tuples[p][n])
      /\ UNCHANGED <<flash, staging, flashTorn>>
  BY <1>0, WriteTupleIs
<1>2. pc'[p] \notin CopyPc /\ pc'[p] \in HalfWritten /\ pc[p] \in HalfWritten
      /\ pc'[p] # "fill_rest" /\ pc'[p] \notin Parsing /\ pc[p] # "save_rest" /\ pc'[p] # "save_rest"
  BY <1>1, LabelSets DEF HalfWritten
<1>3. \A q \in Proc \ {p} : file[q] = f => pc[q] \notin HalfWritten
  BY <1>0, <1>2 DEF Keeping, OneWriter
<1>4. WrittenSoFar(files'[f], ptr'[p], tuples'[p], todo'[p])
  <2>1. files[f] \in Image /\ ptr[p] \in Position /\ tuples[p] \in Store /\ todo[p] \in Seq(Name)
    BY DEF Shape
  <2>2. WrittenSoFar(files[f], ptr[p], tuples[p], todo[p])
    BY <1>0, <1>1 DEF Keeping, HalfWay, HalfOK
  <2>3. WrittenSoFar(WithTuple(files[f], ptr[p], n, tuples[p][n]), ptr[p] + 1, tuples[p], Tail(todo[p]))
    BY <1>1, <2>1, <2>2, OneMoreWritten
  <2>4. QED
    BY <1>1, <2>3
<1> HIDE DEF n
<1>5. HalfOK(p)'
  BY <1>1, <1>2, <1>4 DEF HalfOK
<1>6. Keeps(tuples'[p])
  BY <1>1 DEF Keeping, TableKeeps
<1>7. QED
  BY <1>0, <1>1, <1>2, <1>3, <1>5, <1>6, KeepsFile

\* A list written to its end has what the table has.
LEMMA KeepsEndList ==
    ASSUME Shape, Keeping, NEW p \in Proc, EndList(p)
    PROVE  Keeping'
<1>0. PICK f \in Inode : f = file[p]
  BY EndListIs
<1>1. /\ Moves(p) /\ pc[p] = "tuples" /\ file'[p] = f /\ todo[p] = <<>> /\ ptr'[p] = 1
      /\ files'[f] = Ended(files[f], ptr[p]) /\ OnlyFile(f) /\ pc'[p] = "reparse"
      /\ UNCHANGED <<flash, staging, flashTorn>>
  BY <1>0, EndListIs
<1>2. /\ pc'[p] \notin CopyPc /\ pc'[p] \in HalfWritten /\ pc[p] \in HalfWritten
      /\ pc'[p] # "commit" /\ pc'[p] # "tuples" /\ pc'[p] # "save_rest" /\ pc[p] # "save_rest"
      /\ pc'[p] # "fill_rest" /\ pc'[p] \notin Cutting
  BY <1>1, LabelSets DEF HalfWritten
<1>3. \A q \in Proc \ {p} : file[q] = f => pc[q] \notin HalfWritten
  BY <1>0, <1>2 DEF Keeping, OneWriter
<1>4. Good(files'[f])
  <2>1. files[f] \in Image /\ ptr[p] \in Position /\ tuples[p] \in Store
    BY DEF Shape
  <2>2. WrittenSoFar(files[f], ptr[p], tuples[p], <<>>) /\ Keeps(tuples[p])
    BY <1>0, <1>1 DEF Keeping, HalfWay, HalfOK, TableKeeps
  <2>3. ListStore(Ended(files[f], ptr[p])) = tuples[p] /\ AllRead(Ended(files[f], ptr[p]))
    BY <2>1, <2>2, EndedIsWhole
  <2>4. QED
    BY <1>1, <2>2, <2>3 DEF Good
<1>5. HalfOK(p)'
  <2>1. ParseOK(files'[f], "reparse", ptr'[p], tuples'[p])
    BY <1>1, <1>2, <1>4 DEF ParseOK, Good, AllRead, Readable
  <2>2. QED
    BY <1>1, <1>2, <2>1 DEF HalfOK
<1>6. QED
  BY <1>0, <1>1, <1>2, <1>3, <1>5, KeepsFile

\* A write of the partition leaves the files alone.
LEMMA KeepsFlash ==
    ASSUME Shape, Keeping, NEW p \in Proc, Moves(p), file'[p] = NoFile, file[p] = NoFile,
           files' = files, staging' = staging,
           pc[p] \notin FilePc, pc'[p] \notin FilePc,
           pc'[p] \in CopyPc => pc[p] \in CopyPc /\ buf'[p] = buf[p],
           \A q \in Proc \ {p} : ~ Saving(q),
           ~ flashTorn' /\ pc'[p] # "save_rest" => Good(flash'),
           flashTorn' => staging # NoFile
    PROVE  Keeping'
<1>1. \A q \in Proc \ {p} : Stays(q)
  BY DEF Moves
<1>2. \A q \in Proc : file'[q] = file[q]
  BY <1>1 DEF Stays
<1>3. \A q \in Proc : (pc[q] \in FilePc \/ pc'[q] \in FilePc) => q # p
  OBVIOUS
<1>4. OneWriter'
  BY <1>1, <1>2, LabelSets DEF OneWriter, Keeping, HalfWritten, Stays
<1>5. CopyKeeps'
  BY <1>1 DEF CopyKeeps, Keeping, Stays
<1>6. FlashKeeps'
  <2>1. pc'[p] = "save_rest" => SaverNow'
    BY DEF SaverNow, Saving
  <2>2. QED
    BY <2>1 DEF FlashKeeps
<1>7. FilesKeep'
  <2> SUFFICES ASSUME NEW f \in Inode, InUse(f)', \A q \in Proc : file'[q] = f => pc'[q] \notin HalfWritten
               PROVE  \/ Good(files'[f])
                      \/ ~ files'[f].magic /\ \E q \in Proc : file'[q] = f /\ pc'[q] = "fill"
    BY DEF FilesKeep
  <2>1. InUse(f) /\ \A q \in Proc : file[q] = f => q # p
    BY <1>2, CellAssumption DEF InUse
  <2>2. \A q \in Proc : file[q] = f => pc[q] \notin HalfWritten
    BY <1>1, <1>2, <2>1 DEF Stays
  <2>3. \/ Good(files[f])
        \/ ~ files[f].magic /\ \E q \in Proc : file[q] = f /\ pc[q] = "fill"
    BY <2>1, <2>2 DEF Keeping, FilesKeep
  <2>4. QED
    BY <1>1, <1>2, <2>1, <2>3 DEF Stays
<1>8. TableKeeps'
  BY <1>1, LabelSets DEF TableKeeps, Keeping, Stays
<1>11. HalfWay'
  <2> SUFFICES ASSUME NEW q \in Proc PROVE HalfOK(q)'
    BY DEF HalfWay
  <2>1. CASE q = p
    <3>1. pc'[p] \notin HalfWritten
      BY LabelSets DEF HalfWritten
    <3>2. pc'[p] \notin HalfWritten => HalfOK(p)'
      BY DEF HalfOK, HalfWritten
    <3>3. QED
      BY <2>1, <3>1, <3>2
  <2>2. CASE q # p
    <3>1. HalfOK(q) /\ Stays(q)
      BY <1>1, <2>2 DEF Keeping, HalfWay
    <3>2. QED
      BY <3>1, HalfStays
  <2>3. QED
    BY <2>1, <2>2
<1>9. TornIsStaged'
  BY DEF TornIsStaged
<1>10. QED
  BY <1>4, <1>5, <1>6, <1>7, <1>8, <1>9, <1>11 DEF Keeping

\* The first part of the partition's write.
LEMMA KeepsSave ==
    ASSUME Shape, Keeping, NEW p \in Proc, Save(p), trouble' \subseteq {"update"}
    PROVE  Keeping'
<1>1. /\ Moves(p) /\ pc[p] = "save" /\ pc'[p] = "save_rest" /\ file'[p] = NoFile /\ file' = file /\ buf' = buf
      /\ UNCHANGED <<files, staging, flashTorn>> /\ ~ \E q \in Proc \ {p} : Saving(q)
  BY SaveIs
<1>2. pc[p] \notin FilePc /\ pc'[p] \notin FilePc /\ file[p] = NoFile /\ pc[p] \in CopyPc
      /\ (flashTorn' => staging # NoFile)
  BY <1>1, LabelSets DEF Keeping, TornIsStaged
<1>3. QED
  BY <1>1, <1>2, KeepsFlash

\* The second part makes the partition the buffer.
LEMMA KeepsSaveRest ==
    ASSUME Shape, Ends, Keeping, NEW p \in Proc, SaveRest(p), trouble' \subseteq {"update"}
    PROVE  Keeping'
<1>1. /\ Moves(p) /\ pc[p] = "save_rest" /\ pc'[p] = "unlink" /\ file'[p] = NoFile /\ file' = file
      /\ buf[p] \in Image /\ UNCHANGED <<files, staging>>
      /\ ~ flashTorn' /\ flash' = RestPart(flash, buf[p])
  BY SaveRestIs
<1>2. FirstCopied(flash, buf[p]) /\ Good(buf[p]) /\ Saving(p)
  BY <1>1, LabelSets DEF Ends, SaveBegun, Keeping, CopyKeeps
<1>3. Good(flash')
  <2>1. flash \in Image
    BY DEF Shape
  <2>2. QED
    BY <1>1, <1>2, <2>1, CopyGood
<1>4. \A q \in Proc \ {p} : ~ Saving(q)
  BY <1>2 DEF Ends, OneSaver
<1>5. pc[p] \notin FilePc /\ pc'[p] \notin FilePc /\ pc'[p] \notin CopyPc /\ file[p] = NoFile
  BY <1>1, LabelSets
<1>6. QED
  BY <1>1, <1>3, <1>4, <1>5, KeepsFlash

KeepingOK == trouble \subseteq {"update"} => Keeping

\* KeepingOK holds at first.
LEMMA KeepsInit == Init => KeepingOK
<1> SUFFICES ASSUME Init PROVE Keeping
  BY DEF KeepingOK
<1>1. \A p \in Proc : pc[p] = "idle" /\ file[p] = NoFile
  BY DEF Init
<1>2. flash = ImageOf(FirstStore) /\ staging = NoFile /\ flashTorn = FALSE
  BY DEF Init
<1>3. \A p \in Proc : pc[p] \notin CopyPc /\ pc[p] \notin HalfWritten
  BY <1>1, LabelSets DEF HalfWritten
<1>4. \A f \in Inode : ~ InUse(f)
  BY <1>1, <1>2, CellAssumption DEF InUse
<1>5. Good(flash)
  BY <1>2, ImageOfFirst DEF Good, Keeps
<1>6. HalfWay
  BY <1>3, NotHalf DEF HalfWay
<1>7. TableKeeps
  BY <1>1 DEF TableKeeps
<1>8. QED
  BY <1>1, <1>2, <1>3, <1>4, <1>5, <1>6, <1>7 DEF Keeping, OneWriter, CopyKeeps, FlashKeeps, FilesKeep,
                                                  TornIsStaged

\* Every step keeps KeepingOK.
LEMMA KeepsNext == Shape /\ EndsOK /\ KeepingOK /\ [Next]_vars => KeepingOK'
<1> SUFFICES ASSUME Shape, EndsOK, KeepingOK, [Next]_vars, trouble' \subseteq {"update"} PROVE Keeping'
  BY DEF KeepingOK
<1>1. CASE UNCHANGED vars
  <2>1. UNCHANGED <<flash, files, staging, pc, cmd, file, tuples, todo, ptr, buf, trouble, flashTorn>>
    BY <1>1 DEF vars, process, history
  <2>2. Keeping
    BY <2>1 DEF KeepingOK
  <2>3. QED
    BY <2>1, <2>2 DEF Keeping, OneWriter, CopyKeeps, FlashKeeps, FilesKeep, TableKeeps,
                      HalfWay, HalfOK, TornIsStaged, InUse, SaverNow, Saving
<1>2. CASE Next
  <2>1. Keeping /\ Ends
    BY <1>2, TroubleStays DEF KeepingOK, EndsOK
  <2>2. CASE PowerLoss
    BY <2>1, <2>2, KeepsPowerLoss
  <2>3. ASSUME NEW p \in Proc, Step(p) PROVE Keeping'
    <3>1. CASE Start(p) \/ FindForReading(p) \/ OpenReading(p) \/ ReadRest(p) \/ Close(p) \/ FindStaging(p)
      BY <2>1, <3>1, KeepsReadSteps
    <3>2. CASE ReadFlash(p) \/ CreateStaging(p) \/ Fill(p) \/ FillRest(p) \/ OpenStaging(p)
      BY <2>1, <3>2, KeepsReadFlash, KeepsCreate, KeepsFill, KeepsFillRest, KeepsOpenStaging
    <3>3. CASE Clear(p) \/ WriteTuple(p) \/ EndList(p)
      BY <2>1, <3>3, KeepsClear, KeepsWriteTuple, KeepsEndList
    <3>6. CASE CutEntry(p) \/ Restore(p) \/ EndParse(p) \/ EndReparse(p)
      BY <2>1, <3>6, KeepsCutEntry, KeepsRestore, KeepsParsed
    <3>4. CASE ReadStaging(p) \/ Save(p) \/ SaveRest(p) \/ Unlink(p) \/ Kill(p)
      BY <2>1, <3>4, KeepsReadStaging, KeepsSave, KeepsSaveRest, KeepsUnlink, KeepsKill
    <3>5. QED
      BY <2>3, <3>1, <3>2, <3>3, <3>4, <3>6 DEF Step
  <2>4. QED
    BY <1>2, <2>2, <2>3 DEF Next
<1>3. QED
  BY <1>1, <1>2

\* Where nobody writes nobody is on the way to write.
LEMMA QuietNow == ASSUME Shape, Quiet PROVE \A p \in Proc : pc[p] \notin WriterPc
<1> SUFFICES ASSUME NEW p \in Proc, pc[p] \in WriterPc PROVE FALSE
  OBVIOUS
<1>1. pc[p] \in EditPc \cup SavingPc
  BY DEF WriterPc, EditPc, CopyPc, SavingPc, FilePc, Parsing, Cutting
<1>2. cmd[p].write \/ cmd[p].commit
  BY <1>1 DEF Shape, HandleOK
<1>3. Running(p)
  BY PcSets DEF Running
<1>4. QED
  BY <1>2, <1>3 DEF Quiet, Writes

\* BystandersKept: a variable no command names keeps its value through lost updates, kills and power cuts, as
\* long as commits, copies and parses of the staging file neither interleave nor are cut short.
THEOREM BystandersAlwaysKept == Spec => []BystandersKept
<1>1. Shape /\ KeepingOK => BystandersKept
  <2> SUFFICES ASSUME Shape, KeepingOK, Quiet, trouble \subseteq {"update"} PROVE Keeps(StoreOf(Current))
    BY DEF BystandersKept, Keeps, Bystander
  <2>1. Keeping
    BY DEF KeepingOK
  <2>2. \A p \in Proc : pc[p] \notin WriterPc
    BY QuietNow
  <2>3. \A p \in Proc : pc[p] \notin HalfWritten /\ pc[p] # "fill" /\ ~ Saving(p)
    <3> SUFFICES ASSUME NEW p \in Proc PROVE pc[p] \notin HalfWritten /\ pc[p] # "fill" /\ ~ Saving(p)
      OBVIOUS
    <3>1. pc[p] \notin FilePc /\ pc[p] \notin SavingPc
      BY <2>2, PcSets DEF WriterPc
    <3>2. QED
      BY <3>1, LabelSets DEF HalfWritten
  <2>4. Good(Current)
    <3>1. CASE staging # NoFile
      <4>1. staging \in Inode
        BY <3>1 DEF Shape
      <4>2. Good(files[staging])
        BY <2>1, <2>3, <4>1 DEF Keeping, FilesKeep, InUse
      <4>3. QED
        BY <3>1, <4>2 DEF Current
    <3>2. CASE staging = NoFile
      <4>1. Good(flash)
        BY <2>1, <2>3, <3>2 DEF Keeping, FlashKeeps, TornIsStaged, SaverNow
      <4>2. QED
        BY <3>2, <4>1 DEF Current
    <3>3. QED
      BY <3>1, <3>2
  <2>5. QED
    BY <2>4, ReadAll DEF Good
<1>2. QED
  BY <1>1, ShapeInit, ShapeNext, EndsInit, EndsNext, KeepsInit, KeepsNext, PTL DEF Spec


-----------------------------------------------------------------------------
(***************************************************************************)
(* Writers that run one at a time.                                         *)
(***************************************************************************)
Writing(p) == Running(p) /\ Writes(cmd[p])
OneWriting == \A p, q \in Proc : Writing(p) /\ Writing(q) => p = q

\* What the writer has in hand is a store the variables may have, before or after its command.
WriterOK(p) ==
    /\ pc[p] \in {"read_flash", "create"} => staging = NoFile
    /\ pc[p] \in FilePc => file[p] = staging
    /\ pc[p] \in {"open", "save", "save_rest", "unlink"} => staging # NoFile
    /\ pc[p] \in {"create", "fill", "fill_rest"} => ListStore(buf[p]) \in may
    /\ pc[p] \in {"commit", "tuples"} => tuples[p] \in After(p)
    /\ pc[p] \in {"reparse", "recut"} => ListStore(files[staging]) \in After(p)
    /\ pc[p] \in {"save", "save_rest"} => ListStore(buf[p]) \in After(p)
    /\ pc[p] = "unlink" => ~ flashTorn /\ ListStore(flash) \in After(p)
    /\ pc[p] \in SavingPc /\ staging # NoFile => ListStore(files[staging]) \in After(p)

\* A reader may be told what the variables were or are, or will be when the writer is done; anything, if
\* somebody writes where it reads.
ReaderOK(r) ==
    /\ may \subseteq seen[r]
    /\ \A p \in Proc : pc[p] \in WriterPc => After(p) \subseteq seen[r]
    /\ pc[r] = "open_flash_rdonly" /\ ~ flashTorn /\ ~ SaverNow => ListStore(flash) \in seen[r]
    /\ pc[r] = "read_rest" => Store \subseteq seen[r] \/ (AllRead(buf[r]) /\ ListStore(buf[r]) \in seen[r])
    /\ pc[r] = "got" => tuples[r] \in seen[r]

Unsettled == {"fill", "fill_rest", "tuples", "reparse", "recut"} \cup SavingPc
StagedExpected ==
    staging # NoFile /\ (\A p \in Proc : pc[p] \notin Unsettled) => ListStore(files[staging]) \in may
FlashExpected == staging = NoFile => ListStore(flash) \in may
PartitionExpected ==
    ~ flashTorn /\ (\A p \in Proc : pc[p] \notin {"save_rest", "unlink"}) => ListStore(flash) \in maySaved

Alone ==
    /\ OneWriting
    /\ \A p \in Proc : pc[p] \in WriterPc => WriterOK(p)
    /\ StagedExpected /\ FlashExpected /\ PartitionExpected
    /\ \A r \in Proc : pc[r] \in ReaderPc => ReaderOK(r)

\* The places of readers and writers, listed.
LEMMA MoreLabels ==
    /\ ReaderPc = {"find_rdonly", "open_staging_rdonly", "open_flash_rdonly", "read_rest", "got"}
    /\ WriterPc = {"find", "read_flash", "open", "create", "fill", "fill_rest", "parse", "cut", "commit",
                   "tuples", "reparse", "recut", "save_read", "save", "save_rest", "unlink"}
    /\ Pc = {"idle"} \cup ReaderPc \cup WriterPc
    /\ \A l \in ReaderPc : l \notin WriterPc
    /\ \A l \in Unsettled : l \in WriterPc
    /\ \A r : Reading(r) <=> pc[r] \in ReaderPc
BY DEF ReaderPc, WriterPc, EditPc, Pc, FilePc, CopyPc, SavingPc, Unsettled, Parsing, Cutting, Reading

\* A command that only reads asks for nothing.
LEMMA ReadAsksNothing ==
    ASSUME Shape, NEW p \in Proc, pc[p] \in ReaderPc
    PROVE  After(p) = may
<1>1. cmd[p] \in Command /\ ~ cmd[p].write /\ may \subseteq Store
  BY DEF Shape, HandleOK
<1>2. DOMAIN cmd[p].edits = {}
  BY <1>1, CommandFacts
<1>3. ASSUME NEW s \in Store PROVE Asked(s, cmd[p]) = s
  <2>1. Asked(s, cmd[p]) = [n \in Name |-> s[n]]
    BY <1>2 DEF Asked
  <2>2. QED
    BY <2>1 DEF Store
<1>4. \A s \in may : Asked(s, cmd[p]) = s
  BY <1>1, <1>3
<1>5. QED
  BY <1>4 DEF After

\* What there may be after a command only depends on the command and on what there may be.
LEMMA AfterSame ==
    ASSUME NEW p \in Proc, cmd'[p] = cmd[p], may' = may
    PROVE  After(p)' = After(p)
BY DEF After

\* A step from and to other places starts and ends no write of the partition.
LEMMA SaverSame ==
    ASSUME NEW p \in Proc, Moves(p), pc[p] # "save_rest", pc'[p] # "save_rest"
    PROVE  SaverNow' <=> SaverNow
<1>1. \A q \in Proc : pc'[q] = "save_rest" <=> pc[q] = "save_rest"
  BY DEF Moves, Stays
<1>2. QED
  BY <1>1 DEF SaverNow, Saving

\* Who is on the way to write runs a command that writes.
LEMMA WritersWrite ==
    ASSUME Shape, NEW w \in Proc, pc[w] \in WriterPc
    PROVE  Writing(w)
<1>1. pc[w] \in EditPc => cmd[w].write
  BY DEF Shape, HandleOK
<1>2. pc[w] \in SavingPc => cmd[w].commit
  BY DEF Shape, HandleOK
<1>3. pc[w] \in EditPc \cup SavingPc /\ pc[w] # "idle"
  BY PcSets, LabelSets DEF WriterPc, EditPc
<1>4. QED
  BY <1>1, <1>2, <1>3 DEF Writing, Running, Writes

\* With one writer nobody else is on the way to write.
LEMMA OnlyOne ==
    ASSUME Shape, Alone, NEW p \in Proc, Writing(p)
    PROVE  \A q \in Proc \ {p} : ~ Writing(q) /\ pc[q] \notin WriterPc
<1>1. \A q \in Proc \ {p} : ~ Writing(q)
  BY DEF Alone, OneWriting
<1>2. QED
  BY <1>1, WritersWrite

\* Whether a process writes depends on what it runs.
LEMMA WritingSame ==
    ASSUME NEW q \in Proc, Stays(q)
    PROVE  Writing(q)' <=> Writing(q)
BY DEF Stays, Writing, Running

\* A step of a process that is no writer.
LEMMA AloneReader ==
    ASSUME Shape, Alone, NEW p \in Proc, Moves(p), pc[p] \notin WriterPc,
           pc'[p] \in WriterPc => /\ pc'[p] = "save_read" /\ WriterOK(p)' /\ After(p)' = may /\ Writing(p),
           UNCHANGED <<flash, files, staging, may>>, maySaved \subseteq maySaved', flashTorn' <=> flashTorn,
           Writing(p)' => Writing(p) \/ \A q \in Proc : ~ Writing(q),
           \A r \in Proc \ {p} : pc[r] \in ReaderPc => seen[r] \subseteq seen'[r],
           pc'[p] \in ReaderPc => ReaderOK(p)'
    PROVE  Alone'
<1>1. \A q \in Proc \ {p} : Stays(q) /\ After(q)' = After(q)
  BY AfterSame DEF Moves, Stays
<1>2. \A l \in {"save_rest", "unlink"} \cup Unsettled : l \in WriterPc
  BY MoreLabels, LabelSets
<1>3. pc[p] # "save_rest" /\ pc'[p] \notin {"save_rest", "unlink"}
  BY <1>2
<1>4. SaverNow' <=> SaverNow
  BY <1>3, SaverSame
<1>5. OneWriting'
  <2>1. \A q \in Proc \ {p} : Writing(q)' <=> Writing(q)
    BY <1>1, WritingSame
  <2>2. QED
    BY <2>1 DEF Alone, OneWriting
<1>6. ASSUME NEW q \in Proc, q # p, pc'[q] \in WriterPc PROVE WriterOK(q)'
  <2>1. pc[q] \in WriterPc
    BY <1>1, <1>6 DEF Stays
  <2>2. WriterOK(q)
    BY <2>1 DEF Alone
  <2>3. pc'[q] = pc[q] /\ file'[q] = file[q] /\ buf'[q] = buf[q] /\ tuples'[q] = tuples[q] /\ After(q)' = After(q)
    BY <1>1, <1>6 DEF Stays
  <2>4. QED
    BY <2>2, <2>3 DEF WriterOK
<1>7. StagedExpected'
  <2>1. (\A q \in Proc : pc'[q] \notin Unsettled) => \A q \in Proc : pc[q] \notin Unsettled
    BY <1>1, <1>2 DEF Stays
  <2>2. QED
    BY <2>1 DEF Alone, StagedExpected
<1>8. FlashExpected' /\ PartitionExpected'
  <2>1. \A q \in Proc : pc'[q] \in {"save_rest", "unlink"} <=> pc[q] \in {"save_rest", "unlink"}
    BY <1>1, <1>2, <1>3 DEF Stays
  <2>2. PartitionExpected'
    BY <2>1 DEF Alone, PartitionExpected
  <2>3. QED
    BY <2>2 DEF Alone, FlashExpected
<1>9. ASSUME NEW r \in Proc, r # p, pc'[r] \in ReaderPc PROVE ReaderOK(r)'
  <2>1. pc'[r] = pc[r] /\ tuples'[r] = tuples[r] /\ buf'[r] = buf[r] /\ pc[r] \in ReaderPc /\ seen[r] \subseteq seen'[r]
    BY <1>1, <1>9 DEF Stays
  <2>2. ReaderOK(r)
    BY <2>1 DEF Alone
  <2>3. ASSUME NEW q \in Proc, pc'[q] \in WriterPc PROVE After(q)' \subseteq seen'[r]
    <3>1. CASE q = p
      BY <2>1, <2>2, <2>3, <3>1 DEF ReaderOK
    <3>2. CASE q # p
      <4>1. pc[q] \in WriterPc /\ After(q)' = After(q)
        BY <1>1, <2>3, <3>2 DEF Stays
      <4>2. QED
        BY <2>1, <2>2, <4>1 DEF ReaderOK
    <3>3. QED
      BY <3>1, <3>2
  <2>4. may' \subseteq seen'[r]
    BY <2>1, <2>2 DEF ReaderOK
  <2>5. pc'[r] = "open_flash_rdonly" /\ ~ flashTorn' /\ ~ SaverNow' => ListStore(flash') \in seen'[r]
    BY <1>4, <2>1, <2>2 DEF ReaderOK
  <2>6. pc'[r] = "read_rest" => Store \subseteq seen'[r] \/ (AllRead(buf'[r]) /\ ListStore(buf'[r]) \in seen'[r])
    BY <2>1, <2>2 DEF ReaderOK
  <2>7. pc'[r] = "got" => tuples'[r] \in seen'[r]
    BY <2>1, <2>2 DEF ReaderOK
  <2>8. QED
    BY <2>3, <2>4, <2>5, <2>6, <2>7 DEF ReaderOK
<1>10. QED
  BY <1>5, <1>6, <1>7, <1>8, <1>9 DEF Alone

\* A step of the writer.
LEMMA AloneWriter ==
    ASSUME Shape, Alone, NEW p \in Proc, Moves(p), pc[p] \in WriterPc, pc'[p] \notin ReaderPc,
           pc'[p] \in WriterPc => may' = may /\ cmd'[p] = cmd[p] /\ WriterOK(p)',
           may' \subseteq may \cup After(p),
           \A r \in Proc \ {p} : seen'[r] = seen[r],
           StagedExpected', FlashExpected', PartitionExpected',
           ~ flashTorn' /\ ~ SaverNow' => \/ flash' = flash /\ ~ flashTorn /\ ~ SaverNow
                                          \/ ListStore(flash') \in After(p)
    PROVE  Alone'
<1>1. \A q \in Proc \ {p} : Stays(q) /\ pc[q] \notin WriterPc /\ ~ Writing(q)
  BY WritersWrite, OnlyOne DEF Moves
<1>2. \A q \in Proc : pc'[q] \in WriterPc => q = p
  BY <1>1 DEF Stays
<1>3. OneWriting'
  <2>1. \A q \in Proc \ {p} : ~ Writing(q)'
    BY <1>1, WritingSame
  <2>2. QED
    BY <2>1 DEF OneWriting
<1>4. \A q \in Proc : pc'[q] \in WriterPc => WriterOK(q)'
  BY <1>2
<1>5. ASSUME NEW r \in Proc, pc'[r] \in ReaderPc PROVE ReaderOK(r)'
  <2>1. r # p
    BY <1>5
  <2>2. pc'[r] = pc[r] /\ tuples'[r] = tuples[r] /\ buf'[r] = buf[r] /\ pc[r] \in ReaderPc /\ seen'[r] = seen[r]
    BY <1>1, <1>5, <2>1 DEF Stays
  <2>3. ReaderOK(r)
    BY <2>2 DEF Alone
  <2>4. may \subseteq seen[r] /\ After(p) \subseteq seen[r]
    BY <2>3 DEF ReaderOK
  <2>5. \A q \in Proc : pc'[q] \in WriterPc => After(q)' \subseteq seen'[r]
    <3>1. pc'[p] \in WriterPc => After(p)' = After(p)
      BY AfterSame
    <3>2. QED
      BY <1>2, <2>2, <2>4, <3>1
  <2>6. pc'[r] = "open_flash_rdonly" /\ ~ flashTorn' /\ ~ SaverNow' => ListStore(flash') \in seen'[r]
    BY <2>2, <2>3, <2>4 DEF ReaderOK
  <2>7. may' \subseteq seen'[r]
    BY <2>2, <2>4
  <2>8. pc'[r] = "got" => tuples'[r] \in seen'[r]
    BY <2>2, <2>3 DEF ReaderOK
  <2>9. pc'[r] = "read_rest" => Store \subseteq seen'[r] \/ (AllRead(buf'[r]) /\ ListStore(buf'[r]) \in seen'[r])
    BY <2>2, <2>3 DEF ReaderOK
  <2>10. QED
    BY <2>5, <2>6, <2>7, <2>8, <2>9 DEF ReaderOK
<1>6. QED
  BY <1>3, <1>4, <1>5 DEF Alone

\* While a command runs there may be what there may be without it and with it.
LEMMA DuringIs ==
    ASSUME NEW stores, NEW c
    PROVE  stores \subseteq During(stores, c) /\ \A s \in stores : Asked(s, c) \in During(stores, c)
BY DEF During

\* A writer that starts is the only one; readers may be told what it will make.
LEMMA AloneStart ==
    ASSUME Shape, Alone, NEW p \in Proc, Start(p), trouble' = {}
    PROVE  Alone'
<1> DEFINE writers == {w \in Proc : Running(w) /\ Writes(cmd[w])}
           c == cmd'[p]
           told == may \cup UNION {During(may, cmd[w]) : w \in writers}
<1>1. /\ Moves(p) /\ pc[p] = "idle" /\ file'[p] = NoFile
      /\ (c.write => pc'[p] = "find") /\ (~ c.write => pc'[p] = "find_rdonly")
      /\ UNCHANGED <<flash, files, staging, may, maySaved, flashTorn>>
  BY StartIs
<1>2. seen' = [q \in Proc |-> CASE q = p /\ ~ c.write -> told
                                [] q # p /\ Reading(q) -> During(seen[q] \cup may, c)
                                [] OTHER -> {}]
  BY StartIs
<1>3. Writes(c) => \A q \in Proc : ~ Writing(q) /\ pc[q] \notin WriterPc
  <2>1. ~ (Writes(c) /\ writers # {})
    BY StartIs, NoteIs, WhenIs
  <2>2. Writes(c) => \A q \in Proc : ~ Writing(q)
    BY <2>1 DEF Writing
  <2>3. QED
    BY <2>2, WritersWrite
<1>4. \A q \in Proc \ {p} : Stays(q)
  BY <1>1 DEF Moves
<1>5. ~ Running(p) /\ pc[p] \notin WriterPc /\ pc[p] \notin ReaderPc
  BY <1>1, PcSets DEF Running
<1>6. ASSUME NEW q \in Proc, pc[q] \in WriterPc PROVE q \in writers
  BY <1>6, WritersWrite DEF Writing
<1>7. Writing(p)' => Writes(c)
  BY DEF Writing
<1> HIDE DEF c, told
<1>8. ASSUME NEW r \in Proc, r # p, pc[r] \in ReaderPc
      PROVE  seen[r] \subseteq seen'[r] /\ \A s \in seen[r] \cup may : s \in seen'[r] /\ Asked(s, c) \in seen'[r]
  <2>1. Reading(r)
    BY <1>8, MoreLabels
  <2>2. seen'[r] = During(seen[r] \cup may, c)
    BY <1>2, <1>8, <2>1
  <2>3. QED
    BY <2>2, DuringIs
<1>9. CASE c.write
  <2>1. \A q \in Proc : pc[q] \notin WriterPc /\ ~ Writing(q)
    BY <1>3, <1>9 DEF Writes
  <2>2. pc'[p] = "find" /\ pc'[p] \notin ReaderPc
    BY <1>1, <1>9, MoreLabels
  <2>3. \A q \in Proc : pc'[q] \in WriterPc => q = p
    BY <1>4, <2>1 DEF Stays
  <2>4. OneWriting'
    <3>1. \A q \in Proc \ {p} : ~ Writing(q)'
      BY <1>4, <2>1, WritingSame
    <3>2. QED
      BY <3>1 DEF OneWriting
  <2>5. WriterOK(p)'
    BY <2>2, LabelSets DEF WriterOK
  <2>6. \A l \in {"save_rest", "unlink"} \cup Unsettled : l \in WriterPc
    BY MoreLabels, LabelSets
  <2>7. StagedExpected'
    BY <1>1, <2>1, <2>6 DEF Alone, StagedExpected
  <2>8. FlashExpected' /\ PartitionExpected'
    BY <1>1, <2>1, <2>6 DEF Alone, FlashExpected, PartitionExpected
  <2>9. ASSUME NEW r \in Proc, pc'[r] \in ReaderPc PROVE ReaderOK(r)'
    <3>1. r # p
      BY <2>2, <2>9
    <3>2. pc'[r] = pc[r] /\ tuples'[r] = tuples[r] /\ buf'[r] = buf[r] /\ pc[r] \in ReaderPc
      BY <1>4, <2>9, <3>1 DEF Stays
    <3>3. ReaderOK(r)
      BY <3>2 DEF Alone
    <3>4. seen[r] \subseteq seen'[r] /\ may \subseteq seen'[r]
      BY <1>8, <3>1, <3>2
    <3>5. After(p)' \subseteq seen'[r]
      <4>1. After(p)' = {Asked(s, c) : s \in may}
        BY <1>1 DEF After, c
      <4>2. \A s \in may : Asked(s, c) \in seen'[r]
        BY <1>8, <3>1, <3>2
      <4>3. QED
        BY <4>1, <4>2
    <3>6. SaverNow' <=> SaverNow
      BY <1>1, <2>2, SaverSame
    <3>7. pc'[r] = "open_flash_rdonly" /\ ~ flashTorn' /\ ~ SaverNow' => ListStore(flash') \in seen'[r]
      BY <1>1, <3>2, <3>3, <3>4, <3>6 DEF ReaderOK
    <3>8. pc'[r] = "read_rest" => Store \subseteq seen'[r] \/ (AllRead(buf'[r]) /\ ListStore(buf'[r]) \in seen'[r])
      BY <3>2, <3>3, <3>4 DEF ReaderOK
    <3>9. pc'[r] = "got" => tuples'[r] \in seen'[r]
      BY <3>2, <3>3, <3>4 DEF ReaderOK
    <3>10. may' \subseteq seen'[r] /\ \A q \in Proc : pc'[q] \in WriterPc => After(q)' \subseteq seen'[r]
      BY <1>1, <2>3, <3>4, <3>5
    <3>11. QED
      BY <3>7, <3>8, <3>9, <3>10 DEF ReaderOK
  <2>10. QED
    BY <2>3, <2>4, <2>5, <2>7, <2>8, <2>9 DEF Alone
<1>10. CASE ~ c.write
  <2>1. pc'[p] = "find_rdonly" /\ pc'[p] \notin WriterPc
    BY <1>1, <1>10, MoreLabels
  <2>2. seen'[p] = told
    BY <1>2, <1>10
  <2>3. ASSUME NEW q \in Proc, pc'[q] \in WriterPc PROVE After(q)' \subseteq told
    <3>1. q # p /\ pc[q] \in WriterPc /\ cmd'[q] = cmd[q]
      BY <1>4, <2>1, <2>3 DEF Stays
    <3>2. q \in writers
      BY <1>6, <3>1
    <3>3. After(q)' = After(q)
      BY <1>1, <3>1, AfterSame
    <3>4. \A s \in may : Asked(s, cmd[q]) \in told
      <4> SUFFICES ASSUME NEW s \in may PROVE Asked(s, cmd[q]) \in told
        OBVIOUS
      <4>1. Asked(s, cmd[q]) \in During(may, cmd[q])
        BY DuringIs
      <4>2. QED
        BY <3>2, <4>1 DEF told
    <3>5. QED
      BY <3>3, <3>4 DEF After
  <2>4. may \subseteq told
    BY DEF told
  <2>5. ReaderOK(p)'
    BY <1>1, <2>1, <2>2, <2>3, <2>4 DEF ReaderOK
  <2>6. \A r \in Proc \ {p} : pc[r] \in ReaderPc => seen[r] \subseteq seen'[r]
    BY <1>8
  <2>7. Writing(p)' => \A q \in Proc : ~ Writing(q)
    BY <1>3, <1>7
  <2>8. QED
    BY <1>1, <1>5, <2>1, <2>5, <2>6, <2>7, AloneReader
<1>11. QED
  BY <1>9, <1>10

\* Without a staging file the partition is what the variables may be.
LEMMA AloneFindForReading ==
    ASSUME Shape, Alone, NEW p \in Proc, FindForReading(p)
    PROVE  Alone'
<1>1. /\ Moves(p) /\ pc[p] = "find_rdonly" /\ pc'[p] \in {"open_staging_rdonly", "open_flash_rdonly"}
      /\ (staging # NoFile => pc'[p] = "open_staging_rdonly")
      /\ UNCHANGED <<flash, files, staging, cmd, tuples, seen, may, maySaved, flashTorn>>
  BY FindForReadingIs DEF history
<1>2. pc[p] \notin WriterPc /\ pc'[p] \notin WriterPc /\ pc[p] \in ReaderPc /\ pc'[p] # "got" /\ pc'[p] # "read_rest"
  BY <1>1, MoreLabels
<1>3. ReaderOK(p)
  BY <1>2 DEF Alone
<1>4. pc'[p] = "open_flash_rdonly" => ListStore(flash) \in seen[p]
  BY <1>1, <1>3 DEF Alone, FlashExpected, ReaderOK
<1>5. \A q \in Proc : pc'[q] \in WriterPc => pc[q] \in WriterPc /\ After(q)' = After(q)
  BY <1>1, <1>2, AfterSame DEF Moves, Stays
<1>6. ReaderOK(p)'
  BY <1>1, <1>2, <1>3, <1>4, <1>5 DEF ReaderOK
<1>7. Writing(p)' => Writing(p)
  BY <1>1, PcSets DEF Writing, Running
<1>8. QED
  BY <1>1, <1>2, <1>6, <1>7, AloneReader

\* A reader that ends by itself.
LEMMA AloneReaderExit ==
    ASSUME Shape, Alone, NEW p \in Proc, pc[p] \in ReaderPc, Exit(p, "none", {}), trouble' = {},
           UNCHANGED <<flash, files, staging, flashTorn>>
    PROVE  Alone'
<1>1. Settle(p, "none") /\ Moves(p) /\ pc'[p] = "idle" /\ seen' = [seen EXCEPT ![p] = {}]
  BY ExitIs
<1>2. may' = may /\ maySaved' = maySaved
  BY <1>1, SettleIs
<1>3. pc[p] \notin WriterPc /\ pc'[p] \notin WriterPc /\ pc'[p] \notin ReaderPc
  BY <1>1, MoreLabels, PcSets
<1>4. \A r \in Proc \ {p} : seen'[r] = seen[r]
  BY <1>1 DEF Shape
<1>5. ~ Writing(p)'
  BY <1>1 DEF Writing, Running
<1>6. QED
  BY <1>1, <1>2, <1>3, <1>4, <1>5, AloneReader

\* The staging file is good where nobody is at work on it.
LEMMA StagedGood ==
    ASSUME Shape, Keeping, staging # NoFile,
           \A q \in Proc : file[q] = staging => pc[q] \notin HalfWritten /\ pc[q] # "fill"
    PROVE  Good(files[staging])
<1>1. staging \in Inode /\ InUse(staging)
  BY DEF Shape, InUse
<1>2. QED
  BY <1>1 DEF Keeping, FilesKeep

\* A reader that finds a list may be told it.
LEMMA AloneOpenReading ==
    ASSUME Shape, Keeping, Alone, NEW p \in Proc, OpenReading(p), trouble' = {}
    PROVE  Alone'
<1>1. /\ Moves(p) /\ pc[p] \in {"open_staging_rdonly", "open_flash_rdonly"}
      /\ UNCHANGED <<flash, files, staging, flashTorn>>
  BY OpenReadingIs
<1>2. pc[p] \notin WriterPc /\ pc[p] \in ReaderPc /\ pc[p] # "idle"
  BY <1>1, MoreLabels
<1>3. CASE Exit(p, "none", {})
  BY <1>1, <1>2, <1>3, AloneReaderExit
<1>4. CASE /\ pc[p] = "open_staging_rdonly" => staging \in Inode
           /\ pc'[p] = "read_rest" /\ cmd' = cmd /\ buf'[p] = ReadImage(p)
           /\ seen' = IF Beside(p) THEN [seen EXCEPT ![p] = Store] ELSE seen
           /\ UNCHANGED <<may, maySaved, trouble>>
  <2>1. pc'[p] \notin WriterPc /\ pc'[p] # "open_flash_rdonly" /\ pc'[p] # "got"
    BY <1>4, MoreLabels
  <2>2. \A r \in Proc : seen[r] \subseteq seen'[r]
    BY <1>4 DEF Shape
  <2>3. ReaderOK(p)
    BY <1>2 DEF Alone
  <2>4. Beside(p) => Store \subseteq seen'[p]
    BY <1>4 DEF Shape
  <2>5. ASSUME ~ Beside(p) PROVE AllRead(ReadImage(p)) /\ ListStore(ReadImage(p)) \in seen[p]
    <3>1. CASE pc[p] = "open_staging_rdonly"
      <4>1. ReadImage(p) = files[staging] /\ staging # NoFile /\ ~ SomeoneIn(staging, p)
        BY <1>4, <2>5, <3>1, CellAssumption DEF ReadImage, Beside
      <4>2. ASSUME NEW q \in Proc, q # p, file[q] = staging
            PROVE  pc[q] \notin {"fill", "fill_rest", "tuples"} \cup Parsing
        BY <4>1, <4>2, LabelSets DEF SomeoneIn, InWindow, Parses
      <4>3. pc[p] \notin HalfWritten /\ pc[p] # "fill"
        BY <3>1, LabelSets DEF HalfWritten
      <4>4. Good(files[staging])
        BY <4>1, <4>2, <4>3, StagedGood DEF HalfWritten
      <4>5. ListStore(files[staging]) \in seen[p]
        <5>1. CASE \A q \in Proc : pc[q] \notin Unsettled
          BY <2>3, <4>1, <5>1 DEF Alone, StagedExpected, ReaderOK
        <5>2. ASSUME NEW w \in Proc, pc[w] \in Unsettled PROVE ListStore(files[staging]) \in seen[p]
          <6>1. pc[w] \in WriterPc /\ w # p /\ WriterOK(w)
            BY <1>2, <5>2, MoreLabels DEF Alone
          <6>2. pc[w] \in SavingPc
            <7>1. pc[w] \notin SavingPc => pc[w] \in {"fill", "fill_rest", "tuples", "reparse", "recut"}
              BY <5>2 DEF Unsettled
            <7>2. pc[w] \notin SavingPc => file[w] = staging
              BY <6>1, <7>1, LabelSets DEF WriterOK
            <7>3. QED
              BY <4>2, <6>1, <7>1, <7>2, LabelSets
          <6>3. ListStore(files[staging]) \in After(w)
            BY <4>1, <6>1, <6>2 DEF WriterOK
          <6>4. QED
            BY <2>3, <6>1, <6>3 DEF ReaderOK
        <5>3. QED
          BY <5>1, <5>2
      <4>6. QED
        BY <4>1, <4>4, <4>5 DEF Good
    <3>2. CASE pc[p] = "open_flash_rdonly"
      <4>1. ReadImage(p) = flash /\ ~ flashTorn /\ ~ SaverNow
        BY <2>5, <3>2 DEF ReadImage, Beside, SaverNow
      <4>2. QED
        BY <2>3, <3>2, <4>1 DEF ReaderOK, Keeping, FlashKeeps, Good
    <3>3. QED
      BY <1>1, <3>1, <3>2
  <2>6. Store \subseteq seen'[p] \/ (AllRead(buf'[p]) /\ ListStore(buf'[p]) \in seen'[p])
    BY <1>4, <2>2, <2>4, <2>5
  <2>7. \A q \in Proc : pc'[q] \in WriterPc => pc[q] \in WriterPc /\ After(q)' = After(q)
    BY <1>1, <1>4, <2>1, AfterSame DEF Moves, Stays
  <2>8. may' \subseteq seen'[p] /\ \A q \in Proc : pc'[q] \in WriterPc => After(q)' \subseteq seen'[p]
    BY <1>4, <2>2, <2>3, <2>7 DEF ReaderOK
  <2>9. ReaderOK(p)'
    BY <2>1, <2>6, <2>8 DEF ReaderOK
  <2>10. \A r \in Proc \ {p} : pc[r] \in ReaderPc => seen[r] \subseteq seen'[r]
    BY <2>2
  <2>11. Writing(p)' => Writing(p)
    BY <1>2, <1>4 DEF Writing, Running
  <2>12. QED
    BY <1>1, <1>2, <1>4, <2>1, <2>9, <2>10, <2>11, AloneReader
<1>5. QED
  BY <1>3, <1>4, OpenReadingIs

\* A copy whose pages did not change is the whole list, as it was when it was opened.
LEMMA AloneReadRest ==
    ASSUME Shape, Alone, NEW p \in Proc, ReadRest(p), trouble' = {}
    PROVE  Alone'
<1> DEFINE now == ReadNow(p)
           b == buf[p]
<1>1. /\ Moves(p) /\ pc[p] = "read_rest" /\ b \in Image /\ StoreOf(RestPart(b, now)) \in Store
      /\ UNCHANGED <<flash, files, staging, flashTorn>>
  BY ReadRestIs
<1>2. pc[p] \notin WriterPc /\ pc[p] \in ReaderPc /\ pc[p] # "idle"
  BY <1>1, MoreLabels
<1>3. CASE Exit(p, "none", {})
  BY <1>1, <1>2, <1>3, AloneReaderExit
<1>4. CASE /\ pc'[p] = "got" /\ cmd' = cmd /\ tuples'[p] = StoreOf(RestPart(b, now))
           /\ seen' = IF now # b THEN [seen EXCEPT ![p] = Store] ELSE seen
           /\ seen'[p] = IF now # b THEN Store ELSE seen[p]
           /\ UNCHANGED <<may, maySaved, trouble>>
  <2>1. pc'[p] \notin WriterPc /\ pc'[p] # "open_flash_rdonly" /\ pc'[p] # "read_rest"
    BY <1>4, MoreLabels
  <2>2. \A r \in Proc : seen[r] \subseteq seen'[r]
    BY <1>4 DEF Shape
  <2>3. ReaderOK(p)
    BY <1>2 DEF Alone
  <2> HIDE DEF now, b
  <2>4. StoreOf(RestPart(b, now)) \in seen'[p]
    <3>1. CASE now # b
      BY <1>1, <1>4, <3>1
    <3>2. CASE now = b /\ Store \subseteq seen[p]
      BY <1>1, <2>2, <3>2
    <3>3. CASE now = b /\ AllRead(b) /\ ListStore(b) \in seen[p]
      <4>1. FirstCopied(b, b)
        BY DEF FirstCopied
      <4>2. RestPart(b, b).cells = b.cells
        BY <1>1, <4>1, CopyIsWhole
      <4>3. AllRead(RestPart(b, b)) /\ ListStore(RestPart(b, b)) = ListStore(b)
        BY <3>3, <4>2, SameCells DEF AllRead
      <4>4. StoreOf(RestPart(b, b)) = ListStore(b)
        BY <4>3, ReadAll
      <4>5. QED
        BY <2>2, <3>3, <4>4
    <3>4. Store \subseteq seen[p] \/ (AllRead(b) /\ ListStore(b) \in seen[p])
      BY <1>1, <2>3 DEF ReaderOK, b
    <3>5. QED
      BY <3>1, <3>2, <3>3, <3>4
  <2>5. \A q \in Proc : pc'[q] \in WriterPc => pc[q] \in WriterPc /\ After(q)' = After(q)
    BY <1>1, <1>4, <2>1, AfterSame DEF Moves, Stays
  <2>6. may' \subseteq seen'[p] /\ \A q \in Proc : pc'[q] \in WriterPc => After(q)' \subseteq seen'[p]
    BY <1>4, <2>2, <2>3, <2>5 DEF ReaderOK
  <2>7. ReaderOK(p)'
    BY <1>4, <2>1, <2>4, <2>6 DEF ReaderOK
  <2>8. \A r \in Proc \ {p} : pc[r] \in ReaderPc => seen[r] \subseteq seen'[r]
    BY <2>2
  <2>9. Writing(p)' => Writing(p)
    BY <1>2, <1>4 DEF Writing, Running
  <2>10. QED
    BY <1>1, <1>2, <1>4, <2>1, <2>7, <2>8, <2>9, AloneReader
<1>5. QED
  BY <1>3, <1>4, ReadRestIs

\* A reader that goes on to save what is staged finds there what the variables may be.
LEMMA AloneClose ==
    ASSUME Shape, Alone, NEW p \in Proc, Close(p), trouble' = {}
    PROVE  Alone'
<1>1. Moves(p) /\ pc[p] = "got" /\ UNCHANGED <<flash, files, staging, flashTorn>>
  BY CloseIs
<1>2. pc[p] \in ReaderPc /\ pc[p] \notin WriterPc /\ pc[p] # "idle"
  BY <1>1, MoreLabels
<1>3. CASE Exit(p, "none", {})
  BY <1>1, <1>2, <1>3, AloneReaderExit
<1>4. CASE /\ cmd[p].commit /\ cmd' = cmd /\ pc'[p] = "save_read"
           /\ seen' = [seen EXCEPT ![p] = {}] /\ UNCHANGED <<may, maySaved, trouble>>
  <2>1. Writing(p)
    BY <1>2, <1>4 DEF Writing, Running, Writes
  <2>2. \A q \in Proc : pc[q] \notin Unsettled
    BY <1>2, <2>1, OnlyOne, MoreLabels
  <2>3. After(p) = may /\ After(p)' = After(p)
    BY <1>2, <1>4, ReadAsksNothing, AfterSame
  <2>4. staging # NoFile => ListStore(files[staging]) \in may
    BY <2>2 DEF Alone, StagedExpected
  <2>5. pc'[p] \notin FilePc /\ pc'[p] \notin ReaderPc
    BY <1>4, LabelSets, MoreLabels
  <2>6. WriterOK(p)'
    BY <1>1, <1>4, <2>3, <2>4, <2>5 DEF WriterOK
  <2>7. \A r \in Proc \ {p} : seen'[r] = seen[r]
    BY <1>4 DEF Shape
  <2>8. QED
    BY <1>1, <1>2, <1>4, <2>1, <2>3, <2>5, <2>6, <2>7, AloneReader
<1>5. QED
  BY <1>3, <1>4, CloseIs

\* With one writer p, what the others are at and who writes the partition.
LEMMA OnlyWriter ==
    ASSUME Shape, Alone, NEW p \in Proc, Moves(p), pc[p] \in WriterPc
    PROVE  /\ \A q \in Proc \ {p} : pc'[q] = pc[q] /\ pc[q] \notin Unsettled
           /\ SaverNow <=> pc[p] = "save_rest"
           /\ SaverNow' <=> pc'[p] = "save_rest"
<1>1. \A q \in Proc \ {p} : pc'[q] = pc[q] /\ pc[q] \notin WriterPc
  BY WritersWrite, OnlyOne DEF Moves, Stays
<1>2. "save_rest" \in Unsettled
  BY LabelSets DEF Unsettled
<1>3. \A q \in Proc \ {p} : pc'[q] = pc[q] /\ pc[q] \notin Unsettled /\ pc[q] # "save_rest"
  BY <1>1, <1>2, MoreLabels
<1>4. SaverNow <=> pc[p] = "save_rest"
  BY <1>3 DEF SaverNow, Saving
<1>5. SaverNow' <=> pc'[p] = "save_rest"
  BY <1>3 DEF SaverNow, Saving
<1>6. QED
  BY <1>3, <1>4, <1>5

\* A step of the writer that touches neither the partition nor the staging file, before its commit.
LEMMA AloneWriterStill ==
    ASSUME Shape, Alone, NEW p \in Proc, Moves(p),
           UNCHANGED <<flash, files, staging, flashTorn, may, maySaved>>,
           pc[p] \in {"find", "read_flash", "open", "parse"},
           pc'[p] \in {"idle", "open", "read_flash", "create", "parse", "commit"},
           pc'[p] # "idle" => cmd'[p] = cmd[p] /\ WriterOK(p)',
           \A r \in Proc \ {p} : seen'[r] = seen[r]
    PROVE  Alone'
<1>1. /\ pc[p] \in WriterPc /\ pc[p] \notin {"save_rest", "unlink"} \cup Unsettled
      /\ pc'[p] \notin ReaderPc /\ pc'[p] \notin {"save_rest", "unlink"} \cup Unsettled
  BY MoreLabels, LabelSets DEF Unsettled
<1>2. \A q \in Proc : pc'[q] \in {"save_rest", "unlink"} <=> pc[q] \in {"save_rest", "unlink"}
  BY <1>1 DEF Moves, Stays
<1>3. SaverNow' <=> SaverNow
  BY <1>1, SaverSame
<1>4. StagedExpected'
  <2>1. (\A q \in Proc : pc'[q] \notin Unsettled) => \A q \in Proc : pc[q] \notin Unsettled
    BY <1>1 DEF Moves, Stays
  <2>2. QED
    BY <2>1 DEF Alone, StagedExpected
<1>5. FlashExpected' /\ PartitionExpected'
  BY <1>2 DEF Alone, FlashExpected, PartitionExpected
<1>6. pc'[p] \in WriterPc => pc'[p] # "idle"
  BY PcSets
<1>7. QED
  BY <1>1, <1>3, <1>4, <1>5, <1>6, AloneWriter

\* A writer goes to the staging file if there is one.
LEMMA AloneFindStaging ==
    ASSUME Shape, Alone, NEW p \in Proc, FindStaging(p)
    PROVE  Alone'
<1>1. /\ Moves(p) /\ pc[p] = "find" /\ pc'[p] \in {"open", "read_flash"}
      /\ (staging # NoFile => pc'[p] = "open") /\ (staging = NoFile => pc'[p] = "read_flash")
      /\ UNCHANGED <<flash, files, staging, cmd, seen, may, maySaved, flashTorn>>
  BY FindStagingIs DEF history
<1>2. pc'[p] \notin FilePc /\ pc'[p] \notin SavingPc
  BY <1>1, LabelSets
<1>3. WriterOK(p)'
  BY <1>1, <1>2 DEF WriterOK
<1>4. QED
  BY <1>1, <1>3, AloneWriterStill

\* Without a staging file the partition is what the variables may be.
LEMMA AloneReadFlash ==
    ASSUME Shape, Alone, NEW p \in Proc, ReadFlash(p)
    PROVE  Alone'
<1>1. /\ Moves(p) /\ pc[p] = "read_flash" /\ pc'[p] = "create" /\ buf'[p] = flash
      /\ UNCHANGED <<flash, files, staging, cmd, seen, may, maySaved, flashTorn>>
  BY ReadFlashIs
<1>2. pc[p] \in WriterPc /\ pc'[p] \notin FilePc /\ pc'[p] \notin SavingPc
  BY <1>1, LabelSets, MoreLabels
<1>3. staging = NoFile
  BY <1>1, <1>2 DEF Alone, WriterOK
<1>4. ListStore(flash) \in may
  BY <1>3 DEF Alone, FlashExpected
<1>5. WriterOK(p)'
  BY <1>1, <1>2, <1>3, <1>4 DEF WriterOK
<1>6. QED
  BY <1>1, <1>5, AloneWriterStill

\* Opening and mapping the file changes nothing.
LEMMA AloneOpenStaging ==
    ASSUME Shape, Alone, NEW p \in Proc, OpenStaging(p), trouble' = {}
    PROVE  Alone'
<1>1. Moves(p) /\ pc[p] = "open" /\ UNCHANGED <<flash, files, staging, flashTorn>>
  BY OpenStagingIs
<1>2. ASSUME NEW what, Exit(p, "none", what), pc'[p] = "idle" PROVE Alone'
  <2>1. Settle(p, "none") /\ seen' = [seen EXCEPT ![p] = {}]
    BY <1>2, ExitIs
  <2>2. may' = may /\ maySaved' = maySaved
    BY <2>1, SettleIs
  <2>3. \A r \in Proc \ {p} : seen'[r] = seen[r]
    BY <2>1 DEF Shape
  <2>4. QED
    BY <1>1, <1>2, <2>2, <2>3, AloneWriterStill
<1>3. ASSUME pc'[p] = "parse", cmd' = cmd, file'[p] = staging, UNCHANGED <<seen, may, maySaved>>
      PROVE  Alone'
  <2>1. pc'[p] \notin SavingPc
    BY <1>3, LabelSets
  <2>2. WriterOK(p)'
    BY <1>1, <1>3, <2>1 DEF WriterOK
  <2>3. QED
    BY <1>1, <1>3, <2>2, AloneWriterStill
<1>4. QED
  BY <1>2, <1>3, OpenStagingIs

\* The table is the file's list, and edited it is what there may be after the command.
LEMMA AloneEndParse ==
    ASSUME Shape, Keeping, Alone, NEW p \in Proc, EndParse(p), trouble' = {}
    PROVE  Alone'
<1>1. /\ Moves(p) /\ pc[p] = "parse" /\ file[p] \in Inode /\ ~ Readable(Parsed(p))
      /\ UNCHANGED <<flash, files, staging, flashTorn>>
  BY EndParseIs
<1>2. pc[p] \in WriterPc /\ pc[p] \in FilePc /\ pc[p] \in Parsing
  BY <1>1, MoreLabels, LabelSets
<1>3. CASE Exit(p, "none", {}) /\ pc'[p] = "idle"
  <2>1. Settle(p, "none") /\ seen' = [seen EXCEPT ![p] = {}]
    BY <1>3, ExitIs
  <2>2. may' = may /\ maySaved' = maySaved
    BY <2>1, SettleIs
  <2>3. \A r \in Proc \ {p} : seen'[r] = seen[r]
    BY <2>1 DEF Shape
  <2>4. QED
    BY <1>1, <1>3, <2>2, <2>3, AloneWriterStill
<1>4. CASE /\ pc'[p] = "commit" /\ cmd' = cmd /\ file'[p] = file[p]
           /\ tuples'[p] = Asked(tuples[p], cmd[p]) /\ UNCHANGED <<seen, may, maySaved>>
  <2>1. file[p] = staging
    BY <1>2 DEF Alone, WriterOK
  <2>2. tuples[p] = ListStore(files[staging])
    <3>1. ParseOK(files[staging], "parse", ptr[p], tuples[p])
      BY <1>1, <1>2, <2>1 DEF Keeping, HalfWay, HalfOK
    <3>2. files[staging] \in Image /\ ptr[p] \in Position /\ ~ Readable(files[staging].cells[ptr[p]])
      BY <1>1, <2>1 DEF Shape, Parsed
    <3>3. QED
      BY <3>1, <3>2, ParsedAll
  <2>3. tuples[p] \in may
    <3>1. pc[p] \notin Unsettled /\ staging # NoFile
      BY <1>1, <2>1, LabelSets, CellAssumption DEF Unsettled
    <3>2. \A q \in Proc : pc[q] \notin Unsettled
      BY <1>1, <1>2, <3>1, OnlyWriter
    <3>3. QED
      BY <2>2, <3>1, <3>2 DEF Alone, StagedExpected
  <2>4. tuples'[p] \in After(p) /\ After(p)' = After(p)
    BY <1>4, <2>3, AfterSame DEF After
  <2>5. pc'[p] \notin SavingPc
    BY <1>4, LabelSets
  <2>6. WriterOK(p)'
    BY <1>1, <1>4, <2>1, <2>4, <2>5 DEF WriterOK
  <2>7. QED
    BY <1>1, <1>4, <2>6, AloneWriterStill
<1>5. QED
  BY <1>3, <1>4, EndParseIs

\* A step of the writer that leaves the partition alone, and is or comes to be half way through the staging file.
LEMMA AloneAtFile ==
    ASSUME Shape, Alone, NEW p \in Proc, Moves(p),
           UNCHANGED <<flash, flashTorn, maySaved>>, may' = may, seen' = seen, cmd' = cmd,
           staging' \in Inode,
           pc[p] \in {"create", "fill", "fill_rest", "tuples", "commit"} \cup Parsing,
           pc'[p] \in {"fill", "fill_rest", "tuples", "open", "save_read"} \cup Parsing,
           pc'[p] \in Unsettled \/ ListStore(files'[staging']) \in may,
           WriterOK(p)'
    PROVE  Alone'
<1>1. pc[p] \in WriterPc /\ pc'[p] \notin ReaderPc
      /\ pc[p] \notin {"save_rest", "unlink"} /\ pc'[p] \notin {"save_rest", "unlink"}
  BY MoreLabels, LabelSets
<1>2. SaverNow' <=> SaverNow
  BY <1>1, SaverSame
<1>3. staging' # NoFile
  BY CellAssumption
<1>4. StagedExpected'
  BY <1>1 DEF StagedExpected
<1>5. FlashExpected'
  BY <1>3 DEF FlashExpected
<1>6. PartitionExpected'
  <2>1. \A q \in Proc : pc'[q] \in {"save_rest", "unlink"} <=> pc[q] \in {"save_rest", "unlink"}
    BY <1>1 DEF Moves, Stays
  <2>2. QED
    BY <2>1 DEF Alone, PartitionExpected
<1>7. QED
  BY <1>1, <1>2, <1>4, <1>5, <1>6, AloneWriter

\* The file is new: nobody else stages.
LEMMA AloneCreate ==
    ASSUME Shape, Alone, NEW p \in Proc, CreateStaging(p), trouble' = {}
    PROVE  Alone'
<1>1. /\ Moves(p) /\ pc[p] = "create" /\ pc'[p] = "fill" /\ buf'[p] = buf[p]
      /\ file'[p] \in Inode /\ staging' = file'[p]
      /\ UNCHANGED <<flash, cmd, seen, may, maySaved, flashTorn>>
  BY CreateStagingIs
<1>2. pc[p] \in WriterPc /\ pc'[p] \notin SavingPc /\ pc'[p] \in Unsettled
  BY <1>1, MoreLabels, LabelSets DEF Unsettled
<1>3. ListStore(buf'[p]) \in may'
  BY <1>1, <1>2 DEF Alone, WriterOK
<1>4. WriterOK(p)'
  BY <1>1, <1>2, <1>3 DEF WriterOK
<1>5. QED
  BY <1>1, <1>2, <1>4, AloneAtFile

\* The first part fills a new file.
LEMMA AloneFill ==
    ASSUME Shape, Alone, NEW p \in Proc, Fill(p), trouble' = {}
    PROVE  Alone'
<1>1. /\ Moves(p) /\ pc[p] = "fill" /\ cmd' = cmd /\ file[p] \in Inode
      /\ pc'[p] = "fill_rest" /\ file'[p] = file[p] /\ buf'[p] = buf[p]
      /\ UNCHANGED <<flash, staging, seen, may, maySaved, flashTorn>>
  BY FillIs
<1>2. pc[p] \in WriterPc /\ pc'[p] \notin SavingPc /\ pc[p] \in FilePc /\ pc'[p] \in Unsettled
  BY <1>1, MoreLabels, LabelSets DEF Unsettled
<1>3. file[p] = staging /\ ListStore(buf[p]) \in may
  BY <1>1, <1>2 DEF Alone, WriterOK
<1>4. WriterOK(p)'
  BY <1>1, <1>2, <1>3 DEF WriterOK
<1>5. staging' \in Inode
  BY <1>1, <1>3
<1>6. QED
  BY <1>1, <1>2, <1>4, <1>5, AloneAtFile

\* The file is what was copied.
LEMMA AloneFillRest ==
    ASSUME Shape, Keeping, Alone, NEW p \in Proc, FillRest(p), trouble' = {}
    PROVE  Alone'
<1>1. /\ Moves(p) /\ pc[p] = "fill_rest" /\ cmd' = cmd /\ file[p] \in Inode /\ buf[p] \in Image
      /\ pc'[p] = "open" /\ files'[file[p]] = RestPart(files[file[p]], buf[p])
      /\ UNCHANGED <<flash, staging, seen, may, maySaved, flashTorn>>
  BY FillRestIs
<1>2. pc[p] \in WriterPc /\ pc'[p] \notin SavingPc /\ pc'[p] \notin FilePc /\ pc[p] \in FilePc
  BY <1>1, MoreLabels, LabelSets
<1>3. file[p] = staging /\ ListStore(buf[p]) \in may
  BY <1>1, <1>2 DEF Alone, WriterOK
<1>4. FirstCopied(files[staging], buf[p]) /\ files[staging] \in Image
  BY <1>1, <1>3 DEF Keeping, HalfWay, HalfOK, Shape
<1>5. ListStore(files'[staging']) \in may
  <2>1. files'[staging'].cells = buf[p].cells
    BY <1>1, <1>3, <1>4, CopyIsWhole
  <2>2. QED
    BY <1>3, <2>1, SameCells
<1>6. staging' \in Inode /\ staging' # NoFile
  BY <1>1, <1>3, CellAssumption
<1>7. WriterOK(p)'
  BY <1>1, <1>2, <1>6 DEF WriterOK
<1>8. QED
  BY <1>1, <1>5, <1>6, <1>7, AloneAtFile

\* The table stays in memory while the list is cleared.
LEMMA AloneClear ==
    ASSUME Shape, Alone, NEW p \in Proc, Clear(p), trouble' = {}
    PROVE  Alone'
<1>1. /\ Moves(p) /\ pc[p] = "commit" /\ file[p] \in Inode /\ pc'[p] = "tuples" /\ file'[p] = file[p]
      /\ cmd' = cmd /\ tuples' = tuples /\ UNCHANGED <<flash, staging, seen, may, maySaved, flashTorn>>
  BY ClearIs
<1>2. pc[p] \in WriterPc /\ pc'[p] \notin SavingPc /\ pc[p] \in FilePc /\ pc'[p] \in Unsettled
  BY <1>1, MoreLabels, LabelSets DEF Unsettled
<1>3. file[p] = staging /\ tuples[p] \in After(p) /\ After(p)' = After(p)
  BY <1>1, <1>2, AfterSame DEF Alone, WriterOK
<1>4. WriterOK(p)'
  BY <1>1, <1>2, <1>3 DEF WriterOK
<1>5. staging' \in Inode
  BY <1>1, <1>3
<1>6. QED
  BY <1>1, <1>2, <1>4, <1>5, AloneAtFile

\* Nobody else writes to the file.
LEMMA AloneWriteTuple ==
    ASSUME Shape, Alone, NEW p \in Proc, WriteTuple(p)
    PROVE  Alone'
<1>1. /\ Moves(p) /\ pc[p] = "tuples" /\ pc'[p] = "tuples" /\ file[p] \in Inode /\ file'[p] = file[p]
      /\ UNCHANGED <<flash, staging, cmd, tuples, seen, may, maySaved, flashTorn>>
  BY WriteTupleIs
<1>2. pc[p] \in WriterPc /\ pc'[p] \notin SavingPc /\ pc[p] \in FilePc /\ pc'[p] \in Unsettled
  BY <1>1, MoreLabels, LabelSets DEF Unsettled
<1>3. file[p] = staging /\ tuples[p] \in After(p) /\ After(p)' = After(p)
  BY <1>1, <1>2, AfterSame DEF Alone, WriterOK
<1>4. WriterOK(p)'
  BY <1>1, <1>2, <1>3 DEF WriterOK
<1>5. staging' \in Inode
  BY <1>1, <1>3
<1>6. QED
  BY <1>1, <1>2, <1>4, <1>5, AloneAtFile

\* Where a '=' goes or comes back the list says the same.
LEMMA AloneEq ==
    ASSUME Shape, Alone, NEW p \in Proc, Moves(p), NEW b \in BOOLEAN,
           \/ pc[p] \in {"parse", "cut"} /\ pc'[p] \in {"parse", "cut"}
           \/ pc[p] \in {"reparse", "recut"} /\ pc'[p] \in {"reparse", "recut"},
           file[p] \in Inode, file'[p] = file[p], IsTuple(Parsed(p)),
           files'[file[p]] = WithEq(files[file[p]], ptr[p], b),
           UNCHANGED <<flash, staging, cmd, seen, may, maySaved, flashTorn>>
    PROVE  Alone'
<1>1. /\ pc[p] \in WriterPc /\ pc[p] \in FilePc /\ pc[p] \in Parsing /\ pc'[p] \in Parsing
      /\ pc'[p] \notin SavingPc
  BY MoreLabels, LabelSets
<1>2. file[p] = staging /\ WriterOK(p)
  BY <1>1 DEF Alone, WriterOK
<1>3. files[staging] \in Image /\ ptr[p] \in Position /\ IsTuple(files[staging].cells[ptr[p]])
  BY <1>2 DEF Shape, Parsed
<1>4. ListStore(files'[staging']) = ListStore(files[staging])
  BY <1>2, <1>3, WithEqIs
<1>5. After(p)' = After(p)
  BY AfterSame
<1>6. WriterOK(p)'
  BY <1>1, <1>2, <1>4, <1>5 DEF WriterOK
<1>7. pc'[p] \in Unsettled \/ ListStore(files'[staging']) \in may
  <2>1. CASE pc[p] \in {"reparse", "recut"}
    BY <2>1 DEF Unsettled
  <2>2. CASE pc[p] \in {"parse", "cut"}
    <3>1. pc[p] \notin Unsettled /\ staging # NoFile
      BY <1>2, <2>2, LabelSets, CellAssumption DEF Unsettled
    <3>2. \A q \in Proc : pc[q] \notin Unsettled
      BY <1>1, <3>1, OnlyWriter
    <3>3. QED
      BY <1>4, <3>1, <3>2 DEF Alone, StagedExpected
  <2>3. QED
    BY <2>1, <2>2
<1>8. staging' \in Inode
  BY <1>2
<1>9. QED
  BY <1>1, <1>6, <1>7, <1>8, AloneAtFile

\* The parser's NUL.
LEMMA AloneCutEntry ==
    ASSUME Shape, Alone, NEW p \in Proc, CutEntry(p)
    PROVE  Alone'
<1>1. /\ Moves(p) /\ file[p] \in Inode /\ file'[p] = file[p] /\ IsTuple(Parsed(p))
      /\ files'[file[p]] = WithEq(files[file[p]], ptr[p], FALSE)
      /\ UNCHANGED <<flash, staging, cmd, seen, may, maySaved, flashTorn>>
  BY CutEntryIs
<1>2. \/ pc[p] \in {"parse", "cut"} /\ pc'[p] \in {"parse", "cut"}
      \/ pc[p] \in {"reparse", "recut"} /\ pc'[p] \in {"reparse", "recut"}
  BY CutEntryIs
<1>3. QED
  BY <1>1, <1>2, AloneEq

\* The '=' comes back to its own entry.
LEMMA AloneRestore ==
    ASSUME Shape, Keeping, Alone, NEW p \in Proc, Restore(p)
    PROVE  Alone'
<1>1. /\ Moves(p) /\ pc[p] \in Cutting /\ file[p] \in Inode /\ file'[p] = file[p]
      /\ UNCHANGED <<flash, staging, cmd, seen, may, maySaved, flashTorn>>
  BY RestoreIs
<1>2. IsTuple(Parsed(p)) /\ ~ Readable(Parsed(p))
  <2>1. ParseOK(files[file[p]], pc[p], ptr[p], tuples[p])
    BY <1>1, LabelSets DEF Keeping, HalfWay, HalfOK
  <2>2. files[file[p]] \in Image /\ ptr[p] \in Position
    BY <1>1 DEF Shape
  <2>3. QED
    BY <1>1, <2>1, <2>2, RestoredIs DEF Parsed
<1>3. files'[file[p]] = WithEq(files[file[p]], ptr[p], TRUE)
  BY <1>2, RestoreIs
<1>4. \/ pc[p] \in {"parse", "cut"} /\ pc'[p] \in {"parse", "cut"}
      \/ pc[p] \in {"reparse", "recut"} /\ pc'[p] \in {"reparse", "recut"}
  BY <1>1, LabelSets, RestoreIs
<1>5. QED
  BY <1>1, <1>2, <1>3, <1>4, AloneEq

\* The list that has its end again holds the table.
LEMMA AloneEndList ==
    ASSUME Shape, Keeping, Alone, NEW p \in Proc, EndList(p), trouble' = {}
    PROVE  Alone'
<1>1. /\ Moves(p) /\ pc[p] = "tuples" /\ file[p] \in Inode /\ file'[p] = file[p] /\ file[p] = staging
      /\ todo[p] = <<>> /\ files'[staging] = Ended(files[staging], ptr[p])
      /\ pc'[p] = "reparse" /\ cmd' = cmd
      /\ UNCHANGED <<flash, staging, seen, may, maySaved, flashTorn>>
  BY EndListIs
<1>2. pc[p] \in WriterPc /\ pc'[p] \notin SavingPc /\ pc'[p] \in Unsettled
  BY <1>1, MoreLabels, LabelSets DEF Unsettled
<1>3. tuples[p] \in After(p) /\ After(p)' = After(p)
  BY <1>1, <1>2, AfterSame DEF Alone, WriterOK
<1>4. ListStore(files'[staging]) \in After(p)
  <2>1. WrittenSoFar(files[staging], ptr[p], tuples[p], <<>>)
    BY <1>1 DEF Keeping, HalfWay, HalfOK
  <2>2. files[staging] \in Image /\ ptr[p] \in Position /\ tuples[p] \in Store
    BY <1>1 DEF Shape
  <2>3. QED
    BY <1>1, <1>3, <2>1, <2>2, EndedIsWhole
<1>5. WriterOK(p)'
  BY <1>1, <1>2, <1>3, <1>4 DEF WriterOK
<1>6. staging' \in Inode
  BY <1>1
<1>7. QED
  BY <1>1, <1>2, <1>5, <1>6, LabelSets, AloneAtFile

\* The commit took effect, or may have.
LEMMA AloneEndReparse ==
    ASSUME Shape, Alone, NEW p \in Proc, EndReparse(p), trouble' = {}
    PROVE  Alone'
<1>1. /\ Moves(p) /\ pc[p] = "reparse" /\ file[p] \in Inode /\ file'[p] = NoFile
      /\ UNCHANGED <<flash, files, staging, flashTorn>>
  BY EndReparseIs
<1>2. pc[p] \in WriterPc /\ pc[p] \in FilePc /\ pc[p] # "save_rest" /\ pc[p] # "unlink"
  BY <1>1, MoreLabels, LabelSets
<1>3. file[p] = staging /\ ListStore(files[staging]) \in After(p)
  BY <1>1, <1>2 DEF Alone, WriterOK
<1>4. staging \in Inode /\ staging # NoFile
  BY <1>1, <1>3, CellAssumption
<1>5. ASSUME cmd' = cmd, pc'[p] = "save_read", UNCHANGED <<seen, may, maySaved>> PROVE Alone'
  <2>1. After(p)' = After(p) /\ pc'[p] \notin FilePc /\ pc'[p] \in Unsettled
    BY <1>5, AfterSame, LabelSets DEF Unsettled
  <2>2. WriterOK(p)'
    BY <1>1, <1>3, <1>5, <2>1 DEF WriterOK
  <2>3. pc[p] \in Parsing
    BY <1>1, LabelSets
  <2>4. QED
    BY <1>1, <1>4, <1>5, <2>1, <2>2, <2>3, AloneAtFile
<1>6. ASSUME pc'[p] = "idle", NEW effect \in {"kept", "perhaps"}, Exit(p, effect, {}),
             effect = "kept" => ~ cmd[p].commit
      PROVE  Alone'
  <2>1. Settle(p, effect) /\ seen' = [seen EXCEPT ![p] = {}]
    BY <1>6, ExitIs
  <2>2. After(p) \subseteq may' /\ may' \subseteq may \cup After(p) /\ maySaved \subseteq maySaved'
    <3>1. cmd[p].commit \in BOOLEAN
      BY CommandFacts DEF Shape
    <3>2. CASE effect = "kept"
      BY <1>6, <2>1, <3>2, SettleIs
    <3>3. CASE effect = "perhaps"
      BY <2>1, <3>1, <3>3, SettleIs
    <3>4. QED
      BY <1>6, <3>2, <3>3
  <2>3. \A r \in Proc \ {p} : seen'[r] = seen[r]
    BY <2>1 DEF Shape
  <2>4. pc'[p] \notin WriterPc /\ pc'[p] \notin ReaderPc /\ pc'[p] # "save_rest"
    BY <1>6, PcSets, MoreLabels
  <2>5. StagedExpected' /\ FlashExpected'
    BY <1>1, <1>3, <1>4, <2>2 DEF StagedExpected, FlashExpected
  <2>6. PartitionExpected'
    <3>1. \A q \in Proc : pc'[q] \in {"save_rest", "unlink"} <=> pc[q] \in {"save_rest", "unlink"}
      BY <1>1, <1>6 DEF Moves, Stays
    <3>2. QED
      BY <1>1, <2>2, <3>1 DEF Alone, PartitionExpected
  <2>7. SaverNow' <=> SaverNow
    BY <1>1, <1>2, <2>4, SaverSame
  <2>8. QED
    BY <1>1, <1>2, <2>2, <2>3, <2>4, <2>5, <2>6, <2>7, AloneWriter
<1>7. QED
  BY <1>5, <1>6, EndReparseIs

\* The file named is the writer's own, or nobody's any more.
LEMMA AloneReadStaging ==
    ASSUME Shape, Alone, NEW p \in Proc, ReadStaging(p), trouble' = {}
    PROVE  Alone'
<1>1. Moves(p) /\ pc[p] = "save_read" /\ UNCHANGED <<flash, files, staging, flashTorn>>
  BY ReadStagingIs
<1>2. /\ pc[p] \in WriterPc /\ pc[p] \in SavingPc
      /\ pc[p] \notin {"save_rest", "unlink"}
  BY <1>1, MoreLabels, LabelSets
<1>3. (staging # NoFile => ListStore(files[staging]) \in After(p)) /\ cmd[p].commit
  BY <1>2 DEF Alone, WriterOK, Shape, HandleOK
<1>4. ASSUME pc'[p] \in {"idle", "save"}, may \subseteq may', maySaved \subseteq maySaved'
      PROVE  PartitionExpected' /\ FlashExpected'
  <2>1. \A q \in Proc : pc'[q] \in {"save_rest", "unlink"} <=> pc[q] \in {"save_rest", "unlink"}
    BY <1>1, <1>4 DEF Moves, Stays
  <2>2. PartitionExpected'
    BY <1>1, <1>4, <2>1 DEF Alone, PartitionExpected
  <2>3. QED
    BY <1>1, <1>4, <2>2 DEF Alone, FlashExpected
<1>5. ASSUME pc'[p] \in {"idle", "save"} PROVE SaverNow' <=> SaverNow
  BY <1>1, <1>2, <1>5, SaverSame
<1>6. ASSUME Exit(p, "perhaps", {}), pc'[p] = "idle" PROVE Alone'
  <2>1. Settle(p, "perhaps") /\ seen' = [seen EXCEPT ![p] = {}]
    BY <1>6, ExitIs
  <2>2. may' = may \cup After(p) /\ maySaved \subseteq maySaved'
    BY <1>3, <2>1, SettleIs
  <2>3. \A r \in Proc \ {p} : seen'[r] = seen[r]
    BY <2>1 DEF Shape
  <2>4. pc'[p] \notin WriterPc /\ pc'[p] \notin ReaderPc
    BY <1>6, PcSets, MoreLabels
  <2>5. StagedExpected'
    BY <1>1, <1>3, <2>2 DEF StagedExpected
  <2>6. QED
    BY <1>1, <1>2, <1>4, <1>5, <1>6, <2>2, <2>3, <2>4, <2>5, AloneWriter
<1>7. ASSUME staging \in Inode, pc'[p] = "save", buf'[p] = files[staging], cmd' = cmd,
             UNCHANGED <<seen, may, maySaved>>
      PROVE  Alone'
  <2>1. /\ After(p)' = After(p) /\ pc'[p] \notin FilePc /\ pc'[p] \notin ReaderPc /\ pc'[p] \in Unsettled
        /\ staging # NoFile
    BY <1>7, AfterSame, LabelSets, MoreLabels, CellAssumption DEF Unsettled
  <2>2. WriterOK(p)'
    BY <1>1, <1>3, <1>7, <2>1 DEF WriterOK
  <2>3. StagedExpected'
    BY <2>1 DEF StagedExpected
  <2>4. QED
    BY <1>1, <1>2, <1>4, <1>5, <1>7, <2>1, <2>2, <2>3, AloneWriter
<1>8. QED
  BY <1>6, <1>7, ReadStagingIs

\* While the partition is written nobody is promised what is in it.
LEMMA AloneSave ==
    ASSUME Shape, Alone, NEW p \in Proc, Save(p)
    PROVE  Alone'
<1>1. /\ Moves(p) /\ pc[p] = "save" /\ pc'[p] = "save_rest" /\ buf'[p] = buf[p]
      /\ UNCHANGED <<files, staging, cmd, seen, may, maySaved, flashTorn>>
  BY SaveIs
<1>2. /\ pc[p] \in WriterPc /\ pc[p] \in SavingPc /\ pc'[p] \in SavingPc /\ pc'[p] \notin FilePc
      /\ pc'[p] \notin ReaderPc /\ pc'[p] \in Unsettled
  BY <1>1, MoreLabels, LabelSets DEF Unsettled
<1>3. staging # NoFile /\ ListStore(files[staging]) \in After(p) /\ ListStore(buf[p]) \in After(p)
  BY <1>1, <1>2 DEF Alone, WriterOK
<1>4. After(p)' = After(p)
  BY <1>1, AfterSame
<1>5. WriterOK(p)'
  BY <1>1, <1>2, <1>3, <1>4 DEF WriterOK
<1>6. StagedExpected' /\ FlashExpected' /\ PartitionExpected'
  BY <1>1, <1>2, <1>3 DEF StagedExpected, FlashExpected, PartitionExpected
<1>7. SaverNow'
  BY <1>1 DEF SaverNow, Saving
<1>8. QED
  BY <1>1, <1>2, <1>5, <1>6, <1>7, AloneWriter

\* The partition holds what was committed.
LEMMA AloneSaveRest ==
    ASSUME Shape, Ends, Alone, NEW p \in Proc, SaveRest(p), trouble' = {}
    PROVE  Alone'
<1>1. /\ Moves(p) /\ pc[p] = "save_rest" /\ pc'[p] = "unlink" /\ buf[p] \in Image
      /\ UNCHANGED <<files, staging, cmd, seen, may, maySaved>>
      /\ ~ flashTorn' /\ flash' = RestPart(flash, buf[p])
  BY SaveRestIs
<1>2. /\ pc[p] \in WriterPc /\ pc[p] \in SavingPc /\ pc'[p] \in SavingPc /\ pc'[p] \notin FilePc
      /\ pc'[p] \notin ReaderPc /\ pc'[p] \in Unsettled
  BY <1>1, MoreLabels, LabelSets DEF Unsettled
<1>3. staging # NoFile /\ ListStore(files[staging]) \in After(p) /\ ListStore(buf[p]) \in After(p)
  BY <1>1, <1>2 DEF Alone, WriterOK
<1>4. After(p)' = After(p)
  BY <1>1, AfterSame
<1>5. ListStore(flash') \in After(p)
  <2>1. FirstCopied(flash, buf[p]) /\ flash \in Image
    BY <1>1, LabelSets DEF Ends, SaveBegun, Shape
  <2>2. flash'.cells = buf[p].cells
    BY <1>1, <2>1, CopyIsWhole
  <2>3. QED
    BY <1>3, <2>2, SameCells
<1>6. WriterOK(p)'
  BY <1>1, <1>2, <1>3, <1>4, <1>5 DEF WriterOK
<1>7. StagedExpected' /\ FlashExpected' /\ PartitionExpected'
  BY <1>1, <1>2, <1>3 DEF StagedExpected, FlashExpected, PartitionExpected
<1>8. QED
  BY <1>1, <1>2, <1>5, <1>6, <1>7, AloneWriter

\* The partition takes the place of the staging file.
LEMMA AloneUnlink ==
    ASSUME Shape, Alone, NEW p \in Proc, Unlink(p), trouble' = {}
    PROVE  Alone'
<1>1. /\ Moves(p) /\ pc[p] = "unlink" /\ pc'[p] = "idle" /\ staging' = NoFile
      /\ UNCHANGED <<flash, flashTorn>>
  BY UnlinkIs
<1>2. pc[p] \in WriterPc /\ pc[p] \in SavingPc /\ pc'[p] \notin ReaderPc /\ pc'[p] \notin WriterPc
      /\ pc[p] # "save_rest" /\ pc'[p] # "save_rest"
  BY <1>1, MoreLabels, LabelSets, PcSets
<1>3. staging # NoFile /\ ListStore(flash) \in After(p) /\ cmd[p].commit
  BY <1>1, <1>2 DEF Alone, WriterOK, Shape, HandleOK
<1>4. PICK what : Exit(p, "kept", what)
  BY <1>3, UnlinkIs
<1>5. Settle(p, "kept") /\ seen' = [seen EXCEPT ![p] = {}]
  BY <1>4, ExitIs
<1>6. may' = After(p) /\ maySaved' = After(p)
  BY <1>3, <1>5, SettleIs
<1>7. \A r \in Proc \ {p} : seen'[r] = seen[r]
  BY <1>5 DEF Shape
<1>8. StagedExpected' /\ FlashExpected' /\ PartitionExpected'
  BY <1>1, <1>3, <1>6 DEF StagedExpected, FlashExpected, PartitionExpected
<1>9. SaverNow' <=> SaverNow
  BY <1>1, <1>2, SaverSame
<1>10. QED
  BY <1>1, <1>2, <1>6, <1>7, <1>8, <1>9, AloneWriter

\* A writer killed outside its commit leaves the old store or the new one.
LEMMA AloneKill ==
    ASSUME Shape, Alone, NEW p \in Proc, Kill(p), trouble' = {}
    PROVE  Alone'
<1>1. /\ Moves(p) /\ pc[p] # "idle" /\ pc'[p] = "idle" /\ UNCHANGED <<flash, files, staging>>
      /\ flashTorn' = (flashTorn \/ Saving(p)) /\ seen' = [seen EXCEPT ![p] = {}]
      /\ pc[p] \notin {"tuples", "fill", "fill_rest"} \cup Cutting
  BY KillIs
<1>2. Settle(p, "perhaps")
  BY KillIs
<1>3. may' = may \cup After(p)
  BY <1>2, SettleIs
<1>4. \A r \in Proc \ {p} : seen'[r] = seen[r]
  BY <1>1 DEF Shape
<1>5. pc'[p] \notin WriterPc /\ pc'[p] \notin ReaderPc /\ pc[p] \in ReaderPc \cup WriterPc
  BY <1>1, PcSets, MoreLabels DEF Shape
<1>6. CASE pc[p] \in ReaderPc
  <2>1. pc[p] \notin WriterPc /\ pc[p] # "save_rest"
    BY <1>6, MoreLabels
  <2>2. may' = may /\ maySaved \subseteq maySaved'
    <3>1. cmd[p].commit \in BOOLEAN
      BY CommandFacts DEF Shape
    <3>2. QED
      BY <1>2, <1>3, <1>6, <3>1, ReadAsksNothing, SettleIs
  <2>3. flashTorn' <=> flashTorn
    BY <1>1, <2>1 DEF Saving
  <2>4. ~ Writing(p)'
    BY <1>1 DEF Writing, Running
  <2>5. QED
    BY <1>1, <1>4, <1>5, <2>1, <2>2, <2>3, <2>4, AloneReader
<1>7. CASE pc[p] \in WriterPc
  <2>1. WriterOK(p) /\ (pc[p] \in SavingPc => cmd[p].commit) /\ cmd[p].commit \in BOOLEAN
    BY <1>7, CommandFacts DEF Alone, Shape, HandleOK
  <2>2. /\ maySaved \subseteq maySaved'
        /\ cmd[p].commit => After(p) \subseteq maySaved'
    BY <1>2, <2>1, SettleIs
  <2>3. StagedExpected'
    <3> SUFFICES ASSUME staging # NoFile PROVE ListStore(files[staging]) \in may'
      BY <1>1 DEF StagedExpected
    <3>1. CASE pc[p] \in SavingPc \cup {"reparse"}
      BY <1>3, <2>1, <3>1 DEF WriterOK
    <3>2. CASE pc[p] \notin SavingPc \cup {"reparse"}
      <4>1. \A q \in Proc : pc[q] \notin Unsettled
        <5>1. pc[p] \notin Unsettled
          BY <1>1, <3>2, LabelSets DEF Unsettled
        <5>2. QED
          BY <1>1, <1>7, <5>1, OnlyWriter
      <4>2. QED
        BY <1>3, <4>1 DEF Alone, StagedExpected
    <3>3. QED
      BY <3>1, <3>2
  <2>4. FlashExpected'
    BY <1>1, <1>3 DEF Alone, FlashExpected
  <2>5. ~ flashTorn' => ~ flashTorn /\ pc[p] # "save_rest"
    BY <1>1 DEF Saving
  <2>6. PartitionExpected'
    <3> SUFFICES ASSUME ~ flashTorn' PROVE ListStore(flash) \in maySaved'
      BY <1>1 DEF PartitionExpected
    <3>1. CASE pc[p] = "unlink"
      BY <2>1, <2>2, <3>1, LabelSets DEF WriterOK
    <3>2. CASE pc[p] # "unlink"
      <4>1. \A q \in Proc : pc[q] \notin {"save_rest", "unlink"}
        BY <1>1, <1>7, <2>5, <3>2, OnlyWriter, LabelSets DEF Unsettled
      <4>2. QED
        BY <2>2, <2>5, <4>1 DEF Alone, PartitionExpected
    <3>3. QED
      BY <3>1, <3>2
  <2>7. ~ flashTorn' /\ ~ SaverNow' => flash' = flash /\ ~ flashTorn /\ ~ SaverNow
    BY <1>1, <1>7, <2>5, OnlyWriter
  <2>8. QED
    BY <1>1, <1>3, <1>4, <1>5, <1>7, <2>3, <2>4, <2>6, <2>7, AloneWriter
<1>8. QED
  BY <1>5, <1>6, <1>7

\* The partition holds what was saved, or what a commit was about to leave.
LEMMA AlonePowerLoss ==
    ASSUME Shape, Alone, PowerLoss, trouble' = {}
    PROVE  Alone'
<1>1. /\ \A p \in Proc : pc'[p] = "idle"
      /\ staging' = NoFile /\ flash' = flash /\ flashTorn' = (flashTorn \/ \E p \in Proc : Saving(p))
      /\ ~ flashTorn' /\ may' = maySaved' /\ maySaved \subseteq may'
  BY PowerLossIs
<1>2. \A p \in Proc : pc'[p] \notin WriterPc /\ pc'[p] \notin ReaderPc
  BY <1>1, PcSets
<1>3. ~ flashTorn /\ \A p \in Proc : pc[p] # "save_rest"
  BY <1>1 DEF Saving
<1>4. ListStore(flash) \in may'
  <2>1. ASSUME NEW p \in Proc, pc[p] = "unlink" PROVE ListStore(flash) \in may'
    <3>1. pc[p] \in WriterPc /\ pc[p] \in SavingPc
      BY <2>1, MoreLabels, LabelSets
    <3>2. ListStore(flash) \in After(p) /\ cmd[p].commit
      BY <2>1, <3>1 DEF Alone, WriterOK, Shape, HandleOK
    <3>3. After(p) \subseteq may'
      BY <3>2, PowerLossIs
    <3>4. QED
      BY <3>2, <3>3
  <2>2. CASE \A p \in Proc : pc[p] # "unlink"
    BY <1>1, <1>3, <2>2 DEF Alone, PartitionExpected
  <2>3. QED
    BY <2>1, <2>2
<1>5. StagedExpected' /\ FlashExpected' /\ PartitionExpected'
  BY <1>1, <1>4 DEF StagedExpected, FlashExpected, PartitionExpected
<1>6. OneWriting'
  BY <1>1 DEF OneWriting, Writing, Running
<1>7. QED
  BY <1>2, <1>5, <1>6 DEF Alone

-----------------------------------------------------------------------------
AloneOK == trouble = {} => Alone

\* AloneOK holds at first.
LEMMA AloneInit == Init => AloneOK
<1> SUFFICES ASSUME Init PROVE Alone
  BY DEF AloneOK
<1>1. /\ \A p \in Proc : pc[p] = "idle"
      /\ flash = ImageOf(FirstStore) /\ staging = NoFile /\ may = {FirstStore} /\ maySaved = {FirstStore}
  BY DEF Init
<1>2. \A p \in Proc : pc[p] \notin WriterPc /\ pc[p] \notin ReaderPc
  BY <1>1, PcSets
<1>3. ListStore(flash) = FirstStore
  BY <1>1, ImageOfFirst
<1>4. QED
  BY <1>1, <1>2, <1>3 DEF Alone, OneWriting, Writing, Running, StagedExpected, FlashExpected, PartitionExpected

\* Every step keeps AloneOK.
LEMMA AloneNext == Shape /\ EndsOK /\ KeepingOK /\ AloneOK /\ [Next]_vars => AloneOK'
<1> SUFFICES ASSUME Shape, EndsOK, KeepingOK, AloneOK, [Next]_vars, trouble' = {} PROVE Alone'
  BY DEF AloneOK
<1>1. CASE UNCHANGED vars
  <2>1. /\ UNCHANGED <<flash, files, staging, pc, cmd, file, tuples, buf, seen, may, maySaved>>
        /\ UNCHANGED <<flashTorn, trouble>>
    BY <1>1 DEF vars, process, history
  <2>2. Alone
    BY <2>1 DEF AloneOK
  <2>3. SaverNow' <=> SaverNow
    BY <2>1 DEF SaverNow, Saving
  <2>4. \A p \in Proc : After(p)' = After(p)
    BY <2>1 DEF After
  <2>5. \A p \in Proc : pc[p] \in WriterPc => WriterOK(p)'
    BY <2>1, <2>2, <2>4 DEF Alone, WriterOK
  <2>6. \A r \in Proc : pc[r] \in ReaderPc => ReaderOK(r)'
    BY <2>1, <2>2, <2>3, <2>4 DEF Alone, ReaderOK
  <2>7. QED
    BY <2>1, <2>2, <2>5, <2>6 DEF Alone, OneWriting, Writing, Running, StagedExpected, FlashExpected, PartitionExpected
<1>2. CASE Next
  <2>1. Alone /\ Keeping /\ Ends
    <3>1. trouble = {}
      BY <1>2, TroubleStays
    <3>2. QED
      BY <3>1 DEF AloneOK, KeepingOK, EndsOK
  <2>2. CASE PowerLoss
    BY <2>1, <2>2, AlonePowerLoss
  <2>3. ASSUME NEW p \in Proc, Step(p) PROVE Alone'
    <3>1. CASE Start(p) \/ FindForReading(p) \/ OpenReading(p) \/ ReadRest(p) \/ Close(p)
      BY <2>1, <3>1, AloneStart, AloneFindForReading, AloneOpenReading, AloneReadRest, AloneClose
    <3>2. CASE FindStaging(p) \/ ReadFlash(p) \/ CreateStaging(p) \/ Fill(p) \/ FillRest(p)
      BY <2>1, <3>2, AloneFindStaging, AloneReadFlash, AloneCreate, AloneFill, AloneFillRest
    <3>3. CASE OpenStaging(p) \/ Clear(p) \/ WriteTuple(p) \/ EndList(p)
      BY <2>1, <3>3, AloneOpenStaging, AloneClear, AloneWriteTuple, AloneEndList
    <3>4. CASE CutEntry(p) \/ Restore(p) \/ EndParse(p) \/ EndReparse(p)
      BY <2>1, <3>4, AloneCutEntry, AloneRestore, AloneEndParse, AloneEndReparse
    <3>5. CASE ReadStaging(p) \/ Save(p) \/ SaveRest(p) \/ Unlink(p) \/ Kill(p)
      BY <2>1, <3>5, AloneReadStaging, AloneSave, AloneSaveRest, AloneUnlink, AloneKill
    <3>6. QED
      BY <2>3, <3>1, <3>2, <3>3, <3>4, <3>5 DEF Step
  <2>4. QED
    BY <1>2, <2>2, <2>3 DEF Next
<1>3. QED
  BY <1>1, <1>2

\* ViewIsExpected: when no writer runs, what a user finds, in the staging file or in the partition, is what the
\* commands made of it one after another, in spite of power cuts and of kills outside copies, commits and the
\* moments when a parser has a NUL over a '='.
THEOREM ViewAlwaysExpected == Spec => []ViewIsExpected
<1>1. Shape /\ EndsOK /\ KeepingOK /\ AloneOK => ViewIsExpected
  <2> SUFFICES ASSUME Shape, EndsOK, KeepingOK, AloneOK, Quiet, trouble = {}
               PROVE  ~ Holed(Current) /\ StoreOf(Current) \in may
    BY DEF ViewIsExpected
  <2>1. Alone /\ Keeping /\ Ends
    BY DEF AloneOK, KeepingOK, EndsOK
  <2>2. \A p \in Proc : pc[p] \notin WriterPc
    BY QuietNow
  <2>3. \A p \in Proc : pc[p] \notin {"fill", "fill_rest", "tuples", "save_rest"} \cup Unsettled \cup HalfWritten
    BY <2>2, MoreLabels, LabelSets DEF HalfWritten
  <2>4. CASE staging # NoFile
    <3>1. staging \in Inode /\ Current = files[staging]
      BY <2>4 DEF Shape, Current
    <3>2. ListStore(files[staging]) \in may
      BY <2>1, <2>3, <2>4 DEF Alone, StagedExpected
    <3>3. EndComes(staging)
      BY <2>1, <3>1 DEF Ends, FilesEnd, InUse
    <3>4. HasEnd(files[staging])
      BY <2>3, <3>3, LabelSets DEF EndComes
    <3>5. AllRead(files[staging])
      BY <2>1, <2>3, <2>4, StagedGood DEF Good
    <3>6. QED
      BY <3>1, <3>2, <3>4, <3>5, HoledIs, ReadAll
  <2>5. CASE staging = NoFile
    <3>1. Current = flash /\ ListStore(flash) \in may
      BY <2>1, <2>5 DEF Alone, FlashExpected, Current
    <3>2. ~ flashTorn /\ ~ SaverNow
      BY <2>1, <2>3, <2>5 DEF Keeping, TornIsStaged, SaverNow, Saving
    <3>3. HasEnd(flash) /\ AllRead(flash)
      BY <2>1, <3>2 DEF Ends, FlashHasEnd, Keeping, FlashKeeps, Good
    <3>4. QED
      BY <3>1, <3>3, HoledIs, ReadAll
  <2>6. QED
    BY <2>4, <2>5
<1>2. QED
  BY <1>1, ShapeInit, ShapeNext, EndsInit, EndsNext, KeepsInit, KeepsNext, AloneInit, AloneNext, PTL DEF Spec

\* SavedIsExpected: between writes the partition holds a store somebody committed, whole and with an end to its
\* list, and never the contents of a file that stayed short.
THEOREM SavedAlwaysExpected == Spec => []SavedIsExpected
<1>1. Shape /\ EndsOK /\ KeepingOK /\ AloneOK => SavedIsExpected
  <2>1. Shape => ~ Short(flash)
    BY DEF Shape
  <2>2. ASSUME Shape, EndsOK, KeepingOK, AloneOK, \A p \in Proc : pc[p] \notin {"save_rest", "unlink"},
               ~ flashTorn, trouble = {}
        PROVE  ~ Holed(flash) /\ StoreOf(flash) \in maySaved
    <3>1. Alone /\ Keeping /\ Ends
      BY <2>2 DEF AloneOK, KeepingOK, EndsOK
    <3>2. ListStore(flash) \in maySaved
      BY <2>2, <3>1 DEF Alone, PartitionExpected
    <3>3. ~ SaverNow
      BY <2>2 DEF SaverNow, Saving
    <3>4. HasEnd(flash) /\ AllRead(flash)
      BY <2>2, <3>1, <3>3 DEF Ends, FlashHasEnd, Keeping, FlashKeeps, Good
    <3>5. QED
      BY <3>2, <3>4, HoledIs, ReadAll
  <2>3. QED
    BY <2>1, <2>2 DEF SavedIsExpected
<1>2. QED
  BY <1>1, ShapeInit, ShapeNext, EndsInit, EndsNext, KeepsInit, KeepsNext, AloneInit, AloneNext, PTL DEF Spec

\* ReadIsRecent: a reader is told what the variables were at some time while it ran, or may have been made by a
\* command that ran then, if nobody was writing what it mapped and it did not change while its pages were copied.
THEOREM ReadAlwaysRecent == Spec => []ReadIsRecent
<1>1. Shape /\ AloneOK => ReadIsRecent
  <2> SUFFICES ASSUME Shape, AloneOK, trouble = {}, NEW p \in Proc, pc[p] = "got" PROVE tuples[p] \in seen[p]
    BY DEF ReadIsRecent
  <2>1. pc[p] \in ReaderPc /\ Alone
    BY MoreLabels DEF AloneOK
  <2>2. ReaderOK(p)
    BY <2>1 DEF Alone
  <2>3. QED
    BY <2>2 DEF ReaderOK
<1>2. QED
  BY <1>1, ShapeInit, ShapeNext, EndsInit, EndsNext, KeepsInit, KeepsNext, AloneInit, AloneNext, PTL DEF Spec
==================================================================================
