------------------------------- MODULE Numbers -------------------------------
(***************************************************************************)
(* Lemmas about remainders, about the slots of a ring that free-running    *)
(* counters index, about least and greatest numbers, and about sums.  The  *)
(* drivers and the engine count in unsigned integers that wrap around and  *)
(* reduce them to places in tables, and the properties about lost packets  *)
(* add up counters; the proofs about them rest on these facts.             *)
(***************************************************************************)
EXTENDS Integers, FiniteSets, Functions, FiniteSetTheorems, WellFoundedInduction, TLAPS

-----------------------------------------------------------------------------
(***************************************************************************)
(* Remainders.                                                             *)
(***************************************************************************)
\* A remainder is smaller than the divisor.
LEMMA ModRange == ASSUME NEW a \in Int, NEW b \in Nat \ {0} PROVE a % b \in 0 .. b - 1
OBVIOUS

\* A number is its quotient times the divisor and its remainder.
LEMMA ModDiv ==
    ASSUME NEW a \in Int, NEW b \in Nat \ {0}
    PROVE  a \div b \in Int /\ a = (a \div b) * b + (a % b)
OBVIOUS

\* There is no other way to write it so.
LEMMA ModUnique ==
    ASSUME NEW q \in Int, NEW b \in Nat \ {0}, NEW r \in 0 .. b - 1
    PROVE  (q * b + r) % b = r
OBVIOUS

\* A multiple of the divisor does not change the remainder.
LEMMA ModAdd ==
    ASSUME NEW a \in Int, NEW q \in Int, NEW b \in Nat \ {0}
    PROVE  (a + q * b) % b = a % b
<1>1. a % b \in 0 .. b - 1 /\ a \div b \in Int /\ a = (a \div b) * b + (a % b)
  BY ModRange, ModDiv
<1>2. a + q * b = ((a \div b) + q) * b + (a % b)
  BY <1>1
<1>3. (((a \div b) + q) * b + (a % b)) % b = a % b
  BY <1>1, ModUnique
<1>4. QED
  BY <1>2, <1>3

\* A counter that wraps at a multiple of the divisor keeps its remainder.
LEMMA ModMod ==
    ASSUME NEW a \in Int, NEW n \in Int, NEW w \in Nat \ {0}, NEW b \in Nat \ {0}, w % b = 0
    PROVE  ((a % w) + n) % b = (a + n) % b
<1> DEFINE q == a \div w
           p == w \div b
<1>1. q \in Int /\ a % w \in Int /\ a = q * w + (a % w)
  BY ModRange, ModDiv
<1>2. p \in Int /\ w = p * b
  BY ModDiv
<1> DEFINE k == q * p
           r == a % w
<1> HIDE DEF q, p
<1>3. k \in Int /\ q * w = k * b
  BY <1>1, <1>2
<1> HIDE DEF k
<1>4. r \in Int /\ a = k * b + r
  BY <1>1, <1>3
<1> HIDE DEF r
<1> DEFINE s == r + n
<1>5. s \in Int /\ a + n = s + k * b
  BY <1>3, <1>4
<1> HIDE DEF s
<1>6. (s + k * b) % b = s % b
  BY <1>3, <1>5, ModAdd
<1>7. s % b = (a + n) % b
  BY <1>5, <1>6
<1>8. QED
  BY <1>7 DEF s, r

\* The same facts about a name for the remainder: an arithmetic prover would
\* rather work with % than look for an instance of a lemma about it.
Rem(a, b) == a % b

\* A sum has the same remainder when a term is reduced first by a multiple of the divisor.
LEMMA RemMod ==
    ASSUME NEW a \in Int, NEW n \in Int, NEW w \in Nat \ {0}, NEW b \in Nat \ {0}, Rem(w, b) = 0
    PROVE  Rem(Rem(a, w) + n, b) = Rem(a + n, b)
<1>1. ((a % w) + n) % b = (a + n) % b
  BY ModMod DEF Rem
<1>2. QED
  BY <1>1 DEF Rem

\* So has a difference.
LEMMA RemLess ==
    ASSUME NEW a \in Int, NEW n \in Int, NEW w \in Nat \ {0}, NEW b \in Nat \ {0}, Rem(w, b) = 0
    PROVE  Rem(Rem(a, w) - n, b) = Rem(a - n, b)
<1> DEFINE m == -n
<1>1. m \in Int /\ a + m = a - n
  OBVIOUS
<1>2. Rem(a, w) \in Int
  BY ModRange DEF Rem
<1>3. Rem(a, w) + m = Rem(a, w) - n
  BY <1>2
<1> HIDE DEF m
<1>4. Rem(Rem(a, w) + m, b) = Rem(a + m, b)
  BY <1>1, RemMod
<1>5. QED
  BY <1>1, <1>3, <1>4

\* Or when what is subtracted is reduced by the divisor.
LEMMA RemFrom ==
    ASSUME NEW a \in Int, NEW n \in Int, NEW b \in Nat \ {0}
    PROVE  Rem(a - Rem(n, b), b) = Rem(a - n, b)
<1> DEFINE q == n \div b
           r == n % b
<1>1. q \in Int /\ r \in Int /\ n = q * b + r
  BY ModDiv, ModRange
<1> DEFINE k == q * b
<1>2. k \in Int
  BY <1>1
<1> HIDE DEF r
<1>3. (a - n) + k = a - r
  BY <1>1, <1>2
<1>4. a - n \in Int
  OBVIOUS
<1> DEFINE m == a - n
<1>5. m \in Int
  BY <1>4
<1> HIDE DEF m, q
<1>6. (m + q * b) % b = m % b
  BY <1>1, <1>5, ModAdd
<1>7. (a - r) % b = (a - n) % b
  BY <1>3, <1>6 DEF m
<1>8. QED
  BY <1>7 DEF Rem, r

\* The divisor leaves no remainder.
LEMMA RemSelf == ASSUME NEW b \in Nat \ {0} PROVE Rem(b, b) = 0
BY ModUnique DEF Rem

\* A remainder is below the divisor.
LEMMA RemRange == ASSUME NEW a \in Int, NEW b \in Nat \ {0} PROVE Rem(a, b) \in 0 .. b - 1
BY ModRange DEF Rem

\* Numbers below the divisor are their own remainders.
LEMMA ModSmall == ASSUME NEW b \in Nat \ {0}, NEW r \in 0 .. b - 1 PROVE r % b = r
OBVIOUS

\* Numbers less than the divisor apart are equal when their remainders are.
LEMMA ModInjective ==
    ASSUME NEW a \in Int, NEW n \in Int, NEW m \in Int, NEW b \in Nat \ {0},
           n - m < b, m - n < b, (a + n) % b = (a + m) % b
    PROVE  n = m
<1> DEFINE x == (a + n) \div b
           y == (a + m) \div b
           c == x - y
<1>1. x \in Int /\ a + n = x * b + ((a + n) % b)
  BY ModDiv
<1>2. y \in Int /\ a + m = y * b + ((a + m) % b)
  BY ModDiv
<1>3. (a + n) % b \in Int
  BY ModRange
<1> HIDE DEF x, y
<1>4. c \in Int /\ c * b = x * b - y * b
  BY <1>1, <1>2
<1>5. c * b = n - m
  BY <1>1, <1>2, <1>3, <1>4
<1> HIDE DEF c
<1>6. c < 1
  <2> SUFFICES ASSUME c >= 1 PROVE FALSE
    BY <1>4
  <2>1. c * b >= 1 * b
    BY <1>4
  <2>2. QED
    BY <2>1, <1>5
<1>7. c > -1
  <2> SUFFICES ASSUME c <= -1 PROVE FALSE
    BY <1>4
  <2>1. (-c) * b >= 1 * b
    BY <1>4
  <2>2. QED
    BY <2>1, <1>4, <1>5
<1>8. c = 0
  BY <1>4, <1>6, <1>7
<1>9. c * b = 0
  BY <1>8
<1>10. QED
  BY <1>5, <1>9

-----------------------------------------------------------------------------
(***************************************************************************)
(* Least and greatest numbers.  The least member of a set is what an       *)
(* argument by induction needs: the least counterexample.                  *)
(***************************************************************************)
\* A set of natural numbers that is not empty has a least member.
LEMMA LeastNat ==
    ASSUME NEW T, T \subseteq Nat, T # {}
    PROVE  \E x \in T : \A y \in T : x <= y
<1> DEFINE R == OpToRel(<, Nat)
<1>1. IsWellFoundedOn(R, Nat)
  BY NatLessThanWellFounded
<1>2. \A x, y \in Nat : <<x, y>> \in R <=> x < y
  BY DEF OpToRel
<1> HIDE DEF R
<1>3. PICK x \in T : \A y \in T : ~ (<<y, x>> \in R)
  BY <1>1, WFMin
<1>4. ASSUME NEW y \in T PROVE x <= y
  <2>1. x \in Nat /\ y \in Nat /\ ~ (<<y, x>> \in R)
    BY <1>3
  <2>2. ~ (y < x)
    BY <1>2, <2>1
  <2>3. QED
    BY <2>1, <2>2
<1>5. QED
  BY <1>4

\* One that is bounded has a greatest.
LEMMA GreatestNat ==
    ASSUME NEW T, NEW b \in Nat, T \subseteq 0 .. b, T # {}
    PROVE  \E x \in T : \A y \in T : y <= x
<1> DEFINE U == {b - t : t \in T}
<1>1. U \subseteq Nat
  OBVIOUS
<1>2. PICK t \in T : TRUE
  OBVIOUS
<1>3. b - t \in U
  BY <1>2
<1>4. PICK u \in U : \A v \in U : u <= v
  BY <1>1, <1>3, LeastNat
<1>5. PICK x \in T : u = b - x
  OBVIOUS
<1>6. ASSUME NEW y \in T PROVE y <= x
  <2>1. b - y \in U
    OBVIOUS
  <2>2. u <= b - y
    BY <1>4, <2>1
  <2>3. x \in Int /\ y \in Int
    OBVIOUS
  <2>4. QED
    BY <1>5, <2>2, <2>3
<1>7. QED
  BY <1>6

-----------------------------------------------------------------------------
(***************************************************************************)
(* Sums.  SumFunctionOnSet(f, S) takes the elements of S one by one, in an *)
(* order nobody knows; IsSum says that h has its result for every set in D.*)
(***************************************************************************)
Chosen(s) == CHOOSE x \in s : TRUE

IsSum(h, f, D) == h = [s \in D |-> IF s = {} THEN 0 ELSE f[Chosen(s)] + h[s \ {Chosen(s)}]]

\* There is such an h for the subsets of a finite set.
LEMMA SumExists ==
    ASSUME NEW f, NEW S, IsFiniteSet(S)
    PROVE  \E h : IsSum(h, f, SUBSET S)
<1> DEFINE Small(n) == {s \in SUBSET S : Cardinality(s) <= n}
           Missing == {n \in Nat : ~ \E h : IsSum(h, f, Small(n))}
<1>1. \A s \in SUBSET S : IsFiniteSet(s) /\ Cardinality(s) \in Nat /\ Cardinality(s) <= Cardinality(S)
  BY FS_Subset, FS_CardinalityType
<1>2. Cardinality(S) \in Nat
  BY FS_CardinalityType
<1>3. Small(Cardinality(S)) = SUBSET S
  BY <1>1
<1>4. Missing = {}
  <2>1. SUFFICES ASSUME Missing # {} PROVE FALSE
    OBVIOUS
  <2>2. PICK n \in Missing : \A m \in Missing : n <= m
    BY <2>1, LeastNat
  <2>3. n \in Nat
    OBVIOUS
  <2>4. CASE n = 0
    <3>1. \A s \in Small(0) : s = {}
      BY <1>1, FS_EmptySet
    <3>2. IsSum([s \in Small(0) |-> 0], f, Small(0))
      BY <3>1 DEF IsSum
    <3>3. QED
      BY <2>4, <3>2
  <2>5. CASE n # 0
    <3>1. n - 1 \in Nat /\ ~ (n <= n - 1)
      BY <2>3, <2>5
    <3>2. PICK h : IsSum(h, f, Small(n - 1))
      <4> HIDE DEF Small
      <4>1. n - 1 \notin Missing
        <5> HIDE DEF Missing
        <5>1. QED
          BY <2>2, <3>1
      <4>2. QED
        BY <3>1, <4>1
    <3> DEFINE g == [s \in Small(n) |-> IF s = {} THEN 0 ELSE f[Chosen(s)] + h[s \ {Chosen(s)}]]
    <3>3. ASSUME NEW t \in Small(n - 1) PROVE t \in Small(n) /\ g[t] = h[t]
      <4>1. t \in Small(n)
        BY <1>1, <2>3
      <4>2. h[t] = IF t = {} THEN 0 ELSE f[Chosen(t)] + h[t \ {Chosen(t)}]
        BY <3>2 DEF IsSum
      <4>3. QED
        BY <4>1, <4>2
    <3>4. ASSUME NEW s \in Small(n), s # {} PROVE s \ {Chosen(s)} \in Small(n - 1)
      <4>1. Chosen(s) \in s
        BY <3>4 DEF Chosen
      <4>2. Cardinality(s \ {Chosen(s)}) = Cardinality(s) - 1
        BY <1>1, <4>1, FS_RemoveElement
      <4>3. QED
        BY <1>1, <2>3, <4>2
    <3>5. IsSum(g, f, Small(n))
      <4>1. ASSUME NEW s \in Small(n)
            PROVE  g[s] = IF s = {} THEN 0 ELSE f[Chosen(s)] + g[s \ {Chosen(s)}]
        BY <3>3, <3>4
      <4>2. g = [s \in Small(n) |-> g[s]]
        OBVIOUS
      <4> HIDE DEF g
      <4>3. QED
        BY <4>1, <4>2 DEF IsSum
    <3>6. QED
      BY <3>5
  <2>6. QED
    BY <2>4, <2>5
<1>5. QED
  BY <1>2, <1>3, <1>4

\* The sum over a finite set is the last value of its recursion.
LEMMA SumIs ==
    ASSUME NEW f, NEW S, IsFiniteSet(S)
    PROVE  \E h : IsSum(h, f, SUBSET S) /\ SumFunctionOnSet(f, S) = h[S]
<1> DEFINE h == CHOOSE h : h = [s \in SUBSET S |->
                                  IF s = {} THEN 0 ELSE f[Chosen(s)] + h[s \ {Chosen(s)}]]
<1>1. SumFunctionOnSet(f, S) = h[S]
  BY DEF SumFunctionOnSet, FoldFunctionOnSet, MapThenFoldSet, Chosen
<1>2. IsSum(h, f, SUBSET S)
  <2>1. PICK k : IsSum(k, f, SUBSET S)
    BY SumExists
  <2>2. \E g : g = [s \in SUBSET S |-> IF s = {} THEN 0 ELSE f[Chosen(s)] + g[s \ {Chosen(s)}]]
    BY <2>1 DEF IsSum
  <2>3. QED
    BY <2>2 DEF IsSum
<1>3. QED
  BY <1>1, <1>2

\* A step of the sum.
LEMMA SumUnfold ==
    ASSUME NEW f, NEW S, NEW h, IsSum(h, f, SUBSET S), NEW s \in SUBSET S, s # {}
    PROVE  /\ Chosen(s) \in s /\ s \ {Chosen(s)} \in SUBSET S
           /\ h[s] = f[Chosen(s)] + h[s \ {Chosen(s)}]
<1>1. Chosen(s) \in s
  BY DEF Chosen
<1>2. QED
  BY <1>1 DEF IsSum

\* The sum of numbers is a number, that of zeros is zero, and when one of them
\* changes, so does the sum.
LEMMA SumChange ==
    ASSUME NEW S, IsFiniteSet(S), NEW f \in [S -> Int], NEW g \in [S -> Int], NEW x \in S,
           \A y \in S \ {x} : g[y] = f[y]
    PROVE  /\ SumFunctionOnSet(f, S) \in Int /\ SumFunctionOnSet(g, S) \in Int
           /\ SumFunctionOnSet(g, S) = SumFunctionOnSet(f, S) + g[x] - f[x]
<1>1. PICK hf : IsSum(hf, f, SUBSET S) /\ SumFunctionOnSet(f, S) = hf[S]
  BY SumIs
<1>2. PICK hg : IsSum(hg, g, SUBSET S) /\ SumFunctionOnSet(g, S) = hg[S]
  BY SumIs
<1>0. ASSUME NEW s \in SUBSET S, s # {}
      PROVE  /\ Chosen(s) \in s /\ s \ {Chosen(s)} \in SUBSET S
             /\ hf[s] = f[Chosen(s)] + hf[s \ {Chosen(s)}]
             /\ hg[s] = g[Chosen(s)] + hg[s \ {Chosen(s)}]
  <2>1. IsSum(hf, f, SUBSET S) /\ IsSum(hg, g, SUBSET S)
    BY <1>1, <1>2
  <2>2. hf[s] = f[Chosen(s)] + hf[s \ {Chosen(s)}]
    BY <1>0, <2>1 DEF IsSum
  <2>3. hg[s] = g[Chosen(s)] + hg[s \ {Chosen(s)}]
    BY <1>0, <2>1 DEF IsSum
  <2>4. QED
    BY <1>0, <2>2, <2>3 DEF Chosen
<1> DEFINE Good(s) == /\ hf[s] \in Int /\ hg[s] \in Int
                      /\ hg[s] = hf[s] + IF x \in s THEN g[x] - f[x] ELSE 0
           Bad == {n \in Nat : \E s \in SUBSET S : Cardinality(s) = n /\ ~ Good(s)}
<1>3. \A s \in SUBSET S : IsFiniteSet(s) /\ Cardinality(s) \in Nat
  BY FS_Subset, FS_CardinalityType
<1>4. Bad = {}
  <2>1. SUFFICES ASSUME Bad # {} PROVE FALSE
    OBVIOUS
  <2>2. PICK n \in Bad : \A m \in Bad : n <= m
    BY <2>1, LeastNat
  <2>3. PICK s \in SUBSET S : Cardinality(s) = n /\ ~ Good(s)
    OBVIOUS
  <2>4. CASE s = {}
    <3>1. hf[s] = 0 /\ hg[s] = 0
      BY <1>1, <1>2, <2>4 DEF IsSum
    <3>2. QED
      BY <2>3, <2>4, <3>1
  <2>5. CASE s # {}
    <3> DEFINE c == Chosen(s)
               r == s \ {c}
    <3>1. /\ c \in s /\ r \in SUBSET S
          /\ hf[s] = f[c] + hf[r] /\ hg[s] = g[c] + hg[r]
      BY <1>0, <2>5
    <3> HIDE DEF c
    <3>2. Cardinality(r) = n - 1 /\ n \in Nat
      BY <1>3, <2>3, <3>1, FS_RemoveElement
    <3>3. Cardinality(r) \in Nat
      BY <1>3, <3>1
    <3>4. Good(r)
      <4>1. n - 1 \notin Bad
        BY <2>2, <3>2, <3>3
      <4>2. QED
        BY <3>1, <3>2, <3>3, <4>1
    <3>5. f[c] \in Int /\ g[c] \in Int /\ f[x] \in Int /\ g[x] \in Int
      BY <3>1
    <3>6. Good(s)
      <4>1. CASE c = x
        <5>1. hg[r] = hf[r] + 0 /\ hf[r] \in Int /\ hg[r] \in Int /\ x \in s
          BY <3>1, <3>4, <4>1
        <5>2. QED
          BY <3>1, <3>5, <4>1, <5>1
      <4>2. CASE c # x
        <5>1. g[c] = f[c] /\ (x \in r <=> x \in s)
          BY <3>1, <4>2
        <5>2. QED
          BY <3>1, <3>4, <3>5, <5>1
      <4>3. QED
        BY <4>1, <4>2
    <3>7. QED
      BY <2>3, <3>6
  <2>6. QED
    BY <2>4, <2>5
<1>5. Cardinality(S) \in Nat /\ Cardinality(S) \notin Bad
  BY <1>4, FS_CardinalityType
<1>6. Good(S)
  BY <1>5
<1>7. QED
  BY <1>1, <1>2, <1>6

\* The sum of zeros.
LEMMA SumZero ==
    ASSUME NEW S, IsFiniteSet(S), NEW f, \A y \in S : f[y] = 0
    PROVE  SumFunctionOnSet(f, S) = 0
<1>1. PICK h : IsSum(h, f, SUBSET S) /\ SumFunctionOnSet(f, S) = h[S]
  BY SumIs
<1> DEFINE Bad == {n \in Nat : \E s \in SUBSET S : Cardinality(s) = n /\ h[s] # 0}
<1>2. \A s \in SUBSET S : IsFiniteSet(s) /\ Cardinality(s) \in Nat
  BY FS_Subset, FS_CardinalityType
<1>3. Bad = {}
  <2>1. SUFFICES ASSUME Bad # {} PROVE FALSE
    OBVIOUS
  <2>2. PICK n \in Bad : \A m \in Bad : n <= m
    BY <2>1, LeastNat
  <2>3. PICK s \in SUBSET S : Cardinality(s) = n /\ h[s] # 0
    OBVIOUS
  <2>4. s # {}
    BY <1>1, <2>3 DEF IsSum
  <2> DEFINE c == Chosen(s)
             r == s \ {c}
  <2>5. c \in s /\ r \in SUBSET S /\ h[s] = f[c] + h[r]
    BY <1>1, <2>4, SumUnfold
  <2> HIDE DEF c
  <2>6. Cardinality(r) = n - 1 /\ Cardinality(r) \in Nat /\ n \in Nat
    BY <1>2, <2>3, <2>5, FS_RemoveElement
  <2>7. h[r] = 0
    BY <2>2, <2>5, <2>6
  <2>8. QED
    BY <2>3, <2>5, <2>7
<1>4. Cardinality(S) \in Nat /\ Cardinality(S) \notin Bad
  BY <1>3, FS_CardinalityType
<1>5. QED
  BY <1>1, <1>4

\* The sum of numbers is a number.
LEMMA SumType ==
    ASSUME NEW S, IsFiniteSet(S), NEW f \in [S -> Int]
    PROVE  SumFunctionOnSet(f, S) \in Int
<1>1. CASE S = {}
  <2>1. SumFunctionOnSet(f, S) = 0
    BY <1>1, SumZero
  <2>2. QED
    BY <2>1
<1>2. CASE S # {}
  <2>1. PICK x : x \in S
    BY <1>2
  <2>2. QED
    BY <2>1, SumChange
<1>3. QED
  BY <1>1, <1>2
=============================================================================
