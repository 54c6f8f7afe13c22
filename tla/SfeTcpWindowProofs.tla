------------------------- MODULE SfeTcpWindowProofs -------------------------
(***************************************************************************)
(* Proofs about SfeTcpWindow for any modulus, windows, window scales,      *)
(* initial sequence numbers and numbers of bytes within half of the        *)
(* sequence space.                                                         *)
(***************************************************************************)
EXTENDS SfeTcpWindow, Numbers, SequenceTheorems

Half == Modulus \div 2

-----------------------------------------------------------------------------
(***************************************************************************)
(* Serial numbers: a signed difference is exact as long as the numbers     *)
(* behind it are less than half of the sequence space apart.               *)
(***************************************************************************)
LEMMA HalfOfModulus == Half \in Nat \ {0} /\ Modulus = 2 * Half /\ Modulus \in Nat \ {0}
<1> DEFINE h == Modulus \div 2
<1>1. Modulus \in Nat \ {0} /\ Modulus % 2 = 0
  BY ModulusAssumption
<1>2. h \in Int /\ Modulus = h * 2 + (Modulus % 2)
  BY <1>1, ModDiv
<1> HIDE DEF h
<1>3. h \in Nat \ {0} /\ Modulus = 2 * h
  BY <1>1, <1>2
<1>4. QED
  BY <1>1, <1>3 DEF h, Half

\* Truncation gives a number below the modulus.
LEMMA U32Type == ASSUME NEW x \in Int PROVE u32(x) \in Int /\ 0 <= u32(x) /\ u32(x) < Modulus
BY HalfOfModulus, ModRange DEF u32

\* A signed 32-bit value is an integer.
LEMMA S32Type == ASSUME NEW x \in Int PROVE s32(x) \in Int
BY HalfOfModulus, U32Type DEF s32

\* A number within half of the space is its own signed remainder.
LEMMA S32Exact ==
    ASSUME NEW x \in Int, NEW y \in Int, u32(x) = u32(y), - Half <= y, y < Half
    PROVE  s32(x) = y
<1>1. Half \in Nat \ {0} /\ Modulus = 2 * Half /\ Modulus \in Nat \ {0}
  BY HalfOfModulus
<1>2. CASE y >= 0
  <2>1. y \in 0 .. Modulus - 1
    BY <1>1, <1>2
  <2>2. u32(y) = y
    BY <1>1, <2>1, ModSmall DEF u32
  <2>3. QED
    BY <1>1, <1>2, <2>2 DEF s32, Half
<1>3. CASE y < 0
  <2>1. y + Modulus \in 0 .. Modulus - 1
    BY <1>1, <1>3
  <2>2. (y + Modulus) % Modulus = y + Modulus
    BY <1>1, <2>1, ModSmall
  <2> DEFINE one == 1
  <2>3. one \in Int /\ one * Modulus = Modulus
    BY <1>1
  <2> HIDE DEF one
  <2>4. (y + one * Modulus) % Modulus = y % Modulus
    BY <1>1, <2>3, ModAdd
  <2>5. (y + Modulus) % Modulus = y % Modulus
    BY <2>3, <2>4
  <2>6. u32(y) = y + Modulus
    BY <1>1, <2>2, <2>5 DEF u32
  <2>7. ~ (u32(y) < Half)
    BY <1>1, <2>6
  <2>8. (y + Modulus) - Modulus = y
    BY <1>1
  <2>9. QED
    BY <2>6, <2>7, <2>8 DEF s32, Half
<1>4. QED
  BY <1>2, <1>3

\* The engine computes with remainders; the differences are those of the numbers.
LEMMA U32Difference ==
    ASSUME NEW a \in Int, NEW b \in Int, NEW k \in Int
    PROVE  u32(u32(a) - u32(b) - k) = u32(a - b - k)
<1> DEFINE A == a % Modulus
           B == b % Modulus
           p == a \div Modulus
           q == b \div Modulus
<1>0. Modulus \in Nat \ {0}
  BY HalfOfModulus
<1>1. A \in Int /\ p \in Int /\ a = p * Modulus + A
  BY <1>0, ModRange, ModDiv
<1>2. B \in Int /\ q \in Int /\ b = q * Modulus + B
  BY <1>0, ModRange, ModDiv
<1> DEFINE r == p - q
<1> HIDE DEF A, B, p, q
<1>3. a - b - k = (A - B - k) + r * Modulus
  BY <1>0, <1>1, <1>2
<1>4. A - B - k \in Int /\ r \in Int
  BY <1>1, <1>2
<1> HIDE DEF r
<1>5. ((A - B - k) + r * Modulus) % Modulus = (A - B - k) % Modulus
  BY <1>0, <1>4, ModAdd
<1>6. QED
  BY <1>3, <1>5 DEF u32, A, B

\* Truncation may be taken before an addition.
LEMMA U32Sum ==
    ASSUME NEW a \in Int, NEW k \in Int
    PROVE  u32(u32(a) + k) = u32(a + k)
<1> DEFINE A == a % Modulus
           p == a \div Modulus
<1>0. Modulus \in Nat \ {0}
  BY HalfOfModulus
<1>1. A \in Int /\ p \in Int /\ a = p * Modulus + A
  BY <1>0, ModRange, ModDiv
<1> HIDE DEF A, p
<1> DEFINE s == A + k
<1>2. s \in Int /\ a + k = s + p * Modulus
  BY <1>0, <1>1
<1> HIDE DEF s
<1>3. (s + p * Modulus) % Modulus = s % Modulus
  BY <1>0, <1>1, <1>2, ModAdd
<1>4. QED
  BY <1>2, <1>3 DEF u32, A, s

\* Sequence numbers less than half the space apart compare as the numbers they stand for.
LEMMA Serial ==
    ASSUME NEW a \in Int, NEW b \in Int, NEW k \in Int, - Half <= a - b - k, a - b - k < Half
    PROVE  s32(u32(a) - u32(b) - k) = a - b - k
<1>1. u32(a) \in Int /\ u32(b) \in Int
  BY U32Type
<1>2. u32(u32(a) - u32(b) - k) = u32(a - b - k)
  BY U32Difference
<1> DEFINE x == u32(a) - u32(b) - k
           y == a - b - k
<1>3. x \in Int /\ y \in Int
  BY <1>1
<1> HIDE DEF x, y
<1>4. u32(x) = u32(y)
  BY <1>2 DEF x, y
<1>5. - Half <= y /\ y < Half
  BY DEF y
<1>6. s32(x) = y
  BY <1>3, <1>4, <1>5, S32Exact
<1>7. QED
  BY <1>6 DEF x, y

\* Without an offset.
LEMMA SerialDifference ==
    ASSUME NEW a \in Int, NEW b \in Int, - Half <= a - b, a - b < Half
    PROVE  s32(u32(a) - u32(b)) = a - b
<1>1. u32(a) \in Int /\ u32(b) \in Int
  BY U32Type
<1>2. u32(a) - u32(b) - 0 = u32(a) - u32(b) /\ a - b - 0 = a - b
  BY <1>1
<1>3. s32(u32(a) - u32(b) - 0) = a - b - 0
  BY <1>2, Serial
<1>4. QED
  BY <1>2, <1>3

\* The two comparisons with which the values are recorded keep the later one.
LEMMA AdvancedIsLater ==
    ASSUME NEW a \in Int, NEW b \in Int, - Half <= a - b, a - b < Half
    PROVE  Advanced(u32(a), u32(b)) = IF a < b THEN u32(b) ELSE u32(a)
BY SerialDifference DEF Advanced

\* The later of two sequence numbers less than half the space apart.
LEMMA BehindIsLater ==
    ASSUME NEW a \in Int, NEW b \in Int, - Half <= a - b, a - b < Half
    PROVE  Behind(u32(a), u32(b)) = IF a < b THEN u32(b) ELSE u32(a)
BY SerialDifference DEF Behind

-----------------------------------------------------------------------------
(***************************************************************************)
(* The greatest of two numbers, and of a bounded set of them.              *)
(***************************************************************************)
LEMMA MaxOfTwo ==
    ASSUME NEW a \in Int, NEW b \in Int
    PROVE  Max({a, b}) = IF a < b THEN b ELSE a
<1> DEFINE m == IF a < b THEN b ELSE a
<1>1. m \in {a, b} /\ \A y \in {a, b} : m >= y
  OBVIOUS
<1>2. \A x \in {a, b} : (\A y \in {a, b} : x >= y) => x = m
  OBVIOUS
<1> HIDE DEF m
<1>3. Max({a, b}) = m
  BY <1>1, <1>2 DEF Max
<1>4. QED
  BY <1>3 DEF m

\* The maximum of a bounded non-empty set is in it.
LEMMA MaxOfBounded ==
    ASSUME NEW S, S # {}, NEW b \in Nat, S \subseteq 0 .. b
    PROVE  Max(S) \in S /\ \A y \in S : y <= Max(S)
<1>1. PICK x \in S : \A y \in S : y <= x
  BY GreatestNat
<1>2. \A y \in S : x >= y
  BY <1>1
<1>3. Max(S) \in S /\ \A y \in S : Max(S) >= y
  BY <1>2 DEF Max
<1>4. QED
  BY <1>3

-----------------------------------------------------------------------------
(***************************************************************************)
(* The next byte that the receiver of a direction expects.                 *)
(***************************************************************************)
\* What arrived lies within what was sent from the first byte on.
Received(d, n) == got[d] \subseteq Isn[d] .. n - 1

\* What a receiver acknowledges is what it has without a gap.
LEMMA RcvNxt ==
    ASSUME NEW d, Isn[d] \in Nat, NEW n \in Int, Isn[d] <= n, Received(d, n)
    PROVE  /\ rcv_nxt(d) \in Isn[d] .. n
           /\ rcv_nxt(d) \notin got[d]
           /\ Isn[d] .. rcv_nxt(d) - 1 \subseteq got[d]
<1> DEFINE G == got[d]
           s == Isn[d]
           T == {x \in Nat : x >= s /\ x \notin G}
<1>1. s \in Nat /\ n \in Nat /\ s <= n /\ G \subseteq s .. n - 1
  BY DEF Received
<1> HIDE DEF G, s
<1>2. n \in T /\ T \subseteq Nat
  BY <1>1
<1>3. PICK x \in T : \A y \in T : x <= y
  BY <1>2, LeastNat
<1>4. x \in s .. n /\ x \notin G
  BY <1>1, <1>2, <1>3
<1>5. s .. x - 1 \subseteq G
  <2> SUFFICES ASSUME NEW y \in s .. x - 1 PROVE y \in G
    OBVIOUS
  <2>1. y \in Nat /\ y >= s /\ ~ (x <= y)
    BY <1>1, <1>4
  <2>2. y \notin T
    BY <1>3, <2>1
  <2>3. QED
    BY <2>1, <2>2
<1>6. IsFiniteSet(G) /\ Cardinality(G) \in Nat /\ x <= s + Cardinality(G)
  <2>1. IsFiniteSet(s .. n - 1)
    BY <1>1, FS_Interval
  <2>2. IsFiniteSet(G) /\ Cardinality(G) \in Nat
    BY <1>1, <2>1, FS_Subset, FS_CardinalityType
  <2>3. Cardinality(s .. x - 1) <= Cardinality(G)
    BY <1>5, <2>2, FS_Subset
  <2>4. x - 1 \in Int /\ s \in Int
    BY <1>1, <1>4
  <2>5. Cardinality(s .. x - 1) = IF s > x - 1 THEN 0 ELSE (x - 1) - s + 1
    BY <2>4, FS_Interval
  <2>6. QED
    BY <1>1, <1>4, <2>2, <2>3, <2>5
<1>7. rcv_nxt(d) = CHOOSE m \in s .. s + Cardinality(G) : m \notin G /\ s .. m - 1 \subseteq G
  BY DEF rcv_nxt, G, s
<1>8. x \in s .. s + Cardinality(G)
  BY <1>1, <1>4, <1>6
<1> DEFINE r == rcv_nxt(d)
<1>9. r \in s .. s + Cardinality(G) /\ r \notin G /\ s .. r - 1 \subseteq G
  BY <1>4, <1>5, <1>7, <1>8
<1>10. r \in Int /\ s <= r
  BY <1>1, <1>6, <1>9
<1> HIDE DEF r
<1>11. r <= n
  <2> SUFFICES ASSUME ~ (r <= n) PROVE FALSE
    OBVIOUS
  <2>1. n \in s .. r - 1
    BY <1>1, <1>10
  <2>2. n \in G
    BY <1>9, <2>1
  <2>3. QED
    BY <1>1, <2>2
<1>12. r \in s .. n /\ r \notin G /\ s .. r - 1 \subseteq G
  BY <1>1, <1>9, <1>10, <1>11
<1>13. QED
  BY <1>12 DEF r, G, s

-----------------------------------------------------------------------------
(***************************************************************************)
(* The inductive invariant.                                                *)
(***************************************************************************)
\* A path without Ethernet padding and, if SACK is in use, without a wrap.
Benign(s) ==
    /\ s.padding = {0}
    /\ s.sack => \A d \in Dir : s.isn[d] + s.max_bytes[d] < Modulus

SegmentType == [seq : Int, len : Nat, win : Nat, ack : Int, sack : SUBSET Int,
                sent : [seq : Int, len : Nat, ack : Int]]

TypeOK ==
    /\ setting \in Setting /\ flushed \in BOOLEAN
    /\ snd_nxt \in [Dir -> Int] /\ snd_una \in [Dir -> Int] /\ snd_edge \in [Dir -> Int]
    /\ seen_end \in [Dir -> Int]
    /\ got \in [Dir -> SUBSET Int] /\ dup \in [Dir -> SUBSET Int]
    /\ tcp \in [Dir -> [max_win : Nat, end : Int, max_end : Int]]
    /\ td \in [Dir -> [maxwin : Nat, end : Int, maxend : Int]]
    /\ wire \in [Dir -> Seq(SegmentType)]

\* A sender keeps within the window it was given, which is within the largest
\* that the engine has seen, and the receiver has nothing the engine has not.
SenderOK(d) ==
    /\ Isn[d] <= snd_una[d] /\ snd_una[d] <= rcv_nxt(d)
    /\ snd_nxt[d] <= snd_edge[d] /\ snd_nxt[d] <= Isn[d] + MaxBytes[d]
    /\ snd_edge[d] <= snd_una[d] + tcp[Counter(d)].max_win
    /\ Isn[d] <= seen_end[d] /\ seen_end[d] <= snd_nxt[d]
    /\ Received(d, seen_end[d])
    /\ dup[d] \subseteq Isn[d] .. seen_end[d]

\* A window of direction d is small against the sequence space.
WindowOK(d, w) ==
    /\ w + MaxBytes[Counter(d)] + 1 < Half
    /\ w + MaxAckWindow + 1 < Half

\* The values of the engine and of conntrack are remainders of numbers that
\* are close enough to each other to be compared.
EndOK(d) ==
    /\ tcp[d].end = u32(seen_end[d])
    /\ \E x \in Isn[d] .. seen_end[d] : td[d].end = u32(x)

MaxEndOK(d) ==
    /\ \E x \in snd_edge[d] .. Isn[d] + Half - 2 : tcp[d].max_end = u32(x)
    /\ \E x \in Isn[d] .. Isn[d] + Half - 2 : td[d].maxend = u32(x)

MaxWinOK(d) == WindowOK(d, tcp[d].max_win) /\ WindowOK(d, td[d].maxwin)

EndOf(p) == p.sent.seq + p.sent.len

\* A segment on the way carries what its sender sent.
SegmentOK(d, p) ==
    LET peer == Counter(d)
    IN  /\ p.seq = u32(p.sent.seq) /\ p.len = p.sent.len /\ p.ack = u32(p.sent.ack)
        /\ p.win \in Window
        /\ Isn[d] - 1 <= p.sent.seq /\ (p.len # 0 => Isn[d] <= p.sent.seq) /\ EndOf(p) <= snd_nxt[d]
        /\ Isn[peer] <= p.sent.ack /\ p.sent.ack <= rcv_nxt(peer)
        /\ \A e \in p.sack : SackUsed /\ \E n \in Isn[peer] .. seen_end[peer] : e = u32(n)

\* While the path keeps the order, a segment is at most a window behind what
\* the engine saw before it, and acknowledgements do not go back.
OrderOK(d) ==
    ~Reorder =>
    /\ \A j \in 1..Len(wire[d]) :
          /\ seen_end[d] <= EndOf(wire[d][j]) + tcp[Counter(d)].max_win + 1
          /\ snd_una[Counter(d)] <= wire[d][j].sent.ack
    /\ \A i, j \in 1..Len(wire[d]) : i < j =>
          /\ EndOf(wire[d][i]) <= EndOf(wire[d][j]) + tcp[Counter(d)].max_win + 1
          /\ wire[d][i].sent.ack <= wire[d][j].sent.ack

Inv ==
    /\ TypeOK
    /\ Benign(setting)
    /\ \A d \in Dir : SenderOK(d)
    /\ \A d \in Dir : EndOK(d) /\ MaxEndOK(d) /\ MaxWinOK(d)
    /\ \A d \in Dir : \A i \in 1..Len(wire[d]) : SegmentOK(d, wire[d][i])
    /\ \A d \in Dir : OrderOK(d)

-----------------------------------------------------------------------------
(***************************************************************************)
(* What a setting gives.                                                   *)
(***************************************************************************)
LEMMA CounterDir ==
    \A d \in Dir : Counter(d) \in Dir /\ Counter(d) # d /\ Counter(Counter(d)) = d
                   /\ \A e \in Dir : e = d \/ e = Counter(d)
BY DEF Dir, Counter

\* What SettingAssumption says of every setting.
LEMMA SettingFacts ==
    setting \in Setting =>
           /\ Isn \in [Dir -> Nat] /\ MaxBytes \in [Dir -> Nat] /\ MaxQueue \in [Dir -> Nat]
           /\ Reorder \in BOOLEAN /\ SackUsed \in BOOLEAN
           /\ Window \subseteq 0 .. Modulus - 1 /\ Window # {}
           /\ \A d \in Dir : \A w \in Window :
                 /\ Scaled(d, w) \in Nat
                 /\ 2 * MaxBytes[Counter(d)] + Scaled(d, w) + 2 < Half
                 /\ MaxBytes[Counter(d)] + Scaled(d, w) + MaxAckWindow + 2 < Half
<1> SUFFICES ASSUME setting \in Setting
             PROVE  /\ Isn \in [Dir -> Nat] /\ MaxBytes \in [Dir -> Nat] /\ MaxQueue \in [Dir -> Nat]
                    /\ Reorder \in BOOLEAN /\ SackUsed \in BOOLEAN
                    /\ Window \subseteq 0 .. Modulus - 1 /\ Window # {}
                    /\ \A d \in Dir : \A w \in Window :
                          /\ Scaled(d, w) \in Nat
                          /\ 2 * MaxBytes[Counter(d)] + Scaled(d, w) + 2 < Half
                          /\ MaxBytes[Counter(d)] + Scaled(d, w) + MaxAckWindow + 2 < Half
  OBVIOUS
<1> DEFINE s == setting
<1>1. s \in Setting
  OBVIOUS
<1>2. s = setting
  OBVIOUS
<1> HIDE DEF s
<1>3. /\ s.isn \in [Dir -> Nat]
      /\ s.max_bytes \in [Dir -> Nat]
      /\ s.max_queue \in [Dir -> Nat]
  BY <1>1, SettingAssumption, Zenon
<1>4. s.reorder \in BOOLEAN /\ s.sack \in BOOLEAN
  BY <1>1, SettingAssumption
<1>5. s.window \subseteq 0 .. Modulus - 1 /\ s.window # {}
  BY <1>1, SettingAssumption, Zenon
<1>6. ASSUME NEW d \in Dir, NEW w \in s.window
      PROVE  /\ w * 2^s.win_scale[d] \in Nat
             /\ 2 * s.max_bytes[Counter(d)] + w * 2^s.win_scale[d] + 2 < Modulus \div 2
             /\ s.max_bytes[Counter(d)] + w * 2^s.win_scale[d] + MaxAckWindow + 2 < Modulus \div 2
  BY <1>1, SettingAssumption
<1>7. Isn \in [Dir -> Nat] /\ MaxBytes \in [Dir -> Nat] /\ MaxQueue \in [Dir -> Nat]
  BY <1>2, <1>3 DEF Isn, MaxBytes, MaxQueue
<1>8. Reorder \in BOOLEAN /\ SackUsed \in BOOLEAN
  BY <1>2, <1>4 DEF Reorder, SackUsed
<1>9. Window \subseteq 0 .. Modulus - 1 /\ Window # {}
  BY <1>2, <1>5, Zenon DEF Window
<1>10. \A d \in Dir : \A w \in Window :
          /\ Scaled(d, w) \in Nat
          /\ 2 * MaxBytes[Counter(d)] + Scaled(d, w) + 2 < Half
          /\ MaxBytes[Counter(d)] + Scaled(d, w) + MaxAckWindow + 2 < Half
  BY <1>2, <1>6 DEF Window, MaxBytes, Scaled, win_scale, Half
<1>11. QED
  BY <1>7, <1>8, <1>9, <1>10, Zenon

\* The receiver of a direction expects a byte that was sent or the next one.
LEMMA RcvNxtSeen ==
    ASSUME TypeOK, NEW d \in Dir, SenderOK(d)
    PROVE  /\ rcv_nxt(d) \in Int /\ Isn[d] <= rcv_nxt(d) /\ rcv_nxt(d) <= seen_end[d]
           /\ rcv_nxt(d) \notin got[d] /\ Isn[d] .. rcv_nxt(d) - 1 \subseteq got[d]
<1>1. Isn[d] \in Nat /\ seen_end[d] \in Int /\ Isn[d] <= seen_end[d] /\ Received(d, seen_end[d])
  <2>1. setting \in Setting /\ seen_end[d] \in Int
    BY DEF TypeOK
  <2>2. Isn[d] \in Nat
    BY <2>1, SettingFacts
  <2>3. Isn[d] <= seen_end[d] /\ Received(d, seen_end[d])
    BY DEF SenderOK
  <2>4. QED
    BY <2>1, <2>2, <2>3
<1>2. rcv_nxt(d) \in Isn[d] .. seen_end[d]
  BY <1>1, RcvNxt
<1>3. rcv_nxt(d) \notin got[d] /\ Isn[d] .. rcv_nxt(d) - 1 \subseteq got[d]
  BY <1>1, RcvNxt
<1>4. QED
  BY <1>1, <1>2, <1>3

\* The number that the engine takes for the acknowledgement of a segment: it is
\* not before the segment's own, and not after what the engine saw.
LEMMA SackFacts ==
    ASSUME Inv, NEW d \in Dir, NEW i \in 1 .. Len(wire[d])
    PROVE  \E n \in Int : /\ Sack(wire[d][i]) = u32(n)
                          /\ wire[d][i].sent.ack <= n /\ n <= seen_end[Counter(d)]
                          /\ Sack(wire[d][i]) - wire[d][i].ack = n - wire[d][i].sent.ack
<1> DEFINE p == wire[d][i]
           peer == Counter(d)
           ack == p.sent.ack
<1>1. peer \in Dir /\ SegmentOK(d, p) /\ SenderOK(peer)
  BY CounterDir DEF Inv
<1>2. p \in SegmentType
  BY DEF Inv, TypeOK
<1>3. /\ ack \in Int /\ Isn[peer] <= ack /\ ack <= seen_end[peer] /\ p.ack = u32(ack)
      /\ seen_end[peer] \in Int /\ Isn[peer] \in Nat
  <2>1. rcv_nxt(peer) \in Int /\ rcv_nxt(peer) <= seen_end[peer] /\ ack <= rcv_nxt(peer)
    BY <1>1, RcvNxtSeen DEF Inv, SegmentOK
  <2>2. ack \in Int /\ seen_end[peer] \in Int /\ Isn[peer] \in Nat
    <3>1. setting \in Setting /\ seen_end[peer] \in Int
      BY <1>1 DEF Inv, TypeOK
    <3>2. Isn[peer] \in Nat
      BY <1>1, <3>1, SettingFacts
    <3>3. ack \in Int
      BY <1>2 DEF SegmentType
    <3>4. QED
      BY <3>1, <3>2, <3>3
  <2>3. Isn[peer] <= ack /\ p.ack = u32(ack)
    BY <1>1 DEF SegmentOK
  <2>4. ack <= seen_end[peer]
    BY <2>1, <2>2
  <2>5. QED
    BY <2>2, <2>3, <2>4
<1>4. CASE p.sack = {}
  <2>1. Sack(p) = Max({p.ack, p.ack})
    <3>1. {} \cup {p.ack} = {p.ack, p.ack}
      OBVIOUS
    <3>2. QED
      BY <1>4, <3>1 DEF Sack, process_tcp_option_sack
  <2>2. u32(ack) \in Int
    BY <1>3, U32Type
  <2>3. Max({p.ack, p.ack}) = p.ack
    BY <1>3, <2>2, MaxOfTwo
  <2>4. Sack(p) = u32(ack) /\ Sack(p) - p.ack = ack - ack
    BY <1>3, <2>1, <2>2, <2>3
  <2>5. QED
    BY <1>3, <2>4
<1>5. CASE p.sack # {}
  <2>1. SackUsed /\ Isn[peer] + MaxBytes[peer] < Modulus
    BY <1>1, <1>5 DEF SegmentOK, Inv, Benign, SackUsed, Isn, MaxBytes
  <2>2. seen_end[peer] < Modulus
    <3>1. seen_end[peer] <= snd_nxt[peer] /\ snd_nxt[peer] <= Isn[peer] + MaxBytes[peer]
      BY <1>1 DEF SenderOK
    <3>2. snd_nxt[peer] \in Int /\ MaxBytes[peer] \in Nat /\ Modulus \in Nat
      <4>1. setting \in Setting /\ snd_nxt[peer] \in Int
        BY <1>1 DEF Inv, TypeOK
      <4>2. MaxBytes[peer] \in Nat
        BY <1>1, <4>1, SettingFacts
      <4>3. QED
        BY <4>1, <4>2, HalfOfModulus
    <3>3. QED
      BY <1>3, <2>1, <3>1, <3>2
  <2>3. ASSUME NEW n \in Int, Isn[peer] <= n, n <= seen_end[peer] PROVE u32(n) = n
    <3>1. Modulus \in Nat \ {0}
      BY HalfOfModulus
    <3>2. n \in 0 .. Modulus - 1
      BY <1>3, <2>2, <2>3, <3>1
    <3>3. QED
      BY <3>1, <3>2, ModSmall DEF u32
  <2>4. \A e \in p.sack : e \in 0 .. seen_end[peer]
    <3>1. ASSUME NEW e \in p.sack PROVE e \in 0 .. seen_end[peer]
      <4>1. PICK n \in Isn[peer] .. seen_end[peer] : e = u32(n)
        BY <1>1 DEF SegmentOK
      <4>2. n \in Int /\ Isn[peer] <= n /\ n <= seen_end[peer]
        BY <1>3
      <4>3. u32(n) = n
        BY <2>3, <4>2
      <4>4. QED
        BY <1>3, <4>1, <4>2, <4>3
    <3>2. QED
      BY <3>1
  <2>5. p.ack = ack /\ p.ack \in 0 .. seen_end[peer]
    BY <1>3, <2>3
  <2>6. seen_end[peer] \in Nat
    BY <1>3
  <2> DEFINE S == p.sack \cup {p.ack}
  <2>7. S \subseteq 0 .. seen_end[peer] /\ S # {} /\ p.ack \in S
    BY <2>4, <2>5
  <2> HIDE DEF S
  <2>8. Max(S) \in S /\ p.ack <= Max(S)
    BY <2>6, <2>7, MaxOfBounded
  <2>9. Sack(p) = Max(S)
    BY DEF Sack, process_tcp_option_sack, S
  <2>10. Max(S) \in Int /\ ack <= Max(S) /\ Max(S) <= seen_end[peer]
    <3>1. Max(S) \in 0 .. seen_end[peer]
      BY <2>7, <2>8
    <3>2. QED
      BY <2>5, <2>6, <2>8, <3>1
  <2>11. u32(Max(S)) = Max(S)
    BY <1>3, <2>3, <2>10
  <2>12. QED
    BY <2>5, <2>9, <2>10, <2>11
<1>6. QED
  BY <1>4, <1>5

\* Types of the parts of a typed state.
LEMMA Typed ==
    ASSUME TypeOK, NEW d \in Dir
    PROVE  /\ Isn[d] \in Nat /\ MaxBytes[d] \in Nat
           /\ snd_nxt[d] \in Int /\ snd_una[d] \in Int /\ snd_edge[d] \in Int /\ seen_end[d] \in Int
           /\ tcp[d].max_win \in Nat /\ td[d].maxwin \in Nat
           /\ wire[d] \in Seq(SegmentType) /\ Len(wire[d]) \in Nat
<1>1. setting \in Setting
  BY DEF TypeOK
<1>2. Isn[d] \in Nat /\ MaxBytes[d] \in Nat
  BY <1>1, SettingFacts
<1>3. snd_nxt[d] \in Int /\ snd_una[d] \in Int /\ snd_edge[d] \in Int /\ seen_end[d] \in Int
  BY DEF TypeOK
<1>4. tcp[d].max_win \in Nat /\ td[d].maxwin \in Nat
  BY DEF TypeOK
<1>5. wire[d] \in Seq(SegmentType)
  BY DEF TypeOK
<1>6. QED
  BY <1>2, <1>3, <1>4, <1>5

\* What a segment on the way is made of.
LEMMA SegmentTyped ==
    ASSUME TypeOK, NEW d \in Dir, NEW i \in 1 .. Len(wire[d])
    PROVE  /\ wire[d][i] \in SegmentType
           /\ wire[d][i].len \in Nat /\ wire[d][i].sent.seq \in Int
           /\ wire[d][i].sent.len \in Nat /\ wire[d][i].sent.ack \in Int
           /\ EndOf(wire[d][i]) \in Int
<1> DEFINE p == wire[d][i]
<1>1. p \in SegmentType
  BY DEF TypeOK
<1> HIDE DEF p
<1>2. p.len \in Nat /\ p.sent \in [seq : Int, len : Nat, ack : Int]
  BY <1>1 DEF SegmentType
<1>3. p.sent.seq \in Int /\ p.sent.len \in Nat /\ p.sent.ack \in Int
  BY <1>2
<1>4. EndOf(p) \in Int
  BY <1>3 DEF EndOf
<1>5. QED
  BY <1>1, <1>2, <1>3, <1>4 DEF p

-----------------------------------------------------------------------------
(***************************************************************************)
(* Sequences of segments.                                                  *)
(***************************************************************************)
\* Where the elements of a sequence are after one was taken out.
LEMMA RemoveAtElements ==
    ASSUME NEW T, NEW s \in Seq(T), NEW i \in 1 .. Len(s)
    PROVE  /\ RemoveAt(s, i) \in Seq(T)
           /\ Len(RemoveAt(s, i)) = Len(s) - 1
           /\ \A j \in 1 .. Len(s) - 1 : RemoveAt(s, i)[j] = IF j < i THEN s[j] ELSE s[j + 1]
<1> DEFINE a == SubSeq(s, 1, i - 1)
           b == SubSeq(s, i + 1, Len(s))
<1>1. a \in Seq(T) /\ Len(a) = i - 1 /\ \A j \in 1 .. i - 1 : a[j] = s[j]
  OBVIOUS
<1>2. b \in Seq(T) /\ Len(b) = Len(s) - i /\ \A j \in 1 .. Len(s) - i : b[j] = s[j + i]
  OBVIOUS
<1>3. RemoveAt(s, i) = a \o b
  BY DEF RemoveAt
<1> HIDE DEF a, b
<1>4. a \o b \in Seq(T) /\ Len(a \o b) = Len(s) - 1
  <2>1. a \o b \in Seq(T)
    BY <1>1, <1>2
  <2>2. Len(a \o b) = Len(a) + Len(b)
    BY <1>1, <1>2, ConcatProperties
  <2>3. i \in Int /\ Len(s) \in Nat
    OBVIOUS
  <2>4. QED
    BY <1>1, <1>2, <2>1, <2>2, <2>3
<1>5. ASSUME NEW j \in 1 .. Len(s) - 1
      PROVE  (a \o b)[j] = IF j < i THEN s[j] ELSE s[j + 1]
  <2>1. CASE j < i
    BY <1>1, <1>2, <2>1
  <2>2. CASE ~ (j < i)
    <3>1. j \in Int /\ i \in Int /\ Len(s) \in Nat /\ j <= Len(s) - 1 /\ 1 <= i
      OBVIOUS
    <3> DEFINE k == j - (i - 1)
    <3>2. k \in 1 .. Len(s) - i /\ k + i = j + 1
      BY <2>2, <3>1
    <3>3. (a \o b)[j] = b[k]
      BY <1>1, <1>2, <2>2, <3>1
    <3> HIDE DEF k
    <3>4. b[k] = s[k + i]
      BY <1>2, <3>2
    <3>5. QED
      BY <2>2, <3>2, <3>3, <3>4
  <2>3. QED
    BY <2>1, <2>2
<1>6. QED
  BY <1>3, <1>4, <1>5

\* A queue without its head has no new element.
LEMMA TailElements ==
    ASSUME NEW T, NEW s \in Seq(T), s # <<>>
    PROVE  /\ Tail(s) \in Seq(T)
           /\ Len(Tail(s)) = Len(s) - 1
           /\ \A j \in 1 .. Len(s) - 1 : Tail(s)[j] = s[j + 1]
OBVIOUS

\* A queue with one more element has that one more.
LEMMA AppendElements ==
    ASSUME NEW T, NEW s \in Seq(T), NEW e \in T
    PROVE  /\ Append(s, e) \in Seq(T)
           /\ Len(Append(s, e)) = Len(s) + 1
           /\ \A j \in 1 .. Len(s) + 1 : Append(s, e)[j] = IF j <= Len(s) THEN s[j] ELSE e
OBVIOUS

-----------------------------------------------------------------------------
(***************************************************************************)
(* The invariant holds initially.                                          *)
(***************************************************************************)
LEMMA InitialWindowFacts ==
    ASSUME setting \in Setting, NEW d \in Dir
    PROVE  /\ InitialWindow(d) \in Nat
           /\ 2 * MaxBytes[Counter(d)] + InitialWindow(d) + 2 < Half
           /\ MaxBytes[Counter(d)] + InitialWindow(d) + MaxAckWindow + 2 < Half
<1>1. Window \subseteq 0 .. Modulus - 1 /\ Window # {}
  BY SettingFacts
<1> DEFINE b == Modulus - 1
           W == Window
<1>2. b \in Nat
  BY HalfOfModulus
<1>3. W \subseteq 0 .. b /\ W # {}
  BY <1>1
<1> HIDE DEF b, W
<1>4. Max(W) \in W
  BY <1>2, <1>3, MaxOfBounded
<1>5. Max(Window) \in Window
  BY <1>4 DEF W
<1>6. QED
  BY <1>5, SettingFacts DEF InitialWindow

\* What the initial states give each direction.
LEMMA InitTyped ==
    ASSUME Init
    PROVE  /\ setting \in Setting
           /\ \A d \in Dir :
                 /\ Isn[d] \in Nat /\ MaxBytes[d] \in Nat
                 /\ snd_nxt[d] = Isn[d] /\ snd_una[d] = Isn[d] /\ seen_end[d] = Isn[d]
                 /\ snd_edge[d] = Isn[d] + InitialWindow(Counter(d))
                 /\ got[d] = {} /\ dup[d] = {} /\ wire[d] = <<>>
                 /\ td[d].maxwin = InitialWindow(d)
                 /\ td[d].end = u32(Isn[d]) /\ td[d].maxend = u32(snd_edge[d])
                 /\ tcp[d].max_win = IF InitialWindow(d) # 0 THEN InitialWindow(d) ELSE 1
                 /\ tcp[d].end = u32(Isn[d]) /\ tcp[d].max_end = u32(snd_edge[d])
<1>1. setting \in Setting
  BY DEF Init
<1>2. ASSUME NEW d \in Dir
      PROVE  /\ Isn[d] \in Nat /\ MaxBytes[d] \in Nat
             /\ snd_nxt[d] = Isn[d] /\ snd_una[d] = Isn[d] /\ seen_end[d] = Isn[d]
             /\ snd_edge[d] = Isn[d] + InitialWindow(Counter(d))
             /\ got[d] = {} /\ dup[d] = {} /\ wire[d] = <<>>
             /\ td[d].maxwin = InitialWindow(d)
             /\ td[d].end = u32(Isn[d]) /\ td[d].maxend = u32(snd_edge[d])
             /\ tcp[d].max_win = IF InitialWindow(d) # 0 THEN InitialWindow(d) ELSE 1
             /\ tcp[d].end = u32(Isn[d]) /\ tcp[d].max_end = u32(snd_edge[d])
  <2>1. Isn[d] \in Nat /\ MaxBytes[d] \in Nat
    BY <1>1, SettingFacts
  <2>2. snd_nxt[d] = Isn[d] /\ snd_una[d] = Isn[d] /\ seen_end[d] = Isn[d]
    BY DEF Init
  <2>3. snd_edge[d] = Isn[d] + InitialWindow(Counter(d))
    BY DEF Init
  <2>4. got[d] = {} /\ dup[d] = {} /\ wire[d] = <<>>
    BY DEF Init
  <2>5. td[d] = [maxwin |-> InitialWindow(d), end |-> u32(Isn[d]),
                 maxend |-> u32(Isn[d] + InitialWindow(Counter(d)))]
    BY DEF Init
  <2>6. tcp[d] = [max_win |-> IF td[d].maxwin # 0 THEN td[d].maxwin ELSE 1,
                  end |-> td[d].end, max_end |-> td[d].maxend]
    BY DEF Init
  <2>7. QED
    BY <2>1, <2>2, <2>3, <2>4, <2>5, <2>6
<1>3. QED
  BY <1>1, <1>2

\* TypeOK holds at first.
LEMMA InitTypeOK == ASSUME Init PROVE TypeOK
<1>1. setting \in Setting /\ flushed \in BOOLEAN
  BY DEF Init
<1>2. Isn \in [Dir -> Nat]
  BY <1>1, SettingFacts
<1>3. snd_nxt \in [Dir -> Int] /\ snd_una \in [Dir -> Int] /\ seen_end \in [Dir -> Int]
  <2>1. Isn \in [Dir -> Int]
    BY <1>2
  <2>2. QED
    BY <2>1 DEF Init
<1>4. \A d \in Dir : Isn[d] \in Nat /\ InitialWindow(d) \in Nat /\ InitialWindow(Counter(d)) \in Nat
  BY <1>1, <1>2, CounterDir, InitialWindowFacts
<1>5. \A d \in Dir : Isn[d] + InitialWindow(Counter(d)) \in Int
  BY <1>4
<1>6. snd_edge \in [Dir -> Int]
  BY <1>5 DEF Init
<1>7. got \in [Dir -> SUBSET Int] /\ dup \in [Dir -> SUBSET Int]
  BY DEF Init
<1>8. \A d \in Dir : u32(Isn[d]) \in Int /\ u32(Isn[d] + InitialWindow(Counter(d))) \in Int
  BY <1>4, <1>5, U32Type
<1>9. td \in [Dir -> [maxwin : Nat, end : Int, maxend : Int]]
  BY <1>4, <1>8 DEF Init
<1>10. tcp \in [Dir -> [max_win : Nat, end : Int, max_end : Int]]
  <2>1. \A d \in Dir : td[d].maxwin \in Nat /\ td[d].end \in Int /\ td[d].maxend \in Int
    BY <1>9
  <2>2. tcp = [d \in Dir |-> [max_win |-> IF td[d].maxwin # 0 THEN td[d].maxwin ELSE 1,
                             end |-> td[d].end, max_end |-> td[d].maxend]]
    BY DEF Init
  <2>3. QED
    BY <2>1, <2>2
<1>11. wire \in [Dir -> Seq(SegmentType)]
  <2>1. <<>> \in Seq(SegmentType)
    OBVIOUS
  <2>2. QED
    BY <2>1 DEF Init
<1>12. QED
  BY <1>1, <1>3, <1>6, <1>7, <1>9, <1>10, <1>11 DEF TypeOK

\* The invariant holds at first.
LEMMA InitInv == ASSUME Init, Benign(setting) PROVE Inv
<1>1. TypeOK
  BY InitTypeOK
<1>2. ASSUME NEW d \in Dir
      PROVE  SenderOK(d) /\ EndOK(d) /\ MaxEndOK(d) /\ MaxWinOK(d)
  <2> DEFINE peer == Counter(d)
             isn == Isn[d]
             bytes == MaxBytes[d]
             other == MaxBytes[peer]
             w == InitialWindow(d)
             v == InitialWindow(peer)
             mine == tcp[d].max_win
             theirs == tcp[peer].max_win
  <2>1. peer \in Dir /\ Counter(peer) = d /\ setting \in Setting
    BY CounterDir, InitTyped
  <2>2. /\ isn \in Nat /\ bytes \in Nat /\ other \in Nat /\ w \in Nat /\ v \in Nat
        /\ 2 * other + w + 2 < Half /\ other + w + MaxAckWindow + 2 < Half
        /\ 2 * bytes + v + 2 < Half
    BY <2>1, InitTyped, InitialWindowFacts
  <2>3. /\ mine = IF w # 0 THEN w ELSE 1
        /\ theirs = IF v # 0 THEN v ELSE 1
    BY <2>1, InitTyped
  <2>4. MaxAckWindow \in Nat /\ Half \in Nat
    BY HalfOfModulus, ModulusAssumption
  <2>5. /\ snd_nxt[d] = isn /\ snd_una[d] = isn /\ seen_end[d] = isn /\ snd_edge[d] = isn + v
        /\ got[d] = {} /\ dup[d] = {}
    BY InitTyped
  <2>6. td[d].maxwin = w /\ td[d].end = u32(isn) /\ td[d].maxend = u32(snd_edge[d])
        /\ tcp[d].end = u32(isn) /\ tcp[d].max_end = u32(snd_edge[d])
    BY InitTyped
  <2>7. Received(d, isn)
    BY <2>5 DEF Received
  <2>8. rcv_nxt(d) \in isn .. isn
    BY <2>2, <2>7, RcvNxt
  <2>9. rcv_nxt(d) = isn
    BY <2>2, <2>8
  <2>10. snd_edge[d] \in isn .. isn + Half - 2
    BY <2>2, <2>4, <2>5
  <2> HIDE DEF w, v, mine, theirs, bytes, other, isn
  <2>11. isn <= isn + v /\ isn <= isn + bytes /\ isn + v <= isn + theirs /\ isn \in isn .. isn
         /\ isn + v \in isn + v .. isn + Half - 2
    BY <2>2, <2>3, <2>4
  <2>12. SenderOK(d)
    <3>1. /\ isn <= snd_una[d] /\ snd_una[d] <= rcv_nxt(d)
          /\ snd_nxt[d] <= snd_edge[d] /\ snd_nxt[d] <= isn + bytes
          /\ snd_edge[d] <= snd_una[d] + theirs
          /\ isn <= seen_end[d] /\ seen_end[d] <= snd_nxt[d]
      BY <2>2, <2>5, <2>9, <2>11
    <3>2. Received(d, seen_end[d]) /\ dup[d] \subseteq isn .. seen_end[d]
      BY <2>5, <2>7
    <3>3. QED
      BY <3>1, <3>2 DEF SenderOK, isn, bytes, theirs
  <2>13. EndOK(d)
    BY <2>5, <2>6, <2>11 DEF EndOK, isn
  <2>14. MaxEndOK(d)
    BY <2>5, <2>6, <2>10, <2>11 DEF MaxEndOK, isn
  <2>15. mine + other + 1 < Half /\ mine + MaxAckWindow + 1 < Half
         /\ w + other + 1 < Half /\ w + MaxAckWindow + 1 < Half
    BY <2>2, <2>3, <2>4
  <2>16. MaxWinOK(d)
    BY <2>6, <2>15 DEF MaxWinOK, WindowOK, mine, other
  <2>17. QED
    BY <2>12, <2>13, <2>14, <2>16
<1>3. ASSUME NEW d \in Dir PROVE 1 .. Len(wire[d]) = {} /\ OrderOK(d)
  <2>1. 1 .. Len(wire[d]) = {}
    <3>1. wire[d] = <<>>
      BY InitTyped
    <3>2. QED
      BY <3>1
  <2>2. QED
    BY <2>1 DEF OrderOK
<1>4. QED
  BY <1>1, <1>2, <1>3 DEF Inv

-----------------------------------------------------------------------------
(***************************************************************************)
(* What a step leaves alone.                                               *)
(***************************************************************************)
LEMMA SettingFrame ==
    ASSUME UNCHANGED setting
    PROVE  /\ Isn' = Isn /\ MaxBytes' = MaxBytes /\ Reorder' = Reorder /\ SackUsed' = SackUsed
           /\ Window' = Window /\ Benign(setting)' = Benign(setting)
           /\ \A d \in Dir : \A w : Scaled(d, w)' = Scaled(d, w)
BY DEF Isn, MaxBytes, Reorder, SackUsed, Window, Scaled, win_scale, Benign

\* What a receiver acknowledges depends on its bytes only.
LEMMA RcvFrame ==
    ASSUME UNCHANGED setting, NEW d \in Dir, got'[d] = got[d]
    PROVE  rcv_nxt(d)' = rcv_nxt(d)
<1>1. Isn' = Isn
  BY SettingFrame
<1>2. QED
  BY <1>1, Zenon DEF rcv_nxt

\* RcvNxt for every direction.
LEMMA RcvNxtAlways ==
    \A d : \A n \in Int :
        Isn[d] \in Nat /\ Isn[d] <= n /\ Received(d, n)
        => /\ rcv_nxt(d) \in Isn[d] .. n
           /\ rcv_nxt(d) \notin got[d]
           /\ Isn[d] .. rcv_nxt(d) - 1 \subseteq got[d]
BY RcvNxt

\* The same after a step.
LEMMA RcvNxtNext ==
    (\A d : \A n \in Int :
        Isn[d] \in Nat /\ Isn[d] <= n /\ Received(d, n)
        => /\ rcv_nxt(d) \in Isn[d] .. n
           /\ rcv_nxt(d) \notin got[d]
           /\ Isn[d] .. rcv_nxt(d) - 1 \subseteq got[d])'
BY RcvNxtAlways, PTL

\* The receiver never goes back: what it has stays.
LEMMA RcvGrows ==
    ASSUME TypeOK, UNCHANGED setting, NEW d \in Dir, SenderOK(d),
           got[d] \subseteq got'[d],
           NEW n \in Int, Isn[d] <= n, got'[d] \subseteq Isn[d] .. n - 1
    PROVE  rcv_nxt(d)' \in Int /\ rcv_nxt(d) <= rcv_nxt(d)'
<1>1. Isn' = Isn /\ Isn[d] \in Nat
  BY SettingFrame, Typed
<1>2. Received(d, n)'
  BY <1>1 DEF Received
<1> DEFINE new == rcv_nxt(d)'
           old == rcv_nxt(d)
           isn == Isn[d]
<1>3. new \in isn .. n /\ new \notin got'[d]
  BY <1>1, <1>2, RcvNxtNext
<1>4. old \in Int /\ isn .. old - 1 \subseteq got[d] /\ isn \in Nat
  BY <1>1, RcvNxtSeen
<1> HIDE DEF new, old, isn
<1>5. new \in Int /\ isn <= new
  BY <1>3, <1>4
<1>6. old <= new
  <2> SUFFICES ASSUME ~ (old <= new) PROVE FALSE
    OBVIOUS
  <2>1. new \in isn .. old - 1
    BY <1>4, <1>5
  <2>2. new \in got'[d]
    BY <1>4, <2>1
  <2>3. QED
    BY <1>3, <2>2
<1>7. QED
  BY <1>5, <1>6 DEF new, old

\* A step that does not touch a sender or its receiver, and widens windows at most.
LEMMA SenderFrame ==
    ASSUME TypeOK, UNCHANGED setting, NEW d \in Dir, SenderOK(d),
           UNCHANGED <<snd_una[d], snd_nxt[d], snd_edge[d], seen_end[d], got[d]>>,
           dup'[d] \subseteq dup[d],
           tcp'[Counter(d)].max_win \in Nat, tcp[Counter(d)].max_win <= tcp'[Counter(d)].max_win
    PROVE  SenderOK(d)'
<1> DEFINE a == tcp[Counter(d)].max_win
           b == tcp'[Counter(d)].max_win
           una == snd_una[d]
           edge == snd_edge[d]
<1>1. Isn' = Isn /\ MaxBytes' = MaxBytes /\ rcv_nxt(d)' = rcv_nxt(d)
  BY SettingFrame, RcvFrame
<1>2. a \in Nat /\ b \in Nat /\ a <= b /\ una \in Int /\ edge \in Int /\ edge <= una + a
  BY CounterDir, Typed DEF SenderOK
<1> HIDE DEF a, b, una, edge
<1>3. edge <= una + b
  BY <1>2
<1>4. snd_edge'[d] <= snd_una'[d] + tcp'[Counter(d)].max_win
  BY <1>3 DEF edge, una, b
<1>5. Received(d, seen_end[d])'
  BY <1>1 DEF SenderOK, Received
<1>6. /\ Isn'[d] <= snd_una'[d] /\ snd_una'[d] <= rcv_nxt(d)'
      /\ snd_nxt'[d] <= snd_edge'[d] /\ snd_nxt'[d] <= Isn'[d] + MaxBytes'[d]
      /\ Isn'[d] <= seen_end'[d] /\ seen_end'[d] <= snd_nxt'[d]
  BY <1>1 DEF SenderOK
<1>7. dup'[d] \subseteq Isn'[d] .. seen_end'[d]
  BY <1>1 DEF SenderOK
<1>8. QED
  BY <1>4, <1>5, <1>6, <1>7 DEF SenderOK

\* A segment that stays on the way.
LEMMA SegmentFrame ==
    ASSUME Inv, UNCHANGED setting, NEW d \in Dir,
           NEW j \in 1 .. Len(wire'[d]), NEW k \in 1 .. Len(wire[d]), wire'[d][j] = wire[d][k],
           snd_nxt'[d] \in Int, snd_nxt[d] <= snd_nxt'[d],
           rcv_nxt(Counter(d))' \in Int, rcv_nxt(Counter(d)) <= rcv_nxt(Counter(d))',
           seen_end'[Counter(d)] \in Int, seen_end[Counter(d)] <= seen_end'[Counter(d)]
    PROVE  SegmentOK(d, wire[d][j])'
<1> DEFINE peer == Counter(d)
<1>1. PICK p : p = wire[d][k]
  OBVIOUS
<1>2. peer \in Dir /\ TypeOK /\ SegmentOK(d, p) /\ SenderOK(peer)
  BY <1>1, CounterDir DEF Inv
<1>3. EndOf(p) \in Int /\ p.sent.ack \in Int
  BY <1>1, <1>2, SegmentTyped
<1>4. Isn' = Isn /\ Window' = Window /\ SackUsed' = SackUsed
  BY SettingFrame
<1>5. EndOf(p) <= snd_nxt'[d]
  <2> DEFINE x == EndOf(p)
             y == snd_nxt[d]
             z == snd_nxt'[d]
  <2>1. x \in Int /\ y \in Int /\ z \in Int /\ x <= y /\ y <= z
    BY <1>2, <1>3, Typed DEF SegmentOK
  <2> HIDE DEF x, y, z
  <2>2. x <= z
    BY <2>1
  <2>3. QED
    BY <2>2 DEF x, z
<1>6. p.sent.ack <= rcv_nxt(peer)'
  <2> DEFINE x == p.sent.ack
             y == rcv_nxt(peer)
             z == rcv_nxt(peer)'
  <2>1. x \in Int /\ y \in Int /\ z \in Int /\ x <= y /\ y <= z
    BY <1>2, <1>3, RcvNxtSeen DEF SegmentOK
  <2> HIDE DEF x, y, z
  <2>2. x <= z
    BY <2>1
  <2>3. QED
    BY <2>2 DEF x, z
<1>7. ASSUME NEW e \in p.sack
      PROVE  SackUsed /\ \E n \in Isn[peer] .. seen_end'[peer] : e = u32(n)
  <2>1. SackUsed
    BY <1>2 DEF SegmentOK
  <2>2. PICK n \in Isn[peer] .. seen_end[peer] : e = u32(n)
    BY <1>2 DEF SegmentOK
  <2>3. Isn[peer] \in Int /\ seen_end[peer] \in Int
    BY <1>2, Typed
  <2>4. n \in Isn[peer] .. seen_end'[peer]
    BY <2>2, <2>3
  <2>5. QED
    BY <2>1, <2>2, <2>4
<1>8. SegmentOK(d, p)'
  <2>1. p.seq = u32(p.sent.seq) /\ p.len = p.sent.len /\ p.ack = u32(p.sent.ack)
        /\ p.win \in Window' /\ Isn'[d] - 1 <= p.sent.seq /\ (p.len # 0 => Isn'[d] <= p.sent.seq)
        /\ Isn'[peer] <= p.sent.ack
    BY <1>2, <1>4 DEF SegmentOK
  <2>2. \A e \in p.sack : SackUsed' /\ \E n \in Isn'[peer] .. seen_end'[peer] : e = u32(n)
    BY <1>4, <1>7
  <2>3. QED
    BY <1>5, <1>6, <2>1, <2>2 DEF SegmentOK
<1>9. p = wire'[d][j]
  BY <1>1
<1>10. QED
  BY <1>8, <1>9, Zenon DEF SegmentOK, EndOf

\* The segments that are left keep their order: c of them are gone from the front.
LEMMA OrderFrame ==
    ASSUME Inv, UNCHANGED setting, NEW d \in Dir, NEW c \in Nat,
           Len(wire'[d]) \in Nat,
           \A j \in 1 .. Len(wire'[d]) : j + c \in 1 .. Len(wire[d]) /\ wire'[d][j] = wire[d][j + c],
           seen_end'[d] = seen_end[d], snd_una'[Counter(d)] = snd_una[Counter(d)],
           tcp'[Counter(d)].max_win \in Nat, tcp[Counter(d)].max_win <= tcp'[Counter(d)].max_win
    PROVE  OrderOK(d)'
<1> DEFINE peer == Counter(d)
           a == tcp[peer].max_win
           b == tcp'[peer].max_win
           end(j) == EndOf(wire[d][j])
           ack(j) == wire[d][j].sent.ack
           n == Len(wire[d])
           m == Len(wire'[d])
           seen == seen_end[d]
           una == snd_una[peer]
<1>1. peer \in Dir /\ TypeOK /\ OrderOK(d)
  BY CounterDir DEF Inv
<1>2. Reorder' = Reorder
  BY SettingFrame
<1>3. CASE Reorder
  BY <1>2, <1>3 DEF OrderOK
<1>4. CASE ~ Reorder
  <2>1. /\ \A j \in 1 .. n : end(j) \in Int /\ ack(j) \in Int
        /\ a \in Nat /\ b \in Nat /\ a <= b /\ seen \in Int /\ una \in Int
        /\ n \in Nat /\ m \in Nat
    BY <1>1, SegmentTyped, Typed
  <2>2. \A j \in 1 .. n : seen <= end(j) + a + 1 /\ una <= ack(j)
    BY <1>1, <1>4 DEF OrderOK
  <2>3. \A i, j \in 1 .. n : i < j => end(i) <= end(j) + a + 1 /\ ack(i) <= ack(j)
    BY <1>1, <1>4 DEF OrderOK
  <2>4. \A j \in 1 .. m : /\ j + c \in 1 .. n
                          /\ EndOf(wire'[d][j]) = end(j + c) /\ wire'[d][j].sent.ack = ack(j + c)
    OBVIOUS
  <2> HIDE DEF a, b, end, ack, n, m, seen, una
  <2>5. ASSUME NEW j \in 1 .. m
        PROVE  seen <= EndOf(wire'[d][j]) + b + 1 /\ una <= wire'[d][j].sent.ack
    <3> DEFINE k == j + c
    <3>1. k \in 1 .. n /\ EndOf(wire'[d][j]) = end(k) /\ wire'[d][j].sent.ack = ack(k)
      BY <2>4
    <3> HIDE DEF k
    <3>2. seen <= end(k) + a + 1 /\ una <= ack(k) /\ end(k) \in Int
      BY <2>1, <2>2, <3>1
    <3>3. seen <= end(k) + b + 1
      BY <2>1, <3>2
    <3>4. QED
      BY <3>1, <3>2, <3>3
  <2>6. ASSUME NEW i \in 1 .. m, NEW j \in 1 .. m, i < j
        PROVE  EndOf(wire'[d][i]) <= EndOf(wire'[d][j]) + b + 1
               /\ wire'[d][i].sent.ack <= wire'[d][j].sent.ack
    <3> DEFINE k == i + c
               l == j + c
    <3>1. k \in 1 .. n /\ l \in 1 .. n /\ k < l
      BY <2>4, <2>6
    <3>2. /\ EndOf(wire'[d][i]) = end(k) /\ EndOf(wire'[d][j]) = end(l)
          /\ wire'[d][i].sent.ack = ack(k) /\ wire'[d][j].sent.ack = ack(l)
      BY <2>4
    <3> HIDE DEF k, l
    <3>3. end(k) <= end(l) + a + 1 /\ ack(k) <= ack(l) /\ end(k) \in Int /\ end(l) \in Int
      BY <2>1, <2>3, <3>1
    <3>4. end(k) <= end(l) + b + 1
      BY <2>1, <3>3
    <3>5. QED
      BY <3>2, <3>3, <3>4
  <2>7. /\ seen_end'[d] = seen /\ snd_una'[peer] = una /\ b = tcp'[peer].max_win /\ m = Len(wire'[d])
    BY DEF seen, una, b, m
  <2>8. \A j \in 1 .. Len(wire'[d]) :
           seen_end'[d] <= EndOf(wire'[d][j]) + tcp'[peer].max_win + 1
           /\ snd_una'[peer] <= wire'[d][j].sent.ack
    BY <2>5, <2>7
  <2>9. \A i, j \in 1 .. Len(wire'[d]) : i < j =>
           EndOf(wire'[d][i]) <= EndOf(wire'[d][j]) + tcp'[peer].max_win + 1
           /\ wire'[d][i].sent.ack <= wire'[d][j].sent.ack
    BY <2>6, <2>7
  <2>10. QED
    BY <2>8, <2>9 DEF OrderOK, EndOf
<1>5. QED
  BY <1>3, <1>4

\* The tracked values of a step that touches neither them nor the sender.
LEMMA TrackFrame ==
    ASSUME UNCHANGED setting, NEW d \in Dir,
           UNCHANGED <<tcp[d], td[d], seen_end[d], snd_edge[d]>>, EndOK(d), MaxEndOK(d), MaxWinOK(d)
    PROVE  EndOK(d)' /\ MaxEndOK(d)' /\ MaxWinOK(d)'
<1>1. Isn' = Isn /\ MaxBytes' = MaxBytes
  BY SettingFrame
<1>2. EndOK(d)'
  BY <1>1 DEF EndOK
<1>3. MaxEndOK(d)'
  BY <1>1 DEF MaxEndOK
<1>4. MaxWinOK(d)'
  BY <1>1 DEF MaxWinOK, WindowOK
<1>5. QED
  BY <1>2, <1>3, <1>4

-----------------------------------------------------------------------------
(***************************************************************************)
(* A segment is lost on its way to the engine.                             *)
(***************************************************************************)
LEMMA LoseInv ==
    ASSUME Inv, UNCHANGED setting, NEW d \in Dir, Lose(d)
    PROVE  Inv'
<1>1. TypeOK /\ wire[d] \in Seq(SegmentType) /\ wire[d] # <<>>
  BY Typed DEF Inv, Lose
<1>2. /\ wire' = [wire EXCEPT ![d] = Tail(wire[d])]
      /\ UNCHANGED <<tcp, flushed, td, snd_nxt, snd_una, snd_edge, got, dup, seen_end>>
  BY DEF Lose, endpointVars
<1>3. /\ Tail(wire[d]) \in Seq(SegmentType) /\ Len(Tail(wire[d])) = Len(wire[d]) - 1
      /\ \A j \in 1 .. Len(wire[d]) - 1 : Tail(wire[d])[j] = wire[d][j + 1]
      /\ Len(wire[d]) \in Nat \ {0}
  BY <1>1, TailElements
<1>4. TypeOK'
  <2>1. wire' \in [Dir -> Seq(SegmentType)]
    BY <1>1, <1>2, <1>3 DEF TypeOK
  <2>2. QED
    BY <1>1, <1>2, <2>1 DEF TypeOK
<1>5. ASSUME NEW e \in Dir
      PROVE  \E c \in Nat : /\ Len(wire'[e]) \in Nat
                            /\ \A j \in 1 .. Len(wire'[e]) :
                                  j + c \in 1 .. Len(wire[e]) /\ wire'[e][j] = wire[e][j + c]
  <2>1. CASE e = d
    <3>1. wire'[e] = Tail(wire[d])
      BY <1>1, <1>2, <2>1 DEF TypeOK
    <3> DEFINE one == 1
    <3>2. one \in Nat
          /\ \A j \in 1 .. Len(wire'[e]) : j + one \in 1 .. Len(wire[e]) /\ wire'[e][j] = wire[e][j + one]
      BY <1>3, <2>1, <3>1
    <3> HIDE DEF one
    <3>3. Len(wire'[e]) \in Nat
      BY <1>3, <3>1
    <3>4. QED
      BY <3>2, <3>3
  <2>2. CASE e # d
    <3>1. wire'[e] = wire[e] /\ Len(wire[e]) \in Nat
      BY <1>1, <1>2, <2>2, Typed DEF TypeOK
    <3> DEFINE zero == 0
    <3>2. zero \in Nat
          /\ \A j \in 1 .. Len(wire'[e]) : j + zero \in 1 .. Len(wire[e]) /\ wire'[e][j] = wire[e][j + zero]
      BY <3>1
    <3> HIDE DEF zero
    <3>3. QED
      BY <3>1, <3>2
  <2>3. QED
    BY <2>1, <2>2
<1>6. ASSUME NEW e \in Dir
      PROVE  /\ SenderOK(e)' /\ EndOK(e)' /\ MaxEndOK(e)' /\ MaxWinOK(e)' /\ OrderOK(e)'
             /\ \A j \in 1 .. Len(wire'[e]) : SegmentOK(e, wire[e][j])'
  <2>1. /\ Counter(e) \in Dir /\ SenderOK(e) /\ SenderOK(Counter(e))
        /\ EndOK(e) /\ MaxEndOK(e) /\ MaxWinOK(e)
    BY CounterDir DEF Inv
  <2>2. tcp[Counter(e)].max_win \in Nat /\ tcp'[Counter(e)].max_win = tcp[Counter(e)].max_win
    BY <1>1, <1>2, <2>1, Typed
  <2>3. SenderOK(e)'
    BY <1>1, <1>2, <2>1, <2>2, SenderFrame
  <2>4. EndOK(e)' /\ MaxEndOK(e)' /\ MaxWinOK(e)'
    BY <1>2, <2>1, TrackFrame
  <2>5. PICK c \in Nat : /\ Len(wire'[e]) \in Nat
                         /\ \A j \in 1 .. Len(wire'[e]) :
                               j + c \in 1 .. Len(wire[e]) /\ wire'[e][j] = wire[e][j + c]
    BY <1>5
  <2>6. OrderOK(e)'
    <3>1. seen_end'[e] = seen_end[e] /\ snd_una'[Counter(e)] = snd_una[Counter(e)]
      BY <1>2
    <3>2. tcp[Counter(e)].max_win <= tcp'[Counter(e)].max_win /\ tcp'[Counter(e)].max_win \in Nat
      BY <2>2
    <3>3. QED
      BY <2>5, <3>1, <3>2, OrderFrame
  <2>7. ASSUME NEW j \in 1 .. Len(wire'[e]) PROVE SegmentOK(e, wire[e][j])'
    <3>1. j + c \in 1 .. Len(wire[e]) /\ wire'[e][j] = wire[e][j + c]
      BY <2>5
    <3>2. rcv_nxt(Counter(e))' = rcv_nxt(Counter(e)) /\ rcv_nxt(Counter(e)) \in Int
      BY <1>1, <1>2, <2>1, RcvFrame, RcvNxtSeen
    <3>3. /\ snd_nxt'[e] \in Int /\ snd_nxt[e] <= snd_nxt'[e]
          /\ seen_end'[Counter(e)] \in Int /\ seen_end[Counter(e)] <= seen_end'[Counter(e)]
      BY <1>1, <1>2, <2>1, Typed
    <3>4. PICK k \in 1 .. Len(wire[e]) : wire'[e][j] = wire[e][k]
      BY <3>1
    <3>5. QED
      BY <3>2, <3>3, <3>4, SegmentFrame
  <2>8. QED
    BY <2>3, <2>4, <2>6, <2>7
<1>7. Benign(setting)'
  BY SettingFrame DEF Inv
<1>8. QED
  BY <1>4, <1>6, <1>7 DEF Inv

-----------------------------------------------------------------------------
(***************************************************************************)
(* Steps that leave the endpoints and the wire alone: a segment is refused *)
(* or the engine and conntrack exchange what they know.                    *)
(***************************************************************************)
LEMMA QuietInv ==
    ASSUME Inv, TypeOK',
           UNCHANGED <<setting, wire, snd_nxt, snd_una, snd_edge, got, dup, seen_end>>,
           \A d \in Dir : tcp[d].max_win <= tcp'[d].max_win,
           \A d \in Dir : EndOK(d)' /\ MaxEndOK(d)' /\ MaxWinOK(d)'
    PROVE  Inv'
<1>1. TypeOK /\ \A d \in Dir : tcp'[d].max_win \in Nat
  BY DEF Inv, TypeOK
<1>2. ASSUME NEW e \in Dir
      PROVE  /\ SenderOK(e)' /\ OrderOK(e)'
             /\ \A j \in 1 .. Len(wire'[e]) : SegmentOK(e, wire[e][j])'
  <2>1. Counter(e) \in Dir /\ SenderOK(e) /\ SenderOK(Counter(e))
    BY CounterDir DEF Inv
  <2>2. tcp[Counter(e)].max_win <= tcp'[Counter(e)].max_win /\ tcp'[Counter(e)].max_win \in Nat
    BY <1>1, <2>1
  <2>3. SenderOK(e)'
    BY <1>1, <2>1, <2>2, SenderFrame
  <2> DEFINE zero == 0
  <2>4. /\ zero \in Nat /\ Len(wire'[e]) \in Nat
        /\ \A j \in 1 .. Len(wire'[e]) : j + zero \in 1 .. Len(wire[e]) /\ wire'[e][j] = wire[e][j + zero]
    <3>1. Len(wire[e]) \in Nat /\ wire'[e] = wire[e]
      BY <1>1, Typed
    <3>2. QED
      BY <3>1
  <2> HIDE DEF zero
  <2>5. OrderOK(e)'
    <3>1. seen_end'[e] = seen_end[e] /\ snd_una'[Counter(e)] = snd_una[Counter(e)]
      OBVIOUS
    <3>2. QED
      BY <2>2, <2>4, <3>1, OrderFrame
  <2>6. ASSUME NEW j \in 1 .. Len(wire'[e]) PROVE SegmentOK(e, wire[e][j])'
    <3>1. PICK k \in 1 .. Len(wire[e]) : wire'[e][j] = wire[e][k]
      BY <2>4
    <3>2. rcv_nxt(Counter(e))' = rcv_nxt(Counter(e)) /\ rcv_nxt(Counter(e)) \in Int
      BY <1>1, <2>1, RcvFrame, RcvNxtSeen
    <3>3. /\ snd_nxt'[e] \in Int /\ snd_nxt[e] <= snd_nxt'[e]
          /\ seen_end'[Counter(e)] \in Int /\ seen_end[Counter(e)] <= seen_end'[Counter(e)]
      BY <1>1, <2>1, Typed
    <3>4. QED
      BY <3>1, <3>2, <3>3, SegmentFrame
  <2>7. QED
    BY <2>3, <2>5, <2>6
<1>3. Benign(setting)'
  BY SettingFrame DEF Inv
<1>4. QED
  BY <1>2, <1>3 DEF Inv

\* Giving the connection up keeps the invariant.
LEMMA FlushInv ==
    ASSUME Inv, UNCHANGED setting, NEW d \in Dir, RecvTcpFlush(d)
    PROVE  Inv'
<1>1. /\ flushed' = TRUE
      /\ UNCHANGED <<tcp, td, wire, snd_nxt, snd_una, snd_edge, got, dup, seen_end>>
  BY DEF RecvTcpFlush, endpointVars
<1>2. TypeOK /\ TypeOK'
  BY <1>1 DEF Inv, TypeOK
<1>3. ASSUME NEW e \in Dir PROVE EndOK(e)' /\ MaxEndOK(e)' /\ MaxWinOK(e)'
  <2>1. EndOK(e) /\ MaxEndOK(e) /\ MaxWinOK(e)
    BY DEF Inv
  <2>2. QED
    BY <1>1, <2>1, TrackFrame
<1>4. \A e \in Dir : tcp[e].max_win <= tcp'[e].max_win
  BY <1>1, <1>2, Typed
<1>5. QED
  BY <1>1, <1>2, <1>3, <1>4, QuietInv

\* The ghosts behind the recorded values and how far apart they can be.
LEMMA Ghosts ==
    ASSUME Inv, NEW d \in Dir
    PROVE  /\ tcp[d].end = u32(seen_end[d])
           /\ \E x \in Int : td[d].end = u32(x) /\ Isn[d] <= x /\ x <= seen_end[d]
           /\ \E x \in Int : tcp[d].max_end = u32(x) /\ snd_edge[d] <= x /\ x <= Isn[d] + Half - 2
           /\ \E x \in Int : td[d].maxend = u32(x) /\ Isn[d] <= x /\ x <= Isn[d] + Half - 2
           /\ Isn[d] <= seen_end[d] /\ seen_end[d] <= snd_nxt[d] /\ snd_nxt[d] <= snd_edge[d]
           /\ seen_end[d] <= Isn[d] + MaxBytes[d] /\ MaxBytes[d] + 1 < Half
           /\ Isn[d] <= snd_una[d] /\ snd_una[d] <= seen_end[d] /\ snd_una[d] <= snd_nxt[d]
<1> DEFINE isn == Isn[d]
           bytes == MaxBytes[d]
           seen == seen_end[d]
           edge == snd_edge[d]
           nxt == snd_nxt[d]
           una == snd_una[d]
           rcv == rcv_nxt(d)
           w == tcp[Counter(d)].max_win
<1>1. TypeOK /\ SenderOK(d) /\ EndOK(d) /\ MaxEndOK(d) /\ Counter(d) \in Dir /\ MaxWinOK(Counter(d))
      /\ Counter(Counter(d)) = d
  BY CounterDir DEF Inv
<1>2. /\ isn \in Nat /\ bytes \in Nat /\ seen \in Int /\ edge \in Int /\ nxt \in Int /\ una \in Int
      /\ w \in Nat /\ rcv \in Int /\ Half \in Int
  BY <1>1, Typed, RcvNxtSeen, HalfOfModulus
<1>3. /\ isn <= una /\ una <= rcv /\ rcv <= seen /\ seen <= nxt /\ nxt <= edge
      /\ nxt <= isn + bytes
  BY <1>1, RcvNxtSeen DEF SenderOK
<1>4. w + bytes + 1 < Half
  BY <1>1 DEF MaxWinOK, WindowOK
<1>5. \E x \in Int : td[d].end = u32(x) /\ isn <= x /\ x <= seen
  <2>1. PICK x \in isn .. seen : td[d].end = u32(x)
    BY <1>1 DEF EndOK
  <2>2. QED
    BY <1>2, <2>1
<1>6. \E x \in Int : tcp[d].max_end = u32(x) /\ edge <= x /\ x <= isn + Half - 2
  <2>1. PICK x \in edge .. isn + Half - 2 : tcp[d].max_end = u32(x)
    BY <1>1 DEF MaxEndOK
  <2>2. QED
    BY <1>2, <2>1
<1>7. \E x \in Int : td[d].maxend = u32(x) /\ isn <= x /\ x <= isn + Half - 2
  <2>1. PICK x \in isn .. isn + Half - 2 : td[d].maxend = u32(x)
    BY <1>1 DEF MaxEndOK
  <2>2. QED
    BY <1>2, <2>1
<1>8. tcp[d].end = u32(seen)
  BY <1>1 DEF EndOK
<1> HIDE DEF isn, bytes, seen, edge, nxt, una, rcv, w
<1>9. isn <= seen /\ seen <= isn + bytes /\ bytes + 1 < Half /\ una <= seen /\ una <= nxt
  BY <1>2, <1>3, <1>4
<1>10. QED
  BY <1>3, <1>5, <1>6, <1>7, <1>8, <1>9 DEF isn, bytes, seen, edge, nxt, una

\* sfe_cm_sync_rule: conntrack takes the engine's values where they are ahead.
LEMMA SyncInv ==
    ASSUME Inv, UNCHANGED setting, SyncRule
    PROVE  Inv'
<1>1. /\ td' = [d \in Dir |-> SyncTcp(td[d], tcp[d])]
      /\ UNCHANGED <<tcp, flushed, wire, snd_nxt, snd_una, snd_edge, got, dup, seen_end>>
  BY DEF SyncRule, endpointVars
<1>2. TypeOK
  BY DEF Inv
<1>3. ASSUME NEW d \in Dir
      PROVE  /\ td'[d].maxwin = Larger(tcp[d].max_win, td[d].maxwin)
             /\ td'[d].end = Behind(td[d].end, tcp[d].end)
             /\ td'[d].maxend = Behind(td[d].maxend, tcp[d].max_end)
             /\ td'[d].maxwin \in {tcp[d].max_win, td[d].maxwin}
             /\ td'[d].end \in {tcp[d].end, td[d].end}
             /\ td'[d].maxend \in {tcp[d].max_end, td[d].maxend}
             /\ td'[d] \in [maxwin : Nat, end : Int, maxend : Int]
  <2>1. td'[d] = [maxwin |-> Larger(tcp[d].max_win, td[d].maxwin),
                  end |-> Behind(td[d].end, tcp[d].end),
                  maxend |-> Behind(td[d].maxend, tcp[d].max_end)]
    BY <1>1 DEF SyncTcp
  <2>2. Larger(tcp[d].max_win, td[d].maxwin) \in {tcp[d].max_win, td[d].maxwin}
    BY DEF Larger
  <2>3. Behind(td[d].end, tcp[d].end) \in {tcp[d].end, td[d].end}
        /\ Behind(td[d].maxend, tcp[d].max_end) \in {tcp[d].max_end, td[d].maxend}
    BY DEF Behind
  <2>4. /\ tcp[d].max_win \in Nat /\ tcp[d].end \in Int /\ tcp[d].max_end \in Int
        /\ td[d].maxwin \in Nat /\ td[d].end \in Int /\ td[d].maxend \in Int
    BY <1>2 DEF TypeOK
  <2>5. QED
    BY <2>1, <2>2, <2>3, <2>4
<1>4. TypeOK'
  <2>1. td' \in [Dir -> [maxwin : Nat, end : Int, maxend : Int]]
    BY <1>1, <1>3
  <2>2. QED
    BY <1>1, <1>2, <2>1 DEF TypeOK
<1>5. ASSUME NEW d \in Dir PROVE EndOK(d)' /\ MaxEndOK(d)' /\ MaxWinOK(d)'
  <2> DEFINE isn == Isn[d]
             seen == seen_end[d]
             edge == snd_edge[d]
  <2>1. EndOK(d) /\ MaxEndOK(d) /\ MaxWinOK(d)
    BY DEF Inv
  <2>2. Isn' = Isn /\ MaxBytes' = MaxBytes
    BY SettingFrame
  <2>3. isn \in Int /\ seen \in Int /\ edge \in Int /\ isn <= seen /\ seen <= edge
    <3>1. isn \in Nat /\ seen \in Int /\ edge \in Int /\ snd_nxt[d] \in Int
      BY <1>2, Typed
    <3>2. isn <= seen /\ seen <= snd_nxt[d] /\ snd_nxt[d] <= edge
      BY Ghosts
    <3> HIDE DEF isn, seen, edge
    <3>3. QED
      BY <3>1, <3>2
  <2>4. \E x \in isn .. seen : td'[d].end = u32(x)
    <3>1. PICK x \in isn .. seen : td[d].end = u32(x)
      BY <2>1 DEF EndOK
    <3>2. tcp[d].end = u32(seen) /\ seen \in isn .. seen
      BY <2>1, <2>3 DEF EndOK
    <3>3. QED
      BY <1>3, <3>1, <3>2
  <2>5. \E x \in isn .. isn + Half - 2 : td'[d].maxend = u32(x)
    <3>1. PICK x \in isn .. isn + Half - 2 : td[d].maxend = u32(x)
      BY <2>1 DEF MaxEndOK
    <3>2. PICK y \in edge .. isn + Half - 2 : tcp[d].max_end = u32(y)
      BY <2>1 DEF MaxEndOK
    <3>3. y \in isn .. isn + Half - 2
      BY <2>3, <3>2, HalfOfModulus
    <3>4. QED
      BY <1>3, <3>1, <3>2, <3>3
  <2>6. EndOK(d)'
    BY <1>1, <2>1, <2>2, <2>4 DEF EndOK
  <2>7. MaxEndOK(d)'
    BY <1>1, <2>1, <2>2, <2>5 DEF MaxEndOK
  <2>8. WindowOK(d, tcp[d].max_win) /\ WindowOK(d, td[d].maxwin)
    BY <2>1 DEF MaxWinOK
  <2>9. MaxWinOK(d)'
    <3>1. PICK v : v = tcp[d].max_win
      OBVIOUS
    <3>2. PICK w : w = td'[d].maxwin
      OBVIOUS
    <3>3. WindowOK(d, v) /\ WindowOK(d, w)
      BY <1>3, <2>8, <3>1, <3>2
    <3>4. WindowOK(d, v)' /\ WindowOK(d, w)'
      BY <2>2, <3>3 DEF WindowOK
    <3>5. v = tcp'[d].max_win
      BY <1>1, <3>1
    <3>6. QED
      BY <3>2, <3>4, <3>5 DEF MaxWinOK, WindowOK
  <2>10. QED
    BY <2>6, <2>7, <2>9
<1>6. \A d \in Dir : tcp[d].max_win <= tcp'[d].max_win
  BY <1>1, <1>2, Typed
<1>7. QED
  BY <1>1, <1>4, <1>5, <1>6, QuietInv

\* A step moves the right edge of a direction forward, by less than half of the space.
MaxEndAdvances(d) ==
    \E x, y \in Int : /\ tcp[d].max_end = u32(x) /\ tcp'[d].max_end = u32(y)
                      /\ x <= y /\ y - x < Half

\* sfe_ipv4_create_rule for a connection that is there: the engine takes
\* conntrack's values where they are ahead.  They never are for the end.
LEMMA UpdateFacts ==
    ASSUME Inv, UNCHANGED setting, UpdateTcpState, NEW d \in Dir
    PROVE  /\ tcp'[d] \in [max_win : Nat, end : Int, max_end : Int]
           /\ tcp[d].max_win <= tcp'[d].max_win
           /\ EndOK(d)' /\ MaxEndOK(d)' /\ MaxWinOK(d)' /\ MaxEndAdvances(d)
<1> DEFINE isn == Isn[d]
           bytes == MaxBytes[d]
           seen == seen_end[d]
           edge == snd_edge[d]
           nxt == snd_nxt[d]
           a == tcp[d].max_win
           b == td[d].maxwin
<1>1. UNCHANGED <<td, seen_end, snd_edge>> /\ TypeOK /\ Isn' = Isn /\ MaxBytes' = MaxBytes
  BY SettingFrame DEF UpdateTcpState, endpointVars, Inv
<1>2. tcp'[d] = [max_win |-> Larger(b, a), end |-> Behind(tcp[d].end, td[d].end),
                 max_end |-> Behind(tcp[d].max_end, td[d].maxend)]
  BY DEF UpdateTcpState, UpdateTcp
<1>3. /\ isn \in Nat /\ bytes \in Nat /\ seen \in Int /\ edge \in Int /\ nxt \in Int
      /\ a \in Nat /\ b \in Nat /\ Half \in Nat
  BY <1>1, Typed, HalfOfModulus
<1>4. PICK x \in Int : td[d].end = u32(x) /\ isn <= x /\ x <= seen
  BY Ghosts
<1>5. PICK y \in Int : tcp[d].max_end = u32(y) /\ edge <= y /\ y <= isn + Half - 2
  BY Ghosts
<1>6. PICK z \in Int : td[d].maxend = u32(z) /\ isn <= z /\ z <= isn + Half - 2
  BY Ghosts
<1>7. /\ tcp[d].end = u32(seen) /\ isn <= seen /\ seen <= nxt /\ nxt <= edge
      /\ seen <= isn + bytes /\ bytes + 1 < Half
  BY Ghosts
<1> HIDE DEF isn, bytes, seen, edge, nxt
<1>8. Behind(u32(seen), u32(x)) = u32(seen)
  <2>1. - Half <= seen - x /\ seen - x < Half /\ ~ (seen < x)
    BY <1>3, <1>4, <1>7
  <2>2. QED
    BY <1>3, <2>1, BehindIsLater
<1> DEFINE m == IF y < z THEN z ELSE y
<1>9. Behind(u32(y), u32(z)) = u32(m)
  <2>1. - Half <= y - z /\ y - z < Half
    BY <1>3, <1>5, <1>6, <1>7
  <2>2. QED
    BY <2>1, BehindIsLater
<1>10. /\ m \in Int /\ y <= m /\ m - y < Half
       /\ m \in edge .. isn + Half - 2 /\ z \in isn .. isn + Half - 2
       /\ x \in isn .. seen
  BY <1>3, <1>4, <1>5, <1>6, <1>7
<1> HIDE DEF m
<1>11. tcp'[d].end = u32(seen) /\ tcp'[d].max_end = u32(m) /\ tcp'[d].max_win = Larger(b, a)
  BY <1>2, <1>4, <1>5, <1>6, <1>7, <1>8, <1>9
<1>12. EndOK(d)'
  BY <1>1, <1>4, <1>10, <1>11 DEF EndOK, isn, seen
<1>13. MaxEndOK(d)'
  BY <1>1, <1>6, <1>10, <1>11 DEF MaxEndOK, isn, edge
<1>14. MaxEndAdvances(d)
  BY <1>5, <1>10, <1>11 DEF MaxEndAdvances
<1>15. Larger(b, a) \in {a, b} /\ Larger(b, a) \in Nat /\ a <= Larger(b, a)
  BY <1>3 DEF Larger
<1>16. MaxWinOK(d)'
  <2>1. WindowOK(d, a) /\ WindowOK(d, b)
    BY DEF Inv, MaxWinOK
  <2>2. PICK v : v = tcp'[d].max_win
    OBVIOUS
  <2>3. PICK w : w = td'[d].maxwin
    OBVIOUS
  <2>4. WindowOK(d, v) /\ WindowOK(d, w)
    BY <1>1, <1>11, <1>15, <2>1, <2>2, <2>3
  <2>5. WindowOK(d, v)' /\ WindowOK(d, w)'
    BY <1>1, <2>4 DEF WindowOK
  <2>6. QED
    BY <2>2, <2>3, <2>5 DEF MaxWinOK, WindowOK
<1>17. u32(seen) \in Int /\ u32(m) \in Int
  BY <1>3, <1>10, U32Type
<1>18. tcp'[d] \in [max_win : Nat, end : Int, max_end : Int]
  BY <1>2, <1>4, <1>5, <1>6, <1>7, <1>8, <1>9, <1>15, <1>17
<1>19. QED
  BY <1>11, <1>12, <1>13, <1>14, <1>15, <1>16, <1>18

\* An update from conntrack keeps the invariant.
LEMMA UpdateInv ==
    ASSUME Inv, UNCHANGED setting, UpdateTcpState
    PROVE  Inv'
<1>1. UNCHANGED <<flushed, td, wire, snd_nxt, snd_una, snd_edge, got, dup, seen_end>>
      /\ tcp' = [d \in Dir |-> UpdateTcp(tcp[d], td[d])]
  BY DEF UpdateTcpState, endpointVars
<1>2. tcp' \in [Dir -> [max_win : Nat, end : Int, max_end : Int]]
  <2>1. \A d \in Dir : tcp'[d] \in [max_win : Nat, end : Int, max_end : Int]
    BY UpdateFacts
  <2>2. QED
    BY <1>1, <2>1
<1>3. TypeOK'
  BY <1>1, <1>2 DEF Inv, TypeOK
<1>4. \A d \in Dir : tcp[d].max_win <= tcp'[d].max_win
  BY UpdateFacts
<1>5. \A d \in Dir : EndOK(d)' /\ MaxEndOK(d)' /\ MaxWinOK(d)'
  BY UpdateFacts
<1>6. QED
  BY <1>1, <1>3, <1>4, <1>5, QuietInv

-----------------------------------------------------------------------------
(***************************************************************************)
(* An endpoint sends a segment.                                            *)
(***************************************************************************)
\* What a sender may put into a segment.
LEMMA SendFacts ==
    ASSUME Inv, NEW d \in Dir, NEW seq, NEW len \in Nat, NEW win \in Window, NEW pad \in Padding,
           Send(d, seq, len, win, pad)
    PROVE  /\ seq \in Int /\ seq + len \in Int
           /\ Isn[d] - 1 <= seq /\ (len # 0 => Isn[d] <= seq)
           /\ snd_una[d] - 1 <= seq + len
           /\ seq + len <= snd_edge[d] /\ seq + len <= Isn[d] + MaxBytes[d]
<1> DEFINE isn == Isn[d]
           bytes == MaxBytes[d]
           una == snd_una[d]
           nxt == snd_nxt[d]
           edge == snd_edge[d]
<1>1. /\ isn \in Nat /\ bytes \in Nat /\ una \in Int /\ nxt \in Int /\ edge \in Int
  BY Typed DEF Inv
<1>2. isn <= una /\ una <= nxt /\ nxt <= edge
  BY Ghosts
<1>3. /\ \/ seq = nxt /\ seq + len <= edge
         \/ seq = una /\ len \in 1 .. nxt - seq
         \/ seq = una - 1 /\ len = 0
      /\ seq + len <= isn + bytes
  BY DEF Send
<1> HIDE DEF isn, bytes, una, nxt, edge
<1>4. seq \in Int
  BY <1>1, <1>3
<1>5. isn - 1 <= seq /\ (len # 0 => isn <= seq) /\ una - 1 <= seq + len /\ seq + len <= edge
      /\ seq + len \in Int
  BY <1>1, <1>2, <1>3, <1>4
<1>6. QED
  BY <1>3, <1>4, <1>5 DEF isn, bytes, una, edge

\* The segment is one that SegmentOK describes.
LEMMA NewSegment ==
    ASSUME Inv, NEW d \in Dir, NEW seq, NEW len \in Nat, NEW win \in Window, NEW pad \in Padding,
           Send(d, seq, len, win, pad)
    PROVE  LET p == Segment(d, seq, len, win, pad)
           IN  /\ p \in SegmentType
               /\ p.seq = u32(seq) /\ p.len = len /\ p.win = win /\ p.ack = u32(rcv_nxt(Counter(d)))
               /\ p.sent = [seq |-> seq, len |-> len, ack |-> rcv_nxt(Counter(d))]
               /\ \A e \in p.sack : SackUsed /\ \E n \in Isn[Counter(d)] .. seen_end[Counter(d)] : e = u32(n)
<1> DEFINE peer == Counter(d)
           isn == Isn[peer]
           seen == seen_end[peer]
           edges == OutOfOrderEdges(peer) \cup dup[peer]
           sack == IF SackUsed THEN {u32(n) : n \in edges} ELSE {}
           rcv == rcv_nxt(peer)
<1>1. peer \in Dir /\ TypeOK /\ SenderOK(peer)
  BY CounterDir DEF Inv
<1>2. isn \in Nat /\ seen \in Int /\ rcv \in Int /\ seq \in Int
  BY <1>1, Typed, RcvNxtSeen, SendFacts
<1>3. pad = 0
  BY DEF Inv, Benign, Padding
<1>4. win \in Nat
  BY <1>1, SettingFacts, HalfOfModulus DEF TypeOK
<1>5. edges \subseteq isn .. seen
  <2>1. got[peer] \subseteq isn .. seen - 1 /\ dup[peer] \subseteq isn .. seen
    BY <1>1 DEF SenderOK, Received
  <2>2. ASSUME NEW n \in OutOfOrderEdges(peer) PROVE n \in isn .. seen
    <3>1. PICK b \in got[peer] : n = b + 1
      BY DEF OutOfOrderEdges
    <3>2. b \in isn .. seen - 1
      BY <2>1
    <3>3. QED
      BY <1>2, <3>1, <3>2
  <2>3. QED
    BY <2>1, <2>2
<1> HIDE DEF edges, isn, seen
<1>6. \A n \in edges : n \in Int /\ u32(n) \in Int
  <2>1. \A n \in edges : n \in Int
    BY <1>5
  <2>2. QED
    BY <2>1, U32Type
<1>7. sack \subseteq Int /\ \A e \in sack : SackUsed /\ \E n \in isn .. seen : e = u32(n)
  <2>1. CASE SackUsed
    BY <1>5, <1>6, <2>1
  <2>2. CASE ~ SackUsed
    BY <2>2
  <2>3. QED
    BY <2>1, <2>2
<1> DEFINE p == Segment(d, seq, len, win, pad)
<1>8. p = [seq |-> u32(seq), len |-> len + pad, win |-> win, ack |-> u32(rcv), sack |-> sack,
           sent |-> [seq |-> seq, len |-> len, ack |-> rcv]]
  BY DEF Segment, edges
<1>9. len + pad = len
  BY <1>3
<1>10. u32(seq) \in Int /\ u32(rcv) \in Int
  BY <1>2, U32Type
<1> HIDE DEF p, sack, rcv
<1>11. p.seq = u32(seq) /\ p.len = len /\ p.win = win /\ p.ack = u32(rcv) /\ p.sack = sack
       /\ p.sent = [seq |-> seq, len |-> len, ack |-> rcv]
  BY <1>8, <1>9
<1>12. p \in SegmentType
  <2>1. [seq |-> seq, len |-> len, ack |-> rcv] \in [seq : Int, len : Nat, ack : Int]
    BY <1>2
  <2>2. sack \in SUBSET Int
    BY <1>7
  <2>3. QED
    BY <1>4, <1>8, <1>9, <1>10, <2>1, <2>2 DEF SegmentType
<1>13. \A e \in p.sack : SackUsed /\ \E n \in isn .. seen : e = u32(n)
  BY <1>7, <1>11
<1>14. QED
  BY <1>11, <1>12, <1>13 DEF p, rcv, isn, seen

\* Sending keeps the types.
LEMMA SendTypeOK ==
    ASSUME Inv, UNCHANGED setting,
           NEW d \in Dir, NEW seq, NEW len \in Nat, NEW win \in Window, NEW pad \in Padding,
           Send(d, seq, len, win, pad)
    PROVE  /\ TypeOK'
           /\ snd_nxt'[d] = IF snd_nxt[d] < seq + len THEN seq + len ELSE snd_nxt[d]
           /\ \A e \in Dir : e # d => snd_nxt'[e] = snd_nxt[e] /\ wire'[e] = wire[e]
           /\ wire'[d] = Append(wire[d], Segment(d, seq, len, win, pad))
           /\ dup'[Counter(d)] = {} /\ \A e \in Dir : e # Counter(d) => dup'[e] = dup[e]
           /\ UNCHANGED <<tcp, flushed, td, snd_una, snd_edge, got, seen_end>>
<1> DEFINE p == Segment(d, seq, len, win, pad)
           nxt == snd_nxt[d]
           end == seq + len
<1>1. /\ wire' = [wire EXCEPT ![d] = Append(wire[d], p)]
      /\ snd_nxt' = [snd_nxt EXCEPT ![d] = Max({nxt, end})]
      /\ dup' = [dup EXCEPT ![Counter(d)] = {}]
      /\ UNCHANGED <<tcp, flushed, td, snd_una, snd_edge, got, seen_end>>
  BY DEF Send
<1>2. TypeOK /\ p \in SegmentType /\ nxt \in Int /\ end \in Int
  BY Typed, NewSegment, SendFacts DEF Inv
<1> HIDE DEF p, end
<1>3. Max({nxt, end}) = IF nxt < end THEN end ELSE nxt
  BY <1>2, MaxOfTwo
<1>4. Max({nxt, end}) \in Int
  BY <1>2, <1>3
<1>5. wire[d] \in Seq(SegmentType) /\ Append(wire[d], p) \in Seq(SegmentType)
  BY <1>2, Typed, AppendElements
<1>6. wire' \in [Dir -> Seq(SegmentType)] /\ snd_nxt' \in [Dir -> Int] /\ dup' \in [Dir -> SUBSET Int]
  <2>1. wire \in [Dir -> Seq(SegmentType)] /\ snd_nxt \in [Dir -> Int] /\ dup \in [Dir -> SUBSET Int]
    BY <1>2 DEF TypeOK
  <2>2. wire' \in [Dir -> Seq(SegmentType)]
    BY <1>1, <1>5, <2>1
  <2>3. snd_nxt' \in [Dir -> Int]
    BY <1>1, <1>4, <2>1
  <2>4. dup' \in [Dir -> SUBSET Int]
    BY <1>1, <2>1
  <2>5. QED
    BY <2>2, <2>3, <2>4
<1>7. TypeOK'
  BY <1>1, <1>2, <1>6 DEF TypeOK
<1>8. /\ snd_nxt'[d] = Max({nxt, end}) /\ wire'[d] = Append(wire[d], p)
      /\ \A e \in Dir : e # d => snd_nxt'[e] = snd_nxt[e] /\ wire'[e] = wire[e]
      /\ dup'[Counter(d)] = {} /\ \A e \in Dir : e # Counter(d) => dup'[e] = dup[e]
  BY <1>1, <1>2, CounterDir DEF TypeOK
<1>9. QED
  BY <1>1, <1>3, <1>7, <1>8 DEF p, end

\* The sender stays within its window.
LEMMA SendSenderOK ==
    ASSUME Inv, UNCHANGED setting,
           NEW d \in Dir, NEW seq, NEW len \in Nat, NEW win \in Window, NEW pad \in Padding,
           Send(d, seq, len, win, pad), NEW e \in Dir
    PROVE  SenderOK(e)'
<1>1. /\ UNCHANGED <<tcp, flushed, td, snd_una, snd_edge, got, seen_end>>
      /\ snd_nxt'[d] = IF snd_nxt[d] < seq + len THEN seq + len ELSE snd_nxt[d]
      /\ \A f \in Dir : f # d => snd_nxt'[f] = snd_nxt[f]
      /\ dup'[Counter(d)] = {} /\ \A f \in Dir : f # Counter(d) => dup'[f] = dup[f]
  BY SendTypeOK
<1>2. TypeOK /\ SenderOK(e) /\ Counter(e) \in Dir /\ Counter(e) # e /\ (e = d \/ e = Counter(d))
  BY CounterDir DEF Inv
<1>3. tcp'[Counter(e)].max_win \in Nat /\ tcp[Counter(e)].max_win <= tcp'[Counter(e)].max_win
  BY <1>1, <1>2, Typed
<1>4. CASE e # d
  <2>1. dup'[e] \subseteq dup[e] /\ snd_nxt'[e] = snd_nxt[e]
    BY <1>1, <1>2, <1>4
  <2>2. UNCHANGED <<snd_una[e], snd_nxt[e], snd_edge[e], seen_end[e], got[e]>>
    BY <1>1, <2>1
  <2>3. QED
    BY <1>2, <1>3, <2>1, <2>2, SenderFrame
<1>5. CASE e = d
  <2> DEFINE isn == Isn[e]
             bytes == MaxBytes[e]
             nxt == snd_nxt[e]
             new == snd_nxt'[e]
             edge == snd_edge[e]
             seen == seen_end[e]
             end == seq + len
  <2>1. /\ isn \in Nat /\ bytes \in Nat /\ nxt \in Int /\ edge \in Int /\ seen \in Int /\ end \in Int
        /\ end <= edge /\ end <= isn + bytes
    BY <1>2, <1>5, Typed, SendFacts
  <2>2. nxt <= edge /\ nxt <= isn + bytes /\ seen <= nxt
    BY <1>2 DEF SenderOK
  <2>3. new = IF nxt < end THEN end ELSE nxt
    BY <1>1, <1>5
  <2> HIDE DEF isn, bytes, nxt, new, edge, seen, end
  <2>4. new <= edge /\ new <= isn + bytes /\ seen <= new
    BY <2>1, <2>2, <2>3
  <2>5. snd_nxt'[e] <= snd_edge[e] /\ snd_nxt'[e] <= Isn[e] + MaxBytes[e] /\ seen_end[e] <= snd_nxt'[e]
    BY <2>4 DEF isn, bytes, new, edge, seen
  <2>6. Isn' = Isn /\ MaxBytes' = MaxBytes /\ rcv_nxt(e)' = rcv_nxt(e)
    BY <1>1, SettingFrame, RcvFrame
  <2>7. /\ snd_una'[e] = snd_una[e] /\ snd_edge'[e] = snd_edge[e] /\ seen_end'[e] = seen_end[e]
        /\ got'[e] = got[e] /\ dup'[e] = dup[e] /\ tcp' = tcp
    BY <1>1, <1>2, <1>5
  <2>8. Received(e, seen_end[e])'
    BY <1>2, <2>6, <2>7 DEF SenderOK, Received
  <2>9. QED
    BY <1>2, <2>5, <2>6, <2>7, <2>8 DEF SenderOK
<1>6. QED
  BY <1>4, <1>5

\* The new segment is behind all others, and at most a window behind them.
LEMMA SendOrderOK ==
    ASSUME Inv, UNCHANGED setting,
           NEW d \in Dir, NEW seq, NEW len \in Nat, NEW win \in Window, NEW pad \in Padding,
           Send(d, seq, len, win, pad), ~ Reorder
    PROVE  OrderOK(d)'
<1> DEFINE peer == Counter(d)
           p == Segment(d, seq, len, win, pad)
           a == tcp[peer].max_win
           end(j) == EndOf(wire[d][j])
           ack(j) == wire[d][j].sent.ack
           n == Len(wire[d])
           seen == seen_end[d]
           una == snd_una[peer]
           mine == snd_una[d]
           nxt == snd_nxt[d]
           edge == snd_edge[d]
           rcv == rcv_nxt(peer)
           e == seq + len
<1>1. peer \in Dir /\ Counter(peer) = d /\ TypeOK /\ OrderOK(d) /\ SenderOK(d) /\ SenderOK(peer)
  BY CounterDir DEF Inv
<1>2. /\ \A j \in 1 .. n : end(j) \in Int /\ ack(j) \in Int
      /\ a \in Nat /\ seen \in Int /\ una \in Int /\ mine \in Int /\ nxt \in Int /\ edge \in Int
      /\ n \in Nat /\ rcv \in Int /\ e \in Int /\ wire[d] \in Seq(SegmentType)
  BY <1>1, SegmentTyped, Typed, RcvNxtSeen, SendFacts
<1>3. \A j \in 1 .. n : seen <= end(j) + a + 1 /\ una <= ack(j)
  BY <1>1 DEF OrderOK
<1>4. \A i, j \in 1 .. n : i < j => end(i) <= end(j) + a + 1 /\ ack(i) <= ack(j)
  BY <1>1 DEF OrderOK
<1>5. \A j \in 1 .. n : end(j) <= nxt /\ ack(j) <= rcv
  BY <1>1 DEF Inv, SegmentOK
<1>6. /\ mine - 1 <= e /\ edge <= mine + a /\ nxt <= edge /\ seen <= nxt /\ una <= rcv
  BY <1>1, SendFacts DEF SenderOK
<1>7. p \in SegmentType /\ p.sent = [seq |-> seq, len |-> len, ack |-> rcv]
  BY NewSegment
<1>8. EndOf(p) = e /\ p.sent.ack = rcv
  BY <1>7 DEF EndOf
<1>9. wire'[d] = Append(wire[d], p) /\ tcp' = tcp /\ seen_end' = seen_end /\ snd_una' = snd_una
  <2>1. wire'[d] = Append(wire[d], p)
    BY <1>1 DEF Send, TypeOK
  <2>2. tcp' = tcp /\ seen_end' = seen_end /\ snd_una' = snd_una
    BY SendTypeOK
  <2>3. QED
    BY <2>1, <2>2
<1> HIDE DEF p
<1>10. /\ Len(wire'[d]) = n + 1
       /\ \A j \in 1 .. n + 1 : wire'[d][j] = IF j <= n THEN wire[d][j] ELSE p
  BY <1>1, <1>2, <1>7, <1>9, AppendElements
<1>11. \A j \in 1 .. n + 1 : /\ j <= n => j \in 1 .. n /\ EndOf(wire'[d][j]) = end(j) /\ wire'[d][j].sent.ack = ack(j)
                             /\ ~ (j <= n) => j = n + 1 /\ EndOf(wire'[d][j]) = e /\ wire'[d][j].sent.ack = rcv
  <2> SUFFICES ASSUME NEW j \in 1 .. n + 1
               PROVE  /\ j <= n => j \in 1 .. n /\ EndOf(wire'[d][j]) = end(j) /\ wire'[d][j].sent.ack = ack(j)
                      /\ ~ (j <= n) => j = n + 1 /\ EndOf(wire'[d][j]) = e /\ wire'[d][j].sent.ack = rcv
    OBVIOUS
  <2>1. wire'[d][j] = IF j <= n THEN wire[d][j] ELSE p
    BY <1>10
  <2>2. j <= n => j \in 1 .. n
    BY <1>2
  <2>3. ~ (j <= n) => j = n + 1
    BY <1>2
  <2>4. j <= n => EndOf(wire'[d][j]) = end(j) /\ wire'[d][j].sent.ack = ack(j)
    BY <2>1
  <2>5. ~ (j <= n) => EndOf(wire'[d][j]) = e /\ wire'[d][j].sent.ack = rcv
    BY <1>8, <2>1
  <2>6. QED
    BY <2>2, <2>3, <2>4, <2>5
<1> DEFINE End(j) == EndOf(wire'[d][j])
           Ack(j) == wire'[d][j].sent.ack
<1>12. \A j \in 1 .. n + 1 : /\ j <= n => j \in 1 .. n /\ End(j) = end(j) /\ Ack(j) = ack(j)
                             /\ ~ (j <= n) => j = n + 1 /\ End(j) = e /\ Ack(j) = rcv
  BY <1>11
<1> HIDE DEF a, end, ack, n, seen, una, mine, nxt, edge, rcv, e, End, Ack
<1>13. nxt <= e + a + 1
  BY <1>2, <1>6
<1>14. ASSUME NEW j \in 1 .. n + 1
       PROVE  seen <= End(j) + a + 1 /\ una <= Ack(j)
  BY <1>2, <1>3, <1>6, <1>12, <1>13
<1>15. ASSUME NEW i \in 1 .. n + 1, NEW j \in 1 .. n + 1, i < j
       PROVE  End(i) <= End(j) + a + 1 /\ Ack(i) <= Ack(j)
  <2>1. i \in 1 .. n /\ End(i) = end(i) /\ Ack(i) = ack(i) /\ end(i) \in Int /\ ack(i) \in Int
    BY <1>2, <1>12, <1>15
  <2>2. CASE j <= n
    BY <1>4, <1>12, <1>15, <2>1, <2>2
  <2>3. CASE ~ (j <= n)
    <3>1. End(j) = e /\ Ack(j) = rcv
      BY <1>12, <2>3
    <3>2. end(i) <= nxt /\ ack(i) <= rcv
      BY <1>5, <2>1
    <3>3. end(i) <= e + a + 1
      BY <1>2, <1>13, <2>1, <3>2
    <3>4. QED
      BY <2>1, <3>1, <3>2, <3>3
  <2>4. QED
    BY <2>2, <2>3
<1>16. Len(wire'[d]) = n + 1 /\ seen_end'[d] = seen /\ snd_una'[peer] = una /\ tcp'[peer].max_win = a
  BY <1>9, <1>10 DEF n, seen, una, a
<1>17. \A j \in 1 .. Len(wire'[d]) :
          seen_end'[d] <= EndOf(wire'[d][j]) + tcp'[peer].max_win + 1
          /\ snd_una'[peer] <= wire'[d][j].sent.ack
  BY <1>14, <1>16 DEF End, Ack
<1>18. \A i, j \in 1 .. Len(wire'[d]) : i < j =>
          EndOf(wire'[d][i]) <= EndOf(wire'[d][j]) + tcp'[peer].max_win + 1
          /\ wire'[d][i].sent.ack <= wire'[d][j].sent.ack
  BY <1>15, <1>16 DEF End, Ack
<1>19. QED
  BY <1>17, <1>18 DEF OrderOK, EndOf

\* A segment sent is within its sender's bounds.
LEMMA SendSegmentOK ==
    ASSUME Inv, UNCHANGED setting,
           NEW d \in Dir, NEW seq, NEW len \in Nat, NEW win \in Window, NEW pad \in Padding,
           Send(d, seq, len, win, pad), NEW e \in Dir, NEW j \in 1 .. Len(wire'[e])
    PROVE  SegmentOK(e, wire[e][j])'
<1> DEFINE peer == Counter(e)
<1>1. TypeOK /\ peer \in Dir /\ SenderOK(peer) /\ SenderOK(e)
  BY CounterDir DEF Inv
<1>2. /\ UNCHANGED <<tcp, flushed, td, snd_una, snd_edge, got, seen_end>>
      /\ snd_nxt'[d] = IF snd_nxt[d] < seq + len THEN seq + len ELSE snd_nxt[d]
      /\ \A f \in Dir : f # d => snd_nxt'[f] = snd_nxt[f] /\ wire'[f] = wire[f]
      /\ wire'[d] = Append(wire[d], Segment(d, seq, len, win, pad))
  <2>1. wire'[d] = Append(wire[d], Segment(d, seq, len, win, pad))
    BY <1>1 DEF Send, TypeOK
  <2>2. UNCHANGED <<tcp, flushed, td, snd_una, snd_edge, got, seen_end>>
    BY SendTypeOK
  <2>3. snd_nxt'[d] = IF snd_nxt[d] < seq + len THEN seq + len ELSE snd_nxt[d]
    BY SendTypeOK
  <2>4. \A f \in Dir : f # d => snd_nxt'[f] = snd_nxt[f] /\ wire'[f] = wire[f]
    BY SendTypeOK
  <2>5. QED
    BY <2>1, <2>2, <2>3, <2>4
<1>3. rcv_nxt(peer)' = rcv_nxt(peer) /\ rcv_nxt(peer) \in Int /\ Isn[peer] <= rcv_nxt(peer)
  BY <1>1, <1>2, RcvFrame, RcvNxtSeen
<1>4. snd_nxt'[e] \in Int /\ snd_nxt[e] <= snd_nxt'[e] /\ (e = d => seq + len <= snd_nxt'[e])
  BY <1>1, <1>2, Typed, SendFacts
<1>5. seen_end'[peer] \in Int /\ seen_end[peer] <= seen_end'[peer]
  BY <1>1, <1>2, Typed
<1>6. ASSUME NEW k \in 1 .. Len(wire[e]), wire'[e][j] = wire[e][k] PROVE SegmentOK(e, wire[e][j])'
  BY <1>3, <1>4, <1>5, <1>6, SegmentFrame
<1>7. CASE e # d
  <2>1. wire'[e] = wire[e]
    BY <1>2, <1>7
  <2>2. QED
    BY <1>6, <2>1
<1>8. CASE e = d
  <2> DEFINE q == Segment(d, seq, len, win, pad)
  <2>1. /\ q \in SegmentType
        /\ q.seq = u32(seq) /\ q.len = len /\ q.win = win /\ q.ack = u32(rcv_nxt(Counter(d)))
        /\ q.sent = [seq |-> seq, len |-> len, ack |-> rcv_nxt(Counter(d))]
        /\ \A x \in q.sack : SackUsed /\ \E n \in Isn[Counter(d)] .. seen_end[Counter(d)] : x = u32(n)
    BY NewSegment
  <2>2. wire[d] \in Seq(SegmentType) /\ Len(wire[d]) \in Nat /\ wire'[d] = Append(wire[d], q)
    BY <1>1, <1>2, Typed
  <2> HIDE DEF q
  <2>3. /\ Len(wire'[d]) = Len(wire[d]) + 1
        /\ \A k \in 1 .. Len(wire[d]) + 1 : wire'[d][k] = IF k <= Len(wire[d]) THEN wire[d][k] ELSE q
    BY <2>1, <2>2, AppendElements
  <2>4. CASE j <= Len(wire[d])
    <3>1. j \in 1 .. Len(wire[e]) /\ wire'[e][j] = wire[e][j]
      BY <1>8, <2>2, <2>3, <2>4
    <3>2. QED
      BY <1>6, <3>1
  <2>5. CASE ~ (j <= Len(wire[d]))
    <3>1. wire'[e][j] = q
      BY <1>8, <2>3, <2>5
    <3>2. PICK p : p = q
      OBVIOUS
    <3>3. Isn' = Isn /\ Window' = Window /\ SackUsed' = SackUsed
      BY SettingFrame
    <3>4. /\ p.sent.seq = seq /\ p.sent.len = len /\ p.sent.ack = rcv_nxt(peer)'
          /\ p.seq = u32(p.sent.seq) /\ p.len = p.sent.len /\ p.ack = u32(p.sent.ack) /\ p.win \in Window
      BY <1>3, <1>8, <2>1, <3>2
    <3>5. EndOf(p) = seq + len /\ Isn[e] - 1 <= p.sent.seq /\ (p.len # 0 => Isn[e] <= p.sent.seq)
      BY <1>8, <3>4, SendFacts DEF EndOf
    <3>6. \A x \in p.sack : SackUsed' /\ \E n \in Isn'[peer] .. seen_end'[peer] : x = u32(n)
      BY <1>2, <1>8, <2>1, <3>2, <3>3
    <3>7. SegmentOK(e, p)'
      <4>1. Isn'[peer] <= p.sent.ack /\ p.sent.ack <= rcv_nxt(peer)'
        BY <1>3, <3>3, <3>4
      <4>2. EndOf(p) <= snd_nxt'[e]
        BY <1>4, <1>8, <3>5
      <4>3. /\ p.seq = u32(p.sent.seq) /\ p.len = p.sent.len /\ p.ack = u32(p.sent.ack) /\ p.win \in Window'
            /\ Isn'[e] - 1 <= p.sent.seq /\ (p.len # 0 => Isn'[e] <= p.sent.seq)
        BY <3>3, <3>4, <3>5
      <4>4. QED
        BY <3>6, <4>1, <4>2, <4>3 DEF SegmentOK
    <3>8. p = wire'[e][j]
      BY <3>1, <3>2
    <3>9. QED
      BY <3>7, <3>8, Zenon DEF SegmentOK, EndOf
  <2>6. QED
    BY <2>4, <2>5
<1>9. QED
  BY <1>7, <1>8

\* Sending keeps the invariant.
LEMMA SendInv ==
    ASSUME Inv, UNCHANGED setting,
           NEW d \in Dir, NEW seq, NEW len \in Nat, NEW win \in Window, NEW pad \in Padding,
           Send(d, seq, len, win, pad)
    PROVE  Inv'
<1>1. TypeOK /\ TypeOK' /\ UNCHANGED <<tcp, flushed, td, snd_una, snd_edge, got, seen_end>>
      /\ \A e \in Dir : e # d => wire'[e] = wire[e]
  BY SendTypeOK DEF Inv
<1>2. ASSUME NEW e \in Dir
      PROVE  SenderOK(e)' /\ EndOK(e)' /\ MaxEndOK(e)' /\ MaxWinOK(e)' /\ OrderOK(e)'
  <2>1. EndOK(e) /\ MaxEndOK(e) /\ MaxWinOK(e) /\ Counter(e) \in Dir
    BY CounterDir DEF Inv
  <2>2. EndOK(e)' /\ MaxEndOK(e)' /\ MaxWinOK(e)'
    BY <1>1, <2>1, TrackFrame
  <2>3. SenderOK(e)'
    BY SendSenderOK
  <2>4. CASE Reorder
    <3>1. Reorder'
      BY <2>4, SettingFrame
    <3>2. QED
      BY <2>2, <2>3, <3>1 DEF OrderOK
  <2>5. CASE ~ Reorder /\ e = d
    BY <2>2, <2>3, <2>5, SendOrderOK
  <2>6. CASE e # d
    <3> DEFINE zero == 0
    <3>1. /\ zero \in Nat /\ Len(wire'[e]) \in Nat
          /\ \A j \in 1 .. Len(wire'[e]) : j + zero \in 1 .. Len(wire[e]) /\ wire'[e][j] = wire[e][j + zero]
      <4>1. Len(wire[e]) \in Nat /\ wire'[e] = wire[e]
        BY <1>1, <2>6, Typed
      <4>2. QED
        BY <4>1
    <3> HIDE DEF zero
    <3>2. /\ tcp[Counter(e)].max_win <= tcp'[Counter(e)].max_win /\ tcp'[Counter(e)].max_win \in Nat
          /\ seen_end'[e] = seen_end[e] /\ snd_una'[Counter(e)] = snd_una[Counter(e)]
      BY <1>1, <2>1, Typed
    <3>3. OrderOK(e)'
      BY <3>1, <3>2, OrderFrame
    <3>4. QED
      BY <2>2, <2>3, <3>3
  <2>7. QED
    BY <2>4, <2>5, <2>6
<1>3. \A e \in Dir : \A j \in 1 .. Len(wire'[e]) : SegmentOK(e, wire[e][j])'
  BY SendSegmentOK
<1>4. Benign(setting)'
  BY SettingFrame DEF Inv
<1>5. QED
  BY <1>1, <1>2, <1>3, <1>4 DEF Inv

-----------------------------------------------------------------------------
(***************************************************************************)
(* What the engine reads from a segment.                                   *)
(***************************************************************************)
LEMMA ReadSegment ==
    ASSUME Inv, NEW d \in Dir, NEW i \in 1 .. Len(wire[d])
    PROVE  LET p == wire[d][i]
               peer == Counter(d)
           IN  /\ SeqEnd(p) = u32(EndOf(p))
               /\ Scaled(d, p.win) \in Nat
               /\ \E n \in Int, w \in Nat :
                     /\ Sack(p) = u32(n) /\ ScaledWindow(d, p) = w
                     /\ p.sent.ack <= n /\ n <= seen_end[peer] /\ Isn[peer] <= n
                     /\ w = Scaled(d, p.win) + (n - p.sent.ack)
                     /\ w + MaxBytes[peer] + 1 < Half /\ w + MaxAckWindow + 1 < Half
                     /\ n + w <= Isn[peer] + Half - 2
<1> DEFINE p == wire[d][i]
           peer == Counter(d)
           ack == p.sent.ack
           isn == Isn[peer]
           bytes == MaxBytes[peer]
           seen == seen_end[peer]
           scaled == Scaled(d, p.win)
<1>1. TypeOK /\ SegmentOK(d, p) /\ peer \in Dir /\ setting \in Setting
  BY CounterDir DEF Inv, TypeOK
<1>2. /\ p.len \in Nat /\ p.sent.seq \in Int /\ p.sent.len \in Nat /\ ack \in Int
      /\ isn \in Nat /\ bytes \in Nat /\ seen \in Int
  BY <1>1, SegmentTyped, Typed
<1>3. SeqEnd(p) = u32(EndOf(p))
  <2>1. p.seq = u32(p.sent.seq) /\ p.len = p.sent.len
    BY <1>1 DEF SegmentOK
  <2> DEFINE seq == p.sent.seq
             len == p.sent.len
  <2>2. seq \in Int /\ len \in Int
    BY <1>2
  <2> HIDE DEF seq, len
  <2>3. u32(u32(seq) + len) = u32(seq + len)
    BY <2>2, U32Sum
  <2>4. QED
    BY <2>1, <2>3 DEF SeqEnd, EndOf, seq, len
<1>4. /\ scaled \in Nat /\ 2 * bytes + scaled + 2 < Half
      /\ bytes + scaled + MaxAckWindow + 2 < Half
  <2>1. p.win \in Window
    BY <1>1 DEF SegmentOK
  <2>2. QED
    BY <1>1, <2>1, SettingFacts
<1>5. PICK n \in Int : /\ Sack(p) = u32(n) /\ ack <= n /\ n <= seen
                       /\ Sack(p) - p.ack = n - ack
  BY SackFacts
<1>6. isn <= ack /\ seen <= isn + bytes
  BY <1>1, Ghosts DEF SegmentOK
<1>7. MaxAckWindow \in Nat /\ Half \in Nat /\ Modulus = 2 * Half /\ Modulus \in Nat \ {0}
  BY ModulusAssumption, HalfOfModulus
<1> DEFINE w == scaled + (n - ack)
<1>8. ScaledWindow(d, p) = u32(w)
  BY <1>5 DEF ScaledWindow
<1> HIDE DEF ack, isn, bytes, seen, scaled
<1>9. w \in 0 .. Modulus - 1 /\ w \in Nat
  BY <1>2, <1>4, <1>5, <1>6, <1>7
<1>10. isn <= n /\ w + bytes + 1 < Half /\ w + MaxAckWindow + 1 < Half /\ n + w <= isn + Half - 2
  BY <1>2, <1>4, <1>5, <1>6, <1>7
<1>11. w = scaled + (n - ack)
  OBVIOUS
<1> HIDE DEF w
<1>12. ScaledWindow(d, p) = w
  BY <1>7, <1>8, <1>9, ModSmall DEF u32
<1>13. \E m \in Int, v \in Nat :
          /\ Sack(p) = u32(m) /\ ScaledWindow(d, p) = v
          /\ ack <= m /\ m <= seen /\ isn <= m
          /\ v = scaled + (m - ack)
          /\ v + bytes + 1 < Half /\ v + MaxAckWindow + 1 < Half
          /\ m + v <= isn + Half - 2
  BY <1>5, <1>9, <1>10, <1>11, <1>12
<1>14. QED
  BY <1>3, <1>4, <1>13 DEF ack, isn, bytes, seen, scaled

-----------------------------------------------------------------------------
(***************************************************************************)
(* The engine forwards a segment.                                          *)
(***************************************************************************)
Forwards(d, i) ==
    /\ tcp' = Track(d, wire[d][i])
    /\ seen_end' = [seen_end EXCEPT ![d] = Max({@, EndOf(wire[d][i])})]
    /\ Deliver(d, wire[d][i]) \/ UNCHANGED endpointVars
    /\ wire' = [wire EXCEPT ![d] = RemoveAt(@, i)]
    /\ UNCHANGED <<flushed, td>>

\* The tracked values of both directions after it.
LEMMA ForwardTracks ==
    ASSUME Inv, UNCHANGED setting, NEW d \in Dir, NEW i \in 1 .. Len(wire[d]), Forwards(d, i)
    PROVE  LET peer == Counter(d)
               end == EndOf(wire[d][i])
               p == wire[d][i]
           IN  /\ tcp' \in [Dir -> [max_win : Nat, end : Int, max_end : Int]]
               /\ tcp'[d].end = u32(IF end < seen_end[d] THEN seen_end[d] ELSE end)
               /\ tcp'[d].max_end = tcp[d].max_end
               /\ tcp'[peer].end = tcp[peer].end /\ tcp'[peer].max_win = tcp[peer].max_win
               /\ tcp[d].max_win <= tcp'[d].max_win
               /\ WindowOK(d, tcp'[d].max_win)
               /\ Scaled(d, p.win) <= tcp'[d].max_win
               /\ \E x, m \in Int :
                     /\ tcp[peer].max_end = u32(x) /\ tcp'[peer].max_end = u32(m)
                     /\ snd_edge[peer] <= x /\ x <= m /\ m - x < Half
                     /\ p.sent.ack + Scaled(d, p.win) <= m
                     /\ m <= Isn[peer] + Half - 2
<1> DEFINE p == wire[d][i]
           peer == Counter(d)
           ack == p.sent.ack
           scaled == Scaled(d, p.win)
           isn == Isn[peer]
           edge == snd_edge[peer]
           seen == seen_end[d]
           nxt == snd_nxt[d]
           mine == Isn[d]
           bytes == MaxBytes[d]
           end == EndOf(p)
           a == tcp[d].max_win
<1>1. TypeOK /\ SegmentOK(d, p) /\ peer \in Dir /\ peer # d /\ tcp' = Track(d, p)
  BY CounterDir DEF Inv, Forwards
<1>2. /\ end \in Int /\ ack \in Int /\ p.sent.seq \in Int /\ p.sent.len \in Nat
      /\ isn \in Nat /\ edge \in Int /\ seen \in Int /\ nxt \in Int
      /\ mine \in Nat /\ bytes \in Nat /\ a \in Nat /\ Half \in Nat
  BY <1>1, SegmentTyped, Typed, HalfOfModulus
<1>3. SeqEnd(p) = u32(end) /\ scaled \in Nat
  BY ReadSegment
<1>4. PICK n \in Int, w \in Nat :
         /\ Sack(p) = u32(n) /\ ScaledWindow(d, p) = w
         /\ ack <= n /\ n <= seen_end[peer] /\ isn <= n
         /\ w = scaled + (n - ack)
         /\ w + MaxBytes[peer] + 1 < Half /\ w + MaxAckWindow + 1 < Half
         /\ n + w <= isn + Half - 2
  BY ReadSegment
<1>5. PICK x \in Int : tcp[peer].max_end = u32(x) /\ edge <= x /\ x <= isn + Half - 2
  BY <1>1, Ghosts
<1>6. tcp[d].end = u32(seen) /\ mine <= seen /\ seen <= mine + bytes /\ bytes + 1 < Half
      /\ seen <= nxt /\ isn <= edge
  <2>1. isn <= seen_end[peer] /\ seen_end[peer] <= snd_nxt[peer] /\ snd_nxt[peer] <= edge
        /\ seen_end[peer] \in Int /\ snd_nxt[peer] \in Int
    BY <1>1, Ghosts, Typed
  <2>2. isn <= edge
    BY <1>2, <2>1
  <2>3. QED
    BY <2>2, Ghosts
<1>7. mine - 1 <= end /\ end <= mine + bytes
  <2> DEFINE seq == p.sent.seq
             len == p.sent.len
  <2>1. mine - 1 <= seq /\ end = seq + len /\ end <= nxt /\ nxt <= mine + bytes
    BY <1>1 DEF SegmentOK, EndOf, Inv, SenderOK
  <2>2. mine \in Int /\ seq \in Int /\ len \in Nat /\ end \in Int /\ nxt \in Int /\ bytes \in Int
    BY <1>2
  <2> HIDE DEF mine, bytes, nxt, end, seq, len
  <2>3. QED
    BY <2>1, <2>2
<1>8. Advanced(SeqEnd(p), tcp[d].end) = u32(IF end < seen THEN seen ELSE end)
  <2>1. /\ end \in Int /\ seen \in Int /\ mine \in Int /\ bytes \in Int /\ Half \in Int
        /\ mine <= seen /\ seen <= mine + bytes /\ bytes + 1 < Half
        /\ mine - 1 <= end /\ end <= mine + bytes
    BY <1>2, <1>6, <1>7
  <2> HIDE DEF end, seen, mine, bytes
  <2>2. - Half <= end - seen /\ end - seen < Half
    BY <2>1
  <2>3. Advanced(u32(end), u32(seen)) = IF end < seen THEN u32(seen) ELSE u32(end)
    BY <2>1, <2>2, AdvancedIsLater
  <2>4. QED
    BY <1>3, <1>6, <2>3
<1> DEFINE y == n + w
           m == IF y < x THEN x ELSE y
<1>9. /\ y \in Int /\ m \in Int /\ x <= m /\ m - x < Half /\ m <= isn + Half - 2
      /\ ack + scaled <= m /\ - Half <= y - x /\ y - x < Half
  <2>1. /\ isn \in Int /\ edge \in Int /\ ack \in Int /\ scaled \in Int /\ Half \in Int
        /\ isn <= edge /\ edge <= x /\ x <= isn + Half - 2
        /\ ack <= n /\ isn <= n /\ w = scaled + (n - ack) /\ n + w <= isn + Half - 2
    <3>1. ack <= n /\ isn <= n /\ w = scaled + (n - ack) /\ n + w <= isn + Half - 2
      BY <1>4
    <3>2. isn \in Int /\ edge \in Int /\ ack \in Int /\ scaled \in Int /\ Half \in Int
      BY <1>2, <1>3
    <3> HIDE DEF isn, edge, ack, scaled
    <3>3. QED
      BY <1>5, <1>6, <3>1, <3>2
  <2> HIDE DEF isn, edge, ack, scaled
  <2>2. y \in Int /\ ack + scaled <= y /\ isn <= y /\ y <= isn + Half - 2
    BY <2>1
  <2> HIDE DEF y
  <2>3. m \in Int /\ x <= m /\ y <= m /\ m <= isn + Half - 2
    BY <2>1, <2>2
  <2> HIDE DEF m
  <2>4. QED
    BY <2>1, <2>2, <2>3
<1>10. Advanced(u32(Sack(p) + w), tcp[peer].max_end) = u32(m)
  <2>1. u32(Sack(p) + w) = u32(y)
    BY <1>4, U32Sum
  <2> HIDE DEF y
  <2>2. Advanced(u32(y), u32(x)) = IF y < x THEN u32(x) ELSE u32(y)
    BY <1>9, AdvancedIsLater
  <2>3. QED
    BY <1>5, <2>1, <2>2
<1> HIDE DEF y, m
<1>11. /\ Larger(w, a) \in Nat /\ a <= Larger(w, a) /\ w <= Larger(w, a) /\ Larger(w, a) \in {a, w}
  BY <1>2 DEF Larger
<1> DEFINE D == [tcp[d] EXCEPT !.max_win = Larger(w, a), !.end = Advanced(SeqEnd(p), tcp[d].end)]
           P == [tcp[peer] EXCEPT !.max_end = Advanced(u32(Sack(p) + w), tcp[peer].max_end)]
<1>13. tcp \in [Dir -> [max_win : Nat, end : Int, max_end : Int]]
  BY <1>1 DEF TypeOK
<1>12. tcp'[d] = D /\ tcp'[peer] = P /\ \A e \in Dir : e = d \/ e = peer
  <2>1. tcp'[d] = [tcp[d] EXCEPT !.max_win = Larger(ScaledWindow(d, p), tcp[d].max_win),
                                 !.end = Advanced(SeqEnd(p), tcp[d].end)]
    BY <1>1, <1>13 DEF Track
  <2>2. tcp'[peer] = [tcp[peer] EXCEPT !.max_end = Advanced(u32(Sack(p) + ScaledWindow(d, p)), tcp[peer].max_end)]
    BY <1>1, <1>13 DEF Track
  <2>3. tcp'[d] = D /\ tcp'[peer] = P
    BY <1>4, <2>1, <2>2 DEF D, P
  <2>4. QED
    BY <2>3, CounterDir
<1> DEFINE s == IF end < seen THEN seen ELSE end
<1>14. u32(s) \in Int /\ u32(m) \in Int
  BY <1>2, <1>9, U32Type
<1>15. /\ D.max_win = Larger(w, a) /\ D.end = u32(s) /\ D.max_end = tcp[d].max_end
       /\ D \in [max_win : Nat, end : Int, max_end : Int]
  BY <1>8, <1>11, <1>13, <1>14
<1>16. /\ P.max_win = tcp[peer].max_win /\ P.end = tcp[peer].end /\ P.max_end = u32(m)
       /\ P \in [max_win : Nat, end : Int, max_end : Int]
  BY <1>1, <1>10, <1>13, <1>14
<1> HIDE DEF D, P
<1>17. tcp'[d] = D /\ tcp'[peer] = P /\ tcp' \in [Dir -> [max_win : Nat, end : Int, max_end : Int]]
  <2>1. tcp' = [e \in Dir |-> tcp'[e]]
    BY <1>1, <1>13 DEF Track
  <2>2. \A e \in Dir : tcp'[e] \in [max_win : Nat, end : Int, max_end : Int]
    BY <1>12, <1>15, <1>16
  <2> DEFINE R == [max_win : Nat, end : Int, max_end : Int]
  <2>3. \A e \in Dir : tcp'[e] \in R
    BY <2>2
  <2> HIDE DEF R
  <2>4. tcp' \in [Dir -> R]
    BY <2>1, <2>3
  <2>5. QED
    BY <1>12, <2>4 DEF R
<1>18. WindowOK(d, w) /\ WindowOK(d, a)
  BY <1>4 DEF Inv, MaxWinOK, WindowOK
<1>19. WindowOK(d, Larger(w, a))
  BY <1>11, <1>18
<1>20. scaled <= Larger(w, a)
  <2> HIDE DEF scaled, ack
  <2>1. scaled <= w
    BY <1>2, <1>3, <1>4
  <2>2. QED
    BY <1>3, <1>11, <2>1
<1>21. \E xx, mm \in Int :
          /\ tcp[peer].max_end = u32(xx) /\ tcp'[peer].max_end = u32(mm)
          /\ edge <= xx /\ xx <= mm /\ mm - xx < Half
          /\ ack + scaled <= mm /\ mm <= isn + Half - 2
  BY <1>5, <1>9, <1>16, <1>17
<1>22. QED
  BY <1>11, <1>15, <1>16, <1>17, <1>19, <1>20, <1>21

\* The endpoints after it: the segment arrived or was lost.
LEMMA ForwardEndpoints ==
    ASSUME Inv, NEW d \in Dir, NEW i \in 1 .. Len(wire[d]), Forwards(d, i)
    PROVE  LET peer == Counter(d)
               p == wire[d][i]
               edge == p.sent.ack + Scaled(d, p.win)
               ack == p.sent.ack
           IN  /\ snd_nxt' = snd_nxt
               /\ snd_una'[d] = snd_una[d] /\ snd_edge'[d] = snd_edge[d]
               /\ \/ snd_una'[peer] = snd_una[peer] /\ snd_edge'[peer] = snd_edge[peer]
                  \/ /\ snd_una'[peer] = IF snd_una[peer] < ack THEN ack ELSE snd_una[peer]
                     /\ snd_edge'[peer] = IF snd_edge[peer] < edge THEN edge ELSE snd_edge[peer]
               /\ got'[peer] = got[peer] /\ dup'[peer] = dup[peer]
               /\ got[d] \subseteq got'[d] /\ got'[d] \subseteq got[d] \cup Bytes(p.sent)
               /\ \/ dup'[d] = dup[d]
                  \/ p.sent.len # 0 /\ dup'[d] = {EndOf(p)}
               /\ snd_una' \in [Dir -> Int] /\ snd_edge' \in [Dir -> Int]
               /\ got' \in [Dir -> SUBSET Int] /\ dup' \in [Dir -> SUBSET Int]
<1> DEFINE p == wire[d][i]
           s == p.sent
           peer == Counter(d)
           ack == s.ack
           edge == ack + Scaled(d, p.win)
           una == snd_una[peer]
           old == snd_edge[peer]
<1>1. TypeOK /\ peer \in Dir /\ peer # d
  BY CounterDir DEF Inv
<1>2. /\ snd_una \in [Dir -> Int] /\ snd_edge \in [Dir -> Int]
      /\ got \in [Dir -> SUBSET Int] /\ dup \in [Dir -> SUBSET Int]
  BY <1>1 DEF TypeOK
<1>3. /\ ack \in Int /\ edge \in Int /\ una \in Int /\ old \in Int
      /\ s.seq \in Int /\ s.len \in Nat /\ EndOf(p) \in Int
  <2>1. Scaled(d, p.win) \in Nat /\ ack \in Int
    BY <1>1, ReadSegment, SegmentTyped
  <2>2. edge \in Int
    BY <2>1
  <2>3. QED
    BY <1>1, <2>1, <2>2, SegmentTyped, Typed
<1>4. CASE UNCHANGED endpointVars
  <2>1. UNCHANGED <<snd_nxt, snd_una, snd_edge, got, dup>>
    BY <1>4 DEF endpointVars
  <2>2. QED
    BY <1>2, <2>1
<1>5. CASE Deliver(d, p)
  <2> DEFINE new == {b \in Bytes(s) : b < adv_edge[d]}
  <2>1. /\ got' = [got EXCEPT ![d] = got[d] \cup new]
        /\ dup' = [dup EXCEPT ![d] = IF SackUsed /\ s.len > 0 /\ Bytes(s) \subseteq got[d]
                                     THEN {s.seq + s.len} ELSE dup[d]]
        /\ snd_una' = [snd_una EXCEPT ![peer] = Max({una, ack})]
        /\ snd_edge' = [snd_edge EXCEPT ![peer] = Max({old, edge})]
        /\ snd_nxt' = snd_nxt
    BY <1>5 DEF Deliver
  <2> HIDE DEF s, edge, una, old
  <2>2. Max({una, ack}) = IF una < ack THEN ack ELSE una
    BY <1>3, MaxOfTwo
  <2>3. Max({old, edge}) = IF old < edge THEN edge ELSE old
    BY <1>3, MaxOfTwo
  <2>4. Max({una, ack}) \in Int /\ Max({old, edge}) \in Int
    BY <1>3, <2>2, <2>3
  <2>5. snd_una' \in [Dir -> Int] /\ snd_una'[peer] = Max({una, ack}) /\ snd_una'[d] = snd_una[d]
    BY <1>1, <1>2, <2>1, <2>4
  <2>6. snd_edge' \in [Dir -> Int] /\ snd_edge'[peer] = Max({old, edge}) /\ snd_edge'[d] = snd_edge[d]
    BY <1>1, <1>2, <2>1, <2>4
  <2>7. Bytes(s) \subseteq Int /\ new \subseteq Bytes(s)
    BY <1>3 DEF Bytes
  <2> HIDE DEF new
  <2>8. got' \in [Dir -> SUBSET Int] /\ got'[d] = got[d] \cup new /\ got'[peer] = got[peer]
    <3>1. got[d] \cup new \in SUBSET Int
      BY <1>2, <2>7
    <3>2. QED
      BY <1>1, <1>2, <2>1, <3>1
  <2> DEFINE D == IF SackUsed /\ s.len > 0 /\ Bytes(s) \subseteq got[d] THEN {s.seq + s.len} ELSE dup[d]
  <2>9. EndOf(p) = s.seq + s.len
    BY DEF EndOf, s
  <2>10. D = dup[d] \/ (s.len # 0 /\ D = {EndOf(p)})
    BY <1>3, <2>9
  <2>11. D \in SUBSET Int
    BY <1>2, <1>3, <2>10
  <2> HIDE DEF D
  <2>12. dup' = [dup EXCEPT ![d] = D]
    BY <2>1 DEF D
  <2>13. dup' \in [Dir -> SUBSET Int] /\ dup'[d] = D /\ dup'[peer] = dup[peer]
    BY <1>1, <1>2, <2>11, <2>12
  <2>14. got[d] \subseteq got'[d] /\ got'[d] \subseteq got[d] \cup Bytes(s)
    BY <2>7, <2>8
  <2>15. QED
    BY <2>1, <2>2, <2>3, <2>5, <2>6, <2>8, <2>10, <2>13, <2>14 DEF s, edge, una, old
<1>6. QED
  BY <1>4, <1>5 DEF Forwards

\* What the engine has seen, and the wire.
LEMMA ForwardSeen ==
    ASSUME Inv, NEW d \in Dir, NEW i \in 1 .. Len(wire[d]), Forwards(d, i)
    PROVE  LET end == EndOf(wire[d][i])
           IN  /\ seen_end'[d] = IF end < seen_end[d] THEN seen_end[d] ELSE end
               /\ seen_end'[Counter(d)] = seen_end[Counter(d)]
               /\ seen_end' \in [Dir -> Int]
               /\ end \in Int /\ seen_end[d] <= seen_end'[d] /\ end <= seen_end'[d]
               /\ seen_end'[d] <= snd_nxt[d]
               /\ wire' \in [Dir -> Seq(SegmentType)]
               /\ wire'[d] = RemoveAt(wire[d], i) /\ wire'[Counter(d)] = wire[Counter(d)]
               /\ UNCHANGED <<flushed, td>>
<1> DEFINE p == wire[d][i]
           end == EndOf(p)
           seen == seen_end[d]
           nxt == snd_nxt[d]
<1>1. TypeOK /\ Counter(d) \in Dir /\ Counter(d) # d /\ SegmentOK(d, p)
  BY CounterDir DEF Inv
<1>2. /\ seen_end \in [Dir -> Int] /\ wire \in [Dir -> Seq(SegmentType)]
      /\ wire[d] \in Seq(SegmentType)
  BY <1>1 DEF TypeOK
<1>3. end \in Int /\ seen \in Int /\ nxt \in Int /\ end <= nxt /\ seen <= nxt
  BY <1>1, SegmentTyped, Typed, Ghosts DEF SegmentOK
<1>4. /\ seen_end' = [seen_end EXCEPT ![d] = Max({seen, end})]
      /\ wire' = [wire EXCEPT ![d] = RemoveAt(wire[d], i)]
      /\ UNCHANGED <<flushed, td>>
  BY DEF Forwards
<1> HIDE DEF end, seen, nxt
<1>5. Max({seen, end}) = IF seen < end THEN end ELSE seen
  BY <1>3, MaxOfTwo
<1> DEFINE m == Max({seen, end})
<1>6. /\ m \in Int /\ seen <= m /\ end <= m /\ m <= nxt
      /\ m = IF end < seen THEN seen ELSE end
  BY <1>3, <1>5
<1> HIDE DEF m
<1>7. seen_end' = [seen_end EXCEPT ![d] = m]
  BY <1>4 DEF m
<1>8. seen_end'[d] = m /\ seen_end'[Counter(d)] = seen_end[Counter(d)] /\ seen_end' \in [Dir -> Int]
  BY <1>1, <1>2, <1>6, <1>7
<1>9. RemoveAt(wire[d], i) \in Seq(SegmentType)
  BY <1>2, RemoveAtElements
<1>10. /\ wire' \in [Dir -> Seq(SegmentType)]
       /\ wire'[d] = RemoveAt(wire[d], i) /\ wire'[Counter(d)] = wire[Counter(d)]
  BY <1>1, <1>2, <1>4, <1>9
<1>11. QED
  BY <1>3, <1>4, <1>6, <1>8, <1>10 DEF end, seen, nxt

\* Forwarding keeps the types.
LEMMA ForwardTypeOK ==
    ASSUME Inv, UNCHANGED setting, NEW d \in Dir, NEW i \in 1 .. Len(wire[d]), Forwards(d, i)
    PROVE  TypeOK'
<1>1. TypeOK
  BY DEF Inv
<1>2. tcp' \in [Dir -> [max_win : Nat, end : Int, max_end : Int]]
  BY ForwardTracks
<1>3. /\ snd_una' \in [Dir -> Int] /\ snd_edge' \in [Dir -> Int] /\ snd_nxt' = snd_nxt
      /\ got' \in [Dir -> SUBSET Int] /\ dup' \in [Dir -> SUBSET Int]
  BY ForwardEndpoints
<1>4. seen_end' \in [Dir -> Int] /\ wire' \in [Dir -> Seq(SegmentType)] /\ UNCHANGED <<flushed, td>>
  BY ForwardSeen
<1>5. QED
  BY <1>1, <1>2, <1>3, <1>4 DEF TypeOK

\* What its receiver then has was seen by the engine, and includes what it had.
LEMMA ForwardReceived ==
    ASSUME Inv, UNCHANGED setting, NEW d \in Dir, NEW i \in 1 .. Len(wire[d]), Forwards(d, i)
    PROVE  /\ Received(d, seen_end[d])' /\ dup'[d] \subseteq Isn[d] .. seen_end'[d]
           /\ rcv_nxt(d)' \in Int /\ rcv_nxt(d) <= rcv_nxt(d)'
           /\ rcv_nxt(Counter(d))' = rcv_nxt(Counter(d))
<1> DEFINE p == wire[d][i]
           isn == Isn[d]
           seen == seen_end[d]
           new == seen_end'[d]
           seq == p.sent.seq
           len == p.sent.len
           end == EndOf(p)
<1>1. TypeOK /\ SenderOK(d) /\ SegmentOK(d, p) /\ Counter(d) \in Dir
  BY CounterDir DEF Inv
<1>2. /\ isn \in Nat /\ seen \in Int /\ seq \in Int /\ len \in Nat /\ end \in Int
      /\ end = seq + len /\ isn <= seen /\ (len # 0 => isn <= seq)
  <2>1. p.len = p.sent.len /\ (p.len # 0 => isn <= seq)
    BY <1>1 DEF SegmentOK
  <2>2. isn <= seen /\ end = seq + len
    BY <1>1 DEF SenderOK, EndOf
  <2>3. QED
    BY <1>1, <2>1, <2>2, SegmentTyped, Typed
<1>3. new \in Int /\ seen <= new /\ end <= new
  BY ForwardSeen
<1>4. /\ got[d] \subseteq got'[d] /\ got'[d] \subseteq got[d] \cup Bytes(p.sent)
      /\ got'[Counter(d)] = got[Counter(d)]
      /\ (dup'[d] = dup[d] \/ (len # 0 /\ dup'[d] = {end}))
  BY ForwardEndpoints
<1>5. got[d] \subseteq isn .. seen - 1 /\ dup[d] \subseteq isn .. seen
  BY <1>1 DEF SenderOK, Received
<1>6. Bytes(p.sent) = seq .. seq + len - 1
  BY DEF Bytes
<1> HIDE DEF p, isn, seen, new, seq, len, end
<1>7. seq .. seq + len - 1 \subseteq isn .. new - 1
  <2> SUFFICES ASSUME NEW b \in seq .. seq + len - 1 PROVE b \in isn .. new - 1
    OBVIOUS
  <2>1. b \in Int /\ len # 0
    BY <1>2
  <2>2. QED
    BY <1>2, <1>3, <2>1
<1>8. isn .. seen - 1 \subseteq isn .. new - 1 /\ isn .. seen \subseteq isn .. new
  BY <1>2, <1>3
<1>9. got'[d] \subseteq isn .. new - 1
  BY <1>4, <1>5, <1>6, <1>7, <1>8
<1>10. dup'[d] \subseteq isn .. new
  <2>1. len # 0 => end \in isn .. new
    BY <1>2, <1>3
  <2>2. QED
    BY <1>4, <1>5, <1>8, <2>1
<1>11. Received(d, seen_end[d])'
  BY <1>9, SettingFrame DEF Received, isn, new
<1>12. isn <= new
  BY <1>2, <1>3
<1>13. rcv_nxt(d)' \in Int /\ rcv_nxt(d) <= rcv_nxt(d)'
  <2>1. got'[d] \subseteq Isn[d] .. new - 1 /\ Isn[d] <= new
    BY <1>9, <1>12 DEF isn
  <2>2. QED
    BY <1>1, <1>3, <1>4, <2>1, RcvGrows
<1>14. rcv_nxt(Counter(d))' = rcv_nxt(Counter(d))
  BY <1>1, <1>4, RcvFrame
<1>15. QED
  BY <1>10, <1>11, <1>13, <1>14 DEF isn, new

\* Forwarding gives a sender no more than its window.
LEMMA ForwardSenderOK ==
    ASSUME Inv, UNCHANGED setting, NEW d \in Dir, NEW i \in 1 .. Len(wire[d]), Forwards(d, i)
    PROVE  SenderOK(d)' /\ SenderOK(Counter(d))'
<1> DEFINE p == wire[d][i]
           peer == Counter(d)
<1>1. TypeOK /\ SenderOK(d) /\ SenderOK(peer) /\ SegmentOK(d, p) /\ peer \in Dir /\ Counter(peer) = d
  BY CounterDir DEF Inv
<1>2. Isn' = Isn /\ MaxBytes' = MaxBytes /\ snd_nxt' = snd_nxt
  BY SettingFrame, ForwardEndpoints
<1>3. SenderOK(d)'
  <2> DEFINE isn == Isn[d]
             una == snd_una[d]
             nxt == snd_nxt[d]
             rcv == rcv_nxt(d)
             now == rcv_nxt(d)'
             seen == seen_end[d]
             new == seen_end'[d]
  <2>1. /\ isn \in Int /\ una \in Int /\ nxt \in Int /\ rcv \in Int /\ now \in Int /\ seen \in Int /\ new \in Int
        /\ una <= rcv /\ rcv <= now /\ isn <= seen /\ seen <= new /\ new <= nxt
    <3>1. isn \in Int /\ una \in Int /\ nxt \in Int /\ seen \in Int
      BY <1>1, Typed
    <3>2. rcv \in Int /\ now \in Int /\ rcv <= now
      BY <1>1, RcvNxtSeen, ForwardReceived
    <3>3. new \in Int /\ seen <= new /\ new <= nxt
      BY ForwardSeen
    <3>4. una <= rcv /\ isn <= seen
      BY <1>1 DEF SenderOK
    <3> HIDE DEF isn, una, nxt, rcv, now, seen, new
    <3>5. QED
      BY <3>1, <3>2, <3>3, <3>4
  <2> HIDE DEF isn, una, nxt, rcv, now, seen, new
  <2>2. una <= now /\ isn <= new
    BY <2>1
  <2>3. snd_una[d] <= rcv_nxt(d)' /\ Isn[d] <= seen_end'[d] /\ seen_end'[d] <= snd_nxt[d]
    BY <2>1, <2>2 DEF una, now, isn, new, nxt
  <2>4. snd_una'[d] = snd_una[d] /\ snd_edge'[d] = snd_edge[d] /\ tcp'[peer].max_win = tcp[peer].max_win
    BY ForwardEndpoints, ForwardTracks
  <2>5. Received(d, seen_end[d])' /\ dup'[d] \subseteq Isn[d] .. seen_end'[d]
    BY ForwardReceived
  <2>6. /\ Isn[d] <= snd_una[d] /\ snd_nxt[d] <= snd_edge[d] /\ snd_nxt[d] <= Isn[d] + MaxBytes[d]
        /\ snd_edge[d] <= snd_una[d] + tcp[peer].max_win
    BY <1>1 DEF SenderOK
  <2>7. QED
    BY <1>2, <2>3, <2>4, <2>5, <2>6 DEF SenderOK
<1>4. SenderOK(peer)'
  <2> DEFINE isn == Isn[peer]
             una == snd_una[peer]
             nxt == snd_nxt[peer]
             edge == snd_edge[peer]
             una2 == snd_una'[peer]
             edge2 == snd_edge'[peer]
             rcv == rcv_nxt(peer)
             ack == p.sent.ack
             scaled == Scaled(d, p.win)
             a == tcp[d].max_win
             b == tcp'[d].max_win
  <2>1. /\ isn \in Int /\ una \in Int /\ nxt \in Int /\ edge \in Int /\ rcv \in Int /\ ack \in Int
        /\ scaled \in Nat /\ a \in Nat /\ b \in Nat
    <3>1. isn \in Int /\ una \in Int /\ nxt \in Int /\ edge \in Int /\ rcv \in Int /\ a \in Nat
      BY <1>1, Typed, RcvNxtSeen
    <3>2. ack \in Int /\ scaled \in Nat
      BY <1>1, SegmentTyped, ReadSegment
    <3>3. b \in Nat
      BY ForwardTracks
    <3>4. QED
      BY <3>1, <3>2, <3>3
  <2>2. a <= b /\ scaled <= b
    BY ForwardTracks
  <2>3. \/ una2 = una /\ edge2 = edge
        \/ /\ una2 = IF una < ack THEN ack ELSE una
           /\ edge2 = IF edge < ack + scaled THEN ack + scaled ELSE edge
    BY ForwardEndpoints
  <2>4. isn <= una /\ una <= rcv /\ nxt <= edge /\ edge <= una + a /\ isn <= ack /\ ack <= rcv
    BY <1>1 DEF SenderOK, SegmentOK
  <2>5. /\ seen_end'[peer] = seen_end[peer] /\ got'[peer] = got[peer] /\ dup'[peer] = dup[peer]
        /\ rcv_nxt(peer)' = rcv_nxt(peer)
    BY ForwardEndpoints, ForwardSeen, ForwardReceived
  <2>6. /\ isn <= seen_end[peer] /\ seen_end[peer] <= nxt /\ nxt <= isn + MaxBytes[peer]
        /\ Received(peer, seen_end[peer]) /\ dup[peer] \subseteq isn .. seen_end[peer]
    BY <1>1 DEF SenderOK
  <2> HIDE DEF isn, una, nxt, edge, una2, edge2, rcv, ack, scaled, a, b
  <2>7. isn <= una2 /\ una2 <= rcv /\ nxt <= edge2 /\ edge2 <= una2 + b
    <3>1. CASE una2 = una /\ edge2 = edge
      BY <2>1, <2>2, <2>4, <3>1
    <3>2. CASE /\ una2 = IF una < ack THEN ack ELSE una
               /\ edge2 = IF edge < ack + scaled THEN ack + scaled ELSE edge
      <4>1. una2 \in Int /\ una <= una2 /\ ack <= una2 /\ una2 <= rcv
        BY <2>1, <2>4, <3>2
      <4>2. edge2 \in Int /\ edge <= edge2 /\ (edge2 = edge \/ edge2 = ack + scaled)
        BY <2>1, <3>2
      <4>3. QED
        BY <2>1, <2>2, <2>4, <4>1, <4>2
    <3>3. QED
      BY <2>3, <3>1, <3>2
  <2>8. Received(peer, seen_end[peer])'
    BY <1>2, <2>5, <2>6 DEF Received
  <2>9. /\ Isn'[peer] <= snd_una'[peer] /\ snd_una'[peer] <= rcv_nxt(peer)'
        /\ snd_nxt'[peer] <= snd_edge'[peer] /\ snd_edge'[peer] <= snd_una'[peer] + tcp'[d].max_win
    BY <1>2, <2>5, <2>7 DEF isn, una2, rcv, nxt, edge2, b
  <2>10. /\ snd_nxt'[peer] <= Isn'[peer] + MaxBytes'[peer]
         /\ Isn'[peer] <= seen_end'[peer] /\ seen_end'[peer] <= snd_nxt'[peer]
         /\ dup'[peer] \subseteq Isn'[peer] .. seen_end'[peer]
    BY <1>2, <2>5, <2>6 DEF isn, nxt
  <2>11. QED
    BY <1>1, <2>8, <2>9, <2>10 DEF SenderOK
<1>5. QED
  BY <1>3, <1>4

\* Forwarding keeps the record in step with the bytes seen.
LEMMA ForwardTrackOK ==
    ASSUME Inv, UNCHANGED setting, NEW d \in Dir, NEW i \in 1 .. Len(wire[d]), Forwards(d, i), NEW e \in Dir
    PROVE  EndOK(e)' /\ MaxEndOK(e)' /\ MaxWinOK(e)'
<1> DEFINE p == wire[d][i]
           peer == Counter(d)
<1>1. TypeOK /\ peer \in Dir /\ peer # d /\ EndOK(e) /\ MaxEndOK(e) /\ MaxWinOK(e) /\ (e = d \/ e = peer)
  BY CounterDir DEF Inv
<1>2. Isn' = Isn /\ MaxBytes' = MaxBytes /\ td' = td
  BY SettingFrame, ForwardSeen
<1>3. CASE e = d
  <2>1. seen_end'[d] = (IF EndOf(p) < seen_end[d] THEN seen_end[d] ELSE EndOf(p))
        /\ seen_end[d] <= seen_end'[d] /\ seen_end'[d] \in Int /\ seen_end[d] \in Int /\ Isn[d] \in Int
    BY <1>1, ForwardSeen, Typed
  <2>2. tcp'[d].end = u32(seen_end'[d])
    BY <2>1, ForwardTracks
  <2>3. \E x \in Isn[d] .. seen_end'[d] : td'[d].end = u32(x)
    <3>1. PICK x \in Isn[d] .. seen_end[d] : td[d].end = u32(x)
      BY <1>1, <1>3 DEF EndOK
    <3> DEFINE isn == Isn[d]
               old == seen_end[d]
               new == seen_end'[d]
    <3>2. x \in isn .. old /\ isn \in Int /\ old \in Int /\ new \in Int /\ old <= new
      BY <2>1, <3>1
    <3> HIDE DEF isn, old, new
    <3>3. x \in isn .. new
      BY <3>2
    <3>4. QED
      BY <1>2, <3>1, <3>3 DEF isn, new
  <2>4. EndOK(d)'
    BY <1>2, <2>2, <2>3 DEF EndOK
  <2>5. snd_edge'[d] = snd_edge[d] /\ tcp'[d].max_end = tcp[d].max_end /\ WindowOK(d, tcp'[d].max_win)
    BY ForwardEndpoints, ForwardTracks
  <2>6. MaxEndOK(d)'
    BY <1>1, <1>2, <1>3, <2>5 DEF MaxEndOK
  <2>7. MaxWinOK(d)'
    BY <1>1, <1>2, <1>3, <2>5 DEF MaxWinOK, WindowOK
  <2>8. QED
    BY <1>3, <2>4, <2>6, <2>7
<1>4. CASE e = peer
  <2>1. /\ seen_end'[peer] = seen_end[peer]
        /\ tcp'[peer].end = tcp[peer].end /\ tcp'[peer].max_win = tcp[peer].max_win
    BY ForwardSeen, ForwardTracks
  <2>2. EndOK(peer)'
    BY <1>1, <1>2, <1>4, <2>1 DEF EndOK
  <2>3. MaxWinOK(peer)'
    BY <1>1, <1>2, <1>4, <2>1 DEF MaxWinOK, WindowOK
  <2> DEFINE isn == Isn[peer]
             edge == snd_edge[peer]
             new == snd_edge'[peer]
             y == p.sent.ack + Scaled(d, p.win)
  <2>4. PICK x \in Int, m \in Int :
           /\ tcp[peer].max_end = u32(x) /\ tcp'[peer].max_end = u32(m)
           /\ edge <= x /\ x <= m /\ m - x < Half
           /\ y <= m /\ m <= isn + Half - 2
    BY ForwardTracks
  <2>5. isn \in Int /\ edge \in Int /\ y \in Int /\ Half \in Int
    <3>1. Scaled(d, p.win) \in Nat /\ p.sent.ack \in Int
      BY <1>1, ReadSegment, SegmentTyped
    <3>2. QED
      BY <1>1, <3>1, Typed, HalfOfModulus
  <2>6. new = edge \/ new = IF edge < y THEN y ELSE edge
    BY ForwardEndpoints
  <2> HIDE DEF isn, edge, new, y
  <2>7. m \in new .. isn + Half - 2
    BY <2>4, <2>5, <2>6
  <2>8. \E z \in isn .. isn + Half - 2 : td[peer].maxend = u32(z)
    BY <1>1, <1>4 DEF MaxEndOK, isn
  <2>9. MaxEndOK(peer)'
    BY <1>2, <2>4, <2>7, <2>8 DEF MaxEndOK, isn, new
  <2>10. QED
    BY <1>4, <2>2, <2>3, <2>9
<1>5. QED
  BY <1>1, <1>3, <1>4

\* Segments still on the way stay within bounds.
LEMMA ForwardSegmentOK ==
    ASSUME Inv, UNCHANGED setting, NEW d \in Dir, NEW i \in 1 .. Len(wire[d]), Forwards(d, i),
           NEW e \in Dir, NEW j \in 1 .. Len(wire'[e])
    PROVE  SegmentOK(e, wire[e][j])'
<1> DEFINE peer == Counter(e)
<1>1. TypeOK /\ peer \in Dir /\ SenderOK(peer) /\ (e = d \/ e = Counter(d)) /\ (peer = d \/ peer = Counter(d))
  BY CounterDir DEF Inv
<1>2. snd_nxt'[e] \in Int /\ snd_nxt[e] <= snd_nxt'[e]
  BY <1>1, ForwardEndpoints, Typed
<1>3. rcv_nxt(peer)' \in Int /\ rcv_nxt(peer) <= rcv_nxt(peer)'
  <2>1. rcv_nxt(peer) \in Int
    BY <1>1, RcvNxtSeen
  <2>2. QED
    BY <1>1, <2>1, ForwardReceived
<1>4. seen_end'[peer] \in Int /\ seen_end[peer] <= seen_end'[peer]
  <2>1. seen_end[peer] \in Int
    BY <1>1, Typed
  <2>2. QED
    BY <1>1, <2>1, ForwardSeen
<1>5. \E k \in 1 .. Len(wire[e]) : wire'[e][j] = wire[e][k]
  <2>1. CASE e = d
    <3>1. wire[d] \in Seq(SegmentType) /\ Len(wire[d]) \in Nat /\ wire'[d] = RemoveAt(wire[d], i)
      BY <1>1, Typed, ForwardSeen
    <3>2. /\ Len(wire'[d]) = Len(wire[d]) - 1
          /\ \A k \in 1 .. Len(wire[d]) - 1 : wire'[d][k] = IF k < i THEN wire[d][k] ELSE wire[d][k + 1]
      BY <3>1, RemoveAtElements
    <3>3. j \in 1 .. Len(wire[d]) - 1
      BY <2>1, <3>2
    <3>4. j \in 1 .. Len(wire[d]) /\ j + 1 \in 1 .. Len(wire[d])
      BY <3>1, <3>3
    <3> DEFINE l == j + 1
    <3>5. l \in 1 .. Len(wire[d]) /\ (wire'[d][j] = wire[d][j] \/ wire'[d][j] = wire[d][l])
      BY <3>2, <3>3, <3>4
    <3> HIDE DEF l
    <3>6. QED
      BY <2>1, <3>4, <3>5
  <2>2. CASE e = Counter(d)
    <3>1. wire'[e] = wire[e]
      BY <2>2, ForwardSeen
    <3>2. QED
      BY <3>1
  <2>3. QED
    BY <1>1, <2>1, <2>2
<1>6. PICK k \in 1 .. Len(wire[e]) : wire'[e][j] = wire[e][k]
  BY <1>5
<1>7. QED
  BY <1>2, <1>3, <1>4, <1>6, SegmentFrame

\* On a path that keeps the order it was the first of them.
LEMMA ForwardOrderOK ==
    ASSUME Inv, UNCHANGED setting, NEW d \in Dir, NEW i \in 1 .. Len(wire[d]), Forwards(d, i),
           i \in Arriving(d)
    PROVE  OrderOK(d)' /\ OrderOK(Counter(d))'
<1> DEFINE peer == Counter(d)
<1>1. TypeOK /\ peer \in Dir /\ peer # d /\ Counter(peer) = d /\ OrderOK(d)
  BY CounterDir DEF Inv
<1>2. OrderOK(peer)'
  <2> DEFINE zero == 0
  <2>1. /\ zero \in Nat /\ Len(wire'[peer]) \in Nat
        /\ \A j \in 1 .. Len(wire'[peer]) : j + zero \in 1 .. Len(wire[peer]) /\ wire'[peer][j] = wire[peer][j + zero]
    <3>1. wire'[peer] = wire[peer] /\ Len(wire[peer]) \in Nat
      BY <1>1, ForwardSeen, Typed
    <3>2. QED
      BY <3>1
  <2> HIDE DEF zero
  <2>2. /\ seen_end'[peer] = seen_end[peer] /\ snd_una'[d] = snd_una[d]
        /\ tcp[d].max_win <= tcp'[d].max_win /\ tcp'[d].max_win \in Nat
    BY ForwardSeen, ForwardEndpoints, ForwardTracks
  <2>3. QED
    BY <1>1, <2>1, <2>2, OrderFrame
<1>3. Reorder' = Reorder
  BY SettingFrame
<1>4. CASE Reorder
  BY <1>2, <1>3, <1>4 DEF OrderOK
<1>5. CASE ~ Reorder
  <2> DEFINE a == tcp[peer].max_win
             end(j) == EndOf(wire[d][j])
             ack(j) == wire[d][j].sent.ack
             n == Len(wire[d])
             m == Len(wire'[d])
             seen == seen_end[d]
             new == seen_end'[d]
             una == snd_una[peer]
             una2 == snd_una'[peer]
             End(j) == EndOf(wire'[d][j])
             Ack(j) == wire'[d][j].sent.ack
  <2>1. i = 1
    BY <1>5 DEF Arriving
  <2>2. /\ \A j \in 1 .. n : end(j) \in Int /\ ack(j) \in Int
        /\ a \in Nat /\ seen \in Int /\ una \in Int /\ n \in Nat /\ wire[d] \in Seq(SegmentType)
    BY <1>1, SegmentTyped, Typed
  <2>3. \A j \in 1 .. n : seen <= end(j) + a + 1 /\ una <= ack(j)
    BY <1>1, <1>5 DEF OrderOK
  <2>4. \A k, j \in 1 .. n : k < j => end(k) <= end(j) + a + 1 /\ ack(k) <= ack(j)
    BY <1>1, <1>5 DEF OrderOK
  <2>5. new = IF end(i) < seen THEN seen ELSE end(i)
    BY ForwardSeen
  <2>6. una2 = una \/ una2 = IF una < ack(i) THEN ack(i) ELSE una
    BY ForwardEndpoints
  <2>7. /\ m = n - 1 /\ n \in Nat \ {0}
        /\ \A j \in 1 .. m : wire'[d][j] = wire[d][j + 1]
    <3>1. wire'[d] = RemoveAt(wire[d], i)
      BY ForwardSeen
    <3>2. /\ m = n - 1
          /\ \A j \in 1 .. n - 1 : wire'[d][j] = IF j < i THEN wire[d][j] ELSE wire[d][j + 1]
      BY <2>2, <3>1, RemoveAtElements
    <3>3. \A j \in 1 .. n - 1 : ~ (j < i)
      BY <2>1
    <3>4. QED
      BY <2>2, <3>2, <3>3
  <2>8. \A j \in 1 .. m : j + 1 \in 1 .. n /\ i < j + 1 /\ i \in 1 .. n
                          /\ End(j) = end(j + 1) /\ Ack(j) = ack(j + 1)
    BY <2>1, <2>2, <2>7
  <2> HIDE DEF a, end, ack, n, m, seen, new, una, una2, End, Ack
  <2>9. ASSUME NEW j \in 1 .. m PROVE new <= End(j) + a + 1 /\ una2 <= Ack(j)
    <3> DEFINE l == j + 1
    <3>1. l \in 1 .. n /\ i < l /\ i \in 1 .. n /\ End(j) = end(l) /\ Ack(j) = ack(l)
      BY <2>8
    <3> HIDE DEF l
    <3>2. /\ seen <= end(l) + a + 1 /\ una <= ack(l)
          /\ end(i) <= end(l) + a + 1 /\ ack(i) <= ack(l)
      BY <2>3, <2>4, <3>1
    <3>3. end(i) \in Int /\ ack(i) \in Int /\ end(l) \in Int /\ ack(l) \in Int
      BY <2>2, <3>1
    <3>4. QED
      BY <2>2, <2>5, <2>6, <3>1, <3>2, <3>3
  <2>10. ASSUME NEW k \in 1 .. m, NEW j \in 1 .. m, k < j
         PROVE  End(k) <= End(j) + a + 1 /\ Ack(k) <= Ack(j)
    <3> DEFINE l == j + 1
               h == k + 1
    <3>1. l \in 1 .. n /\ h \in 1 .. n /\ h < l
      BY <2>8, <2>10
    <3>2. End(j) = end(l) /\ Ack(j) = ack(l) /\ End(k) = end(h) /\ Ack(k) = ack(h)
      BY <2>8
    <3> HIDE DEF l, h
    <3>3. QED
      BY <2>4, <3>1, <3>2
  <2>11. tcp'[peer].max_win = a
    BY ForwardTracks DEF a
  <2>12. \A j \in 1 .. Len(wire'[d]) :
            seen_end'[d] <= EndOf(wire'[d][j]) + tcp'[peer].max_win + 1
            /\ snd_una'[peer] <= wire'[d][j].sent.ack
    BY <2>9, <2>11 DEF new, una2, m, End, Ack
  <2>13. \A k, j \in 1 .. Len(wire'[d]) : k < j =>
            EndOf(wire'[d][k]) <= EndOf(wire'[d][j]) + tcp'[peer].max_win + 1
            /\ wire'[d][k].sent.ack <= wire'[d][j].sent.ack
    BY <2>10, <2>11 DEF m, End, Ack
  <2>14. OrderOK(d)'
    BY <2>12, <2>13 DEF OrderOK, EndOf
  <2>15. QED
    BY <1>2, <2>14
<1>6. QED
  BY <1>4, <1>5

\* Forwarding keeps the invariant.
LEMMA ForwardInv ==
    ASSUME Inv, UNCHANGED setting, NEW d \in Dir, NEW i \in Arriving(d), Forwards(d, i)
    PROVE  Inv'
<1>1. i \in 1 .. Len(wire[d])
  <2>1. wire[d] \in Seq(SegmentType)
    BY Typed DEF Inv
  <2>2. QED
    BY <2>1 DEF Arriving
<1>2. TypeOK'
  BY <1>1, ForwardTypeOK
<1>3. ASSUME NEW e \in Dir
      PROVE  SenderOK(e)' /\ EndOK(e)' /\ MaxEndOK(e)' /\ MaxWinOK(e)' /\ OrderOK(e)'
  <2>1. e = d \/ e = Counter(d)
    BY CounterDir
  <2>2. SenderOK(e)' /\ OrderOK(e)'
    <3>1. SenderOK(d)' /\ SenderOK(Counter(d))'
      BY <1>1, ForwardSenderOK
    <3>2. OrderOK(d)' /\ OrderOK(Counter(d))'
      BY <1>1, ForwardOrderOK
    <3>3. QED
      BY <2>1, <3>1, <3>2
  <2>3. EndOK(e)' /\ MaxEndOK(e)' /\ MaxWinOK(e)'
    BY <1>1, ForwardTrackOK
  <2>4. QED
    BY <2>2, <2>3
<1>4. \A e \in Dir : \A j \in 1 .. Len(wire'[e]) : SegmentOK(e, wire[e][j])'
  BY <1>1, ForwardSegmentOK
<1>5. Benign(setting)'
  BY SettingFrame DEF Inv
<1>6. QED
  BY <1>2, <1>3, <1>4, <1>5 DEF Inv

-----------------------------------------------------------------------------
(***************************************************************************)
(* The four window tests.                                                  *)
(***************************************************************************)
\* On a path that keeps the order, the first segment passes all of them: it is
\* not beyond the right edge (1), at most a window behind what the engine saw
\* (2), acknowledges nothing that the engine did not see (3), and nothing that
\* was acknowledged longer than a window ago (4).
LEMMA FirstIsInWindow ==
    ASSUME Inv, ~ Reorder, NEW d \in Dir, NEW i \in Arriving(d)
    PROVE  ~ ExceedsWindow(d, wire[d][i])
<1> DEFINE p == wire[d][i]
           peer == Counter(d)
           seq == p.sent.seq
           len == p.sent.len
           end == EndOf(p)
           ack == p.sent.ack
           isn == Isn[d]
           seen == seen_end[d]
           bytes == MaxBytes[d]
           isn2 == Isn[peer]
           seen2 == seen_end[peer]
           bytes2 == MaxBytes[peer]
           nxt2 == snd_nxt[peer]
           edge2 == snd_edge[peer]
           una2 == snd_una[peer]
           mine == tcp[d].max_win
           theirs == tcp[peer].max_win
           nxt == snd_nxt[d]
           edge == snd_edge[d]
<1>1. i \in 1 .. Len(wire[d])
  <2>1. wire[d] \in Seq(SegmentType)
    BY Typed DEF Inv
  <2>2. QED
    BY <2>1 DEF Arriving
<1>2. TypeOK /\ peer \in Dir /\ Counter(peer) = d /\ SegmentOK(d, p) /\ OrderOK(d) /\ SenderOK(peer) /\ SenderOK(d)
      /\ MaxWinOK(d) /\ MaxWinOK(peer)
  BY <1>1, CounterDir DEF Inv
<1>3. /\ seq \in Int /\ len \in Nat /\ end \in Int /\ ack \in Int /\ isn \in Nat /\ seen \in Int
      /\ bytes \in Nat /\ isn2 \in Nat /\ seen2 \in Int /\ bytes2 \in Nat /\ nxt2 \in Int
      /\ edge2 \in Int /\ una2 \in Int /\ nxt \in Int /\ edge \in Int
      /\ mine \in Nat /\ theirs \in Nat /\ Half \in Nat /\ MaxAckWindow \in Nat
  BY <1>1, <1>2, SegmentTyped, Typed, HalfOfModulus, ModulusAssumption
<1>4. /\ p.seq = u32(seq) /\ isn - 1 <= seq /\ end = seq + len /\ end <= nxt /\ nxt <= edge /\ nxt <= isn + bytes
  BY <1>2 DEF SegmentOK, SenderOK, EndOf
<1>5. /\ tcp[d].end = u32(seen) /\ isn <= seen /\ seen <= isn + bytes
  BY Ghosts
<1>6. /\ tcp[peer].end = u32(seen2) /\ isn2 <= seen2 /\ seen2 <= isn2 + bytes2
      /\ seen2 <= nxt2 /\ nxt2 <= edge2
  BY <1>2, Ghosts
<1>7. PICK x \in Int : tcp[d].max_end = u32(x) /\ edge <= x /\ x <= isn + Half - 2
  BY Ghosts
<1>8. PICK n \in Int, w \in Nat :
         /\ Sack(p) = u32(n) /\ ScaledWindow(d, p) = w
         /\ ack <= n /\ n <= seen2 /\ isn2 <= n
         /\ w = Scaled(d, p.win) + (n - ack)
         /\ w + bytes2 + 1 < Half /\ w + MaxAckWindow + 1 < Half
         /\ n + w <= isn2 + Half - 2
  BY <1>1, ReadSegment
<1>9. SeqEnd(p) = u32(end)
  BY <1>1, ReadSegment
<1>10. /\ mine + bytes2 + 1 < Half /\ mine + MaxAckWindow + 1 < Half
       /\ theirs + bytes + 1 < Half
  BY <1>2 DEF MaxWinOK, WindowOK
<1>11. edge2 <= una2 + mine
  BY <1>2 DEF SenderOK
<1>12. seen <= end + theirs + 1 /\ una2 <= ack
  BY <1>1, <1>2 DEF OrderOK
<1>13. ack <= n /\ n <= seen2 /\ isn2 <= n
  BY <1>8
<1> HIDE DEF p, seq, len, end, ack, isn, seen, bytes, isn2, seen2, bytes2, nxt2, edge2, una2, mine, theirs, nxt, edge
<1> DEFINE one == 1
           back == - (theirs + 1)
           far == - (mine + MaxAckWindow + 1)
<1>14. one \in Int /\ back \in Int /\ far \in Int
  BY <1>3
<1>15. /\ u32(seq) \in Int /\ u32(x) \in Int /\ u32(end) \in Int /\ u32(seen) \in Int
       /\ u32(n) \in Int /\ u32(seen2) \in Int
  BY <1>3, U32Type
<1>16. s32(p.seq - (tcp[d].max_end + 1)) <= 0
  <2>1. - Half <= seq - x - one /\ seq - x - one < 0
    BY <1>3, <1>4, <1>7
  <2>2. u32(seq) - (u32(x) + 1) = u32(seq) - u32(x) - one
    BY <1>15
  <2>3. seq - x - one < Half /\ seq - x - one \in Int
    BY <1>3, <1>14, <2>1
  <2> HIDE DEF one
  <2>4. s32(u32(seq) - u32(x) - one) = seq - x - one
    BY <1>3, <1>14, <2>1, <2>3, Serial
  <2>5. s32(p.seq - (tcp[d].max_end + 1)) = seq - x - one
    BY <1>4, <1>7, <2>2, <2>4
  <2>6. QED
    BY <2>1, <2>3, <2>5
<1>17. s32(SeqEnd(p) - (tcp[d].end - theirs - 1)) >= 0
  <2>1. 0 <= end - seen - back /\ end - seen - back < Half
    BY <1>3, <1>4, <1>5, <1>10, <1>12
  <2>2. u32(end) - (u32(seen) - theirs - 1) = u32(end) - u32(seen) - back
    BY <1>3, <1>15
  <2>3. - Half <= end - seen - back /\ end - seen - back \in Int
    BY <1>3, <1>14, <2>1
  <2> HIDE DEF back
  <2>4. s32(u32(end) - u32(seen) - back) = end - seen - back
    BY <1>3, <1>14, <2>1, <2>3, Serial
  <2>5. s32(SeqEnd(p) - (tcp[d].end - theirs - 1)) = end - seen - back
    BY <1>5, <1>9, <2>2, <2>4
  <2>6. QED
    BY <2>1, <2>3, <2>5
<1>18. s32(Sack(p) - (tcp[peer].end + 1)) <= 0
  <2>1. - Half <= n - seen2 - one /\ n - seen2 - one < 0
    BY <1>3, <1>6, <1>10, <1>13
  <2>2. u32(n) - (u32(seen2) + 1) = u32(n) - u32(seen2) - one
    BY <1>15
  <2>3. n - seen2 - one < Half /\ n - seen2 - one \in Int
    BY <1>3, <1>14, <2>1
  <2> HIDE DEF one
  <2>4. s32(u32(n) - u32(seen2) - one) = n - seen2 - one
    BY <1>3, <1>14, <2>1, <2>3, Serial
  <2>5. s32(Sack(p) - (tcp[peer].end + 1)) = n - seen2 - one
    BY <1>6, <1>8, <2>2, <2>4
  <2>6. QED
    BY <2>1, <2>3, <2>5
<1>19. s32(Sack(p) - (tcp[peer].end - mine - MaxAckWindow - 1)) >= 0
  <2>1. 0 <= n - seen2 - far /\ n - seen2 - far < Half
    <3>1. seen2 <= una2 + mine
      BY <1>3, <1>6, <1>11
    <3>2. seen2 <= n + mine
      BY <1>3, <1>12, <1>13, <3>1
    <3>3. QED
      BY <1>3, <1>10, <1>13, <3>2
  <2>2. u32(n) - (u32(seen2) - mine - MaxAckWindow - 1) = u32(n) - u32(seen2) - far
    BY <1>3, <1>15
  <2>3. - Half <= n - seen2 - far /\ n - seen2 - far \in Int
    BY <1>3, <1>14, <2>1
  <2> HIDE DEF far
  <2>4. s32(u32(n) - u32(seen2) - far) = n - seen2 - far
    BY <1>3, <1>14, <2>1, <2>3, Serial
  <2>5. s32(Sack(p) - (tcp[peer].end - mine - MaxAckWindow - 1)) = n - seen2 - far
    BY <1>6, <1>8, <2>2, <2>4
  <2>6. QED
    BY <2>1, <2>3, <2>5
<1> DEFINE q1 == s32(p.seq - (tcp[d].max_end + 1))
           q2 == s32(SeqEnd(p) - (tcp[d].end - theirs - 1))
           q3 == s32(Sack(p) - (tcp[peer].end + 1))
           q4 == s32(Sack(p) - (tcp[peer].end - mine - MaxAckWindow - 1))
<1>20. ExceedsWindow(d, p) <=> q1 > 0 \/ q2 < 0 \/ q3 > 0 \/ q4 < 0
  BY DEF ExceedsWindow, mine, theirs
<1>21. q1 \in Int /\ q2 \in Int /\ q3 \in Int /\ q4 \in Int
  <2>1. /\ p.seq \in Int /\ tcp[d].max_end \in Int /\ SeqEnd(p) \in Int /\ tcp[d].end \in Int
        /\ Sack(p) \in Int /\ tcp[peer].end \in Int
    BY <1>4, <1>5, <1>6, <1>7, <1>8, <1>9, <1>15
  <2>2. QED
    BY <1>3, <2>1, S32Type
<1>22. q1 <= 0 /\ q2 >= 0 /\ q3 <= 0 /\ q4 >= 0
  BY <1>16, <1>17, <1>18, <1>19
<1> HIDE DEF q1, q2, q3, q4
<1>23. ~ ExceedsWindow(d, p)
  BY <1>20, <1>21, <1>22
<1>24. QED
  BY <1>23 DEF p

-----------------------------------------------------------------------------
(***************************************************************************)
(* The theorems.                                                           *)
(***************************************************************************)
\* A forward step is a Forwards at the position of the segment that came.
LEMMA ForwardIsForwards ==
    ASSUME NEW d \in Dir, RecvTcpForward(d)
    PROVE  \E i \in Arriving(d) : Forwards(d, i)
BY DEF RecvTcpForward, Forwards, EndOf

\* A step that changes nothing keeps the invariant.
LEMMA StutterInv ==
    ASSUME Inv, UNCHANGED vars
    PROVE  Inv'
<1>1. UNCHANGED <<setting, tcp, flushed, td, wire, snd_nxt, snd_una, snd_edge, got, dup, seen_end>>
  BY DEF vars, endpointVars
<1>2. TypeOK /\ TypeOK'
  BY <1>1 DEF Inv, TypeOK
<1>3. \A d \in Dir : EndOK(d)' /\ MaxEndOK(d)' /\ MaxWinOK(d)'
  BY <1>1, TrackFrame DEF Inv
<1>4. \A d \in Dir : tcp[d].max_win <= tcp'[d].max_win
  BY <1>1, <1>2, Typed
<1>5. QED
  BY <1>1, <1>2, <1>3, <1>4, QuietInv

\* Every step keeps the invariant.
LEMMA StepInv ==
    ASSUME Inv, [Next]_vars
    PROVE  Inv'
<1>1. CASE UNCHANGED vars
  BY <1>1, StutterInv
<1>2. CASE Next
  <2>1. UNCHANGED setting /\ Step
    BY <1>2 DEF Next
  <2>2. ASSUME NEW d \in Dir, NEW win \in Window, NEW pad \in Padding,
               NEW seq \in {snd_nxt[d], snd_una[d], snd_una[d] - 1}, NEW len \in 0..2,
               Send(d, seq, len, win, pad)
        PROVE  Inv'
    <3>1. len \in Nat
      OBVIOUS
    <3>2. QED
      BY <2>1, <2>2, <3>1, SendInv
  <2>3. ASSUME NEW d \in Dir, Lose(d) PROVE Inv'
    BY <2>1, <2>3, LoseInv
  <2>4. ASSUME NEW d \in Dir, RecvTcpFlush(d) PROVE Inv'
    BY <2>1, <2>4, FlushInv
  <2>5. ASSUME NEW d \in Dir, RecvTcpForward(d) PROVE Inv'
    <3>1. PICK i \in Arriving(d) : Forwards(d, i)
      BY <2>5, ForwardIsForwards
    <3>2. QED
      BY <2>1, <3>1, ForwardInv
  <2>6. CASE SyncRule
    BY <2>1, <2>6, SyncInv
  <2>7. CASE UpdateTcpState
    BY <2>1, <2>7, UpdateInv
  <2>8. QED
    BY <2>1, <2>2, <2>3, <2>4, <2>5, <2>6, <2>7 DEF Step
<1>3. QED
  BY <1>1, <1>2

\* What a step can do to the tracked values and to the connection.
LEMMA StepKinds ==
    ASSUME [Next]_vars
    PROVE  \/ UNCHANGED <<tcp, seen_end, flushed>>
           \/ Next /\ UpdateTcpState /\ UNCHANGED flushed
           \/ \E d \in Dir : Next /\ RecvTcpForward(d) /\ UNCHANGED flushed
           \/ \E d \in Dir : Next /\ RecvTcpFlush(d) /\ UNCHANGED <<tcp, seen_end>>
<1>1. CASE UNCHANGED vars
  BY <1>1 DEF vars
<1>2. CASE Next
  <2>1. ASSUME NEW d \in Dir, NEW win, NEW pad, NEW seq, NEW len, Send(d, seq, len, win, pad)
        PROVE  UNCHANGED <<tcp, seen_end, flushed>>
    BY <2>1 DEF Send
  <2>2. ASSUME NEW d \in Dir, Lose(d) PROVE UNCHANGED <<tcp, seen_end, flushed>>
    BY <2>2 DEF Lose
  <2>3. ASSUME NEW d \in Dir, RecvTcpFlush(d) PROVE UNCHANGED <<tcp, seen_end>>
    BY <2>3 DEF RecvTcpFlush
  <2>4. ASSUME NEW d \in Dir, RecvTcpForward(d) PROVE UNCHANGED flushed
    BY <2>4 DEF RecvTcpForward
  <2>5. SyncRule => UNCHANGED <<tcp, seen_end, flushed>>
    BY DEF SyncRule
  <2>6. UpdateTcpState => UNCHANGED flushed
    BY DEF UpdateTcpState
  <2>7. QED
    BY <1>2, <2>1, <2>2, <2>3, <2>4, <2>5, <2>6 DEF Next, Step
<1>3. QED
  BY <1>1, <1>2

\* The settings looked at: no Ethernet padding, and SACK only away from the wrap.
\* For the others the properties below are false: the comparison of SACK edges
\* is unsigned, and the padding counts as data.
Conforming == \A s \in Setting : Benign(s)

\* The invariant that everything rests on.
THEOREM Invariance == Conforming => (Spec => []Inv)
<1>1. Conforming /\ Init => Inv
  BY InitInv, InitTyped DEF Conforming
<1>2. Inv /\ [Next]_vars => Inv'
  BY StepInv
<1>3. QED
  BY <1>1, <1>2, PTL DEF Spec

\* sfe_ipv4_recv_tcp: end is one past the last byte that the engine saw, also
\* when segments are lost, repeated or overtake each other, and after any
\* exchange of values with conntrack.
THEOREM EndFollowsBytes == Conforming => (Spec => []EndIsNextByte)
<1>1. Inv => EndIsNextByte
  BY DEF Inv, EndOK, EndIsNextByte
<1>2. QED
  BY <1>1, Invariance, PTL

\* sfe_ipv4_recv_tcp: on a path that keeps the order of segments, none of the
\* four window tests ever refuses what a conforming endpoint sends.
THEOREM ConformingIsForwarded == Conforming => (Spec => []ConformingNotFlushed)
<1>1. Init => ConformingNotFlushed
  BY DEF Init, ConformingNotFlushed
<1>2. ASSUME Inv, ConformingNotFlushed, [Next]_vars PROVE ConformingNotFlushed'
  <2>1. UNCHANGED setting
    BY <1>2 DEF Next, vars
  <2>2. Reorder' = Reorder
    BY <2>1, SettingFrame
  <2>3. CASE \E d \in Dir : RecvTcpFlush(d)
    <3>1. PICK d \in Dir : RecvTcpFlush(d)
      BY <2>3
    <3>2. PICK i \in Arriving(d) : ExceedsWindow(d, wire[d][i])
      BY <3>1 DEF RecvTcpFlush
    <3>3. Reorder
      BY <1>2, <3>2, FirstIsInWindow
    <3>4. QED
      BY <2>2, <3>3 DEF ConformingNotFlushed
  <2>4. CASE UNCHANGED flushed
    BY <1>2, <2>2, <2>4 DEF ConformingNotFlushed
  <2>5. (\E d \in Dir : RecvTcpFlush(d)) \/ UNCHANGED flushed
    BY <1>2, StepKinds
  <2>6. QED
    BY <2>3, <2>4, <2>5
<1>3. Inv /\ ConformingNotFlushed /\ [Next]_vars => ConformingNotFlushed'
  BY <1>2
<1>4. QED
  BY <1>1, <1>3, Invariance, PTL DEF Spec

\* No step moves a right edge back, and none moves it by half of the space.
LEMMA StepAdvances ==
    ASSUME Inv, [Next]_vars, NEW e \in Dir
    PROVE  /\ tcp[e].max_win \in Nat /\ tcp'[e].max_win \in Nat /\ tcp[e].max_win <= tcp'[e].max_win
           /\ seen_end[e] \in Int /\ seen_end'[e] \in Int /\ seen_end[e] <= seen_end'[e]
           /\ MaxEndAdvances(e)
<1>1. TypeOK
  BY DEF Inv
<1>2. PICK x \in Int : tcp[e].max_end = u32(x)
  BY Ghosts
<1>3. CASE UNCHANGED <<tcp, seen_end>>
  <2>1. x <= x /\ x - x < Half
    BY HalfOfModulus
  <2>2. MaxEndAdvances(e)
    BY <1>2, <1>3, <2>1 DEF MaxEndAdvances
  <2>3. QED
    BY <1>1, <1>3, <2>2, Typed
<1>4. CASE Next /\ UpdateTcpState
  <2>1. UNCHANGED setting /\ seen_end' = seen_end
    BY <1>4 DEF Next, UpdateTcpState
  <2>2. tcp'[e] \in [max_win : Nat, end : Int, max_end : Int] /\ tcp[e].max_win <= tcp'[e].max_win
        /\ MaxEndAdvances(e)
    BY <1>4, <2>1, UpdateFacts
  <2>3. tcp'[e].max_win \in Nat
    BY <2>2
  <2>4. QED
    BY <1>1, <2>1, <2>2, <2>3, Typed
<1>5. CASE Next /\ \E d \in Dir : RecvTcpForward(d)
  <2>1. PICK d \in Dir : RecvTcpForward(d)
    BY <1>5
  <2>2. PICK i \in Arriving(d) : Forwards(d, i)
    BY <2>1, ForwardIsForwards
  <2>3. UNCHANGED setting /\ (e = d \/ e = Counter(d)) /\ Counter(d) \in Dir
    BY <1>5, CounterDir DEF Next
  <2>4. i \in 1 .. Len(wire[d])
    <3>1. wire[d] \in Seq(SegmentType)
      BY <1>1, Typed
    <3>2. QED
      BY <3>1 DEF Arriving
  <2>5. tcp' \in [Dir -> [max_win : Nat, end : Int, max_end : Int]] /\ seen_end' \in [Dir -> Int]
    BY <2>2, <2>3, <2>4, ForwardTracks, ForwardSeen
  <2>6. /\ tcp[e].max_win \in Nat /\ tcp'[e].max_win \in Nat
        /\ seen_end[e] \in Int /\ seen_end'[e] \in Int
    BY <1>1, <2>5, Typed
  <2>7. CASE e = d
    <3>1. tcp'[d].max_end = tcp[d].max_end /\ tcp[d].max_win <= tcp'[d].max_win
      BY <2>2, <2>3, <2>4, ForwardTracks
    <3>2. seen_end[d] <= seen_end'[d]
      BY <2>2, <2>4, ForwardSeen
    <3>3. x <= x /\ x - x < Half
      BY HalfOfModulus
    <3>4. MaxEndAdvances(e)
      BY <1>2, <2>7, <3>1, <3>3 DEF MaxEndAdvances
    <3>5. QED
      BY <2>6, <2>7, <3>1, <3>2, <3>4
  <2>8. CASE e = Counter(d)
    <3>1. tcp'[e].max_win = tcp[e].max_win /\ seen_end'[e] = seen_end[e]
      BY <2>2, <2>3, <2>4, <2>8, ForwardTracks, ForwardSeen
    <3>2. PICK y \in Int, m \in Int :
             /\ tcp[e].max_end = u32(y) /\ tcp'[e].max_end = u32(m)
             /\ y <= m /\ m - y < Half
      BY <2>2, <2>3, <2>4, <2>8, ForwardTracks
    <3>3. MaxEndAdvances(e)
      BY <3>2 DEF MaxEndAdvances
    <3>4. QED
      BY <2>6, <3>1, <3>3
  <2>9. QED
    BY <2>3, <2>7, <2>8
<1>6. \/ UNCHANGED <<tcp, seen_end>>
      \/ Next /\ UpdateTcpState
      \/ Next /\ \E d \in Dir : RecvTcpForward(d)
  BY StepKinds
<1>7. QED
  BY <1>3, <1>4, <1>5, <1>6

\* sfe_ipv4_recv_tcp, sfe_ipv4_update_protocol_state: neither a late or
\* repeated segment nor an update with an old copy moves the window back.
THEOREM WindowAdvances == Conforming => (Spec => WindowNeverRecedes)
<1>1. ASSUME Inv, Inv', [Next]_vars, NEW d \in Dir
      PROVE  /\ s32(tcp'[d].end - tcp[d].end) >= 0
             /\ s32(tcp'[d].max_end - tcp[d].max_end) >= 0
             /\ tcp'[d].max_win >= tcp[d].max_win
  <2>1. /\ tcp[d].max_win \in Nat /\ tcp'[d].max_win \in Nat /\ tcp[d].max_win <= tcp'[d].max_win
        /\ seen_end[d] \in Int /\ seen_end'[d] \in Int /\ seen_end[d] <= seen_end'[d]
        /\ MaxEndAdvances(d)
    BY <1>1, StepAdvances
  <2> DEFINE old == seen_end[d]
             new == seen_end'[d]
             isn == Isn[d]
             bytes == MaxBytes[d]
  <2>2. tcp[d].end = u32(old) /\ tcp'[d].end = u32(new)
    BY <1>1 DEF Inv, EndOK
  <2>3. isn <= old /\ bytes + 1 < Half /\ isn \in Int /\ bytes \in Int /\ Half \in Nat
    BY <1>1, Ghosts, Typed, HalfOfModulus DEF Inv
  <2>4. new <= isn + bytes
    <3>1. UNCHANGED setting
      BY <1>1 DEF Next, vars
    <3>2. Isn' = Isn /\ MaxBytes' = MaxBytes
      BY <3>1, SettingFrame
    <3>3. SenderOK(d)' /\ TypeOK'
      BY <1>1 DEF Inv
    <3>4. new <= snd_nxt'[d] /\ snd_nxt'[d] <= isn + bytes
      BY <3>2, <3>3 DEF SenderOK
    <3>5. snd_nxt'[d] \in Int
      BY <3>3 DEF TypeOK
    <3> HIDE DEF new, isn, bytes
    <3>6. QED
      BY <2>1, <2>3, <3>4, <3>5 DEF new
  <2>5. old \in Int /\ new \in Int /\ old <= new
    BY <2>1
  <2> HIDE DEF old, new, isn, bytes
  <2>6. - Half <= new - old /\ new - old < Half /\ new - old >= 0
    BY <2>3, <2>4, <2>5
  <2>7. s32(u32(new) - u32(old)) >= 0
    BY <2>5, <2>6, SerialDifference
  <2>8. PICK x \in Int, y \in Int : /\ tcp[d].max_end = u32(x) /\ tcp'[d].max_end = u32(y)
                                    /\ x <= y /\ y - x < Half
    BY <2>1 DEF MaxEndAdvances
  <2>9. - Half <= y - x /\ y - x >= 0
    BY <2>3, <2>8
  <2>10. s32(u32(y) - u32(x)) >= 0
    BY <2>8, <2>9, SerialDifference
  <2>11. tcp'[d].max_win >= tcp[d].max_win
    BY <2>1
  <2>12. QED
    BY <2>2, <2>7, <2>8, <2>10, <2>11
<1> DEFINE A == \A d \in Dir : /\ s32(tcp'[d].end - tcp[d].end) >= 0
                               /\ s32(tcp'[d].max_end - tcp[d].max_end) >= 0
                               /\ tcp'[d].max_win >= tcp[d].max_win
<1>2. Inv /\ Inv' /\ [Next]_vars => A
  BY <1>1
<1>3. Inv /\ Inv' /\ [Next]_vars => [A]_vars
  BY <1>2
<1> HIDE DEF A
<1>4. Conforming => (Spec => [][A]_vars)
  BY <1>3, Invariance, PTL DEF Spec
<1>5. QED
  BY <1>4 DEF A, WindowNeverRecedes
=============================================================================
