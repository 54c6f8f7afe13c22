---------------------------- MODULE Ag71xxProofs ----------------------------
(***************************************************************************)
(* Proofs about Ag71xx for every chip: any size of the rings, any number   *)
(* of descriptors a packet takes, any budget of the poll, any number of    *)
(* link changes.                                                           *)
(***************************************************************************)
EXTENDS Ag71xx, Numbers

-----------------------------------------------------------------------------
(***************************************************************************)
(* The inductive invariant.                                                *)
(***************************************************************************)
\* The slots of the rings, counted from dirty.
TxAt(n) == Slot(tx.dirty, TxSize, n)
RxAt(n) == Slot(rx.dirty, RxSize, n)

ControlOK ==
    /\ rtnl = "free" <=> step = "none"
    /\ rtnl = "stop" => step \in {"napi", "cleanup"} /\ ~up
    /\ link => up
    /\ step = "reset" => HasFastReset
    /\ softirq.at = "poll" => napi.state = "sched"
    /\ softirq.at = "xmit" => softirq.n \in 1 .. DescsPerPacket
    /\ step \in {"cleanup", "alloc", "enable"} => napi.state = "disabled"
    /\ napi.state = "disabled" =>
          ~up \/ step \in {"cleanup", "alloc", "enable"} \/ "alloc_failed" \in trouble
    /\ rtnl = "stop" /\ napi.state = "disabled" => step = "cleanup" \/ "alloc_failed" \in trouble

\* From dma_clear to enable both engines point at the stop descriptor.
EnginesOut ==
    trouble \cap {"linked_in_restart", "alloc_failed"} = {} =>
       /\ ~ring \/ step \in {"napi", "cleanup", "alloc", "enable"} => dma.tx_at = Stop /\ dma.rx_at = Stop
       /\ up /\ step # "alloc" => ring
       /\ step \in {"enable", "adjust", "reset", "start"} => ring

RxOK == RxRingOK /\ Used(rx) <= RxSize

\* The receiver has filled q descriptors that no poll has taken yet.
Received(q) ==
    /\ dma.rx_at = RxAt(Used(rx) + q)
    /\ \A m \in Used(rx) .. Used(rx) + q - 1 : ~rx.empty[RxAt(m)]
    /\ \A m \in Used(rx) + q .. RxSize - 1 : rx.empty[RxAt(m)]
    /\ HasFastReset \/ dma.rx_received >= q

RxReady ==
    /\ \A i \in RxWindow : ~rx.buf[i]
    /\ step = "enable" => rx.curr = 0 /\ rx.dirty = 0 /\ \A i \in RxIndex : rx.empty[i]
    /\ ring /\ dma.rx_at # Stop => \E q \in 0 .. RxSize - Used(rx) : Received(q)
    /\ napi.state = "idle" /\ step # "napi" /\ Used(rx) > 0 => oom_timer

\* The transmitter has sent p descriptors that no poll has cleaned yet.
Sent(p) ==
    /\ dma.tx_at = TxAt(p)
    /\ \A m \in 0 .. p - 1 : tx.empty[TxAt(m)]
    /\ \A m \in p .. Used(tx) - 1 : ~tx.empty[TxAt(m)]
    /\ dma.tx_sent >= p

\* In a ring for two packets the queue runs only while it is empty.
SmallRing ==
    TxSize = 2 * DescsPerPacket =>
       /\ queue = "running" => Used(tx) = 0
       /\ \A m \in 0 .. Used(tx) - 1 : tx.skb[TxAt(m)] => m = Used(tx) - 1

TxReady ==
    /\ Used(tx) <= TxSize
    /\ \A i \in TxIndex : tx.skb[i] => i \in TxWindow
    /\ bql = Packets(TxIndex)
    /\ queue = "running" => TxSize - Used(tx) >= DescsPerPacket
    /\ softirq.at = "xmit" => queue = "running" /\ ring /\ rtnl = "free"
    /\ \A m \in Used(tx) .. TxSize - 1 :
          tx.empty[TxAt(m)] \/ (softirq.at = "xmit" /\ m \in Used(tx) + 1 .. Used(tx) + softirq.n - 1)
    /\ softirq.at = "xmit" => \A m \in Used(tx) + 1 .. Used(tx) + softirq.n - 1 : ~tx.empty[TxAt(m)]
    /\ ring /\ dma.tx_at # Stop /\ step # "reset" => \E p \in 0 .. Used(tx) : Sent(p)
    /\ step = "enable" => tx.curr = 0 /\ tx.dirty = 0
    /\ step \in {"enable", "adjust", "reset", "start"} => Used(tx) = 0
    /\ step = "reset" => ~dma.tx_on
    /\ SmallRing

\* The interrupt is on whenever nothing else would look at the rings.
Listening ==
    /\ up /\ step \notin {"napi", "cleanup", "alloc", "enable"} => dma.tx_at # Stop /\ dma.rx_at # Stop
    /\ link /\ up /\ step = "none" /\ napi.state = "idle" /\ softirq.at # "enable" =>
          dma.int_poll \/ oom_timer

Inv ==
    /\ TypeOK
    /\ ControlOK
    /\ EnginesOut
    /\ RxOK
    /\ trouble = {} => RxReady /\ TxReady /\ Listening

-----------------------------------------------------------------------------
(***************************************************************************)
(* The slots of a ring.                                                    *)
(***************************************************************************)
Size(S) == S \in Nat \ {0} /\ Wrap % S = 0 /\ Wrap > S
Counters(r) == r.curr \in 0 .. Wrap - 1 /\ r.dirty \in 0 .. Wrap - 1

\* The free-running counters wrap at a number.
LEMMA WrapFact == Wrap \in Nat
BY SizeAssumption

\* A slot is an index of the ring.
LEMMA SlotIn ==
    ASSUME NEW S \in Nat \ {0}, NEW d \in Int, NEW n \in Int
    PROVE  Slot(d, S, n) \in 0 .. S - 1
<1>1. d + n \in Int
  OBVIOUS
<1>2. QED
  BY <1>1, ModRange DEF Slot

\* Two places less than a turn apart are two slots.
LEMMA SlotInjective ==
    ASSUME NEW S \in Nat \ {0}, NEW d \in Int, NEW n \in Int, NEW m \in Int,
           n - m < S, m - n < S, Slot(d, S, n) = Slot(d, S, m)
    PROVE  n = m
BY ModInjective DEF Slot

\* Slots count on from slots.
LEMMA SlotAfter ==
    ASSUME NEW S \in Nat \ {0}, NEW d \in Int, NEW n \in Int, NEW k \in Int
    PROVE  Slot(Slot(d, S, n), S, k) = Slot(d, S, n + k)
<1>1. Rem(Rem(d + n, S) + k, S) = Rem((d + n) + k, S)
  BY RemSelf, RemMod
<1>2. (d + n) + k = d + (n + k)
  OBVIOUS
<1>3. QED
  BY <1>1, <1>2 DEF Slot, Rem

\* After a turn the slots come again.
LEMMA SlotTurn ==
    ASSUME NEW S \in Nat \ {0}, NEW d \in Int, NEW n \in Int
    PROVE  Slot(d, S, n + S) = Slot(d, S, n)
<1>0. d + n \in Int /\ 1 \in Int
  OBVIOUS
<1>1. ((d + n) + 1 * S) % S = (d + n) % S
  BY <1>0, ModAdd, Zenon
<1>2. (d + n) + 1 * S = d + (n + S)
  OBVIOUS
<1>3. QED
  BY <1>1, <1>2 DEF Slot

\* Every slot is some places ahead.
LEMMA SlotOnto ==
    ASSUME NEW S \in Nat \ {0}, NEW d \in Int, NEW i \in 0 .. S - 1
    PROVE  \E n \in 0 .. S - 1 : i = Slot(d, S, n)
<1>1. S % S = 0 /\ i - d \in Int
  BY ModUnique
<1>2. (((i - d) % S) + d) % S = ((i - d) + d) % S
  BY <1>1, ModMod, Zenon
<1>3. (i - d) + d = i /\ i % S = i
  BY ModSmall
<1> DEFINE n == (i - d) % S
<1>4. n \in 0 .. S - 1
  BY <1>1, ModRange, Zenon
<1> HIDE DEF n
<1>5. n + d = d + n
  BY <1>4
<1>6. (d + n) % S = i
  BY <1>2, <1>3, <1>5 DEF n
<1>7. QED
  BY <1>4, <1>6 DEF Slot

\* The slots seen from a counter that went k places on.
LEMMA SlotMoved ==
    ASSUME NEW S, Size(S), NEW d \in Int, NEW k \in Int, NEW n \in Int
    PROVE  Slot((d + k) % Wrap, S, n) = Slot(d, S, k + n)
<1>1. Wrap \in Nat \ {0} /\ S \in Nat \ {0} /\ Rem(Wrap, S) = 0
  BY WrapFact DEF Size, Rem
<1>2. (d + k) + n = d + (k + n)
  OBVIOUS
<1>3. Rem(Rem(d + k, Wrap) + n, S) = Rem((d + k) + n, S)
  BY <1>1, RemMod
<1>4. QED
  BY <1>2, <1>3 DEF Slot, Rem

\* curr is as many places ahead of dirty as are in use.
LEMMA SlotOfCurr ==
    ASSUME NEW S, Size(S), NEW r, Counters(r), NEW n \in Int
    PROVE  Slot(r.curr, S, n) = Slot(r.dirty, S, Used(r) + n)
<1> DEFINE c == r.curr
           d == r.dirty
           u == Rem(c - d, Wrap)
<1>1. c \in Int /\ d \in Int /\ u = Used(r)
  BY WrapFact DEF Counters, Used, Rem
<1>2. Slot(c, S, n) = Rem(c + n, S) /\ Slot(d, S, u + n) = Rem(d + (u + n), S)
  BY DEF Slot, Rem
<1> HIDE DEF c, d
<1>3. Wrap \in Nat \ {0} /\ S \in Nat \ {0} /\ Rem(Wrap, S) = 0
  BY WrapFact DEF Size, Rem
<1>4. Rem(u + (d + n), S) = Rem((c - d) + (d + n), S)
  BY <1>1, <1>3, RemMod
<1>5. u \in Int
  BY <1>1, <1>3, RemRange
<1>6. (c - d) + (d + n) = c + n
  BY <1>1
<1> HIDE DEF u
<1>7. u + (d + n) = d + (u + n)
  BY <1>1, <1>5
<1>8. QED
  BY <1>1, <1>2, <1>4, <1>6, <1>7 DEF c, d

\* The descriptors in use are fewer than the wrap.
LEMMA UsedIn == ASSUME NEW r, Counters(r), Wrap > 0 PROVE Used(r) \in 0 .. Wrap - 1
<1>1. r.curr - r.dirty \in Int
  BY WrapFact DEF Counters
<1>2. QED
  BY <1>1, WrapFact, ModRange DEF Used

\* curr goes on.
LEMMA UsedMore ==
    ASSUME NEW r, NEW s, Counters(r), NEW n \in Nat, Used(r) + n < Wrap,
           s.curr = (r.curr + n) % Wrap, s.dirty = r.dirty
    PROVE  Counters(s) /\ Used(s) = Used(r) + n
<1> DEFINE c == r.curr
           d == r.dirty
           u == Rem(c - d, Wrap)
           x == Rem(c + n, Wrap)
<1>1. c \in Int /\ d \in 0 .. Wrap - 1 /\ Wrap \in Nat \ {0}
  BY WrapFact DEF Counters
<1>2. u = Used(r) /\ Used(s) = Rem(x - d, Wrap) /\ s.curr = x /\ s.dirty = d
  BY DEF Used, Rem
<1> HIDE DEF c, d
<1>3. Rem(x - d, Wrap) = Rem((c + n) - d, Wrap)
  BY <1>1, RemSelf, RemLess
<1>4. Rem(u + n, Wrap) = Rem((c - d) + n, Wrap)
  BY <1>1, RemSelf, RemMod
<1>5. x \in 0 .. Wrap - 1 /\ u \in 0 .. Wrap - 1
  BY <1>1, RemRange
<1>6. (c + n) - d = (c - d) + n
  BY <1>1
<1> HIDE DEF u, x
<1>7. u + n \in 0 .. Wrap - 1
  BY <1>1, <1>2, <1>5
<1>8. Rem(u + n, Wrap) = u + n
  BY <1>1, <1>7, ModSmall DEF Rem
<1>9. Rem(x - d, Wrap) = u + n
  BY <1>3, <1>4, <1>6, <1>7, <1>8
<1>10. QED
  BY <1>1, <1>2, <1>5, <1>9 DEF Counters

\* dirty follows.
LEMMA UsedLess ==
    ASSUME NEW r, NEW s, Counters(r), NEW n \in 0 .. Used(r),
           s.dirty = (r.dirty + n) % Wrap, s.curr = r.curr
    PROVE  Counters(s) /\ Used(s) = Used(r) - n
<1> DEFINE c == r.curr
           d == r.dirty
           u == Rem(c - d, Wrap)
           x == Rem(d + n, Wrap)
<1>1. c \in 0 .. Wrap - 1 /\ d \in 0 .. Wrap - 1 /\ Wrap \in Nat \ {0}
  BY WrapFact DEF Counters
<1>2. u = Used(r) /\ Used(s) = Rem(c - x, Wrap) /\ s.dirty = x /\ s.curr = c
  BY DEF Used, Rem
<1> HIDE DEF c, d
<1>3. u \in 0 .. Wrap - 1
  BY <1>1, RemRange
<1>4. Rem(c - x, Wrap) = Rem(c - (d + n), Wrap)
  BY <1>1, RemFrom
<1>5. Rem(u - n, Wrap) = Rem((c - d) - n, Wrap)
  BY <1>1, RemSelf, RemLess
<1>6. x \in 0 .. Wrap - 1
  BY <1>1, RemRange
<1>7. c - (d + n) = (c - d) - n
  BY <1>1
<1> HIDE DEF u, x
<1>8. n \in 0 .. u
  BY <1>2
<1>9. u - n \in 0 .. Wrap - 1
  BY <1>1, <1>3, <1>8
<1>10. Rem(u - n, Wrap) = u - n
  BY <1>1, <1>9, ModSmall DEF Rem
<1>11. QED
  BY <1>1, <1>2, <1>4, <1>5, <1>6, <1>7, <1>10 DEF Counters

\* The slots in use are the first ones from dirty on.
LEMMA InWindow ==
    ASSUME NEW S \in Nat \ {0}, NEW d \in Int, NEW u \in 0 .. S, NEW n \in 0 .. S - 1
    PROVE  Slot(d, S, n) \in {Slot(d, S, m) : m \in 0 .. u - 1} <=> n < u
<1>1. ASSUME n < u PROVE Slot(d, S, n) \in {Slot(d, S, m) : m \in 0 .. u - 1}
  BY <1>1
<1>2. ASSUME NEW m \in 0 .. u - 1, Slot(d, S, n) = Slot(d, S, m) PROVE n < u
  <2>1. n = m
    BY <1>2, SlotInjective
  <2>2. QED
    BY <2>1
<1>3. QED
  BY <1>1, <1>2

\* The larger of zero and a number.
LEMMA MaxZero ==
    ASSUME NEW x \in Int
    PROVE  /\ Max({0, x}) \in Nat
           /\ Max({0, x}) = IF x > 0 THEN x ELSE 0
<1>1. \E y \in {0, x} : \A z \in {0, x} : y >= z
  <2>1. CASE x > 0
    BY <2>1
  <2>2. CASE x <= 0
    BY <2>2
  <2>3. QED
    BY <2>1, <2>2
<1>2. Max({0, x}) \in {0, x} /\ \A z \in {0, x} : Max({0, x}) >= z
  BY <1>1 DEF Max
<1>3. QED
  BY <1>2

\* What SizeAssumption says of the chip.
LEMMA Sizes ==
    ASSUME chip \in Chips
    PROVE  /\ Size(TxSize) /\ Size(RxSize)
           /\ TxSize \in Nat \ {0} /\ RxSize \in Nat \ {0} /\ DescsPerPacket \in Nat \ {0}
           /\ TxSize = 2 * DescsPerPacket \/ TxSize >= 4 * DescsPerPacket
BY SizeAssumption DEF Size, TxSize, RxSize, DescsPerPacket

\* What is given of a chip.
LEMMA Kinds ==
    ASSUME chip \in Chips
    PROVE  /\ HasFastReset \in BOOLEAN /\ tx_hang_workaround \in BOOLEAN /\ SendsPackets \in BOOLEAN
           /\ ReceivesPackets \in BOOLEAN /\ MemoryFails \in BOOLEAN /\ MaxLinkChanges \in Nat
BY KindAssumption DEF HasFastReset, tx_hang_workaround, SendsPackets, ReceivesPackets, MemoryFails, MaxLinkChanges

-----------------------------------------------------------------------------
(***************************************************************************)
(* The numbers that the loops of the driver come to.  Each is the least or *)
(* the greatest member of a set of places that is not empty.               *)
(***************************************************************************)
\* The receive loop ends somewhere, and within the ring.
LEMMA ReceivableFact ==
    ASSUME TypeOK, Used(rx) <= RxSize
    PROVE  /\ Receivable \in 0 .. Weight
           /\ \A j \in 0 .. Receivable - 1 : ~rx.empty[Slot(rx.curr, RxSize, j)]
           /\ Used(rx) + Receivable <= RxSize
           /\ Receivable < Weight =>
                 rx.empty[Slot(rx.curr, RxSize, Receivable)] \/ Used(rx) + Receivable = RxSize
<1> DEFINE E(k) == rx.empty[Slot(rx.curr, RxSize, k)]
           u == Used(rx)
           S == RxSize
           T == {k \in 0 .. Weight : k = Weight \/ E(k) \/ u + k = S}
           P(k) == /\ \A j \in 0 .. k - 1 : ~E(j) /\ u + j < S
                   /\ k < Weight => E(k) \/ u + k = S
<1>1. u \in Nat /\ S \in Nat /\ u <= S /\ Weight \in Nat
  <2>1. Counters(rx)
    BY DEF TypeOK, RxRing, Counters
  <2>2. Wrap > 0
    BY WrapFact, Sizes DEF TypeOK, Size
  <2>3. QED
    BY <2>1, <2>2, WrapFact, UsedIn, Sizes, SizeAssumption DEF TypeOK
<1>2. Receivable = CHOOSE k \in 0 .. Weight : P(k)
  BY DEF Receivable
<1> HIDE DEF E, u, S
<1>3. T \subseteq Nat /\ Weight \in T
  BY <1>1
<1>4. PICK k \in T : \A y \in T : k <= y
  BY <1>3, LeastNat
<1>5. k \in 0 .. Weight
  OBVIOUS
<1>6. \A j \in 0 .. k - 1 : j \notin T
  BY <1>1, <1>4, <1>5
<1>7. \A j \in 0 .. k - 1 : ~E(j) /\ u + j # S
  BY <1>1, <1>5, <1>6
<1>8. \A j \in 0 .. k - 1 : u + j < S
  <2> SUFFICES ASSUME NEW j \in 0 .. k - 1, u + j > S PROVE FALSE
    BY <1>1, <1>5, <1>7
  <2>1. S - u \in 0 .. k - 1
    BY <1>1, <1>5
  <2>2. u + (S - u) # S
    BY <1>7, <2>1
  <2>3. QED
    BY <1>1, <2>2
<1>9. P(k)
  BY <1>1, <1>5, <1>7, <1>8
<1>10. Receivable \in 0 .. Weight /\ P(Receivable)
  <2> HIDE DEF P
  <2>1. QED
    BY <1>2, <1>5, <1>9
<1>11. u + Receivable <= S
  <2>1. CASE Receivable = 0
    BY <1>1, <2>1
  <2>2. CASE Receivable > 0
    <3>1. Receivable - 1 \in 0 .. Receivable - 1
      BY <1>1, <1>10, <2>2
    <3>2. u + (Receivable - 1) < S
      BY <1>10, <3>1
    <3>3. QED
      BY <1>1, <1>10, <3>2
  <2>3. QED
    BY <1>1, <1>10, <2>1, <2>2
<1>12. QED
  BY <1>10, <1>11 DEF E, u, S

\* The ring counters are numbers below the wrap.
LEMMA CountersFact ==
    ASSUME TypeOK
    PROVE  /\ Wrap \in Nat \ {0} /\ Counters(tx) /\ Counters(rx)
           /\ Used(tx) \in 0 .. Wrap - 1 /\ Used(rx) \in 0 .. Wrap - 1
           /\ tx.curr \in Nat /\ tx.dirty \in Nat /\ rx.curr \in Nat /\ rx.dirty \in Nat
<1>1. Counters(tx) /\ Counters(rx)
  BY DEF TypeOK, TxRing, RxRing, Counters
<1>2. Wrap \in Nat \ {0}
  BY WrapFact, Sizes DEF TypeOK, Size
<1>3. QED
  BY <1>1, <1>2, UsedIn DEF Counters

\* Descriptors are filled up to the first that is not empty.
LEMMA FillableFact ==
    ASSUME NEW n \in Nat
    PROVE  /\ Fillable(n) \in 0 .. n
           /\ \A j \in 0 .. Fillable(n) - 1 : tx.empty[Slot(tx.curr, TxSize, j)]
           /\ Fillable(n) < n => ~tx.empty[Slot(tx.curr, TxSize, Fillable(n))]
<1> DEFINE E(k) == tx.empty[Slot(tx.curr, TxSize, k)]
           T == {k \in 0 .. n : k = n \/ ~E(k)}
           P(k) == (\A j \in 0 .. k - 1 : E(j)) /\ (k < n => ~E(k))
<1>1. Fillable(n) = CHOOSE k \in 0 .. n : P(k)
  BY DEF Fillable
<1> HIDE DEF E
<1>2. T \subseteq Nat /\ n \in T
  OBVIOUS
<1>3. PICK k \in T : \A y \in T : k <= y
  BY <1>2, LeastNat
<1>4. P(k)
  BY <1>3
<1>5. k \in 0 .. n
  OBVIOUS
<1>6. Fillable(n) \in 0 .. n /\ P(Fillable(n))
  <2> HIDE DEF P
  <2>1. QED
    BY <1>1, <1>4, <1>5
<1>7. QED
  BY <1>6 DEF E

\* The cleaning ends at the last packet that was sent whole.
LEMMA CleanedFact ==
    ASSUME TypeOK
    PROVE  /\ Cleaned \in 0 .. Used(tx)
           /\ \A k \in 0 .. Cleaned - 1 : tx.empty[Slot(tx.dirty, TxSize, k)]
           /\ Cleaned > 0 => tx.skb[Slot(tx.dirty, TxSize, Cleaned - 1)]
           /\ \A n \in SentSlots : tx.skb[Slot(tx.dirty, TxSize, n)] => n < Cleaned
<1> DEFINE K(n) == tx.skb[Slot(tx.dirty, TxSize, n)]
           E(n) == tx.empty[Slot(tx.dirty, TxSize, n)]
           ends == {n \in SentSlots : K(n)}
<1>1. Used(tx) \in Nat
  BY CountersFact
<1>2. Cleaned = IF ends = {} THEN 0 ELSE Max(ends) + 1
  BY DEF Cleaned
<1>3. SentSlots = {n \in 0 .. Used(tx) - 1 : \A k \in 0 .. n : E(k)}
  BY DEF SentSlots
<1> HIDE DEF K, E
<1>4. CASE ends = {}
  BY <1>1, <1>2, <1>4 DEF K
<1>5. CASE ends # {}
  <2>1. ends \subseteq 0 .. Used(tx)
    BY <1>1, <1>3
  <2> DEFINE m == Max(ends)
  <2>2. PICK x \in ends : \A y \in ends : y <= x
    <3> HIDE DEF ends
    <3>1. QED
      BY <1>1, <1>5, <2>1, GreatestNat
  <2>3. \E z \in ends : \A y \in ends : z >= y
    BY <2>1, <2>2
  <2>4. m \in ends /\ \A y \in ends : m >= y
    BY <2>3 DEF Max
  <2> HIDE DEF m
  <2>5. m \in 0 .. Used(tx) - 1 /\ K(m) /\ \A k \in 0 .. m : E(k)
    BY <1>3, <2>4
  <2>6. Cleaned = m + 1 /\ Cleaned - 1 = m
    BY <1>1, <1>2, <1>5, <2>5 DEF m
  <2>7. \A n \in SentSlots : K(n) => n < Cleaned
    <3> SUFFICES ASSUME NEW n \in SentSlots, K(n) PROVE n < m + 1
      BY <2>6
    <3>1. m >= n /\ n \in Int
      BY <1>3, <2>4
    <3>2. QED
      BY <2>5, <3>1
  <2>8. \A k \in 0 .. Cleaned - 1 : E(k)
    BY <2>5, <2>6
  <2>9. QED
    BY <1>1, <2>5, <2>6, <2>7, <2>8 DEF K, E
<1>6. QED
  BY <1>4, <1>5

-----------------------------------------------------------------------------
(***************************************************************************)
(* Types.                                                                  *)
(***************************************************************************)
\* The chip does not change, nor does what is defined from it.
LEMMA SameChip ==
    ASSUME chip' = chip
    PROVE  /\ TxSize' = TxSize /\ RxSize' = RxSize /\ DescsPerPacket' = DescsPerPacket
           /\ TxIndex' = TxIndex /\ RxIndex' = RxIndex
           /\ TxRing' = TxRing /\ RxRing' = RxRing /\ Dma' = Dma /\ Softirq' = Softirq
           /\ HasFastReset' = HasFastReset /\ MaxLinkChanges' = MaxLinkChanges
BY DEF TxSize, RxSize, DescsPerPacket, TxIndex, RxIndex, TxRing, RxRing, Dma, Softirq, HasFastReset, MaxLinkChanges

NapiState == [state : {"disabled", "idle", "sched"}, missed : BOOLEAN]

\* What a step that leaves the rest alone has to show.
LEMMA TypeOfStep ==
    ASSUME TypeOK, chip' = chip, ring' \in BOOLEAN, tx' \in TxRing, rx' \in RxRing, dma' \in Dma,
           hung' \in BOOLEAN, queue' \in {"running", "stopped"}, bql' \in 0 .. TxSize, napi' \in NapiState,
           softirq' \in Softirq, rtnl' \in {"free", "restart", "stop"}, step' \in Place,
           restart_work' \in BOOLEAN, oom_timer' \in BOOLEAN, up' \in BOOLEAN, link' \in BOOLEAN,
           carrier' \in BOOLEAN, active' \in BOOLEAN, link_changes' \in 0 .. MaxLinkChanges,
           trouble' \subseteq Trouble
    PROVE  TypeOK'
BY SameChip DEF TypeOK, NapiState

\* NAPI's two operations keep its type.
LEMMA NapiType ==
    ASSUME NEW n \in NapiState
    PROVE  NapiSchedule(n) \in NapiState /\ NapiComplete(n) \in NapiState
<1>1. NapiComplete(n) \in NapiState
  BY DEF NapiComplete, NapiState
<1>2. [n EXCEPT !.state = "sched"] \in NapiState /\ [n EXCEPT !.missed = TRUE] \in NapiState
  BY DEF NapiState
<1>3. n.state \in {"disabled", "idle", "sched"}
  BY DEF NapiState
<1>4. NapiSchedule(n) \in NapiState
  <2>1. CASE step = "napi"
    <3>1. NapiSchedule(n) = n
      BY <2>1 DEF NapiSchedule
    <3>2. QED
      BY <3>1
  <2>2. CASE step # "napi" /\ n.state = "idle"
    <3>1. NapiSchedule(n) = [n EXCEPT !.state = "sched"]
      BY <2>2 DEF NapiSchedule
    <3>2. QED
      BY <1>2, <3>1
  <2>3. CASE step # "napi" /\ n.state = "sched"
    <3>1. NapiSchedule(n) = [n EXCEPT !.missed = TRUE]
      BY <2>3 DEF NapiSchedule
    <3>2. QED
      BY <1>2, <3>1
  <2>4. CASE step # "napi" /\ n.state = "disabled"
    <3>1. NapiSchedule(n) = n
      BY <2>4 DEF NapiSchedule
    <3>2. QED
      BY <3>1
  <2>5. QED
    BY <1>3, <2>1, <2>2, <2>3, <2>4
<1>5. QED
  BY <1>1, <1>4

\* The pieces of records that the actions put together.
LEMMA DmaType ==
    ASSUME TypeOK
    PROVE  /\ \A d \in Dma : Stopped(d) \in Dma /\ Cleared(d) \in Dma /\ Started(d) \in Dma /\ Reset(d) \in Dma
           /\ \A d \in Dma : [d EXCEPT !.tx_at = 0, !.rx_at = 0] \in Dma
           /\ \A d \in Dma, s \in 0 .. TxSize, r \in 0 .. RxSize : [d EXCEPT !.tx_sent = s, !.rx_received = r] \in Dma
           /\ \A d \in Dma, a \in TxIndex, s \in 0 .. TxSize : [d EXCEPT !.tx_at = a, !.tx_sent = s] \in Dma
           /\ \A d \in Dma, a \in RxIndex, r \in 0 .. RxSize : [d EXCEPT !.rx_at = a, !.rx_received = r] \in Dma
           /\ \A d \in Dma : /\ [d EXCEPT !.tx_on = FALSE] \in Dma /\ [d EXCEPT !.tx_on = TRUE] \in Dma
                             /\ [d EXCEPT !.rx_on = FALSE, !.rx_overflow = TRUE] \in Dma
                             /\ [d EXCEPT !.rx_on = FALSE, !.tx_on = FALSE] \in Dma
                             /\ [d EXCEPT !.int_poll = FALSE] \in Dma /\ [d EXCEPT !.int_poll = TRUE] \in Dma
           /\ \A d \in Dma, b \in BOOLEAN : [d EXCEPT !.rx_on = b, !.rx_overflow = FALSE] \in Dma
<1>1. 0 \in TxIndex /\ 0 \in RxIndex /\ 0 \in 0 .. TxSize /\ 0 \in 0 .. RxSize
  BY Sizes DEF TypeOK, TxIndex, RxIndex
<1>2. \A d \in Dma : Cleared(d) \in Dma
  BY <1>1 DEF Cleared, Dma
<1>3. \A d \in Dma : Stopped(d) \in Dma /\ Started(d) \in Dma
  BY DEF Stopped, Started, Dma
<1>4. \A d \in Dma : d.rx_at \in RxIndex \cup {Stop}
  BY DEF Dma
<1>5. \A d \in Dma, a \in RxIndex \cup {Stop} : [d EXCEPT !.rx_at = a, !.tx_at = 0] \in Dma
  BY <1>1 DEF Dma
<1>6. \A d \in Dma : Reset(d) \in Dma
  BY <1>2, <1>3, <1>4, <1>5 DEF Reset
<1>7. QED
  BY <1>1, <1>2, <1>3, <1>6 DEF Dma

\* A ring just set up has its type.
LEMMA FreshType == ASSUME TypeOK PROVE FreshTx \in TxRing /\ FreshRx \in RxRing
BY CountersFact DEF TypeOK, FreshTx, FreshRx, TxRing, RxRing

\* What TypeOK says, with the names of the sets.
LEMMA TypeNow ==
    ASSUME TypeOK
    PROVE  /\ chip \in Chips /\ ring \in BOOLEAN /\ tx \in TxRing /\ rx \in RxRing /\ dma \in Dma
           /\ hung \in BOOLEAN /\ queue \in {"running", "stopped"} /\ bql \in 0 .. TxSize
           /\ napi \in NapiState /\ softirq \in Softirq /\ rtnl \in {"free", "restart", "stop"}
           /\ step \in Place /\ restart_work \in BOOLEAN /\ oom_timer \in BOOLEAN
           /\ up \in BOOLEAN /\ link \in BOOLEAN /\ carrier \in BOOLEAN /\ active \in BOOLEAN
           /\ link_changes \in 0 .. MaxLinkChanges /\ trouble \subseteq Trouble
           /\ 0 \in 0 .. TxSize /\ 0 \in 0 .. RxSize /\ NoSoftirq \in Softirq
BY Sizes, SizeAssumption DEF TypeOK, NapiState, Softirq, NoSoftirq

\* A transmit ring with one field changed has its type.
LEMMA TxType ==
    ASSUME TypeOK
    PROVE  /\ \A e \in [TxIndex -> BOOLEAN] : [tx EXCEPT !.empty = e] \in TxRing
           /\ \A n \in Int, f \in [TxIndex -> BOOLEAN] : [tx EXCEPT !.dirty = (@ + n) % Wrap, !.skb = f] \in TxRing
           /\ \A n \in Int : [tx EXCEPT !.empty[Slot(tx.curr, TxSize, 0)] = FALSE,
                                        !.skb[Slot(tx.curr, TxSize, n - 1)] = TRUE,
                                        !.curr = (@ + n) % Wrap] \in TxRing
           /\ Flushed \in TxRing /\ [Flushed EXCEPT !.curr = 0, !.dirty = 0] \in TxRing
           /\ [tx EXCEPT !.curr = 0, !.dirty = 0] \in TxRing
           /\ \A i \in Int : [tx EXCEPT !.empty[i] = TRUE] \in TxRing
<1>1. tx \in TxRing /\ Wrap \in Nat \ {0} /\ 0 \in 0 .. Wrap - 1
  BY CountersFact DEF TypeOK
<1>2. \A n \in Int : (tx.dirty + n) % Wrap \in 0 .. Wrap - 1 /\ (tx.curr + n) % Wrap \in 0 .. Wrap - 1
  <2> TAKE n \in Int
  <2>1. tx.dirty + n \in Int /\ tx.curr + n \in Int
    BY CountersFact
  <2>2. QED
    BY <1>1, <2>1, ModRange, Zenon
<1>3. \A e \in [TxIndex -> BOOLEAN] : [tx EXCEPT !.empty = e] \in TxRing
  BY <1>1 DEF TxRing
<1>4. \A n \in Int, f \in [TxIndex -> BOOLEAN] : [tx EXCEPT !.dirty = (@ + n) % Wrap, !.skb = f] \in TxRing
  <2> TAKE n \in Int, f \in [TxIndex -> BOOLEAN]
  <2> DEFINE d == (tx.dirty + n) % Wrap
  <2>1. d \in 0 .. Wrap - 1
    BY <1>2
  <2> HIDE DEF d
  <2>2. [tx EXCEPT !.dirty = d, !.skb = f] \in TxRing
    BY <1>1, <2>1 DEF TxRing
  <2>3. QED
    BY <2>2 DEF d
<1>5. \A n \in Int : [tx EXCEPT !.empty[Slot(tx.curr, TxSize, 0)] = FALSE,
                                !.skb[Slot(tx.curr, TxSize, n - 1)] = TRUE,
                                !.curr = (@ + n) % Wrap] \in TxRing
  <2> TAKE n \in Int
  <2> DEFINE c == (tx.curr + n) % Wrap
             i == Slot(tx.curr, TxSize, 0)
             j == Slot(tx.curr, TxSize, n - 1)
  <2>1. c \in 0 .. Wrap - 1
    BY <1>2
  <2> HIDE DEF c, i, j
  <2>2. [tx EXCEPT !.empty[i] = FALSE, !.skb[j] = TRUE, !.curr = c] \in TxRing
    BY <1>1, <2>1 DEF TxRing
  <2>3. QED
    BY <2>2 DEF c, i, j
<1>6. Flushed \in TxRing
  BY <1>1 DEF TxRing, Flushed
<1>7. \A t \in TxRing : [t EXCEPT !.curr = 0, !.dirty = 0] \in TxRing
  BY <1>1 DEF TxRing
<1>8. \A i \in Int : [tx EXCEPT !.empty[i] = TRUE] \in TxRing
  BY <1>1 DEF TxRing
<1>9. QED
  BY <1>1, <1>3, <1>4, <1>5, <1>6, <1>7, <1>8

-----------------------------------------------------------------------------
(***************************************************************************)
(* What a poll does to the receive ring, place by place.                   *)
(***************************************************************************)
\* k packets were taken and c buffers replaced.
Took(k, c) ==
    /\ rx' \in RxRing
    /\ Used(rx') = Used(rx) + k - c
    /\ rx'.dirty = (rx.dirty + c) % Wrap
    /\ \A n \in RxIndex : rx'.empty[RxAt(n)] <=> rx.empty[RxAt(n)] \/ n < c
    /\ \A n \in RxIndex :
          rx'.buf[RxAt(n)] <=> (rx.buf[RxAt(n)] /\ n \notin Used(rx) .. Used(rx) + k - 1) \/ n < c

\* ag71xx_rx_packets and the refill take some descriptors and give some back.
LEMMA PollRxEffect ==
    ASSUME TypeOK, Used(rx) <= RxSize, NEW k \in Nat, Used(rx) + k <= RxSize, PollRx(k)
    PROVE  \E c \in 0 .. Used(rx) + k : Took(k, c)
<1> DEFINE u == Used(rx)
           S == RxSize
           slots == {Slot(rx.curr, S, n) : n \in 0 .. k - 1}
           after == [rx EXCEPT !.curr = (@ + k) % Wrap,
                               !.buf = [i \in RxIndex |-> @[i] /\ i \notin slots]]
           filled(c) == {Slot(rx.dirty, S, n) : n \in 0 .. c - 1}
<1>1. /\ Size(S) /\ S \in Nat \ {0} /\ Counters(rx) /\ u \in Nat /\ rx.dirty \in Nat /\ rx.curr \in Nat
      /\ Wrap \in Nat \ {0} /\ S < Wrap /\ rx \in RxRing
  BY Sizes, CountersFact DEF TypeOK, Size
<1>2. PICK c \in 0 .. Used(after) : rx' = Refilled(after, c, filled(c))
  <2>1. PICK c \in (IF MemoryFails THEN 0 .. Used(after) ELSE {Used(after)}) : rx' = Refilled(after, c, filled(c))
    BY DEF PollRx
  <2>2. Used(after) \in Nat
    <3>1. after.curr = (rx.curr + k) % Wrap /\ after.dirty = rx.dirty
      BY <1>1 DEF RxRing
    <3>2. Used(after) = u + k
      <4> HIDE DEF after
      <4>1. QED
        BY <1>1, <3>1, UsedMore
    <3>3. QED
      BY <1>1, <3>2
  <2>3. QED
    <3> HIDE DEF after, filled
    <3>1. QED
      BY <2>1, <2>2
<1>3. after.curr = (rx.curr + k) % Wrap /\ after.dirty = rx.dirty /\ after.empty = rx.empty
      /\ after.buf = [i \in RxIndex |-> rx.buf[i] /\ i \notin slots]
  BY <1>1 DEF RxRing
<1>4. after \in RxRing
  <2>1. rx.curr + k \in Int
    BY <1>1
  <2> DEFINE x == (rx.curr + k) % Wrap
  <2>2. x \in 0 .. Wrap - 1
    BY <1>1, <2>1, ModRange, Zenon
  <2> DEFINE f == [i \in RxIndex |-> rx.buf[i] /\ i \notin slots]
  <2>3. f \in [RxIndex -> BOOLEAN]
    BY <1>1 DEF RxRing
  <2>4. after = [rx EXCEPT !.curr = x, !.buf = f]
    OBVIOUS
  <2> HIDE DEF x, f, after
  <2>5. QED
    BY <1>1, <2>2, <2>3, <2>4 DEF RxRing
<1>5. Used(after) = u + k /\ Counters(after)
  <2> HIDE DEF after
  <2>1. QED
    BY <1>1, <1>3, UsedMore
<1> HIDE DEF after
<1>6. /\ rx'.curr = after.curr /\ rx'.dirty = (rx.dirty + c) % Wrap
      /\ rx'.empty = [i \in RxIndex |-> rx.empty[i] \/ i \in filled(c)]
      /\ rx'.buf = [i \in RxIndex |-> after.buf[i] \/ i \in filled(c)]
      /\ rx' \in [curr : {after.curr}, dirty : {(rx.dirty + c) % Wrap}, empty : [RxIndex -> BOOLEAN],
                  buf : [RxIndex -> BOOLEAN]]
  <2> HIDE DEF filled
  <2>1. QED
    BY <1>2, <1>3, <1>4 DEF Refilled, RxRing
<1>7. Counters(rx') /\ Used(rx') = u + k - c
  <2>1. rx'.curr = after.curr /\ rx'.dirty = (after.dirty + c) % Wrap /\ c \in 0 .. Used(after)
    BY <1>2, <1>3, <1>6
  <2>2. Counters(rx') /\ Used(rx') = Used(after) - c
    BY <1>5, <2>1, UsedLess
  <2>3. QED
    BY <1>1, <1>5, <2>1, <2>2
<1>8. rx' \in RxRing
  BY <1>6, <1>7 DEF RxRing, Counters
<1>9. c \in 0 .. S /\ c \in 0 .. u + k
  BY <1>1, <1>2, <1>5
<1>10. ASSUME NEW n \in RxIndex
       PROVE  /\ RxAt(n) \in RxIndex
              /\ RxAt(n) \in filled(c) <=> n < c
              /\ RxAt(n) \in slots <=> n \in u .. u + k - 1
  <2>1. n \in 0 .. S - 1 /\ RxAt(n) \in RxIndex
    <3>1. n \in 0 .. S - 1 /\ n \in Int /\ rx.dirty \in Int
      BY <1>1 DEF RxIndex
    <3>2. Slot(rx.dirty, S, n) \in 0 .. S - 1
      BY <1>1, <3>1, SlotIn
    <3>3. QED
      BY <3>1, <3>2 DEF RxIndex, RxAt
  <2>2. RxAt(n) \in filled(c) <=> n < c
    BY <1>1, <1>9, <2>1, InWindow DEF RxAt
  <2>3. ASSUME n \in u .. u + k - 1 PROVE RxAt(n) \in slots
    <3> DEFINE m == n - u
    <3>1. m \in 0 .. k - 1 /\ u + m = n
      BY <1>1, <2>1, <2>3
    <3>2. Slot(rx.curr, S, m) = RxAt(n)
      BY <1>1, <3>1, SlotOfCurr DEF RxAt
    <3>3. QED
      BY <3>1, <3>2
  <2>4. ASSUME NEW m \in 0 .. k - 1, RxAt(n) = Slot(rx.curr, S, m) PROVE n \in u .. u + k - 1
    <3>1. Slot(rx.curr, S, m) = Slot(rx.dirty, S, u + m)
      BY <1>1, SlotOfCurr
    <3>2. n = u + m
      <4>1. u + m \in 0 .. S - 1
        BY <1>1
      <4>2. QED
        BY <1>1, <2>1, <2>4, <3>1, <4>1, SlotInjective DEF RxAt
    <3>3. QED
      BY <1>1, <3>2
  <2>5. QED
    BY <2>1, <2>2, <2>3, <2>4
<1>11. Took(k, c)
  <2> HIDE DEF filled, slots
  <2>1. QED
    BY <1>3, <1>6, <1>7, <1>8, <1>10 DEF Took
<1>12. QED
  BY <1>9, <1>11

-----------------------------------------------------------------------------
(***************************************************************************)
(* Every step keeps the types.                                             *)
(***************************************************************************)
LEMMA XmitTypes ==
    ASSUME TypeOK, ControlOK, chip' = chip, XmitSend \/ XmitNoRing \/ \E n \in 1 .. DescsPerPacket : XmitFill(n)
    PROVE  TypeOK'
<1>1. ASSUME XmitSend PROVE TypeOK'
  <2>1. softirq.n \in Int
    BY <1>1 DEF TypeOK, Softirq, XmitSend
  <2>2. tx' \in TxRing
    BY <1>1, <2>1, TxType DEF XmitSend
  <2>3. bql' \in 0 .. TxSize
    BY <1>1, TypeNow, Sizes DEF XmitSend
  <2>4. dma' \in Dma
    BY <1>1, TypeNow, DmaType DEF XmitSend
  <2>5. QED
    BY <1>1, <2>2, <2>3, <2>4, TypeNow, TypeOfStep DEF XmitSend, netVars, workVars
<1>2. ASSUME XmitNoRing PROVE TypeOK'
  BY <1>2, TypeNow, TypeOfStep DEF XmitNoRing, netVars, workVars, Trouble
<1>3. ASSUME NEW n \in 1 .. DescsPerPacket, XmitFill(n) PROVE TypeOK'
  <2>1. Filled(Fillable(n)) \in [TxIndex -> BOOLEAN]
    BY TypeNow DEF Filled, TxRing
  <2>2. tx' \in TxRing
    <3> DEFINE e == Filled(Fillable(n))
    <3>1. tx' = [tx EXCEPT !.empty = e]
      BY <1>3 DEF XmitFill
    <3> HIDE DEF e
    <3>2. QED
      BY <2>1, <3>1, TxType DEF e
  <2>3. softirq' \in Softirq
    <3>1. n \in 0 .. DescsPerPacket /\ 0 \in 0 .. Weight
      BY TypeNow, Sizes, SizeAssumption
    <3>2. [at |-> "xmit", n |-> n, done |-> 0] \in Softirq
      BY <3>1 DEF Softirq
    <3>3. QED
      BY <1>3, <3>2, TypeNow DEF XmitFill
  <2>4. trouble' \subseteq Trouble
    BY <1>3, TypeNow DEF XmitFill, Note, Trouble
  <2>5. QED
    BY <1>3, <2>2, <2>3, <2>4, TypeNow, TypeOfStep DEF XmitFill, netVars, workVars
<1>4. QED
  BY <1>1, <1>2, <1>3

\* A poll keeps the types.
LEMMA PollTypes ==
    ASSUME TypeOK, Used(rx) <= RxSize, chip' = chip, Poll
    PROVE  TypeOK'
<1>1. /\ Receivable \in 0 .. Weight /\ Used(rx) + Receivable <= RxSize /\ Receivable \in Nat /\ Cleaned \in Nat
      /\ TxSize \in Nat \ {0} /\ RxSize \in Nat \ {0}
  BY TypeNow, ReceivableFact, CleanedFact, CountersFact, Sizes, SizeAssumption
<1>2. rx' \in RxRing
  BY <1>1, PollRxEffect DEF Poll, Took
<1>3. PICK stuck \in BOOLEAN : PollTx(stuck)
  BY DEF Poll
<1>4. tx' \in TxRing
  <2> DEFINE f == [i \in TxIndex |-> tx.skb[i] /\ i \notin {Slot(tx.dirty, TxSize, k) : k \in 0 .. Cleaned - 1}]
  <2>1. tx' = [tx EXCEPT !.dirty = (@ + Cleaned) % Wrap, !.skb = f]
    BY <1>3 DEF PollTx, AfterClean
  <2>2. f \in [TxIndex -> BOOLEAN]
    BY TypeNow DEF TxRing
  <2> HIDE DEF f
  <2>3. Cleaned \in Int
    BY <1>1
  <2>4. [tx EXCEPT !.dirty = (@ + Cleaned) % Wrap, !.skb = f] \in TxRing
    BY <2>2, <2>3, TxType, Zenon
  <2>5. QED
    BY <2>1, <2>4
<1>5. bql' \in 0 .. TxSize
  <2> DEFINE P == Packets({Slot(tx.dirty, TxSize, k) : k \in 0 .. Cleaned - 1})
  <2>1. bql' = Max({0, bql - P}) /\ bql \in 0 .. TxSize
    BY <1>3, TypeNow DEF PollTx
  <2>2. P \in Nat
    <3> DEFINE all == {Slot(tx.dirty, TxSize, k) : k \in 0 .. Cleaned - 1}
               some == {i \in all : tx.skb[i]}
    <3>1. all \subseteq TxIndex
      <4> SUFFICES ASSUME NEW k \in 0 .. Cleaned - 1 PROVE Slot(tx.dirty, TxSize, k) \in TxIndex
        OBVIOUS
      <4>1. k \in Int /\ tx.dirty \in Int
        BY <1>1, CountersFact
      <4>2. QED
        BY <1>1, <4>1, SlotIn DEF TxIndex
    <3>2. IsFiniteSet(TxIndex)
      BY <1>1, FS_Interval DEF TxIndex
    <3>3. IsFiniteSet(some)
      <4>1. some \subseteq TxIndex
        BY <3>1
      <4> HIDE DEF some
      <4>2. QED
        BY <3>2, <4>1, FS_Subset
    <3>4. P = Cardinality(some)
      BY DEF Packets
    <3> HIDE DEF some, P
    <3>5. QED
      BY <3>3, <3>4, FS_CardinalityType
  <2> HIDE DEF P
  <2>3. bql - P \in Int /\ bql - P <= TxSize
    BY <1>1, <2>1, <2>2
  <2>4. QED
    BY <1>1, <2>1, <2>3, MaxZero
<1>6. dma' \in Dma
  <2> DEFINE s == Max({0, dma.tx_sent - Cleaned})
             r == Max({0, dma.rx_received - Receivable})
  <2>1. dma.tx_sent \in 0 .. TxSize /\ dma.rx_received \in 0 .. RxSize
    BY TypeNow DEF Dma
  <2>2. dma.tx_sent - Cleaned \in Int /\ dma.rx_received - Receivable \in Int
    BY <1>1, <2>1
  <2>3. s \in 0 .. TxSize /\ r \in 0 .. RxSize
    BY <1>1, <2>1, <2>2, MaxZero
  <2>4. dma' = [dma EXCEPT !.tx_sent = s, !.rx_received = r]
    BY DEF Poll
  <2> HIDE DEF s, r
  <2>5. QED
    BY <2>3, <2>4, TypeNow, DmaType
<1>7. softirq' \in Softirq
  <2>1. 0 \in 0 .. DescsPerPacket
    BY TypeNow, Sizes
  <2>2. QED
    BY <1>1, <2>1 DEF Poll, Softirq
<1>8. queue' \in {"running", "stopped"} /\ restart_work' \in BOOLEAN /\ trouble' \subseteq Trouble
  BY <1>3, TypeNow DEF PollTx, Trouble
<1>9. QED
  BY <1>2, <1>4, <1>5, <1>6, <1>7, <1>8, TypeNow, TypeOfStep DEF Poll, netVars

\* The DMA engines and the interrupt keep the types.
LEMMA DmaTypes ==
    ASSUME TypeOK, chip' = chip, DmaTransmit \/ DmaReceive \/ DmaHang \/ Interrupt
    PROVE  TypeOK'
<1>1. /\ TxSize \in Nat \ {0} /\ RxSize \in Nat \ {0}
      /\ \A i \in Int : Slot(i, TxSize, 1) \in TxIndex /\ Slot(i, RxSize, 1) \in RxIndex
      /\ dma.tx_sent \in 0 .. TxSize /\ dma.rx_received \in 0 .. RxSize
      /\ dma.tx_at \in TxIndex \cup {Stop} /\ dma.rx_at \in RxIndex \cup {Stop}
  BY TypeNow, Sizes, SlotIn DEF TxIndex, RxIndex, Dma
<1>2. ASSUME DmaTransmit PROVE TypeOK'
  <2>1. dma.tx_at \in TxIndex /\ dma.tx_at \in Int
    BY <1>1, <1>2 DEF DmaTransmit, TxIndex
  <2>2. CASE tx.empty[dma.tx_at]
    BY <1>2, <2>2, TypeNow, DmaType, TypeOfStep DEF DmaTransmit, netVars, workVars
  <2>3. CASE ~tx.empty[dma.tx_at]
    <3> DEFINE a == Slot(dma.tx_at, TxSize, 1)
               s == IF dma.tx_sent < TxSize THEN dma.tx_sent + 1 ELSE dma.tx_sent
    <3>1. a \in TxIndex /\ s \in 0 .. TxSize
      BY <1>1, <2>1
    <3>2. dma' = [dma EXCEPT !.tx_at = a, !.tx_sent = s] /\ tx' = [tx EXCEPT !.empty[dma.tx_at] = TRUE]
      BY <1>2, <2>3 DEF DmaTransmit
    <3> HIDE DEF a, s
    <3>3. dma' \in Dma /\ tx' \in TxRing
      BY <2>1, <3>1, <3>2, TypeNow, DmaType, TxType
    <3>4. QED
      BY <1>2, <2>3, <3>3, TypeNow, TypeOfStep DEF DmaTransmit, netVars, workVars
  <2>4. QED
    BY <2>2, <2>3
<1>3. ASSUME DmaReceive PROVE TypeOK'
  <2>1. dma.rx_at \in RxIndex /\ dma.rx_at \in Int
    BY <1>1, <1>3 DEF DmaReceive, RxIndex
  <2>2. CASE ~rx.empty[dma.rx_at]
    BY <1>3, <2>2, TypeNow, DmaType, TypeOfStep DEF DmaReceive, netVars, workVars
  <2>3. CASE rx.empty[dma.rx_at]
    <3> DEFINE a == Slot(dma.rx_at, RxSize, 1)
               r == IF dma.rx_received < RxSize THEN dma.rx_received + 1 ELSE dma.rx_received
    <3>1. a \in RxIndex /\ r \in 0 .. RxSize
      BY <1>1, <2>1
    <3>2. dma' = [dma EXCEPT !.rx_at = a, !.rx_received = r] /\ rx' = [rx EXCEPT !.empty[dma.rx_at] = FALSE]
      BY <1>3, <2>3 DEF DmaReceive
    <3> HIDE DEF a, r
    <3>3. dma' \in Dma /\ rx' \in RxRing
      BY <2>1, <3>1, <3>2, TypeNow, DmaType DEF RxRing
    <3>4. QED
      BY <1>3, <2>3, <3>3, TypeNow, TypeOfStep DEF DmaReceive, netVars, workVars
  <2>4. QED
    BY <2>2, <2>3
<1>4. ASSUME DmaHang PROVE TypeOK'
  BY <1>4, TypeNow, TypeOfStep DEF DmaHang, netVars, workVars
<1>5. ASSUME Interrupt PROVE TypeOK'
  <2>1. dma' \in Dma /\ napi' \in NapiState
    BY <1>5, TypeNow, DmaType, NapiType DEF Interrupt
  <2>2. QED
    BY <1>5, <2>1, TypeNow, TypeOfStep DEF Interrupt, netVars, workVars
<1>6. QED
  BY <1>2, <1>3, <1>4, <1>5

\* The rest of the soft interrupt keeps the types.
LEMMA SoftirqTypes ==
    ASSUME TypeOK, chip' = chip, PollOutOfRing \/ PollStep \/ OomTimer \/ TxTimeout
    PROVE  TypeOK'
<1>1. ASSUME PollOutOfRing PROVE TypeOK'
  BY <1>1, TypeNow, TypeOfStep DEF PollOutOfRing, netVars, workVars, Trouble
<1>2. ASSUME PollOom PROVE TypeOK'
  <2>1. napi' \in NapiState
    BY <1>2, TypeNow, NapiType DEF PollOom
  <2>2. QED
    BY <1>2, <2>1, TypeNow, TypeOfStep DEF PollOom, netVars, workVars
<1>3. ASSUME PollStatus PROVE TypeOK'
  <2>1. napi' \in NapiState
    BY <1>3, TypeNow, NapiType DEF PollStatus
  <2>2. dma' \in Dma
    <3> DEFINE b == dma.rx_on \/ dma.rx_overflow
    <3>1. b \in BOOLEAN /\ dma' = [dma EXCEPT !.rx_on = b, !.rx_overflow = FALSE]
      BY <1>3 DEF PollStatus
    <3> HIDE DEF b
    <3>2. QED
      BY <3>1, TypeNow, DmaType
  <2>3. softirq' \in Softirq
    <3>1. [NoSoftirq EXCEPT !.at = "enable"] \in Softirq
      BY TypeNow DEF Softirq
    <3>2. QED
      BY <1>3, <3>1, TypeNow DEF PollStatus
  <2>4. QED
    BY <1>3, <2>1, <2>2, <2>3, TypeNow, TypeOfStep DEF PollStatus, netVars, workVars
<1>4. ASSUME PollEnable PROVE TypeOK'
  <2>1. dma' \in Dma
    BY <1>4, TypeNow, DmaType DEF PollEnable
  <2>2. QED
    BY <1>4, <2>1, TypeNow, TypeOfStep DEF PollEnable, netVars, workVars
<1>5. ASSUME OomTimer PROVE TypeOK'
  <2>1. napi' \in NapiState
    BY <1>5, TypeNow, NapiType DEF OomTimer
  <2>2. QED
    BY <1>5, <2>1, TypeNow, TypeOfStep DEF OomTimer, netVars, workVars
<1>6. ASSUME TxTimeout PROVE TypeOK'
  BY <1>6, TypeNow, TypeOfStep DEF TxTimeout, netVars
<1>7. QED
  BY <1>1, <1>2, <1>3, <1>4, <1>5, <1>6 DEF PollStep

\* Open, stop and the link changes keep the types.
LEMMA ProcessTypes ==
    ASSUME TypeOK, chip' = chip, LinkChange \/ LinkWatch \/ Open \/ StopBegin \/ NapiDisable \/ RingsCleanup
    PROVE  TypeOK'
<1>1. ASSUME LinkChange PROVE TypeOK'
  <2>1. link_changes' \in 0 .. MaxLinkChanges
    BY <1>1, TypeNow, Kinds DEF LinkChange
  <2>2. CASE link
    <3>1. dma' \in Dma
      BY <1>1, <2>2, TypeNow, DmaType DEF LinkChange, LinkDown
    <3>2. QED
      BY <1>1, <2>1, <2>2, <3>1, TypeNow, TypeOfStep DEF LinkChange, LinkDown
  <2>3. CASE ~link
    <3>1. tx' \in TxRing /\ dma' \in Dma /\ bql' \in 0 .. TxSize /\ hung' \in BOOLEAN /\ restart_work' \in BOOLEAN
      <4>1. Reset(dma) \in Dma
        BY TypeNow, DmaType
      <4>2. QED
        BY <1>1, <2>3, <4>1, TypeNow, DmaType, TxType DEF LinkChange, LinkUp
    <3>2. trouble' \subseteq Trouble
      BY <1>1, <2>3, TypeNow DEF LinkChange, LinkUp, Trouble
    <3>3. QED
      BY <1>1, <2>1, <2>3, <3>1, <3>2, TypeNow, TypeOfStep DEF LinkChange, LinkUp
  <2>4. QED
    BY <2>2, <2>3
<1>2. ASSUME LinkWatch PROVE TypeOK'
  BY <1>2, TypeNow, TypeOfStep DEF LinkWatch, workVars
<1>3. ASSUME Open PROVE TypeOK'
  <2>1. dma' \in Dma /\ tx' \in TxRing /\ rx' \in RxRing /\ napi' \in NapiState
    BY <1>3, TypeNow, DmaType, FreshType DEF Open, NapiState
  <2>2. QED
    BY <1>3, <2>1, TypeNow, TypeOfStep DEF Open, workVars
<1>4. ASSUME StopBegin PROVE TypeOK'
  <2>1. dma' \in Dma
    BY <1>4, TypeNow, DmaType DEF StopBegin
  <2>2. QED
    BY <1>4, <2>1, TypeNow, TypeOfStep DEF StopBegin, Place
<1>5. ASSUME NapiDisable PROVE TypeOK'
  BY <1>5, TypeNow, TypeOfStep DEF NapiDisable, NapiState, Place, netVars
<1>6. ASSUME RingsCleanup PROVE TypeOK'
  BY <1>6, TypeNow, TypeOfStep, FreshType DEF RingsCleanup, Place, netVars
<1>7. QED
  BY <1>1, <1>2, <1>3, <1>4, <1>5, <1>6

\* netdev_sent_queue's count after the flush is within the ring.
LEMMA FlushedCount == ASSUME TypeOK PROVE Max({0, bql - Packets(TxWindow)}) \in 0 .. TxSize
<1> DEFINE some == {i \in TxWindow : tx.skb[i]}
           P == Packets(TxWindow)
<1>1. TxSize \in Nat \ {0} /\ bql \in 0 .. TxSize /\ tx.dirty \in Int /\ Used(tx) \in Nat
  BY TypeNow, Sizes, CountersFact
<1>2. TxWindow \subseteq TxIndex
  BY <1>1, SlotIn DEF TxWindow, TxIndex
<1>3. IsFiniteSet(TxIndex) /\ some \subseteq TxIndex
  <2>1. IsFiniteSet(TxIndex)
    BY <1>1, FS_Interval DEF TxIndex
  <2>2. QED
    BY <1>2, <2>1
<1>4. P = Cardinality(some)
  BY DEF Packets
<1> HIDE DEF some, P
<1>5. P \in Nat
  BY <1>3, <1>4, FS_Subset, FS_CardinalityType
<1>6. bql - P \in Int /\ bql - P <= TxSize
  BY <1>1, <1>5
<1>7. QED
  BY <1>1, <1>6, MaxZero DEF P

\* The restart work keeps the types.
LEMMA RestartTypes ==
    ASSUME TypeOK, chip' = chip, RestartBegin \/ Restart
    PROVE  TypeOK'
<1>1. ASSUME RestartBegin PROVE TypeOK'
  BY <1>1, TypeNow, TypeOfStep DEF RestartBegin, netVars, Place
<1>2. ASSUME RestartHwStop PROVE TypeOK'
  <2>1. dma' \in Dma
    BY <1>2, TypeNow, DmaType DEF RestartHwStop
  <2>2. QED
    BY <1>2, <2>1, TypeNow, TypeOfStep DEF RestartHwStop, netVars, Place
<1>3. ASSUME RestartDmaStop PROVE TypeOK'
  <2>1. dma' \in Dma
    BY <1>3, TypeNow, DmaType DEF RestartDmaStop
  <2>2. QED
    BY <1>3, <2>1, TypeNow, TypeOfStep DEF RestartDmaStop, netVars, Place
<1>4. ASSUME RestartDmaClear PROVE TypeOK'
  <2>1. dma' \in Dma
    BY <1>4, TypeNow, DmaType DEF RestartDmaClear
  <2>2. QED
    BY <1>4, <2>1, TypeNow, TypeOfStep DEF RestartDmaClear, netVars, Place
<1>5. ASSUME RestartAlloc PROVE TypeOK'
  BY <1>5, TypeNow, TypeOfStep, FreshType DEF RestartAlloc, netVars, Place
<1>6. ASSUME RestartAllocFails PROVE TypeOK'
  <2>1. rx' \in RxRing
    <3>1. CASE UNCHANGED <<ring, rx>>
      BY <3>1, TypeNow
    <3>2. ASSUME NEW n \in RxIndex,
                 rx' = [FreshRx EXCEPT !.empty = [i \in RxIndex |-> i < n], !.buf = [i \in RxIndex |-> i < n]]
          PROVE  rx' \in RxRing
      <4> DEFINE f == [i \in RxIndex |-> i < n]
      <4>1. f \in [RxIndex -> BOOLEAN] /\ rx' = [FreshRx EXCEPT !.empty = f, !.buf = f]
        BY <3>2
      <4> HIDE DEF f
      <4>2. QED
        BY <4>1, FreshType DEF RxRing
    <3>3. QED
      BY <1>6, <3>1, <3>2 DEF RestartAllocFails
  <2>2. ring' \in BOOLEAN /\ trouble' \subseteq Trouble
    BY <1>6, TypeNow DEF RestartAllocFails, Trouble
  <2>3. QED
    BY <1>6, <2>1, <2>2, TypeNow, TypeOfStep DEF RestartAllocFails, netVars, Place
<1>7. ASSUME RestartEnable PROVE TypeOK'
  <2>1. dma' \in Dma
    BY <1>7, TypeNow, DmaType DEF RestartEnable
  <2>2. QED
    BY <1>7, <2>1, TypeNow, TypeOfStep DEF RestartEnable, netVars, Place, NapiState
<1>8. ASSUME RestartAdjust PROVE TypeOK'
  <2>1. CASE link /\ HasFastReset
    <3>1. dma' \in Dma /\ tx' \in TxRing /\ bql' \in 0 .. TxSize
      BY <1>8, <2>1, TypeNow, DmaType, TxType, FlushedCount DEF RestartAdjust
    <3>2. QED
      BY <1>8, <2>1, <3>1, TypeNow, TypeOfStep DEF RestartAdjust, netVars, Place
  <2>2. CASE ~(link /\ HasFastReset)
    BY <1>8, <2>2, TypeNow, TypeOfStep DEF RestartAdjust, netVars, Place
  <2>3. QED
    BY <2>1, <2>2
<1>9. ASSUME RestartReset PROVE TypeOK'
  <2>1. dma' \in Dma /\ tx' \in TxRing
    BY <1>9, TypeNow, DmaType, TxType DEF RestartReset
  <2>2. QED
    BY <1>9, <2>1, TypeNow, TypeOfStep DEF RestartReset, netVars, Place
<1>10. ASSUME RestartStart PROVE TypeOK'
  <2>1. dma' \in Dma
    BY <1>10, TypeNow, DmaType DEF RestartStart
  <2>2. QED
    BY <1>10, <2>1, TypeNow, TypeOfStep DEF RestartStart, Place
<1>11. QED
  BY <1>1, <1>2, <1>3, <1>4, <1>5, <1>6, <1>7, <1>8, <1>9, <1>10 DEF Restart

\* Every step keeps the types.
LEMMA TypeStep ==
    ASSUME TypeOK, ControlOK, Used(rx) <= RxSize, Next
    PROVE  TypeOK'
<1>1. chip' = chip /\ Step
  BY DEF Next
<1>2. QED
  BY <1>1, XmitTypes, PollTypes, DmaTypes, SoftirqTypes, ProcessTypes, RestartTypes
     DEF Step, Driver, Kernel, PollStep

-----------------------------------------------------------------------------
(***************************************************************************)
(* The control: who runs where, and when napi is disabled.                 *)
(***************************************************************************)
\* Trouble is never forgotten.
LEMMA TroubleStays == ASSUME TypeOK, Next PROVE trouble \subseteq trouble'
<1>1. ASSUME Poll PROVE trouble \subseteq trouble'
  BY <1>1 DEF Poll, PollTx
<1>2. ASSUME NEW n \in 1 .. DescsPerPacket, XmitFill(n) PROVE trouble \subseteq trouble'
  BY <1>2 DEF XmitFill, Note
<1>3. ASSUME LinkChange PROVE trouble \subseteq trouble'
  BY <1>3 DEF LinkChange, LinkUp, LinkDown
<1>4. ASSUME Restart PROVE trouble \subseteq trouble'
  BY <1>4 DEF Restart, RestartHwStop, RestartDmaStop, RestartDmaClear, RestartAlloc, RestartAllocFails,
              RestartEnable, RestartAdjust, RestartReset, RestartStart
<1>5. QED
  BY <1>1, <1>2, <1>3, <1>4
     DEF Next, Step, Driver, Kernel, PollStep, Interrupt, XmitSend, PollOutOfRing, PollOom, PollStatus, PollEnable,
         OomTimer, NapiDisable, RingsCleanup, RestartBegin, XmitNoRing, TxTimeout, LinkWatch, Open, StopBegin,
         DmaTransmit, DmaReceive, DmaHang

\* NapiSchedule does not open what is disabled, nor disable what is open.
LEMMA NapiScheduled ==
    ASSUME NEW n \in NapiState
    PROVE  /\ NapiSchedule(n).state = "disabled" <=> n.state = "disabled"
           /\ n.state = "sched" => NapiSchedule(n).state = "sched"
           /\ NapiSchedule(n).state = "idle" <=> n.state = "idle" /\ step = "napi"
           /\ NapiComplete(n).state \in {"idle", "sched"}
<1>1. n.state \in {"disabled", "idle", "sched"}
  BY DEF NapiState
<1>2. [n EXCEPT !.state = "sched"].state = "sched" /\ [n EXCEPT !.missed = TRUE].state = n.state
  BY DEF NapiState
<1>3. CASE step = "napi" \/ n.state = "disabled"
  <2>1. NapiSchedule(n) = n
    BY <1>3 DEF NapiSchedule
  <2>2. QED
    BY <1>1, <1>3, <2>1 DEF NapiComplete
<1>4. CASE step # "napi" /\ n.state = "idle"
  <2>1. NapiSchedule(n) = [n EXCEPT !.state = "sched"]
    BY <1>4 DEF NapiSchedule
  <2>2. QED
    BY <1>2, <1>4, <2>1 DEF NapiComplete
<1>5. CASE step # "napi" /\ n.state = "sched"
  <2>1. NapiSchedule(n) = [n EXCEPT !.missed = TRUE]
    BY <1>5 DEF NapiSchedule
  <2>2. QED
    BY <1>2, <1>5, <2>1 DEF NapiComplete
<1>6. QED
  BY <1>1, <1>3, <1>4, <1>5

\* The soft interrupt keeps which steps exclude which.
LEMMA ControlSoftirq ==
    ASSUME TypeOK, ControlOK, Next,
           XmitSend \/ XmitNoRing \/ (\E n \in 1 .. DescsPerPacket : XmitFill(n)) \/ Poll \/ PollOutOfRing
           \/ PollStep \/ OomTimer \/ TxTimeout \/ DmaTransmit \/ DmaReceive \/ DmaHang \/ Interrupt
    PROVE  ControlOK'
<1>1. /\ trouble \subseteq trouble' /\ DescsPerPacket' = DescsPerPacket /\ HasFastReset' = HasFastReset
      /\ napi \in NapiState
  BY TroubleStays, SameChip, TypeNow DEF Next
<1>2. ASSUME XmitSend \/ XmitNoRing \/ (\E n \in 1 .. DescsPerPacket : XmitFill(n)) PROVE ControlOK'
  BY <1>1, <1>2 DEF ControlOK, XmitSend, XmitNoRing, XmitFill, SoftirqMayRun, NoSoftirq, netVars, workVars
<1>3. ASSUME Poll \/ PollOutOfRing \/ TxTimeout PROVE ControlOK'
  BY <1>1, <1>3 DEF ControlOK, Poll, PollOutOfRing, TxTimeout, SoftirqMayRun, NoSoftirq, netVars, workVars
<1>4. ASSUME PollStep PROVE ControlOK'
  <2>1. \/ /\ napi'.state \in {"idle", "sched"} /\ (softirq'.at = "poll" => napi'.state = "sched")
           /\ softirq'.at # "xmit" /\ UNCHANGED <<workVars, netVars>>
        \/ PollEnable
    BY <1>1, <1>4, NapiScheduled DEF PollStep, PollOom, PollStatus, NoSoftirq, ControlOK
  <2>2. QED
    BY <1>1, <1>4, <2>1 DEF PollStep, PollOom, PollStatus, PollEnable, ControlOK, NoSoftirq, netVars, workVars
<1>5. ASSUME OomTimer \/ Interrupt PROVE ControlOK'
  BY <1>1, <1>5, NapiScheduled DEF ControlOK, OomTimer, Interrupt, netVars, workVars
<1>6. ASSUME DmaTransmit \/ DmaReceive \/ DmaHang PROVE ControlOK'
  BY <1>1, <1>6 DEF ControlOK, DmaTransmit, DmaReceive, DmaHang, netVars, workVars
<1>7. QED
  BY <1>2, <1>3, <1>4, <1>5, <1>6

\* So do open, stop, link changes and the restart.
LEMMA ControlProcess ==
    ASSUME TypeOK, ControlOK, Next,
           LinkChange \/ LinkWatch \/ Open \/ StopBegin \/ NapiDisable \/ RingsCleanup \/ RestartBegin \/ Restart
    PROVE  ControlOK'
<1>1. /\ trouble \subseteq trouble' /\ DescsPerPacket' = DescsPerPacket /\ HasFastReset' = HasFastReset
      /\ napi \in NapiState
  BY TroubleStays, SameChip, TypeNow DEF Next
<1>2. ASSUME LinkChange \/ LinkWatch \/ Open PROVE ControlOK'
  BY <1>1, <1>2 DEF ControlOK, LinkChange, LinkUp, LinkDown, LinkWatch, Open, ProcessMayRun, NoSoftirq, workVars
<1>3. ASSUME StopBegin PROVE ControlOK'
  BY <1>1, <1>3 DEF ControlOK, StopBegin, ProcessMayRun, NoSoftirq
<1>4. ASSUME NapiDisable PROVE ControlOK'
  BY <1>1, <1>4 DEF ControlOK, NapiDisable, NoSoftirq, netVars
<1>5. ASSUME RingsCleanup PROVE ControlOK'
  BY <1>1, <1>5, TypeNow DEF ControlOK, RingsCleanup, NoSoftirq, netVars
<1>6. ASSUME RestartBegin PROVE ControlOK'
  BY <1>1, <1>6 DEF ControlOK, RestartBegin, ProcessMayRun, NoSoftirq, netVars
<1>7. ASSUME RestartHwStop \/ RestartDmaStop \/ RestartDmaClear \/ RestartAlloc PROVE ControlOK'
  BY <1>1, <1>7 DEF ControlOK, RestartHwStop, RestartDmaStop, RestartDmaClear, RestartAlloc, At, NoSoftirq, netVars
<1>8. ASSUME RestartAllocFails PROVE ControlOK'
  BY <1>1, <1>8 DEF ControlOK, RestartAllocFails, At, NoSoftirq, netVars
<1>9. ASSUME RestartEnable \/ RestartAdjust \/ RestartReset \/ RestartStart PROVE ControlOK'
  BY <1>1, <1>9 DEF ControlOK, RestartEnable, RestartAdjust, RestartReset, RestartStart, At, NoSoftirq, netVars
<1>10. QED
  BY <1>2, <1>3, <1>4, <1>5, <1>6, <1>7, <1>8, <1>9 DEF Restart

-----------------------------------------------------------------------------
(***************************************************************************)
(* The engines are away from the rings when these are taken down.          *)
(***************************************************************************)
LEMMA DmaFields ==
    ASSUME NEW d \in Dma
    PROVE  /\ Stopped(d).tx_at = d.tx_at /\ Stopped(d).rx_at = d.rx_at /\ Stopped(d).tx_sent = d.tx_sent
           /\ Stopped(d).rx_received = d.rx_received /\ ~Stopped(d).tx_on /\ ~Stopped(d).rx_on
           /\ Cleared(d).tx_at = Stop /\ Cleared(d).rx_at = Stop /\ Cleared(d).tx_sent = 0
           /\ Cleared(d).rx_received = 0 /\ Cleared(d).tx_on = d.tx_on /\ Cleared(d).rx_on = d.rx_on
           /\ Started(d).tx_at = d.tx_at /\ Started(d).rx_at = d.rx_at /\ Started(d).tx_sent = d.tx_sent
           /\ Started(d).rx_received = d.rx_received /\ Started(d).tx_on = d.tx_on
           /\ Started(d).int_poll = TRUE
BY DEF Dma, Stopped, Cleared, Started

\* What the reset of the chip leaves of its engines.
LEMMA ResetFields ==
    ASSUME TypeOK, NEW d \in Dma
    PROVE  /\ Reset(d).tx_at = 0 /\ Reset(d).rx_at = d.rx_at /\ Reset(d).tx_sent = 0 /\ Reset(d).rx_received = 0
           /\ ~Reset(d).tx_on /\ ~Reset(d).rx_on
<1>1. Stopped(d) \in Dma /\ Cleared(Stopped(d)) \in Dma
  BY DmaType
<1>2. Cleared(Stopped(d)).tx_sent = 0 /\ Cleared(Stopped(d)).rx_received = 0
      /\ ~Cleared(Stopped(d)).tx_on /\ ~Cleared(Stopped(d)).rx_on
  BY <1>1, DmaFields
<1>3. QED
  BY <1>1, <1>2 DEF Reset, Dma

\* Engines run only where they may, whatever the soft interrupt does.
LEMMA EnginesDma ==
    ASSUME TypeOK, ControlOK, EnginesOut, Next,
           XmitSend \/ XmitNoRing \/ (\E n \in 1 .. DescsPerPacket : XmitFill(n)) \/ Poll \/ PollOutOfRing
           \/ PollStep \/ OomTimer \/ TxTimeout \/ DmaTransmit \/ DmaReceive \/ DmaHang \/ Interrupt
    PROVE  EnginesOut'
<1>1. trouble \subseteq trouble' /\ dma \in Dma
  BY TroubleStays, TypeNow
<1>2. UNCHANGED <<ring, step, up>>
  BY DEF XmitSend, XmitNoRing, XmitFill, Poll, PollOutOfRing, PollStep, PollOom, PollStatus, PollEnable, OomTimer,
         TxTimeout, DmaTransmit, DmaReceive, DmaHang, Interrupt, netVars, workVars
<1>3. ASSUME dma'.tx_at = dma.tx_at, dma'.rx_at = dma.rx_at PROVE EnginesOut'
  BY <1>1, <1>2, <1>3 DEF EnginesOut
<1>4. ASSUME ~(DmaTransmit \/ DmaReceive) PROVE dma'.tx_at = dma.tx_at /\ dma'.rx_at = dma.rx_at
  BY <1>1, <1>4 DEF XmitSend, XmitNoRing, XmitFill, Poll, PollOutOfRing, PollStep, PollOom, PollStatus, PollEnable,
                    OomTimer, TxTimeout, DmaHang, Interrupt, Dma
<1>5. ASSUME DmaTransmit PROVE EnginesOut'
  BY <1>1, <1>2, <1>5 DEF EnginesOut, DmaTransmit, Dma
<1>6. ASSUME DmaReceive PROVE EnginesOut'
  BY <1>1, <1>2, <1>6 DEF EnginesOut, DmaReceive, Dma
<1>7. QED
  BY <1>3, <1>4, <1>5, <1>6

\* Nor does a process start them elsewhere.
LEMMA EnginesProcess ==
    ASSUME TypeOK, ControlOK, EnginesOut, Next,
           LinkChange \/ LinkWatch \/ Open \/ StopBegin \/ NapiDisable \/ RingsCleanup \/ RestartBegin \/ Restart
    PROVE  EnginesOut'
<1>1. trouble \subseteq trouble' /\ dma \in Dma /\ rtnl \in {"free", "restart", "stop"}
  BY TroubleStays, TypeNow
<1>2. ASSUME LinkChange PROVE EnginesOut'
  <2>1. CASE link
    <3>1. dma' = Stopped(dma) /\ UNCHANGED <<ring, step, up>>
      BY <1>2, <2>1 DEF LinkChange, LinkDown
    <3>2. dma'.tx_at = dma.tx_at /\ dma'.rx_at = dma.rx_at
      BY <1>1, <3>1, DmaFields
    <3>3. QED
      BY <1>1, <3>1, <3>2 DEF EnginesOut
  <2>2. CASE ~link
    <3>1. SUFFICES ASSUME rtnl # "restart" PROVE EnginesOut'
      BY <1>2, <2>2 DEF LinkChange, LinkUp, EnginesOut
    <3>2. step = "none" /\ up
      BY <1>1, <1>2, <3>1 DEF ControlOK, LinkChange
    <3>3. UNCHANGED <<ring, step, up>>
      BY <1>2 DEF LinkChange
    <3>4. QED
      BY <1>1, <3>2, <3>3 DEF EnginesOut
  <2>3. QED
    BY <2>1, <2>2
<1>3. ASSUME LinkWatch \/ Open PROVE EnginesOut'
  BY <1>1, <1>3 DEF EnginesOut, LinkWatch, Open, ControlOK, workVars
<1>4. ASSUME StopBegin PROVE EnginesOut'
  <2>1. Stopped(dma) \in Dma
    BY <1>1, DmaType
  <2>2. dma'.tx_at = Stop /\ dma'.rx_at = Stop
    BY <1>4, <2>1, DmaFields DEF StopBegin
  <2>3. QED
    BY <1>1, <1>4, <2>2 DEF EnginesOut, StopBegin
<1>5. ASSUME NapiDisable \/ RingsCleanup \/ RestartBegin PROVE EnginesOut'
  BY <1>1, <1>5 DEF EnginesOut, ControlOK, NapiDisable, RingsCleanup, RestartBegin, netVars
<1>6. ASSUME RestartHwStop PROVE EnginesOut'
  BY <1>1, <1>6, DmaFields DEF EnginesOut, RestartHwStop, At, netVars
<1>7. ASSUME RestartDmaStop PROVE EnginesOut'
  BY <1>1, <1>7 DEF EnginesOut, RestartDmaStop, At, netVars, Dma
<1>8. ASSUME RestartDmaClear PROVE EnginesOut'
  BY <1>1, <1>8, DmaFields DEF EnginesOut, RestartDmaClear, At, netVars
<1>9. ASSUME RestartAlloc \/ RestartAllocFails PROVE EnginesOut'
  BY <1>1, <1>9 DEF EnginesOut, RestartAlloc, RestartAllocFails, At, netVars
<1>10. ASSUME RestartEnable PROVE EnginesOut'
  BY <1>1, <1>10 DEF EnginesOut, RestartEnable, At, netVars
<1>11. ASSUME RestartAdjust PROVE EnginesOut'
  BY <1>1, <1>11, DmaFields DEF EnginesOut, RestartAdjust, At, netVars
<1>12. ASSUME RestartReset \/ RestartStart PROVE EnginesOut'
  BY <1>1, <1>12 DEF EnginesOut, RestartReset, RestartStart, At, netVars
<1>13. QED
  BY <1>2, <1>3, <1>4, <1>5, <1>6, <1>7, <1>8, <1>9, <1>10, <1>11, <1>12 DEF Restart

-----------------------------------------------------------------------------
(***************************************************************************)
(* The receive ring.                                                       *)
(***************************************************************************)
\* Slots and places are the same thing.
LEMMA RingPlaces ==
    ASSUME NEW S, Size(S), NEW r, Counters(r), Used(r) <= S
    PROVE  /\ \A n \in 0 .. S - 1 :
                 /\ Slot(r.dirty, S, n) \in 0 .. S - 1
                 /\ Slot(r.dirty, S, n) \in {Slot(r.dirty, S, m) : m \in 0 .. Used(r) - 1} <=> n < Used(r)
           /\ \A i \in 0 .. S - 1 : \E n \in 0 .. S - 1 : i = Slot(r.dirty, S, n)
           /\ {Slot(r.dirty, S, m) : m \in 0 .. Used(r) - 1} \subseteq 0 .. S - 1
<1>1. S \in Nat \ {0} /\ r.dirty \in Int /\ Wrap > 0
  BY WrapFact DEF Size, Counters
<1>2. Used(r) \in 0 .. S
  BY <1>1, WrapFact, UsedIn
<1>3. \A n \in 0 .. S - 1 : Slot(r.dirty, S, n) \in 0 .. S - 1
  BY <1>1, SlotIn
<1>4. \A n \in 0 .. S - 1 :
         Slot(r.dirty, S, n) \in {Slot(r.dirty, S, m) : m \in 0 .. Used(r) - 1} <=> n < Used(r)
  <2> TAKE n \in 0 .. S - 1
  <2>1. QED
    BY <1>1, <1>2, InWindow
<1>5. {Slot(r.dirty, S, m) : m \in 0 .. Used(r) - 1} \subseteq 0 .. S - 1
  BY <1>1, <1>2, <1>3
<1>6. QED
  BY <1>1, <1>3, <1>4, <1>5, SlotOnto

\* Where the places of a ring were before dirty went c on.
Before(n, c, S) == IF n + c < S THEN n + c ELSE n + c - S

\* Where a slot lies after the poll has moved on.
LEMMA NewPlace ==
    ASSUME NEW S, Size(S), NEW r, Counters(r), NEW c \in 0 .. S, NEW s, s.dirty = (r.dirty + c) % Wrap,
           NEW n \in 0 .. S - 1
    PROVE  Before(n, c, S) \in 0 .. S - 1 /\ Slot(s.dirty, S, n) = Slot(r.dirty, S, Before(n, c, S))
<1> DEFINE d == r.dirty
<1>1. S \in Nat \ {0} /\ c \in Int /\ n \in Int /\ d \in Int
  BY WrapFact DEF Size, Counters
<1>2. Slot(s.dirty, S, n) = Slot(d, S, c + n)
  BY <1>1, SlotMoved
<1>3. CASE n + c < S
  <2> DEFINE m == n + c
  <2>1. m \in 0 .. S - 1 /\ c + n = m /\ m = Before(n, c, S)
    BY <1>1, <1>3 DEF Before
  <2> HIDE DEF m
  <2>2. QED
    BY <1>2, <2>1
<1>4. CASE ~(n + c < S)
  <2> DEFINE m == n + c - S
  <2>1. m \in 0 .. S - 1 /\ m \in Int /\ c + n = m + S
    BY <1>1, <1>4
  <2>2. m = Before(n, c, S)
    BY <1>4 DEF Before
  <2> HIDE DEF m
  <2>3. Slot(d, S, m + S) = Slot(d, S, m)
    BY <1>1, <2>1, SlotTurn
  <2>4. QED
    BY <1>2, <2>1, <2>2, <2>3
<1>5. QED
  BY <1>3, <1>4

\* RxRingOK in terms of places.
RxPlaces ==
    /\ \A n \in RxIndex : rx.empty[RxAt(n)] => rx.buf[RxAt(n)]
    /\ "alloc_failed" \notin trouble => \A n \in RxIndex : n >= Used(rx) => rx.buf[RxAt(n)]
    /\ \A n \in RxIndex : n < Used(rx) => ~rx.empty[RxAt(n)]

\* The receive ring's slots, counted from dirty, are all its indices.
LEMMA RxPlacesNow ==
    ASSUME TypeOK, RxOK
    PROVE  /\ RxPlaces
           /\ \A n \in RxIndex : RxAt(n) \in RxIndex /\ (RxAt(n) \in RxWindow <=> n < Used(rx))
           /\ \A i \in RxIndex : \E n \in RxIndex : i = RxAt(n)
<1>1. Size(RxSize) /\ Counters(rx) /\ Used(rx) <= RxSize
  BY TypeNow, Sizes, CountersFact DEF RxOK
<1>2. /\ \A n \in RxIndex : RxAt(n) \in RxIndex /\ (RxAt(n) \in RxWindow <=> n < Used(rx))
      /\ \A i \in RxIndex : \E n \in RxIndex : i = RxAt(n)
  BY <1>1, RingPlaces DEF RxIndex, RxAt, RxWindow
<1>3. \A n \in RxIndex : n >= Used(rx) <=> ~(n < Used(rx))
  BY CountersFact DEF RxIndex
<1>4. RxPlaces
  BY <1>2, <1>3 DEF RxOK, RxRingOK, RxPlaces
<1>5. QED
  BY <1>2, <1>4

\* The same after a step gives RxOK.
LEMMA RxPlacesNext ==
    ASSUME TypeOK, chip' = chip, rx' \in RxRing, Used(rx') <= RxSize, RxPlaces'
    PROVE  RxOK'
<1>1. Size(RxSize) /\ Counters(rx')
  BY TypeNow, Sizes, WrapFact DEF RxRing, Counters
<1>2. RxSize' = RxSize /\ RxIndex' = RxIndex
  BY SameChip
<1>3. /\ \A n \in RxIndex : Slot(rx'.dirty, RxSize, n) \in RxIndex
                            /\ (Slot(rx'.dirty, RxSize, n) \in RxWindow' <=> n < Used(rx'))
      /\ \A i \in RxIndex : \E n \in RxIndex : i = Slot(rx'.dirty, RxSize, n)
      /\ RxWindow' \subseteq RxIndex
  BY <1>1, <1>2, RingPlaces DEF RxIndex, RxWindow
<1>4. \A n \in RxIndex : n >= Used(rx') <=> ~(n < Used(rx'))
  <2>1. Wrap > 0
    BY <1>1, WrapFact DEF Size
  <2>2. Used(rx') \in Int
    BY <1>1, <2>1, WrapFact, UsedIn
  <2>3. QED
    BY <2>2 DEF RxIndex
<1>5. ASSUME NEW i \in RxIndex
      PROVE  /\ rx'.empty[i] => rx'.buf[i]
             /\ "alloc_failed" \notin trouble' /\ i \notin RxWindow' => rx'.buf[i]
             /\ i \in RxWindow' => ~rx'.empty[i]
  <2>1. PICK n \in RxIndex : i = Slot(rx'.dirty, RxSize, n)
    BY <1>3
  <2>2. QED
    BY <1>2, <1>3, <1>4, <2>1 DEF RxPlaces, RxAt
<1>6. RxRingOK'
  BY <1>2, <1>3, <1>5 DEF RxRingOK
<1>7. QED
  BY <1>2, <1>6 DEF RxOK

\* A poll hands the receive ring on in order.
LEMMA RxPoll ==
    ASSUME TypeOK, RxOK, chip' = chip, Poll
    PROVE  RxOK'
<1> DEFINE u == Used(rx)
           S == RxSize
           k == Receivable
<1>1. /\ Size(S) /\ S \in Nat \ {0} /\ u \in Nat /\ k \in Nat /\ u + k <= S /\ rx.dirty \in Int
      /\ \A j \in 0 .. k - 1 : ~rx.empty[Slot(rx.curr, S, j)]
  BY TypeNow, Sizes, CountersFact, ReceivableFact, SizeAssumption DEF RxOK
<1>2. PICK c \in 0 .. u + k : Took(k, c)
  BY <1>1, PollRxEffect DEF Poll, RxOK
<1> HIDE DEF k
<1>3. \A m \in u .. u + k - 1 : ~rx.empty[RxAt(m)]
  <2> TAKE m \in u .. u + k - 1
  <2>1. m - u \in 0 .. k - 1 /\ u + (m - u) = m
    BY <1>1
  <2>2. Slot(rx.curr, S, m - u) = Slot(rx.dirty, S, u + (m - u))
    BY <1>1, <2>1, CountersFact, SlotOfCurr
  <2>3. QED
    BY <1>1, <2>1, <2>2 DEF RxAt
<1>4. RxPlaces
  BY RxPlacesNow
<1>5. c \in 0 .. S
  BY <1>1
<1>6. \A n \in RxIndex : Before(n, c, S) \in RxIndex /\ Slot(rx'.dirty, S, n) = RxAt(Before(n, c, S))
  BY <1>1, <1>2, <1>5, CountersFact, NewPlace DEF Took, RxIndex, RxAt
<1>7. Used(rx') = u + k - c
  BY <1>2 DEF Took
<1>8. trouble' = trouble \/ trouble' = trouble \cup {"woken_in_restart"}
  BY DEF Poll, PollTx
<1>9. RxPlaces'
  <2> SUFFICES ASSUME NEW n \in RxIndex
               PROVE  /\ rx'.empty[Slot(rx'.dirty, S, n)] => rx'.buf[Slot(rx'.dirty, S, n)]
                      /\ "alloc_failed" \notin trouble' => (n >= Used(rx') => rx'.buf[Slot(rx'.dirty, S, n)])
                      /\ n < Used(rx') => ~rx'.empty[Slot(rx'.dirty, S, n)]
    BY SameChip DEF RxPlaces, RxAt
  <2> DEFINE m == Before(n, c, S)
  <2>1. m \in RxIndex /\ Slot(rx'.dirty, S, n) = RxAt(m)
    BY <1>6
  <2>0. m = IF n + c < S THEN n + c ELSE n + c - S
    BY DEF Before
  <2> HIDE DEF m
  <2>2. /\ rx'.empty[RxAt(m)] <=> rx.empty[RxAt(m)] \/ m < c
        /\ rx'.buf[RxAt(m)] <=> (rx.buf[RxAt(m)] /\ m \notin u .. u + k - 1) \/ m < c
    BY <1>2, <2>1 DEF Took
  <2>3. n \in 0 .. S - 1 /\ m \in 0 .. S - 1
    BY <2>1 DEF RxIndex
  <2>4. rx'.empty[RxAt(m)] => rx'.buf[RxAt(m)]
    BY <1>3, <1>4, <2>1, <2>2 DEF RxPlaces
  <2>5. "alloc_failed" \notin trouble' => (n >= Used(rx') => rx'.buf[RxAt(m)])
    <3> SUFFICES ASSUME "alloc_failed" \notin trouble, n >= u + k - c, ~(m < c) PROVE rx'.buf[RxAt(m)]
      BY <1>7, <1>8, <2>2
    <3>1. m = n + c /\ m >= u + k
      BY <1>1, <1>5, <2>0, <2>3
    <3>2. m >= u /\ m \notin u .. u + k - 1
      BY <1>1, <2>3, <3>1
    <3>3. QED
      BY <1>4, <2>1, <2>2, <3>2 DEF RxPlaces
  <2>6. n < Used(rx') => ~rx'.empty[RxAt(m)]
    <3> SUFFICES ASSUME n < u + k - c PROVE ~rx'.empty[RxAt(m)]
      BY <1>7
    <3>1. m = n + c /\ m < u + k /\ ~(m < c)
      BY <1>1, <1>5, <2>0, <2>3
    <3>2. m < u \/ m \in u .. u + k - 1
      BY <1>1, <2>3, <3>1
    <3>3. QED
      BY <1>3, <1>4, <2>1, <2>2, <3>1, <3>2 DEF RxPlaces
  <2>7. QED
    BY <2>1, <2>4, <2>5, <2>6
<1>10. Used(rx') <= RxSize /\ rx' \in RxRing
  BY <1>1, <1>2, <1>5, <1>7 DEF Took
<1>11. QED
  BY <1>9, <1>10, RxPlacesNext

\* A ring with equal counters is empty.
LEMMA UsedZero == ASSUME NEW r, r.curr = r.dirty, r.curr \in Int, Wrap \in Nat \ {0} PROVE Used(r) = 0
<1>1. r.curr - r.dirty = 0
  OBVIOUS
<1>2. 0 % Wrap = 0
  BY ModSmall
<1>3. QED
  BY <1>1, <1>2 DEF Used

\* A ring just set up is all in order.
LEMMA RxFresh ==
    ASSUME TypeOK, chip' = chip, rx' \in RxRing, rx'.curr = 0, rx'.dirty = 0,
           \A i \in RxIndex : rx'.empty[i] => rx'.buf[i],
           "alloc_failed" \in trouble' \/ \A i \in RxIndex : rx'.buf[i]
    PROVE  RxOK'
<1>1. Used(rx') = 0
  BY CountersFact, UsedZero
<1>2. RxIndex' = RxIndex /\ RxSize' = RxSize /\ RxSize \in Nat
  BY SameChip, TypeNow, Sizes
<1>3. RxWindow' = {}
  BY <1>1 DEF RxWindow
<1>4. QED
  BY <1>1, <1>2, <1>3 DEF RxOK, RxRingOK

\* Every step keeps the receive ring in order.
LEMMA RxStep ==
    ASSUME TypeOK, RxOK, Next
    PROVE  RxOK'
<1>1. /\ chip' = chip /\ trouble \subseteq trouble' /\ RxIndex' = RxIndex /\ RxSize' = RxSize
      /\ RxSize \in Nat \ {0} /\ rx \in RxRing /\ FreshRx \in RxRing
  BY TroubleStays, SameChip, TypeNow, Sizes, FreshType DEF Next
<1>2. ASSUME rx' = rx PROVE RxOK'
  BY <1>1, <1>2 DEF RxOK, RxRingOK, RxWindow
<1>3. ASSUME rx' = FreshRx PROVE RxOK'
  BY <1>1, <1>3, RxFresh DEF FreshRx
<1>4. ASSUME RestartAllocFails PROVE RxOK'
  <2>1. CASE rx' = rx
    BY <1>2, <2>1
  <2>2. ASSUME NEW n \in RxIndex,
               rx' = [FreshRx EXCEPT !.empty = [i \in RxIndex |-> i < n], !.buf = [i \in RxIndex |-> i < n]]
        PROVE  RxOK'
    <3> DEFINE f == [i \in RxIndex |-> i < n]
    <3>1. f \in [RxIndex -> BOOLEAN] /\ rx' = [FreshRx EXCEPT !.empty = f, !.buf = f]
      BY <2>2
    <3> HIDE DEF f
    <3>2. rx' \in RxRing /\ rx'.empty = f /\ rx'.buf = f /\ rx'.curr = FreshRx.curr /\ rx'.dirty = FreshRx.dirty
      BY <1>1, <3>1 DEF RxRing
    <3>3. "alloc_failed" \in trouble'
      BY <1>4 DEF RestartAllocFails
    <3>4. rx'.curr = 0 /\ rx'.dirty = 0
      BY <3>2 DEF FreshRx
    <3>5. QED
      BY <1>1, <3>2, <3>3, <3>4, RxFresh
  <2>3. QED
    BY <1>4, <2>1, <2>2 DEF RestartAllocFails
<1>5. ASSUME DmaReceive PROVE RxOK'
  <2>1. CASE ~rx.empty[dma.rx_at]
    BY <1>2, <1>5, <2>1 DEF DmaReceive
  <2>2. CASE rx.empty[dma.rx_at]
    <3>1. rx' = [rx EXCEPT !.empty[dma.rx_at] = FALSE] /\ trouble' = trouble
      BY <1>5, <2>2 DEF DmaReceive
    <3>2. /\ rx'.curr = rx.curr /\ rx'.dirty = rx.dirty /\ rx'.buf = rx.buf
          /\ \A i \in RxIndex : rx'.empty[i] => rx.empty[i]
      BY <1>1, <3>1 DEF RxRing
    <3>3. RxWindow' = RxWindow /\ Used(rx') = Used(rx) /\ RxWindow \subseteq RxIndex
      <4>1. Size(RxSize) /\ Counters(rx) /\ Used(rx) <= RxSize
        BY TypeNow, Sizes, CountersFact DEF RxOK
      <4>2. RxWindow \subseteq RxIndex
        BY <4>1, RingPlaces DEF RxWindow, RxIndex
      <4>3. QED
        BY <1>1, <3>2, <4>2 DEF RxWindow, Used
    <3>4. QED
      BY <1>1, <3>1, <3>2, <3>3 DEF RxOK, RxRingOK
  <2>3. QED
    BY <2>1, <2>2
<1>6. ASSUME Poll PROVE RxOK'
  BY <1>1, <1>6, RxPoll
<1>7. ASSUME Open \/ RingsCleanup \/ RestartAlloc PROVE RxOK'
  BY <1>3, <1>7 DEF Open, RingsCleanup, RestartAlloc
<1>8. ASSUME ~(RestartAllocFails \/ DmaReceive \/ Poll \/ Open \/ RingsCleanup \/ RestartAlloc) PROVE rx' = rx
  BY <1>8
     DEF Next, Step, Driver, Kernel, PollStep, Interrupt, XmitSend, PollOutOfRing, PollOom, PollStatus, PollEnable,
         OomTimer, NapiDisable, RestartBegin, XmitNoRing, XmitFill, TxTimeout, LinkChange, LinkWatch, StopBegin,
         DmaTransmit, DmaHang, Restart, RestartHwStop, RestartDmaStop, RestartDmaClear, RestartEnable, RestartAdjust,
         RestartReset, RestartStart
<1>9. QED
  BY <1>2, <1>4, <1>5, <1>6, <1>7, <1>8

-----------------------------------------------------------------------------
(***************************************************************************)
(* Received packets wait for somebody who looks.                           *)
(***************************************************************************)
\* The places of the ring as an order of work for the receiver, after the step.
ReceivedNext(q) ==
    /\ dma'.rx_at = Slot(rx'.dirty, RxSize, Used(rx') + q)
    /\ \A m \in Used(rx') .. Used(rx') + q - 1 : ~rx'.empty[Slot(rx'.dirty, RxSize, m)]
    /\ \A m \in Used(rx') + q .. RxSize - 1 : rx'.empty[Slot(rx'.dirty, RxSize, m)]
    /\ HasFastReset \/ dma'.rx_received >= q

\* Steps that leave the ring alone.
LEMMA RxReadyFrame ==
    ASSUME TypeOK, RxReady, chip' = chip, rx' = rx, dma' \in Dma,
           step' = "enable" => step = "enable",
           ring' /\ dma'.rx_at # Stop =>
              /\ ring /\ dma'.rx_at = dma.rx_at
              /\ HasFastReset \/ dma'.rx_received >= dma.rx_received,
           napi'.state = "idle" /\ step' # "napi" /\ Used(rx) > 0 => oom_timer'
    PROVE  RxReady'
<1>1. RxIndex' = RxIndex /\ RxSize' = RxSize /\ HasFastReset' = HasFastReset /\ RxWindow' = RxWindow
      /\ Used(rx') = Used(rx)
  BY SameChip DEF RxWindow
<1>2. /\ dma.rx_received \in Int /\ dma'.rx_received \in Int /\ Used(rx) \in Nat /\ RxSize \in Nat
  BY TypeNow, Sizes, CountersFact DEF Dma
<1>3. ASSUME ring', dma'.rx_at # Stop PROVE \E q \in 0 .. RxSize - Used(rx) : Received(q)'
  <2>1. PICK q \in 0 .. RxSize - Used(rx) : Received(q)
    BY <1>3 DEF RxReady
  <2>2. Received(q)'
    BY <1>1, <1>2, <1>3, <2>1 DEF Received, RxAt
  <2>3. QED
    BY <2>2
<1>4. QED
  BY <1>1, <1>3 DEF RxReady

\* A poll leaves what was received and not taken.
LEMMA RxReadyPoll ==
    ASSUME TypeOK, RxOK, ControlOK, RxReady, chip' = chip, Poll
    PROVE  RxReady'
<1> DEFINE u == Used(rx)
           S == RxSize
           k == Receivable
<1>1. /\ Size(S) /\ S \in Nat \ {0} /\ u \in Nat /\ k \in Nat /\ u + k <= S /\ rx.dirty \in Int
      /\ \A j \in 0 .. k - 1 : ~rx.empty[Slot(rx.curr, S, j)]
  BY TypeNow, Sizes, CountersFact, ReceivableFact, SizeAssumption DEF RxOK
<1>2. PICK c \in 0 .. u + k : Took(k, c)
  BY <1>1, PollRxEffect DEF Poll, RxOK
<1>3. dma' = [dma EXCEPT !.tx_sent = Max({0, @ - Cleaned}), !.rx_received = Max({0, @ - k})]
  BY DEF Poll
<1> HIDE DEF k
<1>4. \A m \in u .. u + k - 1 : ~rx.empty[RxAt(m)]
  <2> TAKE m \in u .. u + k - 1
  <2>1. m - u \in 0 .. k - 1 /\ u + (m - u) = m
    BY <1>1
  <2>2. Slot(rx.curr, S, m - u) = Slot(rx.dirty, S, u + (m - u))
    BY <1>1, <2>1, CountersFact, SlotOfCurr
  <2>3. QED
    BY <1>1, <2>1, <2>2 DEF RxAt
<1>5. c \in 0 .. S
  BY <1>1
<1>6. \A n \in RxIndex : Before(n, c, S) \in RxIndex /\ Slot(rx'.dirty, S, n) = RxAt(Before(n, c, S))
  BY <1>1, <1>2, <1>5, CountersFact, NewPlace DEF Took, RxIndex, RxAt
<1>7. Used(rx') = u + k - c
  BY <1>2 DEF Took
<1>8. RxIndex' = RxIndex /\ RxSize' = RxSize /\ HasFastReset' = HasFastReset
  BY SameChip
<1>9. \A n \in RxIndex : n < Used(rx) => ~rx.buf[RxAt(n)]
  BY RxPlacesNow DEF RxReady
<1>10. \A i \in RxWindow' : ~rx'.buf[i]
  <2> SUFFICES ASSUME NEW n \in 0 .. Used(rx') - 1 PROVE ~rx'.buf[Slot(rx'.dirty, S, n)]
    BY <1>8 DEF RxWindow
  <2> DEFINE m == Before(n, c, S)
  <2>1. n \in RxIndex /\ m = n + c /\ n + c < u + k /\ n + c >= c
    BY <1>1, <1>5, <1>7 DEF RxIndex, Before
  <2>2. m \in RxIndex /\ Slot(rx'.dirty, S, n) = RxAt(m)
    BY <1>6, <2>1
  <2> HIDE DEF m
  <2>3. m \in Int /\ m < u + k /\ ~(m < c)
    BY <1>1, <1>5, <2>1
  <2>4. m < u \/ m \in u .. u + k - 1
    BY <1>1, <2>3
  <2>5. rx'.buf[RxAt(m)] <=> (rx.buf[RxAt(m)] /\ m \notin u .. u + k - 1) \/ m < c
    BY <1>2, <2>2 DEF Took
  <2>6. QED
    BY <1>9, <2>2, <2>3, <2>4, <2>5
<1>11. napi'.state # "idle" /\ step' # "enable" /\ ring' = ring /\ dma'.rx_at = dma.rx_at
  BY TypeNow DEF Poll, ControlOK, Dma
<1>12. ASSUME NEW q \in 0 .. S - u, Received(q) PROVE q - k \in 0 .. S - Used(rx') /\ ReceivedNext(q - k)
  <2>1. k <= q
    <3> SUFFICES ASSUME q < k PROVE FALSE
      BY <1>1
    <3>1. u + q \in u .. u + k - 1 /\ u + q \in u + q .. S - 1
      BY <1>1
    <3>2. QED
      BY <1>4, <1>12, <3>1 DEF Received
  <2>2. Used(rx') + (q - k) = u + q - c /\ u + q - c \in Int /\ c + (u + q - c) = u + q
    BY <1>1, <1>5, <1>7
  <2>3. Slot(rx'.dirty, S, u + q - c) = RxAt(u + q)
    <3> DEFINE j == u + q - c
    <3> HIDE DEF j
    <3>1. j \in Int /\ c + j = u + q
      BY <2>2 DEF j
    <3>2. Slot((rx.dirty + c) % Wrap, S, j) = Slot(rx.dirty, S, c + j)
      BY <1>1, <1>5, <3>1, SlotMoved
    <3>3. Slot(rx'.dirty, S, j) = RxAt(u + q)
      BY <1>2, <3>1, <3>2 DEF Took, RxAt
    <3>4. QED
      BY <3>3 DEF j
  <2>4. ASSUME NEW m \in u + k - c .. u + q - c - 1 PROVE ~rx'.empty[Slot(rx'.dirty, S, m)]
    <3> DEFINE b == Before(m, c, S)
    <3>1. m \in RxIndex /\ b = m + c /\ m + c \in u .. u + q - 1 /\ ~(m + c < c)
      BY <1>1, <1>5 DEF RxIndex, Before
    <3>2. b \in RxIndex /\ Slot(rx'.dirty, S, m) = RxAt(b)
      BY <1>6, <3>1
    <3> HIDE DEF b
    <3>3. ~rx.empty[RxAt(b)] /\ ~(b < c)
      BY <1>12, <3>1 DEF Received
    <3>4. QED
      BY <1>2, <3>2, <3>3 DEF Took
  <2>5. ASSUME NEW m \in u + q - c .. S - 1 PROVE rx'.empty[Slot(rx'.dirty, S, m)]
    <3> DEFINE b == Before(m, c, S)
    <3>1. m \in RxIndex /\ (b \in u + q .. S - 1 \/ b < c)
      <4>1. m \in RxIndex /\ m \in Int
        BY <1>1, <1>5, <2>1 DEF RxIndex
      <4>2. QED
        BY <1>1, <1>5, <4>1 DEF Before
    <3>2. b \in RxIndex /\ Slot(rx'.dirty, S, m) = RxAt(b)
      BY <1>6, <3>1
    <3> HIDE DEF b
    <3>3. rx.empty[RxAt(b)] \/ b < c
      BY <1>12, <3>1 DEF Received
    <3>4. QED
      BY <1>2, <3>2, <3>3 DEF Took
  <2>6. HasFastReset \/ dma'.rx_received >= q - k
    <3>1. dma.rx_received \in Int /\ dma.rx_received - k \in Int
      BY <1>1, TypeNow DEF Dma
    <3> DEFINE x == Max({0, dma.rx_received - k})
    <3>2. x \in Nat /\ x >= dma.rx_received - k
      BY <3>1, MaxZero
    <3>3. dma'.rx_received = x
      BY <1>3, TypeNow DEF Dma
    <3> HIDE DEF x
    <3>4. HasFastReset \/ dma.rx_received >= q
      BY <1>12 DEF Received
    <3>5. QED
      BY <1>1, <3>1, <3>2, <3>3, <3>4
  <2>7. q - k \in 0 .. S - Used(rx')
    BY <1>1, <1>5, <1>7, <2>1
  <2>8. dma'.rx_at = RxAt(u + q)
    BY <1>11, <1>12 DEF Received
  <2>9. Used(rx') = u + k - c /\ Used(rx') + (q - k) = u + q - c
    BY <1>7, <2>2
  <2> DEFINE p == q - k
  <2> HIDE DEF p
  <2>10. Used(rx') + p = u + q - c /\ (HasFastReset \/ dma'.rx_received >= p)
    BY <2>6, <2>9 DEF p
  <2>11. ReceivedNext(p)
    <3>1. dma'.rx_at = Slot(rx'.dirty, RxSize, Used(rx') + p)
      BY <2>3, <2>8, <2>10
    <3>2. \A m \in Used(rx') .. Used(rx') + p - 1 : ~rx'.empty[Slot(rx'.dirty, RxSize, m)]
      <4>1. p \in Int /\ Used(rx') \in Int /\ Used(rx') = u + k - c
        BY <1>1, <1>5, <1>7 DEF p
      <4> TAKE m \in Used(rx') .. Used(rx') + p - 1
      <4>2. m \in u + k - c .. u + q - c - 1
        BY <1>1, <1>5, <2>10, <4>1
      <4>3. QED
        BY <2>4, <4>2
    <3>3. \A m \in Used(rx') + p .. RxSize - 1 : rx'.empty[Slot(rx'.dirty, RxSize, m)]
      BY <2>5, <2>10
    <3>4. QED
      BY <2>10, <3>1, <3>2, <3>3 DEF ReceivedNext
  <2>12. QED
    BY <2>7, <2>11 DEF p
<1>13. ASSUME ring', dma'.rx_at # Stop PROVE \E q \in 0 .. S - Used(rx') : Received(q)'
  <2>1. PICK q \in 0 .. S - u : Received(q)
    BY <1>11, <1>13 DEF RxReady
  <2>2. PICK p \in 0 .. S - Used(rx') : ReceivedNext(p)
    BY <1>12, <2>1
  <2>3. Received(p)'
    BY <1>8, <2>2 DEF Received, ReceivedNext, RxAt
  <2>4. QED
    BY <2>2, <2>3
<1>14. QED
  BY <1>8, <1>10, <1>11, <1>13 DEF RxReady

\* The engine fills the next descriptor.
LEMMA RxReadyReceive ==
    ASSUME TypeOK, RxOK, ControlOK, EnginesOut, RxReady, trouble = {}, chip' = chip, DmaReceive
    PROVE  RxReady'
<1> DEFINE u == Used(rx)
           S == RxSize
<1>1. /\ Size(S) /\ S \in Nat \ {0} /\ u \in Nat /\ u <= S /\ rx.dirty \in Int /\ rx \in RxRing /\ dma \in Dma
      /\ dma.rx_received \in 0 .. S
  BY TypeNow, Sizes, CountersFact DEF RxOK, Dma
<1>2. /\ RxIndex' = RxIndex /\ RxSize' = RxSize /\ HasFastReset' = HasFastReset
      /\ UNCHANGED <<ring, napi, step, oom_timer>> /\ ring /\ dma.rx_at # Stop
  BY SameChip DEF DmaReceive, workVars
<1>3. PICK q \in 0 .. S - u : Received(q)
  BY <1>2 DEF RxReady
<1>4. step # "enable"
  BY <1>2 DEF EnginesOut
<1>5. dma.rx_at = RxAt(u + q)
  BY <1>3 DEF Received
<1>6. CASE ~rx.empty[dma.rx_at]
  <2>1. rx' = rx /\ dma' = [dma EXCEPT !.rx_on = FALSE, !.rx_overflow = TRUE]
    BY <1>6 DEF DmaReceive
  <2>2. dma' \in Dma /\ dma'.rx_at = dma.rx_at /\ dma'.rx_received = dma.rx_received
    BY <1>1, <2>1 DEF Dma
  <2>3. napi'.state = "idle" /\ step' # "napi" /\ Used(rx) > 0 => oom_timer'
    BY <1>2 DEF RxReady
  <2>4. QED
    BY <1>1, <1>2, <1>4, <2>1, <2>2, <2>3, RxReadyFrame
<1>7. CASE rx.empty[dma.rx_at]
  <2>1. /\ rx' = [rx EXCEPT !.empty[dma.rx_at] = FALSE]
        /\ dma' = [dma EXCEPT !.rx_at = Slot(@, RxSize, 1),
                              !.rx_received = IF @ < RxSize THEN @ + 1 ELSE @]
    BY <1>7 DEF DmaReceive
  <2>2. /\ rx'.curr = rx.curr /\ rx'.dirty = rx.dirty /\ rx'.buf = rx.buf
        /\ rx'.empty = [rx.empty EXCEPT ![dma.rx_at] = FALSE]
        /\ dma'.rx_at = Slot(dma.rx_at, S, 1)
        /\ dma'.rx_received = IF dma.rx_received < S THEN dma.rx_received + 1 ELSE dma.rx_received
    BY <1>1, <2>1 DEF RxRing, Dma
  <2>3. Used(rx') = u /\ RxWindow' = RxWindow
    BY <1>2, <2>2 DEF RxWindow, Used
  <2>4. u + q < S
    <3> SUFFICES ASSUME q = S - u PROVE FALSE
      BY <1>1
    <3>1. u + q = 0 + S /\ 0 \in Int
      BY <1>1
    <3>2. RxAt(u + q) = RxAt(0)
      <4>1. Slot(rx.dirty, S, 0 + S) = Slot(rx.dirty, S, 0)
        BY <1>1, <3>1, SlotTurn, Zenon
      <4>2. QED
        BY <3>1, <4>1, Zenon DEF RxAt
    <3>3. 0 \in RxIndex /\ (u > 0 \/ 0 \in u .. u + q - 1)
      BY <1>1 DEF RxIndex
    <3>4. ~rx.empty[RxAt(0)]
      BY <1>3, <3>3, RxPlacesNow DEF RxPlaces, Received
    <3>5. QED
      BY <1>5, <1>7, <3>2, <3>4
  <2>5. dma'.rx_at = RxAt(u + (q + 1))
    <3> DEFINE h == u + q
    <3>1. h \in Int /\ h + 1 = u + (q + 1)
      BY <1>1
    <3>2. dma.rx_at = Slot(rx.dirty, S, h)
      BY <1>5 DEF RxAt
    <3> HIDE DEF h
    <3>3. Slot(Slot(rx.dirty, S, h), S, 1) = Slot(rx.dirty, S, h + 1)
      BY <1>1, <3>1, SlotAfter
    <3>4. QED
      BY <2>2, <3>1, <3>2, <3>3 DEF RxAt
  <2>6. \A m \in RxIndex : /\ m = u + q => ~rx'.empty[RxAt(m)]
                           /\ m # u + q => (rx'.empty[RxAt(m)] <=> rx.empty[RxAt(m)])
    <3> TAKE m \in RxIndex
    <3>1. RxAt(m) \in RxIndex /\ RxAt(u + q) \in RxIndex /\ rx.empty \in [RxIndex -> BOOLEAN]
      <4>1. u + q \in RxIndex
        BY <1>1, <2>4 DEF RxIndex
      <4>2. QED
        BY <1>1, <4>1, RxPlacesNow DEF RxRing
    <3>2. RxAt(m) = RxAt(u + q) => m = u + q
      BY <1>1, <2>4, SlotInjective DEF RxIndex, RxAt
    <3>3. QED
      BY <1>5, <2>2, <3>1, <3>2
  <2>7. \A m \in u .. u + q : ~rx'.empty[RxAt(m)]
    <3> TAKE m \in u .. u + q
    <3>1. m \in RxIndex /\ (m = u + q \/ m \in u .. u + q - 1)
      BY <1>1, <2>4 DEF RxIndex
    <3>2. QED
      BY <1>3, <2>6, <3>1 DEF Received
  <2>8. \A m \in u + q + 1 .. S - 1 : rx'.empty[RxAt(m)]
    <3> TAKE m \in u + q + 1 .. S - 1
    <3>1. m \in RxIndex /\ m # u + q /\ m \in u + q .. S - 1
      BY <1>1, <2>4 DEF RxIndex
    <3>2. QED
      BY <1>3, <2>6, <3>1 DEF Received
  <2>9. HasFastReset \/ dma'.rx_received >= q + 1
    <3>1. HasFastReset \/ dma.rx_received >= q
      BY <1>3 DEF Received
    <3>2. QED
      BY <1>1, <2>2, <2>4, <3>1
  <2> DEFINE p == q + 1
  <2>10. p \in 0 .. S - u /\ u + p = u + q + 1 /\ u + p - 1 = u + q /\ u + (q + 1) = u + p
    BY <1>1, <2>4
  <2> HIDE DEF p
  <2>11. Received(p)'
    <3>1. \A m \in u .. u + p - 1 : ~rx'.empty[RxAt(m)]
      BY <2>7, <2>10
    <3>2. \A m \in u + p .. S - 1 : rx'.empty[RxAt(m)]
      BY <2>8, <2>10
    <3>3. dma'.rx_at = RxAt(u + p) /\ (HasFastReset \/ dma'.rx_received >= p)
      BY <2>5, <2>9, <2>10 DEF p
    <3>4. QED
      BY <1>2, <2>2, <2>3, <3>1, <3>2, <3>3 DEF Received, RxAt
  <2>12. QED
    BY <1>2, <1>4, <2>2, <2>3, <2>10, <2>11 DEF RxReady
<1>8. QED
  BY <1>6, <1>7

\* A ring just set up holds nothing.
LEMMA RxReadyFresh ==
    ASSUME TypeOK, chip' = chip, rx'.curr = 0, rx'.dirty = 0, \A i \in RxIndex : rx'.empty[i],
           dma' \in Dma, ring' /\ dma'.rx_at # Stop => dma'.rx_at = 0
    PROVE  RxReady'
<1>1. /\ RxIndex' = RxIndex /\ RxSize' = RxSize /\ HasFastReset' = HasFastReset
      /\ RxSize \in Nat \ {0} /\ Used(rx') = 0
  BY SameChip, TypeNow, Sizes, CountersFact, UsedZero
<1>2. RxWindow' = {}
  BY <1>1 DEF RxWindow
<1>3. ASSUME ring', dma'.rx_at # Stop PROVE Received(0)'
  <2>1. Slot(0, RxSize, 0) = 0
    BY <1>1, ModSmall DEF Slot
  <2>2. \A m \in 0 .. RxSize - 1 : Slot(0, RxSize, m) \in RxIndex
    BY <1>1, SlotIn DEF RxIndex
  <2>3. dma'.rx_received >= 0
    BY <1>1 DEF Dma
  <2>4. dma'.rx_at = 0
    BY <1>3
  <2>5. QED
    BY <1>1, <2>1, <2>2, <2>3, <2>4 DEF Received, RxAt
<1>4. 0 \in 0 .. RxSize' - Used(rx')
  BY <1>1
<1>5. ring' /\ dma'.rx_at # Stop => \E q \in 0 .. RxSize' - Used(rx') : Received(q)'
  BY <1>3, <1>4
<1>6. QED
  BY <1>1, <1>2, <1>5 DEF RxReady

\* The slot that a refill would fill next has its buffer: none is missing.
LEMMA RefillComplete ==
    ASSUME TypeOK, RxOK, RxReady, ~OutOfMemory
    PROVE  Used(rx) = 0
<1>1. RxSize \in Nat \ {0} /\ Used(rx) \in Nat /\ 0 \in RxIndex
  BY TypeNow, Sizes, CountersFact DEF RxIndex
<1>2. RxAt(0) \in RxWindow => ~rx.buf[RxAt(0)]
  BY DEF RxReady
<1>3. ~(0 < Used(rx))
  BY <1>1, <1>2, RxPlacesNow DEF OutOfMemory, RxAt
<1>4. QED
  BY <1>1, <1>3

\* Every step keeps what was received in a row.
LEMMA RxReadyStep ==
    ASSUME TypeOK, TypeOK', RxOK, ControlOK, EnginesOut, RxReady, trouble = {}, trouble' = {}, Next
    PROVE  RxReady'
<1>1. /\ chip' = chip /\ dma \in Dma /\ dma' \in Dma /\ napi \in NapiState /\ Used(rx) \in Nat
      /\ dma.rx_received \in Int /\ HasFastReset \in BOOLEAN
      /\ Stopped(dma).rx_at = dma.rx_at /\ Stopped(dma).rx_received = dma.rx_received
      /\ Started(dma).rx_at = dma.rx_at /\ Started(dma).rx_received = dma.rx_received
      /\ Reset(dma).rx_at = dma.rx_at
  <2>1. chip' = chip
    BY DEF Next
  <2>2. dma' \in Dma
    BY <2>1, SameChip DEF TypeOK
  <2>3. dma.rx_received \in Int
    BY TypeNow DEF Dma
  <2>4. dma \in Dma /\ napi \in NapiState /\ Used(rx) \in Nat /\ HasFastReset \in BOOLEAN
    BY TypeNow, CountersFact, Kinds
  <2>5. /\ Stopped(dma).rx_at = dma.rx_at /\ Stopped(dma).rx_received = dma.rx_received
        /\ Started(dma).rx_at = dma.rx_at /\ Started(dma).rx_received = dma.rx_received
    BY <2>4, DmaFields
  <2>6. Reset(dma).rx_at = dma.rx_at
    BY <2>4, ResetFields
  <2>7. QED
    BY <2>1, <2>2, <2>3, <2>4, <2>5, <2>6
<1>2. ASSUME rx' = rx,
             step' = "enable" => step = "enable",
             ring' /\ dma'.rx_at # Stop =>
                ring /\ dma'.rx_at = dma.rx_at /\ (HasFastReset \/ dma'.rx_received = dma.rx_received),
             napi'.state = "idle" /\ step' # "napi" /\ Used(rx) > 0 => oom_timer'
      PROVE  RxReady'
  BY <1>1, <1>2, RxReadyFrame
<1>3. napi.state = "idle" /\ step # "napi" /\ Used(rx) > 0 => oom_timer
  BY DEF RxReady
<1>4. ASSUME Interrupt \/ OomTimer PROVE RxReady'
  <2>1. napi'.state = "idle" => step = "napi"
    BY <1>1, <1>4, NapiScheduled DEF Interrupt, OomTimer
  <2>2. rx' = rx /\ step' = step /\ ring' = ring /\ dma'.rx_at = dma.rx_at /\ dma'.rx_received = dma.rx_received
    BY <1>1, <1>4 DEF Interrupt, OomTimer, workVars, Dma
  <2>3. QED
    BY <1>2, <2>1, <2>2
<1>5. ASSUME PollOom PROVE RxReady'
  BY <1>2, <1>5 DEF PollOom, workVars
<1>6. ASSUME PollStatus PROVE RxReady'
  <2>1. Used(rx) = 0
    BY <1>6, RefillComplete DEF PollStatus
  <2>2. rx' = rx /\ step' = step /\ ring' = ring /\ dma'.rx_at = dma.rx_at /\ dma'.rx_received = dma.rx_received
    BY <1>1, <1>6 DEF PollStatus, workVars, Dma
  <2>3. QED
    BY <1>2, <2>1, <2>2
<1>7. ASSUME PollEnable \/ XmitSend \/ DmaTransmit \/ DmaHang \/ TxTimeout \/ LinkWatch
             \/ (\E n \in 1 .. DescsPerPacket : XmitFill(n))
      PROVE  RxReady'
  <2>1. UNCHANGED <<rx, step, ring, napi, oom_timer>>
    BY <1>7 DEF PollEnable, XmitSend, DmaTransmit, DmaHang, TxTimeout, LinkWatch, XmitFill, workVars
  <2>2. dma'.rx_at = dma.rx_at /\ dma'.rx_received = dma.rx_received
    BY <1>1, <1>7 DEF PollEnable, XmitSend, DmaTransmit, DmaHang, TxTimeout, LinkWatch, XmitFill, Dma
  <2>3. QED
    BY <1>2, <1>3, <2>1, <2>2
<1>8. ASSUME NapiDisable PROVE RxReady'
  BY <1>2, <1>8 DEF NapiDisable
<1>9. ASSUME RestartBegin PROVE RxReady'
  BY <1>2, <1>3, <1>9 DEF RestartBegin, ControlOK
<1>10. ASSUME RestartHwStop \/ RestartDmaStop PROVE RxReady'
  <2>1. dma'.rx_at = dma.rx_at /\ dma'.rx_received = dma.rx_received
    <3>1. dma' = Stopped(dma) \/ dma' = [dma EXCEPT !.rx_on = FALSE, !.tx_on = FALSE]
      BY <1>10 DEF RestartHwStop, RestartDmaStop
    <3>2. [dma EXCEPT !.rx_on = FALSE, !.tx_on = FALSE].rx_at = dma.rx_at
          /\ [dma EXCEPT !.rx_on = FALSE, !.tx_on = FALSE].rx_received = dma.rx_received
      BY <1>1 DEF Dma
    <3>3. QED
      BY <1>1, <3>1, <3>2
  <2>2. QED
    BY <1>2, <1>3, <1>10, <2>1 DEF RestartHwStop, RestartDmaStop, At
<1>11. ASSUME RestartDmaClear PROVE RxReady'
  <2>1. dma'.rx_at = Stop
    BY <1>1, <1>11, DmaFields DEF RestartDmaClear
  <2>2. QED
    BY <1>2, <1>11, <2>1 DEF RestartDmaClear
<1>12. ASSUME StopBegin PROVE RxReady'
  <2>1. dma'.rx_at = Stop
    BY <1>1, <1>12, DmaType, DmaFields DEF StopBegin
  <2>2. QED
    BY <1>2, <1>12, <2>1 DEF StopBegin
<1>13. ASSUME Open \/ RestartAlloc \/ RingsCleanup PROVE RxReady'
  <2>1. rx' = FreshRx
    BY <1>13 DEF Open, RestartAlloc, RingsCleanup
  <2>2. dma'.rx_at = 0 \/ dma'.rx_at = Stop \/ ~ring'
    BY <1>1, <1>13 DEF Open, RestartAlloc, RingsCleanup, EnginesOut, At, Dma
  <2>3. QED
    BY <1>1, <2>1, <2>2, RxReadyFresh DEF FreshRx
<1>14. ASSUME RestartEnable PROVE RxReady'
  <2>1. rx' = rx /\ rx.curr = 0 /\ rx.dirty = 0 /\ \A i \in RxIndex : rx.empty[i]
    BY <1>14 DEF RestartEnable, RxReady, At
  <2>2. dma'.rx_at = 0
    BY <1>1, <1>14 DEF RestartEnable, Dma
  <2>3. QED
    BY <1>1, <2>1, <2>2, RxReadyFresh
<1>15. ASSUME RestartAdjust PROVE RxReady'
  <2>1. dma'.rx_at = dma.rx_at /\ dma'.rx_received = dma.rx_received
    <3>1. dma' = Stopped(dma) \/ dma' = dma
      BY <1>15 DEF RestartAdjust
    <3>2. QED
      BY <1>1, <3>1
  <2>2. QED
    BY <1>2, <1>3, <1>15, <2>1 DEF RestartAdjust, At
<1>16. ASSUME RestartReset \/ RestartStart PROVE RxReady'
  <2>1. dma'.rx_at = dma.rx_at /\ (HasFastReset \/ dma'.rx_received = dma.rx_received)
    <3>1. (dma' = Reset(dma) /\ HasFastReset) \/ dma' = Started(dma)
      BY <1>16 DEF RestartReset, RestartStart, ControlOK, At
    <3>2. QED
      BY <1>1, <3>1
  <2>2. QED
    BY <1>2, <1>3, <1>16, <2>1 DEF RestartReset, RestartStart, At
<1>17. ASSUME LinkChange PROVE RxReady'
  <2>1. dma'.rx_at = dma.rx_at /\ (HasFastReset \/ dma'.rx_received = dma.rx_received)
    <3>1. CASE link
      <4>1. dma' = Stopped(dma)
        BY <1>17, <3>1 DEF LinkChange, LinkDown
      <4>2. QED
        BY <1>1, <4>1, DmaFields
    <3>2. CASE ~link /\ HasFastReset
      <4>1. dma' = Started(Reset(dma)) /\ Reset(dma) \in Dma
        BY <1>1, <1>17, <3>2, DmaType DEF LinkChange, LinkUp
      <4>2. QED
        BY <1>1, <3>2, <4>1, ResetFields, DmaFields
    <3>3. CASE ~link /\ ~HasFastReset
      <4>1. dma' = Started(dma)
        BY <1>17, <3>3 DEF LinkChange, LinkUp
      <4>2. QED
        BY <1>1, <4>1, DmaFields
    <3>4. QED
      BY <3>1, <3>2, <3>3
  <2>2. QED
    BY <1>2, <1>3, <1>17, <2>1 DEF LinkChange
<1>18. ~PollOutOfRing /\ ~XmitNoRing /\ ~RestartAllocFails
  BY DEF PollOutOfRing, XmitNoRing, RestartAllocFails
<1>19. ASSUME Poll PROVE RxReady'
  BY <1>1, <1>19, RxReadyPoll
<1>20. ASSUME DmaReceive PROVE RxReady'
  BY <1>1, <1>20, RxReadyReceive
<1>21. QED
  BY <1>4, <1>5, <1>6, <1>7, <1>8, <1>9, <1>10, <1>11, <1>12, <1>13, <1>14, <1>15, <1>16, <1>17, <1>18, <1>19, <1>20
     DEF Next, Step, Driver, Kernel, PollStep, Restart

-----------------------------------------------------------------------------
(***************************************************************************)
(* The transmit ring.                                                      *)
(***************************************************************************)
LEMMA TxPlacesNow ==
    ASSUME TypeOK, Used(tx) <= TxSize
    PROVE  /\ \A n \in TxIndex : TxAt(n) \in TxIndex /\ (TxAt(n) \in TxWindow <=> n < Used(tx))
           /\ \A i \in TxIndex : \E n \in TxIndex : i = TxAt(n)
           /\ \A n, m \in TxIndex : TxAt(n) = TxAt(m) => n = m
           /\ TxWindow \subseteq TxIndex
           /\ \A n \in TxIndex : n \in Int
<1>1. Size(TxSize) /\ Counters(tx) /\ tx.dirty \in Int /\ TxSize \in Nat \ {0}
  BY TypeNow, Sizes, CountersFact
<1>2. \A n, m \in TxIndex : TxAt(n) = TxAt(m) => n = m
  BY <1>1, SlotInjective DEF TxIndex, TxAt
<1>3. /\ \A n \in TxIndex : TxAt(n) \in TxIndex /\ (TxAt(n) \in TxWindow <=> n < Used(tx))
      /\ \A i \in TxIndex : \E n \in TxIndex : i = TxAt(n)
      /\ TxWindow \subseteq TxIndex
  BY <1>1, RingPlaces DEF TxIndex, TxAt, TxWindow
<1>4. \A n \in TxIndex : n \in Int
  BY DEF TxIndex
<1>5. QED
  BY <1>2, <1>3, <1>4

\* Slots and packets counted: a packet more, a packet less.
LEMMA PacketsType ==
    ASSUME TypeOK, NEW A, A \subseteq TxIndex
    PROVE  /\ IsFiniteSet({i \in A : tx.skb[i]})
           /\ Packets(A) \in Nat /\ Packets(A) <= TxSize
<1>1. TxSize \in Nat \ {0}
  BY TypeNow, Sizes
<1>2. IsFiniteSet(TxIndex) /\ Cardinality(TxIndex) = TxSize
  BY <1>1, FS_Interval DEF TxIndex
<1> DEFINE some == {i \in A : tx.skb[i]}
<1>3. some \subseteq TxIndex
  OBVIOUS
<1>4. Packets(A) = Cardinality(some)
  BY DEF Packets
<1> HIDE DEF some
<1>5. IsFiniteSet(some) /\ Cardinality(some) <= Cardinality(TxIndex)
  BY <1>2, <1>3, FS_Subset
<1>6. QED
  BY <1>1, <1>2, <1>4, <1>5, FS_CardinalityType DEF some

\* The transmitter after the step, as Sent describes it before.
SentNext(p) ==
    /\ dma'.tx_at = Slot(tx'.dirty, TxSize, p)
    /\ \A m \in 0 .. p - 1 : tx'.empty[Slot(tx'.dirty, TxSize, m)]
    /\ \A m \in p .. Used(tx') - 1 : ~tx'.empty[Slot(tx'.dirty, TxSize, m)]
    /\ dma'.tx_sent >= p

\* Steps that leave the ring alone.
LEMMA TxReadyFrame ==
    ASSUME TypeOK, TxReady, chip' = chip, tx' = tx, bql' = bql, dma' \in Dma,
           queue' = "running" => queue = "running" \/ Used(tx) = 0 \/ ~QueueFull(Used(tx)),
           softirq'.at = "xmit" => softirq' = softirq /\ queue' = "running" /\ ring' /\ rtnl' = "free",
           softirq.at = "xmit" => softirq'.at = "xmit",
           ring' /\ dma'.tx_at # Stop /\ step' # "reset" =>
              ring /\ step # "reset" /\ dma'.tx_at = dma.tx_at /\ dma'.tx_sent >= dma.tx_sent,
           step' = "enable" => step = "enable",
           step' \in {"enable", "adjust", "reset", "start"} => Used(tx) = 0,
           step' = "reset" => ~dma'.tx_on
    PROVE  TxReady'
<1>1. /\ TxSize' = TxSize /\ TxIndex' = TxIndex /\ TxWindow' = TxWindow /\ Used(tx') = Used(tx)
      /\ DescsPerPacket' = DescsPerPacket /\ Packets(TxIndex)' = Packets(TxIndex)
  BY SameChip DEF TxWindow, Packets
<1>2. /\ TxSize \in Nat /\ DescsPerPacket \in Nat \ {0} /\ Used(tx) \in Nat
      /\ TxSize = 2 * DescsPerPacket \/ TxSize >= 4 * DescsPerPacket
      /\ dma.tx_sent \in Int /\ dma'.tx_sent \in Int
  BY TypeNow, Sizes, CountersFact DEF Dma
<1>3. queue' = "running" => TxSize - Used(tx) >= DescsPerPacket
  BY <1>2 DEF TxReady, QueueFull
<1>4. ASSUME ring', dma'.tx_at # Stop, step' # "reset" PROVE \E p \in 0 .. Used(tx) : Sent(p)'
  <2>1. PICK p \in 0 .. Used(tx) : Sent(p)
    BY <1>4 DEF TxReady
  <2>2. Sent(p)'
    BY <1>1, <1>2, <1>4, <2>1 DEF Sent, TxAt
  <2>3. QED
    BY <2>2
<1>5. SmallRing'
  <2>1. TxSize = 2 * DescsPerPacket /\ queue' = "running" => Used(tx) = 0
    BY <1>2 DEF TxReady, SmallRing, QueueFull
  <2>2. QED
    BY <1>1, <2>1 DEF TxReady, SmallRing, TxAt
<1>6. /\ Used(tx') <= TxSize' /\ \A i \in TxIndex' : tx'.skb[i] => i \in TxWindow'
      /\ bql' = Packets(TxIndex)'
  BY <1>1 DEF TxReady
<1>7. \A m \in Used(tx) .. TxSize - 1 :
         tx.empty[TxAt(m)] \/ (softirq'.at = "xmit" /\ m \in Used(tx) + 1 .. Used(tx) + softirq'.n - 1)
  BY DEF TxReady
<1>8. softirq'.at = "xmit" => \A m \in Used(tx) + 1 .. Used(tx) + softirq'.n - 1 : ~tx.empty[TxAt(m)]
  BY DEF TxReady
<1>9. step' = "enable" => tx'.curr = 0 /\ tx'.dirty = 0
  BY DEF TxReady
<1>10. QED
  BY <1>1, <1>3, <1>4, <1>5, <1>6, <1>7, <1>8, <1>9 DEF TxReady, TxAt

\* A ring with nothing in it is all in order.
LEMMA TxReadyEmpty ==
    ASSUME TypeOK, chip' = chip, tx'.curr = tx'.dirty, tx'.curr \in Int,
           \A i \in TxIndex : tx'.empty[i] /\ ~tx'.skb[i],
           bql' = 0, softirq'.at # "xmit", dma' \in Dma,
           ring' /\ dma'.tx_at # Stop /\ step' # "reset" => dma'.tx_at = Slot(tx'.dirty, TxSize, 0),
           step' = "enable" => tx'.curr = 0,
           step' = "reset" => ~dma'.tx_on
    PROVE  TxReady'
<1>1. /\ TxSize' = TxSize /\ TxIndex' = TxIndex /\ DescsPerPacket' = DescsPerPacket
      /\ Used(tx') = 0 /\ TxSize \in Nat \ {0} /\ DescsPerPacket \in Nat \ {0}
      /\ TxSize = 2 * DescsPerPacket \/ TxSize >= 4 * DescsPerPacket
  BY SameChip, TypeNow, Sizes, CountersFact, UsedZero
<1>2. TxWindow' = {}
  BY <1>1 DEF TxWindow
<1>3. Packets(TxIndex)' = 0
  <2>1. {i \in TxIndex' : tx'.skb[i]} = {}
    BY <1>1
  <2>2. QED
    BY <2>1, FS_EmptySet DEF Packets
<1>4. \A m \in 0 .. TxSize - 1 : Slot(tx'.dirty, TxSize, m) \in TxIndex
  <2> TAKE m \in 0 .. TxSize - 1
  <2>1. tx'.dirty \in Int /\ m \in Int
    BY <1>1
  <2>2. QED
    BY <1>1, <2>1, SlotIn DEF TxIndex
<1>5. ASSUME ring', dma'.tx_at # Stop, step' # "reset" PROVE Sent(0)'
  <2>1. dma'.tx_sent >= 0
    BY <1>1 DEF Dma
  <2>2. QED
    BY <1>1, <1>5, <2>1 DEF Sent, TxAt
<1>6. SmallRing'
  BY <1>1 DEF SmallRing
<1>7. TxSize - 0 >= DescsPerPacket /\ 0 <= TxSize /\ 0 \in 0 .. 0
  BY <1>1
<1>8. ring' /\ dma'.tx_at # Stop /\ step' # "reset" => \E p \in 0 .. Used(tx)' : Sent(p)'
  BY <1>1, <1>5, <1>7
<1>9. QED
  BY <1>1, <1>2, <1>3, <1>4, <1>6, <1>7, <1>8 DEF TxReady, TxAt

\* What TxReady says of a ring that holds nothing, or that is flushed.
LEMMA TxEmptied ==
    ASSUME TypeOK, TxReady, softirq.at # "xmit"
    PROVE  /\ Used(tx) = 0 => tx.curr = tx.dirty /\ bql = 0 /\ \A i \in TxIndex : tx.empty[i] /\ ~tx.skb[i]
           /\ Flushed.curr = tx.curr /\ Flushed.dirty = tx.curr
           /\ \A i \in TxIndex : Flushed.empty[i] /\ ~Flushed.skb[i]
<1>1. /\ Used(tx) \in Nat /\ Used(tx) <= TxSize /\ tx \in TxRing /\ TxSize \in Nat
      /\ tx.curr \in 0 .. Wrap - 1 /\ tx.dirty \in 0 .. Wrap - 1 /\ Wrap \in Nat \ {0}
  BY TypeNow, CountersFact, Sizes DEF TxReady, Counters
<1>2. \A i \in TxIndex : i \notin TxWindow => tx.empty[i] /\ ~tx.skb[i]
  <2> SUFFICES ASSUME NEW i \in TxIndex, i \notin TxWindow PROVE tx.empty[i]
    BY DEF TxReady
  <2>1. PICK n \in TxIndex : i = TxAt(n)
    BY <1>1, TxPlacesNow
  <2>2. n \in Used(tx) .. TxSize - 1
    BY <1>1, <2>1, TxPlacesNow DEF TxIndex
  <2>3. QED
    BY <2>1, <2>2 DEF TxReady
<1>3. Flushed.curr = tx.curr /\ Flushed.dirty = tx.curr
      /\ Flushed.empty = [i \in TxIndex |-> tx.empty[i] \/ i \in TxWindow]
      /\ Flushed.skb = [i \in TxIndex |-> tx.skb[i] /\ i \notin TxWindow]
  BY <1>1 DEF Flushed, TxRing
<1>4. ASSUME Used(tx) = 0 PROVE tx.curr = tx.dirty /\ bql = 0 /\ \A i \in TxIndex : tx.empty[i] /\ ~tx.skb[i]
  <2>1. TxWindow = {}
    BY <1>4 DEF TxWindow
  <2>2. \A i \in TxIndex : tx.empty[i] /\ ~tx.skb[i]
    BY <1>2, <2>1
  <2>3. bql = 0
    <3>1. {i \in TxIndex : tx.skb[i]} = {}
      BY <2>2
    <3>2. QED
      BY <3>1, FS_EmptySet DEF TxReady, Packets
  <2>4. tx.curr = tx.dirty
    <3> DEFINE c == tx.curr
               d == tx.dirty
               x == c - d
    <3>1. Rem(x, Wrap) = 0 /\ c \in 0 .. Wrap - 1 /\ d \in 0 .. Wrap - 1
      BY <1>1, <1>4 DEF Used, Rem
    <3> HIDE DEF c, d
    <3>2. x \in Int /\ x + d = c
      BY <3>1
    <3> HIDE DEF x
    <3>3. Rem(Rem(x, Wrap) + d, Wrap) = Rem(x + d, Wrap)
      BY <1>1, <3>1, <3>2, RemMod, RemSelf
    <3>4. Rem(d, Wrap) = Rem(c, Wrap)
      BY <3>1, <3>2, <3>3
    <3>5. d % Wrap = d /\ c % Wrap = c
      BY <1>1, <3>1, ModSmall
    <3>6. QED
      BY <3>4, <3>5 DEF Rem, c, d
  <2>5. QED
    BY <2>2, <2>3, <2>4
<1>5. QED
  BY <1>2, <1>3, <1>4

\* The places of the ring that hold nothing while no packet is being filled in.
LEMMA TxPlacesFree ==
    ASSUME TypeOK, TxReady
    PROVE  /\ Used(tx) \in Nat /\ Used(tx) <= TxSize /\ TxSize \in Nat \ {0}
           /\ \A m \in TxIndex : m >= Used(tx) => ~tx.skb[TxAt(m)]
           /\ \A m \in TxIndex : m >= Used(tx) /\ softirq.at # "xmit" => tx.empty[TxAt(m)]
           /\ Used(tx) < TxSize => tx.empty[TxAt(Used(tx))]
<1>1. Used(tx) \in Nat /\ Used(tx) <= TxSize /\ TxSize \in Nat \ {0} /\ softirq.n \in Nat
  BY TypeNow, Sizes, CountersFact DEF TxReady, Softirq
<1>2. \A m \in TxIndex : m >= Used(tx) => ~tx.skb[TxAt(m)]
  <2> SUFFICES ASSUME NEW m \in TxIndex, m >= Used(tx), tx.skb[TxAt(m)] PROVE FALSE
    OBVIOUS
  <2>1. TxAt(m) \in TxIndex /\ (TxAt(m) \in TxWindow <=> m < Used(tx)) /\ m \in Int
    BY <1>1, TxPlacesNow
  <2>2. TxAt(m) \in TxWindow
    BY <2>1 DEF TxReady
  <2>3. QED
    BY <1>1, <2>1, <2>2
<1>3. \A m \in TxIndex : m >= Used(tx) /\ softirq.at # "xmit" => tx.empty[TxAt(m)]
  BY <1>1 DEF TxReady, TxIndex
<1>4. Used(tx) < TxSize => tx.empty[TxAt(Used(tx))]
  <2>1. Used(tx) < TxSize => Used(tx) \in Used(tx) .. TxSize - 1 /\ Used(tx) \notin Used(tx) + 1 .. Used(tx) + softirq.n - 1
    BY <1>1
  <2>2. QED
    BY <2>1 DEF TxReady
<1>5. QED
  BY <1>1, <1>2, <1>3, <1>4

\* The engine sends the next descriptor.
LEMMA TxReadyTransmit ==
    ASSUME TypeOK, TxReady, chip' = chip, DmaTransmit
    PROVE  TxReady'
<1> DEFINE u == Used(tx)
           S == TxSize
<1>1. /\ S \in Nat \ {0} /\ u \in Nat /\ u <= S /\ tx.dirty \in Int /\ tx \in TxRing /\ dma \in Dma
      /\ dma.tx_sent \in 0 .. S /\ softirq.n \in Nat
  BY TypeNow, CountersFact, TxPlacesFree DEF Dma, Softirq
<1>2. /\ TxIndex' = TxIndex /\ TxSize' = TxSize /\ DescsPerPacket' = DescsPerPacket
      /\ UNCHANGED <<ring, queue, bql, softirq, rtnl, step>> /\ ring /\ dma.tx_at # Stop /\ step # "reset"
  BY SameChip DEF DmaTransmit, workVars, TxReady
<1>3. PICK p \in 0 .. u : Sent(p)
  BY <1>2 DEF TxReady
<1>4. dma.tx_at = TxAt(p) /\ dma.tx_sent >= p
  BY <1>3 DEF Sent
<1>5. CASE tx.empty[dma.tx_at]
  <2>1. tx' = tx /\ dma' = [dma EXCEPT !.tx_on = FALSE]
    BY <1>5 DEF DmaTransmit
  <2>2. dma' \in Dma /\ dma'.tx_at = dma.tx_at /\ dma'.tx_sent = dma.tx_sent /\ ~dma'.tx_on
    BY <1>1, <2>1 DEF Dma
  <2>3. step \in {"enable", "adjust", "reset", "start"} => Used(tx) = 0
    BY DEF TxReady
  <2>4. softirq.at = "xmit" => queue = "running" /\ ring /\ rtnl = "free"
    BY DEF TxReady
  <2>5. QED
    BY <1>1, <1>2, <2>1, <2>2, <2>3, <2>4, TxReadyFrame
<1>6. CASE ~tx.empty[dma.tx_at]
  <2>1. /\ tx' = [tx EXCEPT !.empty[dma.tx_at] = TRUE]
        /\ dma' = [dma EXCEPT !.tx_at = Slot(@, TxSize, 1),
                              !.tx_sent = IF @ < TxSize THEN @ + 1 ELSE @]
    BY <1>6 DEF DmaTransmit
  <2>2. /\ tx'.curr = tx.curr /\ tx'.dirty = tx.dirty /\ tx'.skb = tx.skb
        /\ tx'.empty = [tx.empty EXCEPT ![dma.tx_at] = TRUE]
        /\ dma'.tx_at = Slot(dma.tx_at, S, 1)
        /\ dma'.tx_sent = IF dma.tx_sent < S THEN dma.tx_sent + 1 ELSE dma.tx_sent
    BY <1>1, <2>1 DEF TxRing, Dma
  <2>3. Used(tx') = u /\ TxWindow' = TxWindow /\ Packets(TxIndex)' = Packets(TxIndex)
    BY <1>2, <2>2 DEF TxWindow, Used, Packets
  <2>4. p < u
    <3> SUFFICES ASSUME p = u PROVE FALSE
      BY <1>1
    <3>1. CASE u < S
      <4>1. tx.empty[TxAt(u)]
        BY <3>1, TxPlacesFree
      <4>2. QED
        BY <1>4, <1>6, <4>1
    <3>2. CASE u = S
      <4>1. 0 \in 0 .. p - 1
        BY <1>1, <3>2
      <4>2. Slot(tx.dirty, S, 0 + S) = Slot(tx.dirty, S, 0) /\ 0 + S = S
        <5>1. 0 \in Int
          OBVIOUS
        <5>2. Slot(tx.dirty, S, 0 + S) = Slot(tx.dirty, S, 0)
          BY <1>1, <5>1, SlotTurn, Zenon
        <5>3. 0 + S = S
          BY <1>1
        <5>4. QED
          BY <5>2, <5>3
      <4>3. TxAt(p) = TxAt(0)
        BY <3>2, <4>2 DEF TxAt
      <4>4. QED
        BY <1>3, <1>4, <1>6, <4>1, <4>3 DEF Sent
    <3>3. QED
      BY <1>1, <3>1, <3>2
  <2>5. dma'.tx_at = TxAt(p + 1)
    <3>1. Slot(Slot(tx.dirty, S, p), S, 1) = Slot(tx.dirty, S, p + 1)
      BY <1>1, SlotAfter
    <3>2. QED
      BY <1>4, <2>2, <3>1 DEF TxAt
  <2>6. \A m \in TxIndex : tx'.empty[TxAt(m)] <=> tx.empty[TxAt(m)] \/ m = p
    <3> TAKE m \in TxIndex
    <3>1. p \in TxIndex /\ tx.empty \in [TxIndex -> BOOLEAN]
      BY <1>1, <2>4 DEF TxIndex, TxRing
    <3>2. TxAt(m) \in TxIndex /\ TxAt(p) \in TxIndex /\ (TxAt(m) = TxAt(p) => m = p)
      BY <1>1, <3>1, TxPlacesNow
    <3>3. QED
      BY <1>4, <2>2, <3>1, <3>2
  <2>7. \A m \in 0 .. S - 1 : m \in TxIndex
    BY DEF TxIndex
  <2>8. dma'.tx_sent >= p + 1
    BY <1>1, <1>4, <2>2, <2>4
  <2> DEFINE q == p + 1
  <2>9. q \in 0 .. u /\ (\A m \in 0 .. q - 1 : m = p \/ m \in 0 .. p - 1) /\ (\A m \in q .. u - 1 : m # p /\ m \in p .. u - 1)
        /\ (\A m \in 0 .. q - 1 : m \in 0 .. S - 1) /\ (\A m \in q .. u - 1 : m \in 0 .. S - 1)
    BY <1>1, <2>4
  <2>10. dma'.tx_at = TxAt(q) /\ dma'.tx_sent >= q
    BY <2>5, <2>8
  <2> HIDE DEF q
  <2>11. Sent(q)'
    <3>1. \A m \in 0 .. q - 1 : tx'.empty[TxAt(m)]
      BY <1>3, <2>6, <2>7, <2>9 DEF Sent
    <3>2. \A m \in q .. u - 1 : ~tx'.empty[TxAt(m)]
      BY <1>3, <2>6, <2>7, <2>9 DEF Sent
    <3>3. QED
      BY <1>2, <2>2, <2>3, <2>10, <3>1, <3>2 DEF Sent, TxAt
  <2>12. step \notin {"enable", "adjust", "reset", "start"}
    BY <1>1, <2>4 DEF TxReady
  <2>13. SmallRing'
    BY <1>2, <2>2, <2>3 DEF TxReady, SmallRing, TxAt
  <2>14. \A m \in u .. S - 1 : tx'.empty[TxAt(m)] \/ (softirq.at = "xmit" /\ m \in u + 1 .. u + softirq.n - 1)
    <3> TAKE m \in u .. S - 1
    <3>1. m \in TxIndex
      BY <1>1 DEF TxIndex
    <3>2. QED
      BY <2>6, <3>1 DEF TxReady
  <2>15. softirq.at = "xmit" => \A m \in u + 1 .. u + softirq.n - 1 : ~tx'.empty[TxAt(m)]
    <3> SUFFICES ASSUME softirq.at = "xmit", NEW m \in u + 1 .. u + softirq.n - 1 PROVE ~tx'.empty[TxAt(m)]
      OBVIOUS
    <3>1. softirq.n <= DescsPerPacket /\ DescsPerPacket \in Nat /\ S - u >= DescsPerPacket
      BY TypeNow, Sizes DEF TxReady, Softirq
    <3>2. m \in TxIndex /\ m # p
      BY <1>1, <2>4, <3>1 DEF TxIndex
    <3>3. QED
      BY <2>6, <3>2 DEF TxReady
  <2>16. QED
    BY <1>2, <2>2, <2>3, <2>9, <2>11, <2>12, <2>13, <2>14, <2>15 DEF TxReady, TxAt
<1>7. QED
  BY <1>5, <1>6

\* The places that a packet of n is filled in, seen from dirty.
LEMMA FillPlaces ==
    ASSUME TypeOK, TxReady, NEW k \in Nat
    PROVE  Slot(tx.curr, TxSize, k) = TxAt(Used(tx) + k)
<1>1. Size(TxSize) /\ Counters(tx) /\ k \in Int
  BY TypeNow, Sizes, CountersFact
<1>2. QED
  BY <1>1, SlotOfCurr DEF TxAt

\* A packet is filled in behind those in use.
LEMMA TxReadyFill ==
    ASSUME TypeOK, TypeOK', ControlOK, TxReady, trouble = {}, trouble' = {}, chip' = chip,
           NEW n \in 1 .. DescsPerPacket, XmitFill(n)
    PROVE  TxReady'
<1> DEFINE u == Used(tx)
           S == TxSize
           F == {Slot(tx.curr, TxSize, k) : k \in 1 .. n - 1}
<1>1. /\ S \in Nat \ {0} /\ u \in Nat /\ u <= S /\ tx.dirty \in Int /\ tx \in TxRing
      /\ DescsPerPacket \in Nat /\ n \in Nat /\ S - u >= n
  <2>1. queue = "running"
    BY DEF XmitFill
  <2>2. DescsPerPacket \in Nat /\ TxSize - Used(tx) >= DescsPerPacket
    BY <2>1, TypeNow, Sizes DEF TxReady
  <2>3. QED
    BY <2>2, TypeNow, CountersFact, TxPlacesFree
<1>2. /\ TxIndex' = TxIndex /\ TxSize' = TxSize /\ DescsPerPacket' = DescsPerPacket
      /\ UNCHANGED <<ring, queue, bql, rtnl, step, dma>> /\ queue = "running" /\ ring /\ up
      /\ softirq.at = "none"
  BY SameChip DEF XmitFill, workVars, SoftirqMayRun, NoSoftirq
<1>3. rtnl = "free" /\ step = "none"
  <2>1. rtnl # "restart"
    BY DEF XmitFill, Note
  <2>2. QED
    BY <1>2, <2>1, TypeNow DEF ControlOK
<1>4. Fillable(n) = n
  <2> DEFINE f == Fillable(n)
  <2>1. f \in 0 .. n /\ (f < n => ~tx.empty[Slot(tx.curr, TxSize, f)])
    BY <1>1, FillableFact
  <2> HIDE DEF f
  <2>2. SUFFICES ASSUME f < n PROVE FALSE
    BY <1>1, <2>1 DEF f
  <2>3. Slot(tx.curr, TxSize, f) = TxAt(u + f)
    BY <2>1, FillPlaces
  <2>4. u + f \in TxIndex /\ u + f >= u
    BY <1>1, <2>1, <2>2 DEF TxIndex
  <2>5. tx.empty[TxAt(u + f)]
    BY <1>2, <2>4, TxPlacesFree
  <2>6. QED
    BY <2>1, <2>2, <2>3, <2>5
<1>5. /\ tx' = [tx EXCEPT !.empty = Filled(n)]
      /\ softirq' = [at |-> "xmit", n |-> n, done |-> 0]
  BY <1>4 DEF XmitFill
<1>6. /\ tx'.curr = tx.curr /\ tx'.dirty = tx.dirty /\ tx'.skb = tx.skb
      /\ tx'.empty = [i \in TxIndex |-> tx.empty[i] /\ i \notin F]
      /\ softirq'.at = "xmit" /\ softirq'.n = n
  BY <1>1, <1>5 DEF TxRing, Filled
<1>7. Used(tx') = u /\ TxWindow' = TxWindow /\ Packets(TxIndex)' = Packets(TxIndex)
  BY <1>2, <1>6 DEF TxWindow, Used, Packets
<1>8. \A m \in TxIndex : TxAt(m) \in F <=> m \in u + 1 .. u + n - 1
  <2> TAKE m \in TxIndex
  <2>1. ASSUME TxAt(m) \in F PROVE m \in u + 1 .. u + n - 1
    <3>1. PICK k \in 1 .. n - 1 : TxAt(m) = Slot(tx.curr, TxSize, k)
      BY <2>1
    <3>2. k \in Nat /\ u + k \in TxIndex
      BY <1>1 DEF TxIndex
    <3>3. TxAt(m) = TxAt(u + k)
      BY <3>1, <3>2, FillPlaces
    <3>4. m = u + k
      BY <1>1, <3>2, <3>3, TxPlacesNow
    <3>5. QED
      BY <1>1, <3>4
  <2>2. ASSUME m \in u + 1 .. u + n - 1 PROVE TxAt(m) \in F
    <3> DEFINE k == m - u
    <3>1. k \in 1 .. n - 1 /\ k \in Nat /\ u + k = m
      BY <1>1, <2>2
    <3> HIDE DEF k
    <3>2. Slot(tx.curr, TxSize, k) = TxAt(m)
      BY <3>1, FillPlaces
    <3>3. QED
      BY <3>1, <3>2
  <2>3. QED
    BY <2>1, <2>2
<1> HIDE DEF F
<1>9. \A m \in TxIndex : TxAt(m) \in TxIndex /\ (tx'.empty[TxAt(m)] <=> tx.empty[TxAt(m)] /\ m \notin u + 1 .. u + n - 1)
  BY <1>1, <1>6, <1>8, TxPlacesNow
<1>10. \A m \in u .. S - 1 : tx'.empty[TxAt(m)] \/ m \in u + 1 .. u + n - 1
  <2> TAKE m \in u .. S - 1
  <2>1. m \in TxIndex /\ m >= u
    BY <1>1 DEF TxIndex
  <2>2. tx.empty[TxAt(m)]
    BY <1>2, <2>1, TxPlacesFree
  <2>3. QED
    BY <1>9, <2>1, <2>2
<1>11. \A m \in u + 1 .. u + n - 1 : ~tx'.empty[TxAt(m)]
  <2> TAKE m \in u + 1 .. u + n - 1
  <2>1. m \in TxIndex
    BY <1>1 DEF TxIndex
  <2>2. QED
    BY <1>9, <2>1
<1>12. ASSUME ring', dma'.tx_at # Stop PROVE \E p \in 0 .. u : Sent(p)'
  <2>1. PICK p \in 0 .. u : Sent(p)
    BY <1>2, <1>3, <1>12 DEF TxReady
  <2>2. \A m \in 0 .. p - 1 : m \in TxIndex /\ m \notin u + 1 .. u + n - 1
    BY <1>1 DEF TxIndex
  <2>3. \A m \in p .. u - 1 : m \in TxIndex
    BY <1>1 DEF TxIndex
  <2>4. \A m \in 0 .. p - 1 : tx'.empty[TxAt(m)]
    BY <1>9, <2>1, <2>2 DEF Sent
  <2>5. \A m \in p .. u - 1 : ~tx'.empty[TxAt(m)]
    BY <1>9, <2>1, <2>3 DEF Sent
  <2>6. Sent(p)'
    BY <1>2, <1>6, <1>7, <2>1, <2>4, <2>5 DEF Sent, TxAt
  <2>7. QED
    BY <2>6
<1>13. SmallRing'
  BY <1>2, <1>6, <1>7 DEF TxReady, SmallRing, TxAt
<1>14. QED
  BY <1>2, <1>3, <1>6, <1>7, <1>10, <1>11, <1>12, <1>13 DEF TxReady, TxAt

\* A packet handed over is in use.
LEMMA TxReadySend ==
    ASSUME TypeOK, ControlOK, TxReady, chip' = chip, XmitSend
    PROVE  TxReady'
<1> DEFINE u == Used(tx)
           S == TxSize
           n == softirq.n
           last == Slot(tx.curr, S, n - 1)
           sent == [tx EXCEPT !.empty[Slot(tx.curr, S, 0)] = FALSE,
                              !.skb[last] = TRUE,
                              !.curr = (@ + n) % Wrap]
<1>1. /\ S \in Nat \ {0} /\ u \in Nat /\ u <= S /\ tx.dirty \in Int /\ tx \in TxRing
      /\ DescsPerPacket \in Nat /\ n \in Nat /\ S - u >= n /\ n >= 1 /\ softirq.at = "xmit"
      /\ Size(S) /\ Counters(tx) /\ Wrap \in Nat /\ u + n < Wrap
  <2>1. softirq.at = "xmit" /\ queue = "running"
    BY DEF XmitSend, TxReady
  <2>2. DescsPerPacket \in Nat /\ TxSize - Used(tx) >= DescsPerPacket /\ Size(S)
    BY <2>1, TypeNow, Sizes DEF TxReady
  <2>3. n \in 1 .. DescsPerPacket
    BY <2>1 DEF ControlOK
  <2>4. S \in Nat \ {0} /\ u \in Nat /\ u <= S /\ tx.dirty \in Int /\ tx \in TxRing /\ Counters(tx) /\ Wrap \in Nat
    BY TypeNow, CountersFact, TxPlacesFree
  <2> HIDE DEF n, u
  <2>5. S - u >= n /\ n >= 1 /\ n \in Nat /\ u + n < Wrap
    BY <2>2, <2>3, <2>4 DEF Size, u
  <2>6. QED
    BY <2>1, <2>2, <2>4, <2>5
<1>2. /\ TxIndex' = TxIndex /\ TxSize' = TxSize /\ DescsPerPacket' = DescsPerPacket
      /\ UNCHANGED <<ring, rtnl, step>> /\ queue = "running" /\ ring /\ rtnl = "free" /\ step = "none"
      /\ softirq'.at = "none"
  BY <1>1, SameChip DEF XmitSend, workVars, NoSoftirq, TxReady, ControlOK
<1>3. /\ tx' = sent /\ queue' = (IF QueueFull(Used(sent)) THEN "stopped" ELSE queue)
      /\ bql' = (IF bql < S THEN bql + 1 ELSE bql) /\ dma' = [dma EXCEPT !.tx_on = TRUE]
  BY DEF XmitSend
<1>4. /\ tx'.curr = (tx.curr + n) % Wrap /\ tx'.dirty = tx.dirty
      /\ tx'.empty = [tx.empty EXCEPT ![Slot(tx.curr, S, 0)] = FALSE]
      /\ tx'.skb = [tx.skb EXCEPT ![last] = TRUE]
      /\ dma'.tx_at = dma.tx_at /\ dma'.tx_sent = dma.tx_sent
  BY <1>1, <1>3, TypeNow DEF TxRing, Dma
<1>5. Used(tx') = u + n
  BY <1>1, <1>4, UsedMore
<1>6. queue' = (IF QueueFull(u + n) THEN "stopped" ELSE "running")
  BY <1>2, <1>3, <1>5
<1> HIDE DEF sent
<1>7. Slot(tx.curr, S, 0) = TxAt(u) /\ last = TxAt(u + n - 1)
  <2>1. n - 1 \in Nat /\ 0 \in Nat /\ u + (n - 1) = u + n - 1 /\ u + 0 = u
    BY <1>1
  <2>2. QED
    BY <2>1, FillPlaces
<1> HIDE DEF n, last
<1>8. /\ u \in TxIndex /\ u + n - 1 \in TxIndex /\ TxAt(u) \in TxIndex /\ TxAt(u + n - 1) \in TxIndex
  <2>1. u \in TxIndex /\ u + n - 1 \in TxIndex
    BY <1>1 DEF TxIndex
  <2>2. QED
    BY <1>1, <2>1, TxPlacesNow
<1>9. \A m \in TxIndex : /\ m \in Int /\ TxAt(m) \in TxIndex
                         /\ tx'.empty[TxAt(m)] <=> tx.empty[TxAt(m)] /\ m # u
                         /\ tx'.skb[TxAt(m)] <=> tx.skb[TxAt(m)] \/ m = u + n - 1
  <2> TAKE m \in TxIndex
  <2>1. /\ m \in Int /\ TxAt(m) \in TxIndex /\ (TxAt(m) = TxAt(u) => m = u)
        /\ (TxAt(m) = TxAt(u + n - 1) => m = u + n - 1)
    BY <1>1, <1>8, TxPlacesNow
  <2>2. tx.empty \in [TxIndex -> BOOLEAN] /\ tx.skb \in [TxIndex -> BOOLEAN]
    BY <1>1 DEF TxRing
  <2>3. QED
    BY <1>4, <1>7, <1>8, <2>1, <2>2
<1>10. TxWindow' = {TxAt(m) : m \in 0 .. u + n - 1}
  <2>1. TxWindow' = {Slot(tx.dirty, S, m) : m \in 0 .. Used(tx') - 1}
    BY <1>2, <1>4 DEF TxWindow
  <2> HIDE DEF u
  <2>2. Used(tx') - 1 = u + n - 1
    BY <1>1, <1>5
  <2>3. QED
    BY <2>1, <2>2 DEF TxAt
<1>11. \A i \in TxIndex : tx'.skb[i] => i \in TxWindow'
  <2> SUFFICES ASSUME NEW i \in TxIndex, tx'.skb[i] PROVE i \in TxWindow'
    OBVIOUS
  <2>1. PICK m \in TxIndex : i = TxAt(m)
    BY <1>1, TxPlacesNow
  <2>2. tx.skb[TxAt(m)] \/ m = u + n - 1
    BY <1>9, <2>1
  <2>3. m >= u => ~tx.skb[TxAt(m)]
    BY TxPlacesFree
  <2>4. m \in 0 .. u + n - 1
    BY <1>1, <2>2, <2>3 DEF TxIndex
  <2>5. QED
    BY <1>10, <2>1, <2>4
<1>12. bql' = Packets(TxIndex)'
  <2> DEFINE A == {i \in TxIndex : tx.skb[i]}
             B == {i \in TxIndex' : tx'.skb[i]}
  <2>1. B = A \cup {last} /\ last \notin A
    <3>1. tx.skb \in [TxIndex -> BOOLEAN] /\ last \in TxIndex
      BY <1>1, <1>7, <1>8 DEF TxRing
    <3>2. ~tx.skb[last]
      <4>1. u + n - 1 >= u
        BY <1>1
      <4>2. QED
        BY <1>7, <1>8, <4>1, TxPlacesFree
    <3>3. QED
      BY <1>2, <1>4, <3>1, <3>2
  <2>2. IsFiniteSet(A) /\ Cardinality(A) = bql
    BY PacketsType DEF TxReady, Packets
  <2>3. Cardinality(B) = bql + 1
    <3> HIDE DEF A, B
    <3>1. QED
      BY <2>1, <2>2, FS_AddElement
  <2>4. Cardinality(B) <= S
    <3>1. IsFiniteSet(TxIndex) /\ Cardinality(TxIndex) = S
      <4>1. 0 \in Int /\ S - 1 \in Int /\ (0 > S - 1 => S = 0) /\ S - 1 - 0 + 1 = S
        BY <1>1
      <4>2. IsFiniteSet(0 .. S - 1) /\ Cardinality(0 .. S - 1) = IF 0 > S - 1 THEN 0 ELSE S - 1 - 0 + 1
        BY <4>1, FS_Interval
      <4>3. QED
        BY <4>1, <4>2 DEF TxIndex
    <3>2. B \subseteq TxIndex
      BY <1>2
    <3> HIDE DEF B
    <3>3. QED
      BY <3>1, <3>2, FS_Subset
  <2>5. bql \in Nat
    BY TypeNow
  <2>6. bql' = bql + 1
    <3> HIDE DEF B
    <3>1. QED
      BY <1>1, <1>3, <2>3, <2>4, <2>5
  <2>7. QED
    BY <2>3, <2>6 DEF Packets
<1>13. queue' = "running" => S - (u + n) >= DescsPerPacket
  BY <1>1, <1>6 DEF QueueFull
<1>14. \A m \in u + n .. S - 1 : tx'.empty[TxAt(m)]
  <2> TAKE m \in u + n .. S - 1
  <2>1. m \in TxIndex /\ m \in u .. S - 1 /\ m # u /\ m \notin u + 1 .. u + softirq.n - 1
    BY <1>1 DEF TxIndex, n
  <2>2. tx.empty[TxAt(m)]
    BY <2>1 DEF TxReady
  <2>3. QED
    BY <1>9, <2>1, <2>2
<1>15. ASSUME ring', dma'.tx_at # Stop PROVE \E p \in 0 .. u + n : Sent(p)'
  <2>1. PICK p \in 0 .. u : Sent(p)
    BY <1>2, <1>4, <1>15 DEF TxReady
  <2>2. ASSUME NEW m \in 0 .. p - 1 PROVE tx'.empty[TxAt(m)]
    <3>1. m \in TxIndex /\ m # u
      BY <1>1 DEF TxIndex
    <3>2. QED
      BY <1>9, <2>1, <3>1 DEF Sent
  <2>3. ASSUME NEW m \in p .. u + n - 1 PROVE ~tx'.empty[TxAt(m)]
    <3>1. m \in TxIndex /\ (m = u \/ m \in p .. u - 1 \/ m \in u + 1 .. u + softirq.n - 1)
      BY <1>1 DEF TxIndex, n
    <3>2. m \in u + 1 .. u + softirq.n - 1 => ~tx.empty[TxAt(m)]
      BY <1>1 DEF TxReady
    <3>3. m \in p .. u - 1 => ~tx.empty[TxAt(m)]
      BY <2>1 DEF Sent
    <3>4. QED
      BY <1>9, <3>1, <3>2, <3>3
  <2>4. dma'.tx_at = TxAt(p) /\ dma'.tx_sent >= p
    BY <1>4, <2>1 DEF Sent
  <2>5. Sent(p)'
    <3>1. \A m \in p .. Used(tx') - 1 : ~tx'.empty[TxAt(m)]
      BY <1>1, <1>5, <2>3
    <3>2. QED
      BY <1>2, <1>4, <2>2, <2>4, <3>1 DEF Sent, TxAt
  <2>6. p \in 0 .. u + n
    BY <1>1
  <2>7. QED
    BY <2>5, <2>6
<1>16. SmallRing'
  <2>1. ASSUME S = 2 * DescsPerPacket PROVE queue' # "running" /\ \A m \in 0 .. u + n - 1 : tx'.skb[TxAt(m)] => m = u + n - 1
    <3>1. queue' # "running"
      BY <1>1, <1>6, <2>1 DEF QueueFull
    <3>2. u = 0
      BY <1>2, <2>1 DEF TxReady, SmallRing
    <3>3. ASSUME NEW m \in 0 .. u + n - 1, tx'.skb[TxAt(m)] PROVE m = u + n - 1
      <4>1. m \in TxIndex /\ m >= u
        BY <1>1, <3>2 DEF TxIndex
      <4>2. ~tx.skb[TxAt(m)]
        BY <4>1, TxPlacesFree
      <4>3. QED
        BY <1>9, <3>3, <4>1, <4>2
    <3>4. QED
      BY <3>1, <3>3
  <2>2. Used(tx') - 1 = u + n - 1
    <3> HIDE DEF u
    <3>1. QED
      BY <1>1, <1>5
  <2>3. ASSUME S = 2 * DescsPerPacket
        PROVE  queue' # "running" /\ \A m \in 0 .. Used(tx') - 1 : tx'.skb[TxAt(m)] => m = Used(tx') - 1
    BY <2>1, <2>2, <2>3
  <2>4. QED
    BY <1>2, <1>4, <2>3 DEF SmallRing, TxAt
<1>17. u + n <= S
  BY <1>1
<1>18. QED
  BY <1>2, <1>4, <1>5, <1>11, <1>12, <1>13, <1>14, <1>15, <1>16, <1>17 DEF TxReady, TxAt

\* A poll that wakes the queue leaves room for a packet in the ring: a quarter
\* of it is free, and in a ring for two packets all of it.
LEMMA TxReadyPoll ==
    ASSUME TypeOK, ControlOK, TxReady, chip' = chip, Poll
    PROVE  TxReady'
<1> DEFINE u == Used(tx)
           S == TxSize
           D == DescsPerPacket
           c == Cleaned
           gone == {Slot(tx.dirty, S, k) : k \in 0 .. c - 1}
<1>1. /\ S \in Nat \ {0} /\ u \in Nat /\ u <= S /\ tx.dirty \in Int /\ tx \in TxRing /\ D \in Nat \ {0}
      /\ Size(S) /\ Counters(tx) /\ (S = 2 * D \/ S >= 4 * D) /\ dma.tx_sent \in Int /\ bql \in Nat
  BY TypeNow, Sizes, CountersFact, TxPlacesFree DEF Dma
<1>2. /\ TxIndex' = TxIndex /\ TxSize' = TxSize /\ DescsPerPacket' = DescsPerPacket
      /\ UNCHANGED <<ring, rtnl, step>> /\ softirq.at = "none" /\ softirq'.at = "poll"
      /\ step # "enable"
  BY SameChip DEF Poll, SoftirqMayRun, NoSoftirq, ControlOK
<1>3. PICK stuck \in BOOLEAN : PollTx(stuck)
  BY DEF Poll
<1>4. /\ c \in 0 .. u
      /\ \A k \in 0 .. c - 1 : tx.empty[TxAt(k)]
      /\ c > 0 => tx.skb[TxAt(c - 1)]
  BY CleanedFact DEF TxAt
<1>5. /\ tx' = AfterClean(c) /\ bql' = Max({0, bql - Packets(gone)})
      /\ \/ c > 0 /\ Wakes((u - c) % Wrap)
         \/ queue' = queue
  BY <1>3 DEF PollTx
<1>6. dma'.tx_at = dma.tx_at /\ dma'.tx_on = dma.tx_on /\ dma'.tx_sent = Max({0, dma.tx_sent - c})
  BY TypeNow DEF Poll, Dma
<1>7. /\ tx'.curr = tx.curr /\ tx'.dirty = (tx.dirty + c) % Wrap /\ tx'.empty = tx.empty
      /\ tx'.skb = [i \in TxIndex |-> tx.skb[i] /\ i \notin gone]
  BY <1>1, <1>5 DEF AfterClean, TxRing
<1> HIDE DEF c, gone
<1>8. Used(tx') = u - c
  BY <1>1, <1>4, <1>7, UsedLess
<1>9. (u - c) % Wrap = u - c
  <2>1. u - c \in 0 .. Wrap - 1 /\ Wrap \in Nat \ {0}
    BY <1>1, <1>4, CountersFact
  <2>2. QED
    BY <2>1, ModSmall
<1> HIDE DEF u
<1>10. u - c \in Nat /\ u - c <= S /\ u - c <= u /\ c \in Nat /\ c <= S /\ c \in 0 .. S
  BY <1>1, <1>4
<1>11. \A n \in TxIndex : Before(n, c, S) \in TxIndex /\ Slot(tx'.dirty, S, n) = TxAt(Before(n, c, S))
  BY <1>1, <1>7, <1>10, NewPlace DEF TxIndex, TxAt
<1>12. \A m \in TxIndex : TxAt(m) \in TxIndex /\ (TxAt(m) \in gone <=> m < c)
  <2> TAKE m \in TxIndex
  <2>1. TxAt(m) \in TxIndex /\ m \in 0 .. S - 1
    BY <1>1, TxPlacesNow DEF u, TxIndex
  <2>2. Slot(tx.dirty, S, m) \in {Slot(tx.dirty, S, k) : k \in 0 .. c - 1} <=> m < c
    BY <1>1, <1>10, <2>1, InWindow
  <2>3. QED
    BY <2>1, <2>2 DEF TxAt, gone
<1>13. \A m \in TxIndex : tx'.skb[TxAt(m)] <=> tx.skb[TxAt(m)] /\ m >= c
  <2> TAKE m \in TxIndex
  <2>1. TxAt(m) \in TxIndex /\ (TxAt(m) \in gone <=> m < c)
    BY <1>12
  <2>2. tx'.skb[TxAt(m)] <=> tx.skb[TxAt(m)] /\ TxAt(m) \notin gone
    BY <1>7, <2>1
  <2>3. m \in Int /\ (m >= c <=> ~(m < c))
    BY <1>10 DEF TxIndex
  <2>4. QED
    BY <2>1, <2>2, <2>3
<1>14. \A i \in TxIndex : tx'.skb[i] => i \in TxWindow'
  <2> SUFFICES ASSUME NEW i \in TxIndex, tx'.skb[i] PROVE i \in TxWindow'
    OBVIOUS
  <2>1. PICK m \in TxIndex : i = TxAt(m)
    BY <1>1, TxPlacesNow DEF u
  <2>2. tx.skb[TxAt(m)] /\ m >= c
    BY <1>13, <2>1
  <2>3. m < u
    BY <1>1, <2>2, TxPlacesFree DEF u, TxIndex
  <2> DEFINE k == m - c
  <2>4. k \in 0 .. u - c - 1 /\ k \in Int /\ c + k = m /\ c \in Int
    BY <1>1, <1>10, <2>2, <2>3 DEF TxIndex
  <2> HIDE DEF k
  <2>5. Slot(tx'.dirty, S, k) = TxAt(m)
    BY <1>1, <1>7, <2>4, SlotMoved DEF TxAt
  <2>6. k \in 0 .. Used(tx') - 1
    BY <1>8, <2>4
  <2>7. QED
    BY <1>2, <2>1, <2>5, <2>6 DEF TxWindow
<1>15. bql' = Packets(TxIndex)'
  <2> DEFINE A == {i \in TxIndex : tx.skb[i]}
             B == {i \in gone : tx.skb[i]}
             C == {i \in TxIndex' : tx'.skb[i]}
  <2>1. gone \subseteq TxIndex
    <3> SUFFICES ASSUME NEW k \in 0 .. c - 1 PROVE Slot(tx.dirty, S, k) \in TxIndex
      BY DEF gone
    <3>1. k \in TxIndex
      BY <1>1, <1>10 DEF TxIndex
    <3>2. QED
      BY <1>12, <3>1 DEF TxAt
  <2>2. B \subseteq A /\ C = A \ B
    BY <1>2, <1>7, <2>1
  <2>3. IsFiniteSet(A) /\ Cardinality(A) = bql /\ Cardinality(A) \in Nat
    BY PacketsType DEF TxReady, Packets
  <2>4. Packets(gone) = Cardinality(B)
    BY DEF Packets
  <2> HIDE DEF A, B, C
  <2>5. A \cap B = B
    BY <2>2
  <2>6. Cardinality(C) = bql - Cardinality(B) /\ IsFiniteSet(C)
    BY <2>2, <2>3, <2>5, FS_Difference
  <2>7. Cardinality(C) \in Nat /\ Cardinality(B) \in Nat
    BY <2>2, <2>3, <2>6, FS_Subset, FS_CardinalityType
  <2> DEFINE x == bql - Cardinality(B)
  <2>8. x \in Nat /\ bql' = Max({0, x})
    BY <1>5, <2>4, <2>6, <2>7
  <2>9. Packets(TxIndex)' = x
    BY <2>6 DEF Packets, C
  <2> HIDE DEF x
  <2>10. QED
    BY <2>8, <2>9, MaxZero
<1>16. queue' = "running" => S - (u - c) >= D /\ (S = 2 * D => u - c = 0)
  <2>1. CASE c > 0 /\ Wakes((u - c) % Wrap)
    <3>1. u - c < (S * 3) \div 4
      BY <1>9, <2>1 DEF Wakes
    <3>2. ASSUME S = 2 * D PROVE u - c = 0
      <4>1. \A m \in 0 .. u - 1 : tx.skb[TxAt(m)] => m = u - 1
        BY <3>2 DEF TxReady, SmallRing, u
      <4>2. c - 1 \in 0 .. u - 1 /\ tx.skb[TxAt(c - 1)]
        BY <1>1, <1>4, <1>10, <2>1
      <4>3. c - 1 = u - 1
        BY <4>1, <4>2
      <4>4. QED
        BY <1>1, <1>10, <4>3
    <3>3. S >= 4 * D => S - (u - c) >= D
      BY <1>1, <1>10, <3>1
    <3>4. QED
      BY <1>1, <1>10, <3>2, <3>3
  <2>2. CASE queue' = queue
    <3>1. queue = "running" => S - u >= D /\ (S = 2 * D => u = 0)
      BY DEF TxReady, SmallRing, u
    <3>2. QED
      BY <1>1, <1>4, <1>10, <2>2, <3>1
  <2>3. QED
    BY <1>5, <2>1, <2>2
<1>17. \A m \in u - c .. S - 1 : tx'.empty[Slot(tx'.dirty, S, m)]
  <2> TAKE m \in u - c .. S - 1
  <2> DEFINE b == Before(m, c, S)
  <2>1. m \in TxIndex
    BY <1>1, <1>10 DEF TxIndex
  <2>2. b \in TxIndex /\ Slot(tx'.dirty, S, m) = TxAt(b)
    BY <1>11, <2>1
  <2>3. b >= u \/ b \in 0 .. c - 1
    BY <1>1, <1>10 DEF Before
  <2> HIDE DEF b
  <2>4. tx.empty[TxAt(b)]
    BY <1>2, <1>4, <2>2, <2>3, TxPlacesFree DEF u
  <2>5. QED
    BY <1>7, <2>2, <2>4
<1>18. ASSUME ring', dma'.tx_at # Stop, step' # "reset" PROVE \E p \in 0 .. u - c : Sent(p)'
  <2>1. PICK p \in 0 .. u : Sent(p)
    BY <1>2, <1>6, <1>18 DEF TxReady, u
  <2>2. c <= p
    <3> SUFFICES ASSUME p < c PROVE FALSE
      BY <1>10
    <3>1. p \in 0 .. c - 1 /\ p \in p .. u - 1
      BY <1>1, <1>10
    <3>2. QED
      BY <1>4, <2>1, <3>1 DEF Sent, u
  <2> DEFINE q == p - c
  <2>3. q \in 0 .. u - c /\ q \in Int /\ c \in Int /\ c + q = p
    BY <1>1, <1>10, <2>2
  <2> HIDE DEF q
  <2>4. \A m \in 0 .. u - c - 1 : m \in TxIndex /\ Before(m, c, S) = c + m /\ Slot(tx'.dirty, S, m) = TxAt(c + m)
    <3> TAKE m \in 0 .. u - c - 1
    <3>1. m \in TxIndex /\ Before(m, c, S) = c + m
      BY <1>1, <1>10 DEF TxIndex, Before
    <3>2. QED
      BY <1>11, <3>1
  <2>5. dma'.tx_at = Slot(tx'.dirty, S, q)
    <3>1. Slot(tx'.dirty, S, q) = TxAt(p)
      BY <1>1, <1>7, <2>3, SlotMoved DEF TxAt
    <3>2. QED
      BY <1>6, <2>1, <3>1 DEF Sent
  <2>6. \A m \in 0 .. q - 1 : tx'.empty[Slot(tx'.dirty, S, m)]
    <3> TAKE m \in 0 .. q - 1
    <3>1. m \in 0 .. u - c - 1 /\ c + m \in 0 .. p - 1
      BY <1>1, <1>10, <2>3
    <3>2. QED
      BY <1>7, <2>1, <2>4, <3>1 DEF Sent
  <2>7. \A m \in q .. u - c - 1 : ~tx'.empty[Slot(tx'.dirty, S, m)]
    <3> TAKE m \in q .. u - c - 1
    <3>1. m \in 0 .. u - c - 1 /\ c + m \in p .. u - 1
      BY <1>1, <1>10, <2>3
    <3>2. QED
      BY <1>7, <2>1, <2>4, <3>1 DEF Sent, u
  <2>8. dma'.tx_sent >= q
    <3> DEFINE x == dma.tx_sent - c
    <3>1. dma.tx_sent >= p
      BY <2>1 DEF Sent
    <3>2. x \in Int /\ x >= q /\ dma'.tx_sent = Max({0, x})
      BY <1>1, <1>6, <1>10, <2>3, <3>1
    <3> HIDE DEF x
    <3>3. QED
      BY <2>3, <3>2, MaxZero
  <2>9. SentNext(q)
    BY <1>8, <2>5, <2>6, <2>7, <2>8 DEF SentNext
  <2>10. PICK r \in 0 .. u - c : SentNext(r)
    BY <2>3, <2>9
  <2>11. Sent(r)'
    BY <1>2, <2>10 DEF Sent, SentNext, TxAt
  <2>12. QED
    BY <2>11
<1>19. ASSUME S = 2 * D, NEW m \in 0 .. u - c - 1, tx'.skb[Slot(tx'.dirty, S, m)] PROVE m = u - c - 1
  <2>1. m \in TxIndex /\ Before(m, c, S) = c + m /\ c + m \in 0 .. u - 1 /\ c + m \in Int
    BY <1>1, <1>10 DEF TxIndex, Before
  <2> DEFINE b == c + m
  <2>2. b \in TxIndex /\ Slot(tx'.dirty, S, m) = TxAt(b)
    BY <1>11, <2>1
  <2> HIDE DEF b
  <2>3. tx.skb[TxAt(b)]
    BY <1>13, <1>19, <2>2
  <2>4. b = u - 1
    BY <1>19, <2>1, <2>3 DEF TxReady, SmallRing, u, b
  <2>5. QED
    BY <1>1, <1>10, <2>1, <2>4 DEF b
<1>20. step \in {"adjust", "reset", "start"} => u - c = 0
  <2>1. step \in {"adjust", "reset", "start"} => u = 0
    BY DEF TxReady, u
  <2>2. QED
    BY <1>4, <1>10, <2>1
<1>21. step = "reset" => ~dma'.tx_on
  BY <1>6 DEF TxReady
<1>22. SmallRing'
  BY <1>2, <1>8, <1>16, <1>19 DEF SmallRing, TxAt
<1>23. QED
  BY <1>2, <1>8, <1>10, <1>14, <1>15, <1>16, <1>17, <1>18, <1>20, <1>21, <1>22 DEF TxReady, TxAt

\* Every step keeps what is to be sent in a row.
LEMMA TxReadyStep ==
    ASSUME TypeOK, TypeOK', ControlOK, EnginesOut, TxReady, trouble = {}, trouble' = {}, Next
    PROVE  TxReady'
<1>1. /\ chip' = chip /\ dma \in Dma /\ dma' \in Dma /\ dma.tx_sent \in Int /\ bql \in Nat
      /\ tx \in TxRing /\ tx.curr \in Int /\ tx.dirty \in Int /\ TxSize \in Nat \ {0}
      /\ Slot(0, TxSize, 0) = 0 /\ HasFastReset \in BOOLEAN
  <2>1. chip' = chip
    BY DEF Next
  <2>2. dma' \in Dma
    BY <2>1, SameChip DEF TypeOK
  <2>3. dma.tx_sent \in Int
    BY TypeNow DEF Dma
  <2>4. TxSize \in Nat \ {0}
    BY Sizes, TypeNow
  <2>5. Slot(0, TxSize, 0) = 0
    BY <2>4, ModSmall DEF Slot
  <2>6. tx \in TxRing /\ tx.curr \in Int /\ tx.dirty \in Int
    BY TypeNow, CountersFact
  <2>7. dma \in Dma /\ bql \in Nat /\ HasFastReset \in BOOLEAN
    BY TypeNow, Kinds
  <2>8. QED
    BY <2>1, <2>2, <2>3, <2>4, <2>5, <2>6, <2>7
<1>2. /\ Stopped(dma).tx_at = dma.tx_at /\ Stopped(dma).tx_sent = dma.tx_sent /\ ~Stopped(dma).tx_on
      /\ Started(dma).tx_at = dma.tx_at /\ Started(dma).tx_sent = dma.tx_sent /\ Started(dma).tx_on = dma.tx_on
      /\ Reset(dma).tx_at = 0 /\ Stopped(dma) \in Dma /\ Reset(dma) \in Dma
  <2>1. Stopped(dma) \in Dma /\ Reset(dma) \in Dma
    BY <1>1, DmaType
  <2>2. Reset(dma).tx_at = 0
    BY <1>1, ResetFields
  <2>3. /\ Stopped(dma).tx_at = dma.tx_at /\ Stopped(dma).tx_sent = dma.tx_sent /\ ~Stopped(dma).tx_on
        /\ Started(dma).tx_at = dma.tx_at /\ Started(dma).tx_sent = dma.tx_sent /\ Started(dma).tx_on = dma.tx_on
    BY <1>1, DmaFields
  <2>4. QED
    BY <2>1, <2>2, <2>3
\* What a step owes that leaves the ring alone, does not touch a packet that is
\* being filled in, and does not end with the rings just cleared.
<1>3. ASSUME tx' = tx, bql' = bql,
             queue' = "running" => queue = "running" \/ Used(tx) = 0 \/ ~QueueFull(Used(tx)),
             \/ softirq' = softirq /\ queue' = queue /\ ring' = ring /\ rtnl' = rtnl
             \/ softirq.at # "xmit" /\ softirq'.at # "xmit",
             ring' /\ dma'.tx_at # Stop =>
                ring /\ dma'.tx_at = dma.tx_at /\ dma'.tx_sent >= dma.tx_sent /\ step # "reset",
             step' = "enable" => step = "enable",
             step' \in {"enable", "adjust", "reset", "start"} => Used(tx) = 0,
             step' # "reset"
      PROVE  TxReady'
  <2>1. softirq'.at = "xmit" => softirq' = softirq /\ queue' = "running" /\ ring' /\ rtnl' = "free"
    BY <1>3 DEF TxReady
  <2>2. softirq.at = "xmit" => softirq'.at = "xmit"
    BY <1>3
  <2>3. QED
    BY <1>1, <1>3, <2>1, <2>2, TxReadyFrame
<1>4. step \in {"enable", "adjust", "reset", "start"} => Used(tx) = 0
  BY DEF TxReady
<1>5. ASSUME step # "reset", UNCHANGED <<tx, bql, queue, ring, rtnl, step>>,
             softirq' = softirq \/ (softirq.at # "xmit" /\ softirq'.at # "xmit"),
             dma'.tx_at = dma.tx_at /\ dma'.tx_sent = dma.tx_sent
      PROVE  TxReady'
  BY <1>1, <1>3, <1>4, <1>5
<1>6. ASSUME step = "reset", UNCHANGED <<tx, bql, queue, ring, rtnl, step>>,
             softirq' = softirq \/ (softirq.at # "xmit" /\ softirq'.at # "xmit"),
             dma'.tx_on = dma.tx_on
      PROVE  TxReady'
  <2>1. softirq'.at = "xmit" => softirq' = softirq /\ queue' = "running" /\ ring' /\ rtnl' = "free"
    BY <1>6 DEF TxReady
  <2>2. softirq.at = "xmit" => softirq'.at = "xmit"
    BY <1>6
  <2>3. ~dma'.tx_on
    BY <1>6 DEF TxReady
  <2>4. QED
    BY <1>1, <1>4, <1>6, <2>1, <2>2, <2>3, TxReadyFrame
<1>7. ASSUME Interrupt \/ PollStep \/ OomTimer \/ DmaReceive \/ DmaHang \/ TxTimeout \/ LinkWatch PROVE TxReady'
  <2>1. UNCHANGED <<tx, bql, queue, ring, rtnl, step>>
    BY <1>7 DEF Interrupt, PollStep, PollOom, PollStatus, PollEnable, OomTimer, DmaReceive, DmaHang, TxTimeout,
                LinkWatch, workVars
  <2>2. softirq' = softirq \/ (softirq.at # "xmit" /\ softirq'.at # "xmit")
    BY <1>7 DEF Interrupt, PollStep, PollOom, PollStatus, PollEnable, OomTimer, DmaReceive, DmaHang, TxTimeout,
                LinkWatch, NoSoftirq
  <2>3. dma'.tx_at = dma.tx_at /\ dma'.tx_sent = dma.tx_sent /\ dma'.tx_on = dma.tx_on
    BY <1>1, <1>7 DEF Interrupt, PollStep, PollOom, PollStatus, PollEnable, OomTimer, DmaReceive, DmaHang, TxTimeout,
                      LinkWatch, Dma
  <2>4. QED
    BY <1>5, <1>6, <2>1, <2>2, <2>3
<1>8. ASSUME NapiDisable PROVE TxReady'
  BY <1>1, <1>3, <1>8 DEF NapiDisable
<1>9. ASSUME RestartBegin PROVE TxReady'
  <2>1. softirq' = softirq /\ softirq.at # "xmit" /\ step = "none"
    BY <1>9 DEF RestartBegin, ProcessMayRun, NoSoftirq, ControlOK
  <2>2. QED
    BY <1>1, <1>3, <1>9, <2>1 DEF RestartBegin
<1>10. ASSUME RestartHwStop \/ RestartDmaStop PROVE TxReady'
  <2>1. dma'.tx_at = dma.tx_at /\ dma'.tx_sent = dma.tx_sent
    <3>1. dma' = Stopped(dma) \/ dma' = [dma EXCEPT !.rx_on = FALSE, !.tx_on = FALSE]
      BY <1>10 DEF RestartHwStop, RestartDmaStop
    <3>2. /\ [dma EXCEPT !.rx_on = FALSE, !.tx_on = FALSE].tx_at = dma.tx_at
          /\ [dma EXCEPT !.rx_on = FALSE, !.tx_on = FALSE].tx_sent = dma.tx_sent
      BY <1>1 DEF Dma
    <3>3. QED
      BY <1>2, <3>1, <3>2
  <2>2. QED
    BY <1>1, <1>3, <1>10, <2>1 DEF RestartHwStop, RestartDmaStop, At
<1>11. ASSUME RestartDmaClear PROVE TxReady'
  <2>1. dma'.tx_at = Stop
    BY <1>1, <1>11, DmaFields DEF RestartDmaClear
  <2>2. QED
    BY <1>3, <1>11, <2>1 DEF RestartDmaClear, At
<1>12. ASSUME StopBegin PROVE TxReady'
  <2>1. dma'.tx_at = Stop
    BY <1>1, <1>2, <1>12, DmaFields DEF StopBegin
  <2>2. softirq' = softirq /\ softirq.at # "xmit" /\ step' = "napi"
    BY <1>12 DEF StopBegin, ProcessMayRun, NoSoftirq
  <2>3. QED
    BY <1>3, <1>12, <2>1, <2>2 DEF StopBegin
<1>13. ASSUME Open \/ RestartAlloc \/ RingsCleanup PROVE TxReady'
  <2>1. tx' = FreshTx /\ bql' = 0 /\ softirq'.at # "xmit"
    BY <1>13 DEF Open, RestartAlloc, RingsCleanup, ProcessMayRun, NoSoftirq, At
  <2>2. dma'.tx_at = 0 \/ dma'.tx_at = Stop \/ ~ring'
    BY <1>1, <1>13 DEF Open, RestartAlloc, RingsCleanup, EnginesOut, At, Dma
  <2>3. step' # "reset"
    BY <1>13 DEF Open, RestartAlloc, RingsCleanup, ControlOK, workVars, At
  <2>4. /\ tx'.curr = tx'.dirty /\ tx'.curr = 0 /\ tx'.curr \in Int
        /\ \A i \in TxIndex : tx'.empty[i] /\ ~tx'.skb[i]
    BY <2>1 DEF FreshTx
  <2>5. QED
    BY <1>1, <2>1, <2>2, <2>3, <2>4, TxReadyEmpty
<1>14. ASSUME RestartEnable PROVE TxReady'
  <2>1. tx' = tx /\ bql' = bql /\ softirq' = softirq /\ softirq.at # "xmit" /\ step = "enable" /\ step' = "adjust"
    BY <1>14 DEF RestartEnable, NoSoftirq, At
  <2>2. Used(tx) = 0 /\ tx.curr = 0
    BY <2>1 DEF TxReady
  <2>3. bql = 0 /\ tx.curr = tx.dirty /\ \A i \in TxIndex : tx.empty[i] /\ ~tx.skb[i]
    BY <2>1, <2>2, TxEmptied
  <2>4. dma'.tx_at = 0
    BY <1>1, <1>14 DEF RestartEnable, Dma
  <2>5. QED
    BY <1>1, <2>1, <2>2, <2>3, <2>4, TxReadyEmpty
<1>15. ASSUME RestartReset PROVE TxReady'
  <2>1. /\ tx' = [tx EXCEPT !.curr = 0, !.dirty = 0] /\ bql' = 0 /\ softirq' = softirq /\ softirq.at # "xmit"
        /\ step = "reset" /\ step' = "start" /\ dma' = Reset(dma)
    BY <1>15 DEF RestartReset, NoSoftirq, At
  <2>2. \A i \in TxIndex : tx.empty[i] /\ ~tx.skb[i]
    BY <1>4, <2>1, TxEmptied
  <2>3. tx'.curr = 0 /\ tx'.dirty = 0 /\ tx'.empty = tx.empty /\ tx'.skb = tx.skb /\ tx'.curr \in Int
    BY <1>1, <2>1 DEF TxRing
  <2>4. QED
    BY <1>1, <1>2, <2>1, <2>2, <2>3, TxReadyEmpty
<1>16. ASSUME RestartStart PROVE TxReady'
  <2>1. /\ step = "start" /\ step' = "none" /\ softirq' = softirq /\ softirq.at # "xmit"
        /\ dma' = Started(dma) /\ UNCHANGED <<tx, bql, ring>>
    BY <1>16 DEF RestartStart, NoSoftirq, At
  <2>2. QED
    BY <1>1, <1>2, <1>3, <1>4, <2>1
<1>17. ASSUME RestartAdjust PROVE TxReady'
  <2>1. step = "adjust" /\ softirq' = softirq /\ softirq.at # "xmit" /\ ring' = ring
    BY <1>17 DEF RestartAdjust, NoSoftirq, At
  <2>2. CASE link /\ HasFastReset
    <3>1. /\ dma' = Stopped(dma) /\ tx' = Flushed /\ bql' = Max({0, bql - Packets(TxWindow)}) /\ step' = "reset"
      BY <1>17, <2>2 DEF RestartAdjust
    <3>2. /\ Flushed.curr = tx.curr /\ Flushed.dirty = tx.curr /\ bql = 0
          /\ \A i \in TxIndex : Flushed.empty[i] /\ ~Flushed.skb[i]
      BY <1>4, <2>1, TxEmptied
    <3>3. bql' = 0
      <4>1. Used(tx) \in Nat /\ Used(tx) <= TxSize
        BY TxPlacesFree
      <4>2. Packets(TxWindow) \in Nat
        BY <4>1, TxPlacesNow, PacketsType
      <4> DEFINE x == 0 - Packets(TxWindow)
      <4>3. x \in Int /\ ~(x > 0) /\ bql' = Max({0, x})
        BY <3>1, <3>2, <4>2
      <4> HIDE DEF x
      <4>4. QED
        BY <4>3, MaxZero
    <3>4. QED
      BY <1>1, <1>2, <2>1, <3>1, <3>2, <3>3, TxReadyEmpty
  <2>3. CASE ~(link /\ HasFastReset)
    <3>1. UNCHANGED <<dma, tx, bql, queue>> /\ step' \in {"start", "none"}
      BY <1>17, <2>3 DEF RestartAdjust
    <3>2. QED
      BY <1>1, <1>3, <1>4, <2>1, <3>1
  <2>4. QED
    BY <2>2, <2>3
<1>18. ASSUME LinkChange PROVE TxReady'
  <2>1. /\ softirq' = softirq /\ softirq.at # "xmit" /\ step \in {"none", "napi", "alloc"}
        /\ step' = step /\ ring' = ring /\ rtnl' = rtnl
    BY <1>18 DEF LinkChange, ProcessMayRun, NoSoftirq
  <2>2. CASE link
    <3>1. dma' = Stopped(dma) /\ UNCHANGED <<tx, bql, queue>>
      BY <1>18, <2>2 DEF LinkChange, LinkDown
    <3>2. QED
      BY <1>1, <1>2, <1>3, <2>1, <3>1
  <2>3. CASE ~link /\ HasFastReset
    <3>1. /\ tx' = [Flushed EXCEPT !.curr = 0, !.dirty = 0] /\ bql' = 0 /\ dma' = Started(Reset(dma))
      BY <1>18, <2>3 DEF LinkChange, LinkUp
    <3>2. \A i \in TxIndex : Flushed.empty[i] /\ ~Flushed.skb[i]
      BY <2>1, TxEmptied
    <3>3. /\ tx'.curr = 0 /\ tx'.dirty = 0 /\ tx'.curr \in Int
          /\ tx'.empty = Flushed.empty /\ tx'.skb = Flushed.skb
      BY <1>1, <3>1 DEF Flushed, TxRing
    <3>4. dma'.tx_at = 0
      BY <1>2, <3>1, DmaFields
    <3>5. QED
      BY <1>1, <2>1, <3>1, <3>2, <3>3, <3>4, TxReadyEmpty
  <2>4. CASE ~link /\ ~HasFastReset
    <3>1. dma' = Started(dma) /\ UNCHANGED <<tx, bql>>
      BY <1>18, <2>4 DEF LinkChange, LinkUp
    <3>2. ~QueueFull(Used(tx))
      BY <1>18, <2>4 DEF LinkChange, LinkUp
    <3>3. QED
      BY <1>1, <1>2, <1>3, <2>1, <3>1, <3>2
  <2>5. QED
    BY <2>2, <2>3, <2>4
<1>19. ASSUME NEW n \in 1 .. DescsPerPacket, XmitFill(n) PROVE TxReady'
  BY <1>1, <1>19, TxReadyFill
<1>20. ASSUME XmitSend \/ Poll \/ DmaTransmit PROVE TxReady'
  BY <1>1, <1>20, TxReadySend, TxReadyPoll, TxReadyTransmit
<1>21. ~PollOutOfRing /\ ~XmitNoRing /\ ~RestartAllocFails
  BY DEF PollOutOfRing, XmitNoRing, RestartAllocFails
<1>22. QED
  BY <1>7, <1>8, <1>9, <1>10, <1>11, <1>12, <1>13, <1>14, <1>15, <1>16, <1>17, <1>18, <1>19, <1>20, <1>21
     DEF Next, Step, Driver, Kernel, Restart

-----------------------------------------------------------------------------
(***************************************************************************)
(* Somebody always looks at the rings.                                     *)
(***************************************************************************)
LEMMA ListeningStep ==
    ASSUME TypeOK, ControlOK, Listening, trouble = {}, trouble' = {}, Next
    PROVE  Listening'
<1>1. /\ chip' = chip /\ dma \in Dma /\ napi \in NapiState /\ TxSize \in Nat \ {0} /\ RxSize \in Nat \ {0}
      /\ Stop \notin TxIndex /\ Stop \notin RxIndex /\ Stop # 0
  BY TypeNow, Sizes, StopAssumption DEF Next, TxIndex, RxIndex
<1>2. /\ Stopped(dma).tx_at = dma.tx_at /\ Stopped(dma).rx_at = dma.rx_at
      /\ Started(dma).tx_at = dma.tx_at /\ Started(dma).rx_at = dma.rx_at /\ Started(dma).int_poll = TRUE
      /\ Reset(dma).tx_at = 0 /\ Reset(dma).rx_at = dma.rx_at
      /\ Started(Reset(dma)).tx_at = 0 /\ Started(Reset(dma)).rx_at = dma.rx_at
      /\ Started(Reset(dma)).int_poll = TRUE
  <2>1. Reset(dma) \in Dma
    BY <1>1, DmaType
  <2>2. Reset(dma).tx_at = 0 /\ Reset(dma).rx_at = dma.rx_at
    BY <1>1, ResetFields
  <2>3. /\ Started(Reset(dma)).tx_at = Reset(dma).tx_at /\ Started(Reset(dma)).rx_at = Reset(dma).rx_at
        /\ Started(Reset(dma)).int_poll = TRUE
    BY <2>1, DmaFields
  <2>4. /\ Stopped(dma).tx_at = dma.tx_at /\ Stopped(dma).rx_at = dma.rx_at
        /\ Started(dma).tx_at = dma.tx_at /\ Started(dma).rx_at = dma.rx_at /\ Started(dma).int_poll = TRUE
    BY <1>1, DmaFields
  <2>5. QED
    BY <2>2, <2>3, <2>4
<1>3. ASSUME Interrupt \/ OomTimer PROVE Listening'
  <2>1. napi'.state = "idle" => step = "napi"
    BY <1>1, <1>3, NapiScheduled DEF Interrupt, OomTimer
  <2>2. dma'.tx_at = dma.tx_at /\ dma'.rx_at = dma.rx_at /\ UNCHANGED <<up, step>>
    BY <1>1, <1>3 DEF Interrupt, OomTimer, Dma, netVars, workVars
  <2>3. QED
    BY <2>1, <2>2 DEF Listening
<1>4. ASSUME PollOom \/ PollEnable PROVE Listening'
  <2>1. dma'.tx_at = dma.tx_at /\ dma'.rx_at = dma.rx_at /\ UNCHANGED <<up, step>>
    BY <1>1, <1>4 DEF PollOom, PollEnable, Dma, netVars, workVars
  <2>2. oom_timer' \/ dma'.int_poll
    BY <1>1, <1>4 DEF PollOom, PollEnable, Dma
  <2>3. QED
    BY <2>1, <2>2 DEF Listening
<1>5. ASSUME PollStatus PROVE Listening'
  <2>1. dma'.tx_at = dma.tx_at /\ dma'.rx_at = dma.rx_at /\ UNCHANGED <<up, step>>
    BY <1>1, <1>5 DEF PollStatus, Dma, netVars, workVars
  <2>2. step = "none" /\ napi'.state = "idle" => softirq'.at = "enable"
    BY <1>5 DEF PollStatus, ControlOK, NoSoftirq
  <2>3. QED
    BY <2>1, <2>2 DEF Listening
<1>6. ASSUME Poll PROVE Listening'
  <2>1. dma'.tx_at = dma.tx_at /\ dma'.rx_at = dma.rx_at /\ UNCHANGED <<up, step, napi>> /\ napi.state = "sched"
    BY <1>1, <1>6 DEF Poll, Dma, netVars
  <2>2. QED
    BY <2>1 DEF Listening
<1>7. ASSUME XmitSend \/ (\E n \in 1 .. DescsPerPacket : XmitFill(n)) \/ TxTimeout \/ LinkWatch \/ DmaHang
             \/ DmaTransmit \/ DmaReceive
      PROVE  Listening'
  <2>1. UNCHANGED <<up, step, napi, link, oom_timer>>
    BY <1>7 DEF XmitSend, XmitFill, TxTimeout, LinkWatch, DmaHang, DmaTransmit, DmaReceive, netVars, workVars
  <2>2. softirq.at # "enable"
        \/ softirq' = softirq
    BY <1>7 DEF XmitSend, XmitFill, TxTimeout, LinkWatch, DmaHang, DmaTransmit, DmaReceive, SoftirqMayRun, NoSoftirq
  <2>3. /\ dma'.int_poll = dma.int_poll
        /\ dma'.tx_at = dma.tx_at \/ dma'.tx_at = Slot(dma.tx_at, TxSize, 1)
        /\ dma'.rx_at = dma.rx_at \/ dma'.rx_at = Slot(dma.rx_at, RxSize, 1)
    BY <1>1, <1>7 DEF XmitSend, XmitFill, TxTimeout, LinkWatch, DmaHang, DmaTransmit, DmaReceive, Dma
  <2>4. /\ dma.tx_at # Stop => Slot(dma.tx_at, TxSize, 1) # Stop
        /\ dma.rx_at # Stop => Slot(dma.rx_at, RxSize, 1) # Stop
    <3>1. dma.tx_at # Stop => dma.tx_at \in Int
      BY <1>1 DEF Dma, TxIndex
    <3>2. dma.rx_at # Stop => dma.rx_at \in Int
      BY <1>1 DEF Dma, RxIndex
    <3>3. 1 \in Int
      OBVIOUS
    <3>4. QED
      BY <1>1, <3>1, <3>2, <3>3, SlotIn DEF TxIndex, RxIndex
  <2>5. QED
    BY <2>1, <2>2, <2>3, <2>4 DEF Listening
<1>8. ASSUME NapiDisable \/ RingsCleanup \/ RestartAlloc \/ RestartDmaClear PROVE Listening'
  BY <1>8 DEF NapiDisable, RingsCleanup, RestartAlloc, RestartDmaClear, At, netVars, Listening, ControlOK
<1>9. ASSUME StopBegin PROVE Listening'
  BY <1>9 DEF StopBegin, Listening
<1>10. ASSUME RestartBegin \/ RestartHwStop \/ RestartDmaStop PROVE Listening'
  <2>1. dma'.tx_at = dma.tx_at /\ dma'.rx_at = dma.rx_at
    <3>1. dma' = dma \/ dma' = Stopped(dma) \/ dma' = [dma EXCEPT !.rx_on = FALSE, !.tx_on = FALSE]
      BY <1>10 DEF RestartBegin, RestartHwStop, RestartDmaStop
    <3>2. [dma EXCEPT !.rx_on = FALSE, !.tx_on = FALSE].tx_at = dma.tx_at
          /\ [dma EXCEPT !.rx_on = FALSE, !.tx_on = FALSE].rx_at = dma.rx_at
      BY <1>1 DEF Dma
    <3>3. QED
      BY <1>2, <3>1, <3>2
  <2>2. step \in {"none", "hw_stop", "dma_stop"} /\ step' # "none" /\ up' = up
    BY <1>10 DEF RestartBegin, RestartHwStop, RestartDmaStop, At, ControlOK, netVars
  <2>3. QED
    BY <2>1, <2>2 DEF Listening
<1>11. ASSUME Open PROVE Listening'
  <2>1. dma'.tx_at = 0 /\ dma'.rx_at = 0
    BY <1>1, <1>11 DEF Open, Dma
  <2>2. ~link'
    BY <1>11 DEF Open, ControlOK
  <2>3. QED
    BY <1>1, <2>1, <2>2 DEF Listening
<1>12. ASSUME RestartEnable PROVE Listening'
  <2>1. dma'.tx_at = 0 /\ dma'.rx_at = 0 /\ step' # "none"
    BY <1>1, <1>12 DEF RestartEnable, Dma
  <2>2. QED
    BY <1>1, <2>1 DEF Listening
<1>13. ASSUME RestartAdjust PROVE Listening'
  <2>1. dma' = dma \/ dma' = Stopped(dma)
    BY <1>13 DEF RestartAdjust
  <2>2. step = "adjust" /\ up' = up /\ link' = link /\ (step' = "none" => ~link)
    BY <1>13 DEF RestartAdjust, At, netVars
  <2>3. QED
    BY <1>2, <2>1, <2>2 DEF Listening
<1>14. ASSUME RestartReset PROVE Listening'
  BY <1>1, <1>2, <1>14 DEF RestartReset, At, netVars, Listening
<1>15. ASSUME RestartStart PROVE Listening'
  BY <1>1, <1>2, <1>15 DEF RestartStart, At, Listening
<1>16. ASSUME LinkChange PROVE Listening'
  <2>1. UNCHANGED <<up, step>>
    BY <1>16 DEF LinkChange
  <2>2. CASE link
    BY <1>2, <1>16, <2>1, <2>2 DEF LinkChange, LinkDown, Listening
  <2>3. CASE ~link
    <3>1. dma' = Started(dma) \/ dma' = Started(Reset(dma))
      BY <1>16, <2>3 DEF LinkChange, LinkUp
    <3>2. QED
      BY <1>1, <1>2, <2>1, <3>1 DEF Listening
  <2>4. QED
    BY <2>2, <2>3
<1>17. ~PollOutOfRing /\ ~XmitNoRing /\ ~RestartAllocFails
  BY DEF PollOutOfRing, XmitNoRing, RestartAllocFails
<1>18. QED
  BY <1>3, <1>4, <1>5, <1>6, <1>7, <1>8, <1>9, <1>10, <1>11, <1>12, <1>13, <1>14, <1>15, <1>16, <1>17
     DEF Next, Step, Driver, Kernel, PollStep, Restart

-----------------------------------------------------------------------------
(***************************************************************************)
(* The invariant holds from the start on.                                  *)
(***************************************************************************)
LEMMA InvInit == Init => Inv
<1> SUFFICES ASSUME Init PROVE Inv
  OBVIOUS
<1>1. /\ TxSize \in Nat \ {0} /\ RxSize \in Nat \ {0} /\ DescsPerPacket \in Nat \ {0} /\ Wrap \in Nat \ {0}
      /\ TxSize = 2 * DescsPerPacket \/ TxSize >= 4 * DescsPerPacket
      /\ MaxLinkChanges \in Nat /\ Weight \in Nat \ {0}
  BY Sizes, Kinds, SizeAssumption DEF Init, Size
<1>2. 0 \in TxIndex /\ 0 \in RxIndex /\ 0 \in 0 .. Wrap - 1 /\ 0 \in 0 .. TxSize /\ 0 \in 0 .. RxSize
  BY <1>1 DEF TxIndex, RxIndex
<1>3. TypeOK
  <2>1. tx \in TxRing /\ rx \in RxRing /\ dma \in Dma
    BY <1>2 DEF Init, FreshTx, FreshRx, TxRing, RxRing, Dma
  <2>2. softirq \in Softirq
    BY <1>1 DEF Init, NoSoftirq, Softirq
  <2>3. napi \in [state : {"disabled", "idle", "sched"}, missed : BOOLEAN]
    BY DEF Init
  <2>4. /\ chip \in Chips /\ ring \in BOOLEAN /\ hung \in BOOLEAN /\ queue \in {"running", "stopped"}
        /\ rtnl \in {"free", "restart", "stop"} /\ step \in Place
        /\ restart_work \in BOOLEAN /\ oom_timer \in BOOLEAN
        /\ up \in BOOLEAN /\ link \in BOOLEAN /\ carrier \in BOOLEAN /\ active \in BOOLEAN
        /\ trouble \subseteq Trouble
    BY DEF Init, Place
  <2>5. bql \in 0 .. TxSize /\ link_changes \in 0 .. MaxLinkChanges
    BY <1>1 DEF Init
  <2>6. QED
    BY <2>1, <2>2, <2>3, <2>4, <2>5 DEF TypeOK
<1>4. ControlOK /\ EnginesOut
  BY DEF Init, ControlOK, EnginesOut, NoSoftirq
<1>5. Used(tx) = 0 /\ Used(rx) = 0
  BY <1>1, UsedZero DEF Init, FreshTx, FreshRx
<1>6. RxWindow = {} /\ TxWindow = {}
  BY <1>5 DEF RxWindow, TxWindow
<1>7. RxOK
  BY <1>1, <1>5, <1>6 DEF Init, RxOK, RxRingOK, FreshRx
<1>8. RxReady
  BY <1>5, <1>6 DEF Init, RxReady
<1>9. TxReady
  <2>1. \A i \in TxIndex : tx.empty[i] /\ ~tx.skb[i]
    BY DEF Init, FreshTx
  <2>2. \A m \in 0 .. TxSize - 1 : TxAt(m) \in TxIndex
    <3>1. tx.dirty \in Int
      BY DEF Init, FreshTx
    <3> TAKE m \in 0 .. TxSize - 1
    <3>2. m \in Int
      OBVIOUS
    <3>3. QED
      BY <1>1, <3>1, <3>2, SlotIn DEF TxAt, TxIndex
  <2>3. Packets(TxIndex) = 0
    <3>1. {i \in TxIndex : tx.skb[i]} = {}
      BY <2>1
    <3>2. QED
      BY <3>1, FS_EmptySet DEF Packets
  <2>4. SmallRing
    BY <1>5 DEF SmallRing
  <2>5. QED
    BY <1>1, <1>5, <2>1, <2>2, <2>3, <2>4 DEF Init, TxReady, NoSoftirq
<1>10. Listening
  BY DEF Init, Listening
<1>11. QED
  BY <1>3, <1>4, <1>7, <1>8, <1>9, <1>10 DEF Inv

\* Every step keeps the invariant.
LEMMA InvNext == Inv /\ [Next]_vars => Inv'
<1> SUFFICES ASSUME Inv, [Next]_vars PROVE Inv'
  OBVIOUS
<1>1. TypeOK /\ ControlOK /\ EnginesOut /\ RxOK
  BY DEF Inv
<1>2. CASE Next
  <2>1. TypeOK'
    BY <1>1, <1>2, TypeStep DEF RxOK
  <2>2. trouble \subseteq trouble'
    BY <1>1, <1>2, TroubleStays
  <2>3. ControlOK'
    BY <1>1, <1>2, ControlSoftirq, ControlProcess DEF Next, Step, Driver, Kernel
  <2>4. EnginesOut'
    BY <1>1, <1>2, EnginesDma, EnginesProcess DEF Next, Step, Driver, Kernel
  <2>5. RxOK'
    BY <1>1, <1>2, RxStep
  <2>6. ASSUME trouble' = {} PROVE RxReady' /\ TxReady' /\ Listening'
    <3>1. trouble = {}
      BY <2>2, <2>6
    <3>2. RxReady /\ TxReady /\ Listening
      BY <3>1 DEF Inv
    <3>3. RxReady'
      BY <1>1, <1>2, <2>1, <2>6, <3>1, <3>2, RxReadyStep
    <3>4. TxReady'
      BY <1>1, <1>2, <2>1, <2>6, <3>1, <3>2, TxReadyStep
    <3>5. Listening'
      BY <1>1, <1>2, <2>6, <3>1, <3>2, ListeningStep
    <3>6. QED
      BY <3>3, <3>4, <3>5
  <2>7. QED
    BY <2>1, <2>3, <2>4, <2>5, <2>6 DEF Inv
<1>3. CASE UNCHANGED vars
  <2>1. UNCHANGED <<TxSize, RxSize, DescsPerPacket, TxIndex, RxIndex, HasFastReset>>
    BY <1>3, SameChip DEF vars
  <2>2. TypeOK' /\ ControlOK' /\ EnginesOut'
    BY <1>1, <1>3, SameChip DEF vars, netVars, workVars, TypeOK, ControlOK, EnginesOut
  <2>3. RxOK'
    BY <1>1, <1>3, <2>1 DEF vars, RxOK, RxRingOK, RxWindow
  <2>4. RxReady => RxReady'
    BY <1>3, <2>1 DEF vars, netVars, workVars, RxReady, RxWindow, Received, RxAt
  <2>5. TxReady => TxReady'
    BY <1>3, <2>1 DEF vars, netVars, workVars, TxReady, TxWindow, Packets, Sent, SmallRing, TxAt
  <2>6. Listening => Listening'
    BY <1>3 DEF vars, netVars, workVars, Listening
  <2>7. trouble' = trouble
    BY <1>3 DEF vars
  <2>8. QED
    BY <2>2, <2>3, <2>4, <2>5, <2>6, <2>7 DEF Inv
<1>4. QED
  BY <1>2, <1>3

\* The invariant always holds.
LEMMA Invariance == Spec => []Inv
<1>1. QED
  BY InvInit, InvNext, PTL DEF Spec

-----------------------------------------------------------------------------
(***************************************************************************)
(* The theorems.                                                           *)
(***************************************************************************)
\* Every record and counter keeps its type: no descriptor is written outside
\* of the rings, and no more packets are announced than there are slots.
THEOREM TypeCorrect == Spec => []TypeOK
<1>1. Inv => TypeOK
  BY DEF Inv
<1>2. QED
  BY <1>1, Invariance, PTL

\* Packets, byte queue and descriptors of the transmit ring agree, and the
\* queue runs only while the largest packet fits: ag71xx_hard_start_xmit stops
\* it early enough, ag71xx_tx_packets wakes it late enough.
THEOREM TxRingFollows == Spec => []TxRingOK
<1>1. Inv => TxRingOK
  <2> SUFFICES ASSUME Inv, trouble = {}
               PROVE  /\ \A i \in TxIndex : tx.skb[i] => i \in TxWindow
                      /\ bql = Packets(TxIndex)
                      /\ softirq.at # "xmit" => \A i \in TxIndex \ TxWindow : tx.empty[i]
                      /\ ring /\ queue = "running" => TxSize - Used(tx) >= DescsPerPacket
    BY DEF TxRingOK
  <2>1. TypeOK /\ TxReady
    BY DEF Inv
  <2>2. ASSUME softirq.at # "xmit", NEW i \in TxIndex \ TxWindow PROVE tx.empty[i]
    <3>1. Used(tx) \in Nat /\ Used(tx) <= TxSize
      BY <2>1, TxPlacesFree
    <3>2. PICK m \in TxIndex : i = TxAt(m)
      BY <2>1, <3>1, TxPlacesNow
    <3>3. ~(m < Used(tx)) /\ m \in Int
      BY <2>1, <3>1, <3>2, TxPlacesNow
    <3>4. m >= Used(tx)
      BY <3>1, <3>3
    <3>5. QED
      BY <2>1, <2>2, <3>2, <3>4, TxPlacesFree
  <2>3. QED
    BY <2>1, <2>2 DEF TxReady
<1>2. QED
  BY <1>1, Invariance, PTL

\* The receiver is never given a descriptor without a buffer, although the
\* refill of ag71xx_ring_rx_refill may stop anywhere for want of memory.
THEOREM RxRingFollows == Spec => []RxRingOK
<1>1. Inv => RxRingOK
  BY DEF Inv, RxOK
<1>2. QED
  BY <1>1, Invariance, PTL

\* Only the AR7100 that finds its ring full when the link comes up lets the
\* transmitter see a packet that ag71xx_fill_dma_desc has not finished.
THEOREM NoPacketBeforeItsTime == Spec => []EarlyOnlyAfterFull
<1>1. Inv => EarlyOnlyAfterFull
  <2> SUFFICES ASSUME Inv, trouble = {}, ring, dma.tx_on, dma.tx_at # Stop, ~tx.empty[dma.tx_at]
               PROVE  dma.tx_at \in TxWindow
    BY DEF EarlyOnlyAfterFull
  <2>1. TypeOK /\ TxReady
    BY DEF Inv
  <2>2. step # "reset"
    BY <2>1 DEF TxReady
  <2>3. PICK p \in 0 .. Used(tx) : Sent(p)
    BY <2>1, <2>2 DEF TxReady
  <2>4. /\ Used(tx) \in Nat /\ Used(tx) <= TxSize /\ TxSize \in Nat \ {0}
        /\ Used(tx) < TxSize => tx.empty[TxAt(Used(tx))]
    BY <2>1, TxPlacesFree
  <2>5. dma.tx_at = TxAt(p)
    BY <2>3 DEF Sent
  <2>6. CASE p < Used(tx)
    <3>1. p \in 0 .. Used(tx) - 1
      BY <2>4, <2>6
    <3>2. QED
      BY <2>5, <3>1 DEF TxAt, TxWindow
  <2>7. CASE p = Used(tx)
    <3>1. Used(tx) = TxSize
      BY <2>4, <2>5, <2>7
    <3>2. Slot(tx.dirty, TxSize, 0 + TxSize) = Slot(tx.dirty, TxSize, 0)
      <4>1. tx.dirty \in Int /\ 0 \in Int
        BY <2>1, CountersFact
      <4>2. QED
        BY <2>4, <4>1, SlotTurn, Zenon
    <3>3. 0 + TxSize = TxSize /\ 0 \in 0 .. Used(tx) - 1
      BY <2>4, <3>1
    <3>4. QED
      BY <2>5, <2>7, <3>1, <3>2, <3>3 DEF TxAt, TxWindow
  <2>8. QED
    BY <2>4, <2>6, <2>7
<1>2. QED
  BY <1>1, Invariance, PTL

\* ag71xx_dma_reset keeps its word: the engines are out of the rings before
\* ag71xx_rings_cleanup frees them.
THEOREM RingsAreLetGo == Spec => []LetGoOfRings
<1>1. Inv => LetGoOfRings
  BY DEF Inv, EnginesOut, LetGoOfRings
<1>2. QED
  BY <1>1, Invariance, PTL

\* Between the last look of ag71xx_poll at the status and the interrupt that
\* it enables again, no packet is forgotten.
THEOREM NothingWaitsUnannounced == Spec => []ReadyIsAnnounced
<1>1. Inv => ReadyIsAnnounced
  <2> SUFFICES ASSUME Inv, Quiet, trouble = {}, ~oom_timer, ~(dma.int_poll /\ Pending)
               PROVE  /\ Cleaned = 0
                      /\ HasFastReset \/ rx.empty[Slot(rx.curr, RxSize, 0)]
    BY DEF ReadyIsAnnounced
  <2>1. TypeOK /\ EnginesOut /\ RxOK /\ RxReady /\ TxReady /\ Listening
    BY DEF Inv
  <2>2. dma.int_poll /\ dma.tx_at # Stop /\ dma.rx_at # Stop /\ ring
    BY <2>1 DEF Quiet, Listening, EnginesOut, NoSoftirq
  <2>3. dma.tx_sent \in Nat /\ dma.rx_received \in Nat
    BY <2>1, TypeNow DEF Dma
  <2>4. dma.tx_sent = 0 /\ dma.rx_received = 0
    BY <2>2, <2>3 DEF Pending
  <2>5. Cleaned = 0
    <3>1. PICK p \in 0 .. Used(tx) : Sent(p)
      BY <2>1, <2>2 DEF TxReady, Quiet
    <3>2. p = 0
      BY <2>4, <3>1 DEF Sent
    <3> DEFINE c == Cleaned
    <3>3. /\ c \in 0 .. Used(tx) /\ Used(tx) \in Nat
          /\ \A k \in 0 .. c - 1 : tx.empty[TxAt(k)]
      BY <2>1, CleanedFact, TxPlacesFree DEF TxAt
    <3>4. \A m \in 0 .. Used(tx) - 1 : ~tx.empty[TxAt(m)]
      BY <3>1, <3>2 DEF Sent
    <3> HIDE DEF c
    <3>5. c > 0 => 0 \in 0 .. c - 1 /\ 0 \in 0 .. Used(tx) - 1
      BY <3>3
    <3>6. c = 0
      BY <3>3, <3>4, <3>5
    <3>7. QED
      BY <3>6 DEF c
  <2>6. ASSUME ~HasFastReset PROVE rx.empty[Slot(rx.curr, RxSize, 0)]
    <3>1. /\ Size(RxSize) /\ Counters(rx) /\ RxSize \in Nat \ {0} /\ Used(rx) \in Nat /\ 0 \in Int
      BY <2>1, TypeNow, Sizes, CountersFact
    <3>2. Used(rx) = 0
      BY <2>1, <3>1 DEF RxReady, Quiet
    <3>3. PICK q \in 0 .. RxSize - Used(rx) : Received(q)
      BY <2>1, <2>2 DEF RxReady
    <3>4. q = 0
      BY <2>4, <2>6, <3>3 DEF Received
    <3>5. 0 \in Used(rx) + q .. RxSize - 1 /\ Used(rx) + 0 = 0
      BY <3>1, <3>2, <3>4
    <3>6. rx.empty[RxAt(0)]
      BY <3>3, <3>5 DEF Received
    <3>7. Slot(rx.curr, RxSize, 0) = Slot(rx.dirty, RxSize, Used(rx) + 0)
      BY <3>1, SlotOfCurr
    <3>8. QED
      BY <3>5, <3>6, <3>7 DEF RxAt
  <2>7. QED
    BY <2>5, <2>6
<1>2. QED
  BY <1>1, Invariance, PTL

\* ag71xx_restart_work_func finds NAPI disabled only where nobody could have
\* told it not to run.
THEOREM RestartMayWait == Spec => []DisabledTwiceOnlyAfterStop
<1>1. Inv => DisabledTwiceOnlyAfterStop
  BY TypeNow DEF Inv, ControlOK, DisabledTwiceOnlyAfterStop
<1>2. QED
  BY <1>1, Invariance, PTL
=============================================================================
