------------------------------- MODULE Ag71xx -------------------------------
(***************************************************************************)
(* The Ethernet driver of the ath79 target (ag71xx_main.c): its two        *)
(* descriptor rings, the transmit queue it stops and wakes, NAPI polling   *)
(* with the out-of-memory timer, and the restart work that tears the rings *)
(* down and sets them up again when the transmitter hangs.                 *)
(*                                                                         *)
(* The kernel of this target is built for one processor and without        *)
(* preemption.  A transmit, a poll and a timer run in softirq context, one *)
(* after the other; the restart work, the link handler, open and stop run  *)
(* in process context.  A softirq may come between any two steps of the    *)
(* process context, unless interrupts are off; two processes change over   *)
(* only where one sleeps.  The interrupt handler and the DMA engines run   *)
(* between any two steps of either.                                        *)
(***************************************************************************)
EXTENDS Integers, FiniteSetsExt

CONSTANTS Chips,   \* the chips and surroundings to look at
          Wrap,    \* 2^32: curr and dirty are unsigned int
          Weight,  \* AG71XX_NAPI_WEIGHT
          Stop     \* the address of stop_desc

\* A ring has ds_per_pkt descriptors times a power of two, which ethtool may
\* choose.  With a ring for a single packet, ring_size - ring_min is negative,
\* the comparison is unsigned and the queue is never stopped: left out.
ASSUME SizeAssumption ==
    /\ Wrap \in Nat
    /\ Weight \in Nat \ {0}
    /\ \A c \in Chips :
          /\ {c.tx_size, c.rx_size, c.ds_per_pkt} \subseteq Nat \ {0}
          /\ Wrap % c.tx_size = 0 /\ Wrap % c.rx_size = 0
          /\ Wrap > c.tx_size /\ Wrap > c.rx_size
          /\ c.tx_size = 2 * c.ds_per_pkt \/ c.tx_size >= 4 * c.ds_per_pkt
ASSUME KindAssumption ==
    \A c \in Chips :
       /\ {c.fast_reset, c.tx_hang_workaround, c.sends, c.receives, c.memory_fails} \subseteq BOOLEAN
       /\ c.link_changes \in Nat
ASSUME StopAssumption == Stop \notin Int

VARIABLES
    chip,     \* the chip and what happens around it, fixed
    ring,     \* are the rings allocated?
    tx,       \* the transmit ring
    rx,       \* the receive ring
    dma,      \* the registers of the two engines and of the interrupts
    hung,     \* does the transmitter hang?
    queue,    \* the transmit queue of the net device
    bql,      \* packets between netdev_sent_queue and netdev_completed_queue
    napi,
    softirq,  \* what the softirq is in the middle of
    rtnl,     \* who holds the rtnl lock
    step,     \* where the holder is
    restart_work,  \* is it pending?
    oom_timer,     \* is it pending?
    up, link, carrier,
    active,   \* does the stack hand packets to the driver?
    link_changes,
    trouble   \* history: what went wrong between restart and the rest

vars == <<chip, ring, tx, rx, dma, hung, queue, bql, napi, softirq, rtnl, step, restart_work,
          oom_timer, up, link, carrier, active, link_changes, trouble>>

netVars  == <<up, link, carrier, active, link_changes>>
workVars == <<rtnl, step, restart_work>>

TxSize             == chip.tx_size       \* descriptors of each ring, powers of two
RxSize             == chip.rx_size
DescsPerPacket     == chip.ds_per_pkt    \* AG71XX_TX_RING_DS_PER_PKT, 1 without desc_split
HasFastReset       == chip.fast_reset    \* not an AR7100 or AR9130
tx_hang_workaround == chip.tx_hang_workaround
SendsPackets       == chip.sends
ReceivesPackets    == chip.receives
MemoryFails        == chip.memory_fails
MaxLinkChanges     == chip.link_changes  \* bound

TxIndex == 0 .. TxSize - 1
RxIndex == 0 .. RxSize - 1

(***************************************************************************)
(* empty: DESC_EMPTY, which on the transmit ring says that the driver owns *)
(* the descriptor and on the receive ring that the engine does.            *)
(***************************************************************************)
TxRing == [curr : 0 .. Wrap - 1, dirty : 0 .. Wrap - 1,
           empty : [TxIndex -> BOOLEAN], skb : [TxIndex -> BOOLEAN]]
RxRing == [curr : 0 .. Wrap - 1, dirty : 0 .. Wrap - 1,
           empty : [RxIndex -> BOOLEAN], buf : [RxIndex -> BOOLEAN]]

Dma == [tx_on : BOOLEAN, rx_on : BOOLEAN,
        tx_at : TxIndex \cup {Stop}, rx_at : RxIndex \cup {Stop},
        tx_sent : 0 .. TxSize, rx_received : 0 .. RxSize, rx_overflow : BOOLEAN,
        int_poll : BOOLEAN]

(***************************************************************************)
(* A softirq is at nothing, about to hand n filled descriptors to the      *)
(* engine ("xmit"), or in a poll that received done packets, before it     *)
(* reads the status ("poll") or enables the interrupt again ("enable").    *)
(***************************************************************************)
Softirq == [at : {"none", "xmit", "poll", "enable"}, n : 0 .. DescsPerPacket, done : 0 .. Weight]
NoSoftirq == [at |-> "none", n |-> 0, done |-> 0]

Place == {"none", "hw_stop", "dma_stop", "dma_clear", "napi", "cleanup", "alloc", "enable",
         "adjust", "reset", "start"}

Trouble == {"woken_full", "woken_in_restart", "linked_in_restart", "sent_in_restart", "alloc_failed",
            "rx_out_of_ring", "no_tx_ring"}

TypeOK ==
    /\ chip \in Chips
    /\ ring \in BOOLEAN /\ tx \in TxRing /\ rx \in RxRing /\ dma \in Dma /\ hung \in BOOLEAN
    /\ queue \in {"running", "stopped"} /\ bql \in 0 .. TxSize
    /\ napi \in [state : {"disabled", "idle", "sched"}, missed : BOOLEAN]
    /\ softirq \in Softirq
    /\ rtnl \in {"free", "restart", "stop"} /\ step \in Place
    /\ restart_work \in BOOLEAN /\ oom_timer \in BOOLEAN
    /\ up \in BOOLEAN /\ link \in BOOLEAN /\ carrier \in BOOLEAN /\ active \in BOOLEAN
    /\ link_changes \in 0 .. MaxLinkChanges
    /\ trouble \subseteq Trouble

\* ag71xx_ring_tx_init and ag71xx_ring_rx_init.
FreshTx == [curr |-> 0, dirty |-> 0, empty |-> [i \in TxIndex |-> TRUE],
            skb |-> [i \in TxIndex |-> FALSE]]
FreshRx == [curr |-> 0, dirty |-> 0, empty |-> [i \in RxIndex |-> TRUE],
            buf |-> [i \in RxIndex |-> TRUE]]

\* After probe: hw_init has reset the engines, the device is not open.
Init ==
    /\ chip \in Chips
    /\ ring = FALSE /\ tx = FreshTx /\ rx = FreshRx
    /\ dma = [tx_on |-> FALSE, rx_on |-> FALSE, tx_at |-> Stop, rx_at |-> Stop, tx_sent |-> 0,
              rx_received |-> 0, rx_overflow |-> FALSE, int_poll |-> FALSE]
    /\ hung = FALSE /\ queue = "running" /\ bql = 0
    /\ napi = [state |-> "disabled", missed |-> FALSE] /\ softirq = NoSoftirq
    /\ rtnl = "free" /\ step = "none" /\ restart_work = FALSE /\ oom_timer = FALSE
    /\ up = FALSE /\ link = FALSE /\ carrier = FALSE /\ active = FALSE
    /\ link_changes = 0 /\ trouble = {}

-----------------------------------------------------------------------------
(***************************************************************************)
(* The rings.                                                              *)
(***************************************************************************)
Used(r) == (r.curr - r.dirty) % Wrap
Slot(r, size, n) == (r + n) % size    \* the slot n places after counter r

\* The descriptors handed to the engine and not cleaned yet.
TxWindow == {Slot(tx.dirty, TxSize, n) : n \in 0 .. Used(tx) - 1}
RxWindow == {Slot(rx.dirty, RxSize, n) : n \in 0 .. Used(rx) - 1}

SoftirqMayRun == softirq = NoSoftirq

\* A process that is not asleep keeps other processes out.
ProcessMayRun == softirq = NoSoftirq /\ step \in {"none", "napi", "alloc"}

\* Nothing is scheduled any more once napi_disable has begun to wait.
NapiSchedule(n) ==
    CASE step = "napi" \/ n.state = "disabled"   -> n
      [] step # "napi" /\ n.state = "idle"       -> [n EXCEPT !.state = "sched"]
      [] step # "napi" /\ n.state = "sched"      -> [n EXCEPT !.missed = TRUE]

NapiComplete(n) == [state |-> IF n.missed THEN "sched" ELSE "idle", missed |-> FALSE]

-----------------------------------------------------------------------------
(***************************************************************************)
(* The engines (the chip is not part of the code).  The transmitter works  *)
(* until it finds an empty descriptor, the receiver until it finds one     *)
(* that is not.                                                            *)
(***************************************************************************)
DmaTransmit ==
    /\ dma.tx_on /\ dma.tx_at # Stop /\ ~hung /\ ring
    /\ IF tx.empty[dma.tx_at]
       THEN /\ dma' = [dma EXCEPT !.tx_on = FALSE]
            /\ UNCHANGED tx
       ELSE /\ tx' = [tx EXCEPT !.empty[dma.tx_at] = TRUE]
            /\ dma' = [dma EXCEPT !.tx_at = Slot(@, TxSize, 1),
                                  !.tx_sent = IF @ < TxSize THEN @ + 1 ELSE @]
    /\ UNCHANGED <<ring, rx, hung, queue, bql, napi, softirq, workVars, oom_timer, netVars, trouble>>

DmaReceive ==
    /\ ReceivesPackets
    /\ dma.rx_on /\ dma.rx_at # Stop /\ ring /\ link
    /\ IF rx.empty[dma.rx_at]
       THEN /\ rx' = [rx EXCEPT !.empty[dma.rx_at] = FALSE]
            /\ dma' = [dma EXCEPT !.rx_at = Slot(@, RxSize, 1),
                                  !.rx_received = IF @ < RxSize THEN @ + 1 ELSE @]
       ELSE /\ dma' = [dma EXCEPT !.rx_on = FALSE, !.rx_overflow = TRUE]
            /\ UNCHANGED rx
    /\ UNCHANGED <<ring, tx, hung, queue, bql, napi, softirq, workVars, oom_timer, netVars, trouble>>

DmaHang ==
    /\ tx_hang_workaround
    /\ dma.tx_on /\ ~hung
    /\ hung' = TRUE
    /\ UNCHANGED <<ring, tx, rx, dma, queue, bql, napi, softirq, workVars, oom_timer, netVars, trouble>>

Pending == dma.tx_sent > 0 \/ dma.rx_received > 0 \/ dma.rx_overflow

\* ag71xx_interrupt
Interrupt ==
    /\ dma.int_poll /\ Pending
    /\ dma' = [dma EXCEPT !.int_poll = FALSE]
    /\ napi' = NapiSchedule(napi)
    /\ UNCHANGED <<ring, tx, rx, hung, queue, bql, softirq, workVars, oom_timer, netVars, trouble>>

-----------------------------------------------------------------------------
FilledAtOnce(n) ==    \* mutant: DESC_EMPTY does not hold the first one back
    [i \in TxIndex |-> tx.empty[i] /\ i \notin {Slot(tx.curr, TxSize, k) : k \in 0 .. n - 1}]

(***************************************************************************)
(* Transmit.  ag71xx_fill_dma_desc writes the descriptors of a packet in   *)
(* order and leaves DESC_EMPTY in the first; on one that is not empty it   *)
(* gives up and leaves those behind it as they are.                        *)
(***************************************************************************)
Filled(n) ==
    [i \in TxIndex |-> tx.empty[i] /\ i \notin {Slot(tx.curr, TxSize, k) : k \in 1 .. n - 1}]

\* How many descriptors can be filled for a packet of n.
Fillable(n) ==
    CHOOSE k \in 0 .. n :
       /\ \A j \in 0 .. k - 1 : tx.empty[Slot(tx.curr, TxSize, j)]
       /\ k < n => ~tx.empty[Slot(tx.curr, TxSize, k)]

Note(what) == trouble' = IF rtnl = "restart" THEN trouble \cup {what} ELSE trouble

XmitFill(n) ==
    /\ SendsPackets
    /\ SoftirqMayRun /\ up /\ active /\ queue = "running" /\ ring
    /\ tx' = [tx EXCEPT !.empty = Filled(Fillable(n))]
    /\ softirq' = IF Fillable(n) = n THEN [at |-> "xmit", n |-> n, done |-> 0] ELSE softirq
    /\ Note("sent_in_restart")
    /\ UNCHANGED <<ring, rx, dma, hung, queue, bql, napi, workVars, oom_timer, netVars>>

\* The ring the packet would go to has been freed.
XmitNoRing ==
    /\ SendsPackets
    /\ SoftirqMayRun /\ up /\ active /\ queue = "running" /\ ~ring
    /\ trouble' = trouble \cup {"no_tx_ring"}
    /\ UNCHANGED <<ring, tx, rx, dma, hung, queue, bql, napi, softirq, workVars, oom_timer, netVars>>

QueueFull(used) == used >= TxSize - 2 * DescsPerPacket

XmitSend ==
    /\ softirq.at = "xmit"
    /\ LET n == softirq.n
           sent == [tx EXCEPT !.empty[Slot(tx.curr, TxSize, 0)] = FALSE,
                              !.skb[Slot(tx.curr, TxSize, n - 1)] = TRUE,
                              !.curr = (@ + n) % Wrap]
       IN  /\ tx' = sent
           /\ queue' = IF QueueFull(Used(sent)) THEN "stopped" ELSE queue
    /\ bql' = IF bql < TxSize THEN bql + 1 ELSE bql
    /\ dma' = [dma EXCEPT !.tx_on = TRUE]
    /\ softirq' = NoSoftirq
    /\ UNCHANGED <<ring, rx, hung, napi, workVars, oom_timer, netVars, trouble>>

-----------------------------------------------------------------------------
(***************************************************************************)
(* ag71xx_tx_packets: clean up to the last packet all of whose descriptors *)
(* were sent, or up to curr in a flush.  Cleaned is how many descriptors.  *)
(***************************************************************************)
SentSlots == {n \in 0 .. Used(tx) - 1 : \A k \in 0 .. n : tx.empty[Slot(tx.dirty, TxSize, k)]}

Cleaned ==
    LET ends == {n \in SentSlots : tx.skb[Slot(tx.dirty, TxSize, n)]}
    IN  IF ends = {} THEN 0 ELSE Max(ends) + 1

Packets(slots) == Cardinality({i \in slots : tx.skb[i]})

AfterCleanKeepsSkb(n) ==    \* mutant: forgets that the packet was freed
    [tx EXCEPT !.dirty = (@ + n) % Wrap]

AfterClean(n) ==
    [tx EXCEPT !.dirty = (@ + n) % Wrap,
               !.skb = [i \in TxIndex |-> @[i] /\ i \notin {Slot(tx.dirty, TxSize, k) : k \in 0 .. n - 1}]]

Flushed ==
    [tx EXCEPT !.dirty = tx.curr,
               !.skb = [i \in TxIndex |-> @[i] /\ i \notin TxWindow],
               !.empty = [i \in TxIndex |-> @[i] \/ i \in TxWindow]]

Wakes(used) == used < (TxSize * 3) \div 4

(***************************************************************************)
(* One poll.  The transmit ring is cleaned, then at most Weight packets    *)
(* are received and the buffers taken are replaced, as far as there is     *)
(* memory.  ag71xx_check_dma_stuck reads hardware state: it may say yes    *)
(* while the carrier is there and a descriptor is waiting.                 *)
(***************************************************************************)
\* ag71xx_tx_packets cancels the restart when it cleaned a packet and the
\* engine does not look stuck.
PollTx(stuck) ==
    LET n == Cleaned
    IN  /\ stuck => tx_hang_workaround /\ carrier /\ Cardinality(SentSlots) < Used(tx)
        /\ tx' = AfterClean(n)
        /\ bql' = Max({0, bql - Packets({Slot(tx.dirty, TxSize, k) : k \in 0 .. n - 1})})
        /\ restart_work' = (stuck \/ (restart_work /\ n = 0))
        /\ IF n > 0 /\ Wakes((Used(tx) - n) % Wrap)
           THEN /\ queue' = "running"
                /\ trouble' = IF rtnl = "restart" /\ step \in {"hw_stop", "dma_stop", "dma_clear", "napi"}
                              THEN trouble \cup {"woken_in_restart"} ELSE trouble
           ELSE UNCHANGED <<queue, trouble>>

ReceivableOneMore ==    \* mutant: one packet more than the budget
    CHOOSE k \in 0 .. Weight + 1 :
       /\ \A j \in 0 .. k - 1 : ~rx.empty[Slot(rx.curr, RxSize, j)] /\ Used(rx) + j < RxSize
       /\ k < Weight + 1 => rx.empty[Slot(rx.curr, RxSize, k)] \/ Used(rx) + k = RxSize

\* The packets the receive loop takes; it ends at an empty descriptor.
Receivable ==
    CHOOSE k \in 0 .. Weight :
       /\ \A j \in 0 .. k - 1 : ~rx.empty[Slot(rx.curr, RxSize, j)] /\ Used(rx) + j < RxSize
       /\ k < Weight => rx.empty[Slot(rx.curr, RxSize, k)] \/ Used(rx) + k = RxSize

\* ag71xx_assert(0): the ring is used up and the loop goes round again.
OutOfRing ==
    /\ Receivable < Weight
    /\ Used(rx) + Receivable = RxSize
    /\ ~rx.empty[Slot(rx.curr, RxSize, Receivable)]

RefilledUnseen(from, count, filled) ==    \* mutant: hands over a slot whose buffer is missing
    [from EXCEPT !.dirty = (@ + count) % Wrap,
                 !.empty = [i \in RxIndex |-> @[i] \/ i \in {Slot(from.dirty, RxSize, n) : n \in 0 .. count}],
                 !.buf = [i \in RxIndex |-> @[i] \/ i \in filled]]

\* ag71xx_ring_rx_refill replaced count buffers, in order from dirty.
Refilled(from, count, filled) ==
    [from EXCEPT !.dirty = (@ + count) % Wrap,
                 !.empty = [i \in RxIndex |-> @[i] \/ i \in filled],
                 !.buf = [i \in RxIndex |-> @[i] \/ i \in filled]]

PollRx(taken) ==
    LET slots == {Slot(rx.curr, RxSize, n) : n \in 0 .. taken - 1}
        after == [rx EXCEPT !.curr = (@ + taken) % Wrap,
                            !.buf = [i \in RxIndex |-> @[i] /\ i \notin slots]]
    IN  \E count \in (IF MemoryFails THEN 0 .. Used(after) ELSE {Used(after)}) :
           rx' = Refilled(after, count, {Slot(rx.dirty, RxSize, n) : n \in 0 .. count - 1})

Poll ==
    /\ SoftirqMayRun
    /\ napi.state = "sched" /\ ring
    /\ ~OutOfRing
    /\ \E stuck \in BOOLEAN : PollTx(stuck)
    /\ PollRx(Receivable)
    /\ dma' = [dma EXCEPT !.tx_sent = Max({0, @ - Cleaned}),
                          !.rx_received = Max({0, @ - Receivable})]
    /\ softirq' = [at |-> "poll", n |-> 0, done |-> Receivable]
    /\ UNCHANGED <<ring, hung, napi, rtnl, step, oom_timer, netVars>>

PollOutOfRing ==
    /\ SoftirqMayRun
    /\ napi.state = "sched" /\ ring
    /\ OutOfRing
    /\ trouble' = trouble \cup {"rx_out_of_ring"}
    /\ UNCHANGED <<ring, tx, rx, dma, hung, queue, bql, napi, softirq, workVars, oom_timer, netVars>>

OutOfMemory == ~rx.buf[Slot(rx.dirty, RxSize, 0)]

PollOomForgets ==    \* mutant: does not start the timer
    /\ softirq.at = "poll"
    /\ OutOfMemory
    /\ napi' = NapiComplete(napi)
    /\ softirq' = NoSoftirq
    /\ UNCHANGED <<ring, tx, rx, dma, hung, queue, bql, workVars, oom_timer, netVars, trouble>>

\* The refill failed: come back later, with the interrupt still off.
PollOom ==
    /\ softirq.at = "poll"
    /\ OutOfMemory
    /\ oom_timer' = TRUE
    /\ napi' = NapiComplete(napi)
    /\ softirq' = NoSoftirq
    /\ UNCHANGED <<ring, tx, rx, dma, hung, queue, bql, workVars, netVars, trouble>>

StayPolling == softirq.done = Weight \/ dma.rx_received > 0 \/ dma.tx_sent > 0

PollStatus ==
    /\ softirq.at = "poll"
    /\ ~OutOfMemory
    /\ dma' = [dma EXCEPT !.rx_on = @ \/ dma.rx_overflow, !.rx_overflow = FALSE]
    /\ IF StayPolling
       THEN /\ softirq' = NoSoftirq
            /\ napi' = IF step = "napi" THEN NapiComplete(napi) ELSE napi
       ELSE /\ softirq' = [NoSoftirq EXCEPT !.at = "enable"]
            /\ napi' = NapiComplete(napi)
    /\ UNCHANGED <<ring, tx, rx, hung, queue, bql, workVars, oom_timer, netVars, trouble>>

PollEnable ==
    /\ softirq.at = "enable"
    /\ dma' = [dma EXCEPT !.int_poll = TRUE]
    /\ softirq' = NoSoftirq
    /\ UNCHANGED <<ring, tx, rx, hung, queue, bql, napi, workVars, oom_timer, netVars, trouble>>

\* ag71xx_oom_timer_handler
OomTimer ==
    /\ SoftirqMayRun
    /\ oom_timer
    /\ oom_timer' = FALSE
    /\ napi' = NapiSchedule(napi)
    /\ UNCHANGED <<ring, tx, rx, dma, hung, queue, bql, softirq, workVars, netVars, trouble>>

-----------------------------------------------------------------------------
(***************************************************************************)
(* Pieces of the process context.                                          *)
(***************************************************************************)
\* ag71xx_hw_stop
Stopped(d) == [d EXCEPT !.int_poll = FALSE, !.rx_on = FALSE, !.tx_on = FALSE]

ClearedStatus(d) ==    \* mutant: clears the status and not the addresses
    [d EXCEPT !.tx_sent = 0, !.rx_received = 0, !.rx_overflow = FALSE]

\* The second half of ag71xx_dma_reset, after the delay.
Cleared(d) == [d EXCEPT !.tx_at = Stop, !.rx_at = Stop, !.tx_sent = 0, !.rx_received = 0,
                        !.rx_overflow = FALSE]

\* ag71xx_hw_start
Started(d) == [d EXCEPT !.rx_on = TRUE, !.int_poll = TRUE]

\* What a fast reset leaves of the engines: the receiver keeps its place.
Reset(d) == [Cleared(Stopped(d)) EXCEPT !.rx_at = d.rx_at, !.tx_at = 0]

(***************************************************************************)
(* The link handler, called with interrupts off.  A link that comes up     *)
(* resets the engines and the transmit ring, if the chip needs it.         *)
(***************************************************************************)
LinkDown ==
    /\ link' = FALSE /\ carrier' = FALSE
    /\ dma' = Stopped(dma)
    /\ UNCHANGED <<tx, bql, queue, hung, trouble, restart_work>>

LinkUp ==
    /\ link' = TRUE /\ carrier' = TRUE
    /\ IF HasFastReset
       THEN /\ tx' = [Flushed EXCEPT !.curr = 0, !.dirty = 0]
            /\ bql' = 0
            /\ dma' = Started(Reset(dma))
            /\ hung' = FALSE
            /\ restart_work' = (restart_work /\ Packets(TxWindow) = 0)
       ELSE /\ dma' = Started(dma)
            /\ UNCHANGED <<tx, bql, hung, restart_work>>
    /\ queue' = "running"
    /\ trouble' = trouble \cup {w \in {"linked_in_restart", "woken_full"} :
                                \/ w = "linked_in_restart" /\ rtnl = "restart"
                                \/ w = "woken_full" /\ ~HasFastReset /\ QueueFull(Used(tx))}

\* ag71xx_phy_link_adjust
LinkChange ==
    /\ ProcessMayRun /\ up
    /\ link_changes < MaxLinkChanges
    /\ link_changes' = link_changes + 1
    /\ IF link THEN LinkDown ELSE LinkUp
    /\ UNCHANGED <<ring, rx, napi, softirq, rtnl, step, oom_timer, up, active>>

\* The link watch of the kernel follows the carrier in its own time.
LinkWatch ==
    /\ ProcessMayRun /\ rtnl = "free"
    /\ active # (up /\ carrier)
    /\ active' = (up /\ carrier)
    /\ UNCHANGED <<ring, tx, rx, dma, hung, queue, bql, napi, softirq, workVars, oom_timer, up, link,
                   carrier, link_changes, trouble>>

-----------------------------------------------------------------------------
(***************************************************************************)
(* ag71xx_open and ag71xx_stop, with the rtnl lock held.                   *)
(***************************************************************************)
Open ==
    /\ ProcessMayRun /\ rtnl = "free" /\ ~up
    /\ ring' = TRUE /\ tx' = FreshTx /\ rx' = FreshRx
    /\ bql' = 0
    /\ napi' = [state |-> "idle", missed |-> FALSE]
    /\ dma' = [dma EXCEPT !.tx_at = 0, !.rx_at = 0]
    /\ queue' = "running"
    /\ up' = TRUE
    /\ UNCHANGED <<hung, softirq, workVars, oom_timer, link, carrier, active, link_changes, trouble>>

\* The stack has stopped transmitting before ag71xx_stop is called.
StopBegin ==
    /\ ProcessMayRun /\ rtnl = "free" /\ up
    /\ rtnl' = "stop" /\ step' = "napi"
    /\ up' = FALSE /\ active' = FALSE /\ carrier' = FALSE /\ link' = FALSE
    /\ queue' = "stopped"
    /\ dma' = Cleared(Stopped(dma))
    /\ UNCHANGED <<ring, tx, rx, hung, bql, napi, softirq, restart_work, oom_timer, link_changes, trouble>>

\* napi_disable waits for the poll that is scheduled; the timer is deleted.
NapiDisable ==
    /\ step = "napi" /\ softirq = NoSoftirq
    /\ napi.state = "idle"
    /\ napi' = [state |-> "disabled", missed |-> FALSE]
    /\ oom_timer' = FALSE
    /\ step' = "cleanup"
    /\ UNCHANGED <<ring, tx, rx, dma, hung, queue, bql, softirq, rtnl, restart_work, netVars, trouble>>

\* ag71xx_rings_cleanup
RingsCleanup ==
    /\ step = "cleanup" /\ softirq = NoSoftirq
    /\ ring' = FALSE
    /\ tx' = FreshTx /\ rx' = FreshRx /\ bql' = 0
    /\ IF rtnl = "stop" THEN rtnl' = "free" /\ step' = "none"
                        ELSE UNCHANGED rtnl /\ step' = "alloc"
    /\ UNCHANGED <<dma, hung, queue, napi, softirq, restart_work, oom_timer, netVars, trouble>>

-----------------------------------------------------------------------------
(***************************************************************************)
(* The restart work.  The watchdog of the stack schedules it for a queue   *)
(* that stays stopped.  It does not look whether the device is still open. *)
(***************************************************************************)
TxTimeout ==
    /\ SoftirqMayRun
    /\ up /\ active /\ carrier /\ queue = "stopped" /\ ~restart_work
    /\ restart_work' = TRUE
    /\ UNCHANGED <<ring, tx, rx, dma, hung, queue, bql, napi, softirq, rtnl, step, oom_timer, netVars, trouble>>

RestartBegin ==
    /\ ProcessMayRun /\ rtnl = "free"
    /\ restart_work
    /\ restart_work' = FALSE
    /\ rtnl' = "restart" /\ step' = "hw_stop"
    /\ queue' = "stopped"
    /\ UNCHANGED <<ring, tx, rx, dma, hung, bql, napi, softirq, oom_timer, netVars, trouble>>

At(s) == rtnl = "restart" /\ step = s /\ softirq = NoSoftirq

RestartHwStop ==
    /\ At("hw_stop")
    /\ dma' = Stopped(dma)
    /\ step' = "dma_stop"
    /\ UNCHANGED <<ring, tx, rx, hung, queue, bql, napi, softirq, rtnl, restart_work, oom_timer, netVars, trouble>>

RestartDmaStop ==
    /\ At("dma_stop")
    /\ dma' = [dma EXCEPT !.rx_on = FALSE, !.tx_on = FALSE]
    /\ step' = "dma_clear"
    /\ UNCHANGED <<ring, tx, rx, hung, queue, bql, napi, softirq, rtnl, restart_work, oom_timer, netVars, trouble>>

RestartDmaClear ==
    /\ At("dma_clear")
    /\ dma' = Cleared(dma)
    /\ step' = "napi"
    /\ UNCHANGED <<ring, tx, rx, hung, queue, bql, napi, softirq, rtnl, restart_work, oom_timer, netVars, trouble>>

\* ag71xx_rings_init
RestartAlloc ==
    /\ At("alloc")
    /\ ring' = TRUE /\ tx' = FreshTx /\ rx' = FreshRx /\ bql' = 0
    /\ step' = "enable"
    /\ UNCHANGED <<dma, hung, queue, napi, softirq, rtnl, restart_work, oom_timer, netVars, trouble>>

\* There is no memory for the rings, or for all buffers of the receive ring.
\* Nobody looks at what ag71xx_hw_enable returns.
RestartAllocFails ==
    /\ MemoryFails
    /\ At("alloc")
    /\ \/ UNCHANGED <<ring, rx>>
       \/ /\ ring' = TRUE
          /\ \E n \in RxIndex :
                rx' = [FreshRx EXCEPT !.empty = [i \in RxIndex |-> i < n], !.buf = [i \in RxIndex |-> i < n]]
    /\ step' = "adjust"
    /\ trouble' = trouble \cup {"alloc_failed"}
    /\ UNCHANGED <<tx, bql, dma, hung, queue, napi, softirq, rtnl, restart_work, oom_timer, netVars>>

RestartEnableNoNapi ==    \* mutant: napi stays disabled
    /\ At("enable")
    /\ dma' = [dma EXCEPT !.tx_at = 0, !.rx_at = 0]
    /\ queue' = "running"
    /\ step' = "adjust"
    /\ UNCHANGED <<ring, tx, rx, hung, bql, napi, softirq, rtnl, restart_work, oom_timer, netVars, trouble>>

RestartEnable ==
    /\ At("enable")
    /\ napi' = [state |-> "idle", missed |-> FALSE]
    /\ dma' = [dma EXCEPT !.tx_at = 0, !.rx_at = 0]
    /\ queue' = "running"
    /\ step' = "adjust"
    /\ UNCHANGED <<ring, tx, rx, hung, bql, softirq, rtnl, restart_work, oom_timer, netVars, trouble>>

\* The first half of the fast reset, up to the flush; without a link the
\* work is done.
RestartAdjust ==
    /\ At("adjust")
    /\ IF link /\ HasFastReset
       THEN /\ dma' = Stopped(dma)
            /\ tx' = Flushed
            /\ bql' = Max({0, bql - Packets(TxWindow)})
            /\ restart_work' = (restart_work /\ Packets(TxWindow) = 0)
            /\ queue' = IF Packets(TxWindow) > 0 THEN "running" ELSE queue
            /\ step' = "reset"
            /\ UNCHANGED rtnl
       ELSE /\ step' = IF link THEN "start" ELSE "none"
            /\ rtnl' = IF link THEN rtnl ELSE "free"
            /\ UNCHANGED <<dma, tx, bql, restart_work, queue>>
    /\ UNCHANGED <<ring, rx, hung, napi, softirq, oom_timer, netVars, trouble>>

RestartReset ==
    /\ At("reset")
    /\ dma' = Reset(dma)
    /\ tx' = [tx EXCEPT !.curr = 0, !.dirty = 0]
    /\ bql' = 0
    /\ hung' = FALSE
    /\ step' = "start"
    /\ UNCHANGED <<ring, rx, queue, napi, softirq, rtnl, restart_work, oom_timer, netVars, trouble>>

RestartStart ==
    /\ At("start")
    /\ dma' = Started(dma)
    /\ queue' = "running"
    /\ carrier' = TRUE
    /\ rtnl' = "free" /\ step' = "none"
    /\ UNCHANGED <<ring, tx, rx, hung, bql, napi, softirq, restart_work, oom_timer, up, link, active, link_changes,
                   trouble>>

Restart ==
    \/ RestartHwStop \/ RestartDmaStop \/ RestartDmaClear \/ RestartAlloc \/ RestartAllocFails
    \/ RestartEnable \/ RestartAdjust \/ RestartReset \/ RestartStart

-----------------------------------------------------------------------------
\* The assertion and the null pointer end in a panic.
Alive == trouble \cap {"rx_out_of_ring", "no_tx_ring"} = {}

PollStep == PollOom \/ PollStatus \/ PollEnable

Driver ==
    \/ Interrupt \/ XmitSend \/ Poll \/ PollOutOfRing \/ PollStep \/ OomTimer
    \/ NapiDisable \/ RingsCleanup \/ RestartBegin \/ Restart

Kernel ==
    \/ \E n \in 1 .. DescsPerPacket : XmitFill(n)
    \/ XmitNoRing \/ TxTimeout \/ LinkChange \/ LinkWatch \/ Open \/ StopBegin

Step == Alive /\ (Driver \/ Kernel \/ DmaTransmit \/ DmaReceive \/ DmaHang)

Next == Step /\ UNCHANGED chip

Spec == Init /\ [][Next]_vars

(***************************************************************************)
(* What was started is finished, interrupts, timers and the work queue are *)
(* served, the watchdog runs, the link watch follows the carrier, and a    *)
(* transmitter that does not hang gets on.  A poll that goes on moves to    *)
(* ksoftirqd, which leaves the processes and the timers their turns: these *)
(* have strong fairness.  Nothing makes packets come.                      *)
(***************************************************************************)
FairSpec ==
    /\ Spec
    /\ WF_vars(Alive /\ Interrupt /\ UNCHANGED chip)
    /\ WF_vars(Alive /\ (XmitSend \/ Poll \/ PollOutOfRing \/ PollStep) /\ UNCHANGED chip)
    /\ WF_vars(Alive /\ OomTimer /\ UNCHANGED chip)
    /\ SF_vars(Alive /\ (RestartBegin \/ NapiDisable \/ RingsCleanup \/ Restart) /\ UNCHANGED chip)
    /\ SF_vars(Alive /\ TxTimeout /\ UNCHANGED chip)
    /\ SF_vars(Alive /\ LinkWatch /\ UNCHANGED chip)
    /\ WF_vars(Alive /\ DmaTransmit /\ UNCHANGED chip)

-----------------------------------------------------------------------------
(***************************************************************************)
(* Properties.  A restart that overlaps with transmits, and one that finds *)
(* no memory, are the exceptions that trouble names.                       *)
(***************************************************************************)
\* A packet the driver holds is in the part of the ring that will be cleaned,
\* so none is leaked or freed twice; the byte queue counts exactly these, as
\* netdev_completed_queue demands; and whatever lies outside that part is
\* empty, so a packet that is about to be filled in finds its descriptors.
\* While the queue runs there is room for the largest packet: the driver stops
\* it early enough and wakes it late enough.
TxRingOK ==
    trouble = {} =>
       /\ \A i \in TxIndex : tx.skb[i] => i \in TxWindow
       /\ bql = Packets(TxIndex)
       /\ softirq.at # "xmit" => \A i \in TxIndex \ TxWindow : tx.empty[i]
       /\ ring /\ queue = "running" => TxSize - Used(tx) >= DescsPerPacket

\* An AR7100 that finds its ring full when the link comes up is the only one
\* that hands the transmitter a descriptor before the packet is complete.
EarlyOnlyAfterFull ==
    trouble = {} /\ ring /\ dma.tx_on /\ dma.tx_at # Stop /\ ~tx.empty[dma.tx_at] => dma.tx_at \in TxWindow

\* "Clearing the descriptors too early causes random memory corruption": when
\* the rings are taken away neither engine is at work in them, also when polls
\* and transmits have started the engines again since.  A link that comes up in
\* the middle of a restart, or a restart without memory, does let them in.
LetGoOfRings ==
    trouble \cap {"linked_in_restart", "alloc_failed"} = {} /\ (~ring \/ step = "cleanup") =>
       /\ dma.tx_on => dma.tx_at = Stop
       /\ dma.rx_on => dma.rx_at = Stop

\* The receiver never gets a descriptor without a buffer to write to, however
\* often the refill runs out of memory, and every slot that was not received
\* from since has its buffer.
RxRingOK ==
    /\ \A i \in RxIndex : rx.empty[i] => rx.buf[i]
    /\ "alloc_failed" \notin trouble => \A i \in RxIndex \ RxWindow : rx.buf[i]
    /\ \A i \in RxWindow : ~rx.empty[i]

Quiet == napi.state = "idle" /\ softirq = NoSoftirq /\ step = "none" /\ up /\ link

\* No wakeup is lost between the last look of a poll and the interrupt: with
\* nothing scheduled, a packet that was received or sent raises an interrupt,
\* or the out-of-memory timer will look.  (A fast reset clears the status of
\* packets that were received, which then wait for the next one.)
ReadyIsAnnounced ==
    (Quiet /\ trouble = {}) =>
       \/ oom_timer
       \/ dma.int_poll /\ Pending
       \/ /\ Cleaned = 0
          /\ HasFastReset \/ rx.empty[Slot(rx.curr, RxSize, 0)]

\* The restart work waits in napi_disable for good only where nobody could
\* have told it: the device was closed while it was pending, or an earlier
\* restart found no memory.
DisabledTwiceOnlyAfterStop ==
    step = "napi" /\ napi.state = "disabled" =>
       (rtnl = "restart" /\ ~up) \/ "alloc_failed" \in trouble

\* A stopped queue is woken as long as the link is up, also when the
\* transmitter hangs and a restart of the rings has to free it.  This is about
\* the transmit side of a chip that finds memory for the restart: one that does
\* not comes back without rings, and the queue stays stopped.
StoppedIsWoken ==
    (queue = "stopped" /\ up /\ link) ~> (queue = "running" \/ ~up \/ ~link \/ ~Alive)
=============================================================================
