# TLA+ models of uola-os

uola-os is an OpenWrt distribution: a build system, kernel patches, drivers,
packages and configuration. Most of its files package programs that live
elsewhere. This project models the parts of its own code that carry state, run
concurrently and can go wrong in ways a test would hardly show:

* **shortcut-fe** (`package/network/utils/shortcut-fe/src`), which forwards
  packets of known connections without the Linux network stack: its IPv4 engine,
  its TCP window tracking, and its connection manager;
* **fast-classifier** (`package/network/utils/fast-classifier/src`), the other
  connection manager of the same engine;
* **ag71xx** (`target/linux/ath79/files/drivers/net/ethernet/atheros/ag71xx`),
  the Ethernet driver of the ath79 target;
* **nvram** (`package/utils/nvram/src`), the tool that keeps the boot
  variables in flash.

## 1. Inventory

### 1.1 The parts modelled and how they interact

```
     packet                                     conntrack, netdevice, inetaddr
        |                                            notifiers
        v                                               |
  ag71xx poll                                           |
        v                                               |
  __netif_receive_skb_core (hook patch 953)             |
        | athrs_fast_nat_recv                           v
        v                     create / destroy rule
    sfe_cm_recv ------.   .------------- sfe_cm, or fast-classifier
                      v   v              (post_routing, events)
                   sfe_ipv4 engine ---------------------'
                   table, active list,    sync callback (statistics, TCP
                   TCP windows            windows) at a flush and from a timer

  nvram: processes -- /tmp/.nvram (staging file) -- flash partition
```

| Part | State it keeps | Operations | Hard behaviours |
|---|---|---|---|
| IPv4 engine, `sfe_ipv4.c` | hash tables of connections and their two matches, list of active matches, device references, counters, sync callback | receive (UDP, TCP, ICMP), create, update, destroy, destroy all for a device, flush, periodic sync, register callback | one spinlock that is dropped in the middle of a flush and around each sync; pointer surgery that relies on what other code left behind; reference counts |
| TCP window tracking, in the engine | `win_scale`, `max_win`, `end`, `max_end` for each direction | four window tests for each segment, tracking, sync to conntrack, update from conntrack | 32-bit wrap, SACK, retransmission, stale values from conntrack |
| Connection manager, `sfe_cm.c` | registered hooks, exception counters | receive hook, post-routing hook, conntrack event, device and address events, sync callback, load, unload | entry tested and used later; an event that comes once; partial failure with references held; unregistration order and RCU |
| IPv6 engine, `sfe_ipv6.c` | as IPv4 | as IPv4 | as IPv4 |
| Kernel patch 953 | two function pointers | call of the receive hook, conntrack notifier chain | RCU readers |
| fast-classifier | connection table, packet counts, offload permissions | post-routing hook, conntrack events, netlink request, device events, unload | a table entry used after its lock is dropped; destroy events overtaken by packets; messages sent without the lock |
| ag71xx | two descriptor rings, transmit queue, NAPI state, out-of-memory timer, restart work | transmit, poll, interrupt, link change, open, stop, timeout, restart | DMA beside every step; a restart that sleeps while the device runs; lost wakeups; no memory |
| nvram | flash image, staging file, hash table of each process | get, set, unset, commit, staging, writing back | no lock; shared mappings rewritten in place, even by the parser; kills and power cuts; writes whose result is not looked at |

What makes them correct:

* engine: the active list is a list of exactly the active matches; a removed
  connection is flushed by one CPU, once; tuples are unique; references and
  packets balance; what is removed is freed and what is active is synced;
* window tracking: no segment of a conforming connection is refused, and the
  tracked window never moves back;
* connection manager: a rule goes when its conntrack entry goes; packets are
  credited once; references are released on every path; unloading leaves
  nothing behind;
* fast-classifier: one entry for a flow, and entry, rule and messages follow
  conntrack;
* ag71xx: no packet is leaked, no wakeup lost, the engines never get half a
  packet or a slot without a buffer, a stopped queue is woken;
* nvram: a command takes effect in full or not at all, the partition holds only
  what was committed, and a command loses no variable that it does not name.

### 1.2 The rest of the repository

`PROJECT.json` lists the other parts with the reason for leaving each out: the
IPv6 engine (section 5), `mtd`, sysupgrade scripts, `trelay`, button drivers,
switch drivers, mtdsplit parsers, hostapd additions, ead, DSL drivers,
application packages and the build system. They do not interact with the parts
above at run time.

## 2. Modules

| Module | Models | Of the code |
|---|---|---|
| `SfeEngine` | what an engine promises, without tables, locks or objects | abstract |
| `ActiveList` | the pointers of the active list and the five ways the code changes them | `sfe_ipv4.c`: receive, remove, periodic sync |
| `SfeIpv4` (EXTENDS `ActiveList`) | the IPv4 engine | `sfe_ipv4.c` |
| `SfeIpv4Engine` | the refinement mapping from `SfeIpv4` to `SfeEngine` | |
| `SfeTcpWindow` | window tracking between two TCP endpoints | `sfe_ipv4_recv_tcp`, `..._update_tcp_state`, the TCP case of `sfe_cm_sync_rule` |
| `SfeCm` | the connection manager | `sfe_cm.c`, hook patch |
| `SfeCmEngine` | the refinement mapping from the engine inside `SfeCm` to `SfeEngine` | |
| `FastClassifier` | the other connection manager | `fast-classifier.c` |
| `Ag71xx` | the Ethernet driver | `ag71xx_main.c` |
| `Nvram` | the variable store | `nvram.c`, `cli.c` |
| `MCSfeIpv4`, `MCSfeTcpWindow`, `MCSfeCm`, `MCFastClassifier`, `MCAg71xx`, `MCNvram` | constants for TLC | |
| `ActiveListProofs`, `SfeIpv4Proofs`, `SfeTcpWindowProofs`, `SfeCmProofs`, `FastClassifierProofs`, `Ag71xxProofs`, `NvramProofs` | theorems (section 4) | |
| `Numbers` | lemmas about remainders, least and greatest elements, and sums over finite sets | |

The build of shortcut-fe modelled is the one this tree configures: `CONFIG_XFRM`
and `CONFIG_NF_CONNTRACK_CHAIN_EVENTS` set, `CONFIG_NF_FLOW_COOKIE` not set,
kernel 5.4. The kernel of ath79 has one processor and no preemption.

### 2.1 ActiveList and SfeIpv4

A connection object is a member of `Conn`; it is `free`, in the `table`, or
`detached` (removed and not freed yet). Its two matches are the pairs
`<<c, "original">>` and `<<c, "reply">>`. The active list is kept as the code
keeps it: a head, a tail, and `active_next`, `active_prev` and `active` of each
match. `AppendTail` does not write `active_next`, `UnlinkCounter` does not look
at the head, exactly because the code does not.

One action is one critical section of `si->lock` or one stretch of code between
two of them. A receive that gives a connection up is `RecvFlush` (lookup, tests
and removal under the lock), then `FlushReadCallback`, `FlushSync` and
`FlushRelease`, and the CPU's record says where it is. `create_rule` is
`CreateRuleCheck` (the unlocked test of `reg_state`) and then one of
`CreateRuleCollision`, `CreateRuleNoMemory`, `CreateRuleInsert`.
`destroy_all_rules_for_dev` is a loop of rounds, one removal and flush each.
The periodic sync is `TimerFire`, `TimerBegin`, and `TimerCallback` with
`TimerRelock` for each turn of its loop.

A packet is a device, a protocol, two endpoints and a set of facts that the
tests of the receive path tell apart (`"small_ttl"`, `"slow_flags"`,
`"out_of_window"`, ...). Headers, checksums and statistics that nothing reads
are left out. Bytes are not counted. A lookup may return any entry with the
right key, so the order inside a hash chain does not matter.

### 2.2 SfeEngine, the abstract engine

`SfeEngine` says what both connection managers rely on: at most one rule is in
force for a flow, only a rule in force forwards, and each forwarded packet is
reported once, in a periodic report or when its rule is withdrawn; it is lost
only if nobody listens at that moment. `SfeIpv4Engine` maps a table entry to a
rule in force, the counters of its two matches to its pending packets, and the
CPUs in a flush to workers that owe a report. `SfeCmEngine` maps the reduced
engine inside `SfeCm` in the same way, so the two modules meet in the middle:
the IPv4 engine implements what the connection manager assumes. Its `synced` is
a history variable.

### 2.3 SfeTcpWindow

The endpoints are not part of the repository. They are modelled as RFC 9293
requires: they respect the window, never shrink it, retransmit, probe with the
byte before the first unacknowledged one, and use SACK and D-SACK if they
negotiated it. They count bytes without bound; the engine and conntrack see
numbers modulo `Modulus` (2^32 in the code), with the code's own mix of signed
differences and unsigned comparisons. `UpdateTcpState` also sets the flag that
turns the tests off, which is `no_seq_check` of `SfeIpv4` and not repeated here.

A setting is one connection on one path. `SettingAssumption` demands of it that
what either side sends, plus the window it is sent into, stays below half of the
sequence space. For the windows that is TCP's own rule (RFC 7323 limits the
scale to 14 for it); for the bytes it is the bound of the exploration. Where the
numbers begin is free, so a connection may run across the wrap.

### 2.4 SfeCm

One TCP flow passes through successive conntrack entries. The engine is reduced
to what the connection manager sees of it: one rule or none for the flow (what
`TableIsConsistent` establishes) and a flush that reports what was removed once
(`FlushIsExclusive`). A CPU is in the receive hook, in the stack, at one of the
steps of `sfe_cm_post_routing`, in a conntrack or device event, or in a flush.
`holds` counts the references post_routing holds, for each role of a device.

`sfe_cm_init` and `sfe_cm_exit` are one action for each registration. Leaving an
atomic notifier chain (`nf_conntrack_unregister_chain_notifier`, see the hook
patch, and `unregister_inet6addr_notifier`) waits for the RCU readers that run
at that moment; `rcu_barrier` does not. conntrack marks an entry as dying, so
that no lookup finds it, before it calls the notifiers; a packet that already
refers to the entry keeps it, with the TCP state it had.

The device notifier goes last, and by a call that waits for device events under
way and then shows the leaving handler every device that is up as going down:
the handler so destroys the rules of those devices once more. `up` says whether
one of the flow's two devices is up; a device event may be the end of that, or
be about an address.

### 2.5 FastClassifier

One flow again, with the conntrack entries it has one after the other, and
`Obj`, the memory a connection of the table may occupy, which may be freed and
used again. A packet in the post-routing hook is at one of the steps between
which `sfe_connections_lock` is dropped: looking the flow up, creating the rule,
announcing it, marking it offloaded, allocating and adding a connection. A
destroy event marks and removes the connection, then the rule, then sends DONE.
Either message may fail to go out, for want of memory or of a listener; the flow
is marked as offloaded all the same. So `announced` counts the calls that send
OFFLOADED, `done_msgs` the DONE messages that went out, and a listener that
missed an OFFLOADED may still hear its DONE.
`trouble` is a history variable: it records that one CPU overtook another in a
way the code does not guard against, and the properties say which of these
each of them excepts. That a connection may be freed while another CPU still
uses it behind the unlock needs no exception: what such a CPU writes to an
object, old or used again, is the flag it has just announced, and the flag is
set once the rule is there.

| Recorded | What happened |
|---|---|
| `added_late`, `created_late` | a packet on its way during the destroy event adds a connection, or creates a rule, after it |
| `flushed` | the engine gave the rule up (a device event, a TCP error): nobody tells the table, so the flow is not offloaded again |
| `destroyed_late` | the destroy event of one entry takes away the rule that the next entry of the flow has made |

### 2.6 Ag71xx

A ring is its two free-running counters (`Wrap` for 2^32) and, for each slot,
the bit that says who owns the descriptor and whether a packet or a buffer hangs
on it. The DMA engines run between any two steps: the transmitter from the
descriptor its register points to as far as it finds descriptors, the receiver
likewise. A softirq (transmit, poll, timer) is one action, cut where the DMA
engine can see half of its work; the restart work is cut at every step, since it
runs in process context, sleeps in `napi_disable` and in allocations, and
softirqs run in between. `chip` chooses one of several chips and surroundings,
so that transmit and receive side are explored apart, each with the whole
control around it.

A ring has a power of two of descriptors, times those a packet may take
(`AG71XX_TX_RING_DS_PER_PKT` where a chip splits packets, one elsewhere): 128
packets unless ethtool makes it smaller. With a ring for a single packet,
`ring_size - ring_min` (line 1139) is negative, the comparison is unsigned, and
the queue is never stopped. Resizing is not modelled, and `SizeAssumption` leaves
that size out; `PROJECT.json` has it among the hazards.

Three things the code does, which the properties except by name:

* with no memory for so long that every slot of the receive ring is without a
  buffer, the next poll finds a descriptor that is not empty and runs into the
  driver's own assertion (line 1337): `rx_out_of_ring`;
* a packet that turns out not to fit while it is filled in (line 1064) leaves the
  descriptors behind its first one handed over, and the next packet that does fit
  leads the transmitter into them. The room the queue keeps prevents it, but a
  link that comes up wakes a full queue: `woken_full`;
* the restart work stops the queue, but a poll that cleans something wakes it
  before `napi_disable` (line 1301), and packets go to rings that are about to be
  freed (line 361): `woken_in_restart`, `sent_in_restart`, `no_tx_ring`.

### 2.7 Nvram

An image is a header and a row of cells, each a tuple, the NUL that ends the
list, an erased cell, or a cell behind the end of a short file. A command is
what `main` makes of its command line: whether it opens the store for writing
(which only the first argument decides), its edits, and whether any argument is
`commit`: `nvram show commit` opens for reading and saves what is staged all the
same (`Close`, `Writes`).

| Steps | Code |
|---|---|
| `FindForReading`, `OpenReading`, `ReadRest`, `Close` | `nvram_open_rdonly`: the private locked mapping copies the pages in two parts, which a writer may change in between; the parser then works on the copy |
| `FindStaging`, `ReadFlash`, `CreateStaging`, `Fill`, `FillRest` | `nvram_open_staging`, `nvram_to_staging`; the write of the copy in two parts |
| `OpenStaging`, `CutEntry`, `Restore`, `EndParse` | `nvram_open` for writing and `_nvram_rehash` on the shared mapping: for each entry a NUL over the `=`, then the `=` again; after the last, the edits |
| `Clear`, `WriteTuple`, `EndList`, `CutEntry`, `Restore`, `EndReparse` | `nvram_commit`, and the same `_nvram_rehash` at its end (labels `reparse`, `recut`) |
| `ReadStaging`, `Save`, `SaveRest`, `Unlink` | `staging_to_nvram`; the write of the partition in two parts |
| `Kill`, `PowerLoss` | between any two steps |

A tuple has a flag `eq`, which is FALSE while its `=` is a NUL. A parser that
meets such an entry takes it for the end of the list, as the code does
(`ParseEnd`, `StoreOf`). The `=` is put back at its address whatever is there by
then: where another process has cleared the list or written its own meanwhile,
it may fall on any byte (`Strayed`). A write of the RAM file system may fail for
want of space, a write of the partition with an I/O error.

`may` and `maySaved` are what the variables and the partition may be if commands
take effect in full or not at all. `trouble` records what the code does not
guard against, by what it can cost:

| Cost | Cases in the module |
|---|---|
| `update`: a change is undone or refused | `overlap` of two writers, `recreated`, `unlinked` (the name came to stand for another file), `refused` (the error of a value that is too long is masked by the result of the commit), `full` (a store that is exactly full cannot be opened for writing again, since `header.len` is required to be below the size) |
| `end`: the list has no end | `killed_in_commit`, `killed_in_copy`, `no_space` (the result of the write is not looked at), `faulted`, `torn_copy`, `torn_save`, `mixed_copy` (a copy of the partition to the staging file overlapped a commit or another copy), `over_cut` (a commit or copy wrote over an entry whose `=` a parser has still to put back) |
| `variable`: a variable nobody touched is lost | `interleaved`, `torn_open` (a file was opened whose list had no end, or into which another process had copied only the first part), `dropped` (a tuple that does not fit is left out and success reported), `killed_in_rehash` (while a `=` is a NUL: the rest of the list is lost to the next parser), `io_error`, `torn_unbacked` |

What the properties then say is what is left. A lone writer is all or nothing
under every kill and power cut that hits neither the copy to the staging file,
nor the commit before its end is written, nor the parser while a `=` is a NUL.
Writers that overlap without parsing, committing or copying the same file at the
same time lose updates but nothing else. A reader is told what the variables
were, unless somebody is parsing or writing what it maps. The claims end where
the code does not keep them; the hazards in `PROJECT.json` have the lines.

Two of the cases came out of the search for inductive invariants. With
`mixed_copy` a process that found no staging file copies the partition over the
one another process has created meanwhile (`open` without `O_EXCL` or
`O_TRUNC`); when that other process is in its commit, the copy can put erased
cells over the NUL the commit writes, and the list is left without an end. In
the second half of `torn_open` a process opens the file while another has copied
the first part of the partition over a shorter list. What it sees is a list with
an end, but one that is made of two, with variables missing; its commit makes
that final. The first needs a copy that is cut behind the end of the partition's
list; the second, which the run's constants make possible, needs one that is cut
before it. The theorems cover both.

## 3. Runs

Numbers are distinct states; two workers, each run under five minutes.

| Run | Bounds | Properties |
|---|---|---|
| `sfe_smp` | 2 CPUs and the timer, 2 connections, a UDP flow with NAT and a TCP flow, 2 packets; 343 000 | `TypeOK`, `ActiveListOK`, `FlushIsExclusive`, `DeviceRefsBalanced`, `TableIsConsistent`, `EveryPacketAccounted`, refinement `ImplementsEngine` |
| `sfe_live` | 1 CPU and the timer, 2 connections, a packet for each outcome of the receive path, no symmetry; 105 000 | `ActiveIffUnsynced`, `CounterMatchHasPredecessor`, `RemovedIsFreed`, `ActiveIsSynced`, `SettlesReports` |
| `tcp` | modulus 32, three paths: wrap with loss; SACK and D-SACK away from the wrap; segments that overtake each other | `ConformingNotFlushed`, `EndIsNextByte`, `WindowNeverRecedes` |
| `tcp_sack_wrap` | SACK and wrap | `AckFollowsSack` is violated |
| `tcp_padding` | one byte of Ethernet padding | `EndIsNextByte` is violated |
| `cm` | 2 CPUs, 2 conntrack entries, 2 packets; 4 280 000 | `DeviceHoldsBalanced`, `CreditedOnce`, `DestroyedWithConntrack`, `ExitLeavesNoReader`, `AllDestroyedOnExit` |
| `cm_shutdown` | as `cm` | `ShuttingDownNotManaged` is violated |
| `fast_classifier` | 2 CPUs, 2 entries, 2 objects, offload at the second of 4 packets; 3 620 000 | `OneConnectionPerFlow`, `NoObjectLeaks`, `TableFollowsConntrack`, `RuleFollowsConntrack`, `DoneIsAnnounced`, `OffloadedHasRule` |
| `ag71xx` | three chips: 4 descriptors with hangs and no memory; 8 descriptors, packets in two; 4 buffers with no memory; 3 link changes; 2 340 000 | `TypeOK`, `TxRingOK`, `RxRingOK`, `EarlyOnlyAfterFull`, `LetGoOfRings`, `ReadyIsAnnounced`, `DisabledTwiceOnlyAfterStop` |
| `ag71xx_live` | the first chip with memory, 1 link change; 132 000 | `StoppedIsWoken` |
| `nvram` | 2 processes, 3 files, a store of 3 tuples, of which 2 are there at first, a copy cut after the first, 5 command lines (one of them a read that commits), 3 commands, 1 fault; 934 000 | `TypeOK`, `ViewIsExpected`, `SavedIsExpected`, `ReadIsRecent`, `StagingHasEnd`, `BystandersKept` |

Why the bounds are enough for the questions asked:

* engine: the lock is dropped at most once between a removal and the end of its
  flush, so two CPUs and the timer show every overlap of two handlers with a
  sync; the list operations look at a match, its neighbours and the ends, and
  three matches active at once (the packets of `sfe_live` reach no more) give
  each of them every position;
* window: the tests compare at most two differences, and a window of 2 over a
  modulus of 32 keeps the distances that the code assumes small against half the
  modulus;
* connection managers: two conntrack entries are an old and a new one of a flow,
  two CPUs are the one that overtakes and the one overtaken, and two objects let
  memory be freed and used again;
* ag71xx: rings are a power of two, as in the code; the hysteresis of the queue
  and the hold of the out-of-memory case need two free packets and four buffers.
  `SplitUntroubled` ends the exploration of the split chip at the first trouble,
  where its properties end as well;
* nvram: a lost update needs two writers and a third command to see it, three
  files are the one with the name, an unlinked one in use, and a new one, and the
  store is full with three tuples; two tuples there at first and a copy cut
  after the first let the first part of a copy pass for a whole list, and give a
  parser an entry to lose. The constraint `SomethingClaimed` ends the exploration
  of a behaviour once all three kinds of trouble have happened in it. All that is
  claimed then is that the partition is not short, and that the theorem covers.

`MaxPackets`, `max_bytes`, `max_queue`, `MaxMark`, `link_changes`, `MaxCommands`
and `MaxFaults` are the only bounds on counters, and they are guards of the
actions that would exceed them.

Deadlock is checked in the runs of the engine and of `SfeCm`. Elsewhere the
system may really stop: a flushed TCP connection, a panic of the driver's
assertion, an unloaded module with all packets sent, the last command. Every
property of a passing run has a mutant in `PROJECT.json`, a plausible slip in
the code under which TLC finds the property violated.

Fairness:

* `SfeIpv4`: a handler that runs goes on to its end (softirq context, the code
  never blocks), and the timer keeps firing (it re-arms itself in every run).
  Nothing makes packets or requests arrive. `ActiveIsSynced` is stated for the
  time a callback is registered. `SettlesReports` is the fair abstract engine:
  what is collected or owed is reported or, with nobody listening, dropped.
* `Ag71xx`: interrupts are served, softirqs go on, the transmitter gets on
  unless it hangs, all weakly fair. Processes, the watchdog and the link watch
  are strongly fair: a poll that goes on and on moves to ksoftirqd, which leaves
  them their turns. Nothing makes packets come.

### What the violated properties show

* `tcp_padding`: `end` is computed from the length of the frame; a short frame
  is padded by Ethernet and the engine does not trim it, so `end` passes the
  next byte. The effect is a window test that is a few bytes too tolerant on
  one side and too strict on the other.
* `tcp_sack_wrap`: the right edges of SACK blocks are compared as unsigned
  numbers. Across the wrap a D-SACK block from before it wins, `sack - ack` is
  close to 2^32, and so is the `max_win` that is recorded from then on.
* `cm_shutdown`: the state of the conntrack entry is tested, and only several
  lookups later a rule is made of it. If the entry is deleted in between, its
  only destroy event has passed and the rule stays.

### Two things that look wrong in `sfe_cm_exit`

`rcu_barrier` in `sfe_cm_exit` is not a wait for readers. `ExitLeavesNoReader`
shows that the module can be unloaded all the same, since the two notifier
chains left later do wait, and the last of them is left after the hooks.

"Destroy all connections" comes before the hook that makes rules is
unregistered, so a packet may make one after it. `AllDestroyedOnExit` shows that
it does not stay, if one of its devices is up at the end: unregistering the
device notifier replays the devices to the handler, and by then no packet is in
the hook. Were that notifier the first to go, as in the order of registration, it
would not hold.

`DestroyedWithConntrack` holds with two exceptions that its statement names: the
case of `cm_shutdown`, and entries deleted while the notifier was not registered
(during load after the hooks, and during unload).

## 4. Proofs

The theorems hold for every value of the constants that satisfies the named
assumptions of the module. Every invariant of a passing run is a theorem.

| Property of a run | Theorem |
|---|---|
| `SfeIpv4`: `TypeOK`, `ActiveListOK`, `FlushIsExclusive`, `TableIsConsistent`, `ActiveIffUnsynced`, `CounterMatchHasPredecessor` | `TypeCorrect`, `ActiveListCorrect`, `FlushExclusive`, `TableConsistent`, `ActiveExactlyWhenUnsynced`, `CounterMatchUnlinkSafe` |
| `SfeIpv4`: `DeviceRefsBalanced`, `EveryPacketAccounted` | `DeviceRefsAreReleased`, `PacketsAccounted` |
| `SfeIpv4Engine`: `ImplementsEngine` | `EngineIsImplemented` |
| `SfeTcpWindow`: `EndIsNextByte`, `ConformingNotFlushed`, `WindowNeverRecedes` | `EndFollowsBytes`, `ConformingIsForwarded`, `WindowAdvances` |
| `SfeCm`: `DestroyedWithConntrack`, `ExitLeavesNoReader`, `AllDestroyedOnExit`, `DeviceHoldsBalanced`, `CreditedOnce` | `RulesFollowConntrack`, `NoReaderAfterExit`, `NothingLeftOnExit`, `DevicesAreReleased`, `PacketsCreditedOnce` |
| `FastClassifier`: `OneConnectionPerFlow`, `NoObjectLeaks`, `TableFollowsConntrack`, `RuleFollowsConntrack`, `DoneIsAnnounced`, `OffloadedHasRule` | `FlowIsThereOnce`, `ObjectsAreOwned`, `TableFollows`, `RuleFollows`, `DoneAfterAnnounced`, `FlagMeansRule` |
| `Ag71xx`: `TypeOK`, `TxRingOK`, `RxRingOK`, `EarlyOnlyAfterFull`, `LetGoOfRings`, `ReadyIsAnnounced`, `DisabledTwiceOnlyAfterStop` | `TypeCorrect`, `TxRingFollows`, `RxRingFollows`, `NoPacketBeforeItsTime`, `RingsAreLetGo`, `NothingWaitsUnannounced`, `RestartMayWait` |
| `Nvram`: `TypeOK`, `StagingHasEnd`, `BystandersKept`, `ViewIsExpected`, `SavedIsExpected`, `ReadIsRecent` | `TypeCorrect`, `StagingAlwaysHasEnd`, `BystandersAlwaysKept`, `ViewAlwaysExpected`, `SavedAlwaysExpected`, `ReadAlwaysRecent` |

Four theorems state what no run lists as a property: `Invariance` and
`AppendNeedsNoWrite` of `SfeIpv4Proofs`, `EngineIsAssumed` of `SfeCmProofs`,
that the engine inside `SfeCm` implements the abstract one (`HistorySpec =>
AssumesEngine`), and `TypeCorrect` of `FastClassifierProofs`.

### 4.1 The active list and the IPv4 engine

`ActiveListProofs` shows what each list operation does to a well-formed list.
`IsListOf(L, S)` says that the pointers form one doubly linked list of exactly
the matches in `S`: there is an enumeration of `S` along which `active_next` and
`active_prev` run. For each operation the new enumeration is given explicitly,
and the lemmas `AppendTailList`, `UnlinkList`, `UnlinkCounterList` and
`PopHeadList` state the result without it.

The invariant of `SfeIpv4Proofs` is the conjunction of `TypeOK`,
`HandlersHaveRules`, `FlushIsExclusive`, `TableIsConsistent`, `ActiveListOK`,
`InactiveHasNoNext` and `ActiveIffUnsynced`. None of the interesting parts is
inductive alone. `ActiveListOK` needs `InactiveHasNoNext`, because the append
leaves `active_next` as it is. It also needs `FlushIsExclusive`, because a new
connection may reuse the memory of a freed one and must not find it on the list
or under another CPU's hand. `HandlersHaveRules` says that a connection in use
and a create request under way have a rule, which the counts of the table need.
The proof has one step for each action; the removal, the turn of the sync loop,
the insertion and the release are lemmas, since several actions share them or
they touch most of the state.

`CountInv` adds what is counted. A device holds one reference for each match in
`HeldBy(d)`, the matches of connections that are not free: an insertion adds the
two matches of one connection, a release takes them away, and nothing else
changes the set. A packet is in the counter of a match, in the hand of the
timer, reported, or lost with nobody listening, and `FreeCountsNothing` (the
counters of memory not in use are zero) makes the insertion neutral.

The refinement rests on `PendingByConnection`: a rule in force belongs to one
connection of the table (`TableIsConsistent`), so what the abstract engine has
pending for the rule is what the two matches of that connection count. Each
action then maps to one step of `SfeEngine` or to none: a forwarded packet to
`Forward`, a removal to `Withdraw`, the timer's turn to `Collect` and
`ReportCollected`, the end of a flush to `ReportOwed` or `LoseOwed`.

Assumptions: `Conn` is finite, `NULL` is neither a match nor a rule,
`SyncDivisor` is positive (64 in the code), `Removable` are devices, rules name
devices, and `MaxPackets` is a natural number.

### 4.2 The TCP window

`SfeTcpWindowProofs` shows that window tracking is right for a connection that
conforms, for any modulus, initial sequence numbers, window scales and windows.
The code sees remainders and compares them by signed or unsigned differences;
the proof keeps, beside each of the engine's and conntrack's values, the number
it is the remainder of, and shows that numbers that are compared are less than
half of the space apart (`S32Exact`). The invariant says:

* `SenderOK`: a sender keeps within the window it was given, which is at most
  the largest the engine has recorded; a receiver has only bytes the engine saw;
* `EndOK`, `MaxEndOK`, `MaxWinOK`: `end` is exactly the highest byte seen,
  `max_end` lies at or ahead of what the sender may use, and what conntrack
  holds is at most as new;
* `SegmentOK`: what a segment on the way carries was sent, and it is within the
  bounds its sender had;
* `OrderOK`: on a path that keeps the order, a segment is at most a window
  behind what the engine saw before it, and acknowledgements do not go back.

From it each of the four window tests passes, one after the other
(`FirstIsInWindow`), so the connection is not given up, and each update of the
record moves it forward.

The three theorems have the hypothesis `Conforming`: no path pads its frames,
and where SACK is in use no connection crosses the wrap. Both conditions are
needed, and the runs `tcp_padding` and `tcp_sack_wrap` show what happens without
them: the two runs that are expected to fail are the two cases the theorem
leaves out.

Assumptions: `ModulusAssumption` (positive and even) and `SettingAssumption`
(section 2.3).

### 4.3 The connection manager

The invariant of `SfeCmProofs` adds two parts to `TypeOK`,
`DestroyedWithConntrack` and `AllDestroyedOnExit`. `HooksFollowModule` says which hooks are in place at
each point of load and unload. `ExitWaitsForReaders` is the argument for
unloading: when the last grace period begins no hook is left, so nobody gets in
any more but by a device event, and every other CPU that is inside is among
those that are waited for; the device events are waited for when their notifier
goes. So nobody is in the hook when the rules are destroyed for the last time,
and `AllDestroyedOnExit` follows. `DestroyedWithConntrack` is
inductive with the types: an event only ends when the rule is gone. The
refinement maps each step of a CPU, the timer and the loading process to one step
of `SfeEngine` or to none: a removal to `Withdraw`, the end of a flush to
`ReportOwed` or, without a callback, to `LoseOwed`.

`DeviceHoldsBalanced` only speaks of the moments when nobody is in post_routing.
Its strengthening `HoldersCounted` says at every moment that a device is held once
for each CPU that holds it (`Held(k)`, read off the position in
`sfe_cm_post_routing`), on every error path. `CreditedOnce` needs `OneLive`: a
sync credits the entry that a lookup finds, and conntrack has one that can be
found.

Assumptions: `NULL` is no conntrack entry, number or rule; CPUs and entries are
finite; the process that loads and unloads the module, a worker of the abstract
engine, is not a CPU.

### 4.4 fast-classifier

`ObjectsOK` says that every object that is not free is in the table or in the
hand of the one CPU that is about to add it, and that the table has one entry at
most; this gives `OneConnectionPerFlow` and `NoObjectLeaks`, although the lookup
and the addition take the lock separately: the addition looks again.
`EventsPending` has the two properties about conntrack, which the destroy event
keeps step by step. `RuleThere` strengthens `OffloadedHasRule` to objects not
yet in the table and to CPUs on their way from `create_rule` to the flag, whose
write lands behind the unlock. `DoneIsAnnounced` compares two counters of
messages, so its strengthening `MessagesCounted` counts everything that may
still send one: a DONE that was sent or is owed, a flag that is about to be set,
and an object with the flag each have an announcement of their own.

Assumptions: CPUs, entries and objects are finite, `NULL` is none of the values
it stands beside, offloading begins at the first packet or later.

### 4.5 ag71xx

The rings are the hard part. `TxAt(n)` and `RxAt(n)` are the slots counted from
`dirty`; the free-running counters wrap at `Wrap`, a multiple of the ring's
size, so that `curr - dirty` and the slots stay in step across it. The invariant
then says, for the receiver, that the DMA engine has filled the next `q`
descriptors behind those the poll has taken and no other (`Received`), and for
the transmitter that it has sent the first `p` of those in use (`Sent`).
`TxReady` says that packets hang only on descriptors in use, that the
descriptors behind them are empty except those of the one packet that is being
filled in, and that a running queue has room for a full packet. `Listening` says
that whenever no poll is under way the interrupt is on or the timer runs.
`ControlOK` and `EnginesOut` fix which steps of the restart exclude which, and
hold without exception; the rest is stated for `trouble = {}`, the three things
of section 2.6. `SmallRing` is the reason for the form of `SizeAssumption`: with
room for exactly two packets, the queue runs only when the ring is empty.

Assumptions: ring sizes divide `Wrap` (2^32 and powers of two in the code) and
are smaller; the transmit ring takes two full packets, or four and more; the
budget of a poll is positive.

### 4.6 nvram

The invariant has four layers, each of which holds under a weaker or stronger
condition on `trouble`, so that a theorem rests on no more than it needs.

* `Shape`, always: types, which positions have a file, a buffer or a command
  that writes, and that neither the partition nor a buffer is short. This gives
  the second half of `SavedIsExpected`, which nothing that goes wrong disturbs.
* `Ends`, while no list has lost its end: every file somebody uses has an end,
  or somebody is in the middle of giving it one. A commit counts for that only
  as long as nothing but tuples lies before the cell it writes next (`Below`).
  That is kept when another commit clears the file, because then the other one
  has still to write it all, and when another ends its list earlier, because
  then the list has an end. It needs `CopyAlone`, which is where `mixed_copy`
  comes from, and `Cuts`, which is where `over_cut` does: the entry whose `=` a
  parser has covered is still there when it comes to put it back, and no other
  parser has covered the same one, so that the `=` falls where it belongs.
* `Keeping`, as long as at most updates are lost: one process at a time is half
  way through a file (`OneWriter`), be it a copy, a commit or a parse, so the
  file is exactly what this one has made of it so far (`HalfOK`): in a commit
  tuples of its table, then erased cells, and what is missing is still to be
  written (`WrittenSoFar`); in a parse every `=` is there but the one covered, and
  the table holds the entries before it (`ParseOK`). And what nobody names is
  right in every file that nobody is half way through, in every buffer and every
  table.
* `Alone`, without any trouble: there is one writer (`OneWriting`); what it has
  in hand is a store of `may`, or one of those with its command applied
  (`WriterOK`); and a reader's `seen` includes what is there now and what will be
  there (`ReaderOK`), which covers the copy of which it has only the first pages.

The variables in a file are looked at in two ways. `StoreOf` is what a parser
finds, which ends at the first entry without `=`; `ListStore` goes to the end of
the list and does not change while a `=` is a NUL. The invariants speak of
`ListStore`; the properties, which speak of `StoreOf`, follow where every `=` is
there (`AllRead`, `ReadAll`).

The lemmas about images come first: `ListedNames` (a table's names are listed
once each, by an argument with a least counterexample as in section 4.7, since
`Listed` is a recursive function), `SameList`, `CopyIsWhole`, `ListHolds`, and
`EndedIsWhole` (a list that has been written to its end holds exactly the
table).

Assumptions: `StoreAssumption` (a name is in the order of the hash table once,
and the first store fits the partition with room to spare), `CommandAssumption`
(a command that opens for reading edits nothing, but it may commit), `CellAssumption` and
`NoImageAssumption` (the special cells and values are none of the ordinary
ones). The number of processes and files is arbitrary, even infinite.

### 4.7 Numbers

Sums (`EveryPacketAccounted`, `CreditedOnce`, `Packets`) are written with the
community modules' `SumFunctionOnSet`, a recursive function on subsets. The
library's induction theorems take an operator as a parameter, which the
installed provers cannot instantiate; where an induction is needed, `Numbers`
argues with a least counterexample instead (`LeastNat`, `GreatestNat`: a
non-empty set of natural numbers has a least element, one that is bounded a
greatest). `SumExists` shows in this way that the sum is defined for a finite
set, and `SumChange` that changing one value changes it by the difference.

### 4.8 Checked by TLC only

* liveness, `RemovedIsFreed`, `ActiveIsSynced`, `SettlesReports`,
  `StoppedIsWoken`: fairness and `ENABLED` are out of the prover's reach;
* absence of deadlock, for the same reason;
* the three runs that are expected to fail: they are counterexamples.

## 5. Not modelled

* **The IPv6 engine**, `sfe_ipv6.c`. It was compared with `sfe_ipv4.c` line by
  line, with the names normalised. Control, locks, list operations and flush are
  those of `SfeIpv4`; a second module would repeat it with another name. The
  differences are in data that the model abstracts: wider addresses, no header
  checksum, hop limit for TTL, extension headers in place of IP options. One of
  them is a peculiarity: the ICMPv6 path walks the extension headers of the
  quoted packet but then looks at the `nexthdr` of the quoted header itself, so an
  error about a packet with extension headers does not find its connection.
* In the IPv4 engine: `mark_rule`, the debug character device and its reader
  loop, hash chain order, checksum adjustment, byte counts, flow cookies
  (compiled out), ownership of packet buffers, exception counters.
* In the connection manager: exception counters and sysfs, conntrack timeouts,
  failure to create the sysfs objects (nothing is registered yet at that point).
* In fast-classifier: the start of the module, sysfs, the receive and sync
  callbacks (those of `sfe_cm.c`), the hash of the table.
* In ag71xx: ethtool's ring resize, speed and duplex registers (a change of
  either while the link stays up is to the rings what a link that goes down and
  comes up is), MDIO and PHY, debugfs.
* In nvram: the `sdram_` parameters the header repeats, the checksum (no reader
  of the tool checks it), the search for the magic number, `info`, and the edits
  of a `set` behind a leading `get`, which stay in that command's private memory.
* The parts of section 1.2: scripts and build rules have no run-time state; the
  vendor drivers for switches and DSL are register access to hardware that the
  repository does not describe; mtdsplit parsers and firmware tools are
  sequential and keep no state between calls; hostapd itself is not in the
  repository.

`PROJECT.json` lists under `hazards` what is hard to test in this code, with the
properties that cover it, or why none does: for some the code gives no promise
to check against, others are named as exceptions by the properties above.

## 6. Plan

Done: the inventory; the IPv4 engine with its active list, TCP window tracking,
the connection manager, fast-classifier, ag71xx and nvram, checked and proved;
the abstract engine and both refinements, checked and proved.

Next, in this order:

1. an abstract store of variables that `Nvram` implements while there is no
   trouble;
2. the hash chains and the `all_connections` list, as a refinement of the set
   lookups of `SfeIpv4`, with `mark_rule` and the debug reader's walk;
3. the checksum adjustment as operators checked against a recomputed checksum;
4. `trelay` and the button drivers, which have timers and removal races of their
   own.
