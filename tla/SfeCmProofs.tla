---------------------------- MODULE SfeCmProofs ----------------------------
(***************************************************************************)
(* Proofs about SfeCm and SfeCmEngine for any number of CPUs, conntrack    *)
(* entries and packets.                                                    *)
(***************************************************************************)
EXTENDS SfeCmEngine, Numbers

\* The hooks that are in place at each point of sfe_cm_init and sfe_cm_exit.
HooksFollowModule ==
    /\ "dev" \in registered <=> module \notin {"unloaded", "exit_replay", "gone"}
    /\ "post_routing" \in registered
          <=> module \notin {"unloaded", "init_hooks", "exit_inet6", "exit_last_wait",
                             "exit_dev", "exit_replay", "gone"}
    /\ "conntrack" \in registered
          <=> module \notin {"unloaded", "init_hooks", "init_notifier", "exit_wait",
                             "exit_hooks", "exit_inet6", "exit_last_wait", "exit_dev",
                             "exit_replay", "gone"}
    /\ "recv" \in registered <=> module \in {"init_sync", "running", "exit_recv"}
    /\ "sync" \in registered <=> module = "running"

\* A CPU that is in the module's code, or in a flush that will return to it.
Inside(k) == InModule(k) \/ (At(k, "flush") /\ cpu[k].then = "round")

\* The last grace period of sfe_cm_exit waits for every CPU that is inside, but
\* for the handlers of device events, which the unregistration of the device
\* notifier waits for: no other CPU gets in any more.
ExitWaitsForReaders ==
    /\ module = "exit_last_wait" => \A k \in Cpu : Inside(k) => cpu[k].old \/ InDeviceEvent(k)
    /\ module = "exit_dev" => timer = NULL /\ \A k \in Cpu : Inside(k) => InDeviceEvent(k)
    /\ module \in {"exit_replay", "gone"} => timer = NULL /\ \A k \in Cpu : ~Inside(k)

\* The inductive invariant.
Inv ==
    /\ TypeOK
    /\ HooksFollowModule
    /\ ExitWaitsForReaders
    /\ DestroyedWithConntrack
    /\ AllDestroyedOnExit

-----------------------------------------------------------------------------
\* The updates of a CPU's state keep its type.
LEMMA CpuStateUpdates ==
    ASSUME NEW s \in CpuState, NEW pc \in Pc, NEW n \in Nat, NEW then \in {"idle", "linux", "round"}
    PROVE  /\ [s EXCEPT !.pc = pc, !.count = n, !.then = then] \in CpuState
           /\ [s EXCEPT !.pc = pc] \in CpuState
           /\ [s EXCEPT !.old = TRUE] \in CpuState
           /\ s.then \in Pc /\ Idle \in CpuState
           /\ \A t \in Ct : [s EXCEPT !.pc = pc, !.ct = t] \in CpuState
           /\ \A B \in SUBSET {"src_br", "dest_br"} : [s EXCEPT !.pc = pc, !.bridges = B] \in CpuState
<1> DEFINE Bridges == SUBSET {"src_br", "dest_br"}
<1>1. CpuState = [pc : Pc, ct : Ct \cup {NULL}, count : Nat, then : {"idle", "linux", "round"},
                  bridges : Bridges, old : BOOLEAN]
  BY DEF CpuState
<1>2. {} \in Bridges /\ "idle" \in Pc /\ "linux" \in Pc /\ "round" \in Pc
  BY DEF Pc
<1> HIDE DEF Bridges
<1>3. /\ [s EXCEPT !.pc = pc, !.count = n, !.then = then] \in CpuState
      /\ [s EXCEPT !.pc = pc] \in CpuState
      /\ [s EXCEPT !.old = TRUE] \in CpuState
  BY <1>1
<1>4. s.then \in Pc /\ Idle \in CpuState
  BY <1>1, <1>2 DEF Idle
<1>5. \A t \in Ct : [s EXCEPT !.pc = pc, !.ct = t] \in CpuState
  BY <1>1
<1>6. \A B \in Bridges : [s EXCEPT !.pc = pc, !.bridges = B] \in CpuState
  BY <1>1
<1>7. QED
  BY <1>3, <1>4, <1>5, <1>6 DEF Bridges

\* The CPUs keep their types and entries if the one that moves does.
CpusTyped ==
    /\ cpu \in [Cpu -> CpuState]
    /\ \A k \in Cpu : cpu[k].pc \in {"post", "event"} \cup PostRoutingPc => cpu[k].ct \in Ct

\* A step of one CPU moves no other.
LEMMA CpuMoves ==
    ASSUME TypeOK, NEW k \in Cpu, NEW s \in CpuState, cpu' = [cpu EXCEPT ![k] = s],
           s.pc \in {"post", "event"} \cup PostRoutingPc => s.ct \in Ct
    PROVE  CpusTyped' /\ cpu'[k] = s /\ \A j \in Cpu \ {k} : cpu'[j] = cpu[j]
<1>1. cpu \in [Cpu -> CpuState]
  BY DEF TypeOK
<1>2. cpu' \in [Cpu -> CpuState] /\ cpu'[k] = s /\ \A j \in Cpu \ {k} : cpu'[j] = cpu[j]
  BY <1>1
<1>3. ASSUME NEW j \in Cpu, cpu'[j].pc \in {"post", "event"} \cup PostRoutingPc PROVE cpu'[j].ct \in Ct
  BY <1>2, <1>3 DEF TypeOK
<1>4. QED
  BY <1>2, <1>3 DEF CpusTyped

\* A CPU goes on at pc.
LEMMA GotoMoves ==
    ASSUME TypeOK, NEW k \in Cpu, NEW pc \in Pc, Goto(k, pc),
           pc \in {"post", "event"} \cup PostRoutingPc => cpu[k].ct \in Ct
    PROVE  /\ CpusTyped'
           /\ cpu'[k] = IF pc = "idle" THEN Idle ELSE [cpu[k] EXCEPT !.pc = pc]
           /\ cpu'[k].pc = pc
           /\ pc # "idle" => cpu'[k].old = cpu[k].old
           /\ \A j \in Cpu \ {k} : cpu'[j] = cpu[j]
<1> DEFINE s == IF pc = "idle" THEN Idle ELSE [cpu[k] EXCEPT !.pc = pc]
<1>1. cpu[k] \in CpuState
  BY DEF TypeOK
<1>2. s \in CpuState
  BY <1>1, CpuStateUpdates
<1>3. s.pc = pc /\ (pc # "idle" => s.ct = cpu[k].ct /\ s.old = cpu[k].old)
  BY <1>1 DEF Idle, CpuState
<1>4. cpu' = [cpu EXCEPT ![k] = s]
  BY DEF Goto
<1>5. s.pc \in {"post", "event"} \cup PostRoutingPc => s.ct \in Ct
  BY <1>3 DEF PostRoutingPc
<1> HIDE DEF s
<1>6. CpusTyped' /\ cpu'[k] = s /\ \A j \in Cpu \ {k} : cpu'[j] = cpu[j]
  BY <1>2, <1>4, <1>5, CpuMoves
<1>7. QED
  BY <1>3, <1>6 DEF s

\* A flush is over: the CPU goes on at one of three places.
LEMMA FlushDoneMoves ==
    ASSUME TypeOK, NEW k \in Cpu, FlushDone(k)
    PROVE  /\ CpusTyped'
           /\ cpu'[k].pc = cpu[k].then /\ cpu[k].then \in {"idle", "linux", "round"}
           /\ cpu'[k].pc # "idle" => cpu'[k].old = cpu[k].old
           /\ \A j \in Cpu \ {k} : cpu'[j] = cpu[j]
<1> DEFINE s == IF cpu[k].then = "idle" THEN Idle
                ELSE [cpu[k] EXCEPT !.pc = cpu[k].then, !.count = 0, !.then = "idle"]
<1>1. cpu[k] \in CpuState /\ cpu[k].then \in {"idle", "linux", "round"}
  BY DEF TypeOK, CpuState
<1>2. s \in CpuState
  <2>1. "idle" \in Pc /\ cpu[k].then \in Pc /\ 0 \in Nat /\ "idle" \in {"idle", "linux", "round"}
    BY <1>1 DEF Pc
  <2>2. Idle \in CpuState
    BY <1>1, <2>1, CpuStateUpdates
  <2>3. [cpu[k] EXCEPT !.pc = cpu[k].then, !.count = 0, !.then = "idle"] \in CpuState
    BY <1>1, <2>1, CpuStateUpdates
  <2>4. QED
    BY <2>2, <2>3
<1>3. s.pc = cpu[k].then /\ (s.pc # "idle" => s.old = cpu[k].old)
  BY <1>1 DEF Idle, CpuState
<1>4. cpu' = [cpu EXCEPT ![k] = s]
  BY DEF FlushDone
<1> HIDE DEF s
<1>5. s.pc \notin {"post", "event"} \cup PostRoutingPc
  BY <1>1, <1>3 DEF PostRoutingPc
<1>6. CpusTyped' /\ cpu'[k] = s /\ \A j \in Cpu \ {k} : cpu'[j] = cpu[j]
  BY <1>2, <1>4, <1>5, CpuMoves
<1>7. QED
  BY <1>1, <1>3, <1>6

\* A flush begins.
LEMMA RemoveAndFlushMoves ==
    ASSUME TypeOK, NEW k \in Cpu, NEW then \in {"idle", "linux", "round"}, RemoveAndFlush(k, then)
    PROVE  /\ CpusTyped'
           /\ cpu'[k].pc = "flush" /\ cpu'[k].count = rule.unsynced /\ cpu'[k].then = then
           /\ cpu'[k].old = cpu[k].old
           /\ rule \in RuleType /\ rule # NULL /\ rule' = NULL
           /\ \A j \in Cpu \ {k} : cpu'[j] = cpu[j]
<1> DEFINE s == [cpu[k] EXCEPT !.pc = "flush", !.count = rule.unsynced, !.then = then]
<1>1. rule \in RuleType /\ rule # NULL /\ rule' = NULL /\ rule.unsynced \in Nat
  BY DEF RemoveAndFlush, TypeOK, RuleType
<1>2. cpu[k] \in CpuState /\ "flush" \in Pc
  BY DEF TypeOK, Pc
<1>3. s \in CpuState
  BY <1>1, <1>2, CpuStateUpdates
<1>4. s.pc = "flush" /\ s.count = rule.unsynced /\ s.then = then /\ s.old = cpu[k].old
  BY <1>2 DEF CpuState
<1>5. cpu' = [cpu EXCEPT ![k] = s]
  BY DEF RemoveAndFlush
<1> HIDE DEF s
<1>6. s.pc \notin {"post", "event"} \cup PostRoutingPc
  BY <1>4 DEF PostRoutingPc
<1>7. QED
  BY <1>1, <1>3, <1>4, <1>5, <1>6, CpuMoves

-----------------------------------------------------------------------------
\* Types: packets, up to the point where conntrack has found their entry.
LEMMA PacketTyped ==
    ASSUME TypeOK, NEW k \in Cpu,
           \/ PacketIn(k) \/ RecvForward(k) \/ RecvPassUp(k) \/ RecvFlush(k)
           \/ LinuxDrop(k) \/ Conntrack(k) \/ PostRoutingIgnore(k) \/ PostRouting(k)
    PROVE  TypeOK'
<1>1. CASE PacketIn(k)
  <2>1. CpusTyped'
    BY <1>1, GotoMoves DEF PacketIn, Pc, PostRoutingPc
  <2>2. QED
    BY <1>1, <2>1 DEF PacketIn, TypeOK, CpusTyped
<1>2. CASE RecvForward(k)
  <2>1. CpusTyped'
    BY <1>2, GotoMoves DEF RecvForward, Pc, PostRoutingPc
  <2>2. rule' \in RuleType /\ forwarded' \in Nat
    BY <1>2 DEF RecvForward, RuleType, TypeOK
  <2>3. QED
    BY <1>2, <2>1, <2>2 DEF RecvForward, TypeOK, CpusTyped
<1>3. CASE RecvPassUp(k)
  <2>1. CpusTyped'
    BY <1>3, GotoMoves DEF RecvPassUp, Pc, PostRoutingPc
  <2>2. QED
    BY <1>3, <2>1 DEF RecvPassUp, TypeOK, CpusTyped
<1>4. CASE RecvFlush(k)
  <2>1. CpusTyped' /\ rule' = NULL
    BY <1>4, RemoveAndFlushMoves DEF RecvFlush
  <2>2. QED
    BY <1>4, <2>1 DEF RecvFlush, TypeOK, CpusTyped
<1>5. CASE LinuxDrop(k)
  <2>1. CpusTyped'
    BY <1>5, GotoMoves DEF LinuxDrop, Pc, PostRoutingPc
  <2>2. QED
    BY <1>5, <2>1 DEF LinuxDrop, TypeOK, CpusTyped
<1>6. CASE Conntrack(k)
  <2>1. PICK t \in Ct : /\ \E x \in CtState : ct' = [ct EXCEPT ![t] = x]
                        /\ cpu' = [cpu EXCEPT ![k] = [cpu[k] EXCEPT !.pc = "post", !.ct = t]]
    BY <1>6 DEF Conntrack, TypeOK, Tracked, CtState
  <2>2. cpu[k] \in CpuState /\ "post" \in Pc
    BY DEF TypeOK, Pc
  <2>3. [cpu[k] EXCEPT !.pc = "post", !.ct = t] \in CpuState
    BY <2>2, CpuStateUpdates
  <2>4. [cpu[k] EXCEPT !.pc = "post", !.ct = t].ct = t
    BY <2>2 DEF CpuState
  <2>5. CpusTyped'
    BY <2>1, <2>3, <2>4, CpuMoves
  <2>6. ct' \in [Ct -> CtState]
    BY <2>1 DEF TypeOK
  <2>7. QED
    BY <1>6, <2>5, <2>6 DEF Conntrack, TypeOK, CpusTyped
<1>7. CASE PostRoutingIgnore(k)
  <2>1. CpusTyped'
    BY <1>7, GotoMoves DEF PostRoutingIgnore, Pc, PostRoutingPc
  <2>2. QED
    BY <1>7, <2>1 DEF PostRoutingIgnore, TypeOK, CpusTyped
<1>8. CASE PostRouting(k)
  <2>1. CpusTyped'
    BY <1>8, GotoMoves DEF PostRouting, At, TypeOK, Pc, PostRoutingPc
  <2>2. QED
    BY <1>8, <2>1 DEF PostRouting, TypeOK, CpusTyped
<1>9. QED
  BY <1>1, <1>2, <1>3, <1>4, <1>5, <1>6, <1>7, <1>8

\* What a device is held is a number after every way out of sfe_cm_post_routing.
LEMMA HoldsTyped ==
    ASSUME TypeOK
    PROVE  /\ \A d \in Device : Hold(d) => holds' \in [Device -> Int]
           /\ \A S : Put(S) => holds' \in [Device -> Int]
<1>1. \A d \in Device : Hold(d) => holds' \in [Device -> Int]
  BY DEF TypeOK, Hold
<1>2. ASSUME NEW S, Put(S) PROVE holds' \in [Device -> Int]
  BY <1>2 DEF TypeOK, Put
<1>3. QED
  BY <1>1, <1>2

\* Types: a packet in sfe_cm_post_routing.
LEMMA PostRoutingTyped ==
    ASSUME TypeOK, NEW k \in Cpu,
           \/ FindSource(k) \/ FindTranslated(k) \/ FindDestination(k)
           \/ SourceBridge(k) \/ DestBridge(k) \/ CreateRule(k)
    PROVE  TypeOK'
<1>1. ASSUME cpu[k].pc \in PostRoutingPc, NEW pc \in {"find_xlate", "find_dest", "src_bridge", "dest_bridge", "create", "idle"},
             Goto(k, pc)
      PROVE  CpusTyped'
  BY <1>1, GotoMoves DEF TypeOK, Pc, PostRoutingPc
<1>2. ASSUME cpu[k].pc \in PostRoutingPc, NEW pc \in {"dest_bridge", "create"},
             NEW B \in SUBSET {"src_br", "dest_br"},
             cpu' = [cpu EXCEPT ![k] = [cpu[k] EXCEPT !.pc = pc, !.bridges = B]]
      PROVE  CpusTyped'
  <2>1. cpu[k] \in CpuState /\ cpu[k].ct \in Ct
    BY <1>2 DEF TypeOK
  <2>2. [cpu[k] EXCEPT !.pc = pc, !.bridges = B] \in CpuState
    <3>1. pc \in Pc /\ 0 \in Nat /\ "idle" \in {"idle", "linux", "round"}
      BY <1>2 DEF Pc, PostRoutingPc
    <3>2. QED
      BY <1>2, <2>1, <3>1, CpuStateUpdates
  <2>3. [cpu[k] EXCEPT !.pc = pc, !.bridges = B].ct = cpu[k].ct
    BY <2>1 DEF CpuState
  <2>4. QED
    BY <1>2, <2>1, <2>2, <2>3, CpuMoves
<1>3. {"src", "dest", "src_br", "dest_br"} = Device
  BY DEF Device
<1>4. CASE FindSource(k)
  <2>1. CpusTyped' /\ holds' \in [Device -> Int]
    BY <1>1, <1>3, <1>4, HoldsTyped DEF FindSource, At, PostRoutingPc, TypeOK
  <2>2. QED
    BY <1>4, <2>1 DEF FindSource, TypeOK, CpusTyped
<1>5. CASE FindTranslated(k)
  <2>1. CpusTyped' /\ holds' \in [Device -> Int]
    BY <1>1, <1>5, HoldsTyped DEF FindTranslated, At, PostRoutingPc, TypeOK
  <2>2. QED
    BY <1>5, <2>1 DEF FindTranslated, TypeOK, CpusTyped
<1>6. CASE FindDestination(k)
  <2>1. CpusTyped' /\ holds' \in [Device -> Int]
    BY <1>1, <1>3, <1>6, HoldsTyped DEF FindDestination, At, PostRoutingPc, TypeOK
  <2>2. QED
    BY <1>6, <2>1 DEF FindDestination, TypeOK, CpusTyped
<1>7. CASE SourceBridge(k)
  <2>1. cpu[k].pc \in PostRoutingPc
    BY <1>7 DEF SourceBridge, At, PostRoutingPc
  <2>2. holds' \in [Device -> Int]
    BY <1>3, <1>7, HoldsTyped DEF SourceBridge, TypeOK
  <2>3. CpusTyped'
    <3>1. \/ \E pc \in {"dest_bridge", "idle"} : Goto(k, pc)
          \/ cpu' = [cpu EXCEPT ![k] = [cpu[k] EXCEPT !.pc = "dest_bridge", !.bridges = {"src_br"}]]
      BY <1>7 DEF SourceBridge
    <3>2. {"src_br"} \in SUBSET {"src_br", "dest_br"}
      OBVIOUS
    <3>3. QED
      BY <1>1, <1>2, <2>1, <3>1, <3>2
  <2>4. QED
    BY <1>7, <2>2, <2>3 DEF SourceBridge, TypeOK, CpusTyped
<1>8. CASE DestBridge(k)
  <2>1. cpu[k].pc \in PostRoutingPc
    BY <1>8 DEF DestBridge, At, PostRoutingPc
  <2>2. holds' \in [Device -> Int]
    BY <1>3, <1>8, HoldsTyped DEF DestBridge, TypeOK
  <2>3. cpu[k].bridges \cup {"dest_br"} \in SUBSET {"src_br", "dest_br"}
    BY DEF TypeOK, CpuState
  <2>4. CpusTyped'
    <3>1. \/ \E pc \in {"create", "idle"} : Goto(k, pc)
          \/ cpu' = [cpu EXCEPT ![k] = [cpu[k] EXCEPT !.pc = "create",
                                                       !.bridges = cpu[k].bridges \cup {"dest_br"}]]
      BY <1>8 DEF DestBridge
    <3>2. ASSUME NEW pc \in {"create", "idle"}, Goto(k, pc) PROVE CpusTyped'
      BY <1>1, <2>1, <3>2
    <3>3. CASE cpu' = [cpu EXCEPT ![k] = [cpu[k] EXCEPT !.pc = "create",
                                                        !.bridges = cpu[k].bridges \cup {"dest_br"}]]
      BY <1>2, <2>1, <2>3, <3>3
    <3>4. QED
      BY <3>1, <3>2, <3>3
  <2>5. QED
    BY <1>8, <2>2, <2>4 DEF DestBridge, TypeOK, CpusTyped
<1>9. CASE CreateRule(k)
  <2>1. CpusTyped' /\ holds' \in [Device -> Int] /\ cpu[k].ct \in Ct
    BY <1>1, <1>9, HoldsTyped DEF CreateRule, At, PostRoutingPc, TypeOK
  <2>2. rule' # NULL => rule' \in RuleType
    BY <1>9, <2>1 DEF CreateRule, TypeOK, RuleType
  <2>3. QED
    BY <1>9, <2>1, <2>2 DEF CreateRule, TypeOK, CpusTyped
<1>10. QED
  BY <1>4, <1>5, <1>6, <1>7, <1>8, <1>9

\* Types: events, flushes and the periodic timer.
LEMMA EventTyped ==
    ASSUME TypeOK, NEW k \in Cpu,
           \/ \E t \in Ct : Delete(k, t)
           \/ ConntrackEvent(k) \/ DeviceEvent(k) \/ DestroyRound(k)
           \/ FlushReadCallback(k) \/ FlushSync(k)
    PROVE  TypeOK'
<1>1. ASSUME NEW t \in Ct, Delete(k, t) PROVE TypeOK'
  <2>1. cpu[k] \in CpuState /\ "event" \in Pc /\ 0 \in Nat /\ "idle" \in {"idle", "linux", "round"}
    BY DEF TypeOK, Pc
  <2>2. [cpu[k] EXCEPT !.pc = "event", !.ct = t] \in CpuState
    BY <2>1, CpuStateUpdates
  <2>3. [cpu[k] EXCEPT !.pc = "event", !.ct = t].ct = t
    BY <2>1 DEF CpuState
  <2>4. CpusTyped'
    <3>1. CASE cpu' = [cpu EXCEPT ![k] = [cpu[k] EXCEPT !.pc = "event", !.ct = t]]
      BY <2>2, <2>3, <3>1, CpuMoves
    <3>2. CASE UNCHANGED cpu
      BY <3>2 DEF TypeOK, CpusTyped
    <3>3. QED
      BY <1>1, <3>1, <3>2 DEF Delete
  <2>5. QED
    BY <1>1, <2>4 DEF Delete, TypeOK, CpusTyped, Live
<1>2. CASE ConntrackEvent(k)
  <2>1. CpusTyped' /\ (rule' = rule \/ rule' = NULL)
    BY <1>2, GotoMoves, RemoveAndFlushMoves DEF ConntrackEvent, Pc, PostRoutingPc
  <2>2. QED
    BY <1>2, <2>1 DEF ConntrackEvent, TypeOK, CpusTyped
<1>3. CASE DeviceEvent(k)
  <2>1. CpusTyped'
    BY <1>3, GotoMoves DEF DeviceEvent, Pc, PostRoutingPc
  <2>2. QED
    BY <1>3, <2>1 DEF DeviceEvent, TypeOK, CpusTyped
<1>4. CASE DestroyRound(k)
  <2>1. CpusTyped' /\ (rule' = rule \/ rule' = NULL)
    BY <1>4, GotoMoves, RemoveAndFlushMoves DEF DestroyRound, Pc, PostRoutingPc
  <2>2. QED
    BY <1>4, <2>1 DEF DestroyRound, TypeOK, CpusTyped
<1>5. CASE FlushReadCallback(k)
  <2>1. CpusTyped'
    BY <1>5, GotoMoves, FlushDoneMoves DEF FlushReadCallback, Pc, PostRoutingPc
  <2>2. QED
    BY <1>5, <2>1 DEF FlushReadCallback, TypeOK, CpusTyped
<1>6. CASE FlushSync(k)
  <2>1. CpusTyped'
    BY <1>6, FlushDoneMoves DEF FlushSync
  <2>2. cpu[k].count \in Nat
    BY DEF TypeOK, CpuState
  <2>3. acct' \in [Ct -> Nat]
    BY <1>6, <2>2 DEF FlushSync, SyncRule, TypeOK
  <2>4. QED
    BY <1>6, <2>1, <2>3 DEF FlushSync, TypeOK, CpusTyped
<1>7. QED
  BY <1>1, <1>2, <1>3, <1>4, <1>5, <1>6

\* The steps of the engine's timer keep the types.
LEMMA TimerTyped ==
    ASSUME TypeOK, TimerTake \/ TimerCallback
    PROVE  TypeOK'
<1>1. CASE TimerTake
  <2>1. rule \in RuleType /\ timer' = rule.unsynced /\ rule.unsynced \in Nat \ {0}
    BY <1>1 DEF TimerTake, TypeOK, RuleType
  <2>2. rule' \in RuleType
    BY <1>1, <2>1 DEF TimerTake, RuleType
  <2>3. QED
    BY <1>1, <2>1, <2>2 DEF TimerTake, TypeOK
<1>2. CASE TimerCallback
  <2>1. acct' \in [Ct -> Nat]
    BY <1>2 DEF TimerCallback, SyncRule, TypeOK
  <2>2. QED
    BY <1>2, <2>1 DEF TimerCallback, TypeOK
<1>3. QED
  BY <1>1, <1>2

\* sfe_cm_init and sfe_cm_exit: types, and the hooks that are in place.
LEMMA ModuleTyped ==
    ASSUME TypeOK, HooksFollowModule, InitModule \/ ExitModule
    PROVE  TypeOK' /\ HooksFollowModule'
<1>1. CpusTyped'
  <2>1. CASE UNCHANGED cpu
    BY <2>1 DEF TypeOK, CpusTyped
  <2>2. CASE cpu' = [k \in Cpu |-> IF At(k, "idle") \/ InDeviceEvent(k)
                                    THEN cpu[k] ELSE [cpu[k] EXCEPT !.old = TRUE]]
    <3>1. ASSUME NEW k \in Cpu
          PROVE  /\ cpu'[k] \in CpuState /\ cpu'[k].pc = cpu[k].pc /\ cpu'[k].ct = cpu[k].ct
      <4>1. cpu[k] \in CpuState /\ "idle" \in Pc /\ 0 \in Nat /\ "idle" \in {"idle", "linux", "round"}
        BY DEF TypeOK, Pc
      <4>2. [cpu[k] EXCEPT !.old = TRUE] \in CpuState
        BY <4>1, CpuStateUpdates
      <4>3. /\ [cpu[k] EXCEPT !.old = TRUE].pc = cpu[k].pc
            /\ [cpu[k] EXCEPT !.old = TRUE].ct = cpu[k].ct
        BY <4>1 DEF CpuState
      <4>4. QED
        BY <2>2, <4>1, <4>2, <4>3
    <3>2. cpu' \in [Cpu -> CpuState]
      BY <2>2, <3>1
    <3>3. QED
      BY <3>1, <3>2 DEF TypeOK, CpusTyped
  <2>3. QED
    BY <2>1, <2>2 DEF InitModule, ExitModule, ExitSync, ExitRecv, ExitBarrier, ExitDestroy, ExitNotifier,
          ExitWait, ExitHooks, ExitInet6, ExitDev, ExitLastWait, ExitReplay, NoDeviceEvent, LeaveChain, Waited
<1>2. CASE InitModule
  BY <1>1, <1>2 DEF InitModule, Step, Register, Unregister, TypeOK, CpusTyped, HooksFollowModule, ModulePc, Hook
<1>3. CASE ExitModule
  <2>1. rule' = rule \/ rule' = NULL
    BY <1>3 DEF ExitModule, ExitSync, ExitRecv, ExitBarrier, ExitDestroy, ExitNotifier, ExitWait,
                ExitHooks, ExitInet6, ExitDev, ExitLastWait, ExitReplay, NoDeviceEvent, LeaveChain, Waited
  <2>2. /\ module' \in ModulePc
        /\ registered' \subseteq registered
        /\ UNCHANGED <<ct, dying, acct, timer, holds, forwarded, unwatched, up>>
        /\ HooksFollowModule'
    BY <1>3 DEF ExitModule, ExitSync, ExitRecv, ExitBarrier, ExitDestroy, ExitNotifier, ExitWait, ExitHooks,
                ExitInet6, ExitDev, ExitLastWait, ExitReplay, NoDeviceEvent, LeaveChain, Waited, Step, Unregister, HooksFollowModule, ModulePc
  <2>3. QED
    BY <1>1, <2>1, <2>2 DEF TypeOK, CpusTyped
<1>4. QED
  BY <1>2, <1>3

-----------------------------------------------------------------------------
\* The steps of a CPU.
CpuAction(k) ==
    \/ PacketIn(k) \/ RecvForward(k) \/ RecvPassUp(k) \/ RecvFlush(k)
    \/ LinuxDrop(k) \/ Conntrack(k) \/ PostRoutingIgnore(k) \/ PostRouting(k)
    \/ FindSource(k) \/ FindTranslated(k) \/ FindDestination(k)
    \/ SourceBridge(k) \/ DestBridge(k) \/ CreateRule(k)
    \/ ConntrackEvent(k) \/ DeviceEvent(k) \/ DestroyRound(k)
    \/ FlushReadCallback(k) \/ FlushSync(k)
    \/ \E t \in Ct : Delete(k, t)

\* What they have in common: without hooks no CPU gets into the module's code,
\* and the handler of a conntrack event does not end before the rule is gone.
CpuStep(k) ==
    /\ UNCHANGED <<module, registered, timer>>
    /\ \A j \in Cpu \ {k} : cpu'[j] = cpu[j]
    /\ module \in {"exit_last_wait", "exit_dev"} /\ Inside(k)'
          => InDeviceEvent(k)' \/ (Inside(k) /\ ~InDeviceEvent(k) /\ cpu'[k].old = cpu[k].old)
    /\ module \in {"exit_replay", "gone"} /\ Inside(k)' => Inside(k)
    /\ At(k, "event") => rule' = NULL

\* What a step of a CPU may change.
LEMMA CpuActionSteps ==
    ASSUME Inv, NEW k \in Cpu, CpuAction(k)
    PROVE  CpuStep(k)
<1> USE DEF Inv
<1>1. cpu[k] \in CpuState /\ TypeOK
  BY DEF TypeOK
<1>2. /\ module \in {"exit_last_wait", "exit_dev"} => registered \cap {"post_routing", "conntrack", "recv", "sync"} = {}
      /\ module \in {"exit_replay", "gone"} => registered \cap {"dev", "post_routing", "conntrack", "recv", "sync"} = {}
  BY DEF HooksFollowModule
<1>3. ASSUME NEW pc \in Pc, Goto(k, pc), pc \in {"post", "event"} \cup PostRoutingPc => cpu[k].ct \in Ct
      PROVE  /\ \A j \in Cpu \ {k} : cpu'[j] = cpu[j]
             /\ cpu'[k].pc = pc
             /\ pc # "idle" => cpu'[k].then = cpu[k].then /\ cpu'[k].old = cpu[k].old
  <2>1. /\ cpu'[k] = IF pc = "idle" THEN Idle ELSE [cpu[k] EXCEPT !.pc = pc]
        /\ \A j \in Cpu \ {k} : cpu'[j] = cpu[j]
    BY <1>1, <1>3, GotoMoves
  <2>2. [cpu[k] EXCEPT !.pc = pc].pc = pc /\ [cpu[k] EXCEPT !.pc = pc].then = cpu[k].then
        /\ [cpu[k] EXCEPT !.pc = pc].old = cpu[k].old /\ Idle.pc = "idle"
    BY <1>1 DEF CpuState, Idle
  <2>3. QED
    BY <2>1, <2>2
<1>4. CASE PacketIn(k)
  BY <1>1, <1>2, <1>3, <1>4 DEF PacketIn, CpuStep, Inside, InModule, InDeviceEvent, At, TypeOK, Pc, PostRoutingPc
<1>5. CASE RecvForward(k)
  BY <1>1, <1>2, <1>3, <1>5 DEF RecvForward, CpuStep, Inside, InModule, InDeviceEvent, At, TypeOK, Pc, PostRoutingPc
<1>6. CASE RecvPassUp(k)
  BY <1>1, <1>2, <1>3, <1>6 DEF RecvPassUp, CpuStep, Inside, InModule, InDeviceEvent, At, TypeOK, Pc, PostRoutingPc
<1>7. CASE LinuxDrop(k)
  BY <1>1, <1>2, <1>3, <1>7 DEF LinuxDrop, CpuStep, Inside, InModule, InDeviceEvent, At, TypeOK, Pc, PostRoutingPc
<1>8. CASE PostRoutingIgnore(k)
  BY <1>1, <1>2, <1>3, <1>8 DEF PostRoutingIgnore, CpuStep, Inside, InModule, InDeviceEvent, At, TypeOK, Pc, PostRoutingPc
<1>9. CASE PostRouting(k)
  BY <1>1, <1>2, <1>3, <1>9 DEF PostRouting, CpuStep, Inside, InModule, InDeviceEvent, At, TypeOK, Pc, PostRoutingPc
<1>10. CASE FindSource(k)
  BY <1>1, <1>2, <1>3, <1>10 DEF FindSource, CpuStep, Inside, InModule, InDeviceEvent, At, TypeOK, Pc, PostRoutingPc
<1>11. CASE FindTranslated(k)
  BY <1>1, <1>2, <1>3, <1>11 DEF FindTranslated, CpuStep, Inside, InModule, InDeviceEvent, At, TypeOK, Pc, PostRoutingPc
<1>12. CASE FindDestination(k)
  BY <1>1, <1>2, <1>3, <1>12 DEF FindDestination, CpuStep, Inside, InModule, InDeviceEvent, At, TypeOK, Pc, PostRoutingPc
<1>13. CASE CreateRule(k)
  BY <1>1, <1>2, <1>3, <1>13 DEF CreateRule, CpuStep, Inside, InModule, InDeviceEvent, At, TypeOK, Pc, PostRoutingPc
<1>14. CASE DeviceEvent(k)
  BY <1>1, <1>2, <1>3, <1>14 DEF DeviceEvent, CpuStep, Inside, InModule, InDeviceEvent, At, TypeOK, Pc, PostRoutingPc
<1>15. CASE Conntrack(k)
  <2>1. PICK t \in Ct : cpu' = [cpu EXCEPT ![k] = [cpu[k] EXCEPT !.pc = "post", !.ct = t]]
    BY <1>15 DEF Conntrack
  <2>2. cpu'[k].pc = "post" /\ \A j \in Cpu \ {k} : cpu'[j] = cpu[j]
    BY <1>1, <2>1 DEF TypeOK, CpuState
  <2>3. QED
    BY <1>15, <2>2 DEF Conntrack, CpuStep, Inside, InModule, InDeviceEvent, At, PostRoutingPc
<1>16. CASE SourceBridge(k)
  <2>1. \/ \E pc \in {"dest_bridge", "idle"} : Goto(k, pc)
        \/ \E B \in SUBSET {"src_br", "dest_br"} :
              cpu' = [cpu EXCEPT ![k] = [cpu[k] EXCEPT !.pc = "dest_bridge", !.bridges = B]]
    BY <1>1, <1>16 DEF SourceBridge, CpuState
  <2>2. CASE \E pc \in {"dest_bridge", "idle"} : Goto(k, pc)
    BY <1>1, <1>2, <1>3, <1>16, <2>2 DEF SourceBridge, CpuStep, Inside, InModule, InDeviceEvent, At, TypeOK, Pc, PostRoutingPc
  <2>3. ASSUME NEW B, cpu' = [cpu EXCEPT ![k] = [cpu[k] EXCEPT !.pc = "dest_bridge", !.bridges = B]] PROVE CpuStep(k)
    <3>1. cpu'[k].pc = "dest_bridge" /\ cpu'[k].old = cpu[k].old /\ \A j \in Cpu \ {k} : cpu'[j] = cpu[j]
      BY <1>1, <2>3 DEF TypeOK, CpuState
    <3>2. QED
      BY <1>16, <3>1 DEF SourceBridge, CpuStep, Inside, InModule, InDeviceEvent, At, PostRoutingPc
  <2>4. QED
    BY <2>1, <2>2, <2>3
<1>17. CASE DestBridge(k)
  <2>1. \/ \E pc \in {"create", "idle"} : Goto(k, pc)
        \/ \E B \in SUBSET {"src_br", "dest_br"} :
              cpu' = [cpu EXCEPT ![k] = [cpu[k] EXCEPT !.pc = "create", !.bridges = B]]
    BY <1>1, <1>17 DEF DestBridge, CpuState
  <2>2. CASE \E pc \in {"create", "idle"} : Goto(k, pc)
    BY <1>1, <1>2, <1>3, <1>17, <2>2 DEF DestBridge, CpuStep, Inside, InModule, InDeviceEvent, At, TypeOK, Pc, PostRoutingPc
  <2>3. ASSUME NEW B, cpu' = [cpu EXCEPT ![k] = [cpu[k] EXCEPT !.pc = "create", !.bridges = B]] PROVE CpuStep(k)
    <3>1. cpu'[k].pc = "create" /\ cpu'[k].old = cpu[k].old /\ \A j \in Cpu \ {k} : cpu'[j] = cpu[j]
      BY <1>1, <2>3 DEF TypeOK, CpuState
    <3>2. QED
      BY <1>17, <3>1 DEF DestBridge, CpuStep, Inside, InModule, InDeviceEvent, At, PostRoutingPc
  <2>4. QED
    BY <2>1, <2>2, <2>3
<1>18. CASE RecvFlush(k)
  BY <1>1, <1>2, <1>3, <1>18, RemoveAndFlushMoves DEF RecvFlush, CpuStep, Inside, InModule, InDeviceEvent, At, TypeOK, Pc, PostRoutingPc
<1>19. CASE ConntrackEvent(k)
  BY <1>1, <1>2, <1>3, <1>19, RemoveAndFlushMoves DEF ConntrackEvent, CpuStep, Inside, InModule, InDeviceEvent, At, TypeOK, Pc, PostRoutingPc
<1>20. CASE DestroyRound(k)
  BY <1>1, <1>2, <1>3, <1>20, RemoveAndFlushMoves DEF DestroyRound, CpuStep, Inside, InModule, InDeviceEvent, At, TypeOK, Pc, PostRoutingPc
<1>21. CASE FlushReadCallback(k)
  BY <1>1, <1>2, <1>3, <1>21, FlushDoneMoves DEF FlushReadCallback, CpuStep, Inside, InModule, InDeviceEvent, At, TypeOK, Pc, PostRoutingPc
<1>22. CASE FlushSync(k)
  BY <1>1, <1>2, <1>3, <1>22, FlushDoneMoves DEF FlushSync, CpuStep, Inside, InModule, InDeviceEvent, At, TypeOK, Pc, PostRoutingPc
<1>23. CASE \E t \in Ct : Delete(k, t)
  <2>1. PICK t \in Ct : Delete(k, t)
    BY <1>23
  <2>2. CASE UNCHANGED cpu
    BY <2>1, <2>2 DEF Delete, CpuStep, Inside, InModule, InDeviceEvent, At
  <2>3. CASE "conntrack" \in registered /\ cpu' = [cpu EXCEPT ![k] = [cpu[k] EXCEPT !.pc = "event", !.ct = t]]
    <3>1. \A j \in Cpu \ {k} : cpu'[j] = cpu[j]
      BY <2>3 DEF TypeOK
    <3>2. QED
      BY <1>2, <2>1, <2>3, <3>1 DEF Delete, CpuStep, At
  <2>4. QED
    BY <2>1, <2>2, <2>3 DEF Delete
<1>24. QED
  BY <1>4, <1>5, <1>6, <1>7, <1>8, <1>9, <1>10, <1>11, <1>12, <1>13, <1>14, <1>15, <1>16, <1>17, <1>18, <1>19, <1>20, <1>21, <1>22, <1>23 DEF CpuAction

-----------------------------------------------------------------------------
\* What the loading or unloading process does to the CPUs: nothing, or it marks
\* those that are not idle as running.
LEMMA ModuleSteps ==
    ASSUME TypeOK, InitModule \/ ExitModule
    PROVE  /\ UNCHANGED <<ct, dying, unwatched, timer>>
           /\ rule' = rule \/ rule' = NULL
           /\ \A k \in Cpu : /\ cpu'[k].pc = cpu[k].pc /\ cpu'[k].then = cpu[k].then
                             /\ cpu'[k].ct = cpu[k].ct /\ cpu'[k].count = cpu[k].count
                             /\ cpu[k].old => cpu'[k].old
           /\ module' = "exit_last_wait" => \A k \in Cpu : ~At(k, "idle") => cpu'[k].old \/ InDeviceEvent(k)
           /\ module' = "exit_dev" => timer = NULL /\ module = "exit_last_wait" /\ \A k \in Cpu : ~cpu[k].old
           /\ module' = "exit_replay" => (module = "exit_dev" /\ NoDeviceEvent) \/ module = "exit_replay"
           /\ module' = "gone" => module = "exit_replay"
<1>1. CASE ExitInet6 \/ ExitNotifier
  <2>1. /\ UNCHANGED <<ct, dying, unwatched, timer, rule>>
        /\ module' \in {"exit_wait", "exit_last_wait"}
        /\ cpu' = [k \in Cpu |-> IF At(k, "idle") \/ InDeviceEvent(k)
                                  THEN cpu[k] ELSE [cpu[k] EXCEPT !.old = TRUE]]
    BY <1>1 DEF ExitInet6, ExitNotifier, LeaveChain, Step
  <2>2. ASSUME NEW k \in Cpu
        PROVE  /\ cpu'[k].pc = cpu[k].pc /\ cpu'[k].then = cpu[k].then
               /\ cpu'[k].ct = cpu[k].ct /\ cpu'[k].count = cpu[k].count
               /\ cpu[k].old => cpu'[k].old
               /\ ~At(k, "idle") => cpu'[k].old \/ InDeviceEvent(k)
    <3>1. cpu[k] \in CpuState
      BY DEF TypeOK
    <3>2. QED
      BY <2>1, <3>1 DEF CpuState
  <2>3. QED
    BY <2>1, <2>2
<1>2. CASE InitModule
  BY <1>2 DEF InitModule, Step
<1>3. CASE ExitModule /\ ~(ExitInet6 \/ ExitNotifier)
  BY <1>3 DEF ExitModule, ExitSync, ExitRecv, ExitBarrier, ExitDestroy, ExitWait, ExitHooks,
              ExitLastWait, ExitDev, ExitReplay, Waited, Step
<1>4. QED
  BY <1>1, <1>2, <1>3

\* The last grace period of sfe_cm_exit keeps waiting for whoever is inside.
LEMMA ReadersStep ==
    ASSUME Inv, Next
    PROVE  ExitWaitsForReaders'
<1> USE DEF Inv
<1>1. CASE \E k \in Cpu : CpuAction(k)
  <2>1. PICK k \in Cpu : CpuStep(k)
    BY <1>1, CpuActionSteps
  <2>2. \A j \in Cpu \ {k} : /\ Inside(j)' <=> Inside(j)
                             /\ InDeviceEvent(j)' <=> InDeviceEvent(j)
    BY <2>1 DEF CpuStep, Inside, InModule, InDeviceEvent, At
  <2>3. QED
    BY <2>1, <2>2 DEF CpuStep, ExitWaitsForReaders
<1>2. CASE TimerTake \/ TimerCallback \/ DeviceUp
  <2>1. UNCHANGED <<module, cpu>> /\ (module \in {"exit_dev", "exit_replay", "gone"} => timer' = NULL)
    BY <1>2 DEF TimerTake, TimerCallback, DeviceUp, HooksFollowModule, ExitWaitsForReaders
  <2>2. \A j \in Cpu : (Inside(j)' <=> Inside(j)) /\ (InDeviceEvent(j)' <=> InDeviceEvent(j))
    BY <2>1 DEF Inside, InModule, InDeviceEvent, At
  <2>3. QED
    BY <2>1, <2>2 DEF ExitWaitsForReaders
<1>3. CASE InitModule \/ ExitModule
  <2>1. \A k \in Cpu : /\ Inside(k)' <=> Inside(k)
                       /\ InDeviceEvent(k)' <=> InDeviceEvent(k)
                       /\ Inside(k) => ~At(k, "idle")
    BY <1>3, ModuleSteps DEF Inside, InModule, InDeviceEvent, At, PostRoutingPc
  <2>2. module' = "exit_last_wait" => \A k \in Cpu : Inside(k)' => cpu'[k].old \/ InDeviceEvent(k)'
    BY <1>3, <2>1, ModuleSteps
  <2>3. module' = "exit_dev" => timer' = NULL /\ \A k \in Cpu : Inside(k)' => InDeviceEvent(k)'
    BY <1>3, <2>1, ModuleSteps DEF ExitWaitsForReaders
  <2>4. module' \in {"exit_replay", "gone"} => timer' = NULL /\ \A k \in Cpu : ~Inside(k)'
    BY <1>3, <2>1, ModuleSteps DEF ExitWaitsForReaders, NoDeviceEvent
  <2>5. QED
    BY <2>2, <2>3, <2>4 DEF ExitWaitsForReaders
<1>4. QED
  BY <1>1, <1>2, <1>3 DEF Next, CpuAction

\* What is left when sfe_cm_exit has returned stays as it is: no CPU is in the
\* hook that makes rules.
LEMMA LeftStep ==
    ASSUME Inv, Next
    PROVE  AllDestroyedOnExit'
<1> USE DEF Inv
<1>1. CASE \E k \in Cpu : CpuAction(k)
  <2>1. PICK k \in Cpu : CpuAction(k)
    BY <1>1
  <2>2. module' = module
    BY <2>1, CpuActionSteps DEF CpuStep
  <2>3. module = "gone" => ~CreateRule(k) /\ ~DeviceEvent(k)
    BY DEF ExitWaitsForReaders, Inside, InModule, PostRoutingPc, At, CreateRule, DeviceEvent, HooksFollowModule
  <2>4. ~CreateRule(k) /\ ~DeviceEvent(k) => up' = up /\ (rule = NULL => rule' = NULL)
    BY <2>1 DEF CpuAction, PacketIn, RecvForward, RecvPassUp, RecvFlush, LinuxDrop, Conntrack,
                PostRoutingIgnore, PostRouting, FindSource, FindTranslated, FindDestination, SourceBridge,
                DestBridge, ConntrackEvent, DestroyRound, FlushReadCallback, FlushSync, RemoveAndFlush, Delete
  <2>5. QED
    BY <2>2, <2>3, <2>4 DEF AllDestroyedOnExit
<1>2. CASE TimerTake \/ TimerCallback \/ DeviceUp
  BY <1>2 DEF TimerTake, TimerCallback, DeviceUp, AllDestroyedOnExit
<1>3. CASE InitModule
  BY <1>3 DEF InitModule, Step, AllDestroyedOnExit
<1>4. CASE ExitModule
  <2>1. module' = "gone" => rule' = NULL \/ ~up'
    BY <1>4 DEF ExitModule, ExitSync, ExitRecv, ExitBarrier, ExitDestroy, ExitNotifier, ExitWait, ExitHooks,
                ExitInet6, ExitDev, ExitLastWait, ExitReplay, NoDeviceEvent, LeaveChain, Waited, Step
  <2>2. QED
    BY <2>1 DEF AllDestroyedOnExit
<1>5. QED
  BY <1>1, <1>2, <1>3, <1>4 DEF Next, CpuAction

\* An entry that is deleted while the notifier is registered leaves its rule
\* only together with an event.
LEMMA DestroyedStep ==
    ASSUME Inv, Next
    PROVE  DestroyedWithConntrack'
<1> DEFINE Coming(r) == \E k \in Cpu : At(k, "event") /\ cpu[k].ct = r.ct
<1> USE DEF Inv
<1>1. CASE \E k \in Cpu : CpuAction(k)
  <2>1. PICK k \in Cpu : CpuAction(k)
    BY <1>1
  <2>2. CpuStep(k)
    BY <2>1, CpuActionSteps
  <2>3. ASSUME NEW r, rule' # NULL, Coming(r) PROVE Coming(r)'
    <3>1. PICK j \in Cpu : At(j, "event") /\ cpu[j].ct = r.ct
      BY <2>3
    <3>2. j # k
      BY <2>2, <2>3, <3>1 DEF CpuStep
    <3>3. QED
      BY <2>2, <3>1, <3>2 DEF CpuStep, At
  <2>4. CASE \E t \in Ct : Delete(k, t)
    <3>1. PICK t \in Ct : Delete(k, t)
      BY <2>4
    <3>2. SUFFICES ASSUME rule' # NULL, rule'.ct \in dying', rule'.made # "dying", rule'.ct \notin unwatched'
                   PROVE  \E j \in Cpu : cpu'[j].pc = "event" /\ cpu'[j].ct = rule'.ct
      BY DEF DestroyedWithConntrack, At
    <3>3. rule' = rule
      BY <3>1 DEF Delete
    <3>4. CASE rule.ct \in dying
      <4>1. rule.ct \notin unwatched
        BY <3>1, <3>2, <3>3 DEF Delete
      <4>2. Coming(rule)
        BY <3>2, <3>3, <3>4, <4>1 DEF DestroyedWithConntrack
      <4>3. PICK j \in Cpu : At(j, "event") /\ cpu[j].ct = rule.ct
        BY <4>2
      <4>4. j # k
        BY <2>2, <3>2, <4>3 DEF CpuStep
      <4>5. QED
        BY <2>2, <3>3, <4>3, <4>4 DEF CpuStep, At
    <3>5. CASE rule.ct \notin dying
      <4>1. rule.ct = t /\ cpu' = [cpu EXCEPT ![k] = [cpu[k] EXCEPT !.pc = "event", !.ct = t]]
        BY <3>1, <3>2, <3>3, <3>5 DEF Delete
      <4>2. cpu'[k].pc = "event" /\ cpu'[k].ct = t
        BY <4>1 DEF TypeOK, CpuState
      <4>3. QED
        BY <3>3, <4>1, <4>2
    <3>6. QED
      BY <3>4, <3>5
  <2>5. CASE CreateRule(k)
    <3>1. CASE rule = NULL /\ rule'.ct = cpu[k].ct
               /\ rule'.made = (IF cpu[k].ct \in dying THEN "dying" ELSE ct[cpu[k].ct])
      BY <2>5, <3>1 DEF CreateRule, DestroyedWithConntrack
    <3>2. CASE rule' = rule
      BY <2>3, <2>5, <3>2 DEF CreateRule, DestroyedWithConntrack
    <3>3. QED
      BY <2>5, <3>1, <3>2 DEF CreateRule
  <2>6. CASE CpuAction(k) /\ ~CreateRule(k) /\ ~(\E t \in Ct : Delete(k, t))
    <3>1. /\ UNCHANGED <<dying, unwatched>>
          /\ \/ rule' = rule \/ rule' = NULL
             \/ rule # NULL /\ rule' = [rule EXCEPT !.unsynced = @ + 1]
      BY <2>6 DEF CpuAction, PacketIn, RecvForward, RecvPassUp, RecvFlush, LinuxDrop, Conntrack,
                  PostRoutingIgnore, PostRouting, FindSource, FindTranslated, FindDestination, SourceBridge,
                  DestBridge, ConntrackEvent, DeviceEvent, DestroyRound, FlushReadCallback, FlushSync,
                  RemoveAndFlush
    <3>2. rule' # NULL => rule # NULL /\ rule'.ct = rule.ct /\ rule'.made = rule.made
      BY <3>1 DEF TypeOK, RuleType
    <3>3. QED
      BY <2>3, <3>1, <3>2 DEF DestroyedWithConntrack
  <2>7. QED
    BY <2>1, <2>4, <2>5, <2>6
<1>2. CASE TimerTake \/ TimerCallback \/ DeviceUp
  <2>1. /\ UNCHANGED <<cpu, dying, unwatched>>
        /\ rule' # NULL => rule # NULL /\ rule'.ct = rule.ct /\ rule'.made = rule.made
    BY <1>2 DEF TimerTake, TimerCallback, DeviceUp, TypeOK, RuleType
  <2>2. QED
    BY <2>1 DEF DestroyedWithConntrack, At
<1>3. CASE InitModule \/ ExitModule
  BY <1>3, ModuleSteps DEF DestroyedWithConntrack, At
<1>4. QED
  BY <1>1, <1>2, <1>3 DEF Next, CpuAction

\* The invariant holds at first.
LEMMA InvInit == Init => Inv
<1> SUFFICES ASSUME Init PROVE Inv
  OBVIOUS
<1>1. Idle \in CpuState
  BY DEF Idle, CpuState, Pc
<1>2. cpu \in [Cpu -> CpuState] /\ \A k \in Cpu : cpu[k].pc = "idle"
  BY <1>1 DEF Init, Idle
<1>3. ct \in [Ct -> CtState] /\ acct \in [Ct -> Nat] /\ holds \in [Device -> Int]
  BY DEF Init, CtState, NoHolds
<1>4. TypeOK
  BY <1>2, <1>3 DEF Init, TypeOK, ModulePc, PostRoutingPc
<1>5. HooksFollowModule /\ ExitWaitsForReaders /\ DestroyedWithConntrack /\ AllDestroyedOnExit
  BY DEF Init, HooksFollowModule, ExitWaitsForReaders, DestroyedWithConntrack, AllDestroyedOnExit
<1>6. QED
  BY <1>4, <1>5 DEF Inv

\* Every step keeps the invariant.
LEMMA InvStep == Inv /\ [Next]_vars => Inv'
<1> SUFFICES ASSUME Inv, [Next]_vars PROVE Inv'
  OBVIOUS
<1>1. CASE Next
  <2>1. TypeOK' /\ HooksFollowModule'
    <3>1. CASE \E k \in Cpu : CpuAction(k)
      <4>1. PICK k \in Cpu : CpuAction(k)
        BY <3>1
      <4>2. TypeOK'
        BY <4>1, PacketTyped, PostRoutingTyped, EventTyped DEF CpuAction, Inv
      <4>3. UNCHANGED <<module, registered>>
        BY <4>1, CpuActionSteps DEF CpuStep
      <4>4. QED
        BY <4>2, <4>3 DEF Inv, HooksFollowModule
    <3>2. CASE TimerTake \/ TimerCallback
      <4>1. UNCHANGED <<module, registered>>
        BY <3>2 DEF TimerTake, TimerCallback
      <4>2. QED
        BY <3>2, <4>1, TimerTyped DEF Inv, HooksFollowModule
    <3>3. CASE InitModule \/ ExitModule
      BY <3>3, ModuleTyped DEF Inv
    <3>4. CASE DeviceUp
      BY <3>4 DEF DeviceUp, Inv, TypeOK, HooksFollowModule
    <3>5. QED
      BY <1>1, <3>1, <3>2, <3>3, <3>4 DEF Next, CpuAction
  <2>2. QED
    BY <1>1, <2>1, ReadersStep, DestroyedStep, LeftStep DEF Inv
<1>2. CASE UNCHANGED vars
  BY <1>2 DEF vars, Inv, TypeOK, HooksFollowModule, ExitWaitsForReaders, Inside, InModule, InDeviceEvent, At,
              DestroyedWithConntrack, AllDestroyedOnExit
<1>3. QED
  BY <1>1, <1>2

\* The invariant holds, whatever hooks, events, load and unload do.
LEMMA Invariance == Spec => []Inv
<1>1. QED
  BY InvInit, InvStep, PTL DEF Spec

\* Types, for all numbers of CPUs and conntrack entries.
THEOREM TypesHold == Spec => []TypeOK
<1>1. Inv => TypeOK
  BY DEF Inv
<1>2. QED
  BY <1>1, Invariance, PTL

\* sfe_cm_conntrack_event: a rule whose entry was deleted while the notifier
\* was registered has the event that removes it on its way.
THEOREM RulesFollowConntrack == Spec => []DestroyedWithConntrack
<1>1. Inv => DestroyedWithConntrack
  BY DEF Inv
<1>2. QED
  BY <1>1, Invariance, PTL

\* sfe_cm_exit: when it has returned no CPU is in the module's code, however
\* many there are and whatever they were in the middle of.
THEOREM NoReaderAfterExit == Spec => []ExitLeavesNoReader
<1>1. Inv => ExitLeavesNoReader
  BY DEF Inv, ExitWaitsForReaders, Inside, ExitLeavesNoReader
<1>2. QED
  BY <1>1, Invariance, PTL

\* sfe_cm_exit: the rules made after "destroy all connections" go when the
\* device notifier is taken back, unless both devices of the flow are down.
THEOREM NothingLeftOnExit == Spec => []AllDestroyedOnExit
<1>1. Inv => AllDestroyedOnExit
  BY DEF Inv
<1>2. QED
  BY <1>1, Invariance, PTL

-----------------------------------------------------------------------------
(***************************************************************************)
(* The connection manager implements the use of the abstract engine.       *)
(***************************************************************************)
EngineStep == Engine!Next \/ UNCHANGED <<Offloaded, Unsynced, Collected, Owed, synced, Listening>>

\* A step of CPU k changes what k owes, and no other worker.
LEMMA OwedMoves ==
    ASSUME TypeOK, NEW k \in Cpu, \A j \in Cpu \ {k} : cpu'[j] = cpu[j]
    PROVE  /\ Owed[k] = IF cpu[k].pc \in {"flush", "sync"} THEN cpu[k].count ELSE 0
           /\ Owed' = [Owed EXCEPT ![k] = IF cpu'[k].pc \in {"flush", "sync"} THEN cpu'[k].count ELSE 0]
<1>1. k # "exit" /\ k \in Workers
  BY CpuAssumption DEF Workers
<1>2. QED
  BY <1>1, CpuAssumption DEF Owed, Workers

\* The history variable counts what k delivers.
LEMMA SyncedMoves ==
    ASSUME Observe, NEW k \in Cpu, UNCHANGED timer, \A j \in Cpu \ {k} : cpu'[j] = cpu[j]
    PROVE  /\ ~At(k, "sync") => UNCHANGED synced
           /\ At(k, "sync") /\ cpu'[k].pc # "sync" => synced' = synced + cpu[k].count
BY DEF Observe, TimerReports, FlushReports, At

\* A step of a CPU that touches neither the rule nor a flush is none of the
\* engine's.
LEMMA QuietStep ==
    ASSUME Inv, Observe, NEW k \in Cpu, CpuStep(k), UNCHANGED rule,
           cpu[k].pc \notin {"flush", "sync"}, cpu'[k].pc \notin {"flush", "sync"}
    PROVE  UNCHANGED <<Offloaded, Unsynced, Collected, Owed, synced, Listening>>
<1>1. UNCHANGED <<timer, registered>> /\ \A j \in Cpu \ {k} : cpu'[j] = cpu[j]
  BY DEF CpuStep
<1>2. Owed' = Owed
  BY <1>1, OwedMoves DEF Inv, Owed
<1>3. synced' = synced
  BY <1>1, SyncedMoves DEF At
<1>4. QED
  BY <1>1, <1>2, <1>3 DEF Offloaded, Unsynced, Collected, Listening

\* The rule of the flow is withdrawn by a CPU, which owes what it forwarded.
LEMMA RemoveWithdraws ==
    ASSUME Inv, Observe, NEW k \in Cpu, CpuStep(k), NEW then \in {"idle", "linux", "round"},
           RemoveAndFlush(k, then), cpu[k].pc \notin {"flush", "sync"}
    PROVE  Engine!Withdraw(k, rule.ct) /\ rule.ct \in Ct
<1>1. UNCHANGED <<timer, registered>> /\ \A j \in Cpu \ {k} : cpu'[j] = cpu[j]
  BY DEF CpuStep
<1>2. /\ rule \in RuleType /\ rule # NULL /\ rule' = NULL
      /\ cpu'[k].pc = "flush" /\ cpu'[k].count = rule.unsynced
  BY RemoveAndFlushMoves DEF Inv
<1>3. rule.ct \in Ct
  BY <1>2 DEF RuleType
<1>4. Owed[k] = 0 /\ Owed' = [Owed EXCEPT ![k] = rule.unsynced]
  BY <1>1, <1>2, OwedMoves DEF Inv
<1>5. Offloaded = {rule.ct} /\ Offloaded' = {} /\ Unsynced[rule.ct] = rule.unsynced
  BY <1>2, <1>3 DEF Offloaded, Unsynced
<1>6. Unsynced' = [Unsynced EXCEPT ![rule.ct] = 0]
  BY <1>2, <1>3 DEF Unsynced
<1>7. UNCHANGED <<Collected, synced, Listening>>
  BY <1>1, SyncedMoves DEF Collected, Listening, At
<1>8. QED
  BY <1>3, <1>4, <1>5, <1>6, <1>7 DEF Engine!Withdraw

\* Every step of a CPU is a step of the abstract engine, or none.
LEMMA CpuRefines ==
    ASSUME Inv, synced \in Nat, Observe, NEW k \in Cpu, CpuAction(k)
    PROVE  EngineStep
<1>1. CpuStep(k) /\ TypeOK /\ k \in Workers
  BY CpuActionSteps DEF Inv, Workers
<1>2. UNCHANGED <<timer, registered>> /\ \A j \in Cpu \ {k} : cpu'[j] = cpu[j]
  BY <1>1 DEF CpuStep
<1>3. ASSUME NEW pc \in {"recv", "linux", "idle", "find_src", "find_xlate", "find_dest", "src_bridge", "dest_bridge",
                         "create", "round"}, Goto(k, pc), cpu[k].pc \notin {"flush", "sync"},
             pc \in PostRoutingPc => cpu[k].ct \in Ct, UNCHANGED rule
      PROVE  EngineStep
  <2>1. cpu'[k].pc = pc
    BY <1>1, <1>3, GotoMoves DEF Pc, PostRoutingPc
  <2>2. QED
    BY <1>1, <1>3, <2>1, QuietStep DEF EngineStep
<1>4. ASSUME NEW B, NEW pc \in {"dest_bridge", "create"}, cpu[k].pc \notin {"flush", "sync"}, UNCHANGED rule,
             cpu' = [cpu EXCEPT ![k] = [cpu[k] EXCEPT !.pc = pc, !.bridges = B]]
      PROVE  EngineStep
  <2>1. cpu'[k].pc = pc
    BY <1>1, <1>4 DEF TypeOK, CpuState
  <2>2. QED
    BY <1>1, <1>4, <2>1, QuietStep DEF EngineStep
<1>5. CASE PacketIn(k)
  BY <1>1, <1>3, <1>5 DEF PacketIn, At, TypeOK, PostRoutingPc
<1>6. CASE RecvPassUp(k)
  BY <1>1, <1>3, <1>6 DEF RecvPassUp, At, TypeOK, PostRoutingPc
<1>7. CASE LinuxDrop(k)
  BY <1>1, <1>3, <1>7 DEF LinuxDrop, At, TypeOK, PostRoutingPc
<1>8. CASE PostRoutingIgnore(k)
  BY <1>1, <1>3, <1>8 DEF PostRoutingIgnore, At, TypeOK, PostRoutingPc
<1>9. CASE PostRouting(k)
  BY <1>1, <1>3, <1>9 DEF PostRouting, At, TypeOK, PostRoutingPc
<1>10. CASE FindSource(k)
  BY <1>1, <1>3, <1>10 DEF FindSource, At, TypeOK, PostRoutingPc
<1>11. CASE FindTranslated(k)
  BY <1>1, <1>3, <1>11 DEF FindTranslated, At, TypeOK, PostRoutingPc
<1>12. CASE FindDestination(k)
  BY <1>1, <1>3, <1>12 DEF FindDestination, At, TypeOK, PostRoutingPc
<1>13. CASE DeviceEvent(k)
  BY <1>1, <1>3, <1>13 DEF DeviceEvent, At, TypeOK, PostRoutingPc
<1>14. CASE SourceBridge(k)
  <2>1. /\ cpu[k].pc \notin {"flush", "sync"} /\ cpu[k].ct \in Ct /\ UNCHANGED rule
        /\ \/ \E pc \in {"dest_bridge", "idle"} : Goto(k, pc)
           \/ \E B : cpu' = [cpu EXCEPT ![k] = [cpu[k] EXCEPT !.pc = "dest_bridge", !.bridges = B]]
    BY <1>1, <1>14 DEF SourceBridge, At, TypeOK, PostRoutingPc
  <2>2. QED
    BY <1>3, <1>4, <2>1
<1>15. CASE DestBridge(k)
  <2>1. /\ cpu[k].pc \notin {"flush", "sync"} /\ cpu[k].ct \in Ct /\ UNCHANGED rule
        /\ \/ \E pc \in {"create", "idle"} : Goto(k, pc)
           \/ \E B : cpu' = [cpu EXCEPT ![k] = [cpu[k] EXCEPT !.pc = "create", !.bridges = B]]
    BY <1>1, <1>15 DEF DestBridge, At, TypeOK, PostRoutingPc
  <2>2. QED
    BY <1>3, <1>4, <2>1
<1>16. CASE Conntrack(k)
  <2>1. PICK t \in Ct : cpu' = [cpu EXCEPT ![k] = [cpu[k] EXCEPT !.pc = "post", !.ct = t]]
    BY <1>16 DEF Conntrack
  <2>2. cpu'[k].pc = "post"
    BY <1>1, <2>1 DEF TypeOK, CpuState
  <2>3. QED
    BY <1>1, <1>16, <2>2, QuietStep DEF Conntrack, At, EngineStep
<1>17. CASE \E t \in Ct : Delete(k, t)
  <2>1. PICK t \in Ct : Delete(k, t)
    BY <1>17
  <2>2. /\ UNCHANGED rule /\ cpu[k].pc = "idle"
        /\ UNCHANGED cpu \/ cpu' = [cpu EXCEPT ![k] = [cpu[k] EXCEPT !.pc = "event", !.ct = t]]
    BY <2>1 DEF Delete, At
  <2>3. cpu'[k].pc \in {"idle", "event"}
    <3>1. [cpu[k] EXCEPT !.pc = "event", !.ct = t].pc = "event"
      BY <1>1 DEF TypeOK, CpuState
    <3>2. QED
      BY <1>1, <2>2, <3>1 DEF TypeOK
  <2>4. QED
    BY <1>1, <2>2, <2>3, QuietStep DEF EngineStep
<1>18. CASE RecvFlush(k)
  <2>1. CASE RemoveAndFlush(k, "linux")
    BY <1>1, <1>18, <2>1, RemoveWithdraws DEF RecvFlush, At, EngineStep, Engine!Next
  <2>2. CASE ~RemoveAndFlush(k, "linux")
    BY <1>1, <1>3, <1>18, <2>2 DEF RecvFlush, At, PostRoutingPc
  <2>3. QED
    BY <2>1, <2>2
<1>19. CASE ConntrackEvent(k)
  <2>1. CASE RemoveAndFlush(k, "idle")
    BY <1>1, <1>19, <2>1, RemoveWithdraws DEF ConntrackEvent, At, EngineStep, Engine!Next
  <2>2. CASE ~RemoveAndFlush(k, "idle")
    BY <1>1, <1>3, <1>19, <2>2 DEF ConntrackEvent, At, PostRoutingPc
  <2>3. QED
    BY <2>1, <2>2
<1>20. CASE DestroyRound(k)
  <2>1. CASE RemoveAndFlush(k, "round")
    BY <1>1, <1>20, <2>1, RemoveWithdraws DEF DestroyRound, At, EngineStep, Engine!Next
  <2>2. CASE ~RemoveAndFlush(k, "round")
    BY <1>1, <1>3, <1>20, <2>2 DEF DestroyRound, At, PostRoutingPc
  <2>3. QED
    BY <2>1, <2>2
<1>21. CASE RecvForward(k)
  <2>1. /\ rule \in RuleType /\ rule # NULL /\ rule.ct \in Ct /\ rule' \in RuleType
        /\ rule'.ct = rule.ct /\ rule'.unsynced = rule.unsynced + 1
    BY <1>1, <1>21 DEF RecvForward, TypeOK, RuleType
  <2>2. rule' # NULL
    BY <2>1, NullAssumption
  <2>3. cpu'[k].pc = "idle"
    BY <1>1, <1>21, GotoMoves DEF RecvForward, Pc, PostRoutingPc
  <2>4. UNCHANGED <<Collected, Owed, synced, Listening>>
    BY <1>1, <1>2, <1>21, <2>3, OwedMoves, SyncedMoves DEF RecvForward, At, Collected, Listening, Owed
  <2>5. Offloaded' = Offloaded /\ rule.ct \in Offloaded
    BY <2>1, <2>2 DEF Offloaded
  <2>6. Unsynced' = [Unsynced EXCEPT ![rule.ct] = @ + 1]
    BY <2>1, <2>2 DEF Unsynced
  <2>7. Engine!Forward(rule.ct)
    BY <2>4, <2>5, <2>6 DEF Engine!Forward
  <2>8. QED
    BY <2>1, <2>7 DEF EngineStep, Engine!Next
<1>22. CASE CreateRule(k)
  <2>1. cpu[k].ct \in Ct /\ Goto(k, "idle") /\ cpu[k].pc \notin {"flush", "sync"}
    BY <1>1, <1>22 DEF CreateRule, At, TypeOK, PostRoutingPc
  <2>2. CASE UNCHANGED rule
    BY <1>1, <1>3, <2>1, <2>2 DEF PostRoutingPc
  <2>3. CASE /\ rule = NULL
             /\ rule' = [ct |-> cpu[k].ct, made |-> IF cpu[k].ct \in dying THEN "dying" ELSE ct[cpu[k].ct],
                         unsynced |-> 0]
    <3>1. cpu'[k].pc = "idle"
      BY <1>1, <2>1, GotoMoves DEF Pc, PostRoutingPc
    <3>2. UNCHANGED <<Collected, Owed, synced, Listening>>
      BY <1>1, <1>2, <2>1, <3>1, OwedMoves, SyncedMoves DEF At, Collected, Listening, Owed
    <3>3. Offloaded = {} /\ Unsynced' = Unsynced
      BY <2>3 DEF Offloaded, Unsynced
    <3>4. rule' # NULL
      BY <1>1, <2>1, <2>3, NullAssumption DEF TypeOK, RuleType
    <3>5. Offloaded' = {cpu[k].ct}
      BY <2>3, <3>4 DEF Offloaded
    <3>6. Engine!Offload(cpu[k].ct)
      BY <3>2, <3>3, <3>5 DEF Engine!Offload
    <3>7. QED
      BY <2>1, <3>6 DEF EngineStep, Engine!Next
  <2>4. QED
    BY <1>22, <2>2, <2>3 DEF CreateRule
<1>23. CASE FlushReadCallback(k)
  <2>1. CASE "sync" \in registered
    <3>1. cpu'[k] = [cpu[k] EXCEPT !.pc = "sync"]
      BY <1>1, <1>23, <2>1, GotoMoves DEF FlushReadCallback, Pc, PostRoutingPc
    <3>2. cpu'[k].pc = "sync" /\ cpu'[k].count = cpu[k].count
      BY <1>1, <3>1 DEF TypeOK, CpuState
    <3>3. UNCHANGED <<Collected, synced, Listening, Offloaded, Unsynced>>
      BY <1>2, <1>23, SyncedMoves DEF FlushReadCallback, At, Collected, Listening, Offloaded, Unsynced
    <3>4. Owed' = [Owed EXCEPT ![k] = Owed[k]]
      BY <1>1, <1>2, <1>23, <3>2, OwedMoves DEF FlushReadCallback, At
    <3>5. Owed' = Owed
      BY <3>4 DEF Owed
    <3>6. QED
      BY <3>3, <3>5 DEF EngineStep
  <2>2. CASE "sync" \notin registered
    <3>1. cpu'[k].pc \in {"idle", "linux", "round"} /\ cpu[k].count \in Nat
      BY <1>1, <1>23, <2>2, FlushDoneMoves DEF FlushReadCallback, TypeOK, CpuState
    <3>2. Owed[k] = cpu[k].count /\ Owed' = [Owed EXCEPT ![k] = 0]
      BY <1>1, <1>2, <1>23, <3>1, OwedMoves DEF FlushReadCallback, At
    <3>3. UNCHANGED <<Collected, synced, Listening, Offloaded, Unsynced>> /\ ~Listening
      BY <1>2, <1>23, <2>2, SyncedMoves DEF FlushReadCallback, At, Collected, Listening, Offloaded, Unsynced
    <3>4. CASE cpu[k].count = 0
      BY <3>2, <3>3, <3>4 DEF EngineStep, Owed
    <3>5. CASE cpu[k].count > 0
      <4>1. Engine!LoseOwed(k)
        BY <3>2, <3>3, <3>5 DEF Engine!LoseOwed
      <4>2. QED
        BY <1>1, <4>1 DEF EngineStep, Engine!Next, Engine!Settle
    <3>6. QED
      BY <3>1, <3>4, <3>5
  <2>3. QED
    BY <2>1, <2>2
<1>24. CASE FlushSync(k)
  <2>1. cpu'[k].pc \in {"idle", "linux", "round"} /\ cpu[k].count \in Nat
    BY <1>1, <1>24, FlushDoneMoves DEF FlushSync, TypeOK, CpuState
  <2>2. Owed[k] = cpu[k].count /\ Owed' = [Owed EXCEPT ![k] = 0]
    BY <1>1, <1>2, <1>24, <2>1, OwedMoves DEF FlushSync, At
  <2>3. synced' = synced + cpu[k].count
    BY <1>2, <1>24, <2>1, SyncedMoves DEF FlushSync, At
  <2>4. UNCHANGED <<Collected, Listening, Offloaded, Unsynced>>
    BY <1>2, <1>24 DEF FlushSync, Collected, Listening, Offloaded, Unsynced
  <2>5. CASE cpu[k].count = 0
    BY <2>2, <2>3, <2>4, <2>5 DEF EngineStep, Owed
  <2>6. CASE cpu[k].count > 0
    <3>1. Engine!ReportOwed(k)
      BY <2>2, <2>3, <2>4, <2>6 DEF Engine!ReportOwed
    <3>2. QED
      BY <1>1, <3>1 DEF EngineStep, Engine!Next, Engine!Settle
  <2>7. QED
    BY <2>1, <2>5, <2>6
<1>25. QED
  BY <1>5, <1>6, <1>7, <1>8, <1>9, <1>10, <1>11, <1>12, <1>13, <1>14, <1>15, <1>16, <1>17, <1>18, <1>19, <1>20, <1>21, <1>22, <1>23, <1>24 DEF CpuAction

\* So is every step of the periodic timer.
LEMMA TimerRefines ==
    ASSUME Inv, Observe, TimerTake \/ TimerCallback
    PROVE  EngineStep
<1>1. Owed' = Owed /\ Listening' = Listening
  BY DEF TimerTake, TimerCallback, Owed, Listening
<1>2. CASE TimerTake
  <2>1. /\ rule \in RuleType /\ rule # NULL /\ rule.ct \in Ct /\ rule.unsynced \in Nat
        /\ timer = NULL /\ timer' = rule.unsynced
    BY <1>2 DEF TimerTake, Inv, TypeOK, RuleType
  <2>2. rule' \in RuleType /\ rule'.ct = rule.ct /\ rule'.unsynced = 0
    BY <1>2, <2>1 DEF TimerTake, RuleType
  <2>3. rule' # NULL /\ timer' # NULL
    BY <2>1, <2>2, NullAssumption
  <2>4. Collected = 0 /\ Collected' = rule.unsynced
    BY <2>1, <2>3 DEF Collected
  <2>5. Offloaded' = Offloaded /\ rule.ct \in Offloaded
    BY <2>1, <2>2, <2>3 DEF Offloaded
  <2>6. Unsynced[rule.ct] = rule.unsynced /\ Unsynced' = [Unsynced EXCEPT ![rule.ct] = 0]
    BY <2>1, <2>2, <2>3 DEF Unsynced
  <2>7. synced' = synced
    BY <1>2, <2>1 DEF TimerTake, Observe, TimerReports, FlushReports, At
  <2>8. Engine!Collect(rule.ct)
    BY <1>1, <2>4, <2>5, <2>6, <2>7 DEF Engine!Collect
  <2>9. QED
    BY <2>1, <2>8 DEF EngineStep, Engine!Next
<1>3. CASE TimerCallback
  <2>1. timer \in Nat \ {0} /\ timer # NULL /\ timer' = NULL
    BY <1>3 DEF TimerCallback, Inv, TypeOK
  <2>2. synced' = synced + timer
    BY <1>3, <2>1 DEF TimerCallback, Observe, TimerReports, FlushReports, At
  <2>3. Offloaded' = Offloaded /\ Unsynced' = Unsynced
    BY <1>3 DEF TimerCallback, Offloaded, Unsynced
  <2>4. Engine!ReportCollected
    BY <1>1, <2>1, <2>2, <2>3 DEF Engine!ReportCollected, Collected
  <2>5. QED
    BY <2>4 DEF EngineStep, Engine!Next
<1>4. QED
  BY <1>2, <1>3

\* And of the process that loads and unloads the module.
LEMMA ModuleRefines ==
    ASSUME Inv, Observe, InitModule \/ ExitModule
    PROVE  EngineStep
<1>1. UNCHANGED timer /\ \A k \in Cpu : cpu'[k].pc = cpu[k].pc /\ cpu'[k].count = cpu[k].count
  BY ModuleSteps DEF Inv
<1>2. Collected' = Collected /\ Owed' = Owed
  <2>1. \A k \in Workers : k # "exit" => k \in Cpu
    BY DEF Workers
  <2>2. QED
    BY <1>1, <2>1 DEF Collected, Owed
<1>3. synced' = synced
  BY <1>1 DEF Observe, TimerReports, FlushReports, At
<1>4. CASE UNCHANGED rule
  <2>1. Offloaded' = Offloaded /\ Unsynced' = Unsynced /\ Listening' \in BOOLEAN
    BY <1>4 DEF Offloaded, Unsynced, Listening
  <2>2. Engine!Listen(Listening')
    BY <1>2, <1>3, <2>1 DEF Engine!Listen
  <2>3. QED
    BY <2>1, <2>2 DEF EngineStep, Engine!Next
<1>5. CASE ~UNCHANGED rule
  <2>1. rule # NULL /\ rule' = NULL /\ module \in {"exit_destroy", "exit_replay"} /\ UNCHANGED registered
    BY <1>5 DEF InitModule, ExitModule, ExitSync, ExitRecv, ExitBarrier, ExitDestroy, ExitNotifier, ExitWait,
                ExitHooks, ExitInet6, ExitDev, ExitLastWait, ExitReplay, NoDeviceEvent, LeaveChain, Waited, Step
  <2>2. Listening = FALSE /\ Listening' = FALSE
    BY <2>1 DEF Inv, HooksFollowModule, Listening
  <2>3. rule.ct \in Ct
    BY <2>1 DEF Inv, TypeOK, RuleType
  <2>4. Offloaded = {rule.ct} /\ Offloaded' = {} /\ Unsynced' = [Unsynced EXCEPT ![rule.ct] = 0]
    BY <2>1, <2>3 DEF Offloaded, Unsynced
  <2>5. "exit" \in Workers /\ Owed["exit"] = 0
    BY DEF Owed, Workers
  <2>6. Engine!Withdraw("exit", rule.ct)
    BY <1>2, <1>3, <2>2, <2>4, <2>5 DEF Engine!Withdraw
  <2>7. QED
    BY <2>3, <2>5, <2>6 DEF EngineStep, Engine!Next
<1>6. QED
  BY <1>4, <1>5

\* The history variable is a number.
LEMMA SyncedType ==
    ASSUME Inv, synced \in Nat, Observe
    PROVE  synced' \in Nat
<1>1. timer # NULL => timer \in Nat
  BY DEF Inv, TypeOK
<1>2. \A k \in Cpu : cpu[k].count \in Nat
  BY DEF Inv, TypeOK, CpuState
<1>3. QED
  BY <1>1, <1>2 DEF Observe, TimerReports

\* The connection manager implements the abstract engine: what it relies on is
\* no more than what SfeIpv4Engine shows of the IPv4 engine.
THEOREM EngineIsAssumed == HistorySpec => AssumesEngine
<1>1. Init /\ synced = 0 => Engine!Init
  <2> SUFFICES ASSUME Init, synced = 0 PROVE Engine!Init
    OBVIOUS
  <2>1. Offloaded = {} /\ Unsynced = [t \in Ct |-> 0] /\ Collected = 0 /\ Listening = FALSE
    BY DEF Init, Offloaded, Unsynced, Collected, Listening
  <2>2. Owed = [w \in Workers |-> 0]
    <3>1. \A w \in Workers : w # "exit" => cpu[w].pc = "idle"
      BY DEF Workers, Init, Idle
    <3>2. QED
      BY <3>1 DEF Owed
  <2>3. QED
    BY <2>1, <2>2 DEF Engine!Init
<1>2. Init /\ synced = 0 => Inv /\ synced \in Nat
  BY InvInit
<1>3. Inv /\ synced \in Nat /\ [Next /\ Observe]_<<vars, synced>> => (Inv /\ synced \in Nat)'
  <2> SUFFICES ASSUME Inv, synced \in Nat, [Next /\ Observe]_<<vars, synced>>
               PROVE  (Inv /\ synced \in Nat)'
    OBVIOUS
  <2>1. CASE Next /\ Observe
    BY <2>1, InvStep, SyncedType
  <2>2. CASE UNCHANGED <<vars, synced>>
    BY <2>2, InvStep
  <2>3. QED
    BY <2>1, <2>2
<1>4. Inv /\ synced \in Nat /\ [Next /\ Observe]_<<vars, synced>> => [Engine!Next]_(Engine!vars)
  <2> SUFFICES ASSUME Inv, synced \in Nat, [Next /\ Observe]_<<vars, synced>>
               PROVE  EngineStep
    BY DEF EngineStep, Engine!vars
  <2>1. CASE Next /\ Observe
    <3>1. CASE DeviceUp
      BY <2>1, <3>1 DEF DeviceUp, Observe, TimerReports, FlushReports, At, EngineStep, Offloaded,
                        Unsynced, Collected, Owed, Listening
    <3>2. QED
      BY <2>1, <3>1, CpuRefines, TimerRefines, ModuleRefines DEF Next, CpuAction
  <2>2. CASE UNCHANGED <<vars, synced>>
    BY <2>2 DEF vars, EngineStep, Offloaded, Unsynced, Collected, Owed, Listening
  <2>3. QED
    BY <2>1, <2>2
<1>5. QED
  BY <1>1, <1>2, <1>3, <1>4, PTL DEF HistorySpec, AssumesEngine, Engine!Spec


-----------------------------------------------------------------------------
(***************************************************************************)
(* What is counted: the references to devices, and the packets on their    *)
(* way to conntrack.                                                       *)
(***************************************************************************)
\* The devices that sfe_cm_post_routing holds at each place on CPU k.
Held(k) ==
    CASE cpu[k].pc \in {"find_xlate", "find_dest"} -> {"src"}
      [] cpu[k].pc = "src_bridge" -> {"src", "dest"}
      [] cpu[k].pc \in {"dest_bridge", "create"} -> {"src", "dest"} \cup cpu[k].bridges
      [] OTHER -> {}

\* A bridge is recorded only from where it was found to where it is released.
BridgesFollow ==
    \A k \in Cpu : /\ cpu[k].bridges # {} => cpu[k].pc \in {"dest_bridge", "create"}
                   /\ cpu[k].pc = "dest_bridge" => cpu[k].bridges \subseteq {"src_br"}

Holders(d) == {k \in Cpu : d \in Held(k)}

\* Every device is held once for each CPU that holds it.
HoldersCounted == \A d \in Device : holds[d] = Cardinality(Holders(d))

\* conntrack has one entry for the flow at a time.
OneLive == \A t, u \in Live : t = u

Counts == [k \in Cpu |-> cpu[k].count]

CountInv == BridgesFollow /\ HoldersCounted /\ OneLive /\ CreditedOnce

\* A step of CPU k that takes and releases what it holds.
LEMMA HoldersStep ==
    ASSUME TypeOK, HoldersCounted, NEW k \in Cpu,
           \A j \in Cpu \ {k} : cpu'[j] = cpu[j],
           \A d \in Device : holds'[d] = holds[d] + (IF d \in Held(k)' THEN 1 ELSE 0)
                                                  - (IF d \in Held(k) THEN 1 ELSE 0)
    PROVE  HoldersCounted'
<1>1. SUFFICES ASSUME NEW d \in Device PROVE holds'[d] = Cardinality(Holders(d)')
  BY DEF HoldersCounted
<1>2. \A j \in Cpu \ {k} : d \in Held(j)' <=> d \in Held(j)
  BY DEF Held
<1>3. IsFiniteSet(Holders(d)) /\ Cardinality(Holders(d)) \in Nat
  <2>1. Holders(d) \in SUBSET Cpu
    BY DEF Holders
  <2>2. IsFiniteSet(Holders(d))
    BY <2>1, FiniteAssumption, FS_Subset
  <2>3. QED
    BY <2>2, FS_CardinalityType
<1>4. holds[d] = Cardinality(Holders(d)) /\ holds[d] \in Int
  BY DEF HoldersCounted, TypeOK
<1>5. k \in Holders(d) <=> d \in Held(k)
  BY DEF Holders
<1>6. CASE d \in Held(k)'
  <2>1. Holders(d)' = Holders(d) \cup {k}
    BY <1>2, <1>6 DEF Holders
  <2>2. Cardinality(Holders(d) \cup {k}) = IF k \in Holders(d) THEN Cardinality(Holders(d)) ELSE Cardinality(Holders(d)) + 1
    BY <1>3, FS_AddElement
  <2>3. holds'[d] = holds[d] + 1 - (IF d \in Held(k) THEN 1 ELSE 0)
    BY <1>6
  <2>4. QED
    BY <1>3, <1>4, <1>5, <2>1, <2>2, <2>3
<1>7. CASE d \notin Held(k)'
  <2>1. Holders(d)' = Holders(d) \ {k}
    BY <1>2, <1>7 DEF Holders
  <2>2. Cardinality(Holders(d) \ {k}) = IF k \in Holders(d) THEN Cardinality(Holders(d)) - 1 ELSE Cardinality(Holders(d))
    BY <1>3, FS_RemoveElement
  <2>3. holds'[d] = holds[d] + 0 - (IF d \in Held(k) THEN 1 ELSE 0)
    BY <1>7
  <2>4. QED
    BY <1>3, <1>4, <1>5, <2>1, <2>2, <2>3
<1>8. QED
  BY <1>6, <1>7

\* A step of CPU k within one place, or outside sfe_cm_post_routing.
LEMMA HoldersQuiet ==
    ASSUME TypeOK, BridgesFollow, HoldersCounted, NEW k \in Cpu,
           \A j \in Cpu \ {k} : cpu'[j] = cpu[j], UNCHANGED holds,
           cpu[k].pc \notin PostRoutingPc \ {"find_src"}, cpu'[k].pc \notin PostRoutingPc \ {"find_src"},
           cpu'[k].bridges \in {{}, cpu[k].bridges}
    PROVE  BridgesFollow' /\ HoldersCounted'
<1>1. Held(k) = {} /\ Held(k)' = {}
  BY DEF Held, PostRoutingPc
<1>2. \A d \in Device : holds[d] \in Int
  BY DEF TypeOK
<1>3. \A d \in Device : holds'[d] = holds[d] + (IF d \in Held(k)' THEN 1 ELSE 0)
                                             - (IF d \in Held(k) THEN 1 ELSE 0)
  BY <1>1, <1>2
<1>4. HoldersCounted'
  BY <1>3, HoldersStep
<1>5. BridgesFollow'
  <2>1. cpu[k].bridges = {}
    BY DEF BridgesFollow, PostRoutingPc
  <2>2. cpu'[k].bridges = {} /\ cpu'[k].pc \notin {"dest_bridge", "create"}
    BY <2>1 DEF PostRoutingPc
  <2>3. SUFFICES ASSUME NEW j \in Cpu
                 PROVE  /\ cpu'[j].bridges # {} => cpu'[j].pc \in {"dest_bridge", "create"}
                        /\ cpu'[j].pc = "dest_bridge" => cpu'[j].bridges \subseteq {"src_br"}
    BY DEF BridgesFollow
  <2>4. CASE j = k
    BY <2>2, <2>4
  <2>5. CASE j # k
    BY <2>5 DEF BridgesFollow
  <2>6. QED
    BY <2>4, <2>5
<1>6. QED
  BY <1>4, <1>5

\* A step of CPU k in sfe_cm_post_routing: it takes the devices T, lets go of
\* the devices S, and holds what is left.
LEMMA HoldersMove ==
    ASSUME TypeOK, HoldersCounted, NEW k \in Cpu,
           \A j \in Cpu \ {k} : cpu'[j] = cpu[j],
           NEW S, NEW T, S \subseteq Held(k), T \cap Held(k) = {},
           Held(k)' = (Held(k) \ S) \cup T,
           \A d \in Device : holds'[d] = holds[d] + (IF d \in T THEN 1 ELSE 0) - (IF d \in S THEN 1 ELSE 0)
    PROVE  HoldersCounted'
<1>1. \A d \in Device : holds[d] \in Int
  BY DEF TypeOK
<1>2. ASSUME NEW d \in Device
      PROVE  holds'[d] = holds[d] + (IF d \in Held(k)' THEN 1 ELSE 0) - (IF d \in Held(k) THEN 1 ELSE 0)
  <2>1. holds[d] \in Int /\ holds'[d] = holds[d] + (IF d \in T THEN 1 ELSE 0) - (IF d \in S THEN 1 ELSE 0)
    BY <1>1
  <2>2. d \in Held(k)' <=> (d \in Held(k) /\ d \notin S) \/ d \in T
    OBVIOUS
  <2>3. (d \in S => d \in Held(k)) /\ (d \in T => d \notin Held(k))
    OBVIOUS
  <2>4. QED
    BY <2>1, <2>2, <2>3
<1>3. QED
  BY <1>2, HoldersStep

\* It records bridges only where it may.
LEMMA BridgesMove ==
    ASSUME BridgesFollow, NEW k \in Cpu,
           \A j \in Cpu \ {k} : cpu'[j] = cpu[j],
           cpu'[k].bridges # {} => cpu'[k].pc \in {"dest_bridge", "create"},
           cpu'[k].pc = "dest_bridge" => cpu'[k].bridges \subseteq {"src_br"}
    PROVE  BridgesFollow'
BY DEF BridgesFollow

\* A CPU goes on at pc with what it has, or is done with it.
LEMMA GotoKeeps ==
    ASSUME TypeOK, NEW k \in Cpu, NEW pc \in Pc, Goto(k, pc)
    PROVE  /\ cpu'[k].pc = pc
           /\ cpu'[k].bridges = IF pc = "idle" THEN {} ELSE cpu[k].bridges
           /\ cpu'[k].count = IF pc = "idle" THEN 0 ELSE cpu[k].count
           /\ \A j \in Cpu \ {k} : cpu'[j] = cpu[j]
<1>1. cpu \in [Cpu -> CpuState] /\ cpu[k] \in CpuState
  BY DEF TypeOK
<1>2. /\ cpu'[k] = IF pc = "idle" THEN Idle ELSE [cpu[k] EXCEPT !.pc = pc]
      /\ \A j \in Cpu \ {k} : cpu'[j] = cpu[j]
  BY <1>1 DEF Goto
<1>3. /\ [cpu[k] EXCEPT !.pc = pc].pc = pc
      /\ [cpu[k] EXCEPT !.pc = pc].bridges = cpu[k].bridges
      /\ [cpu[k] EXCEPT !.pc = pc].count = cpu[k].count
  BY <1>1 DEF CpuState
<1>4. Idle.pc = "idle" /\ Idle.bridges = {} /\ Idle.count = 0
  BY DEF Idle
<1>5. QED
  BY <1>2, <1>3, <1>4

\* What Hold and Put do to the count of each device.
LEMMA HoldAndPut ==
    ASSUME TypeOK
    PROVE  /\ \A e \in Device : Hold(e) =>
                 \A d \in Device : holds'[d] = holds[d] + (IF d \in {e} THEN 1 ELSE 0) - (IF d \in {} THEN 1 ELSE 0)
           /\ \A S : Put(S) =>
                 \A d \in Device : holds'[d] = holds[d] + (IF d \in {} THEN 1 ELSE 0) - (IF d \in S THEN 1 ELSE 0)
           /\ UNCHANGED holds =>
                 \A d \in Device : holds'[d] = holds[d] + (IF d \in {} THEN 1 ELSE 0) - (IF d \in {} THEN 1 ELSE 0)
<1>1. holds \in [Device -> Int] /\ \A d \in Device : holds[d] \in Int
  BY DEF TypeOK
<1>2. ASSUME NEW e \in Device, Hold(e), NEW d \in Device
      PROVE  holds'[d] = holds[d] + (IF d \in {e} THEN 1 ELSE 0) - (IF d \in {} THEN 1 ELSE 0)
  BY <1>1, <1>2 DEF Hold
<1>3. ASSUME NEW S, Put(S), NEW d \in Device
      PROVE  holds'[d] = holds[d] + (IF d \in {} THEN 1 ELSE 0) - (IF d \in S THEN 1 ELSE 0)
  BY <1>1, <1>3 DEF Put
<1>4. ASSUME UNCHANGED holds, NEW d \in Device
      PROVE  holds'[d] = holds[d] + (IF d \in {} THEN 1 ELSE 0) - (IF d \in {} THEN 1 ELSE 0)
  BY <1>1, <1>4
<1>5. QED
  BY <1>2, <1>3, <1>4

\* sfe_cm_post_routing takes and releases what it should, on each of its ways.
LEMMA PostRoutingHolds ==
    ASSUME TypeOK, BridgesFollow, HoldersCounted, NEW k \in Cpu,
           \/ FindSource(k) \/ FindTranslated(k) \/ FindDestination(k)
           \/ SourceBridge(k) \/ DestBridge(k) \/ CreateRule(k)
    PROVE  BridgesFollow' /\ HoldersCounted'
<1>1. {"find_xlate", "find_dest", "src_bridge", "dest_bridge", "create", "idle"} \subseteq Pc
  BY DEF Pc, PostRoutingPc
<1>2. Device = {"src", "dest", "src_br", "dest_br"} /\ cpu[k].bridges \subseteq {"src_br", "dest_br"}
  BY DEF Device, TypeOK, CpuState
<1>3. CASE FindSource(k)
  <2>1. Held(k) = {} /\ cpu[k].bridges = {}
    BY <1>3 DEF FindSource, At, Held, BridgesFollow
  <2>2. CASE Hold("src") /\ Goto(k, "find_xlate")
    <3>1. /\ cpu'[k].pc = "find_xlate" /\ cpu'[k].bridges = {}
          /\ \A j \in Cpu \ {k} : cpu'[j] = cpu[j]
      BY <1>1, <2>1, <2>2, GotoKeeps
    <3>2. Held(k)' = {"src"}
      BY <3>1 DEF Held
    <3>3. \A d \in Device : holds'[d] = holds[d] + (IF d \in {"src"} THEN 1 ELSE 0) - (IF d \in {} THEN 1 ELSE 0)
      BY <1>2, <2>2, HoldAndPut
    <3>4. HoldersCounted'
      BY <2>1, <3>1, <3>2, <3>3, HoldersMove
    <3>5. BridgesFollow'
      BY <2>1, <3>1, <3>2, <3>3, BridgesMove
    <3>6. QED
      BY <3>4, <3>5
  <2>3. CASE UNCHANGED holds /\ Goto(k, "idle")
    <3>1. /\ cpu'[k].pc = "idle" /\ cpu'[k].bridges = {}
          /\ \A j \in Cpu \ {k} : cpu'[j] = cpu[j]
      BY <1>1, <2>3, GotoKeeps
    <3>2. QED
      BY <1>3, <2>3, <3>1, HoldersQuiet DEF FindSource, At, PostRoutingPc
  <2>4. QED
    BY <1>3, <2>2, <2>3 DEF FindSource
<1>4. CASE FindTranslated(k)
  <2>1. Held(k) = {"src"} /\ cpu[k].bridges = {}
    BY <1>4 DEF FindTranslated, At, Held, BridgesFollow
  <2>2. CASE UNCHANGED holds /\ Goto(k, "find_dest")
    <3>1. /\ cpu'[k].pc = "find_dest" /\ cpu'[k].bridges = {}
          /\ \A j \in Cpu \ {k} : cpu'[j] = cpu[j]
      BY <1>1, <2>1, <2>2, GotoKeeps
    <3>2. Held(k)' = {"src"}
      BY <3>1 DEF Held
    <3>3. \A d \in Device : holds'[d] = holds[d] + (IF d \in {} THEN 1 ELSE 0) - (IF d \in {} THEN 1 ELSE 0)
      BY <2>2, HoldAndPut
    <3>4. HoldersCounted'
      BY <2>1, <3>1, <3>2, <3>3, HoldersMove
    <3>5. BridgesFollow'
      BY <2>1, <3>1, <3>2, <3>3, BridgesMove
    <3>6. QED
      BY <3>4, <3>5
  <2>3. CASE Put({"src"}) /\ Goto(k, "idle")
    <3>1. /\ cpu'[k].pc = "idle" /\ cpu'[k].bridges = {}
          /\ \A j \in Cpu \ {k} : cpu'[j] = cpu[j]
      BY <1>1, <2>3, GotoKeeps
    <3>2. Held(k)' = {}
      BY <3>1 DEF Held
    <3>3. \A d \in Device : holds'[d] = holds[d] + (IF d \in {} THEN 1 ELSE 0) - (IF d \in {"src"} THEN 1 ELSE 0)
      BY <2>3, HoldAndPut
    <3>4. HoldersCounted'
      BY <2>1, <3>1, <3>2, <3>3, HoldersMove
    <3>5. BridgesFollow'
      BY <2>1, <3>1, <3>2, <3>3, BridgesMove
    <3>6. QED
      BY <3>4, <3>5
  <2>4. QED
    BY <1>4, <2>2, <2>3 DEF FindTranslated
<1>5. CASE FindDestination(k)
  <2>1. Held(k) = {"src"} /\ cpu[k].bridges = {}
    BY <1>5 DEF FindDestination, At, Held, BridgesFollow
  <2>2. CASE Hold("dest") /\ Goto(k, "src_bridge")
    <3>1. /\ cpu'[k].pc = "src_bridge" /\ cpu'[k].bridges = {}
          /\ \A j \in Cpu \ {k} : cpu'[j] = cpu[j]
      BY <1>1, <2>1, <2>2, GotoKeeps
    <3>2. Held(k)' = (Held(k) \ {}) \cup {"dest"} /\ {"dest"} \cap Held(k) = {}
      BY <2>1, <3>1 DEF Held
    <3>3. \A d \in Device : holds'[d] = holds[d] + (IF d \in {"dest"} THEN 1 ELSE 0) - (IF d \in {} THEN 1 ELSE 0)
      BY <1>2, <2>2, HoldAndPut
    <3>4. HoldersCounted'
      BY <2>1, <3>1, <3>2, <3>3, HoldersMove
    <3>5. BridgesFollow'
      BY <2>1, <3>1, <3>2, <3>3, BridgesMove
    <3>6. QED
      BY <3>4, <3>5
  <2>3. CASE Put({"src"}) /\ Goto(k, "idle")
    <3>1. /\ cpu'[k].pc = "idle" /\ cpu'[k].bridges = {}
          /\ \A j \in Cpu \ {k} : cpu'[j] = cpu[j]
      BY <1>1, <2>3, GotoKeeps
    <3>2. Held(k)' = {}
      BY <3>1 DEF Held
    <3>3. \A d \in Device : holds'[d] = holds[d] + (IF d \in {} THEN 1 ELSE 0) - (IF d \in {"src"} THEN 1 ELSE 0)
      BY <2>3, HoldAndPut
    <3>4. HoldersCounted'
      BY <2>1, <3>1, <3>2, <3>3, HoldersMove
    <3>5. BridgesFollow'
      BY <2>1, <3>1, <3>2, <3>3, BridgesMove
    <3>6. QED
      BY <3>4, <3>5
  <2>4. QED
    BY <1>5, <2>2, <2>3 DEF FindDestination
<1>6. CASE SourceBridge(k)
  <2>1. Held(k) = {"src", "dest"} /\ cpu[k].bridges = {}
    BY <1>6 DEF SourceBridge, At, Held, BridgesFollow
  <2>2. CASE UNCHANGED holds /\ Goto(k, "dest_bridge")
    <3>1. /\ cpu'[k].pc = "dest_bridge" /\ cpu'[k].bridges = {}
          /\ \A j \in Cpu \ {k} : cpu'[j] = cpu[j]
      BY <1>1, <2>1, <2>2, GotoKeeps
    <3>2. /\ Held(k)' = (Held(k) \ {}) \cup {} /\ {} \subseteq Held(k) /\ {} \cap Held(k) = {}
          /\ cpu'[k].bridges \subseteq {"src_br"}
      BY <2>1, <3>1 DEF Held
    <3>3. \A d \in Device : holds'[d] = holds[d] + (IF d \in {} THEN 1 ELSE 0) - (IF d \in {} THEN 1 ELSE 0)
      BY <2>2, HoldAndPut
    <3>4. HoldersCounted'
      BY <2>1, <3>1, <3>2, <3>3, HoldersMove
    <3>5. BridgesFollow'
      BY <2>1, <3>1, <3>2, <3>3, BridgesMove
    <3>6. QED
      BY <3>4, <3>5
  <2>3. CASE /\ Hold("src_br")
             /\ cpu' = [cpu EXCEPT ![k] = [cpu[k] EXCEPT !.pc = "dest_bridge", !.bridges = {"src_br"}]]
    <3>1. /\ cpu'[k].pc = "dest_bridge" /\ cpu'[k].bridges = {"src_br"}
          /\ \A j \in Cpu \ {k} : cpu'[j] = cpu[j]
      BY <2>3 DEF TypeOK, CpuState
    <3>2. Held(k)' = (Held(k) \ {}) \cup {"src_br"} /\ {"src_br"} \cap Held(k) = {}
      BY <2>1, <3>1 DEF Held
    <3>3. \A d \in Device : holds'[d] = holds[d] + (IF d \in {"src_br"} THEN 1 ELSE 0) - (IF d \in {} THEN 1 ELSE 0)
      BY <1>2, <2>3, HoldAndPut
    <3>4. HoldersCounted'
      BY <2>1, <3>1, <3>2, <3>3, HoldersMove
    <3>5. BridgesFollow'
      BY <2>1, <3>1, <3>2, <3>3, BridgesMove
    <3>6. QED
      BY <3>4, <3>5
  <2>4. CASE Put({"src", "dest"}) /\ Goto(k, "idle")
    <3>1. /\ cpu'[k].pc = "idle" /\ cpu'[k].bridges = {}
          /\ \A j \in Cpu \ {k} : cpu'[j] = cpu[j]
      BY <1>1, <2>4, GotoKeeps
    <3>2. Held(k)' = {}
      BY <3>1 DEF Held
    <3>3. \A d \in Device : holds'[d] = holds[d] + (IF d \in {} THEN 1 ELSE 0) - (IF d \in {"src", "dest"} THEN 1 ELSE 0)
      BY <2>4, HoldAndPut
    <3>4. HoldersCounted'
      BY <2>1, <3>1, <3>2, <3>3, HoldersMove
    <3>5. BridgesFollow'
      BY <2>1, <3>1, <3>2, <3>3, BridgesMove
    <3>6. QED
      BY <3>4, <3>5
  <2>5. QED
    BY <1>6, <2>2, <2>3, <2>4 DEF SourceBridge
<1>7. CASE DestBridge(k)
  <2>1. Held(k) = {"src", "dest"} \cup cpu[k].bridges /\ cpu[k].bridges \subseteq {"src_br"}
    BY <1>7 DEF DestBridge, At, Held, BridgesFollow
  <2>2. CASE UNCHANGED holds /\ Goto(k, "create")
    <3>1. /\ cpu'[k].pc = "create" /\ cpu'[k].bridges = cpu[k].bridges
          /\ \A j \in Cpu \ {k} : cpu'[j] = cpu[j]
      BY <1>1, <2>2, GotoKeeps
    <3>2. /\ Held(k)' = (Held(k) \ {}) \cup {} /\ {} \subseteq Held(k) /\ {} \cap Held(k) = {}
          /\ cpu'[k].bridges \subseteq {"src_br"}
      BY <2>1, <3>1 DEF Held
    <3>3. \A d \in Device : holds'[d] = holds[d] + (IF d \in {} THEN 1 ELSE 0) - (IF d \in {} THEN 1 ELSE 0)
      BY <2>2, HoldAndPut
    <3>4. HoldersCounted'
      BY <3>1, <3>2, <3>3, HoldersMove
    <3>5. BridgesFollow'
      BY <2>1, <3>1, <3>2, <3>3, BridgesMove
    <3>6. QED
      BY <3>4, <3>5
  <2>3. CASE /\ Hold("dest_br")
             /\ cpu' = [cpu EXCEPT ![k] = [cpu[k] EXCEPT !.pc = "create",
                                                         !.bridges = cpu[k].bridges \cup {"dest_br"}]]
    <3>1. /\ cpu'[k].pc = "create" /\ cpu'[k].bridges = cpu[k].bridges \cup {"dest_br"}
          /\ \A j \in Cpu \ {k} : cpu'[j] = cpu[j]
      BY <2>3 DEF TypeOK, CpuState
    <3>2. Held(k)' = (Held(k) \ {}) \cup {"dest_br"}
      BY <2>1, <3>1 DEF Held
    <3>3. {"dest_br"} \cap Held(k) = {} /\ {} \subseteq Held(k)
      BY <2>1
    <3>4. \A d \in Device : holds'[d] = holds[d] + (IF d \in {"dest_br"} THEN 1 ELSE 0) - (IF d \in {} THEN 1 ELSE 0)
      BY <1>2, <2>3, HoldAndPut
    <3>5. HoldersCounted'
      <4>1. \A d \in Device : /\ holds[d] \in Int
                              /\ d \in Held(k)' <=> d \in Held(k) \/ d = "dest_br"
                              /\ d = "dest_br" => d \notin Held(k)
        BY <3>2, <3>3 DEF TypeOK
      <4>2. \A d \in Device : holds'[d] = holds[d] + (IF d \in Held(k)' THEN 1 ELSE 0)
                                                   - (IF d \in Held(k) THEN 1 ELSE 0)
        BY <3>4, <4>1
      <4>3. QED
        BY <3>1, <4>2, HoldersStep
    <3>6. BridgesFollow'
      BY <2>1, <3>1, <3>2, <3>3, <3>4, BridgesMove
    <3>7. QED
      BY <3>5, <3>6
  <2>4. CASE Put(HeldAtDone3(k)) /\ Goto(k, "idle")
    <3>1. /\ cpu'[k].pc = "idle" /\ cpu'[k].bridges = {}
          /\ \A j \in Cpu \ {k} : cpu'[j] = cpu[j]
      BY <1>1, <2>4, GotoKeeps
    <3>2. Held(k)' = {} /\ HeldAtDone3(k) = Held(k)
      BY <2>1, <3>1 DEF Held, HeldAtDone3
    <3>3. \A d \in Device : holds'[d] = holds[d] + (IF d \in {} THEN 1 ELSE 0) - (IF d \in Held(k) THEN 1 ELSE 0)
      BY <2>4, <3>2, HoldAndPut
    <3>4. HoldersCounted'
      BY <3>1, <3>2, <3>3, HoldersMove
    <3>5. BridgesFollow'
      BY <3>1, <3>2, <3>3, BridgesMove
    <3>6. QED
      BY <3>4, <3>5
  <2>5. QED
    BY <1>7, <2>2, <2>3, <2>4 DEF DestBridge
<1>8. CASE CreateRule(k)
  <2>1. Held(k) = {"src", "dest"} \cup cpu[k].bridges
    BY <1>8 DEF CreateRule, At, Held
  <2>2. /\ cpu'[k].pc = "idle" /\ cpu'[k].bridges = {}
        /\ \A j \in Cpu \ {k} : cpu'[j] = cpu[j]
    BY <1>1, <1>8, GotoKeeps DEF CreateRule
  <2>3. Held(k)' = {}
    BY <2>2 DEF Held
  <2>4. \A d \in Device : holds'[d] = holds[d] + (IF d \in {} THEN 1 ELSE 0) - (IF d \in Held(k) THEN 1 ELSE 0)
    BY <1>8, <2>1, HoldAndPut DEF CreateRule
  <2>5. HoldersCounted'
    BY <2>2, <2>3, <2>4, HoldersMove
  <2>6. BridgesFollow'
    BY <2>2, <2>3, <2>4, BridgesMove
  <2>7. QED
    BY <2>5, <2>6
<1>9. QED
  BY <1>3, <1>4, <1>5, <1>6, <1>7, <1>8

\* A flush begins or is over: the bridges and the count.
LEMMA FlushKeeps ==
    ASSUME TypeOK, NEW k \in Cpu
    PROVE  /\ \A then : RemoveAndFlush(k, then) =>
                 cpu'[k].bridges = cpu[k].bridges /\ cpu'[k].count = rule.unsynced
           /\ FlushDone(k) => cpu'[k].bridges \in {{}, cpu[k].bridges} /\ cpu'[k].count = 0
<1>1. cpu \in [Cpu -> CpuState] /\ cpu[k] \in CpuState
  BY DEF TypeOK
<1>2. ASSUME NEW then, RemoveAndFlush(k, then)
      PROVE  cpu'[k].bridges = cpu[k].bridges /\ cpu'[k].count = rule.unsynced
  <2>1. cpu'[k] = [cpu[k] EXCEPT !.pc = "flush", !.count = rule.unsynced, !.then = then]
    BY <1>1, <1>2 DEF RemoveAndFlush
  <2>2. QED
    BY <1>1, <2>1 DEF CpuState
<1>3. ASSUME FlushDone(k)
      PROVE  cpu'[k].bridges \in {{}, cpu[k].bridges} /\ cpu'[k].count = 0
  <2>1. cpu'[k] = IF cpu[k].then = "idle" THEN Idle
                  ELSE [cpu[k] EXCEPT !.pc = cpu[k].then, !.count = 0, !.then = "idle"]
    BY <1>1, <1>3 DEF FlushDone
  <2>2. QED
    BY <1>1, <2>1 DEF CpuState, Idle
<1>4. QED
  BY <1>2, <1>3

\* A CPU takes an entry: the packet's, or the one that is deleted.
LEMMA EntryKeeps ==
    ASSUME TypeOK, NEW k \in Cpu, Conntrack(k) \/ \E t \in Ct : Delete(k, t)
    PROVE  /\ cpu'[k].pc \in {"post", "event", "idle"} /\ cpu'[k].bridges = cpu[k].bridges
           /\ cpu'[k].count = cpu[k].count
           /\ \A j \in Cpu \ {k} : cpu'[j] = cpu[j]
<1>1. cpu \in [Cpu -> CpuState] /\ cpu[k] \in CpuState
  BY DEF TypeOK
<1>2. CASE \E t \in Ct, pc \in {"post", "event"} : cpu' = [cpu EXCEPT ![k] = [cpu[k] EXCEPT !.pc = pc, !.ct = t]]
  <2>1. PICK t \in Ct, pc \in {"post", "event"} : cpu' = [cpu EXCEPT ![k] = [cpu[k] EXCEPT !.pc = pc, !.ct = t]]
    BY <1>2
  <2>2. cpu'[k] = [cpu[k] EXCEPT !.pc = pc, !.ct = t] /\ \A j \in Cpu \ {k} : cpu'[j] = cpu[j]
    BY <1>1, <2>1
  <2>3. QED
    BY <1>1, <2>2 DEF CpuState
<1>3. CASE At(k, "idle") /\ UNCHANGED cpu
  BY <1>3 DEF At
<1>4. QED
  BY <1>2, <1>3 DEF Conntrack, Delete

\* The steps of a CPU other than those of sfe_cm_post_routing.
Elsewhere(k) ==
    \/ PacketIn(k) \/ RecvForward(k) \/ RecvPassUp(k) \/ RecvFlush(k)
    \/ LinuxDrop(k) \/ Conntrack(k) \/ PostRoutingIgnore(k) \/ PostRouting(k)
    \/ ConntrackEvent(k) \/ DeviceEvent(k) \/ DestroyRound(k)
    \/ FlushReadCallback(k) \/ FlushSync(k)
    \/ \E t \in Ct : Delete(k, t)

\* They hold no device.
LEMMA ElsewhereHolds ==
    ASSUME TypeOK, BridgesFollow, HoldersCounted, NEW k \in Cpu, Elsewhere(k)
    PROVE  BridgesFollow' /\ HoldersCounted'
<1>1. {"idle", "recv", "linux", "find_src", "round", "sync"} \subseteq Pc
  BY DEF Pc, PostRoutingPc
<1>2. UNCHANGED holds /\ cpu[k].pc \notin PostRoutingPc
  BY DEF Elsewhere, PacketIn, RecvForward, RecvPassUp, RecvFlush, LinuxDrop, Conntrack, PostRoutingIgnore,
         PostRouting, ConntrackEvent, DeviceEvent, DestroyRound, FlushReadCallback, FlushSync, Delete,
         At, PostRoutingPc
<1>3. \/ \E pc \in {"idle", "recv", "linux", "find_src", "round", "sync"} : Goto(k, pc)
      \/ \E then \in {"idle", "linux", "round"} : RemoveAndFlush(k, then)
      \/ FlushDone(k)
      \/ Conntrack(k) \/ \E t \in Ct : Delete(k, t)
  BY DEF Elsewhere, PacketIn, RecvForward, RecvPassUp, RecvFlush, LinuxDrop, PostRoutingIgnore,
         PostRouting, ConntrackEvent, DeviceEvent, DestroyRound, FlushReadCallback, FlushSync
<1>4. /\ cpu'[k].pc \notin PostRoutingPc \ {"find_src"} /\ cpu'[k].bridges \in {{}, cpu[k].bridges}
      /\ \A j \in Cpu \ {k} : cpu'[j] = cpu[j]
  <2>1. CASE \E pc \in {"idle", "recv", "linux", "find_src", "round", "sync"} : Goto(k, pc)
    <3>1. PICK pc \in {"idle", "recv", "linux", "find_src", "round", "sync"} : Goto(k, pc)
      BY <2>1
    <3>2. cpu'[k].pc = pc /\ cpu'[k].bridges \in {{}, cpu[k].bridges} /\ \A j \in Cpu \ {k} : cpu'[j] = cpu[j]
      BY <1>1, <3>1, GotoKeeps
    <3>3. QED
      BY <3>2 DEF PostRoutingPc
  <2>2. CASE \E then \in {"idle", "linux", "round"} : RemoveAndFlush(k, then)
    BY <2>2, RemoveAndFlushMoves, FlushKeeps DEF PostRoutingPc
  <2>3. CASE FlushDone(k)
    BY <2>3, FlushDoneMoves, FlushKeeps DEF PostRoutingPc
  <2>4. CASE Conntrack(k) \/ \E t \in Ct : Delete(k, t)
    BY <2>4, EntryKeeps DEF PostRoutingPc
  <2>5. QED
    BY <1>3, <2>1, <2>2, <2>3, <2>4
<1>5. QED
  BY <1>2, <1>4, HoldersQuiet

\* conntrack makes an entry only when there is none.
LEMMA OneLiveStep ==
    ASSUME TypeOK, OneLive, Next
    PROVE  OneLive'
<1>1. CASE \E k \in Cpu : Conntrack(k)
  <2>1. PICK k \in Cpu, t \in Ct : /\ Live # {} => t \in Live
                                   /\ \E x : ct' = [ct EXCEPT ![t] = x]
                                   /\ dying' = dying
    BY <1>1 DEF Conntrack
  <2>2. Live' \subseteq Live \cup {t}
    BY <2>1 DEF Live, TypeOK
  <2>3. QED
    BY <2>1, <2>2 DEF OneLive
<1>2. CASE ~ \E k \in Cpu : Conntrack(k)
  <2>1. ct' = ct /\ dying \subseteq dying'
    BY <1>2 DEF Next, InitModule, ExitModule, ExitSync, ExitRecv, ExitBarrier, ExitDestroy, ExitNotifier,
          ExitWait, ExitHooks, ExitInet6, ExitDev, ExitLastWait, ExitReplay, NoDeviceEvent, LeaveChain, Waited, Step, TimerTake, TimerCallback,
          DeviceUp, PacketIn, RecvForward, RecvPassUp, RecvFlush, LinuxDrop, PostRoutingIgnore, PostRouting,
          FindSource, FindTranslated, FindDestination, SourceBridge, DestBridge, CreateRule,
          ConntrackEvent, DeviceEvent, DestroyRound, FlushReadCallback, FlushSync, Delete
  <2>2. Live' \subseteq Live
    BY <2>1 DEF Live
  <2>3. QED
    BY <2>2 DEF OneLive
<1>3. QED
  BY <1>1, <1>2

Credited == SumFunctionOnSet(acct, Ct)

\* sfe_cm_sync_rule credits at most one entry.
LEMMA SyncCredits ==
    ASSUME TypeOK, OneLive, NEW n \in Nat, SyncRule(n)
    PROVE  Credited \in Int /\ Credited' \in Int /\ Credited' <= Credited + n
<1>1. acct \in [Ct -> Int] /\ \A t \in Ct : acct[t] \in Int
  BY DEF TypeOK
<1>2. acct' \in [Ct -> Int] /\ \A t \in Ct : acct'[t] = IF t \in Live THEN acct[t] + n ELSE acct[t]
  BY <1>1 DEF SyncRule
<1>3. Credited \in Int /\ Credited' \in Int
  BY <1>1, <1>2, SumType, FiniteAssumption DEF Credited
<1>4. CASE Live = {}
  <2>1. acct' = acct
    BY <1>1, <1>2, <1>4
  <2>2. QED
    BY <1>3, <2>1 DEF Credited
<1>5. CASE Live # {}
  <2>1. PICK t \in Ct : t \in Live
    BY <1>5 DEF Live
  <2>2. \A u \in Ct \ {t} : acct'[u] = acct[u]
    BY <1>2, <2>1 DEF OneLive
  <2>3. acct'[t] = acct[t] + n /\ acct[t] \in Int
    BY <1>1, <1>2, <2>1
  <2>4. Credited' = Credited + acct'[t] - acct[t]
    BY <1>1, <1>2, <2>2, SumChange, FiniteAssumption DEF Credited
  <2>5. QED
    BY <1>3, <2>3, <2>4
<1>6. QED
  BY <1>4, <1>5

\* What CPU k counts, when it alone moves.
LEMMA CountsMove ==
    ASSUME TypeOK, TypeOK', NEW k \in Cpu, \A j \in Cpu \ {k} : cpu'[j] = cpu[j]
    PROVE  /\ SumFunctionOnSet(Counts, Cpu) \in Int /\ SumFunctionOnSet(Counts', Cpu) \in Int
           /\ SumFunctionOnSet(Counts', Cpu) = SumFunctionOnSet(Counts, Cpu) + cpu'[k].count - cpu[k].count
<1>1. Counts \in [Cpu -> Int] /\ \A j \in Cpu : Counts[j] = cpu[j].count
  BY DEF Counts, TypeOK, CpuState
<1>2. Counts' \in [Cpu -> Int] /\ \A j \in Cpu : (Counts')[j] = cpu'[j].count
  BY DEF Counts, TypeOK, CpuState
<1>3. \A j \in Cpu \ {k} : (Counts')[j] = Counts[j]
  BY <1>1, <1>2
<1> HIDE DEF Counts
<1>4. /\ SumFunctionOnSet(Counts, Cpu) \in Int /\ SumFunctionOnSet(Counts', Cpu) \in Int
      /\ SumFunctionOnSet(Counts', Cpu) = SumFunctionOnSet(Counts, Cpu) + (Counts')[k] - Counts[k]
  BY <1>1, <1>2, <1>3, SumChange, FiniteAssumption
<1>5. QED
  BY <1>1, <1>2, <1>4

\* What is pending is a number.
LEMMA PendingType == TypeOK => Pending \in Nat
BY DEF TypeOK, Pending, RuleType

\* A step that does not make up packets: what CPU k counts, what is pending and
\* what is credited grow by no more than what is forwarded.
LEMMA CreditMove ==
    ASSUME TypeOK, TypeOK', CreditedOnce, NEW k \in Cpu, \A j \in Cpu \ {k} : cpu'[j] = cpu[j],
           Credited' + cpu'[k].count + Pending' + forwarded
              <= Credited + cpu[k].count + Pending + forwarded'
    PROVE  CreditedOnce'
<1> DEFINE c == cpu[k].count
           d == cpu'[k].count
           x == SumFunctionOnSet(Counts, Cpu)
           y == SumFunctionOnSet(Counts', Cpu)
<1>1. c \in Int /\ d \in Int /\ forwarded \in Int /\ forwarded' \in Int
  BY DEF TypeOK, CpuState
<1>2. Pending \in Int /\ Pending' \in Int
  <2>1. Pending' \in Nat
    BY DEF TypeOK, Pending, RuleType
  <2>2. QED
    BY <2>1, PendingType
<1>3. Credited \in Int /\ Credited' \in Int
  <2>1. acct \in [Ct -> Int] /\ acct' \in [Ct -> Int]
    BY DEF TypeOK
  <2>2. QED
    BY <2>1, SumType, FiniteAssumption DEF Credited
<1>4. x \in Int /\ y \in Int /\ y = x + d - c
  BY CountsMove
<1>5. Credited + x + Pending <= forwarded
  BY DEF CreditedOnce, Credited, Counts
<1>6. Credited' + d + Pending' + forwarded <= Credited + c + Pending + forwarded'
  OBVIOUS
<1>7. CreditedOnce' = (Credited' + y + Pending' <= forwarded')
  BY DEF CreditedOnce, Credited, Counts
<1>8. Credited' + y + Pending' <= forwarded'
  <2> DEFINE a == Credited
             b == Credited'
             p == Pending
             q == Pending'
             f == forwarded
             g == forwarded'
  <2>1. /\ a \in Int /\ b \in Int /\ p \in Int /\ q \in Int /\ f \in Int /\ g \in Int
        /\ c \in Int /\ d \in Int /\ x \in Int /\ y \in Int
    BY <1>1, <1>2, <1>3, <1>4
  <2>2. y = x + d - c /\ a + x + p <= f /\ b + d + q + f <= a + c + p + g
    BY <1>4, <1>5, <1>6
  <2> HIDE DEF c, d, x, y, a, b, p, q, f, g
  <2>3. b + y + q <= g
    BY <2>1, <2>2
  <2>4. QED
    BY <2>3 DEF b, q, g
<1>9. QED
  BY <1>7, <1>8

\* One that leaves everything but CPU k alone, and lets that forget.
LEMMA CreditQuiet ==
    ASSUME TypeOK, TypeOK', CreditedOnce, NEW k \in Cpu, \A j \in Cpu \ {k} : cpu'[j] = cpu[j],
           UNCHANGED <<acct, timer, forwarded>>, Pending' = Pending, cpu'[k].count \in {0, cpu[k].count}
    PROVE  CreditedOnce'
<1>1. cpu[k].count \in Nat /\ forwarded \in Nat
  BY DEF TypeOK, CpuState
<1>2. cpu'[k].count \in Nat /\ cpu'[k].count <= cpu[k].count
  BY <1>1
<1>3. Pending \in Nat
  BY PendingType
<1>4. Credited \in Int /\ Credited' = Credited
  BY SumType, FiniteAssumption DEF Credited, TypeOK
<1> DEFINE c == cpu[k].count
           d == cpu'[k].count
           z == Credited
           p == Pending
<1> HIDE DEF c, d, z, p
<1>5. z + d + p + forwarded <= z + c + p + forwarded
  BY <1>1, <1>2, <1>3, <1>4 DEF c, d, z, p
<1>6. Credited' + cpu'[k].count + Pending' + forwarded <= Credited + cpu[k].count + Pending + forwarded'
  BY <1>4, <1>5 DEF c, d, z, p
<1>7. QED
  BY <1>6, CreditMove

\* A packet that is forwarded is pending from then on.
LEMMA ForwardCredits ==
    ASSUME TypeOK, TypeOK', CreditedOnce, NEW k \in Cpu, RecvForward(k)
    PROVE  CreditedOnce'
<1>1. /\ cpu'[k].count = 0 /\ \A j \in Cpu \ {k} : cpu'[j] = cpu[j]
  BY GotoKeeps DEF RecvForward, Pc
<1>2. rule \in RuleType /\ rule # NULL /\ rule' \in RuleType /\ rule'.unsynced = rule.unsynced + 1
  BY DEF RecvForward, TypeOK, RuleType
<1>3. rule' # NULL /\ rule.unsynced \in Nat /\ rule'.unsynced \in Nat
  BY <1>2, NullAssumption DEF RuleType
<1> DEFINE w == IF timer = NULL THEN 0 ELSE timer
<1>4. w \in Nat /\ Pending = rule.unsynced + w /\ Pending' = rule'.unsynced + w
  BY <1>2, <1>3 DEF RecvForward, Pending, TypeOK
<1> HIDE DEF w
<1>5. Pending' = Pending + 1 /\ Pending \in Nat
  BY <1>2, <1>3, <1>4
<1>6. Credited \in Int /\ Credited' = Credited
  BY SumType, FiniteAssumption DEF Credited, TypeOK, RecvForward
<1>7. forwarded \in Nat /\ forwarded' = forwarded + 1 /\ cpu[k].count \in Nat
  BY DEF RecvForward, TypeOK, CpuState
<1> DEFINE a == Credited
           p == Pending
           c == cpu[k].count
           f == forwarded
<1>8. a \in Int /\ p \in Nat /\ c \in Nat /\ f \in Nat
  BY <1>5, <1>6, <1>7
<1> HIDE DEF a, p, c, f
<1>9. a + 0 + (p + 1) + f <= a + c + p + (f + 1)
  BY <1>8
<1>10. Credited' + cpu'[k].count + Pending' + forwarded <= Credited + cpu[k].count + Pending + forwarded'
  BY <1>1, <1>5, <1>6, <1>7, <1>9 DEF a, p, c, f
<1>11. QED
  BY <1>1, <1>10, CreditMove

\* What the rule has not synced goes to the CPU that removes it.
LEMMA RemoveCredits ==
    ASSUME TypeOK, TypeOK', CreditedOnce, NEW k \in Cpu, NEW then \in {"idle", "linux", "round"},
           RemoveAndFlush(k, then), UNCHANGED <<acct, timer, forwarded>>
    PROVE  CreditedOnce'
<1>1. /\ cpu'[k].count = rule.unsynced /\ rule \in RuleType /\ rule # NULL /\ rule' = NULL
      /\ \A j \in Cpu \ {k} : cpu'[j] = cpu[j]
  BY RemoveAndFlushMoves
<1>2. rule.unsynced \in Nat
  BY <1>1 DEF RuleType
<1> DEFINE w == IF timer = NULL THEN 0 ELSE timer
           u == rule.unsynced
<1>3. w \in Nat /\ Pending = u + w /\ Pending' = 0 + w
  BY <1>1, <1>2 DEF Pending, TypeOK
<1>4. Credited \in Int /\ Credited' = Credited
  BY SumType, FiniteAssumption DEF Credited, TypeOK
<1>5. forwarded \in Nat /\ forwarded' = forwarded /\ cpu[k].count \in Nat
  BY DEF TypeOK, CpuState
<1> DEFINE a == Credited
           c == cpu[k].count
           f == forwarded
<1>6. a \in Int /\ u \in Nat /\ c \in Nat /\ f \in Nat /\ w \in Nat
  BY <1>2, <1>3, <1>4, <1>5
<1> HIDE DEF a, u, c, f, w
<1>7. a + u + (0 + w) + f <= a + c + (u + w) + f
  BY <1>6
<1>8. Credited' + cpu'[k].count + Pending' + forwarded <= Credited + cpu[k].count + Pending + forwarded'
  BY <1>1, <1>3, <1>4, <1>5, <1>7 DEF a, u, c, f
<1>9. QED
  BY <1>1, <1>8, CreditMove

\* The flush calls back: what it counted is credited once, or to no entry.
LEMMA FlushCredits ==
    ASSUME TypeOK, TypeOK', OneLive, CreditedOnce, NEW k \in Cpu, FlushSync(k)
    PROVE  CreditedOnce'
<1>1. /\ cpu'[k].count = 0 /\ \A j \in Cpu \ {k} : cpu'[j] = cpu[j]
  BY FlushDoneMoves, FlushKeeps DEF FlushSync
<1>2. cpu[k].count \in Nat /\ forwarded \in Nat /\ forwarded' = forwarded
  BY DEF FlushSync, TypeOK, CpuState
<1>3. Credited \in Int /\ Credited' \in Int /\ Credited' <= Credited + cpu[k].count
  BY <1>2, SyncCredits DEF FlushSync
<1>4. Pending \in Nat /\ Pending' = Pending
  BY PendingType DEF FlushSync, Pending
<1> DEFINE a == Credited
           b == Credited'
           c == cpu[k].count
           f == forwarded
           p == Pending
<1>5. a \in Int /\ b \in Int /\ c \in Nat /\ f \in Nat /\ p \in Nat /\ b <= a + c
  BY <1>2, <1>3, <1>4
<1> HIDE DEF a, b, c, f, p
<1>6. b + 0 + p + f <= a + c + p + f
  BY <1>5
<1>7. Credited' + cpu'[k].count + Pending' + forwarded <= Credited + cpu[k].count + Pending + forwarded'
  BY <1>1, <1>2, <1>4, <1>6 DEF a, b, c, f, p
<1>8. QED
  BY <1>1, <1>7, CreditMove

\* The steps of a CPU.
LEMMA CpuCredits ==
    ASSUME TypeOK, TypeOK', OneLive, CreditedOnce, NEW k \in Cpu, CpuAction(k)
    PROVE  CreditedOnce'
<1>1. {"idle", "recv", "linux", "round", "sync"} \cup PostRoutingPc \subseteq Pc
  BY DEF Pc
<1>2. CASE RecvForward(k)
  BY <1>2, ForwardCredits
<1>3. CASE FlushSync(k)
  BY <1>3, FlushCredits
<1>4. CASE \E then \in {"idle", "linux", "round"} :
             RemoveAndFlush(k, then) /\ UNCHANGED <<acct, timer, forwarded>>
  BY <1>4, RemoveCredits
<1>5. CASE /\ UNCHANGED <<acct, timer, forwarded>> /\ Pending' = Pending
           /\ \/ \E pc \in {"idle", "recv", "linux", "round", "sync"} \cup PostRoutingPc : Goto(k, pc)
              \/ FlushDone(k)
              \/ Conntrack(k) \/ \E t \in Ct : Delete(k, t)
              \/ \E pc, B : cpu' = [cpu EXCEPT ![k] = [cpu[k] EXCEPT !.pc = pc, !.bridges = B]]
  <2>1. cpu'[k].count \in {0, cpu[k].count} /\ \A j \in Cpu \ {k} : cpu'[j] = cpu[j]
    <3>1. ASSUME NEW pc \in {"idle", "recv", "linux", "round", "sync"} \cup PostRoutingPc, Goto(k, pc)
          PROVE  cpu'[k].count \in {0, cpu[k].count} /\ \A j \in Cpu \ {k} : cpu'[j] = cpu[j]
      <4>1. pc \in Pc
        BY <1>1
      <4>2. QED
        BY <3>1, <4>1, GotoKeeps
    <3>2. CASE FlushDone(k)
      BY <3>2, FlushDoneMoves, FlushKeeps
    <3>3. CASE Conntrack(k) \/ \E t \in Ct : Delete(k, t)
      BY <3>3, EntryKeeps
    <3>4. ASSUME NEW pc, NEW B, cpu' = [cpu EXCEPT ![k] = [cpu[k] EXCEPT !.pc = pc, !.bridges = B]]
          PROVE  cpu'[k].count \in {0, cpu[k].count} /\ \A j \in Cpu \ {k} : cpu'[j] = cpu[j]
      BY <3>4 DEF TypeOK, CpuState
    <3>5. QED
      BY <1>5, <3>1, <3>2, <3>3, <3>4
  <2>2. QED
    BY <1>5, <2>1, CreditQuiet
<1>6. CASE CreateRule(k)
  <2>1. UNCHANGED <<acct, timer, forwarded>> /\ Goto(k, "idle")
    BY <1>6 DEF CreateRule
  <2>2. Pending' = Pending
    <3>1. CASE rule' = rule
      BY <2>1, <3>1 DEF Pending
    <3>2. CASE rule = NULL /\ rule'.unsynced = 0
      BY <2>1, <3>2 DEF Pending
    <3>3. QED
      BY <1>6, <3>1, <3>2 DEF CreateRule
  <2>3. QED
    BY <1>5, <2>1, <2>2
<1>7. CASE PacketIn(k) \/ RecvPassUp(k) \/ LinuxDrop(k) \/ PostRoutingIgnore(k) \/ PostRouting(k)
           \/ FindSource(k) \/ FindTranslated(k) \/ FindDestination(k) \/ DeviceEvent(k)
  <2>1. UNCHANGED <<acct, timer, forwarded, rule>>
    BY <1>7 DEF PacketIn, RecvPassUp, LinuxDrop, PostRoutingIgnore, PostRouting, FindSource, FindTranslated,
                FindDestination, DeviceEvent
  <2>2. \E pc \in {"idle", "recv", "linux", "round", "sync"} \cup PostRoutingPc : Goto(k, pc)
    BY <1>7 DEF PacketIn, RecvPassUp, LinuxDrop, PostRoutingIgnore, PostRouting, FindSource, FindTranslated,
                FindDestination, DeviceEvent, PostRoutingPc
  <2>3. Pending' = Pending
    BY <2>1 DEF Pending
  <2>4. QED
    BY <1>5, <2>1, <2>2, <2>3
<1>8. CASE SourceBridge(k) \/ DestBridge(k)
  <2>1. UNCHANGED <<acct, timer, forwarded, rule>>
    BY <1>8 DEF SourceBridge, DestBridge
  <2>2. \/ \E pc \in {"idle", "recv", "linux", "round", "sync"} \cup PostRoutingPc : Goto(k, pc)
        \/ \E pc, B : cpu' = [cpu EXCEPT ![k] = [cpu[k] EXCEPT !.pc = pc, !.bridges = B]]
    BY <1>8 DEF SourceBridge, DestBridge, PostRoutingPc
  <2>3. Pending' = Pending
    BY <2>1 DEF Pending
  <2>4. QED
    BY <1>5, <2>1, <2>2, <2>3
<1>9. CASE Conntrack(k) \/ \E t \in Ct : Delete(k, t)
  <2>1. UNCHANGED <<acct, timer, forwarded, rule>>
    BY <1>9 DEF Conntrack, Delete
  <2>2. Pending' = Pending
    BY <2>1 DEF Pending
  <2>3. QED
    BY <1>5, <1>9, <2>1, <2>2
<1>10. CASE RecvFlush(k)
  BY <1>4, <1>10 DEF RecvFlush
<1>11. CASE ConntrackEvent(k) \/ DestroyRound(k)
  <2>1. UNCHANGED <<acct, timer, forwarded>>
    BY <1>11 DEF ConntrackEvent, DestroyRound
  <2>2. \/ \E then \in {"idle", "linux", "round"} : RemoveAndFlush(k, then)
        \/ UNCHANGED rule /\ Goto(k, "idle")
    BY <1>11 DEF ConntrackEvent, DestroyRound
  <2>3. CASE UNCHANGED rule /\ Goto(k, "idle")
    <3>1. Pending' = Pending
      BY <2>1, <2>3 DEF Pending
    <3>2. QED
      BY <1>5, <2>1, <2>3, <3>1
  <2>4. QED
    BY <1>4, <2>1, <2>2, <2>3
<1>12. CASE FlushReadCallback(k)
  <2>1. UNCHANGED <<acct, timer, forwarded, rule>> /\ (Goto(k, "sync") \/ FlushDone(k))
    BY <1>12 DEF FlushReadCallback
  <2>2. Pending' = Pending
    BY <2>1 DEF Pending
  <2>3. QED
    BY <1>5, <2>1, <2>2
<1>13. QED
  BY <1>2, <1>3, <1>6, <1>7, <1>8, <1>9, <1>10, <1>11, <1>12 DEF CpuAction

\* The timer moves packets from the rule to its message, and from there to the
\* entry.
LEMMA TimerCredits ==
    ASSUME TypeOK, OneLive, CreditedOnce, TimerTake \/ TimerCallback
    PROVE  CreditedOnce'
<1> DEFINE x == SumFunctionOnSet(Counts, Cpu)
           a == Credited
           b == Credited'
           f == forwarded
<1>1. x \in Int /\ f \in Int
  <2>1. Counts \in [Cpu -> Int]
    BY DEF Counts, TypeOK, CpuState
  <2>2. QED
    BY <2>1, SumType, FiniteAssumption DEF TypeOK
<1>2. a + x + Pending <= f
  BY DEF CreditedOnce, Credited, Counts
<1>3. UNCHANGED <<cpu, forwarded>>
  BY DEF TimerTake, TimerCallback
<1>4. CreditedOnce' = (b + x + Pending' <= f)
  BY <1>3 DEF CreditedOnce, Credited, Counts
<1>5. a \in Int
  BY SumType, FiniteAssumption DEF Credited, TypeOK
<1>6. CASE TimerTake
  <2>1. b = a
    BY <1>6 DEF TimerTake, Credited
  <2>2. Pending' = Pending
    <3>1. rule \in RuleType /\ timer' = rule.unsynced /\ timer = NULL /\ rule.unsynced \in Nat
      BY <1>6 DEF TimerTake, TypeOK, RuleType
    <3>2. rule' \in RuleType /\ rule'.unsynced = 0
      BY <1>6, <3>1 DEF TimerTake, RuleType
    <3>3. rule' # NULL /\ rule # NULL /\ timer' # NULL
      BY <3>1, <3>2, NullAssumption
    <3>4. QED
      BY <3>1, <3>2, <3>3 DEF Pending
  <2>3. QED
    BY <1>2, <1>4, <2>1, <2>2
<1>7. CASE TimerCallback
  <2>1. timer \in Nat /\ timer # NULL /\ timer' = NULL /\ rule' = rule
    BY <1>7 DEF TimerCallback, TypeOK
  <2>2. b \in Int /\ b <= a + timer
    BY <1>7, <2>1, SyncCredits DEF TimerCallback
  <2> DEFINE u == IF rule = NULL THEN 0 ELSE rule.unsynced
             t == timer
  <2>3. u \in Nat
    BY DEF TypeOK, RuleType
  <2>4. Pending = u + t /\ Pending' = u + 0
    BY <2>1 DEF Pending
  <2>5. a + x + (u + t) <= f /\ t \in Nat /\ b <= a + t /\ b \in Int
    BY <1>2, <2>1, <2>2, <2>4
  <2>6. b + x + (u + 0) <= f
    <3> HIDE DEF a, b, f, x, u, t
    <3>1. QED
      BY <1>1, <1>5, <2>3, <2>5
  <2>7. QED
    BY <1>4, <2>4, <2>6
<1>8. QED
  BY <1>6, <1>7

\* Loading and unloading: the rule that goes takes its packets with it.
LEMMA ModuleCredits ==
    ASSUME TypeOK, CountInv, InitModule \/ ExitModule
    PROVE  BridgesFollow' /\ HoldersCounted' /\ CreditedOnce'
<1>1. UNCHANGED <<acct, holds, forwarded, timer>> /\ (rule' = rule \/ rule' = NULL)
  BY ModuleSteps DEF InitModule, ExitModule, ExitSync, ExitRecv, ExitBarrier, ExitDestroy, ExitNotifier,
        ExitWait, ExitHooks, ExitInet6, ExitDev, ExitLastWait, ExitReplay, NoDeviceEvent, LeaveChain, Waited, Step
<1>2. ASSUME NEW k \in Cpu
      PROVE  cpu'[k].pc = cpu[k].pc /\ cpu'[k].bridges = cpu[k].bridges /\ cpu'[k].count = cpu[k].count
  <2>1. cpu[k] \in CpuState
    BY DEF TypeOK
  <2>2. CASE cpu' = [j \in Cpu |-> IF At(j, "idle") \/ InDeviceEvent(j)
                                  THEN cpu[j] ELSE [cpu[j] EXCEPT !.old = TRUE]]
    BY <2>1, <2>2 DEF CpuState
  <2>3. CASE UNCHANGED cpu
    BY <2>3
  <2>4. QED
    BY <2>2, <2>3 DEF InitModule, ExitModule, ExitSync, ExitRecv, ExitBarrier, ExitDestroy, ExitNotifier,
          ExitWait, ExitHooks, ExitInet6, ExitDev, ExitLastWait, ExitReplay, NoDeviceEvent, LeaveChain, Waited
<1>3. BridgesFollow'
  BY <1>2 DEF CountInv, BridgesFollow
<1>4. \A k \in Cpu : Held(k)' = Held(k)
  BY <1>2 DEF Held
<1>5. HoldersCounted'
  <2>1. \A d \in Device : Holders(d)' = Holders(d)
    BY <1>4 DEF Holders
  <2>2. QED
    BY <1>1, <2>1 DEF CountInv, HoldersCounted
<1>6. CreditedOnce'
  <2>1. Counts' = Counts
    BY <1>2 DEF Counts
  <2> DEFINE x == SumFunctionOnSet(Counts, Cpu)
             a == Credited
             p == Pending
             q == Pending'
             f == forwarded
  <2>2. CreditedOnce' = (a + x + q <= f)
    BY <1>1, <2>1 DEF CreditedOnce, Credited, Counts
  <2>3. a + x + p <= f
    BY DEF CountInv, CreditedOnce, Credited, Counts
  <2>4. p \in Nat /\ q \in Nat /\ q <= p
    <3> DEFINE w == IF timer = NULL THEN 0 ELSE timer
               u == IF rule = NULL THEN 0 ELSE rule.unsynced
    <3>1. w \in Nat /\ u \in Nat
      BY DEF TypeOK, RuleType
    <3>2. p = u + w /\ (q = u + w \/ q = 0 + w)
      BY <1>1 DEF Pending
    <3> HIDE DEF w, u, p, q
    <3>3. QED
      BY <3>1, <3>2
  <2>5. a \in Int /\ f \in Int /\ x \in Int
    <3>1. Counts \in [Cpu -> Int] /\ acct \in [Ct -> Int]
      BY DEF Counts, TypeOK, CpuState
    <3>2. QED
      BY <3>1, SumType, FiniteAssumption DEF Credited, TypeOK
  <2>6. a + x + q <= f
    <3> HIDE DEF a, x, p, q, f
    <3>1. QED
      BY <2>3, <2>4, <2>5
  <2>7. QED
    BY <2>2, <2>6
<1>7. QED
  BY <1>3, <1>5, <1>6

\* The counts are right at first.
LEMMA CountInit == Init => CountInv
<1> SUFFICES ASSUME Init PROVE CountInv
  OBVIOUS
<1>1. \A k \in Cpu : cpu[k].pc = "idle" /\ cpu[k].bridges = {} /\ cpu[k].count = 0
  BY DEF Init, Idle
<1>2. BridgesFollow /\ OneLive
  BY <1>1 DEF Init, BridgesFollow, OneLive, Live
<1>3. HoldersCounted
  <2>1. \A d \in Device : Holders(d) = {}
    BY <1>1 DEF Holders, Held
  <2>2. QED
    BY <2>1, FS_EmptySet DEF Init, HoldersCounted, NoHolds
<1>4. CreditedOnce
  <2>1. SumFunctionOnSet(acct, Ct) = 0
    BY SumZero, FiniteAssumption DEF Init
  <2>2. SumFunctionOnSet(Counts, Cpu) = 0
    <3>1. \A k \in Cpu : Counts[k] = 0
      BY <1>1 DEF Counts
    <3>2. QED
      BY <3>1, SumZero, FiniteAssumption
  <2>3. Pending = 0 /\ forwarded = 0
    BY DEF Init, Pending
  <2>4. QED
    BY <2>1, <2>2, <2>3 DEF CreditedOnce, Counts
<1>5. QED
  BY <1>2, <1>3, <1>4 DEF CountInv

\* Every step keeps the counts right.
LEMMA CountStep == TypeOK /\ TypeOK' /\ CountInv /\ [Next]_vars => CountInv'
<1> SUFFICES ASSUME TypeOK, TypeOK', CountInv, [Next]_vars PROVE CountInv'
  OBVIOUS
<1>1. BridgesFollow /\ HoldersCounted /\ OneLive /\ CreditedOnce
  BY DEF CountInv
<1>2. CASE Next
  <2>1. OneLive'
    BY <1>1, <1>2, OneLiveStep
  <2>2. CASE \E k \in Cpu : CpuAction(k)
    <3>1. PICK k \in Cpu : CpuAction(k)
      BY <2>2
    <3>2. CreditedOnce'
      BY <1>1, <3>1, CpuCredits
    <3>3. \/ Elsewhere(k)
          \/ FindSource(k) \/ FindTranslated(k) \/ FindDestination(k)
          \/ SourceBridge(k) \/ DestBridge(k) \/ CreateRule(k)
      BY <3>1 DEF CpuAction, Elsewhere
    <3>4. BridgesFollow' /\ HoldersCounted'
      BY <1>1, <3>3, PostRoutingHolds, ElsewhereHolds
    <3>5. QED
      BY <2>1, <3>2, <3>4 DEF CountInv
  <2>3. CASE TimerTake \/ TimerCallback
    <3>1. UNCHANGED <<cpu, holds>>
      BY <2>3 DEF TimerTake, TimerCallback
    <3>2. BridgesFollow' /\ HoldersCounted'
      BY <1>1, <3>1 DEF BridgesFollow, HoldersCounted, Holders, Held
    <3>3. QED
      BY <1>1, <2>1, <2>3, <3>2, TimerCredits DEF CountInv
  <2>4. CASE InitModule \/ ExitModule
    BY <2>1, <2>4, ModuleCredits DEF CountInv
  <2>5. CASE DeviceUp
    BY <1>1, <2>5 DEF DeviceUp, CountInv, BridgesFollow, HoldersCounted, Holders, Held, OneLive, Live,
                      CreditedOnce, Pending
  <2>6. QED
    BY <1>2, <2>2, <2>3, <2>4, <2>5 DEF Next, CpuAction
<1>3. CASE UNCHANGED vars
  BY <1>1, <1>3 DEF vars, CountInv, BridgesFollow, HoldersCounted, Holders, Held, OneLive, Live,
                    CreditedOnce, Pending
<1>4. QED
  BY <1>2, <1>3

\* The counts are always right.
LEMMA CountInvariance == Spec => []CountInv
<1>1. QED
  BY CountInit, CountStep, TypesHold, PTL DEF Spec

\* sfe_cm_post_routing leaves no reference behind, for any number of CPUs in
\* it at once and whichever label each leaves by.
THEOREM DevicesAreReleased == Spec => []DeviceHoldsBalanced
<1>1. TypeOK /\ CountInv => DeviceHoldsBalanced
  <2> SUFFICES ASSUME TypeOK, CountInv, \A k \in Cpu : cpu[k].pc \notin PostRoutingPc PROVE holds = NoHolds
    BY DEF DeviceHoldsBalanced
  <2>1. \A d \in Device : Holders(d) = {}
    BY DEF Holders, Held, PostRoutingPc
  <2>2. \A d \in Device : holds[d] = 0
    BY <2>1, FS_EmptySet DEF CountInv, HoldersCounted
  <2>3. QED
    BY <2>2 DEF TypeOK, NoHolds
<1>2. QED
  BY <1>1, CountInvariance, TypesHold, PTL

\* sfe_cm_sync_rule: no packet is credited twice, for any number of CPUs that
\* flush at once and of conntrack entries that follow one another.
THEOREM PacketsCreditedOnce == Spec => []CreditedOnce
<1>1. CountInv => CreditedOnce
  BY DEF CountInv
<1>2. QED
  BY <1>1, CountInvariance, PTL
=============================================================================
