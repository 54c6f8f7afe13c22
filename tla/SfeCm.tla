------------------------------- MODULE SfeCm -------------------------------
(***************************************************************************)
(* The connection manager of shortcut-fe (sfe_cm.c): it makes rules of     *)
(* conntrack entries, takes them back when an entry or a device goes, and  *)
(* brings the engine's statistics back to conntrack.                       *)
(*                                                                         *)
(* One flow (one 5-tuple) is followed through successive conntrack         *)
(* entries.  The engine is reduced to what the connection manager sees of  *)
(* it: at most one rule for the flow (TableIsConsistent of SfeIpv4), and a *)
(* flush that syncs what it removed (FlushIsExclusive).  conntrack and the *)
(* registration of hooks belong to the kernel.                             *)
(***************************************************************************)
EXTENDS Integers, FiniteSets, Functions

CONSTANTS Cpu,         \* processors
          Ct,          \* struct nf_conn objects for the flow, each used once
          MaxPackets,  \* bound: packets the engine forwards
          NULL

\* The process that loads and unloads the module is not one of the CPUs.
ASSUME CpuAssumption == "exit" \notin Cpu
ASSUME MaxPacketsAssumption == MaxPackets \in Nat
ASSUME FiniteAssumption == IsFiniteSet(Cpu) /\ IsFiniteSet(Ct)

VARIABLES
    module,      \* how far sfe_cm_init or sfe_cm_exit is
    registered,  \* the hooks and callbacks of sfe_cm.c that are in place
    ct,          \* the TCP state of each conntrack entry
    dying,       \* the entries conntrack has deleted: no lookup finds them
    acct,        \* the packets credited to each conntrack entry
    rule,        \* the engine's rule for the flow, or NULL
    cpu,         \* what each CPU is in the middle of
    timer,       \* packets in a sync message on its way to conntrack, or NULL
    holds,       \* device references taken by post_routing and not released
    forwarded,   \* packets the engine forwarded
    unwatched,   \* history: entries deleted while no notifier was registered
    up           \* is one of the flow's two devices up?

vars == <<module, registered, ct, dying, acct, rule, cpu, timer, holds, forwarded, unwatched, up>>

Hook == {"dev", "post_routing", "conntrack", "recv", "sync"}

(***************************************************************************)
(* The flow is TCP.  "new" is an entry that is not assured yet, "closing"  *)
(* one in a state after TCP_CONNTRACK_ESTABLISHED.  A deleted entry keeps  *)
(* its state for the packets that still refer to it.                       *)
(***************************************************************************)
CtState == {"none", "new", "established", "closing"}
Live == {t \in Ct : ct[t] # "none"} \ dying

\* made: the state the entry was in when the rule was inserted.
RuleType == [ct : Ct, made : CtState \cup {"dying"}, unsynced : Nat]

ASSUME NullAssumption == NULL \notin Ct /\ NULL \notin Nat /\ NULL \notin RuleType

(***************************************************************************)
(* A CPU runs one packet or event at a time, in one RCU read-side section. *)
(* In "flush" and "sync" it flushes a rule with count unsynced packets and *)
(* then goes on at then.  bridges: the bridges post_routing holds; old: it *)
(* was already running when the unregistration under way began to wait.    *)
(***************************************************************************)
PostRoutingPc == {"find_src", "find_xlate", "find_dest", "src_bridge", "dest_bridge", "create"}
Pc == {"idle", "recv", "linux", "post", "event", "round", "flush", "sync"} \cup PostRoutingPc

Idle == [pc |-> "idle", ct |-> NULL, count |-> 0, then |-> "idle", bridges |-> {}, old |-> FALSE]

Device == {"src", "dest", "src_br", "dest_br"}
NoHolds == [d \in Device |-> 0]

ModulePc == {"unloaded", "init_hooks", "init_notifier", "init_recv", "init_sync", "running",
             "exit_recv", "exit_barrier", "exit_destroy", "exit_notifier", "exit_wait",
             "exit_hooks", "exit_inet6", "exit_last_wait", "exit_dev", "exit_replay", "gone"}

CpuState == [pc : Pc, ct : Ct \cup {NULL}, count : Nat, then : {"idle", "linux", "round"},
             bridges : SUBSET {"src_br", "dest_br"}, old : BOOLEAN]

\* A CPU that goes through post_routing, or handles an event, has an entry.
TypeOK ==
    /\ module \in ModulePc
    /\ registered \subseteq Hook
    /\ ct \in [Ct -> CtState]
    /\ dying \subseteq Ct
    /\ acct \in [Ct -> Nat]
    /\ rule # NULL => rule \in RuleType
    /\ cpu \in [Cpu -> CpuState]
    /\ \A k \in Cpu : cpu[k].pc \in {"post", "event"} \cup PostRoutingPc => cpu[k].ct \in Ct
    /\ timer # NULL => timer \in Nat \ {0}
    /\ holds \in [Device -> Int]
    /\ forwarded \in Nat
    /\ unwatched \subseteq Ct
    /\ up \in BOOLEAN

Init ==
    /\ module = "unloaded"
    /\ registered = {}
    /\ ct = [t \in Ct |-> "none"]
    /\ dying = {}
    /\ acct = [t \in Ct |-> 0]
    /\ rule = NULL
    /\ cpu = [k \in Cpu |-> Idle]
    /\ timer = NULL
    /\ holds = NoHolds
    /\ forwarded = 0
    /\ unwatched = {}
    /\ up = TRUE

At(k, pc) == cpu[k].pc = pc
Goto(k, pc) == cpu' = [cpu EXCEPT ![k] = IF pc = "idle" THEN Idle ELSE [@ EXCEPT !.pc = pc]]

-----------------------------------------------------------------------------
(***************************************************************************)
(* The engine as the connection manager sees it.                           *)
(***************************************************************************)
\* Remove the rule and begin to flush it, to go on at pc.
RemoveAndFlush(k, then) ==
    /\ rule # NULL
    /\ rule' = NULL
    /\ cpu' = [cpu EXCEPT ![k] = [@ EXCEPT !.pc = "flush", !.count = rule.unsynced, !.then = then]]

FlushDone(k) ==
    cpu' = [cpu EXCEPT ![k] = IF @.then = "idle" THEN Idle
                              ELSE [@ EXCEPT !.pc = cpu[k].then, !.count = 0, !.then = "idle"]]

FlushUnsynced(k) ==    \* mutant: the flush does not call back
    /\ At(k, "flush")
    /\ FlushDone(k)
    /\ UNCHANGED <<module, registered, ct, dying, acct, rule, timer, holds, forwarded, unwatched, up>>

\* The flush reads the sync callback.
FlushReadCallback(k) ==
    /\ At(k, "flush")
    /\ IF "sync" \in registered THEN Goto(k, "sync") ELSE FlushDone(k)
    /\ UNCHANGED <<module, registered, ct, dying, acct, rule, timer, holds, forwarded, unwatched, up>>

SyncAnyEntry(n) ==    \* mutant: credits the dying entries too
    acct' = [t \in Ct |-> IF ct[t] # "none" THEN acct[t] + n ELSE acct[t]]

\* sfe_cm_sync_rule: the entry is looked up by the tuple, whichever it is by now.
SyncRule(n) ==
    acct' = [t \in Ct |-> IF t \in Live THEN acct[t] + n ELSE acct[t]]

FlushSync(k) ==
    /\ At(k, "sync")
    /\ SyncRule(cpu[k].count)
    /\ FlushDone(k)
    /\ UNCHANGED <<module, registered, ct, dying, rule, timer, holds, forwarded, unwatched, up>>

\* The periodic timer takes the counters, drops the lock and calls back.
TimerTake ==
    /\ timer = NULL
    /\ "sync" \in registered
    /\ rule # NULL
    /\ rule.unsynced > 0
    /\ timer' = rule.unsynced
    /\ rule' = [rule EXCEPT !.unsynced = 0]
    /\ UNCHANGED <<module, registered, ct, dying, acct, cpu, holds, forwarded, unwatched, up>>

TimerCallback ==
    /\ timer # NULL
    /\ SyncRule(timer)
    /\ timer' = NULL
    /\ UNCHANGED <<module, registered, ct, dying, rule, cpu, holds, forwarded, unwatched, up>>

-----------------------------------------------------------------------------
(***************************************************************************)
(* A packet.  The stack calls sfe_cm_recv through athrs_fast_nat_recv when *)
(* that is set; what is not forwarded there takes the way through Linux.   *)
(***************************************************************************)
PacketIn(k) ==
    /\ At(k, "idle")
    /\ Goto(k, IF "recv" \in registered THEN "recv" ELSE "linux")
    /\ UNCHANGED <<module, registered, ct, dying, acct, rule, timer, holds, forwarded, unwatched, up>>

RecvForward(k) ==
    /\ At(k, "recv")
    /\ rule # NULL
    /\ forwarded < MaxPackets
    /\ rule' = [rule EXCEPT !.unsynced = @ + 1]
    /\ forwarded' = forwarded + 1
    /\ Goto(k, "idle")
    /\ UNCHANGED <<module, registered, ct, dying, acct, timer, holds, unwatched, up>>

RecvPassUp(k) ==
    /\ At(k, "recv")
    /\ Goto(k, "linux")
    /\ UNCHANGED <<module, registered, ct, dying, acct, rule, timer, holds, forwarded, unwatched, up>>

RecvFlush(k) ==
    /\ At(k, "recv")
    /\ RemoveAndFlush(k, "linux")
    /\ UNCHANGED <<module, registered, ct, dying, acct, timer, holds, forwarded, unwatched, up>>

\* Which states an entry may be in after a packet of the flow.
Tracked(s) == CASE s = "new" -> {"new", "established"}
                [] s = "established" -> {"established", "closing"}
                [] OTHER -> {s}

\* The packet is dropped, or is not for us, before it is tracked.
LinuxDrop(k) ==
    /\ At(k, "linux")
    /\ Goto(k, "idle")
    /\ UNCHANGED <<module, registered, ct, dying, acct, rule, timer, holds, forwarded, unwatched, up>>

\* conntrack finds the entry of the packet, or makes one.
Conntrack(k) ==
    /\ At(k, "linux")
    /\ \E t \in Ct :
          /\ IF Live # {} THEN t \in Live ELSE ct[t] = "none"
          /\ \E s \in (IF ct[t] = "none" THEN {"new"} ELSE Tracked(ct[t])) :
                ct' = [ct EXCEPT ![t] = s]
          /\ cpu' = [cpu EXCEPT ![k] = [@ EXCEPT !.pc = "post", !.ct = t]]
    /\ UNCHANGED <<module, registered, dying, acct, rule, timer, holds, forwarded, unwatched, up>>

-----------------------------------------------------------------------------
(***************************************************************************)
(* sfe_cm_post_routing.  The tests of the packet and its entry come first; *)
(* the devices are looked up and held one after the other, and every       *)
(* failure releases what is held so far through its own label.             *)
(***************************************************************************)
PostRoutingIgnore(k) ==
    /\ At(k, "post")
    /\ Goto(k, "idle")
    /\ UNCHANGED <<module, registered, ct, dying, acct, rule, timer, holds, forwarded, unwatched, up>>

PostRouting(k) ==
    /\ At(k, "post")
    /\ "post_routing" \in registered
    /\ ct[cpu[k].ct] = "established"
    /\ Goto(k, "find_src")
    /\ UNCHANGED <<module, registered, ct, dying, acct, rule, timer, holds, forwarded, unwatched, up>>

Hold(d) == holds' = [holds EXCEPT ![d] = @ + 1]
Put(S)  == holds' = [d \in Device |-> holds[d] - (IF d \in S THEN 1 ELSE 0)]

\* The device of the untranslated source stays held.
FindSource(k) ==
    /\ At(k, "find_src")
    /\ \/ Hold("src") /\ Goto(k, "find_xlate")
       \/ UNCHANGED holds /\ Goto(k, "idle")
    /\ UNCHANGED <<module, registered, ct, dying, acct, rule, timer, forwarded, unwatched, up>>

\* The devices of the translated source and of the untranslated destination
\* are released at once: only the MAC addresses are wanted.  done1 on failure.
FindTranslated(k) ==
    /\ At(k, "find_xlate")
    /\ \/ UNCHANGED holds /\ Goto(k, "find_dest")
       \/ Put({"src"}) /\ Goto(k, "idle")
    /\ UNCHANGED <<module, registered, ct, dying, acct, rule, timer, forwarded, unwatched, up>>

FindDestination(k) ==
    /\ At(k, "find_dest")
    /\ \/ Hold("dest") /\ Goto(k, "src_bridge")
       \/ Put({"src"}) /\ Goto(k, "idle")
    /\ UNCHANGED <<module, registered, ct, dying, acct, rule, timer, forwarded, unwatched, up>>

\* A device that is a bridge port is replaced by its bridge, which is held too.
SourceBridge(k) ==
    /\ At(k, "src_bridge")
    /\ \/ UNCHANGED holds /\ Goto(k, "dest_bridge")
       \/ Hold("src_br") /\ cpu' = [cpu EXCEPT ![k] = [@ EXCEPT !.pc = "dest_bridge", !.bridges = {"src_br"}]]
       \/ Put({"src", "dest"}) /\ Goto(k, "idle")
    /\ UNCHANGED <<module, registered, ct, dying, acct, rule, timer, forwarded, unwatched, up>>

HeldAtDone2(k) == {"src", "dest"}    \* mutant: a missing bridge of the destination goes to done2

\* What the labels from done3 on release.
HeldAtDone3(k) == {"src", "dest"} \cup (cpu[k].bridges \cap {"src_br"})

DestBridge(k) ==
    /\ At(k, "dest_bridge")
    /\ \/ UNCHANGED holds /\ Goto(k, "create")
       \/ Hold("dest_br") /\ cpu' = [cpu EXCEPT ![k] = [@ EXCEPT !.pc = "create", !.bridges = cpu[k].bridges \cup {"dest_br"}]]
       \/ Put(HeldAtDone3(k)) /\ Goto(k, "idle")
    /\ UNCHANGED <<module, registered, ct, dying, acct, rule, timer, forwarded, unwatched, up>>

\* create_rule keeps a rule that is there already, and may fail to allocate.
CreateRule(k) ==
    /\ At(k, "create")
    /\ LET t == cpu[k].ct IN
          \/ /\ rule = NULL
             /\ rule' = [ct |-> t, made |-> IF t \in dying THEN "dying" ELSE ct[t], unsynced |-> 0]
          \/ UNCHANGED rule
    /\ Put({"src", "dest"} \cup cpu[k].bridges)
    /\ Goto(k, "idle")
    /\ UNCHANGED <<module, registered, ct, dying, acct, timer, forwarded, unwatched, up>>

-----------------------------------------------------------------------------
(***************************************************************************)
(* Events.  conntrack deletes an entry and calls the notifiers in that     *)
(* order; a device goes down, or loses its address.                        *)
(***************************************************************************)
Delete(k, t) ==
    /\ At(k, "idle")
    /\ t \in Live
    /\ dying' = dying \cup {t}
    /\ IF "conntrack" \in registered
       THEN /\ cpu' = [cpu EXCEPT ![k] = [@ EXCEPT !.pc = "event", !.ct = t]]
            /\ UNCHANGED unwatched
       ELSE /\ unwatched' = unwatched \cup {t}
            /\ UNCHANGED cpu
    /\ UNCHANGED <<module, registered, ct, acct, rule, timer, holds, forwarded, up>>

ConntrackEventInUse(k) ==    \* mutant: ignores the event while the rule has traffic
    /\ At(k, "event")
    /\ \/ rule # NULL /\ rule.unsynced = 0 /\ RemoveAndFlush(k, "idle")
       \/ rule = NULL /\ UNCHANGED rule /\ Goto(k, "idle")
       \/ rule # NULL /\ rule.unsynced > 0 /\ UNCHANGED rule /\ Goto(k, "idle")
    /\ UNCHANGED <<module, registered, ct, dying, acct, timer, holds, forwarded, unwatched, up>>

\* sfe_cm_conntrack_event: the rule is looked up by the tuple.
ConntrackEvent(k) ==
    /\ At(k, "event")
    /\ \/ RemoveAndFlush(k, "idle")
       \/ rule = NULL /\ UNCHANGED rule /\ Goto(k, "idle")
    /\ UNCHANGED <<module, registered, ct, dying, acct, timer, holds, forwarded, unwatched, up>>

\* The device may be the last of the two that was up.
DeviceEvent(k) ==
    /\ At(k, "idle")
    /\ "dev" \in registered
    /\ up' \in {up, FALSE}
    /\ Goto(k, "round")
    /\ UNCHANGED <<module, registered, ct, dying, acct, rule, timer, holds, forwarded, unwatched>>

InDeviceEvent(k) ==
    cpu[k].pc = "round" \/ (cpu[k].pc \in {"flush", "sync"} /\ cpu[k].then = "round")

\* A device comes up again.  Once sfe_cm_exit holds the lock of the devices for
\* the last time, their state is of no interest.
DeviceUp ==
    /\ ~up /\ module \notin {"exit_replay", "gone"}
    /\ up' = TRUE
    /\ UNCHANGED <<module, registered, ct, dying, acct, rule, cpu, timer, holds, forwarded, unwatched>>

\* destroy_all_rules_for_dev: one rule of the device in each round.
DestroyRound(k) ==
    /\ At(k, "round")
    /\ \/ RemoveAndFlush(k, "round")
       \/ rule = NULL /\ UNCHANGED rule /\ Goto(k, "idle")
    /\ UNCHANGED <<module, registered, ct, dying, acct, timer, holds, forwarded, unwatched, up>>

-----------------------------------------------------------------------------
(***************************************************************************)
(* Loading and unloading the module, one registration at a time.           *)
(***************************************************************************)
Register(hook)   == registered' = registered \cup {hook}
Unregister(hook) == registered' = registered \ {hook}

\* From one place in sfe_cm_init or sfe_cm_exit to the next.
Step(from, to) ==
    /\ module = from
    /\ module' = to
    /\ UNCHANGED <<ct, dying, acct, timer, holds, forwarded, unwatched, up>>

\* unregister_netdevice_notifier takes the lock under which devices go down.
NoDeviceEvent == \A k \in Cpu : ~InDeviceEvent(k)

\* The registration of the netfilter hooks may fail: exit3 takes the notifiers
\* back, before there is a rule.
InitModule ==
    /\ \/ Step("unloaded", "init_hooks")      /\ Register("dev")
       \/ Step("init_hooks", "init_notifier") /\ Register("post_routing")
       \/ Step("init_hooks", "unloaded")      /\ Unregister("dev") /\ NoDeviceEvent
       \/ Step("init_notifier", "init_recv")  /\ Register("conntrack")
       \/ Step("init_recv", "init_sync")      /\ Register("recv")
       \/ Step("init_sync", "running")        /\ Register("sync")
    /\ UNCHANGED <<rule, cpu>>

ExitSync    == Step("running", "exit_recv") /\ Unregister("sync") /\ UNCHANGED <<rule, cpu>>
ExitRecv    == Step("exit_recv", "exit_barrier") /\ Unregister("recv") /\ UNCHANGED <<rule, cpu>>

\* rcu_barrier waits for the callbacks of call_rcu, and not for readers.
ExitBarrier == Step("exit_barrier", "exit_destroy") /\ UNCHANGED <<registered, rule, cpu>>

\* Every rule goes, without a sync: the callback is gone.
ExitDestroy ==
    /\ \/ rule # NULL /\ Step("exit_destroy", "exit_destroy") /\ rule' = NULL
       \/ rule = NULL /\ Step("exit_destroy", "exit_notifier") /\ UNCHANGED rule
    /\ UNCHANGED <<registered, cpu>>

\* An atomic notifier chain is left, and then the readers that were running
\* are waited for.  A handler of a device event is none: it may sleep.
LeaveChain(from, to) ==
    /\ Step(from, to)
    /\ cpu' = [k \in Cpu |-> IF At(k, "idle") \/ InDeviceEvent(k)
                              THEN cpu[k] ELSE [cpu[k] EXCEPT !.old = TRUE]]
    /\ UNCHANGED rule

Waited(from, to) ==
    /\ \A k \in Cpu : ~cpu[k].old
    /\ timer = NULL
    /\ Step(from, to)
    /\ UNCHANGED <<registered, rule, cpu>>

ExitHooksMissing ==    \* mutant: leaves the netfilter hooks registered
    Step("exit_hooks", "exit_inet6") /\ UNCHANGED <<registered, rule, cpu>>

ExitNotifier == LeaveChain("exit_notifier", "exit_wait") /\ Unregister("conntrack")
ExitWait     == Waited("exit_wait", "exit_hooks")
ExitHooks    == Step("exit_hooks", "exit_inet6") /\ Unregister("post_routing") /\ UNCHANGED <<rule, cpu>>
ExitInet6    == LeaveChain("exit_inet6", "exit_last_wait") /\ UNCHANGED registered
ExitLastWait == Waited("exit_last_wait", "exit_dev")
ExitDev      == NoDeviceEvent /\ Step("exit_dev", "exit_replay") /\ Unregister("dev") /\ UNCHANGED <<rule, cpu>>

ExitReplayIgnored ==    \* mutant: the handler only knows devices that are unregistered
    Step("exit_replay", "gone") /\ UNCHANGED <<registered, rule, cpu>>

\* To the notifier that leaves, the kernel shows every device that is up as
\* going down: sfe_cm_device_event destroys the device's rules once more.
ExitReplay ==
    /\ \/ rule # NULL /\ up /\ Step("exit_replay", "exit_replay") /\ rule' = NULL
       \/ (rule = NULL \/ ~up) /\ Step("exit_replay", "gone") /\ UNCHANGED rule
    /\ UNCHANGED <<registered, cpu>>

ExitModule ==
    \/ ExitSync \/ ExitRecv \/ ExitBarrier \/ ExitDestroy \/ ExitNotifier
    \/ ExitWait \/ ExitHooks \/ ExitInet6 \/ ExitLastWait \/ ExitDev \/ ExitReplay

Next ==
    \/ InitModule
    \/ ExitModule
    \/ TimerTake
    \/ TimerCallback
    \/ DeviceUp
    \/ \E k \in Cpu :
          \/ PacketIn(k) \/ RecvForward(k) \/ RecvPassUp(k) \/ RecvFlush(k)
          \/ LinuxDrop(k) \/ Conntrack(k) \/ PostRoutingIgnore(k) \/ PostRouting(k)
          \/ FindSource(k) \/ FindTranslated(k) \/ FindDestination(k)
          \/ SourceBridge(k) \/ DestBridge(k) \/ CreateRule(k)
          \/ ConntrackEvent(k) \/ DeviceEvent(k) \/ DestroyRound(k)
          \/ FlushReadCallback(k) \/ FlushSync(k)
          \/ \E t \in Ct : Delete(k, t)

Spec == Init /\ [][Next]_vars

-----------------------------------------------------------------------------
(***************************************************************************)
(* sfe_cm_post_routing releases every device it looked up, whichever label *)
(* it leaves by: while no CPU is inside it no device is held.              *)
(***************************************************************************)
DeviceHoldsBalanced ==
    (\A k \in Cpu : cpu[k].pc \notin PostRoutingPc) => holds = NoHolds

(***************************************************************************)
(* sfe_cm_sync_rule credits a packet to at most one conntrack entry,       *)
(* however the periodic timer, a flush on another CPU and the exchange of  *)
(* one entry for the next of the same flow overlap: what is credited and   *)
(* what is still to be is never more than what was forwarded.              *)
(***************************************************************************)
Pending ==
    (IF rule = NULL THEN 0 ELSE rule.unsynced) + (IF timer = NULL THEN 0 ELSE timer)

CreditedOnce ==
    SumFunctionOnSet(acct, Ct) + SumFunctionOnSet([k \in Cpu |-> cpu[k].count], Cpu) + Pending
       <= forwarded

(***************************************************************************)
(* A rule does not outlive its conntrack entry: if it was inserted while   *)
(* the entry lived, and the entry was deleted while sfe_cm_conntrack_event *)
(* was registered, the event that removes it is still on its way.  The     *)
(* rule of an entry that died before create_rule was reached is the        *)
(* exception (ShuttingDownNotManaged): no event comes for it.              *)
(***************************************************************************)
DestroyedWithConntrack ==
    (rule # NULL /\ rule.ct \in dying /\ rule.made # "dying" /\ rule.ct \notin unwatched)
       => \E k \in Cpu : At(k, "event") /\ cpu[k].ct = rule.ct

(***************************************************************************)
(* Once sfe_cm_exit has returned, no CPU and no timer is still in the      *)
(* module's code.                                                          *)
(***************************************************************************)
InModule(k) == cpu[k].pc \in {"recv", "event", "round", "sync"} \cup PostRoutingPc

ExitLeavesNoReader ==
    module = "gone" => timer = NULL /\ \A k \in Cpu : ~InModule(k)

(***************************************************************************)
(* "If the connection is shutting down do not manage it": a rule is only   *)
(* inserted for an entry that is established at that moment.               *)
(***************************************************************************)
ShuttingDownNotManaged == rule # NULL => rule.made = "established"

(***************************************************************************)
(* sfe_cm_exit destroys all rules while the hook that makes them is still  *)
(* there, and leaves none all the same: one that a packet makes after that *)
(* goes when the device notifier is taken back, after the last packet has  *)
(* left the hook.  The exception is a flow whose devices are both down:    *)
(* for them the kernel replays nothing.                                    *)
(***************************************************************************)
AllDestroyedOnExit == module = "gone" => rule = NULL \/ ~up
=============================================================================
