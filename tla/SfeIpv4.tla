------------------------------ MODULE SfeIpv4 ------------------------------
(***************************************************************************)
(* The IPv4 engine of shortcut-fe (sfe_ipv4.c): a table of forwarding      *)
(* rules that lets the receive path bypass the Linux stack.                *)
(*                                                                         *)
(* CPUs run receive, create, destroy and device handlers concurrently with *)
(* one periodic timer.  Each action below is one critical section of       *)
(* si->lock, or one stretch of code between two of them, so every          *)
(* interleaving the spinlock permits is a behaviour of Spec.               *)
(*                                                                         *)
(* Left to other modules: the TCP window arithmetic (SfeTcpWindow; here a  *)
(* segment simply is or is not "out_of_window") and the order of the hash  *)
(* chains and of the all_connections list (a lookup here may return any    *)
(* entry with the right key).                                              *)
(***************************************************************************)
EXTENDS ActiveList, Functions

CONSTANTS Cpu,          \* processors that run the handlers
          Dev,          \* struct net_device objects
          Rule,         \* struct sfe_connection_create requests
          Packet,       \* received packets
          Removable,    \* the devices that may be unregistered
          SyncDivisor,  \* 64 in sfe_ipv4_periodic_sync
          MaxPackets    \* bound: packets forwarded in a behaviour

ASSUME SyncDivisorAssumption == SyncDivisor \in Nat \ {0}
ASSUME RemovableAssumption == Removable \subseteq Dev
ASSUME MaxPacketsAssumption == MaxPackets \in Nat
ASSUME RuleAssumption ==
    /\ NULL \notin Rule
    /\ \A r \in Rule : /\ r.src_dev \in Dev /\ r.dest_dev \in Dev
                       /\ r.no_seq_check \in BOOLEAN

VARIABLES
    state,        \* where each connection object is
    rule,         \* the request a connection object was filled in from
    no_seq_check, \* ..._FLAG_NO_SEQ_CHECK of the two matches of a connection
    rx,           \* rx_packet_count of each match
    list,         \* the active list
    num_connections,
    refs,         \* the references sfe_ipv4.c holds on each device
    registered,   \* the devices whose reg_state is NETREG_REGISTERED
    callback,     \* is sync_rule_callback set?
    cpu,          \* what each CPU is in the middle of
    timer,        \* what sfe_ipv4_periodic_sync is in the middle of
    packets_forwarded,
    reported,     \* history: packets the sync callback was told about
    unreported    \* history: packets of connections flushed without callback

vars == <<state, rule, no_seq_check, rx, list, num_connections, refs,
          registered, callback, cpu, timer, packets_forwarded, reported,
          unreported>>

tableVars == <<state, rule, no_seq_check, num_connections, refs>>
statVars  == <<packets_forwarded, reported, unreported>>
envVars   == <<registered, callback>>

(***************************************************************************)
(* A CPU is idle, or it is                                                 *)
(*  - past the reg_state check of sfe_ipv4_create_rule ("create");         *)
(*  - between two rounds of sfe_ipv4_destroy_all_rules_for_dev ("round");  *)
(*  - in sfe_ipv4_flush_sfe_ipv4_connection with a connection it removed:  *)
(*    before its lock section ("flush"), after reading a callback          *)
(*    ("sync"), or about to release the memory ("release").                *)
(* loop is the set of devices destroy_all works on: all of Dev for a null  *)
(* argument, and empty outside of it.                                      *)
(***************************************************************************)
Idle == [pc |-> "idle", conn |-> NULL, rule |-> NULL, loop |-> {}]

CpuState == [pc : {"idle", "create", "round", "flush", "sync", "release"},
             conn : Conn \cup {NULL}, rule : Rule \cup {NULL}, loop : SUBSET Dev]

(***************************************************************************)
(* The timer is idle, or it holds a callback and waits for the lock        *)
(* ("begin"), calls back with a sync message for pending packets ("call"), *)
(* or waits for the lock to go on with its quota ("relock").               *)
(***************************************************************************)
TimerIdle == [pc |-> "idle", quota |-> 0, pending |-> 0]

TimerState == [pc : {"idle", "begin", "call", "relock"}, quota : Nat, pending : Nat]

\* Types.  The timer's quota and the counters are natural numbers: the loop
\* of periodic_sync stops at zero, and removals never outnumber insertions.
TypeOK ==
    /\ state \in [Conn -> {"free", "table", "detached"}]
    /\ rule \in [Conn -> Rule \cup {NULL}]
    /\ no_seq_check \in [Conn -> BOOLEAN]
    /\ rx \in [Match -> Nat]
    /\ list \in ListType
    /\ num_connections \in Nat
    /\ refs \in [Dev -> Int]
    /\ registered \subseteq Dev
    /\ callback \in BOOLEAN
    /\ cpu \in [Cpu -> CpuState]
    /\ timer \in TimerState
    /\ packets_forwarded \in Nat /\ reported \in Nat /\ unreported \in Nat

Init ==
    /\ state = [c \in Conn |-> "free"]
    /\ rule = [c \in Conn |-> NULL]
    /\ no_seq_check = [c \in Conn |-> FALSE]
    /\ rx = [m \in Match |-> 0]
    /\ list = EmptyList
    /\ num_connections = 0
    /\ refs = [d \in Dev |-> 0]
    /\ registered = Dev
    /\ callback = FALSE
    /\ cpu = [k \in Cpu |-> Idle]
    /\ timer = TimerIdle
    /\ packets_forwarded = 0 /\ reported = 0 /\ unreported = 0

-----------------------------------------------------------------------------
(***************************************************************************)
(* Keys and lookups.                                                       *)
(***************************************************************************)
Table == {c \in Conn : state[c] = "table"}

\* The 5-tuple of the original direction, under which rules are found.
RuleKey(r) == [proto |-> r.proto, src |-> r.src, dest |-> r.dest]

match_dev(m) == IF m[2] = "original" THEN rule[m[1]].src_dev ELSE rule[m[1]].dest_dev

\* What a packet must carry to belong to match m: the original direction is
\* known by its addresses before translation, the reply direction by those after.
match_key(m) ==
    LET r == rule[connection(m)]
    IN  IF m[2] = "original"
        THEN [dev |-> r.src_dev, proto |-> r.proto, src |-> r.src, dest |-> r.dest]
        ELSE [dev |-> r.dest_dev, proto |-> r.proto,
              src |-> r.dest_xlate, dest |-> r.src_xlate]

flow_accel(m) ==
    LET r == rule[connection(m)]
    IN  IF m[2] = "original" THEN r.original_accel ELSE r.reply_accel

find_connection_removed(key) ==    \* mutant: removal leaves the hash chain alone
    {c \in Conn : state[c] # "free" /\ RuleKey(rule[c]) = key}

find_connection_xlated(key) ==    \* mutant: compares the translated source
    {c \in Table : RuleKey([rule[c] EXCEPT !.src = rule[c].src_xlate]) = key}

find_connection(key) == {c \in Table : RuleKey(rule[c]) = key}

find_connection_match(key) ==
    {m \in Match : connection(m) \in Table /\ match_key(m) = key}

WithoutReplyMatch(L, c) ==    \* mutant: one of the two matches is forgotten
    UnlinkIfActive(L, <<c, "reply">>)

(***************************************************************************)
(* Taking a connection out of every structure other CPUs can reach:        *)
(* sfe_ipv4_remove_sfe_ipv4_connection, always called with the lock held.  *)
(***************************************************************************)
WithoutConnection(L, c) ==
    UnlinkIfActive(UnlinkIfActive(L, <<c, "reply">>), <<c, "original">>)

RemoveConnection(c) ==
    /\ list' = WithoutConnection(list, c)
    /\ state' = [state EXCEPT ![c] = "detached"]
    /\ num_connections' = num_connections - 1
    /\ UNCHANGED <<rule, no_seq_check, refs>>

\* The CPU goes on to flush what it removed.
BeginFlush(k, c) == cpu' = [cpu EXCEPT ![k] = [@ EXCEPT !.pc = "flush", !.conn = c]]

SyncedOriginal(c) ==    \* mutant: the reply direction keeps its count
    [m \in Match |-> IF m = <<c, "original">> THEN 0 ELSE rx[m]]

UnsyncedOriginal(c) ==    \* mutant: the reply direction is not reported
    rx[<<c, "original">>]

(***************************************************************************)
(* The packets a sync message for c reports; gen_sync takes them out of    *)
(* the per-period counters.                                                *)
(***************************************************************************)
UnsyncedPackets(c) == rx[<<c, "original">>] + rx[<<c, "reply">>]
Synced(c) == [m \in Match |-> IF connection(m) = c THEN 0 ELSE rx[m]]

-----------------------------------------------------------------------------
(***************************************************************************)
(* Receiving a packet.  p.is is the set of facts about the packet that the *)
(* code tests.                                                             *)
(***************************************************************************)
PacketFact == {"bad_ip_header", "short_header", "fragment_or_options", "small_ttl",
               "exceeds_mtu", "gso", "slow_flags", "out_of_window", "unshare_error"}

\* An ICMP error carries the header of a packet that went the other way.
packet_key(p) ==
    IF p.proto = "icmp"
    THEN [dev |-> p.dev, proto |-> p.inner, src |-> p.dest, dest |-> p.src]
    ELSE [dev |-> p.dev, proto |-> p.proto, src |-> p.src, dest |-> p.dest]

\* The packet goes to the slow path before any lookup.
Rejected(p) ==
    \/ p.is \cap {"bad_ip_header", "short_header"} # {}
    \/ p.proto \notin {"udp", "tcp", "icmp"}

\* The packet cannot be forwarded here and its connection is given up.
Flushes(p, m) ==
    \/ p.proto = "icmp"
    \/ "fragment_or_options" \in p.is
    \/ /\ flow_accel(m)
       /\ \/ "small_ttl" \in p.is
          \/ "exceeds_mtu" \in p.is /\ ~(p.proto = "tcp" /\ "gso" \in p.is)
          \/ p.proto = "tcp" /\ "slow_flags" \in p.is
          \/ /\ p.proto = "tcp" /\ "out_of_window" \in p.is
             /\ ~no_seq_check[connection(m)]

\* The packet goes to the slow path and its connection stays.
PassesUp(p, m) ==
    /\ ~Flushes(p, m)
    /\ ~flow_accel(m) \/ "unshare_error" \in p.is

Forwards(p, m) == ~Flushes(p, m) /\ ~PassesUp(p, m)

RecvNotForwarded(k, p) ==
    /\ cpu[k] = Idle
    /\ \/ Rejected(p)
       \/ find_connection_match(packet_key(p)) = {}
       \/ \E m \in find_connection_match(packet_key(p)) : PassesUp(p, m)
    /\ UNCHANGED vars

RecvFlush(k, p) ==
    /\ cpu[k] = Idle
    /\ ~Rejected(p)
    /\ \E m \in find_connection_match(packet_key(p)) :
          /\ Flushes(p, m)
          /\ RemoveConnection(connection(m))
          /\ BeginFlush(k, connection(m))
    /\ UNCHANGED <<rx, envVars, timer, statVars>>

RecvForward(k, p) ==
    /\ cpu[k] = Idle
    /\ ~Rejected(p)
    /\ packets_forwarded < MaxPackets
    /\ \E m \in find_connection_match(packet_key(p)) :
          /\ Forwards(p, m)
          /\ rx' = [rx EXCEPT ![m] = @ + 1]
          /\ list' = IF list.active[m] THEN list ELSE AppendTail(list, m)
    /\ packets_forwarded' = packets_forwarded + 1
    /\ UNCHANGED <<tableVars, envVars, cpu, timer, reported, unreported>>

-----------------------------------------------------------------------------
(***************************************************************************)
(* sfe_ipv4_create_rule.  The registration state of the devices is tested  *)
(* before the lock is taken.                                               *)
(***************************************************************************)
CreateRuleCheck(k, r) ==
    /\ cpu[k] = Idle
    /\ {r.src_dev, r.dest_dev} \subseteq registered
    /\ cpu' = [cpu EXCEPT ![k] = [Idle EXCEPT !.pc = "create", !.rule = r]]
    /\ UNCHANGED <<tableVars, rx, list, envVars, timer, statVars>>

\* A collision refreshes the protocol state of the connection that is there
\* (only TCP has any) and fails with -EADDRINUSE.
update_protocol_state(c, r) ==
    no_seq_check' = IF r.proto = "tcp"
                    THEN [no_seq_check EXCEPT ![c] = r.no_seq_check]
                    ELSE no_seq_check

CreateRuleCollision(k) ==
    /\ cpu[k].pc = "create"
    /\ \E c \in find_connection(RuleKey(cpu[k].rule)) :
          update_protocol_state(c, cpu[k].rule)
    /\ cpu' = [cpu EXCEPT ![k] = Idle]
    /\ UNCHANGED <<state, rule, num_connections, refs, rx, list, envVars, timer, statVars>>

\* One of the three kmalloc calls fails; those that succeeded are undone.
CreateRuleNoMemory(k) ==
    /\ cpu[k].pc = "create"
    /\ find_connection(RuleKey(cpu[k].rule)) = {}
    /\ cpu' = [cpu EXCEPT ![k] = Idle]
    /\ UNCHANGED <<tableVars, rx, list, envVars, timer, statVars>>

HoldDevices(r) ==
    [d \in Dev |-> refs[d] + (IF d = r.src_dev THEN 1 ELSE 0)
                           + (IF d = r.dest_dev THEN 1 ELSE 0)]

\* The rule goes into the table, all in one critical section.
CreateRuleInsert(k) ==
    /\ cpu[k].pc = "create"
    /\ find_connection(RuleKey(cpu[k].rule)) = {}
    /\ \E c \in Conn :
          /\ state[c] = "free"
          /\ state' = [state EXCEPT ![c] = "table"]
          /\ rule' = [rule EXCEPT ![c] = cpu[k].rule]
          /\ no_seq_check' = [no_seq_check EXCEPT ![c] =
                                  cpu[k].rule.proto = "tcp" /\ cpu[k].rule.no_seq_check]
          /\ rx' = Synced(c)
          /\ list' = Fresh(list, MatchesOf(c))
    /\ num_connections' = num_connections + 1
    /\ refs' = HoldDevices(cpu[k].rule)
    /\ cpu' = [cpu EXCEPT ![k] = Idle]
    /\ UNCHANGED <<envVars, timer, statVars>>

\* sfe_ipv4_update_rule
UpdateRule(k, r) ==
    /\ cpu[k] = Idle
    /\ \E c \in find_connection(RuleKey(r)) : update_protocol_state(c, r)
    /\ UNCHANGED <<state, rule, num_connections, refs, rx, list, envVars, cpu, timer, statVars>>

-----------------------------------------------------------------------------
(***************************************************************************)
(* Destroying rules.                                                       *)
(***************************************************************************)
DestroyRule(k, key) ==
    /\ cpu[k] = Idle
    /\ \E c \in find_connection(key) : RemoveConnection(c) /\ BeginFlush(k, c)
    /\ UNCHANGED <<rx, envVars, timer, statVars>>

DestroyAllRulesForDev(k, devs) ==
    /\ cpu[k] = Idle
    /\ cpu' = [cpu EXCEPT ![k] = [Idle EXCEPT !.pc = "round", !.loop = devs]]
    /\ UNCHANGED <<tableVars, rx, list, envVars, timer, statVars>>

Relates(c, devs) == {rule[c].src_dev, rule[c].dest_dev} \cap devs # {}

DestroyAllRound(k) ==
    /\ cpu[k].pc = "round"
    /\ \E c \in Table : /\ Relates(c, cpu[k].loop)
                        /\ RemoveConnection(c)
                        /\ BeginFlush(k, c)
    /\ UNCHANGED <<rx, envVars, timer, statVars>>

DestroyAllDone(k) ==
    /\ cpu[k].pc = "round"
    /\ \A c \in Table : ~Relates(c, cpu[k].loop)
    /\ cpu' = [cpu EXCEPT ![k] = Idle]
    /\ UNCHANGED <<tableVars, rx, list, envVars, timer, statVars>>

-----------------------------------------------------------------------------
FlushReturnsEarly(k) ==    \* mutant: no callback, so nothing is released
    /\ cpu[k].pc = "flush"
    /\ cpu' = [cpu EXCEPT ![k] = IF callback THEN [@ EXCEPT !.pc = "sync"] ELSE Idle]
    /\ UNCHANGED <<tableVars, rx, list, envVars, timer, statVars>>

(***************************************************************************)
(* sfe_ipv4_flush_sfe_ipv4_connection: read the callback under the lock,   *)
(* sync without it, release the devices and free the memory.  A CPU inside *)
(* destroy_all then starts its next round.                                 *)
(***************************************************************************)
FlushReadCallback(k) ==
    /\ cpu[k].pc = "flush"
    /\ cpu' = [cpu EXCEPT ![k] = [@ EXCEPT !.pc = IF callback THEN "sync" ELSE "release"]]
    /\ UNCHANGED <<tableVars, rx, list, envVars, timer, statVars>>

FlushSync(k) ==
    /\ cpu[k].pc = "sync"
    /\ reported' = reported + UnsyncedPackets(cpu[k].conn)
    /\ rx' = Synced(cpu[k].conn)
    /\ cpu' = [cpu EXCEPT ![k] = [@ EXCEPT !.pc = "release"]]
    /\ UNCHANGED <<tableVars, list, envVars, timer, packets_forwarded, unreported>>

PutSourceDevice(r) ==    \* mutant: one dev_put is missing
    [d \in Dev |-> refs[d] - (IF d = r.src_dev THEN 1 ELSE 0)]

PutDevices(r) ==
    [d \in Dev |-> refs[d] - (IF d = r.src_dev THEN 1 ELSE 0)
                           - (IF d = r.dest_dev THEN 1 ELSE 0)]

FlushRelease(k) ==
    LET c == cpu[k].conn
    IN  /\ cpu[k].pc = "release"
        /\ refs' = PutDevices(rule[c])
        /\ state' = [state EXCEPT ![c] = "free"]
        /\ rule' = [rule EXCEPT ![c] = NULL]
        /\ no_seq_check' = [no_seq_check EXCEPT ![c] = FALSE]
        /\ unreported' = unreported + UnsyncedPackets(c)
        /\ rx' = Synced(c)
        /\ list' = Fresh(list, MatchesOf(c))
        /\ cpu' = [cpu EXCEPT ![k] = IF @.loop = {} THEN Idle
                                     ELSE [@ EXCEPT !.pc = "round", !.conn = NULL]]
        /\ UNCHANGED <<num_connections, envVars, timer, packets_forwarded, reported>>

-----------------------------------------------------------------------------
(***************************************************************************)
(* sfe_ipv4_periodic_sync.  The callback is read before the lock is taken; *)
(* without one the timer is only re-armed.                                 *)
(***************************************************************************)
TimerFire ==
    /\ timer.pc = "idle"
    /\ callback
    /\ timer' = [timer EXCEPT !.pc = "begin"]
    /\ UNCHANGED <<tableVars, rx, list, envVars, cpu, statVars>>

QuotaRoundedDown ==    \* mutant: the rounding term is missing
    num_connections \div SyncDivisor

Quota == (num_connections + SyncDivisor - 1) \div SyncDivisor

WithoutHeadAlone(L) ==    \* mutant: the counter match stays on the list
    PopHead(L)

\* Take the head of the active list off, and its counter match with it.
WithoutHead(L) ==
    LET counter == counter_match(L.head)
    IN  PopHead(IF L.active[counter] THEN UnlinkCounter(L, counter) ELSE L)

SyncTurnNoQuota(q) ==    \* mutant: the quota is not tested
    IF list.head = NULL
    THEN /\ timer' = TimerIdle
         /\ UNCHANGED <<rx, list>>
    ELSE /\ list' = WithoutHead(list)
         /\ rx' = Synced(connection(list.head))
         /\ timer' = [pc |-> "call", quota |-> q - 1,
                      pending |-> UnsyncedPackets(connection(list.head))]

\* One turn of the while loop, entered with the lock held and q turns left.
SyncTurn(q) ==
    IF q = 0 \/ list.head = NULL
    THEN /\ timer' = TimerIdle
         /\ UNCHANGED <<rx, list>>
    ELSE /\ list' = WithoutHead(list)
         /\ rx' = Synced(connection(list.head))
         /\ timer' = [pc |-> "call", quota |-> q - 1,
                      pending |-> UnsyncedPackets(connection(list.head))]

TimerBegin ==
    /\ timer.pc = "begin"
    /\ SyncTurn(Quota)
    /\ UNCHANGED <<tableVars, envVars, cpu, statVars>>

TimerCallbackWaits ==    \* mutant: holds the message back until a callback is there again
    /\ timer.pc = "call"
    /\ callback
    /\ reported' = reported + timer.pending
    /\ timer' = [timer EXCEPT !.pc = "relock", !.pending = 0]
    /\ UNCHANGED <<tableVars, rx, list, envVars, cpu, packets_forwarded, unreported>>

TimerCallback ==
    /\ timer.pc = "call"
    /\ reported' = reported + timer.pending
    /\ timer' = [timer EXCEPT !.pc = "relock", !.pending = 0]
    /\ UNCHANGED <<tableVars, rx, list, envVars, cpu, packets_forwarded, unreported>>

TimerRelock ==
    /\ timer.pc = "relock"
    /\ SyncTurn(timer.quota)
    /\ UNCHANGED <<tableVars, envVars, cpu, statVars>>

-----------------------------------------------------------------------------
(***************************************************************************)
(* The rest of the kernel: the connection manager sets or clears the sync  *)
(* callback, and a device leaves NETREG_REGISTERED.                        *)
(***************************************************************************)
RegisterSyncRuleCallback(b) ==
    /\ callback' = b
    /\ UNCHANGED <<tableVars, rx, list, registered, cpu, timer, statVars>>

DevUnregister(d) ==
    /\ d \in registered
    /\ registered' = registered \ {d}
    /\ UNCHANGED <<tableVars, rx, list, callback, cpu, timer, statVars>>

Recv(k) == \E p \in Packet : RecvNotForwarded(k, p) \/ RecvFlush(k, p) \/ RecvForward(k, p)

Request(k) ==
    \/ \E r \in Rule : CreateRuleCheck(k, r) \/ UpdateRule(k, r) \/ DestroyRule(k, RuleKey(r))
    \/ \E devs \in {{d} : d \in Dev} \cup {Dev} : DestroyAllRulesForDev(k, devs)

\* What a CPU does to finish a handler it started.
Continue(k) ==
    \/ CreateRuleCollision(k) \/ CreateRuleNoMemory(k) \/ CreateRuleInsert(k)
    \/ DestroyAllRound(k) \/ DestroyAllDone(k)
    \/ FlushReadCallback(k) \/ FlushSync(k) \/ FlushRelease(k)

Timer == TimerFire \/ TimerBegin \/ TimerCallback \/ TimerRelock

Environment ==
    \/ \E b \in BOOLEAN : RegisterSyncRuleCallback(b)
    \/ \E d \in Removable : DevUnregister(d)

Next ==
    \/ \E k \in Cpu : Recv(k) \/ Request(k) \/ Continue(k)
    \/ Timer
    \/ Environment

Spec == Init /\ [][Next]_vars

(***************************************************************************)
(* A handler runs to completion on its CPU, and the kernel keeps firing a  *)
(* timer that re-arms itself.  Nothing makes packets or requests arrive.   *)
(***************************************************************************)
FairSpec ==
    /\ Spec
    /\ \A k \in Cpu : WF_vars(Continue(k))
    /\ WF_vars(Timer)

-----------------------------------------------------------------------------
(***************************************************************************)
(* Safety.                                                                 *)
(***************************************************************************)
\* The matches that the active list has to contain.
Listed == {m \in Match : state[connection(m)] = "table" /\ list.active[m]}

\* The active list is a well-formed doubly linked list of exactly the matches
\* in the table whose active flag is set, however receives, removals by other
\* CPUs and the timer interleave: no pointer in it leads to a connection that
\* was removed or freed, and no active match is lost from it.
ActiveListOK == IsListOf(list, Listed)

\* A match in the table has unsynced packets exactly when it is active, so
\* no count waits for a sync that will never come and no sync is empty.
\* (rx_packet_count is only ever reset by gen_sync, active only by the timer.)
ActiveIffUnsynced ==
    \A m \in Match : state[connection(m)] = "table" => (list.active[m] <=> rx[m] > 0)

\* The receive path appends a match without writing its active_next, which
\* is right because a match in the table that is not active has it null.
InactiveHasNoNext ==
    \A m \in Match : state[connection(m)] = "table" /\ ~list.active[m] => list.next[m] = NULL

\* "We must have a connection preceding this counter match": when the head's
\* counter match is active too, periodic_sync may dereference its active_prev.
CounterMatchHasPredecessor ==
    list.head # NULL /\ list.active[counter_match(list.head)]
        => list.prev[counter_match(list.head)] # NULL

Flushing(k) == cpu[k].pc \in {"flush", "sync", "release"}

\* A connection that was removed from the table belongs to exactly one CPU,
\* which is flushing it, and a CPU flushes nothing else: no connection is
\* flushed or freed twice, used after it was freed, or forgotten.
FlushIsExclusive ==
    /\ \A k \in Cpu : Flushing(k) => /\ cpu[k].conn \in Conn
                                     /\ state[cpu[k].conn] = "detached"
    /\ \A k1, k2 \in Cpu : Flushing(k1) /\ Flushing(k2) /\ cpu[k1].conn = cpu[k2].conn
                               => k1 = k2
    /\ \A c \in Conn : state[c] = "detached" => \E k \in Cpu : Flushing(k) /\ cpu[k].conn = c

\* sfe_ipv4.c holds one reference on each device for every match of a live
\* connection that receives from it, and none for any other reason: a device
\* can go away once its connections are gone.
DeviceRefsBalanced ==
    \A d \in Dev : refs[d] = Cardinality({m \in Match : /\ state[connection(m)] # "free"
                                                        /\ match_dev(m) = d})

\* Two connections in the table never have the same 5-tuple, so destroy, mark
\* and update requests are unambiguous; num_connections, which sets the
\* quota of the timer, is their number.
TableIsConsistent ==
    /\ \A c, d \in Table : RuleKey(rule[c]) = RuleKey(rule[d]) => c = d
    /\ num_connections = Cardinality(Table)

\* Every forwarded packet is reported to the sync callback exactly once,
\* unless its connection was flushed while no callback was registered.
EveryPacketAccounted ==
    packets_forwarded =
        SumFunctionOnSet(rx, Match) + timer.pending + reported + unreported

-----------------------------------------------------------------------------
(***************************************************************************)
(* Liveness, under FairSpec.                                               *)
(***************************************************************************)
\* A connection that was removed is eventually freed, whether or not a callback
\* is registered and however often it changes, also in the rounds of destroy_all.
RemovedIsFreed == \A c \in Conn : state[c] = "detached" ~> state[c] = "free"

\* While a callback is registered, an active match is eventually synced or
\* its connection removed: the quota is never rounded down to nothing and
\* matches that become active later do not overtake it.
ActiveIsSynced ==
    \A m \in Match : m \in Listed ~> (m \notin Listed \/ ~callback)
=============================================================================
