--------------------------- MODULE FastClassifier ---------------------------
(***************************************************************************)
(* fast-classifier.c, the connection manager that counts the packets of a  *)
(* flow before it offloads it and tells user space: the connection table,  *)
(* the post routing hook, the conntrack events, the netlink request and    *)
(* the unloading of the module, for one flow and the conntrack entries it  *)
(* has one after the other.                                                *)
(*                                                                         *)
(* A step ends where a lock is taken or released, or where another CPU can *)
(* see what was done.  The receive and the sync callback are those of      *)
(* sfe_cm.c, which SfeCm models.                                           *)
(***************************************************************************)
EXTENDS Integers, FiniteSets

CONSTANTS Cpu,
          Ct,              \* conntrack entries of the flow
          Obj,             \* memory for struct sfe_connection
          NULL,
          offload_at_pkts,
          MaxPackets,      \* bound: packets that reach the hook
          MaxMark          \* bound: marks an entry gets, one after the other

ASSUME FiniteAssumption == IsFiniteSet(Cpu) /\ IsFiniteSet(Ct) /\ IsFiniteSet(Obj)
ASSUME NullAssumption == NULL \notin Obj \cup Ct \cup [ct : Ct, mark : 0 .. MaxMark]
ASSUME BoundAssumption == offload_at_pkts \in Nat \ {0} /\ MaxPackets \in Nat /\ MaxMark \in Nat

VARIABLES
    ct,          \* the conntrack entries
    conn,        \* contents of the objects
    allocated,   \* objects that are not free
    fc_conn_ht,  \* objects in the hash table
    rule,        \* the rule in the engine, if any
    cpu,
    packets,
    announced,   \* history: OFFLOADED messages, sent or not
    done_msgs,
    module,      \* how far fast_classifier_exit has got
    trouble      \* history: who overtook whom

vars == <<ct, conn, allocated, fc_conn_ht, rule, cpu, packets, announced, done_msgs, module, trouble>>

tableVars == <<conn, allocated, fc_conn_ht>>
msgVars   == <<announced, done_msgs>>

Mark == 0 .. MaxMark

Connection == [hits : 0 .. offload_at_pkts, offload_permit : BOOLEAN, offloaded : BOOLEAN,
               ct : Ct \cup {NULL}, mark : Mark]
NoConnection == [hits |-> 0, offload_permit |-> FALSE, offloaded |-> FALSE, ct |-> NULL, mark |-> 0]

PostRoutingPc == {"lookup", "create", "announce", "set_offloaded", "update", "alloc", "add"}
EventPc       == {"mark_rule", "mark_conn", "destroy_conn", "destroy_rule", "done"}

Idle == [pc |-> "idle", ct |-> NULL, conn |-> NULL, mark |-> 0, offloaded |-> FALSE]

Trouble == {"added_late", "created_late", "flushed", "destroyed_late"}

TypeOK ==
    /\ ct \in [Ct -> [state : {"none", "established", "closing", "deleted"}, mark : Mark, marked : BOOLEAN]]
    /\ conn \in [Obj -> Connection]
    /\ allocated \subseteq Obj /\ fc_conn_ht \subseteq allocated
    /\ rule \in [ct : Ct, mark : Mark] \cup {NULL}
    /\ cpu \in [Cpu -> [pc : {"idle"} \cup PostRoutingPc \cup EventPc, ct : Ct \cup {NULL},
                        conn : Obj \cup {NULL}, mark : Mark, offloaded : BOOLEAN]]
    /\ packets \in 0 .. MaxPackets
    /\ announced \in 0 .. MaxPackets /\ done_msgs \in 0 .. Cardinality(Ct)
    /\ module \in {"loaded", "destroy", "events", "hooks", "gone"}
    /\ trouble \subseteq Trouble

Init ==
    /\ ct = [t \in Ct |-> [state |-> "none", mark |-> 0, marked |-> FALSE]]
    /\ conn = [o \in Obj |-> NoConnection]
    /\ allocated = {} /\ fc_conn_ht = {}
    /\ rule = NULL
    /\ cpu = [k \in Cpu |-> Idle]
    /\ packets = 0 /\ announced = 0 /\ done_msgs = 0
    /\ module = "loaded" /\ trouble = {}

Live(t) == ct[t].state \in {"established", "closing"}

At(k, pc) == cpu[k].pc = pc
GoTo(k, pc) == cpu' = [cpu EXCEPT ![k].pc = pc]
Return(k) == cpu' = [cpu EXCEPT ![k] = Idle]

Watched == module \in {"loaded", "destroy"}            \* is the event notifier registered?
Hooked  == module \in {"loaded", "destroy", "events"}  \* are the hooks?

Note(what, condition) == trouble' = IF condition THEN trouble \cup {what} ELSE trouble

-----------------------------------------------------------------------------
(***************************************************************************)
(* Conntrack.  The next entry of the flow is made when the last one is     *)
(* deleted.  The entry itself is freed when no packet and no event has it. *)
(***************************************************************************)
Confirm(t) ==
    /\ ct[t].state = "none" /\ \A u \in Ct : ~Live(u)
    /\ ct' = [ct EXCEPT ![t].state = "established"]
    /\ UNCHANGED <<tableVars, rule, cpu, packets, msgVars, module, trouble>>

Close(t) ==
    /\ ct[t].state = "established"
    /\ ct' = [ct EXCEPT ![t].state = "closing"]
    /\ UNCHANGED <<tableVars, rule, cpu, packets, msgVars, module, trouble>>

SetMark(t) ==
    /\ Live(t) /\ ct[t].mark < MaxMark
    /\ ct' = [ct EXCEPT ![t].mark = @ + 1, ![t].marked = TRUE]
    /\ UNCHANGED <<tableVars, rule, cpu, packets, msgVars, module, trouble>>

Freed(t) == ct[t].state = "deleted" /\ \A k \in Cpu : cpu[k].ct # t

-----------------------------------------------------------------------------
(***************************************************************************)
(* fast_classifier_post_routing.  The packet carries a mark, here that of  *)
(* its conntrack entry.                                                    *)
(***************************************************************************)
PostRouting(k, t) ==
    /\ Hooked /\ At(k, "idle") /\ Live(t)
    /\ packets < MaxPackets
    /\ packets' = packets + 1
    /\ cpu' = [cpu EXCEPT ![k] = [Idle EXCEPT !.pc = "lookup", !.ct = t, !.mark = ct[t].mark]]
    /\ UNCHANGED <<ct, tableVars, rule, msgVars, module, trouble>>

Hit(c) == [c EXCEPT !.hits = IF @ < offload_at_pkts THEN @ + 1 ELSE @]

Due(c) == ~c.offloaded /\ (c.offload_permit \/ c.hits >= offload_at_pkts)

\* fast_classifier_update_protocol looks at the entry the connection was made
\* from, to which it has no reference: if that was freed, at anything.
MayOffload(c) ==
    IF Freed(c.ct) THEN BOOLEAN ELSE {ct[c.ct].state = "established"}

Found(k, o) ==
    /\ conn' = [conn EXCEPT ![o] = Hit(@)]
    /\ IF Due(conn'[o])
       THEN \E may \in MayOffload(conn[o]) :
               IF may THEN cpu' = [cpu EXCEPT ![k].pc = "create", ![k].conn = o] ELSE Return(k)
       ELSE cpu' = [cpu EXCEPT ![k].pc = "update", ![k].conn = o]
    /\ UNCHANGED <<allocated, fc_conn_ht>>

Lookup(k) ==
    /\ At(k, "lookup")
    /\ \/ \E o \in fc_conn_ht : Found(k, o)
       \/ fc_conn_ht = {} /\ GoTo(k, "alloc") /\ UNCHANGED tableVars
    /\ UNCHANGED <<ct, rule, packets, msgVars, module, trouble>>

CreateRuleUnchecked(k) ==    \* mutant: goes on when the engine refused
    /\ At(k, "create")
    /\ GoTo(k, "announce")
    /\ rule' \in {rule, IF rule # NULL THEN rule ELSE [ct |-> cpu[k].ct, mark |-> conn[cpu[k].conn].mark]}
    /\ trouble' = trouble
    /\ UNCHANGED <<ct, tableVars, packets, msgVars, module>>

(***************************************************************************)
(* sfe_ipv4_create_rule, with the lock released: the object may have been  *)
(* freed, and its memory been used for another one.  A rule that is there  *)
(* already (-EADDRINUSE) keeps its mark.  The engine may have no memory.   *)
(***************************************************************************)
CreateRule(k) ==
    /\ At(k, "create")
    /\ \/ /\ rule' = IF rule # NULL THEN rule ELSE [ct |-> cpu[k].ct, mark |-> conn[cpu[k].conn].mark]
          /\ GoTo(k, "announce")
          /\ Note("created_late", ~Live(cpu[k].ct))
       \/ Return(k) /\ UNCHANGED <<rule, trouble>>
    /\ UNCHANGED <<ct, tableVars, packets, msgVars, module>>

\* The OFFLOADED message.  There may be no memory for it, or nobody who listens:
\* that is told to nobody, and the hook goes on all the same.
Announce(k) ==
    /\ At(k, "announce")
    /\ announced' = announced + 1
    /\ GoTo(k, "set_offloaded")
    /\ UNCHANGED <<ct, tableVars, rule, packets, done_msgs, module, trouble>>

SetOffloaded(k) ==
    /\ At(k, "set_offloaded")
    /\ conn' = [conn EXCEPT ![cpu[k].conn].offloaded = TRUE]
    /\ Return(k)
    /\ UNCHANGED <<ct, allocated, fc_conn_ht, rule, packets, msgVars, module, trouble>>

\* A flow that waits, or one that the engine has and passed up: its rule is
\* brought up to date (which SfeIpv4 and SfeTcpWindow model).
UpdateRule(k) ==
    /\ At(k, "update")
    /\ Return(k)
    /\ UNCHANGED <<ct, tableVars, rule, packets, msgVars, module, trouble>>

\* The route lookups and the allocation, any of which may fail.
Alloc(k) ==
    /\ At(k, "alloc")
    /\ \/ \E o \in Obj \ allocated :
             /\ conn' = [conn EXCEPT ![o] = [NoConnection EXCEPT !.ct = cpu[k].ct, !.mark = cpu[k].mark]]
             /\ allocated' = allocated \cup {o}
             /\ cpu' = [cpu EXCEPT ![k].pc = "add", ![k].conn = o]
       \/ Return(k) /\ UNCHANGED <<conn, allocated>>
    /\ UNCHANGED <<ct, fc_conn_ht, rule, packets, msgVars, module, trouble>>

AddConnUnchecked(k) ==    \* mutant: does not look again
    /\ At(k, "add")
    /\ fc_conn_ht' = fc_conn_ht \cup {cpu[k].conn}
    /\ Note("added_late", ~Live(cpu[k].ct))
    /\ Return(k)
    /\ UNCHANGED <<ct, conn, allocated, rule, packets, msgVars, module>>

AddConnLeaks(k) ==    \* mutant: the duplicate is not freed
    /\ At(k, "add")
    /\ fc_conn_ht' = IF fc_conn_ht = {} THEN {cpu[k].conn} ELSE fc_conn_ht
    /\ Note("added_late", fc_conn_ht = {} /\ ~Live(cpu[k].ct))
    /\ Return(k)
    /\ UNCHANGED <<ct, conn, allocated, rule, packets, msgVars, module>>

\* fast_classifier_add_conn, and the end of the hook.
AddConn(k) ==
    /\ At(k, "add")
    /\ IF fc_conn_ht = {}
       THEN fc_conn_ht' = {cpu[k].conn} /\ UNCHANGED allocated
       ELSE allocated' = allocated \ {cpu[k].conn} /\ UNCHANGED fc_conn_ht
    /\ Note("added_late", fc_conn_ht = {} /\ ~Live(cpu[k].ct))
    /\ Return(k)
    /\ UNCHANGED <<ct, conn, rule, packets, msgVars, module>>

-----------------------------------------------------------------------------
(***************************************************************************)
(* fast_classifier_conntrack_event.                                        *)
(***************************************************************************)
MarkEvent(k, t) ==
    /\ At(k, "idle") /\ Live(t) /\ ct[t].marked
    /\ ct' = [ct EXCEPT ![t].marked = FALSE]
    /\ cpu' = IF Watched THEN [cpu EXCEPT ![k] = [Idle EXCEPT !.pc = "mark_rule", !.ct = t, !.mark = ct[t].mark]]
                         ELSE cpu
    /\ UNCHANGED <<tableVars, rule, packets, msgVars, module, trouble>>

MarkRule(k) ==
    /\ At(k, "mark_rule")
    /\ rule' = IF rule = NULL THEN NULL ELSE [rule EXCEPT !.mark = cpu[k].mark]
    /\ GoTo(k, "mark_conn")
    /\ UNCHANGED <<ct, tableVars, packets, msgVars, module, trouble>>

\* fast_classifier_update_mark
MarkConn(k) ==
    /\ At(k, "mark_conn")
    /\ conn' = [o \in Obj |-> IF o \in fc_conn_ht THEN [conn[o] EXCEPT !.mark = cpu[k].mark] ELSE conn[o]]
    /\ Return(k)
    /\ UNCHANGED <<ct, allocated, fc_conn_ht, rule, packets, msgVars, module, trouble>>

Delete(k, t) ==
    /\ At(k, "idle") /\ Live(t)
    /\ ct' = [ct EXCEPT ![t].state = "deleted", ![t].marked = FALSE]
    /\ cpu' = IF Watched THEN [cpu EXCEPT ![k] = [Idle EXCEPT !.pc = "destroy_conn", !.ct = t]] ELSE cpu
    /\ UNCHANGED <<tableVars, rule, packets, msgVars, module, trouble>>

InUse(o) == \E k \in Cpu : cpu[k].conn = o /\ cpu[k].pc \in PostRoutingPc

DestroyConnOffloaded(k) ==    \* mutant: only cleans up what was offloaded
    /\ At(k, "destroy_conn")
    /\ LET gone == {o \in fc_conn_ht : conn[o].offloaded}
       IN  /\ fc_conn_ht' = fc_conn_ht \ gone
           /\ allocated' = allocated \ gone
           /\ cpu' = [cpu EXCEPT ![k].pc = "destroy_rule", ![k].offloaded = gone # {}]
    /\ UNCHANGED <<ct, conn, rule, packets, msgVars, module, trouble>>

DestroyConn(k) ==
    /\ At(k, "destroy_conn")
    /\ fc_conn_ht' = {}
    /\ allocated' = allocated \ fc_conn_ht
    /\ cpu' = [cpu EXCEPT ![k].pc = "destroy_rule", ![k].offloaded = \E o \in fc_conn_ht : conn[o].offloaded]
    /\ UNCHANGED <<ct, conn, rule, packets, msgVars, module, trouble>>

DestroyRuleIfOffloaded(k) ==    \* mutant: leaves a rule that is just being made
    /\ At(k, "destroy_rule")
    /\ rule' = IF cpu[k].offloaded THEN NULL ELSE rule
    /\ IF cpu[k].offloaded THEN GoTo(k, "done") ELSE Return(k)
    /\ UNCHANGED <<ct, tableVars, packets, msgVars, module, trouble>>

SendDoneAlways(k) ==    \* mutant: whether or not the flow was offloaded
    /\ At(k, "destroy_rule")
    /\ rule' = NULL
    /\ GoTo(k, "done")
    /\ Note("destroyed_late", rule # NULL /\ (fc_conn_ht # {} \/ \E o \in Obj : InUse(o)))
    /\ UNCHANGED <<ct, tableVars, packets, msgVars, module>>

DestroyRule(k) ==
    /\ At(k, "destroy_rule")
    /\ rule' = NULL
    /\ IF cpu[k].offloaded THEN GoTo(k, "done") ELSE Return(k)
    /\ Note("destroyed_late", rule # NULL /\ (fc_conn_ht # {} \/ \E o \in Obj : InUse(o)))
    /\ UNCHANGED <<ct, tableVars, packets, msgVars, module>>

\* The DONE message, which may not go out either.
SendDone(k) ==
    /\ At(k, "done")
    /\ done_msgs' \in {done_msgs, done_msgs + 1}
    /\ Return(k)
    /\ UNCHANGED <<ct, tableVars, rule, packets, announced, module, trouble>>

-----------------------------------------------------------------------------
\* fast_classifier_offload_genl_msg, for the flow
OffloadRequest ==
    /\ module \in {"loaded", "destroy"}
    /\ conn' = [o \in Obj |-> IF o \in fc_conn_ht THEN [conn[o] EXCEPT !.offload_permit = TRUE] ELSE conn[o]]
    /\ UNCHANGED <<ct, allocated, fc_conn_ht, rule, cpu, packets, msgVars, module, trouble>>

\* A device or an address of it goes down, or the engine gives the flow up.  When
\* fast_classifier_exit takes the device notifier back, the kernel tells it once
\* more of every device that is up as if that went down.
DestroyAllRules ==
    /\ rule # NULL
    /\ rule' = NULL
    /\ trouble' = trouble \cup {"flushed"}
    /\ UNCHANGED <<ct, tableVars, cpu, packets, msgVars, module>>

(***************************************************************************)
(* fast_classifier_exit.  The chain of the event notifier waits for those  *)
(* who run it; that of the inet6 notifier, which is left after the hooks,  *)
(* for the packets that are in the hooks.                                  *)
(***************************************************************************)
ExitBegin ==
    /\ module = "loaded"
    /\ module' = "destroy"
    /\ UNCHANGED <<ct, tableVars, rule, cpu, packets, msgVars, trouble>>

ExitDestroy ==
    /\ module = "destroy"
    /\ module' = "events"
    /\ rule' = NULL
    /\ Note("flushed", rule # NULL)
    /\ UNCHANGED <<ct, tableVars, cpu, packets, msgVars>>

ExitEvents ==
    /\ module = "events"
    /\ \A k \in Cpu : cpu[k].pc \notin EventPc
    /\ module' = "hooks"
    /\ UNCHANGED <<ct, tableVars, rule, cpu, packets, msgVars, trouble>>

ExitHooks ==
    /\ module = "hooks"
    /\ \A k \in Cpu : cpu[k].pc \notin PostRoutingPc
    /\ module' = "gone"
    /\ UNCHANGED <<ct, tableVars, rule, cpu, packets, msgVars, trouble>>

-----------------------------------------------------------------------------
Hook(k) ==
    \/ Lookup(k) \/ CreateRule(k) \/ Announce(k) \/ SetOffloaded(k) \/ UpdateRule(k) \/ Alloc(k) \/ AddConn(k)

ConntrackEvent(k) ==
    MarkRule(k) \/ MarkConn(k) \/ DestroyConn(k) \/ DestroyRule(k) \/ SendDone(k)

Next ==
    \/ \E t \in Ct : Confirm(t) \/ Close(t) \/ SetMark(t)
    \/ \E k \in Cpu : Hook(k) \/ ConntrackEvent(k)
    \/ \E k \in Cpu, t \in Ct : PostRouting(k, t) \/ MarkEvent(k, t) \/ Delete(k, t)
    \/ OffloadRequest \/ DestroyAllRules
    \/ ExitBegin \/ ExitDestroy \/ ExitEvents \/ ExitHooks

Spec == Init /\ [][Next]_vars

-----------------------------------------------------------------------------
(***************************************************************************)
(* Properties.  What trouble names are the cases in which the code lets    *)
(* one CPU overtake another.                                               *)
(***************************************************************************)
Untroubled(whats) == trouble \cap whats = {}

\* Two CPUs that both miss a flow do not both add it: the second one finds the
\* first's connection when it looks again under the lock.
OneConnectionPerFlow == Cardinality(fc_conn_ht) <= 1

\* No connection object is leaked or freed twice: it is in the table, or one
\* CPU is about to add it.
NoObjectLeaks ==
    /\ \A o \in allocated \ fc_conn_ht : Cardinality({k \in Cpu : At(k, "add") /\ cpu[k].conn = o}) = 1
    /\ \A k \in Cpu : At(k, "add") => cpu[k].conn \in allocated \ fc_conn_ht

\* A connection leaves the table with its conntrack entry, to which it has a
\* pointer and no reference, unless a packet that was still on its way added
\* it after the event or the module no longer listens.
TableFollowsConntrack ==
    \A o \in fc_conn_ht :
       (~Live(conn[o].ct) /\ Untroubled({"added_late"}) /\ Watched) =>
          \E k \in Cpu : At(k, "destroy_conn") /\ cpu[k].ct = conn[o].ct

\* The same of its rule, unless create_rule came after the event.
RuleFollowsConntrack ==
    (rule # NULL /\ ~Live(rule.ct) /\ Untroubled({"created_late"}) /\ Watched) =>
       \E k \in Cpu : cpu[k].pc \in {"destroy_conn", "destroy_rule"} /\ cpu[k].ct = rule.ct

\* User space hears DONE of a flow no more often than the hook announced it,
\* although both messages are sent without the lock and the object the event
\* finds may be another one by then.  An announcement that could not be sent
\* counts: the flow is marked as offloaded all the same, and its DONE may go out.
DoneIsAnnounced == done_msgs <= announced

\* A flow counts as offloaded only while the engine has its rule: nothing
\* would ever offload it again, even when its memory was freed and used again
\* under the CPU that sets the flag.  The exceptions are that the engine gave
\* the rule up by itself, which nobody tells the table, and that the last
\* entry's event destroyed it late.
OffloadedHasRule ==
    \A o \in fc_conn_ht :
       conn[o].offloaded /\ Untroubled({"flushed", "destroyed_late"}) => rule # NULL

=============================================================================
