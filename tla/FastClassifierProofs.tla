------------------------ MODULE FastClassifierProofs ------------------------
(***************************************************************************)
(* Proofs about FastClassifier for any number of CPUs, conntrack entries,  *)
(* objects, packets and marks.                                             *)
(***************************************************************************)
EXTENDS FastClassifier, FiniteSetTheorems, TLAPS

-----------------------------------------------------------------------------
(***************************************************************************)
(* The inductive invariant.                                                *)
(***************************************************************************)
Entry == [state : {"none", "established", "closing", "deleted"}, mark : Mark, marked : BOOLEAN]
Rule  == [ct : Ct, mark : Mark]
Pc    == {"idle"} \cup PostRoutingPc \cup EventPc
CpuState == [pc : Pc, ct : Ct \cup {NULL}, conn : Obj \cup {NULL}, mark : Mark, offloaded : BOOLEAN]

\* TypeOK without the bounds of the message counters.
Shape ==
    /\ ct \in [Ct -> Entry]
    /\ conn \in [Obj -> Connection]
    /\ allocated \subseteq Obj /\ fc_conn_ht \subseteq allocated
    /\ rule \in Rule \cup {NULL}
    /\ cpu \in [Cpu -> CpuState]
    /\ packets \in 0 .. MaxPackets
    /\ announced \in Nat /\ done_msgs \in Nat
    /\ module \in {"loaded", "destroy", "events", "hooks", "gone"}
    /\ trouble \subseteq Trouble

\* An entry that was in use at some time.
Seen(t) == t \in Ct /\ ct[t].state # "none"

HolderOK(k) ==
    /\ cpu[k].pc # "idle" => Seen(cpu[k].ct)
    /\ cpu[k].pc \in {"create", "announce", "set_offloaded", "update", "add"} => cpu[k].conn \in Obj
    /\ cpu[k].pc = "done" => cpu[k].offloaded

HoldersOK == \A k \in Cpu : HolderOK(k)

\* Every object that is not free is in the table or belongs to the one CPU
\* that is about to add it.
ObjectsOK ==
    /\ \A o \in allocated : Seen(conn[o].ct)
    /\ \A k \in Cpu : At(k, "add") => /\ cpu[k].conn \in allocated \ fc_conn_ht
                                      /\ conn[cpu[k].conn].ct = cpu[k].ct
    /\ \A o \in allocated \ fc_conn_ht : \E k \in Cpu : At(k, "add") /\ cpu[k].conn = o
    /\ \A j, k \in Cpu : At(j, "add") /\ At(k, "add") /\ cpu[j].conn = cpu[k].conn => j = k
    /\ \A o, p \in fc_conn_ht : o = p

EventsPending ==
    /\ rule # NULL => Seen(rule.ct)
    /\ TableFollowsConntrack
    /\ RuleFollowsConntrack

\* The flag is set behind the unlock, so the rule must be there from the
\* moment create_rule succeeds, and for objects not yet in the table too.
RuleThere ==
    Untroubled({"flushed", "destroyed_late"}) =>
       /\ \A o \in allocated : conn[o].offloaded => rule # NULL
       /\ \A k \in Cpu : cpu[k].pc \in {"announce", "set_offloaded"} => rule # NULL

Inv == Shape /\ HoldersOK /\ ObjectsOK /\ EventsPending /\ RuleThere

(***************************************************************************)
(* The messages that were sent and those that may still be sent.           *)
(***************************************************************************)
CpusAt(pcs) == {k \in Cpu : cpu[k].pc \in pcs}
Deleted     == {t \in Ct : ct[t].state = "deleted"}
OffloadedObjects == {o \in allocated : conn[o].offloaded}
OwesDone    == {k \in Cpu : cpu[k].pc \in {"destroy_rule", "done"} /\ cpu[k].offloaded}

MessagesCounted ==
    /\ announced + Cardinality(CpusAt({"lookup", "create", "announce"})) <= packets
    /\ done_msgs + Cardinality(CpusAt({"destroy_conn", "destroy_rule", "done"})) <= Cardinality(Deleted)
    /\ done_msgs + Cardinality(OwesDone) + Cardinality(CpusAt({"set_offloaded"}))
          + Cardinality(OffloadedObjects) <= announced

-----------------------------------------------------------------------------
(***************************************************************************)
(* A CPU that moves.                                                       *)
(***************************************************************************)
LEMMA CpuMoves ==
    ASSUME Shape, NEW k \in Cpu, NEW s \in CpuState, cpu' = [cpu EXCEPT ![k] = s]
    PROVE  cpu' \in [Cpu -> CpuState] /\ cpu'[k] = s /\ \A j \in Cpu \ {k} : cpu'[j] = cpu[j]
BY DEF Shape

\* A CPU that goes on keeps what it has.
LEMMA GoToMoves ==
    ASSUME Shape, NEW k \in Cpu, NEW pc \in Pc, GoTo(k, pc)
    PROVE  /\ cpu' \in [Cpu -> CpuState]
           /\ cpu'[k] = [cpu[k] EXCEPT !.pc = pc]
           /\ cpu'[k].pc = pc /\ cpu'[k].ct = cpu[k].ct /\ cpu'[k].conn = cpu[k].conn
           /\ cpu'[k].offloaded = cpu[k].offloaded
           /\ \A j \in Cpu \ {k} : cpu'[j] = cpu[j]
<1>1. cpu[k] \in CpuState /\ [cpu[k] EXCEPT !.pc = pc] \in CpuState
  BY DEF Shape, CpuState
<1>2. cpu' = [cpu EXCEPT ![k] = [cpu[k] EXCEPT !.pc = pc]]
  BY DEF GoTo
<1>3. QED
  BY <1>1, <1>2, CpuMoves DEF CpuState

\* A CPU that returns is idle.
LEMMA ReturnMoves ==
    ASSUME Shape, NEW k \in Cpu, Return(k)
    PROVE  /\ cpu' \in [Cpu -> CpuState]
           /\ cpu'[k].pc = "idle"
           /\ \A j \in Cpu \ {k} : cpu'[j] = cpu[j]
<1>1. Idle \in CpuState
  BY BoundAssumption DEF Idle, CpuState, Pc, Mark
<1>2. cpu' = [cpu EXCEPT ![k] = Idle]
  BY DEF Return
<1>3. QED
  BY <1>1, <1>2, CpuMoves DEF Idle

\* A CPU that moves to where it finds its connection, or its message.
LEMMA HookMoves ==
    ASSUME Shape, NEW k \in Cpu, NEW pc \in Pc, NEW o \in Obj,
           cpu' = [cpu EXCEPT ![k].pc = pc, ![k].conn = o]
    PROVE  /\ cpu' \in [Cpu -> CpuState]
           /\ cpu'[k].pc = pc /\ cpu'[k].ct = cpu[k].ct /\ cpu'[k].conn = o
           /\ cpu'[k].offloaded = cpu[k].offloaded
           /\ \A j \in Cpu \ {k} : cpu'[j] = cpu[j]
<1>1. cpu[k] \in CpuState /\ [cpu[k] EXCEPT !.pc = pc, !.conn = o] \in CpuState
  BY DEF Shape, CpuState
<1>2. cpu' = [cpu EXCEPT ![k] = [cpu[k] EXCEPT !.pc = pc, !.conn = o]]
  OBVIOUS
<1> DEFINE s == [cpu[k] EXCEPT !.pc = pc, !.conn = o]
<1>3. s.pc = pc /\ s.ct = cpu[k].ct /\ s.conn = o /\ s.offloaded = cpu[k].offloaded
  BY <1>1 DEF Shape, CpuState
<1> HIDE DEF s
<1>4. QED
  BY <1>1, <1>2, <1>3, CpuMoves DEF s

\* A packet or an event that comes in.
LEMMA EnterMoves ==
    ASSUME Shape, NEW k \in Cpu, NEW pc \in Pc, NEW t \in Ct, NEW m \in Mark,
           cpu' = [cpu EXCEPT ![k] = [Idle EXCEPT !.pc = pc, !.ct = t, !.mark = m]]
    PROVE  /\ cpu' \in [Cpu -> CpuState]
           /\ cpu'[k].pc = pc /\ cpu'[k].ct = t /\ ~cpu'[k].offloaded
           /\ \A j \in Cpu \ {k} : cpu'[j] = cpu[j]
<1>1. [Idle EXCEPT !.pc = pc, !.ct = t, !.mark = m] \in CpuState
  BY DEF Idle, CpuState
<1>2. QED
  BY <1>1, CpuMoves DEF Idle

-----------------------------------------------------------------------------
(***************************************************************************)
(* Most steps leave the entries, the objects and the rule as they are, as  *)
(* far as the invariant is concerned.                                      *)
(***************************************************************************)
QuietMove(k) ==
    /\ HolderOK(k)'
    /\ cpu[k].pc \notin {"add", "destroy_conn", "destroy_rule"} /\ cpu'[k].pc # "add"
    /\ cpu'[k].pc \in {"announce", "set_offloaded"} => cpu[k].pc \in {"announce", "set_offloaded"}

SameEntries == \A t \in Ct : Seen(t)' = Seen(t) /\ Live(t)' = Live(t)

SameObjects ==
    /\ allocated' = allocated /\ fc_conn_ht' = fc_conn_ht
    /\ \A o \in Obj : conn'[o].ct = conn[o].ct /\ conn'[o].offloaded = conn[o].offloaded

SameRule == (rule' = NULL <=> rule = NULL) /\ (rule # NULL => rule'.ct = rule.ct)

\* A step that touches neither entries, objects nor the rule keeps the invariant.
LEMMA QuietStep ==
    ASSUME Inv, Shape', SameEntries, SameObjects, SameRule,
           trouble' = trouble, Watched' => Watched,
           \A k \in Cpu : cpu'[k] = cpu[k] \/ QuietMove(k)
    PROVE  Inv'
<1>1. HoldersOK'
  BY DEF Inv, HoldersOK, HolderOK, QuietMove, SameEntries, Seen
<1>2. ObjectsOK'
  <2>1. \A o \in allocated : Seen(conn[o].ct)'
    BY DEF Inv, Shape, ObjectsOK, SameEntries, SameObjects, Seen
  <2>2. \A k \in Cpu : At(k, "add")' <=> At(k, "add")
    BY DEF QuietMove, At
  <2>3. \A k \in Cpu : At(k, "add") => cpu'[k] = cpu[k]
    BY DEF QuietMove, At
  <2>4. QED
    BY <2>1, <2>2, <2>3 DEF Inv, Shape, ObjectsOK, SameObjects
<1>3. EventsPending'
  <2>1. \A k \in Cpu : cpu[k].pc \in {"destroy_conn", "destroy_rule"} => cpu'[k] = cpu[k]
    BY DEF QuietMove
  <2>2. (rule # NULL => Seen(rule.ct))'
    BY DEF Inv, EventsPending, SameRule, SameEntries, Seen
  <2>3. TableFollowsConntrack'
    BY <2>1 DEF Inv, Shape, ObjectsOK, EventsPending, TableFollowsConntrack, SameObjects, SameEntries,
                Untroubled, At, Seen
  <2>4. RuleFollowsConntrack'
    BY <2>1 DEF Inv, EventsPending, RuleFollowsConntrack, SameRule, SameEntries, Untroubled, Seen
  <2>5. QED
    BY <2>2, <2>3, <2>4 DEF EventsPending
<1>4. RuleThere'
  BY DEF Inv, Shape, RuleThere, SameObjects, SameRule, QuietMove, Untroubled
<1>5. QED
  BY <1>1, <1>2, <1>3, <1>4 DEF Inv

-----------------------------------------------------------------------------
(***************************************************************************)
(* The post routing hook.                                                  *)
(***************************************************************************)
LEMMA PostRoutingStep ==
    ASSUME Inv, NEW k \in Cpu, NEW t \in Ct, PostRouting(k, t)
    PROVE  Inv'
<1>1. ct[t].mark \in Mark /\ "lookup" \in Pc /\ packets' \in 0 .. MaxPackets
  BY BoundAssumption DEF Inv, Shape, Entry, Pc, PostRoutingPc, PostRouting
<1>2. /\ cpu' \in [Cpu -> CpuState]
      /\ cpu'[k].pc = "lookup" /\ cpu'[k].ct = t
      /\ \A j \in Cpu \ {k} : cpu'[j] = cpu[j]
  BY <1>1, EnterMoves DEF Inv, PostRouting
<1>3. Shape'
  BY <1>1, <1>2 DEF Inv, Shape, PostRouting, tableVars, msgVars
<1>4. QuietMove(k)
  BY <1>2 DEF QuietMove, HolderOK, Seen, PostRouting, Live, At
<1>5. SameEntries /\ SameObjects /\ SameRule /\ trouble' = trouble /\ (Watched' => Watched)
  BY DEF PostRouting, SameEntries, SameObjects, SameRule, Seen, Live, Watched, tableVars
<1>6. QED
  BY <1>2, <1>3, <1>4, <1>5, QuietStep

\* Counting a packet changes neither the entry of a connection nor its flag.
LEMMA HitKeeps ==
    ASSUME NEW c \in Connection
    PROVE  Hit(c) \in Connection /\ Hit(c).ct = c.ct /\ Hit(c).offloaded = c.offloaded
BY BoundAssumption DEF Hit, Connection

\* Where the lookup under the lock leads.
LEMMA LookupMoves ==
    ASSUME Inv, NEW k \in Cpu, Lookup(k)
    PROVE  /\ cpu' \in [Cpu -> CpuState]
           /\ cpu'[k].pc \in {"create", "update", "alloc", "idle"}
           /\ cpu'[k].pc \in {"create", "update", "alloc"} => cpu'[k].ct = cpu[k].ct
           /\ cpu'[k].pc \in {"create", "update"} => cpu'[k].conn \in Obj
           /\ \A j \in Cpu \ {k} : cpu'[j] = cpu[j]
<1>1. {"create", "update", "alloc"} \subseteq Pc
  BY DEF Pc, PostRoutingPc
<1>2. CASE fc_conn_ht = {} /\ GoTo(k, "alloc")
  BY <1>1, <1>2, GoToMoves DEF Inv
<1>3. CASE \E o \in fc_conn_ht : Found(k, o)
  <2>1. PICK o \in fc_conn_ht : Found(k, o)
    BY <1>3
  <2>2. o \in Obj
    BY DEF Inv, Shape
  <2>3. CASE Return(k)
    BY <2>3, ReturnMoves DEF Inv
  <2>4. CASE cpu' = [cpu EXCEPT ![k].pc = "create", ![k].conn = o]
    BY <1>1, <2>2, <2>4, HookMoves DEF Inv
  <2>5. CASE cpu' = [cpu EXCEPT ![k].pc = "update", ![k].conn = o]
    BY <1>1, <2>2, <2>5, HookMoves DEF Inv
  <2>6. QED
    BY <2>1, <2>3, <2>4, <2>5 DEF Found
<1>4. QED
  BY <1>2, <1>3 DEF Lookup

\* The lookup in post_routing keeps the invariant.
LEMMA LookupStep ==
    ASSUME Inv, NEW k \in Cpu, Lookup(k)
    PROVE  Inv'
<1>1. /\ cpu' \in [Cpu -> CpuState]
      /\ cpu'[k].pc \in {"create", "update", "alloc", "idle"}
      /\ cpu'[k].pc \in {"create", "update", "alloc"} => cpu'[k].ct = cpu[k].ct
      /\ cpu'[k].pc \in {"create", "update"} => cpu'[k].conn \in Obj
      /\ \A j \in Cpu \ {k} : cpu'[j] = cpu[j]
  BY LookupMoves
<1>2. conn' \in [Obj -> Connection] /\ SameObjects
  <2>1. CASE UNCHANGED tableVars
    BY <2>1 DEF Inv, Shape, SameObjects, tableVars
  <2>2. CASE \E o \in fc_conn_ht : Found(k, o)
    <3>1. PICK o \in fc_conn_ht : conn' = [conn EXCEPT ![o] = Hit(@)] /\ UNCHANGED <<allocated, fc_conn_ht>>
      BY <2>2 DEF Found
    <3>2. o \in Obj /\ conn[o] \in Connection
      BY DEF Inv, Shape
    <3>3. Hit(conn[o]) \in Connection /\ Hit(conn[o]).ct = conn[o].ct
          /\ Hit(conn[o]).offloaded = conn[o].offloaded
      BY <3>2, HitKeeps
    <3>4. QED
      BY <3>1, <3>2, <3>3 DEF Inv, Shape, SameObjects
  <2>3. QED
    BY <2>1, <2>2 DEF Lookup
<1>3. Shape'
  BY <1>1, <1>2 DEF Inv, Shape, Lookup, SameObjects, msgVars
<1>4. SameEntries /\ SameRule /\ trouble' = trouble /\ (Watched' => Watched)
  BY DEF Lookup, SameEntries, SameRule, Seen, Live, Watched
<1>5. QuietMove(k)
  BY <1>1 DEF Inv, HoldersOK, QuietMove, HolderOK, Seen, Lookup, At
<1>6. QED
  BY <1>1, <1>2, <1>3, <1>4, <1>5, QuietStep

\* Announce and UpdateRule.
LEMMA HookQuietStep ==
    ASSUME Inv, NEW k \in Cpu, Announce(k) \/ UpdateRule(k)
    PROVE  Inv'
<1>1. /\ cpu' \in [Cpu -> CpuState]
      /\ cpu'[k].pc \in {"set_offloaded", "idle"}
      /\ cpu'[k].pc = "set_offloaded" =>
            At(k, "announce") /\ cpu'[k].ct = cpu[k].ct /\ cpu'[k].conn = cpu[k].conn
      /\ \A j \in Cpu \ {k} : cpu'[j] = cpu[j]
  <2>1. "set_offloaded" \in Pc
    BY DEF Pc, PostRoutingPc
  <2>2. CASE Announce(k)
    BY <2>1, <2>2, GoToMoves DEF Inv, Announce
  <2>3. CASE UpdateRule(k)
    BY <2>3, ReturnMoves DEF Inv, UpdateRule
  <2>4. QED
    BY <2>2, <2>3
<1>2. Shape'
  BY <1>1 DEF Inv, Shape, Announce, UpdateRule, tableVars, msgVars
<1>3. SameEntries /\ SameObjects /\ SameRule /\ trouble' = trouble /\ (Watched' => Watched)
  BY DEF Announce, UpdateRule, SameEntries, SameObjects, SameRule, Seen, Live, Watched, tableVars
<1>4. QuietMove(k)
  BY <1>1 DEF Inv, HoldersOK, QuietMove, HolderOK, Seen, Announce, UpdateRule, At
<1>5. QED
  BY <1>1, <1>2, <1>3, <1>4, QuietStep

\* Making the rule keeps the invariant.
LEMMA CreateRuleStep ==
    ASSUME Inv, NEW k \in Cpu, CreateRule(k)
    PROVE  Inv'
<1>1. cpu[k].ct \in Ct /\ cpu[k].conn \in Obj /\ Seen(cpu[k].ct)
  BY DEF Inv, HoldersOK, HolderOK, Seen, CreateRule, At
<1>2. CASE Return(k) /\ UNCHANGED <<rule, trouble>>
  <2>1. cpu' \in [Cpu -> CpuState] /\ cpu'[k].pc = "idle" /\ \A j \in Cpu \ {k} : cpu'[j] = cpu[j]
    BY <1>2, ReturnMoves DEF Inv
  <2>2. Shape'
    BY <1>2, <2>1 DEF Inv, Shape, CreateRule, tableVars, msgVars
  <2>3. SameEntries /\ SameObjects /\ SameRule /\ trouble' = trouble /\ (Watched' => Watched)
    BY <1>2 DEF CreateRule, SameEntries, SameObjects, SameRule, Seen, Live, Watched, tableVars
  <2>4. QuietMove(k)
    BY <2>1 DEF QuietMove, HolderOK, CreateRule, At
  <2>5. QED
    BY <2>1, <2>2, <2>3, <2>4, QuietStep
<1>3. CASE GoTo(k, "announce")
  <2> DEFINE r == [ct |-> cpu[k].ct, mark |-> conn[cpu[k].conn].mark]
  <2>1. r \in Rule /\ r # NULL /\ r.ct = cpu[k].ct
    BY <1>1, NullAssumption DEF Inv, Shape, Connection, Rule, Mark
  <2>2. CASE Return(k) /\ UNCHANGED <<rule, trouble>>
    BY <1>2, <2>2
  <2>3. CASE /\ rule' = IF rule # NULL THEN rule ELSE r
             /\ Note("created_late", ~Live(cpu[k].ct))
    <3> HIDE DEF r
    <3>1. "announce" \in Pc
      BY DEF Pc, PostRoutingPc
    <3>2. /\ cpu' \in [Cpu -> CpuState]
          /\ cpu'[k].pc = "announce" /\ cpu'[k].ct = cpu[k].ct /\ cpu'[k].conn = cpu[k].conn
          /\ \A j \in Cpu \ {k} : cpu'[j] = cpu[j]
      BY <1>3, <3>1, GoToMoves DEF Inv
    <3>3. UNCHANGED <<ct, conn, allocated, fc_conn_ht, packets, announced, done_msgs, module>>
      BY DEF CreateRule, tableVars, msgVars
    <3>4. At(k, "create") /\ rule' # NULL /\ rule' \in Rule
      BY <2>1, <2>3 DEF CreateRule, Inv, Shape
    <3>5. trouble' \subseteq Trouble /\ trouble \subseteq trouble'
      BY <2>3 DEF Note, Inv, Shape, Trouble
    <3>6. Shape'
      BY <3>2, <3>3, <3>4, <3>5 DEF Inv, Shape
    <3>7. HoldersOK'
      BY <1>1, <3>2, <3>3 DEF Inv, HoldersOK, HolderOK, Seen
    <3>8. ObjectsOK'
      BY <3>2, <3>3, <3>4 DEF Inv, ObjectsOK, At, Seen
    <3>9. EventsPending'
      <4>1. (rule # NULL => Seen(rule.ct))'
        BY <1>1, <2>1, <2>3, <3>3, <3>4 DEF Inv, EventsPending, Seen
      <4>2. TableFollowsConntrack'
        BY <3>2, <3>3, <3>4, <3>5 DEF Inv, EventsPending, TableFollowsConntrack, At, Live, Watched, Untroubled
      <4>3. RuleFollowsConntrack'
        <5>1. CASE rule = NULL
          BY <2>1, <2>3, <3>3, <5>1 DEF RuleFollowsConntrack, Note, Untroubled, Live
        <5>2. CASE rule # NULL
          BY <2>3, <3>2, <3>3, <3>4, <3>5, <5>2
             DEF Inv, EventsPending, RuleFollowsConntrack, Untroubled, Live, Watched, At
        <5>3. QED
          BY <5>1, <5>2
      <4>4. QED
        BY <4>1, <4>2, <4>3 DEF EventsPending
    <3>10. RuleThere'
      BY <3>4 DEF RuleThere
    <3>11. QED
      BY <3>6, <3>7, <3>8, <3>9, <3>10 DEF Inv
  <2>4. QED
    BY <2>2, <2>3 DEF CreateRule
<1>4. QED
  BY <1>2, <1>3 DEF CreateRule

\* The flag is set whatever the memory is by then: the rule is there.
LEMMA SetOffloadedStep ==
    ASSUME Inv, NEW k \in Cpu, SetOffloaded(k)
    PROVE  Inv'
<1> DEFINE o == cpu[k].conn
<1>1. o \in Obj /\ conn' = [conn EXCEPT ![o] = [conn[o] EXCEPT !.offloaded = TRUE]]
  BY DEF Inv, HoldersOK, HolderOK, SetOffloaded, At
<1>2. At(k, "set_offloaded")
  BY DEF SetOffloaded
<1>3. cpu' \in [Cpu -> CpuState] /\ cpu'[k].pc = "idle" /\ \A j \in Cpu \ {k} : cpu'[j] = cpu[j]
  BY ReturnMoves DEF Inv, SetOffloaded
<1>4. UNCHANGED <<ct, allocated, fc_conn_ht, rule, packets, announced, done_msgs, module, trouble>>
  BY DEF SetOffloaded, msgVars
<1>5. conn' \in [Obj -> Connection] /\ \A p \in Obj : conn'[p].ct = conn[p].ct
  BY <1>1 DEF Inv, Shape, Connection
<1>6. Shape'
  BY <1>3, <1>4, <1>5 DEF Inv, Shape
<1>7. HoldersOK'
  BY <1>3, <1>4 DEF Inv, HoldersOK, HolderOK, Seen
<1>8. ObjectsOK'
  BY <1>2, <1>3, <1>4, <1>5 DEF Inv, Shape, ObjectsOK, At, Seen
<1>9. EventsPending'
  <2>1. TableFollowsConntrack'
    BY <1>2, <1>3, <1>4, <1>5 DEF Inv, Shape, EventsPending, TableFollowsConntrack, At, Live, Watched, Untroubled
  <2>2. RuleFollowsConntrack'
    BY <1>2, <1>3, <1>4 DEF Inv, EventsPending, RuleFollowsConntrack, At, Live, Watched, Untroubled
  <2>3. QED
    BY <1>4, <2>1, <2>2 DEF Inv, EventsPending, Seen
<1>10. RuleThere'
  BY <1>2, <1>3, <1>4 DEF Inv, RuleThere, At, Untroubled
<1>11. QED
  BY <1>6, <1>7, <1>8, <1>9, <1>10 DEF Inv

\* Taking memory for an object keeps the invariant.
LEMMA AllocStep ==
    ASSUME Inv, NEW k \in Cpu, Alloc(k)
    PROVE  Inv'
<1>1. UNCHANGED <<ct, fc_conn_ht, rule, packets, announced, done_msgs, module, trouble>>
  BY DEF Alloc, msgVars
<1>2. At(k, "alloc") /\ cpu[k].ct \in Ct /\ Seen(cpu[k].ct) /\ cpu[k].mark \in Mark
  BY DEF Inv, Shape, CpuState, HoldersOK, HolderOK, Seen, Alloc, At
<1>3. CASE Return(k) /\ UNCHANGED <<conn, allocated>>
  <2>1. cpu' \in [Cpu -> CpuState] /\ cpu'[k].pc = "idle" /\ \A j \in Cpu \ {k} : cpu'[j] = cpu[j]
    BY <1>3, ReturnMoves DEF Inv
  <2>2. Shape'
    BY <1>1, <1>3, <2>1 DEF Inv, Shape
  <2>3. SameEntries /\ SameObjects /\ SameRule /\ trouble' = trouble /\ (Watched' => Watched)
    BY <1>1, <1>3 DEF SameEntries, SameObjects, SameRule, Seen, Live, Watched
  <2>4. QuietMove(k)
    BY <1>2, <2>1 DEF QuietMove, HolderOK, At
  <2>5. QED
    BY <2>1, <2>2, <2>3, <2>4, QuietStep
<1>4. CASE ~ (Return(k) /\ UNCHANGED <<conn, allocated>>)
  <2>1. PICK o \in Obj \ allocated :
           /\ conn' = [conn EXCEPT ![o] = [NoConnection EXCEPT !.ct = cpu[k].ct, !.mark = cpu[k].mark]]
           /\ allocated' = allocated \cup {o}
           /\ cpu' = [cpu EXCEPT ![k].pc = "add", ![k].conn = o]
    BY <1>4 DEF Alloc
  <2> DEFINE c == [NoConnection EXCEPT !.ct = cpu[k].ct, !.mark = cpu[k].mark]
  <2>2. c \in Connection /\ c.ct = cpu[k].ct /\ ~c.offloaded
    <3>1. NoConnection \in Connection
      BY BoundAssumption DEF NoConnection, Connection, Mark
    <3>2. c \in Connection
      BY <1>2, <3>1 DEF Connection
    <3>3. c.ct = cpu[k].ct
      BY DEF NoConnection
    <3>4. ~c.offloaded
      BY DEF NoConnection
    <3>5. QED
      BY <3>2, <3>3, <3>4
  <2> HIDE DEF c
  <2>3. conn' \in [Obj -> Connection] /\ conn'[o] = c /\ \A p \in Obj \ {o} : conn'[p] = conn[p]
    BY <2>1, <2>2 DEF Inv, Shape, c
  <2>4. /\ cpu' \in [Cpu -> CpuState]
        /\ cpu'[k].pc = "add" /\ cpu'[k].ct = cpu[k].ct /\ cpu'[k].conn = o
        /\ \A j \in Cpu \ {k} : cpu'[j] = cpu[j]
    <3>1. "add" \in Pc /\ o \in Obj
      BY DEF Pc, PostRoutingPc
    <3> DEFINE s == [cpu[k] EXCEPT !.pc = "add", !.conn = o]
    <3>2. cpu[k] \in CpuState
      BY DEF Inv, Shape
    <3>3. s \in CpuState /\ s.pc = "add" /\ s.ct = cpu[k].ct /\ s.conn = o
      BY <3>1, <3>2 DEF CpuState
    <3>4. cpu' = [cpu EXCEPT ![k] = s]
      BY <2>1
    <3> HIDE DEF s
    <3>5. QED
      BY <3>3, <3>4, CpuMoves DEF Inv
  <2>5. o \notin allocated /\ o \notin fc_conn_ht /\ allocated' = allocated \cup {o}
    BY <2>1 DEF Inv, Shape
  <2>6. Shape'
    BY <1>1, <2>3, <2>4, <2>5 DEF Inv, Shape
  <2>7. HoldersOK'
    BY <1>1, <1>2, <2>4 DEF Inv, HoldersOK, HolderOK, Seen
  <2>8. ObjectsOK'
    <3>1. \A p \in allocated' : Seen(conn[p].ct)'
      BY <1>1, <1>2, <2>2, <2>3, <2>5 DEF Inv, Shape, ObjectsOK, Seen
    <3>2. ASSUME NEW j \in Cpu, At(j, "add")'
          PROVE  cpu'[j].conn \in allocated' \ fc_conn_ht' /\ conn'[cpu'[j].conn].ct = cpu'[j].ct
      BY <1>1, <2>2, <2>3, <2>4, <2>5, <3>2 DEF Inv, Shape, ObjectsOK, At
    <3>3. \A p \in allocated' \ fc_conn_ht' : \E j \in Cpu : At(j, "add")' /\ cpu'[j].conn = p
      BY <1>1, <1>2, <2>4, <2>5 DEF Inv, ObjectsOK, At
    <3>4. \A i, j \in Cpu : At(i, "add")' /\ At(j, "add")' /\ cpu'[i].conn = cpu'[j].conn => i = j
      BY <2>4, <2>5 DEF Inv, ObjectsOK, At
    <3>5. QED
      BY <1>1, <3>1, <3>2, <3>3, <3>4 DEF Inv, ObjectsOK
  <2>9. EventsPending'
    <3>1. TableFollowsConntrack'
      BY <1>1, <1>2, <2>3, <2>4, <2>5
         DEF Inv, Shape, EventsPending, TableFollowsConntrack, At, Live, Watched, Untroubled
    <3>2. RuleFollowsConntrack'
      BY <1>1, <1>2, <2>4 DEF Inv, EventsPending, RuleFollowsConntrack, At, Live, Watched, Untroubled
    <3>3. QED
      BY <1>1, <3>1, <3>2 DEF Inv, EventsPending, Seen
  <2>10. RuleThere'
    BY <1>1, <2>2, <2>3, <2>4, <2>5 DEF Inv, Shape, RuleThere, Untroubled
  <2>11. QED
    BY <2>6, <2>7, <2>8, <2>9, <2>10 DEF Inv
<1>5. QED
  BY <1>3, <1>4

\* Adding the object, or finding another there, keeps the invariant.
LEMMA AddConnStep ==
    ASSUME Inv, NEW k \in Cpu, AddConn(k)
    PROVE  Inv'
<1> DEFINE o == cpu[k].conn
<1>1. UNCHANGED <<ct, conn, rule, packets, announced, done_msgs, module>>
  BY DEF AddConn, msgVars
<1>2. /\ At(k, "add") /\ Seen(cpu[k].ct) /\ o \in allocated \ fc_conn_ht /\ o \in Obj
      /\ conn[o].ct = cpu[k].ct
  BY DEF Inv, Shape, HoldersOK, HolderOK, ObjectsOK, AddConn, At
<1>3. cpu' \in [Cpu -> CpuState] /\ cpu'[k].pc = "idle" /\ \A j \in Cpu \ {k} : cpu'[j] = cpu[j]
  BY ReturnMoves DEF Inv, AddConn
<1>4. trouble' \subseteq Trouble /\ trouble \subseteq trouble'
  BY DEF Inv, Shape, AddConn, Note, Trouble
<1>5. \/ fc_conn_ht = {} /\ fc_conn_ht' = {o} /\ allocated' = allocated
      \/ fc_conn_ht' = fc_conn_ht /\ allocated' = allocated \ {o}
  BY DEF AddConn
<1>6. Shape'
  BY <1>1, <1>2, <1>3, <1>4, <1>5 DEF Inv, Shape
<1>7. HoldersOK'
  BY <1>1, <1>3 DEF Inv, HoldersOK, HolderOK, Seen
<1>8. ObjectsOK'
  <2>1. \A j \in Cpu : At(j, "add")' => j # k /\ At(j, "add") /\ cpu'[j] = cpu[j]
    BY <1>3 DEF At
  <2>2. \A j \in Cpu \ {k} : At(j, "add") => cpu[j].conn # o
    BY <1>2 DEF Inv, ObjectsOK
  <2>3. allocated' \ fc_conn_ht' = (allocated \ fc_conn_ht) \ {o}
    BY <1>2, <1>5
  <2>4. \A p \in allocated' : Seen(conn[p].ct)'
    BY <1>1, <1>5 DEF Inv, ObjectsOK, Seen
  <2>5. \A j \in Cpu : At(j, "add")' => /\ cpu'[j].conn \in allocated' \ fc_conn_ht'
                                        /\ conn'[cpu'[j].conn].ct = cpu'[j].ct
    BY <1>1, <2>1, <2>2, <2>3 DEF Inv, ObjectsOK
  <2>6. \A p \in allocated' \ fc_conn_ht' : \E j \in Cpu : At(j, "add")' /\ cpu'[j].conn = p
    BY <1>3, <2>3 DEF Inv, ObjectsOK, At
  <2>7. \A i, j \in Cpu : At(i, "add")' /\ At(j, "add")' /\ cpu'[i].conn = cpu'[j].conn => i = j
    BY <2>1 DEF Inv, ObjectsOK
  <2>8. \A p, q \in fc_conn_ht' : p = q
    BY <1>5 DEF Inv, ObjectsOK
  <2>9. QED
    BY <2>4, <2>5, <2>6, <2>7, <2>8 DEF ObjectsOK
<1>9. EventsPending'
  <2>1. TableFollowsConntrack'
    <3>1. CASE fc_conn_ht' = fc_conn_ht
      BY <1>1, <1>2, <1>3, <1>4, <3>1
         DEF Inv, EventsPending, TableFollowsConntrack, At, Live, Watched, Untroubled
    <3>2. CASE fc_conn_ht = {} /\ fc_conn_ht' = {o} /\ fc_conn_ht # fc_conn_ht'
      <4>1. ~Live(cpu[k].ct) => "added_late" \in trouble'
        BY <3>2 DEF AddConn, Note
      <4>2. QED
        BY <1>1, <1>2, <3>2, <4>1 DEF TableFollowsConntrack, Untroubled, Live
    <3>3. QED
      BY <1>5, <3>1, <3>2
  <2>2. RuleFollowsConntrack'
    BY <1>1, <1>2, <1>3, <1>4 DEF Inv, EventsPending, RuleFollowsConntrack, At, Live, Watched, Untroubled
  <2>3. QED
    BY <1>1, <2>1, <2>2 DEF Inv, EventsPending, Seen
<1>10. RuleThere'
  BY <1>1, <1>3, <1>4, <1>5 DEF Inv, RuleThere, Untroubled
<1>11. QED
  BY <1>6, <1>7, <1>8, <1>9, <1>10 DEF Inv

-----------------------------------------------------------------------------
(***************************************************************************)
(* The conntrack events.                                                   *)
(***************************************************************************)
LEMMA MarkEventStep ==
    ASSUME Inv, NEW k \in Cpu, NEW t \in Ct, MarkEvent(k, t)
    PROVE  Inv'
<1>1. ct' \in [Ct -> Entry] /\ \A u \in Ct : ct'[u].state = ct[u].state
  BY DEF Inv, Shape, Entry, MarkEvent
<1>2. ct[t].mark \in Mark /\ "mark_rule" \in Pc
  BY DEF Inv, Shape, Entry, Pc, EventPc
<1>3. /\ cpu' \in [Cpu -> CpuState]
      /\ \/ cpu'[k].pc = "mark_rule" /\ cpu'[k].ct = t
         \/ cpu'[k] = cpu[k]
      /\ \A j \in Cpu \ {k} : cpu'[j] = cpu[j]
  <2>1. CASE cpu' = cpu
    BY <2>1 DEF Inv, Shape
  <2>2. CASE cpu' # cpu
    BY <1>2, <2>2, EnterMoves DEF Inv, MarkEvent
  <2>3. QED
    BY <2>1, <2>2
<1>4. Shape'
  BY <1>1, <1>3 DEF Inv, Shape, MarkEvent, tableVars, msgVars
<1>5. SameEntries /\ SameObjects /\ SameRule /\ trouble' = trouble /\ (Watched' => Watched)
  BY <1>1 DEF MarkEvent, SameEntries, SameObjects, SameRule, Seen, Live, Watched, tableVars
<1>6. cpu'[k] = cpu[k] \/ QuietMove(k)
  BY <1>1, <1>3 DEF QuietMove, HolderOK, Seen, Live, MarkEvent, At
<1>7. QED
  BY <1>3, <1>4, <1>5, <1>6, QuietStep

\* The mark of a rule or of a connection is not part of the invariant.
LEMMA MarkStep ==
    ASSUME Inv, NEW k \in Cpu, MarkRule(k) \/ MarkConn(k) \/ SendDone(k)
    PROVE  Inv'
<1>1. /\ cpu' \in [Cpu -> CpuState]
      /\ cpu'[k].pc \in {"mark_conn", "idle"}
      /\ cpu'[k].pc = "mark_conn" => cpu[k].pc = "mark_rule" /\ cpu'[k].ct = cpu[k].ct
      /\ \A j \in Cpu \ {k} : cpu'[j] = cpu[j]
  <2>1. "mark_conn" \in Pc
    BY DEF Pc, EventPc
  <2>2. CASE MarkRule(k)
    BY <2>1, <2>2, GoToMoves DEF Inv, MarkRule, At
  <2>3. CASE MarkConn(k) \/ SendDone(k)
    BY <2>3, ReturnMoves DEF Inv, MarkConn, SendDone
  <2>4. QED
    BY <2>2, <2>3
<1>2. cpu[k].mark \in Mark
  BY DEF Inv, Shape, CpuState
<1>3. rule' \in Rule \cup {NULL} /\ SameRule
  <2>1. CASE rule' = rule
    BY <2>1 DEF Inv, Shape, SameRule
  <2>2. CASE MarkRule(k) /\ rule # NULL
    <3>1. rule \in Rule /\ rule' = [rule EXCEPT !.mark = cpu[k].mark]
      BY <2>2 DEF Inv, Shape, MarkRule
    <3>2. rule' \in Rule /\ rule'.ct = rule.ct
      BY <1>2, <3>1 DEF Rule
    <3>3. QED
      BY <2>2, <3>2, NullAssumption DEF SameRule, Rule, Mark
  <2>3. QED
    BY <2>1, <2>2 DEF MarkRule, MarkConn, SendDone
<1>4. conn' \in [Obj -> Connection] /\ SameObjects
  <2>1. CASE UNCHANGED tableVars
    BY <2>1 DEF Inv, Shape, SameObjects, tableVars
  <2>2. CASE MarkConn(k)
    <3>1. \A c \in Connection : /\ [c EXCEPT !.mark = cpu[k].mark] \in Connection
                                /\ [c EXCEPT !.mark = cpu[k].mark].ct = c.ct
                                /\ [c EXCEPT !.mark = cpu[k].mark].offloaded = c.offloaded
      BY <1>2 DEF Connection
    <3>2. QED
      BY <2>2, <3>1 DEF Inv, Shape, MarkConn, SameObjects
  <2>3. QED
    BY <2>1, <2>2 DEF MarkRule, SendDone
<1>5. Shape'
  BY <1>1, <1>3, <1>4 DEF Inv, Shape, MarkRule, MarkConn, SendDone, SameObjects, msgVars
<1>6. SameEntries /\ trouble' = trouble /\ (Watched' => Watched)
  BY DEF MarkRule, MarkConn, SendDone, SameEntries, Seen, Live, Watched
<1>7. QuietMove(k)
  BY <1>1, <1>6 DEF Inv, HoldersOK, QuietMove, HolderOK, SameEntries, Seen, MarkRule, MarkConn, SendDone, At
<1>8. QED
  BY <1>1, <1>3, <1>4, <1>5, <1>6, <1>7, QuietStep

\* The entry is gone; the event that says so has the rest to do.
LEMMA DeleteStep ==
    ASSUME Inv, NEW k \in Cpu, NEW t \in Ct, Delete(k, t)
    PROVE  Inv'
<1>1. /\ ct' \in [Ct -> Entry]
      /\ ct'[t].state = "deleted" /\ \A u \in Ct \ {t} : ct'[u] = ct[u]
  BY DEF Inv, Shape, Entry, Delete
<1>2. UNCHANGED <<conn, allocated, fc_conn_ht, rule, packets, announced, done_msgs, module, trouble>>
  BY DEF Delete, tableVars, msgVars
<1>3. /\ cpu' \in [Cpu -> CpuState]
      /\ \/ Watched /\ cpu'[k].pc = "destroy_conn" /\ cpu'[k].ct = t
         \/ ~Watched /\ cpu'[k] = cpu[k]
      /\ \A j \in Cpu \ {k} : cpu'[j] = cpu[j]
  <2>1. CASE Watched
    <3> DEFINE s == [Idle EXCEPT !.pc = "destroy_conn", !.ct = t]
    <3>1. s \in CpuState /\ s.pc = "destroy_conn" /\ s.ct = t
      <4>1. Idle \in CpuState /\ "destroy_conn" \in Pc
        BY BoundAssumption DEF Idle, CpuState, Pc, EventPc, Mark
      <4>2. s \in CpuState
        BY <4>1 DEF CpuState
      <4>3. s.pc = "destroy_conn" /\ s.ct = t
        BY DEF Idle
      <4>4. QED
        BY <4>2, <4>3
    <3>2. cpu' = [cpu EXCEPT ![k] = s]
      BY <2>1 DEF Delete
    <3> HIDE DEF s
    <3>3. QED
      BY <2>1, <3>1, <3>2, CpuMoves DEF Inv
  <2>2. CASE ~Watched
    BY <2>2 DEF Delete, Inv, Shape
  <2>3. QED
    BY <2>1, <2>2
<1>4. At(k, "idle")
  BY DEF Delete
<1>5. \A u : Seen(u) => Seen(u)'
  BY <1>1 DEF Seen
<1>6. Shape'
  BY <1>1, <1>2, <1>3 DEF Inv, Shape
<1>7. HoldersOK'
  BY <1>1, <1>3, <1>5 DEF Inv, HoldersOK, HolderOK, Seen
<1>8. ObjectsOK'
  BY <1>2, <1>3, <1>4, <1>5 DEF Inv, ObjectsOK, At, Seen
<1>9. EventsPending'
  <2>1. (rule # NULL => Seen(rule.ct))'
    BY <1>2, <1>5 DEF Inv, EventsPending, Seen
  <2>2. TableFollowsConntrack'
    BY <1>1, <1>2, <1>3, <1>4
       DEF Inv, Shape, ObjectsOK, EventsPending, TableFollowsConntrack, At, Live, Seen, Watched, Untroubled
  <2>3. RuleFollowsConntrack'
    BY <1>1, <1>2, <1>3, <1>4
       DEF Inv, EventsPending, RuleFollowsConntrack, At, Live, Seen, Watched, Untroubled
  <2>4. QED
    BY <2>1, <2>2, <2>3 DEF EventsPending
<1>10. RuleThere'
  BY <1>2, <1>3, <1>4 DEF Inv, RuleThere, Untroubled, At
<1>11. QED
  BY <1>6, <1>7, <1>8, <1>9, <1>10 DEF Inv

\* What the destroy event takes from the table.
LEMMA DestroyMoves ==
    ASSUME Shape, NEW k \in Cpu, DestroyConn(k)
    PROVE  /\ cpu' \in [Cpu -> CpuState]
           /\ cpu'[k].pc = "destroy_rule" /\ cpu'[k].ct = cpu[k].ct
           /\ cpu'[k].offloaded <=> \E o \in fc_conn_ht : conn[o].offloaded
           /\ \A j \in Cpu \ {k} : cpu'[j] = cpu[j]
<1> DEFINE f == \E o \in fc_conn_ht : conn[o].offloaded
           s == [cpu[k] EXCEPT !.pc = "destroy_rule", !.offloaded = f]
<1>1. cpu[k] \in CpuState /\ "destroy_rule" \in Pc /\ f \in BOOLEAN
  BY DEF Shape, Pc, EventPc
<1>2. cpu' = [cpu EXCEPT ![k] = s]
  BY DEF DestroyConn
<1> HIDE DEF f
<1>3. s \in CpuState /\ s.pc = "destroy_rule" /\ s.ct = cpu[k].ct /\ s.offloaded = f
  BY <1>1 DEF CpuState
<1> HIDE DEF s
<1>4. cpu' \in [Cpu -> CpuState] /\ cpu'[k] = s /\ \A j \in Cpu \ {k} : cpu'[j] = cpu[j]
  BY <1>2, <1>3, CpuMoves
<1>5. QED
  BY <1>3, <1>4 DEF f

\* The destroy event keeps the invariant.
LEMMA DestroyConnStep ==
    ASSUME Inv, NEW k \in Cpu, DestroyConn(k)
    PROVE  Inv'
<1>1. UNCHANGED <<ct, conn, rule, packets, announced, done_msgs, module, trouble>>
  BY DEF DestroyConn, msgVars
<1>2. fc_conn_ht' = {} /\ allocated' = allocated \ fc_conn_ht /\ At(k, "destroy_conn")
  BY DEF DestroyConn
<1>3. /\ cpu' \in [Cpu -> CpuState]
      /\ cpu'[k].pc = "destroy_rule" /\ cpu'[k].ct = cpu[k].ct
      /\ \A j \in Cpu \ {k} : cpu'[j] = cpu[j]
  BY DestroyMoves DEF Inv
<1>4. Shape'
  BY <1>1, <1>2, <1>3 DEF Inv, Shape
<1>5. HoldersOK'
  BY <1>1, <1>2, <1>3 DEF Inv, HoldersOK, HolderOK, Seen, At
<1>6. ObjectsOK'
  BY <1>1, <1>2, <1>3 DEF Inv, Shape, ObjectsOK, At, Seen
<1>7. EventsPending'
  <2>1. TableFollowsConntrack'
    BY <1>2 DEF TableFollowsConntrack
  <2>2. RuleFollowsConntrack'
    BY <1>1, <1>2, <1>3 DEF Inv, EventsPending, RuleFollowsConntrack, At, Live, Watched, Untroubled
  <2>3. QED
    BY <1>1, <2>1, <2>2 DEF Inv, EventsPending, Seen
<1>8. RuleThere'
  BY <1>1, <1>2, <1>3 DEF Inv, RuleThere, Untroubled
<1>9. QED
  BY <1>4, <1>5, <1>6, <1>7, <1>8 DEF Inv

\* Whoever relies on the rule makes the event that takes it away late: an
\* object in the table, one about to be added, or a CPU that uses one.
LEMMA DestroyRuleStep ==
    ASSUME Inv, NEW k \in Cpu, DestroyRule(k)
    PROVE  Inv'
<1>1. UNCHANGED <<ct, conn, allocated, fc_conn_ht, packets, announced, done_msgs, module>>
  BY DEF DestroyRule, tableVars, msgVars
<1>2. rule' = NULL /\ At(k, "destroy_rule")
  BY DEF DestroyRule
<1>3. trouble' \subseteq Trouble /\ trouble \subseteq trouble'
  BY DEF Inv, Shape, DestroyRule, Note, Trouble
<1>4. /\ cpu' \in [Cpu -> CpuState]
      /\ \/ cpu'[k].pc = "idle"
         \/ cpu'[k].pc = "done" /\ cpu'[k].ct = cpu[k].ct /\ cpu'[k].offloaded
      /\ \A j \in Cpu \ {k} : cpu'[j] = cpu[j]
  <2>1. "done" \in Pc
    BY DEF Pc, EventPc
  <2>2. CASE cpu[k].offloaded
    BY <2>1, <2>2, GoToMoves DEF Inv, DestroyRule
  <2>3. CASE ~cpu[k].offloaded
    BY <2>3, ReturnMoves DEF Inv, DestroyRule
  <2>4. QED
    BY <2>2, <2>3
<1>5. Shape'
  BY <1>1, <1>2, <1>3, <1>4 DEF Inv, Shape
<1>6. HoldersOK'
  BY <1>1, <1>2, <1>4 DEF Inv, HoldersOK, HolderOK, Seen, At
<1>7. ObjectsOK'
  BY <1>1, <1>2, <1>4 DEF Inv, ObjectsOK, At, Seen
<1>8. EventsPending'
  <2>1. TableFollowsConntrack'
    BY <1>1, <1>2, <1>3, <1>4 DEF Inv, EventsPending, TableFollowsConntrack, At, Live, Watched, Untroubled
  <2>2. RuleFollowsConntrack'
    BY <1>2 DEF RuleFollowsConntrack
  <2>3. QED
    BY <1>2, <2>1, <2>2 DEF EventsPending
<1>9. RuleThere'
  <2>1. SUFFICES ASSUME Untroubled({"flushed", "destroyed_late"})'
                 PROVE  /\ \A o \in allocated : ~conn[o].offloaded
                        /\ \A j \in Cpu : cpu[j].pc \notin {"announce", "set_offloaded"}
    BY <1>1, <1>2, <1>4 DEF RuleThere
  <2>2. Untroubled({"flushed", "destroyed_late"})
    BY <1>3, <2>1 DEF Untroubled
  <2>3. CASE rule = NULL
    BY <2>2, <2>3 DEF Inv, RuleThere
  <2>4. CASE rule # NULL
    <3>1. fc_conn_ht = {} /\ \A o \in Obj : ~InUse(o)
      BY <2>1, <2>4 DEF DestroyRule, Note, Untroubled
    <3>2. ASSUME NEW j \in Cpu, cpu[j].conn \in Obj
          PROVE  cpu[j].pc \notin PostRoutingPc
      BY <3>1, <3>2 DEF InUse
    <3>3. allocated = {}
      BY <3>1, <3>2 DEF Inv, Shape, ObjectsOK, At, PostRoutingPc
    <3>4. \A j \in Cpu : cpu[j].pc \notin {"announce", "set_offloaded"}
      BY <3>2 DEF Inv, HoldersOK, HolderOK, PostRoutingPc
    <3>5. QED
      BY <3>3, <3>4
  <2>5. QED
    BY <2>3, <2>4
<1>10. QED
  BY <1>5, <1>6, <1>7, <1>8, <1>9 DEF Inv

-----------------------------------------------------------------------------
(***************************************************************************)
(* Conntrack, requests, device events and the unloading of the module.     *)
(***************************************************************************)
LEMMA ConntrackStep ==
    ASSUME Inv, NEW t \in Ct, Confirm(t) \/ Close(t) \/ SetMark(t)
    PROVE  Inv'
<1>1. UNCHANGED <<conn, allocated, fc_conn_ht, rule, cpu, packets, announced, done_msgs, module, trouble>>
  BY DEF Confirm, Close, SetMark, tableVars, msgVars
<1>2. /\ ct' \in [Ct -> Entry]
      /\ \A u \in Ct : /\ Seen(u) => Seen(u)' /\ Live(u)' = Live(u)
                       /\ Live(u) => Live(u)'
  <2>1. CASE Confirm(t)
    BY <2>1 DEF Inv, Shape, Entry, Confirm, Seen, Live
  <2>2. CASE Close(t)
    BY <2>2 DEF Inv, Shape, Entry, Close, Seen, Live
  <2>3. CASE SetMark(t)
    <3>1. ct[t] \in Entry /\ ct[t].mark + 1 \in Mark
      BY <2>3, BoundAssumption DEF Inv, Shape, Entry, SetMark, Mark
    <3>2. ct' \in [Ct -> Entry]
      BY <2>3, <3>1 DEF Inv, Shape, Entry, SetMark
    <3>3. \A u \in Ct : ct'[u].state = ct[u].state
      BY <2>3, <3>1 DEF Inv, Shape, Entry, SetMark
    <3>4. QED
      BY <3>2, <3>3 DEF Seen, Live
  <2>4. QED
    BY <2>1, <2>2, <2>3
<1>3. Shape'
  BY <1>1, <1>2 DEF Inv, Shape
<1>4. HoldersOK'
  BY <1>1, <1>2 DEF Inv, HoldersOK, HolderOK, Seen
<1>5. ObjectsOK'
  BY <1>1, <1>2 DEF Inv, ObjectsOK, At, Seen
<1>6. EventsPending'
  BY <1>1, <1>2 DEF Inv, Shape, ObjectsOK, EventsPending, TableFollowsConntrack, RuleFollowsConntrack,
                    At, Live, Seen, Watched, Untroubled
<1>7. RuleThere'
  BY <1>1 DEF Inv, RuleThere, Untroubled
<1>8. QED
  BY <1>3, <1>4, <1>5, <1>6, <1>7 DEF Inv

\* A request for an offload keeps the invariant.
LEMMA RequestStep ==
    ASSUME Inv, OffloadRequest
    PROVE  Inv'
<1>1. \A c \in Connection : /\ [c EXCEPT !.offload_permit = TRUE] \in Connection
                            /\ [c EXCEPT !.offload_permit = TRUE].ct = c.ct
                            /\ [c EXCEPT !.offload_permit = TRUE].offloaded = c.offloaded
  BY DEF Connection
<1>2. conn' \in [Obj -> Connection] /\ SameObjects
  BY <1>1 DEF Inv, Shape, OffloadRequest, SameObjects
<1>3. Shape' /\ cpu' = cpu
  BY <1>2 DEF Inv, Shape, OffloadRequest, msgVars
<1>4. SameEntries /\ SameRule /\ trouble' = trouble /\ (Watched' => Watched)
  BY DEF OffloadRequest, SameEntries, SameRule, Seen, Live, Watched
<1>5. QED
  BY <1>2, <1>3, <1>4, QuietStep

\* The rule goes without the table being told: flushed says so.
LEMMA FlushStep ==
    ASSUME Inv, DestroyAllRules \/ ExitDestroy
    PROVE  Inv'
<1>1. UNCHANGED <<ct, conn, allocated, fc_conn_ht, cpu, packets, announced, done_msgs>>
  BY DEF DestroyAllRules, ExitDestroy, tableVars, msgVars
<1>2. /\ rule' = NULL /\ (rule # NULL => "flushed" \in trouble')
      /\ trouble' \subseteq Trouble /\ trouble \subseteq trouble'
  BY DEF Inv, Shape, DestroyAllRules, ExitDestroy, Note, Trouble
<1>3. module' \in {"loaded", "destroy", "events", "hooks", "gone"} /\ (Watched' => Watched)
  BY DEF Inv, Shape, DestroyAllRules, ExitDestroy, Watched
<1>4. Shape'
  BY <1>1, <1>2, <1>3 DEF Inv, Shape
<1>5. HoldersOK'
  BY <1>1 DEF Inv, HoldersOK, HolderOK, Seen
<1>6. ObjectsOK'
  BY <1>1 DEF Inv, ObjectsOK, At, Seen
<1>7. EventsPending'
  BY <1>1, <1>2, <1>3 DEF Inv, EventsPending, TableFollowsConntrack, RuleFollowsConntrack, At, Live, Untroubled
<1>8. RuleThere'
  <2>1. CASE rule = NULL
    BY <1>1, <1>2, <2>1 DEF Inv, RuleThere, Untroubled
  <2>2. CASE rule # NULL
    BY <1>2, <2>2 DEF RuleThere, Untroubled
  <2>3. QED
    BY <2>1, <2>2
<1>9. QED
  BY <1>4, <1>5, <1>6, <1>7, <1>8 DEF Inv

\* Leaving the module keeps the invariant.
LEMMA ExitStep ==
    ASSUME Inv, ExitBegin \/ ExitEvents \/ ExitHooks
    PROVE  Inv'
<1>1. Shape' /\ cpu' = cpu
  BY DEF Inv, Shape, ExitBegin, ExitEvents, ExitHooks, tableVars, msgVars
<1>2. SameEntries /\ SameObjects /\ SameRule /\ trouble' = trouble /\ (Watched' => Watched)
  BY DEF ExitBegin, ExitEvents, ExitHooks, SameEntries, SameObjects, SameRule, Seen, Live, Watched, tableVars
<1>3. QED
  BY <1>1, <1>2, QuietStep

-----------------------------------------------------------------------------
\* The invariant holds at first.
LEMMA InvInit == Init => Inv
<1> SUFFICES ASSUME Init PROVE Inv
  OBVIOUS
<1>1. ct \in [Ct -> Entry]
  BY BoundAssumption DEF Init, Entry, Mark
<1>2. conn \in [Obj -> Connection]
  <2>1. NoConnection \in Connection
    BY BoundAssumption DEF NoConnection, Connection, Mark
  <2>2. QED
    BY <2>1 DEF Init
<1>3. cpu \in [Cpu -> CpuState] /\ \A k \in Cpu : cpu[k].pc = "idle"
  <2>1. Idle \in CpuState /\ Idle.pc = "idle"
    BY BoundAssumption DEF Idle, CpuState, Pc, Mark
  <2>2. QED
    BY <2>1 DEF Init
<1>4. Shape
  BY <1>1, <1>2, <1>3, BoundAssumption DEF Init, Shape, Trouble
<1>5. HoldersOK
  BY <1>3 DEF HoldersOK, HolderOK
<1>6. ObjectsOK
  BY <1>3 DEF Init, ObjectsOK, At
<1>7. EventsPending /\ RuleThere
  BY <1>3 DEF Init, EventsPending, TableFollowsConntrack, RuleFollowsConntrack, RuleThere
<1>8. QED
  BY <1>4, <1>5, <1>6, <1>7 DEF Inv

\* Every step keeps the invariant.
LEMMA InvStep == Inv /\ [Next]_vars => Inv'
<1> SUFFICES ASSUME Inv, [Next]_vars PROVE Inv'
  OBVIOUS
<1>1. CASE \E t \in Ct : Confirm(t) \/ Close(t) \/ SetMark(t)
  BY <1>1, ConntrackStep
<1>2. CASE \E k \in Cpu : Hook(k)
  BY <1>2, LookupStep, CreateRuleStep, HookQuietStep, SetOffloadedStep, AllocStep, AddConnStep DEF Hook
<1>3. CASE \E k \in Cpu : ConntrackEvent(k)
  BY <1>3, MarkStep, DestroyConnStep, DestroyRuleStep DEF ConntrackEvent
<1>4. CASE \E k \in Cpu, t \in Ct : PostRouting(k, t) \/ MarkEvent(k, t) \/ Delete(k, t)
  BY <1>4, PostRoutingStep, MarkEventStep, DeleteStep
<1>5. CASE OffloadRequest \/ DestroyAllRules \/ ExitBegin \/ ExitDestroy \/ ExitEvents \/ ExitHooks
  BY <1>5, RequestStep, FlushStep, ExitStep
<1>6. CASE UNCHANGED vars
  <2>1. Shape' /\ cpu' = cpu
    BY <1>6 DEF Inv, Shape, vars
  <2>2. SameEntries /\ SameObjects /\ SameRule /\ trouble' = trouble /\ (Watched' => Watched)
    BY <1>6 DEF vars, SameEntries, SameObjects, SameRule, Seen, Live, Watched
  <2>3. QED
    BY <2>1, <2>2, QuietStep
<1>7. QED
  BY <1>1, <1>2, <1>3, <1>4, <1>5, <1>6 DEF Next

\* The invariant always holds.
LEMMA Invariance == Spec => []Inv
BY InvInit, InvStep, PTL DEF Spec

-----------------------------------------------------------------------------
(***************************************************************************)
(* The messages are counted: what one CPU does changes each count by what  *)
(* it is about to send itself.                                             *)
(***************************************************************************)
Num(condition) == IF condition THEN 1 ELSE 0

\* Adding or removing one element changes the size of a finite set by one.
LEMMA CountMoves ==
    ASSUME NEW S, NEW T, NEW x, IsFiniteSet(S), \A y : y # x => (y \in S <=> y \in T)
    PROVE  /\ Cardinality(S) \in Nat /\ Cardinality(T) \in Nat
           /\ Cardinality(T) = Cardinality(S) - Num(x \in S) + Num(x \in T)
<1> DEFINE U == S \ {x}
<1>1. IsFiniteSet(U) /\ Cardinality(U) = Cardinality(S) - Num(x \in S)
  BY FS_RemoveElement, FS_CardinalityType DEF Num
<1>2. Cardinality(S) \in Nat /\ Cardinality(U) \in Nat
  BY <1>1, FS_CardinalityType
<1>3. Cardinality(T) = Cardinality(U) + Num(x \in T)
  <2>1. CASE x \in T
    <3>1. T = U \cup {x} /\ x \notin U
      BY <2>1
    <3>2. QED
      BY <1>1, <2>1, <3>1, FS_AddElement DEF Num
  <2>2. CASE x \notin T
    <3>1. T = U
      BY <2>2
    <3>2. QED
      BY <1>2, <2>2, <3>1 DEF Num
  <2>3. QED
    BY <2>1, <2>2
<1>4. QED
  BY <1>1, <1>2, <1>3 DEF Num

\* A step of one CPU changes the number at a place by that CPU.
LEMMA CpuCount ==
    ASSUME NEW CONSTANT pcs, NEW k \in Cpu, \A j \in Cpu \ {k} : cpu'[j] = cpu[j]
    PROVE  /\ Cardinality(CpusAt(pcs)) \in Nat /\ Cardinality(CpusAt(pcs)') \in Nat
           /\ Cardinality(CpusAt(pcs)') =
                 Cardinality(CpusAt(pcs)) - Num(cpu[k].pc \in pcs) + Num(cpu'[k].pc \in pcs)
<1>1. IsFiniteSet(CpusAt(pcs))
  BY FiniteAssumption, FS_Subset DEF CpusAt
<1>2. \A j : j # k => (j \in CpusAt(pcs) <=> j \in CpusAt(pcs)')
  BY DEF CpusAt
<1>3. (k \in CpusAt(pcs) <=> cpu[k].pc \in pcs) /\ (k \in CpusAt(pcs)' <=> cpu'[k].pc \in pcs)
  BY DEF CpusAt
<1>4. QED
  BY <1>1, <1>2, <1>3, CountMoves DEF Num

Owes(k) == cpu[k].pc \in {"destroy_rule", "done"} /\ cpu[k].offloaded

\* And the number that owe a DONE.
LEMMA OwesCount ==
    ASSUME NEW k \in Cpu, \A j \in Cpu \ {k} : cpu'[j] = cpu[j]
    PROVE  /\ Cardinality(OwesDone) \in Nat /\ Cardinality(OwesDone') \in Nat
           /\ Cardinality(OwesDone') = Cardinality(OwesDone) - Num(Owes(k)) + Num(Owes(k)')
<1>1. IsFiniteSet(OwesDone)
  BY FiniteAssumption, FS_Subset DEF OwesDone
<1>2. \A j : j # k => (j \in OwesDone <=> j \in OwesDone')
  BY DEF OwesDone
<1>3. (k \in OwesDone <=> Owes(k)) /\ (k \in OwesDone' <=> Owes(k)')
  BY DEF OwesDone, Owes
<1>4. QED
  BY <1>1, <1>2, <1>3, CountMoves DEF Num

\* What is counted is finite.
LEMMA CountTypes ==
    ASSUME Shape
    PROVE  /\ IsFiniteSet(Deleted) /\ Cardinality(Deleted) \in Nat
           /\ IsFiniteSet(OffloadedObjects) /\ Cardinality(OffloadedObjects) \in Nat
BY FiniteAssumption, FS_Subset, FS_CardinalityType DEF Shape, Deleted, OffloadedObjects

\* A step in which CPU k moves.
LEMMA CountedMove ==
    ASSUME Shape, Shape', MessagesCounted, NEW k \in Cpu, \A j \in Cpu \ {k} : cpu'[j] = cpu[j],
           announced' + Num(cpu'[k].pc \in {"lookup", "create", "announce"}) - packets'
              <= announced + Num(cpu[k].pc \in {"lookup", "create", "announce"}) - packets,
           done_msgs' + Num(cpu'[k].pc \in {"destroy_conn", "destroy_rule", "done"}) - Cardinality(Deleted')
              <= done_msgs + Num(cpu[k].pc \in {"destroy_conn", "destroy_rule", "done"}) - Cardinality(Deleted),
           done_msgs' + Num(Owes(k)') + Num(cpu'[k].pc \in {"set_offloaded"})
                 + Cardinality(OffloadedObjects') - announced'
              <= done_msgs + Num(Owes(k)) + Num(cpu[k].pc \in {"set_offloaded"})
                 + Cardinality(OffloadedObjects) - announced
    PROVE  MessagesCounted'
<1> DEFINE A == {"lookup", "create", "announce"}
           D == {"destroy_conn", "destroy_rule", "done"}
           F == {"set_offloaded"}
           nA == Cardinality(CpusAt(A))
           nD == Cardinality(CpusAt(D))
           nF == Cardinality(CpusAt(F))
           nW == Cardinality(OwesDone)
           nO == Cardinality(OffloadedObjects)
           nX == Cardinality(Deleted)
<1>1. nA \in Nat /\ nA' \in Nat /\ nA' = nA - Num(cpu[k].pc \in A) + Num(cpu'[k].pc \in A)
  BY CpuCount
<1>2. nD \in Nat /\ nD' \in Nat /\ nD' = nD - Num(cpu[k].pc \in D) + Num(cpu'[k].pc \in D)
  BY CpuCount
<1>3. nF \in Nat /\ nF' \in Nat /\ nF' = nF - Num(cpu[k].pc \in F) + Num(cpu'[k].pc \in F)
  BY CpuCount
<1>4. nW \in Nat /\ nW' \in Nat /\ nW' = nW - Num(Owes(k)) + Num(Owes(k)')
  BY OwesCount
<1>5. nO \in Nat /\ nO' \in Nat /\ nX \in Nat /\ nX' \in Nat
  <2>1. nO \in Nat /\ nX \in Nat
    BY CountTypes
  <2>2. (nO \in Nat /\ nX \in Nat)'
    BY FiniteAssumption, FS_Subset, FS_CardinalityType DEF Shape, Deleted, OffloadedObjects
  <2>3. QED
    BY <2>1, <2>2
<1>6. /\ announced \in Int /\ done_msgs \in Int /\ packets \in Int
      /\ announced' \in Int /\ done_msgs' \in Int /\ packets' \in Int
  BY BoundAssumption DEF Shape
<1>7. \A b : Num(b) \in Int
  BY DEF Num
<1>8. (announced + nA <= packets) /\ (done_msgs + nD <= nX) /\ (done_msgs + nW + nF + nO <= announced)
  BY DEF MessagesCounted
<1>9. /\ announced' + Num(cpu'[k].pc \in A) - packets' <= announced + Num(cpu[k].pc \in A) - packets
      /\ done_msgs' + Num(cpu'[k].pc \in D) - nX' <= done_msgs + Num(cpu[k].pc \in D) - nX
      /\ done_msgs' + Num(Owes(k)') + Num(cpu'[k].pc \in F) + nO' - announced'
            <= done_msgs + Num(Owes(k)) + Num(cpu[k].pc \in F) + nO - announced
  OBVIOUS
<1> HIDE DEF A, D, F, nA, nD, nF, nW, nO, nX
<1>10. announced' + nA' <= packets'
  BY <1>1, <1>6, <1>7, <1>8, <1>9
<1>11. done_msgs' + nD' <= nX'
  BY <1>2, <1>5, <1>6, <1>7, <1>8, <1>9
<1>12. done_msgs' + nW' + nF' + nO' <= announced'
  BY <1>3, <1>4, <1>5, <1>6, <1>7, <1>8, <1>9
<1>13. QED
  BY <1>10, <1>11, <1>12 DEF MessagesCounted, A, D, F, nA, nD, nF, nW, nO, nX

\* A step in which no CPU moves and nothing that is counted changes.
LEMMA CountedFrame ==
    ASSUME MessagesCounted, cpu' = cpu, announced' = announced, done_msgs' = done_msgs,
           packets' = packets, OffloadedObjects' = OffloadedObjects, Deleted' = Deleted
    PROVE  MessagesCounted'
BY DEF MessagesCounted, CpusAt, OwesDone

\* A step that sets no flag leaves the objects with the flag.
LEMMA SameOffloaded ==
    ASSUME Shape, allocated' = allocated, \A o \in Obj : conn'[o].offloaded = conn[o].offloaded
    PROVE  OffloadedObjects' = OffloadedObjects
BY DEF Shape, OffloadedObjects

\* A packet in post_routing keeps the messages counted.
LEMMA HookCounted ==
    ASSUME Inv, Inv', MessagesCounted, NEW k \in Cpu, Hook(k)
    PROVE  MessagesCounted'
<1>1. Shape /\ Shape' /\ Cardinality(OffloadedObjects) \in Nat /\ Cardinality(Deleted) \in Nat
  BY CountTypes DEF Inv
<1>2. packets \in Int /\ announced \in Int /\ done_msgs \in Int
  BY BoundAssumption DEF Inv, Shape
<1>3. UNCHANGED <<ct, packets, done_msgs>> /\ Deleted' = Deleted
  BY DEF Hook, Lookup, CreateRule, Announce, SetOffloaded, UpdateRule, Alloc, AddConn, msgVars, Deleted
<1>4. cpu[k] \in CpuState /\ \A pc \in Pc : [cpu[k] EXCEPT !.pc = pc].pc = pc
  BY DEF Inv, Shape, CpuState
<1>5. {"create", "announce", "set_offloaded", "update", "alloc", "add"} \subseteq Pc
  BY DEF Pc, PostRoutingPc
<1>6. CASE Lookup(k)
  <2>1. /\ cpu[k].pc = "lookup" /\ cpu'[k].pc \in {"create", "update", "alloc", "idle"}
        /\ \A j \in Cpu \ {k} : cpu'[j] = cpu[j]
    BY <1>6, LookupMoves DEF Lookup, At
  <2>2. announced' = announced /\ OffloadedObjects' = OffloadedObjects
    <3>1. CASE UNCHANGED tableVars
      BY <1>6, <3>1 DEF Lookup, tableVars, msgVars, OffloadedObjects
    <3>2. CASE \E o \in fc_conn_ht : Found(k, o)
      <4>1. PICK o \in fc_conn_ht : conn' = [conn EXCEPT ![o] = Hit(@)] /\ allocated' = allocated
        BY <3>2 DEF Found
      <4>2. o \in Obj /\ conn[o] \in Connection
        BY DEF Inv, Shape
      <4>3. \A p \in Obj : conn'[p].offloaded = conn[p].offloaded
        BY <4>1, <4>2, HitKeeps DEF Inv, Shape
      <4>4. QED
        BY <1>1, <1>6, <4>1, <4>3, SameOffloaded DEF Lookup, msgVars
    <3>3. QED
      BY <1>6, <3>1, <3>2 DEF Lookup
  <2>3. QED
    BY <1>1, <1>2, <1>3, <2>1, <2>2, CountedMove DEF Num, Owes
<1>7. CASE CreateRule(k) \/ UpdateRule(k)
  <2>1. /\ \/ cpu[k].pc = "create" /\ cpu'[k].pc \in {"announce", "idle"}
           \/ cpu[k].pc = "update" /\ cpu'[k].pc = "idle"
        /\ \A j \in Cpu \ {k} : cpu'[j] = cpu[j]
    BY <1>1, <1>5, <1>7, GoToMoves, ReturnMoves DEF CreateRule, UpdateRule, At
  <2>2. announced' = announced /\ OffloadedObjects' = OffloadedObjects
    BY <1>7 DEF CreateRule, UpdateRule, tableVars, msgVars, OffloadedObjects
  <2>3. QED
    BY <1>1, <1>2, <1>3, <2>1, <2>2, CountedMove DEF Num, Owes
<1>8. CASE Announce(k)
  <2>1. /\ cpu[k].pc = "announce" /\ cpu'[k].pc = "set_offloaded"
        /\ \A j \in Cpu \ {k} : cpu'[j] = cpu[j]
    BY <1>1, <1>5, <1>8, GoToMoves DEF Announce, At
  <2>2. announced' = announced + 1 /\ OffloadedObjects' = OffloadedObjects
    BY <1>8 DEF Announce, tableVars, OffloadedObjects
  <2>3. QED
    BY <1>1, <1>2, <1>3, <2>1, <2>2, CountedMove DEF Num, Owes
<1>9. CASE SetOffloaded(k)
  <2>1. /\ cpu[k].pc = "set_offloaded" /\ cpu'[k].pc = "idle"
        /\ \A j \in Cpu \ {k} : cpu'[j] = cpu[j]
    BY <1>1, <1>9, ReturnMoves DEF SetOffloaded, At
  <2>2. announced' = announced
    BY <1>9 DEF SetOffloaded, msgVars
  <2>3. /\ Cardinality(OffloadedObjects') \in Nat
        /\ Cardinality(OffloadedObjects') <= Cardinality(OffloadedObjects) + 1
    <3> DEFINE o == cpu[k].conn
    <3>1. /\ conn' = [conn EXCEPT ![o] = [conn[o] EXCEPT !.offloaded = TRUE]]
          /\ allocated' = allocated
      BY <1>9 DEF SetOffloaded
    <3>2. \A p : p # o => (p \in OffloadedObjects <=> p \in OffloadedObjects')
      BY <3>1 DEF Inv, Shape, OffloadedObjects
    <3> HIDE DEF o
    <3>3. IsFiniteSet(OffloadedObjects)
      BY <1>1, CountTypes
    <3>4. /\ Cardinality(OffloadedObjects') \in Nat
          /\ Cardinality(OffloadedObjects') =
                Cardinality(OffloadedObjects) - Num(o \in OffloadedObjects) + Num(o \in OffloadedObjects')
      BY <3>2, <3>3, CountMoves
    <3>5. QED
      BY <1>1, <3>4 DEF Num
  <2>4. QED
    BY <1>1, <1>2, <1>3, <2>1, <2>2, <2>3, CountedMove DEF Num, Owes
<1>10. CASE Alloc(k)
  <2>1. /\ cpu[k].pc = "alloc" /\ cpu'[k].pc \in {"add", "idle"}
        /\ \A j \in Cpu \ {k} : cpu'[j] = cpu[j]
    <3>1. CASE Return(k)
      BY <1>1, <1>10, <3>1, ReturnMoves DEF Alloc, At
    <3>2. CASE \E o \in Obj : cpu' = [cpu EXCEPT ![k].pc = "add", ![k].conn = o]
      BY <1>10, <3>2 DEF Alloc, At, Inv, Shape, CpuState
    <3>3. QED
      BY <1>10, <3>1, <3>2 DEF Alloc
  <2>2. announced' = announced
    BY <1>10 DEF Alloc, msgVars
  <2>3. OffloadedObjects' = OffloadedObjects
    <3>1. CASE UNCHANGED <<conn, allocated>>
      BY <3>1 DEF OffloadedObjects
    <3>2. CASE \E o \in Obj \ allocated :
                  /\ conn' = [conn EXCEPT ![o] = [NoConnection EXCEPT !.ct = cpu[k].ct, !.mark = cpu[k].mark]]
                  /\ allocated' = allocated \cup {o}
      BY <3>2 DEF Inv, Shape, OffloadedObjects, NoConnection
    <3>3. QED
      BY <1>10, <3>1, <3>2 DEF Alloc
  <2>4. QED
    BY <1>1, <1>2, <1>3, <2>1, <2>2, <2>3, CountedMove DEF Num, Owes
<1>11. CASE AddConn(k)
  <2>1. /\ cpu[k].pc = "add" /\ cpu'[k].pc = "idle"
        /\ \A j \in Cpu \ {k} : cpu'[j] = cpu[j]
    BY <1>1, <1>11, ReturnMoves DEF AddConn, At
  <2>2. announced' = announced
    BY <1>11 DEF AddConn, msgVars
  <2>3. /\ Cardinality(OffloadedObjects') \in Nat
        /\ Cardinality(OffloadedObjects') <= Cardinality(OffloadedObjects)
    <3>1. OffloadedObjects' \subseteq OffloadedObjects
      BY <1>11 DEF AddConn, OffloadedObjects
    <3>2. QED
      BY <1>1, <3>1, CountTypes, FS_Subset, FS_CardinalityType
  <2>4. QED
    BY <1>1, <1>2, <1>3, <2>1, <2>2, <2>3, CountedMove DEF Num, Owes
<1>12. QED
  BY <1>6, <1>7, <1>8, <1>9, <1>10, <1>11 DEF Hook

\* A conntrack event keeps the messages counted.
LEMMA EventCounted ==
    ASSUME Inv, Inv', MessagesCounted, NEW k \in Cpu, ConntrackEvent(k)
    PROVE  MessagesCounted'
<1>1. Shape /\ Shape' /\ Cardinality(OffloadedObjects) \in Nat /\ Cardinality(Deleted) \in Nat
  BY CountTypes DEF Inv
<1>2. packets \in Int /\ announced \in Int /\ done_msgs \in Int
  BY BoundAssumption DEF Inv, Shape
<1>3. UNCHANGED <<ct, packets, announced>> /\ Deleted' = Deleted
  BY DEF ConntrackEvent, MarkRule, MarkConn, DestroyConn, DestroyRule, SendDone, msgVars, Deleted
<1>4. {"mark_conn", "done"} \subseteq Pc
  BY DEF Pc, EventPc
<1>5. CASE MarkRule(k) \/ MarkConn(k)
  <2>1. /\ cpu[k].pc \in {"mark_rule", "mark_conn"} /\ cpu'[k].pc \in {"mark_conn", "idle"}
        /\ \A j \in Cpu \ {k} : cpu'[j] = cpu[j]
    BY <1>1, <1>4, <1>5, GoToMoves, ReturnMoves DEF MarkRule, MarkConn, At
  <2>2. \A c \in Connection : [c EXCEPT !.mark = cpu[k].mark].offloaded = c.offloaded
    BY DEF Connection
  <2>3. allocated' = allocated /\ \A o \in Obj : conn'[o].offloaded = conn[o].offloaded
    BY <1>5, <2>2 DEF Inv, Shape, MarkRule, MarkConn, tableVars
  <2>4. done_msgs' = done_msgs /\ OffloadedObjects' = OffloadedObjects
    BY <1>1, <1>5, <2>3, SameOffloaded DEF MarkRule, MarkConn, msgVars
  <2>5. QED
    BY <1>1, <1>2, <1>3, <2>1, <2>4, CountedMove DEF Num, Owes
<1>6. CASE DestroyConn(k)
  <2>1. /\ cpu[k].pc = "destroy_conn" /\ cpu'[k].pc = "destroy_rule"
        /\ cpu'[k].offloaded <=> \E o \in fc_conn_ht : conn[o].offloaded
        /\ \A j \in Cpu \ {k} : cpu'[j] = cpu[j]
    BY <1>1, <1>6, DestroyMoves DEF DestroyConn, At
  <2>2. done_msgs' = done_msgs
    BY <1>6 DEF DestroyConn, msgVars
  <2>3. /\ OffloadedObjects' \subseteq OffloadedObjects
        /\ (\E o \in fc_conn_ht : conn[o].offloaded) => OffloadedObjects' # OffloadedObjects
    BY <1>6 DEF Inv, Shape, DestroyConn, OffloadedObjects
  <2>4. /\ IsFiniteSet(OffloadedObjects') /\ Cardinality(OffloadedObjects') \in Nat
        /\ Cardinality(OffloadedObjects') <= Cardinality(OffloadedObjects)
        /\ Cardinality(OffloadedObjects') = Cardinality(OffloadedObjects) => OffloadedObjects' = OffloadedObjects
    BY <1>1, <2>3, CountTypes, FS_Subset, FS_CardinalityType
  <2>5. Cardinality(OffloadedObjects') + Num(\E o \in fc_conn_ht : conn[o].offloaded)
           <= Cardinality(OffloadedObjects)
    BY <1>1, <2>3, <2>4 DEF Num
  <2>6. Num(Owes(k)') = Num(\E o \in fc_conn_ht : conn[o].offloaded) /\ Num(Owes(k)) = 0
    BY <2>1 DEF Num, Owes
  <2>7. QED
    BY <1>1, <1>2, <1>3, <2>1, <2>2, <2>4, <2>5, <2>6, CountedMove DEF Num
<1>7. CASE DestroyRule(k) \/ SendDone(k)
  <2>1. OffloadedObjects' = OffloadedObjects
    BY <1>7 DEF DestroyRule, SendDone, tableVars, OffloadedObjects
  <2>2. CASE DestroyRule(k)
    <3>1. /\ cpu[k].pc = "destroy_rule"
          /\ \/ cpu'[k].pc = "idle"
             \/ cpu'[k].pc = "done" /\ cpu[k].offloaded
          /\ \A j \in Cpu \ {k} : cpu'[j] = cpu[j]
      BY <1>1, <1>4, <2>2, GoToMoves, ReturnMoves DEF DestroyRule, At
    <3>2. done_msgs' = done_msgs
      BY <2>2 DEF DestroyRule, msgVars
    <3>3. QED
      BY <1>1, <1>2, <1>3, <2>1, <3>1, <3>2, CountedMove DEF Num, Owes
  <2>3. CASE SendDone(k)
    <3>1. /\ cpu[k].pc = "done" /\ cpu[k].offloaded /\ cpu'[k].pc = "idle"
          /\ \A j \in Cpu \ {k} : cpu'[j] = cpu[j]
      BY <1>1, <2>3, ReturnMoves DEF Inv, HoldersOK, HolderOK, SendDone, At
    <3>2. done_msgs' = done_msgs + 1 \/ done_msgs' = done_msgs
      BY <2>3 DEF SendDone
    <3>3. QED
      BY <1>1, <1>2, <1>3, <2>1, <3>1, <3>2, CountedMove DEF Num, Owes
  <2>4. QED
    BY <1>7, <2>2, <2>3
<1>8. QED
  BY <1>5, <1>6, <1>7 DEF ConntrackEvent

\* A CPU that enters keeps the messages counted.
LEMMA EnterCounted ==
    ASSUME Inv, Inv', MessagesCounted, NEW k \in Cpu, NEW t \in Ct,
           PostRouting(k, t) \/ MarkEvent(k, t) \/ Delete(k, t)
    PROVE  MessagesCounted'
<1>1. Shape /\ Shape' /\ Cardinality(OffloadedObjects) \in Nat /\ Cardinality(Deleted) \in Nat
  BY CountTypes DEF Inv
<1>2. packets \in Int /\ announced \in Int /\ done_msgs \in Int
  BY BoundAssumption DEF Inv, Shape
<1>3. UNCHANGED <<announced, done_msgs>> /\ OffloadedObjects' = OffloadedObjects /\ cpu[k].pc = "idle"
  BY DEF PostRouting, MarkEvent, Delete, tableVars, msgVars, OffloadedObjects, At
<1>4. \A j \in Cpu \ {k} : cpu'[j] = cpu[j]
  BY DEF PostRouting, MarkEvent, Delete, Inv, Shape
<1>5. CASE PostRouting(k, t)
  <2>1. cpu'[k].pc = "lookup" /\ packets' = packets + 1 /\ Deleted' = Deleted
    BY <1>5 DEF PostRouting, Inv, Shape, Idle, Deleted
  <2>2. QED
    BY <1>1, <1>2, <1>3, <1>4, <2>1, CountedMove DEF Num, Owes
<1>6. CASE MarkEvent(k, t)
  <2>1. cpu'[k].pc \in {"mark_rule", "idle"} /\ packets' = packets
    BY <1>3, <1>6 DEF MarkEvent, Inv, Shape, Idle
  <2>2. Deleted' = Deleted
    BY <1>6 DEF MarkEvent, Inv, Shape, Entry, Deleted
  <2>3. QED
    BY <1>1, <1>2, <1>3, <1>4, <2>1, <2>2, CountedMove DEF Num, Owes
<1>7. CASE Delete(k, t)
  <2>1. cpu'[k].pc \in {"destroy_conn", "idle"} /\ ~Owes(k)' /\ packets' = packets
    <3>1. CASE Watched
      BY <1>7, <3>1 DEF Delete, Inv, Shape, Idle, Owes
    <3>2. CASE ~Watched
      BY <1>3, <1>7, <3>2 DEF Delete, Owes
    <3>3. QED
      BY <3>1, <3>2
  <2>2. t \notin Deleted /\ Deleted' = Deleted \cup {t}
    BY <1>7 DEF Delete, Inv, Shape, Entry, Live, Deleted
  <2>3. Cardinality(Deleted') = Cardinality(Deleted) + 1
    BY <1>1, <2>2, CountTypes, FS_AddElement
  <2>4. QED
    BY <1>1, <1>2, <1>3, <1>4, <2>1, <2>3, CountedMove DEF Num, Owes
<1>8. QED
  BY <1>5, <1>6, <1>7

\* The other steps send no message.
LEMMA QuietCounted ==
    ASSUME Inv, MessagesCounted,
           \/ \E t \in Ct : Confirm(t) \/ Close(t) \/ SetMark(t)
           \/ OffloadRequest \/ DestroyAllRules \/ ExitBegin \/ ExitDestroy \/ ExitEvents \/ ExitHooks
           \/ UNCHANGED vars
    PROVE  MessagesCounted'
<1>1. UNCHANGED <<cpu, packets, announced, done_msgs>>
  BY DEF Confirm, Close, SetMark, OffloadRequest, DestroyAllRules, ExitBegin, ExitDestroy, ExitEvents,
         ExitHooks, vars, msgVars
<1>2. OffloadedObjects' = OffloadedObjects
  <2>1. CASE OffloadRequest
    <3>1. \A c \in Connection : [c EXCEPT !.offload_permit = TRUE].offloaded = c.offloaded
      BY DEF Connection
    <3>2. allocated' = allocated /\ \A o \in Obj : conn'[o].offloaded = conn[o].offloaded
      BY <2>1, <3>1 DEF Inv, Shape, OffloadRequest
    <3>3. QED
      BY <3>2, SameOffloaded DEF Inv
  <2>2. CASE ~OffloadRequest
    BY <2>2 DEF Confirm, Close, SetMark, DestroyAllRules, ExitBegin, ExitDestroy, ExitEvents, ExitHooks,
                vars, tableVars, OffloadedObjects
  <2>3. QED
    BY <2>1, <2>2
<1>3. Deleted' = Deleted
  <2>1. CASE \E t \in Ct : Confirm(t) \/ Close(t) \/ SetMark(t)
    BY <2>1 DEF Inv, Shape, Entry, Confirm, Close, SetMark, Live, Deleted
  <2>2. CASE ct' = ct
    BY <2>2 DEF Deleted
  <2>3. QED
    BY <2>1, <2>2 DEF OffloadRequest, DestroyAllRules, ExitBegin, ExitDestroy, ExitEvents, ExitHooks, vars
<1>4. QED
  BY <1>1, <1>2, <1>3, CountedFrame

\* The messages are counted at first.
LEMMA CountInit == Init => MessagesCounted
<1> SUFFICES ASSUME Init PROVE MessagesCounted
  OBVIOUS
<1>1. \A k \in Cpu : cpu[k].pc = "idle"
  BY DEF Init, Idle
<1>2. \A pcs \in {{"lookup", "create", "announce"}, {"destroy_conn", "destroy_rule", "done"}, {"set_offloaded"}} :
         CpusAt(pcs) = {}
  BY <1>1 DEF CpusAt
<1>3. OwesDone = {} /\ OffloadedObjects = {} /\ Deleted = {}
  BY <1>1 DEF Init, OwesDone, OffloadedObjects, Deleted
<1>4. QED
  BY <1>2, <1>3, FS_EmptySet, BoundAssumption DEF Init, MessagesCounted

\* Every step keeps the messages counted.
LEMMA CountStep == Inv /\ Inv' /\ MessagesCounted /\ [Next]_vars => MessagesCounted'
BY HookCounted, EventCounted, EnterCounted, QuietCounted DEF Next

\* The messages are always counted.
LEMMA CountInvariance == Spec => []MessagesCounted
BY Invariance, CountInit, CountStep, PTL DEF Spec

-----------------------------------------------------------------------------
(***************************************************************************)
(* The theorems.                                                           *)
(***************************************************************************)
\* The types hold, and the bounds on the messages: no packet announces a flow
\* twice, and no conntrack entry is reported done twice.
THEOREM TypeCorrect == Spec => []TypeOK
<1>1. Inv /\ MessagesCounted => TypeOK
  <2> SUFFICES ASSUME Inv, MessagesCounted PROVE TypeOK
    OBVIOUS
  <2>1. \A P : /\ IsFiniteSet(CpusAt(P)) /\ Cardinality(CpusAt(P)) \in Nat
    BY FiniteAssumption, FS_Subset, FS_CardinalityType DEF CpusAt
  <2>2. IsFiniteSet(Ct) /\ Deleted \subseteq Ct /\ Cardinality(Ct) \in Nat
    BY FiniteAssumption, FS_CardinalityType DEF Deleted
  <2>3. Cardinality(Deleted) \in Nat /\ Cardinality(Deleted) <= Cardinality(Ct)
    BY <2>2, FS_Subset, FS_CardinalityType
  <2>4. announced \in 0 .. MaxPackets
    BY <2>1, BoundAssumption DEF Inv, Shape, MessagesCounted
  <2>5. done_msgs \in 0 .. Cardinality(Ct)
    BY <2>1, <2>2, <2>3 DEF Inv, Shape, MessagesCounted
  <2>6. QED
    BY <2>4, <2>5 DEF Inv, Shape, TypeOK, Entry, Rule, CpuState, Pc
<1>2. QED
  BY <1>1, Invariance, CountInvariance, PTL

\* add_conn looks again under the lock, so the table never holds a flow twice.
THEOREM FlowIsThereOnce == Spec => []OneConnectionPerFlow
<1>1. Inv => OneConnectionPerFlow
  <2> SUFFICES ASSUME Inv PROVE Cardinality(fc_conn_ht) <= 1
    BY DEF OneConnectionPerFlow
  <2>1. CASE fc_conn_ht = {}
    BY <2>1, FS_EmptySet
  <2>2. CASE fc_conn_ht # {}
    <3>1. PICK o \in fc_conn_ht : TRUE
      BY <2>2
    <3>2. fc_conn_ht = {o}
      BY DEF Inv, ObjectsOK
    <3>3. Cardinality({o}) = 1
      BY FS_Singleton
    <3>4. QED
      BY <3>2, <3>3
  <2>3. QED
    BY <2>1, <2>2
<1>2. QED
  BY <1>1, Invariance, PTL

\* The loser of add_conn frees what it allocated, and no one else does.
THEOREM ObjectsAreOwned == Spec => []NoObjectLeaks
<1>1. Inv => NoObjectLeaks
  <2> SUFFICES ASSUME Inv PROVE NoObjectLeaks
    OBVIOUS
  <2>1. ASSUME NEW o \in allocated \ fc_conn_ht
        PROVE  Cardinality({k \in Cpu : At(k, "add") /\ cpu[k].conn = o}) = 1
    <3>1. PICK k \in Cpu : At(k, "add") /\ cpu[k].conn = o
      BY DEF Inv, ObjectsOK
    <3>2. {j \in Cpu : At(j, "add") /\ cpu[j].conn = o} = {k}
      BY <3>1 DEF Inv, ObjectsOK
    <3>3. QED
      BY <3>2, FS_Singleton
  <2>2. QED
    BY <2>1 DEF Inv, ObjectsOK, NoObjectLeaks
<1>2. QED
  BY <1>1, Invariance, PTL

\* A connection of the table goes with its conntrack entry.
THEOREM TableFollows == Spec => []TableFollowsConntrack
BY Invariance, PTL DEF Inv, EventsPending

\* So does the rule in the engine.
THEOREM RuleFollows == Spec => []RuleFollowsConntrack
BY Invariance, PTL DEF Inv, EventsPending

\* User space hears DONE at most as often as the hook sent, or failed to send,
\* OFFLOADED.
THEOREM DoneAfterAnnounced == Spec => []DoneIsAnnounced
<1>1. Inv /\ MessagesCounted => DoneIsAnnounced
  <2> SUFFICES ASSUME Inv, MessagesCounted PROVE done_msgs <= announced
    BY DEF DoneIsAnnounced
  <2>1. Cardinality(CpusAt({"set_offloaded"})) \in Nat /\ Cardinality(OwesDone) \in Nat
    BY FiniteAssumption, FS_Subset, FS_CardinalityType DEF CpusAt, OwesDone
  <2>2. Cardinality(OffloadedObjects) \in Nat
    BY CountTypes DEF Inv
  <2>3. QED
    BY <2>1, <2>2 DEF Inv, Shape, MessagesCounted
<1>2. QED
  BY <1>1, Invariance, CountInvariance, PTL

\* The flag of a connection says that the engine has the rule.
THEOREM FlagMeansRule == Spec => []OffloadedHasRule
<1>1. Inv => OffloadedHasRule
  BY DEF Inv, Shape, RuleThere, OffloadedHasRule
<1>2. QED
  BY <1>1, Invariance, PTL
=============================================================================
