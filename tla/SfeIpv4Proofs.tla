--------------------------- MODULE SfeIpv4Proofs ---------------------------
(***************************************************************************)
(* Proofs about SfeIpv4 and SfeIpv4Engine for any number of connections,   *)
(* CPUs, devices, rules and packets.                                       *)
(***************************************************************************)
EXTENDS SfeIpv4Engine, ActiveListProofs, Numbers

\* The facts about handlers in progress that the other invariants rest on:
\* a CPU in create_rule has a request, and a connection in memory has a rule.
HandlersHaveRules ==
    /\ \A k \in Cpu : cpu[k].pc = "create" => cpu[k].rule \in Rule
    /\ \A c \in Conn : state[c] # "free" => rule[c] \in Rule

\* The inductive invariant.
Inv ==
    /\ TypeOK
    /\ HandlersHaveRules
    /\ FlushIsExclusive
    /\ TableIsConsistent
    /\ ActiveListOK
    /\ InactiveHasNoNext
    /\ ActiveIffUnsynced

-----------------------------------------------------------------------------
\* A connection has two matches, and every match is one of them.
LEMMA DirMatches ==
    /\ \A c \in Conn : <<c, "original">> \in Match /\ <<c, "reply">> \in Match
    /\ \A m \in Match : /\ connection(m) \in Conn
                        /\ m = <<connection(m), "original">> \/ m = <<connection(m), "reply">>
    /\ \A c \in Conn : connection(<<c, "original">>) = c /\ connection(<<c, "reply">>) = c
BY DEF Match, Dir, connection

\* gen_sync_sfe_ipv4_connection reports a number and resets two counters.
LEMMA SyncedType ==
    ASSUME TypeOK, NEW c \in Conn
    PROVE  /\ UnsyncedPackets(c) \in Nat
           /\ Synced(c) \in [Match -> Nat]
           /\ \A m \in Match : Synced(c)[m] = IF connection(m) = c THEN 0 ELSE rx[m]
BY DirMatches DEF TypeOK, UnsyncedPackets, Synced

\* The quota of a timer run is a number.
LEMMA QuotaType ==
    ASSUME TypeOK PROVE Quota \in Nat
<1>1. num_connections + SyncDivisor - 1 \in Nat
  BY SyncDivisorAssumption DEF TypeOK
<1>2. \A a \in Nat : a \div SyncDivisor \in Nat
  BY SyncDivisorAssumption
<1>3. QED
  BY <1>1, <1>2 DEF Quota

\* remove_sfe_ipv4_connection leaves a list of the right type.
LEMMA WithoutConnectionType ==
    ASSUME NEW L \in ListType, NEW c \in Conn
    PROVE  WithoutConnection(L, c) \in ListType
BY DirMatches, UnlinkType DEF WithoutConnection, UnlinkIfActive

\* So does the removal of the head and its counter match.
LEMMA WithoutHeadType ==
    ASSUME NEW L \in ListType, L.head # NULL
    PROVE  WithoutHead(L) \in ListType
<1>1. L.head \in Match
  BY DEF ListType, Pointer
<1>2. counter_match(L.head) \in Match
  BY <1>1, CounterMatch
<1>3. UnlinkCounter(L, counter_match(L.head)).head = L.head
  BY DEF UnlinkCounter, ListType
<1>4. QED
  BY <1>1, <1>2, <1>3, UnlinkCounterType, PopHeadType DEF WithoutHead

\* One turn of the loop in periodic_sync preserves the types.
LEMMA SyncTurnType ==
    ASSUME TypeOK, NEW q \in Nat, SyncTurn(q)
    PROVE  rx' \in [Match -> Nat] /\ list' \in ListType /\ timer' \in TimerState
<1>1. CASE q = 0 \/ list.head = NULL
  BY <1>1 DEF SyncTurn, TypeOK, TimerState, TimerIdle
<1>2. CASE ~(q = 0 \/ list.head = NULL)
  <2>1. list.head \in Match
    BY <1>2 DEF TypeOK, ListType, Pointer
  <2>2. connection(list.head) \in Conn
    BY <2>1, DirMatches
  <2>3. list' = WithoutHead(list) /\ rx' = Synced(connection(list.head))
    BY <1>2 DEF SyncTurn
  <2>4. timer' = [pc |-> "call", quota |-> q - 1,
                  pending |-> UnsyncedPackets(connection(list.head))]
    BY <1>2 DEF SyncTurn
  <2>5. q - 1 \in Nat
    BY <1>2
  <2>6. timer' \in TimerState
    BY <2>2, <2>4, <2>5, SyncedType DEF TimerState
  <2>7. list' \in ListType
    BY <1>2, <2>3, WithoutHeadType DEF TypeOK
  <2>8. QED
    BY <2>2, <2>3, <2>6, <2>7, SyncedType
<1>3. QED
  BY <1>1, <1>2

-----------------------------------------------------------------------------
(***************************************************************************)
(* Removing a connection, as receive, destroy_rule and destroy_all do.     *)
(***************************************************************************)
LEMMA UnlinkIfActiveList ==
    ASSUME NEW L \in ListType, NEW S \in SUBSET Match, NEW m \in Match,
           IsListOf(L, S), L.active[m] <=> m \in S
    PROVE  /\ IsListOf(UnlinkIfActive(L, m), S \ {m})
           /\ UnlinkIfActive(L, m) \in ListType
           /\ UnlinkIfActive(L, m).active = L.active
           /\ \A x \in Match \ S : UnlinkIfActive(L, m).next[x] = L.next[x]
<1>1. CASE ~L.active[m]
  <2>1. S \ {m} = S
    BY <1>1
  <2>2. QED
    BY <1>1, <2>1 DEF UnlinkIfActive
<1>2. CASE L.active[m]
  <2>1. m \in S
    BY <1>2
  <2>2. L.prev[m] \in S \cup {NULL}
    BY <2>1, ListEnds
  <2>3. Unlink(L, m).active = L.active
    BY DEF Unlink, ListType
  <2>4. \A x \in Match \ S : Unlink(L, m).next[x] = L.next[x]
    BY <2>2 DEF Unlink, ListType
  <2>5. QED
    BY <1>2, <2>1, <2>3, <2>4, UnlinkList, UnlinkType DEF UnlinkIfActive
<1>3. QED
  BY <1>1, <1>2

\* The table is finite, so that num_connections can be its size.
LEMMA TableIsFinite == IsFiniteSet(Table) /\ Cardinality(Table) \in Nat
BY ConnAssumption, FS_Subset, FS_CardinalityType DEF Table

\* Removing a connection from the table and beginning to flush it, on any
\* path of the code, preserves the invariant.
LEMMA RemoveStep ==
    ASSUME Inv, NEW k \in Cpu, NEW c \in Table, cpu[k].pc \in {"idle", "round"},
           RemoveConnection(c), BeginFlush(k, c),
           UNCHANGED <<rx, envVars, timer, statVars>>
    PROVE  Inv'
<1> DEFINE rep == <<c, "reply">>
           orig == <<c, "original">>
           L1 == UnlinkIfActive(list, rep)
           L2 == UnlinkIfActive(L1, orig)
<1>1. c \in Conn /\ state[c] = "table" /\ rep \in Match /\ orig \in Match /\ rep # orig
      /\ connection(rep) = c /\ connection(orig) = c
  BY DirMatches DEF Table
<1>2. list \in ListType /\ Listed \in SUBSET Match /\ IsListOf(list, Listed)
  BY DEF Inv, TypeOK, ActiveListOK, Listed
<1>3. /\ IsListOf(L1, Listed \ {rep})
      /\ L1 \in ListType
      /\ L1.active = list.active
      /\ \A x \in Match \ Listed : L1.next[x] = list.next[x]
  <2>1. list.active[rep] <=> rep \in Listed
    BY <1>1 DEF Listed
  <2>2. QED
    BY <1>1, <1>2, <2>1, UnlinkIfActiveList
<1>4. /\ IsListOf(L2, (Listed \ {rep}) \ {orig})
      /\ L2 \in ListType
      /\ L2.active = list.active
      /\ \A x \in Match \ Listed : L2.next[x] = list.next[x]
  <2>1. L1.active[orig] <=> orig \in Listed \ {rep}
    BY <1>1, <1>3 DEF Listed
  <2>2. Listed \ {rep} \in SUBSET Match
    BY <1>2
  <2>3. /\ IsListOf(L2, (Listed \ {rep}) \ {orig})
        /\ L2 \in ListType
        /\ L2.active = L1.active
        /\ \A x \in Match \ (Listed \ {rep}) : L2.next[x] = L1.next[x]
    BY <1>1, <1>3, <2>1, <2>2, UnlinkIfActiveList
  <2>4. QED
    BY <1>3, <2>3
<1>5. list' = L2
  BY DEF RemoveConnection, WithoutConnection
<1> HIDE DEF L1, L2
<1>6. /\ state' = [state EXCEPT ![c] = "detached"]
      /\ num_connections' = num_connections - 1
      /\ cpu' = [cpu EXCEPT ![k] = [cpu[k] EXCEPT !.pc = "flush", !.conn = c]]
      /\ UNCHANGED <<rule, no_seq_check, refs>>
  BY DEF RemoveConnection, BeginFlush
<1>7. Listed' = (Listed \ {rep}) \ {orig}
  <2>1. \A m \in Match : state'[connection(m)] = "table"
                           <=> state[connection(m)] = "table" /\ m # rep /\ m # orig
    BY <1>1, <1>6, DirMatches DEF Inv, TypeOK
  <2>2. QED
    BY <1>4, <1>5, <2>1 DEF Listed
<1>8. ActiveListOK'
  BY <1>4, <1>5, <1>7 DEF ActiveListOK
<1>9. InactiveHasNoNext'
  <2> SUFFICES ASSUME NEW m \in Match, state'[connection(m)] = "table", ~list'.active[m]
               PROVE  list'.next[m] = NULL
    BY DEF InactiveHasNoNext
  <2>1. state[connection(m)] = "table" /\ ~list.active[m]
    BY <1>4, <1>5, <1>6, DirMatches DEF Inv, TypeOK
  <2>2. QED
    BY <1>4, <1>5, <2>1 DEF Inv, InactiveHasNoNext, Listed
<1>10. ActiveIffUnsynced'
  BY <1>4, <1>5, <1>6, DirMatches DEF Inv, TypeOK, ActiveIffUnsynced
<1>11. TableIsConsistent'
  <2>1. Table' = Table \ {c}
    BY <1>1, <1>6 DEF Table, Inv, TypeOK
  <2>2. Cardinality(Table') = Cardinality(Table) - 1
    BY <2>1, TableIsFinite, FS_RemoveElement
  <2>3. QED
    BY <1>6, <2>1, <2>2 DEF Inv, TableIsConsistent, RuleKey
<1>12. num_connections' \in Nat
  BY <1>11, TableIsFinite, ConnAssumption, FS_Subset, FS_CardinalityType DEF TableIsConsistent, Table
<1>13. TypeOK'
  <2>0. [cpu[k] EXCEPT !.pc = "flush", !.conn = c] \in CpuState
    BY <1>1 DEF Inv, TypeOK, CpuState
  <2>1. cpu' \in [Cpu -> CpuState]
    BY <1>6, <2>0 DEF Inv, TypeOK
  <2>2. state' \in [Conn -> {"free", "table", "detached"}] /\ list' \in ListType
    BY <1>4, <1>5, <1>6 DEF Inv, TypeOK
  <2>3. QED
    BY <1>6, <1>12, <2>1, <2>2 DEF Inv, TypeOK, envVars, statVars
<1>14. FlushIsExclusive'
  <2>1. ~Flushing(k)
    BY DEF Flushing
  <2>2. \A j \in Cpu : /\ j # k => cpu'[j] = cpu[j]
                       /\ cpu'[k].pc = "flush" /\ cpu'[k].conn = c
    BY <1>6 DEF Inv, TypeOK, CpuState
  <2>3. QED
    BY <1>1, <1>6, <2>1, <2>2 DEF Inv, TypeOK, FlushIsExclusive, Flushing
<1>15. HandlersHaveRules'
  <2>1. \A j \in Cpu : cpu'[j].pc = "create" => cpu'[j] = cpu[j]
    BY <1>6 DEF Inv, TypeOK, CpuState
  <2>2. \A d \in Conn : state'[d] # "free" => state[d] # "free"
    BY <1>1, <1>6 DEF Inv, TypeOK
  <2>3. QED
    BY <1>6, <2>1, <2>2 DEF Inv, HandlersHaveRules
<1>16. QED
  BY <1>8, <1>9, <1>10, <1>11, <1>13, <1>14, <1>15 DEF Inv

-----------------------------------------------------------------------------
(***************************************************************************)
(* A turn of the timer's loop.                                             *)
(***************************************************************************)
LEMMA WithoutHeadList ==
    ASSUME NEW L \in ListType, NEW S \in SUBSET Match, IsListOf(L, S), L.head # NULL,
           L.active[counter_match(L.head)] <=> counter_match(L.head) \in S
    PROVE  LET cc == counter_match(L.head)
               K == WithoutHead(L)
           IN  /\ L.head \in S /\ cc \in Match
               /\ IsListOf(K, (S \ {cc}) \ {L.head})
               /\ \A x \in Match : K.active[x] <=> L.active[x] /\ x # L.head /\ x # cc
               /\ K.next[L.head] = NULL
               /\ L.active[cc] => K.next[cc] = NULL
               /\ \A x \in Match \ S : K.next[x] = L.next[x]
<1> DEFINE h == L.head
           cc == counter_match(L.head)
           M == IF L.active[cc] THEN UnlinkCounter(L, cc) ELSE L
           K == WithoutHead(L)
<1>1. h \in S /\ h \in Match /\ cc \in Match /\ cc # h
  BY ListEnds, CounterMatch
<1>2. L.active[cc] => cc \in S /\ L.prev[cc] # NULL /\ L.prev[cc] \in S
  BY <1>1, ListEnds
<1>3. /\ M \in ListType
      /\ IsListOf(M, S \ {cc})
      /\ M.head = h
  <2>1. CASE L.active[cc]
    <3>1. UnlinkCounter(L, cc).head = h
      BY DEF UnlinkCounter, ListType
    <3>2. QED
      BY <1>1, <1>2, <2>1, <3>1, UnlinkCounterList, UnlinkCounterType
  <2>2. CASE ~L.active[cc]
    <3>1. S \ {cc} = S
      BY <2>2
    <3>2. QED
      BY <2>2, <3>1
  <2>3. QED
    BY <2>1, <2>2
<1>4. /\ \A x \in Match : M.active[x] <=> L.active[x] /\ x # cc
      /\ L.active[cc] => M.next[cc] = NULL
      /\ \A x \in Match \ S : M.next[x] = L.next[x]
  BY <1>1, <1>2 DEF UnlinkCounter, ListType
<1>5. K = PopHead(M)
  BY DEF WithoutHead
<1>6. S \ {cc} \in SUBSET Match
  OBVIOUS
<1> HIDE DEF M, K
<1>7. IsListOf(K, (S \ {cc}) \ {h})
  BY <1>3, <1>5, <1>6, PopHeadList
<1>8. /\ \A x \in Match : K.active[x] <=> M.active[x] /\ x # h
      /\ K.next[h] = NULL
      /\ \A x \in Match : x # h => K.next[x] = M.next[x]
  BY <1>1, <1>3, <1>5 DEF PopHead, ListType
<1>9. QED
  BY <1>1, <1>4, <1>7, <1>8 DEF K

\* One turn of the loop in periodic_sync preserves the invariant.
LEMMA SyncTurnStep ==
    ASSUME Inv, NEW q \in Nat, SyncTurn(q),
           UNCHANGED <<tableVars, envVars, cpu, statVars>>
    PROVE  Inv'
<1>1. TypeOK'
  BY SyncTurnType DEF Inv, TypeOK, tableVars, envVars, statVars
<1>2. HandlersHaveRules' /\ FlushIsExclusive' /\ TableIsConsistent'
  BY DEF Inv, HandlersHaveRules, FlushIsExclusive, Flushing, TableIsConsistent, Table,
         RuleKey, tableVars
<1>3. CASE q = 0 \/ list.head = NULL
  <2>1. UNCHANGED <<rx, list, state>>
    BY <1>3 DEF SyncTurn, tableVars
  <2>2. QED
    BY <1>1, <1>2, <2>1
    DEF Inv, ActiveListOK, Listed, InactiveHasNoNext, ActiveIffUnsynced
<1>4. CASE ~(q = 0 \/ list.head = NULL)
  <2> DEFINE h == list.head
             cc == counter_match(list.head)
  <2>1. list' = WithoutHead(list) /\ rx' = Synced(connection(h)) /\ state' = state
    BY <1>4 DEF SyncTurn, tableVars
  <2>2. list \in ListType /\ Listed \in SUBSET Match /\ IsListOf(list, Listed)
    BY DEF Inv, TypeOK, ActiveListOK, Listed
  <2>3. h \in Listed /\ h \in Match
    BY <1>4, <2>2, ListEnds
  <2>4. /\ cc \in Match /\ connection(cc) = connection(h) /\ connection(h) \in Conn
        /\ state[connection(h)] = "table"
        /\ \A x \in Match : connection(x) = connection(h) => x = h \/ x = cc
    BY <2>3, CounterMatch DEF Listed
  <2>5. list.active[cc] <=> cc \in Listed
    BY <2>4 DEF Listed
  <2>6. /\ IsListOf(list', (Listed \ {cc}) \ {h})
        /\ \A x \in Match : list'.active[x] <=> list.active[x] /\ x # h /\ x # cc
        /\ list'.next[h] = NULL
        /\ list.active[cc] => list'.next[cc] = NULL
        /\ \A x \in Match \ Listed : list'.next[x] = list.next[x]
    BY <1>4, <2>1, <2>2, <2>5, WithoutHeadList
  <2>7. Listed' = (Listed \ {cc}) \ {h}
    BY <2>1, <2>6 DEF Listed
  <2>8. ActiveListOK'
    BY <2>6, <2>7 DEF ActiveListOK
  <2>9. InactiveHasNoNext'
    <3> SUFFICES ASSUME NEW m \in Match, state[connection(m)] = "table", ~list'.active[m]
                 PROVE  list'.next[m] = NULL
      BY <2>1 DEF InactiveHasNoNext
    <3>1. CASE list.active[m]
      BY <2>6, <3>1
    <3>2. CASE ~list.active[m]
      BY <2>6, <3>2 DEF Inv, InactiveHasNoNext, Listed
    <3>3. QED
      BY <3>1, <3>2
  <2>10. ActiveIffUnsynced'
    <3>1. \A m \in Match : rx'[m] = IF connection(m) = connection(h) THEN 0 ELSE rx[m]
      BY <2>1, <2>4, SyncedType DEF Inv
    <3>2. \A m \in Match : connection(m) = connection(h) <=> m = h \/ m = cc
      BY <2>3, <2>4
    <3>3. QED
      BY <2>1, <2>6, <3>1, <3>2 DEF Inv, ActiveIffUnsynced
  <2>11. QED
    BY <1>1, <1>2, <2>8, <2>9, <2>10 DEF Inv
<1>5. QED
  BY <1>3, <1>4

-----------------------------------------------------------------------------
(***************************************************************************)
(* Forwarding a packet.                                                    *)
(***************************************************************************)
LEMMA ForwardStep ==
    ASSUME Inv, NEW k \in Cpu, NEW p \in Packet, RecvForward(k, p)
    PROVE  Inv'
<1>1. PICK m \in find_connection_match(packet_key(p)) :
          /\ rx' = [rx EXCEPT ![m] = @ + 1]
          /\ list' = IF list.active[m] THEN list ELSE AppendTail(list, m)
  BY DEF RecvForward
<1>2. m \in Match /\ connection(m) \in Conn /\ state[connection(m)] = "table"
  BY <1>1 DEF find_connection_match, Table
<1>3. /\ UNCHANGED <<tableVars, envVars, cpu, timer, reported, unreported>>
      /\ packets_forwarded' = packets_forwarded + 1
  BY DEF RecvForward
<1>4. list \in ListType /\ Listed \in SUBSET Match /\ IsListOf(list, Listed)
  BY DEF Inv, TypeOK, ActiveListOK, Listed
<1>5. HandlersHaveRules' /\ FlushIsExclusive' /\ TableIsConsistent'
  BY <1>3 DEF Inv, HandlersHaveRules, FlushIsExclusive, Flushing, TableIsConsistent, Table,
              RuleKey, tableVars
<1>6. list' \in ListType
  BY <1>1, <1>2, <1>4, AppendTailType
<1>7. TypeOK'
  BY <1>1, <1>2, <1>3, <1>6 DEF Inv, TypeOK, tableVars, envVars
<1>8. \A x \in Match : list'.active[x] <=> list.active[x] \/ x = m
  BY <1>1, <1>2, <1>4 DEF AppendTail, ListType
<1>9. ActiveIffUnsynced'
  BY <1>1, <1>2, <1>3, <1>8 DEF Inv, TypeOK, ActiveIffUnsynced, tableVars
<1>10. CASE list.active[m]
  <2>1. UNCHANGED <<list, state>>
    BY <1>1, <1>3, <1>10 DEF tableVars
  <2>2. QED
    BY <1>5, <1>7, <1>9, <2>1 DEF Inv, ActiveListOK, Listed, InactiveHasNoNext
<1>11. CASE ~list.active[m]
  <2>1. m \in Match \ Listed /\ list.next[m] = NULL
    BY <1>2, <1>11 DEF Inv, InactiveHasNoNext, Listed
  <2>2. IsListOf(list', Listed \cup {m})
    BY <1>1, <1>4, <1>11, <2>1, AppendTailList
  <2>3. Listed' = Listed \cup {m}
    BY <1>2, <1>3, <1>8 DEF Listed, tableVars
  <2>4. \A x \in Match \ Listed : list'.next[x] = list.next[x]
    <3>1. list.tail \in Listed \cup {NULL}
      BY <1>4, ListEnds
    <3>2. QED
      BY <1>1, <1>4, <1>11, <3>1 DEF AppendTail, ListType
  <2>5. InactiveHasNoNext'
    BY <1>3, <1>8, <2>4 DEF Inv, InactiveHasNoNext, Listed, tableVars
  <2>6. QED
    BY <1>5, <1>7, <1>9, <2>2, <2>3, <2>5 DEF Inv, ActiveListOK
<1>12. QED
  BY <1>10, <1>11

-----------------------------------------------------------------------------
(***************************************************************************)
(* Writing the fields of a connection that is not in the table, as         *)
(* create_rule does with fresh memory and the release with memory it gives *)
(* back, leaves the list alone.                                            *)
(***************************************************************************)
LEMMA FreshStep ==
    ASSUME Inv, NEW c \in Conn, state[c] # "table",
           list' = Fresh(list, MatchesOf(c)), rx' = Synced(c),
           state' \in [Conn -> {"free", "table", "detached"}],
           \A d \in Conn : d # c => state'[d] = state[d]
    PROVE  /\ list' \in ListType /\ rx' \in [Match -> Nat]
           /\ ActiveListOK' /\ InactiveHasNoNext' /\ ActiveIffUnsynced'
<1>1. list \in ListType /\ Listed \in SUBSET Match /\ IsListOf(list, Listed)
  BY DEF Inv, TypeOK, ActiveListOK, Listed
<1>2. list' \in ListType /\ rx' \in [Match -> Nat]
  BY <1>1, FreshType, SyncedType DEF Inv
<1>3. \A m \in Match : m \in MatchesOf(c) <=> connection(m) = c
  BY DEF Match, MatchesOf, connection
<1>4. /\ \A m \in Match : connection(m) = c => /\ ~list'.active[m]
                                              /\ list'.next[m] = NULL
                                              /\ rx'[m] = 0
      /\ \A m \in Match : connection(m) # c => /\ list'.active[m] = list.active[m]
                                              /\ list'.next[m] = list.next[m]
                                              /\ list'.prev[m] = list.prev[m]
                                              /\ rx'[m] = rx[m]
      /\ list'.head = list.head /\ list'.tail = list.tail
  <2>1. \A m \in Match : rx'[m] = IF connection(m) = c THEN 0 ELSE rx[m]
    BY SyncedType DEF Inv
  <2>2. QED
    BY <1>1, <1>3, <2>1 DEF Fresh, ListType
<1>5. Listed' = Listed
  <2>1. \A m \in Match : connection(m) \in Conn
    BY DirMatches
  <2>2. QED
    BY <1>4, <2>1 DEF Listed
<1>6. \A m \in Listed : connection(m) # c
  BY DEF Listed
<1>7. IsListOf(list', Listed)
  BY <1>1, <1>4, <1>6, ListFrame
<1>8. ActiveListOK'
  BY <1>5, <1>7 DEF ActiveListOK
<1>9. InactiveHasNoNext' /\ ActiveIffUnsynced'
  BY <1>4, DirMatches DEF Inv, InactiveHasNoNext, ActiveIffUnsynced
<1>10. QED
  BY <1>2, <1>8, <1>9

\* The insertion of a new connection in create_rule preserves the invariant.
LEMMA InsertStep ==
    ASSUME Inv, NEW k \in Cpu, CreateRuleInsert(k)
    PROVE  Inv'
<1> DEFINE r == cpu[k].rule
<1>1. /\ cpu[k].pc = "create"
      /\ find_connection(RuleKey(r)) = {}
      /\ num_connections' = num_connections + 1
      /\ refs' = HoldDevices(r)
      /\ cpu' = [cpu EXCEPT ![k] = Idle]
      /\ UNCHANGED <<envVars, timer, statVars>>
  BY DEF CreateRuleInsert
<1>2. PICK c \in Conn :
          /\ state[c] = "free"
          /\ state' = [state EXCEPT ![c] = "table"]
          /\ rule' = [rule EXCEPT ![c] = r]
          /\ no_seq_check' = [no_seq_check EXCEPT ![c] = r.proto = "tcp" /\ r.no_seq_check]
          /\ rx' = Synced(c)
          /\ list' = Fresh(list, MatchesOf(c))
  BY DEF CreateRuleInsert
<1>3. r \in Rule /\ r.no_seq_check \in BOOLEAN
  BY <1>1, RuleAssumption DEF Inv, HandlersHaveRules
<1>4. state' \in [Conn -> {"free", "table", "detached"}]
  BY <1>2 DEF Inv, TypeOK
<1>5. /\ list' \in ListType /\ rx' \in [Match -> Nat]
      /\ ActiveListOK' /\ InactiveHasNoNext' /\ ActiveIffUnsynced'
  BY <1>2, <1>4, FreshStep DEF Inv, TypeOK
<1>6. cpu' \in [Cpu -> CpuState]
  BY <1>1 DEF Inv, TypeOK, CpuState, Idle
<1>7. refs' \in [Dev -> Int]
  BY <1>1 DEF Inv, TypeOK, HoldDevices
<1>8. TypeOK'
  BY <1>1, <1>2, <1>3, <1>4, <1>5, <1>6, <1>7 DEF Inv, TypeOK, envVars, statVars
<1>9. HandlersHaveRules'
  <2>1. \A j \in Cpu : cpu'[j].pc = "create" => cpu'[j] = cpu[j]
    BY <1>1 DEF Inv, TypeOK, Idle
  <2>2. \A d \in Conn : state'[d] # "free" => rule'[d] \in Rule
    BY <1>2, <1>3 DEF Inv, TypeOK, HandlersHaveRules
  <2>3. QED
    BY <2>1, <2>2 DEF Inv, HandlersHaveRules
<1>10. FlushIsExclusive'
  <2>1. \A j \in Cpu : /\ Flushing(j)' <=> Flushing(j)
                       /\ Flushing(j) => cpu'[j] = cpu[j]
    BY <1>1 DEF Inv, TypeOK, Idle, Flushing
  <2>2. \A d \in Conn : state'[d] = "detached" <=> state[d] = "detached"
    BY <1>2 DEF Inv, TypeOK
  <2>3. QED
    BY <2>1, <2>2 DEF Inv, FlushIsExclusive
<1>11. TableIsConsistent'
  <2>1. Table' = Table \cup {c} /\ c \notin Table
    BY <1>2 DEF Table, Inv, TypeOK
  <2>2. Cardinality(Table') = Cardinality(Table) + 1
    BY <2>1, TableIsFinite, FS_AddElement
  <2>3. \A d \in Table : RuleKey(rule[d]) # RuleKey(r) /\ rule'[d] = rule[d]
    BY <1>1, <1>2, <2>1 DEF find_connection, Inv, TypeOK, Table
  <2>4. rule'[c] = r
    BY <1>2 DEF Inv, TypeOK
  <2>5. QED
    BY <1>1, <2>1, <2>2, <2>3, <2>4 DEF Inv, TableIsConsistent
<1>12. QED
  BY <1>5, <1>8, <1>9, <1>10, <1>11 DEF Inv

\* The end of a flush, which frees the connection, preserves the invariant.
LEMMA ReleaseStep ==
    ASSUME Inv, NEW k \in Cpu, FlushRelease(k)
    PROVE  Inv'
<1> DEFINE c == cpu[k].conn
<1>1. /\ cpu[k].pc = "release"
      /\ refs' = PutDevices(rule[c])
      /\ state' = [state EXCEPT ![c] = "free"]
      /\ rule' = [rule EXCEPT ![c] = NULL]
      /\ no_seq_check' = [no_seq_check EXCEPT ![c] = FALSE]
      /\ unreported' = unreported + UnsyncedPackets(c)
      /\ rx' = Synced(c)
      /\ list' = Fresh(list, MatchesOf(c))
      /\ cpu' = [cpu EXCEPT ![k] = IF cpu[k].loop = {} THEN Idle
                                   ELSE [cpu[k] EXCEPT !.pc = "round", !.conn = NULL]]
      /\ UNCHANGED <<num_connections, envVars, timer, packets_forwarded, reported>>
  BY DEF FlushRelease
<1>2. Flushing(k) /\ c \in Conn /\ state[c] = "detached"
  BY <1>1 DEF Inv, FlushIsExclusive, Flushing
<1>3. state' \in [Conn -> {"free", "table", "detached"}]
  BY <1>1, <1>2 DEF Inv, TypeOK
<1>4. /\ list' \in ListType /\ rx' \in [Match -> Nat]
      /\ ActiveListOK' /\ InactiveHasNoNext' /\ ActiveIffUnsynced'
  BY <1>1, <1>2, <1>3, FreshStep DEF Inv, TypeOK
<1>5. cpu'[k] \in CpuState /\ cpu'[k].pc \in {"idle", "round"}
  <2>1. cpu[k] \in CpuState
    BY DEF Inv, TypeOK
  <2>2. [cpu[k] EXCEPT !.pc = "round", !.conn = NULL] \in CpuState
    BY <2>1 DEF CpuState
  <2>3. [cpu[k] EXCEPT !.pc = "round", !.conn = NULL].pc = "round"
    BY <2>1 DEF CpuState
  <2>4. Idle \in CpuState /\ Idle.pc = "idle"
    BY DEF Idle, CpuState
  <2>5. QED
    BY <1>1, <2>2, <2>3, <2>4 DEF Inv, TypeOK
<1>6. \A j \in Cpu : j # k => cpu'[j] = cpu[j]
  BY <1>1 DEF Inv, TypeOK
<1>7. cpu' \in [Cpu -> CpuState]
  BY <1>1, <1>5, <1>6 DEF Inv, TypeOK
<1>8. unreported' \in Nat /\ refs' \in [Dev -> Int]
  BY <1>1, <1>2, SyncedType DEF Inv, TypeOK, PutDevices
<1>9. TypeOK'
  BY <1>1, <1>3, <1>4, <1>7, <1>8 DEF Inv, TypeOK, envVars
<1>10. HandlersHaveRules'
  <2>1. \A d \in Conn : state'[d] # "free" => rule'[d] = rule[d] /\ state[d] # "free"
    BY <1>1, <1>2 DEF Inv, TypeOK
  <2>2. QED
    BY <1>5, <1>6, <2>1 DEF Inv, HandlersHaveRules
<1>11. FlushIsExclusive'
  <2>1. \A j \in Cpu : Flushing(j)' <=> Flushing(j) /\ j # k
    BY <1>5, <1>6 DEF Flushing
  <2>2. \A d \in Conn : state'[d] = "detached" <=> state[d] = "detached" /\ d # c
    BY <1>1, <1>2 DEF Inv, TypeOK
  <2>3. QED
    BY <1>2, <1>6, <2>1, <2>2 DEF Inv, FlushIsExclusive
<1>12. TableIsConsistent'
  <2>1. Table' = Table /\ c \notin Table
    BY <1>1, <1>2 DEF Table, Inv, TypeOK
  <2>2. \A d \in Table : rule'[d] = rule[d]
    BY <1>1, <2>1 DEF Inv, TypeOK, Table
  <2>3. QED
    BY <1>1, <2>1, <2>2 DEF Inv, TableIsConsistent
<1>13. QED
  BY <1>4, <1>9, <1>10, <1>11, <1>12 DEF Inv

-----------------------------------------------------------------------------
(***************************************************************************)
(* Steps that leave the table and the active list alone.  The first lemma  *)
(* is for those that move a CPU between two places where it either flushes *)
(* the same connection as before or flushes nothing.                       *)
(***************************************************************************)
LEMMA HandlerStep ==
    ASSUME Inv, NEW k \in Cpu, NEW s \in CpuState,
           cpu' = [cpu EXCEPT ![k] = s],
           s.pc = "create" => s.rule \in Rule,
           s.pc \in {"flush", "sync", "release"} <=> Flushing(k),
           Flushing(k) => s.conn = cpu[k].conn,
           UNCHANGED <<state, rule, num_connections, refs, rx, list, envVars, timer, statVars>>,
           no_seq_check' \in [Conn -> BOOLEAN]
    PROVE  Inv'
<1>1. cpu' \in [Cpu -> CpuState] /\ cpu'[k] = s /\ \A j \in Cpu : j # k => cpu'[j] = cpu[j]
  BY DEF Inv, TypeOK
<1>2. TypeOK'
  BY <1>1 DEF Inv, TypeOK, envVars, statVars
<1>3. HandlersHaveRules'
  BY <1>1 DEF Inv, HandlersHaveRules
<1>4. FlushIsExclusive'
  <2>1. \A j \in Cpu : /\ Flushing(j)' <=> Flushing(j)
                       /\ Flushing(j) => cpu'[j].conn = cpu[j].conn
    BY <1>1 DEF Flushing
  <2>2. QED
    BY <2>1 DEF Inv, FlushIsExclusive
<1>5. TableIsConsistent'
  BY DEF Inv, TableIsConsistent, Table, RuleKey
<1>6. ActiveListOK' /\ InactiveHasNoNext' /\ ActiveIffUnsynced'
  BY DEF Inv, ActiveListOK, Listed, InactiveHasNoNext, ActiveIffUnsynced
<1>7. QED
  BY <1>2, <1>3, <1>4, <1>5, <1>6 DEF Inv

\* A request that refreshes the protocol state of a connection in the table.
LEMMA UpdateProtocolStateType ==
    ASSUME Inv, NEW c \in Conn, NEW r \in Rule, update_protocol_state(c, r)
    PROVE  no_seq_check' \in [Conn -> BOOLEAN]
BY RuleAssumption DEF Inv, TypeOK, update_protocol_state

\* The sync of a flush empties the counters of a connection no longer in the table.
LEMMA FlushSyncStep ==
    ASSUME Inv, NEW k \in Cpu, FlushSync(k)
    PROVE  Inv'
<1> DEFINE c == cpu[k].conn
           s == [cpu[k] EXCEPT !.pc = "release"]
<1>1. /\ cpu[k].pc = "sync"
      /\ reported' = reported + UnsyncedPackets(c)
      /\ rx' = Synced(c)
      /\ cpu' = [cpu EXCEPT ![k] = s]
      /\ UNCHANGED <<tableVars, list, envVars, timer, packets_forwarded, unreported>>
  BY DEF FlushSync
<1>2. Flushing(k) /\ c \in Conn /\ state[c] = "detached"
  BY <1>1 DEF Inv, FlushIsExclusive, Flushing
<1>3. s \in CpuState /\ s.pc = "release" /\ s.conn = c
  <2>1. cpu[k] \in CpuState
    BY DEF Inv, TypeOK
  <2>2. QED
    BY <2>1 DEF CpuState
<1> HIDE DEF s
<1>4. cpu' \in [Cpu -> CpuState] /\ cpu'[k] = s /\ \A j \in Cpu : j # k => cpu'[j] = cpu[j]
  BY <1>1, <1>3 DEF Inv, TypeOK
<1>5. rx' \in [Match -> Nat] /\ reported' \in Nat
  BY <1>1, <1>2, SyncedType DEF Inv, TypeOK
<1>6. TypeOK'
  BY <1>1, <1>4, <1>5 DEF Inv, TypeOK, tableVars, envVars
<1>7. HandlersHaveRules'
  BY <1>1, <1>3, <1>4 DEF Inv, HandlersHaveRules, tableVars
<1>8. FlushIsExclusive'
  <2>1. \A j \in Cpu : /\ Flushing(j)' <=> Flushing(j)
                       /\ Flushing(j) => cpu'[j].conn = cpu[j].conn
    BY <1>2, <1>3, <1>4 DEF Flushing
  <2>2. state' = state
    BY <1>1 DEF tableVars
  <2>3. QED
    BY <2>1, <2>2 DEF Inv, FlushIsExclusive
<1>9. TableIsConsistent' /\ ActiveListOK' /\ InactiveHasNoNext'
  BY <1>1 DEF Inv, TableIsConsistent, Table, RuleKey, ActiveListOK, Listed, InactiveHasNoNext,
              tableVars
<1>10. ActiveIffUnsynced'
  <2>1. \A m \in Match : rx'[m] = IF connection(m) = c THEN 0 ELSE rx[m]
    BY <1>1, <1>2, SyncedType DEF Inv
  <2>2. \A m \in Match : state[connection(m)] = "table" => rx'[m] = rx[m]
    BY <1>2, <2>1
  <2>3. UNCHANGED <<state, list>>
    BY <1>1 DEF tableVars
  <2>4. QED
    BY <2>2, <2>3 DEF Inv, ActiveIffUnsynced
<1>11. QED
  BY <1>6, <1>7, <1>8, <1>9, <1>10 DEF Inv

\* Steps that change only the timer, the statistics and the environment.
LEMMA QuietStep ==
    ASSUME Inv, UNCHANGED <<tableVars, rx, list, cpu>>,
           timer' \in TimerState, registered' \subseteq Dev, callback' \in BOOLEAN,
           packets_forwarded' \in Nat, reported' \in Nat, unreported' \in Nat
    PROVE  Inv'
<1>1. TypeOK'
  BY DEF Inv, TypeOK, tableVars
<1>2. HandlersHaveRules' /\ FlushIsExclusive' /\ TableIsConsistent'
  BY DEF Inv, HandlersHaveRules, FlushIsExclusive, Flushing, TableIsConsistent, Table,
         RuleKey, tableVars
<1>3. ActiveListOK' /\ InactiveHasNoNext' /\ ActiveIffUnsynced'
  BY DEF Inv, ActiveListOK, Listed, InactiveHasNoNext, ActiveIffUnsynced, tableVars
<1>4. QED
  BY <1>1, <1>2, <1>3 DEF Inv

\* The empty table and the empty list.
LEMMA InitInv == Init => Inv
<1> SUFFICES ASSUME Init PROVE Inv
  OBVIOUS
<1>1. Table = {} /\ Listed = {}
  BY DirMatches DEF Init, Table, Listed
<1>2. Cardinality({}) = 0
  BY FS_EmptySet
<1>3. TypeOK
  <2>1. EmptyList \in ListType
    BY DEF ListType, EmptyList, Pointer
  <2>2. Idle \in CpuState
    BY DEF Idle, CpuState
  <2>3. TimerIdle \in TimerState
    BY DEF TimerIdle, TimerState
  <2>4. /\ state \in [Conn -> {"free", "table", "detached"}]
        /\ rule \in [Conn -> Rule \cup {NULL}]
        /\ rx \in [Match -> Nat]
        /\ refs \in [Dev -> Int]
    BY DEF Init
  <2>5. no_seq_check \in [Conn -> BOOLEAN] /\ callback \in BOOLEAN
    BY DEF Init
  <2>6. cpu \in [Cpu -> CpuState]
    BY <2>2 DEF Init
  <2>7. QED
    BY <2>1, <2>3, <2>4, <2>5, <2>6 DEF Init, TypeOK
<1>4. HandlersHaveRules /\ FlushIsExclusive
  BY DEF Init, HandlersHaveRules, FlushIsExclusive, Flushing, Idle
<1>5. TableIsConsistent
  BY <1>1, <1>2 DEF Init, TableIsConsistent
<1>6. ActiveListOK
  <2> DEFINE q == [i \in 1..0 |-> NULL]
  <2>1. q \in [1..Cardinality({}) -> {}] /\ 1..Cardinality({}) = {}
    BY <1>2
  <2>2. Represents(list, q, Cardinality({}))
    BY <1>2, <2>1 DEF Represents, Init, EmptyList
  <2>3. IsListOf(list, {})
    BY <2>1, <2>2 DEF IsListOf
  <2>4. QED
    BY <1>1, <2>3 DEF ActiveListOK
<1>7. InactiveHasNoNext /\ ActiveIffUnsynced
  BY DirMatches DEF Init, InactiveHasNoNext, ActiveIffUnsynced, EmptyList
<1>8. QED
  BY <1>3, <1>4, <1>5, <1>6, <1>7 DEF Inv

-----------------------------------------------------------------------------
(***************************************************************************)
(* One step per action.                                                    *)
(***************************************************************************)
\* What a CPU does on receiving a packet.
LEMMA RecvStep ==
    ASSUME Inv, NEW k \in Cpu, Recv(k)
    PROVE  Inv'
<1>1. PICK p \in Packet : RecvNotForwarded(k, p) \/ RecvFlush(k, p) \/ RecvForward(k, p)
  BY DEF Recv
<1>2. CASE RecvNotForwarded(k, p)
  <2>1. UNCHANGED <<tableVars, rx, list, cpu, timer, envVars, statVars>>
    BY <1>2 DEF RecvNotForwarded, vars, tableVars, envVars, statVars
  <2>2. QED
    BY <2>1, QuietStep DEF Inv, TypeOK, envVars, statVars
<1>3. CASE RecvFlush(k, p)
  <2>1. PICK m \in find_connection_match(packet_key(p)) :
            RemoveConnection(connection(m)) /\ BeginFlush(k, connection(m))
    BY <1>3 DEF RecvFlush
  <2>2. connection(m) \in Table /\ cpu[k].pc = "idle"
    BY <1>3, <2>1 DEF find_connection_match, RecvFlush, Idle
  <2>3. QED
    BY <1>3, <2>1, <2>2, RemoveStep DEF RecvFlush
<1>4. CASE RecvForward(k, p)
  BY <1>4, ForwardStep
<1>5. QED
  BY <1>1, <1>2, <1>3, <1>4

\* What a CPU does when create, update, destroy or destroy_all is called.
LEMMA RequestStep ==
    ASSUME Inv, NEW k \in Cpu, Request(k)
    PROVE  Inv'
<1>1. CASE \E r \in Rule : CreateRuleCheck(k, r)
  <2>1. PICK r \in Rule : CreateRuleCheck(k, r)
    BY <1>1
  <2> DEFINE s == [Idle EXCEPT !.pc = "create", !.rule = r]
  <2>2. /\ cpu[k] = Idle
        /\ cpu' = [cpu EXCEPT ![k] = s]
        /\ UNCHANGED <<tableVars, rx, list, envVars, timer, statVars>>
    BY <2>1 DEF CreateRuleCheck
  <2>3. s \in CpuState /\ s.pc = "create" /\ s.rule = r
    BY DEF Idle, CpuState
  <2>4. ~Flushing(k)
    BY <2>2 DEF Flushing, Idle
  <2>5. no_seq_check' \in [Conn -> BOOLEAN]
    BY <2>2 DEF Inv, TypeOK, tableVars
  <2> HIDE DEF s
  <2>6. QED
    BY <2>2, <2>3, <2>4, <2>5, HandlerStep DEF tableVars
<1>2. CASE \E r \in Rule : UpdateRule(k, r)
  <2>1. PICK r \in Rule : UpdateRule(k, r)
    BY <1>2
  <2>2. PICK c \in find_connection(RuleKey(r)) : update_protocol_state(c, r)
    BY <2>1 DEF UpdateRule
  <2>3. no_seq_check' \in [Conn -> BOOLEAN]
    BY <2>2, UpdateProtocolStateType DEF find_connection, Table
  <2>4. cpu[k] \in CpuState /\ cpu[k].pc = "idle"
    BY <2>1 DEF Inv, TypeOK, UpdateRule, Idle
  <2>5. cpu' = [cpu EXCEPT ![k] = cpu[k]]
    BY <2>1 DEF UpdateRule, Inv, TypeOK
  <2>6. ~Flushing(k)
    BY <2>4 DEF Flushing
  <2>7. UNCHANGED <<state, rule, num_connections, refs, rx, list, envVars, timer, statVars>>
    BY <2>1 DEF UpdateRule
  <2>8. QED
    BY <2>3, <2>4, <2>5, <2>6, <2>7, HandlerStep
<1>3. CASE \E r \in Rule : DestroyRule(k, RuleKey(r))
  <2>1. PICK r \in Rule : DestroyRule(k, RuleKey(r))
    BY <1>3
  <2>2. PICK c \in find_connection(RuleKey(r)) : RemoveConnection(c) /\ BeginFlush(k, c)
    BY <2>1 DEF DestroyRule
  <2>3. c \in Table /\ cpu[k].pc = "idle"
    BY <2>1, <2>2 DEF find_connection, DestroyRule, Idle
  <2>4. QED
    BY <2>1, <2>2, <2>3, RemoveStep DEF DestroyRule
<1>4. CASE \E devs \in {{d} : d \in Dev} \cup {Dev} : DestroyAllRulesForDev(k, devs)
  <2>1. PICK devs \in {{d} : d \in Dev} \cup {Dev} : DestroyAllRulesForDev(k, devs)
    BY <1>4
  <2> DEFINE s == [Idle EXCEPT !.pc = "round", !.loop = devs]
  <2>2. /\ cpu[k] = Idle
        /\ cpu' = [cpu EXCEPT ![k] = s]
        /\ UNCHANGED <<tableVars, rx, list, envVars, timer, statVars>>
    BY <2>1 DEF DestroyAllRulesForDev
  <2>3. s \in CpuState /\ s.pc = "round"
    <3>1. devs \in SUBSET Dev
      BY <2>1
    <3>2. QED
      BY <3>1 DEF Idle, CpuState
  <2>4. ~Flushing(k)
    BY <2>2 DEF Flushing, Idle
  <2>5. no_seq_check' \in [Conn -> BOOLEAN]
    BY <2>2 DEF Inv, TypeOK, tableVars
  <2> HIDE DEF s
  <2>6. QED
    BY <2>2, <2>3, <2>4, <2>5, HandlerStep DEF tableVars
<1>5. QED
  BY <1>1, <1>2, <1>3, <1>4 DEF Request

\* What a CPU does to finish a handler.
LEMMA ContinueStep ==
    ASSUME Inv, NEW k \in Cpu, Continue(k)
    PROVE  Inv'
<1>1. CASE CreateRuleCollision(k)
  <2>1. /\ cpu[k].pc = "create"
        /\ cpu' = [cpu EXCEPT ![k] = Idle]
        /\ UNCHANGED <<state, rule, num_connections, refs, rx, list, envVars, timer, statVars>>
    BY <1>1 DEF CreateRuleCollision
  <2>2. PICK c \in find_connection(RuleKey(cpu[k].rule)) : update_protocol_state(c, cpu[k].rule)
    BY <1>1 DEF CreateRuleCollision
  <2>3. c \in Conn /\ cpu[k].rule \in Rule
    BY <2>1, <2>2 DEF find_connection, Table, Inv, HandlersHaveRules
  <2>4. no_seq_check' \in [Conn -> BOOLEAN]
    BY <2>2, <2>3, UpdateProtocolStateType
  <2>5. Idle \in CpuState /\ Idle.pc = "idle" /\ ~Flushing(k)
    BY <2>1 DEF Idle, CpuState, Flushing
  <2>6. QED
    BY <2>1, <2>4, <2>5, HandlerStep
<1>2. CASE CreateRuleNoMemory(k) \/ DestroyAllDone(k)
  <2>1. /\ cpu[k].pc \in {"create", "round"}
        /\ cpu' = [cpu EXCEPT ![k] = Idle]
        /\ UNCHANGED <<tableVars, rx, list, envVars, timer, statVars>>
    BY <1>2 DEF CreateRuleNoMemory, DestroyAllDone
  <2>2. Idle \in CpuState /\ Idle.pc = "idle" /\ ~Flushing(k)
    BY <2>1 DEF Idle, CpuState, Flushing
  <2>3. no_seq_check' \in [Conn -> BOOLEAN]
    BY <2>1 DEF Inv, TypeOK, tableVars
  <2>4. QED
    BY <2>1, <2>2, <2>3, HandlerStep DEF tableVars
<1>3. CASE CreateRuleInsert(k)
  BY <1>3, InsertStep
<1>4. CASE DestroyAllRound(k)
  <2>1. PICK c \in Table : RemoveConnection(c) /\ BeginFlush(k, c)
    BY <1>4 DEF DestroyAllRound
  <2>2. QED
    BY <1>4, <2>1, RemoveStep DEF DestroyAllRound
<1>5. CASE FlushReadCallback(k)
  <2> DEFINE s == [cpu[k] EXCEPT !.pc = IF callback THEN "sync" ELSE "release"]
  <2>1. /\ cpu[k].pc = "flush"
        /\ cpu' = [cpu EXCEPT ![k] = s]
        /\ UNCHANGED <<tableVars, rx, list, envVars, timer, statVars>>
    BY <1>5 DEF FlushReadCallback
  <2>2. cpu[k] \in CpuState /\ Flushing(k)
    BY <2>1 DEF Inv, TypeOK, Flushing
  <2>3. s \in CpuState /\ s.pc \in {"sync", "release"} /\ s.conn = cpu[k].conn
    BY <2>2 DEF CpuState
  <2>4. no_seq_check' \in [Conn -> BOOLEAN]
    BY <2>1 DEF Inv, TypeOK, tableVars
  <2> HIDE DEF s
  <2>5. QED
    BY <2>1, <2>2, <2>3, <2>4, HandlerStep DEF tableVars
<1>6. CASE FlushSync(k)
  BY <1>6, FlushSyncStep
<1>7. CASE FlushRelease(k)
  BY <1>7, ReleaseStep
<1>8. QED
  BY <1>1, <1>2, <1>3, <1>4, <1>5, <1>6, <1>7 DEF Continue

\* What the periodic timer does.
LEMMA TimerStep ==
    ASSUME Inv, Timer
    PROVE  Inv'
<1>0. timer \in TimerState
  BY DEF Inv, TypeOK
<1>1. CASE TimerFire
  <2>1. timer' \in TimerState
    BY <1>0, <1>1 DEF TimerFire, TimerState
  <2>2. QED
    BY <1>1, <2>1, QuietStep DEF TimerFire, Inv, TypeOK, envVars, statVars
<1>2. CASE TimerBegin
  BY <1>2, QuotaType, SyncTurnStep DEF TimerBegin, Inv
<1>3. CASE TimerCallback
  <2>1. timer' \in TimerState /\ timer.pending \in Nat
    BY <1>0, <1>3 DEF TimerCallback, TimerState
  <2>2. QED
    BY <1>3, <2>1, QuietStep DEF TimerCallback, Inv, TypeOK, envVars
<1>4. CASE TimerRelock
  <2>1. timer.quota \in Nat
    BY <1>0 DEF TimerState
  <2>2. QED
    BY <1>4, <2>1, SyncTurnStep DEF TimerRelock
<1>5. QED
  BY <1>1, <1>2, <1>3, <1>4 DEF Timer

\* What the rest of the kernel does.
LEMMA EnvironmentStep ==
    ASSUME Inv, Environment
    PROVE  Inv'
<1>1. /\ UNCHANGED <<tableVars, rx, list, cpu, timer, statVars>>
      /\ callback' \in BOOLEAN
      /\ registered' \subseteq Dev
  BY DEF Environment, RegisterSyncRuleCallback, DevUnregister, Inv, TypeOK
<1>2. QED
  BY <1>1, QuietStep DEF Inv, TypeOK, statVars

\* Inv is an invariant: it holds initially and every action of every CPU, of
\* the timer and of the environment keeps it.
THEOREM Invariance == Spec => []Inv
<1>1. Inv /\ [Next]_vars => Inv'
  <2> SUFFICES ASSUME Inv, [Next]_vars PROVE Inv'
    OBVIOUS
  <2>1. CASE UNCHANGED vars
    <3>1. UNCHANGED <<tableVars, rx, list, cpu, timer, envVars, statVars>>
      BY <2>1 DEF vars, tableVars, envVars, statVars
    <3>2. QED
      BY <3>1, QuietStep DEF Inv, TypeOK, envVars, statVars
  <2>2. CASE Next
    BY <2>2, RecvStep, RequestStep, ContinueStep, TimerStep, EnvironmentStep DEF Next
  <2>3. QED
    BY <2>1, <2>2
<1>2. QED
  BY InitInv, <1>1, PTL DEF Spec

\* Every variable keeps its type; in particular num_connections never becomes
\* negative and neither does the quota of a running timer.
THEOREM TypeCorrect == Spec => []TypeOK
BY Invariance, PTL DEF Inv

\* The active list stays a well-formed list of exactly the active matches of
\* the table, for any number of connections and CPUs.
THEOREM ActiveListCorrect == Spec => []ActiveListOK
BY Invariance, PTL DEF Inv

\* No connection is flushed or freed by two CPUs, or forgotten.
THEOREM FlushExclusive == Spec => []FlushIsExclusive
BY Invariance, PTL DEF Inv

\* Keys are unique in the table and num_connections counts it.
THEOREM TableConsistent == Spec => []TableIsConsistent
BY Invariance, PTL DEF Inv

\* The matches on the list are those with packets to report.
THEOREM ActiveExactlyWhenUnsynced == Spec => []ActiveIffUnsynced
BY Invariance, PTL DEF Inv

\* A match that is appended to the list has a null active_next.
THEOREM AppendNeedsNoWrite == Spec => []InactiveHasNoNext
BY Invariance, PTL DEF Inv

\* The active_prev that periodic_sync dereferences is never null.
THEOREM CounterMatchUnlinkSafe == Spec => []CounterMatchHasPredecessor
<1>1. Inv => CounterMatchHasPredecessor
  <2> SUFFICES ASSUME Inv, list.head # NULL, list.active[counter_match(list.head)]
               PROVE  list.prev[counter_match(list.head)] # NULL
    BY DEF CounterMatchHasPredecessor
  <2>1. list \in ListType /\ Listed \in SUBSET Match /\ IsListOf(list, Listed)
    BY DEF Inv, TypeOK, ActiveListOK, Listed
  <2>2. list.head \in Listed /\ list.head \in Match
    BY <2>1, ListEnds
  <2>3. /\ counter_match(list.head) \in Match
        /\ counter_match(list.head) # list.head
        /\ connection(counter_match(list.head)) = connection(list.head)
    BY <2>2, CounterMatch
  <2>4. counter_match(list.head) \in Listed
    BY <2>2, <2>3 DEF Listed
  <2>5. QED
    BY <2>1, <2>3, <2>4, ListEnds
<1>2. QED
  BY Invariance, <1>1, PTL

-----------------------------------------------------------------------------
(***************************************************************************)
(* Counting: the references on the devices and the packets.  The counters  *)
(* of memory that is not in use are zero, and the timer has packets in     *)
(* hand only while it calls back.                                          *)
(***************************************************************************)
FreeCountsNothing ==
    \A c \in Conn : state[c] = "free" => rx[<<c, "original">>] = 0 /\ rx[<<c, "reply">>] = 0

PendingInCall == timer.pc # "call" => timer.pending = 0

CountInv ==
    /\ FreeCountsNothing
    /\ PendingInCall
    /\ DeviceRefsBalanced
    /\ EveryPacketAccounted

\* The matches whose connection holds a reference on device d.
HeldBy(d) == {m \in Match : state[connection(m)] # "free" /\ match_dev(m) = d}

\* A connection has two matches, and there are finitely many connections.
LEMMA MatchIsFinite == IsFiniteSet(Match)
<1>1. IsFiniteSet({"original"})
  BY FS_Singleton
<1>2. {"original"} \cup {"reply"} = Dir
  BY DEF Dir
<1>3. IsFiniteSet(Dir)
  BY <1>1, <1>2, FS_AddElement
<1>4. QED
  BY <1>3, ConnAssumption, FS_Product DEF Match

\* So the references on a device can be counted.
LEMMA HeldIsFinite ==
    ASSUME NEW d PROVE IsFiniteSet(HeldBy(d)) /\ Cardinality(HeldBy(d)) \in Nat
BY MatchIsFinite, FS_Subset, FS_CardinalityType DEF HeldBy

\* Synced(c) takes the packets of c out of the sum and nothing else.
LEMMA SyncedSum ==
    ASSUME TypeOK, NEW c \in Conn
    PROVE  /\ SumFunctionOnSet(rx, Match) \in Int
           /\ SumFunctionOnSet(Synced(c), Match) = SumFunctionOnSet(rx, Match) - UnsyncedPackets(c)
           /\ UnsyncedPackets(c) \in Nat
<1> DEFINE o == <<c, "original">>
           r == <<c, "reply">>
           g == Synced(c)
           h == [m \in Match |-> IF m = o THEN g[m] ELSE rx[m]]
           s0 == SumFunctionOnSet(rx, Match)
           s1 == SumFunctionOnSet(h, Match)
           s2 == SumFunctionOnSet(g, Match)
<1>1. /\ o \in Match /\ r \in Match /\ o # r
      /\ \A m \in Match : connection(m) = c => m = o \/ m = r
      /\ connection(o) = c /\ connection(r) = c
  BY DirMatches
<1>2. /\ rx \in [Match -> Int] /\ g \in [Match -> Int]
      /\ \A m \in Match : g[m] = IF connection(m) = c THEN 0 ELSE rx[m]
  BY SyncedType DEF TypeOK
<1> HIDE DEF g
<1>3. h \in [Match -> Int] /\ h[o] = 0 /\ h[r] = rx[r] /\ g[r] = 0
  BY <1>1, <1>2
<1>4. (\A m \in Match \ {o} : h[m] = rx[m]) /\ (\A m \in Match \ {r} : g[m] = h[m])
  BY <1>1, <1>2
<1> HIDE DEF h, o, r
<1>5. s0 \in Int /\ s1 = s0 + h[o] - rx[o]
  BY <1>1, <1>2, <1>3, <1>4, MatchIsFinite, SumChange
<1>6. s1 \in Int /\ s2 = s1 + g[r] - h[r]
  BY <1>1, <1>2, <1>3, <1>4, MatchIsFinite, SumChange
<1>7. rx[o] \in Nat /\ rx[r] \in Nat
  BY <1>1 DEF TypeOK
<1>8. UnsyncedPackets(c) = rx[o] + rx[r]
  BY DEF UnsyncedPackets, o, r
<1> HIDE DEF s0, s1, s2
<1>9. s2 = s0 - (rx[o] + rx[r])
  BY <1>3, <1>5, <1>6, <1>7
<1>10. QED
  BY <1>5, <1>7, <1>8, <1>9 DEF s0, s2, g

\* A step that moves the packets of c from its counters to the timer, the
\* callback or the history of those nobody wanted keeps every packet accounted.
LEMMA SyncAccounts ==
    ASSUME Inv, Inv', EveryPacketAccounted, NEW c \in Conn, rx' = Synced(c),
           packets_forwarded' = packets_forwarded,
           timer'.pending + reported' + unreported'
               = timer.pending + reported + unreported + UnsyncedPackets(c)
    PROVE  EveryPacketAccounted'
<1> DEFINE s == SumFunctionOnSet(rx, Match)
           s1 == SumFunctionOnSet(rx', Match)
           u == UnsyncedPackets(c)
           a == timer.pending
           a1 == timer'.pending
           b == reported
           b1 == reported'
           e == unreported
           e1 == unreported'
           f == packets_forwarded
           f1 == packets_forwarded'
<1>1. s \in Int /\ s1 = s - u /\ u \in Nat
  BY SyncedSum DEF Inv
<1>2. a \in Nat /\ b \in Nat /\ e \in Nat /\ f \in Nat
  BY DEF Inv, TypeOK, TimerState
<1>3. a1 \in Nat /\ b1 \in Nat /\ e1 \in Nat
  BY DEF Inv, TypeOK, TimerState
<1>4. f = s + a + b + e
  BY DEF EveryPacketAccounted
<1>5. a1 + b1 + e1 = a + b + e + u /\ f1 = f
  OBVIOUS
<1> HIDE DEF s, s1, u, a, a1, b, b1, e, e1, f, f1
<1>6. f1 = s1 + a1 + b1 + e1
  BY <1>1, <1>2, <1>3, <1>4, <1>5
<1>7. QED
  BY <1>6 DEF EveryPacketAccounted, s1, a1, b1, e1, f1

\* Steps that take no connection's memory, give none back and count nothing.
LEMMA RefsKept ==
    ASSUME Inv, DeviceRefsBalanced, UNCHANGED <<rule, refs>>,
           \A c \in Conn : state'[c] = "free" <=> state[c] = "free"
    PROVE  DeviceRefsBalanced'
<1>1. ASSUME NEW d \in Dev
      PROVE  HeldBy(d)' = HeldBy(d)
  BY DirMatches DEF HeldBy, match_dev
<1>2. QED
  BY <1>1 DEF DeviceRefsBalanced, HeldBy

\* A step that changes no counter, device or life of a connection keeps the counts.
LEMMA CountsKept ==
    ASSUME Inv, Inv', CountInv, UNCHANGED <<rule, refs, rx, packets_forwarded, unreported>>,
           \A c \in Conn : state'[c] = "free" <=> state[c] = "free",
           timer'.pending + reported' = timer.pending + reported, PendingInCall'
    PROVE  CountInv'
<1>1. DeviceRefsBalanced'
  BY RefsKept DEF CountInv
<1>2. FreeCountsNothing'
  BY DEF CountInv, FreeCountsNothing
<1>3. EveryPacketAccounted'
  <2> DEFINE s == SumFunctionOnSet(rx, Match)
             a == timer.pending
             a1 == timer'.pending
             b == reported
             b1 == reported'
             e == unreported
             f == packets_forwarded
  <2>1. s \in Int
    BY MatchIsFinite, SumType DEF Inv, TypeOK
  <2>2. a \in Nat /\ b \in Nat /\ e \in Nat
    BY DEF Inv, TypeOK, TimerState
  <2>3. a1 \in Nat /\ b1 \in Nat
    BY DEF Inv, TypeOK, TimerState
  <2>4. f = s + a + b + e
    BY DEF CountInv, EveryPacketAccounted
  <2>5. a1 + b1 = a + b
    OBVIOUS
  <2> HIDE DEF s, a, a1, b, b1, e, f
  <2>6. f = s + a1 + b1 + e
    BY <2>1, <2>2, <2>3, <2>4, <2>5
  <2>7. QED
    BY <2>6 DEF EveryPacketAccounted, s, a1, b1, e, f
<1>4. QED
  BY <1>1, <1>2, <1>3 DEF CountInv

\* Removing a connection from the table keeps its references and its counters.
LEMMA RemoveCounts ==
    ASSUME Inv, Inv', CountInv, NEW c \in Table, RemoveConnection(c),
           UNCHANGED <<rx, envVars, timer, statVars>>
    PROVE  CountInv'
<1>1. UNCHANGED <<rule, refs, rx, packets_forwarded, unreported, reported, timer>>
  BY DEF RemoveConnection, statVars
<1>2. \A d \in Conn : state'[d] = "free" <=> state[d] = "free"
  BY DEF RemoveConnection, Table, Inv, TypeOK
<1>3. PendingInCall'
  BY DEF PendingInCall, CountInv
<1>4. QED
  BY <1>1, <1>2, <1>3, CountsKept

\* A forwarded packet is counted by the match it was found under.
LEMMA ForwardCounts ==
    ASSUME Inv, Inv', CountInv, NEW k \in Cpu, NEW p \in Packet, RecvForward(k, p)
    PROVE  CountInv'
<1>1. PICK m \in find_connection_match(packet_key(p)) : rx' = [rx EXCEPT ![m] = @ + 1]
  BY DEF RecvForward
<1>2. /\ packets_forwarded' = packets_forwarded + 1
      /\ UNCHANGED <<state, rule, refs, timer, reported, unreported>>
  BY DEF RecvForward, tableVars
<1>3. m \in Match /\ state[connection(m)] = "table" /\ rx[m] \in Nat
  BY <1>1 DEF find_connection_match, Table, Inv, TypeOK
<1>4. /\ rx' \in [Match -> Int] /\ rx \in [Match -> Int] /\ rx'[m] = rx[m] + 1
      /\ \A x \in Match \ {m} : rx'[x] = rx[x]
  BY <1>1, <1>3 DEF Inv, TypeOK
<1>5. DeviceRefsBalanced'
  BY <1>2, RefsKept DEF CountInv
<1>6. FreeCountsNothing' /\ PendingInCall'
  <2>1. \A c \in Conn : state[c] = "free" => m # <<c, "original">> /\ m # <<c, "reply">>
    BY <1>3, DirMatches
  <2>2. QED
    BY <1>2, <1>4, <2>1, DirMatches DEF CountInv, FreeCountsNothing, PendingInCall
<1>7. EveryPacketAccounted'
  <2> DEFINE s == SumFunctionOnSet(rx, Match)
             s1 == SumFunctionOnSet(rx', Match)
             a == timer.pending
             x == rx[m]
             x1 == rx'[m]
  <2>1. s \in Int /\ s1 = s + x1 - x
    BY <1>3, <1>4, MatchIsFinite, SumChange
  <2>2. x \in Nat /\ x1 = x + 1
    BY <1>3, <1>4
  <2>3. a \in Nat /\ reported \in Nat /\ unreported \in Nat
    BY DEF Inv, TypeOK, TimerState
  <2>4. packets_forwarded = s + a + reported + unreported
    BY DEF CountInv, EveryPacketAccounted
  <2> HIDE DEF s, s1, a, x, x1
  <2>5. packets_forwarded' = s1 + a + reported + unreported
    BY <1>2, <2>1, <2>2, <2>3, <2>4
  <2>6. QED
    BY <1>2, <2>5 DEF EveryPacketAccounted, s1, a
<1>8. QED
  BY <1>5, <1>6, <1>7 DEF CountInv

\* A new connection holds its two devices once each (one device twice when
\* both are the same), and starts with nothing counted.
LEMMA InsertCounts ==
    ASSUME Inv, Inv', CountInv, NEW k \in Cpu, CreateRuleInsert(k)
    PROVE  CountInv'
<1> DEFINE r == cpu[k].rule
<1>1. refs' = HoldDevices(r) /\ cpu[k].pc = "create" /\ UNCHANGED <<timer, statVars>>
  BY DEF CreateRuleInsert
<1>2. PICK c \in Conn : /\ state[c] = "free"
                        /\ state' = [state EXCEPT ![c] = "table"]
                        /\ rule' = [rule EXCEPT ![c] = r]
                        /\ rx' = Synced(c)
  BY DEF CreateRuleInsert
<1> DEFINE orig == <<c, "original">>
           rep == <<c, "reply">>
<1>3. /\ orig \in Match /\ rep \in Match /\ orig # rep
      /\ connection(orig) = c /\ connection(rep) = c
      /\ \A m \in Match : connection(m) = c => m = orig \/ m = rep
      /\ \A m \in Match : connection(m) \in Conn
  BY DirMatches
<1>4. DeviceRefsBalanced'
  <2> SUFFICES ASSUME NEW d \in Dev PROVE refs'[d] = Cardinality(HeldBy(d)')
    BY DEF DeviceRefsBalanced, HeldBy
  <2> DEFINE H == HeldBy(d)
             A == IF d = r.src_dev THEN H \cup {orig} ELSE H
             B == IF d = r.dest_dev THEN A \cup {rep} ELSE A
             x == IF d = r.src_dev THEN 1 ELSE 0
             y == IF d = r.dest_dev THEN 1 ELSE 0
  <2>1. \A m \in Match : connection(m) # c => /\ state'[connection(m)] = state[connection(m)]
                                              /\ rule'[connection(m)] = rule[connection(m)]
    BY <1>2, <1>3 DEF Inv, TypeOK
  <2>2. state'[c] = "table" /\ rule'[c] = r
    BY <1>2 DEF Inv, TypeOK
  <2>3. \A m \in Match : m \in HeldBy(d)' <=> /\ state'[connection(m)] # "free"
                                              /\ match_dev(m)' = d
    BY DEF HeldBy
  <2>4. \A m \in Match : connection(m) # c => (m \in HeldBy(d)' <=> m \in H)
    BY <2>1, <2>3 DEF HeldBy, match_dev, connection
  <2>5. orig \in HeldBy(d)' <=> d = r.src_dev
    BY <1>3, <2>2, <2>3 DEF match_dev, connection
  <2>6. rep \in HeldBy(d)' <=> d = r.dest_dev
    BY <1>3, <2>2, <2>3 DEF match_dev, connection
  <2>7. orig \notin H /\ rep \notin H /\ H \subseteq Match /\ HeldBy(d)' \subseteq Match
    BY <1>2, <1>3 DEF HeldBy
  <2> HIDE DEF H
  <2>8. HeldBy(d)' = B
    BY <1>3, <2>4, <2>5, <2>6, <2>7
  <2>9. IsFiniteSet(H) /\ Cardinality(H) \in Nat
    BY HeldIsFinite DEF H
  <2>10. IsFiniteSet(A) /\ Cardinality(A) = Cardinality(H) + x /\ rep \notin A
    BY <1>3, <2>7, <2>9, FS_AddElement
  <2> HIDE DEF A
  <2>11. Cardinality(B) = Cardinality(A) + y
    <3>1. CASE d = r.dest_dev
      BY <2>10, <3>1, FS_AddElement
    <3>2. CASE d # r.dest_dev
      <4>1. Cardinality(A) \in Nat
        BY <2>10, FS_CardinalityType
      <4>2. QED
        BY <3>2, <4>1
    <3>3. QED
      BY <3>1, <3>2
  <2>12. refs[d] = Cardinality(H)
    BY DEF CountInv, DeviceRefsBalanced, HeldBy, H
  <2>13. refs'[d] = refs[d] + x + y
    BY <1>1 DEF HoldDevices
  <2>14. x \in Nat /\ y \in Nat
    OBVIOUS
  <2> HIDE DEF x, y, B
  <2>15. QED
    BY <2>8, <2>9, <2>10, <2>11, <2>12, <2>13, <2>14
<1>5. UnsyncedPackets(c) = 0
  BY <1>2 DEF CountInv, FreeCountsNothing, UnsyncedPackets
<1>6. EveryPacketAccounted'
  <2>1. /\ packets_forwarded' = packets_forwarded /\ timer' = timer
        /\ reported' = reported /\ unreported' = unreported
    BY <1>1 DEF statVars
  <2>2. timer.pending + reported + unreported \in Nat
    BY DEF Inv, TypeOK, TimerState
  <2>3. timer'.pending + reported' + unreported'
            = timer.pending + reported + unreported + UnsyncedPackets(c)
    BY <1>5, <2>1, <2>2
  <2>4. QED
    BY <1>2, <2>1, <2>3, SyncAccounts DEF CountInv
<1>7. FreeCountsNothing'
  <2>1. \A m \in Match : rx'[m] = IF connection(m) = c THEN 0 ELSE rx[m]
    BY <1>2, SyncedType DEF Inv
  <2>2. \A d \in Conn : state'[d] = "free" => state[d] = "free" /\ d # c
    BY <1>2 DEF Inv, TypeOK
  <2>3. QED
    BY <2>1, <2>2, DirMatches DEF CountInv, FreeCountsNothing
<1>8. QED
  BY <1>1, <1>4, <1>6, <1>7 DEF CountInv, PendingInCall

\* A connection that is freed lets go of what it held; its packets were
\* reported, unless nobody listened.
LEMMA ReleaseCounts ==
    ASSUME Inv, Inv', CountInv, NEW k \in Cpu, FlushRelease(k)
    PROVE  CountInv'
<1> DEFINE c == cpu[k].conn
           r == rule[c]
           orig == <<c, "original">>
           rep == <<c, "reply">>
<1>1. /\ cpu[k].pc = "release"
      /\ refs' = PutDevices(r)
      /\ state' = [state EXCEPT ![c] = "free"]
      /\ rule' = [rule EXCEPT ![c] = NULL]
      /\ unreported' = unreported + UnsyncedPackets(c)
      /\ rx' = Synced(c)
      /\ UNCHANGED <<timer, packets_forwarded, reported>>
  BY DEF FlushRelease
<1>2. c \in Conn /\ state[c] = "detached"
  BY <1>1 DEF Inv, FlushIsExclusive, Flushing
<1> HIDE DEF c
<1>3. /\ orig \in Match /\ rep \in Match /\ orig # rep
      /\ connection(orig) = c /\ connection(rep) = c
      /\ \A m \in Match : connection(m) = c => m = orig \/ m = rep
      /\ \A m \in Match : connection(m) \in Conn
  BY <1>2, DirMatches
<1>4. DeviceRefsBalanced'
  <2> SUFFICES ASSUME NEW d \in Dev PROVE refs'[d] = Cardinality(HeldBy(d)')
    BY DEF DeviceRefsBalanced, HeldBy
  <2> DEFINE H == HeldBy(d)
             A == H \ {orig}
             B == A \ {rep}
             x == IF d = r.src_dev THEN 1 ELSE 0
             y == IF d = r.dest_dev THEN 1 ELSE 0
  <2>1. \A m \in Match : connection(m) # c => /\ state'[connection(m)] = state[connection(m)]
                                              /\ rule'[connection(m)] = rule[connection(m)]
    BY <1>1, <1>2, <1>3 DEF Inv, TypeOK
  <2>2. state'[c] = "free"
    BY <1>1, <1>2 DEF Inv, TypeOK
  <2>3. \A m \in Match : m \in HeldBy(d)' <=> /\ state'[connection(m)] # "free"
                                              /\ match_dev(m)' = d
    BY DEF HeldBy
  <2>4. \A m \in Match : connection(m) # c => (m \in HeldBy(d)' <=> m \in H)
    BY <2>1, <2>3 DEF HeldBy, match_dev, connection
  <2>5. orig \notin HeldBy(d)' /\ rep \notin HeldBy(d)'
    BY <1>3, <2>2, <2>3
  <2>6. orig \in H <=> d = r.src_dev
    BY <1>2, <1>3 DEF HeldBy, match_dev, connection
  <2>7. rep \in H <=> d = r.dest_dev
    BY <1>2, <1>3 DEF HeldBy, match_dev, connection
  <2>8. H \subseteq Match /\ HeldBy(d)' \subseteq Match
    BY DEF HeldBy
  <2> HIDE DEF H
  <2>9. HeldBy(d)' = B
    BY <1>3, <2>4, <2>5, <2>8
  <2>10. IsFiniteSet(H) /\ Cardinality(H) \in Nat
    BY HeldIsFinite DEF H
  <2>11. IsFiniteSet(A) /\ Cardinality(A) = Cardinality(H) - x /\ (rep \in A <=> d = r.dest_dev)
    <3>1. /\ IsFiniteSet(A)
          /\ Cardinality(A) = IF orig \in H THEN Cardinality(H) - 1 ELSE Cardinality(H)
      BY <2>10, FS_RemoveElement
    <3>2. x = IF orig \in H THEN 1 ELSE 0
      BY <2>6
    <3>3. Cardinality(H) - 0 = Cardinality(H)
      BY <2>10
    <3>4. Cardinality(A) = Cardinality(H) - x
      BY <3>1, <3>2, <3>3
    <3>5. rep \in A <=> d = r.dest_dev
      BY <1>3, <2>7
    <3>6. QED
      BY <3>1, <3>4, <3>5
  <2> HIDE DEF A
  <2>12. Cardinality(B) = Cardinality(A) - y
    <3>1. Cardinality(A) \in Nat
      BY <2>11, FS_CardinalityType
    <3>2. Cardinality(B) = IF rep \in A THEN Cardinality(A) - 1 ELSE Cardinality(A)
      BY <2>11, FS_RemoveElement
    <3>3. y = IF rep \in A THEN 1 ELSE 0
      BY <2>11
    <3>4. Cardinality(A) - 0 = Cardinality(A)
      BY <3>1
    <3>5. QED
      BY <3>2, <3>3, <3>4
  <2>13. refs[d] = Cardinality(H)
    BY DEF CountInv, DeviceRefsBalanced, HeldBy, H
  <2>14. refs'[d] = refs[d] - x - y
    BY <1>1 DEF PutDevices
  <2>15. x \in Nat /\ y \in Nat
    OBVIOUS
  <2> HIDE DEF x, y, B
  <2>16. QED
    BY <2>9, <2>10, <2>11, <2>12, <2>13, <2>14, <2>15
<1>5. EveryPacketAccounted'
  <2> DEFINE u == UnsyncedPackets(c)
             a == timer.pending
             b == reported
             e == unreported
             e1 == unreported'
  <2>1. u \in Nat /\ a \in Nat /\ b \in Nat /\ e \in Nat
    BY <1>2, SyncedType DEF Inv, TypeOK, TimerState
  <2>2. e1 = e + u
    BY <1>1
  <2> HIDE DEF u, a, b, e, e1
  <2>3. a + b + e1 = a + b + e + u
    BY <2>1, <2>2
  <2>4. timer'.pending + reported' + unreported'
            = timer.pending + reported + unreported + UnsyncedPackets(c)
    BY <1>1, <2>3 DEF u, a, b, e, e1
  <2>5. QED
    BY <1>1, <1>2, <2>4, SyncAccounts DEF CountInv
<1>6. FreeCountsNothing'
  <2>1. \A m \in Match : rx'[m] = IF connection(m) = c THEN 0 ELSE rx[m]
    BY <1>1, <1>2, SyncedType DEF Inv
  <2>2. \A d \in Conn : state'[d] = "free" => state[d] = "free" \/ d = c
    BY <1>1, <1>2 DEF Inv, TypeOK
  <2>3. QED
    BY <2>1, <2>2, DirMatches DEF CountInv, FreeCountsNothing
<1>7. QED
  BY <1>1, <1>4, <1>5, <1>6 DEF CountInv, PendingInCall

\* The message of a flush reports what the connection had counted.
LEMMA FlushSyncCounts ==
    ASSUME Inv, Inv', CountInv, NEW k \in Cpu, FlushSync(k)
    PROVE  CountInv'
<1> DEFINE c == cpu[k].conn
<1>1. /\ cpu[k].pc = "sync"
      /\ reported' = reported + UnsyncedPackets(c)
      /\ rx' = Synced(c)
      /\ UNCHANGED <<tableVars, timer, packets_forwarded, unreported>>
  BY DEF FlushSync
<1>2. c \in Conn /\ UNCHANGED <<state, rule, refs>>
  BY <1>1 DEF Inv, FlushIsExclusive, Flushing, tableVars
<1> HIDE DEF c
<1>3. EveryPacketAccounted'
  <2> DEFINE u == UnsyncedPackets(c)
             a == timer.pending
             b == reported
             b1 == reported'
             e == unreported
  <2>1. u \in Nat /\ a \in Nat /\ b \in Nat /\ e \in Nat
    BY <1>2, SyncedType DEF Inv, TypeOK, TimerState
  <2>2. b1 = b + u
    BY <1>1
  <2> HIDE DEF u, a, b, b1, e
  <2>3. a + b1 + e = a + b + e + u
    BY <2>1, <2>2
  <2>4. timer'.pending + reported' + unreported'
            = timer.pending + reported + unreported + UnsyncedPackets(c)
    BY <1>1, <2>3 DEF u, a, b, b1, e
  <2>5. QED
    BY <1>1, <1>2, <2>4, SyncAccounts DEF CountInv
<1>4. FreeCountsNothing'
  <2>1. \A m \in Match : rx'[m] = IF connection(m) = c THEN 0 ELSE rx[m]
    BY <1>1, <1>2, SyncedType DEF Inv
  <2>2. QED
    BY <1>2, <2>1, DirMatches DEF CountInv, FreeCountsNothing
<1>5. DeviceRefsBalanced'
  BY <1>2, RefsKept DEF CountInv
<1>6. QED
  BY <1>1, <1>3, <1>4, <1>5 DEF CountInv, PendingInCall

\* A turn of the timer's loop takes the packets of the head of the active list
\* in hand; it starts with none there.
LEMMA SyncTurnCounts ==
    ASSUME Inv, Inv', CountInv, NEW q \in Nat, SyncTurn(q), timer.pc # "call",
           UNCHANGED <<tableVars, envVars, cpu, statVars>>
    PROVE  CountInv'
<1>1. /\ UNCHANGED <<state, rule, refs>>
      /\ packets_forwarded' = packets_forwarded
      /\ reported' = reported
      /\ unreported' = unreported
  BY DEF tableVars, statVars
<1>2. timer.pending = 0
  BY DEF CountInv, PendingInCall
<1>3. CASE q = 0 \/ list.head = NULL
  <2>1. rx' = rx /\ timer' = TimerIdle
    BY <1>3 DEF SyncTurn
  <2>2. timer'.pending = 0 /\ timer'.pc = "idle"
    BY <2>1 DEF TimerIdle
  <2>3. timer'.pending + reported' = timer.pending + reported
    BY <1>1, <1>2, <2>2
  <2>4. PendingInCall'
    BY <2>2 DEF PendingInCall
  <2>5. QED
    BY <1>1, <2>1, <2>3, <2>4, CountsKept
<1>4. CASE ~(q = 0 \/ list.head = NULL)
  <2> DEFINE c == connection(list.head)
  <2>1. list.head \in Match
    BY <1>4 DEF Inv, TypeOK, ListType, Pointer
  <2>2. c \in Conn
    BY <2>1, DirMatches
  <2>3. /\ rx' = Synced(c)
        /\ timer' = [pc |-> "call", quota |-> q - 1, pending |-> UnsyncedPackets(c)]
    BY <1>4 DEF SyncTurn
  <2> HIDE DEF c
  <2>4. timer'.pending = UnsyncedPackets(c) /\ timer'.pc = "call"
    BY <2>3
  <2>5. EveryPacketAccounted'
    <3>1. UnsyncedPackets(c) \in Nat /\ reported \in Nat /\ unreported \in Nat
      BY <2>2, SyncedType DEF Inv, TypeOK
    <3> DEFINE u == UnsyncedPackets(c)
               b == reported
               e == unreported
    <3>2. u \in Nat /\ b \in Nat /\ e \in Nat
      BY <3>1
    <3> HIDE DEF u, b, e
    <3>3. u + b + e = 0 + b + e + u
      BY <3>2
    <3>4. timer'.pending + reported' + unreported'
              = timer.pending + reported + unreported + UnsyncedPackets(c)
      BY <1>1, <1>2, <2>4, <3>3 DEF u, b, e
    <3>5. QED
      BY <1>1, <2>2, <2>3, <3>4, SyncAccounts DEF CountInv
  <2>6. FreeCountsNothing'
    <3>1. \A m \in Match : rx'[m] = IF connection(m) = c THEN 0 ELSE rx[m]
      BY <2>2, <2>3, SyncedType DEF Inv
    <3>2. QED
      BY <1>1, <3>1, DirMatches DEF CountInv, FreeCountsNothing
  <2>7. DeviceRefsBalanced'
    BY <1>1, RefsKept DEF CountInv
  <2>8. PendingInCall'
    BY <2>4 DEF PendingInCall
  <2>9. QED
    BY <2>5, <2>6, <2>7, <2>8 DEF CountInv
<1>5. QED
  BY <1>3, <1>4

\* The counts are right at first.
LEMMA CountInit == Init => CountInv
<1> SUFFICES ASSUME Init PROVE CountInv
  OBVIOUS
<1>1. SumFunctionOnSet(rx, Match) = 0
  BY MatchIsFinite, SumZero DEF Init
<1>2. EveryPacketAccounted
  BY <1>1 DEF Init, EveryPacketAccounted, TimerIdle
<1>3. DeviceRefsBalanced
  <2>1. \A d \in Dev : HeldBy(d) = {}
    BY DirMatches DEF Init, HeldBy
  <2>2. QED
    BY <2>1, FS_EmptySet DEF Init, DeviceRefsBalanced, HeldBy
<1>4. QED
  BY <1>2, <1>3, DirMatches DEF Init, CountInv, FreeCountsNothing, PendingInCall, TimerIdle

\* The steps that count nothing: what a handler does between two of those
\* above, and what the environment does.
LEMMA QuietCounts ==
    ASSUME Inv, Inv', CountInv, UNCHANGED <<state, rule, refs, rx, timer, statVars>>
    PROVE  CountInv'
<1>1. UNCHANGED <<packets_forwarded, unreported, reported>>
  BY DEF statVars
<1>2. PendingInCall'
  BY DEF CountInv, PendingInCall
<1>3. QED
  BY <1>1, <1>2, CountsKept

\* Every action keeps the counts.
LEMMA CountStep ==
    ASSUME Inv, Inv', CountInv, [Next]_vars
    PROVE  CountInv'
<1>1. ASSUME NEW k \in Cpu, Recv(k) PROVE CountInv'
  <2>1. PICK p \in Packet : RecvNotForwarded(k, p) \/ RecvFlush(k, p) \/ RecvForward(k, p)
    BY <1>1 DEF Recv
  <2>2. CASE RecvNotForwarded(k, p)
    BY <2>2, QuietCounts DEF RecvNotForwarded, vars, statVars
  <2>3. CASE RecvFlush(k, p)
    <3>1. PICK m \in find_connection_match(packet_key(p)) : RemoveConnection(connection(m))
      BY <2>3 DEF RecvFlush
    <3>2. connection(m) \in Table
      BY <3>1 DEF find_connection_match
    <3>3. QED
      BY <2>3, <3>1, <3>2, RemoveCounts DEF RecvFlush
  <2>4. CASE RecvForward(k, p)
    BY <2>4, ForwardCounts
  <2>5. QED
    BY <2>1, <2>2, <2>3, <2>4
<1>2. ASSUME NEW k \in Cpu, Request(k) PROVE CountInv'
  <2>1. CASE \E r \in Rule : CreateRuleCheck(k, r)
    BY <2>1, QuietCounts DEF CreateRuleCheck, tableVars
  <2>2. CASE \E r \in Rule : UpdateRule(k, r)
    BY <2>2, QuietCounts DEF UpdateRule
  <2>3. CASE \E r \in Rule : DestroyRule(k, RuleKey(r))
    <3>1. PICK r \in Rule : DestroyRule(k, RuleKey(r))
      BY <2>3
    <3>2. PICK c \in find_connection(RuleKey(r)) : RemoveConnection(c)
      BY <3>1 DEF DestroyRule
    <3>3. c \in Table
      BY <3>2 DEF find_connection
    <3>4. QED
      BY <3>1, <3>2, <3>3, RemoveCounts DEF DestroyRule
  <2>4. CASE \E devs \in {{d} : d \in Dev} \cup {Dev} : DestroyAllRulesForDev(k, devs)
    BY <2>4, QuietCounts DEF DestroyAllRulesForDev, tableVars
  <2>5. QED
    BY <1>2, <2>1, <2>2, <2>3, <2>4 DEF Request
<1>3. ASSUME NEW k \in Cpu, Continue(k) PROVE CountInv'
  <2>1. CASE CreateRuleCollision(k) \/ CreateRuleNoMemory(k)
    BY <2>1, QuietCounts DEF CreateRuleCollision, CreateRuleNoMemory, tableVars
  <2>2. CASE DestroyAllDone(k) \/ FlushReadCallback(k)
    BY <2>2, QuietCounts DEF DestroyAllDone, FlushReadCallback, tableVars
  <2>3. CASE CreateRuleInsert(k)
    BY <2>3, InsertCounts
  <2>4. CASE DestroyAllRound(k)
    <3>1. PICK c \in Table : RemoveConnection(c)
      BY <2>4 DEF DestroyAllRound
    <3>2. QED
      BY <2>4, <3>1, RemoveCounts DEF DestroyAllRound
  <2>5. CASE FlushSync(k)
    BY <2>5, FlushSyncCounts
  <2>6. CASE FlushRelease(k)
    BY <2>6, ReleaseCounts
  <2>7. QED
    BY <1>3, <2>1, <2>2, <2>3, <2>4, <2>5, <2>6 DEF Continue
<1>4. CASE Timer
  <2>0. timer \in TimerState
    BY DEF Inv, TypeOK
  <2>1. CASE TimerFire
    <3>1. /\ timer.pc = "idle" /\ timer'.pending = timer.pending
          /\ UNCHANGED <<state, rule, refs, rx, packets_forwarded, unreported, reported>>
      BY <2>0, <2>1 DEF TimerFire, TimerState, tableVars, statVars
    <3>2. timer.pending = 0
      BY <3>1 DEF CountInv, PendingInCall
    <3>3. QED
      BY <3>1, <3>2, CountsKept DEF PendingInCall
  <2>2. CASE TimerBegin
    BY <2>2, QuotaType, SyncTurnCounts DEF TimerBegin, Inv
  <2>3. CASE TimerCallback
    <3>1. /\ reported' = reported + timer.pending
          /\ timer'.pending = 0
          /\ UNCHANGED <<state, rule, refs, rx, packets_forwarded, unreported>>
      BY <2>0, <2>3 DEF TimerCallback, TimerState, tableVars
    <3>2. reported \in Nat /\ timer.pending \in Nat
      BY <2>0 DEF Inv, TypeOK, TimerState
    <3>3. timer'.pending + reported' = timer.pending + reported
      <4> DEFINE a == timer.pending
                 b == reported
                 b1 == reported'
      <4>1. a \in Nat /\ b \in Nat /\ b1 = b + a
        BY <3>1, <3>2
      <4> HIDE DEF a, b, b1
      <4>2. 0 + b1 = a + b
        BY <4>1
      <4>3. QED
        BY <3>1, <4>2 DEF a, b, b1
    <3>4. QED
      BY <3>1, <3>3, CountsKept DEF PendingInCall
  <2>4. CASE TimerRelock
    <3>1. timer.quota \in Nat
      BY <2>0 DEF TimerState
    <3>2. QED
      BY <2>4, <3>1, SyncTurnCounts DEF TimerRelock
  <2>5. QED
    BY <1>4, <2>1, <2>2, <2>3, <2>4 DEF Timer
<1>5. CASE Environment
  <2>1. UNCHANGED <<state, rule, refs, rx, timer, statVars>>
    BY <1>5 DEF Environment, RegisterSyncRuleCallback, DevUnregister, tableVars
  <2>2. QED
    BY <2>1, QuietCounts
<1>6. CASE UNCHANGED vars
  BY <1>6, QuietCounts DEF vars, statVars
<1>7. QED
  BY <1>1, <1>2, <1>3, <1>4, <1>5, <1>6 DEF Next

\* The counts are always right.
THEOREM CountInvariance == Spec => [](Inv /\ CountInv)
<1>1. Inv /\ Inv' /\ CountInv /\ [Next]_vars => CountInv'
  BY CountStep
<1>2. QED
  BY CountInit, <1>1, Invariance, PTL DEF Spec

\* The module holds each device once for every direction of a live connection
\* that receives from it, and not once more, with any number of CPUs creating,
\* destroying and flushing connections.
THEOREM DeviceRefsAreReleased == Spec => []DeviceRefsBalanced
BY CountInvariance, PTL DEF CountInv

\* No forwarded packet is reported twice or forgotten: at any time it is in
\* the counters of its match, in the message of the timer, reported, or lost
\* because nobody listened when its connection was flushed.
THEOREM PacketsAccounted == Spec => []EveryPacketAccounted
BY CountInvariance, PTL DEF CountInv

-----------------------------------------------------------------------------
(***************************************************************************)
(* The refinement.  A rule in force belongs to one connection of the       *)
(* table, so what it has pending is what the two matches of that           *)
(* connection have counted.                                                *)
(***************************************************************************)
PendingByConnection ==
    /\ Pending = [r \in Rule |-> Pending[r]]
    /\ \A c \in Table : rule[c] \in Rule /\ Pending[rule[c]] = UnsyncedPackets(c)
    /\ \A r \in Rule \ InForce : Pending[r] = 0

\* What is pending for a rule is what its connection's matches count.
LEMMA PendingFacts == Inv => PendingByConnection
<1> SUFFICES ASSUME Inv PROVE PendingByConnection
  OBVIOUS
<1>1. ASSUME NEW c \in Table
      PROVE  rule[c] \in Rule /\ Pending[rule[c]] = UnsyncedPackets(c)
  <2>1. rule[c] \in Rule /\ rule[c] \in InForce
    BY DEF Inv, HandlersHaveRules, Table, InForce
  <2>2. \A d \in Table : rule[d] = rule[c] => d = c
    BY DEF Inv, TableIsConsistent
  <2>3. ConnectionOf(rule[c]) = c
    BY <2>2 DEF ConnectionOf
  <2>4. QED
    BY <2>1, <2>3 DEF Pending
<1>2. QED
  BY <1>1 DEF PendingByConnection, Pending

\* The same after a step.
LEMMA PendingFactsNext == Inv' => PendingByConnection'
BY PendingFacts, PTL

\* What a connection has counted, after a step.
LEMMA UnsyncedNext ==
    ASSUME NEW c \in Conn
    PROVE  UnsyncedPackets(c)' = rx'[<<c, "original">>] + rx'[<<c, "reply">>]
BY DEF UnsyncedPackets

\* Steps that keep the table and what its connections have counted do not
\* change what the abstract engine shows of the rules.
LEMMA SameRules ==
    ASSUME Inv, Inv', UNCHANGED <<state, rule>>,
           \A c \in Table : UnsyncedPackets(c)' = UnsyncedPackets(c)
    PROVE  InForce' = InForce /\ Pending' = Pending
<1>1. Table' = Table
  BY DEF Table
<1>2. InForce' = InForce
  BY <1>1 DEF InForce
<1>3. PendingByConnection /\ PendingByConnection'
  BY PendingFacts, PendingFactsNext
<1>4. ASSUME NEW r \in Rule PROVE Pending'[r] = Pending[r]
  <2>1. CASE r \in InForce
    <3>1. PICK c \in Table : rule[c] = r
      BY <2>1 DEF InForce
    <3>2. Pending'[r] = UnsyncedPackets(c)'
      BY <1>1, <1>3, <3>1 DEF PendingByConnection
    <3>3. QED
      BY <1>3, <3>1, <3>2 DEF PendingByConnection
  <2>2. CASE r \notin InForce
    BY <1>2, <1>3, <2>2 DEF PendingByConnection
  <2>3. QED
    BY <2>1, <2>2
<1>5. Pending' = Pending
  <2> DEFINE P == Pending
             Q == Pending'
  <2>1. P = [r \in Rule |-> P[r]] /\ Q = [r \in Rule |-> Q[r]]
    BY <1>3 DEF PendingByConnection
  <2>2. \A r \in Rule : Q[r] = P[r]
    BY <1>4
  <2> HIDE DEF P, Q
  <2>3. Q = P
    BY <2>1, <2>2
  <2>4. QED
    BY <2>3 DEF P, Q
<1>6. QED
  BY <1>2, <1>5

\* Steps that change what one rule has pending: it counts, is collected, enters
\* or leaves the table.
LEMMA OneRule ==
    ASSUME Inv, Inv', NEW r \in Rule, NEW n,
           \A q \in InForce \cup {r} : q # r => (q \in InForce' /\ Pending'[q] = Pending[q]),
           \A q \in InForce' : q \in InForce \cup {r},
           Pending'[r] = n
    PROVE  Pending' = [Pending EXCEPT ![r] = n]
<1>1. PendingByConnection /\ PendingByConnection'
  BY PendingFacts, PendingFactsNext
<1>2. ASSUME NEW q \in Rule, q # r PROVE Pending'[q] = Pending[q]
  <2>1. CASE q \in InForce
    BY <1>2, <2>1
  <2>2. CASE q \notin InForce
    <3>1. q \notin InForce'
      BY <1>2, <2>2
    <3>2. QED
      BY <1>1, <2>2, <3>1 DEF PendingByConnection
  <2>3. QED
    BY <2>1, <2>2
<1> DEFINE P == Pending
           Q == Pending'
<1>3. P = [q \in Rule |-> P[q]] /\ Q = [q \in Rule |-> Q[q]]
  BY <1>1 DEF PendingByConnection
<1>4. Q[r] = n /\ \A q \in Rule : q # r => Q[q] = P[q]
  BY <1>2
<1> HIDE DEF P, Q
<1>5. Q = [P EXCEPT ![r] = n]
  BY <1>3, <1>4
<1>6. QED
  BY <1>5 DEF P, Q

\* What a CPU owes is what its connection has counted.
LEMMA OwedFacts ==
    ASSUME Inv
    PROVE  /\ Owed = [k \in Cpu |-> Owed[k]]
           /\ \A k \in Cpu : Owes(k) => /\ cpu[k].conn \in Conn
                                        /\ state[cpu[k].conn] = "detached"
                                        /\ Owed[k] = UnsyncedPackets(cpu[k].conn)
           /\ \A k \in Cpu : ~Owes(k) => Owed[k] = 0
BY DEF Inv, FlushIsExclusive, Flushing, Owes, Owed

\* A CPU goes on owing the same while its connection counts nothing.
LEMMA OwedKept ==
    ASSUME Inv, NEW k \in Cpu, cpu'[k].conn = cpu[k].conn, Owes(k)' <=> Owes(k),
           Owes(k) => UnsyncedPackets(cpu[k].conn)' = UnsyncedPackets(cpu[k].conn)
    PROVE  Owed'[k] = Owed[k]
BY DEF Owed

\* A step that moves no packet owes the manager what was owed.
LEMMA SameOwed ==
    ASSUME \A k \in Cpu : Owed'[k] = Owed[k]
    PROVE  Owed' = Owed
BY DEF Owed

\* A connection that a CPU removes is withdrawn with what it has counted.
LEMMA RemoveWithdraws ==
    ASSUME Inv, Inv', NEW k \in Cpu, NEW c \in Table, cpu[k].pc \in {"idle", "round"},
           RemoveConnection(c), BeginFlush(k, c), UNCHANGED <<rx, envVars, timer, statVars>>
    PROVE  Engine!Withdraw(k, rule[c])
<1> DEFINE r == rule[c]
<1>1. /\ state' = [state EXCEPT ![c] = "detached"]
      /\ cpu' = [cpu EXCEPT ![k] = [cpu[k] EXCEPT !.pc = "flush", !.conn = c]]
      /\ UNCHANGED <<rule, rx, callback, timer, reported>>
  BY DEF RemoveConnection, BeginFlush, envVars, statVars
<1>2. c \in Conn /\ state[c] = "table" /\ Table' = Table \ {c}
  BY <1>1 DEF Table, Inv, TypeOK
<1>3. PendingByConnection /\ PendingByConnection'
  BY PendingFacts, PendingFactsNext
<1>4. r \in Rule /\ r \in InForce /\ Pending[r] = UnsyncedPackets(c)
  BY <1>3 DEF PendingByConnection, InForce
<1>5. \A d \in Table : rule[d] = r => d = c
  BY DEF Inv, TableIsConsistent
<1>6. InForce' = InForce \ {r}
  BY <1>1, <1>2, <1>5 DEF InForce
<1>7. \A d \in Conn : UnsyncedPackets(d)' = UnsyncedPackets(d)
  BY <1>1 DEF UnsyncedPackets
<1>8. ASSUME NEW q \in InForce, q # r PROVE q \in InForce' /\ Pending'[q] = Pending[q]
  <2>1. PICK d \in Table : rule[d] = q
    BY DEF InForce
  <2>2. d \in Table' /\ rule'[d] = q /\ d \in Conn
    BY <1>1, <1>2, <1>8, <2>1 DEF Table
  <2>3. Pending'[q] = UnsyncedPackets(d)' /\ Pending[q] = UnsyncedPackets(d)
    BY <1>3, <2>1, <2>2 DEF PendingByConnection
  <2>4. QED
    BY <1>6, <1>7, <1>8, <2>2, <2>3
<1>9. Pending' = [Pending EXCEPT ![r] = 0]
  <2>1. Pending'[r] = 0
    BY <1>3, <1>4, <1>6 DEF PendingByConnection
  <2>2. QED
    BY <1>4, <1>6, <1>8, <2>1, OneRule
<1>10. Owed[k] = 0
  BY OwedFacts DEF Owes
<1>11. Owed' = [Owed EXCEPT ![k] = Pending[r]]
  <2>1. cpu'[k].pc = "flush" /\ cpu'[k].conn = c /\ \A j \in Cpu : j # k => cpu'[j] = cpu[j]
    BY <1>1 DEF Inv, TypeOK, CpuState
  <2>2. Owed'[k] = UnsyncedPackets(c)
    BY <1>1, <2>1 DEF Owed, Owes, UnsyncedPackets
  <2>3. \A j \in Cpu : j # k => Owed'[j] = Owed[j]
    BY <1>1, <2>1 DEF Owed, Owes, UnsyncedPackets
  <2>4. Owed' = [Owed EXCEPT ![k] = UnsyncedPackets(c)]
    <3> DEFINE P == Owed
               Q == Owed'
               n == UnsyncedPackets(c)
    <3>1. P = [j \in Cpu |-> P[j]] /\ Q = [j \in Cpu |-> Q[j]]
      BY DEF Owed
    <3>2. Q[k] = n /\ \A j \in Cpu : j # k => Q[j] = P[j]
      BY <2>2, <2>3
    <3> HIDE DEF P, Q, n
    <3>3. Q = [P EXCEPT ![k] = n]
      BY <3>1, <3>2
    <3>4. QED
      BY <3>3 DEF P, Q, n
  <2>5. QED
    BY <1>4, <2>4
<1>12. QED
  BY <1>1, <1>4, <1>6, <1>9, <1>10, <1>11 DEF Engine!Withdraw

\* A packet is forwarded by a rule in force, which counts it.
LEMMA ForwardForwards ==
    ASSUME Inv, Inv', NEW k \in Cpu, NEW p \in Packet, RecvForward(k, p)
    PROVE  \E r \in Rule : Engine!Forward(r)
<1>1. PICK m \in find_connection_match(packet_key(p)) : rx' = [rx EXCEPT ![m] = @ + 1]
  BY DEF RecvForward
<1>2. UNCHANGED <<state, rule, callback, cpu, timer, reported>>
  BY DEF RecvForward, tableVars, envVars
<1>3. m \in Match /\ connection(m) \in Table
  BY <1>1 DEF find_connection_match
<1>4. PICK c \in Conn : c = connection(m) /\ c \in Table
  BY <1>3 DEF Table
<1> DEFINE r == rule[c]
           o == <<c, "original">>
           e == <<c, "reply">>
<1>5. PendingByConnection /\ PendingByConnection' /\ Table' = Table /\ InForce' = InForce
  BY <1>2, PendingFacts, PendingFactsNext DEF Table, InForce
<1>6. /\ r \in Rule /\ r \in InForce /\ r \in InForce'
      /\ Pending[r] = UnsyncedPackets(c) /\ Pending'[r] = UnsyncedPackets(c)'
  BY <1>2, <1>4, <1>5 DEF PendingByConnection, InForce
<1>7. UnsyncedPackets(c)' = UnsyncedPackets(c) + 1
  <2>1. /\ o \in Match /\ e \in Match /\ o # e /\ (m = o \/ m = e)
    BY <1>3, <1>4, DirMatches
  <2>2. rx[o] \in Nat /\ rx[e] \in Nat
    BY <2>1 DEF Inv, TypeOK
  <2>3. rx'[o] + rx'[e] = (rx[o] + rx[e]) + 1
    <3>1. CASE m = o
      <4>1. rx'[o] = rx[o] + 1 /\ rx'[e] = rx[e]
        BY <1>1, <2>1, <3>1 DEF Inv, TypeOK
      <4>2. QED
        BY <2>2, <4>1
    <3>2. CASE m = e
      <4>1. rx'[e] = rx[e] + 1 /\ rx'[o] = rx[o]
        BY <1>1, <2>1, <3>2 DEF Inv, TypeOK
      <4>2. QED
        BY <2>2, <4>1
    <3>3. QED
      BY <2>1, <3>1, <3>2
  <2>4. QED
    BY <2>3 DEF UnsyncedPackets
<1>8. ASSUME NEW d \in Conn, d # c PROVE UnsyncedPackets(d)' = UnsyncedPackets(d)
  BY <1>1, <1>3, <1>4, <1>8, DirMatches DEF UnsyncedPackets, Inv, TypeOK
<1>9. Pending' = [Pending EXCEPT ![r] = UnsyncedPackets(c)']
  <2>1. ASSUME NEW q \in InForce, q # r PROVE Pending'[q] = Pending[q]
    <3>1. PICK d \in Table : rule[d] = q
      BY DEF InForce
    <3>2. d \in Conn /\ d # c /\ rule'[d] = q /\ d \in Table'
      BY <1>2, <1>5, <2>1, <3>1 DEF Table
    <3>3. Pending'[q] = UnsyncedPackets(d)' /\ Pending[q] = UnsyncedPackets(d)
      BY <1>5, <3>1, <3>2 DEF PendingByConnection
    <3>4. QED
      BY <1>8, <3>2, <3>3
  <2>2. QED
    BY <1>5, <1>6, <2>1, OneRule
<1>10. Pending' = [Pending EXCEPT ![r] = @ + 1]
  BY <1>6, <1>7, <1>9
<1>11. Owed' = Owed
  <2>1. ASSUME NEW j \in Cpu PROVE Owed'[j] = Owed[j]
    <3>1. CASE Owes(j)
      <4>1. cpu[j].conn \in Conn /\ cpu[j].conn # c
        BY <1>4, <3>1, OwedFacts DEF Table
      <4>2. UnsyncedPackets(cpu[j].conn)' = UnsyncedPackets(cpu[j].conn)
        BY <1>2, <1>8, <4>1 DEF UnsyncedPackets
      <4>3. QED
        BY <1>2, <4>2, OwedKept DEF Owes
    <3>2. CASE ~Owes(j)
      BY <1>2, <3>2, OwedKept DEF Owes
    <3>3. QED
      BY <3>1, <3>2
  <2>2. QED
    BY <2>1, SameOwed
<1>12. QED
  BY <1>2, <1>5, <1>6, <1>10, <1>11 DEF Engine!Forward

\* A connection that create_rule inserts offloads its rule.
LEMMA InsertOffloads ==
    ASSUME Inv, Inv', CountInv, NEW k \in Cpu, CreateRuleInsert(k)
    PROVE  \E r \in Rule : Engine!Offload(r)
<1>1. /\ cpu[k].pc = "create"
      /\ find_connection(RuleKey(cpu[k].rule)) = {}
      /\ cpu' = [cpu EXCEPT ![k] = Idle]
      /\ UNCHANGED <<callback, timer, reported>>
  BY DEF CreateRuleInsert, envVars, statVars
<1>2. PICK r \in Rule : r = cpu[k].rule
  BY <1>1 DEF Inv, HandlersHaveRules
<1>3. PICK c \in Conn : /\ state[c] = "free"
                        /\ state' = [state EXCEPT ![c] = "table"]
                        /\ rule' = [rule EXCEPT ![c] = r]
                        /\ rx' = Synced(c)
  BY <1>2 DEF CreateRuleInsert
<1>4. /\ Table' = Table \cup {c} /\ c \notin Table
      /\ rule'[c] = r /\ \A d \in Table : rule'[d] = rule[d]
  BY <1>3 DEF Table, Inv, TypeOK
<1>5. \A q \in InForce : RuleKey(q) # RuleKey(r)
  BY <1>1, <1>2 DEF InForce, find_connection
<1>6. r \notin InForce /\ InForce' = InForce \cup {r}
  <2>1. r \notin InForce
    BY <1>5
  <2>2. InForce' = {rule'[d] : d \in Table'}
    BY DEF InForce
  <2>3. {rule'[d] : d \in Table \cup {c}} = {rule[d] : d \in Table} \cup {r}
    BY <1>4
  <2>4. QED
    BY <1>4, <2>1, <2>2, <2>3 DEF InForce
<1>7. \A m \in Match : rx'[m] = rx[m]
  <2>1. rx[<<c, "original">>] = 0 /\ rx[<<c, "reply">>] = 0
    BY <1>3 DEF CountInv, FreeCountsNothing
  <2>2. \A m \in Match : rx'[m] = IF connection(m) = c THEN 0 ELSE rx[m]
    BY <1>3, SyncedType DEF Inv
  <2>3. QED
    BY <2>1, <2>2, DirMatches
<1>8. ASSUME NEW d \in Conn PROVE UnsyncedPackets(d)' = UnsyncedPackets(d)
  BY <1>7, DirMatches DEF UnsyncedPackets
<1>9. UnsyncedPackets(c)' = 0
  BY <1>3, <1>8 DEF CountInv, FreeCountsNothing, UnsyncedPackets
<1>10. PendingByConnection /\ PendingByConnection'
  BY PendingFacts, PendingFactsNext
<1>11. Pending' = Pending
  <2>1. ASSUME NEW q \in InForce PROVE Pending'[q] = Pending[q]
    <3>1. PICK d \in Table : rule[d] = q
      BY DEF InForce
    <3>2. d \in Conn /\ rule'[d] = q /\ d \in Table'
      BY <1>4, <3>1 DEF Table
    <3>3. Pending'[q] = UnsyncedPackets(d)' /\ Pending[q] = UnsyncedPackets(d)
      BY <1>10, <3>1, <3>2 DEF PendingByConnection
    <3>4. QED
      BY <1>8, <3>2, <3>3
  <2>2. Pending[r] = 0
    BY <1>6, <1>10 DEF PendingByConnection
  <2>3. Pending'[r] = UnsyncedPackets(c)'
    BY <1>4, <1>10 DEF PendingByConnection
  <2>4. Pending' = [Pending EXCEPT ![r] = 0]
    BY <1>6, <1>9, <2>1, <2>3, OneRule
  <2> DEFINE P == Pending
  <2>5. P = [q \in Rule |-> P[q]] /\ P[r] = 0
    BY <1>10, <2>2 DEF PendingByConnection
  <2> HIDE DEF P
  <2>6. [P EXCEPT ![r] = 0] = P
    BY <2>5
  <2>7. QED
    BY <2>4, <2>6 DEF P
<1>12. Owed' = Owed
  <2>1. /\ cpu'[k].pc = "idle" /\ ~Owes(k) /\ \A j \in Cpu : j # k => cpu'[j] = cpu[j]
    BY <1>1 DEF Inv, TypeOK, Idle, Owes
  <2>2. ASSUME NEW j \in Cpu PROVE Owed'[j] = Owed[j]
    <3>1. CASE j = k
      BY <2>1, <3>1 DEF Owed, Owes
    <3>2. CASE j # k
      <4>1. Owes(j)' <=> Owes(j)
        BY <2>1, <3>2 DEF Owes
      <4>2. Owes(j) => UnsyncedPackets(cpu[j].conn)' = UnsyncedPackets(cpu[j].conn)
        BY <1>8, <2>1, <3>2, OwedFacts DEF UnsyncedPackets
      <4>3. QED
        BY <2>1, <3>2, <4>1, <4>2, OwedKept
    <3>3. QED
      BY <3>1, <3>2
  <2>3. QED
    BY <2>2, SameOwed
<1>13. \A q \in InForce : [s \in Rule |-> RuleKey(s)][q] # [s \in Rule |-> RuleKey(s)][r]
  <2>1. InForce \subseteq Rule
    BY DEF Inv, HandlersHaveRules, Table, InForce
  <2>2. QED
    BY <1>5, <2>1
<1>14. QED
  BY <1>1, <1>6, <1>11, <1>12, <1>13 DEF Engine!Offload

\* Emptying the counters of a connection that is not in the table does not
\* change the rules, nor what the CPUs owe that flush another connection.
LEMMA DetachedSync ==
    ASSUME Inv, NEW c \in Conn, c \notin Table, rx' = Synced(c)
    PROVE  \A d \in Conn : d # c => UnsyncedPackets(d)' = UnsyncedPackets(d)
<1>1. \A m \in Match : rx'[m] = IF connection(m) = c THEN 0 ELSE rx[m]
  BY SyncedType DEF Inv
<1>2. QED
  BY <1>1, DirMatches DEF UnsyncedPackets

\* The first lock section of a flush: without a callback the packets are lost.
LEMMA ReadCallbackSettles ==
    ASSUME Inv, Inv', NEW k \in Cpu, FlushReadCallback(k)
    PROVE  Engine!LoseOwed(k) \/ UNCHANGED Engine!vars
<1>1. /\ cpu[k].pc = "flush"
      /\ cpu' = [cpu EXCEPT ![k] = [cpu[k] EXCEPT !.pc = IF callback THEN "sync" ELSE "release"]]
      /\ UNCHANGED <<state, rule, rx, callback, timer, reported>>
  BY DEF FlushReadCallback, tableVars, envVars, statVars
<1>2. /\ cpu'[k].pc = (IF callback THEN "sync" ELSE "release")
      /\ cpu'[k].conn = cpu[k].conn
      /\ \A j \in Cpu : j # k => cpu'[j] = cpu[j]
  BY <1>1 DEF Inv, TypeOK, CpuState
<1>3. \A d \in Conn : UnsyncedPackets(d)' = UnsyncedPackets(d)
  BY <1>1 DEF UnsyncedPackets
<1>4. InForce' = InForce /\ Pending' = Pending
  BY <1>1, <1>3, SameRules DEF Table
<1>5. ASSUME NEW j \in Cpu, j # k \/ callback PROVE Owed'[j] = Owed[j]
  <2>1. cpu'[j].conn = cpu[j].conn /\ (Owes(j)' <=> Owes(j))
    BY <1>1, <1>2, <1>5 DEF Owes
  <2>2. Owes(j) => UnsyncedPackets(cpu[j].conn)' = UnsyncedPackets(cpu[j].conn)
    BY <1>1, <2>1 DEF UnsyncedPackets
  <2>3. QED
    BY <2>1, <2>2, OwedKept
<1>6. ~callback => Owed'[k] = 0
  BY <1>2 DEF Owed, Owes
<1>7. Owed[k] \in Nat
  <2>1. cpu[k].conn \in Conn /\ Owed[k] = UnsyncedPackets(cpu[k].conn)
    BY <1>1, OwedFacts DEF Owes
  <2>2. QED
    BY <2>1, SyncedType DEF Inv
<1>8. CASE callback \/ Owed[k] = 0
  <2>1. Owed' = Owed
    BY <1>5, <1>6, <1>8, SameOwed
  <2>2. QED
    BY <1>1, <1>4, <2>1 DEF Engine!vars
<1>9. CASE ~callback /\ Owed[k] # 0
  <2>1. Owed[k] > 0
    BY <1>7, <1>9
  <2>2. Owed' = [Owed EXCEPT ![k] = 0]
    BY <1>5, <1>6, <1>9 DEF Owed
  <2>3. QED
    BY <1>1, <1>4, <1>9, <2>1, <2>2 DEF Engine!LoseOwed
<1>10. QED
  BY <1>8, <1>9

\* The sync of a flush reports what the CPU owes.
LEMMA FlushSyncReports ==
    ASSUME Inv, Inv', NEW k \in Cpu, FlushSync(k)
    PROVE  Engine!ReportOwed(k) \/ UNCHANGED Engine!vars
<1>0. PICK c : c = cpu[k].conn
  OBVIOUS
<1>1. /\ cpu[k].pc = "sync"
      /\ reported' = reported + UnsyncedPackets(c)
      /\ rx' = Synced(c)
      /\ cpu' = [cpu EXCEPT ![k] = [cpu[k] EXCEPT !.pc = "release"]]
      /\ UNCHANGED <<state, rule, callback, timer>>
  BY <1>0 DEF FlushSync, tableVars, envVars
<1>2. Flushing(k) /\ c \in Conn /\ c \notin Table
  BY <1>0, <1>1 DEF Inv, FlushIsExclusive, Flushing, Table
<1>3. cpu'[k].pc = "release" /\ \A j \in Cpu : j # k => cpu'[j] = cpu[j]
  BY <1>1 DEF Inv, TypeOK, CpuState
<1>4. \A d \in Conn : d # c => UnsyncedPackets(d)' = UnsyncedPackets(d)
  BY <1>1, <1>2, DetachedSync
<1>5. InForce' = InForce /\ Pending' = Pending
  BY <1>1, <1>2, <1>4, SameRules DEF Table
<1>6. ASSUME NEW j \in Cpu, j # k PROVE Owed'[j] = Owed[j]
  <2>1. cpu'[j] = cpu[j] /\ (Owes(j)' <=> Owes(j))
    BY <1>3, <1>6 DEF Owes
  <2>2. CASE Owes(j)
    <3>1. cpu[j].conn \in Conn /\ cpu[j].conn # c
      BY <1>0, <1>2, <1>6, <2>2 DEF Inv, FlushIsExclusive, Flushing, Owes
    <3>2. UnsyncedPackets(cpu[j].conn)' = UnsyncedPackets(cpu[j].conn)
      BY <1>4, <2>1, <3>1 DEF UnsyncedPackets
    <3>3. QED
      BY <2>1, <3>2, OwedKept
  <2>3. CASE ~Owes(j)
    BY <2>1, <2>3, OwedKept
  <2>4. QED
    BY <2>2, <2>3
<1>7. Owed'[k] = 0 /\ Owed[k] = UnsyncedPackets(c) /\ Owed[k] \in Nat
  <2>1. Owed'[k] = 0
    BY <1>3 DEF Owed, Owes
  <2>2. Owed[k] = UnsyncedPackets(c)
    BY <1>0, <1>1 DEF Owed, Owes
  <2>3. QED
    BY <1>2, <2>1, <2>2, SyncedType DEF Inv
<1>8. CASE Owed[k] = 0
  <2>1. Owed' = Owed
    BY <1>6, <1>7, <1>8, SameOwed
  <2>2. reported' = reported
    BY <1>1, <1>7, <1>8 DEF Inv, TypeOK
  <2>3. QED
    BY <1>1, <1>5, <2>1, <2>2 DEF Engine!vars
<1>9. CASE Owed[k] # 0
  <2>1. Owed[k] > 0
    BY <1>7, <1>9
  <2>2. Owed' = [Owed EXCEPT ![k] = 0]
    BY <1>6, <1>7 DEF Owed
  <2>3. reported' = reported + Owed[k]
    BY <1>1, <1>7
  <2>4. QED
    BY <1>1, <1>5, <2>1, <2>2, <2>3 DEF Engine!ReportOwed
<1>10. QED
  BY <1>8, <1>9

\* Freeing the connection shows nothing.
LEMMA ReleaseStutters ==
    ASSUME Inv, Inv', NEW k \in Cpu, FlushRelease(k)
    PROVE  UNCHANGED Engine!vars
<1>0. PICK c : c = cpu[k].conn
  OBVIOUS
<1>1. /\ cpu[k].pc = "release"
      /\ state' = [state EXCEPT ![c] = "free"]
      /\ rule' = [rule EXCEPT ![c] = NULL]
      /\ rx' = Synced(c)
      /\ cpu' = [cpu EXCEPT ![k] = IF cpu[k].loop = {} THEN Idle
                                   ELSE [cpu[k] EXCEPT !.pc = "round", !.conn = NULL]]
      /\ UNCHANGED <<callback, timer, reported>>
  BY <1>0 DEF FlushRelease, envVars
<1>2. Flushing(k) /\ c \in Conn /\ state[c] = "detached" /\ c \notin Table
  BY <1>0, <1>1 DEF Inv, FlushIsExclusive, Flushing, Table
<1>3. ~Owes(k) /\ ~Owes(k)' /\ \A j \in Cpu : j # k => cpu'[j] = cpu[j]
  <2>1. cpu[k] \in CpuState
    BY DEF Inv, TypeOK
  <2>2. [cpu[k] EXCEPT !.pc = "round", !.conn = NULL].pc = "round" /\ Idle.pc = "idle"
    BY <2>1 DEF CpuState, Idle
  <2>3. cpu'[k].pc \in {"idle", "round"} /\ \A j \in Cpu : j # k => cpu'[j] = cpu[j]
    BY <1>1, <2>2 DEF Inv, TypeOK
  <2>4. QED
    BY <1>1, <2>3 DEF Owes
<1>4. \A d \in Conn : d # c => UnsyncedPackets(d)' = UnsyncedPackets(d)
  BY <1>1, <1>2, DetachedSync
<1>5. Table' = Table /\ \A d \in Table : rule'[d] = rule[d] /\ d # c /\ d \in Conn
  BY <1>1, <1>2 DEF Table, Inv, TypeOK
<1>6. InForce' = InForce
  BY <1>5 DEF InForce
<1>7. PendingByConnection /\ PendingByConnection'
  BY PendingFacts, PendingFactsNext
<1>8. Pending' = Pending
  <2>1. ASSUME NEW r \in Rule PROVE Pending'[r] = Pending[r]
    <3>1. CASE r \in InForce
      <4>1. PICK d \in Table : rule[d] = r
        BY <3>1 DEF InForce
      <4>2. Pending'[r] = UnsyncedPackets(d)' /\ Pending[r] = UnsyncedPackets(d)
        BY <1>5, <1>7, <4>1 DEF PendingByConnection
      <4>3. QED
        BY <1>4, <1>5, <4>1, <4>2
    <3>2. CASE r \notin InForce
      BY <1>6, <1>7, <3>2 DEF PendingByConnection
    <3>3. QED
      BY <3>1, <3>2
  <2> DEFINE P == Pending
             Q == Pending'
  <2>2. P = [r \in Rule |-> P[r]] /\ Q = [r \in Rule |-> Q[r]]
    BY <1>7 DEF PendingByConnection
  <2>3. \A r \in Rule : Q[r] = P[r]
    BY <2>1
  <2> HIDE DEF P, Q
  <2>4. Q = P
    BY <2>2, <2>3
  <2>5. QED
    BY <2>4 DEF P, Q
<1>9. Owed' = Owed
  <2>1. ASSUME NEW j \in Cpu PROVE Owed'[j] = Owed[j]
    <3>1. CASE j = k
      BY <1>3, <3>1 DEF Owed
    <3>2. CASE j # k
      <4>1. cpu'[j] = cpu[j] /\ (Owes(j)' <=> Owes(j))
        BY <1>3, <3>2 DEF Owes
      <4>2. CASE Owes(j)
        <5>1. cpu[j].conn \in Conn /\ cpu[j].conn # c
          BY <1>0, <1>2, <3>2, <4>2 DEF Inv, FlushIsExclusive, Flushing, Owes
        <5>2. UnsyncedPackets(cpu[j].conn)' = UnsyncedPackets(cpu[j].conn)
          BY <1>4, <4>1, <5>1 DEF UnsyncedPackets
        <5>3. QED
          BY <4>1, <5>2, OwedKept
      <4>3. CASE ~Owes(j)
        BY <4>1, <4>3, OwedKept
      <4>4. QED
        BY <4>2, <4>3
    <3>3. QED
      BY <3>1, <3>2
  <2>2. QED
    BY <2>1, SameOwed
<1>10. QED
  BY <1>1, <1>6, <1>8, <1>9 DEF Engine!vars

\* A turn of the timer's loop collects what one rule has pending, or ends it.
LEMMA SyncTurnCollects ==
    ASSUME Inv, Inv', CountInv, NEW q \in Nat, SyncTurn(q), timer.pc # "call",
           UNCHANGED <<tableVars, envVars, cpu, statVars>>
    PROVE  (\E r \in Rule : Engine!Collect(r)) \/ UNCHANGED Engine!vars
<1>1. UNCHANGED <<state, rule, callback, cpu, reported>>
  BY DEF tableVars, envVars, statVars
<1>2. timer.pending = 0
  BY DEF CountInv, PendingInCall
<1>3. CASE q = 0 \/ list.head = NULL
  <2>1. rx' = rx /\ timer'.pending = 0
    BY <1>3 DEF SyncTurn, TimerIdle
  <2>2. \A d \in Conn : UnsyncedPackets(d)' = UnsyncedPackets(d)
    BY <2>1 DEF UnsyncedPackets
  <2>3. InForce' = InForce /\ Pending' = Pending
    BY <1>1, <2>2, SameRules DEF Table
  <2>4. Owed' = Owed
    BY <1>1, <2>1 DEF Owed, Owes, UnsyncedPackets
  <2>5. QED
    BY <1>1, <1>2, <2>1, <2>3, <2>4 DEF Engine!vars
<1>4. CASE ~(q = 0 \/ list.head = NULL)
  <2>1. list.head \in Match /\ state[connection(list.head)] = "table"
    <3>1. list \in ListType /\ Listed \in SUBSET Match /\ IsListOf(list, Listed)
      BY DEF Inv, TypeOK, ActiveListOK, Listed
    <3>2. list.head \in Listed
      BY <1>4, <3>1, ListEnds
    <3>3. QED
      BY <3>2 DEF Listed
  <2>2. PICK c \in Conn : c = connection(list.head) /\ c \in Table
    BY <2>1, DirMatches DEF Table
  <2>3. /\ rx' = Synced(c)
        /\ timer' = [pc |-> "call", quota |-> q - 1, pending |-> UnsyncedPackets(c)]
    BY <1>4, <2>2 DEF SyncTurn
  <2>4. timer'.pending = UnsyncedPackets(c)
    BY <2>3
  <2>5. PendingByConnection /\ PendingByConnection' /\ Table' = Table /\ InForce' = InForce
    BY <1>1, PendingFacts, PendingFactsNext DEF Table, InForce
  <2> DEFINE r == rule[c]
  <2>6. /\ r \in Rule /\ r \in InForce /\ Pending[r] = UnsyncedPackets(c)
        /\ Pending'[r] = UnsyncedPackets(c)'
    BY <1>1, <2>2, <2>5 DEF PendingByConnection, InForce
  <2>7. \A m \in Match : rx'[m] = IF connection(m) = c THEN 0 ELSE rx[m]
    BY <2>3, SyncedType DEF Inv
  <2>8. UnsyncedPackets(c)' = 0
    BY <2>7, DirMatches DEF UnsyncedPackets
  <2>9. \A d \in Conn : d # c => UnsyncedPackets(d)' = UnsyncedPackets(d)
    BY <2>7, DirMatches DEF UnsyncedPackets
  <2>10. Pending' = [Pending EXCEPT ![r] = 0]
    <3>1. ASSUME NEW p \in InForce, p # r PROVE Pending'[p] = Pending[p]
      <4>1. PICK d \in Table : rule[d] = p
        BY DEF InForce
      <4>2. d \in Conn /\ d # c /\ rule'[d] = p /\ d \in Table'
        BY <1>1, <2>5, <3>1, <4>1 DEF Table
      <4>3. Pending'[p] = UnsyncedPackets(d)' /\ Pending[p] = UnsyncedPackets(d)
        BY <2>5, <4>1, <4>2 DEF PendingByConnection
      <4>4. QED
        BY <2>9, <4>2, <4>3
    <3>2. QED
      BY <2>5, <2>6, <2>8, <3>1, OneRule
  <2>11. Owed' = Owed
    <3>1. ASSUME NEW j \in Cpu PROVE Owed'[j] = Owed[j]
      <4>1. CASE Owes(j)
        <5>1. cpu[j].conn \in Conn /\ cpu[j].conn # c
          BY <2>2, <4>1, OwedFacts DEF Table
        <5>2. UnsyncedPackets(cpu[j].conn)' = UnsyncedPackets(cpu[j].conn)
          BY <1>1, <2>9, <5>1 DEF UnsyncedPackets
        <5>3. QED
          BY <1>1, <5>2, OwedKept DEF Owes
      <4>2. CASE ~Owes(j)
        BY <1>1, <4>2, OwedKept DEF Owes
      <4>3. QED
        BY <4>1, <4>2
    <3>2. QED
      BY <3>1, SameOwed
  <2>12. QED
    BY <1>1, <1>2, <2>4, <2>5, <2>6, <2>10, <2>11 DEF Engine!Collect
<1>5. QED
  BY <1>3, <1>4

\* Steps inside a handler, and requests that change no counter, show nothing.
LEMMA QuietStutters ==
    ASSUME Inv, Inv', UNCHANGED <<state, rule, rx, callback, reported>>,
           timer'.pending = timer.pending,
           \A k \in Cpu : Owes(k)' <=> Owes(k),
           \A k \in Cpu : Owes(k) => cpu'[k].conn = cpu[k].conn
    PROVE  UNCHANGED Engine!vars
<1>1. \A d \in Conn : UnsyncedPackets(d)' = UnsyncedPackets(d)
  BY DEF UnsyncedPackets
<1>2. InForce' = InForce /\ Pending' = Pending
  BY <1>1, SameRules DEF Table
<1>3. Owed' = Owed
  BY DEF Owed, UnsyncedPackets
<1>4. QED
  BY <1>2, <1>3 DEF Engine!vars

\* The timer delivers what it collected.
LEMMA CallbackReports ==
    ASSUME Inv, Inv', TimerCallback
    PROVE  Engine!ReportCollected \/ UNCHANGED Engine!vars
<1>1. /\ reported' = reported + timer.pending
      /\ timer'.pending = 0
      /\ UNCHANGED <<state, rule, rx, callback, cpu>>
  BY DEF TimerCallback, tableVars, envVars, Inv, TypeOK, TimerState
<1>2. \A d \in Conn : UnsyncedPackets(d)' = UnsyncedPackets(d)
  BY <1>1 DEF UnsyncedPackets
<1>3. InForce' = InForce /\ Pending' = Pending
  BY <1>1, <1>2, SameRules DEF Table
<1>4. Owed' = Owed
  BY <1>1 DEF Owed, Owes, UnsyncedPackets
<1>5. timer.pending \in Nat /\ reported \in Nat
  BY DEF Inv, TypeOK, TimerState
<1>6. CASE timer.pending = 0
  <2>1. reported' = reported
    BY <1>1, <1>5, <1>6
  <2>2. QED
    BY <1>1, <1>3, <1>4, <1>6, <2>1 DEF Engine!vars
<1>7. CASE timer.pending # 0
  <2>1. timer.pending > 0
    BY <1>5, <1>7
  <2>2. QED
    BY <1>1, <1>3, <1>4, <2>1 DEF Engine!ReportCollected
<1>8. QED
  BY <1>6, <1>7

\* The initial states are initial states of the abstract engine.
LEMMA EngineInit == Init => Engine!Init
<1> SUFFICES ASSUME Init PROVE Engine!Init
  OBVIOUS
<1>1. InForce = {}
  BY DEF Init, InForce, Table
<1>2. Pending = [r \in Rule |-> 0]
  BY <1>1 DEF Pending
<1>3. Owed = [k \in Cpu |-> 0]
  BY DEF Init, Owed, Owes, Idle
<1>4. timer.pending = 0 /\ reported = 0 /\ callback = FALSE
  BY DEF Init, TimerIdle
<1>5. QED
  BY <1>1, <1>2, <1>3, <1>4 DEF Engine!Init

\* Every step is a step of the abstract engine or stutters.
LEMMA EngineStep ==
    ASSUME Inv, Inv', CountInv, [Next]_vars
    PROVE  [Engine!Next]_(Engine!vars)
<1>1. ASSUME NEW k \in Cpu, Recv(k) PROVE [Engine!Next]_(Engine!vars)
  <2>1. PICK p \in Packet : RecvNotForwarded(k, p) \/ RecvFlush(k, p) \/ RecvForward(k, p)
    BY <1>1 DEF Recv
  <2>2. CASE RecvNotForwarded(k, p)
    <3>1. UNCHANGED <<state, rule, rx, callback, reported, timer, cpu>>
      BY <2>2 DEF RecvNotForwarded, vars
    <3>2. QED
      BY <3>1, QuietStutters DEF Owes
  <2>3. CASE RecvFlush(k, p)
    <3>1. PICK m \in find_connection_match(packet_key(p)) :
              RemoveConnection(connection(m)) /\ BeginFlush(k, connection(m))
      BY <2>3 DEF RecvFlush
    <3>2. PICK c \in Table : c = connection(m)
      BY <3>1 DEF find_connection_match
    <3>3. cpu[k].pc = "idle" /\ UNCHANGED <<rx, envVars, timer, statVars>>
      BY <2>3 DEF RecvFlush, Idle
    <3>4. Engine!Withdraw(k, rule[c])
      BY <3>1, <3>2, <3>3, RemoveWithdraws
    <3>5. rule[c] \in Rule
      BY DEF Inv, HandlersHaveRules, Table
    <3>6. QED
      BY <3>4, <3>5 DEF Engine!Next
  <2>4. CASE RecvForward(k, p)
    BY <2>4, ForwardForwards DEF Engine!Next
  <2>5. QED
    BY <2>1, <2>2, <2>3, <2>4
<1>2. ASSUME NEW k \in Cpu, NEW c \in Table, cpu[k].pc \in {"idle", "round"},
             RemoveConnection(c), BeginFlush(k, c), UNCHANGED <<rx, envVars, timer, statVars>>
      PROVE  [Engine!Next]_(Engine!vars)
  <2>1. Engine!Withdraw(k, rule[c])
    BY <1>2, RemoveWithdraws
  <2>2. rule[c] \in Rule
    BY DEF Inv, HandlersHaveRules, Table
  <2>3. QED
    BY <2>1, <2>2 DEF Engine!Next
<1>3. ASSUME NEW k \in Cpu, ~Owes(k), ~Owes(k)', \A j \in Cpu : j # k => cpu'[j] = cpu[j],
             UNCHANGED <<state, rule, rx, timer, envVars, statVars>>
      PROVE  [Engine!Next]_(Engine!vars)
  <2>1. UNCHANGED <<state, rule, rx, callback, reported, timer>>
    BY <1>3 DEF envVars, statVars
  <2>2. \A j \in Cpu : (Owes(j)' <=> Owes(j)) /\ (Owes(j) => cpu'[j].conn = cpu[j].conn)
    BY <1>3 DEF Owes
  <2>3. QED
    BY <2>1, <2>2, QuietStutters
<1>4. ASSUME NEW k \in Cpu, Request(k) PROVE [Engine!Next]_(Engine!vars)
  <2>1. CASE \E r \in Rule : CreateRuleCheck(k, r)
    <3>1. PICK r \in Rule : CreateRuleCheck(k, r)
      BY <2>1
    <3>2. /\ cpu[k] = Idle /\ cpu' = [cpu EXCEPT ![k] = [Idle EXCEPT !.pc = "create", !.rule = r]]
          /\ UNCHANGED <<state, rule, rx, timer, envVars, statVars>>
      BY <3>1 DEF CreateRuleCheck, tableVars
    <3>3. ~Owes(k) /\ ~Owes(k)' /\ \A j \in Cpu : j # k => cpu'[j] = cpu[j]
      BY <3>2 DEF Inv, TypeOK, Idle, Owes
    <3>4. QED
      BY <1>3, <3>2, <3>3
  <2>2. CASE \E r \in Rule : UpdateRule(k, r)
    <3>1. UNCHANGED <<state, rule, rx, callback, reported, timer, cpu>>
      BY <2>2 DEF UpdateRule, envVars, statVars
    <3>2. QED
      BY <3>1, QuietStutters DEF Owes
  <2>3. CASE \E r \in Rule : DestroyRule(k, RuleKey(r))
    <3>1. PICK r \in Rule : DestroyRule(k, RuleKey(r))
      BY <2>3
    <3>2. PICK c \in find_connection(RuleKey(r)) : RemoveConnection(c) /\ BeginFlush(k, c)
      BY <3>1 DEF DestroyRule
    <3>3. c \in Table /\ cpu[k].pc = "idle" /\ UNCHANGED <<rx, envVars, timer, statVars>>
      BY <3>1, <3>2 DEF find_connection, DestroyRule, Idle
    <3>4. QED
      BY <1>2, <3>2, <3>3
  <2>4. CASE \E devs \in {{d} : d \in Dev} \cup {Dev} : DestroyAllRulesForDev(k, devs)
    <3>1. PICK devs \in {{d} : d \in Dev} \cup {Dev} : DestroyAllRulesForDev(k, devs)
      BY <2>4
    <3>2. /\ cpu[k] = Idle /\ cpu' = [cpu EXCEPT ![k] = [Idle EXCEPT !.pc = "round", !.loop = devs]]
          /\ UNCHANGED <<state, rule, rx, timer, envVars, statVars>>
      BY <3>1 DEF DestroyAllRulesForDev, tableVars
    <3>3. ~Owes(k) /\ ~Owes(k)' /\ \A j \in Cpu : j # k => cpu'[j] = cpu[j]
      BY <3>2 DEF Inv, TypeOK, Idle, Owes
    <3>4. QED
      BY <1>3, <3>2, <3>3
  <2>5. QED
    BY <1>4, <2>1, <2>2, <2>3, <2>4 DEF Request
<1>5. ASSUME NEW k \in Cpu, Continue(k) PROVE [Engine!Next]_(Engine!vars)
  <2>1. CASE CreateRuleCollision(k) \/ CreateRuleNoMemory(k) \/ DestroyAllDone(k)
    <3>1. /\ cpu[k].pc \in {"create", "round"} /\ cpu' = [cpu EXCEPT ![k] = Idle]
          /\ UNCHANGED <<state, rule, rx, timer, envVars, statVars>>
      BY <2>1 DEF CreateRuleCollision, CreateRuleNoMemory, DestroyAllDone, tableVars
    <3>2. ~Owes(k) /\ ~Owes(k)' /\ \A j \in Cpu : j # k => cpu'[j] = cpu[j]
      BY <3>1 DEF Inv, TypeOK, Idle, Owes
    <3>3. QED
      BY <1>3, <3>1, <3>2
  <2>2. CASE CreateRuleInsert(k)
    BY <2>2, InsertOffloads DEF Engine!Next
  <2>3. CASE DestroyAllRound(k)
    <3>1. PICK c \in Table : RemoveConnection(c) /\ BeginFlush(k, c)
      BY <2>3 DEF DestroyAllRound
    <3>2. QED
      BY <1>2, <2>3, <3>1 DEF DestroyAllRound
  <2>4. CASE FlushReadCallback(k)
    BY <2>4, ReadCallbackSettles DEF Engine!Next, Engine!Settle
  <2>5. CASE FlushSync(k)
    BY <2>5, FlushSyncReports DEF Engine!Next, Engine!Settle
  <2>6. CASE FlushRelease(k)
    BY <2>6, ReleaseStutters
  <2>7. QED
    BY <1>5, <2>1, <2>2, <2>3, <2>4, <2>5, <2>6 DEF Continue
<1>6. CASE Timer
  <2>0. timer \in TimerState
    BY DEF Inv, TypeOK
  <2>1. CASE TimerFire
    <3>1. UNCHANGED <<state, rule, rx, callback, reported, cpu>> /\ timer'.pending = timer.pending
      BY <2>0, <2>1 DEF TimerFire, TimerState, tableVars, envVars, statVars
    <3>2. QED
      BY <3>1, QuietStutters DEF Owes
  <2>2. CASE TimerBegin
    BY <2>2, QuotaType, SyncTurnCollects DEF TimerBegin, Inv, Engine!Next
  <2>3. CASE TimerCallback
    BY <2>3, CallbackReports DEF Engine!Next
  <2>4. CASE TimerRelock
    <3>1. timer.quota \in Nat
      BY <2>0 DEF TimerState
    <3>2. QED
      BY <2>4, <3>1, SyncTurnCollects DEF TimerRelock, Engine!Next
  <2>5. QED
    BY <1>6, <2>1, <2>2, <2>3, <2>4 DEF Timer
<1>7. CASE Environment
  <2>1. CASE \E b \in BOOLEAN : RegisterSyncRuleCallback(b)
    <3>1. PICK b \in BOOLEAN : RegisterSyncRuleCallback(b)
      BY <2>1
    <3>2. callback' = b /\ UNCHANGED <<state, rule, rx, reported, timer, cpu>>
      BY <3>1 DEF RegisterSyncRuleCallback, tableVars, statVars
    <3>3. \A d \in Conn : UnsyncedPackets(d)' = UnsyncedPackets(d)
      BY <3>2 DEF UnsyncedPackets
    <3>4. InForce' = InForce /\ Pending' = Pending
      BY <3>2, <3>3, SameRules DEF Table
    <3>5. Owed' = Owed
      BY <3>2 DEF Owed, Owes, UnsyncedPackets
    <3>6. Engine!Listen(b)
      BY <3>2, <3>4, <3>5 DEF Engine!Listen
    <3>7. QED
      BY <3>6 DEF Engine!Next
  <2>2. CASE \E d \in Removable : DevUnregister(d)
    <3>1. UNCHANGED <<state, rule, rx, callback, reported, timer, cpu>>
      BY <2>2 DEF DevUnregister, tableVars, statVars
    <3>2. QED
      BY <3>1, QuietStutters DEF Owes
  <2>3. QED
    BY <1>7, <2>1, <2>2 DEF Environment
<1>8. CASE UNCHANGED vars
  <2>1. UNCHANGED <<state, rule, rx, callback, reported, timer, cpu>>
    BY <1>8 DEF vars
  <2>2. QED
    BY <2>1, QuietStutters DEF Owes
<1>9. QED
  BY <1>1, <1>4, <1>5, <1>6, <1>7, <1>8 DEF Next

\* The engine implements the abstract engine: its connection manager sees one
\* rule for each flow, packets forwarded by rules in force only, and each of
\* them reported once or lost because nobody listened, with any number of CPUs.
THEOREM EngineIsImplemented == Spec => ImplementsEngine
<1>1. Inv /\ Inv' /\ CountInv /\ [Next]_vars => [Engine!Next]_(Engine!vars)
  BY EngineStep
<1>2. QED
  BY EngineInit, <1>1, CountInvariance, PTL DEF Spec, ImplementsEngine, Engine!Spec
=============================================================================
