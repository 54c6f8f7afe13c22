---------------------------- MODULE SfeCmEngine ----------------------------
(***************************************************************************)
(* The engine that SfeCm carries inside is the abstract engine: one flow,  *)
(* a rule for each conntrack entry of it, and as workers the CPUs and the  *)
(* unloading module, which destroys rules itself.  What SfeIpv4Engine      *)
(* shows of the IPv4 engine is so what SfeCm relies on.                    *)
(*                                                                         *)
(* synced is a history variable: the packets of all sync messages that     *)
(* were delivered, whether or not a conntrack entry was found for them.    *)
(***************************************************************************)
EXTENDS SfeCm

VARIABLE synced

TimerReports == timer # NULL /\ timer' = NULL

FlushReports(k) == At(k, "sync") /\ cpu'[k].pc # "sync"

Observe ==
    \/ TimerReports /\ synced' = synced + timer
    \/ \E k \in Cpu : FlushReports(k) /\ synced' = synced + cpu[k].count
    \/ ~TimerReports /\ (\A k \in Cpu : ~FlushReports(k)) /\ UNCHANGED synced

HistorySpec == (Init /\ synced = 0) /\ [][Next /\ Observe]_<<vars, synced>>

-----------------------------------------------------------------------------
\* The state of the abstract engine.
Workers   == Cpu \cup {"exit"}
Offloaded == IF rule = NULL THEN {} ELSE {rule.ct}
Unsynced  == [t \in Ct |-> IF rule # NULL /\ rule.ct = t THEN rule.unsynced ELSE 0]
Collected == IF timer = NULL THEN 0 ELSE timer
Owed      == [w \in Workers |-> IF w # "exit" /\ cpu[w].pc \in {"flush", "sync"} THEN cpu[w].count ELSE 0]
Listening == "sync" \in registered

Engine == INSTANCE SfeEngine WITH
              Rule <- Ct,
              FlowOf <- [t \in Ct |-> "flow"],
              Worker <- Workers,
              offloaded <- Offloaded,
              pending <- Unsynced,
              collected <- Collected,
              owed <- Owed,
              reported <- synced,
              listening <- Listening

\* Whatever hooks, events, load and unload do, the connection manager uses and
\* assumes no more of the engine than the abstract engine promises.
AssumesEngine == Engine!Spec
=============================================================================
