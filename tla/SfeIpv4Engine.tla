--------------------------- MODULE SfeIpv4Engine ---------------------------
(***************************************************************************)
(* The IPv4 engine implements the abstract engine.  Its handlers are the   *)
(* workers.  A rule is in force while a connection made of it is in the    *)
(* table; what its two matches have counted is pending; a CPU owes the     *)
(* packets of the connection it removed until it has read the callback as  *)
(* null or called it.                                                      *)
(***************************************************************************)
EXTENDS SfeIpv4

InForce == {rule[c] : c \in Table}

ConnectionOf(r) == CHOOSE c \in Table : rule[c] = r

Pending == [r \in Rule |-> IF r \in InForce THEN UnsyncedPackets(ConnectionOf(r)) ELSE 0]

Owes(k) == cpu[k].pc \in {"flush", "sync"}

Owed == [k \in Cpu |-> IF Owes(k) THEN UnsyncedPackets(cpu[k].conn) ELSE 0]

Engine == INSTANCE SfeEngine WITH
              FlowOf <- [r \in Rule |-> RuleKey(r)],
              Worker <- Cpu,
              offloaded <- InForce,
              pending <- Pending,
              collected <- timer.pending,
              owed <- Owed,
              reported <- reported,
              listening <- callback

\* However receives, requests, flushes and the timer overlap, the connection
\* manager sees an engine with one rule for each flow that forwards by rules
\* in force only and reports each packet once.
ImplementsEngine == Engine!Spec

\* A handler that removed a connection settles its packets, and the timer
\* delivers what it took: no report is held back for good.
SettlesReports == Engine!FairSpec
=============================================================================
