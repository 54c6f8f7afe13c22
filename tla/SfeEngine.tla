----------------------------- MODULE SfeEngine -----------------------------
(***************************************************************************)
(* What an engine of shortcut-fe promises to its connection manager, told  *)
(* without its tables, lists, locks or objects:                            *)
(*                                                                         *)
(*  - at most one rule is in force for a flow, and only a rule in force    *)
(*    forwards packets;                                                    *)
(*  - every forwarded packet is reported once, in a periodic report or     *)
(*    when its rule is withdrawn, and is lost only if its rule was         *)
(*    withdrawn at a moment when nobody was listening.                     *)
(***************************************************************************)
EXTENDS Integers

CONSTANTS Rule,     \* the requests of the connection manager
          FlowOf,   \* the flow each of them is about
          Worker    \* who may withdraw a rule

VARIABLES
    offloaded,  \* the rules in force
    pending,    \* packets each rule forwarded since its last report
    collected,  \* packets of the periodic report under way
    owed,       \* packets each worker has to report for a rule it withdrew
    reported,   \* packets reported
    listening   \* is there anyone to report to?

vars == <<offloaded, pending, collected, owed, reported, listening>>

Init ==
    /\ offloaded = {}
    /\ pending = [r \in Rule |-> 0]
    /\ collected = 0
    /\ owed = [w \in Worker |-> 0]
    /\ reported = 0
    /\ listening = FALSE

Offload(r) ==
    /\ \A q \in offloaded : FlowOf[q] # FlowOf[r]
    /\ offloaded' = offloaded \cup {r}
    /\ UNCHANGED <<pending, collected, owed, reported, listening>>

Forward(r) ==
    /\ r \in offloaded
    /\ pending' = [pending EXCEPT ![r] = @ + 1]
    /\ UNCHANGED <<offloaded, collected, owed, reported, listening>>

\* The worker takes over what the rule has not reported, unless nobody wants it.
Withdraw(w, r) ==
    /\ r \in offloaded
    /\ owed[w] = 0
    /\ offloaded' = offloaded \ {r}
    /\ pending' = [pending EXCEPT ![r] = 0]
    /\ \/ owed' = [owed EXCEPT ![w] = pending[r]]
       \/ ~listening /\ UNCHANGED owed
    /\ UNCHANGED <<collected, reported, listening>>

Collect(r) ==
    /\ r \in offloaded
    /\ collected = 0
    /\ collected' = pending[r]
    /\ pending' = [pending EXCEPT ![r] = 0]
    /\ UNCHANGED <<offloaded, owed, reported, listening>>

ReportCollected ==
    /\ collected > 0
    /\ reported' = reported + collected
    /\ collected' = 0
    /\ UNCHANGED <<offloaded, pending, owed, listening>>

ReportOwed(w) ==
    /\ owed[w] > 0
    /\ reported' = reported + owed[w]
    /\ owed' = [owed EXCEPT ![w] = 0]
    /\ UNCHANGED <<offloaded, pending, collected, listening>>

LoseOwed(w) ==
    /\ owed[w] > 0
    /\ ~listening
    /\ owed' = [owed EXCEPT ![w] = 0]
    /\ UNCHANGED <<offloaded, pending, collected, reported, listening>>

Listen(b) ==
    /\ listening' = b
    /\ UNCHANGED <<offloaded, pending, collected, owed, reported>>

Settle(w) == ReportOwed(w) \/ LoseOwed(w)

Next ==
    \/ \E r \in Rule : Offload(r) \/ Forward(r) \/ Collect(r)
    \/ \E w \in Worker : Settle(w) \/ \E r \in Rule : Withdraw(w, r)
    \/ ReportCollected
    \/ \E b \in BOOLEAN : Listen(b)

Spec == Init /\ [][Next]_vars

\* What was collected is reported and what is owed is settled.
FairSpec ==
    /\ Spec
    /\ WF_vars(ReportCollected)
    /\ \A w \in Worker : WF_vars(Settle(w))
=============================================================================
