----------------------------- MODULE ActiveList -----------------------------
(***************************************************************************)
(* The "active" list of sfe_ipv4.c: a doubly linked list threaded through  *)
(* the connection match objects (active_next, active_prev, active) with    *)
(* its two ends in struct sfe_ipv4 (active_head, active_tail).  It holds   *)
(* the matches that forwarded packets since their last statistics sync.    *)
(*                                                                         *)
(* A list is a record L of the five fields; the operators below are the    *)
(* pointer assignments of the C code, in order.  Represents says which     *)
(* queue of matches a pointer structure stands for.                        *)
(***************************************************************************)
EXTENDS Integers, FiniteSets

CONSTANTS Conn,     \* the memory blocks for struct sfe_ipv4_connection
          NULL      \* the null pointer

(***************************************************************************)
(* A connection is allocated and freed together with its two struct        *)
(* sfe_ipv4_connection_match objects, one for each direction.              *)
(***************************************************************************)
Dir   == {"original", "reply"}
Match == Conn \X Dir

connection(m)    == m[1]
counter_match(m) == <<m[1], IF m[2] = "original" THEN "reply" ELSE "original">>
MatchesOf(c)     == {c} \X Dir

ASSUME NullAssumption == NULL \notin Match
ASSUME ConnAssumption == IsFiniteSet(Conn)

Pointer == Match \cup {NULL}

ListType == [head : Pointer, tail : Pointer,
             next : [Match -> Pointer], prev : [Match -> Pointer],
             active : [Match -> BOOLEAN]]

EmptyList == [head |-> NULL, tail |-> NULL,
              next |-> [m \in Match |-> NULL], prev |-> [m \in Match |-> NULL],
              active |-> [m \in Match |-> FALSE]]

(***************************************************************************)
(* sfe_ipv4_create_rule: a new match object starts off the list.           *)
(***************************************************************************)
Fresh(L, S) ==
    [L EXCEPT !.next   = [m \in Match |-> IF m \in S THEN NULL ELSE L.next[m]],
              !.prev   = [m \in Match |-> IF m \in S THEN NULL ELSE L.prev[m]],
              !.active = [m \in Match |-> IF m \in S THEN FALSE ELSE L.active[m]]]

AppendTailNoPrev(L, m) ==    \* mutant: cm->active_prev is not set
    [L EXCEPT !.active = [@ EXCEPT ![m] = TRUE],
              !.next   = IF L.tail # NULL THEN [@ EXCEPT ![L.tail] = m] ELSE @,
              !.head   = IF L.tail # NULL THEN @ ELSE m,
              !.tail   = m]

(***************************************************************************)
(* The receive path puts a match that is not active at the tail.  The code *)
(* never writes cm->active_next here: it counts on an inactive match       *)
(* having a null active_next.                                              *)
(***************************************************************************)
AppendTail(L, m) ==
    [L EXCEPT !.active = [@ EXCEPT ![m] = TRUE],
              !.prev   = [@ EXCEPT ![m] = L.tail],
              !.next   = IF L.tail # NULL THEN [@ EXCEPT ![L.tail] = m] ELSE @,
              !.head   = IF L.tail # NULL THEN @ ELSE m,
              !.tail   = m]

(***************************************************************************)
(* sfe_ipv4_remove_sfe_ipv4_connection_match, the part about this list:    *)
(* the neighbours are joined; the removed match keeps its own fields.      *)
(***************************************************************************)
Unlink(L, m) ==
    LET n == L.next[m]
        p == L.prev[m]
    IN  [L EXCEPT !.next = IF p # NULL THEN [@ EXCEPT ![p] = n] ELSE @,
                  !.head = IF p # NULL THEN @ ELSE n,
                  !.prev = IF n # NULL THEN [@ EXCEPT ![n] = p] ELSE @,
                  !.tail = IF n # NULL THEN @ ELSE p]

UnlinkIfActive(L, m) == IF L.active[m] THEN Unlink(L, m) ELSE L

(***************************************************************************)
(* sfe_ipv4_periodic_sync takes a counter match out of the middle of the   *)
(* list.  There is no case for a null active_prev: the code dereferences   *)
(* it (a null pointer dereference, were it ever null).                     *)
(***************************************************************************)
UnlinkCounter(L, m) ==
    LET n == L.next[m]
        p == L.prev[m]
        joined == [L.next EXCEPT ![p] = n]
        back   == IF n # NULL THEN [L.prev EXCEPT ![n] = p] ELSE L.prev
    IN  [L EXCEPT !.active = [@ EXCEPT ![m] = FALSE],
                  !.next   = [joined EXCEPT ![m] = NULL],
                  !.prev   = [back EXCEPT ![m] = NULL],
                  !.tail   = IF n # NULL THEN @ ELSE p]

(***************************************************************************)
(* sfe_ipv4_periodic_sync takes the head off; active_prev of the old head  *)
(* is not written (it is null already).                                    *)
(***************************************************************************)
PopHead(L) ==
    LET m == L.head
        n == L.next[m]
    IN  [L EXCEPT !.active = [@ EXCEPT ![m] = FALSE],
                  !.head   = n,
                  !.prev   = IF n # NULL THEN [@ EXCEPT ![n] = NULL] ELSE @,
                  !.tail   = IF n # NULL THEN @ ELSE NULL,
                  !.next   = [@ EXCEPT ![m] = NULL]]

-----------------------------------------------------------------------------
(***************************************************************************)
(* The pointer structure L stands for the queue q of length n: it starts   *)
(* at head, ends at tail, and next and prev walk it in either direction.   *)
(***************************************************************************)
Represents(L, q, n) ==
    /\ \A i, j \in 1..n : q[i] = q[j] => i = j
    /\ L.head = (IF n = 0 THEN NULL ELSE q[1])
    /\ L.tail = (IF n = 0 THEN NULL ELSE q[n])
    /\ \A i \in 1..n : /\ L.next[q[i]] = (IF i = n THEN NULL ELSE q[i + 1])
                       /\ L.prev[q[i]] = (IF i = 1 THEN NULL ELSE q[i - 1])

(***************************************************************************)
(* L is a well-formed list of exactly the matches of S.                    *)
(***************************************************************************)
IsListOf(L, S) ==
    \E q \in [1..Cardinality(S) -> S] :
        /\ Represents(L, q, Cardinality(S))
        /\ \A m \in S : \E i \in 1..Cardinality(S) : q[i] = m
=============================================================================
