--------------------------- MODULE SfeTcpWindow ---------------------------
(***************************************************************************)
(* The TCP window tracking of sfe_ipv4.c (sfe_ipv4_recv_tcp, from the test *)
(* of ..._FLAG_NO_SEQ_CHECK on) for one connection, between two conforming *)
(* TCP endpoints whose sequence numbers wrap.                              *)
(*                                                                         *)
(* The endpoints count bytes without bound; the engine and conntrack only  *)
(* see sequence numbers modulo Modulus (2^32 in the code).  A segment that *)
(* the engine refuses flushes the connection, which ends a behaviour.      *)
(*                                                                         *)
(* A segment with a wrong data offset or a malformed SACK option is also   *)
(* refused; that is part of "out_of_window" in SfeIpv4.  The endpoints     *)
(* here never send one.                                                    *)
(***************************************************************************)
EXTENDS Integers, SequencesExt

CONSTANTS Modulus,        \* 2^32
          MaxAckWindow,   \* SFE_IPV4_TCP_MAX_ACK_WINDOW
          Setting         \* the kinds of connections and paths to look at

Dir == {"original", "reply"}
Counter(d) == IF d = "original" THEN "reply" ELSE "original"

ASSUME ModulusAssumption ==
    /\ Modulus \in Nat \ {0} /\ Modulus % 2 = 0
    /\ MaxAckWindow \in Nat

\* The fields of a setting are explained with the operators that read them below.
\* What is sent in a behaviour, and the windows, stay below half of the sequence
\* space, as TCP itself demands of a window.
ASSUME SettingAssumption ==
    \A s \in Setting :
        /\ s.isn \in [Dir -> Nat] /\ s.max_bytes \in [Dir -> Nat] /\ s.max_queue \in [Dir -> Nat]
        /\ s.reorder \in BOOLEAN /\ s.sack \in BOOLEAN
        /\ s.window \subseteq 0..Modulus - 1 /\ s.window # {}
        /\ s.padding \subseteq Nat
        /\ \A d \in Dir : \A w \in s.window :
              LET scaled == w * 2^s.win_scale[d]
                  bytes == s.max_bytes[Counter(d)]
              IN  /\ scaled \in Nat
                  /\ 2 * bytes + scaled + 2 < Modulus \div 2
                  /\ bytes + scaled + MaxAckWindow + 2 < Modulus \div 2

VARIABLES
    setting,   \* the connection and the path looked at, fixed
    tcp,       \* protocol_state.tcp of the two matches
    flushed,   \* did the engine give the connection up?
    td,        \* ct->proto.tcp.seen of the conntrack entry
    wire,      \* segments between each endpoint and the engine
    snd_nxt, snd_una, snd_edge,   \* of the sender of each direction
    got,       \* the bytes of each direction that its receiver has
    adv_edge,  \* the right edge advertised to the sender of each direction
    dup,       \* the right edge of a duplicate to report by D-SACK, if any
    seen_end   \* history: the highest byte + 1 the engine knows was sent

endpointVars == <<snd_nxt, snd_una, snd_edge, got, adv_edge, dup>>
vars == <<setting, tcp, flushed, td, wire, endpointVars, seen_end>>

win_scale == setting.win_scale    \* the window scale of each direction
Isn       == setting.isn          \* the first byte each direction sends here
MaxBytes  == setting.max_bytes    \* bound: bytes each direction sends
MaxQueue  == setting.max_queue    \* bound: segments each direction has on the way
Reorder   == setting.reorder      \* may segments overtake each other?
SackUsed  == setting.sack         \* did the endpoints negotiate SACK?
Window    == setting.window       \* the window fields an endpoint advertises
Padding   == setting.padding      \* the bytes of Ethernet padding a frame may carry

Scaled(d, w) == w * 2^win_scale[d]

-----------------------------------------------------------------------------
(***************************************************************************)
(* Sequence number arithmetic: u32 values and (s32) differences.           *)
(***************************************************************************)
u32(x) == x % Modulus

UnsignedDifference(x) ==    \* mutant: the cast to s32 is missing
    u32(x)

s32(x) == IF u32(x) < Modulus \div 2 THEN u32(x) ELSE u32(x) - Modulus

(***************************************************************************)
(* sfe_ipv4_process_tcp_option_sack: the largest right edge of the SACK    *)
(* blocks replaces the ack if it is larger, both as unsigned numbers.      *)
(***************************************************************************)
process_tcp_option_sack(edges, ack) == Max(edges \cup {ack})

(***************************************************************************)
(* What the engine reads from a segment of direction d.                    *)
(***************************************************************************)
SeqEnd(p)  == u32(p.seq + p.len)
Sack(p)    == process_tcp_option_sack(p.sack, p.ack)
ScaledWindow(d, p) == u32(Scaled(d, p.win) + (Sack(p) - p.ack))

ExceedsWindow(d, p) ==
    LET cm == tcp[d]
        counter == tcp[Counter(d)]
    IN  \/ s32(p.seq - (cm.max_end + 1)) > 0
        \/ s32(SeqEnd(p) - (cm.end - counter.max_win - 1)) < 0
        \/ s32(Sack(p) - (counter.end + 1)) > 0
        \/ s32(Sack(p) - (counter.end - cm.max_win - MaxAckWindow - 1)) < 0

AlwaysNew(new, old) ==    \* mutant: recorded also when it did not advance
    new

Advanced(new, old) == IF s32(new - old) >= 0 THEN new ELSE old
Larger(new, old)   == IF old < new THEN new ELSE old

\* The state of both matches after a segment of direction d was accepted.
Track(d, p) ==
    [tcp EXCEPT ![d].max_win = Larger(ScaledWindow(d, p), @),
                ![d].end = Advanced(SeqEnd(p), @),
                ![Counter(d)].max_end = Advanced(u32(Sack(p) + ScaledWindow(d, p)), @)]

-----------------------------------------------------------------------------
(***************************************************************************)
(* The endpoints (not part of the repository): they respect the window     *)
(* they are given, never take back what they advertised, retransmit, probe *)
(* with the byte before the first unacknowledged one, and report what they *)
(* hold out of order, and duplicates, by SACK.                             *)
(***************************************************************************)
\* The receiver of direction d is the sender of Counter(d).
rcv_nxt(d) == CHOOSE n \in Isn[d]..Isn[d] + Cardinality(got[d]) :
                  n \notin got[d] /\ Isn[d]..n - 1 \subseteq got[d]

\* Right edges of the blocks that were received beyond rcv_nxt.
OutOfOrderEdges(d) == {n + 1 : n \in {b \in got[d] : b > rcv_nxt(d) /\ b + 1 \notin got[d]}}

Segment(d, seq, len, win, pad) ==
    LET peer == Counter(d)
    IN  [seq |-> u32(seq), len |-> len + pad, win |-> win, ack |-> u32(rcv_nxt(peer)),
         sack |-> IF SackUsed THEN {u32(n) : n \in OutOfOrderEdges(peer) \cup dup[peer]} ELSE {},
         sent |-> [seq |-> seq, len |-> len, ack |-> rcv_nxt(peer)]]

Send(d, seq, len, win, pad) ==
    LET peer == Counter(d)
        edge == rcv_nxt(peer) + Scaled(d, win)
    IN  /\ ~flushed
        /\ Len(wire[d]) < MaxQueue[d]
        /\ \/ seq = snd_nxt[d] /\ seq + len <= snd_edge[d]
           \/ seq = snd_una[d] /\ len \in 1..snd_nxt[d] - seq
           \/ seq = snd_una[d] - 1 /\ len = 0
        /\ seq + len <= Isn[d] + MaxBytes[d]
        /\ edge >= adv_edge[peer]
        /\ wire' = [wire EXCEPT ![d] = Append(@, Segment(d, seq, len, win, pad))]
        /\ snd_nxt' = [snd_nxt EXCEPT ![d] = Max({@, seq + len})]
        /\ adv_edge' = [adv_edge EXCEPT ![peer] = edge]
        /\ dup' = [dup EXCEPT ![peer] = {}]
        /\ UNCHANGED <<tcp, flushed, td, snd_una, snd_edge, got, seen_end>>

Bytes(s) == s.seq .. s.seq + s.len - 1

Deliver(d, p) ==
    LET s == p.sent
        peer == Counter(d)
    IN  /\ got' = [got EXCEPT ![d] = @ \cup {b \in Bytes(s) : b < adv_edge[d]}]
        /\ dup' = [dup EXCEPT ![d] = IF SackUsed /\ s.len > 0 /\ Bytes(s) \subseteq got[d]
                                     THEN {s.seq + s.len} ELSE @]
        /\ snd_una' = [snd_una EXCEPT ![peer] = Max({@, s.ack})]
        /\ snd_edge' = [snd_edge EXCEPT ![peer] = Max({@, s.ack + Scaled(d, p.win)})]
        /\ UNCHANGED <<snd_nxt, adv_edge>>

\* The positions on the wire of the segments that may come next.
Arriving(d) == {i \in DOMAIN wire[d] : i = 1 \/ Reorder}

Lose(d) ==
    /\ ~flushed
    /\ wire[d] # <<>>
    /\ wire' = [wire EXCEPT ![d] = Tail(@)]
    /\ UNCHANGED <<tcp, flushed, td, endpointVars, seen_end>>

-----------------------------------------------------------------------------
(***************************************************************************)
(* The engine receives a segment.  What it forwards arrives or is lost.    *)
(***************************************************************************)
RecvTcpFlush(d) ==
    /\ ~flushed
    /\ \E i \in Arriving(d) : ExceedsWindow(d, wire[d][i])
    /\ flushed' = TRUE
    /\ UNCHANGED <<tcp, td, wire, endpointVars, seen_end>>

RecvTcpForward(d) ==
    /\ ~flushed
    /\ \E i \in Arriving(d) :
          LET p == wire[d][i]
          IN  /\ ~ExceedsWindow(d, p)
              /\ tcp' = Track(d, p)
              /\ seen_end' = [seen_end EXCEPT ![d] = Max({@, p.sent.seq + p.sent.len})]
              /\ Deliver(d, p) \/ UNCHANGED endpointVars
              /\ wire' = [wire EXCEPT ![d] = RemoveAt(@, i)]
    /\ UNCHANGED <<flushed, td>>

-----------------------------------------------------------------------------
(***************************************************************************)
(* The exchange with conntrack.  A sync message carries the engine's       *)
(* values to conntrack; a create request for a connection that is already  *)
(* there carries conntrack's values back.  Syncs may stay away for as long *)
(* as the timer likes, so td may be arbitrarily old; a request that is     *)
(* applied late, after a sync, is one that read an even older td.          *)
(***************************************************************************)
Behind(old, new) == IF s32(old - new) < 0 THEN new ELSE old

\* sfe_cm_sync_rule, case IPPROTO_TCP, for one direction
SyncTcp(t, m) == [maxwin |-> Larger(m.max_win, t.maxwin),
                  end |-> Behind(t.end, m.end),
                  maxend |-> Behind(t.maxend, m.max_end)]

SyncRule ==
    /\ ~flushed
    /\ td' = [d \in Dir |-> SyncTcp(td[d], tcp[d])]
    /\ UNCHANGED <<tcp, flushed, wire, endpointVars, seen_end>>

UpdateTcpOverwrites(m, t) ==    \* mutant: the values are copied untested
    [max_win |-> t.maxwin, end |-> t.end, max_end |-> t.maxend]

UpdateTcp(m, t) == [max_win |-> Larger(t.maxwin, m.max_win),
                    end |-> Behind(m.end, t.end),
                    max_end |-> Behind(m.max_end, t.maxend)]

UpdateTcpState ==
    /\ ~flushed
    /\ tcp' = [d \in Dir |-> UpdateTcp(tcp[d], td[d])]
    /\ UNCHANGED <<flushed, td, wire, endpointVars, seen_end>>

-----------------------------------------------------------------------------
(***************************************************************************)
(* The connection is established and nothing is on the way; conntrack has  *)
(* seen the largest window either side offers.  create_rule copies td, and *)
(* takes 1 for a window of zero.                                           *)
(***************************************************************************)
InitialWindow(d) == Scaled(d, Max(Window))

Init ==
    /\ setting \in Setting
    /\ td = [d \in Dir |-> [maxwin |-> InitialWindow(d), end |-> u32(Isn[d]),
                            maxend |-> u32(Isn[d] + InitialWindow(Counter(d)))]]
    /\ tcp = [d \in Dir |-> [max_win |-> IF td[d].maxwin # 0 THEN td[d].maxwin ELSE 1,
                             end |-> td[d].end, max_end |-> td[d].maxend]]
    /\ flushed = FALSE
    /\ wire = [d \in Dir |-> <<>>]
    /\ snd_nxt = Isn /\ snd_una = Isn /\ seen_end = Isn
    /\ snd_edge = [d \in Dir |-> Isn[d] + InitialWindow(Counter(d))]
    /\ adv_edge = snd_edge
    /\ got = [d \in Dir |-> {}]
    /\ dup = [d \in Dir |-> {}]

Step ==
    \/ \E d \in Dir, win \in Window, pad \in Padding :
          \E seq \in {snd_nxt[d], snd_una[d], snd_una[d] - 1}, len \in 0..2 :
             Send(d, seq, len, win, pad)
    \/ \E d \in Dir : Lose(d) \/ RecvTcpFlush(d) \/ RecvTcpForward(d)
    \/ SyncRule \/ UpdateTcpState

Next == Step /\ UNCHANGED setting

Spec == Init /\ [][Next]_vars

-----------------------------------------------------------------------------
U32 == 0..Modulus - 1

\* While the path keeps the order of segments, none that a conforming endpoint
\* sends is refused, also when the sequence
\* numbers wrap, segments get lost and retransmitted, windows close and
\* probes are sent, and stale requests update the state in between: the four
\* window tests never cost a healthy connection its acceleration.
ConformingNotFlushed == ~Reorder => ~flushed

\* "Sequence number of the next byte to send (seq + segment length)": end is
\* one past the last byte the engine saw.
EndIsNextByte == \A d \in Dir : tcp[d].end = u32(seen_end[d])

\* "Update ACK according to any SACK option": the acknowledgement that the
\* window tests use is at or after the segment's ack and the right edge of
\* every block of its SACK option.
AckFollowsSack ==
    \A d \in Dir : wire[d] # <<>> =>
        LET p == Head(wire[d])
        IN  \A e \in p.sack \cup {p.ack} : s32(Sack(p) - e) >= 0

\* Nothing moves the tracked window back: neither a late or duplicate segment
\* nor an update from a request with an old copy of conntrack's values.
WindowNeverRecedes ==
    [][\A d \in Dir : /\ s32(tcp'[d].end - tcp[d].end) >= 0
                      /\ s32(tcp'[d].max_end - tcp[d].max_end) >= 0
                      /\ tcp'[d].max_win >= tcp[d].max_win]_vars
=============================================================================
