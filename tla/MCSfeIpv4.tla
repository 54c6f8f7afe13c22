---------------------------- MODULE MCSfeIpv4 ----------------------------
(***************************************************************************)
(* Small instances of SfeIpv4: a LAN client behind source NAT with a UDP   *)
(* and a TCP flow to the WAN.                                              *)
(*                                                                         *)
(* Two instances share this module.  "Smp" has two CPUs, for the           *)
(* interleavings.  "Live" has one CPU and the timer and packets for every  *)
(* outcome of a receive, enough of them to make matches of both            *)
(* connections active at once, for the shapes of the active list and for   *)
(* liveness.                                                               *)
(***************************************************************************)
EXTENDS SfeIpv4Engine, TLC

CONSTANTS lan, wan, a, b, s, x, c1, c2, k1, k2

\* A masqueraded UDP flow a -> s that leaves as x -> s.
RuleUdp == [proto |-> "udp", src |-> a, dest |-> s, src_xlate |-> x, dest_xlate |-> s,
            src_dev |-> lan, dest_dev |-> wan,
            original_accel |-> TRUE, reply_accel |-> TRUE, no_seq_check |-> FALSE]

\* The same flow created from a packet that came out of an IPsec tunnel.
RuleUdpXfrm == [RuleUdp EXCEPT !.reply_accel = FALSE]

\* A TCP flow b -> s, not translated.
RuleTcp == [proto |-> "tcp", src |-> b, dest |-> s, src_xlate |-> b, dest_xlate |-> s,
            src_dev |-> lan, dest_dev |-> wan,
            original_accel |-> TRUE, reply_accel |-> TRUE, no_seq_check |-> FALSE]

Udp(dev, src, dest, facts) ==
    [dev |-> dev, proto |-> "udp", inner |-> "none", src |-> src, dest |-> dest, is |-> facts]
Tcp(dev, src, dest, facts) ==
    [dev |-> dev, proto |-> "tcp", inner |-> "none", src |-> src, dest |-> dest, is |-> facts]
Icmp(dev, inner, src, dest, facts) ==
    [dev |-> dev, proto |-> "icmp", inner |-> inner, src |-> src, dest |-> dest, is |-> facts]

SmpRule == {RuleUdp, RuleTcp}

\* Both directions of the UDP flow, one of the TCP flow, and for each flow a
\* packet that gives its connection up.
SmpPacket == {Udp(lan, a, s, {}), Udp(wan, s, x, {}), Tcp(lan, b, s, {}),
              Icmp(wan, "udp", x, s, {}), Tcp(wan, s, b, {"out_of_window"})}

\* One packet for every outcome of every test in the receive path.
LivePacket ==
    {Udp(lan, a, s, {}), Udp(wan, s, x, {}), Tcp(lan, b, s, {}), Tcp(wan, s, b, {}),
     Udp(lan, a, s, {"bad_ip_header"}), Tcp(lan, b, s, {"short_header"}),
     Udp(wan, s, x, {"fragment_or_options"}), Udp(lan, a, s, {"small_ttl"}),
     Udp(wan, s, x, {"exceeds_mtu", "gso"}), Tcp(wan, s, b, {"exceeds_mtu", "gso"}),
     Udp(lan, a, s, {"unshare_error"}), Tcp(lan, b, s, {"slow_flags"}),
     Tcp(wan, s, b, {"out_of_window"}), Icmp(wan, "udp", x, s, {}),
     Icmp(wan, "tcp", b, s, {"short_header"})}

\* One direction of the UDP flow always takes the slow path,
\* and conntrack has turned window checking off for the TCP flow.
LiveRule == {RuleUdpXfrm, [RuleTcp EXCEPT !.no_seq_check = TRUE]}

Symmetry == Permutations({c1, c2}) \cup Permutations({k1, k2})
=============================================================================
