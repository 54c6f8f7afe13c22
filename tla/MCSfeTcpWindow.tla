-------------------------- MODULE MCSfeTcpWindow --------------------------
(***************************************************************************)
(* Small instances of SfeTcpWindow: sequence numbers modulo 32, a stream   *)
(* in one direction and an answer in the other, on paths of several kinds. *)
(***************************************************************************)
EXTENDS SfeTcpWindow

Both(original, reply) == [d \in Dir |-> IF d = "original" THEN original ELSE reply]

\* Both directions wrap after a few bytes.
WrapSetting ==
    [isn |-> Both(30, 63), win_scale |-> Both(0, 1), max_bytes |-> Both(4, 1), max_queue |-> Both(1, 1),
     window |-> {0, 2}, reorder |-> FALSE, sack |-> FALSE, padding |-> {0}]

\* SACK and D-SACK, away from the wrap.
SackSetting ==
    [WrapSetting EXCEPT !.isn = Both(10, 20), !.win_scale = Both(0, 0), !.max_bytes = Both(4, 0), !.sack = TRUE]

\* Segments overtake each other across the wrap.
ReorderSetting ==
    [WrapSetting EXCEPT !.max_bytes = Both(5, 0), !.max_queue = Both(2, 1), !.window = {1}, !.reorder = TRUE]

PathSettings == {WrapSetting, SackSetting, ReorderSetting}

\* SACK and D-SACK across the wrap.
SackWrapSettings == {[WrapSetting EXCEPT !.sack = TRUE]}

\* Short frames are padded by Ethernet.
PaddingSettings == {[WrapSetting EXCEPT !.isn = Both(10, 20), !.padding = {0, 1}]}
=============================================================================
