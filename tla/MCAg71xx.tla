------------------------------ MODULE MCAg71xx ------------------------------
(***************************************************************************)
(* Ag71xx for TLC.  The transmit and the receive side are checked apart,   *)
(* each with the whole control around it.  Wrap stands for 2^32.           *)
(***************************************************************************)
EXTENDS Ag71xx

\* Transmit side with fast reset and hang detection; the restart finds no memory.
TxChip ==
    [tx_size |-> 4, rx_size |-> 2, ds_per_pkt |-> 1, fast_reset |-> TRUE, tx_hang_workaround |-> TRUE,
     sends |-> TRUE, receives |-> FALSE, memory_fails |-> TRUE, link_changes |-> 3]

\* Packets in up to two descriptors, no fast reset (AR7100).
SplitChip ==
    [TxChip EXCEPT !.tx_size = 8, !.ds_per_pkt = 2, !.fast_reset = FALSE, !.tx_hang_workaround = FALSE,
                   !.memory_fails = FALSE]

\* Receive side, memory runs out.
RxChip ==
    [TxChip EXCEPT !.tx_size = 8, !.rx_size = 4, !.fast_reset = FALSE, !.sends = FALSE, !.receives = TRUE]

AllChips == {TxChip, SplitChip, RxChip}

\* The transmit side alone, for liveness.
LiveChips == {[TxChip EXCEPT !.memory_fails = FALSE, !.link_changes = 1]}

\* The properties of the split chip say nothing of what follows a trouble.
SplitUntroubled == chip = SplitChip => trouble = {}
=============================================================================
