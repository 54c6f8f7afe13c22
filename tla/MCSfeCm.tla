------------------------------ MODULE MCSfeCm ------------------------------
(***************************************************************************)
(* The connection manager for TLC: model values for the CPUs and the       *)
(* conntrack entries, which are interchangeable.                           *)
(***************************************************************************)
EXTENDS SfeCm, TLC

Symmetry == Permutations(Cpu) \cup Permutations(Ct)
=============================================================================
