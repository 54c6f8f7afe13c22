-------------------------- MODULE MCFastClassifier --------------------------
(***************************************************************************)
(* FastClassifier for TLC: CPUs, conntrack entries and objects are         *)
(* interchangeable.                                                        *)
(***************************************************************************)
EXTENDS FastClassifier, TLC

Symmetry == Permutations(Cpu) \cup Permutations(Ct) \cup Permutations(Obj)
=============================================================================
