----------------------------- MODULE MCThreadStore -----------------------------
(* Two processes share one thread of a data directory. *)
EXTENDS ThreadStore, TLC

Symmetry == Permutations(Procs)
===============================================================================
