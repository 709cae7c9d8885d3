------------------------------ MODULE MCAdapters ------------------------------
(* Adapters for TLC: two turns, two processes, two Claude adapters in a row,  *)
(* two Qwen workers and one approval; and a streamed turn of three messages   *)
(* whose blocks say one of two things, so that a swap would show.             *)
EXTENDS Adapters
=============================================================================
