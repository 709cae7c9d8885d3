------------------------------- MODULE MCThread --------------------------------
(* Two workers: one reports the diff of its turn itself, the other does not. *)
EXTENDS Thread
===============================================================================
