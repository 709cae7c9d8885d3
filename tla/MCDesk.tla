------------------------------- MODULE MCDesk -------------------------------
(* Desk for TLC.  "plain" routes each label to a role of its own, "swapped"  *)
(* the other way round and "broken" cannot be read.                          *)
EXTENDS Desk

Declared == "l1" :> "r1" @@ "l2" :> "r2"
Swapped == "l1" :> "r2" @@ "l2" :> "r1"
MCDecls ==
    "plain"     :> [ok |-> TRUE, here |-> TRUE, role |-> Declared] @@
    "swapped"   :> [ok |-> TRUE, here |-> TRUE, role |-> Swapped] @@
    "broken"    :> [ok |-> FALSE, here |-> FALSE, role |-> Declared]
=============================================================================
