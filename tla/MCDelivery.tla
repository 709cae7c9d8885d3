----------------------------- MODULE MCDelivery -----------------------------
(* Delivery for TLC: the lane of thread a moves twice, and                   *)
(* thread b has a message whose completion has another number than its       *)
(* delta, as old Claude logs do.                                             *)
EXTENDS Delivery

Event(id, kind, item, text) ==
    [id |-> id, kind |-> kind, worker |-> "w", provider |-> "claude", turn |-> "n1",
     item |-> item, base |-> IF item = "none" THEN NoBase ELSE "m", text |-> text]

MCScript ==
    "a" :> <<Event("e1", "lane.updated", "none", <<>>), Event("e2", "turn.failed", "none", <<>>)>> @@
    "b" :> <<Event("e3", "message.delta", "m#1", <<"y">>), Event("e4", "message.completed", "m#2", <<"y">>)>>
=============================================================================
