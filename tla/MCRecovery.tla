------------------------------- MODULE MCRecovery -------------------------------
(* Interchangeable workers and requests; two guardrails, so that the edge of   *)
(* the transition tried has a budget of two corrections and may be held for a  *)
(* human, and that of the other one the smaller budget and the stricter end.   *)
EXTENDS Recovery, TLC

CONSTANTS t1, t2

MCGuardrails ==
    {[on |-> {t1, t2}, maxRuns |-> 2, onExhausted |-> "waiting-for-human"],
     [on |-> {t2}, maxRuns |-> 1, onExhausted |-> "blocked"]}

Symmetry ==
    Permutations(Agents) \cup Permutations(Requests)
===============================================================================
