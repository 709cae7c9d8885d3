---------------------------- MODULE WorkerContract ----------------------------
(***************************************************************************)
(* What the scheduler and the operator rely on in a worker adapter, of     *)
(* whatever vendor (adapters/agent.ts): turns run one at a time and end    *)
(* once, and an approval that was raised is settled once.                  *)
(***************************************************************************)
CONSTANTS Turns, Asks

VARIABLES
    phase,   \* of each turn: "new", "running", "ended"
    ask      \* of each approval: "none", "open", "settled"

vars == <<phase, ask>>

Init ==
    /\ phase = [t \in Turns |-> "new"]
    /\ ask = [a \in Asks |-> "none"]

\* sendTurn accepts a turn: only when none is running.
Begin(t) ==
    /\ \A u \in Turns : phase[u] # "running"
    /\ phase[t] = "new"
    /\ phase' = [phase EXCEPT ![t] = "running"]
    /\ UNCHANGED ask

\* An approval is raised, or refused at once without being shown.
Raise(a) ==
    /\ ask[a] = "none"
    /\ \E s \in {"open", "settled"} : ask' = [ask EXCEPT ![a] = s]
    /\ UNCHANGED phase

\* Some open approvals are settled, and the turn in flight may end with it.
SettleOrEnd ==
    /\ \E S \in SUBSET {a \in Asks : ask[a] = "open"} :
          ask' = [a \in Asks |-> IF a \in S THEN "settled" ELSE ask[a]]
    /\ \/ UNCHANGED phase
       \/ \E t \in Turns : /\ phase[t] = "running"
                           /\ phase' = [phase EXCEPT ![t] = "ended"]

Next == \/ \E t \in Turns : Begin(t)
        \/ \E a \in Asks : Raise(a)
        \/ SettleOrEnd

Spec == Init /\ [][Next]_vars
=============================================================================
