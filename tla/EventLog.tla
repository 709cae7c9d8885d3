------------------------------- MODULE EventLog -------------------------------
(***************************************************************************)
(* The pure questions ThreadStore asks of one thread's event log.  A log    *)
(* is a sequence of events; of an event these operators use its sequence    *)
(* number and, when it records the evaluation of a transition, the attempt  *)
(* that evaluation claims (0 for every other kind of event).  One           *)
(* transition stands for all: attempts are counted per transition and no    *)
(* check of one reads another's.                                            *)
(***************************************************************************)
EXTENDS Integers, Sequences, FiniteSets

\* ThreadStore.head: the number of the last event, 0 for an empty log.
HeadSeq(s) == IF s = <<>> THEN 0 ELSE s[Len(s)].seq

\* The strict load accepts only strictly increasing sequence numbers.
Canonical(s) ==
    \A i \in 1..Len(s) : s[i].seq > (IF i = 1 THEN 0 ELSE s[i - 1].seq)

\* The positions of the events that record an evaluation.
EvalIdx(s) == {i \in 1..Len(s) : s[i].attempt # 0}

\* The n-th recorded evaluation claims attempt n.
AttemptsContiguous(s) ==
    \A i \in EvalIdx(s) :
        s[i].attempt = Cardinality({j \in EvalIdx(s) : j <= i})

\* #latestAttempt answers null for a broken count; no attempt equals -1.
NoAttempt == -1

\* The latest accepted attempt, 0 when there is none: where the attempts are
\* contiguous the last of them is their number.
LatestAttempt(s) ==
    IF AttemptsContiguous(s) THEN Cardinality(EvalIdx(s)) ELSE NoAttempt

IsPrefixOf(s, t) ==
    /\ Len(s) <= Len(t)
    /\ \A i \in 1..Len(s) : s[i] = t[i]
===============================================================================
