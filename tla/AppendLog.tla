------------------------------- MODULE AppendLog -------------------------------
(***************************************************************************)
(* What ThreadStore promises its callers about one thread's transcript,    *)
(* whatever number of processes write it and wherever they crash: a        *)
(* sequence that only grows, one event at a time, until it is deleted.     *)
(*                                                                         *)
(* An event of a compare-and-append call carries the head its caller had   *)
(* read (base) and its place in the batch (idx): it may only land idx      *)
(* places above that head, so nothing another writer did can lie between   *)
(* what the caller decided on and what it recorded.  An evaluation may     *)
(* only claim the attempt that follows the latest one recorded.            *)
(***************************************************************************)
EXTENDS EventLog

CONSTANT Procs

VARIABLES log, exists

Events == [seq: Nat, by: Procs, cond: BOOLEAN, base: Int, idx: Nat, attempt: Nat]

Init == log = <<>> /\ exists = TRUE

\* The event that may follow the log as it stands.
Follows(e) ==
    /\ e.seq = Len(log) + 1
    /\ e.cond => e.seq = e.base + e.idx
    /\ e.attempt # 0 => e.attempt = LatestAttempt(log) + 1

Extend ==
    /\ exists /\ UNCHANGED exists
    /\ Len(log') = Len(log) + 1
    /\ LET e == log'[Len(log')]
       IN  e \in Events /\ Follows(e) /\ log' = Append(log, e)

Delete == exists /\ exists' = FALSE /\ log' = <<>>

Next == Extend \/ Delete

Spec == Init /\ [][Next]_<<log, exists>>
===============================================================================
