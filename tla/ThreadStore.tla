------------------------------ MODULE ThreadStore ------------------------------
(***************************************************************************)
(* One thread of the transcript store: events.jsonl, meta.json and the     *)
(* .events.lock directory on disk, and the copy each process holds in      *)
(* memory.  Within a process every operation is synchronous; processes     *)
(* share a data directory and interleave between any two file system       *)
(* calls, so an operation is the steps                                     *)
(*                                                                         *)
(*     Acquire -> Reload -> (AppendLine | UpdateSummary) -> WriteMeta      *)
(*             -> ... -> Release                                           *)
(*                                                                         *)
(* A process may crash between any two of them and inside the write of a   *)
(* line, and each write may fail with the process still running.  Not      *)
(* covered: a write that stores fewer bytes than asked and reports no      *)
(* error, and a human who edits the directory by hand.                     *)
(***************************************************************************)
EXTENDS EventLog

CONSTANTS
    Procs,         \* processes that open the same data directory
    Agents,        \* worker profiles that have a watermark
    NoProc,        \* nobody holds the lock directory
    MaxEvents,     \* bound: events in the log
    MaxBatch,      \* bound: entries of one compare-and-append
    MaxFaults      \* bound: process crashes and failed writes together

ASSUME NoProcAssumption == NoProc \notin Procs
ASSUME BoundsAssumption ==
    /\ {MaxEvents, MaxFaults} \subseteq Nat
    /\ MaxBatch \in Nat \ {0}

VARIABLES
    exists,     \* the thread's directory is on disk
    disk,       \* the complete lines of events.jsonl
    torn,       \* a partial line follows them
    meta,       \* the watermarks in meta.json
    lock,       \* who made the lock directory, NoProc when there is none
    pc,         \* where each process is in the operation it runs
    mem,        \* #events: each process's copy of the log
    sum,        \* #summaries: each process's copy of the watermarks
    captured,   \* the head and attempt a caller read for a later call
    job,        \* the operation each process runs
    crashes,    \* crashes so far
    ioErrors    \* failed writes so far

disks  == <<exists, disk, torn, meta>>
locals == <<mem, sum, captured>>
faults == <<crashes, ioErrors>>
vars   == <<disks, lock, pc, locals, job, faults>>

Watermarks == [Agents -> Nat]
Unset      == [a \in Agents |-> 0]

Events == [seq: Nat, by: Procs, cond: BOOLEAN, base: Int, idx: Nat, attempt: Nat]

Ops == {"none", "append", "cas", "evaluate", "watermark", "refresh"}

\* left: entries still to write; done: entries written; base, attempt: what a
\* conditional call expects to find; wm: the watermarks an update installs.
Jobs == [op: Ops, left: Nat, done: Nat, base: Int, attempt: Int, wm: Watermarks]

\* What a caller that read an empty log has captured.
NoCapture == [head |-> 0, attempt |-> 0]

\* A call that has written nothing yet, made with what its caller captured (c).
Call(o, n, c, w) ==
    [op |-> o, left |-> n, done |-> 0, base |-> c.head, attempt |-> c.attempt, wm |-> w]

Idle == Call("none", 0, NoCapture, Unset)

\* A batch after one more of its entries has been written.
Advanced(j) ==
    [op |-> j.op, left |-> j.left - 1, done |-> j.done + 1,
     base |-> j.base, attempt |-> j.attempt, wm |-> j.wm]

Appends(j) == j.op \in {"append", "cas", "evaluate"}
Guarded(j) == j.op \in {"cas", "evaluate"}

PCs == {"closed", "loading", "idle", "locked", "ready", "meta", "unlock"}

\* Inside #withThreadLock's callback, or about to remove the lock.
InCritical(p) == pc[p] \in {"locked", "ready", "meta", "unlock"}

TypeOK ==
    /\ exists \in BOOLEAN
    /\ disk \in Seq(Events)
    /\ torn \in BOOLEAN
    /\ meta \in Watermarks
    /\ lock \in Procs \cup {NoProc}
    /\ pc \in [Procs -> PCs]
    /\ mem \in [Procs -> Seq(Events)]
    /\ sum \in [Procs -> Watermarks]
    /\ captured \in [Procs -> [head: Nat, attempt: Int]]
    /\ job \in [Procs -> Jobs]
    /\ crashes \in Nat
    /\ ioErrors \in Nat

Init ==
    /\ exists = TRUE
    /\ disk = <<>>
    /\ torn = FALSE
    /\ meta = Unset
    /\ lock = NoProc
    /\ pc = [p \in Procs |-> "closed"]
    /\ mem = [p \in Procs |-> <<>>]
    /\ sum = [p \in Procs |-> Unset]
    /\ captured = [p \in Procs |-> NoCapture]
    /\ job = [p \in Procs |-> Idle]
    /\ crashes = 0
    /\ ioErrors = 0

MayFault == crashes + ioErrors < MaxFaults

Goto(p, l) == pc' = [pc EXCEPT ![p] = l]

-------------------------------------------------------------------------------
(* Opening the store.  #loadThread without `strict`, and without the lock. *)

\* Reads meta.json.
LoadMeta(p) ==
    /\ pc[p] = "closed"
    /\ exists
    /\ sum' = [sum EXCEPT ![p] = meta]
    /\ Goto(p, "loading")
    /\ UNCHANGED <<disks, lock, mem, captured, job, faults>>

\* Reads events.jsonl: a torn last line is dropped, the lines before it kept.
\* A directory removed in between leaves a summary with no events.
LoadEvents(p) ==
    /\ pc[p] = "loading"
    /\ mem' = [mem EXCEPT ![p] = disk]
    /\ captured' = [captured EXCEPT ![p] = NoCapture]
    /\ Goto(p, "idle")
    /\ UNCHANGED <<disks, lock, sum, job, faults>>

\* A caller reads the head and the latest attempt it will make its next
\* conditional call against, and goes away to do asynchronous work.
Capture(p) ==
    /\ pc[p] = "idle"
    /\ captured' = [captured EXCEPT
          ![p] = [head |-> HeadSeq(mem[p]), attempt |-> LatestAttempt(mem[p])]]
    /\ UNCHANGED <<disks, lock, pc, mem, sum, job, faults>>

-------------------------------------------------------------------------------
(* The operations.                                                         *)

\* An append, a refresh, and the reset of every watermark that setParallel asks
\* for.
PlainRequests ==
    {Call("append", 1, NoCapture, Unset), Call("refresh", 0, NoCapture, Unset),
     Call("watermark", 0, NoCapture, Unset)}

\* A watermark update patches the whole map it finds in memory, before the lock
\* is taken: setWatermark moves one agent to the head, clearNativeSession to 0.
WatermarkRequests(p) ==
    {Call("watermark", 0, NoCapture, [sum[p] EXCEPT ![a] = n]) :
        a \in Agents, n \in {0, HeadSeq(mem[p])}}

\* A batch on the head, or on the head and the attempt, its caller captured.
ConditionalRequests(p) ==
    {Call(o, n, captured[p], Unset) : o \in {"cas", "evaluate"}, n \in 1..MaxBatch}

\* What a caller may ask for.
Requests(p) == PlainRequests \cup WatermarkRequests(p) \cup ConditionalRequests(p)

\* Faulty: takes over a directory that is already there.
AcquireReclaiming(p) ==
    /\ pc[p] = "idle" /\ exists
    /\ \E j \in Requests(p) :
          /\ Appends(j) => Len(disk) + j.left <= MaxEvents
          /\ job' = [job EXCEPT ![p] = j]
    /\ lock' = p
    /\ Goto(p, "locked")
    /\ UNCHANGED <<disks, locals, faults>>

\* mkdir of the lock directory.  A caller that finds it there is refused, and
\* nothing changes.
Acquire(p) ==
    /\ pc[p] = "idle"
    /\ exists
    /\ lock = NoProc
    /\ \E j \in Requests(p) :
          /\ Appends(j) => Len(disk) + j.left <= MaxEvents
          /\ job' = [job EXCEPT ![p] = j]
    /\ lock' = p
    /\ Goto(p, "locked")
    /\ UNCHANGED <<disks, locals, faults>>

\* Faulty: a conditional call is admitted wherever the head is.
AdmittedAnyHead(j, s) == j.op # "refresh"

\* compareAndAppendBatch's refusals, read from the log it has just reloaded:
\* the head moved, or the attempt is not the one the caller evaluated after.
Admitted(j, s) ==
    \/ j.op \in {"append", "watermark"}
    \/ j.op = "cas" /\ HeadSeq(s) = j.base
    \/ /\ j.op = "evaluate" /\ HeadSeq(s) = j.base
       /\ AttemptsContiguous(s) /\ LatestAttempt(s) = j.attempt

\* Faulty: an ordinary append trusts the copy in memory.
ReloadOnlyConditional(p) ==
    /\ pc[p] = "locked"
    /\ LET s == IF job[p].op = "append" THEN mem[p] ELSE disk
       IN  /\ mem' = [mem EXCEPT ![p] = s]
           /\ sum' = [sum EXCEPT ![p] = meta]
           /\ Goto(p, IF Admitted(job[p], s) THEN "ready" ELSE "unlock")
    /\ UNCHANGED <<disks, lock, captured, job, faults>>

\* Faulty: a refused call returns without removing the lock.
ReloadLeavingLock(p) ==
    /\ pc[p] = "locked"
    /\ mem' = [mem EXCEPT ![p] = disk]
    /\ sum' = [sum EXCEPT ![p] = meta]
    /\ Goto(p, IF Admitted(job[p], disk) THEN "ready" ELSE "idle")
    /\ UNCHANGED <<disks, lock, captured, job, faults>>

\* #loadThread with `strict`, then the checks of the operation.  A torn line or
\* a broken sequence throws before memory changes; a directory that is gone
\* leaves memory as it was.
Reload(p) ==
    /\ pc[p] = "locked"
    /\ IF exists /\ (torn \/ ~Canonical(disk))
       THEN /\ Goto(p, "unlock")
            /\ UNCHANGED <<mem, sum>>
       ELSE LET s == IF exists THEN disk ELSE mem[p]
            IN  /\ mem' = [mem EXCEPT ![p] = s]
                /\ sum' = [sum EXCEPT ![p] = IF exists THEN meta ELSE @]
                /\ Goto(p, IF Admitted(job[p], s) THEN "ready" ELSE "unlock")
    /\ UNCHANGED <<disks, lock, captured, job, faults>>

\* Faulty: every entry of the batch records the evaluation.
StampedTwice(p) ==
    [seq     |-> HeadSeq(mem[p]) + 1,
     by      |-> p,
     cond    |-> Guarded(job[p]),
     base    |-> job[p].base,
     idx     |-> job[p].done + 1,
     attempt |-> IF job[p].op = "evaluate" THEN job[p].attempt + 1 ELSE 0]

\* The event #appendUnlocked stamps.  A batch that evaluates ends with the
\* evaluation, after what the evaluation rests on.
Stamped(p) ==
    LET j == job[p]
    IN  [seq     |-> HeadSeq(mem[p]) + 1,
         by      |-> p,
         cond    |-> Guarded(j),
         base    |-> j.base,
         idx     |-> j.done + 1,
         attempt |-> IF j.op = "evaluate" /\ j.left = 1 THEN j.attempt + 1 ELSE 0]

\* The line is written and synced, then pushed to memory.
AppendLine(p) ==
    /\ pc[p] = "ready" /\ Appends(job[p]) /\ exists
    /\ disk' = Append(disk, Stamped(p))
    /\ mem' = [mem EXCEPT ![p] = Append(@, Stamped(p))]
    /\ job' = [job EXCEPT ![p] = Advanced(@)]
    /\ Goto(p, "meta")
    /\ UNCHANGED <<exists, torn, meta, lock, sum, captured, faults>>

\* Faulty: the event is pushed to memory before the line is written.
AppendFailsAfterPush(p) ==
    /\ pc[p] = "ready" /\ Appends(job[p]) /\ exists
    /\ MayFault /\ ioErrors' = ioErrors + 1
    /\ mem' = [mem EXCEPT ![p] = Append(@, Stamped(p))]
    /\ Goto(p, "unlock")
    /\ UNCHANGED <<disks, lock, sum, captured, job, crashes>>

\* The write throws: with nothing on disk, with part of the line, or, when only
\* the sync failed, with all of it.  The caller sees an error in each case.
AppendFails(p) ==
    /\ pc[p] = "ready" /\ Appends(job[p]) /\ exists
    /\ MayFault /\ ioErrors' = ioErrors + 1
    /\ \/ UNCHANGED <<disk, torn>>
       \/ torn' = TRUE /\ UNCHANGED disk
       \/ disk' = Append(disk, Stamped(p)) /\ UNCHANGED torn
    /\ Goto(p, "unlock")
    /\ UNCHANGED <<exists, meta, lock, locals, job, crashes>>

\* update merges the patch into the summary it reloaded.
UpdateSummary(p) ==
    /\ pc[p] = "ready" /\ job[p].op = "watermark"
    /\ sum' = [sum EXCEPT ![p] = job[p].wm]
    /\ Goto(p, "meta")
    /\ UNCHANGED <<disks, lock, mem, captured, job, faults>>

\* Faulty: goes on with a batch that has no entry left.
WriteMetaOnceMore(p) ==
    /\ pc[p] = "meta" /\ exists
    /\ meta' = sum[p]
    /\ Goto(p, IF Appends(job[p]) THEN "ready" ELSE "unlock")
    /\ UNCHANGED <<exists, disk, torn, lock, locals, job, faults>>

\* meta.json is replaced by rename; a batch goes on with its next entry.
WriteMeta(p) ==
    /\ pc[p] = "meta" /\ exists
    /\ meta' = sum[p]
    /\ Goto(p, IF job[p].left > 0 THEN "ready" ELSE "unlock")
    /\ UNCHANGED <<exists, disk, torn, lock, locals, job, faults>>

\* The summary cannot be written: the rest of the batch is abandoned.
MetaFails(p) ==
    /\ pc[p] = "meta" /\ exists
    /\ MayFault /\ ioErrors' = ioErrors + 1
    /\ Goto(p, "unlock")
    /\ UNCHANGED <<disks, lock, locals, job, crashes>>

\* Every write throws once another process has removed the directory.
WriteToDeleted(p) ==
    /\ ~exists
    /\ \/ pc[p] = "ready" /\ Appends(job[p])
       \/ pc[p] = "meta"
    /\ Goto(p, "unlock")
    /\ UNCHANGED <<disks, lock, locals, job, faults>>

\* The finally of #withThreadLock.  The lock of a deleted thread went with it.
Release(p) ==
    /\ pc[p] = "unlock"
    /\ lock' = IF exists THEN NoProc ELSE lock
    /\ job' = [job EXCEPT ![p] = Idle]
    /\ Goto(p, "idle")
    /\ UNCHANGED <<disks, locals, faults>>

-------------------------------------------------------------------------------
\* delete takes no lock.
Delete(p) ==
    /\ pc[p] = "idle" /\ exists
    /\ exists' = FALSE
    /\ disk' = <<>> /\ torn' = FALSE /\ meta' = Unset /\ lock' = NoProc
    /\ mem' = [mem EXCEPT ![p] = <<>>]
    /\ sum' = [sum EXCEPT ![p] = Unset]
    /\ captured' = [captured EXCEPT ![p] = NoCapture]
    /\ Goto(p, "closed")
    /\ UNCHANGED <<job, faults>>

\* The process dies.  A lock directory it made stays, and the line it was
\* writing may be torn.
Crash(p) ==
    /\ pc[p] # "closed"
    /\ MayFault /\ crashes' = crashes + 1
    /\ \/ torn' = torn
       \/ torn' = TRUE /\ exists /\ pc[p] = "ready" /\ Appends(job[p])
    /\ mem' = [mem EXCEPT ![p] = <<>>]
    /\ sum' = [sum EXCEPT ![p] = Unset]
    /\ captured' = [captured EXCEPT ![p] = NoCapture]
    /\ job' = [job EXCEPT ![p] = Idle]
    /\ Goto(p, "closed")
    /\ UNCHANGED <<exists, disk, meta, lock, ioErrors>>

Step(p) ==
    \/ Reload(p) \/ AppendLine(p) \/ UpdateSummary(p) \/ WriteMeta(p)
    \/ WriteToDeleted(p) \/ Release(p)

Next == \E p \in Procs :
    \/ LoadMeta(p) \/ LoadEvents(p) \/ Capture(p) \/ Acquire(p)
    \/ Step(p) \/ AppendFails(p) \/ MetaFails(p)
    \/ Delete(p) \/ Crash(p)

Spec == Init /\ [][Next]_vars

-------------------------------------------------------------------------------
(* Properties.                                                             *)

\* Two processes are never inside the lock of one thread at a time, and the
\* one inside owns the directory as long as the thread exists: mkdir decides,
\* and nothing reclaims a directory that is there.
LockExclusive ==
    \A p \in Procs : InCritical(p) =>
        /\ exists => lock = p
        /\ \A q \in Procs : InCritical(q) => q = p

\* What a process believes the log to be is always a beginning of what is on
\* disk: a stale process is behind, never on a branch of its own, whatever
\* failed half way through its own writes.
MemoryIsPrefix ==
    exists => \A p \in Procs : IsPrefixOf(mem[p], disk)

\* The evaluations on disk claim the attempts 1, 2, 3, ... in order, whoever
\* wrote them and whatever head and attempt each caller had read.
EvaluationsContiguous == AttemptsContiguous(disk)

\* No refusal, throw or failed write leaves the lock directory behind: only
\* the crash of a process does.
OnlyCrashLeavesLock ==
    crashes = 0 /\ exists /\ lock # NoProc => InCritical(lock)

\* A watermark on disk never lies beyond the log it points into, although it
\* is patched from a copy of the summary that may be stale.
WatermarksWithinLog ==
    exists => \A a \in Agents : meta[a] <= Len(disk)

\* The two together: the state is of its type, and what it stores points into the
\* log it has (setWatermark, writeMeta).
WellFormed == TypeOK /\ WatermarksWithinLog

\* The store is an append-only log with compare-and-append (AppendLog).
Log == INSTANCE AppendLog WITH log <- disk
ImplementsAppendLog == Log!Spec
===============================================================================
