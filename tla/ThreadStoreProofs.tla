--------------------------- MODULE ThreadStoreProofs ---------------------------
(***************************************************************************)
(* What ThreadStore guarantees for every number of processes, agents and   *)
(* events.  The invariants the runs check are not inductive by themselves: *)
(* they rest on what a process inside the lock knows, collected in IInv.   *)
(***************************************************************************)
EXTENDS ThreadStore, FiniteSetTheorems, TLAPS

\* The log is numbered 1, 2, 3, ...
DiskNumbered == \A i \in 1..Len(disk) : disk[i].seq = i

\* A process that may write has the whole log in memory.
Writing(p) == pc[p] \in {"ready", "meta"}

WriterCurrent == exists => \A p \in Procs : Writing(p) => mem[p] = disk

\* A conditional call that was admitted still stands on the head and on the
\* attempt its caller had read.
JobStands(p) ==
    /\ pc[p] = "ready" /\ Appends(job[p]) => job[p].left > 0
    /\ pc[p] = "locked" => job[p].done = 0 /\ (Appends(job[p]) => job[p].left > 0)
    /\ exists /\ Writing(p) =>
          /\ Guarded(job[p]) => Len(disk) = job[p].base + job[p].done
          /\ job[p].op = "evaluate" /\ job[p].left > 0 => LatestAttempt(disk) = job[p].attempt

JobsStand == \A p \in Procs : JobStands(p)

\* No copy of a watermark, installed or still to be, lies beyond the log.
CopiesWithinLog ==
    exists => \A p \in Procs, a \in Agents :
        sum[p][a] <= Len(disk) /\ job[p].wm[a] <= Len(disk)

LockInv == LockExclusive /\ OnlyCrashLeavesLock
LogInv  == DiskNumbered /\ MemoryIsPrefix /\ WriterCurrent /\ EvaluationsContiguous
MarkInv == WatermarksWithinLog /\ CopiesWithinLog

IInv == TypeOK /\ LockInv /\ LogInv /\ JobsStand /\ MarkInv

-------------------------------------------------------------------------------
(* The operators of EventLog, for logs over any set E of events whose attempt is *)
(* a natural number.                                                            *)

\* The evaluations of a log are finitely many, so they can be counted.
LEMMA EvalIdxFinite ==
    ASSUME NEW E, NEW s \in Seq(E)
    PROVE  /\ IsFiniteSet(EvalIdx(s))
           /\ Cardinality(EvalIdx(s)) \in Nat
<1>1. Len(s) \in Nat /\ EvalIdx(s) \in SUBSET (1..Len(s))
    BY DEF EvalIdx
<1>2. IsFiniteSet(1..Len(s))
    BY <1>1, FS_Interval
<1>3. IsFiniteSet(EvalIdx(s))
    BY <1>1, <1>2, FS_Subset
<1> QED BY <1>3, FS_CardinalityType

\* #latestAttempt answers a natural number or the sentinel.
LEMMA LatestAttemptType ==
    ASSUME NEW E, NEW s \in Seq(E)
    PROVE  LatestAttempt(s) \in Nat \cup {NoAttempt}
BY EvalIdxFinite DEF LatestAttempt

\* In a log numbered 1, 2, 3, ... the head is the length.
LEMMA HeadIsLength ==
    ASSUME NEW E, NEW s \in Seq(E), \A i \in 1..Len(s) : s[i].seq = i
    PROVE  HeadSeq(s) = Len(s)
<1>1. CASE s = <<>>
    BY <1>1 DEF HeadSeq
<1>2. CASE s # <<>>
    <2>1. Len(s) \in 1..Len(s)
        BY <1>2
    <2> QED BY <2>1, <1>2 DEF HeadSeq
<1> QED BY <1>1, <1>2

\* A log is a beginning of itself.
LEMMA PrefixReflexive ==
    ASSUME NEW E, NEW s \in Seq(E)
    PROVE  IsPrefixOf(s, s)
BY DEF IsPrefixOf

\* A beginning of a log is one of the log's every extension.
LEMMA PrefixAppend ==
    ASSUME NEW E, NEW s \in Seq(E), NEW t \in Seq(E), NEW e \in E, IsPrefixOf(s, t)
    PROVE  IsPrefixOf(s, Append(t, e))
BY DEF IsPrefixOf

\* The evaluations counted up to a position of the old log stay the same.
LEMMA CountUnchanged ==
    ASSUME NEW E, NEW s \in Seq(E), NEW e \in E, NEW i \in 1..Len(s)
    PROVE  /\ i \in EvalIdx(Append(s, e)) <=> i \in EvalIdx(s)
           /\ {j \in EvalIdx(Append(s, e)) : j <= i} = {j \in EvalIdx(s) : j <= i}
           /\ Append(s, e)[i] = s[i]
<1> DEFINE t == Append(s, e)
<1>1. Len(s) \in Nat /\ Len(t) = Len(s) + 1 /\ \A k \in 1..Len(s) : t[k] = s[k]
    OBVIOUS
<1> QED BY <1>1 DEF EvalIdx

\* An event that evaluates nothing leaves the attempts alone.
LEMMA AppendPlain ==
    ASSUME NEW E, NEW s \in Seq(E), NEW e \in E, e.attempt = 0, AttemptsContiguous(s)
    PROVE  /\ AttemptsContiguous(Append(s, e))
           /\ LatestAttempt(Append(s, e)) = LatestAttempt(s)
<1> DEFINE t == Append(s, e)
<1>1. Len(s) \in Nat /\ Len(t) = Len(s) + 1 /\ t[Len(t)] = e /\ \A k \in 1..Len(s) : t[k] = s[k]
    OBVIOUS
<1>2. EvalIdx(t) = EvalIdx(s)
    BY <1>1 DEF EvalIdx
<1>3. AttemptsContiguous(t)
    <2> SUFFICES ASSUME NEW i \in EvalIdx(t)
                 PROVE  t[i].attempt = Cardinality({j \in EvalIdx(t) : j <= i})
        BY DEF AttemptsContiguous
    <2>1. i \in EvalIdx(s) /\ i \in 1..Len(s)
        BY <1>2 DEF EvalIdx
    <2>2. s[i].attempt = Cardinality({j \in EvalIdx(s) : j <= i})
        BY <2>1 DEF AttemptsContiguous
    <2> QED BY <1>1, <1>2, <2>1, <2>2
<1> QED BY <1>2, <1>3 DEF LatestAttempt

\* An evaluation that claims the attempt after the latest keeps them contiguous.
LEMMA AppendEvaluation ==
    ASSUME NEW E, NEW s \in Seq(E), NEW e \in E, AttemptsContiguous(s),
           e.attempt = LatestAttempt(s) + 1
    PROVE  AttemptsContiguous(Append(s, e))
<1> DEFINE t == Append(s, e)
<1> DEFINE n == Len(s) + 1
<1>1. Len(s) \in Nat /\ Len(t) = n /\ t[n] = e /\ \A k \in 1..Len(s) : t[k] = s[k]
    OBVIOUS
<1>2. IsFiniteSet(EvalIdx(s)) /\ Cardinality(EvalIdx(s)) \in Nat /\ EvalIdx(s) \subseteq 1..Len(s)
    BY EvalIdxFinite DEF EvalIdx
<1>3. e.attempt = Cardinality(EvalIdx(s)) + 1 /\ e.attempt # 0
    BY <1>2 DEF LatestAttempt
<1>4. EvalIdx(t) = EvalIdx(s) \cup {n}
    BY <1>1, <1>3 DEF EvalIdx
<1> SUFFICES ASSUME NEW i \in EvalIdx(t)
             PROVE  t[i].attempt = Cardinality({j \in EvalIdx(t) : j <= i})
    BY DEF AttemptsContiguous
<1>5. CASE i = n
    <2>1. {j \in EvalIdx(t) : j <= i} = EvalIdx(s) \cup {n} /\ n \notin EvalIdx(s)
        BY <1>1, <1>2, <1>4, <1>5
    <2>2. Cardinality(EvalIdx(s) \cup {n}) = Cardinality(EvalIdx(s)) + 1
        BY <1>2, <2>1, FS_AddElement
    <2> QED BY <1>1, <1>3, <1>5, <2>1, <2>2
<1>6. CASE i # n
    <2>1. i \in EvalIdx(s) /\ i \in 1..Len(s)
        BY <1>2, <1>4, <1>6
    <2>2. {j \in EvalIdx(t) : j <= i} = {j \in EvalIdx(s) : j <= i}
        BY <2>1, CountUnchanged
    <2>3. s[i].attempt = Cardinality({j \in EvalIdx(s) : j <= i})
        BY <2>1 DEF AttemptsContiguous
    <2> QED BY <1>1, <2>1, <2>2, <2>3
<1> QED BY <1>5, <1>6

-------------------------------------------------------------------------------
(* Types *)

\* What LoadEvents, Capture and the requests read from a copy of the log.
LEMMA ReadsType ==
    ASSUME TypeOK, NEW p \in Procs
    PROVE  /\ HeadSeq(mem[p]) \in Nat
           /\ LatestAttempt(mem[p]) \in Int
           /\ LatestAttempt(disk) \in Int
<1>1. mem[p] \in Seq(Events) /\ disk \in Seq(Events)
    BY DEF TypeOK
<1>2. HeadSeq(mem[p]) \in Nat
    <2>1. CASE mem[p] = <<>>
        BY <2>1 DEF HeadSeq
    <2>2. CASE mem[p] # <<>>
        <3>1. mem[p][Len(mem[p])] \in Events
            BY <1>1, <2>2
        <3> QED BY <2>2, <3>1 DEF HeadSeq, Events
    <2> QED BY <2>1, <2>2
<1> QED BY <1>1, <1>2, LatestAttemptType DEF NoAttempt

\* Every request is a job.
LEMMA RequestsType ==
    ASSUME TypeOK, NEW p \in Procs, NEW j \in Requests(p)
    PROVE  /\ j \in Jobs
           /\ j.done = 0
           /\ Appends(j) => j.left > 0
<1>1. HeadSeq(mem[p]) \in Nat /\ sum[p] \in Watermarks
    BY ReadsType DEF TypeOK
<1>2. captured[p].head \in Nat /\ captured[p].attempt \in Int
    BY DEF TypeOK
<1>3. 1..MaxBatch \subseteq Nat
    BY BoundsAssumption
<1> QED BY <1>1, <1>2, <1>3
    DEF Requests, PlainRequests, WatermarkRequests, ConditionalRequests, Call, NoCapture, Jobs,
        Ops, Watermarks, Unset, Appends

\* The event a writer stamps is an event, and the next one of the log.
LEMMA StampedType ==
    ASSUME IInv, NEW p \in Procs, pc[p] = "ready", Appends(job[p]), exists
    PROVE  /\ Stamped(p) \in Events
           /\ Stamped(p).seq = Len(disk) + 1
           /\ job[p].left \in Nat /\ job[p].left > 0
           /\ mem[p] = disk
           /\ Stamped(p).cond => Stamped(p).seq = Stamped(p).base + Stamped(p).idx
           /\ Stamped(p).attempt # 0 => Stamped(p).attempt = LatestAttempt(disk) + 1
<1>1. /\ mem[p] = disk
      /\ disk \in Seq(Events)
      /\ job[p] \in Jobs
      /\ job[p].left > 0
    BY DEF IInv, LogInv, WriterCurrent, Writing, TypeOK, JobsStand, JobStands
<1>2. HeadSeq(mem[p]) = Len(disk)
    BY <1>1, HeadIsLength DEF IInv, LogInv, DiskNumbered
<1>3. Len(disk) \in Nat
    BY <1>1
<1>4. /\ job[p].left \in Nat /\ job[p].done \in Nat
      /\ job[p].base \in Int /\ job[p].attempt \in Int
    BY <1>1 DEF Jobs
<1>5. LatestAttempt(disk) \in Nat \cup {-1}
    BY <1>1, LatestAttemptType DEF NoAttempt
<1>6. /\ Guarded(job[p]) => Len(disk) = job[p].base + job[p].done
      /\ job[p].op = "evaluate" => LatestAttempt(disk) = job[p].attempt
    BY <1>1 DEF IInv, JobsStand, JobStands, Writing
<1>7. Guarded(job[p]) \in BOOLEAN
    BY DEF Guarded
<1>8. job[p].op = "evaluate" => Guarded(job[p])
    BY DEF Guarded
<1>9. /\ Stamped(p).seq = Len(disk) + 1 /\ Stamped(p).by = p
      /\ Stamped(p).cond = Guarded(job[p]) /\ Stamped(p).base = job[p].base
      /\ Stamped(p).idx = job[p].done + 1
      /\ Stamped(p).attempt = IF job[p].op = "evaluate" /\ job[p].left = 1 THEN job[p].attempt + 1 ELSE 0
    BY <1>2 DEF Stamped
<1>10. Stamped(p).attempt \in Nat
    BY <1>4, <1>5, <1>6, <1>9
<1>11. Stamped(p) \in Events
    BY <1>2, <1>3, <1>4, <1>7, <1>9, <1>10 DEF Stamped, Events
<1>12. Stamped(p).cond => Stamped(p).seq = Stamped(p).base + Stamped(p).idx
    BY <1>3, <1>4, <1>6, <1>9
<1>13. Stamped(p).attempt # 0 => Stamped(p).attempt = LatestAttempt(disk) + 1
    BY <1>6, <1>9
<1> QED BY <1>1, <1>4, <1>9, <1>11, <1>12, <1>13

\* The actions of one process, as Next has them.
Act(p) ==
    \/ LoadMeta(p) \/ LoadEvents(p) \/ Capture(p) \/ Acquire(p)
    \/ Step(p) \/ AppendFails(p) \/ MetaFails(p)
    \/ Delete(p) \/ Crash(p)

LEMMA UnsetType == Unset \in Watermarks
BY DEF Unset, Watermarks

LEMMA IdleType ==
    /\ Idle \in Jobs
    /\ ~Appends(Idle) /\ ~Guarded(Idle) /\ Idle.done = 0
    /\ \A a \in Agents : Idle.wm[a] = 0
BY UnsetType DEF Idle, Call, NoCapture, Jobs, Ops, Appends, Guarded, Unset

\* Every step keeps every variable in its type.
LEMMA TypeStep ==
    ASSUME IInv, NEW p \in Procs, Act(p)
    PROVE  TypeOK'
<1>1. TypeOK
    BY DEF IInv
<1>2. /\ disk \in Seq(Events) /\ meta \in Watermarks /\ mem[p] \in Seq(Events)
      /\ sum[p] \in Watermarks /\ job[p] \in Jobs /\ <<>> \in Seq(Events)
    BY <1>1 DEF TypeOK
<1>3. NoCapture \in [head: Nat, attempt: Int]
    BY DEF NoCapture
<1>4. CASE LoadMeta(p)
    BY <1>1, <1>2, <1>4 DEF LoadMeta, TypeOK, Goto, PCs, disks, faults
<1>5. CASE LoadEvents(p)
    BY <1>1, <1>2, <1>3, <1>5 DEF LoadEvents, TypeOK, Goto, PCs, disks, faults
<1>6. CASE Capture(p)
    <2>1. [head |-> HeadSeq(mem[p]), attempt |-> LatestAttempt(mem[p])] \in [head: Nat, attempt: Int]
        BY <1>1, ReadsType
    <2> QED BY <1>1, <1>6, <2>1 DEF Capture, TypeOK, disks, faults
<1>7. CASE Acquire(p)
    <2>1. PICK j \in Requests(p) : job' = [job EXCEPT ![p] = j]
        BY <1>7 DEF Acquire
    <2>2. j \in Jobs
        BY <1>1, <2>1, RequestsType
    <2> QED BY <1>1, <1>7, <2>1, <2>2 DEF Acquire, TypeOK, Goto, PCs, disks, locals, faults
<1>8. CASE Reload(p)
    <2>1. /\ mem' \in [Procs -> Seq(Events)]
          /\ sum' \in [Procs -> Watermarks]
          /\ pc' \in [Procs -> PCs]
        BY <1>1, <1>2, <1>8 DEF Reload, TypeOK, Goto, PCs
    <2> QED BY <1>1, <1>8, <2>1 DEF Reload, TypeOK, disks, faults
<1>9. CASE AppendLine(p)
    <2>1. Stamped(p) \in Events /\ job[p].left \in Nat /\ job[p].left > 0
        BY <1>9, StampedType DEF AppendLine
    <2>2. Append(disk, Stamped(p)) \in Seq(Events) /\ Append(mem[p], Stamped(p)) \in Seq(Events)
        BY <1>2, <2>1
    <2>3. Advanced(job[p]) \in Jobs
        BY <1>2, <2>1 DEF Advanced, Jobs
    <2> QED BY <1>1, <1>9, <2>2, <2>3 DEF AppendLine, TypeOK, Goto, PCs, faults
<1>10. CASE UpdateSummary(p)
    <2>1. job[p].wm \in Watermarks
        BY <1>2 DEF Jobs
    <2> QED BY <1>1, <1>10, <2>1 DEF UpdateSummary, TypeOK, Goto, PCs, disks, faults
<1>11. CASE WriteMeta(p)
    BY <1>1, <1>2, <1>11 DEF WriteMeta, TypeOK, Goto, PCs, locals, faults
<1>12. CASE WriteToDeleted(p)
    BY <1>1, <1>12 DEF WriteToDeleted, TypeOK, Goto, PCs, disks, locals, faults
<1>13. CASE Release(p)
    BY <1>1, <1>13, IdleType DEF Release, TypeOK, Goto, PCs, disks, locals, faults
<1>14. CASE AppendFails(p)
    <2>1. Stamped(p) \in Events
        BY <1>14, StampedType DEF AppendFails
    <2>2. Append(disk, Stamped(p)) \in Seq(Events)
        BY <1>2, <2>1
    <2>3. disk' = disk \/ disk' = Append(disk, Stamped(p))
        BY <1>14 DEF AppendFails
    <2>4. torn' = torn \/ torn' = TRUE
        BY <1>14, Zenon DEF AppendFails
    <2>5. torn' \in BOOLEAN
        BY <1>1, <2>4 DEF TypeOK
    <2>6. disk' \in Seq(Events)
        BY <1>2, <2>2, <2>3
    <2> QED BY <1>1, <1>14, <2>5, <2>6 DEF AppendFails, TypeOK, Goto, PCs, locals
<1>15. CASE MetaFails(p)
    BY <1>1, <1>15 DEF MetaFails, TypeOK, Goto, PCs, disks, locals
<1>16. CASE Delete(p)
    BY <1>1, <1>2, <1>3, <1>16, UnsetType DEF Delete, TypeOK, Goto, PCs, faults
<1>17. CASE Crash(p)
    <2>1. torn' = torn \/ torn' = TRUE
        BY <1>17 DEF Crash
    <2>2. torn' \in BOOLEAN
        BY <1>1, <2>1 DEF TypeOK
    <2> QED BY <1>1, <1>2, <1>3, <1>17, <2>2, UnsetType, IdleType DEF Crash, TypeOK, Goto, PCs
<1> QED BY <1>4, <1>5, <1>6, <1>7, <1>8, <1>9, <1>10, <1>11, <1>12, <1>13, <1>14, <1>15, <1>16, <1>17
        DEF Act, Step

-------------------------------------------------------------------------------
(* The lock *)

\* A step inside the lock, which takes no lock and removes none.
LEMMA LockFrame ==
    ASSUME TypeOK, LockInv, NEW p \in Procs, NEW l \in {"locked", "ready", "meta", "unlock"},
           InCritical(p), Goto(p, l), lock' = lock, exists' = exists, crashes' = crashes
    PROVE  LockInv'
BY DEF TypeOK, LockInv, LockExclusive, OnlyCrashLeavesLock, InCritical, Goto

\* A step outside the lock that stays outside.
LEMMA LockAway ==
    ASSUME TypeOK, LockInv, NEW p \in Procs, NEW l \in {"loading", "idle"},
           ~InCritical(p), Goto(p, l), lock' = lock, exists' = exists, crashes' = crashes
    PROVE  LockInv'
BY DEF TypeOK, LockInv, LockExclusive, OnlyCrashLeavesLock, InCritical, Goto

LEMMA LockStep ==
    ASSUME IInv, NEW p \in Procs, Act(p)
    PROVE  LockInv'
<1>1. TypeOK /\ LockInv
    BY DEF IInv
<1>2. CASE LoadMeta(p) \/ LoadEvents(p)
    <2>1. ~InCritical(p) /\ (Goto(p, "loading") \/ Goto(p, "idle"))
        BY <1>2 DEF LoadMeta, LoadEvents, InCritical
    <2> QED BY <1>1, <1>2, <2>1, LockAway DEF LoadMeta, LoadEvents, disks, faults
<1>3. CASE Capture(p)
    BY <1>1, <1>3 DEF Capture, LockInv, LockExclusive, OnlyCrashLeavesLock, InCritical, disks, faults
<1>4. CASE Acquire(p)
    <2>1. \A q \in Procs : ~InCritical(q)
        BY <1>1, <1>4, NoProcAssumption DEF Acquire, LockInv, LockExclusive
    <2>2. exists /\ exists' /\ lock' = p /\ pc' = [pc EXCEPT ![p] = "locked"]
        BY <1>4 DEF Acquire, Goto, disks
    <2>3. \A q \in Procs : InCritical(q)' <=> q = p
        BY <1>1, <2>1, <2>2 DEF TypeOK, InCritical
    <2>4. InCritical(lock)'
        BY <2>2, <2>3, NoProcAssumption
    <2> QED BY <2>2, <2>3, <2>4 DEF LockInv, LockExclusive, OnlyCrashLeavesLock
<1>5. CASE Reload(p) \/ AppendLine(p) \/ UpdateSummary(p) \/ WriteMeta(p) \/ WriteToDeleted(p)
    <2>1. InCritical(p) /\ \E l \in {"locked", "ready", "meta", "unlock"} : Goto(p, l)
        BY <1>5 DEF Reload, AppendLine, UpdateSummary, WriteMeta, WriteToDeleted, InCritical
    <2>2. lock' = lock /\ exists' = exists /\ crashes' = crashes
        BY <1>5 DEF Reload, AppendLine, UpdateSummary, WriteMeta, WriteToDeleted, disks, faults
    <2> QED BY <1>1, <2>1, <2>2, LockFrame
<1>6. CASE AppendFails(p) \/ MetaFails(p)
    <2>1. InCritical(p) /\ Goto(p, "unlock")
        BY <1>6 DEF AppendFails, MetaFails, InCritical
    <2>2. lock' = lock /\ exists' = exists /\ crashes' = crashes
        BY <1>6 DEF AppendFails, MetaFails, disks
    <2> QED BY <1>1, <2>1, <2>2, LockFrame
<1>7. CASE Release(p)
    <2>1. InCritical(p) /\ pc' = [pc EXCEPT ![p] = "idle"] /\ exists' = exists
        BY <1>7 DEF Release, InCritical, Goto, disks
    <2>2. \A q \in Procs : ~InCritical(q)'
        BY <1>1, <2>1 DEF TypeOK, LockInv, LockExclusive, InCritical
    <2>3. exists' => lock' = NoProc
        BY <1>7 DEF Release, disks
    <2> QED BY <2>2, <2>3 DEF LockInv, LockExclusive, OnlyCrashLeavesLock
<1>8. CASE Delete(p)
    <2>1. ~exists' /\ pc' = [pc EXCEPT ![p] = "closed"]
        BY <1>8 DEF Delete, Goto
    <2>2. \A q \in Procs : InCritical(q)' => InCritical(q)
        BY <1>1, <2>1 DEF TypeOK, InCritical
    <2> QED BY <1>1, <2>1, <2>2 DEF LockInv, LockExclusive, OnlyCrashLeavesLock
<1>9. CASE Crash(p)
    <2>1. exists' = exists /\ lock' = lock /\ pc' = [pc EXCEPT ![p] = "closed"]
        BY <1>9 DEF Crash, Goto
    <2>2. \A q \in Procs : InCritical(q)' => InCritical(q)
        BY <1>1, <2>1 DEF TypeOK, InCritical
    <2>3. crashes' # 0
        BY <1>1, <1>9 DEF TypeOK, Crash
    <2> QED BY <1>1, <2>1, <2>2, <2>3 DEF LockInv, LockExclusive, OnlyCrashLeavesLock
<1> QED BY <1>2, <1>3, <1>4, <1>5, <1>6, <1>7, <1>8, <1>9 DEF Act, Step

-------------------------------------------------------------------------------
(* The log *)

\* Only one process can be between the reload and the end of its write.
LEMMA OneWriter ==
    ASSUME IInv, NEW p \in Procs, InCritical(p), NEW q \in Procs, q # p
    PROVE  ~Writing(q)
BY DEF IInv, LockInv, LockExclusive, InCritical, Writing

\* One more line keeps the log numbered and its attempts contiguous, and every
\* copy of the log a beginning of it.
LEMMA LogGrows ==
    ASSUME IInv, NEW p \in Procs, pc[p] = "ready", Appends(job[p]), exists,
           disk' = Append(disk, Stamped(p))
    PROVE  /\ DiskNumbered'
           /\ EvaluationsContiguous'
           /\ \A q \in Procs : IsPrefixOf(mem[q], disk')
           /\ Len(disk') = Len(disk) + 1
           /\ Stamped(p).attempt = 0 => LatestAttempt(disk') = LatestAttempt(disk)
<1> DEFINE e == Stamped(p)
<1>1. /\ e \in Events
      /\ e.seq = Len(disk) + 1
      /\ e.attempt # 0 => e.attempt = LatestAttempt(disk) + 1
    BY StampedType
<1>2. /\ disk \in Seq(Events)
      /\ \A i \in 1..Len(disk) : disk[i].seq = i
      /\ AttemptsContiguous(disk)
      /\ \A q \in Procs : mem[q] \in Seq(Events) /\ IsPrefixOf(mem[q], disk)
    BY DEF IInv, TypeOK, LogInv, DiskNumbered, EvaluationsContiguous, MemoryIsPrefix
<1>3. /\ Len(disk) \in Nat
      /\ Len(disk') = Len(disk) + 1
      /\ disk'[Len(disk')] = e
      /\ \A i \in 1..Len(disk) : disk'[i] = disk[i]
    BY <1>1, <1>2
<1>4. DiskNumbered'
    BY <1>1, <1>2, <1>3 DEF DiskNumbered
<1>5. e.attempt = 0 => AttemptsContiguous(disk') /\ LatestAttempt(disk') = LatestAttempt(disk)
    BY <1>1, <1>2, AppendPlain
<1>6. e.attempt # 0 => AttemptsContiguous(disk')
    BY <1>1, <1>2, AppendEvaluation
<1>7. \A q \in Procs : IsPrefixOf(mem[q], disk')
    BY <1>1, <1>2, PrefixAppend
<1> QED BY <1>3, <1>4, <1>5, <1>6, <1>7 DEF EvaluationsContiguous

\* Nothing is written: what is asked of the log is asked of the copies.
LEMMA LogFrame ==
    ASSUME IInv, disk' = disk, exists' = exists,
           exists => \A q \in Procs : IsPrefixOf(mem'[q], disk),
           exists => \A q \in Procs : Writing(q)' => mem'[q] = disk
    PROVE  LogInv'
BY DEF IInv, LogInv, DiskNumbered, EvaluationsContiguous, MemoryIsPrefix, WriterCurrent

LEMMA LogStep ==
    ASSUME IInv, NEW p \in Procs, Act(p)
    PROVE  LogInv'
<1>1. /\ TypeOK /\ disk \in Seq(Events)
      /\ exists => \A q \in Procs : IsPrefixOf(mem[q], disk)
      /\ exists => \A q \in Procs : Writing(q) => mem[q] = disk
    BY DEF IInv, TypeOK, LogInv, MemoryIsPrefix, WriterCurrent
<1>2. IsPrefixOf(disk, disk) /\ IsPrefixOf(<<>>, disk)
    BY <1>1, PrefixReflexive DEF IsPrefixOf
<1>3. CASE LoadMeta(p) \/ Capture(p) \/ Acquire(p) \/ UpdateSummary(p) \/ WriteMeta(p)
           \/ WriteToDeleted(p) \/ Release(p) \/ MetaFails(p)
    <2>1. disk' = disk /\ exists' = exists /\ mem' = mem
        BY <1>3 DEF LoadMeta, Capture, Acquire, UpdateSummary, WriteMeta, WriteToDeleted, Release, MetaFails,
                    disks, locals
    <2>2. \A q \in Procs : Writing(q)' => Writing(q)
        BY <1>1, <1>3 DEF LoadMeta, Capture, Acquire, UpdateSummary, WriteMeta, WriteToDeleted, Release,
                    MetaFails, Goto, Writing, TypeOK
    <2> QED BY <1>1, <2>1, <2>2, LogFrame
<1>4. CASE LoadEvents(p)
    <2>1. disk' = disk /\ exists' = exists /\ mem' = [mem EXCEPT ![p] = disk]
        BY <1>4 DEF LoadEvents, disks
    <2>2. \A q \in Procs : Writing(q)' => Writing(q) /\ q # p
        BY <1>1, <1>4 DEF LoadEvents, Goto, Writing, TypeOK
    <2> QED BY <1>1, <1>2, <2>1, <2>2, LogFrame DEF TypeOK
<1>5. CASE Reload(p)
    <2>1. disk' = disk /\ exists' = exists
        BY <1>5 DEF Reload, disks
    <2>2. exists => \A q \in Procs : mem'[q] = mem[q] \/ (q = p /\ mem'[q] = disk)
        BY <1>1, <1>5 DEF Reload, TypeOK
    <2>3. \A q \in Procs : q # p => (Writing(q)' <=> Writing(q)) /\ mem'[q] = mem[q]
        BY <1>1, <1>5 DEF Reload, Goto, Writing, TypeOK
    <2>4. exists => (Writing(p)' => mem'[p] = disk)
        BY <1>1, <1>5 DEF Reload, Goto, Writing, TypeOK
    <2> QED BY <1>1, <1>2, <2>1, <2>2, <2>3, <2>4, LogFrame
<1>6. CASE AppendLine(p)
    <2>1. /\ pc[p] = "ready" /\ Appends(job[p]) /\ exists /\ exists' = exists
          /\ disk' = Append(disk, Stamped(p))
          /\ mem' = [mem EXCEPT ![p] = Append(mem[p], Stamped(p))]
        BY <1>6 DEF AppendLine
    <2>2. mem[p] = disk /\ Stamped(p) \in Events
        BY <2>1, StampedType
    <2>3. DiskNumbered' /\ EvaluationsContiguous' /\ \A q \in Procs : IsPrefixOf(mem[q], disk')
        BY <2>1, LogGrows
    <2>4. mem'[p] = disk' /\ \A q \in Procs : q # p => mem'[q] = mem[q]
        BY <1>1, <2>1, <2>2 DEF TypeOK
    <2>5. IsPrefixOf(disk', disk')
        <3>1. disk' \in Seq(Events)
            BY <1>1, <2>1, <2>2
        <3> QED BY <3>1, PrefixReflexive
    <2>6. MemoryIsPrefix'
        BY <2>3, <2>4, <2>5 DEF MemoryIsPrefix
    <2>7. \A q \in Procs : q # p => ~Writing(q)
        BY <2>1, OneWriter DEF InCritical
    <2>8. \A q \in Procs : q # p => ~Writing(q)'
        BY <1>1, <1>6, <2>7 DEF AppendLine, Goto, Writing, TypeOK
    <2>9. WriterCurrent'
        BY <2>4, <2>8 DEF WriterCurrent
    <2> QED BY <2>3, <2>6, <2>9 DEF LogInv
<1>7. CASE AppendFails(p)
    <2>1. /\ pc[p] = "ready" /\ Appends(job[p]) /\ exists /\ exists' = exists /\ mem' = mem
          /\ disk' = disk \/ disk' = Append(disk, Stamped(p))
        BY <1>7 DEF AppendFails, locals
    <2>2. \A q \in Procs : q # p => ~Writing(q)
        BY <2>1, OneWriter DEF InCritical
    <2>3. \A q \in Procs : ~Writing(q)'
        BY <1>1, <1>7, <2>2 DEF AppendFails, Goto, Writing, TypeOK
    <2>4. CASE disk' = disk
        BY <1>1, <2>1, <2>3, <2>4, LogFrame
    <2>5. CASE disk' = Append(disk, Stamped(p))
        <3>1. DiskNumbered' /\ EvaluationsContiguous' /\ \A q \in Procs : IsPrefixOf(mem[q], disk')
            BY <2>1, <2>5, LogGrows
        <3> QED BY <2>1, <2>3, <3>1 DEF LogInv, MemoryIsPrefix, WriterCurrent
    <2> QED BY <2>1, <2>4, <2>5
<1>8. CASE Delete(p)
    <2>1. ~exists' /\ disk' = <<>>
        BY <1>8 DEF Delete
    <2>2. Len(<<>>) = 0 /\ EvalIdx(<<>>) = {}
        BY DEF EvalIdx
    <2> QED BY <2>1, <2>2 DEF LogInv, DiskNumbered, MemoryIsPrefix, WriterCurrent, EvaluationsContiguous,
                              AttemptsContiguous
<1>9. CASE Crash(p)
    <2>1. disk' = disk /\ exists' = exists /\ mem' = [mem EXCEPT ![p] = <<>>]
        BY <1>9 DEF Crash
    <2>2. \A q \in Procs : Writing(q)' => Writing(q) /\ q # p
        BY <1>1, <1>9 DEF Crash, Goto, Writing, TypeOK
    <2> QED BY <1>1, <1>2, <2>1, <2>2, LogFrame DEF TypeOK
<1> QED BY <1>3, <1>4, <1>5, <1>6, <1>7, <1>8, <1>9 DEF Act, Step

-------------------------------------------------------------------------------
(* What an admitted call stands on *)

\* A process whose own job and place do not change is not disturbed by another
\* one's step: while the thread exists, either the log stays or nobody else writes.
LEMMA JobFrame ==
    ASSUME IInv, NEW q \in Procs, job'[q] = job[q], pc'[q] = pc[q],
           exists' => exists /\ (disk' = disk \/ ~Writing(q))
    PROVE  JobStands(q)'
BY DEF IInv, JobsStand, JobStands, Writing, Appends, Guarded

\* A process that holds no job stands on nothing.
LEMMA JobOutside ==
    ASSUME NEW q \in Procs, pc'[q] \notin {"locked", "ready", "meta"}
    PROVE  JobStands(q)'
BY DEF JobStands, Writing

LEMMA JobsStep ==
    ASSUME IInv, NEW p \in Procs, Act(p)
    PROVE  JobsStand'
<1>1. TypeOK /\ disk \in Seq(Events) /\ Len(disk) \in Nat /\ job[p] \in Jobs /\ JobStands(p)
    BY DEF IInv, TypeOK, JobsStand
<1>2. ASSUME NEW q \in Procs, q # p
      PROVE  JobStands(q)'
    <2>1. job'[q] = job[q] /\ pc'[q] = pc[q]
        BY <1>1, <1>2 DEF Act, Step, LoadMeta, LoadEvents, Capture, Acquire, Reload, AppendLine, UpdateSummary,
                    WriteMeta, WriteToDeleted, Release, AppendFails, MetaFails, Delete, Crash, Goto, TypeOK
    <2>2. exists' => exists
        BY DEF Act, Step, LoadMeta, LoadEvents, Capture, Acquire, Reload, AppendLine, UpdateSummary,
                    WriteMeta, WriteToDeleted, Release, AppendFails, MetaFails, Delete, Crash, disks
    <2>3. exists' => disk' = disk \/ InCritical(p)
        BY DEF Act, Step, LoadMeta, LoadEvents, Capture, Acquire, Reload, AppendLine, UpdateSummary,
                    WriteMeta, WriteToDeleted, Release, AppendFails, MetaFails, Delete, Crash, disks, InCritical
    <2>4. InCritical(p) => ~Writing(q)
        BY <1>2, OneWriter
    <2> QED BY <2>1, <2>2, <2>3, <2>4, JobFrame
<1>3. CASE LoadMeta(p) \/ LoadEvents(p) \/ WriteToDeleted(p) \/ Release(p) \/ AppendFails(p) \/ MetaFails(p)
           \/ Delete(p) \/ Crash(p)
    <2>1. pc'[p] \notin {"locked", "ready", "meta"}
        BY <1>1, <1>3 DEF LoadMeta, LoadEvents, WriteToDeleted, Release, AppendFails, MetaFails, Delete, Crash,
                    Goto, TypeOK
    <2> QED BY <1>2, <2>1, JobOutside DEF JobsStand
<1>4. CASE Capture(p)
    <2>1. pc'[p] \notin {"locked", "ready", "meta"}
        BY <1>4 DEF Capture
    <2> QED BY <1>2, <2>1, JobOutside DEF JobsStand
<1>5. CASE Acquire(p)
    <2>1. PICK j \in Requests(p) : job' = [job EXCEPT ![p] = j]
        BY <1>5 DEF Acquire
    <2>2. job'[p] = j /\ pc'[p] = "locked"
        BY <1>1, <1>5, <2>1 DEF Acquire, Goto, TypeOK
    <2>3. j.done = 0 /\ (Appends(j) => j.left > 0)
        BY <1>1, RequestsType
    <2>4. JobStands(p)'
        BY <2>2, <2>3 DEF JobStands, Writing, Appends
    <2> QED BY <1>2, <2>4 DEF JobsStand
<1>6. CASE Reload(p)
    <2>1. /\ pc[p] = "locked" /\ job' = job /\ disk' = disk /\ exists' = exists
          /\ pc'[p] \in {"ready", "unlock"}
        BY <1>1, <1>6 DEF Reload, Goto, TypeOK, disks
    <2>2. exists /\ pc'[p] = "ready" => Admitted(job[p], disk)
        BY <1>1, <1>6 DEF Reload, Goto, TypeOK
    <2>3. job[p].done = 0 /\ (Appends(job[p]) => job[p].left > 0)
        BY <1>1, <2>1 DEF JobStands
    <2>4. HeadSeq(disk) = Len(disk)
        BY <1>1, HeadIsLength DEF IInv, LogInv, DiskNumbered
    <2>5. job[p].base \in Int
        BY <1>1 DEF Jobs
    <2>6. CASE pc'[p] = "ready" /\ exists
        <3>1. Guarded(job[p]) => Len(disk) = job[p].base + job[p].done
            BY <1>1, <2>2, <2>3, <2>4, <2>5, <2>6 DEF Admitted, Guarded
        <3>2. job[p].op = "evaluate" => LatestAttempt(disk) = job[p].attempt
            BY <2>2, <2>6 DEF Admitted
        <3> QED BY <1>2, <2>1, <2>3, <2>6, <3>1, <3>2 DEF JobsStand, JobStands, Writing, Appends, Guarded
    <2>7. CASE pc'[p] = "ready" /\ ~exists
        BY <1>2, <2>1, <2>3, <2>7 DEF JobsStand, JobStands, Appends
    <2>8. CASE pc'[p] = "unlock"
        BY <1>2, <2>8, JobOutside DEF JobsStand
    <2> QED BY <2>1, <2>6, <2>7, <2>8
<1>7. CASE AppendLine(p)
    <2>1. /\ pc[p] = "ready" /\ Appends(job[p]) /\ exists /\ exists' = exists
          /\ disk' = Append(disk, Stamped(p))
          /\ job'[p] = Advanced(job[p]) /\ pc'[p] = "meta"
        BY <1>1, <1>7 DEF AppendLine, Goto, TypeOK
    <2>2. /\ Len(disk') = Len(disk) + 1
          /\ Stamped(p).attempt = 0 => LatestAttempt(disk') = LatestAttempt(disk)
        BY <2>1, LogGrows
    <2>3. /\ Guarded(job[p]) => Len(disk) = job[p].base + job[p].done
          /\ job[p].op = "evaluate" => LatestAttempt(disk) = job[p].attempt
          /\ job[p].left > 0
        BY <1>1, <2>1 DEF JobStands, Writing
    <2>4. job[p].left \in Nat /\ job[p].done \in Nat /\ job[p].base \in Int
        BY <1>1 DEF Jobs
    <2>5. /\ job'[p].op = job[p].op /\ job'[p].left = job[p].left - 1 /\ job'[p].done = job[p].done + 1
          /\ job'[p].base = job[p].base /\ job'[p].attempt = job[p].attempt
        BY <2>1 DEF Advanced
    <2>6. Guarded(job'[p]) => Len(disk') = job'[p].base + job'[p].done
        BY <1>1, <2>2, <2>3, <2>4, <2>5 DEF Guarded
    <2>7. job[p].left # 1 => Stamped(p).attempt = 0
        BY DEF Stamped
    <2>8. job'[p].op = "evaluate" /\ job'[p].left > 0 => LatestAttempt(disk') = job'[p].attempt
        BY <2>2, <2>3, <2>4, <2>5, <2>7
    <2>9. JobStands(p)'
        BY <2>1, <2>6, <2>8 DEF JobStands, Writing, Guarded
    <2> QED BY <1>2, <2>9 DEF JobsStand
<1>8. CASE UpdateSummary(p)
    <2>1. job' = job /\ disk' = disk /\ job[p].op = "watermark" /\ pc'[p] = "meta"
        BY <1>1, <1>8 DEF UpdateSummary, Goto, TypeOK, disks
    <2>2. JobStands(p)'
        BY <2>1 DEF JobStands, Writing, Guarded
    <2> QED BY <1>2, <2>2 DEF JobsStand
<1>9. CASE WriteMeta(p)
    <2>1. /\ pc[p] = "meta" /\ job' = job /\ disk' = disk /\ exists' = exists
          /\ pc'[p] = IF job[p].left > 0 THEN "ready" ELSE "unlock"
        BY <1>1, <1>9 DEF WriteMeta, Goto, TypeOK, locals
    <2>2. JobStands(p)'
        BY <1>1, <2>1 DEF JobStands, Writing, Guarded, Appends
    <2> QED BY <1>2, <2>2 DEF JobsStand
<1> QED BY <1>3, <1>4, <1>5, <1>6, <1>7, <1>8, <1>9 DEF Act, Step

-------------------------------------------------------------------------------
(* Watermarks *)

\* A process's own copy of the log is no longer than the log.
LEMMA HeadWithinLog ==
    ASSUME IInv, exists, NEW p \in Procs
    PROVE  HeadSeq(mem[p]) \in Nat /\ HeadSeq(mem[p]) <= Len(disk)
<1>1. mem[p] \in Seq(Events) /\ IsPrefixOf(mem[p], disk) /\ DiskNumbered
    BY DEF IInv, TypeOK, LogInv, MemoryIsPrefix
<1>2. \A i \in 1..Len(mem[p]) : mem[p][i].seq = i
    BY <1>1 DEF IsPrefixOf, DiskNumbered
<1>3. HeadSeq(mem[p]) = Len(mem[p])
    BY <1>1, <1>2, HeadIsLength
<1> QED BY <1>1, <1>3 DEF IsPrefixOf

\* A request carries watermarks its process had in memory, or moves one of
\* them to the head it knows or to 0.
LEMMA RequestsWithinLog ==
    ASSUME IInv, exists, NEW p \in Procs, NEW j \in Requests(p), NEW a \in Agents
    PROVE  j.wm[a] <= Len(disk)
<1>1. /\ HeadSeq(mem[p]) <= Len(disk) /\ HeadSeq(mem[p]) \in Nat /\ Len(disk) \in Nat
      /\ sum[p] \in Watermarks /\ \A b \in Agents : sum[p][b] <= Len(disk)
    BY HeadWithinLog DEF IInv, TypeOK, MarkInv, CopiesWithinLog
<1>2. \A b \in Agents : Unset[b] <= Len(disk)
    BY <1>1 DEF Unset
<1>3. ASSUME NEW b \in Agents, NEW n \in {0, HeadSeq(mem[p])}
      PROVE  [sum[p] EXCEPT ![b] = n][a] <= Len(disk)
    BY <1>1, <1>3 DEF Watermarks
<1>4. \/ j.wm = Unset
      \/ \E b \in Agents, n \in {0, HeadSeq(mem[p])} : j.wm = [sum[p] EXCEPT ![b] = n]
    <2>1. CASE j \in PlainRequests
        BY <2>1 DEF PlainRequests, Call
    <2>2. CASE j \in WatermarkRequests(p)
        <3>1. PICK b \in Agents, n \in {0, HeadSeq(mem[p])} :
                     j = Call("watermark", 0, NoCapture, [sum[p] EXCEPT ![b] = n])
            BY <2>2 DEF WatermarkRequests
        <3>2. j.wm = [sum[p] EXCEPT ![b] = n]
            BY <3>1 DEF Call
        <3> QED BY <3>2
    <2>3. CASE j \in ConditionalRequests(p)
        BY <2>3 DEF ConditionalRequests, Call
    <2> QED BY <2>1, <2>2, <2>3 DEF Requests
<1> QED BY <1>2, <1>3, <1>4

\* While the thread exists every installed or copied watermark comes from
\* another one, or from a request.
LEMMA MarkFrame ==
    ASSUME IInv, NEW p \in Procs, exists' => exists, Len(disk) <= Len(disk'), Len(disk') \in Nat,
           exists' => /\ meta' \in {meta, sum[p]}
                      /\ \A q \in Procs :
                            /\ sum'[q] \in {sum[q], meta, Unset, job[q].wm}
                            /\ \/ job'[q].wm \in {job[q].wm, Unset}
                               \/ \E j \in Requests(q) : job'[q] = j
    PROVE  MarkInv'
<1> SUFFICES ASSUME exists'
             PROVE  /\ \A a \in Agents : meta'[a] <= Len(disk')
                    /\ \A q \in Procs, a \in Agents : sum'[q][a] <= Len(disk') /\ job'[q].wm[a] <= Len(disk')
    BY DEF MarkInv, WatermarksWithinLog, CopiesWithinLog
<1>1. /\ exists /\ TypeOK /\ Len(disk) \in Nat
      /\ \A a \in Agents : meta[a] <= Len(disk)
      /\ \A q \in Procs, a \in Agents : sum[q][a] <= Len(disk) /\ job[q].wm[a] <= Len(disk)
    BY DEF IInv, TypeOK, MarkInv, WatermarksWithinLog, CopiesWithinLog
<1>2. \A q \in Procs, a \in Agents : sum[q][a] \in Nat /\ job[q].wm[a] \in Nat /\ meta[a] \in Nat
    BY <1>1 DEF TypeOK, Jobs, Watermarks
<1>3. \A a \in Agents : Unset[a] = 0
    BY DEF Unset
<1>4. ASSUME NEW a \in Agents
      PROVE  meta'[a] <= Len(disk')
    BY <1>1, <1>2
<1>5. ASSUME NEW q \in Procs, NEW a \in Agents
      PROVE  sum'[q][a] <= Len(disk')
    BY <1>1, <1>2, <1>3
<1>6. ASSUME NEW q \in Procs, NEW a \in Agents
      PROVE  job'[q].wm[a] <= Len(disk')
    <2>1. CASE job'[q].wm \in {job[q].wm, Unset}
        BY <1>1, <1>2, <1>3, <2>1
    <2>2. CASE \E j \in Requests(q) : job'[q] = j
        <3>1. PICK j \in Requests(q) : job'[q] = j
            BY <2>2
        <3>2. j.wm[a] <= Len(disk) /\ j.wm[a] \in Nat
            BY <1>1, RequestsWithinLog, RequestsType DEF Jobs, Watermarks
        <3> QED BY <1>1, <3>1, <3>2
    <2> QED BY <2>1, <2>2
<1> QED BY <1>4, <1>5, <1>6

LEMMA MarkStep ==
    ASSUME IInv, NEW p \in Procs, Act(p)
    PROVE  MarkInv'
<1>1. TypeOK /\ disk \in Seq(Events) /\ Len(disk) \in Nat
    BY DEF IInv, TypeOK
<1>2. CASE LoadMeta(p) \/ LoadEvents(p) \/ Capture(p) \/ Reload(p) \/ UpdateSummary(p) \/ WriteMeta(p)
           \/ WriteToDeleted(p) \/ MetaFails(p)
    <2>1. disk' = disk /\ exists' = exists /\ job' = job /\ meta' \in {meta, sum[p]}
        BY <1>2 DEF LoadMeta, LoadEvents, Capture, Reload, UpdateSummary, WriteMeta, WriteToDeleted, MetaFails,
                    disks, locals
    <2>2. \A q \in Procs : sum'[q] \in {sum[q], meta, job[q].wm}
        BY <1>1, <1>2 DEF LoadMeta, LoadEvents, Capture, Reload, UpdateSummary, WriteMeta, WriteToDeleted,
                    MetaFails, TypeOK, locals
    <2> QED BY <1>1, <2>1, <2>2, MarkFrame
<1>3. CASE Acquire(p)
    <2>1. PICK j \in Requests(p) : job' = [job EXCEPT ![p] = j]
        BY <1>3 DEF Acquire
    <2>2. disk' = disk /\ exists' = exists /\ meta' = meta /\ sum' = sum
        BY <1>3 DEF Acquire, disks, locals
    <2>3. \A q \in Procs : job'[q] = job[q] \/ (q = p /\ job'[q] = j)
        BY <1>1, <2>1 DEF TypeOK
    <2> QED BY <1>1, <2>2, <2>3, MarkFrame
<1>4. CASE AppendLine(p) \/ AppendFails(p)
    <2>1. /\ pc[p] = "ready" /\ Appends(job[p]) /\ exists
          /\ exists' = exists /\ meta' = meta /\ sum' = sum
          /\ disk' = disk \/ disk' = Append(disk, Stamped(p))
        BY <1>4 DEF AppendLine, AppendFails, locals
    <2>2. Stamped(p) \in Events
        BY <2>1, StampedType
    <2>3. Len(disk') \in Nat /\ Len(disk) <= Len(disk')
        BY <1>1, <2>1, <2>2
    <2>4. \A q \in Procs : job'[q].wm = job[q].wm
        <3>1. CASE AppendLine(p)
            BY <1>1, <3>1 DEF AppendLine, Advanced, TypeOK
        <3>2. CASE AppendFails(p)
            BY <3>2 DEF AppendFails
        <3> QED BY <1>4, <3>1, <3>2
    <2> QED BY <2>1, <2>3, <2>4, MarkFrame
<1>5. CASE Release(p)
    <2>1. disk' = disk /\ exists' = exists /\ meta' = meta /\ sum' = sum
        BY <1>5 DEF Release, disks, locals
    <2>2. \A q \in Procs : job'[q].wm \in {job[q].wm, Unset}
        BY <1>1, <1>5 DEF Release, Idle, Call, TypeOK
    <2> QED BY <1>1, <2>1, <2>2, MarkFrame
<1>6. CASE Delete(p)
    <2>1. ~exists'
        BY <1>6 DEF Delete
    <2> QED BY <2>1 DEF MarkInv, WatermarksWithinLog, CopiesWithinLog
<1>7. CASE Crash(p)
    <2>1. disk' = disk /\ exists' = exists /\ meta' = meta
        BY <1>7 DEF Crash
    <2>2. \A q \in Procs : sum'[q] \in {sum[q], Unset} /\ job'[q].wm \in {job[q].wm, Unset}
        BY <1>1, <1>7 DEF Crash, Idle, Call, TypeOK
    <2> QED BY <1>1, <2>1, <2>2, MarkFrame
<1> QED BY <1>2, <1>3, <1>4, <1>5, <1>6, <1>7 DEF Act, Step

-------------------------------------------------------------------------------
(* The invariant *)

LEMMA InvInit == Init => IInv
<1> SUFFICES ASSUME Init PROVE IInv
    OBVIOUS
<1>1. TypeOK
    <2>1. NoCapture \in [head: Nat, attempt: Int] /\ <<>> \in Seq(Events)
        BY DEF NoCapture
    <2>2. Idle \in Jobs /\ Unset \in Watermarks
        BY UnsetType, IdleType
    <2> QED BY <2>1, <2>2 DEF Init, TypeOK, PCs
<1>2. LockInv
    BY DEF Init, LockInv, LockExclusive, OnlyCrashLeavesLock, InCritical
<1>3. LogInv
    BY DEF Init, LogInv, DiskNumbered, MemoryIsPrefix, WriterCurrent, EvaluationsContiguous, AttemptsContiguous,
           EvalIdx, IsPrefixOf, Writing
<1>4. JobsStand
    BY DEF Init, JobsStand, JobStands, Writing
<1>5. MarkInv
    BY IdleType DEF Init, MarkInv, WatermarksWithinLog, CopiesWithinLog, Unset
<1> QED BY <1>1, <1>2, <1>3, <1>4, <1>5 DEF IInv

LEMMA InvStep == IInv /\ [Next]_vars => IInv'
<1> SUFFICES ASSUME IInv, [Next]_vars PROVE IInv'
    OBVIOUS
<1>1. CASE Next
    <2>1. PICK p \in Procs : Act(p)
        BY <1>1 DEF Next, Act
    <2> QED BY <2>1, TypeStep, LockStep, LogStep, JobsStep, MarkStep DEF IInv
<1>2. CASE UNCHANGED vars
    BY <1>2 DEF vars, disks, locals, faults, IInv, TypeOK, LockInv, LockExclusive, OnlyCrashLeavesLock, InCritical,
           LogInv, DiskNumbered, MemoryIsPrefix, WriterCurrent, EvaluationsContiguous, Writing,
           JobsStand, JobStands, Appends, Guarded, MarkInv, WatermarksWithinLog, CopiesWithinLog
<1> QED BY <1>1, <1>2

LEMMA InvHolds == Spec => []IInv
BY InvInit, InvStep, PTL DEF Spec

-------------------------------------------------------------------------------
(* The theorems *)

\* Every variable of the store keeps its type, for any number of processes.
THEOREM TypeCorrect == Spec => []TypeOK
<1>1. IInv => TypeOK
    BY DEF IInv
<1> QED BY <1>1, InvHolds, PTL

\* Two processes are never inside one thread's lock (#withThreadLock).
THEOREM MutualExclusion == Spec => []LockExclusive
<1>1. IInv => LockExclusive
    BY DEF IInv, LockInv
<1> QED BY <1>1, InvHolds, PTL

\* A lock that nobody is inside of is the trace of a crash (the finally of
\* #withThreadLock).
THEOREM LockReleased == Spec => []OnlyCrashLeavesLock
<1>1. IInv => OnlyCrashLeavesLock
    BY DEF IInv, LockInv
<1> QED BY <1>1, InvHolds, PTL

\* A process's copy of the log is never on a branch of its own.
THEOREM NoBranch == Spec => []MemoryIsPrefix
<1>1. IInv => MemoryIsPrefix
    BY DEF IInv, LogInv
<1> QED BY <1>1, InvHolds, PTL

\* The recorded evaluations claim the attempts 1, 2, 3, ... (compareAndAppendBatch).
THEOREM AttemptsInOrder == Spec => []EvaluationsContiguous
<1>1. IInv => EvaluationsContiguous
    BY DEF IInv, LogInv
<1> QED BY <1>1, InvHolds, PTL

\* No installed watermark points beyond the log.
THEOREM WatermarksBounded == Spec => []WatermarksWithinLog
<1>1. IInv => WatermarksWithinLog
    BY DEF IInv, MarkInv
<1> QED BY <1>1, InvHolds, PTL

\* Well typed, and every stored watermark is a place in the log: the form the
\* model checker looks at.
THEOREM StateIsWellFormed == Spec => []WellFormed
<1>1. TypeOK /\ WatermarksWithinLog => WellFormed
    BY DEF WellFormed
<1> QED BY <1>1, TypeCorrect, WatermarksBounded, PTL

-------------------------------------------------------------------------------
(* Refinement *)

LEMMA RefinesInit == Init => Log!Init
BY DEF Init, Log!Init

\* Every step extends the log by one admissible event, deletes it, or leaves it.
LEMMA RefinesStep == IInv /\ [Next]_vars => [Log!Next]_<<disk, exists>>
<1> SUFFICES ASSUME IInv, [Next]_vars
             PROVE  Log!Next \/ (disk' = disk /\ exists' = exists)
    OBVIOUS
<1>1. disk \in Seq(Events) /\ Len(disk) \in Nat
    BY DEF IInv, TypeOK
<1>2. ASSUME NEW p \in Procs, Act(p), ~(disk' = disk /\ exists' = exists)
      PROVE  Delete(p) \/ AppendLine(p) \/ AppendFails(p)
    BY <1>2 DEF Act, Step, LoadMeta, LoadEvents, Capture, Acquire, Reload, UpdateSummary, WriteMeta,
                WriteToDeleted, Release, MetaFails, Crash, disks
<1>3. ASSUME NEW p \in Procs, Delete(p)
      PROVE  Log!Next
    BY <1>3 DEF Delete, Log!Next, Log!Delete
<1>4. ASSUME NEW p \in Procs, AppendLine(p) \/ AppendFails(p), disk' # disk
      PROVE  Log!Next
    <2>1. /\ pc[p] = "ready" /\ Appends(job[p]) /\ exists /\ exists' = exists
          /\ disk' = Append(disk, Stamped(p))
        BY <1>4 DEF AppendLine, AppendFails
    <2>2. /\ Stamped(p) \in Events
          /\ Stamped(p).seq = Len(disk) + 1
          /\ Stamped(p).cond => Stamped(p).seq = Stamped(p).base + Stamped(p).idx
          /\ Stamped(p).attempt # 0 => Stamped(p).attempt = LatestAttempt(disk) + 1
        BY <2>1, StampedType
    <2>3. Len(disk') = Len(disk) + 1 /\ disk'[Len(disk')] = Stamped(p)
        BY <1>1, <2>1, <2>2
    <2>4. Log!Follows(Stamped(p))
        <3>1. Log!LatestAttempt(disk) = LatestAttempt(disk)
            BY DEF Log!LatestAttempt, Log!AttemptsContiguous, Log!EvalIdx, Log!NoAttempt, Log!Cardinality,
                   LatestAttempt, AttemptsContiguous, EvalIdx, NoAttempt, Cardinality
        <3> QED BY <2>2, <3>1 DEF Log!Follows
    <2>5. Log!Extend
        BY <2>1, <2>2, <2>3, <2>4 DEF Log!Extend, Log!Events, Events
    <2> QED BY <2>5 DEF Log!Next
<1>5. CASE Next
    <2>1. PICK p \in Procs : Act(p)
        BY <1>5 DEF Next, Act
    <2>2. exists' # exists => Delete(p)
        BY <2>1 DEF Act, Step, LoadMeta, LoadEvents, Capture, Acquire, Reload, AppendLine, UpdateSummary,
                    WriteMeta, WriteToDeleted, Release, AppendFails, MetaFails, Crash, disks
    <2> QED BY <2>1, <2>2, <1>2, <1>3, <1>4
<1>6. CASE UNCHANGED vars
    BY <1>6 DEF vars, disks
<1> QED BY <1>5, <1>6

\* The store implements the append-only log with compare-and-append: an event
\* of a conditional call lands exactly as far above the head its caller had
\* read as its place in the batch says, and an evaluation claims the attempt
\* after the latest one, in every interleaving of any number of processes.
THEOREM StoreImplementsLog == Spec => ImplementsAppendLog
BY InvHolds, RefinesInit, RefinesStep, PTL DEF Spec, ImplementsAppendLog, Log!Spec
===============================================================================
