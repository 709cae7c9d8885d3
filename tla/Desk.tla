-------------------------------- MODULE Desk --------------------------------
(* The Orchestrator of orchestrator.ts above the threads: taking an issue,   *)
(* attaching and refreshing work items, the issue catalog, the role a person *)
(* has chosen, loading threads and deleting them.  Its handlers are calls    *)
(* that interleave at their awaits; the files under it outlive the process.  *)
(* One issue of one workspace is modelled, and everything there is for it.   *)
EXTENDS StoreFiles, FiniteSets, SequencesExt

CONSTANTS Calls,      \* the calls that may be in flight at once
          Threads,    \* thread ids
          Items,      \* work item ids
          Labels,     \* the labels that route the issue
          Closed,     \* the issue once it is closed
          Decls,      \* name -> [ok, here, role]: readable, naming this issue's
                      \* repository, and the role each label routes to
          NoRole,     \* no route, or no role chosen
          NoItem,     \* no work item
          MaxMoves,   \* bound: requests and moves of the world outside
          MaxFaults,  \* bound: failed file operations
          MaxExits    \* bound: ends of the process

VARIABLES host,      \* the issue as GitHub has it
          decl,      \* the name of the declaration in the directory
          up,        \* whether the worker a probe asks answers
          disk,      \* the files: one per work item, the catalog, the role
          work,      \* the work items in memory: id -> snapshot or Nothing
          catalog,   \* the catalog in memory: its snapshot and whether it is current
          thread,    \* the thread store: id -> its state, its link and who linked it
          live,      \* the threads that have a Thread object
          deleting,  \* the threads whose deletion is in flight
          lock,      \* the calls waiting for the issue's lock, its holder first
          call,      \* each call's program counter and what it has read
          moves, faults, exits

vars == <<host, decl, up, disk, work, catalog, thread, live, deleting, lock, call, moves, faults, exits>>
outside == <<host, decl, up>>
objects == <<live, deleting>>
desk == <<lock, call>>

Issue == Labels \cup {Closed}

ASSUME ConstantsAssumption ==
    /\ Labels # {} /\ \E d \in DOMAIN Decls : Decls[d].ok
    /\ {"catalog", "role"} \cap Items = {} /\ NoItem \notin Items
    /\ Nothing \notin Issue

Roles == UNION {{Decls[d].role[l] : l \in Labels} : d \in DOMAIN Decls}
Idle == [pc |-> "idle"]
Free == [state |-> "none", link |-> NoItem, by |-> "nobody"]

Stored(t) == thread[t].state = "stored"
\* #canonicalLinkedThread finds one of these.
Linked(i) == {t \in Threads : Stored(t) /\ thread[t].link = i}
\* WorkItemStore.find: the items in memory that stand for the issue.
Found == {i \in Items : work[i] # Nothing}

Init ==
    /\ host = (CHOOSE l \in Labels : TRUE) /\ decl = (CHOOSE d \in DOMAIN Decls : Decls[d].ok) /\ up = TRUE
    \* an earlier process may have kept a role
    /\ \E r \in {Nothing} \cup {Decls[decl].role[host]} :
          disk = [f \in Items \cup {"catalog", "role"} |->
                     IF f = "role" THEN [NoFile EXCEPT !.primary = r] ELSE NoFile]
    /\ work = [i \in Items |-> Nothing]
    /\ catalog = [snapshot |-> Nothing, current |-> FALSE]
    /\ thread = [t \in Threads |-> Free]
    /\ live = {} /\ deleting = {}
    /\ lock = <<>> /\ call = [c \in Calls |-> Idle]
    /\ moves = 0 /\ faults = 0 /\ exits = 0

-----------------------------------------------------------------------------
(* The world outside.                                                        *)

EditIssue == host' \in Issue \ {host} /\ UNCHANGED <<decl, up>>
Redeclare == decl' \in DOMAIN Decls \ {decl} /\ UNCHANGED <<host, up>>
WorkerChanges == up' = ~up /\ UNCHANGED <<host, decl>>

World ==
    /\ EditIssue \/ Redeclare \/ WorkerChanges
    /\ UNCHANGED <<disk, work, catalog, thread, objects, desk, faults, exits>>

-----------------------------------------------------------------------------
(* Calls.                                                                    *)

Goto(c, with) == call' = [call EXCEPT ![c] = with]

\* fetchIssue and fetchOpenIssueCatalog answer with the issue as it was at some
\* time while they were awaited, or fail.
Fetch(c, from, to) ==
    /\ call[c].pc = from
    /\ \E answer \in {host, Nothing} : Goto(c, [call[c] EXCEPT !.pc = to, !.got = answer])
    /\ UNCHANGED <<outside, disk, work, catalog, thread, objects, lock, faults, exits>>

\* The ways a synchronous write ends that leave the process running.
Ends(runs) == {e \in runs : e.how # "died" /\ faults + e.faults <= MaxFaults}

\* WorkItemStore.record: the file first, then the map; a write that throws
\* leaves the map alone.
RecordedInMapFirst(i, e, snapshot) ==
    /\ disk' = [disk EXCEPT ![i] = e.file]
    /\ faults' = faults + e.faults
    /\ work' = [work EXCEPT ![i] = snapshot]

Recorded(i, e, snapshot) ==
    /\ disk' = [disk EXCEPT ![i] = e.file]
    /\ faults' = faults + e.faults
    /\ work' = IF e.how = "returned" THEN [work EXCEPT ![i] = snapshot] ELSE work

\* The item a record is for: the one that stands for the issue, or a new one,
\* under an id (a UUID) that nothing has had.
Target(i) ==
    IF Found # {} THEN i \in Found
    ELSE work[i] = Nothing /\ disk[i] = NoFile /\ \A t \in Threads : thread[t].link # i

-----------------------------------------------------------------------------
(* prepareIssue and #takeIssue.                                              *)

\* #withIssueLock: a call joins the chain of the issue and goes on when those
\* before it have settled; whoever settles holds it, and drops out of the chain.
HoldsWithOthers(c) == lock # <<>>
Holds(c) == lock # <<>> /\ Head(lock) = c
ReleaseUnlessRefused(c) == lock' = IF call[c].pc = "probing" THEN lock ELSE Tail(lock)

Release(c) == lock' = Tail(lock)
Settle(c) == Release(c) /\ Goto(c, Idle)

\* Whoever asks from the directory continues a linked thread without asking
\* anyone; from a thread this is so only when it is that thread's item.
OpenIssue(c) ==
    /\ call[c].pc = "idle"
    /\ lock' = Append(lock, c)
    /\ LET linked == UNION {Linked(i) : i \in Found}
       IN  \/ linked # {} /\ Goto(c, [pc |-> "continue"])
           \/ /\ linked = {} \/ \E t \in Threads : Stored(t) /\ t \notin linked
              /\ Decls[decl].ok /\ Decls[decl].here
              /\ Goto(c, [pc |-> "locked", decl |-> decl])
    /\ UNCHANGED <<outside, disk, work, catalog, thread, objects, faults, exits>>

\* #continueLocalItem under the lock; when the link has gone meanwhile, the call
\* goes to the end of the chain with the declaration.
Continue(c) ==
    /\ call[c].pc = "continue" /\ Holds(c)
    /\ LET d == Decls[decl]
       IN  IF (\E i \in Found : Linked(i) # {}) \/ ~d.ok \/ ~d.here
           THEN Settle(c)
           ELSE lock' = Append(Tail(lock), c) /\ Goto(c, [pc |-> "locked", decl |-> decl])
    /\ UNCHANGED <<outside, disk, work, catalog, thread, objects, faults, exits>>

\* What a route projection says of the issue under a declaration.
Route(d, issue) == IF issue = Closed THEN NoRole ELSE Decls[d].role[issue]
Available(d, issue, role) == Route(d, issue) # NoRole /\ role = Route(d, issue)

\* #workspaceRoleSelection reads the file each time; a role the declaration does
\* not name is stale and counts as none.
RoleOf(e, d) == IF \E l \in Labels : Decls[d].role[l] = e.value THEN e.value ELSE NoRole
\* Reading brings a backup back.
ReadRole == {e \in Load(disk["role"]) : faults + e.faults <= MaxFaults}

\* #prepareIssueLocked and #takeIssue up to the probe: a linked thread is
\* continued; else the catalog has to be current and to list the issue, and the
\* issue has to be the chosen role's.
Consider(c) ==
    /\ call[c].pc = "locked" /\ Holds(c)
    /\ LET d == call[c].decl  listed == catalog.snapshot
           continues == \E i \in Found : Linked(i) # {}
       IN  IF continues \/ ~catalog.current \/ listed \in {Nothing, Closed}
           THEN Settle(c) /\ UNCHANGED <<disk, faults>>
           ELSE \E e \in ReadRole :
                  /\ disk' = [disk EXCEPT !["role"] = e.file] /\ faults' = faults + e.faults
                  /\ IF Available(d, listed, RoleOf(e, d))
                     THEN Goto(c, [pc |-> "probing", decl |-> d, listed |-> listed]) /\ UNCHANGED lock
                     ELSE Settle(c)
    /\ UNCHANGED <<outside, work, catalog, thread, objects, exits>>

\* The allowed workers are asked; when none is available the call ends.
Probe(c) ==
    /\ call[c].pc = "probing"
    /\ IF up THEN Goto(c, [pc |-> "asking", decl |-> call[c].decl, listed |-> call[c].listed, got |-> Nothing])
                  /\ UNCHANGED lock
             ELSE Settle(c)
    /\ UNCHANGED <<outside, disk, work, catalog, thread, objects, faults, exits>>

\* Nothing is awaited after the fetch: the declaration is read again, and what
\* was fetched has to have the route that was considered, under the declaration
\* of then and that of now, and has to be the role's that is chosen now.
Fits(c, role) ==
    LET k == call[c]
    IN  /\ k.got \notin {Nothing, Closed}
        /\ Decls[decl].ok /\ Decls[decl].here
        /\ Route(k.decl, k.got) = Route(k.decl, k.listed)
        /\ Route(decl, k.got) = Route(k.decl, k.got)
        /\ Available(decl, k.got, role)

\* The work item is recorded and the thread is created; either may fail, and
\* the lock is released whatever happened.
Take(c) ==
    /\ call[c].pc = "fetched" /\ Settle(c)
    /\ \E e \in ReadRole :
          IF Fits(c, RoleOf(e, decl))
          THEN \E i \in Items : \E p \in Ends(Persist(disk[i], call[c].got)) :
                 /\ Target(i) /\ Recorded(i, p, call[c].got)
                 /\ \/ p.how = "returned" /\ \E t \in Threads :
                          /\ thread[t].state = "none"
                          /\ thread' = [thread EXCEPT ![t] = [state |-> "stored", link |-> i, by |-> "take"]]
                    \/ UNCHANGED thread
          ELSE UNCHANGED <<disk, work, thread, faults>>
    /\ UNCHANGED <<outside, catalog, objects, exits>>

-----------------------------------------------------------------------------
(* attachWorkItem, refreshWorkItem, detachWorkItem: not under the lock.      *)

Create(t) ==
    /\ thread[t].state = "none"
    /\ thread' = [thread EXCEPT ![t].state = "stored"]
    /\ UNCHANGED <<outside, disk, work, catalog, objects, desk, faults, exits>>

Attach(c, t) ==
    /\ call[c].pc = "idle" /\ Stored(t) /\ Decls[decl].ok /\ Decls[decl].here
    /\ Goto(c, [pc |-> "attaching", thread |-> t, had |-> thread[t].link, got |-> Nothing])
    /\ UNCHANGED <<outside, disk, work, catalog, thread, objects, lock, faults, exits>>

\* The link is compared with the one read before the fetch.  An update of a
\* thread that has gone throws.
Attached(c) ==
    /\ call[c].pc = "attached" /\ Goto(c, Idle)
    /\ LET k == call[c]
       IN  IF k.got = Nothing THEN UNCHANGED <<disk, work, thread, faults>>
           ELSE \E i \in Items : \E p \in Ends(Persist(disk[i], k.got)) :
                  /\ Target(i) /\ Recorded(i, p, k.got)
                  /\ thread' = IF p.how = "returned" /\ k.had # i /\ Stored(k.thread)
                               THEN [thread EXCEPT ![k.thread].link = i, ![k.thread].by = "attach"]
                               ELSE thread
    /\ UNCHANGED <<outside, catalog, objects, lock, exits>>

Refresh(c, t) ==
    /\ call[c].pc = "idle" /\ Stored(t) /\ thread[t].link \in Found
    /\ Goto(c, [pc |-> "refreshing", got |-> Nothing])
    /\ UNCHANGED <<outside, disk, work, catalog, thread, objects, lock, faults, exits>>

Refreshed(c) ==
    /\ call[c].pc = "refreshed" /\ Goto(c, Idle)
    /\ IF call[c].got = Nothing THEN UNCHANGED <<disk, work, faults>>
       ELSE \E i \in Items : \E p \in Ends(Persist(disk[i], call[c].got)) :
              Target(i) /\ Recorded(i, p, call[c].got)
    /\ UNCHANGED <<outside, catalog, thread, objects, lock, exits>>

Detach(t) ==
    /\ Stored(t) /\ thread[t].link # NoItem
    /\ thread' = [thread EXCEPT ![t].link = NoItem, ![t].by = "nobody"]
    /\ UNCHANGED <<outside, disk, work, catalog, objects, desk, faults, exits>>

-----------------------------------------------------------------------------
(* The catalog and the role.                                                 *)

\* CatalogStore.refresh keeps the state it found until the answer comes.
List(c) ==
    /\ call[c].pc = "idle" /\ Decls[decl].ok /\ Decls[decl].here
    /\ Goto(c, [pc |-> "listing", had |-> catalog.snapshot, got |-> Nothing])
    /\ UNCHANGED <<outside, disk, work, catalog, thread, objects, lock, faults, exits>>

\* When the fetch or the write failed, it is the state found that stays.
Listed(c) ==
    /\ call[c].pc = "listed" /\ Goto(c, Idle)
    /\ LET k == call[c]  before == [snapshot |-> k.had, current |-> FALSE]
       IN  IF k.got = Nothing THEN catalog' = before /\ UNCHANGED <<disk, faults>>
           ELSE \E e \in Ends(Install(disk["catalog"], k.got)) :
                  /\ disk' = [disk EXCEPT !["catalog"] = e.file] /\ faults' = faults + e.faults
                  /\ catalog' = IF e.how = "returned" THEN [snapshot |-> k.got, current |-> TRUE] ELSE before
    /\ UNCHANGED <<outside, work, thread, objects, lock, exits>>

\* setWorkspaceRoleSelection: a role of the declaration, or none.
SelectRole ==
    /\ Decls[decl].ok
    /\ \E role \in {Decls[decl].role[l] : l \in Labels} \cup {NoRole} :
       \E e \in Ends(Install(disk["role"], role)) :
          /\ disk' = [disk EXCEPT !["role"] = e.file] /\ faults' = faults + e.faults
    /\ UNCHANGED <<outside, work, catalog, thread, objects, desk, exits>>

-----------------------------------------------------------------------------
(* Threads.                                                                  *)

\* #thread, which every call on a thread comes through.
LoadThreadOfDirectory(t) ==
    /\ t \notin live /\ Stored(t)
    /\ live' = live \cup {t}
    /\ UNCHANGED <<outside, disk, work, catalog, thread, deleting, desk, faults, exits>>

LoadThread(t) ==
    /\ t \notin live /\ t \notin deleting /\ Stored(t)
    /\ live' = live \cup {t}
    /\ UNCHANGED <<outside, disk, work, catalog, thread, deleting, desk, faults, exits>>

\* deleteThread: the object leaves #threads at once, its stop is awaited.
Delete(t) ==
    /\ t \notin deleting /\ Stored(t)
    /\ live' = live \ {t} /\ deleting' = deleting \cup {t}
    /\ UNCHANGED <<outside, disk, work, catalog, thread, desk, faults, exits>>

\* The store forgets the thread and removes its directory; when that throws the
\* deletion stays registered and the directory stays too.
Deleted(t) ==
    /\ t \in deleting /\ Stored(t)
    /\ \/ thread' = [thread EXCEPT ![t] = Free] /\ deleting' = deleting \ {t} /\ UNCHANGED faults
       \/ /\ faults < MaxFaults /\ faults' = faults + 1
          /\ thread' = [thread EXCEPT ![t].state = "left", ![t].by = "deleted"] /\ UNCHANGED deleting
    /\ UNCHANGED <<outside, disk, work, catalog, live, desk, exits>>

-----------------------------------------------------------------------------
(* The end of the process and its next start.                                *)

\* The files as the process leaves them: at most one was being written
\* (a death in the middle of choosing a role is left out).
Leaves(f, runs) == {[disk EXCEPT ![f] = e.file] : e \in {r \in runs : r.how = "died" /\ faults + r.faults <= MaxFaults}}
Writing == {c \in Calls : call[c].pc \in {"fetched", "attached", "refreshed"} /\ call[c].got # Nothing}
Remains ==
    {disk}
    \cup (UNION {UNION {Leaves(i, Persist(disk[i], call[c].got)) : c \in Writing} : i \in {j \in Items : Target(j)}})
    \cup (UNION {Leaves("catalog", Install(disk["catalog"], call[c].got)) :
                    c \in {b \in Calls : call[b].pc = "listed" /\ call[b].got # Nothing}})

\* Work items are loaded at the start, a catalog when it is first read.
Exit ==
    /\ exits < MaxExits /\ exits' = exits + 1
    /\ \E left \in Remains :
       \E item \in [Items -> UNION {LoadItem(left[i]) : i \in Items}] :
       \E cat \in Load(SweepTemporaries(left["catalog"])) :
          /\ \A i \in Items : item[i] \in LoadItem(left[i])
          /\ faults' = faults + cat.faults + Cardinality({i \in Items : item[i].faults = 1}) /\ faults' <= MaxFaults
          /\ disk' = [f \in DOMAIN disk |-> IF f \in Items THEN item[f].file
                                            ELSE IF f = "catalog" THEN cat.file ELSE left[f]]
          /\ work' = [i \in Items |-> item[i].value]
          /\ catalog' = [snapshot |-> cat.value, current |-> FALSE]
    /\ thread' = [t \in Threads |-> IF thread[t].state = "left" THEN [thread[t] EXCEPT !.state = "stored"]
                                    ELSE thread[t]]
    /\ live' = {} /\ deleting' = {}
    /\ lock' = <<>> /\ call' = [c \in Calls |-> Idle]
    /\ UNCHANGED outside

-----------------------------------------------------------------------------
(* The specification.                                                        *)

Step(c) ==
    \/ Continue(c) \/ Consider(c) \/ Probe(c) \/ Fetch(c, "asking", "fetched") \/ Take(c)
    \/ Fetch(c, "attaching", "attached") \/ Attached(c)
    \/ Fetch(c, "refreshing", "refreshed") \/ Refreshed(c)
    \/ Fetch(c, "listing", "listed") \/ Listed(c)

Asked ==
    /\ moves < MaxMoves /\ moves' = moves + 1
    /\ \/ World \/ SelectRole
       \/ \E c \in Calls : OpenIssue(c) \/ List(c)
       \/ \E c \in Calls, t \in Threads : Attach(c, t) \/ Refresh(c, t)
       \/ \E t \in Threads : Create(t) \/ Detach(t) \/ LoadThread(t) \/ Delete(t)

Answered ==
    /\ (\E c \in Calls : Step(c)) \/ (\E t \in Threads : Deleted(t)) \/ Exit
    /\ UNCHANGED moves

Next == Asked \/ Answered

Spec == Init /\ [][Next]_vars

\* What a call awaits is answered or times out (ghTimeoutMs, the probe's limit).
FairSpec == Spec /\ \A c \in Calls : WF_vars(Step(c) /\ UNCHANGED moves)

-----------------------------------------------------------------------------
(* Properties.                                                               *)

\* Taking an issue twice at once makes one thread for it: prepareIssue reads the
\* links, then awaits a probe and a fetch, and creates the thread without
\* reading them again (#withIssueLock).  Threads that attached the issue
\* themselves do not count, nor do those a failed deletion left behind.
OneTakenThread ==
    \A i \in Items : Cardinality({t \in Threads : Stored(t)
                                                  /\ thread[t].link = i /\ thread[t].by = "take"}) <= 1

\* What a start would read of an item.
Durable(i) == IF disk[i].primary # Nothing THEN disk[i].primary ELSE disk[i].backup

\* A recorded item is never lost or torn: after any write, however it ended, and
\* after a start, whatever the process was doing when it ended, a start reads
\* the item as it was recorded or as it was being recorded; and while the process
\* runs memory says what a start would read (#persist and #loadAll of
\* work/store.ts).  Said of items whose primary is there: when the rename back
\* after a failed install failed as well only the backup is left.
ItemsSurvive ==
    [][\A i \in Items : work[i] # Nothing /\ disk[i].primary # Nothing =>
          /\ Durable(i)' \in {work[i]} \cup {call[c].got : c \in Writing}
          /\ exits' = exits => Durable(i)' = work'[i]]_vars

\* A thread has at most one Thread object, and none is loaded while its deletion
\* is stopping the old one: it would run on a directory about to go.
NoThreadOnGoingDirectory ==
    \A t \in live : Stored(t) /\ t \notin deleting

\* Every call ends: nobody waits for a lock its holder has not dropped.
EveryCallEnds == \A c \in Calls : call[c].pc # "idle" ~> call[c].pc = "idle"
=============================================================================
