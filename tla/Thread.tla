-------------------------------- MODULE Thread ---------------------------------
(***************************************************************************)
(* One live thread: which turns are admitted and in which directory they   *)
(* run, the adapters (worker processes) behind them, the change of         *)
(* permission mode, lane mode and shutdown.  The core is one JavaScript    *)
(* process: code between two awaits is one step, and every await is a      *)
(* point where any other handler may run.                                  *)
(*                                                                         *)
(* A turn in flight is a phase per agent: the await it is suspended in.    *)
(*                                                                         *)
(*   lane      #lane is provisioning the agent's worktree                  *)
(*   setup     the lane is in the map, its setup command still runs        *)
(*   snapshot  the adapter exists, git snapshots the tree before the turn  *)
(*   running   sendTurn                                                    *)
(*   resetting the stale native session's adapter is being stopped         *)
(*   closing   git snapshots the tree after the turn                       *)
(*   dropping  the adapter is stopped for a new permission mode            *)
(***************************************************************************)
EXTENDS Integers, Sequences, FiniteSets

CONSTANTS
    Agents,          \* worker profiles
    SelfDiff,        \* those whose adapter reports the turn's diff itself
    Modes,           \* permission modes
    DefaultMode,     \* the mode a thread opens with
    NoAdapter,       \* no adapter
    MaxModeChanges   \* bound: permission mode changes asked for

ASSUME SelfDiffAssumption == SelfDiff \subseteq Agents
ASSUME ModesAssumption == DefaultMode \in Modes
ASSUME BoundAssumption == MaxModeChanges \in Nat

VARIABLES
    phase,      \* #turns and the await each turn is suspended in, "idle" for none
    cwd,        \* the directory each turn runs in
    retried,    \* agents whose turn has already retried a stale resume
    held,       \* the adapter a turn holds: "none", the one in the "map", or "own"
    own,        \* a held adapter that is no longer in the map
    adapters,   \* #adapters
    leaked,     \* agents with a process that no object refers to any more
    mode,       \* #permissionMode
    gen,        \* #permissionModeGeneration
    resets,     \* #permissionModeResets, 0 for no entry
    queue,      \* setPermissionMode calls that wait for an earlier one
    applying,   \* one of them is being applied
    awaited,    \* the idle adapters it waits to be stopped
    drop,       \* the generation an adapter is being stopped for, negative once
                \* that adapter has left the map
    modeFailed, \* #permissionModeChangeFailure is set
    waiting,    \* sends that wait for this many changes, -1 for no such send
    parallel,   \* #parallel
    switch,     \* #switchingLanes: the await setParallel is suspended in
    lane,       \* each agent's lane, in the map or left on disk
    condemned,  \* lanes found clean, being removed
    swept,      \* the sweep of leftover lanes has settled
    stop,       \* #stopping: the await stop() is suspended in
    discard,    \* stop() removes lanes whatever they hold
    lateStart   \* a process was spawned after stop() had begun

turnVars   == <<phase, cwd, retried, held, own, leaked>>
modeVars   == <<mode, gen, queue, applying, awaited, modeFailed>>
laneVars   == <<lane, condemned, swept>>
switchVars == <<parallel, switch>>
stopVars   == <<stop, discard>>
vars == <<turnVars, adapters, modeVars, drop, resets, waiting, laneVars, switchVars, stopVars, lateStart>>

Adapter == [mode: Modes, cwd: {"shared", "lane"}, live: BOOLEAN]

ASSUME NoAdapterAssumption == NoAdapter \notin Adapter

Phases == {"idle", "lane", "setup", "snapshot", "running", "resetting", "closing", "dropping"}

\* clean, dirty: in #lanes; left, kept: on disk from an earlier process, or kept
\* by a removal, without and with work the thread directory lacks.
Lanes == {"none", "clean", "dirty", "left", "kept"}

TypeOK ==
    /\ phase \in [Agents -> Phases]
    /\ cwd \in [Agents -> {"shared", "lane"}]
    /\ retried \subseteq Agents
    /\ held \in [Agents -> {"none", "map", "own"}]
    /\ own \in [Agents -> Adapter \cup {NoAdapter}]
    /\ adapters \in [Agents -> Adapter \cup {NoAdapter}]
    /\ leaked \subseteq Agents
    /\ mode \in Modes
    /\ gen \in 0..MaxModeChanges
    /\ resets \in [Agents -> 0..MaxModeChanges]
    /\ queue \in Seq(Modes) /\ Len(queue) <= MaxModeChanges + 1
    /\ applying \in BOOLEAN
    /\ awaited \subseteq Agents
    /\ drop \in [Agents -> -MaxModeChanges..MaxModeChanges]
    /\ modeFailed \in BOOLEAN
    /\ waiting \in [Agents -> -1..MaxModeChanges + 1]
    /\ parallel \in BOOLEAN
    /\ switch \in {"no", "sweep", "inspect", "adapters", "lanes"}
    /\ lane \in [Agents -> Lanes]
    /\ condemned \subseteq Agents
    /\ swept \in BOOLEAN
    /\ stop \in {"no", "adapters", "settle", "lanes", "done"}
    /\ discard \in BOOLEAN
    /\ lateStart \in BOOLEAN

\* A thread just loaded: the lanes an earlier process left are on disk.
Init ==
    /\ phase = [a \in Agents |-> "idle"]
    /\ cwd = [a \in Agents |-> "shared"]
    /\ retried = {}
    /\ held = [a \in Agents |-> "none"]
    /\ own = [a \in Agents |-> NoAdapter]
    /\ adapters = [a \in Agents |-> NoAdapter]
    /\ leaked = {}
    /\ mode = DefaultMode
    /\ gen = 0
    /\ resets = [a \in Agents |-> 0]
    /\ queue = <<>>
    /\ applying = FALSE
    /\ awaited = {}
    /\ drop = [a \in Agents |-> 0]
    /\ modeFailed = FALSE
    /\ waiting = [a \in Agents |-> -1]
    /\ parallel = FALSE
    /\ switch = "no"
    /\ lane \in [Agents -> {"none", "left", "kept"}]
    /\ condemned = {}
    /\ swept = FALSE
    /\ stop = "no"
    /\ discard = FALSE
    /\ lateStart = FALSE

Claimed(a) == phase[a] # "idle"
Stopping == stop # "no"
InMap(a) == lane[a] \in {"clean", "dirty"}
Pending == Len(queue) + (IF applying THEN 1 ELSE 0)

\* The adapter a turn talks to, whether or not the map still has it.
Held(a) == IF held[a] = "map" THEN adapters[a] ELSE own[a]

\* Mutant: the adapters of turns in flight are left to end by themselves.
StoppedOnlyIdle(ads) == [a \in Agents |-> IF ads[a] = NoAdapter \/ Claimed(a) THEN ads[a] ELSE [ads[a] EXCEPT !.live = FALSE]]

\* Everything in #adapters stops: a stopped adapter forgets its child at once.
Stopped(ads) == [a \in Agents |-> IF ads[a] = NoAdapter THEN NoAdapter ELSE [ads[a] EXCEPT !.live = FALSE]]

\* #adapters.clear(): a turn that holds one of them still does.
ClearAdapters(ads) ==
    /\ adapters' = [a \in Agents |-> NoAdapter]
    /\ own' = [a \in Agents |-> IF held[a] = "map" THEN ads[a] ELSE own[a]]
    /\ held' = [a \in Agents |-> IF held[a] = "map" THEN "own" ELSE held[a]]
    /\ drop' = [a \in Agents |-> IF drop[a] > 0 THEN -drop[a] ELSE drop[a]]

Finalize(a) ==
    /\ phase' = [phase EXCEPT ![a] = "idle"]
    /\ held' = [held EXCEPT ![a] = "none"]
    /\ own' = [own EXCEPT ![a] = NoAdapter]
    /\ leaked' = IF own[a] # NoAdapter /\ own[a].live THEN leaked \cup {a} ELSE leaked
    /\ cwd' = [cwd EXCEPT ![a] = "shared"]
    /\ retried' = retried \ {a}

-------------------------------------------------------------------------------
(* Permission mode.  Changes are applied one at a time. *)

\* The caller's half of setPermissionMode.  No call reaches a thread that stops:
\* the socket is closed, or the thread has left #threads, before.  A change to the mode in force is
\* asked for only while no other is pending (a bound: the retry of a failed one).
SetPermissionMode(m) ==
    /\ gen + Pending < MaxModeChanges \/ (Pending = 0 /\ m = mode)
    /\ stop = "no"
    /\ queue' = Append(queue, m)
    /\ UNCHANGED <<turnVars, adapters, mode, gen, applying, awaited, drop, modeFailed, resets,
                   waiting, laneVars, switchVars, stopVars, lateStart>>

\* Mutant: every change starts a new generation.
NextGenerationAlways(m) == gen + 1

NextGeneration(m) == IF m = mode THEN gen ELSE gen + 1

\* Mutant: the adapter of a turn in flight is left as it is.
AffectedIdle(m) == {a \in Agents : adapters[a] # NoAdapter /\ ~Claimed(a)}

\* The adapters a change has to replace, those of turns in flight included; none
\* when the mode is in force and no replacement is outstanding.
Affected(m) ==
    IF m = mode /\ \A a \in Agents : resets[a] = 0
    THEN {}
    ELSE {a \in Agents : adapters[a] # NoAdapter}

\* #applyPermissionMode up to its await: every affected adapter is marked, the
\* idle ones begin to stop.  A send released by the change before this one has
\* run by now: its continuation was queued first.
StartChange ==
    /\ queue # <<>> /\ ~applying
    /\ \A a \in Agents : waiting[a] # 0
    /\ LET m    == Head(queue)
           g    == NextGeneration(m)
           live == Affected(m)
           idle == {a \in live : ~Claimed(a)}
       IN  /\ mode' = m
           /\ gen' = g
           /\ resets' = [a \in Agents |-> IF a \in live THEN g ELSE resets[a]]
           /\ awaited' = idle
           /\ drop' = [a \in Agents |-> IF a \in idle THEN g ELSE drop[a]]
           /\ adapters' = [a \in Agents |-> IF a \in idle THEN [adapters[a] EXCEPT !.live = FALSE] ELSE adapters[a]]
    /\ queue' = Tail(queue)
    /\ applying' = TRUE
    /\ UNCHANGED <<turnVars, modeFailed, waiting, laneVars, switchVars, stopVars, lateStart>>

\* The end of a change: the sends that waited for it alone go on or are refused.
ChangeEnds(failed) ==
    /\ applying' = FALSE
    /\ awaited' = {}
    /\ modeFailed' = failed
    /\ waiting' = [a \in Agents |->
          IF waiting[a] <= 0 THEN waiting[a]
          ELSE IF waiting[a] = 1 /\ failed THEN -1
          ELSE waiting[a] - 1]

\* #dropAdapterForPermissionMode after adapter.stop() for an adapter no turn holds.
DropDone(a) ==
    /\ drop[a] # 0 /\ phase[a] # "dropping"
    /\ adapters' = IF drop[a] > 0 THEN [adapters EXCEPT ![a] = NoAdapter] ELSE adapters
    /\ resets' = [resets EXCEPT ![a] = IF @ \in {drop[a], -drop[a]} THEN 0 ELSE @]
    /\ drop' = [drop EXCEPT ![a] = 0]
    /\ awaited' = awaited \ {a}
    /\ UNCHANGED <<turnVars, mode, gen, queue, applying, modeFailed, waiting, laneVars, switchVars,
                   stopVars, lateStart>>

\* The stop fails, or the native session is not the one there was before it.
DropFails(a) ==
    /\ drop[a] # 0 /\ phase[a] # "dropping"
    /\ drop' = [drop EXCEPT ![a] = 0]
    /\ IF a \in awaited
       THEN ChangeEnds(TRUE)
       ELSE UNCHANGED <<applying, awaited, modeFailed, waiting>>
    /\ UNCHANGED <<turnVars, adapters, mode, gen, queue, resets, laneVars, switchVars, stopVars, lateStart>>

FinishChange ==
    /\ applying /\ awaited = {}
    /\ ChangeEnds(FALSE)
    /\ UNCHANGED <<turnVars, adapters, mode, gen, queue, drop, resets, laneVars, switchVars, stopVars, lateStart>>

-------------------------------------------------------------------------------
(* Turns *)

\* Mutant: a change of lane mode does not hold turns off.
AdmittedWhileSwitching(a) ==
    /\ ~Stopping
    /\ ~Claimed(a)
    /\ parallel \/ \A b \in Agents : ~Claimed(b)

\* What send checks with no await between the check and the claim.
Admitted(a) ==
    /\ ~Stopping
    /\ ~Claimed(a)
    /\ switch = "no"
    /\ parallel \/ \A b \in Agents : ~Claimed(b)

\* A new adapter, built for the mode in force.
NewAdapter(c) == [mode |-> mode, cwd |-> c, live |-> FALSE]

\* Mutant: #stopping is not asked again once the lane is there.
TurnRefusedUnlessStopping(a) == adapters[a] # NoAdapter /\ resets[a] # 0

\* The checks behind the claim: the thread is stopping, or the adapter there is
\* waits to be replaced.
TurnRefused(a) == Stopping \/ (adapters[a] # NoAdapter /\ resets[a] # 0)

\* #adapter, then the run up to the next await: the working tree's snapshot, or
\* sendTurn at once where the adapter reports its own diff.
Prepare(a, c) ==
    LET ad == IF adapters[a] = NoAdapter THEN NewAdapter(c) ELSE adapters[a]
    IN  IF TurnRefused(a)
        THEN /\ Finalize(a)
             /\ UNCHANGED <<adapters, resets>>
        ELSE /\ phase' = [phase EXCEPT ![a] = IF a \in SelfDiff THEN "running" ELSE "snapshot"]
             /\ held' = [held EXCEPT ![a] = "map"]
             /\ adapters' = [adapters EXCEPT ![a] = [ad EXCEPT !.live = a \in SelfDiff \/ ad.live]]
             /\ resets' = IF adapters[a] = NoAdapter THEN [resets EXCEPT ![a] = 0] ELSE resets
             /\ cwd' = [cwd EXCEPT ![a] = c]
             /\ UNCHANGED <<retried, own, leaked>>

\* The claim.  Without lanes there is no await before the adapter.
Claim(a) ==
    IF parallel
    THEN /\ phase' = [phase EXCEPT ![a] = "lane"]
         /\ cwd' = [cwd EXCEPT ![a] = "lane"]
         /\ UNCHANGED <<retried, held, own, leaked, adapters, resets>>
    ELSE Prepare(a, "shared")

\* A send that has to wait for a permission mode change first, one that is
\* refused because the last change failed, and one that is admitted.
SendWaits(a) ==
    /\ ~Stopping
    /\ Pending > 0
    /\ waiting[a] = -1
    /\ waiting' = [waiting EXCEPT ![a] = Pending]
    /\ UNCHANGED <<turnVars, adapters, modeVars, drop, resets, laneVars, switchVars, stopVars, lateStart>>

Send(a) ==
    /\ Pending = 0 /\ ~modeFailed
    /\ Admitted(a)
    /\ Claim(a)
    /\ UNCHANGED <<modeVars, drop, waiting, laneVars, switchVars, stopVars, lateStart>>

\* Mutant: the other turns in flight are looked up only before the wait.
ResumeUnchecked(a) ==
    /\ waiting[a] = 0
    /\ waiting' = [waiting EXCEPT ![a] = -1]
    /\ IF ~Stopping /\ ~Claimed(a) /\ switch = "no" THEN Claim(a) ELSE UNCHANGED <<turnVars, adapters, resets>>
    /\ UNCHANGED <<modeVars, drop, laneVars, switchVars, stopVars, lateStart>>

\* The changes it waited for have succeeded: every check is made again.
Resume(a) ==
    /\ waiting[a] = 0
    /\ waiting' = [waiting EXCEPT ![a] = -1]
    /\ IF Admitted(a) THEN Claim(a) ELSE UNCHANGED <<turnVars, adapters, resets>>
    /\ UNCHANGED <<modeVars, drop, laneVars, switchVars, stopVars, lateStart>>

\* #lane: a new lane, once the leftovers have been swept.  Provisioning under way
\* when stop() begins is finished.
LaneAdded(a) ==
    /\ phase[a] = "lane" /\ swept
    /\ lane[a] = "none"
    /\ lane' = [lane EXCEPT ![a] = "clean"]
    /\ phase' = [phase EXCEPT ![a] = "setup"]
    /\ UNCHANGED <<cwd, retried, held, own, leaked, adapters, modeVars, drop, resets, waiting, condemned, swept,
                   switchVars, stopVars, lateStart>>

\* git refuses, or a kept lane is in the way.
ProvisionFails(a) ==
    /\ phase[a] = "lane" /\ ~InMap(a) /\ swept
    /\ Finalize(a)
    /\ UNCHANGED <<adapters, modeVars, drop, resets, waiting, laneVars, switchVars, stopVars, lateStart>>

\* The lane is there, its setup command has ended (failed or not).
LaneReady(a) ==
    /\ phase[a] = "setup" \/ (phase[a] = "lane" /\ InMap(a))
    /\ Prepare(a, "lane")
    /\ UNCHANGED <<modeVars, drop, waiting, laneVars, switchVars, stopVars, lateStart>>

\* sendTurn on the adapter the turn holds, which starts its process if it has none.
Talk(a) ==
    /\ phase' = [phase EXCEPT ![a] = "running"]
    /\ IF held[a] = "map"
       THEN /\ adapters' = [adapters EXCEPT ![a].live = TRUE]
            /\ UNCHANGED own
       ELSE /\ own' = [own EXCEPT ![a].live = TRUE]
            /\ UNCHANGED adapters
    /\ lateStart' = (lateStart \/ Stopping)

Dispatch(a) ==
    /\ phase[a] = "snapshot"
    /\ Talk(a)
    /\ UNCHANGED <<cwd, retried, held, leaked, modeVars, drop, resets, waiting, laneVars, switchVars, stopVars>>

\* The agent changes a file in its lane (a setup command may, too).
Work(a) ==
    /\ phase[a] \in {"setup", "running"} /\ cwd[a] = "lane"
    /\ lane[a] = "clean"
    /\ lane' = [lane EXCEPT ![a] = "dirty"]
    /\ UNCHANGED <<turnVars, adapters, modeVars, drop, resets, waiting, condemned, swept, switchVars, stopVars, lateStart>>

\* #resetStaleNativeSession: the adapter in the map is stopped, once per turn.
StaleResume(a) ==
    /\ phase[a] = "running" /\ a \notin retried
    /\ retried' = retried \cup {a}
    /\ phase' = [phase EXCEPT ![a] = "resetting"]
    /\ adapters' = [adapters EXCEPT ![a] = IF @ = NoAdapter THEN @ ELSE [@ EXCEPT !.live = FALSE]]
    /\ UNCHANGED <<cwd, held, own, leaked, modeVars, drop, resets, waiting, laneVars, switchVars, stopVars, lateStart>>

\* The turn goes on with a new adapter: nothing asks again whether the thread stops.
ResetDone(a) ==
    /\ phase[a] = "resetting"
    /\ phase' = [phase EXCEPT ![a] = "running"]
    /\ held' = [held EXCEPT ![a] = "map"]
    /\ own' = [own EXCEPT ![a] = NoAdapter]
    /\ leaked' = IF own[a] # NoAdapter /\ own[a].live THEN leaked \cup {a} ELSE leaked
    /\ adapters' = [adapters EXCEPT ![a] = [NewAdapter(cwd[a]) EXCEPT !.live = TRUE]]
    /\ resets' = [resets EXCEPT ![a] = 0]
    /\ lateStart' = (lateStart \/ Stopping)
    /\ UNCHANGED <<cwd, retried, modeVars, drop, waiting, laneVars, switchVars, stopVars>>

\* After the turn: an adapter marked for replacement is stopped before the
\* claim is released.
WindDown(a) ==
    IF resets[a] # 0
    THEN /\ phase' = [phase EXCEPT ![a] = "dropping"]
         /\ drop' = [drop EXCEPT ![a] = resets[a]]
         /\ adapters' = IF held[a] = "map" THEN [adapters EXCEPT ![a].live = FALSE] ELSE adapters
         /\ own' = IF held[a] = "own" THEN [own EXCEPT ![a].live = FALSE] ELSE own
         /\ UNCHANGED <<cwd, retried, held, leaked>>
    ELSE /\ Finalize(a)
         /\ UNCHANGED <<adapters, drop>>

\* sendTurn returns or throws: the agent is done, was interrupted, or its
\* process has exited.
TurnEnds(a) ==
    /\ phase[a] = "running"
    /\ IF a \in SelfDiff
       THEN WindDown(a)
       ELSE /\ phase' = [phase EXCEPT ![a] = "closing"]
            /\ UNCHANGED <<cwd, retried, held, own, leaked, adapters, drop>>
    /\ UNCHANGED <<modeVars, resets, waiting, laneVars,
                   switchVars, stopVars, lateStart>>

ClosingDone(a) ==
    /\ phase[a] = "closing"
    /\ WindDown(a)
    /\ UNCHANGED <<modeVars, resets, waiting, laneVars,
                   switchVars, stopVars, lateStart>>

\* The turn's own #dropAdapterForPermissionMode.  When it fails the turn is
\* reported as failed, and the adapter stays, marked.
HeldDropDone(a) ==
    /\ phase[a] = "dropping"
    /\ Finalize(a)
    /\ adapters' = IF held[a] = "map" THEN [adapters EXCEPT ![a] = NoAdapter] ELSE adapters
    /\ resets' = [resets EXCEPT ![a] = IF @ \in {drop[a], -drop[a]} THEN 0 ELSE @]
    /\ drop' = [drop EXCEPT ![a] = 0]
    /\ UNCHANGED <<modeVars, waiting, laneVars, switchVars,
                   stopVars, lateStart>>

HeldDropFails(a) ==
    /\ phase[a] = "dropping"
    /\ Finalize(a)
    /\ drop' = [drop EXCEPT ![a] = 0]
    /\ UNCHANGED <<adapters, modeVars, resets, waiting,
                   laneVars, switchVars, stopVars, lateStart>>

-------------------------------------------------------------------------------
(* Lanes, lane mode and shutdown *)

\* leftoverLaneWork: whether a lane on disk is known to hold nothing the thread
\* directory lacks; one that cannot be read counts as kept.
LeftoverIsClean(a) == lane[a] = "left"

\* removeLane, of each of these agents.
Removed(gone) == [a \in Agents |-> IF a \in gone THEN "none" ELSE lane[a]]

\* The one sweep per load: leftovers without work go, the others stay.
SweepDone ==
    /\ ~swept
    /\ swept' = TRUE
    /\ lane' = Removed({a \in Agents : LeftoverIsClean(a)})
    /\ UNCHANGED <<turnVars, adapters, modeVars, drop, resets, waiting, condemned, switchVars, stopVars, lateStart>>

\* setParallel(~parallel), admitted only while no turn is claimed; as above, not
\* called on a thread that stops.
SwitchCall ==
    /\ stop = "no"
    /\ switch = "no"
    /\ \A a \in Agents : ~Claimed(a)
    /\ switch' = "sweep"
    /\ UNCHANGED <<turnVars, adapters, modeVars, drop, resets, waiting, laneVars, parallel, stopVars, lateStart>>

\* A retained lane blocks lane mode; otherwise git is asked for the head, or
\* for the diff of every lane.
SwitchInspects ==
    /\ switch = "sweep" /\ swept
    /\ switch' = IF ~parallel /\ \E a \in Agents : lane[a] = "kept" THEN "no" ELSE "inspect"
    /\ UNCHANGED <<turnVars, adapters, modeVars, drop, resets, waiting, laneVars, parallel, stopVars, lateStart>>

\* No head, an unreadable lane, or work that is not integrated: refused.
SwitchRefused ==
    /\ switch = "inspect"
    /\ switch' = "no"
    /\ UNCHANGED <<turnVars, adapters, modeVars, drop, resets, waiting, laneVars, parallel, stopVars, lateStart>>

SwitchStopsAdapters ==
    /\ switch = "inspect"
    /\ parallel => \A a \in Agents : lane[a] # "dirty"
    /\ switch' = "adapters"
    /\ adapters' = Stopped(adapters)
    /\ UNCHANGED <<turnVars, modeVars, drop, resets, waiting, laneVars, parallel, stopVars, lateStart>>

SwitchCommits ==
    /\ switch = "adapters"
    /\ ClearAdapters(adapters)
    /\ parallel' = ~parallel
    /\ switch' = IF parallel THEN "lanes" ELSE "no"
    /\ UNCHANGED <<phase, cwd, retried, leaked, modeVars, resets, waiting, laneVars, stopVars, lateStart>>

SwitchDone ==
    /\ switch = "lanes" /\ \A a \in Agents : ~InMap(a)
    /\ switch' = "no"
    /\ UNCHANGED <<turnVars, adapters, modeVars, drop, resets, waiting, laneVars, parallel, stopVars, lateStart>>

\* #dropLanes: each lane is inspected, then removed, or kept on disk because it
\* holds work or cannot be read.
Dropping == switch = "lanes" \/ stop = "lanes"

InspectLane(a) ==
    /\ Dropping /\ InMap(a) /\ a \notin condemned
    /\ \/ /\ lane[a] = "clean" \/ (discard /\ stop = "lanes")
          /\ condemned' = condemned \cup {a}
          /\ UNCHANGED lane
       \/ /\ ~(discard /\ stop = "lanes")
          /\ lane' = [lane EXCEPT ![a] = "kept"]
          /\ UNCHANGED condemned
    /\ UNCHANGED <<turnVars, adapters, modeVars, drop, resets, waiting, swept, switchVars, stopVars, lateStart>>

RemoveLane(a) ==
    /\ a \in condemned
    /\ lane' = Removed({a})
    /\ condemned' = condemned \ {a}
    /\ UNCHANGED <<turnVars, adapters, modeVars, drop, resets, waiting, swept, switchVars, stopVars, lateStart>>

\* stop({ discardLanes: d }) up to its first await.
StopCall(d) ==
    /\ stop = "no"
    /\ stop' = "adapters"
    /\ discard' = d
    /\ adapters' = Stopped(adapters)
    /\ UNCHANGED <<turnVars, modeVars, drop, resets, waiting, laneVars, switchVars, lateStart>>

StopClears ==
    /\ stop = "adapters"
    /\ ClearAdapters(adapters)
    /\ stop' = "settle"
    /\ UNCHANGED <<phase, cwd, retried, leaked, modeVars, resets, waiting, laneVars, switchVars, discard, lateStart>>

\* Mutant: the turns in flight are not waited for.
StopWithoutSettling ==
    /\ stop = "settle" /\ swept
    /\ stop' = "lanes"
    /\ UNCHANGED <<turnVars, adapters, modeVars, drop, resets, waiting, laneVars, switchVars, discard, lateStart>>

\* Every turn in flight has settled, and so has the sweep.
StopSettles ==
    /\ stop = "settle" /\ swept
    /\ \A a \in Agents : ~Claimed(a)
    /\ stop' = "lanes"
    /\ UNCHANGED <<turnVars, adapters, modeVars, drop, resets, waiting, laneVars, switchVars, discard, lateStart>>

\* With `discard`, what an earlier process left goes too.
StopDone ==
    /\ stop = "lanes" /\ \A a \in Agents : ~InMap(a)
    /\ stop' = "done"
    /\ lane' = Removed(IF discard THEN Agents ELSE {})
    /\ UNCHANGED <<turnVars, adapters, modeVars, drop, resets, waiting, condemned, swept, switchVars, discard, lateStart>>

-------------------------------------------------------------------------------
TurnStep(a) ==
    \/ SendWaits(a) \/ Send(a) \/ Resume(a)
    \/ LaneAdded(a) \/ ProvisionFails(a) \/ LaneReady(a)
    \/ Dispatch(a) \/ Work(a) \/ StaleResume(a) \/ ResetDone(a)
    \/ TurnEnds(a) \/ ClosingDone(a) \/ HeldDropDone(a) \/ HeldDropFails(a)

ModeStep ==
    \/ \E m \in Modes : SetPermissionMode(m)
    \/ StartChange \/ FinishChange
    \/ \E a \in Agents : DropDone(a) \/ DropFails(a)

LaneStep ==
    \/ SweepDone
    \/ SwitchCall \/ SwitchInspects \/ SwitchRefused \/ SwitchStopsAdapters \/ SwitchCommits \/ SwitchDone
    \/ \E a \in Agents : InspectLane(a) \/ RemoveLane(a)
    \/ \E d \in BOOLEAN : StopCall(d)
    \/ StopClears \/ StopSettles \/ StopDone

Next == (\E a \in Agents : TurnStep(a)) \/ ModeStep \/ LaneStep

Spec == Init /\ [][Next]_vars

\* What the scheduler and the operating system guarantee: an await on git, the
\* file system or a stopping adapter ends (git, worktree and setup commands run
\* under a timeout, an adapter's stop under interruptGraceMs), and a process
\* that was told to stop ends its turn.  A turn whose process runs may last.
TurnEndsAfterStop(a) == phase[a] = "running" /\ ~Held(a).live /\ TurnEnds(a)

Fairness ==
    /\ \A a \in Agents :
          /\ WF_vars(LaneAdded(a) \/ ProvisionFails(a)) /\ WF_vars(LaneReady(a))
          /\ WF_vars(Dispatch(a)) /\ WF_vars(ResetDone(a)) /\ WF_vars(ClosingDone(a))
          /\ WF_vars(HeldDropDone(a) \/ HeldDropFails(a))
          /\ WF_vars(TurnEndsAfterStop(a))
          /\ WF_vars(InspectLane(a)) /\ WF_vars(RemoveLane(a))
    /\ WF_vars(SweepDone) /\ WF_vars(StopClears) /\ WF_vars(StopSettles) /\ WF_vars(StopDone)

FairSpec == Spec /\ Fairness

-------------------------------------------------------------------------------
\* The directory rule: two turns in flight never share a working directory.
\* (Admission in send, which is made before and after the wait for a
\* permission mode change, and the claim before the first await.)
OneTurnPerDirectory ==
    \A a, b \in Agents :
       a # b /\ Claimed(a) /\ Claimed(b) => cwd[a] = "lane" /\ cwd[b] = "lane"

\* A turn that works in a lane has that lane: it is in #lanes and nobody is
\* removing it, whatever setParallel and stop do meanwhile.
TurnInLiveLane ==
    \A a \in Agents :
       Claimed(a) /\ phase[a] # "lane" /\ cwd[a] = "lane" => InMap(a) /\ a \notin condemned

\* An adapter that the next turn may use was built for the permission mode in
\* force, and a turn's adapter for the directory the turn runs in: the mode and
\* the directory of an adapter are fixed when it is built.
AdapterMatches ==
    \A a \in Agents :
       /\ adapters[a] # NoAdapter /\ resets[a] = 0 => adapters[a].mode = mode
       /\ held[a] # "none" => Held(a).cwd = cwd[a]

\* A turn never finds itself in the wrong place: it keeps its lane, and its
\* adapter, or the one the next turn will use, was built for where and how it
\* runs (#adapter, setParallel, #applyPermissionMode).
TurnsKeepTheirSetting == TurnInLiveLane /\ AdapterMatches

\* Work in a lane is removed only by a deletion of the thread (stop's comment:
\* without discardLanes a lane with unintegrated work is kept on disk).
NoLaneWorkLost ==
    [][\A a \in Agents : lane[a] \in {"dirty", "kept"} /\ lane'[a] \notin {"dirty", "kept"} => discard]_vars

Alive(a) ==
    \/ a \in leaked
    \/ adapters[a] # NoAdapter /\ adapters[a].live
    \/ own[a] # NoAdapter /\ own[a].live

\* When stop() has returned no worker process of the thread runs.
StopLeavesNoProcess == stop = "done" => \A a \in Agents : ~Alive(a)

\* The same, except for turns that were past the last check of #stopping when
\* stop() began: they may start a process nobody stops.
QuietAfterStop == lateStart \/ StopLeavesNoProcess

\* Shutdown ends: stop() waits for turns, and every turn it waits for ends,
\* unless one of them has started a process anew.
StopCompletes == [](Stopping => <>(stop = "done" \/ lateStart))
===============================================================================
