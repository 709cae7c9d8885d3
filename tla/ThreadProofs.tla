------------------------------ MODULE ThreadProofs ------------------------------
(***************************************************************************)
(* What the thread scheduler promises, for every set of workers, every set *)
(* of permission modes and any number of mode changes.  The argument is one *)
(* inductive invariant in five parts, each about one thing a turn relies on:*)
(* that nobody changes the lane mode or removes lanes under it, that its    *)
(* lane is there, that the adapter it holds is the one it was given, that a *)
(* mark for replacement is never lost, and that a process started before    *)
(* stop() is stopped by it.                                                *)
(***************************************************************************)
EXTENDS Thread, TLAPS

Early == {"idle", "lane", "setup"}

\* A changing lane mode and the removal of lanes have the thread for
\* themselves, and all turns in flight were admitted in the same lane mode.
Exclusion ==
    /\ switch # "no" \/ stop \in {"lanes", "done"} => \A a \in Agents : phase[a] = "idle"
    /\ \A a \in Agents : phase[a] # "idle" => (cwd[a] = "lane" <=> parallel)
    /\ \A a \in Agents : phase[a] \in {"lane", "setup"} => cwd[a] = "lane"
    /\ ~parallel => \A a, b \in Agents : phase[a] # "idle" /\ phase[b] # "idle" => a = b

\* Lanes are condemned only while they are being dropped, and only those
\* without work unless everything goes.
LanesSafe ==
    /\ \A a \in condemned : lane[a] = "clean" \/ (lane[a] = "dirty" /\ discard)
    /\ condemned # {} => Dropping
    /\ \A a \in Agents : phase[a] \notin {"idle", "lane"} /\ cwd[a] = "lane" => InMap(a)
    /\ stop = "no" => ~discard

\* A turn holds an adapter from its preparation to its end, either the one in
\* the map or one that stop() has taken out of it.
Holding ==
    \A a \in Agents :
       /\ held[a] = "none" <=> phase[a] \in Early
       /\ held[a] = "map" => adapters[a] # NoAdapter
       /\ held[a] = "own" => own[a] # NoAdapter /\ own[a].cwd = cwd[a]
       /\ held[a] = "own" => adapters[a] = NoAdapter /\ stop # "no"
       /\ held[a] # "own" => own[a] = NoAdapter
       /\ adapters[a] # NoAdapter => (adapters[a].cwd = "lane" <=> parallel)

\* An adapter built for another mode is marked with the current generation; an
\* adapter being stopped outside of a turn is marked, and no turn holds it.
Marks ==
    \A a \in Agents :
       /\ resets[a] <= gen /\ drop[a] <= gen /\ -gen <= drop[a]
       /\ adapters[a] # NoAdapter => resets[a] \in {0, gen}
       /\ adapters[a] # NoAdapter /\ (resets[a] = 0 \/ drop[a] = -gen) => adapters[a].mode = mode
       /\ drop[a] > 0 /\ phase[a] # "dropping" =>
             adapters[a] # NoAdapter /\ resets[a] # 0 /\ phase[a] \in Early

\* Until a process is started behind stop()'s back, stop() has stopped them all.
Quiet ==
    ~lateStart =>
       /\ leaked = {}
       /\ \A a \in Agents : own[a] # NoAdapter => ~own[a].live
       /\ stop = "adapters" => \A a \in Agents : adapters[a] # NoAdapter => ~adapters[a].live
       /\ stop \in {"settle", "lanes", "done"} => \A a \in Agents : adapters[a] = NoAdapter

\* The bound on mode changes: one that does not change the mode needs no room.
QueueBound ==
    \/ gen + Len(queue) <= MaxModeChanges
    \/ ~applying /\ Len(queue) = 1 /\ Head(queue) = mode

IInv ==
    /\ TypeOK /\ QueueBound
    /\ Exclusion /\ LanesSafe /\ Holding /\ Marks /\ Quiet
-------------------------------------------------------------------------------
(* What the steps do to an adapter.  How it was built, its mode and its      *)
(* directory, never changes; only whether its process lives does.            *)

SameBuild(new, old) ==
    IF old = NoAdapter THEN new = NoAdapter
    ELSE new \in Adapter /\ new.mode = old.mode /\ new.cwd = old.cwd

Slots == [Agents -> Adapter \cup {NoAdapter}]

LEMMA SameItself ==
  ASSUME NEW f \in Slots
  PROVE  \A a \in Agents : SameBuild(f[a], f[a])
  BY DEF Slots, SameBuild

LEMMA WithLive ==
  ASSUME NEW ad \in Adapter, NEW b \in BOOLEAN
  PROVE  /\ SameBuild([ad EXCEPT !.live = b], ad)
         /\ [ad EXCEPT !.live = b] # NoAdapter
         /\ [ad EXCEPT !.live = b].live = b
  BY NoAdapterAssumption DEF Adapter, SameBuild

LEMMA NewAdapters ==
  ASSUME mode \in Modes, NEW c \in {"shared", "lane"}
  PROVE  /\ NewAdapter(c) \in Adapter
         /\ NewAdapter(c).mode = mode /\ NewAdapter(c).cwd = c /\ ~NewAdapter(c).live
  BY DEF NewAdapter, Adapter

\* One slot's process is started or stopped.
LEMMA SlotWithLive ==
  ASSUME NEW f \in Slots, NEW a \in Agents, f[a] \in Adapter, NEW b \in BOOLEAN
  PROVE  /\ [f EXCEPT ![a].live = b] \in Slots
         /\ \A x \in Agents : SameBuild([f EXCEPT ![a].live = b][x], f[x])
         /\ \A x \in Agents : [f EXCEPT ![a].live = b][x] = f[x]
                   \/ (~b => ~[f EXCEPT ![a].live = b][x].live)
  <1>1. [f EXCEPT ![a].live = b][a] = [f[a] EXCEPT !.live = b]
    BY DEF Slots
  <1>2. SameBuild(f[a], f[a]) /\ SameBuild([f[a] EXCEPT !.live = b], f[a])
    BY WithLive DEF SameBuild
  <1>3. \A x \in Agents \ {a} : [f EXCEPT ![a].live = b][x] = f[x] /\ SameBuild(f[x], f[x])
    BY DEF Slots, SameBuild
  <1>4. [f[a] EXCEPT !.live = b] \in Adapter /\ [f[a] EXCEPT !.live = b].live = b
    BY DEF Adapter
  <1>5. [f EXCEPT ![a].live = b] = [f EXCEPT ![a] = [f[a] EXCEPT !.live = b]]
    BY DEF Slots
  <1>6. [f EXCEPT ![a].live = b] \in Slots
    BY <1>4, <1>5 DEF Slots
  <1> QED BY <1>1, <1>2, <1>3, <1>4, <1>6

\* All of some adapters are stopped.
LEMMA SlotsStopped ==
  ASSUME NEW f \in Slots, NEW S \in SUBSET Agents,
         \A x \in S : f[x] \in Adapter,
         NEW g, g = [x \in Agents |-> IF x \in S THEN [f[x] EXCEPT !.live = FALSE] ELSE f[x]]
  PROVE  /\ g \in Slots
         /\ \A x \in Agents : SameBuild(g[x], f[x])
         /\ \A x \in Agents : (x \notin S /\ g[x] = f[x]) \/ (x \in S /\ ~g[x].live)
  <1>1. ASSUME NEW x \in S PROVE g[x] \in Adapter /\ SameBuild(g[x], f[x]) /\ ~g[x].live
    <2>1. f[x] \in Adapter /\ g[x] = [f[x] EXCEPT !.live = FALSE]
      OBVIOUS
    <2>2. [f[x] EXCEPT !.live = FALSE] \in Adapter
      BY <2>1 DEF Adapter
    <2> QED BY <2>1, <2>2, WithLive
  <1>2. ASSUME NEW x \in Agents \ S PROVE g[x] = f[x] /\ SameBuild(g[x], f[x])
    BY DEF Slots, SameBuild
  <1>3. g \in Slots
    BY <1>1, <1>2 DEF Slots
  <1> QED BY <1>1, <1>2, <1>3

LEMMA StoppedAdapters ==
  ASSUME adapters \in Slots
  PROVE  /\ Stopped(adapters) \in Slots
         /\ \A a \in Agents : /\ SameBuild(Stopped(adapters)[a], adapters[a])
                              /\ Stopped(adapters)[a] # NoAdapter => ~Stopped(adapters)[a].live
  <1> DEFINE S == {a \in Agents : adapters[a] # NoAdapter}
             g == [x \in Agents |-> IF x \in S THEN [adapters[x] EXCEPT !.live = FALSE] ELSE adapters[x]]
  <1>1. Stopped(adapters) = g
    BY DEF Stopped
  <1>2. \A x \in S : adapters[x] \in Adapter
    BY DEF Slots
  <1>3. /\ g \in Slots
        /\ \A x \in Agents : SameBuild(g[x], adapters[x])
        /\ \A x \in Agents : (x \notin S /\ g[x] = adapters[x]) \/ (x \in S /\ ~g[x].live)
    <2> HIDE DEF g
    <2>1. g = [x \in Agents |-> IF x \in S THEN [adapters[x] EXCEPT !.live = FALSE] ELSE adapters[x]]
      BY DEF g
    <2>2. S \in SUBSET Agents
      OBVIOUS
    <2> HIDE DEF S
    <2> QED BY <1>2, <2>1, <2>2, SlotsStopped
  <1> QED BY <1>1, <1>3

LEMMA ClearedAdapters ==
  ASSUME NEW f \in Slots, own \in Slots, held \in [Agents -> {"none", "map", "own"}],
         drop \in [Agents -> -MaxModeChanges..MaxModeChanges], ClearAdapters(f)
  PROVE  /\ adapters' \in Slots /\ own' \in Slots
         /\ held' \in [Agents -> {"none", "map", "own"}]
         /\ drop' \in [Agents -> -MaxModeChanges..MaxModeChanges]
  BY BoundAssumption DEF ClearAdapters, Slots

\* A turn that is prepared gets the adapter in the map, or a new one.
LEMMA Prepared ==
  ASSUME TypeOK, NEW a \in Agents, NEW c \in {"shared", "lane"}, Prepare(a, c), ~TurnRefused(a)
  PROVE  /\ adapters' \in Slots
         /\ \A b \in Agents \ {a} : adapters'[b] = adapters[b] /\ resets'[b] = resets[b]
         /\ adapters'[a] \in Adapter
         /\ adapters[a] = NoAdapter => adapters'[a].mode = mode /\ adapters'[a].cwd = c
         /\ adapters[a] # NoAdapter => SameBuild(adapters'[a], adapters[a])
         /\ resets' \in [Agents -> 0..MaxModeChanges] /\ resets'[a] = 0
         /\ phase' = [phase EXCEPT ![a] = phase'[a]] /\ phase'[a] \in {"running", "snapshot"}
         /\ held' = [held EXCEPT ![a] = "map"]
         /\ cwd' = [cwd EXCEPT ![a] = c]
         /\ UNCHANGED <<retried, own, leaked>>
  <1> DEFINE ad == IF adapters[a] = NoAdapter THEN NewAdapter(c) ELSE adapters[a]
             l == a \in SelfDiff \/ ad.live
  <1>1. ad \in Adapter /\ l \in BOOLEAN
    BY NewAdapters DEF TypeOK, Adapter
  <1>2. adapters' = [adapters EXCEPT ![a] = [ad EXCEPT !.live = l]]
    BY DEF Prepare
  <1>3. adapters' = [adapters EXCEPT ![a] = adapters'[a]] /\ adapters'[a] = [ad EXCEPT !.live = l]
    BY <1>2 DEF TypeOK
  <1>4. adapters'[a] \in Adapter /\ SameBuild(adapters'[a], ad)
    <2>1. [ad EXCEPT !.live = l] \in Adapter
      BY <1>1 DEF Adapter
    <2> HIDE DEF ad, l
    <2> QED BY <1>1, <1>3, <2>1, WithLive
  <1>5. /\ adapters' \in Slots
        /\ \A b \in Agents \ {a} : adapters'[b] = adapters[b]
    BY <1>3, <1>4 DEF TypeOK, Slots
  <1>6. /\ adapters[a] = NoAdapter => adapters'[a].mode = mode /\ adapters'[a].cwd = c
        /\ adapters[a] # NoAdapter => SameBuild(adapters'[a], adapters[a])
    BY <1>1, <1>4, NewAdapters DEF TypeOK, SameBuild
  <1>7. /\ resets' \in [Agents -> 0..MaxModeChanges] /\ resets'[a] = 0
        /\ \A b \in Agents \ {a} : resets'[b] = resets[b]
    <2>1. resets \in [Agents -> 0..MaxModeChanges] /\ 0 \in 0..MaxModeChanges
      BY BoundAssumption DEF TypeOK
    <2>2. resets' = [resets EXCEPT ![a] = 0]
      BY <2>1 DEF Prepare, TurnRefused
    <2> QED BY <2>1, <2>2
  <1>8. /\ phase' = [phase EXCEPT ![a] = phase'[a]] /\ phase'[a] \in {"running", "snapshot"}
        /\ held' = [held EXCEPT ![a] = "map"]
        /\ cwd' = [cwd EXCEPT ![a] = c]
        /\ UNCHANGED <<retried, own, leaked>>
    BY DEF Prepare, TypeOK
  <1> QED BY <1>4, <1>5, <1>6, <1>7, <1>8

LEMMA Refused ==
  ASSUME TypeOK, NEW a \in Agents, NEW c \in {"shared", "lane"}, Prepare(a, c), TurnRefused(a)
  PROVE  Finalize(a) /\ UNCHANGED <<adapters, resets>>
  BY DEF Prepare

LEMMA Finalized ==
  ASSUME TypeOK, NEW a \in Agents, Finalize(a)
  PROVE  /\ phase' \in [Agents -> Phases] /\ cwd' \in [Agents -> {"shared", "lane"}]
         /\ retried' \subseteq Agents /\ held' \in [Agents -> {"none", "map", "own"}]
         /\ own' \in Slots /\ leaked' \subseteq Agents
  BY DEF TypeOK, Finalize, Phases, Slots

\* A held adapter is one.
LEMMA TurnHasAdapter ==
  ASSUME TypeOK, Holding, NEW a \in Agents
  PROVE  /\ held[a] = "map" => adapters[a] \in Adapter
         /\ held[a] = "own" => own[a] \in Adapter
  BY DEF TypeOK, Holding

LEMMA Talked ==
  ASSUME TypeOK, Holding, NEW a \in Agents, phase[a] \notin Early, Talk(a)
  PROVE  /\ adapters' \in Slots /\ own' \in Slots
         /\ \A b \in Agents : SameBuild(adapters'[b], adapters[b]) /\ SameBuild(own'[b], own[b])
         /\ held[a] = "map" => own' = own
         /\ phase' = [phase EXCEPT ![a] = "running"]
         /\ lateStart' = (lateStart \/ Stopping)
  <1>1. adapters \in Slots /\ own \in Slots
    BY DEF TypeOK, Slots
  <1>2. \A b \in Agents : SameBuild(adapters[b], adapters[b]) /\ SameBuild(own[b], own[b])
    BY DEF TypeOK, SameBuild
  <1>3. CASE held[a] = "map"
    <2>1. adapters' = [adapters EXCEPT ![a].live = TRUE] /\ own' = own
      BY <1>3 DEF Talk
    <2>2. adapters[a] \in Adapter
      BY <1>3, TurnHasAdapter
    <2>3. adapters' \in Slots /\ \A b \in Agents : SameBuild(adapters'[b], adapters[b])
      BY <1>1, <2>1, <2>2, SlotWithLive
    <2> QED BY <1>1, <1>2, <2>1, <2>3 DEF Talk
  <1>4. CASE held[a] = "own"
    <2>1. own' = [own EXCEPT ![a].live = TRUE] /\ adapters' = adapters
      BY <1>4 DEF Talk
    <2>2. own[a] \in Adapter
      BY <1>4, TurnHasAdapter
    <2>3. own' \in Slots /\ \A b \in Agents : SameBuild(own'[b], own[b])
      BY <1>1, <2>1, <2>2, SlotWithLive
    <2> QED BY <1>1, <1>2, <1>4, <2>1, <2>3 DEF Talk
  <1> QED BY <1>3, <1>4 DEF TypeOK, Holding

LEMMA StaleStopped ==
  ASSUME TypeOK, NEW a \in Agents, StaleResume(a)
  PROVE  /\ adapters' \in Slots
         /\ \A b \in Agents : SameBuild(adapters'[b], adapters[b])
         /\ \A b \in Agents : adapters'[b] = adapters[b] \/ ~adapters'[b].live
  <1> DEFINE S == {x \in {a} : adapters[a] # NoAdapter}
  <1>1. adapters \in Slots
    BY DEF TypeOK, Slots
  <1>2. adapters' = [x \in Agents |-> IF x \in S THEN [adapters[x] EXCEPT !.live = FALSE] ELSE adapters[x]]
    BY <1>1 DEF StaleResume, Slots
  <1>3. S \in SUBSET Agents /\ \A x \in S : adapters[x] \in Adapter
    BY DEF TypeOK
  <1> HIDE DEF S
  <1> QED BY <1>1, <1>2, <1>3, SlotsStopped

\* After a turn whose adapter is marked, that adapter is stopped.
LEMMA Wound ==
  ASSUME TypeOK, Holding, NEW a \in Agents, phase[a] \notin Early, WindDown(a), resets[a] # 0
  PROVE  /\ adapters' \in Slots /\ own' \in Slots
         /\ \A b \in Agents : /\ SameBuild(adapters'[b], adapters[b])
                              /\ SameBuild(own'[b], own[b])
                              /\ adapters'[b] = adapters[b] \/ ~adapters'[b].live
                              /\ own'[b] = own[b] \/ ~own'[b].live
         /\ phase' = [phase EXCEPT ![a] = "dropping"]
         /\ drop' = [drop EXCEPT ![a] = resets[a]]
         /\ UNCHANGED <<cwd, retried, held, leaked>>
  <1>1. adapters \in Slots /\ own \in Slots
    BY DEF TypeOK, Slots
  <1>2. \A b \in Agents : SameBuild(adapters[b], adapters[b]) /\ SameBuild(own[b], own[b])
    BY DEF TypeOK, SameBuild
  <1>3. CASE held[a] = "map"
    <2>1. adapters' = [adapters EXCEPT ![a].live = FALSE] /\ own' = own
      BY <1>3 DEF WindDown
    <2>2. adapters[a] \in Adapter
      BY <1>3, TurnHasAdapter
    <2>3. /\ adapters' \in Slots
          /\ \A b \in Agents : /\ SameBuild(adapters'[b], adapters[b])
                               /\ adapters'[b] = adapters[b] \/ ~adapters'[b].live
      BY <1>1, <2>1, <2>2, SlotWithLive
    <2> QED BY <1>1, <1>2, <2>1, <2>3 DEF WindDown
  <1>4. CASE held[a] = "own"
    <2>1. own' = [own EXCEPT ![a].live = FALSE] /\ adapters' = adapters
      BY <1>4 DEF WindDown
    <2>2. own[a] \in Adapter
      BY <1>4, TurnHasAdapter
    <2>3. /\ own' \in Slots
          /\ \A b \in Agents : /\ SameBuild(own'[b], own[b])
                               /\ own'[b] = own[b] \/ ~own'[b].live
      BY <1>1, <2>1, <2>2, SlotWithLive
    <2> QED BY <1>1, <1>2, <2>1, <2>3 DEF WindDown
  <1> QED BY <1>3, <1>4 DEF TypeOK, Holding

\* A change of mode leaves how the adapters were built alone.
LEMMA ChangeStops ==
  ASSUME TypeOK, StartChange
  PROVE  /\ adapters' \in Slots
         /\ \A a \in Agents : SameBuild(adapters'[a], adapters[a])
         /\ \A a \in Agents : adapters'[a] = adapters[a] \/ ~adapters'[a].live
  <1> DEFINE S == {a \in Affected(Head(queue)) : ~Claimed(a)}
  <1>1. adapters \in Slots
    BY DEF TypeOK, Slots
  <1>2. adapters' = [x \in Agents |-> IF x \in S THEN [adapters[x] EXCEPT !.live = FALSE] ELSE adapters[x]]
    BY DEF StartChange
  <1>3. S \in SUBSET Agents /\ \A x \in S : adapters[x] \in Adapter
    BY <1>1 DEF Affected, Slots
  <1> HIDE DEF S
  <1> QED BY <1>1, <1>2, <1>3, SlotsStopped

LEMMA ChangeEnded ==
  ASSUME waiting \in [Agents -> -1..MaxModeChanges + 1], NEW failed \in BOOLEAN, ChangeEnds(failed)
  PROVE  /\ waiting' \in [Agents -> -1..MaxModeChanges + 1]
         /\ applying' \in BOOLEAN /\ awaited' \subseteq Agents /\ modeFailed' \in BOOLEAN
  <1>1. ASSUME NEW a \in Agents PROVE waiting'[a] \in -1..MaxModeChanges + 1
    <2>1. waiting[a] \in -1..MaxModeChanges + 1
      OBVIOUS
    <2>2. waiting'[a] = waiting[a] \/ waiting'[a] = -1
              \/ (waiting[a] > 0 /\ waiting'[a] = waiting[a] - 1)
      BY <2>1 DEF ChangeEnds
    <2> QED BY <2>1, <2>2, BoundAssumption
  <1>2. waiting' = [a \in Agents |-> waiting'[a]]
    BY DEF ChangeEnds
  <1> QED BY <1>1, <1>2 DEF ChangeEnds
-------------------------------------------------------------------------------
(* The ways a turn moves on.  Send, Resume and LaneReady each end in one of   *)
(* the first four, TurnEnds and ClosingDone in one of the last three.         *)

OutsideTurn == <<mode, gen, queue, applying, awaited, modeFailed, lane, condemned, swept,
                 parallel, switch, stop, discard>>

\* The turn is claimed, its lane is to be provisioned.
Enters(a) ==
    /\ Admitted(a) /\ parallel
    /\ phase' = [phase EXCEPT ![a] = "lane"] /\ cwd' = [cwd EXCEPT ![a] = "lane"]
    /\ UNCHANGED <<retried, held, own, leaked, adapters, resets, drop, lateStart, OutsideTurn>>

\* The turn is given up before it has an adapter.
GivesUp(a) ==
    /\ phase[a] \in Early
    /\ Finalize(a)
    /\ UNCHANGED <<adapters, resets, drop, lateStart, OutsideTurn>>

\* The turn has its adapter.
Starts(a, c) ==
    /\ phase[a] = "idle" => Admitted(a)
    /\ c = "lane" <=> parallel
    /\ c = "lane" => InMap(a)
    /\ phase[a] \in Early /\ ~TurnRefused(a)
    /\ adapters' \in Slots
    /\ \A b \in Agents \ {a} : adapters'[b] = adapters[b] /\ resets'[b] = resets[b]
    /\ adapters'[a] \in Adapter
    /\ adapters[a] = NoAdapter => adapters'[a].mode = mode /\ adapters'[a].cwd = c
    /\ adapters[a] # NoAdapter => SameBuild(adapters'[a], adapters[a])
    /\ resets' \in [Agents -> 0..MaxModeChanges] /\ resets'[a] = 0
    /\ phase' = [phase EXCEPT ![a] = phase'[a]] /\ phase'[a] \in {"running", "snapshot"}
    /\ held' = [held EXCEPT ![a] = "map"]
    /\ cwd' = [cwd EXCEPT ![a] = c]
    /\ UNCHANGED <<retried, own, leaked, drop, lateStart, OutsideTurn>>

\* A send that is refused after its wait.
Stays ==
    UNCHANGED <<phase, cwd, retried, held, own, leaked, adapters, resets, drop, lateStart, OutsideTurn>>

LEMMA TurnBegins ==
  ASSUME TypeOK, Exclusion, LanesSafe, NEW a \in Agents, Send(a) \/ Resume(a) \/ LaneReady(a)
  PROVE  Enters(a) \/ GivesUp(a) \/ (\E c \in {"shared", "lane"} : Starts(a, c)) \/ Stays
  <1>1. ASSUME NEW c \in {"shared", "lane"}, Prepare(a, c), phase[a] \in Early,
               phase[a] = "idle" => Admitted(a), c = "lane" <=> parallel, c = "lane" => InMap(a),
               UNCHANGED <<drop, lateStart, OutsideTurn>>
        PROVE  GivesUp(a) \/ Starts(a, c)
    <2>1. CASE TurnRefused(a)
      BY <1>1, <2>1, Refused DEF GivesUp
    <2>2. CASE ~TurnRefused(a)
      BY <1>1, <2>2, Prepared DEF Starts
    <2> QED BY <2>1, <2>2
  <1>2. ASSUME Admitted(a), Claim(a), UNCHANGED <<drop, lateStart, OutsideTurn>>
        PROVE  Enters(a) \/ GivesUp(a) \/ \E c \in {"shared", "lane"} : Starts(a, c)
    <2>1. CASE parallel
      BY <1>2, <2>1 DEF Claim, Enters
    <2>2. CASE ~parallel
      <3>1. Prepare(a, "shared") /\ phase[a] = "idle"
        BY <1>2, <2>2 DEF Claim, Admitted, Claimed
      <3> QED BY <1>1, <1>2, <2>2, <3>1 DEF Early
    <2> QED BY <2>1, <2>2
  <1>3. CASE Send(a)
    BY <1>2, <1>3 DEF Send, modeVars, laneVars, switchVars, stopVars, OutsideTurn
  <1>4. CASE Resume(a)
    BY <1>2, <1>4 DEF Resume, Stays, turnVars, modeVars, laneVars, switchVars, stopVars, OutsideTurn
  <1>5. CASE LaneReady(a)
    <2>1. Prepare(a, "lane") /\ phase[a] \in {"lane", "setup"} /\ cwd[a] = "lane"
      BY <1>5 DEF LaneReady, Exclusion
    <2>2. parallel /\ InMap(a)
      BY <1>5, <2>1 DEF LaneReady, Exclusion, LanesSafe
    <2>3. UNCHANGED <<drop, lateStart, OutsideTurn>>
      BY <1>5 DEF LaneReady, modeVars, laneVars, switchVars, stopVars, OutsideTurn
    <2> QED BY <1>1, <2>1, <2>2, <2>3 DEF Early
  <1> QED BY <1>3, <1>4, <1>5

\* The working tree is read after the turn.
Closes(a) ==
    /\ phase[a] = "running" /\ phase' = [phase EXCEPT ![a] = "closing"]
    /\ UNCHANGED <<cwd, retried, held, own, leaked, adapters, resets, drop, lateStart, OutsideTurn>>

\* The turn's adapter is stopped for a new permission mode.
Drops(a) ==
    /\ phase[a] \notin Early /\ resets[a] # 0
    /\ adapters' \in Slots /\ own' \in Slots
    /\ \A b \in Agents : /\ SameBuild(adapters'[b], adapters[b])
                         /\ SameBuild(own'[b], own[b])
                         /\ adapters'[b] = adapters[b] \/ ~adapters'[b].live
                         /\ own'[b] = own[b] \/ ~own'[b].live
    /\ phase' = [phase EXCEPT ![a] = "dropping"]
    /\ drop' = [drop EXCEPT ![a] = resets[a]]
    /\ UNCHANGED <<cwd, retried, held, leaked, resets, lateStart, OutsideTurn>>

\* The turn is over.
Finishes(a) ==
    /\ phase[a] \in {"running", "closing"}
    /\ Finalize(a)
    /\ UNCHANGED <<adapters, resets, drop, lateStart, OutsideTurn>>

LEMMA TurnFinishes ==
  ASSUME TypeOK, Holding, NEW a \in Agents, TurnEnds(a) \/ ClosingDone(a)
  PROVE  (Closes(a) \/ Drops(a) \/ Finishes(a)) /\ UNCHANGED waiting
  <1>1. phase[a] \in {"running", "closing"} /\ UNCHANGED <<resets, waiting, lateStart, OutsideTurn>>
    BY DEF TurnEnds, ClosingDone, modeVars, laneVars, switchVars, stopVars, OutsideTurn
  <1>2. CASE WindDown(a)
    <2>1. CASE resets[a] = 0
      BY <1>1, <1>2, <2>1 DEF WindDown, Finishes
    <2>2. CASE resets[a] # 0
      <3>1. phase[a] \notin Early
        BY <1>1 DEF Early
      <3> QED BY <1>1, <1>2, <2>2, <3>1, Wound DEF Drops
    <2> QED BY <2>1, <2>2
  <1>3. CASE ~WindDown(a)
    BY <1>1, <1>3 DEF TurnEnds, ClosingDone, Closes
  <1> QED BY <1>2, <1>3

\* The types of what a turn touches, and of the rest.
TurnTypes ==
    /\ phase \in [Agents -> Phases] /\ cwd \in [Agents -> {"shared", "lane"}]
    /\ retried \subseteq Agents /\ held \in [Agents -> {"none", "map", "own"}]
    /\ own \in Slots /\ adapters \in Slots /\ leaked \subseteq Agents
    /\ resets \in [Agents -> 0..MaxModeChanges]
    /\ drop \in [Agents -> -MaxModeChanges..MaxModeChanges]
    /\ lateStart \in BOOLEAN

OtherTypes ==
    /\ mode \in Modes /\ gen \in 0..MaxModeChanges
    /\ queue \in Seq(Modes) /\ Len(queue) <= MaxModeChanges + 1
    /\ applying \in BOOLEAN /\ awaited \subseteq Agents /\ modeFailed \in BOOLEAN
    /\ waiting \in [Agents -> -1..MaxModeChanges + 1]
    /\ parallel \in BOOLEAN /\ switch \in {"no", "sweep", "inspect", "adapters", "lanes"}
    /\ lane \in [Agents -> Lanes] /\ condemned \subseteq Agents /\ swept \in BOOLEAN
    /\ stop \in {"no", "adapters", "settle", "lanes", "done"} /\ discard \in BOOLEAN

LEMMA TypesSplit == /\ TypeOK <=> TurnTypes /\ OtherTypes
                    /\ TypeOK' <=> TurnTypes' /\ OtherTypes'
  BY DEF TypeOK, TurnTypes, OtherTypes, Slots

-------------------------------------------------------------------------------
\* What a turn touches keeps its type.
LEMMA TurnTypesKept ==
  ASSUME TypeOK, QueueBound, Exclusion, LanesSafe, Holding, Marks, Next
  PROVE  TurnTypes'
  <1>1. ASSUME NEW a \in Agents, Enters(a) PROVE TurnTypes'
    BY <1>1 DEF Enters, Admitted, Claimed, Stopping, OutsideTurn, TurnTypes, Slots, Phases, TypeOK
  <1>2. ASSUME NEW a \in Agents, GivesUp(a) PROVE TurnTypes'
    BY <1>2 DEF GivesUp, Finalize, OutsideTurn, TurnTypes, Slots, Phases, TypeOK
  <1>3. ASSUME NEW a \in Agents, NEW c \in {"shared", "lane"}, Starts(a, c) PROVE TurnTypes'
    BY <1>3, TypesSplit DEF Starts, TurnTypes, Phases, Slots, OutsideTurn
  <1>4. ASSUME NEW a \in Agents, Stays PROVE TurnTypes'
    BY <1>4 DEF Stays, OutsideTurn, TurnTypes, Slots, Phases, TypeOK
  <1>5. ASSUME NEW a \in Agents, Closes(a) PROVE TurnTypes'
    BY <1>5 DEF Closes, OutsideTurn, TurnTypes, Slots, Phases, TypeOK
  <1>6. ASSUME NEW a \in Agents, Drops(a) PROVE TurnTypes'
    BY <1>6, NoAdapterAssumption, BoundAssumption DEF Drops, SameBuild, Slots, OutsideTurn,
       TurnTypes, Slots, Phases, TypeOK
  <1>7. ASSUME NEW a \in Agents, Finishes(a) PROVE TurnTypes'
    BY <1>7 DEF Finishes, Finalize, OutsideTurn, TurnTypes, Slots, Phases, TypeOK
  <1>8. ASSUME NEW a \in Agents, Send(a) \/ Resume(a) \/ LaneReady(a) PROVE TurnTypes'
    BY <1>8, <1>1, <1>2, <1>3, <1>4, TurnBegins
  <1>9. ASSUME NEW a \in Agents, TurnEnds(a) \/ ClosingDone(a) PROVE TurnTypes'
    BY <1>9, <1>5, <1>6, <1>7, TurnFinishes
  <1>10. ASSUME SwitchCommits PROVE TurnTypes'
    BY <1>10, TypesSplit, ClearedAdapters DEF SwitchCommits, TurnTypes
  <1>11. ASSUME StopClears PROVE TurnTypes'
    BY <1>11, TypesSplit, ClearedAdapters DEF StopClears, TurnTypes
  <1>12. ASSUME StartChange PROVE TurnTypes'
    <2> DEFINE g == NextGeneration(Head(queue))
    <2>1. g \in 0..MaxModeChanges
      BY <1>12, BoundAssumption DEF StartChange, NextGeneration, QueueBound, TypeOK
    <2>2. /\ resets' = [a \in Agents |-> IF a \in Affected(Head(queue)) THEN g ELSE resets[a]]
          /\ drop' = [a \in Agents |-> IF a \in Affected(Head(queue)) /\ ~Claimed(a) THEN g ELSE drop[a]]
          /\ UNCHANGED <<phase, cwd, retried, held, own, leaked, lateStart>>
      BY <1>12 DEF StartChange, turnVars
    <2> HIDE DEF g
    <2>3. resets' \in [Agents -> 0..MaxModeChanges] /\ drop' \in [Agents -> -MaxModeChanges..MaxModeChanges]
      BY <2>1, <2>2, BoundAssumption DEF TypeOK
    <2> QED BY <1>12, <2>2, <2>3, ChangeStops DEF TypeOK, TurnTypes, Slots
  <1>13. ASSUME SwitchStopsAdapters PROVE TurnTypes'
    BY <1>13, TypesSplit, StoppedAdapters DEF SwitchStopsAdapters, TurnTypes, turnVars
  <1>14. ASSUME NEW d \in BOOLEAN, StopCall(d) PROVE TurnTypes'
    BY <1>14, TypesSplit, StoppedAdapters DEF StopCall, TurnTypes, turnVars
  <1>15. ASSUME NEW a \in Agents, Dispatch(a) PROVE TurnTypes'
    <2>1. phase[a] = "snapshot" /\ Talk(a) /\ UNCHANGED <<cwd, retried, held, leaked, resets, drop>>
      BY <1>15 DEF Dispatch
    <2> QED BY <2>1, Talked DEF TypeOK, TurnTypes, Phases, Early, Stopping
  <1>16. ASSUME NEW a \in Agents, StaleResume(a) PROVE TurnTypes'
    BY <1>16, TypesSplit, StaleStopped DEF StaleResume, TurnTypes, Phases
  <1>17. ASSUME NEW a \in Agents, ResetDone(a) PROVE TurnTypes'
    <2>1. [NewAdapter(cwd[a]) EXCEPT !.live = TRUE] \in Adapter
      BY NewAdapters DEF Adapter, TypeOK
    <2> QED BY <1>17, <2>1, BoundAssumption DEF ResetDone, TurnTypes, TypeOK, Slots, Phases,
       Stopping
  <1>18. ASSUME NEW a \in Agents, HeldDropDone(a) PROVE TurnTypes'
    BY <1>18, NoAdapterAssumption, BoundAssumption DEF HeldDropDone, Finalize, TurnTypes, Slots,
       Phases, TypeOK, modeVars, laneVars, switchVars, stopVars
  <1>19. ASSUME NEW a \in Agents, HeldDropFails(a) PROVE TurnTypes'
    BY <1>19, NoAdapterAssumption, BoundAssumption DEF HeldDropFails, Finalize, TurnTypes, Slots,
       Phases, TypeOK, modeVars, laneVars, switchVars, stopVars
  <1>20. ASSUME NEW a \in Agents, ProvisionFails(a) PROVE TurnTypes'
    BY <1>20 DEF ProvisionFails, Finalize, TurnTypes, Slots, Phases, TypeOK, modeVars, laneVars,
       switchVars, stopVars
  <1>21. ASSUME NEW a \in Agents, DropDone(a) PROVE TurnTypes'
    BY <1>21, NoAdapterAssumption, BoundAssumption DEF DropDone, TurnTypes, Slots, Phases, TypeOK,
       turnVars, laneVars, switchVars, stopVars
  <1>22. ASSUME NEW a \in Agents, DropFails(a) PROVE TurnTypes'
    BY <1>22, NoAdapterAssumption, BoundAssumption DEF DropFails, TurnTypes, Slots, Phases, TypeOK,
       turnVars, laneVars, switchVars, stopVars
  <1>23. ASSUME NEW a \in Agents, SendWaits(a) \/ LaneAdded(a) \/ Work(a) \/ InspectLane(a)
            \/ RemoveLane(a) PROVE TurnTypes'
    BY <1>23 DEF SendWaits, LaneAdded, Work, InspectLane, RemoveLane, Pending, Dropping, InMap,
       Removed, TurnTypes, Slots, Phases, TypeOK, turnVars, modeVars, laneVars, switchVars, stopVars
  <1>24. CASE FinishChange \/ SweepDone \/ SwitchCall \/ SwitchInspects \/ SwitchRefused
            \/ SwitchDone \/ StopSettles \/ StopDone
    BY <1>24 DEF FinishChange, SweepDone, SwitchCall, SwitchInspects, SwitchRefused, SwitchDone,
       StopSettles, StopDone, ChangeEnds, Removed, LeftoverIsClean, Claimed, InMap, TurnTypes,
       Slots, Phases, TypeOK, turnVars, modeVars, laneVars, switchVars, stopVars
  <1>25. ASSUME NEW m \in Modes, SetPermissionMode(m) PROVE TurnTypes'
    BY <1>25 DEF SetPermissionMode, Pending, TurnTypes, Slots, Phases, TypeOK, turnVars, laneVars,
       switchVars, stopVars
  <1> QED BY <1>8, <1>9, <1>10, <1>11, <1>12, <1>13, <1>14, <1>15, <1>16, <1>17, <1>18, <1>19,
     <1>20, <1>21, <1>22, <1>23, <1>24, <1>25 DEF Next, TurnStep, ModeStep, LaneStep

\* So does the rest.
LEMMA OtherTypesKept ==
  ASSUME TypeOK, QueueBound, Next
  PROVE  OtherTypes'
  <1>1. ASSUME NEW a \in Agents, LaneAdded(a) PROVE OtherTypes'
    BY <1>1 DEF LaneAdded, OtherTypes, TypeOK, Lanes, modeVars, switchVars, stopVars
  <1>2. ASSUME NEW a \in Agents, Work(a) PROVE OtherTypes'
    BY <1>2 DEF Work, OtherTypes, TypeOK, Lanes, turnVars, modeVars, switchVars, stopVars
  <1>3. ASSUME NEW a \in Agents, DropDone(a) PROVE OtherTypes'
    BY <1>3 DEF DropDone, OtherTypes, TypeOK, Lanes, turnVars, laneVars, switchVars, stopVars
  <1>4. ASSUME NEW a \in Agents, InspectLane(a) PROVE OtherTypes'
    BY <1>4 DEF InspectLane, OtherTypes, TypeOK, Lanes, turnVars, modeVars, switchVars, stopVars
  <1>5. ASSUME NEW a \in Agents, Resume(a) PROVE OtherTypes'
    <2>1. -1 \in -1..MaxModeChanges + 1
      BY BoundAssumption
    <2> QED BY <1>5, <2>1 DEF Resume, OtherTypes, TypeOK, turnVars, modeVars, laneVars, switchVars,
       stopVars
  <1>6. ASSUME NEW a \in Agents, RemoveLane(a) PROVE OtherTypes'
    BY <1>6 DEF RemoveLane, Removed, OtherTypes, TypeOK, Lanes, turnVars, modeVars, switchVars,
       stopVars
  <1>7. ASSUME NEW a \in Agents, SendWaits(a) PROVE OtherTypes'
    <2>1. Pending \in 0..MaxModeChanges + 1
      BY BoundAssumption DEF Pending, QueueBound, TypeOK
    <2> QED BY <1>7, <2>1 DEF SendWaits, OtherTypes, TypeOK, turnVars, modeVars, laneVars,
       switchVars, stopVars
  <1>8. ASSUME StartChange PROVE OtherTypes'
    <2>1. queue \in Seq(Modes) /\ queue # <<>> /\ Len(queue) <= MaxModeChanges + 1
      BY <1>8 DEF StartChange, TypeOK
    <2>2. /\ Head(queue) \in Modes /\ Tail(queue) \in Seq(Modes)
          /\ Len(Tail(queue)) <= MaxModeChanges + 1
      BY <2>1, BoundAssumption
    <2>3. NextGeneration(Head(queue)) \in 0..MaxModeChanges
      BY <2>1, BoundAssumption DEF NextGeneration, QueueBound, TypeOK
    <2>4. /\ mode' = Head(queue) /\ gen' = NextGeneration(Head(queue)) /\ queue' = Tail(queue)
          /\ awaited' \subseteq Agents /\ applying' = TRUE
      BY <1>8 DEF StartChange, Affected
    <2> QED BY <1>8, <2>2, <2>3, <2>4 DEF StartChange, OtherTypes, TypeOK, turnVars, laneVars,
       switchVars, stopVars
  <1>9. ASSUME NEW a \in Agents, DropFails(a) PROVE OtherTypes'
    <2>1. CASE a \in awaited
      BY <1>9, <2>1, ChangeEnded DEF DropFails, OtherTypes, TypeOK, turnVars, laneVars, switchVars,
         stopVars
    <2>2. CASE a \notin awaited
      BY <1>9, <2>2 DEF DropFails, OtherTypes, TypeOK, turnVars, laneVars, switchVars, stopVars
    <2> QED BY <2>1, <2>2
  <1>10. ASSUME FinishChange PROVE OtherTypes'
    BY <1>10, ChangeEnded DEF FinishChange, OtherTypes, TypeOK, turnVars, laneVars, switchVars,
       stopVars
  <1>11. ASSUME NEW m \in Modes, SetPermissionMode(m) PROVE OtherTypes'
    <2>1. Append(queue, m) \in Seq(Modes) /\ Len(Append(queue, m)) <= MaxModeChanges + 1
      BY <1>11, BoundAssumption DEF SetPermissionMode, Pending, TypeOK
    <2> QED BY <1>11, <2>1 DEF SetPermissionMode, OtherTypes, TypeOK, turnVars, laneVars,
       switchVars, stopVars
  <1>12. ASSUME NEW a \in Agents, Send(a) \/ ProvisionFails(a) \/ LaneReady(a) \/ Dispatch(a)
            \/ StaleResume(a) \/ ResetDone(a) PROVE OtherTypes'
    BY <1>12 DEF Send, ProvisionFails, LaneReady, Dispatch, StaleResume, ResetDone, InMap,
       OtherTypes, TypeOK, Lanes, modeVars, laneVars, switchVars, stopVars
  <1>13. ASSUME NEW a \in Agents, TurnEnds(a) \/ ClosingDone(a) \/ HeldDropDone(a)
            \/ HeldDropFails(a) PROVE OtherTypes'
    BY <1>13 DEF TurnEnds, ClosingDone, HeldDropDone, HeldDropFails, OtherTypes, TypeOK, Lanes,
       modeVars, laneVars, switchVars, stopVars
  <1>14. CASE SweepDone \/ SwitchCall \/ SwitchInspects \/ SwitchRefused \/ SwitchStopsAdapters
    BY <1>14 DEF SweepDone, SwitchCall, SwitchInspects, SwitchRefused, SwitchStopsAdapters, Removed,
       LeftoverIsClean, OtherTypes, TypeOK, Lanes, turnVars, modeVars, laneVars, switchVars,
       stopVars
  <1>15. CASE SwitchCommits \/ SwitchDone \/ StopClears \/ StopSettles \/ StopDone
    BY <1>15 DEF SwitchCommits, SwitchDone, StopClears, StopSettles, StopDone, InMap, Removed,
       OtherTypes, TypeOK, Lanes, turnVars, modeVars, laneVars, switchVars, stopVars
  <1>16. ASSUME NEW d \in BOOLEAN, StopCall(d) PROVE OtherTypes'
    BY <1>16 DEF StopCall, OtherTypes, TypeOK, Lanes, turnVars, modeVars, laneVars, switchVars
  <1> QED BY <1>1, <1>2, <1>3, <1>4, <1>5, <1>6, <1>7, <1>8, <1>9, <1>10, <1>11, <1>12, <1>13,
     <1>14, <1>15, <1>16 DEF Next, TurnStep, ModeStep, LaneStep

\* A change of mode never exceeds the bound on generations.
LEMMA QueueBoundKept ==
  ASSUME TypeOK, QueueBound, Next
  PROVE  QueueBound'
  <1>1. ASSUME StartChange PROVE QueueBound'
    <2>1. queue \in Seq(Modes) /\ queue # <<>>
      BY <1>1 DEF StartChange, TypeOK
    <2>2. Len(Tail(queue)) = Len(queue) - 1 /\ Len(queue) \in Nat
      BY <2>1
    <2>3. /\ gen' = NextGeneration(Head(queue)) /\ queue' = Tail(queue)
          /\ ~applying /\ gen \in 0..MaxModeChanges
      BY <1>1 DEF StartChange, TypeOK
    <2>4. CASE gen + Len(queue) <= MaxModeChanges
      <3>1. Len(queue') = Len(queue) - 1 /\ (gen' = gen \/ gen' = gen + 1)
        BY <2>2, <2>3 DEF NextGeneration
      <3> QED BY <2>2, <2>3, <2>4, <3>1, BoundAssumption DEF QueueBound
    <2>5. CASE Len(queue) = 1 /\ Head(queue) = mode
      <3>1. Len(queue') = 0 /\ gen' = gen
        BY <2>2, <2>3, <2>5 DEF NextGeneration
      <3> QED BY <2>3, <3>1 DEF QueueBound
    <2> QED BY <2>4, <2>5 DEF QueueBound
  <1>2. ASSUME NEW a \in Agents, SendWaits(a) \/ Send(a) \/ Resume(a) \/ LaneAdded(a)
            \/ ProvisionFails(a) \/ LaneReady(a) PROVE QueueBound'
    BY <1>2 DEF SendWaits, Send, Resume, LaneAdded, ProvisionFails, LaneReady, Pending, InMap,
       QueueBound, TypeOK, turnVars, modeVars, laneVars, switchVars, stopVars
  <1>3. ASSUME NEW a \in Agents, Dispatch(a) \/ Work(a) \/ StaleResume(a) \/ ResetDone(a)
            \/ TurnEnds(a) \/ ClosingDone(a) PROVE QueueBound'
    BY <1>3 DEF Dispatch, Work, StaleResume, ResetDone, TurnEnds, ClosingDone, QueueBound, TypeOK,
       turnVars, modeVars, laneVars, switchVars, stopVars
  <1>4. ASSUME NEW a \in Agents, HeldDropDone(a) \/ HeldDropFails(a) \/ DropDone(a)
            \/ DropFails(a) \/ InspectLane(a) \/ RemoveLane(a) PROVE QueueBound'
    BY <1>4 DEF HeldDropDone, HeldDropFails, DropDone, DropFails, InspectLane, RemoveLane,
       ChangeEnds, Dropping, InMap, Removed, QueueBound, TypeOK, turnVars, modeVars, laneVars,
       switchVars, stopVars
  <1>5. CASE FinishChange \/ SweepDone \/ SwitchCall \/ SwitchInspects \/ SwitchRefused
    BY <1>5 DEF FinishChange, SweepDone, SwitchCall, SwitchInspects, SwitchRefused, ChangeEnds,
       Removed, LeftoverIsClean, QueueBound, TypeOK, turnVars, modeVars, laneVars, switchVars,
       stopVars
  <1>6. CASE SwitchStopsAdapters \/ SwitchCommits \/ SwitchDone \/ StopClears \/ StopSettles
    BY <1>6 DEF SwitchStopsAdapters, SwitchCommits, SwitchDone, StopClears, StopSettles, InMap,
       QueueBound, TypeOK, turnVars, modeVars, laneVars, switchVars, stopVars
  <1>7. ASSUME StopDone PROVE QueueBound'
    BY <1>7 DEF StopDone, Removed, InMap, QueueBound, TypeOK, turnVars, modeVars, switchVars
  <1>8. ASSUME NEW m \in Modes, SetPermissionMode(m) PROVE QueueBound'
    BY <1>8, BoundAssumption DEF SetPermissionMode, Pending, QueueBound, TypeOK, turnVars, laneVars,
       switchVars, stopVars
  <1>9. ASSUME NEW d \in BOOLEAN, StopCall(d) PROVE QueueBound'
    BY <1>9 DEF StopCall, QueueBound, TypeOK, turnVars, modeVars, laneVars, switchVars
  <1> QED BY <1>1, <1>2, <1>3, <1>4, <1>5, <1>6, <1>7, <1>8, <1>9 DEF Next, TurnStep, ModeStep,
     LaneStep

-------------------------------------------------------------------------------
\* Nothing changes the lane mode, or removes lanes, under a turn.
LEMMA ExclusionKept ==
  ASSUME TypeOK, Exclusion, LanesSafe, Holding, Next
  PROVE  Exclusion'
  <1>1. ASSUME NEW a \in Agents, Enters(a) PROVE Exclusion'
    BY <1>1 DEF Enters, Admitted, Claimed, Stopping, OutsideTurn, Exclusion, Phases, TypeOK
  <1>2. ASSUME NEW a \in Agents, GivesUp(a) PROVE Exclusion'
    BY <1>2 DEF GivesUp, Finalize, OutsideTurn, Exclusion, Early, Phases, TypeOK
  <1>3. ASSUME NEW a \in Agents, NEW c \in {"shared", "lane"}, Starts(a, c) PROVE Exclusion'
    BY <1>3 DEF Starts, SameBuild, Slots, Admitted, TurnRefused, Stopping, Claimed, OutsideTurn,
       InMap, Exclusion, Early, Phases, TypeOK
  <1>4. ASSUME NEW a \in Agents, Stays PROVE Exclusion'
    BY <1>4 DEF Stays, OutsideTurn, Exclusion, Phases, TypeOK
  <1>5. ASSUME NEW a \in Agents, Closes(a) PROVE Exclusion'
    BY <1>5 DEF Closes, OutsideTurn, Exclusion, Phases, TypeOK
  <1>6. ASSUME NEW a \in Agents, Drops(a) PROVE Exclusion'
    BY <1>6 DEF Drops, SameBuild, Slots, OutsideTurn, Exclusion, Early, Phases, TypeOK
  <1>7. ASSUME NEW a \in Agents, Finishes(a) PROVE Exclusion'
    BY <1>7 DEF Finishes, Finalize, OutsideTurn, Exclusion, Phases, TypeOK
  <1>8. ASSUME NEW a \in Agents, Send(a) \/ Resume(a) \/ LaneReady(a) PROVE Exclusion'
    BY <1>8, <1>1, <1>2, <1>3, <1>4, TurnBegins
  <1>9. ASSUME NEW a \in Agents, TurnEnds(a) \/ ClosingDone(a) PROVE Exclusion'
    BY <1>9, <1>5, <1>6, <1>7, TurnFinishes
  <1>10. ASSUME SwitchCommits PROVE Exclusion'
    BY <1>10 DEF SwitchCommits, ClearAdapters, Exclusion, Phases, TypeOK, modeVars, laneVars,
       stopVars
  <1>11. ASSUME StopSettles PROVE Exclusion'
    BY <1>11 DEF StopSettles, Claimed, Exclusion, Phases, TypeOK, turnVars, modeVars, laneVars,
       switchVars
  <1>12. ASSUME SwitchCall PROVE Exclusion'
    BY <1>12 DEF SwitchCall, Claimed, Exclusion, Phases, TypeOK, turnVars, modeVars, laneVars,
       stopVars
  <1>13. ASSUME NEW a \in Agents, HeldDropDone(a) PROVE Exclusion'
    BY <1>13 DEF HeldDropDone, Finalize, Exclusion, Phases, TypeOK, modeVars, laneVars, switchVars,
       stopVars
  <1>14. ASSUME NEW a \in Agents, HeldDropFails(a) PROVE Exclusion'
    BY <1>14 DEF HeldDropFails, Finalize, Exclusion, Phases, TypeOK, modeVars, laneVars, switchVars,
       stopVars
  <1>15. ASSUME NEW a \in Agents, ProvisionFails(a) PROVE Exclusion'
    BY <1>15 DEF ProvisionFails, Finalize, Exclusion, Phases, TypeOK, modeVars, laneVars,
       switchVars, stopVars
  <1>16. ASSUME NEW a \in Agents, LaneAdded(a) PROVE Exclusion'
    BY <1>16 DEF LaneAdded, Exclusion, Phases, TypeOK, modeVars, switchVars, stopVars
  <1>17. ASSUME NEW a \in Agents, Dispatch(a) PROVE Exclusion'
    BY <1>17 DEF Dispatch, Talk, Exclusion, Phases, TypeOK, modeVars, laneVars, switchVars, stopVars
  <1>18. ASSUME NEW a \in Agents, ResetDone(a) PROVE Exclusion'
    BY <1>18 DEF ResetDone, Exclusion, Phases, TypeOK, modeVars, laneVars, switchVars, stopVars
  <1>19. ASSUME NEW a \in Agents, StaleResume(a) PROVE Exclusion'
    BY <1>19 DEF StaleResume, Exclusion, Phases, TypeOK, modeVars, laneVars, switchVars, stopVars
  <1>20. ASSUME NEW a \in Agents, SendWaits(a) \/ Work(a) \/ DropDone(a) \/ DropFails(a)
            \/ InspectLane(a) \/ RemoveLane(a) PROVE Exclusion'
    BY <1>20 DEF SendWaits, Work, DropDone, DropFails, InspectLane, RemoveLane, Pending, ChangeEnds,
       Dropping, InMap, Removed, Exclusion, Phases, TypeOK, turnVars, modeVars, laneVars,
       switchVars, stopVars
  <1>21. CASE StartChange \/ FinishChange \/ SweepDone \/ SwitchInspects \/ SwitchRefused
            \/ SwitchStopsAdapters \/ SwitchDone \/ StopClears \/ StopDone
    BY <1>21 DEF StartChange, FinishChange, SweepDone, SwitchInspects, SwitchRefused,
       SwitchStopsAdapters, SwitchDone, StopClears, StopDone, NextGeneration, Affected, Claimed,
       ChangeEnds, Removed, LeftoverIsClean, InMap, ClearAdapters, Exclusion, Phases, TypeOK,
       turnVars, modeVars, laneVars, switchVars, stopVars
  <1>22. ASSUME NEW m \in Modes, SetPermissionMode(m) PROVE Exclusion'
    BY <1>22 DEF SetPermissionMode, Pending, Exclusion, Phases, TypeOK, turnVars, laneVars,
       switchVars, stopVars
  <1>23. ASSUME NEW d \in BOOLEAN, StopCall(d) PROVE Exclusion'
    BY <1>23 DEF StopCall, Exclusion, Phases, TypeOK, turnVars, modeVars, laneVars, switchVars
  <1> QED BY <1>8, <1>9, <1>10, <1>11, <1>12, <1>13, <1>14, <1>15, <1>16, <1>17, <1>18, <1>19,
     <1>20, <1>21, <1>22, <1>23 DEF Next, TurnStep, ModeStep, LaneStep

\* A turn's lane stays.
LEMMA LanesSafeKept ==
  ASSUME TypeOK, Exclusion, LanesSafe, Holding, Next
  PROVE  LanesSafe'
  <1>1. ASSUME NEW a \in Agents, Enters(a) PROVE LanesSafe'
    BY <1>1 DEF Enters, Admitted, Claimed, Stopping, OutsideTurn, LanesSafe, Exclusion, Dropping,
       InMap, Phases, TypeOK
  <1>2. ASSUME NEW a \in Agents, GivesUp(a) PROVE LanesSafe'
    BY <1>2 DEF GivesUp, Finalize, OutsideTurn, LanesSafe, Exclusion, Dropping, InMap, Early,
       Phases, TypeOK
  <1>3. ASSUME NEW a \in Agents, NEW c \in {"shared", "lane"}, Starts(a, c) PROVE LanesSafe'
    BY <1>3 DEF Starts, SameBuild, Slots, Admitted, TurnRefused, Stopping, Claimed, OutsideTurn,
       InMap, LanesSafe, Exclusion, Dropping, InMap, Early, Phases, TypeOK
  <1>4. ASSUME NEW a \in Agents, Stays PROVE LanesSafe'
    BY <1>4 DEF Stays, OutsideTurn, LanesSafe, Exclusion, Dropping, InMap, Phases, TypeOK
  <1>5. ASSUME NEW a \in Agents, Closes(a) PROVE LanesSafe'
    BY <1>5 DEF Closes, OutsideTurn, LanesSafe, Exclusion, Dropping, InMap, Phases, TypeOK
  <1>6. ASSUME NEW a \in Agents, Drops(a) PROVE LanesSafe'
    BY <1>6 DEF Drops, SameBuild, Slots, OutsideTurn, LanesSafe, Exclusion, Dropping, InMap, Early,
       Phases, TypeOK
  <1>7. ASSUME NEW a \in Agents, Finishes(a) PROVE LanesSafe'
    BY <1>7 DEF Finishes, Finalize, OutsideTurn, LanesSafe, Exclusion, Dropping, InMap, Phases,
       TypeOK
  <1>8. ASSUME NEW a \in Agents, Send(a) \/ Resume(a) \/ LaneReady(a) PROVE LanesSafe'
    BY <1>8, <1>1, <1>2, <1>3, <1>4, TurnBegins
  <1>9. ASSUME NEW a \in Agents, TurnEnds(a) \/ ClosingDone(a) PROVE LanesSafe'
    BY <1>9, <1>5, <1>6, <1>7, TurnFinishes
  <1>10. ASSUME SwitchCommits PROVE LanesSafe'
    BY <1>10 DEF SwitchCommits, ClearAdapters, LanesSafe, Exclusion, Dropping, InMap, Phases,
       TypeOK, modeVars, laneVars, stopVars
  <1>11. ASSUME StopDone PROVE LanesSafe'
    BY <1>11 DEF StopDone, Removed, LanesSafe, Exclusion, Dropping, InMap, Phases, TypeOK, turnVars,
       modeVars, switchVars
  <1>12. ASSUME StopSettles PROVE LanesSafe'
    BY <1>12 DEF StopSettles, Claimed, LanesSafe, Exclusion, Dropping, InMap, Phases, TypeOK,
       turnVars, modeVars, laneVars, switchVars
  <1>13. ASSUME NEW a \in Agents, InspectLane(a) PROVE LanesSafe'
    BY <1>13 DEF InspectLane, LanesSafe, Exclusion, Dropping, InMap, Phases, TypeOK, turnVars,
       modeVars, switchVars, stopVars
  <1>14. ASSUME NEW a \in Agents, RemoveLane(a) PROVE LanesSafe'
    BY <1>14 DEF RemoveLane, Removed, LanesSafe, Exclusion, Dropping, InMap, Phases, TypeOK,
       turnVars, modeVars, switchVars, stopVars
  <1>15. ASSUME SweepDone PROVE LanesSafe'
    BY <1>15 DEF SweepDone, Removed, LeftoverIsClean, LanesSafe, Exclusion, Dropping, InMap, Phases,
       TypeOK, turnVars, modeVars, switchVars, stopVars
  <1>16. ASSUME SwitchDone PROVE LanesSafe'
    BY <1>16 DEF SwitchDone, LanesSafe, Exclusion, Dropping, InMap, Phases, TypeOK, turnVars,
       modeVars, laneVars, stopVars
  <1>17. ASSUME NEW a \in Agents, HeldDropDone(a) PROVE LanesSafe'
    BY <1>17 DEF HeldDropDone, Finalize, LanesSafe, Exclusion, Dropping, InMap, Phases, TypeOK,
       modeVars, laneVars, switchVars, stopVars
  <1>18. ASSUME NEW a \in Agents, HeldDropFails(a) PROVE LanesSafe'
    BY <1>18 DEF HeldDropFails, Finalize, LanesSafe, Exclusion, Dropping, InMap, Phases, TypeOK,
       modeVars, laneVars, switchVars, stopVars
  <1>19. ASSUME NEW a \in Agents, ProvisionFails(a) PROVE LanesSafe'
    BY <1>19 DEF ProvisionFails, Finalize, LanesSafe, Exclusion, Dropping, InMap, Phases, TypeOK,
       modeVars, laneVars, switchVars, stopVars
  <1>20. ASSUME NEW a \in Agents, Work(a) PROVE LanesSafe'
    BY <1>20 DEF Work, LanesSafe, Exclusion, Dropping, InMap, Phases, TypeOK, turnVars, modeVars,
       switchVars, stopVars
  <1>21. ASSUME NEW a \in Agents, StaleResume(a) PROVE LanesSafe'
    BY <1>21 DEF StaleResume, LanesSafe, Exclusion, Dropping, InMap, Phases, TypeOK, modeVars,
       laneVars, switchVars, stopVars
  <1>22. ASSUME NEW a \in Agents, ResetDone(a) PROVE LanesSafe'
    BY <1>22 DEF ResetDone, LanesSafe, Exclusion, Dropping, InMap, Phases, TypeOK, modeVars,
       laneVars, switchVars, stopVars
  <1>23. ASSUME NEW a \in Agents, LaneAdded(a) PROVE LanesSafe'
    BY <1>23 DEF LaneAdded, LanesSafe, Exclusion, Dropping, InMap, Phases, TypeOK, modeVars,
       switchVars, stopVars
  <1>24. ASSUME NEW a \in Agents, Dispatch(a) PROVE LanesSafe'
    BY <1>24 DEF Dispatch, Talk, LanesSafe, Exclusion, Dropping, InMap, Phases, TypeOK, modeVars,
       laneVars, switchVars, stopVars
  <1>25. ASSUME NEW a \in Agents, SendWaits(a) \/ DropDone(a) \/ DropFails(a) PROVE LanesSafe'
    BY <1>25 DEF SendWaits, DropDone, DropFails, Pending, ChangeEnds, LanesSafe, Exclusion,
       Dropping, InMap, Phases, TypeOK, turnVars, modeVars, laneVars, switchVars, stopVars
  <1>26. CASE StartChange \/ FinishChange \/ SwitchCall \/ SwitchInspects \/ SwitchRefused
            \/ SwitchStopsAdapters \/ StopClears
    BY <1>26 DEF StartChange, FinishChange, SwitchCall, SwitchInspects, SwitchRefused,
       SwitchStopsAdapters, StopClears, NextGeneration, Affected, Claimed, ChangeEnds,
       ClearAdapters, LanesSafe, Exclusion, Dropping, InMap, Phases, TypeOK, turnVars, modeVars,
       laneVars, switchVars, stopVars
  <1>27. ASSUME NEW m \in Modes, SetPermissionMode(m) PROVE LanesSafe'
    BY <1>27 DEF SetPermissionMode, Pending, LanesSafe, Exclusion, Dropping, InMap, Phases, TypeOK,
       turnVars, laneVars, switchVars, stopVars
  <1>28. ASSUME NEW d \in BOOLEAN, StopCall(d) PROVE LanesSafe'
    BY <1>28 DEF StopCall, LanesSafe, Exclusion, Dropping, InMap, Phases, TypeOK, turnVars,
       modeVars, laneVars, switchVars
  <1> QED BY <1>8, <1>9, <1>10, <1>11, <1>12, <1>13, <1>14, <1>15, <1>16, <1>17, <1>18, <1>19,
     <1>20, <1>21, <1>22, <1>23, <1>24, <1>25, <1>26, <1>27, <1>28 DEF Next, TurnStep, ModeStep,
     LaneStep

\* A turn keeps its adapter.
LEMMA HoldingKept ==
  ASSUME TypeOK, Exclusion, LanesSafe, Holding, Marks, Next
  PROVE  Holding'
  <1>1. ASSUME \A b \in Agents : SameBuild(adapters'[b], adapters[b]) /\ SameBuild(own'[b], own[b]),
              \A b \in Agents : phase'[b] \in Early <=> phase[b] \in Early,
              UNCHANGED <<held, cwd, parallel>>, stop # "no" => stop' # "no"
       PROVE  Holding'
    BY <1>1, NoAdapterAssumption DEF Holding, SameBuild
  <1>2. \A b \in Agents : SameBuild(adapters[b], adapters[b]) /\ SameBuild(own[b], own[b])
    BY SameItself DEF TypeOK, Slots
  <1>3. ASSUME NEW a \in Agents, Enters(a) PROVE Holding'
    BY <1>3 DEF Enters, Admitted, Claimed, Stopping, OutsideTurn, Holding, Exclusion, Early, Phases,
       TypeOK
  <1>4. ASSUME NEW a \in Agents, GivesUp(a) PROVE Holding'
    BY <1>4 DEF GivesUp, Finalize, OutsideTurn, Holding, Exclusion, Early, Phases, TypeOK
  <1>5. ASSUME NEW a \in Agents, NEW c \in {"shared", "lane"}, Starts(a, c) PROVE Holding'
    BY <1>5, NoAdapterAssumption, BoundAssumption DEF Starts, SameBuild, Slots, Admitted,
       TurnRefused, Stopping, Claimed, OutsideTurn, InMap, Holding, Exclusion, Early, Phases, TypeOK
  <1>6. ASSUME NEW a \in Agents, Stays PROVE Holding'
    BY <1>6 DEF Stays, OutsideTurn, Holding, Exclusion, Early, Phases, TypeOK
  <1>7. ASSUME NEW a \in Agents, Closes(a) PROVE Holding'
    BY <1>7 DEF Closes, OutsideTurn, Holding, Exclusion, Early, Phases, TypeOK
  <1>8. ASSUME NEW a \in Agents, Drops(a) PROVE Holding'
    <2>1. \A b \in Agents : phase'[b] \in Early <=> phase[b] \in Early
      BY <1>8 DEF Drops, Early, TypeOK
    <2> QED BY <1>8, <1>1, <2>1 DEF Drops, OutsideTurn
  <1>9. ASSUME NEW a \in Agents, Finishes(a) PROVE Holding'
    BY <1>9 DEF Finishes, Finalize, OutsideTurn, Holding, Exclusion, Early, Phases, TypeOK
  <1>10. ASSUME NEW a \in Agents, Send(a) \/ Resume(a) \/ LaneReady(a) PROVE Holding'
    BY <1>10, <1>3, <1>4, <1>5, <1>6, TurnBegins
  <1>11. ASSUME NEW a \in Agents, TurnEnds(a) \/ ClosingDone(a) PROVE Holding'
    BY <1>11, <1>7, <1>8, <1>9, TurnFinishes
  <1>12. ASSUME SwitchCommits PROVE Holding'
    BY <1>12 DEF SwitchCommits, ClearAdapters, Adapter, Holding, Exclusion, Early, Phases, TypeOK,
       modeVars, laneVars, stopVars
  <1>13. ASSUME StopClears PROVE Holding'
    BY <1>13 DEF StopClears, ClearAdapters, Adapter, Holding, Exclusion, Early, Phases, TypeOK,
       modeVars, laneVars, switchVars
  <1>14. ASSUME StartChange PROVE Holding'
    <2>1. UNCHANGED <<phase, held, own, cwd, parallel, stop>>
      BY <1>14 DEF StartChange, turnVars, laneVars, switchVars, stopVars
    <2> QED BY <1>1, <1>2, <2>1, ChangeStops, <1>14
  <1>15. ASSUME SwitchStopsAdapters PROVE Holding'
    <2>1. UNCHANGED <<phase, held, own, cwd, parallel, stop>> /\ adapters' = Stopped(adapters)
      BY <1>15 DEF SwitchStopsAdapters, turnVars, modeVars, laneVars, stopVars
    <2> QED BY <1>1, <1>2, <2>1, StoppedAdapters DEF TypeOK, Slots
  <1>16. ASSUME NEW d \in BOOLEAN, StopCall(d) PROVE Holding'
    <2>1. UNCHANGED <<phase, held, own, cwd, parallel>> /\ adapters' = Stopped(adapters) /\ stop' # "no"
      BY <1>16 DEF StopCall, turnVars, modeVars, laneVars, switchVars
    <2> QED BY <1>1, <1>2, <2>1, StoppedAdapters DEF TypeOK, Slots
  <1>17. ASSUME NEW a \in Agents, HeldDropDone(a) PROVE Holding'
    BY <1>17 DEF HeldDropDone, Finalize, Holding, Exclusion, Early, Phases, TypeOK, modeVars,
       laneVars, switchVars, stopVars
  <1>18. ASSUME NEW a \in Agents, HeldDropFails(a) PROVE Holding'
    BY <1>18 DEF HeldDropFails, Finalize, Holding, Exclusion, Early, Phases, TypeOK, modeVars,
       laneVars, switchVars, stopVars
  <1>19. ASSUME NEW a \in Agents, ProvisionFails(a) PROVE Holding'
    BY <1>19 DEF ProvisionFails, Finalize, Holding, Exclusion, Early, Phases, TypeOK, modeVars,
       laneVars, switchVars, stopVars
  <1>20. ASSUME NEW a \in Agents, DropDone(a) PROVE Holding'
    BY <1>20 DEF DropDone, Marks, Holding, Exclusion, Early, Phases, TypeOK, turnVars, laneVars,
       switchVars, stopVars
  <1>21. ASSUME NEW a \in Agents, Dispatch(a) PROVE Holding'
    <2>1. phase[a] = "snapshot" /\ Talk(a) /\ UNCHANGED <<held, cwd, parallel, stop>>
      BY <1>21 DEF Dispatch, modeVars, laneVars, switchVars, stopVars
    <2>2. \A b \in Agents : SameBuild(adapters'[b], adapters[b]) /\ SameBuild(own'[b], own[b])
      BY <2>1, Talked DEF Early
    <2>3. \A b \in Agents : phase'[b] \in Early <=> phase[b] \in Early
      BY <2>1 DEF Talk, Early, TypeOK
    <2> QED BY <1>1, <2>1, <2>2, <2>3
  <1>22. ASSUME NEW a \in Agents, StaleResume(a) PROVE Holding'
    <2>1. phase[a] = "running" /\ phase' = [phase EXCEPT ![a] = "resetting"] /\ UNCHANGED <<held, own, cwd, parallel, stop>>
      BY <1>22 DEF StaleResume, modeVars, laneVars, switchVars, stopVars
    <2>2. \A b \in Agents : phase'[b] \in Early <=> phase[b] \in Early
      BY <2>1 DEF Early, TypeOK
    <2> QED BY <1>22, <1>1, <1>2, <2>1, <2>2, StaleStopped
  <1>23. ASSUME NEW a \in Agents, ResetDone(a) PROVE Holding'
    <2>1. /\ adapters' = [adapters EXCEPT ![a] = adapters'[a]]
         /\ adapters'[a] \in Adapter /\ adapters'[a].cwd = cwd[a]
      <3>1. cwd[a] \in {"shared", "lane"} /\ mode \in Modes
        BY DEF TypeOK
      <3>2. adapters' = [adapters EXCEPT ![a] = [NewAdapter(cwd[a]) EXCEPT !.live = TRUE]]
        BY <1>23 DEF ResetDone
      <3>3. SameBuild([NewAdapter(cwd[a]) EXCEPT !.live = TRUE], NewAdapter(cwd[a]))
        BY <3>1, NewAdapters, WithLive
      <3> QED BY <3>1, <3>2, <3>3, NewAdapters DEF SameBuild, TypeOK
    <2>2. phase[a] = "resetting" /\ phase' = [phase EXCEPT ![a] = "running"]
      BY <1>23 DEF ResetDone
    <2>3. held' = [held EXCEPT ![a] = "map"] /\ own' = [own EXCEPT ![a] = NoAdapter] /\ UNCHANGED <<cwd, parallel, stop>>
      BY <1>23 DEF ResetDone, modeVars, laneVars, switchVars, stopVars
    <2> QED BY <2>1, <2>2, <2>3, NoAdapterAssumption DEF Holding, Exclusion, Early, Phases, TypeOK
  <1>24. ASSUME NEW a \in Agents, SendWaits(a) \/ LaneAdded(a) \/ Work(a) \/ DropFails(a)
            \/ InspectLane(a) \/ RemoveLane(a) PROVE Holding'
    BY <1>24 DEF SendWaits, LaneAdded, Work, DropFails, InspectLane, RemoveLane, Pending,
       ChangeEnds, Dropping, InMap, Removed, Holding, Exclusion, Early, Phases, TypeOK, turnVars,
       modeVars, laneVars, switchVars, stopVars
  <1>25. CASE FinishChange \/ SweepDone \/ SwitchCall \/ SwitchInspects \/ SwitchRefused
            \/ SwitchDone \/ StopSettles \/ StopDone
    BY <1>25 DEF FinishChange, SweepDone, SwitchCall, SwitchInspects, SwitchRefused, SwitchDone,
       StopSettles, StopDone, ChangeEnds, Removed, LeftoverIsClean, Claimed, InMap, Holding,
       Exclusion, Early, Phases, TypeOK, turnVars, modeVars, laneVars, switchVars, stopVars
  <1>26. ASSUME NEW m \in Modes, SetPermissionMode(m) PROVE Holding'
    BY <1>26 DEF SetPermissionMode, Pending, Holding, Exclusion, Early, Phases, TypeOK, turnVars,
       laneVars, switchVars, stopVars
  <1> QED BY <1>10, <1>11, <1>12, <1>13, <1>14, <1>15, <1>16, <1>17, <1>18, <1>19, <1>20, <1>21,
     <1>22, <1>23, <1>24, <1>25, <1>26 DEF Next, TurnStep, ModeStep, LaneStep

\* No mark for replacement is lost while an adapter of another mode is there.
LEMMA MarksKept ==
  ASSUME TypeOK, QueueBound, Exclusion, LanesSafe, Holding, Marks, Next
  PROVE  Marks'
  <1>1. ASSUME \A b \in Agents : SameBuild(adapters'[b], adapters[b]), UNCHANGED <<mode, gen, resets>>,
              \A b \in Agents : \/ drop'[b] = drop[b] /\ phase'[b] = phase[b]
                                \/ drop'[b] = drop[b] /\ phase[b] \notin Early \cup {"dropping"}
                                \/ drop'[b] = resets[b] /\ phase'[b] = "dropping" /\ resets[b] # 0
       PROVE  Marks'
    <2>1. ASSUME NEW b \in Agents
          PROVE  /\ resets'[b] <= gen' /\ drop'[b] <= gen' /\ -gen' <= drop'[b]
                 /\ adapters'[b] # NoAdapter => resets'[b] \in {0, gen'}
                 /\ adapters'[b] # NoAdapter /\ (resets'[b] = 0
                           \/ drop'[b] = -gen') => adapters'[b].mode = mode'
                 /\ drop'[b] > 0 /\ phase'[b] # "dropping" =>
                       adapters'[b] # NoAdapter /\ resets'[b] # 0 /\ phase'[b] \in Early
      <3>1. /\ resets[b] \in 0..MaxModeChanges /\ drop[b] \in -MaxModeChanges..MaxModeChanges /\ gen \in 0..MaxModeChanges
            /\ adapters[b] = NoAdapter \/ adapters[b] \in Adapter
        BY DEF TypeOK
      <3>2. adapters'[b] = NoAdapter <=> adapters[b] = NoAdapter
        BY <1>1, <3>1, NoAdapterAssumption DEF SameBuild
      <3>3. adapters[b] # NoAdapter => adapters'[b].mode = adapters[b].mode
        BY <1>1 DEF SameBuild
      <3> QED BY <1>1, <3>1, <3>2, <3>3 DEF Marks
    <2> QED BY <2>1 DEF Marks
  <1>2. ASSUME NEW a \in Agents, Enters(a) PROVE Marks'
    BY <1>2 DEF Enters, Admitted, Claimed, Stopping, OutsideTurn, Marks, Holding, Early, Phases,
       TypeOK
  <1>3. ASSUME NEW a \in Agents, GivesUp(a) PROVE Marks'
    BY <1>3 DEF GivesUp, Finalize, OutsideTurn, Marks, Holding, Early, Phases, TypeOK
  <1>4. ASSUME NEW a \in Agents, NEW c \in {"shared", "lane"}, Starts(a, c) PROVE Marks'
    BY <1>4 DEF Starts, SameBuild, Slots, Admitted, TurnRefused, Stopping, Claimed, OutsideTurn,
       InMap, Marks, Holding, Early, Phases, TypeOK
  <1>5. ASSUME NEW a \in Agents, Stays PROVE Marks'
    BY <1>5 DEF Stays, OutsideTurn, Marks, Holding, Early, Phases, TypeOK
  <1>6. ASSUME NEW a \in Agents, Closes(a) PROVE Marks'
    BY <1>6 DEF Closes, OutsideTurn, Marks, Holding, Early, Phases, TypeOK
  <1>7. ASSUME NEW a \in Agents, Drops(a) PROVE Marks'
    <2>1. \A b \in Agents : \/ drop'[b] = drop[b] /\ phase'[b] = phase[b]
                            \/ drop'[b] = resets[b] /\ phase'[b] = "dropping" /\ resets[b] # 0
      <3>1. /\ phase' = [phase EXCEPT ![a] = "dropping"] /\ drop' = [drop EXCEPT ![a] = resets[a]] /\ resets[a] # 0
            /\ phase \in [Agents -> Phases] /\ drop \in [Agents -> -MaxModeChanges..MaxModeChanges]
        BY <1>7 DEF Drops, TypeOK
      <3>2. ASSUME NEW b \in Agents \ {a} PROVE drop'[b] = drop[b] /\ phase'[b] = phase[b]
        BY <3>1
      <3>3. drop'[a] = resets[a] /\ phase'[a] = "dropping"
        BY <3>1
      <3> QED BY <3>1, <3>2, <3>3
    <2> QED BY <1>7, <1>1, <2>1 DEF Drops, OutsideTurn
  <1>8. ASSUME NEW a \in Agents, Finishes(a) PROVE Marks'
    BY <1>8 DEF Finishes, Finalize, OutsideTurn, Marks, Holding, Early, Phases, TypeOK
  <1>9. ASSUME NEW a \in Agents, Send(a) \/ Resume(a) \/ LaneReady(a) PROVE Marks'
    BY <1>9, <1>2, <1>3, <1>4, <1>5, TurnBegins
  <1>10. ASSUME NEW a \in Agents, TurnEnds(a) \/ ClosingDone(a) PROVE Marks'
    BY <1>10, <1>6, <1>7, <1>8, TurnFinishes
  <1>11. ASSUME SwitchCommits PROVE Marks'
    BY <1>11 DEF SwitchCommits, ClearAdapters, Marks, Holding, Early, Phases, TypeOK, modeVars,
       laneVars, stopVars
  <1>12. ASSUME StopClears PROVE Marks'
    BY <1>12 DEF StopClears, ClearAdapters, Marks, Holding, Early, Phases, TypeOK, modeVars,
       laneVars, switchVars
  <1>13. ASSUME StartChange PROVE Marks'
    <2> DEFINE m == Head(queue)
               g == NextGeneration(m)
    <2>1. /\ gen \in Nat /\ resets \in [Agents -> 0..MaxModeChanges]
          /\ drop \in [Agents -> -MaxModeChanges..MaxModeChanges]
          /\ \A b \in Agents : -gen <= drop[b] /\ drop[b] <= gen /\ resets[b] <= gen
      BY DEF TypeOK, Marks
    <2>2. /\ mode' = m /\ gen' = g /\ phase' = phase
          /\ resets' = [a \in Agents |-> IF a \in Affected(m) THEN g ELSE resets[a]]
          /\ drop' = [a \in Agents |-> IF a \in Affected(m) /\ ~Claimed(a) THEN g ELSE drop[a]]
      BY <1>13 DEF StartChange, turnVars
    <2>3. (m = mode /\ g = gen) \/ (m # mode /\ g = gen + 1)
      BY DEF NextGeneration
    <2> HIDE DEF m, g
    <2>4. ASSUME NEW b \in Agents
          PROVE  /\ resets'[b] <= gen' /\ drop'[b] <= gen' /\ -gen' <= drop'[b]
                 /\ adapters'[b] # NoAdapter => resets'[b] \in {0, gen'}
                 /\ adapters'[b] # NoAdapter /\ (resets'[b] = 0
                           \/ drop'[b] = -gen') => adapters'[b].mode = mode'
                 /\ drop'[b] > 0 /\ phase'[b] # "dropping" =>
                       adapters'[b] # NoAdapter /\ resets'[b] # 0 /\ phase'[b] \in Early
      <3>1. /\ adapters'[b] = NoAdapter <=> adapters[b] = NoAdapter
            /\ adapters[b] # NoAdapter => adapters'[b].mode = adapters[b].mode
        BY <1>13, ChangeStops, NoAdapterAssumption DEF SameBuild
      <3>2. CASE b \in Affected(m)
        <4>1. adapters[b] # NoAdapter /\ g > 0
          BY <2>1, <2>3, <3>2 DEF Affected
        <4>2. resets'[b] = g /\ (drop'[b] = drop[b] \/ (phase[b] = "idle" /\ drop'[b] = g))
          BY <2>2, <3>2 DEF Claimed
        <4>3. drop'[b] = -g => m = mode /\ adapters[b].mode = mode
          BY <2>1, <2>3, <4>1, <4>2 DEF Marks
        <4> QED BY <2>1, <2>2, <2>3, <3>1, <4>1, <4>2, <4>3 DEF Marks, Early
      <3>3. CASE b \notin Affected(m)
        <4>1. resets'[b] = resets[b] /\ drop'[b] = drop[b]
          BY <2>2, <3>3
        <4>2. adapters[b] # NoAdapter => m = mode /\ g = gen
          BY <2>3, <3>3 DEF Affected
        <4> QED BY <2>1, <2>2, <2>3, <3>1, <4>1, <4>2 DEF Marks
      <3> QED BY <3>2, <3>3
    <2> QED BY <2>4 DEF Marks
  <1>14. ASSUME SwitchStopsAdapters PROVE Marks'
    <2>1. UNCHANGED <<mode, gen, resets, drop, phase>> /\ adapters' = Stopped(adapters)
      BY <1>14 DEF SwitchStopsAdapters, turnVars, modeVars, laneVars, stopVars
    <2> QED BY <1>1, <2>1, StoppedAdapters DEF TypeOK, Slots
  <1>15. ASSUME NEW d \in BOOLEAN, StopCall(d) PROVE Marks'
    <2>1. UNCHANGED <<mode, gen, resets, drop, phase>> /\ adapters' = Stopped(adapters)
      BY <1>15 DEF StopCall, turnVars, modeVars, laneVars, switchVars
    <2> QED BY <1>1, <2>1, StoppedAdapters DEF TypeOK, Slots
  <1>16. ASSUME NEW a \in Agents, HeldDropDone(a) PROVE Marks'
    <2>1. /\ phase[a] = "dropping" /\ UNCHANGED <<mode, gen>>
          /\ phase' = [phase EXCEPT ![a] = "idle"] /\ drop' = [drop EXCEPT ![a] = 0]
          /\ \A b \in Agents \ {a} : adapters'[b] = adapters[b] /\ resets'[b] = resets[b]
          /\ adapters'[a] = adapters[a] \/ adapters'[a] = NoAdapter
          /\ resets'[a] = resets[a] \/ resets'[a] = 0
      BY <1>16 DEF HeldDropDone, Finalize, TypeOK, modeVars
    <2>2. adapters'[a] = NoAdapter
      BY <1>16 DEF HeldDropDone, Holding, TypeOK, Early
    <2> QED BY <2>1, <2>2 DEF Marks, Holding, TypeOK, Early
  <1>17. ASSUME NEW a \in Agents, HeldDropFails(a) PROVE Marks'
    BY <1>17 DEF HeldDropFails, Finalize, Marks, Holding, Early, Phases, TypeOK, modeVars, laneVars,
       switchVars, stopVars
  <1>18. ASSUME NEW a \in Agents, ProvisionFails(a) PROVE Marks'
    BY <1>18 DEF ProvisionFails, Finalize, Marks, Holding, Early, Phases, TypeOK, modeVars,
       laneVars, switchVars, stopVars
  <1>19. ASSUME NEW a \in Agents, DropDone(a) PROVE Marks'
    BY <1>19 DEF DropDone, Marks, Holding, Early, Phases, TypeOK, turnVars, laneVars, switchVars,
       stopVars
  <1>20. ASSUME NEW a \in Agents, DropFails(a) PROVE Marks'
    BY <1>20 DEF DropFails, Marks, Holding, Early, Phases, TypeOK, turnVars, laneVars, switchVars,
       stopVars
  <1>21. ASSUME NEW a \in Agents, Dispatch(a) PROVE Marks'
    <2>1. phase[a] = "snapshot" /\ Talk(a) /\ UNCHANGED <<mode, gen, resets, drop>>
      BY <1>21 DEF Dispatch, modeVars, laneVars, switchVars, stopVars
    <2>2. \A b \in Agents : SameBuild(adapters'[b], adapters[b])
      BY <2>1, Talked DEF Early
    <2>3. \A b \in Agents : phase'[b] = phase[b] \/ (phase[b] = "snapshot" /\ phase'[b] = "running")
      BY <2>1 DEF Talk, TypeOK
    <2> QED BY <1>1, <2>1, <2>2, <2>3 DEF Early
  <1>22. ASSUME NEW a \in Agents, StaleResume(a) PROVE Marks'
    <2>1. phase[a] = "running" /\ phase' = [phase EXCEPT ![a] = "resetting"] /\ UNCHANGED <<mode, gen, resets, drop>>
      BY <1>22 DEF StaleResume, modeVars, laneVars, switchVars, stopVars
    <2>2. \A b \in Agents : phase'[b] = phase[b]
              \/ (phase[b] = "running" /\ phase'[b] = "resetting")
      BY <2>1 DEF TypeOK
    <2> QED BY <1>22, <1>1, <2>1, <2>2, StaleStopped DEF Early
  <1>23. ASSUME NEW a \in Agents, ResetDone(a) PROVE Marks'
    <2>1. adapters' = [adapters EXCEPT ![a] = adapters'[a]] /\ adapters'[a].mode = mode
      <3>1. cwd[a] \in {"shared", "lane"} /\ mode \in Modes
        BY DEF TypeOK
      <3>2. adapters' = [adapters EXCEPT ![a] = [NewAdapter(cwd[a]) EXCEPT !.live = TRUE]]
        BY <1>23 DEF ResetDone
      <3>3. SameBuild([NewAdapter(cwd[a]) EXCEPT !.live = TRUE], NewAdapter(cwd[a]))
        BY <3>1, NewAdapters, WithLive
      <3> QED BY <3>1, <3>2, <3>3, NewAdapters DEF SameBuild, TypeOK
    <2>2. phase[a] = "resetting" /\ phase' = [phase EXCEPT ![a] = "running"]
      BY <1>23 DEF ResetDone
    <2>3. resets' = [resets EXCEPT ![a] = 0] /\ UNCHANGED <<mode, gen, drop>>
      BY <1>23 DEF ResetDone, modeVars, laneVars, switchVars, stopVars
    <2> QED BY <2>1, <2>2, <2>3 DEF Marks, Early, Phases, TypeOK
  <1>24. ASSUME NEW a \in Agents, SendWaits(a) \/ LaneAdded(a) \/ Work(a) \/ InspectLane(a)
            \/ RemoveLane(a) PROVE Marks'
    BY <1>24 DEF SendWaits, LaneAdded, Work, InspectLane, RemoveLane, Pending, Dropping, InMap,
       Removed, Marks, Holding, Early, Phases, TypeOK, turnVars, modeVars, laneVars, switchVars,
       stopVars
  <1>25. CASE FinishChange \/ SweepDone \/ SwitchCall \/ SwitchInspects \/ SwitchRefused
            \/ SwitchDone \/ StopSettles \/ StopDone
    BY <1>25 DEF FinishChange, SweepDone, SwitchCall, SwitchInspects, SwitchRefused, SwitchDone,
       StopSettles, StopDone, ChangeEnds, Removed, LeftoverIsClean, Claimed, InMap, Marks, Holding,
       Early, Phases, TypeOK, turnVars, modeVars, laneVars, switchVars, stopVars
  <1>26. ASSUME NEW m \in Modes, SetPermissionMode(m) PROVE Marks'
    BY <1>26 DEF SetPermissionMode, Pending, Marks, Holding, Early, Phases, TypeOK, turnVars,
       laneVars, switchVars, stopVars
  <1> QED BY <1>9, <1>10, <1>11, <1>12, <1>13, <1>14, <1>15, <1>16, <1>17, <1>18, <1>19, <1>20,
     <1>21, <1>22, <1>23, <1>24, <1>25, <1>26 DEF Next, TurnStep, ModeStep, LaneStep

\* What stop() has stopped stays stopped.
LEMMA QuietKept ==
  ASSUME TypeOK, Exclusion, LanesSafe, Holding, Quiet, Next
  PROVE  Quiet'
  <1>1. ASSUME NEW a \in Agents, Enters(a) PROVE Quiet'
    BY <1>1 DEF Enters, Admitted, Claimed, Stopping, OutsideTurn, Quiet, Holding, Exclusion, Early,
       Phases, TypeOK
  <1>2. ASSUME NEW a \in Agents, GivesUp(a) PROVE Quiet'
    BY <1>2 DEF GivesUp, Finalize, OutsideTurn, Quiet, Holding, Exclusion, Early, Phases, TypeOK
  <1>3. ASSUME NEW a \in Agents, NEW c \in {"shared", "lane"}, Starts(a, c) PROVE Quiet'
    BY <1>3 DEF Starts, SameBuild, Slots, Admitted, TurnRefused, Stopping, Claimed, OutsideTurn,
       InMap, Quiet, Holding, Exclusion, Early, Phases, TypeOK
  <1>4. ASSUME NEW a \in Agents, Stays PROVE Quiet'
    BY <1>4 DEF Stays, OutsideTurn, Quiet, Holding, Exclusion, Early, Phases, TypeOK
  <1>5. ASSUME NEW a \in Agents, Closes(a) PROVE Quiet'
    BY <1>5 DEF Closes, OutsideTurn, Quiet, Holding, Exclusion, Early, Phases, TypeOK
  <1>6. ASSUME NEW a \in Agents, Drops(a) PROVE Quiet'
    BY <1>6 DEF Drops, SameBuild, Slots, OutsideTurn, Quiet, Holding, Exclusion, Early, Phases,
       TypeOK
  <1>7. ASSUME NEW a \in Agents, Finishes(a) PROVE Quiet'
    BY <1>7 DEF Finishes, Finalize, OutsideTurn, Quiet, Holding, Exclusion, Early, Phases, TypeOK
  <1>8. ASSUME NEW a \in Agents, Send(a) \/ Resume(a) \/ LaneReady(a) PROVE Quiet'
    BY <1>8, <1>1, <1>2, <1>3, <1>4, TurnBegins
  <1>9. ASSUME NEW a \in Agents, TurnEnds(a) \/ ClosingDone(a) PROVE Quiet'
    BY <1>9, <1>5, <1>6, <1>7, TurnFinishes
  <1>10. ASSUME SwitchCommits PROVE Quiet'
    BY <1>10 DEF SwitchCommits, ClearAdapters, Quiet, Holding, Exclusion, Early, Phases, TypeOK,
       modeVars, laneVars, stopVars
  <1>11. ASSUME StopClears PROVE Quiet'
    BY <1>11 DEF StopClears, ClearAdapters, Quiet, Holding, Exclusion, Early, Phases, TypeOK,
       modeVars, laneVars, switchVars
  <1>12. ASSUME StartChange PROVE Quiet'
    BY <1>12, ChangeStops DEF StartChange, SameBuild, Slots, Quiet, Holding, Exclusion, Early,
       Phases, TypeOK, turnVars, laneVars, switchVars, stopVars
  <1>13. ASSUME SwitchStopsAdapters PROVE Quiet'
    BY <1>13, StoppedAdapters DEF SwitchStopsAdapters, SameBuild, Slots, Quiet, Holding, Exclusion,
       Early, Phases, TypeOK, turnVars, modeVars, laneVars, stopVars
  <1>14. ASSUME NEW d \in BOOLEAN, StopCall(d) PROVE Quiet'
    BY <1>14, StoppedAdapters DEF StopCall, SameBuild, Slots, Quiet, Holding, Exclusion, Early,
       Phases, TypeOK, turnVars, modeVars, laneVars, switchVars
  <1>15. ASSUME NEW a \in Agents, HeldDropDone(a) PROVE Quiet'
    BY <1>15 DEF HeldDropDone, Finalize, Quiet, Holding, Exclusion, Early, Phases, TypeOK, modeVars,
       laneVars, switchVars, stopVars
  <1>16. ASSUME NEW a \in Agents, HeldDropFails(a) PROVE Quiet'
    BY <1>16 DEF HeldDropFails, Finalize, Quiet, Holding, Exclusion, Early, Phases, TypeOK,
       modeVars, laneVars, switchVars, stopVars
  <1>17. ASSUME NEW a \in Agents, ProvisionFails(a) PROVE Quiet'
    BY <1>17 DEF ProvisionFails, Finalize, Quiet, Holding, Exclusion, Early, Phases, TypeOK,
       modeVars, laneVars, switchVars, stopVars
  <1>18. ASSUME NEW a \in Agents, DropDone(a) PROVE Quiet'
    BY <1>18 DEF DropDone, Quiet, Holding, Exclusion, Early, Phases, TypeOK, turnVars, laneVars,
       switchVars, stopVars
  <1>19. ASSUME NEW a \in Agents, Dispatch(a) PROVE Quiet'
    <2>1. phase[a] = "snapshot" /\ Talk(a) /\ UNCHANGED <<held, leaked, stop>>
      BY <1>19 DEF Dispatch, modeVars, laneVars, switchVars, stopVars
    <2>2. lateStart' = (lateStart \/ Stopping) /\ (held[a] = "map" => own' = own)
      BY <2>1, Talked DEF Early
    <2>3. ~Stopping => held[a] = "map"
      BY <2>1 DEF Holding, TypeOK, Early, Stopping
    <2> QED BY <2>1, <2>2, <2>3 DEF Quiet, Stopping
  <1>20. ASSUME NEW a \in Agents, StaleResume(a) PROVE Quiet'
    BY <1>20, StaleStopped DEF StaleResume, SameBuild, Slots, Quiet, Holding, Exclusion, Early,
       Phases, TypeOK, modeVars, laneVars, switchVars, stopVars
  <1>21. ASSUME NEW a \in Agents, ResetDone(a) PROVE Quiet'
    BY <1>21 DEF ResetDone, Stopping, Quiet, Holding, Exclusion, Early, Phases, TypeOK, modeVars,
       laneVars, switchVars, stopVars
  <1>22. ASSUME NEW a \in Agents, SendWaits(a) \/ LaneAdded(a) \/ Work(a) \/ DropFails(a)
            \/ InspectLane(a) \/ RemoveLane(a) PROVE Quiet'
    BY <1>22 DEF SendWaits, LaneAdded, Work, DropFails, InspectLane, RemoveLane, Pending,
       ChangeEnds, Dropping, InMap, Removed, Quiet, Holding, Exclusion, Early, Phases, TypeOK,
       turnVars, modeVars, laneVars, switchVars, stopVars
  <1>23. CASE FinishChange \/ SweepDone \/ SwitchCall \/ SwitchInspects \/ SwitchRefused
            \/ SwitchDone \/ StopSettles \/ StopDone
    BY <1>23 DEF FinishChange, SweepDone, SwitchCall, SwitchInspects, SwitchRefused, SwitchDone,
       StopSettles, StopDone, ChangeEnds, Removed, LeftoverIsClean, Claimed, InMap, Quiet, Holding,
       Exclusion, Early, Phases, TypeOK, turnVars, modeVars, laneVars, switchVars, stopVars
  <1>24. ASSUME NEW m \in Modes, SetPermissionMode(m) PROVE Quiet'
    BY <1>24 DEF SetPermissionMode, Pending, Quiet, Holding, Exclusion, Early, Phases, TypeOK,
       turnVars, laneVars, switchVars, stopVars
  <1> QED BY <1>8, <1>9, <1>10, <1>11, <1>12, <1>13, <1>14, <1>15, <1>16, <1>17, <1>18, <1>19,
     <1>20, <1>21, <1>22, <1>23, <1>24 DEF Next, TurnStep, ModeStep, LaneStep

-------------------------------------------------------------------------------
LEMMA Initially == Init => IInv
  <1> SUFFICES ASSUME Init PROVE IInv
    OBVIOUS
  <1>1. TypeOK
    <2>1. 0 \in 0..MaxModeChanges /\ 0 \in -MaxModeChanges..MaxModeChanges /\ -1 \in -1..MaxModeChanges + 1
      BY BoundAssumption
    <2>2. queue \in Seq(Modes) /\ Len(queue) <= MaxModeChanges + 1
      BY BoundAssumption DEF Init
    <2>3. lane \in [Agents -> Lanes]
      BY DEF Init, Lanes
    <2> QED BY <2>1, <2>2, <2>3, ModesAssumption DEF Init, TypeOK, Phases
  <1>2. QueueBound
    BY BoundAssumption DEF Init, QueueBound
  <1>3. Exclusion /\ LanesSafe
    BY DEF Init, Exclusion, LanesSafe
  <1>4. Holding /\ Marks /\ Quiet
    BY DEF Init, Holding, Marks, Quiet, Early
  <1> QED BY <1>1, <1>2, <1>3, <1>4 DEF IInv

LEMMA IInvKept == IInv /\ [Next]_vars => IInv'
  <1> SUFFICES ASSUME IInv, [Next]_vars PROVE IInv'
    OBVIOUS
  <1>1. CASE Next
    BY <1>1, TypesSplit, TurnTypesKept, OtherTypesKept, QueueBoundKept, ExclusionKept,
       LanesSafeKept, HoldingKept, MarksKept, QuietKept DEF IInv
  <1>2. CASE UNCHANGED vars
    BY <1>2 DEF vars, turnVars, modeVars, laneVars, switchVars, stopVars, IInv, TypeOK, QueueBound,
       Exclusion, LanesSafe, Holding, Marks, Quiet, InMap, Dropping
  <1> QED BY <1>1, <1>2

LEMMA Invariance == Spec => []IInv
  BY Initially, IInvKept, PTL DEF Spec

\* The variables keep their types, and the bounds on mode changes hold.
THEOREM TypeCorrect == Spec => []TypeOK
  <1>1. IInv => TypeOK
    BY DEF IInv
  <1> QED BY <1>1, Invariance, PTL

\* send: two turns in flight never share a working directory, whatever mode
\* changes, waits and changes of lane mode lie between their claims.
THEOREM DirectoryRule == Spec => []OneTurnPerDirectory
  <1>1. IInv => OneTurnPerDirectory
    BY DEF IInv, Exclusion, OneTurnPerDirectory, Claimed, TypeOK
  <1> QED BY <1>1, Invariance, PTL

\* #adapter, setParallel, #applyPermissionMode: a turn keeps its lane, and its
\* adapter, or the one the next turn will use, was built for where and how it
\* runs.
THEOREM SettingKept == Spec => []TurnsKeepTheirSetting
  <1>1. IInv => TurnInLiveLane
    BY DEF IInv, TypeOK, Exclusion, LanesSafe, TurnInLiveLane, Claimed, Dropping
  <1>2. IInv => AdapterMatches
    BY DEF IInv, TypeOK, Exclusion, Holding, Marks, AdapterMatches, Held, Adapter, Early
  <1>3. IInv => TurnsKeepTheirSetting
    BY <1>1, <1>2 DEF TurnsKeepTheirSetting
  <1> QED BY <1>3, Invariance, PTL

\* stop: when it has returned no worker process of the thread runs, unless a
\* turn was past the last check of #stopping when it began.
THEOREM StopIsQuiet == Spec => []QuietAfterStop
  <1>1. IInv => QuietAfterStop
    BY DEF IInv, Exclusion, Holding, Quiet, QuietAfterStop, StopLeavesNoProcess, Alive, Early
  <1> QED BY <1>1, Invariance, PTL

LEMMA WorkIsKept ==
  IInv /\ [Next]_vars => \A a \in Agents :
     lane[a] \in {"dirty", "kept"} /\ lane'[a] \notin {"dirty", "kept"} => discard
  <1> SUFFICES ASSUME IInv, [Next]_vars, NEW a \in Agents,
                      lane[a] \in {"dirty", "kept"}, lane'[a] \notin {"dirty", "kept"}
               PROVE  discard
    OBVIOUS
  <1>1. lane \in [Agents -> Lanes]
    BY DEF IInv, TypeOK
  <1>2. CASE \E b \in Agents : RemoveLane(b)
    BY <1>1, <1>2 DEF RemoveLane, Removed, IInv, LanesSafe
  <1>3. CASE StopDone
    BY <1>1, <1>3 DEF StopDone, Removed
  <1>4. CASE SweepDone
    BY <1>1, <1>4 DEF SweepDone, Removed, LeftoverIsClean
  <1>5. CASE \E b \in Agents : LaneAdded(b) \/ Work(b) \/ InspectLane(b)
    BY <1>1, <1>5 DEF LaneAdded, Work, InspectLane, InMap
  <1>6. CASE UNCHANGED lane
    BY <1>6
  <1>7. \/ \E b \in Agents : RemoveLane(b) \/ LaneAdded(b) \/ Work(b) \/ InspectLane(b)
        \/ StopDone \/ SweepDone \/ UNCHANGED lane
    BY DEF Next, TurnStep, ModeStep, LaneStep, vars, laneVars, SendWaits, Send, Resume, ProvisionFails,
       LaneReady, Dispatch, StaleResume, ResetDone, TurnEnds, ClosingDone, HeldDropDone,
       HeldDropFails, SetPermissionMode, StartChange, FinishChange, DropDone, DropFails, SwitchCall,
       SwitchInspects, SwitchRefused, SwitchStopsAdapters, SwitchCommits, SwitchDone, StopCall,
       StopClears, StopSettles
  <1> QED BY <1>2, <1>3, <1>4, <1>5, <1>6, <1>7

\* stop without discardLanes: only the deletion of the thread removes a lane
\* that holds work.
THEOREM WorkSurvives == Spec => NoLaneWorkLost
  BY WorkIsKept, Invariance, PTL DEF Spec, NoLaneWorkLost
===============================================================================
