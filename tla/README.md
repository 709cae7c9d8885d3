# Formal verification of agentic-work-os

TLA+ models, TLC model checks and TLAPS proofs for agentic-work-os, a daemon that lets
several coding agents (Claude, Codex, Qwen Code) work on one conversation, and for the
window that shows it. The models are translations of the TypeScript source; line references
here and in `PROJECT.json` are to files under `src/`. `orchestrator.ts` is
`packages/core/src/orchestrator.ts`, `useHarness.ts` is
`apps/ui/src/hooks/useHarness.ts`, and so on.

## 1. The system

The core is one Node.js process per data directory (more than one is possible and the
store defends against it). A *thread* is a conversation about a directory. Its truth is an
append-only log of numbered events, `events.jsonl`; everything else is a fold of the log or
a cache of it. A worker's vendor process keeps a *native session*, which the log outlives.
Handlers are JavaScript: the code between two `await`s is atomic, and every `await` (a git
command, a setup command, a vendor process, a probe, GitHub) lets any other handler run.

| Component | State | Operations | Hard parts | What makes it correct |
|---|---|---|---|---|
| Thread store (`store/thread-store.ts`) | `events.jsonl`, `meta.json`, `.events.lock`, copies in memory | create, append, compareAndAppend(Batch), update, setWatermark, refresh, delete | two writers; a crash inside the lock; a failed fsync; a batch cut short | one order of events for everybody, no branch, conditional appends only on the head and attempt the caller saw |
| Replay (`store/replay.ts`, `Thread.send`) | watermark and native session per agent | build the payload of a turn, advance the watermark, rebuild after a stale session | turns that overlap in lane mode, failed dispatches, restarts | each session has been shown exactly the history it has not produced, once |
| Thread scheduler (`Thread` in `orchestrator.ts`) | turns, adapters, permission mode and generations, lane mode, lanes, shutdown | send, setPermissionMode, setParallel, the sweep of leftover lanes, stop | every await is a race with every other handler | one turn per directory, adapters of the current mode and directory, no lane under a turn removed, shutdown ends |
| Recovery (`orchestrator.ts`, `work/recovery.ts`) | cycles folded from the log, `#activeRuns` | startRecovery, applyRecoveryAction, evaluations | checks before an await used after it; a reservation outside the log; partial batches | a correction is judged as the next attempt after its refusal; budget; one worker; a cancelled cycle stays quiet |
| Gate, evaluators, ledger (`work/gate.ts`, `work/evaluators.ts`, `work/ledger.ts`, `work/runs.ts`) | none: folds of the log | evaluateTransition and the folds of evidence, answers, attestations, sets, runs, notes | precedence of overrides, unknown facts, conflicting records | nothing unknown passes; an override covers only what it may; a decision stands |
| Integration (`Thread.integrate`, `util/worktree.ts`) | lanes, the user's directory | evaluate the candidate, apply the lane | lane, declaration and log move between evaluation and apply | what is applied is what was evaluated |
| Permission bridge and approvals (`permission-bridge.ts`, `permission-mcp/main.ts`) | tokens, handlers, pending approvals, timers | request, answer, timeout, settle on stop | a timeout racing an answer; the handler of a dead turn | every request is settled once, by the thread and worker it is about |
| Adapters (`adapters/*.ts`) | vendor process, session, turn, approvals, timers, the rows of a streamed turn | start, sendTurn, interrupt, stop, notifications | abandoned turns that go on talking, late answers, exits, two accounts of one text | events belong to the turn that caused them; a turn ends exactly once; what is said is shown once |
| Worker registry and health | registrations, probe results | probe, select | an old answer | only authorized, available workers are offered and dispatched |
| Harness (`Orchestrator` in `orchestrator.ts`, `work/store.ts`, `work/catalog-store.ts`, `work/issue-route.ts`) | threads, deletions in flight, lock per issue, catalog, work items | create, open, delete, attach, refresh, take an issue, overview | deletion in flight, two requests for one issue, files half written | one Thread object per thread, one take per issue, an item is never lost, what is offered is what is done |
| Artifact watcher (`artifact-watcher.ts`) | debounce timer, watched directory, known versions | attach, sweep, stop | directories that come and go, dropped wake-ups | a changed artifact is reported, once |
| Workspace declaration (`workspace/*.ts`) | none; the role selection file | parse, validate, merge, resolve | many rules between fields of two files | settings in force refer only to what is in force, the shared policy stays |
| Daemon, server, protocol (`server.ts`, `packages/protocol`) | connections | RPC dispatch, broadcast | order of snapshots, answers and pushes | a client misses no event |
| User interface (`apps/ui`) | the refs and state of `useHarness.ts`, transcript fold, overview panel | open, resync, fold, notes, gate, overview, actions | reconnects, answers overtaking each other | what is shown is what the core has |

Not modelled: prompts (wording), utilities (process start, line splitting, logging), the
desktop shell, build scripts, the recovery panel and the components that only draw. gh and git
are what their results are to those who await them.

`PROJECT.json` lists under `hazards` where this code is hard to test, each at the line where it bites,
with the properties that would catch it going wrong.

## 2. Modules

| Module | What it is |
|---|---|
| `EventLog`, `AppendLog`, `ThreadStore` | operators on a log; the abstract log with compare-and-append; the store that implements it |
| `Thread` | the scheduler of one live thread, one phase per await |
| `Replay`, `Artifacts`, `Runs`, `History` | sessions and watermarks; the artifact watcher; runs and retained notes; the three, one at a time |
| `Recovery` | recovery cycles, corrections, typed actions, `#activeRuns` |
| `Evaluators`, `Gate`, `Integration` | facts of the ledger; the verdict; integrating a lane through it |
| `WorkerContract` | what the scheduler relies on in any adapter (abstract) |
| `CodexAdapter`, `ClaudeAdapter`, `QwenAdapter`, `Streams`, `Adapters` | the three adapters; the rows of a streamed turn; the four as one specification |
| `StoreFiles`, `Desk` | replacing a JSON file; issues, work items, deletions of the orchestrator |
| `Declaration`, `Workspace`, `IssueRoute`, `Overview` | accepted files; their merge; what may be done about an issue; the overview from server to panel |
| `Transcript`, `Delivery` | the fold of events into rows; socket, window, notes and gate |
| `*Proofs` | theorems, see section 4 |
| `MC*` | values and symmetry for TLC |

`ThreadStore` implements `AppendLog`; `Recovery`, `Replay`, `Runs` and `Integration` stand on the store at
the level of `AppendLog` (one step appends; a compare-and-append succeeds only on a head that
has not moved), which is what the refinement justifies. Each adapter implements `WorkerContract`, which is what
`Thread` assumes of an adapter: a turn that was dispatched ends, once. `Overview` uses `IssueRoute` for what `Desk`
does when an issue is taken.

### Thread store

A process is in one operation at a time; `pc` says where: `idle`, then inside the lock
`locked`, `ready` and `meta` for each entry, `unlock`. Every file system call of
`#withThreadLock` (491-524), `#reloadThreadFromDisk`, `#appendUnlocked` (310-345),
`#appendDurably` (526-539) and `#writeMeta` is a step, because another process may run
between any two of them. `job` is the operation with its arguments: a plain append, a
compare-and-append of one entry (`cas`), a batch that ends in an evaluation (`evaluate`), a
watermark update computed from the caller's possibly stale copy, a refresh. `captured` is what
a caller read before an await and passes to a later conditional call. Events carry who wrote them, on which
head they were conditional (`base`) and which attempt they claim; bodies are opaque. Faults
(at most `MaxFaults`): a crash at any step, which leaves the lock directory and maybe half a
line; a write that stores nothing, half a line, or the line without its fsync, and an error.
Not in the model: a write that stores fewer bytes than asked and reports no error; a failing
removal of the lock directory; legacy metadata, titles and other fields of `meta.json`.

### Thread

The phase of a turn names its await (see the module's header). `adapters` is the map, `held` and
`own` the adapter a turn has in its hand, which may have left the map. Permission mode changes
are a queue of promises with generations; lane mode changes wait for idle agents and then swap
directories; lanes are provisioned, inspected and removed one at a time; `stop` clears the map,
waits, and returns. What a git command, a setup command or an adapter's stop finds is a choice,
failure included.

### History: Replay, Artifacts, Runs

*Replay*: the log is the sequence of authors; `knows[a]` is the set of events the native session of `a` was
shown or produced, so that it can be compared with the log. `missed` is what the session is known to lack: what others
recorded during a turn, a turn whose dispatch failed, and the agent's own part of the log (`Own`) when its session was dropped by
a change of lane mode, or by a stale resume whose retry a restart cut off. Events without conversational content are left
out, and the replay budget never elides a turn.

*Artifacts*: per copy of the thread's directory (its own and each lane's) the ladder of watched directories, the
debounce timer, `#known`, and a sweep whose looking, attaching, listing and reading are steps, because agents go
on writing under it. Titles, kinds, sizes and the order of files are left out.

*Runs*: several threads of one issue; a run's start and end, what a restart leaves, the notes read back from
`.awos/retained.jsonl` after each turn, and the person's amendments. Outcomes of runs, counts of evidence and
`keepRunActive` are left out.

The three share the log and the restart and nothing else, so `History` runs one of them at a time (`subject`).

### Recovery

Per transition: its attempts (with the correction run each evaluates), the latest verdict, its cycle, its
corrections (with the attempt each was started on), what was last said of it (`said`: waits, escalations) and the attempt the
latest typed action was made on, all folds of the log. `active` is `#activeRuns`, which is not in the log. A call in flight is a
request whose `pc` names its await. A call that goes on to the next correction after a further refusal does so in one step with the
release of its entry (`Continues`), and asks for a live correction with that entry gone. Heads are abstracted to `fresh`, the callers for whom nothing was
recorded since they captured theirs. Verdicts are `passed`, `retry` (a worker may correct it),
`unchanged` (the same with the fingerprint of the last correction), `human` and `blocked`. Budgets and what
happens when they are exhausted are folded from the guardrails on the transition (the strictest). Not modelled: a cancel or repin
whose batch is cut short, the limit on retries of one evaluator, the validation of answers and evidence, other
processes. "waiting" stands for waiting-human and interrupted.

### Evaluators, Gate, Integration

The evaluators and the verdict are pure operators over a log, in the order the code tries things; a policy is a set of
items. `Integration` is one worker's lane, the calls to `integrate` in flight, checks and answers recorded meanwhile, two
cores on one directory (`other` is how far the second has read), a lane that is edited and a declaration that is
changed. `Earned` is the reference: what the declaration's words ask, said without the evaluators, that its checks are
declared included. What is said first under an id stands; a repetition by another core is ignored.
Visual guardrails exist only as "unavailable", which is what production has.

### Adapters

The vendor process is the environment: it may name a turn or not, answer late or never, die. `misread` pairs a turn with
another turn whose news it was given. `Streams` is the inside of a Claude or Qwen turn: blocks streamed,
messages cut short, complete messages and tool results, with the item ids the adapter gives them, folded by
`Transcript`. The translation of Codex items, subagents and tool summaries are left out.

### Desk, Overview, Workspace

`Desk` is one issue with calls that interleave at their awaits (lock, probe, fetch, append), the
files of work items, catalog and role (`StoreFiles`: every way a replace can end: returned, threw, died), threads loaded and
deleted, and the end of the process. A new item has a fresh id (a UUID). `Declaration`/`Workspace` are the rules of the files and their merge, over a set of files with
one mistake or one override each. `Overview` follows one issue's row and detail from what the server reads before and after its awaits to
the panel and back to the action.

### Delivery

One socket, requests up, answers and pushes down in order, closing and reopening; the window's open thread, its events,
the incremental transcript fold, notes editor and gate display.

## 3. Runs

All are in `PROJECT.json`; bounds are in the `.cfg` files. Twelve runs; each passing run's properties have a mutant each, a
plausible bug written as an operator next to the definition it replaces (comment "Mutant of ..."), under which TLC finds the
property violated.

| Run | States | Shows |
|---|---|---|
| `thread_store` | 3.3 M | two processes, logs up to 3 events, batches of 2, one fault: mutual exclusion, no branch, attempts in order, the lock left only by a crash, watermarks within the log, refinement of `AppendLog` |
| `thread` | 1.9 M | two agents, one with a diff of its own and one without; all interleavings of turns, stale resumes, one mode change, lane mode, leftover lanes, shutdown |
| `thread_stop` | 122 k | under fairness `stop()` returns |
| `thread_leak` | violation | `stop()` may return with a worker process that was started after it |
| `history` | 1.03 M | sessions: two agents, 6 events, one restart; documents: one file, its directory and one lane, four changes, one fault, one restart; runs: two threads of one issue, two turns, two notes, one amendment, one loss |
| `recovery` | 1.03 M | two transitions, one refused at the start with a budget of two corrections and one with a budget of one, two workers, two calls, one typed action, one fault; users' turns |
| `recovery_reservation` | violation | a cancellation during the turn leaves the worker reserved for good |
| `adapters` | 594 k | each adapter with two turns, two processes and one approval (two Claude adapters in a row, two Qwen workers); streams of three messages and two blocks in two turns, each block one of two texts; the contract, and that everything ends |
| `integration` | 1.0 M | one call, two trees, one edit of lane or declaration, logs of 5 events with two pieces of evidence, five policies, one of each kind of guardrail, an unreadable declaration |
| `desk` | 127 k | two calls on one issue, two threads, two items, four moves of the world, one failed file operation, one end of the process |
| `delivery` | 6.3 M | two threads, one with a moving lane and one with an old Claude log, one click at a time beside the resync, three moves |
| `overview` | 532 k | four declarations, three issues, two worker tables; three overview requests in flight, three moves of the person, one edit, one fault |

Why the bounds suffice. *Store*: every rule concerns two processes and one conditional call against
one other write; 3 events leave room for a batch of two after or before another process's
event, and one fault reaches each fault point. *Thread*: the rules are pairwise (two turns, a turn and a
mode change, a turn and lane mode, a turn and stop). *Replay*: two overlapping turns take four events, a third
turn after them six. *Recovery*: races are between two calls; two transitions are needed for a repin and
for two cycles that share a worker; a budget of two is the code's default and the least that tells a chained correction from one
too many. Users' turns begin only before a
fault and before an entry of `#activeRuns` was lost: what they can do is lose one or be cut off, which they still do.
*Adapters*: what an earlier turn or process leaves behind needs one successor; two texts tell a swap. *Integration*: an
evaluation, a new set, its evaluation and two records between them. *Desk*: a race of two calls, and one deletion. *Delivery*:
one disconnection and one switch of threads during an answer. *Overview*: an answer overtaken by another, and one explicit
refresh. The theorems of section 4 have none of these bounds.

`CHECK_DEADLOCK FALSE` is set where the system may stop: a deleted thread, a stopped thread, a full log, a bound reached.

Fairness, and why the code justifies it:

- `thread_stop`: each step that waits for git, a worktree or a setup command (all run under a timeout), for an
  adapter's stop (bounded by `interruptGraceMs`), and the end of a turn whose process has been told to stop. A turn
  whose process is running has no fairness: it may last for ever, and `stop` must end it.
- `adapters`: timers (watchdog, deadline, interrupt grace) fire, and a process that was killed exits. Nothing the vendor
  says is fair. Claude has no turn watchdog, so a Claude turn must end only after an unacknowledged interrupt.
- `history`: the event loop of each watched copy: a notification on its way arrives, an armed timer fires, a sweep goes on. Faults are bounded.
- `desk`: what a call awaits is answered or times out.
- `overview`: requests are answered or fail, pushes arrive; nobody has to act.

### Disagreements between the code and what is written about it

Two have a violation run and an entry under `findings`:

- `thread_leak`: `stop()` may leave a process running that a turn past its last check of `#stopping` starts.
- `recovery_reservation`: a correction whose cycle is cancelled or repinned during its turn keeps its worker's entry in `#activeRuns`.

The others are exempted from a property, which says so, or left out of the model:

*Store and replay.*
- ARCHITECTURE.md:234-236 calls the store crash-safe. After a crash inside the lock the directory `.events.lock` stays and nothing
  removes it (thread-store.ts:499-501), and a torn line makes the strict reload of every write throw (688): the thread can be read but not written.
- ARCHITECTURE.md:134-136 says the replay collects everything above the watermark that the worker did not produce. At the end of a turn
  the watermark moves to the head (orchestrator.ts:934), past what others recorded during it. `OnlyKnownGaps` exempts it.
- ARCHITECTURE.md:288-291 and orchestrator.ts:960-963 promise a full replay after a change of lane mode. The replay is built without
  `includeSameAgentHistory` (787-790), so the fresh session never sees what the worker itself said before. The same happens when the core
  ends between the reset of a stale session (orchestrator.ts:877) and the delivery of its retry: the next turn finds no session, and no
  reason for the worker's own history. `OnlyKnownGaps` counts the worker's own events like all others and exempts these two cases.

*Adapters.*
- codex.ts:29-31 "Every inbound request must be answered exactly once": an approval that outlives its process is answered to the next
  process under the old number (codex.ts:198). `AnswersReachAsker` allows it only when the asker has exited.
- `NothingMisread` exempts Codex turns ended by an unanswered `turn/start` or a broken stdin, which are not remembered as abandoned, and
  Claude's broken stdin, interrupted turns, and processes that outlive `stop()`'s grace. Such a mistake goes on: a turn that was ended by
  an earlier one's news leaves its own news to the turn after it, which is exempted too. An unacknowledged interrupt of one
  turn can kill the process under the next (claude.ts:347-353).
- qwen-code.ts:671 names a streamed item for the turn and the index; a second message of the turn that has text at the same
  index replaces the first one's row, though protocol/src/events.ts:110 says the id is "for the message being built". A later message may
  likewise go on in the row of one that was cut short, before rows that were said earlier. `SaidIsShown` exempts the overwritten, and the
  order of Qwen's rows once a message was cut short or overwritten.
- A Claude TodoWrite with an empty list announces a tool whose result is swallowed (claude.ts:620-624): its row stays running. A reasoning
  row left streaming stays so when Claude omits the thinking from the complete message.

*Recovery.*
- A probe that fails late records "worker-unavailable" without asking again (orchestrator.ts:2082-2089): it may be about an older
  attempt, replace a standing escalation, or follow a cancellation.
- A torn batch leaves a typed action without its evaluation; an older wait or escalation is current again (recovery.ts:139-142, 396-397),
  and further actions but cancel and repin are refused as already being evaluated.
- The recovery panel (not modelled): waits, escalations and the release of a reservation are recorded without a push (orchestrator.ts:2639-2690,
  2190, 2144) and `recovery.start` answers with the state before the probe, so the panel may show an older head until something else is pushed, though
  useHarness.ts:587-589 relies on pushes.

*Integration and runs.*
- A declaration that goes from A to B and back to A finds A's set superseded for ever (orchestrator.ts:1066-1087), though
  gate.ts:843 calls that retryable. Answers conflicting under one id, possible with two cores, make an item unanswerable until
  its set changes. `NeverStuck` exempts both.
- `runCheck` captures the candidate after the command, not before. Concurrent calls build patches from the same baseline (worktree.ts:139). An
  override beside a failed advisory check makes the record unbuildable, and the call throws.
- The ledger over several threads takes the threads one after the other (Map order), so an amendment recorded in an earlier thread than the note's own
  loses to the older version, though ledger.ts:356 says "each at its latest version". `DecisionsStand` exempts it.
- `.awos/retained.jsonl` is never cleared: a later thread of another issue in the same directory takes in its notes.

*Artifacts.*
- After a restart the thread's own watcher is seeded with the lanes' documents and retires them at its first full sweep, against
  the comment at artifact-watcher.ts:138. A re-provisioned lane's directory is not watched again (orchestrator.ts:587). A failed
  listing or read consumes the notification. A directory removed and made again within the debounce keeps a watch on the dead one. The
  properties say which of these they exempt (`Listening`, `OwnWord`).

*Desk and overview.*
- A failed or overtaken catalog refresh puts back the older snapshot (catalog-store.ts:84-111). An issue can be "continued" in a
  thread whose deletion is in flight (orchestrator.ts:4051). A `store.delete` that throws leaves the thread in `#deleting`
  and on disk (3346-3348). An item whose backup cannot be renamed back is not loaded, and a second item is made.
- `prepareIssue` continues a thread linked to an issue of the same number in another repository (3272-3285). The detail may offer "take" on
  a fetch that failed, against the comment near 3710, or for an issue the catalog does not list, which is then refused. A removal of
  another thread than the open one does not refresh the overview (useHarness.ts:250-268). `OfferHonoured` and `PanelCatchesUp` exempt these.

*Delivery.*
- Any failure of the resync closes the open thread and says it "no longer exists" (useHarness.ts:808-835). An opening
  whose reply is overtaken in the gap before its continuation shows an older log (`behind`). `openThread` blanks notes whose flush failed or that are typed during
  the flush; two saves of A, B, A mark the text saved (200).

## 4. Proofs

TLAPS proves the following for every value of the constants that satisfies the named assumptions, so without any of the bounds of
section 3. Each module keeps its inductive invariant as `IInv` (`HistoryInv` in `HistoryProofs`), a conjunction of named parts; TLC checked it as an invariant of the
component's run before it was proved.

| Theorem | States |
|---|---|
| `ThreadStoreProofs!TypeCorrect`, `StateIsWellFormed` | the types, and `WellFormed`: a lock has a living owner or was left by a crash, the log is numbered |
| `ThreadStoreProofs!MutualExclusion`, `LockReleased` | never two processes inside the lock; without a crash the directory is there only while its maker is inside |
| `ThreadStoreProofs!NoBranch` | each process's copy is a prefix of the log on disk |
| `ThreadStoreProofs!AttemptsInOrder`, `WatermarksBounded` | recorded evaluations claim attempts 1, 2, 3, ...; no watermark beyond the log |
| `ThreadStoreProofs!StoreImplementsLog` | `ThreadStore` implements `AppendLog` |
| `ThreadProofs!DirectoryRule` | `OneTurnPerDirectory` |
| `ThreadProofs!SettingKept` | `TurnsKeepTheirSetting`: mode and directory of a turn are those it was given, whatever is changed meanwhile |
| `ThreadProofs!StopIsQuiet` | `QuietAfterStop`: when `stop()` has returned, what it knew of is stopped |
| `ThreadProofs!WorkSurvives` | `NoLaneWorkLost`, an action property: no step removes a lane that has work |
| `RecoveryProofs!CorrectionsInPlace` | `CorrectionsJudgeTheirRefusal` |
| `RecoveryProofs!OneWorker`, `BudgetHolds` | `OneWorkerPerRefusal`; `BudgetWithinRace`: the budget is exceeded at most by the calls in flight but one, and only on the attempt its last run was spent on |
| `RecoveryProofs!StatusIsTrue` | `StatusIsCurrent`: what is shown of a cycle is about its latest attempt |
| `RecoveryProofs!ActionsStand` | `ActionsAreRespected`, an action property: what a person decided is undone by no worker |
| `IntegrationProofs!EvaluationsAreEarned` | `VerdictIsEarned`: the recorded verdict is what the declaration's words ask |
| `IntegrationProofs!LandingsAreJudged` | `LandedWasJudged`: what lands is the candidate that was judged |
| `IntegrationProofs!AWayOutRemains` | `NeverStuck`: from a refusal, one finite set of runs, answers and signatures leads to a pass |
| `DeskProofs!IssueTakenOnce` | `OneTakenThread` |
| `DeskProofs!DirectoryIsFree` | `NoThreadOnGoingDirectory` |
| `DeskProofs!ItemsAreKept` | `ItemsSurvive`, an action property: no end of a write or of the process loses a recorded item |
| `HistoryProofs!SessionsMissNothingElse` | `ReplayIsExact`: a native session misses of the log, its agent's own part included, only the four known gaps, and is shown nothing twice |
| `HistoryProofs!LogTellsNews` | `EventsAreNews`, an action property: no event of a document repeats the last, only what is gone is retired |
| `DeliveryProofs!GateIsCurrent` | `GateNotBehind`: an answer on display and not stale is of a lane as far as the transcript |
| `AdaptersProofs!NoTurnMisread` | `NothingMisread`: no news of a turn is taken for an earlier turn's, nor for a later one's but after the losses it names |
| `AdaptersProofs!RightAnswers` | `AnswersReachAsker`: an approval is answered once, to the process that asked if it has not exited; Claude's tool calls need the operator's own yes |
| `AdaptersProofs!OneProcess` | `ProcessesKept`: one Qwen process at a time; Claude's is killed under a turn only for an interrupt |
| `AdaptersProofs!EveryVendorKeepsContract` | `ImplementsContract`: each of the three adapters implements `WorkerContract` |
| `DeliveryProofs!NotesAreKept` | `NotesStay`, an action property: unsaved notes are replaced by nothing but typing while their thread is open |

`TypeCorrect` is proved of all eight, of the adapters' for each vendor at hand.

**Thread store.** Assumptions: `NoProcAssumption`, `BoundsAssumption`. `IInv == TypeOK /\ LockInv /\ LogInv /\ JobsStand /\ MarkInv`;
none of the properties is inductive alone. That nobody forks the log needs that the process about to write has reloaded
(`WriterCurrent`: its copy equals the disk), which needs that nobody else writes meanwhile (`LockInv`: whoever is past `Acquire` owns the
directory), which a crash must not disturb (the directory of a dead process stays). That attempts are in order needs `JobsStand`: a
conditional job that was admitted still finds, after its own earlier entries, the head and the attempt it was admitted on. That watermarks
stay within the log needs the same of the copies in memory and of the maps in jobs, since a stale map may be written back. The
refinement maps the lines on disk to the abstract log; only `AppendLine` and the failed write that did store its line append, all other
steps stutter, and deletion ends the behaviour.

**Thread.** Assumptions: `SelfDiffAssumption`, `ModesAssumption`, `BoundAssumption` and `NoAdapterAssumption` (the constants are what their names say). The parts of
`IInv`: `Exclusion`, a change of lane mode and a removal of lanes have the thread to themselves, which is what lets `LanesSafe` say that
no lane under a turn goes; `Holding`, what adapter a turn holds (`held`, `own`) against the map, since a turn may hold one that has left it;
`Marks`, how far resets and generations have come; `Quiet`, that until a turn starts late (`lateStart`, the finding of `thread_leak`) `stop()`
has stopped whatever it has passed; `QueueBound`. The directory rule is the hardest: a turn chooses its directory several awaits before it
uses it, and what keeps the choice good is that lane mode waits for idle agents under the same exclusion.

**Recovery.** Assumptions: `RunsAssumption`, `TriedAssumption`, `GuardrailsAssumption`, `BoundsAssumption`, `RequestsAssumption`. The log and
`#activeRuns` are two records of one correction under way, and `Reservations` says how far they agree. `Calls` says what a call in flight
carries is still so; `Sayings` and `Cancellations` say the same of what was last said and of cancelled cycles; `Budget` counts corrections and
probes together, which is why only the calls in flight can exceed it; `Spent` says that a call still probing when the budget
is spent is about the attempt the last run was spent on, which is why no chain goes on. The proof first says what each action does to one
transition and one call, sorts that into fourteen kinds of steps, and keeps each part of the invariant by kind.

**Integration.** Assumptions: `ConstantsAssumption`; `PoliciesAssumption`, that a declaration is finite, its guardrails have distinct names and
its parts refer to what it declares, which `declaration.ts:513` and `gate.ts:655` enforce. The first half is about operators only: `FactIsMeaning`
(for each kind of item and every ledger, the fact the evaluator derives is what the item means) and `VerdictMeans` (the gate passes exactly
what is earned, overrides included). The second half is `IInv == TypeOK /\ log \in Ledgers /\ EvaluationsEarned(log) /\ CallsJudged /\ LandedWasJudged`: the
log only grows, and a ledger rests on evidence that precedes it. `NeverStuck` needs that what helps is finite and can be written in a row.
Proving `FactIsMeaning` showed that the reference `Met` was wrong beyond the bounds of the run: an answer that a second core records again
under its old id was counted as the newest. The code ignores the repetition, and so does `Met` now.

**Desk.** Assumption: `ConstantsAssumption` (there is a label and a readable declaration, and names are distinct). `Chain`: the calls that
wait for an issue's lock and the one inside are in the chain once each, and nobody is inside but the head. `Untaken`: while a
call is inside, no taken thread is linked to an item that stands for the issue; attaching, detaching and recording go on meanwhile without the
lock, and keep it because a new item has an id nothing has had. `MemoryIsDisk`: what memory has of an item is what its file says, in
its primary or, while that is away, in its backup. The lemmas `PersistEnds`, `PersistDies` and `StartReads` go through every way a write can end.

**History.** Assumptions: `UserAssumption`, `ParallelAssumption`, `BoundsAssumption`, `HistoryAssumption`. The parts of `SessionsInv` say of one
session what it has (`InLog`), what it has at or below its watermark (`BelowWatermark`), what it has of its agent's own events wherever they are (`OwnPart`), and, while its turn is under way, what
it had when the message of the turn was recorded and has up to it (`BeforeMessage`, `UpToMessage`); `Settled` is about the sessions whose
turn is not running. What a dispatch replays and what the end of a turn skips both follow from these, for any overlap of turns in lane mode.
`DocumentsInv` is about one sweep: what it has listed and read so far (`SweepOK`), that it touches only what is watched (`WatchedOnly`, `OwnDocuments`,
`NothingUnwatched`), and that `#known` is what the log was last told (`Remembered`, `SeenByList`).

**Delivery.** Assumptions: `ThreadsAssumption`, `ScriptAssumption`. `GateNotBehind` compares an answer with a transcript that go different ways:
the answer overtakes events or is overtaken by them, its thread may be left, opened again or read again meanwhile. The invariant counts what is
on its way. `ShownNotAhead`: the lane events shown, with those of the open thread in the queue, are at most those in its log.
`DownNotAhead` and `OutgoingNotAhead` say it of each reply to `thread.open`, with the events behind it in the queue. `AnswerOK`: an
answer under way that will be wanted is of no earlier lane than is shown; a lane event that is shown makes every read so far unwanted.
For `NotesStay` it is enough that the notes are those of the open thread (`NotesOK`) and that each step keeps them (`NotesSafe`).

**Adapters.** Assumptions: `BoundsAssumption`, `GensAssumption` (a Claude worker has an adapter to begin with). `IInv` is the invariant of the
vendor at hand; Codex and Claude share the part about their turns (`TurnInFlight`: turns begin in order, the one in flight is the latest
and the only one that runs). *Codex*: `CodexRemembered` says that whatever the server still has to say, in its inbox, its running turns or the
wire, is about the turn in flight, one the adapter remembers as abandoned, one let go without a name, or one of the exempted; `CodexNamed`
that the number a turn is known by is its own or a mistake already made. Both need the order on the wire (`CodexServer`: nothing follows
a turn's completion) and that a refused turn is silent. Answers are unique because an answered approval is settled, and are bounded with the
requests still on the wire (`CodexBound`). *Claude*: a process works off its turns in order (`ClaudeWork`), and those before the turn in
flight were let go; a call on its way belongs to a turn its process still works on or that was interrupted (`ClaudeRelays`). That order
is why news goes to later turns only. *Qwen*: the inference slot; whatever runs or has a child alive holds it (`QwenBusy`,
`QwenChildren`), so a late tool call finds its own turn or none. For the contract each step raises one approval, begins a turn when none
runs, or settles open approvals and maybe ends the turn that runs; an approval that Claude's bridge refuses for want of a handler is never raised.
Proving `NothingMisread` showed that it was too strong: with two turns it held without the exemption of the turn after a misled one;
TLC finds that case with three turns, and the property now has it.

Only model-checked: liveness (`StopCompletes`, `LogCatchesUp`, `EverythingEnds`, `EveryCallEnds`, `PanelCatchesUp`), because TLAPS does not do
fairness and ENABLED; and `OfferHonoured` of the overview, for which no invariant was worked out. `TranscriptIsLog` and `SaidIsShown` compare an incremental fold with a fold from the start or with what was said, `RunsAreTrue` and
`DecisionsStand` a walk through a ledger with what stands at its end, and `SettingsAreSound` ranges over
the files of the run: these are inductions over data, out of the provers' reach.

## 5. Plan

1. `Overview`: `OfferHonoured` as a theorem, from the versions the server and the panel compare.
2. Streams: an invariant by message instead of by fold, so that `SaidIsShown` can be proved as well.

Not planned: prompts, logging, process start, GitHub parsing, scripts, and the components of the UI: wording, layout and I/O without state of
their own. Outside of TLC's reach: what the vendors' processes and git really do; they are choices here.
