-------------------------------- MODULE Replay --------------------------------
(***************************************************************************)
(* Cross-agent handoff.  The log is canonical and an agent's native session*)
(* is a cache of it: before a turn, the events above the agent's watermark *)
(* that it did not produce are put before the user's message, and after    *)
(* the turn the watermark moves to the head of the log.  The model keeps,  *)
(* for each session, which events it has been shown, so that the watermark *)
(* can be compared with what the session knows.                            *)
(*                                                                         *)
(* A turn is Send (replay built, message recorded) -> Deliver (the payload *)
(* reaches the session), possibly after StaleResume or not at all          *)
(* (DispatchFails) -> Produce ... -> Finish.  Events without               *)
(* conversational content are not in the log here, and the replay budget   *)
(* is large enough that no turn is elided.                                 *)
(***************************************************************************)
EXTENDS Integers, Sequences, FiniteSets

CONSTANTS
    Agents,        \* worker profiles
    User,          \* the author of user messages
    ParallelModes, \* bound: {FALSE}, or {FALSE, TRUE} to let lane mode change
    MayFail,       \* bound: whether a dispatch may fail before it is delivered
    MaxEvents,     \* bound: events in the log
    MaxRestarts    \* bound: restarts of the core

ASSUME UserAssumption == User \notin Agents
ASSUME ParallelAssumption == FALSE \in ParallelModes /\ ParallelModes \subseteq BOOLEAN
ASSUME FailAssumption == MayFail \in BOOLEAN
ASSUME BoundsAssumption == {MaxEvents, MaxRestarts} \subseteq Nat

VARIABLES
    log,       \* who produced each event
    parallel,  \* #parallel
    phase,     \* "idle"; "sent": recorded, not delivered; "running"
    base,      \* seq of the turn's user message
    payload,   \* the events the turn's replay block renders
    retried,   \* agents whose turn retries a stale resume
    wm,        \* watermarks
    native,    \* agents with a recorded native session
    knows,     \* the events each agent's session has been shown or produced
    missed,    \* what no replay will show the agent's session, see OnlyKnownGaps
    restarts   \* restarts so far

turns    == <<phase, base, payload, retried>>
sessions == <<wm, native, knows, missed>>
vars     == <<log, parallel, turns, sessions, restarts>>

Seqs == 1..MaxEvents

TypeOK ==
    /\ log \in Seq(Agents \cup {User}) /\ Len(log) <= MaxEvents
    /\ parallel \in ParallelModes
    /\ phase \in [Agents -> {"idle", "sent", "running"}]
    /\ base \in [Agents -> 0..MaxEvents]
    /\ payload \in [Agents -> SUBSET Seqs]
    /\ retried \subseteq Agents
    /\ wm \in [Agents -> 0..MaxEvents]
    /\ native \subseteq Agents
    /\ knows \in [Agents -> SUBSET Seqs]
    /\ missed \in [Agents -> SUBSET Seqs]
    /\ restarts \in 0..MaxRestarts

Init ==
    /\ log = <<>>
    /\ parallel = FALSE
    /\ phase = [a \in Agents |-> "idle"]
    /\ base = [a \in Agents |-> 0]
    /\ payload = [a \in Agents |-> {}]
    /\ retried = {}
    /\ wm = [a \in Agents |-> 0]
    /\ native = {}
    /\ knows = [a \in Agents |-> {}]
    /\ missed = [a \in Agents |-> {}]
    /\ restarts = 0

LogHead == Len(log)

\* What the agent itself produced.  Only a retry replays it.
Own(a) == {s \in 1..LogHead : log[s] = a}

\* buildReplay: what is rendered for `a` of the events above `from` and below
\* `to`; its own only where a stale session is rebuilt.
Replay(a, from, to, own) == {s \in from + 1 .. to - 1 : own \/ log[s] # a}

EndTurn(a) ==
    /\ phase' = [phase EXCEPT ![a] = "idle"]
    /\ base' = [base EXCEPT ![a] = 0]
    /\ payload' = [payload EXCEPT ![a] = {}]
    /\ retried' = retried \ {a}

\* Mutant: one event too far.
AdvanceWatermarkPastHead(a) == wm' = [wm EXCEPT ![a] = LogHead + 1]

\* setWatermark at the end of a turn, reached whenever the message was recorded.
AdvanceWatermark(a) == wm' = [wm EXCEPT ![a] = LogHead]

-------------------------------------------------------------------------------
\* send: the replay is built before the message is recorded, in one step.
Send(a) ==
    /\ LogHead < MaxEvents
    /\ phase[a] = "idle"
    /\ parallel \/ \A b \in Agents : phase[b] = "idle"
    /\ payload' = [payload EXCEPT ![a] = Replay(a, wm[a], LogHead + 1, FALSE)]
    /\ log' = Append(log, User)
    /\ base' = [base EXCEPT ![a] = LogHead + 1]
    /\ phase' = [phase EXCEPT ![a] = "sent"]
    /\ UNCHANGED <<parallel, retried, sessions, restarts>>

\* The adapter's sendTurn is accepted; a fresh session reports its id.
Deliver(a) ==
    /\ phase[a] = "sent"
    /\ phase' = [phase EXCEPT ![a] = "running"]
    /\ knows' = [knows EXCEPT ![a] = @ \cup payload[a] \cup {base[a]}]
    /\ native' = native \cup {a}
    /\ UNCHANGED <<log, parallel, base, payload, retried, wm, missed, restarts>>

\* Mutant: the watermark of the stale session stays.
ResetKeepingWatermark(a) ==
    /\ native' = native \ {a}
    /\ knows' = [knows EXCEPT ![a] = {}]
    /\ missed' = [missed EXCEPT ![a] = {}]
    /\ UNCHANGED wm

\* #resetStaleNativeSession: session and watermark go in one update.
ResetStaleNativeSession(a) ==
    /\ native' = native \ {a}
    /\ knows' = [knows EXCEPT ![a] = {}]
    /\ missed' = [missed EXCEPT ![a] = {}]
    /\ wm' = [wm EXCEPT ![a] = 0]

\* Mutant: the retry replays the turn's own message, too.
RetryReplayWithPrompt(a) == Replay(a, 0, LogHead + 1, TRUE)

\* Mutant: the retry replays what others did, as a first attempt does.
RetryReplayForeignOnly(a) == Replay(a, 0, base[a], FALSE)

\* A replay of everything before the turn's own message.
RetryReplay(a) == Replay(a, 0, base[a], TRUE)

\* The recorded session cannot be resumed.  Once per turn.
StaleResume(a) ==
    /\ phase[a] = "sent" /\ a \in native /\ a \notin retried
    /\ retried' = retried \cup {a}
    /\ ResetStaleNativeSession(a)
    /\ payload' = [payload EXCEPT ![a] = RetryReplay(a)]
    /\ UNCHANGED <<log, parallel, phase, base, restarts>>

\* No adapter, no process or a failed handshake: nothing reached the session.
DispatchFails(a) ==
    /\ MayFail
    /\ phase[a] = "sent"
    /\ EndTurn(a)
    /\ AdvanceWatermark(a)
    /\ missed' = [missed EXCEPT ![a] = @ \cup payload[a] \cup base[a]..LogHead]
    /\ UNCHANGED <<log, parallel, native, knows, restarts>>

\* An event of the running agent, which its own session has.
Produce(a) ==
    /\ LogHead < MaxEvents
    /\ phase[a] = "running"
    /\ log' = Append(log, a)
    /\ knows' = [knows EXCEPT ![a] = @ \cup {LogHead + 1}]
    /\ UNCHANGED <<parallel, turns, wm, native, missed, restarts>>

\* The turn ends, however it ends.
Finish(a) ==
    /\ phase[a] = "running"
    /\ EndTurn(a)
    /\ AdvanceWatermark(a)
    /\ missed' = [missed EXCEPT ![a] = @ \cup {s \in base[a] + 1 .. LogHead : log[s] # a}]
    /\ UNCHANGED <<log, parallel, native, knows, restarts>>

\* setParallel drops every native session and every watermark.  What replaces the
\* session is sent what others did, as any turn is: what the agent did itself
\* is not in it.
SetParallel(on) ==
    /\ on \in ParallelModes /\ on # parallel
    /\ \A a \in Agents : phase[a] = "idle"
    /\ parallel' = on
    /\ wm' = [a \in Agents |-> 0]
    /\ native' = {}
    /\ knows' = [a \in Agents |-> {}]
    /\ missed' = [a \in Agents |-> Own(a)]
    /\ UNCHANGED <<log, turns, restarts>>

\* The core is restarted: turns are gone, the log and the summary are read
\* back, and the thread opens with lane mode off.  A retry that was not delivered
\* is not made again: its session is gone, and the agent's own part with it.
Restart ==
    /\ restarts < MaxRestarts
    /\ restarts' = restarts + 1
    /\ phase' = [a \in Agents |-> "idle"]
    /\ base' = [a \in Agents |-> 0]
    /\ payload' = [a \in Agents |-> {}]
    /\ retried' = {}
    /\ parallel' = FALSE
    /\ missed' = [a \in Agents |-> missed[a] \cup
                     IF phase[a] = "sent" /\ a \in retried THEN Own(a) ELSE {}]
    /\ UNCHANGED <<log, wm, native, knows>>

Next ==
    \/ \E a \in Agents :
          Send(a) \/ Deliver(a) \/ StaleResume(a) \/ DispatchFails(a) \/ Produce(a) \/ Finish(a)
    \/ \E on \in BOOLEAN : SetParallel(on)
    \/ Restart

Spec == Init /\ [][Next]_vars

-------------------------------------------------------------------------------
\* What the watermark says the session has, its own part included, and it has not.
Skipped(a) == {s \in 1..wm[a] : s \notin knows[a]}

\* A session lacks history in four cases only.  It was recorded by others while
\* a turn of the agent was in flight; it belonged to a turn whose dispatch
\* failed; or the agent produced it itself, for a session that was dropped by a
\* change of lane mode, or found stale by a turn that a restart cut off.  (The
\* last two contradict ARCHITECTURE.md:288-291 and orchestrator.ts:960-963, which
\* promise the thread's full history.)  A stale session, and others' part of
\* the log after a change of lane mode or a restart, the next replay makes up for.
OnlyKnownGaps == \A a \in Agents : Skipped(a) \subseteq missed[a]

\* A replay block repeats nothing its session has, nor the prompt it comes
\* before, unless a restart cut the turn off before its watermark was stored.
NoDuplicateReplay ==
    restarts = 0 =>
    \A a \in Agents : phase[a] = "sent" => payload[a] \cap (knows[a] \cup {base[a]}) = {}

\* A session rebuilt after a stale resume has the whole log before the turn,
\* the agent's own part included.
RebuiltIsComplete ==
    \A a \in Agents : phase[a] = "running" /\ a \in retried => 1..base[a] \subseteq knows[a]
===============================================================================
