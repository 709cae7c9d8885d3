-------------------------------- MODULE Adapters --------------------------------
(***************************************************************************)
(* The worker adapters, one vendor at a time (adapters/registry.ts builds   *)
(* one per worker profile): whichever the worker is, the scheduler and the  *)
(* operator rely on the same things.  The properties here are stated for    *)
(* the vendor at hand; the variables the three modules have in common are   *)
(* the same, those of the two other vendors keep their initial values.  What *)
(* Claude and Qwen Code say within their turns is a part of its own, Streams.*)
(***************************************************************************)
EXTENDS Integers, Sequences, FiniteSets

CONSTANTS Workers, MaxTurns, MaxProcs, MaxAsks, MaxWire, MaxGens,
          NoWorker, NoBase, Chunks, MaxMessages, MaxBlocks, MaxRounds

ASSUME BoundsAssumption == {MaxTurns, MaxProcs, MaxAsks, MaxWire, MaxMessages,
                           MaxBlocks, MaxRounds} \subseteq Nat

\* A Claude worker has an adapter to begin with.
ASSUME GensAssumption == MaxGens \in Nat \ {0}

VARIABLES
    vendor,
    \* common: of each turn its phase and end, and the approvals
    phase, endedBy, asks,
    \* Codex and Claude
    turn, misread,
    \* Codex
    proc, spawned, held, ready, resume, shake, call, named, asked, watched,
    abandoned, unnamedLeft, stopped, wire, inbox, unreplied, running, rpcs, answers,
    \* Claude; Qwen Code has a stopping of its own kind
    gen, child, stopping, handler, status, owner, todo, interrupts, cancelled, unacked,
    \* Qwen Code
    slot, current, session, interrupted, timedOut, fallback, seen, worker, aborted,
    \* what a worker says
    provider, round, begun, message, told, heard, due, stream, slots, ordinals, names, rows

codexVars  == <<proc, spawned, held, ready, resume, shake, call, named, asked, watched, abandoned,
                unnamedLeft, stopped, wire, inbox, unreplied, running, rpcs, answers>>
claudeVars == <<gen, handler, status, owner, todo, interrupts, cancelled, unacked>>
qwenVars   == <<slot, current, session, interrupted, timedOut, fallback, seen, worker, aborted>>
common     == <<phase, endedBy, asks, turn, misread, child, stopping>>
streamVars == <<provider, round, begun, message, told, heard, due, stream, slots, ordinals, names, rows>>
vars == <<vendor, codexVars, claudeVars, qwenVars, common, streamVars>>

Codex  == INSTANCE CodexAdapter
Claude == INSTANCE ClaudeAdapter
Qwen   == INSTANCE QwenAdapter
Stream == INSTANCE Streams

IdleCodex ==
    /\ proc = 0 /\ spawned = 0 /\ held = 0 /\ ready = 0 /\ resume = 0
    /\ shake = 0 /\ call = 0 /\ named = 0 /\ asked = 0 /\ watched = 0
    /\ abandoned = 0 /\ unnamedLeft = 0 /\ stopped = 0 /\ wire = 0 /\ inbox = 0
    /\ unreplied = 0 /\ running = 0 /\ rpcs = 0 /\ answers = 0

IdleClaude ==
    /\ gen = 0 /\ handler = 0 /\ status = 0 /\ owner = 0 /\ todo = 0
    /\ interrupts = 0 /\ cancelled = 0 /\ unacked = 0

IdleQwen ==
    /\ slot = 0 /\ current = 0 /\ session = 0 /\ interrupted = 0 /\ timedOut = 0
    /\ fallback = 0 /\ seen = 0 /\ worker = 0 /\ aborted = 0

IdleStream ==
    /\ provider = 0 /\ round = 0 /\ begun = 0 /\ message = 0 /\ told = 0 /\ heard = 0
    /\ due = 0 /\ stream = 0 /\ slots = 0 /\ ordinals = 0 /\ names = 0 /\ rows = 0

IdleTurns ==
    /\ phase = [t \in 1 .. MaxTurns |-> "new"] /\ endedBy = [t \in 1 .. MaxTurns |-> "none"]
    /\ asks = <<>> /\ turn = 0 /\ misread = 0 /\ child = 0 /\ stopping = 0

Init ==
    \/ vendor = "codex"  /\ Codex!Init  /\ IdleClaude /\ IdleQwen /\ IdleStream /\ child = 0 /\ stopping = 0
    \/ vendor = "claude" /\ Claude!Init /\ IdleCodex /\ IdleQwen /\ IdleStream
    \/ vendor = "qwen"   /\ Qwen!Init   /\ IdleCodex /\ IdleClaude /\ IdleStream /\ turn = 0 /\ misread = 0
    \/ vendor = "speech" /\ Stream!Init /\ IdleCodex /\ IdleClaude /\ IdleQwen /\ IdleTurns

CodexStep(A)  == vendor = "codex" /\ A /\ UNCHANGED <<vendor, claudeVars, qwenVars, streamVars, child, stopping>>
ClaudeStep(A) == vendor = "claude" /\ A /\ UNCHANGED <<vendor, codexVars, qwenVars, streamVars>>
QwenStep(A)   == vendor = "qwen" /\ A /\ UNCHANGED <<vendor, codexVars, claudeVars, streamVars, turn, misread>>
Speech        == vendor = "speech" /\ Stream!Next /\ UNCHANGED <<vendor, codexVars, claudeVars, qwenVars, common>>

Next == CodexStep(Codex!Next) \/ ClaudeStep(Claude!Next) \/ QwenStep(Qwen!Next) \/ Speech

\* Deadlines pass and continuations run, an interrupt's grace period runs out,
\* and a process that is told to go goes.  Nothing is assumed of what the
\* workers say.
Deadlines == \/ CodexStep(Codex!Timers) \/ ClaudeStep(Claude!ApprovalTimeout)
             \/ QwenStep(Qwen!Deadlines)
Graces    == ClaudeStep(Claude!InterruptTimeout)
Exits     == ClaudeStep(Claude!TermedExits) \/ QwenStep(Qwen!LeavingExits \/ Qwen!Released)

Spec == Init /\ [][Next]_vars /\ WF_vars(Deadlines) /\ WF_vars(Graces) /\ WF_vars(Exits)

-----------------------------------------------------------------------------
(* Properties. *)

\* Every variable of the vendor's module has its type.
TypeOK ==
    CASE vendor = "codex" -> Codex!TypeOK
      [] vendor = "claude" -> Claude!TypeOK
      [] vendor = "qwen" -> Qwen!TypeOK
      [] vendor = "speech" -> TRUE

\* Nothing that is said or asked in one turn is taken for another turn's, with
\* the exceptions each module names: turn identity in codex.ts 680-698, results
\* and tool calls in claude.ts, late tool calls in qwen-code.ts.
NothingMisread ==
    CASE vendor = "codex" -> Codex!NothingMisread
      [] vendor = "claude" -> Claude!NothingMisread
      [] vendor = "qwen" -> Qwen!NothingMisread
      [] vendor = "speech" -> TRUE

\* The answer to an approval goes to the process that asked, once, and a tool
\* call goes ahead only with the operator's own yes to that call.
AnswersReachAsker ==
    /\ vendor = "codex" => Codex!AnswersReachAsker
    /\ vendor = "claude" => Claude!AllowedByOperator

\* Whatever was streamed, cut short, left out or said at once, what a worker
\* completed is shown, each text in one row, and in the order it was said as far
\* as the adapter's item ids keep it (claude.ts 492-608, qwen-code.ts 663-709,
\* transcript.ts).
SaidIsShown == vendor = "speech" => Stream!SaidIsShown

\* At most one Qwen process lives at a time, and a Claude process is not killed
\* under a turn without an interrupt that was never acknowledged.
ProcessesKept ==
    /\ vendor = "qwen" => Qwen!OneInference
    /\ vendor = "claude" => Claude!KilledForInterrupt

AskState(a) ==
    CASE vendor = "codex" -> Codex!AskState(a)
      [] vendor = "claude" -> Claude!AskState(a)
      [] vendor = "qwen" -> Qwen!AskState(a)
      [] vendor = "speech" -> "none"

Contract == INSTANCE WorkerContract WITH
    Turns <- 1 .. MaxTurns, Asks <- 1 .. MaxAsks, ask <- [a \in 1 .. MaxAsks |-> AskState(a)]

\* Every vendor's adapter does what WorkerContract promises the scheduler: one
\* turn at a time, each ended once, approvals settled once (agent.ts 40-109).
ImplementsContract == Contract!Spec

\* A turn ends by the watchdog or the deadline if nothing else ends it, an
\* approval on display is settled, an interrupt that is not acknowledged ends
\* its turn, and the inference slot comes back.  Claude has no turn watchdog.
EverythingEnds ==
    /\ \A t \in 1 .. MaxTurns :
          (phase[t] = "running" /\ (vendor = "claude" => t \in unacked)) ~> (phase[t] = "ended")
    /\ \A a \in 1 .. MaxAsks : (vendor # "codex" /\ AskState(a) = "open") ~> (AskState(a) = "settled")
    /\ (vendor = "qwen" /\ slot # 0) ~> (slot = 0)
=============================================================================
