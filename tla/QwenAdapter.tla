------------------------------ MODULE QwenAdapter ------------------------------
(***************************************************************************)
(* adapters/qwen-code.ts: the Qwen workers of all threads.  Each turn is a  *)
(* query of its own with a child process of its own; the model server can   *)
(* do one inference at a time, so a module-wide slot is taken for a turn    *)
(* and given back only when the child has exited, which is later than the   *)
(* end of the turn.                                                         *)
(*                                                                         *)
(* The SDK and its child are the environment: the stream may end, with or   *)
(* without a result, at any time, and a child that is told to go may take   *)
(* its time and still ask for approvals.  Consuming a message, leaving the  *)
(* loop and the end of sendTurn are one step: nothing but promise           *)
(* continuations lies between them.                                         *)
(***************************************************************************)
EXTENDS Integers, Sequences, FiniteSets

CONSTANTS
    Workers,    \* the adapters, of different threads
    MaxTurns,   \* bound: turns asked for
    MaxAsks     \* bound: tool calls that are asked about

VARIABLES
    slot,       \* the turn that holds qwenInferenceBusy, 0 for free
    current,    \* of each worker: #turnId, 0 when not #busy
    session,    \* its native session: "none", "good", "stale"
    stopping,   \* workers whose stop() waits for the children
    interrupted,\* workers with #interrupted
    timedOut,   \* workers with #timedOut
    fallback,   \* workers with an interrupt fallback timer
    seen,       \* what the stream of its turn said: "content", and "miss" for a
                \* session not found
    worker,     \* of each turn: its worker
    aborted,    \* turns whose abort signal was given
    child,      \* of each turn: "none", "alive", "leaving" (cleanup begun), "gone"
    phase,      \* of each turn: "new", "running", "ended"
    endedBy,    \* what ended it
    asks        \* the tool calls asked about, in order

workerVars == <<current, session, stopping, interrupted, timedOut, fallback, seen>>
turnVars   == <<worker, aborted, child, phase, endedBy>>
vars == <<slot, workerVars, turnVars, asks>>

Turns  == 1 .. MaxTurns
Asks   == 1 .. MaxAsks
Begun  == {t \in Turns : phase[t] # "new"}
Causes == {"none", "completed", "interrupted", "error", "timeout", "miss"}
Open(T) == {i \in DOMAIN asks : asks[i].state = "open" /\ asks[i].turn \in T}

\* Every variable has its type, and a worker is busy with its own turn.
TypeOK ==
    /\ slot \in 0 .. MaxTurns /\ current \in [Workers -> 0 .. MaxTurns]
    /\ session \in [Workers -> {"none", "good", "stale"}]
    /\ stopping \subseteq Workers /\ interrupted \subseteq Workers
    /\ timedOut \subseteq Workers /\ fallback \subseteq Workers
    /\ DOMAIN worker = Begun /\ \A t \in Begun : worker[t] \in Workers
    /\ seen \in [Workers -> SUBSET {"content", "miss"}] /\ aborted \subseteq Turns
    /\ child \in [Turns -> {"none", "alive", "leaving", "gone"}]
    /\ phase \in [Turns -> {"new", "running", "ended"}] /\ endedBy \in [Turns -> Causes]
    /\ \A i \in DOMAIN asks : asks[i] \in
          [turn: Turns, shown: 0 .. MaxTurns, state: {"open", "settled"}, verdict: {"none", "allow", "deny"}]
    /\ \A w \in Workers : current[w] # 0 => /\ worker[current[w]] = w
                                            /\ phase[current[w]] = "running"
    /\ fallback \subseteq {w \in Workers : current[w] # 0}

Init ==
    /\ slot = 0 /\ current = [w \in Workers |-> 0]
    /\ session = [w \in Workers |-> "stale"]
    /\ stopping = {} /\ interrupted = {} /\ timedOut = {} /\ fallback = {}
    /\ worker = <<>> /\ seen = [w \in Workers |-> {}] /\ aborted = {}
    /\ child = [t \in Turns |-> "none"] /\ phase = [t \in Turns |-> "new"]
    /\ endedBy = [t \in Turns |-> "none"] /\ asks = <<>>

-----------------------------------------------------------------------------
(* Pieces of handlers. *)

\* #settleApproval of each of S.
Settle(S, verdict) ==
    asks' = [i \in DOMAIN asks |->
               IF i \in S THEN [asks[i] EXCEPT !.state = "settled", !.verdict = verdict] ELSE asks[i]]

\* acquireQwenInferenceSlot.
\* Mutant: the slot is taken whoever holds it.
AcquireAlways(t) == slot' = t

Acquire(t) == slot = 0 /\ slot' = t

\* Mutant: the cleanup is left to stop().
LeavesChild(T) == child

\* ensureQueryCleanup: the exit is awaited, then the child is told to go.
Leaving(T) == [t \in Turns |-> IF t \in T /\ child[t] = "alive" THEN "leaving" ELSE child[t]]

\* The end of a turn of w (what its stream said is of no use then), with
\* sendTurn's finally: the cleanup begins, the slot stays taken until it is done.
EndTurn(w, cause) ==
    LET t == current[w] IN
    /\ current' = [current EXCEPT ![w] = 0] /\ fallback' = fallback \ {w}
    /\ seen' = [seen EXCEPT ![w] = {}]
    /\ phase' = [phase EXCEPT ![t] = "ended"] /\ endedBy' = [endedBy EXCEPT ![t] = cause]
    /\ child' = Leaving({t})

-----------------------------------------------------------------------------
\* sendTurn: refused while any Qwen worker holds the slot.  A query that cannot
\* be made is one whose child is gone at once.
SendTurn(w) ==
    /\ current[w] = 0 /\ w \notin stopping /\ Cardinality(Begun) < MaxTurns
    /\ LET t == Cardinality(Begun) + 1 IN
       /\ Acquire(t) /\ current' = [current EXCEPT ![w] = t]
       /\ worker' = [u \in Begun \cup {t} |-> IF u = t THEN w ELSE worker[u]]
       /\ phase' = [phase EXCEPT ![t] = "running"]
       /\ \E c \in {"alive", "gone"} : child' = [child EXCEPT ![t] = c]
    /\ interrupted' = interrupted \ {w} /\ timedOut' = timedOut \ {w}
    /\ UNCHANGED <<session, stopping, fallback, seen, aborted, endedBy, asks>>

\* Messages that show the model at work; the first names the session.
OnContent(w) ==
    /\ current[w] # 0 /\ child[current[w]] # "none"
    /\ seen' = [seen EXCEPT ![w] = @ \cup {"content"}]
    /\ session' = [session EXCEPT ![w] = "good"]
    /\ UNCHANGED <<slot, current, stopping, interrupted, timedOut, fallback, worker, aborted,
                   child, phase, endedBy, asks>>

\* stderr says that the session to resume does not exist, before any content.
OnResumeMiss(w) ==
    /\ current[w] # 0 /\ session[w] = "stale" /\ "content" \notin seen[w]
    /\ seen' = [seen EXCEPT ![w] = @ \cup {"miss"}]
    /\ UNCHANGED <<slot, current, session, stopping, interrupted, timedOut, fallback, turnVars, asks>>

ResumeMissed(w) == seen[w] = {"miss"}

\* A result ends the turn, unless the session was missed: then it is ignored.
OnResult(w) ==
    /\ current[w] # 0 /\ ~ResumeMissed(w)
    /\ \E cause \in {"completed", "error"} : EndTurn(w, IF w \in interrupted THEN "interrupted" ELSE cause)
    /\ session' = [session EXCEPT ![w] = "good"]
    /\ UNCHANGED <<slot, stopping, interrupted, timedOut, worker, aborted, asks>>

\* The stream stops or fails without a result.  A missed session is reported to
\* the scheduler, which builds a worker without one and asks again.
OnStreamEnd(w) ==
    /\ current[w] # 0
    /\ LET cause == IF w \in interrupted THEN "interrupted"
                    ELSE IF ResumeMissed(w) THEN "miss" ELSE "error"
       IN /\ EndTurn(w, cause)
          /\ session' = IF cause = "miss" THEN [session EXCEPT ![w] = "none"] ELSE session
    /\ UNCHANGED <<slot, stopping, interrupted, timedOut, worker, aborted, asks>>

\* The deadline: the signal is given, which denies what is open, and sendTurn
\* goes on without waiting for the stream.
TurnTimeout(w) ==
    /\ current[w] # 0
    /\ timedOut' = timedOut \cup {w}
    /\ aborted' = aborted \cup {current[w]}
    /\ Settle(Open({current[w]}), "deny")
    /\ EndTurn(w, "timeout")
    /\ UNCHANGED <<slot, session, stopping, interrupted, worker>>

\* Bound: once a turn.
Interrupt(w) ==
    /\ current[w] # 0 /\ w \notin interrupted
    /\ interrupted' = interrupted \cup {w} /\ fallback' = fallback \cup {w}
    /\ UNCHANGED <<slot, current, session, stopping, timedOut, seen, turnVars, asks>>

\* The interrupt was not obeyed in time: cleanup and abort.
InterruptFallback(w) ==
    /\ w \in fallback /\ fallback' = fallback \ {w}
    /\ aborted' = aborted \cup {current[w]}
    /\ child' = Leaving({current[w]})
    /\ Settle(Open({current[w]}), "deny")
    /\ UNCHANGED <<slot, current, session, stopping, interrupted, timedOut, worker, seen, phase, endedBy>>

\* stop(): what the worker has open is denied and the query is closed.
Stop(w) ==
    /\ w \notin stopping
    /\ stopping' = stopping \cup {w}
    /\ Settle(Open({t \in Begun : worker[t] = w}), "deny")
    /\ child' = Leaving({current[w]} \ {0})
    /\ UNCHANGED <<slot, current, session, interrupted, timedOut, fallback, worker, seen, aborted, phase, endedBy>>

\* It returns when the children are gone; the thread builds the next adapter
\* when the turn has settled too.
Stopped(w) ==
    /\ w \in stopping /\ current[w] = 0
    /\ \A t \in Begun : worker[t] = w => child[t] = "gone"
    /\ stopping' = stopping \ {w}
    /\ UNCHANGED <<slot, current, session, interrupted, timedOut, fallback, seen, turnVars, asks>>

-----------------------------------------------------------------------------
(* Approvals. *)

\* qwenPermissionPolicy: what is decided without the operator.  A command is
\* "verify" when it is declared by the workspace or only reads with git.
Policy(tool, mode) ==
    CASE tool = "read" -> "allow"
      [] tool = "edit" -> IF mode \in {"bypassPermissions", "acceptEdits"} THEN "allow"
                          ELSE IF mode \in {"plan", "dontAsk"} THEN "deny" ELSE "ask"
      [] tool = "verify" -> IF mode = "bypassPermissions" THEN "allow"
                            ELSE IF mode \in {"plan", "dontAsk"} THEN "deny" ELSE "ask"
      [] OTHER -> "deny"

Modes == {"default", "acceptEdits", "plan", "dontAsk", "bypassPermissions"}

\* canUseTool, called by the child of a turn, which may have ended: denied at
\* once when the signal was given or the worker is stopping its turn, otherwise
\* shown with the turn that the worker has now.
CanUseTool(t) ==
    /\ child[t] \in {"alive", "leaving"} /\ Len(asks) < MaxAsks
    /\ \E tool \in {"edit", "verify"}, mode \in Modes : Policy(tool, mode) = "ask"
    /\ LET w == worker[t]
           now == t \in aborted \/ w \in interrupted \cup timedOut
       IN asks' = Append(asks, [turn |-> t, shown |-> IF now THEN 0 ELSE current[w],
                                state |-> IF now THEN "settled" ELSE "open",
                                verdict |-> IF now THEN "deny" ELSE "none"])
    /\ UNCHANGED <<slot, workerVars, turnVars>>

OperatorAnswers ==
    /\ \E i \in Open(Turns), d \in {"allow", "deny"} : Settle({i}, d)
    /\ UNCHANGED <<slot, workerVars, turnVars>>

ApprovalTimeout ==
    /\ \E i \in Open(Turns) : Settle({i}, "deny")
    /\ UNCHANGED <<slot, workerVars, turnVars>>

-----------------------------------------------------------------------------
\* The child exits, told or not.
ChildExits(t) ==
    /\ child[t] \in {"alive", "leaving"}
    /\ child' = [child EXCEPT ![t] = "gone"]
    /\ UNCHANGED <<slot, workerVars, worker, aborted, phase, endedBy, asks>>

\* Mutant: the slot is given back when the turn is over.
ReleaseAtEnd(t) ==
    /\ slot = t /\ phase[t] = "ended"
    /\ slot' = 0
    /\ UNCHANGED <<workerVars, turnVars, asks>>

\* cleanup.then(release): the turn is over and its child has exited.
Release(t) ==
    /\ slot = t /\ phase[t] = "ended" /\ child[t] = "gone"
    /\ slot' = 0
    /\ UNCHANGED <<workerVars, turnVars, asks>>

Deadlines == ApprovalTimeout \/ \E w \in Workers : TurnTimeout(w)

Released     == \E t \in Turns : Release(t)
LeavingExits == \E t \in Turns : child[t] = "leaving" /\ ChildExits(t)

Next ==
    \/ \E w \in Workers : \/ SendTurn(w) \/ OnContent(w) \/ OnResumeMiss(w) \/ OnResult(w)
                          \/ OnStreamEnd(w) \/ Interrupt(w) \/ InterruptFallback(w)
                          \/ Stop(w) \/ Stopped(w)
    \/ \E t \in Turns : CanUseTool(t) \/ ChildExits(t)
    \/ Released \/ OperatorAnswers \/ Deadlines

Spec == Init /\ [][Next]_vars

-----------------------------------------------------------------------------
(* Properties. *)

\* At most one Qwen process lives at a time, whatever thread it belongs to and
\* however its turn ended (qwen-code.ts 449-454).
OneInference == Cardinality({t \in Turns : child[t] \in {"alive", "leaving"}}) <= 1

\* A tool call is never shown as another turn's.
NothingMisread == \A i \in DOMAIN asks : asks[i].shown \in {0, asks[i].turn}

\* What became of an approval.
AskState(a) == IF a \in DOMAIN asks THEN asks[a].state ELSE "none"
=============================================================================
