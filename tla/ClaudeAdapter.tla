----------------------------- MODULE ClaudeAdapter ----------------------------
(***************************************************************************)
(* adapters/claude.ts with permission-bridge.ts and permission-mcp/main.ts: *)
(* the adapters that one worker of one thread has had, one after the other, *)
(* and the Claude processes they started.                                   *)
(*                                                                         *)
(* A turn is a line on stdin and ends with a `result`, which names no turn. *)
(* A tool call that needs approval goes from the process to a relay (the    *)
(* MCP server it starts), over a socket to the bridge in the core, and from *)
(* there to the adapter registered for the thread and worker at that        *)
(* moment; the decision takes the same way back.  An interrupt that is not  *)
(* acknowledged in time becomes a kill.  The process is the environment; it *)
(* works off the turns it was given in order.                               *)
(***************************************************************************)
EXTENDS Integers, Sequences, FiniteSets

CONSTANTS
    MaxTurns,   \* bound: turns asked for
    MaxProcs,   \* bound: processes started
    MaxAsks,    \* bound: tool calls that need approval
    MaxGens     \* bound: adapters the worker is given

VARIABLES
    gen,        \* the number of the adapter in use
    child,      \* its #child, 0 for null
    stopping,   \* "no", "waiting" for the process, "done"
    handler,    \* the adapter the bridge has for this thread and worker, 0 for none
    status,     \* of each process: "new", "alive", "termed" (told to go), "gone"
    owner,      \* the adapter that started it
    todo,       \* the turns it was given and has not finished
    turn,       \* #turnId, 0 when not #busy
    phase,      \* per turn: "new", "running", "ended"
    endedBy,    \* what ended it
    interrupts, \* #controlWaiters: the process and the turn that was to be interrupted
    cancelled,  \* turns an interrupt was asked for
    unacked,    \* turns whose interrupt was never acknowledged
    asks,       \* the tool calls that asked for approval, in order
    misread     \* a turn, another turn whose news it was given, and whether that
                \* came from a process of an earlier adapter

adapterVars == <<gen, child, stopping>>
cliVars     == <<status, owner, todo>>
turnVars    == <<turn, phase, endedBy>>
controlVars == <<interrupts, cancelled, unacked>>
vars == <<adapterVars, handler, cliVars, turnVars, controlVars, asks, misread>>

Turns  == 1 .. MaxTurns
Procs  == 1 .. MaxProcs
Gens   == 1 .. MaxGens
Asks   == 1 .. MaxAsks
Begun  == {t \in Turns : phase[t] # "new"}
Live   == {p \in Procs : status[p] \in {"alive", "termed"}}
Causes == {"none", "completed", "stdin", "exit", "killed"}
\* relay: on its way to the bridge; open: in the #approvals of adapter `by`;
\* settled: decided; verdict: what the relay told the process.
Ask == [proc: Procs, turn: Turns, at: {"relay", "open", "settled"}, by: 0 .. MaxGens,
        verdict: {"none", "allow", "deny"}, operator: {"none", "allow", "deny"}]
Open(g) == {i \in DOMAIN asks : asks[i].at = "open" /\ asks[i].by = g}

\* Every variable has its type.
TypeOK ==
    /\ gen \in Gens /\ child \in 0 .. MaxProcs /\ stopping \in {"no", "waiting", "done"}
    /\ handler \in 0 .. MaxGens
    /\ status \in [Procs -> {"new", "alive", "termed", "gone"}]
    /\ owner \in [Procs -> 0 .. MaxGens] /\ todo \in [Procs -> Seq(Turns)]
    /\ turn \in 0 .. MaxTurns /\ phase \in [Turns -> {"new", "running", "ended"}]
    /\ endedBy \in [Turns -> Causes]
    /\ interrupts \subseteq Procs \X Turns /\ cancelled \subseteq Turns
    /\ unacked \subseteq Turns
    /\ asks \in Seq(Ask) /\ misread \subseteq Turns \X Turns \X BOOLEAN
    /\ (turn # 0 => phase[turn] = "running")
    /\ (child # 0 => status[child] \in {"alive", "termed"} /\ owner[child] = gen)

Init ==
    /\ gen = 1 /\ child = 0 /\ stopping = "no" /\ handler = 0
    /\ status = [p \in Procs |-> "new"] /\ owner = [p \in Procs |-> 0]
    /\ todo = [p \in Procs |-> <<>>]
    /\ turn = 0 /\ phase = [t \in Turns |-> "new"] /\ endedBy = [t \in Turns |-> "none"]
    /\ interrupts = {} /\ cancelled = {} /\ unacked = {} /\ asks = <<>> /\ misread = {}

-----------------------------------------------------------------------------
Attribute(t, p) ==
    misread' = IF turn \in {0, t} THEN misread ELSE misread \cup {<<turn, t, owner[p] # gen>>}

EndTurn(cause) ==
    /\ turn' = 0
    /\ phase' = IF turn = 0 THEN phase ELSE [phase EXCEPT ![turn] = "ended"]
    /\ endedBy' = IF turn = 0 THEN endedBy ELSE [endedBy EXCEPT ![turn] = cause]

\* #settleApproval, and the bridge's response to the relay: a process that is
\* gone has no relay to tell.
Settled(a, decision, operator) ==
    [a EXCEPT !.at = "settled",
              !.operator = IF operator THEN decision ELSE "none",
              !.verdict = IF status[a.proc] \in {"alive", "termed"} /\ a.verdict = "none"
                          THEN decision ELSE a.verdict]

\* sendTurn.  start() has no await of its own: without a child the handler is
\* registered and a process spawned in the same step.  Then the turn is written.
SendTurn ==
    /\ stopping = "no" /\ turn = 0 /\ Cardinality(Begun) < MaxTurns
    /\ LET t == Cardinality(Begun) + 1
           fresh == {p \in Procs : status[p] = "new"}
           p == IF child # 0 THEN child ELSE CHOOSE q \in fresh : \A r \in fresh : q <= r
       IN /\ child # 0 \/ fresh # {}
          /\ child' = p
          /\ handler' = IF child # 0 THEN handler ELSE gen
          /\ status' = IF child # 0 THEN status ELSE [status EXCEPT ![p] = "alive"]
          /\ owner' = [owner EXCEPT ![p] = gen]
          /\ todo' = [todo EXCEPT ![p] = Append(@, t)]
          /\ turn' = t /\ phase' = [phase EXCEPT ![t] = "running"]
    /\ UNCHANGED <<gen, stopping, endedBy, controlVars, asks, misread>>

\* stdin reports an error: the turn fails, the process is still there.
StdinError ==
    /\ child # 0 /\ turn # 0
    /\ EndTurn("stdin")
    /\ UNCHANGED <<adapterVars, handler, cliVars, controlVars, asks, misread>>

\* interrupt(): a control request to the process of the turn in flight (bound:
\* once a turn).
Interrupt ==
    /\ child # 0 /\ turn # 0 /\ stopping = "no" /\ turn \notin cancelled
    /\ interrupts' = interrupts \cup {<<child, turn>>}
    /\ cancelled' = cancelled \cup {turn}
    /\ UNCHANGED <<adapterVars, handler, cliVars, turnVars, unacked, asks, misread>>

InterruptAcknowledged ==
    /\ \E i \in interrupts : status[i[1]] \in {"alive", "termed"} /\ interrupts' = interrupts \ {i}
    /\ UNCHANGED <<adapterVars, handler, cliVars, turnVars, cancelled, unacked, asks, misread>>

\* No acknowledgement within the grace period: SIGTERM to that process,
\* whatever it does by now.
InterruptTimeout ==
    /\ \E i \in interrupts :
          /\ interrupts' = interrupts \ {i}
          /\ unacked' = unacked \cup {i[2]}
          /\ status' = IF status[i[1]] = "alive" THEN [status EXCEPT ![i[1]] = "termed"] ELSE status
    /\ UNCHANGED <<adapterVars, handler, owner, todo, turnVars, cancelled, asks, misread>>

\* 'close': the turn in flight fails, if this is the adapter's own process.
\* The relay of the process is gone with it, and nothing is left to interrupt.
Exit ==
    /\ \E p \in Live :
          /\ status' = [status EXCEPT ![p] = "gone"]
          /\ todo' = [todo EXCEPT ![p] = <<>>]
          /\ IF owner[p] = gen
             THEN /\ child' = 0
                  /\ EndTurn(IF status[p] = "termed" /\ stopping = "no" THEN "killed" ELSE "exit")
                  /\ stopping' = IF stopping = "waiting" THEN "done" ELSE stopping
             ELSE UNCHANGED <<child, turnVars, stopping>>
          /\ asks' = [i \in DOMAIN asks |->
                        IF asks[i].proc = p /\ asks[i].at = "relay"
                        THEN [asks[i] EXCEPT !.at = "settled"] ELSE asks[i]]
          /\ interrupts' = {i \in interrupts : i[1] # p}
    /\ UNCHANGED <<gen, handler, owner, cancelled, unacked, misread>>

\* stop(): unregister, deny what is open, close stdin.
Stop ==
    /\ stopping = "no"
    /\ handler' = 0
    /\ asks' = [i \in DOMAIN asks |-> IF i \in Open(gen) THEN Settled(asks[i], "deny", FALSE) ELSE asks[i]]
    /\ child' = 0
    /\ stopping' = IF child = 0 THEN "done" ELSE "waiting"
    /\ UNCHANGED <<gen, cliVars, turnVars, controlVars, misread>>

\* The process does not go within the grace period: SIGTERM, and stop() returns.
StopTimeout ==
    /\ stopping = "waiting" /\ stopping' = "done"
    /\ status' = [p \in Procs |-> IF status[p] = "alive" /\ owner[p] = gen THEN "termed" ELSE status[p]]
    /\ UNCHANGED <<gen, child, handler, owner, todo, turnVars, controlVars, asks, misread>>

\* The thread builds the worker's next adapter, after stop() returned and the
\* turn settled.
Replace ==
    /\ stopping = "done" /\ turn = 0 /\ gen < MaxGens
    /\ gen' = gen + 1 /\ child' = 0 /\ stopping' = "no"
    /\ UNCHANGED <<handler, cliVars, turnVars, controlVars, asks, misread>>

-----------------------------------------------------------------------------
(* Approvals. *)

\* The process calls a tool in the turn it is working on; its relay sends the
\* request over its connection.
CliAsks ==
    /\ Len(asks) < MaxAsks
    /\ \E p \in Live : /\ todo[p] # <<>>
                       /\ asks' = Append(asks, [proc |-> p, turn |-> Head(todo[p]), at |-> "relay",
                                                by |-> 0, verdict |-> "none", operator |-> "none"])
    /\ UNCHANGED <<adapterVars, handler, cliVars, turnVars, controlVars, misread>>

\* Mutant: without a handler the request is let through.
DispatchAllows ==
    /\ \E i \in DOMAIN asks :
          /\ asks[i].at = "relay"
          /\ IF handler = 0
             THEN /\ asks' = [asks EXCEPT ![i] = Settled(@, "allow", FALSE)]
                  /\ UNCHANGED misread
             ELSE /\ asks' = [asks EXCEPT ![i].at = "open", ![i].by = handler]
                  /\ Attribute(asks[i].turn, asks[i].proc)
    /\ UNCHANGED <<adapterVars, handler, cliVars, turnVars, controlVars>>

\* #dispatch: the handler registered now gets the request and shows it with its
\* turn in flight; without one it is denied.
Dispatch ==
    /\ \E i \in DOMAIN asks :
          /\ asks[i].at = "relay"
          /\ IF handler = 0
             THEN /\ asks' = [asks EXCEPT ![i] = Settled(@, "deny", FALSE)]
                  /\ UNCHANGED misread
             ELSE /\ asks' = [asks EXCEPT ![i].at = "open", ![i].by = handler]
                  /\ Attribute(asks[i].turn, asks[i].proc)
    /\ UNCHANGED <<adapterVars, handler, cliVars, turnVars, controlVars>>

\* resolveApproval: the operator answers what the adapter in use has open.
OperatorAnswers ==
    /\ \E i \in Open(gen), d \in {"allow", "deny"} : asks' = [asks EXCEPT ![i] = Settled(@, d, TRUE)]
    /\ UNCHANGED <<adapterVars, handler, cliVars, turnVars, controlVars, misread>>

\* The approval's timer denies it.
ApprovalTimeout ==
    /\ \E i \in DOMAIN asks : asks[i].at = "open" /\ asks' = [asks EXCEPT ![i] = Settled(@, "deny", FALSE)]
    /\ UNCHANGED <<adapterVars, handler, cliVars, turnVars, controlVars, misread>>

\* The relay loses its connection to the bridge or is turned away: it tells the
\* process no by itself.  A decision that comes
\* later reaches nobody.
RelayGivesUp ==
    /\ \E i \in DOMAIN asks :
          /\ asks[i].verdict = "none" /\ asks[i].proc \in Live
          /\ asks' = [asks EXCEPT ![i].verdict = "deny",
                                  ![i].at = IF @ = "relay" THEN "settled" ELSE @]
    /\ UNCHANGED <<adapterVars, handler, cliVars, turnVars, controlVars, misread>>

-----------------------------------------------------------------------------
\* The process finishes a turn: `result`.  Unless it was interrupted, it waits
\* for the verdict on a tool call first.  The adapter ends whatever turn is in
\* flight; a process of an earlier adapter speaks to that one.
OnResult ==
    /\ \E p \in Live :
          /\ todo[p] # <<>>
          /\ \/ Head(todo[p]) \in cancelled
             \/ \A i \in DOMAIN asks : asks[i].proc = p => asks[i].verdict # "none"
          /\ todo' = [todo EXCEPT ![p] = Tail(@)]
          /\ IF owner[p] = gen THEN Attribute(Head(todo[p]), p) /\ EndTurn("completed")
                               ELSE UNCHANGED <<misread, turnVars>>
    /\ UNCHANGED <<adapterVars, handler, status, owner, controlVars, asks>>

TermedExits == Exit /\ \E p \in Procs : status[p] = "termed" /\ status'[p] = "gone"

Next ==
    \/ SendTurn \/ StdinError \/ Interrupt \/ InterruptAcknowledged \/ Exit \/ Stop \/ Replace
    \/ InterruptTimeout \/ ApprovalTimeout \/ StopTimeout \/ CliAsks \/ Dispatch \/ OperatorAnswers \/ RelayGivesUp
    \/ OnResult

Spec == Init /\ [][Next]_vars

-----------------------------------------------------------------------------
(* Properties. *)

\* A result, or a tool call, is taken for another turn's only if that turn is a
\* later one, and its own turn was given up for a broken stdin, was interrupted
\* with the call on its way, or ended by another turn's result before, or when the
\* process outlived its adapter's grace period (claude.ts 245-251).
NothingMisread ==
    \A m \in misread :
       /\ m[2] < m[1]
       /\ \/ endedBy[m[2]] = "stdin" \/ m[2] \in cancelled \/ m[3]
          \/ \E q \in misread : q[1] = m[2]

\* A tool call goes ahead only if the operator allowed that very call, before
\* its timer, a stop or the loss of the bridge denied it (main.ts 226-236).
AllowedByOperator ==
    \A i \in DOMAIN asks : asks[i].verdict = "allow" => asks[i].operator = "allow"

\* A turn is killed only by its own interrupt, or by that of an earlier turn
\* which the process ended without acknowledging it.
KilledForInterrupt ==
    \A t \in Turns : endedBy[t] = "killed" => \E u \in unacked : u <= t

\* What became of an approval, as the contract has it: one that no adapter was
\* given never was one.
AskState(a) == IF a \in DOMAIN asks /\ asks[a].by # 0 THEN asks[a].at ELSE "none"

=============================================================================
