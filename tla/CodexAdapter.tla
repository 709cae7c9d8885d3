----------------------------- MODULE CodexAdapter -----------------------------
(***************************************************************************)
(* adapters/codex.ts: one adapter that drives `codex app-server` over      *)
(* JSON-RPC.  The process is started on demand and again after it exits; a *)
(* turn is asked for by a request, accepted by its response and ended by a *)
(* notification, or by the watchdog, after which the server may go on      *)
(* talking about a turn the adapter has given up.                          *)
(*                                                                         *)
(* The server is the environment.  It may name a turn or leave the name    *)
(* out, in every message.  What it writes is read in order, one message a  *)
(* step.  Continuations of an await run after the read that resolved them, *)
(* so "arm" and "refused" are steps of their own.                          *)
(***************************************************************************)
EXTENDS Integers, Sequences, FiniteSets

CONSTANTS
    MaxTurns,   \* bound: turns asked for
    MaxProcs,   \* bound: processes started
    MaxAsks,    \* bound: approvals the servers ask for
    MaxWire     \* bound: messages the server is ahead of the reader

VARIABLES
    proc,       \* the process whose output is read, 0 for none
    spawned,    \* processes started so far
    held,       \* #child, 0 for null
    ready,      \* #threadId is set
    resume,     \* the native session to resume: "none", "good", "stale"
    shake,      \* the await of #doStart: a request, "abandon", or "no"
    call,       \* the await of sendTurn, "idle" for no call
    turn,       \* #turnId, 0 when not #busy
    named,      \* #serverTurnId, 0 for null
    asked,      \* turn/start requests in #pending
    watched,    \* the deadline of the turn is armed
    abandoned,  \* #abandonedTurns
    unnamedLeft,\* #abandonedUnnamedTurn
    asks,       \* the approvals received, in order
    stopped,    \* stop() was called
    wire,       \* written by the server, not read yet
    inbox,      \* turns it was asked for and has not taken up
    unreplied,  \* turns it has taken up without answering turn/start
    running,    \* turns it is running
    rpcs,       \* approvals this process has asked for: they number its requests
    phase,      \* per turn: "new", "running", "ended"
    endedBy,    \* what ended it
    misread,    \* pairs of a turn and another turn whose news it was given
    answers     \* the responses written: to which process, under which number

procVars   == <<proc, spawned, held, ready, resume, shake>>
turnVars   == <<call, turn, named, asked, watched, phase, endedBy>>
leftVars   == <<abandoned, unnamedLeft>>
askVars    == <<asks, answers>>
serverVars == <<inbox, unreplied, running, rpcs>>
vars == <<procVars, turnVars, leftVars, askVars, stopped, wire, serverVars, misread>>

Turns   == 1 .. MaxTurns
Asks    == 1 .. MaxAsks
Begun   == {t \in Turns : phase[t] # "new"}
Open    == {i \in DOMAIN asks : asks[i].state = "open"}
Causes  == {"none", "completed", "refused", "unanswered", "watchdog", "stdin", "exit"}
Message == [kind: {"accepted", "refused", "started", "output", "ask", "completed"},
            turn: Turns, name: BOOLEAN, rpc: 0 .. MaxAsks]

\* Every variable has its type, a turn is in flight only in a call, and what
\* the adapter knows of it goes with it.
TypeOK ==
    /\ proc \in 0 .. MaxProcs /\ spawned \in 0 .. MaxProcs /\ held \in {0, proc}
    /\ ready \in BOOLEAN /\ resume \in {"none", "good", "stale"}
    /\ shake \in {"no", "initialize", "resume", "thread", "abandon"}
    /\ call \in {"idle", "start", "started", "accept", "arm", "refused", "wait"}
    /\ turn \in 0 .. MaxTurns /\ named \in 0 .. MaxTurns /\ asked \subseteq Turns
    /\ watched \in BOOLEAN /\ abandoned \subseteq Turns /\ unnamedLeft \in BOOLEAN
    /\ \A i \in DOMAIN asks :
          asks[i] \in [from: 1 .. MaxProcs, rpc: Asks, state: {"open", "settled"}]
    /\ stopped \in BOOLEAN /\ wire \in Seq(Message) /\ inbox \subseteq Turns
    /\ unreplied \subseteq Turns /\ running \subseteq Turns /\ rpcs \in 0 .. MaxAsks
    /\ phase \in [Turns -> {"new", "running", "ended"}] /\ endedBy \in [Turns -> Causes]
    /\ misread \subseteq Turns \X Turns
    /\ answers \subseteq [to: 1 .. MaxProcs, rpc: Asks, ask: Asks]
    /\ (turn # 0 => call \in {"accept", "arm", "refused", "wait"} /\ phase[turn] = "running")
    /\ (watched => turn # 0 /\ call = "wait")
    /\ (turn = 0 => named = 0)

Init ==
    /\ proc = 0 /\ spawned = 0 /\ held = 0 /\ ready = FALSE
    /\ resume \in {"good", "stale"}
    /\ shake = "no" /\ call = "idle" /\ turn = 0 /\ named = 0 /\ asked = {}
    /\ watched = FALSE /\ abandoned = {} /\ unnamedLeft = FALSE
    /\ asks = <<>> /\ stopped = FALSE /\ wire = <<>>
    /\ inbox = {} /\ unreplied = {} /\ running = {} /\ rpcs = 0
    /\ phase = [t \in Turns |-> "new"] /\ endedBy = [t \in Turns |-> "none"]
    /\ misread = {} /\ answers = {}

-----------------------------------------------------------------------------
(* Pieces of handlers. *)

\* #settleApproval of each of S: the entry goes, and the server that the
\* adapter holds now, whichever that is, is sent the response.
Settle(S) ==
    /\ asks' = [i \in DOMAIN asks |->
                  IF i \in S THEN [asks[i] EXCEPT !.state = "settled"] ELSE asks[i]]
    /\ answers' = IF held = 0 THEN answers
                  ELSE answers \cup {[to |-> held, rpc |-> asks[i].rpc, ask |-> i] : i \in S}

\* #failTurn and the way out of sendTurn: the deadline is cleared, and the
\* turn, if one is in flight, completes as an error.
EndTurn(cause) ==
    /\ watched' = FALSE /\ turn' = 0 /\ named' = 0
    /\ phase' = IF turn = 0 THEN phase ELSE [phase EXCEPT ![turn] = "ended"]
    /\ endedBy' = IF turn = 0 THEN endedBy ELSE [endedBy EXCEPT ![turn] = cause]

\* Mutant: the deadline outlives the turn it was armed for.
FailTurnKeepsDeadline(cause) ==
    /\ watched' = watched /\ turn' = 0 /\ named' = 0
    /\ phase' = IF turn = 0 THEN phase ELSE [phase EXCEPT ![turn] = "ended"]
    /\ endedBy' = IF turn = 0 THEN endedBy ELSE [endedBy EXCEPT ![turn] = cause]

FailTurn(cause) == EndTurn(cause)

\* Mutant: an unnamed message is taken for the turn in flight whatever else
\* may be talking.
OwnsAnyUnnamed(m) ==
    IF named # 0 /\ m.name THEN m.turn = named ELSE TRUE

\* #ownsActiveTurn: exact when both sides name a turn, otherwise only while
\* no abandoned turn can be talking.
Owns(m) ==
    IF named # 0 /\ m.name THEN m.turn = named
    ELSE abandoned = {} /\ ~unnamedLeft

\* What the adapter says of turn in flight, given the turn it is really about.
Attribute(m) ==
    misread' = IF turn \in {0, m.turn} THEN misread ELSE misread \cup {<<turn, m.turn>>}

-----------------------------------------------------------------------------
(* sendTurn and start. *)

\* The turn becomes the one in flight and turn/start is sent.
BeginTurn ==
    LET t == Cardinality(Begun) + 1 IN
    /\ turn' = t /\ named' = 0
    /\ phase' = [phase EXCEPT ![t] = "running"]
    /\ asked' = {t} /\ inbox' = inbox \cup {t} /\ call' = "accept"
    /\ UNCHANGED <<watched, endedBy>>

\* sendTurn with a process that is ready: start() returns at once.
SendTurn ==
    /\ call = "idle" /\ ~stopped /\ Cardinality(Begun) < MaxTurns
    /\ held # 0 /\ ready
    /\ BeginTurn
    /\ UNCHANGED <<procVars, leftVars, askVars, stopped, wire, unreplied, running, rpcs, misread>>

\* sendTurn without one: #doStart spawns it and sends initialize.
Spawn ==
    /\ call = "idle" /\ ~stopped /\ Cardinality(Begun) < MaxTurns
    /\ ~(held # 0 /\ ready) /\ proc = 0 /\ spawned < MaxProcs
    /\ spawned' = spawned + 1 /\ proc' = spawned + 1 /\ held' = spawned + 1
    /\ ready' = FALSE /\ shake' = "initialize" /\ call' = "start"
    /\ rpcs' = 0 /\ UNCHANGED <<wire, inbox, unreplied, running>>
    /\ UNCHANGED <<resume, turn, named, asked, watched, phase, endedBy, leftVars,
                   askVars, stopped, misread>>

\* A request of #handshake is answered.  A stale session cannot be resumed.
ShakeAnswered ==
    /\ shake \in {"initialize", "resume", "thread"} /\ proc # 0
    /\ shake = "initialize" => held # 0
    /\ shake = "resume" => resume = "good"
    /\ IF shake = "initialize"
       THEN /\ shake' = IF resume = "none" THEN "thread" ELSE "resume"
            /\ UNCHANGED <<ready, resume, call>>
       ELSE /\ shake' = "no" /\ ready' = TRUE /\ resume' = "good" /\ call' = "started"
    /\ UNCHANGED <<proc, spawned, held, turn, named, asked, watched, phase, endedBy,
                   leftVars, askVars, stopped, wire, serverVars, misread>>

\* It is refused, not answered in time, or cannot be written, the spawn fails
\* or the process exits.  A session that could not be resumed is forgotten.
ShakeFails ==
    /\ shake \in {"initialize", "resume", "thread"}
    /\ shake' = "abandon"
    /\ held' = 0 /\ ready' = FALSE /\ wire' = <<>>
    /\ resume' = IF shake = "resume" THEN "none" ELSE resume
    /\ UNCHANGED <<proc, spawned, turnVars, leftVars, askVars, stopped, serverVars, misread>>

\* abandon() has seen the process go, or has waited long enough; the start and
\* the call are rejected.
Abandoned ==
    /\ shake = "abandon"
    /\ shake' = "no" /\ proc' = 0 /\ call' = "idle"
    /\ UNCHANGED <<spawned, held, ready, resume, turn, named, asked, watched, phase,
                   endedBy, leftVars, askVars, stopped, wire, serverVars, misread>>

\* sendTurn goes on after start(): if stop() came first, it throws.
Started ==
    /\ call = "started"
    /\ IF held # 0 /\ ready THEN BeginTurn
       ELSE call' = "idle" /\ UNCHANGED <<turn, named, asked, watched, phase, endedBy, inbox>>
    /\ UNCHANGED <<procVars, leftVars, askVars, stopped, wire, unreplied, running, rpcs, misread>>

\* After the acceptance: the watchdog is armed if the turn is still in flight.
Arm ==
    /\ call = "arm"
    /\ watched' = (turn # 0)
    /\ call' = IF turn # 0 THEN "wait" ELSE "idle"
    /\ UNCHANGED <<procVars, turn, named, asked, phase, endedBy, leftVars, askVars,
                   stopped, wire, serverVars, misread>>

\* After the refusal: sendTurn's catch.
Refused ==
    /\ call = "refused"
    /\ FailTurn("refused") /\ call' = "idle"
    /\ UNCHANGED <<procVars, asked, leftVars, askVars, stopped, wire, serverVars, misread>>

\* turn/start was not answered in time.  The server may be running the turn.
RequestTimeout ==
    /\ call = "accept" /\ asked # {}
    /\ FailTurn("unanswered") /\ asked' = {} /\ call' = "idle"
    /\ UNCHANGED <<procVars, leftVars, askVars, stopped, wire, serverVars, misread>>

\* #timeOutTurn: the turn is remembered as abandoned, by its name if it has
\* one, its approvals are denied and it fails; the process stays.
TimeOutTurn ==
    /\ watched /\ turn # 0
    /\ abandoned' = IF named # 0 THEN abandoned \cup {named} ELSE abandoned
    /\ unnamedLeft' = (unnamedLeft \/ named = 0)
    /\ Settle(Open)
    /\ FailTurn("watchdog") /\ call' = "idle"
    /\ UNCHANGED <<procVars, asked, stopped, wire, serverVars, misread>>

\* stdin reports an error: every request is rejected and the turn fails; the
\* process is still there.
StdinError ==
    /\ held # 0 /\ shake = "no" /\ call \in {"accept", "wait"}
    /\ FailTurn("stdin") /\ asked' = {} /\ call' = "idle"
    /\ UNCHANGED <<procVars, leftVars, askVars, stopped, wire, serverVars, misread>>

\* 'close': the process is gone and all it wrote has been read.
Exit ==
    /\ proc # 0 /\ shake = "no" /\ wire = <<>> /\ call \notin {"arm", "refused"}
    /\ proc' = 0 /\ held' = 0 /\ ready' = FALSE
    /\ abandoned' = {} /\ unnamedLeft' = FALSE /\ asked' = {}
    /\ inbox' = {} /\ unreplied' = {} /\ running' = {}
    /\ FailTurn("exit") /\ call' = IF call = "started" THEN "started" ELSE "idle"
    /\ UNCHANGED <<spawned, resume, shake, askVars, stopped, wire, rpcs, misread>>

\* stop(): open approvals are denied while the process can still be told.
Stop ==
    /\ ~stopped
    /\ stopped' = TRUE
    /\ Settle(Open)
    /\ held' = 0 /\ ready' = FALSE
    /\ UNCHANGED <<proc, spawned, resume, shake, turnVars, leftVars, wire, serverVars, misread>>

\* The operator answers, or the approval's timer denies it.
ResolveApproval ==
    /\ \E i \in Open : Settle({i})
    /\ UNCHANGED <<procVars, turnVars, leftVars, stopped, wire, serverVars, misread>>

-----------------------------------------------------------------------------
(* Reading the server's output: #onMessage. *)

Reads(kind) == wire # <<>> /\ Head(wire).kind = kind /\ wire' = Tail(wire)

\* The response to turn/start, if somebody still waits for it.  Its name is
\* kept in the same step.
OnAccepted ==
    /\ Reads("accepted")
    /\ LET m == Head(wire) IN
       IF m.turn \in asked
       THEN /\ asked' = {} /\ call' = "arm"
            /\ named' = IF m.name /\ turn = m.turn THEN m.turn ELSE named
       ELSE UNCHANGED <<asked, call, named>>
    /\ UNCHANGED <<procVars, turn, watched, phase, endedBy, leftVars, askVars, stopped,
                   serverVars, misread>>

OnRefused ==
    /\ Reads("refused")
    /\ IF Head(wire).turn \in asked THEN asked' = {} /\ call' = "refused"
                                    ELSE UNCHANGED <<asked, call>>
    /\ UNCHANGED <<procVars, turn, named, watched, phase, endedBy, leftVars, askVars,
                   stopped, serverVars, misread>>

\* turn/started: the chance to learn the name of a turn in flight.
OnTurnStarted ==
    /\ Reads("started")
    /\ LET m == Head(wire) IN
       IF Owns(m) /\ turn # 0 /\ m.name
       THEN named' = m.turn /\ Attribute(m)
       ELSE UNCHANGED <<named, misread>>
    /\ UNCHANGED <<procVars, call, turn, asked, watched, phase, endedBy, leftVars,
                   askVars, stopped, serverVars>>

\* Items, deltas, plans and diffs go into the transcript of the turn in flight.
OnOutput ==
    /\ Reads("output")
    /\ IF Owns(Head(wire)) THEN Attribute(Head(wire)) ELSE UNCHANGED misread
    /\ UNCHANGED <<procVars, turnVars, leftVars, askVars, stopped, serverVars>>

\* turn/completed: ownership is read first, then the name is retired, then the
\* turn in flight ends.
OnTurnCompleted ==
    /\ Reads("completed")
    /\ LET m == Head(wire) IN
       /\ abandoned' = IF m.name THEN abandoned \ {m.turn} ELSE abandoned
       /\ IF Owns(m) /\ turn # 0
          THEN /\ Attribute(m) /\ EndTurn("completed")
               /\ call' = IF call = "wait" THEN "idle" ELSE call
          ELSE UNCHANGED <<misread, watched, turn, named, phase, endedBy, call>>
    /\ UNCHANGED <<procVars, asked, unnamedLeft, askVars, stopped, serverVars>>

\* An approval request: shown as the turn in flight's, or denied at once when it
\* is another's.
OnServerRequest ==
    /\ Reads("ask")
    /\ LET m == Head(wire)
           a == [from |-> proc, rpc |-> m.rpc, state |-> IF Owns(m) THEN "open" ELSE "settled"]
       IN /\ asks' = Append(asks, a)
          /\ answers' = IF Owns(m) \/ held = 0 THEN answers
                        ELSE answers \cup {[to |-> held, rpc |-> m.rpc, ask |-> Len(asks) + 1]}
          /\ IF Owns(m) THEN Attribute(m) ELSE UNCHANGED misread
    /\ UNCHANGED <<procVars, turnVars, leftVars, stopped, serverVars>>

-----------------------------------------------------------------------------
(* The server. *)

Says(kind, t, name, rpc) ==
    /\ proc # 0 /\ shake = "no" /\ Len(wire) < MaxWire
    /\ wire' = Append(wire, [kind |-> kind, turn |-> t, name |-> name, rpc |-> rpc])

\* The server takes a turn up, soon or late.
ServerTakes ==
    /\ proc # 0
    /\ \E t \in inbox : /\ inbox' = inbox \ {t}
                        /\ running' = running \cup {t}
                        /\ unreplied' = unreplied \cup {t}
    /\ UNCHANGED <<procVars, turnVars, leftVars, askVars, stopped, wire, rpcs, misread>>

\* It answers turn/start, with or without naming the turn, early, late or never.
ServerAccepts ==
    /\ \E t \in unreplied, name \in BOOLEAN : /\ Says("accepted", t, name, 0)
                                             /\ unreplied' = unreplied \ {t}
    /\ UNCHANGED <<procVars, turnVars, leftVars, askVars, stopped, inbox, running, rpcs, misread>>

ServerRefuses ==
    /\ \E t \in inbox : Says("refused", t, FALSE, 0) /\ inbox' = inbox \ {t}
    /\ UNCHANGED <<procVars, turnVars, leftVars, askVars, stopped, unreplied, running, rpcs, misread>>

ServerTalks ==
    /\ \E t \in running : \/ Says("started", t, TRUE, 0)
                          \/ \E name \in BOOLEAN : Says("output", t, name, 0)
    /\ UNCHANGED <<procVars, turnVars, leftVars, askVars, stopped, serverVars, misread>>

\* It asks for an approval.  Requests are numbered from 1 in each process.
ServerAsks ==
    /\ Len(asks) + Cardinality({i \in DOMAIN wire : wire[i].kind = "ask"}) < MaxAsks
    /\ \E t \in running, name \in BOOLEAN : Says("ask", t, name, rpcs + 1)
    /\ rpcs' = rpcs + 1
    /\ UNCHANGED <<procVars, turnVars, leftVars, askVars, stopped, inbox, unreplied, running, misread>>

ServerCompletes ==
    /\ \E t \in running, name \in BOOLEAN :
          Says("completed", t, name, 0) /\ running' = running \ {t}
    /\ UNCHANGED <<procVars, turnVars, leftVars, askVars, stopped, inbox, unreplied, rpcs, misread>>

-----------------------------------------------------------------------------
Timers == Arm \/ Refused \/ RequestTimeout \/ TimeOutTurn

Next ==
    \/ SendTurn \/ Spawn \/ ShakeAnswered \/ ShakeFails \/ Abandoned \/ Started
    \/ Timers \/ StdinError \/ Exit \/ Stop \/ ResolveApproval
    \/ OnAccepted \/ OnRefused \/ OnTurnStarted \/ OnOutput \/ OnTurnCompleted \/ OnServerRequest
    \/ ServerTakes \/ ServerAccepts \/ ServerRefuses \/ ServerTalks \/ ServerAsks \/ ServerCompletes

Spec == Init /\ [][Next]_vars

-----------------------------------------------------------------------------
(* Properties. *)

\* Nothing a turn on the server says or asks is taken for another turn's
\* (codex.ts 680-698), except for a later one's when the adapter let the turn go
\* without remembering it (turn/start unanswered, or a broken stdin), or took
\* another turn's news for this one's before: a mistake that goes on.
NothingMisread ==
    \A p \in misread :
       /\ p[2] < p[1]
       /\ endedBy[p[2]] \in {"unanswered", "stdin"} \/ \E q \in misread : q[1] = p[2]

\* No approval is answered twice, and none to another process than the one that
\* asked unless that one has exited.
AnswersReachAsker ==
    \A x \in answers :
       /\ x.to # asks[x.ask].from => asks[x.ask].from # proc
       /\ \A y \in answers : x.ask = y.ask => x = y

\* What became of an approval.
AskState(a) == IF a \in DOMAIN asks THEN asks[a].state ELSE "none"
=============================================================================
