---------------------------- MODULE AdaptersProofs ----------------------------
(***************************************************************************)
(* What the adapters promise, for any number of turns, processes, workers, *)
(* approvals and messages under way: the parts of the invariant of each    *)
(* vendor, how its steps keep them, and that each is a worker as           *)
(* WorkerContract has it.                                                  *)
(***************************************************************************)
EXTENDS Adapters, FiniteSetTheorems, WellFoundedInduction, TLAPS

-----------------------------------------------------------------------------
(* Turns, as Codex and Claude have them. *)

Turns  == 1 .. MaxTurns
Phases == {"new", "running", "ended"}
Begun  == {t \in Turns : phase[t] # "new"}

\* The turns that have begun are 1, 2, 3, ...
Numbered == \E k \in 0 .. MaxTurns : Begun = 1 .. k

\* The turn in flight is the latest, and the only one that runs.
TurnInFlight ==
    /\ turn \in 0 .. MaxTurns /\ phase \in [Turns -> Phases]
    /\ \A t \in Turns : phase[t] = "running" <=> t = turn
    /\ \A t \in Turns : phase[t] # "ended" => endedBy[t] = "none"
    /\ turn # 0 => \A t \in Begun : t <= turn
    /\ Numbered

\* What a step does with the turns: nothing, begin the next, or end the one in
\* flight.
KeepsTurns == UNCHANGED <<turn, phase, endedBy>>
BeginsTurn ==
    /\ turn = 0 /\ Cardinality(Begun) < MaxTurns
    /\ turn' = Cardinality(Begun) + 1
    /\ phase' = [phase EXCEPT ![Cardinality(Begun) + 1] = "running"]
    /\ UNCHANGED endedBy
EndsTurn(cause) ==
    /\ turn' = 0
    /\ phase' = IF turn = 0 THEN phase ELSE [phase EXCEPT ![turn] = "ended"]
    /\ endedBy' = IF turn = 0 THEN endedBy ELSE [endedBy EXCEPT ![turn] = cause]

\* The number that the next turn gets is the next one.
LEMMA NextNumber ==
    ASSUME Numbered, Cardinality(Begun) < MaxTurns
    PROVE  /\ Cardinality(Begun) + 1 \in Turns /\ Cardinality(Begun) \in 0 .. MaxTurns
           /\ Begun = 1 .. Cardinality(Begun)
  <1>0. MaxTurns \in Nat
    BY BoundsAssumption
  <1>1. PICK k \in 0 .. MaxTurns : Begun = 1 .. k
    BY DEF Numbered
  <1>2. k \in Nat /\ Cardinality(1 .. k) = k
    BY <1>0, <1>1, FS_Interval
  <1> QED BY <1>0, <1>1, <1>2 DEF Turns

\* A turn that begins is the latest.
LEMMA BeginKeepsTurns ==
    ASSUME TurnInFlight, BeginsTurn
    PROVE  /\ TurnInFlight' /\ turn' \notin Begun /\ turn' \in Turns
           /\ Begun' = Begun \cup {turn'} /\ Begun' = 1 .. turn'
  <1> DEFINE n == Cardinality(Begun)
  <1>0. MaxTurns \in Nat
    BY BoundsAssumption
  <1>1. n + 1 \in Turns /\ n \in 0 .. MaxTurns /\ Begun = 1 .. n
    BY NextNumber DEF TurnInFlight, BeginsTurn
  <1>2. turn = 0 /\ turn' = n + 1 /\ phase' = [phase EXCEPT ![n + 1] = "running"] /\ endedBy' = endedBy
    BY DEF BeginsTurn
  <1> HIDE DEF n
  <1>3. /\ phase \in [Turns -> Phases]
        /\ \A t \in Turns : phase[t] = "running" <=> t = turn
        /\ \A t \in Turns : phase[t] # "ended" => endedBy[t] = "none"
    BY DEF TurnInFlight
  <1>4. \A t \in Turns : phase'[t] = IF t = n + 1 THEN "running" ELSE phase[t]
    BY <1>1, <1>2, <1>3
  <1>5. phase' \in [Turns -> Phases]
    BY <1>1, <1>2, <1>3 DEF Phases
  <1>6. Begun' = Begun \cup {n + 1}
    BY <1>1, <1>4 DEF Begun
  <1>7. Begun' = 1 .. n + 1 /\ n + 1 \notin Begun
    BY <1>0, <1>1, <1>6
  <1>8. Numbered'
    BY <1>0, <1>1, <1>7 DEF Numbered, Turns
  <1>9. \A t \in Turns : phase'[t] = "running" <=> t = turn'
    BY <1>0, <1>1, <1>2, <1>3, <1>4 DEF Turns
  <1>10. \A t \in Turns : phase'[t] # "ended" => endedBy'[t] = "none"
    BY <1>1, <1>2, <1>3, <1>4, <1>7 DEF Begun
  <1>11. \A t \in Begun' : t <= turn'
    BY <1>0, <1>1, <1>2, <1>7
  <1> QED BY <1>0, <1>1, <1>2, <1>5, <1>6, <1>7, <1>8, <1>9, <1>10, <1>11 DEF TurnInFlight, Turns

\* A turn that ends leaves none in flight.
LEMMA EndKeepsTurns ==
    ASSUME TurnInFlight, NEW cause, EndsTurn(cause)
    PROVE  TurnInFlight' /\ Begun' = Begun /\ \A u \in Turns : u # turn => endedBy'[u] = endedBy[u]
  <1>0. MaxTurns \in Nat /\ 0 \notin Turns
    BY BoundsAssumption DEF Turns
  <1>1. CASE turn = 0
    BY <1>0, <1>1 DEF TurnInFlight, EndsTurn, Begun, Numbered
  <1>2. CASE turn # 0
    <2>1. turn \in Turns /\ phase[turn] = "running" /\ phase \in [Turns -> Phases]
      BY <1>0, <1>2 DEF TurnInFlight, Turns
    <2>2. turn' = 0 /\ phase' = [phase EXCEPT ![turn] = "ended"] /\ endedBy' = [endedBy EXCEPT ![turn] = cause]
      BY <1>2 DEF EndsTurn
    <2>3. /\ \A t \in Turns : phase'[t] = IF t = turn THEN "ended" ELSE phase[t]
          /\ phase' \in [Turns -> Phases]
      BY <2>1, <2>2 DEF Phases
    <2>4. \A t \in Turns : t # turn => endedBy'[t] = endedBy[t]
      BY <2>2
    <2>5. Begun' = Begun
      BY <2>1, <2>3 DEF Begun
    <2>6. \A t \in Turns : phase'[t] = "running" <=> t = turn'
      BY <1>0, <2>2, <2>3 DEF TurnInFlight
    <2>7. \A t \in Turns : phase'[t] # "ended" => endedBy'[t] = "none"
      BY <2>3, <2>4 DEF TurnInFlight
    <2>8. Numbered'
      BY <2>5 DEF Numbered, TurnInFlight
    <2> QED BY <1>0, <2>2, <2>3, <2>4, <2>5, <2>6, <2>7, <2>8 DEF TurnInFlight
  <1> QED BY <1>1, <1>2

\* A step that leaves the turns alone leaves them as they are.
LEMMA KeepKeepsTurns ==
    ASSUME TurnInFlight, KeepsTurns
    PROVE  TurnInFlight' /\ Begun' = Begun
  BY DEF TurnInFlight, KeepsTurns, Begun, Numbered

-----------------------------------------------------------------------------
(* Codex: the parts of the invariant. *)

\* What the server says from within a turn.
News == {"started", "output", "ask", "completed"}

\* The adapter let turn u go without remembering it, or took news of another
\* turn for its own.
Misled(u) == \E q \in misread : q[1] = u
CodexExcused(u) == endedBy[u] \in {"unanswered", "stdin"} \/ Misled(u)

\* The server has nothing to say of turn u from the i-th message on, or at all.
SilentFrom(u, i) == \A j \in i .. Len(wire) : ~(wire[j].turn = u /\ wire[j].kind \in News)
Silent(u) == u \notin inbox /\ u \notin running /\ SilentFrom(u, 1)

\* Turns have their types, and the ends Codex knows.
CodexTurns == TurnInFlight /\ endedBy \in [Turns -> Codex!Causes]

\* The process and what the adapter knows of it.
CodexProcess ==
    /\ proc \in 0 .. MaxProcs /\ spawned \in 0 .. MaxProcs /\ proc <= spawned
    /\ held \in {0, proc} /\ ready \in BOOLEAN /\ resume \in {"none", "good", "stale"}
    /\ shake \in {"no", "initialize", "resume", "thread", "abandon"}
    /\ stopped \in BOOLEAN
    /\ shake # "no" => call = "start"
    /\ shake = "abandon" => held = 0

\* A turn in flight belongs to a call, and so does the request it waits for.
CodexCall ==
    /\ call \in {"idle", "start", "started", "accept", "arm", "refused", "wait"}
    /\ named \in 0 .. MaxTurns /\ asked \subseteq Turns /\ watched \in BOOLEAN
    /\ abandoned \subseteq Turns /\ unnamedLeft \in BOOLEAN
    /\ turn # 0 => call \in {"accept", "arm", "refused", "wait"}
    /\ watched => turn # 0 /\ call = "wait"
    /\ turn = 0 => named = 0
    /\ asked # {} => call = "accept"
    /\ turn # 0 => asked \subseteq {turn}

\* A call that waits for a process still has a turn to begin.
CodexRoom == call \in {"start", "started"} => Cardinality(Begun) < MaxTurns

\* Without a process, or before it has answered, nothing is on its way.
CodexQuiet ==
    proc = 0 \/ shake # "no" => wire = <<>> /\ inbox = {} /\ running = {} /\ unreplied = {}

\* The number that a turn is known by is its own, or a message that gave it
\* another one was taken for the turn's.
CodexNamed == named # 0 => named = turn \/ <<turn, named>> \in misread

\* The server runs what it was asked for, and has no more to say of a turn that
\* it refused or completed.
MessageOK(i) ==
    /\ wire[i].turn \in Begun
    /\ wire[i].kind \in News => wire[i].turn \notin inbox
    /\ wire[i].kind = "refused" => Silent(wire[i].turn)
    /\ wire[i].kind = "completed" => wire[i].turn \notin running /\ SilentFrom(wire[i].turn, i + 1)

CodexServer ==
    /\ wire \in Seq(Codex!Message)
    /\ inbox \subseteq Begun /\ running \subseteq Begun /\ unreplied \subseteq Begun
    /\ inbox \cap running = {}
    /\ \A i \in 1 .. Len(wire) : MessageOK(i)

\* A refused turn in flight is one the server has nothing more to say of.
CodexRefused == call = "refused" /\ turn # 0 => Silent(turn)

\* Whatever the server has still to say is about the turn in flight, or about one
\* that the adapter has reason to remember.
CodexRemembered ==
    \A u \in Turns : ~Silent(u) => u = turn \/ CodexExcused(u) \/ u \in abandoned \/ unnamedLeft

MisreadType == misread \subseteq Turns \X Turns

\* The approvals on their way and those that were received are within the bound.
Coming == {i \in 1 .. Len(wire) : wire[i].kind = "ask"}
CodexBound ==
    /\ rpcs \in Nat /\ rpcs <= Len(asks) + Cardinality(Coming)
    /\ Len(asks) + Cardinality(Coming) <= MaxAsks
    /\ \A i \in Coming : wire[i].rpc # 0

CodexAsks ==
    /\ asks \in Seq([from : 1 .. MaxProcs, rpc : 1 .. MaxAsks, state : {"open", "settled"}])
    /\ \A i \in 1 .. Len(asks) : asks[i].from <= spawned

\* An approval that was answered is settled.
CodexAnswers ==
    /\ answers \subseteq [to : 1 .. MaxProcs, rpc : 1 .. MaxAsks, ask : 1 .. MaxAsks]
    /\ \A x \in answers : x.ask \in 1 .. Len(asks) /\ asks[x.ask].state = "settled"

CodexInv ==
    /\ CodexTurns /\ CodexProcess /\ CodexCall /\ CodexRoom /\ CodexQuiet /\ CodexNamed
    /\ CodexServer /\ CodexRefused /\ CodexRemembered
    /\ MisreadType /\ Codex!NothingMisread
    /\ CodexBound /\ CodexAsks /\ CodexAnswers /\ Codex!AnswersReachAsker

-----------------------------------------------------------------------------
(* Codex: what a step does with the turns. *)

USE DEF Codex!procVars, Codex!turnVars, Codex!leftVars, Codex!askVars, Codex!serverVars

LEMMA CodexNames ==
    /\ Codex!Turns = Turns /\ Codex!Begun = Begun
    /\ Codex!Cardinality(Codex!Begun) = Cardinality(Begun)
  <1>1. Codex!Turns = Turns /\ Codex!Begun = Begun
    BY DEF Codex!Turns, Codex!Begun, Turns, Begun
  <1>2. \A S : Codex!Cardinality(S) = Cardinality(S)
    BY DEF Codex!Cardinality, Cardinality
  <1> QED BY <1>1, <1>2

\* sendTurn begins a turn, or finds after start() that stop() came first.
sendElse == <<proc, spawned, held, ready, resume, shake, abandoned, unnamedLeft, asks, answers, stopped,
              wire, unreplied, running, rpcs, misread>>
CodexBegins ==
    /\ BeginsTurn
    /\ named' = 0 /\ call' = "accept" /\ asked' = {turn'} /\ watched' = watched
    /\ inbox' = inbox \cup {turn'} /\ proc # 0 /\ shake = "no"
    /\ UNCHANGED sendElse
CodexDeclines ==
    /\ KeepsTurns /\ call = "started" /\ call' = "idle"
    /\ UNCHANGED <<named, asked, watched, inbox>> /\ UNCHANGED sendElse

LEMMA CodexSends ==
    ASSUME CodexProcess, CodexCall, CodexRoom, Codex!SendTurn \/ Codex!Started
    PROVE  CodexBegins \/ CodexDeclines
  <1>0. turn = 0 /\ call \in {"idle", "started"} /\ shake = "no"
    BY DEF Codex!SendTurn, Codex!Started, CodexCall, CodexProcess
  <1>1. UNCHANGED sendElse
    BY DEF Codex!SendTurn, Codex!Started, sendElse
  <1>2. CASE held # 0 /\ ready
    <2>1. Cardinality(Begun) < MaxTurns /\ Codex!BeginTurn
      BY <1>2, CodexNames DEF Codex!SendTurn, Codex!Started, CodexRoom
    <2>2. BeginsTurn
      BY <1>0, <2>1, CodexNames DEF Codex!BeginTurn, BeginsTurn
    <2>3. /\ named' = 0 /\ call' = "accept" /\ asked' = {turn'} /\ watched' = watched
          /\ inbox' = inbox \cup {turn'}
      BY <2>1 DEF Codex!BeginTurn
    <2>4. proc # 0
      BY <1>2 DEF CodexProcess
    <2> QED BY <1>0, <1>1, <2>2, <2>3, <2>4 DEF CodexBegins
  <1>3. CASE ~(held # 0 /\ ready)
    <2>1. Codex!Started
      BY <1>3 DEF Codex!SendTurn
    <2>2. KeepsTurns /\ call = "started" /\ call' = "idle" /\ UNCHANGED <<named, asked, watched, inbox>>
      BY <1>3, <2>1 DEF Codex!Started, KeepsTurns
    <2> QED BY <1>1, <2>2 DEF CodexDeclines
  <1> QED BY <1>2, <1>3

\* Every other step keeps the turns or ends the one in flight.
CodexElse ==
    \/ Codex!Spawn \/ Codex!ShakeAnswered \/ Codex!ShakeFails \/ Codex!Abandoned
    \/ Codex!Timers \/ Codex!StdinError \/ Codex!Exit \/ Codex!Stop \/ Codex!ResolveApproval
    \/ Codex!OnAccepted \/ Codex!OnRefused \/ Codex!OnTurnStarted \/ Codex!OnOutput
    \/ Codex!OnTurnCompleted \/ Codex!OnServerRequest
    \/ Codex!ServerTakes \/ Codex!ServerAccepts \/ Codex!ServerRefuses \/ Codex!ServerTalks
    \/ Codex!ServerAsks \/ Codex!ServerCompletes

LEMMA CodexSteps ==
    ASSUME CodexProcess, CodexCall, CodexRoom, Codex!Next
    PROVE  CodexBegins \/ CodexDeclines \/ CodexElse
  BY CodexSends DEF Codex!Next, CodexElse

LEMMA CodexTurnSteps ==
    ASSUME CodexElse
    PROVE  KeepsTurns \/ \E c \in Codex!Causes \ {"none"} : EndsTurn(c)
  <1> DEFINE Ended == \E c \in Codex!Causes \ {"none"} : EndsTurn(c)
  <1>3. CASE Codex!Spawn \/ Codex!ShakeAnswered \/ Codex!ShakeFails \/ Codex!Abandoned \/ Codex!Stop
    BY <1>3 DEF Codex!Spawn, Codex!ShakeAnswered, Codex!ShakeFails, Codex!Abandoned, Codex!Stop, KeepsTurns
  <1>4. CASE Codex!Timers
    BY <1>4 DEF Codex!Timers, Codex!Arm, Codex!Refused, Codex!RequestTimeout, Codex!TimeOutTurn,
                Codex!FailTurn, Codex!EndTurn, Codex!Causes, KeepsTurns, EndsTurn
  <1>5. CASE Codex!StdinError \/ Codex!Exit
    BY <1>5 DEF Codex!StdinError, Codex!Exit, Codex!FailTurn, Codex!EndTurn, Codex!Causes, EndsTurn
  <1>6. CASE Codex!OnTurnCompleted
    BY <1>6 DEF Codex!OnTurnCompleted, Codex!EndTurn, Codex!Causes, KeepsTurns, EndsTurn
  <1>7. CASE Codex!ResolveApproval \/ Codex!OnAccepted \/ Codex!OnRefused \/ Codex!OnTurnStarted
             \/ Codex!OnOutput \/ Codex!OnServerRequest
    BY <1>7 DEF Codex!ResolveApproval, Codex!OnAccepted, Codex!OnRefused, Codex!OnTurnStarted,
                Codex!OnOutput, Codex!OnServerRequest, KeepsTurns
  <1>8. CASE Codex!ServerTakes \/ Codex!ServerAccepts \/ Codex!ServerRefuses \/ Codex!ServerTalks
             \/ Codex!ServerAsks \/ Codex!ServerCompletes
    BY <1>8 DEF Codex!ServerTakes, Codex!ServerAccepts, Codex!ServerRefuses, Codex!ServerTalks,
                Codex!ServerAsks, Codex!ServerCompletes, KeepsTurns
  <1> QED BY <1>3, <1>4, <1>5, <1>6, <1>7, <1>8 DEF CodexElse

\* Turns stay numbered, the latest in flight; none is ended again.
LEMMA CodexTurnsKept ==
    ASSUME CodexTurns, CodexProcess, CodexCall, CodexRoom, Codex!Next
    PROVE  CodexTurns' /\ Begun \subseteq Begun'
  <1>1. CASE KeepsTurns
    <2>1. TurnInFlight' /\ Begun' = Begun
      BY <1>1, KeepKeepsTurns DEF CodexTurns
    <2> QED BY <1>1, <2>1 DEF CodexTurns, KeepsTurns
  <1>2. CASE BeginsTurn
    <2>2. TurnInFlight' /\ Begun \subseteq Begun'
      BY <1>2, BeginKeepsTurns DEF CodexTurns
    <2>3. endedBy' = endedBy
      BY <1>2 DEF BeginsTurn
    <2> QED BY <2>2, <2>3 DEF CodexTurns
  <1>3. CASE \E c \in Codex!Causes \ {"none"} : EndsTurn(c)
    <2>1. PICK c \in Codex!Causes : EndsTurn(c)
      BY <1>3
    <2>2. TurnInFlight' /\ Begun' = Begun
      BY <2>1, EndKeepsTurns DEF CodexTurns
    <2>3. endedBy' \in [Turns -> Codex!Causes]
      BY <2>1 DEF CodexTurns, EndsTurn
    <2> QED BY <2>2, <2>3 DEF CodexTurns
  <1> QED BY <1>1, <1>2, <1>3, CodexSteps, CodexTurnSteps DEF CodexBegins, CodexDeclines

-----------------------------------------------------------------------------
(* Codex: the process and the call. *)

LEMMA CodexProcessKept ==
    ASSUME CodexProcess, CodexCall, CodexRoom, Codex!Next
    PROVE  CodexProcess'
  <1>0. MaxProcs \in Nat
    BY BoundsAssumption
  <1> USE <1>0 DEF CodexProcess, CodexCall
  <1>1. CASE CodexBegins \/ CodexDeclines
    BY <1>1 DEF CodexBegins, CodexDeclines, sendElse
  <1>2. CASE Codex!Spawn
    <2>1. /\ spawned < MaxProcs /\ spawned' = spawned + 1 /\ proc' = spawned + 1 /\ held' = spawned + 1
          /\ ready' = FALSE /\ shake' = "initialize" /\ call' = "start"
          /\ resume' = resume /\ stopped' = stopped
      BY <1>2 DEF Codex!Spawn
    <2>2. proc' \in 0 .. MaxProcs /\ spawned' \in 0 .. MaxProcs /\ proc' <= spawned'
      BY <2>1
    <2>3. held' \in {0, proc'} /\ ready' \in BOOLEAN /\ resume' \in {"none", "good", "stale"}
      BY <2>1
    <2>4. shake' \in {"no", "initialize", "resume", "thread", "abandon"}
      BY <2>1
    <2>5. stopped' \in BOOLEAN
      BY <2>1
    <2>6. shake' # "no" => call' = "start"
      BY <2>1
    <2>7. shake' = "abandon" => held' = 0
      BY <2>1
    <2> QED BY <2>2, <2>3, <2>4, <2>5, <2>6, <2>7
  <1>31. CASE Codex!ShakeAnswered
    BY <1>31 DEF Codex!ShakeAnswered
  <1>32. CASE Codex!ShakeFails
    BY <1>32 DEF Codex!ShakeFails
  <1>33. CASE Codex!Abandoned
    BY <1>33 DEF Codex!Abandoned
  <1>34. CASE Codex!Stop
    BY <1>34 DEF Codex!Stop
  <1>4. CASE Codex!Timers
    BY <1>4 DEF Codex!Timers, Codex!Arm, Codex!Refused, Codex!RequestTimeout, Codex!TimeOutTurn
  <1>51. CASE Codex!StdinError
    BY <1>51 DEF Codex!StdinError
  <1>52. CASE Codex!Exit
    <2>1. /\ shake = "no" /\ proc' = 0 /\ held' = 0 /\ ready' = FALSE
          /\ UNCHANGED <<spawned, resume, shake, stopped>>
      BY <1>52 DEF Codex!Exit
    <2>2. proc' \in 0 .. MaxProcs /\ held' \in {0, proc'} /\ proc' <= spawned'
      BY <2>1
    <2> QED BY <2>1, <2>2
  <1>6. CASE Codex!OnTurnCompleted \/ Codex!OnAccepted \/ Codex!OnRefused
    BY <1>6 DEF Codex!OnTurnCompleted, Codex!OnAccepted, Codex!OnRefused
  <1>7. CASE Codex!ResolveApproval \/ Codex!OnTurnStarted \/ Codex!OnOutput \/ Codex!OnServerRequest
    BY <1>7 DEF Codex!ResolveApproval, Codex!OnTurnStarted, Codex!OnOutput, Codex!OnServerRequest
  <1>8. CASE Codex!ServerTakes \/ Codex!ServerAccepts \/ Codex!ServerRefuses \/ Codex!ServerTalks
             \/ Codex!ServerAsks \/ Codex!ServerCompletes
    <2>1. UNCHANGED <<proc, spawned, held, ready, resume, shake, call, stopped>>
      <3>1. CASE Codex!ServerTakes \/ Codex!ServerAccepts \/ Codex!ServerRefuses
        BY <3>1 DEF Codex!ServerTakes, Codex!ServerAccepts, Codex!ServerRefuses
      <3>2. CASE Codex!ServerTalks \/ Codex!ServerAsks \/ Codex!ServerCompletes
        BY <3>2 DEF Codex!ServerTalks, Codex!ServerAsks, Codex!ServerCompletes
      <3> QED BY <1>8, <3>1, <3>2
    <2> QED BY <2>1
  <1> QED BY <1>1, <1>2, <1>31, <1>32, <1>33, <1>34, <1>4, <1>51, <1>52, <1>6, <1>7, <1>8, CodexSteps
          DEF CodexElse

\* The message that is read is the first, and the others follow.
LEMMA CodexHead ==
    ASSUME CodexServer, wire # <<>>
    PROVE  /\ Head(wire) = wire[1] /\ wire[1] \in Codex!Message /\ wire[1].turn \in Turns
           /\ Len(wire) \in Nat /\ Len(wire) >= 1 /\ MessageOK(1)
           /\ Tail(wire) \in Seq(Codex!Message) /\ Len(Tail(wire)) = Len(wire) - 1
           /\ \A i \in 1 .. Len(wire) - 1 : Tail(wire)[i] = wire[i + 1]
  <1>1. wire \in Seq(Codex!Message) /\ Len(wire) \in Nat
    BY DEF CodexServer
  <1>2. Len(wire) >= 1 /\ 1 \in 1 .. Len(wire)
    BY <1>1
  <1>3. wire[1] \in Codex!Message /\ Head(wire) = wire[1]
    BY <1>1, <1>2
  <1>4. wire[1].turn \in Turns
    BY <1>3, CodexNames DEF Codex!Message
  <1>5. MessageOK(1)
    BY <1>2 DEF CodexServer
  <1> QED BY <1>1, <1>2, <1>3, <1>4, <1>5

callVars == <<call, turn, named, asked, watched, abandoned, unnamedLeft>>

LEMMA CodexCallSame ==
    ASSUME CodexCall, UNCHANGED callVars
    PROVE  CodexCall'
  BY DEF CodexCall, callVars

LEMMA CodexCallKept ==
    ASSUME CodexTurns, CodexProcess, CodexCall, CodexRoom, CodexServer, Codex!Next
    PROVE  CodexCall'
  <1>0. MaxTurns \in Nat /\ 0 \notin Turns /\ 0 \in 0 .. MaxTurns /\ Turns \subseteq 0 .. MaxTurns
    BY BoundsAssumption DEF Turns
  <1> USE <1>0 DEF CodexCall
  <1>1. CASE CodexBegins
    <2>1. turn' \in Turns
      BY <1>1, NextNumber DEF CodexBegins, BeginsTurn, CodexTurns, TurnInFlight
    <2> QED BY <1>1, <2>1 DEF CodexBegins, BeginsTurn, sendElse
  <1>2. CASE CodexDeclines
    BY <1>2 DEF CodexDeclines, KeepsTurns, sendElse
  <1>3. CASE Codex!Spawn
    BY <1>3 DEF Codex!Spawn
  <1>4. CASE Codex!ShakeAnswered
    BY <1>4 DEF Codex!ShakeAnswered, CodexProcess
  <1>5. CASE Codex!ShakeFails \/ Codex!Stop
    <2>1. UNCHANGED callVars
      BY <1>5 DEF Codex!ShakeFails, Codex!Stop, callVars
    <2> QED BY <2>1, CodexCallSame
  <1>6. CASE Codex!Abandoned
    BY <1>6 DEF Codex!Abandoned, CodexProcess
  <1>7. CASE Codex!Arm
    BY <1>7 DEF Codex!Arm
  <1>8. CASE Codex!Refused \/ Codex!RequestTimeout \/ Codex!StdinError \/ Codex!Exit
    <2>1. /\ turn' = 0 /\ named' = 0 /\ watched' = FALSE /\ (call' = "idle" \/ call' = "started") /\ asked' = {}
      BY <1>8 DEF Codex!Refused, Codex!RequestTimeout, Codex!StdinError, Codex!Exit, Codex!FailTurn, Codex!EndTurn
    <2>2. abandoned' \subseteq Turns /\ unnamedLeft' \in BOOLEAN
      BY <1>8 DEF Codex!Refused, Codex!RequestTimeout, Codex!StdinError, Codex!Exit
    <2> QED BY <2>1, <2>2
  <1>9. CASE Codex!TimeOutTurn
    <2>1. turn' = 0 /\ named' = 0 /\ watched' = FALSE /\ call' = "idle" /\ asked' = {}
      BY <1>9 DEF Codex!TimeOutTurn, Codex!FailTurn, Codex!EndTurn
    <2>2. abandoned' \subseteq Turns
      BY <1>9 DEF Codex!TimeOutTurn, Turns
    <2>3. unnamedLeft' = (unnamedLeft \/ named = 0)
      BY <1>9 DEF Codex!TimeOutTurn
    <2> QED BY <2>1, <2>2, <2>3
  <1>10. CASE Codex!OnAccepted
    <2>1. turn' = turn /\ watched' = watched /\ abandoned' = abandoned /\ unnamedLeft' = unnamedLeft
      BY <1>10 DEF Codex!OnAccepted
    <2>2. CASE Head(wire).turn \in asked
      <3>1. /\ asked' = {} /\ call' = "arm" /\ call = "accept"
            /\ named' = IF Head(wire).name /\ turn = Head(wire).turn THEN Head(wire).turn ELSE named
        BY <1>10, <2>2 DEF Codex!OnAccepted
      <3>2. named' \in 0 .. MaxTurns /\ (turn' = 0 => named' = 0)
        BY <2>1, <2>2, <3>1
      <3> QED BY <2>1, <3>1, <3>2
    <2>3. CASE Head(wire).turn \notin asked
      <3>1. UNCHANGED callVars
        BY <1>10, <2>1, <2>3 DEF Codex!OnAccepted, callVars
      <3> QED BY <3>1, CodexCallSame
    <2> QED BY <2>2, <2>3
  <1>11. CASE Codex!OnRefused
    BY <1>11 DEF Codex!OnRefused
  <1>12. CASE Codex!OnTurnStarted
    <2>1. Head(wire).turn \in Turns
      BY <1>12, CodexHead DEF Codex!OnTurnStarted, Codex!Reads
    <2>2. UNCHANGED <<turn, call, asked, watched, abandoned, unnamedLeft>>
      BY <1>12 DEF Codex!OnTurnStarted
    <2>3. named' = named \/ (turn # 0 /\ named' = Head(wire).turn)
      BY <1>12 DEF Codex!OnTurnStarted
    <2> QED BY <2>1, <2>2, <2>3
  <1>13. CASE Codex!OnTurnCompleted
    <2>1. asked' = asked /\ unnamedLeft' = unnamedLeft /\ abandoned' \subseteq Turns
      BY <1>13 DEF Codex!OnTurnCompleted
    <2>2. CASE UNCHANGED <<watched, turn, named, call>>
      BY <2>1, <2>2
    <2>3. CASE turn' = 0 /\ named' = 0 /\ watched' = FALSE /\ call' = IF call = "wait" THEN "idle" ELSE call
      BY <2>1, <2>3
    <2> QED BY <1>13, <2>2, <2>3 DEF Codex!OnTurnCompleted, Codex!EndTurn
  <1>14. CASE Codex!OnOutput \/ Codex!OnServerRequest \/ Codex!ResolveApproval
    <2>1. UNCHANGED callVars
      BY <1>14 DEF Codex!OnOutput, Codex!OnServerRequest, Codex!ResolveApproval, callVars
    <2> QED BY <2>1, CodexCallSame
  <1>15. CASE Codex!ServerTakes \/ Codex!ServerAccepts \/ Codex!ServerRefuses \/ Codex!ServerTalks
             \/ Codex!ServerAsks \/ Codex!ServerCompletes
    <2>1. UNCHANGED callVars
      BY <1>15 DEF Codex!ServerTakes, Codex!ServerAccepts, Codex!ServerRefuses, Codex!ServerTalks,
                   Codex!ServerAsks, Codex!ServerCompletes, callVars
    <2> QED BY <2>1, CodexCallSame
  <1> QED BY <1>1, <1>2, <1>3, <1>4, <1>5, <1>6, <1>7, <1>8, <1>9, <1>10, <1>11, <1>12, <1>13, <1>14, <1>15, CodexSteps
          DEF CodexElse, Codex!Timers

\* What a step that is not sendTurn's does to the call.
LEMMA CodexRoomKept ==
    ASSUME CodexTurns, CodexProcess, CodexCall, CodexRoom, Codex!Next
    PROVE  CodexRoom'
  <1>1. CASE CodexBegins \/ CodexDeclines
    BY <1>1 DEF CodexBegins, CodexDeclines, CodexRoom
  <1>2. CASE CodexElse
    <2>1. Begun' = Begun
      BY <1>2, CodexTurnSteps, EndKeepsTurns, KeepKeepsTurns DEF CodexTurns
    <2>2. CASE Codex!Spawn
      BY <2>1, <2>2, CodexNames DEF Codex!Spawn, CodexRoom
    <2>3. CASE call' \notin {"start", "started"} \/ call \in {"start", "started"}
      BY <2>1, <2>3 DEF CodexRoom
    <2>4. CASE ~Codex!Spawn
      <3>1. CASE Codex!ShakeAnswered \/ Codex!ShakeFails \/ Codex!Abandoned \/ Codex!Stop
        <4>1. call' = call \/ call' \notin {"start", "started"} \/ call = "start"
          BY <3>1 DEF Codex!ShakeAnswered, Codex!ShakeFails, Codex!Abandoned, Codex!Stop, CodexProcess
        <4> QED BY <2>3, <4>1
      <3>2. CASE Codex!Timers \/ Codex!StdinError \/ Codex!Exit
        <4>1. call' = call \/ call' \notin {"start", "started"}
          BY <3>2 DEF Codex!Timers, Codex!Arm, Codex!Refused, Codex!RequestTimeout, Codex!TimeOutTurn,
                      Codex!StdinError, Codex!Exit
        <4> QED BY <2>3, <4>1
      <3>3. CASE Codex!OnAccepted \/ Codex!OnRefused \/ Codex!OnTurnCompleted
        <4>1. call' = call \/ call' \notin {"start", "started"}
          BY <3>3 DEF Codex!OnAccepted, Codex!OnRefused, Codex!OnTurnCompleted
        <4> QED BY <2>3, <4>1
      <3>4. CASE Codex!OnTurnStarted \/ Codex!OnOutput \/ Codex!OnServerRequest \/ Codex!ResolveApproval
        <4>1. call' = call
          BY <3>4 DEF Codex!OnTurnStarted, Codex!OnOutput, Codex!OnServerRequest, Codex!ResolveApproval
        <4> QED BY <2>3, <4>1
      <3>5. CASE Codex!ServerTakes \/ Codex!ServerAccepts \/ Codex!ServerRefuses \/ Codex!ServerTalks
                 \/ Codex!ServerAsks \/ Codex!ServerCompletes
        <4>1. call' = call
          BY <3>5 DEF Codex!ServerTakes, Codex!ServerAccepts, Codex!ServerRefuses, Codex!ServerTalks,
                      Codex!ServerAsks, Codex!ServerCompletes
        <4> QED BY <2>3, <4>1
      <3> QED BY <1>2, <2>4, <3>1, <3>2, <3>3, <3>4, <3>5 DEF CodexElse
    <2> QED BY <2>2, <2>4
  <1> QED BY <1>1, <1>2, CodexSteps

-----------------------------------------------------------------------------
(* Codex: the server and what it writes. *)

LEMMA ComingIsFinite ==
    ASSUME Len(wire) \in Nat
    PROVE  IsFiniteSet(Coming) /\ Cardinality(Coming) \in Nat
  <1>1. IsFiniteSet(1 .. Len(wire))
    BY FS_Interval
  <1>2. Coming \subseteq 1 .. Len(wire)
    BY DEF Coming
  <1>3. IsFiniteSet(Coming)
    BY <1>1, <1>2, FS_Subset
  <1> QED BY <1>3, FS_CardinalityType

\* There is room for an approval that is asked for.
LEMMA AskFits ==
    ASSUME CodexServer, CodexAsks, CodexBound, Codex!ServerAsks
    PROVE  /\ rpcs + 1 \in 0 .. MaxAsks /\ Len(asks) + Cardinality(Coming) < MaxAsks
           /\ Cardinality(Coming) \in Nat
  <1>0. MaxAsks \in Nat /\ Len(wire) \in Nat /\ DOMAIN wire = 1 .. Len(wire) /\ Len(asks) \in Nat
    BY BoundsAssumption DEF CodexServer, CodexAsks
  <1>1. \A S : Codex!Cardinality(S) = Cardinality(S)
    BY DEF Codex!Cardinality, Cardinality
  <1>2. Len(asks) + Cardinality(Coming) < MaxAsks
    BY <1>0, <1>1 DEF Codex!ServerAsks, Coming
  <1>3. Cardinality(Coming) \in Nat
    BY <1>0, ComingIsFinite
  <1> QED BY <1>0, <1>2, <1>3 DEF CodexBound

WireSame == UNCHANGED <<wire, inbox, running, unreplied>>
Takes(t) ==
    /\ t \in inbox /\ inbox' = inbox \ {t} /\ running' = running \cup {t}
    /\ unreplied' = unreplied \cup {t} /\ wire' = wire
Clears == wire' = <<>> /\ inbox' = {} /\ running' = {} /\ unreplied' = {}
ReadsOne == wire # <<>> /\ wire' = Tail(wire) /\ UNCHANGED <<inbox, running, unreplied>>
Writes(m) ==
    /\ wire' = Append(wire, m) /\ m \in Codex!Message
    /\ \/ /\ m.kind = "accepted" /\ m.turn \in unreplied
          /\ unreplied' = unreplied \ {m.turn} /\ UNCHANGED <<inbox, running>>
       \/ /\ m.kind = "refused" /\ m.turn \in inbox
          /\ inbox' = inbox \ {m.turn} /\ UNCHANGED <<running, unreplied>>
       \/ /\ m.kind \in News \ {"completed"} /\ m.turn \in running
          /\ UNCHANGED <<inbox, running, unreplied>>
       \/ /\ m.kind = "completed" /\ m.turn \in running
          /\ running' = running \ {m.turn} /\ UNCHANGED <<inbox, unreplied>>
WireBegins ==
    /\ turn' \notin Begun /\ turn' \in Begun'
    /\ inbox' = inbox \cup {turn'} /\ UNCHANGED <<wire, running, unreplied>>

WireStep ==
    WireSame \/ (\E t \in inbox : Takes(t)) \/ Clears \/ ReadsOne \/ (\E m : Writes(m)) \/ WireBegins

\* What the server writes has the type of a message.
LEMMA SaysWrites ==
    ASSUME NEW kind \in {"accepted", "refused", "started", "output", "ask", "completed"},
           NEW t \in Turns, NEW name \in BOOLEAN, NEW rpc \in 0 .. MaxAsks, Codex!Says(kind, t, name, rpc)
    PROVE  LET m == [kind |-> kind, turn |-> t, name |-> name, rpc |-> rpc] IN
           /\ wire' = Append(wire, m) /\ m \in Codex!Message
           /\ m.kind = kind /\ m.turn = t /\ m.rpc = rpc
  BY CodexNames DEF Codex!Says, Codex!Message

LEMMA CodexWireSteps ==
    ASSUME CodexProcess, CodexCall, CodexTurns, CodexQuiet, CodexServer, CodexAsks, CodexBound,
           CodexBegins \/ CodexDeclines \/ CodexElse
    PROVE  WireStep
  <1>0. MaxTurns \in Nat /\ MaxAsks \in Nat /\ 0 \in 0 .. MaxAsks
    BY BoundsAssumption
  <1>00. inbox \subseteq Turns /\ running \subseteq Turns /\ unreplied \subseteq Turns
    BY DEF CodexServer, Begun
  <1>1. CASE CodexBegins
    <2>1. turn' \notin Begun /\ turn' \in Begun'
      BY <1>1, BeginKeepsTurns DEF CodexBegins, CodexTurns
    <2> QED BY <1>1, <2>1 DEF CodexBegins, sendElse, WireBegins, WireStep
  <1>2. CASE CodexDeclines
    BY <1>2 DEF CodexDeclines, sendElse, WireSame, WireStep
  <1>3. CASE Codex!Spawn \/ Codex!ShakeAnswered \/ Codex!Abandoned \/ Codex!Stop \/ Codex!StdinError
    BY <1>3 DEF Codex!Spawn, Codex!ShakeAnswered, Codex!Abandoned, Codex!Stop, Codex!StdinError, WireSame, WireStep
  <1>4. CASE Codex!ShakeFails
    <2>1. wire = <<>>
      BY <1>4 DEF Codex!ShakeFails, CodexQuiet
    <2> QED BY <1>4, <2>1 DEF Codex!ShakeFails, WireSame, WireStep
  <1>5. CASE Codex!Timers \/ Codex!ResolveApproval
    BY <1>5 DEF Codex!Timers, Codex!Arm, Codex!Refused, Codex!RequestTimeout, Codex!TimeOutTurn,
                Codex!ResolveApproval, WireSame, WireStep
  <1>6. CASE Codex!Exit
    BY <1>6 DEF Codex!Exit, Clears, WireStep
  <1>7. CASE Codex!OnAccepted \/ Codex!OnRefused \/ Codex!OnTurnStarted \/ Codex!OnOutput
             \/ Codex!OnTurnCompleted \/ Codex!OnServerRequest
    <2>1. ReadsOne
      BY <1>7 DEF Codex!OnAccepted, Codex!OnRefused, Codex!OnTurnStarted, Codex!OnOutput,
                  Codex!OnTurnCompleted, Codex!OnServerRequest, Codex!Reads, ReadsOne
    <2> QED BY <2>1 DEF WireStep
  <1>8. CASE Codex!ServerTakes
    BY <1>8 DEF Codex!ServerTakes, Takes, WireStep
  <1>9. CASE Codex!ServerAccepts
    <2>1. PICK t \in unreplied, name \in BOOLEAN : Codex!Says("accepted", t, name, 0) /\ unreplied' = unreplied \ {t}
      BY <1>9 DEF Codex!ServerAccepts
    <2>2. Writes([kind |-> "accepted", turn |-> t, name |-> name, rpc |-> 0])
      BY <1>9, <1>0, <1>00, <2>1, SaysWrites DEF Codex!ServerAccepts, Writes
    <2> QED BY <2>2 DEF WireStep
  <1>10. CASE Codex!ServerRefuses
    <2>1. PICK t \in inbox : Codex!Says("refused", t, FALSE, 0) /\ inbox' = inbox \ {t}
      BY <1>10 DEF Codex!ServerRefuses
    <2>0. PICK name \in BOOLEAN : name = FALSE
      OBVIOUS
    <2> DEFINE m == [kind |-> "refused", turn |-> t, name |-> name, rpc |-> 0]
    <2>3. wire' = Append(wire, m) /\ m \in Codex!Message /\ m.kind = "refused" /\ m.turn = t
      <3>1. Codex!Says("refused", t, name, 0)
        BY <2>0, <2>1
      <3> QED BY <1>0, <1>00, <3>1, SaysWrites
    <2> HIDE DEF m
    <2>4. UNCHANGED <<running, unreplied>>
      BY <1>10 DEF Codex!ServerRefuses
    <2>2. Writes(m)
      BY <2>1, <2>3, <2>4 DEF Writes
    <2> QED BY <2>2 DEF WireStep
  <1>11. CASE Codex!ServerTalks
    <2>1. PICK t \in running, kind \in {"started", "output"}, name \in BOOLEAN : Codex!Says(kind, t, name, 0)
      BY <1>11 DEF Codex!ServerTalks
    <2>2. Writes([kind |-> kind, turn |-> t, name |-> name, rpc |-> 0])
      BY <1>11, <1>0, <1>00, <2>1, SaysWrites DEF Codex!ServerTalks, Writes, News
    <2> QED BY <2>2 DEF WireStep
  <1>12. CASE Codex!ServerAsks
    <2>1. PICK t \in running, name \in BOOLEAN : Codex!Says("ask", t, name, rpcs + 1)
      BY <1>12 DEF Codex!ServerAsks
    <2>2. rpcs + 1 \in 0 .. MaxAsks
      BY <1>12, AskFits
    <2>3. Writes([kind |-> "ask", turn |-> t, name |-> name, rpc |-> rpcs + 1])
      BY <1>12, <1>0, <1>00, <2>1, <2>2, SaysWrites DEF Codex!ServerAsks, Writes, News
    <2> QED BY <2>3 DEF WireStep
  <1>13. CASE Codex!ServerCompletes
    <2>1. PICK t \in running, name \in BOOLEAN : Codex!Says("completed", t, name, 0) /\ running' = running \ {t}
      BY <1>13 DEF Codex!ServerCompletes
    <2>2. Writes([kind |-> "completed", turn |-> t, name |-> name, rpc |-> 0])
      BY <1>13, <1>0, <1>00, <2>1, SaysWrites DEF Codex!ServerCompletes, Writes, News
    <2> QED BY <2>2 DEF WireStep
  <1> QED BY <1>1, <1>2, <1>3, <1>4, <1>5, <1>6, <1>7, <1>8, <1>9, <1>10, <1>11, <1>12, <1>13 DEF CodexElse

\* A turn that the server has nothing more to say of stays so until it is asked
\* for: nothing begins twice.
LEMMA SilenceFromKept ==
    ASSUME CodexServer, WireStep, NEW u \in Begun, u \notin running, NEW i \in Nat, i >= 1, SilentFrom(u, i)
    PROVE  /\ ~ReadsOne => SilentFrom(u, i)'
           /\ ReadsOne => \A k \in Nat : k >= i - 1 /\ k >= 1 => SilentFrom(u, k)'
  <1>0. wire \in Seq(Codex!Message) /\ Len(wire) \in Nat
    BY DEF CodexServer
  <1>1. \A j \in i .. Len(wire) : ~(wire[j].turn = u /\ wire[j].kind \in News)
    BY DEF SilentFrom
  <1>2. CASE WireSame \/ (\E t \in inbox : Takes(t)) \/ WireBegins
    <2>1. wire' = wire
      BY <1>2 DEF WireSame, Takes, WireBegins
    <2>2. ~ReadsOne
      <3>1. wire # <<>> => Len(Tail(wire)) = Len(wire) - 1
        BY <1>0
      <3> QED BY <1>0, <2>1, <3>1 DEF ReadsOne
    <2> QED BY <1>1, <2>1, <2>2 DEF SilentFrom
  <1>3. CASE Clears
    <2>1. Len(wire') = 0
      BY <1>3 DEF Clears
    <2> QED BY <2>1 DEF SilentFrom
  <1>4. CASE ReadsOne
    <2>1. wire' = Tail(wire) /\ wire # <<>>
      BY <1>4 DEF ReadsOne
    <2>2. Len(wire') = Len(wire) - 1 /\ \A j \in 1 .. Len(wire) - 1 : wire'[j] = wire[j + 1]
      BY <2>1, CodexHead
    <2> SUFFICES ASSUME NEW k \in Nat, k >= i - 1, k >= 1 PROVE SilentFrom(u, k)'
      BY <1>4
    <2>3. \A j \in k .. Len(wire') : ~(wire'[j].turn = u /\ wire'[j].kind \in News)
      <3> TAKE j \in k .. Len(wire')
      <3>1. j \in 1 .. Len(wire) - 1 /\ j + 1 \in i .. Len(wire)
        BY <1>0, <2>2
      <3> QED BY <1>1, <2>2, <3>1
    <2> QED BY <2>3 DEF SilentFrom
  <1>5. CASE \E m : Writes(m)
    <2>1. PICK m : Writes(m)
      BY <1>5
    <2>2. wire' = Append(wire, m) /\ m \in Codex!Message
      BY <2>1 DEF Writes
    <2>3. Len(wire') = Len(wire) + 1 /\ wire'[Len(wire) + 1] = m /\ \A j \in 1 .. Len(wire) : wire'[j] = wire[j]
      BY <1>0, <2>2
    <2>4. ~(m.turn = u /\ m.kind \in News)
      BY <2>1 DEF Writes, News
    <2>5. \A j \in i .. Len(wire') : ~(wire'[j].turn = u /\ wire'[j].kind \in News)
      <3> TAKE j \in i .. Len(wire')
      <3>1. j \in Int /\ (j = Len(wire) + 1 \/ (j \in 1 .. Len(wire) /\ j \in i .. Len(wire)))
        BY <1>0, <2>3
      <3> QED BY <1>1, <2>3, <2>4, <3>1
    <2>6. SilentFrom(u, i)'
      BY <2>5 DEF SilentFrom
    <2>7. ~ReadsOne
      <3>1. wire # <<>> => Len(Tail(wire)) = Len(wire) - 1
        BY <1>0
      <3> QED BY <1>0, <2>3, <3>1 DEF ReadsOne
    <2> QED BY <2>6, <2>7
  <1> QED BY <1>2, <1>3, <1>4, <1>5 DEF WireStep

LEMMA SilenceKept ==
    ASSUME CodexServer, WireStep, NEW u \in Begun, Silent(u)
    PROVE  Silent(u)'
  <1>1. u \notin inbox /\ u \notin running /\ SilentFrom(u, 1)
    BY DEF Silent
  <1>2. SilentFrom(u, 1)'
    BY <1>1, SilenceFromKept
  <1>3. u \notin inbox' /\ u \notin running'
    BY <1>1 DEF WireStep, WireSame, Takes, Clears, ReadsOne, Writes, WireBegins
  <1> QED BY <1>2, <1>3 DEF Silent

\* The server's sets stay turns that have begun, and asked for is not running.
LEMMA ServerSetsKept ==
    ASSUME CodexServer, WireStep, Begun \subseteq Begun'
    PROVE  /\ wire' \in Seq(Codex!Message) /\ inbox' \cap running' = {}
           /\ inbox' \subseteq Begun' /\ running' \subseteq Begun' /\ unreplied' \subseteq Begun'
  <1> USE DEF CodexServer
  <1>1. CASE WireSame
    BY <1>1 DEF WireSame
  <1>6. CASE Clears
    BY <1>6 DEF Clears
  <1>2. CASE \E t \in inbox : Takes(t)
    BY <1>2 DEF Takes
  <1>3. CASE ReadsOne
    BY <1>3, CodexHead DEF ReadsOne
  <1>4. CASE \E m : Writes(m)
    BY <1>4 DEF Writes
  <1>5. CASE WireBegins
    BY <1>5 DEF WireBegins
  <1> QED BY <1>1, <1>2, <1>3, <1>4, <1>5, <1>6 DEF WireStep

LEMMA MessageOKNext ==
    ASSUME NEW k, NEW m, m = wire'[k], m.turn \in Begun',
           m.kind \in News => m.turn \notin inbox',
           m.kind = "refused" => Silent(m.turn)',
           m.kind = "completed" => m.turn \notin running' /\ SilentFrom(m.turn, k + 1)'
    PROVE  MessageOK(k)'
  BY DEF MessageOK, Silent, SilentFrom

\* What is on its way stays what the server could say, wherever it stands.
LEMMA MessageStays ==
    ASSUME CodexServer, WireStep, Begun \subseteq Begun', NEW i \in 1 .. Len(wire), NEW m, m = wire[i]
    PROVE  /\ m.turn \in Begun'
           /\ m.kind \in News => m.turn \notin inbox'
           /\ m.kind = "refused" => Silent(m.turn)'
           /\ m.kind = "completed" => m.turn \notin running' /\ m.turn \notin running
                                      /\ m.turn \in Begun /\ SilentFrom(m.turn, i + 1)
  <1>1. /\ m.turn \in Begun
        /\ m.kind \in News => m.turn \notin inbox
        /\ m.kind = "refused" => Silent(m.turn)
        /\ m.kind = "completed" => m.turn \notin running /\ SilentFrom(m.turn, i + 1)
    BY DEF CodexServer, MessageOK
  <1>2. PICK u : u = m.turn
    OBVIOUS
  <1>3. m.kind = "refused" => Silent(u)'
    BY <1>1, <1>2, SilenceKept
  <1>4. m.kind \in News => u \notin inbox'
    BY <1>1, <1>2 DEF WireStep, WireSame, Takes, Clears, ReadsOne, Writes, WireBegins
  <1>5. m.kind = "completed" => m.kind \in News
    BY DEF News
  <1>6. m.kind = "completed" => u \notin running'
    BY <1>1, <1>2, <1>5 DEF WireStep, WireSame, Takes, Clears, ReadsOne, Writes, WireBegins
  <1> QED BY <1>1, <1>2, <1>3, <1>4, <1>6

LEMMA CodexServerKept ==
    ASSUME CodexServer, WireStep, Begun \subseteq Begun'
    PROVE  CodexServer'
  <1>0. wire \in Seq(Codex!Message) /\ Len(wire) \in Nat /\ inbox \cap running = {} /\ unreplied \subseteq Begun
        /\ running \subseteq Begun /\ inbox \subseteq Begun
    BY DEF CodexServer
  <1>1. \A k \in 1 .. Len(wire') : MessageOK(k)'
    <2>1. CASE Clears
      BY <2>1 DEF Clears
    <2>2. CASE WireSame \/ (\E t \in inbox : Takes(t)) \/ WireBegins
      <3>0. wire' = wire
        BY <2>2 DEF WireSame, Takes, WireBegins
      <3>1. ~ReadsOne
        <4>1. wire # <<>> => Len(Tail(wire)) = Len(wire) - 1
          BY <1>0
        <4> QED BY <1>0, <3>0, <4>1 DEF ReadsOne
      <3> SUFFICES ASSUME NEW k \in 1 .. Len(wire) PROVE MessageOK(k)'
        BY <3>0
      <3>2. PICK m : m = wire[k]
        OBVIOUS
      <3>3. PICK u : u = m.turn
        OBVIOUS
      <3>4. m.kind = "completed" => SilentFrom(u, k + 1)'
        BY <1>0, <3>1, <3>2, <3>3, MessageStays, SilenceFromKept
      <3>5. m.kind = "completed" => SilentFrom(m.turn, k + 1)'
        BY <3>3, <3>4
      <3> QED BY <3>0, <3>2, <3>5, MessageStays, MessageOKNext
    <2>3. CASE ReadsOne
      <3>0. Len(wire') = Len(wire) - 1 /\ \A i \in 1 .. Len(wire) - 1 : wire'[i] = wire[i + 1]
        BY <2>3, CodexHead DEF ReadsOne
      <3> SUFFICES ASSUME NEW k \in 1 .. Len(wire) - 1 PROVE MessageOK(k)'
        BY <3>0
      <3>1. k + 1 \in 1 .. Len(wire) /\ wire'[k] = wire[k + 1] /\ k \in Nat /\ k >= 1
        BY <1>0, <3>0
      <3>2. PICK m : m = wire[k + 1]
        OBVIOUS
      <3>3. PICK u : u = m.turn
        OBVIOUS
      <3>4. PICK n \in Nat : n = k + 2 /\ n >= 1 /\ n = (k + 1) + 1 /\ k + 1 >= n - 1 /\ k + 1 \in Nat /\ k + 1 >= 1
        BY <3>1
      <3>5. m.kind = "completed" => u \in Begun /\ u \notin running /\ SilentFrom(u, n)
        BY <3>1, <3>2, <3>3, <3>4, MessageStays
      <3>6. m.kind = "completed" => SilentFrom(u, k + 1)'
        BY <2>3, <3>4, <3>5, SilenceFromKept
      <3>7. m.kind = "completed" => SilentFrom(m.turn, k + 1)'
        BY <3>3, <3>6
      <3> QED BY <3>1, <3>2, <3>7, MessageStays, MessageOKNext
    <2>4. CASE \E m : Writes(m)
      <3>0. PICK w : Writes(w)
        BY <2>4
      <3>1. /\ w \in Codex!Message /\ Len(wire') = Len(wire) + 1
            /\ wire'[Len(wire) + 1] = w /\ \A j \in 1 .. Len(wire) : wire'[j] = wire[j]
        BY <1>0, <3>0 DEF Writes
      <3>2. ~ReadsOne
        <4>1. wire # <<>> => Len(Tail(wire)) = Len(wire) - 1
          BY <1>0
        <4> QED BY <1>0, <3>1, <4>1 DEF ReadsOne
      <3>3. ASSUME NEW k \in 1 .. Len(wire) PROVE MessageOK(k)'
        <4>2. PICK m : m = wire[k]
          OBVIOUS
        <4>3. PICK u : u = m.turn
          OBVIOUS
        <4>4. m.kind = "completed" => SilentFrom(u, k + 1)'
          BY <1>0, <3>2, <4>2, <4>3, MessageStays, SilenceFromKept
        <4>5. m.kind = "completed" => SilentFrom(m.turn, k + 1)'
          BY <4>3, <4>4
        <4> QED BY <3>1, <4>2, <4>5, MessageStays, MessageOKNext
      <3>4. ASSUME NEW k, k = Len(wire) + 1 PROVE MessageOK(k)'
        <4>1. k = Len(wire) + 1
          BY <3>4
        <4>2. PICK u : u = w.turn
          OBVIOUS
        <4>3. u \in Begun'
          BY <1>0, <3>0, <4>2 DEF Writes
        <4>4. w.kind \in News => u \notin inbox'
          BY <1>0, <3>0, <4>2 DEF Writes, News
        <4>5. w.kind = "completed" => u \notin running' /\ SilentFrom(u, k + 1)'
          <5>1. w.kind = "completed" => u \notin running'
            BY <3>0, <4>2 DEF Writes, News
          <5>2. SilentFrom(u, k + 1)'
            BY <1>0, <3>1, <4>1 DEF SilentFrom
          <5> QED BY <5>1, <5>2
        <4>6. w.kind = "refused" => Silent(u)'
          <5> SUFFICES ASSUME w.kind = "refused" PROVE Silent(u)'
            OBVIOUS
          <5>1. u \in inbox /\ inbox' = inbox \ {u} /\ running' = running
            BY <3>0, <4>2 DEF Writes, News
          <5>2. \A j \in 1 .. Len(wire) : ~(wire[j].turn = u /\ wire[j].kind \in News)
            BY <5>1 DEF CodexServer, MessageOK
          <5>3. \A j \in 1 .. Len(wire') : ~(wire'[j].turn = u /\ wire'[j].kind \in News)
            <6> TAKE j \in 1 .. Len(wire')
            <6>1. j = Len(wire) + 1 \/ j \in 1 .. Len(wire)
              BY <1>0, <3>1
            <6> QED BY <3>1, <5>2, <6>1 DEF News
          <5> QED BY <1>0, <5>1, <5>3 DEF Silent, SilentFrom
        <4> QED BY <3>1, <4>1, <4>2, <4>3, <4>4, <4>5, <4>6, MessageOKNext
      <3>5. ASSUME NEW k \in 1 .. Len(wire') PROVE MessageOK(k)'
        <4>1. k \in 1 .. Len(wire) \/ k = Len(wire) + 1
          BY <1>0, <3>1
        <4> QED BY <3>3, <3>4, <4>1
      <3> QED BY <3>5
    <2> QED BY <2>1, <2>2, <2>3, <2>4 DEF WireStep
  <1>2. /\ wire' \in Seq(Codex!Message) /\ inbox' \cap running' = {}
        /\ inbox' \subseteq Begun' /\ running' \subseteq Begun' /\ unreplied' \subseteq Begun'
    BY ServerSetsKept
  <1> QED BY <1>1, <1>2 DEF CodexServer

LEMMA CodexQuietKept ==
    ASSUME CodexProcess, CodexServer, CodexQuiet, CodexBegins \/ CodexDeclines \/ CodexElse
    PROVE  CodexQuiet'
  <1> DEFINE Nothing == wire = <<>> /\ inbox = {} /\ running = {} /\ unreplied = {}
  <1>0. ~(proc # 0 /\ shake = "no") => Nothing
    BY DEF CodexQuiet
  <1>1. CASE CodexBegins \/ CodexDeclines
    BY <1>1 DEF CodexBegins, CodexDeclines, sendElse, CodexQuiet
  <1>2. CASE UNCHANGED <<wire, inbox, running, unreplied>> /\ (UNCHANGED <<proc, shake>> \/ Nothing)
    BY <1>2 DEF CodexQuiet
  <1>3. CASE Codex!Spawn \/ Codex!ShakeAnswered \/ Codex!Abandoned
    <2>1. UNCHANGED <<wire, inbox, running, unreplied>>
      BY <1>3 DEF Codex!Spawn, Codex!ShakeAnswered, Codex!Abandoned
    <2>2. ~(proc # 0 /\ shake = "no")
      BY <1>3 DEF Codex!Spawn, Codex!ShakeAnswered, Codex!Abandoned
    <2> QED BY <1>0, <1>2, <2>1, <2>2
  <1>4. CASE Codex!ShakeFails
    <2>1. Nothing
      BY <1>0, <1>4 DEF Codex!ShakeFails
    <2>2. UNCHANGED <<inbox, running, unreplied>> /\ wire' = <<>>
      BY <1>4 DEF Codex!ShakeFails
    <2> QED BY <2>1, <2>2 DEF CodexQuiet
  <1>5. CASE Codex!Timers \/ Codex!ResolveApproval \/ Codex!StdinError \/ Codex!Stop
    <2>1. UNCHANGED <<wire, inbox, running, unreplied, proc, shake>>
      BY <1>5 DEF Codex!Timers, Codex!Arm, Codex!Refused, Codex!RequestTimeout, Codex!TimeOutTurn,
                  Codex!ResolveApproval, Codex!StdinError, Codex!Stop
    <2> QED BY <1>2, <2>1
  <1>6. CASE Codex!Exit
    BY <1>6 DEF Codex!Exit, CodexQuiet
  <1>7. CASE Codex!OnAccepted \/ Codex!OnRefused \/ Codex!OnTurnStarted \/ Codex!OnOutput
             \/ Codex!OnTurnCompleted \/ Codex!OnServerRequest
    <2>1. wire # <<>> /\ UNCHANGED <<proc, shake>>
      BY <1>7 DEF Codex!OnAccepted, Codex!OnRefused, Codex!OnTurnStarted, Codex!OnOutput,
                  Codex!OnTurnCompleted, Codex!OnServerRequest, Codex!Reads
    <2> QED BY <1>0, <2>1 DEF CodexQuiet
  <1>8. CASE Codex!ServerTakes \/ Codex!ServerAccepts \/ Codex!ServerRefuses \/ Codex!ServerTalks
             \/ Codex!ServerAsks \/ Codex!ServerCompletes
    <2>1. (inbox # {} \/ unreplied # {} \/ running # {}) /\ UNCHANGED <<proc, shake>>
      BY <1>8 DEF Codex!ServerTakes, Codex!ServerAccepts, Codex!ServerRefuses, Codex!ServerTalks,
                  Codex!ServerAsks, Codex!ServerCompletes
    <2> QED BY <1>0, <2>1 DEF CodexQuiet
  <1> QED BY <1>1, <1>3, <1>4, <1>5, <1>6, <1>7, <1>8 DEF CodexElse

-----------------------------------------------------------------------------
(* Codex: whose news is whose. *)

\* News that is taken for the turn in flight and is not its own is about an
\* earlier turn, one that was not remembered.
LEMMA OwnedNews ==
    ASSUME CodexTurns, CodexServer, CodexNamed, CodexRemembered, Codex!NothingMisread,
           wire # <<>>, NEW m, m = Head(wire), m.kind \in News, Codex!Owns(m), turn # 0, turn # m.turn
    PROVE  turn \in Turns /\ m.turn \in Turns /\ m.turn < turn /\ CodexExcused(m.turn)
  <1>0. MaxTurns \in Nat
    BY BoundsAssumption
  <1>1. /\ wire[1] = m /\ 1 \in 1 .. Len(wire) /\ m.turn \in Turns /\ MessageOK(1)
    BY CodexHead
  <1>2. PICK u : u = m.turn
    OBVIOUS
  <1>3. ~Silent(u)
    BY <1>1, <1>2 DEF Silent, SilentFrom
  <1>4. CodexExcused(u) \/ u \in abandoned \/ unnamedLeft
    BY <1>1, <1>2, <1>3 DEF CodexRemembered
  <1>5. CodexExcused(u)
    <2>1. CASE named # 0 /\ m.name
      <3>1. u = named /\ <<turn, u>> \in misread
        BY <1>2, <2>1 DEF Codex!Owns, CodexNamed
      <3>2. PICK p \in misread : p = <<turn, u>>
        BY <3>1
      <3>3. p[2] = u
        BY <3>2
      <3> QED BY <3>2, <3>3 DEF Codex!NothingMisread, CodexExcused, Misled
    <2>2. CASE ~(named # 0 /\ m.name)
      BY <1>4, <2>2 DEF Codex!Owns
    <2> QED BY <2>1, <2>2
  <1>6. turn \in Turns /\ m.turn \in Begun /\ \A t \in Begun : t <= turn
    BY <1>0, <1>1 DEF CodexTurns, TurnInFlight, Turns, MessageOK
  <1> QED BY <1>0, <1>1, <1>2, <1>5, <1>6 DEF Turns

\* What a step does to misread.
Mistakes(u) ==
    /\ misread' = misread \cup {<<turn, u>>}
    /\ turn \in Turns /\ u \in Turns /\ u < turn /\ CodexExcused(u)

LEMMA AttributeMistakes ==
    ASSUME CodexTurns, CodexServer, CodexNamed, CodexRemembered, Codex!NothingMisread,
           wire # <<>>, NEW m, m = Head(wire), m.kind \in News, Codex!Owns(m), Codex!Attribute(m)
    PROVE  misread' = misread \/ \E u : Mistakes(u)
  <1>1. CASE turn \in {0, m.turn}
    BY <1>1 DEF Codex!Attribute
  <1>2. CASE turn \notin {0, m.turn}
    <2>1. turn \in Turns /\ m.turn \in Turns /\ m.turn < turn /\ CodexExcused(m.turn)
      BY <1>2, OwnedNews
    <2>2. misread' = misread \cup {<<turn, m.turn>>}
      BY <1>2 DEF Codex!Attribute
    <2>3. Mistakes(m.turn)
      BY <2>1, <2>2 DEF Mistakes
    <2> QED BY <2>3
  <1> QED BY <1>1, <1>2

LEMMA CodexMistakes ==
    ASSUME CodexTurns, CodexServer, CodexNamed, CodexRemembered, Codex!NothingMisread,
           CodexBegins \/ CodexDeclines \/ CodexElse
    PROVE  misread' = misread \/ \E u : Mistakes(u)
  <1>1. CASE CodexBegins \/ CodexDeclines
    BY <1>1 DEF CodexBegins, CodexDeclines, sendElse
  <1>2. CASE Codex!Spawn \/ Codex!ShakeAnswered \/ Codex!ShakeFails \/ Codex!Abandoned \/ Codex!Stop
    BY <1>2 DEF Codex!Spawn, Codex!ShakeAnswered, Codex!ShakeFails, Codex!Abandoned, Codex!Stop
  <1>3. CASE Codex!Timers \/ Codex!ResolveApproval \/ Codex!StdinError \/ Codex!Exit
    BY <1>3 DEF Codex!Timers, Codex!Arm, Codex!Refused, Codex!RequestTimeout, Codex!TimeOutTurn,
                Codex!ResolveApproval, Codex!StdinError, Codex!Exit
  <1>4. CASE Codex!OnAccepted \/ Codex!OnRefused
    BY <1>4 DEF Codex!OnAccepted, Codex!OnRefused
  <1>5. CASE Codex!OnTurnStarted
    <2>1. wire # <<>> /\ Head(wire).kind \in News
      BY <1>5 DEF Codex!OnTurnStarted, Codex!Reads, News
    <2>2. misread' = misread \/ (Codex!Owns(Head(wire)) /\ Codex!Attribute(Head(wire)))
      BY <1>5 DEF Codex!OnTurnStarted
    <2> QED BY <2>1, <2>2, AttributeMistakes
  <1>6. CASE Codex!OnOutput
    <2>1. wire # <<>> /\ Head(wire).kind \in News
      BY <1>6 DEF Codex!OnOutput, Codex!Reads, News
    <2>2. misread' = misread \/ (Codex!Owns(Head(wire)) /\ Codex!Attribute(Head(wire)))
      BY <1>6 DEF Codex!OnOutput
    <2> QED BY <2>1, <2>2, AttributeMistakes
  <1>7. CASE Codex!OnTurnCompleted
    <2>1. wire # <<>> /\ Head(wire).kind \in News
      BY <1>7 DEF Codex!OnTurnCompleted, Codex!Reads, News
    <2>2. misread' = misread \/ (Codex!Owns(Head(wire)) /\ Codex!Attribute(Head(wire)))
      BY <1>7 DEF Codex!OnTurnCompleted
    <2> QED BY <2>1, <2>2, AttributeMistakes
  <1>8. CASE Codex!OnServerRequest
    <2>1. wire # <<>> /\ Head(wire).kind \in News
      BY <1>8 DEF Codex!OnServerRequest, Codex!Reads, News
    <2>2. misread' = misread \/ (Codex!Owns(Head(wire)) /\ Codex!Attribute(Head(wire)))
      BY <1>8 DEF Codex!OnServerRequest
    <2> QED BY <2>1, <2>2, AttributeMistakes
  <1>9. CASE Codex!ServerTakes \/ Codex!ServerAccepts \/ Codex!ServerRefuses \/ Codex!ServerTalks
             \/ Codex!ServerAsks \/ Codex!ServerCompletes
    BY <1>9 DEF Codex!ServerTakes, Codex!ServerAccepts, Codex!ServerRefuses, Codex!ServerTalks,
                Codex!ServerAsks, Codex!ServerCompletes
  <1> QED BY <1>1, <1>2, <1>3, <1>4, <1>5, <1>6, <1>7, <1>8, <1>9 DEF CodexElse

\* A turn that was let go, or misled, was so for good.
TurnStep == KeepsTurns \/ BeginsTurn \/ \E c : EndsTurn(c)

LEMMA EndStays ==
    ASSUME TurnInFlight, TurnStep, NEW u \in Turns, endedBy[u] # "none"
    PROVE  endedBy'[u] = endedBy[u]
  <1>1. phase[u] # "running" /\ u # turn
    BY DEF TurnInFlight
  <1>2. CASE KeepsTurns \/ BeginsTurn
    BY <1>2 DEF KeepsTurns, BeginsTurn
  <1>3. CASE \E c : EndsTurn(c)
    BY <1>1, <1>3 DEF EndsTurn
  <1> QED BY <1>2, <1>3 DEF TurnStep

LEMMA ExcusedStays ==
    ASSUME TurnInFlight, TurnStep, misread \subseteq misread', NEW u \in Turns, CodexExcused(u)
    PROVE  CodexExcused(u)'
  <1>1. CASE Misled(u)
    BY <1>1 DEF Misled, CodexExcused
  <1>2. CASE endedBy[u] \in {"unanswered", "stdin"}
    <2>1. endedBy'[u] = endedBy[u]
      BY <1>2, EndStays
    <2> QED BY <1>2, <2>1 DEF CodexExcused
  <1> QED BY <1>1, <1>2 DEF CodexExcused

LEMMA CodexMisreadKept ==
    ASSUME CodexTurns, CodexServer, CodexNamed, CodexRemembered, MisreadType, Codex!NothingMisread,
           TurnStep, CodexBegins \/ CodexDeclines \/ CodexElse
    PROVE  Codex!NothingMisread' /\ MisreadType' /\ misread \subseteq misread'
  <1>1. misread' = misread \/ \E u : Mistakes(u)
    BY CodexMistakes
  <1>2. misread \subseteq misread' /\ MisreadType'
    BY <1>1 DEF Mistakes, MisreadType
  <1>3. ASSUME NEW p \in misread' PROVE p[2] < p[1] /\ p[2] \in Turns /\ CodexExcused(p[2])'
    <2>1. PICK u : u = p[2]
      OBVIOUS
    <2>2. CASE p \in misread
      <3>1. u \in Turns /\ p[2] < p[1] /\ CodexExcused(u)
        BY <2>1, <2>2 DEF MisreadType, Codex!NothingMisread, CodexExcused, Misled
      <3>2. CodexExcused(u)'
        BY <1>2, <3>1, ExcusedStays DEF CodexTurns
      <3> QED BY <2>1, <3>1, <3>2
    <2>3. CASE p \notin misread
      <3>1. u \in Turns /\ p[1] = turn /\ u < turn /\ CodexExcused(u)
        BY <1>1, <1>3, <2>1, <2>3 DEF Mistakes
      <3>2. CodexExcused(u)'
        BY <1>2, <3>1, ExcusedStays DEF CodexTurns
      <3> QED BY <2>1, <3>1, <3>2
    <2> QED BY <2>2, <2>3
  <1>4. Codex!NothingMisread'
    BY <1>3 DEF Codex!NothingMisread, CodexExcused, Misled
  <1> QED BY <1>2, <1>4

LEMMA CodexNamedKept ==
    ASSUME CodexNamed, CodexCall, misread \subseteq misread', CodexBegins \/ CodexDeclines \/ CodexElse
    PROVE  CodexNamed'
  <1>1. CASE UNCHANGED <<named, turn>>
    BY <1>1 DEF CodexNamed
  <1>2. CASE named' = 0
    BY <1>2 DEF CodexNamed
  <1>3. CASE CodexBegins \/ CodexDeclines
    BY <1>1, <1>2, <1>3 DEF CodexBegins, CodexDeclines, KeepsTurns
  <1>4. CASE Codex!Spawn \/ Codex!ShakeAnswered \/ Codex!ShakeFails \/ Codex!Abandoned \/ Codex!Stop
    <2>1. UNCHANGED <<named, turn>>
      BY <1>4 DEF Codex!Spawn, Codex!ShakeAnswered, Codex!ShakeFails, Codex!Abandoned, Codex!Stop
    <2> QED BY <1>1, <2>1
  <1>5. CASE Codex!Arm \/ Codex!ResolveApproval \/ Codex!OnRefused \/ Codex!OnOutput \/ Codex!OnServerRequest
    <2>1. UNCHANGED <<named, turn>>
      BY <1>5 DEF Codex!Arm, Codex!ResolveApproval, Codex!OnRefused, Codex!OnOutput, Codex!OnServerRequest
    <2> QED BY <1>1, <2>1
  <1>6. CASE Codex!Refused \/ Codex!RequestTimeout \/ Codex!TimeOutTurn \/ Codex!StdinError \/ Codex!Exit
    <2>1. named' = 0
      BY <1>6 DEF Codex!Refused, Codex!RequestTimeout, Codex!TimeOutTurn, Codex!StdinError, Codex!Exit,
                  Codex!FailTurn, Codex!EndTurn
    <2> QED BY <1>2, <2>1
  <1>7. CASE Codex!OnAccepted
    <2>1. turn' = turn /\ (named' = named \/ named' = turn)
      BY <1>7 DEF Codex!OnAccepted
    <2> QED BY <2>1 DEF CodexNamed
  <1>8. CASE Codex!OnTurnStarted
    <2>1. turn' = turn
      BY <1>8 DEF Codex!OnTurnStarted
    <2>2. CASE named' = Head(wire).turn /\ turn # 0 /\ Codex!Attribute(Head(wire))
      <3>1. named' = turn \/ <<turn, named'>> \in misread'
        BY <2>2 DEF Codex!Attribute
      <3> QED BY <2>1, <3>1 DEF CodexNamed
    <2>3. CASE named' = named
      BY <1>1, <2>1, <2>3
    <2> QED BY <1>8, <2>2, <2>3 DEF Codex!OnTurnStarted
  <1>9. CASE Codex!OnTurnCompleted
    <2>1. named' = 0 \/ UNCHANGED <<named, turn>>
      BY <1>9 DEF Codex!OnTurnCompleted, Codex!EndTurn
    <2> QED BY <1>1, <1>2, <2>1
  <1>10. CASE Codex!ServerTakes \/ Codex!ServerAccepts \/ Codex!ServerRefuses \/ Codex!ServerTalks
             \/ Codex!ServerAsks \/ Codex!ServerCompletes
    <2>1. UNCHANGED <<named, turn>>
      BY <1>10 DEF Codex!ServerTakes, Codex!ServerAccepts, Codex!ServerRefuses, Codex!ServerTalks,
                  Codex!ServerAsks, Codex!ServerCompletes
    <2> QED BY <1>1, <2>1
  <1> QED BY <1>3, <1>4, <1>5, <1>6, <1>7, <1>8, <1>9, <1>10 DEF CodexElse, Codex!Timers

\* A call comes to be refused only by the server's word, and the turn stays the
\* one it was.
LEMMA CodexRefusals ==
    ASSUME CodexBegins \/ CodexDeclines \/ CodexElse, call' = "refused", turn' # 0
    PROVE  /\ turn' = turn
           /\ call = "refused" \/ (Codex!OnRefused /\ Head(wire).turn \in asked)
  <1>1. CASE CodexBegins \/ CodexDeclines
    BY <1>1 DEF CodexBegins, CodexDeclines
  <1>2. CASE Codex!Spawn \/ Codex!ShakeAnswered \/ Codex!ShakeFails \/ Codex!Abandoned \/ Codex!Stop
    BY <1>2 DEF Codex!Spawn, Codex!ShakeAnswered, Codex!ShakeFails, Codex!Abandoned, Codex!Stop
  <1>3. CASE Codex!Timers \/ Codex!StdinError \/ Codex!Exit
    BY <1>3 DEF Codex!Timers, Codex!Arm, Codex!Refused, Codex!RequestTimeout, Codex!TimeOutTurn,
                Codex!StdinError, Codex!Exit
  <1>4. CASE Codex!OnAccepted \/ Codex!OnRefused
    BY <1>4 DEF Codex!OnAccepted, Codex!OnRefused
  <1>5. CASE Codex!OnTurnStarted \/ Codex!OnOutput \/ Codex!OnServerRequest \/ Codex!ResolveApproval
    BY <1>5 DEF Codex!OnTurnStarted, Codex!OnOutput, Codex!OnServerRequest, Codex!ResolveApproval
  <1>6. CASE Codex!OnTurnCompleted
    BY <1>6 DEF Codex!OnTurnCompleted, Codex!EndTurn
  <1>7. CASE Codex!ServerTakes \/ Codex!ServerAccepts \/ Codex!ServerRefuses \/ Codex!ServerTalks
             \/ Codex!ServerAsks \/ Codex!ServerCompletes
    BY <1>7 DEF Codex!ServerTakes, Codex!ServerAccepts, Codex!ServerRefuses, Codex!ServerTalks,
                Codex!ServerAsks, Codex!ServerCompletes
  <1> QED BY <1>1, <1>2, <1>3, <1>4, <1>5, <1>6, <1>7 DEF CodexElse

LEMMA CodexRefusedKept ==
    ASSUME CodexTurns, CodexCall, CodexServer, CodexRefused, WireStep,
           CodexBegins \/ CodexDeclines \/ CodexElse
    PROVE  CodexRefused'
  <1> SUFFICES ASSUME call' = "refused", turn' # 0 PROVE \A u : u = turn' => Silent(u)'
    BY DEF CodexRefused, Silent, SilentFrom
  <1>0. turn \in Begun
    BY CodexRefusals, BoundsAssumption DEF CodexTurns, TurnInFlight, Begun, Turns
  <1>1. Silent(turn)
    <2>1. CASE call = "refused"
      BY <2>1, CodexRefusals DEF CodexRefused
    <2>2. CASE Codex!OnRefused /\ Head(wire).turn \in asked
      <3>1. wire # <<>> /\ Head(wire).kind = "refused" /\ Head(wire).turn = turn
        BY <2>2, CodexRefusals DEF Codex!OnRefused, Codex!Reads, CodexCall
      <3> QED BY <3>1, CodexHead DEF MessageOK
    <2> QED BY <2>1, <2>2, CodexRefusals
  <1>2. ASSUME NEW u, u = turn' PROVE Silent(u)'
    <2>1. u \in Begun /\ Silent(u)
      BY <1>0, <1>1, <1>2, CodexRefusals
    <2> QED BY <2>1, SilenceKept
  <1> QED BY <1>2

\* A turn that is completed is not heard of again.
LEMMA CompletedIsSilent ==
    ASSUME CodexServer, WireStep, Codex!OnTurnCompleted, NEW u, u = Head(wire).turn
    PROVE  Silent(u)'
  <1>1. wire # <<>> /\ wire' = Tail(wire) /\ wire[1].kind = "completed" /\ wire[1].turn = u
        /\ MessageOK(1) /\ UNCHANGED <<inbox, running, unreplied>>
    BY CodexHead DEF Codex!OnTurnCompleted, Codex!Reads
  <1>2. ReadsOne
    BY <1>1 DEF ReadsOne
  <1>3. PICK n \in Nat : n = 2 /\ n = 1 + 1 /\ n >= 1 /\ 1 >= n - 1
    OBVIOUS
  <1>4. u \in Begun /\ u \notin running /\ u \notin inbox /\ SilentFrom(u, n)
    BY <1>1, <1>3 DEF MessageOK, News
  <1>5. SilentFrom(u, 1)'
    BY <1>2, <1>3, <1>4, SilenceFromKept
  <1> QED BY <1>1, <1>4, <1>5 DEF Silent

\* What the step of the adapter does with what it remembers.
LEMMA CodexMemory ==
    ASSUME CodexElse, ~Codex!Exit, ~Codex!OnTurnCompleted, ~Codex!TimeOutTurn
    PROVE  UNCHANGED <<abandoned, unnamedLeft>>
  <1>1. CASE Codex!Spawn \/ Codex!ShakeAnswered \/ Codex!ShakeFails \/ Codex!Abandoned \/ Codex!Stop
    BY <1>1 DEF Codex!Spawn, Codex!ShakeAnswered, Codex!ShakeFails, Codex!Abandoned, Codex!Stop
  <1>2. CASE Codex!Timers \/ Codex!StdinError \/ Codex!ResolveApproval
    BY <1>2 DEF Codex!Timers, Codex!Arm, Codex!Refused, Codex!RequestTimeout, Codex!StdinError, Codex!ResolveApproval
  <1>3. CASE Codex!OnAccepted \/ Codex!OnRefused \/ Codex!OnTurnStarted \/ Codex!OnOutput \/ Codex!OnServerRequest
    BY <1>3 DEF Codex!OnAccepted, Codex!OnRefused, Codex!OnTurnStarted, Codex!OnOutput, Codex!OnServerRequest
  <1>4. CASE Codex!ServerTakes \/ Codex!ServerAccepts \/ Codex!ServerRefuses \/ Codex!ServerTalks
             \/ Codex!ServerAsks \/ Codex!ServerCompletes
    BY <1>4 DEF Codex!ServerTakes, Codex!ServerAccepts, Codex!ServerRefuses, Codex!ServerTalks,
                Codex!ServerAsks, Codex!ServerCompletes
  <1> QED BY <1>1, <1>2, <1>3, <1>4 DEF CodexElse

\* How the turn in flight can end.
LEMMA CodexEnds ==
    ASSUME CodexElse, turn' # turn, ~Codex!Exit, ~Codex!TimeOutTurn
    PROVE  \/ Codex!Refused
           \/ EndsTurn("unanswered") \/ EndsTurn("stdin")
           \/ Codex!OnTurnCompleted /\ Codex!Attribute(Head(wire))
  <1>1. CASE Codex!Spawn \/ Codex!ShakeAnswered \/ Codex!ShakeFails \/ Codex!Abandoned \/ Codex!Stop
    BY <1>1 DEF Codex!Spawn, Codex!ShakeAnswered, Codex!ShakeFails, Codex!Abandoned, Codex!Stop
  <1>2. CASE Codex!Timers \/ Codex!StdinError \/ Codex!ResolveApproval
    BY <1>2 DEF Codex!Timers, Codex!Arm, Codex!RequestTimeout, Codex!StdinError, Codex!ResolveApproval,
                Codex!FailTurn, Codex!EndTurn, EndsTurn
  <1>3. CASE Codex!OnAccepted \/ Codex!OnRefused \/ Codex!OnTurnStarted \/ Codex!OnOutput \/ Codex!OnServerRequest
    BY <1>3 DEF Codex!OnAccepted, Codex!OnRefused, Codex!OnTurnStarted, Codex!OnOutput, Codex!OnServerRequest
  <1>4. CASE Codex!OnTurnCompleted
    BY <1>4 DEF Codex!OnTurnCompleted
  <1>5. CASE Codex!ServerTakes \/ Codex!ServerAccepts \/ Codex!ServerRefuses \/ Codex!ServerTalks
             \/ Codex!ServerAsks \/ Codex!ServerCompletes
    BY <1>5 DEF Codex!ServerTakes, Codex!ServerAccepts, Codex!ServerRefuses, Codex!ServerTalks,
                Codex!ServerAsks, Codex!ServerCompletes
  <1> QED BY <1>1, <1>2, <1>3, <1>4, <1>5 DEF CodexElse

\* What the server may still say is about a turn that is in flight or remembered.
LEMMA CodexRememberedKept ==
    ASSUME CodexTurns, CodexCall, CodexServer, CodexNamed, CodexRefused, CodexRemembered,
           TurnStep, WireStep, misread \subseteq misread', CodexServer', Begun' \subseteq Turns,
           CodexBegins \/ CodexDeclines \/ CodexElse,
           CodexElse => KeepsTurns \/ \E c : EndsTurn(c)
    PROVE  CodexRemembered'
  <1>0. MaxTurns \in Nat /\ 0 \notin Turns
    BY BoundsAssumption DEF Turns
  <1> SUFFICES ASSUME NEW u \in Turns, ~Silent(u)'
               PROVE  u = turn' \/ CodexExcused(u)' \/ u \in abandoned' \/ unnamedLeft'
    BY DEF CodexRemembered
  <1>1. CASE u \notin Begun
    <2>1. u \in Begun'
      BY DEF Silent, SilentFrom, CodexServer, MessageOK
    <2>2. BeginsTurn
      <3>1. CASE KeepsTurns
        BY <1>1, <2>1, <3>1, KeepKeepsTurns DEF CodexTurns
      <3>2. CASE \E c : EndsTurn(c)
        BY <1>1, <2>1, <3>2, EndKeepsTurns DEF CodexTurns
      <3> QED BY <3>1, <3>2 DEF TurnStep
    <2> QED BY <1>1, <2>1, <2>2, BeginKeepsTurns DEF CodexTurns
  <1>2. CASE u \in Begun
    <2>1. ~Silent(u)
      BY <1>2, SilenceKept
    <2>2. u = turn \/ CodexExcused(u) \/ u \in abandoned \/ unnamedLeft
      BY <2>1 DEF CodexRemembered
    <2>3. CASE CodexExcused(u)
      BY <2>3, ExcusedStays DEF CodexTurns
    <2>4. CASE CodexBegins \/ CodexDeclines
      <3>1. turn = 0 /\ UNCHANGED <<abandoned, unnamedLeft>>
        BY <2>4 DEF CodexBegins, CodexDeclines, BeginsTurn, sendElse, CodexCall
      <3> QED BY <1>0, <2>2, <2>3, <3>1
    <2>5. ~Codex!Exit
      <3> SUFFICES ASSUME Codex!Exit PROVE FALSE
        OBVIOUS
      <3>1. wire' = <<>> /\ inbox' = {} /\ running' = {}
        BY DEF Codex!Exit
      <3> QED BY <3>1 DEF Silent, SilentFrom
    <2>6. CASE Codex!OnTurnCompleted /\ ~(u = turn)
      <3>1. u # Head(wire).turn
        BY <2>6, CompletedIsSilent
      <3>2. abandoned \ {Head(wire).turn} \subseteq abandoned' /\ unnamedLeft' = unnamedLeft
        BY <2>6 DEF Codex!OnTurnCompleted
      <3> QED BY <2>2, <2>3, <2>6, <3>1, <3>2
    <2>7. CASE Codex!TimeOutTurn /\ ~(u = turn)
      <3>1. abandoned \subseteq abandoned' /\ (unnamedLeft => unnamedLeft')
        BY <2>7 DEF Codex!TimeOutTurn
      <3> QED BY <2>2, <2>3, <2>7, <3>1
    <2>8. CASE CodexElse /\ ~(u = turn) /\ ~Codex!OnTurnCompleted /\ ~Codex!TimeOutTurn
      BY <2>2, <2>3, <2>5, <2>8, CodexMemory
    <2>9. CASE CodexElse /\ u = turn
      <3>1. CASE turn' = turn
        BY <2>9, <3>1
      <3>2. CASE Codex!TimeOutTurn
        <4>1. /\ abandoned' = IF named # 0 THEN abandoned \cup {named} ELSE abandoned
              /\ unnamedLeft' = (unnamedLeft \/ named = 0)
          BY <3>2 DEF Codex!TimeOutTurn
        <4>2. CASE named = 0
          BY <4>1, <4>2
        <4>3. CASE named = u
          BY <1>0, <4>1, <4>3
        <4>4. CASE named # 0 /\ named # u
          <5>1. <<turn, named>> \in misread
            BY <2>9, <4>4 DEF CodexNamed
          <5>2. PICK q \in misread : q = <<turn, named>>
            BY <5>1
          <5>3. CodexExcused(u)
            BY <2>9, <5>2 DEF CodexExcused, Misled
          <5> QED BY <2>3, <5>3
        <4> QED BY <4>2, <4>3, <4>4
      <3>3. CASE Codex!Refused
        <4>1. Silent(u)
          BY <1>0, <2>9, <3>3 DEF Codex!Refused, CodexRefused
        <4> QED BY <2>1, <4>1
      <3>4. CASE EndsTurn("unanswered") \/ EndsTurn("stdin")
        <4>1. endedBy'[u] \in {"unanswered", "stdin"}
          BY <1>0, <2>9, <3>4 DEF EndsTurn, CodexTurns
        <4> QED BY <4>1 DEF CodexExcused
      <3>5. CASE Codex!OnTurnCompleted /\ Codex!Attribute(Head(wire))
        <4>1. u # Head(wire).turn
          BY <3>5, CompletedIsSilent
        <4>2. <<u, Head(wire).turn>> \in misread'
          BY <1>0, <2>9, <3>5, <4>1 DEF Codex!Attribute
        <4>3. PICK q \in misread' : q[1] = u
          BY <4>2
        <4> QED BY <4>3 DEF CodexExcused, Misled
      <3> QED BY <2>5, <2>9, <3>1, <3>2, <3>3, <3>4, <3>5, CodexEnds
    <2> QED BY <2>4, <2>6, <2>7, <2>8, <2>9 DEF CodexElse
  <1> QED BY <1>1, <1>2

-----------------------------------------------------------------------------
(* Codex: the approvals. *)

\* A read takes the first message, and the others move to the front.
LEMMA ComingRead ==
    ASSUME CodexServer, CodexBound, wire # <<>>, wire' = Tail(wire)
    PROVE  /\ Cardinality(Coming') \in Nat /\ Cardinality(Coming) \in Nat
           /\ Cardinality(Coming') = IF wire[1].kind = "ask" THEN Cardinality(Coming) - 1 ELSE Cardinality(Coming)
           /\ \A i \in Coming' : wire'[i].rpc # 0
  <1>0. /\ Len(wire) \in Nat /\ Len(wire) >= 1 /\ Len(wire') = Len(wire) - 1 /\ Len(wire') \in Nat
        /\ \A i \in 1 .. Len(wire) - 1 : wire'[i] = wire[i + 1]
    BY CodexHead
  <1> DEFINE S == Coming \ {1}
             T == {i \in 1 .. Len(wire) - 1 : wire[i + 1].kind = "ask"}
             f == [i \in T |-> i + 1]
  <1>1. Coming' = T
    BY <1>0 DEF Coming
  <1>2. IsFiniteSet(T) /\ Cardinality(T) \in Nat
    <2>1. IsFiniteSet(1 .. Len(wire) - 1)
      BY <1>0, FS_Interval
    <2>2. T \subseteq 1 .. Len(wire) - 1
      OBVIOUS
    <2> QED BY <2>1, <2>2, FS_Subset, FS_CardinalityType
  <1>3. IsFiniteSet(Coming) /\ Cardinality(Coming) \in Nat
    BY <1>0, ComingIsFinite
  <1>4. f \in [T -> S]
    BY <1>0 DEF Coming
  <1>5. \A i, j \in T : f[i] = f[j] => i = j
    BY <1>0
  <1>6. \A x \in S : \E i \in T : f[i] = x
    <2> SUFFICES ASSUME NEW x \in S PROVE \E i \in T : f[i] = x
      OBVIOUS
    <2>1. x \in 1 .. Len(wire) /\ x # 1 /\ wire[x].kind = "ask"
      BY DEF Coming
    <2>2. x - 1 \in 1 .. Len(wire) - 1 /\ (x - 1) + 1 = x
      BY <1>0, <2>1
    <2> QED BY <2>1, <2>2
  <1>7. ExistsBijection(T, S)
    <2> HIDE DEF T, S, f
    <2>1. f \in Bijection(T, S)
      BY <1>4, <1>5, <1>6 DEF Bijection, Injection, Surjection, IsInjective
    <2> QED BY <2>1 DEF ExistsBijection
  <1>8. Cardinality(S) = Cardinality(T)
    BY <1>2, <1>7, FS_Bijection
  <1>9. Cardinality(S) = IF 1 \in Coming THEN Cardinality(Coming) - 1 ELSE Cardinality(Coming)
    BY <1>3, FS_RemoveElement
  <1>10. 1 \in Coming <=> wire[1].kind = "ask"
    BY <1>0 DEF Coming
  <1>11. \A i \in T : wire'[i].rpc # 0
    <2> TAKE i \in T
    <2>1. i + 1 \in Coming /\ wire'[i] = wire[i + 1]
      BY <1>0 DEF Coming
    <2> QED BY <2>1 DEF CodexBound
  <1> QED BY <1>1, <1>2, <1>3, <1>8, <1>9, <1>10, <1>11

LEMMA ComingWrite ==
    ASSUME CodexServer, CodexBound, NEW m \in Codex!Message, wire' = Append(wire, m)
    PROVE  /\ Cardinality(Coming) \in Nat
           /\ Cardinality(Coming') = IF m.kind = "ask" THEN Cardinality(Coming) + 1 ELSE Cardinality(Coming)
           /\ (m.kind = "ask" => m.rpc # 0) => \A i \in Coming' : wire'[i].rpc # 0
  <1>0. /\ wire \in Seq(Codex!Message) /\ Len(wire) \in Nat /\ Len(wire') = Len(wire) + 1
        /\ wire'[Len(wire) + 1] = m /\ \A i \in 1 .. Len(wire) : wire'[i] = wire[i]
    BY DEF CodexServer
  <1>1. Coming' = IF m.kind = "ask" THEN Coming \cup {Len(wire) + 1} ELSE Coming
    BY <1>0 DEF Coming
  <1>2. IsFiniteSet(Coming) /\ Cardinality(Coming) \in Nat
    BY <1>0, ComingIsFinite
  <1>3. Len(wire) + 1 \notin Coming
    BY <1>0 DEF Coming
  <1>4. Cardinality(Coming \cup {Len(wire) + 1}) = Cardinality(Coming) + 1
    BY <1>2, <1>3, FS_AddElement
  <1>5. \A i \in Coming : i \in 1 .. Len(wire) /\ wire'[i] = wire[i] /\ wire[i].rpc # 0
    BY <1>0 DEF Coming, CodexBound
  <1> QED BY <1>0, <1>1, <1>2, <1>4, <1>5

\* What a step does with the approvals that were received.
AsksSame == UNCHANGED <<asks, answers>>
Settles(S) == Codex!Settle(S) /\ S \subseteq Codex!Open /\ UNCHANGED <<proc, spawned, wire, rpcs>>

LEMMA CodexSettles ==
    ASSUME Codex!TimeOutTurn \/ Codex!Stop \/ Codex!ResolveApproval
    PROVE  \E S : Settles(S)
  <1>1. CASE Codex!TimeOutTurn \/ Codex!Stop
    BY <1>1 DEF Codex!TimeOutTurn, Codex!Stop, Settles
  <1>2. CASE Codex!ResolveApproval
    <2>1. PICK i \in Codex!Open : Codex!Settle({i})
      BY <1>2 DEF Codex!ResolveApproval
    <2>2. Settles({i})
      BY <1>2, <2>1 DEF Codex!ResolveApproval, Settles
    <2> QED BY <2>2
  <1> QED BY <1>1, <1>2

LEMMA CodexAskSteps ==
    ASSUME CodexElse
    PROVE  AsksSame \/ (\E S : Settles(S)) \/ Codex!OnServerRequest
  <1>1. CASE Codex!Spawn \/ Codex!ShakeAnswered \/ Codex!ShakeFails \/ Codex!Abandoned \/ Codex!Exit
    BY <1>1 DEF Codex!Spawn, Codex!ShakeAnswered, Codex!ShakeFails, Codex!Abandoned, Codex!Exit, AsksSame
  <1>2. CASE Codex!Arm \/ Codex!Refused \/ Codex!RequestTimeout \/ Codex!StdinError
    BY <1>2 DEF Codex!Arm, Codex!Refused, Codex!RequestTimeout, Codex!StdinError, AsksSame
  <1>3. CASE Codex!TimeOutTurn \/ Codex!Stop \/ Codex!ResolveApproval
    BY <1>3, CodexSettles
  <1>5. CASE Codex!OnAccepted \/ Codex!OnRefused \/ Codex!OnTurnStarted \/ Codex!OnOutput \/ Codex!OnTurnCompleted
    BY <1>5 DEF Codex!OnAccepted, Codex!OnRefused, Codex!OnTurnStarted, Codex!OnOutput, Codex!OnTurnCompleted,
                AsksSame
  <1>6. CASE Codex!ServerTakes \/ Codex!ServerAccepts \/ Codex!ServerRefuses \/ Codex!ServerTalks
             \/ Codex!ServerAsks \/ Codex!ServerCompletes
    BY <1>6 DEF Codex!ServerTakes, Codex!ServerAccepts, Codex!ServerRefuses, Codex!ServerTalks,
                Codex!ServerAsks, Codex!ServerCompletes, AsksSame
  <1> QED BY <1>1, <1>2, <1>3, <1>5, <1>6 DEF CodexElse, Codex!Timers

\* Settling some open approvals leaves all else of them.
LEMMA SettlesAsks ==
    ASSUME CodexAsks, NEW S, Settles(S)
    PROVE  /\ S \subseteq 1 .. Len(asks) /\ Len(asks) \in Nat /\ Len(asks') = Len(asks)
           /\ asks' \in Seq([from : 1 .. MaxProcs, rpc : 1 .. MaxAsks, state : {"open", "settled"}])
           /\ \A i \in 1 .. Len(asks) :
                /\ asks'[i].from = asks[i].from /\ asks'[i].rpc = asks[i].rpc
                /\ asks'[i].state = IF i \in S THEN "settled" ELSE asks[i].state
           /\ \A i \in S : asks[i].state = "open"
  <1> DEFINE A == [from : 1 .. MaxProcs, rpc : 1 .. MaxAsks, state : {"open", "settled"}]
  <1>0. asks \in Seq(A)
    BY DEF CodexAsks
  <1>1. Len(asks) \in Nat /\ DOMAIN asks = 1 .. Len(asks) /\ \A i \in 1 .. Len(asks) : asks[i] \in A
    <2> HIDE DEF A
    <2> QED BY <1>0
  <1>2. asks' = [i \in DOMAIN asks |-> IF i \in S THEN [asks[i] EXCEPT !.state = "settled"] ELSE asks[i]]
    BY DEF Settles, Codex!Settle
  <1>3. \A i \in 1 .. Len(asks) :
          asks'[i] = IF i \in S THEN [from |-> asks[i].from, rpc |-> asks[i].rpc, state |-> "settled"] ELSE asks[i]
    BY <1>1, <1>2
  <1>4. \A i \in 1 .. Len(asks) : asks'[i] \in A
    <2> TAKE i \in 1 .. Len(asks)
    <2>1. asks[i] \in A
      BY <1>1
    <2>2. asks[i].from \in 1 .. MaxProcs /\ asks[i].rpc \in 1 .. MaxAsks
      BY <2>1
    <2>3. [from |-> asks[i].from, rpc |-> asks[i].rpc, state |-> "settled"] \in A
      BY <2>2
    <2> QED BY <1>3, <2>1, <2>3
  <1>7. S \subseteq 1 .. Len(asks) /\ \A i \in S : asks[i].state = "open"
    BY <1>1 DEF Settles, Codex!Open
  <1>8. \A i \in 1 .. Len(asks) :
                /\ asks'[i].from = asks[i].from /\ asks'[i].rpc = asks[i].rpc
                /\ asks'[i].state = IF i \in S THEN "settled" ELSE asks[i].state
    <2> TAKE i \in 1 .. Len(asks)
    <2>1. CASE i \in S
      <3>1. asks'[i] = [from |-> asks[i].from, rpc |-> asks[i].rpc, state |-> "settled"]
        BY <1>3, <2>1
      <3> QED BY <2>1, <3>1
    <2>2. CASE i \notin S
      BY <1>3, <2>2
    <2> QED BY <2>1, <2>2
  <1> HIDE DEF A
  <1>5. asks' \in [1 .. Len(asks) -> A]
    BY <1>1, <1>2, <1>4
  <1>6. asks' \in Seq(A) /\ Len(asks') = Len(asks)
    BY <1>1, <1>5
  <1> QED BY <1>1, <1>6, <1>7, <1>8 DEF A

\* A request that is read is appended to what was received, from the process
\* that lives.
LEMMA RequestAppends ==
    ASSUME CodexProcess, CodexServer, CodexQuiet, CodexAsks, CodexBound, Codex!OnServerRequest
    PROVE  /\ Len(asks) \in Nat /\ Len(asks) < MaxAsks /\ Len(asks') = Len(asks) + 1
           /\ asks' \in Seq([from : 1 .. MaxProcs, rpc : 1 .. MaxAsks, state : {"open", "settled"}])
           /\ \A i \in 1 .. Len(asks) : asks'[i] = asks[i]
           /\ asks'[Len(asks) + 1].from = proc /\ proc \in 1 .. MaxProcs /\ proc' = proc /\ spawned' = spawned
           /\ asks'[Len(asks) + 1].state = IF Codex!Owns(Head(wire)) THEN "open" ELSE "settled"
           /\ Head(wire).rpc \in 1 .. MaxAsks
           /\ UNCHANGED held
  <1> DEFINE A == [from : 1 .. MaxProcs, rpc : 1 .. MaxAsks, state : {"open", "settled"}]
             a == [from |-> proc, rpc |-> Head(wire).rpc, state |-> IF Codex!Owns(Head(wire)) THEN "open" ELSE "settled"]
  <1>0. MaxAsks \in Nat /\ MaxProcs \in Nat /\ asks \in Seq(A)
    BY BoundsAssumption DEF CodexAsks
  <1>1. wire # <<>> /\ Head(wire).kind = "ask" /\ asks' = Append(asks, a) /\ UNCHANGED <<proc, spawned, held>>
    BY DEF Codex!OnServerRequest, Codex!Reads
  <1>2. proc \in 1 .. MaxProcs
    BY <1>0, <1>1 DEF CodexQuiet, CodexProcess
  <1>3. Head(wire) = wire[1] /\ wire[1] \in Codex!Message /\ Len(wire) \in Nat /\ 1 \in Coming
    BY <1>1, CodexHead DEF Coming
  <1>4. Head(wire).rpc \in 1 .. MaxAsks
    <2>1. wire[1].rpc \in 0 .. MaxAsks
      BY <1>3 DEF Codex!Message
    <2>2. wire[1].rpc # 0
      BY <1>3 DEF CodexBound
    <2> QED BY <1>0, <1>3, <2>1, <2>2
  <1>5. a \in A /\ a.from = proc /\ a.state = IF Codex!Owns(Head(wire)) THEN "open" ELSE "settled"
    BY <1>2, <1>4
  <1>6. Cardinality(Coming) # 0 /\ Cardinality(Coming) \in Nat
    BY <1>3, ComingIsFinite, FS_EmptySet
  <1> HIDE DEF A, a
  <1>7. Len(asks) \in Nat /\ asks' \in Seq(A) /\ Len(asks') = Len(asks) + 1 /\ asks'[Len(asks) + 1] = a
        /\ \A i \in 1 .. Len(asks) : asks'[i] = asks[i]
    BY <1>0, <1>1, <1>5
  <1>8. Len(asks) < MaxAsks
    BY <1>0, <1>6, <1>7 DEF CodexBound
  <1> QED BY <1>1, <1>2, <1>4, <1>5, <1>7, <1>8 DEF A

\* The server's other messages ask for nothing.
LEMMA PlainWrites ==
    ASSUME CodexServer,
           Codex!ServerAccepts \/ Codex!ServerRefuses \/ Codex!ServerTalks \/ Codex!ServerCompletes
    PROVE  \E m \in Codex!Message : wire' = Append(wire, m) /\ m.kind # "ask"
  <1>1. PICK kind \in {"accepted", "refused", "started", "output", "completed"}, t \in Turns, name \in BOOLEAN :
            Codex!Says(kind, t, name, 0)
    <2>0. inbox \subseteq Turns /\ running \subseteq Turns /\ unreplied \subseteq Turns
      BY DEF CodexServer, Begun
    <2> QED BY <2>0 DEF Codex!ServerAccepts, Codex!ServerRefuses, Codex!ServerTalks, Codex!ServerCompletes
  <1>2. 0 \in 0 .. MaxAsks
    BY BoundsAssumption
  <1>3. PICK m : m = [kind |-> kind, turn |-> t, name |-> name, rpc |-> 0]
    OBVIOUS
  <1>4. wire' = Append(wire, m) /\ m \in Codex!Message /\ m.kind = kind
    BY <1>1, <1>2, <1>3, SaysWrites
  <1> QED BY <1>4

LEMMA CodexBoundKept ==
    ASSUME CodexProcess, CodexServer, CodexQuiet, CodexAsks, CodexBound,
           CodexBegins \/ CodexDeclines \/ CodexElse
    PROVE  CodexBound'
  <1>0. MaxAsks \in Nat /\ Len(wire) \in Nat /\ Len(asks) \in Nat /\ Cardinality(Coming) \in Nat
    <2>1. MaxAsks \in Nat /\ Len(wire) \in Nat /\ Len(asks) \in Nat
      BY BoundsAssumption DEF CodexServer, CodexAsks
    <2> QED BY <2>1, ComingIsFinite
  <1>1. CASE wire' = wire /\ Len(asks') = Len(asks) /\ rpcs' \in {0, rpcs}
    <2>1. Coming' = Coming /\ \A i \in Coming' : wire'[i].rpc # 0
      BY <1>1 DEF Coming, CodexBound
    <2> QED BY <1>0, <1>1, <2>1 DEF CodexBound
  <1>2. CASE CodexBegins \/ CodexDeclines
    BY <1>1, <1>2 DEF CodexBegins, CodexDeclines, sendElse
  <1>3. CASE Codex!Spawn \/ Codex!ShakeAnswered \/ Codex!Abandoned \/ Codex!StdinError
    <2>1. wire' = wire /\ Len(asks') = Len(asks) /\ rpcs' \in {0, rpcs}
      BY <1>3 DEF Codex!Spawn, Codex!ShakeAnswered, Codex!Abandoned, Codex!StdinError
    <2> QED BY <1>1, <2>1
  <1>4. CASE Codex!ShakeFails \/ Codex!Exit
    <2>1. wire' = wire /\ Len(asks') = Len(asks) /\ rpcs' \in {0, rpcs}
      BY <1>4 DEF Codex!ShakeFails, Codex!Exit, CodexQuiet
    <2> QED BY <1>1, <2>1
  <1>5. CASE Codex!Arm \/ Codex!Refused \/ Codex!RequestTimeout
    <2>1. wire' = wire /\ Len(asks') = Len(asks) /\ rpcs' \in {0, rpcs}
      BY <1>5 DEF Codex!Arm, Codex!Refused, Codex!RequestTimeout
    <2> QED BY <1>1, <2>1
  <1>6. CASE \E S : Settles(S)
    <2>1. wire' = wire /\ Len(asks') = Len(asks) /\ rpcs' \in {0, rpcs}
      BY <1>6, SettlesAsks DEF Settles
    <2> QED BY <1>1, <2>1
  <1>7. CASE Codex!OnAccepted \/ Codex!OnRefused \/ Codex!OnTurnStarted \/ Codex!OnOutput \/ Codex!OnTurnCompleted
    <2>1. wire # <<>> /\ wire' = Tail(wire) /\ Head(wire).kind # "ask" /\ UNCHANGED <<asks, rpcs>>
      BY <1>7 DEF Codex!OnAccepted, Codex!OnRefused, Codex!OnTurnStarted, Codex!OnOutput,
                  Codex!OnTurnCompleted, Codex!Reads
    <2>2. Cardinality(Coming') = Cardinality(Coming) /\ \A i \in Coming' : wire'[i].rpc # 0
      BY <2>1, CodexHead, ComingRead
    <2> QED BY <2>1, <2>2 DEF CodexBound
  <1>8. CASE Codex!OnServerRequest
    <2>1. wire # <<>> /\ wire' = Tail(wire) /\ Head(wire).kind = "ask" /\ rpcs' = rpcs
      BY <1>8 DEF Codex!OnServerRequest, Codex!Reads
    <2>2. Cardinality(Coming') = Cardinality(Coming) - 1 /\ \A i \in Coming' : wire'[i].rpc # 0
      BY <2>1, CodexHead, ComingRead
    <2>3. Len(asks') = Len(asks) + 1
      BY <1>8, RequestAppends
    <2>4. Len(asks') + Cardinality(Coming') = Len(asks) + Cardinality(Coming)
      BY <1>0, <2>2, <2>3
    <2> QED BY <2>1, <2>2, <2>4 DEF CodexBound
  <1>9. CASE Codex!ServerTakes
    <2>1. wire' = wire /\ Len(asks') = Len(asks) /\ rpcs' \in {0, rpcs}
      BY <1>9 DEF Codex!ServerTakes
    <2> QED BY <1>1, <2>1
  <1>10. CASE Codex!ServerAccepts \/ Codex!ServerRefuses \/ Codex!ServerTalks \/ Codex!ServerCompletes
    <2>0. UNCHANGED <<asks, rpcs>>
      BY <1>10 DEF Codex!ServerAccepts, Codex!ServerRefuses, Codex!ServerTalks, Codex!ServerCompletes
    <2>1. PICK m \in Codex!Message : wire' = Append(wire, m) /\ m.kind # "ask"
      BY <1>10, PlainWrites
    <2>2. Cardinality(Coming') = Cardinality(Coming) /\ \A i \in Coming' : wire'[i].rpc # 0
      BY <2>1, ComingWrite
    <2> QED BY <2>0, <2>2 DEF CodexBound
  <1>11. CASE Codex!ServerAsks
    <2>1. PICK t \in running, name \in BOOLEAN : Codex!Says("ask", t, name, rpcs + 1)
      BY <1>11 DEF Codex!ServerAsks
    <2>2. rpcs + 1 \in 0 .. MaxAsks /\ Len(asks) + Cardinality(Coming) < MaxAsks /\ t \in Turns
          /\ asks' = asks /\ rpcs' = rpcs + 1
      BY <1>11, AskFits DEF Codex!ServerAsks, CodexServer, Begun
    <2>3. PICK m : m = [kind |-> "ask", turn |-> t, name |-> name, rpc |-> rpcs + 1]
      OBVIOUS
    <2>4. wire' = Append(wire, m) /\ m \in Codex!Message /\ m.kind = "ask" /\ m.rpc = rpcs + 1
      BY <2>1, <2>2, <2>3, SaysWrites
    <2>5. m.rpc # 0
      BY <2>4 DEF CodexBound
    <2>6. Cardinality(Coming') = Cardinality(Coming) + 1 /\ \A i \in Coming' : wire'[i].rpc # 0
      BY <2>4, <2>5, ComingWrite
    <2> QED BY <1>0, <2>2, <2>6 DEF CodexBound
  <1> QED BY <1>2, <1>3, <1>4, <1>5, <1>6, <1>7, <1>8, <1>9, <1>10, <1>11, CodexSettles DEF CodexElse, Codex!Timers

\* The process stays, goes, or is one that was not there.
LEMMA CodexProcs ==
    ASSUME CodexBegins \/ CodexDeclines \/ CodexElse
    PROVE  (proc' = proc /\ spawned' = spawned) \/ (proc' = 0 /\ spawned' = spawned)
           \/ (proc' = spawned + 1 /\ spawned' = spawned + 1)
  <1>1. CASE CodexBegins \/ CodexDeclines
    BY <1>1 DEF CodexBegins, CodexDeclines, sendElse
  <1>2. CASE Codex!Spawn \/ Codex!ShakeAnswered \/ Codex!ShakeFails \/ Codex!Abandoned \/ Codex!Stop \/ Codex!Exit
    BY <1>2 DEF Codex!Spawn, Codex!ShakeAnswered, Codex!ShakeFails, Codex!Abandoned, Codex!Stop, Codex!Exit
  <1>3. CASE Codex!Timers \/ Codex!StdinError \/ Codex!ResolveApproval
    BY <1>3 DEF Codex!Timers, Codex!Arm, Codex!Refused, Codex!RequestTimeout, Codex!TimeOutTurn,
                Codex!StdinError, Codex!ResolveApproval
  <1>4. CASE Codex!OnAccepted \/ Codex!OnRefused \/ Codex!OnTurnStarted \/ Codex!OnOutput
             \/ Codex!OnTurnCompleted \/ Codex!OnServerRequest
    BY <1>4 DEF Codex!OnAccepted, Codex!OnRefused, Codex!OnTurnStarted, Codex!OnOutput,
                Codex!OnTurnCompleted, Codex!OnServerRequest
  <1>5. CASE Codex!ServerTakes \/ Codex!ServerAccepts \/ Codex!ServerRefuses \/ Codex!ServerTalks
             \/ Codex!ServerAsks \/ Codex!ServerCompletes
    BY <1>5 DEF Codex!ServerTakes, Codex!ServerAccepts, Codex!ServerRefuses, Codex!ServerTalks,
                Codex!ServerAsks, Codex!ServerCompletes
  <1> QED BY <1>1, <1>2, <1>3, <1>4, <1>5 DEF CodexElse

\* An answer that a step writes: to the process that is held, for an approval
\* that is settled with it.
NewAnswer(x) ==
    /\ x = [to |-> held, rpc |-> asks'[x.ask].rpc, ask |-> x.ask]
    /\ held = proc /\ proc' = proc /\ proc \in 1 .. MaxProcs
    /\ x.ask \in 1 .. Len(asks') /\ asks'[x.ask].state = "settled" /\ asks'[x.ask].rpc \in 1 .. MaxAsks
    /\ x.ask \in 1 .. Len(asks) => asks[x.ask].state = "open"

AsksGrow ==
    /\ Len(asks) \in Nat /\ Len(asks') \in Nat /\ Len(asks) <= Len(asks')
    /\ \A i \in 1 .. Len(asks) :
          /\ asks'[i].from = asks[i].from
          /\ asks[i].state = "settled" => asks'[i].state = "settled"
    /\ answers \subseteq answers'
    /\ \A x \in answers' : x \notin answers => NewAnswer(x)

LEMMA RequestNumber ==
    ASSUME CodexAsks, Codex!OnServerRequest
    PROVE  asks'[Len(asks) + 1].rpc = Head(wire).rpc
  <1> DEFINE A == [from : 1 .. MaxProcs, rpc : 1 .. MaxAsks, state : {"open", "settled"}]
             a == [from |-> proc, rpc |-> Head(wire).rpc, state |-> IF Codex!Owns(Head(wire)) THEN "open" ELSE "settled"]
  <1>1. asks' = Append(asks, a) /\ asks \in Seq(A) /\ a.rpc = Head(wire).rpc
    BY DEF Codex!OnServerRequest, CodexAsks
  <1> HIDE DEF A, a
  <1>2. asks'[Len(asks) + 1] = a
    BY <1>1
  <1> QED BY <1>1, <1>2

\* Each approval received has its type.
LEMMA AskTyped ==
    ASSUME CodexAsks, NEW i \in 1 .. Len(asks)
    PROVE  /\ asks[i].from \in 1 .. MaxProcs /\ asks[i].rpc \in 1 .. MaxAsks
           /\ asks[i].state \in {"open", "settled"} /\ asks[i].from <= spawned
  <1> DEFINE A == [from : 1 .. MaxProcs, rpc : 1 .. MaxAsks, state : {"open", "settled"}]
  <1>1. asks \in Seq(A) /\ asks[i].from <= spawned
    BY DEF CodexAsks
  <1> HIDE DEF A
  <1>2. asks[i] \in A
    BY <1>1
  <1> QED BY <1>1, <1>2 DEF A

LEMMA CodexAsksKept ==
    ASSUME CodexProcess, CodexServer, CodexQuiet, CodexAsks, CodexBound,
           CodexBegins \/ CodexDeclines \/ CodexElse
    PROVE  CodexAsks' /\ AsksGrow
  <1> DEFINE A == [from : 1 .. MaxProcs, rpc : 1 .. MaxAsks, state : {"open", "settled"}]
  <1>0. MaxProcs \in Nat /\ spawned \in Nat /\ spawned' \in Nat /\ spawned <= spawned'
        /\ Len(asks) \in Nat /\ proc <= spawned
    BY BoundsAssumption, CodexProcs DEF CodexProcess, CodexAsks
  <1>1. \A i \in 1 .. Len(asks) : asks[i].from \in 1 .. MaxProcs /\ asks[i].rpc \in 1 .. MaxAsks /\ asks[i].from <= spawned
    BY AskTyped
  <1>2. CASE AsksSame
    <2>1. asks' = asks /\ answers' = answers
      BY <1>2 DEF AsksSame
    <2>2. CodexAsks'
      BY <1>0, <1>1, <2>1 DEF CodexAsks
    <2> QED BY <1>0, <2>1, <2>2 DEF AsksGrow
  <1>3. CASE \E S : Settles(S)
    <2>1. PICK S : Settles(S)
      BY <1>3
    <2>2. /\ S \subseteq 1 .. Len(asks) /\ Len(asks') = Len(asks) /\ asks' \in Seq(A)
          /\ \A i \in 1 .. Len(asks) :
                /\ asks'[i].from = asks[i].from /\ asks'[i].rpc = asks[i].rpc
                /\ asks'[i].state = IF i \in S THEN "settled" ELSE asks[i].state
          /\ \A i \in S : asks[i].state = "open"
      BY <2>1, SettlesAsks
    <2> HIDE DEF A
    <2>3. \A i \in 1 .. Len(asks') : asks'[i].from <= spawned'
      BY <1>0, <1>1, <2>2
    <2>4. CodexAsks'
      BY <2>2, <2>3 DEF CodexAsks, A
    <2>5. /\ answers' = IF held = 0 THEN answers
                        ELSE answers \cup {[to |-> held, rpc |-> asks[i].rpc, ask |-> i] : i \in S}
          /\ proc' = proc
      BY <2>1 DEF Settles, Codex!Settle
    <2>6. ASSUME NEW x \in answers', x \notin answers PROVE NewAnswer(x)
      <3>1. held # 0
        BY <2>5, <2>6
      <3>2. PICK i \in S : x = [to |-> held, rpc |-> asks[i].rpc, ask |-> i]
        BY <2>5, <2>6, <3>1
      <3>3. held = proc /\ proc \in 1 .. MaxProcs
        BY <1>0, <3>1 DEF CodexProcess
      <3>4. x.ask = i /\ i \in 1 .. Len(asks)
        BY <2>2, <3>2
      <3> QED BY <1>1, <2>2, <2>5, <3>2, <3>3, <3>4 DEF NewAnswer
    <2> QED BY <1>0, <2>2, <2>4, <2>5, <2>6 DEF AsksGrow
  <1>4. CASE Codex!OnServerRequest
    <2> DEFINE n == Len(asks) + 1
    <2>1. /\ Len(asks') = n /\ asks' \in Seq(A)
          /\ \A i \in 1 .. Len(asks) : asks'[i] = asks[i]
          /\ asks'[n].from = proc /\ proc \in 1 .. MaxProcs /\ proc' = proc /\ spawned' = spawned
          /\ asks'[n].state = IF Codex!Owns(Head(wire)) THEN "open" ELSE "settled"
          /\ Head(wire).rpc \in 1 .. MaxAsks
      BY <1>4, RequestAppends
    <2>2. asks'[n].rpc = Head(wire).rpc
      BY <1>4, RequestNumber
    <2>3. \A i \in 1 .. Len(asks') : asks'[i].from <= spawned'
      <3> TAKE i \in 1 .. Len(asks')
      <3>1. i \in 1 .. Len(asks) \/ i = n
        BY <1>0, <2>1
      <3> QED BY <1>0, <1>1, <2>1, <3>1
    <2>4. CodexAsks'
      BY <2>1, <2>3 DEF CodexAsks
    <2>5. answers' = IF Codex!Owns(Head(wire)) \/ held = 0 THEN answers
                     ELSE answers \cup {[to |-> held, rpc |-> Head(wire).rpc, ask |-> n]}
      BY <1>4 DEF Codex!OnServerRequest
    <2>6. ASSUME NEW x \in answers', x \notin answers PROVE NewAnswer(x)
      <3>1. held # 0 /\ ~Codex!Owns(Head(wire)) /\ x = [to |-> held, rpc |-> Head(wire).rpc, ask |-> n]
        BY <2>5, <2>6
      <3>2. held = proc
        BY <3>1 DEF CodexProcess
      <3>3. x.ask = n /\ n \in 1 .. Len(asks') /\ n \notin 1 .. Len(asks)
        BY <1>0, <2>1, <3>1
      <3> HIDE DEF n
      <3> QED BY <2>1, <2>2, <3>1, <3>2, <3>3 DEF NewAnswer
    <2>7. Len(asks) <= Len(asks') /\ Len(asks') \in Nat /\ answers \subseteq answers'
      BY <1>0, <2>1, <2>5
    <2> QED BY <1>0, <2>1, <2>4, <2>6, <2>7 DEF AsksGrow
  <1>5. CASE CodexBegins \/ CodexDeclines
    BY <1>2, <1>5 DEF CodexBegins, CodexDeclines, sendElse, AsksSame
  <1> QED BY <1>2, <1>3, <1>4, <1>5, CodexAskSteps

\* The approvals received are within the bound.
LEMMA AsksWithin ==
    ASSUME CodexBound, CodexAsks, CodexServer
    PROVE  Len(asks) \in Nat /\ Len(asks) <= MaxAsks
  <1>1. Len(asks) \in Nat /\ Len(wire) \in Nat /\ MaxAsks \in Nat
    BY BoundsAssumption DEF CodexAsks, CodexServer
  <1>2. Cardinality(Coming) \in Nat
    BY <1>1, ComingIsFinite
  <1> QED BY <1>1, <1>2 DEF CodexBound

\* Each answer goes to the process that asked, and no approval is answered twice.
LEMMA CodexAnswersKept ==
    ASSUME CodexProcess, CodexAsks, CodexAnswers, Codex!AnswersReachAsker, AsksGrow, Len(asks') <= MaxAsks,
           CodexBegins \/ CodexDeclines \/ CodexElse
    PROVE  CodexAnswers' /\ Codex!AnswersReachAsker'
  <1>0. MaxProcs \in Nat /\ MaxAsks \in Nat /\ Len(asks) \in Nat /\ Len(asks') \in Nat /\ Len(asks') <= MaxAsks
    BY BoundsAssumption DEF AsksGrow
  <1>1. ASSUME NEW x \in answers
        PROVE  /\ x.ask \in 1 .. Len(asks) /\ asks[x.ask].state = "settled" /\ asks'[x.ask].state = "settled"
               /\ x \in [to : 1 .. MaxProcs, rpc : 1 .. MaxAsks, ask : 1 .. MaxAsks]
               /\ x.to # asks'[x.ask].from => asks'[x.ask].from # proc'
    <2>1. x.ask \in 1 .. Len(asks) /\ asks[x.ask].state = "settled"
          /\ x \in [to : 1 .. MaxProcs, rpc : 1 .. MaxAsks, ask : 1 .. MaxAsks]
      BY DEF CodexAnswers
    <2>2. asks[x.ask].from <= spawned /\ asks[x.ask].from \in 1 .. MaxProcs
      BY <2>1, AskTyped
    <2>3. asks'[x.ask].from = asks[x.ask].from /\ asks'[x.ask].state = "settled"
      BY <2>1 DEF AsksGrow
    <2>4. x.to # asks[x.ask].from => asks[x.ask].from # proc
      BY DEF Codex!AnswersReachAsker
    <2>5. proc' = proc \/ proc' = 0 \/ proc' = spawned + 1
      BY CodexProcs
    <2>6. asks[x.ask].from # 0 /\ asks[x.ask].from # spawned + 1
      BY <1>0, <2>2 DEF CodexProcess
    <2> QED BY <2>1, <2>3, <2>4, <2>5, <2>6
  <1>2. ASSUME NEW x \in answers', x \notin answers
        PROVE  /\ NewAnswer(x) /\ asks'[x.ask].state = "settled" /\ x.ask \in 1 .. Len(asks')
               /\ x \in [to : 1 .. MaxProcs, rpc : 1 .. MaxAsks, ask : 1 .. MaxAsks]
               /\ x.to = proc'
    <2>1. NewAnswer(x)
      BY <1>2 DEF AsksGrow
    <2>2. x.ask \in 1 .. MaxAsks
      BY <1>0, <2>1 DEF NewAnswer
    <2>3. PICK r \in 1 .. MaxAsks, i \in 1 .. MaxAsks, p \in 1 .. MaxProcs :
             x = [to |-> p, rpc |-> r, ask |-> i] /\ p = proc'
      BY <2>1, <2>2 DEF NewAnswer
    <2> QED BY <2>1, <2>3 DEF NewAnswer
  <1>3. CodexAnswers'
    <2>1. answers' \subseteq [to : 1 .. MaxProcs, rpc : 1 .. MaxAsks, ask : 1 .. MaxAsks]
      BY <1>1, <1>2
    <2>2. \A x \in answers' : x.ask \in 1 .. Len(asks') /\ asks'[x.ask].state = "settled"
      BY <1>0, <1>1, <1>2 DEF AsksGrow
    <2> QED BY <2>1, <2>2 DEF CodexAnswers
  <1>4. ASSUME NEW x \in answers', NEW y \in answers', x.ask = y.ask PROVE x = y
    <2>1. CASE x \in answers /\ y \in answers
      BY <1>4, <2>1 DEF Codex!AnswersReachAsker
    <2>2. CASE x \notin answers /\ y \notin answers
      BY <1>2, <1>4, <2>2 DEF NewAnswer
    <2>3. CASE x \in answers /\ y \notin answers
      BY <1>1, <1>2, <1>4, <2>3 DEF NewAnswer
    <2>4. CASE x \notin answers /\ y \in answers
      BY <1>1, <1>2, <1>4, <2>4 DEF NewAnswer
    <2> QED BY <2>1, <2>2, <2>3, <2>4
  <1>5. ASSUME NEW x \in answers' PROVE x.to # asks'[x.ask].from => asks'[x.ask].from # proc'
    BY <1>1, <1>2
  <1> QED BY <1>3, <1>4, <1>5 DEF Codex!AnswersReachAsker

\* What a Codex adapter starts from.
LEMMA CodexInvInit ==
    ASSUME Codex!Init
    PROVE  CodexInv
  <1>0. MaxTurns \in Nat /\ MaxProcs \in Nat /\ MaxAsks \in Nat /\ 0 \notin Turns
    BY BoundsAssumption DEF Turns
  <1>1. /\ proc = 0 /\ spawned = 0 /\ held = 0 /\ ready = FALSE /\ resume \in {"good", "stale"}
        /\ shake = "no" /\ call = "idle" /\ turn = 0 /\ named = 0 /\ asked = {}
        /\ watched = FALSE /\ abandoned = {} /\ unnamedLeft = FALSE
        /\ asks = <<>> /\ stopped = FALSE /\ wire = <<>>
        /\ inbox = {} /\ unreplied = {} /\ running = {} /\ rpcs = 0
        /\ phase = [t \in Turns |-> "new"] /\ endedBy = [t \in Turns |-> "none"]
        /\ misread = {} /\ answers = {}
    BY CodexNames DEF Codex!Init
  <1>2. Begun = {} /\ Begun = 1 .. 0
    BY <1>1 DEF Begun
  <1>3. CodexTurns
    <2>1. phase \in [Turns -> Phases] /\ endedBy \in [Turns -> Codex!Causes]
      BY <1>1 DEF Phases, Codex!Causes
    <2>2. Numbered
      BY <1>0, <1>2 DEF Numbered
    <2>3. \A t \in Turns : (phase[t] = "running" <=> t = turn) /\ endedBy[t] = "none"
      BY <1>0, <1>1
    <2> QED BY <1>0, <1>1, <2>1, <2>2, <2>3 DEF CodexTurns, TurnInFlight
  <1>4. CodexProcess /\ CodexCall /\ CodexRoom /\ CodexQuiet /\ CodexNamed
    <2>1. CodexProcess
      <3>1. /\ proc = 0 /\ spawned = 0 /\ held = 0 /\ ready \in BOOLEAN /\ stopped \in BOOLEAN
            /\ shake = "no" /\ resume \in {"none", "good", "stale"}
        BY <1>1
      <3> QED BY <1>0, <3>1 DEF CodexProcess
    <2>2. CodexCall /\ CodexRoom
      <3>1. /\ call = "idle" /\ turn = 0 /\ named = 0 /\ asked = {} /\ abandoned = {}
            /\ ~watched /\ watched \in BOOLEAN /\ unnamedLeft \in BOOLEAN
        BY <1>1
      <3> QED BY <1>0, <3>1 DEF CodexCall, CodexRoom
    <2>3. CodexQuiet /\ CodexNamed
      BY <1>1 DEF CodexQuiet, CodexNamed
    <2> QED BY <2>1, <2>2, <2>3
  <1>5. CodexServer /\ CodexRefused /\ CodexRemembered
    BY <1>1 DEF CodexServer, CodexRefused, CodexRemembered, Silent, SilentFrom
  <1>6. MisreadType /\ Codex!NothingMisread /\ CodexAnswers /\ Codex!AnswersReachAsker
    BY <1>1 DEF MisreadType, Codex!NothingMisread, CodexAnswers, Codex!AnswersReachAsker
  <1>7. CodexBound /\ CodexAsks
    <2>1. Coming = {}
      BY <1>1 DEF Coming
    <2>2. Cardinality(Coming) = 0
      BY <2>1, FS_EmptySet
    <2> QED BY <1>0, <1>1, <2>1, <2>2 DEF CodexBound, CodexAsks
  <1> QED BY <1>3, <1>4, <1>5, <1>6, <1>7 DEF CodexInv

\* Every step of a Codex adapter or its server keeps the invariant.
LEMMA CodexInvKept ==
    ASSUME CodexInv, Codex!Next
    PROVE  CodexInv'
  <1> USE DEF CodexInv
  <1>0. CodexBegins \/ CodexDeclines \/ CodexElse
    BY CodexSteps
  <1>1. CodexTurns' /\ Begun \subseteq Begun'
    BY CodexTurnsKept
  <1>2. CodexProcess' /\ CodexCall' /\ CodexRoom'
    BY CodexProcessKept, CodexCallKept, CodexRoomKept
  <1>3. WireStep
    BY <1>0, CodexWireSteps
  <1>4. CodexServer' /\ CodexQuiet'
    BY <1>0, <1>1, <1>3, CodexServerKept, CodexQuietKept
  <1>5. CodexElse => KeepsTurns \/ \E c : EndsTurn(c)
    BY CodexTurnSteps
  <1>6. TurnStep
    BY <1>0, <1>5 DEF TurnStep, CodexBegins, CodexDeclines
  <1>7. Codex!NothingMisread' /\ MisreadType' /\ misread \subseteq misread'
    BY <1>0, <1>6, CodexMisreadKept
  <1>8. CodexNamed' /\ CodexRefused'
    BY <1>0, <1>3, <1>7, CodexNamedKept, CodexRefusedKept
  <1>9. CodexRemembered'
    <2>1. Begun' \subseteq Turns
      BY DEF Begun, Turns
    <2> QED BY <1>0, <1>3, <1>4, <1>5, <1>6, <1>7, <2>1, CodexRememberedKept
  <1>10. CodexBound'
    BY <1>0, CodexBoundKept
  <1>11. CodexAsks' /\ AsksGrow
    BY <1>0, CodexAsksKept
  <1>12. CodexAnswers' /\ Codex!AnswersReachAsker'
    <2>1. Len(asks') \in Nat /\ Len(wire') \in Nat /\ MaxAsks \in Nat
      BY <1>4, <1>11, BoundsAssumption DEF CodexServer, AsksGrow
    <2>2. Cardinality(Coming') \in Nat
      <3>1. IsFiniteSet(1 .. Len(wire'))
        BY <2>1, FS_Interval
      <3>2. IsFiniteSet(Coming')
        BY <3>1, FS_Subset DEF Coming
      <3> QED BY <3>2, FS_CardinalityType
    <2>3. Len(asks') <= MaxAsks
      BY <1>10, <2>1, <2>2 DEF CodexBound
    <2> QED BY <1>0, <1>11, <2>3, CodexAnswersKept
  <1> QED BY <1>1, <1>2, <1>4, <1>7, <1>8, <1>9, <1>10, <1>11, <1>12

\* With it, every variable has its type.
LEMMA CodexInvTypes ==
    ASSUME CodexInv
    PROVE  Codex!TypeOK
  <1> USE DEF CodexInv
  <1>0. MaxTurns \in Nat /\ MaxProcs \in Nat /\ MaxAsks \in Nat
    BY BoundsAssumption
  <1>1. /\ phase \in [Turns -> Phases] /\ endedBy \in [Turns -> Codex!Causes] /\ turn \in 0 .. MaxTurns
        /\ turn # 0 => phase[turn] = "running"
    BY <1>0 DEF CodexTurns, TurnInFlight, Turns
  <1>2. /\ proc \in 0 .. MaxProcs /\ spawned \in 0 .. MaxProcs /\ held \in {0, proc}
        /\ ready \in BOOLEAN /\ resume \in {"none", "good", "stale"}
        /\ shake \in {"no", "initialize", "resume", "thread", "abandon"} /\ stopped \in BOOLEAN
    BY DEF CodexProcess
  <1>3. wire \in Seq(Codex!Message) /\ inbox \subseteq Turns /\ running \subseteq Turns /\ unreplied \subseteq Turns
    BY DEF CodexServer, Begun
  <1>4. rpcs \in 0 .. MaxAsks
    <2>1. Len(wire) \in Nat /\ Len(asks) \in Nat
      BY DEF CodexServer, CodexAsks
    <2>2. Cardinality(Coming) \in Nat
      BY <2>1, ComingIsFinite
    <2> QED BY <1>0, <2>1, <2>2 DEF CodexBound
  <1>5. \A i \in DOMAIN asks : asks[i] \in [from : 1 .. MaxProcs, rpc : 1 .. MaxAsks, state : {"open", "settled"}]
    <2> DEFINE A == [from : 1 .. MaxProcs, rpc : 1 .. MaxAsks, state : {"open", "settled"}]
    <2>1. asks \in Seq(A)
      BY DEF CodexAsks
    <2> HIDE DEF A
    <2>2. \A i \in DOMAIN asks : asks[i] \in A
      BY <2>1
    <2> QED BY <2>2 DEF A
  <1>6. answers \subseteq [to : 1 .. MaxProcs, rpc : 1 .. MaxAsks, ask : 1 .. MaxAsks]
    BY DEF CodexAnswers
  <1>7. Codex!Turns = Turns /\ Codex!Asks = 1 .. MaxAsks
    BY CodexNames DEF Codex!Asks
  <1> HIDE DEF CodexInv
  <1>8. CodexCall /\ misread \subseteq Turns \X Turns
    BY DEF CodexInv, MisreadType
  <1> QED BY <1>1, <1>2, <1>3, <1>4, <1>5, <1>6, <1>7, <1>8 DEF Codex!TypeOK, CodexCall, Phases

-----------------------------------------------------------------------------
(* Claude: the parts of the invariant. *)

Procs == 1 .. MaxProcs
Alive(p) == status[p] \in {"alive", "termed"}

\* The adapter let turn u go while its process was working on it, or took the
\* result of another turn for its own.
ClaudeExcused(u) == endedBy[u] = "stdin" \/ \E q \in misread : q[1] = u

ClaudeTurns == TurnInFlight /\ endedBy \in [Turns -> Claude!Causes]

\* Of the processes of the adapter in use at most one lives, the child unless it
\* is stopping.
ClaudeProcess ==
    /\ gen \in 1 .. MaxGens /\ child \in 0 .. MaxProcs /\ stopping \in {"no", "waiting", "done"}
    /\ handler \in 0 .. MaxGens
    /\ status \in [Procs -> {"new", "alive", "termed", "gone"}] /\ owner \in [Procs -> 0 .. MaxGens]
    /\ \A p \in Procs : owner[p] <= gen
    /\ \A p \in Procs : status[p] = "new" <=> owner[p] = 0
    /\ child # 0 => Alive(child) /\ owner[child] = gen
    /\ \A p \in Procs : Alive(p) /\ owner[p] = gen /\ stopping = "no" => p = child
    /\ \A p, q \in Procs : Alive(p) /\ Alive(q) /\ owner[p] = gen /\ owner[q] = gen => p = q

\* A process works off its turns in the order they were given; one of the adapter
\* in use has the turn in flight, or turns that were let go.
WorkOf(p) ==
    /\ ~Alive(p) => todo[p] = <<>>
    /\ \A i \in 1 .. Len(todo[p]) : todo[p][i] \in Begun
    /\ \A i, j \in 1 .. Len(todo[p]) : i < j => todo[p][i] < todo[p][j]
    /\ owner[p] = gen => \A i \in 1 .. Len(todo[p]) : todo[p][i] = turn \/ ClaudeExcused(todo[p][i])
ClaudeWork ==
    /\ todo \in [Procs -> Seq(Turns)]
    /\ \A p \in Procs : WorkOf(p)

\* A call on its way to the bridge belongs to a turn that its process works on, or
\* that was interrupted; what goes ahead the operator allowed.
Works(p, t) == \E j \in 1 .. Len(todo[p]) : todo[p][j] = t
ClaudeAsks ==
    /\ asks \in Seq(Claude!Ask) /\ Len(asks) <= MaxAsks
    /\ \A i \in 1 .. Len(asks) :
          /\ asks[i].turn \in Begun
          /\ asks[i].at = "relay" => asks[i].verdict = "none" /\ asks[i].by = 0
          /\ asks[i].verdict = "allow" => asks[i].at = "settled" /\ asks[i].operator = "allow"
ClaudeRelays ==
    \A i \in 1 .. Len(asks) : asks[i].at = "relay" =>
       /\ Alive(asks[i].proc)
       /\ asks[i].turn \in cancelled \/ Works(asks[i].proc, asks[i].turn)

\* A process is told to go only for an interrupt, or when the adapter stops.
ClaudeInterrupts ==
    /\ interrupts \subseteq Procs \X Turns /\ cancelled \subseteq Turns /\ unacked \subseteq Begun
    /\ \A i \in interrupts : i[2] \in Begun
    /\ \A p \in Procs : status[p] = "termed" /\ owner[p] = gen /\ stopping = "no" => unacked # {}

ClaudeMisread == misread \subseteq Turns \X Turns \X BOOLEAN

ClaudeInv ==
    /\ ClaudeTurns /\ ClaudeProcess /\ ClaudeWork /\ ClaudeAsks /\ ClaudeRelays /\ ClaudeInterrupts
    /\ ClaudeMisread /\ Claude!NothingMisread /\ Claude!KilledForInterrupt

-----------------------------------------------------------------------------
(* Claude: what a step does. *)

USE DEF Claude!adapterVars, Claude!cliVars, Claude!turnVars, Claude!controlVars

LEMMA ClaudeNames ==
    /\ Claude!Turns = Turns /\ Claude!Begun = Begun /\ Claude!Procs = Procs
    /\ Claude!Cardinality(Claude!Begun) = Cardinality(Begun)
    /\ Claude!Live = {p \in Procs : Alive(p)}
  <1>1. Claude!Turns = Turns /\ Claude!Begun = Begun /\ Claude!Procs = Procs
    BY DEF Claude!Turns, Claude!Begun, Claude!Procs, Turns, Begun, Procs
  <1>2. \A S : Claude!Cardinality(S) = Cardinality(S)
    BY DEF Claude!Cardinality, Cardinality
  <1>3. Claude!Live = {p \in Procs : Alive(p)}
    BY <1>1 DEF Claude!Live, Alive
  <1> QED BY <1>1, <1>2, <1>3

\* A set of numbers has a least one.
LEMMA LeastOne ==
    ASSUME NEW S \in SUBSET Nat, S # {}
    PROVE  \E m \in S : \A n \in S : m <= n
  <1> DEFINE less == OpToRel(<, Nat)
  <1>1. \A x, y \in Nat : <<x, y>> \in less <=> x < y
    BY DEF OpToRel
  <1>2. IsWellFoundedOn(less, Nat)
    BY NatLessThanWellFounded
  <1> HIDE DEF less
  <1>3. PICK m \in S : \A n \in S : ~(<<n, m>> \in less)
    BY <1>2, WFMin
  <1>4. \A n \in S : ~(n < m)
    BY <1>1, <1>3
  <1> QED BY <1>4

\* sendTurn gives the next turn to the child, or to a new process.
ClaudeSends(p) ==
    /\ BeginsTurn /\ stopping = "no"
    /\ \/ child = p /\ child # 0 /\ UNCHANGED <<status, owner, handler>>
       \/ /\ child = 0 /\ status[p] = "new" /\ handler' = gen
          /\ status' = [status EXCEPT ![p] = "alive"] /\ owner' = [owner EXCEPT ![p] = gen]
    /\ child' = p /\ todo' = [todo EXCEPT ![p] = Append(todo[p], turn')]
    /\ UNCHANGED <<gen, stopping, interrupts, cancelled, unacked, asks, misread>>

LEMMA ClaudeSendsOne ==
    ASSUME ClaudeProcess, ClaudeWork, Claude!SendTurn
    PROVE  \E p \in Procs : ClaudeSends(p)
  <1> DEFINE fresh == {q \in Procs : status[q] = "new"}
             p == IF child # 0 THEN child ELSE CHOOSE q \in fresh : \A r \in fresh : q <= r
  <1>0. MaxProcs \in Nat
    BY BoundsAssumption
  <1>1. BeginsTurn /\ stopping = "no" /\ (child # 0 \/ fresh # {})
        /\ UNCHANGED <<gen, stopping, interrupts, cancelled, unacked, asks, misread>>
    BY ClaudeNames DEF Claude!SendTurn, BeginsTurn
  <1>2. /\ child' = p
        /\ handler' = IF child # 0 THEN handler ELSE gen
        /\ status' = IF child # 0 THEN status ELSE [status EXCEPT ![p] = "alive"]
        /\ owner' = [owner EXCEPT ![p] = gen]
        /\ todo' = [todo EXCEPT ![p] = Append(todo[p], Cardinality(Begun) + 1)]
    BY ClaudeNames DEF Claude!SendTurn
  <1>3. turn' = Cardinality(Begun) + 1
    BY <1>1 DEF BeginsTurn
  <1>4. CASE child # 0
    <2>1. p = child /\ child \in Procs
      BY <1>0, <1>4 DEF ClaudeProcess, Procs
    <2> HIDE DEF p
    <2>2. owner' = owner
      BY <1>2, <1>4, <2>1 DEF ClaudeProcess
    <2>3. status' = status /\ handler' = handler
      BY <1>2, <1>4
    <2> QED BY <1>1, <1>2, <1>3, <1>4, <2>1, <2>2, <2>3 DEF ClaudeSends
  <1>5. CASE child = 0
    <2>1. \E q \in fresh : \A r \in fresh : q <= r
      <3>1. fresh \in SUBSET Nat
        BY <1>0 DEF Procs
      <3> HIDE DEF fresh
      <3> QED BY <1>1, <1>5, <3>1, LeastOne
    <2>2. p \in fresh
      BY <1>5, <2>1
    <2>3. p \in Procs /\ status[p] = "new"
      BY <2>2
    <2> HIDE DEF p, fresh
    <2>4. ClaudeSends(p)
      BY <1>1, <1>2, <1>3, <1>5, <2>3 DEF ClaudeSends
    <2> QED BY <2>3, <2>4
  <1> QED BY <1>4, <1>5

\* Every other step keeps the turns or ends the one in flight.
LEMMA ClaudeTurnSteps ==
    ASSUME Claude!Next
    PROVE  Claude!SendTurn \/ KeepsTurns \/ \E c \in Claude!Causes \ {"none"} : EndsTurn(c)
  <1>0. {"completed", "stdin", "exit", "killed"} \subseteq Claude!Causes \ {"none"}
    BY DEF Claude!Causes
  <1>1. CASE Claude!Interrupt \/ Claude!InterruptAcknowledged \/ Claude!Stop \/ Claude!Replace
             \/ Claude!InterruptTimeout \/ Claude!ApprovalTimeout \/ Claude!StopTimeout
    BY <1>1 DEF Claude!Interrupt, Claude!InterruptAcknowledged, Claude!Stop, Claude!Replace,
                Claude!InterruptTimeout, Claude!ApprovalTimeout, Claude!StopTimeout, KeepsTurns
  <1>2. CASE Claude!CliAsks \/ Claude!Dispatch \/ Claude!OperatorAnswers \/ Claude!RelayGivesUp
    BY <1>2 DEF Claude!CliAsks, Claude!Dispatch, Claude!OperatorAnswers, Claude!RelayGivesUp, KeepsTurns
  <1>3. CASE Claude!StdinError
    BY <1>0, <1>3 DEF Claude!StdinError, Claude!EndTurn, EndsTurn
  <1>4. CASE Claude!Exit
    <2>1. KeepsTurns \/ \E c \in {"killed", "exit"} : Claude!EndTurn(c)
      BY <1>4 DEF Claude!Exit, KeepsTurns
    <2> QED BY <1>0, <2>1 DEF Claude!EndTurn, EndsTurn
  <1>5. CASE Claude!OnResult
    <2>1. KeepsTurns \/ Claude!EndTurn("completed")
      BY <1>5 DEF Claude!OnResult, KeepsTurns
    <2> QED BY <1>0, <2>1 DEF Claude!EndTurn, EndsTurn
  <1> QED BY <1>1, <1>2, <1>3, <1>4, <1>5 DEF Claude!Next

LEMMA ClaudeTurnsKept ==
    ASSUME ClaudeTurns, ClaudeProcess, ClaudeWork, Claude!Next
    PROVE  ClaudeTurns' /\ Begun \subseteq Begun'
  <1>1. CASE KeepsTurns
    <2>1. TurnInFlight' /\ Begun' = Begun
      BY <1>1, KeepKeepsTurns DEF ClaudeTurns
    <2> QED BY <1>1, <2>1 DEF ClaudeTurns, KeepsTurns
  <1>2. CASE Claude!SendTurn
    <2>1. BeginsTurn
      BY <1>2, ClaudeSendsOne DEF ClaudeSends
    <2>2. TurnInFlight' /\ Begun \subseteq Begun'
      BY <2>1, BeginKeepsTurns DEF ClaudeTurns
    <2>3. endedBy' = endedBy
      BY <2>1 DEF BeginsTurn
    <2> QED BY <2>2, <2>3 DEF ClaudeTurns
  <1>3. CASE \E c \in Claude!Causes \ {"none"} : EndsTurn(c)
    <2>1. PICK c \in Claude!Causes : EndsTurn(c)
      BY <1>3
    <2>2. TurnInFlight' /\ Begun' = Begun
      BY <2>1, EndKeepsTurns DEF ClaudeTurns
    <2>3. endedBy' \in [Turns -> Claude!Causes]
      BY <2>1 DEF ClaudeTurns, EndsTurn
    <2> QED BY <2>2, <2>3 DEF ClaudeTurns
  <1> QED BY <1>1, <1>2, <1>3, ClaudeTurnSteps

\* A process exits; if it is the adapter's, the turn in flight ends with it.
ClaudeExits(p) ==
    /\ p \in Procs /\ Alive(p)
    /\ status' = [status EXCEPT ![p] = "gone"] /\ todo' = [todo EXCEPT ![p] = <<>>]
    /\ interrupts' = {i \in interrupts : i[1] # p}
    /\ UNCHANGED <<gen, handler, owner, cancelled, unacked, misread>>
    /\ \/ /\ owner[p] = gen /\ child' = 0
          /\ EndsTurn(IF status[p] = "termed" /\ stopping = "no" THEN "killed" ELSE "exit")
          /\ stopping' = IF stopping = "waiting" THEN "done" ELSE stopping
       \/ owner[p] # gen /\ KeepsTurns /\ UNCHANGED <<child, stopping>>

LEMMA ClaudeExitsOne ==
    ASSUME Claude!Exit
    PROVE  \E p \in Procs : ClaudeExits(p) /\ asks' = [i \in DOMAIN asks |->
                        IF asks[i].proc = p /\ asks[i].at = "relay"
                        THEN [asks[i] EXCEPT !.at = "settled"] ELSE asks[i]]
  BY ClaudeNames DEF Claude!Exit, ClaudeExits, Claude!EndTurn, EndsTurn, KeepsTurns

\* A process says that it is done with the turn it was working on.
ClaudeResult(p) ==
    /\ p \in Procs /\ Alive(p) /\ todo[p] # <<>>
    /\ Head(todo[p]) \in cancelled \/ \A i \in DOMAIN asks : asks[i].proc = p => asks[i].verdict # "none"
    /\ todo' = [todo EXCEPT ![p] = Tail(todo[p])]
    /\ UNCHANGED <<gen, child, stopping, handler, status, owner, interrupts, cancelled, unacked, asks>>
    /\ \/ owner[p] = gen /\ Claude!Attribute(Head(todo[p]), p) /\ EndsTurn("completed")
       \/ owner[p] # gen /\ KeepsTurns /\ UNCHANGED misread

LEMMA ClaudeResultOne ==
    ASSUME ClaudeWork, Claude!OnResult
    PROVE  \E p \in Procs : ClaudeResult(p)
  BY ClaudeNames DEF Claude!OnResult, ClaudeResult, ClaudeWork, Claude!EndTurn, EndsTurn, KeepsTurns

\* The steps that leave the processes and their work alone.
ClaudeRests ==
    Claude!StdinError \/ Claude!Interrupt \/ Claude!InterruptAcknowledged \/ Claude!ApprovalTimeout
    \/ Claude!CliAsks \/ Claude!Dispatch \/ Claude!OperatorAnswers \/ Claude!RelayGivesUp

LEMMA ClaudeRestsAlone ==
    ASSUME ClaudeRests
    PROVE  UNCHANGED <<gen, child, stopping, handler, status, owner, todo, unacked>>
           /\ (~Claude!Dispatch => UNCHANGED misread)
           /\ (KeepsTurns \/ Claude!StdinError)
  <1>1. CASE Claude!StdinError \/ Claude!Interrupt \/ Claude!InterruptAcknowledged
    BY <1>1 DEF Claude!StdinError, Claude!Interrupt, Claude!InterruptAcknowledged, KeepsTurns
  <1>2. CASE Claude!ApprovalTimeout \/ Claude!CliAsks \/ Claude!OperatorAnswers \/ Claude!RelayGivesUp
    BY <1>2 DEF Claude!ApprovalTimeout, Claude!CliAsks, Claude!OperatorAnswers, Claude!RelayGivesUp, KeepsTurns
  <1>3. CASE Claude!Dispatch
    BY <1>3 DEF Claude!Dispatch, KeepsTurns
  <1> QED BY <1>1, <1>2, <1>3 DEF ClaudeRests

\* The steps that only tell processes to go, or move on to the next adapter.
ClaudeStops == Claude!Stop \/ Claude!StopTimeout \/ Claude!Replace \/ Claude!InterruptTimeout

LEMMA ClaudeStopsAlone ==
    ASSUME ClaudeProcess, ClaudeStops
    PROVE  /\ UNCHANGED <<owner, todo, misread, cancelled>> /\ KeepsTurns
           /\ gen' = gen \/ gen' = gen + 1
           /\ \A p \in Procs : Alive(p)' <=> Alive(p)
  <1>1. CASE Claude!Stop
    BY <1>1 DEF Claude!Stop, KeepsTurns, Alive
  <1>2. CASE Claude!Replace
    BY <1>2 DEF Claude!Replace, KeepsTurns, Alive
  <1>3. CASE Claude!StopTimeout
    <2>1. status' = [p \in Procs |-> IF status[p] = "alive" /\ owner[p] = gen THEN "termed" ELSE status[p]]
      BY <1>3, ClaudeNames DEF Claude!StopTimeout
    <2> QED BY <1>3, <2>1 DEF Claude!StopTimeout, KeepsTurns, Alive
  <1>4. CASE Claude!InterruptTimeout
    <2>1. \E q : status' = IF status[q] = "alive" THEN [status EXCEPT ![q] = "termed"] ELSE status
      BY <1>4 DEF Claude!InterruptTimeout
    <2>2. PICK q : status' = IF status[q] = "alive" THEN [status EXCEPT ![q] = "termed"] ELSE status
      BY <2>1
    <2>3. \A p \in Procs : Alive(p)' <=> Alive(p)
      BY <2>2 DEF Alive, ClaudeProcess
    <2> QED BY <1>4, <2>3 DEF Claude!InterruptTimeout, KeepsTurns
  <1> QED BY <1>1, <1>2, <1>3, <1>4 DEF ClaudeStops

LEMMA ClaudeSteps ==
    ASSUME Claude!Next
    PROVE  Claude!SendTurn \/ Claude!Exit \/ Claude!OnResult \/ ClaudeStops \/ ClaudeRests
  BY DEF Claude!Next, ClaudeStops, ClaudeRests

LEMMA ClaudeProcessKept ==
    ASSUME ClaudeProcess, ClaudeWork, Claude!Next
    PROVE  ClaudeProcess'
  <1>0. MaxProcs \in Nat /\ 0 \notin Procs /\ MaxGens \in Nat /\ gen \in Nat /\ gen # 0
    BY BoundsAssumption, GensAssumption DEF Procs, ClaudeProcess
  <1>1. CASE Claude!SendTurn
    <2>1. PICK p \in Procs : ClaudeSends(p)
      BY <1>1, ClaudeSendsOne
    <2>2. stopping = "no" /\ child' = p /\ gen' = gen /\ stopping' = stopping
      BY <2>1 DEF ClaudeSends
    <2>3. CASE child = p /\ child # 0 /\ UNCHANGED <<status, owner, handler>>
      BY <2>2, <2>3 DEF ClaudeProcess, Alive
    <2>4. CASE /\ child = 0 /\ status[p] = "new" /\ handler' = gen
               /\ status' = [status EXCEPT ![p] = "alive"] /\ owner' = [owner EXCEPT ![p] = gen]
      <3>1. status' \in [Procs -> {"new", "alive", "termed", "gone"}] /\ owner' \in [Procs -> 0 .. MaxGens]
        BY <1>0, <2>4 DEF ClaudeProcess
      <3>2. \A q \in Procs : /\ status'[q] = IF q = p THEN "alive" ELSE status[q]
                             /\ owner'[q] = IF q = p THEN gen ELSE owner[q]
        BY <2>4 DEF ClaudeProcess
      <3>3. \A q \in Procs : Alive(q) => owner[q] # gen
        BY <1>0, <2>2, <2>4 DEF ClaudeProcess
      <3>4. \A q \in Procs : owner'[q] <= gen' /\ (status'[q] = "new" <=> owner'[q] = 0)
        BY <1>0, <2>2, <3>2 DEF ClaudeProcess
      <3>5. \A q \in Procs : status'[q] \in {"alive", "termed"} /\ owner'[q] = gen' => q = p
        BY <2>2, <3>2, <3>3 DEF Alive
      <3>6. gen' \in 1 .. MaxGens /\ child' \in 0 .. MaxProcs /\ stopping' \in {"no", "waiting", "done"}
            /\ handler' \in 0 .. MaxGens
        BY <1>0, <2>2, <2>4 DEF ClaudeProcess, Procs
      <3>7. status'[child'] \in {"alive", "termed"} /\ owner'[child'] = gen'
        BY <2>2, <3>2
      <3> QED BY <2>2, <3>1, <3>4, <3>5, <3>6, <3>7 DEF ClaudeProcess, Alive
    <2> QED BY <2>1, <2>3, <2>4 DEF ClaudeSends
  <1>2. CASE Claude!Exit
    <2>1. PICK p \in Procs : ClaudeExits(p)
      BY <1>2, ClaudeExitsOne
    <2>2. /\ Alive(p) /\ status' = [status EXCEPT ![p] = "gone"] /\ UNCHANGED <<gen, handler, owner>>
          /\ \/ owner[p] = gen /\ child' = 0 /\ stopping' = IF stopping = "waiting" THEN "done" ELSE stopping
             \/ owner[p] # gen /\ UNCHANGED <<child, stopping>>
      BY <2>1 DEF ClaudeExits
    <2>3. \A q \in Procs : status'[q] = IF q = p THEN "gone" ELSE status[q]
      BY <2>2 DEF ClaudeProcess
    <2>4. status' \in [Procs -> {"new", "alive", "termed", "gone"}]
      BY <2>2 DEF ClaudeProcess
    <2>5. \A q \in Procs : status'[q] \in {"alive", "termed"} => q # p /\ Alive(q)
      BY <2>3 DEF Alive
    <2>6. child' # 0 => child' = child /\ child # p /\ child \in Procs
      BY <1>0, <2>2 DEF ClaudeProcess, Procs
    <2>7. status'[p] # "new" /\ owner[p] # 0
      BY <2>2, <2>3 DEF ClaudeProcess, Alive
    <2>8. child' \in 0 .. MaxProcs /\ stopping' \in {"no", "waiting", "done"} /\ (stopping' = "no" => stopping = "no")
      BY <1>0, <2>2 DEF ClaudeProcess
    <2>9. \A q \in Procs : status'[q] \in {"alive", "termed"} /\ owner'[q] = gen' /\ stopping' = "no" => q = child'
      <3>1. CASE owner[p] = gen
        BY <2>1, <2>2, <2>5, <3>1 DEF ClaudeProcess
      <3>2. CASE owner[p] # gen
        BY <2>2, <2>5, <2>8, <3>2 DEF ClaudeProcess
      <3> QED BY <3>1, <3>2
    <2>10. child' # 0 => status'[child'] \in {"alive", "termed"} /\ owner'[child'] = gen'
      BY <2>2, <2>3, <2>6 DEF ClaudeProcess, Alive
    <2>11. \A q \in Procs : owner'[q] <= gen' /\ (status'[q] = "new" <=> owner'[q] = 0)
      BY <2>2, <2>3, <2>7 DEF ClaudeProcess
    <2>12. \A q, r \in Procs : status'[q] \in {"alive", "termed"} /\ status'[r] \in {"alive", "termed"}
                               /\ owner'[q] = gen' /\ owner'[r] = gen' => q = r
      BY <2>2, <2>5 DEF ClaudeProcess
    <2>13. gen' \in 1 .. MaxGens /\ handler' \in 0 .. MaxGens /\ owner' \in [Procs -> 0 .. MaxGens]
      BY <2>2 DEF ClaudeProcess
    <2> QED BY <2>4, <2>8, <2>9, <2>10, <2>11, <2>12, <2>13 DEF ClaudeProcess, Alive
  <1>3. CASE Claude!OnResult
    <2>1. UNCHANGED <<gen, child, stopping, handler, status, owner>>
      BY <1>3 DEF Claude!OnResult
    <2> QED BY <2>1 DEF ClaudeProcess, Alive
  <1>4. CASE ClaudeRests
    <2>1. UNCHANGED <<gen, child, stopping, handler, status, owner>>
      BY <1>4, ClaudeRestsAlone
    <2> QED BY <2>1 DEF ClaudeProcess, Alive
  <1>5. CASE Claude!Stop
    <2>1. handler' = 0 /\ child' = 0 /\ stopping' \in {"waiting", "done"} /\ UNCHANGED <<gen, status, owner>>
      BY <1>5 DEF Claude!Stop
    <2>2. 0 \in 0 .. MaxGens /\ 0 \in 0 .. MaxProcs
      BY <1>0
    <2> QED BY <2>1, <2>2 DEF ClaudeProcess, Alive
  <1>6. CASE Claude!Replace
    <2>1. /\ stopping = "done" /\ gen < MaxGens /\ gen' = gen + 1 /\ child' = 0 /\ stopping' = "no"
          /\ UNCHANGED <<status, owner, handler>>
      BY <1>6 DEF Claude!Replace
    <2>2. gen' \in 1 .. MaxGens /\ \A p \in Procs : owner'[p] <= gen' /\ owner'[p] # gen'
      BY <1>0, <2>1 DEF ClaudeProcess
    <2>3. 0 \in 0 .. MaxProcs
      BY <1>0
    <2> QED BY <2>1, <2>2, <2>3 DEF ClaudeProcess, Alive
  <1>7. CASE Claude!StopTimeout
    <2>1. /\ stopping' = "done" /\ UNCHANGED <<gen, child, handler, owner>>
          /\ status' = [p \in Procs |-> IF status[p] = "alive" /\ owner[p] = gen THEN "termed" ELSE status[p]]
      BY <1>7, ClaudeNames DEF Claude!StopTimeout
    <2>2. \A p \in Procs : (status'[p] \in {"alive", "termed"} <=> Alive(p)) /\ (status'[p] = "new" <=> status[p] = "new")
      BY <2>1 DEF Alive
    <2>3. status' \in [Procs -> {"new", "alive", "termed", "gone"}]
      BY <2>1 DEF ClaudeProcess
    <2>4. child \in {0} \cup Procs
      BY <1>0 DEF ClaudeProcess, Procs
    <2> QED BY <2>1, <2>2, <2>3, <2>4 DEF ClaudeProcess, Alive
  <1>8. CASE Claude!InterruptTimeout
    <2>1. PICK r : status' = IF status[r] = "alive" THEN [status EXCEPT ![r] = "termed"] ELSE status
      BY <1>8 DEF Claude!InterruptTimeout
    <2>2. UNCHANGED <<gen, child, stopping, handler, owner>>
      BY <1>8 DEF Claude!InterruptTimeout
    <2>3. \A p \in Procs : (status'[p] \in {"alive", "termed"} <=> Alive(p)) /\ (status'[p] = "new" <=> status[p] = "new")
      BY <2>1 DEF Alive, ClaudeProcess
    <2>4. status' \in [Procs -> {"new", "alive", "termed", "gone"}]
      BY <2>1 DEF ClaudeProcess
    <2>5. child \in {0} \cup Procs
      BY <1>0 DEF ClaudeProcess, Procs
    <2> QED BY <2>2, <2>3, <2>4, <2>5 DEF ClaudeProcess, Alive
  <1> QED BY <1>1, <1>2, <1>3, <1>4, <1>5, <1>6, <1>7, <1>8, ClaudeSteps DEF ClaudeStops

\* The next turn, the end of the one in flight, or none of both.
LEMMA ClaudeTurnStep ==
    ASSUME ClaudeProcess, ClaudeWork, Claude!Next
    PROVE  TurnStep
  BY ClaudeTurnSteps, ClaudeSendsOne DEF TurnStep, ClaudeSends

LEMMA ClaudeExcusedStays ==
    ASSUME TurnInFlight, TurnStep, misread \subseteq misread', NEW u \in Turns, ClaudeExcused(u)
    PROVE  ClaudeExcused(u)'
  <1>1. CASE \E q \in misread : q[1] = u
    BY <1>1 DEF ClaudeExcused
  <1>2. CASE endedBy[u] = "stdin"
    <2>1. endedBy'[u] = endedBy[u]
      BY <1>2, EndStays
    <2> QED BY <1>2, <2>1 DEF ClaudeExcused
  <1> QED BY <1>1, <1>2 DEF ClaudeExcused

\* What Attribute leaves behind.
LEMMA ClaudeAttributes ==
    ASSUME NEW t, NEW p, Claude!Attribute(t, p)
    PROVE  /\ misread \subseteq misread'
           /\ turn # 0 /\ turn # t => misread' = misread \cup {<<turn, t, owner[p] # gen>>}
           /\ turn = 0 \/ turn = t => misread' = misread
  BY DEF Claude!Attribute

\* What is taken for the turn in flight is an earlier turn's, which was let go,
\* interrupted, or of another adapter.
LEMMA ClaudeMistaken ==
    ASSUME ClaudeTurns, ClaudeProcess, ClaudeWork, ClaudeAsks, ClaudeRelays, Claude!Next
    PROVE  misread' = misread
           \/ \E u \in Turns, late \in BOOLEAN :
                 /\ turn \in Turns /\ u < turn /\ misread' = misread \cup {<<turn, u, late>>}
                 /\ ClaudeExcused(u) \/ u \in cancelled \/ late
  <1>0. MaxTurns \in Nat /\ \A u \in Begun : u \in Turns /\ (turn # 0 => u <= turn)
    BY BoundsAssumption DEF ClaudeTurns, TurnInFlight, Begun
  <1>1. turn # 0 => turn \in Turns
    BY <1>0 DEF ClaudeTurns, TurnInFlight, Turns
  <1>2. CASE Claude!SendTurn
    BY <1>2, ClaudeSendsOne DEF ClaudeSends
  <1>3. CASE Claude!Exit
    BY <1>3, ClaudeExitsOne DEF ClaudeExits
  <1>4. CASE ClaudeStops
    BY <1>4, ClaudeStopsAlone
  <1>5. CASE Claude!OnResult
    <2>1. PICK p \in Procs : ClaudeResult(p)
      BY <1>5, ClaudeResultOne
    <2>2. CASE owner[p] # gen
      BY <2>1, <2>2 DEF ClaudeResult
    <2>3. CASE owner[p] = gen
      <3>1. todo[p] \in Seq(Turns) /\ todo[p] # <<>> /\ Claude!Attribute(Head(todo[p]), p)
        BY <2>1, <2>3 DEF ClaudeResult, ClaudeWork
      <3>2. PICK h : h = todo[p][1] /\ h = Head(todo[p]) /\ 1 \in 1 .. Len(todo[p])
        <4>1. \A s \in Seq(Turns) : s # <<>> => s[1] = Head(s) /\ 1 \in 1 .. Len(s)
          OBVIOUS
        <4> QED BY <3>1, <4>1
      <3>3. h \in Begun /\ (h = turn \/ ClaudeExcused(h))
        BY <2>3, <3>2 DEF ClaudeWork, WorkOf
      <3>4. misread' = misread \/ (turn # 0 /\ turn # h /\ misread' = misread \cup {<<turn, h, FALSE>>})
        BY <2>3, <3>1, <3>2, ClaudeAttributes
      <3>5. CASE turn # 0 /\ turn # h /\ misread' = misread \cup {<<turn, h, FALSE>>}
        <4>1. h \in Turns /\ h < turn /\ turn \in Turns
          BY <1>0, <1>1, <3>3, <3>5 DEF Turns
        <4> QED BY <3>3, <3>5, <4>1
      <3> QED BY <3>4, <3>5
    <2> QED BY <2>2, <2>3
  <1>6. CASE Claude!Dispatch
    <2>1. PICK i \in DOMAIN asks :
             asks[i].at = "relay" /\ (misread' = misread \/ Claude!Attribute(asks[i].turn, asks[i].proc))
      BY <1>6 DEF Claude!Dispatch
    <2>2. i \in 1 .. Len(asks)
      BY <2>1 DEF ClaudeAsks
    <2>3. PICK u, p : u = asks[i].turn /\ p = asks[i].proc
      OBVIOUS
    <2>4. u \in Begun /\ Alive(p) /\ (u \in cancelled \/ Works(p, u))
      BY <2>1, <2>2, <2>3 DEF ClaudeAsks, ClaudeRelays
    <2>5. p \in Procs
      <3>1. asks[i] \in Claude!Ask
        BY <2>2 DEF ClaudeAsks
      <3> QED BY <2>3, <3>1, ClaudeNames DEF Claude!Ask
    <2>6. misread' = misread \/ (turn # 0 /\ turn # u /\ misread' = misread \cup {<<turn, u, owner[p] # gen>>})
      BY <2>1, <2>3, ClaudeAttributes
    <2>7. CASE turn # 0 /\ turn # u /\ misread' = misread \cup {<<turn, u, owner[p] # gen>>}
      <3>1. u \in Turns /\ u < turn /\ turn \in Turns
        BY <1>0, <1>1, <2>4, <2>7 DEF Turns
      <3>2. owner[p] = gen /\ Works(p, u) => ClaudeExcused(u)
        BY <2>5, <2>7 DEF Works, ClaudeWork, WorkOf
      <3>3. PICK late \in BOOLEAN : late = (owner[p] # gen)
        OBVIOUS
      <3>4. misread' = misread \cup {<<turn, u, late>>}
        BY <2>7, <3>3
      <3> QED BY <2>4, <3>1, <3>2, <3>3, <3>4
    <2> QED BY <2>6, <2>7
  <1>7. CASE ClaudeRests /\ ~Claude!Dispatch
    BY <1>7, ClaudeRestsAlone
  <1> QED BY <1>2, <1>3, <1>4, <1>5, <1>6, <1>7, ClaudeSteps

LEMMA ClaudeMisreadKept ==
    ASSUME ClaudeTurns, ClaudeProcess, ClaudeWork, ClaudeAsks, ClaudeRelays, ClaudeMisread,
           Claude!NothingMisread, cancelled \subseteq cancelled', Claude!Next
    PROVE  ClaudeMisread' /\ Claude!NothingMisread' /\ misread \subseteq misread'
  <1>1. misread \subseteq misread' /\ ClaudeMisread'
    BY ClaudeMistaken DEF ClaudeMisread
  <1>2. TurnStep /\ TurnInFlight
    BY ClaudeTurnStep DEF ClaudeTurns
  <1>3. \A u \in Turns : ClaudeExcused(u) => ClaudeExcused(u)'
    BY <1>1, <1>2, ClaudeExcusedStays
  <1>4. ASSUME NEW m \in misread'
        PROVE  m[2] < m[1] /\ (ClaudeExcused(m[2])' \/ m[2] \in cancelled' \/ m[3])
    <2>1. CASE m \in misread
      <3>1. m[2] < m[1] /\ (ClaudeExcused(m[2]) \/ m[2] \in cancelled \/ m[3]) /\ m[2] \in Turns
        BY <2>1 DEF Claude!NothingMisread, ClaudeExcused, ClaudeMisread
      <3>2. PICK u \in Turns : u = m[2]
        BY <3>1
      <3>3. ClaudeExcused(u)' \/ u \in cancelled' \/ m[3]
        BY <1>3, <3>1, <3>2
      <3> QED BY <3>1, <3>2, <3>3 DEF ClaudeExcused
    <2>2. CASE m \notin misread
      <3>1. PICK u \in Turns, late \in BOOLEAN :
               /\ u < turn /\ misread' = misread \cup {<<turn, u, late>>}
               /\ ClaudeExcused(u) \/ u \in cancelled \/ late
        BY <2>2, ClaudeMistaken
      <3>2. m = <<turn, u, late>>
        BY <2>2, <3>1
      <3>3. m[1] = turn /\ m[2] = u /\ m[3] = late
        BY <3>2
      <3>4. ClaudeExcused(u)' \/ u \in cancelled' \/ late
        BY <1>3, <3>1
      <3> QED BY <3>1, <3>3, <3>4 DEF ClaudeExcused
    <2> QED BY <2>1, <2>2
  <1>5. Claude!NothingMisread'
    BY <1>4 DEF Claude!NothingMisread, ClaudeExcused
  <1> QED BY <1>1, <1>5

\* A turn will be one that was let go, or misled.
ExcusedAfter(u) == endedBy'[u] = "stdin" \/ \E q \in misread' : q[1] = u

\* A process whose turns stay is left with its work.
LEMMA WorkStays ==
    ASSUME ClaudeWork, NEW p \in Procs, todo'[p] = todo[p], Alive(p)' <=> Alive(p), Begun \subseteq Begun',
           owner'[p] = gen' => owner[p] = gen,
           todo[p] # <<>> /\ owner[p] = gen /\ turn # 0 => turn' = turn \/ ExcusedAfter(turn),
           \A u \in Turns : ClaudeExcused(u) => ExcusedAfter(u)
    PROVE  WorkOf(p)'
  <1>0. 0 \notin Turns /\ \A i \in 1 .. Len(todo[p]) : todo[p][i] \in Begun /\ todo[p][i] \in Turns /\ todo[p] # <<>>
    BY BoundsAssumption DEF Turns, ClaudeWork, WorkOf, Begun
  <1>1. \A i \in 1 .. Len(todo[p]) : todo[p][i] \in Begun'
    BY <1>0
  <1>2. ASSUME owner'[p] = gen', NEW i \in 1 .. Len(todo[p])
        PROVE  todo[p][i] = turn' \/ ExcusedAfter(todo[p][i])
    <2>1. PICK u \in Turns : u = todo[p][i] /\ (u = turn \/ ClaudeExcused(u))
      BY <1>0, <1>2 DEF ClaudeWork, WorkOf
    <2> QED BY <1>0, <1>2, <2>1
  <1> QED BY <1>1, <1>2 DEF ClaudeWork, WorkOf, ClaudeExcused, ExcusedAfter, Alive

\* The next turn is put after the others.
LEMMA WorkGiven ==
    ASSUME ClaudeTurns, ClaudeProcess, ClaudeWork, NEW p \in Procs, ClaudeSends(p),
           \A u \in Turns : ClaudeExcused(u) => ExcusedAfter(u)
    PROVE  WorkOf(p)' /\ todo' \in [Procs -> Seq(Turns)]
  <1>0. MaxTurns \in Nat /\ 0 \notin Turns
    BY BoundsAssumption DEF Turns
  <1>1. /\ BeginsTurn /\ todo' = [todo EXCEPT ![p] = Append(todo[p], turn')] /\ gen' = gen /\ turn = 0
        /\ \/ child = p /\ child # 0 /\ UNCHANGED <<status, owner>>
           \/ /\ child = 0 /\ status[p] = "new"
              /\ status' = [status EXCEPT ![p] = "alive"] /\ owner' = [owner EXCEPT ![p] = gen]
    BY DEF ClaudeSends, BeginsTurn
  <1>2. turn' \notin Begun /\ turn' \in Turns /\ Begun' = Begun \cup {turn'} /\ Begun' = 1 .. turn'
    BY <1>1, BeginKeepsTurns DEF ClaudeTurns
  <1>3. PICK t \in Turns : t = turn'
    BY <1>2
  <1>4. \A u \in Begun : u < t
    BY <1>0, <1>2, <1>3 DEF Turns
  <1>5. PICK old, new : old = todo[p] /\ new = Append(old, t)
    OBVIOUS
  <1>6. old \in Seq(Turns) /\ todo'[p] = new /\ todo' \in [Procs -> Seq(Turns)]
    BY <1>1, <1>3, <1>5 DEF ClaudeWork
  <1>7. /\ Len(old) \in Nat /\ Len(new) = Len(old) + 1
        /\ \A i \in 1 .. Len(old) : new[i] = old[i]
        /\ new[Len(old) + 1] = t
    BY <1>5, <1>6
  <1>8. \A i \in 1 .. Len(new) : (i \in 1 .. Len(old) /\ new[i] = old[i]) \/ (i = Len(old) + 1 /\ new[i] = t)
    BY <1>7
  <1>9. \A i \in 1 .. Len(old) : old[i] \in Begun /\ old[i] \in Turns /\ Alive(p)
    BY <1>5 DEF ClaudeWork, WorkOf, Begun
  <1>10. \A i \in 1 .. Len(new) : new[i] \in Begun'
    BY <1>2, <1>3, <1>8, <1>9
  <1>11. ASSUME NEW i \in 1 .. Len(new), NEW j \in 1 .. Len(new), i < j PROVE new[i] < new[j]
    <2>1. i \in 1 .. Len(old) /\ new[i] = old[i]
      BY <1>7, <1>8, <1>11
    <2>2. CASE j \in 1 .. Len(old) /\ new[j] = old[j]
      BY <1>5, <1>11, <2>1, <2>2 DEF ClaudeWork, WorkOf
    <2>3. CASE new[j] = t
      BY <1>4, <1>9, <2>1, <2>3
    <2> QED BY <1>8, <2>2, <2>3
  <1>12. ASSUME NEW i \in 1 .. Len(new) PROVE new[i] = t \/ ExcusedAfter(new[i])
    <2>1. CASE i \in 1 .. Len(old) /\ new[i] = old[i]
      <3>1. PICK u \in Turns : u = old[i] /\ Alive(p)
        BY <1>9, <2>1
      <3>2. owner[p] = gen
        BY <1>1, <3>1 DEF Alive, ClaudeProcess
      <3>3. u # turn
        BY <1>0, <1>1
      <3>4. ClaudeExcused(u)
        BY <1>5, <2>1, <3>1, <3>2, <3>3 DEF ClaudeWork, WorkOf
      <3> QED BY <2>1, <3>1, <3>4
    <2> QED BY <1>8, <2>1
  <1>13. Alive(p)'
    BY <1>1 DEF Alive, ClaudeProcess
  <1> QED BY <1>3, <1>6, <1>10, <1>11, <1>12, <1>13 DEF WorkOf, ClaudeExcused, ExcusedAfter

\* The first of its turns is taken from a process.
LEMMA WorkDone ==
    ASSUME ClaudeTurns, ClaudeProcess, ClaudeWork, NEW p \in Procs, ClaudeResult(p), Begun \subseteq Begun',
           \A u \in Turns : ClaudeExcused(u) => ExcusedAfter(u)
    PROVE  WorkOf(p)' /\ todo' \in [Procs -> Seq(Turns)]
  <1>0. MaxTurns \in Nat /\ 0 \notin Turns
    BY BoundsAssumption DEF Turns
  <1>1. /\ todo[p] # <<>> /\ todo' = [todo EXCEPT ![p] = Tail(todo[p])] /\ UNCHANGED <<gen, status, owner>>
        /\ Alive(p)
    BY DEF ClaudeResult
  <1>2. PICK old, new : old = todo[p] /\ new = Tail(old)
    OBVIOUS
  <1>3. old \in Seq(Turns) /\ old # <<>> /\ todo'[p] = new
    BY <1>1, <1>2 DEF ClaudeWork
  <1>4. /\ Len(old) \in Nat /\ Len(old) >= 1 /\ Len(new) = Len(old) - 1 /\ Head(old) = old[1] /\ new \in Seq(Turns)
        /\ \A i \in 1 .. Len(new) : new[i] = old[i + 1] /\ i + 1 \in 1 .. Len(old)
    BY <1>2, <1>3
  <1>5. todo' \in [Procs -> Seq(Turns)]
    BY <1>1, <1>2, <1>4 DEF ClaudeWork
  <1>6. \A i \in 1 .. Len(old) : old[i] \in Begun /\ old[i] \in Turns
    BY <1>2 DEF ClaudeWork, WorkOf, Begun
  <1>7. \A i, j \in 1 .. Len(old) : i < j => old[i] < old[j]
    BY <1>2 DEF ClaudeWork, WorkOf
  <1>8. \A i \in 1 .. Len(new) : new[i] \in Begun'
    BY <1>4, <1>6
  <1>9. \A i, j \in 1 .. Len(new) : i < j => new[i] < new[j]
    <2> TAKE i, j \in 1 .. Len(new)
    <2>1. PICK k \in 1 .. Len(old), l \in 1 .. Len(old) : k = i + 1 /\ l = j + 1 /\ new[i] = old[k] /\ new[j] = old[l]
      BY <1>4
    <2> QED BY <1>4, <1>7, <2>1
  <1>10. ASSUME owner[p] = gen, NEW i \in 1 .. Len(new) PROVE new[i] = turn' \/ ExcusedAfter(new[i])
    <2>1. PICK k \in 1 .. Len(old) : k = i + 1 /\ new[i] = old[k]
      BY <1>4
    <2>2. PICK u \in Turns, h \in Turns : u = old[k] /\ h = old[1] /\ h = Head(todo[p])
      BY <1>2, <1>4, <1>6
    <2>3. h < u
      BY <1>4, <1>7, <2>1, <2>2
    <2>4. u = turn \/ ClaudeExcused(u)
      BY <1>2, <1>10, <2>2 DEF ClaudeWork, WorkOf
    <2>5. CASE u = turn
      <3>1. Claude!Attribute(Head(todo[p]), p)
        BY <1>10 DEF ClaudeResult
      <3>2. misread' = misread \cup {<<turn, h, owner[p] # gen>>}
        BY <1>0, <2>2, <2>3, <2>5, <3>1, ClaudeAttributes DEF Turns
      <3>3. <<turn, h, owner[p] # gen>> \in misread' /\ <<turn, h, owner[p] # gen>>[1] = turn
        BY <3>2
      <3> QED BY <2>1, <2>2, <2>5, <3>3 DEF ExcusedAfter
    <2> QED BY <2>1, <2>2, <2>4, <2>5
  <1>11. Alive(p)'
    BY <1>1 DEF Alive
  <1> QED BY <1>1, <1>3, <1>5, <1>8, <1>9, <1>10, <1>11 DEF WorkOf, ClaudeExcused, ExcusedAfter

\* Work that is left goes on in order.
LEMMA ClaudeWorkKept ==
    ASSUME ClaudeTurns, ClaudeProcess, ClaudeWork, Claude!Next, misread \subseteq misread'
    PROVE  ClaudeWork'
  <1>0. 0 \notin Turns /\ TurnInFlight /\ turn \in 0 .. MaxTurns
    BY BoundsAssumption DEF Turns, ClaudeTurns, TurnInFlight
  <1>1. TurnStep /\ Begun \subseteq Begun'
    BY ClaudeTurnStep, ClaudeTurnsKept
  <1>2. \A u \in Turns : ClaudeExcused(u) => ExcusedAfter(u)
    <2> TAKE u \in Turns
    <2>1. ASSUME ClaudeExcused(u) PROVE ClaudeExcused(u)'
      BY <1>0, <1>1, <2>1, ClaudeExcusedStays
    <2> QED BY <2>1 DEF ClaudeExcused, ExcusedAfter
  <1>3. CASE Claude!SendTurn
    <2>1. PICK p \in Procs : ClaudeSends(p)
      BY <1>3, ClaudeSendsOne
    <2>2. WorkOf(p)' /\ todo' \in [Procs -> Seq(Turns)]
      BY <1>2, <2>1, WorkGiven
    <2>3. ASSUME NEW q \in Procs, q # p PROVE WorkOf(q)'
      <3>1. todo'[q] = todo[q] /\ (Alive(q)' <=> Alive(q)) /\ owner'[q] = owner[q] /\ gen' = gen /\ turn = 0
        BY <2>1, <2>3 DEF ClaudeSends, BeginsTurn, Alive, ClaudeProcess, ClaudeWork
      <3> QED BY <1>1, <1>2, <3>1, WorkStays
    <2> QED BY <2>2, <2>3 DEF ClaudeWork
  <1>4. CASE Claude!Exit
    <2>1. PICK p \in Procs : ClaudeExits(p)
      BY <1>4, ClaudeExitsOne
    <2>2. /\ Alive(p) /\ status' = [status EXCEPT ![p] = "gone"] /\ todo' = [todo EXCEPT ![p] = <<>>]
          /\ UNCHANGED <<gen, owner>> /\ (owner[p] = gen \/ KeepsTurns)
      BY <2>1 DEF ClaudeExits
    <2>3. todo' \in [Procs -> Seq(Turns)]
      BY <2>2 DEF ClaudeWork
    <2>4. WorkOf(p)'
      <3>1. todo'[p] = <<>>
        BY <2>2 DEF ClaudeWork
      <3> QED BY <3>1 DEF WorkOf
    <2>5. ASSUME NEW q \in Procs, q # p PROVE WorkOf(q)'
      <3>1. todo'[q] = todo[q] /\ (Alive(q)' <=> Alive(q))
        BY <2>2, <2>5 DEF Alive, ClaudeProcess, ClaudeWork
      <3>2. todo[q] # <<>> /\ owner[q] = gen => turn' = turn
        BY <2>2, <2>5 DEF ClaudeProcess, ClaudeWork, WorkOf, KeepsTurns
      <3> QED BY <1>1, <1>2, <2>2, <3>1, <3>2, WorkStays
    <2> QED BY <2>3, <2>4, <2>5 DEF ClaudeWork
  <1>5. CASE Claude!OnResult
    <2>1. PICK p \in Procs : ClaudeResult(p)
      BY <1>5, ClaudeResultOne
    <2>2. WorkOf(p)' /\ todo' \in [Procs -> Seq(Turns)]
      BY <1>1, <1>2, <2>1, WorkDone
    <2>3. /\ Alive(p) /\ todo' = [todo EXCEPT ![p] = Tail(todo[p])]
          /\ UNCHANGED <<gen, owner, status>> /\ (owner[p] = gen \/ KeepsTurns)
      BY <2>1 DEF ClaudeResult
    <2>4. ASSUME NEW q \in Procs, q # p PROVE WorkOf(q)'
      <3>1. todo'[q] = todo[q] /\ (Alive(q)' <=> Alive(q))
        BY <2>3, <2>4 DEF Alive, ClaudeProcess, ClaudeWork
      <3>2. todo[q] # <<>> /\ owner[q] = gen => turn' = turn
        BY <2>3, <2>4 DEF ClaudeProcess, ClaudeWork, WorkOf, KeepsTurns
      <3> QED BY <1>1, <1>2, <2>3, <3>1, <3>2, WorkStays
    <2> QED BY <2>2, <2>4 DEF ClaudeWork
  <1>6. CASE ClaudeStops
    <2>1. /\ UNCHANGED <<owner, todo>> /\ turn' = turn /\ (gen' = gen \/ gen' = gen + 1)
          /\ \A p \in Procs : Alive(p)' <=> Alive(p)
      BY <1>6, ClaudeStopsAlone DEF KeepsTurns
    <2>2. \A p \in Procs : owner[p] # gen + 1
      BY DEF ClaudeProcess
    <2>3. ASSUME NEW p \in Procs PROVE WorkOf(p)'
      BY <1>1, <1>2, <2>1, <2>2, WorkStays
    <2> QED BY <2>1, <2>3 DEF ClaudeWork
  <1>7. CASE ClaudeRests
    <2>1. UNCHANGED <<gen, status, owner, todo>> /\ (KeepsTurns \/ Claude!StdinError)
      BY <1>7, ClaudeRestsAlone
    <2>2. turn # 0 => turn' = turn \/ ExcusedAfter(turn)
      <3>1. CASE KeepsTurns
        BY <3>1 DEF KeepsTurns
      <3>2. CASE Claude!StdinError
        <4>1. endedBy' = [endedBy EXCEPT ![turn] = "stdin"] /\ turn # 0
          BY <3>2 DEF Claude!StdinError, Claude!EndTurn
        <4>2. turn \in Turns
          BY <1>0, <4>1 DEF Turns
        <4> QED BY <4>1, <4>2 DEF ExcusedAfter, ClaudeTurns
      <3> QED BY <2>1, <3>1, <3>2
    <2>3. ASSUME NEW p \in Procs PROVE WorkOf(p)'
      <3>1. Alive(p)' <=> Alive(p)
        BY <2>1 DEF Alive
      <3> QED BY <1>1, <1>2, <2>1, <2>2, <3>1, WorkStays
    <2> QED BY <2>1, <2>3 DEF ClaudeWork
  <1> QED BY <1>3, <1>4, <1>5, <1>6, <1>7, ClaudeSteps

\* Interrupts are of turns that began, and a process that was told to go when the
\* adapter was not stopping had one that was not acknowledged.
LEMMA ClaudeInterruptsKept ==
    ASSUME ClaudeTurns, ClaudeProcess, ClaudeWork, ClaudeInterrupts, Claude!KilledForInterrupt, Claude!Next
    PROVE  ClaudeInterrupts' /\ Claude!KilledForInterrupt' /\ cancelled \subseteq cancelled'
  <1>0. 0 \notin Turns /\ MaxTurns \in Nat /\ Begun \subseteq Begun' /\ Begun \subseteq Turns
    BY ClaudeTurnsKept, BoundsAssumption DEF Turns, Begun
  <1>1. turn # 0 => turn \in Begun /\ turn \in Turns /\ \A u \in Begun : u <= turn
    BY <1>0 DEF ClaudeTurns, TurnInFlight, Begun, Turns
  <1>2. ASSUME UNCHANGED endedBy, unacked \subseteq unacked' PROVE Claude!KilledForInterrupt'
    BY <1>2 DEF Claude!KilledForInterrupt
  <1>3. ASSUME NEW c, c # "killed", EndsTurn(c), unacked' = unacked PROVE Claude!KilledForInterrupt'
    <2>1. ASSUME NEW t \in Turns, endedBy'[t] = "killed" PROVE endedBy[t] = "killed"
      <3>1. endedBy \in [Turns -> Claude!Causes] /\ endedBy' = IF turn = 0 THEN endedBy ELSE [endedBy EXCEPT ![turn] = c]
        BY <1>3 DEF EndsTurn, ClaudeTurns
      <3> QED BY <1>1, <1>3, <2>1, <3>1
    <2> QED BY <1>3, <2>1, ClaudeNames DEF Claude!KilledForInterrupt, Claude!Turns, Turns
  <1>4. CASE Claude!SendTurn
    <2>1. PICK p \in Procs : ClaudeSends(p)
      BY <1>4, ClaudeSendsOne
    <2>2. UNCHANGED <<gen, stopping, interrupts, cancelled, unacked, endedBy>>
          /\ (UNCHANGED <<status, owner>> \/ (status' = [status EXCEPT ![p] = "alive"] /\ owner' = [owner EXCEPT ![p] = gen]))
      BY <2>1 DEF ClaudeSends, BeginsTurn
    <2>3. \A q \in Procs : status'[q] = "termed" => status[q] = "termed" /\ owner'[q] = owner[q]
      BY <2>2 DEF ClaudeProcess
    <2>4. ClaudeInterrupts'
      BY <1>0, <2>2, <2>3 DEF ClaudeInterrupts
    <2> QED BY <1>2, <2>2, <2>4
  <1>5. CASE Claude!Exit
    <2>1. PICK p \in Procs : ClaudeExits(p)
      BY <1>5, ClaudeExitsOne
    <2>2. /\ status' = [status EXCEPT ![p] = "gone"] /\ UNCHANGED <<gen, owner, cancelled, unacked>>
          /\ interrupts' = {i \in interrupts : i[1] # p}
          /\ \/ /\ owner[p] = gen /\ (stopping' = "no" => stopping = "no")
                /\ EndsTurn(IF status[p] = "termed" /\ stopping = "no" THEN "killed" ELSE "exit")
             \/ KeepsTurns /\ stopping' = stopping
      BY <2>1 DEF ClaudeExits
    <2>3. \A q \in Procs : status'[q] = "termed" => status[q] = "termed"
      BY <2>2 DEF ClaudeProcess
    <2>4. ClaudeInterrupts'
      BY <1>0, <2>2, <2>3 DEF ClaudeInterrupts
    <2>5. CASE KeepsTurns
      BY <1>2, <2>2, <2>4, <2>5 DEF KeepsTurns
    <2>6. CASE EndsTurn("exit")
      BY <1>3, <2>2, <2>4, <2>6
    <2>7. CASE owner[p] = gen /\ status[p] = "termed" /\ stopping = "no" /\ EndsTurn("killed")
      <3>1. PICK v \in unacked : v \in Begun
        BY <2>7 DEF ClaudeInterrupts
      <3>2. endedBy \in [Turns -> Claude!Causes] /\ endedBy' = IF turn = 0 THEN endedBy ELSE [endedBy EXCEPT ![turn] = "killed"]
        BY <2>7 DEF EndsTurn, ClaudeTurns
      <3>3. ASSUME NEW t \in Turns, endedBy'[t] = "killed" PROVE \E u \in unacked' : u <= t
        <4>1. CASE endedBy[t] = "killed"
          BY <2>2, <4>1, ClaudeNames DEF Claude!KilledForInterrupt
        <4>2. CASE turn # 0 /\ t = turn
          BY <1>1, <2>2, <3>1, <4>2
        <4> QED BY <3>2, <3>3, <4>1, <4>2
      <3> QED BY <2>2, <2>4, <3>3, ClaudeNames DEF Claude!KilledForInterrupt, Claude!Turns, Turns
    <2> QED BY <2>2, <2>5, <2>6, <2>7
  <1>6. CASE Claude!OnResult
    <2>1. PICK p \in Procs : ClaudeResult(p)
      BY <1>6, ClaudeResultOne
    <2>2. UNCHANGED <<gen, stopping, status, owner, interrupts, cancelled, unacked>>
          /\ (KeepsTurns \/ EndsTurn("completed"))
      BY <2>1 DEF ClaudeResult
    <2>3. ClaudeInterrupts'
      BY <1>0, <2>2 DEF ClaudeInterrupts
    <2> QED BY <1>2, <1>3, <2>2, <2>3 DEF KeepsTurns
  <1>7. CASE Claude!Stop \/ Claude!Replace \/ Claude!StopTimeout
    <2>1. UNCHANGED <<interrupts, cancelled, unacked, endedBy, owner>>
      BY <1>7 DEF Claude!Stop, Claude!Replace, Claude!StopTimeout
    <2>2. \A p \in Procs : status'[p] = "termed" /\ owner'[p] = gen' /\ stopping' = "no" =>
                              status[p] = "termed" /\ owner[p] = gen /\ stopping = "no"
      <3>1. CASE Claude!Stop
        BY <3>1 DEF Claude!Stop
      <3>2. CASE Claude!StopTimeout
        BY <3>2 DEF Claude!StopTimeout
      <3>3. CASE Claude!Replace
        <4>1. gen' = gen + 1 /\ UNCHANGED owner /\ gen \in Nat
          BY <3>3, GensAssumption DEF Claude!Replace, ClaudeProcess
        <4>2. \A p \in Procs : owner[p] # gen + 1
          BY DEF ClaudeProcess
        <4> QED BY <4>1, <4>2
      <3> QED BY <1>7, <3>1, <3>2, <3>3
    <2>3. ClaudeInterrupts'
      BY <1>0, <2>1, <2>2 DEF ClaudeInterrupts
    <2> QED BY <1>2, <2>1, <2>3
  <1>8. CASE Claude!InterruptTimeout
    <2>1. PICK i \in interrupts : interrupts' = interrupts \ {i} /\ unacked' = unacked \cup {i[2]}
      BY <1>8 DEF Claude!InterruptTimeout
    <2>2. UNCHANGED <<gen, stopping, owner, cancelled, endedBy>>
      BY <1>8 DEF Claude!InterruptTimeout
    <2>3. PICK u \in Begun : u = i[2]
      BY <2>1 DEF ClaudeInterrupts
    <2>4. unacked' # {} /\ unacked' \subseteq Begun'
      BY <1>0, <2>1, <2>3 DEF ClaudeInterrupts
    <2>5. ClaudeInterrupts'
      BY <1>0, <2>1, <2>2, <2>4 DEF ClaudeInterrupts
    <2> QED BY <1>2, <2>1, <2>2, <2>5
  <1>9. CASE ClaudeRests
    <2>1. UNCHANGED <<gen, stopping, status, owner, unacked>> /\ (KeepsTurns \/ Claude!StdinError)
      BY <1>9, ClaudeRestsAlone
    <2>2. Claude!KilledForInterrupt'
      <3>1. CASE KeepsTurns
        BY <1>2, <2>1, <3>1 DEF KeepsTurns
      <3>2. CASE Claude!StdinError
        BY <1>3, <2>1, <3>2 DEF Claude!StdinError, Claude!EndTurn, EndsTurn
      <3> QED BY <2>1, <3>1, <3>2
    <2>3. CASE Claude!Interrupt
      <3>1. /\ turn # 0 /\ child # 0 /\ interrupts' = interrupts \cup {<<child, turn>>}
            /\ cancelled' = cancelled \cup {turn}
        BY <2>3 DEF Claude!Interrupt
      <3>2. <<child, turn>> \in Procs \X Turns
        BY <1>1, <3>1 DEF ClaudeProcess, Procs
      <3>3. turn \in Begun' /\ turn \in Turns /\ <<child, turn>>[2] = turn
        BY <1>0, <1>1, <3>1
      <3>4. \A i \in interrupts' : i[2] \in Begun'
        BY <1>0, <3>1, <3>3 DEF ClaudeInterrupts
      <3> QED BY <1>0, <2>1, <2>2, <3>1, <3>2, <3>3, <3>4 DEF ClaudeInterrupts
    <2>4. CASE Claude!InterruptAcknowledged
      <3>1. interrupts' \subseteq interrupts /\ cancelled' = cancelled
        BY <2>4 DEF Claude!InterruptAcknowledged
      <3> QED BY <1>0, <2>1, <2>2, <3>1 DEF ClaudeInterrupts
    <2>5. CASE Claude!StdinError \/ Claude!ApprovalTimeout \/ Claude!CliAsks \/ Claude!Dispatch
               \/ Claude!OperatorAnswers \/ Claude!RelayGivesUp
      <3>1. interrupts' = interrupts /\ cancelled' = cancelled
        BY <2>5 DEF Claude!StdinError, Claude!ApprovalTimeout, Claude!CliAsks, Claude!Dispatch,
                    Claude!OperatorAnswers, Claude!RelayGivesUp
      <3> QED BY <1>0, <2>1, <2>2, <3>1 DEF ClaudeInterrupts
    <2> QED BY <1>9, <2>3, <2>4, <2>5 DEF ClaudeRests
  <1> QED BY <1>4, <1>5, <1>6, <1>7, <1>8, <1>9, ClaudeSteps DEF ClaudeStops

\* What happens to the i-th call in a step: it moves on towards a decision, and
\* goes ahead only if the operator says so.
Moves(i) ==
    /\ asks'[i] \in Claude!Ask /\ asks'[i].turn = asks[i].turn /\ asks'[i].proc = asks[i].proc
    /\ asks'[i].at = "relay" => asks'[i] = asks[i]
    /\ asks'[i].verdict = "allow" => asks'[i].at = "settled" /\ asks'[i].operator = "allow"
\* It is given to no adapter by this step.
Given(i) ==
    /\ asks'[i].by = asks[i].by
    /\ asks[i].by # 0 /\ asks'[i].at # asks[i].at => asks[i].at = "open" /\ asks'[i].at = "settled"
AllMove == Len(asks') = Len(asks) /\ asks' \in Seq(Claude!Ask) /\ \A i \in 1 .. Len(asks) : Moves(i)

\* Each call received has its type.
LEMMA CallTyped ==
    ASSUME ClaudeAsks, NEW i \in 1 .. Len(asks)
    PROVE  /\ asks[i] \in Claude!Ask /\ asks[i].proc \in Procs /\ asks[i].turn \in Begun
           /\ asks[i].at \in {"relay", "open", "settled"} /\ asks[i].by \in 0 .. MaxGens
           /\ asks[i].at = "relay" => asks[i].verdict = "none" /\ asks[i].by = 0
           /\ asks[i].verdict = "allow" => asks[i].at = "settled" /\ asks[i].operator = "allow"
  <1>1. asks[i] \in Claude!Ask /\ asks[i].turn \in Begun
    BY DEF ClaudeAsks
  <1> QED BY <1>1, ClaudeNames DEF Claude!Ask, ClaudeAsks

\* A decision settles a call that is on its way or on display.
LEMMA SettledMoves ==
    ASSUME ClaudeAsks, NEW i \in 1 .. Len(asks), NEW d \in {"allow", "deny"}, NEW o \in BOOLEAN,
           d = "deny" \/ o, asks[i].at # "settled", asks'[i] = Claude!Settled(asks[i], d, o)
    PROVE  Moves(i) /\ Given(i)
  <1>1. PICK a, b : a = asks[i] /\ b = asks'[i]
    OBVIOUS
  <1>2. a \in Claude!Ask /\ a.at \in {"relay", "open"} /\ a.verdict # "allow" /\ (a.at = "relay" => a.by = 0)
    BY <1>1, CallTyped
  <1>3. b = [a EXCEPT !.at = "settled", !.operator = IF o THEN d ELSE "none",
                      !.verdict = IF status[a.proc] \in {"alive", "termed"} /\ a.verdict = "none" THEN d ELSE a.verdict]
    BY <1>1 DEF Claude!Settled
  <1>4. /\ b.at = "settled" /\ b.by = a.by /\ b.turn = a.turn /\ b.proc = a.proc
        /\ b.operator = (IF o THEN d ELSE "none") /\ b.verdict \in {d, a.verdict}
    BY <1>2, <1>3 DEF Claude!Ask
  <1>5. b \in Claude!Ask
    BY <1>2, <1>3 DEF Claude!Ask
  <1>6. b.verdict = "allow" => b.operator = "allow"
    BY <1>2, <1>4
  <1> QED BY <1>1, <1>2, <1>4, <1>5, <1>6 DEF Moves, Given

\* A call that a step does not touch stays as it is.
LEMMA SameMoves ==
    ASSUME ClaudeAsks, NEW i \in 1 .. Len(asks), asks'[i] = asks[i]
    PROVE  Moves(i) /\ Given(i)
  BY CallTyped DEF Moves, Given

\* The sequence keeps its length when each call moves.
LEMMA MovesKeepLength ==
    ASSUME ClaudeAsks, DOMAIN asks' = DOMAIN asks, asks' = [i \in DOMAIN asks |-> asks'[i]],
           \A i \in 1 .. Len(asks) : Moves(i)
    PROVE  AllMove
  <1>1. asks \in Seq(Claude!Ask) /\ DOMAIN asks = 1 .. Len(asks) /\ Len(asks) \in Nat
    BY DEF ClaudeAsks
  <1>2. \A i \in 1 .. Len(asks) : asks'[i] \in Claude!Ask
    BY DEF Moves
  <1>3. asks' \in [1 .. Len(asks) -> Claude!Ask]
    BY <1>1, <1>2
  <1>4. asks' \in Seq(Claude!Ask) /\ Len(asks') = Len(asks)
    BY <1>1, <1>3
  <1> QED BY <1>4 DEF AllMove

\* One call is decided.
LEMMA OneSettled ==
    ASSUME ClaudeAsks, NEW i \in DOMAIN asks, NEW d \in {"allow", "deny"}, NEW o \in BOOLEAN,
           d = "deny" \/ o, asks[i].at # "settled", asks' = [asks EXCEPT ![i] = Claude!Settled(asks[i], d, o)]
    PROVE  AllMove /\ \A j \in 1 .. Len(asks) : Given(j)
  <1>1. DOMAIN asks = 1 .. Len(asks)
    BY DEF ClaudeAsks
  <1>2. \A j \in 1 .. Len(asks) : asks'[j] = IF j = i THEN Claude!Settled(asks[i], d, o) ELSE asks[j]
    BY <1>1
  <1>3. ASSUME NEW j \in 1 .. Len(asks) PROVE Moves(j) /\ Given(j)
    BY <1>1, <1>2, SettledMoves, SameMoves
  <1>4. DOMAIN asks' = DOMAIN asks /\ asks' = [j \in DOMAIN asks |-> asks'[j]]
    OBVIOUS
  <1> QED BY <1>3, <1>4, MovesKeepLength

\* Without a handler a call is denied; a handler shows it.
LEMMA DispatchMoves ==
    ASSUME ClaudeProcess, ClaudeAsks, Claude!Dispatch
    PROVE  /\ AllMove
           /\ \E i \in 1 .. Len(asks) :
                /\ \A j \in 1 .. Len(asks) : j # i => Given(j) /\ asks'[j] = asks[j]
                /\ Given(i) \/ (asks[i].by = 0 /\ asks'[i].by # 0 /\ asks'[i].at = "open")
  <1>0. DOMAIN asks = 1 .. Len(asks)
    BY DEF ClaudeAsks
  <1>1. PICK i \in DOMAIN asks :
          /\ asks[i].at = "relay"
          /\ \/ asks' = [asks EXCEPT ![i] = Claude!Settled(asks[i], "deny", FALSE)]
             \/ handler # 0 /\ asks' = [asks EXCEPT ![i].at = "open", ![i].by = handler]
    BY DEF Claude!Dispatch
  <1>2. CASE asks' = [asks EXCEPT ![i] = Claude!Settled(asks[i], "deny", FALSE)]
    <2>1. \A j \in 1 .. Len(asks) : j # i => asks'[j] = asks[j]
      BY <1>0, <1>2
    <2>2. AllMove /\ \A j \in 1 .. Len(asks) : Given(j)
      BY <1>1, <1>2, OneSettled
    <2> QED BY <1>0, <2>1, <2>2
  <1>3. CASE handler # 0 /\ asks' = [asks EXCEPT ![i].at = "open", ![i].by = handler]
    <2>1. PICK a, b : a = asks[i] /\ b = asks'[i]
      OBVIOUS
    <2>2. a \in Claude!Ask /\ a.verdict = "none" /\ a.by = 0
      BY <1>0, <1>1, <2>1, CallTyped
    <2>3. b = [[a EXCEPT !.at = "open"] EXCEPT !.by = handler]
      BY <1>3, <2>1
    <2>4. b.at = "open" /\ b.by = handler /\ b.turn = a.turn /\ b.proc = a.proc /\ b.verdict = a.verdict
      BY <2>2, <2>3 DEF Claude!Ask
    <2>5. b \in Claude!Ask
      BY <2>2, <2>3 DEF Claude!Ask, ClaudeProcess
    <2>6. Moves(i)
      BY <2>1, <2>2, <2>4, <2>5 DEF Moves
    <2>7. \A j \in 1 .. Len(asks) : j # i => asks'[j] = asks[j]
      BY <1>0, <1>3
    <2>8. \A j \in 1 .. Len(asks) : Moves(j) /\ (j # i => Given(j))
      BY <2>6, <2>7, SameMoves
    <2>9. DOMAIN asks' = DOMAIN asks /\ asks' = [j \in DOMAIN asks |-> asks'[j]]
      BY <1>3
    <2>10. AllMove
      BY <2>8, <2>9, MovesKeepLength
    <2> QED BY <1>0, <1>3, <2>1, <2>2, <2>4, <2>7, <2>8, <2>10
  <1> QED BY <1>1, <1>2, <1>3

LEMMA ClaudeAskSteps ==
    ASSUME ClaudeProcess, ClaudeWork, ClaudeAsks, Claude!Next, ~Claude!CliAsks, ~Claude!Dispatch
    PROVE  AllMove /\ \A i \in 1 .. Len(asks) : Given(i)
  <1> DEFINE Goal == AllMove /\ \A i \in 1 .. Len(asks) : Given(i)
  <1>0. DOMAIN asks = 1 .. Len(asks)
    BY DEF ClaudeAsks
  <1>1. ASSUME asks' = asks PROVE Goal
    <2>1. \A i \in 1 .. Len(asks) : Moves(i) /\ Given(i)
      BY <1>1, SameMoves
    <2>2. asks' \in Seq(Claude!Ask)
      BY <1>1 DEF ClaudeAsks
    <2> QED BY <1>1, <2>1, <2>2 DEF AllMove
  <1>2. CASE Claude!SendTurn \/ Claude!StdinError \/ Claude!Interrupt \/ Claude!InterruptAcknowledged
             \/ Claude!Replace \/ Claude!InterruptTimeout \/ Claude!StopTimeout \/ Claude!OnResult
    <2>1. asks' = asks
      BY <1>2 DEF Claude!SendTurn, Claude!StdinError, Claude!Interrupt, Claude!InterruptAcknowledged,
                  Claude!Replace, Claude!InterruptTimeout, Claude!StopTimeout, Claude!OnResult
    <2> QED BY <1>1, <2>1
  <1>3. CASE Claude!Exit
    <2>1. PICK p \in Procs : asks' = [i \in DOMAIN asks |->
                        IF asks[i].proc = p /\ asks[i].at = "relay"
                        THEN [asks[i] EXCEPT !.at = "settled"] ELSE asks[i]]
      BY <1>3, ClaudeExitsOne
    <2>2. ASSUME NEW i \in 1 .. Len(asks) PROVE Moves(i) /\ Given(i)
      <3>1. CASE asks'[i] = asks[i]
        BY <3>1, SameMoves
      <3>2. CASE asks[i].at = "relay" /\ asks'[i] = [asks[i] EXCEPT !.at = "settled"]
        <4>1. PICK a, b : a = asks[i] /\ b = asks'[i]
          OBVIOUS
        <4>2. a \in Claude!Ask /\ a.verdict = "none" /\ a.by = 0
          BY <3>2, <4>1, CallTyped
        <4>3. b = [a EXCEPT !.at = "settled"]
          BY <3>2, <4>1
        <4>4. b \in Claude!Ask /\ b.at = "settled" /\ b.by = 0 /\ b.turn = a.turn /\ b.proc = a.proc /\ b.verdict = "none"
          BY <4>2, <4>3 DEF Claude!Ask
        <4> QED BY <4>1, <4>2, <4>4 DEF Moves, Given
      <3> QED BY <1>0, <2>1, <3>1, <3>2
    <2>3. DOMAIN asks' = DOMAIN asks /\ asks' = [j \in DOMAIN asks |-> asks'[j]]
      BY <2>1
    <2> QED BY <2>2, <2>3, MovesKeepLength
  <1>4. CASE Claude!Stop
    <2>1. asks' = [i \in DOMAIN asks |-> IF i \in Claude!Open(gen) THEN Claude!Settled(asks[i], "deny", FALSE) ELSE asks[i]]
      BY <1>4 DEF Claude!Stop
    <2>2. ASSUME NEW i \in 1 .. Len(asks) PROVE Moves(i) /\ Given(i)
      <3>1. CASE asks'[i] = asks[i]
        BY <3>1, SameMoves
      <3>2. CASE i \in Claude!Open(gen) /\ asks'[i] = Claude!Settled(asks[i], "deny", FALSE)
        BY <3>2, SettledMoves DEF Claude!Open
      <3> QED BY <1>0, <2>1, <3>1, <3>2
    <2>3. DOMAIN asks' = DOMAIN asks /\ asks' = [j \in DOMAIN asks |-> asks'[j]]
      BY <2>1
    <2> QED BY <2>2, <2>3, MovesKeepLength
  <1>5. CASE Claude!OperatorAnswers
    <2>1. PICK i \in DOMAIN asks, d \in {"allow", "deny"} :
             asks[i].at = "open" /\ asks' = [asks EXCEPT ![i] = Claude!Settled(asks[i], d, TRUE)]
      BY <1>5 DEF Claude!OperatorAnswers, Claude!Open
    <2> QED BY <2>1, OneSettled
  <1>6. CASE Claude!ApprovalTimeout
    <2>1. PICK i \in DOMAIN asks :
             asks[i].at = "open" /\ asks' = [asks EXCEPT ![i] = Claude!Settled(asks[i], "deny", FALSE)]
      BY <1>6 DEF Claude!ApprovalTimeout
    <2> QED BY <2>1, OneSettled
  <1>7. CASE Claude!RelayGivesUp
    <2>1. PICK i \in DOMAIN asks :
          /\ asks[i].verdict = "none"
          /\ asks' = [asks EXCEPT ![i].verdict = "deny", ![i].at = IF @ = "relay" THEN "settled" ELSE @]
      BY <1>7 DEF Claude!RelayGivesUp
    <2>2. PICK a, b : a = asks[i] /\ b = asks'[i]
      OBVIOUS
    <2>3. a \in Claude!Ask /\ (a.at = "relay" => a.by = 0) /\ a.at \in {"relay", "open", "settled"}
      BY <1>0, <2>2, CallTyped
    <2>4. b = [a EXCEPT !.verdict = "deny", !.at = IF a.at = "relay" THEN "settled" ELSE a.at]
      BY <2>1, <2>2, <2>3 DEF Claude!Ask
    <2>5. b \in Claude!Ask /\ b.at = (IF a.at = "relay" THEN "settled" ELSE a.at) /\ b.by = a.by
          /\ b.turn = a.turn /\ b.proc = a.proc /\ b.verdict = "deny"
      BY <2>3, <2>4 DEF Claude!Ask
    <2>6. Moves(i) /\ Given(i)
      BY <2>2, <2>3, <2>5 DEF Moves, Given
    <2>7. \A j \in 1 .. Len(asks) : j # i => asks'[j] = asks[j]
      BY <1>0, <2>1
    <2>8. \A j \in 1 .. Len(asks) : Moves(j) /\ Given(j)
      BY <2>6, <2>7, SameMoves
    <2>9. DOMAIN asks' = DOMAIN asks /\ asks' = [j \in DOMAIN asks |-> asks'[j]]
      BY <2>1
    <2> QED BY <2>8, <2>9, MovesKeepLength
  <1> QED BY <1>2, <1>3, <1>4, <1>5, <1>6, <1>7 DEF Claude!Next

\* A process that lives asks about the turn it is working on.
LEMMA CallReceived ==
    ASSUME ClaudeProcess, ClaudeWork, ClaudeAsks, Claude!CliAsks
    PROVE  \E a : /\ asks' = Append(asks, a) /\ a \in Claude!Ask /\ a.at = "relay" /\ a.verdict = "none" /\ a.by = 0
                  /\ a.proc \in Procs /\ Alive(a.proc) /\ Works(a.proc, a.turn) /\ a.turn \in Begun
                  /\ Len(asks) < MaxAsks
  <1>1. PICK p \in Procs :
          /\ Alive(p) /\ todo[p] # <<>>
          /\ asks' = Append(asks, [proc |-> p, turn |-> Head(todo[p]), at |-> "relay",
                                   by |-> 0, verdict |-> "none", operator |-> "none"])
    BY ClaudeNames DEF Claude!CliAsks
  <1>2. PICK h : h = Head(todo[p]) /\ h = todo[p][1] /\ 1 \in 1 .. Len(todo[p])
    <2>1. \A s \in Seq(Turns) : s # <<>> => s[1] = Head(s) /\ 1 \in 1 .. Len(s)
      OBVIOUS
    <2> QED BY <1>1, <2>1 DEF ClaudeWork
  <1>3. h \in Begun /\ h \in Turns /\ Works(p, h)
    BY <1>2 DEF ClaudeWork, WorkOf, Works, Begun
  <1>4. PICK a : a = [proc |-> p, turn |-> h, at |-> "relay", by |-> 0, verdict |-> "none", operator |-> "none"]
    OBVIOUS
  <1>5. a \in Claude!Ask
    <2>1. 0 \in 0 .. MaxGens
      BY GensAssumption
    <2> QED BY <1>3, <1>4, <2>1, ClaudeNames DEF Claude!Ask
  <1>6. /\ a.at = "relay" /\ a.verdict = "none" /\ a.by = 0 /\ a.proc = p /\ a.turn = h
    BY <1>4
  <1>7. Len(asks) < MaxAsks
    BY DEF Claude!CliAsks
  <1> QED BY <1>1, <1>2, <1>3, <1>4, <1>5, <1>6, <1>7

LEMMA CallAppended ==
    ASSUME ClaudeAsks, NEW a \in Claude!Ask, asks' = Append(asks, a)
    PROVE  /\ Len(asks) \in Nat /\ asks' \in Seq(Claude!Ask) /\ Len(asks') = Len(asks) + 1
           /\ \A i \in 1 .. Len(asks) : asks'[i] = asks[i]
           /\ asks'[Len(asks) + 1] = a
  BY DEF ClaudeAsks

LEMMA ClaudeAsksKept ==
    ASSUME ClaudeProcess, ClaudeWork, ClaudeAsks, Begun \subseteq Begun', Claude!Next
    PROVE  ClaudeAsks'
  <1>1. CASE Claude!CliAsks
    <2>1. PICK a : /\ asks' = Append(asks, a) /\ a \in Claude!Ask /\ a.at = "relay" /\ a.verdict = "none" /\ a.by = 0
                   /\ a.turn \in Begun /\ Len(asks) < MaxAsks
      BY <1>1, CallReceived
    <2>2. /\ Len(asks) \in Nat /\ asks' \in Seq(Claude!Ask) /\ Len(asks') = Len(asks) + 1
          /\ \A i \in 1 .. Len(asks) : asks'[i] = asks[i]
          /\ asks'[Len(asks) + 1] = a
      BY <2>1, CallAppended
    <2>3. \A i \in 1 .. Len(asks') : i \in 1 .. Len(asks) \/ i = Len(asks) + 1
      BY <2>2
    <2>4. ASSUME NEW i \in 1 .. Len(asks')
          PROVE  /\ asks'[i].turn \in Begun'
                 /\ asks'[i].at = "relay" => asks'[i].verdict = "none" /\ asks'[i].by = 0
                 /\ asks'[i].verdict = "allow" => asks'[i].at = "settled" /\ asks'[i].operator = "allow"
      <3>1. CASE i \in 1 .. Len(asks)
        BY <2>2, <3>1, CallTyped
      <3>2. CASE i = Len(asks) + 1
        BY <2>1, <2>2, <3>2
      <3> QED BY <2>3, <3>1, <3>2
    <2>5. Len(asks') <= MaxAsks
      BY <2>1, <2>2, BoundsAssumption
    <2> QED BY <2>2, <2>4, <2>5 DEF ClaudeAsks
  <1>2. CASE ~Claude!CliAsks
    <2>1. AllMove
      BY <1>2, ClaudeAskSteps, DispatchMoves
    <2>2. ASSUME NEW i \in 1 .. Len(asks')
          PROVE  /\ asks'[i].turn \in Begun'
                 /\ asks'[i].at = "relay" => asks'[i].verdict = "none" /\ asks'[i].by = 0
                 /\ asks'[i].verdict = "allow" => asks'[i].at = "settled" /\ asks'[i].operator = "allow"
      <3>1. i \in 1 .. Len(asks) /\ Moves(i)
        BY <2>1 DEF AllMove
      <3> QED BY <3>1, CallTyped DEF Moves
    <2> QED BY <2>1, <2>2 DEF ClaudeAsks, AllMove
  <1> QED BY <1>1, <1>2

\* A process that lives goes on living, unless it exits, and with the turn it asked
\* about, unless it says that it is done with it.
LEMMA ClaudeGoesOn ==
    ASSUME ClaudeProcess, ClaudeWork, Claude!Next, ~Claude!Exit, ~Claude!OnResult,
           NEW p \in Procs, Alive(p), NEW t, Works(p, t)
    PROVE  Alive(p)' /\ Works(p, t)'
  <1>1. CASE Claude!SendTurn
    <2>1. PICK q \in Procs : ClaudeSends(q)
      BY <1>1, ClaudeSendsOne
    <2>2. todo' = [todo EXCEPT ![q] = Append(todo[q], turn')]
          /\ (status' = status \/ status' = [status EXCEPT ![q] = "alive"])
      BY <2>1 DEF ClaudeSends
    <2>3. Alive(p)'
      BY <2>2 DEF Alive, ClaudeProcess
    <2>4. CASE p # q
      BY <2>2, <2>3, <2>4 DEF Works, ClaudeWork
    <2>5. CASE p = q
      <3>1. PICK s, u : s = todo[p] /\ u = turn'
        OBVIOUS
      <3>2. s \in Seq(Turns) /\ todo'[p] = Append(s, u)
        BY <2>2, <2>5, <3>1 DEF ClaudeWork
      <3>3. PICK j \in 1 .. Len(s) : s[j] = t
        BY <3>1 DEF Works
      <3>4. Len(Append(s, u)) = Len(s) + 1 /\ Append(s, u)[j] = s[j] /\ Len(s) \in Nat
        BY <3>2, <3>3
      <3> QED BY <2>3, <3>2, <3>3, <3>4 DEF Works
    <2> QED BY <2>4, <2>5
  <1>2. CASE ClaudeStops
    BY <1>2, ClaudeStopsAlone DEF Works
  <1>3. CASE ClaudeRests
    BY <1>3, ClaudeRestsAlone DEF Works, Alive
  <1> QED BY <1>1, <1>2, <1>3, ClaudeSteps

LEMMA ClaudeRelaysKept ==
    ASSUME ClaudeProcess, ClaudeWork, ClaudeAsks, ClaudeRelays, cancelled \subseteq cancelled', Claude!Next
    PROVE  ClaudeRelays'
  <1>1. SUFFICES ASSUME NEW i \in 1 .. Len(asks'), NEW b, b = asks'[i], b.at = "relay",
                        NEW p, p = b.proc, NEW t, t = b.turn
                 PROVE  Alive(p)' /\ (t \in cancelled' \/ Works(p, t)')
    BY DEF ClaudeRelays, Alive, Works
  <1>2. CASE Claude!CliAsks
    <2>1. PICK a : /\ asks' = Append(asks, a) /\ a \in Claude!Ask
                   /\ a.proc \in Procs /\ Alive(a.proc) /\ Works(a.proc, a.turn)
      BY <1>2, CallReceived
    <2>2. /\ Len(asks) \in Nat /\ Len(asks') = Len(asks) + 1
          /\ \A j \in 1 .. Len(asks) : asks'[j] = asks[j]
          /\ asks'[Len(asks) + 1] = a
      BY <2>1, CallAppended
    <2>3. UNCHANGED <<status, todo>>
      BY <1>2 DEF Claude!CliAsks
    <2>4. CASE i \in 1 .. Len(asks)
      <3>1. asks[i] = b
        BY <1>1, <2>2, <2>4
      <3>2. Alive(p) /\ (t \in cancelled \/ Works(p, t))
        BY <1>1, <2>4, <3>1 DEF ClaudeRelays
      <3> QED BY <2>3, <3>2 DEF Alive, Works
    <2>5. CASE i = Len(asks) + 1
      <3>1. Alive(p) /\ Works(p, t)
        BY <1>1, <2>1, <2>2, <2>5
      <3> QED BY <2>3, <3>1 DEF Alive, Works
    <2> QED BY <2>2, <2>4, <2>5
  <1>3. CASE ~Claude!CliAsks
    <2>1. AllMove
      BY <1>3, ClaudeAskSteps, DispatchMoves
    <2>2. i \in 1 .. Len(asks) /\ asks[i] = b
      BY <1>1, <2>1 DEF AllMove, Moves
    <2>3. Alive(p) /\ (t \in cancelled \/ Works(p, t)) /\ p \in Procs /\ b.verdict = "none"
      BY <1>1, <2>2, CallTyped DEF ClaudeRelays
    <2>4. CASE ~Claude!Exit /\ ~Claude!OnResult
      <3>1. CASE Works(p, t)
        BY <2>3, <2>4, <3>1, ClaudeGoesOn
      <3>2. CASE t \in cancelled
        <4>1. Alive(p)'
          <5>1. CASE Claude!SendTurn
            BY <2>3, <5>1, ClaudeSendsOne DEF ClaudeSends, Alive, ClaudeProcess
          <5>2. CASE ClaudeStops
            BY <2>3, <5>2, ClaudeStopsAlone
          <5>3. CASE ClaudeRests
            BY <2>3, <5>3, ClaudeRestsAlone DEF Alive
          <5> QED BY <2>4, <5>1, <5>2, <5>3, ClaudeSteps
        <4> QED BY <3>2, <4>1
      <3> QED BY <2>3, <3>1, <3>2
    <2>5. CASE Claude!Exit
      <3>1. PICK q \in Procs : ClaudeExits(q) /\ asks' = [j \in DOMAIN asks |->
                        IF asks[j].proc = q /\ asks[j].at = "relay"
                        THEN [asks[j] EXCEPT !.at = "settled"] ELSE asks[j]]
        BY <2>5, ClaudeExitsOne
      <3>2. status' = [status EXCEPT ![q] = "gone"] /\ todo' = [todo EXCEPT ![q] = <<>>]
        BY <3>1 DEF ClaudeExits
      <3>3. p # q
        <4>1. asks' = [j \in DOMAIN asks |->
                        IF asks[j].proc = q /\ asks[j].at = "relay"
                        THEN [asks[j] EXCEPT !.at = "settled"] ELSE asks[j]]
          BY <3>1
        <4>2. SUFFICES ASSUME p = q PROVE FALSE
          OBVIOUS
        <4>3. i \in DOMAIN asks /\ b \in Claude!Ask
          BY <2>2, CallTyped DEF ClaudeAsks
        <4>4. asks'[i] = [b EXCEPT !.at = "settled"]
          BY <1>1, <2>2, <4>1, <4>2, <4>3
        <4>5. asks'[i].at = "settled"
          BY <4>3, <4>4 DEF Claude!Ask
        <4> QED BY <1>1, <4>5
      <3>4. Alive(p)' /\ todo'[p] = todo[p]
        BY <2>3, <3>2, <3>3 DEF Alive, ClaudeProcess, ClaudeWork
      <3> QED BY <2>3, <3>4 DEF Works
    <2>6. CASE Claude!OnResult
      <3>1. PICK q \in Procs : ClaudeResult(q)
        BY <2>6, ClaudeResultOne
      <3>2. /\ status' = status /\ todo' = [todo EXCEPT ![q] = Tail(todo[q])] /\ todo[q] # <<>>
            /\ Head(todo[q]) \in cancelled \/ \A j \in DOMAIN asks : asks[j].proc = q => asks[j].verdict # "none"
        BY <3>1 DEF ClaudeResult
      <3>3. Alive(p)'
        BY <2>3, <3>2 DEF Alive
      <3>4. CASE p # q
        BY <2>3, <3>2, <3>3, <3>4 DEF Works, ClaudeWork
      <3>5. CASE p = q /\ Works(p, t) /\ t \notin cancelled
        <4>1. PICK s, h : s = todo[p] /\ h = Head(s)
          OBVIOUS
        <4>2. s \in Seq(Turns) /\ s # <<>> /\ todo'[p] = Tail(s)
          BY <3>2, <3>5, <4>1 DEF ClaudeWork
        <4>3. h \in cancelled
          <5>1. i \in DOMAIN asks /\ asks[i].proc = q /\ asks[i].verdict = "none"
            BY <1>1, <2>2, <2>3, <3>5 DEF ClaudeAsks
          <5> QED BY <3>2, <3>5, <4>1, <5>1
        <4>4. PICK j \in 1 .. Len(s) : s[j] = t
          BY <3>5, <4>1 DEF Works
        <4>5. s[1] = h /\ j # 1 /\ Len(s) \in Nat
          BY <3>5, <4>1, <4>2, <4>3, <4>4
        <4>6. j - 1 \in 1 .. Len(Tail(s)) /\ Tail(s)[j - 1] = t
          BY <4>2, <4>4, <4>5
        <4> QED BY <3>3, <4>2, <4>6 DEF Works
      <3> QED BY <2>3, <3>3, <3>4, <3>5
    <2> QED BY <2>4, <2>5, <2>6
  <1> QED BY <1>2, <1>3

LEMMA ClaudeInvInit ==
    ASSUME Claude!Init
    PROVE  ClaudeInv
  <1>0. MaxTurns \in Nat /\ MaxProcs \in Nat /\ MaxGens \in Nat /\ 1 \in 1 .. MaxGens /\ 0 \in 0 .. MaxGens
        /\ 0 \in 0 .. MaxTurns /\ 0 \in 0 .. MaxProcs /\ 0 \notin Turns
    BY BoundsAssumption, GensAssumption DEF Turns
  <1>1. /\ gen = 1 /\ child = 0 /\ stopping = "no" /\ handler = 0
        /\ status = [p \in Procs |-> "new"] /\ owner = [p \in Procs |-> 0] /\ todo = [p \in Procs |-> <<>>]
        /\ turn = 0 /\ phase = [t \in Turns |-> "new"] /\ endedBy = [t \in Turns |-> "none"]
        /\ interrupts = {} /\ cancelled = {} /\ unacked = {} /\ asks = <<>> /\ misread = {}
    BY ClaudeNames DEF Claude!Init
  <1>2. Begun = {} /\ Begun = 1 .. 0
    BY <1>1 DEF Begun
  <1>3. ClaudeTurns
    <2>1. phase \in [Turns -> Phases] /\ endedBy \in [Turns -> Claude!Causes]
      BY <1>1 DEF Phases, Claude!Causes
    <2>2. Numbered
      BY <1>0, <1>2 DEF Numbered
    <2>3. \A t \in Turns : (phase[t] = "running" <=> t = turn) /\ endedBy[t] = "none"
      BY <1>0, <1>1
    <2> QED BY <1>0, <1>1, <2>1, <2>2, <2>3 DEF ClaudeTurns, TurnInFlight
  <1>4. ClaudeProcess
    BY <1>0, <1>1 DEF ClaudeProcess, Alive
  <1>5. ClaudeWork
    <2>1. todo \in [Procs -> Seq(Turns)] /\ \A p \in Procs : todo[p] = <<>>
      BY <1>1
    <2>2. \A p \in Procs : 1 .. Len(todo[p]) = {}
      BY <2>1
    <2> QED BY <2>1, <2>2 DEF ClaudeWork, WorkOf
  <1>6. ClaudeAsks /\ ClaudeRelays
    BY <1>1, BoundsAssumption DEF ClaudeAsks, ClaudeRelays
  <1>7. ClaudeInterrupts
    <2>1. \A p \in Procs : status[p] = "new"
      BY <1>1
    <2> QED BY <1>1, <2>1 DEF ClaudeInterrupts
  <1>8. ClaudeMisread /\ Claude!NothingMisread
    BY <1>1 DEF ClaudeMisread, Claude!NothingMisread
  <1>9. Claude!KilledForInterrupt
    BY <1>1, ClaudeNames DEF Claude!KilledForInterrupt
  <1> QED BY <1>3, <1>4, <1>5, <1>6, <1>7, <1>8, <1>9 DEF ClaudeInv

LEMMA ClaudeInvKept ==
    ASSUME ClaudeInv, Claude!Next
    PROVE  ClaudeInv'
  <1> USE DEF ClaudeInv
  <1>1. ClaudeTurns' /\ Begun \subseteq Begun' /\ ClaudeProcess'
    BY ClaudeTurnsKept, ClaudeProcessKept
  <1>2. ClaudeInterrupts' /\ Claude!KilledForInterrupt' /\ cancelled \subseteq cancelled'
    BY ClaudeInterruptsKept
  <1>3. ClaudeMisread' /\ Claude!NothingMisread' /\ misread \subseteq misread'
    BY <1>2, ClaudeMisreadKept
  <1>4. ClaudeWork'
    BY <1>3, ClaudeWorkKept
  <1>5. ClaudeAsks' /\ ClaudeRelays'
    BY <1>1, <1>2, ClaudeAsksKept, ClaudeRelaysKept
  <1> QED BY <1>1, <1>2, <1>3, <1>4, <1>5

LEMMA ClaudeInvTypes ==
    ASSUME ClaudeInv
    PROVE  Claude!TypeOK /\ Claude!AllowedByOperator
  <1>0. MaxTurns \in Nat
    BY BoundsAssumption
  <1>1. /\ phase \in [Turns -> Phases] /\ endedBy \in [Turns -> Claude!Causes] /\ turn \in 0 .. MaxTurns
        /\ turn # 0 => phase[turn] = "running"
    BY <1>0 DEF ClaudeInv, ClaudeTurns, TurnInFlight, Turns
  <1>2. /\ todo \in [Procs -> Seq(Turns)] /\ asks \in Seq(Claude!Ask) /\ misread \subseteq Turns \X Turns \X BOOLEAN
    BY DEF ClaudeInv, ClaudeWork, ClaudeAsks, ClaudeMisread
  <1>3. interrupts \subseteq Procs \X Turns /\ cancelled \subseteq Turns /\ unacked \subseteq Turns
    BY DEF ClaudeInv, ClaudeInterrupts, Begun
  <1>4. ClaudeProcess /\ Claude!Gens = 1 .. MaxGens
    BY DEF ClaudeInv, Claude!Gens
  <1>5. Claude!TypeOK
    BY <1>1, <1>2, <1>3, <1>4, ClaudeNames DEF Claude!TypeOK, ClaudeProcess, Alive, Phases
  <1>6. Claude!AllowedByOperator
    <2>1. DOMAIN asks = 1 .. Len(asks)
      BY <1>2
    <2> QED BY <2>1 DEF Claude!AllowedByOperator, ClaudeInv, ClaudeAsks
  <1> QED BY <1>5, <1>6

-----------------------------------------------------------------------------
(* Qwen Code: the parts of the invariant. *)

QwenAsk == [turn : 1 .. MaxTurns, shown : 0 .. MaxTurns, state : {"open", "settled"},
            verdict : {"none", "allow", "deny"}]

QwenTurns == phase \in [Turns -> Phases] /\ endedBy \in [Turns -> Qwen!Causes] /\ Numbered

QwenWorkers ==
    /\ session \in [Workers -> {"none", "good", "stale"}] /\ stopping \subseteq Workers
    /\ interrupted \subseteq Workers /\ timedOut \subseteq Workers
    /\ seen \in [Workers -> SUBSET {"content", "miss"}] /\ aborted \subseteq Turns

\* A worker is busy with a turn of its own, the one that holds the slot.
QwenBusy ==
    /\ slot \in 0 .. MaxTurns /\ current \in [Workers -> 0 .. MaxTurns] /\ fallback \subseteq Workers
    /\ DOMAIN worker = Begun /\ \A t \in Begun : worker[t] \in Workers
    /\ \A w \in Workers : current[w] # 0 =>
          current[w] \in Begun /\ worker[current[w]] = w /\ phase[current[w]] = "running"
    /\ \A w \in fallback : current[w] # 0
    /\ \A t \in Turns : phase[t] = "running" => slot = t

\* A child that has not exited keeps the slot for its turn.
QwenChildren ==
    /\ child \in [Turns -> {"none", "alive", "leaving", "gone"}]
    /\ \A t \in Turns : child[t] \in {"alive", "leaving"} => slot = t
    /\ \A t \in Turns : child[t] # "none" => t \in Begun

QwenAsks == asks \in Seq(QwenAsk)

QwenInv == QwenTurns /\ QwenWorkers /\ QwenBusy /\ QwenChildren /\ QwenAsks /\ Qwen!NothingMisread

-----------------------------------------------------------------------------
(* Qwen Code: what a step does. *)

USE DEF Qwen!workerVars, Qwen!turnVars

LEMMA QwenNames ==
    /\ Qwen!Turns = Turns /\ Qwen!Begun = Begun
    /\ Qwen!Cardinality(Qwen!Begun) = Cardinality(Begun)
  <1>1. Qwen!Turns = Turns /\ Qwen!Begun = Begun
    BY DEF Qwen!Turns, Qwen!Begun, Turns, Begun
  <1>2. \A S : Qwen!Cardinality(S) = Cardinality(S)
    BY DEF Qwen!Cardinality, Cardinality
  <1> QED BY <1>1, <1>2

QwenEnds ==
    \E w \in Workers, c \in Qwen!Causes : current[w] # 0 /\ Qwen!EndTurn(w, c) /\ UNCHANGED <<slot, worker>>
QwenRests == UNCHANGED <<current, worker, phase, endedBy>>
QwenBegins == \E w \in Workers : Qwen!SendTurn(w)

\* A turn begins, the turn of a worker ends, or none does.
LEMMA QwenSteps ==
    ASSUME Qwen!Next
    PROVE  /\ QwenBegins \/ QwenEnds \/ QwenRests
           /\ ~QwenBegins => slot' = slot \/ \E t \in Turns : Qwen!Release(t)
  <1>0. {"completed", "interrupted", "error", "timeout", "miss"} \subseteq Qwen!Causes
    BY DEF Qwen!Causes
  <1>1. CASE \E w \in Workers : Qwen!OnContent(w) \/ Qwen!OnResumeMiss(w) \/ Qwen!Interrupt(w)
                                \/ Qwen!InterruptFallback(w) \/ Qwen!Stop(w) \/ Qwen!Stopped(w)
    BY <1>1 DEF Qwen!OnContent, Qwen!OnResumeMiss, Qwen!Interrupt, Qwen!InterruptFallback, Qwen!Stop,
                Qwen!Stopped, QwenRests
  <1>2. CASE \E t \in Turns : Qwen!CanUseTool(t) \/ Qwen!ChildExits(t) \/ Qwen!Release(t)
    BY <1>2 DEF Qwen!CanUseTool, Qwen!ChildExits, Qwen!Release, QwenRests
  <1>3. CASE Qwen!OperatorAnswers \/ Qwen!ApprovalTimeout
    BY <1>3 DEF Qwen!OperatorAnswers, Qwen!ApprovalTimeout, QwenRests
  <1>4. ASSUME NEW w \in Workers, Qwen!OnResult(w) PROVE QwenEnds /\ slot' = slot
    BY <1>0, <1>4 DEF Qwen!OnResult, QwenEnds
  <1>5. ASSUME NEW w \in Workers, Qwen!OnStreamEnd(w) PROVE QwenEnds /\ slot' = slot
    BY <1>0, <1>5 DEF Qwen!OnStreamEnd, QwenEnds
  <1>6. ASSUME NEW w \in Workers, Qwen!TurnTimeout(w) PROVE QwenEnds /\ slot' = slot
    BY <1>0, <1>6 DEF Qwen!TurnTimeout, QwenEnds
  <1> QED BY <1>1, <1>2, <1>3, <1>4, <1>5, <1>6, QwenNames
          DEF Qwen!Next, QwenBegins, Qwen!Deadlines, Qwen!Released

\* The turn that begins is the next one, in a free slot.
LEMMA QwenBegun ==
    ASSUME QwenTurns, NEW w \in Workers, Qwen!SendTurn(w)
    PROVE  \E n \in Turns :
              /\ n \notin Begun /\ Begun' = Begun \cup {n} /\ Numbered' /\ slot = 0 /\ slot' = n
              /\ current' = [current EXCEPT ![w] = n] /\ current[w] = 0
              /\ worker' = [u \in Begun \cup {n} |-> IF u = n THEN w ELSE worker[u]]
              /\ phase' = [phase EXCEPT ![n] = "running"]
              /\ \E c \in {"alive", "gone"} : child' = [child EXCEPT ![n] = c]
              /\ interrupted' = interrupted \ {w} /\ timedOut' = timedOut \ {w}
              /\ UNCHANGED <<session, stopping, fallback, seen, aborted, endedBy, asks>>
  <1> DEFINE n == Cardinality(Begun) + 1
  <1>0. MaxTurns \in Nat
    BY BoundsAssumption
  <1>1. Cardinality(Begun) < MaxTurns
    BY QwenNames DEF Qwen!SendTurn
  <1>2. n \in Turns /\ Begun = 1 .. n - 1 /\ n - 1 \in 0 .. MaxTurns
    BY <1>1, NextNumber DEF QwenTurns
  <1>3. /\ slot = 0 /\ slot' = n /\ current' = [current EXCEPT ![w] = n] /\ current[w] = 0
        /\ worker' = [u \in Begun \cup {n} |-> IF u = n THEN w ELSE worker[u]]
        /\ phase' = [phase EXCEPT ![n] = "running"]
        /\ \E c \in {"alive", "gone"} : child' = [child EXCEPT ![n] = c]
        /\ interrupted' = interrupted \ {w} /\ timedOut' = timedOut \ {w}
        /\ UNCHANGED <<session, stopping, fallback, seen, aborted, endedBy, asks>>
    BY QwenNames DEF Qwen!SendTurn, Qwen!Acquire
  <1> HIDE DEF n
  <1>4. \A t \in Turns : phase'[t] = IF t = n THEN "running" ELSE phase[t]
    BY <1>2, <1>3 DEF QwenTurns
  <1>5. Begun' = Begun \cup {n}
    BY <1>2, <1>4 DEF Begun
  <1>6. n \notin Begun /\ Begun' = 1 .. n
    BY <1>0, <1>2, <1>5 DEF Turns
  <1>7. Numbered'
    BY <1>0, <1>2, <1>6 DEF Numbered, Turns
  <1> QED BY <1>2, <1>3, <1>5, <1>6, <1>7

\* The turn that ends is a running one of its worker.
LEMMA QwenEnded ==
    ASSUME QwenTurns, QwenBusy, QwenEnds
    PROVE  \E w \in Workers, t \in Turns :
              /\ t = current[w] /\ worker[t] = w /\ phase[t] = "running" /\ slot = t
              /\ current' = [current EXCEPT ![w] = 0] /\ fallback' = fallback \ {w}
              /\ seen' = [seen EXCEPT ![w] = {}] /\ phase' = [phase EXCEPT ![t] = "ended"]
              /\ endedBy' \in [Turns -> Qwen!Causes] /\ child' = Qwen!Leaving({t}) /\ Begun' = Begun
              /\ UNCHANGED <<slot, worker>>
  <1>1. PICK w \in Workers, c \in Qwen!Causes : current[w] # 0 /\ Qwen!EndTurn(w, c) /\ UNCHANGED <<slot, worker>>
    BY DEF QwenEnds
  <1>2. PICK t \in Turns : t = current[w] /\ worker[t] = w /\ phase[t] = "running" /\ slot = t
    BY <1>1 DEF QwenBusy, Begun
  <1>3. /\ current' = [current EXCEPT ![w] = 0] /\ fallback' = fallback \ {w}
        /\ seen' = [seen EXCEPT ![w] = {}] /\ phase' = [phase EXCEPT ![t] = "ended"]
        /\ endedBy' = [endedBy EXCEPT ![t] = c] /\ child' = Qwen!Leaving({t})
    BY <1>1, <1>2 DEF Qwen!EndTurn
  <1>4. endedBy' \in [Turns -> Qwen!Causes]
    BY <1>3 DEF QwenTurns
  <1>5. Begun' = Begun
    BY <1>2, <1>3 DEF QwenTurns, Begun
  <1> QED BY <1>1, <1>2, <1>3, <1>4, <1>5

LEMMA QwenTurnsKept ==
    ASSUME QwenTurns, QwenBusy, Qwen!Next
    PROVE  QwenTurns' /\ Begun \subseteq Begun'
  <1>1. CASE QwenBegins
    <2>1. PICK w \in Workers : Qwen!SendTurn(w)
      BY <1>1 DEF QwenBegins
    <2>2. PICK n \in Turns : Begun' = Begun \cup {n} /\ Numbered' /\ phase' = [phase EXCEPT ![n] = "running"]
                             /\ endedBy' = endedBy
      BY <2>1, QwenBegun
    <2>3. phase' \in [Turns -> Phases]
      BY <2>2 DEF QwenTurns, Phases
    <2> QED BY <2>2, <2>3 DEF QwenTurns
  <1>2. CASE QwenEnds
    <2>1. PICK t \in Turns : phase' = [phase EXCEPT ![t] = "ended"] /\ Begun' = Begun
                             /\ endedBy' \in [Turns -> Qwen!Causes]
      BY <1>2, QwenEnded
    <2>2. phase' \in [Turns -> Phases] /\ Numbered'
      BY <2>1 DEF QwenTurns, Phases, Numbered
    <2> QED BY <2>1, <2>2 DEF QwenTurns
  <1>3. CASE QwenRests
    BY <1>3 DEF QwenRests, QwenTurns, Numbered, Begun
  <1> QED BY <1>1, <1>2, <1>3, QwenSteps

\* What the workers keep besides their turns.
LEMMA QwenWorkersKept ==
    ASSUME QwenTurns, QwenBusy, QwenWorkers, Qwen!Next
    PROVE  QwenWorkers'
  <1>1. ASSUME NEW w \in Workers, Qwen!SendTurn(w) PROVE QwenWorkers'
    BY <1>1 DEF Qwen!SendTurn, QwenWorkers
  <1>2. ASSUME NEW w \in Workers, Qwen!OnContent(w) \/ Qwen!OnResumeMiss(w) PROVE QwenWorkers'
    BY <1>2 DEF Qwen!OnContent, Qwen!OnResumeMiss, QwenWorkers
  <1>3. ASSUME NEW w \in Workers, Qwen!Interrupt(w) \/ Qwen!Stop(w) \/ Qwen!Stopped(w) PROVE QwenWorkers'
    BY <1>3 DEF Qwen!Interrupt, Qwen!Stop, Qwen!Stopped, QwenWorkers
  <1>4. ASSUME NEW w \in Workers, Qwen!InterruptFallback(w) PROVE QwenWorkers'
    <2>1. current[w] \in Turns
      BY <1>4 DEF Qwen!InterruptFallback, QwenBusy, Begun
    <2>2. aborted' = aborted \cup {current[w]} /\ UNCHANGED <<session, stopping, interrupted, timedOut, seen>>
      BY <1>4 DEF Qwen!InterruptFallback
    <2> QED BY <2>1, <2>2 DEF QwenWorkers
  <1>5. ASSUME NEW w \in Workers, Qwen!OnResult(w) \/ Qwen!OnStreamEnd(w) PROVE QwenWorkers'
    <2>1. seen' = [seen EXCEPT ![w] = {}] /\ UNCHANGED <<stopping, interrupted, timedOut, aborted>>
      BY <1>5 DEF Qwen!OnResult, Qwen!OnStreamEnd, Qwen!EndTurn
    <2>2. session' = session \/ session' = [session EXCEPT ![w] = "good"] \/ session' = [session EXCEPT ![w] = "none"]
      BY <1>5 DEF Qwen!OnResult, Qwen!OnStreamEnd
    <2>3. session' \in [Workers -> {"none", "good", "stale"}]
      BY <2>2 DEF QwenWorkers
    <2> QED BY <2>1, <2>3 DEF QwenWorkers
  <1>6. ASSUME NEW w \in Workers, Qwen!TurnTimeout(w) PROVE QwenWorkers'
    <2>1. current[w] \in Turns
      BY <1>6 DEF Qwen!TurnTimeout, QwenBusy, Begun
    <2>2. /\ seen' = [seen EXCEPT ![w] = {}] /\ UNCHANGED <<session, stopping, interrupted>>
          /\ timedOut' = timedOut \cup {w} /\ aborted' = aborted \cup {current[w]}
      BY <1>6 DEF Qwen!TurnTimeout, Qwen!EndTurn
    <2> QED BY <2>1, <2>2 DEF QwenWorkers
  <1>7. CASE Qwen!OperatorAnswers \/ Qwen!ApprovalTimeout
             \/ \E t \in Turns : Qwen!CanUseTool(t) \/ Qwen!ChildExits(t) \/ Qwen!Release(t)
    BY <1>7 DEF Qwen!OperatorAnswers, Qwen!ApprovalTimeout, Qwen!CanUseTool, Qwen!ChildExits, Qwen!Release,
                QwenWorkers
  <1> QED BY <1>1, <1>2, <1>3, <1>4, <1>5, <1>6, <1>7, QwenNames
          DEF Qwen!Next, Qwen!Deadlines, Qwen!Released

\* The timers of interrupts belong to workers that are busy.
LEMMA QwenFallbacks ==
    ASSUME Qwen!Next, QwenRests
    PROVE  \A v \in fallback' : v \in fallback \/ (v \in Workers /\ current[v] # 0)
  <1>1. ASSUME NEW w \in Workers, Qwen!OnContent(w) \/ Qwen!OnResumeMiss(w) \/ Qwen!Stop(w) \/ Qwen!Stopped(w)
        PROVE  fallback' = fallback
    BY <1>1 DEF Qwen!OnContent, Qwen!OnResumeMiss, Qwen!Stop, Qwen!Stopped
  <1>2. ASSUME NEW w \in Workers, Qwen!SendTurn(w) PROVE fallback' = fallback
    BY <1>2 DEF Qwen!SendTurn
  <1>3. ASSUME NEW w \in Workers, Qwen!Interrupt(w) PROVE fallback' = fallback \cup {w} /\ current[w] # 0
    BY <1>3 DEF Qwen!Interrupt
  <1>4. ASSUME NEW w \in Workers, Qwen!InterruptFallback(w) \/ Qwen!OnResult(w) \/ Qwen!OnStreamEnd(w)
                                  \/ Qwen!TurnTimeout(w)
        PROVE  fallback' = fallback \ {w}
    BY <1>4 DEF Qwen!InterruptFallback, Qwen!OnResult, Qwen!OnStreamEnd, Qwen!TurnTimeout, Qwen!EndTurn
  <1>5. CASE Qwen!OperatorAnswers \/ Qwen!ApprovalTimeout
             \/ \E t \in Turns : Qwen!CanUseTool(t) \/ Qwen!ChildExits(t) \/ Qwen!Release(t)
    BY <1>5 DEF Qwen!OperatorAnswers, Qwen!ApprovalTimeout, Qwen!CanUseTool, Qwen!ChildExits, Qwen!Release
  <1> QED BY <1>1, <1>2, <1>3, <1>4, <1>5, QwenNames DEF Qwen!Next, Qwen!Deadlines, Qwen!Released

\* The turn that runs holds the slot, and its worker is busy with it.
LEMMA QwenBusyKept ==
    ASSUME QwenTurns, QwenBusy, QwenChildren, Qwen!Next
    PROVE  QwenBusy'
  <1>0. MaxTurns \in Nat /\ 0 \notin Turns /\ phase \in [Turns -> Phases]
    BY BoundsAssumption DEF Turns, QwenTurns
  <1>1. CASE QwenBegins
    <2>1. PICK w \in Workers : Qwen!SendTurn(w)
      BY <1>1 DEF QwenBegins
    <2>2. PICK n \in Turns :
              /\ n \notin Begun /\ Begun' = Begun \cup {n} /\ slot = 0 /\ slot' = n
              /\ current' = [current EXCEPT ![w] = n] /\ current[w] = 0
              /\ worker' = [u \in Begun \cup {n} |-> IF u = n THEN w ELSE worker[u]]
              /\ phase' = [phase EXCEPT ![n] = "running"] /\ fallback' = fallback
      BY <2>1, QwenBegun
    <2>3. \A v \in Workers : current[v] = 0
      BY <1>0, <2>2 DEF QwenBusy, Begun
    <2>4. fallback = {}
      BY <2>3 DEF QwenBusy
    <2>5. \A v \in Workers : current'[v] = IF v = w THEN n ELSE 0
      BY <2>2, <2>3 DEF QwenBusy
    <2>6. \A t \in Turns : phase'[t] = IF t = n THEN "running" ELSE phase[t]
      BY <1>0, <2>2
    <2>7. \A t \in Turns : phase[t] # "running"
      BY <1>0, <2>2 DEF QwenBusy
    <2>8. slot' \in 0 .. MaxTurns /\ current' \in [Workers -> 0 .. MaxTurns]
      BY <1>0, <2>2 DEF QwenBusy, Turns
    <2>9. DOMAIN worker' = Begun' /\ worker'[n] = w /\ \A t \in Begun' : worker'[t] \in Workers
      BY <2>2 DEF QwenBusy
    <2> QED BY <2>2, <2>4, <2>5, <2>6, <2>7, <2>8, <2>9 DEF QwenBusy
  <1>2. CASE QwenEnds
    <2>1. PICK w \in Workers, t \in Turns :
              /\ t = current[w] /\ worker[t] = w /\ phase[t] = "running" /\ slot = t
              /\ current' = [current EXCEPT ![w] = 0] /\ fallback' = fallback \ {w}
              /\ phase' = [phase EXCEPT ![t] = "ended"] /\ Begun' = Begun /\ UNCHANGED <<slot, worker>>
      BY <1>2, QwenEnded
    <2>2. \A u \in Turns : phase'[u] = IF u = t THEN "ended" ELSE phase[u]
      BY <1>0, <2>1
    <2>3. \A v \in Workers : current'[v] = IF v = w THEN 0 ELSE current[v]
      BY <2>1 DEF QwenBusy
    <2>4. ASSUME NEW v \in Workers, current'[v] # 0
          PROVE  current'[v] \in Begun' /\ worker'[current'[v]] = v /\ phase'[current'[v]] = "running"
      <3>1. v # w /\ current'[v] = current[v] /\ current[v] # 0
        BY <2>3, <2>4
      <3>2. PICK u \in Turns : u = current[v] /\ u \in Begun /\ worker[u] = v /\ phase[u] = "running"
        BY <3>1 DEF QwenBusy, Begun
      <3>3. u # t
        BY <2>1, <3>1, <3>2
      <3> QED BY <2>1, <2>2, <3>1, <3>2, <3>3
    <2>5. slot' \in 0 .. MaxTurns /\ current' \in [Workers -> 0 .. MaxTurns] /\ fallback' \subseteq Workers
      BY <1>0, <2>1 DEF QwenBusy
    <2>6. \A u \in Turns : phase'[u] = "running" => slot' = u
      BY <2>1, <2>2 DEF QwenBusy
    <2>7. \A v \in fallback' : current'[v] # 0
      BY <2>1, <2>3 DEF QwenBusy
    <2> QED BY <2>1, <2>4, <2>5, <2>6, <2>7 DEF QwenBusy
  <1>3. CASE QwenRests /\ ~QwenBegins
    <2>1. UNCHANGED <<current, worker, phase>> /\ Begun' = Begun
      BY <1>3 DEF QwenRests, Begun
    <2>2. fallback' \subseteq Workers /\ \A v \in fallback' : current'[v] # 0
      BY <1>3, <2>1, QwenFallbacks DEF QwenBusy
    <2>3. CASE slot' = slot
      BY <2>1, <2>2, <2>3 DEF QwenBusy
    <2>4. CASE \E t \in Turns : Qwen!Release(t)
      <3>1. slot' = 0 /\ \A t \in Turns : phase[t] # "running"
        BY <2>4 DEF Qwen!Release, QwenBusy
      <3>2. 0 \in 0 .. MaxTurns
        BY <1>0
      <3> QED BY <2>1, <2>2, <3>1, <3>2 DEF QwenBusy
    <2> QED BY <1>3, <2>3, <2>4, QwenSteps
  <1> QED BY <1>1, <1>2, <1>3, QwenSteps

\* What a step does with the children when no turn begins.
LEMMA QwenChildSteps ==
    ASSUME QwenTurns, QwenChildren, Qwen!Next, ~QwenBegins
    PROVE  /\ child' = child \/ (\E T : child' = Qwen!Leaving(T))
              \/ \E t \in Turns : child[t] \in {"alive", "leaving"} /\ child' = [child EXCEPT ![t] = "gone"]
           /\ slot' = slot \/ \E t \in Turns : slot = t /\ child[t] = "gone" /\ child' = child /\ slot' = 0
  <1>1. CASE \E w \in Workers : Qwen!OnContent(w) \/ Qwen!OnResumeMiss(w) \/ Qwen!Interrupt(w) \/ Qwen!Stopped(w)
    BY <1>1 DEF Qwen!OnContent, Qwen!OnResumeMiss, Qwen!Interrupt, Qwen!Stopped
  <1>2. CASE \E w \in Workers : Qwen!InterruptFallback(w) \/ Qwen!Stop(w)
    BY <1>2 DEF Qwen!InterruptFallback, Qwen!Stop
  <1>3. CASE \E w \in Workers : Qwen!OnResult(w) \/ Qwen!OnStreamEnd(w) \/ Qwen!TurnTimeout(w)
    BY <1>3 DEF Qwen!OnResult, Qwen!OnStreamEnd, Qwen!TurnTimeout, Qwen!EndTurn
  <1>4. CASE Qwen!OperatorAnswers \/ Qwen!ApprovalTimeout \/ \E t \in Turns : Qwen!CanUseTool(t)
    BY <1>4 DEF Qwen!OperatorAnswers, Qwen!ApprovalTimeout, Qwen!CanUseTool
  <1>5. CASE \E t \in Turns : Qwen!ChildExits(t)
    BY <1>5 DEF Qwen!ChildExits
  <1>6. CASE \E t \in Turns : Qwen!Release(t)
    BY <1>6 DEF Qwen!Release
  <1> QED BY <1>1, <1>2, <1>3, <1>4, <1>5, <1>6, QwenNames
          DEF Qwen!Next, Qwen!Deadlines, Qwen!Released, QwenBegins

LEMMA QwenChildrenKept ==
    ASSUME QwenTurns, QwenBusy, QwenChildren, Qwen!Next
    PROVE  QwenChildren'
  <1>0. 0 \notin Turns /\ child \in [Turns -> {"none", "alive", "leaving", "gone"}]
    BY BoundsAssumption DEF Turns, QwenChildren
  <1>1. CASE QwenBegins
    <2>1. PICK w \in Workers : Qwen!SendTurn(w)
      BY <1>1 DEF QwenBegins
    <2>2. PICK n \in Turns : /\ Begun' = Begun \cup {n} /\ slot = 0 /\ slot' = n
                             /\ \E c \in {"alive", "gone"} : child' = [child EXCEPT ![n] = c]
      BY <2>1, QwenBegun
    <2>3. PICK c \in {"alive", "gone"} : child' = [child EXCEPT ![n] = c]
      BY <2>2
    <2> QED BY <1>0, <2>2, <2>3 DEF QwenChildren
  <1>2. CASE ~QwenBegins
    <2>1. Begun \subseteq Begun'
      BY QwenTurnsKept
    <2>2. CASE child' = child
      BY <1>0, <1>2, <2>1, <2>2, QwenChildSteps DEF QwenChildren
    <2>3. CASE child' # child /\ \E T : child' = Qwen!Leaving(T)
      <3>1. PICK T : child' = Qwen!Leaving(T)
        BY <2>3
      <3>2. child' = [t \in Turns |-> IF t \in T /\ child[t] = "alive" THEN "leaving" ELSE child[t]]
        BY <3>1, QwenNames DEF Qwen!Leaving
      <3>3. slot' = slot
        BY <1>2, <2>3, QwenChildSteps
      <3> QED BY <1>0, <2>1, <3>2, <3>3 DEF QwenChildren
    <2>4. CASE child' # child /\ \E t \in Turns : child[t] \in {"alive", "leaving"} /\ child' = [child EXCEPT ![t] = "gone"]
      <3>1. PICK t \in Turns : child[t] \in {"alive", "leaving"} /\ child' = [child EXCEPT ![t] = "gone"]
        BY <2>4
      <3>2. slot' = slot
        BY <1>2, <2>4, QwenChildSteps
      <3> QED BY <1>0, <2>1, <3>1, <3>2 DEF QwenChildren
    <2> QED BY <1>2, <2>2, <2>3, <2>4, QwenChildSteps
  <1> QED BY <1>1, <1>2

\* What a step does with the approvals: some that are open are settled, one is
\* received, or none changes.
QwenReceives == \E t \in Turns : Qwen!CanUseTool(t)

LEMMA QwenAskSteps ==
    ASSUME QwenBusy, QwenAsks, Qwen!Next
    PROVE  asks' = asks \/ (\E S, v : Qwen!Settle(S, v) /\ v \in {"allow", "deny"} /\ S \subseteq Qwen!Open(Turns))
           \/ (QwenReceives /\ UNCHANGED phase)
  <1>0. \A T \in SUBSET Turns : Qwen!Open(T) \subseteq Qwen!Open(Turns)
    BY DEF Qwen!Open
  <1>1. CASE \E w \in Workers : Qwen!SendTurn(w) \/ Qwen!OnContent(w) \/ Qwen!OnResumeMiss(w) \/ Qwen!OnResult(w)
                                \/ Qwen!OnStreamEnd(w) \/ Qwen!Interrupt(w) \/ Qwen!Stopped(w)
    BY <1>1 DEF Qwen!SendTurn, Qwen!OnContent, Qwen!OnResumeMiss, Qwen!OnResult, Qwen!OnStreamEnd,
                Qwen!Interrupt, Qwen!Stopped
  <1>2. ASSUME NEW w \in Workers, Qwen!TurnTimeout(w) \/ Qwen!InterruptFallback(w)
        PROVE  Qwen!Settle(Qwen!Open({current[w]}), "deny") /\ {current[w]} \subseteq Turns
    <2>1. current[w] # 0
      BY <1>2 DEF Qwen!TurnTimeout, Qwen!InterruptFallback, QwenBusy
    <2> QED BY <1>2, <2>1 DEF Qwen!TurnTimeout, Qwen!InterruptFallback, QwenBusy, Begun
  <1>3. ASSUME NEW w \in Workers, Qwen!Stop(w)
        PROVE  Qwen!Settle(Qwen!Open({t \in Begun : worker[t] = w}), "deny") /\ {t \in Begun : worker[t] = w} \subseteq Turns
    BY <1>3, QwenNames DEF Qwen!Stop, Begun
  <1>4. CASE Qwen!OperatorAnswers
    BY <1>4, QwenNames DEF Qwen!OperatorAnswers
  <1>5. CASE Qwen!ApprovalTimeout
    BY <1>5, QwenNames DEF Qwen!ApprovalTimeout
  <1>6. CASE \E t \in Turns : Qwen!CanUseTool(t)
    BY <1>6 DEF Qwen!CanUseTool, QwenReceives
  <1>7. CASE \E t \in Turns : Qwen!ChildExits(t) \/ Qwen!Release(t)
    BY <1>7 DEF Qwen!ChildExits, Qwen!Release
  <1>8. CASE \E w \in Workers : Qwen!TurnTimeout(w) \/ Qwen!InterruptFallback(w) \/ Qwen!Stop(w)
    BY <1>0, <1>2, <1>3, <1>8
  <1> QED BY <1>1, <1>4, <1>5, <1>6, <1>7, <1>8, QwenNames DEF Qwen!Next, Qwen!Deadlines, Qwen!Released

\* Those that are settled stay what they were.
LEMMA QwenSettleAsks ==
    ASSUME QwenAsks, NEW S, NEW v \in {"allow", "deny"}, Qwen!Settle(S, v), S \subseteq Qwen!Open(Turns)
    PROVE  /\ S \subseteq 1 .. Len(asks) /\ Len(asks) \in Nat /\ Len(asks') = Len(asks) /\ QwenAsks'
           /\ \A i \in 1 .. Len(asks) :
                /\ asks'[i].turn = asks[i].turn /\ asks'[i].shown = asks[i].shown
                /\ asks'[i].state = IF i \in S THEN "settled" ELSE asks[i].state
           /\ \A i \in S : asks[i].state = "open"
  <1>1. Len(asks) \in Nat /\ DOMAIN asks = 1 .. Len(asks) /\ \A i \in 1 .. Len(asks) : asks[i] \in QwenAsk
    BY DEF QwenAsks
  <1>2. asks' = [i \in DOMAIN asks |->
                  IF i \in S THEN [asks[i] EXCEPT !.state = "settled", !.verdict = v] ELSE asks[i]]
    BY DEF Qwen!Settle
  <1>3. ASSUME NEW i \in 1 .. Len(asks)
        PROVE  /\ asks'[i].turn = asks[i].turn /\ asks'[i].shown = asks[i].shown /\ asks'[i] \in QwenAsk
               /\ asks'[i].state = IF i \in S THEN "settled" ELSE asks[i].state
    <2>1. /\ asks[i] \in QwenAsk
          /\ asks'[i] = IF i \in S THEN [asks[i] EXCEPT !.state = "settled", !.verdict = v] ELSE asks[i]
      BY <1>1, <1>2
    <2> QED BY <2>1 DEF QwenAsk
  <1>4. S \subseteq 1 .. Len(asks) /\ \A i \in S : asks[i].state = "open"
    BY <1>1 DEF Qwen!Open
  <1>5. asks' \in [1 .. Len(asks) -> QwenAsk]
    BY <1>1, <1>2, <1>3
  <1>6. asks' \in Seq(QwenAsk) /\ Len(asks') = Len(asks)
    BY <1>1, <1>5
  <1> QED BY <1>1, <1>3, <1>4, <1>6 DEF QwenAsks

\* A call that is received is shown with its own turn, if with one.
LEMMA QwenReceived ==
    ASSUME QwenBusy, QwenChildren, QwenAsks, QwenReceives
    PROVE  /\ Len(asks) \in Nat /\ Len(asks) < MaxAsks /\ Len(asks') = Len(asks) + 1 /\ QwenAsks'
           /\ \A i \in 1 .. Len(asks) : asks'[i] = asks[i]
           /\ asks'[Len(asks) + 1].shown \in {0, asks'[Len(asks) + 1].turn}
           /\ asks'[Len(asks) + 1].state \in {"open", "settled"}
  <1>0. MaxTurns \in Nat /\ Len(asks) \in Nat
    BY BoundsAssumption DEF QwenAsks
  <1>1. PICK t \in Turns : Qwen!CanUseTool(t)
    BY DEF QwenReceives
  <1> DEFINE now == t \in aborted \/ worker[t] \in interrupted \cup timedOut
             a == [turn |-> t, shown |-> IF now THEN 0 ELSE current[worker[t]],
                   state |-> IF now THEN "settled" ELSE "open", verdict |-> IF now THEN "deny" ELSE "none"]
  <1>2. asks' = Append(asks, a)
    BY <1>1 DEF Qwen!CanUseTool
  <1>3. Len(asks) < MaxAsks /\ slot = t /\ t \in Begun
    BY <1>1 DEF Qwen!CanUseTool, QwenChildren
  <1>4. current[worker[t]] \in {0, t}
    <2>1. worker[t] \in Workers
      BY <1>3 DEF QwenBusy
    <2>2. ASSUME current[worker[t]] # 0 PROVE current[worker[t]] = t
      <3>1. phase[current[worker[t]]] = "running" /\ current[worker[t]] \in Turns
        BY <2>1, <2>2 DEF QwenBusy, Begun
      <3> QED BY <1>3, <3>1 DEF QwenBusy
    <2> QED BY <2>2
  <1>5. a.shown \in {0, a.turn} /\ a.state \in {"open", "settled"} /\ a.turn = t
    BY <1>4
  <1>6. a \in QwenAsk
    BY <1>0, <1>4 DEF QwenAsk, Turns
  <1> HIDE DEF QwenAsk, a
  <1>7. asks \in Seq(QwenAsk)
    BY DEF QwenAsks
  <1>8. asks' \in Seq(QwenAsk) /\ Len(asks') = Len(asks) + 1 /\ asks'[Len(asks) + 1] = a
        /\ \A i \in 1 .. Len(asks) : asks'[i] = asks[i]
    BY <1>2, <1>6, <1>7
  <1> QED BY <1>0, <1>3, <1>5, <1>8 DEF QwenAsks

LEMMA QwenAsksKept ==
    ASSUME QwenBusy, QwenChildren, QwenAsks, Qwen!NothingMisread, Qwen!Next
    PROVE  QwenAsks' /\ Qwen!NothingMisread'
  <1>1. Len(asks) \in Nat /\ \A i \in 1 .. Len(asks) : asks[i].shown \in {0, asks[i].turn}
    BY DEF QwenAsks, Qwen!NothingMisread
  <1>2. CASE asks' = asks
    BY <1>2 DEF QwenAsks, Qwen!NothingMisread
  <1>3. CASE \E S, v : Qwen!Settle(S, v) /\ v \in {"allow", "deny"} /\ S \subseteq Qwen!Open(Turns)
    <2>1. PICK S, v : Qwen!Settle(S, v) /\ v \in {"allow", "deny"} /\ S \subseteq Qwen!Open(Turns)
      BY <1>3
    <2>2. QwenAsks' /\ Len(asks') = Len(asks)
          /\ \A i \in 1 .. Len(asks) : asks'[i].turn = asks[i].turn /\ asks'[i].shown = asks[i].shown
      BY <2>1, QwenSettleAsks
    <2>3. DOMAIN asks' = 1 .. Len(asks')
      BY <2>2 DEF QwenAsks
    <2> QED BY <1>1, <2>2, <2>3 DEF Qwen!NothingMisread
  <1>4. CASE QwenReceives
    <2>1. /\ Len(asks') = Len(asks) + 1 /\ QwenAsks' /\ \A i \in 1 .. Len(asks) : asks'[i] = asks[i]
          /\ asks'[Len(asks) + 1].shown \in {0, asks'[Len(asks) + 1].turn}
      BY <1>4, QwenReceived
    <2>2. DOMAIN asks' = 1 .. Len(asks')
      BY <2>1 DEF QwenAsks
    <2>3. \A i \in DOMAIN asks' : i \in 1 .. Len(asks) \/ i = Len(asks) + 1
      BY <1>1, <2>1, <2>2
    <2> QED BY <1>1, <2>1, <2>3 DEF Qwen!NothingMisread
  <1> QED BY <1>2, <1>3, <1>4, QwenAskSteps

LEMMA QwenInvInit ==
    ASSUME Qwen!Init
    PROVE  QwenInv
  <1>0. MaxTurns \in Nat /\ 0 \in 0 .. MaxTurns
    BY BoundsAssumption
  <1>1. /\ slot = 0 /\ current = [w \in Workers |-> 0] /\ session = [w \in Workers |-> "stale"]
        /\ stopping = {} /\ interrupted = {} /\ timedOut = {} /\ fallback = {}
        /\ worker = <<>> /\ seen = [w \in Workers |-> {}] /\ aborted = {}
        /\ child = [t \in Turns |-> "none"] /\ phase = [t \in Turns |-> "new"]
        /\ endedBy = [t \in Turns |-> "none"] /\ asks = <<>>
    BY QwenNames DEF Qwen!Init
  <1>2. Begun = {} /\ Begun = 1 .. 0
    BY <1>1 DEF Begun
  <1>3. QwenTurns
    BY <1>0, <1>1, <1>2 DEF QwenTurns, Phases, Qwen!Causes, Numbered
  <1>4. QwenWorkers
    BY <1>1 DEF QwenWorkers
  <1>5. QwenBusy
    BY <1>0, <1>1, <1>2 DEF QwenBusy
  <1>6. QwenChildren
    BY <1>1 DEF QwenChildren
  <1>7. QwenAsks /\ Qwen!NothingMisread
    BY <1>1 DEF QwenAsks, Qwen!NothingMisread
  <1> QED BY <1>3, <1>4, <1>5, <1>6, <1>7 DEF QwenInv

LEMMA QwenInvKept ==
    ASSUME QwenInv, Qwen!Next
    PROVE  QwenInv'
  BY QwenTurnsKept, QwenWorkersKept, QwenBusyKept, QwenChildrenKept, QwenAsksKept DEF QwenInv

LEMMA QwenInvTypes ==
    ASSUME QwenInv
    PROVE  Qwen!TypeOK
  <1>1. \A i \in DOMAIN asks : asks[i] \in QwenAsk
    BY DEF QwenInv, QwenAsks
  <1>2. \A w \in Workers : current[w] # 0 => worker[current[w]] = w /\ phase[current[w]] = "running"
    BY DEF QwenInv, QwenBusy
  <1>3. fallback \subseteq {w \in Workers : current[w] # 0}
    BY DEF QwenInv, QwenBusy
  <1> QED BY <1>1, <1>2, <1>3, QwenNames
          DEF Qwen!TypeOK, QwenInv, QwenTurns, QwenWorkers, QwenBusy, QwenChildren, QwenAsk, Phases, Turns

\* Only the slot's turn can have a child that lives.
LEMMA QwenOneInference ==
    ASSUME QwenInv
    PROVE  Qwen!OneInference
  <1> DEFINE L == {t \in Turns : child[t] \in {"alive", "leaving"}}
  <1>1. L \subseteq {slot}
    BY DEF QwenInv, QwenChildren
  <1>2. L = {} \/ L = {slot}
    BY <1>1
  <1>3. Cardinality(L) <= 1
    <2> HIDE DEF L
    <2>1. Cardinality({}) = 0 /\ Cardinality({slot}) = 1
      BY FS_EmptySet, FS_Singleton
    <2> QED BY <1>2, <2>1
  <1>4. \A S : Qwen!Cardinality(S) = Cardinality(S)
    BY DEF Qwen!Cardinality, Cardinality
  <1> QED BY <1>3, <1>4, QwenNames DEF Qwen!OneInference

-----------------------------------------------------------------------------
(* Steps that change nothing. *)

LEMMA CodexInvSame ==
    ASSUME CodexInv, UNCHANGED vars
    PROVE  CodexInv'
  <1>0. /\ UNCHANGED <<proc, spawned, held, ready, resume, shake, call, named, asked, watched, abandoned>>
        /\ UNCHANGED <<unnamedLeft, stopped, wire, inbox, unreplied, running, rpcs, answers>>
        /\ UNCHANGED <<phase, endedBy, asks, turn, misread>>
    BY DEF vars, codexVars, common
  <1>1. CodexTurns'
    BY <1>0 DEF CodexInv, CodexTurns, TurnInFlight, Numbered, Begun
  <1>2. CodexProcess' /\ CodexCall'
    BY <1>0 DEF CodexInv, CodexProcess, CodexCall
  <1>3. CodexRoom' /\ CodexQuiet' /\ CodexNamed'
    BY <1>0 DEF CodexInv, CodexRoom, CodexQuiet, CodexNamed, Begun
  <1>4. CodexServer'
    BY <1>0 DEF CodexInv, CodexServer, MessageOK, Silent, SilentFrom, Begun
  <1>5. CodexRefused' /\ CodexRemembered'
    BY <1>0 DEF CodexInv, CodexRefused, CodexRemembered, Silent, SilentFrom, CodexExcused, Misled
  <1>6. MisreadType' /\ Codex!NothingMisread'
    BY <1>0 DEF CodexInv, MisreadType, Codex!NothingMisread
  <1>7. CodexBound'
    BY <1>0 DEF CodexInv, CodexBound, Coming
  <1>8. CodexAsks' /\ CodexAnswers' /\ Codex!AnswersReachAsker'
    BY <1>0 DEF CodexInv, CodexAsks, CodexAnswers, Codex!AnswersReachAsker
  <1> QED BY <1>1, <1>2, <1>3, <1>4, <1>5, <1>6, <1>7, <1>8 DEF CodexInv

LEMMA ClaudeInvSame ==
    ASSUME ClaudeInv, UNCHANGED vars
    PROVE  ClaudeInv'
  <1>0. /\ UNCHANGED <<gen, handler, status, owner, todo, interrupts, cancelled, unacked>>
        /\ UNCHANGED <<phase, endedBy, asks, turn, misread, child, stopping>>
    BY DEF vars, claudeVars, common
  <1>1. ClaudeTurns'
    BY <1>0 DEF ClaudeInv, ClaudeTurns, TurnInFlight, Numbered, Begun
  <1>2. ClaudeProcess' /\ ClaudeInterrupts'
    BY <1>0 DEF ClaudeInv, ClaudeProcess, ClaudeInterrupts, Alive, Begun
  <1>3. ClaudeWork'
    BY <1>0 DEF ClaudeInv, ClaudeWork, WorkOf, Alive, Begun, ClaudeExcused
  <1>4. ClaudeAsks' /\ ClaudeRelays'
    BY <1>0 DEF ClaudeInv, ClaudeAsks, ClaudeRelays, Works, Alive, Begun
  <1>5. ClaudeMisread' /\ Claude!NothingMisread' /\ Claude!KilledForInterrupt'
    BY <1>0 DEF ClaudeInv, ClaudeMisread, Claude!NothingMisread, Claude!KilledForInterrupt
  <1> QED BY <1>1, <1>2, <1>3, <1>4, <1>5 DEF ClaudeInv

LEMMA QwenInvSame ==
    ASSUME QwenInv, UNCHANGED vars
    PROVE  QwenInv'
  <1>0. /\ UNCHANGED <<slot, current, session, interrupted, timedOut, fallback, seen, worker, aborted>>
        /\ UNCHANGED <<phase, endedBy, asks, child, stopping>>
    BY DEF vars, qwenVars, common
  <1>1. QwenTurns' /\ QwenWorkers'
    BY <1>0 DEF QwenInv, QwenTurns, QwenWorkers, Numbered, Begun
  <1>2. QwenBusy' /\ QwenChildren'
    BY <1>0 DEF QwenInv, QwenBusy, QwenChildren, Begun
  <1>3. QwenAsks' /\ Qwen!NothingMisread'
    BY <1>0 DEF QwenInv, QwenAsks, Qwen!NothingMisread
  <1> QED BY <1>1, <1>2, <1>3 DEF QwenInv

-----------------------------------------------------------------------------
(* The vendor at hand keeps its invariant. *)

IInv ==
    /\ vendor \in {"codex", "claude", "qwen", "speech"}
    /\ vendor = "codex" => CodexInv
    /\ vendor = "claude" => ClaudeInv
    /\ vendor = "qwen" => QwenInv

LEMMA InitIInv ==
    ASSUME Init
    PROVE  IInv
  BY CodexInvInit, ClaudeInvInit, QwenInvInit DEF Init, IInv

LEMMA NextIInv ==
    ASSUME IInv, [Next]_vars
    PROVE  IInv'
  <1>1. CASE UNCHANGED vars
    <2>1. vendor' = vendor
      BY <1>1 DEF vars
    <2> QED BY <1>1, <2>1, CodexInvSame, ClaudeInvSame, QwenInvSame DEF IInv
  <1>2. CASE CodexStep(Codex!Next)
    BY <1>2, CodexInvKept DEF CodexStep, IInv
  <1>3. CASE ClaudeStep(Claude!Next)
    BY <1>3, ClaudeInvKept DEF ClaudeStep, IInv
  <1>4. CASE QwenStep(Qwen!Next)
    BY <1>4, QwenInvKept DEF QwenStep, IInv
  <1>5. CASE Speech
    BY <1>5 DEF Speech, IInv
  <1> QED BY <1>1, <1>2, <1>3, <1>4, <1>5 DEF Next

LEMMA SpecIInv == Spec => []IInv
  <1>1. Init => IInv
    BY InitIInv
  <1>2. IInv /\ [Next]_vars => IInv'
    BY NextIInv
  <1> QED BY <1>1, <1>2, PTL DEF Spec

\* Every variable of the vendor's adapter has its type (codex.ts, claude.ts,
\* qwen-code.ts).
THEOREM TypeCorrect == Spec => []TypeOK
  <1>1. IInv => TypeOK
    BY CodexInvTypes, ClaudeInvTypes, QwenInvTypes DEF IInv, TypeOK
  <1> QED BY <1>1, SpecIInv, PTL

\* What is said or asked in a turn is never taken for an earlier turn's, and for a
\* later one's only after one of the losses that each adapter knows (codex.ts
\* 680-698, claude.ts 245-251, qwen-code.ts canUseTool).
THEOREM NoTurnMisread == Spec => []NothingMisread
  <1>1. IInv => NothingMisread
    BY DEF IInv, NothingMisread, CodexInv, ClaudeInv, QwenInv
  <1> QED BY <1>1, SpecIInv, PTL

\* An approval is answered once, to the process that asked if it lives; a tool
\* call of Claude's goes ahead only with the operator's yes to that very call.
THEOREM RightAnswers == Spec => []AnswersReachAsker
  <1>1. IInv => AnswersReachAsker
    BY ClaudeInvTypes DEF IInv, AnswersReachAsker, CodexInv
  <1> QED BY <1>1, SpecIInv, PTL

\* At most one Qwen process lives at a time; a Claude process is killed under a
\* turn only for an interrupt that was not acknowledged.
THEOREM OneProcess == Spec => []ProcessesKept
  <1>1. IInv => ProcessesKept
    BY QwenOneInference DEF IInv, ProcessesKept, ClaudeInv
  <1> QED BY <1>1, SpecIInv, PTL

-----------------------------------------------------------------------------
(* Each adapter is a worker as WorkerContract has it. *)

\* One approval is raised.
LEMMA Raises ==
    ASSUME NEW a \in 1 .. MaxAsks, AskState(a) = "none", AskState(a)' \in {"open", "settled"},
           \A b \in 1 .. MaxAsks : b # a => AskState(b)' = AskState(b), phase' = phase
    PROVE  Contract!Next
  <1> DEFINE shown == [b \in 1 .. MaxAsks |-> AskState(b)]
  <1>1. PICK s \in {"open", "settled"} : s = AskState(a)'
    OBVIOUS
  <1>2. shown[a] = "none" /\ shown' = [shown EXCEPT ![a] = s]
    BY <1>1
  <1> HIDE DEF shown
  <1>3. Contract!Raise(a)
    BY <1>2 DEF Contract!Raise, shown
  <1> QED BY <1>3 DEF Contract!Next

\* Some open approvals are settled, and a running turn may end.
LEMMA SettlesOrEnds ==
    ASSUME \A a \in 1 .. MaxAsks : AskState(a)' = AskState(a) \/ (AskState(a) = "open" /\ AskState(a)' = "settled"),
           phase' = phase \/ \E t \in Turns : phase[t] = "running" /\ phase' = [phase EXCEPT ![t] = "ended"]
    PROVE  Contract!Next
  <1> DEFINE shown == [b \in 1 .. MaxAsks |-> AskState(b)]
             S == {a \in 1 .. MaxAsks : AskState(a) = "open" /\ AskState(a)' = "settled"}
  <1>1. S \in SUBSET {a \in 1 .. MaxAsks : shown[a] = "open"}
    OBVIOUS
  <1>2. shown' = [a \in 1 .. MaxAsks |-> IF a \in S THEN "settled" ELSE shown[a]]
    OBVIOUS
  <1> HIDE DEF shown, S
  <1>3. Contract!SettleOrEnd
    BY <1>1, <1>2 DEF Contract!SettleOrEnd, shown, Turns
  <1> QED BY <1>3 DEF Contract!Next

\* A turn begins when none runs.
LEMMA Begins ==
    ASSUME NEW t \in Turns, \A u \in Turns : phase[u] # "running", phase[t] = "new",
           phase' = [phase EXCEPT ![t] = "running"], \A a \in 1 .. MaxAsks : AskState(a)' = AskState(a)
    PROVE  Contract!Next
  <1>1. [a \in 1 .. MaxAsks |-> AskState(a)]' = [a \in 1 .. MaxAsks |-> AskState(a)]
    OBVIOUS
  <1>2. Contract!Begin(t)
    BY <1>1 DEF Contract!Begin, Turns
  <1> QED BY <1>2 DEF Contract!Next, Turns

\* What Codex and Claude do with their turns, as the contract sees it.
LEMMA TurnBegins ==
    ASSUME TurnInFlight, BeginsTurn
    PROVE  \E t \in Turns : phase[t] = "new" /\ (\A u \in Turns : phase[u] # "running")
                            /\ phase' = [phase EXCEPT ![t] = "running"]
  <1>0. 0 \notin Turns
    BY BoundsAssumption DEF Turns
  <1>1. turn' \notin Begun /\ turn' \in Turns
    BY BeginKeepsTurns
  <1>2. phase[turn'] = "new"
    BY <1>1 DEF Begun
  <1>3. \A u \in Turns : phase[u] # "running"
    BY <1>0 DEF TurnInFlight, BeginsTurn
  <1> QED BY <1>1, <1>2, <1>3 DEF BeginsTurn

LEMMA TurnEnds ==
    ASSUME TurnInFlight, KeepsTurns \/ \E c : EndsTurn(c)
    PROVE  phase' = phase \/ \E t \in Turns : phase[t] = "running" /\ phase' = [phase EXCEPT ![t] = "ended"]
  <1>1. turn # 0 => turn \in Turns /\ phase[turn] = "running"
    BY BoundsAssumption DEF TurnInFlight, Turns
  <1> QED BY <1>1 DEF KeepsTurns, EndsTurn

LEMMA CodexKeepsContract ==
    ASSUME CodexInv, vendor = "codex", vendor' = vendor, Codex!Next
    PROVE  Contract!Next
  <1>0. /\ CodexTurns /\ TurnInFlight /\ CodexProcess /\ CodexServer /\ CodexQuiet /\ CodexAsks /\ CodexBound
        /\ CodexCall /\ CodexRoom
    BY DEF CodexInv, CodexTurns
  <1>1. /\ \A a \in 1 .. MaxAsks : AskState(a) = IF a \in DOMAIN asks THEN asks[a].state ELSE "none"
        /\ \A a \in 1 .. MaxAsks : AskState(a)' = IF a \in DOMAIN asks' THEN asks'[a].state ELSE "none"
    BY DEF AskState, Codex!AskState
  <1>2. DOMAIN asks = 1 .. Len(asks) /\ Len(asks) \in Nat
    BY <1>0 DEF CodexAsks
  <1>3. CASE CodexBegins
    <2>1. BeginsTurn /\ asks' = asks
      BY <1>3 DEF CodexBegins, sendElse
    <2>2. \A a \in 1 .. MaxAsks : AskState(a)' = AskState(a)
      BY <1>1, <2>1
    <2> QED BY <1>0, <2>1, <2>2, TurnBegins, Begins
  <1>4. CASE CodexDeclines
    <2>1. KeepsTurns /\ asks' = asks
      BY <1>4 DEF CodexDeclines, sendElse
    <2>2. \A a \in 1 .. MaxAsks : AskState(a)' = AskState(a)
      BY <1>1, <2>1
    <2> QED BY <2>1, <2>2, SettlesOrEnds DEF KeepsTurns
  <1>5. CASE CodexElse
    <2>0. phase' = phase \/ \E t \in Turns : phase[t] = "running" /\ phase' = [phase EXCEPT ![t] = "ended"]
      BY <1>0, <1>5, CodexTurnSteps, TurnEnds
    <2>1. CASE AsksSame
      <3>1. \A a \in 1 .. MaxAsks : AskState(a)' = AskState(a)
        BY <1>1, <2>1 DEF AsksSame
      <3> QED BY <2>0, <3>1, SettlesOrEnds
    <2>2. CASE \E S : Settles(S)
      <3>1. PICK S : Settles(S)
        BY <2>2
      <3>2. /\ Len(asks') = Len(asks) /\ DOMAIN asks' = 1 .. Len(asks')
            /\ \A i \in 1 .. Len(asks) : asks'[i].state = IF i \in S THEN "settled" ELSE asks[i].state
            /\ \A i \in S : asks[i].state = "open"
        BY <1>0, <3>1, SettlesAsks
      <3>3. \A a \in 1 .. MaxAsks : AskState(a)' = AskState(a) \/ (AskState(a) = "open" /\ AskState(a)' = "settled")
        BY <1>1, <1>2, <3>2
      <3> QED BY <2>0, <3>3, SettlesOrEnds
    <2>3. CASE Codex!OnServerRequest
      <3>1. /\ Len(asks) < MaxAsks /\ Len(asks') = Len(asks) + 1 /\ DOMAIN asks' = 1 .. Len(asks')
            /\ \A i \in 1 .. Len(asks) : asks'[i] = asks[i]
            /\ asks'[Len(asks) + 1].state \in {"open", "settled"}
        BY <1>0, <2>3, RequestAppends
      <3>2. phase' = phase
        BY <2>3 DEF Codex!OnServerRequest
      <3>3. PICK n : n = Len(asks) + 1 /\ n \in 1 .. MaxAsks
        BY <1>2, <3>1, BoundsAssumption
      <3>4. AskState(n) = "none" /\ AskState(n)' \in {"open", "settled"}
        BY <1>1, <1>2, <3>1, <3>3
      <3>5. \A b \in 1 .. MaxAsks : b # n => AskState(b)' = AskState(b)
        BY <1>1, <1>2, <3>1, <3>3
      <3> QED BY <3>2, <3>3, <3>4, <3>5, Raises
    <2> QED BY <1>5, <2>1, <2>2, <2>3, CodexAskSteps
  <1> QED BY <1>0, <1>3, <1>4, <1>5, CodexSteps

LEMMA ClaudeKeepsContract ==
    ASSUME ClaudeInv, vendor = "claude", vendor' = vendor, Claude!Next
    PROVE  Contract!Next
  <1>0. ClaudeTurns /\ TurnInFlight /\ ClaudeProcess /\ ClaudeWork /\ ClaudeAsks
    BY DEF ClaudeInv, ClaudeTurns
  <1>1. /\ \A a \in 1 .. MaxAsks : AskState(a) = IF a \in DOMAIN asks /\ asks[a].by # 0 THEN asks[a].at ELSE "none"
        /\ \A a \in 1 .. MaxAsks : AskState(a)' = IF a \in DOMAIN asks' /\ asks'[a].by # 0 THEN asks'[a].at ELSE "none"
    BY DEF AskState, Claude!AskState
  <1>2. DOMAIN asks = 1 .. Len(asks) /\ Len(asks) \in Nat
    BY <1>0 DEF ClaudeAsks
  <1>3. CASE Claude!SendTurn
    <2>1. BeginsTurn /\ asks' = asks
      BY <1>0, <1>3, ClaudeSendsOne DEF ClaudeSends
    <2>2. \A a \in 1 .. MaxAsks : AskState(a)' = AskState(a)
      BY <1>1, <2>1
    <2> QED BY <1>0, <2>1, <2>2, TurnBegins, Begins
  <1>4. CASE ~Claude!SendTurn
    <2>0. phase' = phase \/ \E t \in Turns : phase[t] = "running" /\ phase' = [phase EXCEPT ![t] = "ended"]
      BY <1>0, <1>4, ClaudeTurnSteps, TurnEnds
    <2>1. CASE Claude!CliAsks
      <3>1. PICK a : asks' = Append(asks, a) /\ a \in Claude!Ask /\ a.by = 0
        BY <1>0, <2>1, CallReceived
      <3>2. /\ Len(asks') = Len(asks) + 1 /\ DOMAIN asks' = 1 .. Len(asks')
            /\ \A i \in 1 .. Len(asks) : asks'[i] = asks[i]
            /\ asks'[Len(asks) + 1].by = 0
        BY <1>0, <3>1, CallAppended
      <3>3. \A b \in 1 .. MaxAsks : AskState(b)' = AskState(b)
        BY <1>1, <1>2, <3>2
      <3> QED BY <2>0, <3>3, SettlesOrEnds
    <2>2. ASSUME AllMove, \A i \in 1 .. Len(asks) : Given(i) PROVE Contract!Next
      <3>1. Len(asks') = Len(asks) /\ DOMAIN asks' = 1 .. Len(asks')
        BY <2>2 DEF AllMove
      <3>2. \A a \in 1 .. MaxAsks : AskState(a)' = AskState(a) \/ (AskState(a) = "open" /\ AskState(a)' = "settled")
        BY <1>1, <1>2, <2>2, <3>1 DEF Given
      <3> QED BY <2>0, <3>2, SettlesOrEnds
    <2>3. CASE Claude!Dispatch
      <3>1. PICK i \in 1 .. Len(asks) :
              /\ AllMove /\ \A j \in 1 .. Len(asks) : j # i => Given(j) /\ asks'[j] = asks[j]
              /\ Given(i) \/ (asks[i].by = 0 /\ asks'[i].by # 0 /\ asks'[i].at = "open")
        BY <1>0, <2>3, DispatchMoves
      <3>2. Len(asks') = Len(asks) /\ DOMAIN asks' = 1 .. Len(asks')
        BY <3>1 DEF AllMove
      <3>3. phase' = phase
        BY <2>3 DEF Claude!Dispatch
      <3>4. \A j \in 1 .. MaxAsks : j # i => AskState(j)' = AskState(j)
        BY <1>1, <1>2, <3>1, <3>2
      <3>5. CASE Given(i)
        BY <2>2, <3>1, <3>5
      <3>6. CASE asks[i].by = 0 /\ asks'[i].by # 0 /\ asks'[i].at = "open"
        <4>1. PICK n \in 1 .. MaxAsks : n = i
          BY <1>0, <1>2, <3>1, BoundsAssumption DEF ClaudeAsks
        <4>2. AskState(n) = "none" /\ AskState(n)' = "open"
          BY <1>1, <1>2, <3>2, <3>6, <4>1
        <4> QED BY <3>3, <3>4, <4>1, <4>2, Raises
      <3> QED BY <3>1, <3>5, <3>6
    <2> QED BY <1>0, <2>1, <2>2, <2>3, ClaudeAskSteps
  <1> QED BY <1>3, <1>4

LEMMA QwenKeepsContract ==
    ASSUME QwenInv, vendor = "qwen", vendor' = vendor, Qwen!Next
    PROVE  Contract!Next
  <1>0. QwenTurns /\ QwenBusy /\ QwenChildren /\ QwenAsks /\ 0 \notin Turns
    BY BoundsAssumption DEF QwenInv, Turns
  <1>1. /\ \A a \in 1 .. MaxAsks : AskState(a) = IF a \in DOMAIN asks THEN asks[a].state ELSE "none"
        /\ \A a \in 1 .. MaxAsks : AskState(a)' = IF a \in DOMAIN asks' THEN asks'[a].state ELSE "none"
    BY DEF AskState, Qwen!AskState
  <1>2. DOMAIN asks = 1 .. Len(asks) /\ Len(asks) \in Nat
    BY <1>0 DEF QwenAsks
  <1>3. CASE QwenBegins
    <2>1. PICK w \in Workers : Qwen!SendTurn(w)
      BY <1>3 DEF QwenBegins
    <2>2. PICK n \in Turns : n \notin Begun /\ slot = 0 /\ phase' = [phase EXCEPT ![n] = "running"] /\ asks' = asks
      BY <1>0, <2>1, QwenBegun
    <2>3. phase[n] = "new" /\ \A u \in Turns : phase[u] # "running"
      BY <1>0, <2>2 DEF QwenBusy, Begun
    <2>4. \A a \in 1 .. MaxAsks : AskState(a)' = AskState(a)
      BY <1>1, <2>2
    <2> QED BY <2>2, <2>3, <2>4, Begins
  <1>4. CASE ~QwenBegins
    <2>0. phase' = phase \/ \E t \in Turns : phase[t] = "running" /\ phase' = [phase EXCEPT ![t] = "ended"]
      <3>1. CASE QwenEnds
        BY <1>0, <3>1, QwenEnded
      <3>2. CASE QwenRests
        BY <3>2 DEF QwenRests
      <3> QED BY <1>4, <3>1, <3>2, QwenSteps
    <2>1. CASE asks' = asks
      <3>1. \A a \in 1 .. MaxAsks : AskState(a)' = AskState(a)
        BY <1>1, <2>1
      <3> QED BY <2>0, <3>1, SettlesOrEnds
    <2>2. CASE \E S, v : Qwen!Settle(S, v) /\ v \in {"allow", "deny"} /\ S \subseteq Qwen!Open(Turns)
      <3>1. PICK S, v : Qwen!Settle(S, v) /\ v \in {"allow", "deny"} /\ S \subseteq Qwen!Open(Turns)
        BY <2>2
      <3>2. /\ Len(asks') = Len(asks) /\ QwenAsks'
            /\ \A i \in 1 .. Len(asks) : asks'[i].state = IF i \in S THEN "settled" ELSE asks[i].state
            /\ \A i \in S : asks[i].state = "open"
        BY <1>0, <3>1, QwenSettleAsks
      <3>3. DOMAIN asks' = 1 .. Len(asks')
        BY <3>2 DEF QwenAsks
      <3>4. \A a \in 1 .. MaxAsks : AskState(a)' = AskState(a) \/ (AskState(a) = "open" /\ AskState(a)' = "settled")
        BY <1>1, <1>2, <3>2, <3>3
      <3> QED BY <2>0, <3>4, SettlesOrEnds
    <2>3. CASE QwenReceives /\ UNCHANGED phase
      <3>1. /\ Len(asks) < MaxAsks /\ Len(asks') = Len(asks) + 1 /\ QwenAsks'
            /\ \A i \in 1 .. Len(asks) : asks'[i] = asks[i]
            /\ asks'[Len(asks) + 1].state \in {"open", "settled"}
        BY <1>0, <2>3, QwenReceived
      <3>2. DOMAIN asks' = 1 .. Len(asks')
        BY <3>1 DEF QwenAsks
      <3>3. PICK n : n = Len(asks) + 1 /\ n \in 1 .. MaxAsks
        BY <1>2, <3>1, BoundsAssumption
      <3>4. AskState(n) = "none" /\ AskState(n)' \in {"open", "settled"}
        BY <1>1, <1>2, <3>1, <3>2, <3>3
      <3>5. \A b \in 1 .. MaxAsks : b # n => AskState(b)' = AskState(b)
        BY <1>1, <1>2, <3>1, <3>2, <3>3
      <3> QED BY <2>3, <3>3, <3>4, <3>5, Raises
    <2> QED BY <1>0, <2>1, <2>2, <2>3, QwenAskSteps
  <1> QED BY <1>3, <1>4

\* Nothing has begun, nothing is asked.
LEMMA ContractInit ==
    ASSUME Init
    PROVE  Contract!Init
  <1>1. phase = [t \in Turns |-> "new"] /\ asks = <<>>
    BY DEF Init, Codex!Init, Claude!Init, Qwen!Init, IdleTurns, Turns, Codex!Turns, Claude!Turns, Qwen!Turns
  <1>2. vendor \in {"codex", "claude", "qwen", "speech"} /\ DOMAIN asks = {}
    BY <1>1 DEF Init
  <1>3. \A a \in 1 .. MaxAsks : AskState(a) = "none"
    BY <1>2 DEF AskState, Codex!AskState, Claude!AskState, Qwen!AskState
  <1> QED BY <1>1, <1>3 DEF Contract!Init, Turns

\* Every step is one of the contract's, or none that it sees.
LEMMA ContractNext ==
    ASSUME IInv, [Next]_vars
    PROVE  [Contract!Next]_(Contract!vars)
  <1>1. ASSUME vendor' = vendor, phase' = phase, asks' = asks
        PROVE  UNCHANGED Contract!vars
    <2>1. \A a \in 1 .. MaxAsks : AskState(a)' = AskState(a)
      BY <1>1 DEF AskState, Codex!AskState, Claude!AskState, Qwen!AskState
    <2> QED BY <1>1, <2>1 DEF Contract!vars
  <1>2. CASE UNCHANGED vars \/ Speech
    BY <1>1, <1>2 DEF vars, common, Speech
  <1>3. CASE CodexStep(Codex!Next)
    BY <1>3, CodexKeepsContract DEF CodexStep, IInv
  <1>4. CASE ClaudeStep(Claude!Next)
    BY <1>4, ClaudeKeepsContract DEF ClaudeStep, IInv
  <1>5. CASE QwenStep(Qwen!Next)
    BY <1>5, QwenKeepsContract DEF QwenStep, IInv
  <1> QED BY <1>2, <1>3, <1>4, <1>5 DEF Next

\* Every vendor's adapter is a worker as the scheduler counts on it: one turn at a
\* time that ends once, approvals that are settled once (agent.ts 40-109).
THEOREM EveryVendorKeepsContract == Spec => ImplementsContract
  <1>1. Init => Contract!Init
    BY ContractInit
  <1>2. IInv /\ [Next]_vars => [Contract!Next]_(Contract!vars)
    BY ContractNext
  <1> QED BY <1>1, <1>2, SpecIInv, PTL DEF Spec, ImplementsContract, Contract!Spec

===============================================================================
