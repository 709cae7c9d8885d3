----------------------------- MODULE HistoryProofs -----------------------------
(***************************************************************************)
(* What a session is shown of the log, and what the log says of documents,  *)
(* for any agents, lanes, names and contents, and any bounds.               *)
(***************************************************************************)
EXTENDS History, TLAPS

-----------------------------------------------------------------------------
(* Sessions: the inductive invariant. *)

\* Watermarks and messages are places in the log, and a session knows of
\* nothing that is not in it.
InLog(a) ==
    /\ wm[a] <= Len(log)
    /\ phase[a] # "idle" => base[a] \in 1..Len(log)
    /\ knows[a] \subseteq 1..Len(log)

\* What was recorded up to the watermark is known to the session, or is a known
\* gap.
BelowWatermark(a) ==
    \A s \in 1..wm[a] : s \in knows[a] \cup missed[a]

\* So is whatever the agent produced itself, wherever the watermark is; only a
\* retry that has not been delivered carries that part with it.
OwnPart(a) ==
    \A s \in 1..Len(log) :
        log[s] = a =>
            /\ s \in knows[a] \cup missed[a] \/ (phase[a] = "sent" /\ a \in retried)
            /\ phase[a] = "sent" => s < base[a]

\* While the message waits, its block fills what the session does not have
\* before it, and starts at the watermark; a retry's block has everything.
BeforeMessage(a) ==
    phase[a] = "sent" =>
    /\ payload[a] \subseteq wm[a] + 1 .. base[a] - 1
    /\ \A s \in 1..base[a] - 1 : s \in knows[a] \cup payload[a] \cup missed[a]
    /\ a \in retried => 1..base[a] - 1 \subseteq payload[a]

\* Once the message is out, the session has what came before it.
UpToMessage(a) ==
    phase[a] = "running" =>
    /\ \A s \in 1..base[a] : s \in knows[a] \cup missed[a]
    /\ a \in retried => 1..base[a] \subseteq knows[a]

\* Between turns nothing is retried, and unless a restart cut a turn off, a
\* session knows of nothing above its watermark before the message is out.
Settled(a) ==
    /\ phase[a] = "idle" => a \notin retried
    /\ restarts = 0 /\ phase[a] # "running" => knows[a] \subseteq 1..wm[a]

SessionInv(a) ==
    /\ InLog(a) /\ BelowWatermark(a) /\ OwnPart(a)
    /\ BeforeMessage(a) /\ UpToMessage(a) /\ Settled(a)

SessionsInv == TypeOK /\ \A a \in Agents : SessionInv(a)

\* The log is only appended to.
LogGrows ==
    /\ Len(log) <= Len(log')
    /\ \A s \in 1..Len(log) : log'[s] = log[s]

\* A step leaves the turn and the session of `a` alone, and records nothing of it.
Untouched(a) ==
    /\ \A s \in Len(log) + 1 .. Len(log') : log'[s] # a
    /\ phase'[a] = phase[a] /\ base'[a] = base[a] /\ payload'[a] = payload[a]
    /\ (a \in retried' <=> a \in retried)
    /\ wm'[a] = wm[a] /\ knows'[a] = knows[a] /\ missed'[a] = missed[a]

\* One more event at the end of a log.
LEMMA Appended ==
    ASSUME NEW S, NEW l \in Seq(S), NEW e \in S
    PROVE  /\ Append(l, e) \in Seq(S)
           /\ Len(Append(l, e)) = Len(l) + 1
           /\ \A s \in 1..Len(l) : Append(l, e)[s] = l[s]
           /\ Append(l, e)[Len(l) + 1] = e
  OBVIOUS

LEMMA LastAppended ==
    ASSUME NEW S, NEW l \in Seq(S), NEW e \in S
    PROVE  Append(l, e) # <<>> /\ Append(l, e)[Len(Append(l, e))] = e
  <1>1. Len(l) \in Nat /\ Len(Append(l, e)) = Len(l) + 1 /\ Append(l, e)[Len(l) + 1] = e
    BY Appended
  <1>2. Len(<<>>) = 0
    OBVIOUS
  <1> QED BY <1>1, <1>2

\* What others do leaves a session's invariant alone: all it says of the log is
\* about what is in it already.
LEMMA BystanderKept ==
    ASSUME TypeOK, NEW a \in Agents, SessionInv(a), LogGrows, Untouched(a), restarts' = restarts,
           Len(log') \in Nat
    PROVE  SessionInv(a)'
  <1>0. /\ log \in Seq(Agents \cup {User}) /\ Len(log) \in Nat
        /\ wm[a] \in Nat /\ base[a] \in Nat /\ wm[a] <= Len(log)
        /\ phase[a] # "idle" => base[a] \in 1..Len(log)
    BY DEF TypeOK, SessionInv, InLog
  <1>1. InLog(a)'
    BY <1>0 DEF SessionInv, LogGrows, Untouched, InLog
  <1>2. BelowWatermark(a)'
    BY DEF SessionInv, Untouched, BelowWatermark
  <1>o. OwnPart(a)'
    <2> SUFFICES ASSUME NEW s \in 1..Len(log'), log'[s] = a
                 PROVE  /\ s \in knows[a] \cup missed[a] \/ (phase[a] = "sent" /\ a \in retried)
                        /\ phase[a] = "sent" => s < base[a]
      BY DEF OwnPart, Untouched
    <2>1. s \in 1..Len(log)
      BY <1>0 DEF Untouched
    <2>2. log[s] = a
      BY <2>1 DEF LogGrows
    <2> QED BY <2>1, <2>2 DEF SessionInv, OwnPart
  <1>3. BeforeMessage(a)'
    BY DEF SessionInv, Untouched, BeforeMessage
  <1>4. UpToMessage(a)'
    BY DEF SessionInv, Untouched, UpToMessage
  <1>5. Settled(a)'
    BY DEF SessionInv, Untouched, Settled
  <1> QED BY <1>1, <1>2, <1>o, <1>3, <1>4, <1>5 DEF SessionInv

LEMMA SessionsInit == Init => SessionsInv
  <1> SUFFICES ASSUME Init PROVE SessionsInv
    OBVIOUS
  <1> USE DEF Init
  <1>0. MaxEvents \in Nat /\ MaxRestarts \in Nat
    BY BoundsAssumption
  <1>a. log \in Seq(Agents \cup {User}) /\ Len(log) <= MaxEvents
    BY <1>0
  <1>b. 0 \in 0..MaxEvents /\ 0 \in 0..MaxRestarts
    BY <1>0
  <1>1. TypeOK
    BY <1>a, <1>b, ParallelAssumption DEF TypeOK
  <1>2. ASSUME NEW a \in Agents PROVE SessionInv(a)
    BY DEF SessionInv, InLog, BelowWatermark, OwnPart, BeforeMessage, UpToMessage, Settled
  <1> QED BY <1>1, <1>2 DEF SessionsInv

-----------------------------------------------------------------------------
(* Sessions: the steps. *)

\* Send: what the watermark says is shown is covered; of the rest, the block
\* has what others produced.
LEMMA SendKeeps ==
    ASSUME SessionsInv, NEW a \in Agents, Send(a)
    PROVE  SessionsInv'
  <1> USE DEF SessionsInv
  <1>t. TypeOK /\ SessionInv(a)
    OBVIOUS
  <1>1. /\ log \in Seq(Agents \cup {User}) /\ Len(log) \in Nat /\ Len(log) < MaxEvents
        /\ MaxEvents \in Nat /\ wm[a] \in Nat /\ wm[a] <= Len(log)
        /\ knows[a] \subseteq 1..Len(log)
    BY <1>t, BoundsAssumption DEF TypeOK, Send, LogHead, SessionInv, InLog
  <1>2. /\ log' \in Seq(Agents \cup {User}) /\ Len(log') = Len(log) + 1
        /\ \A s \in 1..Len(log) : log'[s] = log[s]
        /\ log'[Len(log) + 1] = User
    BY <1>1, Appended, User \in Agents \cup {User} DEF Send
  <1>3. /\ phase' = [phase EXCEPT ![a] = "sent"]
        /\ base' = [base EXCEPT ![a] = Len(log) + 1]
        /\ payload' = [payload EXCEPT ![a] = Replay(a, wm[a], Len(log) + 1, FALSE)]
        /\ UNCHANGED <<parallel, retried, wm, native, knows, missed, restarts>>
        /\ phase[a] = "idle"
    BY DEF Send, LogHead, sessions
  <1>4. Replay(a, wm[a], Len(log) + 1, FALSE) = {s \in wm[a] + 1 .. Len(log) : log[s] # a}
    BY <1>1 DEF Replay
  <1>5. TypeOK'
    <2>1. Len(log') <= MaxEvents /\ Len(log) + 1 \in 0..MaxEvents
      BY <1>1, <1>2
    <2>2. Replay(a, wm[a], Len(log) + 1, FALSE) \subseteq Seqs
      <3>1. wm[a] + 1 .. Len(log) \subseteq 1..MaxEvents
        BY <1>1
      <3> QED BY <1>4, <3>1 DEF Seqs
    <2> QED BY <1>t, <1>2, <1>3, <2>1, <2>2 DEF TypeOK
  <1>6. SessionInv(a)'
    <2>1. /\ phase'[a] = "sent" /\ base'[a] = Len(log) + 1
          /\ payload'[a] = {s \in wm[a] + 1 .. Len(log) : log[s] # a}
          /\ wm'[a] = wm[a] /\ knows'[a] = knows[a] /\ missed'[a] = missed[a]
          /\ retried' = retried /\ restarts' = restarts
      BY <1>t, <1>3, <1>4 DEF TypeOK
    <2>2. InLog(a)'
      BY <1>1, <1>2, <2>1 DEF InLog
    <2>3. BelowWatermark(a)'
      BY <1>t, <2>1 DEF SessionInv, BelowWatermark
    <2>4. a \notin retried /\ (restarts = 0 => knows[a] \subseteq 1..wm[a])
      BY <1>t, <1>3 DEF SessionInv, Settled
    <2>o. \A s \in 1..Len(log) : log[s] = a => s \in knows[a] \cup missed[a]
      BY <1>t, <2>4 DEF SessionInv, OwnPart
    <2>p. OwnPart(a)'
      <3>1. ASSUME NEW s \in 1..Len(log'), log'[s] = a
            PROVE  s \in knows[a] \cup missed[a] /\ s < base'[a]
        <4>1. s \in 1..Len(log) \/ s = Len(log) + 1
          BY <1>1, <1>2
        <4>2. s # Len(log) + 1
          BY <1>2, <3>1, UserAssumption
        <4> QED BY <1>1, <1>2, <2>1, <2>o, <3>1, <4>1, <4>2
      <3> QED BY <2>1, <3>1 DEF OwnPart
    <2>5. BeforeMessage(a)'
      <3>1. ASSUME NEW s \in 1..Len(log)
            PROVE  s \in knows[a] \cup payload'[a] \cup missed[a]
        <4>1. CASE s \in 1..wm[a]
          BY <1>t, <4>1 DEF SessionInv, BelowWatermark
        <4>2. CASE s \in wm[a] + 1 .. Len(log) /\ log[s] # a
          BY <2>1, <4>2
        <4>3. CASE log[s] = a
          BY <2>o, <4>3
        <4> QED BY <1>1, <4>1, <4>2, <4>3
      <3>2. base'[a] - 1 = Len(log)
        BY <1>1, <2>1
      <3> QED BY <2>1, <2>4, <3>1, <3>2 DEF BeforeMessage
    <2>6. UpToMessage(a)' /\ Settled(a)'
      BY <2>1, <2>4 DEF UpToMessage, Settled
    <2> QED BY <2>2, <2>3, <2>p, <2>5, <2>6 DEF SessionInv
  <1>7. ASSUME NEW b \in Agents, b # a PROVE SessionInv(b)'
    <2>1. LogGrows
      BY <1>1, <1>2 DEF LogGrows
    <2>2. Untouched(b)
      <3>1. \A s \in Len(log) + 1 .. Len(log') : log'[s] # b
        BY <1>1, <1>2, <1>7, UserAssumption
      <3> QED BY <1>t, <1>3, <1>7, <3>1 DEF Untouched, TypeOK
    <2> QED BY <1>t, <1>1, <1>2, <1>3, <2>1, <2>2, BystanderKept
  <1> QED BY <1>5, <1>6, <1>7

\* Deliver: the block and the message reach the session.
LEMMA DeliverKeeps ==
    ASSUME SessionsInv, NEW a \in Agents, Deliver(a)
    PROVE  SessionsInv'
  <1> USE DEF SessionsInv
  <1>t. TypeOK /\ SessionInv(a)
    OBVIOUS
  <1>1. /\ log' = log /\ Len(log) \in Nat /\ Len(log) <= MaxEvents
        /\ MaxEvents \in Nat /\ base[a] \in 1..Len(log) /\ wm[a] \in Nat
        /\ payload[a] \subseteq 1..MaxEvents
        /\ phase[a] = "sent"
        /\ payload[a] \subseteq wm[a] + 1 .. base[a] - 1
    BY <1>t, BoundsAssumption
    DEF TypeOK, Seqs, Deliver, SessionInv, InLog, BeforeMessage
  <1>2. /\ phase' = [phase EXCEPT ![a] = "running"]
        /\ knows' = [knows EXCEPT ![a] = knows[a] \cup payload[a] \cup {base[a]}]
        /\ native' = native \cup {a}
        /\ UNCHANGED <<log, parallel, base, payload, retried, wm, missed, restarts>>
    BY DEF Deliver
  <1>3. TypeOK'
    BY <1>t, <1>1, <1>2 DEF TypeOK, Seqs
  <1>4. SessionInv(a)'
    <2>1. /\ phase'[a] = "running" /\ base'[a] = base[a]
          /\ knows'[a] = knows[a] \cup payload[a] \cup {base[a]}
          /\ wm'[a] = wm[a] /\ missed'[a] = missed[a] /\ retried' = retried
      BY <1>t, <1>2 DEF TypeOK
    <2>2. InLog(a)'
      BY <1>t, <1>1, <2>1 DEF SessionInv, InLog
    <2>3. BelowWatermark(a)'
      BY <1>t, <1>1, <2>1 DEF SessionInv, BelowWatermark
    <2>4. UpToMessage(a)'
      BY <1>t, <1>1, <2>1 DEF SessionInv, BeforeMessage, UpToMessage
    <2>o. OwnPart(a)'
      <3>1. a \in retried => \A s \in 1..Len(log) : s < base[a] => s \in payload[a]
        BY <1>t, <1>1 DEF SessionInv, BeforeMessage
      <3> QED BY <1>t, <1>1, <2>1, <3>1 DEF SessionInv, OwnPart
    <2>5. BeforeMessage(a)' /\ Settled(a)'
      BY <2>1 DEF BeforeMessage, Settled
    <2> QED BY <2>2, <2>3, <2>4, <2>o, <2>5 DEF SessionInv
  <1>5. ASSUME NEW b \in Agents, b # a PROVE SessionInv(b)'
    <2>1. LogGrows
      BY <1>1 DEF LogGrows
    <2>2. Untouched(b)
      BY <1>t, <1>1, <1>2, <1>5 DEF Untouched, TypeOK
    <2> QED BY <1>t, <1>1, <1>2, <2>1, <2>2, BystanderKept
  <1> QED BY <1>3, <1>4, <1>5

\* StaleResume: the session is new, and the block has everything before the
\* message.
LEMMA StaleResumeKeeps ==
    ASSUME SessionsInv, NEW a \in Agents, StaleResume(a)
    PROVE  SessionsInv'
  <1> USE DEF SessionsInv
  <1>t. TypeOK /\ SessionInv(a)
    OBVIOUS
  <1>1. /\ Len(log) \in Nat /\ Len(log) <= MaxEvents /\ MaxEvents \in Nat
        /\ base[a] \in 1..Len(log)
        /\ phase[a] = "sent"
    BY <1>t, BoundsAssumption DEF TypeOK, StaleResume, SessionInv, InLog
  <1>2. /\ retried' = retried \cup {a}
        /\ native' = native \ {a}
        /\ knows' = [knows EXCEPT ![a] = {}]
        /\ missed' = [missed EXCEPT ![a] = {}]
        /\ wm' = [wm EXCEPT ![a] = 0]
        /\ payload' = [payload EXCEPT ![a] = Replay(a, 0, base[a], TRUE)]
        /\ UNCHANGED <<log, parallel, phase, base, restarts>>
    BY DEF StaleResume, ResetStaleNativeSession, RetryReplay
  <1>3. Replay(a, 0, base[a], TRUE) = 1..base[a] - 1
    BY <1>1 DEF Replay
  <1>4. TypeOK'
    <2>1. 1..base[a] - 1 \subseteq Seqs /\ 0 \in 0..MaxEvents
      BY <1>1 DEF Seqs
    <2> QED BY <1>t, <1>2, <1>3, <2>1 DEF TypeOK
  <1>5. SessionInv(a)'
    <2>1. /\ phase'[a] = "sent" /\ base'[a] = base[a] /\ log' = log
          /\ payload'[a] = 1..base[a] - 1
          /\ wm'[a] = 0 /\ knows'[a] = {} /\ missed'[a] = {} /\ a \in retried'
      BY <1>t, <1>1, <1>2, <1>3 DEF TypeOK
    <2>2. InLog(a)'
      BY <1>1, <2>1 DEF InLog
    <2>3. BelowWatermark(a)' /\ UpToMessage(a)' /\ Settled(a)'
      BY <2>1 DEF BelowWatermark, UpToMessage, Settled
    <2>4. BeforeMessage(a)'
      BY <1>1, <2>1 DEF BeforeMessage
    <2>o. OwnPart(a)'
      <3>1. \A s \in 1..Len(log) : log[s] = a => s < base[a]
        BY <1>t, <1>1 DEF SessionInv, OwnPart
      <3> QED BY <2>1, <3>1 DEF OwnPart
    <2> QED BY <2>2, <2>3, <2>4, <2>o DEF SessionInv
  <1>6. ASSUME NEW b \in Agents, b # a PROVE SessionInv(b)'
    <2>1. LogGrows
      BY <1>1, <1>2 DEF LogGrows
    <2>2. Untouched(b)
      BY <1>t, <1>1, <1>2, <1>6 DEF Untouched, TypeOK
    <2> QED BY <1>t, <1>1, <1>2, <2>1, <2>2, BystanderKept
  <1> QED BY <1>4, <1>5, <1>6

\* Produce: the session has the event it produced.
LEMMA ProduceKeeps ==
    ASSUME SessionsInv, NEW a \in Agents, Produce(a)
    PROVE  SessionsInv'
  <1> USE DEF SessionsInv
  <1>t. TypeOK /\ SessionInv(a)
    OBVIOUS
  <1>1. /\ log \in Seq(Agents \cup {User}) /\ Len(log) \in Nat /\ Len(log) < MaxEvents
        /\ MaxEvents \in Nat /\ wm[a] \in Nat /\ wm[a] <= Len(log)
        /\ base[a] \in 1..Len(log)
        /\ phase[a] = "running"
    BY <1>t, BoundsAssumption DEF TypeOK, Produce, LogHead, SessionInv, InLog
  <1>2. /\ log' \in Seq(Agents \cup {User}) /\ Len(log') = Len(log) + 1
        /\ \A s \in 1..Len(log) : log'[s] = log[s]
        /\ log'[Len(log) + 1] = a
    BY <1>1, Appended DEF Produce
  <1>3. /\ knows' = [knows EXCEPT ![a] = knows[a] \cup {Len(log) + 1}]
        /\ UNCHANGED <<parallel, phase, base, payload, retried, wm, native, missed, restarts>>
    BY DEF Produce, LogHead, turns
  <1>4. TypeOK'
    <2>1. Len(log') <= MaxEvents /\ Len(log) + 1 \in Seqs
      BY <1>1, <1>2 DEF Seqs
    <2> QED BY <1>t, <1>2, <1>3, <2>1 DEF TypeOK
  <1>5. SessionInv(a)'
    <2>1. /\ phase'[a] = "running" /\ base'[a] = base[a]
          /\ knows'[a] = knows[a] \cup {Len(log) + 1}
          /\ wm'[a] = wm[a] /\ missed'[a] = missed[a] /\ retried' = retried
      BY <1>t, <1>1, <1>3 DEF TypeOK
    <2>2. InLog(a)'
      BY <1>t, <1>1, <1>2, <2>1 DEF SessionInv, InLog
    <2>3. BelowWatermark(a)'
      BY <1>t, <2>1 DEF SessionInv, BelowWatermark
    <2>4. UpToMessage(a)'
      BY <1>t, <1>1, <2>1 DEF SessionInv, UpToMessage
    <2>o. OwnPart(a)'
      <3>1. ASSUME NEW s \in 1..Len(log'), log'[s] = a PROVE s \in knows'[a] \cup missed[a]
        <4>1. s \in 1..Len(log) \/ s = Len(log) + 1
          BY <1>1, <1>2
        <4> QED BY <1>t, <1>1, <1>2, <2>1, <3>1, <4>1 DEF SessionInv, OwnPart
      <3> QED BY <2>1, <3>1 DEF OwnPart
    <2>5. BeforeMessage(a)' /\ Settled(a)'
      BY <2>1 DEF BeforeMessage, Settled
    <2> QED BY <2>2, <2>3, <2>4, <2>o, <2>5 DEF SessionInv
  <1>6. ASSUME NEW b \in Agents, b # a PROVE SessionInv(b)'
    <2>1. LogGrows
      BY <1>1, <1>2 DEF LogGrows
    <2>2. Untouched(b)
      <3>1. \A s \in Len(log) + 1 .. Len(log') : log'[s] # b
        BY <1>1, <1>2, <1>6
      <3> QED BY <1>t, <1>3, <1>6, <3>1 DEF Untouched, TypeOK
    <2> QED BY <1>t, <1>1, <1>2, <1>3, <2>1, <2>2, BystanderKept
  <1> QED BY <1>4, <1>5, <1>6

\* The end of a turn moves the watermark to the head of the log; what the turn
\* missed closes the gap between the two.
LEMMA EndKeeps ==
    ASSUME SessionsInv, NEW a \in Agents, phase[a] # "idle",
           EndTurn(a), AdvanceWatermark(a),
           UNCHANGED <<log, parallel, native, knows, restarts>>,
           NEW lost, lost \subseteq 1..Len(log),
           missed' = [missed EXCEPT ![a] = missed[a] \cup lost],
           \A s \in 1..Len(log) : s \in knows[a] \cup missed[a] \cup lost
    PROVE  SessionsInv'
  <1> USE DEF SessionsInv
  <1>t. TypeOK /\ SessionInv(a)
    OBVIOUS
  <1>1. /\ Len(log) \in Nat /\ Len(log) <= MaxEvents /\ MaxEvents \in Nat
        /\ knows[a] \subseteq 1..Len(log)
    BY <1>t, BoundsAssumption DEF TypeOK, SessionInv, InLog
  <1>2. /\ phase' = [phase EXCEPT ![a] = "idle"]
        /\ base' = [base EXCEPT ![a] = 0]
        /\ payload' = [payload EXCEPT ![a] = {}]
        /\ retried' = retried \ {a}
        /\ wm' = [wm EXCEPT ![a] = Len(log)]
    BY DEF EndTurn, AdvanceWatermark, LogHead
  <1>3. TypeOK'
    <2>1. 0 \in 0..MaxEvents /\ Len(log) \in 0..MaxEvents /\ lost \subseteq Seqs
      BY <1>1 DEF Seqs
    <2> QED BY <1>t, <1>2, <2>1 DEF TypeOK
  <1>4. SessionInv(a)'
    <2>1. /\ phase'[a] = "idle" /\ log' = log /\ wm'[a] = Len(log)
          /\ knows'[a] = knows[a] /\ missed'[a] = missed[a] \cup lost /\ a \notin retried'
      BY <1>t, <1>2 DEF TypeOK
    <2>2. InLog(a)' /\ Settled(a)'
      BY <1>1, <2>1 DEF InLog, Settled
    <2>3. BelowWatermark(a)' /\ OwnPart(a)' /\ BeforeMessage(a)' /\ UpToMessage(a)'
      BY <2>1 DEF BelowWatermark, OwnPart, BeforeMessage, UpToMessage
    <2> QED BY <2>2, <2>3 DEF SessionInv
  <1>5. ASSUME NEW b \in Agents, b # a PROVE SessionInv(b)'
    <2>1. LogGrows
      BY <1>1 DEF LogGrows
    <2>2. Untouched(b)
      BY <1>t, <1>1, <1>2, <1>5 DEF Untouched, TypeOK
    <2> QED BY <1>t, <1>1, <2>1, <2>2, BystanderKept
  <1> QED BY <1>3, <1>4, <1>5

LEMMA DispatchFailsKeeps ==
    ASSUME SessionsInv, NEW a \in Agents, DispatchFails(a)
    PROVE  SessionsInv'
  <1> DEFINE lost == payload[a] \cup base[a]..Len(log)
  <1>1. /\ Len(log) \in Nat /\ base[a] \in 1..Len(log) /\ phase[a] = "sent"
        /\ wm[a] \in Nat
        /\ payload[a] \subseteq wm[a] + 1 .. base[a] - 1
        /\ \A s \in 1..base[a] - 1 : s \in knows[a] \cup payload[a] \cup missed[a]
    BY DEF SessionsInv, TypeOK, DispatchFails, SessionInv, InLog, BeforeMessage
  <1>2. /\ EndTurn(a) /\ AdvanceWatermark(a)
        /\ UNCHANGED <<log, parallel, native, knows, restarts>>
        /\ missed' = [missed EXCEPT ![a] = missed[a] \cup lost]
    BY DEF DispatchFails, LogHead
  <1>3. lost \subseteq 1..Len(log)
    <2>1. base[a]..Len(log) \subseteq 1..Len(log)
      BY <1>1
    <2>2. wm[a] + 1 .. base[a] - 1 \subseteq 1..Len(log)
      BY <1>1
    <2> QED BY <1>1, <2>1, <2>2
  <1>4. ASSUME NEW s \in 1..Len(log)
        PROVE  s \in knows[a] \cup missed[a] \cup lost
    <2>1. s \in 1..base[a] - 1 \/ s \in base[a]..Len(log)
      BY <1>1
    <2> QED BY <1>1, <1>4, <2>1
  <1> HIDE DEF lost
  <1> QED BY <1>1, <1>2, <1>3, <1>4, EndKeeps

LEMMA FinishKeeps ==
    ASSUME SessionsInv, NEW a \in Agents, Finish(a)
    PROVE  SessionsInv'
  <1> DEFINE lost == {s \in base[a] + 1 .. Len(log) : log[s] # a}
  <1>1. /\ Len(log) \in Nat /\ base[a] \in 1..Len(log) /\ phase[a] = "running"
        /\ \A s \in 1..base[a] : s \in knows[a] \cup missed[a]
        /\ \A s \in 1..Len(log) : log[s] = a => s \in knows[a] \cup missed[a]
    BY DEF SessionsInv, TypeOK, Finish, SessionInv, InLog, UpToMessage, OwnPart
  <1>2. /\ EndTurn(a) /\ AdvanceWatermark(a)
        /\ UNCHANGED <<log, parallel, native, knows, restarts>>
        /\ missed' = [missed EXCEPT ![a] = missed[a] \cup lost]
    BY DEF Finish, LogHead
  <1>3. lost \subseteq 1..Len(log)
    BY <1>1
  <1>4. ASSUME NEW s \in 1..Len(log)
        PROVE  s \in knows[a] \cup missed[a] \cup lost
    <2>1. s \in 1..base[a] \/ s \in base[a] + 1 .. Len(log)
      BY <1>1
    <2> QED BY <1>1, <1>4, <2>1
  <1> HIDE DEF lost
  <1> QED BY <1>1, <1>2, <1>3, <1>4, EndKeeps

\* SetParallel: every session is new, every watermark at the start.
LEMMA SetParallelKeeps ==
    ASSUME SessionsInv, NEW on, SetParallel(on)
    PROVE  SessionsInv'
  <1> USE DEF SessionsInv
  <1>t. TypeOK
    OBVIOUS
  <1>1. /\ on \in ParallelModes /\ parallel' = on
        /\ wm' = [a \in Agents |-> 0] /\ native' = {}
        /\ knows' = [a \in Agents |-> {}] /\ missed' = [a \in Agents |-> Own(a)]
        /\ UNCHANGED <<log, phase, base, payload, retried, restarts>>
        /\ \A a \in Agents : phase[a] = "idle"
    BY DEF SetParallel, turns
  <1>2. Len(log) \in Nat /\ 0 \in 0..MaxEvents
    BY <1>t, BoundsAssumption DEF TypeOK
  <1>o. \A a \in Agents : Own(a) = {s \in 1..Len(log) : log[s] = a} /\ Own(a) \subseteq Seqs
    BY <1>t, <1>2, BoundsAssumption DEF Own, LogHead, Seqs, TypeOK
  <1>3. TypeOK'
    BY <1>t, <1>1, <1>2, <1>o DEF TypeOK
  <1>4. ASSUME NEW a \in Agents PROVE SessionInv(a)'
    <2>1. /\ phase'[a] = "idle" /\ wm'[a] = 0 /\ knows'[a] = {} /\ log' = log
          /\ missed'[a] = {s \in 1..Len(log) : log[s] = a}
      BY <1>1, <1>o
    <2>2. a \notin retried'
      BY <1>1, SessionInv(a) DEF SessionInv, Settled
    <2> QED BY <1>2, <2>1, <2>2
        DEF SessionInv, InLog, BelowWatermark, OwnPart, BeforeMessage, UpToMessage, Settled
  <1> QED BY <1>3, <1>4

\* Restart: the turns are gone, log and sessions are as they were, and what a
\* retry carried of the agent's own part is a known gap.
LEMMA RestartKeeps ==
    ASSUME SessionsInv, Restart
    PROVE  SessionsInv'
  <1> USE DEF SessionsInv
  <1>t. TypeOK
    OBVIOUS
  <1>1. /\ restarts < MaxRestarts /\ restarts' = restarts + 1
        /\ phase' = [a \in Agents |-> "idle"] /\ base' = [a \in Agents |-> 0]
        /\ payload' = [a \in Agents |-> {}] /\ retried' = {} /\ parallel' = FALSE
        /\ UNCHANGED <<log, wm, native, knows>>
        /\ missed' = [a \in Agents |-> missed[a] \cup
                         IF phase[a] = "sent" /\ a \in retried THEN Own(a) ELSE {}]
    BY DEF Restart
  <1>2. /\ 0 \in 0..MaxEvents /\ restarts \in Nat
        /\ restarts + 1 \in 0..MaxRestarts /\ restarts + 1 # 0
    BY <1>t, <1>1, BoundsAssumption DEF TypeOK
  <1>o. \A a \in Agents : Own(a) = {s \in 1..Len(log) : log[s] = a} /\ Own(a) \subseteq Seqs
    BY <1>t, BoundsAssumption DEF Own, LogHead, Seqs, TypeOK
  <1>3. TypeOK'
    <2>1. missed' \in [Agents -> SUBSET Seqs]
      BY <1>t, <1>1, <1>o DEF TypeOK
    <2> QED BY <1>t, <1>1, <1>2, <2>1, ParallelAssumption DEF TypeOK
  <1>4. ASSUME NEW a \in Agents PROVE SessionInv(a)'
    <2>1. /\ phase'[a] = "idle" /\ a \notin retried'
          /\ missed'[a] = missed[a] \cup
                 IF phase[a] = "sent" /\ a \in retried THEN Own(a) ELSE {}
      BY <1>1
    <2>2. InLog(a)' /\ BelowWatermark(a)'
      BY <1>1, <2>1, SessionInv(a) DEF SessionInv, InLog, BelowWatermark
    <2>3. OwnPart(a)'
      BY <1>1, <1>o, <2>1, SessionInv(a) DEF SessionInv, OwnPart
    <2> QED BY <1>1, <1>2, <2>1, <2>2, <2>3 DEF SessionInv, BeforeMessage, UpToMessage, Settled
  <1> QED BY <1>3, <1>4

LEMMA SessionsNext == SessionsInv /\ [Next]_vars => SessionsInv'
  <1> SUFFICES ASSUME SessionsInv, [Next]_vars PROVE SessionsInv'
    OBVIOUS
  <1>1. ASSUME UNCHANGED vars PROVE SessionsInv'
    BY <1>1 DEF vars, turns, sessions, SessionsInv, TypeOK, SessionInv, InLog, BelowWatermark,
                OwnPart, BeforeMessage, UpToMessage, Settled
  <1>2. ASSUME NEW a \in Agents,
               Send(a) \/ Deliver(a) \/ StaleResume(a) \/ DispatchFails(a) \/ Produce(a) \/ Finish(a)
        PROVE  SessionsInv'
    BY <1>2, SendKeeps, DeliverKeeps, StaleResumeKeeps, DispatchFailsKeeps, ProduceKeeps,
       FinishKeeps
  <1>3. ASSUME NEW on \in BOOLEAN, SetParallel(on) PROVE SessionsInv'
    BY <1>3, SetParallelKeeps
  <1>4. ASSUME Restart PROVE SessionsInv'
    BY <1>4, RestartKeeps
  <1> QED BY <1>1, <1>2, <1>3, <1>4 DEF Next

\* The three parts of ReplayIsExact.
LEMMA SessionsExact == SessionsInv => ReplayIsExact
  <1> SUFFICES ASSUME SessionsInv PROVE ReplayIsExact
    OBVIOUS
  <1>1. OnlyKnownGaps
    BY DEF SessionsInv, SessionInv, BelowWatermark, OnlyKnownGaps, Skipped
  <1>2. NoDuplicateReplay
    <2> SUFFICES ASSUME restarts = 0, NEW a \in Agents, phase[a] = "sent",
                        NEW s \in payload[a], s \in knows[a] \cup {base[a]}
                 PROVE  FALSE
      BY DEF NoDuplicateReplay
    <2>0. TypeOK /\ SessionInv(a)
      BY DEF SessionsInv
    <2>1. /\ wm[a] \in Nat /\ base[a] \in Nat
          /\ payload[a] \subseteq wm[a] + 1 .. base[a] - 1
          /\ knows[a] \subseteq 1..wm[a]
      <3>1. wm[a] \in Nat /\ base[a] \in Nat
        BY <2>0 DEF TypeOK
      <3>2. payload[a] \subseteq wm[a] + 1 .. base[a] - 1
        BY <2>0 DEF SessionInv, BeforeMessage
      <3>3. knows[a] \subseteq 1..wm[a]
        BY <2>0 DEF SessionInv, Settled
      <3> QED BY <3>1, <3>2, <3>3
    <2>2. s \in wm[a] + 1 .. base[a] - 1
      BY <2>1
    <2>3. s \in 1..wm[a] \/ s = base[a]
      BY <2>1
    <2> QED BY <2>1, <2>2, <2>3
  <1>3. RebuiltIsComplete
    BY DEF SessionsInv, SessionInv, UpToMessage, RebuiltIsComplete
  <1> QED BY <1>1, <1>2, <1>3 DEF ReplayIsExact

-----------------------------------------------------------------------------
(* Documents: the inductive invariant. *)

Docs == Watchers!Documents
Told == Contents \cup {Watchers!Nothing}

\* A sweep is of a watched copy, and of one kind.
SweepOK ==
    \/ sweep = Watchers!NoSweep
    \/ sweep \in [step : {"attach"}, copy : watched, target : 1..Watchers!Dir]
    \/ sweep \in [step : {"list"}, copy : watched]
    \/ sweep \in [step : {"publish"}, copy : watched, present : SUBSET Docs]

\* Nothing goes on at a copy that is not watched; the thread's own always is.
WatchedOnly ==
    /\ Shared \in watched
    /\ \A c \in Watchers!Copies \ watched : ~armed[c] /\ ~notified[c] /\ ~alive[c]

\* A watcher remembers what the log last said of its documents, where its word
\* counts.
Remembered ==
    \A d \in Docs : Watchers!OwnWord(d) => known[d[1]][d] = Watchers!Announced(d)

\* Of other copies' documents only the thread's own watcher has anything, from
\* the log, after a restart.
OwnDocuments ==
    \A c \in Watchers!Copies, d \in Docs :
       known[c][d] # Watchers!Nothing /\ d[1] # c => c = Shared /\ boots > 0

\* Until a restart, the log has nothing of a copy that was never watched.
NothingUnwatched ==
    boots = 0 => \A d \in Docs : d[1] \notin watched => events[d] = <<>>

\* A sweep that is about to publish has seen the files of its copy; what it has
\* not seen was not there, or was written since.
SeenByList ==
    sweep.step = "publish" =>
    /\ \A d \in sweep.present : d[1] = sweep.copy
    /\ \A d \in Docs : d[1] = sweep.copy /\ d \notin sweep.present =>
          file[d] = Watchers!Nothing \/ d \in touched

DocumentsInv ==
    /\ Watchers!TypeOK /\ boots \in Nat
    /\ SweepOK /\ WatchedOnly /\ Remembered /\ OwnDocuments /\ NothingUnwatched /\ SeenByList

\* The copies and their documents.
LEMMA CopyFacts ==
    /\ Shared \in Watchers!Copies /\ Lanes \subseteq Watchers!Copies /\ Shared \notin Lanes
    /\ \A d \in Docs : d[1] \in Watchers!Copies
    /\ \A c \in Watchers!Copies : c # Shared => c \in Lanes
  BY HistoryAssumption DEF Watchers!Copies, Docs, Watchers!Documents

\* What watchers remember is right as long as neither they nor the log change.
LEMMA MemoryKept ==
    ASSUME DocumentsInv, UNCHANGED <<known, events, boots>>, watched \subseteq watched'
    PROVE  Remembered' /\ OwnDocuments' /\ NothingUnwatched'
  <1>1. Remembered'
    BY DEF DocumentsInv, Remembered, Watchers!OwnWord, Watchers!Announced
  <1>2. OwnDocuments'
    BY DEF DocumentsInv, OwnDocuments
  <1>3. NothingUnwatched'
    BY DEF DocumentsInv, NothingUnwatched
  <1> QED BY <1>1, <1>2, <1>3

LEMMA DocumentsInit == Watchers!Init => DocumentsInv
  <1> SUFFICES ASSUME Watchers!Init PROVE DocumentsInv
    OBVIOUS
  <1> USE CopyFacts
  <1>1. Watchers!TypeOK /\ boots \in Nat
    <2>1. \E here \in 1..3 : depth = [c \in Watchers!Copies |-> IF c = Shared THEN here ELSE 0]
      BY DEF Watchers!Init, Watchers!Copy, Watchers!Dir
    <2>2. depth \in [Watchers!Copies -> 0..3]
      BY <2>1
    <2>3. events \in [Docs -> Seq(Told)]
      BY DEF Watchers!Init, Docs
    <2> QED BY <2>2, <2>3 DEF Watchers!Init, Watchers!TypeOK, Watchers!Dir, Docs, Told
  <1>2. SweepOK /\ WatchedOnly
    BY DEF Watchers!Init, SweepOK, WatchedOnly
  <1>3. Remembered /\ OwnDocuments /\ NothingUnwatched
    BY DEF Watchers!Init, Remembered, OwnDocuments, NothingUnwatched, Watchers!Announced, Docs
  <1>4. SeenByList
    BY DEF Watchers!Init, Watchers!NoSweep, SeenByList
  <1> QED BY <1>1, <1>2, <1>3, <1>4 DEF DocumentsInv

-----------------------------------------------------------------------------
(* Documents: the file system's steps. *)

LEMMA WriteKeeps ==
    ASSUME DocumentsInv, NEW d \in Docs, Watchers!Write(d)
    PROVE  DocumentsInv'
  <1> USE CopyFacts
  <1>1. /\ UNCHANGED <<depth, lane, watched, watching, alive, armed, known, sweep, misread,
                       events, boots>>
        /\ touched' = touched \cup {d}
        /\ notified' = [notified EXCEPT ![d[1]] = notified[d[1]] \/ Watchers!Reports(d[1], 3)]
    BY DEF Watchers!Write, Watchers!Dir
  <1>2. PICK now \in Contents \cup {Watchers!Nothing, Watchers!Empty} :
           file' = [file EXCEPT ![d] = now]
    BY DEF Watchers!Write
  <1>3. Watchers!TypeOK' /\ boots' \in Nat
    BY <1>1, <1>2 DEF DocumentsInv, Watchers!TypeOK, Watchers!Reports, Docs
  <1>4. SweepOK' /\ WatchedOnly'
    BY <1>1 DEF DocumentsInv, Watchers!TypeOK, SweepOK, WatchedOnly, Watchers!Reports
  <1>5. Remembered' /\ OwnDocuments' /\ NothingUnwatched'
    BY <1>1, MemoryKept
  <1>6. SeenByList'
    BY <1>1, <1>2 DEF DocumentsInv, Watchers!TypeOK, SeenByList, Docs
  <1> QED BY <1>3, <1>4, <1>5, <1>6 DEF DocumentsInv

LEMMA MakeKeeps ==
    ASSUME DocumentsInv, NEW c \in Watchers!Copies, Watchers!Make(c)
    PROVE  DocumentsInv'
  <1> USE CopyFacts
  <1>1. /\ UNCHANGED <<file, lane, watched, watching, alive, armed, known, sweep, misread,
                       events, touched, boots>>
        /\ depth' = [depth EXCEPT ![c] = 3]
        /\ notified' = [notified EXCEPT ![c] = notified[c] \/ Watchers!Reports(c, depth[c])]
    BY DEF Watchers!Make, Watchers!Dir
  <1>2. Watchers!TypeOK' /\ boots' \in Nat
    BY <1>1 DEF DocumentsInv, Watchers!TypeOK, Watchers!Reports, Watchers!Dir
  <1>3. SweepOK' /\ WatchedOnly'
    BY <1>1 DEF DocumentsInv, Watchers!TypeOK, SweepOK, WatchedOnly, Watchers!Reports
  <1>4. Remembered' /\ OwnDocuments' /\ NothingUnwatched'
    BY <1>1, MemoryKept
  <1>5. SeenByList'
    BY <1>1 DEF DocumentsInv, SeenByList
  <1> QED BY <1>2, <1>3, <1>4, <1>5 DEF DocumentsInv

\* A part of a copy goes: handles die, files are gone.
LEMMA RemovedKeeps ==
    ASSUME DocumentsInv, NEW c \in Watchers!Copies, NEW rung \in 0..2, Watchers!Removed(c, rung),
           UNCHANGED <<watched, watching, armed, known, sweep, misread, events, touched, boots>>,
           lane' \in [Lanes -> {"none", "up", "left"}]
    PROVE  DocumentsInv'
  <1> USE CopyFacts
  <1>1. /\ depth' = [depth EXCEPT ![c] = rung]
        /\ file' = [d \in Docs |-> IF d[1] = c THEN Watchers!Nothing ELSE file[d]]
        /\ notified' = [notified EXCEPT ![c] = notified[c] \/ (alive[c] /\ watching[c] >= rung)]
        /\ alive' = [alive EXCEPT ![c] = alive[c] /\ watching[c] <= rung]
    BY DEF Watchers!Removed, Docs
  <1>2. Watchers!TypeOK' /\ boots' \in Nat
    BY <1>1 DEF DocumentsInv, Watchers!TypeOK, Watchers!Dir, Docs
  <1>3. SweepOK' /\ WatchedOnly'
    <2>1. SweepOK'
      BY DEF DocumentsInv, SweepOK
    <2>2. c \notin watched => ~notified'[c] /\ ~alive'[c]
      BY <1>1 DEF DocumentsInv, Watchers!TypeOK, WatchedOnly
    <2>3. \A b \in Watchers!Copies : b # c => notified'[b] = notified[b] /\ alive'[b] = alive[b]
      BY <1>1 DEF DocumentsInv, Watchers!TypeOK
    <2> QED BY <2>1, <2>2, <2>3 DEF DocumentsInv, WatchedOnly
  <1>4. Remembered' /\ OwnDocuments' /\ NothingUnwatched'
    BY MemoryKept
  <1>5. SeenByList'
    BY <1>1 DEF DocumentsInv, SeenByList
  <1> QED BY <1>2, <1>3, <1>4, <1>5 DEF DocumentsInv

LEMMA RemoveKeeps ==
    ASSUME DocumentsInv, NEW c \in Watchers!Copies, Watchers!Remove(c)
    PROVE  DocumentsInv'
  <1>1. PICK rung \in 1..2 : Watchers!Removed(c, rung)
    BY DEF Watchers!Remove, Watchers!Copy, Watchers!Dir
  <1>2. UNCHANGED <<lane, watched, watching, armed, known, sweep, misread, events, touched, boots>>
    BY DEF Watchers!Remove
  <1> QED BY <1>1, <1>2, RemovedKeeps DEF DocumentsInv, Watchers!TypeOK

LEMMA DropKeeps ==
    ASSUME DocumentsInv, NEW l \in Lanes, Watchers!Drop(l)
    PROVE  DocumentsInv'
  <1>1. /\ Watchers!Removed(l, 0) /\ lane' = [lane EXCEPT ![l] = "none"]
        /\ UNCHANGED <<watched, watching, armed, known, sweep, misread, events, touched, boots>>
    BY DEF Watchers!Drop
  <1> QED BY <1>1, CopyFacts, RemovedKeeps DEF DocumentsInv, Watchers!TypeOK

-----------------------------------------------------------------------------
(* Documents: the watcher's steps. *)

LEMMA NotifiedKeeps ==
    ASSUME DocumentsInv, NEW c \in Watchers!Copies, Watchers!Notified(c)
    PROVE  DocumentsInv'
  <1> USE CopyFacts
  <1>1. /\ UNCHANGED <<depth, file, lane, watched, watching, alive, known, sweep, misread,
                       events, touched, boots>>
        /\ notified' = [notified EXCEPT ![c] = FALSE]
        /\ armed' = [armed EXCEPT ![c] = TRUE]
        /\ notified[c]
    BY DEF Watchers!Notified, Watchers!disk
  <1>2. Watchers!TypeOK' /\ boots' \in Nat
    BY <1>1 DEF DocumentsInv, Watchers!TypeOK
  <1>3. SweepOK' /\ WatchedOnly'
    BY <1>1 DEF DocumentsInv, Watchers!TypeOK, SweepOK, WatchedOnly
  <1>4. Remembered' /\ OwnDocuments' /\ NothingUnwatched'
    BY <1>1, MemoryKept
  <1>5. SeenByList'
    BY <1>1 DEF DocumentsInv, SeenByList
  <1> QED BY <1>2, <1>3, <1>4, <1>5 DEF DocumentsInv

\* A sweep that goes on to the listing, or is over.
LEMMA AttachedSweep ==
    ASSUME NEW c \in Watchers!Copies, NEW rung, Watchers!Attached(c, rung), c \in watched'
    PROVE  SweepOK' /\ SeenByList'
  BY DEF Watchers!Attached, Watchers!NoSweep, SweepOK, SeenByList

LEMMA FireKeeps ==
    ASSUME DocumentsInv, NEW c \in Watchers!Copies, Watchers!Fire(c)
    PROVE  DocumentsInv'
  <1> USE CopyFacts
  <1>1. /\ UNCHANGED <<depth, file, lane, watched, watching, alive, notified, known, misread,
                       events, touched, boots>>
        /\ armed' = [armed EXCEPT ![c] = FALSE]
        /\ armed[c]
    BY DEF Watchers!Fire, Watchers!disk, Watchers!handles
  <1>2. Watchers!TypeOK' /\ boots' \in Nat
    BY <1>1 DEF DocumentsInv, Watchers!TypeOK
  <1>3. c \in watched /\ c \in watched'
    BY <1>1 DEF DocumentsInv, WatchedOnly
  <1>4. SweepOK' /\ SeenByList'
    <2>1. CASE depth[c] \in {0, watching[c]}
      BY <1>3, <2>1, AttachedSweep DEF Watchers!Fire
    <2>2. CASE depth[c] \notin {0, watching[c]}
      <3>1. depth[c] \in 1..3
        BY <2>2 DEF DocumentsInv, Watchers!TypeOK, Watchers!Dir
      <3>2. sweep' = [step |-> "attach", copy |-> c, target |-> depth[c]]
        BY <2>2 DEF Watchers!Fire
      <3> QED BY <1>3, <3>1, <3>2 DEF SweepOK, SeenByList, Watchers!Dir
    <2> QED BY <2>1, <2>2
  <1>5. WatchedOnly'
    BY <1>1 DEF DocumentsInv, Watchers!TypeOK, WatchedOnly
  <1>6. Remembered' /\ OwnDocuments' /\ NothingUnwatched'
    BY <1>1, MemoryKept
  <1> QED BY <1>2, <1>4, <1>5, <1>6 DEF DocumentsInv

LEMMA AttachKeeps ==
    ASSUME DocumentsInv, NEW c \in Watchers!Copies, Watchers!Attach(c)
    PROVE  DocumentsInv'
  <1> USE CopyFacts
  <1>1. /\ sweep \in [step : {"attach"}, copy : watched, target : 1..3]
        /\ sweep.copy = c /\ c \in watched /\ sweep.target \in 1..3
    BY DEF DocumentsInv, SweepOK, Watchers!Attach, Watchers!NoSweep, Watchers!Dir
  <1>2. /\ UNCHANGED <<depth, file, lane, watched, known, misread, events, touched, boots>>
        /\ notified' = [notified EXCEPT ![c] = FALSE]
    BY DEF Watchers!Attach, Watchers!disk
  <1>3. \/ /\ watching' = [watching EXCEPT ![c] = sweep.target]
           /\ alive' = [alive EXCEPT ![c] = TRUE]
           /\ Watchers!Attached(c, sweep.target)
           /\ armed' = armed
        \/ /\ watching' = [watching EXCEPT ![c] = 0]
           /\ alive' = [alive EXCEPT ![c] = FALSE]
           /\ armed' = [armed EXCEPT ![c] = TRUE]
           /\ sweep' = Watchers!NoSweep
    BY DEF Watchers!Attach
  <1>4. Watchers!TypeOK' /\ boots' \in Nat
    <2> USE DEF DocumentsInv, Watchers!TypeOK
    <2>1. watching' \in [Watchers!Copies -> 0..Watchers!Dir]
      <3>1. sweep.target \in 0..3 /\ 0 \in 0..3
        BY <1>1
      <3>2. PICK rung \in 0..3 : watching' = [watching EXCEPT ![c] = rung]
        BY <1>3, <3>1
      <3> QED BY <3>2 DEF Watchers!Dir
    <2>2. /\ alive' \in [Watchers!Copies -> BOOLEAN]
          /\ notified' \in [Watchers!Copies -> BOOLEAN]
          /\ armed' \in [Watchers!Copies -> BOOLEAN]
      BY <1>2, <1>3
    <2> QED BY <1>2, <2>1, <2>2
  <1>5. SweepOK' /\ SeenByList'
    BY <1>1, <1>2, <1>3, AttachedSweep DEF SweepOK, SeenByList, Watchers!NoSweep
  <1>6. WatchedOnly'
    BY <1>1, <1>2, <1>3 DEF DocumentsInv, Watchers!TypeOK, WatchedOnly
  <1>7. Remembered' /\ OwnDocuments' /\ NothingUnwatched'
    BY <1>2, MemoryKept
  <1> QED BY <1>4, <1>5, <1>6, <1>7 DEF DocumentsInv

LEMMA ListKeeps ==
    ASSUME DocumentsInv, NEW c \in Watchers!Copies, Watchers!List(c)
    PROVE  DocumentsInv'
  <1> USE CopyFacts
  <1>1. sweep \in [step : {"list"}, copy : watched] /\ sweep.copy = c /\ c \in watched
    BY DEF DocumentsInv, SweepOK, Watchers!List, Watchers!NoSweep
  <1>2. /\ UNCHANGED <<depth, file, lane, watched, watching, alive, notified, armed, known,
                       events, boots>>
        /\ touched' = {}
    BY DEF Watchers!List, Watchers!disk, Watchers!handles
  <1>3. \/ /\ sweep' = [step |-> "publish", copy |-> c, present |-> Watchers!Here(c)]
           /\ misread' = misread
        \/ sweep' = Watchers!NoSweep /\ misread' = misread \cup {c}
    BY DEF Watchers!List
  <1>4. Watchers!TypeOK' /\ boots' \in Nat
    BY <1>2, <1>3 DEF DocumentsInv, Watchers!TypeOK
  <1>5. SweepOK' /\ SeenByList'
    <2>1. CASE sweep' = Watchers!NoSweep
      BY <2>1 DEF SweepOK, SeenByList, Watchers!NoSweep
    <2>2. CASE sweep' = [step |-> "publish", copy |-> c, present |-> Watchers!Here(c)]
      <3>1. Watchers!Here(c) = {d \in Docs : d[1] = c /\ file[d] # Watchers!Nothing}
        BY DEF Watchers!Here, Docs
      <3>2. SweepOK'
        BY <1>1, <1>2, <2>2, <3>1 DEF SweepOK
      <3>3. SeenByList'
        BY <1>2, <2>2, <3>1 DEF SeenByList
      <3> QED BY <3>2, <3>3
    <2> QED BY <1>3, <2>1, <2>2
  <1>6. WatchedOnly'
    BY <1>2 DEF DocumentsInv, WatchedOnly
  <1>7. Remembered' /\ OwnDocuments' /\ NothingUnwatched'
    BY <1>2, MemoryKept
  <1> QED BY <1>4, <1>5, <1>6, <1>7 DEF DocumentsInv

\* Publish, document by document: what a sweep puts into the log of a document
\* whose word counts is news of its own copy, and a retirement is of a document
\* that is gone, empty, or was written after the listing.
Published(c, told) ==
    /\ told \subseteq Docs
    /\ \A d \in Docs \ told : events'[d] = events[d] /\ known'[c][d] = known[c][d]
    /\ \A d \in told :
       /\ known'[c][d] \in Told
       /\ events'[d] = Append(events[d], known'[c][d])
       /\ known'[c][d] # known[c][d]
       /\ d[1] # c => known'[c][d] = Watchers!Nothing /\ known[c][d] # Watchers!Nothing
       /\ d[1] = c /\ known'[c][d] = Watchers!Nothing =>
             Watchers!OnDisk(d) = Watchers!Nothing \/ d \in touched

LEMMA PublishFrame ==
    ASSUME DocumentsInv, NEW c \in Watchers!Copies, Watchers!Publish(c)
    PROVE  /\ sweep.step = "publish" /\ sweep.copy = c /\ c \in watched
           /\ sweep.present \subseteq Docs
           /\ sweep' = Watchers!NoSweep
           /\ UNCHANGED <<depth, file, lane, watched, watching, alive, notified, touched, boots>>
           /\ \A b \in Watchers!Copies : b # c => known'[b] = known[b]
           /\ known' = [known EXCEPT ![c] = known'[c]]
           /\ known'[c] = [d \in Docs |-> known'[c][d]]
           /\ events' = [d \in Docs |-> events'[d]]
           /\ armed' \in [Watchers!Copies -> BOOLEAN]
           /\ \A b \in Watchers!Copies : b # c => armed'[b] = armed[b]
           /\ misread' \subseteq misread \cup {c}
  <1>1. /\ sweep \in [step : {"publish"}, copy : watched, present : SUBSET Docs]
        /\ sweep.step = "publish" /\ sweep.copy = c
    BY DEF DocumentsInv, SweepOK, Watchers!Publish, Watchers!NoSweep
  <1>2. /\ sweep' = Watchers!NoSweep
        /\ UNCHANGED <<depth, file, lane, watched, watching, alive, notified, touched, boots>>
    BY DEF Watchers!Publish, Watchers!disk, Watchers!handles
  <1>3. PICK unread \in SUBSET sweep.present :
           \E refused \in SUBSET DOMAIN Watchers!Owed(c, unread) :
              /\ events' = [d \in Docs |->
                    IF d \in DOMAIN Watchers!Owed(c, unread) \ refused
                    THEN Append(events[d], Watchers!Owed(c, unread)[d]) ELSE events[d]]
              /\ known' = Watchers!Recorded(c, Watchers!Owed(c, unread), refused)
              /\ armed' = [armed EXCEPT ![c] = armed[c] \/ refused # {}]
              /\ misread' = IF unread = {} THEN misread \ {c} ELSE misread \cup {c}
    BY DEF Watchers!Publish, Docs
  <1>4. PICK refused \in SUBSET DOMAIN Watchers!Owed(c, unread) :
              /\ events' = [d \in Docs |->
                    IF d \in DOMAIN Watchers!Owed(c, unread) \ refused
                    THEN Append(events[d], Watchers!Owed(c, unread)[d]) ELSE events[d]]
              /\ known' = Watchers!Recorded(c, Watchers!Owed(c, unread), refused)
              /\ armed' = [armed EXCEPT ![c] = armed[c] \/ refused # {}]
              /\ misread' = IF unread = {} THEN misread \ {c} ELSE misread \cup {c}
    BY <1>3
  <1> DEFINE kept == [d \in Docs |-> IF d \in DOMAIN Watchers!Owed(c, unread) \ refused
                                     THEN Watchers!Owed(c, unread)[d] ELSE known[c][d]]
  <1>5. known' = [known EXCEPT ![c] = kept] /\ kept = [d \in Docs |-> kept[d]]
    BY <1>4 DEF Watchers!Recorded, Docs
  <1> HIDE DEF kept
  <1>6. known'[c] = kept /\ \A b \in Watchers!Copies : b # c => known'[b] = known[b]
    BY <1>5 DEF DocumentsInv, Watchers!TypeOK
  <1>7. /\ armed' \in [Watchers!Copies -> BOOLEAN]
        /\ \A b \in Watchers!Copies : b # c => armed'[b] = armed[b]
        /\ misread' \subseteq misread \cup {c}
    BY <1>4 DEF DocumentsInv, Watchers!TypeOK
  <1>8. events' = [d \in Docs |-> events'[d]]
    BY <1>4
  <1> QED BY <1>1, <1>2, <1>5, <1>6, <1>7, <1>8

LEMMA PublishTells ==
    ASSUME DocumentsInv, NEW c \in Watchers!Copies, Watchers!Publish(c)
    PROVE  \E told : Published(c, told)
  <1>1. PICK unread \in SUBSET sweep.present :
           \E refused \in SUBSET DOMAIN Watchers!Owed(c, unread) :
              /\ events' = [d \in Docs |->
                    IF d \in DOMAIN Watchers!Owed(c, unread) \ refused
                    THEN Append(events[d], Watchers!Owed(c, unread)[d]) ELSE events[d]]
              /\ known' = Watchers!Recorded(c, Watchers!Owed(c, unread), refused)
    BY DEF Watchers!Publish, Docs
  <1>2. PICK refused \in SUBSET DOMAIN Watchers!Owed(c, unread) :
              /\ events' = [d \in Docs |->
                    IF d \in DOMAIN Watchers!Owed(c, unread) \ refused
                    THEN Append(events[d], Watchers!Owed(c, unread)[d]) ELSE events[d]]
              /\ known' = Watchers!Recorded(c, Watchers!Owed(c, unread), refused)
    BY <1>1
  <1> DEFINE read  == Watchers!Readable(unread)
             gone  == {d \in Docs : known[c][d] # Watchers!Nothing /\
                         (d \notin sweep.present \/ (d \in read /\ file[d] = Watchers!Empty))}
             fresh == {d \in read : file[d] # Watchers!Empty /\ file[d] # known[c][d]}
             owed  == [d \in gone \cup fresh |-> IF d \in gone THEN Watchers!Nothing ELSE file[d]]
             told  == DOMAIN owed \ refused
  <1>3. Watchers!Owed(c, unread) = owed
    BY DEF Watchers!Owed, Docs
  <1>4. /\ read \subseteq sweep.present /\ sweep.present \subseteq Docs
        /\ \A d \in read : file[d] # Watchers!Nothing
    BY PublishFrame DEF Watchers!Readable
  <1>5. DOMAIN owed \subseteq Docs
    BY <1>4
  <1>6. ASSUME NEW d \in DOMAIN owed
        PROVE  /\ owed[d] \in Told /\ owed[d] # known[c][d]
               /\ d[1] # c => owed[d] = Watchers!Nothing /\ known[c][d] # Watchers!Nothing
               /\ d[1] = c /\ owed[d] = Watchers!Nothing =>
                     Watchers!OnDisk(d) = Watchers!Nothing \/ d \in touched
    <2>1. CASE d \in gone
      <3>1. owed[d] = Watchers!Nothing /\ known[c][d] # Watchers!Nothing
        BY <2>1
      <3>2. d[1] = c => Watchers!OnDisk(d) = Watchers!Nothing \/ d \in touched
        BY <1>5, <2>1, PublishFrame DEF DocumentsInv, SeenByList, Watchers!OnDisk
      <3> QED BY <3>1, <3>2 DEF Told
    <2>2. CASE d \notin gone
      <3>1. d \in fresh /\ owed[d] = file[d]
        BY <2>2
      <3>2. d[1] = c /\ d \in Docs
        BY <1>4, <3>1, PublishFrame DEF DocumentsInv, SeenByList
      <3>3. file[d] # Watchers!Nothing /\ file[d] # Watchers!Empty /\ file[d] # known[c][d]
        BY <1>4, <3>1
      <3>4. file[d] \in Told
        BY <3>2, <3>3 DEF DocumentsInv, Watchers!TypeOK, Told, Docs
      <3> QED BY <3>1, <3>2, <3>3, <3>4
    <2> QED BY <2>1, <2>2
  <1> HIDE DEF owed
  <1>7. known' = [known EXCEPT ![c] = [d \in Docs |-> IF d \in told THEN owed[d] ELSE known[c][d]]]
    BY <1>2, <1>3 DEF Watchers!Recorded, Docs
  <1>8. \A d \in Docs : known'[c][d] = IF d \in told THEN owed[d] ELSE known[c][d]
    BY <1>7 DEF DocumentsInv, Watchers!TypeOK
  <1>9. \A d \in Docs : events'[d] = IF d \in told THEN Append(events[d], owed[d]) ELSE events[d]
    BY <1>2, <1>3
  <1>10. Published(c, told)
    BY <1>5, <1>6, <1>8, <1>9 DEF Published
  <1> QED BY <1>10

\* Whose word counts: of the documents a sweep tells of, its own copy's.
LEMMA OwnIsTold ==
    ASSUME DocumentsInv, NEW c \in Watchers!Copies, NEW told, Published(c, told),
           NEW d \in told, Watchers!OwnWord(d)
    PROVE  d[1] = c
  <1> SUFFICES ASSUME d[1] # c PROVE FALSE
    OBVIOUS
  <1>1. d \in Docs /\ known[c][d] # Watchers!Nothing
    BY DEF Published
  <1>2. c = Shared /\ boots > 0
    BY <1>1 DEF DocumentsInv, OwnDocuments
  <1> QED BY <1>2 DEF Watchers!OwnWord, DocumentsInv

LEMMA PublishKeeps ==
    ASSUME DocumentsInv, NEW c \in Watchers!Copies, Watchers!Publish(c)
    PROVE  DocumentsInv'
  <1> USE CopyFacts
  <1>0. PICK told : Published(c, told)
    BY PublishTells
  <1>1. /\ sweep.step = "publish" /\ sweep.copy = c /\ c \in watched
        /\ sweep' = Watchers!NoSweep
        /\ UNCHANGED <<depth, file, lane, watched, watching, alive, notified, touched, boots>>
        /\ \A b \in Watchers!Copies : b # c => known'[b] = known[b]
        /\ known' = [known EXCEPT ![c] = known'[c]]
        /\ known'[c] = [d \in Docs |-> known'[c][d]]
        /\ events' = [d \in Docs |-> events'[d]]
    BY PublishFrame
  <1>2. /\ armed' \in [Watchers!Copies -> BOOLEAN]
        /\ \A b \in Watchers!Copies : b # c => armed'[b] = armed[b]
        /\ misread' \subseteq misread \cup {c}
    BY PublishFrame
  <1>m. \A d \in Docs : d \notin told => known'[c][d] = known[c][d] /\ events'[d] = events[d]
    BY <1>0 DEF Published
  <1>3. Watchers!TypeOK' /\ boots' \in Nat
    <2>1. \A d \in Docs : known'[c][d] \in Told
      BY <1>0 DEF DocumentsInv, Watchers!TypeOK, Published, Told, Docs
    <2>2. known'[c] \in [Docs -> Told]
      BY <1>1, <2>1
    <2>3. known' \in [Watchers!Copies -> [Docs -> Told]]
      BY <1>1, <2>2 DEF DocumentsInv, Watchers!TypeOK, Told, Docs
    <2>4. ASSUME NEW d \in Docs PROVE events'[d] \in Seq(Told)
      <3>1. events[d] \in Seq(Told)
        BY DEF DocumentsInv, Watchers!TypeOK, Told, Docs
      <3>2. CASE d \in told
        <4>1. events'[d] = Append(events[d], known'[c][d])
          BY <1>0, <3>2 DEF Published
        <4> QED BY <2>1, <3>1, <4>1, Appended
      <3> QED BY <1>m, <3>1, <3>2
    <2>5. events' \in [Docs -> Seq(Told)]
      BY <1>1, <2>4
    <2> QED BY <1>1, <1>2, <2>3, <2>5 DEF DocumentsInv, Watchers!TypeOK, Told, Docs
  <1>4. SweepOK' /\ SeenByList'
    BY <1>1 DEF SweepOK, SeenByList, Watchers!NoSweep
  <1>5. WatchedOnly'
    BY <1>1, <1>2 DEF DocumentsInv, WatchedOnly
  <1>6. Remembered'
    <2> SUFFICES ASSUME NEW d \in Docs, Watchers!OwnWord(d)
                 PROVE  known'[d[1]][d] = Watchers!Announced(d)'
      BY <1>1 DEF Remembered, Watchers!OwnWord
    <2>1. known[d[1]][d] = Watchers!Announced(d)
      BY DEF DocumentsInv, Remembered
    <2>2. CASE d \in told
      <3>1. d[1] = c
        BY <1>0, <2>2, OwnIsTold
      <3>2. /\ events'[d] = Append(events[d], known'[c][d])
            /\ events[d] \in Seq(Told) /\ known'[c][d] \in Told
        BY <1>0, <2>2 DEF Published, DocumentsInv, Watchers!TypeOK, Told, Docs
      <3>3. events'[d] # <<>> /\ events'[d][Len(events'[d])] = known'[c][d]
        BY <3>2, LastAppended
      <3> QED BY <3>1, <3>3 DEF Watchers!Announced
    <2>3. CASE d \notin told
      <3>1. events'[d] = events[d] /\ known'[d[1]][d] = known[d[1]][d]
        BY <1>1, <1>m, <2>3
      <3> QED BY <2>1, <3>1 DEF Watchers!Announced
    <2> QED BY <2>2, <2>3
  <1>7. OwnDocuments'
    <2> SUFFICES ASSUME NEW b \in Watchers!Copies, NEW d \in Docs,
                        known'[b][d] # Watchers!Nothing, d[1] # b
                 PROVE  b = Shared /\ boots > 0
      BY <1>1 DEF OwnDocuments
    <2>1. CASE b = c /\ d \in told
      BY <1>0, <2>1 DEF Published
    <2>2. CASE ~(b = c /\ d \in told)
      <3>1. known'[b][d] = known[b][d]
        BY <1>1, <1>m, <2>2
      <3> QED BY <3>1 DEF DocumentsInv, OwnDocuments
    <2> QED BY <2>1, <2>2
  <1>8. NothingUnwatched'
    <2> SUFFICES ASSUME boots = 0, NEW d \in Docs, d[1] \notin watched
                 PROVE  events'[d] = <<>>
      BY <1>1 DEF NothingUnwatched
    <2>1. d \notin told
      BY <1>0, <1>1, OwnIsTold DEF Watchers!OwnWord
    <2> QED BY <1>m, <2>1 DEF DocumentsInv, NothingUnwatched
  <1> QED BY <1>3, <1>4, <1>5, <1>6, <1>7, <1>8 DEF DocumentsInv

-----------------------------------------------------------------------------
(* Documents: the thread's steps. *)

LEMMA ProvisionKeeps ==
    ASSUME DocumentsInv, NEW l \in Lanes, Watchers!Provision(l)
    PROVE  DocumentsInv'
  <1> USE CopyFacts
  <1>1. /\ UNCHANGED <<file, sweep, misread, events, touched, boots>>
        /\ sweep = Watchers!NoSweep
        /\ lane' = [lane EXCEPT ![l] = "up"] /\ depth' = [depth EXCEPT ![l] = 1]
    BY DEF Watchers!Provision, Watchers!Copy
  <1>2. CASE l \in watched
    <2>1. UNCHANGED <<watched, watching, alive, notified, armed, known>>
      BY <1>2 DEF Watchers!Provision, Watchers!handles
    <2>2. Watchers!TypeOK' /\ boots' \in Nat
      BY <1>1, <2>1 DEF DocumentsInv, Watchers!TypeOK, Watchers!Dir
    <2>3. SweepOK' /\ WatchedOnly' /\ SeenByList'
      BY <1>1, <2>1 DEF DocumentsInv, SweepOK, WatchedOnly, SeenByList
    <2> QED BY <1>1, <2>1, <2>2, <2>3, MemoryKept DEF DocumentsInv
  <1>3. CASE l \notin watched
    <2> DEFINE blank == [d \in Docs |-> Watchers!Nothing]
    <2>1. /\ watched' = watched \cup {l}
          /\ watching' = [watching EXCEPT ![l] = 0]
          /\ alive' = [alive EXCEPT ![l] = FALSE]
          /\ notified' = [notified EXCEPT ![l] = FALSE]
          /\ armed' = [armed EXCEPT ![l] = TRUE]
          /\ known' = [known EXCEPT ![l] = blank]
      BY <1>3 DEF Watchers!Provision, Watchers!Started, Docs
    <2>2. blank \in [Docs -> Told] /\ \A d \in Docs : blank[d] = Watchers!Nothing
      BY DEF Told
    <2> HIDE DEF blank
    <2>3. Watchers!TypeOK' /\ boots' \in Nat
      <3> USE DEF DocumentsInv, Watchers!TypeOK
      <3>1. known' \in [Watchers!Copies -> [Docs -> Told]]
        BY <2>1, <2>2 DEF Told, Docs
      <3>2. /\ watching' \in [Watchers!Copies -> 0..Watchers!Dir]
            /\ depth' \in [Watchers!Copies -> 0..Watchers!Dir]
        BY <1>1, <2>1 DEF Watchers!Dir
      <3> QED BY <1>1, <2>1, <3>1, <3>2 DEF Told, Docs
    <2>4. SweepOK' /\ WatchedOnly' /\ SeenByList'
      BY <1>1, <2>1
      DEF DocumentsInv, Watchers!TypeOK, Watchers!NoSweep, SweepOK, WatchedOnly, SeenByList
    <2>5. \A b \in Watchers!Copies : known'[b] = IF b = l THEN blank ELSE known[b]
      BY <2>1 DEF DocumentsInv, Watchers!TypeOK
    <2>6. Remembered'
      <3> SUFFICES ASSUME NEW d \in Docs, Watchers!OwnWord(d)
                   PROVE  known'[d[1]][d] = Watchers!Announced(d)'
        BY <1>1 DEF Remembered, Watchers!OwnWord
      <3>1. Watchers!Announced(d)' = Watchers!Announced(d)
        BY <1>1 DEF Watchers!Announced
      <3>2. CASE d[1] = l
        <4>1. events[d] = <<>>
          BY <1>3, <3>2 DEF DocumentsInv, NothingUnwatched, Watchers!OwnWord
        <4> QED BY <2>2, <2>5, <3>1, <3>2, <4>1 DEF Watchers!Announced
      <3>3. CASE d[1] # l
        BY <2>5, <3>1, <3>3 DEF DocumentsInv, Remembered
      <3> QED BY <3>2, <3>3
    <2>7. OwnDocuments'
      BY <1>1, <2>2, <2>5 DEF DocumentsInv, OwnDocuments
    <2>8. NothingUnwatched'
      BY <1>1, <2>1 DEF DocumentsInv, NothingUnwatched
    <2> QED BY <2>3, <2>4, <2>6, <2>7, <2>8 DEF DocumentsInv
  <1> QED BY <1>2, <1>3

LEMMA AnnouncedType ==
    ASSUME Watchers!TypeOK, NEW d \in Docs
    PROVE  Watchers!Announced(d) \in Told
  <1>1. events[d] \in Seq(Told)
    BY DEF Watchers!TypeOK, Told, Docs
  <1>2. CASE events[d] = <<>>
    BY <1>2 DEF Watchers!Announced, Told
  <1>3. CASE events[d] # <<>>
    BY <1>1, <1>3 DEF Watchers!Announced
  <1> QED BY <1>2, <1>3

\* Restart: the thread's own watcher is given what the log says of every document.
LEMMA DocumentsRestartKeeps ==
    ASSUME DocumentsInv, Watchers!Restart
    PROVE  DocumentsInv'
  <1> USE CopyFacts
  <1> DEFINE blank == [d \in Docs |-> Watchers!Nothing]
             said  == Watchers!PublishedArtifacts
  <1>1. /\ boots' = boots + 1 /\ watched' = {Shared} /\ sweep' = Watchers!NoSweep
        /\ lane' = [l \in Lanes |-> IF lane[l] = "none" THEN "none" ELSE "left"]
        /\ watching' = [c \in Watchers!Copies |-> 0]
        /\ alive' = [c \in Watchers!Copies |-> FALSE]
        /\ notified' = [c \in Watchers!Copies |-> FALSE]
        /\ armed' = [c \in Watchers!Copies |-> c = Shared]
        /\ known' = [c \in Watchers!Copies |-> IF c = Shared THEN said ELSE blank]
        /\ misread' = {}
        /\ UNCHANGED <<depth, file, events, touched>>
    BY DEF Watchers!Restart, Docs
  <1>2. /\ blank \in [Docs -> Told] /\ \A d \in Docs : blank[d] = Watchers!Nothing
        /\ \A d \in Docs : said[d] = Watchers!Announced(d)
    BY DEF Told, Watchers!PublishedArtifacts, Docs
  <1>3. said \in [Docs -> Told]
    BY AnnouncedType DEF DocumentsInv, Watchers!PublishedArtifacts, Docs
  <1>4. boots' \in Nat /\ boots' > 0
    BY <1>1 DEF DocumentsInv
  <1> HIDE DEF blank, said
  <1>5. Watchers!TypeOK'
    <2> USE DEF DocumentsInv, Watchers!TypeOK
    <2>1. known' \in [Watchers!Copies -> [Docs -> Told]]
      BY <1>1, <1>2, <1>3
    <2>2. watching' \in [Watchers!Copies -> 0..Watchers!Dir]
      BY <1>1 DEF Watchers!Dir
    <2> QED BY <1>1, <2>1, <2>2 DEF Told, Docs
  <1>6. SweepOK' /\ WatchedOnly' /\ SeenByList'
    BY <1>1 DEF SweepOK, WatchedOnly, SeenByList, Watchers!NoSweep
  <1>7. Remembered'
    <2> SUFFICES ASSUME NEW d \in Docs, d[1] = Shared
                 PROVE  known'[d[1]][d] = Watchers!Announced(d)'
      BY <1>4 DEF Remembered, Watchers!OwnWord
    <2> QED BY <1>1, <1>2 DEF Watchers!Announced
  <1>8. OwnDocuments'
    BY <1>1, <1>2, <1>4 DEF OwnDocuments
  <1>9. NothingUnwatched'
    BY <1>4 DEF NothingUnwatched
  <1> QED BY <1>4, <1>5, <1>6, <1>7, <1>8, <1>9 DEF DocumentsInv

LEMMA DocumentsNext == DocumentsInv /\ Watchers!Next => DocumentsInv'
  <1> SUFFICES ASSUME DocumentsInv, Watchers!Next PROVE DocumentsInv'
    OBVIOUS
  <1>1. ASSUME NEW d \in Docs, Watchers!Write(d) PROVE DocumentsInv'
    BY <1>1, WriteKeeps
  <1>2. ASSUME NEW c \in Watchers!Copies, Watchers!Make(c) \/ Watchers!Remove(c)
        PROVE  DocumentsInv'
    BY <1>2, MakeKeeps, RemoveKeeps
  <1>3. ASSUME NEW l \in Lanes, Watchers!Provision(l) \/ Watchers!Drop(l)
        PROVE  DocumentsInv'
    BY <1>3, ProvisionKeeps, DropKeeps
  <1>4. ASSUME Watchers!Restart PROVE DocumentsInv'
    BY <1>4, DocumentsRestartKeeps
  <1>5. ASSUME NEW c \in Watchers!Copies, Watchers!Loop(c) PROVE DocumentsInv'
    BY <1>5, NotifiedKeeps, FireKeeps, AttachKeeps, ListKeeps, PublishKeeps DEF Watchers!Loop
  <1> QED BY <1>1, <1>2, <1>3, <1>4, <1>5 DEF Watchers!Next, Watchers!Outside, Docs

\* Only a sweep that publishes writes to the log, and it tells news.
LEMMA NewsOnly ==
    ASSUME DocumentsInv, Watchers!Next, events' # events
    PROVE  Watchers!NoEcho /\ Watchers!OnlyGoneIsRetired
  <1>1. PICK c \in Watchers!Copies : Watchers!Publish(c)
    <2>1. ASSUME NEW d \in Watchers!Documents, Watchers!Write(d) PROVE events' = events
      BY <2>1 DEF Watchers!Write
    <2>2. ASSUME NEW c \in Watchers!Copies, Watchers!Make(c) \/ Watchers!Remove(c)
          PROVE  events' = events
      BY <2>2 DEF Watchers!Make, Watchers!Remove
    <2>3. ASSUME NEW l \in Lanes, Watchers!Provision(l) \/ Watchers!Drop(l)
          PROVE  events' = events
      BY <2>3 DEF Watchers!Provision, Watchers!Drop
    <2>4. ASSUME Watchers!Restart PROVE events' = events
      BY <2>4 DEF Watchers!Restart
    <2>5. ASSUME NEW c \in Watchers!Copies,
                 Watchers!Notified(c) \/ Watchers!Fire(c) \/ Watchers!Attach(c) \/ Watchers!List(c)
          PROVE  events' = events
      BY <2>5 DEF Watchers!Notified, Watchers!Fire, Watchers!Attach, Watchers!List
    <2> QED BY <2>1, <2>2, <2>3, <2>4, <2>5 DEF Watchers!Next, Watchers!Outside, Watchers!Loop
  <1>2. PICK told : Published(c, told)
    BY <1>1, PublishTells
  <1>3. ASSUME NEW d \in Docs, events'[d] # events[d], Watchers!OwnWord(d)
        PROVE  /\ events'[d][Len(events'[d])] # Watchers!Announced(d)
               /\ events'[d][Len(events'[d])] = Watchers!Nothing =>
                     Watchers!OnDisk(d) = Watchers!Nothing \/ d \in touched
    <2>1. d \in told
      BY <1>2, <1>3 DEF Published
    <2>2. d[1] = c
      BY <1>2, <1>3, <2>1, OwnIsTold
    <2>3. /\ events'[d] = Append(events[d], known'[c][d])
          /\ events[d] \in Seq(Told) /\ known'[c][d] \in Told
          /\ known'[c][d] # known[c][d]
          /\ known'[c][d] = Watchers!Nothing =>
                Watchers!OnDisk(d) = Watchers!Nothing \/ d \in touched
      BY <1>2, <2>1, <2>2 DEF Published, DocumentsInv, Watchers!TypeOK, Told, Docs
    <2>4. events'[d][Len(events'[d])] = known'[c][d]
      BY <2>3, LastAppended
    <2>5. known[c][d] = Watchers!Announced(d)
      BY <1>3, <2>2 DEF DocumentsInv, Remembered
    <2> QED BY <2>3, <2>4, <2>5
  <1> QED BY <1>3 DEF Watchers!NoEcho, Watchers!OnlyGoneIsRetired, Watchers!Event, Docs

-----------------------------------------------------------------------------
(* The theorems. *)

HistoryInv == SessionsInv /\ DocumentsInv

LEMMA HistoryInvInductive == HistorySpec => []HistoryInv
  <1>1. HistoryInit => HistoryInv
    BY SessionsInit, DocumentsInit DEF HistoryInit, HistoryInv
  <1>2. HistoryInv /\ [SessionStep \/ DocumentStep \/ WorkStep]_History => HistoryInv'
    <2> SUFFICES ASSUME HistoryInv, [SessionStep \/ DocumentStep \/ WorkStep]_History
                 PROVE  HistoryInv'
      OBVIOUS
    <2>1. ASSUME UNCHANGED documents PROVE DocumentsInv'
      <3>1. UNCHANGED <<depth, file, lane, watched, watching, alive, notified, armed, known, sweep,
                        misread, events, touched, boots>>
        BY <2>1 DEF documents
      <3> QED BY <3>1 DEF HistoryInv, DocumentsInv, Watchers!TypeOK, SweepOK, WatchedOnly,
                Remembered, Watchers!OwnWord, Watchers!Announced, OwnDocuments,
                NothingUnwatched, SeenByList
    <2>2. ASSUME UNCHANGED vars PROVE SessionsInv'
      BY <2>2, SessionsNext DEF HistoryInv
    <2>3. CASE SessionStep
      BY <2>1, <2>3, SessionsNext DEF SessionStep, HistoryInv
    <2>4. CASE DocumentStep
      BY <2>2, <2>4, DocumentsNext DEF DocumentStep, HistoryInv
    <2>5. CASE WorkStep \/ UNCHANGED History
      BY <2>1, <2>2, <2>5 DEF WorkStep, History, HistoryInv
    <2> QED BY <2>3, <2>4, <2>5
  <1> QED BY <1>1, <1>2, PTL DEF HistorySpec

\* The values of sessions and watchers are of their kind.
THEOREM TypeCorrect == HistorySpec => [](TypeOK /\ Watchers!TypeOK)
  <1>1. HistoryInv => TypeOK /\ Watchers!TypeOK
    BY DEF HistoryInv, SessionsInv, DocumentsInv
  <1> QED BY <1>1, HistoryInvInductive, PTL

\* Of all the log holds up to the watermark, others' events and the agent's own, a
\* native session lacks only what others recorded while its agent's turn was in
\* flight, what belonged to a dispatch that failed, and what the agent produced
\* before its session was dropped by a change of lane mode or, found stale, lost
\* its rebuild to a restart.  A replay block repeats nothing the session has; a
\* session rebuilt after a stale resume has the whole log (orchestrator.ts send,
\* setParallel, #resetStaleNativeSession, setWatermark).
THEOREM SessionsMissNothingElse == HistorySpec => []ReplayIsExact
  <1>1. HistoryInv => ReplayIsExact
    BY SessionsExact DEF HistoryInv
  <1> QED BY <1>1, HistoryInvInductive, PTL

\* No event of a document repeats the one before it, and a document is retired
\* only while its file is gone, empty, or was written in the middle of the sweep
\* (artifact-watcher.ts #sweep).
THEOREM LogTellsNews == HistorySpec => EventsAreNews
  <1>1. HistoryInv /\ [SessionStep \/ DocumentStep \/ WorkStep]_History
           => [Watchers!NoEcho /\ Watchers!OnlyGoneIsRetired]_events
    <2> SUFFICES ASSUME HistoryInv, [SessionStep \/ DocumentStep \/ WorkStep]_History,
                        events' # events
                 PROVE  Watchers!NoEcho /\ Watchers!OnlyGoneIsRetired
      OBVIOUS
    <2>1. Watchers!Next
      BY DEF SessionStep, DocumentStep, WorkStep, History, documents
    <2> QED BY <2>1, NewsOnly DEF HistoryInv
  <1> QED BY <1>1, HistoryInvInductive, PTL DEF HistorySpec, EventsAreNews
===============================================================================
