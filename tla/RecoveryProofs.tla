----------------------------- MODULE RecoveryProofs -----------------------------
(***************************************************************************)
(* What bounded recovery promises, for any transitions, workers, guardrails *)
(* and number of calls in flight.  The log and #activeRuns are two records  *)
(* of one thing, the correction under way; the inductive invariant says how *)
(* far they agree: a call in flight has its correction in the log, and its  *)
(* entry in #activeRuns as long as no other call has taken one.             *)
(***************************************************************************)
EXTENDS Recovery, SequenceTheorems, FiniteSetTheorems, TLAPS

\* A call works for a transition on an attempt there has been; the correction
\* it has recorded was started on that attempt.
CallIsTrue(r) ==
    /\ req[r].pc # "idle" => req[r].t \in Transitions /\ req[r].att <= Attempt(req[r].t)
    /\ req[r].pc \in InFlightPCs \cup {"probing"} => req[r].a \in Agents
    /\ InFlight(r) => /\ req[r].k \in 1..Len(corrections[req[r].t])
                      /\ corrections[req[r].t][req[r].k] = req[r].att

Calls == \A r \in Requests : CallIsTrue(r)

\* Each entry in #activeRuns, unless its cycle is cancelled, belongs to a call
\* in flight, and until one is taken each call in flight has its own.
Reservations ==
    /\ \A q, r \in Requests : q # r /\ InFlight(q) /\ InFlight(r) => Run(q) # Run(r)
    /\ \A a \in Agents : active[a] \in Runs /\ cycle[active[a][1]] # "cancelled" =>
          \E r \in Requests : InFlight(r) /\ req[r].a = a /\ Run(r) = active[a]
    /\ ~lost => \A r \in Requests : InFlight(r) => active[req[r].a] = Run(r)
    /\ ~lost => \A q, r \in Requests :
                   q # r /\ InFlight(q) /\ InFlight(r) => req[q].t # req[r].t

\* A cycle belongs to a refusal and says nothing before there is one; what it
\* says is about the latest attempt, unless a typed action was made on that.
Sayings ==
    \A t \in Transitions :
       /\ cycle[t] = "none" => ~said[t].shown
       /\ cycle[t] # "none" => evals[t] # <<>>
       /\ said[t].shown /\ said[t].why \in Escalations \cup {"human"} /\ acted[t] < Attempt(t) =>
             said[t].att = Attempt(t)

\* A probe that outlives the cancellation of its cycle finds the action.
Cancellations ==
    \A r \in Requests :
       req[r].pc = "probing" /\ cycle[req[r].t] = "cancelled" => req[r].att <= acted[req[r].t]

\* A probe is a run that may still be spent.
Probing(t) == {r \in Requests : req[r].pc = "probing" /\ req[r].t = t}

Budget ==
    \A t \in Transitions :
       Len(corrections[t]) + Cardinality(Probing(t)) <= MaxRuns(t) + Cardinality(Requests) - 1

\* A correction over the budget is on the attempt the last run was spent on, and a
\* probe finds a run left, or that one spent on the attempt it holds.
Spent ==
    \A t \in Transitions :
       /\ \A k \in MaxRuns(t) + 1 .. Len(corrections[t]) :
             MaxRuns(t) > 0 /\ corrections[t][k] = corrections[t][MaxRuns(t)]
       /\ \A r \in Probing(t) :
             req[r].att = Len(evals[t]) /\ Len(corrections[t]) >= MaxRuns(t) =>
                MaxRuns(t) > 0 /\ corrections[t][MaxRuns(t)] = req[r].att

FunctionTypes ==
    /\ corrections \in [Transitions -> Seq(Nat)]
    /\ acted \in [Transitions -> Nat]

IInv ==
    /\ TypeOK /\ FunctionTypes
    /\ Calls /\ CorrectionsJudgeTheirRefusal
    /\ Reservations /\ Sayings /\ Cancellations /\ Budget /\ Spent
-------------------------------------------------------------------------------
(* What the steps do to a call and to a cycle. *)

ReqType == [pc: PCs, t: Transitions \cup {NoRun}, a: Agents \cup {NoRun},
            att: Nat, k: Nat, saw: BOOLEAN]

SayType == [why: Escalations \cup Waits \cup {"nothing"}, held: BOOLEAN, att: Nat, shown: BOOLEAN]

LEMMA Moves ==
  ASSUME req \in [Requests -> ReqType], NEW r \in Requests, NEW l \in PCs, Goto(r, l)
  PROVE  /\ req' \in [Requests -> ReqType]
         /\ \A q \in Requests \ {r} : req'[q] = req[q]
         /\ req'[r].pc = l /\ req'[r].t = req[r].t /\ req'[r].a = req[r].a
         /\ req'[r].att = req[r].att /\ req'[r].k = req[r].k
  BY DEF Goto, ReqType

LEMMA Ends ==
  ASSUME req \in [Requests -> ReqType], NEW r \in Requests, Done(r)
  PROVE  /\ req' \in [Requests -> ReqType]
         /\ \A q \in Requests \ {r} : req'[q] = req[q]
         /\ req'[r].pc = "idle"
  <1>1. Idle \in ReqType /\ Idle.pc = "idle"
    BY DEF Idle, ReqType, PCs
  <1> QED BY <1>1 DEF Done

\* A step that records something of what a cycle waits for.
LEMMA Said ==
  ASSUME said \in [Transitions -> SayType], NEW t \in Transitions,
         NEW why \in Escalations \cup Waits, NEW held \in BOOLEAN, NEW att \in Nat,
         Says(t, why, held, att)
  PROVE  /\ said' \in [Transitions -> SayType]
         /\ \A u \in Transitions \ {t} : said'[u] = said[u]
         /\ said'[t].why = why /\ said'[t].att = att
  BY DEF Says, SayType

LEMMA Unsaid ==
  ASSUME said \in [Transitions -> SayType], NEW t \in Transitions, Unsays(t)
  PROVE  /\ said' \in [Transitions -> SayType]
         /\ \A u \in Transitions \ {t} : said'[u] = said[u]
         /\ ~said'[t].shown
  BY DEF Unsays, SayType, Nothing

LEMMA Outdated ==
  ASSUME said \in [Transitions -> SayType], NEW t \in Transitions, Outdates(t)
  PROVE  /\ said' \in [Transitions -> SayType]
         /\ \A u \in Transitions \ {t} : said'[u] = said[u]
         /\ ~said'[t].shown
  <1>1. said[t] \in SayType
    OBVIOUS
  <1>2. said'[t] = [said[t] EXCEPT !.shown = FALSE, !.att = 0]
    BY DEF Outdates
  <1>3. [said[t] EXCEPT !.shown = FALSE, !.att = 0] \in SayType /\ ~[said[t] EXCEPT !.shown = FALSE, !.att = 0].shown
    BY <1>1 DEF SayType
  <1>4. \A u \in Transitions \ {t} : said'[u] = said[u]
    BY DEF Outdates
  <1>5. said' \in [Transitions -> SayType]
    BY <1>1, <1>2, <1>3 DEF Outdates, SayType
  <1> QED BY <1>2, <1>3, <1>4, <1>5

LEMMA Resaid ==
  ASSUME said \in [Transitions -> SayType], NEW t \in Transitions, Resays(t)
  PROVE  /\ said' \in [Transitions -> SayType]
         /\ \A u \in Transitions \ {t} : said'[u] = said[u]
  BY DEF Resays, SayType

\* The attempts of a transition only grow, by one that evaluates a run.
LEMMA AttemptRecorded ==
  ASSUME evals \in [Transitions -> Seq(Runs \cup {NoRun})], verdict \in [Transitions -> Verdicts],
         NEW t \in Transitions, NEW run \in Runs \cup {NoRun}, Record(t, run)
  PROVE  /\ evals' \in [Transitions -> Seq(Runs \cup {NoRun})] /\ verdict' \in [Transitions -> Verdicts]
         /\ \A u \in Transitions \ {t} : evals'[u] = evals[u]
         /\ evals'[t] = Append(evals[t], run)
         /\ Len(evals'[t]) = Len(evals[t]) + 1
         /\ evals'[t][Len(evals[t]) + 1] = run
         /\ \A i \in 1..Len(evals[t]) : evals'[t][i] = evals[t][i]
         /\ fresh' = {}
  <1>1. /\ evals' = [evals EXCEPT ![t] = Append(evals[t], run)]
        /\ \E v \in Verdicts : verdict' = [verdict EXCEPT ![t] = v]
        /\ fresh' = {}
    BY DEF Record, LogGrows
  <1>2. evals[t] \in Seq(Runs \cup {NoRun})
    OBVIOUS
  <1>3. Append(evals[t], run) \in Seq(Runs \cup {NoRun})
    BY <1>2
  <1>4. evals'[t] = Append(evals[t], run)
    BY <1>1
  <1>5. /\ Len(evals'[t]) = Len(evals[t]) + 1
        /\ evals'[t][Len(evals[t]) + 1] = run
        /\ \A i \in 1..Len(evals[t]) : evals'[t][i] = evals[t][i]
    BY <1>2, <1>4
  <1> QED BY <1>1, <1>3, <1>4, <1>5

\* The budget is a number, whatever the guardrails.
LEMMA MaxRunsIsNat ==
  ASSUME NEW t \in Transitions
  PROVE  MaxRuns(t) \in Nat
  <1>1. CASE Relevant(t) = {}
    BY <1>1 DEF MaxRuns
  <1>2. CASE Relevant(t) # {}
    <2> DEFINE S == {g.maxRuns : g \in Relevant(t)}
    <2>1. S \in SUBSET (0..5) /\ S # {}
      BY <1>2, GuardrailsAssumption DEF Relevant
    <2> HIDE DEF S
    <2>2. \E x \in S : \A y \in S : x <= y
      <3>1. PICK z \in S : z \in 0..5
        BY <2>1
      <3>2. z \in {0, 1, 2, 3, 4, 5}
        BY <3>1
      <3>3. 0 \in S \/ 1 \in S \/ 2 \in S \/ 3 \in S \/ 4 \in S \/ 5 \in S
        BY <3>1, <3>2
      <3>4. \A y \in S : y \in 0..5
        BY <2>1
      <3>5. CASE 0 \in S
        BY <3>4, <3>5
      <3>6. CASE 0 \notin S /\ 1 \in S
        BY <3>4, <3>6
      <3>7. CASE 0 \notin S /\ 1 \notin S /\ 2 \in S
        BY <3>4, <3>7
      <3>8. CASE 0 \notin S /\ 1 \notin S /\ 2 \notin S /\ 3 \in S
        BY <3>4, <3>8
      <3>9. CASE 0 \notin S /\ 1 \notin S /\ 2 \notin S /\ 3 \notin S /\ 4 \in S
        BY <3>4, <3>9
      <3>10. CASE S = {5}
        BY <3>4, <3>10
      <3> QED BY <3>3, <3>4, <3>5, <3>6, <3>7, <3>8, <3>9, <3>10
    <2>3. Min(S) \in S
      BY <2>2 DEF Min
    <2>4. MaxRuns(t) = Min(S)
      BY <1>2 DEF MaxRuns, S
    <2>5. Min(S) \in 0..5
      BY <2>1, <2>3
    <2> QED BY <2>4, <2>5
  <1> QED BY <1>1, <1>2

\* startRecovery's synchronous part: the call ends or goes on to ask whether the
\* worker is available, which it does for the latest attempt of a cycle that is
\* not cancelled, with the budget not yet spent.
LEMMA Begun ==
  ASSUME TypeOK, NEW r \in Requests, NEW t \in Transitions, NEW a \in Agents, NEW att \in Nat,
         NEW reserved, Begin(r, t, a, att, reserved), req \in [Requests -> ReqType], Attempt(t) > 0
  PROVE  /\ UNCHANGED <<evals, verdict, corrections, acted>>
         /\ req' \in [Requests -> ReqType]
         /\ \A q \in Requests \ {r} : req'[q] = req[q]
         /\ \/ req'[r].pc = "idle"
            \/ /\ req'[r].pc = "probing" /\ req'[r].t = t /\ req'[r].a = a /\ req'[r].att = att
               /\ Attempt(t) = att /\ cycle[t] # "cancelled" /\ Len(corrections[t]) < MaxRuns(t)
         /\ cycle' \in [Transitions -> {"none", "open", "cancelled"}]
         /\ \A u \in Transitions : cycle'[u] # cycle[u] => u = t /\ cycle[t] = "none" /\ cycle'[t] = "open"
         /\ said' \in [Transitions -> SayType]
         /\ \/ said' = said
            \/ /\ \A u \in Transitions \ {t} : said'[u] = said[u]
               /\ cycle'[t] = "open" /\ said'[t].att = Attempt(t)
         /\ fresh' \subseteq Requests
  <1>1. said \in [Transitions -> SayType] /\ Attempt(t) \in Nat
    BY DEF TypeOK, SayType, Attempt
  <1>2. CASE /\ Attempt(t) # att \/ cycle[t] = "cancelled" \/ LiveIn(reserved, t)
             /\ Done(r) /\ UNCHANGED <<cycle, said, fresh>>
    BY <1>1, <1>2, Ends DEF Begin, TypeOK, attempts
  <1>3. CASE /\ Attempt(t) = att /\ cycle[t] # "cancelled"
             /\ cycle' = [cycle EXCEPT ![t] = "open"]
             /\ Reports(t) /\ Done(r)
    <2>1. /\ cycle' \in [Transitions -> {"none", "open", "cancelled"}] /\ cycle'[t] = "open"
          /\ \A u \in Transitions : cycle'[u] # cycle[u] => u = t /\ cycle[t] = "none"
      BY <1>3 DEF TypeOK
    <2>2. UNCHANGED <<evals, verdict, corrections, acted>>
      BY DEF Begin, attempts
    <2>3. ASSUME NEW why \in Escalations, EscalateRecovery(t, why)
          PROVE  /\ said' \in [Transitions -> SayType] /\ fresh' \subseteq Requests
                 /\ \/ said' = said
                    \/ /\ \A u \in Transitions \ {t} : said'[u] = said[u]
                       /\ said'[t].att = Attempt(t)
      <3>1. CASE UNCHANGED <<said, fresh>>
        BY <1>1, <3>1 DEF TypeOK
      <3>2. CASE LogGrows /\ \E held \in BOOLEAN : Says(t, why, held, Attempt(t))
        BY <1>1, <3>2, Said DEF LogGrows
      <3> QED BY <2>3, <3>1, <3>2 DEF EscalateRecovery
    <2>4. ASSUME WaitForRecovery(t)
          PROVE  /\ said' \in [Transitions -> SayType] /\ fresh' \subseteq Requests
                 /\ \/ said' = said
                    \/ /\ \A u \in Transitions \ {t} : said'[u] = said[u]
                       /\ said'[t].att = Attempt(t)
      <3>1. CASE UNCHANGED <<said, fresh>>
        BY <1>1, <3>1 DEF TypeOK
      <3>2. CASE LogGrows /\ Says(t, "human", FALSE, Attempt(t))
        BY <1>1, <3>2, Said DEF LogGrows, Waits
      <3> QED BY <2>4, <3>1, <3>2 DEF WaitForRecovery
    <2>5. /\ said' \in [Transitions -> SayType] /\ fresh' \subseteq Requests
          /\ \/ said' = said
             \/ /\ \A u \in Transitions \ {t} : said'[u] = said[u]
                /\ said'[t].att = Attempt(t)
      BY <1>3, <2>3, <2>4 DEF Reports, Escalations
    <2> QED BY <1>3, <2>1, <2>2, <2>5, Ends
  <1>4. CASE /\ Attempt(t) = att /\ cycle[t] # "cancelled"
             /\ cycle' = [cycle EXCEPT ![t] = "open"]
             /\ Correctable(t) \/ verdict[t] = "passed"
             /\ IF Correctable(t)
                THEN req' = [req EXCEPT ![r] = [pc |-> "probing", t |-> t, a |-> a, att |-> att,
                                                k |-> 0, saw |-> Shown(t).why = "unavailable"]]
                ELSE Done(r)
             /\ IF cycle[t] = "open" THEN UNCHANGED fresh ELSE LogGrows
             /\ UNCHANGED said
    <2>1. /\ cycle' \in [Transitions -> {"none", "open", "cancelled"}] /\ cycle'[t] = "open"
          /\ \A u \in Transitions : cycle'[u] # cycle[u] => u = t /\ cycle[t] = "none"
      BY <1>4 DEF TypeOK
    <2>2. UNCHANGED <<evals, verdict, corrections, acted>>
      BY DEF Begin, attempts
    <2>3. fresh' \subseteq Requests /\ said' \in [Transitions -> SayType]
      BY <1>1, <1>4 DEF TypeOK, LogGrows
    <2>4. CASE ~Correctable(t)
      BY <1>4, <2>1, <2>2, <2>3, <2>4, Ends
    <2>5. CASE Correctable(t)
      <3>1. [pc |-> "probing", t |-> t, a |-> a, att |-> att,
             k |-> 0, saw |-> Shown(t).why = "unavailable"] \in ReqType
        BY DEF ReqType, PCs
      <3>2. ~(Len(corrections[t]) >= MaxRuns(t))
        BY <2>5 DEF Correctable, Exhausted
      <3>3. MaxRuns(t) \in Nat /\ Len(corrections[t]) \in Nat
        BY MaxRunsIsNat DEF TypeOK
      <3> QED BY <1>4, <2>1, <2>2, <2>3, <2>5, <3>1, <3>2, <3>3
    <2> QED BY <2>4, <2>5
  <1> QED BY <1>2, <1>3, <1>4 DEF Begin
-------------------------------------------------------------------------------
(* What each step does to the log, the calls and #activeRuns, point by point. *)

\* An attempt of t is there that evaluates run.
Grows(t, run) ==
    /\ \A u \in Transitions \ {t} : evals'[u] = evals[u]
    /\ Len(evals'[t]) = Len(evals[t]) + 1
    /\ evals'[t][Len(evals[t]) + 1] = run
    /\ \A i \in 1..Len(evals[t]) : evals'[t][i] = evals[t][i]

\* A correction of t is there, started on the latest attempt.
Corrects(t) ==
    /\ \A u \in Transitions \ {t} : corrections'[u] = corrections[u]
    /\ Len(corrections'[t]) = Len(corrections[t]) + 1
    /\ corrections'[t][Len(corrections[t]) + 1] = Len(evals[t])
    /\ \A i \in 1..Len(corrections[t]) : corrections'[t][i] = corrections[t][i]

OnlyCall(r) == \A q \in Requests \ {r} : req'[q] = req[q]
Leaves(r)   == OnlyCall(r) /\ req'[r].pc = "idle"

\* The correction of r goes on.
Advances(r) ==
    /\ OnlyCall(r) /\ req[r].pc \in InFlightPCs /\ req'[r].pc \in InFlightPCs
    /\ req'[r].t = req[r].t /\ req'[r].a = req[r].a
    /\ req'[r].att = req[r].att /\ req'[r].k = req[r].k

OnlySaid(t) == \A u \in Transitions \ {t} : said'[u] = said[u]

\* The entry of a is run, set by r; it is lost if another call in flight had it.
Sets(r, a, run) ==
    /\ active'[a] = run
    /\ \A b \in Agents \ {a} : active'[b] = active[b]
    /\ lost' = (lost \/ \E q \in Requests \ {r} :
                   InFlight(q) /\ req[q].a = a /\ active[a] = Run(q) /\ run # Run(q))

\* The entry goes if it is that of r.
Releases(r) ==
    /\ active'[req[r].a] = IF active[req[r].a] = Run(r) THEN NoRun ELSE active[req[r].a]
    /\ \A b \in Agents \ {req[r].a} : active'[b] = active[b]
    /\ lost' = lost

\* The synchronous part of startRecovery.
Begins(r, t, a, att) ==
    /\ UNCHANGED <<evals, corrections, acted>>
    /\ OnlyCall(r)
    /\ \/ req'[r].pc = "idle"
       \/ /\ req'[r].pc = "probing" /\ req'[r].t = t /\ req'[r].a = a /\ req'[r].att = att
          /\ Len(evals[t]) = att /\ cycle[t] # "cancelled" /\ Len(corrections[t]) < MaxRuns(t)
    /\ \A u \in Transitions : cycle'[u] # cycle[u] => u = t /\ cycle[t] = "none" /\ cycle'[t] = "open"
    /\ cycle' # cycle => Len(evals[t]) > 0
    /\ said' = said \/ (OnlySaid(t) /\ cycle'[t] = "open" /\ said'[t].att = Len(evals[t]))

Log == <<evals, cycle, corrections, acted, said>>

LEMMA Numbers ==
  ASSUME TypeOK, FunctionTypes
  PROVE  /\ \A t \in Transitions : /\ Len(evals[t]) \in Nat /\ Len(corrections[t]) \in Nat
                                   /\ acted[t] \in Nat /\ acted[t] <= Len(evals[t])
         /\ \A r \in Requests : req[r].att \in Nat /\ req[r].k \in Nat
  BY DEF TypeOK, FunctionTypes, Attempt

LEMMA Numbers0 ==
  ASSUME TypeOK
  PROVE  \A t \in Transitions : Len(evals[t]) \in Nat
  BY DEF TypeOK

LEMMA Parts ==
  ASSUME TypeOK
  PROVE  /\ req \in [Requests -> ReqType] /\ said \in [Transitions -> SayType]
         /\ evals \in [Transitions -> Seq(Runs \cup {NoRun})] /\ verdict \in [Transitions -> Verdicts]
         /\ active \in [Agents -> Recorded \cup {NoRun, UserRun}]
  BY DEF TypeOK, ReqType, SayType

LEMMA Set ==
  ASSUME active \in [Agents -> Recorded \cup {NoRun, UserRun}], NEW r, NEW a \in Agents, NEW run,
         SetActive(r, a, run)
  PROVE  Sets(r, a, run)
  BY DEF SetActive, Sets

LEMMA Released ==
  ASSUME active \in [Agents -> Recorded \cup {NoRun, UserRun}], NEW r \in Requests, req[r].a \in Agents,
         Release(r)
  PROVE  Releases(r)
  BY DEF Release, Releases

LEMMA StartDoes ==
  ASSUME TypeOK, NEW r \in Requests, NEW t \in Transitions, NEW a \in Agents, Start(r, t, a)
  PROVE  req[r].pc = "idle" /\ Begins(r, t, a, Len(evals[t])) /\ UNCHANGED <<active, lost>>
  <1>1. Attempt(t) \in Nat /\ Attempt(t) = Len(evals[t])
    BY DEF TypeOK, Attempt
  <1>2. req[r].pc = "idle" /\ Attempt(t) > 0 /\ Begin(r, t, a, Attempt(t), active)
        /\ UNCHANGED <<active, lost>>
    BY DEF Start
  <1>3. PICK reserved : reserved = active
    OBVIOUS
  <1>4. Begin(r, t, a, Attempt(t), reserved)
    BY <1>2, <1>3 DEF Begin, LiveIn
  <1> QED BY <1>1, <1>2, <1>4, Begun, Parts DEF Begins, OnlyCall, OnlySaid

LEMMA ProbeFailsDoes ==
  ASSUME TypeOK, Calls, NEW r \in Requests, ProbeFails(r)
  PROVE  /\ Leaves(r) /\ UNCHANGED <<evals, cycle, corrections, acted, active, lost>>
         /\ req[r].t \in Transitions /\ req[r].pc = "probing"
         /\ \/ said' = said
            \/ OnlySaid(req[r].t) /\ cycle[req[r].t] = "open" /\ said'[req[r].t].why = "unavailable"
  <1>1. /\ req[r].pc = "probing" /\ Done(r) /\ UNCHANGED <<evals, cycle, corrections, acted, active, lost>>
        /\ \/ said' = said
           \/ cycle[req[r].t] = "open" /\ Says(req[r].t, "unavailable", FALSE, req[r].att)
    BY DEF ProbeFails, attempts
  <1>2. req[r].t \in Transitions /\ req[r].att \in Nat /\ "unavailable" \in Escalations \cup Waits
    BY <1>1, Parts DEF Calls, CallIsTrue, ReqType, Waits
  <1>3. CASE said' = said
    BY <1>1, <1>2, <1>3, Ends, Parts DEF Leaves, OnlyCall
  <1>4. CASE cycle[req[r].t] = "open" /\ Says(req[r].t, "unavailable", FALSE, req[r].att)
    <2>1. OnlySaid(req[r].t) /\ said'[req[r].t].why = "unavailable"
      BY <1>2, <1>4, Said, Parts DEF OnlySaid
    <2> QED BY <1>1, <1>2, <1>4, <2>1, Ends, Parts DEF Leaves, OnlyCall
  <1> QED BY <1>1, <1>3, <1>4

\* The probe has succeeded and the correction is recorded, by a call that found
\* none under way, the attempt it holds still the latest, and no action on it.
Takes(r) ==
    LET t == req[r].t IN
    /\ ~Live(t) /\ Len(evals[t]) = req[r].att /\ acted[t] < req[r].att
    /\ Corrects(t) /\ OnlyCall(r)
    /\ req'[r].pc = "reserved" /\ req'[r].t = t /\ req'[r].a = req[r].a /\ req'[r].att = req[r].att
    /\ req'[r].k = Len(corrections[t]) + 1
    /\ OnlySaid(t) /\ ~said'[t].shown
    /\ Sets(r, req[r].a, <<t, Len(corrections[t]) + 1>>)
    /\ UNCHANGED <<evals, cycle, acted>>

LEMMA ProbeSucceedsDoes ==
  ASSUME TypeOK, FunctionTypes, Calls, NEW r \in Requests, ProbeSucceeds(r)
  PROVE  /\ req[r].t \in Transitions /\ req[r].a \in Agents /\ req[r].pc = "probing"
         /\ Takes(r) \/ (Leaves(r) /\ UNCHANGED <<Log, active, lost>>)
  <1> DEFINE t == req[r].t
             k == Len(corrections[t]) + 1
  <1>1. req[r].pc = "probing" /\ t \in Transitions /\ req[r].a \in Agents
    BY DEF ProbeSucceeds, Calls, CallIsTrue
  <1>2. CASE ~Rechecked(r)
    <2>1. Done(r) /\ UNCHANGED <<Log, active, lost>>
      BY <1>2 DEF ProbeSucceeds, Log
    <2> QED BY <1>1, <2>1, Ends, Parts DEF Leaves, OnlyCall
  <1>3. CASE Rechecked(r)
    <2>1. /\ Reserves(t) /\ SetActive(r, req[r].a, <<t, k>>) /\ UNCHANGED <<evals, cycle, acted>>
          /\ req' = [req EXCEPT ![r].pc = "reserved", ![r].k = k, ![r].saw = FALSE]
      BY <1>3 DEF ProbeSucceeds, NextIndex
    <2>2. ~Live(t) /\ Len(evals[t]) = req[r].att /\ acted[t] < req[r].att
      BY <1>3 DEF Rechecked, Attempt
    <2>3. Corrects(t)
      <3>1. corrections[t] \in Seq(Nat) /\ Len(evals[t]) \in Nat
        BY <1>1, Numbers DEF FunctionTypes
      <3>2. corrections' = [corrections EXCEPT ![t] = Append(corrections[t], Len(evals[t]))]
        BY <2>1 DEF Reserves, Attempt
      <3>3. corrections'[t] = Append(corrections[t], Len(evals[t]))
        BY <1>1, <3>2 DEF FunctionTypes
      <3>4. \A u \in Transitions \ {t} : corrections'[u] = corrections[u]
        BY <3>2 DEF FunctionTypes
      <3> HIDE DEF t
      <3> QED BY <3>1, <3>3, <3>4 DEF Corrects
    <2>4. OnlySaid(t) /\ ~said'[t].shown
      BY <1>1, <2>1, Unsaid, Parts DEF Reserves, OnlySaid
    <2>5. Sets(r, req[r].a, <<t, k>>)
      BY <1>1, <2>1, Set, Parts
    <2>6. /\ OnlyCall(r) /\ req'[r].pc = "reserved" /\ req'[r].k = k
          /\ req'[r].t = t /\ req'[r].a = req[r].a /\ req'[r].att = req[r].att
      <3>1. req \in [Requests -> ReqType] /\ k \in Nat
        BY <1>1, Numbers, Parts
      <3> HIDE DEF k
      <3> QED BY <2>1, <3>1 DEF OnlyCall, ReqType
    <2> QED BY <1>1, <2>1, <2>2, <2>3, <2>4, <2>5, <2>6 DEF Takes
  <1> QED BY <1>2, <1>3

LEMMA ClaimDoes ==
  ASSUME TypeOK, NEW r \in Requests, Claim(r)
  PROVE  Advances(r) /\ UNCHANGED <<Log, active, lost>>
  <1>1. "preparing" \in PCs /\ req[r].pc = "reserved"
    BY DEF PCs, InFlightPCs, Claim
  <1> QED BY <1>1, Moves, Parts DEF Claim, ledger, attempts, cycles, Log, Advances, OnlyCall,
     InFlightPCs

LEMMA DispatchDoes ==
  ASSUME TypeOK, Calls, NEW r \in Requests, Dispatch(r)
  PROVE  Advances(r) /\ req[r].a \in Agents /\ Sets(r, req[r].a, Run(r)) /\ UNCHANGED Log
  <1>1. "working" \in PCs /\ req[r].pc = "preparing"
    BY DEF PCs, InFlightPCs, Dispatch
  <1>2. req[r].a \in Agents
    BY <1>1 DEF Calls, CallIsTrue, InFlightPCs
  <1>3. Sets(r, req[r].a, Run(r))
    BY <1>2, Set, Parts DEF Dispatch
  <1> QED BY <1>1, <1>2, <1>3, Moves, Parts DEF Dispatch, ledger, attempts, cycles, Log, Advances,
     OnlyCall, InFlightPCs

LEMMA SendFailsDoes ==
  ASSUME TypeOK, Calls, NEW r \in Requests, SendFails(r)
  PROVE  Leaves(r) /\ req[r].pc \in InFlightPCs /\ req[r].a \in Agents /\ Sets(r, req[r].a, NoRun) /\ UNCHANGED Log
  <1>1. req[r].pc \in InFlightPCs
    BY DEF InFlightPCs, SendFails
  <1>2. req[r].a \in Agents
    BY <1>1 DEF Calls, CallIsTrue
  <1>3. Sets(r, req[r].a, NoRun)
    BY <1>2, Set, Parts DEF SendFails
  <1> QED BY <1>1, <1>2, <1>3, Ends, Parts DEF SendFails, ledger, attempts, cycles, Log, Leaves,
     OnlyCall

\* The end of the turn and the reading of the tree, unless the cycle has been
\* cancelled.
LEMMA TurnEndsDoes ==
  ASSUME TypeOK, NEW r \in Requests, TurnEnds(r) \/ Observed(r)
  PROVE  /\ UNCHANGED <<Log, active, lost>>
         /\ Advances(r) \/ (Leaves(r) /\ cycle[req[r].t] = "cancelled")
  <1>1. /\ req[r].pc \in InFlightPCs /\ {"observing", "evaluating"} \subseteq PCs \cap InFlightPCs
        /\ UNCHANGED <<Log, active, lost>>
    BY DEF PCs, InFlightPCs, TurnEnds, Observed, ledger, attempts, cycles, Log
  <1>2. CASE cycle[req[r].t] = "cancelled" /\ Done(r)
    BY <1>1, <1>2, Ends, Parts DEF Leaves, OnlyCall
  <1>3. CASE Goto(r, "observing") \/ Goto(r, "evaluating")
    BY <1>1, <1>3, Moves, Parts DEF Advances, OnlyCall
  <1> QED BY <1>1, <1>2, <1>3 DEF TurnEnds, Observed

LEMMA EvaluatesDoes ==
  ASSUME TypeOK, Calls, NEW r \in Requests, Evaluates(r)
  PROVE  /\ req[r].t \in Transitions /\ Advances(r) /\ Grows(req[r].t, Run(r))
         /\ Len(evals[req[r].t]) = req[r].att /\ cycle[req[r].t] # "cancelled"
         /\ OnlySaid(req[r].t) /\ ~said'[req[r].t].shown
         /\ UNCHANGED <<cycle, corrections, acted, active, lost>>
  <1> DEFINE t == req[r].t
  <1>1. /\ req[r].pc = "evaluating" /\ t \in Transitions
        /\ Len(evals[t]) = req[r].att /\ cycle[t] # "cancelled"
    BY DEF Evaluates, Admitted, Attempt, Calls, CallIsTrue
  <1>2. Run(r) \in Runs
    BY <1>1, Parts DEF Run, Runs, ReqType
  <1>3. Advances(r)
    BY <1>1, Moves, Parts DEF Evaluates, Advances, OnlyCall, PCs, InFlightPCs
  <1>4. Grows(t, Run(r))
    BY <1>1, <1>2, AttemptRecorded, Parts DEF Evaluates, Grows
  <1>5. OnlySaid(t) /\ ~said'[t].shown
    BY <1>1, Outdated, Parts DEF Evaluates, OnlySaid
  <1> QED BY <1>1, <1>3, <1>4, <1>5 DEF Evaluates

LEMMA EvaluationFailsDoes ==
  ASSUME TypeOK, Calls, NEW r \in Requests, EvaluationFails(r)
  PROVE  Leaves(r) /\ req[r].pc \in InFlightPCs /\ req[r].a \in Agents /\ Releases(r) /\ UNCHANGED Log
  <1>1. req[r].pc \in InFlightPCs /\ req[r].a \in Agents
    BY DEF EvaluationFails, Calls, CallIsTrue, InFlightPCs
  <1>2. Releases(r)
    BY <1>1, Released, Parts DEF EvaluationFails
  <1> QED BY <1>1, <1>2, Ends, Parts DEF EvaluationFails, ledger, attempts, cycles, Log, Leaves,
     OnlyCall

LEMMA ContinuesDoes ==
  ASSUME TypeOK, Calls, NEW r \in Requests, Continues(r)
  PROVE  /\ req[r].pc = "evaluated" /\ req[r].a \in Agents /\ req[r].t \in Transitions
         /\ Releases(r)
         /\ Begins(r, req[r].t, req[r].a, req[r].att + 1) \/ (Leaves(r) /\ UNCHANGED Log)
  <1>1. req[r].pc = "evaluated" /\ req[r].a \in Agents /\ req[r].t \in Transitions /\ req[r].att \in Nat
    BY Parts DEF Continues, Calls, CallIsTrue, InFlightPCs, ReqType
  <1>2. Releases(r)
    BY <1>1, Released, Parts DEF Continues
  <1>r. PICK reserved : reserved = active'
    OBVIOUS
  <1>3. CASE Begin(r, req[r].t, req[r].a, req[r].att + 1, reserved)
    <2>1. Attempt(req[r].t) = Len(evals[req[r].t]) /\ req[r].att + 1 \in Nat
      BY <1>1 DEF Attempt
    <2>2. CASE Attempt(req[r].t) > 0
      BY <1>1, <1>2, <1>3, <2>1, <2>2, Begun, Parts DEF Begins, OnlyCall, OnlySaid
    <2>3. CASE ~(Attempt(req[r].t) > 0)
      <3>1. Done(r) /\ UNCHANGED Log
        BY <1>1, <1>3, <2>1, <2>3, Numbers0 DEF Begin, Log, attempts
      <3> QED BY <1>1, <1>2, <3>1, Ends, Parts DEF Leaves, OnlyCall
    <2> QED BY <2>2, <2>3
  <1>4. CASE Done(r) /\ UNCHANGED Log
    BY <1>1, <1>2, <1>4, Ends, Parts DEF Leaves, OnlyCall
  <1>5. Begin(r, req[r].t, req[r].a, req[r].att + 1, active') \/ (Done(r) /\ UNCHANGED Log)
    BY DEF Continues, ledger, attempts, cycles, Log
  <1>6. Begin(r, req[r].t, req[r].a, req[r].att + 1, active')
           => Begin(r, req[r].t, req[r].a, req[r].att + 1, reserved)
    BY <1>r DEF Begin, LiveIn
  <1> QED BY <1>3, <1>4, <1>5, <1>6

\* A human asks for an evaluation, of the latest attempt.
Asks(r, t) ==
    /\ OnlyCall(r) /\ req'[r].pc \in {"acting", "repinning", "judging"}
    /\ req'[r].t = t /\ req'[r].att = Len(evals[t])

LEMMA AskDoes ==
  ASSUME TypeOK, NEW r \in Requests, NEW t \in Transitions, Act(r, t) \/ Repin(r, t) \/ Judge(r, t)
  PROVE  req[r].pc = "idle" /\ Asks(r, t) /\ UNCHANGED <<Log, active, lost>>
  <1>1. PICK l \in {"acting", "repinning", "judging"} : Ask(r, t, l)
    BY DEF Act, Repin, Judge
  <1>2. req' = [req EXCEPT ![r] = [Idle EXCEPT !.pc = l, !.t = t, !.att = Attempt(t)]]
    BY <1>1 DEF Ask
  <1>3. req[r].pc = "idle" /\ UNCHANGED <<Log, active, lost>>
    BY <1>1 DEF Ask, ledger, attempts, cycles, Log
  <1>4. req'[r] = [Idle EXCEPT !.pc = l, !.t = t, !.att = Attempt(t)] /\ OnlyCall(r)
    BY <1>2, Parts DEF OnlyCall
  <1> QED BY <1>3, <1>4 DEF Asks, Attempt, Idle

LEMMA AskFailsDoes ==
  ASSUME TypeOK, NEW r \in Requests, AskFails(r)
  PROVE  Leaves(r) /\ req[r].pc \notin InFlightPCs /\ UNCHANGED <<Log, active, lost>>
  BY Ends, Parts DEF AskFails, ledger, attempts, cycles, Log, Leaves, OnlyCall, InFlightPCs

\* An attempt by hand, of u; the action that may come with it is one on t.
LEMMA ActsDoes ==
  ASSUME TypeOK, FunctionTypes, Calls, NEW r \in Requests, Acts(r)
  PROVE  /\ Leaves(r) /\ req[r].pc \notin InFlightPCs /\ req[r].t \in Transitions
         /\ Grows(req[r].t, NoRun) /\ ~Live(req[r].t)
         /\ acted' = [acted EXCEPT ![req[r].t] = Len(evals[req[r].t])]
         /\ cycle[req[r].t] = "open"
         /\ OnlySaid(req[r].t) /\ ~said'[req[r].t].shown
         /\ UNCHANGED <<cycle, corrections, active, lost>>
  <1> DEFINE t == req[r].t
  <1>1. /\ req[r].pc = "acting" /\ t \in Transitions /\ ~Live(t) /\ cycle[t] = "open"
        /\ acted' = [acted EXCEPT ![t] = Len(evals[t])]
    BY DEF Acts, Admitted, Actionable, Attempt, Calls, CallIsTrue
  <1>2. Grows(t, NoRun)
    BY <1>1, AttemptRecorded, Parts DEF Acts, Grows
  <1>3. OnlySaid(t) /\ ~said'[t].shown
    BY <1>1, Outdated, Parts DEF Acts, OnlySaid
  <1> QED BY <1>1, <1>2, <1>3, Ends, Parts DEF Acts, Leaves, OnlyCall, InFlightPCs

LEMMA ActsInPartDoes ==
  ASSUME TypeOK, FunctionTypes, Calls, NEW r \in Requests, ActsInPart(r)
  PROVE  /\ Leaves(r) /\ req[r].pc \notin InFlightPCs /\ req[r].t \in Transitions
         /\ ~Live(req[r].t)
         /\ acted' = [acted EXCEPT ![req[r].t] = Len(evals[req[r].t])]
         /\ cycle[req[r].t] = "open" /\ OnlySaid(req[r].t)
         /\ UNCHANGED <<evals, cycle, corrections, active, lost>>
  <1> DEFINE t == req[r].t
  <1>1. /\ req[r].pc = "acting" /\ t \in Transitions /\ ~Live(t) /\ cycle[t] = "open"
        /\ acted' = [acted EXCEPT ![t] = Len(evals[t])]
    BY DEF ActsInPart, Admitted, Actionable, Attempt, Calls, CallIsTrue
  <1>2. OnlySaid(t)
    BY <1>1, Resaid, Parts DEF ActsInPart, OnlySaid
  <1> QED BY <1>1, <1>2, Ends, Parts DEF ActsInPart, Leaves, OnlyCall, InFlightPCs, attempts

LEMMA RepinsDoes ==
  ASSUME TypeOK, FunctionTypes, Calls, NEW r \in Requests, Repins(r)
  PROVE  /\ Leaves(r) /\ req[r].pc \notin InFlightPCs /\ req[r].t \in Transitions
         /\ \E u \in Transitions \ {req[r].t} : evals[u] = <<>> /\ Grows(u, NoRun)
         /\ acted' = [acted EXCEPT ![req[r].t] = Len(evals[req[r].t])]
         /\ cycle[req[r].t] = "open" /\ cycle' = [cycle EXCEPT ![req[r].t] = "cancelled"]
         /\ OnlySaid(req[r].t) /\ ~said'[req[r].t].shown
         /\ UNCHANGED <<corrections, active, lost>>
  <1> DEFINE t == req[r].t
  <1>1. /\ req[r].pc = "repinning" /\ t \in Transitions /\ cycle[t] = "open" /\ Len(evals[t]) > 0
        /\ acted' = [acted EXCEPT ![t] = Len(evals[t])]
        /\ cycle' = [cycle EXCEPT ![t] = "cancelled"]
    BY DEF Repins, Admitted, Repinnable, Refused, Attempt, Calls, CallIsTrue
  <1>2. PICK u \in Unused : Record(u, NoRun)
    BY DEF Repins
  <1>3. u \in Transitions \ {t} /\ evals[u] = <<>>
    BY <1>1, <1>2 DEF Unused
  <1>4. Grows(u, NoRun)
    BY <1>2, <1>3, AttemptRecorded, Parts DEF Grows
  <1>5. OnlySaid(t) /\ ~said'[t].shown
    BY <1>1, Unsaid, Parts DEF Repins, OnlySaid
  <1> QED BY <1>1, <1>3, <1>4, <1>5, Ends, Parts DEF Repins, Leaves, OnlyCall, InFlightPCs

LEMMA JudgesDoes ==
  ASSUME TypeOK, Calls, NEW r \in Requests, Judges(r)
  PROVE  /\ Leaves(r) /\ req[r].pc \notin InFlightPCs /\ req[r].t \in Transitions
         /\ Grows(req[r].t, NoRun)
         /\ OnlySaid(req[r].t) /\ ~said'[req[r].t].shown
         /\ UNCHANGED <<cycle, corrections, acted, active, lost>>
  <1> DEFINE t == req[r].t
  <1>1. req[r].pc = "judging" /\ t \in Transitions
    BY DEF Judges, Calls, CallIsTrue
  <1>2. Grows(t, NoRun)
    BY <1>1, AttemptRecorded, Parts DEF Judges, Grows
  <1>3. OnlySaid(t) /\ ~said'[t].shown
    BY <1>1, Outdated, Parts DEF Judges, OnlySaid
  <1> QED BY <1>1, <1>2, <1>3, Ends, Parts DEF Judges, Leaves, OnlyCall, InFlightPCs

LEMMA CancelDoes ==
  ASSUME TypeOK, NEW t \in Transitions, Cancel(t)
  PROVE  /\ cycle[t] = "open" /\ cycle' = [cycle EXCEPT ![t] = "cancelled"]
         /\ acted' = [acted EXCEPT ![t] = Len(evals[t])]
         /\ OnlySaid(t) /\ ~said'[t].shown
         /\ UNCHANGED <<evals, corrections, active, lost, req>>
  BY Unsaid, Parts DEF Cancel, AppendAction, Attempt, OnlySaid, attempts

\* What a turn of the user's does to the entries of #activeRuns.
LEMMA UserDoes ==
  ASSUME TypeOK, NEW a \in Agents, UserClaims(a) \/ UserRuns(a) \/ UserEnds(a)
  PROVE  /\ UNCHANGED <<Log, req>>
         /\ \/ UNCHANGED <<active, lost>>
            \/ \E run \in {NoRun, UserRun} : Sets("none", a, run)
  <1>1. UNCHANGED <<Log, req>>
    BY DEF UserClaims, UserRuns, UserEnds, ledger, attempts, cycles, Log
  <1>2. \/ UNCHANGED <<active, lost>>
        \/ \E run \in {NoRun, UserRun} : SetActive("none", a, run)
    BY DEF UserClaims, UserRuns, UserEnds
  <1> QED BY <1>1, <1>2, Set, Parts

-------------------------------------------------------------------------------
(* The kinds of steps there are, each with what the invariant needs of it. *)

\* What r had in #activeRuns when it ends: nothing, a run of a cancelled cycle,
\* or what it releases.
LetsGo(r) ==
    \/ (req[r].pc \notin InFlightPCs \/ cycle[req[r].t] = "cancelled") /\ UNCHANGED <<active, lost>>
    \/ /\ req[r].pc \in InFlightPCs /\ req[r].a \in Agents
       /\ Releases(r) \/ Sets(r, req[r].a, NoRun)

\* startRecovery is called, by a request or behind the evaluation of another.
Opens(r) ==
    /\ \E t \in Transitions, a \in Agents, att \in Nat : Begins(r, t, a, att)
    /\ \/ req[r].pc \notin InFlightPCs /\ UNCHANGED <<active, lost>>
       \/ req[r].pc \in InFlightPCs /\ req[r].a \in Agents /\ Releases(r)

\* A call ends and leaves the log as it is.
Quits(r) == Leaves(r) /\ LetsGo(r) /\ UNCHANGED Log

\* The worker a probe asked for is not available.
Misses(r) ==
    /\ Leaves(r) /\ UNCHANGED <<evals, cycle, corrections, acted, active, lost>>
    /\ req[r].t \in Transitions /\ req[r].pc = "probing"
    /\ \/ said' = said
       \/ OnlySaid(req[r].t) /\ cycle[req[r].t] = "open" /\ said'[req[r].t].why = "unavailable"

\* The probe has succeeded and a correction begins.
Reserved(r) == req[r].t \in Transitions /\ req[r].a \in Agents /\ req[r].pc = "probing" /\ Takes(r)

\* A correction goes from one await to the next.
Proceeds(r) ==
    /\ Advances(r) /\ UNCHANGED Log
    /\ UNCHANGED <<active, lost>> \/ (req[r].a \in Agents /\ Sets(r, req[r].a, Run(r)))

\* The evaluation of a correction is recorded.
Concludes(r) ==
    /\ req[r].t \in Transitions /\ Advances(r) /\ Grows(req[r].t, Run(r))
    /\ Len(evals[req[r].t]) = req[r].att /\ cycle[req[r].t] # "cancelled"
    /\ OnlySaid(req[r].t) /\ ~said'[req[r].t].shown
    /\ UNCHANGED <<cycle, corrections, acted, active, lost>>

\* A human action waits for its evaluation.
Asked(r) ==
    /\ req[r].pc = "idle" /\ UNCHANGED <<Log, active, lost>>
    /\ \E t \in Transitions : Asks(r, t)

\* An action that goes with the step is one on the latest attempt.
ActedOn(t) ==
    \/ UNCHANGED acted
    \/ acted' = [acted EXCEPT ![t] = Len(evals[t])] /\ ~Live(t) /\ cycle[t] = "open"

\* An evaluation by hand is recorded, with or without an action.
Decides(r) ==
    /\ Leaves(r) /\ req[r].pc \notin InFlightPCs /\ req[r].t \in Transitions
    /\ Grows(req[r].t, NoRun) /\ ActedOn(req[r].t)
    /\ OnlySaid(req[r].t) /\ ~said'[req[r].t].shown
    /\ UNCHANGED <<cycle, corrections, active, lost>>

\* Only the action of such a batch is recorded.
DecidesInPart(r) ==
    /\ Leaves(r) /\ req[r].pc \notin InFlightPCs /\ req[r].t \in Transitions
    /\ ~Live(req[r].t)
    /\ acted' = [acted EXCEPT ![req[r].t] = Len(evals[req[r].t])]
    /\ cycle[req[r].t] = "open" /\ OnlySaid(req[r].t)
    /\ UNCHANGED <<evals, cycle, corrections, active, lost>>

\* A repin: the cycle ends, another transition has its first attempt.
Restates(r) ==
    /\ Leaves(r) /\ req[r].pc \notin InFlightPCs /\ req[r].t \in Transitions
    /\ \E u \in Transitions \ {req[r].t} : evals[u] = <<>> /\ Grows(u, NoRun)
    /\ acted' = [acted EXCEPT ![req[r].t] = Len(evals[req[r].t])]
    /\ cycle[req[r].t] = "open" /\ cycle' = [cycle EXCEPT ![req[r].t] = "cancelled"]
    /\ OnlySaid(req[r].t) /\ ~said'[req[r].t].shown
    /\ UNCHANGED <<corrections, active, lost>>

\* A cancellation.
Cancels(t) ==
    /\ cycle[t] = "open" /\ cycle' = [cycle EXCEPT ![t] = "cancelled"]
    /\ acted' = [acted EXCEPT ![t] = Len(evals[t])]
    /\ OnlySaid(t) /\ ~said'[t].shown
    /\ UNCHANGED <<evals, corrections, active, lost, req>>

\* The user's turns set entries that stand for no correction.
Uses(a) == UNCHANGED <<Log, req>> /\ \E run \in {NoRun, UserRun} : Sets("none", a, run)

\* A restart: nothing is left but the log.
Forgets ==
    /\ UNCHANGED <<Log, lost>>
    /\ \A a \in Agents : active'[a] = NoRun
    /\ \A r \in Requests : req'[r].pc = "idle"

\* A step of no account here.
Rests == UNCHANGED <<Log, req, active, lost>>

\* The steps of Next, as the lemma below says.
Kinds ==
    \/ \E r \in Requests :
          \/ Opens(r) \/ Quits(r) \/ Misses(r) \/ Reserved(r) \/ Proceeds(r) \/ Concludes(r)
          \/ Asked(r) \/ Decides(r) \/ DecidesInPart(r) \/ Restates(r)
    \/ \E t \in Transitions : Cancels(t)
    \/ \E a \in Agents : Uses(a)
    \/ Forgets \/ Rests

LEMMA StepsAreOfAKind ==
  ASSUME TypeOK, FunctionTypes, Calls, [Next]_vars
  PROVE  Kinds
  <1>1. ASSUME NEW r \in Requests, CorrectionStep(r) PROVE Kinds
    <2>1. ASSUME NEW t \in Transitions, NEW a \in Agents, Start(r, t, a) PROVE Opens(r)
      <3>1. Len(evals[t]) \in Nat
        BY Numbers
      <3>2. "idle" \notin InFlightPCs
        BY DEF InFlightPCs
      <3> QED BY <2>1, <3>1, <3>2, StartDoes DEF Opens
    <2>2. ASSUME ProbeFails(r) PROVE Misses(r)
      BY <2>2, ProbeFailsDoes DEF Misses
    <2>3. ASSUME ProbeSucceeds(r) PROVE Reserved(r) \/ Quits(r)
      <3>1. "probing" \notin InFlightPCs
        BY DEF InFlightPCs
      <3> QED BY <2>3, <3>1, ProbeSucceedsDoes DEF Reserved, Quits, LetsGo
    <2>4. ASSUME Claim(r) PROVE Proceeds(r)
      BY <2>4, ClaimDoes DEF Proceeds
    <2>5. ASSUME Dispatch(r) PROVE Proceeds(r)
      BY <2>5, DispatchDoes DEF Proceeds
    <2>6. ASSUME SendFails(r) PROVE Quits(r)
      BY <2>6, SendFailsDoes DEF Quits, LetsGo
    <2>7. ASSUME TurnEnds(r) \/ Observed(r) PROVE Proceeds(r) \/ Quits(r)
      BY <2>7, TurnEndsDoes DEF Proceeds, Quits, LetsGo
    <2>8. ASSUME Evaluates(r) PROVE Concludes(r)
      BY <2>8, EvaluatesDoes DEF Concludes
    <2>9. ASSUME EvaluationFails(r) PROVE Quits(r)
      BY <2>9, EvaluationFailsDoes DEF Quits, LetsGo
    <2>10. ASSUME Continues(r) PROVE Opens(r) \/ Quits(r)
      <3>1. req[r].att + 1 \in Nat /\ "evaluated" \in InFlightPCs
        BY Numbers DEF InFlightPCs
      <3> QED BY <2>10, <3>1, ContinuesDoes DEF Opens, Quits, LetsGo
    <2> QED BY <1>1, <2>1, <2>2, <2>3, <2>4, <2>5, <2>6, <2>7, <2>8, <2>9, <2>10 DEF CorrectionStep,
       Kinds
  <1>2. ASSUME NEW r \in Requests, ActionStep(r) PROVE Kinds
    <2>1. ASSUME NEW t \in Transitions, Act(r, t) \/ Repin(r, t) \/ Judge(r, t) PROVE Asked(r)
      BY <2>1, AskDoes DEF Asked
    <2>2. ASSUME AskFails(r) PROVE Quits(r)
      BY <2>2, AskFailsDoes DEF Quits, LetsGo
    <2>3. ASSUME Acts(r) PROVE Decides(r)
      BY <2>3, ActsDoes DEF Decides, ActedOn
    <2>4. ASSUME ActsInPart(r) PROVE DecidesInPart(r)
      BY <2>4, ActsInPartDoes DEF DecidesInPart
    <2>5. ASSUME Repins(r) PROVE Restates(r)
      BY <2>5, RepinsDoes DEF Restates
    <2>6. ASSUME Judges(r) PROVE Decides(r)
      BY <2>6, JudgesDoes DEF Decides, ActedOn
    <2> QED BY <1>2, <2>1, <2>2, <2>3, <2>4, <2>5, <2>6 DEF ActionStep, Kinds
  <1>3. ASSUME ThreadStep PROVE Kinds
    <2>1. ASSUME NEW t \in Transitions, Cancel(t) PROVE Cancels(t)
      BY <2>1, CancelDoes DEF Cancels
    <2>2. ASSUME NEW a \in Agents, UserClaims(a) \/ UserRuns(a) \/ UserEnds(a)
          PROVE  Uses(a) \/ Rests
      BY <2>2, UserDoes DEF Uses, Rests, Log
    <2>3. ASSUME OtherEvent PROVE Rests
      BY <2>3 DEF OtherEvent, Rests, Log, ledger, attempts, cycles
    <2>4. ASSUME Restart PROVE Forgets
      BY <2>4 DEF Restart, Forgets, Log, ledger, attempts, cycles, Idle
    <2> QED BY <1>3, <2>1, <2>2, <2>3, <2>4 DEF ThreadStep, Kinds
  <1>4. ASSUME UNCHANGED vars PROVE Kinds
    BY <1>4 DEF vars, ledger, attempts, cycles, Kinds, Rests, Log
  <1> QED BY <1>1, <1>2, <1>3, <1>4 DEF Next
-------------------------------------------------------------------------------
(* The log only grows. *)

\* What a step keeps of the log of a transition.
Longer(t) ==
    /\ Len(evals[t]) \in Nat /\ Len(corrections[t]) \in Nat /\ acted[t] \in Nat
    /\ Len(evals'[t]) \in Nat /\ Len(corrections'[t]) \in Nat /\ acted'[t] \in Nat
    /\ Len(evals[t]) <= Len(evals'[t]) /\ Len(corrections[t]) <= Len(corrections'[t])
    /\ acted[t] <= acted'[t] /\ acted'[t] <= Len(evals'[t])
    /\ \A i \in 1..Len(evals[t]) : evals'[t][i] = evals[t][i]
    /\ \A k \in 1..Len(corrections[t]) : corrections'[t][k] = corrections[t][k]
    /\ cycle[t] = "cancelled" => cycle'[t] = "cancelled"
    /\ cycle[t] # "none" => cycle'[t] # "none"

\* One attempt more, or none; a typed action on the latest one, or none.
OneMore(t) ==
    /\ evals'[t] = evals[t] \/ Grows(t, evals'[t][Len(evals[t]) + 1])
    /\ corrections'[t] = corrections[t] \/ Corrects(t)
    /\ acted'[t] = acted[t] \/ acted'[t] = Len(evals[t])
    /\ \/ cycle'[t] = cycle[t]
       \/ cycle[t] = "none" /\ cycle'[t] = "open"
       \/ cycle[t] = "open" /\ cycle'[t] = "cancelled"

LEMMA OnlyGrows ==
  ASSUME TypeOK, FunctionTypes, Kinds, NEW t \in Transitions
  PROVE  Longer(t)
  <1>1. OneMore(t)
    <2>1. acted \in [Transitions -> Nat] /\ cycle \in [Transitions -> {"none", "open", "cancelled"}]
      BY DEF FunctionTypes, TypeOK
    <2>2. ASSUME NEW r \in Requests, Opens(r) PROVE OneMore(t)
      BY <2>1, <2>2 DEF Opens, Begins, OneMore
    <2>3. ASSUME NEW r \in Requests, Quits(r) \/ Proceeds(r) \/ Asked(r) PROVE OneMore(t)
      BY <2>3 DEF Quits, Proceeds, Asked, Log, OneMore
    <2>4. ASSUME NEW r \in Requests, Misses(r) PROVE OneMore(t)
      BY <2>4 DEF Misses, OneMore
    <2>5. ASSUME NEW r \in Requests, Reserved(r) PROVE OneMore(t)
      <3>1. CASE t = req[r].t
        BY <2>5, <3>1 DEF Reserved, Takes, OneMore
      <3>2. CASE t # req[r].t
        BY <2>5, <3>2 DEF Reserved, Takes, Corrects, OneMore
      <3> QED BY <3>1, <3>2
    <2>6. ASSUME NEW u \in Transitions, NEW run, Grows(u, run)
          PROVE  evals'[t] = evals[t] \/ Grows(t, evals'[t][Len(evals[t]) + 1])
      <3>1. CASE t = u
        BY <2>6, <3>1 DEF Grows
      <3>2. CASE t # u
        BY <2>6, <3>2 DEF Grows
      <3> QED BY <3>1, <3>2
    <2>7. ASSUME NEW r \in Requests, Concludes(r) PROVE OneMore(t)
      BY <2>6, <2>7 DEF Concludes, OneMore
    <2>8. ASSUME NEW r \in Requests, Decides(r) PROVE OneMore(t)
      BY <2>1, <2>6, <2>8 DEF Decides, ActedOn, OneMore
    <2>9. ASSUME NEW r \in Requests, DecidesInPart(r) PROVE OneMore(t)
      BY <2>1, <2>9 DEF DecidesInPart, OneMore
    <2>10. ASSUME NEW r \in Requests, Restates(r) PROVE OneMore(t)
      BY <2>1, <2>6, <2>10 DEF Restates, OneMore
    <2>11. ASSUME NEW u \in Transitions, Cancels(u) PROVE OneMore(t)
      BY <2>1, <2>11 DEF Cancels, OneMore
    <2>12. ASSUME (\E a \in Agents : Uses(a)) \/ Forgets \/ Rests PROVE OneMore(t)
      BY <2>12 DEF Uses, Forgets, Rests, Log, OneMore
    <2> QED BY <2>2, <2>3, <2>4, <2>5, <2>7, <2>8, <2>9, <2>10, <2>11, <2>12 DEF Kinds
  <1>2. /\ Len(evals[t]) \in Nat /\ Len(corrections[t]) \in Nat
        /\ acted[t] \in Nat /\ acted[t] <= Len(evals[t])
    BY Numbers
  <1>3. /\ Len(evals'[t]) \in Nat /\ Len(evals[t]) <= Len(evals'[t])
        /\ \A i \in 1..Len(evals[t]) : evals'[t][i] = evals[t][i]
    BY <1>1, <1>2 DEF OneMore, Grows
  <1>4. /\ Len(corrections'[t]) \in Nat /\ Len(corrections[t]) <= Len(corrections'[t])
        /\ \A k \in 1..Len(corrections[t]) : corrections'[t][k] = corrections[t][k]
    BY <1>1, <1>2 DEF OneMore, Corrects
  <1>5. acted'[t] \in Nat /\ acted[t] <= acted'[t] /\ acted'[t] <= Len(evals'[t])
    BY <1>1, <1>2, <1>3 DEF OneMore
  <1>6. /\ cycle[t] = "cancelled" => cycle'[t] = "cancelled"
        /\ cycle[t] # "none" => cycle'[t] # "none"
    BY <1>1 DEF OneMore
  <1> QED BY <1>2, <1>3, <1>4, <1>5, <1>6 DEF Longer

\* A call that has not moved is still true of the log.
LEMMA StillTrue ==
  ASSUME TypeOK, FunctionTypes, Calls, Kinds, NEW q \in Requests,
         req'[q].t = req[q].t, req'[q].a = req[q].a, req'[q].att = req[q].att, req'[q].k = req[q].k,
         \/ req'[q].pc = req[q].pc
         \/ req[q].pc \in InFlightPCs /\ req'[q].pc \in InFlightPCs
  PROVE  CallIsTrue(q)'
  <1>1. "idle" \notin InFlightPCs /\ "probing" \notin InFlightPCs
    BY DEF InFlightPCs
  <1>2. CASE req[q].pc = "idle"
    BY <1>1, <1>2 DEF CallIsTrue, InFlight
  <1>3. CASE req[q].pc # "idle"
    <2>1. CallIsTrue(q) /\ req[q].t \in Transitions
      BY <1>3 DEF Calls, CallIsTrue
    <2>2. Longer(req[q].t) /\ req[q].att \in Nat /\ req[q].k \in Nat
      BY <2>1, OnlyGrows, Numbers
    <2>3. req'[q].pc # "idle" => req'[q].t \in Transitions /\ req'[q].att <= Len(evals'[req[q].t])
      <3>1. req[q].att <= Len(evals[req[q].t])
        BY <1>3, <2>1 DEF CallIsTrue, Attempt
      <3> QED BY <2>1, <2>2, <3>1 DEF Longer
    <2>4. req'[q].pc \in InFlightPCs \cup {"probing"} => req'[q].a \in Agents
      BY <2>1 DEF CallIsTrue
    <2>5. req'[q].pc \in InFlightPCs =>
             /\ req'[q].k \in 1..Len(corrections'[req[q].t])
             /\ corrections'[req[q].t][req[q].k] = req[q].att
      <3>1. SUFFICES ASSUME req[q].pc \in InFlightPCs
                     PROVE  /\ req[q].k \in 1..Len(corrections'[req[q].t])
                            /\ corrections'[req[q].t][req[q].k] = req[q].att
        OBVIOUS
      <3>2. req[q].k \in 1..Len(corrections[req[q].t]) /\ corrections[req[q].t][req[q].k] = req[q].att
        BY <2>1, <3>1 DEF CallIsTrue, InFlight
      <3> QED BY <2>2, <3>2 DEF Longer
    <2> QED BY <2>3, <2>4, <2>5 DEF CallIsTrue, InFlight, Attempt
  <1> QED BY <1>2, <1>3

LEMMA CallsKept ==
  ASSUME TypeOK, FunctionTypes, Calls, Kinds
  PROVE  Calls'
  <1> USE DEF Calls
  <1>0. /\ "idle" \notin InFlightPCs /\ "probing" \notin InFlightPCs
        /\ {"acting", "repinning", "judging"} \cap InFlightPCs = {} /\ "reserved" \in InFlightPCs
    BY DEF InFlightPCs
  <1>1. ASSUME NEW r \in Requests, OnlyCall(r), CallIsTrue(r)' PROVE Calls'
    BY <1>1, StillTrue DEF OnlyCall
  <1>2. ASSUME NEW r \in Requests, Leaves(r) PROVE Calls'
    BY <1>0, <1>1, <1>2 DEF Leaves, CallIsTrue, InFlight
  <1>3. ASSUME NEW r \in Requests, Advances(r) PROVE Calls'
    BY <1>1, <1>3, StillTrue DEF Advances
  <1>4. ASSUME req' = req PROVE Calls'
    BY <1>4, StillTrue
  <1>5. ASSUME NEW r \in Requests, Opens(r) PROVE Calls'
    <2>1. PICK t \in Transitions, a \in Agents, att \in Nat : Begins(r, t, a, att)
      BY <1>5 DEF Opens
    <2>2. OnlyCall(r)
      BY <2>1 DEF Begins
    <2>3. CASE req'[r].pc = "idle"
      BY <1>2, <2>2, <2>3 DEF Leaves
    <2>4. CASE req'[r].pc # "idle"
      <3>1. /\ req'[r].pc = "probing" /\ req'[r].t = t /\ req'[r].a = a /\ req'[r].att = att
            /\ Len(evals[t]) = att
        BY <2>1, <2>4 DEF Begins
      <3>2. Longer(t)
        BY OnlyGrows
      <3>3. CallIsTrue(r)'
        BY <1>0, <3>1, <3>2 DEF CallIsTrue, Longer, Attempt, InFlight
      <3> QED BY <1>1, <2>2, <3>3
    <2> QED BY <2>3, <2>4
  <1>6. ASSUME NEW r \in Requests, Reserved(r) PROVE Calls'
    <2>1. Takes(r) /\ req[r].t \in Transitions /\ req[r].a \in Agents /\ Longer(req[r].t)
      BY <1>6, OnlyGrows DEF Reserved
    <2>2. /\ req'[r].pc = "reserved" /\ req'[r].t = req[r].t /\ req'[r].a = req[r].a
          /\ req'[r].att = req[r].att /\ req'[r].k = Len(corrections[req[r].t]) + 1
          /\ Len(corrections'[req[r].t]) = Len(corrections[req[r].t]) + 1
          /\ corrections'[req[r].t][Len(corrections[req[r].t]) + 1] = req[r].att
          /\ Len(evals[req[r].t]) = req[r].att
      BY <2>1 DEF Takes, Corrects
    <2>3. CallIsTrue(r)'
      BY <1>0, <2>1, <2>2 DEF CallIsTrue, Longer, Attempt, InFlight
    <2> QED BY <1>1, <2>1, <2>3 DEF Takes
  <1>7. ASSUME NEW r \in Requests, Asked(r) PROVE Calls'
    <2>1. PICK t \in Transitions : Asks(r, t)
      BY <1>7 DEF Asked
    <2>2. CallIsTrue(r)'
      BY <1>0, <2>1, OnlyGrows DEF Asks, CallIsTrue, Longer, Attempt, InFlight
    <2> QED BY <1>1, <2>1, <2>2 DEF Asks
  <1>8. ASSUME Forgets PROVE Calls'
    BY <1>0, <1>8 DEF Forgets, CallIsTrue, InFlight
  <1> QED BY <1>2, <1>3, <1>4, <1>5, <1>6, <1>7, <1>8 DEF Kinds, Quits, Misses, Proceeds, Concludes,
     Decides, DecidesInPart, Restates, Cancels, Uses, Rests
-------------------------------------------------------------------------------
(* The evaluation of a correction comes right after the refusal it corrects. *)

LEMMA JudgementsKept ==
  ASSUME TypeOK, FunctionTypes, Calls, CorrectionsJudgeTheirRefusal, Kinds
  PROVE  CorrectionsJudgeTheirRefusal'
  <1> DEFINE Fine(t, i, run) ==
               run # NoRun => /\ run[1] = t /\ run[2] \in 1..Len(corrections'[t])
                              /\ corrections'[t][run[2]] = i - 1
  <1> SUFFICES ASSUME NEW t \in Transitions, NEW i \in 1..Len(evals'[t])
               PROVE  Fine(t, i, evals'[t][i])
    BY DEF CorrectionsJudgeTheirRefusal, Attempt
  <1>1. Longer(t)
    BY OnlyGrows
  <1>2. CASE i \in 1..Len(evals[t])
    <2>1. evals'[t][i] = evals[t][i]
      BY <1>1, <1>2 DEF Longer
    <2>2. evals[t][i] # NoRun =>
             /\ evals[t][i][1] = t /\ evals[t][i][2] \in 1..Len(corrections[t])
             /\ corrections[t][evals[t][i][2]] = i - 1
      BY <1>2 DEF CorrectionsJudgeTheirRefusal, Attempt
    <2> QED BY <1>1, <2>1, <2>2 DEF Longer
  <1>3. CASE i \notin 1..Len(evals[t])
    <2>1. Len(evals'[t]) # Len(evals[t])
      BY <1>1, <1>3 DEF Longer
    <2>2. ASSUME NEW u \in Transitions, NEW run, Grows(u, run)
          PROVE  u = t /\ i = Len(evals[t]) + 1 /\ evals'[t][i] = run
      BY <1>1, <1>3, <2>1, <2>2 DEF Grows, Longer
    <2>3. ASSUME NEW u \in Transitions, Grows(u, NoRun) PROVE Fine(t, i, evals'[t][i])
      BY <2>2, <2>3
    <2>4. ASSUME NEW r \in Requests, Concludes(r) PROVE Fine(t, i, evals'[t][i])
      <3>1. /\ req[r].t \in Transitions /\ Grows(req[r].t, Run(r)) /\ Len(evals[req[r].t]) = req[r].att
            /\ req[r].pc \in InFlightPCs /\ corrections' = corrections
        BY <2>4 DEF Concludes, Advances
      <3>2. req[r].t = t /\ i = req[r].att + 1 /\ evals'[t][i] = Run(r)
        BY <2>2, <3>1
      <3>3. req[r].k \in 1..Len(corrections[t]) /\ corrections[t][req[r].k] = req[r].att
        BY <3>1, <3>2 DEF Calls, CallIsTrue, InFlight
      <3>4. req[r].att \in Nat
        BY Numbers
      <3> QED BY <3>1, <3>2, <3>3, <3>4 DEF Run
    <2>5. ASSUME evals' = evals PROVE FALSE
      BY <2>1, <2>5
    <2> HIDE DEF Fine
    <2> QED BY <2>3, <2>4, <2>5 DEF Kinds, Opens, Begins, Quits, Misses, Reserved, Takes, Proceeds,
       Asked, Decides, DecidesInPart, Restates, Cancels, Uses, Forgets, Rests, Log
  <1> QED BY <1>2, <1>3

-------------------------------------------------------------------------------
(* The log and #activeRuns. *)

\* The call is about the same correction after the step.
Same(q) ==
    /\ req'[q].t = req[q].t /\ req'[q].a = req[q].a
    /\ req'[q].att = req[q].att /\ req'[q].k = req[q].k

\* No correction begins, and what is in #activeRuns is what was there or goes
\* with a call in flight.
NoneBegins ==
    \A q \in Requests : req'[q].pc \in InFlightPCs => req[q].pc \in InFlightPCs /\ Same(q)

EntriesStay ==
    /\ \A a \in Agents : active'[a] \in Runs =>
          \/ \E q \in Requests : req'[q].pc \in InFlightPCs /\ Same(q) /\ req[q].a = a
                                 /\ Run(q) = active'[a]
          \/ /\ active'[a] = active[a]
             /\ \A q \in Requests :
                   InFlight(q) /\ Run(q) = active[a] /\ req[q].a = a =>
                      \/ req'[q].pc \in InFlightPCs /\ Same(q)
                      \/ cycle[req[q].t] = "cancelled"
    /\ ~lost' => /\ ~lost
                 /\ \A q \in Requests : req'[q].pc \in InFlightPCs =>
                       active'[req[q].a] = active[req[q].a] \/ active'[req[q].a] = Run(q)

LEMMA SameRun ==
  ASSUME NEW q \in Requests, Same(q)
  PROVE  Run(q)' = Run(q)
  BY DEF Same, Run

LEMMA CancelledStays ==
  ASSUME TypeOK, FunctionTypes, Kinds, active \in [Agents -> Recorded \cup {NoRun, UserRun}],
         NEW a \in Agents, active[a] \in Runs, cycle'[active[a][1]] # "cancelled"
  PROVE  cycle[active[a][1]] # "cancelled"
  <1>1. active[a][1] \in Transitions
    BY DEF Runs
  <1> QED BY <1>1, OnlyGrows DEF Longer

LEMMA EntriesKept ==
  ASSUME TypeOK, FunctionTypes, Kinds, Reservations, NoneBegins, EntriesStay
  PROVE  Reservations'
  <1>1. ASSUME NEW q \in Requests, NEW r \in Requests, q # r, InFlight(q)', InFlight(r)'
        PROVE  Run(q)' # Run(r)'
    <2>1. InFlight(q) /\ Same(q) /\ InFlight(r) /\ Same(r)
      BY <1>1 DEF NoneBegins, InFlight
    <2>2. Run(q) # Run(r)
      BY <1>1, <2>1 DEF Reservations
    <2> QED BY <2>1, <2>2, SameRun
  <1>2. ASSUME NEW a \in Agents, active'[a] \in Runs, cycle'[active'[a][1]] # "cancelled"
        PROVE  \E q \in Requests : InFlight(q)' /\ req'[q].a = a /\ Run(q)' = active'[a]
    <2>1. CASE \E q \in Requests : req'[q].pc \in InFlightPCs /\ Same(q) /\ req[q].a = a
                                   /\ Run(q) = active'[a]
      <3>1. PICK q \in Requests : req'[q].pc \in InFlightPCs /\ Same(q) /\ req[q].a = a
                                  /\ Run(q) = active'[a]
        BY <2>1
      <3>2. InFlight(q)' /\ req'[q].a = a /\ Run(q)' = active'[a]
        BY <3>1, SameRun DEF InFlight, Same
      <3> QED BY <3>2
    <2>2. CASE /\ active'[a] = active[a]
               /\ \A q \in Requests :
                     InFlight(q) /\ Run(q) = active[a] /\ req[q].a = a =>
                        \/ req'[q].pc \in InFlightPCs /\ Same(q)
                        \/ cycle[req[q].t] = "cancelled"
      <3>1. active[a] \in Runs /\ cycle[active[a][1]] # "cancelled"
        BY <1>2, <2>2, CancelledStays, Parts
      <3>2. PICK q \in Requests : InFlight(q) /\ req[q].a = a /\ Run(q) = active[a]
        BY <3>1 DEF Reservations
      <3>3. active[a][1] = req[q].t
        BY <3>2 DEF Run
      <3>4. req'[q].pc \in InFlightPCs /\ Same(q)
        BY <2>2, <3>1, <3>2, <3>3
      <3>5. InFlight(q)' /\ req'[q].a = a /\ Run(q)' = active'[a]
        BY <2>2, <3>2, <3>4, SameRun DEF InFlight, Same
      <3> QED BY <3>5
    <2> QED BY <1>2, <2>1, <2>2 DEF EntriesStay
  <1>3. ASSUME ~lost', NEW q \in Requests, InFlight(q)'
        PROVE  active'[req'[q].a] = Run(q)'
    <2>1. InFlight(q) /\ Same(q) /\ ~lost
      BY <1>3 DEF NoneBegins, EntriesStay, InFlight
    <2>2. active[req[q].a] = Run(q)
      BY <2>1 DEF Reservations
    <2>3. active'[req[q].a] = active[req[q].a] \/ active'[req[q].a] = Run(q)
      BY <1>3 DEF EntriesStay, InFlight
    <2> QED BY <2>1, <2>2, <2>3, SameRun DEF Same
  <1>4. ASSUME ~lost', NEW q \in Requests, NEW r \in Requests, q # r, InFlight(q)', InFlight(r)'
        PROVE  req'[q].t # req'[r].t
    <2>1. InFlight(q) /\ Same(q) /\ InFlight(r) /\ Same(r) /\ ~lost
      BY <1>4 DEF NoneBegins, EntriesStay, InFlight
    <2> QED BY <1>4, <2>1 DEF Reservations, Same
  <1> QED BY <1>1, <1>2, <1>3, <1>4 DEF Reservations

\* Nothing else is in #activeRuns than runs of corrections and these.
LEMMA NoRuns == NoRun \notin Runs /\ UserRun \notin Runs
  BY RunsAssumption DEF Runs

LEMMA FlightIsReal ==
  ASSUME TypeOK, Calls, NEW q \in Requests, InFlight(q)
  PROVE  /\ req[q].t \in Transitions /\ req[q].a \in Agents
         /\ req[q].k \in 1..Len(corrections[req[q].t])
  BY DEF Calls, CallIsTrue, InFlight, InFlightPCs

LEMMA ReservationsKept ==
  ASSUME TypeOK, FunctionTypes, Calls, Reservations, Kinds
  PROVE  Reservations'
  <1>0. /\ "idle" \notin InFlightPCs /\ "probing" \notin InFlightPCs
        /\ {"acting", "repinning", "judging"} \cap InFlightPCs = {} /\ "reserved" \in InFlightPCs
    BY DEF InFlightPCs
  <1>1. ASSUME NEW r \in Requests, OnlyCall(r), req'[r].pc \notin InFlightPCs
        PROVE  NoneBegins /\ \A q \in Requests \ {r} : req'[q].pc = req[q].pc /\ Same(q)
    BY <1>1 DEF OnlyCall, NoneBegins, Same
  <1>2. ASSUME NEW r \in Requests, OnlyCall(r), req'[r].pc \notin InFlightPCs,
               req[r].pc \notin InFlightPCs
                         \/ cycle[req[r].t] = "cancelled", UNCHANGED <<active, lost>>
        PROVE  Reservations'
    <2>1. EntriesStay
      BY <1>1, <1>2 DEF EntriesStay, InFlight
    <2> QED BY <1>1, <1>2, <2>1, EntriesKept
  <1>3. ASSUME NEW r \in Requests, OnlyCall(r), req'[r].pc \notin InFlightPCs,
               req[r].pc \in InFlightPCs, req[r].a \in Agents,
               Releases(r) \/ Sets(r, req[r].a, NoRun)
        PROVE  Reservations'
    <2>1. ASSUME NEW a \in Agents, active'[a] \in Runs
          PROVE  active'[a] = active[a] /\ (a = req[r].a => Run(r) # active[a])
      BY <1>3, <2>1, NoRuns DEF Releases, Sets
    <2>2. ASSUME NEW q \in Requests, req'[q].pc \in InFlightPCs, ~lost'
          PROVE  ~lost /\ active'[req[q].a] = active[req[q].a]
      <3>1. q # r /\ InFlight(q) /\ req[q].a \in Agents /\ ~lost
        <4>1. q # r
          BY <1>3, <2>2
        <4>2. InFlight(q)
          BY <1>3, <2>2, <4>1 DEF OnlyCall, InFlight
        <4>3. ~lost
          BY <1>3, <2>2 DEF Releases, Sets
        <4> QED BY <4>1, <4>2, <4>3, FlightIsReal
      <3>2. Run(q) # Run(r)
        BY <1>3, <3>1 DEF Reservations, InFlight
      <3>3. active[req[q].a] = Run(q)
        BY <3>1 DEF Reservations
      <3>4. CASE req[q].a # req[r].a
        BY <1>3, <3>1, <3>4 DEF Releases, Sets
      <3>5. CASE req[q].a = req[r].a /\ Releases(r)
        BY <1>3, <3>1, <3>2, <3>3, <3>5 DEF Releases
      <3>6. CASE req[q].a = req[r].a /\ Sets(r, req[r].a, NoRun)
        <4>1. NoRun # Run(q)
          BY <3>1, <3>3, NoRuns, Parts DEF Run, Runs, Calls, CallIsTrue, ReqType, InFlightPCs,
             InFlight
        <4> QED BY <2>2, <3>1, <3>3, <3>6, <4>1 DEF Sets
      <3> QED BY <1>3, <3>4, <3>5, <3>6
    <2>3. ~lost' => ~lost
      BY <1>3 DEF Releases, Sets
    <2>4. \A q \in Requests \ {r} : InFlight(q) => req'[q].pc \in InFlightPCs /\ Same(q)
      BY <1>1, <1>3 DEF InFlight
    <2>5. EntriesStay
      BY <2>1, <2>2, <2>3, <2>4 DEF EntriesStay
    <2> QED BY <1>1, <1>3, <2>5, EntriesKept
  \* The entry of a call in flight is set again, or a user's is set.
  <1>4. ASSUME NEW r \in Requests, Advances(r), UNCHANGED <<active, lost>>
        PROVE  Reservations'
    <2>1. NoneBegins /\ \A q \in Requests : Same(q) /\ (InFlight(q) => req'[q].pc \in InFlightPCs)
      BY <1>4 DEF Advances, OnlyCall, NoneBegins, Same, InFlight
    <2>2. EntriesStay
      BY <1>4, <2>1 DEF EntriesStay
    <2> QED BY <2>1, <2>2, EntriesKept
  <1>5. ASSUME NEW r \in Requests, Advances(r), req[r].a \in Agents, Sets(r, req[r].a, Run(r))
        PROVE  Reservations'
    <2>1. NoneBegins /\ \A q \in Requests : Same(q) /\ (InFlight(q) => req'[q].pc \in InFlightPCs)
      BY <1>5 DEF Advances, OnlyCall, NoneBegins, Same, InFlight
    <2>2. InFlight(r) /\ req'[r].pc \in InFlightPCs
      BY <1>5 DEF Advances, InFlight
    <2>3. ASSUME ~lost', NEW q \in Requests, req'[q].pc \in InFlightPCs
          PROVE  active'[req[q].a] = active[req[q].a] \/ active'[req[q].a] = Run(q)
      <3>1. ~lost /\ InFlight(q) /\ req[q].a \in Agents
        BY <1>5, <2>1, <2>3 DEF NoneBegins, Sets, Calls, CallIsTrue, InFlight
      <3>2. CASE q = r \/ req[q].a # req[r].a
        BY <1>5, <3>1, <3>2 DEF Sets
      <3>3. CASE q # r /\ req[q].a = req[r].a
        <4>1. active[req[r].a] = Run(q) /\ active[req[r].a] = Run(r)
          BY <2>2, <3>1, <3>3 DEF Reservations
        <4> QED BY <1>5, <3>3, <4>1 DEF Sets
      <3> QED BY <3>2, <3>3
    <2>4. ~lost' => ~lost
      BY <1>5 DEF Sets
    <2>5. \A a \in Agents : \/ a = req[r].a /\ active'[a] = Run(r)
                            \/ active'[a] = active[a]
      BY <1>5 DEF Sets
    <2>6. EntriesStay
      BY <2>1, <2>2, <2>3, <2>4, <2>5 DEF EntriesStay
    <2> QED BY <2>1, <2>6, EntriesKept
  <1>6. ASSUME req' = req, UNCHANGED <<active, lost>> PROVE Reservations'
    <2>1. NoneBegins /\ EntriesStay
      BY <1>6 DEF NoneBegins, EntriesStay, Same, InFlight
    <2> QED BY <2>1, EntriesKept
  <1>7. ASSUME NEW a \in Agents, Uses(a) PROVE Reservations'
    <2>1. PICK run \in {NoRun, UserRun} : Sets("none", a, run) /\ req' = req
      BY <1>7 DEF Uses
    <2>2. run \notin Runs /\ "none" \notin Requests
      BY NoRuns, RequestsAssumption
    <2>3. ASSUME ~lost', NEW q \in Requests, InFlight(q)
          PROVE  ~lost /\ active'[req[q].a] = active[req[q].a]
      <3>1. ~lost /\ req[q].a \in Agents
        BY <2>1, <2>3, FlightIsReal DEF Sets
      <3>2. active[req[q].a] = Run(q)
        BY <2>3, <3>1 DEF Reservations
      <3>3. Run(q) \in Runs
        BY <2>3, Parts DEF Run, Runs, Calls, CallIsTrue, ReqType, InFlight, InFlightPCs
      <3>4. CASE req[q].a = a
        BY <2>1, <2>2, <2>3, <3>2, <3>3, <3>4 DEF Sets
      <3> QED BY <2>1, <3>1, <3>4 DEF Sets
    <2>4. \A b \in Agents : active'[b] \in Runs => active'[b] = active[b]
      BY <2>1, <2>2 DEF Sets
    <2>5. ~lost' => ~lost
      BY <2>1 DEF Sets
    <2>6. NoneBegins /\ \A q \in Requests : Same(q) /\ req'[q].pc = req[q].pc
      BY <2>1 DEF NoneBegins, Same
    <2>7. EntriesStay
      BY <2>3, <2>4, <2>5, <2>6 DEF EntriesStay, InFlight
    <2> QED BY <2>6, <2>7, EntriesKept
  <1>8. ASSUME Forgets PROVE Reservations'
    <2>1. NoneBegins
      BY <1>0, <1>8 DEF Forgets, NoneBegins
    <2>2. EntriesStay
      BY <1>0, <1>8, NoRuns DEF Forgets, EntriesStay
    <2> QED BY <2>1, <2>2, EntriesKept
  \* A correction begins, where none was under way.
  <1>9. ASSUME NEW r \in Requests, Reserved(r) PROVE Reservations'
    <2> DEFINE t == req[r].t
               k == Len(corrections[t]) + 1
    <2>1. /\ t \in Transitions /\ req[r].a \in Agents /\ ~InFlight(r) /\ ~Live(t) /\ cycle' = cycle
          /\ OnlyCall(r) /\ InFlight(r)' /\ Run(r)' = <<t, k>> /\ Sets(r, req[r].a, <<t, k>>)
          /\ req'[r].t = t /\ req'[r].a = req[r].a
      BY <1>0, <1>9 DEF Reserved, Takes, InFlight, Run
    <2>2. ASSUME NEW q \in Requests, q # r
          PROVE  /\ (InFlight(q)' <=> InFlight(q)) /\ Run(q)' = Run(q)
                 /\ req'[q].a = req[q].a /\ req'[q].t = req[q].t
      BY <2>1, <2>2 DEF OnlyCall, InFlight, Run
    <2>3. ASSUME NEW q \in Requests, q # r, InFlight(q) PROVE Run(q) # <<t, k>> /\ req[q].a \in Agents
      BY <2>1, <2>3, Numbers, FlightIsReal DEF Run
    <2>4. ASSUME NEW q \in Requests, q # r, InFlight(q), ~lost PROVE req[q].t # t
      <3>1. active[req[q].a] = Run(q) /\ req[q].a \in Agents /\ req[q].k \in 1..Len(corrections[req[q].t])
        BY <2>4, FlightIsReal DEF Reservations
      <3> QED BY <2>1, <3>1 DEF Live, LiveIn, Run
    <2>5. ASSUME NEW q \in Requests, q # r, InFlight(q), ~lost'
          PROVE  ~lost /\ active'[req[q].a] = Run(q)
      <3>1. ~lost /\ active[req[q].a] = Run(q) /\ req[q].a \in Agents /\ <<t, k>> # Run(q)
        BY <2>1, <2>3, <2>5 DEF Sets, Reservations
      <3>2. req[q].a # req[r].a
        BY <2>1, <2>5, <3>1 DEF Sets
      <3> QED BY <2>1, <3>1, <3>2 DEF Sets
    <2>6. ASSUME NEW a \in Agents, active'[a] \in Runs, cycle'[active'[a][1]] # "cancelled"
          PROVE  \E q \in Requests : InFlight(q)' /\ req'[q].a = a /\ Run(q)' = active'[a]
      <3>1. CASE a = req[r].a
        BY <2>1, <3>1 DEF Sets
      <3>2. CASE a # req[r].a
        <4>1. active'[a] = active[a]
          BY <2>1, <3>2 DEF Sets
        <4>2. PICK q \in Requests : InFlight(q) /\ req[q].a = a /\ Run(q) = active[a]
          BY <2>1, <2>6, <4>1 DEF Reservations
        <4> QED BY <2>1, <2>2, <4>1, <4>2
      <3> QED BY <3>1, <3>2
    <2>7. \A p, q \in Requests : p # q /\ InFlight(p)' /\ InFlight(q)' => Run(p)' # Run(q)'
      <3> SUFFICES ASSUME NEW p \in Requests, NEW q \in Requests, p # q, InFlight(p)', InFlight(q)'
                   PROVE  Run(p)' # Run(q)'
        OBVIOUS
      <3>1. CASE p # r /\ q # r
        BY <2>2, <3>1 DEF Reservations
      <3>2. CASE p = r
        BY <2>1, <2>2, <2>3, <3>2
      <3>3. CASE q = r
        BY <2>1, <2>2, <2>3, <3>3
      <3> QED BY <3>1, <3>2, <3>3
    <2>8. ASSUME ~lost', NEW q \in Requests, InFlight(q)' PROVE active'[req'[q].a] = Run(q)'
      <3>1. CASE q = r
        BY <2>1, <3>1 DEF Sets
      <3>2. CASE q # r
        BY <2>2, <2>5, <2>8, <3>2
      <3> QED BY <3>1, <3>2
    <2>9. ASSUME ~lost', NEW p \in Requests, NEW q \in Requests, p # q, InFlight(p)', InFlight(q)'
          PROVE  req'[p].t # req'[q].t
      <3>0. ~lost
        BY <2>1, <2>9 DEF Sets
      <3>1. CASE p # r /\ q # r
        BY <2>2, <2>9, <3>0, <3>1 DEF Reservations
      <3>2. CASE p = r
        BY <2>1, <2>2, <2>4, <2>9, <3>0, <3>2
      <3>3. CASE q = r
        BY <2>1, <2>2, <2>4, <2>9, <3>0, <3>3
      <3> QED BY <3>1, <3>2, <3>3
    <2> HIDE DEF t, k
    <2> QED BY <2>6, <2>7, <2>8, <2>9 DEF Reservations
  <1>10. ASSUME NEW r \in Requests, Opens(r) PROVE Reservations'
    <2>1. OnlyCall(r) /\ req'[r].pc \notin InFlightPCs
      BY <1>0, <1>10 DEF Opens, Begins
    <2> QED BY <1>2, <1>3, <1>10, <2>1 DEF Opens
  <1>11. ASSUME NEW r \in Requests, Quits(r) PROVE Reservations'
    <2>1. OnlyCall(r) /\ req'[r].pc \notin InFlightPCs
      BY <1>0, <1>11 DEF Quits, Leaves
    <2> QED BY <1>2, <1>3, <1>11, <2>1 DEF Quits, LetsGo
  <1>12. ASSUME NEW r \in Requests,
                Misses(r) \/ Asked(r) \/ Decides(r) \/ DecidesInPart(r) \/ Restates(r)
         PROVE  Reservations'
    <2>1. /\ OnlyCall(r) /\ req'[r].pc \notin InFlightPCs /\ req[r].pc \notin InFlightPCs
          /\ UNCHANGED <<active, lost>>
      BY <1>0, <1>12 DEF Misses, Asked, Asks, Decides, DecidesInPart, Restates, Leaves
    <2> QED BY <1>2, <2>1
  <1>13. ASSUME NEW r \in Requests, Proceeds(r) \/ Concludes(r) PROVE Reservations'
    BY <1>4, <1>5, <1>13 DEF Proceeds, Concludes
  <1>14. ASSUME (\E t \in Transitions : Cancels(t)) \/ Rests PROVE Reservations'
    BY <1>6, <1>14 DEF Cancels, Rests
  <1> QED BY <1>7, <1>8, <1>9, <1>10, <1>11, <1>12, <1>13, <1>14 DEF Kinds

-------------------------------------------------------------------------------
(* What a cycle says, and what a cancellation leaves of a probe. *)

LEMMA SayingsKept ==
  ASSUME TypeOK, FunctionTypes, Sayings, Kinds
  PROVE  Sayings'
  <1> DEFINE Fine(t) ==
               /\ cycle'[t] = "none" => ~said'[t].shown
               /\ cycle'[t] # "none" => evals'[t] # <<>>
               /\ said'[t].shown /\ said'[t].why \in Escalations \cup {"human"}
                     /\ acted'[t] < Len(evals'[t]) => said'[t].att = Len(evals'[t])
  <1> SUFFICES ASSUME NEW t \in Transitions PROVE Fine(t)
    BY DEF Sayings, Attempt
  <1>0. Longer(t)
    BY OnlyGrows
  <1>1. /\ cycle[t] = "none" => ~said[t].shown
        /\ cycle[t] # "none" => evals[t] # <<>>
        /\ said[t].shown /\ said[t].why \in Escalations \cup {"human"}
              /\ acted[t] < Len(evals[t]) => said[t].att = Len(evals[t])
    BY DEF Sayings, Attempt
  <1>2. evals[t] \in Seq(Runs \cup {NoRun}) /\ (evals[t] = <<>> <=> Len(evals[t]) = 0)
    BY Parts
  <1>3. ASSUME said'[t] = said[t], evals'[t] = evals[t], cycle'[t] # cycle[t] => evals[t] # <<>>
        PROVE  Fine(t)
    BY <1>0, <1>1, <1>3 DEF Longer
  <1>4. ASSUME ~said'[t].shown, cycle'[t] # "none" => evals'[t] # <<>> PROVE Fine(t)
    BY <1>4
  <1>5. ASSUME UNCHANGED Log PROVE Fine(t)
    BY <1>3, <1>5 DEF Log
  <1>6. ASSUME NEW u \in Transitions, NEW run, Grows(u, run) PROVE evals'[t] = evals[t] \/ t = u
    BY <1>6 DEF Grows
  <1>7. ASSUME NEW run, Grows(t, run) PROVE evals'[t] # <<>>
    <2>1. Len(evals'[t]) = Len(evals[t]) + 1 /\ Len(evals[t]) \in Nat
      BY <1>0, <1>7 DEF Grows, Longer
    <2>2. Len(<<>>) = 0
      OBVIOUS
    <2> QED BY <2>1, <2>2
  <1>8. cycle \in [Transitions -> {"none", "open", "cancelled"}] /\ acted \in [Transitions -> Nat]
    BY DEF TypeOK, FunctionTypes
  <1>9. ASSUME NEW r \in Requests, Opens(r) PROVE Fine(t)
    <2>1. PICK u \in Transitions, a \in Agents, att \in Nat : Begins(r, u, a, att)
      BY <1>9 DEF Opens
    <2>2. /\ evals' = evals
          /\ cycle'[t] # cycle[t] => t = u /\ evals[t] # <<>>
          /\ said' = said \/ (OnlySaid(u) /\ cycle'[u] = "open" /\ said'[u].att = Len(evals[u]))
      BY <1>2, <2>1 DEF Begins
    <2>3. CASE said'[t] = said[t]
      BY <1>3, <2>2, <2>3
    <2>4. CASE said'[t] # said[t]
      <3>1. t = u /\ cycle'[t] = "open" /\ said'[t].att = Len(evals[t])
        BY <2>2, <2>4 DEF OnlySaid
      <3>2. evals[t] # <<>>
        BY <1>1, <2>2, <3>1
      <3> QED BY <2>2, <3>1, <3>2
    <2> QED BY <2>3, <2>4
  <1>10. ASSUME NEW r \in Requests, Misses(r) PROVE Fine(t)
    <2>1. CASE said'[t] = said[t]
      BY <1>3, <1>10, <2>1 DEF Misses
    <2>2. CASE said'[t] # said[t]
      <3>1. /\ t = req[r].t /\ cycle[t] = "open" /\ said'[t].why = "unavailable"
            /\ UNCHANGED <<evals, cycle>>
        BY <1>10, <2>2 DEF Misses, OnlySaid
      <3>2. "unavailable" \notin Escalations \cup {"human"}
        BY DEF Escalations
      <3> QED BY <1>1, <3>1, <3>2
    <2> QED BY <2>1, <2>2
  <1>11. ASSUME NEW r \in Requests, Reserved(r) PROVE Fine(t)
    <2>1. UNCHANGED <<evals, cycle>> /\ (said'[t] = said[t] \/ ~said'[t].shown)
      BY <1>11 DEF Reserved, Takes, OnlySaid
    <2> QED BY <1>1, <1>3, <1>4, <2>1
  <1>12. ASSUME NEW r \in Requests, Concludes(r) \/ Decides(r) PROVE Fine(t)
    <2>1. PICK run : Grows(req[r].t, run)
      BY <1>12 DEF Concludes, Decides
    <2>2. req[r].t \in Transitions /\ cycle' = cycle /\ OnlySaid(req[r].t) /\ ~said'[req[r].t].shown
      BY <1>12 DEF Concludes, Decides
    <2>3. CASE t = req[r].t
      BY <1>4, <1>7, <2>1, <2>2, <2>3
    <2>4. CASE t # req[r].t
      BY <1>3, <1>6, <2>1, <2>2, <2>4 DEF OnlySaid
    <2> QED BY <2>3, <2>4
  <1>13. ASSUME NEW r \in Requests, DecidesInPart(r) PROVE Fine(t)
    <2>1. CASE t = req[r].t
      <3>1. acted'[t] = Len(evals[t]) /\ UNCHANGED <<evals, cycle>> /\ cycle[t] = "open"
        BY <1>8, <1>13, <2>1 DEF DecidesInPart
      <3> QED BY <1>0, <1>1, <3>1 DEF Longer
    <2>2. CASE t # req[r].t
      BY <1>3, <1>13, <2>2 DEF DecidesInPart, OnlySaid
    <2> QED BY <2>1, <2>2
  <1>14. ASSUME NEW r \in Requests, Restates(r) PROVE Fine(t)
    <2>1. PICK u \in Transitions \ {req[r].t} : evals[u] = <<>> /\ Grows(u, NoRun)
      BY <1>14 DEF Restates
    <2>2. CASE t = req[r].t
      <3>1. ~said'[t].shown /\ cycle[t] = "open" /\ evals'[t] = evals[t]
        BY <1>6, <1>14, <2>1, <2>2 DEF Restates
      <3> QED BY <1>1, <1>4, <3>1
    <2>3. CASE t = u
      <3>1. said'[t] = said[t] /\ cycle[t] = "none" /\ evals'[t] # <<>>
        BY <1>1, <1>7, <1>14, <2>1, <2>3 DEF Restates, OnlySaid
      <3> QED BY <1>1, <1>4, <3>1
    <2>4. CASE t # req[r].t /\ t # u
      <3>1. said'[t] = said[t] /\ cycle'[t] = cycle[t] /\ evals'[t] = evals[t]
        BY <1>6, <1>8, <1>14, <2>1, <2>4 DEF Restates, OnlySaid
      <3> QED BY <1>3, <3>1
    <2> QED BY <2>2, <2>3, <2>4
  <1>15. ASSUME NEW u \in Transitions, Cancels(u) PROVE Fine(t)
    <2>1. CASE t = u
      <3>1. ~said'[t].shown /\ cycle[t] = "open" /\ evals'[t] = evals[t]
        BY <1>15, <2>1 DEF Cancels
      <3> QED BY <1>1, <1>4, <3>1
    <2>2. CASE t # u
      <3>1. said'[t] = said[t] /\ cycle'[t] = cycle[t] /\ evals'[t] = evals[t]
        BY <1>8, <1>15, <2>2 DEF Cancels, OnlySaid
      <3> QED BY <1>3, <3>1
    <2> QED BY <2>1, <2>2
  <1> HIDE DEF Fine
  <1> QED BY <1>5, <1>9, <1>10, <1>11, <1>12, <1>13, <1>14, <1>15 DEF Kinds, Quits, Proceeds, Asked,
     Uses, Forgets, Rests, Log

\* A cancellation is an action on the latest attempt.
LEMMA CancellingActs ==
  ASSUME TypeOK, FunctionTypes, Kinds, NEW t \in Transitions,
         cycle[t] # "cancelled", cycle'[t] = "cancelled"
  PROVE  acted'[t] = Len(evals[t])
  <1>1. cycle \in [Transitions -> {"none", "open", "cancelled"}] /\ acted \in [Transitions -> Nat]
    BY DEF TypeOK, FunctionTypes
  <1>2. ASSUME NEW r \in Requests, Restates(r) PROVE acted'[t] = Len(evals[t])
    BY <1>1, <1>2 DEF Restates
  <1>3. ASSUME NEW u \in Transitions, Cancels(u) PROVE acted'[t] = Len(evals[t])
    BY <1>1, <1>3 DEF Cancels
  <1>4. ASSUME NEW r \in Requests, Opens(r) PROVE FALSE
    BY <1>4 DEF Opens, Begins
  <1> QED BY <1>2, <1>3, <1>4 DEF Kinds, Quits, Misses, Reserved, Takes, Proceeds, Concludes, Asked,
     Decides, DecidesInPart, Uses, Forgets, Rests, Log

LEMMA CancellationsKept ==
  ASSUME TypeOK, FunctionTypes, Calls, Cancellations, Kinds
  PROVE  Cancellations'
  <1>0. "probing" \notin InFlightPCs
    BY DEF InFlightPCs
  <1> DEFINE Fine(q) ==
               req'[q].pc = "probing" /\ cycle'[req'[q].t] = "cancelled" => req'[q].att <= acted'[req'[q].t]
  <1>1. ASSUME NEW q \in Requests, req'[q] = req[q] PROVE Fine(q)
    <2> SUFFICES ASSUME req[q].pc = "probing", cycle'[req[q].t] = "cancelled"
                 PROVE  req[q].att <= acted'[req[q].t]
      BY <1>1
    <2>1. req[q].t \in Transitions /\ req[q].att <= Len(evals[req[q].t])
      BY DEF Calls, CallIsTrue, Attempt
    <2>2. Longer(req[q].t) /\ req[q].att \in Nat
      BY <2>1, OnlyGrows, Numbers
    <2>3. CASE cycle[req[q].t] = "cancelled"
      <3>1. req[q].att <= acted[req[q].t]
        BY <2>3 DEF Cancellations
      <3> QED BY <2>2, <3>1 DEF Longer
    <2>4. CASE cycle[req[q].t] # "cancelled"
      BY <2>1, <2>4, CancellingActs
    <2> QED BY <2>3, <2>4
  <1>2. ASSUME NEW r \in Requests, OnlyCall(r), req'[r].pc # "probing" PROVE Cancellations'
    <2>1. \A q \in Requests : Fine(q)
      BY <1>1, <1>2 DEF OnlyCall
    <2> QED BY <2>1 DEF Cancellations
  <1>3. ASSUME NEW r \in Requests, Opens(r) PROVE Cancellations'
    <2>1. PICK t \in Transitions, a \in Agents, att \in Nat : Begins(r, t, a, att)
      BY <1>3 DEF Opens
    <2>2. OnlyCall(r) /\ Fine(r)
      BY <2>1 DEF Begins
    <2>3. \A q \in Requests : Fine(q)
      BY <1>1, <2>2 DEF OnlyCall
    <2> QED BY <2>3 DEF Cancellations
  <1>4. ASSUME req' = req PROVE Cancellations'
    <2>1. \A q \in Requests : Fine(q)
      BY <1>1, <1>4
    <2> QED BY <2>1 DEF Cancellations
  <1>5. ASSUME Forgets PROVE Cancellations'
    BY <1>5 DEF Forgets, Cancellations
  <1> QED BY <1>0, <1>2, <1>3, <1>4, <1>5 DEF Kinds, Quits, Leaves, Misses, Reserved, Takes,
     Proceeds, Advances, Concludes, Asked, Asks, Decides, DecidesInPart, Restates, Cancels, Uses,
     Rests

-------------------------------------------------------------------------------
(* The budget. *)

LEMMA ProbingIsFinite ==
  ASSUME NEW t \in Transitions
  PROVE  /\ IsFiniteSet(Probing(t)) /\ Cardinality(Probing(t)) \in Nat
         /\ IsFiniteSet(Probing(t)') /\ Cardinality(Probing(t)') \in Nat
         /\ Cardinality(Probing(t)) <= Cardinality(Requests)
         /\ Cardinality(Probing(t)') <= Cardinality(Requests)
         /\ Cardinality(Requests) \in Nat /\ Cardinality(Requests) > 0
  <1>1. Probing(t) \subseteq Requests /\ Probing(t)' \subseteq Requests
    BY DEF Probing
  <1>2. IsFiniteSet(Requests) /\ Requests # {}
    BY RequestsAssumption
  <1>3. Cardinality(Requests) \in Nat /\ Cardinality(Requests) # 0
    BY <1>2, FS_CardinalityType, FS_EmptySet
  <1>4. /\ IsFiniteSet(Probing(t)) /\ Cardinality(Probing(t)) <= Cardinality(Requests)
        /\ IsFiniteSet(Probing(t)') /\ Cardinality(Probing(t)') <= Cardinality(Requests)
    BY <1>1, <1>2, FS_Subset
  <1> QED BY <1>3, <1>4, FS_CardinalityType

LEMMA BudgetKept ==
  ASSUME TypeOK, FunctionTypes, Calls, Budget, Kinds
  PROVE  Budget'
  <1> SUFFICES ASSUME NEW t \in Transitions
               PROVE  Len(corrections'[t]) + Cardinality(Probing(t)') <= MaxRuns(t) + Cardinality(Requests) - 1
    BY DEF Budget, MaxRuns, Relevant
  <1>0. /\ Len(corrections[t]) + Cardinality(Probing(t)) <= MaxRuns(t) + Cardinality(Requests) - 1
        /\ Len(corrections[t]) \in Nat /\ MaxRuns(t) \in Nat
        /\ Cardinality(Probing(t)) \in Nat /\ Cardinality(Probing(t)') \in Nat
        /\ Cardinality(Requests) \in Nat /\ Cardinality(Probing(t)') <= Cardinality(Requests)
    BY Numbers, MaxRunsIsNat, ProbingIsFinite DEF Budget
  <1> DEFINE Fine == Len(corrections'[t]) + Cardinality(Probing(t)') <= MaxRuns(t) + Cardinality(Requests) - 1
  <1>1. ASSUME corrections'[t] = corrections[t], Probing(t)' \subseteq Probing(t) PROVE Fine
    <2>1. Cardinality(Probing(t)') <= Cardinality(Probing(t))
      BY <1>1, ProbingIsFinite, FS_Subset
    <2> QED BY <1>0, <1>1, <2>1
  <1>2. ASSUME corrections'[t] = corrections[t], Len(corrections[t]) < MaxRuns(t) PROVE Fine
    BY <1>0, <1>2
  <1>3. ASSUME NEW r \in Requests, OnlyCall(r), req'[r].pc # "probing", corrections'[t] = corrections[t]
        PROVE  Fine
    <2>1. Probing(t)' \subseteq Probing(t)
      BY <1>3 DEF Probing, OnlyCall
    <2> QED BY <1>1, <1>3, <2>1
  <1>4. ASSUME NEW r \in Requests, Opens(r) PROVE Fine
    <2>1. PICK u \in Transitions, a \in Agents, att \in Nat : Begins(r, u, a, att)
      BY <1>4 DEF Opens
    <2>2. corrections' = corrections /\ OnlyCall(r)
      BY <2>1 DEF Begins
    <2>3. CASE req'[r].pc # "probing"
      BY <1>3, <2>2, <2>3
    <2>4. CASE req'[r].pc = "probing" /\ u = t
      <3>1. Len(corrections[t]) < MaxRuns(t)
        BY <2>1, <2>4 DEF Begins
      <3> QED BY <1>2, <2>2, <3>1
    <2>5. CASE req'[r].pc = "probing" /\ u # t
      <3>1. req'[r].t = u
        BY <2>1, <2>5 DEF Begins
      <3>2. Probing(t)' \subseteq Probing(t)
        BY <2>2, <2>5, <3>1 DEF Probing, OnlyCall
      <3> QED BY <1>1, <2>2, <3>2
    <2> QED BY <2>3, <2>4, <2>5
  <1>5. ASSUME NEW r \in Requests, Reserved(r) PROVE Fine
    <2>1. OnlyCall(r) /\ req'[r].pc = "reserved" /\ req[r].pc = "probing" /\ Corrects(req[r].t)
      BY <1>5 DEF Reserved, Takes
    <2>2. CASE t # req[r].t
      BY <1>3, <2>1, <2>2 DEF Corrects
    <2>3. CASE t = req[r].t
      <3>1. Probing(t)' = Probing(t) \ {r} /\ r \in Probing(t)
        BY <2>1, <2>3 DEF Probing, OnlyCall
      <3>2. Cardinality(Probing(t)') = Cardinality(Probing(t)) - 1
        BY <3>1, ProbingIsFinite, FS_RemoveElement
      <3>3. Len(corrections'[t]) = Len(corrections[t]) + 1
        BY <2>1, <2>3 DEF Corrects
      <3> QED BY <1>0, <3>2, <3>3
    <2> QED BY <2>2, <2>3
  <1>6. ASSUME req' = req, corrections' = corrections PROVE Fine
    BY <1>1, <1>6 DEF Probing
  <1>7. ASSUME Forgets PROVE Fine
    <2>1. Probing(t)' \subseteq Probing(t) /\ corrections' = corrections
      BY <1>7 DEF Forgets, Probing, Log
    <2> QED BY <1>1, <2>1
  <1>8. "probing" \notin InFlightPCs
    BY DEF InFlightPCs
  <1>9. ASSUME NEW r \in Requests,
               \/ Quits(r) \/ Misses(r) \/ Proceeds(r) \/ Concludes(r) \/ Asked(r) \/ Decides(r)
               \/ DecidesInPart(r) \/ Restates(r)
        PROVE  Fine
    <2>1. OnlyCall(r) /\ req'[r].pc # "probing" /\ corrections' = corrections
      BY <1>8, <1>9 DEF Quits, Leaves, Misses, Proceeds, Advances, Concludes, Asked, Asks, Decides,
         DecidesInPart, Restates, Log
    <2> QED BY <1>3, <2>1
  <1> HIDE DEF Fine
  <1>10. Fine
    BY <1>4, <1>5, <1>6, <1>7, <1>9 DEF Kinds, Cancels, Uses, Rests, Log
  <1> QED BY <1>10 DEF Fine

\* The last run is spent on an attempt; while that is the latest, calls that had
\* asked before may go on, and afterwards they find another attempt.
LEMMA SpentKept ==
  ASSUME TypeOK, FunctionTypes, Calls, Spent, Kinds
  PROVE  Spent'
  <1> DEFINE Over(t) == \A k \in MaxRuns(t) + 1 .. Len(corrections'[t]) :
                           MaxRuns(t) > 0 /\ corrections'[t][k] = corrections'[t][MaxRuns(t)]
             Left(t, q) == /\ req'[q].pc = "probing" /\ req'[q].t = t
                           /\ req'[q].att = Len(evals'[t]) /\ Len(corrections'[t]) >= MaxRuns(t)
                           => MaxRuns(t) > 0 /\ corrections'[t][MaxRuns(t)] = req'[q].att
  <1> SUFFICES ASSUME NEW t \in Transitions PROVE Over(t) /\ \A q \in Requests : Left(t, q)
    BY DEF Spent, Probing, MaxRuns, Relevant
  <1>0. /\ Longer(t) /\ MaxRuns(t) \in Nat
        /\ Len(corrections[t]) \in Nat /\ Len(evals[t]) \in Nat
    BY OnlyGrows, Numbers, MaxRunsIsNat
  <1>1. /\ \A k \in MaxRuns(t) + 1 .. Len(corrections[t]) :
              MaxRuns(t) > 0 /\ corrections[t][k] = corrections[t][MaxRuns(t)]
        /\ \A q \in Requests :
              /\ req[q].pc = "probing" /\ req[q].t = t
              /\ req[q].att = Len(evals[t]) /\ Len(corrections[t]) >= MaxRuns(t)
              => MaxRuns(t) > 0 /\ corrections[t][MaxRuns(t)] = req[q].att
    BY DEF Spent, Probing
  <1>2. ASSUME corrections'[t] = corrections[t] PROVE Over(t)
    BY <1>1, <1>2
  <1>3. ASSUME corrections'[t] = corrections[t], NEW q \in Requests, req'[q] = req[q]
        PROVE  Left(t, q)
    <2> SUFFICES ASSUME req[q].pc = "probing", req[q].t = t, req[q].att = Len(evals'[t]),
                        Len(corrections[t]) >= MaxRuns(t)
                 PROVE  MaxRuns(t) > 0 /\ corrections[t][MaxRuns(t)] = req[q].att
      BY <1>3
    <2>1. req[q].att <= Len(evals[t]) /\ req[q].att \in Nat
      BY Numbers DEF Calls, CallIsTrue, Attempt
    <2>2. req[q].att = Len(evals[t])
      BY <1>0, <2>1 DEF Longer
    <2> QED BY <1>1, <2>2
  <1>4. ASSUME NEW r \in Requests, OnlyCall(r), corrections'[t] = corrections[t], Left(t, r)
        PROVE  Over(t) /\ \A q \in Requests : Left(t, q)
    <2>1. ASSUME NEW q \in Requests, q # r PROVE Left(t, q)
      <3>1. req'[q] = req[q]
        BY <1>4, <2>1 DEF OnlyCall
      <3> QED BY <1>3, <1>4, <3>1
    <2> HIDE DEF Left, Over
    <2> QED BY <1>2, <1>4, <2>1
  <1>5. ASSUME NEW r \in Requests, Opens(r) PROVE Over(t) /\ \A q \in Requests : Left(t, q)
    <2>1. PICK u \in Transitions, a \in Agents, att \in Nat : Begins(r, u, a, att)
      BY <1>5 DEF Opens
    <2>2. corrections' = corrections /\ OnlyCall(r)
      BY <2>1 DEF Begins
    <2>3. Left(t, r)
      <3>1. req'[r].pc = "probing" => req'[r].t = u /\ Len(corrections[u]) < MaxRuns(u)
        BY <2>1 DEF Begins
      <3> QED BY <1>0, <2>2, <3>1
    <2> HIDE DEF Left, Over
    <2> QED BY <1>4, <2>2, <2>3
  <1>6. ASSUME NEW r \in Requests, Reserved(r) PROVE Over(t) /\ \A q \in Requests : Left(t, q)
    <2>1. /\ OnlyCall(r) /\ req'[r].pc = "reserved" /\ req[r].pc = "probing"
          /\ Corrects(req[r].t) /\ evals' = evals /\ req[r].att = Len(evals[req[r].t])
      BY <1>6 DEF Reserved, Takes
    <2>2. Left(t, r)
      BY <2>1
    <2>3. CASE t # req[r].t
      <3>1. corrections'[t] = corrections[t]
        BY <2>1, <2>3 DEF Corrects
      <3> HIDE DEF Left, Over
      <3> QED BY <1>4, <2>1, <2>2, <3>1
    <2>4. CASE t = req[r].t
      <3> DEFINE n == Len(corrections[t])
      <3>1. /\ Len(corrections'[t]) = n + 1 /\ corrections'[t][n + 1] = Len(evals[t])
            /\ \A k \in 1..n : corrections'[t][k] = corrections[t][k]
        BY <2>1, <2>4 DEF Corrects
      <3>2. n >= MaxRuns(t) => MaxRuns(t) > 0 /\ corrections[t][MaxRuns(t)] = Len(evals[t])
        BY <1>1, <2>1, <2>4
      <3>3. MaxRuns(t) > 0 /\ n + 1 >= MaxRuns(t) => corrections'[t][MaxRuns(t)] = Len(evals[t])
        <4>1. CASE n + 1 = MaxRuns(t)
          BY <3>1, <4>1
        <4>2. CASE n >= MaxRuns(t)
          BY <1>0, <3>1, <3>2, <4>2
        <4> QED BY <1>0, <4>1, <4>2
      <3>4. n + 1 >= MaxRuns(t) => MaxRuns(t) > 0
        BY <1>0, <3>2
      <3>5. Over(t)
        <4> SUFFICES ASSUME NEW k \in MaxRuns(t) + 1 .. n + 1
                     PROVE  MaxRuns(t) > 0 /\ corrections'[t][k] = corrections'[t][MaxRuns(t)]
          BY <3>1
        <4>1. n >= MaxRuns(t)
          BY <1>0
        <4>2. CASE k = n + 1
          BY <1>0, <3>1, <3>3, <3>4, <4>1, <4>2
        <4>3. CASE k \in MaxRuns(t) + 1 .. n
          <5>1. MaxRuns(t) > 0 /\ corrections[t][k] = corrections[t][MaxRuns(t)]
            BY <1>1, <4>3
          <5>2. k \in 1..n /\ MaxRuns(t) \in 1..n
            BY <1>0, <4>1, <4>3, <5>1
          <5> QED BY <3>1, <5>1, <5>2
        <4> QED BY <1>0, <4>2, <4>3
      <3>6. ASSUME NEW q \in Requests PROVE Left(t, q)
        BY <2>1, <3>1, <3>3, <3>4
      <3> QED BY <3>5, <3>6
    <2> QED BY <2>3, <2>4
  <1>7. ASSUME req' = req, corrections' = corrections
        PROVE  Over(t) /\ \A q \in Requests : Left(t, q)
    <2> HIDE DEF Left, Over
    <2> QED BY <1>2, <1>3, <1>7
  <1>8. ASSUME Forgets PROVE Over(t) /\ \A q \in Requests : Left(t, q)
    <2>1. corrections' = corrections /\ \A q \in Requests : req'[q].pc = "idle"
      BY <1>8 DEF Forgets, Log
    <2> QED BY <1>2, <2>1
  <1>9. "probing" \notin InFlightPCs
    BY DEF InFlightPCs
  <1>10. ASSUME NEW r \in Requests,
                \/ Quits(r) \/ Misses(r) \/ Proceeds(r) \/ Concludes(r) \/ Asked(r) \/ Decides(r)
                \/ DecidesInPart(r) \/ Restates(r)
         PROVE  Over(t) /\ \A q \in Requests : Left(t, q)
    <2>1. OnlyCall(r) /\ req'[r].pc # "probing" /\ corrections' = corrections
      BY <1>9, <1>10 DEF Quits, Leaves, Misses, Proceeds, Advances, Concludes, Asked, Asks, Decides,
         DecidesInPart, Restates, Log
    <2>2. Left(t, r)
      BY <2>1
    <2> HIDE DEF Left, Over
    <2> QED BY <1>4, <2>1, <2>2
  <1> HIDE DEF Left, Over
  <1> QED BY <1>5, <1>6, <1>7, <1>8, <1>10 DEF Kinds, Cancels, Uses, Rests, Log

-------------------------------------------------------------------------------
(* The types. *)

\* The state as functions, without what relates one variable to another.
Shapes ==
    /\ evals \in [Transitions -> Seq(Runs \cup {NoRun})] /\ verdict \in [Transitions -> Verdicts]
    /\ cycle \in [Transitions -> {"none", "open", "cancelled"}]
    /\ said \in [Transitions -> SayType]
    /\ FunctionTypes
    /\ active \in [Agents -> Runs \cup {NoRun, UserRun}]
    /\ turn \in [Agents -> Requests \cup {"none", "claimed", "run"}]
    /\ req \in [Requests -> ReqType]
    /\ fresh \subseteq Requests /\ lost \in BOOLEAN
    /\ actions \in 0..MaxActions /\ faults \in 0..MaxFaults

LEMMA RecordedRuns == ASSUME FunctionTypes PROVE Recorded \subseteq Runs
  BY DEF Recorded, Runs, FunctionTypes

LEMMA TypeHasShape ==
  ASSUME TypeOK, FunctionTypes
  PROVE  Shapes
  <1>1. active \in [Agents -> Runs \cup {NoRun, UserRun}]
    BY RecordedRuns DEF TypeOK
  <1> QED BY <1>1 DEF TypeOK, Shapes, ReqType, SayType

LEMMA SetShape ==
  ASSUME Shapes, NEW by, NEW a \in Agents, NEW run \in Runs \cup {NoRun, UserRun}, SetActive(by, a, run)
  PROVE  active' \in [Agents -> Runs \cup {NoRun, UserRun}] /\ lost' \in BOOLEAN
  <1>1. active' \in [Agents -> Runs \cup {NoRun, UserRun}]
    BY DEF SetActive, Shapes
  <1>2. lost' \in BOOLEAN
    BY DEF SetActive
  <1> QED BY <1>1, <1>2

LEMMA ReleaseShape ==
  ASSUME Shapes, NEW r \in Requests, Release(r)
  PROVE  active' \in [Agents -> Runs \cup {NoRun, UserRun}] /\ lost' \in BOOLEAN
  BY DEF Release, Shapes

LEMMA RecordShape ==
  ASSUME Shapes, NEW t \in Transitions, NEW run \in Runs \cup {NoRun}, Record(t, run)
  PROVE  /\ evals' \in [Transitions -> Seq(Runs \cup {NoRun})] /\ verdict' \in [Transitions -> Verdicts]
         /\ fresh' \subseteq Requests
  BY AttemptRecorded DEF Shapes

LEMMA ShapesKept ==
  ASSUME TypeOK, FunctionTypes, Calls, [Next]_vars
  PROVE  Shapes'
  <1>0. Shapes
    BY TypeHasShape
  <1> DEFINE Log0 == /\ evals' \in [Transitions -> Seq(Runs \cup {NoRun})]
                     /\ verdict' \in [Transitions -> Verdicts]
                     /\ cycle' \in [Transitions -> {"none", "open", "cancelled"}]
                     /\ said' \in [Transitions -> SayType]
                     /\ FunctionTypes'
             Entries == active' \in [Agents -> Runs \cup {NoRun, UserRun}] /\ lost' \in BOOLEAN
             Turns == turn' \in [Agents -> Requests \cup {"none", "claimed", "run"}]
             Reqs == req' \in [Requests -> ReqType]
             Rest == fresh' \subseteq Requests /\ actions' \in 0..MaxActions /\ faults' \in 0..MaxFaults
  <1>1. (UNCHANGED ledger => Log0) /\ (UNCHANGED <<active, lost>> => Entries) /\ (turn' = turn => Turns)
        /\ (req' = req => Reqs)
    BY <1>0 DEF Shapes, ledger, attempts, cycles, FunctionTypes
  <1>2. fresh' = {} \/ fresh' = fresh => fresh' \subseteq Requests
    BY <1>0 DEF Shapes
  <1>3. (actions' = actions => actions' \in 0..MaxActions) /\ (faults' = faults => faults' \in 0..MaxFaults)
    BY <1>0 DEF Shapes
  <1>4. \A r \in Requests : Done(r) => Reqs
    BY <1>0, Ends DEF Shapes
  <1>5. \A r \in Requests, l \in PCs : Goto(r, l) => Reqs
    BY <1>0, Moves DEF Shapes
  <1>6. {"reserved", "preparing", "working", "observing", "evaluating", "evaluated", "acting",
         "repinning", "judging"} \subseteq PCs
    BY DEF PCs, InFlightPCs
  <1>7. ASSUME NEW r \in Requests, NEW t \in Transitions, NEW a \in Agents, NEW att \in Nat,
               NEW reserved, att > 0, Begin(r, t, a, att, reserved)
        PROVE  Log0 /\ Reqs /\ fresh' \subseteq Requests
    <2>1. CASE Attempt(t) > 0
      <3>1. /\ UNCHANGED <<evals, verdict, corrections, acted>> /\ Reqs
            /\ cycle' \in [Transitions -> {"none", "open", "cancelled"}]
            /\ said' \in [Transitions -> SayType] /\ fresh' \subseteq Requests
        BY <1>0, <1>7, <2>1, Begun DEF Shapes
      <3> QED BY <1>0, <3>1 DEF Shapes, FunctionTypes
    <2>2. CASE ~(Attempt(t) > 0)
      <3>1. Attempt(t) # att
        BY <1>7, <2>2
      <3>2. Done(r) /\ UNCHANGED <<ledger, fresh>>
        BY <1>7, <3>1 DEF Begin, ledger, attempts, cycles
      <3> QED BY <1>1, <1>2, <1>4, <3>2
    <2> QED BY <2>1, <2>2
  <1>8. ASSUME NEW r \in Requests, CorrectionStep(r) PROVE Shapes'
    <2>1. ASSUME NEW t \in Transitions, NEW a \in Agents, Start(r, t, a) PROVE Log0 /\ Entries /\ Turns /\ Reqs /\ Rest
      <3>1. Attempt(t) \in Nat /\ Attempt(t) > 0
        BY <1>0, <2>1 DEF Start, Attempt, Shapes
      <3>2. Log0 /\ Reqs /\ fresh' \subseteq Requests
        BY <1>7, <2>1, <3>1 DEF Start
      <3> QED BY <1>1, <1>3, <2>1, <3>2 DEF Start
    <2>2. ASSUME ProbeFails(r) PROVE Log0 /\ Entries /\ Turns /\ Reqs /\ Rest
      <3>1. said' \in [Transitions -> SayType]
        <4>1. CASE said' = said
          BY <1>0, <4>1 DEF Shapes
        <4>2. CASE Says(req[r].t, "unavailable", FALSE, req[r].att)
          <5>1. req[r].t \in Transitions /\ req[r].att \in Nat /\ "unavailable" \in Escalations \cup Waits
            BY <1>0, <2>2 DEF ProbeFails, Calls, CallIsTrue, Shapes, ReqType, Waits
          <5> QED BY <1>0, <4>2, <5>1, Said DEF Shapes
        <4> QED BY <2>2, <4>1, <4>2 DEF ProbeFails
      <3>2. UNCHANGED <<evals, verdict, cycle, corrections, acted, active, turn, lost, actions, faults>> /\ Done(r)
            /\ (fresh' = {} \/ fresh' = fresh)
        BY <2>2 DEF ProbeFails, attempts, LogGrows
      <3> QED BY <1>0, <1>1, <1>2, <1>3, <1>4, <3>1, <3>2 DEF Shapes, FunctionTypes
    <2>3. ASSUME ProbeSucceeds(r) PROVE Log0 /\ Entries /\ Turns /\ Reqs /\ Rest
      <3>1. CASE ~Rechecked(r)
        <4>1. UNCHANGED <<ledger, active, turn, lost, fresh, actions, faults>> /\ Done(r)
          BY <2>3, <3>1 DEF ProbeSucceeds, ledger, attempts, cycles
        <4> QED BY <1>1, <1>2, <1>3, <1>4, <4>1
      <3>2. CASE Rechecked(r)
        <4> DEFINE t == req[r].t
                   k == Len(corrections[t]) + 1
        <4>1. t \in Transitions /\ req[r].a \in Agents /\ k \in Nat /\ Len(evals[t]) \in Nat
          BY <2>3, Numbers DEF ProbeSucceeds, Calls, CallIsTrue
        <4>2. /\ corrections' = [corrections EXCEPT ![t] = Append(corrections[t], Len(evals[t]))] /\ Unsays(t)
              /\ verdict' = [verdict EXCEPT ![t] = "unchanged"]
              /\ SetActive(r, req[r].a, <<t, k>>)
              /\ req' = [req EXCEPT ![r].pc = "reserved", ![r].k = k, ![r].saw = FALSE]
              /\ fresh' = {} /\ UNCHANGED <<evals, cycle, acted, turn, actions, faults>>
          BY <2>3, <3>2 DEF ProbeSucceeds, Reserves, NextIndex, Attempt, LogGrows
        <4>3. <<t, k>> \in Runs
          BY <4>1 DEF Runs
        <4>4. Entries
          BY <1>0, <4>1, <4>2, <4>3, SetShape
        <4>5. said' \in [Transitions -> SayType]
          BY <1>0, <4>1, <4>2, Unsaid DEF Shapes
        <4>6. verdict' \in [Transitions -> Verdicts]
          BY <1>0, <4>2 DEF Shapes, Verdicts
        <4>7. corrections' \in [Transitions -> Seq(Nat)]
          <5>1. Append(corrections[t], Len(evals[t])) \in Seq(Nat)
            BY <1>0, <4>1 DEF Shapes, FunctionTypes
          <5> QED BY <1>0, <4>2, <5>1 DEF Shapes, FunctionTypes
        <4> HIDE DEF k
        <4>8. Reqs
          <5>1. req[r] \in ReqType /\ "reserved" \in PCs /\ k \in Nat
            BY <1>0, <1>6, <4>1 DEF Shapes
          <5>2. [req[r] EXCEPT !.pc = "reserved", !.k = k, !.saw = FALSE] \in ReqType
            BY <5>1 DEF ReqType
          <5>3. req' = [req EXCEPT ![r] = [req[r] EXCEPT !.pc = "reserved", !.k = k, !.saw = FALSE]]
            BY <1>0, <4>2 DEF Shapes
          <5> QED BY <1>0, <5>2, <5>3 DEF Shapes
        <4> QED BY <1>0, <1>1, <1>2, <1>3, <4>2, <4>4, <4>5, <4>6, <4>7, <4>8 DEF Shapes,
           FunctionTypes
      <3> QED BY <3>1, <3>2
    <2>4. ASSUME Claim(r) PROVE Log0 /\ Entries /\ Turns /\ Reqs /\ Rest
      <3>1. Turns
        BY <1>0, <2>4 DEF Claim, Shapes
      <3> QED BY <1>1, <1>2, <1>3, <1>5, <1>6, <2>4, <3>1 DEF Claim
    <2>5. ASSUME Dispatch(r) PROVE Log0 /\ Entries /\ Turns /\ Reqs /\ Rest
      <3>1. req[r].a \in Agents /\ Run(r) \in Runs
        BY <1>0, <2>5 DEF Dispatch, Calls, CallIsTrue, InFlightPCs, Run, Runs, Shapes, ReqType
      <3>2. Entries
        BY <1>0, <2>5, <3>1, SetShape DEF Dispatch
      <3> QED BY <1>1, <1>2, <1>3, <1>5, <1>6, <2>5, <3>2 DEF Dispatch, LogGrows
    <2>6. ASSUME SendFails(r) PROVE Log0 /\ Entries /\ Turns /\ Reqs /\ Rest
      <3>1. req[r].a \in Agents
        BY <2>6 DEF SendFails, Calls, CallIsTrue, InFlightPCs
      <3>2. Entries
        BY <1>0, <2>6, <3>1, SetShape DEF SendFails
      <3>3. Turns
        BY <1>0, <2>6 DEF SendFails, Shapes
      <3> QED BY <1>1, <1>2, <1>3, <1>4, <2>6, <3>2, <3>3 DEF SendFails, LogGrows
    <2>7. ASSUME TurnEnds(r) PROVE Log0 /\ Entries /\ Turns /\ Reqs /\ Rest
      <3>1. Turns
        BY <1>0, <2>7 DEF TurnEnds, Shapes
      <3> QED BY <1>1, <1>2, <1>3, <1>4, <1>5, <1>6, <2>7, <3>1 DEF TurnEnds, LogGrows
    <2>8. ASSUME Observed(r) PROVE Log0 /\ Entries /\ Turns /\ Reqs /\ Rest
      <3>1. Reqs
        BY <1>4, <1>5, <1>6, <2>8 DEF Observed
      <3>2. fresh' \subseteq Requests
        BY <1>0, <2>8 DEF Observed, Capture, Shapes
      <3> QED BY <1>1, <1>3, <2>8, <3>1, <3>2 DEF Observed
    <2>9. ASSUME Evaluates(r) PROVE Log0 /\ Entries /\ Turns /\ Reqs /\ Rest
      <3>1. req[r].t \in Transitions /\ Run(r) \in Runs
        BY <1>0, <2>9 DEF Evaluates, Calls, CallIsTrue, Run, Runs, Shapes, ReqType
      <3>2. /\ evals' \in [Transitions -> Seq(Runs \cup {NoRun})] /\ verdict' \in [Transitions -> Verdicts]
            /\ fresh' \subseteq Requests
        BY <1>0, <2>9, <3>1, RecordShape DEF Evaluates
      <3>3. said' \in [Transitions -> SayType]
        BY <1>0, <2>9, <3>1, Outdated DEF Evaluates, Shapes
      <3> QED BY <1>0, <1>1, <1>3, <1>5, <1>6, <2>9, <3>2, <3>3 DEF Evaluates, Shapes, FunctionTypes
    <2>10. ASSUME EvaluationFails(r) PROVE Log0 /\ Entries /\ Turns /\ Reqs /\ Rest
      <3>1. Entries
        BY <1>0, <2>10, ReleaseShape DEF EvaluationFails
      <3>2. fresh' \subseteq Requests
        BY <1>0, <2>10 DEF EvaluationFails, Forget, Shapes
      <3> QED BY <1>1, <1>3, <1>4, <2>10, <3>1, <3>2 DEF EvaluationFails
    <2>11. ASSUME Continues(r) PROVE Log0 /\ Entries /\ Turns /\ Reqs /\ Rest
      <3>1. Entries
        BY <1>0, <2>11, ReleaseShape DEF Continues
      <3>2. req[r].t \in Transitions /\ req[r].a \in Agents /\ req[r].att + 1 \in Nat /\ req[r].att + 1 > 0
        BY <2>11, Numbers DEF Continues, Calls, CallIsTrue, InFlightPCs
      <3>3. Log0 /\ Reqs /\ fresh' \subseteq Requests
        <4>r. PICK reserved : reserved = active'
          OBVIOUS
        <4>1. CASE Begin(r, req[r].t, req[r].a, req[r].att + 1, reserved)
          <5> HIDE DEF Log0, Reqs
          <5> QED BY <1>7, <3>2, <4>1
        <4>2. CASE Done(r) /\ UNCHANGED <<ledger, fresh>>
          BY <1>1, <1>2, <1>4, <4>2
        <4>3. Begin(r, req[r].t, req[r].a, req[r].att + 1, active')
                 => Begin(r, req[r].t, req[r].a, req[r].att + 1, reserved)
          BY <4>r DEF Begin, LiveIn
        <4> HIDE DEF Log0, Reqs
        <4> QED BY <2>11, <4>1, <4>2, <4>3 DEF Continues
      <3> QED BY <1>1, <1>3, <2>11, <3>1, <3>3 DEF Continues
    <2>12. Log0 /\ Entries /\ Turns /\ Reqs /\ Rest
      <3> HIDE DEF Log0, Entries, Turns, Reqs, Rest
      <3> QED BY <1>8, <2>1, <2>2, <2>3, <2>4, <2>5, <2>6, <2>7, <2>8, <2>9, <2>10, <2>11
         DEF CorrectionStep
    <2> QED BY <2>12 DEF Shapes, FunctionTypes
  <1>9. ASSUME NEW r \in Requests, ActionStep(r) PROVE Shapes'
    <2>1. ASSUME NEW t \in Transitions, Act(r, t) \/ Repin(r, t) \/ Judge(r, t)
          PROVE  Log0 /\ Entries /\ Turns /\ Reqs /\ Rest
      <3>1. PICK l \in {"acting", "repinning", "judging"} : Ask(r, t, l)
        BY <2>1 DEF Act, Repin, Judge
      <3>2. Attempt(t) \in Nat /\ MaxActions \in Nat /\ actions \in Nat
        BY <1>0, BoundsAssumption DEF Attempt, Shapes
      <3>3. [Idle EXCEPT !.pc = l, !.t = t, !.att = Attempt(t)] \in ReqType
        BY <1>6, <3>2 DEF Idle, ReqType
      <3>4. Reqs
        BY <1>0, <3>1, <3>3 DEF Ask, Shapes
      <3>5. Rest
        BY <1>0, <1>3, <3>1, <3>2 DEF Ask, Capture, Shapes
      <3> QED BY <1>1, <3>1, <3>4, <3>5 DEF Ask
    <2>2. ASSUME AskFails(r) PROVE Log0 /\ Entries /\ Turns /\ Reqs /\ Rest
      <3>1. fresh' \subseteq Requests
        BY <1>0, <2>2 DEF AskFails, Forget, Shapes
      <3> QED BY <1>1, <1>3, <1>4, <2>2, <3>1 DEF AskFails
    <2>3. ASSUME req[r].pc \in {"acting", "repinning", "judging"}
          PROVE  req[r].t \in Transitions /\ req[r].att \in Nat
      BY <1>0, <2>3 DEF Calls, CallIsTrue, Shapes, ReqType
    <2>4. ASSUME Acts(r) PROVE Log0 /\ Entries /\ Turns /\ Reqs /\ Rest
      <3>1. /\ evals' \in [Transitions -> Seq(Runs \cup {NoRun})] /\ verdict' \in [Transitions -> Verdicts]
            /\ fresh' \subseteq Requests
        BY <1>0, <2>3, <2>4, RecordShape DEF Acts
      <3>2. said' \in [Transitions -> SayType]
        BY <1>0, <2>3, <2>4, Outdated DEF Acts, Shapes
      <3>3. acted' \in [Transitions -> Nat]
        BY <1>0, <2>3, <2>4 DEF Acts, Shapes, FunctionTypes
      <3> QED BY <1>0, <1>1, <1>3, <1>4, <2>4, <3>1, <3>2, <3>3 DEF Acts, Shapes, FunctionTypes
    <2>5. ASSUME ActsInPart(r) PROVE Log0 /\ Entries /\ Turns /\ Reqs /\ Rest
      <3>1. said' \in [Transitions -> SayType]
        BY <1>0, <2>3, <2>5, Resaid DEF ActsInPart, Shapes
      <3>2. acted' \in [Transitions -> Nat]
        BY <1>0, <2>3, <2>5 DEF ActsInPart, Shapes, FunctionTypes
      <3>3. faults' \in 0..MaxFaults
        BY <1>0, <2>5, BoundsAssumption DEF ActsInPart, Shapes
      <3> QED BY <1>0, <1>1, <1>2, <1>3, <1>4, <2>5, <3>1, <3>2, <3>3 DEF ActsInPart, attempts,
         LogGrows, Shapes, FunctionTypes
    <2>6. ASSUME Repins(r) PROVE Log0 /\ Entries /\ Turns /\ Reqs /\ Rest
      <3>1. PICK u \in Unused : Record(u, NoRun)
        BY <2>6 DEF Repins
      <3>2. /\ evals' \in [Transitions -> Seq(Runs \cup {NoRun})] /\ verdict' \in [Transitions -> Verdicts]
            /\ fresh' \subseteq Requests
        BY <1>0, <3>1, RecordShape DEF Unused
      <3>3. said' \in [Transitions -> SayType]
        BY <1>0, <2>3, <2>6, Unsaid DEF Repins, Shapes
      <3>4. acted' \in [Transitions -> Nat] /\ cycle' \in [Transitions -> {"none", "open", "cancelled"}]
        BY <1>0, <2>3, <2>6 DEF Repins, Shapes, FunctionTypes
      <3> QED BY <1>0, <1>1, <1>3, <1>4, <2>6, <3>2, <3>3, <3>4 DEF Repins, Shapes, FunctionTypes
    <2>7. ASSUME Judges(r) PROVE Log0 /\ Entries /\ Turns /\ Reqs /\ Rest
      <3>1. /\ evals' \in [Transitions -> Seq(Runs \cup {NoRun})] /\ verdict' \in [Transitions -> Verdicts]
            /\ fresh' \subseteq Requests
        BY <1>0, <2>3, <2>7, RecordShape DEF Judges
      <3>2. said' \in [Transitions -> SayType]
        BY <1>0, <2>3, <2>7, Outdated DEF Judges, Shapes
      <3> QED BY <1>0, <1>1, <1>3, <1>4, <2>7, <3>1, <3>2 DEF Judges, Shapes, FunctionTypes
    <2>8. Log0 /\ Entries /\ Turns /\ Reqs /\ Rest
      <3> HIDE DEF Log0, Entries, Turns, Reqs, Rest
      <3> QED BY <1>9, <2>1, <2>2, <2>4, <2>5, <2>6, <2>7 DEF ActionStep
    <2> QED BY <2>8 DEF Shapes, FunctionTypes
  <1>10. ASSUME ThreadStep PROVE Shapes'
    <2>1. ASSUME NEW t \in Transitions, Cancel(t) PROVE Log0 /\ Entries /\ Turns /\ Reqs /\ Rest
      <3>1. Attempt(t) \in Nat
        BY <1>0 DEF Attempt, Shapes
      <3>2. said' \in [Transitions -> SayType]
        BY <1>0, <2>1, Unsaid DEF Cancel, Shapes
      <3>3. acted' \in [Transitions -> Nat] /\ cycle' \in [Transitions -> {"none", "open", "cancelled"}]
        BY <1>0, <2>1, <3>1 DEF Cancel, AppendAction, Shapes, FunctionTypes
      <3> QED BY <1>0, <1>1, <1>2, <1>3, <2>1, <3>2, <3>3 DEF Cancel, AppendAction, LogGrows,
         attempts, Shapes, FunctionTypes
    <2>2. ASSUME NEW a \in Agents, UserClaims(a) \/ UserRuns(a) \/ UserEnds(a)
          PROVE  Log0 /\ Entries /\ Turns /\ Reqs /\ Rest
      <3>1. Turns
        BY <1>0, <2>2 DEF UserClaims, UserRuns, UserEnds, Shapes
      <3>2. Entries
        BY <1>1, <2>2, <1>0, SetShape DEF UserClaims, UserRuns, UserEnds
      <3>3. UNCHANGED <<ledger, req, actions, faults>> /\ (fresh' = {} \/ fresh' = fresh)
        BY <2>2 DEF UserClaims, UserRuns, UserEnds, LogGrows
      <3> QED BY <1>1, <1>2, <1>3, <3>1, <3>2, <3>3
    <2>3. ASSUME OtherEvent PROVE Log0 /\ Entries /\ Turns /\ Reqs /\ Rest
      BY <1>1, <1>2, <1>3, <2>3 DEF OtherEvent, LogGrows
    <2>4. ASSUME Restart PROVE Log0 /\ Entries /\ Turns /\ Reqs /\ Rest
      <3>1. Idle \in ReqType
        BY DEF Idle, ReqType, PCs
      <3>2. Entries /\ Turns /\ Reqs
        BY <1>0, <2>4, <3>1 DEF Restart, Shapes
      <3>3. Rest
        BY <1>0, <1>3, <2>4, BoundsAssumption DEF Restart, Shapes
      <3> QED BY <1>1, <2>4, <3>2, <3>3 DEF Restart
    <2>5. Log0 /\ Entries /\ Turns /\ Reqs /\ Rest
      <3> HIDE DEF Log0, Entries, Turns, Reqs, Rest
      <3> QED BY <1>10, <2>1, <2>2, <2>3, <2>4 DEF ThreadStep
    <2> QED BY <2>5 DEF Shapes, FunctionTypes
  <1>11. ASSUME UNCHANGED vars PROVE Shapes'
    BY <1>0, <1>11 DEF vars, ledger, attempts, cycles, Shapes, FunctionTypes
  <1> QED BY <1>8, <1>9, <1>10, <1>11 DEF Next

\* The entries are corrections in the log.
LEMMA EntriesRecorded ==
  ASSUME TypeOK, FunctionTypes, Calls, Kinds, NEW a \in Agents
  PROVE  active'[a] \in Recorded' \cup {NoRun, UserRun}
  <1>0. active[a] \in Recorded \cup {NoRun, UserRun}
    BY DEF TypeOK
  <1>1. ASSUME active[a] \in Recorded PROVE active[a] \in Recorded'
    <2>1. PICK t \in Transitions : active[a] \in {t} \X (1..Len(corrections[t]))
      BY <1>1 DEF Recorded
    <2>2. 1..Len(corrections[t]) \subseteq 1..Len(corrections'[t])
      BY OnlyGrows DEF Longer
    <2> QED BY <2>1, <2>2 DEF Recorded
  <1>2. ASSUME active'[a] \in {active[a], NoRun, UserRun}
        PROVE  active'[a] \in Recorded' \cup {NoRun, UserRun}
    BY <1>0, <1>1, <1>2
  <1>3. ASSUME NEW r \in Requests, Reserved(r) PROVE active'[a] \in Recorded' \cup {NoRun, UserRun}
    <2> DEFINE t == req[r].t
               k == Len(corrections[t]) + 1
    <2>1. t \in Transitions /\ active'[a] \in {active[a], <<t, k>>} /\ Len(corrections'[t]) = k
      BY <1>3 DEF Reserved, Takes, Sets, Corrects
    <2>2. k \in 1..Len(corrections'[t])
      BY <2>1, Numbers
    <2>3. <<t, k>> \in Recorded'
      BY <2>1, <2>2 DEF Recorded
    <2> QED BY <1>2, <2>1, <2>3
  <1>4. ASSUME NEW r \in Requests, Proceeds(r) PROVE active'[a] \in Recorded' \cup {NoRun, UserRun}
    <2>1. InFlight(r) /\ active'[a] \in {active[a], Run(r)}
      BY <1>4 DEF Proceeds, Advances, InFlight, Sets
    <2>2. Run(r) \in Recorded /\ corrections' = corrections
      BY <1>4, <2>1, FlightIsReal DEF Run, Recorded, Proceeds, Log
    <2>3. Recorded' = Recorded
      BY <2>2 DEF Recorded
    <2> QED BY <1>2, <2>1, <2>2, <2>3
  <1>5. ASSUME NEW r \in Requests, Opens(r) \/ Quits(r) PROVE active'[a] \in {active[a], NoRun}
    BY <1>5 DEF Opens, Quits, LetsGo, Releases, Sets
  <1>6. ASSUME NEW b \in Agents, Uses(b) PROVE active'[a] \in {active[a], NoRun, UserRun}
    BY <1>6 DEF Uses, Sets
  <1>7. ASSUME Forgets PROVE active'[a] = NoRun
    BY <1>7 DEF Forgets
  <1> QED BY <1>2, <1>3, <1>4, <1>5, <1>6, <1>7 DEF Kinds, Misses, Concludes, Asked, Decides,
     DecidesInPart, Restates, Cancels, Rests

LEMMA AttemptsOfCorrections ==
  ASSUME TypeOK, FunctionTypes, Kinds, NEW t \in Transitions, corrections'[t] \in Seq(Nat)
  PROVE  corrections'[t] \in Seq(1..Len(evals'[t]))
  <1>1. corrections[t] \in Seq(1..Len(evals[t])) /\ Longer(t)
    BY OnlyGrows DEF TypeOK, Attempt
  <1>2. \A k \in 1..Len(corrections[t]) : corrections[t][k] \in 1..Len(evals[t])
    BY <1>1
  <1>3. \A k \in 1..Len(corrections[t]) : corrections'[t][k] \in 1..Len(evals'[t])
    <2>1. 1..Len(evals[t]) \subseteq 1..Len(evals'[t])
      BY <1>1 DEF Longer
    <2>2. \A k \in 1..Len(corrections[t]) : corrections'[t][k] = corrections[t][k]
      BY <1>1 DEF Longer
    <2> QED BY <1>2, <2>1, <2>2
  <1>4. \A k \in 1..Len(corrections'[t]) : corrections'[t][k] \in 1..Len(evals'[t])
    <2>1. CASE corrections'[t] = corrections[t]
      BY <1>3, <2>1
    <2>2. CASE corrections'[t] # corrections[t]
      <3>1. PICK r \in Requests : Reserved(r)
        BY <2>2 DEF Kinds, Opens, Begins, Quits, Misses, Proceeds, Concludes, Asked, Decides,
           DecidesInPart, Restates, Cancels, Uses, Forgets, Rests, Log
      <3>2. t = req[r].t
        BY <2>2, <3>1 DEF Reserved, Takes, Corrects
      <3>3. /\ Len(corrections'[t]) = Len(corrections[t]) + 1
            /\ corrections'[t][Len(corrections[t]) + 1] = Len(evals[t])
            /\ evals' = evals /\ Len(evals[t]) = req[r].att /\ acted[t] < req[r].att
        BY <3>1, <3>2 DEF Reserved, Takes, Corrects
      <3>4. Len(evals[t]) \in 1..Len(evals[t])
        BY <3>3, Numbers
      <3> QED BY <1>1, <1>3, <3>3, <3>4 DEF Longer
    <2> QED BY <2>1, <2>2
  <1> QED BY <1>4

LEMMA TypesKept ==
  ASSUME TypeOK, FunctionTypes, Calls, [Next]_vars
  PROVE  TypeOK' /\ FunctionTypes'
  <1>1. Shapes' /\ Kinds
    BY ShapesKept, StepsAreOfAKind
  <1>2. ASSUME NEW t \in Transitions
        PROVE  corrections'[t] \in Seq(1..Len(evals'[t])) /\ acted'[t] \in 0..Len(evals'[t])
    BY <1>1, AttemptsOfCorrections, OnlyGrows DEF Shapes, FunctionTypes, Longer
  <1>3. active' \in [Agents -> Recorded' \cup {NoRun, UserRun}]
    BY <1>1, EntriesRecorded DEF Shapes
  <1> QED BY <1>1, <1>2, <1>3 DEF Shapes, TypeOK, Attempt, ReqType, SayType

-------------------------------------------------------------------------------
(* The theorems. *)

LEMMA InitHolds ==
  ASSUME Init
  PROVE  IInv
  <1> USE DEF Init
  <1>0. /\ \A t \in Transitions : evals[t] = <<>> \/ evals[t] = <<NoRun>>
        /\ \A t \in Transitions : corrections[t] = <<>> /\ acted[t] = 0 /\ cycle[t] = "none" /\ said[t] = Nothing
        /\ \A a \in Agents : active[a] = NoRun
        /\ \A r \in Requests : req[r].pc = "idle"
    BY DEF Idle
  <1>1. "idle" \notin InFlightPCs /\ "idle" # "probing"
    BY DEF InFlightPCs
  <1>2. \A t \in Transitions : Attempt(t) \in Nat
    BY <1>0 DEF Attempt
  <1>3. TypeOK
    <2>1. Nothing \in SayType /\ Idle \in ReqType /\ "retry" \in Verdicts
      BY DEF Nothing, SayType, Idle, ReqType, PCs, Verdicts
    <2>2. <<>> \in Seq(Runs \cup {NoRun}) /\ <<NoRun>> \in Seq(Runs \cup {NoRun})
      OBVIOUS
    <2>3. evals \in [Transitions -> Seq(Runs \cup {NoRun})]
      BY <2>2
    <2>4. \A t \in Transitions : corrections[t] \in Seq(1..Attempt(t)) /\ acted[t] \in 0..Attempt(t)
      BY <1>0, <1>2
    <2>5. verdict \in [Transitions -> Verdicts] /\ cycle \in [Transitions -> {"none", "open", "cancelled"}]
      BY <2>1
    <2>6. said \in [Transitions -> SayType] /\ req \in [Requests -> ReqType]
      BY <2>1
    <2>7. /\ active \in [Agents -> Recorded \cup {NoRun, UserRun}]
          /\ turn \in [Agents -> Requests \cup {"none", "claimed", "run"}]
      OBVIOUS
    <2>8. fresh \subseteq Requests /\ lost \in BOOLEAN /\ actions \in 0..MaxActions /\ faults \in 0..MaxFaults
      <3>1. fresh \subseteq Requests /\ lost \in BOOLEAN /\ actions = 0 /\ faults = 0
        OBVIOUS
      <3>2. MaxActions \in Nat /\ MaxFaults \in Nat
        BY BoundsAssumption
      <3>3. 0 \in 0..MaxActions /\ 0 \in 0..MaxFaults
        BY <3>2
      <3> QED BY <3>1, <3>3
    <2> QED BY <2>3, <2>4, <2>5, <2>6, <2>7, <2>8 DEF TypeOK, SayType, ReqType
  <1>4. FunctionTypes
    BY DEF FunctionTypes
  <1>5. Calls
    BY <1>0, <1>1 DEF Calls, CallIsTrue, InFlight
  <1>6. CorrectionsJudgeTheirRefusal
    <2> SUFFICES ASSUME NEW t \in Transitions, NEW i \in 1..Len(evals[t])
                 PROVE  evals[t][i] = NoRun
      BY DEF CorrectionsJudgeTheirRefusal, Attempt
    <2>1. evals[t] = <<NoRun>> /\ i = 1
      BY <1>0
    <2> QED BY <2>1
  <1>7. Reservations
    BY <1>0, <1>1, NoRuns DEF Reservations, InFlight
  <1>8. Sayings
    BY <1>0 DEF Sayings, Nothing
  <1>9. Cancellations
    BY <1>0 DEF Cancellations
  <1>10. Budget
    <2> SUFFICES ASSUME NEW t \in Transitions
                 PROVE  Len(corrections[t]) + Cardinality(Probing(t))
                           <= MaxRuns(t) + Cardinality(Requests) - 1
      BY DEF Budget
    <2>1. Len(corrections[t]) = 0
      BY <1>0
    <2>2. Probing(t) = {}
      BY <1>0 DEF Probing
    <2>3. Cardinality(Probing(t)) = 0
      BY <2>2, FS_EmptySet
    <2>4. MaxRuns(t) \in Nat /\ Cardinality(Requests) \in Nat /\ Cardinality(Requests) > 0
      BY MaxRunsIsNat, ProbingIsFinite
    <2> QED BY <2>1, <2>3, <2>4
  <1>11. Spent
    <2>1. \A t \in Transitions : Len(corrections[t]) = 0 /\ Probing(t) = {} /\ MaxRuns(t) \in Nat
      BY <1>0, MaxRunsIsNat DEF Probing
    <2> QED BY <2>1 DEF Spent
  <1> QED BY <1>3, <1>4, <1>5, <1>6, <1>7, <1>8, <1>9, <1>10, <1>11 DEF IInv

LEMMA StepHolds ==
  ASSUME IInv, [Next]_vars
  PROVE  IInv'
  <1>1. Kinds
    BY StepsAreOfAKind DEF IInv
  <1> QED BY <1>1, TypesKept, CallsKept, JudgementsKept, ReservationsKept, SayingsKept,
     CancellationsKept, BudgetKept, SpentKept DEF IInv

LEMMA Invariance == Spec => []IInv
  BY InitHolds, StepHolds, PTL DEF Spec

\* The variables have their types; corrections and actions are about attempts
\* there have been, and #activeRuns names corrections in the log.
THEOREM TypeCorrect == Spec => []TypeOK
  <1>1. IInv => TypeOK
    BY DEF IInv
  <1> QED BY <1>1, Invariance, PTL

\* However evaluations, human actions, cancellations and restarts interleave, the
\* evaluation of a correction is the attempt right after the refusal that the
\* correction was started for.
THEOREM CorrectionsInPlace == Spec => []CorrectionsJudgeTheirRefusal
  <1>1. IInv => CorrectionsJudgeTheirRefusal
    BY DEF IInv
  <1> QED BY <1>1, Invariance, PTL

\* Two workers never correct one refusal at a time, unless the first one's entry
\* in #activeRuns was taken from it.
THEOREM OneWorker == Spec => []OneWorkerPerRefusal
  <1>1. IInv => OneWorkerPerRefusal
    BY DEF IInv, Reservations, OneWorkerPerRefusal
  <1> QED BY <1>1, Invariance, PTL

\* The policy's budget is exceeded, at most, by the calls that had passed the
\* check, and on the attempt its last run was spent on: no chain of corrections
\* goes beyond it, whatever the number of calls and of guardrails.
THEOREM BudgetHolds == Spec => []BudgetWithinRace
  <1>1. ASSUME IInv PROVE BudgetWithinRace
    <2> SUFFICES ASSUME NEW t \in Transitions
                 PROVE  /\ Len(corrections[t]) <= MaxRuns(t) + Cardinality(Requests) - 1
                        /\ \A k \in MaxRuns(t) + 1 .. Len(corrections[t]) :
                              MaxRuns(t) > 0 /\ corrections[t][k] = corrections[t][MaxRuns(t)]
      BY DEF BudgetWithinRace
    <2>1. Len(corrections[t]) + Cardinality(Probing(t)) <= MaxRuns(t) + Cardinality(Requests) - 1
      BY <1>1 DEF IInv, Budget
    <2>2. Len(corrections[t]) \in Nat
      BY <1>1, Numbers DEF IInv
    <2>3. Len(corrections[t]) <= MaxRuns(t) + Cardinality(Requests) - 1
      BY <2>1, <2>2, MaxRunsIsNat, ProbingIsFinite
    <2> QED BY <1>1, <2>3 DEF IInv, Spent
  <1> QED BY <1>1, Invariance, PTL

\* A cycle says it is correcting exactly while a correction of it is under way.
LEMMA CorrectingIsTrue ==
  ASSUME IInv, ~lost, NEW t \in Transitions, cycle[t] = "open"
  PROVE  Live(t) <=> \E r \in Requests : InFlight(r) /\ req[r].t = t
  <1>1. ASSUME Live(t) PROVE \E r \in Requests : InFlight(r) /\ req[r].t = t
    <2>1. PICK k \in 1..Len(corrections[t]) : \E a \in Agents : active[a] = <<t, k>>
      BY <1>1 DEF Live, LiveIn
    <2>2. PICK a \in Agents : active[a] = <<t, k>>
      BY <2>1
    <2>3. active[a] \in Runs /\ cycle[active[a][1]] # "cancelled"
      BY <2>1, <2>2, Numbers DEF IInv, Runs
    <2>4. PICK r \in Requests : InFlight(r) /\ Run(r) = active[a]
      BY <2>3 DEF IInv, Reservations
    <2> QED BY <2>2, <2>4 DEF Run
  <1>2. ASSUME NEW r \in Requests, InFlight(r), req[r].t = t PROVE Live(t)
    <2>1. active[req[r].a] = Run(r)
      BY <1>2 DEF IInv, Reservations
    <2> QED BY <1>2, <2>1, FlightIsReal DEF IInv, Live, LiveIn, Run
  <1> QED BY <1>1, <1>2

\* What an open cycle tells the human is true of it: it is correcting while a
\* correction is under way, and what it waits for is about the latest attempt.
THEOREM StatusIsTrue == Spec => []StatusIsCurrent
  <1>1. ASSUME IInv PROVE StatusIsCurrent
    <2> SUFFICES ASSUME NEW t \in Transitions, cycle[t] = "open"
                 PROVE  /\ ~lost => (Status(t) = "correcting" <=>
                                        \E r \in Requests : InFlight(r) /\ req[r].t = t)
                        /\ Status(t) = "blocked" /\ acted[t] < Attempt(t) =>
                              verdict[t] = "blocked" \/ Shown(t).att = Attempt(t)
                        /\ Shown(t).why \in Escalations \cup {"human"} /\ acted[t] < Attempt(t) =>
                              Shown(t).att = Attempt(t)
      BY DEF StatusIsCurrent
    <2>1. Shown(t).why \in Escalations \cup {"human"} /\ acted[t] < Attempt(t) => Shown(t).att = Attempt(t)
      <3>1. Nothing.why \notin Escalations \cup {"human"}
        BY DEF Nothing, Escalations
      <3> QED BY <1>1, <3>1 DEF Shown, IInv, Sayings
    <2>2. CASE Live(t)
      <3>1. Status(t) = "correcting"
        BY <2>2 DEF Status
      <3> QED BY <1>1, <2>1, <2>2, <3>1, CorrectingIsTrue
    <2>3. CASE ~Live(t)
      <3>1. Status(t) = IF verdict[t] = "passed" THEN "passed"
                        ELSE IF Shown(t).why \in Escalations
                             THEN IF Shown(t).held THEN "waiting" ELSE "blocked"
                        ELSE IF Shown(t).why = "unavailable" THEN "worker-unavailable"
                        ELSE IF verdict[t] = "blocked" THEN "blocked" ELSE "waiting"
        BY <2>3 DEF Status
      <3>2. Status(t) # "correcting"
        BY <3>1
      <3>3. Status(t) = "blocked" => verdict[t] = "blocked" \/ Shown(t).why \in Escalations
        BY <3>1
      <3> QED BY <1>1, <2>1, <2>3, <3>2, <3>3, CorrectingIsTrue
    <2> QED BY <2>2, <2>3
  <1> QED BY <1>1, Invariance, PTL

\* What a step leaves of a cancelled cycle: no correction begins, and no attempt
\* is the evaluation of one.
LEMMA CancelledIsOver ==
  ASSUME IInv, Kinds, NEW t \in Transitions, cycle[t] = "cancelled"
  PROVE  /\ cycle'[t] = "cancelled" /\ corrections'[t] = corrections[t]
         /\ \A i \in Attempt(t) + 1..Len(evals'[t]) : evals'[t][i] = NoRun
  <1>1. Longer(t)
    BY OnlyGrows DEF IInv
  <1>2. ASSUME corrections'[t] # corrections[t] PROVE FALSE
    <2>1. PICK r \in Requests : Reserved(r)
      BY <1>2 DEF Kinds, Opens, Begins, Quits, Misses, Proceeds, Concludes, Asked, Decides,
         DecidesInPart, Restates, Cancels, Uses, Forgets, Rests, Log
    <2>2. t = req[r].t
      BY <1>2, <2>1 DEF Reserved, Takes, Corrects
    <2>3. req[r].pc = "probing" /\ acted[t] < req[r].att
      BY <2>1, <2>2 DEF Reserved, Takes
    <2>4. req[r].att <= acted[t]
      BY <2>2, <2>3 DEF IInv, Cancellations
    <2> QED BY <2>3, <2>4, Numbers DEF IInv
  <1>3. ASSUME NEW i \in Len(evals[t]) + 1..Len(evals'[t]) PROVE evals'[t][i] = NoRun
    <2>1. evals'[t] # evals[t]
      BY <1>1, <1>3 DEF Longer
    <2>2. ASSUME NEW u \in Transitions, NEW run, Grows(u, run) PROVE t = u /\ evals'[t][i] = run
      BY <1>1, <1>3, <2>1, <2>2 DEF Grows, Longer
    <2>3. ASSUME NEW r \in Requests, Concludes(r) PROVE FALSE
      BY <2>2, <2>3 DEF Concludes
    <2> QED BY <2>1, <2>2, <2>3 DEF Kinds, Opens, Begins, Quits, Misses, Reserved, Takes, Proceeds,
       Asked, Decides, DecidesInPart, Restates, Cancels, Uses, Forgets, Rests, Log
  <1> QED BY <1>1, <1>2, <1>3 DEF Longer, Attempt

\* A typed action that leaves its cycle open finds no correction under way.
LEMMA ActionsWait ==
  ASSUME IInv, Kinds, NEW t \in Transitions, acted'[t] # acted[t], cycle'[t] = "open", ~lost,
         NEW r \in Requests, InFlight(r)
  PROVE  req[r].t # t
  <1>1. acted \in [Transitions -> Nat] /\ cycle \in [Transitions -> {"none", "open", "cancelled"}]
    BY DEF IInv, TypeOK, FunctionTypes
  <1>2. ~Live(t) /\ cycle[t] = "open"
    <2>1. ASSUME NEW q \in Requests, Decides(q) \/ DecidesInPart(q)
              PROVE ~Live(t) /\ cycle[t] = "open"
      BY <1>1, <2>1 DEF Decides, DecidesInPart, ActedOn
    <2>2. ASSUME NEW q \in Requests, Restates(q) PROVE FALSE
      BY <1>1, <2>2 DEF Restates
    <2>3. ASSUME NEW u \in Transitions, Cancels(u) PROVE FALSE
      BY <1>1, <2>3 DEF Cancels
    <2> QED BY <2>1, <2>2, <2>3 DEF Kinds, Opens, Begins, Quits, Misses, Reserved, Takes, Proceeds,
       Concludes, Asked, Uses, Forgets, Rests, Log
  <1> QED BY <1>2, CorrectingIsTrue

\* A typed action is respected: after a cancellation nothing is corrected and no
\* correction evaluated, and any other action but a repin waits for the worker.
THEOREM ActionsStand == Spec => ActionsAreRespected
  <1> DEFINE A == \A t \in Transitions :
                    /\ cycle[t] = "cancelled" =>
                          /\ cycle'[t] = "cancelled" /\ corrections'[t] = corrections[t]
                          /\ \A i \in Attempt(t) + 1..Len(evals'[t]) : evals'[t][i] = NoRun
                    /\ acted'[t] # acted[t] /\ cycle'[t] = "open" /\ ~lost =>
                          \A r \in Requests : InFlight(r) => req[r].t # t
  <1>1. ASSUME IInv, [Next]_vars PROVE A
    <2>1. Kinds
      BY <1>1, StepsAreOfAKind DEF IInv
    <2> QED BY <1>1, <2>1, CancelledIsOver, ActionsWait
  <1>2. IInv /\ [Next]_vars => [A]_vars
    BY <1>1
  <1> HIDE DEF A
  <1>3. Spec => [][A]_vars
    BY <1>2, Invariance, PTL DEF Spec
  <1> QED BY <1>3 DEF A, ActionsAreRespected
===============================================================================
