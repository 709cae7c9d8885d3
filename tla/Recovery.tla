-------------------------------- MODULE Recovery --------------------------------
(***************************************************************************)
(* Bounded recovery of refused transitions.  A transition is evaluated     *)
(* again and again (its attempts); a refusal may open a recovery cycle, in  *)
(* which worker runs (corrections) and typed human actions lead to the next *)
(* attempt; where neither is under way the cycle records what it waits for,  *)
(* or that it is escalated.  The cycle is a fold of the event log, and the   *)
(* model keeps the folded state.  Which correction is live is not in the     *)
(* log: #activeRuns says so, one entry per worker, forgotten when the core   *)
(* restarts.                                                                *)
(*                                                                         *)
(* A request is one call in flight, and its pc the await it is suspended    *)
(* in:                                                                     *)
(*                                                                         *)
(*   probing     startRecovery asks whether the worker is available         *)
(*   reserved    the correction is recorded, send waits to be admitted      *)
(*   preparing   the turn is claimed                                       *)
(*   working     the worker's turn runs                                    *)
(*   observing   the working tree is read after the turn                   *)
(*   evaluating  the correction is evaluated                               *)
(*   evaluated   the evaluation is recorded, the caller has not resumed     *)
(*   acting, repinning, judging: evaluations a human asked for              *)
(*                                                                         *)
(* Every evaluation is appended by a compare-and-append on the head its     *)
(* caller read before its await (ThreadStore).  Instead of heads the model  *)
(* keeps which callers' heads are still the head of the log.                *)
(***************************************************************************)
EXTENDS Integers, Sequences, FiniteSetsExt

CONSTANTS
    Transitions,   \* identities of transitions
    Tried,         \* bound: those that have been refused once at the start
    Agents,        \* worker profiles
    Requests,      \* calls that may be in flight at a time
    NoRun,         \* no entry in #activeRuns, no run behind an evaluation
    UserRun,       \* a run the user started
    Guardrails,    \* the workspace's: the transitions each applies to, and its policy
    MaxActions,    \* bound: evaluations asked for by a human
    MaxFaults      \* bound: restarts and batches cut short

ASSUME RunsAssumption == NoRun # UserRun /\ {NoRun, UserRun} \cap (Transitions \X Nat) = {}
ASSUME TriedAssumption == Tried \subseteq Transitions
ASSUME GuardrailsAssumption ==
    \A g \in Guardrails : /\ g.on \subseteq Transitions /\ g.maxRuns \in 0..5
                          /\ g.onExhausted \in {"waiting-for-human", "blocked"}
ASSUME BoundsAssumption == {MaxActions, MaxFaults} \subseteq Nat
ASSUME RequestsAssumption ==
    IsFiniteSet(Requests) /\ Requests # {} /\ {"none", "claimed", "run"} \cap Requests = {}

VARIABLES
    evals,        \* the attempts of each transition: the runs they evaluate
    verdict,      \* of its latest attempt
    cycle,        \* its recovery cycle, never more than one
    corrections,  \* the attempts the cycle's correction runs were started on
    acted,        \* the latest attempt a typed action of the cycle was made on
    said,         \* the wait or the escalation the cycle recorded last
    active,       \* #activeRuns
    turn,         \* who has a worker's turn
    req,          \* the requests
    fresh,        \* requests that would still find the head they captured
    lost,         \* an entry of #activeRuns was taken from a correction in flight
    actions,      \* human evaluations so far
    faults        \* restarts and cut batches so far

attempts == <<evals, verdict>>
cycles   == <<cycle, corrections, acted, said>>
ledger   == <<attempts, cycles>>
vars     == <<ledger, active, turn, req, fresh, lost, actions, faults>>

\* What startRecovery makes of an attempt: "unchanged" is a retry with the
\* fingerprint of the last correction, "human" waits for an answer or for the
\* retry of an evaluator, "blocked" stands for failed too.
Verdicts == {"passed", "retry", "unchanged", "human", "blocked"}
Runs     == Transitions \X Nat

\* The correction a request has recorded is under way.
InFlightPCs == {"reserved", "preparing", "working", "observing", "evaluating", "evaluated"}
PCs == InFlightPCs \cup {"idle", "probing", "acting", "repinning", "judging"}

\* t, a: the transition and the worker; att: the attempt the call is about; k:
\* the number of its correction; saw: the cycle it holds waits for a worker.
Idle == [pc |-> "idle", t |-> NoRun, a |-> NoRun, att |-> 0, k |-> 0, saw |-> FALSE]

\* Neither a wait nor an escalation.
Nothing == [why |-> "nothing", held |-> FALSE, att |-> 0, shown |-> FALSE]
Escalations == {"absolute", "unchanged", "exhausted", "invalid"}
Waits       == {"human", "unavailable"}

Init ==
    /\ evals = [t \in Transitions |-> IF t \in Tried THEN <<NoRun>> ELSE <<>>]
    /\ verdict = [t \in Transitions |-> "retry"]
    /\ cycle = [t \in Transitions |-> "none"]
    /\ corrections = [t \in Transitions |-> <<>>]
    /\ acted = [t \in Transitions |-> 0]
    /\ said = [t \in Transitions |-> Nothing]
    /\ active = [a \in Agents |-> NoRun]
    /\ turn = [a \in Agents |-> "none"]
    /\ req = [r \in Requests |-> Idle]
    /\ fresh = {}
    /\ lost = FALSE
    /\ actions = 0
    /\ faults = 0

Attempt(t) == Len(evals[t])
Refused(t) == Attempt(t) > 0 /\ verdict[t] # "passed"
Run(r)     == <<req[r].t, req[r].k>>
InFlight(r) == req[r].pc \in InFlightPCs

\* projectCycle's activeCorrection: a correction with an entry among the runs it
\* is given; they are #activeRuns as it stands.
LiveIn(reserved, t) ==
    \E k \in 1..Len(corrections[t]) : \E a \in Agents : reserved[a] = <<t, k>>
Live(t) == LiveIn(active, t)

\* The runs of the corrections in the log.
Recorded == UNION {{t} \X (1..Len(corrections[t])) : t \in Transitions}

\* The evaluations the policy counts: the refusal and those of corrections.
EvaluationsUsed(t) ==
    (IF Attempt(t) > 0 THEN 1 ELSE 0)
    + Cardinality({i \in 1..Attempt(t) : evals[t][i] # NoRun})

\* recoveryPolicy: the smallest budget of the guardrails on the transition's edge,
\* none without a guardrail; one that says blocked decides.
Relevant(t)    == {g \in Guardrails : t \in g.on}
MaxRuns(t)     == IF Relevant(t) = {} THEN 0 ELSE Min({g.maxRuns : g \in Relevant(t)})
OnExhausted(t) == IF \E g \in Relevant(t) : g.onExhausted = "blocked"
                  THEN "blocked" ELSE "waiting-for-human"

\* Mutant: what was recorded before the latest attempt is still shown.
ShownForEver(t) == said[t]

\* The wait or escalation projectCycle shows: the cycle has an event after the
\* transition's latest attempt.
Shown(t) == IF said[t].shown THEN said[t] ELSE Nothing

\* The status of a cycle; "waiting" stands for waiting-human and interrupted.
Status(t) ==
    CASE cycle[t] = "cancelled"         -> "cancelled"
      [] cycle[t] = "open" /\ Live(t)   -> "correcting"
      [] cycle[t] = "open" /\ ~Live(t)  ->
            IF verdict[t] = "passed" THEN "passed"
            ELSE IF Shown(t).why \in Escalations
                 THEN IF Shown(t).held THEN "waiting" ELSE "blocked"
            ELSE IF Shown(t).why = "unavailable" THEN "worker-unavailable"
            ELSE IF verdict[t] = "blocked" THEN "blocked" ELSE "waiting"

Done(r)      == req' = [req EXCEPT ![r] = Idle]
Goto(r, l)   == req' = [req EXCEPT ![r].pc = l]
LogGrows     == fresh' = {}
Capture(r)   == fresh' = fresh \cup {r}
Forget(r)    == fresh' = fresh \ {r}

\* #activeRuns.set and .delete, whoever the entry belonged to (by: the request
\* that does it).
SetActive(by, a, run) ==
    /\ active' = [active EXCEPT ![a] = run]
    /\ lost' = (lost \/ \E q \in Requests \ {by} :
                           InFlight(q) /\ req[q].a = a /\ active[a] = Run(q) /\ run # Run(q))

-------------------------------------------------------------------------------
(* startRecovery up to the probe of the worker. *)

\* Mutant: one correction too many.
ExhaustedOffByOne(t) == Len(corrections[t]) > MaxRuns(t)

Exhausted(t) == Len(corrections[t]) >= MaxRuns(t) \/ EvaluationsUsed(t) >= MaxRuns(t) + 1

Correctable(t) == verdict[t] = "retry" /\ ~Exhausted(t)

\* The fold of a wait and of an escalation, each in the other's place, about
\* attempt att; of a typed action, which makes what was said current again; and
\* of what leaves neither: a correction, a cancellation.
Says(t, why, held, att) ==
    said' = [said EXCEPT ![t] = [why |-> why, held |-> held, att |-> att, shown |-> TRUE]]
Resays(t)  == said' = [said EXCEPT ![t].shown = said[t] # Nothing]
Unsays(t)  == said' = [said EXCEPT ![t] = Nothing]
\* An attempt is newer than all of them; what was said is about an earlier one.
Outdates(t) == said' = [said EXCEPT ![t].shown = FALSE, ![t].att = 0]

\* #waitForRecovery: not what is shown in the same words.
WaitForRecovery(t) ==
    \/ Shown(t).why = "human" /\ UNCHANGED <<said, fresh>>
    \/ /\ Shown(t).why # "human" \/ Shown(t).att # Attempt(t)
       /\ Says(t, "human", FALSE, Attempt(t)) /\ LogGrows

\* #escalateRecovery: not for the reason that is shown; a human may still act
\* when the policy holds an exhausted cycle and the refusal names an action.
EscalateRecovery(t, why) ==
    IF Shown(t).why = why
    THEN UNCHANGED <<said, fresh>>
    ELSE /\ \E held \in BOOLEAN :
              /\ held => why \in {"unchanged", "exhausted"} /\ OnExhausted(t) = "waiting-for-human"
              /\ Says(t, why, held, Attempt(t))
         /\ LogGrows

\* A refusal no worker may correct, or no work item to correct it for.
Reports(t) ==
    \/ verdict[t] = "blocked" /\ EscalateRecovery(t, "absolute")
    \/ verdict[t] = "human" /\ WaitForRecovery(t)
    \/ verdict[t] = "unchanged" /\ EscalateRecovery(t, "unchanged")
    \/ verdict[t] = "retry" /\ Exhausted(t) /\ EscalateRecovery(t, "exhausted")
    \/ Correctable(t) /\ EscalateRecovery(t, "invalid")

\* The call's synchronous part, also when it continues after an evaluation: the
\* attempt must be the one expected, and no correction among the runs reserved
\* when it begins; without a cycle one is opened.
Begin(r, t, a, att, reserved) ==
    /\ UNCHANGED <<attempts, corrections, acted>>
    /\ \/ /\ Attempt(t) # att \/ cycle[t] = "cancelled" \/ LiveIn(reserved, t)
          /\ Done(r)
          /\ UNCHANGED <<cycle, said, fresh>>
       \/ /\ Attempt(t) = att /\ cycle[t] # "cancelled" /\ ~LiveIn(reserved, t)
          /\ cycle' = [cycle EXCEPT ![t] = "open"]
          /\ \/ Reports(t) /\ Done(r)
             \/ /\ Correctable(t) \/ verdict[t] = "passed"
                /\ IF Correctable(t)
                   THEN req' = [req EXCEPT ![r] = [pc |-> "probing", t |-> t, a |-> a, att |-> att,
                                                   k |-> 0, saw |-> Shown(t).why = "unavailable"]]
                   ELSE Done(r)
                /\ IF cycle[t] = "open" THEN UNCHANGED fresh ELSE LogGrows
                /\ UNCHANGED said

Start(r, t, a) ==
    /\ req[r].pc = "idle" /\ Attempt(t) > 0
    /\ Begin(r, t, a, Attempt(t), active)
    /\ UNCHANGED <<active, turn, lost, actions, faults>>

\* The worker cannot be used: recorded of the attempt the call holds, whatever
\* was recorded while it was asked, unless the cycle the call holds says so.  Of
\* a cancelled cycle it is not kept: nothing shows it.
ProbeFails(r) ==
    /\ req[r].pc = "probing"
    /\ Done(r)
    /\ \/ /\ IF cycle[req[r].t] = "open"
             THEN Says(req[r].t, "unavailable", FALSE, req[r].att)
             ELSE UNCHANGED said
          /\ LogGrows
       \/ req[r].saw /\ UNCHANGED <<said, fresh>>
    /\ UNCHANGED <<attempts, cycle, corrections, acted, active, turn, lost, actions, faults>>

\* Mutant: a correction that has begun meanwhile is not looked up again.
RecheckedWithoutActive(r) ==
    LET t == req[r].t IN Attempt(t) = req[r].att /\ acted[t] < Attempt(t)

\* What is asked again after the probe: whether a correction has begun, whether
\* the attempt is the same, whether a human has acted on it.
Rechecked(r) ==
    LET t == req[r].t IN ~Live(t) /\ Attempt(t) = req[r].att /\ acted[t] < Attempt(t)

\* correctionIndex.
NextIndex(t) == Len(corrections[t]) + 1

\* The fold of a correction.
Reserves(t) ==
    /\ corrections' = [corrections EXCEPT ![t] = Append(@, Attempt(t))]
    /\ Unsays(t)

\* The worker's entry is taken, whoever has it, and the correction recorded: no
\* await lies between the head it is appended on and the append.
ProbeSucceeds(r) ==
    /\ req[r].pc = "probing"
    /\ LET t == req[r].t
           k == NextIndex(t)
       IN  IF Rechecked(r)
           THEN /\ Reserves(t)
                /\ verdict' = [verdict EXCEPT ![t] = "unchanged"]
                /\ SetActive(r, req[r].a, <<t, k>>)
                /\ req' = [req EXCEPT ![r].pc = "reserved", ![r].k = k, ![r].saw = FALSE]
                /\ LogGrows
           ELSE /\ Done(r)
                /\ UNCHANGED <<corrections, verdict, said, active, lost, fresh>>
    /\ UNCHANGED <<evals, cycle, acted, turn, actions, faults>>

-------------------------------------------------------------------------------
(* The correction's turn: send with keepRunActive. *)

\* The claim (see Thread): not while the worker has another turn or another
\* reserved run.
Claim(r) ==
    /\ req[r].pc = "reserved"
    /\ turn[req[r].a] = "none" /\ active[req[r].a] \in {NoRun, Run(r)}
    /\ turn' = [turn EXCEPT ![req[r].a] = r]
    /\ Goto(r, "preparing")
    /\ UNCHANGED <<ledger, active, fresh, lost, actions, faults>>

\* The message and run.started are recorded, the entry is set again.
Dispatch(r) ==
    /\ req[r].pc = "preparing"
    /\ SetActive(r, req[r].a, Run(r))
    /\ Goto(r, "working")
    /\ LogGrows
    /\ UNCHANGED <<ledger, turn, actions, faults>>

\* send throws: not admitted, not prepared, or the turn itself failed.  The
\* entry is deleted, whoever it belongs to.
SendFails(r) ==
    /\ req[r].pc \in {"reserved", "preparing", "working"}
    /\ turn' = [turn EXCEPT ![req[r].a] = IF @ = r THEN "none" ELSE @]
    /\ SetActive(r, req[r].a, NoRun)
    /\ IF req[r].pc = "reserved" THEN UNCHANGED fresh ELSE LogGrows
    /\ Done(r)
    /\ UNCHANGED <<ledger, actions, faults>>

\* The turn has ended.  A cycle cancelled meanwhile is not evaluated; the entry
\* in #activeRuns stays.
TurnEnds(r) ==
    /\ req[r].pc = "working"
    /\ turn' = [turn EXCEPT ![req[r].a] = "none"]
    /\ LogGrows
    /\ IF cycle[req[r].t] = "cancelled" THEN Done(r) ELSE Goto(r, "observing")
    /\ UNCHANGED <<ledger, active, lost, actions, faults>>

\* The tree has been read: the evaluation captures the head.
Observed(r) ==
    /\ req[r].pc = "observing"
    /\ IF cycle[req[r].t] = "cancelled"
       THEN Done(r) /\ UNCHANGED fresh
       ELSE Goto(r, "evaluating") /\ Capture(r)
    /\ UNCHANGED <<ledger, active, turn, lost, actions, faults>>

\* Mutant: the evaluation is appended whatever was recorded since.
AdmittedWheneverOpen(r) == cycle[req[r].t] = "open"

\* The evaluation's compare-and-append: the head, the attempt it follows and,
\* in a recovery cycle, that it has not been cancelled.
Admitted(r) ==
    /\ r \in fresh
    /\ Attempt(req[r].t) = req[r].att
    /\ req[r].pc = "evaluating" => cycle[req[r].t] # "cancelled"

\* An attempt of t is recorded.
Record(t, run) ==
    /\ evals' = [evals EXCEPT ![t] = Append(@, run)]
    /\ \E v \in Verdicts :
          /\ v = "unchanged" => corrections[t] # <<>>
          /\ verdict' = [verdict EXCEPT ![t] = v]
    /\ LogGrows

Evaluates(r) ==
    /\ req[r].pc = "evaluating" /\ Admitted(r)
    /\ Record(req[r].t, Run(r)) /\ Outdates(req[r].t)
    /\ Goto(r, "evaluated")
    /\ UNCHANGED <<cycle, corrections, acted, active, turn, lost, actions, faults>>

\* The finally behind the evaluation: the entry goes if it is this run's.
Release(r) ==
    /\ active' = [active EXCEPT ![req[r].a] = IF @ = Run(r) THEN NoRun ELSE @]
    /\ UNCHANGED lost

\* The append is refused, or the evaluation could not be made.
EvaluationFails(r) ==
    /\ req[r].pc = "evaluating"
    /\ Release(r)
    /\ Done(r) /\ Forget(r)
    /\ UNCHANGED <<ledger, turn, actions, faults>>

\* The entry is released; then a further refusal is corrected in turn, or recorded
\* as one that cannot be.
Continues(r) ==
    /\ req[r].pc = "evaluated"
    /\ Release(r)
    /\ LET t == req[r].t
           att == req[r].att + 1
       IN  \/ /\ verdict[t] \in {"retry", "unchanged", "human"}
              /\ Begin(r, t, req[r].a, att, active')
           \/ /\ verdict[t] \in {"passed", "blocked", "human"} \/ Attempt(t) # att
              /\ Done(r)
              /\ UNCHANGED <<ledger, fresh>>
    /\ UNCHANGED <<turn, actions, faults>>

-------------------------------------------------------------------------------
(* Human actions.  The client names the head it shows, so an action is made on  *)
(* the log as it stands, and is evaluated, if at all, before anything else is   *)
(* recorded.                                                                    *)

\* Mutant: an action does not ask whether a correction is under way.
ActionableAnyway(t) == cycle[t] = "open" /\ Refused(t) /\ acted[t] < Attempt(t)

\* An answer, evidence, an override or the retry of an evaluator.
Actionable(t) == cycle[t] = "open" /\ Refused(t) /\ acted[t] < Attempt(t) /\ ~Live(t)

\* A repin also goes ahead while a correction runs.
Repinnable(t) == cycle[t] = "open" /\ Refused(t)

\* Transition identities a repin may take: none was evaluated.
Unused == {u \in Transitions : evals[u] = <<>>}

Ask(r, t, l) ==
    /\ req[r].pc = "idle"
    /\ actions < MaxActions /\ actions' = actions + 1
    /\ req' = [req EXCEPT ![r] = [Idle EXCEPT !.pc = l, !.t = t, !.att = Attempt(t)]]
    /\ Capture(r)
    /\ UNCHANGED <<ledger, active, turn, lost, faults>>

\* applyRecoveryAction, or an evaluation asked for outside of recovery, up to
\* the await.
Act(r, t)   == Actionable(t) /\ Ask(r, t, "acting")
Repin(r, t) == Repinnable(t) /\ Unused # {} /\ Ask(r, t, "repinning")
Judge(r, t) == Ask(r, t, "judging")

\* Refused by the compare-and-append, by what the prelude asks again, or by
\* something else: nothing is recorded.
AskFails(r) ==
    /\ req[r].pc \in {"acting", "repinning", "judging"}
    /\ Done(r) /\ Forget(r)
    /\ UNCHANGED <<ledger, active, turn, lost, actions, faults>>

\* The action and the attempt it leads to, in one batch.
Acts(r) ==
    /\ req[r].pc = "acting" /\ Admitted(r) /\ Actionable(req[r].t)
    /\ Record(req[r].t, NoRun) /\ Outdates(req[r].t)
    /\ acted' = [acted EXCEPT ![req[r].t] = req[r].att]
    /\ Done(r)
    /\ UNCHANGED <<cycle, corrections, active, turn, lost, actions, faults>>

\* The batch fails after its first line: the action is there, its attempt not.
ActsInPart(r) ==
    /\ req[r].pc = "acting" /\ Admitted(r) /\ Actionable(req[r].t)
    /\ faults < MaxFaults /\ faults' = faults + 1
    /\ acted' = [acted EXCEPT ![req[r].t] = req[r].att]
    /\ Resays(req[r].t)
    /\ LogGrows
    /\ Done(r)
    /\ UNCHANGED <<attempts, cycle, corrections, active, turn, lost, actions>>

\* The old cycle ends, a new transition has its first attempt.
Repins(r) ==
    /\ req[r].pc = "repinning" /\ Admitted(r) /\ Repinnable(req[r].t)
    /\ cycle' = [cycle EXCEPT ![req[r].t] = "cancelled"]
    /\ acted' = [acted EXCEPT ![req[r].t] = req[r].att]
    /\ \E u \in Unused : Record(u, NoRun)
    /\ Unsays(req[r].t)
    /\ Done(r)
    /\ UNCHANGED <<corrections, active, turn, lost, actions, faults>>

\* An evaluation without a cycle, whatever the transition's cycle is doing.
Judges(r) ==
    /\ req[r].pc = "judging" /\ Admitted(r)
    /\ Record(req[r].t, NoRun) /\ Outdates(req[r].t)
    /\ Done(r)
    /\ UNCHANGED <<cycle, corrections, acted, active, turn, lost, actions, faults>>

\* #appendRecoveryAction: on the head the client named, without an await.
AppendAction(t) ==
    /\ acted' = [acted EXCEPT ![t] = Attempt(t)]
    /\ LogGrows

\* Recorded without an await, an action on the attempt like the others.
Cancel(t) ==
    /\ cycle[t] = "open" /\ Refused(t)
    /\ cycle' = [cycle EXCEPT ![t] = "cancelled"]
    /\ AppendAction(t) /\ Unsays(t)
    /\ UNCHANGED <<attempts, corrections, active, turn, req, lost, actions, faults>>

-------------------------------------------------------------------------------
(* What else uses the thread. *)

\* A turn the user asked for; it may be a run, which then has the entry.  Bounds:
\* one such turn at a time, begun before a fault and before an entry was lost.
UserClaims(a) ==
    /\ turn[a] = "none" /\ active[a] = NoRun
    /\ \A b \in Agents : turn[b] \notin {"claimed", "run"}
    /\ faults = 0 /\ ~lost
    /\ turn' = [turn EXCEPT ![a] = "claimed"]
    /\ UNCHANGED <<ledger, active, req, fresh, lost, actions, faults>>

UserRuns(a) ==
    /\ turn[a] = "claimed"
    /\ turn' = [turn EXCEPT ![a] = "run"]
    /\ SetActive("none", a, UserRun)
    /\ LogGrows
    /\ UNCHANGED <<ledger, req, actions, faults>>

\* The end of a run deletes the entry, whoever it belongs to by now.
UserEnds(a) ==
    /\ turn[a] \in {"claimed", "run"}
    /\ turn' = [turn EXCEPT ![a] = "none"]
    /\ IF turn[a] = "run"
       THEN SetActive("none", a, NoRun)
       ELSE UNCHANGED <<active, lost>>
    /\ LogGrows
    /\ UNCHANGED <<ledger, req, actions, faults>>

\* Any other event.
OtherEvent ==
    /\ fresh # {}
    /\ LogGrows
    /\ UNCHANGED <<ledger, active, turn, req, lost, actions, faults>>

\* The core restarts: what is not in the log is gone.
Restart ==
    /\ faults < MaxFaults /\ faults' = faults + 1
    /\ active' = [a \in Agents |-> NoRun]
    /\ turn' = [a \in Agents |-> "none"]
    /\ req' = [r \in Requests |-> Idle]
    /\ fresh' = {}
    /\ UNCHANGED <<ledger, lost, actions>>

CorrectionStep(r) ==
    \/ \E t \in Transitions, a \in Agents : Start(r, t, a)
    \/ ProbeFails(r) \/ ProbeSucceeds(r) \/ Claim(r) \/ Dispatch(r) \/ SendFails(r)
    \/ TurnEnds(r) \/ Observed(r) \/ Evaluates(r) \/ EvaluationFails(r) \/ Continues(r)

ActionStep(r) ==
    \/ \E t \in Transitions : Act(r, t) \/ Repin(r, t) \/ Judge(r, t)
    \/ AskFails(r) \/ Acts(r) \/ ActsInPart(r) \/ Repins(r) \/ Judges(r)

ThreadStep ==
    \/ \E t \in Transitions : Cancel(t)
    \/ \E a \in Agents : UserClaims(a) \/ UserRuns(a) \/ UserEnds(a)
    \/ OtherEvent \/ Restart

Next == (\E r \in Requests : CorrectionStep(r) \/ ActionStep(r)) \/ ThreadStep

Spec == Init /\ [][Next]_vars

-------------------------------------------------------------------------------
\* Types; corrections and actions are about attempts there have been, and
\* #activeRuns names corrections in the log.
TypeOK ==
    /\ evals \in [Transitions -> Seq(Runs \cup {NoRun})]
    /\ verdict \in [Transitions -> Verdicts]
    /\ cycle \in [Transitions -> {"none", "open", "cancelled"}]
    /\ \A t \in Transitions : /\ corrections[t] \in Seq(1..Attempt(t))
                              /\ acted[t] \in 0..Attempt(t)
    /\ said \in [Transitions -> [why: Escalations \cup Waits \cup {"nothing"}, held: BOOLEAN,
                                  att: Nat, shown: BOOLEAN]]
    /\ active \in [Agents -> Recorded \cup {NoRun, UserRun}]
    /\ turn \in [Agents -> Requests \cup {"none", "claimed", "run"}]
    /\ req \in [Requests -> [pc: PCs, t: Transitions \cup {NoRun}, a: Agents \cup {NoRun},
                             att: Nat, k: Nat, saw: BOOLEAN]]
    /\ fresh \subseteq Requests
    /\ lost \in BOOLEAN
    /\ actions \in 0..MaxActions
    /\ faults \in 0..MaxFaults

\* The evaluation of a correction is the attempt right after the refusal the
\* correction was started for: no human action, cancellation or other attempt
\* lies between the two.
CorrectionsJudgeTheirRefusal ==
    \A t \in Transitions : \A i \in 1..Attempt(t) :
        LET run == evals[t][i]
        IN  run # NoRun => /\ run[1] = t /\ run[2] \in 1..Len(corrections[t])
                           /\ corrections[t][run[2]] = i - 1

\* The policy's budget, however the corrections follow each other: chained in
\* one request, started anew, or after others that failed.  Only calls that had
\* passed the check when another one spent the last run may exceed it, for nothing
\* asks again after the probe: one run each, and on the very attempt that run was
\* spent on.
BudgetWithinRace ==
    \A t \in Transitions :
        /\ Len(corrections[t]) <= MaxRuns(t) + Cardinality(Requests) - 1
        /\ \A k \in MaxRuns(t) + 1 .. Len(corrections[t]) :
              MaxRuns(t) > 0 /\ corrections[t][k] = corrections[t][MaxRuns(t)]

\* Two workers never correct one refusal at a time (startRecovery's comment),
\* unless the first one's entry in #activeRuns was taken from it.
OneWorkerPerRefusal ==
    \A q, r \in Requests :
        q # r /\ InFlight(q) /\ InFlight(r) /\ req[q].t = req[r].t /\ req[q].att = req[r].att => lost

\* What an open cycle tells the human is true of it as it is: it is correcting
\* exactly while a correction of it is under way, and what it says it waits for
\* is about the latest attempt.  A probe that failed late speaks of the attempt
\* it was asked for, and an action whose attempt was cut off repeats what was
\* said before (projectCycle's "only after the transition is evaluated again").
StatusIsCurrent ==
    \A t \in Transitions : cycle[t] = "open" =>
        /\ ~lost => (Status(t) = "correcting" <=> \E r \in Requests : InFlight(r) /\ req[r].t = t)
        /\ Status(t) = "blocked" /\ acted[t] < Attempt(t) =>
              verdict[t] = "blocked" \/ Shown(t).att = Attempt(t)
        /\ Shown(t).why \in Escalations \cup {"human"} /\ acted[t] < Attempt(t) =>
              Shown(t).att = Attempt(t)

\* A typed action is respected.  After a cancellation nothing is corrected and no
\* correction is evaluated; any other action but a repin waits for the worker ("A
\* recovery worker is active; wait for it to finish").
ActionsAreRespected ==
    [][\A t \in Transitions :
         /\ cycle[t] = "cancelled" =>
               /\ cycle'[t] = "cancelled" /\ corrections'[t] = corrections[t]
               /\ \A i \in Attempt(t) + 1..Len(evals'[t]) : evals'[t][i] = NoRun
         /\ acted'[t] # acted[t] /\ cycle'[t] = "open" /\ ~lost =>
               \A r \in Requests : InFlight(r) => req[r].t # t]_vars

\* An entry in #activeRuns ends with the run it stands for (startRecovery: "It is
\* cleared by send's normal finally path").
ReservationReleased ==
    \A a \in Agents : active[a] \in Runs =>
        \E r \in Requests : InFlight(r) /\ req[r].a = a
===============================================================================
