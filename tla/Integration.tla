---------------------------- MODULE Integration ----------------------------
(* Integrating a lane through the gate: Thread.integrate, runCheck,          *)
(* recordEvidence, recordAnswer and recordAttestation of orchestrator.ts     *)
(* over the ledger, the evaluators and the gate, and integrateLane of        *)
(* util/worktree.ts.  One worker's lane; several calls to integrate run at   *)
(* once, and between their awaits the lane, the declaration and the log move.*)
EXTENDS Gate, SequencesExt

CONSTANTS Calls,        \* the calls to integrate that may be in flight at once
          Baseline,     \* the tree the lane was made from
          Trees,        \* what the lane's files can become
          Commits,      \* the commits the lane can sit on
          AnswerIds,    \* ids a caller may choose for its answers
          Words,        \* what may be said under such an id
          Policies,     \* name -> what the declaration of that name says
          MaxLog,       \* bound: events of the ledger
          MaxEvidence,  \* bound: evidence events among them
          MaxApplied,   \* bound: integrations that land
          MaxMoves      \* bound: how often the lane or the declaration moves

VARIABLES log,       \* the thread's canonical log, its ledger events only
          declared,  \* the name of the declaration the directory now has
          lane,      \* the candidate in the lane: its tree and its commit
          base,      \* lane.baseTree, the tree the next patch starts from
          landed,    \* what was applied to the user's directory, in order
          call,      \* each call's program counter and what it holds on to
          other,     \* how much of the log another core on the directory has read
          moves      \* how often the world moved: bounded by MaxMoves

vars == <<log, declared, lane, base, landed, call, other, moves>>

Candidates == [tree : Trees, commit : Commits]
\* What can be read of the lane: git may fail to snapshot the tree.
Readable == [tree : Trees \cup {NoTree}, commit : Commits]
Sets == [policy : DOMAIN Policies, at : SUBSET Readable]
Idle == [pc |-> "idle"]

ASSUME ConstantsAssumption == NoTree \notin Trees /\ NoSet \notin Sets /\ FreshId \notin AnswerIds

\* What the parser accepts: only a required guardrail may be overridden
\* (declaration.ts:513), and only answers and attestations are the user's own
\* (gate.ts:655).  "none" is the check of evidence that names no command.
ASSUME PoliciesAssumption ==
    \A n \in DOMAIN Policies :
        /\ {Policies[n].readable, Policies[n].allowOverride} \subseteq BOOLEAN
        /\ IsFiniteSet(Policies[n].items) /\ IsFiniteSet(Policies[n].verify)
        /\ "none" \notin Policies[n].verify
        /\ \A i \in Policies[n].items :
              /\ i.kind \in Kinds /\ i.enforcement \in Enforcements
              /\ {i.allowOverride, i.user} \subseteq BOOLEAN
              /\ i.allowOverride => i.enforcement = "required"
              /\ i.user => i.kind \in {"mandatory-answer", "human-attestation"}

\* What a set is pinned to: the declaration as its files have it, or, when it
\* cannot be read, the candidate itself (integrationFailureSource).
Source(name, cand) == IF Policies[name].readable THEN {} ELSE {cand}

\* The set a declaration pins: what it asks for, at its source.
SetOf(name, cand) == [policy |-> name, at |-> Source(name, cand)]

Init ==
    /\ log = <<>>
    /\ declared \in {n \in DOMAIN Policies : Policies[n].readable}
    /\ lane \in Candidates
    /\ base = Baseline    \* the worker has changed something since
    /\ landed = <<>>
    /\ call = [c \in Calls |-> Idle]
    /\ other = 0
    /\ moves = 0

-----------------------------------------------------------------------------
(* The world: a worker or the user edits or commits in the lane; the user    *)
(* edits the declaration, or checks out another branch, and may go back.     *)

EditLane ==
    /\ moves < MaxMoves /\ moves' = moves + 1
    /\ lane' \in Candidates \ {lane}
    /\ UNCHANGED <<log, declared, base, landed, call, other>>

Redeclare ==
    /\ moves < MaxMoves /\ moves' = moves + 1
    /\ declared' \in DOMAIN Policies \ {declared}
    /\ UNCHANGED <<log, lane, base, landed, call, other>>

-----------------------------------------------------------------------------
(* Recording.                                                                *)

\* What #workingState reads: the lane, or a tree git could not snapshot.
Readings == {lane, [lane EXCEPT !.tree = NoTree]}

Record(e) == Len(log) < MaxLog /\ log' = Append(log, e)

\* A command ran and ended; only then is the candidate its evidence names
\* captured.
RunCheck ==
    /\ Cardinality(Of(log, "evidence")) < MaxEvidence
    /\ \E n \in Policies[declared].verify, ok \in BOOLEAN, cand \in Readings :
          Record([k |-> "evidence", check |-> n, passed |-> ok, refers |-> FALSE,
                  about |-> "any", cand |-> cand])
    /\ UNCHANGED <<declared, lane, base, landed, call, moves, other>>

\* Evidence attached by hand: with no event it refers to, with one, or with one
\* but for an item that is not asked about here.
RecordEvidence ==
    /\ Cardinality(Of(log, "evidence")) < MaxEvidence
    /\ \E e \in {<<FALSE, "any">>, <<TRUE, "any">>, <<TRUE, "other">>} :
          Record([k |-> "evidence", check |-> "none", passed |-> FALSE, refers |-> e[1],
                  about |-> e[2], cand |-> lane])
    /\ UNCHANGED <<declared, lane, base, landed, call, moves, other>>

\* A person answers what an evaluation asked for, for the set and the candidate
\* that evaluation names.
Asked(kind) ==
    UNION {{[set |-> log[i].set, cand |-> log[i].cand, item |-> item.id] :
                item \in {m \in Policies[log[i].set.policy].items : m.kind = kind}} :
           i \in Of(log, "evaluated")}

\* Under an id of the caller's choice, which may be used again, or under a new
\* one.  Two bounds: only under a chosen id do the words differ, and there an
\* attestation always rests on evidence.
Sayings == {[id |-> FreshId, says |-> FreshId]} \cup [id : AnswerIds, says : Words]

\* Nothing is recorded when an id is used again, whether for the same (it is
\* already there) or for something else (it is refused).  The log is read before
\* the append and without the lock; another core on the directory has read it no
\* further than its own last append.
Unused(k, id, seen) == ~\E i \in 1..seen : log[i].k = k /\ log[i].id = id
Speaks(k, id) ==
    \/ id = FreshId /\ UNCHANGED other
    \/ id # FreshId /\ Unused(k, id, Len(log)) /\ UNCHANGED other
    \/ id # FreshId /\ Unused(k, id, other) /\ other' = Len(log) + 1

RecordAnswer ==
    /\ \E a \in Asked("mandatory-answer"), s \in Sayings :
          /\ Speaks("answer", s.id)
          /\ Record([k |-> "answer", id |-> s.id, set |-> a.set, item |-> a.item, cand |-> a.cand,
                     says |-> s.says])
    /\ UNCHANGED <<declared, lane, base, landed, call, moves>>

RecordAttestation ==
    /\ \E a \in Asked("human-attestation"), s \in Sayings :
          \E rests \in {{}, {i \in DOMAIN log : log[i].k = "evidence" /\ log[i].cand = a.cand}} :
              /\ rests # {} \/ s.id = FreshId
              /\ Speaks("attestation", s.id)
              /\ Record([k |-> "attestation", id |-> s.id, set |-> a.set, item |-> a.item,
                         cand |-> a.cand, says |-> s.says, rests |-> rests])
    /\ UNCHANGED <<declared, lane, base, landed, call, moves>>

-----------------------------------------------------------------------------
(* integrate.                                                                *)

\* The head of the log and the declaration are read before anything is awaited.
Begin(c) ==
    /\ call[c].pc = "idle" /\ Len(log) < MaxLog
    /\ \E override \in BOOLEAN :
          call' = [call EXCEPT ![c] = [pc |-> "preparing", head |-> Len(log),
                                       policy |-> declared, override |-> override]]
    /\ UNCHANGED <<log, declared, lane, base, landed, moves, other>>

\* The events one evaluation appends: the set and its supersession when the set
\* is new, and the evaluation.
Entries(set, cand, override, verdict) ==
    LET prior == PriorSet(log)
        fresh == set \notin Created(log)
        new   == [k |-> "set", set |-> set, supersedes |-> prior]
        old   == [k |-> "superseded", set |-> prior, by |-> set]
        done  == [k |-> "evaluated", set |-> set, cand |-> cand, override |-> override,
                  verdict |-> verdict, attempt |-> Cardinality(Attempts(log, set)) + 1, asof |-> Len(log)]
    IN  IF ~fresh THEN <<done>>
        ELSE IF prior = NoSet THEN <<new, done>>
        ELSE <<new, old, done>>

\* #prepareIntegrationEvaluation asks git for the candidate and pins the set.
Prepared(c) == {[set |-> SetOf(call[c].policy, cand), cand |-> cand] : cand \in Readings}

\* #evaluatePreparedIntegration, over the log as it is under the lock.
Evaluated(c, p) == IntegrationVerdict(Policies[call[c].policy], log, p.set, p.cand, call[c].override)

\* A log that moved since Begin, by any event at all, refuses the call.
Conflict(c) == call' = [call EXCEPT ![c] = Idle] /\ UNCHANGED log

\* One synchronous step evaluates and appends (compareAndAppendBatch).  A batch
\* that cannot be built throws; a refusal or an override that is not allowed ends
\* the call.
Decide(c) ==
    /\ call[c].pc = "preparing"
    /\ \/ Conflict(c)
       \/ \E p \in Prepared(c) :
            LET verdict == Evaluated(c, p)
                entries == Entries(p.set, p.cand, call[c].override, verdict)
            IN  /\ Len(log) = call[c].head
                /\ verdict # "throws"
                /\ Len(log) + Len(entries) <= MaxLog
                /\ log' = log \o entries
                /\ call' = [call EXCEPT ![c] =
                              IF verdict = "passed"
                              THEN [pc |-> "passed", set |-> p.set, cand |-> p.cand] ELSE Idle]
    /\ UNCHANGED <<declared, lane, base, landed, moves, other>>

\* Mutant of Diff: the lane is not compared with what was evaluated.
DiffOfAnything(c) ==
    /\ call[c].pc = "passed"
    /\ call' = [call EXCEPT ![c] =
                  IF base # lane.tree
                  THEN [pc |-> "patched", set |-> call[c].set, cand |-> lane,
                        from |-> base, to |-> lane.tree]
                  ELSE Idle]
    /\ UNCHANGED <<log, declared, lane, base, landed, moves, other>>

\* integrateLane: the lane still holds what was evaluated; the patch is built
\* between two trees git has already stored.
Diff(c) ==
    /\ call[c].pc = "passed"
    /\ call' = [call EXCEPT ![c] =
                  IF lane = call[c].cand /\ Pinned(lane) /\ base # lane.tree
                  THEN [pc |-> "patched", set |-> call[c].set, cand |-> call[c].cand,
                        from |-> base, to |-> lane.tree]
                  ELSE Idle]
    /\ UNCHANGED <<log, declared, lane, base, landed, moves, other>>

\* The lane is looked at once more; git applies all of the patch or refuses it,
\* and the baseline advances when it applied.
Apply(c) ==
    /\ call[c].pc = "patched"
    /\ call' = [call EXCEPT ![c] = Idle]
    /\ \/ /\ lane = call[c].cand
          /\ Len(landed) < MaxApplied
          /\ landed' = Append(landed, [from |-> call[c].from, to |-> call[c].to,
                                       set |-> call[c].set])
          /\ base' = call[c].to
       \/ UNCHANGED <<base, landed>>
    /\ UNCHANGED <<log, declared, lane, moves, other>>

Next ==
    \/ EditLane \/ Redeclare
    \/ RunCheck \/ RecordEvidence \/ RecordAnswer \/ RecordAttestation
    \/ \E c \in Calls : Begin(c) \/ Decide(c) \/ Diff(c) \/ Apply(c)

Spec == Init /\ [][Next]_vars

-----------------------------------------------------------------------------
(* Properties.                                                               *)

\* The last of some of the things the log says.
Latest(prefix, places) ==
    IF places = {} THEN [k |-> "nothing"]
    ELSE prefix[CHOOSE i \in places : \A j \in places : j <= i]

\* Said under an id that had been used before.
Repeated(prefix, i) ==
    prefix[i].id # FreshId
    /\ \E j \in 1..(i - 1) : prefix[j].k = prefix[i].k /\ prefix[j].id = prefix[i].id

\* What a person answers an item with.
ReplyTo(item) ==
    CASE item.kind = "mandatory-answer" -> "answer"
      [] item.kind = "human-attestation" -> "attestation"
      [] OTHER -> "nothing"

\* Two different things were said to an item under one id.
Garbled(item, prefix, set) ==
    \E i, j \in Of(prefix, ReplyTo(item)) :
        /\ prefix[i].id \in AnswerIds /\ prefix[j].id = prefix[i].id /\ prefix[i] # prefix[j]
        /\ prefix[i].set = set /\ prefix[i].item = item.id

\* What the declaration's words ask of one item, said without the evaluators.
Met(item, prefix, set, cand) ==
    LET said(k) == Latest(prefix, {i \in DOMAIN prefix :
                                     /\ prefix[i].k = k /\ prefix[i].set = set
                                     /\ prefix[i].item = item.id /\ ~Repeated(prefix, i)})
        spoken(k) == said(k).k = k /\ said(k).cand = cand
        gone == \E i \in DOMAIN prefix : prefix[i].k = "superseded" /\ prefix[i].set = set
        run  == Latest(prefix, {i \in DOMAIN prefix :
                                  prefix[i].k = "evidence" /\ prefix[i].check = item.id})
        about(e) == /\ e.k = "evidence" /\ e.cand.tree = cand.tree /\ e.about # "other"
                    /\ e.check # "none" \/ e.refers
    IN  CASE item.kind = "verification" -> run.k = "evidence" /\ run.passed /\ run.cand.tree = cand.tree
          [] item.kind = "evidence-present" -> \E i \in DOMAIN prefix : about(prefix[i])
          [] item.kind = "mandatory-answer" -> ~gone /\ spoken("answer") /\ ~Garbled(item, prefix, set)
          [] item.kind = "human-attestation" ->
                /\ ~gone /\ spoken("attestation") /\ ~Garbled(item, prefix, set)
                /\ said("attestation").rests # {}
                /\ \A i \in said("attestation").rests : about(prefix[i])
          [] OTHER -> FALSE

\* A declared check is known to have failed on this very candidate.
FailedOn(item, prefix, cand) ==
    LET run == Latest(prefix, {i \in DOMAIN prefix :
                                  prefix[i].k = "evidence" /\ prefix[i].check = item.id})
    IN  item.kind = "verification" /\ run.k = "evidence" /\ ~run.passed /\ run.cand = cand

\* A candidate has earned its set: every check asked for is declared, everything
\* is known of it, everything that is not advisory is met, and what an override
\* stands in for is a known failure of an item that allows it.
Earned(e) ==
    LET policy == Policies[e.set.policy]
        prefix == SubSeq(log, 1, e.asof)
        met(i) == Met(i, prefix, e.set, e.cand)
        failed(i) == FailedOn(i, prefix, e.cand)
    IN  /\ policy.readable /\ (policy.items # {} => e.cand.tree # NoTree)
        /\ \A i \in policy.items : i.kind = "verification" => i.id \in policy.verify
        /\ \A i \in policy.items : met(i) \/ failed(i)
        /\ \A i \in policy.items :
              failed(i) => \/ i.enforcement = "advisory" /\ ~e.override
                           \/ i.enforcement = "required" /\ i.allowOverride /\ e.override
        /\ e.override => policy.allowOverride /\ \E i \in policy.items : failed(i)

\* An evaluation is recorded as passed exactly when the log, as it was then, had
\* earned it: the evaluators, the normalisation, the order of the refusals, the
\* override and the rules of the record (evidence.ts:797) agree on one meaning.
VerdictIsEarned ==
    \A i \in DOMAIN log : log[i].k = "evaluated" => (log[i].verdict = "passed" <=> Earned(log[i]))

\* What lands in the user's directory is a tree some passed evaluation judged,
\* whatever happened to the lane, the log or the declaration between the
\* verdict and the patch (orchestrator.ts:1134, worktree.ts:137).
LandedWasJudged ==
    \A n \in DOMAIN landed : \E i \in DOMAIN log :
        /\ log[i].k = "evaluated" /\ log[i].verdict = "passed"
        /\ log[i].set = landed[n].set /\ log[i].cand.tree = landed[n].to

\* What a person and the checks can still say of a candidate: every declared
\* check passes, every question is answered, every attestation rests on a check.
Helped(set, cand) ==
    LET policy == Policies[set.policy]
        ids(kind) == {i.id : i \in {m \in policy.items : m.kind = kind}}
        runs == {[k |-> "evidence", check |-> n, passed |-> TRUE, refers |-> FALSE,
                  about |-> "any", cand |-> cand] : n \in policy.verify \cup {"any"}}
        replies == {[k |-> "answer", id |-> FreshId, set |-> set, item |-> n, cand |-> cand,
                     says |-> FreshId] : n \in ids("mandatory-answer")}
        signed == {[k |-> "attestation", id |-> FreshId, set |-> set, item |-> n, cand |-> cand,
                    says |-> FreshId, rests |-> {Len(log) + 1}] : n \in ids("human-attestation")}
    IN  log \o SetToSeq(runs) \o SetToSeq(replies) \o SetToSeq(signed)

Wayout(set) ==
    LET helped == Helped(set, lane)
    IN  IntegrationVerdict(Policies[set.policy], helped, set, lane, FALSE) = "passed"

Judgeable(name) ==
    /\ Policies[name].readable /\ ~Conflicting(Policies[name])
    /\ \A i \in Policies[name].items : ~Visual(i)

\* A refusal is never final: whatever the log holds, the checks and the answers
\* it asks for let the lane through under a declaration that can be met, unless
\* its set was superseded or two things were said under one id (evaluators.ts:439:
\* ids are never given up, so such an item waits for another set).
NeverStuck ==
    LET set == SetOf(declared, lane)
        garbled == \E i \in Policies[declared].items : Garbled(i, log, set)
    IN  (Judgeable(declared) /\ ~Superseded(log, set) /\ ~garbled) => Wayout(set)
=============================================================================
