-------------------------------- MODULE Gate --------------------------------
(* The verdict of work/gate.ts: what the facts of the evaluators, the        *)
(* enforcement of each item and an optional override make of one transition. *)
(* A policy is what the workspace declares for it: its items, and whether    *)
(* integration may be overridden at all.                                     *)
EXTENDS Evaluators

UserFinal(item) == item.user /\ item.kind \in {"mandatory-answer", "human-attestation"}

\* Mutant of NormalizeFact: a fact about another candidate keeps its state.
NormalizeAnyCandidate(fact, cand) ==
    IF fact.validity = "current" THEN fact ELSE [fact EXCEPT !.state = "unknown"]

\* Only a current fact about exactly this pinned candidate keeps its state.
NormalizeFact(fact, cand) ==
    IF fact.validity = "current" /\ fact.cand = cand /\ Pinned(cand) THEN fact
    ELSE [fact EXCEPT !.state = "unknown",
                      !.validity = IF @ = "current" THEN "uncertain" ELSE @]

Facts(policy, log, set, cand) ==
    [item \in policy.items |-> NormalizeFact(Evaluate(item, log, set, cand), cand)]

Known(facts)   == {i \in DOMAIN facts : facts[i].state # "unknown"}
Unmet(facts)   == {i \in DOMAIN facts : i.enforcement # "advisory" /\ facts[i].state # "satisfied"}
AbsoluteUnmet(facts) == {i \in Unmet(facts) : i.enforcement = "absolute" \/ UserFinal(i)}
RequiredUnmet(facts) == {i \in Unmet(facts) : i.enforcement = "required"}
NotOverridable(facts) == {i \in RequiredUnmet(facts) : ~i.allowOverride \/ UserFinal(i)}

\* An item the parser lets through nowhere, or one whose check is not declared:
\* the set cannot be evaluated.
Conflicting(policy) ==
    \E i \in policy.items : \/ (i.kind = "model-rubric" /\ i.enforcement = "absolute")
                            \/ (i.kind = "verification" /\ i.id \notin policy.verify)

\* createTransitionEvaluation refuses to build a passed record that breaks the
\* rules of validateTransitionEvaluation; it throws.
Buildable(facts, overridden) ==
    /\ \A i \in DOMAIN facts : facts[i].state # "unknown"
    /\ \A i \in DOMAIN facts : i.enforcement = "absolute" => facts[i].state = "satisfied"
    /\ IF overridden
       THEN /\ \A i \in DOMAIN facts : (i.user \/ ~i.allowOverride) => facts[i].state = "satisfied"
            /\ \E i \in DOMAIN facts : i.enforcement = "required" /\ facts[i].state = "failed"
       ELSE \A i \in DOMAIN facts : i.enforcement = "required" => facts[i].state = "satisfied"

Passed(facts, overridden) == IF Buildable(facts, overridden) THEN "passed" ELSE "throws"

\* What an override does: "passed" or "blocked", or "none" when the rest decides.
OverrideVerdict(facts) ==
    LET required == {i \in DOMAIN facts : i.enforcement = "required"}
        current  == Known(facts) = DOMAIN facts
        eligible == /\ RequiredUnmet(facts) # {}
                    /\ \A i \in RequiredUnmet(facts) : facts[i].state = "failed"
                    /\ NotOverridable(facts) = {}
    IN  IF required # {} /\ AbsoluteUnmet(facts) = {} /\ eligible /\ current
        THEN Passed(facts, TRUE)
        ELSE IF \/ required = {} \/ AbsoluteUnmet(facts) # {} \/ NotOverridable(facts) # {}
                \/ (RequiredUnmet(facts) = {} /\ current)
             THEN "blocked"
        ELSE "none"

\* The refusals in the order the code tries them; what is left passes.
PlainVerdict(facts) ==
    LET unknown  == DOMAIN facts \ Known(facts)
        question == \E i \in RequiredUnmet(facts) \cap unknown :
                       i.kind \in {"mandatory-answer", "human-attestation"}
        look     == \E i \in unknown : /\ i.enforcement = "required" /\ Visual(i)
                                       /\ facts[i].validity = "uncertain"
        unheard  == \E i \in unknown : i.enforcement = "advisory"
    IN  IF question \/ look THEN "waiting-for-human"
        ELSE IF AbsoluteUnmet(facts) # {} THEN "blocked"
        ELSE IF RequiredUnmet(facts) # {} \/ unheard THEN "retry"
        ELSE Passed(facts, FALSE)

\* evaluateTransition: an absolute item a model judges blocks before all else.
TransitionVerdict(facts, override) ==
    IF \E i \in DOMAIN facts : i.enforcement = "absolute" /\ i.kind = "model-rubric" THEN "blocked"
    ELSE IF override /\ OverrideVerdict(facts) # "none" THEN OverrideVerdict(facts)
    ELSE PlainVerdict(facts)

\* evaluateGuardedTransition: the items are evaluated, and their facts judged.
GuardedVerdict(policy, log, set, cand, override) ==
    TransitionVerdict(Facts(policy, log, set, cand), override)

\* evaluateIntegrationTransition: an override the workspace does not permit, a
\* conflicting set or a declaration that cannot be read fails the attempt.  The
\* transition is evaluated first all the same, and may throw.
IntegrationVerdict(policy, log, set, cand, override) ==
    LET verdict == GuardedVerdict(policy, log, set, cand, override /\ policy.allowOverride)
    IN  IF verdict = "throws" THEN "throws"
        ELSE IF \/ ~policy.readable \/ Conflicting(policy) \/ (override /\ ~policy.allowOverride)
             THEN "failed"
        ELSE verdict
=============================================================================
