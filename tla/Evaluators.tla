----------------------------- MODULE Evaluators -----------------------------
(* The evidence ledger and the evaluators of work/ledger.ts and              *)
(* work/evaluators.ts: what the log of a thread says of one expectation item *)
(* for one candidate.  Everything here is a pure function of the log, as it  *)
(* is in the code; Gate turns the facts into a verdict.                      *)
(*                                                                           *)
(* A candidate is a working tree with the commit it sits on; NoTree stands   *)
(* for a tree git could not read.  An item carries its kind of guardrail,    *)
(* its enforcement, whether it may be overridden, and whether the user has   *)
(* the final word on it.                                                     *)
EXTENDS Naturals, Sequences, FiniteSets

CONSTANTS NoTree,   \* the tree of a candidate that could not be identified
          NoSet,    \* no expectation set
          FreshId   \* the id of an answer whose caller chose none: no other has it

Kinds == {"verification", "evidence-present", "mandatory-answer",
          "human-attestation", "pixel-diff", "model-rubric"}
Enforcements == {"advisory", "required", "absolute"}
Visual(item) == item.kind \in {"pixel-diff", "model-rubric"}

Pinned(cand) == cand.tree # NoTree
\* Two candidates hold the same content: the tree decides, not the commit.
SameContent(a, b) == Pinned(a) /\ Pinned(b) /\ a.tree = b.tree

-----------------------------------------------------------------------------
(* The ledger: folds over the log.                                           *)

\* Places in the log, and the last one of some.
Of(log, k) == {i \in DOMAIN log : log[i].k = k}
Newest(places) == CHOOSE i \in places : \A j \in places : j <= i

Created(log) == {log[i].set : i \in Of(log, "set")}
\* The set created last: foldExpectationSetHistory(...).at(-1).
PriorSet(log) == LET made == Of(log, "set")
                 IN  IF made = {} THEN NoSet ELSE log[Newest(made)].set
\* An event superseded the set, or a later set names it.
Superseded(log, set) ==
    \E i \in DOMAIN log :
        \/ (log[i].k = "superseded" /\ log[i].set = set)
        \/ (log[i].k = "set" /\ log[i].supersedes = set)
\* The attempts accepted for the transition to this set (foldTransitionRecords).
Attempts(log, set) == {i \in Of(log, "evaluated") : log[i].set = set}

\* A failed command is as concrete as a passed one; other evidence has to
\* refer to an event of its kind.
Concrete(e) == e.check # "none" \/ e.refers

\* Evidence may be attached to one item of one set, and then counts for no other.
Matches(e) == e.about = "any"

\* What an answer or an attestation says, its id and its time apart.
Definition(e) == <<e.set, e.item, e.cand, e.says>>
AttestedDefinition(e) == <<Definition(e), e.rests>>
SameAnswer(a, b) == Definition(a) = Definition(b)
SameAttestation(a, b) == AttestedDefinition(a) = AttestedDefinition(b)
Same(k, a, b) == IF k = "answer" THEN SameAnswer(a, b) ELSE SameAttestation(a, b)

\* The places in the log where an id is used for the first time: what was said
\* under it there stands.
Firsts(log, k) ==
    {i \in Of(log, k) : \A j \in 1..(i - 1) :
        log[j].k = k /\ log[j].id = log[i].id => log[i].id = FreshId}
Answers(log)      == Firsts(log, "answer")
Attestations(log) == Firsts(log, "attestation")
Standing(log, k)  == IF k = "answer" THEN Answers(log) ELSE Attestations(log)

\* The later places where something else was said under an id already used.
Conflicts(log, k, first) ==
    {j \in Of(log, k) : /\ j > first /\ log[j].id = log[first].id
                        /\ log[first].id # FreshId /\ ~Same(k, log[first], log[j])}
AnswerConflicts(log, first)      == Conflicts(log, "answer", first)
AttestationConflicts(log, first) == Conflicts(log, "attestation", first)

\* An id with two meanings spoils every item it was given for.
Names(e, set, item) == e.set = set /\ e.item = item
HasAnswerConflict(log, set, item) ==
    \E i \in Answers(log) : AnswerConflicts(log, i) # {} /\
        \E j \in {i} \cup AnswerConflicts(log, i) : Names(log[j], set, item)
HasAttestationConflict(log, set, item) ==
    \E i \in Attestations(log) : AttestationConflicts(log, i) # {} /\
        \E j \in {i} \cup AttestationConflicts(log, i) : Names(log[j], set, item)
\* Mutant of HasConflict: what was said first stands, whatever was said later.
FirstStands(log, k, set, item) == FALSE

HasConflict(log, k, set, item) ==
    IF k = "answer" THEN HasAnswerConflict(log, set, item) ELSE HasAttestationConflict(log, set, item)

-----------------------------------------------------------------------------
(* One fact per item: what was observed, how good its provenance is and the  *)
(* candidate it is about.                                                    *)

Fact(state, validity, cand) == [state |-> state, validity |-> validity, cand |-> cand]

\* The runs of a command.
RunsOf(check, log) == {i \in Of(log, "evidence") : log[i].check = check}

\* Mutant of CheckFact: the first run of a command, not the last, is looked at.
CheckFactOfFirstRun(item, log, cand) ==
    LET runs  == RunsOf(item.id, log)
        first == log[CHOOSE i \in runs : \A j \in runs : i <= j]
    IN  IF runs = {} THEN Fact("unknown", "unavailable", cand)
        ELSE IF ~first.passed THEN Fact("failed", "current", first.cand)
        ELSE IF ~SameContent(cand, first.cand) THEN Fact("unknown", "stale", first.cand)
        ELSE Fact("satisfied", "current", cand)

CheckFact(item, log, cand) ==
    LET runs == RunsOf(item.id, log)
        last == log[Newest(runs)]
    IN  IF runs = {} THEN Fact("unknown", "unavailable", cand)
        ELSE IF ~last.passed
             THEN Fact("failed", IF Pinned(last.cand) THEN "current" ELSE "unpinned", last.cand)
        ELSE IF ~SameContent(cand, last.cand)
             THEN Fact("unknown", IF Pinned(last.cand) THEN "stale" ELSE "unpinned", last.cand)
        ELSE Fact("satisfied", "current", cand)

EvidenceFact(item, log, cand) ==
    LET concrete == {i \in Of(log, "evidence") : Matches(log[i]) /\ Concrete(log[i])}
    IN  IF ~Pinned(cand) THEN Fact("unknown", "unpinned", cand)
        ELSE IF \E i \in concrete : SameContent(cand, log[i].cand)
             THEN Fact("satisfied", "current", cand)
        ELSE Fact("unknown", IF concrete = {} THEN "unavailable" ELSE "stale", cand)

\* Answers and attestations are judged by the last standing one for the set and
\* the item, and stand for the exact candidate only, its commit included.
LastStanding(log, k, set, item) == Newest({i \in Standing(log, k) : Names(log[i], set, item)})

Judgement(item, log, set, cand, k) ==
    LET last == log[LastStanding(log, k, set, item.id)].cand
    IN  IF Superseded(log, set) THEN Fact("unknown", "stale", cand)
        ELSE IF HasConflict(log, k, set, item.id) THEN Fact("unknown", "uncertain", cand)
        ELSE IF ~\E i \in Standing(log, k) : Names(log[i], set, item.id)
             THEN Fact("unknown", "unavailable", cand)
        ELSE IF last # cand
             THEN Fact("unknown", IF Pinned(last) THEN "stale" ELSE "unpinned", last)
        ELSE Fact("satisfied", "current", cand)

AnswerFact(item, log, set, cand) == Judgement(item, log, set, cand, "answer")

\* An attestation also has to rest on concrete evidence of this content.
AttestationFact(item, log, set, cand) ==
    LET fact  == Judgement(item, log, set, cand, "attestation")
        rests == log[LastStanding(log, "attestation", set, item.id)].rests
    IN  IF /\ fact.state = "satisfied"
           /\ \/ rests = {}
              \/ \E i \in rests : ~Matches(log[i]) \/ ~Concrete(log[i]) \/ ~SameContent(cand, log[i].cand)
        THEN Fact("unknown", "unavailable", cand)
        ELSE fact

\* The core has no capture runtime and no model capability: the production log
\* holds no trusted visual evidence, and both visual evaluators say so.
PixelFact(item, log, set, cand) ==
    Fact("unknown", IF Superseded(log, set) THEN "stale"
                    ELSE IF ~Pinned(cand) THEN "unpinned" ELSE "unavailable", cand)
RubricFact(item, log, set, cand) ==
    Fact("unknown", IF item.enforcement = "absolute" THEN "uncertain"
                    ELSE IF Superseded(log, set) THEN "stale" ELSE "unavailable", cand)

\* The closed registry.
Evaluate(item, log, set, cand) ==
    CASE item.kind = "verification"      -> CheckFact(item, log, cand)
      [] item.kind = "evidence-present"  -> EvidenceFact(item, log, cand)
      [] item.kind = "mandatory-answer"  -> AnswerFact(item, log, set, cand)
      [] item.kind = "human-attestation" -> AttestationFact(item, log, set, cand)
      [] item.kind = "pixel-diff"        -> PixelFact(item, log, set, cand)
      [] item.kind = "model-rubric"      -> RubricFact(item, log, set, cand)
=============================================================================
