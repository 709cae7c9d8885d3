------------------------- MODULE IntegrationProofs -------------------------
(* What the gate promises, for any policies the parser accepts, any ledger   *)
(* and any number of calls to integrate: a passed verdict is an earned one,  *)
(* what lands was judged, and a refusal is never final.                      *)
(*                                                                           *)
(* The first half says what the evaluators and the gate compute: for every   *)
(* ledger the fact of an item is what the item means (FactIsMeaning), and    *)
(* the refusals, the override and the rules of the record leave exactly what *)
(* was earned (VerdictMeans).  The second half is about the state: the log   *)
(* only grows, so what was earned when it was evaluated stays true of the    *)
(* prefix that was evaluated.                                                *)
EXTENDS Integration, WellFoundedInduction, SequenceTheorems, FiniteSetTheorems, TLAPS

-----------------------------------------------------------------------------
(* Places in a log.                                                          *)

\* Of some places one is the oldest.
LEMMA OldestIs ==
  ASSUME NEW S \in SUBSET Nat, S # {}
  PROVE  \E m \in S : \A j \in S : m <= j
  <1> DEFINE less == OpToRel(<, Nat)
  <1>1. \A x, y \in Nat : x < y => <<x, y>> \in less
    BY DEF OpToRel
  <1>2. IsWellFoundedOn(less, Nat)
    BY NatLessThanWellFounded
  <1> HIDE DEF less
  <1>3. PICK m \in S : \A j \in S : ~(<<j, m>> \in less)
    BY <1>2, WFMin
  <1>4. \A j \in S : m <= j
    <2> SUFFICES ASSUME NEW j \in S, ~(m <= j) PROVE FALSE
      OBVIOUS
    <2>1. j \in Nat /\ m \in Nat
      OBVIOUS
    <2>2. j < m
      BY <2>1
    <2>3. <<j, m>> \in less
      BY <1>1, <2>1, <2>2
    <2> QED BY <2>3, <1>3
  <1> QED BY <1>4

\* And, of places up to a bound, one is the newest.
LEMMA NewestIs ==
  ASSUME NEW n \in Nat, NEW S \in SUBSET (1..n), S # {}
  PROVE  /\ Newest(S) \in S
         /\ \A j \in S : j <= Newest(S)
  <1> DEFINE T == {j \in Nat : \E i \in S : j = n - i}
  <1>1. T \in SUBSET Nat /\ T # {}
    <2>1. PICK i \in S : TRUE
      OBVIOUS
    <2>2. n - i \in T
      BY <2>1
    <2> QED BY <2>2
  <1>2. PICK m \in T : \A j \in T : m <= j
    <2> HIDE DEF T
    <2> QED BY <1>1, OldestIs
  <1>3. PICK i \in S : m = n - i
    BY <1>2
  <1>4. \A j \in S : j <= i
    <2> SUFFICES ASSUME NEW j \in S PROVE j <= i
      OBVIOUS
    <2>1. n - j \in T
      OBVIOUS
    <2>2. m <= n - j
      BY <2>1, <1>2
    <2> QED BY <2>2, <1>3
  <1> QED BY <1>4 DEF Newest

\* What the ledger's events hold.  Names an item, a check or a saying can have
\* are those of the policies and of the callers.
Ids == AnswerIds \cup {FreshId}
Checks == (UNION {Policies[n].verify : n \in DOMAIN Policies}) \cup {"none", "any"}
ItemNames == UNION {{i.id : i \in Policies[n].items} : n \in DOMAIN Policies}
Said == AnswerIds \cup {FreshId} \cup Words

Verdicts == {"passed", "failed", "blocked", "retry", "waiting-for-human"}

Events ==
    [k : {"evidence"}, check : Checks, passed : BOOLEAN, refers : BOOLEAN,
     about : {"any", "other"}, cand : Readable]
    \cup [k : {"answer"}, id : Ids, set : Sets, item : ItemNames, cand : Readable, says : Said]
    \cup [k : {"attestation"}, id : Ids, set : Sets, item : ItemNames, cand : Readable, says : Said,
          rests : SUBSET Nat]
    \cup [k : {"set"}, set : Sets, supersedes : Sets \cup {NoSet}]
    \cup [k : {"superseded"}, set : Sets, by : Sets]
    \cup [k : {"evaluated"}, set : Sets, cand : Readable, override : BOOLEAN,
          verdict : Verdicts, attempt : Nat, asof : Nat]

\* What an attestation rests on are pieces of evidence before it, and every
\* superseded set has an event that says so.
RestsOnEvidence(l) ==
    \A i \in Of(l, "attestation") : \A r \in l[i].rests : r \in DOMAIN l /\ l[r].k = "evidence"
Announced(l) ==
    \A i \in Of(l, "set") : l[i].supersedes # NoSet =>
        \E j \in Of(l, "superseded") : l[j].set = l[i].supersedes
Ledgers == {l \in Seq(Events) : RestsOnEvidence(l) /\ Announced(l)}

\* The fields of one event.
LEMMA Fields ==
  ASSUME NEW l \in Seq(Events), NEW i \in DOMAIN l
  PROVE  /\ l[i].k = "evidence" => /\ l[i].cand \in Readable /\ l[i].passed \in BOOLEAN
                                   /\ l[i].refers \in BOOLEAN /\ l[i].about \in {"any", "other"}
         /\ l[i].k \in {"answer", "attestation"} =>
               l[i].id \in Ids /\ l[i].set \in Sets /\ l[i].cand \in Readable
         /\ l[i].k = "attestation" => l[i].rests \in SUBSET Nat
         /\ l[i].k = "set" => l[i].supersedes \in Sets \cup {NoSet}
  <1>1. l[i] \in Events
    BY ElementOfSeq, LenProperties
  <1> QED BY <1>1 DEF Events

\* The newest of some places of a log.
LEMMA Places ==
  ASSUME NEW l \in Seq(Events), NEW S \in SUBSET (DOMAIN l), S # {}
  PROVE  /\ Newest(S) \in S
         /\ \A j \in S : j <= Newest(S)
  <1>1. DOMAIN l = 1..Len(l) /\ Len(l) \in Nat
    BY LenProperties
  <1> QED BY <1>1, NewestIs

-----------------------------------------------------------------------------
(* The evaluators, kind by kind: what they and the normalisation make of an  *)
(* item is what the reference says of it.                                    *)

\* A check is what its last run was.
LEMMA CheckIsRun ==
  ASSUME NEW l \in Seq(Events), NEW item, item.kind = "verification", NEW set,
         NEW cand \in Readable, Pinned(cand)
  PROVE  LET state == NormalizeFact(CheckFact(item, l, cand), cand).state
         IN  /\ state \in {"unknown", "satisfied", "failed"}
             /\ state = "satisfied" <=> Met(item, l, set, cand)
             /\ state = "failed" <=> FailedOn(item, l, cand)
  <1> DEFINE runs == RunsOf(item.id, l)
             run == l[Newest(runs)]
  <1>1. runs \in SUBSET (DOMAIN l)
    BY DEF RunsOf, Of
  <1>2. runs = {i \in DOMAIN l : l[i].k = "evidence" /\ l[i].check = item.id}
    BY DEF RunsOf, Of
  <1>3. CASE runs = {}
    <2>1. CheckFact(item, l, cand) = Fact("unknown", "unavailable", cand)
      BY <1>3 DEF CheckFact
    <2>2. NormalizeFact(CheckFact(item, l, cand), cand).state = "unknown"
      BY <2>1 DEF NormalizeFact, Fact
    <2>3. ~Met(item, l, set, cand) /\ ~FailedOn(item, l, cand)
      BY <1>3, <1>2 DEF Met, FailedOn, Latest
    <2> QED BY <2>2, <2>3
  <1>4. CASE runs # {}
    <2>1. /\ Latest(l, {i \in DOMAIN l : l[i].k = "evidence" /\ l[i].check = item.id}) = run
          /\ Newest(runs) \in runs
      BY <1>4, <1>2, <1>1, Places DEF Latest, Newest
    <2>2. run.k = "evidence" /\ run.cand \in Readable /\ run.passed \in BOOLEAN
      BY <2>1, <1>2, Fields
    <2> HIDE DEF run
    <2>3. Met(item, l, set, cand) <=> run.passed /\ run.cand.tree = cand.tree
      BY <2>1, <2>2 DEF Met
    <2>4. FailedOn(item, l, cand) <=> ~run.passed /\ run.cand = cand
      BY <2>1, <2>2 DEF FailedOn
    <2>5. CheckFact(item, l, cand) =
            IF ~run.passed
             THEN Fact("failed", IF Pinned(run.cand) THEN "current" ELSE "unpinned", run.cand)
            ELSE IF ~SameContent(cand, run.cand)
             THEN Fact("unknown", IF Pinned(run.cand) THEN "stale" ELSE "unpinned", run.cand)
            ELSE Fact("satisfied", "current", cand)
      BY <1>4 DEF CheckFact, run
    <2> QED BY <2>2, <2>3, <2>4, <2>5 DEF NormalizeFact, Fact, SameContent, Pinned, Readable
  <1> QED BY <1>3, <1>4

\* What is not known of an item, whatever the reason and the candidate.
Unheard(fact) == \E v, c : fact = Fact("unknown", v, c)

\* An unknown state stays unknown.
LEMMA StateKept ==
  ASSUME NEW fact, NEW cand, Unheard(fact)
  PROVE  NormalizeFact(fact, cand).state = "unknown"
  <1>1. PICK v, c : fact = Fact("unknown", v, c)
    BY DEF Unheard
  <1>2. fact = [state |-> "unknown", validity |-> v, cand |-> c]
    BY <1>1 DEF Fact
  <1> QED BY <1>2 DEF NormalizeFact

\* Evidence is present when some of it is about this content.
LEMMA PresentIsEvidence ==
  ASSUME NEW l \in Seq(Events), NEW item, item.kind = "evidence-present", NEW set,
         NEW cand \in Readable, Pinned(cand)
  PROVE  LET state == NormalizeFact(EvidenceFact(item, l, cand), cand).state
         IN  /\ state \in {"unknown", "satisfied"}
             /\ state = "satisfied" <=> Met(item, l, set, cand)
             /\ ~FailedOn(item, l, cand)
  <1> DEFINE concrete == {i \in Of(l, "evidence") : Matches(l[i]) /\ Concrete(l[i])}
             there == \E i \in concrete : SameContent(cand, l[i].cand)
  <1>1. ~FailedOn(item, l, cand)
    BY DEF FailedOn
  <1>2. Met(item, l, set, cand) <=>
          \E i \in DOMAIN l : /\ l[i].k = "evidence" /\ l[i].cand.tree = cand.tree
                              /\ l[i].about # "other" /\ (l[i].check # "none" \/ l[i].refers)
    BY DEF Met
  <1>3. Met(item, l, set, cand) <=> there
    BY <1>2, Fields DEF SameContent, Pinned, Matches, Concrete, Of
  <1>4. EvidenceFact(item, l, cand) =
          IF there THEN Fact("satisfied", "current", cand)
          ELSE Fact("unknown", IF concrete = {} THEN "unavailable" ELSE "stale", cand)
    BY DEF EvidenceFact
  <1> HIDE DEF there, concrete
  <1> QED BY <1>1, <1>3, <1>4 DEF NormalizeFact, Fact

\* Under an id that was used before the first use stands.
LEMMA FirstUse ==
  ASSUME NEW l \in Seq(Events), NEW k, NEW i \in Of(l, k), l[i].id # FreshId
  PROVE  \E f \in Firsts(l, k) : f <= i /\ l[f].id = l[i].id
  <1>1. DOMAIN l = 1..Len(l) /\ Len(l) \in Nat
    BY LenProperties
  <1> DEFINE uses == {j \in Of(l, k) : l[j].id = l[i].id}
  <1>2. uses \in SUBSET Nat /\ i \in uses
    BY <1>1 DEF Of
  <1>3. PICK f \in uses : \A j \in uses : f <= j
    BY <1>2, OldestIs
  <1>4. f \in Of(l, k) /\ l[f].id = l[i].id /\ f <= i
    BY <1>2, <1>3
  <1>5. ASSUME NEW j \in 1..(f - 1), l[j].k = k, l[j].id = l[f].id
        PROVE  FALSE
    <2>1. j \in Of(l, k)
      BY <1>1, <1>4, <1>5 DEF Of
    <2>2. f <= j
      BY <1>3, <1>4, <1>5, <2>1
    <2> QED BY <2>2, <1>1, <1>4 DEF Of
  <1>6. f \in Firsts(l, k)
    BY <1>4, <1>5 DEF Firsts
  <1> QED BY <1>4, <1>6

Spoken == {"answer", "attestation"}

\* Two events under one id say the same exactly when they are the same.
LEMMA SayingIsDefinition ==
  ASSUME NEW l \in Seq(Events), NEW k \in Spoken, NEW i \in Of(l, k), NEW j \in Of(l, k),
         l[i].id = l[j].id
  PROVE  Same(k, l[i], l[j]) <=> l[i] = l[j]
  <1>1. l[i] \in Events /\ l[j] \in Events /\ l[i].k = k /\ l[j].k = k
    BY ElementOfSeq, LenProperties DEF Of
  <1>2. CASE k = "answer"
    <2>1. /\ l[i] = [k |-> l[i].k, id |-> l[i].id, set |-> l[i].set, item |-> l[i].item,
                    cand |-> l[i].cand, says |-> l[i].says]
          /\ l[j] = [k |-> l[j].k, id |-> l[j].id, set |-> l[j].set, item |-> l[j].item,
                    cand |-> l[j].cand, says |-> l[j].says]
      BY <1>1, <1>2 DEF Events
    <2> QED BY <2>1, <1>1, <1>2 DEF Same, SameAnswer, Definition
  <1>3. CASE k = "attestation"
    <2>1. /\ l[i] = [k |-> l[i].k, id |-> l[i].id, set |-> l[i].set, item |-> l[i].item,
                    cand |-> l[i].cand, says |-> l[i].says, rests |-> l[i].rests]
          /\ l[j] = [k |-> l[j].k, id |-> l[j].id, set |-> l[j].set, item |-> l[j].item,
                    cand |-> l[j].cand, says |-> l[j].says, rests |-> l[j].rests]
      BY <1>1, <1>3 DEF Events
    <2> QED BY <2>1, <1>1, <1>3 DEF Same, SameAttestation, AttestedDefinition, Definition
  <1> QED BY <1>2, <1>3 DEF Spoken

\* The evaluators' conflict is what the reference calls garbled.
GarbledFor(k, l, set, name) ==
    \E i, j \in Of(l, k) : /\ l[i].id \in AnswerIds /\ l[j].id = l[i].id /\ l[i] # l[j]
                           /\ l[i].set = set /\ l[i].item = name
ConflictFor(k, l, set, name) ==
    \E i \in Firsts(l, k) : Conflicts(l, k, i) # {} /\
        \E j \in {i} \cup Conflicts(l, k, i) : Names(l[j], set, name)

\* They agree: the first use of an id stands, so any two meanings show as a
\* conflict with it.
LEMMA ConflictIsGarbled ==
  ASSUME NEW l \in Seq(Events), NEW k \in Spoken, NEW set, NEW name
  PROVE  ConflictFor(k, l, set, name) <=> GarbledFor(k, l, set, name)
  <1>1. DOMAIN l = 1..Len(l) /\ Len(l) \in Nat
    BY LenProperties
  <1>2. \A i \in Of(l, k) : l[i].id \in Ids
    BY Fields DEF Of, Spoken
  <1>3. ASSUME ConflictFor(k, l, set, name)
        PROVE  GarbledFor(k, l, set, name)
    <2>1. PICK i \in Firsts(l, k) : /\ Conflicts(l, k, i) # {}
                                   /\ \E j \in {i} \cup Conflicts(l, k, i) : Names(l[j], set, name)
      BY <1>3 DEF ConflictFor
    <2>2. PICK j \in {i} \cup Conflicts(l, k, i) : Names(l[j], set, name)
      BY <2>1
    <2>3. PICK c \in Conflicts(l, k, i) : TRUE
      BY <2>1
    <2>4. i \in Of(l, k)
      BY DEF Firsts
    <2>5. \A d \in Conflicts(l, k, i) : /\ d \in Of(l, k) /\ l[d].id = l[i].id /\ l[i].id # FreshId
                                         /\ ~Same(k, l[i], l[d])
      BY DEF Conflicts
    <2>6. \A d \in Conflicts(l, k, i) : l[i] # l[d]
      BY <2>4, <2>5, SayingIsDefinition
    <2>7. l[i].id \in AnswerIds
      BY <1>2, <2>3, <2>4, <2>5 DEF Ids
    <2>8. CASE j = i
      BY <2>2, <2>3, <2>4, <2>5, <2>6, <2>7, <2>8 DEF GarbledFor, Names
    <2>9. CASE j \in Conflicts(l, k, i)
      BY <2>2, <2>4, <2>5, <2>6, <2>7, <2>9 DEF GarbledFor, Names
    <2> QED BY <2>8, <2>9
  <1>4. ASSUME GarbledFor(k, l, set, name)
        PROVE  ConflictFor(k, l, set, name)
    <2>1. PICK i \in Of(l, k), j \in Of(l, k) : /\ l[i].id \in AnswerIds /\ l[j].id = l[i].id
                                                /\ l[i] # l[j] /\ l[i].set = set /\ l[i].item = name
      BY <1>4 DEF GarbledFor
    <2>2. l[i].id # FreshId
      BY <2>1, ConstantsAssumption DEF ConstantsAssumption
    <2>3. PICK f \in Firsts(l, k) : f <= i /\ l[f].id = l[i].id
      BY <2>2, FirstUse
    <2>4. f \in Of(l, k)
      BY DEF Firsts
    <2>5. \A d \in Of(l, k) : l[d].id = l[f].id /\ l[d] # l[f] => d \in Conflicts(l, k, f)
      <3> SUFFICES ASSUME NEW d \in Of(l, k), l[d].id = l[f].id, l[d] # l[f]
                   PROVE  d \in Conflicts(l, k, f)
        OBVIOUS
      <3>1. ~Same(k, l[f], l[d])
        BY <2>4, SayingIsDefinition
      <3>2. d > f
        <4>1. d \in 1..Len(l) /\ f \in 1..Len(l) /\ d # f /\ l[d].k = k
          BY <1>1, <2>4 DEF Of
        <4>2. d \in 1..(f - 1) => FALSE
          <5>1. \A x \in 1..(f - 1) : l[x].k = k /\ l[x].id = l[f].id => l[f].id = FreshId
            BY DEF Firsts
          <5> QED BY <5>1, <4>1, <2>2, <2>3
        <4> QED BY <4>1, <4>2, <1>1
      <3> QED BY <3>1, <3>2, <2>2, <2>3 DEF Conflicts
    <2>6. CASE l[i] = l[f]
      <3>1. j \in Conflicts(l, k, f)
        BY <2>1, <2>3, <2>5, <2>6
      <3> QED BY <3>1, <2>1, <2>6 DEF ConflictFor, Names
    <2>7. CASE l[i] # l[f]
      <3>1. i \in Conflicts(l, k, f)
        BY <2>1, <2>3, <2>5, <2>7
      <3> QED BY <3>1, <2>1 DEF ConflictFor, Names
    <2> QED BY <2>6, <2>7
  <1> QED BY <1>3, <1>4

\* Where something not said before was said to an item under a set.
SaidPlaces(k, l, set, name) ==
    {i \in DOMAIN l : l[i].k = k /\ l[i].set = set /\ l[i].item = name /\ ~Repeated(l, i)}

\* What stands is what was not repeated.
LEMMA StandingIsNotRepeated ==
  ASSUME NEW l, NEW k \in Spoken, NEW set, NEW name
  PROVE  {i \in Standing(l, k) : Names(l[i], set, name)} = SaidPlaces(k, l, set, name)
  <1>1. Standing(l, k) = Firsts(l, k)
    BY DEF Standing, Answers, Attestations, Spoken
  <1>2. ASSUME NEW i \in Of(l, k)
        PROVE  i \in Firsts(l, k) <=> ~Repeated(l, i)
    BY DEF Firsts, Repeated, Of
  <1> QED BY <1>1, <1>2 DEF SaidPlaces, Firsts, Of, Names

\* Every supersession has its event, so a set that names another adds none.
LEMMA SupersessionIsAnnounced ==
  ASSUME NEW l \in Ledgers, NEW set \in Sets
  PROVE  Superseded(l, set) <=> \E i \in DOMAIN l : l[i].k = "superseded" /\ l[i].set = set
  <1>1. NoSet # set
    BY ConstantsAssumption DEF ConstantsAssumption
  <1> QED BY <1>1 DEF Superseded, Ledgers, Announced, Of

\* When an item that asks for a person's word is met.
Heard(k, item, l, set, cand) ==
    LET said == Latest(l, SaidPlaces(k, l, set, item.id))
    IN  /\ ~\E i \in DOMAIN l : l[i].k = "superseded" /\ l[i].set = set
        /\ said.k = k /\ said.cand = cand
        /\ ~GarbledFor(k, l, set, item.id)

\* The judgement of answers and attestations finds just that.
LEMMA JudgementIsHeard ==
  ASSUME NEW l \in Ledgers, NEW k \in Spoken, NEW item, NEW set \in Sets, NEW cand
  PROVE  LET fact == Judgement(item, l, set, cand, k)
             places == SaidPlaces(k, l, set, item.id)
         IN  /\ Heard(k, item, l, set, cand) =>
                   /\ fact = Fact("satisfied", "current", cand)
                   /\ LastStanding(l, k, set, item.id) \in places
                   /\ Latest(l, places) = l[LastStanding(l, k, set, item.id)]
             /\ ~Heard(k, item, l, set, cand) => Unheard(fact)
  <1> DEFINE places == SaidPlaces(k, l, set, item.id)
             last == LastStanding(l, k, set, item.id)
             fact == Judgement(item, l, set, cand, k)
             gone == \E i \in DOMAIN l : l[i].k = "superseded" /\ l[i].set = set
             garbled == GarbledFor(k, l, set, item.id)
  <1>1. l \in Seq(Events)
    BY DEF Ledgers
  <1>2. last = Newest(places)
    BY StandingIsNotRepeated DEF LastStanding
  <1>3. (\E i \in Standing(l, k) : Names(l[i], set, item.id)) <=> places # {}
    BY StandingIsNotRepeated
  <1>4. HasConflict(l, k, set, item.id) <=> garbled
    <2>1. HasConflict(l, k, set, item.id) <=> ConflictFor(k, l, set, item.id)
      BY DEF HasConflict, HasAnswerConflict, HasAttestationConflict, ConflictFor, Answers, Attestations,
             AnswerConflicts, AttestationConflicts, Spoken
    <2> QED BY <2>1, <1>1, ConflictIsGarbled
  <1>5. Superseded(l, set) <=> gone
    BY SupersessionIsAnnounced
  <1>6. fact = IF gone THEN Fact("unknown", "stale", cand)
               ELSE IF garbled THEN Fact("unknown", "uncertain", cand)
               ELSE IF places = {} THEN Fact("unknown", "unavailable", cand)
               ELSE IF l[last].cand # cand
                    THEN Fact("unknown", IF Pinned(l[last].cand) THEN "stale" ELSE "unpinned", l[last].cand)
               ELSE Fact("satisfied", "current", cand)
    BY <1>3, <1>4, <1>5 DEF Judgement
  <1>7. CASE places = {}
    <2>1. Latest(l, places).k = "nothing"
      BY <1>7 DEF Latest
    <2>2. ~Heard(k, item, l, set, cand)
      BY <2>1 DEF Heard, Spoken
    <2>3. Unheard(fact)
      BY <1>6, <1>7 DEF Unheard
    <2> QED BY <2>2, <2>3
  <1>8. CASE places # {}
    <2>1. last \in places
      BY <1>1, <1>2, <1>8, Places DEF SaidPlaces
    <2>2. Latest(l, places) = l[last]
      BY <1>2, <1>8 DEF Latest, Newest
    <2>3. l[last].k = k
      BY <2>1 DEF SaidPlaces
    <2>4. Heard(k, item, l, set, cand) <=> ~gone /\ l[last].cand = cand /\ ~garbled
      BY <2>2, <2>3 DEF Heard
    <2> HIDE DEF gone, garbled, places, last
    <2> QED BY <2>1, <2>2, <2>4, <1>6, <1>8 DEF Unheard, places, last
  <1> QED BY <1>7, <1>8

\* An answer is met when it is heard.
LEMMA AnswerIsHeard ==
  ASSUME NEW l \in Ledgers, NEW item, item.kind = "mandatory-answer", NEW set \in Sets,
         NEW cand \in Readable, Pinned(cand)
  PROVE  LET state == NormalizeFact(AnswerFact(item, l, set, cand), cand).state
         IN  /\ state \in {"unknown", "satisfied"}
             /\ state = "satisfied" <=> Met(item, l, set, cand)
             /\ ~FailedOn(item, l, cand)
  <1>1. ~FailedOn(item, l, cand)
    BY DEF FailedOn
  <1>2. Garbled(item, l, set) <=> GarbledFor("answer", l, set, item.id)
    BY DEF Garbled, GarbledFor, ReplyTo
  <1>3. Met(item, l, set, cand) <=> Heard("answer", item, l, set, cand)
    BY <1>2 DEF Met, SaidPlaces, Heard
  <1>4. CASE Heard("answer", item, l, set, cand)
    <2>1. AnswerFact(item, l, set, cand) = Fact("satisfied", "current", cand)
      BY <1>4, JudgementIsHeard DEF AnswerFact, Spoken
    <2> QED BY <2>1, <1>1, <1>3, <1>4 DEF NormalizeFact, Fact
  <1>5. CASE ~Heard("answer", item, l, set, cand)
    <2>1. Unheard(AnswerFact(item, l, set, cand))
      BY <1>5, JudgementIsHeard DEF AnswerFact, Spoken
    <2>2. NormalizeFact(AnswerFact(item, l, set, cand), cand).state = "unknown"
      BY <2>1, StateKept
    <2> QED BY <2>2, <1>1, <1>3, <1>5
  <1> QED BY <1>4, <1>5

\* An attestation is met when it is heard and rests on evidence of this content.
LEMMA AttestationIsHeard ==
  ASSUME NEW l \in Ledgers, NEW item, item.kind = "human-attestation", NEW set \in Sets,
         NEW cand \in Readable, Pinned(cand)
  PROVE  LET state == NormalizeFact(AttestationFact(item, l, set, cand), cand).state
         IN  /\ state \in {"unknown", "satisfied"}
             /\ state = "satisfied" <=> Met(item, l, set, cand)
             /\ ~FailedOn(item, l, cand)
  <1> DEFINE k == "attestation"
             said == Latest(l, SaidPlaces(k, l, set, item.id))
             last == LastStanding(l, k, set, item.id)
             rested == said.rests # {} /\ \A i \in said.rests :
                          /\ l[i].k = "evidence" /\ l[i].cand.tree = cand.tree /\ l[i].about # "other"
                          /\ l[i].check # "none" \/ l[i].refers
             fact == Judgement(item, l, set, cand, k)
             bare == l[last].rests = {} \/ \E i \in l[last].rests :
                        ~Matches(l[i]) \/ ~Concrete(l[i]) \/ ~SameContent(cand, l[i].cand)
  <1>1. ~FailedOn(item, l, cand)
    BY DEF FailedOn
  <1>2. Garbled(item, l, set) <=> GarbledFor(k, l, set, item.id)
    BY DEF Garbled, GarbledFor, ReplyTo
  <1>3. Met(item, l, set, cand) <=> Heard(k, item, l, set, cand) /\ rested
    BY <1>2 DEF Met, SaidPlaces, Heard
  <1>4. AttestationFact(item, l, set, cand) =
          IF fact.state = "satisfied" /\ bare THEN Fact("unknown", "unavailable", cand) ELSE fact
    BY DEF AttestationFact
  <1>5. CASE Heard(k, item, l, set, cand)
    <2>1. /\ fact = Fact("satisfied", "current", cand)
          /\ last \in SaidPlaces(k, l, set, item.id)
          /\ said = l[last]
      BY <1>5, JudgementIsHeard DEF Spoken
    <2>2. last \in Of(l, k)
      BY <2>1 DEF SaidPlaces, Of
    <2>3. \A i \in l[last].rests : i \in DOMAIN l /\ l[i].k = "evidence"
      BY <2>2 DEF Ledgers, RestsOnEvidence
    <2>4. \A i \in l[last].rests : l[i].about \in {"any", "other"} /\ l[i].cand \in Readable
      BY <2>3, Fields DEF Ledgers
    <2>5. rested <=> ~bare
      BY <2>1, <2>3, <2>4 DEF Matches, Concrete, SameContent, Pinned
    <2> HIDE DEF rested, bare, fact, last, said
    <2>6. CASE bare
      BY <1>1, <1>3, <1>4, <1>5, <2>1, <2>5, <2>6 DEF NormalizeFact, Fact
    <2>7. CASE ~bare
      BY <1>1, <1>3, <1>4, <1>5, <2>1, <2>5, <2>7 DEF NormalizeFact, Fact
    <2> QED BY <2>6, <2>7
  <1>6. CASE ~Heard(k, item, l, set, cand)
    <2>1. Unheard(fact)
      BY <1>6, JudgementIsHeard DEF Spoken
    <2>2. Unheard(AttestationFact(item, l, set, cand))
      BY <2>1, <1>4 DEF Unheard
    <2>3. NormalizeFact(AttestationFact(item, l, set, cand), cand).state = "unknown"
      BY <2>2, StateKept
    <2> QED BY <2>3, <1>1, <1>3, <1>6
  <1> QED BY <1>5, <1>6

\* Nothing is ever known of a visual item.
LEMMA VisualIsUnknown ==
  ASSUME NEW l, NEW item, Visual(item), NEW set, NEW cand
  PROVE  /\ NormalizeFact(Evaluate(item, l, set, cand), cand).state = "unknown"
         /\ ~Met(item, l, set, cand)
         /\ ~FailedOn(item, l, cand)
  <1>1. ~Met(item, l, set, cand) /\ ~FailedOn(item, l, cand)
    BY DEF Met, FailedOn, Visual
  <1>2. Unheard(Evaluate(item, l, set, cand))
    BY DEF Evaluate, Visual, PixelFact, RubricFact, Unheard
  <1>3. NormalizeFact(Evaluate(item, l, set, cand), cand).state = "unknown"
    BY <1>2, StateKept
  <1> QED BY <1>1, <1>3

\* Nothing is known of a candidate that cannot be identified.
LEMMA UnpinnedIsUnknown ==
  ASSUME NEW l, NEW item, item.kind \in Kinds, NEW set, NEW cand, ~Pinned(cand)
  PROVE  NormalizeFact(Evaluate(item, l, set, cand), cand).state = "unknown"
  <1> DEFINE IsFact(fact) == \E s, v, c : fact = Fact(s, v, c)
  <1>1. \A k : IsFact(Judgement(item, l, set, cand, k))
    BY DEF Judgement
  <1>2. IsFact(Evaluate(item, l, set, cand))
    <2>1. item.kind = "verification" => IsFact(CheckFact(item, l, cand))
      BY DEF CheckFact
    <2>2. item.kind = "evidence-present" => IsFact(EvidenceFact(item, l, cand))
      BY DEF EvidenceFact
    <2>3. item.kind = "mandatory-answer" => IsFact(AnswerFact(item, l, set, cand))
      BY <1>1 DEF AnswerFact
    <2>4. item.kind = "human-attestation" => IsFact(AttestationFact(item, l, set, cand))
      <3> HIDE DEF IsFact
      <3>1. IsFact(Judgement(item, l, set, cand, "attestation"))
        BY <1>1
      <3>2. IsFact(Fact("unknown", "unavailable", cand))
        BY DEF IsFact
      <3> QED BY <3>1, <3>2 DEF AttestationFact
    <2>5. item.kind = "pixel-diff" => IsFact(PixelFact(item, l, set, cand))
      BY DEF PixelFact
    <2>6. item.kind = "model-rubric" => IsFact(RubricFact(item, l, set, cand))
      BY DEF RubricFact
    <2> HIDE DEF IsFact
    <2> QED BY <2>1, <2>2, <2>3, <2>4, <2>5, <2>6 DEF Evaluate, Kinds
  <1>3. PICK s, v, c : Evaluate(item, l, set, cand) = Fact(s, v, c)
    BY <1>2
  <1>4. Evaluate(item, l, set, cand) = [state |-> s, validity |-> v, cand |-> c]
    BY <1>3 DEF Fact
  <1> QED BY <1>4 DEF NormalizeFact

\* What the evaluators and the normalisation make of one item is what the
\* reference says of it: it is met, it is known to have failed, or neither is
\* known.
LEMMA FactIsMeaning ==
  ASSUME NEW l \in Ledgers, NEW item, item.kind \in Kinds, NEW set \in Sets,
         NEW cand \in Readable, Pinned(cand)
  PROVE  LET state == NormalizeFact(Evaluate(item, l, set, cand), cand).state
         IN  /\ state \in {"unknown", "satisfied", "failed"}
             /\ state = "satisfied" <=> Met(item, l, set, cand)
             /\ state = "failed" <=> FailedOn(item, l, cand)
  <1>0. l \in Seq(Events)
    BY DEF Ledgers
  <1>1. CASE item.kind = "verification"
    <2>1. Evaluate(item, l, set, cand) = CheckFact(item, l, cand)
      BY <1>1 DEF Evaluate
    <2> QED BY <2>1, <1>0, <1>1, CheckIsRun
  <1>2. CASE item.kind = "evidence-present"
    <2>1. Evaluate(item, l, set, cand) = EvidenceFact(item, l, cand)
      BY <1>2 DEF Evaluate
    <2> QED BY <2>1, <1>0, <1>2, PresentIsEvidence
  <1>3. CASE item.kind = "mandatory-answer"
    <2>1. Evaluate(item, l, set, cand) = AnswerFact(item, l, set, cand)
      BY <1>3 DEF Evaluate
    <2> QED BY <2>1, <1>3, AnswerIsHeard
  <1>4. CASE item.kind = "human-attestation"
    <2>1. Evaluate(item, l, set, cand) = AttestationFact(item, l, set, cand)
      BY <1>4 DEF Evaluate
    <2> QED BY <2>1, <1>4, AttestationIsHeard
  <1>5. CASE Visual(item)
    BY <1>5, VisualIsUnknown
  <1> QED BY <1>1, <1>2, <1>3, <1>4, <1>5 DEF Kinds, Visual

-----------------------------------------------------------------------------
(* The gate.                                                                 *)

\* The facts of a policy's items: the shape the evaluators give them.
FactsOf(policy, facts) ==
    /\ DOMAIN facts = policy.items
    /\ \A i \in policy.items : facts[i].state \in {"unknown", "satisfied", "failed"}
    /\ \A i \in policy.items : facts[i].state = "failed" => i.kind = "verification"

\* What earns a set, said of the facts.
EarnedBy(policy, facts, override) ==
    /\ \A i \in policy.items : facts[i].state # "unknown"
    /\ \A i \in policy.items : facts[i].state = "failed" =>
          \/ i.enforcement = "advisory" /\ ~override
          \/ i.enforcement = "required" /\ i.allowOverride /\ override
    /\ override => \E i \in policy.items : facts[i].state = "failed"

\* What is earned without an override is passed: no refusal is left, and the
\* record can be built.
LEMMA EarnedPasses ==
  ASSUME NEW n \in DOMAIN Policies, NEW facts, FactsOf(Policies[n], facts),
         EarnedBy(Policies[n], facts, FALSE)
  PROVE  PlainVerdict(facts) = "passed"
  <1> DEFINE items == Policies[n].items
  <1>1. /\ DOMAIN facts = items
        /\ \A i \in items : facts[i].state \in {"unknown", "satisfied", "failed"}
    BY DEF FactsOf
  <1>2. /\ \A i \in items : facts[i].state # "unknown"
        /\ \A i \in items : facts[i].state = "failed" => i.enforcement = "advisory"
    BY DEF EarnedBy
  <1> HIDE DEF items
  <1>3. DOMAIN facts \ Known(facts) = {}
    BY <1>1, <1>2 DEF Known
  <1>4. Unmet(facts) = {}
    BY <1>1, <1>2 DEF Unmet
  <1>5. AbsoluteUnmet(facts) = {} /\ RequiredUnmet(facts) = {}
    BY <1>4 DEF AbsoluteUnmet, RequiredUnmet
  <1>6. Buildable(facts, FALSE)
    BY <1>1, <1>2 DEF Buildable
  <1>7. Passed(facts, FALSE) = "passed"
    BY <1>6 DEF Passed
  <1> QED BY <1>3, <1>5, <1>7 DEF PlainVerdict

\* Without an override the refusals and the rules of the record leave exactly
\* what was earned.
LEMMA PlainIsEarned ==
  ASSUME NEW n \in DOMAIN Policies, NEW facts, FactsOf(Policies[n], facts),
         ~\E i \in Policies[n].items : i.enforcement = "absolute" /\ i.kind = "model-rubric",
         PlainVerdict(facts) # "throws"
  PROVE  PlainVerdict(facts) = "passed" <=> EarnedBy(Policies[n], facts, FALSE)
  <1> DEFINE items == Policies[n].items
  <1>1. \A i \in items : /\ i.kind \in Kinds /\ i.enforcement \in Enforcements
                         /\ i.user => i.kind \in {"mandatory-answer", "human-attestation"}
    BY PoliciesAssumption DEF PoliciesAssumption
  <1>2. /\ DOMAIN facts = items
        /\ \A i \in items : facts[i].state \in {"unknown", "satisfied", "failed"}
        /\ \A i \in items : facts[i].state = "failed" => i.kind = "verification"
    BY DEF FactsOf
  <1> HIDE DEF items
  <1>3. ASSUME PlainVerdict(facts) = "passed"
        PROVE  EarnedBy(Policies[n], facts, FALSE)
    <2>1. Passed(facts, FALSE) = "passed"
      BY <1>3 DEF PlainVerdict
    <2>2. Buildable(facts, FALSE)
      BY <2>1 DEF Passed
    <2>3. /\ \A i \in items : facts[i].state # "unknown"
          /\ \A i \in items : i.enforcement = "absolute" => facts[i].state = "satisfied"
          /\ \A i \in items : i.enforcement = "required" => facts[i].state = "satisfied"
      BY <2>2, <1>2 DEF Buildable
    <2> QED BY <2>3, <1>1 DEF EarnedBy, Enforcements, items
  <1> QED BY <1>3, EarnedPasses

\* With an override they leave known failures it may stand in for, and nothing
\* else.
LEMMA OverrideIsEarned ==
  ASSUME NEW n \in DOMAIN Policies, NEW facts, FactsOf(Policies[n], facts),
         ~\E i \in Policies[n].items : i.enforcement = "absolute" /\ i.kind = "model-rubric",
         TransitionVerdict(facts, TRUE) # "throws"
  PROVE  TransitionVerdict(facts, TRUE) = "passed" <=> EarnedBy(Policies[n], facts, TRUE)
  <1> DEFINE items == Policies[n].items
             required == {i \in DOMAIN facts : i.enforcement = "required"}
             current  == Known(facts) = DOMAIN facts
             eligible == /\ RequiredUnmet(facts) # {}
                         /\ \A i \in RequiredUnmet(facts) : facts[i].state = "failed"
                         /\ NotOverridable(facts) = {}
             waived == required # {} /\ AbsoluteUnmet(facts) = {} /\ eligible /\ current
             refused == \/ required = {} \/ AbsoluteUnmet(facts) # {} \/ NotOverridable(facts) # {}
                        \/ (RequiredUnmet(facts) = {} /\ current)
  <1>1. \A i \in items : /\ i.kind \in Kinds /\ i.enforcement \in Enforcements
                         /\ i.allowOverride => i.enforcement = "required"
                         /\ i.user => i.kind \in {"mandatory-answer", "human-attestation"}
    BY PoliciesAssumption DEF PoliciesAssumption
  <1>2. /\ DOMAIN facts = items
        /\ \A i \in items : facts[i].state \in {"unknown", "satisfied", "failed"}
        /\ \A i \in items : facts[i].state = "failed" => i.kind = "verification"
    BY DEF FactsOf
  <1> HIDE DEF items
  <1>3. \A i \in items : facts[i].state = "failed" => ~UserFinal(i)
    BY <1>1, <1>2 DEF UserFinal
  <1>4. OverrideVerdict(facts) = IF waived THEN Passed(facts, TRUE)
                                 ELSE IF refused THEN "blocked" ELSE "none"
    BY DEF OverrideVerdict
  <1>5. TransitionVerdict(facts, TRUE) =
          IF OverrideVerdict(facts) # "none" THEN OverrideVerdict(facts) ELSE PlainVerdict(facts)
    BY <1>2 DEF TransitionVerdict, items
  <1>6. Passed(facts, TRUE) \in {"passed", "throws"} /\ Passed(facts, FALSE) \in {"passed", "throws"}
    BY DEF Passed
  <1>7. EarnedBy(Policies[n], facts, TRUE) => waived /\ Buildable(facts, TRUE)
    <2> SUFFICES ASSUME EarnedBy(Policies[n], facts, TRUE)
                 PROVE  waived /\ Buildable(facts, TRUE)
      OBVIOUS
    <2>1. /\ \A i \in items : facts[i].state # "unknown"
          /\ \A i \in items : facts[i].state = "failed" => i.enforcement = "required" /\ i.allowOverride
          /\ \E i \in items : facts[i].state = "failed"
      BY DEF EarnedBy, items
    <2>2. \A i \in Unmet(facts) : i \in items /\ facts[i].state = "failed"
      BY <2>1, <1>2 DEF Unmet
    <2>3. PICK f \in items : facts[f].state = "failed"
      BY <2>1
    <2>4. f \in required /\ f \in RequiredUnmet(facts)
      BY <2>1, <2>3, <1>2 DEF RequiredUnmet, Unmet
    <2>5. AbsoluteUnmet(facts) = {}
      BY <2>1, <2>2, <1>3 DEF AbsoluteUnmet
    <2>6. \A i \in RequiredUnmet(facts) : facts[i].state = "failed"
      BY <2>2 DEF RequiredUnmet
    <2>7. NotOverridable(facts) = {}
      BY <2>1, <2>2, <1>3 DEF NotOverridable, RequiredUnmet
    <2>8. current
      BY <2>1, <1>2 DEF Known
    <2>9. Buildable(facts, TRUE)
      <3>1. \A i \in items : (i.user \/ ~i.allowOverride) => facts[i].state = "satisfied"
        BY <2>1, <1>1, <1>2
      <3>2. \A i \in items : i.enforcement = "absolute" => facts[i].state = "satisfied"
        BY <2>1, <1>2
      <3> QED BY <2>1, <2>3, <3>1, <3>2, <1>2 DEF Buildable
    <2> QED BY <2>4, <2>5, <2>6, <2>7, <2>8, <2>9
  <1>8. Buildable(facts, TRUE) => EarnedBy(Policies[n], facts, TRUE)
    <2> SUFFICES ASSUME Buildable(facts, TRUE) PROVE EarnedBy(Policies[n], facts, TRUE)
      OBVIOUS
    <2>1. /\ \A i \in items : facts[i].state # "unknown"
          /\ \A i \in items : (i.user \/ ~i.allowOverride) => facts[i].state = "satisfied"
          /\ \E i \in items : i.enforcement = "required" /\ facts[i].state = "failed"
      BY <1>2 DEF Buildable
    <2> QED BY <2>1, <1>1 DEF EarnedBy, items
  <1>9. ~waived /\ ~refused => PlainVerdict(facts) \notin {"passed", "throws"}
    <2> SUFFICES ASSUME ~waived, ~refused, PlainVerdict(facts) \in {"passed", "throws"} PROVE FALSE
      OBVIOUS
    <2>1. /\ RequiredUnmet(facts) = {}
          /\ AbsoluteUnmet(facts) = {}
          /\ ~\E i \in DOMAIN facts \ Known(facts) : i.enforcement = "advisory"
      BY DEF PlainVerdict
    <2>2. Unmet(facts) = {}
      BY <2>1, <1>1, <1>2 DEF RequiredUnmet, AbsoluteUnmet, Unmet, Enforcements
    <2>3. current
      BY <2>1, <2>2, <1>2 DEF Unmet, Known
    <2> QED BY <2>1, <2>3
  <1> HIDE DEF waived, refused
  <1>10. CASE waived
    <2>1. TransitionVerdict(facts, TRUE) = Passed(facts, TRUE)
      BY <1>4, <1>5, <1>6, <1>10
    <2> QED BY <2>1, <1>7, <1>8 DEF Passed
  <1>11. CASE ~waived /\ refused
    <2>1. TransitionVerdict(facts, TRUE) = "blocked"
      BY <1>4, <1>5, <1>11
    <2> QED BY <2>1, <1>7, <1>11
  <1>12. CASE ~waived /\ ~refused
    <2>1. TransitionVerdict(facts, TRUE) = PlainVerdict(facts)
      BY <1>4, <1>5, <1>12
    <2> QED BY <2>1, <1>7, <1>9, <1>12
  <1> QED BY <1>10, <1>11, <1>12

\* A policy's items, their facts and what they mean.
LEMMA FactsAreMeanings ==
  ASSUME NEW n \in DOMAIN Policies, NEW l \in Ledgers, NEW set \in Sets, NEW cand \in Readable
  PROVE  LET items == Policies[n].items
             facts == Facts(Policies[n], l, set, cand)
         IN  /\ FactsOf(Policies[n], facts)
             /\ ~Pinned(cand) => \A i \in items : facts[i].state = "unknown"
             /\ Pinned(cand) => \A i \in items :
                   /\ facts[i].state = "satisfied" <=> Met(i, l, set, cand)
                   /\ facts[i].state = "failed" <=> FailedOn(i, l, cand)
  <1> DEFINE items == Policies[n].items
             facts == Facts(Policies[n], l, set, cand)
  <1>1. \A i \in items : i.kind \in Kinds
    BY PoliciesAssumption DEF PoliciesAssumption
  <1>2. /\ DOMAIN facts = items
        /\ \A i \in items : facts[i] = NormalizeFact(Evaluate(i, l, set, cand), cand)
    BY DEF Facts
  <1> HIDE DEF facts
  <1>3. CASE Pinned(cand)
    <2>1. \A i \in items : /\ facts[i].state \in {"unknown", "satisfied", "failed"}
                           /\ facts[i].state = "satisfied" <=> Met(i, l, set, cand)
                           /\ facts[i].state = "failed" <=> FailedOn(i, l, cand)
      BY <1>1, <1>2, <1>3, FactIsMeaning
    <2>2. \A i \in items : FailedOn(i, l, cand) => i.kind = "verification"
      BY DEF FailedOn
    <2>3. FactsOf(Policies[n], facts)
      BY <1>2, <2>1, <2>2 DEF FactsOf
    <2> QED BY <1>3, <2>1, <2>3 DEF facts
  <1>4. CASE ~Pinned(cand)
    <2>1. \A i \in items : facts[i].state = "unknown"
      BY <1>1, <1>2, <1>4, UnpinnedIsUnknown
    <2>2. FactsOf(Policies[n], facts)
      BY <1>2, <2>1 DEF FactsOf
    <2> QED BY <1>4, <2>1, <2>2 DEF facts
  <1> QED BY <1>3, <1>4

\* Earned, of a set, a candidate and the log that was evaluated.
EarnedIn(set, cand, override, l) ==
    LET policy == Policies[set.policy]
    IN  /\ policy.readable /\ (policy.items # {} => cand.tree # NoTree)
        /\ \A i \in policy.items : i.kind = "verification" => i.id \in policy.verify
        /\ \A i \in policy.items : Met(i, l, set, cand) \/ FailedOn(i, l, cand)
        /\ \A i \in policy.items :
              FailedOn(i, l, cand) => \/ i.enforcement = "advisory" /\ ~override
                                      \/ i.enforcement = "required" /\ i.allowOverride /\ override
        /\ override => policy.allowOverride /\ \E i \in policy.items : FailedOn(i, l, cand)

\* The gate passes exactly what is earned, and records one of five verdicts.
LEMMA VerdictMeans ==
  ASSUME NEW l \in Ledgers, NEW set \in Sets, NEW cand \in Readable, NEW override \in BOOLEAN
  PROVE  LET verdict == IntegrationVerdict(Policies[set.policy], l, set, cand, override)
         IN  verdict # "throws" =>
               /\ verdict \in Verdicts
               /\ verdict = "passed" <=> EarnedIn(set, cand, override, l)
  <1> DEFINE n == set.policy
             policy == Policies[n]
             items == policy.items
             facts == Facts(policy, l, set, cand)
             ov == override /\ policy.allowOverride
             plain == GuardedVerdict(policy, l, set, cand, ov)
             verdict == IntegrationVerdict(policy, l, set, cand, override)
             rubric == \E i \in items : i.enforcement = "absolute" /\ i.kind = "model-rubric"
             undeclared == \E i \in items : i.kind = "verification" /\ i.id \notin policy.verify
  <1>1. n \in DOMAIN Policies
    BY DEF Sets
  <1>2. policy.readable \in BOOLEAN /\ policy.allowOverride \in BOOLEAN
    BY <1>1, PoliciesAssumption DEF PoliciesAssumption
  <1>3. /\ FactsOf(policy, facts)
        /\ ~Pinned(cand) => \A i \in items : facts[i].state = "unknown"
        /\ Pinned(cand) => \A i \in items :
              /\ facts[i].state = "satisfied" <=> Met(i, l, set, cand)
              /\ facts[i].state = "failed" <=> FailedOn(i, l, cand)
    BY <1>1, FactsAreMeanings
  <1>4. DOMAIN facts = items /\ \A i \in items : facts[i].state \in {"unknown", "satisfied", "failed"}
    BY <1>3 DEF FactsOf
  <1>5. plain = TransitionVerdict(facts, ov)
    BY DEF GuardedVerdict
  <1>6. Conflicting(policy) <=> rubric \/ undeclared
    BY DEF Conflicting
  <1>7. verdict = IF plain = "throws" THEN "throws"
                  ELSE IF ~policy.readable \/ Conflicting(policy) \/ (override /\ ~policy.allowOverride)
                  THEN "failed" ELSE plain
    BY DEF IntegrationVerdict
  <1>8. plain \in Verdicts \cup {"throws"}
    BY <1>5 DEF TransitionVerdict, OverrideVerdict, PlainVerdict, Passed, Verdicts
  <1>9. rubric => ~EarnedIn(set, cand, override, l)
    BY DEF EarnedIn, Met, FailedOn
  <1>10. EarnedBy(policy, facts, ov) /\ policy.readable /\ ~undeclared /\ (override => policy.allowOverride)
           <=> EarnedIn(set, cand, override, l)
    <2> HIDE DEF facts, policy, n
    <2>1. EarnedIn(set, cand, override, l) <=>
            /\ policy.readable /\ (items # {} => Pinned(cand))
            /\ ~undeclared
            /\ \A i \in items : Met(i, l, set, cand) \/ FailedOn(i, l, cand)
            /\ \A i \in items :
                  FailedOn(i, l, cand) => \/ i.enforcement = "advisory" /\ ~override
                                          \/ i.enforcement = "required" /\ i.allowOverride /\ override
            /\ override => policy.allowOverride /\ \E i \in items : FailedOn(i, l, cand)
      BY DEF EarnedIn, policy, n, Pinned
    <2>2. CASE Pinned(cand)
      <3>1. EarnedBy(policy, facts, ov) <=>
              /\ \A i \in items : Met(i, l, set, cand) \/ FailedOn(i, l, cand)
              /\ \A i \in items :
                    FailedOn(i, l, cand) => \/ i.enforcement = "advisory" /\ ~ov
                                            \/ i.enforcement = "required" /\ i.allowOverride /\ ov
              /\ ov => \E i \in items : FailedOn(i, l, cand)
        BY <1>3, <1>4, <2>2 DEF EarnedBy
      <3> QED BY <2>1, <2>2, <3>1, <1>2
    <2>3. CASE ~Pinned(cand) /\ items # {}
      <3>1. ~EarnedBy(policy, facts, ov)
        BY <1>3, <2>3 DEF EarnedBy
      <3> QED BY <2>1, <2>3, <3>1
    <2>4. CASE items = {}
      BY <2>1, <2>4, <1>2 DEF EarnedBy
    <2> QED BY <2>2, <2>3, <2>4
  <1>11. ~rubric /\ plain # "throws" => (plain = "passed" <=> EarnedBy(policy, facts, ov))
    <2> SUFFICES ASSUME ~rubric, plain # "throws" PROVE plain = "passed" <=> EarnedBy(policy, facts, ov)
      OBVIOUS
    <2>1. CASE ov
      <3>1. plain = TransitionVerdict(facts, TRUE)
        BY <1>5, <2>1
      <3> HIDE DEF facts, plain
      <3> QED BY <1>1, <1>3, <2>1, <3>1, OverrideIsEarned
    <2>2. CASE ~ov
      <3>1. plain = PlainVerdict(facts)
        BY <1>4, <1>5, <2>2 DEF TransitionVerdict
      <3> HIDE DEF facts, plain
      <3> QED BY <1>1, <1>3, <2>2, <3>1, PlainIsEarned
    <2> QED BY <2>1, <2>2
  <1> HIDE DEF plain, rubric, undeclared, facts
  <1>12. verdict # "throws" => verdict \in Verdicts
    BY <1>7, <1>8 DEF Verdicts
  <1>13. verdict # "throws" => (verdict = "passed" <=> EarnedIn(set, cand, override, l))
    BY <1>2, <1>6, <1>7, <1>9, <1>10, <1>11
  <1> QED BY <1>12, <1>13

-----------------------------------------------------------------------------
(* The log grows, and what was evaluated stays what it was.                  *)

\* Every evaluation says of the log before it what that log had earned.
EvaluationsEarned(l) ==
    \A i \in Of(l, "evaluated") :
        /\ l[i].asof \in Nat /\ l[i].asof < i
        /\ l[i].verdict = "passed" <=>
              EarnedIn(l[i].set, l[i].cand, l[i].override, SubSeq(l, 1, l[i].asof))

\* What one step may append.
Extends(l, m) ==
    /\ m \in Seq(Events) /\ Len(l) <= Len(m)
    /\ \A i \in DOMAIN l : m[i] = l[i]
    /\ \A i \in (Len(l) + 1)..Len(m) :
          /\ m[i].k = "evaluated" =>
                /\ m[i].asof = Len(l)
                /\ m[i].verdict = "passed" <=> EarnedIn(m[i].set, m[i].cand, m[i].override, l)
          /\ m[i].k = "attestation" => \A r \in m[i].rests : r \in DOMAIN l /\ l[r].k = "evidence"
          /\ m[i].k = "set" /\ m[i].supersedes # NoSet =>
                \E j \in DOMAIN m : m[j].k = "superseded" /\ m[j].set = m[i].supersedes

\* Two logs that agree have the same prefixes.
LEMMA SamePrefix ==
  ASSUME NEW l \in Seq(Events), NEW m \in Seq(Events), Len(l) <= Len(m),
         \A i \in DOMAIN l : m[i] = l[i], NEW a \in Nat, a <= Len(l)
  PROVE  SubSeq(m, 1, a) = SubSeq(l, 1, a)
  <1>1. DOMAIN l = 1..Len(l) /\ Len(l) \in Nat /\ DOMAIN m = 1..Len(m) /\ Len(m) \in Nat
    BY LenProperties
  <1>2. \A i \in 1..a : i \in 1..Len(l) /\ i \in 1..Len(m)
    BY <1>1
  <1>3. /\ SubSeq(l, 1, a) = [i \in 1..a |-> l[i]]
        /\ SubSeq(m, 1, a) = [i \in 1..a |-> m[i]]
    BY <1>1, <1>2
  <1> QED BY <1>1, <1>2, <1>3

\* The longest prefix is the log.
LEMMA WholePrefix ==
  ASSUME NEW l \in Seq(Events)
  PROVE  SubSeq(l, 1, Len(l)) = l
  BY LenProperties

\* Growth keeps the ledger a ledger and its evaluations earned.
LEMMA LedgerGrows ==
  ASSUME NEW l \in Ledgers, EvaluationsEarned(l), NEW m, Extends(l, m)
  PROVE  m \in Ledgers /\ EvaluationsEarned(m)
  <1>1. l \in Seq(Events) /\ m \in Seq(Events) /\ Len(l) <= Len(m)
    BY DEF Ledgers, Extends
  <1>2. DOMAIN l = 1..Len(l) /\ Len(l) \in Nat /\ DOMAIN m = 1..Len(m) /\ Len(m) \in Nat
    BY <1>1, LenProperties
  <1>3. \A i \in DOMAIN l : i \in DOMAIN m /\ m[i] = l[i]
    BY <1>1, <1>2 DEF Extends
  <1>8. \A a \in Nat : a <= Len(l) => SubSeq(m, 1, a) = SubSeq(l, 1, a)
    <2>1. \A i \in DOMAIN l : m[i] = l[i]
      BY <1>3
    <2> QED BY <1>1, <2>1, SamePrefix
  <1>4. \A i \in DOMAIN m : i \in DOMAIN l \/ i \in (Len(l) + 1)..Len(m)
    BY <1>2
  <1>5. RestsOnEvidence(m)
    <2> SUFFICES ASSUME NEW i \in DOMAIN m, m[i].k = "attestation", NEW r \in m[i].rests
                 PROVE  r \in DOMAIN m /\ m[r].k = "evidence"
      BY DEF RestsOnEvidence, Of
    <2>1. r \in DOMAIN l /\ l[r].k = "evidence"
      BY <1>3, <1>4 DEF Extends, Ledgers, RestsOnEvidence, Of
    <2> QED BY <2>1, <1>3
  <1>6. Announced(m)
    <2> SUFFICES ASSUME NEW i \in DOMAIN m, m[i].k = "set", m[i].supersedes # NoSet
                 PROVE  \E j \in DOMAIN m : m[j].k = "superseded" /\ m[j].set = m[i].supersedes
      BY DEF Announced, Of
    <2>1. CASE i \in DOMAIN l
      <3>1. PICK j \in DOMAIN l : l[j].k = "superseded" /\ l[j].set = l[i].supersedes
        BY <1>3, <2>1 DEF Ledgers, Announced, Of
      <3> QED BY <3>1, <1>3, <2>1
    <2>2. CASE i \in (Len(l) + 1)..Len(m)
      BY <2>2 DEF Extends
    <2> QED BY <2>1, <2>2, <1>4
  <1>7. EvaluationsEarned(m)
    <2> SUFFICES ASSUME NEW i \in DOMAIN m, m[i].k = "evaluated"
                 PROVE  /\ m[i].asof \in Nat /\ m[i].asof < i
                        /\ m[i].verdict = "passed" <=>
                             EarnedIn(m[i].set, m[i].cand, m[i].override, SubSeq(m, 1, m[i].asof))
      BY DEF EvaluationsEarned, Of
    <2>1. CASE i \in DOMAIN l
      <3>1. /\ l[i].asof \in Nat /\ l[i].asof < i
            /\ l[i].verdict = "passed" <=>
                 EarnedIn(l[i].set, l[i].cand, l[i].override, SubSeq(l, 1, l[i].asof))
        BY <1>3, <2>1 DEF EvaluationsEarned, Of
      <3>2. SubSeq(m, 1, l[i].asof) = SubSeq(l, 1, l[i].asof)
        <4>1. i \in 1..Len(l) /\ l[i].asof <= Len(l)
          BY <1>2, <2>1, <3>1
        <4> QED BY <4>1, <3>1, <1>8
      <3> QED BY <3>1, <3>2, <1>3, <2>1
    <2>2. CASE i \in (Len(l) + 1)..Len(m)
      <3>1. /\ m[i].asof = Len(l)
            /\ m[i].verdict = "passed" <=> EarnedIn(m[i].set, m[i].cand, m[i].override, l)
        BY <2>2 DEF Extends
      <3>2. SubSeq(m, 1, Len(l)) = l
        <4>1. SubSeq(m, 1, Len(l)) = SubSeq(l, 1, Len(l))
          BY <1>2, <1>8
        <4>2. SubSeq(l, 1, Len(l)) = l
          BY <1>1, WholePrefix
        <4> QED BY <4>1, <4>2
      <3>3. m[i].asof \in Nat /\ m[i].asof < i
        BY <3>1, <1>2, <2>2
      <3>4. SubSeq(m, 1, m[i].asof) = l
        BY <3>1, <3>2
      <3> QED BY <3>1, <3>3, <3>4
    <2> QED BY <2>1, <2>2, <1>4
  <1> QED BY <1>1, <1>5, <1>6, <1>7 DEF Ledgers

-----------------------------------------------------------------------------
(* The invariant.                                                            *)

CallStates ==
    [pc : {"idle"}]
    \cup [pc : {"preparing"}, head : Nat, policy : DOMAIN Policies, override : BOOLEAN]
    \cup [pc : {"passed"}, set : Sets, cand : Readable]
    \cup [pc : {"patched"}, set : Sets, cand : Readable, from : Trees \cup {Baseline}, to : Trees]
Landings == [from : Trees \cup {Baseline}, to : Trees, set : Sets]

\* The types of the state.
TypeOK ==
    /\ log \in Seq(Events)
    /\ declared \in DOMAIN Policies
    /\ lane \in Candidates
    /\ base \in Trees \cup {Baseline}
    /\ landed \in Seq(Landings)
    /\ call \in [Calls -> CallStates]
    /\ other \in Nat
    /\ moves \in Nat

\* The log holds a passed evaluation of a candidate under a set.
JudgedIn(l, set, cand) ==
    \E i \in DOMAIN l : /\ l[i].k = "evaluated" /\ l[i].verdict = "passed"
                        /\ l[i].set = set /\ l[i].cand = cand

\* What a call is about to apply was judged, and is the tree that was.
CallsJudged ==
    \A c \in Calls :
        /\ call[c].pc \in {"passed", "patched"} => JudgedIn(log, call[c].set, call[c].cand)
        /\ call[c].pc = "patched" => call[c].to = call[c].cand.tree

\* All of it: what one step relies on and the next inherits.
IInv == TypeOK /\ log \in Ledgers /\ EvaluationsEarned(log) /\ CallsJudged /\ LandedWasJudged

\* What is read of the lane is a candidate, or one git could not identify.
LEMMA CandidateIsReadable ==
  /\ Candidates \subseteq Readable
  /\ lane \in Candidates => Readings \subseteq Readable
  <1>1. Candidates \subseteq Readable
    BY DEF Candidates, Readable
  <1>2. lane \in Candidates => Readings \subseteq Readable
    <2> SUFFICES ASSUME lane \in Candidates PROVE Readings \subseteq Readable
      OBVIOUS
    <2>1. [lane EXCEPT !.tree = NoTree] = [tree |-> NoTree, commit |-> lane.commit]
      BY DEF Candidates
    <2>2. [tree |-> NoTree, commit |-> lane.commit] \in Readable
      BY DEF Candidates, Readable
    <2> QED BY <1>1, <2>1, <2>2 DEF Readings
  <1> QED BY <1>1, <1>2

\* Appending one saying or one piece of evidence is growth.
LEMMA RecordGrows ==
  ASSUME NEW l \in Seq(Events), NEW e \in Events, e.k \in {"evidence", "answer", "attestation"},
         e.k = "attestation" => \A r \in e.rests : r \in DOMAIN l /\ l[r].k = "evidence"
  PROVE  Extends(l, Append(l, e))
  <1>1. DOMAIN l = 1..Len(l) /\ Len(l) \in Nat
    BY LenProperties
  <1>2. /\ Append(l, e) \in Seq(Events) /\ Len(Append(l, e)) = Len(l) + 1
        /\ \A i \in 1..Len(l) : Append(l, e)[i] = l[i]
        /\ Append(l, e)[Len(l) + 1] = e
    BY AppendProperties
  <1>3. (Len(l) + 1)..Len(Append(l, e)) = {Len(l) + 1}
    BY <1>1, <1>2
  <1> QED BY <1>1, <1>2, <1>3 DEF Extends

\* What may be recorded, of the four operations that record.
LEMMA RecordingGrows ==
  ASSUME TypeOK, RunCheck \/ RecordEvidence \/ RecordAnswer \/ RecordAttestation
  PROVE  Extends(log, log') /\ UNCHANGED <<declared, lane, base, landed, call, moves>> /\ other' \in Nat
  <1>0. /\ log \in Seq(Events) /\ declared \in DOMAIN Policies /\ lane \in Candidates /\ other \in Nat
        /\ Readings \subseteq Readable /\ lane \in Readable
    BY CandidateIsReadable DEF TypeOK
  <1>1. CASE RunCheck
    <2>1. PICK n \in Policies[declared].verify, ok \in BOOLEAN, cand \in Readings :
             log' = Append(log, [k |-> "evidence", check |-> n, passed |-> ok, refers |-> FALSE,
                                 about |-> "any", cand |-> cand])
      BY <1>1 DEF RunCheck, Record
    <2>2. n \in Checks
      BY <1>0 DEF Checks
    <2> DEFINE e == [k |-> "evidence", check |-> n, passed |-> ok, refers |-> FALSE,
                     about |-> "any", cand |-> cand]
    <2>3. e \in Events /\ e.k = "evidence"
      BY <1>0, <2>2 DEF Events
    <2>4. Extends(log, Append(log, e))
      <3> HIDE DEF e
      <3> QED BY <1>0, <2>3, RecordGrows
    <2> QED BY <1>0, <1>1, <2>1, <2>4 DEF RunCheck
  <1>2. CASE RecordEvidence
    <2>1. PICK x \in {<<FALSE, "any">>, <<TRUE, "any">>, <<TRUE, "other">>} :
             log' = Append(log, [k |-> "evidence", check |-> "none", passed |-> FALSE, refers |-> x[1],
                                 about |-> x[2], cand |-> lane])
      BY <1>2 DEF RecordEvidence, Record
    <2>2. "none" \in Checks
      BY DEF Checks
    <2> DEFINE e == [k |-> "evidence", check |-> "none", passed |-> FALSE, refers |-> x[1],
                     about |-> x[2], cand |-> lane]
    <2>5. x[1] \in BOOLEAN /\ x[2] \in {"any", "other"}
      <3>1. x = <<FALSE, "any">> \/ x = <<TRUE, "any">> \/ x = <<TRUE, "other">>
        OBVIOUS
      <3>2. CASE x = <<FALSE, "any">>
        BY <3>2
      <3>3. CASE x = <<TRUE, "any">>
        BY <3>3
      <3>4. CASE x = <<TRUE, "other">>
        BY <3>4
      <3> QED BY <3>1, <3>2, <3>3, <3>4
    <2>3. e \in Events /\ e.k = "evidence"
      <3> HIDE <2>1
      <3> QED BY <1>0, <2>2, <2>5 DEF Events
    <2>4. Extends(log, Append(log, e))
      <3> HIDE DEF e
      <3> QED BY <1>0, <2>3, RecordGrows
    <2> QED BY <1>0, <1>2, <2>1, <2>4 DEF RecordEvidence
  <1>3. ASSUME NEW kind, NEW a \in Asked(kind)
        PROVE  a.set \in Sets /\ a.cand \in Readable /\ a.item \in ItemNames
    <2>1. PICK i \in Of(log, "evaluated") :
             \E m \in Policies[log[i].set.policy].items :
                a = [set |-> log[i].set, cand |-> log[i].cand, item |-> m.id]
      BY DEF Asked
    <2>2. log[i] \in Events /\ log[i].k = "evaluated"
      BY <1>0, ElementOfSeq, LenProperties DEF Of
    <2>3. log[i].set \in Sets /\ log[i].cand \in Readable
      BY <2>2 DEF Events
    <2>4. log[i].set.policy \in DOMAIN Policies
      BY <2>3 DEF Sets
    <2> QED BY <2>1, <2>3, <2>4 DEF ItemNames
  <1>4. \A s \in Sayings : s.id \in Ids /\ s.says \in Said
    BY DEF Sayings, Ids, Said
  <1>5. \A k, id : Speaks(k, id) => other' \in Nat
    BY <1>0, LenProperties DEF Speaks
  <1>6. CASE RecordAnswer
    <2>1. PICK a \in Asked("mandatory-answer"), s \in Sayings :
             /\ Speaks("answer", s.id)
             /\ log' = Append(log, [k |-> "answer", id |-> s.id, set |-> a.set, item |-> a.item,
                                    cand |-> a.cand, says |-> s.says])
      BY <1>6 DEF RecordAnswer, Record
    <2> DEFINE e == [k |-> "answer", id |-> s.id, set |-> a.set, item |-> a.item,
                     cand |-> a.cand, says |-> s.says]
    <2>2. a.set \in Sets /\ a.cand \in Readable /\ a.item \in ItemNames
      BY <1>3
    <2>3. e \in Events /\ e.k = "answer"
      BY <1>4, <2>2 DEF Events
    <2>4. Extends(log, Append(log, e))
      <3> HIDE DEF e
      <3> QED BY <1>0, <2>3, RecordGrows
    <2> QED BY <1>5, <1>6, <2>1, <2>4 DEF RecordAnswer
  <1>7. CASE RecordAttestation
    <2>1. PICK a \in Asked("human-attestation"), s \in Sayings :
             \E rests \in {{}, {i \in DOMAIN log : log[i].k = "evidence" /\ log[i].cand = a.cand}} :
                /\ Speaks("attestation", s.id)
                /\ log' = Append(log, [k |-> "attestation", id |-> s.id, set |-> a.set, item |-> a.item,
                                       cand |-> a.cand, says |-> s.says, rests |-> rests])
      BY <1>7 DEF RecordAttestation, Record
    <2>2. PICK rests \in {{}, {i \in DOMAIN log : log[i].k = "evidence" /\ log[i].cand = a.cand}} :
                /\ Speaks("attestation", s.id)
                /\ log' = Append(log, [k |-> "attestation", id |-> s.id, set |-> a.set, item |-> a.item,
                                       cand |-> a.cand, says |-> s.says, rests |-> rests])
      BY <2>1
    <2> DEFINE e == [k |-> "attestation", id |-> s.id, set |-> a.set, item |-> a.item,
                     cand |-> a.cand, says |-> s.says, rests |-> rests]
    <2>3. a.set \in Sets /\ a.cand \in Readable /\ a.item \in ItemNames
      BY <1>3
    <2>4. \A r \in rests : r \in DOMAIN log /\ log[r].k = "evidence"
      BY <2>2
    <2>5. DOMAIN log \subseteq Nat
      BY <1>0, LenProperties
    <2>6. rests \in SUBSET Nat
      BY <2>4, <2>5
    <2>7. s.id \in Ids /\ s.says \in Said
      BY <1>4
    <2>8. e \in Events /\ e.k = "attestation" /\ e.rests = rests
      BY <2>3, <2>6, <2>7 DEF Events
    <2>9. Extends(log, Append(log, e))
      <3> HIDE DEF e
      <3> QED BY <1>0, <2>4, <2>8, RecordGrows
    <2> QED BY <1>5, <1>7, <2>2, <2>9 DEF RecordAttestation
  <1> QED BY <1>1, <1>2, <1>6, <1>7

\* The set created last is a set.
LEMMA PriorSetIsSet ==
  ASSUME log \in Seq(Events)
  PROVE  PriorSet(log) \in Sets \cup {NoSet}
  <1> DEFINE made == Of(log, "set")
  <1>1. CASE made = {}
    BY <1>1 DEF PriorSet
  <1>2. CASE made # {}
    <2>1. made \in SUBSET (DOMAIN log)
      BY DEF Of
    <2>2. Newest(made) \in made
      BY <1>2, <2>1, Places
    <2>3. log[Newest(made)] \in Events /\ log[Newest(made)].k = "set"
      BY <2>2, ElementOfSeq, LenProperties DEF Of
    <2>4. log[Newest(made)].set \in Sets
      BY <2>3 DEF Events
    <2> QED BY <1>2, <2>4 DEF PriorSet
  <1> QED BY <1>1, <1>2

\* Attempts can be counted.
LEMMA AttemptsAreCounted ==
  ASSUME log \in Seq(Events), NEW set
  PROVE  Cardinality(Attempts(log, set)) \in Nat
  <1>1. DOMAIN log = 1..Len(log) /\ Len(log) \in Nat
    BY LenProperties
  <1>2. IsFiniteSet(1..Len(log))
    BY <1>1, FS_Interval
  <1>3. Attempts(log, set) \subseteq 1..Len(log)
    BY <1>1 DEF Attempts, Of
  <1> QED BY <1>2, <1>3, FS_Subset, FS_CardinalityType

\* What one evaluation appends is growth, and a passed one is there to be found.
LEMMA EntriesGrow ==
  ASSUME log \in Seq(Events), NEW set \in Sets, NEW cand \in Readable, NEW override \in BOOLEAN,
         NEW verdict \in Verdicts, verdict = "passed" <=> EarnedIn(set, cand, override, log)
  PROVE  LET m == log \o Entries(set, cand, override, verdict)
         IN  /\ Extends(log, m)
             /\ verdict = "passed" => JudgedIn(m, set, cand)
  <1> DEFINE prior == PriorSet(log)
             new == [k |-> "set", set |-> set, supersedes |-> prior]
             old == [k |-> "superseded", set |-> prior, by |-> set]
             tried == Cardinality(Attempts(log, set)) + 1
             done == [k |-> "evaluated", set |-> set, cand |-> cand, override |-> override,
                      verdict |-> verdict, attempt |-> tried, asof |-> Len(log)]
  <1>1. DOMAIN log = 1..Len(log) /\ Len(log) \in Nat
    BY LenProperties
  <1>2. new \in Events
    BY PriorSetIsSet DEF Events
  <1>3. prior # NoSet => old \in Events
    BY PriorSetIsSet DEF Events
  <1>4. done \in Events
    <2>1. tried \in Nat
      BY AttemptsAreCounted
    <2> HIDE DEF tried
    <2> QED BY <1>1, <2>1 DEF Events
  <1>5. /\ new.k = "set" /\ new.supersedes = prior
        /\ old.k = "superseded" /\ old.set = prior
        /\ done.k = "evaluated" /\ done.verdict = verdict /\ done.set = set /\ done.cand = cand
        /\ done.override = override /\ done.asof = Len(log)
    OBVIOUS
  <1>6. Entries(set, cand, override, verdict) =
          IF ~(set \notin Created(log)) THEN <<done>>
          ELSE IF prior = NoSet THEN <<new, done>> ELSE <<new, old, done>>
    BY DEF Entries
  <1> HIDE DEF new, old, done, prior
  <1>7. CASE Entries(set, cand, override, verdict) = <<done>>
    <2> DEFINE m == log \o <<done>>
    <2>1. m \in Seq(Events) /\ Len(m) = Len(log) + 1 /\ m[Len(log) + 1] = done
          /\ \A i \in 1..Len(log) : m[i] = log[i]
      BY <1>1, <1>4
    <2> HIDE DEF m
    <2>2. (Len(log) + 1)..Len(m) = {Len(log) + 1} /\ Len(log) + 1 \in DOMAIN m
      BY <1>1, <2>1, LenProperties
    <2>3. Extends(log, m)
      BY <1>1, <1>5, <2>1, <2>2 DEF Extends
    <2>4. verdict = "passed" => JudgedIn(m, set, cand)
      BY <1>5, <2>1, <2>2 DEF JudgedIn
    <2> QED BY <1>7, <2>3, <2>4 DEF m
  <1>8. CASE Entries(set, cand, override, verdict) = <<new, done>> /\ prior = NoSet
    <2> DEFINE m == log \o <<new, done>>
    <2>1. m \in Seq(Events) /\ Len(m) = Len(log) + 2 /\ m[Len(log) + 1] = new /\ m[Len(log) + 2] = done
          /\ \A i \in 1..Len(log) : m[i] = log[i]
      BY <1>1, <1>2, <1>4
    <2> HIDE DEF m
    <2>2. (Len(log) + 1)..Len(m) = {Len(log) + 1, Len(log) + 2} /\ Len(log) + 2 \in DOMAIN m
      BY <1>1, <2>1, LenProperties
    <2>3. Extends(log, m)
      BY <1>1, <1>5, <1>8, <2>1, <2>2 DEF Extends
    <2>4. verdict = "passed" => JudgedIn(m, set, cand)
      BY <1>5, <2>1, <2>2 DEF JudgedIn
    <2> QED BY <1>8, <2>3, <2>4 DEF m
  <1>9. CASE Entries(set, cand, override, verdict) = <<new, old, done>> /\ prior # NoSet
    <2> DEFINE m == log \o <<new, old, done>>
    <2>1. m \in Seq(Events) /\ Len(m) = Len(log) + 3 /\ m[Len(log) + 1] = new /\ m[Len(log) + 2] = old
          /\ m[Len(log) + 3] = done /\ \A i \in 1..Len(log) : m[i] = log[i]
      BY <1>1, <1>2, <1>3, <1>4, <1>9
    <2> HIDE DEF m
    <2>2. /\ (Len(log) + 1)..Len(m) = {Len(log) + 1, Len(log) + 2, Len(log) + 3}
          /\ Len(log) + 2 \in DOMAIN m /\ Len(log) + 3 \in DOMAIN m
      BY <1>1, <2>1, LenProperties
    <2>3. Extends(log, m)
      <3>1. m[Len(log) + 2].k = "superseded" /\ m[Len(log) + 2].set = m[Len(log) + 1].supersedes
        BY <1>5, <2>1
      <3> QED BY <1>1, <1>5, <2>1, <2>2, <3>1 DEF Extends
    <2>4. verdict = "passed" => JudgedIn(m, set, cand)
      BY <1>5, <2>1, <2>2 DEF JudgedIn
    <2> QED BY <1>9, <2>3, <2>4 DEF m
  <1> QED BY <1>6, <1>7, <1>8, <1>9

\* What was judged stays judged.
LEMMA JudgedStays ==
  ASSUME NEW l \in Seq(Events), NEW m, Extends(l, m), NEW set, NEW cand, JudgedIn(l, set, cand)
  PROVE  JudgedIn(m, set, cand)
  <1>1. DOMAIN l \subseteq DOMAIN m
    BY LenProperties DEF Extends
  <1> QED BY <1>1 DEF JudgedIn, Extends

\* What landed, said with JudgedIn.
LEMMA LandedIsJudged ==
  LandedWasJudged <=>
    \A n \in DOMAIN landed : \E cand : JudgedIn(log, landed[n].set, cand) /\ cand.tree = landed[n].to
  BY DEF LandedWasJudged, JudgedIn

\* A step that appends nothing is growth too.
LEMMA NothingIsExtension ==
  ASSUME NEW l \in Seq(Events)
  PROVE  Extends(l, l)
  <1>1. Len(l) \in Nat /\ (Len(l) + 1)..Len(l) = {}
    BY LenProperties
  <1> QED BY <1>1 DEF Extends

\* What growth keeps.
LEMMA GrowthKeeps ==
  ASSUME IInv, Extends(log, log')
  PROVE  /\ log' \in Seq(Events) /\ log' \in Ledgers /\ EvaluationsEarned(log')
         /\ \A set, cand : JudgedIn(log, set, cand) => JudgedIn(log', set, cand)
  <1>1. log \in Seq(Events) /\ log \in Ledgers /\ EvaluationsEarned(log)
    BY DEF IInv, TypeOK
  <1>2. log' \in Ledgers /\ EvaluationsEarned(log')
    BY <1>1, LedgerGrows
  <1> QED BY <1>1, <1>2, JudgedStays DEF Extends

\* A step that only lets the log grow leaves calls and landings judged.
LEMMA GrowthIsSafe ==
  ASSUME IInv, Extends(log, log'), UNCHANGED <<landed, call>>,
         declared' \in DOMAIN Policies, lane' \in Candidates, base' = base,
         other' \in Nat, moves' \in Nat
  PROVE  IInv'
  <1>1. /\ log' \in Seq(Events) /\ log' \in Ledgers /\ EvaluationsEarned(log')
        /\ \A set, cand : JudgedIn(log, set, cand) => JudgedIn(log', set, cand)
    BY GrowthKeeps
  <1>2. TypeOK'
    BY <1>1 DEF IInv, TypeOK
  <1>3. CallsJudged'
    BY <1>1 DEF IInv, CallsJudged
  <1>4. \A n \in DOMAIN landed : \E cand : JudgedIn(log, landed[n].set, cand) /\ cand.tree = landed[n].to
    BY LandedIsJudged DEF IInv
  <1>5. \A n \in DOMAIN landed' : \E cand : JudgedIn(log', landed'[n].set, cand) /\ cand.tree = landed'[n].to
    BY <1>1, <1>4
  <1>6. LandedWasJudged'
    BY <1>5 DEF LandedWasJudged, JudgedIn
  <1> QED BY <1>1, <1>2, <1>3, <1>6 DEF IInv

\* A call moves on: only its own state changes.
LEMMA CallMoves ==
  ASSUME IInv, Extends(log, log'), UNCHANGED <<declared, lane, base, landed, moves, other>>,
         NEW c \in Calls, NEW state \in CallStates, call' = [call EXCEPT ![c] = state],
         state.pc \in {"passed", "patched"} => JudgedIn(log', state.set, state.cand),
         state.pc = "patched" => state.to = state.cand.tree
  PROVE  IInv'
  <1>1. /\ log' \in Seq(Events) /\ log' \in Ledgers /\ EvaluationsEarned(log')
        /\ \A set, cand : JudgedIn(log, set, cand) => JudgedIn(log', set, cand)
    BY GrowthKeeps
  <1>2. TypeOK'
    BY <1>1 DEF IInv, TypeOK
  <1>3. CallsJudged'
    <2> SUFFICES ASSUME NEW d \in Calls
                 PROVE  /\ call'[d].pc \in {"passed", "patched"} => JudgedIn(log', call'[d].set, call'[d].cand)
                        /\ call'[d].pc = "patched" => call'[d].to = call'[d].cand.tree
      BY DEF CallsJudged
    <2>1. call \in [Calls -> CallStates]
      BY DEF IInv, TypeOK
    <2>2. CASE d = c
      <3>1. call'[d] = state
        BY <2>1, <2>2
      <3> QED BY <3>1
    <2>3. CASE d # c
      <3>1. call'[d] = call[d]
        BY <2>1, <2>3
      <3> QED BY <3>1, <1>1 DEF IInv, CallsJudged
    <2> QED BY <2>2, <2>3
  <1>4. \A n \in DOMAIN landed : \E cand : JudgedIn(log, landed[n].set, cand) /\ cand.tree = landed[n].to
    BY LandedIsJudged DEF IInv
  <1>5. \A n \in DOMAIN landed' : \E cand : JudgedIn(log', landed'[n].set, cand) /\ cand.tree = landed'[n].to
    BY <1>1, <1>4
  <1>6. LandedWasJudged'
    BY <1>5 DEF LandedWasJudged, JudgedIn
  <1> QED BY <1>1, <1>2, <1>3, <1>6 DEF IInv

\* The steps of a call, one by one.
LEMMA BeginKeeps ==
  ASSUME IInv, NEW c \in Calls, Begin(c)
  PROVE  IInv'
  <1>1. PICK override \in BOOLEAN :
           call' = [call EXCEPT ![c] = [pc |-> "preparing", head |-> Len(log),
                                        policy |-> declared, override |-> override]]
    BY DEF Begin
  <1> DEFINE state == [pc |-> "preparing", head |-> Len(log), policy |-> declared, override |-> override]
  <1>2. log \in Seq(Events) /\ declared \in DOMAIN Policies /\ Len(log) \in Nat
    BY LenProperties DEF IInv, TypeOK
  <1>3. state \in CallStates /\ state.pc = "preparing"
    BY <1>2 DEF CallStates
  <1>4. Extends(log, log') /\ UNCHANGED <<declared, lane, base, landed, moves, other>>
    BY <1>2, NothingIsExtension DEF Begin
  <1> HIDE DEF state
  <1>5. call' = [call EXCEPT ![c] = state]
    BY <1>1 DEF state
  <1> QED BY <1>3, <1>4, <1>5, CallMoves

LEMMA DecideKeeps ==
  ASSUME IInv, NEW c \in Calls, Decide(c)
  PROVE  IInv'
  <1>1. /\ log \in Seq(Events) /\ log \in Ledgers /\ lane \in Candidates
        /\ Readings \subseteq Readable /\ call[c] \in CallStates
    BY CandidateIsReadable DEF IInv, TypeOK
  <1>2. call[c].pc = "preparing" /\ UNCHANGED <<declared, lane, base, landed, moves, other>>
    BY DEF Decide
  <1>3. call[c].policy \in DOMAIN Policies /\ call[c].override \in BOOLEAN
    BY <1>1, <1>2 DEF CallStates
  <1>4. Idle \in CallStates /\ Idle.pc = "idle"
    BY DEF Idle, CallStates
  <1>5. CASE Conflict(c)
    <2>1. Extends(log, log') /\ call' = [call EXCEPT ![c] = Idle]
      BY <1>1, <1>5, NothingIsExtension DEF Conflict
    <2> QED BY <1>2, <1>4, <2>1, CallMoves
  <1>6. CASE ~Conflict(c)
    <2>1. PICK p \in Prepared(c) :
             LET verdict == Evaluated(c, p)
             IN  /\ verdict # "throws"
                 /\ log' = log \o Entries(p.set, p.cand, call[c].override, verdict)
                 /\ call' = [call EXCEPT ![c] =
                               IF verdict = "passed"
                               THEN [pc |-> "passed", set |-> p.set, cand |-> p.cand] ELSE Idle]
      BY <1>6 DEF Decide
    <2> DEFINE verdict == Evaluated(c, p)
               state == IF verdict = "passed"
                        THEN [pc |-> "passed", set |-> p.set, cand |-> p.cand] ELSE Idle
    <2>2. PICK cand \in Readings : p = [set |-> SetOf(call[c].policy, cand), cand |-> cand]
      BY DEF Prepared
    <2>3. p.cand \in Readable /\ p.set \in Sets /\ p.set.policy = call[c].policy
      BY <1>1, <1>3, <2>2 DEF SetOf, Source, Sets
    <2>4. verdict = IntegrationVerdict(Policies[p.set.policy], log, p.set, p.cand, call[c].override)
      BY <2>3 DEF Evaluated
    <2>5. verdict # "throws"
      BY <2>1
    <2> HIDE DEF verdict
    <2>6. /\ verdict \in Verdicts
          /\ verdict = "passed" <=> EarnedIn(p.set, p.cand, call[c].override, log)
      BY <1>1, <1>3, <2>3, <2>4, <2>5, VerdictMeans
    <2>7. /\ Extends(log, log')
          /\ verdict = "passed" => JudgedIn(log', p.set, p.cand)
      BY <1>1, <1>3, <2>1, <2>3, <2>6, EntriesGrow DEF verdict
    <2>8. state \in CallStates /\ state.pc \in {"passed", "idle"}
      BY <1>4, <2>3 DEF CallStates
    <2>9. state.pc = "passed" => JudgedIn(log', state.set, state.cand)
      BY <1>4, <2>7
    <2>10. call' = [call EXCEPT ![c] = state]
      BY <2>1 DEF verdict
    <2> HIDE DEF state
    <2> QED BY <1>2, <2>7, <2>8, <2>9, <2>10, CallMoves
  <1> QED BY <1>5, <1>6

LEMMA DiffKeeps ==
  ASSUME IInv, NEW c \in Calls, Diff(c)
  PROVE  IInv'
  <1> DEFINE still == lane = call[c].cand /\ Pinned(lane) /\ base # lane.tree
             patched == [pc |-> "patched", set |-> call[c].set, cand |-> call[c].cand,
                         from |-> base, to |-> lane.tree]
             state == IF still THEN patched ELSE Idle
  <1>1. /\ log \in Seq(Events) /\ lane \in Candidates /\ base \in Trees \cup {Baseline}
        /\ call[c] \in CallStates
    BY DEF IInv, TypeOK
  <1>2. call[c].pc = "passed" /\ call' = [call EXCEPT ![c] = state]
    BY DEF Diff
  <1>3. call[c].set \in Sets /\ call[c].cand \in Readable /\ lane.tree \in Trees
    BY <1>1, <1>2 DEF CallStates, Candidates
  <1>4. JudgedIn(log, call[c].set, call[c].cand)
    BY <1>2 DEF IInv, CallsJudged
  <1>5. Idle \in CallStates /\ Idle.pc = "idle"
    BY DEF Idle, CallStates
  <1>6. patched \in CallStates
    BY <1>1, <1>3 DEF CallStates
  <1>7. Extends(log, log') /\ UNCHANGED <<declared, lane, base, landed, moves, other>> /\ log' = log
    BY <1>1, NothingIsExtension DEF Diff
  <1>8. state \in CallStates
    BY <1>5, <1>6
  <1>9. state.pc \in {"passed", "patched"} => JudgedIn(log', state.set, state.cand)
    BY <1>4, <1>5, <1>7
  <1>10. state.pc = "patched" => state.to = state.cand.tree
    BY <1>5
  <1> HIDE DEF state
  <1> QED BY <1>2, <1>7, <1>8, <1>9, <1>10, CallMoves

LEMMA ApplyKeeps ==
  ASSUME IInv, NEW c \in Calls, Apply(c)
  PROVE  IInv'
  <1>1. /\ log \in Seq(Events) /\ landed \in Seq(Landings) /\ call \in [Calls -> CallStates]
        /\ call[c] \in CallStates /\ log' = log
    BY DEF IInv, TypeOK, Apply
  <1>2. call[c].pc = "patched" /\ call' = [call EXCEPT ![c] = Idle]
    BY DEF Apply
  <1>3. Idle \in CallStates /\ Idle.pc = "idle"
    BY DEF Idle, CallStates
  <1>4. /\ call[c].set \in Sets /\ call[c].from \in Trees \cup {Baseline} /\ call[c].to \in Trees
    BY <1>1, <1>2 DEF CallStates
  <1>5. JudgedIn(log, call[c].set, call[c].cand) /\ call[c].to = call[c].cand.tree
    BY <1>2 DEF IInv, CallsJudged
  <1> DEFINE patch == [from |-> call[c].from, to |-> call[c].to, set |-> call[c].set]
  <1>6. patch \in Landings /\ patch.set = call[c].set /\ patch.to = call[c].to
    BY <1>4 DEF Landings
  <1>7. \/ UNCHANGED <<base, landed>>
        \/ base' = call[c].to /\ landed' = Append(landed, patch)
    BY DEF Apply
  <1> HIDE DEF patch
  <1>8. landed' \in Seq(Landings)
    BY <1>1, <1>6, <1>7, AppendProperties
  <1>9. TypeOK'
    BY <1>1, <1>2, <1>3, <1>4, <1>7, <1>8 DEF IInv, TypeOK, Apply
  <1>10. CallsJudged'
    BY <1>1, <1>2, <1>3 DEF IInv, CallsJudged
  <1>11. \A n \in DOMAIN landed : \E cand : JudgedIn(log, landed[n].set, cand) /\ cand.tree = landed[n].to
    BY LandedIsJudged DEF IInv
  <1>12. \A n \in DOMAIN landed' : \E cand : JudgedIn(log, landed'[n].set, cand) /\ cand.tree = landed'[n].to
    <2>1. CASE UNCHANGED <<base, landed>>
      BY <1>11, <2>1
    <2>2. CASE landed' = Append(landed, patch)
      <3>1. \A n \in DOMAIN landed' : \/ n \in DOMAIN landed /\ landed'[n] = landed[n]
                                      \/ landed'[n] = patch
        BY <1>1, <1>6, <2>2, AppendProperties, LenProperties
      <3> QED BY <3>1, <1>5, <1>6, <1>11
    <2> QED BY <1>7, <2>1, <2>2
  <1>13. LandedWasJudged'
    BY <1>1, <1>12 DEF LandedWasJudged, JudgedIn
  <1> QED BY <1>1, <1>9, <1>10, <1>13 DEF IInv

\* The invariant holds at first, and every step keeps it.
LEMMA InitHolds ==
  ASSUME Init
  PROVE  IInv
  <1>1. log = <<>> /\ landed = <<>> /\ log \in Seq(Events) /\ landed \in Seq(Landings)
    BY DEF Init
  <1>2. Of(log, "attestation") = {} /\ Of(log, "set") = {} /\ Of(log, "evaluated") = {} /\ DOMAIN landed = {}
    BY <1>1 DEF Of
  <1>3. Idle \in CallStates /\ Idle.pc = "idle"
    BY DEF Idle, CallStates
  <1>4. call \in [Calls -> CallStates] /\ \A c \in Calls : call[c] = Idle
    BY <1>3 DEF Init
  <1>5. TypeOK
    BY <1>1, <1>4 DEF Init, TypeOK
  <1>6. log \in Ledgers
    BY <1>1, <1>2 DEF Ledgers, RestsOnEvidence, Announced
  <1>7. EvaluationsEarned(log)
    BY <1>2 DEF EvaluationsEarned
  <1>8. CallsJudged
    BY <1>3, <1>4 DEF CallsJudged
  <1>9. LandedWasJudged
    BY <1>2 DEF LandedWasJudged
  <1> QED BY <1>5, <1>6, <1>7, <1>8, <1>9 DEF IInv

LEMMA StepKeeps ==
  ASSUME IInv, [Next]_vars
  PROVE  IInv'
  <1>1. /\ log \in Seq(Events) /\ declared \in DOMAIN Policies /\ lane \in Candidates
        /\ other \in Nat /\ moves \in Nat
    BY DEF IInv, TypeOK
  <1>2. CASE EditLane \/ Redeclare
    <2>1. /\ declared' \in DOMAIN Policies /\ lane' \in Candidates /\ moves' \in Nat
          /\ UNCHANGED <<log, base, landed, call, other>>
      BY <1>1, <1>2 DEF EditLane, Redeclare
    <2>2. Extends(log, log')
      BY <1>1, <2>1, NothingIsExtension
    <2> QED BY <1>1, <2>1, <2>2, GrowthIsSafe
  <1>3. CASE RunCheck \/ RecordEvidence \/ RecordAnswer \/ RecordAttestation
    <2>1. TypeOK
      BY DEF IInv
    <2>2. Extends(log, log') /\ UNCHANGED <<declared, lane, base, landed, call, moves>> /\ other' \in Nat
      BY <1>3, <2>1, RecordingGrows
    <2> QED BY <1>1, <2>2, GrowthIsSafe
  <1>4. CASE \E c \in Calls : Begin(c) \/ Decide(c) \/ Diff(c) \/ Apply(c)
    BY <1>4, BeginKeeps, DecideKeeps, DiffKeeps, ApplyKeeps
  <1>5. CASE UNCHANGED vars
    <2>1. Extends(log, log') /\ UNCHANGED <<log, declared, lane, base, landed, call, other, moves>>
      BY <1>1, <1>5, NothingIsExtension DEF vars
    <2> QED BY <1>1, <2>1, GrowthIsSafe
  <1> QED BY <1>2, <1>3, <1>4, <1>5 DEF Next

\* The inductive invariant holds of every behaviour: the types of the state,
\* the ledger's own rules, and every evaluation, call and landing judged.
THEOREM InvariantHolds == Spec => []IInv
  <1>1. Init => IInv
    BY InitHolds
  <1>2. IInv /\ [Next]_vars => IInv'
    BY StepKeeps
  <1> QED BY <1>1, <1>2, PTL DEF Spec

\* The types of the state.
THEOREM TypeCorrect == Spec => []TypeOK
  <1>1. IInv => TypeOK
    BY DEF IInv
  <1> QED BY <1>1, InvariantHolds, PTL

\* An evaluation is recorded as passed exactly when the log, as it was then, had
\* earned it: for every policy the parser accepts, every number of calls under
\* way, and whatever was recorded, answered and superseded in between.
THEOREM EvaluationsAreEarned == Spec => []VerdictIsEarned
  <1>1. IInv => VerdictIsEarned
    <2> SUFFICES ASSUME IInv, NEW i \in DOMAIN log, log[i].k = "evaluated"
                 PROVE  log[i].verdict = "passed" <=> Earned(log[i])
      BY DEF VerdictIsEarned
    <2>1. log[i].verdict = "passed" <=>
            EarnedIn(log[i].set, log[i].cand, log[i].override, SubSeq(log, 1, log[i].asof))
      BY DEF IInv, EvaluationsEarned, Of
    <2>2. Earned(log[i]) <=>
            EarnedIn(log[i].set, log[i].cand, log[i].override, SubSeq(log, 1, log[i].asof))
      BY DEF Earned, EarnedIn
    <2> QED BY <2>1, <2>2
  <1> QED BY <1>1, InvariantHolds, PTL

\* What lands in the user's directory is a tree a passed evaluation judged,
\* whatever happened between the verdict and the patch.
THEOREM LandingsAreJudged == Spec => []LandedWasJudged
  <1>1. IInv => LandedWasJudged
    BY DEF IInv
  <1> QED BY <1>1, InvariantHolds, PTL

-----------------------------------------------------------------------------
(* A refusal is never final.                                                 *)

\* A finite set put in a row is a sequence of all its members.
LEMMA SetInARow ==
  ASSUME NEW S, IsFiniteSet(S)
  PROVE  /\ SetToSeq(S) \in Seq(S)
         /\ \A x \in S : \E i \in 1..Len(SetToSeq(S)) : SetToSeq(S)[i] = x
  <1> DEFINE n == Cardinality(S)
             f == SetToSeq(S)
  <1>1. n \in Nat /\ IsFiniteSet(1..n) /\ Cardinality(1..n) = n
    <2>1. n \in Nat
      BY FS_CardinalityType
    <2>2. IsFiniteSet(1..n) /\ Cardinality(1..n) = IF 1 > n THEN 0 ELSE n - 1 + 1
      BY <2>1, FS_Interval
    <2> HIDE DEF n
    <2> QED BY <2>1, <2>2
  <1>2. PICK g : g \in Bijection(1..n, S)
    BY <1>1, FS_SameCardinalityBij DEF ExistsBijection
  <1>3. g \in [1..n -> S] /\ IsInjective(g)
    BY <1>2 DEF Bijection, Injection, IsInjective
  <1>4. f \in [1..n -> S] /\ IsInjective(f)
    BY <1>3 DEF SetToSeq
  <1> HIDE DEF f, n
  <1>5. f \in Injection(1..n, S)
    BY <1>4 DEF Injection, IsInjective
  <1>6. f \in Surjection(1..n, S)
    BY <1>1, <1>5, FS_Injection DEF n
  <1>7. f \in Seq(S) /\ Len(f) = n
    BY <1>1, <1>4
  <1>8. \A x \in S : \E i \in 1..n : f[i] = x
    BY <1>6 DEF Surjection
  <1> QED BY <1>7, <1>8 DEF f

\* What is said of each member of a finite set is a finite set.
LEMMA FiniteImage ==
  ASSUME NEW S, IsFiniteSet(S), NEW f, DOMAIN f = S, NEW T, T = {f[x] : x \in S}
  PROVE  IsFiniteSet(T)
  <1> DEFINE g == [x \in S |-> f[x]]
  <1>1. g \in Surjection(S, T)
    BY DEF Surjection
  <1> QED BY <1>1, FS_Surjection

\* A ledger followed by some events: all of them, and nothing else.
Follows(l, m, S) ==
    /\ m \in Seq(Events) /\ Len(l) <= Len(m)
    /\ \A i \in DOMAIN l : m[i] = l[i]
    /\ \A i \in (Len(l) + 1)..Len(m) : m[i] \in S
    /\ \A x \in S : \E i \in (Len(l) + 1)..Len(m) : m[i] = x

\* Such a ledger is one.
LEMMA Followed ==
  ASSUME NEW l \in Seq(Events), NEW S \in SUBSET Events, IsFiniteSet(S),
         NEW m, m = l \o SetToSeq(S)
  PROVE  Follows(l, m, S)
  <1> DEFINE f == SetToSeq(S)
  <1>1. f \in Seq(S) /\ \A x \in S : \E i \in 1..Len(f) : f[i] = x
    BY SetInARow
  <1> HIDE DEF f
  <1>2. f \in Seq(Events) /\ Len(f) \in Nat /\ \A i \in 1..Len(f) : f[i] \in S
    BY <1>1, LenProperties, ElementOfSeq
  <1>3. DOMAIN l = 1..Len(l) /\ Len(l) \in Nat
    BY LenProperties
  <1>4. /\ m \in Seq(Events) /\ Len(m) = Len(l) + Len(f)
        /\ \A i \in 1..(Len(l) + Len(f)) : m[i] = IF i <= Len(l) THEN l[i] ELSE f[i - Len(l)]
    BY <1>2, ConcatProperties DEF f
  <1>5. \A i \in (Len(l) + 1)..Len(m) : m[i] = f[i - Len(l)] /\ i - Len(l) \in 1..Len(f)
    BY <1>2, <1>3, <1>4
  <1>6. \A x \in S : \E i \in (Len(l) + 1)..Len(m) : m[i] = x
    <2> SUFFICES ASSUME NEW x \in S PROVE \E i \in (Len(l) + 1)..Len(m) : m[i] = x
      OBVIOUS
    <2>1. PICK i \in 1..Len(f) : f[i] = x
      BY <1>1
    <2>2. Len(l) + i \in (Len(l) + 1)..Len(m) /\ (Len(l) + i) - Len(l) = i
      BY <1>2, <1>3, <1>4, <2>1
    <2> QED BY <2>1, <2>2, <1>5
  <1>7. \A i \in DOMAIN l : m[i] = l[i]
    BY <1>2, <1>3, <1>4
  <1> QED BY <1>2, <1>3, <1>4, <1>5, <1>6, <1>7 DEF Follows

\* What can still be said under a set, of the candidate in the lane.
Runs(policy, cand) ==
    {[k |-> "evidence", check |-> n, passed |-> TRUE, refers |-> FALSE,
      about |-> "any", cand |-> cand] : n \in policy.verify \cup {"any"}}
IdsOf(policy, kind) == {i.id : i \in {m \in policy.items : m.kind = kind}}
Replies(policy, set, cand) ==
    {[k |-> "answer", id |-> FreshId, set |-> set, item |-> n, cand |-> cand,
      says |-> FreshId] : n \in IdsOf(policy, "mandatory-answer")}
Signed(policy, set, cand, place) ==
    {[k |-> "attestation", id |-> FreshId, set |-> set, item |-> n, cand |-> cand,
      says |-> FreshId, rests |-> {place}] : n \in IdsOf(policy, "human-attestation")}

\* There are finitely many, and all are events.
LEMMA SayingsAreFinite ==
  ASSUME NEW n \in DOMAIN Policies, NEW set \in Sets, NEW cand \in Readable, NEW place \in Nat
  PROVE  LET policy == Policies[n]
         IN  /\ IsFiniteSet(Runs(policy, cand)) /\ Runs(policy, cand) \subseteq Events
             /\ IsFiniteSet(Replies(policy, set, cand)) /\ Replies(policy, set, cand) \subseteq Events
             /\ IsFiniteSet(Signed(policy, set, cand, place)) /\ Signed(policy, set, cand, place) \subseteq Events
  <1> DEFINE policy == Policies[n]
             checks == policy.verify \cup {"any"}
             run == [x \in checks |-> [k |-> "evidence", check |-> x, passed |-> TRUE, refers |-> FALSE,
                                       about |-> "any", cand |-> cand]]
  <1>1. IsFiniteSet(policy.items) /\ IsFiniteSet(policy.verify)
    BY PoliciesAssumption DEF PoliciesAssumption
  <1>2. IsFiniteSet(checks)
    BY <1>1, FS_AddElement
  <1>3. IsFiniteSet(Runs(policy, cand))
    <2>1. DOMAIN run = checks /\ Runs(policy, cand) = {run[x] : x \in checks}
      BY DEF Runs
    <2> HIDE DEF run, checks
    <2> QED BY <1>2, <2>1, FiniteImage
  <1>4. Runs(policy, cand) \subseteq Events
    <2>1. checks \subseteq Checks
      BY DEF Checks
    <2> HIDE DEF checks, policy
    <2>2. \A x \in checks : [k |-> "evidence", check |-> x, passed |-> TRUE, refers |-> FALSE,
                             about |-> "any", cand |-> cand] \in Events
      BY <2>1 DEF Events
    <2>3. \A e \in Runs(policy, cand) : e \in Events
      BY <2>2 DEF Runs, checks
    <2> QED BY <2>3
  <1>5. \A kind : IsFiniteSet(IdsOf(policy, kind)) /\ IdsOf(policy, kind) \subseteq ItemNames
    <2> SUFFICES ASSUME NEW kind
                 PROVE  IsFiniteSet(IdsOf(policy, kind)) /\ IdsOf(policy, kind) \subseteq ItemNames
      OBVIOUS
    <2> DEFINE some == {m \in policy.items : m.kind = kind}
               id == [i \in some |-> i.id]
    <2>1. IsFiniteSet(some)
      BY <1>1, FS_Subset
    <2>2. DOMAIN id = some /\ IdsOf(policy, kind) = {id[i] : i \in some}
      BY DEF IdsOf
    <2>3. IsFiniteSet(IdsOf(policy, kind))
      <3> HIDE DEF some, id
      <3> QED BY <2>1, <2>2, FiniteImage
    <2>4. IdsOf(policy, kind) \subseteq ItemNames
      BY DEF IdsOf, ItemNames
    <2> QED BY <2>3, <2>4
  <1> DEFINE asked == IdsOf(policy, "mandatory-answer")
             shown == IdsOf(policy, "human-attestation")
             reply == [x \in asked |-> [k |-> "answer", id |-> FreshId, set |-> set, item |-> x,
                                        cand |-> cand, says |-> FreshId]]
             sign == [x \in shown |-> [k |-> "attestation", id |-> FreshId, set |-> set, item |-> x,
                                       cand |-> cand, says |-> FreshId, rests |-> {place}]]
  <1>6. IsFiniteSet(asked) /\ asked \subseteq ItemNames /\ IsFiniteSet(shown) /\ shown \subseteq ItemNames
    BY <1>5
  <1> HIDE DEF policy
  <1>7. FreshId \in Ids /\ FreshId \in Said /\ {place} \in SUBSET Nat
    BY DEF Ids, Said
  <1>8. IsFiniteSet(Replies(policy, set, cand))
    <2>1. DOMAIN reply = asked /\ Replies(policy, set, cand) = {reply[x] : x \in asked}
      BY DEF Replies
    <2> HIDE DEF reply, asked
    <2> QED BY <1>6, <2>1, FiniteImage
  <1>9. Replies(policy, set, cand) \subseteq Events
    <2> HIDE DEF asked
    <2>1. \A x \in asked : [k |-> "answer", id |-> FreshId, set |-> set, item |-> x,
                            cand |-> cand, says |-> FreshId] \in Events
      BY <1>6, <1>7 DEF Events
    <2>2. \A e \in Replies(policy, set, cand) : e \in Events
      BY <2>1 DEF Replies, asked
    <2> QED BY <2>2
  <1>10. IsFiniteSet(Signed(policy, set, cand, place))
    <2>1. DOMAIN sign = shown /\ Signed(policy, set, cand, place) = {sign[x] : x \in shown}
      BY DEF Signed
    <2> HIDE DEF sign, shown
    <2> QED BY <1>6, <2>1, FiniteImage
  <1>11. Signed(policy, set, cand, place) \subseteq Events
    <2> HIDE DEF shown
    <2>1. \A x \in shown : [k |-> "attestation", id |-> FreshId, set |-> set, item |-> x,
                            cand |-> cand, says |-> FreshId, rests |-> {place}] \in Events
      BY <1>6, <1>7 DEF Events
    <2>2. \A e \in Signed(policy, set, cand, place) : e \in Events
      BY <2>1 DEF Signed, shown
    <2> QED BY <2>2
  <1> QED BY <1>3, <1>4, <1>8, <1>9, <1>10, <1>11 DEF policy

\* What the helped log adds: only such sayings, all of them, a run first.
HelpedBy(l, q, policy, set, cand) ==
    LET later == (Len(l) + 1)..Len(q)
        place == Len(l) + 1
        helps == Runs(policy, cand) \cup Replies(policy, set, cand) \cup Signed(policy, set, cand, place)
    IN  /\ q \in Seq(Events) /\ Len(l) <= Len(q)
        /\ \A i \in DOMAIN l : i \in DOMAIN q /\ q[i] = l[i]
        /\ \A i \in later : q[i] \in helps
        /\ \A e \in helps : \E i \in later : q[i] = e
        /\ place \in later /\ q[place] \in Runs(policy, cand)

\* The helped log is of that form.
LEMMA HelpedIs ==
  ASSUME log \in Seq(Events), NEW set \in Sets, NEW cand \in Readable
  PROVE  HelpedBy(log, Helped(set, cand), Policies[set.policy], set, cand)
  <1> DEFINE policy == Policies[set.policy]
             place == Len(log) + 1
             runs == Runs(policy, cand)
             replies == Replies(policy, set, cand)
             signed == Signed(policy, set, cand, place)
             l1 == log \o SetToSeq(runs)
             l2 == l1 \o SetToSeq(replies)
             q == l2 \o SetToSeq(signed)
  <1>1. Len(log) \in Nat /\ place \in Nat /\ DOMAIN log = 1..Len(log)
    BY LenProperties
  <1>2. set.policy \in DOMAIN Policies
    BY DEF Sets
  <1>3. /\ IsFiniteSet(runs) /\ runs \in SUBSET Events
        /\ IsFiniteSet(replies) /\ replies \in SUBSET Events
        /\ IsFiniteSet(signed) /\ signed \in SUBSET Events
    BY <1>1, <1>2, SayingsAreFinite
  <1>4. Helped(set, cand) = q
    BY DEF Helped, Runs, Replies, Signed, IdsOf
  <1>5. \E e : e \in runs
    BY DEF Runs
  <1> HIDE DEF policy, runs, replies, signed, l1, l2, q
  <1>6. /\ l1 \in Seq(Events) /\ Len(log) <= Len(l1)
        /\ \A i \in DOMAIN log : l1[i] = log[i]
        /\ \A i \in (Len(log) + 1)..Len(l1) : l1[i] \in runs
        /\ \A x \in runs : \E i \in (Len(log) + 1)..Len(l1) : l1[i] = x
    <2>1. l1 = log \o SetToSeq(runs)
      BY DEF l1
    <2>2. Follows(log, l1, runs)
      BY <1>3, <2>1, Followed
    <2> QED BY <2>2 DEF Follows
  <1>7. /\ l2 \in Seq(Events) /\ Len(l1) <= Len(l2)
        /\ \A i \in DOMAIN l1 : l2[i] = l1[i]
        /\ \A i \in (Len(l1) + 1)..Len(l2) : l2[i] \in replies
        /\ \A x \in replies : \E i \in (Len(l1) + 1)..Len(l2) : l2[i] = x
    <2>1. l2 = l1 \o SetToSeq(replies)
      BY DEF l2
    <2>2. Follows(l1, l2, replies)
      BY <1>3, <1>6, <2>1, Followed
    <2> QED BY <2>2 DEF Follows
  <1>8. /\ q \in Seq(Events) /\ Len(l2) <= Len(q)
        /\ \A i \in DOMAIN l2 : q[i] = l2[i]
        /\ \A i \in (Len(l2) + 1)..Len(q) : q[i] \in signed
        /\ \A x \in signed : \E i \in (Len(l2) + 1)..Len(q) : q[i] = x
    <2>1. q = l2 \o SetToSeq(signed)
      BY DEF q
    <2>2. Follows(l2, q, signed)
      BY <1>3, <1>7, <2>1, Followed
    <2> QED BY <2>2 DEF Follows
  <1>9. /\ Len(l1) \in Nat /\ DOMAIN l1 = 1..Len(l1) /\ Len(l2) \in Nat /\ DOMAIN l2 = 1..Len(l2)
        /\ Len(q) \in Nat /\ DOMAIN q = 1..Len(q)
    BY <1>6, <1>7, <1>8, LenProperties
  <1> DEFINE later == (Len(log) + 1)..Len(q)
             helps == runs \cup replies \cup signed
  <1>10. \A i \in DOMAIN log : i \in DOMAIN q /\ q[i] = log[i]
    <2> SUFFICES ASSUME NEW i \in DOMAIN log PROVE i \in DOMAIN q /\ q[i] = log[i]
      OBVIOUS
    <2>1. i \in DOMAIN l1 /\ i \in DOMAIN l2 /\ i \in DOMAIN q
      BY <1>1, <1>6, <1>7, <1>8, <1>9
    <2> QED BY <2>1, <1>6, <1>7, <1>8
  <1>11. \A i \in (Len(log) + 1)..Len(l1) : i \in later /\ q[i] = l1[i]
    BY <1>1, <1>7, <1>8, <1>9
  <1>12. \A i \in (Len(l1) + 1)..Len(l2) : i \in later /\ q[i] = l2[i]
    BY <1>1, <1>6, <1>8, <1>9
  <1>13. \A i \in (Len(l2) + 1)..Len(q) : i \in later
    BY <1>1, <1>6, <1>7, <1>9
  <1>14. \A i \in later : \/ i \in (Len(log) + 1)..Len(l1) \/ i \in (Len(l1) + 1)..Len(l2)
                          \/ i \in (Len(l2) + 1)..Len(q)
    BY <1>1, <1>9
  <1>15. \A i \in later : q[i] \in helps
    BY <1>6, <1>7, <1>8, <1>11, <1>12, <1>14
  <1>16. \A e \in helps : \E i \in later : q[i] = e
    <2>1. \A e \in runs : \E i \in later : q[i] = e
      BY <1>6, <1>11
    <2>2. \A e \in replies : \E i \in later : q[i] = e
      BY <1>7, <1>12
    <2>3. \A e \in signed : \E i \in later : q[i] = e
      BY <1>8, <1>13
    <2> QED BY <2>1, <2>2, <2>3
  <1>17. place \in later /\ q[place] \in runs
    <2>1. PICK i \in (Len(log) + 1)..Len(l1) : TRUE
      BY <1>5, <1>6
    <2>2. place \in (Len(log) + 1)..Len(l1)
      BY <1>1, <1>9, <2>1
    <2> QED BY <2>2, <1>6, <1>11
  <1>18. Len(log) <= Len(q)
    BY <1>1, <1>6, <1>7, <1>8, <1>9
  <1> HIDE DEF later, helps
  <1> QED BY <1>4, <1>8, <1>10, <1>15, <1>16, <1>17, <1>18
          DEF HelpedBy, later, helps, policy, runs, replies, signed

\* The fields of what is added.
IsRun(e, cand) ==
    e.k = "evidence" /\ e.passed = TRUE /\ e.check # "none" /\ e.about = "any" /\ e.cand = cand
IsReply(e, set, cand) == e.k = "answer" /\ e.id = FreshId /\ e.set = set /\ e.cand = cand
IsSigned(e, set, cand, place) ==
    e.k = "attestation" /\ e.id = FreshId /\ e.set = set /\ e.cand = cand /\ e.rests = {place}

\* What is added has them.
LEMMA HelpsAre ==
  ASSUME NEW n \in DOMAIN Policies, NEW set \in Sets, NEW cand \in Readable, NEW place
  PROVE  /\ \A e \in Runs(Policies[n], cand) : IsRun(e, cand)
         /\ \A e \in Replies(Policies[n], set, cand) : IsReply(e, set, cand)
         /\ \A e \in Signed(Policies[n], set, cand, place) : IsSigned(e, set, cand, place)
  <1>1. "none" \notin Policies[n].verify
    BY PoliciesAssumption DEF PoliciesAssumption
  <1>2. \A x \in Policies[n].verify \cup {"any"} : x # "none"
    BY <1>1
  <1>3. \A e \in Runs(Policies[n], cand) : IsRun(e, cand)
    BY <1>2 DEF Runs, IsRun
  <1> QED BY <1>3 DEF Replies, Signed, IsReply, IsSigned

\* What was not garbled is not garbled by fresh sayings, and nothing is superseded.
LEMMA HelpedIsLedger ==
  ASSUME NEW n \in DOMAIN Policies, NEW l \in Ledgers, NEW set \in Sets, NEW cand \in Readable, NEW q,
         HelpedBy(l, q, Policies[n], set, cand)
  PROVE  /\ q \in Ledgers
         /\ \A item, some : Garbled(item, q, some) => Garbled(item, l, some)
         /\ \A i \in DOMAIN q : q[i].k = "superseded" => i \in DOMAIN l /\ l[i] = q[i]
  <1> DEFINE policy == Policies[n]
             place == Len(l) + 1
             later == (Len(l) + 1)..Len(q)
             helps == Runs(policy, cand) \cup Replies(policy, set, cand) \cup Signed(policy, set, cand, place)
  <1>0. /\ \A e \in Runs(policy, cand) : e.k = "evidence"
        /\ \A e \in Replies(policy, set, cand) : e.k = "answer" /\ e.id = FreshId
        /\ \A e \in Signed(policy, set, cand, place) :
              e.k = "attestation" /\ e.id = FreshId /\ e.rests = {place}
    <2> HIDE DEF place
    <2>1. /\ \A e \in Runs(policy, cand) : IsRun(e, cand)
          /\ \A e \in Replies(policy, set, cand) : IsReply(e, set, cand)
          /\ \A e \in Signed(policy, set, cand, place) : IsSigned(e, set, cand, place)
      BY HelpsAre
    <2> QED BY <2>1 DEF IsRun, IsReply, IsSigned
  <1>1. /\ q \in Seq(Events) /\ Len(l) <= Len(q)
        /\ \A i \in DOMAIN l : i \in DOMAIN q /\ q[i] = l[i]
        /\ \A i \in later : q[i] \in helps
        /\ place \in later /\ q[place] \in Runs(policy, cand)
    BY DEF HelpedBy
  <1>2. /\ l \in Seq(Events) /\ Len(l) \in Nat /\ DOMAIN l = 1..Len(l)
        /\ Len(q) \in Nat /\ DOMAIN q = 1..Len(q)
    BY <1>1, LenProperties DEF Ledgers
  <1>3. \A i \in DOMAIN q : i \in DOMAIN l \/ i \in later
    BY <1>2
  <1>4. \A e \in helps : /\ e.k \in {"evidence", "answer", "attestation"}
                         /\ e.k \in {"answer", "attestation"} => e.id = FreshId
                         /\ e.k = "attestation" => e.rests = {place}
    <2>1. \A e \in Runs(policy, cand) : e.k = "evidence"
      BY <1>0
    <2>2. \A e \in Replies(policy, set, cand) : e.k = "answer" /\ e.id = FreshId
      BY <1>0
    <2>3. \A e \in Signed(policy, set, cand, place) :
             e.k = "attestation" /\ e.id = FreshId /\ e.rests = {place}
      BY <1>0
    <2> QED BY <2>1, <2>2, <2>3
  <1>5. q[place].k = "evidence" /\ place \in DOMAIN q
    BY <1>0, <1>1, <1>2
  <1> HIDE DEF helps, later, place
  <1>6. RestsOnEvidence(q)
    <2> SUFFICES ASSUME NEW i \in DOMAIN q, q[i].k = "attestation", NEW r \in q[i].rests
                 PROVE  r \in DOMAIN q /\ q[r].k = "evidence"
      BY DEF RestsOnEvidence, Of
    <2>1. CASE i \in DOMAIN l
      <3>1. r \in DOMAIN l /\ l[r].k = "evidence"
        BY <1>1, <2>1 DEF Ledgers, RestsOnEvidence, Of
      <3> QED BY <3>1, <1>1
    <2>2. CASE i \in later
      <3>1. r = place
        BY <1>1, <1>4, <2>2
      <3> QED BY <3>1, <1>5
    <2> QED BY <1>3, <2>1, <2>2
  <1>7. Announced(q)
    <2> SUFFICES ASSUME NEW i \in DOMAIN q, q[i].k = "set", q[i].supersedes # NoSet
                 PROVE  \E j \in DOMAIN q : q[j].k = "superseded" /\ q[j].set = q[i].supersedes
      BY DEF Announced, Of
    <2>1. i \in DOMAIN l
      BY <1>1, <1>3, <1>4
    <2>2. PICK j \in DOMAIN l : l[j].k = "superseded" /\ l[j].set = l[i].supersedes
      BY <1>1, <2>1 DEF Ledgers, Announced, Of
    <2> QED BY <1>1, <2>1, <2>2
  <1>8. q \in Ledgers
    BY <1>1, <1>6, <1>7 DEF Ledgers
  <1>9. \A i \in DOMAIN q : q[i].k = "superseded" => i \in DOMAIN l /\ l[i] = q[i]
    BY <1>1, <1>3, <1>4
  <1>10. ASSUME NEW item, NEW some, Garbled(item, q, some)
         PROVE  Garbled(item, l, some)
    <2> DEFINE k == ReplyTo(item)
    <2>1. k \in {"answer", "attestation", "nothing"}
      BY DEF ReplyTo
    <2> HIDE DEF k
    <2>2. PICK i \in Of(q, k), j \in Of(q, k) :
             /\ q[i].id \in AnswerIds /\ q[j].id = q[i].id /\ q[i] # q[j]
             /\ q[i].set = some /\ q[i].item = item.id
      BY <1>10 DEF Garbled, k
    <2>3. \A p \in DOMAIN q : q[p].k = k /\ q[p].id \in AnswerIds => p \in DOMAIN l
      BY <1>1, <1>3, <1>4, <2>1, ConstantsAssumption DEF ConstantsAssumption
    <2>4. /\ i \in DOMAIN l /\ j \in DOMAIN l /\ q[i] = l[i] /\ q[j] = l[j] /\ i \in Of(l, k) /\ j \in Of(l, k)
      BY <1>1, <2>2, <2>3 DEF Of
    <2> QED BY <2>2, <2>4 DEF Garbled, k
  <1> QED BY <1>8, <1>9, <1>10

\* The newest of some places is one of them, and no earlier than any.
LEMMA LatestIs ==
  ASSUME NEW l \in Seq(Events), NEW S \in SUBSET (DOMAIN l), NEW p \in S
  PROVE  \E w \in S : p <= w /\ Latest(l, S) = l[w]
  <1>1. Newest(S) \in S /\ p <= Newest(S)
    BY Places
  <1> QED BY <1>1 DEF Latest, Newest

\* Every item that can be met is met when the checks have passed and the person
\* has said all that is asked.
LEMMA HelpIsEnough ==
  ASSUME NEW n \in DOMAIN Policies, NEW l \in Ledgers, NEW set \in Sets,
         NEW cand \in Readable, NEW q, HelpedBy(l, q, Policies[n], set, cand),
         ~\E i \in DOMAIN l : l[i].k = "superseded" /\ l[i].set = set,
         NEW item \in Policies[n].items, ~Visual(item), ~Garbled(item, l, set),
         item.kind = "verification" => item.id \in Policies[n].verify
  PROVE  Met(item, q, set, cand)
  <1> DEFINE policy == Policies[n]
             place == Len(l) + 1
             later == (Len(l) + 1)..Len(q)
             runs == Runs(policy, cand)
             replies == Replies(policy, set, cand)
             signed == Signed(policy, set, cand, place)
  <1>1. item.kind \in Kinds
    BY PoliciesAssumption DEF PoliciesAssumption
  <1>2. /\ q \in Seq(Events) /\ Len(l) <= Len(q)
        /\ \A i \in DOMAIN l : i \in DOMAIN q /\ q[i] = l[i]
        /\ \A i \in later : q[i] \in runs \cup replies \cup signed
        /\ \A e \in runs \cup replies \cup signed : \E i \in later : q[i] = e
        /\ place \in later /\ q[place] \in runs
    BY DEF HelpedBy
  <1>3. /\ Len(l) \in Nat /\ DOMAIN l = 1..Len(l) /\ Len(q) \in Nat /\ DOMAIN q = 1..Len(q)
    BY <1>2, LenProperties DEF Ledgers
  <1>4. \A i \in later : i \in DOMAIN q /\ \A w \in DOMAIN q : i <= w => w \in later
    BY <1>3
  <1>5. /\ \A e \in runs : IsRun(e, cand)
        /\ \A e \in replies : IsReply(e, set, cand)
        /\ \A e \in signed : IsSigned(e, set, cand, place)
    <2> HIDE DEF place
    <2> QED BY HelpsAre
  <1>6. /\ ~Garbled(item, q, set)
        /\ ~\E i \in DOMAIN q : q[i].k = "superseded" /\ q[i].set = set
    BY HelpedIsLedger
  <1>7. place \in DOMAIN q /\ IsRun(q[place], cand)
    BY <1>2, <1>4, <1>5
  <1>8. /\ item.kind = "verification" =>
              \E e \in runs : e.k = "evidence" /\ e.check = item.id
        /\ item.kind = "mandatory-answer" =>
              \E e \in replies : IsReply(e, set, cand) /\ e.item = item.id
        /\ item.kind = "human-attestation" =>
              \E e \in signed : IsSigned(e, set, cand, place) /\ e.item = item.id
    <2>1. ASSUME item.kind = "verification"
          PROVE  \E e \in runs : e.k = "evidence" /\ e.check = item.id
      <3> DEFINE e == [k |-> "evidence", check |-> item.id, passed |-> TRUE, refers |-> FALSE,
                       about |-> "any", cand |-> cand]
      <3>1. e \in runs
        BY <2>1 DEF Runs
      <3> QED BY <3>1
    <2>2. ASSUME item.kind = "mandatory-answer"
          PROVE  \E e \in replies : IsReply(e, set, cand) /\ e.item = item.id
      <3> DEFINE e == [k |-> "answer", id |-> FreshId, set |-> set, item |-> item.id, cand |-> cand,
                       says |-> FreshId]
      <3>1. e \in replies
        BY <2>2 DEF Replies, IdsOf
      <3> QED BY <3>1 DEF IsReply
    <2>3. ASSUME item.kind = "human-attestation"
          PROVE  \E e \in signed : IsSigned(e, set, cand, place) /\ e.item = item.id
      <3> DEFINE e == [k |-> "attestation", id |-> FreshId, set |-> set, item |-> item.id, cand |-> cand,
                       says |-> FreshId, rests |-> {place}]
      <3>1. e \in signed
        BY <2>3 DEF Signed, IdsOf
      <3> QED BY <3>1 DEF IsSigned
    <2> QED BY <2>1, <2>2, <2>3
  <1> HIDE DEF runs, replies, signed, later, place, policy
  <1>9. CASE item.kind = "verification"
    <2> DEFINE S == {i \in DOMAIN q : q[i].k = "evidence" /\ q[i].check = item.id}
    <2>1. PICK p \in later : q[p].k = "evidence" /\ q[p].check = item.id
      BY <1>2, <1>8, <1>9
    <2>2. p \in S /\ S \in SUBSET (DOMAIN q)
      BY <1>4, <2>1
    <2>3. PICK w \in S : p <= w /\ Latest(q, S) = q[w]
      <3> HIDE DEF S
      <3> QED BY <1>2, <2>2, LatestIs
    <2>4. w \in later /\ q[w].k = "evidence"
      BY <1>4, <2>1, <2>3
    <2>5. IsRun(q[w], cand)
      BY <1>2, <1>5, <2>4 DEF IsReply, IsSigned
    <2>6. LET run == Latest(q, S) IN run.k = "evidence" /\ run.passed /\ run.cand.tree = cand.tree
      BY <2>3, <2>5 DEF IsRun
    <2> QED BY <1>9, <2>6 DEF Met
  <1>10. CASE item.kind = "evidence-present"
    <2>1. /\ q[place].k = "evidence" /\ q[place].cand.tree = cand.tree /\ q[place].about # "other"
          /\ q[place].check # "none"
      BY <1>7 DEF IsRun
    <2> QED BY <1>7, <1>10, <2>1 DEF Met
  <1>11. ASSUME NEW k \in Spoken, NEW p \in later, q[p].k = k, q[p].id = FreshId,
                q[p].set = set, q[p].item = item.id
         PROVE  \E w \in later : /\ Latest(q, SaidPlaces(k, q, set, item.id)) = q[w]
                                 /\ q[w].k = k
    <2> DEFINE S == SaidPlaces(k, q, set, item.id)
    <2>1. p \in S /\ S \in SUBSET (DOMAIN q)
      BY <1>4, <1>11 DEF SaidPlaces, Repeated
    <2>2. PICK w \in S : p <= w /\ Latest(q, S) = q[w]
      <3> HIDE DEF S
      <3> QED BY <1>2, <2>1, LatestIs
    <2>3. w \in later /\ q[w].k = k
      BY <1>4, <2>2 DEF SaidPlaces
    <2> QED BY <2>2, <2>3
  <1>12. CASE item.kind = "mandatory-answer"
    <2>1. PICK p \in later : IsReply(q[p], set, cand) /\ q[p].item = item.id
      BY <1>2, <1>8, <1>12
    <2>2. PICK w \in later : Latest(q, SaidPlaces("answer", q, set, item.id)) = q[w] /\ q[w].k = "answer"
      BY <1>11, <2>1 DEF IsReply, Spoken
    <2>3. IsReply(q[w], set, cand)
      BY <1>2, <1>5, <2>2 DEF IsRun, IsSigned
    <2>4. LET said == Latest(q, SaidPlaces("answer", q, set, item.id))
          IN  said.k = "answer" /\ said.cand = cand
      BY <2>2, <2>3 DEF IsReply
    <2> QED BY <1>6, <1>12, <2>4 DEF Met, SaidPlaces
  <1>13. CASE item.kind = "human-attestation"
    <2>1. PICK p \in later : IsSigned(q[p], set, cand, place) /\ q[p].item = item.id
      BY <1>2, <1>8, <1>13
    <2>2. PICK w \in later : Latest(q, SaidPlaces("attestation", q, set, item.id)) = q[w] /\ q[w].k = "attestation"
      BY <1>11, <2>1 DEF IsSigned, Spoken
    <2>3. IsSigned(q[w], set, cand, place)
      BY <1>2, <1>5, <2>2 DEF IsRun, IsReply
    <2>4. /\ q[place].k = "evidence" /\ q[place].cand.tree = cand.tree /\ q[place].about # "other"
          /\ q[place].check # "none"
      BY <1>7 DEF IsRun
    <2>5. LET said == Latest(q, SaidPlaces("attestation", q, set, item.id))
          IN  /\ said.k = "attestation" /\ said.cand = cand /\ said.rests # {}
              /\ \A i \in said.rests : i = place
      BY <2>2, <2>3 DEF IsSigned
    <2> QED BY <1>6, <1>13, <2>4, <2>5 DEF Met, SaidPlaces
  <1> QED BY <1>1, <1>9, <1>10, <1>12, <1>13 DEF Kinds, Visual

\* Whatever the log holds, the checks and the answers a declaration asks for let
\* the lane through, unless its set was superseded or two things were said
\* under one id: for every log, every policy and every history that led to it.
THEOREM AWayOutRemains == Spec => []NeverStuck
  <1>1. IInv => NeverStuck
    <2> SUFFICES ASSUME IInv, Judgeable(declared), ~Superseded(log, SetOf(declared, lane)),
                        ~\E i \in Policies[declared].items : Garbled(i, log, SetOf(declared, lane))
                 PROVE  Wayout(SetOf(declared, lane))
      BY DEF NeverStuck
    <2> DEFINE n == declared
               policy == Policies[n]
               set == SetOf(n, lane)
               q == Helped(set, lane)
               facts == Facts(policy, q, set, lane)
    <2>1. n \in DOMAIN Policies /\ log \in Seq(Events) /\ log \in Ledgers /\ lane \in Candidates
      BY DEF IInv, TypeOK
    <2>2. lane \in Readable /\ Pinned(lane)
      BY <2>1, CandidateIsReadable, ConstantsAssumption DEF ConstantsAssumption, Candidates, Pinned
    <2>3. policy.readable /\ ~Conflicting(policy) /\ \A i \in policy.items : ~Visual(i)
      BY DEF Judgeable
    <2>4. set \in Sets /\ set.policy = n
      BY <2>1, <2>3 DEF SetOf, Source, Sets
    <2> HIDE DEF set, n
    <2>5. HelpedBy(log, q, policy, set, lane)
      BY <2>1, <2>2, <2>4, HelpedIs
    <2> HIDE DEF q
    <2>6. q \in Ledgers
      BY <2>1, <2>2, <2>4, <2>5, HelpedIsLedger
    <2>7. ~\E i \in DOMAIN log : log[i].k = "superseded" /\ log[i].set = set
      BY DEF Superseded, set, n
    <2>8. \A i \in policy.items : i.kind = "verification" => i.id \in policy.verify
      BY <2>3 DEF Conflicting
    <2>9. \A i \in policy.items : ~Garbled(i, log, set)
      BY DEF set, n
    <2>10. \A i \in policy.items : Met(i, q, set, lane)
      BY <2>1, <2>2, <2>3, <2>4, <2>5, <2>7, <2>8, <2>9, HelpIsEnough
    <2>11. FactsOf(policy, facts) /\ \A i \in policy.items : facts[i].state = "satisfied"
      BY <2>1, <2>2, <2>4, <2>6, <2>10, FactsAreMeanings
    <2> HIDE DEF facts
    <2>12. EarnedBy(policy, facts, FALSE)
      BY <2>11 DEF EarnedBy
    <2>13. PlainVerdict(facts) = "passed"
      BY <2>1, <2>11, <2>12, EarnedPasses
    <2>14. DOMAIN facts = policy.items
      BY <2>11 DEF FactsOf
    <2>15. TransitionVerdict(facts, FALSE) = "passed"
      BY <2>3, <2>13, <2>14 DEF TransitionVerdict, Visual
    <2>16. IntegrationVerdict(policy, q, set, lane, FALSE) = "passed"
      BY <2>3, <2>15 DEF IntegrationVerdict, GuardedVerdict, facts
    <2> QED BY <2>4, <2>16 DEF Wayout, q, set, n
  <1> QED BY <1>1, InvariantHolds, PTL
=============================================================================
