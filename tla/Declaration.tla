----------------------------- MODULE Declaration -----------------------------
(* Which workspace files are accepted: workspace/declaration.ts.  A file is  *)
(* Malformed when it is no JSON object, and a record of the settings it has  *)
(* otherwise; a value of the wrong shape is Malformed wherever it stands.    *)
(* Every problem refuses the whole file, so an accepted file is taken as it  *)
(* stands: what the parser keeps of a list it refuses, and its messages, are *)
(* left out.                                                                 *)
EXTENDS Integers, Sequences, SequencesExt, FiniteSets

CONSTANTS Malformed,      \* a value of the wrong shape
          AgentIds,       \* the workers a file that lists no agents allows
          Profiles,       \* the worker profiles of the registry
          Expectations,   \* the registered expectation items
          Rubrics,        \* the registered evaluator profiles
          Selectors,      \* the names that mean a worker or a model
          MaxReferences   \* MAX_REFERENCES

Versions == {1, 2, 3}
SchemaVersion == 3
TopLevel == {"version", "name", "repository", "agents", "setup", "verify",
             "integration", "context", "roles", "steps", "routes", "guardrails"}
LegacyGuardrail == "workspace-integration"

Has(record, field) == field \in DOMAIN record
Given(record, field, default) == IF Has(record, field) THEN record[field] ELSE default

Shaped(value, required, optional) ==
    value # Malformed /\ required \subseteq DOMAIN value /\ DOMAIN value \subseteq required \cup optional

\* An object of settings that are each checked on their own.
Plain(value, required, optional) ==
    Shaped(value, required, optional) /\ \A field \in DOMAIN value : value[field] # Malformed

\* A list without repeats, all of it from a set.
Picks(list, set) == list # Malformed /\ ToSet(list) \subseteq set /\ IsInjective(list)

Ids(list) == {list[i].id : i \in DOMAIN list}
Names(list) == {list[i].name : i \in DOMAIN list}
ById(list, id) == list[CHOOSE i \in DOMAIN list : list[i].id = id]

\* Named entries: each right, no name twice.
Entries(list, Right(_), Name(_)) ==
    /\ list # Malformed
    /\ \A i \in DOMAIN list : Right(list[i])
    /\ \A i, j \in DOMAIN list : Name(list[i]) = Name(list[j]) => i = j

-----------------------------------------------------------------------------
(* The settings of every version.                                            *)

IdentityRight(file, standalone) ==
    /\ standalone => Has(file, "name")
    /\ Given(file, "name", "unnamed") # Malformed
    /\ Has(file, "repository") => Plain(file.repository, {}, {"root", "github"})

AgentsRight(file) ==
    Has(file, "agents") => file.agents # <<>> /\ Picks(file.agents, Profiles)

SetupRight(file) == Has(file, "setup") => Plain(file.setup, {"command"}, {"timeoutMs"})

ContextRight(file) ==
    Has(file, "context") =>
        /\ Plain(file.context, {}, {"references", "notes"})
        /\ LET references == Given(file.context, "references", <<>>)
           IN  Len(references) <= MaxReferences /\ Malformed \notin ToSet(references)

Verify(file) == Given(file, "verify", <<>>)

VerifyRight(file) ==
    Entries(Verify(file), LAMBDA check : Plain(check, {"name", "command"}, {}), LAMBDA check : check.name)

\* What integration requires must be declared in the same file; from version 3
\* on it is the shared file's to say.
IntegrationRight(file, standalone) ==
    Has(file, "integration") =>
        /\ standalone \/ file.version # SchemaVersion
        /\ Shaped(file.integration, {}, {"requires", "allowOverride"})
        /\ Picks(Given(file.integration, "requires", <<>>), Names(Verify(file)))
        /\ Given(file.integration, "allowOverride", FALSE) \in BOOLEAN

-----------------------------------------------------------------------------
(* Routing: roles, the steps they do, the routes that lead to the steps.     *)

Routing == {"roles", "steps", "routes"}
Roles(file) == Given(file, "roles", <<>>)
Steps(file) == Given(file, "steps", <<>>)
Routes(file) == Given(file, "routes", <<>>)

Allowed(file) == IF Has(file, "agents") THEN ToSet(file.agents) ELSE AgentIds

RolesRight(file) ==
    Entries(Roles(file), LAMBDA role : Plain(role, {"id", "label"}, {}), LAMBDA role : role.id)

StepOfAnyRole(file, step) ==
    /\ Plain(step, {"id", "action", "role", "workers"}, {})
    /\ step.workers # <<>> /\ Picks(step.workers, Profiles \cap Allowed(file))

StepRight(file, step) ==
    /\ Plain(step, {"id", "action", "role", "workers"}, {})
    /\ step.role \in Ids(Roles(file))
    /\ step.workers # <<>> /\ Picks(step.workers, Profiles \cap Allowed(file))

StepsRight(file) ==
    Entries(Steps(file), LAMBDA step : StepRight(file, step), LAMBDA step : step.id)

Labelled(match, which) == ToSet(Given(match, which, <<>>))

MatchByLists(match) ==
    /\ Plain(match, {}, {"allLabels", "anyLabels", "noneLabels"})
    /\ \E which \in DOMAIN match : match[which] # <<>>
    /\ \A which \in DOMAIN match : Malformed \notin ToSet(match[which]) /\ IsInjective(match[which])
    /\ Labelled(match, "allLabels") \cap Labelled(match, "noneLabels") = {}

\* A matcher asks for something, and not for what it forbids.
MatchRight(match) ==
    /\ Plain(match, {}, {"allLabels", "anyLabels", "noneLabels"})
    /\ \E which \in DOMAIN match : match[which] # <<>>
    /\ \A which \in DOMAIN match : Malformed \notin ToSet(match[which]) /\ IsInjective(match[which])
    /\ Labelled(match, "allLabels") \cap Labelled(match, "noneLabels") = {}
    /\ LET any == Labelled(match, "anyLabels")
       IN  any = {} \/ ~(any \subseteq Labelled(match, "noneLabels"))

RoutesRight(file) ==
    Entries(Routes(file),
            LAMBDA route : /\ Plain(route, {"id", "match", "step"}, {})
                           /\ route.step \in Ids(Steps(file))
                           /\ MatchRight(route.match),
            LAMBDA route : route.id)

\* Routing belongs to the shared file, from version 2 on.
RoutingRight(file, standalone) ==
    DOMAIN file \cap Routing # {} =>
        /\ file.version # 1 /\ standalone
        /\ RolesRight(file) /\ StepsRight(file) /\ RoutesRight(file)

-----------------------------------------------------------------------------
(* Guardrails.                                                               *)

AttachmentRight(attach, steps) ==
    \/ Plain(attach, {"step"}, {}) /\ attach.step \in steps
    \/ Plain(attach, {"from", "to"}, {}) /\ {attach.from, attach.to} \subseteq steps /\ attach.from # attach.to

\* The workers whose output the guardrail judges.
Producing(file, attach) ==
    LET at == {attach[end] : end \in DOMAIN attach}
    IN  UNION {ToSet(step.workers) : step \in {s \in ToSet(Steps(file)) : s.id \in at}}

\* The parameters each kind takes beside its expectation item.
Parameters == [k \in {"evidence-present", "mandatory-answer", "human-attestation", "pixel-diff", "model-rubric"} |->
    CASE k = "evidence-present" -> {"evidenceKind"}
      [] k = "pixel-diff" -> {"capture", "exact"}
      [] k = "model-rubric" -> {"evaluatorProfile"}
      [] OTHER -> {"authority"}]

\* An authority is the user's, an attestation names it; an absolute pixel diff
\* is exact under a pinned capture; the judge of a rubric is registered and
\* none of those it judges.
ParametersRight(file, g) ==
    IF g.kind = "verification"
    THEN /\ Shaped(g.parameters, {"checks"}, {})
         /\ g.parameters.checks # <<>> /\ Picks(g.parameters.checks, Names(Verify(file)))
    ELSE /\ Plain(g.parameters, {"expectationItem"}, Parameters[g.kind])
         /\ g.parameters.expectationItem \in Expectations
         /\ Given(g.parameters, "authority", "user") = "user"
         /\ g.kind = "human-attestation" => Has(g.parameters, "authority")
         /\ g.kind = "pixel-diff" /\ g.enforcement = "absolute" =>
                Has(g.parameters, "capture") /\ Given(g.parameters, "exact", FALSE)
         /\ g.kind = "model-rubric" =>
                /\ g.enforcement # "absolute" /\ Has(g.parameters, "evaluatorProfile")
                /\ g.parameters.evaluatorProfile \in Rubrics \ (Selectors \cup Producing(file, g.attach))

CorrectionRight(c) ==
    /\ Shaped(c, {}, {"maxRuns", "onExhausted"})
    /\ Given(c, "maxRuns", 2) \in 0..5
    /\ Given(c, "onExhausted", "waiting-for-human") \in {"waiting-for-human", "blocked"}

GuardrailRight(file, g) ==
    /\ Shaped(g, {"id", "kind", "attach", "enforcement", "parameters"}, {"allowOverride", "correction"})
    /\ g.id \notin {Malformed, LegacyGuardrail}
    /\ g.kind = "verification" \/ g.kind \in DOMAIN Parameters
    /\ AttachmentRight(g.attach, Ids(Steps(file)))
    /\ g.enforcement \in {"advisory", "required", "absolute"}
    /\ Given(g, "allowOverride", FALSE) \in BOOLEAN
    /\ Given(g, "allowOverride", FALSE) => g.enforcement = "required"
    /\ ParametersRight(file, g)
    /\ Has(g, "correction") => CorrectionRight(g.correction)

\* One guardrail to an attachment.
GuardrailsRight(file, standalone) ==
    Has(file, "guardrails") =>
        /\ file.version = SchemaVersion /\ standalone
        /\ Entries(file.guardrails, LAMBDA g : GuardrailRight(file, g), LAMBDA g : g.id)
        /\ Entries(file.guardrails, LAMBDA g : TRUE, LAMBDA g : g.attach)

-----------------------------------------------------------------------------
\* parseDeclaration: a shared file stands on its own, a local one does not.
Accepted(file, standalone) ==
    /\ file # Malformed /\ DOMAIN file \subseteq TopLevel
    /\ Has(file, "version") /\ file.version \in Versions
    /\ IdentityRight(file, standalone) /\ AgentsRight(file) /\ SetupRight(file)
    /\ VerifyRight(file) /\ IntegrationRight(file, standalone) /\ ContextRight(file)
    /\ RoutingRight(file, standalone)
    /\ GuardrailsRight(file, standalone)
==============================================================================
