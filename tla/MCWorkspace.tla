----------------------------- MODULE MCWorkspace -----------------------------
(* Files for Workspace: families that each vary one part of a sound file.    *)
EXTENDS Workspace

Check(name, command) == [name |-> name, command |-> command]
Test == Check("test", "t")
Lint == Check("lint", "l")
Role(id) == [id |-> id, label |-> "a role"]
Step(id, role, workers) == [id |-> id, action |-> "an action", role |-> role, workers |-> workers]
Build == Step("build", "dev", <<"claude">>)
Review == Step("review", "qa", <<"codex", "claude">>)
Route(id, match, step) == [id |-> id, match |-> match, step |-> step]

Sound(version) ==
    [version |-> version, name |-> "project", repository |-> [github |-> "owner/project"],
     verify |-> <<Test, Lint>>]
Routed(version) ==
    Sound(version) @@ [roles |-> <<Role("dev"), Role("qa")>>, steps |-> <<Build, Review>>,
                       routes |-> <<Route("a", [allLabels |-> <<"l1">>], "build"),
                                    Route("b", [anyLabels |-> <<"l2">>, noneLabels |-> <<"l1">>], "review")>>]

\* Functions to these from some of their domain.
Partial(domain, set) == UNION {[d -> set] : d \in SUBSET domain}

Lists == {<<>>, <<"l1">>, <<"l2">>, <<"l1", "l2">>, <<"l1", "l1">>, Malformed}
Matchers == Partial({"allLabels", "anyLabels", "noneLabels"}, Lists) \cup {Malformed}
RouteFiles ==
    {[routes |-> <<Route("a", m, "build")>>] @@ Routed(v) : v \in {1, 3}, m \in Matchers} \cup
    {[routes |-> <<Route("a", [allLabels |-> <<"l1">>], s), Route(id, [anyLabels |-> <<"l2">>], "review")>>] @@ Routed(2) :
        s \in {"build", "unknown"}, id \in {"a", "b"}}

StepFiles ==
    {[steps |-> <<Step("build", role, workers), Review>>] @@ [agents |-> agents] @@ Routed(3) :
        role \in {"dev", "unknown", Malformed},
        workers \in {<<>>, <<"claude">>, <<"claude", "claude">>, <<"extra">>, <<"unknown">>},
        agents \in {<<"claude", "codex">>, <<"codex">>, <<"claude", "codex", "extra">>, <<>>}} \cup
    {[roles |-> <<Role("dev"), Role(r)>>] @@ Routed(3) : r \in {"qa", "dev", Malformed}}

Guardrail(id, kind, attach, enforcement, parameters) ==
    [id |-> id, kind |-> kind, attach |-> attach, enforcement |-> enforcement, parameters |-> parameters]
OnBuild == [step |-> "build"]
Transition == [from |-> "build", to |-> "review"]
GuardrailLists ==
    {<<Guardrail(id, "verification", attach, "required", [checks |-> checks]),
       Guardrail("h", "human-attestation", OnBuild, "absolute", [expectationItem |-> "e", authority |-> "user"])>> :
        id \in {"g", "h", "workspace-integration"},
        attach \in {OnBuild, Transition, [step |-> "unknown"], [from |-> "build", to |-> "build"], Malformed},
        checks \in {<<"test">>, <<"lint", "test">>, <<"unknown">>, <<>>}} \cup
    {<<[allowOverride |-> override] @@ Guardrail("g", "pixel-diff", Transition, e, p @@ [expectationItem |-> item])>> :
        override \in BOOLEAN, e \in {"advisory", "required", "absolute"}, item \in {"e", "unknown"},
        p \in Partial({"exact"}, BOOLEAN) \cup {[exact |-> TRUE, capture |-> c] : c \in {"pinned", Malformed}}} \cup
    {<<[correction |-> [maxRuns |-> n]] @@
       Guardrail("g", "model-rubric", Transition, e, [expectationItem |-> "e", evaluatorProfile |-> p])>> :
        n \in {0, 5, 6}, e \in {"advisory", "absolute"}, p \in {"judge", "gpt", "claude", "unknown"}} \cup
    {<<Guardrail("g", k, OnBuild, "advisory", p @@ [expectationItem |-> "e"])>> :
        k \in {"mandatory-answer", "evidence-present"}, p \in Partial({"authority", "evidenceKind"}, {"user", "diff"})}
Requirements ==
    {<<>>} \cup {[integration |-> [requires |-> r, allowOverride |-> o]] :
                    r \in {<<"test">>, <<"lint">>, <<"unknown">>, <<"test", "test">>}, o \in BOOLEAN}
GuardrailFiles ==
    {[guardrails |-> g] @@ Routed(3) : g \in GuardrailLists} \cup
    {r @@ [guardrails |-> <<Guardrail("g", "verification", OnBuild, "required", [checks |-> <<"test">>])>>] @@ Routed(3) :
        r \in Requirements} \cup
    {r @@ Sound(v) : r \in Requirements, v \in {1, 2, 3}}

OtherFiles ==
    {part @@ Sound(2) : part \in {[version |-> 4], [version |-> Malformed], [name |-> Malformed], [unknown |-> "x"],
        [repository |-> [root |-> Malformed]], [setup |-> [command |-> "s"]], [setup |-> [timeoutMs |-> 1]],
        [context |-> [references |-> <<"a">>]], [context |-> [references |-> <<"a", "b">>]],
        [verify |-> <<Test, Check("test", "u")>>], [verify |-> <<Check("test", Malformed)>>]}} \cup {Malformed, NoFile}

MCSharedFiles == RouteFiles \cup StepFiles \cup GuardrailFiles \cup OtherFiles

MCLocalFiles ==
    {NoFile, Malformed} \cup
    {[version |-> v] @@ verify @@ r :
        v \in {2, 3}, r \in {<<>>, [integration |-> [requires |-> <<"test">>]], [agents |-> <<"codex">>], [steps |-> <<Build>>]},
        verify \in {<<>>} \cup {[verify |-> l] : l \in {<<>>, <<Test>>, <<Check("test", "weaker")>>, <<Check("test", "weaker"), Lint>>, <<Lint, Test>>}}}
==============================================================================
