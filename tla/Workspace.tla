------------------------------ MODULE Workspace ------------------------------
(* From the shared file of a project and the local one beside it to the      *)
(* settings in force (workspace/resolve.ts).  NoFile stands for a file that  *)
(* is not there.  Which file a setting came from and paths that point at     *)
(* nothing only warn, and are left out.                                      *)
EXTENDS Declaration

CONSTANTS NoFile, NoRepository, NoCommand,
          LaneSetup,     \* AWOS_LANE_SETUP, or NoCommand
          SharedFiles, LocalFiles   \* the files the properties below range over

IsThere(file) == file # NoFile

\* The verification checks a shared file makes its policy.
CheckedByGuardrails(shared) ==
    UNION {ToSet(g.parameters.checks) :
              g \in {h \in ToSet(Given(shared, "guardrails", <<>>)) : h.kind = "verification"}}

PolicyChecks(shared) ==
    CheckedByGuardrails(shared) \cup ToSet(Given(Given(shared, "integration", <<>>), "requires", <<>>))

\* validateSharedV3VerificationPolicy: a local list of checks keeps those.
KeepsPolicy(shared, local) ==
    Has(local, "verify") =>
        \A check \in ToSet(Verify(shared)) :
            check.name \in PolicyChecks(shared) => check \in ToSet(local.verify)

\* What a local file may not do to a shared file of version 3.
MayOverride(shared, local) ==
    shared.version = SchemaVersion =>
        /\ local.version # SchemaVersion => ~Has(local, "integration")
        /\ KeepsPolicy(shared, local)

\* Whole settings replace one another: the local file's, else the shared one's.
Setting(shared, local, field, default) ==
    IF IsThere(local) /\ Has(local, field) THEN local[field] ELSE Given(shared, field, default)

NormalizeGuardrail(g) ==
    [id |-> g.id, kind |-> g.kind, attach |-> g.attach, enforcement |-> g.enforcement,
     allowOverride |-> Given(g, "allowOverride", FALSE), parameters |-> g.parameters,
     maxRuns |-> Given(Given(g, "correction", <<>>), "maxRuns", 2),
     onExhausted |-> Given(Given(g, "correction", <<>>), "onExhausted", "waiting-for-human")]

\* normalizeLegacyIntegration: what integration requires is one more guardrail.
Legacy(integration) ==
    LET requires == Given(integration, "requires", <<>>)
    IN  IF requires = <<>> THEN <<>>
        ELSE <<[id |-> LegacyGuardrail, kind |-> "verification",
                attach |-> [from |-> "lane", to |-> "workspace"], enforcement |-> "required",
                allowOverride |-> Given(integration, "allowOverride", FALSE),
                parameters |-> [checks |-> requires], maxRuns |-> 2, onExhausted |-> "waiting-for-human"]>>

\* applyEnvironment fills in a setup command, and only where there is none.
Setup(setup) ==
    LET command == Given(setup, "command", NoCommand)
    IN  IF command = NoCommand THEN LaneSetup ELSE command

Merge(shared, local) ==
    LET Of(field) == Setting(shared, local, field, <<>>)
        declared == Given(shared, "guardrails", <<>>)
    IN  [github |-> Given(Of("repository"), "github", NoRepository),
         agents |-> IF Of("agents") = <<>> THEN AgentIds ELSE ToSet(Of("agents")),
         setup |-> Setup(Of("setup")),
         verify |-> Of("verify"),
         roles |-> Roles(shared), steps |-> Steps(shared), routes |-> Routes(shared),
         guardrails |-> [i \in DOMAIN declared |-> NormalizeGuardrail(declared[i])]
                        \o Legacy(Of("integration"))]

None == [status |-> "none"]
Invalid == [status |-> "invalid"]

\* resolveWorkspace.
Resolve(shared, local) ==
    IF ~IsThere(shared) THEN None
    ELSE IF /\ Accepted(shared, TRUE)
            /\ IsThere(local) => Accepted(local, FALSE) /\ MayOverride(shared, local)
         THEN [status |-> "ok", workspace |-> Merge(shared, local)]
         ELSE Invalid

-----------------------------------------------------------------------------
(* Properties of every pair of files.                                        *)

Resolved == {p \in SharedFiles \X LocalFiles : Resolve(p[1], p[2]).status = "ok"}

\* A guardrail with the commands its checks run.
Enforced(w) ==
    {<<g, IF g.kind # "verification" THEN {} ELSE {c \in ToSet(w.verify) : c.name \in ToSet(g.parameters.checks)}>> :
        g \in ToSet(w.guardrails)}

\* No local file changes what a shared file of version 3 enforces: neither the
\* guardrails, nor the commands they run, nor who may do which step.
LocalCannotWeaken ==
    \A p \in Resolved :
        LET w == Resolve(p[1], p[2]).workspace
            alone == Resolve(p[1], NoFile).workspace
        IN  p[1].version = SchemaVersion =>
                Enforced(w) = Enforced(alone) /\ w.steps = alone.steps /\ w.routes = alone.routes
==============================================================================
