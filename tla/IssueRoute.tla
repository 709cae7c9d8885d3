------------------------------ MODULE IssueRoute ------------------------------
(* What may be done about one issue: work/issue-route.ts, the rows and the    *)
(* detail the overview offers (work/project-overview.ts, project-issue.ts),   *)
(* and what prepareIssue of orchestrator.ts answers when nothing else goes on.*)
EXTENDS Workspace

CONSTANTS Nothing

\* An issue: its labels, whether it is open, its revision.  A catalog: the
\* open issue, or Nothing, and whether the last refresh got it.

Matches(match, labels) ==
    /\ Labelled(match, "allLabels") \subseteq labels
    /\ Labelled(match, "anyLabels") = {} \/ Labelled(match, "anyLabels") \cap labels # {}
    /\ Labelled(match, "noneLabels") \cap labels = {}

Matching(resolution, labels) == {r \in ToSet(resolution.workspace.routes) : Matches(r.match, labels)}

\* The step of the one route that matches.
StepFor(resolution, labels) ==
    ById(resolution.workspace.steps, (CHOOSE r \in Matching(resolution, labels) : TRUE).step)

\* workspaceRoleSelection: the saved role against those declared.
RoleSelection(resolution, saved) ==
    IF resolution.status # "ok" \/ resolution.workspace.roles = <<>> THEN [status |-> "unconfigured", role |-> Nothing]
    ELSE IF saved = Nothing THEN [status |-> "needs-selection", role |-> Nothing]
    ELSE [status |-> IF saved \in Ids(resolution.workspace.roles) THEN "selected" ELSE "stale", role |-> saved]

\* projectHealth of worker-health.ts: a worker at work is there whatever a
\* probe said, an unsupported one is not, and an old answer is none.
Health(w) ==
    IF ~w.supported THEN "not-checked"
    ELSE IF w.busy THEN "busy"
    ELSE IF w.seen = Nothing THEN "not-checked"
    ELSE IF w.old THEN "stale" ELSE w.seen

Dispatchable(workers) == {p \in DOMAIN workers : Health(workers[p]) \in {"reachable", "busy"}}

\* projectIssueRoute: the reason an issue is available, or the first why not.
Reason(resolution, labels, current, selection, usable) ==
    IF resolution.status # "ok" THEN "invalid-workspace"
    ELSE IF Matching(resolution, labels) = {} THEN "not-routed"
    ELSE IF Cardinality(Matching(resolution, labels)) > 1 THEN "conflicted-route"
    ELSE IF ~current THEN "refresh-required"
    ELSE LET step == StepFor(resolution, labels)
         IN  IF selection.status # "selected" THEN "role-required"
             ELSE IF selection.role # step.role THEN "role-mismatch"
             ELSE IF ToSet(step.workers) \cap usable = {} THEN "worker-unavailable"
             ELSE "available"

Offer(reason) == IF reason = "available" THEN "take" ELSE "none"

\* projectItem: a linked thread is continued, whatever the issue has become.
RowAction(resolution, issue, linked, current, selection, usable) ==
    IF linked THEN "continue"
    ELSE IF ~issue.open THEN "none"
    ELSE Offer(Reason(resolution, issue.labels, current, selection, usable))

RoutingClosed(fetched, listed) == fetched # Nothing /\ listed # Nothing /\ fetched.open # listed.open

\* fetchedRoutingIdentityChanged: what GitHub says now against the catalog.
RoutingChanged(fetched, listed) == fetched # Nothing /\ listed # Nothing /\ fetched # listed

\* projectAction of the detail.  The issue is what was fetched, the work
\* item's snapshot when that failed, or the catalog's.
DetailAction(resolution, fetched, listed, item, failed, current, linked, selection, usable) ==
    LET fallback == item # Nothing /\ fetched = Nothing /\ (failed \/ ~current)
        issue == IF fetched # Nothing THEN fetched
                 ELSE IF fallback \/ listed = Nothing THEN item ELSE listed
    IN  IF item # Nothing /\ linked THEN "continue"
        ELSE IF RoutingChanged(fetched, listed) \/ ~issue.open THEN "none"
        ELSE Offer(Reason(resolution, issue.labels, current /\ ~fallback, selection, usable))

\* #projectionRefusal: every reason but one is a refusal of its own kind.
Refused(reason) == reason # "available"

\* #takeIssue without interruption: the catalog's issue is available, and the
\* issue as GitHub has it is open and takes the same route.
Takes(resolution, catalog, host, selection, usable) ==
    /\ resolution.status = "ok" /\ resolution.workspace.github # NoRepository
    /\ catalog.current /\ catalog.issue # Nothing
    /\ ~Refused(Reason(resolution, catalog.issue.labels, TRUE, selection, usable))
    /\ host.open
    /\ Matching(resolution, host.labels) = Matching(resolution, catalog.issue.labels)

\* prepareIssue from a directory: a linked thread first.
Prepare(resolution, catalog, host, linked, selection, usable) ==
    IF linked THEN "continue"
    ELSE IF Takes(resolution, catalog, host, selection, usable) THEN "take"
    ELSE "none"

-----------------------------------------------------------------------------
\* Settings in force refer only to what is in force with them: a route to a
\* step, a step to a role and to workers that exist, a guardrail to steps, and
\* to checks, unless the shared file is older than guardrails; and every route
\* is one that some issue takes.
EffectiveIsClosed ==
    \A p \in Resolved :
        LET w == Resolve(p[1], p[2]).workspace
        IN  /\ \A r \in ToSet(w.routes) : 
                  /\ r.step \in Ids(w.steps)
                  /\ \E labels \in SUBSET UNION {ToSet(r.match[which]) : which \in DOMAIN r.match} : Matches(r.match, labels)
            /\ \A s \in ToSet(w.steps) :
                  s.role \in Ids(w.roles) /\ s.workers # <<>> /\ ToSet(s.workers) \subseteq Profiles
            /\ \A g \in ToSet(w.guardrails) :
                  /\ g.id = LegacyGuardrail \/ {g.attach[end] : end \in DOMAIN g.attach} \subseteq Ids(w.steps)
                  /\ g.kind = "verification" /\ p[1].version = SchemaVersion =>
                        ToSet(g.parameters.checks) \subseteq Names(w.verify)
            /\ Cardinality(Ids(w.guardrails)) = Len(w.guardrails)
===============================================================================
