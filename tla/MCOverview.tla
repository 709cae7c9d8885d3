------------------------------ MODULE MCOverview ------------------------------
(* Overview for TLC: the workspace is "routed" by labels, "swapped" (each     *)
(* label to the other role's step), "moved" to another repository, or         *)
(* "broken" by a local file that removes a check the policy needs.            *)
EXTENDS Overview, MCWorkspace

Required == <<Guardrail("g", "verification", OnBuild, "required", [checks |-> <<"test">>])>>
Project == [guardrails |-> Required] @@ Routed(3)
Swapped == [routes |-> <<Route("a", [allLabels |-> <<"l1">>], "review"), Route("b", [allLabels |-> <<"l2">>], "build")>>] @@ Project
MCDecls ==
    "routed"  :> [shared |-> Project, local |-> NoFile] @@
    "swapped" :> [shared |-> Swapped, local |-> NoFile] @@
    "moved"   :> [shared |-> Project, local |-> [version |-> 3, repository |-> [github |-> "owner/other"]]] @@
    "broken"  :> [shared |-> Project, local |-> [version |-> 3, verify |-> <<>>]]

MCIssues == {[labels |-> {"l1"}, open |-> TRUE], [labels |-> {"l2"}, open |-> TRUE], [labels |-> {"l1"}, open |-> FALSE]}

Worker(supported, busy, seen, old) == [supported |-> supported, busy |-> busy, seen |-> seen, old |-> old]
Reached == Worker(TRUE, FALSE, "reachable", FALSE)
MCWorkers ==
    {[p \in Profiles |-> Reached],
     "claude" :> Worker(TRUE, FALSE, "reachable", TRUE) @@ "codex" :> Worker(TRUE, TRUE, Nothing, FALSE) @@
     "extra" :> Worker(FALSE, FALSE, "reachable", FALSE)}
===============================================================================
