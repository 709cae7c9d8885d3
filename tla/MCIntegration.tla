---------------------------- MODULE MCIntegration ----------------------------
EXTENDS Integration

Item(id, kind, enforcement, allow, user) ==
    [id |-> id, kind |-> kind, enforcement |-> enforcement, allowOverride |-> allow, user |-> user]
Policy(items, allow, verify) ==
    [readable |-> TRUE, items |-> items, allowOverride |-> allow, verify |-> verify]

MCPolicies ==
    [checks |-> Policy({Item("test", "verification", "required", TRUE, FALSE),
                         Item("lint", "verification", "advisory", FALSE, FALSE)},
                        TRUE, {"test", "lint"}),
     asks   |-> Policy({Item("why", "mandatory-answer", "required", FALSE, TRUE)}, FALSE, {}),
     shows  |-> Policy({Item("shown", "evidence-present", "required", FALSE, FALSE)}, FALSE, {}),
     signs  |-> Policy({Item("seen", "human-attestation", "absolute", FALSE, TRUE)}, FALSE, {}),
     broken |-> [readable |-> FALSE, items |-> {}, allowOverride |-> FALSE, verify |-> {}]]

Symmetry == Permutations(Calls) \cup Permutations(Trees) \cup Permutations(Words)
=============================================================================
