-------------------------- MODULE MCPolicyDecisions --------------------------
(* A three-level tree, one user holding a role, and one tag. *)
EXTENDS PolicyDecisions, TLC

CONSTANTS db, sc, tb, d, tag, u, ro, f

MCParent == db :> NoParent @@ sc :> db @@ tb :> sc
MCKind == db :> "database" @@ sc :> "schema" @@ tb :> "relational_table"
MCDatasourceOf == [r \in Resource |-> d]

Rule(s, x, e, dec) == [subject |-> s, scope |-> x, effect |-> e, decrypt |-> dec]

MCPolicyRows ==
    { Rule(Everyone, Global, "allow", TRUE), Rule(u, tag, "allow", TRUE),
      Rule(ro, sc, "deny", FALSE), Rule(ro, tb, "allow", FALSE),
      Rule(u, d, "deny", TRUE), Rule(Everyone, db, "other", FALSE) }

\* A catalog with a tagged table and no rules.
Bare ==
    [ policies |-> {}, tagRows |-> {[id |-> 1, resource |-> tb, tag |-> tag]},
      fieldPolicies |-> {}, masks |-> {}, status |-> [x \in Thing |-> "active"],
      userRoles |-> u :> {ro}, keys |-> User ]

\* One column, and rules on it for the user, a role and everyone.
ColumnRule(s, e) == [subject |-> s, resource |-> tb, field |-> f, effect |-> e]
MCColumnRows ==
    { ColumnRule(Everyone, "allow"), ColumnRule(u, "deny"), ColumnRule(ro, "allow"),
      ColumnRule(u, "other"), ColumnRule(ro, "deny") }

\* Two masks on it.
Masked(s) == [subject |-> s, resource |-> tb, field |-> f, strategy |-> "plain"]
MCMaskRows == {Masked(u), Masked(ro)}

\* One rule, or all but one, of either kind: two edits lead to every other number.
Starts(rows) == {rules \in SUBSET rows : Cardinality(rules) \in {1, Cardinality(rows) - 1}}
MCSeeds ==
    {[Bare EXCEPT !.policies = rules] : rules \in Starts(MCPolicyRows)}
      \cup {[Bare EXCEPT !.fieldPolicies = rules] : rules \in Starts(MCColumnRows)}

\* The catalog before its first rule.
BareSeeds == {Bare}

AdminSymmetry == Permutations(Admin)
=============================================================================
