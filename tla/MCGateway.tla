------------------------------ MODULE MCGateway ------------------------------
(* One schema with two tables of one column, and one user holding a role. *)
EXTENDS GatewayProperties, TLC

CONSTANTS sc, ta, tb, d, tag, u, ro, f, F, q, old

MCParent == [r \in Resource |-> IF r = sc THEN NoParent ELSE sc]
MCKind == [r \in Resource |-> CASE r = sc -> "schema" [] r = ta -> "relational_table" [] OTHER -> "relational_view"]
\* F is f in capitals.
MCColumnOf == [name \in Spelling |-> f]
MCDatasourceOf == [r \in Resource |-> d]

Rule(s, x, e, dec) == [subject |-> s, scope |-> x, effect |-> e, decrypt |-> dec]
ColumnRule(s, e) == [subject |-> s, resource |-> ta, field |-> f, effect |-> e]
ColumnMask(s, how) == [subject |-> s, resource |-> ta, field |-> f, strategy |-> how]

AllowAll == Rule(Everyone, Global, "allow", TRUE)
DenyTable == Rule(u, ta, "deny", FALSE)
AllowSchema == Rule(ro, sc, "allow", FALSE)
DenyTagged == Rule(Everyone, tag, "deny", FALSE)

MCPolicyRows == {AllowAll, DenyTable, AllowSchema, DenyTagged}
MCFieldPolicyRows == {ColumnRule(u, "deny"), ColumnRule(ro, "allow")}
MCMaskRows == {ColumnMask(Everyone, "reversible"), ColumnMask(ro, "plain"),
               ColumnMask(Everyone, "unsupported")}

Content(rules, bound, columnRules, masks) ==
    [ policies |-> rules,
      tagRows |-> IF bound THEN {[id |-> 1, resource |-> ta, tag |-> tag]} ELSE {},
      fieldPolicies |-> columnRules, masks |-> masks,
      status |-> [x \in Thing |-> IF x = <<sc, f>> THEN "absent" ELSE "active"],
      userRoles |-> [x \in User |-> IF x = u THEN {ro} ELSE {}], keys |-> User ]

MCSeeds ==
    { Content({AllowSchema, DenyTagged}, TRUE, {}, {ColumnMask(Everyone, "reversible")}),
      Content({AllowAll, DenyTable}, FALSE, {ColumnRule(ro, "allow")}, {ColumnMask(ro, "plain")}),
      Content({AllowAll, DenyTagged}, FALSE, {}, {ColumnMask(Everyone, "reversible")}),
      [Content({AllowAll}, FALSE, {ColumnRule(u, "deny")}, {}) EXCEPT !.status[<<ta, f>>] = "disabled"],
      [Content({AllowAll}, TRUE, {}, {}) EXCEPT !.status[sc] = "disabled"] }

Query(declared, touched, shape) ==
    [ kind |-> "query", user |-> u, ds |-> d, declared |-> declared, touched |-> touched,
      fields |-> IF shape = "wildcard" THEN {} ELSE {f}, shape |-> shape, limitOk |-> TRUE,
      markers |-> {} ]
On(kind, r) == [Query({r}, {r}, "columns") EXCEPT !.kind = kind]

MCCalls ==
    { Query({ta}, {ta}, "columns"), Query({ta, tb}, {ta, tb}, "columns"),
      Query({ta}, {ta}, "wildcard"), Query({ta}, {ta}, "unaliased"),
      [Query({ta}, {ta}, "columns") EXCEPT !.fields = {F}],
      Query({tb}, {ta}, "columns"), Query({ta}, {ta}, "forbidden"),
      [Query({ta}, {ta}, "nested") EXCEPT !.limitOk = FALSE],
      Query({}, {}, "columns"),
      On("preview", ta), On("describe", ta), [On("list", ta) EXCEPT !.declared = {}],
      [On("decrypt", ta) EXCEPT !.markers = {old}] }

\* One query on contents that allow it, mask it or deny it.
QuerySeeds ==
    { Content({AllowAll}, FALSE, {}, {}),
      Content({AllowSchema, DenyTagged}, TRUE, {}, {}),
      Content({AllowAll}, FALSE, {}, {ColumnMask(Everyone, "reversible")}) }
QueryCalls == {Query({ta}, {ta}, "columns")}

MCSeedContexts ==
    old :> [user |-> u, resources |-> {ta}, expires |-> 1] @@ q :> NoContext
=============================================================================
