--------------------------- MODULE PolicyDecisions ---------------------------
(***************************************************************************)
(* What the decisions of RuntimePolicy promise to the administrators whose *)
(* edits are the steps of Governance: two read paths that agree, and       *)
(* edits whose effect on access goes one way only.                         *)
(***************************************************************************)
EXTENDS Governance

\* The verdict of the single-resource path on the committed rows.
ReadNow(g, u, r) ==
    check_resource_access(g.policies, u, ActiveRoles(g, u), r,
                          ScopeChain(r, LiveResources(g)), g.tagRows)

DecryptNow(g, u, r) ==
    check_decrypt_access(g.policies, u, ActiveRoles(g, u), r,
                         ScopeChain(r, LiveResources(g)), g.tagRows)

\* The verdicts of the batch path on the committed rows.
BatchNow(g, u) ==
    check_resource_access_batch(g.policies, u, ActiveRoles(g, u), LiveResources(g),
                                LiveResources(g), g.tagRows)

Readable(g, u) == {r \in LiveResources(g) : Allowed(BatchNow(g, u)[r])}

\* Two contents that differ at most in their resource policies.
OnlyPoliciesDiffer(g, h) == h = [g EXCEPT !.policies = h.policies]

\* list_resources (batch path) shows exactly what describe, preview and query
\* (single path) accept, whatever the rows, unless the single path raises on a
\* pair that two racing admins bound twice.
BatchMatchesSingle ==
    \A u \in User : \A r \in LiveResources(gov) :
        ReadNow(gov, u, r) \in {"error", BatchNow(gov, u)[r]}

\* allow_decrypt widens nothing: whoever may decrypt a resource may read it.
DecryptImpliesRead ==
    \A u \in User : \A r \in LiveResources(gov) :
        Allowed(DecryptNow(gov, u, r)) => Allowed(ReadNow(gov, u, r))

NothingGranted == \A u \in User : Readable(gov', u) \subseteq Readable(gov, u)

\* Adding deny rules, at any scope and level, makes nothing readable.
DenyNeverGrants ==
    [][ /\ OnlyPoliciesDiffer(gov, gov')
        /\ gov.policies \subseteq gov'.policies
        /\ ~Has(gov'.policies \ gov.policies, "allow")
        => NothingGranted ]_govVars

\* Removing allow rules makes nothing readable either, although it may uncover
\* rules of a coarser scope that had no say before.
RevokingAllowNeverGrants ==
    [][ /\ OnlyPoliciesDiffer(gov, gov')
        /\ gov'.policies \subseteq gov.policies
        /\ \A p \in gov.policies \ gov'.policies : p.effect = "allow"
        => NothingGranted ]_govVars

\* The rules that apply to (u, r), those a step changes, and that one of the
\* former is more specific than all of the latter.
RulesFor(g, u, r) ==
    Applicable(g.policies, u, ActiveRoles(g, u), r,
               ScopeChain(r, LiveResources(g)), TagsOf(g.tagRows, r))
ChangedRules == (gov.policies \ gov'.policies) \cup (gov'.policies \ gov.policies)
Shielded(u, r) ==
    \E p \in RulesFor(gov, u, r) : \A q \in ChangedRules : Level(q.scope) < Level(p.scope)

\* A rule written for one table or subtree is final there: no change of rules
\* that are less specific than one that applies to (u, r) moves the verdict.
SpecificRuleShields ==
    [][ OnlyPoliciesDiffer(gov, gov') =>
        \A u \in User : \A r \in LiveResources(gov) :
            Shielded(u, r) => BatchNow(gov', u)[r] = BatchNow(gov, u)[r] ]_govVars

\* The columns the field policies leave to u.
OpenColumns(g, u) ==
    {c \in Resource \X Field :
        FieldReadable(FieldPoliciesOn(g.fieldPolicies, c[1], c[2]), u, ActiveRoles(g, u))}

\* The rules of a set that are on column c and for u in g.
ColumnRules(rules, g, u, c) ==
    {p \in FieldPoliciesOn(rules, c[1], c[2]) : SubjectMatches(p, u, ActiveRoles(g, u))}

\* Field policies turn a column from open to allow-listed, so that removing one
\* can open it.  An edit that leaves the caller's roles alone opens a column only
\* by allowing it, by lifting a denial, or by taking its last rule away: edits of
\* rules for others never do.
ColumnsOpenForCause ==
    [][ \A u \in User : ActiveRoles(gov', u) = ActiveRoles(gov, u) =>
          \A c \in OpenColumns(gov', u) \ OpenColumns(gov, u) :
              \/ FieldPoliciesOn(gov'.fieldPolicies, c[1], c[2]) = {}
              \/ Has(ColumnRules(gov'.fieldPolicies \ gov.fieldPolicies, gov, u, c), "allow")
              \/ Has(ColumnRules(gov.fieldPolicies \ gov'.fieldPolicies, gov, u, c), "deny") ]_govVars

\* What docs/superpowers/specs/2026-04-23-ai-data-access-gateway-v1-design.md
\* says of levels: "Upper-level denial cannot be overridden by lower-level allow
\* rules", where levels go from the datasource down to the table.
UpperDenialHolds ==
    \A u \in User : \A r \in Readable(gov, u) :
        ~\E p \in gov.policies :
            /\ p.effect = "deny" /\ p.scope \in Datasource \cup Resource
            /\ SubjectMatches(p, u, ActiveRoles(gov, u))
            /\ InScope(p, r, ScopeChain(r, LiveResources(gov)), {})
=============================================================================
