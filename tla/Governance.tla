----------------------------- MODULE Governance -----------------------------
(***************************************************************************)
(* The control-plane rows a runtime request reads, and the admin           *)
(* endpoints (adg/admin_api) that change them.  Every endpoint is one      *)
(* transaction, except the tag binding, whose check and insert are not     *)
(* protected by a constraint and are two steps of an admin session.        *)
(*                                                                         *)
(* Two rows of one table with equal columns are one member of its set.     *)
(***************************************************************************)
EXTENDS RuntimePolicy, FiniteSets

CONSTANTS
    Field,
    Admin,          \* concurrent admin sessions that bind tags
    Idle,           \* an admin session with no binding under way
    PolicyRows,     \* resource policies, field policies and masking policies
    FieldPolicyRows,\*   the admins of this instance may write
    MaskRows,
    Seeds,          \* control-plane contents the instance starts from
    MaxEdits        \* bound on the number of committed admin edits

Strategy == {"plain", "reversible", "unsupported"}
    \* "plain" is fixed, partial or hash; strategy is a free string in the API,
    \* so that a policy whose strategy no code implements can be stored.
Mask     == [subject : Subject, resource : Resource, field : Field, strategy : Strategy]

\* Everything that has a status column, with "absent" for a row not there.
Thing  == Resource \cup Datasource \cup User \cup Role \cup Tag \cup (Resource \X Field)
Status == {"active", "disabled", "absent"}

ControlPlane ==
    [ policies      : SUBSET ResourcePolicy,
      tagRows       : SUBSET ResourceTag,
      fieldPolicies : SUBSET FieldPolicy(Field),
      masks         : SUBSET Mask,
      status        : [Thing -> Status],
      userRoles     : [User -> SUBSET Role],
      keys          : SUBSET User ]   \* users whose presented API key is active

ASSUME RowsAreRows ==
    /\ PolicyRows \subseteq ResourcePolicy
    /\ FieldPolicyRows \subseteq FieldPolicy(Field)
    /\ MaskRows \subseteq Mask
    /\ Seeds \subseteq ControlPlane
    /\ Idle \notin Resource \X Tag
    /\ MaxEdits \in Nat

VARIABLES
    gov,      \* the committed control-plane rows
    binding,  \* [Admin -> {Idle} \cup (Resource \X Tag)], a checked, not yet inserted row
    edits     \* number of committed edits, bounded by MaxEdits

govVars == <<gov, binding, edits>>

Present(g, x)  == g.status[x] # "absent"
LiveResources(g) == {r \in Resource : Present(g, r)}
ActiveRoles(g, u) == {ro \in g.userRoles[u] : g.status[ro] = "active"}
MasksOn(g, resources, user, roles) ==
    {m \in g.masks : m.resource \in resources /\ SubjectMatches(m, user, roles)}

InitGovernance ==
    /\ gov \in Seeds
    /\ binding = [a \in Admin |-> Idle]
    /\ edits = 0

Commit(g) ==
    /\ edits < MaxEdits
    /\ gov' = g
    /\ edits' = edits + 1

Edit(g) == Commit(g) /\ UNCHANGED binding

-----------------------------------------------------------------------------
\* _validate_resource_policy_scope
ValidScope(scope) == scope # Global => Present(gov, scope)

\* One policy, or one per target (a batch names its targets) with common columns.
ValidBatch(batch) ==
    /\ batch # {}
    /\ \A p, q \in batch : [p EXCEPT !.scope = Global] = [q EXCEPT !.scope = Global]
    /\ (\E p \in batch : batch = {p}) \/ \A p \in batch : p.scope # Global
    /\ \A p \in batch : ValidScope(p.scope)

create_resource_policies(batch) ==
    /\ ValidBatch(batch)
    /\ Edit([gov EXCEPT !.policies = @ \cup batch])

update_resource_policy(old, new) ==
    /\ old \in gov.policies /\ old # new
    /\ new.scope # old.scope => ValidScope(new.scope)
    /\ Edit([gov EXCEPT !.policies = (@ \ {old}) \cup {new}])

delete_resource_policy(p) ==
    /\ p \in gov.policies
    /\ Edit([gov EXCEPT !.policies = @ \ {p}])

\* The console edits all policies of one subject as a group.
SubjectGroup(s) == {p \in gov.policies : p.subject = s}

\* The new rows replace the group, whatever its effects were; rows without a
\* scope are not among the targets and are lost.
sync_resource_policy_subject_group(s, batch) ==
    /\ SubjectGroup(s) # {}
    /\ ValidBatch(batch) /\ \A p \in batch : p.scope # Global
    /\ Edit([gov EXCEPT !.policies = (@ \ SubjectGroup(s)) \cup batch])

\* Columns and targets the payload omits: those of the first row, and the
\* scopes of all rows.
KeptColumns(s, first) ==
    {[first EXCEPT !.scope = x] : x \in {p.scope : p \in SubjectGroup(s)} \ {Global}}

delete_subject_group(s) ==
    /\ SubjectGroup(s) # {}
    /\ Edit([gov EXCEPT !.policies = @ \ SubjectGroup(s)])

create_field_policy(p) ==
    /\ Present(gov, p.resource)
    /\ Edit([gov EXCEPT !.fieldPolicies = @ \cup {p}])

update_field_policy(old, new) ==
    /\ old \in gov.fieldPolicies /\ old # new
    /\ new.resource # old.resource => Present(gov, new.resource)
    /\ Edit([gov EXCEPT !.fieldPolicies = (@ \ {old}) \cup {new}])

delete_field_policy(p) ==
    /\ p \in gov.fieldPolicies
    /\ Edit([gov EXCEPT !.fieldPolicies = @ \ {p}])

create_masking_policy(m) ==
    /\ Present(gov, m.resource)
    /\ Edit([gov EXCEPT !.masks = @ \cup {m}])

update_masking_policy(old, new) ==
    /\ old \in gov.masks /\ old # new
    /\ new.resource # old.resource => Present(gov, new.resource)
    /\ Edit([gov EXCEPT !.masks = (@ \ {old}) \cup {new}])

delete_masking_policy(m) ==
    /\ m \in gov.masks
    /\ Edit([gov EXCEPT !.masks = @ \ {m}])

\* update_resource, update_resource_field, update_datasource and update_role all
\* reduce to this one for the columns that matter here.
update_status(x, st) ==
    /\ Present(gov, x) /\ x \notin Tag \cup User
    /\ st \in {"active", "disabled"} \ {gov.status[x]}
    /\ Edit([gov EXCEPT !.status[x] = st])

\* Rows that hang on the resources rs, with the rows of rs themselves.  Children
\* of a deleted resource stay, and so do policies with a wider scope.
WithoutResources(g, rs) ==
    [g EXCEPT
        !.policies      = {p \in @ : p.scope \notin rs},
        !.tagRows       = {x \in @ : x.resource \notin rs},
        !.fieldPolicies = {p \in @ : p.resource \notin rs},
        !.masks         = {m \in @ : m.resource \notin rs},
        !.status        = [x \in Thing |->
                              IF x \in rs \cup (rs \X Field) THEN "absent" ELSE @[x]]]

delete_resource(r) ==
    /\ Present(gov, r)
    /\ Edit(WithoutResources(gov, {r}))

delete_datasource(d) ==
    /\ Present(gov, d)
    /\ LET g == WithoutResources(gov, {r \in LiveResources(gov) : DatasourceOf[r] = d})
       IN  Edit([g EXCEPT !.status[d] = "absent"])

\* The tag's bindings go with it, the policies scoped to it do not.
delete_tag(t) ==
    /\ Present(gov, t)
    /\ Edit([gov EXCEPT !.tagRows = {x \in @ : x.tag # t}, !.status[t] = "absent"])

bind_resource_tag_check(a, r, t) ==
    /\ binding[a] = Idle
    /\ Present(gov, r) /\ Present(gov, t)
    /\ ~\E x \in gov.tagRows : x.resource = r /\ x.tag = t
    /\ binding' = [binding EXCEPT ![a] = <<r, t>>]
    /\ UNCHANGED <<gov, edits>>

bind_resource_tag_insert(a) ==
    /\ binding[a] # Idle
    /\ \E id \in RowId :
        LET row == [id |-> id, resource |-> binding[a][1], tag |-> binding[a][2]]
        IN  row \notin gov.tagRows /\ Commit([gov EXCEPT !.tagRows = @ \cup {row}])
    /\ binding' = [binding EXCEPT ![a] = Idle]

unbind_resource_tag(r, t) ==
    /\ t \in TagsOf(gov.tagRows, r)
    /\ Edit([gov EXCEPT !.tagRows = {x \in @ : <<x.resource, x.tag>> # <<r, t>>}])

\* The runtime keys of a user that is disabled stay as they are.
update_user(u, st, roles) ==
    /\ Present(gov, u) /\ st # "absent"
    /\ <<st, roles>> # <<gov.status[u], gov.userRoles[u]>>
    /\ roles # gov.userRoles[u] => \A ro \in roles : Present(gov, ro)
    /\ Edit([gov EXCEPT !.status[u] = st, !.userRoles[u] = roles])

delete_user(u) ==
    /\ Present(gov, u)
    /\ Edit([gov EXCEPT !.userRoles[u] = {}, !.keys = @ \ {u}, !.status[u] = "absent"])

delete_role(ro) ==
    /\ Present(gov, ro)
    /\ \A u \in User : ro \notin gov.userRoles[u]
    /\ Edit([gov EXCEPT !.status[ro] = "absent"])

\* revoke_api_key, and reset_user_key for the key that was presented.
revoke_api_key(u) ==
    /\ u \in gov.keys
    /\ Edit([gov EXCEPT !.keys = @ \ {u}])

-----------------------------------------------------------------------------
EditPolicies ==
    \/ \E batch \in SUBSET PolicyRows : create_resource_policies(batch)
    \/ \E old \in gov.policies, new \in PolicyRows : update_resource_policy(old, new)
    \/ \E p \in gov.policies : delete_resource_policy(p)
    \/ \E s \in Subject, batch \in SUBSET PolicyRows :
          sync_resource_policy_subject_group(s, batch)
    \/ \E s \in Subject, first \in gov.policies :
          /\ first.subject = s
          /\ sync_resource_policy_subject_group(s, KeptColumns(s, first))
    \/ \E s \in Subject : delete_subject_group(s)
    \/ \E p \in FieldPolicyRows : create_field_policy(p)
    \/ \E old \in gov.fieldPolicies, new \in FieldPolicyRows : update_field_policy(old, new)
    \/ \E p \in gov.fieldPolicies : delete_field_policy(p)
    \/ \E m \in MaskRows : create_masking_policy(m)
    \/ \E old \in gov.masks, new \in MaskRows : update_masking_policy(old, new)
    \/ \E m \in gov.masks : delete_masking_policy(m)

EditCatalog ==
    \/ \E x \in Thing, st \in Status : update_status(x, st)
    \/ \E r \in Resource : delete_resource(r)
    \/ \E d \in Datasource : delete_datasource(d)
    \/ \E t \in Tag : delete_tag(t)
    \/ \E a \in Admin, r \in Resource, t \in Tag : bind_resource_tag_check(a, r, t)
    \/ \E a \in Admin : bind_resource_tag_insert(a)
    \/ \E r \in Resource, t \in Tag : unbind_resource_tag(r, t)

EditDirectory ==
    \/ \E u \in User, st \in Status, roles \in SUBSET Role : update_user(u, st, roles)
    \/ \E u \in User : delete_user(u)
    \/ \E ro \in Role : delete_role(ro)
    \/ \E u \in User : revoke_api_key(u)

AdminStep == EditPolicies \/ EditCatalog \/ EditDirectory

GovernanceSpec == InitGovernance /\ [][AdminStep]_govVars

\* All rows are of their tables, and an admin session holds at most one pair.
GovernanceTypeOK ==
    /\ gov \in ControlPlane
    /\ binding \in [Admin -> {Idle} \cup (Resource \X Tag)]
    /\ edits \in 0..MaxEdits
=============================================================================
