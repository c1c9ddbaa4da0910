---------------------------- MODULE GatewayProofs ----------------------------
(***************************************************************************)
(* Access decisions, and what a request may reach.                         *)
(*                                                                         *)
(* First the decisions, for every catalog, every set of rules and every    *)
(* sequence of edits.  The facts about resources rest on what the most     *)
(* specific applicable rules are, the one about columns on which rules of  *)
(* the column mention the caller.                                          *)
(*                                                                         *)
(* Then requests, for any number of requests, admins, resources and edits. *)
(* Default deny survives every interleaving: whatever a request serves, a  *)
(* rule in force at some moment of it allowed.  A deny in force all along  *)
(* is never overridden, and what was disabled all along is never read.     *)
(* The invariant follows a request from step to step: what its locals hold *)
(* was committed at some moment of the window, and holds all that was      *)
(* there at every moment; which resources are checked when; and that       *)
(* nothing runs or replies before all of them are.                         *)
(***************************************************************************)
EXTENDS GatewayProperties, PolicyDecisions, TLAPS

-----------------------------------------------------------------------------
(* The types of the control plane. *)

\* What Commit does to the counter of edits.
LEMMA CommitCounts ==
    ASSUME GovernanceTypeOK, NEW g \in ControlPlane, Commit(g)
    PROVE  gov' \in ControlPlane /\ edits' \in 0..MaxEdits
  BY RowsAreRows, SMT DEF GovernanceTypeOK, Commit

\* An Edit keeps the types when its new content is well-typed.
LEMMA EditTyped ==
    ASSUME GovernanceTypeOK, NEW g \in ControlPlane, Edit(g)
    PROVE  GovernanceTypeOK'
  BY CommitCounts DEF Edit, GovernanceTypeOK

\* What is left after the rows of some resources are gone is well-typed.
LEMMA WithoutResourcesTyped ==
    ASSUME NEW g \in ControlPlane, NEW rs
    PROVE  WithoutResources(g, rs) \in ControlPlane
  BY DEF WithoutResources, ControlPlane, Status

\* Writing, changing and deleting rules keeps the types.
LEMMA EditPoliciesTyped ==
    ASSUME GovernanceTypeOK, EditPolicies
    PROVE  GovernanceTypeOK'
  <1> USE RowsAreRows
  <1>1. ASSUME NEW batch \in SUBSET PolicyRows, create_resource_policies(batch)
        PROVE  GovernanceTypeOK'
    <2>1. [gov EXCEPT !.policies = @ \cup batch] \in ControlPlane
      BY DEF GovernanceTypeOK, ControlPlane
    <2> QED BY <1>1, <2>1, EditTyped DEF create_resource_policies
  <1>2. ASSUME NEW old \in gov.policies, NEW new \in PolicyRows, update_resource_policy(old, new)
        PROVE  GovernanceTypeOK'
    <2>1. [gov EXCEPT !.policies = (@ \ {old}) \cup {new}] \in ControlPlane
      BY DEF GovernanceTypeOK, ControlPlane
    <2> QED BY <1>2, <2>1, EditTyped DEF update_resource_policy
  <1>3. ASSUME NEW p \in gov.policies, delete_resource_policy(p)
        PROVE  GovernanceTypeOK'
    <2>1. [gov EXCEPT !.policies = @ \ {p}] \in ControlPlane
      BY DEF GovernanceTypeOK, ControlPlane
    <2> QED BY <1>3, <2>1, EditTyped DEF delete_resource_policy
  <1>4. ASSUME NEW s \in Subject, NEW batch \in SUBSET ResourcePolicy,
               sync_resource_policy_subject_group(s, batch)
        PROVE  GovernanceTypeOK'
    <2>1. [gov EXCEPT !.policies = (@ \ SubjectGroup(s)) \cup batch] \in ControlPlane
      BY DEF GovernanceTypeOK, ControlPlane
    <2> QED BY <1>4, <2>1, EditTyped DEF sync_resource_policy_subject_group
  <1>5. ASSUME NEW s \in Subject, NEW first \in gov.policies
        PROVE  KeptColumns(s, first) \in SUBSET ResourcePolicy
    BY DEF KeptColumns, SubjectGroup, GovernanceTypeOK, ControlPlane, ResourcePolicy
  <1>6. ASSUME NEW s \in Subject, delete_subject_group(s)
        PROVE  GovernanceTypeOK'
    <2>1. [gov EXCEPT !.policies = @ \ SubjectGroup(s)] \in ControlPlane
      BY DEF GovernanceTypeOK, ControlPlane
    <2> QED BY <1>6, <2>1, EditTyped DEF delete_subject_group
  <1>7. ASSUME NEW p \in FieldPolicyRows, create_field_policy(p)
        PROVE  GovernanceTypeOK'
    <2>1. [gov EXCEPT !.fieldPolicies = @ \cup {p}] \in ControlPlane
      BY DEF GovernanceTypeOK, ControlPlane
    <2> QED BY <1>7, <2>1, EditTyped DEF create_field_policy
  <1>8. ASSUME NEW p \in gov.fieldPolicies, delete_field_policy(p)
        PROVE  GovernanceTypeOK'
    <2>1. [gov EXCEPT !.fieldPolicies = @ \ {p}] \in ControlPlane
      BY DEF GovernanceTypeOK, ControlPlane
    <2> QED BY <1>8, <2>1, EditTyped DEF delete_field_policy
  <1>9. ASSUME NEW m \in MaskRows, create_masking_policy(m)
        PROVE  GovernanceTypeOK'
    <2>1. [gov EXCEPT !.masks = @ \cup {m}] \in ControlPlane
      BY DEF GovernanceTypeOK, ControlPlane
    <2> QED BY <1>9, <2>1, EditTyped DEF create_masking_policy
  <1>10. ASSUME NEW old \in gov.masks, NEW new \in MaskRows, update_masking_policy(old, new)
         PROVE  GovernanceTypeOK'
    <2>1. [gov EXCEPT !.masks = (@ \ {old}) \cup {new}] \in ControlPlane
      BY DEF GovernanceTypeOK, ControlPlane
    <2> QED BY <1>10, <2>1, EditTyped DEF update_masking_policy
  <1>11. ASSUME NEW m \in gov.masks, delete_masking_policy(m)
         PROVE  GovernanceTypeOK'
    <2>1. [gov EXCEPT !.masks = @ \ {m}] \in ControlPlane
      BY DEF GovernanceTypeOK, ControlPlane
    <2> QED BY <1>11, <2>1, EditTyped DEF delete_masking_policy
  <1>12. ASSUME NEW old \in gov.fieldPolicies, NEW new \in FieldPolicyRows,
                update_field_policy(old, new)
         PROVE  GovernanceTypeOK'
    <2>1. [gov EXCEPT !.fieldPolicies = (@ \ {old}) \cup {new}] \in ControlPlane
      BY DEF GovernanceTypeOK, ControlPlane
    <2> QED BY <1>12, <2>1, EditTyped DEF update_field_policy
  <1> QED
    BY <1>1, <1>2, <1>3, <1>4, <1>5, <1>6, <1>7, <1>8, <1>9, <1>10, <1>11, <1>12
       DEF EditPolicies

\* Statuses, deletions and tag bindings keep the types.
LEMMA EditCatalogTyped ==
    ASSUME GovernanceTypeOK, EditCatalog
    PROVE  GovernanceTypeOK'
  <1>1. ASSUME NEW x \in Thing, NEW st \in Status, update_status(x, st)
        PROVE  GovernanceTypeOK'
    <2>1. [gov EXCEPT !.status[x] = st] \in ControlPlane
      BY DEF GovernanceTypeOK, ControlPlane
    <2> QED BY <1>1, <2>1, EditTyped DEF update_status
  <1>2. ASSUME NEW r \in Resource, delete_resource(r)
        PROVE  GovernanceTypeOK'
    <2>1. WithoutResources(gov, {r}) \in ControlPlane
      BY WithoutResourcesTyped DEF GovernanceTypeOK
    <2> QED BY <1>2, <2>1, EditTyped DEF delete_resource
  <1>3. ASSUME NEW d \in Datasource, delete_datasource(d)
        PROVE  GovernanceTypeOK'
    <2> DEFINE g == WithoutResources(gov, {r \in LiveResources(gov) : DatasourceOf[r] = d})
    <2>1. g \in ControlPlane
      BY WithoutResourcesTyped DEF GovernanceTypeOK
    <2> HIDE DEF g
    <2>2. [g EXCEPT !.status[d] = "absent"] \in ControlPlane
      BY <2>1 DEF ControlPlane, Status
    <2>3. Edit([g EXCEPT !.status[d] = "absent"])
      BY <1>3 DEF delete_datasource, g
    <2> QED BY <2>2, <2>3, EditTyped
  <1>4. ASSUME NEW t \in Tag, delete_tag(t)
        PROVE  GovernanceTypeOK'
    <2>1. [gov EXCEPT !.tagRows = {x \in @ : x.tag # t}, !.status[t] = "absent"] \in ControlPlane
      BY DEF GovernanceTypeOK, ControlPlane, Status
    <2> QED BY <1>4, <2>1, EditTyped DEF delete_tag
  <1>5. ASSUME NEW a \in Admin, NEW r \in Resource, NEW t \in Tag,
               bind_resource_tag_check(a, r, t)
        PROVE  GovernanceTypeOK'
    BY <1>5 DEF bind_resource_tag_check, GovernanceTypeOK
  <1>6. ASSUME NEW a \in Admin, bind_resource_tag_insert(a)
        PROVE  GovernanceTypeOK'
    <2>1. PICK id \in RowId :
            LET row == [id |-> id, resource |-> binding[a][1], tag |-> binding[a][2]]
            IN  row \notin gov.tagRows /\ Commit([gov EXCEPT !.tagRows = @ \cup {row}])
      BY <1>6 DEF bind_resource_tag_insert
    <2> DEFINE row == [id |-> id, resource |-> binding[a][1], tag |-> binding[a][2]]
    <2>2. binding[a] \in Resource \X Tag
      BY <1>6 DEF bind_resource_tag_insert, GovernanceTypeOK
    <2>3. row \in ResourceTag
      BY <2>2 DEF ResourceTag
    <2> HIDE DEF row
    <2>4. [gov EXCEPT !.tagRows = @ \cup {row}] \in ControlPlane
      BY <2>3 DEF GovernanceTypeOK, ControlPlane
    <2>5. gov' \in ControlPlane /\ edits' \in 0..MaxEdits
      BY <2>1, <2>4, CommitCounts DEF row
    <2> QED BY <1>6, <2>5 DEF bind_resource_tag_insert, GovernanceTypeOK
  <1>7. ASSUME NEW r \in Resource, NEW t \in Tag, unbind_resource_tag(r, t)
        PROVE  GovernanceTypeOK'
    <2>1. [gov EXCEPT !.tagRows = {x \in @ : <<x.resource, x.tag>> # <<r, t>>}] \in ControlPlane
      BY DEF GovernanceTypeOK, ControlPlane
    <2> QED BY <1>7, <2>1, EditTyped DEF unbind_resource_tag
  <1> QED
    BY <1>1, <1>2, <1>3, <1>4, <1>5, <1>6, <1>7 DEF EditCatalog

\* Users, roles and keys keep the types.
LEMMA EditDirectoryTyped ==
    ASSUME GovernanceTypeOK, EditDirectory
    PROVE  GovernanceTypeOK'
  <1>1. ASSUME NEW u \in User, NEW st \in Status, NEW roles \in SUBSET Role,
               update_user(u, st, roles)
        PROVE  GovernanceTypeOK'
    <2>1. [gov EXCEPT !.status[u] = st, !.userRoles[u] = roles] \in ControlPlane
      BY DEF GovernanceTypeOK, ControlPlane
    <2> QED BY <1>1, <2>1, EditTyped DEF update_user
  <1>2. ASSUME NEW u \in User, delete_user(u)
        PROVE  GovernanceTypeOK'
    <2>1. [gov EXCEPT !.userRoles[u] = {}, !.keys = @ \ {u}, !.status[u] = "absent"]
            \in ControlPlane
      BY DEF GovernanceTypeOK, ControlPlane, Status
    <2> QED BY <1>2, <2>1, EditTyped DEF delete_user
  <1>3. ASSUME NEW ro \in Role, delete_role(ro)
        PROVE  GovernanceTypeOK'
    <2>1. [gov EXCEPT !.status[ro] = "absent"] \in ControlPlane
      BY DEF GovernanceTypeOK, ControlPlane, Status
    <2> QED BY <1>3, <2>1, EditTyped DEF delete_role
  <1>4. ASSUME NEW u \in User, revoke_api_key(u)
        PROVE  GovernanceTypeOK'
    <2>1. [gov EXCEPT !.keys = @ \ {u}] \in ControlPlane
      BY DEF GovernanceTypeOK, ControlPlane
    <2> QED BY <1>4, <2>1, EditTyped DEF revoke_api_key
  <1> QED
    BY <1>1, <1>2, <1>3, <1>4 DEF EditDirectory

\* Every committed step of the admin API keeps the types.
LEMMA AdminStepTyped ==
    ASSUME GovernanceTypeOK, AdminStep
    PROVE  GovernanceTypeOK'
  BY EditPoliciesTyped, EditCatalogTyped, EditDirectoryTyped DEF AdminStep

\* The control plane is well-typed for ever: the rows the runtime decides on are
\* rows of their tables, for any instance of the constants.
THEOREM GovernanceTyped == GovernanceSpec => []GovernanceTypeOK
  <1>1. InitGovernance => GovernanceTypeOK
    BY RowsAreRows DEF InitGovernance, GovernanceTypeOK
  <1>2. GovernanceTypeOK /\ [AdminStep]_govVars => GovernanceTypeOK'
    <2>1. ASSUME GovernanceTypeOK, UNCHANGED govVars PROVE GovernanceTypeOK'
      BY <2>1 DEF govVars, GovernanceTypeOK
    <2> QED BY <2>1, AdminStepTyped
  <1> QED BY <1>1, <1>2, PTL DEF GovernanceSpec


-----------------------------------------------------------------------------
(* Levels and the most specific rules. *)

\* Levels are numbers from 0 to 4.
LEMMA LevelBounds == \A x \in Scope : Level(x) \in 0..4
  BY DEF Scope, Level, KindLevel

\* Among some rules there is always a most specific one: levels are bounded.
LEMMA MostSpecificExists ==
    ASSUME NEW rules \in SUBSET ResourcePolicy, rules # {}
    PROVE  MostSpecific(rules) # {}
  <1> DEFINE has(n) == \E p \in rules : Level(p.scope) = n
  <1>1. \A p \in rules : Level(p.scope) \in 0..4
    BY LevelBounds DEF ResourcePolicy
  <1>2. \E n \in 0..4 : has(n) /\ \A m \in 0..4 : has(m) => m <= n
    <2>1. has(0) \/ has(1) \/ has(2) \/ has(3) \/ has(4)
      BY <1>1
    <2> HIDE DEF has
    <2> QED BY <2>1
  <1>3. PICK n \in 0..4 : has(n) /\ \A m \in 0..4 : has(m) => m <= n
    BY <1>2
  <1>4. PICK p \in rules : Level(p.scope) = n
    BY <1>3
  <1>5. \A q \in rules : Level(q.scope) <= Level(p.scope)
    BY <1>1, <1>3, <1>4
  <1> QED BY <1>5 DEF MostSpecific

\* The most specific rules are as specific as each other.
LEMMA SameLevel ==
    ASSUME NEW rules \in SUBSET ResourcePolicy,
           NEW p \in MostSpecific(rules), NEW q \in MostSpecific(rules)
    PROVE  Level(p.scope) = Level(q.scope)
  <1>1. Level(p.scope) \in 0..4 /\ Level(q.scope) \in 0..4
    BY LevelBounds DEF ResourcePolicy, MostSpecific
  <1>2. Level(p.scope) <= Level(q.scope) /\ Level(q.scope) <= Level(p.scope)
    BY DEF MostSpecific
  <1> QED BY <1>1, <1>2

\* A rule as specific as a most specific one is itself most specific.
LEMMA AsSpecific ==
    ASSUME NEW rules \in SUBSET ResourcePolicy,
           NEW p \in MostSpecific(rules), NEW q \in rules,
           Level(p.scope) <= Level(q.scope)
    PROVE  q \in MostSpecific(rules)
  <1>1. \A x \in rules : Level(x.scope) \in 0..4
    BY LevelBounds DEF ResourcePolicy
  <1>2. \A x \in rules : Level(x.scope) <= Level(p.scope)
    BY DEF MostSpecific
  <1>3. p \in rules
    BY DEF MostSpecific
  <1>4. \A x \in rules : Level(x.scope) <= Level(q.scope)
    BY <1>1, <1>2, <1>3
  <1> QED BY <1>4 DEF MostSpecific

-----------------------------------------------------------------------------
(* The verdicts. *)

\* When a read is allowed: an allow rule among the most specific, no deny.
LEMMA ReadAllowed ==
    ASSUME NEW policies, NEW top \in SUBSET policies
    PROVE  Allowed(ReadVerdict(policies, top)) <=> ~Has(top, "deny") /\ Has(top, "allow")
  <1>1. Has(top, "allow") => policies # {}
    BY DEF Has
  <1> QED BY <1>1 DEF Allowed, ReadVerdict

\* Decryption asks for everything reading asks for, and for the flag.
LEMMA DecryptVerdictAllowed ==
    ASSUME NEW policies, NEW top, Allowed(DecryptVerdict(policies, top))
    PROVE  Allowed(ReadVerdict(policies, top))
  <1>1. policies # {} /\ ~Has(top, "deny") /\ Has({p \in top : p.decrypt}, "allow")
    BY DEF Allowed, DecryptVerdict
  <1>2. Has(top, "allow")
    BY <1>1 DEF Has
  <1> QED BY <1>1, <1>2 DEF Allowed, ReadVerdict

\* Rules that are added to those of a decision and contain no allow.
LEMMA AddedDenies ==
    ASSUME NEW few \in SUBSET ResourcePolicy, NEW many \in SUBSET ResourcePolicy,
           few \subseteq many, ~Has(many \ few, "allow"),
           ~Has(MostSpecific(many), "deny"), Has(MostSpecific(many), "allow")
    PROVE  ~Has(MostSpecific(few), "deny") /\ Has(MostSpecific(few), "allow")
  <1>1. PICK q \in MostSpecific(many) : q.effect = "allow"
    BY DEF Has
  <1>2. q \in few
    BY <1>1 DEF Has, MostSpecific
  <1>3. q \in MostSpecific(few)
    BY <1>2 DEF MostSpecific
  <1>4. ASSUME NEW p \in MostSpecific(few) PROVE p \in MostSpecific(many)
    <2>1. Level(p.scope) = Level(q.scope)
      BY <1>3, SameLevel
    <2>2. p \in many /\ Level(q.scope) \in 0..4
      BY <1>2, LevelBounds DEF MostSpecific, ResourcePolicy
    <2> QED BY <2>1, <2>2, AsSpecific
  <1> QED BY <1>1, <1>3, <1>4 DEF Has

\* Rules that are taken away from those of a decision and are all allows.
LEMMA RemovedAllows ==
    ASSUME NEW few \in SUBSET ResourcePolicy, NEW many \in SUBSET ResourcePolicy,
           few \subseteq many, \A p \in many \ few : p.effect = "allow",
           ~Has(MostSpecific(few), "deny"), Has(MostSpecific(few), "allow")
    PROVE  ~Has(MostSpecific(many), "deny") /\ Has(MostSpecific(many), "allow")
  <1>1. ASSUME NEW p \in MostSpecific(many), p \in few PROVE p \in MostSpecific(few)
    BY <1>1 DEF MostSpecific
  <1>2. ~Has(MostSpecific(many), "deny")
    <2> SUFFICES ASSUME NEW p \in MostSpecific(many), p.effect = "deny" PROVE FALSE
      BY DEF Has
    <2>1. p \in few
      BY DEF MostSpecific
    <2> QED BY <2>1, <1>1 DEF Has
  <1>3. PICK q \in MostSpecific(few) : q.effect = "allow"
    BY DEF Has
  <1>4. PICK m \in MostSpecific(many) : TRUE
    BY MostSpecificExists, <1>3 DEF MostSpecific
  <1>5. CASE m \notin few
    BY <1>4, <1>5 DEF Has, MostSpecific
  <1>6. CASE m \in few
    <2>1. Level(m.scope) = Level(q.scope)
      BY <1>1, <1>6, SameLevel
    <2>2. q \in many /\ Level(q.scope) \in 0..4
      BY LevelBounds DEF MostSpecific, ResourcePolicy
    <2>3. q \in MostSpecific(many)
      BY <2>1, <2>2, AsSpecific
    <2> QED BY <1>2, <1>3, <2>3 DEF Has
  <1> QED BY <1>2, <1>5, <1>6

\* Rules less specific than one that applies do not change who is on top.
LEMMA ShieldedTop ==
    ASSUME NEW before \in SUBSET ResourcePolicy, NEW after \in SUBSET ResourcePolicy,
           NEW p \in before, p \in after,
           \A q \in (before \ after) \cup (after \ before) : Level(q.scope) < Level(p.scope)
    PROVE  MostSpecific(before) = MostSpecific(after)
  <1>1. \A x \in before \cup after : Level(x.scope) \in 0..4
    BY LevelBounds DEF ResourcePolicy
  <1>2. ASSUME NEW s \in SUBSET ResourcePolicy, NEW t \in SUBSET ResourcePolicy,
               s \cup t = before \cup after, p \in s, p \in t,
               \A q \in (s \ t) \cup (t \ s) : Level(q.scope) < Level(p.scope),
               NEW x \in MostSpecific(s)
        PROVE  x \in MostSpecific(t)
    <2>1. Level(p.scope) <= Level(x.scope) /\ x \in s
      BY <1>2 DEF MostSpecific
    <2>2. x \in t
      BY <1>1, <1>2, <2>1
    <2>3. ASSUME NEW y \in t PROVE Level(y.scope) <= Level(x.scope)
      <3>1. CASE y \in s
        BY <3>1 DEF MostSpecific
      <3>2. CASE y \notin s
        BY <1>1, <1>2, <2>1, <3>2
      <3> QED BY <3>1, <3>2
    <2> QED BY <2>2, <2>3 DEF MostSpecific
  <1> QED BY <1>2

-----------------------------------------------------------------------------
(* Decisions over one content of the control plane. *)

\* Tags that no rule names make no difference, so the batch path may leave them out.
LEMMA UnnamedTags ==
    ASSUME NEW policies, NEW u, NEW roles, NEW r, NEW chain, NEW tags \in SUBSET Tag
    PROVE  Applicable(policies, u, roles, r, chain, tags \cap PolicyTags(policies))
             = Applicable(policies, u, roles, r, chain, tags)
  BY DEF Applicable, InScope, PolicyTags

\* The rules that apply are policies of the catalog.
LEMMA RulesForTyped ==
    ASSUME NEW g \in ControlPlane, NEW u, NEW r
    PROVE  /\ RulesFor(g, u, r) \subseteq g.policies
           /\ RulesFor(g, u, r) \in SUBSET ResourcePolicy
           /\ TagsOf(g.tagRows, r) \in SUBSET Tag
  <1>1. g.policies \in SUBSET ResourcePolicy /\ g.tagRows \in SUBSET ResourceTag
    BY DEF ControlPlane
  <1>2. RulesFor(g, u, r) \subseteq g.policies
    BY DEF RulesFor, Applicable
  <1>3. TagsOf(g.tagRows, r) \in SUBSET Tag
    BY <1>1 DEF TagsOf, ResourceTag
  <1> QED BY <1>1, <1>2, <1>3

\* The batch path decides on exactly the rules that apply.
LEMMA BatchVerdict ==
    ASSUME NEW g \in ControlPlane, NEW u, NEW r \in LiveResources(g)
    PROVE  BatchNow(g, u)[r] = ReadVerdict(g.policies, MostSpecific(RulesFor(g, u, r)))
  <1>1. RulesFor(g, u, r) =
          Applicable(g.policies, u, ActiveRoles(g, u), r, ScopeChain(r, LiveResources(g)),
                     TagsOf(g.tagRows, r) \cap PolicyTags(g.policies))
    BY RulesForTyped, UnnamedTags DEF RulesFor
  <1> QED BY <1>1 DEF BatchNow, check_resource_access_batch

\* A live resource is readable when a most specific rule allows it and none denies.
LEMMA ReadableRules ==
    ASSUME NEW g \in ControlPlane, NEW u, NEW r \in LiveResources(g)
    PROVE  r \in Readable(g, u) <=>
               /\ ~Has(MostSpecific(RulesFor(g, u, r)), "deny")
               /\ Has(MostSpecific(RulesFor(g, u, r)), "allow")
  <1>1. MostSpecific(RulesFor(g, u, r)) \in SUBSET g.policies
    BY RulesForTyped DEF MostSpecific
  <1> QED BY <1>1, BatchVerdict, ReadAllowed DEF Readable

\* Where only rules differ, a rule both contents have applies in both or neither.
LEMMA SameApplicability ==
    ASSUME NEW g \in ControlPlane, NEW h \in ControlPlane, OnlyPoliciesDiffer(g, h),
           NEW u, NEW r
    PROVE  /\ LiveResources(g) = LiveResources(h)
           /\ \A p \in g.policies \cap h.policies :
                 p \in RulesFor(g, u, r) <=> p \in RulesFor(h, u, r)
  <1>1. g.status = h.status /\ g.tagRows = h.tagRows /\ g.userRoles = h.userRoles
    BY DEF OnlyPoliciesDiffer, ControlPlane
  <1>2. LiveResources(g) = LiveResources(h) /\ ActiveRoles(g, u) = ActiveRoles(h, u)
    BY <1>1 DEF LiveResources, Present, ActiveRoles
  <1> QED BY <1>1, <1>2 DEF RulesFor, Applicable

-----------------------------------------------------------------------------
(* The theorems. *)

\* list_resources agrees with describe, preview and query on every resource,
\* whatever rules, tags, roles and trees there are.
THEOREM BatchAgrees == GovernanceSpec => []BatchMatchesSingle
  <1>1. GovernanceTypeOK => BatchMatchesSingle
    <2> SUFFICES ASSUME GovernanceTypeOK, NEW u \in User, NEW r \in LiveResources(gov)
                 PROVE  ReadNow(gov, u, r) \in {"error", BatchNow(gov, u)[r]}
      BY DEF BatchMatchesSingle
    <2>1. BatchNow(gov, u)[r] = ReadVerdict(gov.policies, MostSpecific(RulesFor(gov, u, r)))
      BY BatchVerdict DEF GovernanceTypeOK
    <2> QED BY <2>1 DEF ReadNow, check_resource_access, RulesFor
  <1> QED BY <1>1, GovernanceTyped, PTL

\* Nobody can decrypt what he cannot read.
THEOREM DecryptNeedsRead == GovernanceSpec => []DecryptImpliesRead
  <1>1. DecryptImpliesRead
    <2> SUFFICES ASSUME NEW u \in User, NEW r \in LiveResources(gov),
                        Allowed(DecryptNow(gov, u, r))
                 PROVE  Allowed(ReadNow(gov, u, r))
      BY DEF DecryptImpliesRead
    <2> DEFINE raises == LookupRaises(gov.policies, u, ActiveRoles(gov, u), r, gov.tagRows)
               top == MostSpecific(RulesFor(gov, u, r))
    <2>1. /\ DecryptNow(gov, u, r) = IF raises THEN "error" ELSE DecryptVerdict(gov.policies, top)
          /\ ReadNow(gov, u, r) = IF raises THEN "error" ELSE ReadVerdict(gov.policies, top)
      BY DEF DecryptNow, ReadNow, check_decrypt_access, check_resource_access, RulesFor
    <2> HIDE DEF raises, top
    <2>2. ~raises
      BY <2>1 DEF Allowed
    <2> QED BY <2>1, <2>2, DecryptVerdictAllowed
  <1> QED BY <1>1, PTL

\* Deny rules only take access away, at any scope and in any combination.
THEOREM DeniesOnlyTake == GovernanceSpec => DenyNeverGrants
  <1>1. ASSUME GovernanceTypeOK, GovernanceTypeOK', OnlyPoliciesDiffer(gov, gov'),
               gov.policies \subseteq gov'.policies, ~Has(gov'.policies \ gov.policies, "allow")
        PROVE  NothingGranted
    <2> SUFFICES ASSUME NEW u \in User, NEW r \in Readable(gov', u)
                 PROVE  r \in Readable(gov, u)
      BY DEF NothingGranted
    <2> DEFINE few == RulesFor(gov, u, r)  many == RulesFor(gov', u, r)
    <2>1. /\ gov \in ControlPlane /\ gov' \in ControlPlane
          /\ r \in LiveResources(gov) /\ r \in LiveResources(gov')
      BY <1>1, SameApplicability DEF Readable, GovernanceTypeOK
    <2>2. /\ few \in SUBSET ResourcePolicy /\ many \in SUBSET ResourcePolicy
          /\ few \subseteq gov.policies /\ many \subseteq gov'.policies
      BY <2>1, RulesForTyped
    <2>3. \A p \in gov.policies : p \in few <=> p \in many
      BY <1>1, <2>1, SameApplicability
    <2>4. ~Has(MostSpecific(many), "deny") /\ Has(MostSpecific(many), "allow")
      BY <2>1, ReadableRules
    <2> HIDE DEF few, many
    <2>5. few \subseteq many /\ ~Has(many \ few, "allow")
      BY <1>1, <2>2, <2>3 DEF Has
    <2>6. ~Has(MostSpecific(few), "deny") /\ Has(MostSpecific(few), "allow")
      BY <2>2, <2>4, <2>5, AddedDenies
    <2> QED BY <2>1, <2>6, ReadableRules DEF few
  <1>2. GovernanceTypeOK /\ GovernanceTypeOK' =>
          (/\ OnlyPoliciesDiffer(gov, gov')
           /\ gov.policies \subseteq gov'.policies
           /\ ~Has(gov'.policies \ gov.policies, "allow")
           => NothingGranted)
    BY <1>1
  <1> QED BY <1>2, GovernanceTyped, PTL DEF DenyNeverGrants

\* Revoking allow rules only takes access away, whatever coarser rules it uncovers.
THEOREM RevokingOnlyTakes == GovernanceSpec => RevokingAllowNeverGrants
  <1>1. ASSUME GovernanceTypeOK, GovernanceTypeOK', OnlyPoliciesDiffer(gov, gov'),
               gov'.policies \subseteq gov.policies,
               \A p \in gov.policies \ gov'.policies : p.effect = "allow"
        PROVE  NothingGranted
    <2> SUFFICES ASSUME NEW u \in User, NEW r \in Readable(gov', u)
                 PROVE  r \in Readable(gov, u)
      BY DEF NothingGranted
    <2> DEFINE many == RulesFor(gov, u, r)  few == RulesFor(gov', u, r)
    <2>1. /\ gov \in ControlPlane /\ gov' \in ControlPlane
          /\ r \in LiveResources(gov) /\ r \in LiveResources(gov')
      BY <1>1, SameApplicability DEF Readable, GovernanceTypeOK
    <2>2. /\ few \in SUBSET ResourcePolicy /\ many \in SUBSET ResourcePolicy
          /\ many \subseteq gov.policies /\ few \subseteq gov'.policies
      BY <2>1, RulesForTyped
    <2>3. \A p \in gov'.policies : p \in few <=> p \in many
      BY <1>1, <2>1, SameApplicability
    <2>4. ~Has(MostSpecific(few), "deny") /\ Has(MostSpecific(few), "allow")
      BY <2>1, ReadableRules
    <2> HIDE DEF few, many
    <2>5. few \subseteq many /\ \A p \in many \ few : p.effect = "allow"
      BY <1>1, <2>2, <2>3
    <2>6. ~Has(MostSpecific(many), "deny") /\ Has(MostSpecific(many), "allow")
      BY <2>2, <2>4, <2>5, RemovedAllows
    <2> QED BY <2>1, <2>6, ReadableRules DEF many
  <1>2. GovernanceTypeOK /\ GovernanceTypeOK' =>
          (/\ OnlyPoliciesDiffer(gov, gov')
           /\ gov'.policies \subseteq gov.policies
           /\ \A p \in gov.policies \ gov'.policies : p.effect = "allow"
           => NothingGranted)
    BY <1>1
  <1> QED BY <1>2, GovernanceTyped, PTL DEF RevokingAllowNeverGrants

\* A specific rule is final: no edit of less specific rules moves the verdict.
THEOREM SpecificRulesAreFinal == GovernanceSpec => SpecificRuleShields
  <1>1. ASSUME GovernanceTypeOK, GovernanceTypeOK', OnlyPoliciesDiffer(gov, gov'),
               NEW u \in User, NEW r \in LiveResources(gov), Shielded(u, r)
        PROVE  BatchNow(gov', u)[r] = BatchNow(gov, u)[r]
    <2> DEFINE before == RulesFor(gov, u, r)  after == RulesFor(gov', u, r)
    <2>1. /\ gov \in ControlPlane /\ gov' \in ControlPlane
          /\ r \in LiveResources(gov')
      BY <1>1, SameApplicability DEF GovernanceTypeOK
    <2>2. /\ before \in SUBSET ResourcePolicy /\ after \in SUBSET ResourcePolicy
          /\ before \subseteq gov.policies /\ after \subseteq gov'.policies
      BY <2>1, RulesForTyped
    <2>3. \A p \in gov.policies \cap gov'.policies : p \in before <=> p \in after
      BY <1>1, <2>1, SameApplicability
    <2>4. PICK p \in before : \A q \in ChangedRules : Level(q.scope) < Level(p.scope)
      BY <1>1 DEF Shielded
    <2>5. BatchNow(gov, u)[r] = ReadVerdict(gov.policies, MostSpecific(before))
      BY <2>1, BatchVerdict
    <2>6. BatchNow(gov', u)[r] = ReadVerdict(gov'.policies, MostSpecific(after))
      BY <2>1, BatchVerdict
    <2> HIDE DEF before, after
    <2>7. p \in gov.policies /\ Level(p.scope) \in 0..4
      BY <2>2, LevelBounds DEF ResourcePolicy
    <2>8. p \in gov'.policies
      BY <2>4, <2>7 DEF ChangedRules
    <2>9. p \in after
      BY <2>3, <2>7, <2>8
    <2>10. (before \ after) \cup (after \ before) \subseteq ChangedRules
      BY <2>2, <2>3 DEF ChangedRules
    <2>11. MostSpecific(before) = MostSpecific(after)
      BY <2>2, <2>4, <2>9, <2>10, ShieldedTop
    <2>12. gov.policies # {} /\ gov'.policies # {}
      BY <2>7, <2>8
    <2> QED BY <2>5, <2>6, <2>11, <2>12 DEF ReadVerdict
  <1>2. GovernanceTypeOK /\ GovernanceTypeOK' =>
          (OnlyPoliciesDiffer(gov, gov') =>
             \A u \in User : \A r \in LiveResources(gov) :
                 Shielded(u, r) => BatchNow(gov', u)[r] = BatchNow(gov, u)[r])
    BY <1>1
  <1> QED BY <1>2, GovernanceTyped, PTL DEF SpecificRuleShields

\* Field rules for others never open a column to the caller, whatever they are
\* and in whatever order they come and go: only an allow rule for him, the end of
\* a deny rule for him or the end of all rules on the column does.
THEOREM ColumnsOpenOnlyForCause == GovernanceSpec => ColumnsOpenForCause
  <1>1. ASSUME NEW u \in User, ActiveRoles(gov', u) = ActiveRoles(gov, u),
               NEW c \in OpenColumns(gov', u) \ OpenColumns(gov, u),
               FieldPoliciesOn(gov'.fieldPolicies, c[1], c[2]) # {},
               ~Has(ColumnRules(gov.fieldPolicies \ gov'.fieldPolicies, gov, u, c), "deny")
        PROVE  Has(ColumnRules(gov'.fieldPolicies \ gov.fieldPolicies, gov, u, c), "allow")
    <2> DEFINE before == ColumnRules(gov.fieldPolicies, gov, u, c)
               after  == ColumnRules(gov'.fieldPolicies, gov', u, c)
    <2>1. ~Has(after, "deny") /\ Has(after, "allow")
      BY <1>1 DEF OpenColumns, FieldReadable, ColumnRules
    <2>2. Has(before, "deny") \/ ~Has(before, "allow")
      BY <1>1 DEF OpenColumns, FieldReadable, ColumnRules
    <2>3. \A p : p \in before /\ p \notin after =>
              p \in ColumnRules(gov.fieldPolicies \ gov'.fieldPolicies, gov, u, c)
      BY <1>1 DEF ColumnRules, FieldPoliciesOn
    <2>4. \A p : p \in after /\ p \notin before =>
              p \in ColumnRules(gov'.fieldPolicies \ gov.fieldPolicies, gov, u, c)
      BY <1>1 DEF ColumnRules, FieldPoliciesOn
    <2> HIDE DEF before, after
    <2>5. ~Has(before, "deny")
      BY <1>1, <2>1, <2>3 DEF Has
    <2> QED BY <2>1, <2>2, <2>4, <2>5 DEF Has
  <1>2. \A u \in User : ActiveRoles(gov', u) = ActiveRoles(gov, u) =>
          \A c \in OpenColumns(gov', u) \ OpenColumns(gov, u) :
              \/ FieldPoliciesOn(gov'.fieldPolicies, c[1], c[2]) = {}
              \/ Has(ColumnRules(gov'.fieldPolicies \ gov.fieldPolicies, gov, u, c), "allow")
              \/ Has(ColumnRules(gov.fieldPolicies \ gov'.fieldPolicies, gov, u, c), "deny")
    BY <1>1
  <1> QED BY <1>2, PTL DEF ColumnsOpenForCause

-----------------------------------------------------------------------------
(* Types.  TypeOK alone is not inductive: that an audit event names a      *)
(* decision needs every path to "commit" to have recorded one.             *)

Typed ==
    /\ TypeOK
    /\ pc = [q \in Request |-> pc[q]]
    /\ now \in Nat
    /\ \A q \in Request : pc[q] = "commit" => mem[q].event.decision # "none"

-----------------------------------------------------------------------------
(* A step of a handler that only moves its request. *)

Moves(q) ==
    \E label : \E locals \in Locals :
        /\ Continue(q, label, locals)
        /\ label = "commit" => locals.event.decision # "none"

\* A step that moves one request to typed locals keeps all types.
LEMMA MovesTyped ==
    ASSUME Typed, NEW q \in Request, Moves(q)
    PROVE  Typed'
  <1>1. PICK label, locals :
          /\ locals \in Locals
          /\ Continue(q, label, locals)
          /\ label = "commit" => locals.event.decision # "none"
    BY DEF Moves
  <1>2. /\ pc' = [pc EXCEPT ![q] = label] /\ mem' = [mem EXCEPT ![q] = locals]
        /\ UNCHANGED <<gov, binding, edits, call, window, audit, contexts, now>>
    BY <1>1 DEF Continue, govVars, served, tables
  <1>3. pc' = [p \in Request |-> pc'[p]] /\ mem' \in [Request -> Locals]
    <2>1. pc' = [p \in Request |-> IF p = q THEN label ELSE pc[p]]
      BY <1>2 DEF Typed
    <2>2. mem' \in [Request -> Locals]
      BY <1>1, <1>2 DEF Typed, TypeOK
    <2> QED BY <2>1, <2>2
  <1>4. TypeOK'
    BY <1>2, <1>3 DEF Typed, TypeOK, GovernanceTypeOK
  <1>5. ASSUME NEW p \in Request, pc'[p] = "commit" PROVE mem'[p].event.decision # "none"
    <2>1. CASE p = q
      BY <1>1, <1>2, <1>5, <2>1 DEF Typed, TypeOK
    <2>2. CASE p # q
      BY <1>2, <1>5, <2>2 DEF Typed, TypeOK
    <2> QED BY <2>1, <2>2
  <1> QED BY <1>2, <1>3, <1>4, <1>5 DEF Typed

\* The empty locals are locals.
LEMMA FreshTyped == Fresh \in Locals
  BY DEF Fresh, Locals, Status, Context, Event, Decision

\* What a request holds is of its type.
LEMMA MemTyped ==
    ASSUME Typed, NEW q \in Request
    PROVE  mem[q] \in Locals /\ call[q] \in Call /\ user(q) \in User
  BY DEF Typed, TypeOK, Call, user

\* What a request reads of the control plane is of its type.
LEMMA GovTyped ==
    ASSUME Typed
    PROVE  /\ gov \in ControlPlane
           /\ \A x \in Thing : gov.status[x] \in Status
           /\ gov.policies \in SUBSET ResourcePolicy
           /\ \A u \in User : ActiveRoles(gov, u) \in SUBSET Role
           /\ LiveResources(gov) \in SUBSET Resource
  BY DEF Typed, TypeOK, GovernanceTypeOK, ControlPlane, ActiveRoles, LiveResources

\* Names stand for columns, and a column's own spelling for itself.
LEMMA ColumnsAre ==
    ASSUME NEW names \in SUBSET Spelling
    PROVE  Columns(names) \subseteq Field /\ names \cap Field \subseteq Columns(names)
  BY GatewayConstants DEF Columns

\* What load_roles writes in the locals is of its type.
LEMMA RolesTyped ==
    ASSUME NEW m \in Locals, NEW roles \in SUBSET Role, NEW columns \in SUBSET Spelling,
           NEW gate \in BOOLEAN, NEW todo \in SUBSET Resource
    PROVE  [m EXCEPT !.roles = roles, !.columns = columns, !.gate = gate, !.todo = todo] \in Locals
  BY DEF Locals

\* Continuing with typed locals is a move.
LEMMA ContinueMoves ==
    ASSUME NEW q, NEW label, label # "commit", NEW locals \in Locals,
           Continue(q, label, locals)
    PROVE  Moves(q)
  BY DEF Moves

\* Raising is a move.
LEMMA RaiseMoves ==
    ASSUME Typed, NEW q \in Request, Raise(q)
    PROVE  Moves(q)
  <1>1. [Fresh EXCEPT !.ran = mem[q].ran] \in Locals
    BY FreshTyped, MemTyped DEF Locals
  <1> QED BY <1>1, ContinueMoves DEF Raise

\* Recording a decision is a move.
LEMMA RecordMoves ==
    ASSUME NEW q, NEW decision \in Decision \ {"none"}, NEW resources \in SUBSET Resource,
           NEW locals \in Locals, Record(q, decision, resources, locals)
    PROVE  Moves(q)
  <1> DEFINE after == [locals EXCEPT !.event = [decision |-> decision, resources |-> resources]]
  <1>1. after \in Locals /\ after.event.decision # "none"
    BY DEF Locals, Event
  <1>2. Continue(q, "commit", after)
    BY DEF Record
  <1> HIDE DEF after
  <1> QED BY <1>1, <1>2 DEF Moves

\* Rejecting is a move.
LEMMA RejectMoves ==
    ASSUME Typed, NEW q \in Request, NEW resources \in SUBSET Resource, Reject(q, resources)
    PROVE  Moves(q)
  BY MemTyped, RecordMoves DEF Reject, Decision

\* Rejecting with the declared resources is a move.
LEMMA RejectDeclaredMoves ==
    ASSUME Typed, NEW q \in Request, Reject(q, call[q].declared)
    PROVE  Moves(q)
  BY MemTyped, RejectMoves DEF Call

\* Taking the next resource to check is a move.
LEMMA CheckNextMoves ==
    ASSUME NEW q, NEW label, label # "commit", NEW locals \in Locals,
           CheckNext(q, label, locals)
    PROVE  Moves(q)
  <1>1. PICK r \in locals.todo :
          Continue(q, label, [locals EXCEPT !.todo = @ \ {r}, !.cur = {r}])
    BY DEF CheckNext
  <1>2. [locals EXCEPT !.todo = @ \ {r}, !.cur = {r}] \in Locals
    BY DEF Locals
  <1> QED BY <1>1, <1>2, ContinueMoves

-----------------------------------------------------------------------------
(* The handlers' steps, one by one. *)

\* The steps that establish the identity are moves.
LEMMA AuthenticateMoves ==
    ASSUME Typed, NEW q \in Request, Authenticate(q)
    PROVE  Moves(q)
  <1> USE MemTyped
  <1>1. CASE authenticate_api_key_value(q)
    BY <1>1, ContinueMoves, RaiseMoves DEF authenticate_api_key_value
  <1>2. CASE load_user(q)
    BY <1>2, ContinueMoves, RaiseMoves DEF load_user
  <1>3. CASE load_roles(q)
    <2> DEFINE gated == call[q].kind \in {"preview", "describe"}
               m == [mem[q] EXCEPT !.roles = ActiveRoles(gov, user(q)),
                                   !.columns = call[q].fields,
                                   !.gate = gated,
                                   !.todo = call[q].declared]
    <2>0. gated \in BOOLEAN
      OBVIOUS
    <2> HIDE DEF gated
    <2>1. m \in Locals
      <3>1. ActiveRoles(gov, user(q)) \in SUBSET Role /\ mem[q] \in Locals
        BY MemTyped, GovTyped
      <3>2. call[q].fields \in SUBSET Spelling /\ call[q].declared \in SUBSET Resource
        BY MemTyped DEF Call
      <3> QED BY ONLY <2>0, <3>1, <3>2, RolesTyped
    <2>2. \/ \E label \in {"scope", "list", "contexts"} : Continue(q, label, m)
          \/ CheckNext(q, "load", m)
      BY <1>3 DEF load_roles, gated
    <2> HIDE DEF m
    <2> QED BY <2>1, <2>2, ContinueMoves, CheckNextMoves
  <1> QED BY <1>1, <1>2, <1>3 DEF Authenticate

\* The steps that check the declared resources are moves.
LEMMA CheckResourceMoves ==
    ASSUME Typed, NEW q \in Request, CheckResource(q)
    PROVE  Moves(q)
  <1> USE MemTyped
  <1>1. CASE get_resource(q)
    <2>1. PICK r \in mem[q].cur :
            IF ~Present(gov, r) THEN Raise(q)
            ELSE Continue(q, "datasource", [mem[q] EXCEPT !.held[r] = gov.status[r]])
      BY <1>1 DEF get_resource
    <2>2. r \in Thing /\ gov.status[r] \in Status
      BY GovTyped DEF Locals, Thing
    <2>3. [mem[q] EXCEPT !.held[r] = gov.status[r]] \in Locals
      BY <2>2 DEF Locals
    <2> QED BY <2>1, <2>3, ContinueMoves, RaiseMoves
  <1>2. CASE active_fields(q)
    <2>1. ASSUME NEW r
          PROVE  [mem[q] EXCEPT !.columns = {f \in Field : gov.status[<<r, f>>] = "active"}]
                    \in Locals
      <3> DEFINE cols == {f \in Field : gov.status[<<r, f>>] = "active"}
      <3>1. cols \in SUBSET Spelling
        BY GatewayConstants
      <3> HIDE DEF cols
      <3>2. [mem[q] EXCEPT !.columns = cols] \in Locals
        BY <3>1 DEF Locals
      <3> QED BY <3>2 DEF cols
    <2> QED BY <1>2, <2>1, ContinueMoves DEF active_fields
  <1>3. CASE readable_fields(q)
    <2> DEFINE closed == first_inaccessible_field(gov.fieldPolicies, user(q), mem[q].roles,
                                                  mem[q].cur, mem[q].columns)
               m == [mem[q] EXCEPT !.columns = @ \ closed]
    <2> HIDE DEF closed
    <2>1. m \in Locals /\ m.cur \in SUBSET Resource /\ [m EXCEPT !.gate = FALSE] \in Locals
      BY DEF Locals
    <2>2. \/ Record(q, "allowed", m.cur, m) \/ Reject(q, m.cur)
          \/ Continue(q, "scope", [m EXCEPT !.gate = FALSE])
      BY <1>3 DEF readable_fields, closed
    <2> HIDE DEF m
    <2> QED BY <2>1, <2>2, RecordMoves, RejectMoves, ContinueMoves DEF Decision
  <1>4. CASE get_datasource(q)
    <2> DEFINE m == [mem[q] EXCEPT !.dsStatus = gov.status[call[q].ds], !.todo = call[q].declared]
    <2>1. m \in Locals
      BY GovTyped DEF Locals, Call, Thing
    <2>2. Reject(q, call[q].declared) \/ Raise(q) \/ Continue(q, "declare", m)
      BY <1>4 DEF get_datasource
    <2> HIDE DEF m
    <2> QED BY <2>1, <2>2, RejectDeclaredMoves, RaiseMoves, ContinueMoves
  <1>5. CASE get_declared_resource(q)
    <2>1. ASSUME NEW r \in mem[q].todo
          PROVE  /\ [mem[q] EXCEPT !.todo = @ \ {r}] \in Locals
                 /\ [mem[q] EXCEPT !.todo = @ \ {r}, !.held[r] = gov.status[r]] \in Locals
      BY GovTyped DEF Locals, Thing
    <2>2. [mem[q] EXCEPT !.todo = call[q].declared] \in Locals
      BY DEF Locals, Call
    <2>3. \/ \E r \in mem[q].todo : Continue(q, "declare", [mem[q] EXCEPT !.todo = @ \ {r}])
          \/ \E r \in mem[q].todo :
                Continue(q, "declare", [mem[q] EXCEPT !.todo = @ \ {r}, !.held[r] = gov.status[r]])
          \/ Raise(q)
          \/ CheckNext(q, "datasource", [mem[q] EXCEPT !.todo = call[q].declared])
          \/ Continue(q, "guard", mem[q])
      BY <1>5 DEF get_declared_resource
    <2> QED BY <2>1, <2>2, <2>3, RaiseMoves, ContinueMoves, CheckNextMoves
  <1>6. CASE check_datasource_and_row(q)
    BY <1>6, RejectDeclaredMoves, ContinueMoves DEF check_datasource_and_row
  <1>7. CASE check_ancestors(q)
    BY <1>7, RejectDeclaredMoves, ContinueMoves DEF check_ancestors
  <1>8. CASE load_policies(q)
    <2>1. [mem[q] EXCEPT !.policies = gov.policies] \in Locals
      BY GovTyped DEF Locals
    <2> QED BY <1>8, <2>1, ContinueMoves DEF load_policies
  <1>9. CASE load_chain(q)
    <2>1. [mem[q] EXCEPT !.live = LiveResources(gov)] \in Locals
      BY GovTyped DEF Locals
    <2> QED BY <1>9, <2>1, ContinueMoves DEF load_chain
  <1>10. CASE decide_read(q)
    <2>1. \/ Raise(q) \/ Reject(q, call[q].declared)
          \/ \E label \in {"fields", "guard"} : Continue(q, label, mem[q])
          \/ CheckNext(q, "datasource", mem[q])
      BY <1>10 DEF decide_read
    <2> QED BY <2>1, RejectDeclaredMoves, RaiseMoves, ContinueMoves, CheckNextMoves
  <1> QED
    BY <1>1, <1>2, <1>3, <1>4, <1>5, <1>6, <1>7, <1>8, <1>9, <1>10 DEF CheckResource

\* The steps from the guard to the masked result are moves.
LEMMA ExecuteQueryMoves ==
    ASSUME Typed, NEW q \in Request, ExecuteQuery(q)
    PROVE  Moves(q)
  <1> USE MemTyped
  <1>1. CASE guard(q)
    BY <1>1, RejectDeclaredMoves, ContinueMoves DEF guard
  <1>2. CASE resolve_guard_resources(q)
    <2> DEFINE found == {r \in call[q].touched : /\ DatasourceOf[r] = call[q].ds
                                                 /\ Kind[r] \in Tabular
                                                 /\ gov.status[r] = "active"}
    <2>1. [mem[q] EXCEPT !.actual = found] \in Locals
      BY DEF Locals, Call
    <2> QED BY <1>2, <2>1, ContinueMoves DEF resolve_guard_resources
  <1>3. CASE check_resolved_ancestors(q)
    BY <1>3, RejectDeclaredMoves, ContinueMoves DEF check_resolved_ancestors
  <1>4. CASE first_disabled_field(q)
    BY <1>4, RejectDeclaredMoves, ContinueMoves DEF first_disabled_field
  <1>5. CASE check_field_access(q)
    BY <1>5, RejectDeclaredMoves, ContinueMoves DEF check_field_access
  <1>6. CASE projection_rejection(q)
    BY <1>6, RejectDeclaredMoves, ContinueMoves DEF projection_rejection
  <1>7. CASE connector_execute_query(q)
    <2>1. [mem[q] EXCEPT !.ran = TRUE] \in Locals /\ mem[q].actual \in SUBSET Resource
      BY DEF Locals
    <2> QED BY <1>7, <2>1, ContinueMoves, RecordMoves, RaiseMoves
            DEF connector_execute_query, Decision
  <1>8. CASE apply_to_result(q)
    <2> DEFINE masks == MasksOn(gov, mem[q].actual, user(q), mem[q].roles)
               columns == Columns(mem[q].columns)
               targets == {m \in masks : call[q].shape = "columns" /\ m.field \in columns}
               cells == mem[q].actual \X (IF call[q].shape = "wildcard" THEN Field ELSE columns)
               bare == {c \in cells : ~\E m \in targets : m.field = c[2]}
               minted == IF \E m \in targets : m.strategy = "reversible"
                         THEN [user |-> user(q), resources |-> mem[q].actual,
                               expires |-> now + ContextTtl]
                         ELSE NoContext
               m2 == [mem[q] EXCEPT !.plain = bare, !.minted = minted]
    <2>1. bare \in SUBSET (Resource \X Field)
      <3>1. mem[q].columns \in SUBSET Spelling /\ mem[q].actual \subseteq Resource
        BY DEF Locals
      <3>2. columns \subseteq Field
        BY <3>1, ColumnsAre
      <3> HIDE DEF columns, targets
      <3> QED BY <3>1, <3>2
    <2>2. minted \in Context \cup {NoContext}
      <3>1. now + ContextTtl \in Nat
        BY GatewayConstants DEF Typed
      <3> QED BY <3>1 DEF Context, Locals
    <2>3. Raise(q) \/ Record(q, "allowed", mem[q].actual, m2)
      BY <1>8 DEF apply_to_result
    <2> HIDE DEF bare, minted
    <2>4. m2 \in Locals /\ mem[q].actual \in SUBSET Resource
      BY <2>1, <2>2 DEF Locals
    <2> HIDE DEF m2
    <2> QED BY <2>3, <2>4, RaiseMoves, RecordMoves DEF Decision
  <1> QED
    BY <1>1, <1>2, <1>3, <1>4, <1>5, <1>6, <1>7, <1>8 DEF ExecuteQuery

\* The steps of a listing are moves.
LEMMA ListResourcesMoves ==
    ASSUME Typed, NEW q \in Request, ListResources(q)
    PROVE  Moves(q)
  <1> USE MemTyped
  <1>1. CASE list_rows(q)
    <2> DEFINE found == {r \in Resource :
                /\ DatasourceOf[r] = call[q].ds /\ gov.status[call[q].ds] = "active"
                /\ Kind[r] \in Tabular /\ gov.status[r] = "active"}
    <2>1. [mem[q] EXCEPT !.actual = found] \in Locals
      BY DEF Locals
    <2> QED BY <1>1, <2>1, ContinueMoves DEF list_rows
  <1>2. CASE disabled_resource_reasons(q)
    <2>1. [mem[q] EXCEPT !.actual = {r \in @ : ActiveAncestors(r)}] \in Locals
      BY DEF Locals
    <2> QED BY <1>2, <2>1, ContinueMoves DEF disabled_resource_reasons
  <1>3. CASE list_resources(q)
    <2> DEFINE verdicts == check_resource_access_batch(mem[q].policies, user(q), mem[q].roles,
                               mem[q].actual, mem[q].live, gov.tagRows)
               m == [mem[q] EXCEPT !.actual = {r \in @ : Allowed(verdicts[r])}]
    <2> HIDE DEF verdicts
    <2>1. m \in Locals
      BY DEF Locals
    <2>2. Record(q, "allowed", {}, m)
      BY <1>3 DEF list_resources, verdicts
    <2> HIDE DEF m
    <2> QED BY <2>1, <2>2, RecordMoves DEF Decision
  <1> QED BY <1>1, <1>2, <1>3 DEF ListResources

\* The steps of a decryption are moves.
LEMMA DecryptMoves ==
    ASSUME Typed, NEW q \in Request, Decrypt(q)
    PROVE  Moves(q)
  <1> USE MemTyped
  <1>1. CASE get_decrypt_contexts(q)
    <2>1. Wanted(q) \in SUBSET Resource
      BY DEF Wanted, Typed, TypeOK, Call, Context, NoContext
    <2>2. [mem[q] EXCEPT !.actual = Wanted(q)] \in Locals
      BY <2>1 DEF Locals
    <2> QED BY <1>1, <2>2, ContinueMoves, RaiseMoves DEF get_decrypt_contexts
  <1>2. CASE load_context_resources(q)
    <2>1. [mem[q] EXCEPT !.todo = mem[q].actual] \in Locals /\ mem[q].actual \in SUBSET Resource
      BY DEF Locals
    <2> QED BY <1>2, <2>1, CheckNextMoves, RejectMoves DEF load_context_resources
  <1>3. CASE decide_decrypt(q)
    <2>1. \/ Raise(q) \/ \E r \in mem[q].cur : Reject(q, {r})
          \/ Continue(q, "open", mem[q]) \/ CheckNext(q, "policies", mem[q])
      BY <1>3 DEF decide_decrypt
    <2>2. \A r \in mem[q].cur : {r} \in SUBSET Resource
      BY DEF Locals
    <2> QED BY <2>1, <2>2, RaiseMoves, RejectMoves, ContinueMoves, CheckNextMoves
  <1>4. CASE decrypt_values(q)
    <2>1. [mem[q] EXCEPT !.ran = TRUE] \in Locals /\ mem[q].actual \in SUBSET Resource
      BY DEF Locals
    <2> QED BY <1>4, <2>1, RecordMoves, RaiseMoves DEF decrypt_values, Decision
  <1> QED BY <1>1, <1>2, <1>3, <1>4 DEF Decrypt

-----------------------------------------------------------------------------
\* Every step of a request keeps the types.
LEMMA HandleTyped ==
    ASSUME Typed, NEW q \in Request, Handle(q)
    PROVE  Typed'
  <1>1. CASE Start(q)
    BY <1>1 DEF Start, Typed, TypeOK, GovernanceTypeOK, govVars, tables
  <1>2. CASE commit(q)
    <2>1. <<q, mem[q].event>> \in Request \X [decision : Decision \ {"none"}, resources : SUBSET Resource]
      BY <1>2, MemTyped DEF commit, Typed, Locals, Event
    <2>2. contexts' \in [ContextId -> Context \cup {NoContext}]
      BY <1>2, MemTyped DEF commit, Typed, TypeOK, Locals
    <2> QED
      BY <1>2, <2>1, <2>2 DEF commit, Typed, TypeOK, GovernanceTypeOK, govVars, served
  <1>3. CASE reply(q)
    BY <1>3, MemTyped, ContinueMoves, MovesTyped DEF reply
  <1>4. CASE crash(q)
    BY <1>4, RaiseMoves, MovesTyped DEF crash
  <1> QED
    BY <1>1, <1>2, <1>3, <1>4, AuthenticateMoves, CheckResourceMoves, ExecuteQueryMoves,
       ListResourcesMoves, DecryptMoves, MovesTyped DEF Handle

\* An edit keeps the types, its row joining the windows in flight.
LEMMA AdminsTyped ==
    ASSUME Typed, Admins
    PROVE  Typed'
  <1>1. GovernanceTypeOK'
    BY AdminStepTyped DEF Admins, Typed, TypeOK
  <1>2. window' \in [Request -> SUBSET ControlPlane]
    BY <1>1 DEF Admins, Typed, TypeOK, GovernanceTypeOK
  <1> QED BY <1>1, <1>2 DEF Admins, Typed, TypeOK, tables

\* Every step of the gateway keeps the types.
LEMMA TypedStep == Typed /\ [Next]_vars => Typed'
  <1> SUFFICES ASSUME Typed, [Next]_vars PROVE Typed'
    OBVIOUS
  <1>1. CASE Tick
    BY <1>1, GatewayConstants
       DEF Tick, Typed, TypeOK, GovernanceTypeOK, govVars, served, tables
  <1>2. CASE UNCHANGED vars
    BY <1>2 DEF vars, Typed, TypeOK, GovernanceTypeOK, govVars
  <1> QED BY <1>1, <1>2, HandleTyped, AdminsTyped DEF Next

\* The initial state is typed.
LEMMA TypedInit == Init => Typed
  BY RowsAreRows, GatewayConstants, FreshTyped
     DEF Init, InitGovernance, Typed, TypeOK, GovernanceTypeOK

\* Every row, local and event of the gateway keeps its type, and no audit event
\* is committed without a decision.
THEOREM GatewayTyped == Spec => []TypeOK
  <1>1. Typed => TypeOK
    BY DEF Typed
  <1> QED BY <1>1, TypedInit, TypedStep, PTL DEF Spec

-----------------------------------------------------------------------------
(* Grants. *)

kind(q) == call[q].kind

\* A rule that allows r to the caller was in force at some moment.
Granted(q, r) ==
    \E p \in EverApplicable(q, r) : p.effect = "allow" /\ (kind(q) = "decrypt" => p.decrypt)

\* A deny rule was in force all along, and none that may have applied is more
\* specific.
Overruled(q, r) ==
    \E p \in AlwaysApplicable(q, r) :
        p.effect = "deny" /\ \A x \in EverApplicable(q, r) : Level(x.scope) <= Level(p.scope)

\* The statuses that _disabled_resource_reason looks at.
ActiveOnce(q, x)  == \E g \in window[q] : g.status[x] = "active"
RowActive(q, r)   == ActiveOnce(q, DatasourceOf[r]) /\ ActiveOnce(q, r)
EnabledOnce(q, r) == RowActive(q, r) /\ \A x \in AlwaysChain(q, r) : ActiveOnce(q, x)

\* r has passed all checks of a request of this kind.
Permitted(q, r) == Granted(q, r) /\ ~Overruled(q, r)
Cleared(q, r)   == Permitted(q, r) /\ (kind(q) # "decrypt" => EnabledOnce(q, r))

AllCleared(q, rs) == \A r \in rs : Cleared(q, r)
AllEnabled(q, rs) == \A r \in rs : EnabledOnce(q, r)
AllActive(q, rs)  == \A r \in rs : RowActive(q, r)

Checking  == {"datasource", "ancestors", "policies", "chain", "tags"}
Rules     == {"policies", "chain", "tags"}
Running   == {"disabledField", "fieldAccess", "projection", "execute", "mask"}
Admitted  == {"fields", "columns", "guard", "resolve", "resolved"} \cup Running
ReadKinds == {"query", "preview", "describe"}

\* Where the locals come from.
Seen(q, m) ==
    /\ m.roles \subseteq EverRoles(q)
    /\ m.policies \subseteq EverPolicies(q)
    /\ m.live = {} \/ \E g \in window[q] : m.live = LiveResources(g)
    /\ m.dsStatus = "active" => ActiveOnce(q, call[q].ds)
    /\ \A r \in Resource : m.held[r] = "active" => ActiveOnce(q, r)

\* What held all along has been seen.
SeenRoles(q, m)    == AlwaysRoles(q) \subseteq m.roles
SeenPolicies(q, m) == AlwaysPolicies(q) \subseteq m.policies
SeenChain(q, m)    ==
    \A r \in Resource : AlwaysChain(q, r) \subseteq ScopeChain(r, m.live)

\* Which kinds of requests pass where.
Routed(q, l, m) ==
    /\ l \in {"load", "fields", "columns", "scope", "declare", "datasource", "ancestors"} =>
          kind(q) \in ReadKinds
    /\ l \in {"list", "listAncestors"} => kind(q) = "list"
    /\ l \in {"contexts", "resources", "open"} => kind(q) = "decrypt"
    /\ m.gate => kind(q) \in {"preview", "describe"}

\* Nothing has run or been answered too early.
Unanswered(l, m) ==
    /\ l \notin {"commit", "reply", "done"} => m.event.decision # "allowed"
    /\ l \notin {"mask", "commit", "reply", "done", "failed"} => ~m.ran

\* What has been checked.
Checked(q, l, m) ==
    /\ l \notin {"idle", "key", "user", "roles", "commit", "reply", "done", "failed"} =>
          SeenRoles(q, m)
    /\ l \in {"chain", "tags"} => SeenPolicies(q, m)
    /\ l = "tags" => SeenChain(q, m)
    /\ l \in {"load"} \cup Checking /\ kind(q) # "list" => \E r \in Resource : m.cur = {r}
    /\ l = "load" \/ (l \in Checking /\ m.gate) => m.cur = call[q].declared
    /\ l \in Admitted => AllCleared(q, call[q].declared)
    /\ l \in Checking /\ kind(q) \in ReadKinds /\ ~m.gate =>
          AllCleared(q, call[q].declared \ (m.todo \cup m.cur))
    /\ l \in Rules /\ kind(q) = "decrypt" => AllCleared(q, m.actual \ (m.todo \cup m.cur))
    /\ l = "ancestors" => AllActive(q, m.cur)
    /\ l \in Rules /\ kind(q) \in ReadKinds => AllEnabled(q, m.cur)
    /\ l = "listAncestors" => AllActive(q, m.actual)
    /\ l \in Rules /\ kind(q) = "list" => AllEnabled(q, m.actual)
    /\ l = "open" => AllCleared(q, m.actual)
    /\ l \in Running => m.actual = call[q].touched
    /\ l \in {"execute", "mask"} => call[q].touched \subseteq call[q].declared

\* Served, for locals m.
ServedBy(q, m) ==
    IF kind(q) \in {"query", "preview"} /\ m.ran THEN call[q].declared \cup call[q].touched
    ELSE IF kind(q) = "describe" /\ m.event.decision = "allowed" THEN call[q].declared
    ELSE IF kind(q) = "list" /\ m.event.decision = "allowed" THEN m.actual
    ELSE IF kind(q) = "decrypt" /\ m.ran THEN m.actual
    ELSE {}

Good(q, l, m) ==
    /\ call[q] \in Calls
    /\ l = "idle" => m = Fresh
    /\ l \notin {"idle", "done", "failed"} => gov \in window[q]
    /\ l \notin {"commit", "reply", "done", "failed"} => Seen(q, m)
    /\ Routed(q, l, m) /\ Unanswered(l, m) /\ Checked(q, l, m)
    /\ AllCleared(q, ServedBy(q, m))

GrantInv == Typed /\ \A q \in Request : Good(q, pc[q], mem[q])

-----------------------------------------------------------------------------
(* From verdicts to grants. *)

\* What may have applied includes what the request saw apply.
LEMMA SeenApplies ==
    ASSUME NEW q, NEW r, NEW m, Seen(q, m), gov \in window[q],
           NEW tags, tags \subseteq TagsOf(gov.tagRows, r)
    PROVE  Applicable(m.policies, user(q), m.roles, r, ScopeChain(r, m.live), tags)
             \subseteq EverApplicable(q, r)
  <1>1. tags \subseteq EverTags(q, r)
    BY DEF EverTags
  <1>2. ScopeChain(r, m.live) \subseteq EverChain(q, r)
    <2>1. CASE m.live = {}
      <3>1. ScopeChain(r, m.live) = {r}
        BY <2>1 DEF ScopeChain, LiveParent
      <3>2. r \in ScopeChain(r, LiveResources(gov))
        BY DEF ScopeChain
      <3> QED BY <3>1, <3>2 DEF EverChain
    <2>2. CASE \E g \in window[q] : m.live = LiveResources(g)
      BY <2>2 DEF EverChain
    <2> QED BY <2>1, <2>2 DEF Seen
  <1> QED BY <1>1, <1>2 DEF Seen, EverApplicable, Applicable, SubjectMatches, InScope

\* A verdict that finds no deny among the most specific of the rules seen has not
\* missed a standing one.
LEMMA NoDenyMissed ==
    ASSUME NEW q, NEW r \in Resource, NEW m, Seen(q, m), gov \in window[q],
           SeenRoles(q, m), SeenPolicies(q, m), SeenChain(q, m),
           NEW tags, tags \subseteq TagsOf(gov.tagRows, r),
           TagsOf(gov.tagRows, r) \cap PolicyTags(m.policies) \subseteq tags,
           ~Has(MostSpecific(
               Applicable(m.policies, user(q), m.roles, r, ScopeChain(r, m.live), tags)), "deny")
    PROVE  ~Overruled(q, r)
  <1> DEFINE rules == Applicable(m.policies, user(q), m.roles, r, ScopeChain(r, m.live), tags)
  <1>1. rules \subseteq EverApplicable(q, r)
    BY SeenApplies
  <1>2. AlwaysApplicable(q, r) \subseteq rules
    <2>1. SUFFICES ASSUME NEW p \in AlwaysApplicable(q, r) PROVE p \in rules
      OBVIOUS
    <2>2. p \in m.policies /\ SubjectMatches(p, user(q), m.roles)
      BY DEF AlwaysApplicable, Applicable, SubjectMatches, SeenRoles, SeenPolicies
    <2>3. p.scope \in AlwaysTags(q, r) => p.scope \in tags
      BY <2>2 DEF AlwaysTags, PolicyTags
    <2>4. InScope(p, r, ScopeChain(r, m.live), tags)
      BY <2>3 DEF AlwaysApplicable, Applicable, InScope, SeenChain
    <2> QED BY <2>2, <2>4 DEF Applicable
  <1> HIDE DEF rules
  <1>3. ASSUME NEW p \in AlwaysApplicable(q, r), p.effect = "deny",
               \A x \in EverApplicable(q, r) : Level(x.scope) <= Level(p.scope)
        PROVE  FALSE
    <2>1. p \in MostSpecific(rules)
      BY <1>1, <1>2, <1>3 DEF MostSpecific
    <2> QED BY <1>3, <2>1 DEF Has, rules
  <1> QED BY <1>3 DEF Overruled

\* What one content shows includes what every content shows.
LEMMA OneMoment ==
    ASSUME NEW q, gov \in window[q]
    PROVE  /\ AlwaysRoles(q) \subseteq ActiveRoles(gov, user(q))
           /\ AlwaysPolicies(q) \subseteq gov.policies
           /\ \A r : AlwaysChain(q, r) \subseteq ScopeChain(r, LiveResources(gov))
           /\ \A x : gov.status[x] = "active" => ActiveOnce(q, x)
  BY DEF AlwaysRoles, AlwaysPolicies, AlwaysChain, ActiveOnce

\* Nothing is disabled all along on a path found active at one moment.
LEMMA PathEnabled ==
    ASSUME NEW q, NEW r, gov \in window[q], RowActive(q, r), ActiveAncestors(r)
    PROVE  EnabledOnce(q, r)
  <1>1. ASSUME NEW x \in AlwaysChain(q, r) PROVE ActiveOnce(q, x)
    BY OneMoment DEF ActiveAncestors, RowActive
  <1> QED BY <1>1 DEF EnabledOnce

\* An allowing verdict on what the request saw is a grant, and no standing deny
\* speaks against it.
LEMMA ReadPermits ==
    ASSUME NEW q, NEW r \in Resource, NEW m, Seen(q, m), gov \in window[q], kind(q) # "decrypt",
           SeenRoles(q, m), SeenPolicies(q, m), SeenChain(q, m),
           NEW tags, tags \subseteq TagsOf(gov.tagRows, r),
           TagsOf(gov.tagRows, r) \cap PolicyTags(m.policies) \subseteq tags,
           Allowed(ReadVerdict(m.policies, MostSpecific(
               Applicable(m.policies, user(q), m.roles, r, ScopeChain(r, m.live), tags))))
    PROVE  Permitted(q, r)
  <1> DEFINE rules == Applicable(m.policies, user(q), m.roles, r, ScopeChain(r, m.live), tags)
  <1>1. rules \subseteq EverApplicable(q, r)
    BY SeenApplies
  <1>2. ~Overruled(q, r)
    BY NoDenyMissed DEF Allowed, ReadVerdict
  <1> HIDE DEF rules
  <1>3. \E p \in MostSpecific(rules) : p.effect = "allow"
    BY DEF rules, Allowed, ReadVerdict, Has
  <1> QED BY <1>1, <1>2, <1>3 DEF MostSpecific, Granted, Permitted

\* An allowing decrypt verdict on what the request saw is a grant to decrypt, and
\* no standing deny speaks against it.
LEMMA DecryptPermits ==
    ASSUME NEW q, NEW r \in Resource, NEW m, Seen(q, m), gov \in window[q],
           SeenRoles(q, m), SeenPolicies(q, m), SeenChain(q, m),
           NEW tags, tags \subseteq TagsOf(gov.tagRows, r),
           TagsOf(gov.tagRows, r) \cap PolicyTags(m.policies) \subseteq tags,
           Allowed(DecryptVerdict(m.policies, MostSpecific(
               Applicable(m.policies, user(q), m.roles, r, ScopeChain(r, m.live), tags))))
    PROVE  Permitted(q, r)
  <1> DEFINE rules == Applicable(m.policies, user(q), m.roles, r, ScopeChain(r, m.live), tags)
  <1>1. rules \subseteq EverApplicable(q, r)
    BY SeenApplies
  <1>2. ~Overruled(q, r)
    BY NoDenyMissed DEF Allowed, DecryptVerdict
  <1> HIDE DEF rules
  <1>3. \E p \in MostSpecific(rules) : p.effect = "allow" /\ p.decrypt
    BY DEF rules, Allowed, DecryptVerdict, Has
  <1> QED BY <1>1, <1>2, <1>3 DEF MostSpecific, Granted, Permitted

-----------------------------------------------------------------------------
(* A step that moves its request and keeps its part of the invariant. *)

Keeps(q) == \E label, locals : Continue(q, label, locals) /\ Good(q, label, locals)

\* A handler that raises has served what it had before, and nothing more.
LEMMA RaiseKeeps ==
    ASSUME Typed, NEW q \in Request, Good(q, pc[q], mem[q]), Raise(q)
    PROVE  Keeps(q)
  <1> DEFINE m == [Fresh EXCEPT !.ran = mem[q].ran]
  <1>1. /\ m.roles = {} /\ m.policies = {} /\ m.live = {} /\ m.gate = FALSE
        /\ m.event.decision = "none" /\ m.ran = mem[q].ran /\ m.actual = {}
    BY DEF Fresh
  <1>2. Continue(q, "failed", m)
    BY DEF Raise
  <1> HIDE DEF m
  <1>3. AllCleared(q, ServedBy(q, m))
    BY <1>1 DEF Good, AllCleared, ServedBy
  <1>4. Routed(q, "failed", m) /\ Unanswered("failed", m) /\ Checked(q, "failed", m)
    BY <1>1 DEF Routed, Unanswered, Checked, Checking, Rules, Running, Admitted
  <1>5. Good(q, "failed", m)
    BY <1>3, <1>4 DEF Good
  <1> QED BY <1>2, <1>5 DEF Keeps

Early(l) == l \notin {"idle", "mask", "commit", "reply", "done", "failed"}

\* Before the statement runs and the event is recorded, nothing is served.
LEMMA QuietKeeps ==
    ASSUME NEW q \in Request, Good(q, pc[q], mem[q]), Early(pc[q]),
           NEW l, NEW m, Early(l), Continue(q, l, m),
           m.event = mem[q].event, m.ran = mem[q].ran,
           Seen(q, m), Routed(q, l, m), Checked(q, l, m)
    PROVE  Keeps(q)
  <1>1. m.event.decision # "allowed" /\ ~m.ran
    BY DEF Good, Unanswered, Early
  <1>2. ServedBy(q, m) = {}
    BY <1>1 DEF ServedBy
  <1>3. Good(q, l, m)
    BY <1>1, <1>2 DEF Good, Early, Unanswered, AllCleared
  <1> QED BY <1>3 DEF Keeps

\* An answer serves only what was granted.
LEMMA AnswerKeeps ==
    ASSUME NEW q \in Request, Good(q, pc[q], mem[q]), Early(pc[q]) \/ pc[q] = "mask",
           NEW n, Continue(q, "commit", n), n.gate = mem[q].gate,
           NEW rs, AllCleared(q, rs), ServedBy(q, n) \subseteq rs
    PROVE  Keeps(q)
  <1>1. Good(q, "commit", n)
    BY DEF Good, Early, Routed, Unanswered, Checked, AllCleared,
           Checking, Rules, Running, Admitted
  <1> QED BY <1>1 DEF Keeps

\* A handler that records its event serves only what was granted.
LEMMA RecordKeeps ==
    ASSUME NEW q \in Request, Good(q, pc[q], mem[q]), Early(pc[q]) \/ pc[q] = "mask",
           NEW decision, NEW resources, NEW m \in Locals,
           Record(q, decision, resources, m),
           m.gate = mem[q].gate, NEW rs, AllCleared(q, rs),
           ServedBy(q, [m EXCEPT !.event = [decision |-> decision, resources |-> resources]])
             \subseteq rs
    PROVE  Keeps(q)
  <1> DEFINE n == [m EXCEPT !.event = [decision |-> decision, resources |-> resources]]
  <1>1. n.gate = m.gate
    BY DEF Locals
  <1>2. Continue(q, "commit", n) /\ ServedBy(q, n) \subseteq rs
    BY DEF Record
  <1> HIDE DEF n
  <1> QED BY <1>1, <1>2, AnswerKeeps

\* A request that is turned away serves nothing.
LEMMA DeniedKeeps ==
    ASSUME Typed, NEW q \in Request, Good(q, pc[q], mem[q]), Early(pc[q]),
           NEW decision \in {"denied", "error"}, NEW resources,
           Record(q, decision, resources, mem[q])
    PROVE  Keeps(q)
  <1> DEFINE n == [mem[q] EXCEPT !.event = [decision |-> decision, resources |-> resources]]
  <1>1. ~n.ran /\ n.event.decision # "allowed"
    BY MemTyped DEF Locals, Good, Unanswered, Early
  <1> HIDE DEF n
  <1>2. ServedBy(q, n) \subseteq {}
    BY <1>1 DEF ServedBy
  <1>3. AllCleared(q, {})
    BY DEF AllCleared
  <1> QED BY <1>2, <1>3, RecordKeeps, MemTyped DEF n

\* A rejected request serves nothing.
LEMMA RejectKeeps ==
    ASSUME Typed, NEW q \in Request, Good(q, pc[q], mem[q]), Early(pc[q]),
           NEW resources, Reject(q, resources)
    PROVE  Keeps(q)
  BY DeniedKeeps DEF Reject

\* The next resource is taken out of those still to check.
LEMMA CheckNextKeeps ==
    ASSUME NEW q \in Request, Good(q, pc[q], mem[q]), Early(pc[q]),
           NEW l \in {"load", "datasource", "policies"},
           NEW m \in Locals, CheckNext(q, l, m),
           m.event = mem[q].event, m.ran = mem[q].ran,
           Seen(q, m), SeenRoles(q, m), Routed(q, l, m),
           l = "load" \/ m.gate => m.todo = call[q].declared
                                   /\ kind(q) \in {"preview", "describe"},
           kind(q) \in ReadKinds /\ ~m.gate => AllCleared(q, call[q].declared \ m.todo),
           l = "policies" => kind(q) = "decrypt" /\ AllCleared(q, m.actual \ m.todo)
    PROVE  Keeps(q)
  <1>1. PICK r \in m.todo : Continue(q, l, [m EXCEPT !.todo = @ \ {r}, !.cur = {r}])
    BY DEF CheckNext
  <1> DEFINE n == [m EXCEPT !.todo = @ \ {r}, !.cur = {r}]
  <1>2. /\ n.roles = m.roles /\ n.policies = m.policies /\ n.live = m.live
        /\ n.gate = m.gate /\ n.event = m.event /\ n.ran = m.ran /\ n.actual = m.actual
        /\ n.todo = m.todo \ {r} /\ n.cur = {r} /\ r \in Resource
        /\ n.dsStatus = m.dsStatus /\ n.held = m.held
    BY DEF Locals
  <1>3. Continue(q, l, n)
    BY <1>1
  <1> HIDE DEF n
  <1>4. n.todo \cup n.cur = m.todo
    BY <1>2
  <1>5. l = "load" \/ n.gate => n.cur = call[q].declared
    BY <1>2, GatewayConstants DEF kind, Good
  <1>6. Seen(q, n) /\ SeenRoles(q, n) /\ Routed(q, l, n)
    BY <1>2 DEF Seen, SeenRoles, Routed
  <1>7. Checked(q, l, n)
    BY <1>2, <1>4, <1>5, <1>6
       DEF Checked, Checking, Rules, Running, Admitted, ReadKinds
  <1> QED BY <1>2, <1>3, <1>6, <1>7, QuietKeeps DEF Early

-----------------------------------------------------------------------------
(* The handlers' steps, one by one. *)

\* Up to the rules, nothing is read that a grant rests on but the roles.
LEMMA AuthenticateKeeps ==
    ASSUME Typed, NEW q \in Request, Good(q, pc[q], mem[q]), Authenticate(q)
    PROVE  Keeps(q)
  <1> USE MemTyped
  <1>1. CASE authenticate_api_key_value(q)
    <2>1. CASE Continue(q, "user", mem[q])
      <3>1. Early(pc[q]) /\ Early("user") /\ pc[q] = "key"
        BY <1>1 DEF authenticate_api_key_value, Early
      <3>2. Seen(q, mem[q]) /\ Routed(q, "user", mem[q]) /\ Checked(q, "user", mem[q])
        BY <3>1 DEF Good, Routed, Checked, Checking, Rules, Running, Admitted
      <3> QED BY <2>1, <3>1, <3>2, QuietKeeps
    <2> QED BY <1>1, <2>1, RaiseKeeps DEF authenticate_api_key_value
  <1>2. CASE load_user(q)
    <2>1. CASE Continue(q, "roles", mem[q])
      <3>1. Early(pc[q]) /\ Early("roles") /\ pc[q] = "user"
        BY <1>2 DEF load_user, Early
      <3>2. Seen(q, mem[q]) /\ Routed(q, "roles", mem[q]) /\ Checked(q, "roles", mem[q])
        BY <3>1 DEF Good, Routed, Checked, Checking, Rules, Running, Admitted
      <3> QED BY <2>1, <3>1, <3>2, QuietKeeps
    <2> QED BY <1>2, <2>1, RaiseKeeps DEF load_user
  <1>3. CASE load_roles(q)
    <2> DEFINE gated == call[q].kind \in {"preview", "describe"}
               m == [mem[q] EXCEPT !.roles = ActiveRoles(gov, user(q)),
                                   !.columns = call[q].fields,
                                   !.gate = gated,
                                   !.todo = call[q].declared]
    <2>0. gated \in BOOLEAN
      OBVIOUS
    <2>1. \/ kind(q) = "query" /\ Continue(q, "scope", m)
          \/ kind(q) = "list" /\ Continue(q, "list", m)
          \/ kind(q) = "decrypt" /\ Continue(q, "contexts", m)
          \/ gated /\ CheckNext(q, "load", m)
      BY <1>3 DEF load_roles, kind, Call, Kinds
    <2>2. gated <=> kind(q) \in {"preview", "describe"}
      BY DEF kind
    <2> HIDE DEF gated
    <2>3. /\ m \in Locals /\ m.roles = ActiveRoles(gov, user(q)) /\ m.todo = call[q].declared
          /\ (m.gate <=> gated) /\ m.event = mem[q].event /\ m.ran = mem[q].ran
          /\ m.policies = mem[q].policies /\ m.live = mem[q].live /\ m.actual = mem[q].actual
          /\ m.dsStatus = mem[q].dsStatus /\ m.held = mem[q].held
      <3>1. ActiveRoles(gov, user(q)) \in SUBSET Role /\ mem[q] \in Locals
        BY MemTyped, GovTyped
      <3>2. call[q].fields \in SUBSET Spelling /\ call[q].declared \in SUBSET Resource
        BY MemTyped DEF Call
      <3>3. m \in Locals
        BY ONLY <2>0, <3>1, <3>2, RolesTyped
      <3> QED BY <3>1, <3>3 DEF Locals
    <2> HIDE DEF m
    <2>4. Early(pc[q]) /\ gov \in window[q] /\ Seen(q, mem[q])
      BY <1>3 DEF load_roles, Early, Good
    <2>5. Seen(q, m) /\ SeenRoles(q, m)
      BY <2>3, <2>4, OneMoment DEF Seen, SeenRoles, EverRoles
    <2>6. CASE gated /\ CheckNext(q, "load", m)
      <3>1. Routed(q, "load", m)
        BY <2>2, <2>3, <2>6 DEF Routed, ReadKinds
      <3> QED BY <2>2, <2>3, <2>4, <2>5, <2>6, <3>1, CheckNextKeeps
    <2>7. ASSUME NEW l \in {"scope", "list", "contexts"}, Continue(q, l, m),
                 Routed(q, l, m)
          PROVE  Keeps(q)
      <3>1. Checked(q, l, m) /\ Early(l)
        BY <2>5, <2>7 DEF Checked, Checking, Rules, Running, Admitted, Early
      <3> QED BY <2>3, <2>4, <2>5, <2>7, <3>1, QuietKeeps
    <2>8. /\ kind(q) = "query" => Routed(q, "scope", m)
          /\ kind(q) = "list" => Routed(q, "list", m)
          /\ kind(q) = "decrypt" => Routed(q, "contexts", m)
      BY <2>2, <2>3 DEF Routed, ReadKinds
    <2> QED BY <2>1, <2>6, <2>7, <2>8
  <1> QED BY <1>1, <1>2, <1>3 DEF Authenticate

\* What a step may change without touching what grants rest on.
SameEvidence(m, n) ==
    /\ m.roles = n.roles /\ m.policies = n.policies /\ m.live = n.live
    /\ m.gate = n.gate /\ m.event = n.event /\ m.ran = n.ran
    /\ m.dsStatus = n.dsStatus /\ m.held = n.held

\* Equal evidence comes from the same moments.
LEMMA EvidenceKept ==
    ASSUME NEW q, NEW m, NEW n, SameEvidence(m, n)
    PROVE  (Seen(q, m) => Seen(q, n)) /\ (SeenRoles(q, m) => SeenRoles(q, n))
  BY DEF SameEvidence, Seen, SeenRoles

\* A request at a check moves on to another place with the same evidence.
LEMMA SameKeeps ==
    ASSUME NEW q \in Request, Good(q, pc[q], mem[q]), Early(pc[q]),
           NEW l, NEW m, Early(l), Continue(q, l, m), SameEvidence(mem[q], m),
           Routed(q, l, m), Checked(q, l, m)
    PROVE  Keeps(q)
  <1>1. m.event = mem[q].event /\ m.ran = mem[q].ran /\ Seen(q, m)
    BY EvidenceKept DEF SameEvidence, Good, Early
  <1> QED BY <1>1, QuietKeeps

\* A step that only looks at the status of x.
LooksAt(q, x, m, n) ==
    /\ m.roles = n.roles /\ m.policies = n.policies /\ m.live = n.live
    /\ m.gate = n.gate /\ m.event = n.event /\ m.ran = n.ran
    /\ n.dsStatus = m.dsStatus \/ (x = call[q].ds /\ n.dsStatus = gov.status[x])
    /\ \A r \in Resource : n.held[r] = m.held[r] \/ (x = r /\ n.held[r] = gov.status[x])

\* What such a step finds was so at one moment.
LEMMA LookKeeps ==
    ASSUME NEW q \in Request, Good(q, pc[q], mem[q]), Early(pc[q]),
           NEW l, NEW m, Early(l), Continue(q, l, m), NEW x, LooksAt(q, x, mem[q], m),
           Routed(q, l, m), Checked(q, l, m)
    PROVE  Keeps(q)
  <1>1. Seen(q, mem[q]) /\ gov \in window[q]
    BY DEF Good, Early
  <1>2. Seen(q, m)
    BY <1>1, OneMoment DEF Seen, LooksAt
  <1> QED BY <1>2, QuietKeeps DEF LooksAt

\* The steps that describe and preview alone take keep the invariant.
LEMMA LoadKeeps ==
    ASSUME Typed, NEW q \in Request, Good(q, pc[q], mem[q]),
           get_resource(q) \/ active_fields(q) \/ readable_fields(q)
    PROVE  Keeps(q)
  <1> USE MemTyped
  <1>1. CASE get_resource(q)
    <2>1. PICK r \in mem[q].cur :
            IF ~Present(gov, r) THEN Raise(q)
            ELSE Continue(q, "datasource", [mem[q] EXCEPT !.held[r] = gov.status[r]])
      BY <1>1 DEF get_resource
    <2> DEFINE m == [mem[q] EXCEPT !.held[r] = gov.status[r]]
    <2>2. LooksAt(q, r, mem[q], m) /\ m.cur = mem[q].cur
      BY DEF Locals, LooksAt
    <2>3. Raise(q) \/ Continue(q, "datasource", m)
      BY <2>1
    <2> HIDE DEF m
    <2>4. /\ pc[q] = "load" /\ Early(pc[q]) /\ Early("datasource") /\ kind(q) \in ReadKinds
          /\ SeenRoles(q, mem[q])
      BY <1>1 DEF get_resource, Early, Good, Routed, Checked
    <2>5. Routed(q, "datasource", m) /\ SeenRoles(q, m)
      BY <2>2, <2>4 DEF Good, Routed, LooksAt, SeenRoles
    <2>6. m.cur = call[q].declared /\ \E x \in Resource : m.cur = {x}
      BY <2>2, <2>4 DEF Good, Checked, ReadKinds
    <2>7. Checked(q, "datasource", m)
      BY <2>4, <2>5, <2>6 DEF Checked, Checking, Rules, Running, Admitted, AllCleared
    <2> QED BY <2>2, <2>3, <2>4, <2>5, <2>7, LookKeeps, RaiseKeeps
  <1>2. CASE active_fields(q)
    <2>1. PICK cols : Continue(q, "columns", [mem[q] EXCEPT !.columns = cols])
      BY <1>2 DEF active_fields
    <2> DEFINE m == [mem[q] EXCEPT !.columns = cols]
    <2>2. SameEvidence(mem[q], m)
      BY DEF Locals, SameEvidence
    <2>3. Continue(q, "columns", m)
      BY <2>1
    <2> HIDE DEF m
    <2>4. pc[q] = "fields" /\ Early(pc[q]) /\ Early("columns")
      BY <1>2 DEF active_fields, Early
    <2>5. Routed(q, "columns", m) /\ Checked(q, "columns", m)
      BY <2>2, <2>4
         DEF Good, Routed, SameEvidence, SeenRoles, Checked, Checking, Rules, Running,
             Admitted
    <2> QED BY <2>2, <2>3, <2>4, <2>5, SameKeeps
  <1>3. CASE readable_fields(q)
    <2> DEFINE closed == first_inaccessible_field(gov.fieldPolicies, user(q), mem[q].roles,
                                                  mem[q].cur, mem[q].columns)
               m == [mem[q] EXCEPT !.columns = @ \ closed]
               n == [m EXCEPT !.gate = FALSE]
               a == [m EXCEPT !.event = [decision |-> "allowed", resources |-> m.cur]]
    <2> HIDE DEF closed
    <2>1. /\ SameEvidence(mem[q], m) /\ m \in Locals
          /\ ~n.gate /\ n.roles = mem[q].roles /\ n.policies = mem[q].policies
          /\ n.live = mem[q].live /\ n.event = mem[q].event /\ n.ran = mem[q].ran
          /\ n.dsStatus = mem[q].dsStatus /\ n.held = mem[q].held
          /\ a.event.decision = "allowed" /\ a.ran = mem[q].ran
      BY DEF Locals, SameEvidence
    <2>2. \/ kind(q) = "describe" /\ Record(q, "allowed", m.cur, m)
          \/ Reject(q, m.cur)
          \/ Continue(q, "scope", n)
      BY <1>3 DEF readable_fields, closed, kind
    <2> HIDE DEF n
    <2>3. pc[q] = "columns" /\ Early(pc[q]) /\ kind(q) \in ReadKinds
      BY <1>3 DEF readable_fields, Early, Good, Routed
    <2>4. CASE Continue(q, "scope", n)
      <3>1. Routed(q, "scope", n) /\ Seen(q, n) /\ Checked(q, "scope", n)
        BY <2>1, <2>3
           DEF Good, Routed, Seen, SeenRoles, Checked, Checking, Rules, Running, Admitted
      <3> QED BY <2>1, <2>3, <2>4, <3>1, QuietKeeps DEF Early
    <2>5. CASE kind(q) = "describe" /\ Record(q, "allowed", m.cur, m)
      <3>1. AllCleared(q, call[q].declared)
        BY <2>3 DEF Good, Checked, Admitted
      <3>2. ServedBy(q, a) \subseteq call[q].declared
        BY <2>5 DEF ServedBy
      <3>3. m.gate = mem[q].gate
        BY <2>1 DEF SameEvidence
      <3> HIDE DEF m
      <3> QED BY <2>1, <2>3, <2>5, <3>1, <3>2, <3>3, RecordKeeps
    <2> QED BY <2>2, <2>3, <2>4, <2>5, RejectKeeps
  <1> QED BY <1>1, <1>2, <1>3

\* Reading the datasource and the declared resources keeps the invariant.
LEMMA ScopeKeeps ==
    ASSUME Typed, NEW q \in Request, Good(q, pc[q], mem[q]),
           get_datasource(q) \/ get_declared_resource(q)
    PROVE  Keeps(q)
  <1> USE MemTyped
  <1>1. CASE get_datasource(q)
    <2> DEFINE m == [mem[q] EXCEPT !.dsStatus = gov.status[call[q].ds], !.todo = call[q].declared]
    <2>1. LooksAt(q, call[q].ds, mem[q], m)
      BY DEF Locals, LooksAt
    <2>2. Reject(q, call[q].declared) \/ Raise(q) \/ Continue(q, "declare", m)
      BY <1>1 DEF get_datasource
    <2> HIDE DEF m
    <2>3. pc[q] = "scope" /\ Early(pc[q]) /\ Early("declare")
      BY <1>1 DEF get_datasource, Early
    <2>4. Routed(q, "declare", m) /\ Checked(q, "declare", m)
      BY <2>1, <2>3
         DEF Good, Routed, LooksAt, SeenRoles, Checked, Checking, Rules, Running, Admitted
    <2> QED BY <2>1, <2>2, <2>3, <2>4, LookKeeps, RaiseKeeps, RejectKeeps
  <1>2. CASE get_declared_resource(q)
    <2>1. pc[q] = "declare" /\ Early(pc[q]) /\ Early("declare") /\ Early("guard")
          /\ kind(q) \in ReadKinds
      BY <1>2 DEF get_declared_resource, Early, Good, Routed
    <2>2. ASSUME NEW r, NEW m, LooksAt(q, r, mem[q], m), Continue(q, "declare", m)
          PROVE  Keeps(q)
      <3>1. Routed(q, "declare", m) /\ Checked(q, "declare", m)
        BY <2>1, <2>2
           DEF Good, Routed, LooksAt, SeenRoles, Checked, Checking, Rules, Running, Admitted
      <3> QED BY <2>1, <2>2, <3>1, LookKeeps
    <2>3. CASE call[q].declared = {} /\ Continue(q, "guard", mem[q])
      <3>1. Routed(q, "guard", mem[q]) /\ Seen(q, mem[q]) /\ Checked(q, "guard", mem[q])
        BY <2>1, <2>3 DEF Good, Routed, Checked, Checking, Rules, Running, Admitted, AllCleared
      <3> QED BY <2>1, <2>3, <3>1, QuietKeeps
    <2>4. CASE CheckNext(q, "datasource", [mem[q] EXCEPT !.todo = call[q].declared])
      <3> DEFINE m == [mem[q] EXCEPT !.todo = call[q].declared]
      <3>1. SameEvidence(mem[q], m) /\ m \in Locals /\ m.todo = call[q].declared
        BY DEF Locals, SameEvidence, Call
      <3>2. CheckNext(q, "datasource", m)
        BY <2>4
      <3> HIDE DEF m
      <3>3. Seen(q, m) /\ SeenRoles(q, m) /\ Routed(q, "datasource", m)
        BY <2>1, <3>1, EvidenceKept DEF Good, Checked, Routed, SameEvidence
      <3>4. m.gate => kind(q) \in {"preview", "describe"}
        BY <3>3 DEF Routed
      <3>5. AllCleared(q, call[q].declared \ m.todo)
        BY <3>1 DEF AllCleared
      <3>6. m.event = mem[q].event /\ m.ran = mem[q].ran
        BY <3>1 DEF SameEvidence
      <3> QED BY <2>1, <3>1, <3>2, <3>3, <3>4, <3>5, <3>6, CheckNextKeeps
    <2>5. ASSUME NEW r \in mem[q].todo
          PROVE  /\ LooksAt(q, r, mem[q], [mem[q] EXCEPT !.todo = @ \ {r}])
                 /\ LooksAt(q, r, mem[q],
                        [mem[q] EXCEPT !.todo = @ \ {r}, !.held[r] = gov.status[r]])
      BY DEF Locals, LooksAt
    <2>6. \/ \E r \in mem[q].todo : Continue(q, "declare", [mem[q] EXCEPT !.todo = @ \ {r}])
          \/ \E r \in mem[q].todo :
                Continue(q, "declare", [mem[q] EXCEPT !.todo = @ \ {r}, !.held[r] = gov.status[r]])
          \/ Raise(q)
          \/ CheckNext(q, "datasource", [mem[q] EXCEPT !.todo = call[q].declared])
          \/ call[q].declared = {} /\ Continue(q, "guard", mem[q])
      BY <1>2 DEF get_declared_resource
    <2> QED BY <2>2, <2>3, <2>4, <2>5, <2>6, RaiseKeeps
  <1> QED BY <1>1, <1>2

\* What is checked of a resource survives a step to the next check of it.
LEMMA NextCheckKeeps ==
    ASSUME NEW q \in Request, Good(q, pc[q], mem[q]), pc[q] \in Checking,
           NEW l \in Checking, l \in {"datasource", "ancestors"} => pc[q] \in {"datasource", "ancestors"},
           pc[q] \in Rules \/ kind(q) # "decrypt",
           l = "ancestors" => AllActive(q, mem[q].cur),
           pc[q] \notin Rules /\ l \in Rules => AllEnabled(q, mem[q].cur) /\ kind(q) # "list",
           NEW m, Continue(q, l, m), Seen(q, m), m.roles = mem[q].roles,
           l \in {"chain", "tags"} => SeenPolicies(q, m), l = "tags" => SeenChain(q, m),
           m.event = mem[q].event, m.ran = mem[q].ran, m.gate = mem[q].gate,
           m.cur = mem[q].cur, m.todo = mem[q].todo, m.actual = mem[q].actual
    PROVE  Keeps(q)
  <1>1. Early(pc[q]) /\ Early(l)
    BY DEF Early, Checking
  <1>2. Routed(q, l, m)
    BY DEF Good, Routed, Checking
  <1>3. Checked(q, l, m)
    BY DEF Good, Checked, SeenRoles, Checking, Rules, Running, Admitted
  <1> QED BY <1>1, <1>2, <1>3, QuietKeeps

\* Status checks and the reads of rules and parents keep the invariant.
LEMMA RulesKeep ==
    ASSUME Typed, NEW q \in Request, Good(q, pc[q], mem[q]),
           \/ check_datasource_and_row(q) \/ check_ancestors(q)
           \/ load_policies(q) \/ load_chain(q)
    PROVE  Keeps(q)
  <1> USE MemTyped DEF Checking, Rules
  <1>1. CASE check_datasource_and_row(q)
    <2>1. pc[q] = "datasource" /\ kind(q) \notin {"decrypt", "list"} /\ Early(pc[q]) /\ Seen(q, mem[q])
      BY <1>1 DEF check_datasource_and_row, Good, Routed, ReadKinds, Early
    <2>2. PICK r \in mem[q].cur :
            IF DatasourceStatus(q, r) # "active" \/ mem[q].held[r] # "active"
            THEN Reject(q, call[q].declared)
            ELSE Continue(q, "ancestors", mem[q])
      BY <1>1 DEF check_datasource_and_row
    <2>3. CASE DatasourceStatus(q, r) = "active" /\ mem[q].held[r] = "active"
      <3>1. mem[q].cur = {r} /\ r \in Resource /\ gov \in window[q]
        BY <2>1 DEF Good, Checked, Locals
      <3>2. RowActive(q, r)
        BY <2>1, <2>3, <3>1, OneMoment DEF DatasourceStatus, Seen, RowActive
      <3>3. AllActive(q, mem[q].cur)
        BY <3>1, <3>2 DEF AllActive
      <3> QED BY <2>1, <2>2, <2>3, <3>3, NextCheckKeeps
    <2> QED BY <2>1, <2>2, <2>3, RejectKeeps
  <1>2. CASE check_ancestors(q)
    <2>1. pc[q] = "ancestors" /\ kind(q) # "decrypt" /\ Early(pc[q]) /\ Seen(q, mem[q])
      BY <1>2 DEF check_ancestors, Good, Routed, ReadKinds, Early
    <2>2. PICK r \in mem[q].cur :
            IF ActiveAncestors(r) THEN Continue(q, "policies", mem[q])
            ELSE Reject(q, call[q].declared)
      BY <1>2 DEF check_ancestors
    <2>3. CASE ActiveAncestors(r)
      <3>1. mem[q].cur = {r} /\ gov \in window[q] /\ RowActive(q, r) /\ kind(q) # "list"
        BY <2>1 DEF Good, Checked, Routed, ReadKinds, AllActive
      <3>2. AllEnabled(q, mem[q].cur)
        BY <2>3, <3>1, PathEnabled DEF AllEnabled
      <3> QED BY <2>1, <2>2, <2>3, <3>1, <3>2, NextCheckKeeps
    <2> QED BY <2>1, <2>2, <2>3, RejectKeeps
  <1>3. CASE load_policies(q)
    <2> DEFINE m == [mem[q] EXCEPT !.policies = gov.policies]
    <2>1. /\ m.roles = mem[q].roles /\ m.policies = gov.policies /\ m.live = mem[q].live
          /\ m.event = mem[q].event /\ m.ran = mem[q].ran /\ m.gate = mem[q].gate
          /\ m.cur = mem[q].cur /\ m.todo = mem[q].todo /\ m.actual = mem[q].actual
          /\ m.dsStatus = mem[q].dsStatus /\ m.held = mem[q].held
      BY DEF Locals
    <2>2. Continue(q, "chain", m) /\ pc[q] = "policies"
      BY <1>3 DEF load_policies
    <2> HIDE DEF m
    <2>3. Seen(q, m) /\ SeenPolicies(q, m)
      BY <2>1, <2>2, OneMoment DEF Good, Seen, EverPolicies, SeenPolicies
    <2> QED BY <2>1, <2>2, <2>3, NextCheckKeeps
  <1>4. CASE load_chain(q)
    <2> DEFINE m == [mem[q] EXCEPT !.live = LiveResources(gov)]
    <2>1. /\ m.roles = mem[q].roles /\ m.policies = mem[q].policies
          /\ m.live = LiveResources(gov)
          /\ m.event = mem[q].event /\ m.ran = mem[q].ran /\ m.gate = mem[q].gate
          /\ m.cur = mem[q].cur /\ m.todo = mem[q].todo /\ m.actual = mem[q].actual
          /\ m.dsStatus = mem[q].dsStatus /\ m.held = mem[q].held
      BY DEF Locals
    <2>2. Continue(q, "tags", m) /\ pc[q] = "chain"
      BY <1>4 DEF load_chain
    <2> HIDE DEF m
    <2>3. Seen(q, m) /\ SeenPolicies(q, m) /\ SeenChain(q, m)
      BY <2>1, <2>2, OneMoment DEF Good, Seen, Checked, SeenPolicies, SeenChain
    <2> QED BY <2>1, <2>2, <2>3, NextCheckKeeps
  <1> QED BY <1>1, <1>2, <1>3, <1>4

\* A resource leaves the unchecked ones only with an allowing verdict.
LEMMA DecideKeeps ==
    ASSUME Typed, NEW q \in Request, Good(q, pc[q], mem[q]), decide_read(q)
    PROVE  Keeps(q)
  <1> USE MemTyped
  <1>1. /\ pc[q] = "tags" /\ Early(pc[q]) /\ kind(q) \in ReadKinds /\ gov \in window[q]
        /\ Seen(q, mem[q]) /\ SeenRoles(q, mem[q]) /\ SeenPolicies(q, mem[q])
        /\ SeenChain(q, mem[q]) /\ AllEnabled(q, mem[q].cur)
    BY DEF decide_read, Early, Good, Checked, kind, ReadKinds, Rules
  <1>2. PICK r \in mem[q].cur :
          LET verdict == check_resource_access(mem[q].policies, user(q), mem[q].roles, r,
                                               ScopeChain(r, mem[q].live), gov.tagRows)
          IN  IF verdict = "error"           THEN Raise(q)
              ELSE IF ~Allowed(verdict)      THEN Reject(q, call[q].declared)
              ELSE IF mem[q].gate            THEN Continue(q, "fields", mem[q])
              ELSE IF mem[q].todo = {}       THEN Continue(q, "guard", mem[q])
              ELSE CheckNext(q, "datasource", mem[q])
    BY DEF decide_read
  <1>3. mem[q].cur = {r} /\ r \in Resource
    BY <1>1 DEF Good, Checked, Checking, ReadKinds, Locals
  <1> DEFINE verdict == check_resource_access(mem[q].policies, user(q), mem[q].roles, r,
                                              ScopeChain(r, mem[q].live), gov.tagRows)
  <1>4. CASE verdict # "error" /\ Allowed(verdict)
    <2>1. Permitted(q, r)
      BY <1>1, <1>3, <1>4, ReadPermits DEF check_resource_access, ReadKinds
    <2>10. Cleared(q, r)
      BY <1>1, <1>3, <2>1 DEF Cleared, AllEnabled
    <2>2. mem[q].gate => AllCleared(q, call[q].declared)
      BY <1>1, <1>3, <2>10 DEF Good, Checked, Checking, AllCleared
    <2>3. ~mem[q].gate => AllCleared(q, call[q].declared \ mem[q].todo)
      BY <1>1, <1>3, <2>10 DEF Good, Checked, Checking, AllCleared
    <2>4. ASSUME NEW l \in {"fields", "guard"}, AllCleared(q, call[q].declared),
                 Continue(q, l, mem[q])
          PROVE  Keeps(q)
      <3>1. Routed(q, l, mem[q]) /\ Checked(q, l, mem[q]) /\ Early(l)
        BY <1>1, <2>4
           DEF Good, Routed, Checked, Checking, Rules, Running, Admitted, Early
      <3> QED BY <1>1, <2>4, <3>1, QuietKeeps
    <2>5. CASE ~mem[q].gate /\ CheckNext(q, "datasource", mem[q])
      <3>1. Routed(q, "datasource", mem[q])
        BY <1>1 DEF Good, Routed
      <3> QED BY <1>1, <2>3, <2>5, <3>1, CheckNextKeeps
    <2>6. \/ mem[q].gate /\ Continue(q, "fields", mem[q])
          \/ ~mem[q].gate /\ mem[q].todo = {} /\ Continue(q, "guard", mem[q])
          \/ ~mem[q].gate /\ CheckNext(q, "datasource", mem[q])
      BY <1>2, <1>4
    <2>7. mem[q].todo = {} => call[q].declared \ mem[q].todo = call[q].declared
      OBVIOUS
    <2> QED BY <2>2, <2>3, <2>4, <2>5, <2>6, <2>7
  <1>5. CASE ~(verdict # "error" /\ Allowed(verdict))
    BY <1>1, <1>2, <1>5, RaiseKeeps, RejectKeeps
  <1> QED BY <1>4, <1>5

\* Every step of the check of declared resources keeps the invariant.
LEMMA CheckResourceKeeps ==
    ASSUME Typed, NEW q \in Request, Good(q, pc[q], mem[q]), CheckResource(q)
    PROVE  Keeps(q)
  BY LoadKeeps, ScopeKeeps, RulesKeep, DecideKeeps DEF CheckResource

\* Once every declared resource is granted, the statement is examined and run.
LEMMA AdmittedKeeps ==
    ASSUME NEW q \in Request, Good(q, pc[q], mem[q]), Early(pc[q]), pc[q] \in Admitted,
           NEW l \in Admitted \ {"fields", "columns", "mask"},
           NEW m, Continue(q, l, m), SameEvidence(mem[q], m),
           l \in Running => m.actual = call[q].touched,
           l = "execute" => call[q].touched \subseteq call[q].declared
    PROVE  Keeps(q)
  <1>1. Early(l)
    BY DEF Early, Admitted, Running
  <1>2. Routed(q, l, m) /\ Checked(q, l, m)
    BY DEF Good, SameEvidence, SeenRoles, Routed, Checked, Checking, Rules, Running, Admitted
  <1> QED BY <1>1, <1>2, SameKeeps

\* The steps between the checks and the execution keep the invariant.
LEMMA GuardKeeps ==
    ASSUME Typed, NEW q \in Request, Good(q, pc[q], mem[q]),
           \/ guard(q) \/ resolve_guard_resources(q) \/ check_resolved_ancestors(q)
           \/ first_disabled_field(q) \/ check_field_access(q) \/ projection_rejection(q)
    PROVE  Keeps(q)
  <1> USE MemTyped DEF Admitted, Running
  <1>1. Early(pc[q]) /\ pc[q] \in Admitted
    BY DEF Early, guard, resolve_guard_resources, check_resolved_ancestors,
           first_disabled_field, check_field_access, projection_rejection
  <1>2. SameEvidence(mem[q], mem[q])
    BY DEF SameEvidence
  <1>3. pc[q] \in Running => mem[q].actual = call[q].touched
    BY DEF Good, Checked
  <1>4. CASE guard(q)
    BY <1>1, <1>2, <1>4, AdmittedKeeps, RejectKeeps DEF guard
  <1>5. CASE resolve_guard_resources(q)
    <2> DEFINE found == {r \in call[q].touched : /\ DatasourceOf[r] = call[q].ds
                                                 /\ Kind[r] \in Tabular
                                                 /\ gov.status[r] = "active"}
               m == [mem[q] EXCEPT !.actual = found]
    <2>1. SameEvidence(mem[q], m)
      BY DEF Locals, SameEvidence
    <2>2. Continue(q, "resolved", m)
      BY <1>5 DEF resolve_guard_resources
    <2> HIDE DEF m
    <2> QED BY <1>1, <2>1, <2>2, AdmittedKeeps
  <1>6. CASE check_resolved_ancestors(q)
    BY <1>1, <1>2, <1>6, AdmittedKeeps, RejectKeeps DEF check_resolved_ancestors
  <1>7. CASE first_disabled_field(q)
    BY <1>1, <1>2, <1>3, <1>7, AdmittedKeeps, RejectKeeps DEF first_disabled_field
  <1>8. CASE check_field_access(q)
    BY <1>1, <1>2, <1>3, <1>8, AdmittedKeeps, RejectKeeps DEF check_field_access
  <1>9. CASE projection_rejection(q)
    <2>1. \/ Reject(q, call[q].declared)
          \/ Continue(q, "execute", mem[q]) /\ mem[q].actual \subseteq call[q].declared
      BY <1>9 DEF projection_rejection
    <2>2. pc[q] = "projection"
      BY <1>9 DEF projection_rejection
    <2> QED BY <1>1, <1>2, <1>3, <2>1, <2>2, AdmittedKeeps, RejectKeeps
  <1> QED BY <1>4, <1>5, <1>6, <1>7, <1>8, <1>9

\* What runs reads resources that are all declared, and so granted.
LEMMA RunKeeps ==
    ASSUME Typed, NEW q \in Request, Good(q, pc[q], mem[q]),
           connector_execute_query(q) \/ apply_to_result(q)
    PROVE  Keeps(q)
  <1> USE MemTyped
  <1>1. /\ pc[q] \in {"execute", "mask"} /\ call[q].touched \subseteq call[q].declared
        /\ mem[q].actual = call[q].touched /\ AllCleared(q, call[q].declared)
        /\ Seen(q, mem[q])
    BY DEF connector_execute_query, apply_to_result, Good, Checked, Admitted, Running
  <1>2. ASSUME NEW m, m.actual = call[q].touched
        PROVE  ServedBy(q, m) \subseteq call[q].declared
    BY <1>1, <1>2 DEF ServedBy
  <1>3. CASE connector_execute_query(q)
    <2> DEFINE m == [mem[q] EXCEPT !.ran = TRUE]
    <2>1. /\ m.roles = mem[q].roles /\ m.policies = mem[q].policies /\ m.live = mem[q].live
          /\ m.gate = mem[q].gate /\ m.event = mem[q].event /\ m.actual = mem[q].actual
          /\ m.dsStatus = mem[q].dsStatus /\ m.held = mem[q].held
      BY DEF Locals
    <2>2. \/ Continue(q, "mask", m) \/ Record(q, "error", mem[q].actual, mem[q]) \/ Raise(q)
      BY <1>3 DEF connector_execute_query
    <2> HIDE DEF m
    <2>3. pc[q] = "execute" /\ Early(pc[q])
      BY <1>3 DEF connector_execute_query, Early
    <2>4. CASE Continue(q, "mask", m)
      <3>1. Seen(q, m) /\ SeenRoles(q, m) /\ Routed(q, "mask", m) /\ Unanswered("mask", m)
        BY <2>1, <2>3 DEF Good, Seen, SeenRoles, Checked, Routed, Unanswered
      <3>2. Checked(q, "mask", m)
        BY <1>1, <2>1, <3>1 DEF Checked, Checking, Rules, Running, Admitted
      <3>3. AllCleared(q, ServedBy(q, m))
        BY <1>1, <1>2, <2>1 DEF AllCleared
      <3>4. Good(q, "mask", m)
        BY <2>3, <3>1, <3>2, <3>3 DEF Good
      <3> QED BY <2>4, <3>4 DEF Keeps
    <2> QED BY <2>2, <2>3, <2>4, DeniedKeeps, RaiseKeeps
  <1>4. CASE apply_to_result(q)
    <2>1. PICK bare, minted :
            \/ Raise(q)
            \/ Record(q, "allowed", mem[q].actual,
                      [mem[q] EXCEPT !.plain = bare, !.minted = minted])
      BY <1>4 DEF apply_to_result
    <2> DEFINE m == [mem[q] EXCEPT !.plain = bare, !.minted = minted]
               n == [m EXCEPT !.event = [decision |-> "allowed", resources |-> mem[q].actual]]
    <2>2. n.gate = mem[q].gate /\ n.actual = mem[q].actual
      BY DEF Locals
    <2>3. Raise(q) \/ Continue(q, "commit", n)
      BY <2>1 DEF Record
    <2> HIDE DEF n
    <2>4. ServedBy(q, n) \subseteq call[q].declared /\ pc[q] = "mask"
      BY <1>1, <1>2, <1>4, <2>2 DEF apply_to_result
    <2> QED BY <1>1, <2>2, <2>3, <2>4, RaiseKeeps, AnswerKeeps
  <1> QED BY <1>3, <1>4

\* Every step from the guard to the masked result keeps the invariant.
LEMMA ExecuteQueryKeeps ==
    ASSUME Typed, NEW q \in Request, Good(q, pc[q], mem[q]), ExecuteQuery(q)
    PROVE  Keeps(q)
  BY GuardKeeps, RunKeeps DEF ExecuteQuery

\* A listing shows the resources whose verdict, taken in one batch, is a grant.
LEMMA ListResourcesKeeps ==
    ASSUME Typed, NEW q \in Request, Good(q, pc[q], mem[q]), ListResources(q)
    PROVE  Keeps(q)
  <1> USE MemTyped
  <1>1. /\ Early(pc[q]) /\ kind(q) = "list" /\ Seen(q, mem[q]) /\ gov \in window[q]
        /\ SeenRoles(q, mem[q])
    BY DEF ListResources, list_rows, disabled_resource_reasons, list_resources, Early,
           Good, Routed, Checked, kind
  <1>2. ASSUME NEW l \in {"listAncestors", "policies"}, NEW rs,
               Continue(q, l, [mem[q] EXCEPT !.actual = rs]),
               l = "listAncestors" => AllActive(q, rs),
               l = "policies" => AllEnabled(q, rs)
        PROVE  Keeps(q)
    <2> DEFINE m == [mem[q] EXCEPT !.actual = rs]
    <2>1. SameEvidence(mem[q], m) /\ m.actual = rs
      BY DEF Locals, SameEvidence
    <2>2. Continue(q, l, m)
      BY <1>2
    <2> HIDE DEF m
    <2>3. Routed(q, l, m) /\ Early(l) /\ SeenRoles(q, m)
      BY <1>1, <2>1, EvidenceKept DEF Good, Routed, SameEvidence, Early
    <2>4. Checked(q, l, m)
      BY <1>1, <1>2, <2>1, <2>3
         DEF Checked, Routed, Checking, Rules, Running, Admitted, ReadKinds
    <2> QED BY <1>1, <2>1, <2>2, <2>3, <2>4, SameKeeps
  <1>3. CASE list_rows(q)
    <2> DEFINE rs == {r \in Resource : /\ DatasourceOf[r] = call[q].ds
                                       /\ gov.status[call[q].ds] = "active"
                                       /\ Kind[r] \in Tabular /\ gov.status[r] = "active"}
    <2>1. Continue(q, "listAncestors", [mem[q] EXCEPT !.actual = rs])
      BY <1>3 DEF list_rows
    <2>2. AllActive(q, rs)
      BY <1>1, OneMoment DEF AllActive, RowActive
    <2> QED BY <1>2, <2>1, <2>2
  <1>4. CASE disabled_resource_reasons(q)
    <2> DEFINE rs == {r \in mem[q].actual : ActiveAncestors(r)}
    <2>1. Continue(q, "policies", [mem[q] EXCEPT !.actual = rs]) /\ pc[q] = "listAncestors"
      BY <1>4 DEF disabled_resource_reasons
    <2>2. AllActive(q, mem[q].actual)
      BY <2>1 DEF Good, Checked
    <2>3. AllEnabled(q, rs)
      BY <1>1, <2>2, PathEnabled DEF AllActive, AllEnabled
    <2> QED BY <1>2, <2>1, <2>3
  <1>5. CASE list_resources(q)
    <2> DEFINE verdicts == check_resource_access_batch(mem[q].policies, user(q), mem[q].roles,
                                                       mem[q].actual, mem[q].live, gov.tagRows)
               rs == {r \in mem[q].actual : Allowed(verdicts[r])}
               m == [mem[q] EXCEPT !.actual = rs]
    <2>0. SeenPolicies(q, mem[q]) /\ SeenChain(q, mem[q]) /\ AllEnabled(q, mem[q].actual)
      BY <1>1, <1>5 DEF list_resources, Good, Checked, Rules
    <2>1. AllCleared(q, rs)
      <3>1. SUFFICES ASSUME NEW r \in mem[q].actual, Allowed(verdicts[r])
                     PROVE  Cleared(q, r)
        BY DEF AllCleared
      <3> DEFINE tags == TagsOf(gov.tagRows, r) \cap PolicyTags(mem[q].policies)
      <3>2. Allowed(ReadVerdict(mem[q].policies, MostSpecific(
                Applicable(mem[q].policies, user(q), mem[q].roles, r,
                           ScopeChain(r, mem[q].live), tags))))
        BY <3>1 DEF check_resource_access_batch
      <3>3. /\ tags \subseteq TagsOf(gov.tagRows, r) /\ r \in Resource
            /\ TagsOf(gov.tagRows, r) \cap PolicyTags(mem[q].policies) \subseteq tags
        BY DEF Locals
      <3> HIDE DEF tags
      <3>4. Permitted(q, r)
        BY <1>1, <2>0, <3>2, <3>3, ReadPermits
      <3> QED BY <2>0, <3>4 DEF Cleared, AllEnabled
    <2> HIDE DEF verdicts
    <2>2. m \in Locals /\ SameEvidence(mem[q], m) /\ m.actual = rs
      BY DEF Locals, SameEvidence
    <2>3. Record(q, "allowed", {}, m)
      BY <1>5 DEF list_resources, verdicts
    <2> HIDE DEF m
    <2>4. [m EXCEPT !.event = [decision |-> "allowed", resources |-> {}]].actual = rs
      BY <2>2 DEF Locals
    <2>5. ServedBy(q, [m EXCEPT !.event = [decision |-> "allowed", resources |-> {}]])
            \subseteq rs
      BY <1>1, <2>4 DEF ServedBy
    <2>6. m.gate = mem[q].gate
      BY <2>2 DEF SameEvidence
    <2> QED BY <1>1, <2>1, <2>2, <2>3, <2>5, <2>6, RecordKeeps
  <1> QED BY <1>3, <1>4, <1>5 DEF ListResources

\* A resource of a context leaves the unchecked ones only with a grant to decrypt.
LEMMA DecideDecryptKeeps ==
    ASSUME Typed, NEW q \in Request, Good(q, pc[q], mem[q]), decide_decrypt(q)
    PROVE  Keeps(q)
  <1> USE MemTyped
  <1>1. /\ pc[q] = "tags" /\ Early(pc[q]) /\ kind(q) = "decrypt" /\ gov \in window[q]
        /\ Seen(q, mem[q]) /\ ~mem[q].gate /\ SeenRoles(q, mem[q])
        /\ SeenPolicies(q, mem[q]) /\ SeenChain(q, mem[q])
    BY DEF decide_decrypt, Early, Good, Checked, kind, Routed
  <1>2. PICK r \in mem[q].cur :
          LET verdict == check_decrypt_access(mem[q].policies, user(q), mem[q].roles, r,
                                              ScopeChain(r, mem[q].live), gov.tagRows)
          IN  IF verdict = "error"      THEN Raise(q)
              ELSE IF ~Allowed(verdict) THEN Reject(q, {r})
              ELSE IF mem[q].todo = {}  THEN Continue(q, "open", mem[q])
              ELSE CheckNext(q, "policies", mem[q])
    BY DEF decide_decrypt
  <1>3. mem[q].cur = {r} /\ r \in Resource
    BY <1>1 DEF Good, Checked, Checking, Locals
  <1> DEFINE verdict == check_decrypt_access(mem[q].policies, user(q), mem[q].roles, r,
                                             ScopeChain(r, mem[q].live), gov.tagRows)
  <1>4. CASE verdict # "error" /\ Allowed(verdict)
    <2>1. Cleared(q, r)
      BY <1>1, <1>3, <1>4, DecryptPermits DEF check_decrypt_access, Cleared
    <2>2. AllCleared(q, mem[q].actual \ mem[q].todo)
      BY <1>1, <1>3, <2>1 DEF Good, Checked, Rules, AllCleared
    <2>3. CASE mem[q].todo = {} /\ Continue(q, "open", mem[q])
      <3>1. AllCleared(q, mem[q].actual)
        BY <2>2, <2>3 DEF AllCleared
      <3>2. Routed(q, "open", mem[q]) /\ Checked(q, "open", mem[q]) /\ Early("open")
        BY <1>1, <3>1
           DEF Good, Routed, Checked, Checking, Rules, Running, Admitted, Early
      <3> QED BY <1>1, <2>3, <3>2, QuietKeeps
    <2>4. CASE CheckNext(q, "policies", mem[q])
      <3>1. Routed(q, "policies", mem[q])
        BY <1>1 DEF Good, Routed
      <3> QED BY <1>1, <2>2, <2>4, <3>1, CheckNextKeeps DEF ReadKinds
    <2> QED BY <1>2, <1>4, <2>3, <2>4
  <1>5. CASE ~(verdict # "error" /\ Allowed(verdict))
    BY <1>1, <1>2, <1>5, RaiseKeeps, RejectKeeps
  <1> QED BY <1>4, <1>5

\* Every step of a decryption keeps the invariant.
LEMMA DecryptKeeps ==
    ASSUME Typed, NEW q \in Request, Good(q, pc[q], mem[q]), Decrypt(q)
    PROVE  Keeps(q)
  <1> USE MemTyped
  <1>1. CASE get_decrypt_contexts(q)
    <2>1. pc[q] = "contexts" /\ Early(pc[q]) /\ Early("resources") /\ kind(q) = "decrypt"
      BY <1>1 DEF get_decrypt_contexts, Early, Good, Routed
    <2> DEFINE m == [mem[q] EXCEPT !.actual = Wanted(q)]
    <2>2. SameEvidence(mem[q], m)
      BY DEF Locals, SameEvidence
    <2>3. Raise(q) \/ Continue(q, "resources", m)
      BY <1>1 DEF get_decrypt_contexts
    <2> HIDE DEF m
    <2>4. Routed(q, "resources", m) /\ Checked(q, "resources", m)
      BY <2>1, <2>2
         DEF Good, Routed, SameEvidence, SeenRoles, Checked, Checking, Rules, Running, Admitted
    <2> QED BY <2>1, <2>2, <2>3, <2>4, SameKeeps, RaiseKeeps
  <1>2. CASE load_context_resources(q)
    <2>1. pc[q] = "resources" /\ Early(pc[q]) /\ kind(q) = "decrypt"
      BY <1>2 DEF load_context_resources, Early, Good, Routed
    <2> DEFINE m == [mem[q] EXCEPT !.todo = mem[q].actual]
    <2>2. SameEvidence(mem[q], m) /\ m \in Locals /\ m.todo = m.actual
      BY DEF Locals, SameEvidence
    <2>3. CheckNext(q, "policies", m) \/ Reject(q, mem[q].actual)
      BY <1>2 DEF load_context_resources
    <2> HIDE DEF m
    <2>4. Seen(q, m) /\ SeenRoles(q, m) /\ Routed(q, "policies", m)
      BY <2>1, <2>2, EvidenceKept DEF Good, Checked, Routed, SameEvidence
    <2>5. m.event = mem[q].event /\ m.ran = mem[q].ran /\ ~m.gate
      BY <2>1, <2>2 DEF SameEvidence, Good, Routed
    <2>6. AllCleared(q, m.actual \ m.todo)
      BY <2>2 DEF AllCleared
    <2> QED BY <2>1, <2>2, <2>3, <2>4, <2>5, <2>6, CheckNextKeeps, RejectKeeps DEF ReadKinds
  <1>3. CASE decrypt_values(q)
    <2>1. pc[q] = "open" /\ Early(pc[q]) /\ kind(q) = "decrypt" /\ AllCleared(q, mem[q].actual)
      BY <1>3 DEF decrypt_values, Early, Good, Routed, Checked
    <2> DEFINE m == [mem[q] EXCEPT !.ran = TRUE]
               n == [m EXCEPT !.event = [decision |-> "allowed", resources |-> mem[q].actual]]
    <2>2. n.gate = mem[q].gate /\ n.actual = mem[q].actual
      BY DEF Locals
    <2>3. Raise(q) \/ Continue(q, "commit", n)
      BY <1>3 DEF decrypt_values, Record
    <2> HIDE DEF n
    <2>4. ServedBy(q, n) \subseteq mem[q].actual
      BY <2>1, <2>2 DEF ServedBy
    <2> QED BY <2>1, <2>2, <2>3, <2>4, RaiseKeeps, AnswerKeeps
  <1> QED BY <1>1, <1>2, <1>3, DecideDecryptKeeps DEF Decrypt

-----------------------------------------------------------------------------
(* Whole steps: the request that moves, the others, and the administrators. *)

\* The window is as it was, or has more than it had.
Widens(p) ==
    /\ call'[p] = call[p]
    /\ window'[p] = window[p] \/ (window[p] # {} /\ window[p] \subseteq window'[p])

\* What holds at some moment can only become more, what holds all along only less.
LEMMA WindowGrows ==
    ASSUME NEW p, NEW r, Widens(p)
    PROVE  /\ user(p)' = user(p) /\ kind(p)' = kind(p)
           /\ EverApplicable(p, r) \subseteq EverApplicable(p, r)'
           /\ AlwaysRoles(p)' \subseteq AlwaysRoles(p)
           /\ AlwaysPolicies(p)' \subseteq AlwaysPolicies(p)
           /\ AlwaysChain(p, r)' \subseteq AlwaysChain(p, r)
           /\ AlwaysApplicable(p, r)' \subseteq AlwaysApplicable(p, r)
           /\ \A x : ActiveOnce(p, x) => ActiveOnce(p, x)'
  <1>1. user(p)' = user(p) /\ kind(p)' = kind(p) /\ window[p] \subseteq window'[p]
    BY DEF Widens, user, kind
  <1>2. EverRoles(p) \subseteq EverRoles(p)'
    BY <1>1 DEF EverRoles
  <1>3. EverPolicies(p) \subseteq EverPolicies(p)'
    BY <1>1 DEF EverPolicies
  <1>4. EverChain(p, r) \subseteq EverChain(p, r)'
    BY <1>1 DEF EverChain
  <1>5. EverTags(p, r) \subseteq EverTags(p, r)'
    BY <1>1 DEF EverTags
  <1>6. EverApplicable(p, r) \subseteq EverApplicable(p, r)'
    BY <1>1, <1>2, <1>3, <1>4, <1>5 DEF EverApplicable, Applicable, SubjectMatches, InScope
  <1>7. AlwaysRoles(p)' \subseteq AlwaysRoles(p)
    BY <1>1 DEF AlwaysRoles
  <1>8. AlwaysPolicies(p)' \subseteq AlwaysPolicies(p)
    BY <1>1 DEF AlwaysPolicies, EverPolicies, Widens
  <1>9. AlwaysChain(p, r)' \subseteq AlwaysChain(p, r)
    BY <1>1 DEF AlwaysChain
  <1>10. AlwaysTags(p, r)' \subseteq AlwaysTags(p, r)
    BY <1>1 DEF AlwaysTags
  <1>11. AlwaysApplicable(p, r)' \subseteq AlwaysApplicable(p, r)
    BY <1>1, <1>7, <1>8, <1>9, <1>10 DEF AlwaysApplicable, Applicable, SubjectMatches, InScope
  <1>12. \A x : ActiveOnce(p, x) => ActiveOnce(p, x)'
    BY <1>1 DEF ActiveOnce
  <1> QED BY <1>1, <1>6, <1>7, <1>8, <1>9, <1>11, <1>12

\* What has been checked remains so as the window grows.
LEMMA ClearedGrows ==
    ASSUME NEW p, NEW r, Widens(p)
    PROVE  /\ RowActive(p, r) => RowActive(p, r)'
           /\ EnabledOnce(p, r) => EnabledOnce(p, r)'
           /\ Cleared(p, r) => Cleared(p, r)'
  <1>1. Granted(p, r) => Granted(p, r)'
    BY WindowGrows DEF Granted
  <1>2. ~Overruled(p, r) => ~Overruled(p, r)'
    BY WindowGrows DEF Overruled
  <1>3. RowActive(p, r) => RowActive(p, r)'
    BY WindowGrows DEF RowActive
  <1>4. EnabledOnce(p, r) => EnabledOnce(p, r)'
    BY <1>3, WindowGrows DEF EnabledOnce
  <1> QED BY <1>1, <1>2, <1>3, <1>4, WindowGrows DEF Permitted, Cleared

\* A request that is good for place l and locals m is good once it stands there,
\* whatever its window has gained meanwhile.
LEMMA GoodGrows ==
    ASSUME NEW p, NEW l, NEW m, Good(p, l, m), pc'[p] = l, mem'[p] = m,
           Widens(p),
           l \notin {"idle", "done", "failed"} => gov' \in window'[p]
    PROVE  Good(p, pc[p], mem[p])'
  <1>1. kind(p)' = kind(p) /\ user(p)' = user(p) /\ call'[p] = call[p]
    BY WindowGrows DEF Widens
  <1>2. \A rs : /\ AllCleared(p, rs) => AllCleared(p, rs)'
                /\ AllEnabled(p, rs) => AllEnabled(p, rs)'
                /\ AllActive(p, rs) => AllActive(p, rs)'
    BY ClearedGrows DEF AllCleared, AllEnabled, AllActive
  <1>3. pc[p]' \notin {"commit", "reply", "done", "failed"} => Seen(p, mem[p])'
    <2>1. SUFFICES ASSUME Seen(p, m) PROVE Seen(p, mem[p])'
      BY DEF Good
    <2>2. m.roles \subseteq EverRoles(p)' /\ m.policies \subseteq EverPolicies(p)'
      BY <1>1, <2>1 DEF Seen, EverRoles, EverPolicies, Widens
    <2>3. m.live = {} \/ \E g \in window'[p] : m.live = LiveResources(g)
      BY <2>1 DEF Seen, Widens
    <2> QED BY <1>1, <2>1, <2>2, <2>3, WindowGrows DEF Seen
  <1>4. Routed(p, pc[p], mem[p])' /\ Unanswered(pc[p], mem[p])'
    BY <1>1 DEF Good, Routed, Unanswered
  <1>5. /\ SeenRoles(p, m) => SeenRoles(p, m)'
        /\ SeenPolicies(p, m) => SeenPolicies(p, m)'
        /\ SeenChain(p, m) => SeenChain(p, m)'
    BY WindowGrows DEF SeenRoles, SeenPolicies, SeenChain
  <1>6. Checked(p, pc[p], mem[p])'
    BY <1>1, <1>2, <1>5 DEF Good, Checked
  <1>7. ServedBy(p, mem[p])' = ServedBy(p, m)
    BY <1>1 DEF ServedBy
  <1>8. AllCleared(p, ServedBy(p, mem[p]))'
    BY <1>2, <1>7 DEF Good
  <1> QED BY <1>1, <1>3, <1>4, <1>6, <1>8 DEF Good

\* The request itself moves; nothing of the others changes.
LEMMA KeepsGood ==
    ASSUME Typed, NEW q \in Request, NEW p \in Request, Good(p, pc[p], mem[p]), Keeps(q)
    PROVE  Good(p, pc[p], mem[p])'
  <1>1. PICK l, m : Continue(q, l, m) /\ Good(q, l, m)
    BY DEF Keeps
  <1>2. /\ gov' = gov /\ call' = call /\ window' = window
        /\ p # q => pc'[p] = pc[p] /\ mem'[p] = mem[p]
        /\ pc'[q] = l /\ mem'[q] = m
    BY <1>1 DEF Continue, govVars, served, Typed, TypeOK
  <1>3. PICK k, n : k = pc'[p] /\ n = mem'[p]
    OBVIOUS
  <1>4. Good(p, k, n)
    BY <1>1, <1>2, <1>3
  <1>5. k \notin {"idle", "done", "failed"} => gov' \in window'[p]
    BY <1>2, <1>4 DEF Good
  <1> QED BY <1>2, <1>3, <1>4, <1>5, GoodGrows DEF Widens

\* The request starts its window, or commits; nothing of the others changes.
LEMMA StartCommitGood ==
    ASSUME Typed, NEW q \in Request, NEW p \in Request, Good(p, pc[p], mem[p]),
           Start(q) \/ commit(q)
    PROVE  Good(p, pc[p], mem[p])'
  <1>1. gov' = gov /\ call' = call /\ mem' = mem
    BY DEF Start, commit, govVars, served
  <1>2. PICK k, n : k = pc'[p] /\ n = mem'[p]
    OBVIOUS
  <1>3. CASE p # q
    <2>1. pc'[p] = pc[p] /\ window'[p] = window[p]
      BY <1>3 DEF Start, commit, served, Typed, TypeOK
    <2> QED BY <1>1, <1>2, <2>1, GoodGrows DEF Good, Widens
  <1>4. CASE p = q /\ Start(q)
    <2>1. pc'[p] = "key" /\ window'[p] = {gov} /\ n = Fresh
      BY <1>1, <1>2, <1>4 DEF Start, Typed, TypeOK, Good
    <2>2. /\ n.roles = {} /\ n.policies = {} /\ n.live = {} /\ ~n.gate /\ ~n.ran
          /\ n.event.decision = "none" /\ n.dsStatus = "absent"
          /\ \A r \in Resource : n.held[r] = "absent"
      BY <2>1 DEF Fresh
    <2>3. Seen(p, mem[p])' /\ Routed(p, pc[p], mem[p])' /\ Unanswered(pc[p], mem[p])'
      BY <1>2, <2>1, <2>2 DEF Seen, Routed, Unanswered
    <2>4. Checked(p, pc[p], mem[p])'
      BY <1>2, <2>1, <2>2 DEF Checked, Checking, Rules, Running, Admitted
    <2>5. ServedBy(p, mem[p])' = {}
      BY <1>2, <2>2 DEF ServedBy
    <2> QED BY <1>1, <2>1, <2>3, <2>4, <2>5 DEF Good, AllCleared
  <1>5. CASE p = q /\ commit(q)
    <2>1. k = "reply" /\ pc[p] = "commit" /\ window'[p] = window[p] /\ n = mem[p]
      BY <1>1, <1>2, <1>5 DEF commit, served, Typed, TypeOK
    <2>2. Good(p, k, n)
      BY <2>1 DEF Good, Routed, Unanswered, Checked, Checking, Rules, Running, Admitted
    <2> QED BY <1>1, <1>2, <2>1, <2>2, GoodGrows DEF Good, Widens
  <1> QED BY <1>3, <1>4, <1>5

\* A step of one request keeps every request good.
LEMMA HandleGood ==
    ASSUME Typed, NEW q \in Request, \A p \in Request : Good(p, pc[p], mem[p]), Handle(q)
    PROVE  \A p \in Request : Good(p, pc[p], mem[p])'
  <1>1. CASE Start(q) \/ commit(q)
    BY <1>1, StartCommitGood
  <1>2. CASE reply(q)
    <2>1. Good(q, "done", mem[q]) /\ Continue(q, "done", mem[q])
      BY <1>2 DEF reply, Good, Routed, Unanswered, Checked, Checking, Rules, Running, Admitted
    <2> QED BY <2>1, KeepsGood DEF Keeps
  <1>3. CASE crash(q)
    BY <1>3, RaiseKeeps, KeepsGood DEF crash
  <1> QED
    BY <1>1, <1>2, <1>3, AuthenticateKeeps, CheckResourceKeeps, ExecuteQueryKeeps,
       ListResourcesKeeps, DecryptKeeps, KeepsGood DEF Handle

\* An edit adds to the windows of the requests in flight, and takes from none.
LEMMA AdminsGood ==
    ASSUME Typed, NEW p \in Request, Good(p, pc[p], mem[p]), Admins
    PROVE  Good(p, pc[p], mem[p])'
  <1>1. /\ pc'[p] = pc[p] /\ mem'[p] = mem[p] /\ call'[p] = call[p]
        /\ window'[p] = IF InFlight(p) THEN window[p] \cup {gov'} ELSE window[p]
    BY DEF Admins
  <1>2. PICK k, n : k = pc[p] /\ n = mem[p]
    OBVIOUS
  <1> QED BY <1>1, <1>2, GoodGrows DEF InFlight, Good, Widens

\* Every step of the gateway keeps the invariant.
LEMMA GrantStep == GrantInv /\ [Next]_vars => GrantInv'
  <1> SUFFICES ASSUME GrantInv, [Next]_vars PROVE GrantInv'
    OBVIOUS
  <1>1. Typed' /\ Typed
    BY TypedStep DEF GrantInv
  <1>2. ASSUME NEW p \in Request, Tick \/ UNCHANGED vars
        PROVE  Good(p, pc[p], mem[p])'
    <2>1. gov' = gov /\ pc' = pc /\ mem' = mem /\ call' = call /\ window' = window
      BY <1>2 DEF Tick, vars, govVars, served
    <2>2. PICK k, n : k = pc[p] /\ n = mem[p]
      OBVIOUS
    <2> QED BY <2>1, <2>2, GoodGrows DEF GrantInv, Good, Widens
  <1>3. \A p \in Request : Good(p, pc[p], mem[p])'
    BY <1>1, <1>2, HandleGood, AdminsGood DEF GrantInv, Next
  <1> QED BY <1>1, <1>3 DEF GrantInv

\* Before its first read a request has served nothing.
LEMMA GrantInit == Init => GrantInv
  <1> SUFFICES ASSUME Init, NEW p \in Request PROVE Good(p, pc[p], mem[p])
    BY TypedInit DEF GrantInv
  <1>1. pc[p] = "idle" /\ mem[p] = Fresh /\ call[p] \in Calls
    BY DEF Init
  <1>2. /\ Fresh.roles = {} /\ Fresh.policies = {} /\ Fresh.live = {} /\ ~Fresh.gate
        /\ ~Fresh.ran /\ Fresh.event.decision = "none" /\ Fresh.dsStatus = "absent"
        /\ \A r \in Resource : Fresh.held[r] = "absent"
    BY DEF Fresh
  <1>3. ServedBy(p, mem[p]) = {}
    BY <1>1, <1>2 DEF ServedBy
  <1> QED
    BY <1>1, <1>2, <1>3 DEF Good, Seen, Routed, Unanswered, Checked, Checking, Rules, Running,
                            Admitted, AllCleared

\* What a request has served has passed all checks.
LEMMA ServedIsCleared ==
    ASSUME GrantInv, NEW q \in Request, NEW r \in Served(q)
    PROVE  Cleared(q, r)
  <1>1. Served(q) = ServedBy(q, mem[q])
    BY DEF Served, ServedBy, kind
  <1> QED BY <1>1 DEF GrantInv, Good, AllCleared

\* Default deny survives every interleaving: no resource is read, described,
\* listed or decrypted unless a rule that allows it to the caller was in force
\* at some moment of the request.
THEOREM OnlyGrantedIsServed == Spec => []ServedOnlyWithGrant
  <1>1. GrantInv => ServedOnlyWithGrant
    BY ServedIsCleared DEF ServedOnlyWithGrant, Cleared, Permitted, Granted, kind
  <1> QED BY <1>1, GrantInit, GrantStep, PTL DEF Spec

\* A deny rule in force throughout a request, and no less specific than any rule
\* that may have applied, is never overridden, although the roles, rules, parents
\* and tags the verdict rests on are read at different moments.
THEOREM StandingDenyIsFinal == Spec => []StandingDenyHolds
  <1>1. GrantInv => StandingDenyHolds
    BY ServedIsCleared DEF StandingDenyHolds, Cleared, Permitted, Overruled
  <1> QED BY <1>1, GrantInit, GrantStep, PTL DEF Spec

\* Nothing is read, described or listed while it, its datasource or a parent is
\* disabled throughout the request.
THEOREM StandingDisableIsFinal == Spec => []StandingDisableHolds
  <1>1. GrantInv => StandingDisableHolds
    BY ServedIsCleared
       DEF StandingDisableHolds, Cleared, EnabledOnce, RowActive, ActiveOnce, kind
  <1> QED BY <1>1, GrantInit, GrantStep, PTL DEF Spec

-----------------------------------------------------------------------------
(* What a request has shown, and what it leaves on record: no column that  *)
(* is disabled or denied to the caller throughout, no cell that is masked  *)
(* for the caller throughout, and an audit event and a decrypt context for *)
(* whatever the client can have seen.  The invariant (OutcomeInv) rests on *)
(* GrantInv: that the roles a request holds include those the caller has   *)
(* throughout.                                                             *)
(*                                                                         *)
(* The last part follows a query during which no edit is committed         *)
(* (ExactInv): each of its locals is what the one content of the control   *)
(* plane makes it, so that it decides exactly as PermittedQuery does.      *)

\* A column that is not disabled at some moment; one denied, or masked, to the
\* caller at every moment.
LiveOnce(q, c) == \E g \in window[q] : g.status[c] # "disabled"

Barred(q, c) ==
    \E p \in FieldPolicyRows :
        /\ <<p.resource, p.field>> = c /\ p.effect = "deny" /\ StandingSubject(q, p)
        /\ \A g \in window[q] : p \in g.fieldPolicies

Masked(q, c) ==
    \E m \in MaskRows :
        /\ <<m.resource, m.field>> = c /\ StandingSubject(q, m)
        /\ \A g \in window[q] : m \in g.masks

AllLive(q, rs, fs)     == \A r \in rs, f \in fs : LiveOnce(q, <<r, f>>)
NoneBarred(q, rs, fs)  == \A r \in rs, f \in fs : ~Barred(q, <<r, f>>)
NoneMasked(q, rs, fs)  == \A r \in rs, f \in fs : ~Masked(q, <<r, f>>)

\* The columns named as the catalog spells them, and Shown, for locals m.
NamesIn(q, m) == IF call[q].shape = "wildcard" THEN {} ELSE m.columns \cap Field
ShownBy(q, m) ==
    IF ServedBy(q, m) = {} \/ kind(q) \notin ReadKinds THEN {}
    ELSE (IF kind(q) = "describe" THEN call[q].declared ELSE call[q].touched) \X NamesIn(q, m)

\* A mask in force all along can be applied to the statement's result.
Maskable(q, m) ==
    /\ call[q].shape \in {"wildcard", "nested"} => NoneMasked(q, call[q].touched, Field)
    /\ call[q].shape = "unaliased" => NoneMasked(q, call[q].touched, Columns(m.columns))

Stated == {"scope", "declare", "guard", "resolve", "resolved"} \cup Running

\* What a request at place l knows of its columns.
Placed(q, l, m) ==
    /\ l \in Stated => kind(q) \in {"query", "preview"}
    /\ l \in {"load", "fields", "columns"} => m.gate
    /\ l \in Checking /\ kind(q) = "describe" => m.gate
    /\ l \in {"fields", "columns"} => m.cur = call[q].declared
    /\ l = "columns" => AllLive(q, m.cur, m.columns)
    /\ l \in {"resolve", "resolved"} \cup Running => call[q].shape # "forbidden"
    /\ l \in {"fieldAccess", "projection", "execute", "mask"} =>
          AllLive(q, call[q].touched, NamesIn(q, m))
    /\ l \in {"projection", "execute", "mask"} =>
          NoneBarred(q, call[q].touched, NamesIn(q, m))
    /\ l \in {"execute", "mask"} => Maskable(q, m)

\* What it has to show, and to record.
Outcome(q, l, m) ==
    /\ l \notin {"commit", "reply", "done"} => m.plain = {} /\ m.minted = NoContext
    /\ \A c \in m.plain : ~Masked(q, c)
    /\ \A c \in ShownBy(q, m) : LiveOnce(q, c) /\ ~Barred(q, c)
    /\ l \in {"commit", "reply", "done"} /\ kind(q) \in {"query", "preview"} /\ m.ran =>
          m.event = [decision |-> "allowed", resources |-> call[q].touched]
    /\ m.minted # NoContext => m.minted.user = user(q) /\ m.minted.resources = call[q].touched

Clean(q, l, m) == Placed(q, l, m) /\ Outcome(q, l, m)

\* What is committed of a request before it replies.
OnRecord(q) ==
    pc[q] \in {"reply", "done"} =>
        /\ <<q, mem[q].event>> \in audit
        /\ mem[q].minted # NoContext => contexts[q] = mem[q].minted

OutcomeInv == GrantInv /\ \A q \in Request : Clean(q, pc[q], mem[q]) /\ OnRecord(q)

-----------------------------------------------------------------------------
(* A step that moves its request and keeps its part of the invariant. *)

Cleanly(q) ==
    \E l, m : Continue(q, l, m) /\ Clean(q, l, m) /\ l \notin {"reply", "done"}

SameResult(m, n) ==
    m.event = n.event /\ m.ran = n.ran /\ m.plain = n.plain /\ m.minted = n.minted

\* Before the statement runs there is nothing to show.
LEMMA EarlyClean ==
    ASSUME NEW q \in Request, Good(q, pc[q], mem[q]), Clean(q, pc[q], mem[q]), Early(pc[q]),
           NEW l, NEW m, Early(l), Continue(q, l, m), SameResult(mem[q], m), Placed(q, l, m)
    PROVE  Cleanly(q)
  <1>1. m.event.decision # "allowed" /\ ~m.ran /\ m.plain = {} /\ m.minted = NoContext
    BY DEF Good, Unanswered, Early, Clean, Outcome, SameResult
  <1>2. ShownBy(q, m) = {}
    BY <1>1 DEF ServedBy, ShownBy
  <1>3. Outcome(q, l, m)
    BY <1>1, <1>2 DEF Outcome
  <1> QED BY <1>3 DEF Cleanly, Clean, Early

\* A handler that raises has nothing left to show.
LEMMA RaiseClean ==
    ASSUME NEW q \in Request, Raise(q)
    PROVE  Cleanly(q)
  <1> DEFINE m == [Fresh EXCEPT !.ran = mem[q].ran]
  <1>1. m.columns = {} /\ m.plain = {} /\ m.minted = NoContext
    BY DEF Fresh
  <1>2. Continue(q, "failed", m)
    BY DEF Raise
  <1> HIDE DEF m
  <1>3. ShownBy(q, m) = {}
    BY <1>1 DEF ShownBy, NamesIn
  <1>4. Clean(q, "failed", m)
    BY <1>1, <1>3 DEF Clean, Placed, Outcome, Stated, Running, Checking
  <1> QED BY <1>2, <1>4 DEF Cleanly

\* What a handler has recorded is what it shows.
LEMMA CommitClean ==
    ASSUME NEW q, NEW n, Continue(q, "commit", n), Outcome(q, "commit", n)
    PROVE  Cleanly(q)
  BY DEF Cleanly, Clean, Placed, Stated, Running, Checking

\* A request that is turned away, or fails, shows nothing.
LEMMA DeniedClean ==
    ASSUME Typed, NEW q \in Request, Good(q, pc[q], mem[q]), Clean(q, pc[q], mem[q]),
           Early(pc[q]), NEW decision \in {"denied", "error"}, NEW resources,
           Record(q, decision, resources, mem[q])
    PROVE  Cleanly(q)
  <1> DEFINE n == [mem[q] EXCEPT !.event = [decision |-> decision, resources |-> resources]]
  <1>1. ~n.ran /\ n.event.decision # "allowed" /\ n.plain = {} /\ n.minted = NoContext
    BY MemTyped DEF Locals, Good, Unanswered, Early, Clean, Outcome
  <1>2. Continue(q, "commit", n)
    BY DEF Record
  <1> HIDE DEF n
  <1>3. ShownBy(q, n) = {}
    BY <1>1 DEF ServedBy, ShownBy
  <1> QED BY <1>1, <1>2, <1>3, CommitClean DEF Outcome

\* A rejected request shows nothing.
LEMMA RejectClean ==
    ASSUME Typed, NEW q \in Request, Good(q, pc[q], mem[q]), Clean(q, pc[q], mem[q]),
           Early(pc[q]), NEW resources, Reject(q, resources)
    PROVE  Cleanly(q)
  BY DeniedClean DEF Reject

\* The resource to check next is not looked at yet.
LEMMA NextClean ==
    ASSUME NEW q \in Request, Good(q, pc[q], mem[q]), Clean(q, pc[q], mem[q]), Early(pc[q]),
           NEW l \in {"load", "datasource", "policies"}, NEW m \in Locals, CheckNext(q, l, m),
           SameResult(mem[q], m), l = "load" \/ kind(q) = "describe" => m.gate
    PROVE  Cleanly(q)
  <1>1. PICK r \in m.todo : Continue(q, l, [m EXCEPT !.todo = @ \ {r}, !.cur = {r}])
    BY DEF CheckNext
  <1> DEFINE n == [m EXCEPT !.todo = @ \ {r}, !.cur = {r}]
  <1>2. n.gate = m.gate /\ SameResult(mem[q], n)
    BY DEF Locals, SameResult
  <1>3. Continue(q, l, n)
    BY <1>1
  <1> HIDE DEF n
  <1>4. Placed(q, l, n) /\ Early(l)
    BY <1>2 DEF Placed, Stated, Running, Checking, Early
  <1> QED BY <1>2, <1>3, <1>4, EarlyClean

-----------------------------------------------------------------------------
(* The handlers' steps, one by one. *)

\* Establishing the identity shows nothing.
LEMMA AuthenticateClean ==
    ASSUME Typed, NEW q \in Request, Good(q, pc[q], mem[q]), Clean(q, pc[q], mem[q]),
           Authenticate(q)
    PROVE  Cleanly(q)
  <1> USE MemTyped DEF Stated, Running, Checking
  <1>1. ASSUME NEW l \in {"user", "roles"}, pc[q] \in {"key", "user"}, Continue(q, l, mem[q])
        PROVE  Cleanly(q)
    <2>1. Early(pc[q]) /\ Early(l) /\ Placed(q, l, mem[q]) /\ SameResult(mem[q], mem[q])
      BY <1>1 DEF Early, Placed, SameResult
    <2> QED BY <1>1, <2>1, EarlyClean
  <1>2. CASE authenticate_api_key_value(q)
    BY <1>1, <1>2, RaiseClean DEF authenticate_api_key_value
  <1>3. CASE load_user(q)
    BY <1>1, <1>3, RaiseClean DEF load_user
  <1>4. CASE load_roles(q)
    <2> DEFINE gated == call[q].kind \in {"preview", "describe"}
               m == [mem[q] EXCEPT !.roles = ActiveRoles(gov, user(q)),
                                   !.columns = call[q].fields,
                                   !.gate = gated,
                                   !.todo = call[q].declared]
    <2>1. \/ kind(q) = "query" /\ Continue(q, "scope", m)
          \/ kind(q) = "list" /\ Continue(q, "list", m)
          \/ kind(q) = "decrypt" /\ Continue(q, "contexts", m)
          \/ gated /\ CheckNext(q, "load", m)
      BY <1>4 DEF load_roles, kind, Call, Kinds
    <2>2. gated \in BOOLEAN /\ (kind(q) = "describe" => gated)
      BY DEF kind
    <2> HIDE DEF gated
    <2>3. m \in Locals /\ (m.gate <=> gated) /\ SameResult(mem[q], m)
      BY <2>2, GovTyped DEF Locals, Call, SameResult
    <2> HIDE DEF m
    <2>4. Early(pc[q])
      BY <1>4 DEF load_roles, Early
    <2>5. ASSUME NEW l \in {"scope", "list", "contexts"}, Continue(q, l, m),
                 l = "scope" => kind(q) = "query"
          PROVE  Cleanly(q)
      <3>1. Placed(q, l, m) /\ Early(l)
        BY <2>5 DEF Placed, Early
      <3> QED BY <2>3, <2>4, <2>5, <3>1, EarlyClean
    <2> QED BY <2>1, <2>2, <2>3, <2>4, <2>5, NextClean
  <1> QED BY <1>2, <1>3, <1>4 DEF Authenticate

\* A column offered by describe or preview is active when it is read.
LEMMA LoadClean ==
    ASSUME Typed, NEW q \in Request, Good(q, pc[q], mem[q]), Clean(q, pc[q], mem[q]),
           get_resource(q) \/ active_fields(q)
    PROVE  Cleanly(q)
  <1> USE MemTyped DEF Stated, Running, Checking
  <1>1. CASE get_resource(q)
    <2>1. PICK r \in mem[q].cur :
            IF ~Present(gov, r) THEN Raise(q)
            ELSE Continue(q, "datasource", [mem[q] EXCEPT !.held[r] = gov.status[r]])
      BY <1>1 DEF get_resource
    <2> DEFINE m == [mem[q] EXCEPT !.held[r] = gov.status[r]]
    <2>2. SameResult(mem[q], m) /\ m.gate = mem[q].gate
      BY DEF Locals, SameResult
    <2>3. Raise(q) \/ Continue(q, "datasource", m)
      BY <2>1
    <2> HIDE DEF m
    <2>4. Early(pc[q]) /\ Early("datasource") /\ mem[q].gate
      BY <1>1 DEF get_resource, Early, Clean, Placed
    <2>5. Placed(q, "datasource", m)
      BY <2>2, <2>4 DEF Placed
    <2> QED BY <2>2, <2>3, <2>4, <2>5, EarlyClean, RaiseClean
  <1>2. CASE active_fields(q)
    <2> DEFINE cols(r) == {f \in Field : gov.status[<<r, f>>] = "active"}
    <2>1. PICK r \in mem[q].cur : Continue(q, "columns", [mem[q] EXCEPT !.columns = cols(r)])
      BY <1>2 DEF active_fields
    <2> DEFINE m == [mem[q] EXCEPT !.columns = cols(r)]
    <2>2. SameResult(mem[q], m) /\ m.gate = mem[q].gate /\ m.cur = mem[q].cur /\ m.columns = cols(r)
      BY DEF Locals, SameResult
    <2>3. Continue(q, "columns", m)
      BY <2>1
    <2> HIDE DEF m
    <2>4. /\ Early(pc[q]) /\ Early("columns") /\ mem[q].gate /\ mem[q].cur = call[q].declared
          /\ gov \in window[q] /\ kind(q) \in {"preview", "describe"}
      BY <1>2 DEF active_fields, Early, Clean, Placed, Good, Routed
    <2>5. mem[q].cur = {r}
      BY <2>1, <2>4, GatewayConstants DEF kind, Good
    <2>6. AllLive(q, m.cur, m.columns)
      BY <2>2, <2>4, <2>5 DEF AllLive, LiveOnce
    <2>7. Placed(q, "columns", m)
      BY <2>2, <2>4, <2>6 DEF Placed
    <2> QED BY <2>2, <2>3, <2>4, <2>7, EarlyClean
  <1> QED BY <1>1, <1>2

\* A column that no current rule closes to the caller is not barred throughout.
LEMMA ReadableNotBarred ==
    ASSUME NEW q, NEW roles, AlwaysRoles(q) \subseteq roles, gov \in window[q],
           NEW rs, NEW fs, NEW gs,
           gs \cap first_inaccessible_field(gov.fieldPolicies, user(q), roles, rs, fs) = {},
           gs \subseteq fs
    PROVE  NoneBarred(q, rs, gs)
  <1>1. SUFFICES ASSUME NEW r \in rs, NEW f \in gs, Barred(q, <<r, f>>) PROVE FALSE
    BY DEF NoneBarred
  <1>2. PICK p \in FieldPolicyRows :
          /\ p.resource = r /\ p.field = f /\ p.effect = "deny" /\ StandingSubject(q, p)
          /\ p \in gov.fieldPolicies
    BY <1>1 DEF Barred
  <1>3. SubjectMatches(p, user(q), roles)
    BY <1>2 DEF StandingSubject, SubjectMatches
  <1>4. ~FieldReadable(FieldPoliciesOn(gov.fieldPolicies, r, f), user(q), roles)
    BY <1>2, <1>3 DEF FieldReadable, FieldPoliciesOn, Has
  <1> QED BY <1>4 DEF first_inaccessible_field

\* What describe shows is neither disabled nor barred.
LEMMA DescribeClean ==
    ASSUME Typed, NEW q \in Request, Good(q, pc[q], mem[q]), Clean(q, pc[q], mem[q]),
           readable_fields(q)
    PROVE  Cleanly(q)
  <1> USE MemTyped DEF Stated, Running, Checking
  <1> DEFINE closed == first_inaccessible_field(gov.fieldPolicies, user(q), mem[q].roles,
                                                mem[q].cur, mem[q].columns)
             m == [mem[q] EXCEPT !.columns = @ \ closed]
             n == [m EXCEPT !.gate = FALSE]
             a == [m EXCEPT !.event = [decision |-> "allowed", resources |-> m.cur]]
  <1>1. /\ pc[q] = "columns" /\ Early(pc[q]) /\ kind(q) \in {"preview", "describe"}
        /\ mem[q].cur = call[q].declared /\ gov \in window[q]
        /\ AlwaysRoles(q) \subseteq mem[q].roles
        /\ AllLive(q, mem[q].cur, mem[q].columns)
    BY DEF readable_fields, Early, Good, Routed, Checked, SeenRoles, Clean, Placed
  <1>2. NoneBarred(q, mem[q].cur, mem[q].columns \ closed)
    BY <1>1, ReadableNotBarred
  <1> HIDE DEF closed
  <1>3. /\ SameResult(mem[q], n) /\ a.columns = mem[q].columns \ closed
        /\ a.plain = mem[q].plain /\ a.minted = mem[q].minted
    BY DEF Locals, SameResult
  <1>4. \/ kind(q) = "describe" /\ Continue(q, "commit", a)
        \/ Reject(q, m.cur)
        \/ kind(q) # "describe" /\ Continue(q, "scope", n)
    BY DEF readable_fields, closed, kind, Record
  <1> HIDE DEF m, n, a
  <1>5. CASE kind(q) = "describe" /\ Continue(q, "commit", a)
    <2>1. \A c \in ShownBy(q, a) : LiveOnce(q, c) /\ ~Barred(q, c)
      BY <1>1, <1>2, <1>3, <1>5 DEF ShownBy, NamesIn, AllLive, NoneBarred
    <2>2. a.plain = {} /\ a.minted = NoContext
      BY <1>1, <1>3 DEF Clean, Outcome
    <2> QED BY <1>5, <2>1, <2>2, CommitClean DEF Outcome
  <1>6. CASE kind(q) # "describe" /\ Continue(q, "scope", n)
    <2>1. Placed(q, "scope", n) /\ Early("scope")
      BY <1>1, <1>6 DEF Placed, Early
    <2> QED BY <1>1, <1>3, <1>6, <2>1, EarlyClean
  <1> QED BY <1>1, <1>4, <1>5, <1>6, RejectClean

\* Reading the declared scope shows nothing.
LEMMA ScopeClean ==
    ASSUME Typed, NEW q \in Request, Good(q, pc[q], mem[q]), Clean(q, pc[q], mem[q]),
           get_datasource(q) \/ get_declared_resource(q)
    PROVE  Cleanly(q)
  <1> USE MemTyped DEF Stated, Running, Checking
  <1>1. /\ pc[q] \in {"scope", "declare"} /\ Early(pc[q])
        /\ kind(q) \in {"query", "preview"}
    BY DEF get_datasource, get_declared_resource, Early, Clean, Placed
  <1>2. ASSUME NEW l \in {"declare", "guard"}, NEW m, Continue(q, l, m), SameResult(mem[q], m)
        PROVE  Cleanly(q)
    <2>1. Placed(q, l, m) /\ Early(l)
      BY <1>1 DEF Placed, Early
    <2> QED BY <1>1, <1>2, <2>1, EarlyClean
  <1>3. CASE get_datasource(q)
    <2> DEFINE m == [mem[q] EXCEPT !.dsStatus = gov.status[call[q].ds], !.todo = call[q].declared]
    <2>1. Reject(q, call[q].declared) \/ Raise(q) \/ Continue(q, "declare", m)
      BY <1>3 DEF get_datasource
    <2>2. SameResult(mem[q], m)
      BY DEF Locals, SameResult
    <2> QED BY <1>1, <1>2, <2>1, <2>2, RaiseClean, RejectClean
  <1>4. CASE get_declared_resource(q)
    <2> DEFINE m == [mem[q] EXCEPT !.todo = call[q].declared]
    <2>1. \/ \E r \in mem[q].todo : Continue(q, "declare", [mem[q] EXCEPT !.todo = @ \ {r}])
          \/ \E r \in mem[q].todo :
                Continue(q, "declare", [mem[q] EXCEPT !.todo = @ \ {r}, !.held[r] = gov.status[r]])
          \/ Raise(q)
          \/ CheckNext(q, "datasource", m)
          \/ Continue(q, "guard", mem[q])
      BY <1>4 DEF get_declared_resource
    <2>2. /\ m \in Locals /\ SameResult(mem[q], m) /\ SameResult(mem[q], mem[q])
          /\ \A r : /\ SameResult(mem[q], [mem[q] EXCEPT !.todo = @ \ {r}])
                    /\ SameResult(mem[q],
                           [mem[q] EXCEPT !.todo = @ \ {r}, !.held[r] = gov.status[r]])
      BY DEF Locals, Call, SameResult
    <2> HIDE DEF m
    <2> QED BY <1>1, <1>2, <2>1, <2>2, NextClean, RaiseClean
  <1> QED BY <1>3, <1>4

\* The access checks of one resource show nothing.
LEMMA RulesClean ==
    ASSUME Typed, NEW q \in Request, Good(q, pc[q], mem[q]), Clean(q, pc[q], mem[q]),
           \/ check_datasource_and_row(q) \/ check_ancestors(q)
           \/ load_policies(q) \/ load_chain(q)
    PROVE  Cleanly(q)
  <1> USE MemTyped DEF Stated, Running, Checking
  <1>1. pc[q] \in Checking /\ Early(pc[q]) /\ (kind(q) = "describe" => mem[q].gate)
    BY DEF check_datasource_and_row, check_ancestors, load_policies, load_chain, Early,
           Clean, Placed
  <1>2. ASSUME NEW l \in Checking, NEW m, Continue(q, l, m), SameResult(mem[q], m),
               m.gate = mem[q].gate
        PROVE  Cleanly(q)
    <2>1. Placed(q, l, m) /\ Early(l)
      BY <1>1, <1>2 DEF Placed, Early
    <2> QED BY <1>1, <1>2, <2>1, EarlyClean
  <1> DEFINE p == [mem[q] EXCEPT !.policies = gov.policies]
             c == [mem[q] EXCEPT !.live = LiveResources(gov)]
  <1>3. /\ SameResult(mem[q], mem[q]) /\ SameResult(mem[q], p) /\ SameResult(mem[q], c)
        /\ p.gate = mem[q].gate /\ c.gate = mem[q].gate
    BY DEF Locals, SameResult
  <1>4. \/ \E l \in {"ancestors", "policies"} : Continue(q, l, mem[q])
        \/ Continue(q, "chain", p) \/ Continue(q, "tags", c)
        \/ Reject(q, call[q].declared)
    BY DEF check_datasource_and_row, check_ancestors, load_policies, load_chain
  <1> QED BY <1>1, <1>2, <1>3, <1>4, RejectClean

\* Nor does a verdict.
LEMMA DecideClean ==
    ASSUME Typed, NEW q \in Request, Good(q, pc[q], mem[q]), Clean(q, pc[q], mem[q]),
           decide_read(q)
    PROVE  Cleanly(q)
  <1> USE MemTyped DEF Stated, Running, Checking
  <1>1. /\ pc[q] = "tags" /\ Early(pc[q]) /\ kind(q) \in ReadKinds
        /\ kind(q) = "describe" => mem[q].gate
        /\ mem[q].gate => mem[q].cur = call[q].declared
    BY DEF decide_read, Early, Good, Checked, Clean, Placed, kind, ReadKinds
  <1>2. \/ Raise(q) \/ Reject(q, call[q].declared)
        \/ mem[q].gate /\ Continue(q, "fields", mem[q])
        \/ ~mem[q].gate /\ Continue(q, "guard", mem[q])
        \/ ~mem[q].gate /\ CheckNext(q, "datasource", mem[q])
    BY DEF decide_read
  <1>3. SameResult(mem[q], mem[q])
    BY DEF SameResult
  <1>4. mem[q].gate => Placed(q, "fields", mem[q]) /\ Early("fields")
    BY <1>1 DEF Placed, Early
  <1>5. ~mem[q].gate => Placed(q, "guard", mem[q]) /\ Early("guard") /\ kind(q) # "describe"
    BY <1>1 DEF Placed, Early, ReadKinds
  <1> QED BY <1>1, <1>2, <1>3, <1>4, <1>5, EarlyClean, NextClean, RaiseClean, RejectClean

\* Every step of the check of declared resources keeps the invariant.
LEMMA CheckResourceClean ==
    ASSUME Typed, NEW q \in Request, Good(q, pc[q], mem[q]), Clean(q, pc[q], mem[q]),
           CheckResource(q)
    PROVE  Cleanly(q)
  BY LoadClean, DescribeClean, ScopeClean, RulesClean, DecideClean DEF CheckResource

\* A mask in force all along is among those that apply now.
LEMMA MaskFound ==
    ASSUME NEW q, NEW roles, AlwaysRoles(q) \subseteq roles, gov \in window[q],
           NEW rs, NEW r \in rs, NEW f, Masked(q, <<r, f>>)
    PROVE  \E m \in MasksOn(gov, rs, user(q), roles) : m.field = f
  <1>1. PICK m \in MaskRows :
          m.resource = r /\ m.field = f /\ StandingSubject(q, m) /\ m \in gov.masks
    BY DEF Masked
  <1>2. SubjectMatches(m, user(q), roles)
    BY <1>1 DEF StandingSubject, SubjectMatches
  <1> QED BY <1>1, <1>2 DEF MasksOn

\* A statement that passes the projection check has no output a standing mask
\* could be lost on.
LEMMA ProjectionMaskable ==
    ASSUME NEW q, AlwaysRoles(q) \subseteq mem[q].roles, gov \in window[q],
           ~ProjectionRejected(q, MasksOn(gov, call[q].touched, user(q), mem[q].roles))
    PROVE  Maskable(q, mem[q])
  <1>1. ASSUME call[q].shape \in {"wildcard", "nested"}
        PROVE  NoneMasked(q, call[q].touched, Field)
    BY <1>1, MaskFound DEF ProjectionRejected, NoneMasked
  <1>2. ASSUME call[q].shape = "unaliased"
        PROVE  NoneMasked(q, call[q].touched, Columns(mem[q].columns))
    <2>1. SUFFICES ASSUME NEW r \in call[q].touched, NEW f \in Columns(mem[q].columns),
                          Masked(q, <<r, f>>)
                   PROVE  FALSE
      BY DEF NoneMasked
    <2>2. PICK m \in MasksOn(gov, call[q].touched, user(q), mem[q].roles) : m.field = f
      BY <2>1, MaskFound
    <2>3. f \in Columns(Names(q))
      BY <1>2 DEF Names
    <2> QED BY <1>2, <2>2, <2>3 DEF ProjectionRejected
  <1> QED BY <1>1, <1>2 DEF Maskable

\* The statement runs once its columns are live and readable, and its masks fit.
LEMMA GuardClean ==
    ASSUME Typed, NEW q \in Request, Good(q, pc[q], mem[q]), Clean(q, pc[q], mem[q]),
           \/ guard(q) \/ resolve_guard_resources(q) \/ check_resolved_ancestors(q)
           \/ first_disabled_field(q) \/ check_field_access(q) \/ projection_rejection(q)
    PROVE  Cleanly(q)
  <1> USE MemTyped DEF Stated, Running, Checking
  <1>1. /\ Early(pc[q]) /\ pc[q] \in Stated /\ kind(q) \in {"query", "preview"}
        /\ AlwaysRoles(q) \subseteq mem[q].roles /\ gov \in window[q]
        /\ pc[q] \in Running => mem[q].actual = call[q].touched
    BY DEF Early, guard, resolve_guard_resources, check_resolved_ancestors,
           first_disabled_field, check_field_access, projection_rejection,
           Good, Checked, SeenRoles, Clean, Placed
  <1>2. ASSUME NEW l, Early(l), Continue(q, l, mem[q]), Placed(q, l, mem[q])
        PROVE  Cleanly(q)
    BY <1>1, <1>2, EarlyClean DEF SameResult
  <1>3. CASE guard(q)
    <2>1. \/ Reject(q, call[q].declared)
          \/ Continue(q, "resolve", mem[q]) /\ call[q].shape # "forbidden"
      BY <1>3 DEF guard
    <2>2. call[q].shape # "forbidden" => Placed(q, "resolve", mem[q]) /\ Early("resolve")
      BY <1>1 DEF Placed, Early
    <2> QED BY <1>1, <1>2, <2>1, <2>2, RejectClean
  <1>4. CASE resolve_guard_resources(q)
    <2>1. PICK rs : Continue(q, "resolved", [mem[q] EXCEPT !.actual = rs])
      BY <1>4 DEF resolve_guard_resources
    <2> DEFINE m == [mem[q] EXCEPT !.actual = rs]
    <2>2. SameResult(mem[q], m) /\ Continue(q, "resolved", m)
      BY <2>1 DEF Locals, SameResult
    <2> HIDE DEF m
    <2>3. Placed(q, "resolved", m) /\ Early("resolved")
      BY <1>1, <1>4 DEF resolve_guard_resources, Clean, Placed, Early
    <2> QED BY <1>1, <2>2, <2>3, EarlyClean
  <1>5. CASE check_resolved_ancestors(q)
    <2>1. pc[q] = "resolved"
      BY <1>5 DEF check_resolved_ancestors
    <2>2. Placed(q, "disabledField", mem[q]) /\ Early("disabledField")
      BY <1>1, <2>1 DEF Clean, Placed, Early
    <2> QED BY <1>1, <1>2, <1>5, <2>2, RejectClean DEF check_resolved_ancestors
  <1>6. CASE first_disabled_field(q)
    <2>1. pc[q] = "disabledField"
      BY <1>6 DEF first_disabled_field
    <2>2. CASE \E r \in mem[q].actual, f \in Names(q) \cap Field : gov.status[<<r, f>>] = "disabled"
      BY <1>1, <1>6, <2>2, RejectClean DEF first_disabled_field
    <2>3. CASE ~\E r \in mem[q].actual, f \in Names(q) \cap Field : gov.status[<<r, f>>] = "disabled"
      <3>1. AllLive(q, call[q].touched, NamesIn(q, mem[q]))
        BY <1>1, <2>1, <2>3 DEF AllLive, LiveOnce, Names, NamesIn
      <3>2. Placed(q, "fieldAccess", mem[q]) /\ Early("fieldAccess")
        BY <1>1, <2>1, <3>1 DEF Clean, Placed, Early
      <3> QED BY <1>2, <1>6, <2>3, <3>2 DEF first_disabled_field
    <2> QED BY <2>2, <2>3
  <1>7. CASE check_field_access(q)
    <2> DEFINE closed == first_inaccessible_field(gov.fieldPolicies, user(q), mem[q].roles,
                                                  mem[q].actual, Names(q))
    <2>1. pc[q] = "fieldAccess"
      BY <1>7 DEF check_field_access
    <2>2. \/ closed # {} /\ Reject(q, call[q].declared)
          \/ closed = {} /\ Continue(q, "projection", mem[q])
      BY <1>7 DEF check_field_access
    <2>3. CASE closed = {} /\ Continue(q, "projection", mem[q])
      <3>1. NoneBarred(q, call[q].touched, NamesIn(q, mem[q]))
        BY <1>1, <2>1, <2>3, ReadableNotBarred DEF Names, NamesIn
      <3>2. Placed(q, "projection", mem[q]) /\ Early("projection")
        BY <1>1, <2>1, <3>1 DEF Clean, Placed, Early
      <3> QED BY <1>2, <2>3, <3>2
    <2> QED BY <1>1, <2>2, <2>3, RejectClean
  <1>8. CASE projection_rejection(q)
    <2>1. pc[q] = "projection" /\ mem[q].actual = call[q].touched
      BY <1>1, <1>8 DEF projection_rejection
    <2>2. \/ Reject(q, call[q].declared)
          \/ /\ Continue(q, "execute", mem[q])
             /\ ~ProjectionRejected(q, MasksOn(gov, call[q].touched, user(q), mem[q].roles))
      BY <1>8, <2>1 DEF projection_rejection
    <2>3. CASE /\ Continue(q, "execute", mem[q])
               /\ ~ProjectionRejected(q, MasksOn(gov, call[q].touched, user(q), mem[q].roles))
      <3>1. Maskable(q, mem[q])
        BY <1>1, <2>3, ProjectionMaskable
      <3>2. Placed(q, "execute", mem[q]) /\ Early("execute")
        BY <1>1, <2>1, <3>1 DEF Clean, Placed, Early
      <3> QED BY <1>2, <2>3, <3>2
    <2> QED BY <1>1, <2>2, <2>3, RejectClean
  <1> QED BY <1>3, <1>4, <1>5, <1>6, <1>7, <1>8

\* A result is delivered with every standing mask on, under its own resources.
LEMMA RunClean ==
    ASSUME Typed, NEW q \in Request, Good(q, pc[q], mem[q]), Clean(q, pc[q], mem[q]),
           connector_execute_query(q) \/ apply_to_result(q)
    PROVE  Cleanly(q)
  <1> USE MemTyped DEF Stated, Running, Checking
  <1>1. /\ pc[q] \in {"execute", "mask"} /\ mem[q].actual = call[q].touched
        /\ kind(q) \in {"query", "preview"} /\ call[q].shape # "forbidden"
        /\ AlwaysRoles(q) \subseteq mem[q].roles /\ gov \in window[q]
        /\ AllLive(q, call[q].touched, NamesIn(q, mem[q]))
        /\ NoneBarred(q, call[q].touched, NamesIn(q, mem[q]))
        /\ Maskable(q, mem[q]) /\ mem[q].plain = {} /\ mem[q].minted = NoContext
    BY DEF connector_execute_query, apply_to_result, Good, Checked, SeenRoles, Clean, Placed,
           Outcome
  <1>2. ASSUME NEW m, m.columns = mem[q].columns
        PROVE  \A c \in ShownBy(q, m) : LiveOnce(q, c) /\ ~Barred(q, c)
    BY <1>1, <1>2 DEF ShownBy, NamesIn, AllLive, NoneBarred
  <1>3. CASE connector_execute_query(q)
    <2> DEFINE m == [mem[q] EXCEPT !.ran = TRUE]
    <2>1. /\ m.columns = mem[q].columns /\ m.plain = mem[q].plain /\ m.minted = mem[q].minted
          /\ m.gate = mem[q].gate
      BY DEF Locals
    <2>2. \/ Continue(q, "mask", m) \/ Record(q, "error", mem[q].actual, mem[q]) \/ Raise(q)
      BY <1>3 DEF connector_execute_query
    <2> HIDE DEF m
    <2>3. pc[q] = "execute" /\ Early(pc[q])
      BY <1>3 DEF connector_execute_query, Early
    <2>4. CASE Continue(q, "mask", m)
      <3>1. Placed(q, "mask", m)
        BY <1>1, <2>1 DEF Placed, NamesIn, Maskable
      <3>2. Outcome(q, "mask", m)
        BY <1>1, <1>2, <2>1 DEF Outcome
      <3> QED BY <2>4, <3>1, <3>2 DEF Cleanly, Clean
    <2> QED BY <2>2, <2>3, <2>4, DeniedClean, RaiseClean
  <1>4. CASE apply_to_result(q)
    <2> DEFINE masks == MasksOn(gov, mem[q].actual, user(q), mem[q].roles)
               columns == Columns(mem[q].columns)
               targets == {m \in masks : call[q].shape = "columns" /\ m.field \in columns}
               cells == mem[q].actual \X (IF call[q].shape = "wildcard" THEN Field ELSE columns)
               bare == {c \in cells : ~\E m \in targets : m.field = c[2]}
               minted == IF \E m \in targets : m.strategy = "reversible"
                         THEN [user |-> user(q), resources |-> mem[q].actual,
                               expires |-> now + ContextTtl]
                         ELSE NoContext
               m2 == [mem[q] EXCEPT !.plain = bare, !.minted = minted]
               n == [m2 EXCEPT !.event = [decision |-> "allowed", resources |-> mem[q].actual]]
    <2>1. Raise(q) \/ Continue(q, "commit", n)
      BY <1>4 DEF apply_to_result, Record
    <2>2. ASSUME NEW c \in bare, Masked(q, c)
          PROVE  FALSE
      <3>1. PICK r \in call[q].touched, f \in Field :
              c = <<r, f>> /\ (call[q].shape # "wildcard" => f \in columns)
        <4>1. columns \subseteq Field
          BY ColumnsAre DEF Locals
        <4> HIDE DEF columns, targets
        <4> QED BY <1>1, <2>2, <4>1
      <3>2. call[q].shape = "columns"
        BY <1>1, <2>2, <3>1 DEF Maskable, NoneMasked, Call, Shapes
      <3>3. PICK m \in masks : m.field = f
        BY <1>1, <2>2, <3>1, MaskFound
      <3> QED BY <3>1, <3>2, <3>3
    <2>3. minted # NoContext => minted.user = user(q) /\ minted.resources = call[q].touched
      BY <1>1
    <2> HIDE DEF bare, minted, targets
    <2>4. /\ n.columns = mem[q].columns /\ n.plain = bare /\ n.minted = minted
          /\ n.event = [decision |-> "allowed", resources |-> call[q].touched]
      BY <1>1 DEF Locals
    <2> HIDE DEF n
    <2>5. Outcome(q, "commit", n)
      BY <1>2, <2>2, <2>3, <2>4 DEF Outcome
    <2> QED BY <2>1, <2>5, CommitClean, RaiseClean
  <1> QED BY <1>3, <1>4

\* Every step from the guard to the masked result keeps the invariant.
LEMMA ExecuteQueryClean ==
    ASSUME Typed, NEW q \in Request, Good(q, pc[q], mem[q]), Clean(q, pc[q], mem[q]),
           ExecuteQuery(q)
    PROVE  Cleanly(q)
  BY GuardClean, RunClean DEF ExecuteQuery

\* A listing and a decryption show no columns.
LEMMA OtherClean ==
    ASSUME Typed, NEW q \in Request, Good(q, pc[q], mem[q]), Clean(q, pc[q], mem[q]),
           ListResources(q) \/ Decrypt(q)
    PROVE  Cleanly(q)
  <1> USE MemTyped DEF Stated, Running, Checking
  <1>1. Early(pc[q]) /\ kind(q) \in {"list", "decrypt"}
    BY DEF ListResources, list_rows, disabled_resource_reasons, list_resources, Decrypt,
           get_decrypt_contexts, load_context_resources, decide_decrypt, decrypt_values,
           Early, Good, Routed, kind
  <1>2. ASSUME NEW l \in {"listAncestors", "policies", "resources", "open"}, NEW m,
               Continue(q, l, m), SameResult(mem[q], m)
        PROVE  Cleanly(q)
    <2>1. Placed(q, l, m) /\ Early(l)
      BY <1>1 DEF Placed, Early
    <2> QED BY <1>1, <1>2, <2>1, EarlyClean
  <1>3. ASSUME NEW n, n.plain = mem[q].plain, n.minted = mem[q].minted, Continue(q, "commit", n)
        PROVE  Cleanly(q)
    <2>1. n.plain = {} /\ n.minted = NoContext /\ ShownBy(q, n) = {}
      BY <1>1, <1>3 DEF Clean, Outcome, Early, ShownBy, ReadKinds
    <2> QED BY <1>1, <1>3, <2>1, CommitClean DEF Outcome
  <1>4. /\ SameResult(mem[q], mem[q])
        /\ \A rs : /\ SameResult(mem[q], [mem[q] EXCEPT !.actual = rs])
                   /\ SameResult(mem[q], [mem[q] EXCEPT !.todo = mem[q].actual])
                   /\ [mem[q] EXCEPT !.todo = mem[q].actual] \in Locals
    BY DEF Locals, SameResult
  <1>5. ASSUME NEW rs, NEW ran, NEW resources
        PROVE  LET m == [mem[q] EXCEPT !.actual = rs]
                   d == [mem[q] EXCEPT !.ran = ran]
                   e == [decision |-> "allowed", resources |-> resources]
               IN  /\ [m EXCEPT !.event = e].plain = mem[q].plain
                   /\ [m EXCEPT !.event = e].minted = mem[q].minted
                   /\ [d EXCEPT !.event = e].plain = mem[q].plain
                   /\ [d EXCEPT !.event = e].minted = mem[q].minted
    BY DEF Locals
  <1>6. CASE list_rows(q)
    BY <1>2, <1>4, <1>6 DEF list_rows
  <1>7. CASE disabled_resource_reasons(q)
    BY <1>2, <1>4, <1>7 DEF disabled_resource_reasons
  <1>8. CASE list_resources(q)
    <2>1. PICK rs : Record(q, "allowed", {}, [mem[q] EXCEPT !.actual = rs])
      BY <1>8 DEF list_resources
    <2> QED BY <1>3, <1>5, <2>1 DEF Record
  <1>9. CASE get_decrypt_contexts(q)
    BY <1>2, <1>4, <1>9, RaiseClean DEF get_decrypt_contexts
  <1>10. CASE load_context_resources(q)
    BY <1>1, <1>4, <1>10, NextClean, RejectClean DEF load_context_resources
  <1>11. CASE decide_decrypt(q)
    <2>1. \/ Raise(q) \/ \E r : Reject(q, {r})
          \/ Continue(q, "open", mem[q]) \/ CheckNext(q, "policies", mem[q])
      BY <1>11 DEF decide_decrypt
    <2> QED BY <1>1, <1>2, <1>4, <2>1, NextClean, RaiseClean, RejectClean
  <1>12. CASE decrypt_values(q)
    BY <1>3, <1>5, <1>12, RaiseClean DEF decrypt_values, Record
  <1> QED
    BY <1>6, <1>7, <1>8, <1>9, <1>10, <1>11, <1>12 DEF ListResources, Decrypt

-----------------------------------------------------------------------------
(* Whole steps: the request that moves, the others, and the administrators. *)

\* A column once live stays so, and is barred or masked throughout no longer than
\* the window lets it be.
LEMMA ColumnsGrow ==
    ASSUME NEW p, Widens(p)
    PROVE  \A c : /\ LiveOnce(p, c) => LiveOnce(p, c)'
                  /\ ~Barred(p, c) => ~Barred(p, c)'
                  /\ ~Masked(p, c) => ~Masked(p, c)'
  <1>1. user(p)' = user(p) /\ AlwaysRoles(p)' \subseteq AlwaysRoles(p)
    BY WindowGrows
  <1>2. \A x : StandingSubject(p, x)' => StandingSubject(p, x)
    BY <1>1 DEF StandingSubject, SubjectMatches
  <1> QED BY <1>2 DEF Widens, LiveOnce, Barred, Masked

\* A request that is clean for place l and locals m is clean once it stands there.
LEMMA CleanGrows ==
    ASSUME NEW p, NEW l, NEW m, Clean(p, l, m), Widens(p), pc'[p] = l, mem'[p] = m
    PROVE  Clean(p, pc[p], mem[p])'
  <1>1. call'[p] = call[p] /\ kind(p)' = kind(p) /\ user(p)' = user(p)
    BY DEF Widens, kind, user
  <1>2. \A rs, fs : /\ AllLive(p, rs, fs) => AllLive(p, rs, fs)'
                    /\ NoneBarred(p, rs, fs) => NoneBarred(p, rs, fs)'
                    /\ NoneMasked(p, rs, fs) => NoneMasked(p, rs, fs)'
    BY ColumnsGrow DEF AllLive, NoneBarred, NoneMasked
  <1>3. NamesIn(p, mem[p])' = NamesIn(p, m) /\ (Maskable(p, m) => Maskable(p, m)')
    BY <1>1, <1>2 DEF NamesIn, Maskable
  <1>4. Placed(p, pc[p], mem[p])'
    BY <1>1, <1>2, <1>3 DEF Clean, Placed
  <1>5. ShownBy(p, mem[p])' = ShownBy(p, m)
    BY <1>1, <1>3 DEF ShownBy, ServedBy
  <1>6. Outcome(p, pc[p], mem[p])'
    BY <1>1, <1>5, ColumnsGrow DEF Clean, Outcome
  <1> QED BY <1>4, <1>6 DEF Clean

\* The request itself moves; nothing of the others changes.
LEMMA MovesClean ==
    ASSUME Typed, NEW q \in Request, NEW p \in Request, Clean(p, pc[p], mem[p]),
           NEW l, NEW m, Continue(q, l, m), Clean(q, l, m)
    PROVE  Clean(p, pc[p], mem[p])'
  <1>1. /\ call' = call /\ window' = window
        /\ p # q => pc'[p] = pc[p] /\ mem'[p] = mem[p]
        /\ pc'[q] = l /\ mem'[q] = m
    BY DEF Continue, served, Typed, TypeOK
  <1>2. PICK k, n : k = pc'[p] /\ n = mem'[p]
    OBVIOUS
  <1>3. Clean(p, k, n)
    BY <1>1, <1>2
  <1> QED BY <1>1, <1>2, <1>3, CleanGrows DEF Widens

\* Every step of a request but its start, its commit and its reply.
LEMMA WorksCleanly ==
    ASSUME Typed, NEW q \in Request, Good(q, pc[q], mem[q]), Clean(q, pc[q], mem[q]), Handle(q)
    PROVE  Start(q) \/ commit(q) \/ reply(q) \/ Cleanly(q)
  BY AuthenticateClean, CheckResourceClean, ExecuteQueryClean, OtherClean, RaiseClean
     DEF Handle, crash

\* A step of one request keeps every request clean.
LEMMA HandleClean ==
    ASSUME GrantInv, NEW q \in Request, NEW p \in Request,
           \A x \in Request : Clean(x, pc[x], mem[x]), Handle(q)
    PROVE  Clean(p, pc[p], mem[p])'
  <1> USE DEF Stated, Running, Checking
  <1>1. Typed /\ Good(q, pc[q], mem[q]) /\ Good(p, pc[p], mem[p])
    BY DEF GrantInv
  <1>2. CASE Start(q) \/ commit(q)
    <2>1. call' = call /\ mem' = mem
      BY <1>2 DEF Start, commit, served
    <2>2. PICK k, n : k = pc'[p] /\ n = mem'[p]
      OBVIOUS
    <2>3. CASE p = q /\ Start(q)
      <3>1. k = "key" /\ n = Fresh
        BY <1>1, <2>1, <2>2, <2>3 DEF Start, Typed, TypeOK, Good
      <3>2. /\ n.plain = {} /\ n.minted = NoContext /\ n.columns = {}
        BY <3>1 DEF Fresh
      <3>3. ShownBy(p, mem[p])' = {}
        BY <2>2, <3>2 DEF ShownBy, NamesIn
      <3> QED BY <2>2, <3>1, <3>2, <3>3 DEF Clean, Placed, Outcome
    <2>4. CASE p # q \/ commit(q)
      <3>1. Widens(p) /\ (k = pc[p] \/ (k = "reply" /\ pc[p] = "commit"))
        BY <1>1, <1>2, <2>1, <2>2, <2>4 DEF Start, commit, served, Widens, Typed, TypeOK
      <3>2. Clean(p, k, n)
        BY <2>1, <2>2, <3>1 DEF Clean, Placed, Outcome
      <3> QED BY <2>2, <3>1, <3>2, CleanGrows
    <2> QED BY <1>2, <2>3, <2>4
  <1>3. CASE reply(q)
    <2>1. Clean(q, "done", mem[q]) /\ Continue(q, "done", mem[q])
      BY <1>3 DEF reply, Clean, Placed, Outcome
    <2> QED BY <1>1, <2>1, MovesClean
  <1> QED BY <1>1, <1>2, <1>3, WorksCleanly, MovesClean DEF Cleanly

\* What is recorded stays, and a request is recorded before it replies.
LEMMA HandleRecords ==
    ASSUME GrantInv, NEW q \in Request, NEW p \in Request,
           \A x \in Request : Clean(x, pc[x], mem[x]), Handle(q), OnRecord(p)
    PROVE  OnRecord(p)'
  <1>1. Typed /\ Good(q, pc[q], mem[q])
    BY DEF GrantInv
  <1>2. CASE commit(q)
    <2>1. /\ mem' = mem /\ <<q, mem[q].event>> \in audit' /\ audit \subseteq audit'
          /\ contexts' = IF mem[q].minted = NoContext THEN contexts
                         ELSE [contexts EXCEPT ![q] = mem[q].minted]
      BY <1>2 DEF commit, served
    <2>2. p # q => pc'[p] = pc[p] /\ contexts'[p] = contexts[p]
      BY <1>1, <1>2, <2>1 DEF commit, Typed, TypeOK
    <2>3. mem[q].minted # NoContext => contexts'[q] = mem[q].minted
      BY <1>1, <2>1, GatewayConstants DEF Typed, TypeOK
    <2> QED BY <2>1, <2>2, <2>3 DEF OnRecord
  <1>3. CASE Start(q)
    BY <1>1, <1>3 DEF Start, tables, OnRecord, Typed, TypeOK
  <1>4. CASE reply(q)
    BY <1>1, <1>4 DEF reply, Continue, tables, OnRecord, Typed, TypeOK
  <1>5. CASE Cleanly(q)
    <2>1. PICK l, m : Continue(q, l, m) /\ l \notin {"reply", "done"}
      BY <1>5 DEF Cleanly
    <2> QED BY <1>1, <2>1 DEF Continue, tables, OnRecord, Typed, TypeOK
  <1> QED BY <1>1, <1>2, <1>3, <1>4, <1>5, WorksCleanly

\* Every step of the gateway keeps the invariant.
LEMMA OutcomeStep == OutcomeInv /\ [Next]_vars => OutcomeInv'
  <1> SUFFICES ASSUME OutcomeInv, [Next]_vars, NEW p \in Request
               PROVE  Clean(p, pc[p], mem[p])' /\ OnRecord(p)'
    BY GrantStep DEF OutcomeInv
  <1>1. GrantInv /\ Clean(p, pc[p], mem[p]) /\ OnRecord(p) /\ Good(p, pc[p], mem[p])
    BY DEF OutcomeInv, GrantInv
  <1>2. CASE Admins \/ Tick \/ UNCHANGED vars
    <2>1. pc' = pc /\ mem' = mem /\ audit' = audit /\ contexts' = contexts
      BY <1>2 DEF Admins, Tick, vars, tables
    <2>2. Widens(p)
      BY <1>1, <1>2 DEF Admins, InFlight, Tick, vars, served, Good, Widens
    <2>3. PICK k, n : k = pc[p] /\ n = mem[p]
      OBVIOUS
    <2>4. Clean(p, pc[p], mem[p])'
      BY <1>1, <2>1, <2>2, <2>3, CleanGrows
    <2>5. OnRecord(p)'
      BY <1>1, <2>1 DEF OnRecord
    <2> QED BY <2>4, <2>5
  <1>3. CASE \E q \in Request : Handle(q)
    BY <1>1, <1>3, HandleClean, HandleRecords DEF OutcomeInv
  <1> QED BY <1>2, <1>3 DEF Next

\* Before its first read a request has shown nothing.
LEMMA OutcomeInit == Init => OutcomeInv
  <1> SUFFICES ASSUME Init, NEW p \in Request
               PROVE  Clean(p, pc[p], mem[p]) /\ OnRecord(p)
    BY GrantInit DEF OutcomeInv
  <1>1. pc[p] = "idle" /\ mem[p] = Fresh
    BY DEF Init
  <1>2. Fresh.plain = {} /\ Fresh.minted = NoContext /\ Fresh.columns = {}
    BY DEF Fresh
  <1>3. ShownBy(p, mem[p]) = {}
    BY <1>1, <1>2 DEF ShownBy, NamesIn
  <1> QED
    BY <1>1, <1>2, <1>3 DEF Clean, Placed, Outcome, OnRecord, Stated, Running, Checking

-----------------------------------------------------------------------------
\* A column disabled throughout a request, or denied to the caller throughout, is
\* neither described nor read under the name the catalog has for it: the statuses and
\* the field policies are read once, and what the SELECT shows survives until the reply.
\* (Of another spelling of the name nothing is claimed: it finds no status and no rule.)
THEOREM StandingFieldRuleIsFinal == Spec => []StandingFieldRuleHolds
  <1>1. OutcomeInv => StandingFieldRuleHolds
    <2>1. ASSUME NEW q \in Request PROVE Shown(q) = ShownBy(q, mem[q])
      BY DEF Shown, ShownBy, Served, ServedBy, Names, NamesIn, kind, ReadKinds
    <2>2. ASSUME OutcomeInv, NEW q \in Request, NEW c \in Shown(q)
          PROVE  LiveOnce(q, c) /\ ~Barred(q, c)
      BY <2>1, <2>2 DEF OutcomeInv, Clean, Outcome
    <2> QED BY <2>2 DEF StandingFieldRuleHolds, LiveOnce, Barred
  <1> QED BY <1>1, OutcomeInit, OutcomeStep, PTL DEF Spec

\* A cell masked for the caller throughout is never delivered in the clear: the
\* projections can carry the mask, and the second read of the masks finds it.
THEOREM StandingMaskIsApplied == Spec => []StandingMaskHolds
  <1>1. OutcomeInv => StandingMaskHolds
    BY DEF OutcomeInv, Clean, Outcome, StandingMaskHolds, Masked
  <1> QED BY <1>1, OutcomeInit, OutcomeStep, PTL DEF Spec

\* What a client can have seen is on record: the event names exactly the resources
\* the SQL read, and the markers open with a context of the caller's own.
THEOREM EveryReplyIsOnRecord == Spec => []RepliesAreOnRecord
  <1>1. OutcomeInv => RepliesAreOnRecord
    BY DEF OutcomeInv, Clean, Outcome, OnRecord, RepliesAreOnRecord, kind
  <1> QED BY <1>1, OutcomeInit, OutcomeStep, PTL DEF Spec

\* A decryption yields values in its last step only, after one more look at the
\* contexts.
LEMMA DecryptionOpens ==
    ASSUME Typed, NEW q \in Request, Good(q, pc[q], mem[q]), Clean(q, pc[q], mem[q]),
           kind(q) = "decrypt", Handle(q), mem'[q].ran, ~mem[q].ran
    PROVE  \A x \in call[q].markers : ValidContext(q, x)
  <1> DEFINE Quiet(m) == m.ran = mem[q].ran
  <1>1. \A l, m : Continue(q, l, m) /\ Quiet(m) => FALSE
    BY DEF Continue, Typed, TypeOK
  <1>2. ~Raise(q)
    <2>1. [Fresh EXCEPT !.ran = mem[q].ran].ran = mem[q].ran
      BY DEF Fresh
    <2> QED BY <1>1, <2>1 DEF Raise
  <1>3. \A m, d, rs : m \in Locals /\ Record(q, d, rs, m) /\ Quiet(m) => FALSE
    BY <1>1 DEF Record, Locals
  <1>4. \A l, m : m \in Locals /\ CheckNext(q, l, m) /\ Quiet(m) => FALSE
    BY <1>1 DEF CheckNext, Locals
  <1>5. mem[q] \in Locals /\ Quiet(mem[q]) /\ gov \in ControlPlane
    BY MemTyped, GovTyped
  <1>6. \A rs : ~Reject(q, rs)
    BY <1>3, <1>5 DEF Reject
  <1>7. CASE Start(q) \/ commit(q) \/ reply(q) \/ crash(q)
    BY <1>1, <1>2, <1>5, <1>7 DEF Start, commit, reply, crash, served
  <1>8. CASE Authenticate(q)
    <2> DEFINE m == [mem[q] EXCEPT !.roles = ActiveRoles(gov, user(q)),
                                   !.columns = call[q].fields,
                                   !.gate = call[q].kind \in {"preview", "describe"},
                                   !.todo = call[q].declared]
    <2>1. Quiet(m)
      BY <1>5 DEF Locals
    <2> HIDE DEF m
    <2>2. load_roles(q) => Continue(q, "contexts", m)
      BY DEF load_roles, kind, m
    <2> QED
      BY <1>1, <1>2, <1>5, <1>8, <2>1, <2>2 DEF Authenticate, authenticate_api_key_value, load_user
  <1>9. CASE CheckResource(q)
    <2>1. load_policies(q) \/ load_chain(q)
      BY <1>9 DEF CheckResource, get_resource, active_fields, readable_fields, get_datasource,
             get_declared_resource, check_datasource_and_row, check_ancestors, decide_read,
             Good, Routed, ReadKinds, kind
    <2>2. /\ Quiet([mem[q] EXCEPT !.policies = gov.policies])
          /\ Quiet([mem[q] EXCEPT !.live = LiveResources(gov)])
      BY <1>5 DEF Locals
    <2> QED BY <1>1, <2>1, <2>2 DEF load_policies, load_chain
  <1>10. CASE ExecuteQuery(q)
    BY <1>10 DEF ExecuteQuery, guard, resolve_guard_resources, check_resolved_ancestors,
           first_disabled_field, check_field_access, projection_rejection,
           connector_execute_query, apply_to_result, Clean, Placed, Stated, Running
  <1>11. CASE ListResources(q)
    BY <1>11 DEF ListResources, list_rows, disabled_resource_reasons, list_resources,
           Good, Routed, kind
  <1>12. CASE Decrypt(q)
    <2>1. Quiet([mem[q] EXCEPT !.actual = Wanted(q)])
      BY <1>5 DEF Locals
    <2>2. /\ [mem[q] EXCEPT !.todo = mem[q].actual] \in Locals
          /\ Quiet([mem[q] EXCEPT !.todo = mem[q].actual])
      BY <1>5 DEF Locals
    <2>3. ~get_decrypt_contexts(q)
      BY <1>1, <1>2, <2>1 DEF get_decrypt_contexts
    <2>4. ~load_context_resources(q)
      BY <1>4, <1>6, <2>2 DEF load_context_resources
    <2>5. ~decide_decrypt(q)
      BY <1>1, <1>2, <1>4, <1>5, <1>6 DEF decide_decrypt
    <2>6. decrypt_values(q)
      BY <1>12, <2>3, <2>4, <2>5 DEF Decrypt
    <2> QED BY <1>2, <2>6 DEF decrypt_values
  <1> QED BY <1>7, <1>8, <1>9, <1>10, <1>11, <1>12 DEF Handle

\* Values are decrypted only for the user whose query masked them, and only while
\* all their contexts are alive: the checks in between may take any time.
THEOREM DecryptionIsInTime == Spec => DecryptedInTime
  <1> DEFINE InTime ==
        \A q \in Request :
          call[q].kind = "decrypt" /\ mem'[q].ran /\ ~mem[q].ran =>
              \A x \in call[q].markers :
                  contexts[x].user = user(q) /\ contexts[x].expires > now
  <1>1. OutcomeInv /\ [Next]_vars => [InTime]_vars
    <2> SUFFICES ASSUME OutcomeInv, [Next]_vars, NEW q \in Request,
                        kind(q) = "decrypt", mem'[q].ran, ~mem[q].ran
                 PROVE  \A x \in call[q].markers :
                            contexts[x].user = user(q) /\ contexts[x].expires > now
      BY DEF kind
    <2>1. /\ Typed /\ \A p \in Request : mem[p] \in Locals
          /\ Good(q, pc[q], mem[q]) /\ Clean(q, pc[q], mem[q])
      BY MemTyped DEF OutcomeInv, GrantInv
    <2>2. mem' # mem
      OBVIOUS
    <2>3. \E p \in Request : Handle(p)
      BY <2>2 DEF Next, Admins, Tick, vars
    <2>4. PICK p \in Request : Handle(p)
      BY <2>3
    <2>5. p # q => mem'[q] = mem[q]
      <3>1. Good(p, pc[p], mem[p]) /\ Clean(p, pc[p], mem[p])
        BY DEF OutcomeInv, GrantInv
      <3>2. Start(p) \/ commit(p) \/ reply(p) \/ Cleanly(p)
        BY <2>1, <2>4, <3>1, WorksCleanly
      <3> QED BY <2>1, <3>2 DEF Start, commit, reply, Cleanly, Continue, served, Typed, TypeOK
    <2>6. \A x \in call[q].markers : ValidContext(q, x)
      BY <2>1, <2>4, <2>5, DecryptionOpens
    <2> QED BY <2>6 DEF ValidContext
  <1> QED BY <1>1, OutcomeInit, OutcomeStep, PTL DEF Spec, DecryptedInTime

-----------------------------------------------------------------------------
(* A query during which no edit is committed: what it has checked so far,  *)
(* against the one content it has seen.                                    *)

Scoped == Stated \cup Checking

\* Everything the checks of one declared resource ask for.
Usable(g, c, r) == Enabled(g, r) /\ MayUse(g, c, r)

\* The identity, and what the locals hold of the content.
IdentityExact(g, c, l, m) ==
    /\ l \in {"user", "roles"} \cup Scoped => c.user \in g.keys
    /\ l \in {"roles"} \cup Scoped => g.status[c.user] = "active"
    /\ l \in Scoped => m.roles = ActiveRoles(g, c.user) /\ m.columns = c.fields
    /\ \A r \in Resource : m.held[r] \in {"absent", g.status[r]}
    /\ l \in Scoped \ {"scope"} =>
          c.limitOk /\ g.status[c.ds] = "active" /\ m.dsStatus = "active"

\* The declared resources, loaded and then checked one by one.
DeclaredExact(g, c, l, m) ==
    /\ l = "declare" => \A r \in c.declared \ m.todo : m.held[r] = g.status[r]
    /\ l \in Checking =>
          /\ m.cur \cup m.todo \subseteq c.declared
          /\ \A r \in c.declared : m.held[r] = g.status[r]
          /\ \A r \in c.declared \ (m.todo \cup m.cur) : Usable(g, c, r)
    /\ l = "ancestors" =>
          \A r \in m.cur : g.status[DatasourceOf[r]] = "active" /\ g.status[r] = "active"
    /\ l \in Rules => \A r \in m.cur : Enabled(g, r)
    /\ l \in {"chain", "tags"} => m.policies = g.policies
    /\ l = "tags" => m.live = LiveResources(g)

\* What the rules permit, and what is let through: columns are looked up by the names
\* the catalog has for them.
Permissible(g, c) == PermittedQuery(g, c, Columns(c.fields))
Passable(g, c)    == PermittedQuery(g, c, c.fields \cap Field)

\* The statement: its shape, its resources and its columns.
StatementExact(g, c, l, m) ==
    /\ l \in {"guard", "resolve", "resolved"} \cup Running =>
          \A r \in c.declared : Usable(g, c, r)
    /\ l \in {"resolve", "resolved"} \cup Running =>
          c.shape # "forbidden" /\ ~(StrictValidation /\ c.shape = "wildcard")
    /\ l = "resolved" => m.actual = {r \in c.touched :
          DatasourceOf[r] = c.ds /\ Kind[r] \in Tabular /\ g.status[r] = "active"}
    /\ l \in Running => \A r \in c.touched : Kind[r] \in Tabular /\ DatasourceOf[r] = c.ds
    /\ l \in {"fieldAccess", "projection", "execute", "mask"} /\ c.shape # "wildcard" =>
          \A r \in c.touched, f \in c.fields \cap Field : g.status[<<r, f>>] # "disabled"
    /\ l \in {"projection", "execute", "mask"} /\ c.shape # "wildcard" =>
          PermittedFields(g, c, c.fields \cap Field)
    /\ l \in {"execute", "mask"} => Passable(g, c)

\* What it has done, and what it has answered.
AnswerExact(g, c, m) ==
    /\ m.ran => Passable(g, c)
    /\ m.event.decision = "denied" => ~Permissible(g, c)

Exact(g, c, l, m) ==
    /\ IdentityExact(g, c, l, m) /\ DeclaredExact(g, c, l, m)
    /\ StatementExact(g, c, l, m) /\ AnswerExact(g, c, m)

ExactlySo(q) ==
    \A g \in window[q] :
        window[q] = {g} /\ kind(q) = "query" => Exact(g, call[q], pc[q], mem[q])

ExactInv == OutcomeInv /\ \A q \in Request : ExactlySo(q)

-----------------------------------------------------------------------------
(* A step of such a query that keeps its part of the invariant. *)

\* A query that has seen nothing but the rows in force now.
Steady(q) ==
    /\ Typed /\ kind(q) = "query" /\ gov \in window[q]
    /\ Good(q, pc[q], mem[q]) /\ Clean(q, pc[q], mem[q])
    /\ Exact(gov, call[q], pc[q], mem[q])

Exactly(q) == \E l, m : Continue(q, l, m) /\ Exact(gov, call[q], l, m)

\* What a query at each place has in hand.
LEMMA SteadyFacts ==
    ASSUME NEW q \in Request, Steady(q)
    PROVE  /\ mem[q] \in Locals /\ call[q] \in Call /\ gov \in ControlPlane
           /\ ~mem[q].gate
           /\ pc[q] \notin {"load", "fields", "columns"}
           /\ Early(pc[q]) => ~mem[q].ran /\ mem[q].event.decision # "allowed"
           /\ pc[q] \in Checking => \E r \in Resource : mem[q].cur = {r}
           /\ pc[q] \in Running => mem[q].actual = call[q].touched
  BY MemTyped, GovTyped
     DEF Steady, Good, Routed, Unanswered, Checked, Early, Clean, Placed

\* A query on its way has answered nothing: the rest is for each step to show.
LEMMA EarlyExact ==
    ASSUME NEW q \in Request, Steady(q), NEW l, NEW m, Continue(q, l, m),
           SameResult(mem[q], m), IdentityExact(gov, call[q], l, m),
           DeclaredExact(gov, call[q], l, m), StatementExact(gov, call[q], l, m)
    PROVE  Exactly(q)
  BY DEF Exactly, Exact, AnswerExact, SameResult, Steady

\* A query that raises says nothing of the rules.
LEMMA RaiseExact ==
    ASSUME NEW q \in Request, Steady(q), Raise(q)
    PROVE  Exactly(q)
  <1> DEFINE m == [Fresh EXCEPT !.ran = mem[q].ran]
  <1>1. /\ m.ran = mem[q].ran /\ m.event.decision = "none"
        /\ \A r \in Resource : m.held[r] = "absent"
    BY DEF Fresh
  <1>2. Continue(q, "failed", m)
    BY DEF Raise
  <1> HIDE DEF m
  <1>3. Exact(gov, call[q], "failed", m)
    BY <1>1 DEF Steady, Exact, IdentityExact, DeclaredExact, StatementExact, AnswerExact,
                Scoped, Stated, Checking, Rules, Running
  <1> QED BY <1>2, <1>3 DEF Exactly

\* An event that does not deny, or denies what is not permitted, is a right one.
LEMMA RecordExact ==
    ASSUME NEW q \in Request, Steady(q), NEW decision, NEW resources, NEW m \in Locals,
           Record(q, decision, resources, m), m.ran = mem[q].ran, m.held = mem[q].held,
           decision = "denied" => ~Permissible(gov, call[q])
    PROVE  Exactly(q)
  <1> DEFINE n == [m EXCEPT !.event = [decision |-> decision, resources |-> resources]]
  <1>1. n.ran = mem[q].ran /\ n.held = mem[q].held /\ n.event.decision = decision
    BY DEF Locals
  <1>2. Continue(q, "commit", n)
    BY DEF Record
  <1> HIDE DEF n
  <1>3. Exact(gov, call[q], "commit", n)
    BY <1>1 DEF Steady, Exact, IdentityExact, DeclaredExact, StatementExact, AnswerExact,
                Scoped, Stated, Checking, Rules, Running
  <1> QED BY <1>2, <1>3 DEF Exactly

\* A query is turned away for a reason.
LEMMA RejectExact ==
    ASSUME NEW q \in Request, Steady(q), NEW resources, Reject(q, resources),
           ~Permissible(gov, call[q])
    PROVE  Exactly(q)
  BY RecordExact, SteadyFacts DEF Reject

-----------------------------------------------------------------------------
(* The query's steps, one by one. *)

\* Unknown keys and disabled users do not get past the first reads.
LEMMA AuthenticateExact ==
    ASSUME NEW q \in Request, Steady(q), Authenticate(q)
    PROVE  Exactly(q)
  <1> USE SteadyFacts DEF Scoped, Stated, Checking, Rules, Running
  <1>1. ASSUME NEW l \in {"user", "roles"}, Continue(q, l, mem[q]), user(q) \in gov.keys,
               l = "roles" => gov.status[user(q)] = "active"
        PROVE  Exactly(q)
    <2>1. \A r \in Resource : mem[q].held[r] \in {"absent", gov.status[r]}
      BY DEF Steady, Exact, IdentityExact
    <2> QED BY <1>1, <2>1, EarlyExact
               DEF IdentityExact, DeclaredExact, StatementExact, SameResult, user
  <1>2. CASE authenticate_api_key_value(q)
    BY <1>1, <1>2, RaiseExact DEF authenticate_api_key_value
  <1>3. CASE load_user(q)
    <2>1. user(q) \in gov.keys
      BY <1>3 DEF load_user, Steady, Exact, IdentityExact, user
    <2> QED BY <1>1, <1>3, <2>1, RaiseExact DEF load_user
  <1>4. CASE load_roles(q)
    <2> DEFINE m == [mem[q] EXCEPT !.roles = ActiveRoles(gov, user(q)),
                                   !.columns = call[q].fields,
                                   !.gate = call[q].kind \in {"preview", "describe"},
                                   !.todo = call[q].declared]
    <2>1. Continue(q, "scope", m)
      BY <1>4 DEF load_roles, Steady, kind
    <2>2. /\ m.roles = ActiveRoles(gov, user(q)) /\ m.columns = call[q].fields
          /\ m.held = mem[q].held /\ SameResult(mem[q], m)
      BY DEF Locals, SameResult
    <2> HIDE DEF m
    <2>3. /\ user(q) \in gov.keys /\ gov.status[user(q)] = "active"
          /\ \A r \in Resource : mem[q].held[r] \in {"absent", gov.status[r]}
      BY <1>4 DEF load_roles, Steady, Exact, IdentityExact, user
    <2>4. IdentityExact(gov, call[q], "scope", m)
      BY <2>2, <2>3 DEF IdentityExact, user
    <2>5. DeclaredExact(gov, call[q], "scope", m) /\ StatementExact(gov, call[q], "scope", m)
      BY DEF DeclaredExact, StatementExact
    <2> QED BY <2>1, <2>2, <2>4, <2>5, EarlyExact
  <1> QED BY <1>2, <1>3, <1>4 DEF Authenticate

\* The identity stays what it was found to be.
LEMMA IdentityKept ==
    ASSUME NEW g, NEW c, NEW l \in Scoped, NEW m, NEW n,
           IdentityExact(g, c, l, m), NEW k \in Scoped,
           \/ k = "scope"
           \/ c.limitOk /\ g.status[c.ds] = "active" /\ n.dsStatus = "active",
           n.roles = m.roles, n.columns = m.columns,
           \A r \in Resource : n.held[r] \in {"absent", g.status[r]}
    PROVE  IdentityExact(g, c, k, n)
  BY DEF IdentityExact, Scoped, Stated, Checking, Running

\* A declared resource is loaded as it is, whichever comes first.
LEMMA ScopeExact ==
    ASSUME NEW q \in Request, Steady(q), get_datasource(q) \/ get_declared_resource(q)
    PROVE  Exactly(q)
  <1> DEFINE g == gov
             c == call[q]
  <1>1. /\ pc[q] \in {"scope", "declare"} /\ pc[q] \in Scoped
        /\ IdentityExact(g, c, pc[q], mem[q]) /\ mem[q] \in Locals /\ c \in Call
        /\ \A r \in Resource : mem[q].held[r] \in {"absent", g.status[r]}
        /\ DeclaredExact(g, c, pc[q], mem[q])
    BY SteadyFacts
       DEF get_datasource, get_declared_resource, Steady, Exact, IdentityExact, Scoped, Stated
  <1>2. ASSUME NEW l \in {"declare", "datasource", "guard"}, NEW m, Continue(q, l, m),
               SameResult(mem[q], m), m.roles = mem[q].roles, m.columns = mem[q].columns,
               c.limitOk, g.status[c.ds] = "active", m.dsStatus = "active",
               \A r \in Resource : m.held[r] \in {"absent", g.status[r]},
               DeclaredExact(g, c, l, m), l = "guard" => c.declared = {}
        PROVE  Exactly(q)
    <2>1. IdentityExact(g, c, l, m)
      BY <1>1, <1>2, IdentityKept DEF Scoped, Stated, Checking
    <2>2. StatementExact(g, c, l, m)
      BY <1>2 DEF StatementExact, Running
    <2> QED BY <1>2, <2>1, <2>2, EarlyExact
  <1>3. CASE get_datasource(q)
    <2> DEFINE m == [mem[q] EXCEPT !.dsStatus = gov.status[call[q].ds], !.todo = call[q].declared]
    <2>1. \/ Reject(q, c.declared) /\ (~c.limitOk \/ g.status[c.ds] # "active")
          \/ Raise(q)
          \/ Continue(q, "declare", m) /\ c.limitOk /\ g.status[c.ds] = "active"
      BY <1>3 DEF get_datasource
    <2>2. CASE Continue(q, "declare", m) /\ c.limitOk /\ g.status[c.ds] = "active"
      <3>1. /\ SameResult(mem[q], m) /\ m.roles = mem[q].roles /\ m.columns = mem[q].columns
            /\ m.held = mem[q].held /\ m.dsStatus = g.status[c.ds] /\ m.todo = c.declared
        BY <1>1 DEF Locals, SameResult
      <3> HIDE DEF m, c, g
      <3>2. DeclaredExact(g, c, "declare", m)
        BY <3>1 DEF DeclaredExact, Checking, Rules
      <3> QED BY <1>1, <1>2, <2>2, <3>1, <3>2
    <2>3. CASE Reject(q, c.declared) /\ (~c.limitOk \/ g.status[c.ds] # "active")
      BY <2>3, RejectExact DEF Permissible, PermittedQuery
    <2> QED BY <2>1, <2>2, <2>3, RaiseExact
  <1>4. CASE get_declared_resource(q)
    <2>1. /\ pc[q] = "declare" /\ c.limitOk /\ g.status[c.ds] = "active"
          /\ mem[q].dsStatus = "active"
          /\ \A r \in c.declared \ mem[q].todo : mem[q].held[r] = g.status[r]
      BY <1>1, <1>4 DEF get_declared_resource, IdentityExact, DeclaredExact, Scoped, Stated
    <2> DEFINE k(r) == [mem[q] EXCEPT !.todo = @ \ {r}]
               h(r) == [mem[q] EXCEPT !.todo = @ \ {r}, !.held[r] = gov.status[r]]
               a == [mem[q] EXCEPT !.todo = call[q].declared]
               n(r) == [a EXCEPT !.todo = @ \ {r}, !.cur = {r}]
    <2>2. \/ \E r \in mem[q].todo : mem[q].held[r] # "absent" /\ Continue(q, "declare", k(r))
          \/ \E r \in mem[q].todo : Continue(q, "declare", h(r))
          \/ Raise(q)
          \/ mem[q].todo = {} /\ \E r \in a.todo : Continue(q, "datasource", n(r))
          \/ c.declared = {} /\ Continue(q, "guard", mem[q])
      BY <1>4 DEF get_declared_resource, CheckNext
    <2>3. a.todo = c.declared /\ a \in Locals /\ a.held = mem[q].held
      BY <1>1 DEF Locals, Call
    <2>4. ASSUME NEW r \in mem[q].todo, mem[q].held[r] # "absent", Continue(q, "declare", k(r))
          PROVE  Exactly(q)
      <3>1. /\ SameResult(mem[q], k(r)) /\ k(r).roles = mem[q].roles
            /\ k(r).columns = mem[q].columns /\ k(r).held = mem[q].held
            /\ k(r).dsStatus = mem[q].dsStatus /\ k(r).todo = mem[q].todo \ {r}
            /\ r \in Resource
        BY <1>1 DEF Locals, SameResult
      <3> HIDE DEF k, c, g
      <3>2. DeclaredExact(g, c, "declare", k(r))
        BY <1>1, <2>1, <2>4, <3>1 DEF DeclaredExact, Checking, Rules
      <3> QED BY <1>1, <1>2, <2>1, <2>4, <3>1, <3>2
    <2>5. ASSUME NEW r \in mem[q].todo, Continue(q, "declare", h(r))
          PROVE  Exactly(q)
      <3>1. /\ SameResult(mem[q], h(r)) /\ h(r).roles = mem[q].roles
            /\ h(r).columns = mem[q].columns
            /\ h(r).dsStatus = mem[q].dsStatus /\ h(r).todo = mem[q].todo \ {r}
            /\ h(r).held[r] = g.status[r]
            /\ \A x \in Resource : x # r => h(r).held[x] = mem[q].held[x]
        BY <1>1 DEF Locals, SameResult
      <3>2. c.declared \subseteq Resource
        BY <1>1 DEF Call
      <3> HIDE DEF h, c, g
      <3>3. DeclaredExact(g, c, "declare", h(r))
        BY <1>1, <2>1, <3>1, <3>2 DEF DeclaredExact, Checking, Rules
      <3>4. \A x \in Resource : h(r).held[x] \in {"absent", g.status[x]}
        BY <1>1, <3>1
      <3> QED BY <1>2, <2>1, <2>5, <3>1, <3>3, <3>4
    <2>6. ASSUME mem[q].todo = {}, NEW r \in a.todo, Continue(q, "datasource", n(r))
          PROVE  Exactly(q)
      <3>1. /\ SameResult(mem[q], n(r)) /\ n(r).roles = mem[q].roles
            /\ n(r).columns = mem[q].columns /\ n(r).held = mem[q].held
            /\ n(r).dsStatus = mem[q].dsStatus /\ n(r).todo = c.declared \ {r}
            /\ n(r).cur = {r} /\ r \in c.declared
        BY <1>1, <2>3, <2>6 DEF Locals, SameResult
      <3> HIDE DEF n, a, c, g
      <3>2. DeclaredExact(g, c, "datasource", n(r))
        BY <2>1, <2>6, <3>1 DEF DeclaredExact, Checking, Rules
      <3> QED BY <1>1, <1>2, <2>1, <2>6, <3>1, <3>2
    <2>7. CASE c.declared = {} /\ Continue(q, "guard", mem[q])
      BY <1>1, <1>2, <2>1, <2>7 DEF DeclaredExact, Checking, Rules, SameResult
    <2> HIDE DEF k, h, n
    <2> QED BY <2>2, <2>4, <2>5, <2>6, <2>7, RaiseExact
  <1> QED BY <1>3, <1>4

\* A resource is turned away, before its rules are read, only when it or what it
\* is part of is not active.
LEMMA RulesExact ==
    ASSUME NEW q \in Request, Steady(q),
           \/ check_datasource_and_row(q) \/ check_ancestors(q)
           \/ load_policies(q) \/ load_chain(q)
    PROVE  Exactly(q)
  <1> DEFINE g == gov
             c == call[q]
  <1>1. /\ pc[q] \in Checking /\ pc[q] \in Scoped /\ pc[q] # "scope" /\ ~mem[q].gate
        /\ IdentityExact(g, c, pc[q], mem[q]) /\ DeclaredExact(g, c, pc[q], mem[q])
        /\ mem[q] \in Locals
        /\ \A r \in Resource : mem[q].held[r] \in {"absent", g.status[r]}
        /\ c.limitOk /\ g.status[c.ds] = "active" /\ mem[q].dsStatus = "active"
        /\ \A r \in c.declared : mem[q].held[r] = g.status[r]
    BY SteadyFacts
       DEF check_datasource_and_row, check_ancestors, load_policies, load_chain, Steady, Exact,
           IdentityExact, DeclaredExact, Scoped, Stated, Checking
  <1>2. PICK r \in Resource : mem[q].cur = {r} /\ r \in c.declared
    BY <1>1, SteadyFacts DEF DeclaredExact
  <1>3. ASSUME NEW l \in Checking, NEW m, Continue(q, l, m), SameResult(mem[q], m),
               m.roles = mem[q].roles, m.columns = mem[q].columns, m.held = mem[q].held,
               m.dsStatus = mem[q].dsStatus, m.cur = mem[q].cur, m.todo = mem[q].todo,
               l = "ancestors" => g.status[DatasourceOf[r]] = "active" /\ g.status[r] = "active",
               l \in Rules => Enabled(g, r),
               l \in {"chain", "tags"} => m.policies = g.policies,
               l = "tags" => m.live = LiveResources(g)
        PROVE  Exactly(q)
    <2> HIDE DEF g, c
    <2>1. IdentityExact(g, c, l, m)
      BY <1>1, <1>3, IdentityKept DEF Scoped
    <2>2. DeclaredExact(g, c, l, m)
      BY <1>1, <1>2, <1>3 DEF DeclaredExact, Checking
    <2>3. StatementExact(g, c, l, m)
      BY DEF StatementExact, Running, Checking
    <2> QED BY <1>3, <2>1, <2>2, <2>3, EarlyExact DEF g, c
  <1>4. ~Usable(g, c, r) => ~Permissible(g, c)
    BY <1>2 DEF Usable, Permissible, PermittedQuery
  <1>5. CASE check_datasource_and_row(q)
    <2>1. \/ /\ Reject(q, c.declared)
             /\ DatasourceStatus(q, r) # "active" \/ mem[q].held[r] # "active"
          \/ /\ Continue(q, "ancestors", mem[q])
             /\ DatasourceStatus(q, r) = "active" /\ mem[q].held[r] = "active"
      BY <1>2, <1>5 DEF check_datasource_and_row
    <2>2. /\ DatasourceStatus(q, r) = g.status[DatasourceOf[r]]
          /\ mem[q].held[r] = g.status[r]
      BY <1>1, <1>2 DEF DatasourceStatus
    <2>3. g.status[DatasourceOf[r]] # "active" \/ g.status[r] # "active" => ~Enabled(g, r)
      BY DEF Enabled, ScopeChain
    <2> QED BY <1>3, <1>4, <2>1, <2>2, <2>3, RejectExact
            DEF SameResult, Usable, Checking, Rules
  <1>6. CASE check_ancestors(q)
    <2>1. \/ Reject(q, c.declared) /\ ~ActiveAncestors(r)
          \/ Continue(q, "policies", mem[q]) /\ ActiveAncestors(r)
      BY <1>2, <1>6 DEF check_ancestors
    <2>2. g.status[DatasourceOf[r]] = "active" /\ g.status[r] = "active"
      BY <1>1, <1>2, <1>6 DEF check_ancestors, DeclaredExact
    <2>3. ActiveAncestors(r) <=> Enabled(g, r)
      BY <2>2 DEF ActiveAncestors, Enabled
    <2> QED BY <1>3, <1>4, <2>1, <2>3, RejectExact DEF SameResult, Usable, Checking, Rules
  <1>7. CASE load_policies(q)
    <2> DEFINE m == [mem[q] EXCEPT !.policies = gov.policies]
    <2>1. Continue(q, "chain", m) /\ pc[q] = "policies"
      BY <1>7 DEF load_policies
    <2>2. /\ SameResult(mem[q], m) /\ m.roles = mem[q].roles /\ m.columns = mem[q].columns
          /\ m.held = mem[q].held /\ m.dsStatus = mem[q].dsStatus /\ m.cur = mem[q].cur
          /\ m.todo = mem[q].todo /\ m.policies = g.policies
      BY <1>1 DEF Locals, SameResult
    <2> HIDE DEF m
    <2>3. Enabled(g, r)
      BY <1>1, <1>2, <2>1 DEF DeclaredExact, Rules
    <2> QED BY <1>3, <2>1, <2>2, <2>3 DEF Checking
  <1>8. CASE load_chain(q)
    <2> DEFINE m == [mem[q] EXCEPT !.live = LiveResources(gov)]
    <2>1. Continue(q, "tags", m) /\ pc[q] = "chain"
      BY <1>8 DEF load_chain
    <2>2. /\ SameResult(mem[q], m) /\ m.roles = mem[q].roles /\ m.columns = mem[q].columns
          /\ m.held = mem[q].held /\ m.dsStatus = mem[q].dsStatus /\ m.cur = mem[q].cur
          /\ m.todo = mem[q].todo /\ m.policies = mem[q].policies /\ m.live = LiveResources(g)
      BY <1>1 DEF Locals, SameResult
    <2> HIDE DEF m
    <2>3. Enabled(g, r) /\ mem[q].policies = g.policies
      BY <1>1, <1>2, <2>1 DEF DeclaredExact, Rules
    <2> QED BY <1>3, <2>1, <2>2, <2>3 DEF Checking
  <1> QED BY <1>5, <1>6, <1>7, <1>8

\* The verdict is that of the rules in force, and the next resource is taken up
\* when this one may be used.
LEMMA DecideExact ==
    ASSUME NEW q \in Request, Steady(q), decide_read(q)
    PROVE  Exactly(q)
  <1> DEFINE g == gov
             c == call[q]
  <1>1. /\ pc[q] = "tags" /\ pc[q] \in Scoped /\ ~mem[q].gate /\ mem[q] \in Locals
        /\ IdentityExact(g, c, "tags", mem[q]) /\ DeclaredExact(g, c, "tags", mem[q])
        /\ mem[q].roles = ActiveRoles(g, c.user)
        /\ c.limitOk /\ g.status[c.ds] = "active" /\ mem[q].dsStatus = "active"
        /\ \A r \in Resource : mem[q].held[r] \in {"absent", g.status[r]}
        /\ mem[q].policies = g.policies /\ mem[q].live = LiveResources(g)
        /\ mem[q].todo \subseteq c.declared
        /\ \A r \in c.declared : mem[q].held[r] = g.status[r]
        /\ \A r \in c.declared \ (mem[q].todo \cup mem[q].cur) : Usable(g, c, r)
    BY SteadyFacts
       DEF decide_read, Steady, Exact, IdentityExact, DeclaredExact, Scoped, Checking
  <1>2. PICK r \in Resource : mem[q].cur = {r} /\ r \in c.declared /\ Enabled(g, r)
    BY <1>1, SteadyFacts DEF DeclaredExact, Checking, Rules
  <1> DEFINE verdict == check_resource_access(mem[q].policies, user(q), mem[q].roles, r,
                                              ScopeChain(r, mem[q].live), gov.tagRows)
  <1>3. Allowed(verdict) <=> MayUse(g, c, r)
    BY <1>1 DEF MayUse, user
  <1>4. \/ Raise(q)
        \/ ~Allowed(verdict) /\ Reject(q, c.declared)
        \/ Allowed(verdict) /\ mem[q].todo = {} /\ Continue(q, "guard", mem[q])
        \/ Allowed(verdict) /\ CheckNext(q, "datasource", mem[q])
    BY <1>1, <1>2 DEF decide_read
  <1> HIDE DEF verdict
  <1>5. CASE ~Allowed(verdict) /\ Reject(q, c.declared)
    BY <1>2, <1>3, <1>5, RejectExact DEF Permissible, PermittedQuery
  <1>6. CASE Allowed(verdict) /\ mem[q].todo = {} /\ Continue(q, "guard", mem[q])
    <2>1. \A x \in c.declared : Usable(g, c, x)
      BY <1>1, <1>2, <1>3, <1>6 DEF Usable
    <2>2. IdentityExact(g, c, "guard", mem[q])
      BY <1>1, IdentityKept DEF Scoped, Stated
    <2> HIDE DEF g, c
    <2>3. StatementExact(g, c, "guard", mem[q]) /\ DeclaredExact(g, c, "guard", mem[q])
      BY <2>1 DEF StatementExact, DeclaredExact, Running, Checking, Rules
    <2> QED BY <1>6, <2>2, <2>3, EarlyExact DEF SameResult, g, c
  <1>7. CASE Allowed(verdict) /\ CheckNext(q, "datasource", mem[q])
    <2>1. PICK x \in mem[q].todo :
            Continue(q, "datasource", [mem[q] EXCEPT !.todo = @ \ {x}, !.cur = {x}])
      BY <1>7 DEF CheckNext
    <2> DEFINE n == [mem[q] EXCEPT !.todo = @ \ {x}, !.cur = {x}]
    <2>2. /\ SameResult(mem[q], n) /\ n.roles = mem[q].roles /\ n.columns = mem[q].columns
          /\ n.held = mem[q].held /\ n.dsStatus = mem[q].dsStatus
          /\ n.todo = mem[q].todo \ {x} /\ n.cur = {x}
      BY <1>1 DEF Locals, SameResult
    <2>3. Continue(q, "datasource", n)
      BY <2>1
    <2> HIDE DEF n
    <2>4. IdentityExact(g, c, "datasource", n)
      BY <1>1, <2>2, IdentityKept DEF Scoped, Checking
    <2>5. Usable(g, c, r)
      BY <1>2, <1>3, <1>7 DEF Usable
    <2> HIDE DEF g, c
    <2>6. DeclaredExact(g, c, "datasource", n)
      BY <1>1, <1>2, <2>2, <2>5 DEF DeclaredExact, Rules
    <2>7. StatementExact(g, c, "datasource", n)
      BY DEF StatementExact, Running
    <2> QED BY <2>2, <2>3, <2>4, <2>6, <2>7, EarlyExact DEF g, c
  <1> QED BY <1>4, <1>5, <1>6, <1>7, RaiseExact

\* No rule is on a name that is no column's.
LEMMA UnknownNameOpen ==
    ASSUME NEW g \in ControlPlane, NEW r, NEW f, f \notin Field, NEW u, NEW roles
    PROVE  FieldReadable(FieldPoliciesOn(g.fieldPolicies, r, f), u, roles)
  <1>1. FieldPoliciesOn(g.fieldPolicies, r, f) = {}
    BY DEF ControlPlane, FieldPolicy, FieldPoliciesOn
  <1> QED BY <1>1 DEF FieldReadable, Has

\* The projection check turns away exactly what the masks do not permit.
LEMMA ProjectionExact ==
    ASSUME NEW q, call[q] \in Call, call[q].shape # "forbidden",
           mem[q].columns = call[q].fields, mem[q].roles = ActiveRoles(gov, user(q))
    PROVE  ProjectionRejected(q, MasksOn(gov, call[q].touched, user(q), mem[q].roles))
             <=> ~PermittedMasks(gov, call[q])
  <1> DEFINE masks == MasksOn(gov, call[q].touched, user(q), mem[q].roles)
             c == call[q]
  <1>1. PermittedMasks(gov, c) <=>
          \A m \in masks :
              /\ c.shape \notin {"wildcard", "nested"}
              /\ m.field \in Columns(c.fields) =>
                    c.shape = "columns" /\ \A n \in masks : n.field = m.field => n = m
    BY DEF PermittedMasks, user
  <1>2. c.shape # "wildcard" => Columns(Names(q)) = Columns(c.fields)
    BY DEF Names
  <1>3. c.shape \in {"columns", "unaliased", "nested", "wildcard"}
    BY DEF Call, Shapes
  <1> HIDE DEF masks, c
  <1>4. CASE c.shape \in {"wildcard", "nested"}
    BY <1>1, <1>4 DEF ProjectionRejected, masks, c
  <1>5. CASE c.shape = "unaliased"
    BY <1>1, <1>2, <1>5 DEF ProjectionRejected, masks, c
  <1>6. CASE c.shape = "columns"
    BY <1>1, <1>2, <1>6 DEF ProjectionRejected, masks, c
  <1> QED BY <1>3, <1>4, <1>5, <1>6 DEF masks, c

\* From the guard to the projections, a statement is turned away only for what is
\* not permitted, and gets through only when everything is.
LEMMA GuardExact ==
    ASSUME NEW q \in Request, Steady(q),
           \/ guard(q) \/ resolve_guard_resources(q) \/ check_resolved_ancestors(q)
           \/ first_disabled_field(q) \/ check_field_access(q) \/ projection_rejection(q)
    PROVE  Exactly(q)
  <1> DEFINE g == gov
             c == call[q]
  <1>1. /\ pc[q] \in {"guard", "resolve", "resolved"} \cup Running /\ pc[q] \in Scoped
        /\ pc[q] # "scope" /\ mem[q] \in Locals /\ c \in Call
        /\ IdentityExact(g, c, pc[q], mem[q]) /\ StatementExact(g, c, pc[q], mem[q])
        /\ mem[q].columns = c.fields /\ mem[q].roles = ActiveRoles(g, c.user)
        /\ c.user \in g.keys /\ g.status[c.user] = "active"
        /\ c.limitOk /\ g.status[c.ds] = "active" /\ mem[q].dsStatus = "active"
        /\ \A r \in Resource : mem[q].held[r] \in {"absent", g.status[r]}
        /\ \A r \in c.declared : Usable(g, c, r)
    BY SteadyFacts
       DEF guard, resolve_guard_resources, check_resolved_ancestors, first_disabled_field,
           check_field_access, projection_rejection, Steady, Exact, IdentityExact,
           StatementExact, Scoped, Stated, Running
  <1>2. ASSUME NEW l \in {"resolve", "resolved"} \cup Running, NEW m, Continue(q, l, m),
               SameResult(mem[q], m), m.roles = mem[q].roles, m.columns = mem[q].columns,
               m.held = mem[q].held, m.dsStatus = mem[q].dsStatus, StatementExact(g, c, l, m)
        PROVE  Exactly(q)
    <2> HIDE DEF g, c
    <2>1. IdentityExact(g, c, l, m)
      BY <1>1, <1>2, IdentityKept DEF Scoped, Stated
    <2>2. DeclaredExact(g, c, l, m)
      BY DEF DeclaredExact, Running, Checking, Rules
    <2> QED BY <1>2, <2>1, <2>2, EarlyExact DEF g, c
  <1>3. /\ SameResult(mem[q], mem[q]) /\ user(q) = c.user
        /\ Names(q) = IF c.shape = "wildcard" THEN {} ELSE c.fields
    BY <1>1 DEF SameResult, user, Names
  <1>4. pc[q] \in Running => mem[q].actual = c.touched
    BY SteadyFacts
  <1>11. c.fields \cap Field \subseteq Columns(c.fields)
    BY <1>1, ColumnsAre DEF Call
  <1>5. CASE guard(q)
    <2>1. \/ /\ Reject(q, c.declared)
             /\ c.shape = "forbidden" \/ (StrictValidation /\ c.shape = "wildcard")
          \/ /\ Continue(q, "resolve", mem[q])
             /\ c.shape # "forbidden" /\ ~(StrictValidation /\ c.shape = "wildcard")
      BY <1>5 DEF guard
    <2>2. CASE /\ Continue(q, "resolve", mem[q])
               /\ c.shape # "forbidden" /\ ~(StrictValidation /\ c.shape = "wildcard")
      <3> HIDE DEF g, c
      <3>1. StatementExact(g, c, "resolve", mem[q])
        BY <1>1, <2>2 DEF StatementExact, Running
      <3> QED BY <1>2, <1>3, <2>2, <3>1
    <2> QED BY <2>1, <2>2, RejectExact DEF Permissible, PermittedQuery
  <1>6. CASE resolve_guard_resources(q)
    <2> DEFINE rs == {r \in c.touched :
                        DatasourceOf[r] = c.ds /\ Kind[r] \in Tabular /\ g.status[r] = "active"}
               m == [mem[q] EXCEPT !.actual = rs]
    <2>1. Continue(q, "resolved", m) /\ pc[q] = "resolve"
      BY <1>6 DEF resolve_guard_resources
    <2> HIDE DEF rs
    <2>2. /\ SameResult(mem[q], m) /\ m.roles = mem[q].roles /\ m.columns = mem[q].columns
          /\ m.held = mem[q].held /\ m.dsStatus = mem[q].dsStatus /\ m.actual = rs
      BY <1>1 DEF Locals, SameResult
    <2> HIDE DEF m, g, c
    <2>3. StatementExact(g, c, "resolved", m)
      BY <1>1, <2>1, <2>2 DEF StatementExact, Running, rs
    <2> QED BY <1>2, <2>1, <2>2, <2>3
  <1>7. CASE check_resolved_ancestors(q)
    <2>1. /\ pc[q] = "resolved"
          /\ \/ /\ Reject(q, c.declared)
                /\ ~(mem[q].actual = c.touched /\ \A r \in mem[q].actual : ActiveAncestors(r))
             \/ Continue(q, "disabledField", mem[q]) /\ mem[q].actual = c.touched
      BY <1>7 DEF check_resolved_ancestors
    <2>2. mem[q].actual = {r \in c.touched :
            DatasourceOf[r] = c.ds /\ Kind[r] \in Tabular /\ g.status[r] = "active"}
      BY <1>1, <2>1 DEF StatementExact
    <2>3. ASSUME Permissible(g, c)
          PROVE  mem[q].actual = c.touched /\ \A r \in mem[q].actual : ActiveAncestors(r)
      <3>1. \A r \in c.touched : /\ Enabled(g, r)
                                 /\ Kind[r] \in Tabular /\ DatasourceOf[r] = c.ds
        BY <2>3 DEF Permissible, PermittedQuery
      <3>2. \A r \in c.touched : g.status[r] = "active" /\ ActiveAncestors(r)
        BY <3>1 DEF Enabled, ScopeChain, ActiveAncestors
      <3> QED BY <2>2, <3>1, <3>2
    <2>4. CASE Continue(q, "disabledField", mem[q]) /\ mem[q].actual = c.touched
      <3> HIDE DEF g, c
      <3>1. StatementExact(g, c, "disabledField", mem[q])
        BY <1>1, <2>1, <2>2, <2>4 DEF StatementExact, Running
      <3> QED BY <1>2, <1>3, <2>4, <3>1 DEF Running
    <2> QED BY <2>1, <2>3, <2>4, RejectExact
  <1>8. CASE first_disabled_field(q)
    <2> DEFINE shut == \E r \in mem[q].actual, f \in Names(q) \cap Field : gov.status[<<r, f>>] = "disabled"
    <2>1. /\ pc[q] = "disabledField" /\ mem[q].actual = c.touched
          /\ \/ Reject(q, c.declared) /\ shut
             \/ Continue(q, "fieldAccess", mem[q]) /\ ~shut
      BY <1>4, <1>8 DEF first_disabled_field, Running
    <2>2. shut => ~Permissible(g, c)
      BY <1>3, <1>11, <2>1 DEF Permissible, PermittedQuery, PermittedFields
    <2>3. CASE Continue(q, "fieldAccess", mem[q]) /\ ~shut
      <3>1. c.shape # "wildcard" =>
              \A r \in c.touched, f \in c.fields \cap Field : g.status[<<r, f>>] # "disabled"
        BY <1>3, <2>1, <2>3
      <3> HIDE DEF g, c
      <3>2. StatementExact(g, c, "fieldAccess", mem[q])
        BY <1>1, <2>1, <3>1 DEF StatementExact, Running
      <3> QED BY <1>2, <1>3, <2>3, <3>2 DEF Running
    <2> QED BY <2>1, <2>2, <2>3, RejectExact
  <1>9. CASE check_field_access(q)
    <2> DEFINE closed == first_inaccessible_field(gov.fieldPolicies, user(q), mem[q].roles,
                                                  mem[q].actual, Names(q))
    <2>1. /\ pc[q] = "fieldAccess" /\ mem[q].actual = c.touched
          /\ \/ Reject(q, c.declared) /\ closed # {}
             \/ Continue(q, "projection", mem[q]) /\ closed = {}
      BY <1>4, <1>9 DEF check_field_access, Running
    <2>2. closed # {} <=> c.shape # "wildcard" /\ \E r \in c.touched, f \in c.fields \cap Field :
            ~FieldReadable(FieldPoliciesOn(g.fieldPolicies, r, f), c.user, ActiveRoles(g, c.user))
      <3>1. closed # {} <=> c.shape # "wildcard" /\ \E r \in c.touched, f \in c.fields :
              ~FieldReadable(FieldPoliciesOn(g.fieldPolicies, r, f), c.user, ActiveRoles(g, c.user))
        BY <1>1, <1>3, <2>1 DEF first_inaccessible_field
      <3>2. \A r, f : f \notin Field =>
              FieldReadable(FieldPoliciesOn(g.fieldPolicies, r, f), c.user, ActiveRoles(g, c.user))
        BY SteadyFacts, UnknownNameOpen
      <3> HIDE DEF closed, c, g
      <3> QED BY <3>1, <3>2
    <2> HIDE DEF closed
    <2>3. closed # {} => ~Permissible(g, c)
      BY <1>11, <2>2 DEF Permissible, PermittedQuery, PermittedFields
    <2>4. CASE Continue(q, "projection", mem[q]) /\ closed = {}
      <3>1. c.shape # "wildcard" => PermittedFields(g, c, c.fields \cap Field)
        BY <1>1, <2>1, <2>2, <2>4 DEF PermittedFields, StatementExact
      <3> HIDE DEF g, c
      <3>2. StatementExact(g, c, "projection", mem[q])
        BY <1>1, <2>1, <3>1 DEF StatementExact, Running
      <3> QED BY <1>2, <1>3, <2>4, <3>2 DEF Running
    <2> QED BY <2>1, <2>3, <2>4, RejectExact
  <1>10. CASE projection_rejection(q)
    <2> DEFINE rejected ==
                 ProjectionRejected(q, MasksOn(gov, c.touched, user(q), mem[q].roles))
    <2>1. /\ pc[q] = "projection" /\ mem[q].actual = c.touched
          /\ \/ Reject(q, c.declared) /\ (rejected \/ ~(c.touched \subseteq c.declared))
             \/ Continue(q, "execute", mem[q]) /\ ~rejected /\ c.touched \subseteq c.declared
      BY <1>4, <1>10 DEF projection_rejection, Running
    <2>2. c.shape # "forbidden"
      BY <1>1, <2>1 DEF StatementExact, Running
    <2>3. rejected <=> ~PermittedMasks(g, c)
      BY <1>1, <1>3, <2>2, ProjectionExact
    <2> HIDE DEF rejected
    <2>4. CASE Continue(q, "execute", mem[q]) /\ ~rejected /\ c.touched \subseteq c.declared
      <3> HIDE DEF g, c
      <3>1. Passable(g, c)
        BY <1>1, <2>1, <2>3, <2>4 DEF Passable, PermittedQuery, StatementExact, Running, Usable
      <3>2. StatementExact(g, c, "execute", mem[q])
        BY <1>1, <2>1, <3>1 DEF StatementExact, Running
      <3> QED BY <1>2, <1>3, <2>4, <3>2 DEF Running
    <2> QED BY <2>1, <2>3, <2>4, RejectExact DEF Permissible, PermittedQuery
  <1> QED BY <1>5, <1>6, <1>7, <1>8, <1>9, <1>10

\* What runs is permitted, and its result denies nothing.
LEMMA RunExact ==
    ASSUME NEW q \in Request, Steady(q), connector_execute_query(q) \/ apply_to_result(q)
    PROVE  Exactly(q)
  <1>1. /\ pc[q] \in {"execute", "mask"} /\ mem[q] \in Locals
        /\ Passable(gov, call[q])
    BY SteadyFacts
       DEF connector_execute_query, apply_to_result, Steady, Exact, StatementExact
  <1>2. CASE connector_execute_query(q)
    <2> DEFINE m == [mem[q] EXCEPT !.ran = TRUE]
    <2>1. \/ Continue(q, "mask", m) \/ Record(q, "error", mem[q].actual, mem[q]) \/ Raise(q)
      BY <1>2 DEF connector_execute_query
    <2>2. /\ m.roles = mem[q].roles /\ m.columns = mem[q].columns /\ m.held = mem[q].held
          /\ m.dsStatus = mem[q].dsStatus /\ m.event = mem[q].event
      BY <1>1 DEF Locals
    <2> HIDE DEF m
    <2>3. pc[q] = "execute"
      BY <1>2 DEF connector_execute_query
    <2>4. /\ IdentityExact(gov, call[q], "mask", m) /\ DeclaredExact(gov, call[q], "mask", m)
          /\ StatementExact(gov, call[q], "mask", m) /\ AnswerExact(gov, call[q], m)
      BY <1>1, <2>2, <2>3
         DEF Steady, Exact, IdentityExact, DeclaredExact, StatementExact, AnswerExact,
             Scoped, Stated, Checking, Rules, Running
    <2>5. CASE Continue(q, "mask", m)
      BY <2>4, <2>5 DEF Exact, Exactly
    <2> QED BY <1>1, <2>1, <2>5, RecordExact, RaiseExact
  <1>3. CASE apply_to_result(q)
    <2>1. PICK bare, minted :
            \/ Raise(q)
            \/ Record(q, "allowed", mem[q].actual, [mem[q] EXCEPT !.plain = bare, !.minted = minted])
      BY <1>3 DEF apply_to_result
    <2> DEFINE m2 == [mem[q] EXCEPT !.plain = bare, !.minted = minted]
               n == [m2 EXCEPT !.event = [decision |-> "allowed", resources |-> mem[q].actual]]
    <2>2. n.ran = mem[q].ran /\ n.held = mem[q].held /\ n.event.decision = "allowed"
      BY <1>1 DEF Locals
    <2>3. Raise(q) \/ Continue(q, "commit", n)
      BY <2>1 DEF Record
    <2> HIDE DEF n
    <2>4. Exact(gov, call[q], "commit", n)
      BY <2>2 DEF Steady, Exact, IdentityExact, DeclaredExact, StatementExact, AnswerExact,
                  Scoped, Stated, Checking, Rules, Running
    <2> QED BY <2>3, <2>4, RaiseExact DEF Exactly
  <1> QED BY <1>2, <1>3

-----------------------------------------------------------------------------
\* Every step of a query but its start and its commit is exact.
LEMMA WorksExactly ==
    ASSUME NEW q \in Request, Steady(q), Handle(q)
    PROVE  Start(q) \/ commit(q) \/ Exactly(q)
  <1>1. CASE CheckResource(q)
    <2>1. ~(get_resource(q) \/ active_fields(q) \/ readable_fields(q))
      BY SteadyFacts DEF get_resource, active_fields, readable_fields
    <2> QED BY <1>1, <2>1, ScopeExact, RulesExact, DecideExact DEF CheckResource
  <1>2. CASE ExecuteQuery(q)
    BY <1>2, GuardExact, RunExact DEF ExecuteQuery
  <1>3. ~ListResources(q) /\ ~Decrypt(q)
    BY DEF ListResources, list_rows, disabled_resource_reasons, list_resources, Decrypt,
           get_decrypt_contexts, load_context_resources, decide_decrypt, decrypt_values,
           Steady, Good, Routed, kind
  <1>4. CASE reply(q)
    <2>1. Exact(gov, call[q], "done", mem[q])
      BY <1>4 DEF Steady, Exact, IdentityExact, DeclaredExact, StatementExact,
                  Scoped, Stated, Checking, Rules, Running
    <2> QED BY <1>4, <2>1 DEF reply, Exactly
  <1> QED BY <1>1, <1>2, <1>3, <1>4, AuthenticateExact, RaiseExact DEF Handle, crash

\* Only a request on its way takes a step, but for its first.
LEMMA HandlesInFlight ==
    ASSUME NEW q \in Request, Handle(q), ~Start(q)
    PROVE  InFlight(q)
  <1>1. CASE Authenticate(q)
    BY <1>1 DEF Authenticate, authenticate_api_key_value, load_user, load_roles, InFlight
  <1>2. CASE CheckResource(q)
    BY <1>2 DEF CheckResource, get_resource, active_fields, readable_fields, get_datasource,
           get_declared_resource, check_datasource_and_row, check_ancestors, load_policies,
           load_chain, decide_read, InFlight
  <1>3. CASE ExecuteQuery(q)
    BY <1>3 DEF ExecuteQuery, guard, resolve_guard_resources, check_resolved_ancestors,
           first_disabled_field, check_field_access, projection_rejection,
           connector_execute_query, apply_to_result, InFlight
  <1>4. CASE ListResources(q) \/ Decrypt(q)
    BY <1>4 DEF ListResources, list_rows, disabled_resource_reasons, list_resources, Decrypt,
           get_decrypt_contexts, load_context_resources, decide_decrypt, decrypt_values, InFlight
  <1>5. CASE commit(q) \/ reply(q) \/ crash(q)
    BY <1>5 DEF commit, reply, crash, InFlight
  <1> QED BY <1>1, <1>2, <1>3, <1>4, <1>5 DEF Handle

\* A step of one request keeps every query exact.
LEMMA HandleExact ==
    ASSUME ExactInv, NEW q \in Request, Handle(q), NEW p \in Request
    PROVE  ExactlySo(p)'
  <1>1. /\ Typed /\ Good(q, pc[q], mem[q]) /\ Clean(q, pc[q], mem[q])
        /\ ExactlySo(p) /\ ExactlySo(q)
    BY DEF ExactInv, OutcomeInv, GrantInv
  <1>2. call' = call
    <2>1. Start(q) \/ commit(q) \/ reply(q) \/ Cleanly(q)
      BY <1>1, WorksCleanly
    <2> QED BY <2>1 DEF Start, commit, reply, Cleanly, Continue, served
  <1>3. CASE Start(q)
    <2>1. /\ mem' = mem /\ mem[q] = Fresh /\ window'[q] = {gov}
          /\ p # q => pc'[p] = pc[p] /\ window'[p] = window[p]
          /\ pc'[q] = "key"
      BY <1>1, <1>3 DEF Start, Good, Typed, TypeOK
    <2>2. \A g : Exact(g, call[q], "key", Fresh)
      BY DEF Fresh, Exact, IdentityExact, DeclaredExact, StatementExact, AnswerExact,
             Scoped, Stated, Checking, Rules, Running
    <2>3. CASE p = q
      <3>1. \A g : Exact(g, call'[p], pc'[p], mem'[p])
        BY <1>2, <2>1, <2>2, <2>3
      <3> QED BY <3>1 DEF ExactlySo
    <2>4. CASE p # q
      BY <1>1, <1>2, <2>1, <2>4 DEF ExactlySo, kind
    <2> QED BY <2>3, <2>4
  <1>4. CASE ~Start(q)
    <2>1. window' = window /\ (p # q => pc'[p] = pc[p] /\ mem'[p] = mem[p])
      <3>1. commit(q) \/ reply(q) \/ Cleanly(q)
        BY <1>1, <1>4, WorksCleanly
      <3> QED BY <1>1, <3>1 DEF commit, reply, Cleanly, Continue, served, Typed, TypeOK
    <2>2. CASE p # q
      BY <1>1, <1>2, <2>1, <2>2 DEF ExactlySo, kind
    <2>3. ASSUME p = q, NEW g \in window[q], window[q] = {g}, kind(q) = "query"
          PROVE  Exact(g, call[q], pc'[q], mem'[q])
      <3>1. gov \in window[q]
        BY <1>1, <1>4, HandlesInFlight DEF Good, InFlight
      <3>2. Steady(q) /\ g = gov
        BY <1>1, <2>3, <3>1 DEF Steady, ExactlySo
      <3>3. CASE commit(q)
        <4>1. pc'[q] = "reply" /\ mem'[q] = mem[q]
          BY <1>1, <3>3 DEF commit, served, Typed, TypeOK
        <4>2. Exact(gov, call[q], "reply", mem[q])
          BY <3>2 DEF Steady, Exact, IdentityExact, DeclaredExact, StatementExact,
                      Scoped, Stated, Checking, Rules, Running
        <4> QED BY <3>2, <4>1, <4>2
      <3>4. CASE Exactly(q)
        <4>1. PICK l, m : Continue(q, l, m) /\ Exact(gov, call[q], l, m)
          BY <3>4 DEF Exactly
        <4>2. pc'[q] = l /\ mem'[q] = m
          BY <1>1, <4>1 DEF Continue, Typed, TypeOK
        <4> QED BY <3>2, <4>1, <4>2
      <3> QED BY <1>4, <3>2, <3>3, <3>4, WorksExactly
    <2> QED BY <1>2, <2>1, <2>2, <2>3 DEF ExactlySo, kind
  <1> QED BY <1>3, <1>4

\* A query sees nothing committed but what is added to its window.
LEMMA ExactStep == ExactInv /\ [Next]_vars => ExactInv'
  <1> SUFFICES ASSUME ExactInv, [Next]_vars, NEW p \in Request
               PROVE  ExactlySo(p)'
    BY OutcomeStep DEF ExactInv
  <1>1. ExactlySo(p) /\ Good(p, pc[p], mem[p])
    BY DEF ExactInv, OutcomeInv, GrantInv
  <1>2. CASE Admins
    <2>1. /\ pc' = pc /\ mem' = mem /\ call' = call
          /\ window'[p] = IF InFlight(p) THEN window[p] \cup {gov'} ELSE window[p]
      BY <1>2 DEF Admins
    <2>2. InFlight(p) => gov \in window[p]
      BY <1>1 DEF Good, InFlight
    <2>3. \A g \in window'[p] : window'[p] = {g} => g \in window[p] /\ window[p] = {g}
      BY <2>1, <2>2
    <2> QED BY <1>1, <2>1, <2>3 DEF ExactlySo, kind
  <1>3. CASE Tick \/ UNCHANGED vars
    BY <1>1, <1>3 DEF Tick, vars, served, ExactlySo, kind
  <1>4. CASE \E q \in Request : Handle(q)
    BY <1>4, HandleExact
  <1> QED BY <1>2, <1>3, <1>4 DEF Next

\* A query that has read nothing has said nothing.
LEMMA ExactInit == Init => ExactInv
  <1> SUFFICES ASSUME Init, NEW p \in Request PROVE ExactlySo(p)
    BY OutcomeInit DEF ExactInv
  <1> QED BY DEF Init, ExactlySo

\* When no edit is committed during a query, its step-by-step checks decide exactly
\* what the rules in force permit: it runs only a permitted statement, and denies
\* only one that is not.  (Of what it runs, the rules on columns are claimed for those
\* named as the catalog spells them.)
THEOREM QuietQueriesDecideExactly == Spec => []QuietQueriesAreExact
  <1>1. ExactInv => QuietQueriesAreExact
    BY DEF ExactInv, ExactlySo, Exact, AnswerExact, QuietQueriesAreExact, kind, Permissible, Passable
  <1> QED BY <1>1, ExactInit, ExactStep, PTL DEF Spec
=============================================================================
