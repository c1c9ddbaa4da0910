--------------------------- MODULE RuntimePolicy ---------------------------
(***************************************************************************)
(* The access decisions of RuntimePolicyService (adg/policy/runtime.py):   *)
(* pure operators over the rows one request has read.  The state those     *)
(* rows live in is in Governance, the requests that read them one SELECT   *)
(* at a time are in GatewayRuntime.                                        *)
(*                                                                         *)
(* Identifiers of all tables are distinct model values, so the scope of a  *)
(* policy (its one non-null column among resource_id, datasource_id and    *)
(* tag_id) is the identifier itself, and Global when all three are null;   *)
(* in the same way its subject is a user, a role or Everyone.              *)
(***************************************************************************)
EXTENDS Naturals

CONSTANTS
    Resource,      \* rows of the resource table
    Datasource, Tag, User, Role,
    DatasourceOf,  \* [Resource -> Datasource], resource.datasource_id
    Parent,        \* [Resource -> Resource \cup {NoParent}], resource.parent_id
    Kind,          \* [Resource -> STRING], resource.kind
    NoParent,      \* parent_id is null
    Everyone,      \* subject_type "all"
    Global,        \* a policy with no scope column set
    RowId          \* identifiers of rows binding a tag to a resource

Subject == User \cup Role \cup {Everyone}
Scope   == Resource \cup Datasource \cup Tag \cup {Global}

\* An active policy for the action "read": the service selects these two
\* columns in SQL.  effect is a free string in the API, so a third value stands
\* for all strings that are neither "allow" nor "deny".
Effect == {"allow", "deny", "other"}
ResourcePolicy == [subject : Subject, scope : Scope, effect : Effect, decrypt : BOOLEAN]
FieldPolicy(Field) == [subject : Subject, resource : Resource, field : Field, effect : Effect]
ResourceTag == [id : RowId, resource : Resource, tag : Tag]

DisjointNames(a, b) == a \cap b = {}

ASSUME ResourceTree ==
    /\ DatasourceOf \in [Resource -> Datasource]
    /\ Parent \in [Resource -> Resource \cup {NoParent}]
    /\ Kind \in [Resource -> STRING]
    /\ NoParent \notin Resource

\* The three selectors of a policy never share a value.
ASSUME NamesAreDistinct ==
    /\ DisjointNames(Resource, Datasource \cup Tag \cup {Global})
    /\ DisjointNames(Datasource, Tag \cup {Global})
    /\ Global \notin Tag
    /\ DisjointNames(User, Role \cup {Everyone})
    /\ Everyone \notin Role

-----------------------------------------------------------------------------
SubjectMatches(policy, user, roles) == policy.subject \in {Everyone, user} \cup roles

\* session.get(Resource, parent_id) finds the parent only while it is live;
\* the walk ends at the first parent that is not there.
LiveParent(r, live) == {Parent[r]} \cap live

\* Trees are database / schema / table at the deepest (the metadata scan builds
\* no other), so that two steps up reach the root.
ScopeChain(r, live) ==
    LET up == LiveParent(r, live)
    IN  {r} \cup up \cup UNION {LiveParent(x, live) : x \in up}

ASSUME TreeDepth ==
    \A r \in Resource, live \in SUBSET Resource :
        \A x \in ScopeChain(r, live) : LiveParent(x, live) \subseteq ScopeChain(r, live)

\* _RESOURCE_SPECIFICITY, with .get(kind, 1) for every other kind.
KindLevel(kind) ==
    CASE kind \in {"relational_table", "relational_view"} -> 4
      [] kind = "schema"   -> 3
      [] kind = "database" -> 2
      [] OTHER             -> 1

Level(scope) ==
    IF scope \in Resource THEN KindLevel(Kind[scope])
    ELSE IF scope = Global THEN 0 ELSE 1

InScope(policy, r, chain, tags) ==
    policy.scope \in chain \cup tags \cup {DatasourceOf[r], Global}

Applicable(policies, user, roles, r, chain, tags) ==
    {p \in policies : SubjectMatches(p, user, roles) /\ InScope(p, r, chain, tags)}

\* Mutant: every applicable policy has a say, whatever its level.
MostSpecific_All(applicable) == applicable

\* Mutant: the order of levels is the wrong way round.
MostSpecific_Least(applicable) ==
    {p \in applicable : \A q \in applicable : Level(p.scope) <= Level(q.scope)}

\* Only the most specific of the applicable policies have a say.
MostSpecific(applicable) ==
    {p \in applicable : \A q \in applicable : Level(q.scope) <= Level(p.scope)}

Has(policies, effect) == \E p \in policies : p.effect = effect

\* Mutant: without any policy the gateway is open.
ReadVerdict_OpenByDefault(policies, top) ==
    IF policies = {}             THEN "allowed_by_policy"
    ELSE IF Has(top, "deny")     THEN "denied_by_policy"
    ELSE IF Has(top, "allow")    THEN "allowed_by_policy"
    ELSE "no_matching_allow"

\* Mutant: policies restrict only those they match.
ReadVerdict_OpenWhenUnmatched(policies, top) ==
    IF policies = {}             THEN "no_policy_default_deny"
    ELSE IF Has(top, "deny")     THEN "denied_by_policy"
    ELSE "allowed_by_policy"

\* The reason of a PolicyDecision; Allowed tells the granting one.
ReadVerdict(policies, top) ==
    IF policies = {}             THEN "no_policy_default_deny"
    ELSE IF Has(top, "deny")     THEN "denied_by_policy"
    ELSE IF Has(top, "allow")    THEN "allowed_by_policy"
    ELSE "no_matching_allow"

\* Mutant: decryption looks at the flag of the allow rules alone.
DecryptVerdict_FlagOnly(policies, top) ==
    IF Has({p \in policies : p.decrypt}, "allow") THEN "allowed_by_policy"
    ELSE "decrypt_not_allowed"

DecryptVerdict(policies, top) ==
    IF policies = {}             THEN "no_policy_default_deny"
    ELSE IF Has(top, "deny")     THEN "denied_by_policy"
    ELSE IF Has({p \in top : p.decrypt}, "allow") THEN "allowed_by_policy"
    ELSE "decrypt_not_allowed"

Allowed(verdict) == verdict = "allowed_by_policy"

-----------------------------------------------------------------------------
\* The single-resource path looks each tag policy's binding up with
\* scalar_one_or_none, which raises when two rows bind the same pair; the batch
\* path collects the pairs in a set.
TagsOf(rows, r) == {row.tag : row \in {x \in rows : x.resource = r}}

TwiceBound(rows, r, tag) ==
    \E x, y \in rows : x.id # y.id /\ {x, y} \subseteq {z \in rows : z.resource = r /\ z.tag = tag}

LookupRaises(policies, user, roles, r, rows) ==
    \E p \in policies :
        SubjectMatches(p, user, roles) /\ p.scope \in Tag /\ TwiceBound(rows, r, p.scope)

check_resource_access(policies, user, roles, r, chain, rows) ==
    IF LookupRaises(policies, user, roles, r, rows) THEN "error"
    ELSE ReadVerdict(policies,
             MostSpecific(Applicable(policies, user, roles, r, chain, TagsOf(rows, r))))

check_decrypt_access(policies, user, roles, r, chain, rows) ==
    IF LookupRaises(policies, user, roles, r, rows) THEN "error"
    ELSE DecryptVerdict(policies,
             MostSpecific(Applicable(policies, user, roles, r, chain, TagsOf(rows, r))))

\* tags_by_resource_id keeps only the tags some active policy names.
PolicyTags(policies) == {p.scope : p \in policies} \cap Tag

\* Mutant: the batch path matches the resource alone, not its ancestors.
check_resource_access_batch_NoParents(policies, user, roles, resources, live, rows) ==
    [r \in resources |->
        LET tags == TagsOf(rows, r) \cap PolicyTags(policies)
        IN  ReadVerdict(policies, MostSpecific(
                Applicable(policies, user, roles, r, {r}, tags)))]

check_resource_access_batch(policies, user, roles, resources, live, rows) ==
    [r \in resources |->
        LET tags == TagsOf(rows, r) \cap PolicyTags(policies)
        IN  ReadVerdict(policies, MostSpecific(
                Applicable(policies, user, roles, r, ScopeChain(r, live), tags)))]

-----------------------------------------------------------------------------
\* Mutant: a field is open to whom no policy on it mentions.
FieldReadable_OpenToOthers(policies, user, roles) ==
    LET mine == {p \in policies : SubjectMatches(p, user, roles)}
    IN  /\ ~Has(mine, "deny")
        /\ mine = {} \/ Has(mine, "allow")

\* Policies here are those of one (resource, field) pair: any policy on the pair
\* turns the field from open to allow-listed.
FieldReadable(policies, user, roles) ==
    LET mine == {p \in policies : SubjectMatches(p, user, roles)}
    IN  /\ ~Has(mine, "deny")
        /\ policies = {} \/ Has(mine, "allow")

FieldPoliciesOn(policies, r, field) == {p \in policies : p.resource = r /\ p.field = field}

first_inaccessible_field(policies, user, roles, resources, fields) ==
    {f \in fields : \E r \in resources : ~FieldReadable(FieldPoliciesOn(policies, r, f), user, roles)}
=============================================================================
