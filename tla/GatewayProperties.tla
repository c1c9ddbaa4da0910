-------------------------- MODULE GatewayProperties --------------------------
(***************************************************************************)
(* What a runtime request may and may not do while the control plane is    *)
(* edited under it.  A request reads identity, statuses, rules, tags and   *)
(* masks at different moments, so nothing relates its outcome to one       *)
(* content of the control plane; everything below relates it to window[q], *)
(* the contents committed between its first read and its reply.            *)
(***************************************************************************)
EXTENDS GatewayRuntime

-----------------------------------------------------------------------------
(* What held at some moment of the request, and what held all along. *)

EverRoles(q)     == UNION {ActiveRoles(g, user(q)) : g \in window[q]}
EverPolicies(q)  == UNION {g.policies : g \in window[q]}
EverChain(q, r)  == UNION {ScopeChain(r, LiveResources(g)) : g \in window[q]}
EverTags(q, r)   == UNION {TagsOf(g.tagRows, r) : g \in window[q]}

AlwaysRoles(q)    == {x \in Role : \A g \in window[q] : x \in ActiveRoles(g, user(q))}
AlwaysPolicies(q) == {p \in EverPolicies(q) : \A g \in window[q] : p \in g.policies}
AlwaysChain(q, r) == {x \in Resource : \A g \in window[q] : x \in ScopeChain(r, LiveResources(g))}
AlwaysTags(q, r)  == {t \in Tag : \A g \in window[q] : t \in TagsOf(g.tagRows, r)}

\* The rules that may have applied to r, and those that applied all along.
EverApplicable(q, r) ==
    Applicable(EverPolicies(q), user(q), EverRoles(q), r, EverChain(q, r), EverTags(q, r))
AlwaysApplicable(q, r) ==
    Applicable(AlwaysPolicies(q), user(q), AlwaysRoles(q), r, AlwaysChain(q, r), AlwaysTags(q, r))

StandingSubject(q, x) == SubjectMatches(x, user(q), AlwaysRoles(q))

\* The resources a request has read, described, listed or decrypted.
Served(q) ==
    IF call[q].kind \in {"query", "preview"} /\ mem[q].ran
        THEN call[q].declared \cup call[q].touched
    ELSE IF call[q].kind = "describe" /\ mem[q].event.decision = "allowed"
        THEN call[q].declared
    ELSE IF call[q].kind = "list" /\ mem[q].event.decision = "allowed"
        THEN mem[q].actual
    ELSE IF call[q].kind = "decrypt" /\ mem[q].ran
        THEN mem[q].actual
    ELSE {}

\* The columns whose values, or whose existence, a request has shown, and which it names
\* as the catalog spells them.
Shown(q) ==
    IF Served(q) = {} \/ call[q].kind \notin {"query", "preview", "describe"} THEN {}
    ELSE (IF call[q].kind = "describe" THEN call[q].declared ELSE call[q].touched)
            \X (Names(q) \cap Field)

-----------------------------------------------------------------------------
\* Rows, locals and events are of their types throughout.
TypeOK ==
    /\ GovernanceTypeOK
    /\ call \in [Request -> Call]
    /\ mem \in [Request -> Locals]
    /\ contexts \in [ContextId -> Context \cup {NoContext}]
    /\ audit \subseteq Request \X [decision : Decision \ {"none"}, resources : SUBSET Resource]
    /\ window \in [Request -> SUBSET ControlPlane]

\* No resource is read, described, listed or decrypted unless a rule that allows
\* it to this caller (and allows decryption, to decrypt) was in force at some
\* moment of the request: default deny survives every interleaving.
ServedOnlyWithGrant ==
    \A q \in Request : \A r \in Served(q) :
        \E p \in EverApplicable(q, r) :
            p.effect = "allow" /\ (call[q].kind = "decrypt" => p.decrypt)

\* A deny rule in force all along, and no less specific than any rule that may
\* have applied, is never overridden by reads of different moments.
StandingDenyHolds ==
    \A q \in Request : \A r \in Served(q) :
        ~\E p \in AlwaysApplicable(q, r) :
            /\ p.effect = "deny"
            /\ \A x \in EverApplicable(q, r) : Level(x.scope) <= Level(p.scope)

\* Nothing is read from a resource that was disabled all along, itself, in its
\* datasource, or in an ancestor.  (Decryption does not look at statuses.)
StandingDisableHolds ==
    \A q \in Request : \A r \in Served(q) :
        call[q].kind # "decrypt" =>
            \A x \in {DatasourceOf[r], r} \cup AlwaysChain(q, r) :
                \E g \in window[q] : g.status[x] = "active"

\* A column disabled all along, or denied to the caller all along, is neither
\* described nor read under the name the catalog has for it.  The limits are the
\* code's: another spelling of that name (SELECT EMAIL for email) finds neither its
\* status (tools.py:730) nor a rule (runtime.py:224), although a database that ignores
\* case returns the column; and select * names no column and, when strict validation
\* is off, is not checked.  (Masks have the first limit not, see below.)
StandingFieldRuleHolds ==
    \A q \in Request : \A c \in Shown(q) :
        /\ \E g \in window[q] : g.status[c] # "disabled"
        /\ ~\E p \in FieldPolicyRows :
              /\ <<p.resource, p.field>> = c /\ p.effect = "deny"
              /\ StandingSubject(q, p)
              /\ \A g \in window[q] : p \in g.fieldPolicies

\* A cell with a mask for the caller all along is never delivered in the clear,
\* although the masks are read twice, before and after execution, and in whatever case
\* the statement writes its column.
StandingMaskHolds ==
    \A q \in Request : \A c \in mem[q].plain :
        ~\E m \in MaskRows :
            /\ <<m.resource, m.field>> = c /\ StandingSubject(q, m)
            /\ \A g \in window[q] : m \in g.masks

\* What a client can have seen is on record: rows it received are in an event
\* naming exactly the resources the SQL read, and the markers among them open
\* with a context of its own for those resources.
RepliesAreOnRecord ==
    \A q \in Request : pc[q] \in {"reply", "done"} =>
        /\ call[q].kind \in {"query", "preview"} /\ mem[q].ran =>
              <<q, [decision |-> "allowed", resources |-> call[q].touched]>> \in audit
        /\ ~mem[q].ran => \E x \in audit : x[1] = q
        /\ mem[q].minted # NoContext =>
              /\ contexts[q].user = user(q)
              /\ contexts[q].resources = call[q].touched

\* Values are decrypted only for the user whose query masked them, and only
\* while all their contexts are alive, however long the checks have taken.
DecryptedInTime ==
    [][ \A q \in Request :
          call[q].kind = "decrypt" /\ mem'[q].ran /\ ~mem[q].ran =>
              \A x \in call[q].markers :
                  contexts[x].user = user(q) /\ contexts[x].expires > now ]_vars

-----------------------------------------------------------------------------
(* The reference: what one content of the control plane permits. *)

MayUse(g, c, r) ==
    Allowed(check_resource_access(g.policies, c.user, ActiveRoles(g, c.user), r,
                                  ScopeChain(r, LiveResources(g)), g.tagRows))

Enabled(g, r) ==
    \A x \in ScopeChain(r, LiveResources(g)) \cup {DatasourceOf[r]} : g.status[x] = "active"

PermittedFields(g, c, columns) ==
    \A r \in c.touched, f \in columns :
        /\ g.status[<<r, f>>] # "disabled"
        /\ FieldReadable(FieldPoliciesOn(g.fieldPolicies, r, f), c.user, ActiveRoles(g, c.user))

PermittedMasks(g, c) ==
    LET masks == MasksOn(g, c.touched, c.user, ActiveRoles(g, c.user))
    IN  \A m \in masks :
            /\ c.shape \notin {"wildcard", "nested"}
            /\ m.field \in Columns(c.fields) => c.shape = "columns" /\ \A n \in masks : n.field = m.field => n = m

PermittedQuery(g, c, columns) ==
    /\ c.user \in g.keys /\ g.status[c.user] = "active" /\ c.limitOk
    /\ g.status[c.ds] = "active"
    /\ \A r \in c.declared : Enabled(g, r) /\ MayUse(g, c, r)
    /\ c.touched \subseteq c.declared
    /\ \A r \in c.touched : Kind[r] \in Tabular /\ DatasourceOf[r] = c.ds
    /\ c.shape # "forbidden" /\ ~(StrictValidation /\ c.shape = "wildcard")
    /\ c.shape # "wildcard" => PermittedFields(g, c, columns)
    /\ PermittedMasks(g, c)

\* When no edit is committed during a query, its step-by-step checks decide
\* exactly what the rules in force permit: what they refuse is not permitted, and what
\* they let through is, with the rules on the columns it names as the catalog does.
QuietQueriesAreExact ==
    \A q \in Request : \A g \in window[q] :
        window[q] = {g} /\ call[q].kind = "query" =>
            /\ mem[q].ran => PermittedQuery(g, call[q], call[q].fields \cap Field)
            /\ mem[q].event.decision = "denied" => ~PermittedQuery(g, call[q], Columns(call[q].fields))

\* Every statement that was executed leaves an audit event, once its request is
\* over, as docs/superpowers/memory/modules/milestone-3-mcp-runtime.md requires.
EveryExecutionAudited ==
    \A q \in Request :
        mem[q].ran /\ ~InFlight(q) => \E x \in audit : x[1] = q
=============================================================================
