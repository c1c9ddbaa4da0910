--------------------------- MODULE GatewayRuntime ---------------------------
(***************************************************************************)
(* Runtime requests (HTTP route, MCP tool or /runtime/decrypt) served      *)
(* while administrators edit the control plane.  A handler runs in a       *)
(* worker thread with its own database session: every SELECT is a step     *)
(* that sees the last committed rows, and what it read stays in the        *)
(* handler's locals.  Rows a local refers to (the datasource, the declared *)
(* resources) are not read again: session.get returns the object at hand.  *)
(* A request commits once, at its end; until then its audit event and its  *)
(* decrypt context are lost with it when it raises or the process stops.   *)
(***************************************************************************)
EXTENDS Governance

CONSTANTS
    Spelling,          \* column names as statements write them
    ColumnOf,          \* the column a database takes a spelling for, which ignores case
    Request,           \* one-shot request slots
    ContextId,         \* names of decrypt contexts: the requests, and earlier ones
    Calls,             \* requests the clients of this instance may send
    SeedContexts,      \* decrypt contexts of earlier results
    StrictValidation,  \* settings.sql_strict_validation
    MayCrash,          \* whether the process may stop while it serves a request
    ContextTtl,        \* lifetime of a decrypt context, in clock units
    MaxClock           \* bound on the clock

Kinds   == {"query", "preview", "describe", "list", "decrypt"}
Tabular == {"relational_table", "relational_view"}

\* "columns": every projection names its source columns and has an output name;
\* "unaliased": the columns are inside an expression with no alias; "nested": a
\* projection with a nested select; "wildcard": select *; "forbidden": any
\* statement SqlGuard refuses.
Shapes == {"columns", "unaliased", "nested", "wildcard", "forbidden"}

Call ==
    [ kind     : Kinds,
      user     : User,
      ds       : Datasource,
      declared : SUBSET Resource,   \* resource_ids of the request
      touched  : SUBSET Resource,   \* resources the SQL text really reads
      fields   : SUBSET Spelling,   \* columns it names, as it writes them
      shape    : Shapes,
      limitOk  : BOOLEAN,           \* 1 <= limit <= runtime_query_max_limit
      markers  : SUBSET ContextId ]   \* contexts of the values sent to decrypt

\* The context of a reversible result, named after the request that minted it.
Context == [user : User, resources : SUBSET Resource, expires : Nat]
NoContext == [user |-> Everyone, resources |-> {}, expires |-> 0]

\* The event a request has recorded in its session.
Decision == {"none", "allowed", "denied", "error"}
Event == [decision : Decision, resources : SUBSET Resource]

Locals ==
    [ roles    : SUBSET Role,              \* identity.roles
      dsStatus : Status,                   \* the datasource object of execute_query
      held     : [Resource -> Status],     \* the resource objects, "absent" if none
      gate     : BOOLEAN,                  \* checking for describe or preview
      todo     : SUBSET Resource,          \* resources still to check
      cur      : SUBSET Resource,          \* the one being checked, if any
      policies : SUBSET ResourcePolicy,
      live     : SUBSET Resource,          \* resources the parent walk found
      columns  : SUBSET Spelling,
      actual   : SUBSET Resource,          \* resources resolved from the SQL, or listed
      ran      : BOOLEAN,                  \* the statement was executed
      plain    : SUBSET (Resource \X Field), \* cells in the result that no mask hides
      minted   : Context \cup {NoContext},
      event    : Event ]

\* describe_resource and preview_resource take one resource, and the statement a
\* preview builds reads that one.  A column is also a spelling, the catalog's, and
\* no two columns are told apart by case alone.  (A database that minds case answers
\* another spelling with an error, which every statement may get.)
ASSUME GatewayConstants ==
    /\ Field \subseteq Spelling
    /\ ColumnOf \in [Spelling -> Field] /\ \A f \in Field : ColumnOf[f] = f
    /\ Calls \subseteq Call
    /\ \A c \in Calls : c.kind \in {"preview", "describe"} =>
          c.touched = c.declared /\ \E r \in Resource : c.declared = {r}
    /\ Request \subseteq ContextId
    /\ SeedContexts \in [ContextId -> Context \cup {NoContext}]
    /\ StrictValidation \in BOOLEAN /\ MayCrash \in BOOLEAN
    /\ ContextTtl \in Nat /\ MaxClock \in Nat

VARIABLES
    pc,        \* the read or write a request does next
    call,      \* its parameters
    mem,       \* its locals
    audit,     \* committed audit events, as <<request, event>>
    contexts,  \* committed decrypt contexts, by minting request
    now,
    window     \* history: the control-plane contents seen from start to reply

served == <<call, window>>
tables == <<audit, contexts>>
vars == <<govVars, pc, call, mem, audit, contexts, now, window>>

Fresh == [ roles |-> {}, dsStatus |-> "absent", held |-> [r \in Resource |-> "absent"],
           gate |-> FALSE, todo |-> {}, cur |-> {}, policies |-> {}, live |-> {},
           columns |-> {}, actual |-> {}, ran |-> FALSE, plain |-> {},
           minted |-> NoContext, event |-> [decision |-> "none", resources |-> {}] ]

Init ==
    /\ InitGovernance
    /\ pc = [q \in Request |-> "idle"]
    /\ call \in [Request -> Calls]
    /\ mem = [q \in Request |-> Fresh]
    /\ audit = {}
    /\ contexts = SeedContexts
    /\ now = 0
    /\ window = [q \in Request |-> {}]

InFlight(q) == pc[q] \notin {"idle", "done", "failed"}

-----------------------------------------------------------------------------
(* Shapes of a handler's step. *)

Continue(q, label, locals) ==
    /\ pc' = [pc EXCEPT ![q] = label]
    /\ mem' = [mem EXCEPT ![q] = locals]
    /\ UNCHANGED <<govVars, served, tables, now>>

\* An exception nobody catches: the session is rolled back and the locals are
\* gone; that the statement was executed remains true.
Raise(q) == Continue(q, "failed", [Fresh EXCEPT !.ran = mem[q].ran])

\* The event is flushed into the session; the route commits it.
Record(q, decision, resources, locals) ==
    Continue(q, "commit",
        [locals EXCEPT !.event = [decision |-> decision, resources |-> resources]])

Reject(q, resources) == Record(q, "denied", resources, mem[q])

\* One resource after the other, in some order.
CheckNext(q, label, locals) ==
    \E r \in locals.todo :
        Continue(q, label, [locals EXCEPT !.todo = @ \ {r}, !.cur = {r}])

user(q) == call[q].user
Names(q) == IF call[q].shape = "wildcard" THEN {} ELSE mem[q].columns
Columns(names) == {ColumnOf[f] : f \in names}

\* Mutant: a status is only looked up on the resource itself.
ActiveAncestors_Own(r) == TRUE

ActiveAncestors(r) ==
    \A x \in ScopeChain(r, LiveResources(gov)) \ {r} : gov.status[x] = "active"

-----------------------------------------------------------------------------
(* Authentication and identity. *)

Start(q) ==
    /\ pc[q] = "idle"
    /\ pc' = [pc EXCEPT ![q] = "key"]
    /\ window' = [window EXCEPT ![q] = {gov}]
    /\ UNCHANGED <<govVars, call, mem, tables, now>>

authenticate_api_key_value(q) ==
    /\ pc[q] = "key"
    /\ IF user(q) \in gov.keys THEN Continue(q, "user", mem[q]) ELSE Raise(q)

load_user(q) ==
    /\ pc[q] = "user"
    /\ IF gov.status[user(q)] = "active" THEN Continue(q, "roles", mem[q]) ELSE Raise(q)

\* The join of UserRole and Role, then the dispatch of the tool.
load_roles(q) ==
    /\ pc[q] = "roles"
    /\ LET kind == call[q].kind
           m == [mem[q] EXCEPT !.roles = ActiveRoles(gov, user(q)),
                               !.columns = call[q].fields,
                               !.gate = kind \in {"preview", "describe"},
                               !.todo = call[q].declared]
       IN  CASE kind = "query"   -> Continue(q, "scope", m)
             [] kind = "list"    -> Continue(q, "list", m)
             [] kind = "decrypt" -> Continue(q, "contexts", m)
             [] OTHER            -> CheckNext(q, "load", m)

-----------------------------------------------------------------------------
(* describe_resource, and preview_resource before it calls execute_query. *)

get_resource(q) ==
    /\ pc[q] = "load"
    /\ \E r \in mem[q].cur :
        IF ~Present(gov, r) THEN Raise(q)
        ELSE Continue(q, "datasource", [mem[q] EXCEPT !.held[r] = gov.status[r]])

\* Only active fields are offered, then each must pass the field policies.
active_fields(q) ==
    /\ pc[q] = "fields"
    /\ \E r \in mem[q].cur :
        Continue(q, "columns",
            [mem[q] EXCEPT !.columns = {f \in Field : gov.status[<<r, f>>] = "active"}])

\* Mutant: describe_resource shows every active field.
readable_fields_ActiveOnly(q) ==
    /\ pc[q] = "columns"
    /\ IF call[q].kind = "describe" THEN Record(q, "allowed", mem[q].cur, mem[q])
       ELSE IF mem[q].columns = {} THEN Reject(q, mem[q].cur)
       ELSE Continue(q, "scope", [mem[q] EXCEPT !.gate = FALSE])

readable_fields(q) ==
    /\ pc[q] = "columns"
    /\ LET m == [mem[q] EXCEPT !.columns = @ \
                    first_inaccessible_field(gov.fieldPolicies, user(q), mem[q].roles,
                                             mem[q].cur, @)]
       IN  IF call[q].kind = "describe" THEN Record(q, "allowed", m.cur, m)
           ELSE IF m.columns = {} THEN Reject(q, m.cur)
           ELSE Continue(q, "scope", [m EXCEPT !.gate = FALSE])

-----------------------------------------------------------------------------
(* execute_query: the declared scope. *)

get_datasource(q) ==
    /\ pc[q] = "scope"
    /\ LET st == gov.status[call[q].ds]
           m == [mem[q] EXCEPT !.dsStatus = st, !.todo = call[q].declared]
       IN  IF ~call[q].limitOk      THEN Reject(q, call[q].declared)
           ELSE IF st = "absent"    THEN Raise(q)
           ELSE IF st # "active"    THEN Reject(q, call[q].declared)
           ELSE Continue(q, "declare", m)

\* A preview's resource is already at hand and is not read again.
get_declared_resource(q) ==
    /\ pc[q] = "declare"
    /\ \/ /\ mem[q].todo # {}
          /\ \E r \in mem[q].todo :
              IF mem[q].held[r] # "absent"
              THEN Continue(q, "declare", [mem[q] EXCEPT !.todo = @ \ {r}])
              ELSE IF Present(gov, r)
              THEN Continue(q, "declare",
                       [mem[q] EXCEPT !.todo = @ \ {r}, !.held[r] = gov.status[r]])
              ELSE Raise(q)
       \/ /\ mem[q].todo = {} /\ call[q].declared # {}
          /\ CheckNext(q, "datasource", [mem[q] EXCEPT !.todo = call[q].declared])
       \/ /\ call[q].declared = {}
          /\ Continue(q, "guard", mem[q])

(* _disabled_resource_reason and check_resource_access, for both callers. *)

DatasourceStatus(q, r) ==
    IF ~mem[q].gate /\ DatasourceOf[r] = call[q].ds
    THEN mem[q].dsStatus ELSE gov.status[DatasourceOf[r]]

check_datasource_and_row(q) ==
    /\ pc[q] = "datasource"
    /\ \E r \in mem[q].cur :
        IF DatasourceStatus(q, r) # "active" \/ mem[q].held[r] # "active"
        THEN Reject(q, call[q].declared)
        ELSE Continue(q, "ancestors", mem[q])

check_ancestors(q) ==
    /\ pc[q] = "ancestors"
    /\ \E r \in mem[q].cur :
        IF ActiveAncestors(r) THEN Continue(q, "policies", mem[q])
        ELSE Reject(q, call[q].declared)

load_policies(q) ==
    /\ pc[q] = "policies"
    /\ Continue(q, "chain", [mem[q] EXCEPT !.policies = gov.policies])

load_chain(q) ==
    /\ pc[q] = "chain"
    /\ Continue(q, "tags", [mem[q] EXCEPT !.live = LiveResources(gov)])

decide_read(q) ==
    /\ pc[q] = "tags" /\ call[q].kind \in {"query", "preview", "describe"}
    /\ \E r \in mem[q].cur :
        LET verdict == check_resource_access(mem[q].policies, user(q), mem[q].roles, r,
                                             ScopeChain(r, mem[q].live), gov.tagRows)
        IN  IF verdict = "error"           THEN Raise(q)
            ELSE IF ~Allowed(verdict)      THEN Reject(q, call[q].declared)
            ELSE IF mem[q].gate            THEN Continue(q, "fields", mem[q])
            ELSE IF mem[q].todo = {}       THEN Continue(q, "guard", mem[q])
            ELSE CheckNext(q, "datasource", mem[q])

-----------------------------------------------------------------------------
(* execute_query: the resources and columns of the SQL text. *)

guard(q) ==
    /\ pc[q] = "guard"
    /\ IF \/ call[q].shape = "forbidden"
          \/ StrictValidation /\ call[q].shape = "wildcard"
       THEN Reject(q, call[q].declared)
       ELSE Continue(q, "resolve", mem[q])

\* The SELECT filters on the committed status, then the ancestors are walked.
resolve_guard_resources(q) ==
    /\ pc[q] = "resolve"
    /\ Continue(q, "resolved",
           [mem[q] EXCEPT !.actual = {r \in call[q].touched :
                /\ DatasourceOf[r] = call[q].ds /\ Kind[r] \in Tabular
                /\ gov.status[r] = "active"}])

check_resolved_ancestors(q) ==
    /\ pc[q] = "resolved"
    /\ IF mem[q].actual = call[q].touched /\ \A r \in mem[q].actual : ActiveAncestors(r)
       THEN Continue(q, "disabledField", mem[q])
       ELSE Reject(q, call[q].declared)

\* The catalog's rows and the field policies are looked up by the name as written,
\* and only a column's own spelling finds one.
first_disabled_field(q) ==
    /\ pc[q] = "disabledField"
    /\ IF \E r \in mem[q].actual, f \in Names(q) \cap Field : gov.status[<<r, f>>] = "disabled"
       THEN Reject(q, call[q].declared)
       ELSE Continue(q, "fieldAccess", mem[q])

check_field_access(q) ==
    /\ pc[q] = "fieldAccess"
    /\ IF first_inaccessible_field(gov.fieldPolicies, user(q), mem[q].roles,
                                   mem[q].actual, Names(q)) # {}
       THEN Reject(q, call[q].declared)
       ELSE Continue(q, "projection", mem[q])

\* Masks the projections cannot carry: a column behind * or a nested select,
\* one without an output name, or two masks on one column.  Masks find their column
\* in whatever case it is written.
ProjectionRejected(q, masks) ==
    \/ masks # {} /\ call[q].shape \in {"wildcard", "nested"}
    \/ \E f \in Columns(Names(q)) :
        LET matching == {m \in masks : m.field = f}
        IN  \/ matching # {} /\ call[q].shape = "unaliased"
            \/ \E m, n \in matching : m # n

\* Mutant: the resources of the SQL text need not be declared.
projection_rejection_AnyScope(q) ==
    /\ pc[q] = "projection"
    /\ IF ProjectionRejected(q, MasksOn(gov, mem[q].actual, user(q), mem[q].roles))
       THEN Reject(q, call[q].declared)
       ELSE Continue(q, "execute", mem[q])

projection_rejection(q) ==
    /\ pc[q] = "projection"
    /\ IF \/ ProjectionRejected(q, MasksOn(gov, mem[q].actual, user(q), mem[q].roles))
          \/ ~(mem[q].actual \subseteq call[q].declared)
       THEN Reject(q, call[q].declared)
       ELSE Continue(q, "execute", mem[q])

\* A connector failure is audited unless it is a configuration error, which is
\* raised before anything is sent.
connector_execute_query(q) ==
    /\ pc[q] = "execute"
    /\ \/ Continue(q, "mask", [mem[q] EXCEPT !.ran = TRUE])
       \/ Record(q, "error", mem[q].actual, mem[q])
       \/ Raise(q)

\* Mutant: a mask is looked for under the name as written.
apply_to_result_AsWritten(q) ==
    /\ pc[q] = "mask"
    /\ LET targets == {m \in MasksOn(gov, mem[q].actual, user(q), mem[q].roles) :
                           call[q].shape = "columns" /\ m.field \in mem[q].columns}
       IN  Record(q, "allowed", mem[q].actual,
               [mem[q] EXCEPT !.plain = {c \in mem[q].actual \X Columns(mem[q].columns) :
                                            ~\E m \in targets : m.field = c[2]}])

\* apply_to_result reads the masks again; only an output that names its column is
\* a target.
apply_to_result(q) ==
    /\ pc[q] = "mask"
    /\ LET masks == MasksOn(gov, mem[q].actual, user(q), mem[q].roles)
           columns == Columns(mem[q].columns)
           targets == {m \in masks : call[q].shape = "columns" /\ m.field \in columns}
           cells == mem[q].actual \X (IF call[q].shape = "wildcard" THEN Field ELSE columns)
           m2 == [mem[q] EXCEPT
                    !.plain = {c \in cells : ~\E m \in targets : m.field = c[2]},
                    !.minted = IF \E m \in targets : m.strategy = "reversible"
                               THEN [user |-> user(q), resources |-> mem[q].actual,
                                     expires |-> now + ContextTtl]
                               ELSE NoContext]
       IN  IF \E m \in targets : m.strategy = "unsupported" THEN Raise(q)
           ELSE Record(q, "allowed", mem[q].actual, m2)

-----------------------------------------------------------------------------
(* list_resources: one SELECT, then ancestors and policies in batches. *)

list_rows(q) ==
    /\ pc[q] = "list"
    /\ Continue(q, "listAncestors",
           [mem[q] EXCEPT !.actual = {r \in Resource :
                /\ DatasourceOf[r] = call[q].ds /\ gov.status[call[q].ds] = "active"
                /\ Kind[r] \in Tabular /\ gov.status[r] = "active"}])

disabled_resource_reasons(q) ==
    /\ pc[q] = "listAncestors"
    /\ Continue(q, "policies", [mem[q] EXCEPT !.actual = {r \in @ : ActiveAncestors(r)}])

list_resources(q) ==
    /\ pc[q] = "tags" /\ call[q].kind = "list"
    /\ LET verdicts == check_resource_access_batch(mem[q].policies, user(q), mem[q].roles,
                                      mem[q].actual, mem[q].live, gov.tagRows)
       IN  Record(q, "allowed", {},
               [mem[q] EXCEPT !.actual = {r \in @ : Allowed(verdicts[r])}])

-----------------------------------------------------------------------------
(* POST /runtime/decrypt *)

\* Contexts are written once, so that a second look finds the same row; only the
\* clock can have moved.
ValidContext(q, x) ==
    /\ contexts[x] # NoContext
    /\ contexts[x].user = user(q)
    /\ contexts[x].expires > now

Wanted(q) == UNION {contexts[x].resources : x \in call[q].markers}

get_decrypt_contexts(q) ==
    /\ pc[q] = "contexts"
    /\ IF Wanted(q) # {} /\ \A x \in call[q].markers : ValidContext(q, x)
       THEN Continue(q, "resources", [mem[q] EXCEPT !.actual = Wanted(q)])
       ELSE Raise(q)

\* The resources of the contexts must still exist, whatever their status.
load_context_resources(q) ==
    /\ pc[q] = "resources"
    /\ IF \A r \in mem[q].actual : Present(gov, r)
       THEN CheckNext(q, "policies", [mem[q] EXCEPT !.todo = mem[q].actual])
       ELSE Reject(q, mem[q].actual)

decide_decrypt(q) ==
    /\ pc[q] = "tags" /\ call[q].kind = "decrypt"
    /\ \E r \in mem[q].cur :
        LET verdict == check_decrypt_access(mem[q].policies, user(q), mem[q].roles, r,
                                            ScopeChain(r, mem[q].live), gov.tagRows)
        IN  IF verdict = "error"      THEN Raise(q)
            ELSE IF ~Allowed(verdict) THEN Reject(q, {r})
            ELSE IF mem[q].todo = {}  THEN Continue(q, "open", mem[q])
            ELSE CheckNext(q, "policies", mem[q])

\* Mutant: the contexts were already validated, so they are not looked at again.
decrypt_values_Trusting(q) ==
    /\ pc[q] = "open"
    /\ Record(q, "allowed", mem[q].actual, [mem[q] EXCEPT !.ran = TRUE])

decrypt_values(q) ==
    /\ pc[q] = "open"
    /\ IF \A x \in call[q].markers : ValidContext(q, x)
       THEN Record(q, "allowed", mem[q].actual, [mem[q] EXCEPT !.ran = TRUE])
       ELSE Raise(q)

-----------------------------------------------------------------------------
(* The end of the request, and what happens around it. *)

\* Mutant: the context of a reversible result is never written.
commit_EventOnly(q) ==
    /\ pc[q] = "commit"
    /\ pc' = [pc EXCEPT ![q] = "reply"]
    /\ audit' = audit \cup {<<q, mem[q].event>>}
    /\ UNCHANGED <<govVars, served, mem, contexts, now>>

commit(q) ==
    /\ pc[q] = "commit"
    /\ pc' = [pc EXCEPT ![q] = "reply"]
    /\ audit' = audit \cup {<<q, mem[q].event>>}
    /\ contexts' = IF mem[q].minted = NoContext THEN contexts
                   ELSE [contexts EXCEPT ![q] = mem[q].minted]
    /\ UNCHANGED <<govVars, served, mem, now>>

reply(q) ==
    /\ pc[q] = "reply"
    /\ Continue(q, "done", mem[q])

\* The process stops, or the client's connection takes the request with it.
crash(q) ==
    /\ MayCrash /\ InFlight(q)
    /\ Raise(q)

Tick ==
    /\ now < MaxClock
    /\ now' = now + 1
    /\ UNCHANGED <<govVars, pc, served, mem, tables>>

Admins ==
    /\ AdminStep
    /\ window' = [q \in Request |-> IF InFlight(q) THEN window[q] \cup {gov'} ELSE window[q]]
    /\ UNCHANGED <<pc, call, mem, tables, now>>

Authenticate(q) == authenticate_api_key_value(q) \/ load_user(q) \/ load_roles(q)

CheckResource(q) ==
    \/ get_resource(q) \/ active_fields(q) \/ readable_fields(q)
    \/ get_datasource(q) \/ get_declared_resource(q)
    \/ check_datasource_and_row(q) \/ check_ancestors(q)
    \/ load_policies(q) \/ load_chain(q) \/ decide_read(q)

ExecuteQuery(q) ==
    \/ guard(q) \/ resolve_guard_resources(q) \/ check_resolved_ancestors(q)
    \/ first_disabled_field(q) \/ check_field_access(q) \/ projection_rejection(q)
    \/ connector_execute_query(q) \/ apply_to_result(q)

ListResources(q) == list_rows(q) \/ disabled_resource_reasons(q) \/ list_resources(q)

Decrypt(q) ==
    \/ get_decrypt_contexts(q) \/ load_context_resources(q)
    \/ decide_decrypt(q) \/ decrypt_values(q)

Handle(q) ==
    \/ Start(q) \/ Authenticate(q) \/ CheckResource(q) \/ ExecuteQuery(q)
    \/ ListResources(q) \/ Decrypt(q) \/ commit(q) \/ reply(q) \/ crash(q)

Next == (\E q \in Request : Handle(q)) \/ Admins \/ Tick

Spec == Init /\ [][Next]_vars
=============================================================================
