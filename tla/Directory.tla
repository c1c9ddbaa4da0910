------------------------------ MODULE Directory ------------------------------
(***************************************************************************)
(* The directory endpoints of the admin API (adg/admin_api/console.py over *)
(* adg/control_plane/services/directory_service.py and imports/pipeline.py)*)
(* as requests of several admins.  A request is a list of steps: each      *)
(* SELECT before its first write is a step that other requests can come    *)
(* between, and everything from the first write to the commit is the last  *)
(* step, under the write lock of SQLite.  Foreign keys are not enforced.   *)
(***************************************************************************)
EXTENDS DirectoryTables

CONSTANTS
    Admin,
    Asks(_, _),    \* the requests they make of a database
    Names, Refs,   \* names of roles and nodes, external_refs of users
    Batches,       \* the row sequences they import
    Keep,          \* a field an update leaves out
    Seeds,         \* databases to start from
    MaxRequests    \* bound on the requests made

VARIABLES
    db,        \* the committed tables
    sess,      \* [Admin -> its request in progress]
    requests,  \* how many were made
    past       \* history: what the properties remember of commits

vars == <<db, sess, requests, past>>

NoRequest == [op |-> "none", todo |-> <<>>]
Busy(a) == sess[a].op # "none"

Steps(op) ==
    CASE op = "create_user"     -> <<"require_org_node", "require_roles", "write">>
      [] op = "update_user"     -> <<"require_org_node", "require_roles", "select_user", "write">>
      [] op = "delete_user"     -> <<"select_user", "write">>
      [] op = "reset_user_key"  -> <<"select_user", "select_keys", "write">>
      [] op = "create_role"     -> <<"write">>
      [] op = "update_role"     -> <<"select_role", "write">>
      [] op = "delete_role"     -> <<"select_role", "select_links", "write">>
      [] op = "update_api_key"  -> <<"select_key", "write">>
      [] op = "revoke_api_key"  -> <<"select_key", "write">>
      [] op = "create_org_node" -> <<"require_org_node", "select_parent", "write">>
      [] op = "update_org_node" -> <<"require_org_node", "select_node", "select_parent",
                                     "walk", "select_descendants", "write">>
      [] op = "delete_org_node" -> <<"select_node", "select_children", "select_direct_users", "write">>
      [] op = "import"          -> <<"select_nodes", "select_roles", "select_users", "write">>

\* What an admin can ask for.  An id that is not there is a 404 at once.
Requests ==
    LET users == DOMAIN db.users
        nodes == DOMAIN db.nodes
        roles == DOMAIN db.roles
    IN  UNION {
        [op: {"create_user"}, ref: Refs, org: nodes \cup {Null}, roles: SUBSET roles],
        [op: {"update_user"}, user: users, org: nodes \cup {Null, Keep},
            roles: (SUBSET roles) \cup {Keep}, status: {"active", "disabled", Keep}],
        [op: {"delete_user", "reset_user_key"}, user: users],
        [op: {"create_role"}, name: Names],
        [op: {"update_role"}, role: roles, name: Names],
        [op: {"delete_role"}, role: roles],
        [op: {"update_api_key", "revoke_api_key"}, key: DOMAIN db.keys],
        [op: {"create_org_node"}, name: Names, org: nodes \cup {Null}],
        [op: {"update_org_node"}, node: nodes, name: Names \cup {Keep}, org: nodes \cup {Null, Keep}],
        [op: {"delete_org_node"}, node: nodes],
        [op: {"import"}, rows: Batches] }

RuntimeKeys(d, u) == {k \in DOMAIN d.keys : d.keys[k] = RuntimeKey(u)}
RowIds(d) == DOMAIN d.users \cup DOMAIN d.roles \cup DOMAIN d.nodes \cup DOMAIN d.keys

-----------------------------------------------------------------------------
(* The databases to start from are ones that requests leave which do not   *)
(* overlap.                                                                *)

Segment == Names \cup {RootName}

UserRow(ids) == [ref: Refs, node: ids \cup {Null}, status: {"active", "disabled"}]
NodeRow(ids) == [name: Segment, parent: ids \cup {Null}, path: Seq(Segment)]
KeyRow(ids)  == [user: ids, runtime: BOOLEAN, active: BOOLEAN]

\* Rows of their types; no id is used for two rows or handed out again.
RowsTyped(d) ==
    /\ DOMAIN d = {"users", "roles", "nodes", "links", "keys", "next"} /\ d.next \in Nat \ {0}
    /\ \A u \in DOMAIN d.users : d.users[u] \in UserRow(IdsIn(d))
    /\ \A r \in DOMAIN d.roles : d.roles[r] \in Names
    /\ \A n \in DOMAIN d.nodes : d.nodes[n] \in NodeRow(IdsIn(d))
    /\ \A k \in DOMAIN d.keys : d.keys[k] \in KeyRow(IdsIn(d))
    /\ d.links \subseteq IdsIn(d) \X IdsIn(d)
    /\ RowIds(d) \subseteq IdsIn(d)
    /\ DOMAIN d.users \cap (DOMAIN d.roles \cup DOMAIN d.nodes \cup DOMAIN d.keys) = {}
    /\ DOMAIN d.roles \cap (DOMAIN d.nodes \cup DOMAIN d.keys) = {} /\ DOMAIN d.nodes \cap DOMAIN d.keys = {}

TablesTyped(d) == RowsTyped(d) /\ Unique(d)

\* What rows refer to is in its table, or is one of the rows gone.
Refers(d, gone) ==
    /\ \A p \in d.links : p[1] \in DOMAIN d.users \cup gone /\ p[2] \in DOMAIN d.roles \cup gone
    /\ \A u \in DOMAIN d.users : d.users[u].node \in DOMAIN d.nodes \cup gone \cup {Null}
    /\ \A n \in DOMAIN d.nodes : d.nodes[n].parent \in DOMAIN d.nodes \cup gone \cup {Null}
    /\ \A k \in DOMAIN d.keys : d.keys[k].user \in DOMAIN d.users \cup gone

ParentOf(nodes, n) == {nodes[n].parent} \cap DOMAIN nodes

\* Every set of nodes has one whose parent is not in it: there is no cycle.
Forest(nodes) ==
    \A S \in (SUBSET DOMAIN nodes) \ {{}} : \E n \in S : ParentOf(nodes, n) \cap S = {}

\* A node's path is its parent's with its name added.
PathsFollow(nodes) ==
    \A n \in DOMAIN nodes :
        \A p \in ParentOf(nodes, n) : nodes[n].path = OrgPath(nodes[n].name, nodes[p].path)

\* Only the root and the nodes next to it may have no parent.
NoOrphans(nodes) == \A n \in DOMAIN nodes : Len(nodes[n].path) > 1 => ParentOf(nodes, n) # {}

ASSUME DirectoryAssumption ==
    /\ \A d \in Seeds :
        /\ TablesTyped(d) /\ Refers(d, {})
        /\ \A u \in DOMAIN d.users : Cardinality(RuntimeKeys(d, u)) <= 1
        /\ Forest(d.nodes) /\ PathsFollow(d.nodes) /\ NoOrphans(d.nodes)
    /\ Batches \subseteq Seq([ref: Refs, path: Seq(Names), roles: Seq(Names)])
    /\ \A name \in Segment : Alike(name, name)

-----------------------------------------------------------------------------
Init ==
    /\ db \in Seeds
    /\ sess = [a \in Admin |-> NoRequest]
    /\ requests = 0
    /\ past = [retired |-> {}, clashes |-> {}, raced |-> {}, upset |-> {},
                roots |-> NodeAt(db, <<>>)]

-----------------------------------------------------------------------------
(* What the properties remember. *)

Others(a) == {b \in Admin \ {a} : Busy(b)}

NodeOps == {"create_org_node", "update_org_node", "delete_org_node", "import"}

Moved(new) ==
    {n \in DOMAIN db.nodes \cap DOMAIN new.nodes : new.nodes[n].path # db.nodes[n].path}

\* retired: keys that were active when a reset of their user began that is now done;
\* clashes: users with two resets at once; raced: rows deleted by a request that
\* overlapped with another;
\* upset:   what has happened to the tree that its upkeep does not allow for;
\* roots:   every node that was the root.
Noted(a, new) ==
    LET s == sess[a] IN
    [ retired |-> past.retired \cup IF s.op = "reset_user_key" THEN s.keysBefore ELSE {},
      clashes |-> past.clashes \cup
        {u \in DOMAIN new.users : s.op = "reset_user_key" /\ s.user = u
            /\ \E b \in Others(a) : sess[b].op = "reset_user_key" /\ sess[b].user = u},
      raced   |-> past.raced \cup IF Others(a) # {} \/ s.overtaken THEN RowIds(db) \ RowIds(new) ELSE {},
      upset   |-> past.upset
        \cup {c \in {"overlap"} : new.nodes # db.nodes /\ \E b \in Others(a) : sess[b].op \in NodeOps}
        \cup {c \in {"root_edited"} : \E n \in Moved(new) : db.nodes[n].path = <<>>}
        \cup {c \in {"alike"} : s.op = "update_org_node" /\ \E n \in Moved(new) \ {s.node} :
                                  ~IsPrefix(s.row.path, db.nodes[n].path)},
      roots   |-> past.roots \cup NodeAt(new, <<>>) ]

-----------------------------------------------------------------------------
(* The steps of a request. *)

At(a, step) == sess[a].todo # <<>> /\ Head(sess[a].todo) = step

\* Which of the idle admins makes the next request does not matter.
Begin(a) ==
    /\ ~Busy(a) /\ a = CHOOSE b \in Admin : ~Busy(b)
    /\ requests < MaxRequests
    /\ requests' = requests + 1
    /\ \E r \in Requests :
        /\ Asks(db, r)
        /\ sess' = [sess EXCEPT ![a] =
                [ todo |-> Steps(r.op), overtaken |-> FALSE,
                  keysBefore |-> IF r.op = "reset_user_key" THEN RuntimeKeys(db, r.user) ELSE {} ] ++ r]
    /\ UNCHANGED <<db, past>>

\* The request is refused, or fails: the session is closed and nothing stays.
Refuse(a) ==
    /\ sess' = [sess EXCEPT ![a] = NoRequest]
    /\ UNCHANGED <<db, requests, past>>

\* Go on, with what was read as new fields of the request, or refuse.
Read(a, allowed, fields) ==
    \/ /\ allowed
       /\ sess' = [sess EXCEPT ![a] = fields ++ [sess[a] EXCEPT !.todo = Tail(@)]]
       /\ UNCHANGED <<db, requests, past>>
    \/ ~allowed /\ Refuse(a)

Commit(a, new) ==
    /\ db' = new
    /\ past' = Noted(a, new)
    /\ sess' = [b \in Admin |->
                   IF b = a THEN NoRequest
                   ELSE IF Busy(b) THEN [sess[b] EXCEPT !.overtaken = TRUE]
                   ELSE sess[b]]
    /\ UNCHANGED requests

\* The write succeeds unless a row to update is gone or a constraint fails.
Write(a, stale, new) ==
    \/ ~stale /\ Unique(new) /\ Commit(a, new)
    \/ (stale \/ ~Unique(new)) /\ Refuse(a)

Is(a, op) == At(a, "write") /\ sess[a].op = op

-----------------------------------------------------------------------------
(* Reads. *)

require_org_node(a) ==
    /\ At(a, "require_org_node")
    /\ Read(a, sess[a].org \in DOMAIN db.nodes \cup {Null, Keep}, Nothing)

require_roles(a) ==
    /\ At(a, "require_roles")
    /\ Read(a, sess[a].roles # Keep => sess[a].roles \subseteq DOMAIN db.roles, Nothing)

select_user(a) ==
    /\ At(a, "select_user")
    /\ LET u == sess[a].user IN Read(a, u \in DOMAIN db.users, [row |-> db.users[u]])

\* The active keys of the user, whatever their scopes.
select_keys(a) ==
    /\ At(a, "select_keys")
    /\ LET ks == {k \in DOMAIN db.keys : db.keys[k].user = sess[a].user /\ db.keys[k].active}
       IN  Read(a, TRUE, [keys |-> [k \in ks |-> db.keys[k]]])

select_key(a) ==
    /\ At(a, "select_key")
    /\ LET k == sess[a].key IN Read(a, k \in DOMAIN db.keys, [row |-> db.keys[k]])

select_role(a) ==
    /\ At(a, "select_role")
    /\ LET r == sess[a].role IN Read(a, r \in DOMAIN db.roles, [row |-> db.roles[r]])

\* One link refuses the request, and scalar_one_or_none raises on two.
select_links(a) ==
    /\ At(a, "select_links")
    /\ Read(a, sess[a].role \notin {p[2] : p \in db.links}, Nothing)

\* The root can be given no other name and no parent; it cannot be deleted either.
select_node(a) ==
    /\ At(a, "select_node")
    /\ LET s == sess[a]
           row == db.nodes[s.node]
           kept == s.op = "update_org_node" /\ s.name \in {row.name, Keep} /\ s.org \in {Null, Keep}
       IN  Read(a, s.node \in DOMAIN db.nodes /\ (row.path = <<>> => kept), [row |-> row])

\* Mutant: children are not looked for.
select_children_Skipped(a) == At(a, "select_children") /\ Read(a, TRUE, Nothing)

select_children(a) ==
    /\ At(a, "select_children")
    /\ Read(a, \A n \in DOMAIN db.nodes : db.nodes[n].parent # sess[a].node, Nothing)

select_direct_users(a) ==
    /\ At(a, "select_direct_users")
    /\ Read(a, \A u \in DOMAIN db.users : db.users[u].node # sess[a].node, Nothing)

\* The row of node id, as a function of one or no row.
Get(id) == [n \in {id} \cap DOMAIN db.nodes |-> db.nodes[n]]

\* The parent asked for, or the root: for a new node, and for one that has no parent
\* and is not the root itself.
ParentId(s) ==
    IF s.op = "create_org_node" \/ s.org # Keep THEN s.org ELSE s.row.parent

NeedsRoot(s) == ParentId(s) = Null /\ (s.op = "update_org_node" => s.row.path # <<>>)

\* A parent that vanished is no parent.  A missing root is inserted, and the rest of
\* the request is then one write.
select_parent(a) ==
    /\ At(a, "select_parent")
    /\ LET s == sess[a]
           root == NodeAt(db, <<>>)
           parent == IF NeedsRoot(s) THEN [n \in root |-> db.nodes[n]] ELSE Get(ParentId(s))
           fields == [parent |-> parent, at |-> DOMAIN parent]
       IN  \/ NeedsRoot(s) /\ root = {} /\ Read(a, TRUE, fields ++ [todo |-> <<"write">>])
           \/ ~(NeedsRoot(s) /\ root = {}) /\ Read(a, TRUE, fields)

\* Mutant: only the new parent itself is compared with the node.
walk_OneLevel(a) ==
    /\ At(a, "walk")
    /\ Read(a, sess[a].node \notin sess[a].at, Nothing)

\* Mutant: the walk does not stop at a node that has no parent.
walk_Onward(a) ==
    /\ At(a, "walk")
    /\ LET s == sess[a]
           up == {db.nodes[n].parent : n \in s.at \cap DOMAIN db.nodes} \ {Null}
       IN  Read(a, s.node \notin s.at, [at |-> IF up = {} THEN s.at ELSE up, todo |-> s.todo])

\* One turn of _is_descendant, which has come to the node in at, if any.  The parent
\* itself is the object already loaded.
walk(a) ==
    /\ At(a, "walk")
    /\ LET s == sess[a]
           object == [n \in s.at |-> IF n \in DOMAIN s.parent THEN s.parent[n] ELSE db.nodes[n]]
           known == {n \in s.at : n \in DOMAIN s.parent \cup DOMAIN db.nodes}
           up == {object[n].parent : n \in known} \ {Null}
       IN  \/ (up = {} \/ s.node \in s.at) /\ Read(a, s.node \notin s.at, Nothing)
           \/ up # {} /\ s.node \notin s.at /\ Read(a, TRUE, [at |-> up, todo |-> s.todo])

select_descendants(a) ==
    /\ At(a, "select_descendants")
    /\ LET s == sess[a]
       IN  Read(a, TRUE, [below |-> [n \in Below(db.nodes, s.row.path) |->
                                        IF n \in DOMAIN s.parent THEN s.parent[n] ELSE db.nodes[n]]])

\* The three SELECTs of an import, or of its preview.
select_nodes(a) == At(a, "select_nodes") /\ Read(a, TRUE, [nodes |-> db.nodes])
select_roles(a) == At(a, "select_roles") /\ Read(a, TRUE, [roles |-> db.roles])
select_users(a) == At(a, "select_users") /\ Read(a, TRUE, [users |-> db.users])

-----------------------------------------------------------------------------
(* Writes. *)

create_user(a) ==
    /\ Is(a, "create_user")
    /\ LET s == sess[a] IN Write(a, FALSE, WithUser(db, s.ref, s.org, s.roles))

Kept(new, old) == IF new = Keep THEN old ELSE new

update_user(a) ==
    /\ Is(a, "update_user")
    /\ LET s == sess[a]
           loaded == Single(s.user, s.row)
           object == Single(s.user, [s.row EXCEPT !.node = Kept(s.org, @), !.status = Kept(s.status, @)])
       IN  Write(a, Stale(db.users, loaded, object),
                 [db EXCEPT !.users = Flushed(@, loaded, object),
                            !.links = IF s.roles = Keep THEN @ ELSE ReplacedLinks(db, s.user, s.roles)])

\* Mutant: the keys of the user are left.
delete_user_KeepsKeys(a) ==
    /\ Is(a, "delete_user")
    /\ LET u == sess[a].user
       IN  Write(a, FALSE, [db EXCEPT !.users = Without(@, {u}),
                                      !.links = ReplacedLinks(db, u, {})])

delete_user(a) ==
    /\ Is(a, "delete_user")
    /\ LET u == sess[a].user
       IN  Write(a, FALSE, [db EXCEPT !.users = Without(@, {u}),
                                      !.links = ReplacedLinks(db, u, {}),
                                      !.keys = Without(@, {k \in DOMAIN @ : @[k].user = u})])

\* Mutant: the key is added and the old ones left.
reset_runtime_key_AddsOnly(a) ==
    /\ Is(a, "reset_user_key")
    /\ Write(a, FALSE, [db EXCEPT !.keys = Single(db.next, RuntimeKey(sess[a].user)) ++ @, !.next = @ + 1])

\* _revoke_active_runtime_keys and create_api_key.
reset_runtime_key(a) ==
    /\ Is(a, "reset_user_key")
    /\ LET s == sess[a]
           objects == [k \in DOMAIN s.keys |-> [s.keys[k] EXCEPT !.active = ~s.keys[k].runtime]]
       IN  Write(a, Stale(db.keys, s.keys, objects),
                 [db EXCEPT !.keys = Single(db.next, RuntimeKey(s.user)) ++ Flushed(@, s.keys, objects),
                            !.next = @ + 1])

create_role(a) == Is(a, "create_role") /\ Write(a, FALSE, WithRole(db, sess[a].name))

update_role(a) ==
    /\ Is(a, "update_role")
    /\ LET s == sess[a]
           renamed == s.name # s.row
       IN  Write(a, renamed /\ s.role \notin DOMAIN db.roles,
                 IF renamed THEN [db EXCEPT !.roles = [r \in DOMAIN @ |-> IF r = s.role THEN s.name ELSE @[r]]]
                 ELSE db)

delete_role(a) ==
    /\ Is(a, "delete_role")
    /\ Write(a, FALSE, [db EXCEPT !.roles = Without(@, {sess[a].role})])

\* update_api_key can only give the scopes of a service key, which has no runtime.
EditKey(a, object) ==
    LET loaded == Single(sess[a].key, sess[a].row)
        edited == Single(sess[a].key, object)
    IN  Write(a, Stale(db.keys, loaded, edited), [db EXCEPT !.keys = Flushed(@, loaded, edited)])

update_api_key(a) == Is(a, "update_api_key") /\ EditKey(a, [sess[a].row EXCEPT !.runtime = FALSE])
revoke_api_key(a) == Is(a, "revoke_api_key") /\ EditKey(a, [sess[a].row EXCEPT !.active = FALSE])

\* The parent of a node that a request is about to write, and the database with it.
Parent(s) == IF s.parent # Nothing THEN CHOOSE n \in DOMAIN s.parent : TRUE
             ELSE IF NeedsRoot(s) THEN db.next ELSE Null
WithParent(s) == IF s.parent = Nothing /\ NeedsRoot(s) THEN WithNode(db, RootName, Null, <<>>) ELSE db
PathUnder(s, name) == OrgPath(name, IF s.parent = Nothing THEN <<>> ELSE s.parent[Parent(s)].path)

create_org_node(a) ==
    /\ Is(a, "create_org_node")
    /\ LET s == sess[a] IN Write(a, FALSE, WithNode(WithParent(s), s.name, Parent(s), PathUnder(s, s.name)))

\* Mutant: the paths below the node stay.
Rerooted_Not(below, old, new) == below

\* _update_descendant_paths.
Rerooted(below, old, new) ==
    [n \in DOMAIN below |->
        [below[n] EXCEPT !.path = new \o SubSeq(@, Len(old) + 1, Len(@))]]

\* The root, too, is given a path made of its name.
update_org_node(a) ==
    /\ Is(a, "update_org_node")
    /\ LET s == sess[a]
           name == Kept(s.name, s.row.name)
           path == PathUnder(s, name)
           unread == "below" \notin DOMAIN s
           below == IF unread THEN [n \in Below(db.nodes, s.row.path) |-> db.nodes[n]] ELSE s.below
           loaded == Single(s.node, s.row) ++ below
           objects == Single(s.node, [name |-> name, parent |-> Kept(s.org, s.row.parent), path |-> path])
                        ++ Rerooted(below, s.row.path, path)
           under == WithParent(s)
       IN  Write(a, Stale(under.nodes, loaded, objects),
                 [under EXCEPT !.nodes = Flushed(@, loaded, objects)])

delete_org_node(a) ==
    /\ Is(a, "delete_org_node")
    /\ Write(a, FALSE, [db EXCEPT !.nodes = Without(@, {sess[a].node})])

execute_excel_import(a) ==
    /\ Is(a, "import")
    /\ LET s == sess[a]
           x == ExecuteImport(db, [nodes |-> s.nodes, roles |-> s.roles, users |-> s.users], s.rows)
       IN  Write(a, x.failed, x.db)

-----------------------------------------------------------------------------
Reads(a) ==
    \/ require_org_node(a) \/ require_roles(a)
    \/ select_user(a) \/ select_keys(a) \/ select_key(a) \/ select_role(a) \/ select_links(a)
    \/ select_node(a) \/ select_children(a) \/ select_direct_users(a)
    \/ select_parent(a) \/ walk(a) \/ select_descendants(a)
    \/ select_nodes(a) \/ select_roles(a) \/ select_users(a)

Writes(a) ==
    \/ create_user(a) \/ update_user(a) \/ delete_user(a) \/ reset_runtime_key(a)
    \/ create_role(a) \/ update_role(a) \/ delete_role(a)
    \/ update_api_key(a) \/ revoke_api_key(a)
    \/ create_org_node(a) \/ update_org_node(a) \/ delete_org_node(a)
    \/ execute_excel_import(a)

Next == \E a \in Admin : Begin(a) \/ Reads(a) \/ Writes(a)

Spec == Init /\ [][Next]_vars

\* The walk up the ancestors goes on in its own thread, whatever the others do.
FairSpec == Spec /\ \A a \in Admin : WF_vars(walk(a))
=============================================================================
