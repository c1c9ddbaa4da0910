--------------------------- MODULE DirectoryTables ---------------------------
(***************************************************************************)
(* The directory tables (adg/control_plane/models/directory.py, api_key.py)*)
(* as one value db, how a session's objects are flushed to them, and the   *)
(* two passes of the Excel import (adg/control_plane/imports/pipeline.py). *)
(*                                                                         *)
(*   users: id -> [ref, node, status]    roles: id -> name                 *)
(*   nodes: id -> [name, parent, path]   keys:  id -> [user, runtime, active]*)
(*   links: pairs <<user id, role id>>   next:  the next id of any table   *)
(*                                                                         *)
(* A path is the sequence of its segments, the root's is empty: "/" joins  *)
(* them, in the console always and in an import by default.                *)
(***************************************************************************)
EXTENDS Naturals, FiniteSets, SequencesExt, Maps

CONSTANTS
    Alike(_, _)   \* LIKE takes the one name for the other: case, or a _ in the first

Null == 0

RootName == "Root"

IdsIn(db) == 1..(db.next - 1)
RoleNamed(db, name) == {r \in DOMAIN db.roles : db.roles[r] = name}
NodeAt(db, path) == {n \in DOMAIN db.nodes : db.nodes[n].path = path}
UserOf(db, ref) == {u \in DOMAIN db.users : db.users[u].ref = ref}
RolesOf(db, u) == {p[2] : p \in {x \in db.links : x[1] = u}}

-----------------------------------------------------------------------------
(* Rows in and out.  Only the columns whose value changed since the object *)
(* was loaded are written, and a row to write that is gone fails the flush.*)

Dirty(loaded, object) == {i \in DOMAIN object : object[i] # loaded[i]}

\* StaleDataError: fewer rows were updated than objects are dirty.
Stale(table, loaded, object) == ~(Dirty(loaded, object) \subseteq DOMAIN table)

\* Mutant: every column of the object is written back.
Flushed_WholeRow(table, loaded, object) ==
    [i \in DOMAIN table |-> IF i \in DOMAIN object THEN object[i] ELSE table[i]]

Flushed(table, loaded, object) ==
    [i \in DOMAIN table |->
        IF i \in Dirty(loaded, object)
        THEN [c \in DOMAIN table[i] |->
                IF object[i][c] # loaded[i][c] THEN object[i][c] ELSE table[i][c]]
        ELSE table[i]]

\* The unique constraints of the tables.
Unique(db) ==
    /\ \A u, v \in DOMAIN db.users : db.users[u].ref = db.users[v].ref => u = v
    /\ \A r, s \in DOMAIN db.roles : db.roles[r] = db.roles[s] => r = s
    /\ \A m, n \in DOMAIN db.nodes : db.nodes[m].path = db.nodes[n].path => m = n

-----------------------------------------------------------------------------
(* Writes that several operations share. *)

ReplacedLinks(db, u, roleIds) == {p \in db.links : p[1] # u} \cup ({u} \X roleIds)

RuntimeKey(u) == [user |-> u, runtime |-> TRUE, active |-> TRUE]

\* Mutant: the key is stored under the user's id.
WithUser_SameId(db, ref, node, roleIds) ==
    LET u == db.next
    IN  [db EXCEPT !.users = Single(u, [ref |-> ref, node |-> node, status |-> "active"]) ++ @,
                   !.links = ReplacedLinks(db, u, roleIds),
                   !.keys = Single(u, RuntimeKey(u)) ++ @,
                   !.next = @ + 1]

\* create_user: the row, its links, and an active runtime key.
WithUser(db, ref, node, roleIds) ==
    LET u == db.next
    IN  [db EXCEPT !.users = Single(u, [ref |-> ref, node |-> node, status |-> "active"]) ++ @,
                   !.links = ReplacedLinks(db, u, roleIds),
                   !.keys = Single(u + 1, RuntimeKey(u)) ++ @,
                   !.next = @ + 2]

WithNode(db, name, parent, path) ==
    [db EXCEPT !.nodes = Single(db.next, [name |-> name, parent |-> parent, path |-> path]) ++ @,
               !.next = @ + 1]

WithRole(db, name) == [db EXCEPT !.roles = Single(db.next, name) ++ @, !.next = @ + 1]

\* The path of a node called name under a parent whose path is path.
OrgPath(name, path) == Append(path, name)

\* The nodes whose path is LIKE path/%.  No path begins with the separator.
Below(nodes, path) ==
    {n \in DOMAIN nodes :
        /\ path # <<>>
        /\ Len(nodes[n].path) > Len(path)
        /\ \A i \in 1..Len(path) : Alike(path[i], nodes[n].path[i])}

-----------------------------------------------------------------------------
(* The import.  A row has the external_ref, the org_path, <<>> for none,   *)
(* and the role names of one user.  x.seen holds the rows the pass has     *)
(* read or made: nodes, roles and users; x.db is the database it writes.   *)

PathPrefixes(path) ==
    IF path = <<>> THEN << <<>> >> ELSE [i \in 1..Len(path) |-> SubSeq(path, 1, i)]

SeenNode(x, path) == CHOOSE n \in NodeAt(x.seen, path) : TRUE
SeenRole(x, name) == CHOOSE r \in RoleNamed(x.seen, name) : TRUE

\* One segment of _resolve_org_node, or _ensure_root_org_node.
ResolveNode(x, path) ==
    LET name == IF path = <<>> THEN RootName ELSE Last(path)
        parent == IF Len(path) < 2 THEN Null ELSE SeenNode(x, Front(path))
        db == WithNode(x.db, name, parent, path)
    IN  IF NodeAt(x.seen, path) # {} THEN x
        ELSE [x EXCEPT !.db = db,
                       !.seen.nodes = Single(x.db.next, db.nodes[x.db.next]) ++ @,
                       !.nodes = Append(@, path)]

ResolveRole(x, name) ==
    IF RoleNamed(x.seen, name) # {} THEN x
    ELSE [x EXCEPT !.db = WithRole(@, name),
                   !.seen.roles = Single(x.db.next, name) ++ @,
                   !.roles = Append(@, name)]

ImportNew(x, row, node, roleIds) ==
    LET db == WithUser(x.db, row.ref, node, roleIds)
    IN  [x EXCEPT !.db = db,
                  !.seen.users = Single(x.db.next, db.users[x.db.next]) ++ @,
                  !.actions = Append(@, "create")]

\* Mutant: a known user of the file gets a fresh key.
ImportKnown_NewKey(x, u, node, roleIds) ==
    [x EXCEPT !.db.links = ReplacedLinks(x.db, u, roleIds),
              !.db.keys = Single(x.db.next, RuntimeKey(u)) ++ @,
              !.db.next = @ + 1,
              !.actions = Append(@, "update")]

ImportKnown(x, u, node, roleIds) ==
    LET object == Single(u, [x.seen.users[u] EXCEPT !.node = node, !.status = "active"])
    IN  [x EXCEPT !.db.users = Flushed(@, x.seen.users, object),
                  !.db.links = ReplacedLinks(x.db, u, roleIds),
                  !.seen.users = object ++ @,
                  !.failed = @ \/ Stale(x.db.users, x.seen.users, object),
                  !.actions = Append(@, "update")]

\* _resolve_org_node.
ResolveNodes(x, path) ==
    LET prefixes == PathPrefixes(path)
        after[i \in 0..Len(prefixes)] == IF i = 0 THEN x ELSE ResolveNode(after[i - 1], prefixes[i])
    IN  after[Len(prefixes)]

\* _resolve_roles.
ResolveRoles(x, names) ==
    LET after[i \in 0..Len(names)] == IF i = 0 THEN x ELSE ResolveRole(after[i - 1], names[i])
    IN  after[Len(names)]

ImportRow(x, row) ==
    LET y == ResolveRoles(ResolveNodes(x, row.path), row.roles)
        node == SeenNode(y, row.path)
        roleIds == {SeenRole(y, name) : name \in Range(row.roles)}
        known == UserOf(y.seen, row.ref)
    IN  IF known = {} THEN ImportNew(y, row, node, roleIds)
        ELSE ImportKnown(y, CHOOSE u \in known : TRUE, node, roleIds)

\* execute_excel_import on what it read; it fails if a row it must update is gone
\* or one it inserts is already there.
ExecuteImport(db, seen, rows) ==
    LET start == [ db |-> db, seen |-> seen, failed |-> FALSE,
                   nodes |-> <<>>, roles |-> <<>>, actions |-> <<>> ]
        after[i \in 0..Len(rows)] == IF i = 0 THEN start ELSE ImportRow(after[i - 1], rows[i])
        x == after[Len(rows)]
    IN  [x EXCEPT !.failed = @ \/ ~Unique(x.db)]

\* Only rows with an organization path announce the roles they bring.
PreviewRoles(seen, rows) ==
    (UNION {Range(rows[i].roles) : i \in {j \in DOMAIN rows : rows[j].path # <<>>}}) \ Range(seen.roles)

\* Mutant: only the last segment of a path is announced.
PreviewNodes_LastOnly(seen, rows) ==
    {p \in {rows[i].path : i \in DOMAIN rows} : p # <<>> /\ NodeAt(seen, p) = {}}

PreviewNodes(seen, rows) ==
    {p \in UNION {Range(PathPrefixes(rows[i].path)) : i \in DOMAIN rows} : p # <<>> /\ NodeAt(seen, p) = {}}

PreviewImport(seen, rows) ==
    [ nodes |-> PreviewNodes(seen, rows),
      roles |-> PreviewRoles(seen, rows),
      root  |-> NodeAt(seen, <<>>) = {} /\ \E i \in DOMAIN rows : rows[i].path = <<>>,
      actions |-> [i \in DOMAIN rows |-> IF UserOf(seen, rows[i].ref) = {} THEN "create" ELSE "update"] ]
=============================================================================
