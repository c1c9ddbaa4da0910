------------------------------- MODULE Catalog -------------------------------
(***************************************************************************)
(* The catalog of scanned resources: POST /datasources/{id}/scan over      *)
(* MetadataScanService.replace_snapshot, the deletion of datasources and   *)
(* resources, and the annotations admins make on them.  As in Directory,   *)
(* every SELECT before the first write of a request is a step of its own,  *)
(* and the writes up to the commit are the last one.  The scanned          *)
(* databases change meanwhile.                                             *)
(***************************************************************************)
EXTENDS Maps, Naturals, Sequences, FiniteSets, Functions, SequencesExt, FiniteSetsExt

CONSTANTS
    Admin,
    Source, Doris,     \* datasources; those of the Doris connector
    Schemas,           \* what a scanned database can hold: [path -> its columns]
    Comment(_),        \* the comment on the relation at a path, or Null
    Null, Mine,        \* no description, the admin's
    Asks(_),           \* the requests the admins make
    Seeds,             \* [db, live] to start from
    MaxRequests, MaxChanges

ASSUME CatalogAssumption == Doris \subseteq Source /\ Null \notin Nat

\* A snapshot has the databases and schemas of its relations: it is nested.
Nested(paths) ==
    IsFiniteSet(paths) /\ \A p \in paths : Len(p) = 1 \/ Front(p) \in paths

ASSUME SchemaAssumption == \A schema \in Schemas : Nested(DOMAIN schema)

VARIABLES
    db,        \* the committed tables
    live,      \* [Source -> what it holds]
    sess,      \* [Admin -> its request in progress]
    requests, changes,
    past       \* history: what the properties remember

vars == <<db, live, sess, requests, changes, past>>

NoRequest == [op |-> "none", todo |-> <<>>]
Busy(a) == sess[a].op # "none"
Others(a) == {b \in Admin \ {a} : Busy(b)}

ResourcesOf(d, src) == {r \in DOMAIN d.resources : d.resources[r].source = src}

-----------------------------------------------------------------------------
(* What the tables of a running gateway are like: ids are handed out       *)
(* upwards, a field is a column of a resource of its datasource, a path is *)
(* there once, and a parent that is there is the row of the path above.    *)

IsId(d, i) == i \in Nat /\ i <= d.next

TablesTyped(d) ==
    /\ DOMAIN d = {"sources", "resources", "fields", "rules", "next"}
    /\ d.sources \subseteq Source /\ d.next \in Nat
    /\ \A r \in DOMAIN d.resources :
          /\ IsId(d, r)
          /\ DOMAIN d.resources[r] = {"source", "path", "parent", "status", "note"}
          /\ d.resources[r].parent = Null \/ IsId(d, d.resources[r].parent)
    /\ \A k \in DOMAIN d.fields : k = <<k[1], k[2], k[3]>> /\ k[2] \in ResourcesOf(d, k[1])

PathsOnce(d) ==
    \A r, t \in DOMAIN d.resources :
        d.resources[r].source = d.resources[t].source /\ d.resources[r].path = d.resources[t].path
            => r = t

Above(d, r, p) ==
    /\ p \in DOMAIN d.resources
    /\ d.resources[p].source = d.resources[r].source
    /\ d.resources[p].path = Front(d.resources[r].path)

ParentsAbove(d) ==
    \A r \in DOMAIN d.resources :
        LET row == d.resources[r]
        IN  /\ Len(row.path) = 1 => row.parent = Null
            /\ Len(row.path) # 1 /\ row.parent \in DOMAIN d.resources => Above(d, r, row.parent)

TablesOK(d) == TablesTyped(d) /\ PathsOnce(d) /\ ParentsAbove(d)

\* The tables to start from are such, and nothing in them has been deleted yet.
ASSUME SeedsAssumption ==
    \A seed \in Seeds :
        LET d == seed.db IN
        /\ TablesOK(d) /\ seed.live \in [Source -> Schemas]
        /\ d.rules \subseteq DOMAIN d.resources
        /\ \A r \in DOMAIN d.resources :
              d.resources[r].source \in d.sources /\ d.resources[r].parent \in DOMAIN d.resources \cup {Null}

-----------------------------------------------------------------------------

Steps(op) ==
    CASE op = "scan"              -> <<"list_relations", "list_columns", "select_resources", "write">>
      [] op = "delete_datasource" -> <<"select_resources", "write">>
      [] OTHER                    -> <<"write">>

Init ==
    /\ \E seed \in Seeds : db = seed.db /\ live = seed.live
    /\ sess = [a \in Admin |-> NoRequest]
    /\ requests = 0 /\ changes = 0
    /\ past = [scanned |-> Nothing, cut |-> {}, left |-> {}, late |-> {}]

-----------------------------------------------------------------------------
(* The scanned databases are changed by their own users. *)

alter ==
    /\ changes < MaxChanges
    /\ changes' = changes + 1
    /\ \E src \in Source, schema \in Schemas : live' = [live EXCEPT ![src] = schema]
    /\ UNCHANGED <<db, sess, requests, past>>

-----------------------------------------------------------------------------
(* Requests.  The row a request is about is read as it begins, where one   *)
(* that is not there is a 404.                                             *)

Requests ==
    LET rs == DOMAIN db.resources IN
    UNION {
        [op: {"scan", "delete_datasource"}, source: db.sources],
        [op: {"update_resource"}, resource: rs, status: {"active", "disabled"}],
        [op: {"annotate_resource"}, resource: rs],
        [op: {"delete_resource", "create_rule"}, resource: rs],
        [op: {"update_field"}, field: DOMAIN db.fields, status: {"active", "disabled"}] }

Begin(a) ==
    /\ ~Busy(a) /\ requests < MaxRequests
    /\ requests' = requests + 1
    /\ \E r \in Requests :
        /\ Asks(r)
        /\ sess' = [sess EXCEPT ![a] = [todo |-> Steps(r.op)] ++ r
                        ++ IF r.op \in {"update_resource", "annotate_resource"}
                           THEN [row |-> db.resources[r.resource]]
                           ELSE IF r.op = "update_field" THEN [row |-> db.fields[r.field]]
                           ELSE Nothing]
    /\ UNCHANGED <<db, live, changes, past>>

At(a, step) == sess[a].todo # <<>> /\ Head(sess[a].todo) = step
Is(a, op) == At(a, "write") /\ sess[a].op = op

\* Go on with what was read as new fields of the request.
Read(a, fields) ==
    /\ sess' = [sess EXCEPT ![a] = fields ++ [sess[a] EXCEPT !.todo = Tail(@)]]
    /\ UNCHANGED <<db, live, requests, changes, past>>

Fail(a) ==
    /\ sess' = [sess EXCEPT ![a] = NoRequest]
    /\ UNCHANGED <<db, live, requests, changes, past>>

Commit(a, new, remembered) ==
    /\ db' = new
    /\ past' = remembered
    /\ sess' = [sess EXCEPT ![a] = NoRequest]
    /\ UNCHANGED <<live, requests, changes>>

-----------------------------------------------------------------------------
(* The connector reads the datasource: its relations first, then their     *)
(* columns.  A relation dropped in between fails the scan, or with the     *)
(* Doris connector has no columns.                                         *)

scan_fails(a) ==
    /\ At(a, "list_relations") \/ At(a, "list_columns")
    /\ Fail(a)

list_relations(a) ==
    /\ At(a, "list_relations")
    /\ Read(a, [relations |-> DOMAIN live[sess[a].source]])

list_columns(a) ==
    /\ At(a, "list_columns")
    /\ LET s == sess[a]
           holds == live[s.source]
           columns == [p \in s.relations |-> IF p \in DOMAIN holds THEN holds[p] ELSE {}]
       IN  /\ s.source \in Doris \/ s.relations \subseteq DOMAIN holds
           /\ Read(a, [snapshot |-> columns])

select_resources(a) ==
    /\ At(a, "select_resources")
    /\ LET rs == ResourcesOf(db, sess[a].source)
       IN  Read(a, [loaded |-> [r \in rs |-> db.resources[r]]])

-----------------------------------------------------------------------------
(* replace_snapshot: from the rows loaded and the snapshot to the tables.  *)

\* The loaded row of a path, the last one if there are several.
Existing(loaded, path) == {r \in DOMAIN loaded : loaded[r].path = path}

\* The id that each path of the snapshot has in the end: its loaded row's, or a new one.
SeenIds(d, loaded, snapshot) ==
    LET new == SetToSeq({p \in DOMAIN snapshot : Existing(loaded, p) = {}})
    IN  [p \in DOMAIN snapshot |->
            IF Existing(loaded, p) # {} THEN Max(Existing(loaded, p))
            ELSE d.next + CHOOSE i \in DOMAIN new : new[i] = p]

ParentOf(ids, path) == IF Len(path) = 1 THEN Null ELSE ids[Front(path)]

\* Mutant: a scan makes everything it saw active.
Upserted_Active(d, src, loaded, ids, path) ==
    [source |-> src, path |-> path, parent |-> ParentOf(ids, path), status |-> "active", note |-> Comment(path)]

\* _upsert_resource.  Of a loaded row, only what changes is written: its status and the
\* description it had stay, whatever they are by now.
Upserted(d, src, loaded, ids, path) ==
    LET id == ids[path]
        parent == ParentOf(ids, path)
        old == loaded[id]
    IN  IF id \notin DOMAIN loaded
        THEN [source |-> src, path |-> path, parent |-> parent, status |-> "active", note |-> Comment(path)]
        ELSE [d.resources[id] EXCEPT
                !.parent = IF parent = old.parent THEN @ ELSE parent,
                !.note = IF old.note = Null /\ Comment(path) # Null THEN Comment(path) ELSE @]

\* The columns seen, as the keys of their rows.
SeenFields(src, ids, snapshot) ==
    UNION {{<<src, ids[p], c>> : c \in snapshot[p]} : p \in DOMAIN snapshot}

\* Mutant: what was not seen is not removed.
Kept_All(d, src) == DOMAIN d.resources

\* _delete_stale_snapshot_rows: of this datasource, nothing stays but what was seen.
Kept(d, src) == DOMAIN d.resources \ ResourcesOf(d, src)

\* Fields are looked up in the writing transaction itself, and keep their status.
Replaced(d, src, loaded, snapshot) ==
    LET ids == SeenIds(d, loaded, snapshot)
        seen == Range(ids)
        rows == [r \in seen |-> Upserted(d, src, loaded, ids, CHOOSE p \in DOMAIN snapshot : ids[p] = r)]
        fields == SeenFields(src, ids, snapshot)
    IN  [d EXCEPT
            !.resources = rows ++ [r \in Kept(d, src) |-> d.resources[r]],
            !.fields = [k \in fields |-> IF k \in DOMAIN d.fields THEN d.fields[k] ELSE "active"]
                            ++ [k \in {x \in DOMAIN d.fields : x[1] # src} |-> d.fields[k]],
            !.next = @ + Cardinality(seen \ DOMAIN loaded)]

-----------------------------------------------------------------------------
(* The writes of each request, from the first to the commit. *)

\* A row to update that is gone fails the whole scan.
replace_snapshot(a) ==
    /\ Is(a, "scan")
    /\ LET s == sess[a]
           ids == SeenIds(db, s.loaded, s.snapshot)
           stale == ~(Range(ids) \cap DOMAIN s.loaded \subseteq DOMAIN db.resources)
           new == Replaced(db, s.source, s.loaded, s.snapshot)
       IN  \/ stale /\ Fail(a)
           \/ /\ ~stale
              /\ Commit(a, new,
                   [past EXCEPT !.scanned = [src \in {s.source} |-> s.snapshot] ++ @,
                                !.late = @ \cup {src \in {s.source} : src \notin db.sources},
                                !.left = @ \cup (DOMAIN db.resources \ DOMAIN new.resources)])

\* Rules and tags go with the resources listed before; resources and fields with the
\* datasource whose they are.
delete_datasource(a) ==
    /\ Is(a, "delete_datasource")
    /\ LET s == sess[a]
           gone == ResourcesOf(db, s.source)
           listed == DOMAIN s.loaded
       IN  Commit(a,
             [db EXCEPT !.sources = @ \ {s.source},
                        !.resources = Without(@, gone),
                        !.fields = Without(@, {k \in DOMAIN @ : k[1] = s.source}),
                        !.rules = @ \ listed],
             [past EXCEPT !.scanned = Without(@, {s.source}),
                          !.left = @ \cup IF Others(a) = {} THEN gone \ listed ELSE gone])

\* Mutant: the fields stay.
delete_resource_KeepsFields(a) ==
    /\ Is(a, "delete_resource")
    /\ LET r == sess[a].resource
       IN  Commit(a, [db EXCEPT !.resources = Without(@, {r}), !.rules = @ \ {r}],
                  [past EXCEPT !.scanned = Nothing, !.cut = @ \cup {r}, !.left = @ \cup {r}])

\* The children stay.
delete_resource(a) ==
    /\ Is(a, "delete_resource")
    /\ LET r == sess[a].resource
           overlap == \E b \in Others(a) : sess[b].op = "create_rule" /\ sess[b].resource = r
           src == {x \in Source : r \in ResourcesOf(db, x)}
       IN  Commit(a,
             [db EXCEPT !.resources = Without(@, {r}),
                        !.fields = Without(@, {k \in DOMAIN @ : k[2] = r}),
                        !.rules = @ \ {r}],
             [past EXCEPT !.scanned = Without(@, src),
                          !.cut = @ \cup {r},
                          !.left = @ \cup {x \in {r} : overlap}])

\* PATCH writes the columns it changes; one whose row is gone fails.
EditResource(a, row) ==
    LET r == sess[a].resource
    IN  \/ row # sess[a].row /\ r \notin DOMAIN db.resources /\ Fail(a)
        \/ row = sess[a].row /\ Commit(a, db, past)
        \/ row # sess[a].row /\ r \in DOMAIN db.resources
             /\ Commit(a, [db EXCEPT !.resources[r] =
                              [f \in DOMAIN row |-> IF row[f] = sess[a].row[f] THEN @[f] ELSE row[f]]], past)

update_resource(a) == Is(a, "update_resource") /\ EditResource(a, [sess[a].row EXCEPT !.status = sess[a].status])
annotate_resource(a) == Is(a, "annotate_resource") /\ EditResource(a, [sess[a].row EXCEPT !.note = Mine])

update_resource_field(a) ==
    /\ Is(a, "update_field")
    /\ LET s == sess[a]
       IN  \/ s.status = s.row /\ Commit(a, db, past)
           \/ s.status # s.row /\ s.field \in DOMAIN db.fields
                /\ Commit(a, [db EXCEPT !.fields[s.field] = s.status], past)
           \/ s.status # s.row /\ s.field \notin DOMAIN db.fields /\ Fail(a)

\* A policy, mask or tag on a resource that was there when it was looked for.
create_rule(a) ==
    /\ Is(a, "create_rule")
    /\ Commit(a, [db EXCEPT !.rules = @ \cup {sess[a].resource}], past)

-----------------------------------------------------------------------------
Scans(a) == list_relations(a) \/ list_columns(a) \/ scan_fails(a) \/ select_resources(a) \/ replace_snapshot(a)

Edits(a) ==
    \/ delete_datasource(a) \/ delete_resource(a)
    \/ update_resource(a) \/ annotate_resource(a) \/ update_resource_field(a)
    \/ create_rule(a)

Next == alter \/ \E a \in Admin : Begin(a) \/ Scans(a) \/ Edits(a)

Spec == Init /\ [][Next]_vars

-----------------------------------------------------------------------------
\* After a scan the catalog of the datasource is its snapshot (replace_snapshot, "in one
\* deterministic pass"): every path once, under the row of its parent path, with the
\* columns seen.  It holds too when another scan inserted the same paths, or removed
\* some, between the SELECT of this one and its writes.
CatalogIsSnapshot ==
    \A src \in DOMAIN past.scanned :
        LET snapshot == past.scanned[src]
            rows == ResourcesOf(db, src)
            At_(p) == {r \in rows : db.resources[r].path = p}
        IN  /\ \A p \in DOMAIN snapshot :
                  \E r \in At_(p) :
                     /\ At_(p) = {r}
                     /\ {k[3] : k \in {x \in DOMAIN db.fields : x[1] = src /\ x[2] = r}} = snapshot[p]
                     /\ IF Len(p) = 1 THEN db.resources[r].parent = Null
                        ELSE At_(Front(p)) = {db.resources[r].parent}
            /\ \A r \in rows : db.resources[r].path \in DOMAIN snapshot

\* A scan never undoes what admins did to the resources and columns it saw
\* (_upsert_resource: "preserving operator annotations"): a row it had loaded stays the
\* row of its path with the status it has by now and with its description, and so do
\* its columns; other datasources are not touched.  Only a description given between
\* the SELECT and the writes, to a row that had none, may give way to the comment.
ScansKeepAnnotations ==
    [][ \A a \in Admin :
          replace_snapshot(a) /\ db' # db =>
            LET s == sess[a]
                Seen(r) == db.resources[r].source # s.source
                             \/ (r \in DOMAIN s.loaded /\ db.resources[r].path \in DOMAIN s.snapshot)
                InTime(r) == r \in DOMAIN s.loaded => s.loaded[r].note = db.resources[r].note
            IN  /\ \A r \in DOMAIN db.resources : Seen(r) =>
                      /\ r \in DOMAIN db'.resources
                      /\ db'.resources[r].status = db.resources[r].status
                      /\ db.resources[r].note # Null /\ InTime(r) => db'.resources[r].note = db.resources[r].note
                /\ \A k \in DOMAIN db.fields :
                      (k[1] # s.source \/ (k[2] \in DOMAIN s.loaded /\ s.loaded[k[2]].path \in DOMAIN s.snapshot
                                             /\ k[3] \in s.snapshot[s.loaded[k[2]].path]))
                        => k \in DOMAIN db'.fields /\ db'.fields[k] = db.fields[k] ]_vars

\* No foreign key is enforced, and yet: a field always has its resource; a resource has
\* its datasource, unless the datasource was deleted during a scan; its parent, unless
\* that was deleted by hand; and a rule its resource, unless a scan dropped the resource
\* (which leaves the rules) or its deletion overlapped with another request.
CatalogHangsTogether ==
    /\ \A k \in DOMAIN db.fields : k[2] \in ResourcesOf(db, k[1])
    /\ \A r \in DOMAIN db.resources :
          /\ db.resources[r].source \in db.sources \cup past.late
          /\ db.resources[r].parent \in DOMAIN db.resources \cup past.cut \cup {Null}
    /\ db.rules \subseteq DOMAIN db.resources \cup past.left
=============================================================================
