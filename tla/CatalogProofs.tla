---------------------------- MODULE CatalogProofs ----------------------------
(***************************************************************************)
(* The catalog for any number of admins, datasources, schemas and          *)
(* requests.  A scan computes on rows it loaded some commits ago: the      *)
(* heart of the proof is what may have become of those rows since          *)
(* (LoadedOK), which every commit preserves (Evolves).                     *)
(***************************************************************************)
EXTENDS Catalog, FiniteSetTheorems, TLAPS

\* What another request may do to the tables between a SELECT and the writes that use
\* it: rows come with new ids and go, and one that stays keeps its datasource, its
\* path and its parent, as long as that is there.
Evolves(d, new) ==
    /\ d.next \in Nat /\ new.next \in Nat /\ d.next <= new.next
    /\ \A r \in DOMAIN new.resources \ DOMAIN d.resources : r > d.next
    /\ \A r \in DOMAIN new.resources \cap DOMAIN d.resources :
          /\ new.resources[r].source = d.resources[r].source
          /\ new.resources[r].path = d.resources[r].path
          /\ \A p : Len(d.resources[r].path) # 1 /\ Above(new, r, p) /\ d.resources[r].parent = p
                      => new.resources[r].parent = p

\* The rows a scan has loaded, against the tables by now.
LoadedOK(d, src, loaded) ==
    /\ \A r \in DOMAIN loaded :
          /\ IsId(d, r) /\ loaded[r].source = src
          /\ loaded[r].parent = Null \/ IsId(d, loaded[r].parent)
    /\ \A r, t \in DOMAIN loaded : loaded[r].path = loaded[t].path => r = t
    /\ \A r \in DOMAIN loaded \cap DOMAIN d.resources :
          /\ d.resources[r].source = src /\ d.resources[r].path = loaded[r].path
          /\ Len(d.resources[r].path) # 1 /\ Above(d, r, loaded[r].parent)
                => d.resources[r].parent = loaded[r].parent

Ops == {"none", "scan", "delete_datasource", "update_resource", "annotate_resource",
        "delete_resource", "create_rule", "update_field"}

ScanOK(d, s) ==
    /\ "source" \in DOMAIN s /\ s.source \in Source
    /\ \/ s.todo = <<"list_relations", "list_columns", "select_resources", "write">>
       \/ /\ s.todo = <<"list_columns", "select_resources", "write">>
          /\ "relations" \in DOMAIN s /\ Nested(s.relations)
       \/ /\ s.todo = <<"select_resources", "write">>
          /\ "snapshot" \in DOMAIN s /\ Nested(DOMAIN s.snapshot)
       \/ /\ s.todo = <<"write">>
          /\ "snapshot" \in DOMAIN s /\ "loaded" \in DOMAIN s
          /\ Nested(DOMAIN s.snapshot) /\ LoadedOK(d, s.source, s.loaded)

\* A request in progress, against the tables and the resources that have left them.
SessionOK(d, left, s) ==
    /\ "op" \in DOMAIN s /\ "todo" \in DOMAIN s /\ s.op \in Ops
    /\ s.op = "none" => s.todo = <<>>
    /\ s.op = "scan" => ScanOK(d, s)
    /\ s.op = "delete_datasource" =>
          "source" \in DOMAIN s /\ (s.todo = <<"select_resources", "write">> \/ s.todo = <<"write">>)
    /\ s.op \notin {"none", "scan", "delete_datasource"} => s.todo = <<"write">>
    /\ s.op = "create_rule" => s.resource \in DOMAIN d.resources \cup left
    /\ s.op \in {"update_resource", "annotate_resource"} =>
          DOMAIN s.row = {"source", "path", "parent", "status", "note"}

CatalogInv ==
    /\ DOMAIN sess = Admin /\ live \in [Source -> Schemas]
    /\ DOMAIN past = {"scanned", "cut", "left", "late"} /\ DOMAIN past.scanned \subseteq Source
    /\ TablesOK(db)
    /\ \A a \in Admin : SessionOK(db, past.left, sess[a])
    /\ CatalogHangsTogether /\ CatalogIsSnapshot

-----------------------------------------------------------------------------
(* The ids of a snapshot. *)

\* SetToSeq lists every element of a finite set once.
LEMMA SetToSeqLists ==
    ASSUME NEW S, IsFiniteSet(S)
    PROVE  /\ Cardinality(S) \in Nat
           /\ SetToSeq(S) \in [1..Cardinality(S) -> S]
           /\ \A x \in S : \E i \in 1..Cardinality(S) : SetToSeq(S)[i] = x
           /\ \A i, j \in 1..Cardinality(S) : SetToSeq(S)[i] = SetToSeq(S)[j] => i = j
  <1> DEFINE n == Cardinality(S)
  <1>1. n \in Nat /\ ExistsBijection(1..n, S)
    BY FS_CardinalityType
  <1>2. PICK f \in [1..n -> S] : IsInjective(f)
    BY <1>1 DEF ExistsBijection, Bijection, Injection
  <1>3. SetToSeq(S) \in [1..n -> S] /\ IsInjective(SetToSeq(S))
    BY <1>2 DEF SetToSeq
  <1>4. SetToSeq(S) \in Injection(1..n, S)
    BY <1>3 DEF Injection
  <1>5. IsFiniteSet(1..n) /\ Cardinality(1..n) = n
    BY <1>1, FS_Interval
  <1>6. SetToSeq(S) \in Surjection(1..n, S)
    <2>1. \A M \in Injection(1..n, S) : Cardinality(1..n) = Cardinality(S) => M \in Surjection(1..n, S)
      BY FS_Injection
    <2> QED
      BY <2>1, <1>4, <1>5
  <1> QED
    BY <1>1, <1>3, <1>6 DEF Surjection, IsInjective

\* A path keeps the id of its loaded row, and every other path gets a new one.
IdsOf(d, loaded, snapshot, ids) ==
    /\ DOMAIN ids = DOMAIN snapshot
    /\ \A p \in DOMAIN snapshot :
          \/ ids[p] \in DOMAIN loaded /\ loaded[ids[p]].path = p
          \/ /\ Existing(loaded, p) = {} /\ ids[p] \in Nat /\ ids[p] > d.next
             /\ ids[p] <= d.next + Cardinality(Range(ids) \ DOMAIN loaded)
    /\ \A p, q \in DOMAIN snapshot : ids[p] = ids[q] => p = q
    /\ Cardinality(Range(ids) \ DOMAIN loaded) \in Nat

LEMMA SeenIdsAreIds ==
    ASSUME NEW d, NEW src, NEW loaded, NEW snapshot,
           TablesTyped(d), LoadedOK(d, src, loaded), Nested(DOMAIN snapshot)
    PROVE  IdsOf(d, loaded, snapshot, SeenIds(d, loaded, snapshot))
  <1> DEFINE ids == SeenIds(d, loaded, snapshot)
  <1>0. /\ IsFiniteSet(DOMAIN snapshot) /\ d.next \in Nat
        /\ \A r \in DOMAIN loaded : IsId(d, r)
        /\ \A r, t \in DOMAIN loaded : loaded[r].path = loaded[t].path => r = t
    BY DEF Nested, TablesTyped, LoadedOK
  <1> DEFINE P == {p \in DOMAIN snapshot : Existing(loaded, p) = {}}
             n == Cardinality(P)
             new == SetToSeq(P)
             at(p) == CHOOSE i \in DOMAIN new : new[i] = p
  <1>1. IsFiniteSet(P)
    BY <1>0, FS_Subset
  <1>2. n \in Nat /\ DOMAIN new = 1..n
    BY <1>1, SetToSeqLists
  <1>3. \A p \in P : at(p) \in 1..n /\ new[at(p)] = p
    BY <1>1, <1>2, SetToSeqLists
  <1>4. ids = [p \in DOMAIN snapshot |->
                  IF Existing(loaded, p) # {} THEN Max(Existing(loaded, p)) ELSE d.next + at(p)]
    BY DEF SeenIds
  <1>5. \A p \in DOMAIN snapshot : Existing(loaded, p) # {} =>
           ids[p] \in DOMAIN loaded /\ loaded[ids[p]].path = p
    <2> SUFFICES ASSUME NEW p \in DOMAIN snapshot, Existing(loaded, p) # {}
                 PROVE  ids[p] \in Existing(loaded, p)
      BY DEF Existing
    <2>1. PICK r \in DOMAIN loaded : Existing(loaded, p) = {r} /\ r \in Nat
      BY <1>0 DEF Existing, IsId
    <2>2. Max({r}) = r
      BY <2>1 DEF Max
    <2> QED
      BY <1>4, <2>1, <2>2
  <1>6. \A p \in P : ids[p] = d.next + at(p)
    BY <1>4
  <1> HIDE DEF at, new, n, ids
  <1>7. \A p \in P : ids[p] \in Nat /\ ids[p] > d.next /\ ids[p] <= d.next + n
    BY <1>0, <1>2, <1>3, <1>6
  <1>8. \A p, q \in P : ids[p] = ids[q] => p = q
    <2> TAKE p, q \in P
    <2> HAVE ids[p] = ids[q]
    <2>1. at(p) = at(q)
      BY <1>0, <1>2, <1>3, <1>6
    <2> QED
      BY <2>1, <1>3
  <1>9. \A p, q \in DOMAIN snapshot : ids[p] = ids[q] => p = q
    BY <1>0, <1>5, <1>7, <1>8 DEF IsId
  <1>10. IsFiniteSet(Range(ids) \ DOMAIN loaded) /\ Cardinality(Range(ids) \ DOMAIN loaded) = n
    <2> DEFINE R == Range(ids) \ DOMAIN loaded
               f == [p \in P |-> ids[p]]
    <2>1. \A p \in P : ids[p] \in R
      BY <1>0, <1>4, <1>7 DEF Range, IsId
    <2>2. \A r \in R : \E p \in P : ids[p] = r
      BY <1>4, <1>5 DEF Range
    <2>3. f \in Bijection(P, R)
      BY <2>1, <2>2, <1>8 DEF Bijection, Injection, Surjection, IsInjective
    <2>4. ExistsBijection(P, R)
      BY <2>3 DEF ExistsBijection
    <2> HIDE DEF R, f
    <2>5. IsFiniteSet(R) /\ Cardinality(R) = Cardinality(P)
      BY <1>1, <2>4, FS_Bijection
    <2> QED
      BY <2>5 DEF R, n
  <1>11. IdsOf(d, loaded, snapshot, ids)
    BY <1>2, <1>4, <1>5, <1>7, <1>9, <1>10 DEF IdsOf
  <1> QED
    BY <1>11 DEF ids

-----------------------------------------------------------------------------
(* What a scan makes of the tables. *)

\* The rows after a scan: one for each path of the snapshot, and those of the other
\* datasources.
TablesOf(d, src, loaded, snapshot, ids, new) ==
    /\ DOMAIN new = DOMAIN d /\ new.sources = d.sources /\ new.rules = d.rules
    /\ new.next = d.next + Cardinality(Range(ids) \ DOMAIN loaded)
    /\ DOMAIN new.resources = Range(ids) \cup Kept(d, src)
    /\ \A p \in DOMAIN snapshot : new.resources[ids[p]] = Upserted(d, src, loaded, ids, p)
    /\ \A r \in Kept(d, src) \ Range(ids) : new.resources[r] = d.resources[r]
    /\ DOMAIN new.fields = SeenFields(src, ids, snapshot) \cup {k \in DOMAIN d.fields : k[1] # src}
    /\ \A k \in DOMAIN new.fields \cap DOMAIN d.fields : new.fields[k] = d.fields[k]

LEMMA ReplacedTables ==
    ASSUME NEW d, NEW src, NEW loaded, NEW snapshot, NEW ids, NEW new,
           ids = SeenIds(d, loaded, snapshot), new = Replaced(d, src, loaded, snapshot),
           IdsOf(d, loaded, snapshot, ids), TablesTyped(d)
    PROVE  TablesOf(d, src, loaded, snapshot, ids, new)
  <1> DEFINE seen == Range(ids)
             pathOf(r) == CHOOSE p \in DOMAIN snapshot : ids[p] = r
             rows == [r \in seen |-> Upserted(d, src, loaded, ids, pathOf(r))]
             others == [r \in Kept(d, src) |-> d.resources[r]]
             fields == SeenFields(src, ids, snapshot)
             columns == [k \in fields |-> IF k \in DOMAIN d.fields THEN d.fields[k] ELSE "active"]
             rest == [k \in {x \in DOMAIN d.fields : x[1] # src} |-> d.fields[k]]
  <1>1. new = [d EXCEPT !.resources = rows ++ others, !.fields = columns ++ rest,
                        !.next = @ + Cardinality(seen \ DOMAIN loaded)]
    BY DEF Replaced
  <1>2. DOMAIN d = {"sources", "resources", "fields", "rules", "next"}
    BY DEF TablesTyped
  <1>3. \A p \in DOMAIN snapshot : ids[p] \in seen /\ pathOf(ids[p]) = p
    BY DEF Range, IdsOf
  <1>4. /\ DOMAIN (rows ++ others) = seen \cup Kept(d, src)
        /\ \A p \in DOMAIN snapshot : (rows ++ others)[ids[p]] = Upserted(d, src, loaded, ids, p)
        /\ \A r \in Kept(d, src) \ seen : (rows ++ others)[r] = d.resources[r]
    BY <1>3 DEF ++
  <1>5. /\ DOMAIN (columns ++ rest) = fields \cup {k \in DOMAIN d.fields : k[1] # src}
        /\ \A k \in DOMAIN (columns ++ rest) \cap DOMAIN d.fields : (columns ++ rest)[k] = d.fields[k]
    BY DEF ++
  <1> HIDE DEF rows, others, columns, rest
  <1>6. /\ DOMAIN new = DOMAIN d /\ new.sources = d.sources /\ new.rules = d.rules
        /\ new.next = d.next + Cardinality(seen \ DOMAIN loaded)
        /\ new.resources = rows ++ others
        /\ new.fields = columns ++ rest
    BY <1>1, <1>2
  <1> QED
    BY <1>4, <1>5, <1>6 DEF TablesOf

\* Each field of the row of a path.  A parent that is not written is the one it should be.
LEMMA UpsertedRow ==
    ASSUME NEW d, NEW src, NEW loaded, NEW ids, NEW paths, NEW p \in paths,
           TablesOK(d), LoadedOK(d, src, loaded), Nested(paths),
           \A q \in paths : ids[q] \in DOMAIN loaded => ids[q] \in DOMAIN d.resources /\ loaded[ids[q]].path = q,
           \A q \in paths : ids[q] \notin DOMAIN loaded => ids[q] \in Nat /\ ids[q] > d.next,
           NEW row, row = Upserted(d, src, loaded, ids, p)
    PROVE  /\ DOMAIN row = {"source", "path", "parent", "status", "note"}
           /\ row.source = src /\ row.path = p /\ row.parent = ParentOf(ids, p)
           /\ ids[p] \in DOMAIN loaded =>
                 /\ row.status = d.resources[ids[p]].status
                 /\ loaded[ids[p]].note # Null => row.note = d.resources[ids[p]].note
                 /\ d.resources[ids[p]].note = loaded[ids[p]].note /\ d.resources[ids[p]].note # Null
                       => row.note = d.resources[ids[p]].note
  <1> DEFINE id == ids[p]
             now == d.resources[id]
             old == loaded[id]
             parent == ParentOf(ids, p)
  <1>1. CASE id \notin DOMAIN loaded
    BY <1>1 DEF Upserted
  <1>2. CASE id \in DOMAIN loaded
    <2>1. /\ row = [now EXCEPT !.parent = IF parent = old.parent THEN @ ELSE parent,
                               !.note = IF old.note = Null /\ Comment(p) # Null THEN Comment(p) ELSE @]
          /\ id \in DOMAIN d.resources /\ old.path = p
      BY <1>2 DEF Upserted
    <2>2. DOMAIN now = {"source", "path", "parent", "status", "note"}
      BY <2>1 DEF TablesOK, TablesTyped
    <2>3. now.source = src /\ now.path = p
      BY <1>2, <2>1 DEF LoadedOK
    <2>4. parent = old.parent => now.parent = parent
      <3>1. CASE Len(p) = 1
        BY <2>1, <2>3, <3>1 DEF TablesOK, ParentsAbove, ParentOf
      <3>2. CASE Len(p) # 1
        <4>1. Front(p) \in paths /\ parent = ids[Front(p)]
          BY <3>2 DEF Nested, ParentOf
        <4>2. ASSUME parent = old.parent PROVE now.parent = parent
          <5>1. parent \in DOMAIN loaded
            <6>1. old.parent = Null \/ (old.parent \in Nat /\ old.parent <= d.next)
              BY <1>2 DEF LoadedOK, IsId
            <6>2. d.next \in Nat
              BY DEF TablesOK, TablesTyped
            <6>3. parent \notin DOMAIN loaded => parent \in Nat /\ parent > d.next
              BY <4>1
            <6> QED
              BY <4>2, <6>1, <6>2, <6>3, CatalogAssumption
          <5>2. /\ parent \in DOMAIN d.resources
                /\ d.resources[parent].path = Front(p) /\ d.resources[parent].source = src
            BY <4>1, <5>1 DEF LoadedOK
          <5>3. Above(d, id, parent)
            BY <5>2, <2>3 DEF Above
          <5> QED
            BY <1>2, <2>1, <2>3, <3>2, <4>2, <5>3 DEF LoadedOK
        <4> QED
          BY <4>2
      <3> QED
        BY <3>1, <3>2
    <2>5. DOMAIN row = DOMAIN now /\ row.source = now.source /\ row.path = now.path /\ row.status = now.status
      BY <2>1, <2>2
    <2>6. row.parent = parent
      <3>1. row.parent = IF parent = old.parent THEN now.parent ELSE parent
        BY <2>1, <2>2
      <3> QED
        BY <2>4, <3>1
    <2>7. row.note = IF old.note = Null /\ Comment(p) # Null THEN Comment(p) ELSE now.note
      BY <2>1, <2>2
    <2> QED
      BY <2>2, <2>3, <2>5, <2>6, <2>7
  <1> QED
    BY <1>1, <1>2

\* All of it: what a scan that is not stale leaves, in terms of the ids of its paths.
Scanned(d, src, loaded, snapshot, ids, new) ==
    /\ DOMAIN ids = DOMAIN snapshot
    /\ \A p, q \in DOMAIN snapshot : ids[p] = ids[q] => p = q
    /\ \A p \in DOMAIN snapshot :
          \/ ids[p] \in DOMAIN loaded \cap ResourcesOf(d, src) /\ loaded[ids[p]].path = p
          \/ ids[p] \in Nat /\ ids[p] > d.next /\ ids[p] <= new.next
                /\ ids[p] \notin DOMAIN loaded \cup DOMAIN d.resources
    /\ DOMAIN new = DOMAIN d /\ new.sources = d.sources /\ new.rules = d.rules
    /\ new.next \in Nat /\ new.next >= d.next
    /\ DOMAIN new.resources = Range(ids) \cup Kept(d, src)
    /\ \A r \in Kept(d, src) : r \notin Range(ids) /\ new.resources[r] = d.resources[r]
    /\ \A p \in DOMAIN snapshot :
          LET row == new.resources[ids[p]]
          IN  /\ DOMAIN row = {"source", "path", "parent", "status", "note"}
              /\ row.source = src /\ row.path = p /\ row.parent = ParentOf(ids, p)
              /\ ids[p] \in DOMAIN loaded =>
                    /\ row.status = d.resources[ids[p]].status
                    /\ loaded[ids[p]].note # Null => row.note = d.resources[ids[p]].note
                    /\ d.resources[ids[p]].note = loaded[ids[p]].note /\ d.resources[ids[p]].note # Null
                          => row.note = d.resources[ids[p]].note
    /\ DOMAIN new.fields = SeenFields(src, ids, snapshot) \cup {k \in DOMAIN d.fields : k[1] # src}
    /\ \A k \in DOMAIN new.fields \cap DOMAIN d.fields : new.fields[k] = d.fields[k]

LEMMA ReplacedIsScanned ==
    ASSUME NEW d, NEW src, NEW loaded, NEW snapshot, NEW ids, NEW new,
           ids = SeenIds(d, loaded, snapshot), new = Replaced(d, src, loaded, snapshot),
           TablesOK(d), LoadedOK(d, src, loaded), Nested(DOMAIN snapshot),
           Range(ids) \cap DOMAIN loaded \subseteq DOMAIN d.resources
    PROVE  Scanned(d, src, loaded, snapshot, ids, new)
  <1>1. TablesTyped(d)
    BY DEF TablesOK
  <1>2. d.next \in Nat /\ \A r \in DOMAIN loaded : IsId(d, r)
    BY <1>1 DEF TablesTyped, LoadedOK
  <1>3. IdsOf(d, loaded, snapshot, ids)
    BY <1>1, SeenIdsAreIds
  <1>4. /\ DOMAIN ids = DOMAIN snapshot
        /\ \A p \in DOMAIN snapshot :
              \/ ids[p] \in DOMAIN loaded /\ loaded[ids[p]].path = p
              \/ /\ Existing(loaded, p) = {} /\ ids[p] \in Nat /\ ids[p] > d.next
                 /\ ids[p] <= d.next + Cardinality(Range(ids) \ DOMAIN loaded)
        /\ \A p, q \in DOMAIN snapshot : ids[p] = ids[q] => p = q
        /\ Cardinality(Range(ids) \ DOMAIN loaded) \in Nat
    BY <1>3 DEF IdsOf
  <1>5. TablesOf(d, src, loaded, snapshot, ids, new)
    BY <1>1, <1>3, ReplacedTables
  <1>6. /\ DOMAIN new = DOMAIN d /\ new.sources = d.sources /\ new.rules = d.rules
        /\ new.next = d.next + Cardinality(Range(ids) \ DOMAIN loaded)
        /\ DOMAIN new.resources = Range(ids) \cup Kept(d, src)
        /\ \A p \in DOMAIN snapshot : new.resources[ids[p]] = Upserted(d, src, loaded, ids, p)
        /\ \A r \in Kept(d, src) \ Range(ids) : new.resources[r] = d.resources[r]
        /\ DOMAIN new.fields = SeenFields(src, ids, snapshot) \cup {k \in DOMAIN d.fields : k[1] # src}
        /\ \A k \in DOMAIN new.fields \cap DOMAIN d.fields : new.fields[k] = d.fields[k]
    BY <1>5 DEF TablesOf
  <1>7. new.next \in Nat /\ new.next >= d.next
    BY <1>2, <1>4, <1>6
  <1>8. \A p \in DOMAIN snapshot : ids[p] \in Range(ids)
    BY <1>4 DEF Range
  <1>9. ASSUME NEW p \in DOMAIN snapshot
        PROVE  \/ ids[p] \in DOMAIN loaded \cap ResourcesOf(d, src) /\ loaded[ids[p]].path = p
               \/ ids[p] \in Nat /\ ids[p] > d.next /\ ids[p] <= new.next
                     /\ ids[p] \notin DOMAIN loaded \cup DOMAIN d.resources
    <2>1. CASE ids[p] \in DOMAIN loaded /\ loaded[ids[p]].path = p
      BY <1>8, <2>1 DEF LoadedOK, ResourcesOf
    <2>2. CASE ids[p] \in Nat /\ ids[p] > d.next /\ ids[p] <= d.next + Cardinality(Range(ids) \ DOMAIN loaded)
      <3>1. \A i : IsId(d, i) => i # ids[p]
        BY <2>2, <1>2 DEF IsId
      <3> QED
        BY <2>2, <3>1, <1>2, <1>6 DEF TablesOK, TablesTyped
    <2> QED
      BY <1>4, <2>1, <2>2
  <1>10. \A r \in Kept(d, src) : r \notin Range(ids)
    BY <1>4, <1>9 DEF Kept, ResourcesOf, Range
  <1>11. ASSUME NEW p \in DOMAIN snapshot
        PROVE  LET row == new.resources[ids[p]]
               IN  /\ DOMAIN row = {"source", "path", "parent", "status", "note"}
                   /\ row.source = src /\ row.path = p /\ row.parent = ParentOf(ids, p)
                   /\ ids[p] \in DOMAIN loaded =>
                         /\ row.status = d.resources[ids[p]].status
                         /\ loaded[ids[p]].note # Null => row.note = d.resources[ids[p]].note
                         /\ d.resources[ids[p]].note = loaded[ids[p]].note /\ d.resources[ids[p]].note # Null
                               => row.note = d.resources[ids[p]].note
    <2> DEFINE paths == DOMAIN snapshot
    <2>1. /\ \A q \in paths : ids[q] \in DOMAIN loaded => ids[q] \in DOMAIN d.resources /\ loaded[ids[q]].path = q
          /\ \A q \in paths : ids[q] \notin DOMAIN loaded => ids[q] \in Nat /\ ids[q] > d.next
          /\ p \in paths /\ Nested(paths)
      BY <1>9 DEF ResourcesOf
    <2>2. new.resources[ids[p]] = Upserted(d, src, loaded, ids, p)
      BY <1>6
    <2> HIDE DEF paths
    <2> QED
      BY <2>1, <2>2, UpsertedRow
  <1> QED
    BY <1>4, <1>6, <1>7, <1>9, <1>10, <1>11 DEF Scanned

\* The row of a path after a scan is the only one of the datasource with it.
LEMMA ScannedRows ==
    ASSUME NEW d, NEW src, NEW loaded, NEW snapshot, NEW ids, NEW new,
           TablesOK(d), Scanned(d, src, loaded, snapshot, ids, new)
    PROVE  /\ \A p \in DOMAIN snapshot : ids[p] \in ResourcesOf(new, src)
           /\ \A r \in ResourcesOf(new, src) : \E p \in DOMAIN snapshot : r = ids[p]
           /\ \A r \in ResourcesOf(new, src) :
                 new.resources[r].path \in DOMAIN snapshot /\ r = ids[new.resources[r].path]
           /\ \A r \in DOMAIN new.resources :
                 new.resources[r].source # src => r \in DOMAIN d.resources /\ new.resources[r] = d.resources[r]
           /\ \A r \in DOMAIN d.resources :
                 d.resources[r].source # src => r \in DOMAIN new.resources /\ new.resources[r] = d.resources[r]
  <1>1. \A p \in DOMAIN snapshot : ids[p] \in ResourcesOf(new, src)
    BY DEF Scanned, ResourcesOf, Range
  <1>2. \A r \in DOMAIN new.resources : r \in Kept(d, src) \/ \E p \in DOMAIN snapshot : r = ids[p]
    BY DEF Scanned, Range
  <1>3. \A r \in Kept(d, src) : r \in DOMAIN d.resources /\ d.resources[r].source # src
    BY DEF Kept, ResourcesOf
  <1>4. \A r \in Kept(d, src) : r \in DOMAIN new.resources /\ new.resources[r] = d.resources[r]
    BY DEF Scanned
  <1>5. \A p \in DOMAIN snapshot : new.resources[ids[p]].source = src /\ new.resources[ids[p]].path = p
    BY DEF Scanned
  <1>6. \A r \in DOMAIN d.resources : d.resources[r].source # src => r \in Kept(d, src)
    BY DEF Kept, ResourcesOf
  <1>7. \A r \in ResourcesOf(new, src) : \E p \in DOMAIN snapshot : r = ids[p]
    BY <1>2, <1>3, <1>4 DEF ResourcesOf
  <1>8. \A r \in DOMAIN new.resources : new.resources[r].source # src => r \in Kept(d, src)
    BY <1>2, <1>5
  <1> QED
    BY <1>1, <1>3, <1>4, <1>5, <1>6, <1>7, <1>8

\* The tables a scan leaves are such as it found them.
LEMMA ScannedTablesOK ==
    ASSUME NEW d, NEW src, NEW loaded, NEW snapshot, NEW ids, NEW new,
           TablesOK(d), Nested(DOMAIN snapshot), Scanned(d, src, loaded, snapshot, ids, new)
    PROVE  TablesOK(new)
  <1>0. /\ DOMAIN ids = DOMAIN snapshot
        /\ d.next \in Nat /\ new.next \in Nat /\ d.next <= new.next
        /\ DOMAIN new.resources = Range(ids) \cup Kept(d, src)
    BY DEF Scanned, TablesOK, TablesTyped
  <1>1. /\ \A p \in DOMAIN snapshot : ids[p] \in ResourcesOf(new, src)
        /\ \A r \in ResourcesOf(new, src) : \E p \in DOMAIN snapshot : r = ids[p]
        /\ \A r \in ResourcesOf(new, src) :
              new.resources[r].path \in DOMAIN snapshot /\ r = ids[new.resources[r].path]
        /\ \A r \in DOMAIN new.resources :
              new.resources[r].source # src => r \in DOMAIN d.resources /\ new.resources[r] = d.resources[r]
        /\ \A r \in DOMAIN d.resources :
              d.resources[r].source # src => r \in DOMAIN new.resources /\ new.resources[r] = d.resources[r]
    BY ScannedRows
  <1>2. \A p \in DOMAIN snapshot :
           /\ DOMAIN new.resources[ids[p]] = {"source", "path", "parent", "status", "note"}
           /\ new.resources[ids[p]].source = src /\ new.resources[ids[p]].path = p
           /\ new.resources[ids[p]].parent = ParentOf(ids, p)
           /\ ids[p] \in DOMAIN d.resources \/ (ids[p] \in Nat /\ ids[p] > d.next /\ ids[p] <= new.next)
    BY DEF Scanned, ResourcesOf
  <1>3. \A i : IsId(d, i) => IsId(new, i)
    BY <1>0 DEF IsId
  <1>4. /\ \A r \in DOMAIN d.resources :
              /\ IsId(d, r)
              /\ DOMAIN d.resources[r] = {"source", "path", "parent", "status", "note"}
              /\ d.resources[r].parent = Null \/ IsId(d, d.resources[r].parent)
        /\ \A k \in DOMAIN d.fields : k = <<k[1], k[2], k[3]>> /\ k[2] \in ResourcesOf(d, k[1])
    BY DEF TablesOK, TablesTyped
  <1>5. \A p \in DOMAIN snapshot : IsId(new, ids[p])
    BY <1>2, <1>3, <1>4 DEF IsId
  <1>6. \A p \in DOMAIN snapshot : Len(p) # 1 => Front(p) \in DOMAIN snapshot /\ ParentOf(ids, p) = ids[Front(p)]
    BY DEF Nested, ParentOf
  <1>7. \A p \in DOMAIN snapshot : Len(p) = 1 => ParentOf(ids, p) = Null
    BY DEF ParentOf
  <1>8. ASSUME NEW r \in DOMAIN new.resources
        PROVE  /\ IsId(new, r)
               /\ DOMAIN new.resources[r] = {"source", "path", "parent", "status", "note"}
               /\ new.resources[r].parent = Null \/ IsId(new, new.resources[r].parent)
    <2>1. CASE r \in ResourcesOf(new, src)
      <3>1. PICK p \in DOMAIN snapshot : r = ids[p]
        BY <1>1, <2>1
      <3> QED
        BY <3>1, <1>2, <1>5, <1>6, <1>7
    <2>2. CASE r \notin ResourcesOf(new, src)
      BY <2>2, <1>1, <1>3, <1>4 DEF ResourcesOf
    <2> QED
      BY <2>1, <2>2
  <1>9. ASSUME NEW k \in DOMAIN new.fields
        PROVE  k = <<k[1], k[2], k[3]>> /\ k[2] \in ResourcesOf(new, k[1])
    <2>1. CASE k \in SeenFields(src, ids, snapshot)
      <3>1. PICK p \in DOMAIN snapshot : \E c \in snapshot[p] : k = <<src, ids[p], c>>
        BY <2>1, <1>0 DEF SeenFields
      <3> QED
        BY <3>1, <1>1
    <2>2. CASE k \in DOMAIN d.fields /\ k[1] # src
      BY <2>2, <1>1, <1>4 DEF ResourcesOf
    <2> QED
      BY <2>1, <2>2 DEF Scanned
  <1>10. TablesTyped(new)
    <2>1. DOMAIN new = DOMAIN d /\ new.sources = d.sources
      BY DEF Scanned
    <2> QED
      BY <2>1, <1>0, <1>8, <1>9 DEF TablesTyped, TablesOK
  <1>11. PathsOnce(new)
    <2> SUFFICES ASSUME NEW r \in DOMAIN new.resources, NEW t \in DOMAIN new.resources,
                        new.resources[r].source = new.resources[t].source,
                        new.resources[r].path = new.resources[t].path
                 PROVE  r = t
      BY DEF PathsOnce
    <2>1. CASE new.resources[r].source = src
      <3>1. r \in ResourcesOf(new, src) /\ t \in ResourcesOf(new, src)
        BY <2>1 DEF ResourcesOf
      <3>2. r = ids[new.resources[r].path] /\ t = ids[new.resources[t].path]
        BY <3>1, <1>1
      <3> QED
        BY <3>2
    <2>2. CASE new.resources[r].source # src
      <3>1. /\ r \in DOMAIN d.resources /\ new.resources[r] = d.resources[r]
            /\ t \in DOMAIN d.resources /\ new.resources[t] = d.resources[t]
        BY <2>2, <1>1
      <3> QED
        BY <3>1 DEF TablesOK, PathsOnce
    <2> QED
      BY <2>1, <2>2
  <1>12. ASSUME NEW r \in DOMAIN new.resources
         PROVE  LET row == new.resources[r]
                IN  /\ Len(row.path) = 1 => row.parent = Null
                    /\ Len(row.path) # 1 /\ row.parent \in DOMAIN new.resources => Above(new, r, row.parent)
    <2>1. CASE new.resources[r].source = src
      <3>1. PICK p \in DOMAIN snapshot : r = ids[p]
        BY <2>1, <1>1 DEF ResourcesOf
      <3>2. new.resources[r].path = p /\ new.resources[r].parent = ParentOf(ids, p)
        BY <3>1, <1>2
      <3>3. Len(p) # 1 => Above(new, r, ids[Front(p)])
        BY <2>1, <3>2, <1>1, <1>2, <1>6 DEF Above, ResourcesOf
      <3> QED
        BY <3>2, <3>3, <1>6, <1>7
    <2>2. CASE new.resources[r].source # src
      <3> DEFINE row == d.resources[r]
      <3>1. r \in DOMAIN d.resources /\ new.resources[r] = row /\ row.source # src
        BY <2>2, <1>1
      <3>2. /\ Len(row.path) = 1 => row.parent = Null
            /\ Len(row.path) # 1 /\ row.parent \in DOMAIN d.resources => Above(d, r, row.parent)
        BY <3>1 DEF TablesOK, ParentsAbove
      <3>3. row.parent \in DOMAIN new.resources => row.parent \in DOMAIN d.resources
        <4>1. ASSUME NEW p \in DOMAIN snapshot, row.parent = ids[p] PROVE row.parent \in DOMAIN d.resources
          <5>1. row.parent = Null \/ (row.parent \in Nat /\ row.parent <= d.next)
            BY <3>1, <1>4 DEF IsId
          <5> QED
            BY <4>1, <5>1, <1>0, <1>2, CatalogAssumption
        <4> QED
          BY <4>1, <1>0 DEF Kept, Range
      <3>4. Above(d, r, row.parent) => Above(new, r, row.parent)
        BY <3>1, <1>1 DEF Above
      <3> QED
        BY <3>1, <3>2, <3>3, <3>4
    <2> QED
      BY <2>1, <2>2
  <1>13. ParentsAbove(new)
    BY <1>12 DEF ParentsAbove
  <1> QED
    BY <1>10, <1>11, <1>13 DEF TablesOK

\* To the rows another scan has loaded, a scan does nothing but what Evolves allows.
LEMMA ScannedEvolves ==
    ASSUME NEW d, NEW src, NEW loaded, NEW snapshot, NEW ids, NEW new,
           TablesOK(d), LoadedOK(d, src, loaded), Nested(DOMAIN snapshot),
           Scanned(d, src, loaded, snapshot, ids, new)
    PROVE  Evolves(d, new)
  <1>1. /\ \A r \in ResourcesOf(new, src) : \E p \in DOMAIN snapshot : r = ids[p]
        /\ \A r \in ResourcesOf(new, src) :
              new.resources[r].path \in DOMAIN snapshot /\ r = ids[new.resources[r].path]
        /\ \A r \in DOMAIN new.resources :
              new.resources[r].source # src => r \in DOMAIN d.resources /\ new.resources[r] = d.resources[r]
    BY ScannedRows
  <1>2. \A p \in DOMAIN snapshot :
           /\ new.resources[ids[p]].source = src /\ new.resources[ids[p]].path = p
           /\ new.resources[ids[p]].parent = ParentOf(ids, p)
           /\ ids[p] > d.next
                 \/ /\ ids[p] \in DOMAIN d.resources
                    /\ d.resources[ids[p]].source = src /\ d.resources[ids[p]].path = p
    BY DEF Scanned, ResourcesOf, LoadedOK
  <1>3. d.next \in Nat /\ new.next \in Nat /\ d.next <= new.next
    BY DEF Scanned, TablesOK, TablesTyped
  <1>4. ASSUME NEW r \in DOMAIN new.resources \ DOMAIN d.resources PROVE r > d.next
    BY <1>1, <1>2 DEF ResourcesOf
  <1>5. ASSUME NEW r \in DOMAIN new.resources \cap DOMAIN d.resources
        PROVE  /\ new.resources[r].source = d.resources[r].source
               /\ new.resources[r].path = d.resources[r].path
               /\ \A q : Len(d.resources[r].path) # 1 /\ Above(new, r, q) /\ d.resources[r].parent = q
                           => new.resources[r].parent = q
    <2>1. CASE new.resources[r].source # src
      BY <2>1, <1>1
    <2>2. CASE new.resources[r].source = src
      <3>1. PICK p \in DOMAIN snapshot : r = ids[p]
        BY <2>2, <1>1 DEF ResourcesOf
      <3>2. ~(ids[p] > d.next)
        BY <3>1, <1>3 DEF TablesOK, TablesTyped, IsId
      <3>3. /\ new.resources[r].path = p /\ d.resources[r].source = src /\ d.resources[r].path = p
        BY <3>1, <3>2, <1>2
      <3>4. \A q : Len(p) # 1 /\ Above(new, r, q) => q = ids[Front(p)]
        BY <2>2, <3>3, <1>1 DEF Above, ResourcesOf
      <3>5. Len(p) # 1 => new.resources[r].parent = ids[Front(p)]
        BY <3>1, <1>2 DEF ParentOf
      <3> QED
        BY <2>2, <3>3, <3>4, <3>5
    <2> QED
      BY <2>1, <2>2
  <1> QED
    BY <1>3, <1>4, <1>5 DEF Evolves

-----------------------------------------------------------------------------
(* The catalog of one datasource and its last snapshot. *)

RowsAt(d, src, p) == {r \in ResourcesOf(d, src) : d.resources[r].path = p}
ColumnsOf(d, src, r) == {k[3] : k \in {x \in DOMAIN d.fields : x[1] = src /\ x[2] = r}}

\* What CatalogIsSnapshot says of one datasource.
SnapshotOf(d, src, snapshot) ==
    /\ \A p \in DOMAIN snapshot :
          \E r \in RowsAt(d, src, p) :
             /\ RowsAt(d, src, p) = {r}
             /\ ColumnsOf(d, src, r) = snapshot[p]
             /\ IF Len(p) = 1 THEN d.resources[r].parent = Null
                ELSE RowsAt(d, src, Front(p)) = {d.resources[r].parent}
    /\ \A r \in ResourcesOf(d, src) : d.resources[r].path \in DOMAIN snapshot

LEMMA SnapshotsByDatasource ==
    CatalogIsSnapshot <=> \A src \in DOMAIN past.scanned : SnapshotOf(db, src, past.scanned[src])
  BY DEF CatalogIsSnapshot, SnapshotOf, RowsAt, ColumnsOf

LEMMA ScannedIsSnapshot ==
    ASSUME NEW d, NEW src, NEW loaded, NEW snapshot, NEW ids, NEW new,
           TablesOK(d), Nested(DOMAIN snapshot), Scanned(d, src, loaded, snapshot, ids, new)
    PROVE  SnapshotOf(new, src, snapshot)
  <1>1. /\ \A p \in DOMAIN snapshot : ids[p] \in ResourcesOf(new, src)
        /\ \A r \in ResourcesOf(new, src) :
              new.resources[r].path \in DOMAIN snapshot /\ r = ids[new.resources[r].path]
    BY ScannedRows
  <1>2. \A p \in DOMAIN snapshot : new.resources[ids[p]].path = p /\ new.resources[ids[p]].parent = ParentOf(ids, p)
    BY DEF Scanned
  <1>3. \A p \in DOMAIN snapshot : RowsAt(new, src, p) = {ids[p]}
    BY <1>1, <1>2 DEF RowsAt
  <1>4. ASSUME NEW p \in DOMAIN snapshot PROVE ColumnsOf(new, src, ids[p]) = snapshot[p]
    <2>1. DOMAIN ids = DOMAIN snapshot /\ \A q \in DOMAIN snapshot : ids[q] = ids[p] => q = p
      BY DEF Scanned
    <2>2. DOMAIN new.fields = SeenFields(src, ids, snapshot) \cup {k \in DOMAIN d.fields : k[1] # src}
      BY DEF Scanned
    <2>3. \A c \in snapshot[p] : <<src, ids[p], c>> \in DOMAIN new.fields
      BY <2>1, <2>2 DEF SeenFields
    <2>4. \A k \in DOMAIN new.fields : k[1] = src =>
             \E q \in DOMAIN snapshot : \E c \in snapshot[q] : k = <<src, ids[q], c>>
      BY <2>1, <2>2 DEF SeenFields
    <2>5. \A k \in DOMAIN new.fields : k[1] = src /\ k[2] = ids[p] => k[3] \in snapshot[p]
      <3> SUFFICES ASSUME NEW k \in DOMAIN new.fields, k[1] = src, k[2] = ids[p] PROVE k[3] \in snapshot[p]
        OBVIOUS
      <3>1. PICK q \in DOMAIN snapshot : \E c \in snapshot[q] : k = <<src, ids[q], c>>
        BY <2>4
      <3>2. PICK c \in snapshot[q] : k = <<src, ids[q], c>>
        BY <3>1
      <3>3. k[2] = ids[q] /\ k[3] = c
        BY <3>2
      <3> QED
        BY <2>1, <3>3
    <2>6. \A c \in snapshot[p] : c \in ColumnsOf(new, src, ids[p])
      <3> SUFFICES ASSUME NEW c \in snapshot[p] PROVE c \in ColumnsOf(new, src, ids[p])
        OBVIOUS
      <3> DEFINE k == <<src, ids[p], c>>
      <3>1. k \in DOMAIN new.fields /\ k[1] = src /\ k[2] = ids[p] /\ k[3] = c
        BY <2>3
      <3> HIDE DEF k
      <3> QED
        BY <3>1 DEF ColumnsOf
    <2>7. \A c \in ColumnsOf(new, src, ids[p]) : c \in snapshot[p]
      BY <2>5 DEF ColumnsOf
    <2> QED
      BY <2>6, <2>7
  <1>5. ASSUME NEW p \in DOMAIN snapshot
        PROVE  IF Len(p) = 1 THEN new.resources[ids[p]].parent = Null
               ELSE RowsAt(new, src, Front(p)) = {new.resources[ids[p]].parent}
    BY <1>2, <1>3 DEF ParentOf, Nested
  <1>6. \A p \in DOMAIN snapshot : ids[p] \in RowsAt(new, src, p)
    BY <1>3
  <1> QED
    BY <1>1, <1>3, <1>4, <1>5, <1>6 DEF SnapshotOf

\* It stays true as long as nobody touches the rows' places or the columns.
LEMMA SnapshotStays ==
    ASSUME NEW d, NEW new, NEW src, NEW snapshot, SnapshotOf(d, src, snapshot),
           ResourcesOf(new, src) = ResourcesOf(d, src),
           \A r \in ResourcesOf(d, src) :
               new.resources[r].path = d.resources[r].path /\ new.resources[r].parent = d.resources[r].parent,
           \A k : k[1] = src => (k \in DOMAIN new.fields <=> k \in DOMAIN d.fields)
    PROVE  SnapshotOf(new, src, snapshot)
  <1>1. \A p : RowsAt(new, src, p) = RowsAt(d, src, p)
    BY DEF RowsAt
  <1>2. \A r : ColumnsOf(new, src, r) = ColumnsOf(d, src, r)
    <2> TAKE r
    <2>1. {x \in DOMAIN new.fields : x[1] = src /\ x[2] = r} = {x \in DOMAIN d.fields : x[1] = src /\ x[2] = r}
      OBVIOUS
    <2> QED
      BY <2>1 DEF ColumnsOf
  <1>3. \A p : \A r \in RowsAt(d, src, p) : new.resources[r].parent = d.resources[r].parent
    BY DEF RowsAt
  <1> QED
    BY <1>1, <1>2, <1>3 DEF SnapshotOf

-----------------------------------------------------------------------------
(* Requests in progress while others commit. *)

LEMMA LoadedStays ==
    ASSUME NEW d, NEW new, NEW src, NEW loaded,
           TablesOK(d), TablesTyped(new), Evolves(d, new), LoadedOK(d, src, loaded)
    PROVE  LoadedOK(new, src, loaded)
  <1>0. d.next \in Nat /\ new.next \in Nat /\ d.next <= new.next
    BY DEF Evolves
  <1>1. \A i : IsId(d, i) => IsId(new, i)
    BY <1>0 DEF IsId
  <1>2. \A i \in DOMAIN new.resources : IsId(d, i) => i \in DOMAIN d.resources
    BY <1>0 DEF Evolves, IsId
  <1>3. \A r \in DOMAIN new.resources \cap DOMAIN d.resources :
           /\ new.resources[r].source = d.resources[r].source
           /\ new.resources[r].path = d.resources[r].path
           /\ \A p : Len(d.resources[r].path) # 1 /\ Above(new, r, p) /\ d.resources[r].parent = p
                       => new.resources[r].parent = p
    BY DEF Evolves
  <1>4. Null \notin DOMAIN new.resources
    BY CatalogAssumption DEF TablesTyped, IsId
  <1>5. ASSUME NEW r \in DOMAIN loaded \cap DOMAIN new.resources
        PROVE  /\ new.resources[r].source = src /\ new.resources[r].path = loaded[r].path
               /\ Len(new.resources[r].path) # 1 /\ Above(new, r, loaded[r].parent)
                     => new.resources[r].parent = loaded[r].parent
    <2> DEFINE p == loaded[r].parent
    <2>1. IsId(d, r) /\ (p = Null \/ IsId(d, p))
      BY DEF LoadedOK
    <2>2. r \in DOMAIN d.resources
      BY <1>2, <2>1
    <2>3. /\ d.resources[r].source = src /\ d.resources[r].path = loaded[r].path
          /\ Len(d.resources[r].path) # 1 /\ Above(d, r, p) => d.resources[r].parent = p
      BY <2>2 DEF LoadedOK
    <2>4. new.resources[r].source = src /\ new.resources[r].path = d.resources[r].path
      BY <1>3, <2>2, <2>3
    <2>5. ASSUME Above(new, r, p) PROVE Above(d, r, p)
      <3>1. p \in DOMAIN new.resources /\ p \in DOMAIN d.resources
        BY <1>2, <1>4, <2>1, <2>5 DEF Above
      <3> QED
        BY <3>1, <2>2, <2>3, <2>4, <2>5, <1>3 DEF Above
    <2> QED
      BY <2>2, <2>3, <2>4, <2>5, <1>3
  <1> QED
    BY <1>1, <1>5 DEF LoadedOK

LEMMA SessionStays ==
    ASSUME NEW d, NEW new, NEW left, NEW left2, NEW s,
           TablesOK(d), TablesTyped(new), Evolves(d, new), SessionOK(d, left, s),
           s.op = "create_rule" => s.resource \in DOMAIN new.resources \cup left2
    PROVE  SessionOK(new, left2, s)
  <1>1. ScanOK(d, s) => ScanOK(new, s)
    BY LoadedStays DEF ScanOK
  <1> QED
    BY <1>1 DEF SessionOK

LEMMA NoRequestOK == \A d, left : SessionOK(d, left, NoRequest)
  BY DEF SessionOK, NoRequest, Ops

\* Tables in which every row keeps its place have evolved, whatever else was edited.
LEMMA PlacesEvolve ==
    ASSUME NEW d, NEW new, TablesOK(d), new.next = d.next,
           DOMAIN new.resources \subseteq DOMAIN d.resources,
           \A r \in DOMAIN new.resources :
               /\ new.resources[r].source = d.resources[r].source
               /\ new.resources[r].path = d.resources[r].path
               /\ new.resources[r].parent = d.resources[r].parent
    PROVE  Evolves(d, new)
  BY DEF Evolves, TablesOK, TablesTyped

\* Likewise they are such tables.
LEMMA PlacesOK ==
    ASSUME NEW d, NEW new, TablesOK(d), DOMAIN new = DOMAIN d, new.next = d.next,
           new.sources \subseteq d.sources,
           DOMAIN new.resources \subseteq DOMAIN d.resources,
           \A r \in DOMAIN new.resources :
               /\ DOMAIN new.resources[r] = DOMAIN d.resources[r]
               /\ new.resources[r].source = d.resources[r].source
               /\ new.resources[r].path = d.resources[r].path
               /\ new.resources[r].parent = d.resources[r].parent,
           \A k \in DOMAIN new.fields : k \in DOMAIN d.fields /\ k[2] \in DOMAIN new.resources
    PROVE  TablesOK(new)
  <1>1. TablesTyped(new)
    BY DEF TablesOK, TablesTyped, IsId, ResourcesOf
  <1>2. PathsOnce(new)
    BY DEF TablesOK, PathsOnce
  <1>3. \A r \in DOMAIN new.resources : \A p \in DOMAIN new.resources : Above(d, r, p) => Above(new, r, p)
    BY DEF Above
  <1>4. ParentsAbove(new)
    BY <1>3 DEF TablesOK, ParentsAbove
  <1> QED
    BY <1>1, <1>2, <1>4 DEF TablesOK

\* A commit keeps every request in progress in order, its own being over.
LEMMA CommitKeeps ==
    ASSUME CatalogInv, NEW a \in Admin, NEW new, NEW remembered, Commit(a, new, remembered),
           TablesOK(new), Evolves(db, new),
           DOMAIN remembered = DOMAIN past, DOMAIN remembered.scanned \subseteq Source,
           \A b \in Admin \ {a} :
               sess[b].op = "create_rule" => sess[b].resource \in DOMAIN new.resources \cup remembered.left,
           CatalogHangsTogether', CatalogIsSnapshot'
    PROVE  CatalogInv'
  <1>1. db' = new /\ past' = remembered /\ live' = live
    BY DEF Commit
  <1>2. DOMAIN sess = Admin /\ TablesOK(db) /\ \A b \in Admin : SessionOK(db, past.left, sess[b])
    BY DEF CatalogInv
  <1>3. DOMAIN sess' = Admin /\ sess'[a] = NoRequest /\ \A b \in Admin \ {a} : sess'[b] = sess[b]
    BY <1>2 DEF Commit
  <1>4. ASSUME NEW b \in Admin \ {a} PROVE SessionOK(new, remembered.left, sess[b])
    BY <1>2, SessionStays DEF TablesOK
  <1>5. \A b \in Admin : SessionOK(db', past'.left, sess'[b])
    BY <1>1, <1>3, <1>4, NoRequestOK
  <1> QED
    BY <1>1, <1>3, <1>5 DEF CatalogInv

\* A step that writes nothing keeps what its own request comes to.
LEMMA ReadKeeps ==
    ASSUME CatalogInv, UNCHANGED <<db, past>>, live' \in [Source -> Schemas],
           NEW a \in Admin, NEW s, sess' = [sess EXCEPT ![a] = s], SessionOK(db, past.left, s)
    PROVE  CatalogInv'
  <1>1. DOMAIN sess' = Admin /\ sess'[a] = s /\ \A b \in Admin \ {a} : sess'[b] = sess[b]
    BY DEF CatalogInv
  <1>2. \A b \in Admin : SessionOK(db, past.left, sess'[b])
    BY <1>1 DEF CatalogInv
  <1>3. CatalogHangsTogether'
    BY DEF CatalogInv, CatalogHangsTogether, ResourcesOf
  <1>4. CatalogIsSnapshot'
    BY DEF CatalogInv, CatalogIsSnapshot, ResourcesOf
  <1> QED
    BY <1>1, <1>2, <1>3, <1>4 DEF CatalogInv

LEMMA FailKeeps ==
    ASSUME CatalogInv, NEW a \in Admin, Fail(a)
    PROVE  CatalogInv'
  <1>1. live \in [Source -> Schemas]
    BY DEF CatalogInv
  <1> QED
    BY <1>1, ReadKeeps, NoRequestOK DEF Fail

-----------------------------------------------------------------------------
(* The steps that read. *)

LEMMA Joined ==
    ASSUME NEW f, NEW g
    PROVE  /\ DOMAIN (f ++ g) = DOMAIN f \cup DOMAIN g
           /\ \A k \in DOMAIN f : (f ++ g)[k] = f[k]
           /\ \A k \in DOMAIN g \ DOMAIN f : (f ++ g)[k] = g[k]
  BY DEF ++

\* Where a request is, by what it has yet to do.
LEMMA HeadsAndTails ==
    /\ Head(<<"list_relations", "list_columns", "select_resources", "write">>) = "list_relations"
    /\ Head(<<"list_columns", "select_resources", "write">>) = "list_columns"
    /\ Head(<<"select_resources", "write">>) = "select_resources"
    /\ Head(<<"write">>) = "write"
    /\ Tail(<<"list_relations", "list_columns", "select_resources", "write">>)
          = <<"list_columns", "select_resources", "write">>
    /\ Tail(<<"list_columns", "select_resources", "write">>) = <<"select_resources", "write">>
    /\ Tail(<<"select_resources", "write">>) = <<"write">>
  OBVIOUS

LEMMA BeginKeeps ==
    ASSUME CatalogInv, NEW a \in Admin, Begin(a)
    PROVE  CatalogInv'
  <1> DEFINE extra(r) == IF r.op \in {"update_resource", "annotate_resource"}
                         THEN [row |-> db.resources[r.resource]]
                         ELSE IF r.op = "update_field" THEN [row |-> db.fields[r.field]]
                         ELSE Nothing
             session(r) == [todo |-> Steps(r.op)] ++ r ++ extra(r)
  <1>1. PICK r \in Requests : sess' = [sess EXCEPT ![a] = session(r)]
    BY DEF Begin
  <1>2. TablesTyped(db) /\ live \in [Source -> Schemas] /\ UNCHANGED <<db, live, past>>
    BY DEF Begin, CatalogInv, TablesOK
  <1> DEFINE s == session(r)
  <1>3. \/ r \in [op: {"scan", "delete_datasource"}, source: db.sources]
        \/ r \in [op: {"update_resource"}, resource: DOMAIN db.resources, status: {"active", "disabled"}]
        \/ r \in [op: {"annotate_resource"}, resource: DOMAIN db.resources]
        \/ r \in [op: {"delete_resource", "create_rule"}, resource: DOMAIN db.resources]
        \/ r \in [op: {"update_field"}, field: DOMAIN db.fields, status: {"active", "disabled"}]
    BY DEF Requests
  <1>4. "op" \in DOMAIN r /\ "todo" \notin DOMAIN r /\ "row" \notin DOMAIN r
    BY <1>3
  <1>5. DOMAIN extra(r) \subseteq {"row"}
    BY DEF Nothing
  <1>6. /\ DOMAIN s = {"todo"} \cup DOMAIN r \cup DOMAIN extra(r)
        /\ s.todo = Steps(r.op)
        /\ \A k \in DOMAIN r : s[k] = r[k]
        /\ \A k \in DOMAIN extra(r) : s[k] = extra(r)[k]
    <2>1. /\ DOMAIN ([todo |-> Steps(r.op)] ++ r) = {"todo"} \cup DOMAIN r
          /\ ([todo |-> Steps(r.op)] ++ r)["todo"] = Steps(r.op)
          /\ \A k \in DOMAIN r : ([todo |-> Steps(r.op)] ++ r)[k] = r[k]
      BY <1>4 DEF ++
    <2>2. \A k \in DOMAIN extra(r) : k \notin {"todo"} \cup DOMAIN r
      BY <1>4, <1>5
    <2> HIDE DEF extra
    <2> QED
      BY <2>1, <2>2 DEF ++
  <1>7. s.op = r.op /\ "op" \in DOMAIN s /\ "todo" \in DOMAIN s
    BY <1>4, <1>6
  <1>8. SessionOK(db, past.left, s)
    <2>1. CASE r \in [op: {"scan", "delete_datasource"}, source: db.sources]
      <3>1. "source" \in DOMAIN s /\ s.source \in Source /\ s.op \in {"scan", "delete_datasource"}
        BY <2>1, <1>2, <1>6, <1>7 DEF TablesTyped
      <3>2. s.op = "scan" => s.todo = <<"list_relations", "list_columns", "select_resources", "write">>
        BY <1>6, <1>7 DEF Steps
      <3>3. s.op = "delete_datasource" => s.todo = <<"select_resources", "write">>
        BY <1>6, <1>7 DEF Steps
      <3> HIDE DEF s
      <3> QED
        BY <3>1, <3>2, <3>3, <1>7 DEF SessionOK, ScanOK, Ops
    <2>2. CASE r \in [op: {"update_resource"}, resource: DOMAIN db.resources, status: {"active", "disabled"}]
               \/ r \in [op: {"annotate_resource"}, resource: DOMAIN db.resources]
      <3>1. r.op \in {"update_resource", "annotate_resource"} /\ r.resource \in DOMAIN db.resources
        BY <2>2
      <3>2. extra(r) = [row |-> db.resources[r.resource]]
        BY <3>1
      <3>3. s.row = db.resources[r.resource]
        BY <3>2, <1>6
      <3>4. s.op = r.op /\ s.todo = <<"write">>
        BY <3>1, <1>6, <1>7 DEF Steps
      <3> HIDE DEF s
      <3> QED
        BY <3>1, <3>3, <3>4, <1>2, <1>7 DEF SessionOK, TablesTyped, Ops
    <2>3. CASE r \in [op: {"delete_resource", "create_rule"}, resource: DOMAIN db.resources]
      <3>1. r.op \in {"delete_resource", "create_rule"} /\ s.resource \in DOMAIN db.resources
        BY <2>3, <1>6
      <3>2. s.op = r.op /\ s.todo = <<"write">>
        BY <3>1, <1>6, <1>7 DEF Steps
      <3> HIDE DEF s
      <3> QED
        BY <3>1, <3>2, <1>7 DEF SessionOK, Ops
    <2>4. CASE r \in [op: {"update_field"}, field: DOMAIN db.fields, status: {"active", "disabled"}]
      <3>1. r.op = "update_field"
        BY <2>4
      <3>2. s.op = r.op /\ s.todo = <<"write">>
        BY <3>1, <1>6, <1>7 DEF Steps
      <3> HIDE DEF s
      <3> QED
        BY <3>1, <3>2, <1>7 DEF SessionOK, Ops
    <2> QED
      BY <1>3, <2>1, <2>2, <2>3, <2>4
  <1> HIDE DEF session
  <1> QED
    BY <1>1, <1>2, <1>8, ReadKeeps

\* A request goes on with what it read.
GoesOn(s, was, fields) ==
    /\ DOMAIN s = DOMAIN fields \cup DOMAIN was
    /\ s.op = was.op /\ s.source = was.source /\ s.todo = Tail(was.todo)
    /\ \A k \in DOMAIN fields : s[k] = fields[k]
    /\ \A k \in DOMAIN was \ (DOMAIN fields \cup {"todo"}) : s[k] = was[k]

LEMMA ReadGoesOn ==
    ASSUME CatalogInv, NEW a \in Admin, NEW fields, Read(a, fields),
           sess[a].op \in {"scan", "delete_datasource"},
           DOMAIN fields \cap {"op", "todo", "source"} = {}
    PROVE  \E s : sess' = [sess EXCEPT ![a] = s] /\ GoesOn(s, sess[a], fields)
  <1> DEFINE was == sess[a]
             rest == [was EXCEPT !.todo = Tail(@)]
             s == fields ++ rest
  <1>1. sess' = [sess EXCEPT ![a] = s]
    BY Zenon DEF Read
  <1>2. {"op", "todo", "source"} \subseteq DOMAIN was
    BY DEF CatalogInv, SessionOK, ScanOK
  <1>3. /\ DOMAIN rest = DOMAIN was /\ rest.todo = Tail(was.todo)
        /\ \A k \in DOMAIN was \ {"todo"} : rest[k] = was[k]
    BY <1>2
  <1> HIDE DEF rest
  <1>4. /\ DOMAIN s = DOMAIN fields \cup DOMAIN was
        /\ \A k \in DOMAIN fields : s[k] = fields[k]
        /\ \A k \in DOMAIN was \ DOMAIN fields : s[k] = rest[k]
    BY <1>3 DEF ++
  <1> HIDE DEF s
  <1>5. s.op = was.op /\ s.source = was.source /\ s.todo = Tail(was.todo)
    BY <1>2, <1>3, <1>4
  <1>6. GoesOn(s, was, fields)
    BY <1>3, <1>4, <1>5 DEF GoesOn
  <1> QED
    BY <1>1, <1>6

\* Only a scan or a deletion reads in steps.
LEMMA WhereRequestsAre ==
    ASSUME NEW d, NEW left, NEW s, SessionOK(d, left, s), s.todo # <<>>
    PROVE  /\ Head(s.todo) = "list_relations" =>
                 s.op = "scan" /\ s.todo = <<"list_relations", "list_columns", "select_resources", "write">>
           /\ Head(s.todo) = "list_columns" =>
                 /\ s.op = "scan" /\ s.todo = <<"list_columns", "select_resources", "write">>
                 /\ "relations" \in DOMAIN s /\ Nested(s.relations)
           /\ Head(s.todo) = "select_resources" =>
                 /\ s.op \in {"scan", "delete_datasource"} /\ s.todo = <<"select_resources", "write">>
                 /\ s.op = "scan" => "snapshot" \in DOMAIN s /\ Nested(DOMAIN s.snapshot)
           /\ Head(s.todo) = "write" /\ s.op = "scan" =>
                 Nested(DOMAIN s.snapshot) /\ LoadedOK(d, s.source, s.loaded)
  <1>1. CASE s.op = "scan"
    BY <1>1, HeadsAndTails DEF SessionOK, ScanOK
  <1>2. CASE s.op # "scan"
    BY <1>2, HeadsAndTails DEF SessionOK
  <1> QED
    BY <1>1, <1>2

LEMMA ListRelationsKeeps ==
    ASSUME CatalogInv, NEW a \in Admin, list_relations(a)
    PROVE  CatalogInv'
  <1> DEFINE fields == [relations |-> DOMAIN live[sess[a].source]]
  <1>1. SessionOK(db, past.left, sess[a]) /\ live \in [Source -> Schemas]
    BY DEF CatalogInv
  <1>2. sess[a].op = "scan" /\ sess[a].todo = <<"list_relations", "list_columns", "select_resources", "write">>
    BY <1>1, WhereRequestsAre DEF list_relations, At
  <1>3. Read(a, fields)
    BY DEF list_relations
  <1>4. PICK s : sess' = [sess EXCEPT ![a] = s] /\ GoesOn(s, sess[a], fields)
    BY <1>2, <1>3, ReadGoesOn
  <1>5. s.todo = <<"list_columns", "select_resources", "write">>
    BY <1>2, <1>4, HeadsAndTails DEF GoesOn
  <1>6. sess[a].source \in Source /\ {"op", "todo", "source"} \subseteq DOMAIN s
    BY <1>1, <1>2, <1>4 DEF SessionOK, ScanOK, GoesOn
  <1>7. "relations" \in DOMAIN s /\ Nested(s.relations)
    <2>1. s.relations = DOMAIN live[sess[a].source]
      BY <1>4 DEF GoesOn
    <2> QED
      BY <2>1, <1>1, <1>4, <1>6, SchemaAssumption DEF GoesOn
  <1>8. SessionOK(db, past.left, s)
    BY <1>2, <1>4, <1>5, <1>6, <1>7 DEF SessionOK, ScanOK, Ops, GoesOn
  <1> QED
    BY <1>1, <1>3, <1>4, <1>8, ReadKeeps DEF Read

LEMMA ListColumnsKeeps ==
    ASSUME CatalogInv, NEW a \in Admin, list_columns(a)
    PROVE  CatalogInv'
  <1> DEFINE holds == live[sess[a].source]
             columns == [p \in sess[a].relations |-> IF p \in DOMAIN holds THEN holds[p] ELSE {}]
             fields == [snapshot |-> columns]
  <1>1. SessionOK(db, past.left, sess[a]) /\ live \in [Source -> Schemas]
    BY DEF CatalogInv
  <1>2. /\ sess[a].op = "scan" /\ sess[a].todo = <<"list_columns", "select_resources", "write">>
        /\ Nested(sess[a].relations)
    BY <1>1, WhereRequestsAre DEF list_columns, At
  <1>3. Read(a, fields)
    BY DEF list_columns
  <1>4. PICK s : sess' = [sess EXCEPT ![a] = s] /\ GoesOn(s, sess[a], fields)
    BY <1>2, <1>3, ReadGoesOn
  <1>5. s.todo = <<"select_resources", "write">>
    BY <1>2, <1>4, HeadsAndTails DEF GoesOn
  <1>6. sess[a].source \in Source /\ {"op", "todo", "source"} \subseteq DOMAIN s
    BY <1>1, <1>2, <1>4 DEF SessionOK, ScanOK, GoesOn
  <1>7. "snapshot" \in DOMAIN s /\ Nested(DOMAIN s.snapshot)
    <2>1. s.snapshot = columns /\ DOMAIN columns = sess[a].relations
      BY <1>4 DEF GoesOn
    <2> QED
      BY <2>1, <1>2, <1>4 DEF GoesOn
  <1>8. SessionOK(db, past.left, s)
    BY <1>2, <1>4, <1>5, <1>6, <1>7 DEF SessionOK, ScanOK, Ops, GoesOn
  <1> QED
    BY <1>1, <1>3, <1>4, <1>8, ReadKeeps DEF Read

\* What has just been loaded is what is there.
LEMMA SelectResourcesKeeps ==
    ASSUME CatalogInv, NEW a \in Admin, select_resources(a)
    PROVE  CatalogInv'
  <1> DEFINE src == sess[a].source
             loaded == [r \in ResourcesOf(db, src) |-> db.resources[r]]
             fields == [loaded |-> loaded]
  <1>1. SessionOK(db, past.left, sess[a]) /\ live \in [Source -> Schemas] /\ TablesOK(db)
    BY DEF CatalogInv
  <1>2. /\ sess[a].op \in {"scan", "delete_datasource"} /\ sess[a].todo = <<"select_resources", "write">>
        /\ sess[a].op = "scan" => "snapshot" \in DOMAIN sess[a] /\ Nested(DOMAIN sess[a].snapshot)
    BY <1>1, WhereRequestsAre DEF select_resources, At
  <1>3. Read(a, fields)
    BY DEF select_resources
  <1>4. PICK s : sess' = [sess EXCEPT ![a] = s] /\ GoesOn(s, sess[a], fields)
    BY <1>2, <1>3, ReadGoesOn
  <1>5. s.todo = <<"write">>
    BY <1>2, <1>4, HeadsAndTails DEF GoesOn
  <1>6. {"op", "todo", "source"} \subseteq DOMAIN s /\ (s.op = "scan" => src \in Source)
    BY <1>1, <1>2, <1>4 DEF SessionOK, ScanOK, GoesOn
  <1>7. LoadedOK(db, src, loaded)
    BY <1>1 DEF LoadedOK, ResourcesOf, TablesOK, TablesTyped, PathsOnce
  <1>8. "loaded" \in DOMAIN s /\ s.loaded = loaded
    BY <1>4 DEF GoesOn
  <1>9. s.op = "scan" => "snapshot" \in DOMAIN s /\ s.snapshot = sess[a].snapshot
    BY <1>2, <1>4 DEF GoesOn
  <1> HIDE DEF loaded
  <1>10. s.op = "scan" => ScanOK(db, s)
    BY <1>2, <1>4, <1>5, <1>6, <1>7, <1>8, <1>9 DEF ScanOK, GoesOn
  <1>11. SessionOK(db, past.left, s)
    BY <1>2, <1>4, <1>5, <1>6, <1>10 DEF SessionOK, Ops, GoesOn
  <1> QED
    BY <1>1, <1>3, <1>4, <1>11, ReadKeeps DEF Read

-----------------------------------------------------------------------------
(* The steps that write. *)

LEMMA HeadOfWrite ==
    ASSUME CatalogInv, NEW a \in Admin, Is(a, "scan")
    PROVE  /\ sess[a].source \in Source
           /\ Nested(DOMAIN sess[a].snapshot) /\ LoadedOK(db, sess[a].source, sess[a].loaded)
  <1>1. SessionOK(db, past.left, sess[a]) /\ sess[a].todo # <<>> /\ Head(sess[a].todo) = "write"
        /\ sess[a].op = "scan"
    BY DEF CatalogInv, Is, At
  <1> QED
    BY <1>1, WhereRequestsAre DEF SessionOK, ScanOK

\* A scan that is not stale, in the terms of Scanned.
LEMMA ScanWrites ==
    ASSUME CatalogInv, NEW a \in Admin, replace_snapshot(a), ~Fail(a)
    PROVE  LET s == sess[a]
               new == Replaced(db, s.source, s.loaded, s.snapshot)
           IN  /\ Scanned(db, s.source, s.loaded, s.snapshot, SeenIds(db, s.loaded, s.snapshot), new)
               /\ Commit(a, new,
                    [past EXCEPT !.scanned = [src \in {s.source} |-> s.snapshot] ++ @,
                                 !.late = @ \cup {src \in {s.source} : src \notin db.sources},
                                 !.left = @ \cup (DOMAIN db.resources \ DOMAIN new.resources)])
  <1> DEFINE s == sess[a]
             ids == SeenIds(db, s.loaded, s.snapshot)
             new == Replaced(db, s.source, s.loaded, s.snapshot)
             remembered == [past EXCEPT !.scanned = [src \in {s.source} |-> s.snapshot] ++ @,
                                 !.late = @ \cup {src \in {s.source} : src \notin db.sources},
                                 !.left = @ \cup (DOMAIN db.resources \ DOMAIN new.resources)]
  <1>1. Is(a, "scan") /\ Range(ids) \cap DOMAIN s.loaded \subseteq DOMAIN db.resources /\ Commit(a, new, remembered)
    BY Zenon DEF replace_snapshot
  <1>2. TablesOK(db) /\ Nested(DOMAIN s.snapshot) /\ LoadedOK(db, s.source, s.loaded)
    BY <1>1, HeadOfWrite DEF CatalogInv
  <1>3. Scanned(db, s.source, s.loaded, s.snapshot, ids, new)
    BY <1>1, <1>2, ReplacedIsScanned
  <1> QED
    BY <1>1, <1>3

LEMMA ReplaceSnapshotKeeps ==
    ASSUME CatalogInv, NEW a \in Admin, replace_snapshot(a), ~Fail(a)
    PROVE  CatalogInv'
  <1> DEFINE src == sess[a].source
             loaded == sess[a].loaded
             snapshot == sess[a].snapshot
             ids == SeenIds(db, loaded, snapshot)
             new == Replaced(db, src, loaded, snapshot)
             remembered == [past EXCEPT !.scanned = [x \in {src} |-> snapshot] ++ @,
                                 !.late = @ \cup {x \in {src} : x \notin db.sources},
                                 !.left = @ \cup (DOMAIN db.resources \ DOMAIN new.resources)]
  <1>1. Scanned(db, src, loaded, snapshot, ids, new) /\ Commit(a, new, remembered)
    BY Zenon, ScanWrites
  <1>2. Is(a, "scan")
    BY DEF replace_snapshot
  <1>3. src \in Source /\ Nested(DOMAIN snapshot) /\ LoadedOK(db, src, loaded) /\ TablesOK(db)
    BY <1>2, HeadOfWrite DEF CatalogInv
  <1>4. /\ DOMAIN remembered = DOMAIN past
        /\ remembered.late = past.late \cup {x \in {src} : x \notin db.sources}
        /\ remembered.left = past.left \cup (DOMAIN db.resources \ DOMAIN new.resources)
        /\ remembered.cut = past.cut
        /\ remembered.scanned = [x \in {src} |-> snapshot] ++ past.scanned
    BY DEF CatalogInv
  <1>5. /\ DOMAIN remembered.scanned = {src} \cup DOMAIN past.scanned
        /\ remembered.scanned[src] = snapshot
        /\ \A x \in DOMAIN past.scanned \ {src} : remembered.scanned[x] = past.scanned[x]
    BY <1>4 DEF ++
  <1> HIDE DEF ids, new, remembered
  <1>6. db' = new /\ past' = remembered
    BY <1>1 DEF Commit
  <1>7. TablesOK(new) /\ Evolves(db, new) /\ SnapshotOf(new, src, snapshot)
    BY <1>1, <1>3, ScannedTablesOK, ScannedEvolves, ScannedIsSnapshot
  <1>8. /\ \A r \in ResourcesOf(new, src) : \E p \in DOMAIN snapshot : r = ids[p]
        /\ \A r \in DOMAIN new.resources :
              new.resources[r].source # src => r \in DOMAIN db.resources /\ new.resources[r] = db.resources[r]
        /\ \A r \in DOMAIN db.resources :
              db.resources[r].source # src => r \in DOMAIN new.resources /\ new.resources[r] = db.resources[r]
    BY <1>1, <1>3, ScannedRows
  <1>9. new.sources = db.sources /\ new.rules = db.rules
    BY <1>1 DEF Scanned
  <1>10. CatalogHangsTogether'
    <2>1. \A k \in DOMAIN new.fields : k[2] \in ResourcesOf(new, k[1])
      BY <1>7 DEF TablesOK, TablesTyped
    <2>2. ASSUME NEW r \in DOMAIN new.resources
          PROVE  /\ new.resources[r].source \in db.sources \cup remembered.late
                 /\ new.resources[r].parent \in DOMAIN new.resources \cup past.cut \cup {Null}
      <3>1. CASE new.resources[r].source = src
        <4>1. PICK p \in DOMAIN snapshot : r = ids[p]
          BY <3>1, <1>8 DEF ResourcesOf
        <4>2. new.resources[r].parent = IF Len(p) = 1 THEN Null ELSE ids[Front(p)]
          BY <4>1, <1>1 DEF Scanned, ParentOf
        <4>3. Len(p) # 1 => ids[Front(p)] \in DOMAIN new.resources
          BY <1>1, <1>3 DEF Scanned, Nested, Range
        <4> QED
          BY <3>1, <4>2, <4>3, <1>4
      <3>2. CASE new.resources[r].source # src
        <4>1. r \in DOMAIN db.resources /\ new.resources[r] = db.resources[r] /\ db.resources[r].source # src
          BY <3>2, <1>8
        <4>2. /\ db.resources[r].source \in db.sources \cup past.late
              /\ db.resources[r].parent \in DOMAIN db.resources \cup past.cut \cup {Null}
          BY <4>1 DEF CatalogInv, CatalogHangsTogether
        <4>3. ASSUME db.resources[r].parent \in DOMAIN db.resources, db.resources[r].parent # Null
              PROVE  db.resources[r].parent \in DOMAIN new.resources
          <5>1. Above(db, r, db.resources[r].parent)
            BY <4>1, <4>3, <1>3 DEF TablesOK, ParentsAbove
          <5> QED
            BY <5>1, <4>1, <1>8 DEF Above
        <4> QED
          BY <4>1, <4>2, <4>3, <1>4
      <3> QED
        BY <3>1, <3>2
    <2>3. new.rules \subseteq DOMAIN new.resources \cup remembered.left
      BY <1>4, <1>9 DEF CatalogInv, CatalogHangsTogether
    <2> QED
      BY <1>4, <1>6, <1>9, <2>1, <2>2, <2>3 DEF CatalogHangsTogether, ResourcesOf
  <1>11. ASSUME NEW x \in DOMAIN past.scanned \ {src}
         PROVE  SnapshotOf(new, x, past.scanned[x])
    <2>1. SnapshotOf(db, x, past.scanned[x])
      BY SnapshotsByDatasource DEF CatalogInv
    <2>2. ResourcesOf(new, x) = ResourcesOf(db, x) /\ \A r \in ResourcesOf(db, x) : new.resources[r] = db.resources[r]
      BY <1>8 DEF ResourcesOf
    <2>3. \A k : k[1] = x => (k \in DOMAIN new.fields <=> k \in DOMAIN db.fields)
      <3>1. DOMAIN new.fields = SeenFields(src, ids, snapshot) \cup {k \in DOMAIN db.fields : k[1] # src}
        BY <1>1 DEF Scanned
      <3>2. \A k \in SeenFields(src, ids, snapshot) : k[1] = src
        BY DEF SeenFields
      <3> QED
        BY <3>1, <3>2
    <2> QED
      BY <2>1, <2>2, <2>3, SnapshotStays
  <1>12. CatalogIsSnapshot'
    <2>1. \A x \in DOMAIN remembered.scanned : SnapshotOf(new, x, remembered.scanned[x])
      BY <1>5, <1>7, <1>11
    <2> QED
      BY <2>1, <1>6 DEF CatalogIsSnapshot, SnapshotOf, RowsAt, ColumnsOf, ResourcesOf
  <1>13. \A b \in Admin \ {a} :
            sess[b].op = "create_rule" => sess[b].resource \in DOMAIN new.resources \cup remembered.left
    BY <1>4 DEF CatalogInv, SessionOK
  <1>14. DOMAIN remembered.scanned \subseteq Source
    BY <1>3, <1>5 DEF CatalogInv
  <1> QED
    BY <1>1, <1>4, <1>7, <1>10, <1>12, <1>13, <1>14, CommitKeeps

LEMMA DeleteDatasourceKeeps ==
    ASSUME CatalogInv, NEW a \in Admin, delete_datasource(a)
    PROVE  CatalogInv'
  <1> DEFINE src == sess[a].source
             gone == ResourcesOf(db, src)
             listed == DOMAIN sess[a].loaded
             new == [db EXCEPT !.sources = @ \ {src},
                               !.resources = Without(@, gone),
                               !.fields = Without(@, {k \in DOMAIN @ : k[1] = src}),
                               !.rules = @ \ listed]
             remembered == [past EXCEPT !.scanned = Without(@, {src}),
                                        !.left = @ \cup IF Others(a) = {} THEN gone \ listed ELSE gone]
  <1>1. Commit(a, new, remembered)
    BY Zenon DEF delete_datasource
  <1>2. /\ DOMAIN new = DOMAIN db /\ new.next = db.next /\ new.sources = db.sources \ {src}
        /\ new.resources = Without(db.resources, gone) /\ new.rules = db.rules \ listed
        /\ new.fields = Without(db.fields, {k \in DOMAIN db.fields : k[1] = src})
    BY DEF CatalogInv, TablesOK, TablesTyped
  <1>3. /\ DOMAIN remembered = DOMAIN past /\ remembered.late = past.late /\ remembered.cut = past.cut
        /\ remembered.scanned = Without(past.scanned, {src})
        /\ remembered.left = past.left \cup IF Others(a) = {} THEN gone \ listed ELSE gone
    BY DEF CatalogInv
  <1> HIDE DEF new, remembered
  <1>4. db' = new /\ past' = remembered
    BY <1>1 DEF Commit
  <1>5. /\ DOMAIN new.resources = DOMAIN db.resources \ gone
        /\ \A r \in DOMAIN new.resources : new.resources[r] = db.resources[r]
        /\ DOMAIN new.fields = {k \in DOMAIN db.fields : k[1] # src}
        /\ DOMAIN remembered.scanned = DOMAIN past.scanned \ {src}
        /\ \A x \in DOMAIN remembered.scanned : remembered.scanned[x] = past.scanned[x]
    BY <1>2, <1>3 DEF Without
  <1>6. TablesOK(db)
    BY DEF CatalogInv
  <1>7. \A k \in DOMAIN new.fields : k \in DOMAIN db.fields /\ k[2] \in DOMAIN new.resources
    BY <1>5, <1>6 DEF TablesOK, TablesTyped, ResourcesOf
  <1>8. TablesOK(new)
    BY <1>2, <1>5, <1>6, <1>7, PlacesOK
  <1>9. Evolves(db, new)
    BY <1>2, <1>5, <1>6, PlacesEvolve
  <1>10. CatalogHangsTogether'
    <2>1. \A k \in DOMAIN new.fields : k[2] \in ResourcesOf(new, k[1])
      BY <1>8 DEF TablesOK, TablesTyped
    <2>2. ASSUME NEW r \in DOMAIN new.resources
          PROVE  /\ new.resources[r].source \in new.sources \cup past.late
                 /\ new.resources[r].parent \in DOMAIN new.resources \cup past.cut \cup {Null}
      <3>1. r \in DOMAIN db.resources /\ new.resources[r] = db.resources[r] /\ db.resources[r].source # src
        BY <1>5 DEF ResourcesOf
      <3>2. /\ db.resources[r].source \in db.sources \cup past.late
            /\ db.resources[r].parent \in DOMAIN db.resources \cup past.cut \cup {Null}
        BY <3>1 DEF CatalogInv, CatalogHangsTogether
      <3>3. ASSUME db.resources[r].parent \in DOMAIN db.resources, db.resources[r].parent # Null
            PROVE  db.resources[r].parent \in DOMAIN new.resources
        <4>1. Above(db, r, db.resources[r].parent)
          BY <3>1, <3>3, <1>6 DEF TablesOK, ParentsAbove
        <4> QED
          BY <4>1, <3>1, <1>5 DEF Above, ResourcesOf
      <3> QED
        BY <3>1, <3>2, <3>3, <1>2
    <2>3. new.rules \subseteq DOMAIN new.resources \cup remembered.left
      BY <1>2, <1>3, <1>5 DEF CatalogInv, CatalogHangsTogether
    <2> QED
      BY <1>3, <1>4, <2>1, <2>2, <2>3 DEF CatalogHangsTogether, ResourcesOf
  <1>11. ASSUME NEW x \in DOMAIN remembered.scanned
         PROVE  SnapshotOf(new, x, remembered.scanned[x])
    <2>1. x # src /\ SnapshotOf(db, x, past.scanned[x]) /\ remembered.scanned[x] = past.scanned[x]
      BY <1>5, SnapshotsByDatasource DEF CatalogInv
    <2>2. ResourcesOf(new, x) = ResourcesOf(db, x) /\ \A r \in ResourcesOf(db, x) : new.resources[r] = db.resources[r]
      BY <2>1, <1>5 DEF ResourcesOf
    <2>3. \A k : k[1] = x => (k \in DOMAIN new.fields <=> k \in DOMAIN db.fields)
      BY <2>1, <1>5
    <2> QED
      BY <2>1, <2>2, <2>3, SnapshotStays
  <1>12. CatalogIsSnapshot'
    BY <1>4, <1>11 DEF CatalogIsSnapshot, SnapshotOf, RowsAt, ColumnsOf, ResourcesOf
  <1>13. ASSUME NEW b \in Admin \ {a}, sess[b].op = "create_rule"
         PROVE  sess[b].resource \in DOMAIN new.resources \cup remembered.left
    <2>1. sess[b].resource \in DOMAIN db.resources \cup past.left
      BY <1>13 DEF CatalogInv, SessionOK
    <2>2. Others(a) # {}
      BY <1>13 DEF Others, Busy
    <2> QED
      BY <2>1, <2>2, <1>3, <1>5
  <1>14. DOMAIN remembered.scanned \subseteq Source
    BY <1>5 DEF CatalogInv
  <1> QED
    BY <1>1, <1>3, <1>8, <1>9, <1>10, <1>12, <1>13, <1>14, CommitKeeps

LEMMA DeleteResourceKeeps ==
    ASSUME CatalogInv, NEW a \in Admin, delete_resource(a)
    PROVE  CatalogInv'
  <1> DEFINE gone == sess[a].resource
             overlap == \E b \in Others(a) : sess[b].op = "create_rule" /\ sess[b].resource = gone
             its == {x \in Source : gone \in ResourcesOf(db, x)}
             new == [db EXCEPT !.resources = Without(@, {gone}),
                               !.fields = Without(@, {k \in DOMAIN @ : k[2] = gone}),
                               !.rules = @ \ {gone}]
             remembered == [past EXCEPT !.scanned = Without(@, its),
                                        !.cut = @ \cup {gone},
                                        !.left = @ \cup {x \in {gone} : overlap}]
  <1>1. Commit(a, new, remembered)
    BY Zenon DEF delete_resource
  <1>2. /\ DOMAIN new = DOMAIN db /\ new.next = db.next /\ new.sources = db.sources
        /\ new.resources = Without(db.resources, {gone}) /\ new.rules = db.rules \ {gone}
        /\ new.fields = Without(db.fields, {k \in DOMAIN db.fields : k[2] = gone})
    BY DEF CatalogInv, TablesOK, TablesTyped
  <1>3. /\ DOMAIN remembered = DOMAIN past /\ remembered.late = past.late
        /\ remembered.cut = past.cut \cup {gone}
        /\ remembered.scanned = Without(past.scanned, its)
        /\ remembered.left = past.left \cup {x \in {gone} : overlap}
    BY DEF CatalogInv
  <1> HIDE DEF new, remembered
  <1>4. db' = new /\ past' = remembered
    BY <1>1 DEF Commit
  <1>5. /\ DOMAIN new.resources = DOMAIN db.resources \ {gone}
        /\ \A r \in DOMAIN new.resources : new.resources[r] = db.resources[r]
        /\ DOMAIN new.fields = {k \in DOMAIN db.fields : k[2] # gone}
        /\ DOMAIN remembered.scanned = DOMAIN past.scanned \ its
        /\ \A x \in DOMAIN remembered.scanned : remembered.scanned[x] = past.scanned[x]
    BY <1>2, <1>3 DEF Without
  <1>6. TablesOK(db)
    BY DEF CatalogInv
  <1>7. \A k \in DOMAIN new.fields : k \in DOMAIN db.fields /\ k[2] \in DOMAIN new.resources
    BY <1>5, <1>6 DEF TablesOK, TablesTyped, ResourcesOf
  <1>8. TablesOK(new)
    BY <1>2, <1>5, <1>6, <1>7, PlacesOK
  <1>9. Evolves(db, new)
    BY <1>2, <1>5, <1>6, PlacesEvolve
  <1>10. CatalogHangsTogether'
    <2>1. \A k \in DOMAIN new.fields : k[2] \in ResourcesOf(new, k[1])
      BY <1>8 DEF TablesOK, TablesTyped
    <2>2. \A r \in DOMAIN new.resources :
             /\ new.resources[r].source \in new.sources \cup past.late
             /\ new.resources[r].parent \in DOMAIN new.resources \cup remembered.cut \cup {Null}
      BY <1>2, <1>3, <1>5 DEF CatalogInv, CatalogHangsTogether
    <2>3. new.rules \subseteq DOMAIN new.resources \cup remembered.left
      BY <1>2, <1>3, <1>5 DEF CatalogInv, CatalogHangsTogether
    <2> QED
      BY <1>3, <1>4, <2>1, <2>2, <2>3 DEF CatalogHangsTogether, ResourcesOf
  <1>11. ASSUME NEW x \in DOMAIN remembered.scanned
         PROVE  SnapshotOf(new, x, remembered.scanned[x])
    <2>1. x \notin its /\ SnapshotOf(db, x, past.scanned[x]) /\ remembered.scanned[x] = past.scanned[x]
      BY <1>5, SnapshotsByDatasource DEF CatalogInv
    <2>2. gone \notin ResourcesOf(db, x)
      BY <2>1, <1>5 DEF CatalogInv
    <2>3. ResourcesOf(new, x) = ResourcesOf(db, x) /\ \A r \in ResourcesOf(db, x) : new.resources[r] = db.resources[r]
      BY <2>2, <1>5 DEF ResourcesOf
    <2>4. \A k : k[1] = x => (k \in DOMAIN new.fields <=> k \in DOMAIN db.fields)
      BY <2>2, <1>5, <1>6 DEF TablesOK, TablesTyped
    <2> QED
      BY <2>1, <2>3, <2>4, SnapshotStays
  <1>12. CatalogIsSnapshot'
    BY <1>4, <1>11 DEF CatalogIsSnapshot, SnapshotOf, RowsAt, ColumnsOf, ResourcesOf
  <1>13. ASSUME NEW b \in Admin \ {a}, sess[b].op = "create_rule"
         PROVE  sess[b].resource \in DOMAIN new.resources \cup remembered.left
    <2>1. sess[b].resource \in DOMAIN db.resources \cup past.left
      BY <1>13 DEF CatalogInv, SessionOK
    <2>2. b \in Others(a)
      BY <1>13 DEF Others, Busy
    <2>3. sess[b].resource = gone => overlap
      BY <1>13, <2>2
    <2> QED
      BY <2>1, <2>3, <1>3, <1>5
  <1>14. DOMAIN remembered.scanned \subseteq Source
    BY <1>5 DEF CatalogInv
  <1> QED
    BY <1>1, <1>3, <1>8, <1>9, <1>10, <1>12, <1>13, <1>14, CommitKeeps

\* An edit that leaves every row in its place, with rules only on resources that are
\* there or have left.
LEMMA PlainCommitKeeps ==
    ASSUME CatalogInv, NEW a \in Admin, NEW new, Commit(a, new, past),
           DOMAIN new = DOMAIN db, new.next = db.next, new.sources = db.sources,
           DOMAIN new.resources = DOMAIN db.resources,
           \A r \in DOMAIN new.resources :
               /\ DOMAIN new.resources[r] = DOMAIN db.resources[r]
               /\ new.resources[r].source = db.resources[r].source
               /\ new.resources[r].path = db.resources[r].path
               /\ new.resources[r].parent = db.resources[r].parent,
           DOMAIN new.fields = DOMAIN db.fields,
           new.rules \subseteq DOMAIN db.resources \cup past.left
    PROVE  CatalogInv'
  <1>1. db' = new /\ past' = past
    BY DEF Commit
  <1>2. TablesOK(db) /\ CatalogHangsTogether
    BY DEF CatalogInv
  <1>3. \A k \in DOMAIN new.fields : k \in DOMAIN db.fields /\ k[2] \in DOMAIN new.resources
    BY <1>2 DEF TablesOK, TablesTyped, ResourcesOf
  <1>4. TablesOK(new)
    BY <1>2, <1>3, PlacesOK
  <1>5. Evolves(db, new)
    BY <1>2, PlacesEvolve
  <1>6. \A x : ResourcesOf(new, x) = ResourcesOf(db, x)
    BY DEF ResourcesOf
  <1>7. CatalogHangsTogether'
    <2>1. \A k \in DOMAIN new.fields : k[2] \in ResourcesOf(new, k[1])
      BY <1>4 DEF TablesOK, TablesTyped
    <2> QED
      BY <1>1, <1>2, <2>1 DEF CatalogHangsTogether, ResourcesOf
  <1>8. ASSUME NEW x \in DOMAIN past.scanned PROVE SnapshotOf(new, x, past.scanned[x])
    <2>1. SnapshotOf(db, x, past.scanned[x])
      BY SnapshotsByDatasource DEF CatalogInv
    <2>2. \A r \in ResourcesOf(db, x) :
             new.resources[r].path = db.resources[r].path /\ new.resources[r].parent = db.resources[r].parent
      BY DEF ResourcesOf
    <2> QED
      BY <2>1, <2>2, <1>6, SnapshotStays
  <1>9. CatalogIsSnapshot'
    BY <1>1, <1>8 DEF CatalogIsSnapshot, SnapshotOf, RowsAt, ColumnsOf, ResourcesOf
  <1>10. \A b \in Admin \ {a} :
            sess[b].op = "create_rule" => sess[b].resource \in DOMAIN new.resources \cup past.left
    BY DEF CatalogInv, SessionOK
  <1>11. DOMAIN past.scanned \subseteq Source
    BY DEF CatalogInv
  <1> QED
    BY <1>4, <1>5, <1>7, <1>9, <1>10, <1>11, CommitKeeps

LEMMA EditResourceKeeps ==
    ASSUME CatalogInv, NEW a \in Admin, NEW row, EditResource(a, row),
           sess[a].op \in {"update_resource", "annotate_resource"},
           DOMAIN row = DOMAIN sess[a].row,
           \A f \in {"source", "path", "parent"} : row[f] = sess[a].row[f]
    PROVE  CatalogInv'
  <1> DEFINE r == sess[a].resource
             was == sess[a].row
             merged == [f \in DOMAIN row |-> IF row[f] = was[f] THEN db.resources[r][f] ELSE row[f]]
             new == [db EXCEPT !.resources[r] = merged]
  <1>0. /\ TablesTyped(db) /\ db.rules \subseteq DOMAIN db.resources \cup past.left
        /\ DOMAIN was = {"source", "path", "parent", "status", "note"}
    BY DEF CatalogInv, TablesOK, CatalogHangsTogether, SessionOK
  <1>1. CASE Fail(a)
    BY <1>1, FailKeeps
  <1>2. CASE Commit(a, db, past)
    BY <1>0, <1>2, PlainCommitKeeps
  <1>3. CASE r \in DOMAIN db.resources /\ Commit(a, new, past)
    <2>1. /\ DOMAIN new = DOMAIN db /\ new.next = db.next /\ new.sources = db.sources
          /\ new.fields = db.fields /\ new.rules = db.rules
          /\ DOMAIN new.resources = DOMAIN db.resources
          /\ \A t \in DOMAIN db.resources \ {r} : new.resources[t] = db.resources[t]
          /\ new.resources[r] = merged
      BY <1>0, <1>3 DEF TablesTyped
    <2>2. /\ DOMAIN merged = DOMAIN db.resources[r] /\ merged.source = db.resources[r].source
          /\ merged.path = db.resources[r].path /\ merged.parent = db.resources[r].parent
      BY <1>0, <1>3 DEF TablesTyped
    <2> HIDE DEF new, merged
    <2>3. \A t \in DOMAIN new.resources :
             /\ DOMAIN new.resources[t] = DOMAIN db.resources[t]
             /\ new.resources[t].source = db.resources[t].source
             /\ new.resources[t].path = db.resources[t].path
             /\ new.resources[t].parent = db.resources[t].parent
      BY <2>1, <2>2
    <2>4. Commit(a, new, past)
      BY <1>3
    <2> QED
      BY <1>0, <2>1, <2>3, <2>4, PlainCommitKeeps
  <1> QED
    BY <1>1, <1>2, <1>3, Zenon DEF EditResource

LEMMA UpdateResourceKeeps ==
    ASSUME CatalogInv, NEW a \in Admin, update_resource(a) \/ annotate_resource(a)
    PROVE  CatalogInv'
  <1>1. sess[a].op \in {"update_resource", "annotate_resource"}
    BY DEF update_resource, annotate_resource, Is
  <1> DEFINE row == IF update_resource(a) THEN [sess[a].row EXCEPT !.status = sess[a].status]
                    ELSE [sess[a].row EXCEPT !.note = Mine]
  <1>2. EditResource(a, row)
    BY Zenon DEF update_resource, annotate_resource
  <1>3. DOMAIN sess[a].row = {"source", "path", "parent", "status", "note"}
    BY <1>1 DEF CatalogInv, SessionOK
  <1>4. DOMAIN row = DOMAIN sess[a].row /\ \A f \in {"source", "path", "parent"} : row[f] = sess[a].row[f]
    BY <1>3
  <1> HIDE DEF row
  <1> QED
    BY <1>1, <1>2, <1>4, EditResourceKeeps

LEMMA UpdateFieldKeeps ==
    ASSUME CatalogInv, NEW a \in Admin, update_resource_field(a)
    PROVE  CatalogInv'
  <1> DEFINE k == sess[a].field
             new == [db EXCEPT !.fields[k] = sess[a].status]
  <1>0. DOMAIN db = {"sources", "resources", "fields", "rules", "next"}
        /\ db.rules \subseteq DOMAIN db.resources \cup past.left
    BY DEF CatalogInv, TablesOK, TablesTyped, CatalogHangsTogether
  <1>1. CASE Fail(a)
    BY <1>1, FailKeeps
  <1>2. CASE Commit(a, db, past)
    BY <1>0, <1>2, PlainCommitKeeps
  <1>3. CASE k \in DOMAIN db.fields /\ Commit(a, new, past)
    <2>1. /\ DOMAIN new = DOMAIN db /\ new.next = db.next /\ new.sources = db.sources
          /\ new.resources = db.resources /\ new.rules = db.rules
          /\ DOMAIN new.fields = DOMAIN db.fields
      BY <1>0
    <2> HIDE DEF new
    <2> QED
      BY <1>0, <1>3, <2>1, PlainCommitKeeps
  <1> QED
    BY <1>1, <1>2, <1>3, Zenon DEF update_resource_field

LEMMA CreateRuleKeeps ==
    ASSUME CatalogInv, NEW a \in Admin, create_rule(a)
    PROVE  CatalogInv'
  <1> DEFINE new == [db EXCEPT !.rules = @ \cup {sess[a].resource}]
  <1>0. /\ DOMAIN db = {"sources", "resources", "fields", "rules", "next"}
        /\ db.rules \subseteq DOMAIN db.resources \cup past.left
        /\ sess[a].resource \in DOMAIN db.resources \cup past.left
    BY DEF CatalogInv, TablesOK, TablesTyped, CatalogHangsTogether, SessionOK, create_rule, Is
  <1>1. Commit(a, new, past)
    BY DEF create_rule
  <1>2. /\ DOMAIN new = DOMAIN db /\ new.next = db.next /\ new.sources = db.sources
        /\ new.resources = db.resources /\ new.fields = db.fields
        /\ new.rules = db.rules \cup {sess[a].resource}
    BY <1>0
  <1> HIDE DEF new
  <1> QED
    BY <1>0, <1>1, <1>2, PlainCommitKeeps

LEMMA AlterKeeps ==
    ASSUME CatalogInv, alter
    PROVE  CatalogInv'
  <1>1. live' \in [Source -> Schemas]
    BY DEF CatalogInv, alter
  <1>2. CatalogHangsTogether'
    BY DEF CatalogInv, CatalogHangsTogether, ResourcesOf, alter
  <1>3. CatalogIsSnapshot'
    BY DEF CatalogInv, CatalogIsSnapshot, ResourcesOf, alter
  <1> QED
    BY <1>1, <1>2, <1>3 DEF CatalogInv, alter

-----------------------------------------------------------------------------
(* The invariant. *)

LEMMA InitOK == Init => CatalogInv
  <1> SUFFICES ASSUME Init PROVE CatalogInv
    OBVIOUS
  <1>1. PICK seed \in Seeds : db = seed.db /\ live = seed.live
    BY DEF Init
  <1>2. /\ TablesOK(db) /\ live \in [Source -> Schemas]
        /\ db.rules \subseteq DOMAIN db.resources
        /\ \A r \in DOMAIN db.resources :
              db.resources[r].source \in db.sources /\ db.resources[r].parent \in DOMAIN db.resources \cup {Null}
    BY <1>1, SeedsAssumption
  <1>3. /\ past.scanned = Nothing /\ DOMAIN past.scanned = {}
        /\ DOMAIN past = {"scanned", "cut", "left", "late"}
    BY DEF Init, Nothing
  <1>4. DOMAIN sess = Admin /\ \A a \in Admin : SessionOK(db, past.left, sess[a])
    BY NoRequestOK DEF Init
  <1>5. CatalogHangsTogether
    BY <1>2 DEF CatalogHangsTogether, TablesOK, TablesTyped
  <1>6. CatalogIsSnapshot
    BY <1>3 DEF CatalogIsSnapshot
  <1> QED
    BY <1>2, <1>3, <1>4, <1>5, <1>6 DEF CatalogInv

LEMMA NextOK == CatalogInv /\ [Next]_vars => CatalogInv'
  <1> SUFFICES ASSUME CatalogInv, [Next]_vars PROVE CatalogInv'
    OBVIOUS
  <1>1. CASE alter
    BY <1>1, AlterKeeps
  <1>2. ASSUME NEW a \in Admin, Begin(a) PROVE CatalogInv'
    BY <1>2, BeginKeeps
  <1>3. ASSUME NEW a \in Admin, Scans(a) PROVE CatalogInv'
    <2>1. CASE list_relations(a)
      BY <2>1, ListRelationsKeeps
    <2>2. CASE list_columns(a)
      BY <2>2, ListColumnsKeeps
    <2>3. CASE scan_fails(a)
      BY <2>3, FailKeeps DEF scan_fails
    <2>4. CASE select_resources(a)
      BY <2>4, SelectResourcesKeeps
    <2>5. CASE replace_snapshot(a)
      BY <2>5, FailKeeps, ReplaceSnapshotKeeps
    <2> QED
      BY <1>3, <2>1, <2>2, <2>3, <2>4, <2>5 DEF Scans
  <1>4. ASSUME NEW a \in Admin, Edits(a) PROVE CatalogInv'
    <2>1. CASE delete_datasource(a)
      BY <2>1, DeleteDatasourceKeeps
    <2>2. CASE delete_resource(a)
      BY <2>2, DeleteResourceKeeps
    <2>3. CASE update_resource(a) \/ annotate_resource(a)
      BY <2>3, UpdateResourceKeeps
    <2>4. CASE update_resource_field(a)
      BY <2>4, UpdateFieldKeeps
    <2>5. CASE create_rule(a)
      BY <2>5, CreateRuleKeeps
    <2> QED
      BY <1>4, <2>1, <2>2, <2>3, <2>4, <2>5 DEF Edits
  <1>5. CASE UNCHANGED vars
    BY <1>5 DEF vars, CatalogInv, CatalogHangsTogether, CatalogIsSnapshot, ResourcesOf
  <1> QED
    BY <1>1, <1>2, <1>3, <1>4, <1>5 DEF Next

LEMMA CatalogInvariant == Spec => []CatalogInv
  BY InitOK, NextOK, PTL DEF Spec

\* However scans, deletions and edits interleave, a datasource that was scanned, and has
\* lost no resource by hand since, has exactly the paths and the columns of its last
\* snapshot, each path once and under the row of the path above (replace_snapshot).
THEOREM ScansLeaveTheSnapshot == Spec => []CatalogIsSnapshot
  BY CatalogInvariant, PTL DEF CatalogInv

\* However they interleave, and with no foreign key enforced, fields have their
\* resources, and whatever else has lost what it refers to has lost it to one of the
\* operations the property names.
THEOREM NothingElseDangles == Spec => []CatalogHangsTogether
  BY CatalogInvariant, PTL DEF CatalogInv

\* What a scan writes keeps the status of every row it had loaded, its description if
\* it had one, and the rows and columns of the other datasources.
THEOREM ScansAreCareful == Spec => ScansKeepAnnotations
  <1> DEFINE
        Step(a) ==
          replace_snapshot(a) /\ db' # db =>
            LET s == sess[a]
                Seen(r) == db.resources[r].source # s.source
                             \/ (r \in DOMAIN s.loaded /\ db.resources[r].path \in DOMAIN s.snapshot)
                InTime(r) == r \in DOMAIN s.loaded => s.loaded[r].note = db.resources[r].note
            IN  /\ \A r \in DOMAIN db.resources : Seen(r) =>
                      /\ r \in DOMAIN db'.resources
                      /\ db'.resources[r].status = db.resources[r].status
                      /\ db.resources[r].note # Null /\ InTime(r) => db'.resources[r].note = db.resources[r].note
                /\ \A k \in DOMAIN db.fields :
                      (k[1] # s.source \/ (k[2] \in DOMAIN s.loaded /\ s.loaded[k[2]].path \in DOMAIN s.snapshot
                                             /\ k[3] \in s.snapshot[s.loaded[k[2]].path]))
                        => k \in DOMAIN db'.fields /\ db'.fields[k] = db.fields[k]
  <1>1. ASSUME CatalogInv, NEW a \in Admin PROVE Step(a)
    <2> SUFFICES ASSUME replace_snapshot(a), db' # db PROVE Step(a)
      OBVIOUS
    <2> DEFINE src == sess[a].source
               loaded == sess[a].loaded
               snapshot == sess[a].snapshot
               ids == SeenIds(db, loaded, snapshot)
               new == Replaced(db, src, loaded, snapshot)
    <2>1. ~Fail(a)
      BY DEF Fail
    <2>2. Scanned(db, src, loaded, snapshot, ids, new) /\ db' = new
      BY <1>1, <2>1, ScanWrites, Zenon DEF Commit
    <2>3. /\ Nested(DOMAIN snapshot) /\ LoadedOK(db, src, loaded) /\ TablesOK(db)
      BY <1>1, HeadOfWrite DEF CatalogInv, replace_snapshot
    <2> HIDE DEF ids, new
    <2>4. \A r \in DOMAIN db.resources :
             db.resources[r].source # src => r \in DOMAIN new.resources /\ new.resources[r] = db.resources[r]
      BY <2>2, <2>3, ScannedRows
    <2>5. ASSUME NEW r \in DOMAIN loaded \cap DOMAIN db.resources, loaded[r].path \in DOMAIN snapshot
          PROVE  r = ids[loaded[r].path]
      <3> DEFINE p == loaded[r].path
      <3>1. loaded[r].source = src /\ db.resources[r].source = src /\ db.resources[r].path = p
        BY <2>3 DEF LoadedOK
      <3>2. CASE ids[p] \in DOMAIN loaded /\ loaded[ids[p]].path = p
        BY <3>2, <2>3 DEF LoadedOK
      <3>3. CASE ids[p] \notin DOMAIN loaded
        <4>1. IdsOf(db, loaded, snapshot, ids)
          BY <2>3, SeenIdsAreIds DEF ids, TablesOK
        <4>2. Existing(loaded, p) = {}
          BY <4>1, <3>3, <2>5 DEF IdsOf
        <4> QED
          BY <4>2 DEF Existing
      <3> QED
        BY <2>2, <2>5, <3>2, <3>3 DEF Scanned
    <2>6. ASSUME NEW r \in DOMAIN db.resources, r \in DOMAIN loaded, db.resources[r].path \in DOMAIN snapshot
          PROVE  /\ r \in DOMAIN new.resources
                 /\ new.resources[r].status = db.resources[r].status
                 /\ db.resources[r].note # Null /\ loaded[r].note = db.resources[r].note
                       => new.resources[r].note = db.resources[r].note
      <3> DEFINE p == loaded[r].path
      <3>1. db.resources[r].path = p
        BY <2>6, <2>3 DEF LoadedOK
      <3>2. p \in DOMAIN snapshot /\ r = ids[p]
        BY <3>1, <2>5, <2>6
      <3> QED
        BY <3>2, <2>2, <2>6 DEF Scanned, Range
    <2>7. ASSUME NEW k \in DOMAIN db.fields,
                 k[1] # src \/ (k[2] \in DOMAIN loaded /\ loaded[k[2]].path \in DOMAIN snapshot
                                  /\ k[3] \in snapshot[loaded[k[2]].path])
          PROVE  k \in DOMAIN new.fields /\ new.fields[k] = db.fields[k]
      <3>1. DOMAIN new.fields = SeenFields(src, ids, snapshot) \cup {x \in DOMAIN db.fields : x[1] # src}
        BY <2>2 DEF Scanned
      <3>2. CASE k[1] # src
        BY <3>1, <3>2, <2>2 DEF Scanned
      <3>3. CASE k[1] = src
        <4>1. k = <<k[1], k[2], k[3]>> /\ k[2] \in DOMAIN db.resources
          BY <2>3 DEF TablesOK, TablesTyped, ResourcesOf
        <4>2. k[2] = ids[loaded[k[2]].path]
          BY <4>1, <3>3, <2>5, <2>7
        <4>3. k \in SeenFields(src, ids, snapshot)
          <5> DEFINE p == loaded[k[2]].path
          <5>1. k = <<src, ids[p], k[3]>> /\ p \in DOMAIN snapshot /\ k[3] \in snapshot[p]
            BY <4>1, <4>2, <3>3, <2>7
          <5> HIDE DEF p
          <5> QED
            BY <5>1 DEF SeenFields
        <4> QED
          BY <4>3, <3>1, <2>2 DEF Scanned
      <3> QED
        BY <3>2, <3>3
    <2> QED
      BY <2>2, <2>4, <2>6, <2>7
  <1>2. CatalogInv => \A a \in Admin : Step(a)
    BY <1>1
  <1>3. CatalogInv /\ [Next]_vars => [\A a \in Admin : Step(a)]_vars
    BY <1>2
  <1> QED
    BY <1>3, CatalogInvariant, PTL DEF Spec, ScansKeepAnnotations
=============================================================================
