------------------------- MODULE DirectoryProperties -------------------------
(* What the directory keeps while admins work on it at the same time. *)
EXTENDS Directory

-----------------------------------------------------------------------------
\* The tables hold rows of their types under their unique constraints, no id is used
\* for two rows or handed out again, and requests run through their steps.
TypeOK ==
    /\ TablesTyped(db)
    /\ \A a \in Admin : Busy(a) => IsSuffix(sess[a].todo, Steps(sess[a].op))

\* A key that was a user's runtime key when a reset of it began (directory_service.py:107)
\* is no runtime key once the reset is done, and never again: what others did to the
\* keys in between, and what they do later, does not bring it back.
RetiredKeysStayRetired ==
    \A k \in past.retired \cap DOMAIN db.keys : ~(db.keys[k].runtime /\ db.keys[k].active)

\* A user has one active runtime key at most, unless two resets of his were under way
\* at once: neither creation, nor an import, nor an edit or revocation of a key, nor a
\* deletion in the middle of a reset leaves a second one.
OneKeyUnlessResetsMeet ==
    \A u \in DOMAIN db.users \ past.clashes : Cardinality(RuntimeKeys(db, u)) <= 1

\* At most one active runtime key per user, without exception
\* (docs/superpowers/specs/2026-04-26-user-directory-runtime-identity-redesign.md:135).
OneRuntimeKey == \A u \in DOMAIN db.users : Cardinality(RuntimeKeys(db, u)) <= 1

\* Every link, key, membership and parent names a row of its table that exists, though
\* no foreign key is enforced: only the deletion of a row by a request that overlapped
\* with another can leave one that does not.
ReferencesHold == Refers(db, past.raced)

\* What preview and import of every batch make of the tables d.
AsPreviewed(d) ==
    \A rows \in Batches :
        LET preview == PreviewImport(d, rows)
            x == ExecuteImport(d, d, rows)
            distinct == \A i, j \in DOMAIN rows : rows[i].ref = rows[j].ref => i = j
            placed == \A i \in DOMAIN rows : rows[i].path # <<>>
        IN  /\ ~x.failed
            /\ Range(x.nodes) = preview.nodes \cup IF preview.root THEN { <<>> } ELSE {}
            /\ preview.roles \subseteq Range(x.roles)
            /\ placed => preview.roles = Range(x.roles)
            /\ distinct => preview.actions = x.actions
            /\ ExecuteImport(x.db, x.db, rows).db = x.db

\* A batch executed on the tables it was previewed on does what the preview said: the
\* nodes, the root and, for rows with an organization path, the roles it announced, and a
\* creation or an update for every user of the file if it names none twice; and then
\* the same batch changes nothing any more.
ImportsAreAsPreviewed == AsPreviewed(db) /\ [][db' # db => AsPreviewed(db')]_db

\* A user who is disabled while an import is under way stays disabled: the import makes
\* active only those it saw disabled.  An existing user's keys it leaves as they are.
ImportTouchesOnlyWhatItSaw ==
    [][ \A a \in Admin :
          execute_excel_import(a) =>
            \A u \in DOMAIN db.users :
                /\ db'.users[u].status # db.users[u].status => sess[a].users[u].status = "disabled"
                /\ RuntimeKeys(db', u) = RuntimeKeys(db, u) ]_vars

-----------------------------------------------------------------------------
(* The organization tree. *)

\* Moves keep the tree a forest, unless a node was written while another
\* request on nodes was under way.
MovesKeepForest == "overlap" \notin past.upset => Forest(db.nodes)

\* A node's path is its parent's with its name added, at every depth below a moved or
\* renamed node, unless requests on nodes overlapped, the root was edited, or
\* LIKE took another name for the node's.
PathsFollowParents == past.upset = {} => PathsFollow(db.nodes)

\* The walk up the ancestors of a new parent (directory_service.py:394), the one loop of
\* a request, ends whatever the others do meanwhile, as long as the committed nodes are
\* a forest.
WalksEnd == \A a \in Admin : At(a, "walk") ~> (~At(a, "walk") \/ ~Forest(db.nodes))

\* The root of the tree is the root for good: it cannot be deleted
\* (src/tests/integration/test_admin_directory_api.py:454).
RootIsFixed == past.roots \subseteq DOMAIN db.nodes
=============================================================================
