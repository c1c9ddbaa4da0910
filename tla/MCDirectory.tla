----------------------------- MODULE MCDirectory -----------------------------
(* Small directories: a few users with keys and roles, or a few nodes. *)
EXTENDS DirectoryProperties

\* LIKE takes a_ for ab as well.
MCAlike(x, y) == x = y \/ (x = "a_" /\ y = "ab")

Node(name, parent, path) == [name |-> name, parent |-> parent, path |-> path]
Person(ref, node, status) == [ref |-> ref, node |-> node, status |-> status]

\* The root, here row 2, a node below it, a user with a key, and a role he has.
MCStaff ==
    {[ nodes |-> 2 :> Node(RootName, Null, <<>>) @@ 1 :> Node("a", 2, <<"a">>),
       roles |-> 3 :> "r",
       users |-> 4 :> Person("x", 1, "active"),
       links |-> {<<4, 3>>},
       keys  |-> 5 :> RuntimeKey(4),
       next  |-> 6 ]}

ImportRows(ref, path, roles) == [ref |-> ref, path |-> path, roles |-> roles]
StaffBatches ==
    { << ImportRows("x", <<"a", "b", "c">>, <<"r">>), ImportRows("y", <<>>, <<"s">>) >>,
      << ImportRows("x", <<"a">>, <<"r">>) >> }

\* Requests on users, roles and keys, an update changing one thing at a time, and
\* the deletion of nodes.
AsksOfStaff(r) ==
    CASE r.op = "create_user" -> (r.org # 2 /\ r.roles = {}) \/ r.org = Null
      [] r.op = "update_user" -> Cardinality({c \in {"org", "roles", "status"} : r[c] # Keep}) = 1
      [] r.op \in {"create_role", "update_role"} -> r.name \in {"r", "s"}
      [] r.op = "create_org_node" \/ r.op = "update_org_node" -> FALSE
      [] r.op = "import" -> r.rows \in StaffBatches
      [] OTHER -> TRUE

\* The root with two children and a grandchild, and nobody in them.
MCTree ==
    {[ nodes |-> 1 :> Node(RootName, Null, <<>>) @@ 2 :> Node("ab", 1, <<"ab">>)
                  @@ 3 :> Node("a_", 1, <<"a_">>) @@ 4 :> Node("c", 2, <<"ab", "c">>),
       roles |-> Nothing, users |-> Nothing, links |-> {}, keys |-> Nothing, next |-> 5 ]}

\* A directory whose nodes are all imported, which gives them no parent.
MCImported ==
    {[ nodes |-> 1 :> Node(RootName, Null, <<>>) @@ 2 :> Node("ab", Null, <<"ab">>),
       roles |-> Nothing, users |-> Nothing, links |-> {}, keys |-> Nothing, next |-> 3 ]}

TreeBatches == { << ImportRows("x", <<"ab", "ab">>, <<>>) >> }

\* Moves that can form cycles, renames, an edit of the root's status, and requests on
\* nodes the others made.
TreeUpdates ==
    { <<1, Keep, Keep>>, <<2, "c", Keep>>, <<3, "ab", Keep>>,
      <<2, Keep, 3>>, <<2, Keep, 4>>, <<3, Keep, 2>>, <<4, Keep, 3>> }

AsksOfTree(r) ==
    CASE r.op = "create_org_node" -> r.name = "c" /\ r.org = 4
      [] r.op = "update_org_node" -> <<r.node, r.name, r.org>> \in TreeUpdates
      [] r.op = "delete_org_node" -> r.node \in {1, 4}
      [] OTHER -> r.op = "import" /\ r.rows \in TreeBatches

\* The root of a staffed directory stays row 2; in the others row 2 is never the root.
MCAsks(d, r) == IF 2 \in NodeAt(d, <<>>) THEN AsksOfStaff(r) ELSE AsksOfTree(r)

MCSeeds == MCStaff \cup MCTree
MCBatches == StaffBatches \cup TreeBatches
=============================================================================
