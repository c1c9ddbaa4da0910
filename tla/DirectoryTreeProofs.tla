------------------------- MODULE DirectoryTreeProofs -------------------------
(***************************************************************************)
(* The organization tree, for any number of admins, requests and nodes.    *)
(* As long as no two requests on nodes overlapped when one was written,    *)
(* what a request on nodes knows of the tree is what the tree is.          *)
(***************************************************************************)
EXTENDS DirectoryProofs

\* The new parent of a moved node lies in S, and the parents of all in S but the moved
\* node do: with the move, S would have a cycle, or a node without end.
Loop(nodes, s, S) ==
    /\ DOMAIN s.parent \cap S # {}
    /\ \A n \in S \ {s.node} : ParentOf(nodes, n) \cap S # {}

\* What a request knows of the nodes after a step.
Current(nodes, s, step) ==
    /\ step = "select_node" /\ s.op = "update_org_node" =>
          s.node \in DOMAIN nodes /\ s.row = nodes[s.node]
    /\ step = "select_parent" /\ s.op \in {"create_org_node", "update_org_node"} =>
          /\ DOMAIN s.parent = IF NeedsRoot(s) THEN {n \in DOMAIN nodes : nodes[n].path = <<>>}
                               ELSE {ParentId(s)} \cap DOMAIN nodes
          /\ \A n \in DOMAIN s.parent : s.parent[n] = nodes[n]
    /\ step = "walk" /\ s.op = "update_org_node" =>
          \A S \in SUBSET DOMAIN nodes : ~Loop(nodes, s, S)
    /\ step = "select_children" /\ s.op = "delete_org_node" =>
          \A n \in DOMAIN nodes : nodes[n].parent # s.node
    /\ step = "select_nodes" /\ s.op = "import" => s.nodes = nodes

\* The walk up from the new parent is inside every such S.
Walking(nodes, s) ==
    s.op = "update_org_node" /\ Done(s, "select_parent") =>
        /\ "at" \in DOMAIN s
        /\ \A S \in SUBSET DOMAIN nodes : Loop(nodes, s, S) => s.at \cap S # {}

BelowIs(nodes, s) ==
    s.op = "update_org_node" /\ "below" \in DOMAIN s =>
        Done(s, "select_node") /\ s.below = [n \in Below(nodes, s.row.path) |-> nodes[n]]

Ordered(s) ==
    s.op = "update_org_node" =>
        /\ Done(s, "select_parent") => Done(s, "select_node")
        /\ Done(s, "walk") => Done(s, "select_parent")

UpToDate(nodes, s) ==
    /\ \A step \in StepNames : Done(s, step) => Current(nodes, s, step)
    /\ Walking(nodes, s) /\ BelowIs(nodes, s) /\ Ordered(s)

\* The tree is sound as far as what has happened to it allows.
Sound(nodes, upset) ==
    /\ "overlap" \notin upset => Forest(nodes)
    /\ upset = {} => PathsFollow(nodes) /\ NoOrphans(nodes)

TreeInv ==
    /\ Sound(db.nodes, past.upset)
    /\ "overlap" \notin past.upset =>
          \A a \in Admin : sess[a].op \in NodeOps => UpToDate(db.nodes, sess[a])

-----------------------------------------------------------------------------
(* Reads. *)

LEMMA CurrentStays ==
    ASSUME NEW nodes, NEW d, NEW p, NEW s, NEW t, NEW fields, NEW step \in StepNames, NEW y \in StepNames, y # step,
           Current(nodes, s, y), GoesOn(t, s, fields), DOMAIN fields \subseteq Loads(step),
           s.op \in Takers(step), s.op \in NodeOps, "op" \in DOMAIN s, AskedOK(d, p.raced, s), Found(d, p, s, y),
           s.op = "update_org_node" /\ y \in {"select_parent", "walk"} => step # "select_node" /\ "row" \in DOMAIN s,
           s.op = "update_org_node" /\ y = "walk" => step # "select_parent" /\ "parent" \in DOMAIN s
    PROVE  Current(nodes, t, y)
  <1>1. t.op = s.op
    BY DEF GoesOn, Loads
  <1>2. \A f \in {"node", "org", "name"} \cap DOMAIN s : t[f] = s[f]
    BY DEF GoesOn, Loads
  <1>3. /\ s.op \in {"create_org_node", "update_org_node"} => "org" \in DOMAIN s
        /\ s.op \in {"update_org_node", "delete_org_node"} => "node" \in DOMAIN s
    BY DEF AskedOK
  <1>4. CASE y = "select_node"
    <2>1. s.op = "update_org_node" => t.row = s.row /\ t.node = s.node
      <3>1. s.op = "update_org_node" => "row" \in DOMAIN s
        BY <1>4 DEF Found
      <3>2. s.op = "update_org_node" => "row" \notin Loads(step)
        BY <1>4 DEF Loads, Takers
      <3>3. "row" \notin Loads(step) => "row" \notin DOMAIN fields
        OBVIOUS
      <3> QED
        BY <1>2, <1>3, <3>1, <3>2, <3>3 DEF GoesOn
    <2> QED
      BY <1>1, <1>4, <2>1 DEF Current
  <1>5. CASE y = "select_parent"
    <2>1. s.op \in {"create_org_node", "update_org_node"} => t.parent = s.parent /\ t.org = s.org
      <3>1. "parent" \notin DOMAIN fields
        BY <1>5 DEF Loads
      <3>2. s.op \in {"create_org_node", "update_org_node"} => "parent" \in DOMAIN s
        BY <1>5 DEF Found
      <3> QED
        BY <1>2, <1>3, <3>1, <3>2 DEF GoesOn
    <2>2. s.op = "update_org_node" => t.row = s.row
      <3>1. s.op = "update_org_node" => "row" \notin Loads(step)
        BY <1>5 DEF Loads, Takers
      <3> QED
        BY <1>5, <3>1 DEF GoesOn
    <2>3. s.op \in {"create_org_node", "update_org_node"} => NeedsRoot(t) = NeedsRoot(s) /\ ParentId(t) = ParentId(s)
      BY <1>1, <2>1, <2>2 DEF NeedsRoot, ParentId
    <2> QED
      BY <1>1, <1>5, <2>1, <2>3 DEF Current
  <1>6. CASE y = "walk"
    <2>1. s.op = "update_org_node" => t.parent = s.parent /\ t.node = s.node
      <3>1. s.op = "update_org_node" => "parent" \notin DOMAIN fields
        BY <1>6 DEF Loads
      <3> QED
        BY <1>2, <1>3, <1>6, <3>1 DEF GoesOn
    <2> QED
      BY <1>1, <1>6, <2>1 DEF Current, Loop
  <1>7. CASE y = "select_children"
    BY <1>1, <1>2, <1>3, <1>7 DEF Current
  <1>8. CASE y = "select_nodes"
    <2>1. s.op = "import" => t.nodes = s.nodes
      <3>1. s.op = "import" => "nodes" \in DOMAIN s
        BY <1>8 DEF Found
      <3>2. "nodes" \notin DOMAIN fields
        BY <1>8 DEF Loads
      <3> QED
        BY <3>1, <3>2 DEF GoesOn
    <2> QED
      BY <1>1, <1>8, <2>1 DEF Current
  <1> QED
    BY <1>4, <1>5, <1>6, <1>7, <1>8 DEF Current

\* An update of a node at a step has done the steps before it.
LEMMA UpdateOrder ==
    ASSUME NEW s, s.op = "update_org_node", s.todo \in Seq(StepNames) \ {<<>>}, IsSuffix(s.todo, Steps(s.op))
    PROVE  /\ Head(s.todo) \in {"select_parent", "walk", "select_descendants"} => Done(s, "select_node")
           /\ Head(s.todo) \in {"walk", "select_descendants"} => Done(s, "select_parent")
           /\ Head(s.todo) = "select_descendants" => Done(s, "walk")
  <1> DEFINE steps == Steps(s.op)
             todo == s.todo
  <1>1. /\ Len(steps) = 6 /\ steps[2] = "select_node" /\ steps[3] = "select_parent"
        /\ steps[4] = "walk" /\ steps[5] = "select_descendants"
    BY DEF Steps
  <1>2. s.op \in Ops
    BY DEF Ops
  <1>3. \A i, j \in 1..Len(steps) : Head(todo) = steps[i] /\ j < i => steps[j] \notin Range(todo)
    BY <1>2, AtStep
  <1> HIDE DEF steps, todo
  <1>4. \A i, j \in {2, 3, 4, 5} : Head(todo) = steps[i] /\ j < i => steps[j] \notin Range(todo)
    BY <1>1, <1>3
  <1> QED
    BY <1>1, <1>4 DEF Done, todo

LEMMA WalkingStays ==
    ASSUME NEW nodes, NEW s, NEW t, Walking(nodes, s), t.op = s.op,
           s.op = "update_org_node" /\ Done(t, "select_parent") =>
              Done(s, "select_parent") /\ {"parent", "node"} \subseteq DOMAIN s,
           \A f \in {"at", "parent", "node"} \cap DOMAIN s : f \in DOMAIN t /\ t[f] = s[f]
    PROVE  Walking(nodes, t)
  <1>1. SUFFICES ASSUME s.op = "update_org_node", Done(t, "select_parent")
                 PROVE  /\ "at" \in DOMAIN t
                        /\ \A S \in SUBSET DOMAIN nodes : Loop(nodes, t, S) => t.at \cap S # {}
    BY DEF Walking
  <1>2. /\ "at" \in DOMAIN s
        /\ \A S \in SUBSET DOMAIN nodes : Loop(nodes, s, S) => s.at \cap S # {}
    BY <1>1 DEF Walking
  <1>3. "at" \in DOMAIN t /\ t.at = s.at /\ t.parent = s.parent /\ t.node = s.node
    BY <1>1, <1>2
  <1>4. \A S : Loop(nodes, t, S) <=> Loop(nodes, s, S)
    BY <1>3 DEF Loop
  <1> QED
    BY <1>2, <1>3, <1>4

LEMMA BelowStays ==
    ASSUME NEW nodes, NEW s, NEW t, BelowIs(nodes, s), t.op = s.op,
           "below" \in DOMAIN t => "below" \in DOMAIN s /\ t.below = s.below,
           s.op = "update_org_node" /\ Done(s, "select_node") =>
              Done(t, "select_node") /\ "row" \in DOMAIN s,
           "row" \in DOMAIN s => t.row = s.row
    PROVE  BelowIs(nodes, t)
  <1>1. SUFFICES ASSUME s.op = "update_org_node", "below" \in DOMAIN t
                 PROVE  /\ Done(t, "select_node")
                        /\ t.below = [n \in Below(nodes, t.row.path) |-> nodes[n]]
    BY DEF BelowIs
  <1>2. Done(s, "select_node") /\ s.below = [n \in Below(nodes, s.row.path) |-> nodes[n]]
    BY <1>1 DEF BelowIs
  <1> QED
    BY <1>1, <1>2

LEMMA ReadKeepsUpToDate ==
    ASSUME NEW nodes, DirectoryInv, NEW a \in Admin, NEW step \in StepNames, At(a, step), step # "write",
           sess[a].op \in NodeOps, UpToDate(nodes, sess[a]),
           NEW fields, DOMAIN fields \subseteq Loads(step), NEW t, GoesOn(t, sess[a], fields),
           "todo" \in DOMAIN fields =>
              \/ fields.todo = sess[a].todo
              \/ fields.todo = <<"write">> /\ step = "select_parent" /\ DOMAIN t.parent = {},
           Done(t, step) => Current(nodes, t, step),
           step \in {"select_node", "select_parent", "walk", "select_descendants"} =>
              Walking(nodes, t) /\ BelowIs(nodes, t)
    PROVE  UpToDate(nodes, t)
  <1> DEFINE s == sess[a]
  <1>1. /\ InProgress(db, past, s) /\ s.op \in Takers(step)
        /\ \A y \in StepNames \ {step} : y \notin Range(Tail(s.todo)) => Done(s, y)
    BY AtIs
  <1>2. t.op = s.op /\ {"op", "todo", "overtaken", "keysBefore"} \subseteq DOMAIN s
    BY <1>1 DEF GoesOn, Loads, InProgress
  <1>3. \/ t.todo = Tail(s.todo) \/ t.todo = s.todo
        \/ t.todo = <<"write">> /\ step = "select_parent" /\ DOMAIN t.parent = {}
    BY DEF GoesOn
  <1>4. ~Done(s, step)
    <2>1. s.todo \in Seq(StepNames) /\ s.todo # <<>> /\ Head(s.todo) = step
      BY <1>1 DEF At, InProgress
    <2> QED
      BY <2>1, RangeOfTail DEF Done
  <1>5. s.op = "update_org_node" =>
          /\ step \in {"select_parent", "walk", "select_descendants"} => Done(s, "select_node")
          /\ step \in {"walk", "select_descendants"} => Done(s, "select_parent")
    BY <1>1, UpdateOrder DEF InProgress, At
  <1>6. Ordered(s)
    BY DEF UpToDate
  <1>7. ASSUME NEW y \in StepNames \ {step}, Done(s, y) PROVE Current(nodes, t, y)
    <2>1. Current(nodes, s, y) /\ Found(db, past, s, y) /\ AskedOK(db, past.raced, s)
      BY <1>1, <1>7 DEF UpToDate, InProgress
    <2>2. s.op = "update_org_node" /\ y \in {"select_parent", "walk"} => step # "select_node" /\ "row" \in DOMAIN s
      <3>1. s.op = "update_org_node" /\ y \in {"select_parent", "walk"} => Done(s, "select_node")
        BY <1>6, <1>7 DEF Ordered
      <3>2. s.op = "update_org_node" /\ Done(s, "select_node") => "row" \in DOMAIN s
        BY <1>1 DEF InProgress, Found, StepNames
      <3> QED
        BY <1>4, <3>1, <3>2
    <2>3. s.op = "update_org_node" /\ y = "walk" => step # "select_parent" /\ "parent" \in DOMAIN s
      <3>1. s.op = "update_org_node" /\ y = "walk" => Done(s, "select_parent")
        BY <1>6, <1>7 DEF Ordered
      <3>2. s.op = "update_org_node" /\ Done(s, "select_parent") => "parent" \in DOMAIN s
        BY <1>1 DEF InProgress, Found, StepNames
      <3> QED
        BY <1>4, <3>1, <3>2
    <2> QED
      BY <1>1, <1>2, <2>1, <2>2, <2>3, CurrentStays
  <1>8. ASSUME NEW y \in StepNames, Done(t, y) PROVE Current(nodes, t, y)
    <2>1. CASE y = step
      BY <1>8, <2>1
    <2>2. CASE y # step /\ Done(s, y)
      BY <1>7, <2>2
    <2>3. CASE y # step /\ ~Done(s, y)
      <3>1. t.todo = <<"write">> /\ step = "select_parent" /\ DOMAIN t.parent = {}
        BY <1>1, <1>3, <1>8, <2>3 DEF Done
      <3>2. s.op \in {"create_org_node", "update_org_node"}
        BY <1>1, <3>1 DEF Takers
      <3>3. y = "select_node" => s.op = "create_org_node"
        BY <1>5, <2>3, <3>1, <3>2
      <3> QED
        BY <1>2, <2>3, <3>1, <3>2, <3>3 DEF Current, Loop
    <2> QED
      BY <2>1, <2>2, <2>3
  <1>9. Ordered(t)
    <2>1. SUFFICES ASSUME s.op = "update_org_node"
                   PROVE  /\ Done(t, "select_parent") => Done(t, "select_node")
                          /\ Done(t, "walk") => Done(t, "select_parent")
      BY <1>2 DEF Ordered
    <2>2. \A y \in StepNames : Done(s, y) => Done(t, y)
      <3>1. s.todo \in Seq(StepNames) /\ s.todo # <<>>
        BY <1>1 DEF InProgress
      <3>2. Range(Tail(s.todo)) \subseteq Range(s.todo)
        BY <3>1, RangeOfTail
      <3>3. Range(<<"write">>) = {"write"}
        BY DEF Range
      <3>4. "write" \in Range(s.todo)
        <4>1. s.op \in Ops /\ IsSuffix(s.todo, Steps(s.op)) /\ StepsOK(Steps(s.op))
          BY <1>1, StepsAre DEF InProgress
        <4>2. s.todo[Len(s.todo)] = "write"
          BY <3>1, <4>1, SuffixIs DEF StepsOK
        <4> QED
          BY <3>1, <4>2 DEF Range
      <3> QED
        BY <1>3, <3>2, <3>3, <3>4 DEF Done
    <2>3. {"select_node", "select_parent", "walk"} \subseteq StepNames
      BY DEF StepNames
    <2>4. CASE t.todo = Tail(s.todo)
      <3>1. \A y \in StepNames \ {step} : Done(t, y) <=> Done(s, y)
        BY <1>1, <2>2, <2>4 DEF Done
      <3> QED
        BY <1>5, <1>6, <2>1, <2>2, <2>3, <3>1 DEF Ordered
    <2>5. CASE t.todo = s.todo
      BY <1>6, <2>1, <2>5 DEF Ordered, Done
    <2>6. CASE t.todo = <<"write">>
      BY <2>6 DEF Done, Range
    <2> QED
      BY <1>3, <2>4, <2>5, <2>6
  <1>10. Walking(nodes, t) /\ BelowIs(nodes, t)
    <2>1. CASE step \in {"select_node", "select_parent", "walk", "select_descendants"}
      BY <2>1
    <2>2. CASE step \notin {"select_node", "select_parent", "walk", "select_descendants"}
      <3>1. SUFFICES ASSUME s.op = "update_org_node" PROVE Walking(nodes, t) /\ BelowIs(nodes, t)
        BY <1>2 DEF Walking, BelowIs
      <3>2. step = "require_org_node" /\ Loads(step) = {}
        BY <1>1, <2>2, <3>1 DEF Takers, Loads, StepNames
      <3>3. /\ DOMAIN t = DOMAIN s /\ t.todo = Tail(s.todo)
            /\ \A f \in DOMAIN s \ {"todo"} : t[f] = s[f]
        BY <3>2 DEF GoesOn
      <3>4. \A y \in {"select_node", "select_parent"} : Done(t, y) => Done(s, y)
        BY <1>1, <3>2, <3>3 DEF Done, StepNames
      <3>5. \A y \in {"select_node"} : Done(s, y) => Done(t, y)
        BY <1>1, <3>3, RangeOfTail DEF Done, InProgress
      <3>6. Walking(nodes, t)
        <4>1. Done(t, "select_parent") => Done(s, "select_parent") /\ {"parent", "node"} \subseteq DOMAIN s
          BY <1>1, <3>1, <3>4 DEF InProgress, Found, AskedOK, StepNames
        <4> QED
          BY <1>2, <3>3, <4>1, WalkingStays DEF UpToDate
      <3>7. BelowIs(nodes, t)
        <4>1. Done(s, "select_node") => "row" \in DOMAIN s
          BY <1>1, <3>1 DEF InProgress, Found, StepNames
        <4> QED
          BY <1>2, <3>3, <3>5, <4>1, BelowStays DEF UpToDate
      <3> QED
        BY <3>6, <3>7
    <2> QED
      BY <2>1, <2>2
  <1> QED
    BY <1>8, <1>9, <1>10 DEF UpToDate

LEMMA ReadKeepsTree ==
    ASSUME DirectoryInv, TreeInv, NEW a \in Admin, NEW step \in StepNames, At(a, step), step # "write",
           NEW allowed, NEW fields, Read(a, allowed, fields), DOMAIN fields \subseteq Loads(step),
           "todo" \in DOMAIN fields =>
              \/ fields.todo = sess[a].todo
              \/ /\ fields.todo = <<"write">> /\ step = "select_parent"
                 /\ "parent" \in DOMAIN fields /\ DOMAIN fields.parent = {},
           ASSUME allowed, sess[a].op \in NodeOps, UpToDate(db.nodes, sess[a]),
                  NEW t, GoesOn(t, sess[a], fields), t.op = sess[a].op
           PROVE  /\ Done(t, step) => Current(db.nodes, t, step)
                  /\ step \in {"select_node", "select_parent", "walk", "select_descendants"} =>
                        Walking(db.nodes, t) /\ BelowIs(db.nodes, t)
    PROVE  TreeInv'
  <1> DEFINE s == sess[a]
  <1>1. InProgress(db, past, s) /\ {"op", "todo"} \subseteq DOMAIN s
    BY AtIs DEF InProgress
  <1>2. UNCHANGED <<db, past>> /\ DOMAIN sess = Admin
    BY <1>1, ReadGoesOn DEF DirectoryInv
  <1>3. CASE sess' = [sess EXCEPT ![a] = NoRequest]
    BY <1>2, <1>3 DEF TreeInv, NodeOps, NoRequest
  <1>4. CASE allowed /\ \E t : sess' = [sess EXCEPT ![a] = t] /\ GoesOn(t, s, fields)
    <2>1. PICK t : sess' = [sess EXCEPT ![a] = t] /\ GoesOn(t, s, fields)
      BY <1>4
    <2>2. t.op = s.op
      BY <1>1, <2>1 DEF GoesOn, Loads
    <2>3. "todo" \in DOMAIN fields =>
              \/ fields.todo = s.todo
              \/ fields.todo = <<"write">> /\ step = "select_parent" /\ DOMAIN t.parent = {}
      BY <2>1 DEF GoesOn
    <2>4. ASSUME "overlap" \notin past.upset, s.op \in NodeOps PROVE UpToDate(db.nodes, t)
      <3>1. UpToDate(db.nodes, s)
        BY <2>4 DEF TreeInv
      <3>2. /\ Done(t, step) => Current(db.nodes, t, step)
            /\ step \in {"select_node", "select_parent", "walk", "select_descendants"} =>
                  Walking(db.nodes, t) /\ BelowIs(db.nodes, t)
        BY <1>4, <2>1, <2>2, <2>4, <3>1
      <3> QED
        BY <2>1, <2>3, <2>4, <3>1, <3>2, ReadKeepsUpToDate
    <2> QED
      BY <1>2, <2>1, <2>2, <2>4 DEF TreeInv
  <1> QED
    BY <1>1, <1>3, <1>4, ReadGoesOn

\* The reads of which the upkeep of the tree needs nothing.
LEMMA OtherReadsKeepTree ==
    ASSUME DirectoryInv, TreeInv, NEW a \in Admin,
           \/ require_org_node(a) \/ require_roles(a) \/ select_user(a) \/ select_keys(a) \/ select_key(a)
           \/ select_role(a) \/ select_links(a) \/ select_direct_users(a) \/ select_roles(a) \/ select_users(a)
    PROVE  TreeInv'
  <1>1. ASSUME NEW step \in {"require_org_node", "require_roles", "select_user", "select_keys", "select_key",
                             "select_role", "select_links", "select_direct_users", "select_roles",
                             "select_users"},
               NEW allowed, NEW fields, At(a, step), Read(a, allowed, fields),
               DOMAIN fields \subseteq Loads(step), "todo" \notin DOMAIN fields
        PROVE  TreeInv'
    <2>1. step \in StepNames /\ step # "write"
          /\ step \notin {"select_node", "select_parent", "walk", "select_descendants"}
      BY DEF StepNames
    <2>2. \A t : Current(db.nodes, t, step)
      BY DEF Current
    <2> QED
      BY <1>1, <2>1, <2>2, ReadKeepsTree
  <1>0. ASSUME NEW step \in {"select_keys", "select_roles", "select_users"}, NEW fields,
               At(a, step), Read(a, TRUE, fields), DOMAIN fields = Loads(step)
        PROVE  TreeInv'
    <2>1. "todo" \notin DOMAIN fields
      BY <1>0 DEF Loads
    <2>2. PICK allowed : allowed = TRUE
      OBVIOUS
    <2>3. Read(a, allowed, fields)
      BY <1>0, <2>2
    <2> QED
      BY <1>0, <1>1, <2>1, <2>3
  <1>2. CASE require_org_node(a) \/ require_roles(a) \/ select_links(a) \/ select_direct_users(a)
    <2>1. DOMAIN Nothing = {}
      BY DEF Nothing
    <2>2. ASSUME NEW step \in {"require_org_node", "require_roles", "select_links", "select_direct_users"},
                 NEW allowed, At(a, step), Read(a, allowed, Nothing)
          PROVE  TreeInv'
      BY <1>1, <2>1, <2>2
    <2>3. CASE require_org_node(a)
      BY <2>2, <2>3 DEF require_org_node
    <2>4. CASE require_roles(a)
      <3>1. Read(a, TRUE, Nothing) \/ Read(a, FALSE, Nothing)
        BY <2>4 DEF require_roles, Read
      <3> QED
        BY <2>2, <2>4, <3>1 DEF require_roles
    <2>5. CASE select_links(a)
      BY <2>2, <2>5 DEF select_links
    <2>6. CASE select_direct_users(a)
      <3>1. Read(a, TRUE, Nothing) \/ Read(a, FALSE, Nothing)
        BY <2>6 DEF select_direct_users, Read
      <3> QED
        BY <2>2, <2>6, <3>1 DEF select_direct_users
    <2> QED
      BY <1>2, <2>3, <2>4, <2>5, <2>6
  <1>3. CASE select_user(a) \/ select_key(a) \/ select_role(a)
    <2>1. ASSUME NEW step \in {"select_user", "select_key", "select_role"}, NEW allowed, NEW r,
                 At(a, step), Read(a, allowed, [row |-> r])
          PROVE  TreeInv'
      <3>1. Loads(step) = {"row"}
        BY DEF Loads
      <3> QED
        BY <1>1, <2>1, <3>1
    <2> QED
      BY <1>3, <2>1 DEF select_user, select_key, select_role
  <1>4. CASE select_keys(a)
    <2>1. PICK r : At(a, "select_keys") /\ Read(a, TRUE, [keys |-> r])
      BY <1>4 DEF select_keys
    <2> DEFINE fields == [keys |-> r]
    <2>2. DOMAIN fields = Loads("select_keys") /\ Read(a, TRUE, fields)
      BY <2>1 DEF Loads
    <2> HIDE DEF fields
    <2> QED
      BY <1>0, <2>1, <2>2
  <1>5. CASE select_roles(a)
    <2> DEFINE fields == [roles |-> db.roles]
    <2>1. /\ DOMAIN fields = Loads("select_roles")
          /\ At(a, "select_roles") /\ Read(a, TRUE, fields)
      BY <1>5 DEF Loads, select_roles
    <2> HIDE DEF fields
    <2> QED
      BY <1>0, <2>1
  <1>6. CASE select_users(a)
    <2> DEFINE fields == [users |-> db.users]
    <2>1. /\ DOMAIN fields = Loads("select_users")
          /\ At(a, "select_users") /\ Read(a, TRUE, fields)
      BY <1>6 DEF Loads, select_users
    <2> HIDE DEF fields
    <2> QED
      BY <1>0, <2>1
  <1> QED
    BY <1>2, <1>3, <1>4, <1>5, <1>6

\* A request that goes on from a step.
LEMMA AfterStep ==
    ASSUME DirectoryInv, NEW a \in Admin, NEW step \in StepNames, At(a, step), step # "write",
           NEW t, t.todo = Tail(sess[a].todo)
    PROVE  /\ ~Done(sess[a], step)
           /\ \A y \in StepNames \ {step} : Done(t, y) <=> Done(sess[a], y)
  <1> DEFINE s == sess[a]
  <1>1. /\ s.todo \in Seq(StepNames) \ {<<>>} /\ Head(s.todo) = step
        /\ \A y \in StepNames \ {step} : y \notin Range(Tail(s.todo)) => Done(s, y)
    BY AtIs DEF InProgress, At
  <1>2. step \in Range(s.todo) /\ Range(Tail(s.todo)) \subseteq Range(s.todo)
    BY <1>1, RangeOfTail
  <1> QED
    BY <1>1, <1>2 DEF Done

\* What a request holds after its steps.
LEMMA Holds ==
    ASSUME DirectoryInv, NEW a \in Admin, NEW step \in StepNames, At(a, step), sess[a].op \in NodeOps
    PROVE  LET s == sess[a] IN
           /\ s.op \in Takers(step) /\ {"op", "todo", "overtaken", "keysBefore"} \subseteq DOMAIN s
           /\ s.op \in {"update_org_node", "delete_org_node"} => "node" \in DOMAIN s
           /\ s.op \in {"create_org_node", "update_org_node"} => {"name", "org"} \subseteq DOMAIN s
           /\ s.op = "update_org_node" =>
                 /\ Done(s, "select_node") => "row" \in DOMAIN s /\ s.row \in NodeRow(IdsIn(db))
                 /\ step \in {"select_parent", "walk", "select_descendants"} => Done(s, "select_node")
                 /\ step \in {"walk", "select_descendants"} => Done(s, "select_parent")
           /\ s.op \in {"create_org_node", "update_org_node"} /\ Done(s, "select_parent") => "parent" \in DOMAIN s
  <1>1. InProgress(db, past, sess[a]) /\ sess[a].op \in Takers(step) /\ Head(sess[a].todo) = step
    BY AtIs DEF At
  <1>2. sess[a].op = "update_org_node" =>
          /\ step \in {"select_parent", "walk", "select_descendants"} => Done(sess[a], "select_node")
          /\ step \in {"walk", "select_descendants"} => Done(sess[a], "select_parent")
    BY <1>1, UpdateOrder DEF InProgress
  <1> QED
    BY <1>1, <1>2 DEF InProgress, AskedOK, Found, StepNames

LEMMA SelectNodeKeepsTree ==
    ASSUME DirectoryInv, TreeInv, NEW a \in Admin, select_node(a)
    PROVE  TreeInv'
  <1> DEFINE s == sess[a]
             row == db.nodes[s.node]
             kept == s.op = "update_org_node" /\ s.name \in {row.name, Keep} /\ s.org \in {Null, Keep}
             allowed == s.node \in DOMAIN db.nodes /\ (row.path = <<>> => kept)
             fields == [row |-> row]
  <1>1. /\ At(a, "select_node") /\ Read(a, allowed, fields)
        /\ DOMAIN fields = {"row"} /\ Loads("select_node") = {"row"}
        /\ "select_node" \in StepNames /\ "select_node" # "write"
    BY DEF select_node, StepNames, Loads
  <1>2. ASSUME allowed, s.op \in NodeOps, UpToDate(db.nodes, s), NEW t, GoesOn(t, s, fields), t.op = s.op
        PROVE  Current(db.nodes, t, "select_node") /\ Walking(db.nodes, t) /\ BelowIs(db.nodes, t)
    <2>1. "row" \in DOMAIN t /\ t.row = row /\ t.todo = Tail(s.todo)
      BY <1>2 DEF GoesOn
    <2>2. ~Done(s, "select_node") /\ \A y \in StepNames \ {"select_node"} : Done(t, y) <=> Done(s, y)
      BY <1>1, <2>1, AfterStep
    <2>3. s.op \in {"update_org_node", "delete_org_node"} /\ "node" \in DOMAIN s
      BY <1>1, <1>2, Holds DEF Takers
    <2>4. t.node = s.node
      BY <1>2, <2>3 DEF GoesOn
    <2>5. s.op = "update_org_node" => ~Done(s, "select_parent") /\ "below" \notin DOMAIN s
      BY <1>2, <2>2 DEF UpToDate, Ordered, BelowIs
    <2>6. "below" \in DOMAIN t => "below" \in DOMAIN s
      BY <1>2 DEF GoesOn
    <2>7. Current(db.nodes, t, "select_node")
      BY <1>2, <2>1, <2>4 DEF Current
    <2>8. Walking(db.nodes, t)
      BY <1>2, <2>2, <2>5 DEF Walking, StepNames
    <2>9. BelowIs(db.nodes, t)
      BY <1>2, <2>5, <2>6 DEF BelowIs
    <2> QED
      BY <2>7, <2>8, <2>9
  <1> HIDE DEF fields, allowed
  <1> QED
    BY <1>1, <1>2, ReadKeepsTree

LEMMA SelectChildrenKeepsTree ==
    ASSUME DirectoryInv, TreeInv, NEW a \in Admin, select_children(a) \/ select_nodes(a)
    PROVE  TreeInv'
  <1> DEFINE s == sess[a]
  <1>1. CASE select_children(a)
    <2> DEFINE allowed == \A n \in DOMAIN db.nodes : db.nodes[n].parent # s.node
    <2>1. /\ At(a, "select_children") /\ Read(a, allowed, Nothing) /\ DOMAIN Nothing = {}
          /\ "select_children" \in StepNames /\ "select_children" # "write"
      BY <1>1 DEF select_children, StepNames, Nothing
    <2>2. ASSUME allowed, s.op \in NodeOps, UpToDate(db.nodes, s), NEW t, GoesOn(t, s, Nothing), t.op = s.op
          PROVE  Current(db.nodes, t, "select_children")
      <3>1. s.op = "delete_org_node" => t.node = s.node
        BY <2>1, <2>2, Holds DEF GoesOn
      <3> QED
        BY <2>2, <3>1 DEF Current
    <2> HIDE DEF allowed
    <2> QED
      BY <2>1, <2>2, ReadKeepsTree
  <1>2. CASE select_nodes(a)
    <2> DEFINE fields == [nodes |-> db.nodes]
    <2>1. /\ At(a, "select_nodes") /\ Read(a, TRUE, fields)
          /\ DOMAIN fields = {"nodes"} /\ Loads("select_nodes") = {"nodes"}
          /\ "select_nodes" \in StepNames /\ "select_nodes" # "write"
      BY <1>2 DEF select_nodes, StepNames, Loads
    <2>2. ASSUME NEW t, GoesOn(t, s, fields) PROVE Current(db.nodes, t, "select_nodes")
      BY <2>2 DEF Current, GoesOn
    <2> HIDE DEF fields
    <2> QED
      BY <2>1, <2>2, ReadKeepsTree
  <1> QED
    BY <1>1, <1>2

LEMMA SelectParentKeepsTree ==
    ASSUME DirectoryInv, TreeInv, NEW a \in Admin, select_parent(a)
    PROVE  TreeInv'
  <1> DEFINE s == sess[a]
             root == NodeAt(db, <<>>)
             parent == IF NeedsRoot(s) THEN [n \in root |-> db.nodes[n]] ELSE Get(ParentId(s))
             fields == [parent |-> parent, at |-> DOMAIN parent]
             last == fields ++ [todo |-> <<"write">>]
  <1>1. /\ At(a, "select_parent") /\ Loads("select_parent") = {"parent", "at", "todo"}
        /\ (NeedsRoot(s) /\ root = {} /\ Read(a, TRUE, last)) \/ Read(a, TRUE, fields)
        /\ "select_parent" \in StepNames /\ "select_parent" # "write"
    BY DEF select_parent, StepNames, Loads
  <1>2. /\ DOMAIN fields = {"parent", "at"} /\ fields.parent = parent /\ fields.at = DOMAIN parent
        /\ DOMAIN last = {"parent", "at", "todo"} /\ last.parent = parent /\ last.at = DOMAIN parent
        /\ last.todo = <<"write">>
    BY DEF ++
  <1>3. /\ DOMAIN parent = IF NeedsRoot(s) THEN {n \in DOMAIN db.nodes : db.nodes[n].path = <<>>}
                           ELSE {ParentId(s)} \cap DOMAIN db.nodes
        /\ \A n \in DOMAIN parent : parent[n] = db.nodes[n]
        /\ NeedsRoot(s) /\ root = {} => DOMAIN parent = {}
    BY DEF NodeAt, Get
  <1> HIDE DEF parent, fields, last
  <1>4. ASSUME s.op \in NodeOps, UpToDate(db.nodes, s), NEW t, t.op = s.op,
               {"parent", "at"} \subseteq DOMAIN t, t.parent = parent, t.at = DOMAIN parent,
               t.todo \in {Tail(s.todo), <<"write">>}, "below" \in DOMAIN t => "below" \in DOMAIN s,
               \A f \in {"org", "row", "below"} \cap DOMAIN s : t[f] = s[f]
        PROVE  Current(db.nodes, t, "select_parent") /\ Walking(db.nodes, t) /\ BelowIs(db.nodes, t)
    <2>1. /\ s.op \in {"create_org_node", "update_org_node"} /\ "org" \in DOMAIN s
          /\ s.op = "update_org_node" => Done(s, "select_node") /\ "row" \in DOMAIN s
      BY <1>1, <1>4, Holds DEF Takers
    <2>2. t.org = s.org /\ (s.op = "update_org_node" => t.row = s.row)
      BY <1>4, <2>1
    <2>3. NeedsRoot(t) = NeedsRoot(s) /\ ParentId(t) = ParentId(s)
      BY <1>4, <2>1, <2>2 DEF NeedsRoot, ParentId
    <2>4. Current(db.nodes, t, "select_parent")
      BY <1>3, <1>4, <2>3 DEF Current
    <2>5. Walking(db.nodes, t)
      BY <1>4 DEF Walking, Loop
    <2>6. s.op = "update_org_node" => Done(t, "select_node")
      <3>1. CASE t.todo = Tail(s.todo)
        BY <1>1, <2>1, <3>1, AfterStep DEF StepNames
      <3>2. CASE t.todo = <<"write">>
        BY <3>2 DEF Done, Range
      <3> QED
        BY <1>4, <3>1, <3>2
    <2>7. BelowIs(db.nodes, t)
      BY <1>4, <2>1, <2>2, <2>6, BelowStays DEF UpToDate
    <2> QED
      BY <2>4, <2>5, <2>7
  <1>5. CASE Read(a, TRUE, fields)
    <2>1. ASSUME s.op \in NodeOps, UpToDate(db.nodes, s), NEW t, GoesOn(t, s, fields), t.op = s.op
          PROVE  Current(db.nodes, t, "select_parent") /\ Walking(db.nodes, t) /\ BelowIs(db.nodes, t)
      <3>1. /\ {"parent", "at"} \subseteq DOMAIN t /\ t.parent = parent /\ t.at = DOMAIN parent
            /\ t.todo = Tail(s.todo) /\ ("below" \in DOMAIN t => "below" \in DOMAIN s)
            /\ \A f \in {"org", "row", "below"} \cap DOMAIN s : t[f] = s[f]
        BY <1>2, <2>1 DEF GoesOn
      <3> QED
        BY <1>4, <2>1, <3>1
    <2> QED
      BY <1>1, <1>2, <1>5, <2>1, ReadKeepsTree
  <1>6. CASE NeedsRoot(s) /\ root = {} /\ Read(a, TRUE, last)
    <2>1. ASSUME s.op \in NodeOps, UpToDate(db.nodes, s), NEW t, GoesOn(t, s, last), t.op = s.op
          PROVE  Current(db.nodes, t, "select_parent") /\ Walking(db.nodes, t) /\ BelowIs(db.nodes, t)
      <3>1. /\ {"parent", "at"} \subseteq DOMAIN t /\ t.parent = parent /\ t.at = DOMAIN parent
            /\ t.todo = <<"write">> /\ ("below" \in DOMAIN t => "below" \in DOMAIN s)
            /\ \A f \in {"org", "row", "below"} \cap DOMAIN s : t[f] = s[f]
        BY <1>2, <2>1 DEF GoesOn
      <3> QED
        BY <1>4, <2>1, <3>1
    <2> QED
      BY <1>1, <1>2, <1>3, <1>6, <2>1, ReadKeepsTree
  <1> QED
    BY <1>1, <1>5, <1>6

LEMMA WalkKeepsTree ==
    ASSUME DirectoryInv, TreeInv, NEW a \in Admin, walk(a)
    PROVE  TreeInv'
  <1> DEFINE s == sess[a]
             nodes == db.nodes
             object == [n \in s.at |-> IF n \in DOMAIN s.parent THEN s.parent[n] ELSE nodes[n]]
             known == {n \in s.at : n \in DOMAIN s.parent \cup DOMAIN nodes}
             up == {object[n].parent : n \in known} \ {Null}
             fields == [at |-> up, todo |-> s.todo]
             allowed == s.node \notin s.at
  <1>1. /\ At(a, "walk") /\ "walk" \in StepNames /\ "walk" # "write" /\ Loads("walk") = {"at", "todo"}
        /\ \/ (up = {} \/ s.node \in s.at) /\ Read(a, allowed, Nothing)
           \/ s.node \notin s.at /\ Read(a, TRUE, fields)
        /\ DOMAIN Nothing = {} /\ DOMAIN fields = {"at", "todo"} /\ fields.todo = s.todo /\ fields.at = up
    BY DEF walk, StepNames, Loads, Nothing
  <1> HIDE DEF fields, allowed
  <1>2. ASSUME s.op \in NodeOps, UpToDate(nodes, s)
        PROVE  /\ s.op = "update_org_node" /\ {"op", "node", "row", "parent", "at"} \subseteq DOMAIN s
               /\ Done(s, "select_node") /\ Done(s, "select_parent")
               /\ \A n \in DOMAIN s.parent : n \in DOMAIN nodes /\ s.parent[n] = nodes[n]
               /\ \A S \in SUBSET DOMAIN nodes : Loop(nodes, s, S) => s.at \cap S # {}
    <2>1. /\ s.op = "update_org_node" /\ {"op", "node", "row", "parent"} \subseteq DOMAIN s
          /\ Done(s, "select_node") /\ Done(s, "select_parent")
      BY <1>1, <1>2, Holds DEF Takers
    <2>2. /\ DOMAIN s.parent = IF NeedsRoot(s) THEN {n \in DOMAIN nodes : nodes[n].path = <<>>}
                               ELSE {ParentId(s)} \cap DOMAIN nodes
          /\ \A n \in DOMAIN s.parent : s.parent[n] = nodes[n]
      BY <1>2, <2>1 DEF UpToDate, Current, StepNames
    <2>3. /\ "at" \in DOMAIN s
          /\ \A S \in SUBSET DOMAIN nodes : Loop(nodes, s, S) => s.at \cap S # {}
      BY <1>2, <2>1 DEF UpToDate, Walking
    <2> QED
      BY <2>1, <2>2, <2>3
  <1>3. ASSUME s.op \in NodeOps, UpToDate(nodes, s), s.node \notin s.at,
               NEW S \in SUBSET DOMAIN nodes, Loop(nodes, s, S)
        PROVE  up \cap S # {}
    <2>1. PICK m \in s.at \cap S : TRUE
      BY <1>2, <1>3
    <2>2. ParentOf(nodes, m) \cap S # {}
      BY <1>3, <2>1 DEF Loop
    <2>3. m \in known /\ object[m] = nodes[m]
      BY <1>2, <1>3, <2>1
    <2>4. Null \notin DOMAIN nodes
      BY DEF DirectoryInv, TablesOK, TablesTyped, RowsTyped, RowIds, IdsIn, Null
    <2> HIDE DEF object, known
    <2>5. object[m].parent \in S \ {Null} /\ object[m].parent \in {object[n].parent : n \in known}
      BY <2>2, <2>3, <2>4 DEF ParentOf
    <2> QED
      BY <2>5
  <1> HIDE DEF up
  <1>4. ASSUME s.op \in NodeOps, UpToDate(nodes, s), NEW t, t.op = s.op,
               t.parent = s.parent /\ t.node = s.node,
               "below" \in DOMAIN t => "below" \in DOMAIN s /\ t.below = s.below,
               Done(s, "select_node") => Done(t, "select_node"), t.row = s.row
        PROVE  BelowIs(nodes, t)
    BY <1>2, <1>4, BelowStays DEF UpToDate
  <1>5. CASE (up = {} \/ s.node \in s.at) /\ Read(a, allowed, Nothing)
    <2>1. ASSUME allowed, s.op \in NodeOps, UpToDate(nodes, s), NEW t, GoesOn(t, s, Nothing), t.op = s.op
          PROVE  Current(nodes, t, "walk") /\ Walking(nodes, t) /\ BelowIs(nodes, t)
      <3>1. /\ t.todo = Tail(s.todo) /\ DOMAIN t = DOMAIN s
            /\ \A f \in DOMAIN s \ {"todo"} : t[f] = s[f]
        BY <1>1, <2>1 DEF GoesOn
      <3>2. \A y \in StepNames \ {"walk"} : Done(t, y) <=> Done(s, y)
        BY <1>1, <3>1, AfterStep
      <3>3. /\ t.parent = s.parent /\ t.node = s.node /\ t.at = s.at /\ t.row = s.row
            /\ "below" \in DOMAIN t => "below" \in DOMAIN s /\ t.below = s.below
        BY <1>2, <2>1, <3>1
      <3>4. \A S : Loop(nodes, t, S) <=> Loop(nodes, s, S)
        BY <3>3 DEF Loop
      <3>5. \A S \in SUBSET DOMAIN nodes : ~Loop(nodes, s, S)
        BY <1>3, <1>5, <2>1 DEF allowed
      <3>6. Current(nodes, t, "walk") /\ Walking(nodes, t)
        BY <1>2, <2>1, <3>1, <3>4, <3>5 DEF Current, Walking
      <3> QED
        BY <1>4, <2>1, <3>2, <3>3, <3>6 DEF StepNames
    <2> QED
      BY <1>1, <1>5, <2>1, ReadKeepsTree
  <1>6. CASE s.node \notin s.at /\ Read(a, TRUE, fields)
    <2>1. ASSUME s.op \in NodeOps, UpToDate(nodes, s), NEW t, GoesOn(t, s, fields), t.op = s.op
          PROVE  /\ Done(t, "walk") => Current(nodes, t, "walk")
                 /\ Walking(nodes, t) /\ BelowIs(nodes, t)
      <3>1. /\ t.todo = s.todo /\ DOMAIN t = DOMAIN s \cup {"at", "todo"} /\ t.at = up
            /\ \A f \in DOMAIN s \ {"at", "todo"} : t[f] = s[f]
        BY <1>1, <2>1 DEF GoesOn
      <3>2. \A y : Done(t, y) <=> Done(s, y)
        BY <3>1 DEF Done
      <3>3. ~Done(s, "walk")
        <4>1. Tail(s.todo) = [todo |-> Tail(s.todo)].todo
          OBVIOUS
        <4> QED
          BY ONLY <1>1, <4>1, DirectoryInv, a \in Admin, AfterStep
      <3>4. /\ t.parent = s.parent /\ t.node = s.node /\ t.row = s.row
            /\ "below" \in DOMAIN t => "below" \in DOMAIN s /\ t.below = s.below
        BY <1>2, <2>1, <3>1
      <3>5. \A S : Loop(nodes, t, S) <=> Loop(nodes, s, S)
        BY <3>4 DEF Loop
      <3>6. Walking(nodes, t)
        BY <1>3, <1>6, <2>1, <3>1, <3>5 DEF Walking
      <3>7. BelowIs(nodes, t)
        BY <1>4, <2>1, <3>2, <3>4
      <3> QED
        BY <3>2, <3>3, <3>6, <3>7
    <2> QED
      BY <1>1, <1>6, <2>1, ReadKeepsTree
  <1> QED
    BY <1>1, <1>5, <1>6

LEMMA SelectDescendantsKeepsTree ==
    ASSUME DirectoryInv, TreeInv, NEW a \in Admin, select_descendants(a)
    PROVE  TreeInv'
  <1> DEFINE s == sess[a]
             nodes == db.nodes
             below == [n \in Below(nodes, s.row.path) |->
                          IF n \in DOMAIN s.parent THEN s.parent[n] ELSE nodes[n]]
             fields == [below |-> below]
  <1>1. /\ At(a, "select_descendants") /\ Read(a, TRUE, fields)
        /\ DOMAIN fields = {"below"} /\ fields.below = below /\ Loads("select_descendants") = {"below"}
        /\ "select_descendants" \in StepNames /\ "select_descendants" # "write"
    BY DEF select_descendants, StepNames, Loads
  <1> HIDE DEF fields
  <1>2. ASSUME s.op \in NodeOps, UpToDate(nodes, s), NEW t, GoesOn(t, s, fields), t.op = s.op
        PROVE  Current(nodes, t, "select_descendants") /\ Walking(nodes, t) /\ BelowIs(nodes, t)
    <2>1. /\ s.op = "update_org_node" /\ {"op", "node", "row", "parent"} \subseteq DOMAIN s
          /\ Done(s, "select_node") /\ Done(s, "select_parent")
      BY <1>1, <1>2, Holds DEF Takers
    <2>2. \A n \in DOMAIN s.parent : s.parent[n] = nodes[n]
      BY <1>2, <2>1 DEF UpToDate, Current, StepNames
    <2>3. /\ "below" \in DOMAIN t /\ t.below = below /\ t.todo = Tail(s.todo)
          /\ DOMAIN s \subseteq DOMAIN t /\ \A f \in DOMAIN s \ {"below", "todo"} : t[f] = s[f]
      BY <1>1, <1>2 DEF GoesOn
    <2>4. \A y \in StepNames \ {"select_descendants"} : Done(t, y) <=> Done(s, y)
      BY <1>1, <2>3, AfterStep
    <2>5. below = [n \in Below(nodes, s.row.path) |-> nodes[n]]
      BY <2>2
    <2>6. BelowIs(nodes, t)
      BY <2>1, <2>3, <2>4, <2>5 DEF BelowIs, StepNames
    <2>7. Walking(nodes, t)
      BY <1>2, <2>1, <2>3, WalkingStays DEF UpToDate
    <2> QED
      BY <2>6, <2>7 DEF Current
  <1> QED
    BY <1>1, <1>2, ReadKeepsTree

LEMMA ReadsKeepTree ==
    ASSUME DirectoryInv, TreeInv, NEW a \in Admin, Reads(a)
    PROVE  TreeInv'
  BY OtherReadsKeepTree, SelectNodeKeepsTree, SelectChildrenKeepsTree, SelectParentKeepsTree,
     WalkKeepsTree, SelectDescendantsKeepsTree DEF Reads

-----------------------------------------------------------------------------
(* The beginning of a request, and commits. *)

\* A request on nodes knows nothing of them when it begins.
LEMMA BeginsUpToDate ==
    ASSUME NEW nodes, NEW t, t.todo = Steps(t.op), "below" \notin DOMAIN t
    PROVE  UpToDate(nodes, t)
  <1>1. t.op = "update_org_node" => {"select_node", "select_parent", "walk"} \subseteq Range(Steps(t.op))
    <2>1. Steps("update_org_node") = <<"require_org_node", "select_node", "select_parent",
                                       "walk", "select_descendants", "write">>
      BY DEF Steps
    <2>2. /\ Steps("update_org_node")[2] = "select_node" /\ 2 \in DOMAIN Steps("update_org_node")
          /\ Steps("update_org_node")[3] = "select_parent" /\ 3 \in DOMAIN Steps("update_org_node")
          /\ Steps("update_org_node")[4] = "walk" /\ 4 \in DOMAIN Steps("update_org_node")
      BY <2>1
    <2> QED
      BY <2>2 DEF Range
  <1>2. t.op = "create_org_node" => "select_parent" \in Range(Steps(t.op))
    <2>1. Steps("create_org_node") = <<"require_org_node", "select_parent", "write">>
      BY DEF Steps
    <2>2. Steps("create_org_node")[2] = "select_parent" /\ 2 \in DOMAIN Steps("create_org_node")
      BY <2>1
    <2> QED
      BY <2>2 DEF Range
  <1>3. t.op = "delete_org_node" => "select_children" \in Range(Steps(t.op))
    <2>1. Steps("delete_org_node") = <<"select_node", "select_children", "select_direct_users", "write">>
      BY DEF Steps
    <2>2. Steps("delete_org_node")[2] = "select_children" /\ 2 \in DOMAIN Steps("delete_org_node")
      BY <2>1
    <2> QED
      BY <2>2 DEF Range
  <1>4. t.op = "import" => "select_nodes" \in Range(Steps(t.op))
    <2>1. Steps("import") = <<"select_nodes", "select_roles", "select_users", "write">>
      BY DEF Steps
    <2>2. Steps("import")[1] = "select_nodes" /\ 1 \in DOMAIN Steps("import")
      BY <2>1
    <2> QED
      BY <2>2 DEF Range
  <1>5. ASSUME NEW step \in StepNames, Done(t, step) PROVE Current(nodes, t, step)
    BY <1>1, <1>2, <1>3, <1>4, <1>5 DEF Current, Done
  <1>6. Walking(nodes, t) /\ BelowIs(nodes, t) /\ Ordered(t)
    BY <1>1 DEF Walking, BelowIs, Ordered, Done
  <1> QED
    BY <1>5, <1>6 DEF UpToDate

LEMMA BeginKeepsTree ==
    ASSUME DirectoryInv, TreeInv, NEW a \in Admin, Begin(a)
    PROVE  TreeInv'
  <1>1. PICK r \in Requests :
          sess' = [sess EXCEPT ![a] =
                [ todo |-> Steps(r.op), overtaken |-> FALSE,
                  keysBefore |-> IF r.op = "reset_user_key" THEN RuntimeKeys(db, r.user) ELSE {} ] ++ r]
    BY DEF Begin
  <1> DEFINE before == IF r.op = "reset_user_key" THEN RuntimeKeys(db, r.user) ELSE {}
             t == [todo |-> Steps(r.op), overtaken |-> FALSE, keysBefore |-> before] ++ r
  <1>2. db' = db /\ past' = past /\ sess' = [sess EXCEPT ![a] = t] /\ DOMAIN sess = Admin
    BY <1>1 DEF Begin, DirectoryInv
  <1>3. RequestIs(r)
    BY RequestsAre
  <1>4. DOMAIN t = {"todo", "overtaken", "keysBefore"} \cup DOMAIN r /\ t.op = r.op /\ t.todo = Steps(r.op)
    BY <1>3 DEF RequestIs, ++
  <1> HIDE DEF t
  <1>5. "below" \notin DOMAIN t
    BY <1>3, <1>4 DEF RequestIs
  <1>6. UpToDate(db.nodes, t)
    BY <1>4, <1>5, BeginsUpToDate
  <1> QED
    BY <1>2, <1>6 DEF TreeInv

LEMMA OvertakenUpToDate ==
    ASSUME NEW nodes, NEW s, {"op", "todo"} \subseteq DOMAIN s, UpToDate(nodes, s),
           NEW t, t = [s EXCEPT !.overtaken = TRUE],
           s.op = "update_org_node" => {"node", "org", "name"} \subseteq DOMAIN s,
           s.op = "update_org_node" /\ Done(s, "select_node") => "row" \in DOMAIN s,
           s.op = "create_org_node" => "org" \in DOMAIN s,
           s.op = "delete_org_node" => "node" \in DOMAIN s,
           s.op \in {"create_org_node", "update_org_node"} /\ Done(s, "select_parent") => "parent" \in DOMAIN s,
           s.op = "import" /\ Done(s, "select_nodes") => "nodes" \in DOMAIN s
    PROVE  UpToDate(nodes, t)
  <1>1. DOMAIN t = DOMAIN s /\ \A f \in DOMAIN s \ {"overtaken"} : t[f] = s[f]
    OBVIOUS
  <1>2. /\ t.op = s.op /\ t.todo = s.todo
        /\ \A f \in {"node", "org", "name", "row", "parent", "nodes", "at", "below"} \cap DOMAIN s : t[f] = s[f]
    BY <1>1
  <1>3. \A y : Done(t, y) <=> Done(s, y)
    BY <1>2 DEF Done
  <1>4. Ordered(s) /\ Ordered(t) /\ Walking(nodes, t) /\ BelowIs(nodes, t)
    <2>1. Ordered(s) /\ Ordered(t)
      BY <1>2, <1>3 DEF Ordered, UpToDate
    <2>2. Walking(nodes, t)
      BY <1>1, <1>2, <1>3, WalkingStays DEF UpToDate
    <2>3. BelowIs(nodes, t)
      BY <1>1, <1>2, <1>3, BelowStays DEF UpToDate
    <2> QED
      BY <2>1, <2>2, <2>3
  <1>5. ASSUME NEW y \in StepNames, Done(t, y) PROVE Current(nodes, t, y)
    <2>1. Current(nodes, s, y) /\ Done(s, y)
      BY <1>3, <1>5 DEF UpToDate
    <2>2. CASE y = "select_node"
      BY <1>2, <2>1, <2>2 DEF Current
    <2>3. CASE y = "select_parent"
      <3>1. s.op = "update_org_node" => t.row = s.row
        BY <1>2, <1>4, <2>1, <2>3 DEF Ordered
      <3>2. s.op \in {"create_org_node", "update_org_node"} => t.org = s.org /\ t.parent = s.parent
        BY <1>2, <2>1, <2>3
      <3>3. s.op \in {"create_org_node", "update_org_node"} => NeedsRoot(t) = NeedsRoot(s) /\ ParentId(t) = ParentId(s)
        BY <1>2, <3>1, <3>2 DEF NeedsRoot, ParentId
      <3> QED
        BY <1>2, <2>1, <2>3, <3>2, <3>3 DEF Current
    <2>4. CASE y = "walk"
      <3>1. s.op = "update_org_node" => t.parent = s.parent /\ t.node = s.node
        BY <1>2, <1>4, <2>1, <2>4 DEF Ordered
      <3> QED
        BY <1>2, <2>1, <2>4, <3>1 DEF Current, Loop
    <2>5. CASE y \in {"select_children", "select_nodes"}
      BY <1>2, <2>1, <2>5 DEF Current
    <2>6. CASE y \notin {"select_node", "select_parent", "walk", "select_children", "select_nodes"}
      BY <2>6 DEF Current
    <2> QED
      BY <2>2, <2>3, <2>4, <2>5, <2>6
  <1> QED
    BY <1>4, <1>5 DEF UpToDate

LEMMA MoreUpset ==
    ASSUME NEW nodes, NEW u, NEW v, u \subseteq v, Sound(nodes, u)
    PROVE  Sound(nodes, v)
  BY DEF Sound

\* What the commit of a adds to what happened to the tree.
LEMMA UpsetIs ==
    ASSUME NEW a, NEW new
    PROVE  LET u == Noted(a, new).upset IN
           /\ past.upset \subseteq u
           /\ "overlap" \notin u /\ new.nodes # db.nodes => \A b \in Others(a) : sess[b].op \notin NodeOps
           /\ "root_edited" \notin u => \A n \in Moved(new) : db.nodes[n].path # <<>>
           /\ "alike" \notin u /\ sess[a].op = "update_org_node" =>
                 \A n \in Moved(new) \ {sess[a].node} : IsPrefix(sess[a].row.path, db.nodes[n].path)
  <1>1. Noted(a, new).upset = past.upset
          \cup {c \in {"overlap"} : new.nodes # db.nodes /\ \E b \in Others(a) : sess[b].op \in NodeOps}
          \cup {c \in {"root_edited"} : \E n \in Moved(new) : db.nodes[n].path = <<>>}
          \cup {c \in {"alike"} : sess[a].op = "update_org_node" /\ \E n \in Moved(new) \ {sess[a].node} :
                                    ~IsPrefix(sess[a].row.path, db.nodes[n].path)}
    BY DEF Noted
  <1> QED
    BY <1>1

\* A commit keeps the invariant if it leaves a sound tree.
LEMMA CommitKeepsTree ==
    ASSUME DirectoryInv, TreeInv, NEW a \in Admin, NEW new, Commit(a, new),
           Sound(new.nodes, Noted(a, new).upset)
    PROVE  TreeInv'
  <1> DEFINE q == Noted(a, new)
  <1>1. /\ past.upset \subseteq q.upset
        /\ "overlap" \notin q.upset /\ new.nodes # db.nodes => \A b \in Others(a) : sess[b].op \notin NodeOps
    BY UpsetIs
  <1>2. /\ db' = new /\ past' = q
        /\ sess' = [b \in Admin |-> IF b = a THEN NoRequest
                                     ELSE IF Busy(b) THEN [sess[b] EXCEPT !.overtaken = TRUE] ELSE sess[b]]
    BY DEF Commit
  <1>0. Sound(new.nodes, q.upset)
    OBVIOUS
  <1> HIDE DEF q
  <1>3. ASSUME "overlap" \notin q.upset, NEW b \in Admin, sess'[b].op \in NodeOps
        PROVE  UpToDate(new.nodes, sess'[b])
    <2>1. b # a
      BY <1>2, <1>3 DEF NoRequest, NodeOps
    <2>2. Busy(b)
      BY <1>2, <1>3, <2>1 DEF Busy, NodeOps
    <2>3. b \in Others(a) /\ InProgress(db, past, sess[b])
      BY <2>1, <2>2 DEF Others, Busy, DirectoryInv, NoRequest
    <2> DEFINE s == sess[b]
               t == [s EXCEPT !.overtaken = TRUE]
    <2>4. sess'[b] = t /\ {"op", "todo", "overtaken"} \subseteq DOMAIN s
      BY <1>2, <2>1, <2>2, <2>3 DEF InProgress
    <2>5. t.op = s.op
      BY <2>4
    <2>6. s.op \in NodeOps /\ new.nodes = db.nodes
      BY <1>1, <1>3, <2>3, <2>4, <2>5
    <2>7. UpToDate(db.nodes, s)
      BY <1>1, <1>3, <2>6 DEF TreeInv
    <2>8. UpToDate(db.nodes, t)
      <3> HIDE DEF t
      <3>1. t = [s EXCEPT !.overtaken = TRUE]
        BY DEF t
      <3> QED
        BY <2>3, <2>4, <2>7, <3>1, OvertakenUpToDate DEF InProgress, AskedOK, Found, StepNames
    <2> QED
      BY <2>4, <2>6, <2>8
  <1> QED
    BY <1>0, <1>2, <1>3 DEF TreeInv

LEMMA WriteKeepsTree ==
    ASSUME DirectoryInv, TreeInv, NEW a \in Admin, NEW stale, NEW new, Write(a, stale, new),
           ~stale /\ Unique(new) => Sound(new.nodes, Noted(a, new).upset)
    PROVE  TreeInv'
  <1>1. CASE Refuse(a)
    <2>1. /\ db' = db /\ past' = past /\ sess' = [sess EXCEPT ![a] = NoRequest] /\ DOMAIN sess = Admin
      BY <1>1 DEF Refuse, DirectoryInv
    <2> QED
      BY <2>1 DEF TreeInv, NodeOps, NoRequest
  <1>2. CASE ~stale /\ Unique(new) /\ Commit(a, new)
    BY <1>2, CommitKeepsTree
  <1> QED
    BY <1>1, <1>2 DEF Write

\* Writes to the other tables.
LEMMA NodesLeft ==
    ASSUME DirectoryInv, TreeInv, NEW a \in Admin, NEW stale, NEW new, Write(a, stale, new), new.nodes = db.nodes
    PROVE  TreeInv'
  <1>1. Sound(new.nodes, Noted(a, new).upset)
    BY UpsetIs, MoreUpset DEF TreeInv
  <1> QED
    BY <1>1, WriteKeepsTree

LEMMA OtherWritesKeepTree ==
    ASSUME DirectoryInv, TreeInv, NEW a \in Admin,
           \/ create_user(a) \/ update_user(a) \/ delete_user(a) \/ reset_runtime_key(a)
           \/ create_role(a) \/ update_role(a) \/ delete_role(a)
           \/ update_api_key(a) \/ revoke_api_key(a)
    PROVE  TreeInv'
  <1>1. ASSUME NEW x PROVE /\ [db EXCEPT !.keys = x].nodes = db.nodes /\ [db EXCEPT !.roles = x].nodes = db.nodes
    OBVIOUS
  <1>2. CASE create_user(a)
    <2>1. PICK x, y, z, n : Write(a, FALSE, [db EXCEPT !.users = x, !.links = y, !.keys = z, !.next = n])
      BY <1>2 DEF create_user, WithUser
    <2>2. [db EXCEPT !.users = x, !.links = y, !.keys = z, !.next = n].nodes = db.nodes
      OBVIOUS
    <2> QED
      BY <2>1, <2>2, NodesLeft
  <1>3. CASE update_user(a)
    <2>1. PICK stale, x, y : Write(a, stale, [db EXCEPT !.users = x, !.links = y])
      BY <1>3 DEF update_user
    <2>2. [db EXCEPT !.users = x, !.links = y].nodes = db.nodes
      OBVIOUS
    <2> QED
      BY <2>1, <2>2, NodesLeft
  <1>4. CASE delete_user(a)
    <2>1. PICK x, y, z : Write(a, FALSE, [db EXCEPT !.users = x, !.links = y, !.keys = z])
      BY <1>4 DEF delete_user
    <2>2. [db EXCEPT !.users = x, !.links = y, !.keys = z].nodes = db.nodes
      OBVIOUS
    <2> QED
      BY <2>1, <2>2, NodesLeft
  <1>5. CASE reset_runtime_key(a)
    <2>1. PICK stale, x, y : Write(a, stale, [db EXCEPT !.keys = x, !.next = y])
      BY <1>5 DEF reset_runtime_key
    <2>2. [db EXCEPT !.keys = x, !.next = y].nodes = db.nodes
      OBVIOUS
    <2> QED
      BY <2>1, <2>2, NodesLeft
  <1>6. CASE create_role(a)
    <2>1. PICK x, y : Write(a, FALSE, [db EXCEPT !.roles = x, !.next = y])
      BY <1>6 DEF create_role, WithRole
    <2>2. [db EXCEPT !.roles = x, !.next = y].nodes = db.nodes
      OBVIOUS
    <2> QED
      BY <2>1, <2>2, NodesLeft
  <1>7. CASE update_role(a)
    <2>1. PICK stale, new : Write(a, stale, new) /\ (new = db \/ \E x : new = [db EXCEPT !.roles = x])
      BY <1>7 DEF update_role
    <2>2. new.nodes = db.nodes
      BY <1>1, <2>1
    <2> QED
      BY <2>1, <2>2, NodesLeft
  <1>8. CASE delete_role(a)
    <2>1. PICK x : Write(a, FALSE, [db EXCEPT !.roles = x])
      BY <1>8 DEF delete_role
    <2> QED
      BY <1>1, <2>1, NodesLeft
  <1>9. CASE update_api_key(a) \/ revoke_api_key(a)
    <2>1. PICK stale, x : Write(a, stale, [db EXCEPT !.keys = x])
      BY <1>9 DEF update_api_key, revoke_api_key, EditKey
    <2> QED
      BY <1>1, <2>1, NodesLeft
  <1> QED
    BY <1>2, <1>3, <1>4, <1>5, <1>6, <1>7, <1>8, <1>9

-----------------------------------------------------------------------------
(* Trees that grow by a node, lose one, or have one moved. *)

\* The row has the path of a child of its parent, if that is there.
Fits(nodes, row) ==
    /\ \A p \in {row.parent} \cap DOMAIN nodes : row.path = OrgPath(row.name, nodes[p].path)
    /\ Len(row.path) > 1 => row.parent \in DOMAIN nodes

\* A node id with that row is added, which is no node's parent.
Grown(nodes, id, row, new) ==
    /\ id \notin DOMAIN nodes /\ DOMAIN new = DOMAIN nodes \cup {id}
    /\ \A n \in DOMAIN nodes : nodes[n].parent # id /\ new[n] = nodes[n]
    /\ new[id] = row /\ row.parent # id

LEMMA GrowSound ==
    ASSUME NEW nodes, NEW upset, Sound(nodes, upset), NEW id, NEW row, NEW new, Grown(nodes, id, row, new),
           upset = {} => Fits(nodes, row)
    PROVE  Sound(new, upset)
  <1>0. /\ id \notin DOMAIN nodes /\ DOMAIN new = DOMAIN nodes \cup {id}
        /\ \A n \in DOMAIN nodes : nodes[n].parent # id /\ new[n] = nodes[n]
        /\ new[id].parent # id
        /\ upset = {} => Fits(nodes, new[id])
    BY DEF Grown
  <1>1. /\ \A n \in DOMAIN nodes : ParentOf(new, n) = ParentOf(nodes, n)
        /\ ParentOf(new, id) = {new[id].parent} \cap DOMAIN nodes
    BY <1>0 DEF ParentOf
  <1>2. ASSUME Forest(nodes) PROVE Forest(new)
    <2>1. SUFFICES ASSUME NEW S \in (SUBSET DOMAIN new) \ {{}}
                   PROVE  \E n \in S : ParentOf(new, n) \cap S = {}
      BY DEF Forest
    <2>2. CASE S \ {id} = {}
      BY <1>0, <1>1, <2>2
    <2>3. CASE S \ {id} # {}
      <3>1. S \ {id} \in (SUBSET DOMAIN nodes) \ {{}}
        BY <1>0, <2>3
      <3>2. PICK n \in S \ {id} : ParentOf(nodes, n) \cap (S \ {id}) = {}
        BY <1>2, <3>1 DEF Forest
      <3> QED
        BY <1>0, <1>1, <3>1, <3>2 DEF ParentOf
    <2> QED
      BY <2>2, <2>3
  <1>3. ASSUME PathsFollow(nodes), NoOrphans(nodes), upset = {} PROVE PathsFollow(new) /\ NoOrphans(new)
    <2>1. PathsFollow(new)
      <3>1. SUFFICES ASSUME NEW n \in DOMAIN new, NEW p \in ParentOf(new, n)
                     PROVE  new[n].path = OrgPath(new[n].name, new[p].path)
        BY DEF PathsFollow
      <3>2. CASE n = id
        BY <1>0, <1>1, <1>3, <3>1, <3>2 DEF Fits
      <3>3. CASE n \in DOMAIN nodes
        BY <1>0, <1>1, <1>3, <3>1, <3>3 DEF PathsFollow, ParentOf
      <3> QED
        BY <1>0, <3>2, <3>3
    <2>2. NoOrphans(new)
      <3>1. SUFFICES ASSUME NEW n \in DOMAIN new, Len(new[n].path) > 1
                     PROVE  ParentOf(new, n) # {}
        BY DEF NoOrphans
      <3>2. CASE n = id
        BY <1>0, <1>1, <1>3, <3>1, <3>2 DEF Fits
      <3>3. CASE n \in DOMAIN nodes
        <4>1. new[n] = nodes[n] /\ ParentOf(new, n) = ParentOf(nodes, n)
          BY <1>0, <1>1, <3>3
        <4> QED
          BY <1>3, <3>1, <3>3, <4>1 DEF NoOrphans
      <3> QED
        BY <1>0, <3>2, <3>3
    <2> QED
      BY <2>1, <2>2
  <1> QED
    BY <1>2, <1>3 DEF Sound

LEMMA PruneSound ==
    ASSUME NEW nodes, NEW upset, Sound(nodes, upset), NEW id,
           upset = {} => \A n \in DOMAIN nodes : nodes[n].parent # id,
           NEW new, new = Without(nodes, {id})
    PROVE  Sound(new, upset)
  <1>1. DOMAIN new = DOMAIN nodes \ {id} /\ \A n \in DOMAIN new : new[n] = nodes[n]
    BY DEF Without
  <1>2. \A n \in DOMAIN new : ParentOf(new, n) = ParentOf(nodes, n) \ {id}
    BY <1>1 DEF ParentOf
  <1>3. ASSUME Forest(nodes) PROVE Forest(new)
    <2>1. SUFFICES ASSUME NEW S \in (SUBSET DOMAIN new) \ {{}}
                   PROVE  \E n \in S : ParentOf(new, n) \cap S = {}
      BY DEF Forest
    <2>2. S \in (SUBSET DOMAIN nodes) \ {{}}
      BY <1>1
    <2>3. PICK n \in S : ParentOf(nodes, n) \cap S = {}
      BY <1>3, <2>2 DEF Forest
    <2> QED
      BY <1>2, <2>3
  <1>4. ASSUME PathsFollow(nodes), NoOrphans(nodes), \A n \in DOMAIN nodes : nodes[n].parent # id
        PROVE  PathsFollow(new) /\ NoOrphans(new)
    <2>1. \A n \in DOMAIN new : ParentOf(new, n) = ParentOf(nodes, n)
      BY <1>1, <1>2, <1>4 DEF ParentOf
    <2>2. PathsFollow(new)
      <3>1. SUFFICES ASSUME NEW n \in DOMAIN new, NEW p \in ParentOf(new, n)
                     PROVE  new[n].path = OrgPath(new[n].name, new[p].path)
        BY DEF PathsFollow
      <3>2. p \in ParentOf(nodes, n) /\ p \in DOMAIN new
        BY <2>1, <3>1 DEF ParentOf
      <3> QED
        BY <1>1, <1>4, <3>1, <3>2 DEF PathsFollow
    <2>3. NoOrphans(new)
      BY <1>1, <1>4, <2>1 DEF NoOrphans
    <2> QED
      BY <2>2, <2>3
  <1> QED
    BY <1>3, <1>4 DEF Sound

\* There is no way up from the node q that does not come to an end or to p.
NoLoop(nodes, p, q) ==
    \A S \in SUBSET DOMAIN nodes : q \in S => \E n \in S \ {p} : ParentOf(nodes, n) \cap S = {}

LEMMA MoveForest ==
    ASSUME NEW nodes, Forest(nodes), NEW new, DOMAIN new = DOMAIN nodes, NEW p \in DOMAIN nodes,
           \A n \in DOMAIN nodes \ {p} : new[n].parent = nodes[n].parent,
           NoLoop(nodes, p, new[p].parent)
    PROVE  Forest(new)
  <1>1. SUFFICES ASSUME NEW S \in (SUBSET DOMAIN new) \ {{}}
                 PROVE  \E n \in S : ParentOf(new, n) \cap S = {}
    BY DEF Forest
  <1>2. \A n \in DOMAIN nodes \ {p} : ParentOf(new, n) = ParentOf(nodes, n)
    BY DEF ParentOf
  <1>3. CASE p \notin S
    BY <1>2, <1>3 DEF Forest
  <1>4. CASE p \in S /\ new[p].parent \notin S
    BY <1>4 DEF ParentOf
  <1>5. CASE new[p].parent \in S
    BY <1>2, <1>5 DEF NoLoop
  <1> QED
    BY <1>3, <1>4, <1>5

-----------------------------------------------------------------------------
(* Paths. *)

\* The path is longer than root and begins with it.
Under(path, root) == Len(path) > Len(root) /\ \A i \in 1..Len(root) : path[i] = root[i]

\* The path with the segments of new in place of those of root.
Swapped(path, root, new) == new \o SubSeq(path, Len(root) + 1, Len(path))

LEMMA UnderChild ==
    ASSUME NEW path \in Seq(Segment), NEW root \in Seq(Segment), NEW name \in Segment
    PROVE  Under(OrgPath(name, path), root) <=> path = root \/ Under(path, root)
  <1> DEFINE child == OrgPath(name, path)
  <1>1. /\ Len(child) = Len(path) + 1 /\ child[Len(path) + 1] = name
        /\ \A i \in 1..Len(path) : child[i] = path[i]
    BY DEF OrgPath
  <1> HIDE DEF child
  <1>2. ASSUME Under(child, root), ~Under(path, root) PROVE path = root
    <2>1. Len(path) = Len(root) /\ \A i \in 1..Len(root) : path[i] = root[i]
      BY <1>1, <1>2 DEF Under
    <2> QED
      BY <2>1
  <1>3. ASSUME path = root PROVE Under(child, root)
    BY <1>1, <1>3 DEF Under
  <1>4. ASSUME Under(path, root) PROVE Under(child, root)
    BY <1>1, <1>4 DEF Under
  <1> QED
    BY <1>2, <1>3, <1>4 DEF child

SwapIs(w, path, root, new) ==
    /\ w \in Seq(Segment) /\ Len(w) = Len(new) + (Len(path) - Len(root))
    /\ \A i \in 1..Len(new) : w[i] = new[i]
    /\ \A i \in Len(root) + 1..Len(path) : w[i + Len(new) - Len(root)] = path[i]

LEMMA SwappedIs ==
    ASSUME NEW path \in Seq(Segment), NEW root \in Seq(Segment), NEW new \in Seq(Segment), Len(path) >= Len(root)
    PROVE  SwapIs(Swapped(path, root, new), path, root, new)
  <1> DEFINE tail == SubSeq(path, Len(root) + 1, Len(path))
             w == new \o tail
  <1>1. tail \in Seq(Segment) /\ Len(tail) = Len(path) - Len(root)
        /\ \A i \in 1..Len(tail) : tail[i] = path[Len(root) + i]
    OBVIOUS
  <1> HIDE DEF tail
  <1>2. /\ w \in Seq(Segment) /\ Len(w) = Len(new) + Len(tail)
        /\ \A i \in 1..Len(new) + Len(tail) : w[i] = IF i <= Len(new) THEN new[i] ELSE tail[i - Len(new)]
    BY <1>1, ConcatProperties
  <1> HIDE DEF w
  <1>3. ASSUME NEW i \in 1..Len(new) PROVE w[i] = new[i]
    <2>1. Len(new) \in Nat /\ Len(tail) \in Nat
      BY <1>1
    <2>2. i \in 1..Len(new) + Len(tail) /\ i <= Len(new)
      BY <2>1
    <2> QED
      BY <1>2, <2>2
  <1>4. ASSUME NEW i \in Len(root) + 1..Len(path) PROVE w[i + Len(new) - Len(root)] = path[i]
    <2> DEFINE j == i - Len(root)
    <2>1. j \in 1..Len(tail) /\ Len(root) + j = i /\ i + Len(new) - Len(root) = j + Len(new)
      BY <1>1
    <2> HIDE DEF j
    <2>2. j + Len(new) \in 1..Len(new) + Len(tail) /\ ~(j + Len(new) <= Len(new)) /\ (j + Len(new)) - Len(new) = j
      BY <1>1, <2>1
    <2>3. w[j + Len(new)] = tail[j]
      BY <1>2, <2>2
    <2> QED
      BY <1>1, <2>1, <2>3
  <1>5. SwapIs(w, path, root, new)
    BY <1>1, <1>2, <1>3, <1>4 DEF SwapIs
  <1> QED
    BY <1>5 DEF Swapped, w, tail

LEMMA SwappedChild ==
    ASSUME NEW path \in Seq(Segment), NEW root \in Seq(Segment), NEW new \in Seq(Segment), NEW name \in Segment,
           Len(path) >= Len(root)
    PROVE  Swapped(OrgPath(name, path), root, new) = OrgPath(name, Swapped(path, root, new))
  <1> DEFINE child == OrgPath(name, path)
             w == Swapped(path, root, new)
             x == Swapped(child, root, new)
             y == OrgPath(name, w)
  <1>1. /\ child \in Seq(Segment) /\ Len(child) = Len(path) + 1 /\ child[Len(path) + 1] = name
        /\ \A i \in 1..Len(path) : child[i] = path[i]
    BY DEF OrgPath
  <1>2. SwapIs(w, path, root, new)
    BY SwappedIs
  <1> HIDE DEF child, w
  <1>3. SwapIs(x, child, root, new)
    <2>1. Len(child) >= Len(root)
      BY <1>1
    <2> QED
      BY <1>1, <2>1, SwappedIs
  <1>4. /\ y \in Seq(Segment) /\ Len(y) = Len(w) + 1 /\ y[Len(w) + 1] = name
        /\ \A i \in 1..Len(w) : y[i] = w[i]
    BY <1>2 DEF OrgPath, SwapIs
  <1> HIDE DEF x, y
  <1>5. Len(x) = Len(w) + 1 /\ Len(w) = Len(new) + (Len(path) - Len(root)) /\ Len(w) \in Nat
    BY <1>1, <1>2, <1>3 DEF SwapIs
  <1>6. ASSUME NEW i \in 1..Len(x) PROVE x[i] = y[i]
    <2>1. CASE i \in 1..Len(new)
      <3>1. i \in 1..Len(w)
        BY <1>5, <2>1
      <3> QED
        BY <1>2, <1>3, <1>4, <2>1, <3>1 DEF SwapIs
    <2>2. CASE i \notin 1..Len(new)
      <3> DEFINE j == i + Len(root) - Len(new)
      <3>1. j \in Len(root) + 1..Len(path) + 1 /\ i = j + Len(new) - Len(root)
        BY <1>5, <2>2
      <3> HIDE DEF j
      <3>2. x[i] = child[j]
        BY <1>1, <1>3, <3>1 DEF SwapIs
      <3>3. CASE j <= Len(path)
        <4>1. j \in Len(root) + 1..Len(path) /\ i \in 1..Len(w) /\ j \in 1..Len(path)
          BY <1>5, <3>1, <3>3
        <4>2. w[i] = path[j]
          BY <1>2, <3>1, <4>1 DEF SwapIs
        <4> QED
          BY <1>1, <1>4, <3>2, <4>1, <4>2
      <3>4. CASE ~(j <= Len(path))
        <4>0. Len(path) \in Nat /\ Len(root) \in Nat /\ Len(new) \in Nat /\ j \in Nat
          BY <3>1
        <4>1. j = Len(path) + 1
          BY <3>1, <3>4, <4>0
        <4>2. i = Len(w) + 1
          BY <1>5, <3>1, <4>0, <4>1
        <4> QED
          BY <1>1, <1>4, <3>2, <4>1, <4>2
      <3> QED
        BY <3>3, <3>4
    <2> QED
      BY <2>1, <2>2
  <1>7. x \in Seq(Segment) /\ Len(x) = Len(y)
    BY <1>3, <1>4, <1>5 DEF SwapIs
  <1>8. x = y
    BY <1>4, <1>6, <1>7, SeqEqual
  <1> QED
    BY <1>8 DEF x, y, w, child

\* The node p moves to another parent or gets another name, and all below it follow.
LEMMA MovePaths ==
    ASSUME NEW nodes, NEW ids, \A n \in DOMAIN nodes : nodes[n] \in NodeRow(ids),
           \A m, n \in DOMAIN nodes : nodes[m].path = nodes[n].path => m = n,
           PathsFollow(nodes), NoOrphans(nodes), NEW p \in DOMAIN nodes, NEW root, root = nodes[p].path, root # <<>>,
           NEW new, DOMAIN new = DOMAIN nodes, NEW to, to = new[p].path, to \in Seq(Segment),
           \A n \in DOMAIN nodes \ {p} :
              /\ new[n].parent = nodes[n].parent /\ new[n].name = nodes[n].name
              /\ new[n].path = IF Under(nodes[n].path, root) THEN Swapped(nodes[n].path, root, to)
                               ELSE nodes[n].path,
           Fits(nodes, new[p]), NoLoop(nodes, p, new[p].parent)
    PROVE  PathsFollow(new) /\ NoOrphans(new)
  <1> DEFINE D == {n \in DOMAIN nodes : n = p \/ Under(nodes[n].path, root)}
  <1>1. /\ \A n \in DOMAIN nodes : nodes[n].path \in Seq(Segment) /\ nodes[n].name \in Segment
        /\ root \in Seq(Segment) /\ Len(root) \in Nat \ {0}
    BY NodeRowIs
  <1>2. \A n \in DOMAIN nodes \ {p} : ParentOf(new, n) = ParentOf(nodes, n)
    BY DEF ParentOf
  <1>3. ASSUME NEW n \in DOMAIN nodes, NEW q \in ParentOf(nodes, n)
        PROVE  /\ q \in DOMAIN nodes /\ nodes[n].path = OrgPath(nodes[n].name, nodes[q].path)
               /\ Under(nodes[n].path, root) <=> q \in D
    <2>1. q \in DOMAIN nodes /\ nodes[n].path = OrgPath(nodes[n].name, nodes[q].path)
      BY DEF ParentOf, PathsFollow
    <2>2. Under(nodes[n].path, root) <=> nodes[q].path = root \/ Under(nodes[q].path, root)
      BY <1>1, <2>1, UnderChild
    <2>3. nodes[q].path = root <=> q = p
      BY <2>1
    <2> QED
      BY <2>1, <2>2, <2>3
  <1>4. ASSUME NEW n \in D \ {p} PROVE ParentOf(nodes, n) \cap D # {} /\ Under(nodes[n].path, root)
    <2>1. Under(nodes[n].path, root) /\ Len(nodes[n].path) > 1
      BY <1>1 DEF Under
    <2>2. ParentOf(nodes, n) # {}
      BY <2>1 DEF NoOrphans
    <2> QED
      BY <1>3, <2>1, <2>2
  <1>5. new[p].parent \notin D
    <2>1. D \in SUBSET DOMAIN nodes
      OBVIOUS
    <2> HIDE DEF D
    <2> QED
      BY <1>4, <2>1 DEF NoLoop
  <1>6. Swapped(root, root, to) = to
    <2>1. SwapIs(Swapped(root, root, to), root, root, to)
      BY <1>1, SwappedIs
    <2>2. Swapped(root, root, to) \in Seq(Segment) /\ Len(Swapped(root, root, to)) = Len(to)
          /\ \A i \in 1..Len(to) : Swapped(root, root, to)[i] = to[i]
      BY <1>1, <2>1 DEF SwapIs
    <2> QED
      BY <2>2, SeqEqual
  <1>7. ASSUME NEW n \in D PROVE new[n].path = Swapped(nodes[n].path, root, to) /\ Len(nodes[n].path) >= Len(root)
    BY <1>1, <1>6 DEF Under
  <1>8. \A n \in DOMAIN nodes \ D : new[n].path = nodes[n].path /\ new[n].name = nodes[n].name
    OBVIOUS
  <1>9. PathsFollow(new)
    <2>1. SUFFICES ASSUME NEW n \in DOMAIN new, NEW q \in ParentOf(new, n)
                   PROVE  new[n].path = OrgPath(new[n].name, new[q].path)
      BY DEF PathsFollow
    <2>2. CASE n = p
      <3>1. q = new[p].parent /\ q \in DOMAIN nodes \ D
        BY <1>5, <2>2 DEF ParentOf
      <3>2. to = OrgPath(new[p].name, nodes[q].path)
        BY <3>1 DEF Fits
      <3> HIDE DEF D
      <3> QED
        BY <1>8, <2>2, <3>1, <3>2
    <2>3. CASE n \in D \ {p}
      <3>1. /\ q \in D /\ nodes[n].path = OrgPath(nodes[n].name, nodes[q].path) /\ n \in DOMAIN nodes
            /\ q \in DOMAIN nodes /\ new[n].name = nodes[n].name
        BY <1>2, <1>3, <1>4, <2>3
      <3> HIDE DEF D
      <3>2. /\ new[n].path = Swapped(nodes[n].path, root, to)
            /\ new[q].path = Swapped(nodes[q].path, root, to) /\ Len(nodes[q].path) >= Len(root)
        BY <1>7, <2>3, <3>1
      <3>3. Swapped(OrgPath(nodes[n].name, nodes[q].path), root, to)
              = OrgPath(nodes[n].name, Swapped(nodes[q].path, root, to))
        BY <1>1, <3>1, <3>2, SwappedChild
      <3> QED
        BY <3>1, <3>2, <3>3
    <2>4. CASE n \notin D
      <3>1. /\ q \in DOMAIN nodes \ D /\ nodes[n].path = OrgPath(nodes[n].name, nodes[q].path)
            /\ n \in DOMAIN nodes \ D
        BY <1>2, <1>3, <2>4
      <3> HIDE DEF D
      <3> QED
        BY <1>8, <3>1
    <2> QED
      BY <2>2, <2>3, <2>4
  <1>10. NoOrphans(new)
    <2>1. SUFFICES ASSUME NEW n \in DOMAIN new, Len(new[n].path) > 1 PROVE ParentOf(new, n) # {}
      BY DEF NoOrphans
    <2>2. CASE n = p
      BY <2>1, <2>2 DEF Fits, ParentOf
    <2>3. CASE n \in D \ {p}
      BY <1>2, <1>4, <2>3
    <2>4. CASE n \notin D
      BY <1>2, <1>8, <2>1, <2>4 DEF NoOrphans
    <2> QED
      BY <2>2, <2>3, <2>4
  <1> QED
    BY <1>9, <1>10

-----------------------------------------------------------------------------
(* What the requests on nodes write. *)

\* A request on nodes that is about to write knows the tree, unless requests overlapped.
LEMMA WritesUpToDate ==
    ASSUME DirectoryInv, TreeInv, NEW a \in Admin, At(a, "write"), sess[a].op \in NodeOps,
           "overlap" \notin past.upset
    PROVE  /\ \A step \in StepNames \ {"write"} : Done(sess[a], step) /\ Current(db.nodes, sess[a], step)
           /\ BelowIs(db.nodes, sess[a])
  <1>1. \A step \in StepNames \ {"write"} : Done(sess[a], step)
    BY AtIs DEF StepNames
  <1>2. UpToDate(db.nodes, sess[a])
    BY DEF TreeInv
  <1> QED
    BY <1>1, <1>2 DEF UpToDate

LEMMA DeleteNodeKeepsTree ==
    ASSUME DirectoryInv, TreeInv, NEW a \in Admin, delete_org_node(a)
    PROVE  TreeInv'
  <1> DEFINE s == sess[a]
             nodes == Without(db.nodes, {s.node})
             new == [db EXCEPT !.nodes = nodes]
             upset == Noted(a, new).upset
  <1>1. At(a, "write") /\ s.op = "delete_org_node" /\ Write(a, FALSE, new)
    BY DEF delete_org_node, Is
  <1>2. "nodes" \in DOMAIN db
    BY DEF DirectoryInv, TablesOK, TablesTyped, RowsTyped
  <1>3. new.nodes = nodes
    BY <1>2
  <1>4. past.upset \subseteq upset
    BY UpsetIs
  <1> HIDE DEF upset
  <1>5. upset = {} => \A n \in DOMAIN db.nodes : db.nodes[n].parent # s.node
    <2>1. SUFFICES ASSUME upset = {} PROVE Current(db.nodes, s, "select_children")
      BY <1>1 DEF Current
    <2> QED
      BY <1>1, <1>4, <2>1, WritesUpToDate DEF NodeOps, StepNames
  <1>6. Sound(db.nodes, upset)
    BY <1>4, MoreUpset DEF TreeInv
  <1>7. Sound(nodes, upset)
    <2> HIDE DEF nodes
    <2>1. nodes = Without(db.nodes, {s.node})
      BY DEF nodes
    <2> QED
      BY <1>5, <1>6, <2>1, PruneSound
  <1> HIDE DEF nodes, new
  <1>8. Sound(new.nodes, Noted(a, new).upset)
    BY <1>3, <1>7 DEF upset
  <1> QED
    BY <1>1, <1>8, WriteKeepsTree

LEMMA WithNodeSound ==
    ASSUME NEW d, RowsTyped(d), NEW upset, Sound(d.nodes, upset), NEW name, NEW parent \in IdsIn(d) \cup {Null},
           NEW path, NEW new, new = WithNode(d, name, parent, path),
           NEW row, row = [name |-> name, parent |-> parent, path |-> path], upset = {} => Fits(d.nodes, row)
    PROVE  Sound(new.nodes, upset)
  <1>1. /\ DOMAIN new.nodes = DOMAIN d.nodes \cup {d.next} /\ new.nodes[d.next] = row
        /\ \A n \in DOMAIN d.nodes : new.nodes[n] = d.nodes[n]
    BY WithNodeIs
  <1>2. d.next \in Nat \ {0} /\ d.next \notin IdsIn(d)
    BY DEF RowsTyped, IdsIn
  <1>3. DOMAIN d.nodes \subseteq IdsIn(d) /\ \A n \in DOMAIN d.nodes : d.nodes[n] \in NodeRow(IdsIn(d))
    BY TablesAre
  <1>4. d.next \notin DOMAIN d.nodes /\ \A n \in DOMAIN d.nodes : d.nodes[n].parent # d.next
    BY <1>2, <1>3, NodeRowIs DEF Null
  <1>5. row.parent # d.next
    BY <1>2 DEF Null
  <1>6. Grown(d.nodes, d.next, row, new.nodes)
    BY <1>1, <1>4, <1>5 DEF Grown
  <1> QED
    BY <1>6, GrowSound

\* The tree with the root that a request on nodes may have to insert first.
LEMMA WithParentSound ==
    ASSUME DirectoryInv, TreeInv, NEW a \in Admin, NEW upset, past.upset \subseteq upset
    PROVE  Sound(WithParent(sess[a]).nodes, upset)
  <1> DEFINE s == sess[a]
  <1>1. RowsTyped(db) /\ Sound(db.nodes, upset) /\ Null \in IdsIn(db) \cup {Null} /\ Null \notin DOMAIN db.nodes
    BY MoreUpset DEF TreeInv, DirectoryInv, TablesOK, TablesTyped, RowsTyped, RowIds, IdsIn, Null
  <1>2. CASE s.parent = Nothing /\ NeedsRoot(s)
    <2> DEFINE under == WithNode(db, RootName, Null, <<>>)
               row == [name |-> RootName, parent |-> Null, path |-> <<>>]
    <2>1. Fits(db.nodes, row)
      BY <1>1 DEF Fits
    <2>2. under = WithNode(db, RootName, Null, <<>>)
      OBVIOUS
    <2>4. row = [name |-> RootName, parent |-> Null, path |-> <<>>]
      OBVIOUS
    <2> HIDE DEF under, row
    <2>3. Sound(under.nodes, upset)
      BY <1>1, <2>1, <2>2, <2>4, WithNodeSound
    <2> QED
      BY <1>2, <2>2, <2>3 DEF WithParent
  <1>3. CASE ~(s.parent = Nothing /\ NeedsRoot(s))
    <2>1. WithParent(s) = db
      BY <1>3 DEF WithParent
    <2> QED
      BY <1>1, <2>1
  <1> QED
    BY <1>2, <1>3

\* The parent that a request on nodes has found, while no requests overlap.
LEMMA ParentKnown ==
    ASSUME DirectoryInv, TreeInv, NEW a \in Admin, At(a, "write"),
           sess[a].op \in {"create_org_node", "update_org_node"}, "overlap" \notin past.upset
    PROVE  LET s == sess[a]
               under == WithParent(s).nodes
           IN  /\ Null \notin DOMAIN under /\ DOMAIN db.nodes \subseteq DOMAIN under
               /\ \A n \in DOMAIN db.nodes : under[n] = db.nodes[n]
               /\ \A m, n \in DOMAIN under : under[m].path = under[n].path => m = n
               /\ \A n \in DOMAIN under \ DOMAIN db.nodes : under[n].path = <<>>
               /\ ~NeedsRoot(s) => under = db.nodes
               /\ DOMAIN s.parent = IF NeedsRoot(s) THEN {n \in DOMAIN db.nodes : db.nodes[n].path = <<>>}
                                    ELSE {ParentId(s)} \cap DOMAIN db.nodes
               /\ s.parent # Nothing =>
                     Parent(s) \in DOMAIN s.parent /\ s.parent[Parent(s)] = db.nodes[Parent(s)]
               /\ s.parent = Nothing => DOMAIN s.parent = {}
               /\ s.parent = Nothing /\ ~NeedsRoot(s) => Parent(s) = Null
               /\ s.parent = Nothing /\ NeedsRoot(s) => Parent(s) \in DOMAIN under /\ under[Parent(s)].path = <<>>
  <1> DEFINE s == sess[a]
             nodes == db.nodes
             under == WithParent(s)
  <1>1. /\ RowsTyped(db) /\ \A m, n \in DOMAIN nodes : nodes[m].path = nodes[n].path => m = n
        /\ Null \notin DOMAIN nodes /\ db.next \in Nat \ {0} /\ db.next \notin DOMAIN nodes
    BY DEF DirectoryInv, TablesOK, TablesTyped, Unique, RowsTyped, RowIds, IdsIn, Null
  <1>2. Current(nodes, s, "select_parent")
    BY WritesUpToDate DEF NodeOps, StepNames
  <1>3. /\ DOMAIN s.parent = IF NeedsRoot(s) THEN {n \in DOMAIN nodes : nodes[n].path = <<>>}
                             ELSE {ParentId(s)} \cap DOMAIN nodes
        /\ \A n \in DOMAIN s.parent : s.parent[n] = nodes[n]
    BY <1>2 DEF Current
  <1>4. s.parent \in [DOMAIN s.parent -> NodeRow(IdsIn(db))]
    <2>1. Is(a, s.op)
      BY DEF Is
    <2>2. Found(db, past, s, "select_parent")
      BY <2>1, AtWrite DEF StepNames
    <2> QED
      BY <2>2 DEF Found
  <1>5. s.parent # Nothing => Parent(s) \in DOMAIN s.parent
    <2>1. ASSUME s.parent # Nothing, DOMAIN s.parent = {} PROVE FALSE
      <3>1. s.parent = [k \in {} |-> k]
        BY <1>4, <2>1
      <3> QED
        BY <2>1, <3>1 DEF Nothing
    <2> QED
      BY <2>1 DEF Parent
  <1>6. s.parent = Nothing => DOMAIN s.parent = {}
    BY DEF Nothing
  <1>7. CASE s.parent = Nothing /\ NeedsRoot(s)
    <2>1. under = WithNode(db, RootName, Null, <<>>) /\ Parent(s) = db.next
      BY <1>7 DEF WithParent, Parent
    <2> HIDE DEF under
    <2>2. /\ DOMAIN under.nodes = DOMAIN nodes \cup {db.next}
          /\ under.nodes[db.next] = [name |-> RootName, parent |-> Null, path |-> <<>>]
          /\ \A n \in DOMAIN nodes : under.nodes[n] = nodes[n]
      BY <1>1, <2>1, WithNodeIs
    <2>3. \A n \in DOMAIN nodes : nodes[n].path # <<>>
      BY <1>3, <1>6, <1>7
    <2>4. Null # db.next
      BY <1>1 DEF Null
    <2>5. \A m, n \in DOMAIN under.nodes : under.nodes[m].path = under.nodes[n].path => m = n
      BY <1>1, <2>2, <2>3
    <2> QED
      BY <1>1, <1>3, <1>6, <1>7, <2>1, <2>2, <2>4, <2>5 DEF under
  <1>8. CASE ~(s.parent = Nothing /\ NeedsRoot(s))
    <2>1. under = db /\ (s.parent = Nothing => Parent(s) = Null)
      BY <1>8 DEF WithParent, Parent
    <2> HIDE DEF under
    <2> QED
      BY <1>1, <1>3, <1>5, <1>6, <1>8, <2>1 DEF under
  <1> QED
    BY <1>7, <1>8

LEMMA CreateNodeKeepsTree ==
    ASSUME DirectoryInv, TreeInv, NEW a \in Admin, create_org_node(a)
    PROVE  TreeInv'
  <1> DEFINE s == sess[a]
             under == WithParent(s)
             parent == Parent(s)
             path == PathUnder(s, s.name)
             new == WithNode(under, s.name, parent, path)
             upset == Noted(a, new).upset
             row == [name |-> s.name, parent |-> parent, path |-> path]
  <1>1. Is(a, "create_org_node") /\ At(a, "write") /\ s.op = "create_org_node" /\ Write(a, FALSE, new)
    BY DEF create_org_node, Is
  <1>2. past.upset \subseteq upset
    BY UpsetIs
  <1> HIDE DEF upset
  <1>3. RowsTyped(under) /\ parent \in IdsIn(under) \cup {Null}
    BY <1>1, ParentIs
  <1>4. Sound(under.nodes, upset)
    BY <1>2, WithParentSound
  <1>5. upset = {} => Fits(under.nodes, row)
    <2> SUFFICES ASSUME upset = {} PROVE Fits(under.nodes, row)
      OBVIOUS
    <2> DEFINE nodes == under.nodes
    <2>1. /\ Null \notin DOMAIN nodes /\ DOMAIN db.nodes \subseteq DOMAIN nodes
          /\ \A n \in DOMAIN db.nodes : nodes[n] = db.nodes[n]
          /\ s.parent # Nothing =>
                parent \in DOMAIN db.nodes /\ s.parent[parent] = db.nodes[parent]
          /\ s.parent = Nothing /\ ~NeedsRoot(s) => parent = Null
          /\ s.parent = Nothing /\ NeedsRoot(s) => parent \in DOMAIN nodes /\ nodes[parent].path = <<>>
      BY <1>1, <1>2, ParentKnown
    <2>2. path = OrgPath(s.name, IF s.parent = Nothing THEN <<>> ELSE s.parent[parent].path)
      BY DEF PathUnder
    <2>3. Len(OrgPath(s.name, <<>>)) = 1
      BY DEF OrgPath
    <2>4. row.name = s.name /\ row.parent = parent /\ row.path = path
      OBVIOUS
    <2> HIDE DEF nodes, parent, path, row
    <2>5. CASE s.parent # Nothing
      <3>1. parent \in DOMAIN nodes /\ nodes[parent].path = s.parent[parent].path
        BY <2>1, <2>5
      <3>2. path = OrgPath(s.name, nodes[parent].path)
        BY <2>2, <2>5, <3>1
      <3>3. Fits(nodes, row)
        BY <2>4, <3>1, <3>2 DEF Fits
      <3> QED
        BY <3>3 DEF nodes
    <2>6. CASE s.parent = Nothing /\ NeedsRoot(s)
      <3>1. parent \in DOMAIN nodes /\ nodes[parent].path = <<>>
        BY <2>1, <2>6
      <3>2. path = OrgPath(s.name, nodes[parent].path)
        BY <2>2, <2>6, <3>1
      <3>3. Fits(nodes, row)
        BY <2>4, <3>1, <3>2 DEF Fits
      <3> QED
        BY <3>3 DEF nodes
    <2>7. CASE s.parent = Nothing /\ ~NeedsRoot(s)
      <3>1. parent \notin DOMAIN nodes /\ Len(path) = 1
        BY <2>1, <2>2, <2>3, <2>7
      <3>2. ~(Len(path) > 1)
        BY <3>1
      <3>3. Fits(nodes, row)
        BY <2>4, <3>1, <3>2 DEF Fits
      <3> QED
        BY <3>3 DEF nodes
    <2> QED
      BY <2>5, <2>6, <2>7
  <1>6. new = WithNode(under, s.name, parent, path) /\ row = [name |-> s.name, parent |-> parent, path |-> path]
    OBVIOUS
  <1> HIDE DEF new, under, parent, path, row
  <1>7. Sound(new.nodes, upset)
    BY <1>3, <1>4, <1>5, <1>6, WithNodeSound
  <1> QED
    BY <1>1, <1>7, WriteKeepsTree DEF upset

-----------------------------------------------------------------------------
(* The update of a node. *)

IsRow(row) == row = [c \in {"name", "parent", "path"} |-> row[c]]

\* Rows that have not changed since they were loaded are written whole.
LEMMA FlushedCurrent ==
    ASSUME NEW table, NEW loaded, NEW object, NEW new, new = Flushed(table, loaded, object),
           DOMAIN object \subseteq DOMAIN table, \A n \in DOMAIN object : loaded[n] = table[n],
           \A n \in DOMAIN table : DOMAIN table[n] = {"name", "parent", "path"},
           \A n \in DOMAIN object : IsRow(object[n])
    PROVE  /\ DOMAIN new = DOMAIN table
           /\ \A n \in DOMAIN object : new[n] = object[n]
           /\ \A n \in DOMAIN table \ DOMAIN object : new[n] = table[n]
  <1>1. DOMAIN new = DOMAIN table /\ \A n \in DOMAIN table \ DOMAIN object : new[n] = table[n]
    BY DEF Flushed, Dirty
  <1>2. ASSUME NEW n \in DOMAIN object PROVE new[n] = object[n]
    <2>1. /\ DOMAIN table[n] = {"name", "parent", "path"}
          /\ object[n] = [c \in {"name", "parent", "path"} |-> object[n][c]]
      BY DEF IsRow
    <2>2. CASE object[n] = loaded[n]
      BY <2>2 DEF Flushed, Dirty
    <2>3. CASE object[n] # loaded[n]
      <3>1. new[n] = [c \in DOMAIN table[n] |->
                        IF object[n][c] # loaded[n][c] THEN object[n][c] ELSE table[n][c]]
        BY <2>3 DEF Flushed, Dirty
      <3>2. new[n] = [c \in {"name", "parent", "path"} |-> object[n][c]]
        BY <2>1, <3>1
      <3> QED
        BY <2>1, <3>2
    <2> QED
      BY <2>2, <2>3
  <1> QED
    BY <1>1, <1>2

LEMMA PrefixUnder ==
    ASSUME NEW path \in Seq(Segment), NEW root \in Seq(Segment), IsPrefix(root, path), Len(path) > Len(root)
    PROVE  Under(path, root)
  <1>1. ASSUME NEW i \in 1..Len(root) PROVE path[i] = root[i]
    BY DEF IsPrefix
  <1> QED
    BY <1>1 DEF Under

LEMMA NotBelowItself ==
    ASSUME NEW nodes, NEW n \in DOMAIN nodes, nodes[n].path \in Seq(Segment)
    PROVE  Below(nodes, nodes[n].path) \subseteq DOMAIN nodes /\ n \notin Below(nodes, nodes[n].path)
  BY DEF Below

LEMMA UnderBelow ==
    ASSUME NEW nodes, NEW n \in DOMAIN nodes, NEW root \in Seq(Segment), root # <<>>, Under(nodes[n].path, root)
    PROVE  n \in Below(nodes, root)
  <1>1. \A i \in 1..Len(root) : Alike(root[i], nodes[n].path[i])
    BY DirectoryAssumption DEF Under
  <1> QED
    BY <1>1 DEF Under, Below

\* The new place of a node that is updated while no requests overlap: its path is that
\* of its parent, and its parent is not below it.
LEMMA NewPlace ==
    ASSUME DirectoryInv, TreeInv, NEW a \in Admin, update_org_node(a), "overlap" \notin past.upset
    PROVE  /\ NoLoop(WithParent(sess[a]).nodes, sess[a].node, UpdatedNode(sess[a]).parent)
           /\ Fits(WithParent(sess[a]).nodes, UpdatedNode(sess[a]))
  <1> DEFINE s == sess[a]
             nodes == WithParent(s).nodes
             row == UpdatedNode(s)
             name == Kept(s.name, s.row.name)
  <1>1. At(a, "write") /\ s.op = "update_org_node"
    BY DEF update_org_node, Is
  <1>2. /\ Null \notin DOMAIN nodes /\ DOMAIN db.nodes \subseteq DOMAIN nodes
        /\ \A n \in DOMAIN db.nodes : nodes[n] = db.nodes[n]
        /\ ~NeedsRoot(s) => nodes = db.nodes
        /\ DOMAIN s.parent = IF NeedsRoot(s) THEN {n \in DOMAIN db.nodes : db.nodes[n].path = <<>>}
                             ELSE {ParentId(s)} \cap DOMAIN db.nodes
        /\ s.parent # Nothing =>
              Parent(s) \in DOMAIN s.parent /\ s.parent[Parent(s)] = db.nodes[Parent(s)]
        /\ s.parent = Nothing => DOMAIN s.parent = {}
    BY <1>1, ParentKnown
  <1>3. row.name = name /\ row.parent = ParentId(s) /\ row.path = PathUnder(s, name)
    BY <1>1 DEF UpdatedNode, ParentId, Kept
  <1>4. NeedsRoot(s) => row.parent = Null
    BY <1>3 DEF NeedsRoot
  <1>5. \A S \in SUBSET DOMAIN db.nodes : ~Loop(db.nodes, s, S)
    <2>1. Current(db.nodes, s, "walk")
      BY <1>1, WritesUpToDate DEF NodeOps, StepNames
    <2> QED
      BY <1>1, <2>1 DEF Current
  <1>6. row.path = OrgPath(name, IF s.parent = Nothing THEN <<>> ELSE s.parent[Parent(s)].path)
    BY <1>3 DEF PathUnder
  <1>7. row.path = OrgPath(name, <<>>) => ~(Len(row.path) > 1)
    BY DEF OrgPath
  <1> HIDE DEF nodes, row, name
  <1>8. NoLoop(nodes, s.node, row.parent)
    <2>1. SUFFICES ASSUME NEW S \in SUBSET DOMAIN nodes, row.parent \in S
                   PROVE  \E n \in S \ {s.node} : ParentOf(nodes, n) \cap S = {}
      BY DEF NoLoop
    <2>2. ~NeedsRoot(s) /\ nodes = db.nodes
      BY <1>2, <1>4, <2>1
    <2>3. DOMAIN s.parent \cap S # {}
      BY <1>2, <1>3, <2>1, <2>2
    <2> QED
      BY <1>5, <2>1, <2>2, <2>3 DEF Loop
  <1>9. Fits(nodes, row)
    <2>1. CASE NeedsRoot(s)
      <3>1. row.parent \notin DOMAIN nodes
        BY <1>2, <1>4, <2>1
      <3>2. s.parent # Nothing => s.parent[Parent(s)].path = <<>>
        BY <1>2, <2>1
      <3>3. row.path = OrgPath(name, <<>>)
        BY <1>6, <3>2
      <3>4. ~(Len(row.path) > 1)
        BY <1>7, <3>3
      <3> QED
        BY <3>1, <3>4 DEF Fits
    <2>2. CASE ~NeedsRoot(s) /\ s.parent # Nothing
      <3>1. row.parent \in DOMAIN nodes /\ s.parent[Parent(s)] = nodes[row.parent]
        BY <1>2, <1>3, <2>2
      <3>2. row.path = OrgPath(row.name, nodes[row.parent].path)
        BY <1>3, <1>6, <2>2, <3>1 DEF name
      <3> QED
        BY <3>1, <3>2 DEF Fits
    <2>3. CASE ~NeedsRoot(s) /\ s.parent = Nothing
      <3>1. row.parent \notin DOMAIN nodes
        BY <1>2, <1>3, <2>3
      <3>2. row.path = OrgPath(name, <<>>)
        BY <1>6, <2>3
      <3>3. ~(Len(row.path) > 1)
        BY <1>7, <3>2
      <3> QED
        BY <3>1, <3>3 DEF Fits
    <2> QED
      BY <2>1, <2>2, <2>3
  <1> QED
    BY <1>8, <1>9 DEF nodes, row

\* What an update of a node makes of the tree while no requests overlap.
UpdatedTree(nodes, new, node, row, below, old) ==
    /\ DOMAIN new = DOMAIN nodes /\ node \in DOMAIN nodes /\ new[node] = row
    /\ node \notin below /\ below \subseteq DOMAIN nodes
    /\ \A n \in below : RerootedTo(new[n], nodes[n], old, row.path)
    /\ \A n \in DOMAIN nodes \ (below \cup {node}) : new[n] = nodes[n]

LEMMA UpdatedTreeIs ==
    ASSUME DirectoryInv, TreeInv, NEW a \in Admin, update_org_node(a), "overlap" \notin past.upset
    PROVE  \E nodes, stale :
             LET s == sess[a]
                 under == WithParent(s)
             IN  /\ Write(a, stale, [under EXCEPT !.nodes = nodes])
                 /\ UpdatedTree(under.nodes, nodes, s.node, UpdatedNode(s), Below(db.nodes, s.row.path), s.row.path)
                 /\ s.node \in DOMAIN db.nodes /\ s.row = db.nodes[s.node]
                 /\ UpdatedNode(s).path \in Seq(Segment) \ {<<>>}
  <1> DEFINE s == sess[a]
             row == UpdatedNode(s)
             below == BelowNode(s)
             loaded == Single(s.node, s.row) ++ below
             objects == Single(s.node, row) ++ Rerooted(below, s.row.path, row.path)
             under == WithParent(s)
             nodes == Flushed(under.nodes, loaded, objects)
             new == [under EXCEPT !.nodes = nodes]
  <1>1. Is(a, "update_org_node") /\ Write(a, Stale(under.nodes, loaded, objects), new) /\ At(a, "write")
    BY DEF update_org_node, Is, UpdatedNode, BelowNode
  <1>2. /\ InProgress(db, past, s) /\ s.op = "update_org_node" /\ Found(db, past, s, "select_node")
        /\ RowsTyped(db)
    BY <1>1, AtWrite DEF TablesTyped, StepNames
  <1>3. s.row \in NodeRow(IdsIn(db)) /\ s.name \in Names \cup {Keep}
    BY <1>2 DEF Found, InProgress, AskedOK
  <1>4. s.row.name \in Segment /\ s.row.path \in Seq(Segment)
    BY <1>3, NodeRowIs
  <1>5. Kept(s.name, s.row.name) \in Segment
    BY <1>3, <1>4 DEF Kept, Segment
  <1>6. /\ RowsTyped(under) /\ NewIdsAreNew(db, under) /\ \A name \in Segment : PathUnder(s, name) \in Seq(Segment) \ {<<>>}
    BY <1>1, <1>2, ParentIs
  <1>7. /\ DOMAIN db.nodes \subseteq DOMAIN under.nodes
        /\ \A n \in DOMAIN db.nodes : under.nodes[n] = db.nodes[n]
    BY <1>1, <1>2, ParentKnown
  <1> HIDE DEF under
  <1>8. /\ s.node \in DOMAIN db.nodes /\ s.row = db.nodes[s.node]
        /\ below = [n \in Below(db.nodes, s.row.path) |-> db.nodes[n]]
    <2>1. Current(db.nodes, s, "select_node") /\ BelowIs(db.nodes, s)
      BY <1>1, <1>2, WritesUpToDate DEF NodeOps, StepNames
    <2> QED
      BY <1>2, <2>1 DEF Current, BelowIs, BelowNode
  <1>9. IsRow(row) /\ row.path \in Seq(Segment) \ {<<>>}
    BY <1>5, <1>6 DEF IsRow, UpdatedNode
  <1> DEFINE D == Below(db.nodes, s.row.path)
  <1>10. DOMAIN below = D /\ D \subseteq DOMAIN db.nodes /\ s.node \notin D /\ \A n \in D : below[n] = db.nodes[n]
    <2>1. D \subseteq DOMAIN db.nodes /\ s.node \notin D
      BY <1>4, <1>8, NotBelowItself
    <2> HIDE DEF below, D
    <2> QED
      BY <1>8, <2>1 DEF D
  <1>11. /\ loaded = Single(s.node, s.row) ++ below
         /\ objects = Single(s.node, row) ++ Rerooted(below, s.row.path, row.path)
    OBVIOUS
  <1> HIDE DEF row, below, loaded, objects, D
  <1>12. /\ DOMAIN objects = {s.node} \cup DOMAIN below
         /\ objects[s.node] = row /\ loaded[s.node] = s.row
         /\ \A n \in DOMAIN below \ {s.node} :
               loaded[n] = below[n] /\ RerootedTo(objects[n], below[n], s.row.path, row.path)
    <2>1. NodeAndBelow(loaded, objects, s.node, s.row, row, below, s.row.path, row.path)
      BY ONLY <1>11, ObjectsAre
    <2> QED
      BY <2>1 DEF NodeAndBelow
  <1>13. /\ DOMAIN under = {"users", "roles", "nodes", "links", "keys", "next"}
         /\ \A n \in DOMAIN under.nodes : under.nodes[n] \in NodeRow(IdsIn(under))
    BY <1>6, TablesAre
  <1>14. \A n \in DOMAIN under.nodes :
            DOMAIN under.nodes[n] = {"name", "parent", "path"} /\ IsRow(under.nodes[n])
    BY <1>13 DEF NodeRow, IsRow
  <1>15. ASSUME NEW n \in D PROVE IsRow(objects[n])
    <2>1. RerootedTo(objects[n], db.nodes[n], s.row.path, row.path) /\ IsRow(db.nodes[n])
      BY <1>7, <1>10, <1>12, <1>14
    <2> QED
      BY <2>1 DEF RerootedTo, IsRow
  <1>16. /\ DOMAIN nodes = DOMAIN under.nodes
         /\ \A n \in DOMAIN objects : nodes[n] = objects[n]
         /\ \A n \in DOMAIN under.nodes \ DOMAIN objects : nodes[n] = under.nodes[n]
    <2>1. DOMAIN objects \subseteq DOMAIN under.nodes
      BY <1>7, <1>8, <1>10, <1>12
    <2>2. \A n \in DOMAIN objects : loaded[n] = under.nodes[n]
      BY <1>7, <1>8, <1>10, <1>12
    <2>3. \A n \in DOMAIN objects : IsRow(objects[n])
      BY <1>9, <1>10, <1>12, <1>15
    <2>4. \A n \in DOMAIN under.nodes : DOMAIN under.nodes[n] = {"name", "parent", "path"}
      BY <1>14
    <2>5. nodes = Flushed(under.nodes, loaded, objects)
      OBVIOUS
    <2> HIDE DEF nodes
    <2> QED
      BY ONLY <2>1, <2>2, <2>3, <2>4, <2>5, FlushedCurrent
  <1> HIDE DEF nodes
  <1>17. UpdatedTree(under.nodes, nodes, s.node, row, D, s.row.path)
    BY <1>7, <1>8, <1>10, <1>12, <1>16 DEF UpdatedTree
  <1>18. PICK stale : Write(a, stale, [under EXCEPT !.nodes = nodes])
    BY <1>1
  <1> QED
    BY <1>8, <1>9, <1>13, <1>17, <1>18 DEF under, row, D

LEMMA UpdateNodeKeepsTree ==
    ASSUME DirectoryInv, TreeInv, NEW a \in Admin, update_org_node(a)
    PROVE  TreeInv'
  <1> DEFINE s == sess[a]
             row == UpdatedNode(s)
             root == s.row.path
             p == s.node
  <1>1. At(a, "write") /\ s.op = "update_org_node"
    BY DEF update_org_node, Is
  <1>2. ASSUME "overlap" \notin past.upset PROVE TreeInv'
    <2>1. PICK nodes, stale : Write(a, stale, [WithParent(s) EXCEPT !.nodes = nodes])
                              /\ UpdatedTree(WithParent(s).nodes, nodes, p, row, Below(db.nodes, root), root)
      BY <1>2, UpdatedTreeIs
    <2>2. p \in DOMAIN db.nodes /\ s.row = db.nodes[p] /\ row.path \in Seq(Segment) \ {<<>>}
      BY <1>2, UpdatedTreeIs
    <2> DEFINE under == WithParent(s)
               old == under.nodes
               new == [under EXCEPT !.nodes = nodes]
               upset == Noted(a, new).upset
    <2>3. RowsTyped(under) /\ "nodes" \in DOMAIN under /\ \A n \in DOMAIN old : old[n] \in NodeRow(IdsIn(under))
      <3>1. RowsTyped(under)
        BY <1>1, ParentIs
      <3> HIDE DEF under
      <3> QED
        BY <3>1, TablesAre DEF RowsTyped
    <2>4. new.nodes = nodes
      BY <2>3
    <2>5. /\ past.upset \subseteq upset
          /\ "root_edited" \notin upset => \A n \in Moved(new) : db.nodes[n].path # <<>>
          /\ "alike" \notin upset => \A n \in Moved(new) \ {p} : IsPrefix(root, db.nodes[n].path)
      BY <1>1, UpsetIs
    <2>6. Sound(old, upset)
      BY <2>5, WithParentSound
    <2>7. NoLoop(old, p, row.parent) /\ Fits(old, row)
      BY <1>2, NewPlace
    <2>8. /\ DOMAIN db.nodes \subseteq DOMAIN old /\ \A n \in DOMAIN db.nodes : old[n] = db.nodes[n]
          /\ \A m, n \in DOMAIN old : old[m].path = old[n].path => m = n
          /\ \A n \in DOMAIN old \ DOMAIN db.nodes : old[n].path = <<>>
      BY <1>1, <1>2, ParentKnown
    <2>9. Moved(new) = {n \in DOMAIN db.nodes \cap DOMAIN nodes : nodes[n].path # db.nodes[n].path}
      BY <2>4 DEF Moved
    <2>10. UpdatedTree(old, nodes, p, row, Below(db.nodes, root), root)
      BY <2>1
    <2>12. root \in Seq(Segment)
      BY <2>2, <2>3, <2>8, NodeRowIs
    <2> HIDE DEF new, old, under, row, upset
    <2>13. Sound(nodes, upset)
      <3>1. /\ DOMAIN nodes = DOMAIN old /\ p \in DOMAIN old /\ nodes[p] = row
            /\ \A n \in DOMAIN old \ {p} : nodes[n].parent = old[n].parent /\ nodes[n].name = old[n].name
        BY <2>10, <2>3 DEF UpdatedTree, RerootedTo, NodeRow
      <3>2. ASSUME Forest(old) PROVE Forest(nodes)
        BY <2>7, <3>1, <3>2, MoveForest
      <3>3. ASSUME PathsFollow(old), NoOrphans(old), upset = {}
            PROVE  PathsFollow(nodes) /\ NoOrphans(nodes)
        <4>1. root # <<>>
          BY <2>2, <2>5, <2>8, <2>9, <3>1, <3>3
        <4>2. ASSUME NEW n \in DOMAIN old \ {p}
              PROVE  nodes[n].path = IF Under(old[n].path, root) THEN Swapped(old[n].path, root, row.path)
                                     ELSE old[n].path
          <5>1. CASE n \in Below(db.nodes, root)
            <6>1. n \in DOMAIN db.nodes /\ Len(old[n].path) > Len(root)
              BY <2>8, <5>1 DEF Below
            <6>2. nodes[n].path = Swapped(old[n].path, root, row.path)
              <7>1. RerootedTo(nodes[n], old[n], root, row.path) /\ old[n] \in NodeRow(IdsIn(under))
                BY <2>3, <2>10, <5>1 DEF UpdatedTree
              <7> QED
                BY <7>1 DEF RerootedTo, Swapped, NodeRow
            <6>3. ASSUME ~Under(old[n].path, root) PROVE nodes[n].path = old[n].path
              <7>1. old[n].path \in Seq(Segment)
                BY <2>3, NodeRowIs
              <7>2. ~IsPrefix(root, db.nodes[n].path)
                BY <2>8, <2>12, <6>1, <6>3, <7>1, PrefixUnder
              <7> QED
                BY <2>5, <2>8, <2>9, <3>1, <3>3, <6>1, <7>2
            <6> QED
              BY <6>2, <6>3
          <5>2. CASE n \notin Below(db.nodes, root)
            <6>1. nodes[n].path = old[n].path
              BY <2>10, <5>2 DEF UpdatedTree
            <6>2. ~Under(old[n].path, root)
              <7>1. CASE n \in DOMAIN db.nodes
                BY <2>8, <2>12, <4>1, <5>2, <7>1, UnderBelow
              <7>2. CASE n \notin DOMAIN db.nodes
                <8>1. Len(old[n].path) = 0 /\ Len(root) \in Nat
                  BY <2>8, <2>12, <7>2
                <8> QED
                  BY <8>1 DEF Under
              <7> QED
                BY <7>1, <7>2
            <6> QED
              BY <6>1, <6>2
          <5> QED
            BY <5>1, <5>2
        <4>3. root = old[p].path /\ nodes[p].path = row.path
          BY <2>2, <2>8, <3>1
        <4> HIDE DEF root, p
        <4> QED
          BY <2>2, <2>3, <2>7, <2>8, <3>1, <3>3, <4>1, <4>2, <4>3, MovePaths
      <3> QED
        BY <2>6, <3>2, <3>3 DEF Sound
    <2>14. Sound(new.nodes, Noted(a, new).upset)
      BY <2>4, <2>13 DEF upset
    <2>15. Write(a, stale, new)
      BY <2>1 DEF new, under
    <2> QED
      BY <2>14, <2>15, WriteKeepsTree
  <1>3. ASSUME "overlap" \in past.upset PROVE TreeInv'
    <2>1. PICK stale, new : Write(a, stale, new)
      BY DEF update_org_node
    <2>2. Sound(new.nodes, Noted(a, new).upset)
      BY <1>3, UpsetIs DEF Sound
    <2> QED
      BY <2>1, <2>2, WriteKeepsTree
  <1> QED
    BY <1>2, <1>3

-----------------------------------------------------------------------------
(* The import. *)

\* An import in the middle of its rows knows the nodes there are, and they are sound.
TreePass(upset, x) == x.seen.nodes = x.db.nodes /\ Sound(x.db.nodes, upset)

LEMMA PathIsChild ==
    ASSUME NEW T, NEW path \in Seq(T), Len(path) >= 2
    PROVE  path = OrgPath(Last(path), Front(path))
  <1>1. Len(path) \in Nat /\ Len(path) - 1 \in 1..Len(path)
    OBVIOUS
  <1>2. Front(path) \in Seq(T) /\ Len(Front(path)) = Len(path) - 1
        /\ \A i \in 1..(Len(path) - 1) : Front(path)[i] = path[i]
    BY <1>1 DEF Front
  <1> DEFINE child == OrgPath(Last(path), Front(path))
  <1>3. Last(path) = path[Len(path)] /\ Last(path) \in T
    BY DEF Last
  <1>4. child \in Seq(T) /\ Len(child) = Len(path) /\ \A i \in 1..Len(path) : child[i] = path[i]
    BY <1>1, <1>2, <1>3 DEF OrgPath
  <1> HIDE DEF child
  <1>5. path = child
    BY <1>4, SeqEqual
  <1> QED
    BY <1>5 DEF child

LEMMA ResolveNodeTree ==
    ASSUME NEW d, NEW gone, NEW x, RowsTyped(d), gone \subseteq IdsIn(d), PassOK(d, gone, x),
           NEW upset, TreePass(upset, x),
           NEW path \in Seq(Names), Len(path) >= 2 => NodeAt(x.seen, Front(path)) # {},
           NEW y, y = ResolveNode(x, path)
    PROVE  TreePass(upset, y)
  <1>1. CASE NodeAt(x.seen, path) # {}
    BY <1>1 DEF ResolveNode
  <1>2. CASE NodeAt(x.seen, path) = {}
    <2> DEFINE name == IF path = <<>> THEN RootName ELSE Last(path)
               parent == IF Len(path) < 2 THEN Null ELSE SeenNode(x, Front(path))
               db1 == WithNode(x.db, name, parent, path)
               id == x.db.next
               made == db1.nodes[id]
               row == [name |-> name, parent |-> parent, path |-> path]
    <2>1. y = [x EXCEPT !.db = db1, !.seen.nodes = Single(id, made) ++ @, !.nodes = Append(@, path)]
      BY <1>2 DEF ResolveNode
    <2>2. /\ DOMAIN x = {"db", "seen", "failed", "nodes", "roles", "actions"}
          /\ DOMAIN x.seen = {"nodes", "roles", "users"} /\ RowsTyped(x.db)
      BY DEF PassOK
    <2>3. x.seen.nodes = x.db.nodes /\ Sound(x.db.nodes, upset)
      BY DEF TreePass
    <2>4. ASSUME Len(path) >= 2
          PROVE  /\ parent \in DOMAIN x.db.nodes /\ path = OrgPath(name, x.db.nodes[parent].path)
      <3>1. parent = SeenNode(x, Front(path)) /\ name = Last(path)
        BY <2>4
      <3>2. SeenNode(x, Front(path)) \in NodeAt(x.seen, Front(path))
        BY <2>4 DEF SeenNode
      <3>3. parent \in DOMAIN x.db.nodes /\ x.db.nodes[parent].path = Front(path)
        BY <2>3, <3>1, <3>2 DEF NodeAt
      <3> HIDE DEF parent, name
      <3> QED
        BY <2>4, <3>1, <3>3, PathIsChild
    <2>5. ASSUME ~(Len(path) >= 2) PROVE parent = Null /\ ~(Len(path) > 1)
      BY <2>5
    <2>6. DOMAIN x.db.nodes \subseteq IdsIn(x.db) /\ Null \notin DOMAIN x.db.nodes /\ db1 = WithNode(x.db, name, parent, path)
      BY <2>2, TablesAre DEF Null, IdsIn
    <2>7. /\ DOMAIN y = DOMAIN x /\ y.db = db1 /\ DOMAIN y.seen = DOMAIN x.seen
          /\ y.seen.nodes = Single(id, made) ++ x.seen.nodes
      <3> HIDE DEF db1, made
      <3> QED
        BY <2>1, <2>2
    <2>8. db1.nodes = Single(id, row) ++ x.db.nodes
      BY <2>2 DEF WithNode, RowsTyped
    <2>9. row = [name |-> name, parent |-> parent, path |-> path]
      OBVIOUS
    <2>10. Fits(x.db.nodes, row)
      <3>1. row.name = name /\ row.parent = parent /\ row.path = path
        OBVIOUS
      <3> HIDE DEF row, name, parent
      <3> QED
        BY <2>4, <2>5, <2>6, <3>1 DEF Fits
    <2> HIDE DEF row, db1, name, parent
    <2>11. made = row
      BY <2>8 DEF made, Single, ++
    <2>12. y.seen.nodes = y.db.nodes
      BY <2>3, <2>7, <2>8, <2>11
    <2>13. parent \in IdsIn(x.db) \cup {Null}
      BY <2>4, <2>5, <2>6
    <2>14. Sound(db1.nodes, upset)
      BY ONLY <2>2, <2>3, <2>6, <2>9, <2>10, <2>13, WithNodeSound
    <2> QED
      BY <2>7, <2>12, <2>14 DEF TreePass
  <1> QED
    BY <1>1, <1>2

LEMMA ResolveNodesTree ==
    ASSUME NEW d, NEW gone, NEW x, RowsTyped(d), gone \subseteq IdsIn(d), PassOK(d, gone, x),
           NEW upset, TreePass(upset, x), NEW path \in Seq(Names), NEW y, y = ResolveNodes(x, path)
    PROVE  TreePass(upset, y)
  <1> DEFINE prefixes == PathPrefixes(path)
             n == Len(prefixes)
  <1>1. /\ n \in Nat /\ n >= 1 /\ prefixes[n] = path
        /\ \A i \in 1..n :
              prefixes[i] \in Seq(Names) /\ (Len(prefixes[i]) >= 2 => i >= 2 /\ Front(prefixes[i]) = prefixes[i - 1])
    <2>1. PrefixesOK(Names, path, prefixes)
      BY PrefixesAre
    <2> HIDE DEF prefixes
    <2> QED
      BY <2>1 DEF PrefixesOK
  <1>0. prefixes = PathPrefixes(path) /\ n = Len(prefixes)
    OBVIOUS
  <1> HIDE DEF prefixes, n
  <1>2. \E g : /\ g[0] = x /\ ResolveNodes(x, path) = g[n]
               /\ \A i \in 1..n : g[i] = ResolveNode(g[i - 1], prefixes[i])
    BY ONLY <1>0, <1>1, ResolveNodesIs
  <1>3. PICK g : /\ g[0] = x /\ ResolveNodes(x, path) = g[n]
                 /\ \A i \in 1..n : g[i] = ResolveNode(g[i - 1], prefixes[i])
    BY <1>2
  <1> DEFINE P(i) == /\ PassOK(d, gone, g[i]) /\ TreePass(upset, g[i])
                     /\ i >= 1 => NodeAt(g[i].seen, prefixes[i]) # {}
             Good == {i \in Nat : i <= n => P(i)}
  <1>4. 0 \in Good
    BY <1>3
  <1>5. ASSUME NEW i \in Nat, i \in Good PROVE i + 1 \in Good
    <2> SUFFICES ASSUME i + 1 <= n PROVE P(i + 1)
      BY <1>1
    <2>1. P(i) /\ i + 1 \in 1..n /\ (i + 1) - 1 = i
      BY <1>1, <1>5
    <2>2. g[i + 1] = ResolveNode(g[i], prefixes[i + 1])
      BY <1>3, <2>1
    <2>3. prefixes[i + 1] \in Seq(Names)
          /\ (Len(prefixes[i + 1]) >= 2 => NodeAt(g[i].seen, Front(prefixes[i + 1])) # {})
      BY <1>1, <2>1
    <2>4. PassOK(d, gone, g[i + 1]) /\ NodeAt(g[i + 1].seen, prefixes[i + 1]) # {}
      BY <2>1, <2>2, <2>3, ResolveNodeKeeps
    <2>5. TreePass(upset, g[i + 1])
      BY <2>1, <2>2, <2>3, ResolveNodeTree
    <2> QED
      BY <2>4, <2>5
  <1>6. n \in Good
    <2> HIDE DEF Good
    <2> QED
      BY <1>1, <1>4, <1>5, NatInduct
  <1> QED
    BY <1>1, <1>3, <1>6

\* The other passes of a row leave the nodes.
SameNodes(x, y) == y.db.nodes = x.db.nodes /\ y.seen.nodes = x.seen.nodes

LEMMA ResolveRoleSameNodes ==
    ASSUME NEW d, NEW gone, NEW x, PassOK(d, gone, x), NEW name, NEW y, y = ResolveRole(x, name)
    PROVE  SameNodes(x, y)
  <1> DEFINE db1 == WithRole(x.db, name)
             roles1 == Single(x.db.next, name) ++ x.seen.roles
             made1 == Append(x.roles, name)
  <1>1. /\ DOMAIN x = {"db", "seen", "failed", "nodes", "roles", "actions"}
        /\ DOMAIN x.seen = {"nodes", "roles", "users"} /\ RowsTyped(x.db)
    BY DEF PassOK
  <1>2. db1.nodes = x.db.nodes
    BY <1>1 DEF WithRole, RowsTyped
  <1>3. y = x \/ y = [x EXCEPT !.db = db1, !.seen.roles = roles1, !.roles = made1]
    BY DEF ResolveRole
  <1> HIDE DEF db1, roles1, made1
  <1>4. \/ y.db = x.db /\ y.seen = x.seen
        \/ y.db = db1 /\ y.seen = [x.seen EXCEPT !.roles = roles1]
    BY <1>1, <1>3
  <1> QED
    BY <1>1, <1>2, <1>4 DEF SameNodes

LEMMA ResolveRolesSameNodes ==
    ASSUME NEW d, NEW gone, NEW x, RowsTyped(d), gone \subseteq IdsIn(d), PassOK(d, gone, x),
           NEW names \in Seq(Names), NEW y, y = ResolveRoles(x, names)
    PROVE  SameNodes(x, y)
  <1> DEFINE n == Len(names)
  <1>1. n \in Nat /\ \A i \in 1..n : names[i] \in Names
    OBVIOUS
  <1>2. \E g : /\ g[0] = x /\ ResolveRoles(x, names) = g[n]
               /\ \A i \in 1..n : g[i] = ResolveRole(g[i - 1], names[i])
    BY <1>1, ResolveRolesIs
  <1>3. PICK g : /\ g[0] = x /\ ResolveRoles(x, names) = g[n]
                 /\ \A i \in 1..n : g[i] = ResolveRole(g[i - 1], names[i])
    BY <1>2
  <1> DEFINE P(i) == PassOK(d, gone, g[i]) /\ SameNodes(x, g[i])
             Good == {i \in Nat : i <= n => P(i)}
  <1> HIDE DEF n
  <1>4. 0 \in Good
    BY <1>3 DEF SameNodes
  <1>5. ASSUME NEW i \in Nat, i \in Good PROVE i + 1 \in Good
    <2> SUFFICES ASSUME i + 1 <= n PROVE P(i + 1)
      BY <1>1
    <2>1. P(i) /\ i + 1 \in 1..n /\ (i + 1) - 1 = i
      BY <1>1, <1>5
    <2>2. g[i + 1] = ResolveRole(g[i], names[i + 1]) /\ names[i + 1] \in Names
      BY <1>1, <1>3, <2>1
    <2>3. PassOK(d, gone, g[i + 1])
      BY <2>1, <2>2, ResolveRoleKeeps
    <2>4. SameNodes(g[i], g[i + 1])
      BY <2>1, <2>2, ResolveRoleSameNodes
    <2> QED
      BY <2>1, <2>3, <2>4 DEF SameNodes
  <1>6. n \in Good
    <2> HIDE DEF Good
    <2> QED
      BY <1>1, <1>4, <1>5, NatInduct
  <1> QED
    BY <1>1, <1>3, <1>6

LEMMA ImportUserSameNodes ==
    ASSUME NEW d, NEW gone, NEW x, PassOK(d, gone, x), NEW row, NEW node, NEW roleIds, NEW u, NEW y,
           y = ImportNew(x, row, node, roleIds) \/ y = ImportKnown(x, u, node, roleIds)
    PROVE  SameNodes(x, y)
  <1>1. /\ DOMAIN x = {"db", "seen", "failed", "nodes", "roles", "actions"}
        /\ DOMAIN x.seen = {"nodes", "roles", "users"} /\ RowsTyped(x.db)
        /\ DOMAIN x.db = {"users", "roles", "nodes", "links", "keys", "next"}
    BY DEF PassOK, RowsTyped
  <1>2. CASE y = ImportNew(x, row, node, roleIds)
    <2> DEFINE db1 == WithUser(x.db, row.ref, node, roleIds)
               users1 == Single(x.db.next, db1.users[x.db.next]) ++ x.seen.users
               actions1 == Append(x.actions, "create")
    <2>1. db1.nodes = x.db.nodes
      BY <1>1 DEF WithUser
    <2>2. y = [x EXCEPT !.db = db1, !.seen.users = users1, !.actions = actions1]
      BY <1>2 DEF ImportNew
    <2> HIDE DEF db1, users1, actions1
    <2>3. y.db = db1 /\ y.seen = [x.seen EXCEPT !.users = users1]
      BY <1>1, <2>2
    <2> QED
      BY <1>1, <2>1, <2>3 DEF SameNodes
  <1>3. CASE y = ImportKnown(x, u, node, roleIds)
    <2> DEFINE object == Single(u, [x.seen.users[u] EXCEPT !.node = node, !.status = "active"])
               users1 == Flushed(x.db.users, x.seen.users, object)
               links1 == ReplacedLinks(x.db, u, roleIds)
               seen1 == object ++ x.seen.users
               failed1 == x.failed \/ Stale(x.db.users, x.seen.users, object)
               actions1 == Append(x.actions, "update")
    <2>1. y = [x EXCEPT !.db.users = users1, !.db.links = links1, !.seen.users = seen1,
                        !.failed = failed1, !.actions = actions1]
      BY <1>3 DEF ImportKnown
    <2> HIDE DEF users1, links1, seen1, failed1, actions1
    <2>2. y.db = [x.db EXCEPT !.users = users1, !.links = links1] /\ y.seen = [x.seen EXCEPT !.users = seen1]
      BY <1>1, <2>1
    <2> QED
      BY <1>1, <2>2 DEF SameNodes
  <1> QED
    BY <1>2, <1>3

LEMMA ImportRowTree ==
    ASSUME NEW d, NEW gone, NEW x, RowsTyped(d), gone \subseteq IdsIn(d), PassOK(d, gone, x),
           NEW upset, TreePass(upset, x),
           NEW row, row.path \in Seq(Names), row.roles \in Seq(Names), NEW z, z = ImportRow(x, row)
    PROVE  TreePass(upset, z)
  <1> DEFINE w == ResolveNodes(x, row.path)
             y == ResolveRoles(w, row.roles)
             node == SeenNode(y, row.path)
             roleIds == {SeenRole(y, name) : name \in Range(row.roles)}
             known == UserOf(y.seen, row.ref)
             u == CHOOSE v \in known : TRUE
  <1>1. z = ImportNew(y, row, node, roleIds) \/ z = ImportKnown(y, u, node, roleIds)
    BY DEF ImportRow
  <1>2. PassOK(d, gone, w) /\ TreePass(upset, w)
    BY ResolveNodesKeep, ResolveNodesTree
  <1>3. y = ResolveRoles(w, row.roles)
    OBVIOUS
  <1> HIDE DEF w, y, node, roleIds, u
  <1>4. PassOK(d, gone, y) /\ SameNodes(w, y)
    BY <1>2, <1>3, ResolveRolesKeep, ResolveRolesSameNodes
  <1>5. SameNodes(y, z)
    BY <1>1, <1>4, ImportUserSameNodes
  <1> QED
    BY <1>2, <1>4, <1>5 DEF SameNodes, TreePass

LEMMA ImportTree ==
    ASSUME NEW d, RowsTyped(d), NEW gone \in SUBSET IdsIn(d), Refers(d, gone),
           NEW seen, ReadOK(d, gone, seen), seen.nodes = d.nodes, NEW upset, Sound(d.nodes, upset),
           NEW rows \in FileRows, NEW x, x = ExecuteImport(d, seen, rows)
    PROVE  Sound(x.db.nodes, upset)
  <1> DEFINE n == Len(rows)
             loaded == seen.users
  <1>1. n \in Nat /\ \A i \in 1..n : /\ rows[i].ref \in Refs /\ rows[i].path \in Seq(Names)
                                     /\ rows[i].roles \in Seq(Names)
    <2> DEFINE Row == [ref: Refs, path: Seq(Names), roles: Seq(Names)]
    <2>1. \A r \in Row : r.ref \in Refs /\ r.path \in Seq(Names) /\ r.roles \in Seq(Names)
      OBVIOUS
    <2>2. rows \in Seq(Row)
      BY DEF FileRows
    <2> HIDE DEF Row
    <2>3. n \in Nat /\ \A i \in 1..n : rows[i] \in Row
      BY <2>2
    <2> QED
      BY <2>1, <2>3
  <1>2. \E g : /\ g[0] = Start(d, seen) /\ x = [g[n] EXCEPT !.failed = @ \/ ~Unique(g[n].db)]
               /\ \A i \in 1..n : g[i] = ImportRow(g[i - 1], rows[i])
    BY <1>1, ExecuteImportIs
  <1>3. PICK g : /\ g[0] = Start(d, seen) /\ x = [g[n] EXCEPT !.failed = @ \/ ~Unique(g[n].db)]
                 /\ \A i \in 1..n : g[i] = ImportRow(g[i - 1], rows[i])
    BY <1>2
  <1>4. \A u \in DOMAIN loaded : loaded[u].status \in {"active", "disabled"}
    BY UserRowIs DEF ReadOK
  <1> DEFINE P(i) == PassOK(d, gone, g[i]) /\ StatusOK(d, loaded, g[i]) /\ TreePass(upset, g[i])
             Good == {i \in Nat : i <= n => P(i)}
  <1> HIDE DEF n, loaded
  <1>5. 0 \in Good
    <2>1. NewIdsAreNew(d, d) /\ KeysGrow(d, d)
      BY DEF NewIdsAreNew, KeysGrow, RowsTyped
    <2>2. /\ DOMAIN g[0] = {"db", "seen", "failed", "nodes", "roles", "actions"}
          /\ g[0].db = d /\ g[0].seen = seen
      BY <1>3 DEF Start
    <2>3. PassOK(d, gone, g[0])
      BY <2>1, <2>2 DEF PassOK, ReadOK
    <2>4. StatusOK(d, loaded, g[0])
      BY <1>4, <2>2 DEF StatusOK, loaded
    <2>5. TreePass(upset, g[0])
      BY <2>2 DEF TreePass
    <2> QED
      BY <2>3, <2>4, <2>5
  <1>6. ASSUME NEW i \in Nat, i \in Good PROVE i + 1 \in Good
    <2> SUFFICES ASSUME i + 1 <= n PROVE P(i + 1)
      BY <1>1
    <2>1. P(i) /\ i + 1 \in 1..n /\ (i + 1) - 1 = i
      BY <1>1, <1>6
    <2> DEFINE row == rows[i + 1]
               here == g[i]
               then == g[i + 1]
    <2>2. then = ImportRow(here, row) /\ row.ref \in Refs /\ row.path \in Seq(Names) /\ row.roles \in Seq(Names)
      BY <1>1, <1>3, <2>1
    <2>3. PassOK(d, gone, here) /\ StatusOK(d, loaded, here) /\ TreePass(upset, here)
      BY <2>1
    <2> HIDE DEF row, here, then
    <2>4. PassOK(d, gone, then) /\ StatusOK(d, loaded, then)
      BY <1>4, <2>2, <2>3, ImportRowKeeps
    <2>5. TreePass(upset, then)
      BY <2>2, <2>3, ImportRowTree
    <2> QED
      BY <2>4, <2>5 DEF then
  <1>7. P(n)
    <2> HIDE DEF Good
    <2>1. n \in Good
      BY <1>1, <1>5, <1>6, NatInduct
    <2> QED
      BY <1>1, <2>1 DEF Good
  <1>8. x.db = g[n].db
    <2>1. DOMAIN g[n] = {"db", "seen", "failed", "nodes", "roles", "actions"}
      BY <1>7 DEF PassOK
    <2> QED
      BY <1>3, <2>1
  <1> QED
    BY <1>7, <1>8 DEF TreePass

LEMMA ImportKeepsTree ==
    ASSUME DirectoryInv, TreeInv, NEW a \in Admin, execute_excel_import(a)
    PROVE  TreeInv'
  <1> DEFINE s == sess[a]
             d == db
             gone == past.raced
             seen == [nodes |-> s.nodes, roles |-> s.roles, users |-> s.users]
             rows == s.rows
             x == ExecuteImport(db, seen, rows)
             upset == Noted(a, x.db).upset
  <1>1. Is(a, "import") /\ At(a, "write") /\ Write(a, x.failed, x.db) /\ s.op = "import"
    BY DEF execute_excel_import, Is
  <1>2. past.upset \subseteq upset
    BY UpsetIs
  <1>3. Sound(x.db.nodes, upset)
    <2>1. CASE "overlap" \in past.upset
      BY <1>2, <2>1 DEF Sound
    <2>2. CASE "overlap" \notin past.upset
      <3>1. /\ InProgress(d, past, s) /\ RowsTyped(d) /\ Refers(d, gone) /\ gone \in SUBSET IdsIn(d)
            /\ Found(d, past, s, "select_nodes") /\ Found(d, past, s, "select_roles")
            /\ Found(d, past, s, "select_users")
        BY <1>1, AtWrite DEF TablesTyped, StepNames
      <3>2. rows \in FileRows
        BY <1>1, <3>1, DirectoryAssumption DEF InProgress, AskedOK, FileRows
      <3>3. ReadOK(d, gone, seen)
        BY <1>1, <3>1 DEF Found, ReadOK
      <3>4. seen.nodes = d.nodes
        BY <1>1, <2>2, WritesUpToDate DEF Current, NodeOps, StepNames
      <3>5. Sound(d.nodes, upset)
        BY <1>2, MoreUpset DEF TreeInv
      <3>6. x = ExecuteImport(d, seen, rows)
        OBVIOUS
      <3> HIDE DEF x, seen, rows, upset, gone, d
      <3> QED
        BY ONLY <3>1, <3>2, <3>3, <3>4, <3>5, <3>6, ImportTree
    <2> QED
      BY <2>1, <2>2
  <1> HIDE DEF x
  <1> QED
    BY <1>1, <1>3, WriteKeepsTree

-----------------------------------------------------------------------------
(* The theorems. *)

LEMMA TreeInit == Init => TreeInv
  <1>1. SUFFICES ASSUME Init PROVE TreeInv
    OBVIOUS
  <1>2. db \in Seeds /\ sess = [a \in Admin |-> NoRequest] /\ past.upset = {}
    BY <1>1 DEF Init
  <1>3. Sound(db.nodes, past.upset)
    BY <1>2, DirectoryAssumption DEF Sound
  <1>4. \A a \in Admin : sess[a].op \notin NodeOps
    BY <1>2 DEF NoRequest, NodeOps
  <1> QED
    BY <1>3, <1>4 DEF TreeInv

\* As long as no two requests on nodes overlapped, the tree is a forest, and what a
\* request on nodes in progress (directory_service.py, pipeline.py) has read of it, its
\* walk up the ancestors included, is what the tables hold.
THEOREM TreeInvHolds == Spec => []TreeInv
  <1>1. ASSUME DirectoryInv, TreeInv, [Next]_vars PROVE TreeInv'
    <2>1. CASE UNCHANGED vars
      BY <1>1, <2>1 DEF vars, TreeInv
    <2>2. ASSUME NEW a \in Admin, Begin(a) PROVE TreeInv'
      BY <1>1, <2>2, BeginKeepsTree
    <2>3. ASSUME NEW a \in Admin, Reads(a) PROVE TreeInv'
      BY <1>1, <2>3, ReadsKeepTree
    <2>4. ASSUME NEW a \in Admin, Writes(a) PROVE TreeInv'
      BY <1>1, <2>4, OtherWritesKeepTree, CreateNodeKeepsTree, UpdateNodeKeepsTree, DeleteNodeKeepsTree,
         ImportKeepsTree DEF Writes
    <2> QED
      BY <1>1, <2>1, <2>2, <2>3, <2>4 DEF Next
  <1> QED
    BY <1>1, TreeInit, DirectoryInvHolds, PTL DEF Spec

\* Moves keep the tree a forest, because _is_descendant (directory_service.py) walks up
\* from the new parent, unless a node was written while another request on nodes was
\* under way.
THEOREM MovesKeepForestHolds == Spec => []MovesKeepForest
  <1>1. TreeInv => MovesKeepForest
    BY DEF TreeInv, Sound, MovesKeepForest
  <1> QED
    BY <1>1, TreeInvHolds, PTL

\* A node's path is its parent's with its name added, because _update_descendant_paths
\* (directory_service.py) rewrites all below a node that moves, unless requests on nodes
\* overlapped, the root was edited, or LIKE took another name for the node's.
THEOREM PathsFollowParentsHolds == Spec => []PathsFollowParents
  <1>1. TreeInv => PathsFollowParents
    BY DEF TreeInv, Sound, PathsFollowParents
  <1> QED
    BY <1>1, TreeInvHolds, PTL
=============================================================================
