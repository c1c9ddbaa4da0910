--------------------------- MODULE DirectoryProofs ---------------------------
(***************************************************************************)
(* The directory for any number of admins, requests, batches and rows.  A  *)
(* request writes what it was asked for and what it loaded some commits    *)
(* ago: the invariant says of each request what has become of that since.  *)
(***************************************************************************)
EXTENDS DirectoryProperties, FiniteSetTheorems, SequenceTheorems, WellFoundedInduction, TLAPS

Ops == {"create_user", "update_user", "delete_user", "reset_user_key", "create_role",
        "update_role", "delete_role", "update_api_key", "revoke_api_key",
        "create_org_node", "update_org_node", "delete_org_node", "import"}

StepNames == {"require_org_node", "require_roles", "select_user", "select_keys", "select_key",
              "select_role", "select_links", "select_node", "select_children",
              "select_direct_users", "select_parent", "walk", "select_descendants",
              "select_nodes", "select_roles", "select_users", "write"}

Done(s, step) == step \notin Range(s.todo)

\* What a request was asked for; rows it names were there, and may have gone.
AskedOK(d, gone, s) ==
    LET users == DOMAIN d.users \cup gone
        roles == DOMAIN d.roles \cup gone
        nodes == DOMAIN d.nodes \cup gone \cup {Null}
    IN  /\ s.op = "create_user" =>
              /\ {"ref", "org", "roles"} \subseteq DOMAIN s
              /\ s.ref \in Refs /\ s.org \in nodes /\ s.roles \subseteq roles
        /\ s.op = "update_user" =>
              /\ {"user", "org", "roles", "status"} \subseteq DOMAIN s
              /\ s.user \in users /\ s.org \in nodes \cup {Keep}
              /\ s.roles = Keep \/ s.roles \subseteq roles
              /\ s.status \in {"active", "disabled", Keep}
        /\ s.op \in {"delete_user", "reset_user_key"} => "user" \in DOMAIN s /\ s.user \in users
        /\ s.op \in {"create_role", "update_role"} => "name" \in DOMAIN s /\ s.name \in Names
        /\ s.op \in {"update_role", "delete_role"} => "role" \in DOMAIN s
        /\ s.op \in {"update_api_key", "revoke_api_key"} => "key" \in DOMAIN s
        /\ s.op = "create_org_node" =>
              {"name", "org"} \subseteq DOMAIN s /\ s.name \in Names /\ s.org \in nodes
        /\ s.op = "update_org_node" =>
              /\ {"node", "name", "org"} \subseteq DOMAIN s
              /\ s.name \in Names \cup {Keep} /\ s.org \in nodes \cup {Keep}
        /\ s.op = "delete_org_node" => "node" \in DOMAIN s
        /\ s.op = "import" => "rows" \in DOMAIN s /\ s.rows \in Batches

Usable(d, k) == d.keys[k].runtime /\ d.keys[k].active

\* What it knows after a step: rows it has loaded, those it will refer to among them
\* may have gone; and that what it deletes was not referred to, unless others
\* committed since.  A reset has loaded the runtime keys that are left of those of its
\* beginning and, unless another reset met it, all that there are.
Found(d, p, s, step) ==
    LET ids == IdsIn(d) IN
    /\ step = "select_user" /\ s.op = "update_user" => "row" \in DOMAIN s /\ s.row \in UserRow(ids)
    /\ step = "select_keys" /\ s.op = "reset_user_key" =>
          /\ "keys" \in DOMAIN s /\ \A k \in DOMAIN s.keys : s.keys[k] \in KeyRow({s.user}) /\ s.keys[k].active
          /\ \A k \in s.keysBefore \cap DOMAIN d.keys :
                Usable(d, k) => k \in DOMAIN s.keys /\ s.keys[k].runtime
          /\ s.user \in DOMAIN d.users \ p.clashes =>
                \A k \in RuntimeKeys(d, s.user) : k \in DOMAIN s.keys /\ s.keys[k].runtime
    /\ step = "select_key" /\ s.op \in {"update_api_key", "revoke_api_key"} =>
          "row" \in DOMAIN s /\ s.row \in KeyRow(ids)
    /\ step = "select_links" /\ s.op = "delete_role" /\ ~s.overtaken =>
          \A x \in d.links : x[2] # s.role
    /\ step = "select_children" /\ s.op = "delete_org_node" /\ ~s.overtaken =>
          \A n \in DOMAIN d.nodes : d.nodes[n].parent # s.node
    /\ step = "select_direct_users" /\ s.op = "delete_org_node" /\ ~s.overtaken =>
          \A u \in DOMAIN d.users : d.users[u].node # s.node
    /\ step = "select_node" /\ s.op = "update_org_node" =>
          "row" \in DOMAIN s /\ s.row \in NodeRow(ids)
    /\ step = "select_parent" /\ s.op \in {"create_org_node", "update_org_node"} =>
          /\ "parent" \in DOMAIN s /\ DOMAIN s.parent \subseteq DOMAIN d.nodes \cup p.raced
          /\ s.parent \in [DOMAIN s.parent -> NodeRow(ids)]
    /\ step = "select_nodes" /\ s.op = "import" =>
          /\ "nodes" \in DOMAIN s /\ DOMAIN s.nodes \subseteq DOMAIN d.nodes \cup p.raced
          /\ \A n \in DOMAIN s.nodes : s.nodes[n] \in NodeRow(ids)
    /\ step = "select_roles" /\ s.op = "import" =>
          /\ "roles" \in DOMAIN s /\ DOMAIN s.roles \subseteq DOMAIN d.roles \cup p.raced
          /\ \A r \in DOMAIN s.roles : s.roles[r] \in Names
    /\ step = "select_users" /\ s.op = "import" =>
          /\ "users" \in DOMAIN s /\ DOMAIN s.users \subseteq DOMAIN d.users \cup p.raced
          /\ \A u \in DOMAIN s.users : s.users[u] \in UserRow(ids)

KeysBeforeOK(d, s) ==
    /\ s.keysBefore \subseteq IdsIn(d)
    /\ s.op = "reset_user_key" =>
          \A k \in s.keysBefore \cap DOMAIN d.keys : d.keys[k].user = s.user

BelowOK(d, s) ==
    s.op = "update_org_node" /\ "below" \in DOMAIN s =>
        \A n \in DOMAIN s.below : s.below[n] \in NodeRow(IdsIn(d))

InProgress(d, p, s) ==
    /\ s.op \in Ops /\ {"op", "todo", "overtaken", "keysBefore"} \subseteq DOMAIN s
    /\ s.todo \in Seq(StepNames) \ {<<>>} /\ IsSuffix(s.todo, Steps(s.op)) /\ s.overtaken \in BOOLEAN
    /\ AskedOK(d, p.raced, s) /\ KeysBeforeOK(d, s) /\ BelowOK(d, s)
    /\ \A step \in StepNames : Done(s, step) => Found(d, p, s, step)

OneKey(d, u) == \A k, l \in RuntimeKeys(d, u) : k = l

TablesOK(d, p) ==
    /\ TablesTyped(d) /\ Refers(d, p.raced)
    /\ p.raced \subseteq IdsIn(d) /\ p.retired \subseteq IdsIn(d)
    /\ \A k \in p.retired \cap DOMAIN d.keys : ~Usable(d, k)
    /\ \A u \in DOMAIN d.users \ p.clashes : OneKey(d, u)

DirectoryInv ==
    /\ DOMAIN sess = Admin /\ DOMAIN past = {"retired", "clashes", "raced", "upset", "roots"}
    /\ TablesOK(db, past)
    /\ \A a \in Admin : sess[a] = NoRequest \/ InProgress(db, past, sess[a])
-----------------------------------------------------------------------------
(* Induction over the numbers, by sets. *)

LEMMA NatInduct ==
    ASSUME NEW S, 0 \in S, \A n \in Nat : n \in S => n + 1 \in S
    PROVE  Nat \subseteq S
  <1> SUFFICES ASSUME Nat \ S # {} PROVE FALSE
    OBVIOUS
  <1> DEFINE T == Nat \ S
  <1>1. PICK n \in T : \A m \in T : <<m, n>> \notin OpToRel(<, Nat)
    BY NatLessThanWellFounded, WFMin, T \subseteq Nat, T # {}
  <1>2. \A m \in T : ~(m < n)
    BY <1>1 DEF OpToRel
  <1>3. n - 1 \in Nat /\ n - 1 \notin T
    BY <1>2
  <1> QED
    BY <1>3

-----------------------------------------------------------------------------
(* Rows that are written. *)

LEMMA FlushedIs ==
    ASSUME NEW table, NEW loaded, NEW object, NEW new, new = Flushed(table, loaded, object)
    PROVE  /\ DOMAIN new = DOMAIN table
           /\ \A i \in DOMAIN table :
                \/ new[i] = table[i]
                \/ /\ i \in DOMAIN object
                   /\ new[i] = [c \in DOMAIN table[i] |->
                                  IF object[i][c] # loaded[i][c] THEN object[i][c] ELSE table[i][c]]
  BY DEF Flushed, Dirty

LEMMA UserRowIs ==
    ASSUME NEW ids, NEW r
    PROVE  r \in UserRow(ids) =>
             /\ DOMAIN r = {"ref", "node", "status"}
             /\ r.ref \in Refs /\ r.node \in ids \cup {Null} /\ r.status \in {"active", "disabled"}
  BY DEF UserRow

LEMMA FlushedUsers ==
    ASSUME NEW table, NEW loaded, NEW object, NEW ids,
           \A u \in DOMAIN table : table[u] \in UserRow(ids),
           \A u \in DOMAIN object : object[u] \in UserRow(ids)
    PROVE  \A u \in DOMAIN table : Flushed(table, loaded, object)[u] \in UserRow(ids)
  <1> DEFINE new == Flushed(table, loaded, object)
  <1> SUFFICES ASSUME NEW u \in DOMAIN table PROVE new[u] \in UserRow(ids)
    OBVIOUS
  <1>1. CASE new[u] = table[u]
    BY <1>1
  <1>2. CASE /\ u \in DOMAIN object
             /\ new[u] = [c \in DOMAIN table[u] |->
                            IF object[u][c] # loaded[u][c] THEN object[u][c] ELSE table[u][c]]
    <2>1. table[u] \in UserRow(ids) /\ object[u] \in UserRow(ids)
      BY <1>2
    <2>2. DOMAIN table[u] = {"ref", "node", "status"}
      BY <2>1 DEF UserRow
    <2> QED
      BY <1>2, <2>1, <2>2 DEF UserRow
  <1> QED
    BY <1>1, <1>2, FlushedIs
-----------------------------------------------------------------------------
(* The steps of a request. *)

LEMMA SuffixIs ==
    ASSUME NEW T, NEW s \in Seq(T), NEW t \in Seq(T)
    PROVE  IsSuffix(s, t) <=>
             /\ Len(s) <= Len(t)
             /\ \A i \in 1..Len(s) : s[i] = t[Len(t) - Len(s) + i]
  <1> DEFINE r == Reverse(s)
             v == Reverse(t)
  <1>1. /\ r \in Seq(T) /\ Len(r) = Len(s) /\ \A i \in 1..Len(s) : r[i] = s[Len(s) - i + 1]
        /\ v \in Seq(T) /\ Len(v) = Len(t) /\ \A i \in 1..Len(t) : v[i] = t[Len(t) - i + 1]
    BY DEF Reverse
  <1> HIDE DEF r, v
  <1>2. IsSuffix(s, t) <=> Len(r) <= Len(v) /\ SubSeq(r, 1, Len(r)) = SubSeq(v, 1, Len(r))
    BY DEF IsSuffix, IsPrefix, r, v
  <1>3. SUFFICES ASSUME Len(s) <= Len(t)
                 PROVE  SubSeq(r, 1, Len(r)) = SubSeq(v, 1, Len(r))
                          <=> \A i \in 1..Len(s) : s[i] = t[Len(t) - Len(s) + i]
    BY <1>1, <1>2
  <1>4. /\ SubSeq(r, 1, Len(r)) = [i \in 1..Len(s) |-> r[i]]
        /\ SubSeq(v, 1, Len(r)) = [i \in 1..Len(s) |-> v[i]]
    BY <1>1, <1>3
  <1>5. SubSeq(r, 1, Len(r)) = SubSeq(v, 1, Len(r)) <=> \A i \in 1..Len(s) : r[i] = v[i]
    BY <1>4
  <1>6. ASSUME \A i \in 1..Len(s) : r[i] = v[i], NEW i \in 1..Len(s)
        PROVE  s[i] = t[Len(t) - Len(s) + i]
    <2> DEFINE j == Len(s) - i + 1
    <2>1. j \in 1..Len(s) /\ j \in 1..Len(t) /\ Len(s) - j + 1 = i /\ Len(t) - j + 1 = Len(t) - Len(s) + i
      BY <1>3
    <2> QED
      BY <1>1, <1>6, <2>1
  <1>7. ASSUME \A i \in 1..Len(s) : s[i] = t[Len(t) - Len(s) + i], NEW i \in 1..Len(s)
        PROVE  r[i] = v[i]
    <2> DEFINE j == Len(s) - i + 1
    <2>1. j \in 1..Len(s) /\ i \in 1..Len(t) /\ Len(t) - Len(s) + j = Len(t) - i + 1
      BY <1>3
    <2> QED
      BY <1>1, <1>7, <2>1
  <1> QED
    BY <1>5, <1>6, <1>7

LEMMA RangeOfTail ==
    ASSUME NEW T, NEW s \in Seq(T), s # <<>>
    PROVE  /\ Range(s) = {Head(s)} \cup Range(Tail(s))
           /\ \A x \in Range(Tail(s)) : \E i \in 2..Len(s) : s[i] = x
  <1>1. /\ Len(s) \in Nat /\ Len(s) > 0 /\ DOMAIN s = 1..Len(s) /\ Head(s) = s[1]
        /\ DOMAIN Tail(s) = 1..(Len(s) - 1)
        /\ \A i \in 1..(Len(s) - 1) : Tail(s)[i] = s[i + 1]
    OBVIOUS
  <1>2. ASSUME NEW x \in Range(s) PROVE x \in {Head(s)} \cup Range(Tail(s))
    <2>1. PICK i \in 1..Len(s) : s[i] = x
      BY <1>1, <1>2 DEF Range
    <2>2. CASE i = 1
      BY <1>1, <2>1, <2>2
    <2>3. CASE i # 1
      <3>1. i - 1 \in 1..(Len(s) - 1) /\ Tail(s)[i - 1] = x
        BY <1>1, <2>1, <2>3
      <3> QED
        BY <1>1, <3>1 DEF Range
    <2> QED
      BY <2>2, <2>3
  <1>3. ASSUME NEW x \in Range(Tail(s)) PROVE \E i \in 2..Len(s) : s[i] = x
    <2>1. PICK i \in 1..(Len(s) - 1) : Tail(s)[i] = x
      BY <1>1, <1>3 DEF Range
    <2> QED
      BY <1>1, <2>1
  <1>4. 1 \in DOMAIN s /\ \A i \in 2..Len(s) : i \in DOMAIN s
    BY <1>1
  <1>5. Head(s) \in Range(s) /\ Range(Tail(s)) \subseteq Range(s)
    BY <1>1, <1>3, <1>4 DEF Range
  <1> QED
    BY <1>2, <1>3, <1>5

\* Every request ends with its write, and has no step twice.
StepsOK(steps) ==
    /\ steps \in Seq(StepNames) /\ Len(steps) > 0 /\ steps[Len(steps)] = "write"
    /\ \A i \in 1..(Len(steps) - 1) : steps[i] # "write"
    /\ \A i, j \in 1..Len(steps) : steps[i] = steps[j] => i = j

LEMMA StepsAre == \A op \in Ops : StepsOK(Steps(op))
  <1>1. StepsOK(<<"require_org_node", "require_roles", "write">>)
    BY DEF StepsOK, StepNames
  <1>2. StepsOK(<<"require_org_node", "require_roles", "select_user", "write">>)
    BY DEF StepsOK, StepNames
  <1>3. StepsOK(<<"select_user", "write">>) /\ StepsOK(<<"select_user", "select_keys", "write">>)
    BY DEF StepsOK, StepNames
  <1>4. StepsOK(<<"write">>) /\ StepsOK(<<"select_role", "write">>) /\ StepsOK(<<"select_key", "write">>)
    BY DEF StepsOK, StepNames
  <1>5. StepsOK(<<"select_role", "select_links", "write">>)
    BY DEF StepsOK, StepNames
  <1>6. StepsOK(<<"require_org_node", "select_parent", "write">>)
    BY DEF StepsOK, StepNames
  <1>7. StepsOK(<<"require_org_node", "select_node", "select_parent", "walk", "select_descendants", "write">>)
    BY DEF StepsOK, StepNames
  <1>8. StepsOK(<<"select_node", "select_children", "select_direct_users", "write">>)
    BY DEF StepsOK, StepNames
  <1>9. StepsOK(<<"select_nodes", "select_roles", "select_users", "write">>)
    BY DEF StepsOK, StepNames
  <1> QED
    BY <1>1, <1>2, <1>3, <1>4, <1>5, <1>6, <1>7, <1>8, <1>9 DEF Ops, Steps

\* A request at a step: what it has done, and what is left of it then.
LEMMA AtStep ==
    ASSUME NEW op \in Ops, NEW todo \in Seq(StepNames) \ {<<>>}, IsSuffix(todo, Steps(op))
    PROVE  /\ \E i \in 1..Len(Steps(op)) : Head(todo) = Steps(op)[i]
           /\ Range(todo) = {Head(todo)} \cup Range(Tail(todo)) /\ Head(todo) \notin Range(Tail(todo))
           /\ Head(todo) = "write" => Range(todo) = {"write"}
           /\ Head(todo) # "write" =>
                 Tail(todo) \in Seq(StepNames) \ {<<>>} /\ IsSuffix(Tail(todo), Steps(op))
           /\ IsSuffix(<<"write">>, Steps(op))
           /\ \A i, j \in 1..Len(Steps(op)) :
                 Head(todo) = Steps(op)[i] /\ j < i => Steps(op)[j] \notin Range(todo)
  <1> DEFINE steps == Steps(op)
             m == Len(steps)
             n == Len(todo)
  <1>1. /\ steps \in Seq(StepNames) /\ m > 0 /\ steps[m] = "write"
        /\ \A i \in 1..(m - 1) : steps[i] # "write"
        /\ \A i, j \in 1..m : steps[i] = steps[j] => i = j
    BY StepsAre DEF StepsOK
  <1> HIDE DEF steps
  <1>2. n \in Nat /\ n > 0 /\ n <= m /\ m \in Nat /\ \A i \in 1..n : todo[i] = steps[m - n + i]
    BY <1>1, SuffixIs DEF steps
  <1>3. Head(todo) = todo[1]
    BY <1>2
  <1>4. /\ Tail(todo) \in Seq(StepNames) /\ Len(Tail(todo)) = n - 1
        /\ \A i \in 1..(n - 1) : Tail(todo)[i] = todo[i + 1]
    BY <1>2
  <1>5. DOMAIN todo = 1..n /\ DOMAIN Tail(todo) = 1..(n - 1)
    BY <1>2, <1>4
  <1>6. /\ Range(todo) = {Head(todo)} \cup Range(Tail(todo))
        /\ \A x \in Range(Tail(todo)) : \E i \in 2..n : todo[i] = x
    BY RangeOfTail
  <1>7. Head(todo) \notin Range(Tail(todo))
    <2> SUFFICES ASSUME NEW i \in 2..n, todo[i] = todo[1] PROVE FALSE
      BY <1>3, <1>6
    <2>1. steps[m - n + 1] = steps[m - n + i] /\ m - n + 1 \in 1..m /\ m - n + i \in 1..m
      BY <1>2
    <2>2. m - n + 1 = m - n + i
      BY <1>1, <2>1
    <2> QED
      BY <1>2, <2>2
  <1>8. ASSUME Head(todo) = "write" PROVE Range(todo) = {"write"}
    <2>1. m - n + 1 = m
      BY <1>1, <1>2, <1>3, <1>8
    <2> QED
      BY <1>2, <1>5, <1>8, <1>3, <2>1 DEF Range
  <1>9. ASSUME Head(todo) # "write"
        PROVE  Tail(todo) \in Seq(StepNames) \ {<<>>} /\ IsSuffix(Tail(todo), steps)
    <2>1. n > 1
      BY <1>1, <1>2, <1>3, <1>9
    <2>2. \A i \in 1..(n - 1) : Tail(todo)[i] = steps[m - (n - 1) + i]
      BY <1>2, <1>4
    <2>3. Tail(todo) # <<>>
      <3>1. Len(Tail(todo)) # 0 /\ Len(<<>>) = 0
        BY <1>2, <1>4, <2>1
      <3> QED
        BY <3>1
    <2> DEFINE rest == Tail(todo)
    <2>4. rest \in Seq(StepNames) /\ Len(rest) = n - 1
      BY <1>4
    <2> HIDE DEF rest
    <2>5. Len(rest) <= Len(steps) /\ \A i \in 1..Len(rest) : rest[i] = steps[Len(steps) - Len(rest) + i]
      BY <1>2, <2>2, <2>4 DEF rest
    <2>6. IsSuffix(rest, steps)
      BY <1>1, <2>4, <2>5, SuffixIs
    <2> QED
      BY <1>4, <2>3, <2>6 DEF rest
  <1>10. IsSuffix(<<"write">>, steps)
    <2>1. <<"write">> \in Seq(StepNames) /\ Len(<<"write">>) = 1 /\ <<"write">>[1] = "write"
      BY DEF StepNames
    <2> DEFINE last == <<"write">>
    <2>2. /\ last \in Seq(StepNames) /\ Len(last) <= Len(steps)
          /\ \A i \in 1..Len(last) : last[i] = steps[Len(steps) - Len(last) + i]
      BY <1>1, <1>2, <2>1
    <2> HIDE DEF last
    <2>3. IsSuffix(last, steps)
      BY <1>1, <2>2, SuffixIs
    <2> QED
      BY <2>3 DEF last
  <1>11. ASSUME NEW i \in 1..m, NEW j \in 1..m, Head(todo) = steps[i], j < i, steps[j] \in Range(todo)
         PROVE  FALSE
    <2>1. m - n + 1 = i
      <3>1. m - n + 1 \in 1..m /\ steps[m - n + 1] = steps[i]
        BY <1>2, <1>3, <1>11
      <3> QED
        BY <1>1, <3>1
    <2>2. PICK k \in 1..n : steps[j] = todo[k]
      BY <1>5, <1>11 DEF Range
    <2>3. m - n + k = j
      <3>1. m - n + k \in 1..m /\ steps[m - n + k] = steps[j]
        BY <1>2, <2>2
      <3> QED
        BY <1>1, <3>1
    <2> QED
      BY <1>2, <1>11, <2>1, <2>3
  <1> QED
    BY <1>2, <1>3, <1>6, <1>7, <1>8, <1>9, <1>10, <1>11 DEF steps
-----------------------------------------------------------------------------
(* Reads. *)

\* Which requests have which steps.
Takers(step) ==
    CASE step = "require_org_node" -> {"create_user", "update_user", "create_org_node", "update_org_node"}
      [] step = "require_roles" -> {"create_user", "update_user"}
      [] step = "select_user" -> {"update_user", "delete_user", "reset_user_key"}
      [] step = "select_keys" -> {"reset_user_key"}
      [] step = "select_key" -> {"update_api_key", "revoke_api_key"}
      [] step = "select_role" -> {"update_role", "delete_role"}
      [] step = "select_links" -> {"delete_role"}
      [] step = "select_node" -> {"update_org_node", "delete_org_node"}
      [] step \in {"select_children", "select_direct_users"} -> {"delete_org_node"}
      [] step = "select_parent" -> {"create_org_node", "update_org_node"}
      [] step \in {"walk", "select_descendants"} -> {"update_org_node"}
      [] step \in {"select_nodes", "select_roles", "select_users"} -> {"import"}
      [] step = "write" -> Ops

LEMMA StepsTaken == \A op \in Ops : \A i \in 1..Len(Steps(op)) : op \in Takers(Steps(op)[i])
  <1> SUFFICES ASSUME NEW op \in Ops, NEW i \in 1..Len(Steps(op)) PROVE op \in Takers(Steps(op)[i])
    OBVIOUS
  <1>1. Steps(op) \in Seq(StepNames)
    BY StepsAre DEF StepsOK
  <1>2. Steps(op)[i] \in StepNames
    BY <1>1
  <1> DEFINE step == Steps(op)[i]
  <1>3. /\ step = "require_org_node" =>
              op \in {"create_user", "update_user", "create_org_node", "update_org_node"}
        /\ step = "require_roles" => op \in {"create_user", "update_user"}
        /\ step = "select_user" => op \in {"update_user", "delete_user", "reset_user_key"}
        /\ step = "select_keys" => op = "reset_user_key"
        /\ step = "select_key" => op \in {"update_api_key", "revoke_api_key"}
        /\ step = "select_role" => op \in {"update_role", "delete_role"}
        /\ step = "select_links" => op = "delete_role"
        /\ step = "select_node" => op \in {"update_org_node", "delete_org_node"}
        /\ step \in {"select_children", "select_direct_users"} => op = "delete_org_node"
        /\ step = "select_parent" => op \in {"create_org_node", "update_org_node"}
        /\ step \in {"walk", "select_descendants"} => op = "update_org_node"
        /\ step \in {"select_nodes", "select_roles", "select_users"} => op = "import"
    BY DEF Ops, Steps
  <1>4. step \in StepNames
    BY <1>2
  <1> HIDE DEF step
  <1>5. op \in Takers(step)
    BY <1>3, <1>4 DEF StepNames, Takers
  <1> QED
    BY <1>5 DEF step

\* A request that is at a step.
LEMMA AtIs ==
    ASSUME DirectoryInv, NEW a \in Admin, NEW step \in StepNames, At(a, step)
    PROVE  LET s == sess[a] IN
           /\ InProgress(db, past, s) /\ s.op \in Takers(step)
           /\ \A y \in StepNames \ {step} : y \notin Range(Tail(s.todo)) => Done(s, y)
           /\ step = "write" => \A y \in StepNames \ {"write"} : Done(s, y)
           /\ step # "write" =>
                 Tail(s.todo) \in Seq(StepNames) \ {<<>>} /\ IsSuffix(Tail(s.todo), Steps(s.op))
           /\ IsSuffix(<<"write">>, Steps(s.op))
  <1> DEFINE s == sess[a]
  <1>1. s.todo # <<>> /\ Head(s.todo) = step
    BY DEF At
  <1>2. InProgress(db, past, s)
    BY <1>1 DEF DirectoryInv, NoRequest
  <1>3. s.op \in Ops /\ s.todo \in Seq(StepNames) \ {<<>>} /\ IsSuffix(s.todo, Steps(s.op))
    BY <1>2 DEF InProgress
  <1> HIDE DEF s
  <1>4. PICK i \in 1..Len(Steps(s.op)) : step = Steps(s.op)[i]
    BY <1>1, <1>3, AtStep
  <1>5. s.op \in Takers(step)
    BY <1>3, <1>4, StepsTaken
  <1>6. /\ Range(s.todo) = {step} \cup Range(Tail(s.todo))
        /\ step = "write" => Range(s.todo) = {"write"}
        /\ step # "write" =>
              Tail(s.todo) \in Seq(StepNames) \ {<<>>} /\ IsSuffix(Tail(s.todo), Steps(s.op))
        /\ IsSuffix(<<"write">>, Steps(s.op))
    BY <1>1, <1>3, AtStep
  <1> QED
    BY <1>2, <1>5, <1>6 DEF Done, s

\* The request goes on with what it read.
GoesOn(t, s, fields) ==
    /\ DOMAIN t = DOMAIN fields \cup DOMAIN s
    /\ \A f \in DOMAIN fields : t[f] = fields[f]
    /\ \A f \in DOMAIN s \ (DOMAIN fields \cup {"todo"}) : t[f] = s[f]
    /\ "todo" \notin DOMAIN fields => t.todo = Tail(s.todo)

LEMMA ReadGoesOn ==
    ASSUME DirectoryInv, NEW a \in Admin, NEW allowed, NEW fields, Read(a, allowed, fields),
           "todo" \in DOMAIN sess[a]
    PROVE  /\ UNCHANGED <<db, requests, past>>
           /\ \/ sess' = [sess EXCEPT ![a] = NoRequest]
              \/ allowed /\ \E t : sess' = [sess EXCEPT ![a] = t] /\ GoesOn(t, sess[a], fields)
  <1>1. CASE ~allowed
    BY <1>1 DEF Read, Refuse
  <1>2. CASE allowed /\ sess' = [sess EXCEPT ![a] = fields ++ [sess[a] EXCEPT !.todo = Tail(@)]]
    <2> DEFINE s == sess[a]
               rest == [s EXCEPT !.todo = Tail(@)]
               t == fields ++ rest
    <2>1. DOMAIN rest = DOMAIN s /\ rest.todo = Tail(s.todo) /\ \A f \in DOMAIN s \ {"todo"} : rest[f] = s[f]
      OBVIOUS
    <2> HIDE DEF rest
    <2>2. /\ DOMAIN t = DOMAIN fields \cup DOMAIN s
          /\ \A f \in DOMAIN fields : t[f] = fields[f]
          /\ \A f \in DOMAIN s \ DOMAIN fields : t[f] = rest[f]
      BY <2>1 DEF ++
    <2>3. sess' = [sess EXCEPT ![a] = t]
      BY <1>2 DEF rest
    <2> HIDE DEF t
    <2>4. GoesOn(t, s, fields)
      BY <2>1, <2>2 DEF GoesOn
    <2> QED
      BY <1>2, <2>3, <2>4 DEF Read
  <1> QED
    BY <1>1, <1>2 DEF Read, Refuse

\* The fields a step loads.
Loads(step) ==
    CASE step \in {"select_user", "select_key", "select_role", "select_node"} -> {"row"}
      [] step = "select_keys" -> {"keys"}
      [] step = "select_parent" -> {"parent", "at", "todo"}
      [] step = "walk" -> {"at", "todo"}
      [] step = "select_descendants" -> {"below"}
      [] step = "select_nodes" -> {"nodes"}
      [] step = "select_roles" -> {"roles"}
      [] step = "select_users" -> {"users"}
      [] OTHER -> {}

LEMMA AskedStays ==
    ASSUME NEW d, NEW gone, NEW s, NEW t, NEW fields, NEW step \in StepNames,
           AskedOK(d, gone, s), GoesOn(t, s, fields), DOMAIN fields \subseteq Loads(step),
           s.op \in Ops, s.op \in Takers(step), "op" \in DOMAIN s
    PROVE  AskedOK(d, gone, t)
  <1>1. t.op = s.op
    BY DEF GoesOn, Loads
  <1>2. \A f \in {"ref", "org", "user", "status", "name", "node", "role", "key", "rows"} \cap DOMAIN s :
           f \in DOMAIN t /\ t[f] = s[f]
    BY DEF GoesOn, Loads
  <1>3. "roles" \in DOMAIN s /\ s.op \in {"create_user", "update_user"} => "roles" \in DOMAIN t /\ t.roles = s.roles
    BY DEF GoesOn, Loads, Takers
  <1> QED
    BY <1>1, <1>2, <1>3 DEF AskedOK

LEMMA FoundStays ==
    ASSUME NEW d, NEW p, NEW s, NEW t, NEW fields, NEW step \in StepNames, NEW y \in StepNames, y # step,
           AskedOK(d, p.raced, s), Found(d, p, s, y), GoesOn(t, s, fields), DOMAIN fields \subseteq Loads(step),
           s.op \in Ops, s.op \in Takers(step), {"op", "overtaken", "keysBefore"} \subseteq DOMAIN s
    PROVE  Found(d, p, t, y)
  <1>1. t.op = s.op /\ t.overtaken = s.overtaken /\ t.keysBefore = s.keysBefore
    BY DEF GoesOn, Loads
  <1>2. \A f \in {"user", "role", "node"} \cap DOMAIN s : t[f] = s[f]
    BY DEF GoesOn, Loads
  <1>3. "row" \in DOMAIN s /\ y \in {"select_user", "select_key", "select_node"} /\ s.op \in Takers(y) =>
           "row" \in DOMAIN t /\ t.row = s.row
    BY DEF GoesOn, Loads, Takers
  <1>4. \A f \in {"keys", "parent", "nodes", "roles", "users"} \cap DOMAIN s : f \in DOMAIN t
    BY DEF GoesOn
  <1>5. /\ "keys" \in DOMAIN s /\ y = "select_keys" => t.keys = s.keys
        /\ "parent" \in DOMAIN s /\ y = "select_parent" => t.parent = s.parent
        /\ "nodes" \in DOMAIN s /\ y = "select_nodes" => t.nodes = s.nodes
        /\ "roles" \in DOMAIN s /\ y = "select_roles" => t.roles = s.roles
        /\ "users" \in DOMAIN s /\ y = "select_users" => t.users = s.users
    BY DEF GoesOn, Loads
  <1>6. /\ s.op \in {"reset_user_key"} => "user" \in DOMAIN s
        /\ s.op = "delete_role" => "role" \in DOMAIN s
        /\ s.op = "delete_org_node" => "node" \in DOMAIN s
    BY DEF AskedOK
  <1>7. CASE y \in {"select_user", "select_key"}
    BY <1>1, <1>3, <1>7 DEF Found, Takers
  <1>8. CASE y \in {"select_node", "select_parent"}
    BY <1>1, <1>3, <1>4, <1>5, <1>8 DEF Found, Takers
  <1>9. CASE y = "select_keys"
    BY <1>1, <1>2, <1>4, <1>5, <1>6, <1>9 DEF Found
  <1>10. CASE y \in {"select_links", "select_children", "select_direct_users"}
    BY <1>1, <1>2, <1>6, <1>10 DEF Found
  <1>11. CASE y \in {"select_nodes", "select_roles", "select_users"}
    BY <1>1, <1>4, <1>5, <1>11 DEF Found
  <1> QED
    BY <1>7, <1>8, <1>9, <1>10, <1>11 DEF Found

\* A read keeps the invariant if what it found is as it should be.
LEMMA ReadKeeps ==
    ASSUME DirectoryInv, NEW a \in Admin, NEW step \in StepNames, At(a, step), step # "write",
           NEW allowed, NEW fields, Read(a, allowed, fields), DOMAIN fields \subseteq Loads(step),
           "todo" \in DOMAIN fields =>
              \/ fields.todo = sess[a].todo
              \/ fields.todo = <<"write">> /\ step = "select_parent",
           "below" \in DOMAIN fields => \A n \in DOMAIN fields.below : fields.below[n] \in NodeRow(IdsIn(db)),
           ASSUME allowed, NEW t, GoesOn(t, sess[a], fields), t.op = sess[a].op
           PROVE  Found(db, past, t, step)
    PROVE  DirectoryInv'
  <1> DEFINE s == sess[a]
  <1>1. /\ InProgress(db, past, s) /\ s.op \in Takers(step)
        /\ \A y \in StepNames \ {step} : y \notin Range(Tail(s.todo)) => Done(s, y)
        /\ Tail(s.todo) \in Seq(StepNames) \ {<<>>} /\ IsSuffix(Tail(s.todo), Steps(s.op))
        /\ IsSuffix(<<"write">>, Steps(s.op))
    BY AtIs
  <1>2. UNCHANGED <<db, requests, past>> /\ DOMAIN sess = Admin
    BY <1>1, ReadGoesOn DEF InProgress, DirectoryInv
  <1>3. CASE sess' = [sess EXCEPT ![a] = NoRequest]
    BY <1>2, <1>3 DEF DirectoryInv
  <1>4. CASE allowed /\ \E t : sess' = [sess EXCEPT ![a] = t] /\ GoesOn(t, s, fields)
    <2>1. PICK t : sess' = [sess EXCEPT ![a] = t] /\ GoesOn(t, s, fields)
      BY <1>4
    <2>2. t.op = s.op /\ t.overtaken = s.overtaken /\ t.keysBefore = s.keysBefore
          /\ {"op", "todo", "overtaken", "keysBefore"} \subseteq DOMAIN t
      BY <1>1, <2>1 DEF GoesOn, Loads, InProgress
    <2>3. AskedOK(db, past.raced, t)
      BY <1>1, <2>1, AskedStays DEF InProgress
    <2>4. KeysBeforeOK(db, t)
      <3>1. s.op = "reset_user_key" => t.user = s.user
        BY <1>1, <2>1 DEF GoesOn, Loads, InProgress, AskedOK
      <3> QED
        BY <1>1, <2>2, <3>1 DEF InProgress, KeysBeforeOK
    <2>5. BelowOK(db, t)
      BY <1>1, <2>1, <2>2 DEF GoesOn, InProgress, BelowOK
    <2>6. Found(db, past, t, step)
      BY <1>4, <2>1, <2>2
    <2>7. \A y \in StepNames \ {step} : Done(s, y) => Found(db, past, t, y)
      BY <1>1, <2>1, FoundStays DEF InProgress
    <2>8. \/ t.todo = Tail(s.todo) \/ t.todo = s.todo
          \/ t.todo = <<"write">> /\ step = "select_parent"
      BY <2>1 DEF GoesOn
    <2>9. /\ t.todo \in Seq(StepNames) \ {<<>>} /\ IsSuffix(t.todo, Steps(s.op))
          /\ \A y \in StepNames : Done(t, y) => Found(db, past, t, y)
      <3>1. CASE t.todo = Tail(s.todo)
        BY <1>1, <2>6, <2>7, <3>1 DEF Done
      <3>2. CASE t.todo = s.todo
        BY <1>1, <2>6, <2>7, <3>2 DEF Done, InProgress
      <3>3. CASE t.todo = <<"write">> /\ step = "select_parent"
        <4>1. <<"write">> \in Seq(StepNames) \ {<<>>}
          BY DEF StepNames
        <4>2. s.op \in {"create_org_node", "update_org_node"}
          BY <1>1, <3>3 DEF Takers
        <4>3. s.op = "update_org_node" => Found(db, past, t, "select_node")
          <5>1. SUFFICES ASSUME s.op = "update_org_node" PROVE "select_node" \notin Range(s.todo)
            BY <2>7, <3>3 DEF Done, StepNames
          <5>2. /\ Len(Steps(s.op)) = 6 /\ Steps(s.op)[3] = "select_parent" /\ Steps(s.op)[2] = "select_node"
                /\ Head(s.todo) = Steps(s.op)[3] /\ 2 \in 1..6 /\ 3 \in 1..6
            BY <3>3, <5>1 DEF Steps, At
          <5>3. s.op \in Ops /\ s.todo \in Seq(StepNames) \ {<<>>} /\ IsSuffix(s.todo, Steps(s.op))
            BY <1>1 DEF InProgress
          <5> QED
            BY <5>2, <5>3, AtStep
        <4>4. ASSUME NEW y \in StepNames \ {step} PROVE Found(db, past, t, y)
          <5>1. CASE y = "select_node" /\ t.op = "update_org_node"
            BY <2>2, <4>3, <5>1
          <5>2. CASE ~(y = "select_node" /\ t.op = "update_org_node")
            BY <2>2, <3>3, <4>2, <5>2 DEF Found
          <5> QED
            BY <5>1, <5>2
        <4> QED
          BY <1>1, <2>6, <3>3, <4>1, <4>4
      <3> QED
        BY <2>8, <3>1, <3>2, <3>3
    <2>10. InProgress(db, past, t)
      BY <1>1, <2>2, <2>3, <2>4, <2>5, <2>9 DEF InProgress
    <2> QED
      BY <1>2, <2>1, <2>10 DEF DirectoryInv
  <1> QED
    BY <1>1, <1>3, <1>4, ReadGoesOn DEF InProgress

LEMMA NodeRowIs ==
    ASSUME NEW ids, NEW r
    PROVE  r \in NodeRow(ids) =>
             /\ DOMAIN r = {"name", "parent", "path"}
             /\ r.name \in Segment /\ r.parent \in ids \cup {Null} /\ r.path \in Seq(Segment)
  BY DEF NodeRow

LEMMA KeyRowIs ==
    ASSUME NEW ids, NEW r
    PROVE  r \in KeyRow(ids) =>
             /\ DOMAIN r = {"user", "runtime", "active"}
             /\ r.user \in ids /\ r.runtime \in BOOLEAN /\ r.active \in BOOLEAN
  BY DEF KeyRow

LEMMA RequireStep ==
    ASSUME DirectoryInv, NEW a \in Admin, NEW step \in {"require_org_node", "require_roles"},
           At(a, step), NEW allowed, Read(a, allowed, Nothing)
    PROVE  DirectoryInv'
  <1>1. DOMAIN Nothing = {} /\ step \in StepNames /\ step # "write"
    BY DEF Nothing, StepNames
  <1>2. ASSUME NEW t PROVE Found(db, past, t, step)
    BY DEF Found
  <1> QED
    BY <1>1, <1>2, ReadKeeps

LEMMA SelectUserStep ==
    ASSUME DirectoryInv, NEW a \in Admin, select_user(a)
    PROVE  DirectoryInv'
  <1> DEFINE u == sess[a].user
             fields == [row |-> db.users[u]]
  <1>1. /\ At(a, "select_user") /\ Read(a, u \in DOMAIN db.users, fields)
        /\ DOMAIN fields = {"row"} /\ Loads("select_user") = {"row"}
        /\ "select_user" \in StepNames /\ "select_user" # "write"
    BY DEF select_user, StepNames, Loads
  <1>2. ASSUME u \in DOMAIN db.users, NEW t, GoesOn(t, sess[a], fields)
        PROVE  Found(db, past, t, "select_user")
    <2>1. "row" \in DOMAIN t /\ t.row = db.users[u]
      BY <1>2 DEF GoesOn
    <2>2. db.users[u] \in UserRow(IdsIn(db))
      BY <1>2 DEF DirectoryInv, TablesOK, TablesTyped, RowsTyped
    <2> QED
      BY <2>1, <2>2 DEF Found
  <1> QED
    BY <1>1, <1>2, ReadKeeps

LEMMA SelectKeysStep ==
    ASSUME DirectoryInv, NEW a \in Admin, select_keys(a)
    PROVE  DirectoryInv'
  <1> DEFINE s == sess[a]
             ks == {k \in DOMAIN db.keys : db.keys[k].user = s.user /\ db.keys[k].active}
             fields == [keys |-> [k \in ks |-> db.keys[k]]]
  <1>1. /\ At(a, "select_keys") /\ Read(a, TRUE, fields)
        /\ DOMAIN fields = {"keys"} /\ Loads("select_keys") = {"keys"}
        /\ "select_keys" \in StepNames /\ "select_keys" # "write"
    BY DEF select_keys, StepNames, Loads
  <1>2. ASSUME NEW t, GoesOn(t, s, fields), t.op = s.op
        PROVE  Found(db, past, t, "select_keys")
    <2>1. SUFFICES ASSUME t.op = "reset_user_key" PROVE Found(db, past, t, "select_keys")
      BY DEF Found
    <2>2. InProgress(db, past, s)
      BY <1>1, AtIs
    <2>3. "keys" \in DOMAIN t /\ t.keys = [k \in ks |-> db.keys[k]]
      BY <1>2 DEF GoesOn
    <2>4. t.user = s.user /\ t.keysBefore = s.keysBefore
      BY <1>2, <2>1, <2>2 DEF GoesOn, InProgress, AskedOK
    <2>5. \A k \in DOMAIN db.keys : db.keys[k] \in KeyRow(IdsIn(db))
      BY DEF DirectoryInv, TablesOK, TablesTyped, RowsTyped
    <2>6. \A k \in ks : db.keys[k] \in KeyRow({s.user}) /\ db.keys[k].active
      BY <2>5 DEF KeyRow
    <2>7. \A k \in s.keysBefore \cap DOMAIN db.keys : db.keys[k].user = s.user
      BY <1>2, <2>1, <2>2 DEF InProgress, KeysBeforeOK
    <2>8. \A k \in RuntimeKeys(db, s.user) :
            /\ k \in DOMAIN db.keys /\ db.keys[k].user = s.user
            /\ db.keys[k].active /\ db.keys[k].runtime
      BY DEF RuntimeKeys, RuntimeKey
    <2>9. \A k \in ks : k \in DOMAIN t.keys /\ t.keys[k] = db.keys[k]
      BY <2>3
    <2>10. \A k \in DOMAIN t.keys : t.keys[k] \in KeyRow({t.user}) /\ t.keys[k].active
      BY <2>3, <2>4, <2>6
    <2>11. \A k \in t.keysBefore \cap DOMAIN db.keys :
              Usable(db, k) => k \in DOMAIN t.keys /\ t.keys[k].runtime
      BY <2>4, <2>7, <2>9 DEF Usable
    <2>12. \A k \in RuntimeKeys(db, t.user) : k \in DOMAIN t.keys /\ t.keys[k].runtime
      BY <2>4, <2>8, <2>9
    <2> QED
      BY <2>3, <2>10, <2>11, <2>12 DEF Found
  <1> QED
    BY <1>1, <1>2, ReadKeeps

LEMMA SelectKeyStep ==
    ASSUME DirectoryInv, NEW a \in Admin, select_key(a)
    PROVE  DirectoryInv'
  <1> DEFINE k == sess[a].key
             fields == [row |-> db.keys[k]]
  <1>1. /\ At(a, "select_key") /\ Read(a, k \in DOMAIN db.keys, fields)
        /\ DOMAIN fields = {"row"} /\ Loads("select_key") = {"row"}
        /\ "select_key" \in StepNames /\ "select_key" # "write"
    BY DEF select_key, StepNames, Loads
  <1>2. ASSUME k \in DOMAIN db.keys, NEW t, GoesOn(t, sess[a], fields)
        PROVE  Found(db, past, t, "select_key")
    <2>1. "row" \in DOMAIN t /\ t.row = db.keys[k]
      BY <1>2 DEF GoesOn
    <2>2. db.keys[k] \in KeyRow(IdsIn(db))
      BY <1>2 DEF DirectoryInv, TablesOK, TablesTyped, RowsTyped
    <2> QED
      BY <2>1, <2>2 DEF Found
  <1> QED
    BY <1>1, <1>2, ReadKeeps

LEMMA SelectRoleStep ==
    ASSUME DirectoryInv, NEW a \in Admin, select_role(a)
    PROVE  DirectoryInv'
  <1> DEFINE r == sess[a].role
             fields == [row |-> db.roles[r]]
  <1>1. /\ At(a, "select_role") /\ Read(a, r \in DOMAIN db.roles, fields)
        /\ DOMAIN fields = {"row"} /\ Loads("select_role") = {"row"}
        /\ "select_role" \in StepNames /\ "select_role" # "write"
    BY DEF select_role, StepNames, Loads
  <1>2. ASSUME NEW t PROVE Found(db, past, t, "select_role")
    BY DEF Found
  <1> QED
    BY <1>1, <1>2, ReadKeeps

\* What is to be deleted was not referred to.
LEMMA SelectReferrersStep ==
    ASSUME DirectoryInv, NEW a \in Admin, select_links(a) \/ select_children(a) \/ select_direct_users(a)
    PROVE  DirectoryInv'
  <1> DEFINE s == sess[a]
  <1>1. CASE select_links(a)
    <2> DEFINE allowed == s.role \notin {p[2] : p \in db.links}
    <2>1. /\ At(a, "select_links") /\ Read(a, allowed, Nothing)
          /\ DOMAIN Nothing = {} /\ "select_links" \in StepNames /\ "select_links" # "write"
      BY <1>1 DEF select_links, Nothing, StepNames
    <2>2. ASSUME allowed, NEW t, GoesOn(t, s, Nothing), t.op = s.op PROVE Found(db, past, t, "select_links")
      <3>1. t.op = "delete_role" => t.role = s.role
        BY <2>1, <2>2, AtIs DEF GoesOn, InProgress, AskedOK
      <3>2. \A x \in db.links : x[2] # s.role
        BY <2>2
      <3> QED
        BY <3>1, <3>2 DEF Found
    <2> QED
      BY <2>1, <2>2, ReadKeeps
  <1>2. CASE select_children(a)
    <2> DEFINE allowed == \A n \in DOMAIN db.nodes : db.nodes[n].parent # s.node
    <2>1. /\ At(a, "select_children") /\ Read(a, allowed, Nothing)
          /\ DOMAIN Nothing = {} /\ "select_children" \in StepNames /\ "select_children" # "write"
      BY <1>2 DEF select_children, Nothing, StepNames
    <2>2. ASSUME allowed, NEW t, GoesOn(t, s, Nothing), t.op = s.op PROVE Found(db, past, t, "select_children")
      <3>1. t.op = "delete_org_node" => t.node = s.node
        BY <2>1, <2>2, AtIs DEF GoesOn, InProgress, AskedOK
      <3> QED
        BY <2>2, <3>1 DEF Found
    <2> QED
      BY <2>1, <2>2, ReadKeeps
  <1>3. CASE select_direct_users(a)
    <2> DEFINE allowed == \A u \in DOMAIN db.users : db.users[u].node # s.node
    <2>1. /\ At(a, "select_direct_users") /\ Read(a, allowed, Nothing)
          /\ DOMAIN Nothing = {} /\ "select_direct_users" \in StepNames /\ "select_direct_users" # "write"
      BY <1>3 DEF select_direct_users, Nothing, StepNames
    <2>2. ASSUME allowed, NEW t, GoesOn(t, s, Nothing), t.op = s.op PROVE Found(db, past, t, "select_direct_users")
      <3>1. t.op = "delete_org_node" => t.node = s.node
        BY <2>1, <2>2, AtIs DEF GoesOn, InProgress, AskedOK
      <3> QED
        BY <2>2, <3>1 DEF Found
    <2> QED
      BY <2>1, <2>2, ReadKeeps
  <1> QED
    BY <1>1, <1>2, <1>3

LEMMA SelectNodeStep ==
    ASSUME DirectoryInv, NEW a \in Admin, select_node(a)
    PROVE  DirectoryInv'
  <1> DEFINE s == sess[a]
             row == db.nodes[s.node]
             kept == s.op = "update_org_node" /\ s.name \in {row.name, Keep} /\ s.org \in {Null, Keep}
             allowed == s.node \in DOMAIN db.nodes /\ (row.path = <<>> => kept)
             fields == [row |-> row]
  <1>1. /\ At(a, "select_node") /\ Read(a, allowed, fields)
        /\ DOMAIN fields = {"row"} /\ Loads("select_node") = {"row"}
        /\ "select_node" \in StepNames /\ "select_node" # "write"
    BY DEF select_node, StepNames, Loads
  <1>2. ASSUME allowed, NEW t, GoesOn(t, s, fields)
        PROVE  Found(db, past, t, "select_node")
    <2>1. "row" \in DOMAIN t /\ t.row = row
      BY <1>2 DEF GoesOn
    <2>2. row \in NodeRow(IdsIn(db))
      BY <1>2 DEF DirectoryInv, TablesOK, TablesTyped, RowsTyped
    <2> QED
      BY <2>1, <2>2 DEF Found
  <1> QED
    BY <1>1, <1>2, ReadKeeps

LEMMA SelectParentStep ==
    ASSUME DirectoryInv, NEW a \in Admin, select_parent(a)
    PROVE  DirectoryInv'
  <1> DEFINE s == sess[a]
             root == NodeAt(db, <<>>)
             parent == IF NeedsRoot(s) THEN [n \in root |-> db.nodes[n]] ELSE Get(ParentId(s))
             fields == [parent |-> parent, at |-> DOMAIN parent]
             last == fields ++ [todo |-> <<"write">>]
  <1>1. /\ At(a, "select_parent") /\ (Read(a, TRUE, last) \/ Read(a, TRUE, fields))
        /\ Loads("select_parent") = {"parent", "at", "todo"}
        /\ "select_parent" \in StepNames /\ "select_parent" # "write"
    BY DEF select_parent, StepNames, Loads
  <1>2. /\ DOMAIN fields = {"parent", "at"} /\ fields.parent = parent
        /\ DOMAIN last = {"parent", "at", "todo"} /\ last.parent = parent /\ last.todo = <<"write">>
    BY DEF ++
  <1>3. /\ DOMAIN parent \subseteq DOMAIN db.nodes /\ \A n \in DOMAIN parent : parent[n] = db.nodes[n]
        /\ parent = [n \in DOMAIN parent |-> parent[n]]
    BY DEF NodeAt, Get
  <1> HIDE DEF parent, fields, last
  <1>4. ASSUME NEW t, "parent" \in DOMAIN t, t.parent = parent
        PROVE  Found(db, past, t, "select_parent")
    <2>1. \A n \in DOMAIN parent : parent[n] \in NodeRow(IdsIn(db))
      BY <1>3 DEF DirectoryInv, TablesOK, TablesTyped, RowsTyped
    <2>2. parent \in [DOMAIN parent -> NodeRow(IdsIn(db))]
      BY <1>3, <2>1
    <2> QED
      BY <1>3, <1>4, <2>2 DEF Found
  <1>5. CASE Read(a, TRUE, fields)
    <2>1. ASSUME NEW t, GoesOn(t, s, fields) PROVE Found(db, past, t, "select_parent")
      BY <1>2, <1>4, <2>1 DEF GoesOn
    <2> QED
      BY <1>1, <1>2, <1>5, <2>1, ReadKeeps
  <1>6. CASE Read(a, TRUE, last)
    <2>1. ASSUME NEW t, GoesOn(t, s, last) PROVE Found(db, past, t, "select_parent")
      BY <1>2, <1>4, <2>1 DEF GoesOn
    <2> QED
      BY <1>1, <1>2, <1>6, <2>1, ReadKeeps
  <1> QED
    BY <1>1, <1>5, <1>6

LEMMA WalkStep ==
    ASSUME DirectoryInv, NEW a \in Admin, walk(a)
    PROVE  DirectoryInv'
  <1> DEFINE s == sess[a]
             object == [n \in s.at |-> IF n \in DOMAIN s.parent THEN s.parent[n] ELSE db.nodes[n]]
             known == {n \in s.at : n \in DOMAIN s.parent \cup DOMAIN db.nodes}
             up == {object[n].parent : n \in known} \ {Null}
             fields == [at |-> up, todo |-> s.todo]
  <1>1. /\ At(a, "walk") /\ "walk" \in StepNames /\ "walk" # "write" /\ Loads("walk") = {"at", "todo"}
        /\ Read(a, s.node \notin s.at, Nothing) \/ Read(a, TRUE, fields)
        /\ DOMAIN Nothing = {} /\ DOMAIN fields = {"at", "todo"} /\ fields.todo = s.todo
    BY DEF walk, StepNames, Loads, Nothing
  <1> HIDE DEF fields
  <1>2. ASSUME NEW t PROVE Found(db, past, t, "walk")
    BY DEF Found
  <1>3. CASE Read(a, s.node \notin s.at, Nothing)
    BY <1>1, <1>2, <1>3, ReadKeeps
  <1>4. CASE Read(a, TRUE, fields)
    BY <1>1, <1>2, <1>4, ReadKeeps
  <1> QED
    BY <1>1, <1>3, <1>4

LEMMA SelectDescendantsStep ==
    ASSUME DirectoryInv, NEW a \in Admin, select_descendants(a)
    PROVE  DirectoryInv'
  <1> DEFINE s == sess[a]
             below == [n \in Below(db.nodes, s.row.path) |->
                          IF n \in DOMAIN s.parent THEN s.parent[n] ELSE db.nodes[n]]
             fields == [below |-> below]
  <1>1. /\ At(a, "select_descendants") /\ Read(a, TRUE, fields)
        /\ DOMAIN fields = {"below"} /\ fields.below = below /\ Loads("select_descendants") = {"below"}
        /\ "select_descendants" \in StepNames /\ "select_descendants" # "write"
    BY DEF select_descendants, StepNames, Loads
  <1>2. \A n \in DOMAIN below : below[n] \in NodeRow(IdsIn(db))
    <2> SUFFICES ASSUME NEW n \in DOMAIN below PROVE below[n] \in NodeRow(IdsIn(db))
      OBVIOUS
    <2>1. db.nodes[n] \in NodeRow(IdsIn(db))
      BY DEF Below, DirectoryInv, TablesOK, TablesTyped, RowsTyped
    <2>2. s.op = "update_org_node" /\ InProgress(db, past, s)
      BY <1>1, AtIs DEF Takers
    <2>3. Done(s, "select_parent")
      <3>1. /\ Len(Steps(s.op)) = 6 /\ Steps(s.op)[5] = "select_descendants" /\ Steps(s.op)[3] = "select_parent"
            /\ Head(s.todo) = Steps(s.op)[5] /\ 3 \in 1..6 /\ 5 \in 1..6
        BY <1>1, <2>2 DEF Steps, At
      <3>2. s.op \in Ops /\ s.todo \in Seq(StepNames) \ {<<>>} /\ IsSuffix(s.todo, Steps(s.op))
        BY <2>2 DEF InProgress
      <3> QED
        BY <3>1, <3>2, AtStep DEF Done
    <2>4. \A m \in DOMAIN s.parent : s.parent[m] \in NodeRow(IdsIn(db))
      BY <2>2, <2>3 DEF InProgress, Found, StepNames
    <2> QED
      BY <2>1, <2>4
  <1>3. ASSUME NEW t PROVE Found(db, past, t, "select_descendants")
    BY DEF Found
  <1> QED
    BY <1>1, <1>2, <1>3, ReadKeeps

LEMMA SelectTablesStep ==
    ASSUME DirectoryInv, NEW a \in Admin, select_nodes(a) \/ select_roles(a) \/ select_users(a)
    PROVE  DirectoryInv'
  <1>1. /\ \A n \in DOMAIN db.nodes : db.nodes[n] \in NodeRow(IdsIn(db))
        /\ \A r \in DOMAIN db.roles : db.roles[r] \in Names
        /\ \A u \in DOMAIN db.users : db.users[u] \in UserRow(IdsIn(db))
    BY DEF DirectoryInv, TablesOK, TablesTyped, RowsTyped
  <1>2. CASE select_nodes(a)
    <2> DEFINE fields == [nodes |-> db.nodes]
    <2>1. /\ At(a, "select_nodes") /\ Read(a, TRUE, fields)
          /\ DOMAIN fields = {"nodes"} /\ Loads("select_nodes") = {"nodes"}
          /\ "select_nodes" \in StepNames /\ "select_nodes" # "write"
      BY <1>2 DEF select_nodes, StepNames, Loads
    <2>2. ASSUME NEW t, GoesOn(t, sess[a], fields) PROVE Found(db, past, t, "select_nodes")
      <3>1. "nodes" \in DOMAIN t /\ t.nodes = db.nodes
        BY <2>2 DEF GoesOn
      <3> QED
        BY <1>1, <3>1 DEF Found
    <2> QED
      BY <2>1, <2>2, ReadKeeps
  <1>3. CASE select_roles(a)
    <2> DEFINE fields == [roles |-> db.roles]
    <2>1. /\ At(a, "select_roles") /\ Read(a, TRUE, fields)
          /\ DOMAIN fields = {"roles"} /\ Loads("select_roles") = {"roles"}
          /\ "select_roles" \in StepNames /\ "select_roles" # "write"
      BY <1>3 DEF select_roles, StepNames, Loads
    <2>2. ASSUME NEW t, GoesOn(t, sess[a], fields) PROVE Found(db, past, t, "select_roles")
      <3>1. "roles" \in DOMAIN t /\ t.roles = db.roles
        BY <2>2 DEF GoesOn
      <3> QED
        BY <1>1, <3>1 DEF Found
    <2> QED
      BY <2>1, <2>2, ReadKeeps
  <1>4. CASE select_users(a)
    <2> DEFINE fields == [users |-> db.users]
    <2>1. /\ At(a, "select_users") /\ Read(a, TRUE, fields)
          /\ DOMAIN fields = {"users"} /\ Loads("select_users") = {"users"}
          /\ "select_users" \in StepNames /\ "select_users" # "write"
      BY <1>4 DEF select_users, StepNames, Loads
    <2>2. ASSUME NEW t, GoesOn(t, sess[a], fields) PROVE Found(db, past, t, "select_users")
      <3>1. "users" \in DOMAIN t /\ t.users = db.users
        BY <2>2 DEF GoesOn
      <3> QED
        BY <1>1, <3>1 DEF Found
    <2> QED
      BY <2>1, <2>2, ReadKeeps
  <1> QED
    BY <1>2, <1>3, <1>4

LEMMA ReadsKeep ==
    ASSUME DirectoryInv, NEW a \in Admin, Reads(a)
    PROVE  DirectoryInv'
  <1>1. CASE require_org_node(a) \/ require_roles(a)
    <2>1. \/ At(a, "require_org_node") /\ (Read(a, TRUE, Nothing) \/ Read(a, FALSE, Nothing))
          \/ At(a, "require_roles") /\ (Read(a, TRUE, Nothing) \/ Read(a, FALSE, Nothing))
      <3>1. CASE require_org_node(a)
        BY <3>1 DEF require_org_node, Read
      <3>2. CASE require_roles(a)
        BY <3>2 DEF require_roles, Read
      <3> QED
        BY <1>1, <3>1, <3>2
    <2> QED
      BY <2>1, RequireStep
  <1> QED
    BY <1>1, SelectUserStep, SelectKeysStep, SelectKeyStep, SelectRoleStep, SelectReferrersStep,
       SelectNodeStep, SelectParentStep, WalkStep, SelectDescendantsStep, SelectTablesStep DEF Reads
-----------------------------------------------------------------------------
(* Commits. *)

\* New rows have new ids.
NewIdsAreNew(d, new) ==
    /\ d.next <= new.next
    /\ DOMAIN new.users \cap IdsIn(d) \subseteq DOMAIN d.users
    /\ DOMAIN new.roles \cap IdsIn(d) \subseteq DOMAIN d.roles
    /\ DOMAIN new.nodes \cap IdsIn(d) \subseteq DOMAIN d.nodes
    /\ DOMAIN new.keys \cap IdsIn(d) \subseteq DOMAIN d.keys

\* A key stays its user's and is not made usable again.
KeysOnlyFade(d, new) ==
    \A k \in DOMAIN d.keys \cap DOMAIN new.keys :
        new.keys[k].user = d.keys[k].user /\ (Usable(new, k) => Usable(d, k))

\* A new key is that of a new user, or the one a reset gives.
NewKeysAreEarned(d, s, new) ==
    \A k \in DOMAIN new.keys \ DOMAIN d.keys :
        /\ \/ new.keys[k].user \notin IdsIn(d)
           \/ s.op = "reset_user_key" /\ new.keys[k].user = s.user
        /\ \A l \in DOMAIN new.keys \ DOMAIN d.keys : new.keys[k].user = new.keys[l].user => k = l

\* A reset leaves no key that was there at its beginning, or no key that is there
\* now if no other reset of the user has met it.
ResetRetires(d, p, s, new) ==
    s.op = "reset_user_key" =>
        /\ \A k \in s.keysBefore \cap DOMAIN d.keys \cap DOMAIN new.keys : ~Usable(new, k)
        /\ s.user \in DOMAIN d.users \ p.clashes =>
              \A k \in DOMAIN d.keys \cap DOMAIN new.keys : new.keys[k].user = s.user => ~Usable(new, k)

Changes(d, p, s, new) ==
    /\ RowsTyped(new) /\ NewIdsAreNew(d, new)
    /\ KeysOnlyFade(d, new) /\ NewKeysAreEarned(d, s, new) /\ ResetRetires(d, p, s, new)

LEMMA RuntimeKeysAre ==
    ASSUME NEW d, RowsTyped(d), NEW u, NEW k
    PROVE  k \in RuntimeKeys(d, u) <=> k \in DOMAIN d.keys /\ d.keys[k].user = u /\ Usable(d, k)
  <1>1. ASSUME k \in DOMAIN d.keys
        PROVE  d.keys[k] = RuntimeKey(u) <=> d.keys[k].user = u /\ Usable(d, k)
    <2>1. d.keys[k] \in KeyRow(IdsIn(d))
      BY <1>1 DEF RowsTyped
    <2>2. DOMAIN d.keys[k] = {"user", "runtime", "active"}
          /\ d.keys[k].runtime \in BOOLEAN /\ d.keys[k].active \in BOOLEAN
      BY <2>1 DEF KeyRow
    <2>3. d.keys[k] = RuntimeKey(u) => d.keys[k].user = u /\ Usable(d, k)
      BY DEF RuntimeKey, Usable
    <2>4. ASSUME d.keys[k].user = u, Usable(d, k) PROVE d.keys[k] = RuntimeKey(u)
      <3>1. d.keys[k].runtime = TRUE /\ d.keys[k].active = TRUE
        BY <2>2, <2>4 DEF Usable
      <3>2. d.keys[k] = [c \in {"user", "runtime", "active"} |-> d.keys[k][c]]
        BY <2>1, <2>2 DEF KeyRow
      <3> QED
        BY <2>1, <2>4, <3>1, <3>2 DEF KeyRow, RuntimeKey
    <2> QED
      BY <2>3, <2>4
  <1> QED
    BY <1>1 DEF RuntimeKeys

LEMMA RefersMore ==
    ASSUME NEW d, NEW gone, NEW more, Refers(d, gone), gone \subseteq more
    PROVE  Refers(d, more)
  BY DEF Refers

LEMMA KeysStayOne ==
    ASSUME NEW d, NEW p, NEW s, NEW new, RowsTyped(d), Changes(d, p, s, new), NEW q,
           NEW u \in DOMAIN new.users \ q.clashes, p.clashes \subseteq q.clashes,
           \A v \in DOMAIN d.users \ p.clashes : OneKey(d, v)
    PROVE  OneKey(new, u)
  <1>1. RowsTyped(new)
    BY DEF Changes
  <1>2. SUFFICES ASSUME NEW k \in RuntimeKeys(new, u), NEW l \in RuntimeKeys(new, u) PROVE k = l
    BY DEF OneKey
  <1>3. /\ k \in DOMAIN new.keys /\ new.keys[k].user = u /\ Usable(new, k)
        /\ l \in DOMAIN new.keys /\ new.keys[l].user = u /\ Usable(new, l)
    BY <1>1, <1>2, RuntimeKeysAre
  <1>4. CASE k \notin DOMAIN d.keys /\ l \notin DOMAIN d.keys
    BY <1>3, <1>4 DEF Changes, NewKeysAreEarned
  <1>5. ASSUME NEW i \in DOMAIN d.keys \cap DOMAIN new.keys, new.keys[i].user = u, Usable(new, i)
        PROVE  i \in RuntimeKeys(d, u) /\ u \in IdsIn(d)
    <2>1. d.keys[i].user = u /\ Usable(d, i)
      BY <1>5 DEF Changes, KeysOnlyFade
    <2>2. d.keys[i] \in KeyRow(IdsIn(d))
      BY DEF RowsTyped
    <2> QED
      BY <2>1, <2>2, RuntimeKeysAre DEF KeyRow
  <1>6. u \in IdsIn(d) => u \in DOMAIN d.users \ p.clashes
    BY DEF Changes, NewIdsAreNew
  <1>7. CASE k \in DOMAIN d.keys /\ l \in DOMAIN d.keys
    BY <1>3, <1>5, <1>6, <1>7 DEF OneKey
  <1>8. ASSUME NEW i \in DOMAIN d.keys \cap DOMAIN new.keys, NEW j \in DOMAIN new.keys \ DOMAIN d.keys,
               new.keys[i].user = u, new.keys[j].user = u, Usable(new, i)
        PROVE  FALSE
    <2>1. u \in IdsIn(d) /\ u \in DOMAIN d.users \ p.clashes
      BY <1>5, <1>6, <1>8
    <2>2. s.op = "reset_user_key" /\ u = s.user
      BY <1>8, <2>1 DEF Changes, NewKeysAreEarned
    <2> QED
      BY <1>8, <2>1, <2>2 DEF Changes, ResetRetires
  <1> QED
    BY <1>3, <1>4, <1>7, <1>8

\* A request that another's commit has overtaken.
LEMMA OvertakenKeeps ==
    ASSUME NEW d, NEW p, NEW s, NEW new, NEW q, NEW r, NEW t,
           RowsTyped(d), Changes(d, p, s, new), p.raced \subseteq IdsIn(d),
           p.clashes \subseteq q.clashes, p.raced \subseteq q.raced,
           RowIds(d) \ RowIds(new) \subseteq q.raced,
           InProgress(d, p, r),
           s.op = "reset_user_key" /\ r.op = "reset_user_key" /\ s.user = r.user /\ r.user \in DOMAIN new.users
              => r.user \in q.clashes,
           t = [r EXCEPT !.overtaken = TRUE]
    PROVE  InProgress(new, q, t)
  <1>1. /\ {"op", "todo", "overtaken", "keysBefore"} \subseteq DOMAIN r
        /\ DOMAIN t = DOMAIN r /\ t.overtaken = TRUE /\ \A f \in DOMAIN r \ {"overtaken"} : t[f] = r[f]
    BY DEF InProgress
  <1>2. /\ t.op = r.op /\ t.todo = r.todo /\ t.keysBefore = r.keysBefore
        /\ \A f \in {"ref", "org", "roles", "user", "status", "name", "role", "key", "node", "rows", "row",
                      "keys", "parent", "nodes", "users", "below"} \cap DOMAIN r : t[f] = r[f]
    BY <1>1
  <1>3. d.next \in Nat /\ new.next \in Nat /\ d.next <= new.next /\ IdsIn(d) \subseteq IdsIn(new)
    BY DEF Changes, RowsTyped, NewIdsAreNew, IdsIn
  <1>4. /\ DOMAIN d.users \subseteq DOMAIN new.users \cup q.raced
        /\ DOMAIN d.roles \subseteq DOMAIN new.roles \cup q.raced
        /\ DOMAIN d.nodes \subseteq DOMAIN new.nodes \cup q.raced
    BY DEF RowsTyped, Changes, NewIdsAreNew, RowIds
  <1>5. \A i \in IdsIn(d) \cap DOMAIN new.keys : i \in DOMAIN d.keys
    BY DEF Changes, NewIdsAreNew
  <1>6. AskedOK(new, q.raced, t)
    <2>1. AskedOK(d, p.raced, r)
      BY DEF InProgress
    <2> QED
      BY <1>1, <1>2, <1>4, <2>1 DEF AskedOK
  <1>7. KeysBeforeOK(new, t)
    <2>1. KeysBeforeOK(d, r)
      BY DEF InProgress
    <2>2. r.op = "reset_user_key" => t.user = r.user
      BY <1>2 DEF InProgress, AskedOK
    <2>3. \A k \in DOMAIN d.keys \cap DOMAIN new.keys : new.keys[k].user = d.keys[k].user
      BY DEF Changes, KeysOnlyFade
    <2> QED
      BY <1>2, <1>3, <1>5, <2>1, <2>2, <2>3 DEF KeysBeforeOK
  <1>8. \A x : x \in NodeRow(IdsIn(d)) => x \in NodeRow(IdsIn(new))
    BY <1>3 DEF NodeRow
  <1>9. \A x : x \in UserRow(IdsIn(d)) => x \in UserRow(IdsIn(new))
    BY <1>3 DEF UserRow
  <1>10. \A x : x \in KeyRow(IdsIn(d)) => x \in KeyRow(IdsIn(new))
    BY <1>3 DEF KeyRow
  <1>11. BelowOK(new, t)
    BY <1>1, <1>2, <1>8 DEF BelowOK, InProgress
  <1>12. ASSUME NEW step \in StepNames, Found(d, p, r, step) PROVE Found(new, q, t, step)
    <2>1. CASE step \in {"select_user", "select_key", "select_node"}
      BY <1>1, <1>2, <1>8, <1>9, <1>10, <1>12, <2>1 DEF Found
    <2>2. CASE step \in {"select_links", "select_children", "select_direct_users"}
      BY <1>1, <2>2 DEF Found
    <2>3. CASE step = "select_parent"
      <3>1. \A f : f \in [DOMAIN f -> NodeRow(IdsIn(d))] => f \in [DOMAIN f -> NodeRow(IdsIn(new))]
        BY <1>8
      <3> QED
        BY <1>1, <1>2, <1>4, <1>12, <2>3, <3>1 DEF Found
    <2>4. CASE step \in {"select_nodes", "select_roles", "select_users"}
      BY <1>1, <1>2, <1>4, <1>8, <1>9, <1>12, <2>4 DEF Found
    <2>5. CASE step = "select_keys"
      <3> SUFFICES ASSUME r.op = "reset_user_key" PROVE Found(new, q, t, step)
        BY <1>2, <2>5 DEF Found
      <3>1. /\ "user" \in DOMAIN r /\ r.user \in IdsIn(d)
        BY DEF InProgress, AskedOK, RowsTyped, RowIds
      <3>2. t.user = r.user
        BY <1>2, <3>1
      <3>3. /\ "keys" \in DOMAIN r
            /\ \A k \in DOMAIN r.keys : r.keys[k] \in KeyRow({r.user}) /\ r.keys[k].active
            /\ \A k \in r.keysBefore \cap DOMAIN d.keys :
                  Usable(d, k) => k \in DOMAIN r.keys /\ r.keys[k].runtime
            /\ r.user \in DOMAIN d.users \ p.clashes =>
                  \A k \in RuntimeKeys(d, r.user) : k \in DOMAIN r.keys /\ r.keys[k].runtime
        BY <1>12, <2>5 DEF Found
      <3>4. "keys" \in DOMAIN t /\ t.keys = r.keys
        BY <1>1, <1>2, <3>3
      <3>5. ASSUME NEW k \in t.keysBefore \cap DOMAIN new.keys, Usable(new, k)
            PROVE  k \in DOMAIN t.keys /\ t.keys[k].runtime
        <4>1. k \in DOMAIN d.keys
          BY <1>2, <1>5 DEF InProgress, KeysBeforeOK
        <4>2. Usable(d, k)
          BY <3>5, <4>1 DEF Changes, KeysOnlyFade
        <4> QED
          BY <1>2, <3>3, <3>4, <4>1, <4>2
      <3>6. ASSUME r.user \in DOMAIN new.users \ q.clashes, NEW k \in RuntimeKeys(new, r.user)
            PROVE  k \in DOMAIN r.keys /\ r.keys[k].runtime
        <4>1. r.user \in DOMAIN d.users \ p.clashes
          BY <3>1, <3>6 DEF Changes, NewIdsAreNew
        <4>2. k \in DOMAIN new.keys /\ new.keys[k].user = r.user /\ Usable(new, k)
          BY <3>6, RuntimeKeysAre DEF Changes
        <4>3. k \in DOMAIN d.keys
          BY <3>1, <3>6, <4>2 DEF Changes, NewKeysAreEarned
        <4>4. k \in RuntimeKeys(d, r.user)
          BY <4>2, <4>3, RuntimeKeysAre DEF Changes, KeysOnlyFade
        <4> QED
          BY <3>3, <4>1, <4>4
      <3> QED
        BY <1>2, <2>5, <3>2, <3>3, <3>4, <3>5, <3>6 DEF Found
    <2> QED
      BY <2>1, <2>2, <2>3, <2>4, <2>5 DEF Found
  <1> QED
    BY <1>1, <1>2, <1>6, <1>7, <1>11, <1>12 DEF InProgress, Done

LEMMA NotedIs ==
    ASSUME DirectoryInv, NEW a \in Admin, NEW new, NEW q, q = Noted(a, new)
    PROVE  /\ DOMAIN q = {"retired", "clashes", "raced", "upset", "roots"}
           /\ past.raced \subseteq q.raced /\ past.clashes \subseteq q.clashes
           /\ q.raced \subseteq past.raced \cup (RowIds(db) \ RowIds(new))
           /\ Others(a) # {} \/ sess[a].overtaken => RowIds(db) \ RowIds(new) \subseteq q.raced
           /\ \A k \in q.retired : k \notin past.retired => sess[a].op = "reset_user_key" /\ k \in sess[a].keysBefore
           /\ \A b \in Others(a) :
                 sess[a].op = "reset_user_key" /\ sess[b].op = "reset_user_key" /\ sess[a].user = sess[b].user
                 /\ sess[b].user \in DOMAIN new.users => sess[b].user \in q.clashes
  <1> DEFINE s == sess[a]
  <1>1. DOMAIN q = {"retired", "clashes", "raced", "upset", "roots"}
    BY DEF Noted
  <1>2. q.retired = past.retired \cup IF s.op = "reset_user_key" THEN s.keysBefore ELSE {}
    BY DEF Noted
  <1>3. q.clashes = past.clashes \cup
          {u \in DOMAIN new.users : s.op = "reset_user_key" /\ s.user = u
              /\ \E b \in Others(a) : sess[b].op = "reset_user_key" /\ sess[b].user = u}
    BY DEF Noted
  <1>4. q.raced = past.raced \cup IF Others(a) # {} \/ s.overtaken THEN RowIds(db) \ RowIds(new) ELSE {}
    BY DEF Noted
  <1> HIDE DEF s
  <1>5. /\ past.raced \subseteq q.raced /\ q.raced \subseteq past.raced \cup (RowIds(db) \ RowIds(new))
        /\ Others(a) # {} \/ s.overtaken => RowIds(db) \ RowIds(new) \subseteq q.raced
    BY <1>4
  <1>6. /\ past.clashes \subseteq q.clashes
        /\ \A b \in Others(a) :
              s.op = "reset_user_key" /\ sess[b].op = "reset_user_key" /\ s.user = sess[b].user
              /\ sess[b].user \in DOMAIN new.users => sess[b].user \in q.clashes
    BY <1>3
  <1>7. \A k \in q.retired : k \notin past.retired => s.op = "reset_user_key" /\ k \in s.keysBefore
    BY <1>2
  <1> QED
    BY <1>1, <1>5, <1>6, <1>7 DEF s

LEMMA CommitKeeps ==
    ASSUME DirectoryInv, NEW a \in Admin, InProgress(db, past, sess[a]), NEW new,
           Unique(new), Changes(db, past, sess[a], new), Refers(new, Noted(a, new).raced), Commit(a, new)
    PROVE  DirectoryInv'
  <1> DEFINE q == Noted(a, new)
             s == sess[a]
  <1>1. /\ DOMAIN q = {"retired", "clashes", "raced", "upset", "roots"}
        /\ past.raced \subseteq q.raced /\ past.clashes \subseteq q.clashes
        /\ q.raced \subseteq past.raced \cup (RowIds(db) \ RowIds(new))
        /\ Others(a) # {} => RowIds(db) \ RowIds(new) \subseteq q.raced
        /\ \A k \in q.retired : k \notin past.retired => s.op = "reset_user_key" /\ k \in s.keysBefore
        /\ \A b \in Others(a) :
              s.op = "reset_user_key" /\ sess[b].op = "reset_user_key" /\ s.user = sess[b].user
              /\ sess[b].user \in DOMAIN new.users => sess[b].user \in q.clashes
    BY NotedIs
  <1>2. Refers(new, q.raced)
    OBVIOUS
  <1>3. /\ db' = new /\ past' = q
        /\ sess' = [b \in Admin |-> IF b = a THEN NoRequest
                                     ELSE IF Busy(b) THEN [sess[b] EXCEPT !.overtaken = TRUE] ELSE sess[b]]
    BY DEF Commit
  <1> HIDE DEF q
  <1>4. /\ RowsTyped(db) /\ past.raced \subseteq IdsIn(db) /\ past.retired \subseteq IdsIn(db)
        /\ \A k \in past.retired \cap DOMAIN db.keys : ~Usable(db, k)
        /\ \A u \in DOMAIN db.users \ past.clashes : OneKey(db, u)
    BY DEF DirectoryInv, TablesOK, TablesTyped
  <1>5. RowsTyped(new) /\ IdsIn(db) \subseteq IdsIn(new) /\ RowIds(db) \subseteq IdsIn(db)
    BY <1>4 DEF Changes, NewIdsAreNew, RowsTyped, IdsIn
  <1>6. q.raced \subseteq IdsIn(new)
    BY <1>1, <1>4, <1>5
  <1>7. q.retired \subseteq IdsIn(new)
    BY <1>1, <1>4, <1>5 DEF InProgress, KeysBeforeOK
  <1>8. ASSUME NEW k \in q.retired \cap DOMAIN new.keys PROVE ~Usable(new, k)
    <2>1. k \in IdsIn(db)
      BY <1>1, <1>4 DEF InProgress, KeysBeforeOK
    <2>2. k \in DOMAIN db.keys
      BY <2>1 DEF Changes, NewIdsAreNew
    <2>3. CASE k \in past.retired
      BY <1>4, <2>2, <2>3 DEF Changes, KeysOnlyFade
    <2>4. CASE s.op = "reset_user_key" /\ k \in s.keysBefore
      BY <2>2, <2>4 DEF Changes, ResetRetires
    <2> QED
      BY <1>1, <2>3, <2>4
  <1>9. \A u \in DOMAIN new.users \ q.clashes : OneKey(new, u)
    BY <1>1, <1>4, KeysStayOne
  <1>10. TablesOK(new, q)
    BY <1>2, <1>5, <1>6, <1>7, <1>8, <1>9 DEF TablesOK, TablesTyped
  <1>11. ASSUME NEW b \in Admin PROVE sess'[b] = NoRequest \/ InProgress(new, q, sess'[b])
    <2>1. CASE b = a \/ ~Busy(b)
      BY <1>3, <2>1 DEF DirectoryInv, InProgress, Ops, Busy
    <2>2. CASE b # a /\ Busy(b)
      <3> DEFINE t == [sess[b] EXCEPT !.overtaken = TRUE]
      <3>1. b \in Others(a) /\ InProgress(db, past, sess[b])
        BY <2>2 DEF Others, Busy, DirectoryInv, NoRequest
      <3>2. RowIds(db) \ RowIds(new) \subseteq q.raced
        BY <1>1, <3>1
      <3>3. InProgress(new, q, t)
        BY <1>1, <1>4, <3>1, <3>2, OvertakenKeeps
      <3> QED
        BY <1>3, <2>2, <3>3
    <2> QED
      BY <2>1, <2>2
  <1> QED
    BY <1>1, <1>3, <1>10, <1>11 DEF DirectoryInv

\* A write keeps the invariant if what it commits is as it should be.
LEMMA WriteKeeps ==
    ASSUME DirectoryInv, NEW a \in Admin, At(a, "write"), NEW stale, NEW new, Write(a, stale, new),
           ~stale => Changes(db, past, sess[a], new) /\ Refers(new, Noted(a, new).raced)
    PROVE  DirectoryInv'
  <1>1. CASE Refuse(a)
    BY <1>1 DEF Refuse, DirectoryInv
  <1>2. CASE ~stale /\ Unique(new) /\ Commit(a, new)
    <2>1. InProgress(db, past, sess[a])
      BY AtIs DEF StepNames
    <2> QED
      BY <1>2, <2>1, CommitKeeps
  <1> QED
    BY <1>1, <1>2 DEF Write
-----------------------------------------------------------------------------
(* Writes. *)

LEMMA AtWrite ==
    ASSUME DirectoryInv, NEW a \in Admin, NEW op, Is(a, op)
    PROVE  /\ InProgress(db, past, sess[a]) /\ sess[a].op = op
           /\ \A y \in StepNames \ {"write"} : Found(db, past, sess[a], y)
           /\ TablesTyped(db) /\ Refers(db, past.raced) /\ past.raced \subseteq IdsIn(db)
  <1>1. At(a, "write") /\ sess[a].op = op /\ "write" \in StepNames
    BY DEF Is, StepNames
  <1>2. InProgress(db, past, sess[a]) /\ \A y \in StepNames \ {"write"} : Done(sess[a], y)
    BY <1>1, AtIs
  <1> QED
    BY <1>1, <1>2 DEF InProgress, DirectoryInv, TablesOK

\* What was referred to still is, if nothing that is referred to is deleted.
LEMMA NotedRefers ==
    ASSUME DirectoryInv, NEW a \in Admin, NEW new, Refers(new, past.raced)
    PROVE  Refers(new, Noted(a, new).raced)
  <1>1. past.raced \subseteq Noted(a, new).raced
    BY NotedIs
  <1> QED
    BY <1>1, RefersMore

LEMMA IdsGrow ==
    ASSUME NEW d, NEW e, d.next \in Nat, e.next \in Nat, d.next <= e.next
    PROVE  /\ IdsIn(d) \subseteq IdsIn(e)
           /\ \A x : x \in UserRow(IdsIn(d)) => x \in UserRow(IdsIn(e))
           /\ \A x : x \in NodeRow(IdsIn(d)) => x \in NodeRow(IdsIn(e))
           /\ \A x : x \in KeyRow(IdsIn(d)) => x \in KeyRow(IdsIn(e))
  <1>1. IdsIn(d) \subseteq IdsIn(e)
    BY DEF IdsIn
  <1> QED
    BY <1>1 DEF UserRow, NodeRow, KeyRow

LEMMA WithUserIs ==
    ASSUME NEW d, RowsTyped(d), NEW ref, NEW node, NEW roleIds, NEW new, new = WithUser(d, ref, node, roleIds)
    PROVE  /\ DOMAIN new = DOMAIN d /\ new.next = d.next + 2 /\ new.nodes = d.nodes /\ new.roles = d.roles
           /\ new.links = ReplacedLinks(d, d.next, roleIds)
           /\ DOMAIN new.users = DOMAIN d.users \cup {d.next}
           /\ \A u \in DOMAIN d.users : new.users[u] = d.users[u]
           /\ new.users[d.next] = [ref |-> ref, node |-> node, status |-> "active"]
           /\ DOMAIN new.keys = DOMAIN d.keys \cup {d.next + 1}
           /\ \A k \in DOMAIN d.keys : new.keys[k] = d.keys[k]
           /\ new.keys[d.next + 1] = RuntimeKey(d.next)
  <1> DEFINE row == [ref |-> ref, node |-> node, status |-> "active"]
             key == RuntimeKey(d.next)
  <1>1. DOMAIN d = {"users", "roles", "nodes", "links", "keys", "next"} /\ d.next \in Nat
        /\ DOMAIN d.users \subseteq IdsIn(d) /\ DOMAIN d.keys \subseteq IdsIn(d)
    BY DEF RowsTyped, RowIds
  <1>2. d.next \notin IdsIn(d) /\ d.next + 1 \notin IdsIn(d)
    BY <1>1 DEF IdsIn
  <1>3. DOMAIN new = DOMAIN d
    BY <1>1 DEF WithUser
  <1>4. new.next = d.next + 2 /\ new.nodes = d.nodes /\ new.roles = d.roles
    BY <1>1 DEF WithUser
  <1>5. new.links = ReplacedLinks(d, d.next, roleIds)
    BY <1>1 DEF WithUser
  <1>6. new.users = Single(d.next, row) ++ d.users
    BY <1>1 DEF WithUser
  <1>7. new.keys = Single(d.next + 1, key) ++ d.keys
    BY <1>1 DEF WithUser
  <1> HIDE DEF row, key
  <1>8. /\ DOMAIN new.users = DOMAIN d.users \cup {d.next} /\ new.users[d.next] = row
        /\ \A u \in DOMAIN d.users : new.users[u] = d.users[u]
    BY <1>1, <1>2, <1>6 DEF Single, ++
  <1>9. /\ DOMAIN new.keys = DOMAIN d.keys \cup {d.next + 1} /\ new.keys[d.next + 1] = key
        /\ \A k \in DOMAIN d.keys : new.keys[k] = d.keys[k]
    BY <1>1, <1>2, <1>7 DEF Single, ++
  <1> QED
    BY <1>3, <1>4, <1>5, <1>8, <1>9 DEF row, key

LEMMA WithUserTyped ==
    ASSUME NEW d, RowsTyped(d), NEW ref \in Refs, NEW node \in IdsIn(d) \cup {Null},
           NEW roleIds \in SUBSET IdsIn(d), NEW new, new = WithUser(d, ref, node, roleIds)
    PROVE  RowsTyped(new) /\ NewIdsAreNew(d, new)
  <1>1. /\ DOMAIN new = DOMAIN d /\ new.next = d.next + 2 /\ new.nodes = d.nodes /\ new.roles = d.roles
        /\ new.links = ReplacedLinks(d, d.next, roleIds)
        /\ DOMAIN new.users = DOMAIN d.users \cup {d.next}
        /\ \A u \in DOMAIN d.users : new.users[u] = d.users[u]
        /\ new.users[d.next] = [ref |-> ref, node |-> node, status |-> "active"]
        /\ DOMAIN new.keys = DOMAIN d.keys \cup {d.next + 1}
        /\ \A k \in DOMAIN d.keys : new.keys[k] = d.keys[k]
        /\ new.keys[d.next + 1] = RuntimeKey(d.next)
    BY WithUserIs
  <1>2. d.next \in Nat /\ new.next \in Nat /\ d.next <= new.next
    BY <1>1 DEF RowsTyped
  <1>3. d.next \notin IdsIn(d) /\ d.next + 1 \notin IdsIn(d)
    BY <1>2 DEF IdsIn
  <1>4. d.next \in IdsIn(new) /\ d.next + 1 \in IdsIn(new)
    BY <1>1, <1>2 DEF IdsIn, RowsTyped
  <1>5. /\ IdsIn(d) \subseteq IdsIn(new)
        /\ \A x : x \in UserRow(IdsIn(d)) => x \in UserRow(IdsIn(new))
        /\ \A x : x \in NodeRow(IdsIn(d)) => x \in NodeRow(IdsIn(new))
        /\ \A x : x \in KeyRow(IdsIn(d)) => x \in KeyRow(IdsIn(new))
    BY <1>2, IdsGrow
  <1>6. \A u \in DOMAIN new.users : new.users[u] \in UserRow(IdsIn(new))
    <2>1. new.users[d.next] \in UserRow(IdsIn(new))
      BY <1>1, <1>5 DEF UserRow
    <2> QED
      BY <1>1, <1>5, <2>1 DEF RowsTyped
  <1>7. \A k \in DOMAIN new.keys : new.keys[k] \in KeyRow(IdsIn(new))
    <2>1. RuntimeKey(d.next) \in KeyRow(IdsIn(new))
      BY <1>4 DEF KeyRow, RuntimeKey
    <2> QED
      BY <1>1, <1>5, <2>1 DEF RowsTyped
  <1>8. new.links \subseteq IdsIn(new) \X IdsIn(new)
    BY <1>1, <1>4, <1>5 DEF RowsTyped, ReplacedLinks
  <1>9. /\ RowIds(new) \subseteq IdsIn(new)
        /\ \A r \in DOMAIN new.roles : new.roles[r] \in Names
        /\ \A n \in DOMAIN new.nodes : new.nodes[n] \in NodeRow(IdsIn(new))
    BY <1>1, <1>4, <1>5 DEF RowsTyped, RowIds
  <1>10. /\ DOMAIN new.users \cap (DOMAIN new.roles \cup DOMAIN new.nodes \cup DOMAIN new.keys) = {}
         /\ DOMAIN new.roles \cap (DOMAIN new.nodes \cup DOMAIN new.keys) = {}
         /\ DOMAIN new.nodes \cap DOMAIN new.keys = {}
    BY <1>1, <1>2, <1>3 DEF RowsTyped, RowIds
  <1>11. NewIdsAreNew(d, new)
    BY <1>1, <1>2, <1>3 DEF NewIdsAreNew
  <1>12. new.next \in Nat \ {0} /\ DOMAIN new = {"users", "roles", "nodes", "links", "keys", "next"}
    BY <1>1, <1>2 DEF RowsTyped
  <1> QED
    BY <1>6, <1>7, <1>8, <1>9, <1>10, <1>11, <1>12 DEF RowsTyped

LEMMA WithUserRefers ==
    ASSUME NEW d, RowsTyped(d), NEW gone, Refers(d, gone), NEW ref,
           NEW node \in DOMAIN d.nodes \cup gone \cup {Null}, NEW roleIds \in SUBSET (DOMAIN d.roles \cup gone),
           NEW new, new = WithUser(d, ref, node, roleIds)
    PROVE  Refers(new, gone)
  <1>1. /\ new.nodes = d.nodes /\ new.roles = d.roles
        /\ new.links = ReplacedLinks(d, d.next, roleIds)
        /\ DOMAIN new.users = DOMAIN d.users \cup {d.next}
        /\ \A u \in DOMAIN d.users : new.users[u] = d.users[u]
        /\ new.users[d.next] = [ref |-> ref, node |-> node, status |-> "active"]
        /\ DOMAIN new.keys = DOMAIN d.keys \cup {d.next + 1}
        /\ \A k \in DOMAIN d.keys : new.keys[k] = d.keys[k]
        /\ new.keys[d.next + 1] = RuntimeKey(d.next)
    BY WithUserIs
  <1>2. \A p \in new.links : p[1] \in DOMAIN new.users \cup gone /\ p[2] \in DOMAIN new.roles \cup gone
    BY <1>1 DEF Refers, ReplacedLinks
  <1>3. \A u \in DOMAIN new.users : new.users[u].node \in DOMAIN new.nodes \cup gone \cup {Null}
    BY <1>1 DEF Refers
  <1>4. \A n \in DOMAIN new.nodes : new.nodes[n].parent \in DOMAIN new.nodes \cup gone \cup {Null}
    BY <1>1 DEF Refers
  <1>5. \A k \in DOMAIN new.keys : new.keys[k].user \in DOMAIN new.users \cup gone
    <2>1. RuntimeKey(d.next).user = d.next
      BY DEF RuntimeKey
    <2> QED
      BY <1>1, <2>1 DEF Refers
  <1> QED
    BY <1>2, <1>3, <1>4, <1>5 DEF Refers

\* The keys of d stay as they are, and each user new since has one at most.
KeysGrow(d, new) ==
    /\ \A k \in DOMAIN d.keys : k \in DOMAIN new.keys /\ new.keys[k] = d.keys[k]
    /\ \A k \in DOMAIN new.keys \ DOMAIN d.keys :
          /\ new.keys[k].user \notin IdsIn(d)
          /\ \A l \in DOMAIN new.keys \ DOMAIN d.keys : new.keys[k].user = new.keys[l].user => k = l

LEMMA WithUserKeys ==
    ASSUME NEW d, RowsTyped(d), NEW e, RowsTyped(e), d.next <= e.next, KeysGrow(d, e),
           NEW ref, NEW node, NEW roleIds, NEW new, new = WithUser(e, ref, node, roleIds)
    PROVE  KeysGrow(d, new)
  <1>1. /\ DOMAIN new = DOMAIN e /\ new.next = e.next + 2 /\ new.nodes = e.nodes /\ new.roles = e.roles
        /\ new.links = ReplacedLinks(e, e.next, roleIds)
        /\ DOMAIN new.users = DOMAIN e.users \cup {e.next}
        /\ \A u \in DOMAIN e.users : new.users[u] = e.users[u]
        /\ new.users[e.next] = [ref |-> ref, node |-> node, status |-> "active"]
        /\ DOMAIN new.keys = DOMAIN e.keys \cup {e.next + 1}
        /\ \A k \in DOMAIN e.keys : new.keys[k] = e.keys[k]
        /\ new.keys[e.next + 1] = RuntimeKey(e.next)
    BY ONLY WithUserIs, RowsTyped(e), new = WithUser(e, ref, node, roleIds)
  <1>2. \A k \in DOMAIN e.keys : e.keys[k].user \in IdsIn(e)
    BY KeyRowIs DEF RowsTyped
  <1>3. e.next \notin IdsIn(e) /\ e.next \notin IdsIn(d) /\ RuntimeKey(e.next).user = e.next
    BY DEF RowsTyped, IdsIn, RuntimeKey
  <1> QED
    BY <1>1, <1>2, <1>3 DEF KeysGrow

\* What a request other than a reset does to the keys.
LEMMA GrowsChanges ==
    ASSUME NEW d, NEW p, NEW s, NEW new, RowsTyped(new), NewIdsAreNew(d, new),
           KeysGrow(d, new), s.op # "reset_user_key"
    PROVE  Changes(d, p, s, new)
  BY DEF Changes, KeysGrow, KeysOnlyFade, NewKeysAreEarned, ResetRetires, Usable

LEMMA CreateUserStep ==
    ASSUME DirectoryInv, NEW a \in Admin, create_user(a)
    PROVE  DirectoryInv'
  <1> DEFINE s == sess[a]
             new == WithUser(db, s.ref, s.org, s.roles)
  <1>1. Is(a, "create_user") /\ Write(a, FALSE, new) /\ At(a, "write")
    BY DEF create_user, Is
  <1>2. /\ InProgress(db, past, s) /\ s.op = "create_user"
        /\ RowsTyped(db) /\ Refers(db, past.raced) /\ past.raced \subseteq IdsIn(db)
    BY <1>1, AtWrite DEF TablesTyped
  <1>3. /\ s.ref \in Refs /\ s.org \in DOMAIN db.nodes \cup past.raced \cup {Null}
        /\ s.roles \subseteq DOMAIN db.roles \cup past.raced
    BY <1>2 DEF InProgress, AskedOK
  <1>4. s.org \in IdsIn(db) \cup {Null} /\ s.roles \subseteq IdsIn(db)
    BY <1>2, <1>3 DEF RowsTyped, RowIds
  <1>5. RowsTyped(new) /\ NewIdsAreNew(db, new)
    BY <1>2, <1>3, <1>4, WithUserTyped
  <1>6. Refers(new, past.raced)
    BY <1>2, <1>3, WithUserRefers
  <1>7. db.next <= db.next /\ KeysGrow(db, db)
    BY <1>2 DEF KeysGrow, RowsTyped
  <1>8. KeysGrow(db, new)
    BY <1>2, <1>7, WithUserKeys
  <1>9. Changes(db, past, s, new)
    BY <1>2, <1>5, <1>8, GrowsChanges
  <1> QED
    BY <1>1, <1>6, <1>9, NotedRefers, WriteKeeps

\* Rows that are changed or deleted.
LEMMA Retyped ==
    ASSUME NEW d, RowsTyped(d), NEW new, DOMAIN new = DOMAIN d, new.next = d.next,
           DOMAIN new.users \subseteq DOMAIN d.users, DOMAIN new.roles \subseteq DOMAIN d.roles,
           DOMAIN new.nodes \subseteq DOMAIN d.nodes, DOMAIN new.keys \subseteq DOMAIN d.keys,
           \A u \in DOMAIN new.users : new.users[u] \in UserRow(IdsIn(d)),
           \A r \in DOMAIN new.roles : new.roles[r] \in Names,
           \A n \in DOMAIN new.nodes : new.nodes[n] \in NodeRow(IdsIn(d)),
           \A k \in DOMAIN new.keys : new.keys[k] \in KeyRow(IdsIn(d)),
           new.links \subseteq IdsIn(d) \X IdsIn(d)
    PROVE  RowsTyped(new) /\ NewIdsAreNew(d, new)
  <1>1. IdsIn(new) = IdsIn(d)
    BY DEF IdsIn
  <1> QED
    BY <1>1 DEF RowsTyped, RowIds, NewIdsAreNew

LEMMA TablesAre ==
    ASSUME NEW d, RowsTyped(d)
    PROVE  /\ DOMAIN d = {"users", "roles", "nodes", "links", "keys", "next"}
           /\ \A u \in DOMAIN d.users : d.users[u] \in UserRow(IdsIn(d))
           /\ \A r \in DOMAIN d.roles : d.roles[r] \in Names
           /\ \A n \in DOMAIN d.nodes : d.nodes[n] \in NodeRow(IdsIn(d))
           /\ \A k \in DOMAIN d.keys : d.keys[k] \in KeyRow(IdsIn(d))
           /\ d.links \subseteq IdsIn(d) \X IdsIn(d)
           /\ DOMAIN d.users \subseteq IdsIn(d) /\ DOMAIN d.roles \subseteq IdsIn(d)
           /\ DOMAIN d.nodes \subseteq IdsIn(d) /\ DOMAIN d.keys \subseteq IdsIn(d)
  BY DEF RowsTyped, RowIds

LEMMA UpdateUserStep ==
    ASSUME DirectoryInv, NEW a \in Admin, update_user(a)
    PROVE  DirectoryInv'
  <1> DEFINE s == sess[a]
             loaded == Single(s.user, s.row)
             row == [s.row EXCEPT !.node = Kept(s.org, @), !.status = Kept(s.status, @)]
             object == Single(s.user, row)
             users == Flushed(db.users, loaded, object)
             links == IF s.roles = Keep THEN db.links ELSE ReplacedLinks(db, s.user, s.roles)
             new == [db EXCEPT !.users = users, !.links = links]
  <1>1. Is(a, "update_user") /\ Write(a, Stale(db.users, loaded, object), new) /\ At(a, "write")
    BY DEF update_user, Is
  <1>2. /\ InProgress(db, past, s) /\ s.op = "update_user" /\ Found(db, past, s, "select_user")
        /\ RowsTyped(db) /\ Refers(db, past.raced) /\ past.raced \subseteq IdsIn(db)
    BY <1>1, AtWrite DEF TablesTyped, StepNames
  <1>3. /\ s.user \in DOMAIN db.users \cup past.raced
        /\ s.org \in DOMAIN db.nodes \cup past.raced \cup {Null} \cup {Keep}
        /\ s.roles = Keep \/ s.roles \subseteq DOMAIN db.roles \cup past.raced
        /\ s.status \in {"active", "disabled", Keep}
    BY <1>2 DEF InProgress, AskedOK
  <1>4. /\ DOMAIN db = {"users", "roles", "nodes", "links", "keys", "next"}
        /\ \A u \in DOMAIN db.users : db.users[u] \in UserRow(IdsIn(db))
        /\ DOMAIN db.users \subseteq IdsIn(db) /\ DOMAIN db.roles \subseteq IdsIn(db)
        /\ DOMAIN db.nodes \subseteq IdsIn(db)
        /\ db.links \subseteq IdsIn(db) \X IdsIn(db)
    BY <1>2, TablesAre
  <1>5. s.row \in UserRow(IdsIn(db))
    BY <1>2 DEF Found
  <1>6. /\ row \in UserRow(IdsIn(db))
        /\ row.node # s.row.node => row.node \in DOMAIN db.nodes \cup past.raced \cup {Null}
    <2>1. Kept(s.org, s.row.node) \in IdsIn(db) \cup {Null} /\ Kept(s.status, s.row.status) \in {"active", "disabled"}
      BY <1>2, <1>3, <1>4, <1>5, UserRowIs DEF Kept
    <2>2. DOMAIN s.row = {"ref", "node", "status"} /\ s.row.ref \in Refs
      BY <1>5, UserRowIs
    <2>3. /\ row = [c \in DOMAIN s.row |-> row[c]] /\ row.ref = s.row.ref
          /\ row.node = Kept(s.org, s.row.node) /\ row.status = Kept(s.status, s.row.status)
      BY <2>2
    <2>5. row \in UserRow(IdsIn(db))
      <3> HIDE DEF row
      <3> QED
        BY <2>1, <2>2, <2>3 DEF UserRow
    <2>6. row.node # s.row.node => row.node = s.org /\ s.org # Keep
      BY <2>3 DEF Kept
    <2> HIDE DEF row
    <2> QED
      BY <1>3, <2>5, <2>6
  <1>7. /\ DOMAIN loaded = {s.user} /\ loaded[s.user] = s.row
        /\ DOMAIN object = {s.user} /\ object[s.user] = row
    BY DEF Single
  <1> HIDE DEF row, loaded, object
  <1>8. /\ DOMAIN new = DOMAIN db /\ new.next = db.next /\ new.users = users /\ new.links = links
        /\ new.roles = db.roles /\ new.nodes = db.nodes /\ new.keys = db.keys
    BY <1>4
  <1>9. DOMAIN users = DOMAIN db.users /\ \A u \in DOMAIN users : users[u] \in UserRow(IdsIn(db))
    <2>1. \A u \in DOMAIN object : object[u] \in UserRow(IdsIn(db))
      BY <1>6, <1>7
    <2> QED
      BY <1>4, <2>1, FlushedUsers, FlushedIs
  <1>10. \A u \in DOMAIN users : users[u].node \in DOMAIN db.nodes \cup past.raced \cup {Null}
    <2> SUFFICES ASSUME NEW u \in DOMAIN db.users
                 PROVE  users[u].node \in DOMAIN db.nodes \cup past.raced \cup {Null}
      BY <1>9
    <2>1. db.users[u].node \in DOMAIN db.nodes \cup past.raced \cup {Null}
      BY <1>2 DEF Refers
    <2>2. CASE users[u] = db.users[u]
      BY <2>1, <2>2
    <2>3. CASE /\ u \in DOMAIN object
               /\ users[u] = [c \in DOMAIN db.users[u] |->
                                IF object[u][c] # loaded[u][c] THEN object[u][c] ELSE db.users[u][c]]
      <3>1. "node" \in DOMAIN db.users[u]
        BY <1>4, UserRowIs
      <3>2. users[u].node = IF row.node # s.row.node THEN row.node ELSE db.users[u].node
        BY <1>7, <2>3, <3>1
      <3> QED
        BY <1>6, <2>1, <3>2
    <2> QED
      BY <2>2, <2>3, FlushedIs
  <1>11. /\ links \subseteq IdsIn(db) \X IdsIn(db)
         /\ \A p \in links : p[1] \in DOMAIN db.users \cup past.raced /\ p[2] \in DOMAIN db.roles \cup past.raced
    BY <1>2, <1>3, <1>4 DEF ReplacedLinks, Refers
  <1> HIDE DEF users, links, new
  <1>12. RowsTyped(new) /\ NewIdsAreNew(db, new)
    BY <1>2, <1>8, <1>9, <1>11, TablesAre, Retyped
  <1>13. Refers(new, past.raced)
    BY <1>2, <1>8, <1>9, <1>10, <1>11 DEF Refers
  <1>14. KeysGrow(db, new)
    BY <1>8 DEF KeysGrow
  <1>15. Changes(db, past, s, new)
    BY <1>2, <1>12, <1>14, GrowsChanges
  <1> QED
    BY <1>1, <1>13, <1>15, NotedRefers, WriteKeeps DEF new

LEMMA DeleteUserStep ==
    ASSUME DirectoryInv, NEW a \in Admin, delete_user(a)
    PROVE  DirectoryInv'
  <1> DEFINE s == sess[a]
             u == s.user
             users == Without(db.users, {u})
             links == ReplacedLinks(db, u, {})
             keys == Without(db.keys, {k \in DOMAIN db.keys : db.keys[k].user = u})
             new == [db EXCEPT !.users = users, !.links = links, !.keys = keys]
  <1>1. Is(a, "delete_user") /\ Write(a, FALSE, new) /\ At(a, "write")
    BY DEF delete_user, Is
  <1>2. /\ s.op = "delete_user" /\ RowsTyped(db) /\ Refers(db, past.raced)
    BY <1>1, AtWrite DEF TablesTyped
  <1>3. /\ DOMAIN db = {"users", "roles", "nodes", "links", "keys", "next"}
        /\ \A v \in DOMAIN db.users : db.users[v] \in UserRow(IdsIn(db))
        /\ \A k \in DOMAIN db.keys : db.keys[k] \in KeyRow(IdsIn(db))
        /\ db.links \subseteq IdsIn(db) \X IdsIn(db)
    BY <1>2, TablesAre
  <1>4. /\ DOMAIN new = DOMAIN db /\ new.next = db.next /\ new.users = users /\ new.links = links
        /\ new.roles = db.roles /\ new.nodes = db.nodes /\ new.keys = keys
    BY <1>3
  <1>5. /\ DOMAIN users = DOMAIN db.users \ {u} /\ \A v \in DOMAIN users : users[v] = db.users[v]
        /\ DOMAIN keys = {k \in DOMAIN db.keys : db.keys[k].user # u} /\ \A k \in DOMAIN keys : keys[k] = db.keys[k]
        /\ links = {p \in db.links : p[1] # u}
    BY DEF Without, ReplacedLinks
  <1> HIDE DEF users, links, keys, new
  <1>6. RowsTyped(new) /\ NewIdsAreNew(db, new)
    <2>1. /\ \A v \in DOMAIN new.users : new.users[v] \in UserRow(IdsIn(db))
          /\ \A k \in DOMAIN new.keys : new.keys[k] \in KeyRow(IdsIn(db))
          /\ new.links \subseteq IdsIn(db) \X IdsIn(db)
          /\ DOMAIN new.users \subseteq DOMAIN db.users /\ DOMAIN new.keys \subseteq DOMAIN db.keys
      BY <1>3, <1>4, <1>5
    <2> QED
      BY <1>2, <1>4, <2>1, TablesAre, Retyped
  <1>7. Refers(new, past.raced)
    BY <1>2, <1>4, <1>5 DEF Refers
  <1>8. Changes(db, past, s, new)
    BY <1>2, <1>4, <1>5, <1>6 DEF Changes, KeysOnlyFade, NewKeysAreEarned, ResetRetires, Usable
  <1> QED
    BY <1>1, <1>7, <1>8, NotedRefers, WriteKeeps DEF new

\* Edited keys: their users stay, and what was dropped on the loaded row is dropped.
LEMMA FlushedKeys ==
    ASSUME NEW table, NEW loaded, NEW object, NEW ids, NEW new, new = Flushed(table, loaded, object),
           \A k \in DOMAIN table : table[k] \in KeyRow(ids),
           \A k \in DOMAIN object :
              /\ object[k].user = loaded[k].user
              /\ object[k].runtime \in BOOLEAN /\ object[k].active \in BOOLEAN
              /\ object[k].runtime # loaded[k].runtime => ~object[k].runtime
              /\ object[k].active # loaded[k].active => ~object[k].active
    PROVE  /\ DOMAIN new = DOMAIN table
           /\ \A k \in DOMAIN table :
                /\ new[k] \in KeyRow(ids) /\ new[k].user = table[k].user
                /\ new[k].runtime /\ new[k].active => table[k].runtime /\ table[k].active
                /\ k \in DOMAIN object /\ object[k].active # loaded[k].active => ~new[k].active
  <1>1. DOMAIN new = DOMAIN table
    BY FlushedIs
  <1>2. ASSUME NEW k \in DOMAIN table
        PROVE  /\ new[k] \in KeyRow(ids) /\ new[k].user = table[k].user
               /\ new[k].runtime /\ new[k].active => table[k].runtime /\ table[k].active
               /\ k \in DOMAIN object /\ object[k].active # loaded[k].active => ~new[k].active
    <2>1. table[k] \in KeyRow(ids)
      OBVIOUS
    <2>2. /\ DOMAIN table[k] = {"user", "runtime", "active"} /\ table[k].user \in ids
          /\ table[k].runtime \in BOOLEAN /\ table[k].active \in BOOLEAN
      BY <2>1, KeyRowIs
    <2>3. CASE k \notin DOMAIN object
      <3>1. new[k] = table[k]
        BY <2>3 DEF Flushed, Dirty
      <3> QED
        BY <2>1, <2>3, <3>1
    <2>4. CASE k \in DOMAIN object
      <3>1. new[k] = [c \in DOMAIN table[k] |->
                        IF object[k][c] # loaded[k][c] THEN object[k][c] ELSE table[k][c]]
        <4>1. CASE k \in Dirty(loaded, object)
          BY <4>1 DEF Flushed
        <4>2. CASE k \notin Dirty(loaded, object)
          <5>1. object[k] = loaded[k] /\ new[k] = table[k]
            BY <2>4, <4>2 DEF Flushed, Dirty
          <5>2. table[k] = [c \in DOMAIN table[k] |-> table[k][c]]
            BY <2>1 DEF KeyRow
          <5> QED
            BY <5>1, <5>2
        <4> QED
          BY <4>1, <4>2
      <3>2. /\ new[k] = [c \in {"user", "runtime", "active"} |-> new[k][c]]
            /\ new[k].user = table[k].user
            /\ new[k].runtime = IF object[k].runtime # loaded[k].runtime THEN object[k].runtime ELSE table[k].runtime
            /\ new[k].active = IF object[k].active # loaded[k].active THEN object[k].active ELSE table[k].active
        BY <2>2, <2>4, <3>1
      <3>3. new[k].runtime \in BOOLEAN /\ new[k].active \in BOOLEAN
        BY <2>2, <2>4, <3>2
      <3>4. new[k] \in KeyRow(ids)
        BY <2>2, <3>2, <3>3 DEF KeyRow
      <3> QED
        BY <2>4, <3>2, <3>4
    <2> QED
      BY <2>3, <2>4
  <1> QED
    BY <1>1, <1>2

LEMMA EditKeyStep ==
    ASSUME DirectoryInv, NEW a \in Admin, update_api_key(a) \/ revoke_api_key(a)
    PROVE  DirectoryInv'
  <1> DEFINE s == sess[a]
  <1>1. /\ InProgress(db, past, s) /\ s.op \in {"update_api_key", "revoke_api_key"} /\ At(a, "write")
        /\ Found(db, past, s, "select_key") /\ RowsTyped(db) /\ Refers(db, past.raced)
    BY AtWrite DEF update_api_key, revoke_api_key, Is, TablesTyped, StepNames
  <1>2. s.row \in KeyRow(IdsIn(db))
    BY <1>1 DEF Found
  <1>3. ASSUME NEW object, EditKey(a, object), object.user = s.row.user,
               object.runtime \in BOOLEAN, object.active \in BOOLEAN,
               object.runtime # s.row.runtime => ~object.runtime,
               object.active # s.row.active => ~object.active
        PROVE  DirectoryInv'
    <2> DEFINE loaded == Single(s.key, s.row)
               edited == Single(s.key, object)
               keys == Flushed(db.keys, loaded, edited)
               new == [db EXCEPT !.keys = keys]
    <2>1. Write(a, Stale(db.keys, loaded, edited), new)
      BY <1>3 DEF EditKey
    <2>2. /\ DOMAIN edited = {s.key} /\ edited[s.key] = object /\ loaded[s.key] = s.row
      BY DEF Single
    <2>3. /\ DOMAIN db = {"users", "roles", "nodes", "links", "keys", "next"}
          /\ \A k \in DOMAIN db.keys : db.keys[k] \in KeyRow(IdsIn(db))
      BY <1>1, TablesAre
    <2>4. /\ DOMAIN new = DOMAIN db /\ new.next = db.next /\ new.users = db.users /\ new.links = db.links
          /\ new.roles = db.roles /\ new.nodes = db.nodes /\ new.keys = keys
      BY <2>3
    <2> HIDE DEF loaded, edited
    <2>5. \A k \in DOMAIN edited :
              /\ edited[k].user = loaded[k].user
              /\ edited[k].runtime \in BOOLEAN /\ edited[k].active \in BOOLEAN
              /\ edited[k].runtime # loaded[k].runtime => ~edited[k].runtime
              /\ edited[k].active # loaded[k].active => ~edited[k].active
      BY <1>3, <2>2
    <2>6. /\ DOMAIN keys = DOMAIN db.keys
          /\ \A k \in DOMAIN db.keys :
                /\ keys[k] \in KeyRow(IdsIn(db)) /\ keys[k].user = db.keys[k].user
                /\ keys[k].runtime /\ keys[k].active => db.keys[k].runtime /\ db.keys[k].active
      BY <2>3, <2>5, FlushedKeys
    <2> HIDE DEF keys, new
    <2>7. RowsTyped(new) /\ NewIdsAreNew(db, new)
      BY <1>1, <2>4, <2>6, TablesAre, Retyped
    <2>8. Refers(new, past.raced)
      BY <1>1, <2>4, <2>6 DEF Refers
    <2>9. Changes(db, past, s, new)
      BY <1>1, <2>4, <2>6, <2>7 DEF Changes, KeysOnlyFade, NewKeysAreEarned, ResetRetires, Usable
    <2> QED
      BY <1>1, <2>1, <2>8, <2>9, NotedRefers, WriteKeeps DEF new, keys
  <1>4. /\ DOMAIN s.row = {"user", "runtime", "active"}
        /\ s.row.runtime \in BOOLEAN /\ s.row.active \in BOOLEAN
    BY <1>2, KeyRowIs
  <1>5. CASE update_api_key(a)
    <2> DEFINE object == [s.row EXCEPT !.runtime = FALSE]
    <2>1. EditKey(a, object)
      BY <1>5 DEF update_api_key
    <2>2. object.user = s.row.user /\ object.runtime = FALSE /\ object.active = s.row.active
      BY <1>4
    <2> HIDE DEF object
    <2> QED
      BY <1>3, <1>4, <2>1, <2>2
  <1>6. CASE revoke_api_key(a)
    <2> DEFINE object == [s.row EXCEPT !.active = FALSE]
    <2>1. EditKey(a, object)
      BY <1>6 DEF revoke_api_key
    <2>2. object.user = s.row.user /\ object.active = FALSE /\ object.runtime = s.row.runtime
      BY <1>4
    <2> HIDE DEF object
    <2> QED
      BY <1>3, <1>4, <2>1, <2>2
  <1> QED
    BY <1>5, <1>6

LEMMA ResetKeyStep ==
    ASSUME DirectoryInv, NEW a \in Admin, reset_runtime_key(a)
    PROVE  DirectoryInv'
  <1> DEFINE s == sess[a]
             objects == [k \in DOMAIN s.keys |-> [s.keys[k] EXCEPT !.active = ~s.keys[k].runtime]]
             left == Flushed(db.keys, s.keys, objects)
             key == RuntimeKey(s.user)
             keys == Single(db.next, key) ++ left
             new == [db EXCEPT !.keys = keys, !.next = db.next + 1]
  <1>1. Is(a, "reset_user_key") /\ Write(a, Stale(db.keys, s.keys, objects), new) /\ At(a, "write")
    BY DEF reset_runtime_key, Is
  <1>2. /\ InProgress(db, past, s) /\ s.op = "reset_user_key" /\ Found(db, past, s, "select_keys")
        /\ RowsTyped(db) /\ Refers(db, past.raced) /\ past.raced \subseteq IdsIn(db)
    BY <1>1, AtWrite DEF TablesTyped, StepNames
  <1>3. s.user \in DOMAIN db.users \cup past.raced
    BY <1>2 DEF InProgress, AskedOK
  <1>4. /\ \A k \in DOMAIN s.keys : s.keys[k] \in KeyRow({s.user}) /\ s.keys[k].active
        /\ \A k \in s.keysBefore \cap DOMAIN db.keys :
              Usable(db, k) => k \in DOMAIN s.keys /\ s.keys[k].runtime
        /\ s.user \in DOMAIN db.users \ past.clashes =>
              \A k \in RuntimeKeys(db, s.user) : k \in DOMAIN s.keys /\ s.keys[k].runtime
    BY <1>2 DEF Found
  <1>5. /\ DOMAIN db = {"users", "roles", "nodes", "links", "keys", "next"}
        /\ \A u \in DOMAIN db.users : db.users[u] \in UserRow(IdsIn(db))
        /\ \A r \in DOMAIN db.roles : db.roles[r] \in Names
        /\ \A n \in DOMAIN db.nodes : db.nodes[n] \in NodeRow(IdsIn(db))
        /\ \A k \in DOMAIN db.keys : db.keys[k] \in KeyRow(IdsIn(db))
        /\ db.links \subseteq IdsIn(db) \X IdsIn(db)
        /\ DOMAIN db.users \subseteq IdsIn(db) /\ DOMAIN db.roles \subseteq IdsIn(db)
        /\ DOMAIN db.nodes \subseteq IdsIn(db) /\ DOMAIN db.keys \subseteq IdsIn(db)
    BY <1>2, TablesAre
  <1>6. /\ DOMAIN objects = DOMAIN s.keys
        /\ \A k \in DOMAIN s.keys :
              /\ objects[k].user = s.keys[k].user /\ objects[k].runtime = s.keys[k].runtime
              /\ objects[k].active = ~s.keys[k].runtime
              /\ s.keys[k].runtime \in BOOLEAN /\ s.keys[k].active
    BY <1>4, KeyRowIs
  <1> HIDE DEF objects
  <1>7. \A k \in DOMAIN objects :
              /\ objects[k].user = s.keys[k].user
              /\ objects[k].runtime \in BOOLEAN /\ objects[k].active \in BOOLEAN
              /\ objects[k].runtime # s.keys[k].runtime => ~objects[k].runtime
              /\ objects[k].active # s.keys[k].active => ~objects[k].active
    <2> SUFFICES ASSUME NEW k \in DOMAIN s.keys
                 PROVE  objects[k].active \in BOOLEAN /\ (objects[k].active # s.keys[k].active => ~objects[k].active)
      BY <1>6
    <2>1. s.keys[k].active = TRUE
      BY <1>4, KeyRowIs
    <2> QED
      BY <1>6, <2>1
  <1>8. /\ DOMAIN left = DOMAIN db.keys
        /\ \A k \in DOMAIN db.keys :
              /\ left[k] \in KeyRow(IdsIn(db)) /\ left[k].user = db.keys[k].user
              /\ left[k].runtime /\ left[k].active => db.keys[k].runtime /\ db.keys[k].active
              /\ k \in DOMAIN objects /\ objects[k].active # s.keys[k].active => ~left[k].active
    BY <1>5, <1>7, FlushedKeys
  <1>9. \A k \in DOMAIN db.keys : k \in DOMAIN s.keys /\ s.keys[k].runtime => ~left[k].active
    <2> SUFFICES ASSUME NEW k \in DOMAIN db.keys \cap DOMAIN s.keys, s.keys[k].runtime PROVE ~left[k].active
      OBVIOUS
    <2>1. objects[k].active = FALSE /\ s.keys[k].active = TRUE
      BY <1>4, <1>6, KeyRowIs
    <2> QED
      BY <1>6, <1>8, <2>1
  <1> HIDE DEF left, key
  <1>10. db.next \in Nat /\ db.next \notin IdsIn(db) /\ db.next # 0
    BY <1>2 DEF RowsTyped, IdsIn
  <1>11. /\ DOMAIN keys = DOMAIN db.keys \cup {db.next} /\ keys[db.next] = key
         /\ \A k \in DOMAIN db.keys : keys[k] = left[k]
    BY <1>5, <1>8, <1>10 DEF Single, ++
  <1> HIDE DEF keys
  <1>12. /\ DOMAIN new = DOMAIN db /\ new.next = db.next + 1 /\ new.users = db.users /\ new.links = db.links
         /\ new.roles = db.roles /\ new.nodes = db.nodes /\ new.keys = keys
    BY <1>5
  <1> HIDE DEF new
  <1>13. db.next \in IdsIn(new) /\ IdsIn(db) \subseteq IdsIn(new) /\ s.user \in IdsIn(db)
    BY <1>2, <1>3, <1>5, <1>10, <1>12 DEF IdsIn
  <1>14. /\ \A x : x \in UserRow(IdsIn(db)) => x \in UserRow(IdsIn(new))
         /\ \A x : x \in NodeRow(IdsIn(db)) => x \in NodeRow(IdsIn(new))
         /\ \A x : x \in KeyRow(IdsIn(db)) => x \in KeyRow(IdsIn(new))
    BY <1>10, <1>12, IdsGrow
  <1>15. key \in KeyRow(IdsIn(new)) /\ key.user = s.user
    BY <1>13 DEF KeyRow, RuntimeKey, key
  <1>16. \A k \in DOMAIN new.keys : new.keys[k] \in KeyRow(IdsIn(new))
    BY <1>8, <1>11, <1>12, <1>14, <1>15
  <1>17. RowsTyped(new)
    <2>1. /\ DOMAIN new.users \cap (DOMAIN new.roles \cup DOMAIN new.nodes \cup DOMAIN new.keys) = {}
          /\ DOMAIN new.roles \cap (DOMAIN new.nodes \cup DOMAIN new.keys) = {}
          /\ DOMAIN new.nodes \cap DOMAIN new.keys = {}
      BY <1>2, <1>5, <1>10, <1>11, <1>12 DEF RowsTyped
    <2>2. RowIds(new) \subseteq IdsIn(new)
      BY <1>5, <1>11, <1>12, <1>13 DEF RowIds
    <2>3. new.next \in Nat \ {0}
      BY <1>10, <1>12
    <2>4. new.links \subseteq IdsIn(new) \X IdsIn(new)
      BY <1>5, <1>12, <1>13
    <2> QED
      BY <1>5, <1>12, <1>14, <1>16, <2>1, <2>2, <2>3, <2>4 DEF RowsTyped
  <1>18. NewIdsAreNew(db, new)
    BY <1>10, <1>11, <1>12 DEF NewIdsAreNew
  <1>19. Refers(new, past.raced)
    BY <1>2, <1>3, <1>8, <1>11, <1>12, <1>15 DEF Refers
  <1>20. KeysOnlyFade(db, new)
    BY <1>8, <1>11, <1>12 DEF KeysOnlyFade, Usable
  <1>21. NewKeysAreEarned(db, s, new)
    BY <1>2, <1>11, <1>12, <1>15 DEF NewKeysAreEarned
  <1>22. ResetRetires(db, past, s, new)
    <2>1. ASSUME NEW k \in s.keysBefore \cap DOMAIN db.keys, Usable(new, k) PROVE FALSE
      <3>1. Usable(db, k)
        BY <1>11, <1>12, <1>20, <2>1 DEF KeysOnlyFade
      <3>2. ~left[k].active
        BY <1>4, <1>9, <3>1
      <3> QED
        BY <1>11, <1>12, <2>1, <3>2 DEF Usable
    <2>2. ASSUME s.user \in DOMAIN db.users \ past.clashes, NEW k \in DOMAIN db.keys,
                 new.keys[k].user = s.user, Usable(new, k)
          PROVE  FALSE
      <3>1. Usable(db, k) /\ db.keys[k].user = s.user
        BY <1>11, <1>12, <1>20, <2>2 DEF KeysOnlyFade
      <3>2. k \in RuntimeKeys(db, s.user)
        BY <1>2, <3>1, RuntimeKeysAre
      <3>3. ~left[k].active
        BY <1>4, <1>9, <2>2, <3>2
      <3> QED
        BY <1>11, <1>12, <2>2, <3>3 DEF Usable
    <2> QED
      BY <2>1, <2>2 DEF ResetRetires
  <1>23. Changes(db, past, s, new)
    BY <1>17, <1>18, <1>20, <1>21, <1>22 DEF Changes
  <1> QED
    BY <1>1, <1>19, <1>23, NotedRefers, WriteKeeps DEF new, keys, left, key, objects

LEMMA WithRoleIs ==
    ASSUME NEW d, RowsTyped(d), NEW name, NEW new, new = WithRole(d, name)
    PROVE  /\ DOMAIN new = DOMAIN d /\ new.next = d.next + 1
           /\ new.users = d.users /\ new.nodes = d.nodes /\ new.keys = d.keys /\ new.links = d.links
           /\ DOMAIN new.roles = DOMAIN d.roles \cup {d.next} /\ new.roles[d.next] = name
           /\ \A r \in DOMAIN d.roles : new.roles[r] = d.roles[r]
  <1>1. DOMAIN d = {"users", "roles", "nodes", "links", "keys", "next"} /\ d.next \in Nat
        /\ DOMAIN d.roles \subseteq IdsIn(d)
    BY DEF RowsTyped, RowIds
  <1>2. d.next \notin IdsIn(d)
    BY <1>1 DEF IdsIn
  <1>3. DOMAIN new = DOMAIN d
    BY <1>1 DEF WithRole
  <1>4. /\ new.next = d.next + 1
        /\ new.users = d.users /\ new.nodes = d.nodes /\ new.keys = d.keys /\ new.links = d.links
    BY <1>1 DEF WithRole
  <1>5. new.roles = Single(d.next, name) ++ d.roles
    BY <1>1 DEF WithRole
  <1>6. /\ DOMAIN new.roles = DOMAIN d.roles \cup {d.next} /\ new.roles[d.next] = name
        /\ \A r \in DOMAIN d.roles : new.roles[r] = d.roles[r]
    BY <1>1, <1>2, <1>5 DEF Single, ++
  <1> QED
    BY <1>3, <1>4, <1>6

\* One more role keeps everything else.
LEMMA WithRoleKeeps ==
    ASSUME NEW d, RowsTyped(d), NEW name \in Names, NEW new, new = WithRole(d, name),
           NEW gone, Refers(d, gone)
    PROVE  RowsTyped(new) /\ NewIdsAreNew(d, new) /\ Refers(new, gone)
  <1>1. /\ DOMAIN new = DOMAIN d /\ new.next = d.next + 1
        /\ new.users = d.users /\ new.nodes = d.nodes /\ new.keys = d.keys /\ new.links = d.links
        /\ DOMAIN new.roles = DOMAIN d.roles \cup {d.next} /\ new.roles[d.next] = name
        /\ \A r \in DOMAIN d.roles : new.roles[r] = d.roles[r]
    BY WithRoleIs
  <1>2. d.next \in Nat \ {0} /\ new.next \in Nat \ {0} /\ d.next <= new.next
    BY <1>1 DEF RowsTyped
  <1>3. d.next \notin IdsIn(d) /\ d.next \in IdsIn(new)
    BY <1>1, <1>2 DEF IdsIn
  <1>4. /\ IdsIn(d) \subseteq IdsIn(new)
        /\ \A x : x \in UserRow(IdsIn(d)) => x \in UserRow(IdsIn(new))
        /\ \A x : x \in NodeRow(IdsIn(d)) => x \in NodeRow(IdsIn(new))
        /\ \A x : x \in KeyRow(IdsIn(d)) => x \in KeyRow(IdsIn(new))
    BY <1>2, IdsGrow
  <1>5. /\ DOMAIN d = {"users", "roles", "nodes", "links", "keys", "next"}
        /\ \A u \in DOMAIN d.users : d.users[u] \in UserRow(IdsIn(d))
        /\ \A r \in DOMAIN d.roles : d.roles[r] \in Names
        /\ \A n \in DOMAIN d.nodes : d.nodes[n] \in NodeRow(IdsIn(d))
        /\ \A k \in DOMAIN d.keys : d.keys[k] \in KeyRow(IdsIn(d))
        /\ d.links \subseteq IdsIn(d) \X IdsIn(d)
        /\ DOMAIN d.users \subseteq IdsIn(d) /\ DOMAIN d.roles \subseteq IdsIn(d)
        /\ DOMAIN d.nodes \subseteq IdsIn(d) /\ DOMAIN d.keys \subseteq IdsIn(d)
    BY TablesAre
  <1>6. /\ DOMAIN new.users \cap (DOMAIN new.roles \cup DOMAIN new.nodes \cup DOMAIN new.keys) = {}
        /\ DOMAIN new.roles \cap (DOMAIN new.nodes \cup DOMAIN new.keys) = {}
        /\ DOMAIN new.nodes \cap DOMAIN new.keys = {}
    BY <1>1, <1>3, <1>5 DEF RowsTyped
  <1>7. RowIds(new) \subseteq IdsIn(new) /\ new.links \subseteq IdsIn(new) \X IdsIn(new)
    BY <1>1, <1>3, <1>4, <1>5 DEF RowIds
  <1>8. RowsTyped(new)
    BY <1>1, <1>2, <1>4, <1>5, <1>6, <1>7 DEF RowsTyped
  <1>9. NewIdsAreNew(d, new)
    BY <1>1, <1>2, <1>3 DEF NewIdsAreNew
  <1> QED
    BY <1>1, <1>8, <1>9 DEF Refers

LEMMA CreateRoleStep ==
    ASSUME DirectoryInv, NEW a \in Admin, create_role(a)
    PROVE  DirectoryInv'
  <1> DEFINE s == sess[a]
             new == WithRole(db, s.name)
  <1>1. Is(a, "create_role") /\ Write(a, FALSE, new) /\ At(a, "write")
    BY DEF create_role, Is
  <1>2. /\ InProgress(db, past, s) /\ s.op = "create_role" /\ RowsTyped(db) /\ Refers(db, past.raced)
    BY <1>1, AtWrite DEF TablesTyped
  <1>3. s.name \in Names
    BY <1>2 DEF InProgress, AskedOK
  <1>4. RowsTyped(new) /\ NewIdsAreNew(db, new) /\ Refers(new, past.raced)
    BY <1>2, <1>3, WithRoleKeeps
  <1>5. KeysGrow(db, new)
    BY <1>2, WithRoleIs DEF KeysGrow
  <1>6. Changes(db, past, s, new)
    BY <1>2, <1>4, <1>5, GrowsChanges
  <1> QED
    BY <1>1, <1>4, <1>6, NotedRefers, WriteKeeps

LEMMA UpdateRoleStep ==
    ASSUME DirectoryInv, NEW a \in Admin, update_role(a)
    PROVE  DirectoryInv'
  <1> DEFINE s == sess[a]
             renamed == s.name # s.row
             roles == [r \in DOMAIN db.roles |-> IF r = s.role THEN s.name ELSE db.roles[r]]
             other == [db EXCEPT !.roles = roles]
             new == IF renamed THEN other ELSE db
             stale == renamed /\ s.role \notin DOMAIN db.roles
  <1>1. Is(a, "update_role") /\ Write(a, stale, new) /\ At(a, "write")
    BY DEF update_role, Is
  <1>2. /\ InProgress(db, past, s) /\ s.op = "update_role" /\ RowsTyped(db) /\ Refers(db, past.raced)
    BY <1>1, AtWrite DEF TablesTyped
  <1>3. s.name \in Names
    BY <1>2 DEF InProgress, AskedOK
  <1>4. /\ DOMAIN db = {"users", "roles", "nodes", "links", "keys", "next"}
        /\ \A r \in DOMAIN db.roles : db.roles[r] \in Names
    BY <1>2, TablesAre
  <1>5. /\ DOMAIN other = DOMAIN db /\ other.next = db.next /\ other.users = db.users /\ other.links = db.links
        /\ other.roles = roles /\ other.nodes = db.nodes /\ other.keys = db.keys
    BY <1>4
  <1>6. DOMAIN roles = DOMAIN db.roles /\ \A r \in DOMAIN roles : roles[r] \in Names
    BY <1>3, <1>4
  <1> HIDE DEF roles, other
  <1>7. RowsTyped(other) /\ NewIdsAreNew(db, other)
    BY <1>2, <1>5, <1>6, TablesAre, Retyped
  <1>8. Refers(other, past.raced)
    BY <1>2, <1>5, <1>6 DEF Refers
  <1>9. RowsTyped(new) /\ NewIdsAreNew(db, new) /\ Refers(new, past.raced) /\ KeysGrow(db, new)
    BY <1>2, <1>5, <1>7, <1>8 DEF NewIdsAreNew, KeysGrow, RowsTyped
  <1> HIDE DEF new, stale
  <1>10. Changes(db, past, s, new)
    BY <1>2, <1>9, GrowsChanges
  <1> QED
    BY <1>1, <1>9, <1>10, NotedRefers, WriteKeeps DEF new, stale, other, roles

LEMMA DeleteRoleStep ==
    ASSUME DirectoryInv, NEW a \in Admin, delete_role(a)
    PROVE  DirectoryInv'
  <1> DEFINE s == sess[a]
             roles == Without(db.roles, {s.role})
             new == [db EXCEPT !.roles = roles]
             q == Noted(a, new)
  <1>1. Is(a, "delete_role") /\ Write(a, FALSE, new) /\ At(a, "write")
    BY DEF delete_role, Is
  <1>2. /\ InProgress(db, past, s) /\ s.op = "delete_role" /\ Found(db, past, s, "select_links")
        /\ RowsTyped(db) /\ Refers(db, past.raced)
    BY <1>1, AtWrite DEF TablesTyped, StepNames
  <1>3. ~s.overtaken => \A x \in db.links : x[2] # s.role
    BY <1>2 DEF Found
  <1>4. /\ DOMAIN db = {"users", "roles", "nodes", "links", "keys", "next"}
        /\ \A r \in DOMAIN db.roles : db.roles[r] \in Names
    BY <1>2, TablesAre
  <1>5. /\ DOMAIN new = DOMAIN db /\ new.next = db.next /\ new.users = db.users /\ new.links = db.links
        /\ new.roles = roles /\ new.nodes = db.nodes /\ new.keys = db.keys
    BY <1>4
  <1>6. DOMAIN roles = DOMAIN db.roles \ {s.role} /\ \A r \in DOMAIN roles : roles[r] = db.roles[r]
    BY DEF Without
  <1> HIDE DEF roles, new
  <1>7. RowsTyped(new) /\ NewIdsAreNew(db, new)
    <2>1. \A r \in DOMAIN new.roles : new.roles[r] \in Names
      BY <1>4, <1>5, <1>6
    <2>2. DOMAIN new.roles \subseteq DOMAIN db.roles
      BY <1>5, <1>6
    <2> QED
      BY <1>2, <1>5, <2>1, <2>2, TablesAre, Retyped
  <1>8. past.raced \subseteq q.raced /\ (s.overtaken => RowIds(db) \ RowIds(new) \subseteq q.raced)
    BY NotedIs
  <1>9. Refers(new, q.raced)
    <2> HIDE DEF q
    <2>1. s.overtaken /\ s.role \in DOMAIN db.roles => s.role \in q.raced
      BY <1>2, <1>5, <1>6, <1>8 DEF RowsTyped, RowIds
    <2>2. \A p \in db.links : p[2] \in DOMAIN roles \cup q.raced
      BY <1>2, <1>3, <1>6, <1>8, <2>1 DEF Refers
    <2> QED
      BY <1>2, <1>5, <1>6, <1>8, <2>2 DEF Refers
  <1>10. KeysGrow(db, new)
    BY <1>5 DEF KeysGrow
  <1>11. Changes(db, past, s, new)
    BY <1>2, <1>7, <1>10, GrowsChanges
  <1> QED
    BY <1>1, <1>9, <1>11, WriteKeeps DEF new, roles

LEMMA DeleteNodeStep ==
    ASSUME DirectoryInv, NEW a \in Admin, delete_org_node(a)
    PROVE  DirectoryInv'
  <1> DEFINE s == sess[a]
             nodes == Without(db.nodes, {s.node})
             new == [db EXCEPT !.nodes = nodes]
             q == Noted(a, new)
  <1>1. Is(a, "delete_org_node") /\ Write(a, FALSE, new) /\ At(a, "write")
    BY DEF delete_org_node, Is
  <1>2. /\ InProgress(db, past, s) /\ s.op = "delete_org_node"
        /\ Found(db, past, s, "select_children") /\ Found(db, past, s, "select_direct_users")
        /\ RowsTyped(db) /\ Refers(db, past.raced)
    BY <1>1, AtWrite DEF TablesTyped, StepNames
  <1>3. ~s.overtaken =>
          /\ \A n \in DOMAIN db.nodes : db.nodes[n].parent # s.node
          /\ \A u \in DOMAIN db.users : db.users[u].node # s.node
    BY <1>2 DEF Found
  <1>4. /\ DOMAIN db = {"users", "roles", "nodes", "links", "keys", "next"}
        /\ \A n \in DOMAIN db.nodes : db.nodes[n] \in NodeRow(IdsIn(db))
    BY <1>2, TablesAre
  <1>5. /\ DOMAIN new = DOMAIN db /\ new.next = db.next /\ new.users = db.users /\ new.links = db.links
        /\ new.roles = db.roles /\ new.nodes = nodes /\ new.keys = db.keys
    BY <1>4
  <1>6. DOMAIN nodes = DOMAIN db.nodes \ {s.node} /\ \A n \in DOMAIN nodes : nodes[n] = db.nodes[n]
    BY DEF Without
  <1> HIDE DEF nodes, new
  <1>7. RowsTyped(new) /\ NewIdsAreNew(db, new)
    <2>1. \A n \in DOMAIN new.nodes : new.nodes[n] \in NodeRow(IdsIn(db))
      BY <1>4, <1>5, <1>6
    <2>2. DOMAIN new.nodes \subseteq DOMAIN db.nodes
      BY <1>5, <1>6
    <2> QED
      BY <1>2, <1>5, <2>1, <2>2, TablesAre, Retyped
  <1>8. past.raced \subseteq q.raced /\ (s.overtaken => RowIds(db) \ RowIds(new) \subseteq q.raced)
    BY NotedIs
  <1>9. Refers(new, q.raced)
    <2> HIDE DEF q
    <2>1. s.overtaken /\ s.node \in DOMAIN db.nodes => s.node \in q.raced
      BY <1>2, <1>5, <1>6, <1>8 DEF RowsTyped, RowIds
    <2>2. \A u \in DOMAIN db.users : db.users[u].node \in DOMAIN nodes \cup q.raced \cup {Null}
      BY <1>2, <1>3, <1>6, <1>8, <2>1 DEF Refers
    <2>3. \A n \in DOMAIN nodes : nodes[n].parent \in DOMAIN nodes \cup q.raced \cup {Null}
      BY <1>2, <1>3, <1>6, <1>8, <2>1 DEF Refers
    <2> QED
      BY <1>2, <1>5, <1>6, <1>8, <2>2, <2>3 DEF Refers
  <1>10. KeysGrow(db, new)
    BY <1>5 DEF KeysGrow
  <1>11. Changes(db, past, s, new)
    BY <1>2, <1>7, <1>10, GrowsChanges
  <1> QED
    BY <1>1, <1>9, <1>11, WriteKeeps DEF new, nodes

LEMMA WithNodeIs ==
    ASSUME NEW d, RowsTyped(d), NEW name, NEW parent, NEW path, NEW new, new = WithNode(d, name, parent, path)
    PROVE  /\ DOMAIN new = DOMAIN d /\ new.next = d.next + 1
           /\ new.users = d.users /\ new.roles = d.roles /\ new.keys = d.keys /\ new.links = d.links
           /\ DOMAIN new.nodes = DOMAIN d.nodes \cup {d.next}
           /\ new.nodes[d.next] = [name |-> name, parent |-> parent, path |-> path]
           /\ \A n \in DOMAIN d.nodes : new.nodes[n] = d.nodes[n]
  <1> DEFINE row == [name |-> name, parent |-> parent, path |-> path]
  <1>1. DOMAIN d = {"users", "roles", "nodes", "links", "keys", "next"} /\ d.next \in Nat
        /\ DOMAIN d.nodes \subseteq IdsIn(d)
    BY DEF RowsTyped, RowIds
  <1>2. d.next \notin IdsIn(d)
    BY <1>1 DEF IdsIn
  <1>3. DOMAIN new = DOMAIN d
    BY <1>1 DEF WithNode
  <1>4. /\ new.next = d.next + 1
        /\ new.users = d.users /\ new.roles = d.roles /\ new.keys = d.keys /\ new.links = d.links
    BY <1>1 DEF WithNode
  <1>5. new.nodes = Single(d.next, row) ++ d.nodes
    BY <1>1 DEF WithNode
  <1> HIDE DEF row
  <1>6. /\ DOMAIN new.nodes = DOMAIN d.nodes \cup {d.next} /\ new.nodes[d.next] = row
        /\ \A n \in DOMAIN d.nodes : new.nodes[n] = d.nodes[n]
    BY <1>1, <1>2, <1>5 DEF Single, ++
  <1> QED
    BY <1>3, <1>4, <1>6 DEF row

\* One more node keeps everything else.
LEMMA WithNodeKeeps ==
    ASSUME NEW d, RowsTyped(d), NEW name \in Segment, NEW parent \in IdsIn(d) \cup {Null},
           NEW path \in Seq(Segment), NEW new, new = WithNode(d, name, parent, path),
           NEW gone, Refers(d, gone), parent \in DOMAIN d.nodes \cup gone \cup {Null}
    PROVE  RowsTyped(new) /\ NewIdsAreNew(d, new) /\ Refers(new, gone)
  <1> DEFINE row == [name |-> name, parent |-> parent, path |-> path]
  <1>1. /\ DOMAIN new = DOMAIN d /\ new.next = d.next + 1
        /\ new.users = d.users /\ new.roles = d.roles /\ new.keys = d.keys /\ new.links = d.links
        /\ DOMAIN new.nodes = DOMAIN d.nodes \cup {d.next}
        /\ new.nodes[d.next] = row
        /\ \A n \in DOMAIN d.nodes : new.nodes[n] = d.nodes[n]
    BY WithNodeIs
  <1>2. d.next \in Nat \ {0} /\ new.next \in Nat \ {0} /\ d.next <= new.next
    BY <1>1 DEF RowsTyped
  <1>3. d.next \notin IdsIn(d) /\ d.next \in IdsIn(new)
    BY <1>1, <1>2 DEF IdsIn
  <1>4. /\ IdsIn(d) \subseteq IdsIn(new)
        /\ \A x : x \in UserRow(IdsIn(d)) => x \in UserRow(IdsIn(new))
        /\ \A x : x \in NodeRow(IdsIn(d)) => x \in NodeRow(IdsIn(new))
        /\ \A x : x \in KeyRow(IdsIn(d)) => x \in KeyRow(IdsIn(new))
    BY <1>2, IdsGrow
  <1>5. row \in NodeRow(IdsIn(new)) /\ row.parent = parent
    BY <1>4 DEF NodeRow
  <1> HIDE DEF row
  <1>6. /\ DOMAIN d = {"users", "roles", "nodes", "links", "keys", "next"}
        /\ \A u \in DOMAIN d.users : d.users[u] \in UserRow(IdsIn(d))
        /\ \A r \in DOMAIN d.roles : d.roles[r] \in Names
        /\ \A n \in DOMAIN d.nodes : d.nodes[n] \in NodeRow(IdsIn(d))
        /\ \A k \in DOMAIN d.keys : d.keys[k] \in KeyRow(IdsIn(d))
        /\ d.links \subseteq IdsIn(d) \X IdsIn(d)
        /\ DOMAIN d.users \subseteq IdsIn(d) /\ DOMAIN d.roles \subseteq IdsIn(d)
        /\ DOMAIN d.nodes \subseteq IdsIn(d) /\ DOMAIN d.keys \subseteq IdsIn(d)
    BY TablesAre
  <1>7. /\ DOMAIN new.users \cap (DOMAIN new.roles \cup DOMAIN new.nodes \cup DOMAIN new.keys) = {}
        /\ DOMAIN new.roles \cap (DOMAIN new.nodes \cup DOMAIN new.keys) = {}
        /\ DOMAIN new.nodes \cap DOMAIN new.keys = {}
    BY <1>1, <1>3, <1>6 DEF RowsTyped
  <1>8. RowIds(new) \subseteq IdsIn(new) /\ new.links \subseteq IdsIn(new) \X IdsIn(new)
    BY <1>1, <1>3, <1>4, <1>6 DEF RowIds
  <1>9. RowsTyped(new)
    BY <1>1, <1>2, <1>4, <1>5, <1>6, <1>7, <1>8 DEF RowsTyped
  <1>10. NewIdsAreNew(d, new)
    BY <1>1, <1>2, <1>3 DEF NewIdsAreNew
  <1> QED
    BY <1>1, <1>5, <1>9, <1>10 DEF Refers

LEMMA NewIdsChain ==
    ASSUME NEW d, RowsTyped(d), NEW e, RowsTyped(e), NEW new, RowsTyped(new),
           NewIdsAreNew(d, e), NewIdsAreNew(e, new)
    PROVE  NewIdsAreNew(d, new)
  <1>1. d.next \in Nat /\ e.next \in Nat /\ new.next \in Nat /\ d.next <= e.next /\ e.next <= new.next
    BY DEF RowsTyped, NewIdsAreNew
  <1>2. IdsIn(d) \subseteq IdsIn(e)
    BY <1>1 DEF IdsIn
  <1> QED
    BY <1>1, <1>2 DEF NewIdsAreNew

\* The parent of a node that is written is there, or has gone.
LEMMA ParentIs ==
    ASSUME DirectoryInv, NEW a \in Admin, At(a, "write"), sess[a].op \in {"create_org_node", "update_org_node"}
    PROVE  LET s == sess[a]
               under == WithParent(s)
           IN  /\ RowsTyped(under) /\ NewIdsAreNew(db, under) /\ Refers(under, past.raced)
               /\ under.users = db.users /\ under.keys = db.keys
               /\ Parent(s) \in DOMAIN under.nodes \cup past.raced \cup {Null}
               /\ Parent(s) \in IdsIn(under) \cup {Null}
               /\ \A name \in Segment : PathUnder(s, name) \in Seq(Segment) \ {<<>>}
  <1> DEFINE s == sess[a]
             under == WithParent(s)
  <1>1. /\ InProgress(db, past, s) /\ Found(db, past, s, "select_parent")
        /\ RowsTyped(db) /\ Refers(db, past.raced) /\ past.raced \subseteq IdsIn(db)
    <2>1. Is(a, s.op)
      BY DEF Is
    <2> QED
      BY <2>1, AtWrite DEF TablesTyped, StepNames
  <1>2. /\ DOMAIN s.parent \subseteq DOMAIN db.nodes \cup past.raced
        /\ s.parent \in [DOMAIN s.parent -> NodeRow(IdsIn(db))]
    BY <1>1 DEF Found
  <1>3. RootName \in Segment /\ <<>> \in Seq(Segment) /\ Null \in IdsIn(db) \cup {Null}
    BY DEF Segment
  <1>4. /\ RowsTyped(under) /\ NewIdsAreNew(db, under) /\ Refers(under, past.raced)
        /\ under.users = db.users /\ under.keys = db.keys /\ DOMAIN db.nodes \subseteq DOMAIN under.nodes
        /\ s.parent = Nothing /\ NeedsRoot(s) => db.next \in DOMAIN under.nodes
    <2>1. CASE s.parent = Nothing /\ NeedsRoot(s)
      <3>1. under = WithNode(db, RootName, Null, <<>>)
        BY <2>1 DEF WithParent
      <3> HIDE DEF under
      <3>2. /\ DOMAIN under = DOMAIN db /\ under.next = db.next + 1
            /\ under.users = db.users /\ under.roles = db.roles /\ under.keys = db.keys /\ under.links = db.links
            /\ DOMAIN under.nodes = DOMAIN db.nodes \cup {db.next}
            /\ under.nodes[db.next] = [name |-> RootName, parent |-> Null, path |-> <<>>]
            /\ \A n \in DOMAIN db.nodes : under.nodes[n] = db.nodes[n]
        BY ONLY <1>1, <3>1, WithNodeIs
      <3>3. RowsTyped(under) /\ NewIdsAreNew(db, under) /\ Refers(under, past.raced)
        BY <1>1, <1>3, <3>1, WithNodeKeeps
      <3> QED
        BY <3>2, <3>3
    <2>2. CASE ~(s.parent = Nothing /\ NeedsRoot(s))
      <3>1. under = db
        BY <2>2 DEF WithParent
      <3> QED
        BY <1>1, <2>2, <3>1 DEF NewIdsAreNew, RowsTyped
    <2> QED
      BY <2>1, <2>2
  <1>5. s.parent # Nothing => Parent(s) \in DOMAIN s.parent /\ DOMAIN s.parent # {}
    <2>1. ASSUME s.parent # Nothing, DOMAIN s.parent = {} PROVE FALSE
      <3>1. s.parent = [k \in {} |-> k]
        BY <1>2, <2>1
      <3> QED
        BY <2>1, <3>1 DEF Nothing
    <2> QED
      BY <2>1 DEF Parent
  <1>6. /\ s.parent = Nothing /\ NeedsRoot(s) => Parent(s) = db.next
        /\ s.parent = Nothing /\ ~NeedsRoot(s) => Parent(s) = Null
    BY DEF Parent
  <1> HIDE DEF under
  <1>7. Parent(s) \in DOMAIN under.nodes \cup past.raced \cup {Null}
    BY <1>2, <1>4, <1>5, <1>6
  <1>8. DOMAIN under.nodes \subseteq IdsIn(under) /\ IdsIn(db) \subseteq IdsIn(under)
    BY <1>1, <1>4, TablesAre, IdsGrow DEF NewIdsAreNew, RowsTyped
  <1>9. ASSUME NEW name \in Segment PROVE PathUnder(s, name) \in Seq(Segment) \ {<<>>}
    <2>1. \A path \in Seq(Segment) : OrgPath(name, path) \in Seq(Segment) /\ Len(OrgPath(name, path)) = Len(path) + 1
      BY DEF OrgPath
    <2>2. \A path \in Seq(Segment) : OrgPath(name, path) \in Seq(Segment) \ {<<>>}
      <3> SUFFICES ASSUME NEW path \in Seq(Segment) PROVE OrgPath(name, path) # <<>>
        BY <2>1
      <3>1. Len(path) \in Nat /\ Len(<<>>) = 0
        OBVIOUS
      <3> QED
        BY <2>1, <3>1
    <2>3. CASE s.parent = Nothing
      BY <1>3, <2>2, <2>3 DEF PathUnder
    <2>4. CASE s.parent # Nothing
      <3>1. s.parent[Parent(s)] \in NodeRow(IdsIn(db))
        BY <1>2, <1>5, <2>4
      <3>2. s.parent[Parent(s)].path \in Seq(Segment)
        BY <3>1, NodeRowIs
      <3> QED
        BY <2>2, <2>4, <3>2 DEF PathUnder
    <2> QED
      BY <2>3, <2>4
  <1> QED
    BY <1>1, <1>4, <1>7, <1>8, <1>9 DEF under

LEMMA CreateNodeStep ==
    ASSUME DirectoryInv, NEW a \in Admin, create_org_node(a)
    PROVE  DirectoryInv'
  <1> DEFINE s == sess[a]
             under == WithParent(s)
             parent == Parent(s)
             path == PathUnder(s, s.name)
             new == WithNode(under, s.name, parent, path)
  <1>1. Is(a, "create_org_node") /\ Write(a, FALSE, new) /\ At(a, "write")
    BY DEF create_org_node, Is
  <1>2. InProgress(db, past, s) /\ s.op = "create_org_node" /\ RowsTyped(db)
    BY <1>1, AtWrite DEF TablesTyped
  <1>3. s.name \in Segment
    BY <1>2 DEF InProgress, AskedOK, Segment
  <1>4. /\ RowsTyped(under) /\ NewIdsAreNew(db, under) /\ Refers(under, past.raced)
        /\ under.users = db.users /\ under.keys = db.keys
        /\ parent \in DOMAIN under.nodes \cup past.raced \cup {Null}
        /\ parent \in IdsIn(under) \cup {Null}
        /\ path \in Seq(Segment)
    BY <1>1, <1>2, <1>3, ParentIs
  <1>10. new = WithNode(under, s.name, parent, path)
    OBVIOUS
  <1> HIDE DEF new, under, parent, path
  <1>5. RowsTyped(new) /\ NewIdsAreNew(under, new) /\ Refers(new, past.raced)
    <2> DEFINE name == s.name
    <2>1. name \in Segment /\ new = WithNode(under, name, parent, path)
      BY <1>10, <1>3
    <2> HIDE DEF name
    <2>2. SUFFICES ASSUME NEW raced, raced = past.raced PROVE RowsTyped(new) /\ NewIdsAreNew(under, new) /\ Refers(new, raced)
      OBVIOUS
    <2>3. Refers(under, raced) /\ parent \in DOMAIN under.nodes \cup raced \cup {Null}
      BY <1>4, <2>2
    <2> QED
      BY ONLY <2>1, <2>3, <1>4, WithNodeKeeps
  <1>6. NewIdsAreNew(db, new)
    BY <1>2, <1>4, <1>5, NewIdsChain
  <1>11. /\ DOMAIN new = DOMAIN under /\ new.next = under.next + 1
        /\ new.users = under.users /\ new.roles = under.roles /\ new.keys = under.keys /\ new.links = under.links
        /\ DOMAIN new.nodes = DOMAIN under.nodes \cup {under.next}
        /\ new.nodes[under.next] = [name |-> s.name, parent |-> parent, path |-> path]
        /\ \A n \in DOMAIN under.nodes : new.nodes[n] = under.nodes[n]
    BY ONLY <1>10, <1>4, WithNodeIs
  <1>7. new.keys = db.keys
    BY <1>4, <1>11
  <1>8. KeysGrow(db, new)
    BY <1>7 DEF KeysGrow
  <1>9. Changes(db, past, s, new)
    BY <1>2, <1>5, <1>6, <1>8, GrowsChanges
  <1> QED
    BY <1>1, <1>5, <1>9, NotedRefers, WriteKeeps DEF new, under, parent, path

LEMMA FlushedNodes ==
    ASSUME NEW table, NEW loaded, NEW object, NEW ids, NEW new, new = Flushed(table, loaded, object),
           \A n \in DOMAIN table : table[n] \in NodeRow(ids),
           \A n \in DOMAIN object : object[n] \in NodeRow(ids)
    PROVE  /\ DOMAIN new = DOMAIN table
           /\ \A n \in DOMAIN table :
                /\ new[n] \in NodeRow(ids)
                /\ \/ new[n].parent = table[n].parent
                   \/ /\ n \in DOMAIN object /\ new[n].parent = object[n].parent
                      /\ object[n].parent # loaded[n].parent
  <1>1. DOMAIN new = DOMAIN table
    BY FlushedIs
  <1>2. ASSUME NEW n \in DOMAIN table
        PROVE  /\ new[n] \in NodeRow(ids)
               /\ \/ new[n].parent = table[n].parent
                  \/ /\ n \in DOMAIN object /\ new[n].parent = object[n].parent
                     /\ object[n].parent # loaded[n].parent
    <2>1. table[n] \in NodeRow(ids)
      OBVIOUS
    <2>2. CASE new[n] = table[n]
      BY <2>1, <2>2
    <2>3. CASE /\ n \in DOMAIN object
               /\ new[n] = [c \in DOMAIN table[n] |->
                              IF object[n][c] # loaded[n][c] THEN object[n][c] ELSE table[n][c]]
      <3>1. DOMAIN table[n] = {"name", "parent", "path"} /\ object[n] \in NodeRow(ids)
        BY <2>1, <2>3, NodeRowIs
      <3>2. /\ new[n] = [c \in {"name", "parent", "path"} |-> new[n][c]]
            /\ new[n].name \in {object[n].name, table[n].name} /\ new[n].path \in {object[n].path, table[n].path}
            /\ new[n].parent = IF object[n].parent # loaded[n].parent THEN object[n].parent ELSE table[n].parent
        BY <2>3, <3>1
      <3>3. /\ object[n].name \in Segment /\ object[n].parent \in ids \cup {Null} /\ object[n].path \in Seq(Segment)
            /\ table[n].name \in Segment /\ table[n].parent \in ids \cup {Null} /\ table[n].path \in Seq(Segment)
        BY <2>1, <3>1, NodeRowIs
      <3>4. new[n].name \in Segment /\ new[n].parent \in ids \cup {Null} /\ new[n].path \in Seq(Segment)
        BY <3>2, <3>3
      <3>5. new[n] \in NodeRow(ids)
        BY <3>2, <3>4 DEF NodeRow
      <3> QED
        BY <2>3, <3>2, <3>5
    <2> QED
      BY <2>2, <2>3, FlushedIs
  <1> QED
    BY <1>1, <1>2

\* What an update of a node writes.
UpdatedNode(s) == [name |-> Kept(s.name, s.row.name), parent |-> Kept(s.org, s.row.parent),
                   path |-> PathUnder(s, Kept(s.name, s.row.name))]
BelowNode(s) == IF "below" \notin DOMAIN s THEN [n \in Below(db.nodes, s.row.path) |-> db.nodes[n]] ELSE s.below

RerootedTo(object, row, old, new) ==
    object = [row EXCEPT !.path = new \o SubSeq(row.path, Len(old) + 1, Len(row.path))]

NodeAndBelow(loaded, objects, node, row, object, below, old, new) ==
    /\ DOMAIN objects = {node} \cup DOMAIN below
    /\ objects[node] = object /\ loaded[node] = row
    /\ \A n \in DOMAIN below \ {node} :
          loaded[n] = below[n] /\ RerootedTo(objects[n], below[n], old, new)

LEMMA ObjectsAre ==
    ASSUME NEW node, NEW row, NEW object, NEW below, NEW old, NEW new, NEW loaded, NEW objects,
           loaded = Single(node, row) ++ below,
           objects = Single(node, object) ++ Rerooted(below, old, new)
    PROVE  NodeAndBelow(loaded, objects, node, row, object, below, old, new)
  <1> DEFINE r == Rerooted(below, old, new)
  <1>1. DOMAIN r = DOMAIN below
        /\ \A n \in DOMAIN below :
              RerootedTo(r[n], below[n], old, new)
    BY DEF Rerooted, RerootedTo
  <1> HIDE DEF r
  <1>2. /\ DOMAIN Single(node, object) = {node} /\ Single(node, object)[node] = object
        /\ DOMAIN Single(node, row) = {node} /\ Single(node, row)[node] = row
    BY DEF Single
  <1>3. objects = Single(node, object) ++ r
    BY DEF r
  <1>4. /\ DOMAIN objects = {node} \cup DOMAIN below
        /\ objects[node] = object /\ \A n \in DOMAIN below \ {node} : objects[n] = r[n]
    BY <1>1, <1>2, <1>3 DEF ++
  <1>5. loaded[node] = row /\ \A n \in DOMAIN below \ {node} : loaded[n] = below[n]
    BY <1>2 DEF ++
  <1> QED
    BY <1>1, <1>4, <1>5 DEF NodeAndBelow

LEMMA RerootedRow ==
    ASSUME NEW ids, NEW row \in NodeRow(ids), NEW old \in Seq(Segment), NEW new \in Seq(Segment), NEW object,
           RerootedTo(object, row, old, new)
    PROVE  object \in NodeRow(ids) /\ object.parent = row.parent
  <1>1. /\ DOMAIN row = {"name", "parent", "path"}
        /\ row.name \in Segment /\ row.parent \in ids \cup {Null} /\ row.path \in Seq(Segment)
    BY NodeRowIs
  <1> DEFINE path == new \o SubSeq(row.path, Len(old) + 1, Len(row.path))
  <1>2. path \in Seq(Segment)
    BY <1>1
  <1>3. object.name = row.name /\ object.parent = row.parent /\ object.path = path
        /\ object = [c \in {"name", "parent", "path"} |-> object[c]]
    BY <1>1 DEF RerootedTo
  <1> HIDE DEF path
  <1> QED
    BY <1>1, <1>2, <1>3 DEF NodeRow

LEMMA UpdateNodeStep ==
    ASSUME DirectoryInv, NEW a \in Admin, update_org_node(a)
    PROVE  DirectoryInv'
  <1> DEFINE s == sess[a]
             row == UpdatedNode(s)
             below == BelowNode(s)
             loaded == Single(s.node, s.row) ++ below
             objects == Single(s.node, row) ++ Rerooted(below, s.row.path, row.path)
             under == WithParent(s)
             nodes == Flushed(under.nodes, loaded, objects)
             new == [under EXCEPT !.nodes = nodes]
  <1>1. Is(a, "update_org_node") /\ Write(a, Stale(under.nodes, loaded, objects), new) /\ At(a, "write")
    BY DEF update_org_node, Is, UpdatedNode, BelowNode
  <1>2. /\ InProgress(db, past, s) /\ s.op = "update_org_node" /\ Found(db, past, s, "select_node")
        /\ RowsTyped(db) /\ Refers(db, past.raced) /\ past.raced \subseteq IdsIn(db)
    BY <1>1, AtWrite DEF TablesTyped, StepNames
  <1>3. /\ s.row \in NodeRow(IdsIn(db))
        /\ s.name \in Names \cup {Keep} /\ s.org \in DOMAIN db.nodes \cup past.raced \cup {Null} \cup {Keep}
    BY <1>2 DEF Found, InProgress, AskedOK
  <1>4. /\ s.row.name \in Segment /\ s.row.parent \in IdsIn(db) \cup {Null} /\ s.row.path \in Seq(Segment)
    BY <1>3, NodeRowIs
  <1>5. Kept(s.name, s.row.name) \in Segment
    BY <1>3, <1>4 DEF Kept, Segment
  <1>6. /\ RowsTyped(under) /\ NewIdsAreNew(db, under) /\ Refers(under, past.raced)
        /\ under.users = db.users /\ under.keys = db.keys
        /\ \A name \in Segment : PathUnder(s, name) \in Seq(Segment)
    BY <1>1, <1>2, ParentIs
  <1> HIDE DEF under
  <1>7. /\ DOMAIN db.nodes \subseteq IdsIn(db) /\ \A n \in DOMAIN db.nodes : db.nodes[n] \in NodeRow(IdsIn(db))
    BY <1>2, TablesAre
  <1>8. /\ IdsIn(db) \subseteq IdsIn(under)
        /\ \A x : x \in NodeRow(IdsIn(db)) => x \in NodeRow(IdsIn(under))
    BY <1>2, <1>6, IdsGrow DEF NewIdsAreNew, RowsTyped
  <1>9. /\ row \in NodeRow(IdsIn(under)) /\ row.path \in Seq(Segment)
        /\ row.parent # s.row.parent => row.parent \in DOMAIN db.nodes \cup past.raced \cup {Null}
    <2>1. Kept(s.org, s.row.parent) \in IdsIn(under) \cup {Null}
      BY <1>2, <1>3, <1>4, <1>7, <1>8 DEF Kept
    <2>2. PathUnder(s, Kept(s.name, s.row.name)) \in Seq(Segment)
      BY <1>5, <1>6
    <2>3. row \in NodeRow(IdsIn(under)) /\ row.path \in Seq(Segment)
      BY <1>5, <2>1, <2>2 DEF NodeRow, UpdatedNode
    <2>4. row.parent # s.row.parent => row.parent = s.org /\ s.org # Keep
      BY DEF UpdatedNode, Kept
    <2> QED
      BY <1>3, <2>3, <2>4
  <1>10. \A n \in DOMAIN below : below[n] \in NodeRow(IdsIn(under))
    BY <1>2, <1>7, <1>8 DEF BelowNode, Below, InProgress, BelowOK
  <1> HIDE DEF row, below
  <1>23. /\ loaded = Single(s.node, s.row) ++ below
        /\ objects = Single(s.node, row) ++ Rerooted(below, s.row.path, row.path)
    OBVIOUS
  <1> HIDE DEF loaded, objects
  <1>11. /\ DOMAIN objects = {s.node} \cup DOMAIN below
         /\ objects[s.node] = row /\ loaded[s.node] = s.row
         /\ \A n \in DOMAIN below \ {s.node} :
               loaded[n] = below[n] /\ RerootedTo(objects[n], below[n], s.row.path, row.path)
    <2>1. NodeAndBelow(loaded, objects, s.node, s.row, row, below, s.row.path, row.path)
      BY ONLY <1>23, ObjectsAre
    <2> QED
      BY <2>1 DEF NodeAndBelow
  <1>12. \A n \in DOMAIN below \ {s.node} :
            objects[n] \in NodeRow(IdsIn(under)) /\ objects[n].parent = loaded[n].parent
    BY <1>4, <1>9, <1>10, <1>11, RerootedRow
  <1>13. \A n \in DOMAIN objects : objects[n] \in NodeRow(IdsIn(under))
    BY <1>9, <1>11, <1>12
  <1>14. /\ DOMAIN under = {"users", "roles", "nodes", "links", "keys", "next"}
         /\ \A n \in DOMAIN under.nodes : under.nodes[n] \in NodeRow(IdsIn(under))
    BY <1>6, TablesAre
  <1>15. /\ DOMAIN nodes = DOMAIN under.nodes
         /\ \A n \in DOMAIN under.nodes :
              /\ nodes[n] \in NodeRow(IdsIn(under))
              /\ \/ nodes[n].parent = under.nodes[n].parent
                 \/ /\ n \in DOMAIN objects /\ nodes[n].parent = objects[n].parent
                    /\ objects[n].parent # loaded[n].parent
    BY <1>13, <1>14, FlushedNodes
  <1> HIDE DEF nodes
  <1>16. /\ DOMAIN new = DOMAIN under /\ new.next = under.next /\ new.users = under.users /\ new.links = under.links
         /\ new.roles = under.roles /\ new.nodes = nodes /\ new.keys = under.keys
    BY <1>14
  <1> HIDE DEF new
  <1>17. \A n \in DOMAIN nodes : nodes[n].parent \in DOMAIN nodes \cup past.raced \cup {Null}
    <2> SUFFICES ASSUME NEW n \in DOMAIN under.nodes
                 PROVE  nodes[n].parent \in DOMAIN under.nodes \cup past.raced \cup {Null}
      BY <1>15
    <2>1. CASE nodes[n].parent = under.nodes[n].parent
      BY <1>6, <2>1 DEF Refers
    <2>2. CASE /\ n \in DOMAIN objects /\ nodes[n].parent = objects[n].parent
               /\ objects[n].parent # loaded[n].parent
      <3>1. n = s.node
        BY <1>11, <1>12, <2>2
      <3>2. nodes[n].parent \in DOMAIN db.nodes \cup past.raced \cup {Null}
        BY <1>9, <1>11, <2>2, <3>1
      <3>3. DOMAIN db.nodes \subseteq DOMAIN under.nodes
        BY DEF WithParent, WithNode, under, ++
      <3> QED
        BY <3>2, <3>3
    <2> QED
      BY <1>15, <2>1, <2>2
  <1>18. Refers(new, past.raced)
    BY <1>6, <1>15, <1>16, <1>17 DEF Refers
  <1>19. RowsTyped(new) /\ NewIdsAreNew(under, new)
    BY <1>6, <1>15, <1>16, TablesAre, Retyped
  <1>20. NewIdsAreNew(db, new)
    BY <1>2, <1>6, <1>19, NewIdsChain
  <1>21. KeysGrow(db, new)
    BY <1>6, <1>16 DEF KeysGrow
  <1>22. Changes(db, past, s, new)
    BY <1>2, <1>19, <1>20, <1>21, GrowsChanges
  <1> QED
    BY <1>1, <1>18, <1>22, NotedRefers, WriteKeeps DEF new, nodes, under, loaded, objects
-----------------------------------------------------------------------------
(* The import, row by row. *)

LEMMA ResolveNodesIs ==
    ASSUME NEW x, NEW path, NEW prefixes, prefixes = PathPrefixes(path), Len(prefixes) \in Nat
    PROVE  \E g : /\ g[0] = x /\ ResolveNodes(x, path) = g[Len(prefixes)]
                  /\ \A i \in 1..Len(prefixes) : g[i] = ResolveNode(g[i - 1], prefixes[i])
  <1> DEFINE Rec(n, g) == g = [i \in 0..n |-> IF i = 0 THEN x ELSE ResolveNode(g[i - 1], prefixes[i])]
             Good == {n \in Nat : \E g : Rec(n, g)}
  <1>1. 0 \in Good
    <2>1. Rec(0, [i \in 0..0 |-> x])
      OBVIOUS
    <2> QED
      BY <2>1
  <1>2. ASSUME NEW n \in Nat, n \in Good PROVE n + 1 \in Good
    <2>1. PICK g : Rec(n, g)
      BY <1>2
    <2> DEFINE h == [i \in 0..(n + 1) |-> IF i = n + 1 THEN ResolveNode(g[n], prefixes[n + 1]) ELSE g[i]]
    <2>2. DOMAIN h = 0..(n + 1) /\ h[n + 1] = ResolveNode(g[n], prefixes[n + 1]) /\ \A i \in 0..n : h[i] = g[i]
      OBVIOUS
    <2>3. g[0] = x /\ \A i \in 1..n : g[i] = ResolveNode(g[i - 1], prefixes[i])
      <3> HIDE DEF h
      <3> QED
        BY <2>1
    <2>4. \A i \in 0..(n + 1) : h[i] = IF i = 0 THEN x ELSE ResolveNode(h[i - 1], prefixes[i])
      <3> SUFFICES ASSUME NEW i \in 0..(n + 1)
                   PROVE  h[i] = IF i = 0 THEN x ELSE ResolveNode(h[i - 1], prefixes[i])
        OBVIOUS
      <3> HIDE DEF h
      <3>1. CASE i = 0
        BY <2>2, <2>3, <3>1
      <3>2. CASE i \in 1..n
        <4>1. h[i] = g[i] /\ h[i - 1] = g[i - 1]
          BY <2>2, <3>2
        <4> QED
          BY <2>3, <3>2, <4>1
      <3>3. CASE i = n + 1
        <4>1. h[i - 1] = g[n]
          BY <2>2, <3>3
        <4> QED
          BY <2>2, <3>3, <4>1
      <3> QED
        BY <3>1, <3>2, <3>3
    <2>5. Rec(n + 1, h)
      <3>1. h = [i \in 0..(n + 1) |-> h[i]]
        OBVIOUS
      <3> HIDE DEF h
      <3> QED
        BY <2>2, <2>4, <3>1
    <2> HIDE DEF Rec, h
    <2> QED
      BY <2>5
  <1> HIDE DEF Good
  <1>3. Nat \subseteq Good
    BY <1>1, <1>2, NatInduct
  <1> DEFINE n == Len(prefixes)
             after == CHOOSE g : Rec(n, g)
  <1>4. Rec(n, after)
    <2>1. \E g : Rec(n, g)
      BY <1>3 DEF Good
    <2> QED
      BY <2>1
  <1>5. ResolveNodes(x, path) = after[n]
    BY DEF ResolveNodes
  <1> HIDE DEF after
  <1>6. after[0] = x /\ \A i \in 1..n : after[i] = ResolveNode(after[i - 1], prefixes[i])
    BY <1>4
  <1> QED
    BY <1>5, <1>6

LEMMA ResolveRolesIs ==
    ASSUME NEW x, NEW names, Len(names) \in Nat
    PROVE  \E g : /\ g[0] = x /\ ResolveRoles(x, names) = g[Len(names)]
                  /\ \A i \in 1..Len(names) : g[i] = ResolveRole(g[i - 1], names[i])
  <1> DEFINE Rec(n, g) == g = [i \in 0..n |-> IF i = 0 THEN x ELSE ResolveRole(g[i - 1], names[i])]
             Good == {n \in Nat : \E g : Rec(n, g)}
  <1>1. 0 \in Good
    <2>1. Rec(0, [i \in 0..0 |-> x])
      OBVIOUS
    <2> QED
      BY <2>1
  <1>2. ASSUME NEW n \in Nat, n \in Good PROVE n + 1 \in Good
    <2>1. PICK g : Rec(n, g)
      BY <1>2
    <2> DEFINE h == [i \in 0..(n + 1) |-> IF i = n + 1 THEN ResolveRole(g[n], names[n + 1]) ELSE g[i]]
    <2>2. DOMAIN h = 0..(n + 1) /\ h[n + 1] = ResolveRole(g[n], names[n + 1]) /\ \A i \in 0..n : h[i] = g[i]
      OBVIOUS
    <2>3. g[0] = x /\ \A i \in 1..n : g[i] = ResolveRole(g[i - 1], names[i])
      <3> HIDE DEF h
      <3> QED
        BY <2>1
    <2>4. \A i \in 0..(n + 1) : h[i] = IF i = 0 THEN x ELSE ResolveRole(h[i - 1], names[i])
      <3> SUFFICES ASSUME NEW i \in 0..(n + 1)
                   PROVE  h[i] = IF i = 0 THEN x ELSE ResolveRole(h[i - 1], names[i])
        OBVIOUS
      <3> HIDE DEF h
      <3>1. CASE i = 0
        BY <2>2, <2>3, <3>1
      <3>2. CASE i \in 1..n
        <4>1. h[i] = g[i] /\ h[i - 1] = g[i - 1]
          BY <2>2, <3>2
        <4> QED
          BY <2>3, <3>2, <4>1
      <3>3. CASE i = n + 1
        <4>1. h[i - 1] = g[n]
          BY <2>2, <3>3
        <4> QED
          BY <2>2, <3>3, <4>1
      <3> QED
        BY <3>1, <3>2, <3>3
    <2>5. Rec(n + 1, h)
      <3>1. h = [i \in 0..(n + 1) |-> h[i]]
        OBVIOUS
      <3> HIDE DEF h
      <3> QED
        BY <2>2, <2>4, <3>1
    <2> HIDE DEF Rec, h
    <2> QED
      BY <2>5
  <1> HIDE DEF Good
  <1>3. Nat \subseteq Good
    BY <1>1, <1>2, NatInduct
  <1> DEFINE n == Len(names)
             after == CHOOSE g : Rec(n, g)
  <1>4. Rec(n, after)
    <2>1. \E g : Rec(n, g)
      BY <1>3 DEF Good
    <2> QED
      BY <2>1
  <1>5. ResolveRoles(x, names) = after[n]
    BY DEF ResolveRoles
  <1> HIDE DEF after
  <1>6. after[0] = x /\ \A i \in 1..n : after[i] = ResolveRole(after[i - 1], names[i])
    BY <1>4
  <1> QED
    BY <1>5, <1>6

Start(d, seen) == [ db |-> d, seen |-> seen, failed |-> FALSE, nodes |-> <<>>, roles |-> <<>>, actions |-> <<>> ]

LEMMA ExecuteImportIs ==
    ASSUME NEW d, NEW seen, NEW rows, Len(rows) \in Nat
    PROVE  \E g : /\ g[0] = Start(d, seen)
                  /\ ExecuteImport(d, seen, rows) =
                        [g[Len(rows)] EXCEPT !.failed = @ \/ ~Unique(g[Len(rows)].db)]
                  /\ \A i \in 1..Len(rows) : g[i] = ImportRow(g[i - 1], rows[i])
  <1> DEFINE x == Start(d, seen)
             Rec(n, g) == g = [i \in 0..n |-> IF i = 0 THEN x ELSE ImportRow(g[i - 1], rows[i])]
             Good == {n \in Nat : \E g : Rec(n, g)}
  <1>1. 0 \in Good
    <2>1. Rec(0, [i \in 0..0 |-> x])
      OBVIOUS
    <2> QED
      BY <2>1
  <1>2. ASSUME NEW n \in Nat, n \in Good PROVE n + 1 \in Good
    <2>1. PICK g : Rec(n, g)
      BY <1>2
    <2> DEFINE h == [i \in 0..(n + 1) |-> IF i = n + 1 THEN ImportRow(g[n], rows[n + 1]) ELSE g[i]]
    <2>2. DOMAIN h = 0..(n + 1) /\ h[n + 1] = ImportRow(g[n], rows[n + 1]) /\ \A i \in 0..n : h[i] = g[i]
      OBVIOUS
    <2>3. g[0] = x /\ \A i \in 1..n : g[i] = ImportRow(g[i - 1], rows[i])
      <3> HIDE DEF h
      <3> QED
        BY <2>1
    <2>4. \A i \in 0..(n + 1) : h[i] = IF i = 0 THEN x ELSE ImportRow(h[i - 1], rows[i])
      <3> SUFFICES ASSUME NEW i \in 0..(n + 1)
                   PROVE  h[i] = IF i = 0 THEN x ELSE ImportRow(h[i - 1], rows[i])
        OBVIOUS
      <3> HIDE DEF h
      <3>1. CASE i = 0
        BY <2>2, <2>3, <3>1
      <3>2. CASE i \in 1..n
        <4>1. h[i] = g[i] /\ h[i - 1] = g[i - 1]
          BY <2>2, <3>2
        <4> QED
          BY <2>3, <3>2, <4>1
      <3>3. CASE i = n + 1
        <4>1. h[i - 1] = g[n]
          BY <2>2, <3>3
        <4> QED
          BY <2>2, <3>3, <4>1
      <3> QED
        BY <3>1, <3>2, <3>3
    <2>5. Rec(n + 1, h)
      <3>1. h = [i \in 0..(n + 1) |-> h[i]]
        OBVIOUS
      <3> HIDE DEF h
      <3> QED
        BY <2>2, <2>4, <3>1
    <2> HIDE DEF Rec, h
    <2> QED
      BY <2>5
  <1> HIDE DEF Good
  <1>3. Nat \subseteq Good
    BY <1>1, <1>2, NatInduct
  <1> DEFINE n == Len(rows)
             after == CHOOSE g : Rec(n, g)
  <1>4. Rec(n, after)
    <2>1. \E g : Rec(n, g)
      BY <1>3 DEF Good
    <2> QED
      BY <2>1
  <1>5. ExecuteImport(d, seen, rows) = [after[n] EXCEPT !.failed = @ \/ ~Unique(after[n].db)]
    BY DEF ExecuteImport, Start
  <1> HIDE DEF after
  <1>6. after[0] = x /\ \A i \in 1..n : after[i] = ImportRow(after[i - 1], rows[i])
    BY <1>4
  <1> QED
    BY <1>5, <1>6

\* An import in the middle of its rows, begun on the tables d: what it has read or
\* made is in the tables, or has gone.
PassOK(d, gone, x) ==
    /\ DOMAIN x = {"db", "seen", "failed", "nodes", "roles", "actions"}
    /\ DOMAIN x.seen = {"nodes", "roles", "users"}
    /\ RowsTyped(x.db) /\ NewIdsAreNew(d, x.db) /\ KeysGrow(d, x.db) /\ Refers(x.db, gone)
    /\ DOMAIN x.seen.nodes \subseteq DOMAIN x.db.nodes \cup gone
    /\ \A n \in DOMAIN x.seen.nodes : x.seen.nodes[n] \in NodeRow(IdsIn(x.db))
    /\ DOMAIN x.seen.roles \subseteq DOMAIN x.db.roles \cup gone
    /\ \A r \in DOMAIN x.seen.roles : x.seen.roles[r] \in Names
    /\ DOMAIN x.seen.users \subseteq DOMAIN x.db.users \cup gone
    /\ \A u \in DOMAIN x.seen.users : x.seen.users[u] \in UserRow(IdsIn(x.db))

\* It knows the nodes and roles it knew.
KnowsMore(x, y) ==
    /\ \A p : NodeAt(x.seen, p) # {} => NodeAt(y.seen, p) # {}
    /\ \A name : RoleNamed(x.seen, name) # {} => RoleNamed(y.seen, name) # {}

SameUsers(x, y) == y.db.users = x.db.users /\ y.seen.users = x.seen.users

LEMMA PassIds ==
    ASSUME NEW d, NEW gone, NEW x, RowsTyped(d), gone \subseteq IdsIn(d), PassOK(d, gone, x)
    PROVE  /\ IdsIn(d) \subseteq IdsIn(x.db) /\ gone \subseteq IdsIn(x.db)
           /\ DOMAIN x.seen.nodes \subseteq IdsIn(x.db) /\ DOMAIN x.seen.roles \subseteq IdsIn(x.db)
           /\ DOMAIN x.seen.users \subseteq IdsIn(x.db)
           /\ x.db.next \in Nat \ {0} /\ x.db.next \notin IdsIn(x.db) /\ d.next <= x.db.next
  <1>1. d.next \in Nat /\ x.db.next \in Nat \ {0} /\ d.next <= x.db.next
    BY DEF PassOK, RowsTyped, NewIdsAreNew
  <1>2. IdsIn(d) \subseteq IdsIn(x.db) /\ x.db.next \notin IdsIn(x.db)
    BY <1>1 DEF IdsIn
  <1>3. DOMAIN x.db.nodes \subseteq IdsIn(x.db) /\ DOMAIN x.db.roles \subseteq IdsIn(x.db)
        /\ DOMAIN x.db.users \subseteq IdsIn(x.db)
    BY TablesAre DEF PassOK
  <1> QED
    BY <1>1, <1>2, <1>3 DEF PassOK

LEMMA ResolveNodeKeeps ==
    ASSUME NEW d, NEW gone, NEW x, RowsTyped(d), gone \subseteq IdsIn(d), PassOK(d, gone, x),
           NEW path \in Seq(Names), Len(path) >= 2 => NodeAt(x.seen, Front(path)) # {},
           NEW y, y = ResolveNode(x, path)
    PROVE  PassOK(d, gone, y) /\ KnowsMore(x, y) /\ NodeAt(y.seen, path) # {} /\ SameUsers(x, y)
  <1>1. CASE NodeAt(x.seen, path) # {}
    BY <1>1 DEF ResolveNode, KnowsMore, SameUsers
  <1>2. CASE NodeAt(x.seen, path) = {}
    <2> DEFINE name == IF path = <<>> THEN RootName ELSE Last(path)
               parent == IF Len(path) < 2 THEN Null ELSE SeenNode(x, Front(path))
               db1 == WithNode(x.db, name, parent, path)
               id == x.db.next
               row == db1.nodes[id]
    <2>1. y = [x EXCEPT !.db = db1, !.seen.nodes = Single(id, row) ++ @, !.nodes = Append(@, path)]
      BY <1>2 DEF ResolveNode
    <2>2. /\ DOMAIN x = {"db", "seen", "failed", "nodes", "roles", "actions"}
          /\ DOMAIN x.seen = {"nodes", "roles", "users"} /\ RowsTyped(x.db) /\ NewIdsAreNew(d, x.db)
          /\ Refers(x.db, gone) /\ KeysGrow(d, x.db)
          /\ DOMAIN x.seen.nodes \subseteq DOMAIN x.db.nodes \cup gone
      BY DEF PassOK
    <2>3. /\ IdsIn(d) \subseteq IdsIn(x.db) /\ gone \subseteq IdsIn(x.db)
          /\ DOMAIN x.seen.nodes \subseteq IdsIn(x.db) /\ id \in Nat \ {0} /\ id \notin IdsIn(x.db)
      BY PassIds
    <2>4. name \in Segment /\ path \in Seq(Segment)
      <3>1. path # <<>> => path[Len(path)] \in Names
        OBVIOUS
      <3>2. \A i \in 1..Len(path) : path[i] \in Segment
        BY DEF Segment
      <3>3. path \in Seq(Segment)
        BY <3>2
      <3> QED
        BY <3>1, <3>3 DEF Last, Segment
    <2>5. parent \in DOMAIN x.db.nodes \cup gone \cup {Null} /\ parent \in IdsIn(x.db) \cup {Null}
      <3>1. Len(path) \in Nat
        OBVIOUS
      <3>2. Len(path) >= 2 => SeenNode(x, Front(path)) \in NodeAt(x.seen, Front(path))
        BY DEF SeenNode
      <3>3. Len(path) >= 2 => SeenNode(x, Front(path)) \in DOMAIN x.seen.nodes
        BY <3>2 DEF NodeAt
      <3> QED
        BY <2>2, <2>3, <3>1, <3>3
    <2>6. db1 = WithNode(x.db, name, parent, path)
      OBVIOUS
    <2> HIDE DEF db1, row, name, parent, id
    <2>7. RowsTyped(db1) /\ NewIdsAreNew(x.db, db1) /\ Refers(db1, gone)
      <3>1. RowsTyped(x.db) /\ Refers(x.db, gone)
        BY <2>2
      <3> QED
        BY ONLY <2>4, <2>5, <2>6, <3>1, WithNodeKeeps
    <2>8. /\ DOMAIN db1 = DOMAIN x.db /\ db1.next = x.db.next + 1
          /\ db1.users = x.db.users /\ db1.roles = x.db.roles /\ db1.keys = x.db.keys /\ db1.links = x.db.links
          /\ DOMAIN db1.nodes = DOMAIN x.db.nodes \cup {x.db.next}
          /\ db1.nodes[x.db.next] = [name |-> name, parent |-> parent, path |-> path]
          /\ \A n \in DOMAIN x.db.nodes : db1.nodes[n] = x.db.nodes[n]
      BY ONLY <2>2, <2>6, WithNodeIs
    <2>9. /\ DOMAIN y = DOMAIN x /\ y.db = db1 /\ DOMAIN y.seen = DOMAIN x.seen
          /\ y.seen.nodes = Single(id, row) ++ x.seen.nodes
          /\ y.seen.roles = x.seen.roles /\ y.seen.users = x.seen.users
      BY <2>1, <2>2
    <2>10. /\ DOMAIN y.seen.nodes = DOMAIN x.seen.nodes \cup {id} /\ y.seen.nodes[id] = row
           /\ \A n \in DOMAIN x.seen.nodes : y.seen.nodes[n] = x.seen.nodes[n]
      BY <2>3, <2>9 DEF Single, ++
    <2>11. row.path = path /\ row \in NodeRow(IdsIn(db1)) /\ id \in DOMAIN db1.nodes
      <3>1. \A n \in DOMAIN db1.nodes : db1.nodes[n] \in NodeRow(IdsIn(db1))
        BY <2>7, TablesAre
      <3> QED
        BY <2>8, <3>1 DEF row, id
    <2>12. NodeAt(y.seen, path) # {}
      BY <2>10, <2>11 DEF NodeAt
    <2>13. KnowsMore(x, y)
      <3>1. \A p : NodeAt(x.seen, p) \subseteq NodeAt(y.seen, p)
        BY <2>10 DEF NodeAt
      <3>2. \A n : RoleNamed(y.seen, n) = RoleNamed(x.seen, n)
        BY <2>9 DEF RoleNamed
      <3> QED
        BY <3>1, <3>2 DEF KnowsMore
    <2>14. SameUsers(x, y)
      BY <2>8, <2>9 DEF SameUsers
    <2>15. /\ \A z : z \in UserRow(IdsIn(x.db)) => z \in UserRow(IdsIn(db1))
           /\ \A z : z \in NodeRow(IdsIn(x.db)) => z \in NodeRow(IdsIn(db1))
      BY <2>2, <2>7, IdsGrow DEF RowsTyped, NewIdsAreNew
    <2>16. NewIdsAreNew(d, db1)
      BY <2>2, <2>7, NewIdsChain
    <2>17. KeysGrow(d, db1)
      BY <2>2, <2>8 DEF KeysGrow
    <2>18. PassOK(d, gone, y)
      <3>1. DOMAIN y.seen.nodes \subseteq DOMAIN y.db.nodes \cup gone
        BY <2>2, <2>8, <2>9, <2>10, <2>11
      <3>2. \A n \in DOMAIN y.seen.nodes : y.seen.nodes[n] \in NodeRow(IdsIn(y.db))
        BY <2>9, <2>10, <2>11, <2>15 DEF PassOK
      <3>3. DOMAIN y.seen.roles \subseteq DOMAIN y.db.roles \cup gone /\ \A r \in DOMAIN y.seen.roles : y.seen.roles[r] \in Names
        BY <2>8, <2>9 DEF PassOK
      <3>4. DOMAIN y.seen.users \subseteq DOMAIN y.db.users \cup gone
            /\ \A u \in DOMAIN y.seen.users : y.seen.users[u] \in UserRow(IdsIn(y.db))
        BY <2>8, <2>9, <2>15 DEF PassOK
      <3> QED
        BY <2>2, <2>7, <2>9, <2>16, <2>17, <3>1, <3>2, <3>3, <3>4 DEF PassOK
    <2> QED
      BY <2>12, <2>13, <2>14, <2>18
  <1> QED
    BY <1>1, <1>2

LEMMA ResolveRoleKeeps ==
    ASSUME NEW d, NEW gone, NEW x, RowsTyped(d), gone \subseteq IdsIn(d), PassOK(d, gone, x),
           NEW name \in Names, NEW y, y = ResolveRole(x, name)
    PROVE  PassOK(d, gone, y) /\ KnowsMore(x, y) /\ RoleNamed(y.seen, name) # {} /\ SameUsers(x, y)
  <1>1. CASE RoleNamed(x.seen, name) # {}
    BY <1>1 DEF ResolveRole, KnowsMore, SameUsers
  <1>2. CASE RoleNamed(x.seen, name) = {}
    <2> DEFINE db1 == WithRole(x.db, name)
               id == x.db.next
    <2>1. /\ DOMAIN x = {"db", "seen", "failed", "nodes", "roles", "actions"}
          /\ DOMAIN x.seen = {"nodes", "roles", "users"} /\ RowsTyped(x.db) /\ NewIdsAreNew(d, x.db)
          /\ Refers(x.db, gone) /\ KeysGrow(d, x.db)
          /\ DOMAIN x.seen.roles \subseteq DOMAIN x.db.roles \cup gone
      BY DEF PassOK
    <2>2. y = [x EXCEPT !.db = WithRole(@, name), !.seen.roles = Single(id, name) ++ @, !.roles = Append(@, name)]
      BY <1>2 DEF ResolveRole
    <2>3. /\ DOMAIN y = DOMAIN x /\ y.db = db1 /\ DOMAIN y.seen = DOMAIN x.seen
          /\ y.seen.roles = Single(id, name) ++ x.seen.roles
          /\ y.seen.nodes = x.seen.nodes /\ y.seen.users = x.seen.users
      <3> HIDE DEF db1
      <3>1. DOMAIN y = DOMAIN x /\ y.db = db1
        BY <2>1, <2>2 DEF db1
      <3> QED
        BY <2>1, <2>2, <3>1
    <2>4. db1 = WithRole(x.db, name)
      OBVIOUS
    <2> HIDE DEF db1, id
    <2>5. /\ DOMAIN x.seen.roles \subseteq IdsIn(x.db) /\ id \notin IdsIn(x.db)
      BY PassIds DEF id
    <2>6. RowsTyped(db1) /\ NewIdsAreNew(x.db, db1) /\ Refers(db1, gone)
      <3>1. name \in Names
        OBVIOUS
      <3> QED
        BY ONLY <2>1, <2>4, <3>1, WithRoleKeeps
    <2>7. /\ DOMAIN db1 = DOMAIN x.db /\ db1.next = x.db.next + 1
          /\ db1.users = x.db.users /\ db1.nodes = x.db.nodes /\ db1.keys = x.db.keys /\ db1.links = x.db.links
          /\ DOMAIN db1.roles = DOMAIN x.db.roles \cup {x.db.next} /\ db1.roles[x.db.next] = name
          /\ \A r \in DOMAIN x.db.roles : db1.roles[r] = x.db.roles[r]
      BY ONLY <2>1, <2>4, WithRoleIs
    <2>8. /\ DOMAIN y.seen.roles = DOMAIN x.seen.roles \cup {id} /\ y.seen.roles[id] = name
          /\ \A n \in DOMAIN x.seen.roles : y.seen.roles[n] = x.seen.roles[n]
      BY <2>3, <2>5 DEF Single, ++
    <2>9. RoleNamed(y.seen, name) # {}
      BY <2>8 DEF RoleNamed
    <2>10. KnowsMore(x, y)
      <3>1. \A p : NodeAt(x.seen, p) = NodeAt(y.seen, p)
        BY <2>3 DEF NodeAt
      <3>2. \A n : RoleNamed(x.seen, n) \subseteq RoleNamed(y.seen, n)
        BY <2>8 DEF RoleNamed
      <3> QED
        BY <3>1, <3>2 DEF KnowsMore
    <2>11. SameUsers(x, y)
      BY <2>3, <2>7 DEF SameUsers
    <2>12. /\ \A z : z \in UserRow(IdsIn(x.db)) => z \in UserRow(IdsIn(db1))
           /\ \A z : z \in NodeRow(IdsIn(x.db)) => z \in NodeRow(IdsIn(db1))
      BY <2>1, <2>6, IdsGrow DEF RowsTyped, NewIdsAreNew
    <2>13. NewIdsAreNew(d, db1)
      BY <2>1, <2>6, NewIdsChain
    <2>14. KeysGrow(d, db1)
      BY <2>1, <2>7 DEF KeysGrow
    <2>15. PassOK(d, gone, y)
      <3>1. DOMAIN y.seen.nodes \subseteq DOMAIN y.db.nodes \cup gone
            /\ \A n \in DOMAIN y.seen.nodes : y.seen.nodes[n] \in NodeRow(IdsIn(y.db))
        BY <2>3, <2>7, <2>12 DEF PassOK
      <3>2. DOMAIN y.seen.roles \subseteq DOMAIN y.db.roles \cup gone /\ \A r \in DOMAIN y.seen.roles : y.seen.roles[r] \in Names
        BY <2>3, <2>7, <2>8 DEF PassOK, id
      <3>3. DOMAIN y.seen.users \subseteq DOMAIN y.db.users \cup gone
            /\ \A u \in DOMAIN y.seen.users : y.seen.users[u] \in UserRow(IdsIn(y.db))
        BY <2>3, <2>7, <2>12 DEF PassOK
      <3> QED
        BY <2>1, <2>3, <2>6, <2>13, <2>14, <3>1, <3>2, <3>3 DEF PassOK
    <2> QED
      BY <2>9, <2>10, <2>11, <2>15
  <1> QED
    BY <1>1, <1>2

\* A path is the last of its prefixes, and each comes after its parent's.
PrefixesOK(T, path, prefixes) ==
    /\ Len(prefixes) \in Nat /\ Len(prefixes) >= 1 /\ prefixes[Len(prefixes)] = path
    /\ \A i \in 1..Len(prefixes) :
          prefixes[i] \in Seq(T)
          /\ (Len(prefixes[i]) >= 2 => i >= 2 /\ Front(prefixes[i]) = prefixes[i - 1])

LEMMA PrefixesAre ==
    ASSUME NEW T, NEW path \in Seq(T), NEW prefixes, prefixes = PathPrefixes(path)
    PROVE  PrefixesOK(T, path, prefixes)
  <1>1. CASE path = <<>>
    <2>1. prefixes = << <<>> >> /\ Len(prefixes) = 1 /\ prefixes[1] = <<>>
      BY <1>1 DEF PathPrefixes
    <2>2. path \in Seq(T) /\ Len(path) = 0 /\ prefixes[1] = path
      BY <1>1, <2>1
    <2>3. ASSUME NEW i \in 1..Len(prefixes) PROVE prefixes[i] \in Seq(T) /\ ~(Len(prefixes[i]) >= 2)
      <3>1. i = 1
        BY <2>1
      <3>2. prefixes[i] = path
        BY <2>2, <3>1
      <3>3. ~(Len(path) >= 2)
        BY <2>2
      <3> QED
        BY ONLY <2>2, <3>2, <3>3
    <2>4. \A i \in 1..Len(prefixes) :
             prefixes[i] \in Seq(T)
             /\ (Len(prefixes[i]) >= 2 => i >= 2 /\ Front(prefixes[i]) = prefixes[i - 1])
      BY ONLY <2>3
    <2>5. Len(prefixes) \in Nat /\ Len(prefixes) >= 1 /\ prefixes[Len(prefixes)] = path
      BY <2>1, <2>2
    <2> QED
      BY ONLY <2>4, <2>5 DEF PrefixesOK
  <1>2. CASE path # <<>>
    <2> DEFINE n == Len(path)
    <2>1. n \in Nat /\ n >= 1
      BY <1>2
    <2>2. prefixes = [i \in 1..n |-> SubSeq(path, 1, i)]
      BY <1>2 DEF PathPrefixes
    <2>3. Len(prefixes) = n
      BY <2>1, <2>2
    <2>4. \A i \in 1..n : /\ prefixes[i] = SubSeq(path, 1, i)
                          /\ prefixes[i] \in Seq(T) /\ Len(prefixes[i]) = i
                          /\ \A j \in 1..i : prefixes[i][j] = path[j]
      BY <2>1, <2>2
    <2>5. prefixes[n] = path
      <3>1. prefixes[n] = SubSeq(path, 1, Len(path))
        BY <2>1, <2>4
      <3> QED
        BY <3>1
    <2>6. ASSUME NEW i \in 1..n, i >= 2 PROVE Front(prefixes[i]) = prefixes[i - 1]
      <3>1. Front(prefixes[i]) = SubSeq(prefixes[i], 1, i - 1)
        BY <2>4 DEF Front
      <3>2. SubSeq(prefixes[i], 1, i - 1) = [j \in 1..(i - 1) |-> prefixes[i][j]]
        BY <2>4, <2>6
      <3>3. prefixes[i - 1] = [j \in 1..(i - 1) |-> path[j]]
        <4>1. i - 1 \in 1..n
          BY <2>6
        <4>2. prefixes[i - 1] \in Seq(T) /\ Len(prefixes[i - 1]) = i - 1 /\ \A j \in 1..(i - 1) : prefixes[i - 1][j] = path[j]
          BY <2>4, <4>1
        <4> QED
          BY <4>2
      <3>4. \A j \in 1..(i - 1) : prefixes[i][j] = path[j]
        BY <2>4, <2>6
      <3> QED
        BY <3>1, <3>2, <3>3, <3>4
    <2> QED
      BY <2>1, <2>3, <2>4, <2>5, <2>6 DEF PrefixesOK
  <1> QED
    BY <1>1, <1>2

LEMMA KnowsMoreChain ==
    ASSUME NEW x, NEW y, NEW z, KnowsMore(x, y), KnowsMore(y, z), SameUsers(x, y), SameUsers(y, z)
    PROVE  KnowsMore(x, z) /\ SameUsers(x, z)
  BY DEF KnowsMore, SameUsers

LEMMA ResolveNodesKeep ==
    ASSUME NEW d, NEW gone, NEW x, RowsTyped(d), gone \subseteq IdsIn(d), PassOK(d, gone, x),
           NEW path \in Seq(Names), NEW y, y = ResolveNodes(x, path)
    PROVE  PassOK(d, gone, y) /\ KnowsMore(x, y) /\ NodeAt(y.seen, path) # {} /\ SameUsers(x, y)
  <1> DEFINE prefixes == PathPrefixes(path)
             n == Len(prefixes)
  <1>1. /\ n \in Nat /\ n >= 1 /\ prefixes[n] = path
        /\ \A i \in 1..n :
              prefixes[i] \in Seq(Names) /\ (Len(prefixes[i]) >= 2 => i >= 2 /\ Front(prefixes[i]) = prefixes[i - 1])
    <2>1. PrefixesOK(Names, path, prefixes)
      BY PrefixesAre
    <2> HIDE DEF prefixes
    <2> QED
      BY <2>1 DEF PrefixesOK
  <1>2. \E g : /\ g[0] = x /\ ResolveNodes(x, path) = g[n]
               /\ \A i \in 1..n : g[i] = ResolveNode(g[i - 1], prefixes[i])
    BY <1>1, ResolveNodesIs
  <1> HIDE DEF prefixes, n
  <1>3. PICK g : /\ g[0] = x /\ ResolveNodes(x, path) = g[n]
                 /\ \A i \in 1..n : g[i] = ResolveNode(g[i - 1], prefixes[i])
    BY <1>2
  <1> DEFINE P(i) == /\ PassOK(d, gone, g[i]) /\ KnowsMore(x, g[i]) /\ SameUsers(x, g[i])
                     /\ i >= 1 => NodeAt(g[i].seen, prefixes[i]) # {}
             Good == {i \in Nat : i <= n => P(i)}
  <1>4. 0 \in Good
    BY <1>3 DEF KnowsMore, SameUsers
  <1>5. ASSUME NEW i \in Nat, i \in Good PROVE i + 1 \in Good
    <2> SUFFICES ASSUME i + 1 <= n PROVE P(i + 1)
      BY <1>1
    <2>1. P(i) /\ i + 1 \in 1..n /\ (i + 1) - 1 = i
      BY <1>1, <1>5
    <2>2. g[i + 1] = ResolveNode(g[i], prefixes[i + 1])
      BY <1>3, <2>1
    <2>3. prefixes[i + 1] \in Seq(Names)
          /\ (Len(prefixes[i + 1]) >= 2 => NodeAt(g[i].seen, Front(prefixes[i + 1])) # {})
      BY <1>1, <2>1
    <2>4. /\ PassOK(d, gone, g[i + 1]) /\ KnowsMore(g[i], g[i + 1])
          /\ NodeAt(g[i + 1].seen, prefixes[i + 1]) # {} /\ SameUsers(g[i], g[i + 1])
      BY <2>1, <2>2, <2>3, ResolveNodeKeeps
    <2> QED
      BY <2>1, <2>4, KnowsMoreChain
  <1>6. n \in Good
    <2> HIDE DEF Good
    <2> QED
      BY <1>1, <1>4, <1>5, NatInduct
  <1> QED
    BY <1>1, <1>3, <1>6

LEMMA ResolveRolesKeep ==
    ASSUME NEW d, NEW gone, NEW x, RowsTyped(d), gone \subseteq IdsIn(d), PassOK(d, gone, x),
           NEW names \in Seq(Names), NEW y, y = ResolveRoles(x, names)
    PROVE  /\ PassOK(d, gone, y) /\ KnowsMore(x, y) /\ SameUsers(x, y)
           /\ \A name \in Range(names) : RoleNamed(y.seen, name) # {}
  <1> DEFINE n == Len(names)
  <1>1. n \in Nat /\ \A i \in 1..n : names[i] \in Names
    OBVIOUS
  <1>2. \E g : /\ g[0] = x /\ ResolveRoles(x, names) = g[n]
               /\ \A i \in 1..n : g[i] = ResolveRole(g[i - 1], names[i])
    BY <1>1, ResolveRolesIs
  <1>3. PICK g : /\ g[0] = x /\ ResolveRoles(x, names) = g[n]
                 /\ \A i \in 1..n : g[i] = ResolveRole(g[i - 1], names[i])
    BY <1>2
  <1> DEFINE P(i) == /\ PassOK(d, gone, g[i]) /\ KnowsMore(x, g[i]) /\ SameUsers(x, g[i])
                     /\ \A j \in 1..i : RoleNamed(g[i].seen, names[j]) # {}
             Good == {i \in Nat : i <= n => P(i)}
  <1> HIDE DEF n
  <1>4. 0 \in Good
    BY <1>3 DEF KnowsMore, SameUsers
  <1>5. ASSUME NEW i \in Nat, i \in Good PROVE i + 1 \in Good
    <2> SUFFICES ASSUME i + 1 <= n PROVE P(i + 1)
      BY <1>1
    <2>1. P(i) /\ i + 1 \in 1..n /\ (i + 1) - 1 = i
      BY <1>1, <1>5
    <2>2. g[i + 1] = ResolveRole(g[i], names[i + 1]) /\ names[i + 1] \in Names
      BY <1>1, <1>3, <2>1
    <2>3. /\ PassOK(d, gone, g[i + 1]) /\ KnowsMore(g[i], g[i + 1])
          /\ RoleNamed(g[i + 1].seen, names[i + 1]) # {} /\ SameUsers(g[i], g[i + 1])
      BY <2>1, <2>2, ResolveRoleKeeps
    <2>4. \A j \in 1..(i + 1) : RoleNamed(g[i + 1].seen, names[j]) # {}
      <3> SUFFICES ASSUME NEW j \in 1..(i + 1) PROVE RoleNamed(g[i + 1].seen, names[j]) # {}
        OBVIOUS
      <3>1. j = i + 1 \/ j \in 1..i
        OBVIOUS
      <3> QED
        BY <2>1, <2>3, <3>1 DEF KnowsMore
    <2> QED
      BY <2>1, <2>3, <2>4, KnowsMoreChain
  <1>6. n \in Good
    <2> HIDE DEF Good
    <2> QED
      BY <1>1, <1>4, <1>5, NatInduct
  <1>7. \A name \in Range(names) : \E j \in 1..n : name = names[j]
    BY <1>1 DEF Range, n
  <1> QED
    BY <1>1, <1>3, <1>6, <1>7

\* An import begun on the tables d with the users loaded, in the middle of its rows:
\* it has made active only users it saw disabled.
StatusOK(d, loaded, x) ==
    /\ \A u \in DOMAIN d.users :
          u \in DOMAIN x.db.users
          /\ (x.db.users[u].status # d.users[u].status => u \in DOMAIN loaded /\ loaded[u].status = "disabled")
    /\ \A u \in DOMAIN x.seen.users \cap IdsIn(d) :
          u \in DOMAIN loaded /\ x.seen.users[u].status \in {loaded[u].status, "active"}

LEMMA SameUsersStatus ==
    ASSUME NEW d, NEW loaded, NEW x, NEW y, StatusOK(d, loaded, x), SameUsers(x, y)
    PROVE  StatusOK(d, loaded, y)
  BY DEF StatusOK, SameUsers

LEMMA ImportNewKeeps ==
    ASSUME NEW d, NEW gone, NEW x, RowsTyped(d), gone \subseteq IdsIn(d), PassOK(d, gone, x),
           NEW loaded, StatusOK(d, loaded, x),
           NEW row, row.ref \in Refs, NEW node \in DOMAIN x.seen.nodes, NEW roleIds \in SUBSET DOMAIN x.seen.roles,
           NEW y, y = ImportNew(x, row, node, roleIds)
    PROVE  PassOK(d, gone, y) /\ StatusOK(d, loaded, y)
  <1> DEFINE db1 == WithUser(x.db, row.ref, node, roleIds)
             id == x.db.next
             new == db1.users[id]
  <1>1. /\ DOMAIN x = {"db", "seen", "failed", "nodes", "roles", "actions"}
        /\ DOMAIN x.seen = {"nodes", "roles", "users"} /\ RowsTyped(x.db) /\ NewIdsAreNew(d, x.db)
        /\ Refers(x.db, gone) /\ KeysGrow(d, x.db)
        /\ DOMAIN x.seen.nodes \subseteq DOMAIN x.db.nodes \cup gone
        /\ DOMAIN x.seen.roles \subseteq DOMAIN x.db.roles \cup gone
        /\ DOMAIN x.seen.users \subseteq DOMAIN x.db.users \cup gone
    BY DEF PassOK
  <1>2. /\ IdsIn(d) \subseteq IdsIn(x.db) /\ gone \subseteq IdsIn(x.db)
        /\ DOMAIN x.seen.nodes \subseteq IdsIn(x.db) /\ DOMAIN x.seen.roles \subseteq IdsIn(x.db)
        /\ DOMAIN x.seen.users \subseteq IdsIn(x.db)
        /\ id \in Nat \ {0} /\ id \notin IdsIn(x.db) /\ d.next <= x.db.next
    BY PassIds
  <1>3. /\ DOMAIN y = DOMAIN x /\ y.db = db1 /\ DOMAIN y.seen = DOMAIN x.seen
        /\ y.seen.users = Single(id, new) ++ x.seen.users
        /\ y.seen.roles = x.seen.roles /\ y.seen.nodes = x.seen.nodes
    <2>1. y = [x EXCEPT !.db = db1, !.seen.users = Single(id, new) ++ @, !.actions = Append(@, "create")]
      BY DEF ImportNew
    <2> HIDE DEF db1, id, new
    <2> QED
      BY <1>1, <2>1
  <1>4. db1 = WithUser(x.db, row.ref, node, roleIds)
    OBVIOUS
  <1> DEFINE ref == row.ref
  <1>5. /\ ref \in Refs /\ node \in IdsIn(x.db) \cup {Null} /\ roleIds \in SUBSET IdsIn(x.db)
        /\ node \in DOMAIN x.db.nodes \cup gone \cup {Null} /\ roleIds \in SUBSET (DOMAIN x.db.roles \cup gone)
        /\ db1 = WithUser(x.db, ref, node, roleIds)
    BY <1>1, <1>2
  <1> HIDE DEF db1, ref
  <1>6. RowsTyped(x.db) /\ Refers(x.db, gone)
    BY <1>1
  <1>7. RowsTyped(db1) /\ NewIdsAreNew(x.db, db1)
    BY ONLY <1>5, <1>6, WithUserTyped
  <1>8. Refers(db1, gone)
    BY ONLY <1>5, <1>6, WithUserRefers
  <1>9. KeysGrow(d, db1)
    BY <1>1, <1>2, <1>5, WithUserKeys
  <1>10. /\ DOMAIN db1 = DOMAIN x.db /\ db1.next = x.db.next + 2 /\ db1.nodes = x.db.nodes /\ db1.roles = x.db.roles
         /\ db1.links = ReplacedLinks(x.db, x.db.next, roleIds)
         /\ DOMAIN db1.users = DOMAIN x.db.users \cup {x.db.next}
         /\ \A u \in DOMAIN x.db.users : db1.users[u] = x.db.users[u]
         /\ db1.users[x.db.next] = [ref |-> ref, node |-> node, status |-> "active"]
         /\ DOMAIN db1.keys = DOMAIN x.db.keys \cup {x.db.next + 1}
         /\ \A k \in DOMAIN x.db.keys : db1.keys[k] = x.db.keys[k]
         /\ db1.keys[x.db.next + 1] = RuntimeKey(x.db.next)
    BY ONLY <1>5, <1>6, WithUserIs
  <1>11. new \in UserRow(IdsIn(db1)) /\ id \in DOMAIN db1.users
    BY <1>7, <1>10, TablesAre
  <1> HIDE DEF new, id
  <1>12. /\ DOMAIN y.seen.users = DOMAIN x.seen.users \cup {id} /\ y.seen.users[id] = new
         /\ \A u \in DOMAIN x.seen.users : y.seen.users[u] = x.seen.users[u]
    BY <1>2, <1>3 DEF Single, ++
  <1>13. /\ \A z : z \in UserRow(IdsIn(x.db)) => z \in UserRow(IdsIn(db1))
         /\ \A z : z \in NodeRow(IdsIn(x.db)) => z \in NodeRow(IdsIn(db1))
    BY <1>6, <1>7, IdsGrow DEF RowsTyped, NewIdsAreNew
  <1>14. NewIdsAreNew(d, db1)
    BY <1>1, <1>7, NewIdsChain
  <1>15. PassOK(d, gone, y)
    <2>1. DOMAIN y.seen.nodes \subseteq DOMAIN y.db.nodes \cup gone
          /\ \A n \in DOMAIN y.seen.nodes : y.seen.nodes[n] \in NodeRow(IdsIn(y.db))
      BY <1>3, <1>10, <1>13 DEF PassOK
    <2>2. DOMAIN y.seen.roles \subseteq DOMAIN y.db.roles \cup gone /\ \A r \in DOMAIN y.seen.roles : y.seen.roles[r] \in Names
      BY <1>3, <1>10 DEF PassOK
    <2>3. DOMAIN y.seen.users \subseteq DOMAIN y.db.users \cup gone
      BY <1>1, <1>3, <1>10, <1>11, <1>12
    <2>4. \A u \in DOMAIN y.seen.users : y.seen.users[u] \in UserRow(IdsIn(y.db))
      BY <1>3, <1>11, <1>12, <1>13 DEF PassOK
    <2> QED
      BY <1>1, <1>3, <1>7, <1>8, <1>9, <1>14, <2>1, <2>2, <2>3, <2>4 DEF PassOK
  <1>16. StatusOK(d, loaded, y)
    <2>1. id \notin IdsIn(d)
      BY <1>2
    <2> QED
      BY <1>3, <1>10, <1>12, <2>1 DEF StatusOK
  <1> QED
    BY <1>15, <1>16

LEMMA ImportKnownKeeps ==
    ASSUME NEW d, NEW gone, NEW x, RowsTyped(d), gone \subseteq IdsIn(d), PassOK(d, gone, x),
           NEW loaded, StatusOK(d, loaded, x), \A u \in DOMAIN loaded : loaded[u].status \in {"active", "disabled"},
           NEW u \in DOMAIN x.seen.users, NEW node \in DOMAIN x.seen.nodes,
           NEW roleIds \in SUBSET DOMAIN x.seen.roles, NEW y, y = ImportKnown(x, u, node, roleIds)
    PROVE  PassOK(d, gone, y) /\ StatusOK(d, loaded, y)
  <1> DEFINE row == [x.seen.users[u] EXCEPT !.node = node, !.status = "active"]
             object == Single(u, row)
             users == Flushed(x.db.users, x.seen.users, object)
             links == ReplacedLinks(x.db, u, roleIds)
  <1>1. /\ DOMAIN x = {"db", "seen", "failed", "nodes", "roles", "actions"}
        /\ DOMAIN x.seen = {"nodes", "roles", "users"} /\ RowsTyped(x.db) /\ NewIdsAreNew(d, x.db)
        /\ Refers(x.db, gone) /\ KeysGrow(d, x.db)
        /\ DOMAIN x.seen.nodes \subseteq DOMAIN x.db.nodes \cup gone
        /\ DOMAIN x.seen.roles \subseteq DOMAIN x.db.roles \cup gone
        /\ DOMAIN x.seen.users \subseteq DOMAIN x.db.users \cup gone
    BY DEF PassOK
  <1>2. /\ IdsIn(d) \subseteq IdsIn(x.db) /\ gone \subseteq IdsIn(x.db)
        /\ DOMAIN x.seen.nodes \subseteq IdsIn(x.db) /\ DOMAIN x.seen.roles \subseteq IdsIn(x.db)
        /\ DOMAIN x.seen.users \subseteq IdsIn(x.db)
    BY PassIds
  <1>3. /\ DOMAIN x.db = {"users", "roles", "nodes", "links", "keys", "next"}
        /\ \A v \in DOMAIN x.db.users : x.db.users[v] \in UserRow(IdsIn(x.db))
        /\ x.db.links \subseteq IdsIn(x.db) \X IdsIn(x.db)
    BY <1>1, TablesAre
  <1>4. /\ row \in UserRow(IdsIn(x.db)) /\ row.status = "active" /\ row.node = node
    <2>1. x.seen.users[u] \in UserRow(IdsIn(x.db))
      BY DEF PassOK
    <2>2. DOMAIN x.seen.users[u] = {"ref", "node", "status"} /\ x.seen.users[u].ref \in Refs
      BY <2>1, UserRowIs
    <2>3. /\ row = [c \in {"ref", "node", "status"} |-> row[c]] /\ row.ref = x.seen.users[u].ref
          /\ row.node = node /\ row.status = "active"
      BY <2>2
    <2> HIDE DEF row
    <2> QED
      BY <1>2, <2>2, <2>3 DEF UserRow
  <1>5. /\ DOMAIN y = DOMAIN x /\ DOMAIN y.db = DOMAIN x.db /\ DOMAIN y.seen = DOMAIN x.seen
        /\ y.db.users = users /\ y.db.links = links /\ y.db.nodes = x.db.nodes /\ y.db.roles = x.db.roles
        /\ y.db.keys = x.db.keys /\ y.db.next = x.db.next
        /\ y.seen.users = object ++ x.seen.users /\ y.seen.nodes = x.seen.nodes /\ y.seen.roles = x.seen.roles
    <2> DEFINE stale == Stale(x.db.users, x.seen.users, object)
    <2> DEFINE db1 == [x.db EXCEPT !.users = users, !.links = links]
               seen1 == [x.seen EXCEPT !.users = object ++ x.seen.users]
               failed1 == x.failed \/ stale
               actions1 == Append(x.actions, "update")
    <2>1. y = [x EXCEPT !.db = db1, !.seen = seen1, !.failed = failed1, !.actions = actions1]
      BY <1>1, <1>3 DEF ImportKnown
    <2>2. /\ DOMAIN db1 = DOMAIN x.db /\ db1.users = users /\ db1.links = links /\ db1.nodes = x.db.nodes
          /\ db1.roles = x.db.roles /\ db1.keys = x.db.keys /\ db1.next = x.db.next
      BY <1>3
    <2>3. /\ DOMAIN seen1 = DOMAIN x.seen /\ seen1.users = object ++ x.seen.users
          /\ seen1.nodes = x.seen.nodes /\ seen1.roles = x.seen.roles
      BY <1>1
    <2> HIDE DEF db1, seen1, failed1, actions1
    <2> QED
      BY <1>1, <2>1, <2>2, <2>3
  <1>6. DOMAIN object = {u} /\ object[u] = row
    BY DEF Single
  <1> HIDE DEF row, object
  <1>7. /\ DOMAIN users = DOMAIN x.db.users
        /\ \A v \in DOMAIN x.db.users : users[v] \in UserRow(IdsIn(x.db))
        /\ \A v \in DOMAIN x.db.users \ {u} : users[v] = x.db.users[v]
        /\ u \in DOMAIN x.db.users =>
              /\ users[u].node \in {node, x.db.users[u].node}
              /\ users[u].status # x.db.users[u].status =>
                    users[u].status = "active" /\ x.seen.users[u].status # "active"
    <2>1. \A v \in DOMAIN object : object[v] \in UserRow(IdsIn(x.db))
      BY <1>4, <1>6
    <2>2. DOMAIN users = DOMAIN x.db.users
          /\ \A v \in DOMAIN x.db.users : users[v] \in UserRow(IdsIn(x.db))
      BY <1>3, <2>1, FlushedUsers, FlushedIs
    <2>3. \A v \in DOMAIN x.db.users \ {u} : users[v] = x.db.users[v]
      BY <1>6 DEF Flushed, Dirty
    <2>4. ASSUME u \in DOMAIN x.db.users
          PROVE  /\ users[u].node \in {node, x.db.users[u].node}
                 /\ users[u].status # x.db.users[u].status =>
                       users[u].status = "active" /\ x.seen.users[u].status # "active"
      <3>1. CASE users[u] = x.db.users[u]
        BY <3>1
      <3>2. CASE users[u] = [c \in DOMAIN x.db.users[u] |->
                               IF object[u][c] # x.seen.users[u][c] THEN object[u][c] ELSE x.db.users[u][c]]
        <4>1. DOMAIN x.db.users[u] = {"ref", "node", "status"}
          BY <1>3, <2>4, UserRowIs
        <4>2. /\ users[u].node = IF row.node # x.seen.users[u].node THEN row.node ELSE x.db.users[u].node
              /\ users[u].status = IF row.status # x.seen.users[u].status THEN row.status ELSE x.db.users[u].status
          BY <1>6, <3>2, <4>1
        <4> QED
          BY <1>4, <4>2
      <3> QED
        BY <2>4, <3>1, <3>2, FlushedIs
    <2> QED
      BY <2>2, <2>3, <2>4
  <1>8. /\ links \subseteq IdsIn(x.db) \X IdsIn(x.db)
        /\ \A p \in links : p[1] \in DOMAIN x.db.users \cup gone /\ p[2] \in DOMAIN x.db.roles \cup gone
    BY <1>1, <1>2, <1>3 DEF ReplacedLinks, Refers
  <1> HIDE DEF users, links
  <1>9. IdsIn(y.db) = IdsIn(x.db)
    BY <1>5 DEF IdsIn
  <1>10. RowsTyped(y.db) /\ NewIdsAreNew(x.db, y.db)
    BY <1>1, <1>5, <1>7, <1>8, TablesAre, Retyped
  <1>11. Refers(y.db, gone)
    <2>1. \A v \in DOMAIN y.db.users : y.db.users[v].node \in DOMAIN y.db.nodes \cup gone \cup {Null}
      BY <1>1, <1>5, <1>7 DEF Refers
    <2> QED
      BY <1>1, <1>5, <1>7, <1>8, <2>1 DEF Refers
  <1>12. NewIdsAreNew(d, y.db)
    BY <1>1, <1>10, NewIdsChain
  <1>13. KeysGrow(d, y.db)
    BY <1>1, <1>5 DEF KeysGrow
  <1>14. /\ DOMAIN y.seen.users = DOMAIN x.seen.users /\ y.seen.users[u] = row
         /\ \A v \in DOMAIN x.seen.users \ {u} : y.seen.users[v] = x.seen.users[v]
    BY <1>5, <1>6 DEF ++
  <1>15. PassOK(d, gone, y)
    <2>1. DOMAIN y.seen.nodes \subseteq DOMAIN y.db.nodes \cup gone
          /\ \A n \in DOMAIN y.seen.nodes : y.seen.nodes[n] \in NodeRow(IdsIn(y.db))
      BY <1>5, <1>9 DEF PassOK
    <2>2. DOMAIN y.seen.roles \subseteq DOMAIN y.db.roles \cup gone /\ \A r \in DOMAIN y.seen.roles : y.seen.roles[r] \in Names
      BY <1>5 DEF PassOK
    <2>3. DOMAIN y.seen.users \subseteq DOMAIN y.db.users \cup gone
      BY <1>1, <1>5, <1>7, <1>14
    <2>4. \A v \in DOMAIN y.seen.users : y.seen.users[v] \in UserRow(IdsIn(y.db))
      BY <1>4, <1>9, <1>14 DEF PassOK
    <2> QED
      BY <1>1, <1>5, <1>10, <1>11, <1>12, <1>13, <2>1, <2>2, <2>3, <2>4 DEF PassOK
  <1>16. StatusOK(d, loaded, y)
    <2>1. ASSUME NEW v \in DOMAIN d.users
          PROVE  /\ v \in DOMAIN y.db.users
                 /\ y.db.users[v].status # d.users[v].status => v \in DOMAIN loaded /\ loaded[v].status = "disabled"
      <3>1. v \in DOMAIN x.db.users /\ v \in IdsIn(d)
            /\ (x.db.users[v].status # d.users[v].status => v \in DOMAIN loaded /\ loaded[v].status = "disabled")
        BY TablesAre DEF StatusOK
      <3>2. CASE v # u
        BY <1>5, <1>7, <3>1, <3>2
      <3>3. CASE v = u
        <4>1. u \in DOMAIN loaded /\ x.seen.users[u].status \in {loaded[u].status, "active"}
          BY <3>1, <3>3 DEF StatusOK
        <4> QED
          BY <1>5, <1>7, <3>1, <3>3, <4>1
      <3> QED
        BY <3>2, <3>3
    <2>2. \A v \in DOMAIN y.seen.users \cap IdsIn(d) :
             v \in DOMAIN loaded /\ y.seen.users[v].status \in {loaded[v].status, "active"}
      BY <1>4, <1>14 DEF StatusOK
    <2> QED
      BY <2>1, <2>2 DEF StatusOK
  <1> QED
    BY <1>15, <1>16

\* A row of an import: its node and roles are made where they are missing, and then the
\* user is made, or updated.
LEMMA ImportRowKeeps ==
    ASSUME NEW d, NEW gone, NEW x, RowsTyped(d), gone \subseteq IdsIn(d), PassOK(d, gone, x),
           NEW loaded, StatusOK(d, loaded, x), \A u \in DOMAIN loaded : loaded[u].status \in {"active", "disabled"},
           NEW row, row.ref \in Refs, row.path \in Seq(Names), row.roles \in Seq(Names),
           NEW z, z = ImportRow(x, row)
    PROVE  PassOK(d, gone, z) /\ StatusOK(d, loaded, z)
  <1> DEFINE w == ResolveNodes(x, row.path)
             y == ResolveRoles(w, row.roles)
             node == SeenNode(y, row.path)
             roleIds == {SeenRole(y, name) : name \in Range(row.roles)}
             known == UserOf(y.seen, row.ref)
  <1>1. z = IF known = {} THEN ImportNew(y, row, node, roleIds)
            ELSE ImportKnown(y, CHOOSE u \in known : TRUE, node, roleIds)
    BY DEF ImportRow
  <1>2. PassOK(d, gone, w) /\ NodeAt(w.seen, row.path) # {} /\ SameUsers(x, w)
    BY ResolveNodesKeep
  <1>3. w = w /\ y = ResolveRoles(w, row.roles)
    OBVIOUS
  <1> HIDE DEF w, y
  <1>4. /\ PassOK(d, gone, y) /\ KnowsMore(w, y) /\ SameUsers(w, y)
        /\ \A name \in Range(row.roles) : RoleNamed(y.seen, name) # {}
    BY <1>2, <1>3, ResolveRolesKeep
  <1>5. NodeAt(y.seen, row.path) # {}
    BY <1>2, <1>4 DEF KnowsMore
  <1>6. node \in DOMAIN y.seen.nodes
    BY <1>5 DEF SeenNode, NodeAt
  <1>7. roleIds \in SUBSET DOMAIN y.seen.roles
    BY <1>4 DEF SeenRole, RoleNamed
  <1>8. StatusOK(d, loaded, y)
    <2>1. StatusOK(d, loaded, w)
      BY <1>2, SameUsersStatus
    <2> QED
      BY <1>4, <2>1, SameUsersStatus
  <1>9. known \subseteq DOMAIN y.seen.users
    BY DEF UserOf
  <1> DEFINE u == CHOOSE v \in known : TRUE
  <1>10. known # {} => u \in DOMAIN y.seen.users
    BY <1>9
  <1>11. z = IF known = {} THEN ImportNew(y, row, node, roleIds) ELSE ImportKnown(y, u, node, roleIds)
    BY <1>1
  <1> HIDE DEF node, roleIds, known, u
  <1>12. CASE known = {}
    <2>1. z = ImportNew(y, row, node, roleIds)
      BY <1>11, <1>12
    <2> QED
      BY <1>4, <1>6, <1>7, <1>8, <2>1, ImportNewKeeps
  <1>13. CASE known # {}
    <2>1. z = ImportKnown(y, u, node, roleIds)
      BY <1>11, <1>13
    <2> QED
      BY <1>4, <1>6, <1>7, <1>8, <1>10, <1>13, <2>1, ImportKnownKeeps
  <1> QED
    BY <1>12, <1>13

FileRows == Seq([ref: Refs, path: Seq(Names), roles: Seq(Names)])

\* What an import has read of the tables, some of it gone since.
ReadOK(d, gone, seen) ==
    /\ DOMAIN seen = {"nodes", "roles", "users"}
    /\ DOMAIN seen.nodes \subseteq DOMAIN d.nodes \cup gone
    /\ \A n \in DOMAIN seen.nodes : seen.nodes[n] \in NodeRow(IdsIn(d))
    /\ DOMAIN seen.roles \subseteq DOMAIN d.roles \cup gone
    /\ \A r \in DOMAIN seen.roles : seen.roles[r] \in Names
    /\ DOMAIN seen.users \subseteq DOMAIN d.users \cup gone
    /\ \A u \in DOMAIN seen.users : seen.users[u] \in UserRow(IdsIn(d))

LEMMA ImportKeeps ==
    ASSUME NEW d, RowsTyped(d), NEW gone \in SUBSET IdsIn(d), Refers(d, gone),
           NEW seen, ReadOK(d, gone, seen), NEW rows \in FileRows,
           NEW x, x = ExecuteImport(d, seen, rows)
    PROVE  \E y : PassOK(d, gone, y) /\ StatusOK(d, seen.users, y) /\ x.db = y.db
  <1> DEFINE n == Len(rows)
             loaded == seen.users
  <1>1. n \in Nat /\ \A i \in 1..n : /\ rows[i].ref \in Refs /\ rows[i].path \in Seq(Names)
                                     /\ rows[i].roles \in Seq(Names)
    <2> DEFINE Row == [ref: Refs, path: Seq(Names), roles: Seq(Names)]
    <2>1. \A r \in Row : r.ref \in Refs /\ r.path \in Seq(Names) /\ r.roles \in Seq(Names)
      OBVIOUS
    <2>2. rows \in Seq(Row)
      BY DEF FileRows
    <2> HIDE DEF Row
    <2>3. n \in Nat /\ \A i \in 1..n : rows[i] \in Row
      BY <2>2
    <2> QED
      BY <2>1, <2>3
  <1>2. \E g : /\ g[0] = Start(d, seen) /\ x = [g[n] EXCEPT !.failed = @ \/ ~Unique(g[n].db)]
               /\ \A i \in 1..n : g[i] = ImportRow(g[i - 1], rows[i])
    BY <1>1, ExecuteImportIs
  <1>3. PICK g : /\ g[0] = Start(d, seen) /\ x = [g[n] EXCEPT !.failed = @ \/ ~Unique(g[n].db)]
                 /\ \A i \in 1..n : g[i] = ImportRow(g[i - 1], rows[i])
    BY <1>2
  <1>4. \A u \in DOMAIN loaded : loaded[u].status \in {"active", "disabled"}
    BY UserRowIs DEF ReadOK
  <1> DEFINE P(i) == PassOK(d, gone, g[i]) /\ StatusOK(d, loaded, g[i])
             Good == {i \in Nat : i <= n => P(i)}
  <1> HIDE DEF n, loaded
  <1>5. 0 \in Good
    <2>1. NewIdsAreNew(d, d) /\ KeysGrow(d, d)
      BY DEF NewIdsAreNew, KeysGrow, RowsTyped
    <2>2. /\ DOMAIN g[0] = {"db", "seen", "failed", "nodes", "roles", "actions"}
          /\ g[0].db = d /\ g[0].seen = seen
      BY <1>3 DEF Start
    <2>3. PassOK(d, gone, g[0])
      BY <2>1, <2>2 DEF PassOK, ReadOK
    <2>4. StatusOK(d, loaded, g[0])
      BY <1>4, <2>2 DEF StatusOK, loaded
    <2> QED
      BY <2>3, <2>4
  <1>6. ASSUME NEW i \in Nat, i \in Good PROVE i + 1 \in Good
    <2> SUFFICES ASSUME i + 1 <= n PROVE P(i + 1)
      BY <1>1
    <2>1. P(i) /\ i + 1 \in 1..n /\ (i + 1) - 1 = i
      BY <1>1, <1>6
    <2> DEFINE row == rows[i + 1]
               here == g[i]
               then == g[i + 1]
    <2>2. then = ImportRow(here, row) /\ row.ref \in Refs /\ row.path \in Seq(Names) /\ row.roles \in Seq(Names)
      BY <1>1, <1>3, <2>1
    <2>3. PassOK(d, gone, here) /\ StatusOK(d, loaded, here)
      BY <2>1
    <2> HIDE DEF row, here, then
    <2>4. PassOK(d, gone, then) /\ StatusOK(d, loaded, then)
      BY <1>4, <2>2, <2>3, ImportRowKeeps
    <2> QED
      BY <2>4 DEF then
  <1>7. P(n)
    <2> HIDE DEF Good
    <2>1. n \in Good
      BY <1>1, <1>5, <1>6, NatInduct
    <2> QED
      BY <1>1, <2>1 DEF Good
  <1>8. x.db = g[n].db
    <2>1. DOMAIN g[n] = {"db", "seen", "failed", "nodes", "roles", "actions"}
      BY <1>7 DEF PassOK
    <2> QED
      BY <1>3, <2>1
  <1> QED
    BY <1>7, <1>8 DEF loaded

\* What an import under way commits, of the rows it read.
LEMMA ImportIs ==
    ASSUME DirectoryInv, NEW a \in Admin, Is(a, "import"), NEW x,
           x = ExecuteImport(db, [nodes |-> sess[a].nodes, roles |-> sess[a].roles, users |-> sess[a].users],
                             sess[a].rows)
    PROVE  \E y : PassOK(db, past.raced, y) /\ StatusOK(db, sess[a].users, y) /\ x.db = y.db
  <1> DEFINE s == sess[a]
             seen == [nodes |-> s.nodes, roles |-> s.roles, users |-> s.users]
             gone == past.raced
             d == db
             rows == s.rows
  <1>1. /\ InProgress(d, past, s) /\ s.op = "import" /\ RowsTyped(d) /\ Refers(d, gone) /\ gone \in SUBSET IdsIn(d)
        /\ Found(d, past, s, "select_nodes") /\ Found(d, past, s, "select_roles")
        /\ Found(d, past, s, "select_users")
    BY AtWrite DEF TablesTyped, StepNames
  <1>2. rows \in Batches /\ Batches \subseteq Seq([ref: Refs, path: Seq(Names), roles: Seq(Names)])
    BY <1>1, DirectoryAssumption DEF InProgress, AskedOK
  <1>3. rows \in FileRows
    BY <1>2 DEF FileRows
  <1>4. /\ DOMAIN seen.nodes \subseteq DOMAIN d.nodes \cup gone
        /\ \A n \in DOMAIN seen.nodes : seen.nodes[n] \in NodeRow(IdsIn(d))
    BY <1>1 DEF Found
  <1>5. /\ DOMAIN seen.roles \subseteq DOMAIN d.roles \cup gone
        /\ \A r \in DOMAIN seen.roles : seen.roles[r] \in Names
    BY <1>1 DEF Found
  <1>6. /\ DOMAIN seen.users \subseteq DOMAIN d.users \cup gone
        /\ \A u \in DOMAIN seen.users : seen.users[u] \in UserRow(IdsIn(d))
    BY <1>1 DEF Found
  <1>7. DOMAIN seen = {"nodes", "roles", "users"} /\ seen.users = sess[a].users
    OBVIOUS
  <1>8. x = ExecuteImport(d, seen, rows)
    OBVIOUS
  <1> HIDE DEF seen, gone, rows, d
  <1>9. \E y : PassOK(d, gone, y) /\ StatusOK(d, seen.users, y) /\ x.db = y.db
    <2>1. RowsTyped(d) /\ Refers(d, gone) /\ gone \in SUBSET IdsIn(d)
      BY <1>1
    <2>2. ReadOK(d, gone, seen)
      BY <1>4, <1>5, <1>6, <1>7 DEF ReadOK
    <2> QED
      BY ONLY <2>1, <2>2, <1>3, <1>8, ImportKeeps
  <1> QED
    BY <1>7, <1>9 DEF d, gone

LEMMA ImportStep ==
    ASSUME DirectoryInv, NEW a \in Admin, execute_excel_import(a)
    PROVE  DirectoryInv'
  <1> DEFINE s == sess[a]
             x == ExecuteImport(db, [nodes |-> s.nodes, roles |-> s.roles, users |-> s.users], s.rows)
  <1>1. Is(a, "import") /\ Write(a, x.failed, x.db) /\ At(a, "write")
    BY DEF execute_excel_import, Is
  <1>2. \E y : PassOK(db, past.raced, y) /\ StatusOK(db, s.users, y) /\ x.db = y.db
    BY <1>1, ImportIs
  <1>3. s.op = "import"
    BY <1>1 DEF Is
  <1> HIDE DEF x
  <1>4. RowsTyped(x.db) /\ NewIdsAreNew(db, x.db) /\ KeysGrow(db, x.db) /\ Refers(x.db, past.raced)
    BY <1>2 DEF PassOK
  <1>5. Changes(db, past, s, x.db)
    BY <1>3, <1>4, GrowsChanges
  <1> QED
    BY <1>1, <1>4, <1>5, NotedRefers, WriteKeeps

-----------------------------------------------------------------------------
(* A request begins. *)

RequestIs(r) ==
    /\ "op" \in DOMAIN r /\ r.op \in Ops
    /\ DOMAIN r \cap {"todo", "overtaken", "keysBefore", "below"} = {}

LEMMA RequestsAre ==
    ASSUME NEW gone, NEW r \in Requests
    PROVE  RequestIs(r) /\ AskedOK(db, gone, r)
  <1> DEFINE users == DOMAIN db.users
             nodes == DOMAIN db.nodes
             roles == DOMAIN db.roles
  <1>1. CASE r \in [op: {"create_user"}, ref: Refs, org: nodes \cup {Null}, roles: SUBSET roles]
    <2>1. /\ DOMAIN r = {"op", "ref", "org", "roles"} /\ r.op = "create_user"
          /\ r.ref \in Refs /\ r.org \in nodes \cup {Null} /\ r.roles \subseteq roles
      BY <1>1
    <2> QED
      BY <2>1 DEF RequestIs, AskedOK, Ops
  <1>2. CASE r \in [op: {"update_user"}, user: users, org: nodes \cup {Null, Keep},
                    roles: (SUBSET roles) \cup {Keep}, status: {"active", "disabled", Keep}]
    <2>1. /\ DOMAIN r = {"op", "user", "org", "roles", "status"} /\ r.op = "update_user"
          /\ r.user \in users /\ r.org \in nodes \cup {Null, Keep}
          /\ (r.roles = Keep \/ r.roles \subseteq roles) /\ r.status \in {"active", "disabled", Keep}
      BY <1>2
    <2> QED
      BY <2>1 DEF RequestIs, AskedOK, Ops
  <1>3. CASE r \in [op: {"delete_user", "reset_user_key"}, user: users]
    <2>1. DOMAIN r = {"op", "user"} /\ r.op \in {"delete_user", "reset_user_key"} /\ r.user \in users
      BY <1>3
    <2> QED
      BY <2>1 DEF RequestIs, AskedOK, Ops
  <1>4. CASE \/ r \in [op: {"create_role"}, name: Names]
             \/ r \in [op: {"update_role"}, role: roles, name: Names]
             \/ r \in [op: {"delete_role"}, role: roles]
    <2>1. /\ DOMAIN r \subseteq {"op", "role", "name"}
          /\ \/ r.op = "create_role" /\ {"op", "name"} \subseteq DOMAIN r /\ r.name \in Names
             \/ r.op = "update_role" /\ {"op", "role", "name"} \subseteq DOMAIN r /\ r.name \in Names
             \/ r.op = "delete_role" /\ {"op", "role"} \subseteq DOMAIN r
      BY <1>4
    <2> QED
      BY <2>1 DEF RequestIs, AskedOK, Ops
  <1>5. CASE r \in [op: {"update_api_key", "revoke_api_key"}, key: DOMAIN db.keys]
    <2>1. DOMAIN r = {"op", "key"} /\ r.op \in {"update_api_key", "revoke_api_key"}
      BY <1>5
    <2> QED
      BY <2>1 DEF RequestIs, AskedOK, Ops
  <1>6. CASE \/ r \in [op: {"create_org_node"}, name: Names, org: nodes \cup {Null}]
             \/ r \in [op: {"update_org_node"}, node: nodes, name: Names \cup {Keep},
                       org: nodes \cup {Null, Keep}]
             \/ r \in [op: {"delete_org_node"}, node: nodes]
    <2>1. /\ DOMAIN r \subseteq {"op", "node", "name", "org"}
          /\ \/ /\ r.op = "create_org_node" /\ {"op", "name", "org"} \subseteq DOMAIN r
                /\ r.name \in Names /\ r.org \in nodes \cup {Null}
             \/ /\ r.op = "update_org_node" /\ {"op", "node", "name", "org"} \subseteq DOMAIN r
                /\ r.name \in Names \cup {Keep} /\ r.org \in nodes \cup {Null, Keep}
             \/ r.op = "delete_org_node" /\ {"op", "node"} \subseteq DOMAIN r
      BY <1>6
    <2> QED
      BY <2>1 DEF RequestIs, AskedOK, Ops
  <1>7. CASE r \in [op: {"import"}, rows: Batches]
    <2>1. DOMAIN r = {"op", "rows"} /\ r.op = "import" /\ r.rows \in Batches
      BY <1>7
    <2> QED
      BY <2>1 DEF RequestIs, AskedOK, Ops
  <1> QED
    BY <1>1, <1>2, <1>3, <1>4, <1>5, <1>6, <1>7 DEF Requests

LEMMA AskedSame ==
    ASSUME NEW d, NEW gone, NEW r, NEW t, "op" \in DOMAIN r, AskedOK(d, gone, r),
           DOMAIN r \subseteq DOMAIN t, \A f \in DOMAIN r : t[f] = r[f]
    PROVE  AskedOK(d, gone, t)
  BY DEF AskedOK

\* A step that finds what the invariant says of it is one that every request of that
\* kind still has before it when it begins.
LEMMA NothingFoundYet ==
    ASSUME NEW d, NEW p, NEW t, t.op \in Ops, t.todo = Steps(t.op), NEW step \in StepNames, Done(t, step)
    PROVE  Found(d, p, t, step)
  <1> DEFINE In(name, op) == name \in Range(Steps(op))
  <1>1. In("select_user", "update_user")
    <2>1. Steps("update_user") = <<"require_org_node", "require_roles", "select_user", "write">>
      BY DEF Steps
    <2>2. Steps("update_user")[3] = "select_user" /\ 3 \in DOMAIN Steps("update_user")
      BY <2>1
    <2> QED
      BY <2>2 DEF Range
  <1>2. In("select_keys", "reset_user_key")
    <2>1. Steps("reset_user_key") = <<"select_user", "select_keys", "write">>
      BY DEF Steps
    <2>2. Steps("reset_user_key")[2] = "select_keys" /\ 2 \in DOMAIN Steps("reset_user_key")
      BY <2>1
    <2> QED
      BY <2>2 DEF Range
  <1>3. In("select_key", "update_api_key") /\ In("select_key", "revoke_api_key")
    <2>1. Steps("update_api_key") = <<"select_key", "write">> /\ Steps("revoke_api_key") = <<"select_key", "write">>
      BY DEF Steps
    <2>2. /\ Steps("update_api_key")[1] = "select_key" /\ 1 \in DOMAIN Steps("update_api_key")
          /\ Steps("revoke_api_key")[1] = "select_key" /\ 1 \in DOMAIN Steps("revoke_api_key")
      BY <2>1
    <2> QED
      BY <2>2 DEF Range
  <1>4. In("select_links", "delete_role")
    <2>1. Steps("delete_role") = <<"select_role", "select_links", "write">>
      BY DEF Steps
    <2>2. Steps("delete_role")[2] = "select_links" /\ 2 \in DOMAIN Steps("delete_role")
      BY <2>1
    <2> QED
      BY <2>2 DEF Range
  <1>5. In("select_children", "delete_org_node") /\ In("select_direct_users", "delete_org_node")
    <2>1. Steps("delete_org_node") = <<"select_node", "select_children", "select_direct_users", "write">>
      BY DEF Steps
    <2>2. /\ Steps("delete_org_node")[2] = "select_children" /\ 2 \in DOMAIN Steps("delete_org_node")
          /\ Steps("delete_org_node")[3] = "select_direct_users" /\ 3 \in DOMAIN Steps("delete_org_node")
      BY <2>1
    <2> QED
      BY <2>2 DEF Range
  <1>6. In("select_node", "update_org_node") /\ In("select_parent", "update_org_node")
    <2>1. Steps("update_org_node") = <<"require_org_node", "select_node", "select_parent",
                                       "walk", "select_descendants", "write">>
      BY DEF Steps
    <2>2. /\ Steps("update_org_node")[2] = "select_node" /\ 2 \in DOMAIN Steps("update_org_node")
          /\ Steps("update_org_node")[3] = "select_parent" /\ 3 \in DOMAIN Steps("update_org_node")
      BY <2>1
    <2> QED
      BY <2>2 DEF Range
  <1>7. In("select_parent", "create_org_node")
    <2>1. Steps("create_org_node") = <<"require_org_node", "select_parent", "write">>
      BY DEF Steps
    <2>2. Steps("create_org_node")[2] = "select_parent" /\ 2 \in DOMAIN Steps("create_org_node")
      BY <2>1
    <2> QED
      BY <2>2 DEF Range
  <1>8. In("select_nodes", "import") /\ In("select_roles", "import") /\ In("select_users", "import")
    <2>1. Steps("import") = <<"select_nodes", "select_roles", "select_users", "write">>
      BY DEF Steps
    <2>2. /\ Steps("import")[1] = "select_nodes" /\ 1 \in DOMAIN Steps("import")
          /\ Steps("import")[2] = "select_roles" /\ 2 \in DOMAIN Steps("import")
          /\ Steps("import")[3] = "select_users" /\ 3 \in DOMAIN Steps("import")
      BY <2>1
    <2> QED
      BY <2>2 DEF Range
  <1>9. ~In(step, t.op)
    BY DEF Done
  <1> HIDE DEF In
  <1> QED
    BY <1>1, <1>2, <1>3, <1>4, <1>5, <1>6, <1>7, <1>8, <1>9 DEF Found

LEMMA BeginStep ==
    ASSUME DirectoryInv, NEW a \in Admin, Begin(a)
    PROVE  DirectoryInv'
  <1>1. PICK r \in Requests :
          sess' = [sess EXCEPT ![a] =
                [ todo |-> Steps(r.op), overtaken |-> FALSE,
                  keysBefore |-> IF r.op = "reset_user_key" THEN RuntimeKeys(db, r.user) ELSE {} ] ++ r]
    BY DEF Begin
  <1>2. db' = db /\ past' = past
    BY DEF Begin
  <1> DEFINE before == IF r.op = "reset_user_key" THEN RuntimeKeys(db, r.user) ELSE {}
             t == [todo |-> Steps(r.op), overtaken |-> FALSE, keysBefore |-> before] ++ r
  <1>3. RequestIs(r) /\ AskedOK(db, past.raced, r)
    BY RequestsAre
  <1>4. /\ DOMAIN t = {"todo", "overtaken", "keysBefore"} \cup DOMAIN r
        /\ \A f \in DOMAIN r : t[f] = r[f]
        /\ t.todo = Steps(r.op) /\ t.overtaken = FALSE /\ t.keysBefore = before
    <2>1. DOMAIN r \cap {"todo", "overtaken", "keysBefore"} = {}
      BY <1>3 DEF RequestIs
    <2> HIDE DEF before
    <2> QED
      BY <2>1 DEF ++
  <1>5. sess' = [sess EXCEPT ![a] = t]
    BY <1>1
  <1>6. /\ before \subseteq IdsIn(db)
        /\ r.op = "reset_user_key" => \A k \in before : db.keys[k].user = r.user
    <2>1. RowsTyped(db)
      BY DEF DirectoryInv, TablesOK, TablesTyped
    <2>2. \A k \in RuntimeKeys(db, r.user) : k \in DOMAIN db.keys /\ db.keys[k].user = r.user
      BY <2>1, RuntimeKeysAre
    <2> QED
      BY <2>1, <2>2, TablesAre
  <1> HIDE DEF t, before
  <1>7. t.op = r.op /\ t.op \in Ops /\ {"op", "todo", "overtaken", "keysBefore"} \subseteq DOMAIN t /\ "below" \notin DOMAIN t
    BY <1>3, <1>4 DEF RequestIs
  <1>8. t.todo \in Seq(StepNames) \ {<<>>} /\ IsSuffix(t.todo, Steps(t.op))
    <2>1. StepsOK(Steps(t.op)) /\ t.todo = Steps(t.op)
      BY <1>4, <1>7, StepsAre
    <2>2. t.todo \in Seq(StepNames) \ {<<>>}
      BY <2>1 DEF StepsOK
    <2> QED
      BY <2>1, <2>2, SuffixIs
  <1>9. AskedOK(db, past.raced, t)
    BY <1>3, <1>4, AskedSame DEF RequestIs
  <1>10. KeysBeforeOK(db, t) /\ BelowOK(db, t)
    <2>1. r.op = "reset_user_key" => t.user = r.user
      BY <1>3, <1>4 DEF AskedOK
    <2> QED
      BY <1>4, <1>6, <1>7, <2>1 DEF KeysBeforeOK, BelowOK
  <1>11. \A step \in StepNames : Done(t, step) => Found(db, past, t, step)
    BY <1>4, <1>7, NothingFoundYet
  <1>12. InProgress(db, past, t)
    BY <1>4, <1>7, <1>8, <1>9, <1>10, <1>11 DEF InProgress
  <1> QED
    BY <1>2, <1>5, <1>12 DEF DirectoryInv

LEMMA WritesKeep ==
    ASSUME DirectoryInv, NEW a \in Admin, Writes(a)
    PROVE  DirectoryInv'
  <1>1. CASE update_api_key(a) \/ revoke_api_key(a)
    BY <1>1, EditKeyStep
  <1> QED
    BY <1>1, CreateUserStep, UpdateUserStep, DeleteUserStep, ResetKeyStep, CreateRoleStep, UpdateRoleStep,
       DeleteRoleStep, CreateNodeStep, UpdateNodeStep, DeleteNodeStep, ImportStep DEF Writes

-----------------------------------------------------------------------------
(* The invariant. *)

LEMMA OneByOne ==
    ASSUME NEW S, IsFiniteSet(S)
    PROVE  Cardinality(S) <= 1 <=> \A x, y \in S : x = y
  <1>1. ASSUME NEW x \in S, NEW y \in S, x # y PROVE Cardinality(S) > 1
    <2>1. IsFiniteSet({x}) /\ Cardinality({x}) = 1
      BY FS_Singleton
    <2>2. Cardinality({x} \cup {y}) = 2
      BY <1>1, <2>1, FS_AddElement
    <2>3. {x} \cup {y} \in SUBSET S
      OBVIOUS
    <2>4. Cardinality({x} \cup {y}) <= Cardinality(S)
      BY <2>3, FS_Subset
    <2>5. Cardinality(S) \in Nat
      BY FS_CardinalityType
    <2> QED
      BY <2>2, <2>4, <2>5
  <1>2. ASSUME \A x, y \in S : x = y PROVE Cardinality(S) <= 1
    <2>1. CASE S = {}
      BY <2>1, FS_EmptySet
    <2>2. CASE S # {}
      <3>1. PICK x \in S : S = {x}
        BY <1>2, <2>2
      <3> QED
        BY <3>1, FS_Singleton
    <2> QED
      BY <2>1, <2>2
  <1>3. Cardinality(S) \in Nat
    BY FS_CardinalityType
  <1> QED
    BY <1>1, <1>2, <1>3

LEMMA FewKeys ==
    ASSUME NEW d, RowsTyped(d), NEW u
    PROVE  IsFiniteSet(RuntimeKeys(d, u))
  <1>1. IsFiniteSet(IdsIn(d))
    BY FS_Interval DEF IdsIn, RowsTyped
  <1>2. RuntimeKeys(d, u) \in SUBSET IdsIn(d)
    BY TablesAre DEF RuntimeKeys
  <1> QED
    BY <1>1, <1>2, FS_Subset

LEMMA DirectoryInit == Init => DirectoryInv
  <1> SUFFICES ASSUME Init PROVE DirectoryInv
    OBVIOUS
  <1>1. /\ db \in Seeds /\ sess = [a \in Admin |-> NoRequest]
        /\ past.retired = {} /\ past.clashes = {} /\ past.raced = {}
        /\ DOMAIN past = {"retired", "clashes", "raced", "upset", "roots"}
    BY DEF Init
  <1>2. TablesTyped(db) /\ Refers(db, {}) /\ \A u \in DOMAIN db.users : Cardinality(RuntimeKeys(db, u)) <= 1
    BY <1>1, DirectoryAssumption
  <1>3. \A u \in DOMAIN db.users : OneKey(db, u)
    BY <1>2, OneByOne, FewKeys DEF OneKey, TablesTyped
  <1>4. TablesOK(db, past)
    BY <1>1, <1>2, <1>3 DEF TablesOK
  <1> QED
    BY <1>1, <1>4 DEF DirectoryInv

\* What holds of every state of the directory.
THEOREM DirectoryInvHolds == Spec => []DirectoryInv
  <1>1. ASSUME DirectoryInv, [Next]_vars PROVE DirectoryInv'
    <2>1. CASE Next
      BY <1>1, <2>1, BeginStep, ReadsKeep, WritesKeep DEF Next
    <2>2. CASE UNCHANGED vars
      BY <1>1, <2>2 DEF vars, DirectoryInv
    <2> QED
      BY <1>1, <2>1, <2>2
  <1> QED
    BY <1>1, DirectoryInit, PTL DEF Spec

\* Tables typed, unique constraints kept, requests running through their steps
\* (console.py, directory_service.py, pipeline.py): whatever admins do at once.
THEOREM TypeOKHolds == Spec => []TypeOK
  <1>1. DirectoryInv => TypeOK
    <2> SUFFICES ASSUME DirectoryInv PROVE TypeOK
      OBVIOUS
    <2>1. \A a \in Admin : Busy(a) => IsSuffix(sess[a].todo, Steps(sess[a].op))
      BY DEF DirectoryInv, InProgress, Busy, NoRequest
    <2> QED
      BY <2>1 DEF TypeOK, DirectoryInv, TablesOK
  <1> QED
    BY <1>1, DirectoryInvHolds, PTL

\* A reset key never works again (reset_runtime_key, directory_service.py:107), whatever
\* edits and revocations of keys were under way while it was reset.
THEOREM RetiredKeysStayRetiredHolds == Spec => []RetiredKeysStayRetired
  <1>1. DirectoryInv => RetiredKeysStayRetired
    BY DEF DirectoryInv, TablesOK, RetiredKeysStayRetired, Usable
  <1> QED
    BY <1>1, DirectoryInvHolds, PTL

\* One active runtime key a user (create_user, reset_runtime_key, execute_excel_import),
\* unless two resets of his met.
THEOREM OneKeyUnlessResetsMeetHolds == Spec => []OneKeyUnlessResetsMeet
  <1>1. DirectoryInv => OneKeyUnlessResetsMeet
    <2> SUFFICES ASSUME DirectoryInv, NEW u \in DOMAIN db.users \ past.clashes
                 PROVE  Cardinality(RuntimeKeys(db, u)) <= 1
      BY DEF OneKeyUnlessResetsMeet
    <2>1. IsFiniteSet(RuntimeKeys(db, u))
      BY FewKeys DEF DirectoryInv, TablesOK, TablesTyped
    <2>2. \A k, l \in RuntimeKeys(db, u) : k = l
      BY DEF DirectoryInv, TablesOK, OneKey
    <2> QED
      BY <2>1, <2>2, OneByOne
  <1> QED
    BY <1>1, DirectoryInvHolds, PTL

\* No link, key, membership or parent dangles without a foreign key being enforced, but for
\* rows deleted by requests that overlapped (delete_user, delete_role, delete_org_node).
THEOREM ReferencesHoldAlways == Spec => []ReferencesHold
  <1>1. DirectoryInv => ReferencesHold
    BY DEF DirectoryInv, TablesOK, ReferencesHold
  <1> QED
    BY <1>1, DirectoryInvHolds, PTL

\* An import (execute_excel_import, pipeline.py) enables only users it saw disabled, and
\* leaves the keys of those who were there.
THEOREM ImportTouchesOnlyWhatItSawHolds == Spec => ImportTouchesOnlyWhatItSaw
  <1> DEFINE Touches ==
        \A a \in Admin :
          execute_excel_import(a) =>
            \A u \in DOMAIN db.users :
                /\ db'.users[u].status # db.users[u].status => sess[a].users[u].status = "disabled"
                /\ RuntimeKeys(db', u) = RuntimeKeys(db, u)
  <1>1. DirectoryInv /\ [Next]_vars => [Touches]_vars
    <2> SUFFICES ASSUME DirectoryInv, NEW a \in Admin, execute_excel_import(a), NEW u \in DOMAIN db.users
                 PROVE  /\ db'.users[u].status # db.users[u].status => sess[a].users[u].status = "disabled"
                        /\ RuntimeKeys(db', u) = RuntimeKeys(db, u)
      OBVIOUS
    <2> DEFINE s == sess[a]
               x == ExecuteImport(db, [nodes |-> s.nodes, roles |-> s.roles, users |-> s.users], s.rows)
    <2>1. Is(a, "import") /\ Write(a, x.failed, x.db)
      BY DEF execute_excel_import
    <2>2. \E y : PassOK(db, past.raced, y) /\ StatusOK(db, s.users, y) /\ x.db = y.db
      BY <2>1, ImportIs
    <2> HIDE DEF x
    <2>3. db' = db \/ db' = x.db
      BY <2>1 DEF Write, Refuse, Commit
    <2>4. CASE db' = db
      BY <2>4
    <2>5. CASE db' = x.db
      <3>1. PICK y : PassOK(db, past.raced, y) /\ StatusOK(db, s.users, y) /\ x.db = y.db
        BY <2>2
      <3>2. db'.users[u].status # db.users[u].status => s.users[u].status = "disabled"
        BY <2>5, <3>1 DEF StatusOK
      <3>3. KeysGrow(db, db') /\ RowsTyped(db') /\ RowsTyped(db)
        BY <2>5, <3>1 DEF PassOK, DirectoryInv, TablesOK, TablesTyped
      <3>4. u \in IdsIn(db)
        BY <3>3, TablesAre
      <3>5. \A k : k \in RuntimeKeys(db', u) <=> k \in RuntimeKeys(db, u)
        <4> DEFINE new == db'
        <4>1. RowsTyped(new) /\ RowsTyped(db) /\ KeysGrow(db, new)
          BY <3>3
        <4> HIDE DEF new
        <4> SUFFICES ASSUME NEW k PROVE k \in RuntimeKeys(new, u) <=> k \in RuntimeKeys(db, u)
          BY DEF new
        <4>2. k \in RuntimeKeys(new, u) <=> k \in DOMAIN new.keys /\ new.keys[k].user = u /\ Usable(new, k)
          BY <4>1, RuntimeKeysAre
        <4>3. k \in RuntimeKeys(db, u) <=> k \in DOMAIN db.keys /\ db.keys[k].user = u /\ Usable(db, k)
          BY <4>1, RuntimeKeysAre
        <4> QED
          BY <3>4, <4>1, <4>2, <4>3 DEF KeysGrow, Usable
      <3> QED
        BY <3>2, <3>5 DEF RuntimeKeys
    <2> QED
      BY <2>3, <2>4, <2>5
  <1> QED
    BY <1>1, DirectoryInvHolds, PTL DEF Spec, ImportTouchesOnlyWhatItSaw

-----------------------------------------------------------------------------
(* An import on the tables it was previewed on.                            *)

PathsOf(d) == {d.nodes[n].path : n \in DOMAIN d.nodes}
NamesOf(d) == {d.roles[r] : r \in DOMAIN d.roles}
RefsOf(d) == {d.users[u].ref : u \in DOMAIN d.users}

\* An import in the middle of its rows that knows the tables as they are.
Synced(x) ==
    /\ DOMAIN x = {"db", "seen", "failed", "nodes", "roles", "actions"}
    /\ {"nodes", "roles", "users"} \subseteq DOMAIN x.seen
    /\ x.seen.nodes = x.db.nodes /\ x.seen.roles = x.db.roles /\ x.seen.users = x.db.users
    /\ TablesTyped(x.db) /\ ~x.failed
    /\ x.nodes \in Seq(Seq(Names)) /\ x.roles \in Seq(Names) /\ x.actions \in Seq({"create", "update"})

\* The nodes and roles that were there are there.
Extends(d, e) ==
    /\ DOMAIN d.nodes \subseteq DOMAIN e.nodes /\ \A n \in DOMAIN d.nodes : e.nodes[n] = d.nodes[n]
    /\ DOMAIN d.roles \subseteq DOMAIN e.roles /\ \A r \in DOMAIN d.roles : e.roles[r] = d.roles[r]

\* From x to y the nodes at paths that were missing have been made, and nothing else.
MadeNodes(x, y, paths) ==
    /\ Extends(x.db, y.db) /\ PathsOf(y.db) = PathsOf(x.db) \cup paths
    /\ Range(y.nodes) = Range(x.nodes) \cup (paths \ PathsOf(x.db))
    /\ y.roles = x.roles /\ y.actions = x.actions
    /\ y.db.users = x.db.users /\ y.db.roles = x.db.roles /\ y.db.keys = x.db.keys /\ y.db.links = x.db.links
    /\ paths \subseteq PathsOf(x.db) => y = x

\* The same of roles.
MadeRoles(x, y, names) ==
    /\ Extends(x.db, y.db) /\ NamesOf(y.db) = NamesOf(x.db) \cup names
    /\ Range(y.roles) = Range(x.roles) \cup (names \ NamesOf(x.db))
    /\ y.nodes = x.nodes /\ y.actions = x.actions
    /\ y.db.users = x.db.users /\ y.db.nodes = x.db.nodes /\ y.db.keys = x.db.keys /\ y.db.links = x.db.links
    /\ names \subseteq NamesOf(x.db) => y = x

\* One more member.
LEMMA AppendedRange ==
    ASSUME NEW T, NEW s \in Seq(T), NEW e \in T
    PROVE  Append(s, e) \in Seq(T) /\ Range(Append(s, e)) = Range(s) \cup {e}
  <1> DEFINE t == Append(s, e)
  <1>1. /\ t \in Seq(T) /\ Len(s) \in Nat /\ Len(t) = Len(s) + 1 /\ t[Len(s) + 1] = e
        /\ \A i \in 1..Len(s) : t[i] = s[i]
    OBVIOUS
  <1>2. DOMAIN s = 1..Len(s) /\ DOMAIN t = 1..Len(t)
    BY <1>1
  <1> HIDE DEF t
  <1>3. \A i \in 1..Len(t) : i \in 1..Len(s) \/ i = Len(t)
    BY <1>1
  <1>4. Range(t) \subseteq Range(s) \cup {e}
    BY <1>1, <1>2, <1>3 DEF Range
  <1>5. Range(s) \subseteq Range(t)
    <2>1. \A i \in 1..Len(s) : i \in 1..Len(t)
      BY <1>1
    <2> QED
      BY <1>1, <1>2, <2>1 DEF Range
  <1>6. e \in Range(t)
    <2>1. Len(t) \in 1..Len(t) /\ t[Len(t)] = e
      BY <1>1
    <2> QED
      BY <1>2, <2>1 DEF Range
  <1> QED
    BY <1>1, <1>4, <1>5, <1>6 DEF t

\* No reference is to be found anywhere but among the ids.
LEMMA RefersToIds ==
    ASSUME NEW d, RowsTyped(d)
    PROVE  Refers(d, IdsIn(d))
  <1>1. /\ d.links \subseteq IdsIn(d) \X IdsIn(d)
        /\ \A u \in DOMAIN d.users : d.users[u].node \in IdsIn(d) \cup {Null}
        /\ \A n \in DOMAIN d.nodes : d.nodes[n].parent \in IdsIn(d) \cup {Null}
        /\ \A k \in DOMAIN d.keys : d.keys[k].user \in IdsIn(d)
    <2>1. \A u \in DOMAIN d.users : d.users[u].node \in IdsIn(d) \cup {Null}
      BY UserRowIs DEF RowsTyped
    <2>2. \A n \in DOMAIN d.nodes : d.nodes[n].parent \in IdsIn(d) \cup {Null}
      BY DEF RowsTyped, NodeRow
    <2>3. \A k \in DOMAIN d.keys : d.keys[k].user \in IdsIn(d)
      BY DEF RowsTyped, KeyRow
    <2> QED
      BY <2>1, <2>2, <2>3 DEF RowsTyped
  <1>2. \A p \in d.links : p[1] \in IdsIn(d) /\ p[2] \in IdsIn(d)
    BY <1>1
  <1> QED
    BY <1>1, <1>2 DEF Refers

\* A node of a path (ResolveNode) is made if it was missing.
LEMMA NodeIsMade ==
    ASSUME NEW x, Synced(x), NEW path \in Seq(Names), Len(path) >= 2 => NodeAt(x.seen, Front(path)) # {},
           NEW y, y = ResolveNode(x, path)
    PROVE  Synced(y) /\ MadeNodes(x, y, {path})
  <1>1. NodeAt(x.seen, path) = NodeAt(x.db, path)
    BY DEF NodeAt, Synced
  <1>2. NodeAt(x.db, path) = {} <=> path \notin PathsOf(x.db)
    BY DEF NodeAt, PathsOf
  <1>3. CASE NodeAt(x.seen, path) # {}
    <2>1. y = x /\ path \in PathsOf(x.db)
      BY <1>1, <1>2, <1>3 DEF ResolveNode
    <2> QED
      BY <2>1 DEF MadeNodes, Extends
  <1>4. CASE NodeAt(x.seen, path) = {}
    <2> DEFINE name == IF path = <<>> THEN RootName ELSE Last(path)
               parent == IF Len(path) < 2 THEN Null ELSE SeenNode(x, Front(path))
               db1 == WithNode(x.db, name, parent, path)
               id == x.db.next
               row == db1.nodes[id]
               rec == [name |-> name, parent |-> parent, path |-> path]
    <2>1. y = [x EXCEPT !.db = db1, !.seen.nodes = Single(id, row) ++ @, !.nodes = Append(@, path)]
      BY <1>4 DEF ResolveNode
    <2>2. /\ DOMAIN x = {"db", "seen", "failed", "nodes", "roles", "actions"}
          /\ {"nodes", "roles", "users"} \subseteq DOMAIN x.seen
          /\ x.seen.nodes = x.db.nodes /\ x.seen.roles = x.db.roles /\ x.seen.users = x.db.users
          /\ RowsTyped(x.db) /\ Unique(x.db)
      BY DEF Synced, TablesTyped
    <2>3. name \in Segment /\ path \in Seq(Segment)
      <3>1. path # <<>> => path[Len(path)] \in Names
        OBVIOUS
      <3>2. \A i \in 1..Len(path) : path[i] \in Segment
        BY DEF Segment
      <3>3. path \in Seq(Segment)
        BY <3>2
      <3> QED
        BY <3>1, <3>3 DEF Last, Segment
    <2>4. parent \in IdsIn(x.db) \cup {Null} /\ id \in Nat /\ id \notin IdsIn(x.db) /\ DOMAIN x.db.nodes \subseteq IdsIn(x.db)
      <3>1. Len(path) \in Nat
        OBVIOUS
      <3>2. Len(path) >= 2 => SeenNode(x, Front(path)) \in NodeAt(x.seen, Front(path))
        BY DEF SeenNode
      <3>3. Len(path) >= 2 => SeenNode(x, Front(path)) \in DOMAIN x.db.nodes
        BY <2>2, <3>2 DEF NodeAt
      <3>4. id \in Nat /\ id \notin IdsIn(x.db)
        BY <2>2 DEF RowsTyped, IdsIn
      <3> QED
        BY <2>2, <3>1, <3>3, <3>4, TablesAre
    <2>5. db1 = WithNode(x.db, name, parent, path)
      OBVIOUS
    <2>6. db1.nodes = Single(id, rec) ++ x.db.nodes
      BY <2>2 DEF WithNode, RowsTyped
    <2> HIDE DEF db1, row, name, parent, id
    <2>7. RowsTyped(db1)
      <3>1. RowsTyped(x.db) /\ Refers(x.db, IdsIn(x.db)) /\ parent \in DOMAIN x.db.nodes \cup IdsIn(x.db) \cup {Null}
        BY <2>2, <2>4, RefersToIds
      <3> QED
        BY ONLY <2>3, <2>4, <2>5, <3>1, WithNodeKeeps
    <2>8. /\ DOMAIN db1 = DOMAIN x.db /\ db1.next = x.db.next + 1
          /\ db1.users = x.db.users /\ db1.roles = x.db.roles /\ db1.keys = x.db.keys /\ db1.links = x.db.links
          /\ DOMAIN db1.nodes = DOMAIN x.db.nodes \cup {x.db.next}
          /\ db1.nodes[x.db.next] = rec
          /\ \A n \in DOMAIN x.db.nodes : db1.nodes[n] = x.db.nodes[n]
      BY ONLY <2>2, <2>5, WithNodeIs
    <2>9. row = rec /\ rec.path = path
      BY <2>8 DEF row, id
    <2> HIDE DEF rec
    <2>10. /\ DOMAIN y = DOMAIN x /\ y.db = db1 /\ DOMAIN y.seen = DOMAIN x.seen
           /\ y.seen.nodes = Single(id, row) ++ x.seen.nodes
           /\ y.seen.roles = x.seen.roles /\ y.seen.users = x.seen.users
           /\ y.nodes = Append(x.nodes, path) /\ y.roles = x.roles /\ y.actions = x.actions
      BY <2>1, <2>2
    <2>11. y.failed <=> x.failed
      BY <2>1, <2>2, Zenon
    <2>12. PathsOf(db1) = PathsOf(x.db) \cup {path}
      BY <2>8, <2>9 DEF PathsOf
    <2>13. Unique(db1)
      <3>1. \A n \in DOMAIN x.db.nodes : x.db.nodes[n].path # path
        BY <1>1, <1>4 DEF NodeAt
      <3>2. ASSUME NEW m \in DOMAIN db1.nodes, NEW n \in DOMAIN db1.nodes, db1.nodes[m].path = db1.nodes[n].path
            PROVE  m = n
        <4>1. m = x.db.next \/ m \in DOMAIN x.db.nodes
          BY <2>8
        <4>2. n = x.db.next \/ n \in DOMAIN x.db.nodes
          BY <2>8
        <4> QED
          BY <2>2, <2>8, <2>9, <3>1, <3>2, <4>1, <4>2 DEF Unique
      <3> QED
        BY <2>2, <2>8, <3>2 DEF Unique
    <2>14. y.nodes \in Seq(Seq(Names)) /\ Range(y.nodes) = Range(x.nodes) \cup {path}
      BY <2>10, AppendedRange DEF Synced
    <2>15. Synced(y)
      <3>1. y.seen.nodes = db1.nodes /\ y.seen.roles = db1.roles /\ y.seen.users = db1.users
        BY <2>2, <2>6, <2>8, <2>9, <2>10
      <3>2. x.roles \in Seq(Names) /\ x.actions \in Seq({"create", "update"}) /\ ~x.failed
        BY DEF Synced
      <3> QED
        BY <2>2, <2>7, <2>10, <2>11, <2>13, <2>14, <3>1, <3>2 DEF Synced, TablesTyped
    <2>16. MadeNodes(x, y, {path})
      BY <1>1, <1>2, <1>4, <2>8, <2>10, <2>12, <2>14 DEF MadeNodes, Extends
    <2> QED
      BY <2>15, <2>16
  <1> QED
    BY <1>3, <1>4

\* A role of a row (ResolveRole) is made if it was missing.
LEMMA RoleIsMade ==
    ASSUME NEW x, Synced(x), NEW name \in Names, NEW y, y = ResolveRole(x, name)
    PROVE  Synced(y) /\ MadeRoles(x, y, {name})
  <1>1. RoleNamed(x.seen, name) = RoleNamed(x.db, name)
    BY DEF RoleNamed, Synced
  <1>2. RoleNamed(x.db, name) = {} <=> name \notin NamesOf(x.db)
    BY DEF RoleNamed, NamesOf
  <1>3. CASE RoleNamed(x.seen, name) # {}
    <2>1. y = x /\ name \in NamesOf(x.db)
      BY <1>1, <1>2, <1>3 DEF ResolveRole
    <2> QED
      BY <2>1 DEF MadeRoles, Extends
  <1>4. CASE RoleNamed(x.seen, name) = {}
    <2> DEFINE db1 == WithRole(x.db, name)
               id == x.db.next
    <2>1. y = [x EXCEPT !.db = db1, !.seen.roles = Single(id, name) ++ @, !.roles = Append(@, name)]
      BY <1>4 DEF ResolveRole
    <2>2. /\ DOMAIN x = {"db", "seen", "failed", "nodes", "roles", "actions"}
          /\ {"nodes", "roles", "users"} \subseteq DOMAIN x.seen
          /\ x.seen.nodes = x.db.nodes /\ x.seen.roles = x.db.roles /\ x.seen.users = x.db.users
          /\ RowsTyped(x.db) /\ Unique(x.db)
      BY DEF Synced, TablesTyped
    <2>4. id \in Nat /\ id \notin IdsIn(x.db) /\ DOMAIN x.db.roles \subseteq IdsIn(x.db)
      <3>1. DOMAIN x.db.roles \subseteq IdsIn(x.db)
        BY <2>2, TablesAre
      <3>2. x.db.next \in Nat \ {0}
        BY <2>2 DEF RowsTyped
      <3> QED
        BY <3>1, <3>2 DEF IdsIn
    <2>5. db1 = WithRole(x.db, name)
      OBVIOUS
    <2>6. db1.roles = Single(id, name) ++ x.db.roles
      BY <2>2 DEF WithRole, RowsTyped
    <2> HIDE DEF db1, id
    <2>7. RowsTyped(db1)
      <3>1. RowsTyped(x.db) /\ Refers(x.db, IdsIn(x.db)) /\ name \in Names
        BY <2>2, RefersToIds
      <3> QED
        BY ONLY <2>5, <3>1, WithRoleKeeps
    <2>8. /\ DOMAIN db1 = DOMAIN x.db /\ db1.next = x.db.next + 1
          /\ db1.users = x.db.users /\ db1.nodes = x.db.nodes /\ db1.keys = x.db.keys /\ db1.links = x.db.links
          /\ DOMAIN db1.roles = DOMAIN x.db.roles \cup {x.db.next} /\ db1.roles[x.db.next] = name
          /\ \A r \in DOMAIN x.db.roles : db1.roles[r] = x.db.roles[r]
      BY ONLY <2>2, <2>5, WithRoleIs
    <2>10. /\ DOMAIN y = DOMAIN x /\ y.db = db1 /\ DOMAIN y.seen = DOMAIN x.seen
           /\ y.seen.roles = Single(id, name) ++ x.seen.roles
           /\ y.seen.nodes = x.seen.nodes /\ y.seen.users = x.seen.users
           /\ y.roles = Append(x.roles, name) /\ y.nodes = x.nodes /\ y.actions = x.actions
      BY <2>1, <2>2
    <2>11. y.failed <=> x.failed
      BY <2>1, <2>2, Zenon
    <2>12. NamesOf(db1) = NamesOf(x.db) \cup {name}
      BY <2>8 DEF NamesOf
    <2>13. Unique(db1)
      <3>1. \A r \in DOMAIN x.db.roles : x.db.roles[r] # name
        BY <1>1, <1>4 DEF RoleNamed
      <3>2. ASSUME NEW m \in DOMAIN db1.roles, NEW n \in DOMAIN db1.roles, db1.roles[m] = db1.roles[n]
            PROVE  m = n
        <4>1. m = x.db.next \/ m \in DOMAIN x.db.roles
          BY <2>8
        <4>2. n = x.db.next \/ n \in DOMAIN x.db.roles
          BY <2>8
        <4> QED
          BY <2>2, <2>8, <3>1, <3>2, <4>1, <4>2 DEF Unique
      <3> QED
        BY <2>2, <2>8, <3>2 DEF Unique
    <2>14. y.roles \in Seq(Names) /\ Range(y.roles) = Range(x.roles) \cup {name}
      BY <2>10, AppendedRange DEF Synced
    <2>15. Synced(y)
      <3>1. y.seen.nodes = db1.nodes /\ y.seen.roles = db1.roles /\ y.seen.users = db1.users
        BY <2>2, <2>6, <2>8, <2>10
      <3>2. x.nodes \in Seq(Seq(Names)) /\ x.actions \in Seq({"create", "update"}) /\ ~x.failed
        BY DEF Synced
      <3> QED
        BY <2>2, <2>7, <2>10, <2>11, <2>13, <2>14, <3>1, <3>2 DEF Synced, TablesTyped
    <2>16. MadeRoles(x, y, {name})
      BY <1>1, <1>2, <1>4, <2>8, <2>10, <2>12, <2>14 DEF MadeRoles, Extends
    <2> QED
      BY <2>15, <2>16
  <1> QED
    BY <1>3, <1>4

\* Tables grow from one to the next.
LEMMA ExtendsChain ==
    ASSUME NEW d, NEW e, NEW f, Extends(d, e), Extends(e, f)
    PROVE  Extends(d, f)
  BY DEF Extends

\* What is made in two steps is made.
LEMMA NodesChain ==
    ASSUME NEW x, NEW y, NEW z, NEW P, NEW Q, MadeNodes(x, y, P), MadeNodes(y, z, Q)
    PROVE  MadeNodes(x, z, P \cup Q)
  <1>1. Extends(x.db, z.db)
    BY ExtendsChain DEF MadeNodes
  <1>2. PathsOf(z.db) = PathsOf(x.db) \cup (P \cup Q)
    BY DEF MadeNodes
  <1>3. Range(z.nodes) = Range(x.nodes) \cup ((P \cup Q) \ PathsOf(x.db))
    BY DEF MadeNodes
  <1>4. P \cup Q \subseteq PathsOf(x.db) => z = x
    BY DEF MadeNodes
  <1> QED
    BY <1>1, <1>2, <1>3, <1>4 DEF MadeNodes

\* The same of roles.
LEMMA RolesChain ==
    ASSUME NEW x, NEW y, NEW z, NEW P, NEW Q, MadeRoles(x, y, P), MadeRoles(y, z, Q)
    PROVE  MadeRoles(x, z, P \cup Q)
  <1>1. Extends(x.db, z.db)
    BY ExtendsChain DEF MadeRoles
  <1>2. NamesOf(z.db) = NamesOf(x.db) \cup (P \cup Q)
    BY DEF MadeRoles
  <1>3. Range(z.roles) = Range(x.roles) \cup ((P \cup Q) \ NamesOf(x.db))
    BY DEF MadeRoles
  <1>4. P \cup Q \subseteq NamesOf(x.db) => z = x
    BY DEF MadeRoles
  <1> QED
    BY <1>1, <1>2, <1>3, <1>4 DEF MadeRoles

\* The members of a sequence up to the one at i.
Upto(s, i) == {s[j] : j \in 1..i}

\* Members are met one by one.
LEMMA UptoNext ==
    ASSUME NEW s, NEW i \in Nat
    PROVE  Upto(s, 0) = {} /\ Upto(s, i + 1) = Upto(s, i) \cup {s[i + 1]}
  <1>1. 1..0 = {} /\ 1..(i + 1) = (1..i) \cup {i + 1}
    OBVIOUS
  <1> QED
    BY <1>1 DEF Upto

\* The prefixes of a path are those met from the first to the last.
LEMMA PrefixDomain ==
    ASSUME NEW path \in Seq(Names)
    PROVE  Range(PathPrefixes(path)) = Upto(PathPrefixes(path), Len(PathPrefixes(path)))
  <1>1. Len(path) \in Nat
    OBVIOUS
  <1>2. DOMAIN PathPrefixes(path) = 1..Len(PathPrefixes(path))
    <2>1. CASE path = <<>>
      BY <2>1 DEF PathPrefixes
    <2>2. CASE path # <<>>
      <3>1. PathPrefixes(path) = [i \in 1..Len(path) |-> SubSeq(path, 1, i)]
        BY <2>2 DEF PathPrefixes
      <3> QED
        BY <1>1, <3>1
    <2> QED
      BY <2>1, <2>2
  <1> QED
    BY <1>2 DEF Range, Upto

\* The nodes of a path are made from the shortest prefix on (_resolve_org_node).
LEMMA NodesAreMade ==
    ASSUME NEW x, Synced(x), NEW path \in Seq(Names), NEW y, y = ResolveNodes(x, path)
    PROVE  Synced(y) /\ MadeNodes(x, y, Range(PathPrefixes(path)))
  <1> DEFINE prefixes == PathPrefixes(path)
             n == Len(prefixes)
  <1>1. /\ n \in Nat
        /\ \A i \in 1..n :
              prefixes[i] \in Seq(Names) /\ (Len(prefixes[i]) >= 2 => i >= 2 /\ Front(prefixes[i]) = prefixes[i - 1])
    <2>1. PrefixesOK(Names, path, prefixes)
      BY PrefixesAre
    <2> HIDE DEF prefixes
    <2> QED
      BY <2>1 DEF PrefixesOK
  <1>2. \E g : /\ g[0] = x /\ ResolveNodes(x, path) = g[n]
               /\ \A i \in 1..n : g[i] = ResolveNode(g[i - 1], prefixes[i])
    BY <1>1, ResolveNodesIs
  <1>3. Range(PathPrefixes(path)) = Upto(prefixes, n)
    BY PrefixDomain
  <1> HIDE DEF prefixes, n
  <1>4. PICK g : /\ g[0] = x /\ ResolveNodes(x, path) = g[n]
                 /\ \A i \in 1..n : g[i] = ResolveNode(g[i - 1], prefixes[i])
    BY <1>2
  <1> DEFINE P(i) == Synced(g[i]) /\ MadeNodes(x, g[i], Upto(prefixes, i))
             Good == {i \in Nat : i <= n => P(i)}
  <1>5. 0 \in Good
    <2>1. Upto(prefixes, 0) = {}
      BY UptoNext
    <2>2. MadeNodes(x, x, {})
      BY DEF MadeNodes, Extends
    <2> QED
      BY <1>4, <2>1, <2>2
  <1>6. ASSUME NEW i \in Nat, i \in Good PROVE i + 1 \in Good
    <2> SUFFICES ASSUME i + 1 <= n PROVE P(i + 1)
      BY <1>1
    <2>1. P(i) /\ i + 1 \in 1..n /\ (i + 1) - 1 = i
      BY <1>1, <1>6
    <2>2. g[i + 1] = ResolveNode(g[i], prefixes[i + 1]) /\ prefixes[i + 1] \in Seq(Names)
      BY <1>1, <1>4, <2>1
    <2>3. Len(prefixes[i + 1]) >= 2 => NodeAt(g[i].seen, Front(prefixes[i + 1])) # {}
      <3> SUFFICES ASSUME Len(prefixes[i + 1]) >= 2 PROVE NodeAt(g[i].seen, Front(prefixes[i + 1])) # {}
        OBVIOUS
      <3>1. i + 1 >= 2 /\ Front(prefixes[i + 1]) = prefixes[i]
        BY <1>1, <2>1
      <3>2. i \in 1..i
        BY <3>1
      <3>3. prefixes[i] \in PathsOf(g[i].db)
        BY <2>1, <3>2 DEF MadeNodes, Upto
      <3>4. NodeAt(g[i].db, prefixes[i]) # {}
        BY <3>3 DEF PathsOf, NodeAt
      <3>5. NodeAt(g[i].seen, prefixes[i]) = NodeAt(g[i].db, prefixes[i])
        BY <2>1 DEF NodeAt, Synced
      <3> QED
        BY <3>1, <3>4, <3>5
    <2>4. Synced(g[i + 1]) /\ MadeNodes(g[i], g[i + 1], {prefixes[i + 1]})
      BY <2>1, <2>2, <2>3, NodeIsMade
    <2>5. MadeNodes(x, g[i + 1], Upto(prefixes, i) \cup {prefixes[i + 1]})
      BY <2>1, <2>4, NodesChain
    <2> QED
      BY <2>4, <2>5, UptoNext
  <1>7. n \in Good
    <2> HIDE DEF Good
    <2> QED
      BY <1>1, <1>5, <1>6, NatInduct
  <1> QED
    BY <1>1, <1>3, <1>4, <1>7

\* The roles of a row are made in its order (_resolve_roles).
LEMMA RolesAreMade ==
    ASSUME NEW x, Synced(x), NEW names \in Seq(Names), NEW y, y = ResolveRoles(x, names)
    PROVE  Synced(y) /\ MadeRoles(x, y, Range(names))
  <1> DEFINE n == Len(names)
  <1>1. n \in Nat /\ \A i \in 1..n : names[i] \in Names
    OBVIOUS
  <1>2. \E g : /\ g[0] = x /\ ResolveRoles(x, names) = g[n]
               /\ \A i \in 1..n : g[i] = ResolveRole(g[i - 1], names[i])
    BY <1>1, ResolveRolesIs
  <1>3. Range(names) = Upto(names, n)
    BY DEF Range, Upto
  <1> HIDE DEF n
  <1>4. PICK g : /\ g[0] = x /\ ResolveRoles(x, names) = g[n]
                 /\ \A i \in 1..n : g[i] = ResolveRole(g[i - 1], names[i])
    BY <1>2
  <1> DEFINE P(i) == Synced(g[i]) /\ MadeRoles(x, g[i], Upto(names, i))
             Good == {i \in Nat : i <= n => P(i)}
  <1>5. 0 \in Good
    <2>1. Upto(names, 0) = {}
      BY UptoNext
    <2>2. MadeRoles(x, x, {})
      BY DEF MadeRoles, Extends
    <2> QED
      BY <1>4, <2>1, <2>2
  <1>6. ASSUME NEW i \in Nat, i \in Good PROVE i + 1 \in Good
    <2> SUFFICES ASSUME i + 1 <= n PROVE P(i + 1)
      BY <1>1
    <2>1. P(i) /\ i + 1 \in 1..n /\ (i + 1) - 1 = i
      BY <1>1, <1>6
    <2>2. g[i + 1] = ResolveRole(g[i], names[i + 1]) /\ names[i + 1] \in Names
      BY <1>1, <1>4, <2>1
    <2>3. Synced(g[i + 1]) /\ MadeRoles(g[i], g[i + 1], {names[i + 1]})
      BY <2>1, <2>2, RoleIsMade
    <2>4. MadeRoles(x, g[i + 1], Upto(names, i) \cup {names[i + 1]})
      BY <2>1, <2>3, RolesChain
    <2> QED
      BY <2>3, <2>4, UptoNext
  <1>7. n \in Good
    <2> HIDE DEF Good
    <2> QED
      BY <1>1, <1>5, <1>6, NatInduct
  <1> QED
    BY <1>1, <1>3, <1>4, <1>7

LinksOf(d, u) == {p \in d.links : p[1] = u}
RolesIn(d, names) == {r \in DOMAIN d.roles : d.roles[r] \in names}

\* The user u is as the row says.
AsRow(d, u, row) ==
    /\ \E n \in NodeAt(d, row.path) : d.users[u] = [ref |-> row.ref, node |-> n, status |-> "active"]
    /\ LinksOf(d, u) = {u} \X RolesIn(d, Range(row.roles))

\* The tables and the users are functions, which two of them being equal needs.
IsTables(d) ==
    /\ d = [ users |-> d.users, roles |-> d.roles, nodes |-> d.nodes, keys |-> d.keys,
             links |-> d.links, next |-> d.next ]
    /\ d.users = [u \in DOMAIN d.users |-> d.users[u]]

\* From the tables d to e the users of the row's reference have become as it says, and
\* if there was one, nothing else has changed.
UserSet(d, e, row) ==
    /\ e.nodes = d.nodes /\ e.roles = d.roles
    /\ RefsOf(e) = RefsOf(d) \cup {row.ref}
    /\ \A u \in UserOf(e, row.ref) : AsRow(e, u, row)
    /\ DOMAIN d.users \subseteq DOMAIN e.users /\ \A u \in DOMAIN d.users : e.users[u].ref = d.users[u].ref
    /\ \A u \in DOMAIN e.users : e.users[u].ref # row.ref =>
          u \in DOMAIN d.users /\ e.users[u] = d.users[u] /\ LinksOf(e, u) = LinksOf(d, u)
    /\ row.ref \in RefsOf(d) =>
          /\ DOMAIN e.users = DOMAIN d.users /\ e.keys = d.keys /\ e.next = d.next
          /\ \A u : u \notin DOMAIN d.users => LinksOf(e, u) = LinksOf(d, u)
    /\ IsTables(e)

\* What an import does for the user of a row.
MadeUser(x, y, row) ==
    /\ UserSet(x.db, y.db, row) /\ y.nodes = x.nodes /\ y.roles = x.roles
    /\ y.actions = Append(x.actions, IF row.ref \in RefsOf(x.db) THEN "update" ELSE "create")

\* The links of a user whose links are replaced are the new ones.
LEMMA LinksReplaced ==
    ASSUME NEW d, NEW u, NEW roleIds, NEW new, new.links = ReplacedLinks(d, u, roleIds)
    PROVE  LinksOf(new, u) = {u} \X roleIds
  <1>1. \A p \in {u} \X roleIds : p[1] = u
    OBVIOUS
  <1>2. \A p : p \in new.links <=> (p \in d.links /\ p[1] # u) \/ p \in {u} \X roleIds
    BY DEF ReplacedLinks
  <1>3. \A p : p \in LinksOf(new, u) <=> p \in {u} \X roleIds
    BY <1>1, <1>2 DEF LinksOf
  <1> QED
    BY <1>3

\* The links of the others are as they were.
LEMMA LinksKept ==
    ASSUME NEW d, NEW u, NEW roleIds, NEW new, new.links = ReplacedLinks(d, u, roleIds), NEW v, v # u
    PROVE  LinksOf(new, v) = LinksOf(d, v)
  <1>1. \A p \in {u} \X roleIds : p[1] = u
    OBVIOUS
  <1>2. \A p : p \in new.links <=> (p \in d.links /\ p[1] # u) \/ p \in {u} \X roleIds
    BY DEF ReplacedLinks
  <1> QED
    BY <1>1, <1>2 DEF LinksOf

\* A user the tables do not have is created as the row says.
LEMMA NewUserIsMade ==
    ASSUME NEW x, Synced(x), NEW row, row.ref \in Refs, row.ref \notin RefsOf(x.db),
           NEW node \in NodeAt(x.db, row.path), NEW roleIds, roleIds = RolesIn(x.db, Range(row.roles)),
           NEW y, y = ImportNew(x, row, node, roleIds)
    PROVE  Synced(y) /\ MadeUser(x, y, row)
  <1> DEFINE db1 == WithUser(x.db, row.ref, node, roleIds)
             id == x.db.next
             new == db1.users[id]
             ref == row.ref
             rec == [ref |-> ref, node |-> node, status |-> "active"]
  <1>1. /\ DOMAIN x = {"db", "seen", "failed", "nodes", "roles", "actions"}
        /\ {"nodes", "roles", "users"} \subseteq DOMAIN x.seen
        /\ x.seen.nodes = x.db.nodes /\ x.seen.roles = x.db.roles /\ x.seen.users = x.db.users
        /\ RowsTyped(x.db) /\ Unique(x.db)
        /\ x.nodes \in Seq(Seq(Names)) /\ x.roles \in Seq(Names) /\ x.actions \in Seq({"create", "update"}) /\ ~x.failed
    BY DEF Synced, TablesTyped
  <1>2. /\ DOMAIN x.db = {"users", "roles", "nodes", "links", "keys", "next"}
        /\ x.db.links \subseteq IdsIn(x.db) \X IdsIn(x.db)
        /\ DOMAIN x.db.users \subseteq IdsIn(x.db) /\ DOMAIN x.db.roles \subseteq IdsIn(x.db)
        /\ DOMAIN x.db.nodes \subseteq IdsIn(x.db)
    BY <1>1, TablesAre
  <1>3. id \in Nat \ {0} /\ id \notin IdsIn(x.db)
    <2>1. x.db.next \in Nat \ {0}
      BY <1>1 DEF RowsTyped
    <2> QED
      BY <2>1 DEF IdsIn
  <1>4. /\ ref \in Refs /\ node \in IdsIn(x.db) \cup {Null} /\ roleIds \in SUBSET IdsIn(x.db)
        /\ db1 = WithUser(x.db, ref, node, roleIds)
    BY <1>2 DEF NodeAt, RolesIn
  <1>5. db1.users = Single(id, rec) ++ x.db.users
    BY <1>2 DEF WithUser
  <1>6. y = [x EXCEPT !.db = db1, !.seen.users = Single(id, new) ++ @, !.actions = Append(@, "create")]
    BY DEF ImportNew
  <1>7. IsTables(db1)
    <2>1. db1 = [ users |-> db1.users, roles |-> db1.roles, nodes |-> db1.nodes, keys |-> db1.keys,
                  links |-> db1.links, next |-> db1.next ]
      <3> DEFINE us == Single(id, rec) ++ x.db.users
                 ls == ReplacedLinks(x.db, id, roleIds)
                 ks == Single(id + 1, RuntimeKey(id)) ++ x.db.keys
      <3>1. db1 = [x.db EXCEPT !.users = us, !.links = ls, !.keys = ks, !.next = @ + 2]
        BY <1>2 DEF WithUser
      <3> HIDE DEF us, ls, ks, db1
      <3> QED
        BY <1>2, <3>1
    <2>2. db1.users = [u \in DOMAIN db1.users |-> db1.users[u]]
      <3> HIDE DEF db1, rec, id
      <3> QED
        BY <1>5 DEF ++
    <2> QED
      BY <2>1, <2>2 DEF IsTables
  <1> HIDE DEF db1, new
  <1>8. /\ DOMAIN y = DOMAIN x /\ y.db = db1 /\ DOMAIN y.seen = DOMAIN x.seen
        /\ y.seen.users = Single(id, new) ++ x.seen.users
        /\ y.seen.roles = x.seen.roles /\ y.seen.nodes = x.seen.nodes
        /\ y.nodes = x.nodes /\ y.roles = x.roles /\ y.actions = Append(x.actions, "create")
    BY <1>1, <1>6
  <1>9. y.failed <=> x.failed
    BY <1>1, <1>6, Zenon
  <1>10. RowsTyped(db1)
    BY ONLY <1>1, <1>4, WithUserTyped
  <1> HIDE DEF ref
  <1>11. /\ DOMAIN db1 = DOMAIN x.db /\ db1.next = x.db.next + 2 /\ db1.nodes = x.db.nodes /\ db1.roles = x.db.roles
         /\ db1.links = ReplacedLinks(x.db, x.db.next, roleIds)
         /\ DOMAIN db1.users = DOMAIN x.db.users \cup {x.db.next}
         /\ \A u \in DOMAIN x.db.users : db1.users[u] = x.db.users[u]
         /\ db1.users[x.db.next] = [ref |-> ref, node |-> node, status |-> "active"]
    BY ONLY <1>1, <1>4, WithUserIs
  <1>12. new = rec /\ rec.ref = ref
    BY <1>11 DEF new
  <1>13. id \notin DOMAIN x.db.users /\ db1.users[id] = rec
    BY <1>2, <1>3, <1>11
  <1>14. \A u \in DOMAIN x.db.users : x.db.users[u].ref # ref
    BY DEF RefsOf, ref
  <1>15. /\ LinksOf(db1, id) = {id} \X roleIds
         /\ \A v : v # id => LinksOf(db1, v) = LinksOf(x.db, v)
    <2> DEFINE d == x.db
    <2>1. db1.links = ReplacedLinks(d, id, roleIds)
      BY <1>11
    <2> HIDE DEF d, id
    <2>2. LinksOf(db1, id) = {id} \X roleIds
      BY ONLY <2>1, LinksReplaced
    <2>3. \A v : v # id => LinksOf(db1, v) = LinksOf(d, v)
      BY ONLY <2>1, LinksKept
    <2> QED
      BY <2>2, <2>3 DEF d
  <1> HIDE DEF rec
  <1>16. Unique(db1)
    <2>1. ASSUME NEW u \in DOMAIN db1.users, NEW v \in DOMAIN db1.users, db1.users[u].ref = db1.users[v].ref
          PROVE  u = v
      <3>1. u = id \/ u \in DOMAIN x.db.users
        BY <1>11
      <3>2. v = id \/ v \in DOMAIN x.db.users
        BY <1>11
      <3> QED
        BY <1>1, <1>11, <1>12, <1>13, <1>14, <2>1, <3>1, <3>2 DEF Unique
    <2> QED
      BY <1>1, <1>11, <2>1 DEF Unique
  <1>17. Synced(y)
    <2>1. y.seen.users = db1.users /\ y.seen.nodes = db1.nodes /\ y.seen.roles = db1.roles
      BY <1>1, <1>5, <1>8, <1>11, <1>12
    <2>2. y.actions \in Seq({"create", "update"})
      BY <1>1, <1>8
    <2> QED
      BY <1>1, <1>8, <1>9, <1>10, <1>16, <2>1, <2>2 DEF Synced, TablesTyped
  <1>18. UserSet(x.db, db1, row)
    <2>1. RefsOf(db1) = RefsOf(x.db) \cup {ref}
      BY <1>11, <1>12, <1>13 DEF RefsOf
    <2>2. UserOf(db1, ref) = {id}
      BY <1>11, <1>12, <1>13, <1>14 DEF UserOf
    <2>3. AsRow(db1, id, row)
      <3>1. NodeAt(db1, row.path) = NodeAt(x.db, row.path) /\ RolesIn(db1, Range(row.roles)) = roleIds
        BY <1>11 DEF NodeAt, RolesIn
      <3> QED
        BY <1>13, <1>15, <3>1 DEF AsRow, rec, ref
    <2>4. \A u \in DOMAIN db1.users : db1.users[u].ref # ref =>
             u \in DOMAIN x.db.users /\ db1.users[u] = x.db.users[u] /\ LinksOf(db1, u) = LinksOf(x.db, u)
      <3>1. \A u \in DOMAIN db1.users : db1.users[u].ref # ref => u # id
        BY <1>12, <1>13
      <3> QED
        BY <1>11, <1>15, <3>1
    <2>5. row.ref = ref /\ ref \notin RefsOf(x.db)
      BY DEF ref
    <2> QED
      BY <1>7, <1>11, <2>1, <2>2, <2>3, <2>4, <2>5 DEF UserSet
  <1> QED
    BY <1>8, <1>17, <1>18 DEF MadeUser

\* A user the tables have is updated to what the row says.
LEMMA KnownUserIsMade ==
    ASSUME NEW x, Synced(x), NEW row, NEW u \in UserOf(x.db, row.ref),
           NEW node \in NodeAt(x.db, row.path), NEW roleIds, roleIds = RolesIn(x.db, Range(row.roles)),
           NEW y, y = ImportKnown(x, u, node, roleIds)
    PROVE  Synced(y) /\ MadeUser(x, y, row)
  <1> DEFINE ref == row.ref
             rec == [ref |-> ref, node |-> node, status |-> "active"]
             object == Single(u, [x.seen.users[u] EXCEPT !.node = node, !.status = "active"])
             users == Flushed(x.db.users, x.seen.users, object)
             links == ReplacedLinks(x.db, u, roleIds)
             db1 == [x.db EXCEPT !.users = users, !.links = links]
             stale == Stale(x.db.users, x.seen.users, object)
  <1>1. /\ DOMAIN x = {"db", "seen", "failed", "nodes", "roles", "actions"}
        /\ {"nodes", "roles", "users"} \subseteq DOMAIN x.seen
        /\ x.seen.nodes = x.db.nodes /\ x.seen.roles = x.db.roles /\ x.seen.users = x.db.users
        /\ RowsTyped(x.db) /\ Unique(x.db)
        /\ x.nodes \in Seq(Seq(Names)) /\ x.roles \in Seq(Names) /\ x.actions \in Seq({"create", "update"}) /\ ~x.failed
    BY DEF Synced, TablesTyped
  <1>2. /\ DOMAIN x.db = {"users", "roles", "nodes", "links", "keys", "next"}
        /\ x.db.links \subseteq IdsIn(x.db) \X IdsIn(x.db)
        /\ DOMAIN x.db.users \subseteq IdsIn(x.db) /\ DOMAIN x.db.roles \subseteq IdsIn(x.db)
        /\ DOMAIN x.db.nodes \subseteq IdsIn(x.db)
        /\ \A v \in DOMAIN x.db.users : x.db.users[v] \in UserRow(IdsIn(x.db))
    BY <1>1, TablesAre
  <1>3. u \in DOMAIN x.db.users /\ x.db.users[u].ref = ref
    BY DEF UserOf
  <1>4. x.db.users[u] = [ref |-> ref, node |-> x.db.users[u].node, status |-> x.db.users[u].status]
    BY <1>2, <1>3 DEF UserRow
  <1>5. DOMAIN object = {u} /\ object[u] = rec
    <2>1. [x.db.users[u] EXCEPT !.node = node, !.status = "active"] = rec
      <3> DEFINE r == x.db.users[u]
                 n == x.db.users[u].node
                 s == x.db.users[u].status
      <3>1. r = [ref |-> ref, node |-> n, status |-> s]
        BY <1>4
      <3> HIDE DEF r, n, s, ref
      <3> DEFINE t == [r EXCEPT !.node = node]
      <3>2. t = [ref |-> ref, node |-> node, status |-> s]
        BY <3>1
      <3>3. [r EXCEPT !.node = node, !.status = "active"] = [t EXCEPT !.status = "active"]
        BY <3>1
      <3> HIDE DEF t
      <3>4. [t EXCEPT !.status = "active"] = [ref |-> ref, node |-> node, status |-> "active"]
        BY <3>2
      <3> QED
        BY <3>3, <3>4 DEF r, ref
    <2> HIDE DEF rec
    <2> QED
      BY <1>1, <2>1 DEF Single
  <1>6. node \in IdsIn(x.db) /\ ref \in Refs
    BY <1>2, <1>3, UserRowIs DEF NodeAt
  <1>7. y = [x EXCEPT !.db = db1, !.seen.users = object ++ @, !.failed = @ \/ stale, !.actions = Append(@, "update")]
    BY <1>2, <1>1 DEF ImportKnown
  <1> HIDE DEF object
  <1>8. ~stale
    BY <1>1, <1>3, <1>5 DEF Stale, Dirty
  <1>9. users = [v \in DOMAIN x.db.users |-> IF v = u THEN rec ELSE x.db.users[v]]
    <2>1. ASSUME NEW v \in DOMAIN x.db.users
          PROVE  users[v] = IF v = u THEN rec ELSE x.db.users[v]
      <3>1. CASE v # u
        BY <1>5, <2>1, <3>1 DEF Flushed, Dirty
      <3>2. CASE v = u
        <4>1. CASE object[u] = x.db.users[u]
          BY <1>1, <1>5, <2>1, <3>2, <4>1 DEF Flushed, Dirty
        <4>2. CASE object[u] # x.db.users[u]
          <5>1. users[u] = [c \in DOMAIN x.db.users[u] |-> IF rec[c] # x.db.users[u][c] THEN rec[c] ELSE x.db.users[u][c]]
            BY <1>1, <1>3, <1>5, <4>2 DEF Flushed, Dirty
          <5>2. DOMAIN x.db.users[u] = {"ref", "node", "status"}
            BY <1>4
          <5>3. users[u] = [c \in {"ref", "node", "status"} |-> rec[c]]
            <6> HIDE DEF users, rec
            <6> QED
              BY <5>1, <5>2
          <5>4. rec = [c \in {"ref", "node", "status"} |-> rec[c]]
            OBVIOUS
          <5> QED
            BY <3>2, <5>3, <5>4
        <4> QED
          BY <4>1, <4>2
      <3> QED
        BY <3>1, <3>2
    <2>2. users = [v \in DOMAIN x.db.users |-> users[v]]
      BY DEF Flushed
    <2> HIDE DEF users, rec
    <2> QED
      BY <2>1, <2>2
  <1> HIDE DEF users, links, stale
  <1>10. /\ DOMAIN db1 = DOMAIN x.db /\ db1.users = users /\ db1.links = links /\ db1.nodes = x.db.nodes
         /\ db1.roles = x.db.roles /\ db1.keys = x.db.keys /\ db1.next = x.db.next
         /\ db1 = [ users |-> db1.users, roles |-> db1.roles, nodes |-> db1.nodes, keys |-> db1.keys,
                    links |-> db1.links, next |-> db1.next ]
    <2>1. DOMAIN db1 = DOMAIN x.db /\ db1.users = users /\ db1.links = links
      BY <1>2
    <2>2. /\ db1.nodes = x.db.nodes /\ db1.roles = x.db.roles /\ db1.keys = x.db.keys /\ db1.next = x.db.next
      BY <1>2
    <2>3. db1 = [f \in DOMAIN db1 |-> db1[f]]
      OBVIOUS
    <2> HIDE DEF db1
    <2>4. db1 = [ users |-> db1.users, roles |-> db1.roles, nodes |-> db1.nodes, keys |-> db1.keys,
                  links |-> db1.links, next |-> db1.next ]
      BY <1>2, <2>1, <2>3
    <2> QED
      BY <2>1, <2>2, <2>4
  <1> HIDE DEF db1
  <1>11. /\ DOMAIN y = DOMAIN x /\ y.db = db1 /\ DOMAIN y.seen = DOMAIN x.seen
         /\ y.seen.users = object ++ x.seen.users
         /\ y.seen.roles = x.seen.roles /\ y.seen.nodes = x.seen.nodes
         /\ y.nodes = x.nodes /\ y.roles = x.roles /\ y.actions = Append(x.actions, "update")
    BY <1>1, <1>7
  <1>12. y.failed <=> x.failed \/ stale
    BY <1>1, <1>7, Zenon
  <1>13. /\ DOMAIN users = DOMAIN x.db.users /\ users[u] = rec /\ rec.ref = ref
         /\ \A v \in DOMAIN x.db.users : v # u => users[v] = x.db.users[v]
    <2>1. rec.ref = ref
      OBVIOUS
    <2> HIDE DEF rec
    <2> QED
      BY <1>3, <1>9, <2>1
  <1>14. y.seen.users = users
    <2> HIDE DEF rec
    <2>1. object ++ x.db.users = [v \in DOMAIN x.db.users |-> IF v = u THEN rec ELSE x.db.users[v]]
      <3>1. {u} \cup DOMAIN x.db.users = DOMAIN x.db.users
        BY <1>3
      <3> QED
        BY <1>5, <3>1 DEF ++
    <2> QED
      BY <1>1, <1>9, <1>11, <2>1
  <1>15. /\ LinksOf(db1, u) = {u} \X roleIds
         /\ \A v : v # u => LinksOf(db1, v) = LinksOf(x.db, v)
    <2> DEFINE d == x.db
    <2>1. db1.links = ReplacedLinks(d, u, roleIds)
      BY <1>10 DEF links
    <2> HIDE DEF d
    <2>2. LinksOf(db1, u) = {u} \X roleIds
      BY ONLY <2>1, LinksReplaced
    <2>3. \A v : v # u => LinksOf(db1, v) = LinksOf(d, v)
      BY ONLY <2>1, LinksKept
    <2> QED
      BY <2>2, <2>3 DEF d
  <1>16. \A v \in DOMAIN x.db.users : users[v].ref = x.db.users[v].ref
    BY <1>3, <1>13
  <1>17. RowsTyped(db1)
    <2>1. \A v \in DOMAIN users : users[v] \in UserRow(IdsIn(x.db))
      <3>1. rec \in UserRow(IdsIn(x.db))
        BY <1>6 DEF UserRow
      <3> HIDE DEF rec
      <3> QED
        BY <1>2, <1>13, <3>1
    <2>2. links \subseteq IdsIn(x.db) \X IdsIn(x.db)
      <3>1. u \in IdsIn(x.db) /\ roleIds \subseteq IdsIn(x.db)
        BY <1>2, <1>3 DEF RolesIn
      <3> QED
        BY <1>2, <3>1 DEF links, ReplacedLinks
    <2> HIDE DEF rec
    <2> QED
      BY <1>1, <1>10, <1>13, <2>1, <2>2, TablesAre, Retyped
  <1> HIDE DEF rec
  <1>18. Unique(db1)
    BY <1>1, <1>10, <1>13, <1>16 DEF Unique
  <1>19. Synced(y)
    <2>1. y.actions \in Seq({"create", "update"})
      BY <1>1, <1>11
    <2> QED
      BY <1>1, <1>8, <1>10, <1>11, <1>12, <1>14, <1>17, <1>18, <2>1 DEF Synced, TablesTyped
  <1>20. ref \in RefsOf(x.db)
    BY <1>3 DEF RefsOf
  <1>21. UserSet(x.db, db1, row)
    <2>1. RefsOf(db1) = RefsOf(x.db)
      BY <1>10, <1>13, <1>16 DEF RefsOf
    <2>2. UserOf(db1, ref) = {u}
      BY <1>1, <1>3, <1>10, <1>13, <1>16 DEF UserOf, Unique
    <2>3. AsRow(db1, u, row)
      <3>1. NodeAt(db1, row.path) = NodeAt(x.db, row.path) /\ RolesIn(db1, Range(row.roles)) = roleIds
        BY <1>10 DEF NodeAt, RolesIn
      <3> QED
        BY <1>10, <1>13, <1>15, <3>1 DEF AsRow, rec
    <2>4. \A v \in DOMAIN db1.users : db1.users[v].ref # ref =>
             v \in DOMAIN x.db.users /\ db1.users[v] = x.db.users[v] /\ LinksOf(db1, v) = LinksOf(x.db, v)
      BY <1>10, <1>13, <1>15
    <2>5. IsTables(db1)
      <3>1. db1.users = [v \in DOMAIN db1.users |-> db1.users[v]]
        BY <1>9, <1>10
      <3> QED
        BY <1>10, <3>1 DEF IsTables
    <2>6. \A v : v \notin DOMAIN x.db.users => LinksOf(db1, v) = LinksOf(x.db, v)
      BY <1>3, <1>15
    <2> HIDE DEF ref
    <2>7. row.ref = ref
      BY DEF ref
    <2> QED
      BY <1>10, <1>13, <1>16, <1>20, <2>1, <2>2, <2>3, <2>4, <2>5, <2>6, <2>7 DEF UserSet
  <1> QED
    BY <1>11, <1>19, <1>20, <1>21 DEF MadeUser

\* What a row brings to its users.
UsersSet(d, e, row) ==
    /\ \A u \in UserOf(e, row.ref) : AsRow(e, u, row)
    /\ DOMAIN d.users \subseteq DOMAIN e.users /\ \A u \in DOMAIN d.users : e.users[u].ref = d.users[u].ref
    /\ \A u \in DOMAIN e.users : e.users[u].ref # row.ref =>
          u \in DOMAIN d.users /\ e.users[u] = d.users[u] /\ LinksOf(e, u) = LinksOf(d, u)

\* All that the row names is there.
Familiar(d, row) ==
    /\ Range(PathPrefixes(row.path)) \subseteq PathsOf(d) /\ Range(row.roles) \subseteq NamesOf(d)
    /\ row.ref \in RefsOf(d)

\* What a row brings to the tables and to the report of the import.
RowMade(x, z, row) ==
    /\ Extends(x.db, z.db) /\ UsersSet(x.db, z.db, row) /\ IsTables(z.db)
    /\ PathsOf(z.db) = PathsOf(x.db) \cup Range(PathPrefixes(row.path))
    /\ NamesOf(z.db) = NamesOf(x.db) \cup Range(row.roles)
    /\ RefsOf(z.db) = RefsOf(x.db) \cup {row.ref}
    /\ Range(z.nodes) = Range(x.nodes) \cup (Range(PathPrefixes(row.path)) \ PathsOf(x.db))
    /\ Range(z.roles) = Range(x.roles) \cup (Range(row.roles) \ NamesOf(x.db))
    /\ z.actions = Append(x.actions, IF row.ref \in RefsOf(x.db) THEN "update" ELSE "create")
    /\ Familiar(x.db, row) => UserSet(x.db, z.db, row)

\* A path is the last of its prefixes.
LEMMA PathIsPrefix ==
    ASSUME NEW path \in Seq(Names)
    PROVE  path \in Range(PathPrefixes(path))
  <1> DEFINE prefixes == PathPrefixes(path)
  <1>1. PrefixesOK(Names, path, prefixes) /\ Range(prefixes) = Upto(prefixes, Len(prefixes))
    BY PrefixesAre, PrefixDomain
  <1> HIDE DEF prefixes
  <1>2. Len(prefixes) \in Nat /\ Len(prefixes) >= 1 /\ prefixes[Len(prefixes)] = path
    BY <1>1 DEF PrefixesOK
  <1>3. Len(prefixes) \in 1..Len(prefixes)
    BY <1>2
  <1>4. path \in Range(prefixes)
    BY <1>1, <1>2, <1>3 DEF Upto
  <1> QED
    BY <1>4 DEF prefixes

\* The roles an import finds by their names are those of the tables.
LEMMA RolesSeen ==
    ASSUME NEW y, Synced(y), NEW names, names \subseteq NamesOf(y.db)
    PROVE  {SeenRole(y, name) : name \in names} = RolesIn(y.db, names)
  <1>1. y.seen.roles = y.db.roles /\ Unique(y.db)
    BY DEF Synced, TablesTyped
  <1>2. \A name \in names : SeenRole(y, name) \in DOMAIN y.db.roles /\ y.db.roles[SeenRole(y, name)] = name
    <2> SUFFICES ASSUME NEW name \in names
                 PROVE  SeenRole(y, name) \in DOMAIN y.db.roles /\ y.db.roles[SeenRole(y, name)] = name
      OBVIOUS
    <2>1. RoleNamed(y.seen, name) # {}
      BY <1>1 DEF NamesOf, RoleNamed
    <2>2. SeenRole(y, name) \in RoleNamed(y.seen, name)
      BY <2>1 DEF SeenRole
    <2> QED
      BY <1>1, <2>2 DEF RoleNamed
  <1>3. \A r \in RolesIn(y.db, names) : r = SeenRole(y, y.db.roles[r]) /\ y.db.roles[r] \in names
    BY <1>1, <1>2 DEF RolesIn, Unique
  <1>4. \A name \in names : SeenRole(y, name) \in RolesIn(y.db, names)
    BY <1>2 DEF RolesIn
  <1> QED
    BY <1>3, <1>4

\* A row is carried out.
LEMMA RowIsMade ==
    ASSUME NEW x, Synced(x), NEW row, row.ref \in Refs, row.path \in Seq(Names), row.roles \in Seq(Names),
           NEW z, z = ImportRow(x, row)
    PROVE  Synced(z) /\ RowMade(x, z, row)
  <1> DEFINE w == ResolveNodes(x, row.path)
             y == ResolveRoles(w, row.roles)
             node == SeenNode(y, row.path)
             roleIds == {SeenRole(y, name) : name \in Range(row.roles)}
             known == UserOf(y.seen, row.ref)
             u == CHOOSE v \in known : TRUE
             P == Range(PathPrefixes(row.path))
             N == Range(row.roles)
  <1>1. z = IF known = {} THEN ImportNew(y, row, node, roleIds) ELSE ImportKnown(y, u, node, roleIds)
    BY DEF ImportRow
  <1>2. Synced(w) /\ MadeNodes(x, w, P)
    BY NodesAreMade
  <1>3. w = w /\ y = ResolveRoles(w, row.roles)
    OBVIOUS
  <1> HIDE DEF w, y, P
  <1>4. Synced(y) /\ MadeRoles(w, y, N)
    BY <1>2, <1>3, RolesAreMade
  <1> HIDE DEF N
  <1>5. PathsOf(y.db) = PathsOf(x.db) \cup P
    BY <1>2, <1>4 DEF MadeNodes, MadeRoles, PathsOf
  <1>6. NamesOf(y.db) = NamesOf(x.db) \cup N
    BY <1>2, <1>4 DEF MadeNodes, MadeRoles, NamesOf
  <1>7. node \in NodeAt(y.db, row.path)
    <2>1. row.path \in PathsOf(y.db)
      BY <1>5, PathIsPrefix DEF P
    <2>2. NodeAt(y.seen, row.path) # {} /\ NodeAt(y.seen, row.path) = NodeAt(y.db, row.path)
      BY <1>4, <2>1 DEF Synced, NodeAt, PathsOf
    <2> QED
      BY <2>2 DEF SeenNode
  <1>8. roleIds = RolesIn(y.db, Range(row.roles))
    BY <1>4, <1>6, RolesSeen DEF N
  <1>9. known = UserOf(y.db, row.ref) /\ (known = {} <=> row.ref \notin RefsOf(y.db))
    BY <1>4 DEF Synced, UserOf, RefsOf
  <1>10. known # {} => u \in UserOf(y.db, row.ref)
    BY <1>9
  <1> HIDE DEF known, u, node, roleIds
  <1>11. Synced(z) /\ MadeUser(y, z, row)
    <2>1. CASE known = {}
      <3>1. z = ImportNew(y, row, node, roleIds) /\ row.ref \notin RefsOf(y.db)
        BY <1>1, <1>9, <2>1
      <3> QED
        BY <1>4, <1>7, <1>8, <3>1, NewUserIsMade
    <2>2. CASE known # {}
      <3>1. z = ImportKnown(y, u, node, roleIds) /\ u \in UserOf(y.db, row.ref)
        BY <1>1, <1>10, <2>2
      <3> QED
        BY <1>4, <1>7, <1>8, <3>1, KnownUserIsMade
    <2> QED
      BY <2>1, <2>2
  <1>12. /\ y.db.users = x.db.users /\ y.db.links = x.db.links /\ RefsOf(y.db) = RefsOf(x.db)
         /\ \A v : LinksOf(y.db, v) = LinksOf(x.db, v)
    BY <1>2, <1>4 DEF MadeNodes, MadeRoles, RefsOf, LinksOf
  <1>13. UserSet(y.db, z.db, row)
    BY <1>11 DEF MadeUser
  <1>14. Extends(x.db, z.db)
    <2>1. Extends(x.db, y.db)
      BY <1>2, <1>4, ExtendsChain DEF MadeNodes, MadeRoles
    <2>2. Extends(y.db, z.db)
      BY <1>13 DEF UserSet, Extends
    <2> QED
      BY <2>1, <2>2, ExtendsChain
  <1>15. UsersSet(x.db, z.db, row)
    BY <1>12, <1>13 DEF UsersSet, UserSet
  <1>16. PathsOf(z.db) = PathsOf(x.db) \cup P /\ NamesOf(z.db) = NamesOf(x.db) \cup N
    <2>1. PathsOf(z.db) = PathsOf(y.db) /\ NamesOf(z.db) = NamesOf(y.db)
      BY <1>13 DEF UserSet, PathsOf, NamesOf
    <2> QED
      BY <1>5, <1>6, <2>1
  <1>17. RefsOf(z.db) = RefsOf(x.db) \cup {row.ref} /\ IsTables(z.db)
    BY <1>12, <1>13 DEF UserSet
  <1>18. Range(z.nodes) = Range(x.nodes) \cup (P \ PathsOf(x.db))
    BY <1>2, <1>4, <1>11 DEF MadeNodes, MadeRoles, MadeUser
  <1>19. Range(z.roles) = Range(x.roles) \cup (N \ NamesOf(x.db))
    <2>1. NamesOf(w.db) = NamesOf(x.db)
      BY <1>2 DEF MadeNodes, NamesOf
    <2> QED
      BY <1>2, <1>4, <1>11, <2>1 DEF MadeNodes, MadeRoles, MadeUser
  <1>20. z.actions = Append(x.actions, IF row.ref \in RefsOf(x.db) THEN "update" ELSE "create")
    <2>1. y.actions = x.actions
      BY <1>2, <1>4 DEF MadeNodes, MadeRoles
    <2> QED
      BY <1>11, <1>12, <2>1 DEF MadeUser
  <1>21. Familiar(x.db, row) => UserSet(x.db, z.db, row)
    <2> SUFFICES ASSUME Familiar(x.db, row) PROVE UserSet(x.db, z.db, row)
      OBVIOUS
    <2>1. w = x
      BY <1>2 DEF Familiar, MadeNodes, P
    <2>2. y = w
      BY <1>4, <2>1 DEF Familiar, MadeRoles, N
    <2> QED
      BY <1>13, <2>1, <2>2
  <1> QED
    BY <1>11, <1>14, <1>15, <1>16, <1>17, <1>18, <1>19, <1>20, <1>21 DEF RowMade, P, N

PathsUpto(rows, i) == UNION {Range(PathPrefixes(rows[j].path)) : j \in 1..i}
NamesUpto(rows, i) == UNION {Range(rows[j].roles) : j \in 1..i}
RefsUpto(rows, i) == {rows[j].ref : j \in 1..i}

\* Users are as the last of the first i rows with their reference says.
Said(d, rows, i) ==
    \A j \in 1..i :
        (\A k \in (j + 1)..i : rows[k].ref # rows[j].ref) => \A u \in UserOf(d, rows[j].ref) : AsRow(d, u, rows[j])

\* A pass begun on d, after i rows.
PassMade(d, x, rows, i) ==
    /\ Synced(x) /\ (i >= 1 => IsTables(x.db))
    /\ PathsOf(x.db) = PathsOf(d) \cup PathsUpto(rows, i)
    /\ NamesOf(x.db) = NamesOf(d) \cup NamesUpto(rows, i)
    /\ RefsOf(x.db) = RefsOf(d) \cup RefsUpto(rows, i)
    /\ Range(x.nodes) = PathsUpto(rows, i) \ PathsOf(d)
    /\ Range(x.roles) = NamesUpto(rows, i) \ NamesOf(d)
    /\ Len(x.actions) = i
    /\ \A j \in 1..i : x.actions[j] = IF rows[j].ref \in RefsOf(d) \cup RefsUpto(rows, j - 1) THEN "update" ELSE "create"
    /\ Said(x.db, rows, i)

\* A pass begun on tables that know all of the file, after i rows.
PassAgain(d, x, rows, i) ==
    /\ Synced(x) /\ (i >= 1 => IsTables(x.db))
    /\ x.db.nodes = d.nodes /\ x.db.roles = d.roles /\ x.db.keys = d.keys /\ x.db.next = d.next
    /\ DOMAIN x.db.users = DOMAIN d.users /\ \A u \in DOMAIN d.users : x.db.users[u].ref = d.users[u].ref
    /\ \A u \in DOMAIN d.users : d.users[u].ref \notin RefsUpto(rows, i) =>
          x.db.users[u] = d.users[u] /\ LinksOf(x.db, u) = LinksOf(d, u)
    /\ \A u : u \notin DOMAIN d.users => LinksOf(x.db, u) = LinksOf(d, u)
    /\ Said(x.db, rows, i)

\* What the rows name grows row by row.
LEMMA UptoGrows ==
    ASSUME NEW rows, NEW i \in Nat
    PROVE  /\ PathsUpto(rows, 0) = {} /\ NamesUpto(rows, 0) = {} /\ RefsUpto(rows, 0) = {}
           /\ PathsUpto(rows, i + 1) = PathsUpto(rows, i) \cup Range(PathPrefixes(rows[i + 1].path))
           /\ NamesUpto(rows, i + 1) = NamesUpto(rows, i) \cup Range(rows[i + 1].roles)
           /\ RefsUpto(rows, i + 1) = RefsUpto(rows, i) \cup {rows[i + 1].ref}
  <1>1. 1..0 = {}
    OBVIOUS
  <1>2. \A j : j \in 1..(i + 1) <=> j \in 1..i \/ j = i + 1
    OBVIOUS
  <1> DEFINE I == 1..i
             J == 1..(i + 1)
             k == i + 1
  <1>3. \A j : j \in J <=> j \in I \/ j = k
    BY <1>2
  <1> HIDE DEF I, J, k
  <1>4. /\ UNION {Range(PathPrefixes(rows[j].path)) : j \in J}
             = (UNION {Range(PathPrefixes(rows[j].path)) : j \in I}) \cup Range(PathPrefixes(rows[k].path))
        /\ UNION {Range(rows[j].roles) : j \in J} = (UNION {Range(rows[j].roles) : j \in I}) \cup Range(rows[k].roles)
        /\ {rows[j].ref : j \in J} = {rows[j].ref : j \in I} \cup {rows[k].ref}
    BY <1>3
  <1> QED
    BY <1>1, <1>4 DEF I, J, k, PathsUpto, NamesUpto, RefsUpto

\* A user a row leaves alone stays as an earlier one said.
LEMMA AsRowStays ==
    ASSUME NEW d, NEW e, Extends(d, e), Unique(e), NEW u, e.users[u] = d.users[u], LinksOf(e, u) = LinksOf(d, u),
           NEW row, Range(row.roles) \subseteq NamesOf(d), AsRow(d, u, row)
    PROVE  AsRow(e, u, row)
  <1>1. NodeAt(d, row.path) \subseteq NodeAt(e, row.path)
    BY DEF Extends, NodeAt
  <1>2. RolesIn(d, Range(row.roles)) = RolesIn(e, Range(row.roles))
    <2>1. RolesIn(d, Range(row.roles)) \subseteq RolesIn(e, Range(row.roles))
      BY DEF Extends, RolesIn
    <2>2. ASSUME NEW r \in RolesIn(e, Range(row.roles)) PROVE r \in RolesIn(d, Range(row.roles))
      <3>1. r \in DOMAIN e.roles /\ e.roles[r] \in Range(row.roles)
        BY DEF RolesIn
      <3>2. PICK s \in DOMAIN d.roles : d.roles[s] = e.roles[r]
        BY <3>1 DEF NamesOf
      <3>3. s \in DOMAIN e.roles /\ e.roles[s] = e.roles[r]
        BY <3>2 DEF Extends
      <3>4. s = r
        BY <3>1, <3>3 DEF Unique
      <3> QED
        BY <3>1, <3>2, <3>4 DEF RolesIn
    <2> QED
      BY <2>1, <2>2
  <1> QED
    BY <1>1, <1>2 DEF AsRow

\* The row carried out is the last with its reference, and says how its user is.
LEMMA SaidNext ==
    ASSUME NEW x, NEW z, NEW rows, NEW i \in Nat, Synced(z), RowMade(x, z, rows[i + 1]),
           Said(x.db, rows, i), NamesUpto(rows, i) \subseteq NamesOf(x.db)
    PROVE  Said(z.db, rows, i + 1)
  <1> SUFFICES ASSUME NEW j \in 1..(i + 1), \A k \in (j + 1)..(i + 1) : rows[k].ref # rows[j].ref,
                      NEW u \in UserOf(z.db, rows[j].ref)
               PROVE  AsRow(z.db, u, rows[j])
    BY DEF Said
  <1> DEFINE row == rows[i + 1]
  <1>1. UsersSet(x.db, z.db, row) /\ Extends(x.db, z.db) /\ Unique(z.db)
    BY DEF RowMade, Synced, TablesTyped
  <1>2. CASE j = i + 1
    BY <1>1, <1>2 DEF UsersSet
  <1>3. CASE j # i + 1
    <2>1. j \in 1..i /\ i + 1 \in (j + 1)..(i + 1) /\ \A k \in (j + 1)..i : k \in (j + 1)..(i + 1)
      BY <1>3
    <2>2. row.ref # rows[j].ref
      BY <2>1
    <2>3. u \in DOMAIN z.db.users /\ z.db.users[u].ref = rows[j].ref
      BY DEF UserOf
    <2> HIDE DEF row
    <2>4. u \in DOMAIN x.db.users /\ z.db.users[u] = x.db.users[u] /\ LinksOf(z.db, u) = LinksOf(x.db, u)
      BY <1>1, <2>2, <2>3 DEF UsersSet
    <2>5. u \in UserOf(x.db, rows[j].ref)
      BY <2>3, <2>4 DEF UserOf
    <2>6. AsRow(x.db, u, rows[j])
      BY <2>1, <2>5 DEF Said
    <2>7. Range(rows[j].roles) \subseteq NamesOf(x.db)
      BY <2>1 DEF NamesUpto
    <2> QED
      BY <1>1, <2>4, <2>6, <2>7, AsRowStays
  <1> QED
    BY <1>2, <1>3

\* One more row of a first pass.
LEMMA PassStep ==
    ASSUME NEW d, NEW x, NEW rows, NEW i \in Nat, PassMade(d, x, rows, i),
           rows[i + 1].ref \in Refs, rows[i + 1].path \in Seq(Names), rows[i + 1].roles \in Seq(Names),
           NEW z, z = ImportRow(x, rows[i + 1])
    PROVE  PassMade(d, z, rows, i + 1)
  <1> DEFINE row == rows[i + 1]
             P == Range(PathPrefixes(row.path))
             N == Range(row.roles)
             action == IF row.ref \in RefsOf(x.db) THEN "update" ELSE "create"
  <1>1. Synced(z) /\ RowMade(x, z, row)
    BY RowIsMade DEF PassMade
  <1>2. /\ PathsUpto(rows, i + 1) = PathsUpto(rows, i) \cup P
        /\ NamesUpto(rows, i + 1) = NamesUpto(rows, i) \cup N
        /\ RefsUpto(rows, i + 1) = RefsUpto(rows, i) \cup {row.ref}
    BY UptoGrows
  <1>3. Said(z.db, rows, i + 1)
    BY <1>1, SaidNext DEF PassMade
  <1> HIDE DEF row
  <1>4. /\ PathsOf(z.db) = PathsOf(d) \cup PathsUpto(rows, i + 1)
        /\ NamesOf(z.db) = NamesOf(d) \cup NamesUpto(rows, i + 1)
        /\ RefsOf(z.db) = RefsOf(d) \cup RefsUpto(rows, i + 1)
    BY <1>1, <1>2 DEF PassMade, RowMade
  <1>5. Range(z.nodes) = PathsUpto(rows, i + 1) \ PathsOf(d)
    BY <1>1, <1>2 DEF PassMade, RowMade
  <1>6. Range(z.roles) = NamesUpto(rows, i + 1) \ NamesOf(d)
    BY <1>1, <1>2 DEF PassMade, RowMade
  <1>7. /\ Len(z.actions) = i + 1
        /\ \A j \in 1..(i + 1) :
              z.actions[j] = IF rows[j].ref \in RefsOf(d) \cup RefsUpto(rows, j - 1) THEN "update" ELSE "create"
    <2>1. z.actions = Append(x.actions, action) /\ x.actions \in Seq({"create", "update"}) /\ Len(x.actions) = i
      BY <1>1 DEF PassMade, RowMade, Synced
    <2> HIDE DEF action
    <2>2. Len(z.actions) = i + 1 /\ z.actions[i + 1] = action /\ \A j \in 1..i : z.actions[j] = x.actions[j]
      BY <2>1
    <2>3. action = IF rows[i + 1].ref \in RefsOf(d) \cup RefsUpto(rows, (i + 1) - 1) THEN "update" ELSE "create"
      <3>1. (i + 1) - 1 = i
        OBVIOUS
      <3> QED
        BY <3>1 DEF action, row, PassMade
    <2>4. \A j \in 1..(i + 1) : j \in 1..i \/ j = i + 1
      OBVIOUS
    <2> QED
      BY <2>2, <2>3, <2>4 DEF PassMade
  <1>8. IsTables(z.db)
    BY <1>1 DEF RowMade
  <1> QED
    BY <1>1, <1>3, <1>4, <1>5, <1>6, <1>7, <1>8 DEF PassMade

\* One more row of a second pass.
LEMMA AgainStep ==
    ASSUME NEW d, NEW x, NEW rows, NEW i \in Nat, PassAgain(d, x, rows, i), Familiar(d, rows[i + 1]),
           NamesUpto(rows, i) \subseteq NamesOf(d),
           rows[i + 1].ref \in Refs, rows[i + 1].path \in Seq(Names), rows[i + 1].roles \in Seq(Names),
           NEW z, z = ImportRow(x, rows[i + 1])
    PROVE  PassAgain(d, z, rows, i + 1)
  <1> DEFINE row == rows[i + 1]
  <1>1. Synced(z) /\ RowMade(x, z, row)
    BY RowIsMade DEF PassAgain
  <1>2. PathsOf(x.db) = PathsOf(d) /\ NamesOf(x.db) = NamesOf(d) /\ RefsOf(x.db) = RefsOf(d)
    <2>1. PathsOf(x.db) = PathsOf(d) /\ NamesOf(x.db) = NamesOf(d)
      BY DEF PassAgain, PathsOf, NamesOf
    <2>2. RefsOf(x.db) = RefsOf(d)
      BY DEF PassAgain, RefsOf
    <2> QED
      BY <2>1, <2>2
  <1>3. Said(z.db, rows, i + 1)
    BY <1>1, <1>2, SaidNext DEF PassAgain
  <1>4. RefsUpto(rows, i + 1) = RefsUpto(rows, i) \cup {row.ref}
    BY UptoGrows
  <1>5. UserSet(x.db, z.db, row)
    BY <1>1, <1>2 DEF RowMade, Familiar
  <1>6. row.ref \in RefsOf(x.db)
    BY <1>2 DEF Familiar
  <1> HIDE DEF row
  <1>7. /\ z.db.nodes = d.nodes /\ z.db.roles = d.roles /\ z.db.keys = d.keys /\ z.db.next = d.next
        /\ DOMAIN z.db.users = DOMAIN d.users /\ \A u \in DOMAIN d.users : z.db.users[u].ref = d.users[u].ref
        /\ IsTables(z.db)
    BY <1>5, <1>6 DEF UserSet, PassAgain
  <1>8. \A u \in DOMAIN d.users : d.users[u].ref \notin RefsUpto(rows, i + 1) =>
           z.db.users[u] = d.users[u] /\ LinksOf(z.db, u) = LinksOf(d, u)
    BY <1>4, <1>5, <1>7 DEF UserSet, PassAgain
  <1>9. \A u : u \notin DOMAIN d.users => LinksOf(z.db, u) = LinksOf(d, u)
    BY <1>5, <1>6 DEF UserSet, PassAgain
  <1> QED
    BY <1>1, <1>3, <1>7, <1>8, <1>9 DEF PassAgain

\* The last row with a reference of the file.
LEMMA LastRow ==
    ASSUME NEW rows, NEW i \in Nat, NEW ref \in RefsUpto(rows, i)
    PROVE  \E j \in 1..i : rows[j].ref = ref /\ \A k \in (j + 1)..i : rows[k].ref # ref
  <1> DEFINE Final(n) == \E j \in 1..n : rows[j].ref = ref /\ \A k \in (j + 1)..n : rows[k].ref # ref
             Good == {n \in Nat : ref \in RefsUpto(rows, n) => Final(n)}
  <1>1. 0 \in Good
    BY UptoGrows
  <1>2. ASSUME NEW n \in Nat, n \in Good PROVE n + 1 \in Good
    <2> SUFFICES ASSUME ref \in RefsUpto(rows, n + 1) PROVE Final(n + 1)
      OBVIOUS
    <2>1. CASE rows[n + 1].ref = ref
      <3>1. n + 1 \in 1..(n + 1) /\ ((n + 1) + 1)..(n + 1) = {}
        OBVIOUS
      <3> QED
        BY <2>1, <3>1
    <2>2. CASE rows[n + 1].ref # ref
      <3>1. ref \in RefsUpto(rows, n)
        BY <2>2, UptoGrows
      <3>2. PICK j \in 1..n : rows[j].ref = ref /\ \A k \in (j + 1)..n : rows[k].ref # ref
        BY <1>2, <3>1
      <3>3. j \in 1..(n + 1) /\ \A k \in (j + 1)..(n + 1) : k \in (j + 1)..n \/ k = n + 1
        OBVIOUS
      <3> QED
        BY <2>2, <3>2, <3>3
    <2> QED
      BY <2>1, <2>2
  <1> HIDE DEF Good
  <1>3. i \in Good
    BY <1>1, <1>2, NatInduct
  <1> QED
    BY <1>3 DEF Good

\* A second pass ends with the tables it began with.
LEMMA AgainSame ==
    ASSUME NEW d, Unique(d), IsTables(d), NEW rows, NEW n \in Nat, n >= 1, Said(d, rows, n),
           NEW x, PassAgain(d, x, rows, n)
    PROVE  x.db = d
  <1>1. \A u \in DOMAIN d.users : x.db.users[u] = d.users[u] /\ LinksOf(x.db, u) = LinksOf(d, u)
    <2> SUFFICES ASSUME NEW u \in DOMAIN d.users
                 PROVE  x.db.users[u] = d.users[u] /\ LinksOf(x.db, u) = LinksOf(d, u)
      OBVIOUS
    <2>1. CASE d.users[u].ref \notin RefsUpto(rows, n)
      BY <2>1 DEF PassAgain
    <2>2. CASE d.users[u].ref \in RefsUpto(rows, n)
      <3>1. PICK j \in 1..n : rows[j].ref = d.users[u].ref /\ \A k \in (j + 1)..n : rows[k].ref # d.users[u].ref
        BY <2>2, LastRow
      <3>2. u \in UserOf(d, rows[j].ref) /\ u \in UserOf(x.db, rows[j].ref)
        BY <3>1 DEF UserOf, PassAgain
      <3>3. AsRow(d, u, rows[j])
        BY <3>1, <3>2 DEF Said
      <3>4. AsRow(x.db, u, rows[j])
        BY <3>1, <3>2 DEF Said, PassAgain
      <3>5. NodeAt(x.db, rows[j].path) = NodeAt(d, rows[j].path) /\ \A k, l \in NodeAt(d, rows[j].path) : k = l
        BY DEF PassAgain, NodeAt, Unique
      <3>6. RolesIn(x.db, Range(rows[j].roles)) = RolesIn(d, Range(rows[j].roles))
        BY DEF PassAgain, RolesIn
      <3> QED
        BY <3>3, <3>4, <3>5, <3>6 DEF AsRow
    <2> QED
      BY <2>1, <2>2
  <1>2. \A u : LinksOf(x.db, u) = LinksOf(d, u)
    BY <1>1 DEF PassAgain
  <1>3. x.db.links = d.links
    <2>1. \A p \in x.db.links : p \in LinksOf(d, p[1])
      BY <1>2 DEF LinksOf
    <2>2. \A p \in d.links : p \in LinksOf(x.db, p[1])
      BY <1>2 DEF LinksOf
    <2> QED
      BY <2>1, <2>2 DEF LinksOf
  <1>4. IsTables(x.db) /\ DOMAIN x.db.users = DOMAIN d.users
    BY DEF PassAgain
  <1>5. x.db.users = d.users
    BY <1>1, <1>4 DEF IsTables
  <1>6. x.db.nodes = d.nodes /\ x.db.roles = d.roles /\ x.db.keys = d.keys /\ x.db.next = d.next
    BY DEF PassAgain
  <1> QED
    BY <1>3, <1>4, <1>5, <1>6 DEF IsTables

\* A file's rows, one by one.
LEMMA RowsAre ==
    ASSUME NEW rows \in FileRows
    PROVE  /\ Len(rows) \in Nat /\ DOMAIN rows = 1..Len(rows)
           /\ \A i \in 1..Len(rows) : /\ rows[i].ref \in Refs /\ rows[i].path \in Seq(Names)
                                      /\ rows[i].roles \in Seq(Names)
  <1> DEFINE Row == [ref: Refs, path: Seq(Names), roles: Seq(Names)]
  <1>1. \A r \in Row : r.ref \in Refs /\ r.path \in Seq(Names) /\ r.roles \in Seq(Names)
    OBVIOUS
  <1>2. rows \in Seq(Row)
    BY DEF FileRows
  <1> HIDE DEF Row
  <1>3. Len(rows) \in Nat /\ DOMAIN rows = 1..Len(rows) /\ \A i \in 1..Len(rows) : rows[i] \in Row
    BY <1>2
  <1> QED
    BY <1>1, <1>3

\* An import starts with what it read.
LEMMA StartIsSynced ==
    ASSUME NEW d, TablesTyped(d)
    PROVE  /\ Synced(Start(d, d)) /\ Start(d, d).db = d
           /\ Range(Start(d, d).nodes) = {} /\ Range(Start(d, d).roles) = {} /\ Len(Start(d, d).actions) = 0
  <1>1. /\ DOMAIN Start(d, d) = {"db", "seen", "failed", "nodes", "roles", "actions"}
        /\ Start(d, d).db = d /\ Start(d, d).seen = d
        /\ Start(d, d).nodes = <<>> /\ Start(d, d).roles = <<>> /\ Start(d, d).actions = <<>>
    BY DEF Start
  <1>2. ~Start(d, d).failed
    BY Zenon DEF Start
  <1>3. {"nodes", "roles", "users"} \subseteq DOMAIN d
    BY DEF TablesTyped, RowsTyped
  <1>4. /\ <<>> \in Seq(Seq(Names)) /\ <<>> \in Seq(Names) /\ <<>> \in Seq({"create", "update"})
        /\ Len(<<>>) = 0 /\ Range(<<>>) = {}
    BY DEF Range
  <1>5. Synced(Start(d, d))
    BY <1>1, <1>2, <1>3, <1>4 DEF Synced
  <1> QED
    BY <1>1, <1>4, <1>5

\* What a pass over a file makes.
LEMMA FirstPass ==
    ASSUME NEW d, TablesTyped(d), NEW rows \in FileRows, NEW g, g[0] = Start(d, d),
           \A i \in 1..Len(rows) : g[i] = ImportRow(g[i - 1], rows[i])
    PROVE  PassMade(d, g[Len(rows)], rows, Len(rows))
  <1> DEFINE n == Len(rows)
             Good == {i \in Nat : i <= n => PassMade(d, g[i], rows, i)}
  <1>1. /\ n \in Nat
        /\ \A i \in 1..n : rows[i].ref \in Refs /\ rows[i].path \in Seq(Names) /\ rows[i].roles \in Seq(Names)
    BY RowsAre
  <1>2. \A i \in 1..n : g[i] = ImportRow(g[i - 1], rows[i])
    OBVIOUS
  <1> HIDE DEF n
  <1>3. 0 \in Good
    <2> DEFINE x == g[0]
    <2>1. Synced(x) /\ x.db = d /\ Range(x.nodes) = {} /\ Range(x.roles) = {} /\ Len(x.actions) = 0
      BY StartIsSynced
    <2>2. PathsUpto(rows, 0) = {} /\ NamesUpto(rows, 0) = {} /\ RefsUpto(rows, 0) = {} /\ 1..0 = {} /\ ~(0 >= 1)
      BY UptoGrows
    <2>3. Said(d, rows, 0)
      BY <2>2 DEF Said
    <2> HIDE DEF x
    <2>4. PassMade(d, x, rows, 0)
      BY <2>1, <2>2, <2>3 DEF PassMade
    <2> QED
      BY <2>4 DEF x
  <1>4. ASSUME NEW i \in Nat, i \in Good PROVE i + 1 \in Good
    <2> SUFFICES ASSUME i + 1 <= n PROVE PassMade(d, g[i + 1], rows, i + 1)
      BY <1>1
    <2>1. PassMade(d, g[i], rows, i) /\ i + 1 \in 1..n /\ (i + 1) - 1 = i
      BY <1>1, <1>4
    <2> HIDE DEF Good
    <2>2. g[i + 1] = ImportRow(g[i], rows[i + 1])
      BY <1>2, <2>1
    <2>3. rows[i + 1].ref \in Refs /\ rows[i + 1].path \in Seq(Names) /\ rows[i + 1].roles \in Seq(Names)
      BY <1>1, <2>1
    <2> QED
      BY <2>1, <2>2, <2>3, PassStep
  <1> HIDE DEF Good
  <1>5. n \in Good
    BY <1>1, <1>3, <1>4, NatInduct
  <1> QED
    BY <1>1, <1>5 DEF Good, n

\* What a pass over a file makes of tables that know all of it.
LEMMA SecondPass ==
    ASSUME NEW d, TablesTyped(d), NEW rows \in FileRows, NEW g, g[0] = Start(d, d),
           \A i \in 1..Len(rows) : g[i] = ImportRow(g[i - 1], rows[i]),
           \A i \in 1..Len(rows) : Familiar(d, rows[i])
    PROVE  PassAgain(d, g[Len(rows)], rows, Len(rows))
  <1> DEFINE n == Len(rows)
             Good == {i \in Nat : i <= n => PassAgain(d, g[i], rows, i)}
  <1>1. /\ n \in Nat
        /\ \A i \in 1..n : rows[i].ref \in Refs /\ rows[i].path \in Seq(Names) /\ rows[i].roles \in Seq(Names)
    BY RowsAre
  <1>2. \A i \in 1..n : g[i] = ImportRow(g[i - 1], rows[i]) /\ Familiar(d, rows[i])
    OBVIOUS
  <1> HIDE DEF n
  <1>3. 0 \in Good
    <2> DEFINE x == g[0]
    <2>1. Synced(x) /\ x.db = d
      BY StartIsSynced
    <2>2. RefsUpto(rows, 0) = {} /\ 1..0 = {} /\ ~(0 >= 1)
      BY UptoGrows
    <2>3. Said(d, rows, 0)
      BY <2>2 DEF Said
    <2> HIDE DEF x
    <2>4. PassAgain(d, x, rows, 0)
      BY <2>1, <2>2, <2>3 DEF PassAgain
    <2> QED
      BY <2>4 DEF x
  <1>4. ASSUME NEW i \in Nat, i \in Good PROVE i + 1 \in Good
    <2> SUFFICES ASSUME i + 1 <= n PROVE PassAgain(d, g[i + 1], rows, i + 1)
      BY <1>1
    <2>1. PassAgain(d, g[i], rows, i) /\ i + 1 \in 1..n /\ (i + 1) - 1 = i /\ \A j \in 1..i : j \in 1..n
      BY <1>1, <1>4
    <2> HIDE DEF Good
    <2>2. g[i + 1] = ImportRow(g[i], rows[i + 1]) /\ Familiar(d, rows[i + 1])
      BY <1>2, <2>1
    <2>3. rows[i + 1].ref \in Refs /\ rows[i + 1].path \in Seq(Names) /\ rows[i + 1].roles \in Seq(Names)
      BY <1>1, <2>1
    <2>4. NamesUpto(rows, i) \subseteq NamesOf(d)
      <3>1. \A j \in 1..i : Range(rows[j].roles) \subseteq NamesOf(d)
        BY <1>2, <2>1 DEF Familiar
      <3> QED
        BY <3>1 DEF NamesUpto
    <2> QED
      BY <2>1, <2>2, <2>3, <2>4, AgainStep
  <1> HIDE DEF Good
  <1>5. n \in Good
    BY <1>1, <1>3, <1>4, NatInduct
  <1> QED
    BY <1>1, <1>5 DEF Good, n

\* An import that knows the tables as they are is the pass over its rows.
LEMMA ImportIsPass ==
    ASSUME NEW d, TablesTyped(d), NEW rows \in FileRows, NEW x, x = ExecuteImport(d, d, rows)
    PROVE  /\ PassMade(d, x, rows, Len(rows))
           /\ (\A i \in 1..Len(rows) : Familiar(d, rows[i])) => PassAgain(d, x, rows, Len(rows))
  <1>1. Len(rows) \in Nat
    BY RowsAre
  <1>2. PICK g : /\ g[0] = Start(d, d) /\ x = [g[Len(rows)] EXCEPT !.failed = @ \/ ~Unique(g[Len(rows)].db)]
                 /\ \A i \in 1..Len(rows) : g[i] = ImportRow(g[i - 1], rows[i])
    BY <1>1, ExecuteImportIs
  <1> DEFINE y == g[Len(rows)]
  <1>3. PassMade(d, y, rows, Len(rows))
    BY <1>2, FirstPass
  <1>4. (\A i \in 1..Len(rows) : Familiar(d, rows[i])) => PassAgain(d, y, rows, Len(rows))
    BY <1>2, SecondPass
  <1>5. x = [y EXCEPT !.failed = @ \/ ~Unique(y.db)]
    BY <1>2
  <1> HIDE DEF y
  <1>6. DOMAIN y = {"db", "seen", "failed", "nodes", "roles", "actions"} /\ ~y.failed /\ Unique(y.db) /\ Synced(y)
    BY <1>3 DEF PassMade, Synced, TablesTyped
  <1>7. /\ DOMAIN x = DOMAIN y /\ x.db = y.db /\ x.seen = y.seen
        /\ x.nodes = y.nodes /\ x.roles = y.roles /\ x.actions = y.actions
    BY <1>5, <1>6
  <1>8. ~x.failed
    BY <1>5, <1>6, Zenon
  <1>9. Synced(x)
    BY <1>6, <1>7, <1>8 DEF Synced
  <1>10. PassMade(d, x, rows, Len(rows))
    BY <1>3, <1>7, <1>9 DEF PassMade
  <1>11. PassAgain(d, y, rows, Len(rows)) => PassAgain(d, x, rows, Len(rows))
    BY <1>7, <1>9 DEF PassAgain
  <1> QED
    BY <1>4, <1>10, <1>11

\* The same file imported again changes nothing: a user ends as the last row with his
\* reference says, and that he was already.
LEMMA SecondImport ==
    ASSUME NEW d, TablesTyped(d), NEW rows \in FileRows, NEW x, x = ExecuteImport(d, d, rows)
    PROVE  ExecuteImport(x.db, x.db, rows).db = x.db
  <1> DEFINE n == Len(rows)
             e == x.db
             again == ExecuteImport(e, e, rows)
  <1>1. n \in Nat /\ PassMade(d, x, rows, n)
    BY RowsAre, ImportIsPass
  <1> HIDE DEF n
  <1>2. TablesTyped(e) /\ Said(e, rows, n) /\ (n >= 1 => IsTables(e))
    BY <1>1 DEF PassMade, Synced
  <1>3. \A i \in 1..n : Familiar(e, rows[i])
    <2>1. PathsUpto(rows, n) \subseteq PathsOf(e) /\ NamesUpto(rows, n) \subseteq NamesOf(e) /\ RefsUpto(rows, n) \subseteq RefsOf(e)
      BY <1>1 DEF PassMade
    <2> SUFFICES ASSUME NEW i \in 1..n PROVE Familiar(e, rows[i])
      OBVIOUS
    <2>2. Range(PathPrefixes(rows[i].path)) \subseteq PathsUpto(rows, n)
      BY DEF PathsUpto
    <2>3. Range(rows[i].roles) \subseteq NamesUpto(rows, n)
      BY DEF NamesUpto
    <2>4. rows[i].ref \in RefsUpto(rows, n)
      BY DEF RefsUpto
    <2> QED
      BY <2>1, <2>2, <2>3, <2>4 DEF Familiar
  <1> HIDE DEF e
  <1>4. PassAgain(e, again, rows, n)
    BY <1>2, <1>3, ImportIsPass DEF n
  <1> HIDE DEF again
  <1>5. CASE n >= 1
    BY <1>1, <1>2, <1>4, <1>5, AgainSame DEF TablesTyped, again, e
  <1>6. CASE n = 0
    <2>1. PICK g : /\ g[0] = Start(e, e) /\ again = [g[n] EXCEPT !.failed = @ \/ ~Unique(g[n].db)]
      BY <1>1, ExecuteImportIs DEF again, n
    <2>2. again = [Start(e, e) EXCEPT !.failed = @ \/ ~Unique(Start(e, e).db)]
      BY <1>6, <2>1
    <2>3. again.db = e
      BY <2>2 DEF Start
    <2> QED
      BY <2>3 DEF again, e
  <1> QED
    BY <1>1, <1>5, <1>6

\* The root is a prefix of no path but its own.
LEMMA PrefixesOfPath ==
    ASSUME NEW path \in Seq(Names)
    PROVE  <<>> \in Range(PathPrefixes(path)) <=> path = <<>>
  <1>1. CASE path = <<>>
    BY <1>1, PathIsPrefix
  <1>2. CASE path # <<>>
    <2> DEFINE n == Len(path)
    <2>1. n \in Nat /\ PathPrefixes(path) = [i \in 1..n |-> SubSeq(path, 1, i)]
      BY <1>2 DEF PathPrefixes
    <2>2. \A i \in 1..n : Len(SubSeq(path, 1, i)) = i
      OBVIOUS
    <2>3. \A i \in 1..n : SubSeq(path, 1, i) # <<>>
      <3>1. Len(<<>>) = 0
        OBVIOUS
      <3>2. \A i \in 1..n : i # 0
        BY <2>1
      <3> QED
        BY <2>2, <3>1, <3>2
    <2> HIDE DEF n
    <2>4. Range(PathPrefixes(path)) = {SubSeq(path, 1, i) : i \in 1..n}
      BY <2>1 DEF Range
    <2> QED
      BY <1>2, <2>3, <2>4
  <1> QED
    BY <1>1, <1>2

\* What is missing in the tables.
LEMMA MissingIs ==
    ASSUME NEW d
    PROVE  /\ \A p : NodeAt(d, p) = {} <=> p \notin PathsOf(d)
           /\ \A r : UserOf(d, r) = {} <=> r \notin RefsOf(d)
           /\ Range(d.roles) = NamesOf(d)
  BY DEF NodeAt, UserOf, PathsOf, RefsOf, NamesOf, Range

\* The preview announces the nodes the pass makes, and the root with them.
LEMMA PreviewNodesAre ==
    ASSUME NEW d, NEW rows \in FileRows
    PROVE  PathsUpto(rows, Len(rows)) \ PathsOf(d)
              = PreviewImport(d, rows).nodes \cup IF PreviewImport(d, rows).root THEN { <<>> } ELSE {}
  <1> DEFINE n == Len(rows)
             P == PathsUpto(rows, n) \ PathsOf(d)
             root == NodeAt(d, <<>>) = {} /\ \E i \in DOMAIN rows : rows[i].path = <<>>
  <1>1. n \in Nat /\ DOMAIN rows = 1..n /\ \A i \in 1..n : rows[i].path \in Seq(Names)
    BY RowsAre
  <1>2. PreviewImport(d, rows).nodes = PreviewNodes(d, rows)
    BY DEF PreviewImport
  <1>3. PreviewImport(d, rows).root <=> root
    BY Zenon DEF PreviewImport
  <1> HIDE DEF n
  <1>4. PreviewNodes(d, rows) = {p \in P : p # <<>>}
    BY <1>1, MissingIs DEF PreviewNodes, PathsUpto
  <1>5. root <=> <<>> \in P
    <2>1. <<>> \in PathsUpto(rows, n) <=> \E i \in 1..n : <<>> \in Range(PathPrefixes(rows[i].path))
      BY DEF PathsUpto
    <2>2. <<>> \in PathsUpto(rows, n) <=> \E i \in 1..n : rows[i].path = <<>>
      BY <1>1, <2>1, PrefixesOfPath
    <2> QED
      BY <1>1, <2>2, MissingIs
  <1> HIDE DEF P, root
  <1>6. P = {p \in P : p # <<>>} \cup IF root THEN { <<>> } ELSE {}
    BY <1>5
  <1> QED
    BY <1>2, <1>3, <1>4, <1>6 DEF P, n

\* The preview announces the roles the pass makes, but those of rows without a path.
LEMMA PreviewRolesAre ==
    ASSUME NEW d, NEW rows \in FileRows
    PROVE  /\ PreviewImport(d, rows).roles \subseteq NamesUpto(rows, Len(rows)) \ NamesOf(d)
           /\ (\A i \in DOMAIN rows : rows[i].path # <<>>) =>
                 PreviewImport(d, rows).roles = NamesUpto(rows, Len(rows)) \ NamesOf(d)
  <1> DEFINE n == Len(rows)
  <1>1. DOMAIN rows = 1..n
    BY RowsAre
  <1>2. PreviewImport(d, rows).roles
           = (UNION {Range(rows[i].roles) : i \in {j \in DOMAIN rows : rows[j].path # <<>>}}) \ NamesOf(d)
    BY MissingIs DEF PreviewImport, PreviewRoles
  <1> HIDE DEF n
  <1>3. (UNION {Range(rows[i].roles) : i \in {j \in DOMAIN rows : rows[j].path # <<>>}}) \subseteq NamesUpto(rows, n)
    BY <1>1 DEF NamesUpto
  <1>4. ASSUME \A i \in DOMAIN rows : rows[i].path # <<>>
        PROVE  (UNION {Range(rows[i].roles) : i \in {j \in DOMAIN rows : rows[j].path # <<>>}}) = NamesUpto(rows, n)
    <2>1. {j \in DOMAIN rows : rows[j].path # <<>>} = 1..n
      BY <1>1, <1>4
    <2> QED
      BY <2>1 DEF NamesUpto
  <1> QED
    BY <1>2, <1>3, <1>4 DEF n

\* The preview announces each row's action, if no reference comes twice.
LEMMA PreviewActionsAre ==
    ASSUME NEW d, NEW rows \in FileRows, \A i, j \in DOMAIN rows : rows[i].ref = rows[j].ref => i = j,
           NEW x, PassMade(d, x, rows, Len(rows))
    PROVE  PreviewImport(d, rows).actions = x.actions
  <1> DEFINE n == Len(rows)
             preview == [i \in DOMAIN rows |-> IF UserOf(d, rows[i].ref) = {} THEN "create" ELSE "update"]
             made == x.actions
  <1>1. n \in Nat /\ DOMAIN rows = 1..n
    BY RowsAre
  <1>2. PreviewImport(d, rows).actions = preview
    BY DEF PreviewImport
  <1> HIDE DEF n
  <1>3. /\ made \in Seq({"create", "update"}) /\ Len(made) = n
        /\ \A j \in 1..n : made[j] = IF rows[j].ref \in RefsOf(d) \cup RefsUpto(rows, j - 1) THEN "update" ELSE "create"
    BY DEF PassMade, Synced, n
  <1> HIDE DEF made
  <1>4. made = [i \in 1..n |-> made[i]]
    BY <1>3
  <1>5. \A j \in 1..n : rows[j].ref \notin RefsUpto(rows, j - 1)
    <2> SUFFICES ASSUME NEW j \in 1..n, NEW i \in 1..(j - 1), rows[i].ref = rows[j].ref PROVE FALSE
      BY DEF RefsUpto
    <2>1. i \in 1..n /\ i # j
      BY <1>1
    <2> QED
      BY <1>1, <2>1
  <1>6. \A i \in 1..n : made[i] = IF UserOf(d, rows[i].ref) = {} THEN "create" ELSE "update"
    BY <1>3, <1>5, MissingIs
  <1> QED
    BY <1>1, <1>2, <1>4, <1>6 DEF made

\* Preview and import agree on all tables of the types.
LEMMA PreviewHolds ==
    ASSUME NEW d, TablesTyped(d), Batches \subseteq FileRows
    PROVE  AsPreviewed(d)
  <1> SUFFICES ASSUME NEW rows \in Batches
               PROVE  LET preview == PreviewImport(d, rows)
                          x == ExecuteImport(d, d, rows)
                          distinct == \A i, j \in DOMAIN rows : rows[i].ref = rows[j].ref => i = j
                          placed == \A i \in DOMAIN rows : rows[i].path # <<>>
                      IN  /\ ~x.failed
                          /\ Range(x.nodes) = preview.nodes \cup IF preview.root THEN { <<>> } ELSE {}
                          /\ preview.roles \subseteq Range(x.roles)
                          /\ placed => preview.roles = Range(x.roles)
                          /\ distinct => preview.actions = x.actions
                          /\ ExecuteImport(x.db, x.db, rows).db = x.db
    BY Zenon DEF AsPreviewed
  <1> DEFINE preview == PreviewImport(d, rows)
             x == ExecuteImport(d, d, rows)
             distinct == \A i, j \in DOMAIN rows : rows[i].ref = rows[j].ref => i = j
             placed == \A i \in DOMAIN rows : rows[i].path # <<>>
             n == Len(rows)
  <1>1. rows \in FileRows
    OBVIOUS
  <1>2. PassMade(d, x, rows, n)
    BY <1>1, ImportIsPass
  <1>3. ExecuteImport(x.db, x.db, rows).db = x.db
    BY <1>1, SecondImport
  <1>4. distinct => preview.actions = x.actions
    BY <1>1, <1>2, PreviewActionsAre
  <1>5. PathsUpto(rows, n) \ PathsOf(d) = preview.nodes \cup IF preview.root THEN { <<>> } ELSE {}
    BY <1>1, PreviewNodesAre
  <1>6. /\ preview.roles \subseteq NamesUpto(rows, n) \ NamesOf(d)
        /\ placed => preview.roles = NamesUpto(rows, n) \ NamesOf(d)
    BY <1>1, PreviewRolesAre
  <1> HIDE DEF x, preview, distinct, placed, n
  <1>7. /\ ~x.failed
        /\ Range(x.nodes) = PathsUpto(rows, n) \ PathsOf(d) /\ Range(x.roles) = NamesUpto(rows, n) \ NamesOf(d)
    BY <1>2 DEF PassMade, Synced
  <1>8. Range(x.nodes) = preview.nodes \cup IF preview.root THEN { <<>> } ELSE {}
    BY <1>5, <1>7
  <1>9. preview.roles \subseteq Range(x.roles) /\ (placed => preview.roles = Range(x.roles))
    BY <1>6, <1>7
  <1> QED
    BY <1>3, <1>4, <1>7, <1>8, <1>9 DEF x, preview, distinct, placed

\* An import executed on the tables it was previewed on does what the preview said, and the
\* same batch executed again changes nothing (preview_excel_import and
\* execute_excel_import, pipeline.py), for every file and on all the tables requests leave.
THEOREM ImportsAreAsPreviewedHolds == Spec => ImportsAreAsPreviewed
  <1>1. Batches \subseteq FileRows
    BY DirectoryAssumption DEF FileRows
  <1>2. DirectoryInv => AsPreviewed(db)
    BY <1>1, PreviewHolds DEF DirectoryInv, TablesOK
  <1>3. DirectoryInv' => [db' # db => AsPreviewed(db')]_db
    <2>1. DirectoryInv' => TablesTyped(db')
      BY DEF DirectoryInv, TablesOK, TablesTyped, RowsTyped, IdsIn, RowIds, KeyRow, NodeRow, UserRow, Unique
    <2> QED
      BY <1>1, <2>1, PreviewHolds
  <1> QED
    BY <1>2, <1>3, DirectoryInvHolds, PTL DEF ImportsAreAsPreviewed
=============================================================================
