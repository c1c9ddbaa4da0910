---------------------------- MODULE ImporterPull ----------------------------
(***************************************************************************)
(* A pull of users from a third-party directory (adg/control_plane/        *)
(* imports/connectors): a token, a breadth-first walk of the departments   *)
(* below the configured root, the users of each page by page, and the rows *)
(* that go on to the preview or the import of Directory.  Each action is   *)
(* one request to the platform, which others change between requests.      *)
(***************************************************************************)
EXTENDS Naturals, FiniteSets, Sequences, Functions, SequencesExt, Maps

CONSTANTS
    Department, Person,   \* numbers: the platforms list both in their order
    Roots,                \* configured root departments
    Letters,              \* department -> length of its name and of one delimiter
    Remotes,              \* platforms to start from
    PageSize, MaxChanges

\* Every department is below a top one, whose parent is 0: there is no cycle.
Tree(parent) ==
    /\ parent \in [Department -> Department \cup {0}]
    /\ \A S \in (SUBSET Department) \ {{}} : \E d \in S : parent[d] \notin S

ASSUME PullAssumption ==
    /\ Department \subseteq Nat \ {0} /\ IsFiniteSet(Department)
    /\ Person \subseteq Nat \ {0} /\ IsFiniteSet(Person)
    /\ Roots \subseteq Department /\ Letters \in [Department -> Nat \ {0}]
    /\ PageSize \in Nat \ {0}
    /\ \A r \in Remotes :
        /\ r = [parent |-> r.parent, member |-> r.member]
        /\ Tree(r.parent) /\ r.member \subseteq Person \X Department

VARIABLES
    remote,    \* [parent: department -> department or 0, member: person-department pairs]
    pull,      \* the request to pull
    rows,      \* what it ends with: person -> organization path
    seen       \* history: what was above its root when the pull began, what has stayed since,
               \* what has moved, and how many memberships have ended

vars == <<remote, pull, rows, seen>>

Platform == {"dingtalk", "feishu", "wecom"}
Phase == {"idle", "token", "departments", "users", "normalize", "done", "failed", "crashed"}
Running == {"token", "departments", "users", "normalize"}

Init ==
    /\ remote \in Remotes
    /\ pull = [phase |-> "idle"]
    /\ rows = Nothing
    /\ seen = [above |-> {}, stayed |-> {}, moved |-> {}, left |-> 0, changes |-> 0]

-----------------------------------------------------------------------------
(* The platform: its tree, and its answers.                                *)

RemotePath(r) ==
    LET path[d \in Department] == IF r.parent[d] = 0 THEN <<d>> ELSE Append(path[r.parent[d]], d)
    IN  path

Below(r, d) == {c \in Department : d \in Range(RemotePath(r)[c])}
Sorted(S) == CHOOSE s \in [1..Cardinality(S) -> S] : \A i, j \in DOMAIN s : i < j => s[i] < s[j]

\* A department's children, or for WeCom itself and all below it.
Listed(platform, d) ==
    IF platform = "wecom" THEN Below(remote, d) ELSE {c \in Department : remote.parent[c] = d}

Members(r, d) == {p \in Person : <<p, d>> \in r.member}
DepartmentsOf(r, p) == {d \in Department : <<p, d>> \in r.member}

\* A page of the list of S.  Feishu continues after the last item it gave, whatever has
\* come or gone before it; DingTalk at an offset; WeCom gives everything at once.
Page(platform, S, from) ==
    LET rest == IF platform = "feishu" THEN Sorted({x \in S : x > from})
                ELSE SubSeq(Sorted(S), from + 1, Cardinality(S))
        page == IF platform = "wecom" THEN rest ELSE SubSeq(rest, 1, IF Len(rest) < PageSize THEN Len(rest) ELSE PageSize)
    IN  [items |-> page, more |-> Len(page) < Len(rest)]

\* A department list of DingTalk is one answer.
DepartmentPage(platform, d, from) ==
    IF platform = "dingtalk" THEN [items |-> Sorted(Listed(platform, d)), more |-> FALSE]
    ELSE Page(platform, Listed(platform, d), from)

\* Only what changes during the pull matters to it.
Changed(new) ==
    /\ pull.phase \in Running /\ seen.changes < MaxChanges
    /\ remote' = new
    /\ seen' = [seen EXCEPT !.stayed = @ \cap new.member,
                            !.moved = @ \cup {d \in Department : new.parent[d] # remote.parent[d]},
                            !.left = @ + Cardinality(remote.member \ new.member), !.changes = @ + 1]
    /\ UNCHANGED <<pull, rows>>

join == \E p \in Person, d \in Department :
    <<p, d>> \notin remote.member /\ Changed([remote EXCEPT !.member = @ \cup {<<p, d>>}])

leave == \E m \in remote.member : Changed([remote EXCEPT !.member = @ \ {m}])

\* A department goes under another, not below itself.
move == \E d, to \in Department :
    /\ remote.parent[d] \notin {0, to} /\ to \notin Below(remote, d)
    /\ Changed([remote EXCEPT !.parent[d] = to])

-----------------------------------------------------------------------------
(* The pull. *)

fetch ==
    /\ pull.phase = "idle"
    /\ \E platform \in Platform, root \in Roots :
        /\ pull' = [ phase |-> "token", platform |-> platform, root |-> root,
                     queue |-> <<root>>, visited |-> {}, records |-> Nothing, order |-> <<>>,
                     todo |-> <<>>, from |-> 0, users |-> Nothing ]
        /\ seen' = [seen EXCEPT !.stayed = remote.member, !.above = Range(RemotePath(remote)[root])]
    /\ UNCHANGED <<remote, rows>>

fetch_access_token ==
    /\ pull.phase = "token"
    /\ pull' = [pull EXCEPT !.phase = "departments"]
    /\ UNCHANGED <<remote, rows, seen>>

\* A refusal, a malformed answer, or a timeout ends the pull, and nothing is imported.
request_fails ==
    /\ pull.phase \in {"token", "departments", "users"}
    /\ pull' = [phase |-> "failed"]
    /\ UNCHANGED <<remote, rows, seen>>

\* Mutant: the page after next.
NextPage_Twice(platform, from, items) == IF platform = "feishu" THEN Last(items) ELSE from + Len(items) + 1

\* Mutant: the same page again.
NextPage_Same(platform, from, items) == from

\* Where the next page begins.
NextPage(platform, from, items) == IF platform = "feishu" THEN Last(items) ELSE from + Len(items)

\* Mutant: nobody is looked for in the root itself.
UserDepartments_NotRoot(p) == p.order

\* Users are fetched for the departments recorded, and Feishu's also for the root.
UserDepartments(p) == IF p.platform = "feishu" THEN <<p.root>> \o p.order ELSE p.order

\* What is left of a sequence without the members of S.
Dropping(s, S) ==
    LET kept[i \in 0..Len(s)] ==
            IF i = 0 THEN <<>> ELSE IF s[i] \in S THEN kept[i - 1] ELSE Append(kept[i - 1], s[i])
    IN  kept[Len(s)]

\* A department is recorded, with its parent, where it is first met, and then queued.
list_departments ==
    /\ pull.phase = "departments"
    /\ \E page \in {DepartmentPage(pull.platform, Head(pull.queue), pull.from)} :
        LET d == Head(pull.queue)
            new == Range(page.items) \ DOMAIN pull.records
            recorded == [pull EXCEPT !.records = @ ++ [c \in new |-> remote.parent[c]],
                                     !.order = @ \o Sorted(new)]
            met == Sorted(new \ {d})
            queue == Dropping(Tail(pull.queue) \o met, pull.visited \cup {d})
            users == [recorded EXCEPT !.phase = "users", !.todo = UserDepartments(recorded), !.from = 0]
        IN  pull' =
              IF page.more
              THEN [recorded EXCEPT !.queue = @ \o met, !.from = NextPage(pull.platform, @, page.items)]
              ELSE IF queue # <<>>
              THEN [recorded EXCEPT !.queue = queue, !.visited = @ \cup {d}, !.from = 0]
              ELSE IF users.todo = <<>> THEN [users EXCEPT !.phase = "normalize"]
              ELSE users
    /\ UNCHANGED <<remote, rows, seen>>

\* Every row lists the departments its user is in; those of the rows of one user are
\* put together.
list_users ==
    /\ pull.phase = "users"
    /\ \E page \in {Page(pull.platform, Members(remote, Head(pull.todo)), pull.from)} :
        LET Before(p) == IF p \in DOMAIN pull.users THEN pull.users[p] ELSE {}
            users == [p \in Range(page.items) |-> Before(p) \cup DepartmentsOf(remote, p)] ++ pull.users
        IN  pull' =
              IF page.more
              THEN [pull EXCEPT !.users = users, !.from = NextPage(pull.platform, @, page.items)]
              ELSE [pull EXCEPT !.users = users, !.from = 0, !.todo = Tail(@),
                                !.phase = IF Tail(pull.todo) = <<>> THEN "normalize" ELSE "users"]
    /\ UNCHANGED <<remote, rows, seen>>

-----------------------------------------------------------------------------
(* The organization paths. *)

Top(p, d) == p.records[d] \notin DOMAIN p.records \ {d} \/ (p.platform = "wecom" /\ d = p.root)

Cycles(p) ==
    {S \in SUBSET DOMAIN p.records : S # {} /\ \A d \in S : ~Top(p, d) /\ p.records[d] \in S}

\* build_path, which recurs along the recorded parents.
Paths(p) ==
    LET path[d \in DOMAIN p.records] == IF Top(p, d) THEN <<d>> ELSE Append(path[p.records[d]], d)
    IN  path

PathOf(p, d) == IF d \in DOMAIN p.records THEN Paths(p)[d] ELSE <<>>

\* The length of a path put together as a string (and one delimiter more).
Width(path) ==
    LET width[i \in 0..Len(path)] == IF i = 0 THEN 0 ELSE width[i - 1] + Letters[path[i]]
    IN  width[Len(path)]

\* Mutant: the shortest path is taken.
OrgPath_Shortest(p, departments) ==
    LET paths == {PathOf(p, d) : d \in departments}
    IN  IF p.platform = "wecom" THEN FlattenSeq(SetToSeq(paths))
        ELSE CHOOSE x \in paths : \A z \in paths : Width(x) <= Width(z)

\* The path of a user of these departments: the longest string of theirs, or for WeCom all
\* of them one after the other.  (Which of several longest, and in which order, is left open.)
OrgPath(p, departments) ==
    LET paths == {PathOf(p, d) : d \in departments}
    IN  IF p.platform = "wecom" THEN FlattenSeq(SetToSeq(paths))
        ELSE CHOOSE x \in paths : \A z \in paths : Width(x) >= Width(z)

\* WeCom refuses a user of a department it did not record.
normalize ==
    /\ pull.phase = "normalize"
    /\ \/ /\ Cycles(pull) # {}
          /\ pull' = [phase |-> "crashed"] /\ UNCHANGED rows
       \/ /\ Cycles(pull) = {} /\ pull.platform = "wecom"
          /\ ~(UNION Range(pull.users) \subseteq DOMAIN pull.records)
          /\ pull' = [phase |-> "failed"] /\ UNCHANGED rows
       \/ /\ Cycles(pull) = {}
          /\ pull.platform = "wecom" => UNION Range(pull.users) \subseteq DOMAIN pull.records
          /\ pull' = [pull EXCEPT !.phase = "done"]
          /\ rows' = [p \in DOMAIN pull.users |-> OrgPath(pull, pull.users[p])]
    /\ UNCHANGED <<remote, seen>>

-----------------------------------------------------------------------------
Changes == join \/ leave \/ move
Pulling == fetch_access_token \/ list_departments \/ list_users \/ normalize

Next == Changes \/ fetch \/ Pulling \/ request_fails

Spec == Init /\ [][Next]_vars

\* The thread of the request goes on: every answer comes, or its timeout.
FairSpec == Spec /\ WF_vars(Pulling)

-----------------------------------------------------------------------------
InScope(p, d) == d \in Below(remote, p.root) /\ (p.platform = "dingtalk" => d # p.root)

\* Paging and the walk leave nobody out: who has been in a department below the root all
\* along is in the batch, with that department, whatever joined or left meanwhile.  DingTalk's
\* pages are offsets (dingtalk.py:160), so that somebody who leaves lets the next page begin
\* one too far: each that left may have cost one other membership, but no more.
\* A reorganization of departments is excepted.  (DingTalk's root itself is not asked for
\* users, dingtalk.py:62; Feishu's is.)
MembersFound ==
    pull.phase = "done" /\ seen.moved = {} =>
        LET missed == {m \in seen.stayed :
                         InScope(pull, m[2]) /\ ~(m[1] \in DOMAIN pull.users /\ m[2] \in pull.users[m[1]])}
        IN  Cardinality(missed) <= IF pull.platform = "dingtalk" THEN seen.left ELSE 0

\* The path of a department below the root, which DingTalk and Feishu leave out.
PathBelow(p, d) ==
    LET path == RemotePath(remote)[d]
        n == Len(RemotePath(remote)[p.root])
    IN  SubSeq(path, IF p.platform = "wecom" THEN n ELSE n + 1, Len(path))

\* The recursion of build_path (dingtalk.py:211, feishu.py:283, wecom.py:190) ends whatever
\* departments moved during the walk, unless the configured root, or one above it, was
\* moved itself (below one of its departments, which makes a cycle of recorded parents);
\* and if nothing changed, everybody is placed at one of his departments below the root (or
\* at none, if he has none there) and never above another of them: the longest string
\* (dingtalk.py:252, feishu.py:321) need not be the deepest department, but it is not one
\* that has a longer one below it.  (With WeCom, if he has one department.)
PathsAreReal ==
    /\ pull.phase = "crashed" => seen.above \cap seen.moved # {}
    /\ pull.phase = "done" /\ seen.changes = 0 =>
        \A p \in DOMAIN rows :
            LET mine == DepartmentsOf(remote, p)
                paths == {PathBelow(pull, d) : d \in mine \cap Below(remote, pull.root)} \cup {<<>>}
            IN  \/ pull.platform = "wecom" /\ Cardinality(mine) > 1
                \/ rows[p] \in paths /\ ~\E z \in paths : IsStrictPrefix(rows[p], z)

\* A pull comes to an end, though others go on changing the platform for a while.
PullEnds == (pull.phase \in Running) ~> (pull.phase \in Phase \ Running)
=============================================================================
