-------------------------- MODULE ImporterPullProofs --------------------------
(***************************************************************************)
(* A pull from a platform of any size, through any number of changes of    *)
(* it.  Nobody who stayed is left out, but for one by each who leaves from *)
(* the offsets of DingTalk, and the recursion along the parents ends       *)
(* unless the configured root or something above it moved.                 *)
(*                                                                         *)
(* Recursive functions along parent edges are reasoned about through sets  *)
(* closed upwards: a tree in which every set of departments has one whose  *)
(* parent is not in it.  The invariant says what the walk has recorded,    *)
(* what it has yet to look at, and whom the pages so far have shown.       *)
(***************************************************************************)
EXTENDS ImporterPull, SequenceTheorems, FiniteSetTheorems, WellFoundedInduction, TLAPS

-----------------------------------------------------------------------------
(* Induction. *)

\* What is so for 0, and for n + 1 if for n, is so for all numbers.
LEMMA NatInduct ==
    ASSUME NEW S, 0 \in S, \A n \in Nat : n \in S => n + 1 \in S
    PROVE  Nat \subseteq S
  <1> SUFFICES ASSUME Nat \ S # {} PROVE FALSE
    OBVIOUS
  <1> DEFINE T == Nat \ S
  <1>1. PICK n \in T : \A m \in T : <<m, n>> \notin OpToRel(<, Nat)
    BY NatLessThanWellFounded, WFMin, T \subseteq Nat, T # {}
  <1>2. \A m \in T : ~(m < n)
    BY <1>1 DEF OpToRel
  <1>3. n - 1 \in Nat /\ n - 1 \notin T
    BY <1>2
  <1> QED
    BY <1>3

-----------------------------------------------------------------------------
(* Paths along parents. *)

\* Up from every member of D, tops apart, there is another, and there is no cycle.
Upward(D, up, tops) ==
    /\ tops \subseteq D
    /\ \A d \in D \ tops : up[d] \in D
    /\ \A S \in (SUBSET (D \ tops)) \ {{}} : \E d \in S : up[d] \notin S

\* Each path is that of the member above with one more at the end.
IsPath(path, D, up, tops) ==
    path = [d \in D |-> IF d \in tops THEN <<d>> ELSE Append(path[up[d]], d)]

\* What is so for the tops, and for a member if for the one above it, is so for all.
LEMMA UpwardInduct ==
    ASSUME NEW D, NEW up, NEW tops, Upward(D, up, tops), NEW Good,
           tops \subseteq Good, \A d \in D \ tops : up[d] \in Good => d \in Good
    PROVE  D \subseteq Good
  <1> SUFFICES ASSUME D \ Good # {} PROVE FALSE
    OBVIOUS
  <1>1. PICK d \in D \ Good : up[d] \notin D \ Good
    <2>1. D \ Good \in (SUBSET (D \ tops)) \ {{}}
      OBVIOUS
    <2> QED
      BY <2>1 DEF Upward
  <1>2. d \in D \ tops /\ up[d] \in D
    BY DEF Upward
  <1> QED
    BY <1>1, <1>2

\* Two families of paths agree where both are.
LEMMA OnePath ==
    ASSUME NEW D, NEW up, NEW tops, Upward(D, up, tops),
           NEW A \in SUBSET D, NEW B \in SUBSET D, NEW f, NEW g,
           IsPath(f, A, up, tops), IsPath(g, B, up, tops),
           \A d \in A \ tops : up[d] \in A, \A d \in B \ tops : up[d] \in B
    PROVE  \A d \in A \cap B : f[d] = g[d]
  <1> DEFINE Good == {d \in D : d \in A \cap B => f[d] = g[d]}
  <1>1. \A d \in A : f[d] = IF d \in tops THEN <<d>> ELSE Append(f[up[d]], d)
    BY DEF IsPath
  <1>2. \A d \in B : g[d] = IF d \in tops THEN <<d>> ELSE Append(g[up[d]], d)
    BY DEF IsPath
  <1>3. tops \subseteq Good
    BY <1>1, <1>2 DEF Upward
  <1>4. ASSUME NEW d \in D \ tops, up[d] \in Good PROVE d \in Good
    BY <1>1, <1>2, <1>4
  <1> HIDE DEF Good
  <1>5. D \subseteq Good
    BY <1>3, <1>4, UpwardInduct
  <1> QED
    BY <1>5 DEF Good

\* The recursion that defines the paths ends: there are such paths.
LEMMA PathExists ==
    ASSUME NEW D, NEW up, NEW tops, Upward(D, up, tops)
    PROVE  \E path : IsPath(path, D, up, tops)
  <1> DEFINE Closed(A) == A \subseteq D /\ \A d \in A \ tops : up[d] \in A
             Parts == {A \in SUBSET D : Closed(A) /\ \E f : IsPath(f, A, up, tops)}
             U == UNION Parts
             Of(A) == CHOOSE f : IsPath(f, A, up, tops)
             Some(d) == CHOOSE A \in Parts : d \in A
             F == [d \in U |-> Of(Some(d))[d]]
  <1>1. \A A \in Parts : A \in SUBSET D /\ Closed(A) /\ IsPath(Of(A), A, up, tops)
    OBVIOUS
  <1>2. \A d \in U : Some(d) \in Parts /\ d \in Some(d)
    OBVIOUS
  <1>3. \A A \in Parts : \A d \in A : F[d] = Of(A)[d]
    <2> SUFFICES ASSUME NEW A \in Parts, NEW d \in A PROVE F[d] = Of(A)[d]
      OBVIOUS
    <2>1. d \in U /\ F[d] = Of(Some(d))[d]
      OBVIOUS
    <2> DEFINE B == Some(d)
    <2>2. B \in Parts /\ d \in B
      BY <1>2, <2>1
    <2> HIDE DEF B, Of, F, Parts
    <2>3. \A x \in A \cap B : Of(A)[x] = Of(B)[x]
      BY <1>1, <2>2, OnePath
    <2> QED
      BY <2>1, <2>2, <2>3 DEF B
  <1>4. Closed(U)
    BY <1>1
  <1>5. \A d \in U : F[d] = IF d \in tops THEN <<d>> ELSE Append(F[up[d]], d)
    <2> SUFFICES ASSUME NEW d \in U PROVE F[d] = IF d \in tops THEN <<d>> ELSE Append(F[up[d]], d)
      OBVIOUS
    <2>1. PICK A \in Parts : d \in A
      OBVIOUS
    <2> HIDE DEF Parts, Of, F
    <2>2. Of(A)[d] = IF d \in tops THEN <<d>> ELSE Append(Of(A)[up[d]], d)
      <3> DEFINE f == Of(A)
      <3>1. IsPath(f, A, up, tops)
        BY <1>1, <2>1
      <3> HIDE DEF f
      <3>2. f[d] = IF d \in tops THEN <<d>> ELSE Append(f[up[d]], d)
        BY <2>1, <3>1 DEF IsPath
      <3> QED
        BY <3>2 DEF f
    <2>3. d \notin tops => up[d] \in A
      BY <1>1, <2>1
    <2> QED
      BY <1>3, <2>1, <2>2, <2>3
  <1>6. U = D
    <2> SUFFICES ASSUME D \ U # {} PROVE FALSE
      BY <1>4
    <2>1. PICK d \in D \ U : d \in tops \/ up[d] \in U
      <3>1. CASE (D \ U) \cap tops # {}
        BY <3>1
      <3>2. CASE (D \ U) \cap tops = {}
        <4>1. D \ U \in (SUBSET (D \ tops)) \ {{}}
          BY <3>2
        <4>2. PICK d \in D \ U : up[d] \notin D \ U
          BY <4>1 DEF Upward
        <4>3. up[d] \in D
          BY <3>2 DEF Upward
        <4> QED
          BY <4>2, <4>3
      <3> QED
        BY <3>1, <3>2
    <2> DEFINE V == U \cup {d}
               G == [x \in V |-> IF x = d THEN IF d \in tops THEN <<d>> ELSE Append(F[up[d]], d) ELSE F[x]]
    <2>2. Closed(V)
      BY <1>4, <2>1
    <2>3. \A x \in V : G[x] = IF x \in tops THEN <<x>> ELSE Append(G[up[x]], x)
      <3> SUFFICES ASSUME NEW x \in V PROVE G[x] = IF x \in tops THEN <<x>> ELSE Append(G[up[x]], x)
        OBVIOUS
      <3> HIDE DEF U, F
      <3>1. CASE x \in tops
        BY <1>5, <2>1, <3>1
      <3>2. CASE x \notin tops
        <4>1. up[x] \in U
          BY <1>4, <2>1, <3>2
        <4>2. G[up[x]] = F[up[x]]
          BY <2>1, <4>1
        <4> QED
          BY <1>5, <2>1, <3>2, <4>2
      <3> QED
        BY <3>1, <3>2
    <2>4. IsPath(G, V, up, tops)
      <3> HIDE DEF U, F
      <3>1. G = [x \in V |-> G[x]]
        OBVIOUS
      <3> QED
        BY <2>3, <3>1 DEF IsPath
    <2>5. V \in Parts
      <3> HIDE DEF G, U, F
      <3> QED
        BY <1>4, <2>1, <2>2, <2>4
    <2> QED
      BY <2>1, <2>5
  <1>7. IsPath(F, D, up, tops)
    <2>1. F = [d \in U |-> F[d]]
      OBVIOUS
    <2> HIDE DEF F, U
    <2> QED
      BY <1>5, <1>6, <2>1 DEF IsPath
  <1> QED
    BY <1>7

\* A path runs through D and ends at its own member.
LEMMA SegmentEnds ==
    ASSUME NEW D, NEW d \in D, NEW s, s = <<d>> \/ \E u \in Seq(D) : s = Append(u, d)
    PROVE  s \in Seq(D) /\ Len(s) > 0 /\ s[Len(s)] = d
  <1>1. CASE s = <<d>>
    BY <1>1
  <1>2. ASSUME NEW u \in Seq(D), s = Append(u, d) PROVE s \in Seq(D) /\ Len(s) > 0 /\ s[Len(s)] = d
    BY <1>2, AppendProperties, LenProperties
  <1> QED
    BY <1>1, <1>2

\* A path ends in its department.
LEMMA PathIs ==
    ASSUME NEW D, NEW up, NEW tops, Upward(D, up, tops), NEW path, IsPath(path, D, up, tops)
    PROVE  \A d \in D : path[d] \in Seq(D) /\ Len(path[d]) > 0 /\ path[d][Len(path[d])] = d
  <1> DEFINE Ends(s, d) == s \in Seq(D) /\ Len(s) > 0 /\ s[Len(s)] = d
             Good == {d \in D : Ends(path[d], d)}
  <1>1. \A d \in D : path[d] = IF d \in tops THEN <<d>> ELSE Append(path[up[d]], d)
    BY DEF IsPath
  <1>2. ASSUME NEW d \in tops PROVE d \in Good
    <2>1. d \in D /\ path[d] = <<d>>
      BY <1>1 DEF Upward
    <2>2. Ends(path[d], d)
      BY <2>1, SegmentEnds
    <2> HIDE DEF Ends
    <2> QED
      BY <2>1, <2>2
  <1>3. ASSUME NEW d \in D \ tops, up[d] \in Good PROVE d \in Good
    <2>1. path[d] = Append(path[up[d]], d) /\ path[up[d]] \in Seq(D)
      BY <1>1, <1>3
    <2>2. Ends(path[d], d)
      BY <2>1, SegmentEnds
    <2> HIDE DEF Ends
    <2> QED
      BY <2>2
  <1> HIDE DEF Good
  <1>4. D \subseteq Good
    BY <1>2, <1>3, UpwardInduct
  <1> QED
    BY <1>4 DEF Good

-----------------------------------------------------------------------------
(* The departments. *)

TopsOf(parent) == {d \in Department : parent[d] = 0}

\* No department has the number of no parent.
LEMMA NumbersAreNotZero == 0 \notin Department /\ Department \subseteq Nat
  BY PullAssumption

\* A platform's departments lie below its top ones.
LEMMA TreeUpward ==
    ASSUME NEW parent, Tree(parent)
    PROVE  Upward(Department, parent, TopsOf(parent))
  BY DEF Tree, Upward, TopsOf

\* The recursive function RemotePath is what its definition says.
LEMMA RemotePathIs ==
    ASSUME NEW r, Tree(r.parent)
    PROVE  /\ IsPath(RemotePath(r), Department, r.parent, TopsOf(r.parent))
           /\ \A d \in Department :
                /\ RemotePath(r)[d] = IF r.parent[d] = 0 THEN <<d>>
                                      ELSE Append(RemotePath(r)[r.parent[d]], d)
                /\ RemotePath(r)[d] \in Seq(Department) /\ Len(RemotePath(r)[d]) > 0
                /\ RemotePath(r)[d][Len(RemotePath(r)[d])] = d
  <1> DEFINE Rec(f) == f = [d \in Department |-> IF r.parent[d] = 0 THEN <<d>> ELSE Append(f[r.parent[d]], d)]
             path == CHOOSE f : Rec(f)
  <1>1. PICK g : IsPath(g, Department, r.parent, TopsOf(r.parent))
    BY TreeUpward, PathExists
  <1>2. Rec(g)
    BY <1>1 DEF IsPath, TopsOf
  <1>3. Rec(path)
    BY <1>2
  <1>4. RemotePath(r) = path
    BY DEF RemotePath
  <1> HIDE DEF path
  <1>5. IsPath(path, Department, r.parent, TopsOf(r.parent))
    BY <1>3 DEF IsPath, TopsOf
  <1>6. \A d \in Department : path[d] \in Seq(Department) /\ Len(path[d]) > 0 /\ path[d][Len(path[d])] = d
    BY <1>5, TreeUpward, PathIs
  <1> QED
    BY <1>3, <1>4, <1>5, <1>6

\* The paths depend on the tree only.
LEMMA SameTree ==
    ASSUME NEW r, NEW q, r.parent = q.parent
    PROVE  RemotePath(r) = RemotePath(q) /\ \A d : Below(r, d) = Below(q, d)
  BY DEF RemotePath, Below

\* An item more.
LEMMA RangeOfAppend ==
    ASSUME NEW D, NEW s \in Seq(D), NEW d
    PROVE  Range(Append(s, d)) = Range(s) \cup {d}
  <1>1. DOMAIN s = 1..Len(s) /\ DOMAIN Append(s, d) = 1..(Len(s) + 1) /\ Len(s) \in Nat
    BY AppendProperties, LenProperties
  <1>2. Append(s, d)[Len(s) + 1] = d /\ \A i \in 1..Len(s) : Append(s, d)[i] = s[i]
    BY AppendProperties
  <1> QED
    BY <1>1, <1>2 DEF Range

\* A department is below itself and below what its parent is below.
LEMMA BelowIs ==
    ASSUME NEW r, Tree(r.parent), NEW a \in Department
    PROVE  /\ Below(r, a) \subseteq Department /\ a \in Below(r, a)
           /\ \A d \in Department :
                d \in Below(r, a) <=> d = a \/ (r.parent[d] # 0 /\ r.parent[d] \in Below(r, a))
  <1> DEFINE path == RemotePath(r)
  <1>1. \A d \in Department : r.parent[d] \in Department \cup {0}
    BY DEF Tree
  <1>2. \A d \in Department : path[d] \in Seq(Department)
                              /\ path[d] = IF r.parent[d] = 0 THEN <<d>> ELSE Append(path[r.parent[d]], d)
    BY RemotePathIs
  <1> HIDE DEF path
  <1>3. ASSUME NEW d \in Department
        PROVE  Range(path[d]) = {d} \cup IF r.parent[d] = 0 THEN {} ELSE Range(path[r.parent[d]])
    <2>1. CASE r.parent[d] = 0
      <3>1. path[d] = <<d>>
        BY <1>2, <2>1
      <3>2. Range(<<d>>) = {d}
        BY DEF Range
      <3> QED
        BY <2>1, <3>1, <3>2
    <2>2. CASE r.parent[d] # 0
      <3>1. r.parent[d] \in Department
        BY <1>1, <2>2
      <3>2. path[d] = Append(path[r.parent[d]], d) /\ path[r.parent[d]] \in Seq(Department)
        BY <1>2, <2>2, <3>1
      <3> QED
        BY <2>2, <3>2, RangeOfAppend
    <2> QED
      BY <2>1, <2>2
  <1>4. Below(r, a) = {d \in Department : a \in Range(path[d])}
    BY DEF Below, path
  <1>5. ASSUME NEW d \in Department
        PROVE  d \in Below(r, a) <=> d = a \/ (r.parent[d] # 0 /\ r.parent[d] \in Below(r, a))
    BY <1>1, <1>3, <1>4
  <1> QED
    BY <1>4, <1>5

\* Who is below one that is below a is below a.
LEMMA BelowChain ==
    ASSUME NEW r, Tree(r.parent), NEW a \in Department, NEW b \in Below(r, a)
    PROVE  Below(r, b) \subseteq Below(r, a)
  <1> DEFINE Good == {d \in Department : d \in Below(r, b) => d \in Below(r, a)}
  <1>0. b \in Department
    BY BelowIs
  <1>1. ASSUME NEW d \in TopsOf(r.parent) PROVE d \in Good
    BY <1>0, BelowIs DEF TopsOf
  <1>2. ASSUME NEW d \in Department \ TopsOf(r.parent), r.parent[d] \in Good PROVE d \in Good
    BY <1>0, <1>2, BelowIs DEF TopsOf
  <1> HIDE DEF Good
  <1>3. Department \subseteq Good
    BY <1>1, <1>2, TreeUpward, UpwardInduct
  <1> QED
    BY <1>0, <1>3, BelowIs DEF Good

\* No two departments are below each other.
LEMMA BelowOneWay ==
    ASSUME NEW r, Tree(r.parent), NEW a \in Department, NEW c \in Department,
           c \in Below(r, a), a \in Below(r, c)
    PROVE  a = c
  <1> SUFFICES ASSUME a # c PROVE FALSE
    OBVIOUS
  <1> DEFINE S == {x \in Department : x \in Below(r, a) /\ a \in Below(r, x)}
  <1>1. S \in (SUBSET Department) \ {{}}
    BY BelowIs
  <1>2. PICK d \in S : r.parent[d] \notin S
    BY <1>1 DEF Tree
  <1>3. CASE d = a
    <2>1. r.parent[a] # 0 /\ r.parent[a] \in Below(r, c)
      BY BelowIs
    <2>2. r.parent[a] \in Department
      BY <2>1 DEF Tree
    <2>3. r.parent[a] \in Below(r, a)
      BY <2>1, BelowChain
    <2>4. a \in Below(r, r.parent[a])
      BY <2>1, <2>2, BelowIs
    <2> QED
      BY <1>2, <1>3, <2>2, <2>3, <2>4
  <1>4. CASE d # a
    <2>1. r.parent[d] # 0 /\ r.parent[d] \in Below(r, a)
      BY <1>4, BelowIs
    <2>2. r.parent[d] \in Department
      BY <2>1 DEF Tree
    <2>3. d \in Below(r, r.parent[d])
      BY <2>1, <2>2, BelowIs
    <2>4. a \in Below(r, r.parent[d])
      BY <2>2, <2>3, BelowChain
    <2> QED
      BY <1>2, <2>1, <2>2, <2>4
  <1> QED
    BY <1>3, <1>4

\* A tree stays one when a department goes under one that is not below it.
LEMMA MoveKeepsTree ==
    ASSUME NEW r, Tree(r.parent), NEW d \in Department, NEW to \in Department, to \notin Below(r, d)
    PROVE  Tree([r.parent EXCEPT ![d] = to])
  <1> DEFINE new == [r.parent EXCEPT ![d] = to]
  <1>0. new \in [Department -> Department \cup {0}] /\ new[d] = to
          /\ \A x \in Department \ {d} : new[x] = r.parent[x]
    BY DEF Tree
  <1> HIDE DEF new
  <1>1. ASSUME NEW S \in (SUBSET Department) \ {{}} PROVE \E x \in S : new[x] \notin S
    <2> SUFFICES ASSUME \A x \in S : new[x] \in S PROVE FALSE
      OBVIOUS
    <2> DEFINE T == S \ Below(r, d)
    <2>1. CASE d \notin S
      <3>1. PICK x \in S : r.parent[x] \notin S
        BY DEF Tree
      <3> QED
        BY <1>0, <2>1, <3>1
    <2>2. CASE d \in S
      <3>1. T \in (SUBSET Department) \ {{}}
        BY <1>0, <2>2
      <3>2. PICK x \in T : r.parent[x] \notin T
        BY <3>1 DEF Tree
      <3>3. x # d
        BY <3>2, BelowIs
      <3>4. r.parent[x] \in S
        BY <1>0, <3>2, <3>3
      <3>5. r.parent[x] \in Below(r, d) /\ r.parent[x] # 0
        BY <3>2, <3>4, NumbersAreNotZero
      <3>6. x \in Below(r, d)
        BY <3>2, <3>5, BelowIs
      <3> QED
        BY <3>2, <3>6
    <2> QED
      BY <2>1, <2>2
  <1> QED
    BY <1>0, <1>1 DEF Tree, new

\* What is above a department: all parents but the last are in it again, and it is none
\* of them.
LEMMA AboveIs ==
    ASSUME NEW r, Tree(r.parent), NEW a \in Department
    PROVE  LET above == Range(RemotePath(r)[a])
           IN  /\ above \subseteq Department /\ a \in above
               /\ \A c \in above : r.parent[c] \in (above \ {a}) \cup {0}
  <1> DEFINE above == Range(RemotePath(r)[a])
  <1>1. above \subseteq Department
    <2>1. RemotePath(r)[a] \in Seq(Department)
      BY RemotePathIs
    <2> QED
      BY <2>1, LenProperties, ElementOfSeq DEF Range
  <1>2. \A c \in Department : c \in above <=> a \in Below(r, c)
    BY DEF Below
  <1> HIDE DEF above
  <1>3. a \in above
    BY <1>2, BelowIs
  <1>4. ASSUME NEW c \in above, r.parent[c] # 0 PROVE r.parent[c] \in above \ {a}
    <2>1. c \in Department /\ r.parent[c] \in Department /\ a \in Below(r, c)
      BY <1>1, <1>2, <1>4 DEF Tree
    <2>2. c \in Below(r, r.parent[c])
      BY <1>4, <2>1, BelowIs
    <2>3. a \in Below(r, r.parent[c])
      BY <2>1, <2>2, BelowChain
    <2>4. ASSUME r.parent[c] = a PROVE FALSE
      <3>1. a = c
        BY <2>1, <2>2, <2>4, BelowOneWay
      <3>2. {c} \in (SUBSET Department) \ {{}}
        BY <2>1
      <3> QED
        BY <2>4, <3>1, <3>2 DEF Tree
    <2> QED
      BY <1>2, <2>1, <2>3, <2>4
  <1> QED
    BY <1>1, <1>3, <1>4 DEF above

\* What holds a department and the children of all it holds has all below the one.
LEMMA BelowReached ==
    ASSUME NEW r, Tree(r.parent), NEW a \in Department, NEW X, a \in X,
           \A d \in Department : r.parent[d] \in X => d \in X
    PROVE  Below(r, a) \subseteq X
  <1> DEFINE Good == {d \in Department : d \in Below(r, a) => d \in X}
  <1>1. ASSUME NEW d \in TopsOf(r.parent) PROVE d \in Good
    BY BelowIs DEF TopsOf
  <1>2. ASSUME NEW d \in Department \ TopsOf(r.parent), r.parent[d] \in Good PROVE d \in Good
    BY <1>2, BelowIs DEF TopsOf
  <1> HIDE DEF Good
  <1>3. Department \subseteq Good
    BY <1>1, <1>2, TreeUpward, UpwardInduct
  <1> QED
    BY <1>3, BelowIs DEF Good

-----------------------------------------------------------------------------
(* Lists. *)

Increasing(s) == \A i, j \in DOMAIN s : i < j => s[i] < s[j]

\* A finite set of numbers has a greatest one.
LEMMA GreatestExists ==
    ASSUME NEW S \in SUBSET Nat, IsFiniteSet(S), S # {}
    PROVE  \E m \in S : \A x \in S : x <= m
  <1> DEFINE Has(T) == \E m \in T : \A x \in T : x <= m
             Good == {n \in Nat : \A T \in SUBSET Nat : IsFiniteSet(T) /\ Cardinality(T) = n /\ T # {} => Has(T)}
  <1>1. 0 \in Good
    BY FS_EmptySet
  <1>2. ASSUME NEW n \in Nat, n \in Good PROVE n + 1 \in Good
    <2> SUFFICES ASSUME NEW T \in SUBSET Nat, IsFiniteSet(T), Cardinality(T) = n + 1, T # {}
                 PROVE  Has(T)
      OBVIOUS
    <2>1. PICK x \in T : TRUE
      OBVIOUS
    <2>2. IsFiniteSet(T \ {x}) /\ Cardinality(T \ {x}) = n
      <3>1. IsFiniteSet(T \ {x}) /\ Cardinality(T \ {x}) = IF x \in T THEN Cardinality(T) - 1 ELSE Cardinality(T)
        BY FS_RemoveElement
      <3> QED
        BY <2>1, <3>1
    <2>3. CASE T \ {x} = {}
      <3>1. \A y \in T : y <= x
        BY <2>1, <2>3
      <3> QED
        BY <2>1, <3>1
    <2>4. CASE T \ {x} # {}
      <3>1. Has(T \ {x})
        BY <1>2, <2>2, <2>4
      <3>2. PICK m \in T \ {x} : \A y \in T \ {x} : y <= m
        BY <3>1
      <3>3. CASE x <= m
        <4>1. \A y \in T : y <= m
          BY <3>2, <3>3
        <4> QED
          BY <3>2, <4>1
      <3>4. CASE m < x
        <4>1. \A y \in T : y <= x
          BY <2>1, <3>2, <3>4
        <4> QED
          BY <2>1, <4>1
      <3> QED
        BY <2>1, <3>2, <3>3, <3>4
    <2> QED
      BY <2>3, <2>4
  <1> HIDE DEF Good
  <1>3. Cardinality(S) \in Good
    BY <1>1, <1>2, NatInduct, FS_CardinalityType
  <1> QED
    BY <1>3 DEF Good

\* A finite set of numbers can be listed in order.
LEMMA SortedExists ==
    ASSUME NEW S \in SUBSET Nat, IsFiniteSet(S)
    PROVE  \E s \in [1..Cardinality(S) -> S] : Increasing(s)
  <1> DEFINE Has(T) == \E s \in [1..Cardinality(T) -> T] : Increasing(s)
             Good == {n \in Nat : \A T \in SUBSET Nat : IsFiniteSet(T) /\ Cardinality(T) = n => Has(T)}
  <1>1. 0 \in Good
    <2> SUFFICES ASSUME NEW T \in SUBSET Nat, IsFiniteSet(T), Cardinality(T) = 0 PROVE Has(T)
      OBVIOUS
    <2>1. <<>> \in [1..Cardinality(T) -> T] /\ DOMAIN <<>> = {}
      OBVIOUS
    <2>2. Increasing(<<>>)
      BY <2>1 DEF Increasing
    <2> QED
      BY <2>1, <2>2
  <1>2. ASSUME NEW n \in Nat, n \in Good PROVE n + 1 \in Good
    <2> SUFFICES ASSUME NEW T \in SUBSET Nat, IsFiniteSet(T), Cardinality(T) = n + 1 PROVE Has(T)
      OBVIOUS
    <2>1. PICK m \in T : \A x \in T : x <= m
      <3>1. T # {}
        BY FS_EmptySet
      <3> QED
        BY <3>1, GreatestExists
    <2>2. IsFiniteSet(T \ {m}) /\ Cardinality(T \ {m}) = n
      BY <2>1, FS_RemoveElement
    <2>3. Has(T \ {m})
      BY <1>2, <2>2
    <2>4. PICK s \in [1..n -> T \ {m}] : Increasing(s)
      BY <2>2, <2>3
    <2> DEFINE t == [i \in 1..(n + 1) |-> IF i = n + 1 THEN m ELSE s[i]]
    <2>5. t \in [1..(n + 1) -> T]
      BY <2>1
    <2>6. Increasing(t)
      <3> SUFFICES ASSUME NEW i \in 1..(n + 1), NEW j \in 1..(n + 1), i < j PROVE t[i] < t[j]
        BY DEF Increasing
      <3>1. i \in 1..n /\ t[i] = s[i] /\ s[i] \in T \ {m}
        OBVIOUS
      <3>2. CASE j = n + 1
        <4>1. t[j] = m
          BY <3>2
        <4>2. s[i] <= m /\ s[i] # m /\ s[i] \in Nat /\ m \in Nat
          BY <2>1, <3>1
        <4> QED
          BY <3>1, <4>1, <4>2
      <3>3. CASE j # n + 1
        <4>1. j \in 1..n /\ t[j] = s[j]
          BY <3>3
        <4> QED
          BY <2>4, <3>1, <4>1 DEF Increasing
      <3> QED
        BY <3>2, <3>3
    <2> HIDE DEF t
    <2> QED
      BY <2>5, <2>6
  <1> HIDE DEF Good
  <1>3. Cardinality(S) \in Good
    BY <1>1, <1>2, NatInduct, FS_CardinalityType
  <1> QED
    BY <1>3 DEF Good

\* The list of a set has all its members, each behind those that are smaller.
LEMMA SortedIs ==
    ASSUME NEW S \in SUBSET Nat, IsFiniteSet(S)
    PROVE  /\ Sorted(S) \in Seq(S) /\ Len(Sorted(S)) = Cardinality(S) /\ Cardinality(S) \in Nat
           /\ Range(Sorted(S)) = S
           /\ \A i, j \in 1..Cardinality(S) : i < j => Sorted(S)[i] < Sorted(S)[j]
  <1> DEFINE n == Cardinality(S)
             s == Sorted(S)
  <1>1. n \in Nat
    BY FS_CardinalityType
  <1>2. s \in [1..n -> S] /\ Increasing(s)
    BY SortedExists DEF Sorted, Increasing
  <1> HIDE DEF s
  <1>3. s \in Seq(S) /\ Len(s) = n
    <2> HIDE DEF n
    <2> QED
      BY <1>1, <1>2, SeqDef
  <1>4. \A i, j \in 1..n : i < j => s[i] < s[j]
    BY <1>2 DEF Increasing
  <1>5. \A i, j \in 1..n : s[i] = s[j] => i = j
    <2> SUFFICES ASSUME NEW i \in 1..n, NEW j \in 1..n, s[i] = s[j], i # j PROVE FALSE
      OBVIOUS
    <2>1. s[i] \in Nat /\ s[j] \in Nat
      BY <1>2
    <2>2. i < j \/ j < i
      BY <1>1
    <2> QED
      BY <1>4, <2>1, <2>2
  <1>6. s \in Injection(1..n, S)
    BY <1>2, <1>5 DEF Injection, IsInjective
  <1>7. Cardinality(1..n) = n /\ IsFiniteSet(1..n)
    BY <1>1, FS_Interval
  <1>8. s \in Surjection(1..n, S)
    BY <1>6, <1>7, FS_Injection
  <1>9. Range(s) = S
    BY <1>2, <1>8 DEF Surjection, Range
  <1> QED
    BY <1>1, <1>3, <1>4, <1>9 DEF s

\* So many members are smaller as are before it in the list.
LEMMA RankIs ==
    ASSUME NEW S \in SUBSET Nat, IsFiniteSet(S), NEW i \in 1..Cardinality(S)
    PROVE  Cardinality({y \in S : y < Sorted(S)[i]}) = i - 1
  <1> DEFINE n == Cardinality(S)
             s == Sorted(S)
             T == {y \in S : y < s[i]}
             f == [j \in 1..(i - 1) |-> s[j]]
  <1>1. /\ n \in Nat /\ i \in 1..n
        /\ s \in Seq(S) /\ Len(s) = n /\ Range(s) = S
        /\ \A j, k \in 1..n : j < k => s[j] < s[k]
    BY SortedIs
  <1>2. s \in [1..n -> S]
    BY <1>1, LenProperties
  <1> HIDE DEF s, n
  <1>3. f \in Bijection(1..(i - 1), T)
    <2>1. f \in [1..(i - 1) -> T]
      BY <1>1, <1>2
    <2>2. \A j, k \in 1..(i - 1) : f[j] = f[k] => j = k
      <3> SUFFICES ASSUME NEW j \in 1..(i - 1), NEW k \in 1..(i - 1), s[j] = s[k], j # k PROVE FALSE
        OBVIOUS
      <3>0. j \in 1..n /\ k \in 1..n
        BY <1>1
      <3>1. s[j] \in Nat /\ s[k] \in Nat /\ j \in 1..n /\ k \in 1..n
        BY <1>2, <3>0
      <3>2. j < k \/ k < j
        OBVIOUS
      <3> QED
        BY <1>1, <3>1, <3>2
    <2>3. \A y \in T : \E j \in 1..(i - 1) : f[j] = y
      <3> SUFFICES ASSUME NEW y \in T PROVE \E j \in 1..(i - 1) : s[j] = y
        OBVIOUS
      <3>1. PICK j \in 1..n : s[j] = y
        BY <1>1, <1>2 DEF Range
      <3>2. j < i
        <4> SUFFICES ASSUME ~(j < i) PROVE FALSE
          OBVIOUS
        <4>1. j = i \/ i < j
          BY <1>1
        <4>2. s[i] \in Nat /\ s[j] \in Nat /\ s[j] < s[i]
          BY <1>1, <1>2, <3>1
        <4> QED
          BY <1>1, <4>1, <4>2
      <3> QED
        BY <1>1, <3>1, <3>2
    <2> QED
      BY <2>1, <2>2, <2>3 DEF Bijection, Injection, Surjection, IsInjective
  <1>4. IsFiniteSet(1..(i - 1)) /\ Cardinality(1..(i - 1)) = i - 1
    BY <1>1, FS_Interval
  <1>5. ExistsBijection(1..(i - 1), T)
    BY <1>3 DEF ExistsBijection
  <1> HIDE DEF T, f
  <1>6. Cardinality(T) = i - 1
    BY <1>4, <1>5, FS_Bijection
  <1> QED
    BY <1>6 DEF T, s

\* What is dropped is gone, and nothing else.
LEMMA DroppingIs ==
    ASSUME NEW D, NEW s \in Seq(D), NEW S
    PROVE  Dropping(s, S) \in Seq(D) /\ Range(Dropping(s, S)) = Range(s) \ S
  <1> DEFINE Then(v, x) == IF x \in S THEN v ELSE Append(v, x)
             Rec(n, g) == g = [i \in 0..n |-> IF i = 0 THEN <<>> ELSE Then(g[i - 1], s[i])]
             Good == {n \in Nat : \E g : Rec(n, g)}
  <1>0. Dropping(s, S) = (CHOOSE g : Rec(Len(s), g))[Len(s)]
    BY DEF Dropping
  <1> HIDE DEF Then
  <1>1. 0 \in Good
    <2>1. Rec(0, [i \in 0..0 |-> <<>>])
      OBVIOUS
    <2> QED
      BY <2>1
  <1>2. ASSUME NEW n \in Nat, n \in Good PROVE n + 1 \in Good
    <2>1. PICK g : Rec(n, g)
      BY <1>2
    <2> DEFINE last == Then(g[n], s[n + 1])
               h == [i \in 0..(n + 1) |-> IF i = n + 1 THEN last ELSE g[i]]
    <2>2. DOMAIN h = 0..(n + 1) /\ h[n + 1] = last /\ \A i \in 0..n : h[i] = g[i]
      OBVIOUS
    <2>3. g[0] = <<>> /\ \A i \in 1..n : g[i] = Then(g[i - 1], s[i])
      <3> HIDE DEF h
      <3> QED
        BY <2>1
    <2>4. \A i \in 0..(n + 1) :
            h[i] = IF i = 0 THEN <<>> ELSE Then(h[i - 1], s[i])
      <3> SUFFICES ASSUME NEW i \in 0..(n + 1)
                   PROVE  h[i] = IF i = 0 THEN <<>> ELSE Then(h[i - 1], s[i])
        OBVIOUS
      <3> HIDE DEF h
      <3>1. CASE i = 0
        BY <2>2, <2>3, <3>1
      <3>2. CASE i \in 1..n
        <4>1. h[i] = g[i] /\ h[i - 1] = g[i - 1]
          BY <2>2, <3>2
        <4> QED
          BY <2>3, <3>2, <4>1
      <3>3. CASE i = n + 1
        <4>1. h[i - 1] = g[n]
          BY <2>2, <3>3
        <4> QED
          BY <2>2, <3>3, <4>1
      <3> QED
        BY <3>1, <3>2, <3>3
    <2>5. Rec(n + 1, h)
      <3>1. h = [i \in 0..(n + 1) |-> h[i]]
        OBVIOUS
      <3> HIDE DEF h
      <3> QED
        BY <2>2, <2>4, <3>1
    <2> HIDE DEF Rec, h
    <2> QED
      BY <2>5
  <1> HIDE DEF Good
  <1>3. Nat \subseteq Good
    BY <1>1, <1>2, NatInduct
  <1> DEFINE m == Len(s)
             kept == CHOOSE g : Rec(m, g)
  <1>m. m \in Nat /\ s \in [1..m -> D]
    BY LenProperties
  <1>4. Rec(m, kept)
    <2>1. \E g : Rec(m, g)
      BY <1>3, <1>m DEF Good
    <2> QED
      BY <2>1
  <1>5. Dropping(s, S) = kept[m]
    BY <1>0
  <1> HIDE DEF kept, m
  <1>6. kept[0] = <<>> /\ \A i \in 1..m : kept[i] = Then(kept[i - 1], s[i])
    BY <1>4, <1>m
  <1> HIDE DEF Rec
  <1> DEFINE Upto(i) == {s[j] : j \in 1..i} \ S
             Fine(i) == kept[i] \in Seq(D) /\ Range(kept[i]) = Upto(i)
             Done == {i \in Nat : i <= m => Fine(i)}
  <1>7. 0 \in Done
    <2>1. Range(<<>>) = {} /\ Upto(0) = {} /\ <<>> \in Seq(D)
      BY DEF Range
    <2> QED
      BY <1>6, <2>1
  <1>8. ASSUME NEW i \in Nat, i \in Done PROVE i + 1 \in Done
    <2> SUFFICES ASSUME i + 1 <= m PROVE Fine(i + 1)
      OBVIOUS
    <2>1. kept[i] \in Seq(D) /\ Range(kept[i]) = Upto(i)
      BY <1>8, <1>m
    <2>2. i + 1 \in 1..m /\ s[i + 1] \in D /\ (i + 1) - 1 = i
      BY <1>m
    <2>3. kept[i + 1] = IF s[i + 1] \in S THEN kept[i] ELSE Append(kept[i], s[i + 1])
      BY <1>6, <2>2 DEF Then
    <2>4. Upto(i + 1) = Upto(i) \cup ({s[i + 1]} \ S)
      <3>1. 1..(i + 1) = (1..i) \cup {i + 1}
        OBVIOUS
      <3> QED
        BY <3>1
    <2>5. CASE s[i + 1] \in S
      BY <2>1, <2>3, <2>4, <2>5
    <2>6. CASE s[i + 1] \notin S
      <3>1. Append(kept[i], s[i + 1]) \in Seq(D)
        BY <2>1, <2>2, AppendProperties
      <3>2. Range(Append(kept[i], s[i + 1])) = Range(kept[i]) \cup {s[i + 1]}
        BY <2>1, RangeOfAppend
      <3> QED
        BY <2>1, <2>3, <2>4, <2>6, <3>1, <3>2
    <2> QED
      BY <2>5, <2>6
  <1> HIDE DEF Done
  <1>9. m \in Done
    BY <1>7, <1>8, <1>m, NatInduct
  <1>10. Fine(m)
    BY <1>9, <1>m DEF Done
  <1>11. Upto(m) = Range(s) \ S
    BY <1>m DEF Range
  <1> QED
    BY <1>5, <1>10, <1>11

-----------------------------------------------------------------------------
(* Pages. *)

\* The pages up to a continuation have had x.
Before(platform, S, from, x) ==
    CASE platform = "feishu"   -> x <= from
      [] platform = "dingtalk" -> Cardinality({y \in S : y < x}) < from
      [] platform = "wecom"    -> FALSE

\* The first k items of a list, and what of it they leave.
LEMMA FirstItems ==
    ASSUME NEW S, NEW list \in Seq(S), NEW k \in 0..Len(list)
    PROVE  /\ SubSeq(list, 1, k) \in Seq(S) /\ Len(SubSeq(list, 1, k)) = k
           /\ \A i \in 1..k : SubSeq(list, 1, k)[i] = list[i] /\ list[i] \in Range(SubSeq(list, 1, k))
  <1>1. Len(list) \in Nat /\ list \in [1..Len(list) -> S]
    BY LenProperties
  <1>2. \A i \in 1..k : list[i] \in S
    BY <1>1
  <1>3. SubSeq(list, 1, k) \in Seq(S) /\ Len(SubSeq(list, 1, k)) = k
          /\ \A i \in 1..k : SubSeq(list, 1, k)[i] = list[i]
    BY <1>1, <1>2, SubSeqProperties
  <1>4. DOMAIN SubSeq(list, 1, k) = 1..k
    BY <1>3, LenProperties
  <1> QED
    BY <1>3, <1>4 DEF Range

\* At most PageSize items of a list.
First(list) == SubSeq(list, 1, IF Len(list) < PageSize THEN Len(list) ELSE PageSize)

\* A page that is not the last has something on it.
LEMMA FirstPage ==
    ASSUME NEW S, NEW list \in Seq(S)
    PROVE  /\ First(list) \in Seq(S) /\ Len(First(list)) \in Nat /\ Len(First(list)) <= Len(list)
           /\ Len(First(list)) < Len(list) => Len(First(list)) > 0
           /\ \A i \in 1..Len(First(list)) : First(list)[i] = list[i] /\ list[i] \in Range(First(list))
  <1> DEFINE k == IF Len(list) < PageSize THEN Len(list) ELSE PageSize
  <1>0. PageSize \in Nat /\ PageSize > 0
    BY PullAssumption
  <1>1. Len(list) \in Nat
    BY LenProperties
  <1>2. k \in 0..Len(list) /\ k \in Nat /\ k <= Len(list) /\ (k < Len(list) => k > 0)
    BY <1>0, <1>1
  <1>3. First(list) = SubSeq(list, 1, k)
    BY DEF First
  <1> HIDE DEF k
  <1> QED
    BY <1>2, <1>3, FirstItems

\* A page is of the items of S, and with the pages before it has all up to its
\* continuation, or if it is the last one, all there is.
Continues(platform, S, from, page) ==
    /\ page.items \in Seq(S) /\ page.more \in BOOLEAN
    /\ platform = "wecom" => ~page.more
    /\ page.more => NextPage(platform, from, page.items) \in Nat
    /\ \A x \in S : ~page.more \/ Before(platform, S, NextPage(platform, from, page.items), x) =>
         Before(platform, S, from, x) \/ x \in Range(page.items)

\* The pages of Feishu, which continue after an item.
LEMMA FeishuPage ==
    ASSUME NEW platform, platform = "feishu", NEW S \in SUBSET Nat, IsFiniteSet(S), NEW from \in Nat
    PROVE  Continues(platform, S, from, Page(platform, S, from))
  <1> DEFINE page == Page(platform, S, from)
             next == NextPage(platform, from, page.items)
  <1> DEFINE T == {x \in S : x > from}
             rest == Sorted(T)
             items == First(rest)
  <1>1. T \in SUBSET Nat /\ IsFiniteSet(T) /\ T \in SUBSET S
    BY FS_Subset
  <1>2. page = [items |-> items, more |-> Len(items) < Len(rest)]
    BY DEF Page, First
  <1> HIDE DEF T, page
  <1>3. /\ rest \in Seq(T) /\ Len(rest) \in Nat /\ Range(rest) = T
        /\ \A i, j \in 1..Len(rest) : i < j => rest[i] < rest[j]
    BY <1>1, SortedIs
  <1>4. rest \in Seq(S) /\ rest \in [1..Len(rest) -> T]
    BY <1>1, <1>3, SeqMonotonic, LenProperties
  <1> HIDE DEF rest, First
  <1> DEFINE k == Len(items)
  <1>5. /\ items \in Seq(S) /\ k \in Nat /\ k <= Len(rest) /\ (k < Len(rest) => k > 0)
        /\ \A i \in 1..k : items[i] = rest[i] /\ rest[i] \in Range(items)
    BY <1>4, FirstPage
  <1> HIDE DEF items, k
  <1>6. page.items = items /\ page.more \in BOOLEAN /\ (page.more <=> k < Len(rest))
    <2>1. page.items = items /\ page.more = (k < Len(rest))
      BY <1>2 DEF k
    <2>2. (k < Len(rest)) \in BOOLEAN
      OBVIOUS
    <2> QED
      BY <2>1, <2>2, Zenon
  <1>7. next = Last(items) /\ Last(items) = items[k]
    BY <1>6 DEF NextPage, Last, k
  <1> HIDE DEF next
  <1>8. k < Len(rest) => k \in 1..Len(rest) /\ next = rest[k] /\ rest[k] \in T
    BY <1>3, <1>4, <1>5, <1>7
  <1>9. ASSUME NEW x \in S, k = Len(rest) \/ (k < Len(rest) /\ x <= next), ~(x <= from)
        PROVE  x \in Range(items)
    <2>1. x \in T
      BY <1>9 DEF T
    <2>2. PICK i \in 1..Len(rest) : rest[i] = x
      BY <1>3, <1>4, <2>1 DEF Range
    <2>3. i \in 1..k
      <3>1. CASE k = Len(rest)
        BY <2>2, <3>1
      <3>2. CASE k < Len(rest) /\ x <= next
        <4> SUFFICES ASSUME k < i PROVE FALSE
          BY <1>3, <1>5, <2>2
        <4>1. rest[k] < rest[i]
          BY <1>3, <1>8, <2>2, <3>2
        <4>2. rest[k] \in Nat /\ x \in Nat
          BY <1>1, <1>8, <3>2
        <4> QED
          BY <1>8, <2>2, <3>2, <4>1, <4>2
      <3> QED
        BY <1>9, <3>1, <3>2
    <2> QED
      BY <1>5, <2>2, <2>3
  <1>10. k = Len(rest) \/ k < Len(rest)
    BY <1>3, <1>5
  <1>11. \A x, y : Before(platform, S, y, x) <=> x <= y
    BY DEF Before
  <1>q. page.more => next \in Nat
    BY <1>1, <1>6, <1>8
  <1>r. \A x \in S : ~page.more \/ Before(platform, S, next, x) =>
           Before(platform, S, from, x) \/ x \in Range(page.items)
    BY <1>6, <1>9, <1>10, <1>11
  <1> QED
    BY <1>5, <1>6, <1>q, <1>r DEF Continues, page, next

\* Those of DingTalk, which continue at an offset, and the one answer of WeCom.
LEMMA OffsetPage ==
    ASSUME NEW platform, platform = "dingtalk" \/ platform = "wecom", NEW S \in SUBSET Nat, IsFiniteSet(S),
           NEW from \in Nat, platform = "wecom" => from = 0
    PROVE  Continues(platform, S, from, Page(platform, S, from))
  <1> DEFINE page == Page(platform, S, from)
             next == NextPage(platform, from, page.items)
  <1> DEFINE s == Sorted(S)
             n == Cardinality(S)
             rest == SubSeq(s, from + 1, n)
             items == IF platform = "wecom" THEN rest ELSE First(rest)
  <1>1. /\ s \in Seq(S) /\ Len(s) = n /\ n \in Nat /\ Range(s) = S
        /\ \A i \in 1..n : Cardinality({y \in S : y < s[i]}) = i - 1
    BY SortedIs, RankIs
  <1>2. page = [items |-> items, more |-> Len(items) < Len(rest)]
    BY DEF Page, First
  <1> HIDE DEF page, s, n
  <1>3. s \in [1..n -> S]
    BY <1>1, LenProperties
  <1>4. /\ rest \in Seq(S) /\ Len(rest) = IF from + 1 <= n THEN n - from ELSE 0
        /\ \A i \in 1..(n - from) : rest[i] = s[from + i]
    <2>1. from + 1 \in Int /\ n \in Int /\ \A i \in (from + 1)..n : s[i] \in S
      BY <1>1, <1>3
    <2>2. /\ rest \in Seq(S) /\ Len(rest) = IF from + 1 <= n THEN n - (from + 1) + 1 ELSE 0
          /\ \A i \in 1..(n - (from + 1) + 1) : rest[i] = s[(from + 1) + i - 1]
      BY <2>1, SubSeqProperties
    <2>3. \A i \in 1..(n - from) : (from + 1) + i - 1 = from + i
      BY <1>1
    <2>4. n - (from + 1) + 1 = n - from
      BY <1>1
    <2> QED
      BY <2>2, <2>3, <2>4
  <1> HIDE DEF rest, First
  <1>13. Len(rest) \in Nat /\ rest \in [1..Len(rest) -> S]
    BY <1>4, LenProperties
  <1> DEFINE k == Len(items)
  <1>5. /\ items \in Seq(S) /\ k \in Nat /\ k <= Len(rest) /\ (platform = "wecom" => k = Len(rest))
        /\ \A i \in 1..k : items[i] = rest[i] /\ rest[i] \in Range(items)
    <2>1. CASE platform = "wecom"
      <3>1. items = rest
        BY <2>1
      <3> HIDE DEF items
      <3>2. \A i \in 1..Len(rest) : rest[i] \in Range(rest)
        BY <1>13 DEF Range
      <3> QED
        BY <1>4, <1>13, <2>1, <3>1, <3>2
    <2>2. CASE platform # "wecom"
      <3>1. items = First(rest)
        BY <2>2
      <3> HIDE DEF items
      <3> QED
        BY <1>4, <2>2, <3>1, FirstPage
    <2> QED
      BY <2>1, <2>2
  <1> HIDE DEF items, k
  <1>6. page.items = items /\ page.more \in BOOLEAN /\ (page.more <=> k < Len(rest))
    <2>1. page.items = items /\ page.more = (k < Len(rest))
      BY <1>2 DEF k
    <2>2. (k < Len(rest)) \in BOOLEAN
      OBVIOUS
    <2> QED
      BY <2>1, <2>2, Zenon
  <1>7. next = from + k
    BY <1>6 DEF NextPage, k
  <1> HIDE DEF next
  <1>14. k \in Nat /\ k <= Len(rest) /\ Len(rest) \in Nat
    BY <1>5, <1>13
  <1>8. ASSUME NEW x \in S, k = Len(rest) \/ (platform = "dingtalk" /\ Cardinality({y \in S : y < x}) < next),
               platform = "dingtalk" => ~(Cardinality({y \in S : y < x}) < from)
        PROVE  x \in Range(items)
    <2>1. PICK j \in 1..n : s[j] = x
      BY <1>1, <1>3 DEF Range
    <2>2. Cardinality({y \in S : y < x}) = j - 1
      BY <1>1, <2>1
    <2>3. j > from
      BY <1>8, <2>2
    <2>4. j - from \in 1..Len(rest) /\ rest[j - from] = x
      <3>1. j - from \in 1..(n - from) /\ from + (j - from) = j
        BY <1>1, <2>3
      <3>2. Len(rest) = n - from
        BY <1>1, <1>4, <2>3
      <3> QED
        BY <1>4, <2>1, <3>1, <3>2
    <2>5. j - from \in 1..k
      <3>1. CASE k = Len(rest)
        BY <2>4, <3>1
      <3>2. CASE j - 1 < from + k
        BY <1>14, <2>3, <3>2
      <3> QED
        BY <1>7, <1>8, <2>2, <3>1, <3>2
    <2> QED
      BY <1>5, <2>4, <2>5
  <1>9. k = Len(rest) \/ k < Len(rest)
    BY <1>14
  <1>10. \A x, y : Before(platform, S, y, x) <=>
              (platform = "dingtalk" /\ Cardinality({z \in S : z < x}) < y)
    BY DEF Before
  <1>11. next \in Nat
    BY <1>7, <1>14
  <1>12. \A x \in S : ~page.more \/ Before(platform, S, next, x) =>
           Before(platform, S, from, x) \/ x \in Range(page.items)
    BY <1>6, <1>8, <1>9, <1>10
  <1> QED
    BY <1>5, <1>6, <1>11, <1>12 DEF Continues, page, next

\* No page but continues the one before.
LEMMA PageIs ==
    ASSUME NEW platform \in Platform, NEW S \in SUBSET Nat, IsFiniteSet(S), NEW from \in Nat,
           platform = "wecom" => from = 0
    PROVE  Continues(platform, S, from, Page(platform, S, from))
  BY FeishuPage, OffsetPage DEF Platform

-----------------------------------------------------------------------------
(* The invariant. *)

RemoteTyped ==
    /\ remote = [parent |-> remote.parent, member |-> remote.member]
    /\ Tree(remote.parent) /\ remote.member \subseteq Person \X Department

SeenTyped ==
    /\ seen = [ above |-> seen.above, stayed |-> seen.stayed, moved |-> seen.moved,
                left |-> seen.left, changes |-> seen.changes ]
    /\ seen.moved \subseteq Department /\ seen.left \in Nat /\ seen.changes \in Nat

Kept == Running \cup {"done"}

\* A pull that has neither failed nor crashed.
PullTyped ==
    /\ pull = [ phase |-> pull.phase, platform |-> pull.platform, root |-> pull.root,
                queue |-> pull.queue, visited |-> pull.visited, records |-> pull.records,
                order |-> pull.order, todo |-> pull.todo, from |-> pull.from, users |-> pull.users ]
    /\ pull.platform \in Platform /\ pull.root \in Department
    /\ pull.queue \in Seq(Department) /\ pull.visited \subseteq Department
    /\ pull.records \in [DOMAIN pull.records -> Department \cup {0}] /\ DOMAIN pull.records \subseteq Department
    /\ pull.order \in Seq(Department) /\ Range(pull.order) = DOMAIN pull.records
    /\ pull.todo \in Seq(Department) /\ pull.from \in Nat
    /\ pull.users \in [DOMAIN pull.users -> SUBSET Department] /\ DOMAIN pull.users \subseteq Person
    /\ pull.phase \in {"token", "departments"} => pull.queue # <<>>
    /\ pull.phase = "departments" /\ pull.platform # "feishu" => pull.from = 0
    /\ pull.phase = "token" => pull.from = 0
    /\ pull.phase = "users" => pull.todo # <<>> /\ (pull.platform = "wecom" => pull.from = 0)
    /\ pull.phase \in {"normalize", "done"} => pull.todo = <<>>

Typed ==
    /\ RemoteTyped /\ SeenTyped
    /\ pull.phase \in Phase /\ (pull.phase \in Kept => PullTyped)

Rootless == DOMAIN pull.records \ {pull.root}

\* Recorded parents lead to the root, and not round in a circle.
Recorded ==
    /\ pull.root \in seen.above /\ seen.above \subseteq Department
    /\ Range(pull.queue) \subseteq DOMAIN pull.records \cup {pull.root}
    /\ \A c \in Rootless : pull.records[c] \in DOMAIN pull.records \cup {pull.root}
    /\ \A S \in (SUBSET Rootless) \ {{}} : \E c \in S : pull.records[c] \notin S
    /\ seen.above \cap seen.moved = {} =>
        /\ \A c \in seen.above : remote.parent[c] \in (seen.above \ {pull.root}) \cup {0}
        /\ pull.platform # "wecom" => DOMAIN pull.records \cap seen.above = {}

\* What the walk has met and has yet to look at.
Walked ==
    /\ pull.phase \in {"token", "departments"} =>
        DOMAIN pull.records \cup {pull.root} \subseteq pull.visited \cup Range(pull.queue)
    /\ seen.moved = {} =>
        /\ \A c \in DOMAIN pull.records :
            pull.records[c] = remote.parent[c] /\ c \in Below(remote, pull.root)
        /\ \A d \in pull.visited : Listed(pull.platform, d) \subseteq DOMAIN pull.records
        /\ pull.phase = "departments" /\ pull.platform = "feishu" =>
            \A c \in Listed(pull.platform, Head(pull.queue)) : c <= pull.from => c \in DOMAIN pull.records
        /\ pull.phase \in {"users", "normalize", "done"} =>
            /\ Below(remote, pull.root) \subseteq DOMAIN pull.records \cup {pull.root}
            /\ pull.platform = "wecom" => pull.root \in DOMAIN pull.records

\* The phases in which the departments to ask are known.
Asking == {"users", "normalize", "done"}

\* Those who stayed and whom the pages of their department so far have passed over.
PassedOver ==
    {m \in seen.stayed :
        /\ m[1] \notin DOMAIN pull.users /\ m[2] \in Range(UserDepartments(pull))
        /\ m[2] \in Range(pull.todo) =>
            /\ pull.phase = "users" /\ m[2] = Head(pull.todo)
            /\ Before(pull.platform, Members(remote, m[2]), pull.from, m[1])}

Leavers == IF pull.platform = "dingtalk" THEN seen.left ELSE 0

\* Nobody who stayed is left out of a department that has been listed, but for one by each
\* who left between two offsets.
Met ==
    /\ seen.stayed \subseteq remote.member
    /\ \A p \in DOMAIN pull.users : pull.users[p] # {}
    /\ \A p \in DOMAIN pull.users, d \in Department : <<p, d>> \in seen.stayed => d \in pull.users[p]
    /\ pull.phase \in Asking => Cardinality(PassedOver) <= Leavers

Unchanged ==
    seen.changes = 0 => \A p \in DOMAIN pull.users : pull.users[p] = DepartmentsOf(remote, p)

Finished ==
    pull.phase = "done" =>
        /\ Cycles(pull) = {}
        /\ pull.platform = "wecom" => UNION Range(pull.users) \subseteq DOMAIN pull.records
        /\ rows = [p \in DOMAIN pull.users |-> OrgPath(pull, pull.users[p])]

PullInv ==
    /\ Typed /\ (seen.changes = 0 => seen.moved = {})
    /\ pull.phase \in Kept => Recorded /\ Walked /\ Met /\ Unchanged /\ Finished
    /\ pull.phase = "crashed" => seen.above \cap seen.moved # {}

-----------------------------------------------------------------------------
(* Changes of the platform, and the steps that leave the walk alone. *)

\* No pull has begun.
LEMMA InitInv == Init => PullInv
  <1> SUFFICES ASSUME Init PROVE PullInv
    OBVIOUS
  <1>1. RemoteTyped
    BY PullAssumption DEF Init, RemoteTyped
  <1>2. SeenTyped
    BY DEF Init, SeenTyped
  <1>3. pull.phase = "idle"
    BY DEF Init
  <1> QED
    BY <1>1, <1>2, <1>3 DEF PullInv, Typed, Phase, Kept, Running, Init

\* There are finitely many memberships.
LEMMA MembershipsFinite ==
    ASSUME NEW M \in SUBSET (Person \X Department)
    PROVE  IsFiniteSet(M) /\ Cardinality(M) \in Nat
  <1>1. IsFiniteSet(Person \X Department)
    BY PullAssumption, FS_Product
  <1> QED
    BY <1>1, FS_Subset, FS_CardinalityType

\* What a change leaves, and what of it is remembered.
LEMMA ChangeIs ==
    ASSUME Typed, Changes
    PROVE  /\ pull.phase \in Running /\ pull' = pull /\ rows' = rows
           /\ RemoteTyped' /\ SeenTyped'
           /\ seen'.above = seen.above /\ seen'.stayed = seen.stayed \cap remote'.member
           /\ seen'.changes = seen.changes + 1
           /\ \/ seen'.left = seen.left /\ remote.member \subseteq remote'.member
              \/ \E m \in remote.member : seen'.left = seen.left + 1 /\ remote'.member = remote.member \ {m}
           /\ seen.moved \subseteq seen'.moved
           /\ \A c \in Department \ seen'.moved : remote'.parent[c] = remote.parent[c]
           /\ seen'.moved = {} => remote'.parent = remote.parent
  <1>1. ASSUME NEW new, Changed(new), new = [parent |-> new.parent, member |-> new.member],
               Tree(new.parent), new.member \subseteq Person \X Department
        PROVE  /\ pull.phase \in Running /\ pull' = pull /\ rows' = rows /\ remote' = new
               /\ RemoteTyped' /\ SeenTyped'
               /\ seen'.above = seen.above /\ seen'.stayed = seen.stayed \cap remote'.member
               /\ seen'.changes = seen.changes + 1
               /\ seen'.left = seen.left + Cardinality(remote.member \ new.member)
               /\ seen.moved \subseteq seen'.moved
               /\ \A c \in Department \ seen'.moved : remote'.parent[c] = remote.parent[c]
               /\ seen'.moved = {} => remote'.parent = remote.parent
    <2>1. pull.phase \in Running /\ pull' = pull /\ rows' = rows /\ remote' = new
      BY <1>1 DEF Changed
    <2> DEFINE moved == seen.moved \cup {d \in Department : new.parent[d] # remote.parent[d]}
               left == seen.left + Cardinality(remote.member \ new.member)
    <2>2. seen = [ above |-> seen.above, stayed |-> seen.stayed, moved |-> seen.moved,
                   left |-> seen.left, changes |-> seen.changes ]
            /\ seen.moved \subseteq Department /\ seen.left \in Nat /\ seen.changes \in Nat
      BY DEF Typed, SeenTyped
    <2>3. seen' = [seen EXCEPT !.stayed = @ \cap new.member, !.moved = moved, !.left = left, !.changes = @ + 1]
      BY <1>1 DEF Changed
    <2> HIDE DEF moved, left
    <2>4. seen' = [ above |-> seen.above, stayed |-> seen.stayed \cap new.member, moved |-> moved,
                    left |-> left, changes |-> seen.changes + 1 ]
      BY <2>2, <2>3
    <2>5. /\ seen'.above = seen.above /\ seen'.stayed = seen.stayed \cap new.member /\ seen'.moved = moved
          /\ seen'.changes = seen.changes + 1
      BY <2>4
    <2>6. seen'.left = left
      BY <2>4
    <2>7. left \in Nat
      <3>1. remote.member \ new.member \subseteq Person \X Department
        BY DEF Typed, RemoteTyped
      <3>2. Cardinality(remote.member \ new.member) \in Nat
        BY <3>1, MembershipsFinite
      <3> QED
        BY <2>2, <3>2 DEF left
    <2>8. moved \subseteq Department
      BY <2>2 DEF moved
    <2>9. RemoteTyped'
      BY <1>1, <2>1 DEF RemoteTyped
    <2>10. SeenTyped'
      BY <2>2, <2>4, <2>5, <2>6, <2>7, <2>8 DEF SeenTyped
    <2>11. \A c \in Department \ moved : new.parent[c] = remote.parent[c]
      BY DEF moved
    <2>12. moved = {} => new.parent = remote.parent
      <3>1. new.parent \in [Department -> Department \cup {0}] /\ remote.parent \in [Department -> Department \cup {0}]
        BY <1>1 DEF Typed, RemoteTyped, Tree
      <3> QED
        BY <2>11, <3>1
    <2>13. seen.moved \subseteq moved
      BY DEF moved
    <2>14. seen'.left = seen.left + Cardinality(remote.member \ new.member)
      BY <2>6 DEF left
    <2> HIDE DEF Changed
    <2> QED
      BY <2>1, <2>5, <2>9, <2>10, <2>11, <2>12, <2>13, <2>14
  <1>2. remote = [parent |-> remote.parent, member |-> remote.member]
          /\ Tree(remote.parent) /\ remote.member \subseteq Person \X Department
    BY DEF Typed, RemoteTyped
  <1>3. CASE join
    <2>1. PICK p \in Person, d \in Department : Changed([remote EXCEPT !.member = @ \cup {<<p, d>>}])
      BY <1>3 DEF join
    <2> DEFINE new == [remote EXCEPT !.member = @ \cup {<<p, d>>}]
    <2>2. new = [parent |-> remote.parent, member |-> remote.member \cup {<<p, d>>}]
      BY <1>2
    <2> HIDE DEF new
    <2>3. new.parent = remote.parent /\ new.member = remote.member \cup {<<p, d>>}
            /\ new = [parent |-> new.parent, member |-> new.member]
      BY <2>2
    <2>4. Tree(new.parent) /\ new.member \subseteq Person \X Department
      BY <1>2, <2>3
    <2>5. Changed(new)
      BY <2>1 DEF new
    <2>6. remote.member \ new.member = {} /\ Cardinality({}) = 0
      BY <2>3, FS_EmptySet
    <2>8. seen.left + 0 = seen.left
      BY DEF Typed, SeenTyped
    <2> QED
      BY <1>1, <2>3, <2>4, <2>5, <2>6, <2>8
  <1>4. CASE leave
    <2>1. PICK m \in remote.member : Changed([remote EXCEPT !.member = @ \ {m}])
      BY <1>4 DEF leave
    <2> DEFINE new == [remote EXCEPT !.member = @ \ {m}]
    <2>2. new = [parent |-> remote.parent, member |-> remote.member \ {m}]
      BY <1>2
    <2> HIDE DEF new
    <2>3. new.parent = remote.parent /\ new.member = remote.member \ {m}
            /\ new = [parent |-> new.parent, member |-> new.member]
      BY <2>2
    <2>4. Tree(new.parent) /\ new.member \subseteq Person \X Department
      BY <1>2, <2>3
    <2>5. Changed(new)
      BY <2>1 DEF new
    <2>6. remote.member \ new.member = {m} /\ Cardinality({m}) = 1
      BY <2>3, FS_Singleton
    <2> QED
      BY <1>1, <2>3, <2>4, <2>5, <2>6
  <1>5. CASE move
    <2>1. PICK d \in Department, to \in Department :
            to \notin Below(remote, d) /\ Changed([remote EXCEPT !.parent[d] = to])
      BY <1>5 DEF move
    <2> DEFINE new == [remote EXCEPT !.parent[d] = to]
    <2>2. new = [parent |-> [remote.parent EXCEPT ![d] = to], member |-> remote.member]
      BY <1>2
    <2> HIDE DEF new
    <2>3. new.parent = [remote.parent EXCEPT ![d] = to] /\ new.member = remote.member
            /\ new = [parent |-> new.parent, member |-> new.member]
      BY <2>2
    <2>4. Tree([remote.parent EXCEPT ![d] = to])
      BY <1>2, <2>1, MoveKeepsTree
    <2>5. Tree(new.parent) /\ new.member \subseteq Person \X Department
      BY <1>2, <2>3, <2>4
    <2>6. Changed(new)
      BY <2>1 DEF new
    <2>7. remote.member \ new.member = {} /\ Cardinality({}) = 0
      BY <2>3, FS_EmptySet
    <2>8. seen.left + 0 = seen.left
      BY DEF Typed, SeenTyped
    <2> QED
      BY <1>1, <2>3, <2>5, <2>6, <2>7, <2>8
  <1> QED
    BY <1>3, <1>4, <1>5 DEF Changes

\* A page that had x had it too when fewer were listed.
LEMMA BeforeKept ==
    ASSUME NEW platform \in Platform, NEW S, NEW T, IsFiniteSet(T), S \subseteq T \/ platform # "dingtalk",
           NEW from \in Nat, NEW x, Before(platform, T, from, x)
    PROVE  Before(platform, S, from, x)
  <1>1. CASE platform = "dingtalk"
    <2>1. {y \in S : y < x} \subseteq {y \in T : y < x} /\ IsFiniteSet({y \in T : y < x})
      BY <1>1, FS_Subset
    <2>2. IsFiniteSet({y \in S : y < x})
            /\ Cardinality({y \in S : y < x}) <= Cardinality({y \in T : y < x})
      BY <2>1, FS_Subset
    <2>3. Cardinality({y \in S : y < x}) \in Nat /\ Cardinality({y \in T : y < x}) \in Nat
      BY <2>1, <2>2, FS_CardinalityType
    <2>4. Cardinality({y \in T : y < x}) < from
      BY <1>1 DEF Before
    <2>5. Cardinality({y \in S : y < x}) < from
      BY <2>2, <2>3, <2>4
    <2> QED
      BY <1>1, <2>5 DEF Before
  <1>2. CASE platform # "dingtalk"
    BY <1>2 DEF Before, Platform
  <1> QED
    BY <1>1, <1>2

\* The users of a department are finitely many numbers.
LEMMA MembersAre ==
    ASSUME NEW r, NEW d
    PROVE  Members(r, d) \in SUBSET Nat /\ IsFiniteSet(Members(r, d)) /\ Members(r, d) \subseteq Person
  <1>1. Members(r, d) \subseteq Person
    BY DEF Members
  <1> QED
    BY <1>1, PullAssumption, FS_Subset

\* The memberships passed over are finitely many, and each is somebody's in a department.
LEMMA PassedFinite ==
    ASSUME RemoteTyped, seen.stayed \subseteq remote.member
    PROVE  /\ IsFiniteSet(PassedOver) /\ Cardinality(PassedOver) \in Nat
           /\ \A m \in seen.stayed : m[1] \in Person /\ m[2] \in Department /\ m = <<m[1], m[2]>>
                                     /\ m[1] \in Members(remote, m[2])
  <1>1. PassedOver \subseteq Person \X Department
    BY DEF PassedOver, RemoteTyped
  <1>2. \A m \in seen.stayed : m[1] \in Person /\ m[2] \in Department /\ m = <<m[1], m[2]>>
                                     /\ m[1] \in Members(remote, m[2])
    BY DEF RemoteTyped, Members
  <1> QED
    BY <1>1, <1>2, MembershipsFinite

\* If no more are passed over than before, they are not too many.
LEMMA FewerPassed ==
    ASSUME RemoteTyped, SeenTyped, Met, pull.phase \in Asking,
           PassedOver' \subseteq PassedOver, Leavers' = Leavers
    PROVE  Cardinality(PassedOver') <= Leavers'
  <1>1. IsFiniteSet(PassedOver) /\ Cardinality(PassedOver) \in Nat
    BY PassedFinite DEF Met
  <1>2. Cardinality(PassedOver') <= Cardinality(PassedOver) /\ Cardinality(PassedOver') \in Nat
    BY <1>1, FS_Subset, FS_CardinalityType
  <1>3. Cardinality(PassedOver) <= Leavers /\ Leavers \in Nat
    BY DEF Met, Leavers, SeenTyped
  <1> QED
    BY <1>1, <1>2, <1>3

\* A change that takes nobody out of DingTalk's lists lets no page pass over anybody.
LEMMA NoneShifts ==
    ASSUME PullTyped, pull' = pull, RemoteTyped', seen'.stayed \subseteq seen.stayed,
           seen'.stayed \subseteq remote'.member,
           pull.platform # "dingtalk" \/ remote.member \subseteq remote'.member
    PROVE  PassedOver' \subseteq PassedOver
  <1> SUFFICES ASSUME NEW m \in PassedOver', m[2] \in Range(pull.todo)
               PROVE  Before(pull.platform, Members(remote, m[2]), pull.from, m[1])
    BY DEF PassedOver, UserDepartments
  <1>1. Before(pull.platform, Members(remote', m[2]), pull.from, m[1])
    BY DEF PassedOver
  <1>2. Members(remote, m[2]) \subseteq Members(remote', m[2]) \/ pull.platform # "dingtalk"
    BY DEF Members
  <1>3. pull.platform \in Platform /\ pull.from \in Nat
    BY DEF PullTyped
  <1> QED
    BY <1>1, <1>2, <1>3, BeforeKept, MembersAre

\* One more is at most one more.
LEMMA OneMore ==
    ASSUME NEW S, IsFiniteSet(S), NEW x
    PROVE  /\ IsFiniteSet(S \cup {x}) /\ Cardinality(S \cup {x}) \in Nat
           /\ Cardinality(S \cup {x}) <= Cardinality(S) + 1
  <1>1. Cardinality(S) \in Nat
    BY FS_CardinalityType
  <1>2. /\ IsFiniteSet(S \cup {x})
        /\ Cardinality(S \cup {x}) = Cardinality(S) \/ Cardinality(S \cup {x}) = Cardinality(S) + 1
    <2>1. x \in S => S \cup {x} = S
      OBVIOUS
    <2> QED
      BY <2>1, FS_AddElement
  <1> DEFINE m == Cardinality(S)
             n == Cardinality(S \cup {x})
  <1>3. m \in Nat /\ (n = m \/ n = m + 1)
    BY <1>1, <1>2
  <1> HIDE DEF m, n
  <1>4. n \in Nat /\ n <= m + 1
    BY <1>3
  <1> QED
    BY <1>2, <1>4 DEF m, n

\* Of two numbers the smaller has fewer before it.
LEMMA RanksDiffer ==
    ASSUME NEW S \in SUBSET Nat, IsFiniteSet(S), NEW p \in S, NEW q \in S,
           Cardinality({y \in S : y < p}) = Cardinality({y \in S : y < q})
    PROVE  p = q
  <1>1. ASSUME NEW a \in S, NEW b \in S, a < b
        PROVE  Cardinality({y \in S : y < a}) # Cardinality({y \in S : y < b})
    <2> DEFINE A == {y \in S : y < a}
               B == {y \in S : y < b}
    <2>1. a \in Nat /\ b \in Nat
      OBVIOUS
    <2>2. A \cup {a} \subseteq B /\ a \notin A /\ A \subseteq S /\ B \subseteq S
      <3>1. \A y \in A : y < b
        <4> SUFFICES ASSUME NEW y \in S, y < a PROVE y < b
          OBVIOUS
        <4>1. y \in Nat
          OBVIOUS
        <4> QED
          BY <1>1, <2>1, <4>1
      <3>2. a \in B
        BY <1>1
      <3>3. a \notin A
        BY <2>1
      <3>4. A \subseteq S /\ B \subseteq S
        OBVIOUS
      <3>5. A \subseteq B
        BY <3>1
      <3> QED
        BY <3>2, <3>3, <3>4, <3>5
    <2> HIDE DEF A, B
    <2>3. IsFiniteSet(A) /\ IsFiniteSet(B) /\ Cardinality(A) \in Nat /\ Cardinality(B) \in Nat
      BY <2>2, FS_Subset, FS_CardinalityType
    <2>4. Cardinality(A \cup {a}) = Cardinality(A) + 1
      BY <2>2, <2>3, FS_AddElement
    <2>5. Cardinality(A \cup {a}) <= Cardinality(B)
      BY <2>2, <2>3, FS_Subset
    <2>6. Cardinality(A) # Cardinality(B)
      BY <2>3, <2>4, <2>5
    <2> QED
      BY <2>6 DEF A, B
  <1>2. p \in Nat /\ q \in Nat
    OBVIOUS
  <1>3. p < q \/ q < p \/ p = q
    BY <1>2
  <1> QED
    BY <1>1, <1>3

\* How many of a list come before p.
Rank(S, p) == Cardinality({y \in S : y < p})

\* When one goes out of a list, only the one at the offset comes before it.
LEMMA ShiftByOne ==
    ASSUME NEW S \in SUBSET Nat, IsFiniteSet(S), NEW T, NEW l, T \subseteq S, S \subseteq T \cup {l},
           NEW from \in Nat, NEW p \in Nat,
           Rank(T, p) < from, ~(Rank(S, p) < from)
    PROVE  Rank(S, p) = from
  <1> DEFINE A == {y \in S : y < p}
             B == {y \in T : y < p}
  <1>1. A \subseteq B \cup {l} /\ B \subseteq S /\ A \subseteq S
    OBVIOUS
  <1> HIDE DEF A, B
  <1>2. IsFiniteSet(A) /\ IsFiniteSet(B) /\ Cardinality(A) \in Nat /\ Cardinality(B) \in Nat
    BY <1>1, FS_Subset, FS_CardinalityType
  <1>3. IsFiniteSet(B \cup {l}) /\ Cardinality(B \cup {l}) <= Cardinality(B) + 1
    BY <1>2, OneMore
  <1>4. Cardinality(A) <= Cardinality(B \cup {l}) /\ Cardinality(B \cup {l}) \in Nat
    BY <1>1, <1>3, FS_Subset, FS_CardinalityType
  <1>5. Cardinality(B) < from /\ ~(Cardinality(A) < from)
    BY DEF A, B, Rank
  <1>6. Cardinality(A) = from
    BY <1>2, <1>3, <1>4, <1>5
  <1> QED
    BY <1>6 DEF A, Rank

\* Somebody's leaving makes DingTalk's next page pass over one other at most.
LEMMA OneShifts ==
    ASSUME PullTyped, RemoteTyped, pull' = pull, pull.platform = "dingtalk", RemoteTyped',
           seen.stayed \subseteq remote.member, seen'.stayed \subseteq seen.stayed,
           \E l \in remote.member : remote'.member = remote.member \ {l}
    PROVE  \A m, n \in PassedOver' \ PassedOver : m = n
  <1>1. PICK l \in remote.member : remote'.member = remote.member \ {l}
    OBVIOUS
  <1> DEFINE h == Head(pull.todo)
             S == Members(remote, h)
             T == Members(remote', h)
  <1>2. S \in SUBSET Nat /\ IsFiniteSet(S) /\ T \subseteq S /\ S \subseteq T \cup {l[1]}
    <2>1. T \subseteq S
      BY <1>1 DEF Members
    <2>2. ASSUME NEW p \in S, p \notin T PROVE p = l[1]
      <3>1. <<p, h>> \in remote.member /\ <<p, h>> \notin remote'.member
        BY <2>2 DEF Members
      <3>2. <<p, h>> = l
        BY <1>1, <3>1
      <3> QED
        BY <3>2
    <2> HIDE DEF T
    <2> QED
      BY <2>1, <2>2, MembersAre
  <1>3. ASSUME NEW m \in PassedOver' \ PassedOver
        PROVE  m = <<m[1], h>> /\ m[1] \in S /\ Rank(S, m[1]) = pull.from
    <2>1. m \in seen.stayed /\ m[2] \in Range(pull.todo)
      BY <1>3 DEF PassedOver, UserDepartments
    <2>2. /\ pull.phase = "users" /\ m[2] = h
          /\ Before(pull.platform, T, pull.from, m[1])
      BY <1>3, <2>1 DEF PassedOver
    <2>3. ~Before(pull.platform, S, pull.from, m[1])
      BY <1>3, <2>1, <2>2 DEF PassedOver, UserDepartments
    <2>4. m = <<m[1], m[2]>> /\ m[1] \in S
      BY <2>1, <2>2, PassedFinite
    <2>5. pull.from \in Nat /\ m[1] \in Nat
      BY <1>2, <2>4 DEF PullTyped
    <2> HIDE DEF S, T, h
    <2>6. Rank(T, m[1]) < pull.from /\ ~(Rank(S, m[1]) < pull.from)
      BY <2>2, <2>3 DEF Before, Rank
    <2>7. Rank(S, m[1]) = pull.from
      <3> DEFINE p == m[1]
                 k == pull.from
                 x == l[1]
      <3>1. p \in Nat /\ k \in Nat /\ S \subseteq T \cup {x}
        BY <1>2, <2>5
      <3>2. Rank(T, p) < k /\ ~(Rank(S, p) < k)
        BY <2>6
      <3> HIDE DEF p, k, x
      <3>3. Rank(S, p) = k
        BY <1>2, <3>1, <3>2, ShiftByOne
      <3> QED
        BY <3>3 DEF p, k
    <2> QED
      BY <2>2, <2>4, <2>7
  <1> HIDE DEF S, h
  <1> SUFFICES ASSUME NEW m \in PassedOver' \ PassedOver, NEW n \in PassedOver' \ PassedOver
               PROVE  m = n
    OBVIOUS
  <1>4. m = <<m[1], h>> /\ m[1] \in S /\ Rank(S, m[1]) = pull.from
    BY <1>3
  <1>5. n = <<n[1], h>> /\ n[1] \in S /\ Rank(S, n[1]) = pull.from
    BY <1>3
  <1>6. \A p, q \in S : Rank(S, p) = Rank(S, q) => p = q
    BY <1>2, RanksDiffer DEF Rank
  <1>7. m[1] = n[1]
    BY <1>4, <1>5, <1>6
  <1> QED
    BY <1>4, <1>5, <1>7

\* Others' changes of the platform break nothing.
LEMMA ChangesKeep ==
    ASSUME PullInv, Changes
    PROVE  PullInv'
  <1> USE DEF PullInv
  <1>1. /\ pull.phase \in Running /\ pull' = pull /\ rows' = rows
        /\ RemoteTyped' /\ SeenTyped'
        /\ seen'.above = seen.above /\ seen'.stayed = seen.stayed \cap remote'.member
        /\ seen'.changes = seen.changes + 1
        /\ \/ seen'.left = seen.left /\ remote.member \subseteq remote'.member
           \/ \E m \in remote.member : seen'.left = seen.left + 1 /\ remote'.member = remote.member \ {m}
        /\ seen.moved \subseteq seen'.moved
        /\ \A c \in Department \ seen'.moved : remote'.parent[c] = remote.parent[c]
        /\ seen'.moved = {} => remote'.parent = remote.parent
    BY ChangeIs
  <1>2. Recorded /\ Walked /\ Met /\ PullTyped
    BY <1>1 DEF Kept, Typed
  <1>3. Typed'
    BY <1>1 DEF Typed, PullTyped
  <1>4. Recorded'
    <2>1. Rootless' = Rootless
      BY <1>1 DEF Rootless
    <2>2. ASSUME seen'.above \cap seen'.moved = {}
          PROVE  /\ \A c \in seen'.above : remote'.parent[c] \in (seen'.above \ {pull'.root}) \cup {0}
                 /\ pull'.platform # "wecom" => DOMAIN pull'.records \cap seen'.above = {}
      BY <1>1, <1>2, <2>2 DEF Recorded
    <2> QED
      BY <1>1, <1>2, <2>1, <2>2 DEF Recorded
  <1>5. Walked'
    <2>1. ASSUME seen'.moved = {}
          PROVE  /\ seen.moved = {} /\ remote'.parent = remote.parent
                 /\ Below(remote', pull.root) = Below(remote, pull.root)
                 /\ \A d : Listed(pull.platform, d)' = Listed(pull.platform, d)
      <3>1. remote'.parent = remote.parent
        BY <1>1, <2>1
      <3>2. \A d : Below(remote', d) = Below(remote, d)
        BY <3>1, SameTree
      <3> QED
        BY <1>1, <2>1, <3>1, <3>2 DEF Listed
    <2>3. CASE seen'.moved = {}
      BY <1>1, <1>2, <2>1, <2>3 DEF Walked
    <2>4. CASE seen'.moved # {}
      BY <1>1, <1>2, <2>4 DEF Walked
    <2> QED
      BY <2>3, <2>4
  <1>6. Met'
    <2>1. seen'.stayed \subseteq remote'.member /\ seen'.stayed \subseteq seen.stayed
      BY <1>1
    <2>2. \A p \in DOMAIN pull'.users, d \in Department : <<p, d>> \in seen'.stayed => d \in pull'.users[p]
      BY <1>1, <1>2, <2>1 DEF Met
    <2>3. UserDepartments(pull)' = UserDepartments(pull)
      BY <1>1
    <2>4. ASSUME pull.phase \in Asking PROVE Cardinality(PassedOver') <= Leavers'
      <3>1. CASE pull.platform # "dingtalk" \/ (seen'.left = seen.left /\ remote.member \subseteq remote'.member)
        <4>1. PassedOver' \subseteq PassedOver /\ Leavers' = Leavers
          BY <1>1, <1>2, <2>1, <3>1, NoneShifts DEF Leavers, Typed
        <4> QED
          BY <1>2, <2>4, <4>1, FewerPassed DEF Typed
      <3>2. CASE /\ pull.platform = "dingtalk"
                 /\ \E m \in remote.member : seen'.left = seen.left + 1 /\ remote'.member = remote.member \ {m}
        <4> SUFFICES Cardinality(PassedOver') <= Leavers'
          OBVIOUS
        <4>1. \A m, n \in PassedOver' \ PassedOver : m = n
          <5>1. seen.stayed \subseteq remote.member /\ RemoteTyped
            BY <1>2 DEF Met, Typed
          <5>2. \E l \in remote.member : remote'.member = remote.member \ {l}
            BY <3>2
          <5> QED
            BY <1>1, <1>2, <2>1, <3>2, <5>1, <5>2, OneShifts
        <4>2. PICK m : PassedOver' \subseteq PassedOver \cup {m}
          BY <4>1
        <4>3. IsFiniteSet(PassedOver) /\ Cardinality(PassedOver) \in Nat
          BY <1>2, PassedFinite DEF Typed, Met
        <4>4. IsFiniteSet(PassedOver \cup {m}) /\ Cardinality(PassedOver \cup {m}) <= Cardinality(PassedOver) + 1
          BY <4>3, OneMore
        <4>5. Cardinality(PassedOver') <= Cardinality(PassedOver \cup {m})
                /\ Cardinality(PassedOver') \in Nat /\ Cardinality(PassedOver \cup {m}) \in Nat
          BY <4>2, <4>4, FS_Subset, FS_CardinalityType
        <4>6. Cardinality(PassedOver) <= seen.left /\ seen.left \in Nat
          BY <1>2, <2>4, <3>2 DEF Met, Leavers, Typed, SeenTyped
        <4>7. Leavers' = seen.left + 1
          BY <1>1, <3>2 DEF Leavers
        <4> QED
          BY <4>3, <4>4, <4>5, <4>6, <4>7
      <3> QED
        BY <1>1, <3>1, <3>2
    <2> QED
      BY <1>1, <1>2, <2>1, <2>2, <2>3, <2>4 DEF Met
  <1>7. Unchanged'
    BY <1>1 DEF Unchanged, SeenTyped, Typed
  <1>8. Finished' /\ pull'.phase # "crashed"
    BY <1>1 DEF Finished, Running
  <1>9. seen'.changes # 0
    BY <1>1 DEF SeenTyped, Typed
  <1> QED
    BY <1>9, <1>3, <1>4, <1>5, <1>6, <1>7, <1>8

\* A pull begins with nothing but its root in the queue.
LEMMA FetchKeeps ==
    ASSUME PullInv, fetch
    PROVE  PullInv'
  <1> USE DEF PullInv
  <1>1. PICK platform \in Platform, root \in Roots :
          /\ pull' = [ phase |-> "token", platform |-> platform, root |-> root,
                       queue |-> <<root>>, visited |-> {}, records |-> Nothing, order |-> <<>>,
                       todo |-> <<>>, from |-> 0, users |-> Nothing ]
          /\ seen' = [seen EXCEPT !.stayed = remote.member, !.above = Range(RemotePath(remote)[root])]
    BY DEF fetch
  <1>2. remote' = remote /\ rows' = rows /\ pull.phase = "idle"
    BY DEF fetch
  <1> DEFINE above == Range(RemotePath(remote)[root])
  <1>3. RemoteTyped /\ SeenTyped /\ root \in Department
    BY PullAssumption DEF Typed
  <1>4. above \subseteq Department /\ root \in above
          /\ \A c \in above : remote.parent[c] \in (above \ {root}) \cup {0}
    BY <1>3, AboveIs DEF RemoteTyped
  <1> HIDE DEF above
  <1>5. seen' = [ above |-> above, stayed |-> remote.member, moved |-> seen.moved,
                  left |-> seen.left, changes |-> seen.changes ]
    BY <1>1, <1>3 DEF SeenTyped, above
  <1>6. /\ pull'.phase = "token" /\ pull'.platform = platform /\ pull'.root = root /\ pull'.queue = <<root>>
        /\ pull'.visited = {} /\ pull'.records = Nothing /\ pull'.order = <<>> /\ pull'.todo = <<>>
        /\ pull'.from = 0 /\ pull'.users = Nothing
    BY <1>1
  <1>7. DOMAIN Nothing = {} /\ Nothing \in [{} -> Department \cup {0}] /\ Nothing \in [{} -> SUBSET Department]
          /\ Range(<<>>) = {} /\ Range(<<root>>) = {root} /\ <<root>> \in Seq(Department) /\ <<root>> # <<>>
          /\ <<>> \in Seq(Department)
    BY <1>3 DEF Nothing, Range
  <1>8. PullTyped'
    BY <1>1, <1>3, <1>6, <1>7 DEF PullTyped
  <1>9. SeenTyped' /\ RemoteTyped'
    BY <1>2, <1>3, <1>5 DEF SeenTyped, RemoteTyped
  <1>10. Typed'
    BY <1>6, <1>8, <1>9 DEF Typed, Phase
  <1>11. Recorded'
    BY <1>2, <1>4, <1>5, <1>6, <1>7 DEF Recorded, Rootless
  <1>12. Walked'
    BY <1>6, <1>7 DEF Walked
  <1>13. Met'
    BY <1>2, <1>5, <1>6, <1>7 DEF Met, Asking
  <1>14. Unchanged'
    BY <1>6, <1>7 DEF Unchanged
  <1>15. Finished'
    BY <1>6 DEF Finished
  <1>16. seen'.changes = 0 => seen'.moved = {}
    BY <1>5
  <1> QED
    BY <1>16, <1>6, <1>10, <1>11, <1>12, <1>13, <1>14, <1>15

-----------------------------------------------------------------------------
(* The walk. *)

\* A queue is its head and the rest.
LEMMA HeadTailIs ==
    ASSUME NEW D, NEW s \in Seq(D), s # <<>>
    PROVE  /\ Head(s) \in D /\ Tail(s) \in Seq(D) /\ Head(s) \in Range(s)
           /\ Range(s) = {Head(s)} \cup Range(Tail(s))
  <1>1. Len(s) \in Nat /\ Len(s) # 0 /\ DOMAIN s = 1..Len(s)
    BY EmptySeq, LenProperties
  <1>2. Head(s) = s[1] /\ Tail(s) \in Seq(D) /\ Len(Tail(s)) = Len(s) - 1
          /\ \A i \in 1..(Len(s) - 1) : Tail(s)[i] = s[i + 1]
    BY HeadTailProperties
  <1>3. DOMAIN Tail(s) = 1..(Len(s) - 1)
    BY <1>1, <1>2, LenProperties
  <1>4. 1 \in 1..Len(s) /\ s[1] \in D
    BY <1>1, ElementOfSeq
  <1>5. Range(s) = {s[i] : i \in 1..Len(s)} /\ Range(Tail(s)) = {s[i + 1] : i \in 1..(Len(s) - 1)}
    BY <1>1, <1>2, <1>3 DEF Range
  <1>6. \A i \in 1..Len(s) : i = 1 \/ (i - 1 \in 1..(Len(s) - 1) /\ (i - 1) + 1 = i)
    BY <1>1
  <1>7. \A i \in 1..(Len(s) - 1) : i + 1 \in 1..Len(s)
    BY <1>1
  <1>8. ASSUME NEW x \in Range(s) PROVE x = Head(s) \/ x \in Range(Tail(s))
    <2>1. PICK i \in 1..Len(s) : x = s[i]
      BY <1>5, <1>8
    <2>2. i # 1 => x = s[(i - 1) + 1]
      BY <1>6, <2>1
    <2> QED
      BY <1>2, <1>5, <1>6, <2>1, <2>2
  <1>9. Head(s) \in Range(s)
    BY <1>2, <1>4, <1>5
  <1>10. Range(Tail(s)) \subseteq Range(s)
    BY <1>5, <1>7
  <1> QED
    BY <1>2, <1>4, <1>8, <1>9, <1>10

\* Two lists, one behind the other.
LEMMA ConcatIs ==
    ASSUME NEW D, NEW s \in Seq(D), NEW t \in Seq(D)
    PROVE  s \o t \in Seq(D) /\ Range(s \o t) = Range(s) \cup Range(t)
  <1>1. /\ s \o t \in Seq(D) /\ Len(s \o t) = Len(s) + Len(t) /\ Len(s) \in Nat /\ Len(t) \in Nat
        /\ \A i \in 1..(Len(s) + Len(t)) : (s \o t)[i] = IF i <= Len(s) THEN s[i] ELSE t[i - Len(s)]
    BY ConcatProperties, LenProperties
  <1>2. DOMAIN s = 1..Len(s) /\ DOMAIN t = 1..Len(t) /\ DOMAIN (s \o t) = 1..(Len(s) + Len(t))
    BY <1>1, LenProperties
  <1>3. Range(s \o t) = {(s \o t)[i] : i \in 1..(Len(s) + Len(t))}
          /\ Range(s) = {s[i] : i \in 1..Len(s)} /\ Range(t) = {t[i] : i \in 1..Len(t)}
    BY <1>2 DEF Range
  <1>4. \A i \in 1..Len(s) : i \in 1..(Len(s) + Len(t)) /\ (s \o t)[i] = s[i]
    BY <1>1
  <1>5. \A i \in 1..Len(t) : Len(s) + i \in 1..(Len(s) + Len(t)) /\ (s \o t)[Len(s) + i] = t[i]
    BY <1>1
  <1>6. \A i \in 1..(Len(s) + Len(t)) : i \in 1..Len(s) \/ (i - Len(s) \in 1..Len(t) /\ Len(s) + (i - Len(s)) = i)
    BY <1>1
  <1> QED
    BY <1>1, <1>3, <1>4, <1>5, <1>6

\* What is listed for a department is below it, and so is what it hangs from.
LEMMA ListedAre ==
    ASSUME RemoteTyped, NEW platform \in Platform, NEW d \in Department
    PROVE  /\ Listed(platform, d) \in SUBSET Nat /\ IsFiniteSet(Listed(platform, d))
           /\ Listed(platform, d) \subseteq Department
           /\ \A c \in Listed(platform, d) :
                /\ remote.parent[c] = d \/ remote.parent[c] \in Listed(platform, d)
                     \/ (platform = "wecom" /\ c = d)
                /\ c \in Below(remote, d)
  <1>0. Tree(remote.parent)
    BY DEF RemoteTyped
  <1>1. Listed(platform, d) \subseteq Department
    BY <1>0, BelowIs DEF Listed
  <1>2. Listed(platform, d) \in SUBSET Nat /\ IsFiniteSet(Listed(platform, d))
    BY <1>1, PullAssumption, FS_Subset
  <1>3. ASSUME NEW c \in Listed(platform, d)
        PROVE  /\ remote.parent[c] = d \/ remote.parent[c] \in Listed(platform, d)
                    \/ (platform = "wecom" /\ c = d)
               /\ c \in Below(remote, d)
    <2>1. CASE platform = "wecom"
      BY <1>0, <1>1, <1>3, <2>1, BelowIs DEF Listed
    <2>2. CASE platform # "wecom"
      <3>1. c \in Department /\ remote.parent[c] = d
        BY <1>3, <2>2 DEF Listed
      <3>2. d \in Below(remote, d) /\ d # 0
        BY <1>0, BelowIs, NumbersAreNotZero
      <3> QED
        BY <1>0, <3>1, <3>2, BelowIs
    <2> QED
      BY <2>1, <2>2
  <1> QED
    BY <1>1, <1>2, <1>3

\* Only Feishu's department lists come in pages.
LEMMA DepartmentPageIs ==
    ASSUME RemoteTyped, NEW platform \in Platform, NEW d \in Department, NEW from \in Nat,
           platform # "feishu" => from = 0
    PROVE  LET page == DepartmentPage(platform, d, from)
           IN  Continues(platform, Listed(platform, d), from, page) /\ (page.more => platform = "feishu")
  <1>1. Listed(platform, d) \in SUBSET Nat /\ IsFiniteSet(Listed(platform, d))
    BY ListedAre
  <1>2. CASE platform = "dingtalk"
    <2>1. DepartmentPage(platform, d, from) = [items |-> Sorted(Listed(platform, d)), more |-> FALSE]
      BY <1>2 DEF DepartmentPage
    <2>2. Sorted(Listed(platform, d)) \in Seq(Listed(platform, d))
            /\ Range(Sorted(Listed(platform, d))) = Listed(platform, d)
      BY <1>1, SortedIs
    <2>3. /\ DepartmentPage(platform, d, from).items = Sorted(Listed(platform, d))
          /\ DepartmentPage(platform, d, from).more = FALSE
      BY <2>1
    <2> QED
      BY <1>2, <2>2, <2>3 DEF Continues
  <1>3. CASE platform # "dingtalk"
    <2>1. DepartmentPage(platform, d, from) = Page(platform, Listed(platform, d), from)
      BY <1>3 DEF DepartmentPage
    <2>2. platform = "wecom" => from = 0
      OBVIOUS
    <2>3. Continues(platform, Listed(platform, d), from, Page(platform, Listed(platform, d), from))
      BY <1>1, <2>2, PageIs
    <2> QED
      BY <1>3, <2>1, <2>3 DEF Continues, Platform
  <1> QED
    BY <1>2, <1>3

\* One answer, with what it is the first to list, and what comes next.
LEMMA ListDepartmentsIs ==
    ASSUME Typed, list_departments
    PROVE  \E new \in SUBSET Listed(pull.platform, Head(pull.queue)), more \in BOOLEAN :
             LET d == Head(pull.queue)
             IN  /\ remote' = remote /\ rows' = rows /\ seen' = seen /\ pull.phase = "departments"
                 /\ d \in Range(pull.queue) /\ d \in Department
                 /\ new \cap DOMAIN pull.records = {}
                 /\ pull'.records = pull.records ++ [c \in new |-> remote.parent[c]]
                 /\ pull'.platform = pull.platform /\ pull'.root = pull.root /\ pull'.users = pull.users
                 /\ PullTyped'
                 /\ more => pull.platform = "feishu"
                 /\ \A c \in Listed(pull.platform, d) : (more => c <= pull'.from) =>
                      (pull.platform = "feishu" /\ c <= pull.from) \/ c \in DOMAIN pull.records \cup new
                 /\ \/ /\ more /\ pull'.phase = "departments" /\ pull'.visited = pull.visited
                       /\ Head(pull'.queue) = d
                       /\ Range(pull'.queue) = Range(pull.queue) \cup (new \ {d})
                    \/ /\ ~more /\ pull'.phase = "departments" /\ pull'.visited = pull.visited \cup {d}
                       /\ pull'.from = 0
                       /\ Range(pull'.queue) \subseteq Range(pull.queue) \cup new
                       /\ Range(pull.queue) \cup new \subseteq pull'.visited \cup Range(pull'.queue)
                    \/ /\ ~more /\ pull'.phase \in {"users", "normalize"}
                       /\ pull'.visited = pull.visited /\ pull'.queue = pull.queue /\ pull'.from = 0
                       /\ Range(pull.queue) \cup new \subseteq pull.visited \cup {d}
                       /\ pull'.todo = UserDepartments(pull')
  <1> DEFINE d == Head(pull.queue)
             page == DepartmentPage(pull.platform, d, pull.from)
             new == Range(page.items) \ DOMAIN pull.records
             recorded == [pull EXCEPT !.records = @ ++ [c \in new |-> remote.parent[c]],
                                      !.order = @ \o Sorted(new)]
             met == Sorted(new \ {d})
             queue == Dropping(Tail(pull.queue) \o met, pull.visited \cup {d})
             users == [recorded EXCEPT !.phase = "users", !.todo = UserDepartments(recorded), !.from = 0]
             next == NextPage(pull.platform, pull.from, page.items)
             records == pull.records ++ [c \in new |-> remote.parent[c]]
             order == pull.order \o Sorted(new)
  <1>1. remote' = remote /\ rows' = rows /\ seen' = seen /\ pull.phase = "departments"
    BY DEF list_departments
  <1>2. pull' = IF page.more THEN [recorded EXCEPT !.queue = @ \o met, !.from = NextPage(pull.platform, @, page.items)]
                ELSE IF queue # <<>> THEN [recorded EXCEPT !.queue = queue, !.visited = @ \cup {d}, !.from = 0]
                ELSE IF users.todo = <<>> THEN [users EXCEPT !.phase = "normalize"]
                ELSE users
    BY DEF list_departments
  <1>3. PullTyped /\ RemoteTyped
    BY <1>1 DEF Typed, Kept, Running
  <1>4. /\ pull = [ phase |-> pull.phase, platform |-> pull.platform, root |-> pull.root,
                    queue |-> pull.queue, visited |-> pull.visited, records |-> pull.records,
                    order |-> pull.order, todo |-> pull.todo, from |-> pull.from, users |-> pull.users ]
        /\ pull.platform \in Platform /\ pull.root \in Department
        /\ pull.queue \in Seq(Department) /\ pull.visited \subseteq Department /\ pull.queue # <<>>
        /\ pull.records \in [DOMAIN pull.records -> Department \cup {0}] /\ DOMAIN pull.records \subseteq Department
        /\ pull.order \in Seq(Department) /\ Range(pull.order) = DOMAIN pull.records
        /\ pull.todo \in Seq(Department) /\ pull.from \in Nat
        /\ pull.users \in [DOMAIN pull.users -> SUBSET Department] /\ DOMAIN pull.users \subseteq Person
        /\ pull.platform # "feishu" => pull.from = 0
    BY <1>1, <1>3 DEF PullTyped
  <1>5. d \in Department /\ d \in Range(pull.queue) /\ Tail(pull.queue) \in Seq(Department)
          /\ Range(pull.queue) = {d} \cup Range(Tail(pull.queue))
    BY <1>4, HeadTailIs
  <1>6. Continues(pull.platform, Listed(pull.platform, d), pull.from, page) /\ (page.more => pull.platform = "feishu")
    BY <1>3, <1>4, <1>5, DepartmentPageIs
  <1>7. Listed(pull.platform, d) \subseteq Department
    BY <1>3, <1>4, <1>5, ListedAre
  <1>8. PICK more \in BOOLEAN : more = page.more
    BY <1>6 DEF Continues
  <1> HIDE DEF page
  <1>9. new \subseteq Listed(pull.platform, d) /\ new \cap DOMAIN pull.records = {} /\ (more => next \in Nat)
    <2>1. page.items \in Seq(Listed(pull.platform, d)) /\ (more => next \in Nat)
      BY <1>6, <1>8 DEF Continues
    <2>2. Range(page.items) \subseteq Listed(pull.platform, d)
      BY <2>1, LenProperties, ElementOfSeq DEF Range
    <2> QED
      BY <2>1, <2>2
  <1>10. ASSUME NEW c \in Listed(pull.platform, d), more => c <= next
         PROVE  (pull.platform = "feishu" /\ c <= pull.from) \/ c \in DOMAIN pull.records \cup new
    <2>1. ~page.more \/ Before(pull.platform, Listed(pull.platform, d), next, c)
      BY <1>6, <1>8, <1>10 DEF Before
    <2>2. Before(pull.platform, Listed(pull.platform, d), pull.from, c) \/ c \in Range(page.items)
      BY <1>6, <2>1 DEF Continues
    <2>3. ASSUME Before(pull.platform, Listed(pull.platform, d), pull.from, c), pull.platform # "feishu"
          PROVE  FALSE
      <3>1. pull.from = 0 /\ pull.platform \in Platform
        BY <1>4, <2>3
      <3>2. CASE pull.platform = "dingtalk"
        <4>1. {y \in Listed(pull.platform, d) : y < c} \subseteq Department
          BY <1>7
        <4>2. Cardinality({y \in Listed(pull.platform, d) : y < c}) \in Nat
          BY <4>1, PullAssumption, FS_Subset, FS_CardinalityType
        <4>3. Cardinality({y \in Listed(pull.platform, d) : y < c}) < 0
          BY <2>3, <3>1, <3>2 DEF Before
        <4> QED
          BY <4>2, <4>3
      <3>3. CASE pull.platform = "wecom"
        BY <2>3, <3>3 DEF Before
      <3> QED
        BY <2>3, <3>1, <3>2, <3>3 DEF Platform
    <2>4. Before(pull.platform, Listed(pull.platform, d), pull.from, c) /\ pull.platform = "feishu" => c <= pull.from
      BY DEF Before
    <2> QED
      BY <2>2, <2>3, <2>4
  <1>11. /\ new \subseteq Department /\ Sorted(new) \in Seq(Department) /\ Range(Sorted(new)) = new
         /\ met \in Seq(Department) /\ Range(met) = new \ {d}
    <2> HIDE DEF new
    <2>1. new \subseteq Department
      BY <1>7, <1>9
    <2>2. new \in SUBSET Nat /\ IsFiniteSet(new) /\ new \ {d} \in SUBSET Nat /\ IsFiniteSet(new \ {d})
      BY <2>1, PullAssumption, FS_Subset
    <2>3. Sorted(new) \in Seq(new) /\ Range(Sorted(new)) = new
      BY <2>2, SortedIs
    <2>4. met \in Seq(new \ {d}) /\ Range(met) = new \ {d}
      BY <2>2, SortedIs
    <2>5. Sorted(new) \in Seq(Department) /\ met \in Seq(Department)
      BY <2>1, <2>3, <2>4, SeqMonotonic
    <2> QED
      BY <2>1, <2>3, <2>4, <2>5
  <1> HIDE DEF new, met
  <1>12. /\ order \in Seq(Department) /\ Range(order) = DOMAIN pull.records \cup new
         /\ DOMAIN records = DOMAIN pull.records \cup new
         /\ records \in [DOMAIN records -> Department \cup {0}] /\ DOMAIN records \subseteq Department
    <2>1. order \in Seq(Department) /\ Range(order) = DOMAIN pull.records \cup new
      BY <1>4, <1>11, ConcatIs
    <2>2. \A c \in new : remote.parent[c] \in Department \cup {0}
      BY <1>3, <1>11 DEF RemoteTyped, Tree
    <2>3. records = [c \in DOMAIN pull.records \cup new |->
                       IF c \in DOMAIN pull.records THEN pull.records[c] ELSE remote.parent[c]]
      BY DEF ++
    <2> HIDE DEF records
    <2> QED
      BY <1>4, <1>11, <2>1, <2>2, <2>3
  <1>13. /\ pull.queue \o met \in Seq(Department) /\ Range(pull.queue \o met) = Range(pull.queue) \cup (new \ {d})
         /\ Head(pull.queue \o met) = d /\ pull.queue \o met # <<>>
    <2>1. pull.queue \o met \in Seq(Department) /\ Range(pull.queue \o met) = Range(pull.queue) \cup (new \ {d})
      BY <1>4, <1>11, ConcatIs
    <2>2. Len(pull.queue) \in Nat /\ Len(pull.queue) # 0 /\ Len(met) \in Nat
      BY <1>4, <1>11, EmptySeq, LenProperties
    <2>3. Len(pull.queue \o met) = Len(pull.queue) + Len(met) /\ (pull.queue \o met)[1] = pull.queue[1]
      BY <1>4, <1>11, <2>2, ConcatProperties
    <2>4. pull.queue \o met # <<>>
      BY <2>1, <2>2, <2>3, EmptySeq
    <2>5. Head(pull.queue \o met) = (pull.queue \o met)[1] /\ d = pull.queue[1]
      BY <1>4, <2>1, <2>4, HeadTailProperties
    <2> QED
      BY <2>1, <2>3, <2>4, <2>5
  <1>14. /\ queue \in Seq(Department)
         /\ Range(queue) = (Range(Tail(pull.queue)) \cup (new \ {d})) \ (pull.visited \cup {d})
    <2> DEFINE tail == Tail(pull.queue)
               rest == tail \o met
    <2>1. tail \in Seq(Department)
      BY <1>5
    <2>2. queue = Dropping(rest, pull.visited \cup {d})
      OBVIOUS
    <2> HIDE DEF tail, queue, d
    <2>3. rest \in Seq(Department) /\ Range(rest) = Range(tail) \cup (new \ {d})
      BY <1>11, <2>1, ConcatIs
    <2> HIDE DEF rest
    <2>4. queue \in Seq(Department) /\ Range(queue) = Range(rest) \ (pull.visited \cup {d})
      BY <2>2, <2>3, DroppingIs
    <2> QED
      BY <2>3, <2>4 DEF tail
  <1>15. recorded = [ phase |-> "departments", platform |-> pull.platform, root |-> pull.root,
                      queue |-> pull.queue, visited |-> pull.visited, records |-> records,
                      order |-> order, todo |-> pull.todo, from |-> pull.from, users |-> pull.users ]
    <2> HIDE DEF records, order
    <2>1. recorded = [pull EXCEPT !.records = records, !.order = order]
      BY DEF records, order
    <2> HIDE DEF recorded
    <2> QED
      BY <1>1, <1>4, <2>1
  <1> DEFINE todo == UserDepartments(recorded)
  <1>16. todo \in Seq(Department) /\ todo = UserDepartments([platform |-> pull.platform, root |-> pull.root, order |-> order])
    <2> HIDE DEF records, order, recorded
    <2>1. recorded.platform = pull.platform /\ recorded.root = pull.root /\ recorded.order = order
      BY <1>15
    <2>2. todo = IF pull.platform = "feishu" THEN <<pull.root>> \o order ELSE order
      BY <2>1 DEF UserDepartments
    <2>3. <<pull.root>> \in Seq(Department)
      BY <1>4
    <2>4. <<pull.root>> \o order \in Seq(Department)
      BY <1>12, <2>3, ConcatIs
    <2>5. UserDepartments([platform |-> pull.platform, root |-> pull.root, order |-> order])
            = IF pull.platform = "feishu" THEN <<pull.root>> \o order ELSE order
      BY DEF UserDepartments
    <2> HIDE DEF todo
    <2> QED
      BY <1>12, <2>2, <2>4, <2>5
  <1> HIDE DEF records, order, queue, next, todo
  <1>17. CASE more
    <2>1. pull' = [recorded EXCEPT !.queue = pull.queue \o met, !.from = next]
      <3>1. pull' = [recorded EXCEPT !.queue = @ \o met, !.from = NextPage(pull.platform, @, page.items)]
        BY <1>2, <1>8, <1>17
      <3>2. recorded.queue = pull.queue /\ recorded.from = pull.from
        BY <1>15
      <3> HIDE DEF recorded
      <3> QED
        BY <1>15, <3>1, <3>2 DEF next
    <2> HIDE DEF recorded
    <2>2. pull' = [ phase |-> "departments", platform |-> pull.platform, root |-> pull.root,
                    queue |-> pull.queue \o met, visited |-> pull.visited, records |-> records,
                    order |-> order, todo |-> pull.todo, from |-> next, users |-> pull.users ]
      BY <1>15, <2>1
    <2>3. /\ pull'.phase = "departments" /\ pull'.platform = pull.platform /\ pull'.root = pull.root
          /\ pull'.queue = pull.queue \o met /\ pull'.visited = pull.visited /\ pull'.records = records
          /\ pull'.order = order /\ pull'.todo = pull.todo /\ pull'.from = next /\ pull'.users = pull.users
      BY <2>2
    <2>4. PullTyped'
      BY <1>4, <1>6, <1>8, <1>9, <1>12, <1>13, <1>17, <2>2, <2>3 DEF PullTyped
    <2>5. \A c \in Listed(pull.platform, d) : (more => c <= pull'.from) =>
            (pull.platform = "feishu" /\ c <= pull.from) \/ c \in DOMAIN pull.records \cup new
      BY <1>10, <2>3
    <2> HIDE DEF d
    <2> QED
      BY <1>1, <1>5, <1>6, <1>8, <1>9, <1>13, <1>17, <2>3, <2>4, <2>5 DEF records, d
  <1>18. CASE ~more /\ queue # <<>>
    <2>1. pull' = [recorded EXCEPT !.queue = queue, !.visited = pull.visited \cup {d}, !.from = 0]
      <3>1. pull' = [recorded EXCEPT !.queue = queue, !.visited = @ \cup {d}, !.from = 0]
        BY <1>2, <1>8, <1>18
      <3>2. recorded.visited = pull.visited
        BY <1>15
      <3> HIDE DEF recorded
      <3> QED
        BY <1>15, <3>1, <3>2
    <2> HIDE DEF recorded
    <2>2. pull' = [ phase |-> "departments", platform |-> pull.platform, root |-> pull.root,
                    queue |-> queue, visited |-> pull.visited \cup {d}, records |-> records,
                    order |-> order, todo |-> pull.todo, from |-> 0, users |-> pull.users ]
      BY <1>15, <2>1
    <2>3. /\ pull'.phase = "departments" /\ pull'.platform = pull.platform /\ pull'.root = pull.root
          /\ pull'.queue = queue /\ pull'.visited = pull.visited \cup {d} /\ pull'.records = records
          /\ pull'.order = order /\ pull'.todo = pull.todo /\ pull'.from = 0 /\ pull'.users = pull.users
      BY <2>2
    <2>4. PullTyped'
      BY <1>4, <1>5, <1>12, <1>14, <1>18, <2>2, <2>3 DEF PullTyped
    <2>5. \A c \in Listed(pull.platform, d) : (more => c <= pull'.from) =>
            (pull.platform = "feishu" /\ c <= pull.from) \/ c \in DOMAIN pull.records \cup new
      BY <1>10, <1>18
    <2>6. Range(queue) \subseteq Range(pull.queue) \cup new
            /\ Range(pull.queue) \cup new \subseteq (pull.visited \cup {d}) \cup Range(queue)
      BY <1>5, <1>14
    <2> HIDE DEF d
    <2> QED
      BY <1>1, <1>5, <1>6, <1>8, <1>9, <1>18, <2>3, <2>4, <2>5, <2>6 DEF records, d
  <1>19. CASE ~more /\ queue = <<>>
    <2>1. users = [ phase |-> "users", platform |-> pull.platform, root |-> pull.root,
                    queue |-> pull.queue, visited |-> pull.visited, records |-> records,
                    order |-> order, todo |-> todo, from |-> 0, users |-> pull.users ]
      <3>1. users = [recorded EXCEPT !.phase = "users", !.todo = todo, !.from = 0]
        BY DEF todo
      <3> HIDE DEF recorded, users
      <3> QED
        BY <1>15, <3>1
    <2>2. pull' = IF users.todo = <<>> THEN [users EXCEPT !.phase = "normalize"] ELSE users
      BY <1>2, <1>8, <1>19
    <2> HIDE DEF users, recorded
    <2>3. pull' = [ phase |-> IF todo = <<>> THEN "normalize" ELSE "users", platform |-> pull.platform, root |-> pull.root,
                    queue |-> pull.queue, visited |-> pull.visited, records |-> records,
                    order |-> order, todo |-> todo, from |-> 0, users |-> pull.users ]
      <3>1. CASE todo = <<>>
        BY <2>1, <2>2, <3>1
      <3>2. CASE todo # <<>>
        BY <2>1, <2>2, <3>2
      <3> QED
        BY <3>1, <3>2
    <2>4. /\ pull'.phase = (IF todo = <<>> THEN "normalize" ELSE "users")
          /\ pull'.platform = pull.platform /\ pull'.root = pull.root
          /\ pull'.queue = pull.queue /\ pull'.visited = pull.visited /\ pull'.records = records
          /\ pull'.order = order /\ pull'.todo = todo /\ pull'.from = 0 /\ pull'.users = pull.users
      BY <2>3
    <2>5. pull'.phase \in {"users", "normalize"} /\ (pull'.phase = "users" => pull'.todo # <<>>)
            /\ (pull'.phase = "normalize" => pull'.todo = <<>>)
      BY <2>4
    <2>5a. pull' = [ phase |-> pull'.phase, platform |-> pull'.platform, root |-> pull'.root,
                queue |-> pull'.queue, visited |-> pull'.visited, records |-> pull'.records,
                order |-> pull'.order, todo |-> pull'.todo, from |-> pull'.from, users |-> pull'.users ]
      BY <2>3, <2>4
    <2>6. PullTyped'
      BY <1>4, <1>12, <1>16, <2>4, <2>5, <2>5a DEF PullTyped
    <2>7. \A c \in Listed(pull.platform, d) : (more => c <= pull'.from) =>
            (pull.platform = "feishu" /\ c <= pull.from) \/ c \in DOMAIN pull.records \cup new
      BY <1>10, <1>19
    <2>8. Range(pull.queue) \cup new \subseteq pull.visited \cup {d}
      <3>1. Range(queue) = {}
        BY <1>19 DEF Range
      <3> QED
        BY <1>5, <1>14, <3>1
    <2>9. pull'.todo = UserDepartments(pull')
      BY <1>16, <2>4 DEF UserDepartments
    <2> HIDE DEF d
    <2> QED
      BY <1>1, <1>5, <1>6, <1>8, <1>9, <1>19, <2>4, <2>5, <2>6, <2>7, <2>8, <2>9 DEF records, d
  <1> QED
    BY <1>17, <1>18, <1>19

\* Nothing comes before the first page.
LEMMA NothingBefore ==
    ASSUME NEW platform \in Platform, NEW r, NEW d, NEW p \in Person
    PROVE  ~Before(platform, Members(r, d), 0, p)
  <1>1. p \in Nat /\ p > 0
    BY PullAssumption
  <1>2. CASE platform = "dingtalk"
    <2>1. Cardinality({y \in Members(r, d) : y < p}) \in Nat
      BY MembersAre, FS_Subset, FS_CardinalityType
    <2>2. ~(Cardinality({y \in Members(r, d) : y < p}) < 0)
      BY <2>1
    <2> QED
      BY <1>2, <2>2 DEF Before
  <1>3. CASE platform = "feishu"
    BY <1>1, <1>3 DEF Before
  <1>4. CASE platform = "wecom"
    BY <1>4 DEF Before
  <1> QED
    BY <1>2, <1>3, <1>4 DEF Platform

\* An answer with departments keeps the walk on what is below the root.
LEMMA DepartmentsKeep ==
    ASSUME PullInv, list_departments
    PROVE  PullInv'
  <1> USE DEF PullInv
  <1> DEFINE d == Head(pull.queue)
             L == Listed(pull.platform, d)
  <1>1. PICK new \in SUBSET L, more \in BOOLEAN :
                 /\ remote' = remote /\ rows' = rows /\ seen' = seen /\ pull.phase = "departments"
                 /\ d \in Range(pull.queue) /\ d \in Department
                 /\ new \cap DOMAIN pull.records = {}
                 /\ pull'.records = pull.records ++ [c \in new |-> remote.parent[c]]
                 /\ pull'.platform = pull.platform /\ pull'.root = pull.root /\ pull'.users = pull.users
                 /\ PullTyped'
                 /\ more => pull.platform = "feishu"
                 /\ \A c \in L : (more => c <= pull'.from) =>
                      (pull.platform = "feishu" /\ c <= pull.from) \/ c \in DOMAIN pull.records \cup new
                 /\ \/ /\ more /\ pull'.phase = "departments" /\ pull'.visited = pull.visited
                       /\ Head(pull'.queue) = d
                       /\ Range(pull'.queue) = Range(pull.queue) \cup (new \ {d})
                    \/ /\ ~more /\ pull'.phase = "departments" /\ pull'.visited = pull.visited \cup {d}
                       /\ pull'.from = 0
                       /\ Range(pull'.queue) \subseteq Range(pull.queue) \cup new
                       /\ Range(pull.queue) \cup new \subseteq pull'.visited \cup Range(pull'.queue)
                    \/ /\ ~more /\ pull'.phase \in {"users", "normalize"}
                       /\ pull'.visited = pull.visited /\ pull'.queue = pull.queue /\ pull'.from = 0
                       /\ Range(pull.queue) \cup new \subseteq pull.visited \cup {d}
                       /\ pull'.todo = UserDepartments(pull')
    BY ListDepartmentsIs
  <1>2. Recorded /\ Walked /\ Met /\ Unchanged /\ PullTyped /\ RemoteTyped
    BY <1>1 DEF Kept, Typed, Running
  <1>3. pull'.phase \in {"departments", "users", "normalize"}
    BY <1>1
  <1>4. Typed'
    BY <1>1, <1>3 DEF Typed, RemoteTyped, SeenTyped, Phase
  <1>5. /\ L \subseteq Department
        /\ \A c \in L : /\ remote.parent[c] = d \/ remote.parent[c] \in L
                             \/ (pull.platform = "wecom" /\ c = d)
                        /\ c \in Below(remote, d)
    <2>1. pull.platform \in Platform
      BY <1>2 DEF PullTyped
    <2> QED
      BY <1>1, <1>2, <2>1, ListedAre
  <1>6. d \in DOMAIN pull.records \cup {pull.root}
    BY <1>1, <1>2 DEF Recorded
  <1>7. /\ DOMAIN pull'.records = DOMAIN pull.records \cup new
        /\ \A c \in DOMAIN pull.records : pull'.records[c] = pull.records[c]
        /\ \A c \in new : pull'.records[c] = remote.parent[c]
    <2> DEFINE fresh == [c \in new |-> remote.parent[c]]
    <2>1. pull'.records = [c \in DOMAIN pull.records \cup new |->
                             IF c \in DOMAIN pull.records THEN pull.records[c] ELSE fresh[c]]
      BY <1>1 DEF ++
    <2> QED
      BY <1>1, <2>1
  <1> HIDE DEF L
  <1>8. \A c \in L : ~more => c \in DOMAIN pull.records \cup new \/ (pull.platform = "feishu" /\ c <= pull.from)
    BY <1>1
  <1>9. pull.root \in Department /\ pull.platform \in Platform /\ DOMAIN pull.records \subseteq Department
    BY <1>2 DEF PullTyped
  \* What is newly recorded is below a department that was there.
  <1>10. \A c \in new : c # pull.root => remote.parent[c] \in DOMAIN pull'.records \cup {pull.root}
    <2> SUFFICES ASSUME NEW c \in new, c # pull.root
                 PROVE  remote.parent[c] \in DOMAIN pull'.records \cup {pull.root}
      OBVIOUS
    <2>1. c \in L /\ c \notin DOMAIN pull.records
      BY <1>1 DEF L
    <2>2. c # d
      BY <1>6, <2>1
    <2>3. CASE remote.parent[c] = d
      BY <1>6, <1>7, <2>3
    <2>4. CASE remote.parent[c] \in L /\ pull.platform = "wecom"
      BY <1>1, <1>7, <1>8, <2>4
    <2>5. remote.parent[c] = d \/ pull.platform = "wecom"
      BY <2>1 DEF L, Listed
    <2> QED
      BY <1>5, <2>1, <2>2, <2>3, <2>4, <2>5
  <1>11. Recorded'
    <2>1. Rootless' = Rootless \cup (new \ {pull.root})
      BY <1>1, <1>7 DEF Rootless
    <2>2. Range(pull'.queue) \subseteq DOMAIN pull'.records \cup {pull'.root}
      <3>1. Range(pull'.queue) \subseteq Range(pull.queue) \cup new
        BY <1>1
      <3>2. Range(pull.queue) \subseteq DOMAIN pull.records \cup {pull.root}
        BY <1>2 DEF Recorded
      <3> QED
        BY <1>1, <1>7, <3>1, <3>2
    <2>3. \A c \in Rootless' : pull'.records[c] \in DOMAIN pull'.records \cup {pull'.root}
      <3>1. \A c \in Rootless : pull.records[c] \in DOMAIN pull.records \cup {pull.root}
        BY <1>2 DEF Recorded
      <3>2. \A c \in Rootless : c \in DOMAIN pull.records
        BY DEF Rootless
      <3> QED
        BY <1>1, <1>7, <1>10, <2>1, <3>1, <3>2
    <2>4. ASSUME NEW S \in (SUBSET Rootless') \ {{}}
          PROVE  \E c \in S : pull'.records[c] \notin S
      <3> DEFINE Old == S \cap Rootless
      <3>0. Old \subseteq DOMAIN pull.records /\ pull.root \notin S
        BY <1>1, <2>1 DEF Rootless
      <3>1. CASE Old # {}
        <4>1. PICK c \in Old : pull.records[c] \notin Old
          BY <1>2, <3>1 DEF Recorded
        <4>2. pull'.records[c] = pull.records[c] /\ c \in S /\ c \in Rootless
          BY <1>7, <3>0, <4>1
        <4>3. pull.records[c] \in DOMAIN pull.records \cup {pull.root}
          BY <1>2, <4>2 DEF Recorded
        <4>4. ASSUME pull.records[c] \in S PROVE FALSE
          <5>1. pull.records[c] \in DOMAIN pull.records /\ pull.records[c] # pull.root
            BY <3>0, <4>3, <4>4
          <5>2. pull.records[c] \in Rootless
            BY <5>1 DEF Rootless
          <5> QED
            BY <4>1, <4>4, <5>2
        <4> QED
          BY <4>2, <4>4
      <3>2. CASE Old = {}
        <4>1. S \subseteq new
          BY <2>1, <3>2
        <4>2. S \subseteq Department /\ S # {}
          BY <1>1, <1>5, <4>1 DEF L
        <4>3. PICK c \in S : remote.parent[c] \notin S
          BY <1>2, <4>2 DEF RemoteTyped, Tree
        <4> QED
          BY <1>7, <4>1, <4>3
      <3> QED
        BY <3>1, <3>2
    <2>5. ASSUME seen.above \cap seen.moved = {}, pull.platform # "wecom"
          PROVE  DOMAIN pull'.records \cap seen.above = {}
      <3>1. \A c \in seen.above : remote.parent[c] \in (seen.above \ {pull.root}) \cup {0}
        BY <1>2, <2>5 DEF Recorded
      <3>2. DOMAIN pull.records \cap seen.above = {}
        BY <1>2, <2>5 DEF Recorded
      <3>3. ASSUME NEW c \in new, c \in seen.above PROVE FALSE
        <4>1. remote.parent[c] = d
          BY <1>1, <2>5, <3>3 DEF L, Listed
        <4>2. d # 0
          BY <1>1, NumbersAreNotZero
        <4>3. d \in seen.above /\ d # pull.root
          BY <3>1, <3>3, <4>1, <4>2
        <4> QED
          BY <1>6, <3>2, <4>3
      <3> QED
        BY <1>7, <3>2, <3>3
    <2>6. pull.root \in seen.above /\ seen.above \subseteq Department
            /\ (seen.above \cap seen.moved = {} =>
                  \A c \in seen.above : remote.parent[c] \in (seen.above \ {pull.root}) \cup {0})
      BY <1>2 DEF Recorded
    <2> QED
      BY <1>1, <2>2, <2>3, <2>4, <2>5, <2>6 DEF Recorded
  <1>12. Walked'
    <2>1. DOMAIN pull.records \cup {pull.root} \subseteq pull.visited \cup Range(pull.queue)
      BY <1>1, <1>2 DEF Walked
    <2>2. pull'.phase \in {"token", "departments"} =>
            DOMAIN pull'.records \cup {pull'.root} \subseteq pull'.visited \cup Range(pull'.queue)
      <3>1. d \in Range(pull.queue)
        BY <1>1
      <3>2. CASE more
        BY <1>1, <1>7, <2>1, <3>1, <3>2
      <3>3. CASE ~more
        BY <1>1, <1>7, <2>1, <3>1, <3>3
      <3> QED
        BY <3>2, <3>3
    <2>3. ASSUME seen.moved = {}
          PROVE  /\ \A c \in DOMAIN pull'.records :
                     pull'.records[c] = remote.parent[c] /\ c \in Below(remote, pull.root)
                 /\ \A x \in pull'.visited : Listed(pull.platform, x) \subseteq DOMAIN pull'.records
                 /\ pull'.phase = "departments" /\ pull.platform = "feishu" =>
                     \A c \in Listed(pull.platform, Head(pull'.queue)) :
                       c <= pull'.from => c \in DOMAIN pull'.records
                 /\ pull'.phase \in {"users", "normalize", "done"} =>
                     /\ Below(remote, pull.root) \subseteq DOMAIN pull'.records \cup {pull.root}
                     /\ pull.platform = "wecom" => pull.root \in DOMAIN pull'.records
      <3>1. /\ \A c \in DOMAIN pull.records :
                 pull.records[c] = remote.parent[c] /\ c \in Below(remote, pull.root)
            /\ \A x \in pull.visited : Listed(pull.platform, x) \subseteq DOMAIN pull.records
            /\ pull.platform = "feishu" => \A c \in L : c <= pull.from => c \in DOMAIN pull.records
        BY <1>1, <1>2, <2>3 DEF Walked, L
      <3>2. d \in Below(remote, pull.root)
        BY <1>2, <1>6, <1>9, <3>1, BelowIs DEF RemoteTyped
      <3>3. \A c \in L : c \in Below(remote, pull.root)
        BY <1>2, <1>5, <1>9, <3>2, BelowChain DEF RemoteTyped
      <3>4. \A c \in DOMAIN pull'.records : pull'.records[c] = remote.parent[c] /\ c \in Below(remote, pull.root)
        BY <1>1, <1>7, <3>1, <3>3
      <3>5. ASSUME ~more PROVE L \subseteq DOMAIN pull'.records
        BY <1>7, <1>8, <3>1, <3>5
      <3>6. \A x \in pull'.visited : Listed(pull.platform, x) \subseteq DOMAIN pull'.records
        <4>1. pull'.visited = pull.visited \/ (~more /\ pull'.visited = pull.visited \cup {d})
          BY <1>1
        <4> QED
          BY <1>7, <3>1, <3>5, <4>1 DEF L
      <3>7. ASSUME pull'.phase = "departments", pull.platform = "feishu",
                   NEW c \in Listed(pull.platform, Head(pull'.queue)), c <= pull'.from
            PROVE  c \in DOMAIN pull'.records
        <4>1. CASE more
          <5>1. Head(pull'.queue) = d
            BY <1>1, <4>1
          <5>2. c \in L
            BY <3>7, <5>1 DEF L
          <5> QED
            BY <1>1, <1>7, <3>1, <3>7, <4>1, <5>2
        <4>2. CASE ~more
          <5>1. pull'.from = 0 /\ pull'.queue \in Seq(Department) /\ pull'.queue # <<>>
            BY <1>1, <3>7, <4>2 DEF PullTyped
          <5>2. c \in Department
            <6>1. Head(pull'.queue) \in Department
              BY <5>1, HeadTailIs
            <6> QED
              BY <1>2, <1>9, <3>7, <6>1, ListedAre
          <5> QED
            BY <3>7, <5>1, <5>2, PullAssumption
        <4> QED
          BY <4>1, <4>2
      <3>8. ASSUME pull'.phase \in {"users", "normalize", "done"}
            PROVE  /\ Below(remote, pull.root) \subseteq DOMAIN pull'.records \cup {pull.root}
                   /\ pull.platform = "wecom" => pull.root \in DOMAIN pull'.records
        <4>1. ~more /\ Range(pull.queue) \cup new \subseteq pull.visited \cup {d}
          BY <1>1, <3>8
        <4> DEFINE X == DOMAIN pull'.records \cup {pull.root}
        <4>2. \A x \in X : x \in pull.visited \cup {d}
          BY <1>7, <2>1, <4>1
        <4>3. \A x \in X : Listed(pull.platform, x) \subseteq DOMAIN pull'.records
          BY <1>7, <3>1, <3>5, <4>1, <4>2 DEF L
        <4> HIDE DEF X
        <4>4. pull.root \in X
          BY DEF X
        <4>5. CASE pull.platform = "wecom"
          <5>1. Below(remote, pull.root) \subseteq DOMAIN pull'.records
            BY <4>3, <4>4, <4>5 DEF Listed
          <5>2. pull.root \in Below(remote, pull.root)
            BY <1>2, <1>9, BelowIs DEF RemoteTyped
          <5> QED
            BY <5>1, <5>2
        <4>6. CASE pull.platform # "wecom"
          <5>1. \A x \in Department : remote.parent[x] \in X => x \in X
            BY <4>3, <4>6 DEF Listed, X
          <5>2. Below(remote, pull.root) \subseteq X
            BY <1>2, <1>9, <4>4, <5>1, BelowReached DEF RemoteTyped
          <5> QED
            BY <4>6, <5>2 DEF X
        <4> QED
          BY <4>5, <4>6
      <3> QED
        BY <3>4, <3>6, <3>7, <3>8
    <2>4. \A x : Listed(pull.platform, x)' = Listed(pull.platform, x)
      BY <1>1 DEF Listed
    <2> QED
      BY <1>1, <2>2, <2>3, <2>4 DEF Walked
  <1>13. Met'
    <2>1. /\ seen.stayed \subseteq remote.member /\ \A p \in DOMAIN pull.users : pull.users[p] # {}
          /\ \A p \in DOMAIN pull.users, x \in Department : <<p, x>> \in seen.stayed => x \in pull.users[p]
      BY <1>2 DEF Met
    <2>2. ASSUME pull'.phase \in {"users", "normalize", "done"}
          PROVE  pull'.todo = UserDepartments(pull') /\ pull'.from = 0
      BY <1>1, <2>2
    <2>3. ASSUME pull'.phase \in Asking, NEW m \in PassedOver' PROVE FALSE
      <3>1. m \in seen.stayed /\ m[2] \in Range(pull'.todo)
        BY <1>1, <2>2, <2>3 DEF PassedOver, Asking
      <3>2. Before(pull.platform, Members(remote, m[2]), 0, m[1])
        BY <1>1, <2>2, <2>3, <3>1 DEF PassedOver, Asking
      <3>3. m[1] \in Person
        BY <1>2, <2>1, <3>1, PassedFinite
      <3> QED
        BY <1>9, <3>2, <3>3, NothingBefore
    <2>4. ASSUME pull'.phase \in Asking PROVE Cardinality(PassedOver') <= Leavers'
      <3>1. PassedOver' = {} /\ Cardinality({}) = 0
        BY <2>3, <2>4, FS_EmptySet
      <3>2. Leavers' \in Nat
        BY <1>1 DEF Leavers, SeenTyped, PullInv, Typed
      <3> QED
        BY <3>1, <3>2
    <2> QED
      BY <1>1, <2>1, <2>2, <2>4 DEF Met
  <1>14. Unchanged'
    BY <1>1, <1>2 DEF Unchanged, DepartmentsOf
  <1>15. Finished'
    BY <1>3 DEF Finished
  <1> QED
    BY <1>1, <1>3, <1>4, <1>11, <1>12, <1>13, <1>14, <1>15

-----------------------------------------------------------------------------
(* The users, page by page. *)

\* One answer with users, and what comes next.
LEMMA ListUsersIs ==
    ASSUME Typed, list_users
    PROVE  LET d == Head(pull.todo)
           IN  \E found \in SUBSET Members(remote, d), more \in BOOLEAN :
                 /\ remote' = remote /\ rows' = rows /\ seen' = seen /\ pull.phase = "users"
                 /\ d \in Department /\ Range(pull.todo) = {d} \cup Range(Tail(pull.todo))
                 /\ pull' = [pull EXCEPT !.users = pull'.users, !.from = pull'.from, !.todo = pull'.todo,
                                         !.phase = pull'.phase]
                 /\ PullTyped'
                 /\ DOMAIN pull'.users = DOMAIN pull.users \cup found
                 /\ \A p \in found :
                      pull'.users[p] = (IF p \in DOMAIN pull.users THEN pull.users[p] ELSE {}) \cup DepartmentsOf(remote, p)
                 /\ \A p \in DOMAIN pull.users \ found : pull'.users[p] = pull.users[p]
                 /\ \A p \in Members(remote, d) :
                      ~more \/ Before(pull.platform, Members(remote, d), pull'.from, p) =>
                        Before(pull.platform, Members(remote, d), pull.from, p) \/ p \in found
                 /\ \/ more /\ pull'.phase = "users" /\ pull'.todo = pull.todo
                    \/ /\ ~more /\ pull'.phase \in {"users", "normalize"}
                       /\ pull'.todo = Tail(pull.todo) /\ pull'.from = 0
  <1> DEFINE d == Head(pull.todo)
             S == Members(remote, d)
             page == Page(pull.platform, S, pull.from)
             Earlier(p) == IF p \in DOMAIN pull.users THEN pull.users[p] ELSE {}
             users == [p \in Range(page.items) |-> Earlier(p) \cup DepartmentsOf(remote, p)] ++ pull.users
             next == NextPage(pull.platform, pull.from, page.items)
             found == Range(page.items)
  <1>1. remote' = remote /\ rows' = rows /\ seen' = seen /\ pull.phase = "users"
    BY DEF list_users
  <1>2. pull' = IF page.more
                THEN [pull EXCEPT !.users = users, !.from = NextPage(pull.platform, @, page.items)]
                ELSE [pull EXCEPT !.users = users, !.from = 0, !.todo = Tail(@),
                                  !.phase = IF Tail(pull.todo) = <<>> THEN "normalize" ELSE "users"]
    BY DEF list_users
  <1>3. /\ pull = [ phase |-> pull.phase, platform |-> pull.platform, root |-> pull.root,
                    queue |-> pull.queue, visited |-> pull.visited, records |-> pull.records,
                    order |-> pull.order, todo |-> pull.todo, from |-> pull.from, users |-> pull.users ]
        /\ pull.platform \in Platform /\ pull.root \in Department
        /\ pull.queue \in Seq(Department) /\ pull.visited \subseteq Department
        /\ pull.records \in [DOMAIN pull.records -> Department \cup {0}] /\ DOMAIN pull.records \subseteq Department
        /\ pull.order \in Seq(Department) /\ Range(pull.order) = DOMAIN pull.records
        /\ pull.todo \in Seq(Department) /\ pull.from \in Nat /\ pull.todo # <<>>
        /\ pull.users \in [DOMAIN pull.users -> SUBSET Department] /\ DOMAIN pull.users \subseteq Person
        /\ pull.platform = "wecom" => pull.from = 0
    BY <1>1 DEF Typed, PullTyped, Kept, Running
  <1>4. d \in Department /\ Tail(pull.todo) \in Seq(Department) /\ Range(pull.todo) = {d} \cup Range(Tail(pull.todo))
    BY <1>3, HeadTailIs
  <1>5. S \in SUBSET Nat /\ IsFiniteSet(S) /\ S \subseteq Person
    BY MembersAre
  <1> HIDE DEF S, d
  <1>6. Continues(pull.platform, S, pull.from, page)
    BY <1>3, <1>5, PageIs
  <1> HIDE DEF page
  <1>7. page.items \in Seq(S) /\ (page.more => next \in Nat)
    BY <1>6 DEF Continues
  <1>8. found \subseteq S
    BY <1>7, LenProperties, ElementOfSeq DEF Range
  <1>9. PICK more \in BOOLEAN : more = page.more
    BY <1>6 DEF Continues
  <1>10. page.more => pull.platform # "wecom"
    BY <1>6 DEF Continues
  <1>11. \A p \in S : ~page.more \/ Before(pull.platform, S, next, p) =>
             Before(pull.platform, S, pull.from, p) \/ p \in found
    BY <1>6 DEF Continues
  <1> HIDE DEF found, next
  <1>12. /\ DOMAIN users = DOMAIN pull.users \cup found
         /\ \A p \in found : users[p] = Earlier(p) \cup DepartmentsOf(remote, p)
         /\ \A p \in DOMAIN pull.users \ found : users[p] = pull.users[p]
    <2> DEFINE fresh == [p \in found |-> Earlier(p) \cup DepartmentsOf(remote, p)]
    <2>1. users = fresh ++ pull.users
      BY DEF found
    <2> HIDE DEF fresh
    <2>2. users = [p \in DOMAIN fresh \cup DOMAIN pull.users |-> IF p \in DOMAIN fresh THEN fresh[p] ELSE pull.users[p]]
      BY <2>1 DEF ++
    <2> HIDE DEF users
    <2>3. DOMAIN fresh = found /\ \A p \in found : fresh[p] = Earlier(p) \cup DepartmentsOf(remote, p)
      BY DEF fresh
    <2> HIDE DEF Earlier
    <2> QED
      BY <2>2, <2>3
  <1>13. /\ users \in [DOMAIN users -> SUBSET Department] /\ DOMAIN users \subseteq Person
    <2>1. \A p \in found : Earlier(p) \cup DepartmentsOf(remote, p) \in SUBSET Department
      BY <1>3 DEF DepartmentsOf
    <2>2. users = [p \in DOMAIN users |-> users[p]]
      BY DEF ++
    <2> HIDE DEF users
    <2> QED
      BY <1>3, <1>5, <1>8, <1>12, <2>1, <2>2
  <1> HIDE DEF users, Earlier
  <1>14. CASE more
    <2>1. pull' = [pull EXCEPT !.users = users, !.from = next]
      BY <1>2, <1>9, <1>14 DEF next
    <2>2. pull' = [ phase |-> "users", platform |-> pull.platform, root |-> pull.root,
                    queue |-> pull.queue, visited |-> pull.visited, records |-> pull.records,
                    order |-> pull.order, todo |-> pull.todo, from |-> next, users |-> users ]
      BY <1>1, <1>3, <2>1
    <2>3. /\ pull'.phase = "users" /\ pull'.platform = pull.platform /\ pull'.root = pull.root
          /\ pull'.queue = pull.queue /\ pull'.visited = pull.visited /\ pull'.records = pull.records
          /\ pull'.order = pull.order /\ pull'.todo = pull.todo /\ pull'.from = next /\ pull'.users = users
      BY <2>2
    <2>4. PullTyped'
      BY <1>3, <1>7, <1>9, <1>10, <1>13, <1>14, <2>2, <2>3 DEF PullTyped
    <2>5. pull' = [pull EXCEPT !.users = pull'.users, !.from = pull'.from, !.todo = pull'.todo, !.phase = pull'.phase]
      BY <1>3, <2>2, <2>3
    <2> QED
      BY <1>1, <1>4, <1>8, <1>11, <1>12, <1>14, <2>3, <2>4, <2>5 DEF Earlier, d, S
  <1>15. CASE ~more
    <2> DEFINE tail == Tail(pull.todo)
               phase == IF tail = <<>> THEN "normalize" ELSE "users"
    <2>1. pull' = [pull EXCEPT !.users = users, !.from = 0, !.todo = tail, !.phase = phase]
      BY <1>2, <1>9, <1>15
    <2>0. tail \in Seq(Department)
      BY <1>4
    <2> HIDE DEF tail
    <2>2. phase \in {"normalize", "users"} /\ (phase = "normalize" => tail = <<>>) /\ (phase = "users" => tail # <<>>)
      OBVIOUS
    <2> HIDE DEF phase
    <2>3. pull' = [ phase |-> phase, platform |-> pull.platform, root |-> pull.root,
                    queue |-> pull.queue, visited |-> pull.visited, records |-> pull.records,
                    order |-> pull.order, todo |-> tail, from |-> 0, users |-> users ]
      BY <1>3, <2>1
    <2>4. /\ pull'.phase = phase /\ pull'.platform = pull.platform /\ pull'.root = pull.root
          /\ pull'.queue = pull.queue /\ pull'.visited = pull.visited /\ pull'.records = pull.records
          /\ pull'.order = pull.order /\ pull'.todo = tail /\ pull'.from = 0 /\ pull'.users = users
      BY <2>3
    <2>5. PullTyped'
      BY <1>3, <1>13, <2>0, <2>2, <2>3, <2>4 DEF PullTyped
    <2>6. pull' = [pull EXCEPT !.users = pull'.users, !.from = pull'.from, !.todo = pull'.todo, !.phase = pull'.phase]
      BY <1>3, <2>3, <2>4
    <2>7. pull'.phase \in {"users", "normalize"}
      BY <2>2, <2>4
    <2> QED
      BY <1>1, <1>4, <1>8, <1>9, <1>11, <1>12, <1>15, <2>4, <2>5, <2>6, <2>7 DEF Earlier, d, S, tail
  <1> QED
    BY <1>14, <1>15

\* An answer with users leaves out nobody who stayed.
LEMMA UsersKeep ==
    ASSUME PullInv, list_users
    PROVE  PullInv'
  <1> USE DEF PullInv
  <1> DEFINE d == Head(pull.todo)
             S == Members(remote, d)
  <1>1. PICK found \in SUBSET S, more \in BOOLEAN :
                 /\ remote' = remote /\ rows' = rows /\ seen' = seen /\ pull.phase = "users"
                 /\ d \in Department /\ Range(pull.todo) = {d} \cup Range(Tail(pull.todo))
                 /\ pull' = [pull EXCEPT !.users = pull'.users, !.from = pull'.from, !.todo = pull'.todo,
                                         !.phase = pull'.phase]
                 /\ PullTyped'
                 /\ DOMAIN pull'.users = DOMAIN pull.users \cup found
                 /\ \A p \in found :
                      pull'.users[p] = (IF p \in DOMAIN pull.users THEN pull.users[p] ELSE {}) \cup DepartmentsOf(remote, p)
                 /\ \A p \in DOMAIN pull.users \ found : pull'.users[p] = pull.users[p]
                 /\ \A p \in S :
                      ~more \/ Before(pull.platform, S, pull'.from, p) =>
                        Before(pull.platform, S, pull.from, p) \/ p \in found
                 /\ \/ more /\ pull'.phase = "users" /\ pull'.todo = pull.todo
                    \/ /\ ~more /\ pull'.phase \in {"users", "normalize"}
                       /\ pull'.todo = Tail(pull.todo) /\ pull'.from = 0
    BY ListUsersIs
  <1>2. Recorded /\ Walked /\ Met /\ Unchanged /\ PullTyped /\ RemoteTyped
    BY <1>1 DEF Kept, Typed, Running
  <1>3. /\ pull'.phase \in {"users", "normalize"}
        /\ pull'.platform = pull.platform /\ pull'.root = pull.root /\ pull'.queue = pull.queue
        /\ pull'.visited = pull.visited /\ pull'.records = pull.records /\ pull'.order = pull.order
    BY <1>1, <1>2 DEF PullTyped
  <1> DEFINE users == pull'.users
             from == pull'.from
             todo == pull'.todo
  <1>4. Typed'
    BY <1>1, <1>3 DEF Typed, RemoteTyped, SeenTyped, Phase
  <1>5. Recorded'
    <2>1. Rootless' = Rootless
      BY <1>3 DEF Rootless
    <2> QED
      BY <1>1, <1>2, <1>3, <2>1 DEF Recorded
  <1>6. Walked'
    <2>1. \A x : Listed(pull.platform, x)' = Listed(pull.platform, x)
      BY <1>1, <1>3 DEF Listed
    <2> QED
      BY <1>1, <1>2, <1>3, <2>1 DEF Walked
  <1>7. Met'
    <2>1. /\ seen.stayed \subseteq remote.member /\ \A p \in DOMAIN pull.users : pull.users[p] # {}
          /\ \A p \in DOMAIN pull.users, x \in Department : <<p, x>> \in seen.stayed => x \in pull.users[p]
      BY <1>2 DEF Met
    <2>2. \A p \in found : d \in DepartmentsOf(remote, p)
      BY <1>1 DEF Members, DepartmentsOf
    <2>3. \A p \in DOMAIN pull'.users : pull'.users[p] # {}
      BY <1>1, <2>1, <2>2
    <2>4. ASSUME NEW p \in DOMAIN pull'.users, NEW x \in Department, <<p, x>> \in seen.stayed
          PROVE  x \in pull'.users[p]
      <3>1. CASE p \in found
        <4>1. x \in DepartmentsOf(remote, p)
          BY <2>1, <2>4 DEF DepartmentsOf
        <4> QED
          BY <1>1, <3>1, <4>1
      <3>2. CASE p \notin found
        BY <1>1, <2>1, <2>4, <3>2
      <3> QED
        BY <3>1, <3>2
    <2>5. UserDepartments(pull') = UserDepartments(pull)
      BY <1>3 DEF UserDepartments
    <2>6. ASSUME NEW m \in PassedOver' PROVE m \in PassedOver
      <3> DEFINE p == m[1]
                 x == m[2]
      <3>1. /\ m \in seen.stayed /\ p \notin DOMAIN pull'.users /\ x \in Range(UserDepartments(pull))
            /\ x \in Range(pull'.todo) =>
                /\ pull'.phase = "users" /\ x = Head(pull'.todo)
                /\ Before(pull.platform, Members(remote, x), pull'.from, p)
        BY <1>1, <1>3, <2>5 DEF PassedOver
      <3>2. p \in Person /\ x \in Department /\ p \in Members(remote, x)
        BY <1>2, <2>1, <3>1, PassedFinite
      <3>3. p \notin DOMAIN pull.users /\ p \notin found
        BY <1>1, <3>1
      <3> HIDE DEF p, x
      <3>4. x \in Range(pull.todo) => x = d /\ Before(pull.platform, S, pull.from, p)
        <4>1. CASE more
          <5>1. pull'.todo = pull.todo
            BY <1>1, <4>1
          <5>2. x \in Range(pull.todo) => x = d /\ Before(pull.platform, Members(remote, x), pull'.from, p)
            BY <3>1, <5>1
          <5>3. x = d => p \in S
            BY <3>2
          <5> HIDE DEF S
          <5>4. x \in Range(pull.todo) => Before(pull.platform, S, pull'.from, p)
            BY <5>2 DEF S
          <5> QED
            BY <1>1, <3>3, <5>2, <5>3, <5>4
        <4>2. CASE ~more
          <5>1. pull'.todo = Tail(pull.todo) /\ pull'.from = 0
            BY <1>1, <4>2
          <5>2. ~Before(pull.platform, Members(remote, x), pull'.from, p)
            BY <1>2, <3>2, <5>1, NothingBefore DEF PullTyped
          <5>3. x \notin Range(Tail(pull.todo))
            BY <3>1, <5>1, <5>2
          <5>4. x \in Range(pull.todo) => x = d /\ p \in S
            BY <1>1, <3>2, <5>3
          <5> HIDE DEF S
          <5> QED
            BY <1>1, <3>3, <4>2, <5>4
        <4> QED
          BY <4>1, <4>2
      <3> QED
        BY <1>1, <3>1, <3>3, <3>4 DEF PassedOver, p, x
    <2>7. ASSUME pull'.phase \in Asking PROVE Cardinality(PassedOver') <= Leavers'
      <3>1. Leavers' = Leavers /\ pull.phase \in Asking
        BY <1>1, <1>3 DEF Leavers, Asking
      <3> QED
        BY <1>2, <2>6, <3>1, FewerPassed DEF Typed
    <2> QED
      BY <1>1, <1>3, <2>1, <2>3, <2>4, <2>7 DEF Met
  <1>8. Unchanged'
    <2> SUFFICES ASSUME seen.changes = 0, NEW p \in DOMAIN pull'.users
                 PROVE  pull'.users[p] = DepartmentsOf(remote, p)
      BY <1>1 DEF Unchanged, DepartmentsOf
    <2>1. p \in DOMAIN pull.users => pull.users[p] = DepartmentsOf(remote, p)
      BY <1>2 DEF Unchanged
    <2>2. CASE p \in found
      <3>1. pull'.users[p] = (IF p \in DOMAIN pull.users THEN pull.users[p] ELSE {}) \cup DepartmentsOf(remote, p)
        BY <1>1, <2>2
      <3> QED
        BY <2>1, <3>1
    <2>3. CASE p \notin found
      <3>1. p \in DOMAIN pull.users \ found
        BY <1>1, <2>3
      <3> QED
        BY <1>1, <2>1, <3>1
    <2> QED
      BY <2>2, <2>3
  <1>9. Finished'
    BY <1>3 DEF Finished
  <1> QED
    BY <1>1, <1>3, <1>4, <1>5, <1>6, <1>7, <1>8, <1>9

-----------------------------------------------------------------------------
(* The other steps, and all of them. *)

\* With the token the walk begins.
LEMMA TokenKeeps ==
    ASSUME PullInv, fetch_access_token
    PROVE  PullInv'
  <1> USE DEF PullInv
  <1>1. /\ pull.phase = "token" /\ pull' = [pull EXCEPT !.phase = "departments"]
        /\ remote' = remote /\ rows' = rows /\ seen' = seen
    BY DEF fetch_access_token
  <1>2. Recorded /\ Walked /\ Met /\ Unchanged /\ PullTyped
    BY <1>1 DEF Kept, Typed, Running
  <1>3. /\ pull'.phase = "departments"
        /\ pull'.platform = pull.platform /\ pull'.root = pull.root /\ pull'.queue = pull.queue
        /\ pull'.visited = pull.visited /\ pull'.records = pull.records /\ pull'.order = pull.order
        /\ pull'.todo = pull.todo /\ pull'.from = pull.from /\ pull'.users = pull.users
    BY <1>1, <1>2 DEF PullTyped
  <1>4. PullTyped'
    <2>1. pull' = [ phase |-> pull'.phase, platform |-> pull'.platform, root |-> pull'.root,
                queue |-> pull'.queue, visited |-> pull'.visited, records |-> pull'.records,
                order |-> pull'.order, todo |-> pull'.todo, from |-> pull'.from, users |-> pull'.users ]
      BY <1>1, <1>2, <1>3 DEF PullTyped
    <2> QED
      BY <1>1, <1>2, <1>3, <2>1 DEF PullTyped
  <1>5. Typed'
    BY <1>1, <1>3, <1>4 DEF Typed, RemoteTyped, SeenTyped, Phase
  <1>6. Recorded'
    <2>1. Rootless' = Rootless
      BY <1>3 DEF Rootless
    <2> QED
      BY <1>1, <1>2, <1>3, <2>1 DEF Recorded
  <1>7. Walked'
    <2>1. \A x : Listed(pull.platform, x)' = Listed(pull.platform, x)
      BY <1>1, <1>3 DEF Listed
    <2>2. ASSUME NEW c \in Listed(pull.platform, Head(pull.queue)) PROVE ~(c <= pull.from)
      <3>1. Head(pull.queue) \in Department /\ pull.platform \in Platform /\ pull.from = 0
        BY <1>1, <1>2, HeadTailIs DEF PullTyped
      <3>2. c \in Department
        BY <1>1, <2>2, <3>1, ListedAre DEF Typed
      <3> QED
        BY <3>1, <3>2, PullAssumption
    <2> QED
      BY <1>1, <1>2, <1>3, <2>1, <2>2 DEF Walked
  <1>8. Met'
    BY <1>1, <1>2, <1>3 DEF Met, Asking
  <1>9. Unchanged' /\ Finished'
    BY <1>1, <1>2, <1>3 DEF Unchanged, DepartmentsOf, Finished
  <1> QED
    BY <1>1, <1>3, <1>5, <1>6, <1>7, <1>8, <1>9

\* A pull that fails has nothing to keep.
LEMMA FailKeeps ==
    ASSUME PullInv, request_fails
    PROVE  PullInv'
  <1>1. pull' = [phase |-> "failed"] /\ remote' = remote /\ rows' = rows /\ seen' = seen
    BY DEF request_fails
  <1>2. pull'.phase = "failed"
    BY <1>1
  <1> QED
    BY <1>1, <1>2 DEF PullInv, Typed, RemoteTyped, SeenTyped, Phase, Kept, Running

\* A circle of recorded parents goes through the root, which is then below itself.
LEMMA NoCycles ==
    ASSUME PullTyped, Recorded, seen.above \cap seen.moved = {}
    PROVE  Cycles(pull) = {}
  <1> SUFFICES ASSUME NEW S \in Cycles(pull) PROVE FALSE
    OBVIOUS
  <1>1. S \subseteq DOMAIN pull.records /\ S # {}
          /\ \A d \in S : /\ pull.records[d] \in DOMAIN pull.records \ {d} /\ pull.records[d] \in S
                          /\ ~(pull.platform = "wecom" /\ d = pull.root)
    BY DEF Cycles, Top
  <1>2. CASE pull.root \notin S
    <2>1. S \in (SUBSET Rootless) \ {{}}
      BY <1>1, <1>2 DEF Rootless
    <2>2. PICK c \in S : pull.records[c] \notin S
      BY <2>1 DEF Recorded
    <2> QED
      BY <1>1, <2>2
  <1>3. CASE pull.root \in S
    BY <1>1, <1>3 DEF Recorded
  <1> QED
    BY <1>2, <1>3

\* build_path either ends or has met a circle through the root.
LEMMA NormalizeKeeps ==
    ASSUME PullInv, normalize
    PROVE  PullInv'
  <1> USE DEF PullInv
  <1>1. pull.phase = "normalize" /\ remote' = remote /\ seen' = seen
    BY DEF normalize
  <1>2. Recorded /\ Walked /\ Met /\ Unchanged /\ PullTyped
    BY <1>1 DEF Kept, Typed, Running
  <1>3. CASE Cycles(pull) # {} /\ pull' = [phase |-> "crashed"]
    <2>1. seen.above \cap seen.moved # {}
      BY <1>2, <1>3, NoCycles
    <2>2. pull'.phase = "crashed"
      BY <1>3
    <2> QED
      BY <1>1, <2>1, <2>2 DEF Typed, RemoteTyped, SeenTyped, Phase, Kept, Running
  <1>4. CASE pull' = [phase |-> "failed"]
    <2>1. pull'.phase = "failed"
      BY <1>4
    <2> QED
      BY <1>1, <2>1 DEF Typed, RemoteTyped, SeenTyped, Phase, Kept, Running
  <1>5. CASE /\ Cycles(pull) = {}
             /\ pull.platform = "wecom" => UNION Range(pull.users) \subseteq DOMAIN pull.records
             /\ pull' = [pull EXCEPT !.phase = "done"]
             /\ rows' = [p \in DOMAIN pull.users |-> OrgPath(pull, pull.users[p])]
    <2>1. /\ pull'.phase = "done"
          /\ pull'.platform = pull.platform /\ pull'.root = pull.root /\ pull'.queue = pull.queue
          /\ pull'.visited = pull.visited /\ pull'.records = pull.records /\ pull'.order = pull.order
          /\ pull'.todo = pull.todo /\ pull'.from = pull.from /\ pull'.users = pull.users
      BY <1>2, <1>5 DEF PullTyped
    <2>2. PullTyped'
      <3>1. pull' = [ phase |-> pull'.phase, platform |-> pull'.platform, root |-> pull'.root,
                  queue |-> pull'.queue, visited |-> pull'.visited, records |-> pull'.records,
                  order |-> pull'.order, todo |-> pull'.todo, from |-> pull'.from, users |-> pull'.users ]
        BY <1>2, <1>5, <2>1 DEF PullTyped
      <3> QED
        BY <1>1, <1>2, <2>1, <3>1 DEF PullTyped
    <2>3. Typed'
      BY <1>1, <2>1, <2>2 DEF Typed, RemoteTyped, SeenTyped, Phase
    <2>4. Recorded'
      <3>1. Rootless' = Rootless
        BY <2>1 DEF Rootless
      <3> QED
        BY <1>1, <1>2, <2>1, <3>1 DEF Recorded
    <2>5. Walked'
      <3>1. \A x : Listed(pull.platform, x)' = Listed(pull.platform, x)
        BY <1>1, <2>1 DEF Listed
      <3> QED
        BY <1>1, <1>2, <2>1, <3>1 DEF Walked
    <2>6. Met'
      <3>1. UserDepartments(pull') = UserDepartments(pull)
        BY <2>1 DEF UserDepartments
      <3>2. pull.todo = <<>> /\ Leavers' = Leavers /\ pull.phase \in Asking
        BY <1>1, <1>2, <2>1 DEF PullTyped, Leavers, Asking
      <3>3. PassedOver' \subseteq PassedOver
        BY <1>1, <2>1, <3>1, <3>2 DEF PassedOver, Range
      <3>4. Cardinality(PassedOver') <= Leavers'
        BY <1>2, <3>2, <3>3, FewerPassed DEF Typed
      <3> QED
        BY <1>1, <1>2, <2>1, <3>4 DEF Met
    <2>7. Unchanged'
      BY <1>1, <1>2, <2>1 DEF Unchanged, DepartmentsOf
    <2>8. Finished'
      <3>1. Cycles(pull') = Cycles(pull)
        BY <2>1 DEF Cycles, Top
      <3>2. \A D : OrgPath(pull', D) = OrgPath(pull, D)
        BY <2>1 DEF OrgPath, PathOf, Paths, Top
      <3> QED
        BY <1>5, <2>1, <3>1, <3>2 DEF Finished
    <2> QED
      BY <1>1, <2>1, <2>3, <2>4, <2>5, <2>6, <2>7, <2>8
  <1> QED
    BY <1>3, <1>4, <1>5 DEF normalize

\* Every step keeps the invariant.
LEMMA NextKeeps == PullInv /\ [Next]_vars => PullInv'
  <1> SUFFICES ASSUME PullInv, [Next]_vars PROVE PullInv'
    OBVIOUS
  <1>1. CASE Changes
    BY <1>1, ChangesKeep
  <1>2. CASE fetch
    BY <1>2, FetchKeeps
  <1>3. CASE fetch_access_token
    BY <1>3, TokenKeeps
  <1>4. CASE list_departments
    BY <1>4, DepartmentsKeep
  <1>5. CASE list_users
    BY <1>5, UsersKeep
  <1>6. CASE normalize
    BY <1>6, NormalizeKeeps
  <1>7. CASE request_fails
    BY <1>7, FailKeeps
  <1>8. CASE UNCHANGED vars
    <2>1. pull' = pull /\ remote' = remote /\ rows' = rows /\ seen' = seen
      BY <1>8 DEF vars
    <2>2. Typed' <=> Typed
      BY <2>1 DEF Typed, RemoteTyped, SeenTyped, PullTyped
    <2>3. Recorded' <=> Recorded
      BY <2>1 DEF Recorded, Rootless
    <2>4. Walked' <=> Walked
      <3>1. \A x, y : Listed(x, y)' = Listed(x, y)
        BY <2>1 DEF Listed
      <3> QED
        BY <2>1, <3>1 DEF Walked
    <2>5. (Met' <=> Met) /\ (Unchanged' <=> Unchanged) /\ (Finished' <=> Finished)
      <3>1. PassedOver' = PassedOver /\ Leavers' = Leavers
        BY <2>1 DEF PassedOver, Leavers
      <3> QED
        BY <2>1, <3>1 DEF Met, Unchanged, Finished
    <2> QED
      BY <2>1, <2>2, <2>3, <2>4, <2>5 DEF PullInv
  <1> QED
    BY <1>1, <1>2, <1>3, <1>4, <1>5, <1>6, <1>7, <1>8 DEF Next, Pulling

\* The invariant of a pull.
THEOREM PullInvariance == Spec => []PullInv
  BY InitInv, NextKeeps, PTL DEF Spec

\* In the end no department is left to ask, and none below the root was missed.
LEMMA AllFound == PullInv => MembersFound
  <1> DEFINE missed == {m \in seen.stayed :
                          InScope(pull, m[2]) /\ ~(m[1] \in DOMAIN pull.users /\ m[2] \in pull.users[m[1]])}
  <1> SUFFICES ASSUME PullInv, pull.phase = "done", seen.moved = {}
               PROVE  Cardinality(missed) <= Leavers
    BY DEF MembersFound, Leavers
  <1>0. Met /\ RemoteTyped /\ SeenTyped /\ pull.phase \in Asking
    BY DEF PullInv, Typed, Kept, Asking
  <1> SUFFICES missed \subseteq PassedOver
    <2>1. IsFiniteSet(PassedOver) /\ Cardinality(PassedOver) \in Nat
      BY <1>0, PassedFinite DEF Met
    <2> HIDE DEF missed
    <2>2. Cardinality(missed) <= Cardinality(PassedOver) /\ Cardinality(missed) \in Nat
      BY <2>1, FS_Subset, FS_CardinalityType
    <2>3. Cardinality(PassedOver) <= Leavers /\ Leavers \in Nat
      BY <1>0 DEF Met, Leavers, SeenTyped
    <2> QED
      BY <2>1, <2>2, <2>3
  <1> SUFFICES ASSUME NEW m \in seen.stayed, InScope(pull, m[2]),
                      ~(m[1] \in DOMAIN pull.users /\ m[2] \in pull.users[m[1]])
               PROVE  m \in PassedOver
    OBVIOUS
  <1> HIDE DEF missed
  <1> DEFINE p == m[1]
             d == m[2]
  <1>1. Recorded /\ Walked /\ Met /\ PullTyped /\ RemoteTyped
    BY DEF PullInv, Typed, Kept
  <1>2. m = <<p, d>> /\ p \in Person /\ d \in Department
    BY <1>1 DEF Met, RemoteTyped
  <1> HIDE DEF p, d
  <1>3. d \in Below(remote, pull.root) /\ (pull.platform = "dingtalk" => d # pull.root)
    BY DEF InScope, d
  <1>4. d \in DOMAIN pull.records \cup {pull.root} /\ (pull.platform = "wecom" => pull.root \in DOMAIN pull.records)
    BY <1>1, <1>3 DEF Walked
  <1>5. /\ pull.order \in Seq(Department) /\ Range(pull.order) = DOMAIN pull.records /\ pull.todo = <<>>
        /\ pull.platform \in Platform /\ pull.root \in Department
    BY <1>1 DEF PullTyped
  <1>6. d \in Range(UserDepartments(pull))
    <2>1. CASE pull.platform = "feishu"
      <3>1. <<pull.root>> \in Seq(Department) /\ Range(<<pull.root>>) = {pull.root}
        BY <1>5 DEF Range
      <3> DEFINE first == <<pull.root>>
      <3>2. first \in Seq(Department) /\ Range(first) = {pull.root}
              /\ UserDepartments(pull) = first \o pull.order
        BY <2>1, <3>1 DEF UserDepartments
      <3> HIDE DEF first
      <3>3. Range(first \o pull.order) = Range(first) \cup Range(pull.order)
        BY <1>5, <3>2, ConcatIs
      <3> QED
        BY <1>4, <1>5, <3>2, <3>3
    <2>2. CASE pull.platform # "feishu"
      <3>1. UserDepartments(pull) = pull.order
        BY <2>2 DEF UserDepartments
      <3>2. d \in DOMAIN pull.records
        BY <1>3, <1>4, <1>5, <2>2 DEF Platform
      <3> QED
        BY <1>5, <3>1, <3>2
    <2> QED
      BY <2>1, <2>2
  <1>7. d \notin Range(pull.todo)
    BY <1>5 DEF Range
  <1>8. p \notin DOMAIN pull.users
    <2>1. ~(p \in DOMAIN pull.users /\ d \in pull.users[p])
      BY DEF p, d
    <2> QED
      BY <1>1, <1>2, <2>1 DEF Met
  <1> QED
    BY <1>6, <1>7, <1>8 DEF PassedOver, p, d

\* Paging and the walk leave nobody out, whatever changes but departments' places; between
\* the offsets of DingTalk, no more are left out than others have left.
THEOREM EverybodyIsFound == Spec => []MembersFound
  BY PullInvariance, AllFound, PTL

-----------------------------------------------------------------------------
(* Paths. *)

\* From some place on, with one more at the end.
LEMMA SubSeqOfAppend ==
    ASSUME NEW D, NEW s \in Seq(D), NEW d \in D, NEW k \in Nat \ {0}, k <= Len(s) + 1
    PROVE  SubSeq(Append(s, d), k, Len(s) + 1) = Append(SubSeq(s, k, Len(s)), d)
  <1> DEFINE n == Len(s)
             whole == Append(s, d)
             left == SubSeq(whole, k, n + 1)
             part == SubSeq(s, k, n)
             right == Append(part, d)
  <1>1. n \in Nat /\ k \in Int /\ n \in Int /\ n + 1 \in Int /\ s \in [1..n -> D]
    BY LenProperties
  <1>2. whole[n + 1] = d /\ \A i \in 1..n : whole[i] = s[i]
    BY AppendProperties
  <1> HIDE DEF whole, n
  <1>3. \A i \in k..(n + 1) : whole[i] \in D
    BY <1>1, <1>2
  <1>4. /\ left \in Seq(D) /\ Len(left) = (IF k <= n + 1 THEN n + 1 - k + 1 ELSE 0)
        /\ \A i \in 1..(n + 1 - k + 1) : left[i] = whole[k + i - 1]
    BY <1>1, <1>3, SubSeqProperties
  <1>5. \A i \in k..n : s[i] \in D
    BY <1>1
  <1>6. /\ part \in Seq(D) /\ Len(part) = (IF k <= n THEN n - k + 1 ELSE 0)
        /\ \A i \in 1..(n - k + 1) : part[i] = s[k + i - 1]
    BY <1>1, <1>5, SubSeqProperties
  <1> HIDE DEF left, part
  <1>7. k <= n + 1
    BY DEF n
  <1>8. Len(left) = n - k + 2 /\ Len(part) = n - k + 1
    BY <1>1, <1>4, <1>6, <1>7
  <1>9. right \in Seq(D) /\ Len(right) = Len(part) + 1 /\ right[Len(part) + 1] = d
          /\ \A i \in 1..Len(part) : right[i] = part[i]
    BY <1>6, AppendProperties
  <1> HIDE DEF right
  <1>10. ASSUME NEW i \in 1..Len(left) PROVE left[i] = right[i]
    <2>1. i \in 1..(n + 1 - k + 1) /\ left[i] = whole[k + i - 1]
      BY <1>1, <1>4, <1>8
    <2>2. CASE i = n - k + 2
      <3>1. k + i - 1 = n + 1 /\ i = Len(part) + 1
        BY <1>1, <1>8, <2>2
      <3> QED
        BY <1>2, <1>9, <2>1, <3>1
    <2>3. CASE i # n - k + 2
      <3>1. i \in 1..(n - k + 1) /\ k + i - 1 \in 1..n
        BY <1>1, <1>7, <1>8, <2>3
      <3>2. right[i] = part[i] /\ part[i] = s[k + i - 1]
        BY <1>6, <1>8, <1>9, <3>1
      <3> QED
        BY <1>2, <2>1, <3>1, <3>2
    <2> QED
      BY <2>2, <2>3
  <1>11. Len(right) = Len(left)
    BY <1>1, <1>8, <1>9
  <1>12. left = right
    BY <1>4, <1>9, <1>10, <1>11, SeqEqual
  <1> QED
    BY <1>12 DEF left, right, part, whole, n

\* From the last place on.
LEMMA LastItem ==
    ASSUME NEW D, NEW s \in Seq(D), NEW k \in Nat \ {0}, k = Len(s)
    PROVE  SubSeq(s, k, k) = <<s[k]>>
  <1>1. s[k] \in D /\ k \in Int /\ \A i \in k..k : s[i] \in D
    BY ElementOfSeq
  <1>2. /\ SubSeq(s, k, k) \in Seq(D) /\ Len(SubSeq(s, k, k)) = IF k <= k THEN k - k + 1 ELSE 0
        /\ \A i \in 1..(k - k + 1) : SubSeq(s, k, k)[i] = s[k + i - 1]
    BY <1>1, SubSeqProperties
  <1>3. Len(SubSeq(s, k, k)) = 1 /\ SubSeq(s, k, k)[1] = s[k]
    BY <1>2
  <1>4. <<s[k]>> \in Seq(D) /\ Len(<<s[k]>>) = 1 /\ <<s[k]>>[1] = s[k]
    BY <1>1
  <1> DEFINE t == SubSeq(s, k, k)
             u == <<s[k]>>
  <1>5. t \in Seq(D) /\ u \in Seq(D) /\ Len(t) = 1 /\ Len(u) = 1 /\ t[1] = u[1]
    BY <1>2, <1>3, <1>4
  <1> HIDE DEF t, u
  <1>6. \A i \in 1..Len(t) : t[i] = u[i]
    BY <1>5
  <1>7. t = u
    BY <1>5, <1>6, SeqEqual
  <1> QED
    BY <1>7 DEF t, u

\* A department below another has the longer path.
LEMMA PathsGrow ==
    ASSUME NEW r, Tree(r.parent), NEW a \in Department
    PROVE  \A d \in Below(r, a) : Len(RemotePath(r)[d]) >= Len(RemotePath(r)[a])
  <1> DEFINE path == RemotePath(r)
             Good == {d \in Department : d \in Below(r, a) => Len(path[d]) >= Len(path[a])}
  <1>1. \A d \in Department :
          /\ path[d] = IF r.parent[d] = 0 THEN <<d>> ELSE Append(path[r.parent[d]], d)
          /\ path[d] \in Seq(Department)
    BY RemotePathIs
  <1>2. \A d \in Department : Len(path[d]) \in Nat
    BY <1>1, LenProperties
  <1>3. ASSUME NEW d \in TopsOf(r.parent) PROVE d \in Good
    <2>1. d \in Department /\ (d \in Below(r, a) => d = a)
      BY BelowIs DEF TopsOf
    <2> QED
      BY <1>2, <2>1
  <1>4. ASSUME NEW d \in Department \ TopsOf(r.parent), r.parent[d] \in Good PROVE d \in Good
    <2>1. r.parent[d] \in Department /\ r.parent[d] # 0
      BY DEF Tree, TopsOf
    <2>2. path[d] = Append(path[r.parent[d]], d) /\ path[r.parent[d]] \in Seq(Department)
      BY <1>1, <2>1
    <2>3. Len(path[d]) = Len(path[r.parent[d]]) + 1
      BY <2>2, AppendProperties
    <2>4. d \in Below(r, a) => d = a \/ r.parent[d] \in Below(r, a)
      BY BelowIs
    <2> QED
      BY <1>2, <1>4, <2>1, <2>3, <2>4
  <1> HIDE DEF Good
  <1>5. Department \subseteq Good
    BY <1>3, <1>4, TreeUpward, UpwardInduct
  <1> QED
    BY <1>5, BelowIs DEF Good

\* build_path comes to what its definition says when there is no circle.
LEMMA PathsAre ==
    ASSUME PullTyped, Cycles(pull) = {}
    PROVE  LET D == DOMAIN pull.records
               tops == {d \in D : Top(pull, d)}
           IN  Upward(D, pull.records, tops) /\ IsPath(Paths(pull), D, pull.records, tops)
  <1> DEFINE D == DOMAIN pull.records
             tops == {d \in D : Top(pull, d)}
             Rec(f) == f = [d \in D |-> IF Top(pull, d) THEN <<d>> ELSE Append(f[pull.records[d]], d)]
             path == CHOOSE f : Rec(f)
  <1>1. \A d \in D \ tops : pull.records[d] \in D
    BY DEF Top
  <1>2. ASSUME NEW S \in (SUBSET (D \ tops)) \ {{}} PROVE \E d \in S : pull.records[d] \notin S
    BY DEF Cycles
  <1>3. Upward(D, pull.records, tops)
    BY <1>1, <1>2 DEF Upward
  <1>4. PICK g : IsPath(g, D, pull.records, tops)
    <2> HIDE DEF D, tops
    <2> QED
      BY <1>3, PathExists
  <1>5. Rec(g)
    BY <1>4 DEF IsPath
  <1>6. Rec(path)
    BY <1>5
  <1>7. Paths(pull) = path
    BY DEF Paths
  <1> HIDE DEF path
  <1>8. IsPath(path, D, pull.records, tops)
    BY <1>6 DEF IsPath
  <1> QED
    BY <1>3, <1>7, <1>8

\* If nothing moved, the walk has recorded what is below the root.
LEMMA RecordedAre ==
    ASSUME PullInv, pull.phase = "done", seen.moved = {}
    PROVE  DOMAIN pull.records = Below(remote, pull.root) \ (IF pull.platform = "wecom" THEN {} ELSE {pull.root})
  <1>1. Recorded /\ Walked /\ PullTyped
    BY DEF PullInv, Typed, Kept
  <1>2. DOMAIN pull.records \subseteq Below(remote, pull.root)
    BY <1>1 DEF Walked
  <1>3. Below(remote, pull.root) \subseteq DOMAIN pull.records \cup {pull.root}
          /\ (pull.platform = "wecom" => pull.root \in DOMAIN pull.records)
    BY <1>1 DEF Walked
  <1>4. pull.platform # "wecom" => pull.root \notin DOMAIN pull.records
    BY <1>1 DEF Recorded
  <1> QED
    BY <1>2, <1>3, <1>4

\* Its path is then the rest of that on the platform.
LEMMA PathsAreBelow ==
    ASSUME PullInv, pull.phase = "done", seen.moved = {}, NEW x \in DOMAIN pull.records
    PROVE  Paths(pull)[x] = PathBelow(pull, x)
  <1> DEFINE D == DOMAIN pull.records
             tops == {d \in D : Top(pull, d)}
             up == pull.records
             root == pull.root
             parent == remote.parent
             path == RemotePath(remote)
             n == Len(path[root])
             k == IF pull.platform = "wecom" THEN n ELSE n + 1
             g == [d \in D |-> SubSeq(path[d], k, Len(path[d]))]
  <1>1. Recorded /\ Walked /\ PullTyped /\ Tree(parent) /\ Cycles(pull) = {}
    BY DEF PullInv, Typed, RemoteTyped, Kept, Finished
  <1>2. root \in Department /\ D \subseteq Department
    BY <1>1 DEF PullTyped
  <1>3. D = Below(remote, root) \ (IF pull.platform = "wecom" THEN {} ELSE {root})
    BY RecordedAre
  <1>4. \A d \in D : up[d] = parent[d] /\ d \in Below(remote, root)
    BY <1>1 DEF Walked
  <1>5. Upward(D, up, tops) /\ IsPath(Paths(pull), D, up, tops)
    BY <1>1, PathsAre
  <1>6. \A d \in Department :
          /\ path[d] = IF parent[d] = 0 THEN <<d>> ELSE Append(path[parent[d]], d)
          /\ path[d] \in Seq(Department) /\ Len(path[d]) > 0 /\ path[d][Len(path[d])] = d
    BY <1>1, RemotePathIs
  <1>7. \A d \in Below(remote, root) : Len(path[d]) >= n
    BY <1>1, <1>2, PathsGrow
  <1>8. n \in Nat /\ n > 0 /\ k \in Nat \ {0} /\ (pull.platform # "wecom" => k = n + 1) /\ (pull.platform = "wecom" => k = n)
    <2>1. path[root] \in Seq(Department) /\ Len(path[root]) > 0
      BY <1>2, <1>6
    <2>2. n \in Nat /\ n > 0
      <3> HIDE DEF path, root
      <3> QED
        BY <2>1, LenProperties
    <2> HIDE DEF n
    <2> QED
      BY <2>2
  <1>t. \A d \in D : d \in tops <=> (up[d] \notin D \ {d} \/ (pull.platform = "wecom" /\ d = root))
    BY DEF Top
  <1> HIDE DEF D, tops, up, root, parent, path, n, k
  \* The one above, for all but the topmost.
  <1>9. ASSUME NEW d \in D, d # root
        PROVE  /\ parent[d] \in Department /\ parent[d] \in Below(remote, root) /\ parent[d] # d
               /\ path[d] = Append(path[parent[d]], d)
    <2>1. d \in Department /\ d \in Below(remote, root)
      BY <1>2, <1>4, <1>9
    <2>2. parent[d] # 0 /\ parent[d] \in Below(remote, root)
      BY <1>1, <1>2, <1>9, <2>1, BelowIs DEF parent
    <2>3. parent[d] \in Department
      BY <1>1, <1>2, <2>2, BelowIs DEF parent
    <2>4. parent[d] # d
      <3>1. {d} \in (SUBSET Department) \ {{}}
        BY <2>1
      <3>2. PICK y \in {d} : parent[y] \notin {d}
        BY <1>1, <3>1 DEF Tree
      <3> QED
        BY <3>2
    <2> QED
      BY <1>6, <2>1, <2>2, <2>3, <2>4
  <1>10. ASSUME NEW d \in D
         PROVE  SubSeq(path[d], k, Len(path[d])) = IF d \in tops THEN <<d>> ELSE Append(g[up[d]], d)
    <2>1. CASE d = root
      <3>1. pull.platform = "wecom"
        BY <1>3, <2>1
      <3>2. d \in tops /\ k = Len(path[d]) /\ k \in Nat /\ k > 0
        BY <1>8, <1>t, <2>1, <3>1 DEF n
      <3>3. path[d] \in Seq(Department) /\ path[d][k] = d /\ d \in Department
        BY <1>2, <1>6, <3>2
      <3>4. SubSeq(path[d], k, k) = <<d>>
        BY <3>2, <3>3, LastItem
      <3> QED
        BY <3>2, <3>4
    <2>2. CASE d # root
      <3> DEFINE u == parent[d]
      <3>1. u \in Department /\ u \in Below(remote, root) /\ u # d /\ path[d] = Append(path[u], d) /\ up[d] = u
        BY <1>4, <1>9, <2>2
      <3>2. path[u] \in Seq(Department) /\ Len(path[u]) \in Nat /\ Len(path[u]) >= n /\ d \in Department
        BY <1>2, <1>6, <1>7, <3>1, LenProperties
      <3> HIDE DEF u
      <3>3. Len(path[d]) = Len(path[u]) + 1
        BY <3>1, <3>2, AppendProperties
      <3>4. k <= Len(path[u]) + 1
        BY <1>8, <3>2
      <3>5. SubSeq(path[d], k, Len(path[d])) = Append(SubSeq(path[u], k, Len(path[u])), d)
        <4> DEFINE s == path[u]
        <4>1. s \in Seq(Department) /\ k \in Nat \ {0} /\ k <= Len(s) + 1
          BY <1>8, <3>2, <3>4
        <4> HIDE DEF s
        <4>2. SubSeq(Append(s, d), k, Len(s) + 1) = Append(SubSeq(s, k, Len(s)), d)
          BY <3>2, <4>1, SubSeqOfAppend
        <4> QED
          BY <3>1, <3>3, <4>2 DEF s
      <3>6. d \in tops <=> u \notin D
        BY <1>t, <2>2, <3>1
      <3>7. CASE u \in D
        BY <3>1, <3>5, <3>6, <3>7
      <3>8. CASE u \notin D
        <4>1. u = root /\ pull.platform # "wecom"
          BY <1>3, <3>1, <3>8
        <4>2. k = Len(path[u]) + 1
          BY <1>8, <4>1 DEF n
        <4>3. SubSeq(path[u], k, Len(path[u])) = <<>>
          BY <1>8, <3>2, <4>2, SubSeqEmpty
        <4>4. Append(<<>>, d) = <<d>>
          OBVIOUS
        <4> QED
          BY <3>5, <3>6, <3>8, <4>3, <4>4
      <3> QED
        BY <3>7, <3>8
    <2> QED
      BY <2>1, <2>2
  <1>11. IsPath(g, D, up, tops)
    BY <1>10 DEF IsPath
  <1>12. \A d \in D \ tops : up[d] \in D
    BY <1>5 DEF Upward
  <1>13. x \in D
    BY DEF D
  <1>14. g[x] = SubSeq(path[x], k, Len(path[x]))
    BY <1>13
  <1> HIDE DEF g
  <1>15. Paths(pull)[x] = g[x]
    BY <1>5, <1>11, <1>12, <1>13, OnePath
  <1> QED
    BY <1>14, <1>15 DEF PathBelow, path, k, n, root

\* What is a path of one department, put together, is that path.
LEMMA FlattenOne ==
    ASSUME NEW x, NEW s, s = [i \in 1..1 |-> x], Len(s) = 1
    PROVE  FlattenSeq(s) = x
  <1> DEFINE Rec(f) == f = [i \in 1..1 |-> IF i = 1 THEN s[i] ELSE f[i - 1] \o s[i]]
             flatten == CHOOSE f : Rec(f)
             g == [i \in 1..1 |-> x]
  <1>1. \A i \in 1..1 : i = 1
    OBVIOUS
  <1>2. Rec(g)
    BY <1>1
  <1>3. Rec(flatten)
    BY <1>2
  <1>4. FlattenSeq(s) = flatten[1]
    BY DEF FlattenSeq
  <1> HIDE DEF flatten
  <1>5. flatten[1] = s[1]
    BY <1>1, <1>3
  <1> QED
    BY <1>1, <1>4, <1>5

\* The one path of a user of one department.
LEMMA OrgPathOfOne ==
    ASSUME NEW x
    PROVE  FlattenSeq(SetToSeq({x})) = x
  <1> DEFINE s == SetToSeq({x})
  <1>1. Cardinality({x}) = 1
    BY FS_Singleton
  <1>2. \A i \in 1..1 : i = 1
    OBVIOUS
  <1> DEFINE g == [i \in 1..1 |-> x]
  <1>3. g \in [1..1 -> {x}] /\ IsInjective(g)
    BY <1>2 DEF IsInjective
  <1> HIDE DEF g
  <1>4. s \in [1..1 -> {x}]
    BY <1>1, <1>3 DEF SetToSeq
  <1> HIDE DEF s
  <1>5. s = [i \in 1..1 |-> x]
    BY <1>4
  <1>6. Len(s) = 1
    <2>1. s \in Seq({x})
      BY <1>4, SeqDef
    <2>2. DOMAIN s = 1..Len(s) /\ Len(s) \in Nat
      BY <2>1, LenProperties
    <2>3. 1..Len(s) = 1..1
      BY <1>4, <2>2
    <2> QED
      BY <2>2, <2>3
  <1>7. FlattenSeq(s) = x
    BY <1>5, <1>6, FlattenOne
  <1> QED
    BY <1>7 DEF s

\* Finitely many arguments have finitely many values.
LEMMA ImageIsFinite ==
    ASSUME NEW S, IsFiniteSet(S), NEW f, DOMAIN f = S, f = [x \in S |-> f[x]]
    PROVE  IsFiniteSet({f[x] : x \in S})
  <1> DEFINE T == {f[x] : x \in S}
  <1>1. f \in [S -> T] /\ \A y \in T : \E x \in S : f[x] = y
    OBVIOUS
  <1> HIDE DEF T
  <1>2. f \in Surjection(S, T)
    BY <1>1 DEF Surjection
  <1>3. IsFiniteSet(T)
    BY <1>2, FS_Surjection
  <1> QED
    BY <1>3 DEF T

\* What a path's length adds up to.
LEMMA WidthAdds ==
    ASSUME NEW s \in Seq(Department)
    PROVE  \E w \in [0..Len(s) -> Nat] :
             /\ w[0] = 0 /\ \A i \in 1..Len(s) : w[i] = w[i - 1] + Letters[s[i]]
             /\ Width(s) = w[Len(s)]
  <1> DEFINE Then(w, d) == w + Letters[d]
             Rec(n, g) == g = [i \in 0..n |-> IF i = 0 THEN 0 ELSE Then(g[i - 1], s[i])]
             Good == {n \in Nat : \E g : Rec(n, g)}
  <1>0. Width(s) = (CHOOSE g : Rec(Len(s), g))[Len(s)]
    BY Zenon DEF Width
  <1> HIDE DEF Then
  <1>1. 0 \in Good
    <2> DEFINE g == [i \in 0..0 |-> 0]
    <2>1. Rec(0, g)
      OBVIOUS
    <2> HIDE DEF Rec, g
    <2> QED
      BY <2>1
  <1>2. ASSUME NEW n \in Nat, n \in Good PROVE n + 1 \in Good
    <2>1. PICK g : Rec(n, g)
      BY <1>2
    <2> DEFINE h == [i \in 0..(n + 1) |-> IF i <= n THEN g[i] ELSE Then(g[n], s[n + 1])]
    <2>2. \A i \in 0..n : h[i] = g[i]
      OBVIOUS
    <2>3. h[n + 1] = Then(g[n], s[n + 1])
      OBVIOUS
    <2>4. \A i \in 0..(n + 1) : h[i] = IF i = 0 THEN 0 ELSE Then(h[i - 1], s[i])
      <3> HIDE DEF h
      <3> SUFFICES ASSUME NEW i \in 0..(n + 1) PROVE h[i] = IF i = 0 THEN 0 ELSE Then(h[i - 1], s[i])
        OBVIOUS
      <3>1. CASE i = 0
        BY <2>1, <2>2, <3>1
      <3>2. CASE i \in 1..n
        <4>1. i - 1 \in 0..n /\ h[i - 1] = g[i - 1] /\ h[i] = g[i]
          BY <2>2, <3>2
        <4>2. g[i] = Then(g[i - 1], s[i])
          BY <2>1, <3>2
        <4> QED
          BY <3>2, <4>1, <4>2
      <3>3. CASE i = n + 1
        <4>1. h[i - 1] = g[n]
          BY <2>2, <3>3
        <4> QED
          BY <2>3, <3>3, <4>1
      <3> QED
        BY <3>1, <3>2, <3>3
    <2>5. Rec(n + 1, h)
      <3>1. h = [i \in 0..(n + 1) |-> h[i]]
        OBVIOUS
      <3> HIDE DEF h
      <3> QED
        BY <2>4, <3>1
    <2> HIDE DEF Rec, h
    <2> QED
      BY <2>5
  <1> HIDE DEF Good
  <1>3. Nat \subseteq Good
    BY <1>1, <1>2, NatInduct
  <1> DEFINE m == Len(s)
             w == CHOOSE g : Rec(m, g)
  <1>m. m \in Nat /\ s \in [1..m -> Department]
    BY LenProperties
  <1>4. Rec(m, w)
    <2>1. \E g : Rec(m, g)
      BY <1>3, <1>m DEF Good
    <2> QED
      BY <2>1
  <1>5. Width(s) = w[m]
    BY <1>0
  <1> HIDE DEF w, m
  <1>6. w[0] = 0 /\ (\A i \in 1..m : w[i] = Then(w[i - 1], s[i])) /\ w = [i \in 0..m |-> w[i]]
    <2>1. w = [i \in 0..m |-> IF i = 0 THEN 0 ELSE Then(w[i - 1], s[i])]
      BY <1>4
    <2> HIDE DEF Rec
    <2> QED
      BY <1>m, <2>1
  <1> HIDE DEF Rec
  <1> DEFINE Done == {i \in Nat : i <= m => w[i] \in Nat}
  <1>7. 0 \in Done
    BY <1>6
  <1>8. ASSUME NEW i \in Nat, i \in Done PROVE i + 1 \in Done
    <2> SUFFICES ASSUME i + 1 <= m PROVE w[i + 1] \in Nat
      OBVIOUS
    <2>1. w[i] \in Nat
      BY <1>8, <1>m
    <2>2. i + 1 \in 1..m /\ s[i + 1] \in Department /\ (i + 1) - 1 = i
      BY <1>m
    <2>3. w[i + 1] = w[i] + Letters[s[i + 1]]
      BY <1>6, <2>2 DEF Then
    <2>4. Letters[s[i + 1]] \in Nat
      BY <2>2, PullAssumption
    <2> QED
      BY <2>1, <2>3, <2>4
  <1> HIDE DEF Done
  <1>9. Nat \subseteq Done
    BY <1>7, <1>8, NatInduct
  <1>10. w \in [0..m -> Nat]
    <2>1. \A i \in 0..m : w[i] \in Nat
      BY <1>9, <1>m DEF Done
    <2> QED
      BY <1>6, <2>1
  <1>11. \A i \in 1..m : w[i] = w[i - 1] + Letters[s[i]]
    BY <1>6 DEF Then
  <1> QED
    BY <1>5, <1>6, <1>10, <1>11 DEF m

LEMMA WidthIs == \A s \in Seq(Department) : Width(s) \in Nat
  <1> SUFFICES ASSUME NEW s \in Seq(Department) PROVE Width(s) \in Nat
    OBVIOUS
  <1>1. PICK w \in [0..Len(s) -> Nat] : Width(s) = w[Len(s)]
    BY WidthAdds
  <1>2. Len(s) \in Nat
    BY LenProperties
  <1> QED
    BY <1>1, <1>2

\* Whatever follows makes a path longer.
LEMMA PrefixIsShorter ==
    ASSUME NEW s \in Seq(Department), NEW t \in Seq(Department), IsStrictPrefix(s, t)
    PROVE  Width(s) < Width(t)
  <1> DEFINE m == Len(s)
             n == Len(t)
  <1>1. m \in Nat /\ n \in Nat /\ t \in [1..n -> Department] /\ s \in [1..m -> Department]
    BY LenProperties
  <1>2. m <= n /\ s # t /\ \A i \in 1..m : s[i] = t[i]
    <2>1. m <= n /\ s # t /\ SubSeq(s, 1, m) = SubSeq(t, 1, m)
      BY DEF IsStrictPrefix, IsPrefix
    <2>2. ASSUME NEW i \in 1..m PROVE SubSeq(s, 1, m)[i] = s[i] /\ SubSeq(t, 1, m)[i] = t[i]
      <3>1. (\A k \in 1..m : s[k] \in Department) /\ (\A k \in 1..m : t[k] \in Department)
        BY <1>1, <2>1
      <3> QED
        BY <1>1, <2>1, <2>2, <3>1, SubSeqProperties
    <2> QED
      BY <2>1, <2>2
  <1>3. m < n
    <2>1. ASSUME m = n PROVE s = t
      <3>1. DOMAIN s = 1..m /\ DOMAIN t = 1..m /\ s = [i \in 1..m |-> s[i]] /\ t = [i \in 1..m |-> t[i]]
        BY <1>1, <2>1
      <3> HIDE DEF m, n
      <3> QED
        BY <1>2, <3>1
    <2> HIDE DEF m, n
    <2>2. m # n
      BY <1>2, <2>1
    <2> QED
      BY <1>1, <1>2, <2>2
  <1>4. PICK v \in [0..m -> Nat] : v[0] = 0 /\ (\A i \in 1..m : v[i] = v[i - 1] + Letters[s[i]]) /\ Width(s) = v[m]
    BY WidthAdds
  <1>5. PICK w \in [0..n -> Nat] : w[0] = 0 /\ (\A i \in 1..n : w[i] = w[i - 1] + Letters[t[i]]) /\ Width(t) = w[n]
    BY WidthAdds
  <1> HIDE DEF m, n
  <1> DEFINE Alike == {i \in Nat : i <= m => w[i] = v[i]}
             Grown == {i \in Nat : m < i /\ i <= n => w[m] < w[i]}
  <1>6. Nat \subseteq Alike
    <2>1. 0 \in Alike
      BY <1>4, <1>5
    <2>2. ASSUME NEW i \in Nat, i \in Alike PROVE i + 1 \in Alike
      <3> SUFFICES ASSUME i + 1 <= m PROVE w[i + 1] = v[i + 1]
        OBVIOUS
      <3>1. i + 1 \in 1..m /\ i + 1 \in 1..n /\ (i + 1) - 1 = i /\ w[i] = v[i]
        BY <1>1, <1>2, <2>2
      <3>2. v[i + 1] = v[i] + Letters[s[i + 1]] /\ w[i + 1] = w[i] + Letters[t[i + 1]]
        BY <1>4, <1>5, <3>1
      <3> QED
        BY <1>2, <3>1, <3>2
    <2> HIDE DEF Alike
    <2> QED
      BY <2>1, <2>2, NatInduct
  <1>7. w[m] = v[m] /\ w[m] \in Nat
    BY <1>1, <1>2, <1>5, <1>6
  <1>8. Nat \subseteq Grown
    <2>1. 0 \in Grown
      BY <1>1
    <2>2. ASSUME NEW i \in Nat, i \in Grown PROVE i + 1 \in Grown
      <3> SUFFICES ASSUME m < i + 1, i + 1 <= n PROVE w[m] < w[i + 1]
        OBVIOUS
      <3>1. i + 1 \in 1..n /\ (i + 1) - 1 = i /\ i \in 0..n
        BY <1>1, <2>2
      <3>2. w[i + 1] = w[i] + Letters[t[i + 1]] /\ w[i] \in Nat
        BY <1>5, <3>1
      <3>3. Letters[t[i + 1]] \in Nat \ {0}
        BY <1>1, <3>1, PullAssumption
      <3>4. w[m] <= w[i]
        <4>1. i = m \/ m < i
          BY <1>1, <3>1
        <4> QED
          BY <1>7, <2>2, <3>1, <4>1
      <3> QED
        BY <1>7, <3>2, <3>3, <3>4
    <2> HIDE DEF Grown
    <2> QED
      BY <2>1, <2>2, NatInduct
  <1>9. w[m] < w[n]
    BY <1>1, <1>3, <1>8
  <1> QED
    BY <1>4, <1>5, <1>7, <1>9

LEMMA NothingIsLonger ==
    ASSUME NEW s \in Seq(Department)
    PROVE  ~IsStrictPrefix(s, <<>>)
  <1>1. Len(s) \in Nat /\ s \in [1..Len(s) -> Department] /\ Len(<<>>) = 0
    BY LenProperties, EmptySeq
  <1>2. Len(s) <= 0 => s = <<>>
    BY <1>1, EmptySeq
  <1> QED
    BY <1>1, <1>2 DEF IsStrictPrefix, IsPrefix

\* Of finitely many paths one is as long as any.
LEMMA LongestExists ==
    ASSUME NEW S \in SUBSET Seq(Department), IsFiniteSet(S), S # {}
    PROVE  \E x \in S : \A z \in S : Width(x) >= Width(z)
  <1> DEFINE length == [x \in S |-> Width(x)]
             L == {length[x] : x \in S}
  <1>0. \A x \in S : length[x] = Width(x) /\ Width(x) \in Nat
    BY WidthIs
  <1>1. L \in SUBSET Nat /\ L # {}
    BY <1>0
  <1>2. IsFiniteSet(L)
    <2>1. DOMAIN length = S /\ length = [x \in S |-> length[x]]
      OBVIOUS
    <2> HIDE DEF length
    <2> QED
      BY <2>1, ImageIsFinite
  <1> HIDE DEF length
  <1> HIDE DEF L
  <1>3. PICK m \in L : \A y \in L : y <= m
    BY <1>1, <1>2, GreatestExists
  <1>4. PICK x \in S : m = Width(x)
    BY <1>0 DEF L
  <1>5. \A z \in S : Width(z) \in L
    BY <1>0 DEF L
  <1> QED
    BY <1>1, <1>3, <1>4, <1>5

\* Everybody's path is the longest of those of his departments.
LEMMA AllPlaced ==
    ASSUME PullInv, pull.phase = "done", seen.changes = 0, NEW p \in DOMAIN rows,
           pull.platform # "wecom" \/ Cardinality(DepartmentsOf(remote, p)) <= 1
    PROVE  LET paths == {PathBelow(pull, d) : d \in DepartmentsOf(remote, p) \cap Below(remote, pull.root)} \cup {<<>>}
           IN  rows[p] \in paths /\ ~\E z \in paths : IsStrictPrefix(rows[p], z)
  <1> DEFINE mine == DepartmentsOf(remote, p)
             below == mine \cap Below(remote, pull.root)
             paths == {PathBelow(pull, d) : d \in below} \cup {<<>>}
             found == {PathOf(pull, d) : d \in mine}
  <1>1. Recorded /\ Walked /\ Met /\ Unchanged /\ PullTyped /\ Tree(remote.parent) /\ Finished /\ seen.moved = {}
    BY DEF PullInv, Typed, RemoteTyped, Kept
  <1>2. p \in DOMAIN pull.users /\ pull.users[p] = mine /\ mine # {} /\ rows[p] = OrgPath(pull, mine)
    <2>1. rows = [q \in DOMAIN pull.users |-> OrgPath(pull, pull.users[q])]
      BY <1>1 DEF Finished
    <2>2. p \in DOMAIN pull.users
      BY <2>1
    <2>3. pull.users[p] = mine
      BY <1>1, <2>2 DEF Unchanged
    <2>4. rows[p] = OrgPath(pull, pull.users[p])
      BY <2>1, <2>2
    <2>5. pull.users[p] # {}
      BY <1>1, <2>2 DEF Met
    <2> HIDE DEF mine
    <2> QED
      BY <2>2, <2>3, <2>4, <2>5
  <1>3. mine \subseteq Department
    BY DEF DepartmentsOf
  <1>4. DOMAIN pull.records = Below(remote, pull.root) \ (IF pull.platform = "wecom" THEN {} ELSE {pull.root})
    BY <1>1, RecordedAre
  <1>5. pull.root \in Department /\ pull.root \in Below(remote, pull.root)
    BY <1>1, BelowIs DEF PullTyped
  \* The root has no path of its own, but with WeCom.
  <1>6. ASSUME pull.platform # "wecom" PROVE PathBelow(pull, pull.root) = <<>>
    <2> DEFINE path == RemotePath(remote)[pull.root]
               n == Len(path)
    <2>1. path \in Seq(Department)
      BY <1>1, <1>5, RemotePathIs
    <2> HIDE DEF path
    <2>2. n \in Nat
      BY <2>1, LenProperties
    <2> HIDE DEF n
    <2>3. SubSeq(path, n + 1, n) = <<>>
      BY <2>2, SubSeqEmpty
    <2> QED
      BY <1>6, <2>3 DEF PathBelow, path, n
  <1>7. \A d \in mine : PathOf(pull, d) = IF d \in below THEN PathBelow(pull, d) ELSE <<>>
    <2> SUFFICES ASSUME NEW d \in mine
                 PROVE  PathOf(pull, d) = IF d \in below THEN PathBelow(pull, d) ELSE <<>>
      OBVIOUS
    <2>1. CASE d \in DOMAIN pull.records
      <3>1. Paths(pull)[d] = PathBelow(pull, d)
        BY <1>1, <2>1, PathsAreBelow
      <3>2. d \in below
        BY <1>4, <2>1
      <3> HIDE DEF below
      <3> QED
        BY <2>1, <3>1, <3>2 DEF PathOf
    <2>2. CASE d \notin DOMAIN pull.records
      <3>1. PathOf(pull, d) = <<>>
        BY <2>2 DEF PathOf
      <3>2. d \in below => pull.platform # "wecom" /\ d = pull.root
        BY <1>4, <2>2
      <3> HIDE DEF below
      <3> QED
        BY <1>6, <3>1, <3>2
    <2> QED
      BY <2>1, <2>2
  <1>8. \A d \in mine : PathOf(pull, d) \in Seq(Department)
    <2> SUFFICES ASSUME NEW d \in mine PROVE PathOf(pull, d) \in Seq(Department)
      OBVIOUS
    <2>1. CASE d \in DOMAIN pull.records
      <3> DEFINE D == DOMAIN pull.records
                 tops == {e \in D : Top(pull, e)}
      <3>1. Upward(D, pull.records, tops) /\ IsPath(Paths(pull), D, pull.records, tops)
        BY <1>1, PathsAre DEF Finished
      <3>2. D \subseteq Department /\ d \in D
        BY <1>1, <2>1 DEF PullTyped
      <3> HIDE DEF D, tops
      <3>3. Paths(pull)[d] \in Seq(D)
        BY <3>1, <3>2, PathIs
      <3>4. Paths(pull)[d] \in Seq(Department)
        BY <3>2, <3>3, SeqMonotonic
      <3> QED
        BY <2>1, <3>4 DEF PathOf
    <2>2. CASE d \notin DOMAIN pull.records
      BY <2>2 DEF PathOf
    <2> QED
      BY <2>1, <2>2
  <1> HIDE DEF mine
  <1>9. found \subseteq paths
    BY <1>7
  <1>10. found # {} /\ found \in SUBSET Seq(Department)
    BY <1>2, <1>8
  <1>11. IsFiniteSet(found)
    <2>1. IsFiniteSet(mine)
      BY <1>3, PullAssumption, FS_Subset
    <2> DEFINE of == [d \in mine |-> PathOf(pull, d)]
    <2>2. DOMAIN of = mine /\ of = [d \in mine |-> of[d]] /\ found = {of[d] : d \in mine}
      OBVIOUS
    <2> HIDE DEF of
    <2>3. IsFiniteSet({of[d] : d \in mine})
      BY <2>1, <2>2, ImageIsFinite
    <2> QED
      BY <2>2, <2>3
  <1>12. \A z \in paths : z \in found \/ z = <<>>
    <2> SUFFICES ASSUME NEW z \in paths, z # <<>> PROVE z \in found
      OBVIOUS
    <2>1. PICK d \in below : z = PathBelow(pull, d)
      OBVIOUS
    <2>2. d \in mine /\ PathOf(pull, d) = z
      BY <1>7, <2>1
    <2> QED
      BY <2>2
  <1> HIDE DEF paths, found
  <1>13. rows[p] \in found /\ \A z \in found : Width(rows[p]) >= Width(z)
    <2>1. CASE pull.platform # "wecom"
      <3>1. rows[p] = CHOOSE x \in found : \A z \in found : Width(x) >= Width(z)
        BY <1>2, <2>1 DEF OrgPath, found
      <3>2. \E x \in found : \A z \in found : Width(x) >= Width(z)
        BY <1>10, <1>11, LongestExists
      <3> QED
        BY <3>1, <3>2
    <2>2. CASE pull.platform = "wecom"
      <3>1. IsFiniteSet(mine) /\ Cardinality(mine) \in Nat
        BY <1>3, PullAssumption, FS_Subset, FS_CardinalityType
      <3>2. Cardinality(mine) = 1
        <4>1. Cardinality(mine) # 0
          BY <1>2, <3>1, FS_EmptySet
        <4> QED
          BY <2>2, <3>1, <4>1 DEF mine
      <3>3. PICK d : mine = {d}
        BY <3>1, <3>2, FS_Singleton
      <3>4. found = {PathOf(pull, d)}
        BY <3>3 DEF found
      <3>5. rows[p] = FlattenSeq(SetToSeq(found))
        BY <1>2, <2>2 DEF OrgPath, found
      <3>6. rows[p] = PathOf(pull, d)
        BY <3>4, <3>5, OrgPathOfOne
      <3>7. Width(PathOf(pull, d)) \in Nat
        BY <1>8, <3>3, WidthIs
      <3> QED
        BY <3>4, <3>6, <3>7
    <2> QED
      BY <2>1, <2>2
  <1>14. rows[p] \in Seq(Department)
    BY <1>10, <1>13
  <1>15. ASSUME NEW z \in paths, IsStrictPrefix(rows[p], z) PROVE FALSE
    <2>1. z \in Seq(Department)
      BY <1>10, <1>12, EmptySeq
    <2>2. Width(rows[p]) \in Nat /\ Width(z) \in Nat /\ Width(rows[p]) < Width(z)
      BY <1>14, <1>15, <2>1, WidthIs, PrefixIsShorter
    <2>3. z # <<>>
      BY <1>14, <1>15, NothingIsLonger
    <2>4. Width(rows[p]) >= Width(z)
      BY <1>12, <1>13, <2>3
    <2> QED
      BY <2>2, <2>4
  <1>16. rows[p] \in paths /\ ~\E z \in paths : IsStrictPrefix(rows[p], z)
    BY <1>9, <1>13, <1>15
  <1> QED
    BY <1>16 DEF paths, below, mine

\* The two conjuncts of PathsAreReal.
LEMMA AllReal == PullInv => PathsAreReal
  <1> SUFFICES ASSUME PullInv PROVE PathsAreReal
    OBVIOUS
  <1>1. pull.phase = "crashed" => seen.above \cap seen.moved # {}
    BY DEF PullInv
  <1>2. ASSUME pull.phase = "done", seen.changes = 0, NEW p \in DOMAIN rows,
               ~(pull.platform = "wecom" /\ Cardinality(DepartmentsOf(remote, p)) > 1)
        PROVE  LET paths == {PathBelow(pull, d) : d \in DepartmentsOf(remote, p) \cap Below(remote, pull.root)} \cup {<<>>}
               IN  rows[p] \in paths /\ ~\E z \in paths : IsStrictPrefix(rows[p], z)
    <2> DEFINE mine == DepartmentsOf(remote, p)
    <2>1. mine \subseteq Department
      BY DEF DepartmentsOf
    <2> HIDE DEF mine
    <2>2. Cardinality(mine) \in Nat
      BY <2>1, PullAssumption, FS_Subset, FS_CardinalityType
    <2>3. pull.platform # "wecom" \/ ~(Cardinality(mine) > 1)
      BY <1>2 DEF mine
    <2>4. pull.platform # "wecom" \/ Cardinality(mine) <= 1
      BY <2>2, <2>3
    <2> QED
      BY <1>2, <2>4, AllPlaced DEF mine
  <1> QED
    BY <1>1, <1>2 DEF PathsAreReal

\* build_path ends unless the root was moved or something above it; and if nothing changed,
\* everybody is placed at one of his departments, and at none that has another of his below
\* it, however long the names of departments are.
THEOREM PathsArePlaced == Spec => []PathsAreReal
  BY PullInvariance, AllReal, PTL
=============================================================================
