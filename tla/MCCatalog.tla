------------------------------ MODULE MCCatalog ------------------------------
(* Two small datasources, scanned while one of them changes. *)
EXTENDS Catalog, TLC

CONSTANTS x, y

\* A database with one commented table, with a view beside it, or without either.
Holds(columns) == <<"d">> :> {} @@ <<"d", "t">> :> columns
MCSchemas ==
    { Holds({"c"}),
      Holds({"e"}) @@ <<"d", "v">> :> {},
      <<"d">> :> {} }
MCComment(path) == IF path = <<"d", "t">> THEN "comment" ELSE Null

Row(src, path, parent, status, note) ==
    [source |-> src, path |-> path, parent |-> parent, status |-> status, note |-> note]

Empty == [sources |-> {x, y}, resources |-> Nothing, fields |-> Nothing, rules |-> {}, next |-> 1]

\* Nothing scanned yet; and the table of both scanned before it had its comment, one
\* disabled with a disabled column, the other under a rule.
MCSeeds ==
    LET holds == [src \in Source |-> Holds({"c"})] IN
    { [db |-> Empty, live |-> holds],
      [db |-> [Empty EXCEPT
                 !.resources = 1 :> Row(x, <<"d">>, Null, "active", Null)
                            @@ 2 :> Row(x, <<"d", "t">>, 1, "disabled", Null)
                            @@ 3 :> Row(y, <<"d">>, Null, "active", Null)
                            @@ 4 :> Row(y, <<"d", "t">>, 3, "active", Mine),
                 !.fields = <<x, 2, "c">> :> "disabled" @@ <<y, 4, "c">> :> "active",
                 !.rules = {4},
                 !.next = 5],
       live |-> holds] }

\* The second datasource is only scanned and deleted.
MCAsks(r) ==
    CASE r.op \in {"scan", "delete_datasource"} -> TRUE
      [] r.op = "update_field" -> r.field[1] = x
      [] OTHER -> r.resource \in ResourcesOf(db, x)

AdminSymmetry == Permutations(Admin)
=============================================================================
