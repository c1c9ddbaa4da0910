-------------------------------- MODULE Maps --------------------------------
(***************************************************************************)
(* Tables and requests as functions with a domain of their own: a dict, a  *)
(* table by its primary key, a record that grows field by field.  f ++ g   *)
(* is the f @@ g of the module TLC, which the proof system knows no        *)
(* definition of.                                                          *)
(***************************************************************************)

Nothing == [k \in {} |-> k]

Single(key, value) == [k \in {key} |-> value]

f ++ g == [k \in DOMAIN f \cup DOMAIN g |-> IF k \in DOMAIN f THEN f[k] ELSE g[k]]

Without(f, keys) == [k \in DOMAIN f \ keys |-> f[k]]
=============================================================================
