------------------------------- MODULE Tables -------------------------------
(***************************************************************************)
(* Partial functions as tables: the small fixed arrays of structs, keyed   *)
(* by a name, that the dashboard keeps.                                    *)
(***************************************************************************)

EmptyTable == [x \in {} |-> {}]

(* The table t with the row x set to y. *)
Put(t, x, y) == [z \in DOMAIN t \cup {x} |-> IF z = x THEN y ELSE t[z]]

(* The rows of t whose key is in S. *)
Rows(t, S) == [z \in DOMAIN t \cap S |-> t[z]]
=============================================================================
