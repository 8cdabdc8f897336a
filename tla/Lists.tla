-------------------------------- MODULE Lists --------------------------------
(***************************************************************************)
(* What the panel and the client do again and again with small arrays:     *)
(* sort the keys of a table, and pick from an array what still counts.     *)
(* SortSeq and SelectSeq do the same; they take an operator, and nothing   *)
(* could be proved of them.                                                *)
(***************************************************************************)
EXTENDS Integers, FiniteSets, Sequences, SequencesExt

(* How many numbers of S are not above x. *)
Rank(x, S) == Cardinality({y \in S : y <= x})

(* The numbers of the finite set S, sorted. *)
Ascending(S) == [n \in 1 .. Cardinality(S) |-> CHOOSE x \in S : Rank(x, S) = n]

(* The entries of s that are in T, in their order. *)
Within(s, T) ==
    LET at == Ascending({i \in DOMAIN s : s[i] \in T})
    IN  [n \in DOMAIN at |-> s[at[n]]]

(* The entries of s that are not in T, in their order. *)
Without(s, T) == Within(s, ToSet(s) \ T)
=============================================================================
