---------------------------- MODULE SortedLists ----------------------------
(* A set of numbers as a list, written with cardinalities.                  *)
EXTENDS Integers, Sequences, FiniteSets

(* sorted(S): the i-th element has i members of S up to it. *)
Ascending(S) == [i \in 1 .. Cardinality(S) |->
                   CHOOSE s \in S : Cardinality({t \in S : t <= s}) = i]
=============================================================================
