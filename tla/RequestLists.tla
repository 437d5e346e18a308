---------------------------- MODULE RequestLists ----------------------------
(* Lists of requests and sums over them, as the scheduler uses them, written *)
(* with cardinalities: no operator here is recursive.                        *)
EXTENDS Integers, Sequences, FiniteSets

(* The sum of f[r], each at most n, over the members r of R. *)
Total(f, R, n) == Cardinality({rk \in R \X (1 .. n) : rk[2] <= f[rk[1]]})

(* A list of requests without those in R: its i-th element is the one that *)
(* has i elements of the result up to it.                                  *)
Kept(s, R)        == {j \in DOMAIN s : s[j] \notin R}
KeptUpTo(s, R, j) == Cardinality({k \in Kept(s, R) : k <= j})
Without(s, R)     == [i \in 1 .. Cardinality(Kept(s, R)) |->
                        s[CHOOSE j \in Kept(s, R) : KeptUpTo(s, R, j) = i]]
=============================================================================
