------------------------------- MODULE Tensors -------------------------------
(***************************************************************************)
(* Operators on one-dimensional tensors, which are sequences here, as the  *)
(* code uses them from torch and numpy.  Indices that are data count from  *)
(* zero, as in the code; Get reads a sequence with such an index.          *)
(***************************************************************************)
EXTENDS Integers, FiniteSetsExt, SequencesExt, Functions, Bags

(* Listed and Table are the sequence and the function that they are given; *)
(* TLC evaluates their elements once.                                      *)
Listed(s) == s \o <<>>
Table(f)  == f @@ <<>>

Take(s, idx) == Listed([i \in DOMAIN idx |-> s[idx[i]]])

(* The place of each key in the stable order of the keys, and that order.  *)
Places(keys) ==
  Listed([i \in DOMAIN keys |-> 1 + Cardinality({j \in DOMAIN keys :
            keys[j] < keys[i] \/ (keys[j] = keys[i] /\ j < i)})])
ArgSort(keys) ==
  LET p == Places(keys)
  IN  Listed([i \in DOMAIN keys |-> CHOOSE j \in DOMAIN keys : p[j] = i])

BinCount(keys, n) == Listed([e \in 1 .. n |-> Cardinality({i \in DOMAIN keys : keys[i] = e - 1})])

CumSum(counts) ==
  LET cu[i \in DOMAIN counts] == IF i = 1 THEN counts[1] ELSE cu[i - 1] + counts[i]
  IN  Listed(cu)

(* The sum of f over S, a bag for each of them. *)
BagTotal(f, S) == FoldFunctionOnSet(LAMBDA a, b : a (+) b, EmptyBag, f, S)

PadTo(x, n) == IF Len(x) < n THEN x \o [i \in 1 .. n - Len(x) |-> 0] ELSE x

(* torch.tensor_split: n parts, the first ones a row longer. *)
TensorSplit(x, n) ==
  LET Size(i) == Len(x) \div n + (IF i <= Len(x) % n THEN 1 ELSE 0)
      Start(i) == (i - 1) * (Len(x) \div n) + (IF i - 1 < Len(x) % n THEN i - 1 ELSE Len(x) % n)
  IN  [i \in 1 .. n |-> SubSeq(x, Start(i) + 1, Start(i) + Size(i))]

(* Indexing from zero, and by a tensor of such indices. *)
Get(s, i)         == s[i + 1]
IndexSelect(s, x) == Listed([j \in DOMAIN x |-> Get(s, x[j])])

(* np.repeat and torch.repeat_interleave: the i-th value counts[i] times. *)
RepeatEach(s, counts) == FlattenSeq([i \in DOMAIN s |-> [k \in 1 .. counts[i] |-> s[i]]])

(* The places from zero on. *)
ARange(n) == Listed([i \in 1 .. n |-> i - 1])

Plus(s, t)  == Listed([i \in DOMAIN s |-> s[i] + t[i]])
Minus(s, t) == Listed([i \in DOMAIN s |-> s[i] - t[i]])

(* x[idx] = values, for idx counting from zero. *)
Scatter(x, idx, values) ==
  Listed([i \in DOMAIN x |->
     IF \E j \in DOMAIN idx : idx[j] = i - 1
     THEN values[CHOOSE j \in DOMAIN idx : idx[j] = i - 1] ELSE x[i]])
=============================================================================
