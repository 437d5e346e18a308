----------------------------- MODULE MoEKernels -----------------------------
(***************************************************************************)
(* The data of a mixture-of-experts layer and the device operators its     *)
(* code is written with.                                                   *)
(*                                                                         *)
(* A row of hidden states is named by its token (0 is a row of padding);   *)
(* what an expert makes of it is <<token, expert, part>>, where part names *)
(* the slice of the expert's weights that a rank holds.  A row of output   *)
(* is the bag of the weighted expert results that were added up in it, so  *)
(* that one added twice or left out shows.  The routing ids gives the      *)
(* experts of every token; the weight of its k-th is <<token, k>>.         *)
(***************************************************************************)
EXTENDS Tensors

CONSTANTS
  NumExperts,  \* global_num_experts
  TopK         \* top_k

ASSUME MoEAssumption ==
  /\ {NumExperts, TopK} \subseteq Nat \ {0}
  /\ TopK <= NumExperts

Garbage  == <<>>   \* a row the grouped matmul did not write
Zero     == <<0>>  \* a row of zeros
NoWeight == <<>>   \* a weight of zero

-----------------------------------------------------------------------------
(* Flattened (token, choice) pairs, token by token. *)
Pairs(n) == 1 .. n * TopK
Tok(f)   == ((f - 1) \div TopK) + 1
Sel(f)   == ((f - 1) % TopK) + 1
Chosen(x, ids) == Listed([f \in Pairs(Len(x)) |-> ids[x[Tok(f)]][Sel(f)]])
Weights(x)     == Listed([f \in Pairs(Len(x)) |-> <<x[Tok(f)], Sel(f)>>])

Scaled(row, w) == IF row = Zero \/ w = NoWeight THEN EmptyBag ELSE SetToBag({<<row, w>>})

(* What a MoE layer has to compute for a token, of all parts. *)
Expected(tok, ids, parts) ==
  SetToBag({<< <<tok, ids[tok][k], p>>, <<tok, k>> >> : k \in 1 .. TopK, p \in parts})

-----------------------------------------------------------------------------
(* Device operators. *)

(* npu_moe_init_routing: the rows sorted by expert, and for the k-th       *)
(* choice of row t, at (k - 1) * n + t, where it went.                     *)
InitRouting(x, ids) ==
  LET keys  == Chosen(x, ids)
      place == Places(keys)
      order == ArgSort(keys)
      n     == Len(x)
  IN  [rows    |-> Listed([i \in Pairs(n) |-> x[Tok(order[i])]]),
       experts |-> Take(keys, order),
       row_idx |-> Listed([s \in Pairs(n) |-> place[((s - 1) % n) * TopK + ((s - 1) \div n) + 1]])]

(* npu_moe_init_routing_v2: only the experts first .. last - 1 are active; *)
(* rows of the others come last and are not counted.                       *)
InitRoutingV2(x, ids, first, last) ==
  LET chosen == Chosen(x, ids)
      keys   == Listed([f \in DOMAIN chosen |->
                   IF chosen[f] \in first .. last - 1 THEN chosen[f] - first ELSE NumExperts])
      order  == ArgSort(keys)
  IN  [rows   |-> Listed([i \in DOMAIN keys |-> x[Tok(order[i])]]),
       counts |-> BinCount(keys, last - first),
       place  |-> Places(keys),
       order  |-> order]

(* npu_moe_finalize_routing *)
FinalizeRouting(rows, weights, row_idx) ==
  LET n == Len(row_idx) \div TopK
  IN  Listed([t \in 1 .. n |->
         BagTotal([k \in 1 .. TopK |-> Scaled(rows[row_idx[(k - 1) * n + t]],
                                              weights[(t - 1) * TopK + k])], 1 .. TopK)])

(* npu_moe_token_unpermute: place is in the order of the flattened pairs.  *)
TokenUnpermute(rows, weights, place) ==
  Listed([t \in 1 .. Len(place) \div TopK |->
     BagTotal([k \in 1 .. TopK |-> Scaled(rows[place[(t - 1) * TopK + k]],
                                          weights[(t - 1) * TopK + k])], 1 .. TopK)])

(* index_add_ of the weighted rows into n rows of zeros. *)
IndexAdd(n, tokens, rows, weights) ==
  Listed([t \in 1 .. n |-> BagTotal([i \in DOMAIN rows |-> Scaled(rows[i], weights[i])],
                                    {i \in DOMAIN rows : tokens[i] = t})])

(* npu_grouped_matmul, twice, with the activation between: ends is the     *)
(* cumulated group list; rows behind the last group are not written.       *)
GroupedMlp(rows, ends, experts, part) ==
  Listed([i \in DOMAIN rows |->
     LET g == {j \in DOMAIN ends : i <= ends[j]}
     IN  IF g = {} THEN Garbage ELSE <<rows[i], experts[Min(g)], part>>])

(* all_to_all_single: rank r sends send[r][q] consecutive rows to rank q,  *)
(* which expects recv[q][r] of them.                                       *)
AllToAll(data, send, recv) ==
  LET R == DOMAIN data
      From(r, q) == SumFunctionOnSet(send[r], {p \in R : p < q})
      Message(r, q) == IF send[r][q] = recv[q][r]
                       THEN SubSeq(data[r], From(r, q) + 1, From(r, q) + send[r][q])
                       ELSE [i \in 1 .. recv[q][r] |-> Garbage]
  IN  Table([q \in R |-> FlattenSeq([i \in 1 .. Cardinality(R) |-> Message(i - 1, q)])])

(* npu_moe_distribute_dispatch and _combine with the experts between: slot *)
(* s is the (s % n)-th of rank s \div n; masked rows are not computed.     *)
DistributeDispatchCombine(x, slots, experts, mask) ==
  LET n == Len(experts[0])
  IN  Table([r \in DOMAIN x |-> Listed([t \in DOMAIN x[r] |->
         IF ~mask[r][t] THEN EmptyBag
         ELSE BagTotal([k \in 1 .. TopK |->
                       LET s == slots[r][x[r][t]][k]
                       IN  Scaled(<<x[r][t], experts[s \div n][(s % n) + 1], 0>>,
                                  <<x[r][t], k>>)], 1 .. TopK)])])
=============================================================================
