------------------------------ MODULE FusedMoE ------------------------------
(***************************************************************************)
(* The ways the plugin computes a layer of experts, from the routing of    *)
(* the tokens to their weighted sums: on the weights of one rank, or       *)
(* exchanged between the W ranks of an expert-parallel group.  An operator *)
(* for a group takes and returns one value per rank of 0 .. W - 1.         *)
(*                                                                         *)
(* Quantisation scales travel with their rows and are left out.            *)
(***************************************************************************)
EXTENDS MoEKernels

Group(W)           == 0 .. W - 1
LocalNumExperts(W) == NumExperts \div W

(* determine_expert_map: rank r holds a block of consecutive experts. *)
LocalExperts(W, r) == Listed([i \in 1 .. LocalNumExperts(W) |-> r * LocalNumExperts(W) + i - 1])
ExpertMap(W, r, e) == IF e \div LocalNumExperts(W) = r THEN e % LocalNumExperts(W) ELSE -1

AllExperts == [i \in 1 .. NumExperts |-> i - 1]

(* apply_mlp: the group list gives ends (type 0) or counts (type 1). *)
ApplyMlp(rows, group_list, group_list_type, experts, part) ==
  GroupedMlp(rows, IF group_list_type = 1 THEN CumSum(group_list) ELSE group_list,
             experts, part)

-----------------------------------------------------------------------------
(* Experts on one rank. *)

(* fused_experts without an expert map. *)
FusedExperts(x, ids, part) ==
  LET s   == InitRouting(x, ids)
      mlp == ApplyMlp(s.rows, CumSum(BinCount(s.experts, NumExperts)), 0, AllExperts, part)
  IN  FinalizeRouting(mlp, Weights(x), s.row_idx)

(* The pairs of an expert map's rank first, in the order of its experts.   *)
MapExperts(x, ids, W, r) ==
  LET chosen   == Chosen(x, ids)
      filtered == Listed([f \in DOMAIN chosen |->
                     LET e == ExpertMap(W, r, chosen[f])
                     IN  IF e = -1 THEN LocalNumExperts(W) ELSE e])
      mask     == {f \in DOMAIN chosen : filtered[f] # LocalNumExperts(W)}
      order    == ArgSort(filtered)
  IN  [tokens  |-> [i \in DOMAIN order |-> Tok(order[i])],
       weights |-> [i \in DOMAIN order |->
                      IF order[i] \in mask THEN Weights(x)[order[i]] ELSE NoWeight],
       counts  |-> BinCount(filtered, LocalNumExperts(W)),
       valid   |-> Cardinality(mask)]

(* fused_experts with an expert map: rank r's share of the sums.  Rows     *)
(* behind the valid ones are set to zero before they are added.            *)
FusedExpertsMapped(x, ids, W, r) ==
  LET s   == MapExperts(x, ids, W, r)
      mlp == ApplyMlp(Take(x, s.tokens), CumSum(s.counts), 0, LocalExperts(W, r), 0)
      out == [i \in DOMAIN mlp |-> IF i <= s.valid THEN mlp[i] ELSE Zero]
  IN  IndexAdd(Len(x), s.tokens, out, s.weights)

(* fused_experts_moge: rank r computes the choices of its own groups.      *)
FusedExpertsMoge(x, ids, W, r) ==
  LET groups  == TopK \div W
      n       == LocalNumExperts(W)
      flat    == [f \in 1 .. Len(x) * groups |->
                    <<x[((f - 1) \div groups) + 1], r * groups + ((f - 1) % groups) + 1>>]
      topk    == [f \in DOMAIN flat |-> ids[flat[f][1]][flat[f][2]] - r * n]
      order   == ArgSort(topk)
      rows    == [i \in DOMAIN order |-> x[((order[i] - 1) \div groups) + 1]]
      mlp     == ApplyMlp(rows, CumSum(BinCount(topk, n)), 0, LocalExperts(W, r), 0)
      scaled  == [i \in DOMAIN mlp |-> Scaled(mlp[i], flat[order[i]])]
      unsorted == Take(scaled, ArgSort(order))
  IN  [t \in DOMAIN x |-> BagTotal(unsorted, (t - 1) * groups + 1 .. t * groups)]

-----------------------------------------------------------------------------
(* moe_comm_method: a pre- and a post-process around the experts. *)

(* NativeAllGatherCommImpl *)
NativeAllGatherExperts(x, ids, W, r) ==
  LET s == MapExperts(x, ids, W, r)
  IN  IndexAdd(Len(x), s.tokens,
               ApplyMlp(Take(x, s.tokens), s.counts, 1, LocalExperts(W, r), 0), s.weights)

(* AllGatherCommImpl *)
AllGatherExperts(x, ids, W, r) ==
  LET first   == r * LocalNumExperts(W)
      s       == InitRoutingV2(x, ids, first, first + LocalNumExperts(W))
      weights == [f \in Pairs(Len(x)) |->
                    IF ExpertMap(W, r, Chosen(x, ids)[f]) # -1 THEN Weights(x)[f] ELSE NoWeight]
  IN  TokenUnpermute(ApplyMlp(s.rows, s.counts, 1, LocalExperts(W, r), 0), weights, s.place)

(* unified_fused_experts, on rank r and with the method of the context. *)
UnifiedFusedExperts(method, x, ids, W, r) ==
  IF method = "native" THEN NativeAllGatherExperts(x, ids, W, r)
  ELSE AllGatherExperts(x, ids, W, r)

(* MC2CommImpl; fused_experts_with_mc2 of the unquantized method. *)
FusedExpertsWithMC2(x, ids, W, mask) ==
  DistributeDispatchCombine(x, [r \in Group(W) |-> ids],
                            [r \in Group(W) |-> LocalExperts(W, r)], mask)
MC2CommImpl(x, ids, W, mask) == FusedExpertsWithMC2(x, ids, W, mask)

-----------------------------------------------------------------------------
(* Exchanges between the ranks of the group. *)

(* A variant that leaves the results in the order of the experts. *)
SortedMlp_Unsorted(rows, local, W, q) ==
  ApplyMlp(Take(rows, ArgSort(local)), CumSum(BinCount(local, LocalNumExperts(W))), 0,
           LocalExperts(W, q), 0)

(* The experts of rank q on the rows it received: sorted by local expert,  *)
(* computed, and put back into the order of arrival.                       *)
SortedMlp(rows, local, W, q) ==
  LET order == ArgSort(local)
  IN  Take(ApplyMlp(Take(rows, order), CumSum(BinCount(local, LocalNumExperts(W))), 0,
                    LocalExperts(W, q), 0), ArgSort(order))

(* fused_experts_with_all2all with an expert map. *)
FusedExpertsWithAll2All(x, ids, W) ==
  LET n       == LocalNumExperts(W)
      s       == Table([r \in Group(W) |-> InitRouting(x[r], ids)])
      scatter == Table([r \in Group(W) |-> Table([q \in Group(W) |->
                    Cardinality({i \in DOMAIN s[r].experts : s[r].experts[i] \div n = q})])])
      gather  == Table([q \in Group(W) |-> Table([r \in Group(W) |-> scatter[r][q]])])
      rows    == AllToAll([r \in Group(W) |-> s[r].rows], scatter, gather)
      local   == AllToAll([r \in Group(W) |-> [i \in DOMAIN s[r].experts |-> s[r].experts[i] % n]],
                          scatter, gather)
      back    == AllToAll([q \in Group(W) |-> SortedMlp(rows[q], local[q], W, q)], gather, scatter)
  IN  Table([r \in Group(W) |-> FinalizeRouting(back[r], Weights(x[r]), s[r].row_idx)])

(* process_topk_ids, of keys in ascending order: the buffer of experts,    *)
(* cap places for every rank, and which of the keys found a place.         *)
ProcessTopkIds(keys, W, cap) ==
  LET rank(i)  == keys[i] \div LocalNumExperts(W)
      intra(i) == i - Min({j \in DOMAIN keys : rank(j) = rank(i)})
      kept     == {i \in DOMAIN keys : intra(i) < cap}
      at(j)    == {i \in kept : rank(i) * cap + intra(i) = j - 1}
  IN  [pad  |-> Listed([j \in 1 .. W * cap |->
                   IF at(j) = {} THEN NumExperts ELSE keys[CHOOSE i \in at(j) : TRUE]]),
       kept |-> kept]

(* The rows of s where the mask holds, in order. *)
Masked(s, mask) == Take(s, SelectSeq([i \in DOMAIN s |-> i], LAMBDA i : mask[i]))

(* What rank q makes of the buffers it received: the places in use go      *)
(* through its experts, the others are filled with zeros.                  *)
BufferMlp(rows, idx, W, q) ==
  LET mask   == Listed([j \in DOMAIN idx |-> idx[j] # NumExperts])
      local  == Masked([j \in DOMAIN idx |-> idx[j] - q * LocalNumExperts(W)], mask)
      result == SortedMlp(Masked(rows, mask), local, W, q)
  IN  Listed([j \in DOMAIN idx |->
         IF mask[j] THEN result[Cardinality({i \in 1 .. j : mask[i]})] ELSE Zero])

(* fused_experts_with_all2all_buffer: fixed buffers of cap rows per pair   *)
(* of ranks, so that no sizes need to be exchanged.                        *)
FusedExpertsWithAll2AllBuffer(x, ids, W, cap) ==
  LET s    == Table([r \in Group(W) |-> InitRouting(x[r], ids)])
      p    == Table([r \in Group(W) |-> ProcessTopkIds(s[r].experts, W, cap)])
      used == Table([r \in Group(W) |-> Listed([j \in 1 .. W * cap |-> p[r].pad[j] # NumExperts])])
      even == Table([r \in Group(W) |-> [q \in Group(W) |-> cap]])
      pick == Table([r \in Group(W) |-> [j \in 1 .. W * cap |->
                 IF used[r][j] THEN s[r].rows[Cardinality({i \in 1 .. j : used[r][i]})]
                 ELSE s[r].rows[1]]])
      idx  == AllToAll([r \in Group(W) |-> p[r].pad], even, even)
      rows == AllToAll(pick, even, even)
      back == AllToAll([q \in Group(W) |-> BufferMlp(rows[q], idx[q], W, q)], even, even)
      Kept(r, got) == [i \in DOMAIN s[r].rows |->
                         IF i \in p[r].kept
                         THEN got[Cardinality({j \in p[r].kept : j <= i})] ELSE Zero]
  IN  Table([r \in Group(W) |->
         FinalizeRouting(Kept(r, Masked(back[r], used[r])), Weights(x[r]), s[r].row_idx)])

(* MoEAlltoAllSeqOverLapDispatcher.preprocess: the sizes of the exchange,  *)
(* the tokens of each local expert and the local expert of each row that   *)
(* will arrive.                                                            *)
Preprocess(x, ids, W) ==
  LET n      == LocalNumExperts(W)
      counts == Table([r \in Group(W) |-> BinCount(Chosen(x[r], ids), NumExperts)])
      Sent(r, q) == SumFunctionOnSet(counts[r], q * n + 1 .. (q + 1) * n)
  IN  [input_splits  |-> Table([r \in Group(W) |-> Table([q \in Group(W) |-> Sent(r, q)])]),
       output_splits |-> Table([r \in Group(W) |-> Table([q \in Group(W) |-> Sent(q, r)])]),
       tokens_per_expert |-> [r \in Group(W) |-> [j \in 1 .. n |->
          SumFunctionOnSet([q \in Group(W) |-> counts[q][r * n + j]], Group(W))]],
       indices       |-> [r \in Group(W) |-> FlattenSeq([e \in 1 .. NumExperts |->
          LET q == (e - 1) \div n
              j == (e - 1) % n
          IN  [i \in 1 .. counts[q][r * n + j + 1] |-> j]])]]

(* token_permutation, the experts, token_unpermutation:                    *)
(* fused_experts_with_all2allv.                                            *)
TokenPermutation(x, ids, W, sizes) ==
  LET sorted == Table([r \in Group(W) |->
                   LET order == ArgSort(Chosen(x[r], ids))
                   IN  Listed([i \in DOMAIN order |-> x[r][Tok(order[i])]])])
      rows   == AllToAll(sorted, sizes.input_splits, sizes.output_splits)
  IN  Table([q \in Group(W) |-> IF LocalNumExperts(W) > 1
                                THEN Take(rows[q], ArgSort(sizes.indices[q])) ELSE rows[q]])

TokenUnpermutation(mlp, x, ids, W, sizes) ==
  LET rows == Table([q \in Group(W) |-> IF LocalNumExperts(W) > 1
                                  THEN Take(mlp[q], Places(sizes.indices[q])) ELSE mlp[q]])
      back == AllToAll(rows, sizes.output_splits, sizes.input_splits)
  IN  Table([r \in Group(W) |-> TokenUnpermute(back[r], Weights(x[r]), Places(Chosen(x[r], ids)))])

FusedExpertsWithAll2Allv(x, ids, W) ==
  LET sizes == Preprocess(x, ids, W)
      rows  == TokenPermutation(x, ids, W, sizes)
      mlp   == Table([q \in Group(W) |->
                  ApplyMlp(rows[q], sizes.tokens_per_expert[q], 1, LocalExperts(W, q), 0)])
  IN  TokenUnpermutation(mlp, x, ids, W, sizes)
-----------------------------------------------------------------------------
(* The token dispatchers, for an unquantized model and without redundant   *)
(* experts: dispatch, the experts, combine.                                *)

(* TokenDispatcherWithMC2: both halves are the fused operators. *)
TokenDispatcherWithMC2(x, ids, W, mask) ==
  DistributeDispatchCombine(x, [r \in Group(W) |-> ids],
                            [r \in Group(W) |-> LocalExperts(W, r)], mask)

(* TokenDispatcherWithAllGather with an expert map: what token_dispatch    *)
(* returns and keeps for token_combine.  Without a map token_combine fails *)
(* on its assertions.                                                      *)
AllGatherTokenDispatch(x, ids, W, r) ==
  LET s == MapExperts(x, ids, W, r)
  IN  [rows |-> Take(x, s.tokens), group_list |-> CumSum(s.counts), group_list_type |-> 0,
       sorted_token_indices |-> s.tokens, sorted_weights |-> s.weights, valid |-> s.valid]

AllGatherTokenCombine(mlp, x, d) ==
  IndexAdd(Len(x), d.sorted_token_indices,
           [i \in DOMAIN mlp |-> IF i <= d.valid THEN mlp[i] ELSE Zero], d.sorted_weights)

TokenDispatcherWithAllGather(x, ids, W, r) ==
  LET d == AllGatherTokenDispatch(x, ids, W, r)
  IN  AllGatherTokenCombine(ApplyMlp(d.rows, d.group_list, d.group_list_type,
                                     LocalExperts(W, r), 0), x, d)

(* TokenDispatcherWithAll2AllV: _preprocess and _dispatch_postprocess do   *)
(* what Preprocess and the second sort of TokenPermutation do.             *)
All2AllVPreprocess(x, ids, W)                  == Preprocess(x, ids, W)
All2AllVTokenDispatch(x, ids, W, sizes)        == TokenPermutation(x, ids, W, sizes)
All2AllVTokenCombine(mlp, x, ids, W, sizes)    == TokenUnpermutation(mlp, x, ids, W, sizes)

TokenDispatcherWithAll2AllV(x, ids, W) ==
  LET sizes == All2AllVPreprocess(x, ids, W)
      rows  == All2AllVTokenDispatch(x, ids, W, sizes)
  IN  All2AllVTokenCombine(Table([q \in Group(W) |->
         ApplyMlp(rows[q], sizes.tokens_per_expert[q], 1, LocalExperts(W, q), 0)]),
         x, ids, W, sizes)
=============================================================================
