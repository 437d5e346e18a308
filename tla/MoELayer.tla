------------------------------ MODULE MoELayer ------------------------------
(***************************************************************************)
(* A mixture-of-experts layer in a group of dp * tp ranks: the choice of   *)
(* the experts, their placement, the quantized and the TorchAir variants   *)
(* of FusedMoE's operators, and the layer's forward, which pads, splits or *)
(* gathers the tokens, lets the experts work and puts the results back.    *)
(* Rank t of the tensor-parallel group of data-parallel rank d is rank     *)
(* d * tp + t of the expert-parallel group.                                *)
(***************************************************************************)
EXTENDS FusedMoE

-----------------------------------------------------------------------------
(* Choice of the experts of a token, from its scores (all above zero). *)

(* torch.topk, where a tie goes to the smaller index. *)
TopKOf(scores, k) ==
  LET Better(a, b) == scores[a] > scores[b] \/ (scores[a] = scores[b] /\ a < b)
  IN  Listed([i \in 1 .. k |-> CHOOSE e \in DOMAIN scores :
                Cardinality({a \in DOMAIN scores : Better(a, e)}) = i - 1])

(* _native_grouped_topk: the scores outside the best groups become zero.   *)
NativeGroupedTopk(scores, num_expert_group, topk_group) ==
  LET size == NumExperts \div num_expert_group
      best == [g \in 0 .. num_expert_group - 1 |->
                 Max({scores[e] : e \in g * size .. (g + 1) * size - 1})]
      kept == Range(TopKOf(best, topk_group))
  IN  Table([e \in DOMAIN scores |-> IF e \div size \in kept THEN scores[e] ELSE 0])

(* _select_expert_use_group_topk: a correction bias counts in the choice   *)
(* and not in the weights.                                                 *)
SelectExpertUseGroupTopk(scores, bias, num_expert_group, topk_group) ==
  TopKOf(NativeGroupedTopk([e \in DOMAIN scores |-> scores[e] + bias[e]],
                           num_expert_group, topk_group), TopK)

(* _native_select_experts, without a custom routing function. *)
NativeSelectExperts(scores, use_grouped_topk) ==
  IF use_grouped_topk THEN SelectExpertUseGroupTopk(scores, [e \in DOMAIN scores |-> 0], 2, 1)
  ELSE TopKOf(scores, TopK)

(* _select_experts_with_fusion_ops: a fused operator where there is one,   *)
(* or <<>> for None.  The operator for 256 experts is left out.            *)
SelectExpertsWithFusionOps(scores, use_grouped_topk, is_unquantized) ==
  IF ~use_grouped_topk /\ is_unquantized THEN TopKOf(scores, TopK) ELSE <<>>

SelectExperts(scores, use_grouped_topk, is_unquantized) ==
  LET fused == SelectExpertsWithFusionOps(scores, use_grouped_topk, is_unquantized)
  IN  IF fused # <<>> THEN fused ELSE NativeSelectExperts(scores, use_grouped_topk)

(* The TorchAir variants. *)
TorchairNativeGroupedTopk(scores, num_expert_group, topk_group) ==
  NativeGroupedTopk(scores, num_expert_group, topk_group)

TorchairSelectExperts(scores, use_grouped_topk) ==
  TopKOf(IF use_grouped_topk THEN TorchairNativeGroupedTopk(scores, 2, 1) ELSE scores, TopK)

(* pangu_group8_topk: the best expert of each of TopK groups. *)
PanguGroup8Topk(scores) ==
  LET size == NumExperts \div TopK
  IN  [g \in 1 .. TopK |-> CHOOSE e \in (g - 1) * size .. g * size - 1 :
         \A a \in (g - 1) * size .. g * size - 1 :
           scores[a] < scores[e] \/ (scores[a] = scores[e] /\ e <= a)]

-----------------------------------------------------------------------------
(* ExpertLoadBalancer: experts placed by a file, some on several ranks.    *)
(* placement[r] lists the experts of rank r, n of them on every rank.      *)

(* generate_expert_placement_map: the index of e on rank r, or -1. *)
PlacementMap(placement, r, e) ==
  LET at == {i \in DOMAIN placement[r] : placement[r][i] = e}
  IN  IF at = {} THEN -1 ELSE Max(at) - 1

(* generate_log2phy_expert_map, for rank r: its own copy of an expert, if  *)
(* it has one, or a random one: the first or the last here.                *)
Log2PhyMap(placement, r, first) ==
  LET n         == Len(placement[r])
      Copies(e) == {s \in 0 .. n * Cardinality(DOMAIN placement) - 1 :
                      placement[s \div n][(s % n) + 1] = e}
  IN  Table([e \in 0 .. NumExperts - 1 |->
         IF PlacementMap(placement, r, e) # -1 THEN r * n + PlacementMap(placement, r, e)
         ELSE IF first THEN Min(Copies(e)) ELSE Max(Copies(e))])

GlobalRedundantExpertNum(placement) ==
  Len(placement[0]) * Cardinality(DOMAIN placement) - NumExperts

-----------------------------------------------------------------------------
(* w8a8_dynamic: the same with dynamically quantized rows; slots[r] gives  *)
(* the physical experts rank r's tokens go to.                             *)

Physical(ids, log2phy) ==
  Table([tok \in DOMAIN ids |-> Listed([k \in 1 .. TopK |-> log2phy[ids[tok][k]]])])

(* apply_mlp of w8a8_dynamic: w4a8_dynamic has a scale bias, for which the *)
(* ends become counts.                                                     *)
W8A8ApplyMlp(rows, group_list, group_list_type, experts, part, w1_scale_bias) ==
  LET diff == [i \in DOMAIN group_list |->
                 IF i = 1 THEN group_list[1] ELSE group_list[i] - group_list[i - 1]]
  IN  IF w1_scale_bias /\ group_list_type = 0 THEN ApplyMlp(rows, diff, 1, experts, part)
      ELSE ApplyMlp(rows, group_list, group_list_type, experts, part)

(* init_routing_quant: as npu_moe_init_routing, with the place of each     *)
(* pair token by token.                                                    *)
InitRoutingQuant(x, slots, num) ==
  LET keys  == Chosen(x, slots)
      order == ArgSort(keys)
  IN  [rows |-> Listed([i \in DOMAIN keys |-> x[Tok(order[i])]]),
       place |-> Places(keys), counts |-> BinCount(keys, num)]

(* npu_moe_re_routing: from one block per sender to one block per expert.  *)
ReRouting(rows, counts) ==
  LET n      == Len(counts[0])
      expert == FlattenSeq([i \in 1 .. Cardinality(DOMAIN counts) * n |->
                  [c \in 1 .. counts[(i - 1) \div n][((i - 1) % n) + 1] |-> (i - 1) % n]])
      order  == ArgSort(expert)
  IN  [rows |-> Take(rows, order), inverse |-> order, expert_tokens |-> BinCount(expert, n)]

(* fused_experts_with_all2all of w8a8_dynamic, with an expert map. *)
W8A8FusedExpertsWithAll2All(x, slots, placement, w1_scale_bias) ==
  LET R       == DOMAIN placement
      n       == Len(placement[0])
      num     == NumExperts + GlobalRedundantExpertNum(placement)
      s       == Table([r \in R |-> InitRoutingQuant(x[r], slots[r], num)])
      counts  == Table([q \in R |-> Table([r \in R |-> Listed([j \in 1 .. n |-> s[r].counts[q * n + j]])])])
      recv    == Table([q \in R |-> Table([r \in R |-> SumFunctionOnSet(counts[q][r], 1 .. n)])])
      send    == Table([r \in R |-> Table([q \in R |->
                    SumFunctionOnSet(s[r].counts, q * n + 1 .. (q + 1) * n)])])
      rows    == AllToAll([r \in R |-> s[r].rows], send, recv)
      routed  == Table([q \in R |-> ReRouting(rows[q], counts[q])])
      mlp     == Table([q \in R |-> W8A8ApplyMlp(routed[q].rows, routed[q].expert_tokens, 1,
                                       placement[q], 0, w1_scale_bias)])
      back    == AllToAll([q \in R |-> Take(mlp[q], ArgSort(routed[q].inverse))], recv, send)
  IN  Table([r \in R |-> TokenUnpermute(back[r], Weights(x[r]), s[r].place)])

(* fused_experts_with_mc2 of w8a8_dynamic. *)
W8A8FusedExpertsWithMC2(x, slots, placement, mask) ==
  DistributeDispatchCombine(x, slots, placement, mask)

(* fused_experts_with_allgather: rank r's share, its experts only. *)
W8A8FusedExpertsWithAllGather(x, ids, W, r) ==
  LET n   == LocalNumExperts(W)
      s   == InitRoutingV2(x, ids, r * n, (r + 1) * n)
      mlp == W8A8ApplyMlp(s.rows, s.counts, 1, LocalExperts(W, r), 0, FALSE)
      num == SumFunctionOnSet(s.counts, 1 .. n)
      out == SubSeq(mlp, 1, num)
  IN  IndexAdd(Len(x), [i \in DOMAIN out |-> Tok(s.order[i])], out,
               [i \in DOMAIN out |-> Weights(x)[s.order[i]]])

(* fused_experts of w8a8_dynamic, with and without an expert map. *)
W8A8FusedExperts(x, ids, part) ==
  LET s == InitRouting(x, ids)
  IN  FinalizeRouting(W8A8ApplyMlp(s.rows, CumSum(BinCount(s.experts, NumExperts)), 0,
                                   AllExperts, part, FALSE), Weights(x), s.row_idx)

W8A8FusedExpertsMapped(x, ids, W, r) ==
  LET s   == MapExperts(x, ids, W, r)
      mlp == W8A8ApplyMlp(Take(x, s.tokens), s.counts, 1, LocalExperts(W, r), 0, FALSE)
  IN  IndexAdd(Len(x), s.tokens, [i \in DOMAIN mlp |-> IF i <= s.valid THEN mlp[i] ELSE Zero],
               s.weights)

-----------------------------------------------------------------------------
(* torchair_fused_moe: the operators once more, for TorchAir's models. *)

TorchairFusedExperts(x, ids, part)                == FusedExperts(x, ids, part)
TorchairFusedExpertsMapped(x, ids, W, r)          == FusedExpertsMapped(x, ids, W, r)
TorchairFusedExpertsMoge(x, ids, W, r)            == FusedExpertsMoge(x, ids, W, r)
TorchairFusedExpertsWithMC2(x, ids, W, mask)      == FusedExpertsWithMC2(x, ids, W, mask)
TorchairFusedExpertsWithAll2All(x, ids, W)        == FusedExpertsWithAll2All(x, ids, W)
TorchairFusedExpertsWithAll2AllBuffer(x, ids, W, cap) ==
  FusedExpertsWithAll2AllBuffer(x, ids, W, cap)
TorchairFusedExpertsWithAll2Allv(x, ids, W)       == FusedExpertsWithAll2Allv(x, ids, W)

-----------------------------------------------------------------------------
(* apply of the three methods for the states that exchange tokens.  cap is *)
(* 0, or with MOE_ALL2ALL_BUFFER the rows per rank of the buffers.         *)

UnquantizedApply(state, x, ids, W, mask, cap) ==
  CASE state = "MC2"                         -> FusedExpertsWithMC2(x, ids, W, mask)
    [] state # "MC2" /\ cap > 0              -> FusedExpertsWithAll2AllBuffer(x, ids, W, cap)
    [] state = "All2AllSeq" /\ cap = 0       -> FusedExpertsWithAll2Allv(x, ids, W)
    [] state = "All2All" /\ cap = 0          -> FusedExpertsWithAll2All(x, ids, W)

TorchairApply(state, x, ids, W, mask, cap) ==
  CASE state = "MC2"                         -> TorchairFusedExpertsWithMC2(x, ids, W, mask)
    [] state # "MC2" /\ cap > 0              -> TorchairFusedExpertsWithAll2AllBuffer(x, ids, W, cap)
    [] state = "All2AllSeq" /\ cap = 0       -> TorchairFusedExpertsWithAll2Allv(x, ids, W)
    [] state = "All2All" /\ cap = 0          -> TorchairFusedExpertsWithAll2All(x, ids, W)

(* w8a8_dynamic, and w4a8_dynamic with a scale bias, know two exchanges. *)
W8A8Apply(state, x, slots, placement, mask) ==
  IF state = "MC2" THEN W8A8FusedExpertsWithMC2(x, slots, placement, mask)
  ELSE W8A8FusedExpertsWithAll2All(x, slots, placement, FALSE)

W4A8Apply(state, x, slots, placement, mask) ==
  IF state = "MC2" THEN W8A8FusedExpertsWithMC2(x, slots, placement, mask)
  ELSE W8A8FusedExpertsWithAll2All(x, slots, placement, TRUE)

-----------------------------------------------------------------------------
(* AscendFusedMoE.forward.  ctx is the forward context of each rank:       *)
(* across, its tokens per data-parallel rank; padded, padded_num_tokens;   *)
(* actual, num_actual_tokens.                                              *)

(* States that exchange: pad the tokens, split them and the mask over the  *)
(* tensor-parallel ranks; behind the method's apply gather and cut.        *)
SplitRanks(s, dp, tp) ==
  Table([r \in 0 .. dp * tp - 1 |-> TensorSplit(s[r \div tp], tp)[(r % tp) + 1]])

PaddedChunks(state, x, dp, tp, ctx) ==
  SplitRanks([d \in DOMAIN x |-> PadTo(x[d], IF state = "MC2" THEN ctx[d].padded ELSE tp)], dp, tp)

MC2Mask(dp, tp, ctx) ==
  SplitRanks([d \in 0 .. dp - 1 |-> [i \in 1 .. ctx[d].padded |-> i <= ctx[d].actual]], dp, tp)

GatherChunks(x, out, tp) ==
  [d \in DOMAIN x |-> SubSeq(FlattenSeq([t \in 1 .. tp |-> out[d * tp + t - 1]]), 1, Len(x[d]))]

(* The forward with each quant_method; cap: the rows of a buffer, or 0. *)
ForwardUnquantized(state, x, ids, dp, tp, ctx, cap) ==
  GatherChunks(x, UnquantizedApply(state, PaddedChunks(state, x, dp, tp, ctx), ids, dp * tp,
                                   MC2Mask(dp, tp, ctx), cap), tp)

ForwardW8A8(state, x, slots, placement, dp, tp, ctx) ==
  GatherChunks(x, W8A8Apply(state, PaddedChunks(state, x, dp, tp, ctx), slots, placement,
                            MC2Mask(dp, tp, ctx)), tp)

ForwardW4A8(state, x, slots, placement, dp, tp, ctx) ==
  GatherChunks(x, W4A8Apply(state, PaddedChunks(state, x, dp, tp, ctx), slots, placement,
                            MC2Mask(dp, tp, ctx)), tp)

(* With the layer's token_dispatcher. *)
ForwardDispatched(state, x, ids, dp, tp, ctx) ==
  LET chunks == PaddedChunks(state, x, dp, tp, ctx)
  IN  GatherChunks(x, IF state = "MC2"
                      THEN TokenDispatcherWithMC2(chunks, ids, dp * tp, MC2Mask(dp, tp, ctx))
                      ELSE TokenDispatcherWithAll2AllV(chunks, ids, dp * tp), tp)

(* AllGather: gather the padded rows h; each rank computes e, its part of  *)
(* the experts; reduce-scatter over the data-parallel group, cut, reduce   *)
(* over the tensor-parallel group.                                         *)
GatherRows(h, dp) == FlattenSeq([i \in 1 .. dp |-> h[i - 1]])

ScatterRows(x, e, dp) ==
  LET size == Len(e[0]) \div dp
  IN  [d \in DOMAIN x |-> [i \in DOMAIN x[d] |->
         BagTotal([p \in DOMAIN e |-> e[p][d * size + i]], DOMAIN e)]]

ForwardAllGather(x, ids, dp, tp, ctx) ==
  LET all == GatherRows([d \in DOMAIN x |-> PadTo(x[d], Max(Range(ctx[d].across)))], dp)
  IN  ScatterRows(x, Table([p \in 0 .. dp * tp - 1 |-> W8A8FusedExperts(all, ids, p)]), dp)

(* TorchairAscendFusedMoE.forward: the same exchange, but the runner has   *)
(* padded where the tokens are gathered.                                   *)
TorchairForwardExchange(state, x, ids, dp, tp, ctx, cap) ==
  GatherChunks(x, TorchairApply(state, PaddedChunks(state, x, dp, tp, ctx), ids, dp * tp,
                                MC2Mask(dp, tp, ctx), cap), tp)

TorchairForwardAllGather(x, ids, dp, tp) ==
  ScatterRows(x, Table([p \in 0 .. dp * tp - 1 |->
                    TorchairFusedExperts(GatherRows(x, dp), ids, p)]), dp)

(* naive_multicast: rank d's view of everyone's rows; a copy of another    *)
(* length than the context says does not fit.                              *)
NaiveMulticastBuffer(x, dp, across) ==
  FlattenSeq([i \in 1 .. dp |-> IF Len(x[i - 1]) = across[i - 1] THEN x[i - 1]
                                ELSE [j \in 1 .. across[i - 1] |-> 0]])

(* NaiveMulticast: broadcast, compute, reduce over both groups, slice. *)
ForwardNaiveMulticast(x, ids, dp, tp, ctx) ==
  LET e == Table([p \in 0 .. dp * tp - 1 |->
              FusedExperts(NaiveMulticastBuffer(x, dp, ctx[p \div tp].across), ids, p)])
      start(d) == SumFunctionOnSet(ctx[d].across, {q \in DOMAIN x : q < d})
  IN  [d \in DOMAIN x |-> [i \in 1 .. ctx[d].across[d] |->
         BagTotal([p \in DOMAIN e |-> e[p][start(d) + i]], DOMAIN e)]]

(* AllGatherEP, for one data-parallel rank: every rank its experts of all  *)
(* tokens, then the reduction over the tensor-parallel group.              *)
ForwardAllGatherEP(x, ids, tp) ==
  LET e == [r \in Group(tp) |-> W8A8FusedExpertsWithAllGather(x, ids, tp, r)]
  IN  [i \in DOMAIN x |-> BagTotal([r \in Group(tp) |-> e[r][i]], Group(tp))]

(* With sequence parallelism a rank holds the slice of MetadataForPadding; *)
(* the results are gathered again behind the layer.                        *)
PaddingSlice(x, tp) ==
  LET padded == PadTo(x, ((Len(x) + tp - 1) \div tp) * tp)
      size   == Len(padded) \div tp
  IN  [t \in 0 .. tp - 1 |-> SubSeq(padded, t * size + 1, (t + 1) * size)]

AllgatherUnpaddingAligned(rows, tp, n) ==
  SubSeq(FlattenSeq([t \in 1 .. tp |-> rows[t - 1]]), 1, n)

ForwardSequenceParallel(x, ids, dp, tp) ==
  LET slices == Table([r \in 0 .. dp * tp - 1 |-> PaddingSlice(x[r \div tp], tp)[r % tp]])
      out    == FusedExpertsWithAll2All(slices, ids, dp * tp)
  IN  [d \in DOMAIN x |->
         AllgatherUnpaddingAligned([t \in 0 .. tp - 1 |-> out[d * tp + t]], tp, Len(x[d]))]
=============================================================================
