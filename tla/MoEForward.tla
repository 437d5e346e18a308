----------------------------- MODULE MoEForward -----------------------------
(***************************************************************************)
(* The experts of a MoE layer at work in the forward of NPUWorker: the     *)
(* ranks of the data-parallel group, TPSize tensor-parallel ranks each,    *)
(* run MoELayer's forward with the contexts that their metadata exchange   *)
(* has given them.                                                         *)
(***************************************************************************)
EXTENDS NPUWorker, MoELayer

CONSTANTS
  Patterns,   \* triples, each of which stands for a routing
  Placement,  \* experts of each rank of an expert map file
  BufferRows  \* max_row_per_ep_rank

(* Token i of rank r, and the rows rank r feeds to the model. *)
Token(r, i) == r * MaxTokens + i
Rows(r) == Listed([i \in 1 .. context[r].num_tokens |->
                      IF i <= batch[r].n THEN Token(r, i) ELSE 0])

(* num_actual_tokens: a dummy run has none. *)
NumActualTokens(r) == IF batch[r].dummy THEN 0 ELSE batch[r].n

LayerContext == [r \in DP |-> [across |-> context[r].across,
                               padded |-> PaddedNumTokens(context[r]),
                               actual |-> NumActualTokens(r)]]

(* The scores of a token and the experts chosen from them. *)
Scores(p, tok) == Table([e \in 0 .. NumExperts - 1 |-> 1 + ((p[1] * tok + p[2] * e) % 7)])
Routing(p) == Table([tok \in 0 .. DPSize * MaxTokens |->
  IF mode = "torchair" THEN TorchairSelectExperts(Scores(p, tok), p[3])
  ELSE SelectExperts(Scores(p, tok), p[3], TRUE)])

(* _get_fused_moe_state: the exchanges that may be configured.  MC2 needs  *)
(* 16 ranks in the code and is considered for any number of them here.     *)
Exchanges(with_prefill) == {"All2All", "All2AllSeq"} \cup (IF with_prefill THEN {} ELSE {"MC2"})

Exact(out, ids, parts) ==
  \A r \in DP : \A i \in 1 .. NumActualTokens(r) : out[r][i] = Expected(Token(r, i), ids, parts)

(* Without expert parallelism every rank has a part of every expert, and   *)
(* the context's state says how the tokens get there.                      *)
ReplicatedExact(x, ids) ==
  Exact(CASE FusedMoeState(context[0].with_prefill) = "AllGather" /\ mode = "torchair" ->
               TorchairForwardAllGather(x, ids, DPSize, TPSize)
          [] FusedMoeState(context[0].with_prefill) = "AllGather" /\ mode # "torchair" ->
               ForwardAllGather(x, ids, DPSize, TPSize, LayerContext)
          [] FusedMoeState(context[0].with_prefill) = "NaiveMulticast" ->
               ForwardNaiveMulticast(x, ids, DPSize, TPSize, LayerContext),
        ids, 0 .. DPSize * TPSize - 1)

(* With it, an exchange of the unquantized or the TorchAir method, without *)
(* or with buffers.                                                        *)
ExchangedExact(state, x, ids, cap) ==
  Exact(IF mode = "torchair"
        THEN TorchairForwardExchange(state, x, ids, DPSize, TPSize, LayerContext, cap)
        ELSE ForwardUnquantized(state, x, ids, DPSize, TPSize, LayerContext, cap), ids, {0})

(* Or of a quantized method, with the experts placed by a file. *)
QuantizedExact(state, x, ids) ==
  \A first \in BOOLEAN :
    LET slots == Table([r \in DOMAIN Placement |-> Physical(ids, Log2PhyMap(Placement, r, first))])
    IN  Exact(IF mode = "torchair"
              THEN ForwardW4A8(state, x, slots, Placement, DPSize, TPSize, LayerContext)
              ELSE ForwardW8A8(state, x, slots, Placement, DPSize, TPSize, LayerContext), ids, {0})

(* Or with a token dispatcher around the experts. *)
DispatchedExact(state, x, ids) ==
  Exact(ForwardDispatched(state, x, ids, DPSize, TPSize, LayerContext), ids, {0})

(* Sequence parallelism, where a step prefills. *)
SequenceParallelExact(x, ids) ==
  Exact(ForwardSequenceParallel(x, ids, DPSize, TPSize), ids, {0})

(* Operators that give each of two ranks its share of the sums, for all of *)
(* a rank's tokens.                                                        *)
SharesAddUp(x, ids, Share(_)) ==
  LET e == Table([r \in Group(2) |-> Share(r)])
  IN  \A i \in DOMAIN x : x[i] # 0 =>
        BagTotal([r \in Group(2) |-> e[r][i]], Group(2)) = Expected(x[i], ids, {0})

(* unified_fused_experts in ACL graph mode, the expert map branches of     *)
(* fused_experts, and AllGatherEP.                                         *)
MappedExact(x, ids) ==
  CASE mode = "aclgraph" ->
         /\ \A method \in {"native", "npu"} :
              SharesAddUp(x, ids, LAMBDA r : UnifiedFusedExperts(method, x, ids, 2, r))
         /\ MC2CommImpl([r \in Group(2) |-> x], ids, 2,
                        [r \in Group(2) |-> [i \in DOMAIN x |-> x[i] # 0]])[0]
              = [i \in DOMAIN x |-> IF x[i] = 0 THEN EmptyBag ELSE Expected(x[i], ids, {0})]
    [] mode = "torchair" ->
         SharesAddUp(x, ids, LAMBDA r : TorchairFusedExpertsMapped(x, ids, 2, r))
    [] mode = "eager" ->
         /\ SharesAddUp(x, ids, LAMBDA r : FusedExpertsMapped(x, ids, 2, r))
         /\ SharesAddUp(x, ids, LAMBDA r : W8A8FusedExpertsMapped(x, ids, 2, r))
         /\ SharesAddUp(x, ids, LAMBDA r : TokenDispatcherWithAllGather(x, ids, 2, r))
         /\ \A i \in DOMAIN x : x[i] # 0 =>
              ForwardAllGatherEP(x, ids, 2)[i] = Expected(x[i], ids, {0})

(* fused_experts_moge, whose routing has one expert in each group. *)
MogeExact(x, ids) ==
  SharesAddUp(x, ids, LAMBDA r : IF mode = "torchair" THEN TorchairFusedExpertsMoge(x, ids, 2, r)
                                 ELSE FusedExpertsMoge(x, ids, 2, r))

(* The layer of experts, under every mode, mix of batches and contexts of  *)
(* the ranks, and by every path the code has for it (all-gather, multicast *)
(* and slice, all-to-all with exchanged sizes, with fixed buffers or with  *)
(* two permutations, MC2, sequence parallel, quantized with redundant      *)
(* experts, moe_comm_method): every token of every rank gets the weighted  *)
(* result of each of its chosen experts, of every part of it, exactly      *)
(* once, and no other token's.                                             *)
MoEOutputsExact ==
  AllWaitIn("forward") /\ (\A r \in DP : life[r] = "serving") /\ ~mtp /\ ~producer /\ ~DummyDiverges =>
    \A x \in {Table([r \in DP |-> Rows(r)])}, p \in Patterns : \A ids \in {Routing(p)} :
      /\ \A tok \in DOMAIN ids : IsInjective(ids[tok])
      /\ ReplicatedExact(x, ids)
      /\ \A state \in Exchanges(context[0].with_prefill) :
           /\ QuantizedExact(state, x, ids)
           /\ state # "All2All" => DispatchedExact(state, x, ids)
           /\ \A cap \in {0} \cup (IF state = "All2All" THEN {BufferRows} ELSE {}) :
                ExchangedExact(state, x, ids, cap)
      /\ context[0].with_prefill => SequenceParallelExact(x, ids)
      /\ MappedExact(x[0], ids)
      /\ MogeExact(x[0], Table([tok \in DOMAIN ids |-> PanguGroup8Topk(Scores(p, tok))]))
=============================================================================
