---------------------------- MODULE MLAAttention ----------------------------
(***************************************************************************)
(* The attention backends for multi-head latent attention, in the eager    *)
(* (mla_v1.py) and the torchair (torchair_mla.py) form: the batch is       *)
(* ordered with its decodes first, split into decodes and prefills, and    *)
(* each part goes to kernels of its own; the prefills may read their       *)
(* context in chunks, and a batch may be cut into two micro-batches        *)
(* (ms_split.py).  <<>> is None.                                           *)
(***************************************************************************)
EXTENDS Attention

CONSTANTS
  Workspace,  \* chunked_prefill_workspace_size, in tokens
  DboTokens   \* the tokens below which a batch is not cut, 256 in the code

ASSUME MLAAssumption == {Workspace, DboTokens} \subseteq Nat

From(s, n) == SubSeq(s, n + 1, Len(s))  \* s[n:]
UpTo(s, n) == SubSeq(s, 1, IF n < Len(s) THEN n ELSE Len(s))  \* s[:n]

-----------------------------------------------------------------------------
(* reorder_batch swaps decodes behind the place of the last decode with    *)
(* the first prefills.  With torchair a decode may have drafts.            *)
ReorderBatch(b, torchair) ==
  LET IsDecode(i) == b[i].sched - (IF torchair THEN b[i].drafts ELSE 0) = 1
      all      == Listed([i \in DOMAIN b |-> i])
      decodes  == SelectSeq(all, IsDecode)
      prefills == SelectSeq(all, LAMBDA i : ~IsDecode(i))
      back(i)  == decodes[Len(decodes) + 1 - i]
      swaps    == {i \in 1 .. Min({Len(decodes), Len(prefills)}) : back(i) > Len(decodes)}
  IN  Listed([j \in DOMAIN b |->
        b[CASE \E i \in swaps : prefills[i] = j -> back(CHOOSE i \in swaps : prefills[i] = j)
            [] \E i \in swaps : back(i) = j     -> prefills[CHOOSE i \in swaps : back(i) = j]
            [] OTHER -> j]])

SplitDecodesAndPrefills(query_lens, threshold) ==
  LET long == {i \in DOMAIN query_lens : query_lens[i] > threshold}
      n    == IF long = {} THEN Len(query_lens) ELSE Min(long) - 1
  IN  [num_decodes |-> n, num_prefills |-> Len(query_lens) - n,
       num_decode_tokens |-> SumFunctionOnSet(query_lens, 1 .. n)]

(* The part of build that cuts the context of the prefills into chunks.    *)
ChunkedContext(context_lens) ==
  LET max_context == Max(Range(context_lens))
      chunk == ((Workspace \div Cardinality({i \in DOMAIN context_lens : context_lens[i] > 0}))
                  \div BlockSize) * BlockSize
      Length(start, len) == Max({0, Min({len, start + chunk}) - start})
  IN  IF max_context = 0 THEN <<>>
      ELSE Listed([c \in 1 .. (max_context + chunk - 1) \div chunk |->
             [start |-> (c - 1) * chunk,
              lens  |-> Listed([i \in DOMAIN context_lens |->
                           Length((c - 1) * chunk, context_lens[i])])]])

(* AscendMLAMetadataBuilder.build, for a split of the batch. *)
MlaMetadata(b, inp, query_lens, s, chunked) ==
  [num_decodes |-> s.num_decodes,
   num_prefills |-> s.num_prefills,
   num_decode_tokens |-> s.num_decode_tokens,
   attn_state |-> inp.attn_state,
   attn_mask |-> MakeAttentionMask(inp, query_lens, TRUE),
   query_lens |-> query_lens,
   slot_mapping |-> inp.slot_mapping,
   prefill |-> IF s.num_prefills = 0 THEN <<>> ELSE
     [query_lens   |-> From(query_lens, s.num_decode_tokens),
      seq_lens     |-> inp.seq_lens,
      context_lens |-> From(inp.seq_lens, s.num_decode_tokens),
      max_seq_lens |-> Max(Range(From(inp.seq_lens, s.num_decode_tokens))),
      block_table  |-> From(Of(b, "blocks"), s.num_decodes),
      chunks       |-> IF chunked THEN ChunkedContext(From(Minus(inp.seq_lens, query_lens), s.num_decodes))
                       ELSE <<>>],
   decode |-> IF s.num_decodes = 0 THEN <<>> ELSE
     [seq_lens    |-> UpTo(inp.seq_lens, s.num_decode_tokens),
      block_table |-> UpTo(Of(b, "blocks"), s.num_decode_tokens),
      actual_seq_lengths_q |-> SubSeq(inp.query_start_loc, 2, s.num_decodes + 1)]]

QueryLens(inp) == Minus(Tail(inp.query_start_loc), Front(inp.query_start_loc))

MlaBuild(b, inp, cfg) ==
  MlaMetadata(b, inp, QueryLens(inp), SplitDecodesAndPrefills(QueryLens(inp), 1), cfg.chunked)

-----------------------------------------------------------------------------
(* Prefills. *)

(* npu_ring_mla adds keys to what each query has attended to: those of the *)
(* batch under a triangular mask, then without mask the ones that          *)
(* npu_paged_cache_load reads.                                             *)
FirstRing(keys, query_lens) ==
  LET cu == CumSum(query_lens)
  IN  EachRow(query_lens, LAMBDA i, a : SubSeq(keys, cu[i] - query_lens[i] + 1, cu[i] - query_lens[i] + a + 1))

NextRing(out, cache, table, query_lens, chunk) ==
  LET req == RepeatEach(ARange(Len(query_lens)), query_lens)
  IN  Listed([k \in DOMAIN out |->
        out[k] \o Page(cache, Get(table, req[k]), chunk.start, chunk.start + Get(chunk.lens, req[k]))])

(* _compute_prefill_context *)
ComputePrefillContext(cache, p, prefix_output) ==
  FoldLeft(LAMBDA out, chunk : NextRing(out, cache, p.block_table, p.query_lens, chunk),
           prefix_output, p.chunks)

(* vanilla_chunked_prefill_mla: all keys up to the longest context, under  *)
(* the mask of the sequence's length and the causal mask.                  *)
VanillaChunkedPrefillMla(cache, table, query_lens, context_lens, max_context_len) ==
  EachRow(query_lens, LAMBDA i, a :
    Visible(Page(cache, table[i], 0, max_context_len),
            {c \in 0 .. max_context_len - 1 :
               c < context_lens[i] /\ c <= context_lens[i] - query_lens[i] + a}))

(* _forward_prefill; ring is chunked_prefill_for_mla. *)
MlaForwardPrefill(cache, keys, m, ring) ==
  CASE m.attn_state = "PrefillNoCache" -> FlashAttention(keys, m.attn_mask, m.prefill.context_lens)
    [] m.attn_state # "PrefillNoCache" /\ ring ->
         ComputePrefillContext(cache, m.prefill, FirstRing(keys, m.prefill.query_lens))
    [] OTHER ->
         VanillaChunkedPrefillMla(cache, m.prefill.block_table, m.prefill.query_lens,
                                  m.prefill.context_lens, m.prefill.max_seq_lens)

(* AscendMLAImpl.forward: decodes in front, prefills behind them. *)
MlaForward(cache, keys, m, ring) ==
  LET new == ReshapeAndCache(cache, keys, m.slot_mapping)
  IN  [cache |-> new,
       out |-> (IF m.num_decodes = 0 THEN <<>>
                ELSE PagedAttention(new, m.decode.block_table, m.decode.seq_lens))
               \o (IF m.num_prefills = 0 THEN <<>>
                   ELSE MlaForwardPrefill(new, From(keys, m.num_decode_tokens), m, ring))]
-----------------------------------------------------------------------------
(* torchair_mla.py *)

InGraph(state) == state \in {"DecodeOnly", "SpecDecoding"}

(* The end of build: decodes are padded to the size of their graph, with   *)
(* requests of decode_token_per_req tokens; the last entry of              *)
(* actual_seq_lengths_q is set to that size, whosever entry it is.         *)
PadDecodes(m, per_req, graph_pad_size) ==
  LET num_reqs  == Len(m.query_lens)
      padded    == InGraph(m.attn_state) /\ graph_pad_size > 0
      token_pad == IF padded THEN graph_pad_size - m.num_decode_tokens ELSE 0
      req_pad   == IF padded THEN graph_pad_size \div per_req - num_reqs ELSE 0
      lengths_q == m.decode.actual_seq_lengths_q \o [k \in 1 .. req_pad |-> (num_reqs + k) * per_req]
  IN  [m EXCEPT !.slot_mapping       = @ \o Pads(token_pad, -1),
                !.decode.seq_lens    = @ \o Pads(req_pad, 0),
                !.decode.block_table = @ \o Pads(req_pad, NullRow),
                !.decode.actual_seq_lengths_q =
                   IF m.attn_state = "SpecDecoding"
                   THEN Front(lengths_q) \o <<m.num_decode_tokens + token_pad>> ELSE lengths_q]

(* A graph with fewer requests than the batch: torch.zeros is called with  *)
(* a negative num_reqs_pad_size and raises.                                *)
GraphTooSmall(m, per_req, graph_pad_size) ==
  InGraph(m.attn_state) /\ graph_pad_size > 0 /\ graph_pad_size \div per_req < Len(m.query_lens)

(* AscendMLATorchairMetadataBuilder.build; <<>> if it raises.              *)
TorchairMlaBuild(b, inp, cfg, per_req, graph_pad_size) ==
  LET s == SplitDecodesAndPrefills(QueryLens(inp), IF InGraph(inp.attn_state) THEN per_req ELSE 1)
      m == MlaMetadata(b, inp, QueryLens(inp), s, cfg.chunked)
  IN  CASE s.num_decodes = 0 -> m
        [] s.num_decodes > 0 /\ GraphTooSmall(m, per_req, graph_pad_size) -> <<>>
        [] OTHER -> PadDecodes(m, per_req, graph_pad_size)

(* _forward_decode: npu_fused_infer_attention_score, or outside of graphs  *)
(* and of chunked prefills a paged attention that does the same.           *)
TorchairMlaDecode(cache, m) ==
  IF m.attn_state = "SpecDecoding"
  THEN CausalPaged(cache, m.decode.block_table,
                   Minus(m.decode.actual_seq_lengths_q, <<0>> \o m.decode.actual_seq_lengths_q),
                   m.decode.seq_lens)
  ELSE PagedAttention(cache, m.decode.block_table, m.decode.seq_lens)

(* The same as in mla_v1. *)
TorchairMlaForwardPrefill(cache, keys, m, ring) == MlaForwardPrefill(cache, keys, m, ring)

(* exec_kv caches the decodes' part in graphs and with chunked prefills,   *)
(* exec_kv_prefill the prefills' part.                                     *)
ExecKv(cache, keys, m) ==
  CASE m.num_decodes > 0 /\ InGraph(m.attn_state) -> ReshapeAndCache(cache, keys, m.slot_mapping)
    [] m.num_decodes > 0 /\ m.attn_state = "ChunkedPrefill" ->
         ReshapeAndCache(cache, keys, UpTo(m.slot_mapping, m.num_decode_tokens))
    [] OTHER -> cache

ExecKvPrefill(cache, keys, m) ==
  IF m.num_prefills = 0 THEN cache
  ELSE ReshapeAndCache(cache, From(keys, m.num_decode_tokens), From(m.slot_mapping, m.num_decode_tokens))

(* The end of AscendMLATorchairImpl.forward, with the cache filled ... *)
TorchairMlaOutput(cache, keys, m, ring) ==
  (IF m.num_decodes = 0 THEN <<>> ELSE TorchairMlaDecode(cache, m))
  \o (IF InGraph(m.attn_state) \/ m.num_prefills = 0 THEN <<>>
      ELSE TorchairMlaForwardPrefill(cache, From(keys, m.num_decode_tokens), m, ring))

(* ... and its beginning, which fills it. *)
TorchairMlaForward(cache, keys, m, ring) ==
  LET new == ExecKvPrefill(ExecKv(cache, keys, m), keys, m)
  IN  [cache |-> new, out |-> TorchairMlaOutput(new, keys, m, ring)]

-----------------------------------------------------------------------------
(* ms_split.py *)

(* The tokens and the sequences of the first micro-batch, <<0, 0>> if no   *)
(* cut between two requests is balanced.                                   *)
ComputeSplitSeqIndex(query_lens, state, num_tokens) ==
  LET cu    == CumSum(query_lens)
      total == Last(cu)
      i     == Min({j \in DOMAIN cu : cu[j] >= total \div 2})
      Balanced(tokens) == 10 * (tokens - total \div 2) < total /\ 10 * (total \div 2 - tokens) < total
  IN  CASE state = "DecodeOnly" -> <<num_tokens \div 2, num_tokens \div 2>>
        [] state # "DecodeOnly" /\ Balanced(cu[i]) -> <<cu[i], i>>
        [] state # "DecodeOnly" /\ ~Balanced(cu[i]) /\ Balanced(cu[i] - query_lens[i]) ->
             <<cu[i] - query_lens[i], i - 1>>
        [] OTHER -> <<0, 0>>

CanCut(index, query_lens) == index[1] # 0 /\ index[2] # 0 /\ index[2] # Len(query_lens)

(* _check_dbo_is_valid, for MLA and with VLLM_ASCEND_ENABLE_DBO. *)
CheckDboIsValid(query_lens, state, num_tokens) ==
  /\ ~InGraph(state)
  /\ CanCut(ComputeSplitSeqIndex(query_lens, state, num_tokens), query_lens)
  /\ num_tokens >= DboTokens

(* The prefills of the two parts of a cut behind seqs sequences. *)
SplitPrefill(p, seq_lens, first, seqs) ==
  << [query_lens |-> UpTo(p.query_lens, first), seq_lens |-> UpTo(seq_lens, seqs),
      context_lens |-> SubSeq(seq_lens, seqs - first + 1, seqs),
      max_seq_lens |-> Max(Range(SubSeq(seq_lens, seqs - first + 1, seqs))),
      block_table |-> UpTo(p.block_table, first), chunks |-> <<>>],
     [query_lens |-> From(p.query_lens, first), seq_lens |-> From(seq_lens, seqs),
      context_lens |-> From(seq_lens, seqs), max_seq_lens |-> Max(Range(From(seq_lens, seqs))),
      block_table |-> From(p.block_table, first), chunks |-> <<>>] >>

SplitDecode(d, seq_lens, seqs) ==
  << [seq_lens |-> UpTo(seq_lens, seqs), block_table |-> UpTo(d.block_table, seqs),
      actual_seq_lengths_q |-> <<>>],
     [seq_lens |-> From(seq_lens, seqs), block_table |-> From(d.block_table, seqs),
      actual_seq_lengths_q |-> <<>>] >>

(* model_input_split_v1_mla_attn.  A chunked prefill is not cut: without   *)
(* a mask, as MLA has it, the code's assertion fails.                      *)
SplitMetadata(m, index) ==
  LET tokens   == index[1]
      seqs     == index[2]
      prefills == Max({0, seqs - m.num_decodes})
      seq_lens == IF m.num_prefills > 0 THEN m.prefill.seq_lens ELSE m.decode.seq_lens
      p        == IF prefills > 0 THEN SplitPrefill(m.prefill, seq_lens, prefills, seqs)
                  ELSE << <<>>, m.prefill >>
      d        == IF prefills > 0 THEN <<m.decode, <<>> >> ELSE SplitDecode(m.decode, seq_lens, seqs)
      pre  == [m EXCEPT !.slot_mapping = UpTo(@, tokens), !.query_lens = UpTo(@, seqs),
                        !.num_decodes = Min({@, seqs}), !.num_decode_tokens = Min({@, tokens}),
                        !.num_prefills = Min({@, prefills}), !.prefill = p[1], !.decode = d[1]]
      post == [m EXCEPT !.slot_mapping = From(@, tokens), !.query_lens = From(@, seqs),
                        !.num_decodes = Max({@ - seqs, 0}), !.num_decode_tokens = Max({@ - tokens, 0}),
                        !.num_prefills = Max({@ - prefills, 0}), !.prefill = p[2], !.decode = d[2]]
  IN  <<pre, post>>

(* The two micro-batches through the same layer. *)
SplitForward(cache, keys, parts, tokens, ring) ==
  LET pre  == MlaForward(cache, UpTo(keys, tokens), parts[1], ring)
      post == MlaForward(pre.cache, From(keys, tokens), parts[2], ring)
  IN  [cache |-> post.cache, out |-> pre.out \o post.out]
=============================================================================
