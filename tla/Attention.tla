----------------------------- MODULE Attention -----------------------------
(***************************************************************************)
(* The attention backends without MLA: masks, the metadata their builders  *)
(* make of a batch, and what every token attends to by the kernels they    *)
(* call.                                                                   *)
(*                                                                         *)
(* The key and value of a token are <<i, p>>, for position p of request i. *)
(* The KV cache has one for every slot that was written; the output for a  *)
(* token is the sequence of those it attends to.                           *)
(***************************************************************************)
EXTENDS ModelInputs

CONSTANT MaskLen  \* PAGED_ATTENTION_MASK_LEN, below max_model_len or not

(* The keys and values of a batch's tokens, and the cache before the step. *)
KeysOf(b, inp) ==
  LET req == RepeatEach(ARange(Len(b)), Of(b, "sched"))
  IN  Listed([k \in DOMAIN req |-> <<req[k] + 1, inp.positions[k]>>])

CacheBefore(b) ==
  LET slot == [x \in UNION {{<<i, p>> : p \in 0 .. b[i].computed - 1} : i \in DOMAIN b} |->
                 Get(b[x[1]].blocks, x[2] \div BlockSize) * BlockSize + (x[2] % BlockSize)]
  IN  Table([s \in Range(slot) |-> CHOOSE x \in DOMAIN slot : slot[x] = s])

-----------------------------------------------------------------------------
(* Kernels.  A cache is a function on slots. *)

(* _npu_reshape_and_cache; the slot -1 takes nothing. *)
ReshapeAndCache(cache, keys, slots) ==
  Table([s \in {slots[k] : k \in DOMAIN slots} \ {-1} |->
           keys[CHOOSE k \in DOMAIN slots : slots[k] = s]]) @@ cache

(* Keys from to to - 1 of the sequence in a row of the block table. *)
Page(cache, row, from, to) ==
  Listed([c \in 1 .. Max({0, to - from}) |->
    LET p == from + c - 1  slot == Get(row, p \div BlockSize) * BlockSize + (p % BlockSize)
    IN  IF slot \in DOMAIN cache THEN cache[slot] ELSE <<>>])

(* The rows of each request, whose queries have these lengths. *)
EachRow(lens, Out(_, _)) ==
  FlattenSeq([i \in DOMAIN lens |-> [a \in 1 .. lens[i] |-> Out(i, a - 1)]])

Visible(keys, mask) == Take(keys, SelectSeq([c \in DOMAIN keys |-> c], LAMBDA c : c - 1 \in mask))

(* _npu_flash_attention: sequences of the batch itself, under a mask.      *)
FlashAttention(keys, mask, lens) ==
  LET cu == CumSum(lens)
  IN  EachRow(lens, LAMBDA i, a : Visible(SubSeq(keys, cu[i] - lens[i] + 1, cu[i]), Get(mask, a)))

(* _npu_paged_attention, npu_incre_flash_attention and npu_fused_infer_    *)
(* attention_score without mask: a row per sequence.                       *)
PagedAttention(cache, table, lens) ==
  Listed([i \in DOMAIN lens |-> Page(cache, table[i], 0, lens[i])])

(* _npu_flash_attention_qlens, and npu_fused_infer_attention_score with    *)
(* sparse_mode 3: the last queries of each sequence, each up to itself.    *)
CausalPaged(cache, table, query_lens, lens) ==
  EachRow(query_lens, LAMBDA i, a : Page(cache, table[i], 0, lens[i] - query_lens[i] + a + 1))

(* _npu_paged_attention_splitfuse: with a row of the mask for each query.  *)
PagedAttentionSplitfuse(cache, table, mask, query_lens, lens) ==
  LET cu == CumSum(query_lens)
  IN  EachRow(query_lens, LAMBDA i, a :
        Visible(Page(cache, table[i], 0, lens[i]), Get(mask, cu[i] - query_lens[i] + a)))

-----------------------------------------------------------------------------
(* attention_mask.py: the columns each row of a mask lets through. *)

GenerateAttnMask(n) == Listed([r \in 1 .. n |-> 0 .. r - 1])

(* Rows of the cached mask, by position, or a mask made for the batch if   *)
(* the cached one is too small.                                            *)
GetSplitfuseAttnMask(seq_lens, query_lens, positions) ==
  IF Max(Range(seq_lens)) <= MaskLen
  THEN IndexSelect(GenerateAttnMask(Max(Range(seq_lens))), positions)
  ELSE EachRow(query_lens, LAMBDA i, a :
         LET context == seq_lens[i] - query_lens[i]
         IN  0 .. context - 1 \cup {context + c : c \in 0 .. a})

(* _make_attention_mask; <<>> is None.  The kernel of PrefillCacheHit      *)
(* takes a compressed mask of fixed size.                                  *)
MakeAttentionMask(inp, query_lens, use_mla) ==
  CASE inp.attn_state = "ChunkedPrefill" /\ ~use_mla ->
         GetSplitfuseAttnMask(inp.seq_lens, query_lens, inp.positions)
    [] inp.attn_state = "PrefillNoCache" -> GenerateAttnMask(Max(Range(inp.seq_lens)))
    [] inp.attn_state = "PrefillCacheHit" -> <<"compressed">>
    [] OTHER -> <<>>

-----------------------------------------------------------------------------
(* attention_v1.py *)

(* AscendAttentionMetadataBuilder.build. *)
BuildMetadata(b, inp) ==
  [attn_state   |-> inp.attn_state,
   attn_mask    |-> MakeAttentionMask(inp, Of(b, "sched"), FALSE),
   block_tables |-> Of(b, "blocks"),
   query_lens   |-> Minus(Tail(inp.query_start_loc), Front(inp.query_start_loc)),
   seq_lens     |-> inp.seq_lens,
   slot_mapping |-> inp.slot_mapping]

(* The forwards of each state. *)
ForwardPrefillNoCache(keys, m)   == FlashAttention(keys, m.attn_mask, m.seq_lens)
ForwardPrefillCacheHit(cache, m) == CausalPaged(cache, m.block_tables, m.query_lens, m.seq_lens)
ForwardDecodeOnly(cache, m)      == PagedAttention(cache, m.block_tables, m.seq_lens)
ForwardV1Style(cache, m) ==
  PagedAttentionSplitfuse(cache, m.block_tables, m.attn_mask, m.query_lens, m.seq_lens)

(* AscendAttentionBackendImpl.forward *)
AttentionV1(cache, keys, m) ==
  LET new == ReshapeAndCache(cache, keys, m.slot_mapping)
  IN  [cache |-> new,
       out   |-> CASE m.attn_state = "PrefillNoCache"  -> ForwardPrefillNoCache(keys, m)
                   [] m.attn_state = "PrefillCacheHit" -> ForwardPrefillCacheHit(new, m)
                   [] m.attn_state = "DecodeOnly"      -> ForwardDecodeOnly(new, m)
                   [] OTHER                            -> ForwardV1Style(new, m)]

-----------------------------------------------------------------------------
(* torchair_attention.py: a decode is padded to the size of its graph.     *)

Pads(n, value) == [k \in 1 .. n |-> value]
NullRow == [k \in 1 .. MaxBlocks |-> 0]

TorchairBuild(b, inp, graph_pad_size) ==
  LET m   == BuildMetadata(b, inp)
      pad == IF graph_pad_size > 0 THEN graph_pad_size - Len(m.slot_mapping) ELSE 0
  IN  IF inp.attn_state # "DecodeOnly" THEN m
      ELSE [m EXCEPT !.seq_lens     = @ \o Pads(pad, 1),
                     !.slot_mapping = @ \o Pads(pad, -1),
                     !.block_tables = @ \o Pads(pad, NullRow)]

(* AscendAttentionTorchairBackendImpl.forward; it has no way for chunked   *)
(* prefills and, since it never sets its key_cache, none for cache hits.   *)
TorchairSupports(state) == state \in {"PrefillNoCache", "DecodeOnly"}

TorchairAttention(cache, keys, m) ==
  LET new == ReshapeAndCache(cache, keys, m.slot_mapping)
  IN  [cache |-> new,
       out   |-> IF m.attn_state = "PrefillNoCache"
                 THEN FlashAttention(keys, m.attn_mask, m.seq_lens)
                 ELSE PagedAttention(new, m.block_tables, m.seq_lens)]

-----------------------------------------------------------------------------
(* Every token of a batch attends to its own request's tokens from         *)
(* first[i] up to the one short[i] before itself, to each of them once,    *)
(* and to nothing else; its own key and value are cached for the steps to  *)
(* come, except for the requests in uncached, for which the slot still     *)
(* holds what it did.  Rows behind the batch's are padding.                *)
Attends(b, keys, result, first, short, uncached) ==
  \A k \in DOMAIN keys :
    LET i    == keys[k][1]
        own  == IF i \in uncached THEN <<>> ELSE keys[k]
        seen == {IF p = keys[k][2] THEN own ELSE <<i, p>> : p \in first[i] .. keys[k][2] - short[i]}
    IN  /\ Range(result.out[k]) = seen /\ Len(result.out[k]) = Cardinality(seen)
        /\ Page(result.cache, b[i].blocks, keys[k][2], keys[k][2] + 1) = <<own>>

(* ... to all of its request's tokens up to itself. *)
AttendsExactly(b, keys, result) ==
  Attends(b, keys, result, [i \in DOMAIN b |-> 0], [i \in DOMAIN b |-> 0], {})
=============================================================================
