----------------------------- MODULE PunicaLoRA -----------------------------
(***************************************************************************)
(* PunicaWrapperNPU and its kernels: the deltas of the LoRA adapters on    *)
(* the projections and embeddings of a batch.  An adapter is the index of its weights, -1 *)
(* is none.  A number is named by where it comes from: a product of x and  *)
(* LoRA A by the places of x and of the weights it sums, one of that and   *)
(* LoRA B by the row of products and the first place in B's weights.       *)
(* Weights lie behind each other in memory, adapter by adapter.            *)
(***************************************************************************)
EXTENDS ModelInputs, SortedLists

CONSTANTS
  LoraRank,    \* maxLoRARank_
  InTile,      \* TILE_LENGTH of the shrink kernels
  OutTile,     \* Y_OUT_TILE_NUM_ELEMENTS
  WeightTile,  \* W_IN_TILE_NUM_ELEMENTS
  Repeat       \* NUM_ELEMENTS_PER_REPEAT

ASSUME LoraAssumption ==
  /\ {LoraRank, InTile, OutTile, WeightTile, Repeat} \subseteq Nat \ {0}
  /\ Repeat % LoraRank = 0 /\ WeightTile % Repeat = 0
  /\ OutTile % (WeightTile \div LoraRank) = 0

(* make_lora_inputs: the adapter of each token.  lora is that of each      *)
(* request.                                                                *)
MakeLoraInputs(b, lora) == RepeatEach(lora, Of(b, "sched"))

(* compute_meta: runs of tokens with one adapter. *)
ComputeMeta(indices) ==
  LET start == Ascending({i \in DOMAIN indices : i = 1 \/ indices[i] # indices[i - 1]})
      end(k) == IF k = Len(start) THEN Len(indices) + 1 ELSE start[k + 1]
  IN  [lora_indices |-> Take(indices, start),
       seq_len      |-> Listed([k \in DOMAIN start |-> end(k) - start[k]]),
       no_lora      |-> Len(start) = 1 /\ indices[1] = -1]

-----------------------------------------------------------------------------
(* The kernels. *)

(* The cores whose loop comes to token idx, of n tokens. *)
Cores(n, aiv_num, idx) ==
  LET per == (n + aiv_num - 1) \div aiv_num
  IN  {c \in 0 .. ((n + per - 1) \div per) - 1 : c * per <= idx /\ idx < Min({c * per + per, n})}

(* CopyInIndex of the bgmv kernels, and of the sgmv kernels: the first run *)
(* that idx does not lie behind.  The loop of the latter ends at GetSize() *)
(* of a buffer that was given no size; here it ends with the last run,     *)
(* which assumes that GetSize() is no less.  If it is more the result is   *)
(* the same, since every token lies in a run.                              *)
BgmvIndex(indices, idx) == Get(indices, idx)

(* A variant that takes the end of a run into it. *)
SgmvIndex_End(meta, idx) ==
  LET end   == CumSum(meta.seq_len)
      holds == {i \in DOMAIN end : idx <= end[i]}
  IN  IF holds = {} THEN -1 ELSE meta.lora_indices[Min(holds)]

SgmvIndex(meta, idx) ==
  LET end   == CumSum(meta.seq_len)
      holds == {i \in DOMAIN end : idx < end[i]}
  IN  IF holds = {} THEN -1 ELSE meta.lora_indices[Min(holds)]

(* What the kernels' loops find for the n tokens of a batch. *)
BgmvIndices(n, indices) == Listed([tok \in 1 .. n |-> BgmvIndex(indices, tok - 1)])
SgmvIndices(n, meta)    == Listed([tok \in 1 .. n |-> SgmvIndex(meta, tok - 1)])

(* ProcessImpl of the shrink kernels: every row of A is summed tile by     *)
(* tile, the last one shorter.                                             *)
ShrinkRow(tok, adapter, in) ==
  LET tiles   == in \div InTile
      Tile(r, j, n) == [c \in 1 .. n |->
         LET col == j * InTile + c - 1
         IN  <<tok, col, adapter * in * LoraRank + (r - 1) * in + col>>]
      acc(r)  == FlattenSeq([j \in 1 .. tiles |-> Tile(r, j - 1, InTile)])
                   \o Tile(r, tiles, in % InTile)
  IN  Listed([r \in 1 .. LoraRank |-> acc(r)])

(* Process of the shrink kernels: without an adapter the row of the        *)
(* buffer stays zero.                                                      *)
Shrink(index, in, aiv_num) ==
  Listed([tok \in DOMAIN index |->
     IF index[tok] < 0 \/ Cores(Len(index), aiv_num, tok - 1) = {} THEN <<>>
     ELSE ShrinkRow(tok, index[tok], in)])

BgmvShrink(n, indices, in, aiv_num) == Shrink(BgmvIndices(n, indices), in, aiv_num)
SgmvShrink(n, meta, in, aiv_num)    == Shrink(SgmvIndices(n, meta), in, aiv_num)

(* Process, Compute and ComputeLastIteration of the expand kernels: where  *)
(* the weights of column p of a slice begin; -1 if no step computes it.    *)
ExpandWeight(adapter, hidden, p) ==
  LET per   == WeightTile \div LoraRank
      in    == OutTile \div per
      last  == (hidden % OutTile) * LoraRank
      computed == \/ p \div OutTile < hidden \div OutTile
                  \/ p % OutTile < (last \div WeightTile) * per
                       + ((last % WeightTile) \div Repeat) * (Repeat \div LoraRank)
  IN  IF ~computed THEN -1
      ELSE adapter * LoraRank * hidden
             + ((p \div OutTile) * in + (p % OutTile) \div per) * WeightTile + (p % per) * LoraRank

(* y += x @ B on the columns of a slice, once for each core. *)
Expand(y, x, index, offset, hidden, aiv_num) ==
  Listed([tok \in DOMAIN y |->
     IF index[tok] < 0 THEN y[tok]
     ELSE Listed([k \in DOMAIN y[tok] |->
            IF k <= offset \/ k > offset + hidden THEN y[tok][k]
            ELSE y[tok][k] \o [c \in 1 .. Cardinality(Cores(Len(y), aiv_num, tok - 1)) |->
                    <<x[tok], ExpandWeight(index[tok], hidden, k - 1 - offset)>>]])])

BgmvExpand(y, x, indices, offset, hidden, aiv_num) ==
  Expand(y, x, BgmvIndices(Len(y), indices), offset, hidden, aiv_num)
SgmvExpand(y, x, meta, offset, hidden, aiv_num) ==
  Expand(y, x, SgmvIndices(Len(y), meta), offset, hidden, aiv_num)

-----------------------------------------------------------------------------
(* The wrapper.  meta is what compute_meta gives for the indices.          *)

(* _apply_shrink into a buffer of zeros, and _apply_expand: a prefill in   *)
(* which no token has an adapter returns at once.                          *)
ApplyShrink(indices, meta, is_prefill, in, aiv_num) ==
  IF ~is_prefill THEN BgmvShrink(Len(indices), indices, in, aiv_num)
  ELSE IF meta.no_lora THEN [tok \in DOMAIN indices |-> <<>>]
       ELSE SgmvShrink(Len(indices), meta, in, aiv_num)

ApplyExpand(y, x, indices, meta, is_prefill, offset, hidden, aiv_num) ==
  IF ~is_prefill THEN BgmvExpand(y, x, indices, offset, hidden, aiv_num)
  ELSE IF meta.no_lora THEN y ELSE SgmvExpand(y, x, meta, offset, hidden, aiv_num)

(* add_shrink: one buffer for each slice. *)
AddShrink(indices, meta, is_prefill, slices, in, aiv_num) ==
  Listed([s \in DOMAIN slices |-> ApplyShrink(indices, meta, is_prefill, in, aiv_num)])

(* add_expand, without a bias. *)
AddExpand(y, buffer, indices, meta, is_prefill, slices, aiv_num) ==
  LET end == CumSum(slices)
      after[s \in 0 .. Len(slices)] ==
        IF s = 0 THEN y
        ELSE ApplyExpand(after[s - 1], buffer[s], indices, meta, is_prefill,
                         end[s] - slices[s], slices[s], aiv_num)
  IN  after[Len(slices)]

AddLoraLinear(y, indices, meta, is_prefill, slices, in, aiv_num) ==
  AddExpand(y, AddShrink(indices, meta, is_prefill, slices, in, aiv_num), indices, meta,
            is_prefill, slices, aiv_num)

(* add_lora_embedding: x has been looked up in LoRA A. *)
AddLoraEmbedding(y, x, indices, meta, is_prefill, hidden, aiv_num) ==
  ApplyExpand(y, x, indices, meta, is_prefill, 0, hidden, aiv_num)

-----------------------------------------------------------------------------
(* What a token should get in column p of a slice. *)
LoraProduct(tok, adapter, in) ==
  [r \in 1 .. LoraRank |-> [c \in 1 .. in |->
     <<tok, c - 1, adapter * in * LoraRank + (r - 1) * in + c - 1>>]]

WithDelta(x, adapter, slices) ==
  FlattenSeq([s \in DOMAIN slices |-> [k \in 1 .. slices[s] |->
     <<"base">> \o IF adapter < 0 THEN <<>>
                   ELSE << <<x, (adapter * slices[s] + k - 1) * LoraRank>> >>]])
=============================================================================
