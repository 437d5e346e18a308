----------------------------- MODULE ModelInputs -----------------------------
(***************************************************************************)
(* What NPUModelRunner makes of the persistent batch before a forward: the *)
(* flat inputs of all requests, the attention state, the rows whose logits *)
(* are sampled, and the rows of the grammar bitmask.                       *)
(*                                                                         *)
(* A batch is a sequence of requests, each a record                        *)
(*   computed  num_computed_tokens                                         *)
(*   sched     num_scheduled_tokens, of which the last                     *)
(*   drafts    are draft tokens                                            *)
(*   total     num_tokens of the request, without drafts                   *)
(*   tokens    its row of token_ids_cpu, max_model_len long                *)
(*   blocks    its row of the block table                                  *)
(*   greedy    whether its temperature is zero                             *)
(***************************************************************************)
EXTENDS Tensors

CONSTANTS
  BlockSize,    \* block_size
  MaxModelLen   \* max_model_len

ASSUME InputsAssumption == {BlockSize, MaxModelLen} \subseteq Nat \ {0}

MaxBlocks == (MaxModelLen + BlockSize - 1) \div BlockSize

Of(b, field) == Listed([i \in DOMAIN b |-> b[i][field]])

(* _get_cumsum_and_arange, and the same steps inlined elsewhere. *)
CumsumAndArange(nums) ==
  LET cu == CumSum(nums)
  IN  [cu |-> cu, arange |-> Minus(ARange(Last(cu)), RepeatEach(Minus(cu, nums), nums))]

(* A variant with one row of the table for all requests. *)
SlotOf_NoRow(flat, row, position) ==
  Get(flat, position \div BlockSize) * BlockSize + (position % BlockSize)

(* A slot of the KV cache, from a flat block table. *)
SlotOf(flat, row, position) ==
  Get(flat, row * MaxBlocks + position \div BlockSize) * BlockSize + (position % BlockSize)

(* _build_attn_state.  cfg has the drafter's method, whether the Ascend    *)
(* scheduler is enabled and whether prefills are chunked.                  *)
BuildAttnState(b, cfg) ==
  IF \A i \in DOMAIN b : b[i].computed = 0 THEN "PrefillNoCache"
  ELSE IF \A i \in DOMAIN b : b[i].sched = 1
       THEN IF cfg.method = "mtp" THEN "SpecDecoding" ELSE "DecodeOnly"
  ELSE IF \A i \in DOMAIN b : b[i].sched - b[i].drafts = 1
       THEN IF cfg.method = "eagle3" THEN "ChunkedPrefill" ELSE "SpecDecoding"
  ELSE IF ~cfg.ascend_scheduler \/ cfg.chunked THEN "ChunkedPrefill" ELSE "PrefillCacheHit"

(* _prepare_inputs, without the data-parallel part (DPForward) and without *)
(* what multi-modal models and pipeline stages add.                        *)
PrepareInputs(b, cfg) ==
  LET num == Of(b, "sched")
      ca  == CumsumAndArange(num)
      req == RepeatEach(ARange(Len(b)), num)
      pos == Plus(IndexSelect(Of(b, "computed"), req), ca.arange)
  IN  [positions |-> pos,
       slot_mapping |-> Listed([k \in DOMAIN pos |->
                           SlotOf(FlattenSeq(Of(b, "blocks")), req[k], pos[k])]),
       input_ids |-> IndexSelect(FlattenSeq(Of(b, "tokens")),
                       Listed([k \in DOMAIN pos |-> pos[k] + req[k] * MaxModelLen])),
       query_start_loc |-> <<0>> \o ca.cu,
       seq_lens |-> Plus(Of(b, "computed"), num),
       attn_state |-> BuildAttnState(b, cfg)]

(* _calc_spec_decode_metadata *)
CalcSpecDecodeMetadata(num_draft, cu_scheduled, input_ids) ==
  LET num_sampled == Listed([i \in DOMAIN num_draft |-> num_draft[i] + 1])
      sampled     == CumsumAndArange(num_sampled)
      draft       == CumsumAndArange(num_draft)
      logits      == Plus(RepeatEach(Minus(cu_scheduled, num_sampled), num_sampled), sampled.arange)
      targets     == Plus(RepeatEach(Minus(sampled.cu, num_sampled), num_draft), draft.arange)
  IN  [num_draft_tokens |-> num_draft,
       cu_num_draft_tokens |-> draft.cu,
       logits_indices |-> logits,
       target_logits_indices |-> targets,
       bonus_logits_indices |-> Listed([i \in DOMAIN num_draft |-> sampled.cu[i] - 1]),
       draft_token_ids |-> LET ids == IndexSelect(input_ids, logits)
                           IN  Listed([k \in DOMAIN targets |-> Get(ids, targets[k] + 1)])]

UseSpecDecode(b) == \E i \in DOMAIN b : b[i].drafts > 0

(* The rows whose logits are computed. *)
LogitsIndices(b, inp) ==
  LET cu == Tail(inp.query_start_loc)
  IN  IF UseSpecDecode(b)
      THEN CalcSpecDecodeMetadata(Of(b, "drafts"), cu, inp.input_ids).logits_indices
      ELSE Listed([i \in DOMAIN cu |-> cu[i] - 1])

(* apply_grammar_bitmask.  order lists the requests with structured output *)
(* as the scheduler did when it compacted the bitmask, whose rows are      *)
(* <<request, place>>; a row of logits without one is left as it is.       *)
ApplyGrammarBitmask(b, order) ==
  LET drafts  == Of(b, "drafts")
      bitmask == FlattenSeq([k \in DOMAIN order |->
                    [j \in 1 .. drafts[order[k]] + 1 |-> <<order[k], j>>]])
      cu    == CumSum(drafts)
      taken == CumSum(Listed([k \in DOMAIN order |-> drafts[order[k]] + 1]))
      PutRows(x, k, i) ==
        Scatter(x, [j \in 1 .. drafts[i] + 1 |-> (i - 1) + (cu[i] - drafts[i]) + (j - 1)],
                   [j \in 1 .. drafts[i] + 1 |-> bitmask[taken[k] - (drafts[i] + 1) + j]])
      sorted[k \in 0 .. Len(order)] ==
        IF k = 0 THEN [r \in 1 .. Len(b) + Last(cu) |-> <<>>]
        ELSE PutRows(sorted[k - 1], k, order[k])
  IN  sorted[Len(order)]
=============================================================================
