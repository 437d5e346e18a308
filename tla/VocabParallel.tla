---------------------------- MODULE VocabParallel ----------------------------
(***************************************************************************)
(* The embedding of tokens whose vocabulary is split over the              *)
(* tensor-parallel ranks: a rank holds a part of the model's own           *)
(* vocabulary, padding, and a part of the vocabulary that adapters add.    *)
(***************************************************************************)
EXTENDS Integers, FiniteSets, FiniteSetsExt

CONSTANTS
  OrgVocab,    \* org_vocab_size
  AddedVocab,  \* num_added_embeddings
  VocabShard,  \* places of a rank for the model's own vocabulary
  AddedShard   \* and for the added one

ASSUME VocabAssumption == {OrgVocab, AddedVocab, VocabShard, AddedShard} \subseteq Nat

(* VocabParallelEmbedding._get_indices *)
ShardIndices(r) ==
  [org_vocab_start_index   |-> Min({r * VocabShard, OrgVocab}),
   org_vocab_end_index     |-> Min({(r + 1) * VocabShard, OrgVocab}),
   added_vocab_start_index |-> OrgVocab + Min({r * AddedShard, AddedVocab}),
   added_vocab_end_index   |-> OrgVocab + Min({(r + 1) * AddedShard, AddedVocab})]

NumOrgVocabPadding(s) == VocabShard - (s.org_vocab_end_index - s.org_vocab_start_index)

(* The token whose embedding rank r has at a place, or -1 for padding. *)
Stored(r, place) ==
  LET s == ShardIndices(r)
  IN  IF place < VocabShard
      THEN IF place < s.org_vocab_end_index - s.org_vocab_start_index
           THEN s.org_vocab_start_index + place ELSE -1
      ELSE s.added_vocab_start_index + place - VocabShard

(* get_masked_input_and_mask *)
GetMaskedInputAndMask(input, s) ==
  LET org    == s.org_vocab_start_index <= input /\ input < s.org_vocab_end_index
      added  == s.added_vocab_start_index <= input /\ input < s.added_vocab_end_index
      shift  == s.added_vocab_start_index - (s.org_vocab_end_index - s.org_vocab_start_index)
                  - NumOrgVocabPadding(s)
      none   == s.added_vocab_start_index = s.added_vocab_end_index
      offset == IF org THEN s.org_vocab_start_index ELSE IF added /\ ~none THEN shift ELSE 0
      valid  == org \/ (added /\ ~none)
  IN  [input |-> IF valid THEN input - offset ELSE 0, mask |-> ~valid]

(* vocab_parallel_embedding_forward, reduced over tp ranks: the embeddings *)
(* that are added up, each with its rank.                                  *)
EmbeddingForward(input, tp) ==
  IF tp = 1 THEN {<<0, Stored(0, input)>>}
  ELSE {<<r, Stored(r, GetMaskedInputAndMask(input, ShardIndices(r)).input)>> :
          r \in {q \in 0 .. tp - 1 : ~GetMaskedInputAndMask(input, ShardIndices(q)).mask}}
=============================================================================
