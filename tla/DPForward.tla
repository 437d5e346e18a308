------------------------------ MODULE DPForward ------------------------------
(***************************************************************************)
(* One forward step of the ranks of a data-parallel group.  A rank with    *)
(* scheduled tokens runs execute_model; a rank without them runs a dummy   *)
(* batch, because the step is a chain of collective operations in which    *)
(* every rank of the group has to take part:                               *)
(*   pad         get_dp_padding, unless the model runs eagerly             *)
(*   meta        _get_forward_metadata_across_dp                           *)
(*   forward     the expert-parallel exchange inside the model             *)
(*   draft_meta  the drafter's own metadata exchange (not with TorchAir)   *)
(*   draft       the drafter's forward                                     *)
(* A collective completes when all ranks have called it.                   *)
(***************************************************************************)
EXTENDS Naturals, FiniteSetsExt, SequencesExt

CONSTANTS
  DPSize,         \* data_parallel_size
  Modes,          \* the graph modes to consider
  Drafters,       \* whether an MTP drafter is configured: subset of BOOLEAN
  MaxTokens,      \* bound on the tokens a rank may be given in a step
  CaptureSizes,   \* cudagraph_capture_sizes
  TorchairSizes,  \* torchair_graph_batch_sizes
  EPSize,         \* size of the expert-parallel group
  TPSize,         \* size of the tensor-parallel group
  Producers       \* whether the engine is a KV producer: subset of BOOLEAN

DP == 0 .. DPSize - 1

ASSUME DPAssumption ==
  /\ {DPSize, MaxTokens, EPSize, TPSize} \subseteq Nat \ {0}
  /\ DPSize > 1
  /\ Modes \subseteq {"eager", "aclgraph", "torchair"}
  /\ Drafters \subseteq BOOLEAN
  /\ Producers \subseteq BOOLEAN
  /\ \A s \in CaptureSizes \cup TorchairSizes : s \in Nat \ {0}
  /\ CaptureSizes # {} /\ IsFiniteSet(CaptureSizes) /\ IsFiniteSet(TorchairSizes)
  /\ \A n \in 1 .. MaxTokens : \E s \in TorchairSizes : n <= s

VARIABLES
  mode,      \* graph mode, fixed
  mtp,       \* an MTP drafter is used, fixed
  producer,  \* is_kv_producer, fixed
  pc,        \* the collective rank r is waiting in, or "idle"
  batch,     \* rank r's batch: tokens, with_prefill, dummy
  inputs,    \* num_input_tokens of _prepare_inputs
  context    \* the forward context of rank r

dpVars == <<mode, mtp, producer, pc, batch, inputs, context>>

NoBatch   == [n |-> 0, prefill |-> FALSE, dummy |-> TRUE]
NoContext == [num_tokens |-> 0, across |-> [r \in DP |-> 0], with_prefill |-> FALSE]

CeilDiv(a, b) == (a + b - 1) \div b

-----------------------------------------------------------------------------
(* pad_for_cudagraph, for at most the largest captured size. *)
PadForGraph(n) ==
  IF n <= Max(CaptureSizes) THEN Min({s \in CaptureSizes : n <= s}) ELSE n

(* select_torchair_padded_batch_size *)
SelectTorchairPaddedBatchSize(n) == Min({s \in TorchairSizes : n <= s})

(* _get_fused_moe_state, without the switches for AllGatherEP and          *)
(* All2AllSeq.                                                             *)
FusedMoeState(with_prefill) ==
  IF EPSize = 1 THEN IF with_prefill THEN "NaiveMulticast" ELSE "AllGather"
  ELSE IF EPSize < 16 \/ with_prefill THEN "All2All" ELSE "MC2"

(* set_ascend_forward_context: what the layers see of the other ranks. *)
MaxTokensAcrossDP(c) == Max({c.across[r] : r \in DP})
PaddedNumTokens(c)   == CeilDiv(MaxTokensAcrossDP(c), TPSize) * TPSize

(* The result of the metadata all-reduce: everyone's tokens, and whether   *)
(* anyone has a prefill.                                                   *)
Metadata(n, prefill) ==
  [across |-> n, with_prefill |-> \E r \in DP : prefill[r]]

(* A variant of the override that pads to this rank's own batch. *)
PadMetadata_Own(r, m) ==
  IF mode = "torchair" /\ ~m.with_prefill
  THEN LET size == SelectTorchairPaddedBatchSize(m.across[r])
       IN  [num_tokens |-> size, across |-> [q \in DP |-> size], with_prefill |-> FALSE]
  ELSE [num_tokens |-> m.across[r], across |-> m.across, with_prefill |-> m.with_prefill]

(* _get_forward_metadata_across_dp_and_pad on rank r: as it is, or padded  *)
(* to a compiled batch size when TorchAir runs a decode-only step.         *)
PadMetadata(r, m) ==
  IF mode = "torchair" /\ ~m.with_prefill
  THEN LET size == SelectTorchairPaddedBatchSize(Max({m.across[q] : q \in DP}))
       IN  [num_tokens |-> size, across |-> [q \in DP |-> size], with_prefill |-> FALSE]
  ELSE [num_tokens |-> m.across[r], across |-> m.across, with_prefill |-> m.with_prefill]

-----------------------------------------------------------------------------
DPInit ==
  /\ mode \in Modes
  /\ mtp \in Drafters
  /\ producer \in Producers
  /\ pc = [r \in DP |-> "idle"]
  /\ batch = [r \in DP |-> NoBatch]
  /\ inputs = [r \in DP |-> 0]
  /\ context = [r \in DP |-> NoContext]

FirstCollective == IF mode = "eager" THEN "meta" ELSE "pad"

StartStep(r, b, num_input) ==
  /\ pc[r] = "idle"
  /\ batch' = [batch EXCEPT ![r] = b]
  /\ inputs' = [inputs EXCEPT ![r] = num_input]
  /\ pc' = [pc EXCEPT ![r] = FirstCollective]
  /\ context' = [context EXCEPT ![r] = NoContext]
  /\ UNCHANGED <<mode, mtp, producer>>

(* execute_model with n scheduled tokens: _prepare_inputs up to its first  *)
(* collective.                                                             *)
ExecuteModel(r, n, prefill) ==
  /\ n > 0
  /\ StartStep(r, [n |-> n, prefill |-> prefill, dummy |-> FALSE],
               IF mode = "aclgraph" THEN PadForGraph(n) ELSE n)

(* A variant of the dummy run that leaves out get_dp_padding, whose result *)
(* it does not use.                                                        *)
ExecuteDummyBatch_NoPad(r) ==
  /\ pc[r] = "idle"
  /\ batch' = [batch EXCEPT ![r] = [n |-> 1, prefill |-> FALSE, dummy |-> TRUE]]
  /\ inputs' = [inputs EXCEPT ![r] = 1]
  /\ pc' = [pc EXCEPT ![r] = "meta"]
  /\ context' = [context EXCEPT ![r] = NoContext]
  /\ UNCHANGED <<mode, mtp, producer>>

(* A step in which nothing is scheduled: execute_model returns at once,    *)
(* with or without kv_connector_no_forward, and the engine then calls      *)
(* execute_dummy_batch.                                                    *)
ExecuteDummyBatch(r) ==
  StartStep(r, [n |-> 1, prefill |-> FALSE, dummy |-> TRUE], 1)

AllWaitIn(c) == \A r \in DP : pc[r] = c

Proceed(c) == pc' = [r \in DP |-> c]

(* get_dp_padding: every rank learns the largest num_input_tokens.  The    *)
(* dummy run makes the call and leaves its num_tokens as it was.           *)
PadReduce ==
  /\ AllWaitIn("pad")
  /\ Proceed("meta")
  /\ inputs' = [r \in DP |-> IF batch[r].dummy THEN inputs[r]
                             ELSE Max({inputs[q] : q \in DP})]
  /\ UNCHANGED <<mode, mtp, producer, batch, context>>

(* _get_forward_metadata_across_dp_and_pad and the context made of it: an  *)
(* executing rank in ACL graph mode takes the sizes from get_dp_padding    *)
(* instead; a dummy run of a KV producer claims to prefill.                *)
MetaReduce ==
  LET m == Metadata([r \in DP |-> batch[r].n], [r \in DP |-> batch[r].prefill])
      c == [r \in DP |->
              IF mode = "aclgraph" /\ ~batch[r].dummy
              THEN [num_tokens |-> inputs[r], across |-> [q \in DP |-> inputs[r]],
                    with_prefill |-> m.with_prefill]
              ELSE PadMetadata(r, m)]
  IN  /\ AllWaitIn("meta")
      /\ Proceed("forward")
      /\ context' = [r \in DP |-> [c[r] EXCEPT !.with_prefill =
                                     @ \/ (batch[r].dummy /\ producer)]]
      /\ UNCHANGED <<mode, mtp, producer, batch, inputs>>

(* A variant whose dummy run leaves out the drafter's dummy run. *)
Forward_NoDummyDraft ==
  /\ AllWaitIn("forward")
  /\ pc' = [r \in DP |-> IF ~mtp \/ batch[r].dummy THEN "idle"
                         ELSE IF mode = "torchair" THEN "draft" ELSE "draft_meta"]
  /\ UNCHANGED <<mode, mtp, producer, batch, inputs, context>>

(* The model's forward; then the drafter, where there is one. *)
Forward ==
  /\ AllWaitIn("forward")
  /\ Proceed(IF ~mtp THEN "idle" ELSE IF mode = "torchair" THEN "draft" ELSE "draft_meta")
  /\ UNCHANGED <<mode, mtp, producer, batch, inputs, context>>

(* MtpProposer.propose and dummy_run: the all-reduce once more, over the   *)
(* tokens left after rejection (kept, between one and all of them).        *)
DraftMetaReduce ==
  /\ AllWaitIn("draft_meta")
  /\ Proceed("draft")
  /\ \E kept \in [DP -> 1 .. MaxTokens] :
       /\ \A r \in DP : kept[r] <= batch[r].n /\ (batch[r].prefill => kept[r] = batch[r].n)
       /\ LET m == Metadata(kept, [r \in DP |-> context[r].with_prefill])
          IN  context' = [r \in DP |-> PadMetadata(r, m)]
  /\ UNCHANGED <<mode, mtp, producer, batch, inputs>>

DraftForward ==
  /\ AllWaitIn("draft")
  /\ Proceed("idle")
  /\ UNCHANGED <<mode, mtp, producer, batch, inputs, context>>

Collective == PadReduce \/ MetaReduce \/ Forward \/ DraftMetaReduce \/ DraftForward

-----------------------------------------------------------------------------
(* get_dp_padding, _get_forward_metadata_across_dp, the drafter's dummy    *)
(* run: ranks are never in different collectives at once, where each would *)
(* wait for the other for ever.                                            *)
SameCollective ==
  \A r, q \in DP : pc[r] # "idle" /\ pc[q] # "idle" => pc[r] = pc[q]

(* Where a dummy run sees other numbers than the ranks that execute: in    *)
(* ACL graph mode it does not apply the padding it has taken part in, and  *)
(* a KV producer's dummy run claims to prefill whatever the others do.     *)
DummyDiverges ==
  \E r, q \in DP : batch[r].dummy /\ ~batch[q].dummy /\
    \/ mode = "aclgraph" /\ pc[r] = "forward"
    \/ producer /\ \A p \in DP : ~batch[p].prefill

(* set_ascend_forward_context: in the forward and in the drafter's forward *)
(* all ranks see the same token counts and choose the same MoE exchange,   *)
(* and a rank's own count is the number of tokens it feeds to the model,   *)
(* in every mode and with every mix of prefill, decode and dummy batches   *)
(* other than the two of DummyDiverges.                                    *)
ContextsAgree ==
  \A r, q \in DP : pc[r] \in {"forward", "draft"} => DummyDiverges \/
    /\ context[r].across = context[q].across
    /\ FusedMoeState(context[r].with_prefill) = FusedMoeState(context[q].with_prefill)
    /\ context[r].across[r] = context[r].num_tokens
    /\ PaddedNumTokens(context[r]) >= context[q].num_tokens
=============================================================================
