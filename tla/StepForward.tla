---------------------------- MODULE StepForward ----------------------------
(***************************************************************************)
(* A step of NPUModelRunner from its batch to the attention of every       *)
(* token, the embeddings and adapters, the sampled tokens and the          *)
(* drafter's inputs, for the modes and drafters of NPUWorker and every     *)
(* batch built of the given shapes of requests.                            *)
(***************************************************************************)
EXTENDS NPUWorker, SpecDecode, MLAAttention, PunicaLoRA, VocabParallel

CONSTANTS
  Shapes,   \* shapes of requests: computed, scheduled, draft and known tokens
  Triples,  \* the shapes that batches of three start and end with
  Slices,   \* output_slices of a projection
  InDims,   \* input widths
  CoreNums  \* vector cores of the device

ASSUME StepAssumption ==
  /\ Shapes \subseteq Nat \X (Nat \ {0}) \X Nat \X Nat
  /\ Triples \subseteq Shapes \X Shapes
  /\ Slices \in Seq(Nat \ {0}) /\ Len(Slices) > 1
  /\ InDims \subseteq Nat /\ CoreNums \subseteq Nat \ {0}

(* What the scheduler and the runner's limits let a shape be: drafts end a *)
(* request, behind at least one token that is none; nothing is scheduled   *)
(* behind what is known; a sampled token has its place in token_ids_cpu.   *)
ASSUME ShapesAssumption ==
  \A s \in Shapes :
    /\ s[3] < s[2]
    /\ s[1] + s[2] <= MaxModelLen /\ s[1] + s[2] <= s[4] + s[3]
    /\ s[3] > 0 => s[1] + s[2] = s[4] + s[3]
    /\ s[1] + s[2] >= s[4] => s[4] + s[3] < MaxModelLen

(* The i-th request of a batch.  Its tokens are all different, drafts are  *)
(* token 1; blocks of the requests of a batch are mixed.                   *)
Request(i, shape, greedy) ==
  [computed |-> shape[1], sched |-> shape[2], drafts |-> shape[3], total |-> shape[4],
   tokens |-> Listed([p \in 1 .. MaxModelLen |->
                 CASE p <= shape[4] -> 10 * i + p
                   [] p > shape[4] /\ p <= shape[4] + shape[3] -> 1
                   [] OTHER -> 0]),
   blocks |-> Listed([k \in 1 .. MaxBlocks |->
                 IF (k - 1) * BlockSize < shape[1] + shape[2] THEN 3 * k - i + 1 ELSE 0]),
   greedy |-> greedy]

ShapeSeqs == {<<s>> : s \in Shapes} \cup {<<s, u>> : s, u \in Shapes}
               \cup {<<f[1], s, f[2]>> : f \in Triples, s \in Shapes}

Batches(seqs, greedies) ==
  UNION {{Listed([i \in DOMAIN ss |-> Request(i, ss[i], g[i])]) : g \in [DOMAIN ss -> greedies]} : ss \in seqs}

(* What the target model may answer to a request. *)
Answers(r) == [1 .. r.drafts + 1 -> {1, 2}]

(* Configurations are looked at once, when every rank has loaded.          *)
Loaded == ~producer /\ \A r \in DP : life[r] = "profile" /\ todo[r] # <<>> /\ pc[r] = "idle"

Config(method) == [method |-> method, ascend_scheduler |-> TRUE, chunked |-> TRUE]

AllAnswers(b) == {h \in [DOMAIN b -> UNION {Answers(b[i]) : i \in DOMAIN b}] :
                    \A i \in DOMAIN b : h[i] \in Answers(b[i])}

(* The drafter's inputs follow what the target gave; the last row of a     *)
(* request is left out for all but the first request with EagleProposer,   *)
(* whose second token overwrites no KV in use.                             *)
DraftsExact(b, inp, new, p) ==
  /\ FollowsTarget(b, new, inp, p, IF mtp THEN DOMAIN b ELSE {1})
  /\ ~mtp => Range(SecondDraftSlots(b, p)) \cap LiveSlots(b, new) = {}

SampledExact(b, inp, t, valid) ==
  /\ valid = [i \in DOMAIN b |-> TargetTokens(b[i], t[i])]
  /\ DraftsExact(b, inp, CacheSampled(b, valid),
       IF mtp THEN MtpPropose(b, inp, valid, mode = "torchair") ELSE EaglePropose(b, inp, valid))

GrammarExact(b) ==
  \A order \in {<<1>>, <<Len(b)>>, Reverse([i \in DOMAIN b |-> i])} :
    ApplyGrammarBitmask(b, order) = GrammarRows(b, order)

BatchExact(b, inp) ==
  GrammarExact(b) /\ \A t \in AllAnswers(b) : SampledExact(b, inp, t, ValidSampledTokenIds(b, inp, t))

(* _calc_spec_decode_metadata, RejectionSampler, the bookkeeping of        *)
(* execute_model and both proposers, for batches that mix prefills, parts  *)
(* of prompts, decodes and up to two drafts, greedy and random requests:   *)
(* every request gets exactly the drafts that the target agrees with and   *)
(* one more token, a part of a prompt gets none; the drafter is fed the    *)
(* tokens that stay and what follows each of them; a row of the grammar    *)
(* bitmask meets the logits it was made for.                               *)
SpeculationExact ==
  Loaded => \A b \in Batches(ShapeSeqs, BOOLEAN) :
              BatchExact(b, PrepareInputs(b, Config(IF mtp THEN "mtp" ELSE "eagle3")))

-----------------------------------------------------------------------------
(* Configurations of the scheduler, and whether MLA reads its context in   *)
(* chunks with the ring kernel (chunked_prefill_for_mla), two switches     *)
(* that know nothing of each other.                                        *)
AttentionConfigs ==
  [method : {IF mtp THEN "mtp" ELSE "eagle3"}, ascend_scheduler : BOOLEAN, chunked : BOOLEAN, ring : BOOLEAN]

(* Paddings of n tokens to a graph: none if another rank has a prefill. *)
Paddings(n) == {-1} \cup n .. n + 3

V1Exact(b, inp, keys) == AttendsExactly(b, keys, AttentionV1(CacheBefore(b), keys, BuildMetadata(b, inp)))

Nowhere(b) == [i \in DOMAIN b |-> 0]

(* Where MLA falls short of attending exactly.                             *)

(* Outside of graphs the requests in front of the first with more than one *)
(* token are decodes, also when their token is a prompt's.                 *)
InFront(b) == {i \in DOMAIN b : \A j \in 1 .. i : b[j].sched = 1}

(* The ring path reads the context by the chunks of build, which makes     *)
(* none unless prefills are chunked: the queries of a prefill then see     *)
(* only the keys of the step itself.                                       *)
FirstSeen(b, state, cfg) ==
  [i \in DOMAIN b |->
     IF cfg.ring /\ ~cfg.chunked /\ state # "PrefillNoCache" /\ i \notin InFront(b) THEN b[i].computed ELSE 0]

(* exec_kv of torchair, which caches what counts as a decode, is called in *)
(* graphs and for chunked prefills only, not in the other batches of       *)
(* prompts.                                                                *)
NeverCached(b, state) ==
  IF state \in {"PrefillNoCache", "PrefillCacheHit"} THEN InFront(b) ELSE {}

(* In a torchair graph for drafts that has more tokens than the batch but  *)
(* no more requests, the rows behind the batch's become queries of its     *)
(* last request, and each of its own moves so many keys back.              *)
LastMovedBack(b, inp, per_req, pad) ==
  [i \in DOMAIN b |->
     IF inp.attn_state = "SpecDecoding" /\ pad > 0 /\ pad \div per_req = Len(b) /\ i = Len(b)
     THEN pad - Len(inp.positions) ELSE 0]

MlaExact(b, inp, keys, cfg, m) ==
  LET first == FirstSeen(b, inp.attn_state, cfg)
  IN  /\ Attends(b, keys, MlaForward(CacheBefore(b), keys, m, cfg.ring), first, Nowhere(b), {})
      /\ inp.attn_state \in {"PrefillNoCache", "PrefillCacheHit"}
           /\ CheckDboIsValid(m.query_lens, inp.attn_state, Len(keys)) =>
         \A index \in {ComputeSplitSeqIndex(m.query_lens, inp.attn_state, Len(keys))} :
           Attends(b, keys,
             SplitForward(CacheBefore(b), keys, SplitMetadata(m, index), index[1], cfg.ring),
             first, Nowhere(b), {})

TorchairExact(b, inp, keys, pad) ==
  TorchairSupports(inp.attn_state) =>
    AttendsExactly(b, keys, TorchairAttention(CacheBefore(b), keys, TorchairBuild(b, inp, pad)))

(* A batch that needs more requests than its graph has is not run at all.  *)
TorchairMlaExact(b, inp, keys, cfg, per_req, pad) ==
  LET m == TorchairMlaBuild(b, inp, cfg, per_req, pad)
  IN  IF m = <<>> THEN pad \div per_req < Len(b)
      ELSE Attends(b, keys, TorchairMlaForward(CacheBefore(b), keys, m, cfg.ring),
             IF InGraph(inp.attn_state) THEN Nowhere(b) ELSE FirstSeen(b, inp.attn_state, cfg),
             LastMovedBack(b, inp, per_req, pad), NeverCached(b, inp.attn_state))

EagerAttention(b, r, cfg) ==
  /\ ~mtp => \A inp \in {PrepareInputs(b, cfg)} : V1Exact(b, inp, KeysOf(b, inp))
  /\ \A inp \in {PrepareInputs(r, cfg)} : MlaExact(r, inp, KeysOf(r, inp), cfg, MlaBuild(r, inp, cfg))

TorchairAttentions(b, r, cfg) ==
  /\ ~mtp => \A inp \in {PrepareInputs(b, cfg)} :
       \A pad \in Paddings(Len(inp.positions)) : TorchairExact(b, inp, KeysOf(b, inp), pad)
  /\ \A inp \in {PrepareInputs(r, cfg)} :
       \A pad \in Paddings(Len(inp.positions)) :
         TorchairMlaExact(r, inp, KeysOf(r, inp), cfg, IF mtp THEN 2 ELSE 1, pad)

(* _prepare_inputs, reorder_batch, the metadata builders with their masks, *)
(* chunks of context, paddings and micro-batches, and the forwards of the  *)
(* four attention backends, for batches that mix prefills, parts of        *)
(* prompts, decodes and drafts: every token attends to exactly its own     *)
(* request's tokens up to itself and leaves its own KV in the cache,       *)
(* except in the three cases of FirstSeen, NeverCached and LastMovedBack;  *)
(* in these it misses just the keys they name, no more, and still sees     *)
(* none of another request.                                                *)
AttentionExact ==
  Loaded => \A b \in Batches(ShapeSeqs, {TRUE}), cfg \in AttentionConfigs :
    (mtp => \A i \in DOMAIN b : b[i].drafts <= 1)
    => IF mode = "torchair" THEN TorchairAttentions(b, ReorderBatch(b, TRUE), cfg)
       ELSE EagerAttention(b, ReorderBatch(b, FALSE), cfg)

-----------------------------------------------------------------------------
BaseRows(n, width) == Listed([t \in 1 .. n |-> [k \in 1 .. width |-> <<"base">>]])

(* The projections and embeddings of a batch whose tokens have the given   *)
(* adapters.                                                               *)
AdaptersExact(indices, meta, in, cores) ==
  \A is_prefill \in BOOLEAN :
    /\ AddLoraLinear(BaseRows(Len(indices), Last(CumSum(Slices))), indices, meta, is_prefill,
                     Slices, in, cores)
         = [t \in DOMAIN indices |-> WithDelta(LoraProduct(t, indices[t], in), indices[t], Slices)]
    /\ AddLoraEmbedding(BaseRows(Len(indices), Slices[2]), ARange(Len(indices)), indices, meta,
                        is_prefill, Slices[2], cores)
         = [t \in DOMAIN indices |-> WithDelta(t - 1, indices[t], <<Slices[2]>>)]

(* vocab_parallel_embedding_forward, PunicaWrapperNPU and its kernels, for *)
(* batches that mix adapters and requests without one, any number of cores *)
(* and widths that do not fill a tile: every token is embedded by one rank *)
(* from the place of its own id, and every column of its projection and of *)
(* its embedding gets the delta of its own request's adapter once, from    *)
(* all of its input and the weights of that column.                        *)
RowsGetOwnWeights ==
  Loaded /\ mode = "eager" /\ ~mtp =>
    /\ \A id \in 0 .. OrgVocab + AddedVocab - 1 :
         \E r \in 0 .. TPSize - 1 : EmbeddingForward(id, TPSize) = {<<r, id>>}
    /\ \A b \in Batches(ShapeSeqs, {TRUE}), in \in InDims, cores \in CoreNums :
         \A lora \in [DOMAIN b -> {-1, 0, 1}] : \A indices \in {MakeLoraInputs(b, lora)} :
           AdaptersExact(indices, ComputeMeta(indices), in, cores)
=============================================================================
