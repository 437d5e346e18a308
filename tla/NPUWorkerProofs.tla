--------------------------- MODULE NPUWorkerProofs ---------------------------
(***************************************************************************)
(* Proofs about NPUWorker, for any number of ranks, any batch sizes and    *)
(* any addresses.                                                          *)
(***************************************************************************)
EXTENDS NPUWorker, RequestListsProofs

-----------------------------------------------------------------------------
(* The inductive invariant. *)

Batches  == [n : Nat, prefill : BOOLEAN, dummy : BOOLEAN]
Contexts == [num_tokens : Nat, across : [DP -> Nat], with_prefill : BOOLEAN]

(* A rank is in one of these only when all are. *)
Late == {"meta", "forward", "draft_meta", "draft"} \ {FirstCollective}

(* TorchAir has a graph for a batch of n tokens. *)
Fits(n) == \E s \in TorchairSizes : n <= s

StepType ==
  /\ mode \in Modes /\ mtp \in BOOLEAN /\ producer \in BOOLEAN
  /\ pc \in [DP -> {"idle", "pad", "meta", "forward", "draft_meta", "draft"}]
  /\ batch \in [DP -> Batches]
  /\ inputs \in [DP -> Nat]
  /\ context \in [DP -> Contexts]

(* Where the ranks are in the chain of collectives. *)
ChainInv ==
  /\ \A r, q \in DP : pc[r] \in Late => pc[q] = pc[r]
  /\ \A r \in DP : mode = "eager" => pc[r] # "pad"
  /\ \A r \in DP : pc[r] = "draft_meta" => mode # "torchair"

(* What the ranks have agreed on when they are there. *)
AgreeInv ==
  /\ mode = "torchair" => \A r \in DP : Fits(batch[r].n)
  /\ mode = "aclgraph" => \A r, q \in DP :
       pc[r] = "meta" /\ ~batch[r].dummy /\ ~batch[q].dummy => inputs[r] = inputs[q]
  /\ mode = "torchair" => \A r \in DP :
       pc[r] = "forward" /\ ~context[r].with_prefill => context[r].num_tokens \in TorchairSizes
  /\ ContextsAgree

StepInv == StepType /\ ChainInv /\ AgreeInv

(* The graphs of rank r are those of the sizes it is through with. *)
GraphSizes == IF mode = "torchair" THEN TorchairSizes ELSE CaptureSizes

GraphsOf(r) ==
  /\ life[r] = "warmup" /\ mode = "torchair"
       => TorchairSizes \subseteq graphs[r] \cup Elems(todo[r])
  /\ life[r] = "serving" /\ mode = "torchair" => TorchairSizes \subseteq graphs[r]
  /\ mode = "torchair" => \A n \in Elems(todo[r]) : Fits(n)

LifeInv ==
  /\ wave \in BOOLEAN
  /\ life \in [DP -> Lives]
  /\ todo \in [DP -> Seq(Nat)]
  /\ graphs \in [DP -> SUBSET Nat]
  /\ \A r \in DP : GraphsOf(r)

MemoryType ==
  /\ allocator \in [DP -> Allocators]
  /\ asleep \in [DP -> SUBSET PoolTags]
  /\ discarded \in [DP -> BOOLEAN]

(* The memory of rank r: every address under the tag of its pool, mapped   *)
(* unless the pool is asleep, and the weights in place or in their backup. *)
TagOf(p) == IF p \in WeightPtr THEN "weights" ELSE "kv_cache"

AddressesOf(r) ==
  IF ~SleepMode \/ life[r] = "init" THEN {}
  ELSE IF life[r] \in {"profile", "profiled"} THEN WeightPtr
  ELSE WeightPtr \cup KvPtr

Holds(d, p, slept, lost) ==
  /\ d.tag = TagOf(p)
  /\ d.mapped <=> TagOf(p) \notin slept
  /\ p \in WeightPtr /\ ~lost =>
       IF "weights" \in slept THEN d.backup = "weights" ELSE d.mem = "weights"

Sound(a, P, slept, lost) ==
  /\ ~a.misuse
  /\ DOMAIN a.ptrs = P
  /\ \A p \in P : Holds(a.ptrs[p], p, slept, lost)

MemoryOf(r) ==
  /\ Sound(allocator[r], AddressesOf(r), asleep[r], discarded[r])
  /\ asleep[r] # {} => life[r] = "serving"

MemoryInv == ~MayRunOut => \A r \in DP : MemoryOf(r)

IInv == StepInv /\ LifeInv /\ MemoryType /\ MemoryInv
-----------------------------------------------------------------------------
(* The numbers of a step. *)

(* The sizes that the parallel and the scheduler configuration set. *)
LEMMA Sizes ==
  /\ DPSize \in Nat /\ DPSize > 1 /\ TPSize \in Nat /\ TPSize > 0
  /\ MaxTokens \in Nat /\ MaxTokens > 0
  /\ Modes \subseteq {"eager", "aclgraph", "torchair"}
  /\ Drafters \subseteq BOOLEAN /\ Producers \subseteq BOOLEAN
  /\ CaptureSizes \in SUBSET Nat /\ TorchairSizes \in SUBSET Nat
  /\ CaptureSizes # {} /\ IsFiniteSet(CaptureSizes) /\ IsFiniteSet(TorchairSizes)
  /\ \A n \in 0 .. MaxTokens : Fits(n)
  /\ \A n \in TorchairSizes : Fits(n)
<1>1. /\ {DPSize, MaxTokens, EPSize, TPSize} \subseteq Nat \ {0} /\ DPSize > 1
      /\ Modes \subseteq {"eager", "aclgraph", "torchair"}
      /\ Drafters \subseteq BOOLEAN /\ Producers \subseteq BOOLEAN
      /\ \A s \in CaptureSizes \cup TorchairSizes : s \in Nat \ {0}
      /\ CaptureSizes # {} /\ IsFiniteSet(CaptureSizes) /\ IsFiniteSet(TorchairSizes)
      /\ \A n \in 1 .. MaxTokens : \E s \in TorchairSizes : n <= s
  BY DPAssumption
<1>2. DPSize \in Nat /\ TPSize \in Nat /\ TPSize > 0 /\ MaxTokens \in Nat /\ MaxTokens > 0
  BY <1>1
<1>3. \A s \in CaptureSizes : s \in Nat
  BY <1>1
<1>4. \A s \in TorchairSizes : s \in Nat
  BY <1>1
<1>5. \A n \in 0 .. MaxTokens : Fits(n)
  <2> SUFFICES ASSUME NEW n \in 0 .. MaxTokens PROVE \E s \in TorchairSizes : n <= s
    BY DEF Fits
  <2>1. CASE n \in 1 .. MaxTokens
    BY <2>1, <1>1
  <2>2. CASE n = 0
    <3>1. PICK s \in TorchairSizes : 1 <= s
      BY <1>1, <1>2
    <3>2. 0 <= s
      BY <3>1, <1>4
    <3> QED
      BY <2>2, <3>2
  <2> QED
    BY <2>1, <2>2, <1>2
<1>6. \A n \in TorchairSizes : Fits(n)
  BY <1>4 DEF Fits
<1> QED
  BY <1>1, <1>2, <1>3, <1>4, <1>5, <1>6

(* The ranks of the group. *)
LEMMA Ranks == IsFiniteSet(DP) /\ 0 \in DP
BY Sizes, FS_Interval DEF DP

(* The MAX all-reduce over the ranks. *)
LEMMA MaxOverRanks ==
  ASSUME NEW f \in [DP -> Nat]
  PROVE  /\ Max({f[q] : q \in DP}) \in Nat
         /\ \A q \in DP : f[q] <= Max({f[p] : p \in DP})
         /\ \E q \in DP : Max({f[p] : p \in DP}) = f[q]
<1> DEFINE S == {f[q] : q \in DP}
<1>1. f \in Surjection(DP, S)
  BY DEF Surjection
<1>2. IsFiniteSet(S)
  <2> HIDE DEF S
  <2> QED
    BY <1>1, Ranks, FS_Surjection
<1>3. S \in SUBSET Nat /\ S # {}
  BY Ranks
<1>4. Max(S) \in S /\ \A k \in S : Max(S) >= k
  <2> HIDE DEF S
  <2> QED
    BY <1>2, <1>3, MaxFacts
<1>5. PICK q \in DP : Max(S) = f[q]
  BY <1>4
<1>6. Max(S) \in Nat
  BY <1>5
<1>7. \A p \in DP : Max(S) >= f[p] /\ f[p] \in Nat
  BY <1>4
<1>8. \A p \in DP : f[p] <= Max(S)
  <2> HIDE DEF S
  <2> QED
    BY <1>6, <1>7
<1> QED
  BY <1>5, <1>6, <1>8

(* select_torchair_padded_batch_size finds a compiled size that is large   *)
(* enough.                                                                 *)
LEMMA SelectFacts ==
  ASSUME NEW n \in Nat, Fits(n)
  PROVE  /\ SelectTorchairPaddedBatchSize(n) \in TorchairSizes
         /\ SelectTorchairPaddedBatchSize(n) \in Nat
         /\ n <= SelectTorchairPaddedBatchSize(n)
<1> DEFINE S == {s \in TorchairSizes : n <= s}
<1>1. S \in SUBSET Nat /\ S # {}
  BY Sizes DEF Fits
<1>2. Min(S) \in S
  <2> HIDE DEF S
  <2> QED
    BY <1>1, MinFacts
<1> QED
  BY <1>2, Sizes DEF SelectTorchairPaddedBatchSize

(* pad_for_cudagraph returns a number of tokens. *)
LEMMA PadForGraphType ==
  ASSUME NEW n \in Nat
  PROVE  PadForGraph(n) \in Nat
<1> DEFINE S == {s \in CaptureSizes : n <= s}
<1>1. CASE n <= Max(CaptureSizes)
  <2>1. Max(CaptureSizes) \in CaptureSizes
    BY Sizes, MaxFacts
  <2>2. S \in SUBSET Nat /\ S # {}
    BY <1>1, <2>1, Sizes
  <2>3. Min(S) \in S
    <3> HIDE DEF S
    <3> QED
      BY <2>2, MinFacts
  <2>4. PadForGraph(n) = Min(S)
    BY <1>1 DEF PadForGraph
  <2> QED
    BY <2>2, <2>3, <2>4
<1>2. CASE ~(n <= Max(CaptureSizes))
  BY <1>2 DEF PadForGraph
<1> QED
  BY <1>1, <1>2

(* Padding to the tensor-parallel size leaves room for every rank's tokens. *)
LEMMA PaddedRoom ==
  ASSUME NEW c \in Contexts, NEW q \in DP
  PROVE  PaddedNumTokens(c) >= c.across[q]
<1>1. c.across \in [DP -> Nat]
  BY DEF Contexts
<1>2. MaxTokensAcrossDP(c) \in Nat /\ c.across[q] <= MaxTokensAcrossDP(c) /\ c.across[q] \in Nat
  BY <1>1, MaxOverRanks DEF MaxTokensAcrossDP
<1>3. \A m \in Nat : CeilDiv(m, TPSize) * TPSize \in Nat /\ CeilDiv(m, TPSize) * TPSize >= m
  BY Sizes DEF CeilDiv
<1>4. PaddedNumTokens(c) \in Nat /\ PaddedNumTokens(c) >= MaxTokensAcrossDP(c)
  BY <1>2, <1>3 DEF PaddedNumTokens
<1> QED
  BY <1>2, <1>4

(* The forward context is a record of the three. *)
LEMMA ContextFields ==
  ASSUME NEW k \in Nat, NEW a \in [DP -> Nat], NEW w \in BOOLEAN, NEW c,
         c = [num_tokens |-> k, across |-> a, with_prefill |-> w]
  PROVE  c \in Contexts /\ c.num_tokens = k /\ c.across = a /\ c.with_prefill = w
<1>1. c \in Contexts
  BY DEF Contexts
<1>2. c.num_tokens = k /\ c.across = a /\ c.with_prefill = w
  BY Zenon
<1> QED
  BY <1>1, <1>2

(* _get_forward_metadata_across_dp_and_pad: all ranks make the same        *)
(* context of the result of the all-reduce, up to their own count.         *)
LEMMA PadFacts ==
  ASSUME NEW n \in [DP -> Nat], NEW w \in BOOLEAN, NEW m, m = [across |-> n, with_prefill |-> w],
         mode = "torchair" => \A q \in DP : Fits(n[q]),
         NEW r \in DP
  PROVE  /\ PadMetadata(r, m) \in Contexts
         /\ PadMetadata(r, m).with_prefill = w
         /\ PadMetadata(r, m).num_tokens = PadMetadata(r, m).across[r]
         /\ \A q \in DP : PadMetadata(q, m).across = PadMetadata(r, m).across
         /\ mode = "torchair" /\ ~w => PadMetadata(r, m).num_tokens \in TorchairSizes
<1> DEFINE size == SelectTorchairPaddedBatchSize(Max({n[q] : q \in DP}))
<1>0. m.across = n /\ m.with_prefill = w
  OBVIOUS
<1>1. CASE mode = "torchair" /\ ~w
  <2>1. PICK q \in DP : Max({n[p] : p \in DP}) = n[q]
    BY MaxOverRanks
  <2>2. n[q] \in Nat /\ Fits(n[q])
    BY <1>1
  <2>3. size \in TorchairSizes /\ size \in Nat
    BY <2>1, <2>2, SelectFacts
  <2>4. \A p \in DP : PadMetadata(p, m) = [num_tokens |-> size, across |-> [t \in DP |-> size],
                                          with_prefill |-> FALSE]
    BY <1>0, <1>1 DEF PadMetadata
  <2> HIDE DEF size
  <2>5. w = FALSE
    BY <1>1
  <2> DEFINE a == [t \in DP |-> size]
  <2>6. a \in [DP -> Nat] /\ a[r] = size
    BY <2>3
  <2> HIDE DEF a
  <2>7. \A p \in DP : PadMetadata(p, m) = [num_tokens |-> size, across |-> a, with_prefill |-> w]
    BY <2>4, <2>5 DEF a
  <2>8. \A p \in DP : /\ PadMetadata(p, m) \in Contexts /\ PadMetadata(p, m).num_tokens = size
                      /\ PadMetadata(p, m).across = a /\ PadMetadata(p, m).with_prefill = w
    BY <2>3, <2>6, <2>7, ContextFields
  <2> QED
    BY <2>3, <2>6, <2>8
<1>2. CASE ~(mode = "torchair" /\ ~w)
  <2>1. \A p \in DP : PadMetadata(p, m) = [num_tokens |-> n[p], across |-> n, with_prefill |-> w]
    BY <1>0, <1>2 DEF PadMetadata
  <2>2. \A p \in DP : /\ PadMetadata(p, m) \in Contexts /\ PadMetadata(p, m).num_tokens = n[p]
                      /\ PadMetadata(p, m).across = n /\ PadMetadata(p, m).with_prefill = w
    <3> SUFFICES ASSUME NEW p \in DP
                 PROVE  /\ PadMetadata(p, m) \in Contexts /\ PadMetadata(p, m).num_tokens = n[p]
                        /\ PadMetadata(p, m).across = n /\ PadMetadata(p, m).with_prefill = w
      OBVIOUS
    <3>1. PICK k \in Nat : k = n[p]
      OBVIOUS
    <3>2. PICK c : c = PadMetadata(p, m)
      OBVIOUS
    <3>3. c = [num_tokens |-> k, across |-> n, with_prefill |-> w]
      BY <3>1, <3>2, <2>1
    <3>4. c \in Contexts /\ c.num_tokens = k /\ c.across = n /\ c.with_prefill = w
      BY <3>3, ContextFields
    <3> QED
      BY <3>1, <3>2, <3>4
  <2> QED
    BY <2>2, <1>2
<1> QED
  BY <1>1, <1>2
-----------------------------------------------------------------------------
(* A step of the group keeps StepInv. *)

(* Nothing of a step changes when its variables do not. *)
LEMMA StepFrame ==
  ASSUME StepInv, UNCHANGED dpVars
  PROVE  StepInv'
<1> USE DEF StepInv
<1>1. /\ mode' = mode /\ mtp' = mtp /\ producer' = producer /\ pc' = pc /\ batch' = batch
      /\ inputs' = inputs /\ context' = context
  BY DEF dpVars
<1>2. StepType' /\ ChainInv'
  BY <1>1 DEF StepType, ChainInv, Late, FirstCollective
<1>3. ContextsAgree' <=> ContextsAgree
  BY <1>1 DEF ContextsAgree, DummyDiverges, PaddedNumTokens, MaxTokensAcrossDP, FusedMoeState
<1> QED
  BY <1>1, <1>2, <1>3 DEF AgreeInv

(* A rank enters the chain: execute_model, execute_dummy_batch, the        *)
(* profiling run and the capture runs.                                     *)
LEMMA StartStepKeeps ==
  ASSUME StepInv, NEW r \in DP, NEW b \in Batches, NEW k \in Nat, StartStep(r, b, k),
         mode = "torchair" => Fits(b.n)
  PROVE  StepInv'
<1> USE DEF StepInv
<1>1. /\ pc[r] = "idle"
      /\ batch' = [batch EXCEPT ![r] = b]
      /\ inputs' = [inputs EXCEPT ![r] = k]
      /\ pc' = [pc EXCEPT ![r] = FirstCollective]
      /\ context' = [context EXCEPT ![r] = NoContext]
      /\ mode' = mode /\ mtp' = mtp /\ producer' = producer
  BY DEF StartStep
<1>2. FirstCollective \in {"pad", "meta"} /\ FirstCollective \notin Late /\ Late' = Late
  BY <1>1 DEF FirstCollective, Late
<1>3. \A q \in DP : pc[q] \notin Late
  <2>1. "idle" \notin Late
    BY DEF Late
  <2> QED
    BY <1>1, <2>1 DEF ChainInv
<1>4. /\ pc \in [DP -> {"idle", "pad", "meta", "forward", "draft_meta", "draft"}]
      /\ \A q \in DP : pc'[q] = IF q = r THEN FirstCollective ELSE pc[q]
      /\ \A q \in DP : batch'[q] = IF q = r THEN b ELSE batch[q]
  BY <1>1 DEF StepType
<1>5. \A q \in DP : pc'[q] \notin Late
  BY <1>2, <1>3, <1>4
<1>6. NoContext \in Contexts
  BY DEF NoContext, Contexts
<1>7. StepType'
  BY <1>1, <1>2, <1>6 DEF StepType
<1>8. ChainInv'
  <2>1. mode = "eager" => FirstCollective # "pad"
    BY DEF FirstCollective
  <2>2. \A q \in DP : mode = "eager" => pc'[q] # "pad"
    BY <2>1, <1>4 DEF ChainInv
  <2>3. \A q \in DP : pc'[q] = "draft_meta" => mode # "torchair"
    BY <1>2, <1>4 DEF ChainInv
  <2> QED
    BY <1>1, <1>2, <1>5, <2>2, <2>3 DEF ChainInv
<1>9. \A q \in DP : pc'[q] \notin {"forward", "draft"} /\ (mode = "aclgraph" => pc'[q] # "meta")
  BY <1>5 DEF Late, FirstCollective
<1>10. mode = "torchair" => \A q \in DP : Fits(batch'[q].n)
  BY <1>4 DEF AgreeInv
<1> QED
  BY <1>1, <1>7, <1>8, <1>9, <1>10 DEF AgreeInv, ContextsAgree

(* All ranks go on together. *)
LEMMA ProceedFacts ==
  ASSUME StepInv, NEW c \in {"idle", "meta", "forward", "draft_meta", "draft"}, Proceed(c),
         UNCHANGED <<mode, mtp, producer>>,
         c = "draft_meta" => mode # "torchair"
  PROVE  /\ ChainInv' /\ \A r \in DP : pc'[r] = c
         /\ pc' \in [DP -> {"idle", "pad", "meta", "forward", "draft_meta", "draft"}]
<1>1. pc' = [r \in DP |-> c]
  BY DEF Proceed
<1>2. \A r \in DP : pc'[r] = c
  BY <1>1
<1>3. c # "pad"
  OBVIOUS
<1> QED
  BY <1>1, <1>2, <1>3 DEF ChainInv

(* get_dp_padding *)
LEMMA PadReduceKeeps ==
  ASSUME StepInv, PadReduce
  PROVE  StepInv'
<1> USE DEF StepInv
<1>1. /\ AllWaitIn("pad") /\ Proceed("meta")
      /\ inputs' = [r \in DP |-> IF batch[r].dummy THEN inputs[r]
                                 ELSE Max({inputs[q] : q \in DP})]
      /\ mode' = mode /\ mtp' = mtp /\ producer' = producer /\ batch' = batch /\ context' = context
  BY DEF PadReduce
<1>2. ChainInv' /\ \A r \in DP : pc'[r] = "meta"
  BY <1>1, ProceedFacts
<1>3. pc' \in [DP -> {"idle", "pad", "meta", "forward", "draft_meta", "draft"}]
  BY <1>1, ProceedFacts
<1>4. Max({inputs[q] : q \in DP}) \in Nat
  BY MaxOverRanks DEF StepType
<1>5. PICK top \in Nat : top = Max({inputs[q] : q \in DP})
  BY <1>4
<1>6. inputs' = [r \in DP |-> IF batch[r].dummy THEN inputs[r] ELSE top]
  BY <1>1, <1>5
<1>7. inputs' \in [DP -> Nat]
  BY <1>6 DEF StepType
<1>8. StepType'
  BY <1>1, <1>3, <1>7 DEF StepType
<1>9. \A r \in DP : ~batch'[r].dummy => inputs'[r] = top
  BY <1>1, <1>6
<1>10. \A r \in DP : pc'[r] \notin {"forward", "draft"}
  BY <1>2
<1> QED
  BY <1>1, <1>2, <1>8, <1>9, <1>10 DEF AgreeInv, ContextsAgree

(* The model's forward, and the drafter's. *)
LEMMA ForwardKeeps ==
  ASSUME StepInv, Forward \/ DraftForward
  PROVE  StepInv'
<1> USE DEF StepInv
<1>1. PICK c \in {"idle", "draft_meta", "draft"} :
        /\ Proceed(c) /\ (c = "draft_meta" => mode # "torchair")
        /\ c = "draft" => AllWaitIn("forward") /\ mode = "torchair"
        /\ mode' = mode /\ mtp' = mtp /\ producer' = producer /\ batch' = batch
        /\ context' = context /\ inputs' = inputs
  <2>1. CASE Forward
    BY <2>1 DEF Forward
  <2>2. CASE DraftForward
    BY <2>2 DEF DraftForward
  <2> QED
    BY <2>1, <2>2
<1>2. ChainInv' /\ \A r \in DP : pc'[r] = c
  BY <1>1, ProceedFacts
<1>3. pc' \in [DP -> {"idle", "pad", "meta", "forward", "draft_meta", "draft"}]
  BY <1>1, ProceedFacts
<1>4. StepType'
  BY <1>1, <1>3 DEF StepType
<1>5. ContextsAgree'
  <2> SUFFICES ASSUME NEW r \in DP, NEW q \in DP, pc'[r] \in {"forward", "draft"}, ~DummyDiverges'
               PROVE  /\ context[r].across = context[q].across
                      /\ FusedMoeState(context[r].with_prefill) = FusedMoeState(context[q].with_prefill)
                      /\ context[r].across[r] = context[r].num_tokens
                      /\ PaddedNumTokens(context[r]) >= context[q].num_tokens
    BY <1>1 DEF ContextsAgree, PaddedNumTokens, MaxTokensAcrossDP, FusedMoeState
  <2>1. c = "draft"
    BY <1>2
  <2>2. (\A p \in DP : pc[p] = "forward") /\ mode = "torchair"
    BY <1>1, <2>1 DEF AllWaitIn
  <2>3. ~DummyDiverges
    BY <1>1, <2>2 DEF DummyDiverges
  <2> QED
    BY <2>2, <2>3 DEF AgreeInv, ContextsAgree
<1> QED
  BY <1>1, <1>2, <1>4, <1>5 DEF AgreeInv

(* Contexts with the same counts, each rank's own among them, agree. *)
LEMMA AgreeFacts ==
  ASSUME NEW c \in Contexts, NEW d \in Contexts, NEW r \in DP, NEW q \in DP,
         c.across = d.across, c.num_tokens = c.across[r], d.num_tokens = d.across[q]
  PROVE  /\ c.across[r] = c.num_tokens
         /\ PaddedNumTokens(c) >= d.num_tokens
BY PaddedRoom

(* _get_forward_metadata_across_dp_and_pad and set_ascend_forward_context. *)
LEMMA MetaReduceKeeps ==
  ASSUME StepInv, MetaReduce
  PROVE  StepInv'
<1> USE DEF StepInv
<1> DEFINE n == [r \in DP |-> batch[r].n]
           pre == [r \in DP |-> batch[r].prefill]
           m == Metadata(n, pre)
           C(r) == IF mode = "aclgraph" /\ ~batch[r].dummy
                   THEN [num_tokens |-> inputs[r], across |-> [q \in DP |-> inputs[r]],
                         with_prefill |-> m.with_prefill]
                   ELSE PadMetadata(r, m)
<1>1. /\ AllWaitIn("meta") /\ Proceed("forward")
      /\ \A r \in DP : context'[r] = [C(r) EXCEPT !.with_prefill =
                                        @ \/ (batch[r].dummy /\ producer)]
      /\ context' = [r \in DP |-> context'[r]]
      /\ mode' = mode /\ mtp' = mtp /\ producer' = producer /\ batch' = batch /\ inputs' = inputs
  BY DEF MetaReduce
<1>2. ChainInv' /\ \A r \in DP : pc'[r] = "forward"
  BY <1>1, ProceedFacts
<1>3. pc' \in [DP -> {"idle", "pad", "meta", "forward", "draft_meta", "draft"}]
  BY <1>1, ProceedFacts
<1>4. PICK w \in BOOLEAN : w <=> \E r \in DP : batch[r].prefill
  OBVIOUS
<1>5. n \in [DP -> Nat] /\ m = [across |-> n, with_prefill |-> w]
  <2>1. \A r \in DP : batch[r].n \in Nat
    BY DEF StepType, Batches
  <2>2. (\E r \in DP : pre[r]) <=> w
    BY <1>4
  <2>3. (\E r \in DP : pre[r]) = w
    BY <2>2
  <2>4. m = [across |-> n, with_prefill |-> \E r \in DP : pre[r]]
    BY DEF Metadata
  <2> HIDE DEF m, pre
  <2> QED
    BY <2>1, <2>3, <2>4
<1>6. mode = "torchair" => \A q \in DP : Fits(n[q])
  BY DEF AgreeInv
<1> HIDE DEF n, m
<1>7. \A r \in DP : /\ PadMetadata(r, m) \in Contexts
                    /\ PadMetadata(r, m).with_prefill = w
                    /\ PadMetadata(r, m).num_tokens = PadMetadata(r, m).across[r]
                    /\ \A q \in DP : PadMetadata(q, m).across = PadMetadata(r, m).across
                    /\ mode = "torchair" /\ ~w => PadMetadata(r, m).num_tokens \in TorchairSizes
  BY <1>5, <1>6, PadFacts
<1>8. m.with_prefill = w
  BY <1>5
<1>9. \A r \in DP : inputs[r] \in Nat
  BY DEF StepType
<1>10. ASSUME NEW r \in DP, mode = "aclgraph" /\ ~batch[r].dummy
       PROVE  /\ C(r) \in Contexts /\ C(r).with_prefill = w
              /\ C(r).across = [q \in DP |-> inputs[r]] /\ C(r).num_tokens = inputs[r]
  <2> DEFINE a == [q \in DP |-> inputs[r]]
  <2>1. a \in [DP -> Nat]
    BY <1>9
  <2>2. C(r) = [num_tokens |-> inputs[r], across |-> a, with_prefill |-> w]
    BY <1>8, <1>10
  <2> HIDE DEF a, C
  <2>3. PICK k \in Nat : k = inputs[r]
    BY <1>9
  <2>c. PICK c : c = C(r)
    OBVIOUS
  <2>4. c = [num_tokens |-> k, across |-> a, with_prefill |-> w]
    BY <2>2, <2>3, <2>c
  <2>5. c \in Contexts /\ c.num_tokens = k /\ c.across = a /\ c.with_prefill = w
    BY <2>1, <2>4, ContextFields
  <2> QED
    BY <2>3, <2>c, <2>5 DEF a
<1>11. ASSUME NEW r \in DP, ~(mode = "aclgraph" /\ ~batch[r].dummy)
       PROVE  C(r) = PadMetadata(r, m)
  BY <1>11
<1>12. ASSUME NEW r \in DP
       PROVE  /\ C(r) \in Contexts /\ C(r).with_prefill = w /\ C(r).num_tokens = C(r).across[r]
              /\ mode = "torchair" /\ ~w => C(r).num_tokens \in TorchairSizes
  <2>1. CASE mode = "aclgraph" /\ ~batch[r].dummy
    <3> HIDE DEF C
    <3> QED
      BY <2>1, <1>10
  <2>2. CASE ~(mode = "aclgraph" /\ ~batch[r].dummy)
    <3>1. C(r) = PadMetadata(r, m)
      BY <2>2, <1>11
    <3> HIDE DEF C
    <3> QED
      BY <3>1, <1>7
  <2> QED
    BY <2>1, <2>2
<1> HIDE DEF C
<1>13. ASSUME NEW r \in DP
       PROVE  /\ context'[r] \in Contexts
              /\ context'[r].across = C(r).across /\ context'[r].num_tokens = C(r).num_tokens
              /\ context'[r].with_prefill <=> w \/ (batch[r].dummy /\ producer)
  <2>1. PICK x \in BOOLEAN : x <=> w \/ (batch[r].dummy /\ producer)
    OBVIOUS
  <2>2. PICK c \in Contexts : c = C(r) /\ c.with_prefill = w
    BY <1>12
  <2>3. c = [num_tokens |-> c.num_tokens, across |-> c.across, with_prefill |-> w]
    BY <2>2 DEF Contexts
  <2>4. context'[r] = [c EXCEPT !.with_prefill = w \/ (batch[r].dummy /\ producer)]
    BY <1>1, <2>2
  <2>5. (w \/ (batch[r].dummy /\ producer)) = x
    BY <2>1
  <2>6. context'[r] = [num_tokens |-> c.num_tokens, across |-> c.across, with_prefill |-> x]
    BY <2>3, <2>4, <2>5
  <2>7. c.num_tokens \in Nat /\ c.across \in [DP -> Nat]
    BY DEF Contexts
  <2>8. PICK k \in Nat, a \in [DP -> Nat] : k = c.num_tokens /\ a = c.across
    BY <2>7
  <2>d. PICK d : d = context'[r]
    OBVIOUS
  <2>9. d = [num_tokens |-> k, across |-> a, with_prefill |-> x]
    BY <2>6, <2>8, <2>d
  <2>10. d \in Contexts /\ d.num_tokens = k /\ d.across = a /\ d.with_prefill = x
    BY <2>9, ContextFields
  <2> QED
    BY <2>1, <2>2, <2>8, <2>d, <2>10
<1>14. StepType'
  <2>1. context' \in [DP -> Contexts]
    BY <1>1, <1>13
  <2> QED
    BY <1>1, <1>3, <2>1 DEF StepType
<1>15. ContextsAgree'
  <2> SUFFICES ASSUME NEW r \in DP, NEW q \in DP, ~DummyDiverges'
               PROVE  /\ context'[r].across = context'[q].across
                      /\ FusedMoeState(context'[r].with_prefill)
                           = FusedMoeState(context'[q].with_prefill)
                      /\ context'[r].across[r] = context'[r].num_tokens
                      /\ PaddedNumTokens(context'[r]) >= context'[q].num_tokens
    BY DEF ContextsAgree, PaddedNumTokens, MaxTokensAcrossDP, FusedMoeState
  <2>1. \A s, t \in DP : batch[s].dummy /\ ~batch[t].dummy =>
          mode # "aclgraph" /\ (producer => \E p \in DP : batch[p].prefill)
    BY <1>1, <1>2 DEF DummyDiverges
  <2>2. C(r).across = C(q).across
    <3>1. CASE mode = "aclgraph" /\ ~batch[r].dummy
      <4>1. ~batch[q].dummy
        BY <2>1, <3>1
      <4>2. inputs[r] = inputs[q]
        BY <4>1, <3>1, <1>1 DEF AgreeInv, AllWaitIn
      <4> QED
        BY <3>1, <4>1, <4>2, <1>10
    <3>2. CASE ~(mode = "aclgraph" /\ ~batch[r].dummy)
      <4>1. ~(mode = "aclgraph" /\ ~batch[q].dummy)
        BY <2>1, <3>2
      <4> QED
        BY <3>2, <4>1, <1>7, <1>11
    <3> QED
      BY <3>1, <3>2
  <2>3. context'[r].across = context'[q].across
    BY <2>2, <1>13
  <2>4. context'[r].with_prefill <=> context'[q].with_prefill
    BY <2>1, <1>4, <1>13
  <2>5. FusedMoeState(context'[r].with_prefill) = FusedMoeState(context'[q].with_prefill)
    BY <2>4 DEF FusedMoeState
  <2>6. /\ context'[r] \in Contexts /\ context'[q] \in Contexts
        /\ context'[r].num_tokens = context'[r].across[r]
        /\ context'[q].num_tokens = context'[q].across[q]
    BY <1>12, <1>13
  <2>7. /\ context'[r].across[r] = context'[r].num_tokens
        /\ PaddedNumTokens(context'[r]) >= context'[q].num_tokens
    <3>1. PICK c \in Contexts, d \in Contexts : c = context'[r] /\ d = context'[q]
      BY <2>6
    <3>2. c.across = d.across /\ c.num_tokens = c.across[r] /\ d.num_tokens = d.across[q]
      BY <3>1, <2>3, <2>6
    <3>3. c.across[r] = c.num_tokens /\ PaddedNumTokens(c) >= d.num_tokens
      BY <3>2, AgreeFacts
    <3> QED
      BY <3>1, <3>3
  <2> QED
    BY <2>3, <2>5, <2>7
<1>16. mode = "torchair" => \A r \in DP :
         ~context'[r].with_prefill => context'[r].num_tokens \in TorchairSizes
  BY <1>12, <1>13
<1> QED
  BY <1>1, <1>2, <1>14, <1>15, <1>16 DEF AgreeInv

(* The drafter's all-reduce, over the tokens left after rejection. *)
LEMMA DraftMetaReduceKeeps ==
  ASSUME StepInv, DraftMetaReduce
  PROVE  StepInv'
<1> USE DEF StepInv
<1> DEFINE pre == [r \in DP |-> context[r].with_prefill]
<1>1. PICK kept \in [DP -> 1 .. MaxTokens] :
        context' = [r \in DP |-> PadMetadata(r, Metadata(kept, pre))]
  BY DEF DraftMetaReduce
<1>2. /\ AllWaitIn("draft_meta") /\ Proceed("draft")
      /\ mode' = mode /\ mtp' = mtp /\ producer' = producer /\ batch' = batch /\ inputs' = inputs
  BY DEF DraftMetaReduce
<1>3. ChainInv' /\ \A r \in DP : pc'[r] = "draft"
  BY <1>2, ProceedFacts
<1>4. pc' \in [DP -> {"idle", "pad", "meta", "forward", "draft_meta", "draft"}]
  BY <1>2, ProceedFacts
<1>5. mode # "torchair"
  BY <1>2, Ranks DEF AllWaitIn, ChainInv
<1>6. PICK w \in BOOLEAN : w <=> \E r \in DP : context[r].with_prefill
  OBVIOUS
<1>7. PICK m : m = Metadata(kept, pre)
  OBVIOUS
<1>8. kept \in [DP -> Nat] /\ m = [across |-> kept, with_prefill |-> w]
  <2>1. (\E r \in DP : pre[r]) <=> w
    BY <1>6
  <2>2. (\E r \in DP : pre[r]) = w
    BY <2>1
  <2>3. m = [across |-> kept, with_prefill |-> \E r \in DP : pre[r]]
    BY <1>7 DEF Metadata
  <2>4. kept \in [DP -> Nat]
    BY Sizes
  <2> HIDE DEF pre
  <2> QED
    BY <2>2, <2>3, <2>4
<1>9. \A r \in DP : /\ PadMetadata(r, m) \in Contexts
                    /\ PadMetadata(r, m).with_prefill = w
                    /\ PadMetadata(r, m).num_tokens = PadMetadata(r, m).across[r]
                    /\ \A q \in DP : PadMetadata(q, m).across = PadMetadata(r, m).across
  BY <1>5, <1>8, PadFacts
<1>10. \A r \in DP : context'[r] = PadMetadata(r, m)
  BY <1>1, <1>7
<1>11. StepType'
  <2>1. context' \in [DP -> Contexts]
    BY <1>1, <1>7, <1>9
  <2> QED
    BY <1>2, <1>4, <2>1 DEF StepType
<1>12. ContextsAgree'
  <2> SUFFICES ASSUME NEW r \in DP, NEW q \in DP
               PROVE  /\ context'[r].across = context'[q].across
                      /\ FusedMoeState(context'[r].with_prefill)
                           = FusedMoeState(context'[q].with_prefill)
                      /\ context'[r].across[r] = context'[r].num_tokens
                      /\ PaddedNumTokens(context'[r]) >= context'[q].num_tokens
    BY DEF ContextsAgree, PaddedNumTokens, MaxTokensAcrossDP, FusedMoeState
  <2>1. PICK c \in Contexts, d \in Contexts : c = context'[r] /\ d = context'[q]
    BY <1>9, <1>10
  <2>2. /\ c.across = d.across /\ c.num_tokens = c.across[r] /\ d.num_tokens = d.across[q]
        /\ c.with_prefill = d.with_prefill
    BY <2>1, <1>9, <1>10
  <2>3. c.across[r] = c.num_tokens /\ PaddedNumTokens(c) >= d.num_tokens
    BY <2>2, AgreeFacts
  <2> QED
    BY <2>1, <2>2, <2>3
<1> QED
  BY <1>2, <1>3, <1>5, <1>11, <1>12 DEF AgreeInv

(* Every collective of the chain keeps the invariant of a step. *)
LEMMA CollectiveKeeps ==
  ASSUME StepInv, Collective
  PROVE  StepInv'
BY PadReduceKeeps, MetaReduceKeeps, ForwardKeeps, DraftMetaReduceKeeps DEF Collective

-----------------------------------------------------------------------------
(* Start-up. *)

(* reversed(...) keeps the elements of a list. *)
LEMMA ReverseElems ==
  ASSUME NEW S, NEW s \in Seq(S)
  PROVE  Reverse(s) \in Seq(S) /\ Elems(Reverse(s)) = Elems(s)
<1>1. Len(s) \in Nat /\ \A i \in 1 .. Len(s) : s[i] \in S
  BY ElemAt
<1>2. \A i \in 1 .. Len(s) : /\ (Len(s) - i) + 1 \in 1 .. Len(s)
                             /\ (Len(s) - ((Len(s) - i) + 1)) + 1 = i
  BY <1>1
<1>3. Reverse(s) = [i \in 1 .. Len(s) |-> s[(Len(s) - i) + 1]]
  BY DEF Reverse
<1>4. Reverse(s) \in Seq(S) /\ Len(Reverse(s)) = Len(s)
  BY <1>1, <1>2, <1>3
<1>5. \A i \in 1 .. Len(s) : Reverse(s)[i] = s[(Len(s) - i) + 1]
  BY <1>3
<1>6. \A x \in Elems(s) : x \in Elems(Reverse(s))
  <2> SUFFICES ASSUME NEW i \in 1 .. Len(s) PROVE s[i] \in Elems(Reverse(s))
    BY DEF Elems
  <2>1. (Len(s) - i) + 1 \in 1 .. Len(s) /\ Reverse(s)[(Len(s) - i) + 1] = s[i]
    BY <1>2, <1>5
  <2> QED
    BY <2>1, <1>4 DEF Elems
<1>7. \A x \in Elems(Reverse(s)) : x \in Elems(s)
  <2> SUFFICES ASSUME NEW i \in 1 .. Len(s) PROVE Reverse(s)[i] \in Elems(s)
    BY <1>4 DEF Elems
  <2> QED
    BY <1>2, <1>5 DEF Elems
<1> QED
  BY <1>4, <1>6, <1>7

(* The sizes that _capture_model goes through are those of the             *)
(* configuration.                                                          *)
LEMMA CaptureListFacts ==
  /\ CaptureList \in Seq(Nat)
  /\ mode = "torchair" => Elems(CaptureList) = TorchairSizes
<1>1. CASE mode = "eager"
  BY <1>1, EmptySeq DEF CaptureList
<1>2. CASE mode # "eager"
  <2>1. CaptureList = Reverse(Ascending(GraphSizes))
    BY <1>2 DEF CaptureList, GraphSizes
  <2>2. GraphSizes \in SUBSET Nat /\ IsFiniteSet(GraphSizes)
    BY Sizes DEF GraphSizes
  <2>3. Ascending(GraphSizes) \in Seq(GraphSizes) /\ Elems(Ascending(GraphSizes)) = GraphSizes
    BY <2>2, AscendingList
  <2>4. Ascending(GraphSizes) \in Seq(Nat)
    BY <2>2, <2>3, SeqMonotonic, Zenon
  <2>5. Reverse(Ascending(GraphSizes)) \in Seq(Nat)
        /\ Elems(Reverse(Ascending(GraphSizes))) = GraphSizes
    BY <2>3, <2>4, ReverseElems
  <2> QED
    BY <2>1, <2>5 DEF GraphSizes
<1> QED
  BY <1>1, <1>2

(* The start-up of one rank leaves the others alone. *)
LEMMA LifeFrame ==
  ASSUME LifeInv, mode' = mode, wave' \in BOOLEAN, NEW r \in DP,
         life' \in [DP -> Lives], todo' \in [DP -> Seq(Nat)], graphs' \in [DP -> SUBSET Nat],
         \A q \in DP \ {r} : life'[q] = life[q] /\ todo'[q] = todo[q] /\ graphs'[q] = graphs[q],
         GraphsOf(r)'
  PROVE  LifeInv'
<1> SUFFICES ASSUME NEW q \in DP PROVE GraphsOf(q)'
  BY DEF LifeInv
<1>1. CASE q = r
  BY <1>1
<1>2. CASE q # r
  BY <1>2 DEF LifeInv, GraphsOf
<1> QED
  BY <1>1, <1>2

(* load_model, profiling, allocation and capture: each dummy run has a     *)
(* size that fits, and the compiled graphs are those of the sizes done.    *)
LEMMA StartUpKeeps ==
  ASSUME StepInv, LifeInv, NEW r \in DP, StartUp(r)
  PROVE  StepInv' /\ LifeInv'
<1>0. /\ wave \in BOOLEAN /\ life \in [DP -> Lives] /\ todo \in [DP -> Seq(Nat)]
      /\ graphs \in [DP -> SUBSET Nat] /\ GraphsOf(r) /\ todo[r] \in Seq(Nat)
      /\ graphs[r] \in SUBSET Nat
  BY DEF LifeInv
<1>1. CASE LoadModel(r)
  <2>1. /\ UNCHANGED dpVars /\ graphs' = graphs /\ wave' = wave
        /\ life' = [life EXCEPT ![r] = "profile"] /\ todo' = [todo EXCEPT ![r] = <<MaxTokens>>]
    BY <1>1 DEF LoadModel
  <2>2. <<MaxTokens>> \in Seq(Nat) /\ Elems(<<MaxTokens>>) = {MaxTokens}
    BY Sizes DEF Elems
  <2>3. mode' = mode
    BY <2>1 DEF dpVars
  <2>4. /\ life' \in [DP -> Lives] /\ todo' \in [DP -> Seq(Nat)]
        /\ life'[r] = "profile" /\ todo'[r] = <<MaxTokens>>
    BY <1>0, <2>1, <2>2 DEF Lives
  <2>5. GraphsOf(r)'
    <3>1. \A n \in Elems(todo'[r]) : Fits(n)
      BY <2>2, <2>4, Sizes
    <3> QED
      BY <2>4, <3>1 DEF GraphsOf, Fits
  <2> QED
    BY <1>0, <2>1, <2>3, <2>4, <2>5, StepFrame, LifeFrame
<1>2. CASE ProfileRun(r) \/ CaptureRun(r)
  <2>1. PICK k \in Nat, t \in Seq(Nat) : k = Head(todo[r]) /\ t = Tail(todo[r])
                                      /\ Elems(todo[r]) = Elems(t) \cup {k}
    <3>1. todo[r] # <<>>
      BY <1>2 DEF ProfileRun, CaptureRun
    <3>2. PICK u \in Seq(Nat) : u = todo[r]
      BY <1>0
    <3>3. Head(u) \in Nat /\ Tail(u) \in Seq(Nat) /\ Elems(u) = Elems(Tail(u)) \cup {Head(u)}
      BY <3>1, <3>2, TailPart
    <3> QED
      BY <3>2, <3>3
  <2>2. PICK prefill \in BOOLEAN :
          /\ StartStep(r, [n |-> k, prefill |-> prefill, dummy |-> TRUE], k)
          /\ todo' = [todo EXCEPT ![r] = t] /\ life' = life /\ wave' = wave
    <3>1. CASE ProfileRun(r)
      BY <3>1, <2>1 DEF ProfileRun
    <3>2. CASE CaptureRun(r)
      BY <3>2, <2>1 DEF CaptureRun
    <3> QED
      BY <1>2, <3>1, <3>2
  <2>3. /\ graphs' \in [DP -> SUBSET Nat] /\ \A q \in DP \ {r} : graphs'[q] = graphs[q]
        /\ life[r] = "profile" \/ graphs'[r] = graphs[r] \cup {k}
        /\ life[r] \in {"profile", "warmup"}
    <3>1. CASE ProfileRun(r)
      BY <3>1, <1>0 DEF ProfileRun
    <3>2. CASE CaptureRun(r)
      <4>1. graphs' = [graphs EXCEPT ![r] = graphs[r] \cup {k}] /\ life[r] = "warmup"
        BY <3>2, <2>1 DEF CaptureRun
      <4>2. graphs[r] \cup {k} \in SUBSET Nat
        BY <1>0
      <4> QED
        BY <4>1, <4>2, <1>0
    <3> QED
      BY <1>2, <3>1, <3>2
  <2>4. mode = "torchair" => Fits(k)
    BY <1>0, <2>1 DEF GraphsOf
  <2>5. PICK b : b = [n |-> k, prefill |-> prefill, dummy |-> TRUE]
    OBVIOUS
  <2>6. b \in Batches /\ b.n = k
    BY <2>5 DEF Batches
  <2>7. StepInv'
    BY <2>2, <2>4, <2>5, <2>6, StartStepKeeps
  <2>8. mode' = mode
    BY <2>2 DEF StartStep
  <2>9. todo' \in [DP -> Seq(Nat)] /\ todo'[r] = t /\ \A q \in DP \ {r} : todo'[q] = todo[q]
    BY <1>0, <2>2
  <2>10. GraphsOf(r)'
    <3>1. mode = "torchair" => \A x \in Elems(t) : Fits(x)
      BY <1>0, <2>1 DEF GraphsOf
    <3>2. life[r] = "warmup" /\ mode = "torchair" => TorchairSizes \subseteq graphs'[r] \cup Elems(t)
      BY <1>0, <2>1, <2>3 DEF GraphsOf
    <3> QED
      BY <2>2, <2>3, <2>8, <2>9, <3>1, <3>2 DEF GraphsOf, Fits
  <2> QED
    BY <1>0, <2>2, <2>3, <2>7, <2>8, <2>9, <2>10, LifeFrame
<1>3. CASE DetermineAvailableMemory(r) \/ WarmUpDone(r)
  <2>1. /\ UNCHANGED dpVars /\ graphs' = graphs /\ wave' = wave /\ todo' = todo /\ todo[r] = <<>>
        /\ \/ life[r] = "profile" /\ life' = [life EXCEPT ![r] = "profiled"]
           \/ life[r] = "warmup" /\ life' = [life EXCEPT ![r] = "serving"]
    BY <1>3 DEF DetermineAvailableMemory, WarmUpDone
  <2>2. Elems(<<>>) = {}
    BY DEF Elems
  <2>3. mode' = mode
    BY <2>1 DEF dpVars
  <2>4. life' \in [DP -> Lives] /\ \A q \in DP \ {r} : life'[q] = life[q]
    BY <1>0, <2>1 DEF Lives
  <2>5. GraphsOf(r)'
    BY <1>0, <2>1, <2>2, <2>3 DEF GraphsOf
  <2> QED
    BY <1>0, <2>1, <2>3, <2>4, <2>5, StepFrame, LifeFrame
<1>4. CASE InitializeFromConfig(r)
  <2>1. /\ UNCHANGED dpVars /\ graphs' = graphs /\ wave' = wave
        /\ life' = [life EXCEPT ![r] = "warmup"] /\ todo' = [todo EXCEPT ![r] = CaptureList]
    BY <1>4 DEF InitializeFromConfig
  <2>2. mode' = mode
    BY <2>1 DEF dpVars
  <2>3. /\ life' \in [DP -> Lives] /\ todo' \in [DP -> Seq(Nat)]
        /\ life'[r] = "warmup" /\ todo'[r] = CaptureList
        /\ \A q \in DP \ {r} : life'[q] = life[q] /\ todo'[q] = todo[q]
    BY <1>0, <2>1, CaptureListFacts DEF Lives
  <2>4. GraphsOf(r)'
    BY <2>2, <2>3, CaptureListFacts, Sizes DEF GraphsOf, Fits
  <2> QED
    BY <1>0, <2>1, <2>2, <2>3, <2>4, StepFrame, LifeFrame
<1> QED
  BY <1>1, <1>2, <1>3, <1>4 DEF StartUp

-----------------------------------------------------------------------------
(* Memory. *)

(* An allocator, its pointers and what is registered for one. *)
LEMMA AllocatorParts ==
  ASSUME NEW a \in Allocators
  PROVE  /\ a = [ptrs |-> a.ptrs, current_tag |-> a.current_tag, misuse |-> a.misuse]
         /\ DOMAIN a.ptrs \in SUBSET Ptr /\ a.ptrs \in [DOMAIN a.ptrs -> AllocationData]
         /\ a.current_tag \in MemTags /\ a.misuse \in BOOLEAN
<1>1. /\ a.ptrs \in UNION {[P -> AllocationData] : P \in SUBSET Ptr}
      /\ a.current_tag \in MemTags /\ a.misuse \in BOOLEAN
      /\ a = [ptrs |-> a.ptrs, current_tag |-> a.current_tag, misuse |-> a.misuse]
  BY DEF Allocators
<1>2. PICK P \in SUBSET Ptr : a.ptrs \in [P -> AllocationData]
  BY <1>1
<1>3. DOMAIN a.ptrs = P
  BY <1>2
<1> QED
  BY <1>1, <1>2, <1>3

(* An allocator from its parts. *)
LEMMA AllocatorMade ==
  ASSUME NEW P \in SUBSET Ptr, NEW f \in [P -> AllocationData],
         NEW t \in MemTags, NEW m \in BOOLEAN
  PROVE  [ptrs |-> f, current_tag |-> t, misuse |-> m] \in Allocators
<1>1. f \in UNION {[Q -> AllocationData] : Q \in SUBSET Ptr}
  OBVIOUS
<1> QED
  BY <1>1 DEF Allocators

(* Assigning to a field of an allocator. *)
LEMMA AllocatorSteps ==
  ASSUME NEW a \in Allocators, NEW f, NEW t, NEW m
  PROVE  /\ [a EXCEPT !.ptrs = f]
              = [ptrs |-> f, current_tag |-> a.current_tag, misuse |-> a.misuse]
         /\ [a EXCEPT !.current_tag = t]
              = [ptrs |-> a.ptrs, current_tag |-> t, misuse |-> a.misuse]
         /\ [a EXCEPT !.ptrs = f, !.misuse = m]
              = [ptrs |-> f, current_tag |-> a.current_tag, misuse |-> m]
<1>1. a = [ptrs |-> a.ptrs, current_tag |-> a.current_tag, misuse |-> a.misuse]
  BY AllocatorParts
<1>2. PICK e : e = [a EXCEPT !.ptrs = f]
  OBVIOUS
<1>3. e = [ptrs |-> f, current_tag |-> a.current_tag, misuse |-> a.misuse]
  BY <1>1, <1>2
<1>4. [a EXCEPT !.current_tag = t] = [ptrs |-> a.ptrs, current_tag |-> t, misuse |-> a.misuse]
  BY <1>1
<1>5. [e EXCEPT !.misuse = m] = [ptrs |-> f, current_tag |-> a.current_tag, misuse |-> m]
  BY <1>3
<1>6. [a EXCEPT !.ptrs = f, !.misuse = m] = [e EXCEPT !.misuse = m]
  BY <1>2
<1> QED
  BY <1>2, <1>3, <1>4, <1>5, <1>6

(* The parts of AllocationData. *)
LEMMA DataParts ==
  ASSUME NEW d \in AllocationData
  PROVE  /\ d.tag \in MemTags /\ d.backup \in Contents /\ d.mapped \in BOOLEAN
         /\ d.mem \in Contents
         /\ d = [tag |-> d.tag, backup |-> d.backup, mapped |-> d.mapped, mem |-> d.mem]
BY DEF AllocationData

(* What mapping, releasing and copying do to the record of one pointer. *)
LEMMA DataSteps ==
  ASSUME NEW d \in AllocationData, NEW x, NEW fits
  PROVE  /\ [d EXCEPT !.backup = x]
              = [tag |-> d.tag, backup |-> x, mapped |-> d.mapped, mem |-> d.mem]
         /\ UnmapAndRelease(d)
              = [tag |-> d.tag, backup |-> d.backup, mapped |-> FALSE, mem |-> NoData]
         /\ CreateAndMap(d, fits)
              = [tag |-> d.tag, backup |-> d.backup, mapped |-> fits, mem |-> NoData]
         /\ [d EXCEPT !.mem = x]
              = [tag |-> d.tag, backup |-> d.backup, mapped |-> d.mapped, mem |-> x]
<1>1. [d EXCEPT !.backup = x]
        = [tag |-> d.tag, backup |-> x, mapped |-> d.mapped, mem |-> d.mem]
  BY DEF AllocationData
<1>2. ASSUME NEW y
      PROVE  [d EXCEPT !.mapped = y, !.mem = NoData]
               = [tag |-> d.tag, backup |-> d.backup, mapped |-> y, mem |-> NoData]
  <2>1. PICK e : e = [d EXCEPT !.mapped = y]
    OBVIOUS
  <2>2. e = [tag |-> d.tag, backup |-> d.backup, mapped |-> y, mem |-> d.mem]
    BY <2>1 DEF AllocationData
  <2>3. [e EXCEPT !.mem = NoData]
          = [tag |-> d.tag, backup |-> d.backup, mapped |-> y, mem |-> NoData]
    BY <2>2
  <2>4. [d EXCEPT !.mapped = y, !.mem = NoData] = [e EXCEPT !.mem = NoData]
    BY <2>1
  <2> QED
    BY <2>3, <2>4
<1>3. /\ UnmapAndRelease(d)
           = [tag |-> d.tag, backup |-> d.backup, mapped |-> FALSE, mem |-> NoData]
      /\ CreateAndMap(d, fits)
           = [tag |-> d.tag, backup |-> d.backup, mapped |-> fits, mem |-> NoData]
  BY <1>2, Zenon DEF UnmapAndRelease, CreateAndMap
<1>4. [d EXCEPT !.mem = x]
        = [tag |-> d.tag, backup |-> d.backup, mapped |-> d.mapped, mem |-> x]
  BY DEF AllocationData
<1> QED
  BY <1>1, <1>3, <1>4

(* sleep releases every pointer; at level 1 the weights go to the host. *)
LEMMA SleepSound ==
  ASSUME NEW a \in Allocators, NEW offload
  PROVE  /\ Sleep(a, offload) \in Allocators
         /\ \A P, lost, level :
              /\ Sound(a, P, {}, lost)
              /\ level = 1 => offload = {"weights"}
              /\ level = 1 \/ level = 2
              => Sound(Sleep(a, offload), P, PoolTags, lost \/ level = 2)
<1> DEFINE D    == DOMAIN a.ptrs
           kept(p) == IF a.ptrs[p].tag \in offload THEN a.ptrs[p].mem ELSE a.ptrs[p].backup
           out(p)  == [tag |-> a.ptrs[p].tag, backup |-> kept(p), mapped |-> FALSE, mem |-> NoData]
<1>1. /\ D \in SUBSET Ptr /\ a.ptrs \in [D -> AllocationData]
      /\ a.current_tag \in MemTags /\ a.misuse \in BOOLEAN
  BY AllocatorParts
<1>2. PICK bad \in BOOLEAN : bad <=> a.misuse \/ \E p \in D : ~a.ptrs[p].mapped
  OBVIOUS
<1>3. \A p \in D :
        UnmapAndRelease(IF a.ptrs[p].tag \in offload
                        THEN [a.ptrs[p] EXCEPT !.backup = a.ptrs[p].mem] ELSE a.ptrs[p]) = out(p)
  <2> SUFFICES ASSUME NEW p \in D, NEW d \in AllocationData, d = a.ptrs[p]
               PROVE  UnmapAndRelease(IF d.tag \in offload
                        THEN [d EXCEPT !.backup = d.mem] ELSE d) = out(p)
    BY <1>1
  <2>2. CASE d.tag \in offload
    <3>1. PICK e : e = [d EXCEPT !.backup = d.mem]
      OBVIOUS
    <3>2. e = [tag |-> d.tag, backup |-> d.mem, mapped |-> d.mapped, mem |-> d.mem]
      BY <3>1, DataSteps
    <3>3. e \in AllocationData /\ e.tag = d.tag /\ e.backup = d.mem
      BY <3>2, DataParts DEF AllocationData
    <3>4. UnmapAndRelease(e) = [tag |-> e.tag, backup |-> e.backup, mapped |-> FALSE, mem |-> NoData]
      BY <3>3, DataSteps
    <3> QED
      BY <2>2, <3>1, <3>3, <3>4
  <2>3. CASE d.tag \notin offload
    BY <2>3, DataSteps
  <2> QED
    BY <2>2, <2>3
<1>4. \A p \in D : out(p) \in AllocationData
  <2> SUFFICES ASSUME NEW p \in D, NEW d \in AllocationData, d = a.ptrs[p]
               PROVE  out(p) \in AllocationData
    BY <1>1
  <2>1. d.tag \in MemTags /\ d.backup \in Contents /\ d.mem \in Contents /\ NoData \in Contents
    BY DataParts DEF Contents
  <2> QED
    BY <2>1 DEF AllocationData
<1>5. Sleep(a, offload) = [ptrs |-> [p \in D |-> out(p)], current_tag |-> a.current_tag,
                           misuse |-> bad]
  <2>1. a = [ptrs |-> a.ptrs, current_tag |-> a.current_tag, misuse |-> a.misuse]
    BY AllocatorParts
  <2>2. (a.misuse \/ \E p \in D : ~a.ptrs[p].mapped) = bad
    BY <1>1, <1>2
  <2>3. Sleep(a, offload) =
          [a EXCEPT !.ptrs = [p \in D |->
              UnmapAndRelease(IF a.ptrs[p].tag \in offload
                        THEN [a.ptrs[p] EXCEPT !.backup = a.ptrs[p].mem] ELSE a.ptrs[p])],
            !.misuse = a.misuse \/ \E p \in D : ~a.ptrs[p].mapped]
    BY DEF Sleep
  <2>4. Sleep(a, offload) = [a EXCEPT !.ptrs = [p \in D |-> out(p)], !.misuse = bad]
    <3> HIDE DEF D, out
    <3> QED
      BY <2>2, <2>3, <1>3, ZenonT(40)
  <2> HIDE DEF D, out
  <2> QED
    BY <2>4, AllocatorSteps
<1>6. [p \in D |-> out(p)] \in [D -> AllocationData]
  BY <1>4
<1>7. Sleep(a, offload) \in Allocators
  <2> HIDE DEF D, out
  <2> QED
    BY <1>1, <1>5, <1>6, AllocatorMade
<1>8. ASSUME NEW P, NEW lost, NEW level, Sound(a, P, {}, lost),
             level = 1 => offload = {"weights"}, level = 1 \/ level = 2
      PROVE  Sound(Sleep(a, offload), P, PoolTags, lost \/ level = 2)
  <2>1. ~a.misuse /\ D = P /\ \A p \in P : Holds(a.ptrs[p], p, {}, lost)
    BY <1>8 DEF Sound
  <2>2. ~bad
    BY <1>2, <2>1 DEF Holds
  <2>3. \A p \in P : Holds(out(p), p, PoolTags, lost \/ level = 2)
    BY <2>1, <1>8 DEF Holds, TagOf, PoolTags
  <2> HIDE DEF out
  <2> QED
    BY <1>5, <2>1, <2>2, <2>3 DEF Sound
<1> QED
  BY <1>7, <1>8

(* wake_up maps the pointers of the tags again and brings the weights back *)
(* from their backup; with memory for all of them nothing is lost.         *)
LEMMA WakeUpSound ==
  ASSUME NEW a \in Allocators, NEW tags, NEW fits
  PROVE  /\ WakeUp(a, tags, fits) \in Allocators
         /\ \A P, lost, slept :
              Sound(a, P, slept, lost) /\ tags \subseteq slept /\ fits = Ptr
              => Sound(WakeUp(a, tags, fits), P, slept \ tags, lost)
<1> DEFINE D    == DOMAIN a.ptrs
           d(p) == a.ptrs[p]
           M(p) == CreateAndMap(d(p), p \in fits)
           E(p) == IF d(p).tag \notin tags THEN d(p)
                   ELSE [M(p) EXCEPT !.mem = IF M(p).mapped THEN M(p).backup ELSE NoData,
                                     !.backup = NoData]
           out(p) == IF d(p).tag \notin tags THEN d(p)
                     ELSE [tag |-> d(p).tag, backup |-> NoData, mapped |-> p \in fits,
                           mem |-> IF p \in fits THEN d(p).backup ELSE NoData]
<1>1. /\ D \in SUBSET Ptr /\ a.ptrs \in [D -> AllocationData]
      /\ a.current_tag \in MemTags /\ a.misuse \in BOOLEAN
  BY AllocatorParts
<1>2. PICK bad \in BOOLEAN : bad <=> a.misuse \/ \E p \in D : d(p).tag \in tags /\ d(p).mapped
  OBVIOUS
<1>3. \A p \in D : E(p) = out(p)
  <2> SUFFICES ASSUME NEW p \in D, d(p).tag \in tags
               PROVE  [M(p) EXCEPT !.mem = IF M(p).mapped THEN M(p).backup ELSE NoData,
                                   !.backup = NoData] = out(p)
    OBVIOUS
  <2>1. PICK e \in AllocationData : e = d(p)
    BY <1>1
  <2>2. PICK w \in BOOLEAN : w <=> p \in fits
    OBVIOUS
  <2>3. (p \in fits) = w
    BY <2>2
  <2>4. PICK m : m = CreateAndMap(e, w)
    OBVIOUS
  <2>5. m = [tag |-> e.tag, backup |-> e.backup, mapped |-> w, mem |-> NoData]
    BY <2>4, DataSteps
  <2>6. m \in AllocationData /\ m.tag = e.tag /\ m.backup = e.backup /\ m.mapped = w
    BY <2>5, DataParts DEF AllocationData, Contents
  <2>7. PICK x : x = IF w THEN e.backup ELSE NoData
    OBVIOUS
  <2>8. PICK g : g = [m EXCEPT !.mem = x]
    OBVIOUS
  <2>9. g = [tag |-> e.tag, backup |-> e.backup, mapped |-> w, mem |-> x]
    BY <2>6, <2>8, DataSteps
  <2>10. [g EXCEPT !.backup = NoData] = [tag |-> e.tag, backup |-> NoData, mapped |-> w, mem |-> x]
    BY <2>9
  <2>11. [m EXCEPT !.mem = x, !.backup = NoData] = [g EXCEPT !.backup = NoData]
    BY <2>8
  <2>12. M(p) = m
    BY <2>1, <2>3, <2>4
  <2>13. (IF M(p).mapped THEN M(p).backup ELSE NoData) = x
    BY <2>6, <2>7, <2>12
  <2>14. out(p) = [tag |-> e.tag, backup |-> NoData, mapped |-> w, mem |-> x]
    BY <2>1, <2>2, <2>3, <2>7
  <2> HIDE DEF M, out
  <2> QED
    BY <2>10, <2>11, <2>12, <2>13, <2>14
<1>4. \A p \in D : out(p) \in AllocationData
  <2> SUFFICES ASSUME NEW p \in D, NEW e \in AllocationData, e = d(p)
               PROVE  out(p) \in AllocationData
    BY <1>1
  <2>1. e.tag \in MemTags /\ e.backup \in Contents /\ NoData \in Contents
    BY DataParts DEF Contents
  <2>2. PICK w \in BOOLEAN : w <=> p \in fits
    OBVIOUS
  <2>3. (p \in fits) = w
    BY <2>2
  <2>4. [tag |-> e.tag, backup |-> NoData, mapped |-> w,
         mem |-> IF w THEN e.backup ELSE NoData] \in AllocationData
    BY <2>1 DEF AllocationData
  <2> QED
    BY <2>2, <2>3, <2>4
<1>5. WakeUp(a, tags, fits) = [ptrs |-> [p \in D |-> out(p)], current_tag |-> a.current_tag,
                               misuse |-> bad]
  <2>1. (a.misuse \/ \E p \in D : d(p).tag \in tags /\ d(p).mapped) = bad
    BY <1>1, <1>2
  <2>2. WakeUp(a, tags, fits) =
          [a EXCEPT !.ptrs = [p \in D |-> E(p)], !.misuse = a.misuse \/ \E p \in D : d(p).tag \in tags /\ d(p).mapped]
    BY DEF WakeUp
  <2>3. WakeUp(a, tags, fits) = [a EXCEPT !.ptrs = [p \in D |-> out(p)], !.misuse = bad]
    <3> HIDE DEF D, E, d, out
    <3> QED
      BY <2>1, <2>2, <1>3
  <2> HIDE DEF D, out
  <2> QED
    BY <2>3, AllocatorSteps
<1>6. [p \in D |-> out(p)] \in [D -> AllocationData]
  BY <1>4
<1>7. WakeUp(a, tags, fits) \in Allocators
  <2> HIDE DEF D, out
  <2> QED
    BY <1>1, <1>5, <1>6, AllocatorMade
<1>8. ASSUME NEW P, NEW lost, NEW slept, Sound(a, P, slept, lost), tags \subseteq slept,
             fits = Ptr
      PROVE  Sound(WakeUp(a, tags, fits), P, slept \ tags, lost)
  <2>1. ~a.misuse /\ D = P /\ \A p \in P : Holds(d(p), p, slept, lost) /\ p \in fits
    BY <1>1, <1>8 DEF Sound
  <2>2. ~bad
    BY <1>2, <1>8, <2>1 DEF Holds
  <2>3. \A p \in P : Holds(out(p), p, slept \ tags, lost)
    BY <2>1, <1>8 DEF Holds, TagOf
  <2> HIDE DEF out
  <2> QED
    BY <1>5, <2>1, <2>2, <2>3 DEF Sound
<1> QED
  BY <1>7, <1>8

Reload(a) ==
  [a EXCEPT !.ptrs = [p \in DOMAIN a.ptrs |->
     IF a.ptrs[p].tag = "weights" THEN [a.ptrs[p] EXCEPT !.mem = "weights"] ELSE a.ptrs[p]]]

(* Loading the weights again puts them back into their memory. *)
LEMMA ReloadSound ==
  ASSUME NEW a \in Allocators
  PROVE  /\ Reload(a) \in Allocators
         /\ \A P, lost : Sound(a, P, {}, lost) => Sound(Reload(a), P, {}, FALSE)
<1> DEFINE D      == DOMAIN a.ptrs
           d(p)   == a.ptrs[p]
           out(p) == IF d(p).tag = "weights"
                     THEN [tag |-> d(p).tag, backup |-> d(p).backup, mapped |-> d(p).mapped,
                           mem |-> "weights"]
                     ELSE d(p)
<1>1. /\ D \in SUBSET Ptr /\ a.ptrs \in [D -> AllocationData]
      /\ a.current_tag \in MemTags /\ a.misuse \in BOOLEAN
  BY AllocatorParts
<1>2. \A p \in D :
        (IF d(p).tag = "weights" THEN [d(p) EXCEPT !.mem = "weights"] ELSE d(p)) = out(p)
  BY <1>1, DataSteps
<1>3. \A p \in D : out(p) \in AllocationData
  <2> SUFFICES ASSUME NEW p \in D, NEW e \in AllocationData, e = d(p)
               PROVE  out(p) \in AllocationData
    BY <1>1
  <2> QED
    BY DataParts DEF AllocationData, Contents
<1>4. Reload(a) = [ptrs |-> [p \in D |-> out(p)], current_tag |-> a.current_tag, misuse |-> a.misuse]
  <2>1. Reload(a) = [a EXCEPT !.ptrs = [p \in D |-> out(p)]]
    <3>1. Reload(a) = [a EXCEPT !.ptrs = [p \in D |->
                IF d(p).tag = "weights" THEN [d(p) EXCEPT !.mem = "weights"] ELSE d(p)]]
      BY DEF Reload
    <3> HIDE DEF D, d, out
    <3> QED
      BY <3>1, <1>2
  <2> HIDE DEF D, out
  <2> QED
    BY <2>1, AllocatorSteps
<1>5. [p \in D |-> out(p)] \in [D -> AllocationData]
  BY <1>3
<1>6. Reload(a) \in Allocators
  <2> HIDE DEF D, out
  <2> QED
    BY <1>1, <1>4, <1>5, AllocatorMade
<1>7. ASSUME NEW P, NEW lost, Sound(a, P, {}, lost) PROVE Sound(Reload(a), P, {}, FALSE)
  <2>1. ~a.misuse /\ D = P /\ \A p \in P : Holds(d(p), p, {}, lost)
    BY <1>7 DEF Sound
  <2>2. \A p \in P : Holds(out(p), p, {}, FALSE)
    BY <2>1 DEF Holds, TagOf
  <2>3. PICK m \in BOOLEAN : m = a.misuse
    BY <1>1
  <2>4. Reload(a) = [ptrs |-> [p \in D |-> out(p)], current_tag |-> a.current_tag, misuse |-> m]
    BY <1>4, <2>3
  <2> HIDE DEF out, D, d
  <2>5. Reload(a).misuse = m /\ Reload(a).ptrs = [p \in D |-> out(p)]
    BY <2>4
  <2>6. DOMAIN Reload(a).ptrs = P /\ \A p \in P : Reload(a).ptrs[p] = out(p)
    BY <2>1, <2>5
  <2> QED
    BY <2>1, <2>2, <2>3, <2>5, <2>6 DEF Sound
<1> QED
  BY <1>6, <1>7

(* What is allocated and filled in a pool has the pool's tag and content. *)
LEMMA InPoolSound ==
  ASSUME SleepMode, NEW a \in Allocators, NEW new \in SUBSET Ptr, NEW tag \in PoolTags
  PROVE  /\ InPool(a, tag, new) \in Allocators
         /\ \A P, lost :
              Sound(a, P, {}, lost) /\ (\A p \in new : TagOf(p) = tag)
              => Sound(InPool(a, tag, new), P \cup new, {}, lost)
<1> DEFINE D      == DOMAIN a.ptrs
           fresh  == [tag |-> tag, backup |-> NoData, mapped |-> TRUE, mem |-> NoData]
           full   == [tag |-> tag, backup |-> NoData, mapped |-> TRUE, mem |-> tag]
           mid(p) == IF p \in new THEN fresh ELSE a.ptrs[p]
           out(p) == IF p \in new THEN full ELSE a.ptrs[p]
<1>1. /\ D \in SUBSET Ptr /\ a.ptrs \in [D -> AllocationData]
      /\ a.current_tag \in MemTags /\ a.misuse \in BOOLEAN
  BY AllocatorParts
<1>2. /\ fresh \in AllocationData /\ full \in AllocationData /\ tag \in MemTags
      /\ [fresh EXCEPT !.mem = tag] = full
  <2>1. tag \in MemTags /\ tag \in Contents /\ NoData \in Contents
    BY DEF Contents, MemTags, PoolTags
  <2>2. fresh \in AllocationData /\ full \in AllocationData
    BY <2>1 DEF AllocationData
  <2>3. [fresh EXCEPT !.mem = tag] = full
    <3>1. fresh.tag = tag /\ fresh.backup = NoData /\ fresh.mapped = TRUE
      BY Zenon
    <3> HIDE DEF fresh
    <3>2. [fresh EXCEPT !.mem = tag] = [tag |-> fresh.tag, backup |-> fresh.backup,
                                        mapped |-> fresh.mapped, mem |-> tag]
      BY <2>2, DataSteps
    <3> QED
      BY <3>1, <3>2
  <2> QED
    BY <2>1, <2>2, <2>3
<1>3. PICK e : e = EnterMemoryPool(a, tag)
  OBVIOUS
<1>4. e = [ptrs |-> a.ptrs, current_tag |-> tag, misuse |-> a.misuse]
  BY <1>3, AllocatorSteps DEF EnterMemoryPool
<1>5. e \in Allocators /\ e.ptrs = a.ptrs /\ e.current_tag = tag /\ e.misuse = a.misuse
  BY <1>1, <1>2, <1>4, AllocatorMade
<1>6. PICK m : m = MyMalloc(e, new)
  OBVIOUS
<1>7. m = [ptrs |-> [p \in D \cup new |-> mid(p)], current_tag |-> tag, misuse |-> a.misuse]
  <2>1. CreateAndMap([tag |-> tag, backup |-> NoData, mapped |-> FALSE, mem |-> NoData], TRUE)
          = fresh
    <3>1. PICK z : z = [tag |-> tag, backup |-> NoData, mapped |-> FALSE, mem |-> NoData]
      OBVIOUS
    <3>2. z \in AllocationData /\ z.tag = tag /\ z.backup = NoData
      BY <3>1, <1>2 DEF AllocationData, Contents
    <3>3. CreateAndMap(z, TRUE) = [tag |-> z.tag, backup |-> z.backup, mapped |-> TRUE, mem |-> NoData]
      BY <3>2, DataSteps
    <3> QED
      BY <3>1, <3>2, <3>3
  <2>2. m = [e EXCEPT !.ptrs = [p \in D \cup new |-> IF p \in new
               THEN CreateAndMap([tag |-> tag, backup |-> NoData, mapped |-> FALSE,
                                  mem |-> NoData], TRUE) ELSE a.ptrs[p]]]
    BY <1>5, <1>6 DEF MyMalloc
  <2>3. m = [e EXCEPT !.ptrs = [p \in D \cup new |-> mid(p)]]
    <3> HIDE DEF fresh
    <3> QED
      BY <2>1, <2>2
  <2> HIDE DEF D, mid
  <2> QED
    BY <2>3, <1>5, AllocatorSteps
<1>8. m \in Allocators /\ m.ptrs = [p \in D \cup new |-> mid(p)] /\ m.current_tag = tag
      /\ m.misuse = a.misuse
  <2>1. [p \in D \cup new |-> mid(p)] \in [D \cup new -> AllocationData]
    <3> HIDE DEF fresh
    <3> QED
      BY <1>1, <1>2
  <2>2. D \cup new \in SUBSET Ptr
    BY <1>1
  <2> HIDE DEF D, mid
  <2> QED
    BY <1>1, <1>2, <1>7, <2>1, <2>2, AllocatorMade
<1>9. PICK g : g = Fill(e, new, tag)
  OBVIOUS
<1>10. g = [ptrs |-> [p \in D \cup new |-> out(p)], current_tag |-> tag, misuse |-> a.misuse]
  <2>1. g = [m EXCEPT !.ptrs = [p \in DOMAIN m.ptrs |->
               IF p \in new THEN [m.ptrs[p] EXCEPT !.mem = tag] ELSE m.ptrs[p]]]
    BY <1>6, <1>9 DEF Fill
  <2>2. \A p \in D \cup new :
          (IF p \in new THEN [m.ptrs[p] EXCEPT !.mem = tag] ELSE m.ptrs[p]) = out(p)
    <3> HIDE DEF fresh, full
    <3> QED
      BY <1>2, <1>8
  <2>3. DOMAIN m.ptrs = D \cup new
    BY <1>8
  <2>4. g = [m EXCEPT !.ptrs = [p \in D \cup new |-> out(p)]]
    <3> HIDE DEF out, D
    <3> QED
      BY <2>1, <2>2, <2>3
  <2> HIDE DEF D, out
  <2> QED
    BY <2>4, <1>8, AllocatorSteps, ZenonT(40)
<1>11. [p \in D \cup new |-> out(p)] \in [D \cup new -> AllocationData] /\ D \cup new \in SUBSET Ptr
  <2> HIDE DEF full
  <2> QED
    BY <1>1, <1>2
<1>12. g \in Allocators
  <2> HIDE DEF D, out
  <2> QED
    BY <1>1, <1>2, <1>10, <1>11, AllocatorMade
<1>13. InPool(a, tag, new)
         = [ptrs |-> [p \in D \cup new |-> out(p)], current_tag |-> a.current_tag,
            misuse |-> a.misuse]
  <2>1. InPool(a, tag, new) = [g EXCEPT !.current_tag = a.current_tag]
    BY <1>3, <1>9 DEF InPool, LeaveMemoryPool
  <2>2. g.ptrs = [p \in D \cup new |-> out(p)] /\ g.misuse = a.misuse
    <3> HIDE DEF D, out
    <3> QED
      BY <1>10
  <2> HIDE DEF D, out
  <2> QED
    BY <2>1, <2>2, <1>12, AllocatorSteps
<1>14. InPool(a, tag, new) \in Allocators
  <2> HIDE DEF D, out
  <2> QED
    BY <1>1, <1>11, <1>13, AllocatorMade
<1>15. ASSUME NEW P, NEW lost, Sound(a, P, {}, lost), \A p \in new : TagOf(p) = tag
       PROVE  Sound(InPool(a, tag, new), P \cup new, {}, lost)
  <2>1. ~a.misuse /\ D = P /\ \A p \in P : Holds(a.ptrs[p], p, {}, lost)
    BY <1>15 DEF Sound
  <2>2. \A p \in P \cup new : Holds(out(p), p, {}, lost)
    <3>1. \A p \in new : Holds(full, p, {}, lost)
      BY <1>15 DEF Holds, TagOf
    <3> HIDE DEF full
    <3> QED
      BY <2>1, <3>1
  <2>3. PICK b \in BOOLEAN : b = a.misuse
    BY <1>1
  <2>4. InPool(a, tag, new) = [ptrs |-> [p \in D \cup new |-> out(p)],
                               current_tag |-> a.current_tag, misuse |-> b]
    BY <1>13, <2>3
  <2> HIDE DEF out
  <2> QED
    BY <2>1, <2>2, <2>3, <2>4 DEF Sound
<1> QED
  BY <1>14, <1>15

(* A step of one rank leaves the memory of the others alone. *)
LEMMA MemoryFrame ==
  ASSUME MemoryType, MemoryInv, NEW r \in DP,
         allocator' \in [DP -> Allocators], asleep' \in [DP -> SUBSET PoolTags],
         discarded' \in [DP -> BOOLEAN],
         \A q \in DP \ {r} : /\ allocator'[q] = allocator[q] /\ asleep'[q] = asleep[q]
                             /\ discarded'[q] = discarded[q] /\ life'[q] = life[q],
         ~MayRunOut => MemoryOf(r)'
  PROVE  MemoryType' /\ MemoryInv'
<1>1. MemoryType'
  BY DEF MemoryType
<1>2. ASSUME ~MayRunOut, NEW q \in DP PROVE MemoryOf(q)'
  <2>1. CASE q = r
    BY <2>1, <1>2
  <2>2. CASE q # r
    <3>1. MemoryOf(q)
      BY <1>2 DEF MemoryInv
    <3>2. /\ allocator'[q] = allocator[q] /\ asleep'[q] = asleep[q]
          /\ discarded'[q] = discarded[q] /\ life'[q] = life[q]
      BY <2>2
    <3>3. AddressesOf(q)' = AddressesOf(q)
      BY <3>2 DEF AddressesOf
    <3> QED
      BY <3>1, <3>2, <3>3 DEF MemoryOf, Sound, Holds, TagOf
  <2> QED
    BY <2>1, <2>2
<1> QED
  BY <1>1, <1>2 DEF MemoryInv

(* Nothing of the sleep mode changes. *)
LEMMA MemoryStutter ==
  ASSUME MemoryType, MemoryInv, life' = life, allocator' = allocator, asleep' = asleep,
         discarded' = discarded
  PROVE  MemoryType' /\ MemoryInv'
<1>1. \A q \in DP : AddressesOf(q)' = AddressesOf(q)
  BY DEF AddressesOf
<1>2. \A q \in DP : MemoryOf(q) => MemoryOf(q)'
  BY <1>1 DEF MemoryOf, Sound, Holds, TagOf
<1> QED
  BY <1>2 DEF MemoryType, MemoryInv

(* The weights and the KV cache are allocated in their pools. *)
LEMMA StartUpMemory ==
  ASSUME LifeInv, MemoryType, MemoryInv, NEW r \in DP, StartUp(r)
  PROVE  MemoryType' /\ MemoryInv'
<1>0. /\ WeightPtr \in SUBSET Ptr /\ KvPtr \in SUBSET Ptr
      /\ \A p \in WeightPtr : TagOf(p) = "weights"
      /\ \A p \in KvPtr : TagOf(p) = "kv_cache"
      /\ "weights" \in PoolTags /\ "kv_cache" \in PoolTags
  BY WorkerAssumption DEF TagOf, PoolTags
<1>1. /\ allocator \in [DP -> Allocators] /\ asleep \in [DP -> SUBSET PoolTags]
      /\ discarded \in [DP -> BOOLEAN] /\ life \in [DP -> Lives] /\ allocator[r] \in Allocators
  BY DEF MemoryType, LifeInv
<1>2. CASE ProfileRun(r) \/ CaptureRun(r)
  <2>1. life' = life /\ allocator' = allocator /\ asleep' = asleep /\ discarded' = discarded
    BY <1>2 DEF ProfileRun, CaptureRun
  <2> QED
    BY <2>1, MemoryStutter
<1>3. CASE DetermineAvailableMemory(r) \/ WarmUpDone(r)
  <2>1. /\ allocator' = allocator /\ asleep' = asleep /\ discarded' = discarded
        /\ \A q \in DP \ {r} : life'[q] = life[q]
        /\ \/ life[r] = "profile" /\ life'[r] = "profiled"
           \/ life[r] = "warmup" /\ life'[r] = "serving"
    BY <1>1, <1>3 DEF DetermineAvailableMemory, WarmUpDone
  <2>2. AddressesOf(r)' = AddressesOf(r)
    BY <2>1 DEF AddressesOf
  <2>3. MemoryOf(r) => MemoryOf(r)'
    BY <2>1, <2>2 DEF MemoryOf, Sound, Holds, TagOf
  <2>4. ~MayRunOut => MemoryOf(r)'
    BY <2>3 DEF MemoryInv
  <2> QED
    BY <1>1, <2>1, <2>4, MemoryFrame
<1>4. CASE LoadModel(r) \/ InitializeFromConfig(r)
  <2>1. PICK tag \in PoolTags, new \in SUBSET Ptr :
          /\ allocator' = [allocator EXCEPT ![r] = InPool(allocator[r], tag, new)]
          /\ asleep' = asleep /\ discarded' = discarded
          /\ \A q \in DP \ {r} : life'[q] = life[q]
          /\ \/ tag = "weights" /\ new = WeightPtr /\ life[r] = "init" /\ life'[r] = "profile"
             \/ tag = "kv_cache" /\ new = KvPtr /\ life[r] = "profiled" /\ life'[r] = "warmup"
    <3>1. CASE LoadModel(r)
      BY <3>1, <1>0, <1>1 DEF LoadModel
    <3>2. CASE InitializeFromConfig(r)
      BY <3>2, <1>0, <1>1 DEF InitializeFromConfig
    <3> QED
      BY <1>4, <3>1, <3>2
  <2>2. PICK a : a = InPool(allocator[r], tag, new)
    OBVIOUS
  <2>3. a \in Allocators
    <3>1. CASE SleepMode
      BY <3>1, <1>1, <2>2, InPoolSound
    <3>2. CASE ~SleepMode
      BY <3>2, <1>1, <2>2 DEF InPool
    <3> QED
      BY <3>1, <3>2
  <2>4. /\ allocator' \in [DP -> Allocators] /\ allocator'[r] = a
        /\ \A q \in DP \ {r} : allocator'[q] = allocator[q]
    BY <1>1, <2>1, <2>2, <2>3
  <2>5. ASSUME ~MayRunOut PROVE MemoryOf(r)'
    <3>1. /\ Sound(allocator[r], AddressesOf(r), asleep[r], discarded[r]) /\ asleep[r] = {}
      BY <2>1, <2>5 DEF MemoryInv, MemoryOf
    <3>2. AddressesOf(r)' = IF SleepMode THEN AddressesOf(r) \cup new ELSE AddressesOf(r)
      BY <2>1 DEF AddressesOf
    <3>3. Sound(a, AddressesOf(r)', {}, discarded[r])
      <4>1. CASE SleepMode
        <5>1. \A p \in new : TagOf(p) = tag
          BY <1>0, <2>1
        <5> QED
          BY <4>1, <5>1, <3>1, <3>2, <1>1, <2>2, InPoolSound
      <4>2. CASE ~SleepMode
        BY <4>2, <3>1, <3>2, <2>2 DEF InPool
      <4> QED
        BY <4>1, <4>2
    <3>4. asleep'[r] = {} /\ discarded'[r] = discarded[r]
      BY <2>1, <3>1
    <3> QED
      BY <2>4, <3>3, <3>4 DEF MemoryOf, Sound, Holds, TagOf
  <2> QED
    BY <1>1, <2>1, <2>4, <2>5, MemoryFrame
<1> QED
  BY <1>2, <1>3, <1>4 DEF StartUp

(* sleep, wake_up and the reload of discarded weights. *)
LEMMA SleepMemory ==
  ASSUME LifeInv, MemoryType, MemoryInv, NEW r \in DP, SleepStep(r)
  PROVE  MemoryType' /\ MemoryInv'
<1>1. /\ allocator \in [DP -> Allocators] /\ asleep \in [DP -> SUBSET PoolTags]
      /\ discarded \in [DP -> BOOLEAN] /\ allocator[r] \in Allocators
      /\ asleep[r] \in SUBSET PoolTags /\ discarded[r] \in BOOLEAN
  BY DEF MemoryType
<1>2. ASSUME NEW a \in Allocators, NEW s \in SUBSET PoolTags, NEW l \in BOOLEAN,
             allocator' = [allocator EXCEPT ![r] = a], asleep' = [asleep EXCEPT ![r] = s],
             discarded' = [discarded EXCEPT ![r] = l], life' = life,
             ~MayRunOut => Sound(a, AddressesOf(r), s, l) /\ (s # {} => life[r] = "serving")
      PROVE  MemoryType' /\ MemoryInv'
  <2>1. /\ allocator' \in [DP -> Allocators] /\ asleep' \in [DP -> SUBSET PoolTags]
        /\ discarded' \in [DP -> BOOLEAN]
        /\ allocator'[r] = a /\ asleep'[r] = s /\ discarded'[r] = l /\ life'[r] = life[r]
        /\ \A q \in DP \ {r} : /\ allocator'[q] = allocator[q] /\ asleep'[q] = asleep[q]
                               /\ discarded'[q] = discarded[q] /\ life'[q] = life[q]
    BY <1>1, <1>2
  <2>2. AddressesOf(r)' = AddressesOf(r)
    BY <2>1 DEF AddressesOf
  <2>3. ~MayRunOut => MemoryOf(r)'
    BY <1>2, <2>1, <2>2 DEF MemoryOf, Sound, Holds, TagOf
  <2> QED
    BY <2>1, <2>3, MemoryFrame
<1>3. ~MayRunOut => /\ Sound(allocator[r], AddressesOf(r), asleep[r], discarded[r])
                    /\ asleep[r] # {} => life[r] = "serving"
  BY DEF MemoryInv, MemoryOf
<1>4. ASSUME NEW level \in 1 .. 2, WorkerSleep(r, level) PROVE MemoryType' /\ MemoryInv'
  <2>1. PICK offload : offload = IF level = 1 THEN {"weights"} ELSE {}
    OBVIOUS
  <2>2. PICK l \in BOOLEAN : l <=> discarded[r] \/ level = 2
    OBVIOUS
  <2>3. (discarded[r] \/ level = 2) = l
    BY <1>1, <2>2
  <2>4. /\ allocator' = [allocator EXCEPT ![r] = Sleep(allocator[r], offload)]
        /\ asleep' = [asleep EXCEPT ![r] = PoolTags]
        /\ discarded' = [discarded EXCEPT ![r] = l]
        /\ life' = life /\ life[r] = "serving" /\ asleep[r] = {}
    BY <1>4, <2>1, <2>3 DEF WorkerSleep, Awake
  <2>5. Sleep(allocator[r], offload) \in Allocators
    BY <1>1, SleepSound
  <2>6. ~MayRunOut => Sound(Sleep(allocator[r], offload), AddressesOf(r), PoolTags,
                            discarded[r] \/ level = 2)
    <3>1. (level = 1 \/ level = 2) /\ (level = 1 => offload = {"weights"})
      BY <2>1
    <3> QED
      BY <1>1, <1>3, <2>4, <3>1, SleepSound
  <2>7. ~MayRunOut => Sound(Sleep(allocator[r], offload), AddressesOf(r), PoolTags, l)
    BY <2>3, <2>6
  <2> QED
    BY <1>2, <2>4, <2>5, <2>7
<1>5. ASSUME NEW tags \in SUBSET PoolTags, WorkerWakeUp(r, tags) PROVE MemoryType' /\ MemoryInv'
  <2>1. PICK fits \in IF MayRunOut THEN SUBSET Ptr ELSE {Ptr} :
          allocator' = [allocator EXCEPT ![r] = WakeUp(allocator[r], tags, fits)]
    BY <1>5 DEF WorkerWakeUp
  <2>2. /\ asleep' = [asleep EXCEPT ![r] = asleep[r] \ tags] /\ discarded' = discarded
        /\ life' = life /\ tags # {} /\ tags \subseteq asleep[r]
    BY <1>5 DEF WorkerWakeUp
  <2>3. WakeUp(allocator[r], tags, fits) \in Allocators
    BY <1>1, WakeUpSound
  <2>4. ~MayRunOut => Sound(WakeUp(allocator[r], tags, fits), AddressesOf(r),
                            asleep[r] \ tags, discarded[r])
    BY <1>1, <1>3, <2>1, <2>2, WakeUpSound
  <2>5. asleep[r] \ tags \in SUBSET PoolTags /\ discarded' = [discarded EXCEPT ![r] = discarded[r]]
    BY <1>1, <2>2
  <2>6. ~MayRunOut => life[r] = "serving"
    BY <1>3, <2>2
  <2> QED
    BY <1>1, <1>2, <2>1, <2>2, <2>3, <2>4, <2>5, <2>6, ZenonT(40)
<1>6. CASE ReloadWeights(r)
  <2>1. /\ allocator' = [allocator EXCEPT ![r] = Reload(allocator[r])]
        /\ asleep[r] = {} /\ asleep' = asleep /\ life' = life
        /\ discarded' = [discarded EXCEPT ![r] = FALSE]
    BY <1>6 DEF ReloadWeights, Reload
  <2>2. asleep' = [asleep EXCEPT ![r] = {}]
    BY <1>1, <2>1
  <2>3. Reload(allocator[r]) \in Allocators
    BY <1>1, ReloadSound
  <2>4. ~MayRunOut => Sound(Reload(allocator[r]), AddressesOf(r), {}, FALSE)
    BY <1>1, <1>3, <2>1, ReloadSound
  <2> QED
    BY <1>2, <2>1, <2>2, <2>3, <2>4
<1> QED
  BY <1>4, <1>5, <1>6 DEF SleepStep

-----------------------------------------------------------------------------
(* The specification. *)

(* Nothing of the start-up changes. *)
LEMMA LifeStutter ==
  ASSUME LifeInv, mode' = mode, wave' \in BOOLEAN, life' = life, todo' = todo, graphs' = graphs
  PROVE  LifeInv'
<1>1. \A q \in DP : GraphsOf(q) => GraphsOf(q)'
  BY DEF GraphsOf, Fits
<1> QED
  BY <1>1 DEF LifeInv

(* execute_model and execute_dummy_batch start a step with a batch that    *)
(* fits.                                                                   *)
LEMMA EngineStepKeeps ==
  ASSUME StepInv, NEW r \in DP, EngineStep(r)
  PROVE  StepInv' /\ mode' = mode
<1>1. ASSUME NEW n \in 1 .. MaxTokens, NEW prefill \in BOOLEAN, ExecuteModel(r, n, prefill)
      PROVE  StepInv' /\ mode' = mode
  <2>1. n \in Nat /\ Fits(n)
    BY Sizes
  <2>2. PICK k : k = IF mode = "aclgraph" THEN PadForGraph(n) ELSE n
    OBVIOUS
  <2>3. k \in Nat
    BY <2>1, <2>2, PadForGraphType
  <2>4. PICK b : b = [n |-> n, prefill |-> prefill, dummy |-> FALSE]
    OBVIOUS
  <2>5. b \in Batches /\ b.n = n
    BY <2>1, <2>4 DEF Batches
  <2>6. StartStep(r, b, k)
    BY <1>1, <2>2, <2>4 DEF ExecuteModel
  <2>7. mode' = mode
    BY <2>6 DEF StartStep
  <2> QED
    BY <2>1, <2>3, <2>5, <2>6, <2>7, StartStepKeeps
<1>2. CASE ExecuteDummyBatch(r)
  <2>1. Fits(1)
    BY Sizes
  <2>2. PICK b : b = [n |-> 1, prefill |-> FALSE, dummy |-> TRUE]
    OBVIOUS
  <2>3. b \in Batches /\ b.n = 1
    BY <2>2 DEF Batches
  <2>4. StartStep(r, b, 1)
    BY <1>2, <2>2 DEF ExecuteDummyBatch
  <2>5. mode' = mode
    BY <2>4 DEF StartStep
  <2> QED
    BY <2>1, <2>3, <2>4, <2>5, StartStepKeeps
<1> QED
  BY <1>1, <1>2 DEF EngineStep

(* The workers start with nothing loaded, allocated or captured. *)
LEMMA InitKeeps == Init => IInv
<1> SUFFICES ASSUME Init PROVE IInv
  OBVIOUS
<1>1. /\ mode \in Modes /\ mtp \in BOOLEAN /\ producer \in BOOLEAN
      /\ pc = [r \in DP |-> "idle"] /\ batch = [r \in DP |-> NoBatch]
      /\ inputs = [r \in DP |-> 0] /\ context = [r \in DP |-> NoContext]
      /\ life = [r \in DP |-> "init"] /\ todo = [r \in DP |-> <<>>]
      /\ graphs = [r \in DP |-> {}] /\ allocator = [r \in DP |-> NewAllocator]
      /\ asleep = [r \in DP |-> {}] /\ discarded = [r \in DP |-> FALSE] /\ wave = FALSE
  BY Sizes DEF Init, DPInit
<1>2. StepInv
  <2>1. NoBatch \in Batches /\ NoBatch.n = 0
    BY DEF NoBatch, Batches
  <2>2. NoContext \in Contexts
    <3>1. [r \in DP |-> 0] \in [DP -> Nat]
      OBVIOUS
    <3> QED
      BY <3>1 DEF NoContext, Contexts
  <2>3. StepType
    BY <1>1, <2>1, <2>2 DEF StepType
  <2>4. \A r \in DP : pc[r] = "idle" /\ batch[r].n = 0
    BY <1>1, <2>1
  <2>5. ChainInv
    BY <2>4 DEF ChainInv, Late
  <2>6. AgreeInv
    <3>1. Fits(0)
      BY Sizes
    <3>2. ContextsAgree
      BY <2>4 DEF ContextsAgree
    <3> QED
      BY <2>4, <3>1, <3>2 DEF AgreeInv
  <2> QED
    BY <2>3, <2>5, <2>6 DEF StepInv
<1>3. LifeInv
  <2>1. <<>> \in Seq(Nat) /\ Elems(<<>>) = {}
    BY EmptySeq DEF Elems
  <2>2. \A r \in DP : life[r] = "init" /\ todo[r] = <<>>
    BY <1>1
  <2>3. \A r \in DP : GraphsOf(r)
    BY <2>1, <2>2 DEF GraphsOf
  <2> QED
    BY <1>1, <2>1, <2>3 DEF LifeInv, Lives
<1>4. NewAllocator \in Allocators /\ Sound(NewAllocator, {}, {}, FALSE)
  <2>1. PICK f : f = [p \in {} |-> NoData]
    OBVIOUS
  <2>2. f \in [{} -> AllocationData] /\ f = <<>>
    BY <2>1
  <2>3. NewAllocator = [ptrs |-> f, current_tag |-> DefaultTag, misuse |-> FALSE]
    BY <2>2 DEF NewAllocator
  <2>4. NewAllocator \in Allocators
    BY <2>2, <2>3, AllocatorMade DEF MemTags
  <2> QED
    BY <2>2, <2>3, <2>4 DEF Sound
<1>5. MemoryType
  BY <1>1, <1>4 DEF MemoryType
<1>6. MemoryInv
  <2>1. \A r \in DP : /\ allocator[r] = NewAllocator /\ asleep[r] = {} /\ life[r] = "init"
                      /\ discarded[r] = FALSE
    BY <1>1
  <2>2. \A r \in DP : AddressesOf(r) = {}
    BY <2>1 DEF AddressesOf
  <2> QED
    BY <1>4, <2>1, <2>2 DEF MemoryInv, MemoryOf
<1> QED
  BY <1>2, <1>3, <1>5, <1>6 DEF IInv

(* Every step of a worker, of the engines or of the group keeps the        *)
(* invariant.                                                              *)
LEMMA NextKeeps == IInv /\ [Next]_vars => IInv'
<1> SUFFICES ASSUME IInv, [Next]_vars PROVE IInv'
  OBVIOUS
<1>0. StepInv /\ LifeInv /\ MemoryType /\ MemoryInv /\ wave \in BOOLEAN
  BY DEF IInv, LifeInv
<1>1. ASSUME NEW r \in DP, StartUp(r) PROVE IInv'
  BY <1>0, <1>1, StartUpKeeps, StartUpMemory DEF IInv
<1>2. ASSUME NEW r \in DP, EngineStep(r) PROVE IInv'
  <2>1. /\ life' = life /\ todo' = todo /\ graphs' = graphs /\ wave' = wave
        /\ allocator' = allocator /\ asleep' = asleep /\ discarded' = discarded
    BY <1>2 DEF EngineStep, workerVars
  <2>2. StepInv' /\ mode' = mode
    BY <1>0, <1>2, EngineStepKeeps
  <2>3. LifeInv'
    BY <1>0, <2>1, <2>2, LifeStutter
  <2>4. MemoryType' /\ MemoryInv'
    BY <1>0, <2>1, MemoryStutter
  <2> QED
    BY <2>2, <2>3, <2>4 DEF IInv
<1>3. ASSUME NEW r \in DP, SleepStep(r) PROVE IInv'
  <2>1. UNCHANGED dpVars /\ life' = life /\ todo' = todo /\ graphs' = graphs /\ wave' = wave
    BY <1>3 DEF SleepStep, WorkerSleep, WorkerWakeUp, ReloadWeights
  <2>2. StepInv' /\ mode' = mode
    BY <1>0, <2>1, StepFrame DEF dpVars
  <2>3. LifeInv'
    BY <1>0, <2>1, <2>2, LifeStutter
  <2>4. MemoryType' /\ MemoryInv'
    BY <1>0, <1>3, SleepMemory
  <2> QED
    BY <2>2, <2>3, <2>4 DEF IInv
<1>4. ASSUME StartWave \/ EndWave \/ UNCHANGED vars PROVE IInv'
  <2>1. /\ UNCHANGED dpVars /\ UNCHANGED workerVars /\ wave' \in BOOLEAN
    BY <1>0, <1>4 DEF StartWave, EndWave, vars
  <2>2. StepInv' /\ mode' = mode
    BY <1>0, <2>1, StepFrame DEF dpVars
  <2>3. LifeInv'
    BY <1>0, <2>1, <2>2, LifeStutter DEF workerVars
  <2>4. MemoryType' /\ MemoryInv'
    BY <1>0, <2>1, MemoryStutter DEF workerVars
  <2> QED
    BY <2>2, <2>3, <2>4 DEF IInv
<1>5. CASE CollectiveStep
  <2>1. Collective /\ UNCHANGED workerVars /\ wave' = wave
    BY <1>5 DEF CollectiveStep
  <2>2. mode' = mode
    BY <2>1 DEF Collective, PadReduce, MetaReduce, Forward, DraftMetaReduce, DraftForward
  <2>3. StepInv'
    BY <1>0, <2>1, CollectiveKeeps
  <2>4. LifeInv'
    BY <1>0, <2>1, <2>2, LifeStutter DEF workerVars
  <2>5. MemoryType' /\ MemoryInv'
    BY <1>0, <2>1, MemoryStutter DEF workerVars
  <2> QED
    BY <2>3, <2>4, <2>5 DEF IInv
<1> QED
  BY <1>1, <1>2, <1>3, <1>4, <1>5 DEF Next

(* The invariant holds in every state of the workers. *)
LEMMA Invariant == Spec => []IInv
BY InitKeeps, NextKeeps, PTL DEF Spec

-----------------------------------------------------------------------------
(* Every variable keeps its type, with memory running out or not. *)
THEOREM TypeCorrect == Spec => []TypeOK
<1>1. IInv => TypeOK
  <2> SUFFICES ASSUME IInv PROVE TypeOK
    OBVIOUS
  <2>1. StepType /\ LifeInv /\ MemoryType
    BY DEF IInv, StepInv
  <2>2. \A r \in DP : allocator[r] \in Allocators
    BY <2>1 DEF MemoryType
  <2> QED
    BY <2>1, <2>2 DEF TypeOK, StepType, LifeInv, MemoryType, Batches, Contexts
<1> QED
  BY <1>1, Invariant, PTL

(* get_dp_padding, _get_forward_metadata_across_dp and the drafter: for    *)
(* any number of ranks, in start-up, capture and serving, no two ranks     *)
(* wait in different collectives.                                          *)
THEOREM RanksMeet == Spec => []SameCollective
<1>1. IInv => SameCollective
  <2> SUFFICES ASSUME IInv, NEW r \in DP, NEW q \in DP, pc[r] # "idle", pc[q] # "idle"
               PROVE  pc[r] = pc[q]
    BY DEF SameCollective
  <2>1. StepType /\ ChainInv
    BY DEF IInv, StepInv
  <2>2. /\ pc[r] \in {"pad", "meta", "forward", "draft_meta", "draft"}
        /\ pc[q] \in {"pad", "meta", "forward", "draft_meta", "draft"}
    BY <2>1 DEF StepType
  <2>3. CASE pc[r] \in Late \/ pc[q] \in Late
    BY <2>1, <2>3 DEF ChainInv
  <2>4. CASE pc[r] \notin Late /\ pc[q] \notin Late
    BY <2>1, <2>2, <2>4 DEF ChainInv, Late, FirstCollective
  <2> QED
    BY <2>3, <2>4
<1> QED
  BY <1>1, Invariant, PTL

(* set_ascend_forward_context: all ranks see the same token counts and     *)
(* choose the same MoE exchange, outside the two cases of DummyDiverges.   *)
THEOREM OneContext == Spec => []ContextsAgree
<1>1. IInv => ContextsAgree
  BY DEF IInv, StepInv, AgreeInv
<1> QED
  BY <1>1, Invariant, PTL

(* NPUTorchairModelRunner: a decode-only step runs a graph that every rank *)
(* has compiled.                                                           *)
THEOREM GraphsReady == Spec => []DecodesFromGraphs
<1>1. IInv => DecodesFromGraphs
  <2> SUFFICES ASSUME IInv, mode = "torchair", NEW r \in DP, pc[r] = "forward",
                      life[r] = "serving", ~context[r].with_prefill
               PROVE  context[r].num_tokens \in graphs[r]
    BY DEF DecodesFromGraphs
  <2>1. context[r].num_tokens \in TorchairSizes
    BY DEF IInv, StepInv, AgreeInv
  <2>2. TorchairSizes \subseteq graphs[r]
    BY DEF IInv, LifeInv, GraphsOf
  <2> QED
    BY <2>1, <2>2
<1> QED
  BY <1>1, Invariant, PTL

(* CaMemAllocator.sleep and wake_up: through any sequence of levels and    *)
(* partial wake-ups no address is mapped or released twice, and an awake   *)
(* rank has its weights, as long as the device has memory for what is      *)
(* woken up (create_and_map does not report that it has not).              *)
THEOREM WeightsSurvive == ~MayRunOut => (Spec => []SleepKeepsWeights)
<1> SUFFICES ASSUME ~MayRunOut PROVE Spec => []SleepKeepsWeights
  OBVIOUS
<1>1. IInv => SleepKeepsWeights
  <2> SUFFICES ASSUME IInv, NEW r \in DP
               PROVE  /\ ~allocator[r].misuse
                      /\ asleep[r] = {} => \A p \in DOMAIN allocator[r].ptrs :
                           /\ allocator[r].ptrs[p].mapped
                           /\ p \in WeightPtr /\ ~discarded[r]
                                => allocator[r].ptrs[p].mem = "weights"
    BY DEF SleepKeepsWeights
  <2>1. Sound(allocator[r], AddressesOf(r), asleep[r], discarded[r])
    BY DEF IInv, MemoryInv, MemoryOf
  <2> QED
    BY <2>1 DEF Sound, Holds
<1> QED
  BY <1>1, Invariant, PTL
=============================================================================
