------------------------------ MODULE NPUWorker ------------------------------
(***************************************************************************)
(* The workers of a data-parallel group, one per rank: their start-up      *)
(* (load the model, profile, allocate the KV cache, warm up and capture),  *)
(* serving in lockstep (DPForward) and sleep mode (CaMemAllocator).        *)
(*                                                                         *)
(* The engine above a worker is vLLM's: its busy loop steps every rank as  *)
(* long as any rank has work, its executor passes sleep and wake_up on     *)
(* only when they change something.                                        *)
(***************************************************************************)
EXTENDS CaMemAllocator, DPForward, SortedLists

CONSTANTS
  WeightPtr, KvPtr,  \* the addresses of the model's weights and of the KV cache
  SleepMode,         \* enable_sleep_mode
  MayRunOut          \* device memory may be taken by others while asleep

ASSUME WorkerAssumption ==
  /\ WeightPtr \cup KvPtr \subseteq Ptr
  /\ WeightPtr \cap KvPtr = {}
  /\ {SleepMode, MayRunOut} \subseteq BOOLEAN

VARIABLES
  life,       \* how far the start-up of rank r's worker is
  todo,       \* sizes of the dummy runs it still has to make
  graphs,     \* batch sizes it has captured or compiled
  allocator,  \* its CaMemAllocator
  asleep,     \* executor.sleeping_tags
  discarded,  \* a level-2 sleep has discarded the weights
  wave        \* the engines are running

workerVars == <<life, todo, graphs, allocator, asleep, discarded>>
vars       == <<dpVars, workerVars, wave>>

Lives    == {"init", "profile", "profiled", "warmup", "serving"}
PoolTags == {"weights", "kv_cache"}

(* The type of every variable. *)
TypeOK ==
  /\ mode \in Modes /\ mtp \in BOOLEAN /\ producer \in BOOLEAN /\ wave \in BOOLEAN
  /\ pc \in [DP -> {"idle", "pad", "meta", "forward", "draft_meta", "draft"}]
  /\ batch \in [DP -> [n : Nat, prefill : BOOLEAN, dummy : BOOLEAN]]
  /\ inputs \in [DP -> Nat]
  /\ context \in [DP -> [num_tokens : Nat, across : [DP -> Nat], with_prefill : BOOLEAN]]
  /\ life \in [DP -> Lives]
  /\ todo \in [DP -> Seq(Nat)]
  /\ graphs \in [DP -> SUBSET Nat]
  /\ \A r \in DP : allocator[r] \in Allocators
  /\ asleep \in [DP -> SUBSET PoolTags]
  /\ discarded \in [DP -> BOOLEAN]

Init ==
  /\ DPInit
  /\ life = [r \in DP |-> "init"]
  /\ todo = [r \in DP |-> <<>>]
  /\ graphs = [r \in DP |-> {}]
  /\ allocator = [r \in DP |-> NewAllocator]
  /\ asleep = [r \in DP |-> {}]
  /\ discarded = [r \in DP |-> FALSE]
  /\ wave = FALSE

-----------------------------------------------------------------------------
(* Start-up. *)

(* Allocate the addresses and fill them. *)
Fill(a, ptrs, content) ==
  LET m == MyMalloc(a, ptrs)
  IN  [m EXCEPT !.ptrs = [p \in DOMAIN @ |->
         IF p \in ptrs THEN [@[p] EXCEPT !.mem = content] ELSE @[p]]]

InPool(a, tag, ptrs) ==
  IF SleepMode THEN LeaveMemoryPool(Fill(EnterMemoryPool(a, tag), ptrs, tag), a) ELSE a

(* load_model, in the memory pool "weights" if there is sleep mode. *)
LoadModel(r) ==
  /\ life[r] = "init"
  /\ GetCurrentUsage(allocator[r]) = 0
  /\ allocator' = [allocator EXCEPT ![r] = InPool(@, "weights", WeightPtr)]
  /\ life' = [life EXCEPT ![r] = "profile"]
  /\ todo' = [todo EXCEPT ![r] = <<MaxTokens>>]
  /\ UNCHANGED <<dpVars, graphs, asleep, discarded, wave>>

(* profile_run: one dummy run of the largest batch, as a prefill; the end  *)
(* of determine_available_memory.                                          *)
ProfileRun(r) ==
  /\ life[r] = "profile"
  /\ todo[r] # <<>>
  /\ StartStep(r, [n |-> Head(todo[r]), prefill |-> TRUE, dummy |-> TRUE], Head(todo[r]))
  /\ todo' = [todo EXCEPT ![r] = Tail(@)]
  /\ UNCHANGED <<life, graphs, allocator, asleep, discarded, wave>>

DetermineAvailableMemory(r) ==
  /\ life[r] = "profile" /\ todo[r] = <<>> /\ pc[r] = "idle"
  /\ life' = [life EXCEPT ![r] = "profiled"]
  /\ UNCHANGED <<dpVars, todo, graphs, allocator, asleep, discarded, wave>>

(* A variant that leaves out the largest batch size. *)
CaptureList_NoMax ==
  LET sizes == IF mode = "torchair" THEN TorchairSizes ELSE CaptureSizes
  IN  IF mode = "eager" THEN <<>>
      ELSE Reverse(Ascending(sizes \ {Max(sizes)}))

(* _capture_aclgraphs and _compile_torchair_graph: the sizes in reverse    *)
(* order, largest first, each once here (the code repeats it to warm up).  *)
CaptureList ==
  LET sizes == IF mode = "torchair" THEN TorchairSizes ELSE CaptureSizes
  IN  IF mode = "eager" THEN <<>>
      ELSE Reverse(Ascending(sizes))

(* initialize_from_config: the KV cache, in its own pool. *)
InitializeFromConfig(r) ==
  /\ life[r] = "profiled"
  /\ allocator' = [allocator EXCEPT ![r] = InPool(@, "kv_cache", KvPtr)]
  /\ life' = [life EXCEPT ![r] = "warmup"]
  /\ todo' = [todo EXCEPT ![r] = CaptureList]
  /\ UNCHANGED <<dpVars, graphs, asleep, discarded, wave>>

(* compile_or_warm_up_model: a dummy run per size captures its graph.  The *)
(* metadata exchange may have padded the size further.                     *)
CaptureRun(r) ==
  /\ life[r] = "warmup"
  /\ todo[r] # <<>>
  /\ StartStep(r, [n |-> Head(todo[r]), prefill |-> FALSE, dummy |-> TRUE], Head(todo[r]))
  /\ graphs' = [graphs EXCEPT ![r] = @ \cup {Head(todo[r])}]
  /\ todo' = [todo EXCEPT ![r] = Tail(@)]
  /\ UNCHANGED <<life, allocator, asleep, discarded, wave>>

WarmUpDone(r) ==
  /\ life[r] = "warmup" /\ todo[r] = <<>> /\ pc[r] = "idle"
  /\ life' = [life EXCEPT ![r] = "serving"]
  /\ UNCHANGED <<dpVars, todo, graphs, allocator, asleep, discarded, wave>>

-----------------------------------------------------------------------------
(* Serving. *)

Awake(r) == life[r] = "serving" /\ asleep[r] = {}

(* Work arrives at some rank: all engines start stepping ... *)
StartWave ==
  /\ ~wave
  /\ \A r \in DP : Awake(r) /\ ~discarded[r]
  /\ wave' = TRUE
  /\ UNCHANGED <<dpVars, workerVars>>

(* ... until they agree that no rank has any left. *)
EndWave ==
  /\ wave
  /\ \A r \in DP : pc[r] = "idle"
  /\ wave' = FALSE
  /\ UNCHANGED <<dpVars, workerVars>>

EngineStep(r) ==
  /\ wave
  /\ \/ \E n \in 1 .. MaxTokens, prefill \in BOOLEAN : ExecuteModel(r, n, prefill)
     \/ ExecuteDummyBatch(r)
  /\ UNCHANGED <<workerVars, wave>>

CollectiveStep == Collective /\ UNCHANGED <<workerVars, wave>>

-----------------------------------------------------------------------------
(* Sleep mode, between waves. *)

(* NPUWorker.sleep(level): level 1 offloads the weights, level 2 nothing.  *)
(* The executor passes the call on only if it is not sleeping.             *)
WorkerSleep(r, level) ==
  /\ SleepMode /\ ~wave
  /\ Awake(r)
  /\ allocator' = [allocator EXCEPT ![r] = Sleep(@, IF level = 1 THEN {"weights"} ELSE {})]
  /\ discarded' = [discarded EXCEPT ![r] = @ \/ level = 2]
  /\ asleep' = [asleep EXCEPT ![r] = PoolTags]
  /\ UNCHANGED <<dpVars, life, todo, graphs, wave>>

(* NPUWorker.wake_up(tags), for tags that are asleep. *)
WorkerWakeUp(r, tags) ==
  /\ tags # {} /\ tags \subseteq asleep[r]
  /\ \E fits \in IF MayRunOut THEN SUBSET Ptr ELSE {Ptr} :
       allocator' = [allocator EXCEPT ![r] = WakeUp(@, tags, fits)]
  /\ asleep' = [asleep EXCEPT ![r] = @ \ tags]
  /\ UNCHANGED <<dpVars, life, todo, graphs, discarded, wave>>

(* After a level-2 sleep the caller loads weights again. *)
ReloadWeights(r) ==
  /\ discarded[r] /\ asleep[r] = {}
  /\ allocator' = [allocator EXCEPT ![r].ptrs = [p \in DOMAIN @ |->
       IF @[p].tag = "weights" THEN [@[p] EXCEPT !.mem = "weights"] ELSE @[p]]]
  /\ discarded' = [discarded EXCEPT ![r] = FALSE]
  /\ UNCHANGED <<dpVars, life, todo, graphs, asleep, wave>>

-----------------------------------------------------------------------------
StartUp(r) == \/ LoadModel(r) \/ ProfileRun(r) \/ DetermineAvailableMemory(r)
              \/ InitializeFromConfig(r) \/ CaptureRun(r) \/ WarmUpDone(r)

SleepStep(r) == \/ \E level \in 1 .. 2 : WorkerSleep(r, level)
                \/ \E tags \in SUBSET PoolTags : WorkerWakeUp(r, tags)
                \/ ReloadWeights(r)

Next == \/ \E r \in DP : StartUp(r) \/ EngineStep(r) \/ SleepStep(r)
        \/ StartWave \/ EndWave
        \/ CollectiveStep

Spec == Init /\ [][Next]_vars

(* Every worker's process keeps running: its start-up goes on, and during  *)
(* a wave it steps; a collective that all ranks have called completes.     *)
FairSpec ==
  /\ Spec
  /\ \A r \in DP : WF_vars(StartUp(r)) /\ WF_vars(EngineStep(r))
  /\ WF_vars(CollectiveStep)

-----------------------------------------------------------------------------
(* CaMemAllocator.sleep and wake_up, through any sequence of both levels   *)
(* and of partial wake-ups: no address is ever mapped twice, unmapped      *)
(* twice or copied while unmapped, and a rank that is awake has all its    *)
(* memory, with its weights in it unless it was told to discard them.      *)
SleepKeepsWeights ==
  \A r \in DP :
    /\ ~allocator[r].misuse
    /\ asleep[r] = {} => \A p \in DOMAIN allocator[r].ptrs :
         /\ allocator[r].ptrs[p].mapped
         /\ p \in WeightPtr /\ ~discarded[r] => allocator[r].ptrs[p].mem = "weights"

(* NPUTorchairModelRunner: a decode-only step of the group runs a graph of *)
(* a size that every rank compiled while it warmed up, whatever the ranks' *)
(* own batch sizes are.                                                    *)
DecodesFromGraphs ==
  mode = "torchair" => \A r \in DP :
    pc[r] = "forward" /\ life[r] = "serving" /\ ~context[r].with_prefill
      => context[r].num_tokens \in graphs[r]

(* _dummy_run, execute_dummy_batch: no rank is left waiting in a           *)
(* collective, in start-up, profiling, capture or serving.                 *)
NoRankHangs == \A r \in DP : pc[r] # "idle" ~> pc[r] = "idle"
=============================================================================
