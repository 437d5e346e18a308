--------------------------- MODULE AscendScheduler ---------------------------
(***************************************************************************)
(* AscendScheduler without chunked prefill: prefill first, and a decode    *)
(* batch only when no prefill is scheduled or in flight.                   *)
(*                                                                         *)
(* schedule() is two loops.  Each iteration is one action here, and pc     *)
(* tells which loop the scheduler is in; every other operation waits until *)
(* pc is "idle", because one thread runs them all.  Between schedule() and *)
(* update_from_output() a batch is in flight; with a batch queue there may *)
(* be several.  The KV cache is counted in blocks, without prefix caching. *)
(* The block pool, the request objects and the base class's                *)
(* update_from_output are vLLM's.                                          *)
(***************************************************************************)
EXTENDS Integers, Sequences, FiniteSets, SequencesExt, RequestLists

CONSTANTS
  NumReq,       \* requests, numbered in the order they arrive
  PromptLen,    \* [Req -> Nat]: prompt tokens
  MaxTokens,    \* output tokens after which a request stops
  RemoteReq,    \* requests that come with do_remote_prefill
  Lora,         \* [Req -> adapter or NoLora]
  NoLora,
  MaxLoras,
  BlockSize,
  NumBlocks,    \* kv_cache_config.num_blocks, the null block included
  WatermarkPct, \* scheduler_config.watermark, in percent
  MaxNumSeqs,   \* max_num_running_reqs
  MaxBatchedTokens,
  MaxModelLen,
  NumSpec,      \* draft tokens a proposer may add to a request
  Lookahead,    \* num_lookahead_tokens
  MaxInFlight,  \* batches scheduled and not yet updated
  MayAbort      \* clients abort requests

Req == 1 .. NumReq

ASSUME SizesAssumption ==
  /\ {NumReq, MaxTokens, MaxLoras, BlockSize, NumBlocks, MaxNumSeqs, MaxInFlight,
      MaxBatchedTokens, MaxModelLen} \subseteq Nat \ {0}
  /\ {WatermarkPct, NumSpec, Lookahead} \subseteq Nat
  /\ MaxModelLen <= MaxBatchedTokens       \* AscendSchedulerConfig.__post_init__

ASSUME RequestAssumption ==
  /\ PromptLen \in [Req -> 1 .. MaxModelLen]
  /\ RemoteReq \subseteq Req
  /\ DOMAIN Lora = Req
  /\ MayAbort \in BOOLEAN

VARIABLES
  status,          \* request.status; "absent" when not in self.requests
  numTokens,       \* request.num_tokens
  numComputed,     \* request.num_computed_tokens
  spec,            \* len(request.spec_token_ids)
  doRemotePrefill, \* params["do_remote_prefill"]
  recvDone,        \* finished_recving_kv_req_ids
  waiting, running,
  scheduledReqIds,
  finishedReqIds,
  blocks, free,    \* blocks of each request, and in the pool
  inflight,        \* batches handed to the workers, oldest first
  pc, budget, skipped, reqIndex, sched, loras   \* locals of schedule()

reqVars  == <<status, numTokens, numComputed, spec, doRemotePrefill, recvDone>>
setVars  == <<waiting, running, scheduledReqIds, finishedReqIds>>
poolVars == <<blocks, free>>
locals   == <<budget, skipped, reqIndex, sched, loras>>
vars     == <<reqVars, setVars, poolVars, inflight, pc, locals>>

Statuses == {"absent", "WAITING", "WAITING_FOR_REMOTE_KVS", "RUNNING", "PREEMPTED",
             "FINISHED", "FINISHED_IGNORED"}
Alive    == {"WAITING", "WAITING_FOR_REMOTE_KVS", "RUNNING", "PREEMPTED"}

Least(a, b) == IF a <= b THEN a ELSE b
Cdiv(a, b)  == (a + b - 1) \div b

(* What is said of a batch: how many tokens of each request are computed,  *)
(* how many of them are drafts, and which requests start or start again.   *)
EmptyBatch == [tokens  |-> [r \in Req |-> 0], drafts |-> [r \in Req |-> 0],
               new |-> {}, resumed |-> {}]
Batch      == [tokens  : [Req -> 0 .. MaxModelLen], drafts : [Req -> 0 .. NumSpec],
               new : SUBSET Req, resumed : SUBSET Req]

InBatch(b) == {r \in Req : b.tokens[r] > 0}

(* The type of every variable. *)
TypeOK ==
  /\ status \in [Req -> Statuses]
  /\ numTokens \in [Req -> 0 .. MaxModelLen + 1]
  /\ numComputed \in [Req -> 0 .. MaxModelLen]
  /\ spec \in [Req -> 0 .. NumSpec]
  /\ doRemotePrefill \subseteq RemoteReq
  /\ recvDone \subseteq Req
  /\ waiting \in Seq(Req) /\ running \in Seq(Req) /\ skipped \in Seq(Req)
  /\ scheduledReqIds \subseteq Req /\ finishedReqIds \subseteq Req
  /\ blocks \in [Req -> 0 .. NumBlocks]
  /\ free \in 0 .. NumBlocks - 1
  /\ inflight \in Seq(Batch) /\ Len(inflight) <= MaxInFlight
  /\ pc \in {"idle", "prefill", "decode", "output"}
  /\ budget \in 0 .. MaxBatchedTokens
  /\ reqIndex \in 1 .. NumReq + 1
  /\ sched \in Batch
  /\ loras \subseteq {Lora[r] : r \in Req}

Init ==
  /\ status = [r \in Req |-> "absent"]
  /\ numTokens = [r \in Req |-> 0]
  /\ numComputed = [r \in Req |-> 0]
  /\ spec = [r \in Req |-> 0]
  /\ doRemotePrefill = RemoteReq
  /\ recvDone = {}
  /\ waiting = <<>> /\ running = <<>>
  /\ scheduledReqIds = {} /\ finishedReqIds = {}
  /\ blocks = [r \in Req |-> 0]
  /\ free = NumBlocks - 1
  /\ inflight = <<>>
  /\ pc = "idle"
  /\ budget = 0 /\ skipped = <<>> /\ reqIndex = 1 /\ sched = EmptyBatch /\ loras = {}

-----------------------------------------------------------------------------
(* The block pool, as vLLM's KVCacheManager uses it. *)

(* Blocks request r lacks to have room for n more computed tokens. *)
Missing(r, n) ==
  LET need == Cdiv(Least(numComputed[r] + n + Lookahead, MaxModelLen), BlockSize)
  IN  IF need > blocks[r] THEN need - blocks[r] ELSE 0

CanAllocate(r, n) == Missing(r, n) <= free

Allocate(r, n) ==
  /\ blocks' = [blocks EXCEPT ![r] = @ + Missing(r, n)]
  /\ free' = free - Missing(r, n)

FreeBlocks(R) ==
  /\ blocks' = [r \in Req |-> IF r \in R THEN 0 ELSE blocks[r]]
  /\ free' = free + Total(blocks, R, NumBlocks)

-----------------------------------------------------------------------------
(* Requests come and go. *)

AddRequest(r) ==
  /\ pc = "idle"
  /\ status[r] = "absent" /\ numTokens[r] = 0
  /\ \A q \in 1 .. r - 1 : numTokens[q] > 0
  /\ status' = [status EXCEPT ![r] = "WAITING"]
  /\ numTokens' = [numTokens EXCEPT ![r] = PromptLen[r]]
  /\ waiting' = Append(waiting, r)
  /\ UNCHANGED <<numComputed, spec, doRemotePrefill, recvDone, running, scheduledReqIds,
                 finishedReqIds, poolVars, inflight, pc, locals>>

(* The Ascend part of finish_requests, and a variant that forgets it. *)
DiscardScheduled_Forgotten(r) == UNCHANGED scheduledReqIds

DiscardScheduled(r) ==
  scheduledReqIds' = IF status[r] = "RUNNING" THEN scheduledReqIds \ {r} ELSE scheduledReqIds

(* finish_requests([r]), and the base class's: the client is gone.  The    *)
(* request's batch may be in flight.                                       *)
FinishRequests(r) ==
  /\ pc = "idle"
  /\ MayAbort
  /\ status[r] \in Alive
  /\ DiscardScheduled(r)
  /\ status' = [status EXCEPT ![r] = "FINISHED"]
  /\ waiting' = Without(waiting, {r})
  /\ running' = Without(running, {r})
  /\ finishedReqIds' = finishedReqIds \cup {r}
  /\ FreeBlocks({r})
  /\ UNCHANGED <<numTokens, numComputed, spec, doRemotePrefill, recvDone, inflight, pc, locals>>

(* The workers report that the remote KV cache of r has arrived. *)
FinishedRecving(r) ==
  /\ pc = "idle"
  /\ status[r] = "WAITING_FOR_REMOTE_KVS"
  /\ r \notin recvDone
  /\ recvDone' = recvDone \cup {r}
  /\ UNCHANGED <<status, numTokens, numComputed, spec, doRemotePrefill, setVars, poolVars,
                 inflight, pc, locals>>

-----------------------------------------------------------------------------
(* schedule(): the prefill loop. *)

Begin ==
  /\ pc = "idle"
  /\ Len(inflight) < MaxInFlight
  /\ waiting # <<>> \/ running # <<>>
  /\ pc' = "prefill"
  /\ budget' = MaxBatchedTokens
  /\ skipped' = <<>>
  /\ sched' = EmptyBatch
  /\ loras' = {}
  /\ UNCHANGED <<reqVars, setVars, poolVars, inflight, reqIndex>>

PrefillLoop == /\ pc = "prefill"
               /\ waiting # <<>>
               /\ budget > 0
               /\ Len(running) # MaxNumSeqs

LoraBlocked(r) == /\ Lora[r] # NoLora
                  /\ Cardinality(loras) = MaxLoras
                  /\ Lora[r] \notin loras

(* A variant that puts a skipped request behind those skipped before. *)
SkipCurRequest_Append ==
  /\ skipped' = Append(skipped, Head(waiting))
  /\ waiting' = Tail(waiting)
  /\ UNCHANGED <<reqVars, running, scheduledReqIds, finishedReqIds, poolVars, inflight, pc,
                 budget, reqIndex, sched, loras>>

SkipCurRequest ==
  /\ skipped' = <<Head(waiting)>> \o skipped
  /\ waiting' = Tail(waiting)
  /\ UNCHANGED <<reqVars, running, scheduledReqIds, finishedReqIds, poolVars, inflight, pc,
                 budget, reqIndex, sched, loras>>

RemoteNotReady(r) == status[r] = "WAITING_FOR_REMOTE_KVS"

SkipRemote(r) ==
  /\ PrefillLoop /\ r = Head(waiting)
  /\ RemoteNotReady(r) /\ r \notin recvDone
  /\ SkipCurRequest

(* _update_waiting_for_remote_kv: the blocks are full, but the last token  *)
(* is always computed here.  The loop goes on with the same request.       *)
ResumeRemote(r) ==
  /\ PrefillLoop /\ r = Head(waiting)
  /\ RemoteNotReady(r) /\ r \in recvDone
  /\ recvDone' = recvDone \ {r}
  /\ status' = [status EXCEPT ![r] = "WAITING"]
  /\ numComputed' = [numComputed EXCEPT ![r] = Least(blocks[r] * BlockSize, numTokens[r] - 1)]
  /\ UNCHANGED <<numTokens, spec, doRemotePrefill, setVars, poolVars, inflight, pc, locals>>

SkipLora(r) ==
  /\ PrefillLoop /\ r = Head(waiting)
  /\ ~RemoteNotReady(r) /\ LoraBlocked(r)
  /\ SkipCurRequest

(* The request passed the checks above; external tokens are those the      *)
(* connector will load.                                                    *)
Considered(r)     == PrefillLoop /\ r = Head(waiting) /\ ~RemoteNotReady(r) /\ ~LoraBlocked(r)
ExternalTokens(r) == IF numComputed[r] = 0 /\ r \in doRemotePrefill
                     THEN numTokens[r] - 1 ELSE 0
LoadKvAsync(r)    == ExternalTokens(r) > 0
NumNewTokens(r)   == IF LoadKvAsync(r) THEN 0 ELSE numTokens[r] - numComputed[r]
PromptLimit       == Least(Least(MaxModelLen, MaxBatchedTokens), NumBlocks * BlockSize)

(* _check_watermark_for_prefill: some blocks stay free. *)
CheckWatermark(r, n) ==
  LET num_new_blocks == Cdiv(n + numComputed[r], BlockSize) - blocks[r]
  IN  (free - num_new_blocks) * 100 >= NumBlocks * WatermarkPct

(* "Finish request that exceeds prompt_limit or kv cache size." *)
Ignore(r) ==
  /\ Considered(r)
  /\ NumNewTokens(r) > PromptLimit
  /\ status' = [status EXCEPT ![r] = "FINISHED_IGNORED"]
  /\ finishedReqIds' = finishedReqIds \cup {r}
  /\ waiting' = Tail(waiting)
  /\ UNCHANGED <<numTokens, numComputed, spec, doRemotePrefill, recvDone, running,
                 scheduledReqIds, poolVars, inflight, pc, locals>>

SkipBudget(r) ==
  /\ Considered(r)
  /\ NumNewTokens(r) <= PromptLimit
  /\ NumNewTokens(r) > budget
  /\ SkipCurRequest

SkipWatermark(r) ==
  /\ Considered(r)
  /\ NumNewTokens(r) <= Least(PromptLimit, budget)
  /\ ~CheckWatermark(r, NumNewTokens(r))
  /\ SkipCurRequest

Admissible(r) == /\ Considered(r)
                 /\ NumNewTokens(r) <= Least(PromptLimit, budget)
                 /\ CheckWatermark(r, NumNewTokens(r))

(* The remote KV cache is on its way into the new blocks. *)
StartRemote(r) ==
  /\ Admissible(r) /\ LoadKvAsync(r)
  /\ CanAllocate(r, ExternalTokens(r))
  /\ Allocate(r, ExternalTokens(r))
  /\ doRemotePrefill' = doRemotePrefill \ {r}
  /\ waiting' = Tail(waiting)
  /\ skipped' = <<r>> \o skipped
  /\ status' = [status EXCEPT ![r] = "WAITING_FOR_REMOTE_KVS"]
  /\ UNCHANGED <<numTokens, numComputed, spec, recvDone, running, scheduledReqIds,
                 finishedReqIds, inflight, pc, budget, reqIndex, sched, loras>>

(* scheduled_req_ids.add, and a variant that forgets it. *)
MarkScheduled_Forgotten(r) == UNCHANGED scheduledReqIds

MarkScheduled(r) == scheduledReqIds' = scheduledReqIds \cup {r}

WithLora(r) == IF Lora[r] = NoLora THEN loras ELSE loras \cup {Lora[r]}

(* The whole prompt, or prompt and output of a resumed request, is         *)
(* computed in this batch.                                                 *)
StartPrefill(r) ==
  LET n == NumNewTokens(r) IN
  /\ Admissible(r) /\ ~LoadKvAsync(r)
  /\ CanAllocate(r, n)
  /\ Allocate(r, n)
  /\ doRemotePrefill' = doRemotePrefill \ {r}
  /\ waiting' = Tail(waiting)
  /\ running' = Append(running, r)
  /\ MarkScheduled(r)
  /\ sched' = [sched EXCEPT !.tokens[r] = n,
                            !.new = IF status[r] = "WAITING" THEN @ \cup {r} ELSE @,
                            !.resumed = IF status[r] = "PREEMPTED" THEN @ \cup {r} ELSE @]
  /\ loras' = WithLora(r)
  /\ budget' = budget - n
  /\ status' = [status EXCEPT ![r] = "RUNNING"]
  /\ UNCHANGED <<numTokens, numComputed, spec, recvDone, finishedReqIds, inflight, pc,
                 skipped, reqIndex>>

(* The loop ends, at its condition or because the pool is exhausted;       *)
(* skipped requests go back to the head, and decoding is next if nothing   *)
(* is scheduled, in this batch or in one that is in flight.                *)
PrefillEnds ==
  \/ waiting = <<>> \/ budget = 0 \/ Len(running) = MaxNumSeqs
  \/ LET r == Head(waiting) IN
       /\ Admissible(r)
       /\ ~CanAllocate(r, NumNewTokens(r) + ExternalTokens(r))

(* The condition for decoding, and a variant that forgets the batches in   *)
(* flight.                                                                 *)
NothingScheduled_InThisBatch == InBatch(sched) = {}

NothingScheduled == scheduledReqIds = {}

PutBack ==
  /\ pc = "prefill" /\ PrefillEnds
  /\ waiting' = Reverse(skipped) \o waiting
  /\ pc' = IF NothingScheduled THEN "decode" ELSE "output"
  /\ reqIndex' = 1
  /\ UNCHANGED <<reqVars, running, scheduledReqIds, finishedReqIds, poolVars, inflight,
                 budget, skipped, sched, loras>>

-----------------------------------------------------------------------------
(* schedule(): the decode loop. *)

DecodeLoop == pc = "decode" /\ reqIndex <= Len(running) /\ budget > 0

(* The last token and its drafts, within the limits; a variant without the *)
(* limit of the model's length.                                            *)
DecodeTokens_NoLimit(r) ==
  IF LoraBlocked(r) THEN 0 ELSE Least(numTokens[r] + spec[r] - numComputed[r], budget)

DecodeTokens(r) ==
  IF LoraBlocked(r) THEN 0
  ELSE Least(Least(numTokens[r] + spec[r] - numComputed[r], budget),
             MaxModelLen - numComputed[r])

DecodeSkip ==
  /\ DecodeLoop
  /\ LET r == running[reqIndex] IN r \in scheduledReqIds \/ DecodeTokens(r) = 0
  /\ reqIndex' = reqIndex + 1
  /\ UNCHANGED <<reqVars, setVars, poolVars, inflight, pc, budget, skipped, sched, loras>>

(* One token and the drafts that fit are computed. *)
DecodeOne ==
  LET r == running[reqIndex]
      n == DecodeTokens(r)
      drafts == n + numComputed[r] - numTokens[r]
  IN
  /\ DecodeLoop
  /\ r \notin scheduledReqIds /\ n > 0
  /\ CanAllocate(r, n)
  /\ Allocate(r, n)
  /\ MarkScheduled(r)
  /\ sched' = [sched EXCEPT !.tokens[r] = n, !.drafts[r] = IF drafts > 0 THEN drafts ELSE 0]
  /\ spec' = [spec EXCEPT ![r] = IF drafts > 0 THEN drafts ELSE @]
  /\ loras' = WithLora(r)
  /\ budget' = budget - n
  /\ reqIndex' = reqIndex + 1
  /\ UNCHANGED <<status, numTokens, numComputed, doRemotePrefill, recvDone, waiting, running,
                 finishedReqIds, inflight, pc, skipped>>

(* Who is preempted, and a variant that takes the oldest. *)
Victim_Oldest == Head(running)

Victim == Last(running)

(* The KV cache of a preempted request is gone, and a variant that forgets *)
(* that its tokens must be computed again.                                 *)
ResetComputed_Forgotten(r) == UNCHANGED numComputed

ResetComputed(r) == numComputed' = [numComputed EXCEPT ![r] = 0]

(* No block for the request: the last running request is preempted, and    *)
(* the loop tries again unless that was the request itself.                *)
Preempt ==
  LET r == running[reqIndex] IN
  /\ DecodeLoop
  /\ r \notin scheduledReqIds /\ DecodeTokens(r) > 0
  /\ ~CanAllocate(r, DecodeTokens(r))
  /\ running' = Without(running, {Victim})
  /\ FreeBlocks({Victim})
  /\ status' = [status EXCEPT ![Victim] = "PREEMPTED"]
  /\ ResetComputed(Victim)
  /\ waiting' = <<Victim>> \o waiting
  /\ pc' = IF Victim = r THEN "output" ELSE pc
  /\ UNCHANGED <<numTokens, spec, doRemotePrefill, recvDone, scheduledReqIds, finishedReqIds,
                 inflight, locals>>

DecodeEnds ==
  /\ pc = "decode"
  /\ reqIndex > Len(running) \/ budget = 0
  /\ pc' = "output"
  /\ UNCHANGED <<reqVars, setVars, poolVars, inflight, locals>>

(* The batch is handed out; its tokens count as computed from now on. *)
Output ==
  /\ pc = "output"
  /\ numComputed' = [r \in Req |-> numComputed[r] + sched.tokens[r]]
  /\ finishedReqIds' = {}
  /\ inflight' = IF InBatch(sched) = {} THEN inflight ELSE Append(inflight, sched)
  /\ pc' = "idle"
  /\ UNCHANGED <<status, numTokens, spec, doRemotePrefill, recvDone, waiting, running,
                 scheduledReqIds, poolVars, locals>>

-----------------------------------------------------------------------------
(* update_from_output for the oldest batch: acc[r] tokens of r were        *)
(* sampled (its accepted drafts and one more), the requests in stop met a  *)
(* stop token, and next[r] drafts were proposed.                           *)
MaxLen(r) == Least(PromptLen[r] + MaxTokens, MaxModelLen)

Appended(r, acc) == IF numTokens[r] >= MaxLen(r) THEN 1
                                                 ELSE Least(acc, MaxLen(r) - numTokens[r])

Returned(b) == {r \in InBatch(b) : status[r] \in Alive}

(* The Ascend part of update_from_output, and a variant that forgets it. *)
ClearScheduled_Forgotten(b) == UNCHANGED scheduledReqIds

ClearScheduled(b) == scheduledReqIds' = scheduledReqIds \ (InBatch(b) \cap ToSet(running))

UpdateFromOutput(acc, stop, next) ==
  LET b     == Head(inflight)
      done  == Returned(b)
      ended == {r \in done : \/ r \in stop
                             \/ numTokens[r] + Appended(r, acc[r]) >= MaxLen(r)}
  IN
  /\ \A r \in done : acc[r] <= b.drafts[r] + 1
  /\ inflight' = Tail(inflight)
  /\ ClearScheduled(b)
  /\ numTokens' = [r \in Req |-> IF r \in done THEN numTokens[r] + Appended(r, acc[r])
                                               ELSE numTokens[r]]
  /\ numComputed' = [r \in Req |-> IF r \in done
                                   THEN numComputed[r] - (b.drafts[r] + 1 - acc[r])
                                   ELSE numComputed[r]]
  /\ spec' = [r \in Req |-> IF r \in done THEN next[r] ELSE spec[r]]
  /\ status' = [r \in Req |-> IF r \in ended THEN "FINISHED" ELSE status[r]]
  /\ running' = Without(running, ended)
  /\ waiting' = Without(waiting, ended)
  /\ finishedReqIds' = finishedReqIds \cup ended
  /\ FreeBlocks(ended)
  /\ UNCHANGED <<doRemotePrefill, recvDone, pc, locals>>

Update ==
  /\ pc = "idle" /\ inflight # <<>>
  /\ LET done == Returned(Head(inflight)) IN
       \E acc \in [done -> 1 .. NumSpec + 1], stop \in SUBSET done, next \in [done -> 0 .. NumSpec] :
         UpdateFromOutput(acc, stop, next)

-----------------------------------------------------------------------------
Prefill == \E r \in Req : \/ SkipRemote(r) \/ ResumeRemote(r) \/ SkipLora(r)
                          \/ Ignore(r) \/ SkipBudget(r) \/ SkipWatermark(r)
                          \/ StartRemote(r) \/ StartPrefill(r)

Schedule == Begin \/ Prefill \/ PutBack \/ DecodeSkip \/ DecodeOne \/ Preempt
            \/ DecodeEnds \/ Output

(* Every request has ended. *)
Terminated ==
  /\ pc = "idle" /\ waiting = <<>> /\ running = <<>> /\ inflight = <<>>
  /\ \A r \in Req : numTokens[r] > 0
  /\ UNCHANGED vars

Next ==
  \/ \E r \in Req : AddRequest(r) \/ FinishRequests(r) \/ FinishedRecving(r)
  \/ Schedule
  \/ Update
  \/ Terminated

Spec == Init /\ [][Next]_vars

(***************************************************************************)
(* The engine core steps as long as a request is unfinished: schedule() is *)
(* called and returns, and a step that schedules nothing while a batch is  *)
(* in flight waits for that batch, so update_from_output comes however     *)
(* often schedule() runs first.  The transfer of a remote KV cache ends    *)
(* (NoEndlessWait of MooncakeTransfer) and is reported between two steps.  *)
(***************************************************************************)
Fairness ==
  /\ WF_vars(Schedule)
  /\ SF_vars(Update)
  /\ \A r \in Req : SF_vars(FinishedRecving(r))

FairSpec == Spec /\ Fairness

-----------------------------------------------------------------------------
(* The assertions of schedule() hold, whatever is in flight, preempted,    *)
(* loaded or aborted: a request that is taken up has a token to compute; a *)
(* running request that is decoded lacks exactly one; the batch respects   *)
(* its limits.                                                             *)
AssertionsHold ==
  /\ pc = "prefill" /\ waiting # <<>> =>
       LET r == Head(waiting) IN
         /\ status[r] \in {"WAITING", "PREEMPTED", "WAITING_FOR_REMOTE_KVS"}
         /\ Considered(r) /\ ~LoadKvAsync(r) => NumNewTokens(r) > 0
  /\ pc = "decode" =>
       \A i \in reqIndex .. Len(running) :
         numTokens[running[i]] - numComputed[running[i]] = 1
  /\ pc = "output" =>
       /\ Total(sched.tokens, Req, MaxModelLen) <= MaxBatchedTokens
       /\ Len(running) <= MaxNumSeqs
       /\ Cardinality(InBatch(sched)) <= Len(running)

(* scheduled_req_ids is exactly the running requests with a batch in       *)
(* flight.  One id too many and no decode batch is ever built again; one   *)
(* too few and a request is decoded before its last token is known.        *)
ScheduledIffInFlight ==
  pc = "idle" =>
    scheduledReqIds = {r \in ToSet(running) : \E i \in DOMAIN inflight : r \in InBatch(inflight[i])}

(* A request is in at most one batch in flight. *)
OneBatchPerRequest ==
  \A i, j \in DOMAIN inflight : i # j => InBatch(inflight[i]) \cap InBatch(inflight[j]) = {}

(* A batch holds running requests only: none is preempted, and its blocks  *)
(* given away, after it was put into the batch.                            *)
BatchIsRunning == pc # "idle" => InBatch(sched) \subseteq ToSet(running)

(* Every request has blocks for the tokens that count as computed, so none *)
(* does when it was preempted; a request that ended holds no block, and no *)
(* block is lost.                                                          *)
BlocksAccounted ==
  /\ \A r \in Req : status[r] \in Alive => blocks[r] * BlockSize >= numComputed[r]
  /\ \A r \in Req : status[r] \in {"FINISHED", "FINISHED_IGNORED"} => blocks[r] = 0
  /\ free + Total(blocks, Req, NumBlocks) = NumBlocks - 1

(* "Put back any skipped requests at the head of the waiting queue": the   *)
(* queue keeps the order of arrival, with preempted requests in front.     *)
FirstComeFirstServed ==
  pc = "idle" =>
    \A i, j \in DOMAIN waiting : i < j /\ status[waiting[i]] # "PREEMPTED" =>
      status[waiting[j]] # "PREEMPTED" /\ waiting[i] < waiting[j]

(* No request starves: prefill-first scheduling, skipping and preemption   *)
(* never keep a request that fits from being served to its end.            *)
EveryRequestEnds ==
  \A r \in Req : status[r] = "WAITING" ~> status[r] \in {"FINISHED", "FINISHED_IGNORED"}

(* "Finish request that exceeds prompt_limit or kv cache size": a prompt   *)
(* that no state of the block pool can hold does not wait for ever.        *)
TooLongEnds ==
  \A r \in Req : status[r] = "WAITING" /\ Cdiv(PromptLen[r], BlockSize) > NumBlocks - 1
                   ~> status[r] \in {"FINISHED", "FINISHED_IGNORED"}
=============================================================================
