--------------------------- MODULE MooncakeTransfer ---------------------------
(***************************************************************************)
(* Disaggregated prefill with the Mooncake connector: a prefill engine of  *)
(* PTpSize ranks computes the KV cache of a request and keeps its blocks   *)
(* until every rank of the decode engine has pulled its part.              *)
(*                                                                         *)
(* The actors are the prefill scheduler, one KVCacheSendingThread per      *)
(* prefill rank, the decode scheduler, one KVCacheRecvingThread per decode *)
(* rank, and on each side the tracker of rank 0 with the PUSH channel that *)
(* feeds it.  A request stands for its set of blocks: on the prefill side  *)
(* the blocks are held or freed as a whole; on the decode side they are    *)
(* one Slot of the block pool, which is reused.                            *)
(***************************************************************************)
EXTENDS KVCacheTaskTracker, Sequences

CONSTANTS
  Req,              \* request ids
  TinyReq,          \* requests whose prompt is one token long
  PTpSize,          \* tensor-parallel size of the prefill engine
  DTpSize,          \* tensor-parallel size of the decode engine
  Sample,           \* random.Random(hash(req)).sample(range(PTpSize), DTpSize)
  Slot,             \* block sets of the decode engine's pool
  None,             \* no request, no slot
  MayTimeout,       \* a reply may take longer than ensure_zmq_recv waits
  LossyRank,        \* decode ranks whose connections may break, and lose a message
  FailReq,          \* requests for which batch_transfer_sync_read may fail
  MayAbortInFlight  \* the client may abort while the KV cache is being pulled

PRank == 0 .. PTpSize - 1
DRank == 0 .. DTpSize - 1

ASSUME SizeAssumption ==
  /\ PTpSize \in Nat \ {0}
  /\ DTpSize \in Nat \ {0}
  /\ DTpSize <= PTpSize

ASSUME SampleAssumption ==
  /\ Sample \in [Req -> [DRank -> PRank]]
  /\ \A r \in Req : \A d, e \in DRank :
       Sample[r][d] = Sample[r][e] => d = e

ASSUME NameAssumption ==
  /\ TinyReq \subseteq Req
  /\ FailReq \subseteq Req
  /\ LossyRank \subseteq DRank
  /\ None \notin Req
  /\ None \notin Slot

ASSUME SwitchAssumption ==
  {MayTimeout, MayAbortInFlight} \subseteq BOOLEAN

(* The prefill rank each decode rank pulls request r from. *)
GetRemoteTpRanksForReq(r) ==
  IF PTpSize = DTpSize THEN [d \in DRank |-> d] ELSE Sample[r]

VARIABLES
  pReq,             \* prefill scheduler: where request r is
  kvParams,         \* requests whose kv_transfer_params went to the proxy
  sendTracker,      \* tracker of the sending threads, at prefill rank 0
  sendPush,         \* done signals pushed by prefill ranks 1.. to rank 0
  dReq,             \* decode scheduler: where request r is
  owner,            \* decode block pool: the request a slot is allocated to
  dst,              \* local_block_ids the transfer of r was queued with
  finishedRecving,  \* scheduler.finished_recving_kv_req_ids
  recvTracker,      \* tracker of the receiving threads, at decode rank 0
  recvPush,         \* done signals pushed by decode ranks 1.. to rank 0
  queue,            \* request_queue of each receiving thread
  stage,            \* how far rank d's thread is with request r
  meta,             \* prefill ranks whose metadata rank d has cached
  conv,             \* the REQ socket of rank d to prefill rank p
  kv,               \* decode rank d's memory: whose KV cache is in slot s
  failed            \* transfers that ended with a logged error

prefillVars == <<pReq, kvParams, sendTracker, sendPush>>
schedVars   == <<dReq, owner, dst, finishedRecving>>
trackVars   == <<recvTracker, recvPush>>
threadVars  == <<queue, stage, meta, conv, kv, failed>>
vars        == <<prefillVars, schedVars, trackVars, threadVars>>

(***************************************************************************)
(* A REQ socket alternates send and receive.  Between the two it is in one *)
(* of the states below; "ready" is the only one in which send succeeds     *)
(* (otherwise zmq raises EFSM).  A reply that nobody reads leaves it there *)
(* for good: sockets are pooled per remote path and never closed.          *)
(***************************************************************************)
ConvState == {"ready", "meta_req", "meta_rep", "done_req", "ack", "lost"}
Conv      == [st : ConvState \ {"done_req"}, req : {None}]
               \cup [st : {"done_req"}, req : Req]
Ready     == [st |-> "ready", req |-> None]
Unread    == {"meta_rep", "ack"}

Stage     == {"none", "queued", "transfer", "wait_meta", "read", "count",
              "send_done", "wait_ack", "end"}
Active    == Stage \ {"none", "queued", "end"}

PStates   == {"prefilling", "delayed", "freed"}
DStates   == {"absent", "waiting_kvs", "running", "finished"}

(* The type of every variable. *)
TypeOK ==
  /\ pReq \in [Req -> PStates]
  /\ kvParams \subseteq Req
  /\ sendTracker \in Trackers(Req, DRank)
  /\ sendPush \subseteq Req \X DRank
  /\ dReq \in [Req -> DStates]
  /\ owner \in [Slot -> Req \cup {None}]
  /\ dst \in [Req -> Slot \cup {None}]
  /\ finishedRecving \subseteq Req
  /\ recvTracker \in Trackers(Req, DRank)
  /\ recvPush \subseteq Req \X DRank
  /\ queue \in [DRank -> Seq(Req)]
  /\ stage \in [DRank -> [Req -> Stage]]
  /\ meta \in [DRank -> SUBSET PRank]
  /\ conv \in [DRank -> [PRank -> Conv]]
  /\ kv \in [DRank -> [Slot -> Req \cup {None}]]
  /\ failed \subseteq Req \X DRank

Init ==
  /\ pReq = [r \in Req |-> "prefilling"]
  /\ kvParams = {}
  /\ sendTracker = NewTracker(Req)
  /\ sendPush = {}
  /\ dReq = [r \in Req |-> "absent"]
  /\ owner = [s \in Slot |-> None]
  /\ dst = [r \in Req |-> None]
  /\ finishedRecving = {}
  /\ recvTracker = NewTracker(Req)
  /\ recvPush = {}
  /\ queue = [d \in DRank |-> <<>>]
  /\ stage = [d \in DRank |-> [r \in Req |-> "none"]]
  /\ meta = [d \in DRank |-> {}]
  /\ conv = [d \in DRank |-> [p \in PRank |-> Ready]]
  /\ kv = [d \in DRank |-> [s \in Slot |-> None]]
  /\ failed = {}

-----------------------------------------------------------------------------
(* The prefill engine. *)

(* A variant that hands out the parameters and does not delay the free. *)
PFinish_NoDelay(r) ==
  /\ pReq[r] = "prefilling"
  /\ pReq' = [pReq EXCEPT ![r] = "freed"]
  /\ kvParams' = kvParams \cup {r}
  /\ UNCHANGED <<sendTracker, sendPush, schedVars, trackVars, threadVars>>

(* request_finished with do_remote_decode and FINISHED_LENGTH_CAPPED: the  *)
(* blocks are kept and the parameters for the decode engine are returned.  *)
PFinish(r) ==
  /\ pReq[r] = "prefilling"
  /\ pReq' = [pReq EXCEPT ![r] = "delayed"]
  /\ kvParams' = kvParams \cup {r}
  /\ UNCHANGED <<sendTracker, sendPush, schedVars, trackVars, threadVars>>

(* request_finished with any other status (stopped, aborted): no          *)
(* parameters, and the blocks are freed at once.                           *)
PStop(r) ==
  /\ pReq[r] = "prefilling"
  /\ pReq' = [pReq EXCEPT ![r] = "freed"]
  /\ UNCHANGED <<kvParams, sendTracker, sendPush, schedVars, trackVars, threadVars>>

(* A step of the prefill engine: rank 0's worker reports finished_sending  *)
(* and the scheduler frees those blocks.                                   *)
PReport ==
  /\ sendTracker.finished_requests # {}
  /\ pReq' = [r \in Req |-> IF r \in sendTracker.finished_requests
                            THEN "freed" ELSE pReq[r]]
  /\ sendTracker' = ClearFinished(sendTracker)
  /\ UNCHANGED <<kvParams, sendPush, schedVars, trackVars, threadVars>>

(* KVCacheSendingThread.run on prefill rank p answers rank d's GET_META_MSG. *)
SendMeta(p, d) ==
  /\ conv[d][p].st = "meta_req"
  /\ conv' = [conv EXCEPT ![d][p] = [st |-> "meta_rep", req |-> None]]
  /\ UNCHANGED <<prefillVars, schedVars, trackVars, queue, stage, meta, kv, failed>>

(* A variant that pushes the pair the wrong way round. *)
UpdateSendCount_Swapped(p, r, d) ==
  IF p = 0
  THEN /\ sendTracker' = IncrementTaskCount(sendTracker, r, d, DTpSize)
       /\ UNCHANGED sendPush
  ELSE /\ sendPush' = sendPush \cup {<<d, r>>}
       /\ UNCHANGED sendTracker

(* update_done_task_count on prefill rank p: rank 0 counts under its lock, *)
(* every other rank pushes the signal to rank 0.                           *)
UpdateSendCount(p, r, d) ==
  IF p = 0
  THEN /\ sendTracker' = IncrementTaskCount(sendTracker, r, d, DTpSize)
       /\ UNCHANGED sendPush
  ELSE /\ sendPush' = sendPush \cup {<<r, d>>}
       /\ UNCHANGED sendTracker

(* ... and its DONE_RECVING_MSG: count first, then acknowledge. *)
SendAck(p, d) ==
  /\ conv[d][p].st = "done_req"
  /\ UpdateSendCount(p, conv[d][p].req, d)
  /\ conv' = [conv EXCEPT ![d][p] = [st |-> "ack", req |-> None]]
  /\ UNCHANGED <<pReq, kvParams, schedVars, trackVars, queue, stage, meta, kv, failed>>

(* _listen_for_completion_signals at prefill rank 0. *)
SendListen(r, d) ==
  /\ <<r, d>> \in sendPush
  /\ sendPush' = sendPush \ {<<r, d>>}
  /\ sendTracker' = IncrementTaskCount(sendTracker, r, d, DTpSize)
  /\ UNCHANGED <<pReq, kvParams, schedVars, trackVars, threadVars>>

-----------------------------------------------------------------------------
(* The decode scheduler. *)

(* The proxy has forwarded the request with the parameters it got from     *)
(* prefill, and schedule() takes it up: get_num_new_matched_tokens,        *)
(* allocate_slots, update_state_after_alloc and build_connector_meta, then *)
(* start_load_kv on every rank's worker.  A one-token prompt has nothing   *)
(* to load: it runs at once, and its transfer is queued with no local      *)
(* blocks only to release the prefill side.  (A request that is aborted    *)
(* before this step is one the decode engine never sees.)                  *)
DSchedule(r, s) ==
  /\ dReq[r] = "absent"
  /\ r \in kvParams
  /\ owner[s] = None
  /\ owner' = [owner EXCEPT ![s] = r]
  /\ dReq' = [dReq EXCEPT ![r] = IF r \in TinyReq THEN "running" ELSE "waiting_kvs"]
  /\ dst' = [dst EXCEPT ![r] = IF r \in TinyReq THEN None ELSE s]
  /\ queue' = [d \in DRank |-> Append(queue[d], r)]
  /\ stage' = [d \in DRank |-> [stage[d] EXCEPT ![r] = "queued"]]
  /\ UNCHANGED <<prefillVars, finishedRecving, trackVars, meta, conv, kv, failed>>

(* A step of the decode engine: rank 0's worker reports finished_recving. *)
DReport ==
  /\ recvTracker.finished_requests # {}
  /\ finishedRecving' = finishedRecving \cup recvTracker.finished_requests
  /\ recvTracker' = ClearFinished(recvTracker)
  /\ UNCHANGED <<prefillVars, dReq, owner, dst, recvPush, threadVars>>

(* schedule(): _update_waiting_for_remote_kv finds the request complete. *)
DResume(r) ==
  /\ dReq[r] = "waiting_kvs"
  /\ r \in finishedRecving
  /\ finishedRecving' = finishedRecving \ {r}
  /\ dReq' = [dReq EXCEPT ![r] = "running"]
  /\ UNCHANGED <<prefillVars, owner, dst, trackVars, threadVars>>

(* The request ends.  request_finished returns (False, None) on the decode *)
(* side whatever the request was doing, so its slot is free at once.       *)
DFree(r) ==
  /\ dReq' = [dReq EXCEPT ![r] = "finished"]
  /\ owner' = [s \in Slot |-> IF owner[s] = r THEN None ELSE owner[s]]
  /\ UNCHANGED <<prefillVars, dst, finishedRecving, trackVars, threadVars>>

DFinish(r) == dReq[r] = "running" /\ DFree(r)

DAbort(r) ==
  /\ MayAbortInFlight
  /\ dReq[r] = "waiting_kvs"
  /\ DFree(r)

(* _listen_for_completion_signals at decode rank 0. *)
RecvListen(r, d) ==
  /\ <<r, d>> \in recvPush
  /\ recvPush' = recvPush \ {<<r, d>>}
  /\ recvTracker' = IncrementTaskCount(recvTracker, r, d, DTpSize)
  /\ UNCHANGED <<prefillVars, schedVars, threadVars>>

-----------------------------------------------------------------------------
(* KVCacheRecvingThread of decode rank d. *)

Remote(r, d) == GetRemoteTpRanksForReq(r)[d]

Move(d, r, from, to) ==
  /\ stage[d][r] = from
  /\ stage' = [stage EXCEPT ![d][r] = to]

(* A variant that hands each request to the (otherwise unused) executor.   *)
Dequeue_Pooled(d) ==
  /\ queue[d] # <<>>
  /\ stage' = [stage EXCEPT ![d][Head(queue[d])] = "transfer"]
  /\ queue' = [queue EXCEPT ![d] = Tail(@)]
  /\ UNCHANGED <<prefillVars, schedVars, trackVars, meta, conv, kv, failed>>

(* run: the next request, when the previous one has been handled. *)
Dequeue(d) ==
  /\ queue[d] # <<>>
  /\ \A r \in Req : stage[d][r] \notin Active
  /\ stage' = [stage EXCEPT ![d][Head(queue[d])] = "transfer"]
  /\ queue' = [queue EXCEPT ![d] = Tail(@)]
  /\ UNCHANGED <<prefillVars, schedVars, trackVars, meta, conv, kv, failed>>

(* No local blocks to fill: nothing to read. *)
SkipTransfer(d, r) ==
  /\ dst[r] = None
  /\ Move(d, r, "transfer", "count")
  /\ UNCHANGED <<prefillVars, schedVars, trackVars, queue, meta, conv, kv, failed>>

(* The metadata of the prefill rank is cached. *)
UseCachedMeta(d, r) ==
  /\ dst[r] # None
  /\ Remote(r, d) \in meta[d]
  /\ Move(d, r, "transfer", "read")
  /\ UNCHANGED <<prefillVars, schedVars, trackVars, queue, meta, conv, kv, failed>>

(* _get_remote_metadata sends GET_META_MSG ... *)
GetMeta(d, r) ==
  /\ dst[r] # None
  /\ Remote(r, d) \notin meta[d]
  /\ conv[d][Remote(r, d)].st = "ready"
  /\ conv' = [conv EXCEPT ![d][Remote(r, d)] = [st |-> "meta_req", req |-> None]]
  /\ Move(d, r, "transfer", "wait_meta")
  /\ UNCHANGED <<prefillVars, schedVars, trackVars, queue, meta, kv, failed>>

(* ... or fails to, after three attempts, on a socket that is not ready. *)
GetMetaFails(d, r) ==
  /\ dst[r] # None
  /\ Remote(r, d) \notin meta[d]
  /\ conv[d][Remote(r, d)].st # "ready"
  /\ Move(d, r, "transfer", "count")
  /\ failed' = failed \cup {<<r, d>>}
  /\ UNCHANGED <<prefillVars, schedVars, trackVars, queue, meta, conv, kv>>

RecvMeta(d, r) ==
  /\ conv[d][Remote(r, d)].st = "meta_rep"
  /\ conv' = [conv EXCEPT ![d][Remote(r, d)] = Ready]
  /\ meta' = [meta EXCEPT ![d] = @ \cup {Remote(r, d)}]
  /\ Move(d, r, "wait_meta", "read")
  /\ UNCHANGED <<prefillVars, schedVars, trackVars, queue, kv, failed>>

(* ensure_zmq_recv gives up when its poll finds nothing.  The poller holds *)
(* every socket of the thread: an unread reply on any of them makes the    *)
(* poll succeed, and recv() on this socket then waits without a timeout.   *)
PollsEmpty(d) == \A p \in PRank : conv[d][p].st \notin Unread


MetaTimeout(d, r) ==
  /\ MayTimeout
  /\ PollsEmpty(d)
  /\ Move(d, r, "wait_meta", "count")
  /\ failed' = failed \cup {<<r, d>>}
  /\ UNCHANGED <<prefillVars, schedVars, trackVars, queue, meta, conv, kv>>

(* batch_transfer_sync_read copies the prefill blocks into the slot the    *)
(* request was queued with, whoever owns that slot by now. *)
ReadKV(d, r) ==
  /\ Move(d, r, "read", "count")
  /\ kv' = [kv EXCEPT ![d][dst[r]] = IF pReq[r] = "delayed" THEN r ELSE None]
  /\ UNCHANGED <<prefillVars, schedVars, trackVars, queue, meta, conv, failed>>

(* ... or fails part way through: the slot holds no request's KV cache. *)
ReadFails(d, r) ==
  /\ r \in FailReq
  /\ Move(d, r, "read", "count")
  /\ kv' = [kv EXCEPT ![d][dst[r]] = None]
  /\ failed' = failed \cup {<<r, d>>}
  /\ UNCHANGED <<prefillVars, schedVars, trackVars, queue, meta, conv>>

(* A variant in which rank 0 answers for all ranks. *)
CountDone_Rank0Only(d, r) ==
  /\ Move(d, r, "count", "send_done")
  /\ recvTracker' = IF d = 0
                    THEN [recvTracker EXCEPT !.finished_requests = @ \cup {r}]
                    ELSE recvTracker
  /\ UNCHANGED <<prefillVars, schedVars, recvPush, queue, meta, conv, kv, failed>>

(* The finally clause of _handle_request, whether the transfer succeeded   *)
(* or not: update_done_task_count ...                                      *)
CountDone(d, r) ==
  /\ Move(d, r, "count", "send_done")
  /\ IF d = 0
     THEN /\ recvTracker' = IncrementTaskCount(recvTracker, r, d, DTpSize)
          /\ UNCHANGED recvPush
     ELSE /\ recvPush' = recvPush \cup {<<r, d>>}
          /\ UNCHANGED recvTracker
  /\ UNCHANGED <<prefillVars, schedVars, queue, meta, conv, kv, failed>>

(* ... then _send_done_recv_signal ... *)
SendDone(d, r) ==
  /\ conv[d][Remote(r, d)].st = "ready"
  /\ conv' = [conv EXCEPT ![d][Remote(r, d)] = [st |-> "done_req", req |-> r]]
  /\ Move(d, r, "send_done", "wait_ack")
  /\ UNCHANGED <<prefillVars, schedVars, trackVars, queue, meta, kv, failed>>

(* ... which raises when the socket is not ready; run logs the error. *)
SendDoneFails(d, r) ==
  /\ conv[d][Remote(r, d)].st # "ready"
  /\ Move(d, r, "send_done", "end")
  /\ UNCHANGED <<prefillVars, schedVars, trackVars, queue, meta, conv, kv, failed>>

RecvAck(d, r) ==
  /\ conv[d][Remote(r, d)].st = "ack"
  /\ conv' = [conv EXCEPT ![d][Remote(r, d)] = Ready]
  /\ Move(d, r, "wait_ack", "end")
  /\ UNCHANGED <<prefillVars, schedVars, trackVars, queue, meta, kv, failed>>

AckTimeout(d, r) ==
  /\ MayTimeout
  /\ PollsEmpty(d)
  /\ Move(d, r, "wait_ack", "end")
  /\ UNCHANGED <<prefillVars, schedVars, trackVars, queue, meta, conv, kv, failed>>

(* The connection breaks with a message on it. *)
Lose(d, p) ==
  /\ d \in LossyRank
  /\ conv[d][p].st \notin {"ready", "lost"}
  /\ conv' = [conv EXCEPT ![d][p] = [st |-> "lost", req |-> None]]
  /\ UNCHANGED <<prefillVars, schedVars, trackVars, queue, stage, meta, kv, failed>>

-----------------------------------------------------------------------------
PrefillStep == \/ PReport
               \/ \E r \in Req : PFinish(r) \/ PStop(r)

SendThread(p) == \E d \in DRank : SendMeta(p, d) \/ SendAck(p, d)

SendListener == \E r \in Req, d \in DRank : SendListen(r, d)

DecodeStep == \/ DReport
              \/ \E r \in Req : \/ DResume(r)
                                \/ DFinish(r) \/ DAbort(r)
                                \/ \E s \in Slot : DSchedule(r, s)

(* What rank d's thread does with the request it is handling. *)
Handle(d, r) ==
  \/ SkipTransfer(d, r) \/ UseCachedMeta(d, r)
  \/ GetMeta(d, r)      \/ GetMetaFails(d, r)
  \/ RecvMeta(d, r)     \/ MetaTimeout(d, r)
  \/ ReadKV(d, r)       \/ ReadFails(d, r)
  \/ CountDone(d, r)
  \/ SendDone(d, r)     \/ SendDoneFails(d, r)
  \/ RecvAck(d, r)      \/ AckTimeout(d, r)

RecvThread(d) == Dequeue(d) \/ \E r \in Req : Handle(d, r)

RecvListener == \E r \in Req, d \in DRank : RecvListen(r, d)

LoseStep == \E d \in DRank, p \in PRank : Lose(d, p)

(* Every request is over, and nothing is on its way. *)
Quiescent ==
  /\ \A r \in Req : \/ dReq[r] = "finished"
                    \/ dReq[r] = "absent" /\ pReq[r] = "freed"
  /\ \A d \in DRank : /\ queue[d] = <<>>
                      /\ \A r \in Req : stage[d][r] \in {"none", "end"}
                      /\ \A p \in PRank : conv[d][p].st \notin {"meta_req", "done_req"}
  /\ sendPush = {} /\ recvPush = {}
  /\ sendTracker.finished_requests = {}
  /\ recvTracker.finished_requests = {}

Terminated == Quiescent /\ UNCHANGED vars

Next ==
  \/ PrefillStep
  \/ \E p \in PRank : SendThread(p)
  \/ SendListener
  \/ DecodeStep
  \/ \E d \in DRank : RecvThread(d)
  \/ RecvListener
  \/ LoseStep
  \/ Terminated

Spec == Init /\ [][Next]_vars

(***************************************************************************)
(* The threads run: a sending thread answers what it has received, a       *)
(* listener drains its PULL socket, a receiving thread moves on.  The      *)
(* decode engine steps as long as a request is unfinished, and requests in *)
(* WAITING_FOR_REMOTE_KVS are.  Nothing makes a client submit or a request *)
(* end, and an idle prefill engine does not step.                          *)
(***************************************************************************)
Fairness ==
  /\ \A d \in DRank : WF_vars(RecvThread(d))
  /\ \A p \in PRank : WF_vars(SendThread(p))
  /\ WF_vars(SendListener)
  /\ WF_vars(RecvListener)
  /\ WF_vars(DReport)
  /\ WF_vars(\E r \in Req : DResume(r))

FairSpec == Spec /\ Fairness

-----------------------------------------------------------------------------
(* A prefill block is never read after it was given back to the pool: as   *)
(* long as some decode rank may still pull request r, its blocks are held. *)
(* (KVCacheTaskTracker counts all decode ranks, and a rank signals only    *)
(* after its read is over.)                                                *)
HeldUntilPulled ==
  \A r \in Req : \A d \in DRank :
    stage[d][r] \in {"queued", "transfer", "wait_meta", "read"} => pReq[r] = "delayed"

(* finished_sending names only requests whose blocks the prefill scheduler *)
(* still holds: none is reported twice, and none it does not know.  (The   *)
(* scheduler looks them up in self.requests and frees them.)               *)
ReportedWhileHeld ==
  \A r \in sendTracker.finished_requests : pReq[r] = "delayed"

(* A done signal of rank d for request r is in one place only: on the      *)
(* socket, on its way to rank 0, or counted; once the request is reported  *)
(* or freed it is in none, so a stale signal can not open a second count.  *)
SignalOnSocket(r, d) == \E p \in PRank : conv[d][p].st = "done_req" /\ conv[d][p].req = r

SignalInOnePlace ==
  \A r \in kvParams : \A d \in DRank :
    /\ SignalOnSocket(r, d) => /\ <<r, d>> \notin sendPush
                               /\ d \notin sendTracker.done_task_counts[r]
    /\ <<r, d>> \in sendPush => d \notin sendTracker.done_task_counts[r]
    /\ (r \in sendTracker.finished_requests \/ pReq[r] = "freed") =>
         /\ ~SignalOnSocket(r, d)
         /\ <<r, d>> \notin sendPush
         /\ sendTracker.done_task_counts[r] = {}

(* The connector keeps the promise of KVHandoff: every step of every       *)
(* thread is a hand-off step or leaves the hand-off alone.  A rank is      *)
(* through with a request once its transfer has ended, well or badly.      *)
Through == {"count", "send_done", "wait_ack", "end"}

Blocks == [r \in Req |-> CASE pReq[r] = "prefilling" -> "computing"
                           [] pReq[r] = "delayed"    -> "held"
                           [] pReq[r] = "freed"      -> "freed"]

Pulled == [r \in Req |-> {d \in DRank : stage[d][r] \in Through}]

Handoff == INSTANCE KVHandoff WITH Rank <- DRank, blocks <- Blocks, pulled <- Pulled

ImplementsHandoff == Handoff!HSpec

(* A request that left WAITING_FOR_REMOTE_KVS runs on its own KV cache on  *)
(* every rank, unless an error was logged for the transfer to that rank.   *)
RunsOnOwnKV ==
  \A r \in Req : dReq[r] = "running" /\ dst[r] # None =>
    \A d \in DRank : kv[d][dst[r]] = r \/ <<r, d>> \in failed

(* The decode engine is told that a request is received only when every    *)
(* rank is through with its transfer.                                      *)
ReceivedByAllRanks ==
  \A r \in finishedRecving \cup recvTracker.finished_requests : \A d \in DRank :
    stage[d][r] \in {"send_done", "wait_ack", "end"}


(* Rank d's done signal for r has left the thread and was not lost. *)
Signalled(r, d) ==
  \/ SignalOnSocket(r, d)
  \/ <<r, d>> \in sendPush
  \/ d \in sendTracker.done_task_counts[r]
  \/ r \in sendTracker.finished_requests
  \/ pReq[r] = "freed"

(* Once the decode engine has scheduled a request, the prefill engine      *)
(* learns that its blocks can be freed, aborted or failed transfers        *)
(* included; the one exception is a rank whose signal could not be sent.   *)
PrefillReleased ==
  \A r \in Req : (\E d \in DRank : stage[d][r] # "none") ~>
    \/ r \in sendTracker.finished_requests \/ pReq[r] = "freed"
    \/ \E d \in DRank : stage[d][r] = "end" /\ ~Signalled(r, d)

(* "Always send the done signal to the remote host": a handled request has *)
(* been signalled to the prefill side.                                     *)
AlwaysSignalled ==
  \A r \in Req : \A d \in DRank : stage[d][r] = "end" => Signalled(r, d)

(* 'Confirm the scheduler is "empty" - i.e. no leaks': when every request  *)
(* is over, finished_recving_kv_req_ids is empty.                          *)
NoStaleRecvIds == Quiescent => finishedRecving = {}
=============================================================================
