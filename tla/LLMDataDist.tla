----------------------------- MODULE LLMDataDist -----------------------------
(***************************************************************************)
(* Disaggregated prefill with the LLMDataDist connector.  Each worker of   *)
(* the prefill engine runs a listener thread that answers metadata         *)
(* requests and counts finish signals; each worker of the decode engine    *)
(* runs a pool of one thread that executes _read_blocks for one request    *)
(* after another.  Before its first pull a pair of workers is linked: both *)
(* call link and poll until the communicator is up.                        *)
(***************************************************************************)
EXTENDS Naturals, Sequences, FiniteSets

CONSTANTS
  Req, None,
  PTpSize, DTpSize,  \* tensor-parallel sizes of the two engines
  BlockSize,
  PromptLen,         \* [Req -> Nat]
  Cached,            \* [Req -> Nat]: prompt tokens the decode engine has cached
  Lookahead,         \* num_lookahead_tokens of the decode scheduler
  NumCaches,         \* 2 with MLA (k_normed, k_pe), otherwise 1
  MaxFaults          \* bound on failing links and pulls

PRank == 0 .. PTpSize - 1
DRank == 0 .. DTpSize - 1
Cache == 1 .. NumCaches

ASSUME SizeAssumption ==
  /\ {PTpSize, DTpSize, BlockSize, NumCaches} \subseteq Nat \ {0}
  /\ {Lookahead, MaxFaults} \subseteq Nat
  /\ None \notin Req

(* A prompt is never cached to its last token, and only in whole blocks. *)
ASSUME PromptAssumption ==
  /\ PromptLen \in [Req -> Nat \ {0}]
  /\ Cached \in [Req -> Nat]
  /\ \A r \in Req : Cached[r] < PromptLen[r] /\ Cached[r] % BlockSize = 0

VARIABLES
  pReq,       \* prefill scheduler: where request r is
  kvParams,   \* requests whose kv_transfer_params went to the proxy
  listener,   \* listener thread of prefill rank p
  pLinked,    \* linked_cluster of prefill rank p
  counts,     \* done_receiving_counts of prefill rank p
  pFinished,  \* finished_reqs of prefill rank p
  sent,       \* aggregator: prefill ranks that reported finished_sending
  dReq,       \* decode scheduler: where request r is
  queue,      \* tasks submitted to decode rank d's executor
  task,       \* the request decode rank d is reading, or None
  pc,         \* where _read_blocks is
  conv,       \* what is on decode rank d's REQ socket
  dLinked,    \* linked_cluster of decode rank d
  comm,       \* status of the communicator of a pair of ranks
  kv,         \* what decode rank d has pulled for r: <<cache, local, remote>>
  dFinished,  \* finished_reqs of decode rank d
  recvd,      \* aggregator: decode ranks that reported finished_recving
  failed,     \* tasks that ended with a logged exception
  faults      \* failures so far

prefillVars == <<pReq, kvParams, listener, pLinked, counts, pFinished, sent>>
schedVars   == <<dReq, recvd>>
taskVars    == <<queue, task, pc, conv, dLinked, kv, dFinished, failed>>
vars        == <<prefillVars, schedVars, taskVars, comm, faults>>

Pcs   == {"idle", "connect", "wait_meta", "link", "poll_link", "pull", "finish", "wait_ack"}
Convs == {"none", "meta_req", "meta_rep", "fin_req", "fin_ack"}

(* States of a listener thread. *)
Recving    == <<"recv">>
Dead       == <<"dead">>
Linking(d) == <<"link", d>>

(* The type of every variable. *)
TypeOK ==
  /\ pReq \in [Req -> {"prefilling", "delayed", "freed"}]
  /\ kvParams \subseteq Req
  /\ listener \in [PRank -> {Recving, Dead} \cup {Linking(d) : d \in DRank}]
  /\ pLinked \in [PRank -> SUBSET DRank]
  /\ counts \in [PRank -> [Req -> SUBSET DRank]]
  /\ pFinished \in [PRank -> SUBSET Req]
  /\ sent \in [Req -> SUBSET PRank]
  /\ dReq \in [Req -> {"absent", "waiting_kvs", "running", "finished"}]
  /\ queue \in [DRank -> Seq(Req)]
  /\ task \in [DRank -> Req \cup {None}]
  /\ pc \in [DRank -> Pcs]
  /\ conv \in [DRank -> Convs]
  /\ dLinked \in [DRank -> SUBSET PRank]
  /\ comm \in [PRank \X DRank -> {"none", "ok", "failed"}]
  /\ kv \in [DRank -> [Req -> SUBSET (Cache \X Nat \X Nat)]]
  /\ dFinished \in [DRank -> SUBSET Req]
  /\ recvd \in [Req -> SUBSET DRank]
  /\ failed \subseteq Req \X DRank
  /\ faults \in 0 .. MaxFaults

Init ==
  /\ pReq = [r \in Req |-> "prefilling"]
  /\ kvParams = {}
  /\ listener = [p \in PRank |-> Recving]
  /\ pLinked = [p \in PRank |-> {}]
  /\ counts = [p \in PRank |-> [r \in Req |-> {}]]
  /\ pFinished = [p \in PRank |-> {}]
  /\ sent = [r \in Req |-> {}]
  /\ dReq = [r \in Req |-> "absent"]
  /\ queue = [d \in DRank |-> <<>>]
  /\ task = [d \in DRank |-> None]
  /\ pc = [d \in DRank |-> "idle"]
  /\ conv = [d \in DRank |-> "none"]
  /\ dLinked = [d \in DRank |-> {}]
  /\ comm = [pd \in PRank \X DRank |-> "none"]
  /\ kv = [d \in DRank |-> [r \in Req |-> {}]]
  /\ dFinished = [d \in DRank |-> {}]
  /\ recvd = [r \in Req |-> {}]
  /\ failed = {}
  /\ faults = 0

-----------------------------------------------------------------------------
(* Block lists. *)

CeilDiv(a, b) == (a + b - 1) \div b

(* Blocks of the request at the prefill engine, and the ones the decode    *)
(* engine has allocated and not found in its prefix cache, both by their   *)
(* position in the request.                                                *)
RemoteBlocks(r) == 1 .. CeilDiv(PromptLen[r], BlockSize)
LocalBlocks(r)  == (Cached[r] \div BlockSize + 1)
                     .. CeilDiv(PromptLen[r] + Lookahead, BlockSize)

(* A variant that takes the head of the remote list instead of its tail. *)
PulledFrom_Head(r, b) == b - Cached[r] \div BlockSize

(* remote_block_ids[-num_local_blocks:]: the remote block that is copied   *)
(* into local block b.                                                     *)
PulledFrom(r, b) ==
  Cardinality(RemoteBlocks(r)) - (CeilDiv(PromptLen[r] + Lookahead, BlockSize) - b)

-----------------------------------------------------------------------------
(* The prefill engine's scheduler. *)

(* request_finished after max_tokens, for a request to be decoded remotely. *)
PFinish(r) ==
  /\ pReq[r] = "prefilling"
  /\ pReq' = [pReq EXCEPT ![r] = "delayed"]
  /\ kvParams' = kvParams \cup {r}
  /\ UNCHANGED <<listener, pLinked, counts, pFinished, sent, schedVars, taskVars, comm, faults>>

(* request_finished for any other reason. *)
PStop(r) ==
  /\ pReq[r] = "prefilling"
  /\ pReq' = [pReq EXCEPT ![r] = "freed"]
  /\ UNCHANGED <<kvParams, listener, pLinked, counts, pFinished, sent, schedVars, taskVars,
                 comm, faults>>

(* get_finished of prefill rank p empties finished_reqs under the lock; a  *)
(* request that every rank has reported is freed.                          *)
PGetFinished(p) ==
  /\ pFinished[p] # {}
  /\ pFinished' = [pFinished EXCEPT ![p] = {}]
  /\ sent' = [r \in Req |-> IF r \in pFinished[p] THEN sent[r] \cup {p} ELSE sent[r]]
  /\ pReq' = [r \in Req |-> IF r \in pFinished[p] /\ sent[r] \cup {p} = PRank
                            THEN "freed" ELSE pReq[r]]
  /\ UNCHANGED <<kvParams, listener, pLinked, counts, schedVars, taskVars, comm, faults>>

-----------------------------------------------------------------------------
(* listen_for_agent_metadata_req on prefill rank p. *)

(* The port decode rank d asks for metadata and links with, and the port   *)
(* it sends its finish signal to: remote_port, which is rank 0's.          *)
TpOffset(d) == d % PTpSize
FinishRank  == 0

(* A variant that links first and replies when the link is up. *)
ListenMeta_LinkFirst(p, d) ==
  /\ listener[p] = Recving
  /\ conv[d] = "meta_req" /\ TpOffset(d) = p
  /\ conv' = [conv EXCEPT ![d] = IF d \in pLinked[p] THEN "meta_rep" ELSE @]
  /\ listener' = [listener EXCEPT ![p] = IF d \in pLinked[p] THEN @ ELSE Linking(d)]
  /\ UNCHANGED <<pReq, kvParams, pLinked, counts, pFinished, sent, schedVars,
                 queue, task, pc, dLinked, kv, dFinished, failed, comm, faults>>

(* ReqForMetadata: reply at once, then add_remote_agent, which returns if  *)
(* the pair is linked and otherwise calls link and polls.                  *)
ListenMeta(p, d) ==
  /\ listener[p] = Recving
  /\ conv[d] = "meta_req" /\ TpOffset(d) = p
  /\ conv' = [conv EXCEPT ![d] = "meta_rep"]
  /\ listener' = [listener EXCEPT ![p] = IF d \in pLinked[p] THEN @ ELSE Linking(d)]
  /\ UNCHANGED <<pReq, kvParams, pLinked, counts, pFinished, sent, schedVars,
                 queue, task, pc, dLinked, kv, dFinished, failed, comm, faults>>

(* The poll finds OK ... *)
ListenLinked(p, d) ==
  /\ listener[p] = Linking(d)
  /\ comm[<<p, d>>] = "ok"
  /\ pLinked' = [pLinked EXCEPT ![p] = @ \cup {d}]
  /\ listener' = [listener EXCEPT ![p] = Recving]
  /\ UNCHANGED <<pReq, kvParams, counts, pFinished, sent, schedVars, taskVars, comm, faults>>

(* ... or FAILED: nothing catches the exception, and the thread is gone. *)
ListenDies(p, d) ==
  /\ listener[p] = Linking(d)
  /\ comm[<<p, d>>] = "failed"
  /\ listener' = [listener EXCEPT ![p] = Dead]
  /\ UNCHANGED <<pReq, kvParams, pLinked, counts, pFinished, sent, schedVars, taskVars,
                 comm, faults>>

(* A variant that takes the first signal for the last. *)
IncrementTaskCount_First(p, r, d) ==
  /\ counts' = counts
  /\ pFinished' = [pFinished EXCEPT ![p] = @ \cup {r}]

(* A variant that counts the request id in place of the rank. *)
IncrementTaskCount_Swapped(p, r, d) ==
  /\ counts' = [counts EXCEPT ![p][r] = @ \cup {r}]
  /\ UNCHANGED pFinished

(* _increment_task_count: a repeated signal is ignored; the last one drops *)
(* the entry and makes the request finished.                               *)
IncrementTaskCount(p, r, d) ==
  LET ranks == counts[p][r] \cup {d}
      last  == d \notin counts[p][r] /\ Cardinality(ranks) = DTpSize
  IN  /\ counts' = [counts EXCEPT ![p][r] = IF last THEN {} ELSE ranks]
      /\ pFinished' = [pFinished EXCEPT ![p] = IF last THEN @ \cup {r} ELSE @]

(* ReqForFinished: count under the lock, then acknowledge. *)
ListenFinished(p, d) ==
  /\ listener[p] = Recving
  /\ conv[d] = "fin_req" /\ p = FinishRank
  /\ IncrementTaskCount(p, task[d], d)
  /\ conv' = [conv EXCEPT ![d] = "fin_ack"]
  /\ UNCHANGED <<pReq, kvParams, listener, pLinked, sent, schedVars,
                 queue, task, pc, dLinked, kv, dFinished, failed, comm, faults>>

-----------------------------------------------------------------------------
(* The decode engine's scheduler. *)

(* schedule() of a request the proxy forwarded: get_num_new_matched_tokens *)
(* counts the whole prompt less what is cached, so the load is always      *)
(* asynchronous; update_state_after_alloc and build_connector_meta hand it *)
(* to start_load_kv, which submits it on every rank.                       *)
DSchedule(r) ==
  /\ dReq[r] = "absent"
  /\ r \in kvParams
  /\ dReq' = [dReq EXCEPT ![r] = "waiting_kvs"]
  /\ queue' = [d \in DRank |-> Append(queue[d], r)]
  /\ UNCHANGED <<prefillVars, recvd, task, pc, conv, dLinked, kv, dFinished, failed, comm, faults>>

(* get_finished of decode rank d; a request every rank has reported runs. *)
DGetFinished(d) ==
  /\ dFinished[d] # {}
  /\ dFinished' = [dFinished EXCEPT ![d] = {}]
  /\ recvd' = [r \in Req |-> IF r \in dFinished[d] THEN recvd[r] \cup {d} ELSE recvd[r]]
  /\ dReq' = [r \in Req |-> IF r \in dFinished[d] /\ recvd[r] \cup {d} = DRank
                            THEN "running" ELSE dReq[r]]
  /\ UNCHANGED <<prefillVars, queue, task, pc, conv, dLinked, kv, failed, comm, faults>>

DFinish(r) ==
  /\ dReq[r] = "running"
  /\ dReq' = [dReq EXCEPT ![r] = "finished"]
  /\ UNCHANGED <<prefillVars, recvd, taskVars, comm, faults>>

-----------------------------------------------------------------------------
(* _read_blocks in the executor of decode rank d. *)

Goto(d, from, to) ==
  /\ pc[d] = from
  /\ pc' = [pc EXCEPT ![d] = to]

(* The task ends, with or without an exception for handle_exception. *)
EndTask(d) ==
  /\ task' = [task EXCEPT ![d] = None]
  /\ pc' = [pc EXCEPT ![d] = "idle"]

RaiseTask(d) ==
  /\ failed' = failed \cup {<<task[d], d>>}
  /\ EndTask(d)

StartTask(d) ==
  /\ queue[d] # <<>>
  /\ Goto(d, "idle", "connect")
  /\ task' = [task EXCEPT ![d] = Head(queue[d])]
  /\ queue' = [queue EXCEPT ![d] = Tail(@)]
  /\ UNCHANGED <<prefillVars, schedVars, conv, dLinked, kv, dFinished, failed, comm, faults>>

(* connect_to_remote_agent sends its metadata for every request ... *)
SendMeta(d) ==
  /\ Goto(d, "connect", "wait_meta")
  /\ conv' = [conv EXCEPT ![d] = "meta_req"]
  /\ UNCHANGED <<prefillVars, schedVars, queue, task, dLinked, kv, dFinished, failed, comm, faults>>

(* ... and waits without a timeout for the peer's. *)
RecvMeta(d) ==
  /\ conv[d] = "meta_rep"
  /\ conv' = [conv EXCEPT ![d] = "none"]
  /\ Goto(d, "wait_meta", "link")
  /\ UNCHANGED <<prefillVars, schedVars, queue, task, dLinked, kv, dFinished, failed, comm, faults>>

(* A variant that links whatever linked_cluster says. *)
AddRemoteAgent_Relink(d) ==
  /\ Goto(d, "link", "poll_link")
  /\ comm' = [comm EXCEPT ![<<TpOffset(d), d>>] = "none"]
  /\ UNCHANGED <<prefillVars, schedVars, queue, task, conv, dLinked, kv, dFinished, failed, faults>>

(* add_remote_agent: linked pairs skip the link.  (_read_blocks then       *)
(* returns if there are no local blocks, which PromptAssumption excludes.) *)
AddRemoteAgent(d) ==
  /\ Goto(d, "link", IF TpOffset(d) \in dLinked[d] THEN "pull" ELSE "poll_link")
  /\ UNCHANGED <<prefillVars, schedVars, queue, task, conv, dLinked, kv, dFinished, failed,
                 comm, faults>>

(* The communicator of p and d comes up, or fails, once both sides wait. *)
BothLink(p, d) == listener[p] = Linking(d) /\ pc[d] = "poll_link" /\ TpOffset(d) = p

LinkUp(p, d) ==
  /\ BothLink(p, d)
  /\ comm[<<p, d>>] = "none"
  /\ comm' = [comm EXCEPT ![<<p, d>>] = "ok"]
  /\ UNCHANGED <<prefillVars, schedVars, taskVars, faults>>

LinkFails(p, d) ==
  /\ faults < MaxFaults
  /\ BothLink(p, d)
  /\ comm[<<p, d>>] = "none"
  /\ comm' = [comm EXCEPT ![<<p, d>>] = "failed"]
  /\ faults' = faults + 1
  /\ UNCHANGED <<prefillVars, schedVars, taskVars>>

TaskLinked(d) ==
  /\ comm[<<TpOffset(d), d>>] = "ok"
  /\ dLinked' = [dLinked EXCEPT ![d] = @ \cup {TpOffset(d)}]
  /\ Goto(d, "poll_link", "pull")
  /\ UNCHANGED <<prefillVars, schedVars, queue, task, conv, kv, dFinished, failed, comm, faults>>

TaskLinkFails(d) ==
  /\ pc[d] = "poll_link"
  /\ comm[<<TpOffset(d), d>>] = "failed"
  /\ RaiseTask(d)
  /\ UNCHANGED <<prefillVars, schedVars, queue, conv, dLinked, kv, dFinished, comm, faults>>

(* assert num_local_blocks <= num_remote_blocks *)
TooManyBlocks(d) ==
  /\ pc[d] = "pull"
  /\ Cardinality(LocalBlocks(task[d])) > Cardinality(RemoteBlocks(task[d]))
  /\ RaiseTask(d)
  /\ UNCHANGED <<prefillVars, schedVars, queue, conv, dLinked, kv, dFinished, comm, faults>>

(* The caches that pull_blocks has filled for r. *)
PulledCaches(d, r) == {t[1] : t \in kv[d][r]}

CanPull(d) ==
  /\ pc[d] = "pull"
  /\ Cardinality(LocalBlocks(task[d])) <= Cardinality(RemoteBlocks(task[d]))

(* pull_blocks, once per cache: block by block from the prefill engine,    *)
(* whose blocks hold this request only until they are freed.               *)
PullBlocks(d) ==
  LET r    == task[d]
      c    == Cardinality(PulledCaches(d, r)) + 1
      from == [b \in LocalBlocks(r) |-> IF pReq[r] = "delayed" THEN PulledFrom(r, b) ELSE 0]
  IN  /\ CanPull(d)
      /\ kv' = [kv EXCEPT ![d][r] = @ \cup {<<c, b, from[b]>> : b \in LocalBlocks(r)}]
      /\ pc' = [pc EXCEPT ![d] = IF c = NumCaches THEN "finish" ELSE "pull"]
      /\ UNCHANGED <<prefillVars, schedVars, queue, task, conv, dLinked, dFinished, failed,
                     comm, faults>>

(* A variant that logs a failed pull and goes on. *)
PullFails_Continue(d) ==
  /\ faults < MaxFaults
  /\ CanPull(d)
  /\ Goto(d, "pull", "finish")
  /\ failed' = failed \cup {<<task[d], d>>}
  /\ faults' = faults + 1
  /\ UNCHANGED <<prefillVars, schedVars, queue, task, conv, dLinked, kv, dFinished, comm>>

(* pull_blocks raises: the task ends and nobody is told. *)
PullFails(d) ==
  /\ faults < MaxFaults
  /\ CanPull(d)
  /\ RaiseTask(d)
  /\ faults' = faults + 1
  /\ UNCHANGED <<prefillVars, schedVars, queue, conv, dLinked, kv, dFinished, comm>>

(* send_finish_to_remote, to the port of prefill rank 0 ... *)
SendFinish(d) ==
  /\ Goto(d, "finish", "wait_ack")
  /\ conv' = [conv EXCEPT ![d] = "fin_req"]
  /\ UNCHANGED <<prefillVars, schedVars, queue, task, dLinked, kv, dFinished, failed, comm, faults>>

(* ... and, once it is acknowledged, finished_reqs under the lock. *)
RecvAck(d) ==
  /\ pc[d] = "wait_ack"
  /\ conv[d] = "fin_ack"
  /\ conv' = [conv EXCEPT ![d] = "none"]
  /\ dFinished' = [dFinished EXCEPT ![d] = @ \cup {task[d]}]
  /\ EndTask(d)
  /\ UNCHANGED <<prefillVars, schedVars, queue, dLinked, kv, failed, comm, faults>>

-----------------------------------------------------------------------------
PrefillStep == \/ \E r \in Req : PFinish(r) \/ PStop(r)
               \/ \E p \in PRank : PGetFinished(p)

Listener(p) == \E d \in DRank : \/ ListenMeta(p, d) \/ ListenFinished(p, d)
                                \/ ListenLinked(p, d) \/ ListenDies(p, d)

DecodeStep == \/ \E r \in Req : DSchedule(r) \/ DFinish(r)
              \/ \E d \in DRank : DGetFinished(d)

ReadBlocks(d) ==
  \/ StartTask(d) \/ SendMeta(d) \/ RecvMeta(d) \/ AddRemoteAgent(d)
  \/ TaskLinked(d) \/ TaskLinkFails(d) \/ TooManyBlocks(d)
  \/ PullBlocks(d) \/ PullFails(d) \/ SendFinish(d) \/ RecvAck(d)

Next ==
  \/ PrefillStep
  \/ DecodeStep
  \/ \E p \in PRank : Listener(p)
  \/ \E d \in DRank : ReadBlocks(d)
  \/ \E p \in PRank, d \in DRank : LinkUp(p, d) \/ LinkFails(p, d)

Spec == Init /\ [][Next]_vars

(* The engines keep stepping, the threads keep running and a link that     *)
(* both sides wait for is settled.                                         *)
Fairness ==
  /\ \A r \in Req : WF_vars(PFinish(r) \/ PStop(r)) /\ WF_vars(DSchedule(r)) /\ WF_vars(DFinish(r))
  /\ \A p \in PRank : WF_vars(PGetFinished(p)) /\ WF_vars(Listener(p))
  /\ \A d \in DRank : WF_vars(DGetFinished(d)) /\ WF_vars(ReadBlocks(d))
  /\ \A p \in PRank, d \in DRank : WF_vars(LinkUp(p, d))

FairSpec == Spec /\ Fairness
-----------------------------------------------------------------------------
(* _read_blocks, PullBlocks: a request runs at the decode engine only when *)
(* every rank holds every cache of every prompt block it had not cached,   *)
(* copied from the same block of the prompt while prefill still held it.   *)
RunsOnOwnKV ==
  \A r \in Req : dReq[r] \in {"running", "finished"} =>
    \A d \in DRank, c \in Cache, b \in LocalBlocks(r) \cap RemoteBlocks(r) :
      {t \in kv[d][r] : t[1] = c /\ t[2] = b} = {<<c, b, b>>}

(* start_load_kv, _read_blocks: a task that raised leaves its request      *)
(* stranded on both sides at once: the decode engine never runs it on an   *)
(* incomplete cache, and prefill never frees blocks a rank has not read.   *)
StrandedTogether ==
  \A rd \in failed : pReq[rd[1]] = "delayed" /\ dReq[rd[1]] = "waiting_kvs"

(* add_remote_agent on both sides: when a worker takes a pair for linked,  *)
(* its peer does too or is about to read the same status; so neither side  *)
(* ever calls link alone and waits for a peer that skips it.               *)
LinksAgree ==
  \A p \in PRank, d \in DRank :
    /\ p \in dLinked[d] => d \in pLinked[p] \/ listener[p] = Linking(d)
    /\ d \in pLinked[p] => p \in dLinked[d] \/ pc[d] = "poll_link"
    /\ pc[d] = "poll_link" /\ comm[<<p, d>>] = "none" /\ TpOffset(d) = p
          => listener[p] = Linking(d)

(* The ranks that have read the whole of a request. *)
Through(r) == {d \in DRank : PulledCaches(d, r) = Cache}

Blocks == [r \in Req |-> CASE pReq[r] = "prefilling" -> "computing"
                           [] pReq[r] = "delayed"    -> "held"
                           [] pReq[r] = "freed"      -> "freed"]

Pulled == [r \in Req |-> Through(r)]

Handoff == INSTANCE KVHandoff WITH Rank <- DRank, blocks <- Blocks, pulled <- Pulled

(* The connector keeps the promise of KVHandoff: each rank reads a request *)
(* at most once and only while its blocks are held, and request_finished's *)
(* delayed free happens only after every rank has read them.               *)
ImplementsHandoff == Handoff!HSpec

(* Prefill has learnt that every rank is through with a request.  With one *)
(* prefill rank its blocks are free then.  With more, finish signals reach *)
(* FinishRank alone and no other rank ever reports the request: that one   *)
(* report is all that comes, and the blocks stay held.                     *)
Returned(r) == IF PTpSize = 1 THEN pReq[r] = "freed" ELSE FinishRank \in sent[r]

(* listen_for_agent_metadata_req, get_finished: without faults, and unless *)
(* the assertion on its block lists stopped it, a request that prefill     *)
(* offers is decoded and prefill learns of it, whatever other requests and *)
(* ranks do with the listener threads and the one-thread executors.  That  *)
(* its blocks come back too is claimed for one prefill rank only.          *)
HandedOver ==
  \A r \in Req : r \in kvParams ~>
    \/ Returned(r) /\ dReq[r] = "finished"
    \/ \E d \in DRank : <<r, d>> \in failed
    \/ faults > 0
=============================================================================
