-------------------------- MODULE LLMDataDistProofs --------------------------
(***************************************************************************)
(* Proofs about LLMDataDist, for every number of requests, ranks, caches   *)
(* and faults.                                                             *)
(***************************************************************************)
EXTENDS LLMDataDist, FiniteSetTheorems, SequenceTheorems, TLAPS

-----------------------------------------------------------------------------
(* The inductive invariant. *)

Elems(s)      == {s[i] : i \in 1 .. Len(s)}
NoRepeats(s)  == \A i, j \in 1 .. Len(s) : s[i] = s[j] => i = j

(* Decode rank d has read r and will say so, or has said so. *)
Done(r, d) == r \in dFinished[d] \/ d \in recvd[r]

(* The listener of rank 0 has taken the finish signal of r from rank d. *)
Signalled(r, d) == Done(r, d) \/ (task[d] = r /\ conv[d] = "fin_ack")

(* What pull_blocks has copied once it has filled the first n caches. *)
PulledKV(r, n) == {<<c, b, PulledFrom(r, b)>> : c \in 1 .. n, b \in LocalBlocks(r)}

Complete(r, d) ==
  /\ kv[d][r] = PulledKV(r, NumCaches)
  /\ Cardinality(LocalBlocks(r)) <= Cardinality(RemoteBlocks(r))

ParamsInv ==
  \A r \in Req :
    /\ r \in kvParams => pReq[r] # "prefilling"
    /\ pReq[r] = "delayed" => r \in kvParams
    /\ dReq[r] # "absent" => r \in kvParams

(* A rank has one task per request: it waits, is read, failed or is done. *)
TaskPlace(r, d) ==
  /\ r \in Elems(queue[d]) => /\ dReq[r] # "absent" /\ task[d] # r /\ kv[d][r] = {}
                              /\ ~Done(r, d) /\ <<r, d>> \notin failed
  /\ task[d] = r => dReq[r] # "absent" /\ ~Done(r, d) /\ <<r, d>> \notin failed
  /\ <<r, d>> \in failed => dReq[r] # "absent" /\ ~Done(r, d)
  /\ Done(r, d) => dReq[r] # "absent"
  /\ dReq[r] = "absent" => kv[d][r] = {}
  /\ dReq[r] \in {"running", "finished"} => d \in recvd[r]

PlaceInv == \A r \in Req, d \in DRank : NoRepeats(queue[d]) /\ TaskPlace(r, d)

(* What is on the REQ socket is what _read_blocks waits for. *)
ThreadInv ==
  \A d \in DRank :
    /\ task[d] = None <=> pc[d] = "idle"
    /\ pc[d] \notin {"wait_meta", "wait_ack"} => conv[d] = "none"
    /\ pc[d] = "wait_meta" => conv[d] \in {"meta_req", "meta_rep"}
    /\ pc[d] = "wait_ack" => conv[d] \in {"fin_req", "fin_ack"}

(* pull_blocks fills cache after cache, and none is left out. *)
KVOf(r, d) ==
  /\ task[d] = r /\ pc[d] \in {"connect", "wait_meta", "link", "poll_link"} => kv[d][r] = {}
  /\ task[d] = r /\ pc[d] = "pull"
       => \E n \in 0 .. NumCaches - 1 : kv[d][r] = PulledKV(r, n)
  /\ task[d] = r /\ pc[d] \in {"finish", "wait_ack"} => Complete(r, d)
  /\ Done(r, d) => Complete(r, d)

KVInv == \A r \in Req, d \in DRank : KVOf(r, d)

(* Only rank 0 counts, and what it has counted it has been told. *)
SignalsOf(r) ==
  /\ \A p \in PRank : p # FinishRank
       => counts[p][r] = {} /\ r \notin pFinished[p] /\ p \notin sent[r]
  /\ \A d \in counts[FinishRank][r] : Signalled(r, d)
  /\ r \in pFinished[FinishRank] \/ FinishRank \in sent[r]
       => \A d \in DRank : Signalled(r, d)
  /\ r \in pFinished[FinishRank] => FinishRank \notin sent[r]
  /\ pReq[r] = "freed" /\ r \in kvParams => sent[r] = PRank

SignalInv == \A r \in Req : SignalsOf(r)

(* The two ends of a pair and the communicator between them. *)
PairInv(p, d) ==
  /\ listener[p] = Linking(d) => TpOffset(d) = p /\ d \notin pLinked[p]
  /\ d \in pLinked[p] \/ p \in dLinked[d] => comm[<<p, d>>] = "ok"
  /\ comm[<<p, d>>] = "ok" => /\ d \in pLinked[p] \/ listener[p] = Linking(d)
                              /\ p \in dLinked[d] \/ pc[d] = "poll_link"
  /\ comm[<<p, d>>] # "none" => TpOffset(d) = p
  /\ TpOffset(d) = p /\ comm[<<p, d>>] = "none"
       /\ (pc[d] \in {"link", "poll_link"} \/ conv[d] = "meta_rep")
       => listener[p] = Linking(d)

LinkInv == \A p \in PRank, d \in DRank : PairInv(p, d)

IInv == TypeOK /\ ParamsInv /\ PlaceInv /\ ThreadInv /\ KVInv /\ SignalInv /\ LinkInv

-----------------------------------------------------------------------------
(* Sequences, ranks and blocks. *)

(* The task queue of an executor is a ThreadPoolExecutor's: submit appends *)
(* to it. *)
LEMMA AppendElems ==
  ASSUME NEW S, NEW s \in Seq(S), NEW e \in S
  PROVE  /\ Elems(Append(s, e)) = Elems(s) \cup {e}
         /\ NoRepeats(s) /\ e \notin Elems(s) => NoRepeats(Append(s, e))
<1>1. /\ Append(s, e) \in Seq(S)
      /\ Len(Append(s, e)) = Len(s) + 1 /\ Len(s) \in Nat
      /\ \A i \in 1 .. Len(s) : Append(s, e)[i] = s[i]
      /\ Append(s, e)[Len(s) + 1] = e
  BY AppendProperties, LenProperties
<1>2. 1 .. Len(s) + 1 = (1 .. Len(s)) \cup {Len(s) + 1}
  BY <1>1
<1> QED
  BY <1>1, <1>2 DEF Elems, NoRepeats

(* Its one thread takes the oldest task. *)
LEMMA TailElems ==
  ASSUME NEW S, NEW s \in Seq(S), s # <<>>, NoRepeats(s)
  PROVE  /\ Head(s) \in S
         /\ Elems(s) = Elems(Tail(s)) \cup {Head(s)}
         /\ Head(s) \notin Elems(Tail(s))
         /\ NoRepeats(Tail(s))
<1>1. /\ Head(s) \in S /\ Head(s) = s[1] /\ Tail(s) \in Seq(S)
      /\ Len(s) \in Nat /\ Len(s) # 0 /\ Len(Tail(s)) = Len(s) - 1
      /\ \A i \in 1 .. Len(Tail(s)) : Tail(s)[i] = s[i + 1]
  BY HeadTailProperties, LenProperties, EmptySeq
<1>2. \A i \in 1 .. Len(s) : i = 1 \/ (i - 1 \in 1 .. Len(Tail(s)) /\ Tail(s)[i - 1] = s[i])
  BY <1>1
<1>3. \A i \in 1 .. Len(Tail(s)) : i + 1 \in 1 .. Len(s) /\ 1 \in 1 .. Len(s) /\ i + 1 # 1
  BY <1>1
<1>4. Elems(s) = Elems(Tail(s)) \cup {Head(s)}
  <2>1. \A x \in Elems(s) : x \in Elems(Tail(s)) \cup {Head(s)}
    BY <1>1, <1>2 DEF Elems
  <2>2. \A x \in Elems(Tail(s)) : x \in Elems(s)
    BY <1>1, <1>3 DEF Elems
  <2>3. Head(s) \in Elems(s)
    BY <1>1 DEF Elems
  <2> QED
    BY <2>1, <2>2, <2>3
<1>5. Head(s) \notin Elems(Tail(s))
  BY <1>1, <1>3 DEF Elems, NoRepeats
<1>6. NoRepeats(Tail(s))
  <2> SUFFICES ASSUME NEW i \in 1 .. Len(Tail(s)), NEW j \in 1 .. Len(Tail(s)),
                      Tail(s)[i] = Tail(s)[j]
               PROVE  i = j
    BY DEF NoRepeats
  <2>1. s[i + 1] = s[j + 1] /\ i + 1 \in 1 .. Len(s) /\ j + 1 \in 1 .. Len(s)
    BY <1>1, <1>3
  <2>2. i + 1 = j + 1
    BY <2>1 DEF NoRepeats
  <2> QED
    BY <2>2
<1> QED
  BY <1>1, <1>4, <1>5, <1>6

(* tp_rank % remote_tp_size is the rank of a prefill worker. *)
LEMMA Offsets == \A d \in DRank : TpOffset(d) \in PRank
BY SizeAssumption DEF DRank, PRank, TpOffset

(* Rank 0 counts every rank of the decode engine before it is through. *)
LEMMA AllRanks ==
  ASSUME NEW D \in SUBSET DRank, Cardinality(D) = DTpSize
  PROVE  D = DRank
<1>1. 0 \in Int /\ DTpSize - 1 \in Int /\ DTpSize \in Nat \ {0}
  BY SizeAssumption
<1>2. IsFiniteSet(DRank) /\ Cardinality(DRank) = DTpSize
  BY <1>1, FS_Interval DEF DRank
<1> QED
  BY <1>2, FS_Subset

(* Both engines have a rank 0, and the one that is told exists. *)
LEMMA Ranks == 0 \in PRank /\ FinishRank \in PRank /\ 0 \in DRank
BY SizeAssumption DEF PRank, DRank, FinishRank

(* The number of blocks of a prompt is a number. *)
LEMMA CeilDivType ==
  ASSUME NEW a \in Nat, NEW b \in Nat \ {0}
  PROVE  CeilDiv(a, b) \in Nat /\ (a \div b) \in Nat /\ (a > 0 => CeilDiv(a, b) >= 1)
BY DEF CeilDiv

(* A part of a prompt fills fewer blocks than the prompt takes. *)
LEMMA DivBound ==
  ASSUME NEW a \in Nat, NEW c \in Nat, NEW b \in Nat \ {0}, a < c
  PROVE  a \div b < CeilDiv(c, b)
BY DEF CeilDiv

(* How many blocks a request has at either end. *)
LEMMA BlockCounts ==
  ASSUME NEW r \in Req
  PROVE  LET lo == Cached[r] \div BlockSize + 1
             hi == CeilDiv(PromptLen[r] + Lookahead, BlockSize)
             n  == CeilDiv(PromptLen[r], BlockSize)
         IN  /\ lo \in Nat /\ hi \in Nat /\ n \in Nat /\ 1 <= lo /\ lo <= hi
             /\ LocalBlocks(r) = lo .. hi /\ RemoteBlocks(r) = 1 .. n
             /\ Cardinality(LocalBlocks(r)) = hi - lo + 1
             /\ Cardinality(RemoteBlocks(r)) = n
             /\ hi \in LocalBlocks(r)
<1> DEFINE lo == Cached[r] \div BlockSize + 1
           hi == CeilDiv(PromptLen[r] + Lookahead, BlockSize)
           n  == CeilDiv(PromptLen[r], BlockSize)
<1>1. /\ BlockSize \in Nat \ {0} /\ PromptLen[r] \in Nat \ {0} /\ Cached[r] \in Nat
      /\ Lookahead \in Nat /\ Cached[r] < PromptLen[r]
      /\ PromptLen[r] + Lookahead \in Nat /\ Cached[r] < PromptLen[r] + Lookahead
  BY SizeAssumption, PromptAssumption
<1>2. n \in Nat /\ hi \in Nat /\ Cached[r] \div BlockSize \in Nat
  BY <1>1, CeilDivType
<1>3. Cached[r] \div BlockSize < hi
  BY <1>1, DivBound
<1>4. lo \in Nat /\ 1 <= lo /\ lo <= hi
  BY <1>2, <1>3
<1>5. LocalBlocks(r) = (lo .. hi) /\ RemoteBlocks(r) = (1 .. n)
  BY DEF LocalBlocks, RemoteBlocks
<1> HIDE DEF lo, hi, n
<1>6. Cardinality(lo .. hi) = hi - lo + 1
  <2>1. lo \in Int /\ hi \in Int /\ lo <= hi
    BY <1>2, <1>4
  <2> QED
    BY <2>1, FS_Interval
<1>7. Cardinality(1 .. n) = n
  <2>1. 1 \in Int /\ n \in Int /\ (n >= 1 \/ n = 0)
    BY <1>2
  <2> QED
    BY <2>1, FS_Interval
<1>8. hi \in lo .. hi
  BY <1>2, <1>4
<1> QED
  BY <1>2, <1>4, <1>5, <1>6, <1>7, <1>8 DEF lo, hi, n

(* _read_blocks: with the tail of the remote list, a block is copied from *)
(* a block that exists. *)
LEMMA PulledFromType ==
  ASSUME NEW r \in Req, NEW b \in LocalBlocks(r),
         Cardinality(LocalBlocks(r)) <= Cardinality(RemoteBlocks(r))
  PROVE  b \in Nat /\ PulledFrom(r, b) \in RemoteBlocks(r)
BY BlockCounts DEF PulledFrom

(* Lookahead tokens of a request with cached blocks need no further block. *)
LookaheadFits ==
  \A r \in Req : \/ Cached[r] = 0
                 \/ CeilDiv(PromptLen[r] + Lookahead, BlockSize) = CeilDiv(PromptLen[r], BlockSize)

(* Then the tail of the remote list lines up with the local blocks. *)
LEMMA TailLinesUp ==
  ASSUME LookaheadFits, NEW r \in Req, NEW b \in LocalBlocks(r),
         Cardinality(LocalBlocks(r)) <= Cardinality(RemoteBlocks(r))
  PROVE  PulledFrom(r, b) = b
<1> DEFINE lo == Cached[r] \div BlockSize + 1
           hi == CeilDiv(PromptLen[r] + Lookahead, BlockSize)
           n  == CeilDiv(PromptLen[r], BlockSize)
<1>1. /\ lo \in Nat /\ hi \in Nat /\ n \in Nat /\ b \in lo .. hi
      /\ Cardinality(LocalBlocks(r)) = hi - lo + 1 /\ Cardinality(RemoteBlocks(r)) = n
  BY BlockCounts
<1>2. BlockSize \in Nat \ {0} /\ PromptLen[r] \in Nat /\ Lookahead \in Nat
  BY SizeAssumption, PromptAssumption
<1>3. n <= hi
  BY <1>2 DEF CeilDiv
<1>4. CASE Cached[r] = 0
  <2>1. lo = 1
    BY <1>2, <1>4
  <2>2. hi = n
    BY <1>1, <1>3, <2>1
  <2> QED
    BY <1>1, <2>2 DEF PulledFrom
<1>5. CASE hi = n
  BY <1>1, <1>5 DEF PulledFrom
<1> QED
  BY <1>4, <1>5 DEF LookaheadFits

(* Every pull fills the next cache, whole. *)
LEMMA NextCache ==
  ASSUME NEW r \in Req, NEW d \in DRank, NEW n \in Nat, kv[d][r] = PulledKV(r, n)
  PROVE  /\ PulledCaches(d, r) = 1 .. n
         /\ Cardinality(PulledCaches(d, r)) = n
         /\ PulledKV(r, n + 1)
              = PulledKV(r, n) \cup {<<n + 1, b, PulledFrom(r, b)>> : b \in LocalBlocks(r)}
<1>1. PICK x : x \in LocalBlocks(r)
  BY BlockCounts
<1>2. PulledCaches(d, r) = 1 .. n
  <2>1. \A t \in PulledKV(r, n) : t[1] \in 1 .. n
    BY DEF PulledKV
  <2>2. \A c \in 1 .. n : \E t \in PulledKV(r, n) : t[1] = c
    <3>1. ASSUME NEW c \in 1 .. n PROVE \E t \in PulledKV(r, n) : t[1] = c
      <4>1. <<c, x, PulledFrom(r, x)>> \in PulledKV(r, n)
        BY <1>1 DEF PulledKV
      <4> QED
        BY <4>1, Zenon
    <3> QED
      BY <3>1
  <2>3. PulledCaches(d, r) = {t[1] : t \in PulledKV(r, n)}
    BY DEF PulledCaches
  <2> QED
    BY <2>1, <2>2, <2>3
<1>3. Cardinality(1 .. n) = n
  <2>1. 1 \in Int /\ n \in Int /\ (n >= 1 \/ n = 0)
    OBVIOUS
  <2> QED
    BY <2>1, FS_Interval
<1>4. 1 .. n + 1 = (1 .. n) \cup {n + 1}
  OBVIOUS
<1> QED
  BY <1>2, <1>3, <1>4 DEF PulledKV

(* A listener thread does one thing at a time. *)
LEMMA ListenerStates ==
  /\ Recving # Dead
  /\ \A d \in DRank : Linking(d) # Recving /\ Linking(d) # Dead
  /\ \A d, e \in DRank : Linking(d) = Linking(e) => d = e
<1>1. Recving # Dead
  BY DEF Recving, Dead
<1>2. ASSUME NEW d \in DRank PROVE Linking(d) # Recving /\ Linking(d) # Dead
  BY DEF Recving, Dead, Linking
<1>3. ASSUME NEW d \in DRank, NEW e \in DRank, Linking(d) = Linking(e) PROVE d = e
  <2>1. Linking(d)[2] = d /\ Linking(e)[2] = e
    BY DEF Linking
  <2> QED
    BY <1>3, <2>1
<1> QED
  BY <1>1, <1>2, <1>3

-----------------------------------------------------------------------------
(* Types. *)

(* pull_blocks copies into a cache that exists, from and to blocks that do. *)
LEMMA PullType ==
  ASSUME IInv, NEW d \in DRank, PullBlocks(d)
  PROVE  /\ task[d] \in Req
         /\ \E n \in 0 .. NumCaches - 1 :
              /\ kv[d][task[d]] = PulledKV(task[d], n)
              /\ Cardinality(PulledCaches(d, task[d])) + 1 = n + 1
              /\ n + 1 \in Cache
<1>1. task[d] \in Req
  BY DEF IInv, TypeOK, ThreadInv, PullBlocks, CanPull
<1>2. PICK n \in 0 .. NumCaches - 1 : kv[d][task[d]] = PulledKV(task[d], n)
  BY <1>1 DEF IInv, KVInv, KVOf, PullBlocks, CanPull
<1>3. NumCaches \in Nat \ {0}
  BY SizeAssumption
<1>4. n \in Nat /\ n + 1 \in Cache
  BY <1>3 DEF Cache
<1>5. Cardinality(PulledCaches(d, task[d])) + 1 = n + 1
  BY <1>1, <1>2, <1>4, NextCache
<1> QED
  BY <1>1, <1>2, <1>4, <1>5

(* The steps of the two schedulers and of the listeners keep the types. *)
LEMMA TypeStepListener ==
  ASSUME TypeOK, ThreadInv, PrefillStep \/ DecodeStep \/ \E p \in PRank : Listener(p)
  PROVE  TypeOK'
<1> USE DEF TypeOK, prefillVars, schedVars, taskVars
<1>1. ASSUME NEW r \in Req, PFinish(r) PROVE TypeOK'
  BY <1>1 DEF PFinish
<1>2. ASSUME NEW r \in Req, PStop(r) PROVE TypeOK'
  BY <1>2 DEF PStop
<1>3. ASSUME NEW p \in PRank, PGetFinished(p) PROVE TypeOK'
  BY <1>3 DEF PGetFinished
<1>4. ASSUME NEW p \in PRank, NEW d \in DRank, ListenMeta(p, d) PROVE TypeOK'
  BY <1>4 DEF ListenMeta, Convs
<1>5. ASSUME NEW p \in PRank, NEW d \in DRank, ListenLinked(p, d) PROVE TypeOK'
  BY <1>5 DEF ListenLinked
<1>6. ASSUME NEW p \in PRank, NEW d \in DRank, ListenDies(p, d) PROVE TypeOK'
  BY <1>6 DEF ListenDies
<1>7. ASSUME NEW p \in PRank, NEW d \in DRank, ListenFinished(p, d) PROVE TypeOK'
  <2>1. task[d] \in Req
    BY <1>7 DEF ListenFinished, ThreadInv
  <2> QED
    BY <1>7, <2>1 DEF ListenFinished, IncrementTaskCount, Convs
<1>8. ASSUME NEW r \in Req, DSchedule(r) PROVE TypeOK'
  <2>1. \A d \in DRank : Append(queue[d], r) \in Seq(Req)
    BY AppendProperties
  <2> QED
    BY <1>8, <2>1 DEF DSchedule
<1>9. ASSUME NEW r \in Req, DFinish(r) PROVE TypeOK'
  BY <1>9 DEF DFinish
<1>10. ASSUME NEW d \in DRank, DGetFinished(d) PROVE TypeOK'
  BY <1>10 DEF DGetFinished
<1> QED
  BY <1>1, <1>2, <1>3, <1>4, <1>5, <1>6, <1>7, <1>8, <1>9, <1>10
     DEF PrefillStep, DecodeStep, Listener

(* The steps of an executor keep the types. *)
LEMMA TypeStepTask ==
  ASSUME IInv, NEW d \in DRank, ReadBlocks(d)
  PROVE  TypeOK'
<1> USE DEF prefillVars, schedVars, taskVars, Goto, EndTask, RaiseTask, Pcs, Convs
<1>1. TypeOK
  BY DEF IInv
<1>2. CASE StartTask(d)
  <2>1. Head(queue[d]) \in Req /\ Tail(queue[d]) \in Seq(Req)
    BY <1>1, <1>2, HeadTailProperties DEF StartTask, TypeOK
  <2> QED
    BY <1>1, <1>2, <2>1 DEF StartTask, TypeOK
<1>3. CASE SendMeta(d)
  BY <1>1, <1>3 DEF SendMeta, TypeOK
<1>4. CASE RecvMeta(d)
  BY <1>1, <1>4 DEF RecvMeta, TypeOK
<1>5. CASE AddRemoteAgent(d)
  BY <1>1, <1>5 DEF AddRemoteAgent, TypeOK
<1>6. CASE TaskLinked(d)
  BY <1>1, <1>6, Offsets DEF TaskLinked, TypeOK
<1>7. CASE TaskLinkFails(d) \/ TooManyBlocks(d)
  <2>1. task[d] \in Req
    BY <1>1, <1>7 DEF TaskLinkFails, TooManyBlocks, IInv, ThreadInv, TypeOK
  <2>2. RaiseTask(d) /\ UNCHANGED <<prefillVars, schedVars, queue, conv, dLinked, kv, dFinished,
                                    comm, faults>>
    BY <1>7 DEF TaskLinkFails, TooManyBlocks
  <2> QED
    BY <1>1, <2>1, <2>2 DEF TypeOK
<1>8. CASE PullBlocks(d)
  <2> DEFINE r    == task[d]
             c    == Cardinality(PulledCaches(d, r)) + 1
             from == [b \in LocalBlocks(r) |-> IF pReq[r] = "delayed" THEN PulledFrom(r, b) ELSE 0]
             new  == {<<c, b, from[b]>> : b \in LocalBlocks(r)}
  <2>1. r \in Req /\ c \in Cache
    BY <1>8, PullType
  <2>2. Cardinality(LocalBlocks(r)) <= Cardinality(RemoteBlocks(r))
    BY <1>8 DEF PullBlocks, CanPull
  <2>3. \A b \in LocalBlocks(r) : b \in Nat /\ PulledFrom(r, b) \in Nat
    <3>1. RemoteBlocks(r) \subseteq Nat
      BY DEF RemoteBlocks
    <3> QED
      BY <2>1, <2>2, <3>1, PulledFromType
  <2>4. new \subseteq Cache \X Nat \X Nat
    BY <2>1, <2>3
  <2>5. /\ kv' = [kv EXCEPT ![d][r] = @ \cup new]
        /\ pc' = [pc EXCEPT ![d] = IF c = NumCaches THEN "finish" ELSE "pull"]
        /\ UNCHANGED <<prefillVars, schedVars, queue, task, conv, dLinked, dFinished, failed,
                       comm, faults>>
    BY <1>8 DEF PullBlocks
  <2> HIDE DEF r, c, new
  <2> QED
    BY <1>1, <2>1, <2>4, <2>5 DEF TypeOK
<1>9. CASE PullFails(d)
  <2>1. task[d] \in Req
    BY <1>1, <1>9 DEF PullFails, CanPull, IInv, ThreadInv, TypeOK
  <2>2. faults + 1 \in 0 .. MaxFaults
    BY <1>1, <1>9, SizeAssumption DEF PullFails, TypeOK
  <2> QED
    BY <1>1, <1>9, <2>1, <2>2 DEF PullFails, TypeOK
<1>10. CASE SendFinish(d)
  BY <1>1, <1>10 DEF SendFinish, TypeOK
<1>11. CASE RecvAck(d)
  <2>1. task[d] \in Req
    BY <1>1, <1>11 DEF RecvAck, IInv, ThreadInv, TypeOK
  <2> QED
    BY <1>1, <1>11, <2>1 DEF RecvAck, TypeOK
<1> QED
  BY <1>2, <1>3, <1>4, <1>5, <1>6, <1>7, <1>8, <1>9, <1>10, <1>11 DEF ReadBlocks

(* Every step of engines and threads keeps the types. *)
LEMMA TypeStep == IInv /\ [Next]_vars => TypeOK'
<1> SUFFICES ASSUME IInv, [Next]_vars PROVE TypeOK'
  OBVIOUS
<1>1. ASSUME NEW p \in PRank, NEW d \in DRank, LinkUp(p, d) PROVE TypeOK'
  BY <1>1 DEF LinkUp, IInv, TypeOK, prefillVars, schedVars, taskVars
<1>2. ASSUME NEW p \in PRank, NEW d \in DRank, LinkFails(p, d) PROVE TypeOK'
  <2>1. faults + 1 \in 0 .. MaxFaults
    BY <1>2, SizeAssumption DEF LinkFails, IInv, TypeOK
  <2> QED
    BY <1>2, <2>1 DEF LinkFails, IInv, TypeOK, prefillVars, schedVars, taskVars
<1>3. CASE UNCHANGED vars
  BY <1>3 DEF vars, prefillVars, schedVars, taskVars, IInv, TypeOK
<1> QED
  BY <1>1, <1>2, <1>3, TypeStepListener, TypeStepTask DEF Next, IInv

-----------------------------------------------------------------------------
(* What the threads leave to each other. *)

(* The listener only answers, counts and links; *)
LEMMA ListenerFrame ==
  ASSUME NEW p \in PRank, Listener(p)
  PROVE  UNCHANGED <<pReq, kvParams, sent, schedVars, queue, task, pc, dLinked, kv,
                     dFinished, failed, comm, faults>>
BY DEF Listener, ListenMeta, ListenFinished, ListenLinked, ListenDies, taskVars

(* an executor touches neither scheduler and no listener; *)
LEMMA ReadBlocksFrame ==
  ASSUME NEW d \in DRank, ReadBlocks(d)
  PROVE  UNCHANGED <<prefillVars, schedVars, comm>>
BY DEF ReadBlocks, StartTask, SendMeta, RecvMeta, AddRemoteAgent, TaskLinked, TaskLinkFails,
       TooManyBlocks, PullBlocks, PullFails, SendFinish, RecvAck

(* the schedulers touch neither threads nor links; *)
LEMMA SchedulerFrame ==
  ASSUME PrefillStep \/ DecodeStep
  PROVE  UNCHANGED <<listener, pLinked, counts, task, pc, conv, dLinked, kv, failed, comm, faults>>
BY DEF PrefillStep, PFinish, PStop, PGetFinished, DecodeStep, DSchedule, DFinish, DGetFinished,
       prefillVars, taskVars

(* and a link that comes up or fails changes the communicator only. *)
LEMMA LinkFrame ==
  ASSUME NEW p \in PRank, NEW d \in DRank, LinkUp(p, d) \/ LinkFails(p, d)
  PROVE  UNCHANGED <<prefillVars, schedVars, taskVars>>
BY DEF LinkUp, LinkFails

-----------------------------------------------------------------------------
(* One lemma per part of the invariant: every step keeps it. *)

(* kv_transfer_params reach decode from prefill only. *)
LEMMA ParamsStep == IInv /\ [Next]_vars => ParamsInv'
<1> SUFFICES ASSUME IInv, [Next]_vars PROVE ParamsInv'
  OBVIOUS
<1> USE DEF ParamsInv
<1>1. TypeOK /\ ParamsInv
  BY DEF IInv
<1>2. ASSUME UNCHANGED <<pReq, kvParams, dReq>> PROVE ParamsInv'
  BY <1>1, <1>2
<1>3. ASSUME NEW r \in Req, PFinish(r) \/ PStop(r) PROVE ParamsInv'
  BY <1>1, <1>3 DEF PFinish, PStop, TypeOK, schedVars
<1>4. ASSUME NEW p \in PRank, PGetFinished(p) PROVE ParamsInv'
  BY <1>1, <1>4 DEF PGetFinished, TypeOK, schedVars
<1>5. ASSUME NEW r \in Req, DSchedule(r) \/ DFinish(r) PROVE ParamsInv'
  BY <1>1, <1>5 DEF DSchedule, DFinish, TypeOK, prefillVars
<1>6. ASSUME NEW d \in DRank, DGetFinished(d) PROVE ParamsInv'
  <2>1. \A r \in dFinished[d] : r \in Req /\ dReq[r] # "absent"
    BY <1>1 DEF IInv, PlaceInv, TaskPlace, Done, TypeOK
  <2> QED
    BY <1>1, <1>6, <2>1 DEF DGetFinished, TypeOK, prefillVars
<1> QED
  BY <1>2, <1>3, <1>4, <1>5, <1>6, ListenerFrame, ReadBlocksFrame, LinkFrame
     DEF Next, PrefillStep, DecodeStep, vars, prefillVars, schedVars

(* What is on the REQ socket stays what _read_blocks waits for. *)
LEMMA ThreadStep == IInv /\ [Next]_vars => ThreadInv'
<1> SUFFICES ASSUME IInv, [Next]_vars PROVE ThreadInv'
  OBVIOUS
<1> USE DEF ThreadInv
<1>1. TypeOK /\ ThreadInv
  BY DEF IInv
<1>2. ASSUME UNCHANGED <<task, pc, conv>> PROVE ThreadInv'
  BY <1>1, <1>2
<1>3. ASSUME NEW p \in PRank, Listener(p) PROVE ThreadInv'
  BY <1>1, <1>3 DEF Listener, ListenMeta, ListenFinished, ListenLinked, ListenDies, TypeOK, taskVars
<1>4. ASSUME NEW d \in DRank, ReadBlocks(d) PROVE ThreadInv'
  <2> USE DEF Goto, EndTask, RaiseTask, TypeOK
  <2>1. CASE StartTask(d)
    <3>1. Head(queue[d]) \in Req
      BY <1>1, <2>1, HeadTailProperties DEF StartTask
    <3> QED
      BY <1>1, <2>1, <3>1, SizeAssumption DEF StartTask
  <2>2. CASE SendMeta(d) \/ RecvMeta(d) \/ SendFinish(d)
    BY <1>1, <2>2 DEF SendMeta, RecvMeta, SendFinish
  <2>3. CASE AddRemoteAgent(d) \/ TaskLinked(d)
    BY <1>1, <2>3 DEF AddRemoteAgent, TaskLinked
  <2>4. CASE TaskLinkFails(d) \/ TooManyBlocks(d) \/ PullFails(d)
    BY <1>1, <2>4 DEF TaskLinkFails, TooManyBlocks, PullFails, CanPull
  <2>5. CASE PullBlocks(d)
    BY <1>1, <2>5 DEF PullBlocks, CanPull
  <2>6. CASE RecvAck(d)
    BY <1>1, <2>6 DEF RecvAck
  <2> QED
    BY <1>4, <2>1, <2>2, <2>3, <2>4, <2>5, <2>6 DEF ReadBlocks
<1> QED
  BY <1>2, <1>3, <1>4, SchedulerFrame, LinkFrame DEF Next, vars, taskVars

(* The two ends of a link: each side links only where the other does. *)
LEMMA LinkStep == IInv /\ [Next]_vars => LinkInv'
<1> SUFFICES ASSUME IInv, [Next]_vars, NEW q \in PRank, NEW e \in DRank PROVE PairInv(q, e)'
  BY DEF LinkInv
<1>1. TypeOK /\ ThreadInv /\ PairInv(q, e) /\ <<q, e>> \in PRank \X DRank
  BY DEF IInv, LinkInv
<1>2. ASSUME UNCHANGED <<listener, pLinked, dLinked, comm, pc, conv>> PROVE PairInv(q, e)'
  BY <1>1, <1>2 DEF PairInv
<1>3. ASSUME NEW p \in PRank, NEW d \in DRank, ListenMeta(p, d) PROVE PairInv(q, e)'
  BY <1>1, <1>3, ListenerStates DEF ListenMeta, TypeOK, PairInv, taskVars
<1>4. ASSUME NEW p \in PRank, NEW d \in DRank, ListenLinked(p, d) PROVE PairInv(q, e)'
  BY <1>1, <1>4, ListenerStates DEF ListenLinked, TypeOK, PairInv, taskVars
<1>5. ASSUME NEW p \in PRank, NEW d \in DRank, ListenDies(p, d) PROVE PairInv(q, e)'
  BY <1>1, <1>5, ListenerStates, ZenonT(40) DEF ListenDies, TypeOK, PairInv, taskVars
<1>6. ASSUME NEW p \in PRank, NEW d \in DRank, ListenFinished(p, d) PROVE PairInv(q, e)'
  BY <1>1, <1>6 DEF ListenFinished, TypeOK, PairInv
<1>7. ASSUME NEW p \in PRank, NEW d \in DRank, LinkUp(p, d) PROVE PairInv(q, e)'
  BY <1>1, <1>7, ListenerStates
     DEF LinkUp, BothLink, TypeOK, PairInv, prefillVars, schedVars, taskVars
<1>8. ASSUME NEW p \in PRank, NEW d \in DRank, LinkFails(p, d) PROVE PairInv(q, e)'
  BY <1>1, <1>8, ListenerStates
     DEF LinkFails, BothLink, TypeOK, PairInv, prefillVars, schedVars, taskVars
<1>9. ASSUME NEW d \in DRank, ReadBlocks(d) PROVE PairInv(q, e)'
  <2> USE DEF Goto, EndTask, RaiseTask, TypeOK, PairInv, prefillVars, schedVars
  <2>1. CASE StartTask(d)
    BY <1>1, <2>1 DEF StartTask
  <2>2. CASE SendMeta(d)
    BY <1>1, <2>2 DEF SendMeta
  <2>3. CASE RecvMeta(d)
    BY <1>1, <2>3 DEF RecvMeta, ThreadInv
  <2>4. CASE AddRemoteAgent(d)
    BY <1>1, <2>4 DEF AddRemoteAgent
  <2>5. CASE TaskLinked(d)
    BY <1>1, <2>5, Offsets DEF TaskLinked
  <2>6. CASE TaskLinkFails(d)
    BY <1>1, <2>6 DEF TaskLinkFails
  <2>7. CASE TooManyBlocks(d) \/ PullFails(d)
    BY <1>1, <2>7 DEF TooManyBlocks, PullFails, CanPull
  <2>8. CASE PullBlocks(d)
    BY <1>1, <2>8 DEF PullBlocks, CanPull
  <2>9. CASE SendFinish(d)
    BY <1>1, <2>9 DEF SendFinish
  <2>10. CASE RecvAck(d)
    BY <1>1, <2>10 DEF RecvAck
  <2> QED
    BY <1>9, <2>1, <2>2, <2>3, <2>4, <2>5, <2>6, <2>7, <2>8, <2>9, <2>10 DEF ReadBlocks
<1> QED
  BY <1>2, <1>3, <1>4, <1>5, <1>6, <1>7, <1>8, <1>9, SchedulerFrame
     DEF Next, Listener, vars, prefillVars, taskVars

(* A task of an executor stays in one place. *)
LEMMA PlaceStep == IInv /\ [Next]_vars => PlaceInv'
<1> SUFFICES ASSUME IInv, [Next]_vars, NEW q \in Req, NEW e \in DRank
             PROVE  NoRepeats(queue[e])' /\ TaskPlace(q, e)'
  BY DEF PlaceInv
<1>0. q # None
  BY SizeAssumption
<1>1. TypeOK /\ ThreadInv /\ TaskPlace(q, e) /\ NoRepeats(queue[e]) /\ q # None
  BY <1>0 DEF IInv, PlaceInv
<1> USE DEF TaskPlace, Done
<1>2. ASSUME UNCHANGED <<dReq, queue, task, kv, dFinished, recvd, failed>>
      PROVE  NoRepeats(queue[e])' /\ TaskPlace(q, e)'
  BY <1>1, <1>2
<1>3. ASSUME NEW r \in Req, DSchedule(r) PROVE NoRepeats(queue[e])' /\ TaskPlace(q, e)'
  <2>1. r \notin Elems(queue[e])
    BY <1>3 DEF DSchedule, IInv, PlaceInv
  <2>2. queue'[e] = Append(queue[e], r)
    BY <1>3 DEF DSchedule
  <2>3. Elems(queue'[e]) = Elems(queue[e]) \cup {r} /\ NoRepeats(queue'[e])
    BY <1>1, <2>1, <2>2, AppendElems DEF TypeOK
  <2>4. /\ UNCHANGED <<recvd, task, kv, dFinished, failed>>
        /\ dReq[r] = "absent" /\ dReq'[q] = IF q = r THEN "waiting_kvs" ELSE dReq[q]
    BY <1>1, <1>3 DEF DSchedule, TypeOK
  <2> QED
    BY <1>1, <2>3, <2>4
<1>4. ASSUME NEW d \in DRank, DGetFinished(d) PROVE NoRepeats(queue[e])' /\ TaskPlace(q, e)'
  <2>1. UNCHANGED <<queue, task, kv, failed>>
    BY <1>4 DEF DGetFinished
  <2>2. /\ dFinished'[e] = IF e = d THEN {} ELSE dFinished[e]
        /\ recvd'[q] = IF q \in dFinished[d] THEN recvd[q] \cup {d} ELSE recvd[q]
        /\ dReq'[q] = IF q \in dFinished[d] /\ recvd[q] \cup {d} = DRank
                      THEN "running" ELSE dReq[q]
    BY <1>1, <1>4 DEF DGetFinished, TypeOK
  <2>3. Done(q, e)' <=> Done(q, e)
    BY <2>2
  <2>4. q \in dFinished[d] => dReq[q] # "absent"
    BY DEF IInv, PlaceInv
  <2>5. dReq'[q] = "absent" <=> dReq[q] = "absent"
    BY <2>2, <2>4
  <2>6. dReq'[q] \in {"running", "finished"} => e \in recvd'[q]
    BY <1>1, <2>2
  <2> HIDE DEF Done
  <2> QED
    BY <1>1, <2>1, <2>3, <2>5, <2>6
<1>5. ASSUME NEW r \in Req, DFinish(r) PROVE NoRepeats(queue[e])' /\ TaskPlace(q, e)'
  BY <1>1, <1>5 DEF DFinish, TypeOK, taskVars
<1>6. ASSUME NEW d \in DRank, StartTask(d) PROVE NoRepeats(queue[e])' /\ TaskPlace(q, e)'
  <2>1. UNCHANGED <<dReq, recvd, kv, dFinished, failed>>
    BY <1>6 DEF StartTask, schedVars
  <2>2. CASE d = e
    <3>1. /\ Head(queue[e]) \in Req
          /\ Elems(queue[e]) = Elems(Tail(queue[e])) \cup {Head(queue[e])}
          /\ Head(queue[e]) \notin Elems(Tail(queue[e])) /\ NoRepeats(Tail(queue[e]))
      BY <1>1, <1>6, <2>2, TailElems DEF StartTask, TypeOK
    <3>2. queue'[e] = Tail(queue[e]) /\ task'[e] = Head(queue[e])
      BY <1>1, <1>6, <2>2 DEF StartTask, TypeOK
    <3> QED
      BY <1>1, <2>1, <3>1, <3>2
  <2>3. CASE d # e
    BY <1>1, <1>6, <2>1, <2>3 DEF StartTask, TypeOK
  <2> QED
    BY <2>2, <2>3
<1>7. ASSUME NEW d \in DRank, RaiseTask(d),
             UNCHANGED <<schedVars, queue, kv, dFinished>>, task[d] \in Req
      PROVE  NoRepeats(queue[e])' /\ TaskPlace(q, e)'
  <2>1. TaskPlace(task[d], d)
    BY <1>7 DEF IInv, PlaceInv
  <2> QED
    BY <1>1, <1>7, <2>1 DEF RaiseTask, EndTask, schedVars, TypeOK
<1>8. ASSUME NEW d \in DRank, PullBlocks(d) PROVE NoRepeats(queue[e])' /\ TaskPlace(q, e)'
  <2>1. task[d] \in Req /\ TaskPlace(task[d], d)
    BY <1>8, PullType DEF IInv, PlaceInv
  <2>2. UNCHANGED <<schedVars, queue, task, dFinished, failed>>
    BY <1>8 DEF PullBlocks
  <2>3. q # task[d] \/ e # d => kv'[e][q] = kv[e][q]
    BY <1>1, <1>8, <2>1 DEF PullBlocks, TypeOK
  <2> QED
    BY <1>1, <2>1, <2>2, <2>3 DEF schedVars
<1>9. ASSUME NEW d \in DRank, RecvAck(d) PROVE NoRepeats(queue[e])' /\ TaskPlace(q, e)'
  <2>1. task[d] \in Req /\ TaskPlace(task[d], d)
    BY <1>1, <1>9 DEF RecvAck, ThreadInv, TypeOK, IInv, PlaceInv
  <2> QED
    BY <1>1, <1>9, <2>1 DEF RecvAck, EndTask, schedVars, TypeOK
<1>10. ASSUME NEW d \in DRank, TaskLinkFails(d) \/ TooManyBlocks(d) \/ PullFails(d)
       PROVE  NoRepeats(queue[e])' /\ TaskPlace(q, e)'
  <2>1. task[d] \in Req
    BY <1>1, <1>10 DEF TaskLinkFails, TooManyBlocks, PullFails, CanPull, ThreadInv, TypeOK
  <2> QED
    BY <1>7, <1>10, <2>1 DEF TaskLinkFails, TooManyBlocks, PullFails
<1>11. ASSUME NEW d \in DRank, \/ SendMeta(d) \/ RecvMeta(d) \/ AddRemoteAgent(d)
                               \/ TaskLinked(d) \/ SendFinish(d)
       PROVE  NoRepeats(queue[e])' /\ TaskPlace(q, e)'
  BY <1>2, <1>11 DEF SendMeta, RecvMeta, AddRemoteAgent, TaskLinked, SendFinish, schedVars
<1>12. ASSUME PrefillStep PROVE NoRepeats(queue[e])' /\ TaskPlace(q, e)'
  BY <1>2, <1>12 DEF PrefillStep, PFinish, PStop, PGetFinished, schedVars, taskVars
<1> QED
  BY <1>2, <1>3, <1>4, <1>5, <1>6, <1>8, <1>9, <1>10, <1>11, <1>12, ListenerFrame, LinkFrame
     DEF Next, DecodeStep, ReadBlocks, vars, schedVars, taskVars

(* The prefill engine holds what a rank has not told it that it has read. *)
LEMMA HeldWhileRead ==
  ASSUME IInv, NEW r \in Req, NEW d \in DRank,
         dReq[r] # "absent", ~Signalled(r, d)
  PROVE  pReq[r] = "delayed"
<1>1. r \in kvParams /\ pReq[r] \in {"delayed", "freed"}
  BY DEF IInv, TypeOK, ParamsInv
<1>2. FinishRank \notin sent[r]
  BY DEF IInv, SignalInv, SignalsOf
<1>3. pReq[r] # "freed"
  BY <1>1, <1>2, Ranks DEF IInv, SignalInv, SignalsOf
<1> QED
  BY <1>1, <1>3

(* What pull_blocks does when it is called for the next cache. *)
LEMMA PullEffect ==
  ASSUME IInv, NEW d \in DRank, PullBlocks(d)
  PROVE  LET r == task[d] IN
         /\ r \in Req /\ pReq[r] = "delayed"
         /\ \E n \in 0 .. NumCaches - 1 :
              /\ kv[d][r] = PulledKV(r, n)
              /\ kv' = [kv EXCEPT ![d][r] = PulledKV(r, n + 1)]
              /\ pc' = [pc EXCEPT ![d] = IF n + 1 = NumCaches THEN "finish" ELSE "pull"]
<1> DEFINE r    == task[d]
           c    == Cardinality(PulledCaches(d, r)) + 1
           from == [b \in LocalBlocks(r) |-> IF pReq[r] = "delayed" THEN PulledFrom(r, b) ELSE 0]
<1>1. r \in Req
  BY PullType
<1>2. PICK n \in 0 .. NumCaches - 1 : kv[d][r] = PulledKV(r, n) /\ c = n + 1
  BY PullType
<1>3. pc[d] = "pull" /\ ~Signalled(r, d) /\ dReq[r] # "absent"
  BY <1>1 DEF PullBlocks, CanPull, IInv, ThreadInv, PlaceInv, TaskPlace, Signalled
<1>4. pReq[r] = "delayed"
  BY <1>1, <1>3, HeldWhileRead
<1>5. {<<c, b, from[b]>> : b \in LocalBlocks(r)}
        = {<<n + 1, b, PulledFrom(r, b)>> : b \in LocalBlocks(r)}
  BY <1>2, <1>4
<1>6. n \in Nat
  BY SizeAssumption
<1>7. kv[d][r] \cup {<<c, b, from[b]>> : b \in LocalBlocks(r)} = PulledKV(r, n + 1)
  BY <1>1, <1>2, <1>5, <1>6, NextCache
<1>8. /\ kv' = [kv EXCEPT ![d][r] = @ \cup {<<c, b, from[b]>> : b \in LocalBlocks(r)}]
      /\ pc' = [pc EXCEPT ![d] = IF c = NumCaches THEN "finish" ELSE "pull"]
  BY DEF PullBlocks
<1> HIDE DEF r, c, from
<1>9. kv' = [kv EXCEPT ![d][r] = PulledKV(r, n + 1)]
  BY <1>7, <1>8
<1> QED
  BY <1>1, <1>2, <1>4, <1>8, <1>9 DEF r

(* What a rank says that it has read, it has read whole. *)
LEMMA KVStep == IInv /\ [Next]_vars => KVInv'
<1> SUFFICES ASSUME IInv, [Next]_vars, NEW q \in Req, NEW e \in DRank PROVE KVOf(q, e)'
  BY DEF KVInv
<1>0. q # None
  BY SizeAssumption
<1>1. TypeOK /\ ThreadInv /\ KVOf(q, e)
  BY DEF IInv, KVInv
<1> USE DEF KVOf, Complete
<1>2. ASSUME UNCHANGED <<task, pc, kv, dFinished, recvd>> PROVE KVOf(q, e)'
  BY <1>1, <1>2 DEF Done
<1>3. ASSUME NEW d \in DRank, DGetFinished(d) PROVE KVOf(q, e)'
  <2>1. UNCHANGED <<task, pc, kv>>
    BY <1>3 DEF DGetFinished
  <2>2. Done(q, e)' <=> Done(q, e)
    BY <1>1, <1>3 DEF DGetFinished, TypeOK, Done
  <2> QED
    BY <1>1, <2>1, <2>2
<1>4. ASSUME NEW d \in DRank, StartTask(d) PROVE KVOf(q, e)'
  <2>1. UNCHANGED <<kv, dFinished, recvd>>
    BY <1>4 DEF StartTask, schedVars
  <2>2. CASE d = e
    <3>1. task'[e] = Head(queue[e]) /\ pc'[e] = "connect"
      BY <1>1, <1>4, <2>2 DEF StartTask, Goto, TypeOK
    <3>2. Head(queue[e]) \in Elems(queue[e])
      <4>1. queue[e] \in Seq(Req) /\ queue[e] # <<>> /\ NoRepeats(queue[e])
        BY <1>1, <1>4, <2>2 DEF StartTask, TypeOK, IInv, PlaceInv
      <4>2. Elems(queue[e]) = Elems(Tail(queue[e])) \cup {Head(queue[e])}
        BY <4>1, TailElems
      <4> QED
        BY <4>2
    <3>3. task'[e] = q => kv[e][q] = {}
      <4>1. TaskPlace(q, e)
        BY DEF IInv, PlaceInv
      <4> QED
        BY <3>1, <3>2, <4>1 DEF TaskPlace
    <3> QED
      BY <1>1, <2>1, <3>1, <3>3 DEF Done
  <2>3. CASE d # e
    BY <1>1, <1>4, <2>1, <2>3 DEF StartTask, Goto, TypeOK, Done
  <2> QED
    BY <2>2, <2>3
<1>5. ASSUME NEW d \in DRank, \/ SendMeta(d) \/ RecvMeta(d) \/ AddRemoteAgent(d)
                              \/ TaskLinked(d) \/ SendFinish(d)
      PROVE  KVOf(q, e)'
  <2>1. UNCHANGED <<task, kv, dFinished, recvd>>
    BY <1>5 DEF SendMeta, RecvMeta, AddRemoteAgent, TaskLinked, SendFinish, schedVars
  <2>2. \/ pc'[e] = pc[e]
        \/ /\ pc[e] \in {"connect", "wait_meta", "link", "poll_link"}
           /\ pc'[e] \in {"wait_meta", "link", "poll_link", "pull"}
        \/ pc[e] = "finish" /\ pc'[e] = "wait_ack"
    BY <1>1, <1>5
       DEF SendMeta, RecvMeta, AddRemoteAgent, TaskLinked, SendFinish, Goto, TypeOK
  <2>3. PulledKV(q, 0) = {} /\ 0 \in 0 .. NumCaches - 1
    BY SizeAssumption DEF PulledKV
  <2> QED
    BY <1>1, <2>1, <2>2, <2>3 DEF Done
<1>6. ASSUME NEW d \in DRank, TaskLinkFails(d) \/ TooManyBlocks(d) \/ PullFails(d)
      PROVE  KVOf(q, e)'
  <2>1. UNCHANGED <<kv, dFinished, recvd>> /\ EndTask(d)
    BY <1>6 DEF TaskLinkFails, TooManyBlocks, PullFails, RaiseTask, schedVars
  <2> QED
    BY <1>0, <1>1, <2>1 DEF EndTask, TypeOK, Done
<1>7. ASSUME NEW d \in DRank, PullBlocks(d) PROVE KVOf(q, e)'
  <2> DEFINE r == task[d]
  <2>1. UNCHANGED <<task, dFinished, recvd>> /\ pc[d] = "pull"
    BY <1>7 DEF PullBlocks, CanPull, schedVars
  <2>2. Cardinality(LocalBlocks(r)) <= Cardinality(RemoteBlocks(r))
    BY <1>7 DEF PullBlocks, CanPull
  <2>3. PICK n \in 0 .. NumCaches - 1 :
           /\ kv' = [kv EXCEPT ![d][r] = PulledKV(r, n + 1)]
           /\ pc' = [pc EXCEPT ![d] = IF n + 1 = NumCaches THEN "finish" ELSE "pull"]
    BY <1>7, PullEffect
  <2>4. r \in Req /\ ~Done(r, d)
    BY <1>7, PullEffect DEF IInv, PlaceInv, TaskPlace
  <2>5. CASE e = d /\ q = r
    <3>1. /\ kv'[e][q] = PulledKV(q, n + 1)
          /\ pc'[e] = IF n + 1 = NumCaches THEN "finish" ELSE "pull"
      BY <1>1, <2>3, <2>5 DEF TypeOK
    <3>2. n + 1 # NumCaches => n + 1 \in 0 .. NumCaches - 1
      BY SizeAssumption
    <3> QED
      BY <2>1, <2>2, <2>4, <2>5, <3>1, <3>2 DEF Done
  <2>6. CASE ~(e = d /\ q = r)
    <3>1. kv'[e][q] = kv[e][q] /\ (e = d \/ pc'[e] = pc[e])
      BY <1>1, <2>3, <2>4, <2>6 DEF TypeOK
    <3> QED
      BY <1>1, <2>1, <2>6, <3>1 DEF Done
  <2> QED
    BY <2>5, <2>6
<1>8. ASSUME NEW d \in DRank, RecvAck(d) PROVE KVOf(q, e)'
  <2>1. UNCHANGED <<kv, recvd>> /\ EndTask(d) /\ pc[d] = "wait_ack"
        /\ dFinished' = [dFinished EXCEPT ![d] = @ \cup {task[d]}]
    BY <1>8 DEF RecvAck, schedVars
  <2> QED
    BY <1>0, <1>1, <2>1 DEF EndTask, TypeOK, Done
<1>9. ASSUME PrefillStep \/ \E r \in Req : DSchedule(r) \/ DFinish(r) PROVE KVOf(q, e)'
  BY <1>2, <1>9 DEF PrefillStep, PFinish, PStop, PGetFinished, DSchedule, DFinish,
                    schedVars, taskVars
<1> QED
  BY <1>2, <1>3, <1>4, <1>5, <1>6, <1>7, <1>8, <1>9, ListenerFrame, LinkFrame
     DEF Next, DecodeStep, ReadBlocks, vars, schedVars, taskVars

(* Steps that forget no signal and neither count nor report one. *)
LEMMA SignalFrame ==
  ASSUME NEW r \in Req, SignalsOf(r), UNCHANGED <<pReq, kvParams, counts, pFinished, sent>>,
         TypeOK, \A d \in DRank : Signalled(r, d) => Signalled(r, d)'
  PROVE  SignalsOf(r)'
BY Ranks DEF SignalsOf, TypeOK

(* A request is reported as sent once, after every rank's finish signal. *)
LEMMA SignalStep == IInv /\ [Next]_vars => SignalInv'
<1> SUFFICES ASSUME IInv, [Next]_vars, NEW q \in Req PROVE SignalsOf(q)'
  BY DEF SignalInv
<1>0. q # None
  BY SizeAssumption
<1>1. TypeOK /\ ThreadInv /\ SignalsOf(q)
  BY DEF IInv, SignalInv
<1>2. ASSUME UNCHANGED <<pReq, kvParams, counts, pFinished, sent, task, conv, dFinished, recvd>>
      PROVE  SignalsOf(q)'
  BY <1>1, <1>2 DEF SignalsOf, Signalled, Done
<1>3. ASSUME NEW r \in Req, PFinish(r) \/ PStop(r) PROVE SignalsOf(q)'
  <2>1. UNCHANGED <<counts, pFinished, sent, task, conv, dFinished, recvd>>
    BY <1>3 DEF PFinish, PStop, schedVars, taskVars
  <2>2. pReq'[q] = "freed" /\ q \in kvParams' => pReq[q] = "freed" /\ q \in kvParams
    BY <1>1, <1>3 DEF PFinish, PStop, TypeOK, IInv, ParamsInv
  <2> QED
    BY <1>1, <2>1, <2>2 DEF SignalsOf, Signalled, Done
<1>4. ASSUME NEW p \in PRank, PGetFinished(p) PROVE SignalsOf(q)'
  <2>1. UNCHANGED <<kvParams, counts, task, conv, dFinished, recvd>>
    BY <1>4 DEF PGetFinished, schedVars, taskVars
  <2>2. /\ sent'[q] = IF q \in pFinished[p] THEN sent[q] \cup {p} ELSE sent[q]
        /\ pReq'[q] = IF q \in pFinished[p] /\ sent[q] \cup {p} = PRank THEN "freed" ELSE pReq[q]
        /\ \A s \in PRank : pFinished'[s] = IF s = p THEN {} ELSE pFinished[s]
    BY <1>1, <1>4 DEF PGetFinished, TypeOK
  <2>3. q \in pFinished[p] => p = FinishRank
    BY <1>1 DEF SignalsOf
  <2>4. sent[q] \subseteq PRank
    BY <1>1 DEF TypeOK
  <2>5. \A d \in DRank : Signalled(q, d)' <=> Signalled(q, d)
    BY <2>1 DEF Signalled, Done
  <2>6. q \in pFinished[p] => pReq[q] # "freed" \/ q \notin kvParams
    BY <1>1, <2>3, Ranks DEF SignalsOf
  <2>7. pReq'[q] = "freed" /\ q \in kvParams' => sent'[q] = PRank
    BY <1>1, <2>1, <2>2, <2>3, <2>6 DEF SignalsOf
  <2>8. counts[FinishRank][q] \subseteq DRank
    BY <1>1, Ranks DEF TypeOK
  <2> QED
    BY <1>1, <2>1, <2>2, <2>3, <2>5, <2>7, <2>8, Ranks DEF SignalsOf
<1>5. ASSUME NEW p \in PRank, NEW d \in DRank, ListenFinished(p, d) PROVE SignalsOf(q)'
  <2> DEFINE r == task[d]
  <2>1. UNCHANGED <<pReq, kvParams, sent, task, dFinished, recvd>> /\ p = FinishRank
    BY <1>5 DEF ListenFinished, schedVars
  <2>2. conv[d] = "fin_req" /\ conv' = [conv EXCEPT ![d] = "fin_ack"] /\ r \in Req
    BY <1>1, <1>5 DEF ListenFinished, ThreadInv, TypeOK
  <2>3. \A e \in DRank : Signalled(q, e) => Signalled(q, e)'
    BY <1>1, <2>1, <2>2 DEF Signalled, Done, TypeOK
  <2>4. CASE q # r
    <3>1. \A s \in PRank : /\ counts'[s][q] = counts[s][q]
                           /\ q \in pFinished'[s] <=> q \in pFinished[s]
      BY <1>1, <1>5, <2>2, <2>4 DEF ListenFinished, IncrementTaskCount, TypeOK
    <3>2. counts[FinishRank][q] \subseteq DRank
      BY <1>1, Ranks DEF TypeOK
    <3> QED
      BY <1>1, <2>1, <2>3, <3>1, <3>2, Ranks DEF SignalsOf
  <2>5. CASE q = r
    <3>1. Signalled(q, d)' /\ ~Signalled(q, d)
      <4>1. ~Done(q, d) /\ task[d] = q
        BY <2>2, <2>5 DEF IInv, PlaceInv, TaskPlace
      <4> QED
        BY <1>1, <2>1, <2>2, <4>1 DEF Signalled, TypeOK
    <3>2. q \notin pFinished[FinishRank] /\ FinishRank \notin sent[q]
      BY <1>1, <3>1 DEF SignalsOf
    <3> DEFINE ranks == counts[FinishRank][q] \cup {d}
               last  == d \notin counts[FinishRank][q] /\ Cardinality(ranks) = DTpSize
    <3>3. ranks \in SUBSET DRank /\ \A e \in ranks : Signalled(q, e)'
      BY <1>1, <2>3, <3>1, Ranks DEF SignalsOf, TypeOK
    <3>4. /\ counts'[FinishRank][q] = IF last THEN {} ELSE ranks
          /\ q \in pFinished'[FinishRank] => last
          /\ \A s \in PRank : s # FinishRank
               => counts'[s][q] = counts[s][q] /\ (q \in pFinished'[s] <=> q \in pFinished[s])
      BY <1>1, <1>5, <2>1, <2>5, <3>2, Ranks DEF ListenFinished, IncrementTaskCount, TypeOK
    <3>5. last => ranks = DRank
      BY <3>3, AllRanks
    <3> HIDE DEF last, ranks
    <3> QED
      BY <1>1, <2>1, <3>2, <3>3, <3>4, <3>5 DEF SignalsOf
  <2> QED
    BY <2>4, <2>5
<1>6. ASSUME NEW d \in DRank, DGetFinished(d) PROVE SignalsOf(q)'
  <2>1. \A e \in DRank : Signalled(q, e) => Signalled(q, e)'
    BY <1>1, <1>6 DEF DGetFinished, TypeOK, Signalled, Done
  <2> QED
    BY <1>1, <1>6, <2>1, SignalFrame DEF DGetFinished, prefillVars
<1>7. ASSUME NEW d \in DRank, ReadBlocks(d) PROVE SignalsOf(q)'
  <2>1. \A e \in DRank : Signalled(q, e) => Signalled(q, e)'
    <3> USE DEF Goto, RaiseTask, EndTask, Signalled, Done, schedVars, TypeOK, ThreadInv
    <3>1. CASE StartTask(d)
      BY <1>1, <3>1 DEF StartTask
    <3>2. CASE SendMeta(d) \/ SendFinish(d) \/ RecvMeta(d)
      BY <1>1, <3>2 DEF SendMeta, SendFinish, RecvMeta
    <3>3. CASE AddRemoteAgent(d) \/ TaskLinked(d) \/ PullBlocks(d)
      BY <1>1, <3>3 DEF AddRemoteAgent, TaskLinked, PullBlocks
    <3>4. CASE TaskLinkFails(d) \/ TooManyBlocks(d) \/ PullFails(d)
      BY <1>1, <3>4 DEF TaskLinkFails, TooManyBlocks, PullFails, CanPull
    <3>5. CASE RecvAck(d)
      BY <1>1, <3>5 DEF RecvAck
    <3> QED
      BY <1>7, <3>1, <3>2, <3>3, <3>4, <3>5 DEF ReadBlocks
  <2> QED
    BY <1>1, <1>7, <2>1, ReadBlocksFrame, SignalFrame DEF prefillVars
<1>8. ASSUME NEW p \in PRank, NEW d \in DRank, ListenMeta(p, d) PROVE SignalsOf(q)'
  <2>1. \A e \in DRank : Signalled(q, e) => Signalled(q, e)'
    BY <1>1, <1>8 DEF ListenMeta, TypeOK, Signalled, Done, schedVars
  <2> QED
    BY <1>1, <1>8, <2>1, SignalFrame DEF ListenMeta
<1>9. ASSUME NEW p \in PRank, NEW d \in DRank, ListenLinked(p, d) \/ ListenDies(p, d)
      PROVE  SignalsOf(q)'
  BY <1>2, <1>9 DEF ListenLinked, ListenDies, schedVars, taskVars
<1>10. ASSUME NEW r \in Req, DSchedule(r) \/ DFinish(r) PROVE SignalsOf(q)'
  BY <1>2, <1>10 DEF DSchedule, DFinish, prefillVars, taskVars
<1> QED
  BY <1>2, <1>3, <1>4, <1>5, <1>6, <1>7, <1>8, <1>9, <1>10, LinkFrame
     DEF Next, PrefillStep, DecodeStep, Listener, vars, prefillVars, schedVars, taskVars

-----------------------------------------------------------------------------
(* The invariant, and what it says about the properties of the runs. *)

(* Both engines start empty. *)
LEMMA InitKeeps == Init => IInv
<1> SUFFICES ASSUME Init PROVE IInv
  OBVIOUS
<1>1. TypeOK
  <2>1. <<>> \in Seq(Req) /\ 0 \in 0 .. MaxFaults
    BY SizeAssumption, EmptySeq
  <2> QED
    BY <2>1 DEF Init, TypeOK, Pcs, Convs
<1>2. ParamsInv
  BY DEF Init, ParamsInv
<1>3. ThreadInv
  BY DEF Init, ThreadInv
<1>4. ASSUME NEW r \in Req, NEW d \in DRank
      PROVE  NoRepeats(queue[d]) /\ TaskPlace(r, d) /\ KVOf(r, d) /\ ~Done(r, d)
  <2>1. queue[d] = <<>> /\ task[d] = None /\ r # None /\ kv[d][r] = {} /\ dReq[r] = "absent"
        /\ ~Done(r, d) /\ failed = {}
    BY <1>4, SizeAssumption DEF Init, Done
  <2>2. Elems(queue[d]) = {} /\ NoRepeats(queue[d])
    BY <2>1 DEF Elems, NoRepeats
  <2> QED
    BY <2>1, <2>2 DEF TaskPlace, KVOf
<1>5. SignalInv
  BY Ranks DEF Init, SignalInv, SignalsOf
<1>6. LinkInv
  BY ListenerStates DEF Init, LinkInv, PairInv
<1> QED
  BY <1>1, <1>2, <1>3, <1>4, <1>5, <1>6 DEF IInv, PlaceInv, KVInv

(* The invariant holds in every reachable state. *)
LEMMA Invariant == Spec => []IInv
<1>1. IInv /\ [Next]_vars => IInv'
  BY TypeStep, ParamsStep, PlaceStep, ThreadStep, KVStep, SignalStep, LinkStep DEF IInv
<1> QED
  BY <1>1, InitKeeps, PTL DEF Spec

-----------------------------------------------------------------------------
(* The theorems. *)

(* Every variable keeps its type: no thread finds a task, an answer or a   *)
(* block that it does not expect. *)
THEOREM TypeCorrect == Spec => []TypeOK
<1>1. IInv => TypeOK
  BY DEF IInv
<1> QED
  BY <1>1, Invariant, PTL

(* add_remote_agent on the two sides never leaves one of them linking      *)
(* alone, whatever fails and whoever shares the listener. *)
THEOREM LinksAlwaysAgree == Spec => []LinksAgree
<1>1. IInv => LinksAgree
  <2> SUFFICES ASSUME IInv, NEW p \in PRank, NEW d \in DRank
               PROVE  /\ p \in dLinked[d] => d \in pLinked[p] \/ listener[p] = Linking(d)
                      /\ d \in pLinked[p] => p \in dLinked[d] \/ pc[d] = "poll_link"
                      /\ pc[d] = "poll_link" /\ comm[<<p, d>>] = "none" /\ TpOffset(d) = p
                           => listener[p] = Linking(d)
    BY DEF LinksAgree
  <2>1. PairInv(p, d)
    BY DEF IInv, LinkInv
  <2> QED
    BY <2>1 DEF PairInv
<1> QED
  BY <1>1, Invariant, PTL

(* A rank that failed to read a request has never signalled it, so that    *)
(* prefill still holds it and decode still waits for it. *)
THEOREM FailuresStrandBoth == Spec => []StrandedTogether
<1>1. IInv => StrandedTogether
  <2> SUFFICES ASSUME IInv, NEW rd \in failed
               PROVE  pReq[rd[1]] = "delayed" /\ dReq[rd[1]] = "waiting_kvs"
    BY DEF StrandedTogether
  <2>1. PICK r \in Req, d \in DRank : rd = <<r, d>>
    BY DEF IInv, TypeOK
  <2>2. TaskPlace(r, d)
    BY DEF IInv, PlaceInv
  <2>3. dReq[r] # "absent" /\ ~Done(r, d) /\ task[d] # r
    BY <2>1, <2>2 DEF TaskPlace
  <2>4. pReq[r] = "delayed"
    BY <2>3, HeldWhileRead DEF Signalled
  <2>5. dReq[r] = "waiting_kvs"
    BY <2>2, <2>3 DEF TaskPlace, Done, IInv, TypeOK
  <2> QED
    BY <2>1, <2>4, <2>5
<1> QED
  BY <1>1, Invariant, PTL

(* A request runs at the decode engine on its own prompt only: every rank  *)
(* holds every cache of every block that was not cached, block by block;   *)
(* provided that lookahead tokens need no further block (see README).      *)
THEOREM OwnKV == LookaheadFits => (Spec => []RunsOnOwnKV)
<1> SUFFICES ASSUME LookaheadFits PROVE Spec => []RunsOnOwnKV
  OBVIOUS
<1>1. IInv => RunsOnOwnKV
  <2> SUFFICES ASSUME IInv, NEW r \in Req, dReq[r] \in {"running", "finished"},
                      NEW d \in DRank, NEW c \in Cache,
                      NEW b \in LocalBlocks(r) \cap RemoteBlocks(r)
               PROVE  {t \in kv[d][r] : t[1] = c /\ t[2] = b} = {<<c, b, b>>}
    BY DEF RunsOnOwnKV
  <2>1. d \in recvd[r]
    BY DEF IInv, PlaceInv, TaskPlace
  <2>2. Complete(r, d)
    BY <2>1 DEF IInv, KVInv, KVOf, Done
  <2>3. \A x \in LocalBlocks(r) : PulledFrom(r, x) = x
    BY <2>2, TailLinesUp DEF Complete
  <2>4. kv[d][r] = {<<k, x, x>> : k \in Cache, x \in LocalBlocks(r)}
    BY <2>2, <2>3 DEF Complete, PulledKV, Cache
  <2> QED
    BY <2>4
<1> QED
  BY <1>1, Invariant, PTL

-----------------------------------------------------------------------------
(* The refinement of KVHandoff. *)

(* A rank through with r has filled the last cache. *)
LEMMA ThroughIff ==
  ASSUME NEW r \in Req, NEW d \in DRank, NEW n \in Nat, kv[d][r] = PulledKV(r, n)
  PROVE  d \in Through(r) <=> n = NumCaches
<1>1. PulledCaches(d, r) = 1 .. n
  BY NextCache
<1>2. NumCaches \in Nat \ {0}
  BY SizeAssumption
<1>3. 1 .. n = 1 .. NumCaches <=> n = NumCaches
  BY <1>2
<1> QED
  BY <1>1, <1>3 DEF Through, Cache

(* Every pull of the last cache is a Pull of the hand-off. *)
LEMMA PullRefines ==
  ASSUME IInv, NEW d \in DRank, PullBlocks(d)
  PROVE  [Handoff!HNext]_(Handoff!hvars)
<1>0. PICK r \in Req : r = task[d]
  BY PullEffect
<1>1. PICK n \in 0 .. NumCaches - 1 :
         /\ r \in Req /\ pReq[r] = "delayed"
         /\ kv[d][r] = PulledKV(r, n)
         /\ kv' = [kv EXCEPT ![d][r] = PulledKV(r, n + 1)]
  BY <1>0, PullEffect
<1>2. n \in Nat /\ n + 1 \in Nat /\ n # NumCaches /\ UNCHANGED pReq
  BY SizeAssumption DEF PullBlocks, prefillVars
<1>3. /\ kv'[d][r] = PulledKV(r, n + 1)
      /\ \A q \in Req, e \in DRank : q # r \/ e # d => kv'[e][q] = kv[e][q]
  BY <1>1 DEF IInv, TypeOK
<1>4. d \notin Pulled[r]
  BY <1>1, <1>2, ThroughIff DEF Pulled
<1>5. d \in Through(r)' <=> n + 1 = NumCaches
  <2>1. {t[1] : t \in PulledKV(r, n + 1)} = 1 .. n + 1
    <3>1. PICK x : x \in LocalBlocks(r)
      BY <1>1, BlockCounts
    <3>2. \A k \in 1 .. n + 1 : <<k, x, PulledFrom(r, x)>> \in PulledKV(r, n + 1)
      BY <3>1 DEF PulledKV
    <3>3. \A k \in 1 .. n + 1 : \E t \in PulledKV(r, n + 1) : t[1] = k
      BY <3>2, Zenon
    <3>4. \A t \in PulledKV(r, n + 1) : t[1] \in 1 .. n + 1
      BY DEF PulledKV
    <3> QED
      BY <3>3, <3>4
  <2>2. PulledCaches(d, r)' = 1 .. n + 1
    BY <1>3, <2>1 DEF PulledCaches
  <2>3. 1 .. n + 1 = 1 .. NumCaches <=> n + 1 = NumCaches
    <3>1. NumCaches \in Nat \ {0}
      BY SizeAssumption
    <3> QED
      BY <1>2, <3>1
  <2> QED
    BY <2>2, <2>3 DEF Through, Cache
<1>6. \A q \in Req, e \in DRank : q # r \/ e # d => (e \in Through(q)' <=> e \in Through(q))
  BY <1>3 DEF Through, PulledCaches
<1>7. Blocks' = Blocks /\ Blocks[r] = "held"
  BY <1>1, <1>2 DEF Blocks
<1>8. CASE n + 1 = NumCaches
  <2>1. \A q \in Req : Pulled'[q] = IF q = r THEN Pulled[r] \cup {d} ELSE Pulled[q]
    <3> SUFFICES ASSUME NEW q \in Req
                 PROVE  Through(q)' = IF q = r THEN Through(r) \cup {d} ELSE Through(q)
      BY <1>1 DEF Pulled
    <3>1. Through(q)' \subseteq DRank /\ Through(q) \subseteq DRank
      BY DEF Through
    <3> QED
      BY <1>5, <1>6, <1>8, <3>1
  <2>2. Pulled' = [Pulled EXCEPT ![r] = @ \cup {d}]
    BY <2>1 DEF Pulled
  <2>3. Handoff!Pull(r, d)
    BY <1>4, <1>7, <2>2 DEF Handoff!Pull
  <2> QED
    BY <1>1, <2>3 DEF Handoff!HNext
<1>9. CASE n + 1 # NumCaches
  <2>1. \A q \in Req : Pulled'[q] = Pulled[q]
    <3> SUFFICES ASSUME NEW q \in Req PROVE Through(q)' = Through(q)
      BY DEF Pulled
    <3>1. Through(q)' \subseteq DRank /\ Through(q) \subseteq DRank
      BY DEF Through
    <3>2. d \notin Through(r) /\ d \notin Through(r)'
      BY <1>1, <1>4, <1>5, <1>9 DEF Pulled
    <3>3. \A e \in DRank : e \in Through(q)' <=> e \in Through(q)
      BY <1>6, <3>2
    <3> QED
      BY <3>1, <3>3
  <2>2. Pulled' = Pulled
    BY <2>1 DEF Pulled
  <2> QED
    BY <1>7, <2>2 DEF Handoff!hvars
<1> QED
  BY <1>8, <1>9

(* The delayed free of PGetFinished is a Release of the hand-off. *)
LEMMA ReportRefines ==
  ASSUME IInv, NEW p \in PRank, PGetFinished(p)
  PROVE  [Handoff!HNext]_(Handoff!hvars)
<1>1. TypeOK /\ UNCHANGED kv
  BY DEF IInv, PGetFinished, taskVars
<1>2. Pulled' = Pulled
  BY <1>1 DEF Pulled, Through, PulledCaches
<1> DEFINE R == {r \in pFinished[p] : sent[r] \cup {p} = PRank}
<1>3. ASSUME NEW r \in R PROVE Blocks[r] = "held" /\ Pulled[r] = DRank
  <2>1. r \in Req /\ SignalsOf(r) /\ p = FinishRank
    BY <1>1 DEF IInv, SignalInv, SignalsOf, TypeOK
  <2>2. \A d \in DRank : Signalled(r, d)
    BY <2>1 DEF SignalsOf
  <2>3. ASSUME NEW d \in DRank PROVE dReq[r] # "absent" /\ d \in Through(r)
    <3>1. TaskPlace(r, d) /\ KVOf(r, d) /\ ThreadInv
      BY <2>1 DEF IInv, PlaceInv, KVInv
    <3>2. dReq[r] # "absent" /\ Complete(r, d)
      BY <2>1, <2>2, <3>1 DEF Signalled, TaskPlace, KVOf, ThreadInv
    <3>3. NumCaches \in Nat
      BY SizeAssumption
    <3> QED
      BY <2>1, <3>2, <3>3, ThroughIff DEF Complete
  <2>4. r \in kvParams /\ pReq[r] # "prefilling"
    BY <2>1, <2>3, Ranks DEF IInv, ParamsInv
  <2>5. FinishRank \notin sent[r]
    BY <2>1 DEF SignalsOf
  <2>6. pReq[r] # "freed"
    BY <2>1, <2>4, <2>5, Ranks DEF SignalsOf
  <2>7. pReq[r] = "delayed"
    BY <1>1, <2>1, <2>4, <2>6 DEF TypeOK
  <2>8. Through(r) = DRank
    BY <2>3 DEF Through
  <2> QED
    BY <2>1, <2>7, <2>8 DEF Blocks, Pulled
<1>4. R \in SUBSET Req
  BY <1>1 DEF TypeOK
<1>5. pReq' = [r \in Req |-> IF r \in R THEN "freed" ELSE pReq[r]]
  BY DEF PGetFinished
<1> HIDE DEF R
<1>6. Blocks' = [r \in Req |-> IF r \in R THEN "freed" ELSE Blocks[r]]
  <2>1. pReq \in [Req -> {"prefilling", "delayed", "freed"}]
    BY <1>1 DEF TypeOK
  <2> QED
    BY <1>5, <2>1 DEF Blocks
<1>7. Handoff!Release(R)
  BY <1>2, <1>3, <1>4, <1>6 DEF Handoff!Release
<1> QED
  BY <1>4, <1>7 DEF Handoff!HNext

(* Every step of the connector is a step of the hand-off or leaves it alone. *)
LEMMA StepRefines == IInv /\ [Next]_vars => [Handoff!HNext]_(Handoff!hvars)
<1> SUFFICES ASSUME IInv, [Next]_vars PROVE [Handoff!HNext]_(Handoff!hvars)
  OBVIOUS
<1>1. ASSUME UNCHANGED <<pReq, kv>> PROVE UNCHANGED Handoff!hvars
  BY <1>1 DEF Handoff!hvars, Blocks, Pulled, Through, PulledCaches
<1>2. pReq \in [Req -> {"prefilling", "delayed", "freed"}]
  BY DEF IInv, TypeOK
<1>3. ASSUME NEW r \in Req, PFinish(r) PROVE Handoff!Offer(r)
  <2>1. Blocks[r] = "computing" /\ Blocks' = [Blocks EXCEPT ![r] = "held"] /\ Pulled' = Pulled
    BY <1>2, <1>3 DEF PFinish, Blocks, Pulled, Through, PulledCaches, taskVars
  <2> QED
    BY <2>1 DEF Handoff!Offer
<1>4. ASSUME NEW r \in Req, PStop(r) PROVE Handoff!Discard(r)
  <2>1. Blocks[r] = "computing" /\ Blocks' = [Blocks EXCEPT ![r] = "freed"] /\ Pulled' = Pulled
    BY <1>2, <1>4 DEF PStop, Blocks, Pulled, Through, PulledCaches, taskVars
  <2> QED
    BY <2>1 DEF Handoff!Discard
<1>5. CASE PrefillStep
  BY <1>3, <1>4, <1>5, ReportRefines DEF PrefillStep, Handoff!HNext
<1>6. ASSUME NEW d \in DRank, ReadBlocks(d) PROVE [Handoff!HNext]_(Handoff!hvars)
  <2>1. CASE PullBlocks(d)
    BY <2>1, PullRefines
  <2>2. CASE ~PullBlocks(d)
    BY <1>1, <1>6, <2>2
       DEF ReadBlocks, StartTask, SendMeta, RecvMeta, AddRemoteAgent, TaskLinked, TaskLinkFails,
           TooManyBlocks, PullFails, SendFinish, RecvAck, prefillVars
  <2> QED
    BY <2>1, <2>2
<1>7. CASE DecodeStep
  BY <1>1, <1>7 DEF DecodeStep, DSchedule, DFinish, DGetFinished, prefillVars, taskVars
<1> QED
  BY <1>1, <1>5, <1>6, <1>7, ListenerFrame, LinkFrame
     DEF Next, vars, prefillVars, taskVars

(* The connector implements the hand-off: for every number of requests,    *)
(* ranks and caches, each rank reads a request at most once and only while *)
(* its blocks are held, and they are released only after the last has.     *)
THEOREM Refinement == Spec => ImplementsHandoff
<1>1. Init => Handoff!HInit
  <2> SUFFICES ASSUME Init PROVE Handoff!HInit
    OBVIOUS
  <2>1. \A r \in Req : Through(r) = {}
    <3>1. 1 \in Cache
      BY SizeAssumption DEF Cache
    <3> QED
      BY <3>1 DEF Init, Through, PulledCaches
  <2> QED
    BY <2>1 DEF Init, Handoff!HInit, Blocks, Pulled
<1> QED
  BY <1>1, Invariant, StepRefines, PTL DEF Spec, ImplementsHandoff, Handoff!HSpec

(* send_finish_to_remote: it tells remote_port, the listener of rank 0,    *)
(* while the delayed free waits for a report of every prefill rank.  So as *)
(* soon as there is a second one, the blocks of an offered request stay    *)
(* held for ever.                                                          *)
HeldForEver == \A r \in kvParams : pReq[r] = "delayed"

THEOREM SeveralRanksNeverFree == PTpSize > 1 => (Spec => []HeldForEver)
<1> SUFFICES ASSUME PTpSize > 1 PROVE Spec => []HeldForEver
  OBVIOUS
<1>1. IInv => HeldForEver
  <2> SUFFICES ASSUME IInv, NEW r \in kvParams PROVE pReq[r] = "delayed"
    BY DEF HeldForEver
  <2>1. r \in Req /\ pReq[r] \in {"delayed", "freed"}
    BY DEF IInv, TypeOK, ParamsInv
  <2>2. 1 \in PRank /\ 1 # FinishRank
    BY SizeAssumption DEF PRank, FinishRank
  <2>3. 1 \notin sent[r]
    BY <2>1, <2>2 DEF IInv, SignalInv, SignalsOf
  <2>4. pReq[r] # "freed"
    BY <2>1, <2>2, <2>3 DEF IInv, SignalInv, SignalsOf
  <2> QED
    BY <2>1, <2>4
<1> QED
  BY <1>1, Invariant, PTL
=============================================================================
