----------------------- MODULE MooncakeTransferProofs -----------------------
(***************************************************************************)
(* Proofs about MooncakeTransfer, for every set of requests, every pair of *)
(* tensor-parallel sizes and every sampling of ranks.                      *)
(***************************************************************************)
EXTENDS MooncakeTransfer, FiniteSetTheorems, SequenceTheorems, TLAPS

(* The stages from which rank d's done signal may exist, and those in      *)
(* which the decode side has counted rank d.                               *)
Sent    == {"wait_ack", "end"}
Counted == {"send_done", "wait_ack", "end"}

(* The blocks of a request are held, or were freed, exactly when its       *)
(* parameters were handed out; a thread only meets such requests.          *)
ParamsInv ==
  \A r \in Req :
    /\ r \in kvParams => pReq[r] \in {"delayed", "freed"}
    /\ pReq[r] = "delayed" => r \in kvParams
    /\ dReq[r] # "absent" => r \in kvParams
    /\ \A d \in DRank : stage[d][r] # "none" => dReq[r] # "absent"

(* A request waits in a thread's queue once, and is otherwise untouched. *)
QueueInv ==
  \A d \in DRank :
    /\ \A i \in 1 .. Len(queue[d]) : stage[d][queue[d][i]] = "queued"
    /\ \A i, j \in 1 .. Len(queue[d]) : queue[d][i] = queue[d][j] => i = j

(* A done signal comes from a rank that is through. *)
SentInv ==
  \A r \in Req : \A d \in DRank :
    \/ SignalOnSocket(r, d)
    \/ <<r, d>> \in sendPush
    \/ d \in sendTracker.done_task_counts[r]
    => stage[d][r] \in Sent

(* The signal is on the one socket the request uses. *)
SocketInv ==
  \A d \in DRank : \A p \in PRank :
    conv[d][p].st = "done_req" => p = Remote(conv[d][p].req, d)

(* A request that is reported or freed was signalled by every rank. *)
FinishedInv ==
  \A r \in kvParams :
    r \in sendTracker.finished_requests \/ pReq[r] = "freed" =>
      \A d \in DRank : stage[d][r] \in Sent

(* Only requests whose parameters were handed out are reported. *)
ReportInv ==
  \A r \in sendTracker.finished_requests : r \in kvParams /\ pReq[r] = "delayed"

(* The decode side's counter. *)
RecvInv ==
  \A r \in Req : \A d \in DRank :
    \/ <<r, d>> \in recvPush
    \/ d \in recvTracker.done_task_counts[r]
    \/ r \in recvTracker.finished_requests
    \/ r \in finishedRecving
    => stage[d][r] \in Counted

IInv ==
  /\ TypeOK
  /\ ParamsInv
  /\ QueueInv
  /\ SentInv
  /\ SocketInv
  /\ FinishedInv
  /\ ReportInv
  /\ SignalInOnePlace
  /\ RecvInv

-----------------------------------------------------------------------------
(* Facts about the operators. *)

(* A set of decode ranks as large as the engine is the whole engine. *)
LEMMA AllRanks ==
  ASSUME NEW R \in SUBSET DRank
  PROVE  Cardinality(R) = DTpSize => R = DRank
<1>1. IsFiniteSet(DRank) /\ Cardinality(DRank) = DTpSize
  <2>1. 0 \in Int /\ DTpSize - 1 \in Int /\ ~(0 > DTpSize - 1)
    BY SizeAssumption
  <2>2. IsFiniteSet(0 .. DTpSize - 1)
        /\ Cardinality(0 .. DTpSize - 1) = (DTpSize - 1) - 0 + 1
    BY <2>1, FS_Interval
  <2> QED
    BY <2>2, SizeAssumption DEF DRank
<1> QED
  BY <1>1, FS_Subset

(* What _increment_task_count does: nothing, for a rank already counted;   *)
(* finish the request and drop its count, for the last rank; else count.   *)
LEMMA TrackerStep ==
  ASSUME NEW t \in Trackers(Req, DRank), NEW r \in Req, NEW d \in DRank
  PROVE  LET u == IncrementTaskCount(t, r, d, DTpSize)
             c == t.done_task_counts
         IN  /\ u \in Trackers(Req, DRank)
             /\ \/ d \in c[r] /\ u = t
                \/ /\ d \notin c[r]
                   /\ c[r] \cup {d} = DRank
                   /\ u.done_task_counts = [c EXCEPT ![r] = {}]
                   /\ u.finished_requests = t.finished_requests \cup {r}
                \/ /\ d \notin c[r]
                   /\ u.done_task_counts = [c EXCEPT ![r] = c[r] \cup {d}]
                   /\ u.finished_requests = t.finished_requests
<1>1. t.done_task_counts[r] \cup {d} \in SUBSET DRank
  BY DEF Trackers
<1>2. Cardinality(t.done_task_counts[r] \cup {d}) = DTpSize
        => t.done_task_counts[r] \cup {d} = DRank
  BY <1>1, AllRanks
<1> QED
  BY <1>1, <1>2 DEF IncrementTaskCount, Trackers

(* Every decode rank pulls from some prefill rank. *)
LEMMA RemoteType ==
  ASSUME NEW r \in Req, NEW d \in DRank
  PROVE  Remote(r, d) \in PRank
BY SizeAssumption, SampleAssumption DEF Remote, GetRemoteTpRanksForReq, DRank, PRank

(* Type correctness is preserved by every step. *)
LEMMA TypeStep == TypeOK /\ [Next]_vars => TypeOK'
<1> SUFFICES ASSUME TypeOK, [Next]_vars PROVE TypeOK'
  OBVIOUS
<1> USE DEF TypeOK, vars, prefillVars, schedVars, trackVars, threadVars,
            PStates, DStates, Stage
<1>1. CASE PReport
  BY <1>1 DEF PReport, ClearFinished, Trackers
<1>2. ASSUME NEW r \in Req, PFinish(r) PROVE TypeOK'
  BY <1>2 DEF PFinish
<1>3. ASSUME NEW r \in Req, PStop(r) PROVE TypeOK'
  BY <1>3 DEF PStop
<1>4. ASSUME NEW p \in PRank, NEW d \in DRank, SendMeta(p, d) PROVE TypeOK'
  BY <1>4 DEF SendMeta, Conv, ConvState
<1>5. ASSUME NEW p \in PRank, NEW d \in DRank, SendAck(p, d) PROVE TypeOK'
  <2> DEFINE q == conv[d][p].req
  <2>1. q \in Req
    BY <1>5 DEF SendAck, Conv, ConvState
  <2>2. IncrementTaskCount(sendTracker, q, d, DTpSize) \in Trackers(Req, DRank)
    BY <2>1, TrackerStep
  <2>3. sendTracker' \in Trackers(Req, DRank) /\ sendPush' \subseteq Req \X DRank
    BY <1>5, <2>1, <2>2 DEF SendAck, UpdateSendCount
  <2>4. conv' \in [DRank -> [PRank -> Conv]]
    BY <1>5 DEF SendAck, Conv, ConvState
  <2> QED
    BY <1>5, <2>3, <2>4 DEF SendAck
<1>6. ASSUME NEW r \in Req, NEW d \in DRank, SendListen(r, d) PROVE TypeOK'
  BY <1>6, TrackerStep DEF SendListen
<1>7. CASE DReport
  BY <1>7 DEF DReport, ClearFinished, Trackers
<1>8. ASSUME NEW r \in Req, NEW s \in Slot, DSchedule(r, s) PROVE TypeOK'
  BY <1>8 DEF DSchedule
<1>9. ASSUME NEW r \in Req, DResume(r) PROVE TypeOK'
  BY <1>9 DEF DResume
<1>10. ASSUME NEW r \in Req, DFinish(r) PROVE TypeOK'
  BY <1>10 DEF DFinish, DFree
<1>11. ASSUME NEW r \in Req, DAbort(r) PROVE TypeOK'
  BY <1>11 DEF DAbort, DFree
<1>12. ASSUME NEW r \in Req, NEW d \in DRank, RecvListen(r, d) PROVE TypeOK'
  BY <1>12, TrackerStep DEF RecvListen
<1>13. ASSUME NEW d \in DRank, Dequeue(d) PROVE TypeOK'
  BY <1>13 DEF Dequeue
<1>14. ASSUME NEW d \in DRank, NEW r \in Req, SkipTransfer(d, r) PROVE TypeOK'
  BY <1>14 DEF SkipTransfer, Move
<1>15. ASSUME NEW d \in DRank, NEW r \in Req, UseCachedMeta(d, r) PROVE TypeOK'
  BY <1>15 DEF UseCachedMeta, Move
<1>16. ASSUME NEW d \in DRank, NEW r \in Req, GetMeta(d, r) PROVE TypeOK'
  BY <1>16, RemoteType DEF GetMeta, Move, Conv, ConvState
<1>17. ASSUME NEW d \in DRank, NEW r \in Req, GetMetaFails(d, r) PROVE TypeOK'
  BY <1>17 DEF GetMetaFails, Move
<1>18. ASSUME NEW d \in DRank, NEW r \in Req, RecvMeta(d, r) PROVE TypeOK'
  BY <1>18, RemoteType DEF RecvMeta, Move, Conv, ConvState, Ready
<1>19. ASSUME NEW d \in DRank, NEW r \in Req, MetaTimeout(d, r) PROVE TypeOK'
  BY <1>19 DEF MetaTimeout, Move
<1>20. ASSUME NEW d \in DRank, NEW r \in Req, ReadKV(d, r) PROVE TypeOK'
  BY <1>20 DEF ReadKV, Move
<1>21. ASSUME NEW d \in DRank, NEW r \in Req, ReadFails(d, r) PROVE TypeOK'
  <2>1. kv' \in [DRank -> [Slot -> Req \cup {None}]]
    BY <1>21 DEF ReadFails
  <2>2. failed' \subseteq Req \X DRank /\ stage' \in [DRank -> [Req -> Stage]]
    BY <1>21 DEF ReadFails, Move
  <2> QED
    BY <1>21, <2>1, <2>2 DEF ReadFails
<1>22. ASSUME NEW d \in DRank, NEW r \in Req, CountDone(d, r) PROVE TypeOK'
  <2>1. IncrementTaskCount(recvTracker, r, d, DTpSize) \in Trackers(Req, DRank)
    BY TrackerStep
  <2>2. recvTracker' \in Trackers(Req, DRank) /\ recvPush' \subseteq Req \X DRank
    BY <1>22, <2>1 DEF CountDone
  <2>3. stage' \in [DRank -> [Req -> Stage]]
    BY <1>22 DEF CountDone, Move
  <2> QED
    BY <1>22, <2>2, <2>3 DEF CountDone
<1>23. ASSUME NEW d \in DRank, NEW r \in Req, SendDone(d, r) PROVE TypeOK'
  BY <1>23, RemoteType DEF SendDone, Move, Conv, ConvState
<1>24. ASSUME NEW d \in DRank, NEW r \in Req, SendDoneFails(d, r) PROVE TypeOK'
  BY <1>24 DEF SendDoneFails, Move
<1>25. ASSUME NEW d \in DRank, NEW r \in Req, RecvAck(d, r) PROVE TypeOK'
  BY <1>25, RemoteType DEF RecvAck, Move, Conv, ConvState, Ready
<1>26. ASSUME NEW d \in DRank, NEW r \in Req, AckTimeout(d, r) PROVE TypeOK'
  BY <1>26 DEF AckTimeout, Move
<1>27. ASSUME NEW d \in DRank, NEW p \in PRank, Lose(d, p) PROVE TypeOK'
  BY <1>27 DEF Lose, Conv, ConvState
<1>28. CASE UNCHANGED vars
  BY <1>28
<1> QED
  BY <1>1, <1>2, <1>3, <1>4, <1>5, <1>6, <1>7, <1>8, <1>9, <1>10, <1>11, <1>12, <1>13, <1>14, <1>15, <1>16, <1>17, <1>18, <1>19, <1>20, <1>21, <1>22, <1>23, <1>24, <1>25, <1>26, <1>27, <1>28
     DEF Next, PrefillStep, SendThread, SendListener, DecodeStep, RecvThread,
         Handle, RecvListener, LoseStep, Terminated

-----------------------------------------------------------------------------
(* The inductive step. *)

(* No new done signal appears on a socket. *)
NoNewSignal ==
  \A d \in DRank : \A p \in PRank :
    conv'[d][p].st = "done_req" => conv'[d][p] = conv[d][p]

(* A thread that goes on with its request, without counting it or putting  *)
(* a done signal on a socket, keeps the invariant.                         *)
LEMMA MoveStep ==
  ASSUME IInv, TypeOK', NoNewSignal,
         NEW d \in DRank, NEW r \in Req, NEW to \in Stage \ {"none", "queued"},
         stage[d][r] \in Active,
         stage[d][r] \in Sent => to \in Sent,
         stage[d][r] \in Counted => to \in Counted,
         stage' = [stage EXCEPT ![d][r] = to],
         UNCHANGED <<prefillVars, schedVars, trackVars, queue>>
  PROVE  IInv'
<1> USE DEF IInv, TypeOK, prefillVars, schedVars, trackVars
<1>1. \A e \in DRank : \A q \in Req :
        stage'[e][q] = IF e = d /\ q = r THEN to ELSE stage[e][q]
  OBVIOUS
<1>2. stage[d][r] # "none" /\ stage[d][r] # "queued"
  BY DEF Active, Stage
<1>3. \A q \in Req : \A e \in DRank : SignalOnSocket(q, e)' => SignalOnSocket(q, e)
  BY DEF NoNewSignal, SignalOnSocket
<1>4. ParamsInv'
  BY <1>1, <1>2 DEF ParamsInv
<1>5. QueueInv'
  <2> SUFFICES ASSUME NEW e \in DRank, NEW i \in 1 .. Len(queue[e])
               PROVE  stage'[e][queue[e][i]] = "queued"
    BY DEF QueueInv
  <2>1. queue[e][i] \in Req
    BY ElementOfSeq
  <2> QED
    BY <1>1, <1>2, <2>1 DEF QueueInv
<1>6. SentInv'
  BY <1>1, <1>3 DEF SentInv
<1>7. SocketInv'
  BY DEF SocketInv, NoNewSignal
<1>8. FinishedInv'
  BY <1>1 DEF FinishedInv
<1>9. ReportInv'
  BY DEF ReportInv
<1>10. SignalInOnePlace'
  BY <1>3 DEF SignalInOnePlace
<1>11. RecvInv'
  BY <1>1 DEF RecvInv
<1> QED
  BY <1>4, <1>5, <1>6, <1>7, <1>8, <1>9, <1>10, <1>11

(* The same for a step that only touches the sockets. *)
LEMMA SocketStep ==
  ASSUME IInv, TypeOK', NoNewSignal,
         UNCHANGED <<prefillVars, schedVars, trackVars, queue, stage>>
  PROVE  IInv'
<1> USE DEF IInv, TypeOK, prefillVars, schedVars, trackVars
<1>1. \A q \in Req : \A e \in DRank : SignalOnSocket(q, e)' => SignalOnSocket(q, e)
  BY DEF NoNewSignal, SignalOnSocket
<1>2. ParamsInv' /\ QueueInv' /\ FinishedInv' /\ ReportInv' /\ RecvInv'
  BY DEF ParamsInv, QueueInv, FinishedInv, ReportInv, RecvInv
<1>3. SentInv' /\ SignalInOnePlace'
  BY <1>1 DEF SentInv, SignalInOnePlace
<1>4. SocketInv'
  BY DEF SocketInv, NoNewSignal
<1> QED
  BY <1>2, <1>3, <1>4

(* A request with a rank that has not signalled is neither reported nor    *)
(* freed, and the rank's signal is nowhere.                                *)
LEMMA NotSent ==
  ASSUME IInv, NEW r \in Req, NEW d \in DRank, stage[d][r] \notin Sent
  PROVE  /\ ~SignalOnSocket(r, d)
         /\ <<r, d>> \notin sendPush
         /\ d \notin sendTracker.done_task_counts[r]
         /\ r \in kvParams => pReq[r] = "delayed"
         /\ r \notin sendTracker.finished_requests
<1>1. ~SignalOnSocket(r, d) /\ <<r, d>> \notin sendPush
      /\ d \notin sendTracker.done_task_counts[r]
  BY DEF IInv, SentInv
<1>2. r \in kvParams => pReq[r] = "delayed"
  BY DEF IInv, FinishedInv, ParamsInv
<1>3. r \notin sendTracker.finished_requests
  BY DEF IInv, FinishedInv, ReportInv
<1> QED
  BY <1>1, <1>2, <1>3

(* Rank 0 of the prefill engine counts a signal that it takes from the     *)
(* socket or from the PUSH channel.                                        *)
LEMMA CountStep ==
  ASSUME IInv, TypeOK', NoNewSignal,
         NEW d \in DRank, NEW r \in Req,
         r \in kvParams, stage[d][r] \in Sent, pReq[r] # "freed",
         r \notin sendTracker.finished_requests,
         d \notin sendTracker.done_task_counts[r],
         ~SignalOnSocket(r, d)', <<r, d>> \notin sendPush', sendPush' \subseteq sendPush,
         sendTracker' = IncrementTaskCount(sendTracker, r, d, DTpSize),
         UNCHANGED <<pReq, kvParams, schedVars, trackVars, queue, stage>>
  PROVE  IInv'
<1> USE DEF IInv, TypeOK, schedVars, trackVars
<1> DEFINE c == sendTracker.done_task_counts
<1>1. \A q \in Req : \A e \in DRank : SignalOnSocket(q, e)' => SignalOnSocket(q, e)
  BY DEF NoNewSignal, SignalOnSocket
<1>2. c \in [Req -> SUBSET DRank]
  BY DEF Trackers
<1>3. ParamsInv' /\ QueueInv' /\ RecvInv'
  BY DEF ParamsInv, QueueInv, RecvInv
<1>4. SocketInv'
  BY DEF SocketInv, NoNewSignal
<1>5. CASE /\ c[r] \cup {d} = DRank
           /\ sendTracker'.done_task_counts = [c EXCEPT ![r] = {}]
           /\ sendTracker'.finished_requests = sendTracker.finished_requests \cup {r}
  <2>1. \A e \in DRank : /\ stage[e][r] \in Sent
                         /\ ~SignalOnSocket(r, e)'
                         /\ <<r, e>> \notin sendPush'
    BY <1>1, <1>5 DEF SentInv, SignalInOnePlace
  <2>2. pReq[r] = "delayed"
    BY DEF ParamsInv
  <2>3. SentInv'
    BY <1>1, <1>2, <1>5 DEF SentInv
  <2>4. FinishedInv' /\ ReportInv'
    BY <1>5, <2>1, <2>2 DEF FinishedInv, ReportInv
  <2>5. SignalInOnePlace'
    BY <1>1, <1>2, <1>5, <2>1, ZenonT(40) DEF SignalInOnePlace
  <2> QED
    BY <1>3, <1>4, <2>3, <2>4, <2>5
<1>6. CASE /\ sendTracker'.done_task_counts = [c EXCEPT ![r] = c[r] \cup {d}]
           /\ sendTracker'.finished_requests = sendTracker.finished_requests
  <2>1. SentInv'
    BY <1>1, <1>2, <1>6 DEF SentInv
  <2>2. FinishedInv' /\ ReportInv'
    BY <1>6 DEF FinishedInv, ReportInv
  <2>3. \A q \in Req : \A e \in DRank :
          e \in sendTracker'.done_task_counts[q] <=> e \in c[q] \/ (q = r /\ e = d)
    BY <1>2, <1>6
  <2>4. \A q \in Req : q # r => sendTracker'.done_task_counts[q] = c[q]
    BY <1>2, <1>6
  <2>5. SignalInOnePlace'
    <3> SUFFICES ASSUME NEW q \in kvParams, NEW e \in DRank
                 PROVE  /\ SignalOnSocket(q, e)' =>
                             /\ <<q, e>> \notin sendPush'
                             /\ e \notin sendTracker'.done_task_counts[q]
                        /\ <<q, e>> \in sendPush' =>
                             e \notin sendTracker'.done_task_counts[q]
                        /\ (q \in sendTracker.finished_requests \/ pReq[q] = "freed") =>
                             /\ ~SignalOnSocket(q, e)'
                             /\ <<q, e>> \notin sendPush'
                             /\ sendTracker'.done_task_counts[q] = {}
      BY <1>6 DEF SignalInOnePlace
    <3>1. CASE q = r /\ e = d
      BY <3>1
    <3>2. CASE ~(q = r /\ e = d)
      BY <1>1, <2>3, <2>4, <3>2 DEF SignalInOnePlace
    <3> QED
      BY <3>1, <3>2
  <2> QED
    BY <1>3, <1>4, <2>1, <2>2, <2>5
<1>7. \/ /\ c[r] \cup {d} = DRank
         /\ sendTracker'.done_task_counts = [c EXCEPT ![r] = {}]
         /\ sendTracker'.finished_requests = sendTracker.finished_requests \cup {r}
      \/ /\ sendTracker'.done_task_counts = [c EXCEPT ![r] = c[r] \cup {d}]
         /\ sendTracker'.finished_requests = sendTracker.finished_requests
  <2>1. sendTracker \in Trackers(Req, DRank) /\ d \notin sendTracker.done_task_counts[r]
    OBVIOUS
  <2> HIDE DEF IInv, TypeOK
  <2> QED
    BY <2>1, TrackerStep
<1> QED
  BY <1>5, <1>6, <1>7

(* What update_done_task_count does to the tracker of the decode engine. *)
LEMMA RecvTrackerCases ==
  ASSUME NEW d \in DRank, NEW r \in Req, recvTracker \in Trackers(Req, DRank),
         recvTracker' = IncrementTaskCount(recvTracker, r, d, DTpSize)
  PROVE  LET c == recvTracker.done_task_counts IN
         \/ recvTracker' = recvTracker
         \/ /\ c[r] \cup {d} = DRank
            /\ recvTracker'.done_task_counts = [c EXCEPT ![r] = {}]
            /\ recvTracker'.finished_requests = recvTracker.finished_requests \cup {r}
         \/ /\ recvTracker'.done_task_counts = [c EXCEPT ![r] = c[r] \cup {d}]
            /\ recvTracker'.finished_requests = recvTracker.finished_requests
BY TrackerStep

(* Rank 0 of the decode engine counts rank d, which is through. *)
LEMMA RecvCount ==
  ASSUME IInv, NEW d \in DRank, NEW r \in Req,
         stage' \in [DRank -> [Req -> Stage]], stage'[d][r] \in Counted,
         \A e \in DRank : \A q \in Req :
           stage[e][q] \in Counted => stage'[e][q] \in Counted,
         recvPush' \subseteq recvPush,
         recvTracker' = IncrementTaskCount(recvTracker, r, d, DTpSize),
         UNCHANGED finishedRecving
  PROVE  RecvInv'
<1> DEFINE c == recvTracker.done_task_counts
<1>1. recvTracker \in Trackers(Req, DRank) /\ c \in [Req -> SUBSET DRank]
  BY DEF IInv, TypeOK, Trackers
<1>2. \/ recvTracker' = recvTracker
      \/ /\ c[r] \cup {d} = DRank
         /\ recvTracker'.done_task_counts = [c EXCEPT ![r] = {}]
         /\ recvTracker'.finished_requests = recvTracker.finished_requests \cup {r}
      \/ /\ recvTracker'.done_task_counts = [c EXCEPT ![r] = c[r] \cup {d}]
         /\ recvTracker'.finished_requests = recvTracker.finished_requests
  BY <1>1, RecvTrackerCases
<1>3. CASE recvTracker' = recvTracker
  BY <1>3 DEF IInv, RecvInv
<1>4. CASE /\ c[r] \cup {d} = DRank
           /\ recvTracker'.done_task_counts = [c EXCEPT ![r] = {}]
           /\ recvTracker'.finished_requests = recvTracker.finished_requests \cup {r}
  <2>1. \A e \in DRank : stage[e][r] \in Counted \/ e = d
    BY <1>4 DEF IInv, RecvInv
  <2> QED
    BY <1>1, <1>4, <2>1 DEF IInv, RecvInv
<1>5. CASE /\ recvTracker'.done_task_counts = [c EXCEPT ![r] = c[r] \cup {d}]
           /\ recvTracker'.finished_requests = recvTracker.finished_requests
  BY <1>1, <1>5 DEF IInv, RecvInv
<1> QED
  BY <1>2, <1>3, <1>4, <1>5

(* The prefill scheduler. *)
LEMMA PrefillKeeps == ASSUME IInv, TypeOK', PrefillStep PROVE IInv'
<1> USE DEF IInv, TypeOK, schedVars, trackVars, threadVars
<1>1. CASE PReport
  <2>1. \A r \in Req : pReq'[r] = IF r \in sendTracker.finished_requests
                                  THEN "freed" ELSE pReq[r]
    BY <1>1 DEF PReport
  <2>2. /\ sendTracker'.done_task_counts = sendTracker.done_task_counts
        /\ sendTracker'.finished_requests = {}
    BY <1>1 DEF PReport, ClearFinished, Trackers
  <2>3. ParamsInv' /\ QueueInv' /\ SentInv' /\ SocketInv' /\ RecvInv'
    <3>1. ParamsInv'
      BY <1>1, <2>1 DEF PReport, ParamsInv, ReportInv
    <3>2. SentInv'
      BY <1>1, <2>2 DEF PReport, SentInv, SignalOnSocket
    <3>3. QueueInv' /\ SocketInv' /\ RecvInv'
      BY <1>1 DEF PReport, QueueInv, SocketInv, RecvInv
    <3> QED
      BY <3>1, <3>2, <3>3
  <2>4. FinishedInv' /\ ReportInv'
    BY <1>1, <2>1, <2>2 DEF PReport, FinishedInv, ReportInv
  <2>5. SignalInOnePlace'
    <3>1. \A q \in Req : \A e \in DRank : SignalOnSocket(q, e)' <=> SignalOnSocket(q, e)
      BY <1>1 DEF PReport, SignalOnSocket
    <3> QED
      BY <1>1, <2>1, <2>2, <3>1 DEF PReport, SignalInOnePlace
  <2> QED
    BY <2>3, <2>4, <2>5
<1>2. ASSUME NEW r \in Req, PFinish(r) PROVE IInv'
  <2>1. r \notin kvParams /\ r \notin sendTracker.finished_requests
    BY <1>2 DEF PFinish, ParamsInv, ReportInv
  <2>2. \A d \in DRank : stage[d][r] = "none"
    BY <2>1 DEF ParamsInv
  <2>3. \A d \in DRank : /\ ~SignalOnSocket(r, d)
                         /\ <<r, d>> \notin sendPush
                         /\ d \notin sendTracker.done_task_counts[r]
    BY <2>2 DEF SentInv, Sent
  <2>4. \A q \in Req : pReq'[q] = IF q = r THEN "delayed" ELSE pReq[q]
    BY <1>2 DEF PFinish
  <2>5. ParamsInv' /\ QueueInv' /\ SentInv' /\ SocketInv' /\ RecvInv'
    <3>1. ParamsInv'
      BY <1>2, <2>4 DEF PFinish, ParamsInv
    <3>2. SentInv'
      BY <1>2 DEF PFinish, SentInv, SignalOnSocket
    <3>3. QueueInv' /\ SocketInv' /\ RecvInv'
      BY <1>2 DEF PFinish, QueueInv, SocketInv, RecvInv
    <3> QED
      BY <3>1, <3>2, <3>3
  <2>6. FinishedInv' /\ ReportInv'
    BY <1>2, <2>1, <2>4 DEF PFinish, FinishedInv, ReportInv
  <2>7. SignalInOnePlace'
    <3>1. \A q \in Req : \A e \in DRank : SignalOnSocket(q, e)' <=> SignalOnSocket(q, e)
      BY <1>2 DEF PFinish, SignalOnSocket
    <3> QED
      BY <1>2, <2>1, <2>3, <2>4, <3>1 DEF PFinish, SignalInOnePlace
  <2> QED
    BY <2>5, <2>6, <2>7
<1>3. ASSUME NEW r \in Req, PStop(r) PROVE IInv'
  <2>1. r \notin kvParams
    BY <1>3 DEF PStop, ParamsInv
  <2>2. \A q \in Req : pReq'[q] = IF q = r THEN "freed" ELSE pReq[q]
    BY <1>3 DEF PStop
  <2>3. ParamsInv' /\ QueueInv' /\ SentInv' /\ SocketInv' /\ RecvInv'
    <3>1. ParamsInv'
      BY <1>3, <2>1, <2>2 DEF PStop, ParamsInv
    <3>2. SentInv'
      BY <1>3 DEF PStop, SentInv, SignalOnSocket
    <3>3. QueueInv' /\ SocketInv' /\ RecvInv'
      BY <1>3 DEF PStop, QueueInv, SocketInv, RecvInv
    <3> QED
      BY <3>1, <3>2, <3>3
  <2>4. FinishedInv' /\ ReportInv'
    BY <1>3, <2>1, <2>2 DEF PStop, FinishedInv, ReportInv
  <2>5. SignalInOnePlace'
    <3>1. \A q \in Req : \A e \in DRank : SignalOnSocket(q, e)' <=> SignalOnSocket(q, e)
      BY <1>3 DEF PStop, SignalOnSocket
    <3> QED
      BY <1>3, <2>1, <2>2, <3>1 DEF PStop, SignalInOnePlace
  <2> QED
    BY <2>3, <2>4, <2>5
<1> QED
  BY <1>1, <1>2, <1>3 DEF PrefillStep

(* The sending threads and the listener of prefill rank 0. *)
LEMMA SendAckKeeps ==
  ASSUME IInv, TypeOK', NEW p \in PRank, NEW d \in DRank, SendAck(p, d)
  PROVE  IInv'
<1>1. /\ conv[d][p].st = "done_req"
      /\ conv' = [conv EXCEPT ![d][p] = [st |-> "ack", req |-> None]]
      /\ UNCHANGED <<pReq, kvParams, schedVars, trackVars, queue, stage>>
  BY DEF SendAck
<1>2. conv \in [DRank -> [PRank -> Conv]]
  BY DEF IInv, TypeOK
<1>3. PICK r \in Req : r = conv[d][p].req
  BY <1>1, <1>2 DEF Conv, ConvState
<1>4. \A e \in DRank : \A q \in PRank :
        conv'[e][q] = IF e = d /\ q = p THEN [st |-> "ack", req |-> None] ELSE conv[e][q]
  BY <1>1, <1>2
<1>5. NoNewSignal
  BY <1>4 DEF NoNewSignal
<1>6. SignalOnSocket(r, d)
  BY <1>1, <1>3 DEF SignalOnSocket
<1>7. ~SignalOnSocket(r, d)'
  BY <1>1, <1>4, <1>3 DEF IInv, SocketInv, SignalOnSocket
<1>8. stage[d][r] \in Sent
  BY <1>2, <1>6 DEF IInv, SentInv
<1>9. r \in kvParams
  BY <1>2, <1>8 DEF IInv, ParamsInv, Sent
<1>10. /\ <<r, d>> \notin sendPush
      /\ d \notin sendTracker.done_task_counts[r]
      /\ r \notin sendTracker.finished_requests
      /\ pReq[r] # "freed"
  BY <1>6, <1>9 DEF IInv, SignalInOnePlace
<1>11. CASE p = 0
  <2>1. /\ sendTracker' = IncrementTaskCount(sendTracker, r, d, DTpSize)
        /\ sendPush' = sendPush
    BY <1>11, <1>3 DEF SendAck, UpdateSendCount
  <2> QED
    BY <1>1, <1>2, <1>5, <1>7, <1>8, <1>9, <1>10, <2>1, CountStep
<1>12. CASE p # 0
  <2>1. sendPush' = sendPush \cup {<<r, d>>} /\ sendTracker' = sendTracker
    BY <1>12, <1>3 DEF SendAck, UpdateSendCount
  <2>2. \A q \in Req : \A e \in DRank : SignalOnSocket(q, e)' => SignalOnSocket(q, e)
    BY <1>5 DEF NoNewSignal, SignalOnSocket
  <2>3. ParamsInv' /\ QueueInv' /\ FinishedInv' /\ ReportInv' /\ RecvInv'
    BY <1>1, <2>1
       DEF IInv, schedVars, trackVars, ParamsInv, QueueInv, FinishedInv, ReportInv, RecvInv
  <2>4. SocketInv'
    BY <1>5 DEF IInv, SocketInv, NoNewSignal
  <2>5. SentInv'
    BY <1>1, <1>8, <2>1, <2>2 DEF IInv, SentInv
  <2>6. SignalInOnePlace'
    <3> SUFFICES ASSUME NEW q \in kvParams, NEW e \in DRank
                 PROVE  /\ SignalOnSocket(q, e)' =>
                             /\ <<q, e>> \notin sendPush'
                             /\ e \notin sendTracker.done_task_counts[q]
                        /\ <<q, e>> \in sendPush' =>
                             e \notin sendTracker.done_task_counts[q]
                        /\ (q \in sendTracker.finished_requests \/ pReq[q] = "freed") =>
                             /\ ~SignalOnSocket(q, e)'
                             /\ <<q, e>> \notin sendPush'
                             /\ sendTracker.done_task_counts[q] = {}
      BY <1>1, <2>1 DEF SignalInOnePlace
    <3>1. q \in Req
      BY DEF IInv, TypeOK
    <3>2. CASE q = r /\ e = d
      BY <1>7, <1>10, <3>2
    <3>3. CASE ~(q = r /\ e = d)
      <4>1. <<q, e>> \in sendPush' <=> <<q, e>> \in sendPush
        BY <2>1, <3>3
      <4> QED
        BY <2>2, <3>1, <4>1 DEF IInv, SignalInOnePlace
    <3> QED
      BY <3>2, <3>3
  <2> QED
    BY <2>3, <2>4, <2>5, <2>6 DEF IInv
<1> QED
  BY <1>11, <1>12

(* The listener of the prefill engine's tracker keeps the invariant. *)
LEMMA SendListenKeeps ==
  ASSUME IInv, TypeOK', NEW r \in Req, NEW d \in DRank, SendListen(r, d)
  PROVE  IInv'
<1>1. /\ <<r, d>> \in sendPush
      /\ sendPush' = sendPush \ {<<r, d>>}
      /\ sendTracker' = IncrementTaskCount(sendTracker, r, d, DTpSize)
      /\ UNCHANGED <<pReq, kvParams, schedVars, trackVars, queue, stage, conv>>
  BY DEF SendListen, threadVars
<1>2. NoNewSignal
  BY <1>1 DEF NoNewSignal
<1>3. stage[d][r] \in Sent
  BY <1>1 DEF IInv, SentInv
<1>4. r \in kvParams
  BY <1>3 DEF IInv, ParamsInv, Sent
<1>5. /\ d \notin sendTracker.done_task_counts[r]
      /\ ~SignalOnSocket(r, d)
      /\ r \notin sendTracker.finished_requests
      /\ pReq[r] # "freed"
  BY <1>1, <1>4 DEF IInv, SignalInOnePlace
<1>6. ~SignalOnSocket(r, d)'
  BY <1>1, <1>5 DEF SignalOnSocket
<1>7. <<r, d>> \notin sendPush' /\ sendPush' \subseteq sendPush
  BY <1>1
<1> QED
  BY <1>1, <1>2, <1>3, <1>4, <1>5, <1>6, <1>7, CountStep

(* The decode scheduler. *)
LEMMA DScheduleKeeps ==
  ASSUME IInv, TypeOK', NEW r \in Req, NEW s \in Slot, DSchedule(r, s)
  PROVE  IInv'
<1> USE DEF IInv, TypeOK, prefillVars, trackVars
<1>1. \A d \in DRank : stage[d][r] = "none"
  BY DEF DSchedule, ParamsInv
<1>2. \A d \in DRank : \A q \in Req :
        stage'[d][q] = IF q = r THEN "queued" ELSE stage[d][q]
  BY DEF DSchedule
<1>3. 0 \in DRank
  BY SizeAssumption DEF DRank
<1>4. r \notin sendTracker.finished_requests /\ pReq[r] # "freed"
  BY <1>1, <1>3 DEF DSchedule, FinishedInv, ReportInv, Sent
<1>5. \A q \in Req : \A e \in DRank : SignalOnSocket(q, e)' <=> SignalOnSocket(q, e)
  BY DEF DSchedule, SignalOnSocket
<1>6. ParamsInv'
  BY <1>2 DEF DSchedule, ParamsInv
<1>7. QueueInv'
  <2> SUFFICES ASSUME NEW d \in DRank
               PROVE  /\ \A i \in 1 .. Len(queue'[d]) : stage'[d][queue'[d][i]] = "queued"
                      /\ \A i, j \in 1 .. Len(queue'[d]) : queue'[d][i] = queue'[d][j] => i = j
    BY DEF QueueInv
  <2>1. queue'[d] = Append(queue[d], r) /\ queue[d] \in Seq(Req)
    BY DEF DSchedule
  <2>2. /\ Len(queue'[d]) = Len(queue[d]) + 1
        /\ \A i \in 1 .. Len(queue[d]) : queue'[d][i] = queue[d][i]
        /\ queue'[d][Len(queue[d]) + 1] = r
    BY <2>1, AppendProperties
  <2>3. Len(queue[d]) \in Nat
    BY <2>1, LenProperties
  <2>4. \A i \in 1 .. Len(queue[d]) : queue[d][i] \in Req /\ queue[d][i] # r
    BY <1>1, <2>1, ElementOfSeq DEF QueueInv
  <2>5. \A i \in 1 .. Len(queue'[d]) : i \in 1 .. Len(queue[d]) \/ i = Len(queue[d]) + 1
    BY <2>2, <2>3
  <2>6. ASSUME NEW i \in 1 .. Len(queue'[d]) PROVE stage'[d][queue'[d][i]] = "queued"
    <3>1. CASE i = Len(queue[d]) + 1
      BY <1>2, <2>2, <3>1
    <3>2. CASE i \in 1 .. Len(queue[d])
      <4>1. queue'[d][i] = queue[d][i] /\ queue[d][i] \in Req /\ queue[d][i] # r
        BY <2>2, <2>4, <3>2
      <4>2. stage[d][queue[d][i]] = "queued"
        BY <3>2 DEF QueueInv
      <4> QED
        BY <1>2, <4>1, <4>2
    <3> QED
      BY <2>5, <3>1, <3>2
  <2>7. ASSUME NEW i \in 1 .. Len(queue'[d]), NEW j \in 1 .. Len(queue'[d]),
               queue'[d][i] = queue'[d][j]
        PROVE  i = j
    BY <2>2, <2>4, <2>5, <2>7, ZenonT(40) DEF QueueInv
  <2> QED
    BY <2>6, <2>7
<1>8. SentInv'
  BY <1>1, <1>2, <1>5 DEF DSchedule, SentInv, Sent
<1>9. SocketInv'
  BY DEF DSchedule, SocketInv
<1>10. FinishedInv' /\ ReportInv'
  BY <1>2, <1>4 DEF DSchedule, FinishedInv, ReportInv
<1>11. SignalInOnePlace'
  BY <1>5 DEF DSchedule, SignalInOnePlace
<1>12. RecvInv'
  BY <1>1, <1>2 DEF DSchedule, RecvInv, Counted
<1> QED
  BY <1>6, <1>7, <1>8, <1>9, <1>10, <1>11, <1>12

(* Steps of the decode scheduler that leave the threads and the prefill    *)
(* engine alone.                                                           *)
LEMMA SchedStep ==
  ASSUME IInv, TypeOK', UNCHANGED <<prefillVars, queue, stage, conv>>, RecvInv',
         \A r \in Req : dReq'[r] = "absent" <=> dReq[r] = "absent"
  PROVE  IInv'
<1> USE DEF IInv, prefillVars
<1>1. \A q \in Req : \A e \in DRank : SignalOnSocket(q, e)' <=> SignalOnSocket(q, e)
  BY DEF SignalOnSocket
<1>2. ParamsInv'
  BY DEF ParamsInv
<1>3. QueueInv' /\ SocketInv' /\ FinishedInv' /\ ReportInv'
  BY DEF QueueInv, SocketInv, FinishedInv, ReportInv
<1>4. SentInv'
  BY <1>1 DEF SentInv
<1>5. SignalInOnePlace'
  BY <1>1 DEF TypeOK, SignalInOnePlace
<1> QED
  BY <1>2, <1>3, <1>4, <1>5

(* The decode scheduler's steps keep the invariant. *)
LEMMA DecodeKeeps == ASSUME IInv, TypeOK', DecodeStep PROVE IInv'
<1> USE DEF trackVars, threadVars
<1>1. CASE DReport
  <2>1. /\ recvTracker'.done_task_counts = recvTracker.done_task_counts
        /\ recvTracker'.finished_requests = {}
    BY <1>1 DEF DReport, ClearFinished, IInv, TypeOK, Trackers
  <2>2. RecvInv'
    BY <1>1, <2>1 DEF DReport, IInv, RecvInv
  <2> QED
    BY <1>1, <2>2, SchedStep DEF DReport
<1>2. ASSUME NEW r \in Req, DResume(r) PROVE IInv'
  <2>1. RecvInv'
    BY <1>2 DEF DResume, IInv, RecvInv
  <2>2. \A q \in Req : dReq'[q] = "absent" <=> dReq[q] = "absent"
    BY <1>2 DEF DResume, IInv, TypeOK
  <2> QED
    BY <1>2, <2>1, <2>2, SchedStep DEF DResume
<1>3. ASSUME NEW r \in Req, DFinish(r) \/ DAbort(r) PROVE IInv'
  <2>1. RecvInv'
    BY <1>3 DEF DFinish, DAbort, DFree, IInv, RecvInv
  <2>2. \A q \in Req : dReq'[q] = "absent" <=> dReq[q] = "absent"
    BY <1>3 DEF DFinish, DAbort, DFree, IInv, TypeOK
  <2> QED
    BY <1>3, <2>1, <2>2, SchedStep DEF DFinish, DAbort, DFree
<1> QED
  BY <1>1, <1>2, <1>3, DScheduleKeeps DEF DecodeStep

(* The listener of the decode engine's tracker keeps the invariant. *)
LEMMA RecvListenKeeps ==
  ASSUME IInv, TypeOK', NEW r \in Req, NEW d \in DRank, RecvListen(r, d)
  PROVE  IInv'
<1>1. /\ <<r, d>> \in recvPush
      /\ recvPush' \subseteq recvPush
      /\ recvTracker' = IncrementTaskCount(recvTracker, r, d, DTpSize)
      /\ UNCHANGED <<prefillVars, schedVars, threadVars>>
  BY DEF RecvListen
<1>2. UNCHANGED <<prefillVars, queue, stage, conv, dReq, finishedRecving>>
  BY <1>1 DEF schedVars, threadVars
<1>3. stage[d][r] \in Counted
  BY <1>1 DEF IInv, RecvInv
<1>4. RecvInv'
  BY <1>1, <1>2, <1>3, RecvCount DEF IInv, TypeOK
<1> QED
  BY <1>2, <1>4, SchedStep

(* The receiving threads. *)
LEMMA DequeueKeeps ==
  ASSUME IInv, TypeOK', NEW d \in DRank, Dequeue(d)
  PROVE  IInv'
<1> USE DEF IInv, TypeOK, prefillVars, schedVars, trackVars
<1>1. queue[d] \in Seq(Req) /\ queue[d] # << >>
  BY DEF Dequeue
<1>2. PICK r \in Req : r = Head(queue[d])
  BY <1>1, HeadTailProperties
<1>3. /\ Tail(queue[d]) \in Seq(Req)
      /\ Len(queue[d]) \in Nat \ {0}
      /\ Len(Tail(queue[d])) = Len(queue[d]) - 1
      /\ \A i \in 1 .. Len(queue[d]) - 1 : Tail(queue[d])[i] = queue[d][i + 1]
      /\ Head(queue[d]) = queue[d][1]
  BY <1>1, HeadTailProperties, LenProperties
<1>4. stage[d][r] = "queued"
  BY <1>2, <1>3 DEF QueueInv
<1>5. \A e \in DRank : \A q \in Req :
        stage'[e][q] = IF e = d /\ q = r THEN "transfer" ELSE stage[e][q]
  BY <1>2 DEF Dequeue
<1>6. \A q \in Req : \A e \in DRank : SignalOnSocket(q, e)' <=> SignalOnSocket(q, e)
  BY DEF Dequeue, SignalOnSocket
<1>7. ParamsInv'
  BY <1>4, <1>5 DEF Dequeue, ParamsInv
<1>8. QueueInv'
  <2>1. \A e \in DRank : queue'[e] = IF e = d THEN Tail(queue[d]) ELSE queue[e]
    BY DEF Dequeue
  <2>2. \A i \in 1 .. Len(queue[d]) - 1 :
          /\ i + 1 \in 1 .. Len(queue[d])
          /\ i + 1 # 1
          /\ 1 \in 1 .. Len(queue[d])
    BY <1>3
  <2>3. \A i \in 1 .. Len(queue'[d]) :
          /\ queue'[d][i] = queue[d][i + 1]
          /\ i + 1 \in 1 .. Len(queue[d])
          /\ queue[d][i + 1] # r
          /\ queue[d][i + 1] \in Req
    <3> SUFFICES ASSUME NEW i \in 1 .. Len(queue'[d])
                 PROVE  /\ queue'[d][i] = queue[d][i + 1]
                        /\ i + 1 \in 1 .. Len(queue[d])
                        /\ queue[d][i + 1] # r
                        /\ queue[d][i + 1] \in Req
      OBVIOUS
    <3>1. i \in 1 .. Len(queue[d]) - 1
      BY <1>3, <2>1
    <3>2. queue'[d][i] = queue[d][i + 1] /\ i + 1 \in 1 .. Len(queue[d])
      BY <1>3, <2>1, <2>2, <3>1
    <3>3. queue[d][i + 1] # r
      BY <1>2, <1>3, <2>2, <3>1, ZenonT(40) DEF QueueInv
    <3>4. queue[d][i + 1] \in Req
      BY <1>1, <3>2, ElementOfSeq
    <3> QED
      BY <3>2, <3>3, <3>4
  <2>4. ASSUME NEW e \in DRank, NEW i \in 1 .. Len(queue'[e])
        PROVE  stage'[e][queue'[e][i]] = "queued"
    <3>1. CASE e = d
      <4>1. stage[d][queue[d][i + 1]] = "queued"
        BY <2>3, <3>1 DEF QueueInv
      <4> QED
        BY <1>5, <2>3, <3>1, <4>1
    <3>2. CASE e # d
      <4>1. queue[e][i] \in Req
        BY <2>1, <3>2, ElementOfSeq
      <4> QED
        BY <1>5, <2>1, <3>2, <4>1 DEF QueueInv
    <3> QED
      BY <3>1, <3>2
  <2>5. ASSUME NEW e \in DRank, NEW i \in 1 .. Len(queue'[e]),
               NEW j \in 1 .. Len(queue'[e]), queue'[e][i] = queue'[e][j]
        PROVE  i = j
    <3>1. CASE e = d
      <4>1. i + 1 = j + 1
        BY <2>3, <2>5, <3>1 DEF QueueInv
      <4>2. i \in Int /\ j \in Int
        BY <1>3, <2>1, <3>1
      <4> QED
        BY <4>1, <4>2
    <3>2. CASE e # d
      BY <2>1, <2>5, <3>2 DEF QueueInv
    <3> QED
      BY <3>1, <3>2
  <2> QED
    BY <2>4, <2>5 DEF QueueInv
<1>9. SentInv'
  BY <1>4, <1>5, <1>6 DEF Dequeue, SentInv, Sent
<1>10. SocketInv' /\ ReportInv'
  BY DEF Dequeue, SocketInv, ReportInv
<1>11. FinishedInv'
  BY <1>4, <1>5 DEF Dequeue, FinishedInv, Sent
<1>12. SignalInOnePlace'
  BY <1>6 DEF Dequeue, SignalInOnePlace
<1>13. RecvInv'
  BY <1>4, <1>5 DEF Dequeue, RecvInv, Counted
<1> QED
  BY <1>7, <1>8, <1>9, <1>10, <1>11, <1>12, <1>13

(* Counting a finished read of a rank keeps the invariant. *)
LEMMA CountDoneKeeps ==
  ASSUME IInv, TypeOK', NEW d \in DRank, NEW r \in Req, CountDone(d, r)
  PROVE  IInv'
<1> USE DEF IInv, TypeOK, prefillVars, schedVars
<1>1. stage[d][r] = "count"
  BY DEF CountDone, Move
<1>2. \A e \in DRank : \A q \in Req :
        stage'[e][q] = IF e = d /\ q = r THEN "send_done" ELSE stage[e][q]
  BY DEF CountDone, Move
<1>3. UNCHANGED <<prefillVars, schedVars, queue, conv>>
  BY DEF CountDone
<1>4. \A q \in Req : \A e \in DRank : SignalOnSocket(q, e)' <=> SignalOnSocket(q, e)
  BY <1>3 DEF SignalOnSocket
<1>5. ParamsInv'
  <2>1. UNCHANGED <<pReq, kvParams, dReq>>
    BY <1>3
  <2>2. dReq[r] # "absent"
    BY <1>1 DEF ParamsInv
  <2> QED
    BY <1>2, <2>1, <2>2, ZenonT(40) DEF ParamsInv
<1>6. QueueInv'
  <2> SUFFICES ASSUME NEW e \in DRank, NEW i \in 1 .. Len(queue[e])
               PROVE  stage'[e][queue[e][i]] = "queued"
    BY <1>3 DEF QueueInv
  <2>1. queue[e][i] \in Req
    BY ElementOfSeq
  <2> QED
    BY <1>1, <1>2, <2>1 DEF QueueInv
<1>7. SentInv'
  BY <1>1, <1>2, <1>3, <1>4 DEF SentInv, Sent
<1>8. SocketInv' /\ ReportInv'
  BY <1>3 DEF SocketInv, ReportInv
<1>9. FinishedInv'
  BY <1>1, <1>2, <1>3, ZenonT(40) DEF FinishedInv, Sent
<1>10. SignalInOnePlace'
  BY <1>3, <1>4 DEF SignalInOnePlace
<1>11. RecvInv'
  <2>1. /\ stage'[d][r] \in Counted
        /\ \A e \in DRank : \A q \in Req :
             stage[e][q] \in Counted => stage'[e][q] \in Counted
    BY <1>2 DEF Counted
  <2>2. CASE d = 0
    <3>1. /\ recvTracker' = IncrementTaskCount(recvTracker, r, d, DTpSize)
          /\ recvPush' \subseteq recvPush
      BY <2>2 DEF CountDone
    <3> QED
      BY <1>3, <2>1, <3>1, RecvCount
  <2>3. CASE d # 0
    <3>1. recvPush' = recvPush \cup {<<r, d>>} /\ recvTracker' = recvTracker
      BY <2>3 DEF CountDone
    <3> QED
      BY <1>3, <2>1, <3>1 DEF RecvInv
  <2> QED
    BY <2>2, <2>3
<1> QED
  BY <1>5, <1>6, <1>7, <1>8, <1>9, <1>10, <1>11

(* _send_done_recv_signal keeps the invariant. *)
LEMMA SendDoneKeeps ==
  ASSUME IInv, TypeOK', NEW d \in DRank, NEW r \in Req, SendDone(d, r)
  PROVE  IInv'
<1> USE DEF IInv, TypeOK, prefillVars, schedVars, trackVars
<1>1. stage[d][r] = "send_done"
  BY DEF SendDone, Move
<1>2. \A e \in DRank : \A q \in Req :
        stage'[e][q] = IF e = d /\ q = r THEN "wait_ack" ELSE stage[e][q]
  BY DEF SendDone, Move
<1>3. UNCHANGED <<prefillVars, schedVars, trackVars, queue>>
  BY DEF SendDone
<1>4. PICK p \in PRank : p = Remote(r, d)
  BY RemoteType
<1>5. \A e \in DRank : \A q \in PRank :
        conv'[e][q] = IF e = d /\ q = p THEN [st |-> "done_req", req |-> r] ELSE conv[e][q]
  BY <1>4 DEF SendDone
<1>6. \A q \in Req : \A e \in DRank :
        SignalOnSocket(q, e)' => SignalOnSocket(q, e) \/ (q = r /\ e = d)
  BY <1>5 DEF SignalOnSocket
<1>7. r \in kvParams
  BY <1>1 DEF ParamsInv
<1>8. /\ <<r, d>> \notin sendPush
      /\ d \notin sendTracker.done_task_counts[r]
      /\ pReq[r] = "delayed"
      /\ r \notin sendTracker.finished_requests
  <2>1. stage[d][r] \notin Sent
    BY <1>1 DEF Sent
  <2> HIDE DEF IInv
  <2> QED
    BY <1>7, <2>1, NotSent
<1>9. ParamsInv'
  <2>1. UNCHANGED <<pReq, kvParams, dReq>>
    BY <1>3
  <2>2. dReq[r] # "absent"
    BY <1>1 DEF ParamsInv
  <2> QED
    BY <1>2, <2>1, <2>2, ZenonT(40) DEF ParamsInv
<1>10. QueueInv'
  <2> SUFFICES ASSUME NEW e \in DRank, NEW i \in 1 .. Len(queue[e])
               PROVE  stage'[e][queue[e][i]] = "queued"
    BY <1>3 DEF QueueInv
  <2>1. queue[e][i] \in Req
    BY ElementOfSeq
  <2> QED
    BY <1>1, <1>2, <2>1 DEF QueueInv
<1>11. SentInv'
  BY <1>2, <1>3, <1>6 DEF SentInv, Sent
<1>12. SocketInv'
  <2> SUFFICES ASSUME NEW e \in DRank, NEW q \in PRank, conv'[e][q].st = "done_req"
               PROVE  q = Remote(conv'[e][q].req, e)
    BY DEF SocketInv
  <2>1. CASE e = d /\ q = p
    BY <1>4, <1>5, <2>1
  <2>2. CASE ~(e = d /\ q = p)
    BY <1>5, <2>2 DEF SocketInv
  <2> QED
    BY <2>1, <2>2
<1>13. ReportInv' /\ FinishedInv'
  BY <1>2, <1>3 DEF ReportInv, FinishedInv, Sent
<1>14. SignalInOnePlace'
  BY <1>3, <1>6, <1>8, ZenonT(40) DEF SignalInOnePlace
<1>15. RecvInv'
  BY <1>2, <1>3 DEF RecvInv, Counted
<1> QED
  BY <1>9, <1>10, <1>11, <1>12, <1>13, <1>14, <1>15

(* The rest of _handle_request. *)
LEMMA HandleKeeps ==
  ASSUME IInv, TypeOK', NEW d \in DRank, NEW r \in Req, Handle(d, r)
  PROVE  IInv'
<1> USE DEF Move, Stage, Active, Sent, Counted
<1>1. conv \in [DRank -> [PRank -> Conv]] /\ Remote(r, d) \in PRank
  BY RemoteType DEF IInv, TypeOK
<1>2. CASE SkipTransfer(d, r)
  BY <1>2, MoveStep DEF SkipTransfer, NoNewSignal
<1>3. CASE UseCachedMeta(d, r)
  BY <1>3, MoveStep DEF UseCachedMeta, NoNewSignal
<1>4. CASE GetMeta(d, r)
  <2>1. NoNewSignal
    BY <1>1, <1>4 DEF GetMeta, NoNewSignal
  <2> QED
    BY <1>4, <2>1, MoveStep DEF GetMeta
<1>5. CASE GetMetaFails(d, r)
  BY <1>5, MoveStep DEF GetMetaFails, NoNewSignal
<1>6. CASE RecvMeta(d, r)
  <2>1. NoNewSignal
    BY <1>1, <1>6 DEF RecvMeta, NoNewSignal, Ready
  <2> QED
    BY <1>6, <2>1, MoveStep DEF RecvMeta
<1>7. CASE MetaTimeout(d, r)
  BY <1>7, MoveStep DEF MetaTimeout, NoNewSignal
<1>8. CASE ReadKV(d, r)
  BY <1>8, MoveStep DEF ReadKV, NoNewSignal
<1>9. CASE ReadFails(d, r)
  BY <1>9, MoveStep DEF ReadFails, NoNewSignal
<1>10. CASE CountDone(d, r)
  BY <1>10, CountDoneKeeps
<1>11. CASE SendDone(d, r)
  BY <1>11, SendDoneKeeps
<1>12. CASE SendDoneFails(d, r)
  BY <1>12, MoveStep DEF SendDoneFails, NoNewSignal
<1>13. CASE RecvAck(d, r)
  <2>1. NoNewSignal
    BY <1>1, <1>13 DEF RecvAck, NoNewSignal, Ready
  <2> QED
    BY <1>13, <2>1, MoveStep DEF RecvAck
<1>14. CASE AckTimeout(d, r)
  BY <1>14, MoveStep DEF AckTimeout, NoNewSignal
<1> QED
  BY <1>2, <1>3, <1>4, <1>5, <1>6, <1>7, <1>8, <1>9, <1>10, <1>11, <1>12, <1>13, <1>14
     DEF Handle

(* The initial state satisfies the invariant. *)
LEMMA InitKeeps == Init => IInv
<1> SUFFICES ASSUME Init PROVE IInv
  OBVIOUS
<1>1. TypeOK
  BY DEF Init, TypeOK, PStates, DStates, Stage, Conv, ConvState, Ready, NewTracker, Trackers
<1>2. \A r \in Req : \A d \in DRank : ~SignalOnSocket(r, d)
  BY DEF Init, SignalOnSocket, Ready
<1>3. ParamsInv /\ QueueInv
  BY DEF Init, ParamsInv, QueueInv
<1>4. SentInv /\ FinishedInv /\ ReportInv /\ SignalInOnePlace /\ RecvInv
  BY <1>2 DEF Init, SentInv, FinishedInv, ReportInv, SignalInOnePlace, RecvInv, NewTracker
<1>5. SocketInv
  BY DEF Init, SocketInv, Ready
<1> QED
  BY <1>1, <1>3, <1>4, <1>5 DEF IInv

(* Every step of every actor keeps the invariant. *)
LEMMA Inductive == IInv /\ [Next]_vars => IInv'
<1> SUFFICES ASSUME IInv, [Next]_vars PROVE IInv'
  OBVIOUS
<1>1. TypeOK'
  BY TypeStep DEF IInv
<1>2. CASE PrefillStep
  BY <1>1, <1>2, PrefillKeeps
<1>3. ASSUME NEW p \in PRank, NEW d \in DRank, SendMeta(p, d) PROVE IInv'
  <2>1. NoNewSignal
    BY <1>3 DEF SendMeta, NoNewSignal, IInv, TypeOK
  <2> QED
    BY <1>1, <1>3, <2>1, SocketStep DEF SendMeta
<1>4. ASSUME NEW p \in PRank, NEW d \in DRank, SendAck(p, d) PROVE IInv'
  BY <1>1, <1>4, SendAckKeeps
<1>5. ASSUME NEW r \in Req, NEW d \in DRank, SendListen(r, d) PROVE IInv'
  BY <1>1, <1>5, SendListenKeeps
<1>6. CASE DecodeStep
  BY <1>1, <1>6, DecodeKeeps
<1>7. ASSUME NEW d \in DRank, Dequeue(d) PROVE IInv'
  BY <1>1, <1>7, DequeueKeeps
<1>8. ASSUME NEW d \in DRank, NEW r \in Req, Handle(d, r) PROVE IInv'
  BY <1>1, <1>8, HandleKeeps
<1>9. ASSUME NEW r \in Req, NEW d \in DRank, RecvListen(r, d) PROVE IInv'
  BY <1>1, <1>9, RecvListenKeeps
<1>10. ASSUME NEW d \in DRank, NEW p \in PRank, Lose(d, p) PROVE IInv'
  <2>1. NoNewSignal
    BY <1>10 DEF Lose, NoNewSignal, IInv, TypeOK
  <2> QED
    BY <1>1, <1>10, <2>1, SocketStep DEF Lose
<1>11. CASE UNCHANGED vars
  <2>1. NoNewSignal /\ UNCHANGED <<prefillVars, schedVars, trackVars, queue, stage>>
    BY <1>11 DEF NoNewSignal, vars, threadVars
  <2> QED
    BY <1>1, <2>1, SocketStep
<1> QED
  BY <1>2, <1>3, <1>4, <1>5, <1>6, <1>7, <1>8, <1>9, <1>10, <1>11
     DEF Next, SendThread, SendListener, RecvThread, RecvListener, LoseStep, Terminated

(* What the invariant says about the properties the model checker runs. *)
LEMMA InvImplies ==
  IInv => HeldUntilPulled /\ ReportedWhileHeld /\ ReceivedByAllRanks
<1> SUFFICES ASSUME IInv PROVE HeldUntilPulled /\ ReportedWhileHeld /\ ReceivedByAllRanks
  OBVIOUS
<1>1. HeldUntilPulled
  BY DEF IInv, HeldUntilPulled, ParamsInv, FinishedInv, Sent
<1>2. ReportedWhileHeld
  BY DEF IInv, ReportInv, ReportedWhileHeld
<1>3. ReceivedByAllRanks
  BY DEF IInv, TypeOK, Trackers, RecvInv, Counted, ReceivedByAllRanks
<1> QED
  BY <1>1, <1>2, <1>3

(* The invariant holds in every reachable state. *)
LEMMA Invariant == Spec => []IInv
BY InitKeeps, Inductive, PTL DEF Spec

-----------------------------------------------------------------------------
(* The theorems. *)

(* Every variable keeps its type: no thread reads a tracker, a socket or a *)
(* queue that holds something the code does not expect.                    *)
THEOREM TypeCorrect == Spec => []TypeOK
<1>1. IInv => TypeOK
  BY DEF IInv
<1> QED
  BY <1>1, Invariant, PTL

(* The prefill engine holds the blocks of a request as long as any decode  *)
(* rank may still read them, whatever is lost, late or aborted.            *)
THEOREM BlocksHeld == Spec => []HeldUntilPulled
BY InvImplies, Invariant, PTL

(* finished_sending only ever names requests the prefill scheduler holds. *)
THEOREM ReportsAreValid == Spec => []ReportedWhileHeld
BY InvImplies, Invariant, PTL

(* Every done signal is in one place, and in none once its request is     *)
(* reported: a late signal can not reopen the count of a freed request.    *)
THEOREM SignalsAreUnique == Spec => []SignalInOnePlace
<1>1. IInv => SignalInOnePlace
  BY DEF IInv
<1> QED
  BY <1>1, Invariant, PTL

(* The decode engine hears of a request only when all its ranks are done. *)
THEOREM ReportsAreComplete == Spec => []ReceivedByAllRanks
BY InvImplies, Invariant, PTL

-----------------------------------------------------------------------------
(* Whose KV cache a request runs on.  An aborted request gives its slot    *)
(* back while the threads may still have to read into it, and the next     *)
(* owner's transfer is queued with the same slot.  What saves the owner is *)
(* the order of each thread's queue: the earlier transfer is over on a     *)
(* rank before the owner's begins there, and that one overwrites the slot. *)
Pulling == {"queued", "transfer", "wait_meta", "read"}
Served  == {"waiting_kvs", "running"}

(* A request that waits or runs owns the slot it was queued with. *)
SlotOf(r) == dReq[r] \in Served /\ dst[r] # None => owner[dst[r]] = r

(* Once a rank is past reading, the slot holds the owner's KV cache. *)
PullOf(r, d) ==
  /\ dst[r] # None => stage[d][r] # "none"
  /\ stage[d][r] \in {"wait_meta", "read"} => dst[r] # None
  /\ dReq[r] \in Served /\ dst[r] # None /\ stage[d][r] \in Through =>
       kv[d][dst[r]] = r \/ <<r, d>> \in failed
  /\ dReq[r] = "running" /\ dst[r] # None => stage[d][r] \in Counted

(* A request marked as queued is in the queue. *)
WaitsOf(r, d) ==
  stage[d][r] = "queued" => \E i \in 1 .. Len(queue[d]) : queue[d][i] = r

Precedes(q, r, d) ==
  \A i, j \in 1 .. Len(queue[d]) : queue[d][i] = q /\ queue[d][j] = r => i < j

(* Another request with the slot of r is through, or r is behind it. *)
AheadOf(q, r, d) ==
  q # r /\ dReq[r] \in Served /\ dst[r] # None /\ dst[q] = dst[r] =>
    \/ stage[d][q] \in Through
    \/ stage[d][r] = "queued" /\ (stage[d][q] = "queued" => Precedes(q, r, d))

SlotInv == \A r \in Req :
  /\ SlotOf(r)
  /\ \A d \in DRank : /\ PullOf(r, d) /\ WaitsOf(r, d)
                       /\ \A q \in Req : AheadOf(q, r, d)

(* The work of a thread on a request keeps the order of the transfers. *)
LEMMA AheadKeeps ==
  ASSUME TypeOK, SlotInv, NEW d \in DRank, NEW r \in Req, NEW to,
         stage' = [stage EXCEPT ![d][r] = to], stage[d][r] \in Active, to # "queued",
         stage[d][r] \in Through => to \in Through, UNCHANGED <<dReq, dst, queue>>
  PROVE  \A p \in Req : \A e \in DRank : WaitsOf(p, e)' /\ \A q \in Req : AheadOf(q, p, e)'
<1>1. \A e \in DRank : \A q \in Req :
        stage'[e][q] = IF e = d /\ q = r THEN to ELSE stage[e][q]
  BY DEF TypeOK
<1>2. stage[d][r] # "queued"
  BY DEF Active
<1>3. ASSUME NEW p \in Req, NEW e \in DRank PROVE WaitsOf(p, e)'
  <2>1. WaitsOf(p, e)
    BY DEF SlotInv
  <2> QED
    BY <1>1, <2>1 DEF WaitsOf
<1>4. ASSUME NEW p \in Req, NEW e \in DRank, NEW q \in Req PROVE AheadOf(q, p, e)'
  <2>1. AheadOf(q, p, e)
    BY DEF SlotInv
  <2>2. Precedes(q, p, e)' <=> Precedes(q, p, e)
    BY DEF Precedes
  <2>3. CASE e # d \/ r \notin {p, q}
    <3>1. stage'[e][q] = stage[e][q] /\ stage'[e][p] = stage[e][p]
      BY <2>3, <1>1
    <3> QED
      BY <2>1, <2>2, <3>1 DEF AheadOf
  <2>4. CASE e = d /\ q = r /\ p # r
    <3>1. stage'[e][q] = to /\ stage'[e][p] = stage[e][p]
      BY <2>4, <1>1
    <3> QED
      BY <2>1, <2>4, <3>1 DEF AheadOf
  <2>5. CASE e = d /\ p = r /\ q # r
    <3>1. stage'[e][q] = stage[e][q]
      BY <2>5, <1>1
    <3> QED
      BY <2>1, <2>5, <3>1, <1>2 DEF AheadOf
  <2>6. CASE p = r /\ q = r
    BY <2>6 DEF AheadOf
  <2> QED
    BY <2>3, <2>4, <2>5, <2>6
<1> QED
  BY <1>3, <1>4

(* A thread goes on with a request, and the scheduler and the blocks stay: *)
(* when it gives up reading, it has logged the error or had nothing to     *)
(* read.                                                                   *)
GoesOn(d, r, to) ==
  /\ stage' = [stage EXCEPT ![d][r] = to]
  /\ stage[d][r] \in Active
  /\ \/ stage[d][r] \in Pulling /\ to \in Pulling \ {"queued"}
     \/ /\ stage[d][r] \in Pulling /\ to \in Through
        /\ dst[r] = None \/ <<r, d>> \in failed'
     \/ stage[d][r] \in Through /\ to \in Counted
  /\ to \in {"wait_meta", "read"} => dst[r] # None
  /\ failed \subseteq failed'
  /\ UNCHANGED <<dReq, owner, dst, kv, queue>>

(* Such a step keeps the slots. *)
LEMMA GoesOnKeeps ==
  ASSUME TypeOK, SlotInv, NEW d \in DRank, NEW r \in Req, NEW to, GoesOn(d, r, to)
  PROVE  SlotInv'
<1>1. \A e \in DRank : \A q \in Req :
        stage'[e][q] = IF e = d /\ q = r THEN to ELSE stage[e][q]
  BY DEF GoesOn, TypeOK
<1>2. UNCHANGED <<dReq, owner, dst, kv, queue>> /\ failed \subseteq failed'
  BY DEF GoesOn
<1>3. \A q \in Req : SlotOf(q)'
  BY <1>2 DEF SlotInv, SlotOf
<1>4. ASSUME NEW q \in Req, NEW e \in DRank PROVE PullOf(q, e)'
  <2>1. PullOf(q, e)
    BY DEF SlotInv
  <2>2. CASE q = r /\ e = d
    <3>1. stage'[d][r] = to
      BY <1>1
    <3>2. CASE stage[d][r] \in Pulling /\ to \in Pulling
      BY <2>1, <2>2, <3>1, <3>2, <1>2 DEF PullOf, GoesOn, Pulling, Through, Counted
    <3>3. CASE stage[d][r] \in Pulling /\ to \in Through /\ (dst[r] = None \/ <<r, d>> \in failed')
      BY <2>1, <2>2, <3>1, <3>3, <1>2 DEF PullOf, GoesOn, Pulling, Through, Counted
    <3>4. CASE stage[d][r] \in Through /\ to \in Counted
      BY <2>1, <2>2, <3>1, <3>4, <1>2 DEF PullOf, GoesOn, Pulling, Through, Counted
    <3> QED
      BY <3>2, <3>3, <3>4 DEF GoesOn
  <2>3. CASE ~(q = r /\ e = d)
    <3>1. stage'[e][q] = stage[e][q]
      BY <2>3, <1>1
    <3> QED
      BY <2>1, <3>1, <1>2 DEF PullOf
  <2> QED
    BY <2>2, <2>3
<1>5. to # "queued" /\ (stage[d][r] \in Through => to \in Through)
  BY DEF GoesOn, Pulling, Through, Counted
<1>6. \A p \in Req : \A e \in DRank : WaitsOf(p, e)' /\ \A q \in Req : AheadOf(q, p, e)'
  BY <1>5, AheadKeeps DEF GoesOn
<1> QED
  BY <1>3, <1>4, <1>6 DEF SlotInv

(* The read fills the slot of its request.  If the request was aborted and *)
(* the slot has a new owner, this rank has not begun the owner's transfer. *)
LEMMA ReadKeeps ==
  ASSUME IInv, SlotInv, NEW d \in DRank, NEW r \in Req, NEW v,
         stage[d][r] = "read", stage' = [stage EXCEPT ![d][r] = "count"],
         kv' = [kv EXCEPT ![d][dst[r]] = v], v = r \/ <<r, d>> \in failed',
         failed \subseteq failed', UNCHANGED <<dReq, owner, dst, queue>>
  PROVE  SlotInv'
<1> USE DEF IInv
<1>1. \A e \in DRank : \A q \in Req :
        stage'[e][q] = IF e = d /\ q = r THEN "count" ELSE stage[e][q]
  BY DEF TypeOK
<1>2. PullOf(r, d)
  BY DEF SlotInv
<1>3. dst[r] # None /\ dst[r] \in Slot
  BY <1>2 DEF PullOf, TypeOK
<1>4. \A e \in DRank : \A s \in Slot : kv'[e][s] = IF e = d /\ s = dst[r] THEN v ELSE kv[e][s]
  BY <1>3 DEF TypeOK
<1>5. \A q \in Req : SlotOf(q)'
  BY DEF SlotInv, SlotOf
<1>6. ASSUME NEW q \in Req, NEW e \in DRank PROVE PullOf(q, e)'
  <2>1. PullOf(q, e) /\ AheadOf(r, q, e)
    BY DEF SlotInv
  <2>2. CASE q = r /\ e = d
    <3>1. stage[d][r] # "none" /\ dReq[r] # "running"
      BY <1>2, <1>3 DEF PullOf, Counted
    <3>2. kv'[d][dst[r]] = v /\ stage'[d][r] = "count"
      BY <1>1, <1>3, <1>4
    <3> QED
      BY <2>2, <3>1, <3>2, <1>3 DEF PullOf
  <2>3. CASE ~(q = r /\ e = d) /\ ~(e = d /\ dst[q] = dst[r])
    <3>1. stage'[e][q] = stage[e][q]
      BY <2>3, <1>1
    <3>2. dst[q] # None => kv'[e][dst[q]] = kv[e][dst[q]]
      BY <2>3, <1>4 DEF TypeOK
    <3> QED
      BY <2>1, <3>1, <3>2 DEF PullOf
  <2>4. CASE q # r /\ e = d /\ dst[q] = dst[r]
    <3>1. stage'[e][q] = stage[e][q]
      BY <2>4, <1>1
    <3>2. dReq[q] \in Served => stage[e][q] = "queued"
      BY <2>1, <2>4, <1>3 DEF AheadOf, Through
    <3> QED
      BY <2>1, <3>1, <3>2 DEF PullOf, Through
  <2> QED
    BY <2>2, <2>3, <2>4
<1>7. \A p \in Req : \A e \in DRank : WaitsOf(p, e)' /\ \A q \in Req : AheadOf(q, p, e)'
  BY AheadKeeps DEF Active, Stage, Through
<1> QED
  BY <1>5, <1>6, <1>7 DEF SlotInv

(* The decode scheduler gives a free slot to a request. *)
LEMMA ScheduleKeepsSlots ==
  ASSUME IInv, SlotInv, NEW r \in Req, NEW s \in Slot, DSchedule(r, s)
  PROVE  SlotInv'
<1> USE DEF IInv
<1>1. /\ dReq[r] = "absent" /\ owner[s] = None /\ owner' = [owner EXCEPT ![s] = r]
      /\ dReq' = [dReq EXCEPT ![r] = IF r \in TinyReq THEN "running" ELSE "waiting_kvs"]
      /\ dst' = [dst EXCEPT ![r] = IF r \in TinyReq THEN None ELSE s]
      /\ stage' = [d \in DRank |-> [stage[d] EXCEPT ![r] = "queued"]]
      /\ UNCHANGED <<kv, failed>>
  BY DEF DSchedule
<1>2. /\ \A e \in DRank : \A q \in Req : stage'[e][q] = IF q = r THEN "queued" ELSE stage[e][q]
      /\ \A q \in Req \ {r} : dReq'[q] = dReq[q] /\ dst'[q] = dst[q]
      /\ dReq'[r] = IF r \in TinyReq THEN "running" ELSE "waiting_kvs"
      /\ dst'[r] = IF r \in TinyReq THEN None ELSE s
      /\ \A t \in Slot : owner'[t] = IF t = s THEN r ELSE owner[t]
  BY <1>1 DEF TypeOK
<1>3. ASSUME NEW q \in Req PROVE SlotOf(q)'
  <2>1. CASE q = r
    BY <2>1, <1>2, NameAssumption DEF SlotOf
  <2>2. CASE q # r
    <3>1. SlotOf(q) /\ (dst[q] # None => dst[q] \in Slot)
      BY DEF SlotInv, TypeOK
    <3>2. q # None
      BY NameAssumption
    <3> QED
      BY <2>2, <3>1, <3>2, <1>1, <1>2 DEF SlotOf
  <2> QED
    BY <2>1, <2>2
<1>4. ASSUME NEW q \in Req, NEW e \in DRank PROVE PullOf(q, e)'
  <2>1. CASE q = r
    BY <2>1, <1>2, NameAssumption DEF PullOf, Pulling, Through, Counted
  <2>2. CASE q # r
    <3>1. PullOf(q, e)
      BY DEF SlotInv
    <3> QED
      BY <2>2, <3>1, <1>1, <1>2 DEF PullOf
  <2> QED
    BY <2>1, <2>2
<1>5. ASSUME NEW e \in DRank
      PROVE  /\ Len(queue[e]) \in Nat
             /\ Len(queue'[e]) = Len(queue[e]) + 1
             /\ \A i \in 1 .. Len(queue[e]) : queue'[e][i] = queue[e][i] /\ queue[e][i] # r
             /\ queue'[e][Len(queue[e]) + 1] = r
  <2>1. queue'[e] = Append(queue[e], r) /\ queue[e] \in Seq(Req)
    BY DEF DSchedule, TypeOK
  <2>2. stage[e][r] = "none"
    BY <1>1 DEF ParamsInv
  <2>3. \A i \in 1 .. Len(queue[e]) : queue[e][i] # r
    BY <2>2 DEF QueueInv
  <2> QED
    BY <2>1, <2>3, AppendProperties, LenProperties
<1>6. ASSUME NEW q \in Req, NEW e \in DRank PROVE WaitsOf(q, e)'
  <2>1. WaitsOf(q, e)
    BY DEF SlotInv
  <2>2. \A i \in 1 .. Len(queue[e]) : i \in 1 .. Len(queue'[e])
    BY <1>5
  <2>3. CASE q = r
    <3>1. Len(queue[e]) + 1 \in 1 .. Len(queue'[e]) /\ queue'[e][Len(queue[e]) + 1] = q
      BY <1>5, <2>3
    <3> QED
      BY <3>1 DEF WaitsOf
  <2>4. CASE q # r
    BY <2>1, <2>2, <2>4, <1>2, <1>5, Zenon DEF WaitsOf
  <2> QED
    BY <2>3, <2>4
<1>7. ASSUME NEW p \in Req, NEW q \in Req, NEW e \in DRank PROVE AheadOf(q, p, e)'
  <2>1. AheadOf(q, p, e)
    BY DEF SlotInv
  <2>2. CASE p = q
    BY <2>2 DEF AheadOf
  <2>3. CASE p = r /\ q # r
    <3>1. Precedes(q, p, e)'
      BY <2>3, <1>5 DEF Precedes
    <3>2. stage'[e][p] = "queued"
      BY <2>3, <1>2
    <3> QED
      BY <3>1, <3>2 DEF AheadOf
  <2>4. CASE q = r /\ p # r
    <3> SUFFICES ASSUME dReq'[p] \in Served, dst'[p] # None, dst'[q] = dst'[p] PROVE FALSE
      BY DEF AheadOf
    <3>1. dReq[p] \in Served /\ dst[p] = s
      BY <2>4, <1>2
    <3>2. SlotOf(p) /\ p # None /\ dst[p] # None
      BY <2>4, <1>2, NameAssumption DEF SlotInv
    <3> QED
      BY <3>1, <3>2, <1>1 DEF SlotOf
  <2>5. CASE p # r /\ q # r
    <3>1. /\ stage'[e][p] = stage[e][p] /\ stage'[e][q] = stage[e][q] /\ dReq'[p] = dReq[p]
          /\ dst'[p] = dst[p] /\ dst'[q] = dst[q]
      BY <2>5, <1>2
    <3>2. ASSUME Precedes(q, p, e) PROVE Precedes(q, p, e)'
      <4> SUFFICES ASSUME NEW i \in 1 .. Len(queue'[e]), NEW j \in 1 .. Len(queue'[e]),
                          queue'[e][i] = q, queue'[e][j] = p
                   PROVE  i < j
        BY DEF Precedes
      <4>1. i # Len(queue[e]) + 1 /\ j # Len(queue[e]) + 1
        BY <2>5, <1>5
      <4>2. i \in 1 .. Len(queue[e]) /\ j \in 1 .. Len(queue[e])
        BY <4>1, <1>5
      <4>3. queue[e][i] = q /\ queue[e][j] = p
        BY <4>2, <1>5
      <4> QED
        BY <3>2, <4>2, <4>3 DEF Precedes
    <3> QED
      BY <2>1, <3>1, <3>2 DEF AheadOf
  <2> QED
    BY <2>2, <2>3, <2>4, <2>5
<1> QED
  BY <1>3, <1>4, <1>6, <1>7 DEF SlotInv

(* A request is resumed when every rank has counted it. *)
LEMMA ResumeKeepsSlots ==
  ASSUME IInv, SlotInv, NEW r \in Req, DResume(r)
  PROVE  SlotInv'
<1> USE DEF IInv
<1>1. /\ dReq[r] = "waiting_kvs" /\ r \in finishedRecving
      /\ dReq' = [dReq EXCEPT ![r] = "running"]
      /\ UNCHANGED <<owner, dst, stage, kv, failed, queue>>
  BY DEF DResume, threadVars
<1>2. dReq'[r] = "running" /\ \A q \in Req \ {r} : dReq'[q] = dReq[q]
  BY <1>1 DEF TypeOK
<1>3. \A d \in DRank : stage[d][r] \in Counted
  BY <1>1 DEF RecvInv
<1>4. \A q \in Req : SlotOf(q)'
  BY <1>1, <1>2 DEF SlotInv, SlotOf, Served
<1>5. ASSUME NEW q \in Req, NEW e \in DRank PROVE PullOf(q, e)'
  <2>1. PullOf(q, e)
    BY DEF SlotInv
  <2>2. CASE q = r
    BY <2>1, <2>2, <1>1, <1>2, <1>3 DEF PullOf, Served, Pulling, Through, Counted
  <2>3. CASE q # r
    BY <2>1, <2>3, <1>1, <1>2 DEF PullOf
  <2> QED
    BY <2>2, <2>3
<1>6. ASSUME NEW p \in Req, NEW e \in DRank
      PROVE  WaitsOf(p, e)' /\ \A q \in Req : AheadOf(q, p, e)'
  <2>1. WaitsOf(p, e) /\ \A q \in Req : AheadOf(q, p, e)
    BY DEF SlotInv
  <2>2. dReq'[p] \in Served => dReq[p] \in Served
    BY <1>1, <1>2 DEF Served
  <2> QED
    BY <1>1, <2>1, <2>2 DEF WaitsOf, AheadOf, Precedes
<1> QED
  BY <1>4, <1>5, <1>6 DEF SlotInv

(* A request ends or is aborted, and its slot is free, read or not. *)
LEMMA FreeKeepsSlots ==
  ASSUME IInv, SlotInv, NEW r \in Req, DFree(r)
  PROVE  SlotInv'
<1> USE DEF IInv
<1>1. /\ dReq' = [dReq EXCEPT ![r] = "finished"]
      /\ owner' = [s \in Slot |-> IF owner[s] = r THEN None ELSE owner[s]]
      /\ UNCHANGED <<dst, stage, kv, failed, queue>>
  BY DEF DFree, threadVars
<1>2. dReq'[r] = "finished" /\ \A q \in Req \ {r} : dReq'[q] = dReq[q]
  BY <1>1 DEF TypeOK
<1>3. ASSUME NEW q \in Req PROVE SlotOf(q)'
  <2>1. SlotOf(q) /\ (dst[q] # None => dst[q] \in Slot)
    BY DEF SlotInv, TypeOK
  <2>2. CASE q = r
    BY <2>2, <1>2 DEF SlotOf, Served
  <2>3. CASE q # r
    BY <2>1, <2>3, <1>1, <1>2 DEF SlotOf
  <2> QED
    BY <2>2, <2>3
<1>4. ASSUME NEW q \in Req, NEW e \in DRank PROVE PullOf(q, e)'
  <2>1. PullOf(q, e)
    BY DEF SlotInv
  <2>2. CASE q = r
    BY <2>1, <2>2, <1>1, <1>2 DEF PullOf, Served, Pulling, Through, Counted
  <2>3. CASE q # r
    BY <2>1, <2>3, <1>1, <1>2 DEF PullOf
  <2> QED
    BY <2>2, <2>3
<1>5. ASSUME NEW p \in Req, NEW e \in DRank
      PROVE  WaitsOf(p, e)' /\ \A q \in Req : AheadOf(q, p, e)'
  <2>1. WaitsOf(p, e) /\ \A q \in Req : AheadOf(q, p, e)
    BY DEF SlotInv
  <2>2. dReq'[p] \in Served => dReq[p] \in Served
    BY <1>2 DEF Served
  <2> QED
    BY <1>1, <2>1, <2>2 DEF WaitsOf, AheadOf, Precedes
<1> QED
  BY <1>3, <1>4, <1>5 DEF SlotInv

(* What a thread does with a request keeps the slots. *)
LEMMA HandleKeepsSlots ==
  ASSUME IInv, SlotInv, NEW d \in DRank, NEW r \in Req, Handle(d, r)
  PROVE  SlotInv'
<1> USE DEF Move, schedVars, Active, Stage
<1>1. TypeOK
  BY DEF IInv
<1>2. CASE ReadKV(d, r)
  <2>1. pReq[r] = "delayed"
    BY <1>2, InvImplies DEF ReadKV, HeldUntilPulled
  <2> QED
    BY <1>2, <2>1, ReadKeeps DEF ReadKV
<1>3. CASE ReadFails(d, r)
  BY <1>3, ReadKeeps DEF ReadFails
<1>4. CASE SkipTransfer(d, r)
  <2>1. GoesOn(d, r, "count")
    BY <1>4 DEF SkipTransfer, GoesOn, Pulling, Through
  <2> QED
    BY <1>1, <2>1, GoesOnKeeps
<1>5. CASE UseCachedMeta(d, r)
  <2>1. GoesOn(d, r, "read")
    BY <1>5 DEF UseCachedMeta, GoesOn, Pulling
  <2> QED
    BY <1>1, <2>1, GoesOnKeeps
<1>6. CASE GetMeta(d, r)
  <2>1. GoesOn(d, r, "wait_meta")
    BY <1>6 DEF GetMeta, GoesOn, Pulling
  <2> QED
    BY <1>1, <2>1, GoesOnKeeps
<1>7. CASE GetMetaFails(d, r)
  <2>1. GoesOn(d, r, "count")
    BY <1>7 DEF GetMetaFails, GoesOn, Pulling, Through
  <2> QED
    BY <1>1, <2>1, GoesOnKeeps
<1>8. CASE RecvMeta(d, r)
  <2>1. PullOf(r, d)
    BY DEF SlotInv
  <2>2. GoesOn(d, r, "read")
    BY <1>8, <2>1 DEF RecvMeta, GoesOn, Pulling, PullOf
  <2> QED
    BY <1>1, <2>2, GoesOnKeeps
<1>9. CASE MetaTimeout(d, r)
  <2>1. GoesOn(d, r, "count")
    BY <1>9 DEF MetaTimeout, GoesOn, Pulling, Through
  <2> QED
    BY <1>1, <2>1, GoesOnKeeps
<1>10. CASE CountDone(d, r)
  <2>1. GoesOn(d, r, "send_done")
    BY <1>10 DEF CountDone, GoesOn, Through, Counted
  <2> QED
    BY <1>1, <2>1, GoesOnKeeps
<1>11. CASE SendDone(d, r)
  <2>1. GoesOn(d, r, "wait_ack")
    BY <1>11 DEF SendDone, GoesOn, Through, Counted
  <2> QED
    BY <1>1, <2>1, GoesOnKeeps
<1>12. CASE SendDoneFails(d, r) \/ RecvAck(d, r) \/ AckTimeout(d, r)
  <2>1. GoesOn(d, r, "end")
    BY <1>12 DEF SendDoneFails, RecvAck, AckTimeout, GoesOn, Through, Counted
  <2> QED
    BY <1>1, <2>1, GoesOnKeeps
<1> QED
  BY <1>2, <1>3, <1>4, <1>5, <1>6, <1>7, <1>8, <1>9, <1>10, <1>11, <1>12 DEF Handle

(* The thread takes up the first request of its queue: nothing is being    *)
(* read then, so what was ahead of it is through.                          *)
LEMMA DequeueKeepsSlots ==
  ASSUME IInv, SlotInv, NEW d \in DRank, Dequeue(d)
  PROVE  SlotInv'
<1> USE DEF IInv
<1>1. queue[d] \in Seq(Req) /\ queue[d] # <<>>
  BY DEF Dequeue, TypeOK
<1>2. PICK r \in Req : r = Head(queue[d])
  BY <1>1, HeadTailProperties
<1>3. /\ Len(queue[d]) \in Nat \ {0}
      /\ Len(Tail(queue[d])) = Len(queue[d]) - 1
      /\ \A i \in 1 .. Len(queue[d]) - 1 : Tail(queue[d])[i] = queue[d][i + 1]
      /\ Head(queue[d]) = queue[d][1]
  BY <1>1, HeadTailProperties, LenProperties
<1>4. stage[d][r] = "queued" /\ queue[d][1] = r
  BY <1>2, <1>3 DEF QueueInv
<1>5. /\ \A e \in DRank : queue'[e] = IF e = d THEN Tail(queue[d]) ELSE queue[e]
      /\ \A e \in DRank : \A q \in Req :
           stage'[e][q] = IF e = d /\ q = r THEN "transfer" ELSE stage[e][q]
      /\ \A q \in Req : stage[d][q] \notin Active
      /\ UNCHANGED <<dReq, owner, dst, kv, failed>>
  BY <1>2 DEF Dequeue, TypeOK, schedVars
<1>6. \A q \in Req : SlotOf(q)'
  BY <1>5 DEF SlotInv, SlotOf
<1>7. ASSUME NEW q \in Req, NEW e \in DRank PROVE PullOf(q, e)'
  <2>1. PullOf(q, e)
    BY DEF SlotInv
  <2> QED
    BY <2>1, <1>4, <1>5 DEF PullOf, Through, Counted
<1>8. ASSUME NEW q \in Req, NEW e \in DRank PROVE WaitsOf(q, e)'
  <2> SUFFICES ASSUME stage'[e][q] = "queued"
               PROVE  \E i \in 1 .. Len(queue'[e]) : queue'[e][i] = q
    BY DEF WaitsOf
  <2>1. ~(e = d /\ q = r) /\ stage[e][q] = "queued"
    BY <1>5
  <2>2. PICK i \in 1 .. Len(queue[e]) : queue[e][i] = q
    BY <2>1 DEF SlotInv, WaitsOf
  <2>3. CASE e = d
    <3>1. i # 1
      BY <2>1, <2>2, <2>3, <1>4
    <3>2. i - 1 \in 1 .. Len(queue[d]) - 1
      BY <2>3, <3>1, <1>3
    <3>3. Tail(queue[d])[i - 1] = queue[d][(i - 1) + 1] /\ (i - 1) + 1 = i
      BY <3>2, <1>3
    <3> QED
      BY <2>2, <2>3, <3>2, <3>3, <1>3, <1>5
  <2>4. CASE e # d
    BY <2>2, <2>4, <1>5
  <2> QED
    BY <2>3, <2>4
<1>9. ASSUME NEW p \in Req, NEW q \in Req, NEW e \in DRank PROVE AheadOf(q, p, e)'
  <2> SUFFICES ASSUME q # p, dReq[p] \in Served, dst[p] # None, dst[q] = dst[p],
                      stage'[e][q] \notin Through
               PROVE  /\ stage'[e][p] = "queued"
                      /\ stage'[e][q] = "queued" => Precedes(q, p, e)'
    BY <1>5 DEF AheadOf
  <2>1. stage[e][q] \notin Through
    BY <1>4, <1>5 DEF Through
  <2>2. stage[e][p] = "queued" /\ (stage[e][q] = "queued" => Precedes(q, p, e))
    BY <2>1 DEF SlotInv, AheadOf
  <2>3. ~(e = d /\ p = r)
    <3> SUFFICES ASSUME e = d, p = r PROVE FALSE
      OBVIOUS
    <3>1. stage[d][q] = "queued"
      <4>1. stage[d][q] # "none" /\ stage[d][q] \in Stage
        BY DEF SlotInv, PullOf, TypeOK
      <4>2. stage[d][q] # "end"
        BY <2>1 DEF Through
      <4> QED
        BY <4>1, <4>2, <1>5 DEF Active
    <3>2. PICK i \in 1 .. Len(queue[d]) : queue[d][i] = q
      BY <3>1 DEF SlotInv, WaitsOf
    <3>3. i < 1
      BY <2>2, <3>1, <3>2, <1>3, <1>4 DEF Precedes
    <3> QED
      BY <3>3, <1>3
  <2>4. stage'[e][p] = "queued"
    BY <2>2, <2>3, <1>5
  <2>5. ASSUME stage'[e][q] = "queued" PROVE Precedes(q, p, e)'
    <3>1. Precedes(q, p, e)
      BY <2>2, <2>5, <1>5
    <3>2. CASE e # d
      <4>1. queue'[e] = queue[e]
        BY <3>2, <1>5
      <4> QED
        BY <3>1, <4>1 DEF Precedes
    <3>3. CASE e = d
      <4> SUFFICES ASSUME NEW i \in 1 .. Len(queue'[d]), NEW j \in 1 .. Len(queue'[d]),
                          queue'[d][i] = q, queue'[d][j] = p
                   PROVE  i < j
        BY <3>3 DEF Precedes
      <4>1. queue'[d] = Tail(queue[d])
        BY <1>5
      <4>2. i \in 1 .. Len(queue[d]) - 1 /\ j \in 1 .. Len(queue[d]) - 1
        BY <4>1, <1>3
      <4>3. queue[d][i + 1] = q /\ queue[d][j + 1] = p
        BY <4>1, <4>2, <1>3
      <4>4. i + 1 \in 1 .. Len(queue[d]) /\ j + 1 \in 1 .. Len(queue[d])
        BY <4>2, <1>3
      <4>5. i + 1 < j + 1
        BY <3>1, <3>3, <4>3, <4>4 DEF Precedes
      <4> QED
        BY <4>2, <4>5
    <3> QED
      BY <3>2, <3>3
  <2> QED
    BY <2>4, <2>5
<1> QED
  BY <1>6, <1>7, <1>8, <1>9 DEF SlotInv

(* Every step keeps them. *)
LEMMA SlotStep ==
  ASSUME IInv, SlotInv, [Next]_vars
  PROVE  SlotInv'
<1>1. ASSUME UNCHANGED <<dReq, owner, dst, stage, kv, failed, queue>> PROVE SlotInv'
  BY <1>1 DEF SlotInv, SlotOf, PullOf, WaitsOf, AheadOf, Precedes
<1>2. CASE PrefillStep
  BY <1>1, <1>2 DEF PrefillStep, PReport, PFinish, PStop, schedVars, threadVars
<1>3. ASSUME NEW p \in PRank, SendThread(p) PROVE SlotInv'
  BY <1>1, <1>3 DEF SendThread, SendMeta, SendAck, schedVars
<1>4. CASE SendListener \/ RecvListener
  BY <1>1, <1>4 DEF SendListener, SendListen, RecvListener, RecvListen, schedVars, threadVars
<1>5. CASE DecodeStep
  <2>1. CASE DReport
    BY <1>1, <2>1 DEF DReport, threadVars
  <2>2. ASSUME NEW r \in Req, DFinish(r) \/ DAbort(r) PROVE SlotInv'
    BY <2>2, FreeKeepsSlots DEF DFinish, DAbort
  <2> QED
    BY <1>5, <2>1, <2>2, ResumeKeepsSlots, ScheduleKeepsSlots DEF DecodeStep
<1>6. ASSUME NEW d \in DRank, Dequeue(d) PROVE SlotInv'
  BY <1>6, DequeueKeepsSlots
<1>7. ASSUME NEW d \in DRank, NEW r \in Req, Handle(d, r) PROVE SlotInv'
  BY <1>7, HandleKeepsSlots
<1>8. CASE LoseStep
  BY <1>1, <1>8 DEF LoseStep, Lose, schedVars
<1>9. CASE UNCHANGED vars
  BY <1>1, <1>9 DEF vars, schedVars, threadVars
<1> QED
  BY <1>2, <1>3, <1>4, <1>5, <1>6, <1>7, <1>8, <1>9 DEF Next, RecvThread, Terminated

(* _handle_request and _update_waiting_for_remote_kv: a request that is    *)
(* resumed runs on its own KV cache on every rank, unless an error was     *)
(* logged for it there, whatever is late, lost or fails, and whoever was   *)
(* aborted while its KV cache was pulled into the same blocks.             *)
THEOREM OwnKV == Spec => []RunsOnOwnKV
<1>1. Init => SlotInv
  BY DEF Init, SlotInv, SlotOf, PullOf, WaitsOf, AheadOf, Served
<1>2. IInv /\ SlotInv /\ [Next]_vars => SlotInv'
  BY SlotStep
<1>3. SlotInv => RunsOnOwnKV
  BY DEF SlotInv, PullOf, RunsOnOwnKV, Served, Counted, Through
<1> QED
  BY <1>1, <1>2, <1>3, Invariant, PTL DEF Spec

-----------------------------------------------------------------------------
(* The refinement of KVHandoff. *)

(* The hand-off state of a step that leaves the prefill scheduler alone    *)
(* and brings no rank through.                                             *)
LEMMA HandoffStutters ==
  ASSUME UNCHANGED pReq,
         \A r \in Req : \A d \in DRank : stage'[d][r] \in Through <=> stage[d][r] \in Through
  PROVE  UNCHANGED Handoff!hvars
<1>1. Blocks' = Blocks
  BY DEF Blocks
<1>2. Pulled' = Pulled
  BY DEF Pulled
<1> QED
  BY <1>1, <1>2 DEF Handoff!hvars

(* A rank that comes through while the blocks are held is a Pull. *)
LEMMA HandoffPull ==
  ASSUME TypeOK, NEW d \in DRank, NEW r \in Req,
         pReq[r] = "delayed", stage[d][r] \notin Through,
         stage' = [stage EXCEPT ![d][r] = "count"], UNCHANGED pReq
  PROVE  Handoff!Pull(r, d)
<1>1. Blocks' = Blocks /\ Blocks[r] = "held"
  BY DEF Blocks
<1>2. \A q \in Req : \A e \in DRank :
        stage'[e][q] = IF e = d /\ q = r THEN "count" ELSE stage[e][q]
  BY DEF TypeOK
<1>3. d \notin Pulled[r]
  BY DEF Pulled
<1>4. Pulled' = [Pulled EXCEPT ![r] = @ \cup {d}]
  <2>1. \A q \in Req : Pulled'[q] = IF q = r THEN Pulled[r] \cup {d} ELSE Pulled[q]
    BY <1>2 DEF Pulled, Through
  <2> QED
    BY <2>1 DEF Pulled
<1> QED
  BY <1>1, <1>3, <1>4 DEF Handoff!Pull

(* A step of the receiving thread is a Pull of KVHandoff or a stutter. *)
LEMMA HandleRefines ==
  ASSUME IInv, NEW d \in DRank, NEW r \in Req, Handle(d, r)
  PROVE  [Handoff!HNext]_(Handoff!hvars)
<1>1. UNCHANGED pReq
  BY DEF Handle, SkipTransfer, UseCachedMeta, GetMeta, GetMetaFails, RecvMeta, MetaTimeout,
         ReadKV, ReadFails, CountDone, SendDone, SendDoneFails, RecvAck, AckTimeout, prefillVars
<1>2. CASE SkipTransfer(d, r) \/ GetMetaFails(d, r) \/ MetaTimeout(d, r)
           \/ ReadKV(d, r) \/ ReadFails(d, r)
  <2>1. /\ stage[d][r] \in {"transfer", "wait_meta", "read"}
        /\ stage' = [stage EXCEPT ![d][r] = "count"]
    BY <1>2 DEF SkipTransfer, GetMetaFails, MetaTimeout, ReadKV, ReadFails, Move
  <2>2. pReq[r] = "delayed"
    BY <2>1, InvImplies DEF HeldUntilPulled
  <2>3. Handoff!Pull(r, d)
    BY <1>1, <2>1, <2>2, HandoffPull DEF IInv, Through
  <2> QED
    BY <2>3 DEF Handoff!HNext
<1>3. CASE UseCachedMeta(d, r) \/ GetMeta(d, r) \/ RecvMeta(d, r) \/ CountDone(d, r)
           \/ SendDone(d, r) \/ SendDoneFails(d, r) \/ RecvAck(d, r) \/ AckTimeout(d, r)
  <2>1. PICK to \in Stage : /\ stage' = [stage EXCEPT ![d][r] = to]
                            /\ to \in Through <=> stage[d][r] \in Through
    BY <1>3 DEF UseCachedMeta, GetMeta, RecvMeta, CountDone, SendDone, SendDoneFails,
                RecvAck, AckTimeout, Move, Stage, Through
  <2>2. \A q \in Req : \A e \in DRank : stage'[e][q] \in Through <=> stage[e][q] \in Through
    BY <2>1 DEF IInv, TypeOK
  <2> QED
    BY <1>1, <2>2, HandoffStutters
<1> QED
  BY <1>2, <1>3 DEF Handle

(* A prefill step is an Offer, Discard or Release, or a stutter. *)
LEMMA PrefillRefines ==
  ASSUME IInv, PrefillStep
  PROVE  [Handoff!HNext]_(Handoff!hvars)
<1>1. Pulled' = Pulled
  BY DEF PrefillStep, PReport, PFinish, PStop, threadVars, Pulled
<1>2. pReq \in [Req -> PStates]
  BY DEF IInv, TypeOK
<1>3. CASE PReport
  <2>1. PICK R \in SUBSET Req : R = sendTracker.finished_requests
    BY DEF IInv, TypeOK, Trackers
  <2>2. \A r \in R : Blocks[r] = "held" /\ Pulled[r] = DRank
    BY <2>1 DEF IInv, ReportInv, FinishedInv, Sent, Through, Blocks, Pulled
  <2>3. Blocks' = [r \in Req |-> IF r \in R THEN "freed" ELSE Blocks[r]]
    <3>1. pReq' = [r \in Req |-> IF r \in R THEN "freed" ELSE pReq[r]]
      BY <1>3, <2>1 DEF PReport
    <3> QED
      BY <1>2, <3>1 DEF Blocks, PStates
  <2>4. Handoff!Release(R)
    BY <1>1, <2>2, <2>3 DEF Handoff!Release
  <2> QED
    BY <2>4 DEF Handoff!HNext
<1>4. ASSUME NEW r \in Req, PFinish(r) PROVE Handoff!Offer(r)
  <2>1. Blocks[r] = "computing" /\ Blocks' = [Blocks EXCEPT ![r] = "held"]
    BY <1>2, <1>4 DEF PFinish, Blocks, PStates
  <2> QED
    BY <1>1, <2>1 DEF Handoff!Offer
<1>5. ASSUME NEW r \in Req, PStop(r) PROVE Handoff!Discard(r)
  <2>1. Blocks[r] = "computing" /\ Blocks' = [Blocks EXCEPT ![r] = "freed"]
    BY <1>2, <1>5 DEF PStop, Blocks, PStates
  <2> QED
    BY <1>1, <2>1 DEF Handoff!Discard
<1> QED
  BY <1>3, <1>4, <1>5 DEF PrefillStep, Handoff!HNext

(* Every step of the connector is a step of the hand-off or leaves it alone. *)
LEMMA StepRefines == IInv /\ [Next]_vars => [Handoff!HNext]_(Handoff!hvars)
<1> SUFFICES ASSUME IInv, [Next]_vars PROVE [Handoff!HNext]_(Handoff!hvars)
  OBVIOUS
<1>1. CASE PrefillStep
  BY <1>1, PrefillRefines
<1>2. ASSUME NEW d \in DRank, NEW r \in Req, Handle(d, r)
      PROVE  [Handoff!HNext]_(Handoff!hvars)
  BY <1>2, HandleRefines
<1>3. ASSUME NEW d \in DRank, Dequeue(d) PROVE UNCHANGED Handoff!hvars
  <2>1. queue[d] \in Seq(Req) /\ queue[d] # << >>
    BY <1>3 DEF Dequeue, IInv, TypeOK
  <2>2. PICK r \in Req : r = Head(queue[d])
    BY <2>1, HeadTailProperties
  <2>3. Head(queue[d]) = queue[d][1] /\ 1 \in 1 .. Len(queue[d])
    BY <2>1, HeadTailProperties, LenProperties
  <2>4. stage[d][r] = "queued" /\ stage' = [stage EXCEPT ![d][r] = "transfer"]
    BY <1>3, <2>2, <2>3 DEF Dequeue, IInv, QueueInv
  <2>5. \A q \in Req : \A e \in DRank : stage'[e][q] \in Through <=> stage[e][q] \in Through
    BY <2>4 DEF IInv, TypeOK, Through
  <2> QED
    BY <1>3, <2>5, HandoffStutters DEF Dequeue, prefillVars
<1>4. ASSUME NEW r \in Req, NEW s \in Slot, DSchedule(r, s) PROVE UNCHANGED Handoff!hvars
  <2>1. \A d \in DRank : stage[d][r] = "none"
    BY <1>4 DEF DSchedule, IInv, ParamsInv
  <2>2. \A q \in Req : \A e \in DRank : stage'[e][q] = IF q = r THEN "queued" ELSE stage[e][q]
    BY <1>4 DEF DSchedule, IInv, TypeOK
  <2>3. \A q \in Req : \A e \in DRank : stage'[e][q] \in Through <=> stage[e][q] \in Through
    BY <2>1, <2>2 DEF Through
  <2> QED
    BY <1>4, <2>3, HandoffStutters DEF DSchedule, prefillVars
<1>5. ASSUME UNCHANGED <<pReq, stage>> PROVE UNCHANGED Handoff!hvars
  BY <1>5, HandoffStutters
<1>6. CASE \E p \in PRank : SendThread(p)
  BY <1>5, <1>6 DEF SendThread, SendMeta, SendAck, prefillVars
<1>7. CASE SendListener \/ RecvListener \/ LoseStep \/ Terminated \/ UNCHANGED vars
  BY <1>5, <1>7 DEF SendListener, SendListen, RecvListener, RecvListen, LoseStep, Lose,
                    Terminated, vars, prefillVars, threadVars
<1>8. CASE DecodeStep
  <2>1. DReport \/ (\E r \in Req : DResume(r) \/ DFinish(r) \/ DAbort(r))
          => UNCHANGED <<pReq, stage>>
    BY DEF DReport, DResume, DFinish, DAbort, DFree, prefillVars, threadVars
  <2> QED
    BY <1>4, <1>5, <1>8, <2>1 DEF DecodeStep
<1> QED
  BY <1>1, <1>2, <1>3, <1>6, <1>7, <1>8 DEF Next, RecvThread

(* The connector implements the hand-off: for every number of requests and *)
(* ranks, blocks are offered once, pulled by each rank at most once while  *)
(* they are held, and released only when every rank is through.            *)
THEOREM Refinement == Spec => ImplementsHandoff
<1>1. Init => Handoff!HInit
  BY DEF Init, Handoff!HInit, Blocks, Pulled, Through
<1> QED
  BY <1>1, Invariant, StepRefines, PTL DEF Spec, ImplementsHandoff, Handoff!HSpec
=============================================================================
