------------------------ MODULE AscendSchedulerProofs ------------------------
(***************************************************************************)
(* Proofs about AscendScheduler, for every number of requests, every       *)
(* prompt, pool, limit and depth of the batch queue.                       *)
(***************************************************************************)
EXTENDS AscendScheduler, RequestListsProofs

-----------------------------------------------------------------------------
(* The inductive invariant. *)

Queued == {"WAITING", "PREEMPTED", "WAITING_FOR_REMOTE_KVS"}
Ended  == {"FINISHED", "FINISHED_IGNORED"}

(* The waiting queue as it will be when the skipped requests are back. *)
Queue == IF pc = "prefill" THEN Reverse(skipped) \o waiting ELSE waiting

(* Every request is in the list of its status, once. *)
ListsInv ==
  /\ NoRepeats(Queue) /\ NoRepeats(running)
  /\ Elems(Queue) = {r \in Req : status[r] \in Queued}
  /\ Elems(running) = {r \in Req : status[r] = "RUNNING"}
  /\ Len(running) <= MaxNumSeqs

(* With status st, r arrived before q, or was preempted. *)
Ahead(st, r, q) == st[r] # "PREEMPTED" => st[q] # "PREEMPTED" /\ r < q
InOrder(st, s)  == \A i, j \in 1 .. Len(s) : i < j => Ahead(st, s[i], s[j])

OrderInv ==
  /\ InOrder(status, Queue)
  /\ \A r, q \in Req : q < r /\ numTokens[r] > 0 => numTokens[q] > 0

(* The tokens and the blocks of a request, by its status. *)
RequestOf(r) ==
  /\ status[r] = "absent" <=> numTokens[r] = 0
  /\ status[r] = "absent" => numComputed[r] = 0
  /\ status[r] \in Ended \cup {"absent", "PREEMPTED"} => blocks[r] = 0
  /\ status[r] \in Alive => /\ numTokens[r] <= MaxModelLen
                            /\ numComputed[r] <= blocks[r] * BlockSize
  /\ status[r] = "WAITING" => \/ numComputed[r] = 0 /\ blocks[r] = 0
                              \/ /\ numComputed[r] = numTokens[r] - 1
                                 /\ r \notin doRemotePrefill
  /\ status[r] \in {"PREEMPTED", "WAITING_FOR_REMOTE_KVS"} => numComputed[r] = 0
  /\ status[r] = "WAITING_FOR_REMOTE_KVS" => numTokens[r] - 1 <= blocks[r] * BlockSize
  /\ status[r] \in {"RUNNING", "PREEMPTED", "WAITING_FOR_REMOTE_KVS"}
       => r \notin doRemotePrefill
  /\ status[r] = "RUNNING" /\ r \notin scheduledReqIds => numTokens[r] = numComputed[r] + 1

RequestInv == \A r \in Req : RequestOf(r)

(* The batches in flight, and the one that is being built. *)
InFlight(r) == \E i \in 1 .. Len(inflight) : inflight[i].tokens[r] > 0

FlightOf(r) ==
  \A i \in 1 .. Len(inflight) : inflight[i].tokens[r] > 0 =>
    /\ status[r] \in {"RUNNING", "FINISHED"}
    /\ status[r] = "RUNNING" => numComputed[r] = numTokens[r] + inflight[i].drafts[r]
    /\ \A j \in 1 .. Len(inflight) : inflight[j].tokens[r] > 0 => i = j

SchedOf(r) ==
  pc # "idle" =>
    /\ sched.tokens[r] = 0 => sched.drafts[r] = 0
    /\ sched.tokens[r] > 0 =>
         /\ status[r] = "RUNNING"
         /\ ~InFlight(r)
         /\ numTokens[r] + sched.drafts[r] = numComputed[r] + sched.tokens[r]
         /\ numComputed[r] + sched.tokens[r] <= MaxModelLen
         /\ numComputed[r] + sched.tokens[r] <= blocks[r] * BlockSize

MarkOf(r) ==
  r \in scheduledReqIds <=>
    status[r] = "RUNNING" /\ (InFlight(r) \/ (pc # "idle" /\ sched.tokens[r] > 0))

BatchInv == \A r \in Req : FlightOf(r) /\ SchedOf(r) /\ MarkOf(r)

(* No block and no token is lost. *)
PoolInv == free + Total(blocks, Req, NumBlocks) = NumBlocks - 1

BudgetInv ==
  pc # "idle" => /\ budget + Total(sched.tokens, Req, MaxModelLen) = MaxBatchedTokens
                 /\ Len(inflight) < MaxInFlight

(* The decode loop has not scheduled what it has not reached. *)
DecodeInv ==
  pc = "decode" => \A i \in reqIndex .. Len(running) : running[i] \notin scheduledReqIds

IInv == /\ TypeOK /\ ListsInv /\ OrderInv /\ RequestInv /\ BatchInv
        /\ PoolInv /\ BudgetInv /\ DecodeInv
-----------------------------------------------------------------------------
(* Requests, blocks and the queue. *)

(* The constants that scheduler_config and the KV cache config set. *)
LEMMA Sizes ==
  /\ NumReq \in Nat \ {0} /\ MaxTokens \in Nat \ {0} /\ BlockSize \in Nat \ {0}
  /\ NumBlocks \in Nat \ {0} /\ MaxNumSeqs \in Nat \ {0} /\ MaxInFlight \in Nat \ {0}
  /\ MaxBatchedTokens \in Nat \ {0} /\ MaxModelLen \in Nat \ {0}
  /\ NumSpec \in Nat /\ Lookahead \in Nat /\ MaxModelLen <= MaxBatchedTokens
BY SizesAssumption

(* self.requests is a dictionary of finitely many requests. *)
LEMMA ReqFinite == IsFiniteSet(Req) /\ Cardinality(Req) = NumReq
BY Sizes, FS_Interval DEF Req

(* The cdiv of the block pool: as many blocks hold as many tokens. *)
LEMMA CdivRoom ==
  ASSUME NEW a \in Nat, NEW b \in Nat \ {0}, NEW m \in Nat, m >= Cdiv(a, b)
  PROVE  m * b >= a
<1>1. Cdiv(a, b) \in Nat /\ Cdiv(a, b) * b >= a
  BY DEF Cdiv
<1>2. m * b >= Cdiv(a, b) * b
  BY <1>1
<1>3. m * b \in Nat /\ Cdiv(a, b) * b \in Nat
  BY <1>1
<1> QED
  BY <1>1, <1>2, <1>3

(* cdiv returns a number of blocks. *)
LEMMA CdivType ==
  ASSUME NEW a \in Nat, NEW b \in Nat \ {0}
  PROVE  Cdiv(a, b) \in Nat
BY DEF Cdiv

(* The last step of the queue: the skipped requests, oldest first, and     *)
(* those that were not looked at.  Skipping one moves nothing.             *)
LEMMA ReverseFacts ==
  ASSUME NEW s \in Seq(Req)
  PROVE  /\ Reverse(s) \in Seq(Req) /\ Len(Reverse(s)) = Len(s) /\ Len(s) \in Nat
         /\ \A i \in 1 .. Len(s) : Reverse(s)[i] = s[Len(s) - i + 1]
<1>1. Len(s) \in Nat /\ \A i \in 1 .. Len(s) : s[i] \in Req
  BY ElemAt
<1>2. \A i \in 1 .. Len(s) : (Len(s) - i) + 1 \in 1 .. Len(s)
  BY <1>1
<1>3. Reverse(s) = [i \in 1 .. Len(s) |-> s[(Len(s) - i) + 1]]
  BY DEF Reverse
<1> QED
  BY <1>1, <1>2, <1>3

(* appendleft on skipped_waiting_requests: the queue as a whole stays.     *)
LEMMA SkipQueue ==
  ASSUME NEW s \in Seq(Req), NEW w \in Seq(Req), w # <<>>
  PROVE  /\ <<Head(w)>> \o s \in Seq(Req)
         /\ Reverse(<<Head(w)>> \o s) \o Tail(w) = Reverse(s) \o w
<1> DEFINE hs == <<Head(w)>> \o s
           t == Reverse(hs) \o Tail(w)
           u == Reverse(s) \o w
<1>1. /\ Head(w) \in Req /\ Head(w) = w[1] /\ Tail(w) \in Seq(Req)
      /\ Len(w) \in Nat /\ Len(w) >= 1 /\ Len(Tail(w)) = Len(w) - 1
      /\ \A i \in 1 .. Len(w) - 1 : Tail(w)[i] = w[i + 1]
  BY TailPart, ElemAt
<1>2. /\ Len(s) \in Nat
      /\ <<Head(w)>> \in Seq(Req) /\ Len(<<Head(w)>>) = 1 /\ <<Head(w)>>[1] = Head(w)
  BY <1>1, LenProperties
<1>3. /\ hs \in Seq(Req) /\ Len(hs) = Len(s) + 1 /\ hs[1] = Head(w)
      /\ \A i \in 2 .. Len(s) + 1 : hs[i] = s[i - 1]
  <2>1. /\ hs \in Seq(Req) /\ Len(hs) = 1 + Len(s)
        /\ \A i \in 1 .. 1 + Len(s) : hs[i] = IF i <= 1 THEN <<Head(w)>>[i] ELSE s[i - 1]
    BY <1>2, ConcatProperties
  <2> HIDE DEF hs
  <2> QED
    BY <2>1, <1>2
<1> HIDE DEF hs
<1>4. /\ Reverse(hs) \in Seq(Req) /\ Len(Reverse(hs)) = Len(s) + 1
      /\ \A i \in 1 .. Len(s) + 1 : Reverse(hs)[i] = hs[Len(s) + 1 - i + 1]
      /\ Reverse(s) \in Seq(Req) /\ Len(Reverse(s)) = Len(s)
      /\ \A i \in 1 .. Len(s) : Reverse(s)[i] = s[Len(s) - i + 1]
  BY <1>3, ReverseFacts
<1>5. /\ t \in Seq(Req) /\ u \in Seq(Req)
      /\ Len(t) = Len(s) + Len(w) /\ Len(u) = Len(s) + Len(w)
      /\ \A i \in 1 .. Len(s) + Len(w) :
           /\ t[i] = IF i <= Len(s) + 1 THEN Reverse(hs)[i] ELSE Tail(w)[i - (Len(s) + 1)]
           /\ u[i] = IF i <= Len(s) THEN Reverse(s)[i] ELSE w[i - Len(s)]
  <2>0. \A a, b \in Seq(Req) :
          /\ a \o b \in Seq(Req) /\ Len(a \o b) = Len(a) + Len(b)
          /\ \A i \in 1 .. Len(a) + Len(b) :
               (a \o b)[i] = IF i <= Len(a) THEN a[i] ELSE b[i - Len(a)]
    BY ConcatProperties
  <2>1. /\ t \in Seq(Req) /\ Len(t) = Len(s) + 1 + Len(Tail(w))
        /\ \A i \in 1 .. Len(s) + 1 + Len(Tail(w)) :
             t[i] = IF i <= Len(s) + 1 THEN Reverse(hs)[i] ELSE Tail(w)[i - (Len(s) + 1)]
    <3>1. /\ t \in Seq(Req) /\ Len(t) = Len(Reverse(hs)) + Len(Tail(w))
          /\ \A i \in 1 .. Len(Reverse(hs)) + Len(Tail(w)) :
               t[i] = IF i <= Len(Reverse(hs)) THEN Reverse(hs)[i]
                                               ELSE Tail(w)[i - Len(Reverse(hs))]
      BY <1>4, <1>1, <2>0
    <3> HIDE DEF t
    <3> QED
      BY <3>1, <1>4
  <2>2. /\ u \in Seq(Req) /\ Len(u) = Len(s) + Len(w)
        /\ \A i \in 1 .. Len(s) + Len(w) :
             u[i] = IF i <= Len(s) THEN Reverse(s)[i] ELSE w[i - Len(s)]
    <3>1. /\ u \in Seq(Req) /\ Len(u) = Len(Reverse(s)) + Len(w)
          /\ \A i \in 1 .. Len(Reverse(s)) + Len(w) :
               u[i] = IF i <= Len(Reverse(s)) THEN Reverse(s)[i] ELSE w[i - Len(Reverse(s))]
      BY <1>4, <2>0
    <3> HIDE DEF u
    <3> QED
      BY <3>1, <1>4
  <2>3. Len(s) + 1 + Len(Tail(w)) = Len(s) + Len(w)
    BY <1>1, <1>2
  <2> HIDE DEF t, u
  <2> QED
    BY <2>1, <2>2, <2>3
<1>6. \A i \in 1 .. Len(s) + Len(w) : t[i] = u[i]
  <2> SUFFICES ASSUME NEW i \in 1 .. Len(s) + Len(w)
               PROVE  t[i] = u[i]
    OBVIOUS
  <2> HIDE DEF t, u
  <2>1. CASE i <= Len(s)
    <3>1. Len(s) + 1 - i + 1 \in 2 .. Len(s) + 1 /\ i \in 1 .. Len(s) /\ i \in 1 .. Len(s) + 1
          /\ (Len(s) + 1 - i + 1) - 1 = Len(s) - i + 1
      BY <2>1, <1>2, <1>1
    <3>2. t[i] = Reverse(hs)[i] /\ u[i] = Reverse(s)[i]
      BY <2>1, <3>1, <1>5, <1>2, SMTT(40)
    <3>3. /\ Reverse(hs)[i] = hs[Len(s) + 1 - i + 1]
          /\ Reverse(s)[i] = s[Len(s) - i + 1]
          /\ hs[Len(s) + 1 - i + 1] = s[(Len(s) + 1 - i + 1) - 1]
      BY <3>1, <1>4, <1>3
    <3> QED
      BY <3>1, <3>2, <3>3
  <2>2. CASE i = Len(s) + 1
    <3>1. Len(s) + 1 - i + 1 = 1 /\ i - Len(s) = 1 /\ i \in 1 .. Len(s) + 1
      BY <2>2, <1>2
    <3>2. t[i] = Reverse(hs)[i] /\ u[i] = w[i - Len(s)]
      BY <2>2, <3>1, <1>5, <1>2
    <3>3. Reverse(hs)[i] = hs[Len(s) + 1 - i + 1]
      BY <3>1, <1>4
    <3> QED
      BY <3>1, <3>2, <3>3, <1>1, <1>3
  <2>3. CASE i > Len(s) + 1
    <3>1. i - (Len(s) + 1) \in 1 .. Len(w) - 1 /\ (i - (Len(s) + 1)) + 1 = i - Len(s)
      BY <2>3, <1>2, <1>1
    <3> QED
      BY <2>3, <3>1, <1>5, <1>1, <1>2
  <2> QED
    BY <2>1, <2>2, <2>3, <1>1, <1>2
<1>7. t = u
  <2> HIDE DEF t, u
  <2> QED
    BY <1>5, <1>6, SeqEqual
<1> QED
  BY <1>3, <1>7 DEF hs

(* The queue behind a list of skipped requests, without its first.         *)
LEMMA PopQueue ==
  ASSUME NEW s \in Seq(Req), NEW w \in Seq(Req), w # <<>>, NoRepeats(s \o w)
  PROVE  /\ s \o Tail(w) \in Seq(Req) /\ s \o w \in Seq(Req)
         /\ PartOf(s \o Tail(w), s \o w)
         /\ Elems(s \o Tail(w)) = Elems(s \o w) \ {Head(w)}
         /\ Head(w) \in Elems(s \o w)
<1> DEFINE t == s \o Tail(w)
           u == s \o w
           n == Len(s)
           h == [k \in 1 .. Len(t) |-> IF k <= n THEN k ELSE k + 1]
<1>1. /\ Head(w) \in Req /\ Head(w) = w[1] /\ Tail(w) \in Seq(Req)
      /\ Len(w) \in Nat /\ Len(w) >= 1 /\ Len(Tail(w)) = Len(w) - 1 /\ n \in Nat
      /\ \A i \in 1 .. Len(w) - 1 : Tail(w)[i] = w[i + 1]
  BY TailPart, ElemAt
<1>2. /\ t \in Seq(Req) /\ Len(t) = n + Len(w) - 1
      /\ u \in Seq(Req) /\ Len(u) = n + Len(w)
      /\ \A i \in 1 .. n + Len(w) - 1 : t[i] = IF i <= n THEN s[i] ELSE Tail(w)[i - n]
      /\ \A i \in 1 .. n + Len(w) : u[i] = IF i <= n THEN s[i] ELSE w[i - n]
  <2>1. /\ t \in Seq(Req) /\ Len(t) = n + Len(Tail(w))
        /\ \A i \in 1 .. n + Len(Tail(w)) : t[i] = IF i <= n THEN s[i] ELSE Tail(w)[i - n]
    BY <1>1, ConcatProperties
  <2>2. /\ u \in Seq(Req) /\ Len(u) = n + Len(w)
        /\ \A i \in 1 .. n + Len(w) : u[i] = IF i <= n THEN s[i] ELSE w[i - n]
    BY <1>1, ConcatProperties
  <2>3. n + Len(Tail(w)) = n + Len(w) - 1
    BY <1>1
  <2> HIDE DEF t, u
  <2> QED
    BY <2>1, <2>2, <2>3
<1> HIDE DEF t, u, n
<1>3. \A k \in 1 .. Len(t) : /\ h[k] \in 1 .. Len(u) /\ t[k] = u[h[k]] /\ h[k] >= k
                             /\ h[k] # n + 1
  <2> SUFFICES ASSUME NEW k \in 1 .. Len(t)
               PROVE  h[k] \in 1 .. Len(u) /\ t[k] = u[h[k]] /\ h[k] >= k /\ h[k] # n + 1
    OBVIOUS
  <2>1. CASE k <= n
    BY <2>1, <1>1, <1>2
  <2>2. CASE k > n
    <3>1. k - n \in 1 .. Len(w) - 1 /\ (k - n) + 1 = (k + 1) - n /\ h[k] = k + 1
      BY <2>2, <1>1, <1>2
    <3> QED
      BY <3>1, <2>2, <1>1, <1>2
  <2> QED
    BY <2>1, <2>2, <1>1, <1>2
<1>4. PartOf(t, u)
  <2>1. \A k, l \in 1 .. Len(t) : k < l => h[k] < h[l]
    BY <1>1, <1>2
  <2>2. h \in [1 .. Len(t) -> 1 .. Len(u)]
    BY <1>3
  <2> HIDE DEF h
  <2> QED
    BY <2>1, <2>2, <1>3 DEF PartOf, Picks
<1>5. n + 1 \in 1 .. Len(u) /\ u[n + 1] = Head(w)
  BY <1>1, <1>2
<1>6. ASSUME NEW k \in 1 .. Len(u), k # n + 1
      PROVE  u[k] \in Elems(t)
  <2>1. CASE k <= n
    <3>1. k \in 1 .. Len(t) /\ t[k] = u[k]
      BY <2>1, <1>1, <1>2
    <3> QED
      BY <3>1 DEF Elems
  <2>2. CASE k > n + 1
    <3>1. k - 1 \in 1 .. Len(t) /\ h[k - 1] = k
      BY <2>2, <1>1, <1>2
    <3> QED
      BY <3>1, <1>3 DEF Elems
  <2> QED
    BY <2>1, <2>2, <1>6, <1>1, <1>2
<1>7. Elems(t) = Elems(u) \ {Head(w)}
  <2>1. \A x \in Elems(t) : x \in Elems(u) /\ x # Head(w)
    <3> HIDE DEF h
    <3>1. NoRepeats(u)
      BY DEF u
    <3> QED
      BY <3>1, <1>3, <1>5 DEF Elems, NoRepeats
  <2>2. \A x \in Elems(u) : x = Head(w) \/ x \in Elems(t)
    BY <1>5, <1>6 DEF Elems
  <2> QED
    BY <2>1, <2>2
<1>8. Head(w) \in Elems(u)
  BY <1>5 DEF Elems
<1> QED
  BY <1>2, <1>4, <1>7, <1>8 DEF t, u
-----------------------------------------------------------------------------
(* What the block pool promises. *)

(* allocate_slots: the request has room for its tokens, and what it gets   *)
(* is what the pool loses.                                                 *)
LEMMA AllocateEffect ==
  ASSUME TypeOK, PoolInv, NEW r \in Req, NEW n \in Nat,
         numComputed[r] + n <= MaxModelLen, CanAllocate(r, n), Allocate(r, n)
  PROVE  /\ blocks' \in [Req -> 0 .. NumBlocks] /\ free' \in 0 .. NumBlocks - 1
         /\ PoolInv'
         /\ numComputed[r] + n <= blocks'[r] * BlockSize
         /\ \A q \in Req \ {r} : blocks'[q] = blocks[q]
<1> DEFINE m == Missing(r, n)
           a == Least(numComputed[r] + n + Lookahead, MaxModelLen)
<1>1. /\ blocks \in [Req -> 0 .. NumBlocks] /\ free \in 0 .. NumBlocks - 1
      /\ numComputed[r] \in Nat /\ blocks[r] \in Nat /\ blocks[r] \in 0 .. NumBlocks
  BY Sizes DEF TypeOK
<1>2. a \in Nat /\ a >= numComputed[r] + n
  BY <1>1, Sizes DEF Least
<1>3. Cdiv(a, BlockSize) \in Nat
  BY <1>2, CdivType, Sizes
<1>4. m = IF Cdiv(a, BlockSize) > blocks[r] THEN Cdiv(a, BlockSize) - blocks[r] ELSE 0
  BY DEF Missing
<1> HIDE DEF a, m
<1>5. m \in Nat /\ blocks[r] + m >= Cdiv(a, BlockSize) /\ blocks[r] + m \in Nat
  BY <1>1, <1>3, <1>4
<1>6. (blocks[r] + m) * BlockSize >= numComputed[r] + n
  <2>1. (blocks[r] + m) * BlockSize >= a
    BY <1>2, <1>5, CdivRoom, Sizes
  <2>2. (blocks[r] + m) * BlockSize \in Nat
    BY <1>5, Sizes
  <2> QED
    BY <2>1, <2>2, <1>1, <1>2
<1>7. /\ blocks' = [blocks EXCEPT ![r] = blocks[r] + m] /\ free' = free - m /\ m <= free
  BY DEF Allocate, CanAllocate, m
<1>8. /\ Total(blocks, Req, NumBlocks) \in Nat
      /\ free + Total(blocks, Req, NumBlocks) = NumBlocks - 1
  BY TotalType, ReqFinite, Sizes DEF PoolInv
<1>9. blocks[r] <= Total(blocks, Req, NumBlocks)
  <2>1. 0 \in Nat /\ blocks[r] + 0 <= NumBlocks /\ blocks[r] = blocks[r] + 0
        /\ \A q \in Req \ {r} : blocks[q] = blocks[q]
    BY <1>1, Sizes
  <2> QED
    BY <2>1, <1>1, TotalAdd, ReqFinite, Sizes
<1>10. blocks[r] + m <= NumBlocks
  BY <1>1, <1>5, <1>7, <1>8, <1>9, Sizes
<1>11. Total(blocks', Req, NumBlocks) = Total(blocks, Req, NumBlocks) + m
  <2>1. NumBlocks \in Nat /\ IsFiniteSet(Req) /\ m \in Nat
    BY <1>5, ReqFinite, Sizes
  <2>2. blocks'[r] = blocks[r] + m /\ \A q \in Req \ {r} : blocks'[q] = blocks[q]
    BY <1>1, <1>7
  <2> QED
    BY <2>1, <2>2, <1>1, <1>10, TotalAdd
<1>12. PoolInv'
  BY <1>1, <1>5, <1>7, <1>8, <1>11 DEF PoolInv
<1>13. blocks'[r] = blocks[r] + m /\ \A q \in Req \ {r} : blocks'[q] = blocks[q]
  BY <1>1, <1>7
<1>14. blocks' \in [Req -> 0 .. NumBlocks]
  BY <1>1, <1>5, <1>7, <1>10, Sizes
<1>15. free' \in 0 .. NumBlocks - 1
  BY <1>1, <1>5, <1>7, Sizes
<1> QED
  BY <1>6, <1>12, <1>13, <1>14, <1>15

(* kv_cache_manager.free: the blocks of the requests go back to the pool. *)
LEMMA FreeEffect ==
  ASSUME TypeOK, PoolInv, NEW R \in SUBSET Req, FreeBlocks(R)
  PROVE  /\ blocks' \in [Req -> 0 .. NumBlocks] /\ free' \in 0 .. NumBlocks - 1
         /\ PoolInv'
         /\ \A q \in Req : blocks'[q] = IF q \in R THEN 0 ELSE blocks[q]
<1>1. blocks \in [Req -> 0 .. NumBlocks] /\ free \in 0 .. NumBlocks - 1
  BY DEF TypeOK
<1>2. /\ blocks' = [q \in Req |-> IF q \in R THEN 0 ELSE blocks[q]]
      /\ free' = free + Total(blocks, R, NumBlocks)
  BY DEF FreeBlocks
<1>3. blocks' \in [Req -> 0 .. NumBlocks]
  BY <1>1, <1>2, Sizes
<1>4. IsFiniteSet(R)
  BY ReqFinite, FS_Subset
<1>5. /\ Total(blocks, R, NumBlocks) \in Nat /\ Total(blocks', Req, NumBlocks) \in Nat
      /\ Total(blocks, Req, NumBlocks) \in Nat
  BY <1>4, ReqFinite, TotalType, Sizes
<1>6. Total(blocks, Req, NumBlocks) = Total(blocks', Req, NumBlocks) + Total(blocks, R, NumBlocks)
  BY <1>1, <1>2, ReqFinite, TotalFreed, Sizes
<1>7. free + Total(blocks, Req, NumBlocks) = NumBlocks - 1
  BY DEF PoolInv
<1>8. free' + Total(blocks', Req, NumBlocks) = NumBlocks - 1
  BY <1>1, <1>2, <1>5, <1>6, <1>7, Sizes
<1>9. free' \in 0 .. NumBlocks - 1
  BY <1>1, <1>2, <1>5, <1>8, Sizes
<1> QED
  BY <1>2, <1>3, <1>8, <1>9 DEF PoolInv

-----------------------------------------------------------------------------
(* What a step that is about another request leaves alone. *)

SameRequest(q) ==
  /\ status'[q] = status[q] /\ numTokens'[q] = numTokens[q]
  /\ numComputed'[q] = numComputed[q] /\ blocks'[q] = blocks[q]
  /\ q \in doRemotePrefill' <=> q \in doRemotePrefill
  /\ q \in scheduledReqIds' <=> q \in scheduledReqIds

SameBatches(q) ==
  /\ inflight' = inflight /\ (pc' = "idle" <=> pc = "idle")
  /\ sched'.tokens[q] = sched.tokens[q] /\ sched'.drafts[q] = sched.drafts[q]

(* A request object that no call of the step touches. *)
LEMMA RequestFrame ==
  ASSUME NEW q \in Req, SameRequest(q), RequestOf(q)
  PROVE  RequestOf(q)'
BY DEF SameRequest, RequestOf

(* A request whose place in the batches the step does not change. *)
LEMMA BatchFrame ==
  ASSUME NEW q \in Req, SameRequest(q), SameBatches(q), FlightOf(q), SchedOf(q), MarkOf(q)
  PROVE  FlightOf(q)' /\ SchedOf(q)' /\ MarkOf(q)'
<1>1. InFlight(q)' <=> InFlight(q)
  BY DEF SameBatches, InFlight
<1>2. FlightOf(q)'
  BY DEF SameRequest, SameBatches, FlightOf
<1>3. SchedOf(q)'
  BY <1>1 DEF SameRequest, SameBatches, SchedOf
<1>4. MarkOf(q)'
  BY <1>1 DEF SameRequest, SameBatches, MarkOf
<1> QED
  BY <1>2, <1>3, <1>4

(* The queue is a list of requests, and a list without its elements' order *)
(* disturbed stays in order.                                               *)
LEMMA QueueType ==
  ASSUME TypeOK
  PROVE  /\ Queue \in Seq(Req) /\ Reverse(skipped) \in Seq(Req)
         /\ Reverse(skipped) \o waiting \in Seq(Req)
<1>1. waiting \in Seq(Req) /\ skipped \in Seq(Req)
  BY DEF TypeOK
<1>2. Reverse(skipped) \in Seq(Req)
  BY <1>1, ReverseFacts
<1>3. Reverse(skipped) \o waiting \in Seq(Req)
  BY <1>1, <1>2, ConcatProperties
<1> QED
  BY <1>1, <1>2, <1>3 DEF Queue

(* Order is inherited by a part, if no request has become PREEMPTED and    *)
(* none has ceased to be.                                                  *)
LEMMA OrderedPart ==
  ASSUME NEW s \in Seq(Req), NEW t \in Seq(Req), PartOf(t, s), NEW st, NEW nst, InOrder(st, s),
         \A r \in Elems(t) : nst[r] = "PREEMPTED" <=> st[r] = "PREEMPTED"
  PROVE  InOrder(nst, t)
<1>1. PICK h : Picks(h, t, s)
  BY DEF PartOf
<1> SUFFICES ASSUME NEW i \in 1 .. Len(t), NEW j \in 1 .. Len(t), i < j
             PROVE  Ahead(nst, t[i], t[j])
  BY DEF InOrder
<1>2. /\ h[i] \in 1 .. Len(s) /\ h[j] \in 1 .. Len(s) /\ h[i] < h[j]
      /\ t[i] = s[h[i]] /\ t[j] = s[h[j]]
  BY <1>1 DEF Picks
<1>3. Ahead(st, t[i], t[j])
  BY <1>2 DEF InOrder
<1>4. t[i] \in Elems(t) /\ t[j] \in Elems(t)
  BY DEF Elems
<1> QED
  BY <1>3, <1>4 DEF Ahead

(* A list is a part of itself. *)
LEMMA PartOfItself == ASSUME NEW s \in Seq(Req) PROVE PartOf(s, s)
<1> DEFINE h == [i \in 1 .. Len(s) |-> i]
<1>1. Len(s) \in Nat
  BY LenProperties
<1>2. Picks(h, s, s)
  BY <1>1 DEF Picks
<1> QED
  BY <1>2 DEF PartOf
-----------------------------------------------------------------------------
(* Every operation keeps the invariant: requests come and go. *)

(* add_request puts a new request behind all others. *)
LEMMA AddStep ==
  ASSUME IInv, NEW r \in Req, AddRequest(r)
  PROVE  IInv'
<1> USE DEF IInv
<1>1. /\ pc = "idle" /\ pc' = "idle" /\ status[r] = "absent" /\ numTokens[r] = 0
      /\ \A q \in 1 .. r - 1 : numTokens[q] > 0
      /\ status' = [status EXCEPT ![r] = "WAITING"]
      /\ numTokens' = [numTokens EXCEPT ![r] = PromptLen[r]]
      /\ waiting' = Append(waiting, r)
      /\ UNCHANGED <<numComputed, spec, doRemotePrefill, recvDone, running, scheduledReqIds,
                     finishedReqIds, blocks, free, inflight, budget, skipped, reqIndex,
                     sched, loras>>
  BY DEF AddRequest, poolVars, locals
<1>2. PromptLen[r] \in 1 .. MaxModelLen
  BY RequestAssumption
<1>3. /\ status \in [Req -> Statuses] /\ numTokens \in [Req -> 0 .. MaxModelLen + 1]
      /\ waiting \in Seq(Req) /\ waiting' \in Seq(Req)
  BY <1>1, AppendProperties DEF TypeOK
<1>4. TypeOK'
  <2>1. status' \in [Req -> Statuses] /\ numTokens' \in [Req -> 0 .. MaxModelLen + 1]
    BY <1>1, <1>2, <1>3, Sizes DEF Statuses
  <2> QED
    BY <1>1, <1>3, <2>1 DEF TypeOK
<1>5. \A q \in Req \ {r} : SameRequest(q) /\ SameBatches(q)
  BY <1>1, <1>3 DEF SameRequest, SameBatches
<1>6. RequestOf(r) /\ FlightOf(r) /\ MarkOf(r)
  BY DEF RequestInv, BatchInv
<1>7. status'[r] = "WAITING" /\ numTokens'[r] = PromptLen[r]
  BY <1>1, <1>3
<1>8. /\ Queue = waiting /\ Queue' = waiting'
      /\ r \notin Elems(waiting)
      /\ Elems(waiting') = Elems(waiting) \cup {r} /\ NoRepeats(waiting')
  <2>1. Queue = waiting /\ Queue' = waiting'
    BY <1>1 DEF Queue
  <2>2. r \notin Elems(waiting) /\ NoRepeats(waiting)
    BY <2>1, <1>1 DEF ListsInv, Queued
  <2> QED
    BY <2>1, <2>2, <1>1, <1>3, AppendElems
<1>9. ListsInv'
  <2>1. Elems(Queue') = {q \in Req : status'[q] \in Queued}
    BY <1>1, <1>3, <1>7, <1>8 DEF ListsInv, Queued
  <2>2. Elems(running') = {q \in Req : status'[q] = "RUNNING"}
    BY <1>1, <1>3, <1>7 DEF ListsInv
  <2> QED
    BY <1>1, <1>8, <2>1, <2>2 DEF ListsInv
<1>10. OrderInv'
  <2>1. \A q \in Elems(waiting) : q \in Req /\ q < r /\ q # r /\ status[q] \in Queued
    <3> SUFFICES ASSUME NEW q \in Elems(waiting)
                 PROVE  q \in Req /\ q < r /\ q # r /\ status[q] \in Queued
      OBVIOUS
    <3>1. q \in Req /\ status[q] \in Queued /\ q # r
      BY <1>8 DEF ListsInv
    <3>2. numTokens[q] > 0
      BY <3>1, <1>3, Sizes DEF RequestInv, RequestOf, Queued
    <3>3. ~(r < q)
      BY <3>1, <3>2, <1>1 DEF OrderInv
    <3> QED
      BY <3>1, <3>3, Sizes DEF Req
  <2>2. InOrder(status', waiting')
    <3> SUFFICES ASSUME NEW i \in 1 .. Len(waiting'), NEW j \in 1 .. Len(waiting'), i < j
                 PROVE  Ahead(status', waiting'[i], waiting'[j])
      BY DEF InOrder
    <3>1. /\ Len(waiting) \in Nat /\ Len(waiting') = Len(waiting) + 1
          /\ waiting'[Len(waiting) + 1] = r
          /\ \A k \in 1 .. Len(waiting) : waiting'[k] = waiting[k] /\ waiting[k] \in Elems(waiting)
      BY <1>1, <1>3, AppendProperties, ElemAt
    <3>2. i \in 1 .. Len(waiting) /\ waiting'[i] = waiting[i] /\ waiting[i] \in Elems(waiting)
      BY <3>1
    <3>3. CASE j = Len(waiting) + 1
      BY <3>1, <3>2, <3>3, <2>1, <1>7 DEF Ahead
    <3>4. CASE j \in 1 .. Len(waiting)
      <4>1. Ahead(status, waiting[i], waiting[j])
        BY <3>2, <3>4, <1>8 DEF OrderInv, InOrder
      <4>2. waiting[i] # r /\ waiting[j] # r /\ waiting[i] \in Req /\ waiting[j] \in Req
        BY <3>1, <3>2, <3>4, <2>1
      <4> QED
        BY <4>1, <4>2, <3>1, <3>2, <3>4, <1>1, <1>3 DEF Ahead
    <3> QED
      BY <3>1, <3>3, <3>4
  <2>3. \A p, q \in Req : q < p /\ numTokens'[p] > 0 => numTokens'[q] > 0
    <3> SUFFICES ASSUME NEW p \in Req, NEW q \in Req, q < p, numTokens'[p] > 0
                 PROVE  numTokens'[q] > 0
      OBVIOUS
    <3>1. CASE q = r
      BY <3>1, <1>2, <1>7
    <3>2. CASE q # r /\ p = r
      BY <3>2, <1>1, <1>3, Sizes DEF Req
    <3>3. CASE q # r /\ p # r
      BY <3>3, <1>1, <1>3 DEF OrderInv
    <3> QED
      BY <3>1, <3>2, <3>3
  <2> QED
    BY <2>2, <2>3, <1>8 DEF OrderInv
<1>11. RequestInv'
  <2>1. RequestOf(r)'
    BY <1>1, <1>2, <1>6, <1>7, Sizes DEF RequestOf, Alive, Ended
  <2> QED
    BY <2>1, <1>5, RequestFrame DEF RequestInv
<1>12. BatchInv'
  <2>1. \A i \in 1 .. Len(inflight) : ~(inflight[i].tokens[r] > 0)
    BY <1>1, <1>6 DEF FlightOf
  <2>2. FlightOf(r)' /\ SchedOf(r)' /\ MarkOf(r)'
    BY <2>1, <1>1, <1>6, <1>7 DEF FlightOf, SchedOf, MarkOf, InFlight
  <2> QED
    BY <2>2, <1>5, BatchFrame DEF BatchInv
<1> QED
  BY <1>1, <1>4, <1>9, <1>10, <1>11, <1>12 DEF PoolInv, BudgetInv, DecodeInv

(* finish_requests takes the request out of its list, even while its batch *)
(* is in flight.                                                           *)
LEMMA FinishStep ==
  ASSUME IInv, NEW r \in Req, FinishRequests(r)
  PROVE  IInv'
<1> USE DEF IInv
<1>1. /\ pc = "idle" /\ pc' = "idle" /\ status[r] \in Alive
      /\ scheduledReqIds' = IF status[r] = "RUNNING" THEN scheduledReqIds \ {r} ELSE scheduledReqIds
      /\ status' = [status EXCEPT ![r] = "FINISHED"]
      /\ waiting' = Without(waiting, {r}) /\ running' = Without(running, {r})
      /\ finishedReqIds' = finishedReqIds \cup {r}
      /\ FreeBlocks({r})
      /\ UNCHANGED <<numTokens, numComputed, spec, doRemotePrefill, recvDone, inflight,
                     budget, skipped, reqIndex, sched, loras>>
  BY DEF FinishRequests, DiscardScheduled, locals
<1>2. /\ blocks' \in [Req -> 0 .. NumBlocks] /\ free' \in 0 .. NumBlocks - 1
      /\ PoolInv' /\ blocks'[r] = 0
      /\ \A q \in Req \ {r} : blocks'[q] = blocks[q]
  BY <1>1, FreeEffect
<1>3. /\ status \in [Req -> Statuses]
      /\ waiting \in Seq(Req) /\ running \in Seq(Req)
      /\ waiting' \in Seq(Req) /\ running' \in Seq(Req)
      /\ PartOf(waiting', waiting) /\ PartOf(running', running)
      /\ Elems(waiting') = Elems(waiting) \ {r} /\ Elems(running') = Elems(running) \ {r}
  BY <1>1, WithoutPart, SMTT(40) DEF TypeOK
<1>4. TypeOK'
  <2>1. status' \in [Req -> Statuses] /\ scheduledReqIds' \subseteq Req
        /\ finishedReqIds' \subseteq Req
    BY <1>1, <1>3 DEF Statuses, TypeOK
  <2> QED
    BY <1>1, <1>2, <1>3, <2>1 DEF TypeOK
<1>5. \A q \in Req \ {r} : SameRequest(q) /\ SameBatches(q)
  BY <1>1, <1>2, <1>3 DEF SameRequest, SameBatches
<1>6. status'[r] = "FINISHED" /\ RequestOf(r) /\ FlightOf(r) /\ MarkOf(r)
  BY <1>1, <1>3 DEF RequestInv, BatchInv
<1>7. Queue = waiting /\ Queue' = waiting'
  BY <1>1 DEF Queue
<1>8. ListsInv'
  <2>1. Elems(waiting') = {q \in Req : status'[q] \in Queued}
    BY <1>1, <1>3, <1>6, <1>7 DEF ListsInv, Queued
  <2>2. Elems(running') = {q \in Req : status'[q] = "RUNNING"}
    BY <1>1, <1>3, <1>6 DEF ListsInv
  <2>3. NoRepeats(waiting') /\ NoRepeats(running') /\ Len(running') <= Len(running)
    BY <1>3, <1>7, PartKeeps DEF ListsInv
  <2>4. Len(running) \in Nat /\ Len(running') \in Nat
    BY <1>3, LenProperties
  <2> QED
    BY <1>7, <2>1, <2>2, <2>3, <2>4, Sizes DEF ListsInv
<1>9. OrderInv'
  <2>1. InOrder(status, waiting)
    BY <1>7 DEF OrderInv
  <2>2. \A q \in Elems(waiting') : status'[q] = "PREEMPTED" <=> status[q] = "PREEMPTED"
    <3>1. \A q \in Elems(waiting') : q \in Req \ {r}
      BY <1>3, ElemAt
    <3> QED
      BY <3>1, <1>1, <1>3
  <2>3. InOrder(status', waiting')
    BY <2>1, <2>2, <1>3, OrderedPart
  <2> QED
    BY <2>3, <1>1, <1>7 DEF OrderInv
<1>10. RequestInv'
  <2>1. RequestOf(r)'
    BY <1>1, <1>2, <1>6 DEF RequestOf, Alive, Ended
  <2> QED
    BY <2>1, <1>5, RequestFrame DEF RequestInv
<1>11. BatchInv'
  <2>1. FlightOf(r)' /\ SchedOf(r)' /\ MarkOf(r)'
    BY <1>1, <1>6 DEF FlightOf, SchedOf, MarkOf
  <2> QED
    BY <2>1, <1>5, BatchFrame DEF BatchInv
<1> QED
  BY <1>1, <1>2, <1>4, <1>8, <1>9, <1>10, <1>11 DEF BudgetInv, DecodeInv
(* A report of the workers that a remote KV cache has arrived, or nothing, *)
(* moves no request.                                                       *)
LEMMA QuietStep ==
  ASSUME IInv, recvDone' \subseteq Req,
         UNCHANGED <<status, numTokens, numComputed, spec, doRemotePrefill, setVars, poolVars,
                     inflight, pc, locals>>
  PROVE  IInv'
<1> USE DEF IInv, setVars, poolVars, locals
<1>1. TypeOK'
  BY DEF TypeOK
<1>2. \A q \in Req : SameRequest(q) /\ SameBatches(q)
  BY DEF SameRequest, SameBatches
<1>3. Queue' = Queue
  BY DEF Queue
<1>4. ListsInv' /\ OrderInv'
  BY <1>3 DEF ListsInv, OrderInv
<1>5. RequestInv'
  BY <1>2, RequestFrame DEF RequestInv
<1>6. BatchInv'
  BY <1>2, BatchFrame DEF BatchInv
<1> QED
  BY <1>1, <1>4, <1>5, <1>6 DEF PoolInv, BudgetInv, DecodeInv

-----------------------------------------------------------------------------
(* The prefill loop. *)

(* schedule() starts with an empty batch and nothing skipped. *)
LEMMA BeginStep ==
  ASSUME IInv, Begin
  PROVE  IInv'
<1> USE DEF IInv
<1>1. /\ pc = "idle" /\ pc' = "prefill" /\ Len(inflight) < MaxInFlight
      /\ budget' = MaxBatchedTokens /\ skipped' = <<>> /\ sched' = EmptyBatch /\ loras' = {}
      /\ UNCHANGED <<status, numTokens, numComputed, spec, doRemotePrefill, recvDone, waiting,
                     running, scheduledReqIds, finishedReqIds, blocks, free, inflight, reqIndex>>
  BY DEF Begin, reqVars, setVars, poolVars
<1>2. /\ sched'.tokens = [q \in Req |-> 0] /\ sched'.drafts = [q \in Req |-> 0]
      /\ sched' \in Batch
  BY <1>1, Sizes DEF EmptyBatch, Batch
<1>3. TypeOK'
  BY <1>1, <1>2, Sizes, EmptySeq DEF TypeOK
<1>4. Queue' = Queue
  <2>1. waiting \in Seq(Req) /\ <<>> \in Seq(Req)
    BY EmptySeq DEF TypeOK
  <2>2. Reverse(<<>>) \in Seq(Req) /\ Len(Reverse(<<>>)) = 0
    BY <2>1, ReverseFacts, EmptySeq
  <2>3. Reverse(<<>>) = <<>>
    BY <2>2, EmptySeq
  <2>4. <<>> \o waiting = waiting
    BY <2>1, ConcatEmptySeq
  <2>5. Queue' = Reverse(skipped') \o waiting' /\ Queue = waiting
    BY <1>1 DEF Queue
  <2> QED
    BY <2>3, <2>4, <2>5, <1>1
<1>5. ListsInv' /\ OrderInv'
  BY <1>1, <1>4 DEF ListsInv, OrderInv
<1>6. RequestInv'
  <2>1. \A q \in Req : SameRequest(q)
    BY <1>1 DEF SameRequest
  <2> QED
    BY <2>1, RequestFrame DEF RequestInv
<1>7. BatchInv'
  <2> SUFFICES ASSUME NEW q \in Req
               PROVE  FlightOf(q)' /\ SchedOf(q)' /\ MarkOf(q)'
    BY DEF BatchInv
  <2>1. FlightOf(q) /\ MarkOf(q)
    BY DEF BatchInv
  <2>2. sched'.tokens[q] = 0 /\ sched'.drafts[q] = 0 /\ (InFlight(q)' <=> InFlight(q))
    BY <1>1, <1>2 DEF InFlight
  <2> QED
    BY <2>1, <2>2, <1>1 DEF FlightOf, SchedOf, MarkOf
<1>8. BudgetInv'
  <2>1. Total(sched'.tokens, Req, MaxModelLen) = 0
    <3>1. \A q \in Req : sched'.tokens[q] = 0
      BY <1>2
    <3> QED
      BY <3>1, TotalZero, Sizes
  <2> QED
    BY <2>1, <1>1, Sizes DEF BudgetInv
<1> QED
  BY <1>1, <1>3, <1>5, <1>6, <1>7, <1>8 DEF PoolInv, DecodeInv

(* The request at the head of the waiting queue. *)
LEMMA HeadOfQueue ==
  ASSUME IInv, pc = "prefill", waiting # <<>>, NEW r, r = Head(waiting)
  PROVE  /\ r \in Req /\ status[r] \in Queued
         /\ waiting \in Seq(Req) /\ skipped \in Seq(Req) /\ Tail(waiting) \in Seq(Req)
         /\ Queue = Reverse(skipped) \o waiting /\ Queue \in Seq(Req) /\ NoRepeats(Queue)
         /\ Reverse(skipped) \o Tail(waiting) \in Seq(Req)
         /\ PartOf(Reverse(skipped) \o Tail(waiting), Queue)
         /\ Elems(Reverse(skipped) \o Tail(waiting)) = Elems(Queue) \ {r}
<1> USE DEF IInv
<1>1. /\ Queue = Reverse(skipped) \o waiting /\ NoRepeats(Queue)
      /\ Queue \in Seq(Req) /\ Reverse(skipped) \in Seq(Req)
      /\ waiting \in Seq(Req) /\ skipped \in Seq(Req)
  BY QueueType DEF Queue, ListsInv, TypeOK
<1>2. NoRepeats(Reverse(skipped) \o waiting)
  BY <1>1
<1>3. /\ Reverse(skipped) \o Tail(waiting) \in Seq(Req)
      /\ PartOf(Reverse(skipped) \o Tail(waiting), Reverse(skipped) \o waiting)
      /\ Elems(Reverse(skipped) \o Tail(waiting)) = Elems(Reverse(skipped) \o waiting) \ {r}
      /\ r \in Elems(Reverse(skipped) \o waiting)
  BY <1>1, <1>2, PopQueue
<1>4. r \in Req /\ status[r] \in Queued
  BY <1>1, <1>3 DEF ListsInv
<1>5. Tail(waiting) \in Seq(Req)
  BY <1>1, HeadTailProperties
<1> QED
  BY <1>1, <1>3, <1>4, <1>5

(* skip_cur_request moves the head to the skipped requests. *)
LEMMA SkipStep ==
  ASSUME IInv, PrefillLoop, SkipCurRequest
  PROVE  IInv'
<1> USE DEF IInv
<1>1. /\ pc = "prefill" /\ pc' = "prefill" /\ waiting # <<>>
      /\ skipped' = <<Head(waiting)>> \o skipped /\ waiting' = Tail(waiting)
      /\ UNCHANGED <<status, numTokens, numComputed, spec, doRemotePrefill, recvDone, running,
                     scheduledReqIds, finishedReqIds, blocks, free, inflight, budget, reqIndex,
                     sched, loras>>
  BY DEF PrefillLoop, SkipCurRequest, reqVars, poolVars
<1>2. /\ waiting \in Seq(Req) /\ skipped \in Seq(Req) /\ waiting' \in Seq(Req)
      /\ Queue = Reverse(skipped) \o waiting
  BY <1>1, HeadOfQueue
<1>3. skipped' \in Seq(Req) /\ Reverse(skipped') \o waiting' = Reverse(skipped) \o waiting
  BY <1>1, <1>2, SkipQueue
<1>4. Queue' = Queue
  BY <1>1, <1>2, <1>3 DEF Queue
<1>5. TypeOK'
  BY <1>1, <1>2, <1>3 DEF TypeOK
<1>6. \A q \in Req : SameRequest(q) /\ SameBatches(q)
  BY <1>1 DEF SameRequest, SameBatches
<1>7. ListsInv' /\ OrderInv'
  BY <1>1, <1>4 DEF ListsInv, OrderInv
<1>8. RequestInv'
  BY <1>6, RequestFrame DEF RequestInv
<1>9. BatchInv'
  BY <1>6, BatchFrame DEF BatchInv
<1> QED
  BY <1>1, <1>5, <1>7, <1>8, <1>9 DEF PoolInv, BudgetInv, DecodeInv

(* A status that changes from one queued status to another, of which none  *)
(* is PREEMPTED, leaves the queue in order: loading a remote KV cache.     *)
LEMMA QueueKept ==
  ASSUME IInv, Queue' = Queue, running' = running, numTokens' = numTokens, NEW r \in Req,
         \A q \in Req \ {r} : status'[q] = status[q],
         status[r] \in Queued \ {"PREEMPTED"}, status'[r] \in Queued \ {"PREEMPTED"}
  PROVE  ListsInv' /\ OrderInv'
<1> USE DEF IInv
<1>0. /\ \A q \in Req : status'[q] \in Queued <=> status[q] \in Queued
      /\ \A q \in Req : status'[q] = "PREEMPTED" <=> status[q] = "PREEMPTED"
      /\ \A q \in Req : status'[q] = "RUNNING" <=> status[q] = "RUNNING"
  BY DEF Queued
<1>1. ListsInv'
  <2>1. {q \in Req : status'[q] \in Queued} = {q \in Req : status[q] \in Queued}
    BY <1>0
  <2>2. {q \in Req : status'[q] = "RUNNING"} = {q \in Req : status[q] = "RUNNING"}
    BY <1>0
  <2> QED
    BY <2>1, <2>2 DEF ListsInv
<1>2. InOrder(status', Queue)
  <2>1. Queue \in Seq(Req) /\ PartOf(Queue, Queue) /\ InOrder(status, Queue)
    BY QueueType, PartOfItself DEF OrderInv
  <2>2. \A q \in Elems(Queue) : status'[q] = "PREEMPTED" <=> status[q] = "PREEMPTED"
    BY <1>0, <2>1, ElemAt
  <2> QED
    BY <2>1, <2>2, OrderedPart
<1> QED
  BY <1>1, <1>2 DEF OrderInv

(* _update_waiting_for_remote_kv: all tokens but the last are computed. *)
LEMMA ResumeStep ==
  ASSUME IInv, NEW r \in Req, ResumeRemote(r)
  PROVE  IInv'
<1> USE DEF IInv
<1>1. /\ pc = "prefill" /\ pc' = "prefill" /\ status[r] = "WAITING_FOR_REMOTE_KVS"
      /\ recvDone' = recvDone \ {r} /\ status' = [status EXCEPT ![r] = "WAITING"]
      /\ numComputed' = [numComputed EXCEPT ![r] = Least(blocks[r] * BlockSize, numTokens[r] - 1)]
      /\ UNCHANGED <<numTokens, spec, doRemotePrefill, waiting, running, scheduledReqIds,
                     finishedReqIds, blocks, free, inflight, budget, skipped, reqIndex, sched,
                     loras>>
  BY DEF PrefillLoop, ResumeRemote, RemoteNotReady, setVars, poolVars, locals
<1>2. RequestOf(r) /\ FlightOf(r) /\ SchedOf(r) /\ MarkOf(r)
  BY DEF RequestInv, BatchInv
<1>3. /\ status \in [Req -> Statuses] /\ numComputed \in [Req -> 0 .. MaxModelLen]
      /\ numTokens[r] \in Nat /\ blocks[r] \in Nat /\ blocks[r] * BlockSize \in Nat
  BY Sizes, SMTT(40) DEF TypeOK
<1>4. /\ numTokens[r] - 1 \in 0 .. MaxModelLen
      /\ Least(blocks[r] * BlockSize, numTokens[r] - 1) = numTokens[r] - 1
      /\ numTokens[r] - 1 <= blocks[r] * BlockSize
      /\ r \notin doRemotePrefill
  <2>1. /\ numTokens[r] # 0 /\ numTokens[r] <= MaxModelLen
        /\ numTokens[r] - 1 <= blocks[r] * BlockSize /\ r \notin doRemotePrefill
    BY <1>1, <1>2 DEF RequestOf, Alive
  <2> QED
    BY <2>1, <1>3, Sizes DEF Least
<1>5. status'[r] = "WAITING" /\ numComputed'[r] = numTokens[r] - 1
  BY <1>1, <1>3, <1>4
<1>6. TypeOK'
  <2>1. status' \in [Req -> Statuses] /\ numComputed' \in [Req -> 0 .. MaxModelLen]
    BY <1>1, <1>3, <1>4 DEF Statuses
  <2> QED
    BY <1>1, <2>1 DEF TypeOK
<1>7. \A q \in Req \ {r} : SameRequest(q) /\ SameBatches(q)
  BY <1>1, <1>3 DEF SameRequest, SameBatches
<1>8. ListsInv' /\ OrderInv'
  <2>1. Queue' = Queue
    BY <1>1 DEF Queue
  <2>2. /\ \A q \in Req \ {r} : status'[q] = status[q]
        /\ status[r] \in Queued \ {"PREEMPTED"} /\ status'[r] \in Queued \ {"PREEMPTED"}
    BY <1>1, <1>3 DEF Queued
  <2> QED
    BY <2>1, <2>2, <1>1, <1>6, QueueKept
<1>9. RequestInv'
  <2>1. RequestOf(r)'
    BY <1>1, <1>2, <1>3, <1>4, <1>5 DEF RequestOf, Alive, Ended
  <2> QED
    BY <2>1, <1>7, RequestFrame DEF RequestInv
<1>10. BatchInv'
  <2>1. ~InFlight(r)
    BY <1>1, <1>2 DEF FlightOf, InFlight
  <2>2. ~(sched.tokens[r] > 0)
    BY <1>1, <1>2 DEF SchedOf
  <2>3. FlightOf(r)'
    BY <2>1, <1>1 DEF FlightOf, InFlight
  <2>4. SchedOf(r)'
    BY <2>2, <1>1, <1>2 DEF SchedOf
  <2>5. MarkOf(r)'
    BY <1>1, <1>2, <1>5 DEF MarkOf
  <2>6. FlightOf(r)' /\ SchedOf(r)' /\ MarkOf(r)'
    BY <2>3, <2>4, <2>5
  <2> QED
    BY <2>6, <1>7, BatchFrame DEF BatchInv
<1> QED
  BY <1>1, <1>6, <1>8, <1>9, <1>10 DEF PoolInv, BudgetInv, DecodeInv
(* popleft: the head of the queue leaves it. *)
LEMMA QueuePopped ==
  ASSUME IInv, pc = "prefill", pc' = "prefill", waiting # <<>>, NEW r \in Req,
         r = Head(waiting), waiting' = Tail(waiting), skipped' = skipped,
         \A q \in Req \ {r} : status'[q] = status[q], status'[r] \notin Queued,
         numTokens' = numTokens
  PROVE  /\ NoRepeats(Queue') /\ Elems(Queue') = {q \in Req : status'[q] \in Queued}
         /\ OrderInv'
<1> USE DEF IInv
<1>1. Queue' = Reverse(skipped) \o Tail(waiting)
  BY DEF Queue
<1>2. /\ Queue' \in Seq(Req) /\ Queue \in Seq(Req) /\ NoRepeats(Queue)
      /\ PartOf(Queue', Queue) /\ Elems(Queue') = Elems(Queue) \ {r}
  BY <1>1, HeadOfQueue
<1>3. NoRepeats(Queue')
  BY <1>2, PartKeeps
<1>4. \A q \in Elems(Queue') : q \in Req \ {r}
  BY <1>2, ElemAt
<1>5. Elems(Queue') = {q \in Req : status'[q] \in Queued}
  BY <1>2, <1>4 DEF ListsInv
<1>6. InOrder(status', Queue')
  <2>1. \A q \in Elems(Queue') : status'[q] = "PREEMPTED" <=> status[q] = "PREEMPTED"
    BY <1>4
  <2>2. InOrder(status, Queue)
    BY DEF OrderInv
  <2> QED
    BY <2>1, <2>2, <1>2, OrderedPart
<1> QED
  BY <1>3, <1>5, <1>6 DEF OrderInv

(* A considered request waits or was preempted, has a token to compute and *)
(* is in no batch.                                                         *)
LEMMA ConsideredFacts ==
  ASSUME IInv, NEW r \in Req, Considered(r)
  PROVE  /\ pc = "prefill" /\ waiting # <<>> /\ r = Head(waiting) /\ budget > 0
         /\ Len(running) # MaxNumSeqs
         /\ status[r] \in {"WAITING", "PREEMPTED"}
         /\ numTokens[r] \in 1 .. MaxModelLen /\ numComputed[r] \in 0 .. MaxModelLen
         /\ numComputed[r] < numTokens[r]
         /\ ~InFlight(r) /\ sched.tokens[r] = 0 /\ sched.drafts[r] = 0
         /\ r \notin scheduledReqIds
         /\ RequestOf(r)
<1> USE DEF IInv
<1>1. /\ pc = "prefill" /\ waiting # <<>> /\ r = Head(waiting) /\ budget > 0
      /\ Len(running) # MaxNumSeqs /\ status[r] # "WAITING_FOR_REMOTE_KVS"
  BY DEF Considered, PrefillLoop, RemoteNotReady
<1>2. status[r] \in {"WAITING", "PREEMPTED"}
  BY <1>1, HeadOfQueue DEF Queued
<1>3. RequestOf(r) /\ FlightOf(r) /\ SchedOf(r) /\ MarkOf(r)
  BY DEF RequestInv, BatchInv
<1>4. /\ numTokens[r] \in Nat /\ numComputed[r] \in 0 .. MaxModelLen
      /\ sched.tokens[r] \in Nat
  BY Sizes DEF TypeOK, Batch
<1>5. numTokens[r] \in 1 .. MaxModelLen
  BY <1>2, <1>3, <1>4, Sizes DEF RequestOf, Alive
<1>6. numComputed[r] < numTokens[r]
  BY <1>2, <1>3, <1>4, <1>5, Sizes DEF RequestOf
<1>7. ~InFlight(r)
  BY <1>2, <1>3 DEF FlightOf, InFlight
<1>8. sched.tokens[r] = 0 /\ sched.drafts[r] = 0
  BY <1>1, <1>2, <1>3, <1>4 DEF SchedOf
<1>9. r \notin scheduledReqIds
  BY <1>2, <1>3 DEF MarkOf
<1> QED
  BY <1>1, <1>2, <1>3, <1>4, <1>5, <1>6, <1>7, <1>8, <1>9

(* FINISHED_IGNORED: such a request never got a block. *)
LEMMA IgnoreStep ==
  ASSUME IInv, NEW r \in Req, Ignore(r)
  PROVE  IInv'
<1> USE DEF IInv
<1>1. /\ pc' = pc /\ status' = [status EXCEPT ![r] = "FINISHED_IGNORED"]
      /\ Considered(r) /\ NumNewTokens(r) > PromptLimit
      /\ finishedReqIds' = finishedReqIds \cup {r} /\ waiting' = Tail(waiting)
      /\ UNCHANGED <<numTokens, numComputed, spec, doRemotePrefill, recvDone, running,
                     scheduledReqIds, blocks, free, inflight, budget, skipped, reqIndex, sched,
                     loras>>
  BY DEF Ignore, poolVars, locals
<1>2. /\ pc = "prefill" /\ waiting # <<>> /\ r = Head(waiting)
      /\ status[r] \in {"WAITING", "PREEMPTED"}
      /\ numTokens[r] \in 1 .. MaxModelLen /\ numComputed[r] \in 0 .. MaxModelLen
      /\ ~InFlight(r) /\ sched.tokens[r] = 0 /\ sched.drafts[r] = 0
      /\ r \notin scheduledReqIds /\ RequestOf(r)
  BY <1>1, ConsideredFacts
<1>3. status \in [Req -> Statuses] /\ waiting' \in Seq(Req) /\ blocks[r] \in Nat
  <2>1. Tail(waiting) \in Seq(Req)
    BY <1>2, HeadOfQueue
  <2>2. blocks[r] \in Nat
    BY Sizes DEF TypeOK
  <2> QED
    BY <1>1, <2>1, <2>2 DEF TypeOK
<1>4. TypeOK'
  <2>1. status' \in [Req -> Statuses] /\ finishedReqIds' \subseteq Req
    BY <1>1, <1>3 DEF Statuses, TypeOK
  <2> QED
    BY <1>1, <1>3, <2>1 DEF TypeOK
<1>5. \A q \in Req \ {r} : SameRequest(q) /\ SameBatches(q) /\ status'[q] = status[q]
  BY <1>1, <1>3 DEF SameRequest, SameBatches
<1>6. status'[r] = "FINISHED_IGNORED" /\ status'[r] \notin Queued
  BY <1>1, <1>3 DEF Queued
<1>7. blocks[r] = 0
  <2>1. PromptLimit \in Int /\ PromptLimit >= 1
    <3>1. NumBlocks * BlockSize \in Nat \ {0}
      BY Sizes
    <3> QED
      BY <3>1, Sizes DEF PromptLimit, Least
  <2>2. NumNewTokens(r) > 1
    BY <2>1, <1>1, <1>2 DEF NumNewTokens
  <2>3. numComputed[r] # numTokens[r] - 1
    BY <2>2, <1>2 DEF NumNewTokens
  <2> QED
    BY <2>3, <1>2 DEF RequestOf
<1>8. NoRepeats(Queue') /\ Elems(Queue') = {q \in Req : status'[q] \in Queued} /\ OrderInv'
  BY <1>1, <1>2, <1>5, <1>6, QueuePopped
<1>9. ListsInv'
  <2>1. Elems(running') = {q \in Req : status'[q] = "RUNNING"}
    BY <1>1, <1>2, <1>3, <1>6 DEF ListsInv
  <2> QED
    BY <1>1, <1>8, <2>1 DEF ListsInv
<1>10. RequestInv'
  <2>1. RequestOf(r)'
    BY <1>1, <1>2, <1>6, <1>7 DEF RequestOf, Alive, Ended
  <2> QED
    BY <2>1, <1>5, RequestFrame DEF RequestInv
<1>11. BatchInv'
  <2>1. FlightOf(r)'
    BY <1>1, <1>2 DEF FlightOf, InFlight
  <2>2. SchedOf(r)' /\ MarkOf(r)'
    BY <1>1, <1>2, <1>6 DEF SchedOf, MarkOf
  <2> QED
    BY <2>1, <2>2, <1>5, BatchFrame DEF BatchInv
<1> QED
  BY <1>1, <1>2, <1>4, <1>8, <1>9, <1>10, <1>11 DEF PoolInv, BudgetInv, DecodeInv

(* The remote KV cache gets its blocks, and the request waits on. *)
LEMMA StartRemoteStep ==
  ASSUME IInv, NEW r \in Req, StartRemote(r)
  PROVE  IInv'
<1> USE DEF IInv
<1>1. /\ pc' = pc /\ status' = [status EXCEPT ![r] = "WAITING_FOR_REMOTE_KVS"]
      /\ Considered(r) /\ LoadKvAsync(r)
      /\ CanAllocate(r, ExternalTokens(r)) /\ Allocate(r, ExternalTokens(r))
      /\ doRemotePrefill' = doRemotePrefill \ {r}
      /\ waiting' = Tail(waiting) /\ skipped' = <<r>> \o skipped
      /\ UNCHANGED <<numTokens, numComputed, spec, recvDone, running, scheduledReqIds,
                     finishedReqIds, inflight, budget, reqIndex, sched, loras>>
  BY DEF StartRemote, Admissible
<1>2. /\ pc = "prefill" /\ waiting # <<>> /\ r = Head(waiting)
      /\ status[r] \in {"WAITING", "PREEMPTED"}
      /\ numTokens[r] \in 1 .. MaxModelLen /\ numComputed[r] \in 0 .. MaxModelLen
      /\ ~InFlight(r) /\ sched.tokens[r] = 0 /\ sched.drafts[r] = 0
      /\ r \notin scheduledReqIds /\ RequestOf(r)
  BY <1>1, ConsideredFacts
<1>3. /\ numComputed[r] = 0 /\ r \in doRemotePrefill
      /\ ExternalTokens(r) = numTokens[r] - 1 /\ ExternalTokens(r) \in Nat
      /\ numComputed[r] + ExternalTokens(r) <= MaxModelLen
  <2>1. numComputed[r] = 0 /\ r \in doRemotePrefill
    BY <1>1 DEF LoadKvAsync, ExternalTokens
  <2>2. ExternalTokens(r) = numTokens[r] - 1
    BY <2>1 DEF ExternalTokens
  <2> QED
    BY <2>1, <2>2, <1>2, Sizes
<1>4. status[r] = "WAITING"
  BY <1>2, <1>3 DEF RequestOf
<1>5. /\ blocks' \in [Req -> 0 .. NumBlocks] /\ free' \in 0 .. NumBlocks - 1 /\ PoolInv'
      /\ numComputed[r] + ExternalTokens(r) <= blocks'[r] * BlockSize
      /\ \A q \in Req \ {r} : blocks'[q] = blocks[q]
  BY <1>1, <1>3, AllocateEffect
<1>6. /\ status \in [Req -> Statuses] /\ waiting \in Seq(Req) /\ skipped \in Seq(Req)
      /\ waiting' \in Seq(Req) /\ Queue = Reverse(skipped) \o waiting
  BY <1>1, <1>2, HeadOfQueue DEF TypeOK
<1>7. /\ skipped' \in Seq(Req)
      /\ Reverse(skipped') \o waiting' = Reverse(skipped) \o waiting
  BY <1>1, <1>2, <1>6, SkipQueue
<1>8. TypeOK'
  <2>1. status' \in [Req -> Statuses] /\ doRemotePrefill' \subseteq RemoteReq
    BY <1>1, <1>6 DEF Statuses, TypeOK
  <2> QED
    BY <1>1, <1>5, <1>6, <1>7, <2>1 DEF TypeOK
<1>9. \A q \in Req \ {r} : SameRequest(q) /\ SameBatches(q) /\ status'[q] = status[q]
  BY <1>1, <1>5, <1>6 DEF SameRequest, SameBatches
<1>10. status'[r] = "WAITING_FOR_REMOTE_KVS"
  BY <1>1, <1>6
<1>11. ListsInv' /\ OrderInv'
  <2>1. Queue' = Queue
    BY <1>1, <1>2, <1>6, <1>7 DEF Queue
  <2>2. status[r] \in Queued \ {"PREEMPTED"} /\ status'[r] \in Queued \ {"PREEMPTED"}
    BY <1>4, <1>10 DEF Queued
  <2> QED
    BY <2>1, <2>2, <1>1, <1>9, QueueKept
<1>12. RequestInv'
  <2>1. r \notin doRemotePrefill' /\ numTokens[r] # 0 /\ numTokens[r] <= MaxModelLen
        /\ numTokens[r] - 1 <= blocks'[r] * BlockSize /\ 0 <= blocks'[r] * BlockSize
    BY <1>1, <1>2, <1>3, <1>5, Sizes, SMTT(40)
  <2>2. RequestOf(r)'
    BY <2>1, <1>1, <1>3, <1>10 DEF RequestOf, Alive, Ended
  <2> QED
    BY <2>2, <1>9, RequestFrame DEF RequestInv
<1>13. BatchInv'
  <2>1. FlightOf(r)'
    BY <1>1, <1>2 DEF FlightOf, InFlight
  <2>2. SchedOf(r)' /\ MarkOf(r)'
    BY <1>1, <1>2, <1>10 DEF SchedOf, MarkOf
  <2> QED
    BY <2>1, <2>2, <1>9, BatchFrame DEF BatchInv
<1> QED
  BY <1>1, <1>2, <1>5, <1>8, <1>11, <1>12, <1>13 DEF BudgetInv, DecodeInv
(* token_budget: what a request gets is what the budget loses. *)
LEMMA BudgetSpent ==
  ASSUME IInv, pc # "idle", NEW r \in Req, NEW n \in 1 .. MaxModelLen, n <= budget,
         sched.tokens[r] = 0, sched'.tokens[r] = n,
         \A q \in Req \ {r} : sched'.tokens[q] = sched.tokens[q],
         budget' = budget - n, inflight' = inflight
  PROVE  budget' \in 0 .. MaxBatchedTokens /\ BudgetInv'
<1> USE DEF IInv
<1>1. /\ sched.tokens \in [Req -> 0 .. MaxModelLen] /\ budget \in 0 .. MaxBatchedTokens
      /\ MaxModelLen \in Nat /\ n \in Nat /\ IsFiniteSet(Req) /\ n <= MaxModelLen
  BY Sizes, ReqFinite DEF TypeOK, Batch
<1>2. sched.tokens[r] + n <= MaxModelLen /\ sched'.tokens[r] = sched.tokens[r] + n
  BY <1>1
<1>3. Total(sched'.tokens, Req, MaxModelLen) = Total(sched.tokens, Req, MaxModelLen) + n
  BY <1>1, <1>2, TotalAdd
<1>4. Total(sched.tokens, Req, MaxModelLen) \in Nat
  BY <1>1, TotalType
<1>5. /\ budget + Total(sched.tokens, Req, MaxModelLen) = MaxBatchedTokens
      /\ Len(inflight) < MaxInFlight
  BY DEF BudgetInv
<1>6. budget' + Total(sched'.tokens, Req, MaxModelLen) = MaxBatchedTokens
  BY <1>1, <1>3, <1>4, <1>5, Sizes
<1>7. budget' \in 0 .. MaxBatchedTokens
  BY <1>1, Sizes
<1> QED
  BY <1>5, <1>6, <1>7 DEF BudgetInv

(* The whole prompt enters the batch, and the request runs. *)
LEMMA StartPrefillStep ==
  ASSUME IInv, NEW r \in Req, StartPrefill(r)
  PROVE  IInv'
<1> USE DEF IInv
<1> DEFINE n == NumNewTokens(r)
<1>1. /\ pc' = pc /\ status' = [status EXCEPT ![r] = "RUNNING"]
      /\ Considered(r) /\ n <= Least(PromptLimit, budget) /\ ~LoadKvAsync(r)
      /\ CanAllocate(r, n) /\ Allocate(r, n)
      /\ doRemotePrefill' = doRemotePrefill \ {r}
      /\ waiting' = Tail(waiting) /\ running' = Append(running, r)
      /\ scheduledReqIds' = scheduledReqIds \cup {r}
      /\ sched' = [sched EXCEPT !.tokens[r] = n,
                                !.new = IF status[r] = "WAITING" THEN @ \cup {r} ELSE @,
                                !.resumed = IF status[r] = "PREEMPTED" THEN @ \cup {r} ELSE @]
      /\ loras' = WithLora(r) /\ budget' = budget - n
      /\ UNCHANGED <<numTokens, numComputed, spec, recvDone, finishedReqIds, inflight,
                     skipped, reqIndex>>
  BY DEF StartPrefill, Admissible, MarkScheduled
<1>2. /\ pc = "prefill" /\ waiting # <<>> /\ r = Head(waiting)
      /\ status[r] \in {"WAITING", "PREEMPTED"}
      /\ numTokens[r] \in 1 .. MaxModelLen /\ numComputed[r] \in 0 .. MaxModelLen
      /\ numComputed[r] < numTokens[r] /\ Len(running) # MaxNumSeqs
      /\ ~InFlight(r) /\ sched.tokens[r] = 0 /\ sched.drafts[r] = 0
      /\ r \notin scheduledReqIds /\ RequestOf(r)
  BY <1>1, ConsideredFacts
<1>3. /\ n = numTokens[r] - numComputed[r] /\ n \in 1 .. MaxModelLen /\ n \in Nat
      /\ numComputed[r] + n = numTokens[r] /\ numComputed[r] + n <= MaxModelLen
  <2>1. n = numTokens[r] - numComputed[r]
    BY <1>1 DEF NumNewTokens
  <2> HIDE DEF n
  <2> QED
    BY <2>1, <1>2, Sizes, SMTT(40)
<1> HIDE DEF n
<1>4. n <= budget /\ budget \in Nat
  <2>1. PromptLimit \in Int
    <3>1. NumBlocks * BlockSize \in Int
      BY Sizes
    <3> QED
      BY <3>1, Sizes DEF PromptLimit, Least
  <2>2. budget \in Nat
    BY Sizes DEF TypeOK
  <2> QED
    BY <2>1, <2>2, <1>1, <1>3 DEF Least
<1>5. /\ blocks' \in [Req -> 0 .. NumBlocks] /\ free' \in 0 .. NumBlocks - 1 /\ PoolInv'
      /\ numComputed[r] + n <= blocks'[r] * BlockSize
      /\ \A q \in Req \ {r} : blocks'[q] = blocks[q]
  BY <1>1, <1>3, AllocateEffect
<1>6. /\ status \in [Req -> Statuses] /\ running \in Seq(Req) /\ waiting' \in Seq(Req)
      /\ sched \in Batch
  BY <1>1, <1>2, HeadOfQueue DEF TypeOK
<1>7. /\ sched' \in Batch /\ sched'.tokens[r] = n /\ sched'.drafts = sched.drafts
      /\ \A q \in Req \ {r} : sched'.tokens[q] = sched.tokens[q]
  <2>1. /\ sched.tokens \in [Req -> 0 .. MaxModelLen] /\ sched.drafts \in [Req -> 0 .. NumSpec]
        /\ sched.new \in SUBSET Req /\ sched.resumed \in SUBSET Req
    BY <1>6 DEF Batch
  <2>2. PICK new, resumed \in SUBSET Req :
          sched' = [sched EXCEPT !.tokens[r] = n, !.new = new, !.resumed = resumed]
    <3>1. /\ (IF status[r] = "WAITING" THEN sched.new \cup {r} ELSE sched.new) \in SUBSET Req
          /\ (IF status[r] = "PREEMPTED" THEN sched.resumed \cup {r} ELSE sched.resumed)
                \in SUBSET Req
      BY <2>1
    <3> QED
      BY <3>1, <1>1
  <2>3. sched' = [tokens |-> [sched.tokens EXCEPT ![r] = n], drafts |-> sched.drafts,
                  new |-> new, resumed |-> resumed]
    BY <2>2, <1>6 DEF Batch
  <2>4. [sched.tokens EXCEPT ![r] = n] \in [Req -> 0 .. MaxModelLen]
    BY <2>1, <1>3, Sizes
  <2> QED
    BY <2>1, <2>3, <2>4 DEF Batch
<1>8. budget' \in 0 .. MaxBatchedTokens /\ BudgetInv'
  BY <1>1, <1>2, <1>3, <1>4, <1>7, BudgetSpent
<1>9. /\ running' \in Seq(Req) /\ Len(running') = Len(running) + 1 /\ Len(running) \in Nat
      /\ r \notin Elems(running) /\ NoRepeats(running)
      /\ Elems(running') = Elems(running) \cup {r} /\ NoRepeats(running')
  <2>1. r \notin Elems(running) /\ NoRepeats(running)
    BY <1>2 DEF ListsInv
  <2>2. Elems(running') = Elems(running) \cup {r} /\ NoRepeats(running')
    BY <2>1, <1>1, <1>6, AppendElems
  <2>3. running' \in Seq(Req) /\ Len(running') = Len(running) + 1 /\ Len(running) \in Nat
    BY <1>1, <1>6, AppendProperties, LenProperties
  <2> QED
    BY <2>1, <2>2, <2>3
<1>10. TypeOK'
  <2>1. /\ status' \in [Req -> Statuses] /\ doRemotePrefill' \subseteq RemoteReq
        /\ scheduledReqIds' \subseteq Req /\ loras' \subseteq {Lora[q] : q \in Req}
    BY <1>1, <1>6 DEF Statuses, TypeOK, WithLora
  <2> QED
    BY <1>1, <1>5, <1>6, <1>7, <1>8, <1>9, <2>1 DEF TypeOK
<1>11. \A q \in Req \ {r} : SameRequest(q) /\ SameBatches(q) /\ status'[q] = status[q]
  BY <1>1, <1>5, <1>6, <1>7 DEF SameRequest, SameBatches
<1>12. status'[r] = "RUNNING" /\ status'[r] \notin Queued
  BY <1>1, <1>6 DEF Queued
<1>13. NoRepeats(Queue') /\ Elems(Queue') = {q \in Req : status'[q] \in Queued} /\ OrderInv'
  BY <1>1, <1>2, <1>11, <1>12, QueuePopped
<1>14. ListsInv'
  <2>1. Elems(running') = {q \in Req : status'[q] = "RUNNING"}
    BY <1>9, <1>11, <1>12 DEF ListsInv
  <2>2. Len(running') <= MaxNumSeqs
    BY <1>2, <1>9, Sizes DEF ListsInv
  <2> QED
    BY <1>9, <1>13, <2>1, <2>2 DEF ListsInv
<1>15. RequestInv'
  <2>1. r \notin doRemotePrefill' /\ numTokens[r] # 0 /\ numTokens[r] <= MaxModelLen
        /\ numComputed[r] <= blocks'[r] * BlockSize /\ r \in scheduledReqIds'
    <3>1. blocks'[r] * BlockSize \in Nat
      BY <1>5, Sizes
    <3>2. r \notin doRemotePrefill' /\ r \in scheduledReqIds'
      BY <1>1
    <3> QED
      BY <3>1, <3>2, <1>2, <1>3, <1>5, Sizes
  <2>2. RequestOf(r)'
    BY <2>1, <1>1, <1>12 DEF RequestOf, Alive, Ended
  <2> QED
    BY <2>2, <1>11, RequestFrame DEF RequestInv
<1>16. BatchInv'
  <2>1. FlightOf(r)' /\ ~InFlight(r)'
    BY <1>1, <1>2 DEF FlightOf, InFlight
  <2>2. SchedOf(r)'
    BY <2>1, <1>1, <1>2, <1>3, <1>5, <1>7, <1>12 DEF SchedOf
  <2>3. MarkOf(r)'
    BY <1>1, <1>2, <1>3, <1>7, <1>12 DEF MarkOf
  <2> QED
    BY <2>1, <2>2, <2>3, <1>11, BatchFrame DEF BatchInv
<1> QED
  BY <1>1, <1>2, <1>5, <1>8, <1>10, <1>13, <1>14, <1>15, <1>16 DEF DecodeInv

(* The skipped requests are put back, and a decode batch is built only if  *)
(* nothing is scheduled.                                                   *)
LEMMA PutBackStep ==
  ASSUME IInv, PutBack
  PROVE  IInv'
<1> USE DEF IInv
<1>1. /\ pc = "prefill" /\ waiting' = Reverse(skipped) \o waiting
      /\ pc' = IF scheduledReqIds = {} THEN "decode" ELSE "output"
      /\ reqIndex' = 1
      /\ UNCHANGED <<status, numTokens, numComputed, spec, doRemotePrefill, recvDone, running,
                     scheduledReqIds, finishedReqIds, blocks, free, inflight, budget, skipped,
                     sched, loras>>
  BY DEF PutBack, NothingScheduled, reqVars, poolVars
<1>2. Queue' = Queue /\ waiting' \in Seq(Req)
  BY <1>1, QueueType DEF Queue
<1>3. TypeOK'
  <2>1. reqIndex' \in 1 .. NumReq + 1 /\ pc' \in {"idle", "prefill", "decode", "output"}
    BY <1>1, Sizes
  <2> QED
    BY <2>1, <1>1, <1>2 DEF TypeOK
<1>4. \A q \in Req : SameRequest(q) /\ SameBatches(q)
  BY <1>1 DEF SameRequest, SameBatches
<1>5. ListsInv' /\ OrderInv'
  BY <1>1, <1>2 DEF ListsInv, OrderInv
<1>6. RequestInv'
  BY <1>4, RequestFrame DEF RequestInv
<1>7. BatchInv'
  BY <1>4, BatchFrame DEF BatchInv
<1>8. DecodeInv'
  BY <1>1 DEF DecodeInv
<1> QED
  BY <1>1, <1>3, <1>5, <1>6, <1>7, <1>8 DEF PoolInv, BudgetInv
-----------------------------------------------------------------------------
(* The decode loop. *)

(* The request the decode loop is at: none of its tokens is on the way. *)
LEMMA DecodeFacts ==
  ASSUME IInv, pc = "decode", NEW i \in reqIndex .. Len(running), NEW r, r = running[i]
  PROVE  /\ r \in Req /\ status[r] = "RUNNING" /\ r \notin scheduledReqIds
         /\ numTokens[r] \in 1 .. MaxModelLen /\ numComputed[r] \in 0 .. MaxModelLen
         /\ numTokens[r] = numComputed[r] + 1
         /\ ~InFlight(r) /\ sched.tokens[r] = 0 /\ sched.drafts[r] = 0
         /\ RequestOf(r) /\ i \in 1 .. Len(running)
         /\ running \in Seq(Req) /\ Len(running) \in Nat /\ Len(running) <= NumReq
<1> USE DEF IInv
<1>1. /\ running \in Seq(Req) /\ reqIndex \in Nat \ {0} /\ Len(running) \in Nat
      /\ NoRepeats(running)
  BY Sizes, LenProperties DEF TypeOK, ListsInv
<1>2. i \in 1 .. Len(running) /\ r \in Elems(running)
  BY <1>1 DEF Elems
<1>3. r \in Req /\ status[r] = "RUNNING"
  BY <1>2 DEF ListsInv
<1>4. r \notin scheduledReqIds
  BY DEF DecodeInv
<1>5. RequestOf(r) /\ FlightOf(r) /\ SchedOf(r) /\ MarkOf(r)
  BY <1>3 DEF RequestInv, BatchInv
<1>6. /\ numTokens[r] \in Nat /\ numComputed[r] \in 0 .. MaxModelLen
      /\ sched.tokens[r] \in Nat
  BY <1>3, Sizes DEF TypeOK, Batch
<1>7. numTokens[r] = numComputed[r] + 1 /\ numTokens[r] \in 1 .. MaxModelLen
  BY <1>3, <1>4, <1>5, <1>6, Sizes DEF RequestOf, Alive
<1>8. ~InFlight(r) /\ ~(sched.tokens[r] > 0)
  BY <1>3, <1>4, <1>5 DEF MarkOf
<1>9. sched.tokens[r] = 0 /\ sched.drafts[r] = 0
  BY <1>5, <1>6, <1>8 DEF SchedOf
<1>10. Len(running) <= NumReq
  BY <1>1, ReqFinite, NoRepeatsShort
<1> QED
  BY <1>1, <1>2, <1>3, <1>4, <1>5, <1>6, <1>7, <1>8, <1>9, <1>10

(* An index moves on, or the loop ends. *)
LEMMA DecodeSkipStep ==
  ASSUME IInv, DecodeSkip \/ DecodeEnds
  PROVE  IInv'
<1> USE DEF IInv
<1>1. /\ pc = "decode" /\ pc' \in {"decode", "output"}
      /\ UNCHANGED <<status, numTokens, numComputed, spec, doRemotePrefill, recvDone, waiting,
                     running, scheduledReqIds, finishedReqIds, blocks, free, inflight, budget,
                     skipped, sched, loras>>
  BY DEF DecodeSkip, DecodeEnds, DecodeLoop, reqVars, setVars, poolVars, locals
<1>2. \/ pc' = "decode" /\ reqIndex' = reqIndex + 1 /\ reqIndex <= Len(running)
      \/ pc' = "output" /\ reqIndex' = reqIndex
  BY <1>1 DEF DecodeSkip, DecodeEnds, DecodeLoop, locals
<1>3. reqIndex \in 1 .. NumReq + 1 /\ Len(running) \in Nat
  BY LenProperties DEF TypeOK
<1>4. reqIndex' \in 1 .. NumReq + 1
  <2>1. CASE reqIndex' = reqIndex + 1 /\ reqIndex <= Len(running)
    <3>1. reqIndex \in reqIndex .. Len(running)
      BY <2>1, <1>3, Sizes
    <3>2. Len(running) <= NumReq
      BY <3>1, <1>1, DecodeFacts
    <3> QED
      BY <2>1, <3>2, <1>3, Sizes
  <2> QED
    BY <2>1, <1>2, <1>3
<1>5. TypeOK'
  BY <1>1, <1>4 DEF TypeOK
<1>6. \A q \in Req : SameRequest(q) /\ SameBatches(q)
  BY <1>1 DEF SameRequest, SameBatches
<1>7. Queue' = Queue
  BY <1>1 DEF Queue
<1>8. ListsInv' /\ OrderInv'
  BY <1>1, <1>7 DEF ListsInv, OrderInv
<1>9. RequestInv'
  BY <1>6, RequestFrame DEF RequestInv
<1>10. BatchInv'
  BY <1>6, BatchFrame DEF BatchInv
<1>11. DecodeInv'
  BY <1>1, <1>2, <1>3, Sizes DEF DecodeInv
<1> QED
  BY <1>1, <1>5, <1>8, <1>9, <1>10, <1>11 DEF PoolInv, BudgetInv

(* One token and its drafts enter the batch. *)
LEMMA DecodeOneStep ==
  ASSUME IInv, DecodeOne
  PROVE  IInv'
<1> USE DEF IInv
<1>0. PICK r, n : r = running[reqIndex] /\ n = DecodeTokens(r)
  OBVIOUS
<1> DEFINE d == n + numComputed[r] - numTokens[r]
<1>1. /\ pc = "decode" /\ pc' = pc /\ reqIndex <= Len(running) /\ n > 0
      /\ CanAllocate(r, n) /\ Allocate(r, n)
      /\ scheduledReqIds' = scheduledReqIds \cup {r}
      /\ sched' = [sched EXCEPT !.tokens[r] = n, !.drafts[r] = IF d > 0 THEN d ELSE 0]
      /\ spec' = [spec EXCEPT ![r] = IF d > 0 THEN d ELSE spec[r]]
      /\ loras' = WithLora(r) /\ budget' = budget - n /\ reqIndex' = reqIndex + 1
      /\ UNCHANGED <<status, numTokens, numComputed, doRemotePrefill, recvDone, waiting,
                     running, finishedReqIds, inflight, skipped>>
  BY <1>0 DEF DecodeOne, DecodeLoop, MarkScheduled
<1>2. reqIndex \in 1 .. NumReq + 1 /\ Len(running) \in Nat /\ reqIndex \in reqIndex .. Len(running)
  BY <1>1, LenProperties DEF TypeOK
<1>3. /\ r \in Req /\ status[r] = "RUNNING" /\ r \notin scheduledReqIds
      /\ numTokens[r] \in 1 .. MaxModelLen /\ numComputed[r] \in 0 .. MaxModelLen
      /\ numTokens[r] = numComputed[r] + 1
      /\ ~InFlight(r) /\ sched.tokens[r] = 0 /\ sched.drafts[r] = 0
      /\ RequestOf(r) /\ reqIndex \in 1 .. Len(running)
      /\ running \in Seq(Req) /\ Len(running) <= NumReq
  BY <1>0, <1>1, <1>2, DecodeFacts
<1>4. /\ spec \in [Req -> 0 .. NumSpec] /\ budget \in Nat /\ sched \in Batch
      /\ spec[r] \in 0 .. NumSpec
  BY <1>3, Sizes DEF TypeOK
<1>5. /\ n \in Nat /\ n <= budget /\ n <= spec[r] + 1
      /\ numComputed[r] + n <= MaxModelLen /\ n \in 1 .. MaxModelLen
  <2>1. n = Least(Least(numTokens[r] + spec[r] - numComputed[r], budget),
                  MaxModelLen - numComputed[r])
    BY <1>0, <1>1 DEF DecodeTokens
  <2>2. n > 0
    BY <1>1
  <2>3. \A c, t, a, b, m \in Int :
          t = c + 1 /\ n = Least(Least(t + a - c, b), m - c) /\ n > 0 /\ c >= 0
          => n \in Nat /\ n <= b /\ n <= a + 1 /\ c + n <= m /\ n \in 1 .. m
    BY DEF Least
  <2>4. /\ numComputed[r] \in Int /\ numTokens[r] \in Int /\ spec[r] \in Int /\ budget \in Int
        /\ MaxModelLen \in Int /\ numComputed[r] >= 0
    BY <1>3, <1>4, Sizes
  <2> QED
    BY <2>1, <2>2, <2>3, <2>4, <1>3
<1>6. d = n - 1 /\ d \in 0 .. NumSpec /\ (IF d > 0 THEN d ELSE 0) = d
  <2>1. n \in Nat /\ n >= 1 /\ n <= spec[r] + 1 /\ spec[r] \in Int /\ spec[r] <= NumSpec
        /\ NumSpec \in Int
    BY <1>4, <1>5, Sizes
  <2>2. d = n - 1
    BY <2>1, <1>3, Sizes
  <2> HIDE DEF d
  <2> QED
    BY <2>1, <2>2
<1> HIDE DEF d
<1>7. /\ blocks' \in [Req -> 0 .. NumBlocks] /\ free' \in 0 .. NumBlocks - 1 /\ PoolInv'
      /\ numComputed[r] + n <= blocks'[r] * BlockSize
      /\ \A q \in Req \ {r} : blocks'[q] = blocks[q]
  BY <1>1, <1>3, <1>5, AllocateEffect
<1>8. /\ sched' \in Batch /\ sched'.tokens[r] = n /\ sched'.drafts[r] = d
      /\ \A q \in Req \ {r} : /\ sched'.tokens[q] = sched.tokens[q]
                                /\ sched'.drafts[q] = sched.drafts[q]
  <2>1. /\ sched.tokens \in [Req -> 0 .. MaxModelLen] /\ sched.drafts \in [Req -> 0 .. NumSpec]
        /\ sched.new \in SUBSET Req /\ sched.resumed \in SUBSET Req
    BY <1>4 DEF Batch
  <2>2. sched' = [tokens |-> [sched.tokens EXCEPT ![r] = n],
                  drafts |-> [sched.drafts EXCEPT ![r] = d],
                  new |-> sched.new, resumed |-> sched.resumed]
    <3>1. sched' = [sched EXCEPT !.tokens[r] = n, !.drafts[r] = d]
      BY <1>1, <1>6
    <3> QED
      BY <3>1, <1>4 DEF Batch
  <2>3. [sched.tokens EXCEPT ![r] = n] \in [Req -> 0 .. MaxModelLen]
    <3>1. n \in 0 .. MaxModelLen
      BY <1>5, Sizes
    <3> QED
      BY <2>1, <3>1
  <2>4. [sched.drafts EXCEPT ![r] = d] \in [Req -> 0 .. NumSpec]
    BY <2>1, <1>6
  <2> QED
    BY <2>1, <2>2, <2>3, <2>4, <1>3 DEF Batch
<1>9. budget' \in 0 .. MaxBatchedTokens /\ BudgetInv'
  BY <1>1, <1>3, <1>5, <1>8, BudgetSpent
<1>10. TypeOK'
  <2>1. /\ scheduledReqIds' \subseteq Req /\ loras' \subseteq {Lora[q] : q \in Req}
    BY <1>1, <1>3 DEF TypeOK, WithLora
  <2>2. reqIndex' \in 1 .. NumReq + 1
    BY <1>1, <1>2, <1>3, Sizes, SMTT(40)
  <2>3. spec' \in [Req -> 0 .. NumSpec]
    BY <1>1, <1>4, <1>6
  <2> QED
    BY <1>1, <1>7, <1>8, <1>9, <2>1, <2>2, <2>3 DEF TypeOK
<1>11. \A q \in Req \ {r} : SameRequest(q) /\ SameBatches(q)
  BY <1>1, <1>7, <1>8 DEF SameRequest, SameBatches
<1>12. ListsInv' /\ OrderInv'
  <2>1. Queue' = Queue
    BY <1>1 DEF Queue
  <2> QED
    BY <2>1, <1>1 DEF ListsInv, OrderInv
<1>13. RequestInv'
  <2>1. numComputed[r] <= blocks'[r] * BlockSize /\ r \in scheduledReqIds'
    <3>1. blocks'[r] * BlockSize \in Nat
      BY <1>3, <1>7, Sizes, SMTT(40)
    <3> QED
      BY <3>1, <1>1, <1>3, <1>5, <1>7
  <2>2. RequestOf(r)'
    BY <2>1, <1>1, <1>3 DEF RequestOf, Alive, Ended
  <2> QED
    BY <2>2, <1>11, RequestFrame DEF RequestInv
<1>14. BatchInv'
  <2>1. FlightOf(r)' /\ ~InFlight(r)'
    BY <1>1, <1>3 DEF FlightOf, InFlight
  <2>2. numTokens[r] + d = numComputed[r] + n
    BY <1>3, <1>5, <1>6
  <2>3. SchedOf(r)'
    BY <2>1, <2>2, <1>1, <1>3, <1>5, <1>7, <1>8, SMTT(40) DEF SchedOf
  <2>4. MarkOf(r)'
    BY <1>1, <1>3, <1>5, <1>8 DEF MarkOf
  <2> QED
    BY <2>1, <2>3, <2>4, <1>11, BatchFrame DEF BatchInv
<1>15. DecodeInv'
  <2> SUFFICES ASSUME NEW i \in reqIndex + 1 .. Len(running)
               PROVE  running[i] \notin scheduledReqIds'
    BY <1>1 DEF DecodeInv
  <2>1. i \in reqIndex .. Len(running) /\ i \in 1 .. Len(running) /\ i # reqIndex
    BY <1>2, Sizes
  <2>2. running[i] \notin scheduledReqIds
    BY <2>1, <1>1 DEF DecodeInv
  <2>3. running[i] # r
    BY <2>1, <1>0, <1>3 DEF ListsInv, NoRepeats
  <2> QED
    BY <2>2, <2>3, <1>1
<1> QED
  BY <1>7, <1>9, <1>10, <1>12, <1>13, <1>14, <1>15
(* The last running request gives its blocks back and goes to the front of *)
(* the queue; it is in no batch.                                           *)
LEMMA PreemptStep ==
  ASSUME IInv, Preempt
  PROVE  IInv'
<1> USE DEF IInv
<1>0. PICK v : v = running[Len(running)]
  OBVIOUS
<1>1. /\ pc = "decode" /\ pc' \in {"decode", "output"} /\ reqIndex <= Len(running)
      /\ running' = Without(running, {v})
      /\ FreeBlocks({v})
      /\ status' = [status EXCEPT ![v] = "PREEMPTED"]
      /\ numComputed' = [numComputed EXCEPT ![v] = 0]
      /\ waiting' = <<v>> \o waiting
      /\ UNCHANGED <<numTokens, spec, doRemotePrefill, recvDone, scheduledReqIds, finishedReqIds,
                     inflight, budget, skipped, reqIndex, sched, loras>>
  BY <1>0 DEF Preempt, DecodeLoop, Victim, Last, ResetComputed, locals
<1>2. /\ reqIndex \in 1 .. NumReq + 1 /\ Len(running) \in Nat
      /\ Len(running) \in reqIndex .. Len(running)
  BY <1>1, LenProperties DEF TypeOK
<1>3. /\ v \in Req /\ status[v] = "RUNNING" /\ v \notin scheduledReqIds
      /\ numTokens[v] \in 1 .. MaxModelLen
      /\ ~InFlight(v) /\ sched.tokens[v] = 0 /\ sched.drafts[v] = 0
      /\ RequestOf(v) /\ running \in Seq(Req)
  BY <1>0, <1>1, <1>2, DecodeFacts
<1>4. /\ blocks' \in [Req -> 0 .. NumBlocks] /\ free' \in 0 .. NumBlocks - 1 /\ PoolInv'
      /\ blocks'[v] = 0 /\ \A q \in Req \ {v} : blocks'[q] = blocks[q]
  BY <1>1, <1>3, FreeEffect
<1>5. /\ status \in [Req -> Statuses] /\ numComputed \in [Req -> 0 .. MaxModelLen]
      /\ waiting \in Seq(Req)
  BY DEF TypeOK
<1>6. /\ running' \in Seq(Req) /\ PartOf(running', running)
      /\ Elems(running') = Elems(running) \ {v}
      /\ NoRepeats(running') /\ Len(running') <= Len(running) /\ Len(running') \in Nat
  <2>1. /\ running' \in Seq(Req) /\ PartOf(running', running)
        /\ Elems(running') = Elems(running) \ {v}
    BY <1>1, <1>3, WithoutPart
  <2>2. NoRepeats(running') /\ Len(running') <= Len(running)
    BY <2>1, <1>3, PartKeeps DEF ListsInv
  <2> QED
    BY <2>1, <2>2, LenProperties
<1>7. Queue = waiting /\ Queue' = waiting' /\ NoRepeats(waiting) /\ v \notin Elems(waiting)
  <2>1. Queue = waiting /\ Queue' = waiting'
    BY <1>1 DEF Queue
  <2> QED
    BY <2>1, <1>3 DEF ListsInv, Queued
<1>8. /\ waiting' \in Seq(Req) /\ Len(waiting') = Len(waiting) + 1 /\ Len(waiting) \in Nat
      /\ waiting'[1] = v
      /\ \A i \in 2 .. Len(waiting) + 1 : waiting'[i] = waiting[i - 1] /\ i - 1 \in 1 .. Len(waiting)
      /\ Elems(waiting') = Elems(waiting) \cup {v} /\ NoRepeats(waiting')
  BY <1>1, <1>3, <1>5, <1>7, PrependElems
<1>9. TypeOK'
  <2>1. 0 \in 0 .. MaxModelLen
    BY Sizes
  <2>2. numComputed' \in [Req -> 0 .. MaxModelLen]
    BY <1>1, <1>5, <2>1
  <2>3. status' \in [Req -> Statuses]
    BY <1>1, <1>5 DEF Statuses
  <2> QED
    BY <1>1, <1>4, <1>6, <1>8, <2>2, <2>3 DEF TypeOK
<1>10. \A q \in Req \ {v} : SameRequest(q) /\ SameBatches(q) /\ status'[q] = status[q]
  BY <1>1, <1>4, <1>5 DEF SameRequest, SameBatches
<1>11. status'[v] = "PREEMPTED" /\ numComputed'[v] = 0
  BY <1>1, <1>3, <1>5
<1>12. ListsInv'
  <2>1. Elems(waiting') = {q \in Req : status'[q] \in Queued}
    <3>1. Elems(waiting) = {q \in Req : status[q] \in Queued}
      BY <1>7 DEF ListsInv
    <3>2. Elems(waiting') = Elems(waiting) \cup {v} /\ status'[v] \in Queued
      BY <1>8, <1>11 DEF Queued
    <3> QED
      BY <3>1, <3>2, <1>3, <1>10
  <2>2. Elems(running') = {q \in Req : status'[q] = "RUNNING"}
    BY <1>3, <1>6, <1>10, <1>11, Zenon DEF ListsInv
  <2>3. Len(running') <= MaxNumSeqs
    BY <1>2, <1>6, Sizes DEF ListsInv
  <2> QED
    BY <1>6, <1>7, <1>8, <2>1, <2>2, <2>3 DEF ListsInv
<1>13. OrderInv'
  <2>1. InOrder(status', waiting')
    <3> SUFFICES ASSUME NEW i \in 1 .. Len(waiting'), NEW j \in 1 .. Len(waiting'), i < j
                 PROVE  Ahead(status', waiting'[i], waiting'[j])
      BY DEF InOrder
    <3>1. CASE i = 1
      BY <3>1, <1>8, <1>11 DEF Ahead
    <3>2. CASE i # 1
      <4>1. i \in 2 .. Len(waiting) + 1 /\ j \in 2 .. Len(waiting) + 1 /\ i - 1 < j - 1
        BY <3>2, <1>8
      <4>2. /\ waiting'[i] = waiting[i - 1] /\ waiting'[j] = waiting[j - 1]
            /\ i - 1 \in 1 .. Len(waiting) /\ j - 1 \in 1 .. Len(waiting)
        BY <4>1, <1>8
      <4>3. Ahead(status, waiting[i - 1], waiting[j - 1])
        BY <4>1, <4>2, <1>7 DEF OrderInv, InOrder
      <4>4. /\ waiting[i - 1] \in Req \ {v} /\ waiting[j - 1] \in Req \ {v}
        BY <4>2, <1>5, <1>7, ElemAt, SMTT(40)
      <4> QED
        BY <4>2, <4>3, <4>4, <1>10 DEF Ahead
    <3> QED
      BY <3>1, <3>2
  <2> QED
    BY <2>1, <1>1, <1>7 DEF OrderInv
<1>14. RequestInv'
  <2>1. RequestOf(v)'
    BY <1>1, <1>3, <1>4, <1>11, Sizes DEF RequestOf, Alive, Ended
  <2> QED
    BY <2>1, <1>10, RequestFrame DEF RequestInv
<1>15. BatchInv'
  <2>1. FlightOf(v)'
    BY <1>1, <1>3 DEF FlightOf, InFlight
  <2>2. SchedOf(v)' /\ MarkOf(v)'
    BY <1>1, <1>3, <1>11 DEF SchedOf, MarkOf
  <2> QED
    BY <2>1, <2>2, <1>10, BatchFrame DEF BatchInv
<1>16. DecodeInv'
  <2>1. PICK h : Picks(h, running', running)
    BY <1>6 DEF PartOf
  <2> SUFFICES ASSUME NEW i \in reqIndex .. Len(running')
               PROVE  running'[i] \notin scheduledReqIds
    BY <1>1 DEF DecodeInv
  <2>2. i \in 1 .. Len(running')
    BY <1>2, <1>6
  <2>3. running'[i] = running[h[i]] /\ h[i] \in reqIndex .. Len(running)
    BY <2>1, <2>2, <1>2, <1>6 DEF Picks
  <2> QED
    BY <2>3, <1>1 DEF DecodeInv
<1> QED
  BY <1>1, <1>4, <1>9, <1>12, <1>13, <1>14, <1>15, <1>16 DEF BudgetInv

-----------------------------------------------------------------------------
(* Batches leave and return. *)

(* The batch is handed out, unless it is empty. *)
LEMMA OutputStep ==
  ASSUME IInv, Output
  PROVE  IInv'
<1> USE DEF IInv
<1>1. /\ pc = "output" /\ pc' = "idle"
      /\ numComputed' = [r \in Req |-> numComputed[r] + sched.tokens[r]]
      /\ finishedReqIds' = {}
      /\ inflight' = IF InBatch(sched) = {} THEN inflight ELSE Append(inflight, sched)
      /\ UNCHANGED <<status, numTokens, spec, doRemotePrefill, recvDone, waiting, running,
                     scheduledReqIds, blocks, free, budget, skipped, reqIndex, sched, loras>>
  BY DEF Output, poolVars, locals
<1>2. /\ inflight \in Seq(Batch) /\ sched \in Batch /\ Len(inflight) \in Nat
      /\ Len(inflight) < MaxInFlight
  BY <1>1, LenProperties DEF TypeOK, BudgetInv
<1>3. \A q \in Req : /\ sched.tokens[q] \in 0 .. MaxModelLen /\ numComputed[q] \in 0 .. MaxModelLen
                     /\ sched.drafts[q] \in Nat /\ numTokens[q] \in Nat
                     /\ numComputed'[q] = numComputed[q] + sched.tokens[q]
  BY <1>1, <1>2, Sizes DEF TypeOK, Batch
<1>4. \A q \in Req : RequestOf(q) /\ FlightOf(q) /\ SchedOf(q) /\ MarkOf(q)
  BY DEF RequestInv, BatchInv
<1>5. /\ inflight' \in Seq(Batch) /\ Len(inflight') <= MaxInFlight /\ Len(inflight') \in Nat
      /\ \A i \in 1 .. Len(inflight) : i \in 1 .. Len(inflight') /\ inflight'[i] = inflight[i]
      /\ \A i \in 1 .. Len(inflight') :
           i \in 1 .. Len(inflight) \/ (i = Len(inflight) + 1 /\ inflight'[i] = sched)
      /\ \A q \in Req : sched.tokens[q] > 0
           => Len(inflight) + 1 \in 1 .. Len(inflight') /\ inflight'[Len(inflight) + 1] = sched
  <2>1. CASE InBatch(sched) = {}
    BY <2>1, <1>1, <1>2, Sizes DEF InBatch
  <2>2. CASE InBatch(sched) # {}
    <3>1. /\ inflight' \in Seq(Batch) /\ Len(inflight') = Len(inflight) + 1
          /\ \A i \in 1 .. Len(inflight) : inflight'[i] = inflight[i]
          /\ inflight'[Len(inflight) + 1] = sched
      BY <2>2, <1>1, <1>2, AppendProperties
    <3> QED
      BY <3>1, <1>2, Sizes
  <2> QED
    BY <2>1, <2>2
<1>6. TypeOK'
  <2>1. numComputed' \in [Req -> 0 .. MaxModelLen]
    <3> SUFFICES ASSUME NEW q \in Req
                 PROVE  numComputed[q] + sched.tokens[q] \in 0 .. MaxModelLen
      BY <1>1
    <3>1. CASE sched.tokens[q] > 0
      BY <3>1, <1>1, <1>3, <1>4, Sizes DEF SchedOf
    <3>2. CASE sched.tokens[q] = 0
      BY <3>2, <1>3, Sizes
    <3> QED
      BY <3>1, <3>2, <1>3
  <2> QED
    BY <1>1, <1>5, <2>1 DEF TypeOK
<1>7. ListsInv' /\ OrderInv'
  <2>1. Queue' = Queue
    BY <1>1 DEF Queue
  <2> QED
    BY <2>1, <1>1 DEF ListsInv, OrderInv
<1>8. ASSUME NEW q \in Req
      PROVE  RequestOf(q)' /\ FlightOf(q)' /\ SchedOf(q)' /\ MarkOf(q)'
  <2>1. InFlight(q)' <=> InFlight(q) \/ sched.tokens[q] > 0
    BY <1>5 DEF InFlight
  <2>2. MarkOf(q)' /\ SchedOf(q)'
    BY <2>1, <1>1, <1>4 DEF MarkOf, SchedOf
  <2>3. CASE sched.tokens[q] = 0
    <3>1. SameRequest(q)
      BY <2>3, <1>1, <1>3 DEF SameRequest
    <3>2. RequestOf(q)'
      BY <3>1, <1>4, RequestFrame
    <3>3. FlightOf(q)'
      BY <3>1, <2>3, <1>4, <1>5 DEF FlightOf, SameRequest
    <3> QED
      BY <3>2, <3>3, <2>2
  <2>4. CASE sched.tokens[q] > 0
    <3>1. /\ status[q] = "RUNNING" /\ ~InFlight(q)
          /\ numTokens[q] + sched.drafts[q] = numComputed[q] + sched.tokens[q]
          /\ numComputed[q] + sched.tokens[q] <= blocks[q] * BlockSize
          /\ q \in scheduledReqIds
      BY <2>4, <1>1, <1>4 DEF SchedOf, MarkOf
    <3>2. RequestOf(q)'
      BY <3>1, <1>1, <1>3, <1>4 DEF RequestOf, Alive, Ended
    <3>3. FlightOf(q)'
      <4>1. \A i \in 1 .. Len(inflight') : inflight'[i].tokens[q] > 0
              => i = Len(inflight) + 1 /\ inflight'[i] = sched
        BY <3>1, <1>5 DEF InFlight
      <4> QED
        BY <4>1, <3>1, <1>1, <1>3 DEF FlightOf
    <3> QED
      BY <3>2, <3>3, <2>2
  <2> QED
    BY <2>3, <2>4, <1>3
<1>9. RequestInv' /\ BatchInv'
  BY <1>8 DEF RequestInv, BatchInv
<1> QED
  BY <1>1, <1>6, <1>7, <1>9 DEF PoolInv, BudgetInv, DecodeInv
(* What the oldest batch says of a request: every request that returns is  *)
(* running, marked, and in no other batch.                                 *)
LEMMA ReturnedFacts ==
  ASSUME IInv, pc = "idle", inflight # <<>>, NEW b, b = Head(inflight), NEW q \in Req
  PROVE  /\ b \in Batch /\ Tail(inflight) \in Seq(Batch) /\ Len(inflight) \in Nat
         /\ Len(Tail(inflight)) = Len(inflight) - 1
         /\ \A i \in 1 .. Len(Tail(inflight)) :
              Tail(inflight)[i] = inflight[i + 1] /\ i + 1 \in 1 .. Len(inflight) /\ i + 1 # 1
         /\ \A i \in 1 .. Len(inflight) : i = 1 \/ i - 1 \in 1 .. Len(Tail(inflight))
         /\ 1 \in 1 .. Len(inflight) /\ b = inflight[1]
         /\ q \in Returned(b) <=> b.tokens[q] > 0 /\ status[q] = "RUNNING"
         /\ q \in InBatch(b) <=> b.tokens[q] > 0
         /\ b.tokens[q] > 0 => \A i \in 1 .. Len(Tail(inflight)) : ~(Tail(inflight)[i].tokens[q] > 0)
         /\ q \in Returned(b) =>
              /\ numComputed[q] = numTokens[q] + b.drafts[q] /\ q \in scheduledReqIds
<1> USE DEF IInv
<1>1. /\ inflight \in Seq(Batch) /\ FlightOf(q) /\ MarkOf(q)
  BY DEF TypeOK, BatchInv
<1>2. /\ b \in Batch /\ b = inflight[1] /\ 1 \in 1 .. Len(inflight) /\ Len(inflight) \in Nat
      /\ Tail(inflight) \in Seq(Batch) /\ Len(Tail(inflight)) = Len(inflight) - 1
      /\ \A i \in 1 .. Len(Tail(inflight)) :
           Tail(inflight)[i] = inflight[i + 1] /\ i + 1 \in 1 .. Len(inflight)
  BY <1>1, TailPart, LenProperties
<1>3. /\ \A i \in 1 .. Len(Tail(inflight)) : i + 1 # 1
      /\ \A i \in 1 .. Len(inflight) : i = 1 \/ i - 1 \in 1 .. Len(Tail(inflight))
  BY <1>2
<1>4. q \in Returned(b) <=> b.tokens[q] > 0 /\ status[q] = "RUNNING"
  BY <1>1, <1>2 DEF Returned, InBatch, FlightOf, Alive
<1>5. b.tokens[q] > 0 => \A i \in 1 .. Len(Tail(inflight)) : ~(Tail(inflight)[i].tokens[q] > 0)
  BY <1>1, <1>2, <1>3 DEF FlightOf
<1>6. q \in Returned(b) => numComputed[q] = numTokens[q] + b.drafts[q]
  BY <1>1, <1>2, <1>4 DEF FlightOf
<1>7. q \in Returned(b) => q \in scheduledReqIds
  BY <1>1, <1>2, <1>4 DEF MarkOf, InFlight
<1>8. q \in InBatch(b) <=> b.tokens[q] > 0
  BY DEF InBatch
<1> QED
  BY <1>2, <1>3, <1>4, <1>5, <1>6, <1>7, <1>8

(* The tokens a request has after its batch: it ends at its limit, and     *)
(* otherwise lacks exactly the token that was sampled last.                *)
LEMMA AppendedFacts ==
  ASSUME IInv, NEW q \in Req, numTokens[q] \in 1 .. MaxModelLen, NEW a \in Nat \ {0}
  PROVE  /\ Appended(q, a) \in 1 .. a
         /\ numTokens[q] + Appended(q, a) \in 1 .. MaxModelLen + 1
         /\ numTokens[q] + Appended(q, a) < MaxLen(q) => Appended(q, a) = a
         /\ MaxLen(q) \in Nat /\ MaxLen(q) <= MaxModelLen
<1>1. PromptLen[q] \in Nat
  BY RequestAssumption, Sizes
<1>2. MaxLen(q) \in Nat /\ MaxLen(q) <= MaxModelLen
  BY <1>1, Sizes DEF MaxLen, Least
<1>3. CASE numTokens[q] >= MaxLen(q)
  <2>1. Appended(q, a) = 1
    BY <1>3 DEF Appended
  <2> QED
    BY <2>1, <1>2, <1>3, Sizes
<1>4. CASE ~(numTokens[q] >= MaxLen(q))
  <2>1. Appended(q, a) = Least(a, MaxLen(q) - numTokens[q])
    BY <1>4 DEF Appended
  <2> QED
    BY <2>1, <1>2, <1>4, Sizes DEF Least
<1> QED
  BY <1>3, <1>4

(* update_from_output: what every request of the batch becomes. *)
LEMMA UpdateStep ==
  ASSUME IInv, Update
  PROVE  IInv'
<1> USE DEF IInv
<1>0. PICK b : b = Head(inflight)
  OBVIOUS
<1>1. pc = "idle" /\ inflight # <<>>
  BY DEF Update
<1>2. PICK done : done = Returned(b)
  OBVIOUS
<1>3. PICK acc \in [done -> 1 .. NumSpec + 1], stop \in SUBSET done, next \in [done -> 0 .. NumSpec] :
        UpdateFromOutput(acc, stop, next)
  BY <1>0, <1>2 DEF Update
<1>4. PICK ended : ended = {r \in done : \/ r \in stop
                                        \/ numTokens[r] + Appended(r, acc[r]) >= MaxLen(r)}
  OBVIOUS
<1>5. /\ \A r \in done : acc[r] <= b.drafts[r] + 1
      /\ inflight' = Tail(inflight)
      /\ scheduledReqIds' = scheduledReqIds \ (InBatch(b) \cap ToSet(running))
      /\ numTokens' = [r \in Req |-> IF r \in done THEN numTokens[r] + Appended(r, acc[r])
                                                   ELSE numTokens[r]]
      /\ numComputed' = [r \in Req |-> IF r \in done
                                       THEN numComputed[r] - (b.drafts[r] + 1 - acc[r])
                                       ELSE numComputed[r]]
      /\ spec' = [r \in Req |-> IF r \in done THEN next[r] ELSE spec[r]]
      /\ status' = [r \in Req |-> IF r \in ended THEN "FINISHED" ELSE status[r]]
      /\ running' = Without(running, ended) /\ waiting' = Without(waiting, ended)
      /\ finishedReqIds' = finishedReqIds \cup ended
      /\ FreeBlocks(ended)
      /\ UNCHANGED <<doRemotePrefill, recvDone, pc, budget, skipped, reqIndex, sched, loras>>
  BY <1>0, <1>2, <1>3, <1>4 DEF UpdateFromOutput, ClearScheduled, locals
<1>6. /\ done \subseteq Req /\ ended \subseteq done
      /\ b \in Batch /\ inflight' \in Seq(Batch) /\ Len(inflight') = Len(inflight) - 1
      /\ Len(inflight) \in Nat
      /\ \A i \in 1 .. Len(inflight') : inflight'[i] = inflight[i + 1] /\ i + 1 \in 1 .. Len(inflight)
      /\ \A i \in 1 .. Len(inflight) : i = 1 \/ i - 1 \in 1 .. Len(inflight')
      /\ b = inflight[1] /\ 1 \in 1 .. Len(inflight)
  <2>1. 1 \in Req
    BY Sizes DEF Req
  <2>2. done \subseteq Req /\ ended \subseteq done
    BY <1>2, <1>4 DEF Returned, InBatch
  <2> QED
    BY <2>1, <2>2, <1>0, <1>1, <1>5, ReturnedFacts
<1>7. \A q \in Req : /\ q \in done <=> b.tokens[q] > 0 /\ status[q] = "RUNNING"
                     /\ q \in InBatch(b) <=> b.tokens[q] > 0
                     /\ b.tokens[q] > 0 => \A i \in 1 .. Len(inflight') : ~(inflight'[i].tokens[q] > 0)
                     /\ q \in done => /\ numComputed[q] = numTokens[q] + b.drafts[q]
                                      /\ q \in scheduledReqIds
  BY <1>0, <1>1, <1>2, <1>5, ReturnedFacts
<1>8. \A q \in Req : RequestOf(q) /\ FlightOf(q) /\ MarkOf(q)
  BY DEF RequestInv, BatchInv
<1>9. /\ running \in Seq(Req) /\ waiting \in Seq(Req) /\ ToSet(running) = Elems(running)
      /\ \A q \in Req : q \in ToSet(running) <=> status[q] = "RUNNING"
  <2>1. running \in Seq(Req) /\ waiting \in Seq(Req)
    BY DEF TypeOK
  <2>2. DOMAIN running = 1 .. Len(running)
    BY <2>1, LenProperties
  <2>3. ToSet(running) = Elems(running)
    BY <2>2 DEF ToSet, Elems
  <2> QED
    BY <2>1, <2>3 DEF ListsInv
<1>10. /\ blocks' \in [Req -> 0 .. NumBlocks] /\ free' \in 0 .. NumBlocks - 1 /\ PoolInv'
       /\ \A q \in Req : blocks'[q] = IF q \in ended THEN 0 ELSE blocks[q]
  BY <1>5, <1>6, FreeEffect
<1>11. ASSUME NEW q \in Req, q \in done
       PROVE  /\ acc[q] \in Nat /\ acc[q] >= 1 /\ b.drafts[q] \in Nat
              /\ numTokens[q] \in 1 .. MaxModelLen
              /\ numTokens'[q] \in 1 .. MaxModelLen + 1
              /\ numComputed'[q] \in 0 .. MaxModelLen /\ numComputed'[q] <= numComputed[q]
              /\ numComputed[q] \in 0 .. MaxModelLen
              /\ q \notin ended => /\ numTokens'[q] = numComputed'[q] + 1
                                   /\ numTokens'[q] <= MaxModelLen
  <2>1. /\ acc[q] \in Nat \ {0} /\ b.drafts[q] \in Nat /\ acc[q] <= b.drafts[q] + 1
        /\ numTokens[q] \in Nat /\ numComputed[q] \in 0 .. MaxModelLen
    <3>1. acc[q] \in 1 .. NumSpec + 1 /\ acc[q] <= b.drafts[q] + 1
      BY <1>3, <1>5, <1>11
    <3>2. b.drafts[q] \in 0 .. NumSpec
      BY <1>6 DEF Batch
    <3>3. numTokens[q] \in 0 .. MaxModelLen + 1 /\ numComputed[q] \in 0 .. MaxModelLen
      BY DEF TypeOK
    <3> QED
      BY <3>1, <3>2, <3>3, Sizes
  <2>2. /\ status[q] = "RUNNING" /\ numComputed[q] = numTokens[q] + b.drafts[q]
    BY <1>7, <1>11
  <2>3. numTokens[q] \in 1 .. MaxModelLen
    BY <2>1, <2>2, <1>8, Sizes DEF RequestOf, Alive
  <2>4. /\ Appended(q, acc[q]) \in 1 .. acc[q]
        /\ numTokens[q] + Appended(q, acc[q]) \in 1 .. MaxModelLen + 1
        /\ numTokens[q] + Appended(q, acc[q]) < MaxLen(q) => Appended(q, acc[q]) = acc[q]
        /\ MaxLen(q) \in Nat /\ MaxLen(q) <= MaxModelLen
    BY <2>1, <2>3, AppendedFacts
  <2>5. /\ numTokens'[q] = numTokens[q] + Appended(q, acc[q])
        /\ numComputed'[q] = numComputed[q] - (b.drafts[q] + 1 - acc[q])
    BY <1>5, <1>11
  <2>6. /\ numComputed'[q] = numTokens[q] - 1 + acc[q] /\ numComputed'[q] <= numComputed[q]
        /\ numComputed'[q] \in 0 .. MaxModelLen
    BY <2>1, <2>2, <2>3, <2>5, Sizes
  <2>7. q \notin ended => numTokens[q] + Appended(q, acc[q]) < MaxLen(q)
    BY <2>1, <2>3, <2>4, <1>4, <1>11
  <2>8. q \notin ended => numTokens'[q] = numComputed'[q] + 1 /\ numTokens'[q] <= MaxModelLen
    BY <2>1, <2>3, <2>4, <2>5, <2>6, <2>7, Sizes
  <2> QED
    BY <2>1, <2>3, <2>4, <2>5, <2>6, <2>8
<1>12. \A q \in Req \ done : SameRequest(q)
  <2> SUFFICES ASSUME NEW q \in Req, q \notin done
               PROVE  SameRequest(q)
    OBVIOUS
  <2>1. q \notin ended
    BY <1>6
  <2>2. /\ status'[q] = status[q] /\ numTokens'[q] = numTokens[q]
        /\ numComputed'[q] = numComputed[q] /\ doRemotePrefill' = doRemotePrefill
    BY <2>1, <1>5
  <2>3. blocks'[q] = blocks[q]
    BY <2>1, <1>10
  <2>4. q \in scheduledReqIds' <=> q \in scheduledReqIds
    BY <1>5, <1>7, <1>9
  <2> QED
    BY <2>2, <2>3, <2>4 DEF SameRequest
<1>13. /\ running' \in Seq(Req) /\ waiting' \in Seq(Req)
       /\ PartOf(waiting', waiting) /\ PartOf(running', running)
       /\ Elems(waiting') = Elems(waiting) \ ended /\ Elems(running') = Elems(running) \ ended
  BY <1>5, <1>9, WithoutPart
<1>14. TypeOK'
  <2>1. numTokens' \in [Req -> 0 .. MaxModelLen + 1]
    <3>1. \A q \in Req : numTokens'[q] \in 0 .. MaxModelLen + 1
      <4> SUFFICES ASSUME NEW q \in Req PROVE numTokens'[q] \in 0 .. MaxModelLen + 1
        OBVIOUS
      <4>1. CASE q \in done
        BY <4>1, <1>11, Sizes
      <4>2. CASE q \notin done
        BY <4>2, <1>12 DEF SameRequest, TypeOK
      <4> QED
        BY <4>1, <4>2
    <3> QED
      BY <3>1, <1>5
  <2>2. numComputed' \in [Req -> 0 .. MaxModelLen]
    <3>1. \A q \in Req : numComputed'[q] \in 0 .. MaxModelLen
      <4> SUFFICES ASSUME NEW q \in Req PROVE numComputed'[q] \in 0 .. MaxModelLen
        OBVIOUS
      <4>1. CASE q \in done
        BY <4>1, <1>11, Sizes
      <4>2. CASE q \notin done
        BY <4>2, <1>12 DEF SameRequest, TypeOK
      <4> QED
        BY <4>1, <4>2
    <3> QED
      BY <3>1, <1>5
  <2>3. spec' \in [Req -> 0 .. NumSpec]
    BY <1>3, <1>5, <1>6 DEF TypeOK
  <2>4. status' \in [Req -> Statuses] /\ finishedReqIds' \subseteq Req /\ scheduledReqIds' \subseteq Req
    BY <1>5, <1>6 DEF TypeOK, Statuses
  <2>5. Len(inflight') <= MaxInFlight
    BY <1>6, Sizes, SMTT(40) DEF TypeOK
  <2> QED
    BY <1>5, <1>6, <1>10, <1>13, <2>1, <2>2, <2>3, <2>4, <2>5 DEF TypeOK
<1>15. \A q \in Req : status'[q] = IF q \in ended THEN "FINISHED" ELSE status[q]
  BY <1>5
<1>16. \A q \in Req : q \in ended => status[q] = "RUNNING"
  BY <1>6, <1>7
<1>17. Queue = waiting /\ Queue' = waiting'
  BY <1>1, <1>5 DEF Queue
<1>18. ListsInv'
  <2>1. Elems(waiting') = {q \in Req : status'[q] \in Queued}
    BY <1>13, <1>15, <1>16, <1>17 DEF ListsInv, Queued
  <2>2. Elems(running') = {q \in Req : status'[q] = "RUNNING"}
    BY <1>13, <1>15 DEF ListsInv
  <2>3. NoRepeats(waiting') /\ NoRepeats(running') /\ Len(running') <= Len(running)
    BY <1>9, <1>13, <1>17, PartKeeps DEF ListsInv
  <2>4. Len(running) \in Nat /\ Len(running') \in Nat
    BY <1>9, <1>13, LenProperties
  <2> QED
    BY <1>17, <2>1, <2>2, <2>3, <2>4, Sizes DEF ListsInv
<1>19. OrderInv'
  <2>1. \A q \in Elems(waiting') : status'[q] = "PREEMPTED" <=> status[q] = "PREEMPTED"
    <3>1. \A q \in Elems(waiting') : q \in Req /\ q \notin ended
      BY <1>9, <1>13, ElemAt
    <3> QED
      BY <3>1, <1>15
  <2>2. InOrder(status', waiting')
    BY <2>1, <1>9, <1>13, <1>17, OrderedPart DEF OrderInv
  <2>3. \A q \in Req : numTokens'[q] > 0 <=> numTokens[q] > 0
    <3> SUFFICES ASSUME NEW q \in Req PROVE numTokens'[q] > 0 <=> numTokens[q] > 0
      OBVIOUS
    <3>1. CASE q \in done
      BY <3>1, <1>11, Sizes
    <3>2. CASE q \notin done
      BY <3>2, <1>12 DEF SameRequest
    <3> QED
      BY <3>1, <3>2
  <2> QED
    BY <2>2, <2>3, <1>17 DEF OrderInv
<1>20. RequestInv'
  <2> SUFFICES ASSUME NEW q \in Req PROVE RequestOf(q)'
    BY DEF RequestInv
  <2>1. CASE q \notin done
    BY <2>1, <1>8, <1>12, RequestFrame
  <2>2. CASE q \in ended
    <3>1. status'[q] = "FINISHED" /\ blocks'[q] = 0 /\ numTokens'[q] # 0
      BY <2>2, <1>6, <1>10, <1>11, <1>15, Sizes
    <3> QED
      BY <3>1 DEF RequestOf, Alive, Ended
  <2>3. CASE q \in done /\ q \notin ended
    <3>1. /\ status[q] = "RUNNING" /\ status'[q] = "RUNNING" /\ blocks'[q] = blocks[q]
          /\ numTokens'[q] # 0 /\ numTokens'[q] <= MaxModelLen
          /\ numTokens'[q] = numComputed'[q] + 1 /\ doRemotePrefill' = doRemotePrefill
      BY <2>3, <1>5, <1>7, <1>10, <1>11, <1>15, Sizes, SMTT(40)
    <3>2. numComputed[q] <= blocks[q] * BlockSize /\ q \notin doRemotePrefill
      BY <3>1, <1>8 DEF RequestOf, Alive
    <3>3. numComputed'[q] <= blocks'[q] * BlockSize
      <4>1. blocks[q] \in Nat
        BY Sizes DEF TypeOK
      <4>2. blocks[q] * BlockSize \in Int
        BY <4>1, Sizes
      <4> QED
        BY <4>2, <3>1, <3>2, <2>3, <1>11, Sizes
    <3> QED
      BY <3>1, <3>2, <3>3 DEF RequestOf, Alive, Ended
  <2> QED
    BY <2>1, <2>2, <2>3
<1>21. BatchInv'
  <2> SUFFICES ASSUME NEW q \in Req
               PROVE  FlightOf(q)' /\ SchedOf(q)' /\ MarkOf(q)'
    BY DEF BatchInv
  <2>1. SchedOf(q)'
    BY <1>1, <1>5 DEF SchedOf
  <2>2. CASE b.tokens[q] > 0
    <3>1. ~InFlight(q)' /\ FlightOf(q)'
      BY <2>2, <1>7 DEF InFlight, FlightOf
    <3>2. q \notin scheduledReqIds'
      BY <2>2, <1>5, <1>7, <1>8, <1>9 DEF MarkOf
    <3> QED
      BY <2>1, <3>1, <3>2, <1>1, <1>5 DEF MarkOf
  <2>3. CASE ~(b.tokens[q] > 0)
    <3>1. SameRequest(q)
      BY <2>3, <1>7, <1>12
    <3>2. InFlight(q)' <=> InFlight(q)
      <4>1. InFlight(q)' => InFlight(q)
        BY <1>6 DEF InFlight
      <4>2. ASSUME NEW i \in 1 .. Len(inflight), inflight[i].tokens[q] > 0
            PROVE  InFlight(q)'
        <5>1. i # 1 /\ i - 1 \in 1 .. Len(inflight')
          BY <4>2, <2>3, <1>6
        <5>2. inflight'[i - 1] = inflight[i]
          BY <5>1, <1>6
        <5> QED
          BY <5>1, <5>2, <4>2 DEF InFlight
      <4> QED
        BY <4>1, <4>2 DEF InFlight
    <3>3. FlightOf(q)'
      <4> SUFFICES ASSUME NEW i \in 1 .. Len(inflight'), inflight'[i].tokens[q] > 0
                   PROVE  /\ status'[q] \in {"RUNNING", "FINISHED"}
                          /\ status'[q] = "RUNNING"
                               => numComputed'[q] = numTokens'[q] + inflight'[i].drafts[q]
                          /\ \A j \in 1 .. Len(inflight') : inflight'[j].tokens[q] > 0 => i = j
        BY DEF FlightOf
      <4>1. inflight'[i] = inflight[i + 1] /\ i + 1 \in 1 .. Len(inflight)
        BY <1>6
      <4>2. \A j \in 1 .. Len(inflight') : inflight'[j].tokens[q] > 0 => i + 1 = j + 1
        BY <4>1, <1>6, <1>8 DEF FlightOf
      <4>3. \A j \in 1 .. Len(inflight') : i + 1 = j + 1 => i = j
        OBVIOUS
      <4> QED
        BY <4>1, <4>2, <4>3, <3>1, <1>8 DEF FlightOf, SameRequest
    <3>4. MarkOf(q)'
      BY <3>1, <3>2, <1>1, <1>5, <1>8 DEF MarkOf, SameRequest
    <3> QED
      BY <2>1, <3>3, <3>4
  <2> QED
    BY <2>2, <2>3
<1> QED
  BY <1>1, <1>5, <1>10, <1>14, <1>18, <1>19, <1>20, <1>21 DEF BudgetInv, DecodeInv
-----------------------------------------------------------------------------
(* The invariant. *)

(* The constructor of the scheduler establishes the invariant. *)
LEMMA InitKeeps == Init => IInv
<1> SUFFICES ASSUME Init PROVE IInv
  OBVIOUS
<1>1. /\ waiting = <<>> /\ running = <<>> /\ skipped = <<>> /\ inflight = <<>> /\ pc = "idle"
      /\ free = NumBlocks - 1 /\ scheduledReqIds = {}
      /\ \A r \in Req : status[r] = "absent" /\ numTokens[r] = 0 /\ numComputed[r] = 0 /\ blocks[r] = 0
  BY DEF Init
<1>2. /\ Len(<<>>) = 0 /\ \A S : <<>> \in Seq(S)
  BY EmptySeq
<1>3. Elems(<<>>) = {} /\ NoRepeats(<<>>)
  BY <1>2 DEF Elems, NoRepeats
<1>4. TypeOK
  <2>1. /\ 0 \in 0 .. MaxModelLen /\ 0 \in 0 .. MaxModelLen + 1 /\ 0 \in 0 .. NumSpec
        /\ 0 \in 0 .. NumBlocks /\ NumBlocks - 1 \in 0 .. NumBlocks - 1 /\ 0 <= MaxInFlight
        /\ 0 \in 0 .. MaxBatchedTokens /\ 1 \in 1 .. NumReq + 1
    BY Sizes
  <2>2. sched \in Batch
    BY <2>1 DEF Init, EmptyBatch, Batch
  <2> QED
    BY <1>2, <2>1, <2>2 DEF Init, TypeOK, Statuses
<1>5. ListsInv
  <2>1. Queue = <<>>
    BY <1>1 DEF Queue
  <2>2. \A r \in Req : status[r] \notin Queued /\ status[r] # "RUNNING"
    BY <1>1 DEF Queued
  <2> QED
    BY <1>1, <1>2, <1>3, <2>1, <2>2, Sizes DEF ListsInv
<1>6. OrderInv
  <2>1. Queue = <<>>
    BY <1>1 DEF Queue
  <2> QED
    BY <1>1, <1>2, <2>1 DEF OrderInv, InOrder
<1>7. RequestInv
  BY <1>1 DEF RequestInv, RequestOf, Alive, Ended
<1>8. BatchInv
  BY <1>1, <1>2 DEF BatchInv, FlightOf, SchedOf, MarkOf, InFlight
<1>9. PoolInv
  <2>1. Total(blocks, Req, NumBlocks) = 0
    BY <1>1, TotalZero, Sizes
  <2> QED
    BY <1>1, <2>1, Sizes DEF PoolInv
<1> QED
  BY <1>1, <1>4, <1>5, <1>6, <1>7, <1>8, <1>9 DEF IInv, BudgetInv, DecodeInv

(* Every operation of the scheduler, and every iteration of the loops of   *)
(* schedule(), keeps the invariant.                                        *)
LEMMA NextKeeps == IInv /\ [Next]_vars => IInv'
<1> SUFFICES ASSUME IInv, [Next]_vars PROVE IInv'
  OBVIOUS
<1>1. ASSUME NEW r \in Req, AddRequest(r) PROVE IInv'
  BY <1>1, AddStep
<1>2. ASSUME NEW r \in Req, FinishRequests(r) PROVE IInv'
  BY <1>2, FinishStep
<1>3. ASSUME NEW r \in Req, FinishedRecving(r) PROVE IInv'
  <2>1. recvDone' \subseteq Req
    BY <1>3 DEF FinishedRecving, IInv, TypeOK
  <2> QED
    BY <1>3, <2>1, QuietStep DEF FinishedRecving
<1>4. CASE Begin
  BY <1>4, BeginStep
<1>5. ASSUME NEW r \in Req, SkipRemote(r) \/ SkipLora(r) \/ SkipBudget(r) \/ SkipWatermark(r)
      PROVE  IInv'
  <2>1. PrefillLoop /\ SkipCurRequest
    BY <1>5 DEF SkipRemote, SkipLora, SkipBudget, SkipWatermark, Considered
  <2> QED
    BY <2>1, SkipStep
<1>6. ASSUME NEW r \in Req, ResumeRemote(r) PROVE IInv'
  BY <1>6, ResumeStep
<1>7. ASSUME NEW r \in Req, Ignore(r) PROVE IInv'
  BY <1>7, IgnoreStep
<1>8. ASSUME NEW r \in Req, StartRemote(r) PROVE IInv'
  BY <1>8, StartRemoteStep
<1>9. ASSUME NEW r \in Req, StartPrefill(r) PROVE IInv'
  BY <1>9, StartPrefillStep
<1>10. CASE PutBack
  BY <1>10, PutBackStep
<1>11. CASE DecodeSkip \/ DecodeEnds
  BY <1>11, DecodeSkipStep
<1>12. CASE DecodeOne
  BY <1>12, DecodeOneStep
<1>13. CASE Preempt
  BY <1>13, PreemptStep
<1>14. CASE Output
  BY <1>14, OutputStep
<1>15. CASE Update
  BY <1>15, UpdateStep
<1>16. CASE Terminated \/ UNCHANGED vars
  <2>1. UNCHANGED vars
    BY <1>16 DEF Terminated
  <2>2. recvDone' \subseteq Req
    BY <2>1 DEF vars, reqVars, IInv, TypeOK
  <2>3. UNCHANGED <<status, numTokens, numComputed, spec, doRemotePrefill, setVars, poolVars,
                    inflight, pc, locals>>
    BY <2>1 DEF vars, reqVars
  <2> QED
    BY <2>2, <2>3, QuietStep
<1> QED
  BY <1>1, <1>2, <1>3, <1>4, <1>5, <1>6, <1>7, <1>8, <1>9, <1>10, <1>11, <1>12, <1>13, <1>14,
     <1>15, <1>16 DEF Next, Schedule, Prefill

(* The invariant holds in every state of every run of the scheduler. *)
LEMMA Invariant == Spec => []IInv
BY InitKeeps, NextKeeps, PTL DEF Spec

-----------------------------------------------------------------------------
(* The theorems. *)

(* Every list, counter and local of AscendScheduler has its type: the      *)
(* budget, the free blocks and the computed tokens never leave their range. *)
THEOREM TypeCorrect == Spec => []TypeOK
<1>1. IInv => TypeOK
  BY DEF IInv
<1> QED
  BY <1>1, Invariant, PTL

(* The assertions of schedule() never fail, for any number of requests and *)
(* any limits.                                                             *)
THEOREM AssertionsNeverFail == Spec => []AssertionsHold
<1>1. IInv => AssertionsHold
  <2> SUFFICES ASSUME IInv PROVE AssertionsHold
    OBVIOUS
  <2>1. ASSUME pc = "prefill", waiting # <<>>, NEW r, r = Head(waiting)
        PROVE  /\ status[r] \in {"WAITING", "PREEMPTED", "WAITING_FOR_REMOTE_KVS"}
               /\ Considered(r) /\ ~LoadKvAsync(r) => NumNewTokens(r) > 0
    <3>1. r \in Req /\ status[r] \in Queued
      BY <2>1, HeadOfQueue
    <3>2. ASSUME Considered(r), ~LoadKvAsync(r) PROVE NumNewTokens(r) > 0
      <4>1. numTokens[r] \in 1 .. MaxModelLen /\ numComputed[r] \in 0 .. MaxModelLen
            /\ numComputed[r] < numTokens[r]
        BY <3>1, <3>2, ConsideredFacts
      <4>2. NumNewTokens(r) = numTokens[r] - numComputed[r]
        BY <3>2 DEF NumNewTokens
      <4> QED
        BY <4>1, <4>2, Sizes
    <3> QED
      BY <3>1, <3>2 DEF Queued
  <2>2. ASSUME pc = "decode", NEW i \in reqIndex .. Len(running)
        PROVE  numTokens[running[i]] - numComputed[running[i]] = 1
    <3>1. PICK r : r = running[i]
      OBVIOUS
    <3>2. /\ numTokens[r] \in 1 .. MaxModelLen /\ numComputed[r] \in 0 .. MaxModelLen
          /\ numTokens[r] = numComputed[r] + 1
      BY <2>2, <3>1, DecodeFacts
    <3>3. numTokens[r] - numComputed[r] = 1
      BY <3>2, Sizes
    <3> QED
      BY <3>1, <3>3
  <2>3. ASSUME pc = "output"
        PROVE  /\ Total(sched.tokens, Req, MaxModelLen) <= MaxBatchedTokens
               /\ Len(running) <= MaxNumSeqs
               /\ Cardinality(InBatch(sched)) <= Len(running)
    <3>1. /\ budget + Total(sched.tokens, Req, MaxModelLen) = MaxBatchedTokens
          /\ budget \in Nat /\ running \in Seq(Req) /\ Len(running) <= MaxNumSeqs
      BY <2>3, Sizes DEF IInv, BudgetInv, TypeOK, ListsInv
    <3>2. Total(sched.tokens, Req, MaxModelLen) \in Nat
      BY ReqFinite, TotalType, Sizes
    <3>3. Total(sched.tokens, Req, MaxModelLen) <= MaxBatchedTokens
      BY <3>1, <3>2, Sizes
    <3>4. InBatch(sched) \subseteq Elems(running)
      <4> SUFFICES ASSUME NEW r \in Req, sched.tokens[r] > 0 PROVE r \in Elems(running)
        BY DEF InBatch
      <4>1. SchedOf(r)
        BY DEF IInv, BatchInv
      <4> QED
        BY <4>1, <2>3 DEF SchedOf, IInv, ListsInv
    <3>5. IsFiniteSet(Elems(running)) /\ Cardinality(Elems(running)) <= Len(running)
          /\ Len(running) \in Nat
      BY <3>1, ElemsFinite, LenProperties
    <3>6. /\ Cardinality(InBatch(sched)) \in Nat /\ Cardinality(Elems(running)) \in Nat
          /\ Cardinality(InBatch(sched)) <= Cardinality(Elems(running))
      BY <3>4, <3>5, FS_Subset, FS_CardinalityType
    <3> QED
      BY <3>1, <3>3, <3>5, <3>6
  <2> QED
    BY <2>1, <2>2, <2>3 DEF AssertionsHold
<1> QED
  BY <1>1, Invariant, PTL

(* The lists of the model and their sets of elements. *)
LEMMA ListElems ==
  ASSUME IInv
  PROVE  /\ ToSet(running) = {r \in Req : status[r] = "RUNNING"}
         /\ DOMAIN inflight = 1 .. Len(inflight) /\ DOMAIN waiting = 1 .. Len(waiting)
<1>1. /\ running \in Seq(Req) /\ waiting \in Seq(Req) /\ inflight \in Seq(Batch)
  BY DEF IInv, TypeOK
<1>2. /\ DOMAIN running = 1 .. Len(running) /\ DOMAIN waiting = 1 .. Len(waiting)
      /\ DOMAIN inflight = 1 .. Len(inflight)
  BY <1>1, LenProperties
<1>3. ToSet(running) = Elems(running)
  BY <1>2 DEF ToSet, Elems
<1> QED
  BY <1>2, <1>3 DEF IInv, ListsInv

(* scheduled_req_ids is exact whenever schedule() is not running: finish,  *)
(* preemption and update_from_output clear what schedule() set.            *)
THEOREM MarksAreExact == Spec => []ScheduledIffInFlight
<1>1. IInv => ScheduledIffInFlight
  <2> SUFFICES ASSUME IInv, pc = "idle"
               PROVE  scheduledReqIds = {r \in ToSet(running) :
                                           \E i \in DOMAIN inflight : r \in InBatch(inflight[i])}
    BY DEF ScheduledIffInFlight
  <2>1. \A r \in Req : r \in scheduledReqIds <=> status[r] = "RUNNING" /\ InFlight(r)
    BY DEF IInv, BatchInv, MarkOf
  <2>2. \A r \in Req : InFlight(r) <=> \E i \in DOMAIN inflight : r \in InBatch(inflight[i])
    BY ListElems DEF InFlight, InBatch
  <2>3. scheduledReqIds \subseteq Req
    BY DEF IInv, TypeOK
  <2> QED
    BY <2>1, <2>2, <2>3, ListElems
<1> QED
  BY <1>1, Invariant, PTL

(* However deep the batch queue is, no request is in two batches at once.  *)
THEOREM OneBatch == Spec => []OneBatchPerRequest
<1>1. IInv => OneBatchPerRequest
  <2> SUFFICES ASSUME IInv, NEW i \in DOMAIN inflight, NEW j \in DOMAIN inflight, i # j,
                      NEW r \in Req, r \in InBatch(inflight[i]), r \in InBatch(inflight[j])
               PROVE  FALSE
    BY DEF OneBatchPerRequest, InBatch
  <2>1. FlightOf(r)
    BY DEF IInv, BatchInv
  <2>2. inflight[i].tokens[r] > 0 /\ inflight[j].tokens[r] > 0
    BY DEF InBatch
  <2> QED
    BY <2>1, <2>2, ListElems DEF FlightOf
<1> QED
  BY <1>1, Invariant, PTL

(* The decode loop preempts from the back and schedules from the front, so *)
(* it never takes the blocks of a request that it has put into the batch.  *)
THEOREM BatchesRun == Spec => []BatchIsRunning
<1>1. IInv => BatchIsRunning
  <2> SUFFICES ASSUME IInv, pc # "idle", NEW r \in Req, sched.tokens[r] > 0
               PROVE  r \in ToSet(running)
    BY DEF BatchIsRunning, InBatch
  <2>1. status[r] = "RUNNING"
    BY DEF IInv, BatchInv, SchedOf
  <2> QED
    BY <2>1, ListElems
<1> QED
  BY <1>1, Invariant, PTL

(* allocate_slots and free balance, and a request has room for what counts *)
(* as computed, drafts that are later rejected included.                   *)
THEOREM BlocksConserved == Spec => []BlocksAccounted
<1>1. IInv => BlocksAccounted
  <2> SUFFICES ASSUME IInv PROVE BlocksAccounted
    OBVIOUS
  <2>1. ASSUME NEW r \in Req
        PROVE  /\ status[r] \in Alive => blocks[r] * BlockSize >= numComputed[r]
               /\ status[r] \in {"FINISHED", "FINISHED_IGNORED"} => blocks[r] = 0
    <3>1. RequestOf(r)
      BY DEF IInv, RequestInv
    <3>2. numComputed[r] \in Int /\ blocks[r] \in Int
      BY Sizes DEF IInv, TypeOK
    <3>3. blocks[r] * BlockSize \in Int
      BY <3>2, Sizes
    <3>4. status[r] \in Alive => numComputed[r] <= blocks[r] * BlockSize
      BY <3>1 DEF RequestOf
    <3>5. status[r] \in Ended => blocks[r] = 0
      BY <3>1 DEF RequestOf
    <3> QED
      BY <3>2, <3>3, <3>4, <3>5 DEF Ended
  <2> QED
    BY <2>1 DEF BlocksAccounted, IInv, PoolInv
<1> QED
  BY <1>1, Invariant, PTL

(* Skipping requests and putting them back, loading, preempting, ending    *)
(* and aborting leave the waiting queue in the order of arrival.           *)
THEOREM ServedInOrder == Spec => []FirstComeFirstServed
<1>1. IInv => FirstComeFirstServed
  <2> SUFFICES ASSUME IInv, pc = "idle", NEW i \in DOMAIN waiting, NEW j \in DOMAIN waiting,
                      i < j, status[waiting[i]] # "PREEMPTED"
               PROVE  status[waiting[j]] # "PREEMPTED" /\ waiting[i] < waiting[j]
    BY DEF FirstComeFirstServed
  <2>1. InOrder(status, waiting)
    BY DEF IInv, OrderInv, Queue
  <2> QED
    BY <2>1, ListElems DEF InOrder, Ahead
<1> QED
  BY <1>1, Invariant, PTL
=============================================================================
