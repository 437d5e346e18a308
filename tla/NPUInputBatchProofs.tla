------------------------- MODULE NPUInputBatchProofs -------------------------
(***************************************************************************)
(* Proofs about NPUInputBatch, for any number of requests, rows, blocks,   *)
(* preemptions and resubmissions, and any adapters, seeds and masks.       *)
(***************************************************************************)
EXTENDS NPUInputBatch, RequestListsProofs

Known == {"running", "preempted"}
Early == {"remove", "cached"}
Late  == {"add", "reorder", "sample"}

-----------------------------------------------------------------------------
(* The inductive invariant. *)

(* A request of the scheduler has been submitted, and only one that runs   *)
(* holds blocks.                                                           *)
StatusOf(r) == /\ status[r] # "none" => submits[r] >= 1
               /\ status[r] # "running" => alloc[r] = <<>>

(* The cached state is that of the request now known by the id. *)
Fresh(r) == /\ r \in DOMAIN cached /\ cached[r].owner = <<r, submits[r]>>
            /\ status[r] = "running" => cached[r].blocks = alloc[r]

(* Between two steps: what the worker holds of a request that is not the   *)
(* scheduler's any more will be named in finished_req_ids.                 *)
IdleOf(r) ==
  /\ r \in DOMAIN cached => r \in finished \/ status[r] \in Known
  /\ r \in DOMAIN index => r \in finished \/ status[r] = "running"
  /\ status[r] \in Known => r \notin finished /\ Fresh(r)

(* Before the cached states are updated: what the update will make of them. *)
EarlyOf(r) ==
  /\ r \in DOMAIN cached => (pc = "remove" /\ r \in out.finished) \/ status[r] \in Known
  /\ r \in DOMAIN index =>
       \/ pc = "remove" /\ r \in out.finished
       \/ r \notin out.new \cup out.resumed /\ (pc = "cached" => r \in out.sched)
  /\ r \in out.new => 1 < MaxLen /\ out.blocks[r] = alloc[r]
  /\ status[r] \in Known /\ r \notin out.new =>
       /\ r \in DOMAIN cached /\ cached[r].owner = <<r, submits[r]>>
       /\ pc = "remove" => r \notin out.finished
       /\ r \in out.sched => cached[r].len < MaxLen /\ NewBlocks(r) = alloc[r]
       /\ r \notin out.sched /\ status[r] = "running" => cached[r].blocks = alloc[r]

(* After it. *)
LateOf(r) ==
  /\ r \in DOMAIN cached => status[r] \in Known
  /\ status[r] \in Known => Fresh(r)
  /\ r \in out.sched => cached[r].len < MaxLen

CacheInv == \A r \in Req : /\ StatusOf(r)
                           /\ pc = "idle" => IdleOf(r)
                           /\ pc \in Early => EarlyOf(r)
                           /\ pc \in Late => LateOf(r)

(* The SchedulerOutput. *)
OutInv ==
  pc # "idle" =>
    /\ finished = {} /\ Cardinality(out.sched) <= MaxNumReqs
    /\ out.new \subseteq out.sched /\ out.resumed \subseteq out.sched
    /\ out.long \subseteq out.sched /\ out.new \cap out.resumed = {}
    /\ \A r \in out.sched : status[r] = "running"

(* Who is scheduled is in the batch or waits to be added. *)
ToAddInv ==
  /\ pc # "add" => toAdd = <<>>
  /\ pc \in Late => /\ NoRepeats(toAdd) /\ DOMAIN index \cap Elems(toAdd) = {}
                    /\ DOMAIN index \cup Elems(toAdd) = out.sched

(* req_id_to_index is the inverse of req_ids. *)
RowsInv ==
  /\ \A r \in DOMAIN index : index[r] < Len(reqIds) /\ reqIds[index[r] + 1] = r
  /\ \A k \in 1 .. Len(reqIds) :
       reqIds[k] # 0 => reqIds[k] \in DOMAIN index /\ index[reqIds[k]] = k - 1

(* The rows that were left and not filled again are in the builder, those  *)
(* excepted that condense has moved, which are above all others.           *)
HolesInv ==
  /\ \A i \in builder.removed : i < Len(reqIds) /\ reqIds[i + 1] = 0
  /\ \A k \in 1 .. Len(reqIds) : reqIds[k] = 0 =>
       \/ k - 1 \in builder.removed
       \/ pc = "add" /\ toAdd = <<>> /\ \A r \in DOMAIN index : index[r] < k - 1
  /\ pc \notin {"cached", "add"} => builder.removed = {}

(* What the columns hold for a request. *)
RowOf(r) == /\ r \in DOMAIN cached /\ rows[index[r]] = cached[r]
            /\ lora[index[r]] = Adapter[r]
            /\ index[r] \in DOMAIN gens <=> r \in Seeded
            /\ r \in Seeded => gens[index[r]] = rows[index[r]].owner

ContentInv == DOMAIN gens \subseteq DOMAIN rows /\ \A r \in DOMAIN index : RowOf(r)

AdapterInv == \A a \in DOMAIN loraIds \ {0}, r \in Req :
                r \in loraIds[a] <=> r \in DOMAIN index /\ Adapter[r] = a

(* Without reordering, the builder is empty between two updates, and a     *)
(* move names no row that is left to fill.                                 *)
BuilderInv ==
  backend = "attention" =>
    /\ pc # "reorder"
    /\ pc # "add" \/ toAdd # <<>> => builder.moved = <<>>
    /\ pc \notin {"cached", "add"} => builder.added = <<>>
    /\ \A k \in 1 .. Len(builder.moved) :
         builder.moved[k][1] \notin builder.removed /\ builder.moved[k][2] \notin builder.removed

(* While the builder is empty, the sampling metadata is that of the rows. *)
MetaInv == backend = "attention" /\ builder = EmptyBuilder =>
             /\ DOMAIN meta = DOMAIN rows
             /\ \A i \in DOMAIN rows : meta[i].owner = rows[i].owner

(* What a processor will know once it is told of the builder. *)
Occupant(i) == IF i \in DOMAIN rows THEN rows[i].owner ELSE Nobody

FollowInv == backend = "attention" => \A i \in Row : Apply(builder)[i] = Occupant(i)

IInv == /\ TypeOK /\ OutInv /\ CacheInv /\ ToAddInv /\ RowsInv /\ HolesInv /\ ContentInv
        /\ AdapterInv /\ BuilderInv /\ MetaInv /\ FollowInv

-----------------------------------------------------------------------------
(* Numbers, functions and rows. *)

(* The sizes of the batch and the requests. *)
LEMMA Sizes ==
  /\ NumReq \in Nat /\ MaxNumReqs \in Nat /\ MaxSubmits \in Nat /\ MaxSubmits >= 1
  /\ MaxLen \in Nat /\ MaxLen >= 1 /\ MaxBlocks \in Nat /\ MaxPreempts \in Nat
  /\ Seeded \subseteq Req /\ Adapter \in [Req -> Nat]
  /\ Backends \subseteq {"attention", "mla"}
  /\ Row \subseteq Nat /\ IsFiniteSet(Req) /\ Req \subseteq Nat /\ 0 \notin Req
  /\ Nobody \in Owner
<1>1. /\ NumReq \in Nat /\ MaxNumReqs \in Nat /\ MaxSubmits \in Nat /\ MaxSubmits >= 1
      /\ MaxLen \in Nat /\ MaxLen >= 1 /\ MaxBlocks \in Nat /\ MaxPreempts \in Nat
      /\ Seeded \subseteq Req /\ Adapter \in [Req -> Nat]
      /\ Backends \subseteq {"attention", "mla"}
  BY BatchAssumption
<1>2. Row \subseteq Nat /\ Req \subseteq Nat /\ 0 \notin Req
  BY <1>1 DEF Row, Req
<1>3. IsFiniteSet(Req)
  BY <1>1, FS_Interval DEF Req
<1> QED
  BY <1>1, <1>2, <1>3 DEF Owner

(* A dictionary with one entry written. *)
LEMMA PutFacts ==
  ASSUME NEW f, NEW x, NEW v
  PROVE  /\ DOMAIN Put(f, x, v) = DOMAIN f \cup {x}
         /\ Put(f, x, v)[x] = v
         /\ \A y \in DOMAIN f \ {x} : Put(f, x, v)[y] = f[y]
BY DEF Put

(* The type of such a dictionary. *)
LEMMA PutType ==
  ASSUME NEW f, NEW x, NEW v, NEW T, f \in [DOMAIN f -> T], v \in T
  PROVE  Put(f, x, v) \in [DOMAIN f \cup {x} -> T]
BY DEF Put

(* The first n rows. *)
LEMMA FirstRows ==
  ASSUME NEW n \in Nat
  PROVE  IsFiniteSet(0 .. n - 1) /\ Cardinality(0 .. n - 1) = n
<1>1. 0 \in Int /\ n - 1 \in Int
  OBVIOUS
<1>2. IsFiniteSet(0 .. n - 1) /\ Cardinality(0 .. n - 1) = IF 0 > n - 1 THEN 0 ELSE (n - 1) - 0 + 1
  BY <1>1, FS_Interval, Zenon
<1>3. (IF 0 > n - 1 THEN 0 ELSE (n - 1) - 0 + 1) = n
  OBVIOUS
<1> QED
  BY <1>2, <1>3

(* As many requests as rows, when each row holds one. *)
LEMMA CountRows ==
  ASSUME NEW n \in Nat, NEW D, NEW f \in [D -> 0 .. n - 1],
         \A r, s \in D : f[r] = f[s] => r = s,
         \A i \in 0 .. n - 1 : \E r \in D : f[r] = i
  PROVE  IsFiniteSet(D) /\ Cardinality(D) = n
<1>1. IsFiniteSet(0 .. n - 1) /\ Cardinality(0 .. n - 1) = n
  BY FirstRows
<1>2. f \in Injection(D, 0 .. n - 1) /\ f \in Surjection(D, 0 .. n - 1)
  BY DEF Injection, Surjection, IsInjective
<1> QED
  BY <1>1, <1>2, FS_Injection

-----------------------------------------------------------------------------
(* The logits processors. *)

(* t[k] is what a processor knows after k of the moves m, from p. *)
Trace(t, p, m) == t = [k \in 0 .. Len(m) |-> IF k = 0 THEN p ELSE ApplyMove(t[k - 1], m[k])]

(* The shortest list of moves that had no trace would be one move longer   *)
(* than one that has.                                                      *)
LEMMA TraceExists ==
  ASSUME NEW p, NEW m \in Seq(Moves)
  PROVE  \E t : Trace(t, p, m)
<1> DEFINE upTo(t, n) == t = [k \in 0 .. n |-> IF k = 0 THEN p ELSE ApplyMove(t[k - 1], m[k])]
           bad == {n \in Nat : ~ \E t : upTo(t, n)}
<1>1. bad = {}
  <2> SUFFICES ASSUME bad # {} PROVE FALSE
    OBVIOUS
  <2>1. PICK n \in bad : \A l \in bad : n <= l
    BY LeastMember
  <2>2. n \in Nat /\ ~ \E t : upTo(t, n)
    OBVIOUS
  <2>3. n # 0
    <3>1. upTo([k \in {0} |-> p], 0)
      OBVIOUS
    <3> QED
      BY <3>1, <2>2
  <2>4. n - 1 \in Nat /\ n - 1 \notin bad
    <3>1. n - 1 \in Nat /\ ~(n <= n - 1)
      BY <2>2, <2>3
    <3> HIDE DEF bad
    <3> QED
      BY <3>1, <2>1
  <2>5. PICK t : upTo(t, n - 1)
    BY <2>4
  <2> DEFINE u == [k \in 0 .. n |-> IF k = n THEN ApplyMove(t[n - 1], m[n]) ELSE t[k]]
  <2>6. upTo(u, n)
    <3>1. ASSUME NEW k \in 0 .. n
          PROVE  u[k] = IF k = 0 THEN p ELSE ApplyMove(u[k - 1], m[k])
      <4>1. CASE k = n
        <5>1. n - 1 \in 0 .. n /\ n - 1 # n
          BY <2>4
        <5> QED
          BY <4>1, <5>1, <2>3
      <4>2. CASE k # n
        <5>1. k \in 0 .. n - 1 /\ (k # 0 => k - 1 \in 0 .. n /\ k - 1 # n /\ k - 1 \in 0 .. n - 1)
          BY <4>2, <2>2
        <5>2. t[k] = IF k = 0 THEN p ELSE ApplyMove(t[k - 1], m[k])
          BY <5>1, <2>5
        <5> QED
          BY <4>2, <5>1, <5>2
      <4> QED
        BY <4>1, <4>2
    <3> QED
      BY <3>1
  <2> QED
    BY <2>2, <2>6
<1>2. Len(m) \in Nat
  BY LenProperties
<1> QED
  BY <1>1, <1>2 DEF Trace

(* ApplyMoves is the last entry of a trace. *)
LEMMA MovesTrace ==
  ASSUME NEW p, NEW m \in Seq(Moves)
  PROVE  \E t : Trace(t, p, m) /\ ApplyMoves(p, m) = t[Len(m)]
<1>1. \E t : Trace(t, p, m)
  BY TraceExists
<1> DEFINE after == CHOOSE t : Trace(t, p, m)
<1>2. ApplyMoves(p, m) = after[Len(m)]
  BY DEF ApplyMoves, Trace
<1> QED
  BY <1>1, <1>2

(* One move. *)
LEMMA MoveFacts ==
  ASSUME NEW p \in [Row -> Owner], NEW mv \in Moves
  PROVE  /\ mv[1] \in Row /\ mv[2] \in Row
         /\ ApplyMove(p, mv) \in [Row -> Owner]
         /\ \A i \in Row : ApplyMove(p, mv)[i] =
              IF i = mv[1] THEN (IF mv[3] = "SWAP" THEN p[mv[2]] ELSE Nobody)
              ELSE IF i = mv[2] THEN p[mv[1]] ELSE p[i]
<1>1. mv[1] \in Row /\ mv[2] \in Row
  BY DEF Moves
<1>2. p[mv[2]] \in Owner /\ p[mv[1]] \in Owner /\ Nobody \in Owner
  BY <1>1, Sizes
<1>3. PICK v \in Owner : v = IF mv[3] = "SWAP" THEN p[mv[2]] ELSE Nobody
  BY <1>2
<1>4. PICK q : q = [p EXCEPT ![mv[2]] = p[mv[1]]]
  OBVIOUS
<1>5. ApplyMove(p, mv) = [q EXCEPT ![mv[1]] = v]
  BY <1>3, <1>4 DEF ApplyMove
<1>6. q \in [Row -> Owner] /\ \A i \in Row : q[i] = IF i = mv[2] THEN p[mv[1]] ELSE p[i]
  BY <1>1, <1>2, <1>4
<1>7. ApplyMove(p, mv) \in [Row -> Owner]
      /\ \A i \in Row : ApplyMove(p, mv)[i] = IF i = mv[1] THEN v ELSE q[i]
  BY <1>1, <1>5, <1>6
<1> QED
  BY <1>1, <1>3, <1>6, <1>7

(* The entries of a trace. *)
LEMMA TraceAt ==
  ASSUME NEW p, NEW m, NEW t, Trace(t, p, m), NEW k \in 0 .. Len(m)
  PROVE  t[k] = IF k = 0 THEN p ELSE ApplyMove(t[k - 1], m[k])
<1>1. PICK f : f = [j \in 0 .. Len(m) |-> IF j = 0 THEN p ELSE ApplyMove(t[j - 1], m[j])]
  OBVIOUS
<1>2. t = f
  BY <1>1 DEF Trace
<1>3. f[k] = IF k = 0 THEN p ELSE ApplyMove(t[k - 1], m[k])
  BY <1>1
<1> QED
  BY <1>2, <1>3

(* t and u are traces of moves that agree as long as m lasts, from rows    *)
(* that agree but for h, which m does not name.                            *)
Alike(t, p, m, u, q, n, h) ==
  /\ p \in [Row -> Owner] /\ q \in [Row -> Owner] /\ \A i \in Row \ {h} : p[i] = q[i]
  /\ m \in Seq(Moves) /\ n \in Seq(Moves) /\ Len(m) <= Len(n)
  /\ \A k \in 1 .. Len(m) : n[k] = m[k] /\ m[k][1] # h /\ m[k][2] # h
  /\ Trace(t, p, m) /\ Trace(u, q, n)

(* Two traces of the same moves that start apart only in a row no move     *)
(* names stay apart only there.                                            *)
LEMMA TracesAgree ==
  ASSUME NEW t, NEW p, NEW m, NEW u, NEW q, NEW n, NEW h, Alike(t, p, m, u, q, n, h)
  PROVE  \A k \in 0 .. Len(m) : /\ t[k] \in [Row -> Owner] /\ u[k] \in [Row -> Owner]
                                /\ \A i \in Row \ {h} : t[k][i] = u[k][i]
<1> DEFINE good(k) == /\ t[k] \in [Row -> Owner] /\ u[k] \in [Row -> Owner]
                      /\ \A i \in Row \ {h} : t[k][i] = u[k][i]
           bad == {k \in 0 .. Len(m) : ~good(k)}
<1> USE DEF Alike
<1>1. Len(m) \in Nat /\ Len(n) \in Nat
  BY LenProperties
<1>2. ASSUME NEW k \in 0 .. Len(m)
      PROVE  /\ t[k] = IF k = 0 THEN p ELSE ApplyMove(t[k - 1], m[k])
             /\ u[k] = IF k = 0 THEN q ELSE ApplyMove(u[k - 1], n[k])
  <2>1. k \in 0 .. Len(n)
    BY <1>1
  <2> QED
    BY <2>1, TraceAt
<1> SUFFICES ASSUME bad # {} PROVE FALSE
  OBVIOUS
<1>3. PICK k \in bad : \A l \in bad : k <= l
  <2>1. bad \in SUBSET Nat
    BY <1>1
  <2> HIDE DEF bad
  <2> QED
    BY <2>1, LeastMember
<1>4. k \in 0 .. Len(m) /\ ~good(k)
  OBVIOUS
<1>5. k # 0
  BY <1>2, <1>4
<1>6. k - 1 \in 0 .. Len(m) /\ good(k - 1) /\ k \in 1 .. Len(m)
  <2>1. k - 1 \in 0 .. Len(m) /\ ~(k <= k - 1) /\ k \in 1 .. Len(m)
    BY <1>4, <1>5, <1>1
  <2>2. k - 1 \notin bad
    <3> HIDE DEF bad
    <3> QED
      BY <2>1, <1>3
  <2> HIDE DEF good
  <2> QED
    BY <2>1, <2>2
<1>7. PICK mv \in Moves : mv = m[k] /\ mv = n[k] /\ mv[1] # h /\ mv[2] # h
  BY <1>6, ElemAt
<1>8. PICK a \in [Row -> Owner], b \in [Row -> Owner] :
        a = t[k - 1] /\ b = u[k - 1] /\ \A i \in Row \ {h} : a[i] = b[i]
  BY <1>6
<1>9. t[k] = ApplyMove(a, mv) /\ u[k] = ApplyMove(b, mv)
  BY <1>2, <1>4, <1>5, <1>7, <1>8
<1>10. good(k)
  <2>1. ApplyMove(a, mv) \in [Row -> Owner] /\ ApplyMove(b, mv) \in [Row -> Owner]
    BY MoveFacts
  <2>2. \A i \in Row \ {h} : ApplyMove(a, mv)[i] = ApplyMove(b, mv)[i]
    <3> SUFFICES ASSUME NEW i \in Row, i # h
                 PROVE  ApplyMove(a, mv)[i] = ApplyMove(b, mv)[i]
      OBVIOUS
    <3>1. /\ mv[1] \in Row \ {h} /\ mv[2] \in Row \ {h}
          /\ ApplyMove(a, mv)[i] = IF i = mv[1] THEN (IF mv[3] = "SWAP" THEN a[mv[2]] ELSE Nobody)
                                   ELSE IF i = mv[2] THEN a[mv[1]] ELSE a[i]
          /\ ApplyMove(b, mv)[i] = IF i = mv[1] THEN (IF mv[3] = "SWAP" THEN b[mv[2]] ELSE Nobody)
                                   ELSE IF i = mv[2] THEN b[mv[1]] ELSE b[i]
      <4>1. mv[1] \in Row \ {h} /\ mv[2] \in Row \ {h}
        BY <1>7 DEF Moves
      <4>2. ApplyMove(a, mv)[i] = IF i = mv[1] THEN (IF mv[3] = "SWAP" THEN a[mv[2]] ELSE Nobody)
                                 ELSE IF i = mv[2] THEN a[mv[1]] ELSE a[i]
        BY MoveFacts
      <4>3. ApplyMove(b, mv)[i] = IF i = mv[1] THEN (IF mv[3] = "SWAP" THEN b[mv[2]] ELSE Nobody)
                                 ELSE IF i = mv[2] THEN b[mv[1]] ELSE b[i]
        BY MoveFacts
      <4> QED
        BY <4>1, <4>2, <4>3
    <3> QED
      BY <3>1, <1>8
  <2> QED
    BY <1>9, <2>1, <2>2
<1> QED
  BY <1>4, <1>10

(* What a processor makes of no move. *)
LEMMA MovesNone ==
  ASSUME NEW p
  PROVE  ApplyMoves(p, <<>>) = p
<1>1. <<>> \in Seq(Moves) /\ Len(<<>>) = 0
  OBVIOUS
<1>2. PICK t : Trace(t, p, <<>>) /\ ApplyMoves(p, <<>>) = t[0]
  BY <1>1, MovesTrace
<1> QED
  BY <1>1, <1>2 DEF Trace

(* What it makes of any moves is about the rows. *)
LEMMA MovesTyped ==
  ASSUME NEW p \in [Row -> Owner], NEW m \in Seq(Moves)
  PROVE  ApplyMoves(p, m) \in [Row -> Owner]
<1>1. PICK t : Trace(t, p, m) /\ ApplyMoves(p, m) = t[Len(m)]
  BY MovesTrace
<1>2. \A k \in 1 .. Len(m) : m[k][1] # -1 /\ m[k][2] # -1
  BY ElemAt, MoveFacts, Sizes DEF Moves
<1>3. Len(m) \in Nat
  BY LenProperties
<1>4. \A k \in 0 .. Len(m) : t[k] \in [Row -> Owner]
  <2>1. Len(m) <= Len(m) /\ \A i \in Row \ {-1} : p[i] = p[i]
    BY <1>3
  <2>2. \A k \in 1 .. Len(m) : m[k] = m[k] /\ m[k][1] # -1 /\ m[k][2] # -1
    BY <1>2
  <2> QED
    <3>1. Alike(t, p, m, t, p, m, -1)
      BY <1>1, <2>1, <2>2 DEF Alike
    <3> QED
      BY <3>1, TracesAgree
<1> QED
  BY <1>1, <1>3, <1>4

(* p and q agree but for the row h, which no move of m names. *)
Apart(p, q, h, m, mv) ==
  /\ p \in [Row -> Owner] /\ q \in [Row -> Owner] /\ \A i \in Row \ {h} : p[i] = q[i]
  /\ m \in Seq(Moves) /\ mv \in Moves
  /\ \A k \in 1 .. Len(m) : m[k][1] # h /\ m[k][2] # h

(* One more move. *)
LEMMA MovesAppended ==
  ASSUME NEW p, NEW q, NEW h, NEW m, NEW mv, Apart(p, q, h, m, mv)
  PROVE  \E a \in [Row -> Owner] : /\ ApplyMoves(q, Append(m, mv)) = ApplyMove(a, mv)
                                   /\ \A i \in Row \ {h} : a[i] = ApplyMoves(p, m)[i]
<1> USE DEF Apart
<1> DEFINE n == Append(m, mv)
<1>1. /\ n \in Seq(Moves) /\ Len(n) = Len(m) + 1 /\ Len(m) \in Nat
      /\ \A k \in 1 .. Len(m) : n[k] = m[k]
      /\ n[Len(m) + 1] = mv
  BY AppendProperties, LenProperties
<1> HIDE DEF n
<1>2. PICK t : Trace(t, p, m) /\ ApplyMoves(p, m) = t[Len(m)]
  BY MovesTrace
<1>3. PICK u : Trace(u, q, n) /\ ApplyMoves(q, n) = u[Len(n)]
  BY <1>1, MovesTrace
<1>4. Len(m) <= Len(n) /\ Len(m) \in 0 .. Len(m) /\ Len(m) + 1 \in 0 .. Len(n)
      /\ Len(m) + 1 # 0 /\ (Len(m) + 1) - 1 = Len(m)
  BY <1>1
<1>5. u[Len(m)] \in [Row -> Owner] /\ \A i \in Row \ {h} : t[Len(m)][i] = u[Len(m)][i]
  <2>1. \A k \in 1 .. Len(m) : n[k] = m[k] /\ m[k][1] # h /\ m[k][2] # h
    BY <1>1
  <2> QED
    <3>1. Alike(t, p, m, u, q, n, h)
      BY <1>1, <1>2, <1>3, <1>4, <2>1 DEF Alike
    <3> QED
      BY <3>1, <1>4, TracesAgree
<1>6. u[Len(n)] = ApplyMove(u[Len(m)], mv)
  BY <1>1, <1>3, <1>4 DEF Trace
<1> QED
  BY <1>2, <1>3, <1>5, <1>6 DEF n

(* The builder and its updates. *)
Builders == [removed : SUBSET Row, added : Seq(Row \X Owner), moved : Seq(Moves)]

(* The fields of a builder, which is empty when they all are. *)
LEMMA BuilderParts ==
  ASSUME NEW b \in Builders
  PROVE  /\ b.removed \subseteq Row /\ b.added \in Seq(Row \X Owner) /\ b.moved \in Seq(Moves)
         /\ b = [removed |-> b.removed, added |-> b.added, moved |-> b.moved]
         /\ b = EmptyBuilder <=> b.removed = {} /\ b.added = <<>> /\ b.moved = <<>>
<1>1. /\ b.removed \subseteq Row /\ b.added \in Seq(Row \X Owner) /\ b.moved \in Seq(Moves)
      /\ b = [removed |-> b.removed, added |-> b.added, moved |-> b.moved]
  BY DEF Builders
<1>2. b = EmptyBuilder => b.removed = {} /\ b.added = <<>> /\ b.moved = <<>>
  BY DEF EmptyBuilder
<1>3. b.removed = {} /\ b.added = <<>> /\ b.moved = <<>> => b = EmptyBuilder
  BY <1>1 DEF EmptyBuilder
<1> QED
  BY <1>1, <1>2, <1>3

(* The empty builder. *)
LEMMA EmptyBuilderParts ==
  /\ EmptyBuilder \in Builders
  /\ EmptyBuilder.removed = {} /\ EmptyBuilder.added = <<>> /\ EmptyBuilder.moved = <<>>
<1>1. {} \in SUBSET Row /\ <<>> \in Seq(Row \X Owner) /\ <<>> \in Seq(Moves)
  OBVIOUS
<1>2. EmptyBuilder = [removed |-> {}, added |-> <<>>, moved |-> <<>>]
  BY DEF EmptyBuilder
<1> QED
  BY <1>1, <1>2 DEF Builders

(* What a processor knows of a row when it was told what was added and     *)
(* removed.                                                                *)
Told(b, i) == IF i \in b.removed THEN Nobody
              ELSE IF AddsTo(b, i) = {} THEN procs[i]
              ELSE b.added[Max(AddsTo(b, i))][2]

ToldRows(b) == [i \in Row |-> Told(b, i)]

(* A processor applies the moves to what it was told. *)
LEMMA ApplyTold ==
  ASSUME NEW b
  PROVE  Apply(b) = ApplyMoves(ToldRows(b), b.moved)
BY DEF Apply, ToldRows, Told

(* The last addition to a row. *)
LEMMA LastAdd ==
  ASSUME NEW b \in Builders, NEW i, AddsTo(b, i) # {}
  PROVE  /\ Max(AddsTo(b, i)) \in 1 .. Len(b.added)
         /\ \A k \in AddsTo(b, i) : k \in Nat /\ Max(AddsTo(b, i)) >= k
<1>1. b.added \in Seq(Row \X Owner)
  BY BuilderParts
<1>2. Len(b.added) \in Nat
  BY <1>1, LenProperties
<1>3. IsFiniteSet(1 .. Len(b.added)) /\ AddsTo(b, i) \in SUBSET (1 .. Len(b.added))
  <2>1. IsFiniteSet(1 .. Len(b.added))
    BY <1>2, FS_Interval
  <2> QED
    BY <2>1 DEF AddsTo
<1>4. IsFiniteSet(AddsTo(b, i)) /\ AddsTo(b, i) \in SUBSET Nat
  BY <1>2, <1>3, FS_Subset
<1> QED
  BY <1>3, <1>4, MaxFacts

(* What a processor knows is always about the rows. *)
LEMMA ToldTyped ==
  ASSUME NEW b \in Builders, procs \in [Row -> Owner]
  PROVE  ToldRows(b) \in [Row -> Owner] /\ Apply(b) \in [Row -> Owner]
<1>1. ASSUME NEW i \in Row PROVE Told(b, i) \in Owner
  <2>1. CASE i \in b.removed
    BY <2>1, Sizes DEF Told
  <2>2. CASE i \notin b.removed /\ AddsTo(b, i) = {}
    BY <2>2 DEF Told
  <2>3. CASE i \notin b.removed /\ AddsTo(b, i) # {}
    <3>1. PICK k \in 1 .. Len(b.added) : k = Max(AddsTo(b, i))
      BY <2>3, LastAdd
    <3>2. b.added[k] \in Row \X Owner
      BY BuilderParts, ElemAt
    <3> QED
      BY <2>3, <3>1, <3>2 DEF Told
  <2> QED
    BY <2>1, <2>2, <2>3
<1>2. ToldRows(b) \in [Row -> Owner]
  BY <1>1 DEF ToldRows
<1> QED
  BY <1>2, ApplyTold, BuilderParts, MovesTyped

(* c is b when row i was added for o. *)
WithAdd(b, c, i, o) == /\ b \in Builders /\ i \in Row /\ o \in Owner
                       /\ c.removed = b.removed \ {i} /\ c.added = Append(b.added, <<i, o>>)

(* A row that is added. *)
LEMMA ToldAdded ==
  ASSUME NEW b, NEW c, NEW i, NEW o, WithAdd(b, c, i, o)
  PROVE  Told(c, i) = o /\ \A j \in Row \ {i} : Told(c, j) = Told(b, j)
<1> USE DEF WithAdd
<1>1. PICK n \in Nat : n = Len(b.added)
  BY BuilderParts, LenProperties
<1>2. /\ Len(c.added) = n + 1
      /\ c.added[n + 1] = <<i, o>>
      /\ \A k \in 1 .. n : c.added[k] = b.added[k]
  BY <1>1, BuilderParts, AppendProperties
<1>3. AddsTo(c, i) = AddsTo(b, i) \cup {n + 1}
  BY <1>1, <1>2 DEF AddsTo
<1>4. Max(AddsTo(c, i)) = n + 1
  <2>1. \A k \in AddsTo(c, i) : k \in Nat /\ n + 1 >= k
    BY <1>1, <1>3 DEF AddsTo
  <2>2. n + 1 \in AddsTo(c, i)
    BY <1>3
  <2> HIDE DEF AddsTo
  <2>3. \A x \in AddsTo(c, i) : (\A y \in AddsTo(c, i) : x >= y) => x = n + 1
    BY <2>1, <2>2
  <2> QED
    BY <2>1, <2>2, <2>3 DEF Max
<1>5. Told(c, i) = o
  BY <1>2, <1>3, <1>4 DEF Told
<1>6. ASSUME NEW j \in Row, j # i PROVE Told(c, j) = Told(b, j)
  <2>1. AddsTo(c, j) = AddsTo(b, j)
    BY <1>1, <1>2, <1>6 DEF AddsTo
  <2>2. j \in c.removed <=> j \in b.removed
    BY <1>6
  <2>3. AddsTo(b, j) # {} => c.added[Max(AddsTo(b, j))] = b.added[Max(AddsTo(b, j))]
    BY <1>1, <1>2, LastAdd
  <2> QED
    BY <2>1, <2>2, <2>3 DEF Told
<1> QED
  BY <1>5, <1>6

(* A row that is removed, or of which nothing is new. *)
LEMMA ToldRemoved ==
  ASSUME NEW b, NEW c, c.added = b.added, NEW j
  PROVE  /\ j \in c.removed => Told(c, j) = Nobody
         /\ (j \in c.removed <=> j \in b.removed) => Told(c, j) = Told(b, j)
BY DEF Told, AddsTo

-----------------------------------------------------------------------------
(* The rows. *)

(* No two requests share a row. *)
LEMMA OwnRow ==
  ASSUME TypeOK, RowsInv
  PROVE  /\ \A r \in DOMAIN index : /\ r \in Req /\ r # 0 /\ index[r] \in Row /\ index[r] \in Nat
                                    /\ index[r] \in DOMAIN rows
                                    /\ index[r] + 1 \in 1 .. Len(reqIds)
                                    /\ reqIds[index[r] + 1] = r
         /\ \A r, s \in DOMAIN index : index[r] = index[s] => r = s
         /\ \A i \in DOMAIN rows : \E r \in DOMAIN index : i = index[r]
         /\ DOMAIN rows \subseteq Row /\ Len(reqIds) \in Nat /\ Len(reqIds) <= MaxNumReqs
<1>1. /\ DOMAIN index \subseteq Req /\ index \in [DOMAIN index -> Row]
      /\ DOMAIN rows = {index[r] : r \in DOMAIN index}
      /\ reqIds \in Seq(Req \cup {0}) /\ Len(reqIds) <= MaxNumReqs
  BY DEF TypeOK
<1>2. Len(reqIds) \in Nat
  BY <1>1, LenProperties
<1>3. ASSUME NEW r \in DOMAIN index
      PROVE  /\ r \in Req /\ r # 0 /\ index[r] \in Row /\ index[r] \in Nat
             /\ index[r] \in DOMAIN rows
             /\ index[r] + 1 \in 1 .. Len(reqIds) /\ reqIds[index[r] + 1] = r
  <2>1. r \in Req /\ r # 0 /\ index[r] \in Row /\ index[r] \in Nat /\ index[r] \in DOMAIN rows
    BY <1>1, Sizes
  <2>2. index[r] < Len(reqIds) /\ reqIds[index[r] + 1] = r
    BY DEF RowsInv
  <2> QED
    BY <2>1, <2>2, <1>2
<1>4. \A r, s \in DOMAIN index : index[r] = index[s] => r = s
  BY <1>3
<1> QED
  BY <1>1, <1>2, <1>3, <1>4

(* Rows without a gap are as many as the requests. *)
LEMMA Compact ==
  ASSUME TypeOK, RowsInv, NEW n \in Nat, n <= Len(reqIds),
         \A k \in 1 .. n : reqIds[k] # 0,
         \A r \in DOMAIN index : index[r] < n
  PROVE  /\ DOMAIN rows = 0 .. n - 1 /\ NumReqs = n /\ IsFiniteSet(DOMAIN index)
         /\ \A k \in 1 .. n : reqIds[k] \in DOMAIN index /\ index[reqIds[k]] = k - 1
<1>1. \A r \in DOMAIN index : index[r] \in 0 .. n - 1
  BY OwnRow
<1>2. \A k \in 1 .. n : reqIds[k] \in DOMAIN index /\ index[reqIds[k]] = k - 1
  BY OwnRow DEF RowsInv
<1>3. \A i \in 0 .. n - 1 : \E r \in DOMAIN index : index[r] = i
  <2> SUFFICES ASSUME NEW i \in 0 .. n - 1 PROVE \E r \in DOMAIN index : index[r] = i
    OBVIOUS
  <2>1. i + 1 \in 1 .. n /\ (i + 1) - 1 = i
    OBVIOUS
  <2> QED
    BY <2>1, <1>2
<1>4. index \in [DOMAIN index -> 0 .. n - 1]
  BY <1>1 DEF TypeOK
<1>5. \A r, s \in DOMAIN index : index[r] = index[s] => r = s
  BY OwnRow
<1>6. IsFiniteSet(DOMAIN index) /\ NumReqs = n
  BY <1>3, <1>4, <1>5, CountRows DEF NumReqs
<1>7. DOMAIN rows = 0 .. n - 1
  BY <1>1, <1>3 DEF TypeOK
<1> QED
  BY <1>2, <1>6, <1>7

(* Outside _update_states the batch has no gap. *)
LEMMA NoGap ==
  ASSUME IInv, pc \notin {"cached", "add"}
  PROVE  /\ DOMAIN rows = 0 .. NumReqs - 1 /\ NumReqs = Len(reqIds) /\ NumReqs \in Nat
         /\ IsFiniteSet(DOMAIN index)
         /\ \A k \in 1 .. Len(reqIds) : reqIds[k] \in DOMAIN index /\ index[reqIds[k]] = k - 1
<1> USE DEF IInv
<1>1. Len(reqIds) \in Nat /\ Len(reqIds) <= Len(reqIds)
  BY OwnRow
<1>2. \A k \in 1 .. Len(reqIds) : reqIds[k] # 0
  BY DEF HolesInv
<1>3. \A r \in DOMAIN index : index[r] < Len(reqIds)
  BY DEF RowsInv
<1> QED
  BY <1>1, <1>2, <1>3, Compact

-----------------------------------------------------------------------------
(* The order of the MLA backends. *)

(* The k-th swap exchanges a row of a prefill and one of a decode. *)
LEMMA SwapPairs ==
  ASSUME IInv, pc = "reorder"
  PROVE  \E c \in Nat :
           /\ DOMAIN Swaps = 1 .. c /\ Prefills \cap BackRows = {}
           /\ Prefills \subseteq DOMAIN rows /\ BackRows \subseteq DOMAIN rows
           /\ \A k \in 1 .. c : /\ Swaps[k] = <<Swaps[k][1], Swaps[k][2]>>
                                /\ Swaps[k][1] \in Prefills /\ Swaps[k][2] \in BackRows
           /\ \A k, l \in 1 .. c : (Swaps[k][1] = Swaps[l][1] \/ Swaps[k][2] = Swaps[l][2]) => k = l
<1> USE DEF IInv
<1>1. /\ DOMAIN rows = 0 .. NumReqs - 1 /\ NumReqs \in Nat /\ DOMAIN index = out.sched
      /\ DOMAIN rows \subseteq Row
  <2>1. toAdd = <<>> /\ DOMAIN index \cup Elems(toAdd) = out.sched
    BY DEF ToAddInv, Late
  <2>2. Elems(<<>>) = {}
    BY DEF Elems
  <2> QED
    BY <2>1, <2>2, NoGap, OwnRow
<1>2. /\ Decodes \cup Prefills = DOMAIN rows /\ Decodes \cap Prefills = {}
      /\ BackRows \subseteq Decodes
  BY <1>1, OwnRow DEF Decodes, Prefills, BackRows, RowsOf
<1>3. IsFiniteSet(DOMAIN rows)
  BY <1>1, FirstRows
<1>4. IsFiniteSet(Decodes) /\ IsFiniteSet(Prefills) /\ IsFiniteSet(BackRows)
  BY <1>2, <1>3, FS_Subset
<1> DEFINE D == Cardinality(Decodes)
           A == 0 .. D - 1
           c == Cardinality(BackRows)
<1>5. D \in Nat /\ c \in Nat /\ Cardinality(Prefills) \in Nat /\ D <= NumReqs
  <2>1. Cardinality(DOMAIN rows) = NumReqs
    BY <1>1, FirstRows
  <2>2. D <= NumReqs
    BY <1>2, <1>3, <2>1, FS_Subset
  <2> QED
    BY <2>2, <1>4, FS_CardinalityType
<1>6. c <= Cardinality(Prefills)
  <2>1. IsFiniteSet(A) /\ Cardinality(A) = D
    <3> HIDE DEF D
    <3> QED
      BY <1>5, FirstRows
  <2>2. A \subseteq Decodes \cup Prefills
    <3> HIDE DEF D
    <3> QED
      BY <1>1, <1>2, <1>5
  <2>3. BackRows = Decodes \ A
    <3>1. \A d \in Decodes : d \in Nat
      BY <1>1, <1>2
    <3>2. BackRows = {d \in Decodes : d >= D}
      BY DEF BackRows
    <3> HIDE DEF D
    <3> QED
      BY <3>1, <3>2, <1>5
  <2>4. c = D - Cardinality(Decodes \cap A)
    BY <2>3, <1>4, FS_Difference
  <2>5. A \ Decodes \subseteq Prefills
    BY <2>2
  <2>6. Cardinality(A \ Decodes) = D - Cardinality(A \cap Decodes)
    BY <2>1, FS_Difference
  <2>7. Cardinality(A \ Decodes) <= Cardinality(Prefills)
    BY <2>5, <1>4, FS_Subset
  <2>8. A \cap Decodes = Decodes \cap A
    OBVIOUS
  <2> HIDE DEF A, D, c
  <2> QED
    BY <2>4, <2>6, <2>7, <2>8
<1> DEFINE front == InOrder(Prefills)
           asc == Ascending(BackRows)
           back == Reverse(asc)
<1>7. /\ front \in Seq(Prefills) /\ Len(front) = Cardinality(Prefills) /\ NoRepeats(front)
      /\ asc \in Seq(BackRows) /\ Len(asc) = c /\ NoRepeats(asc)
  <2>1. Prefills \in SUBSET Nat /\ BackRows \in SUBSET Nat
    BY <1>1, <1>2
  <2> QED
    BY <2>1, <1>4, AscendingList DEF InOrder
<1>8. DOMAIN Swaps = 1 .. c /\ \A k \in 1 .. c : Swaps[k] = <<front[k], back[k]>>
  BY DEF Swaps
<1> HIDE DEF c, D, A, front
<1>9. \A k \in 1 .. c : back[k] = asc[c - k + 1] /\ c - k + 1 \in 1 .. c
  <2>1. back = [k \in 1 .. c |-> asc[(c - k) + 1]]
    BY <1>7 DEF Reverse
  <2> HIDE DEF back, asc
  <2> QED
    BY <2>1, <1>5
<1> HIDE DEF back, asc
<1>10. /\ \A k \in 1 .. c : front[k] \in Prefills /\ back[k] \in BackRows
       /\ \A k, l \in 1 .. c : (front[k] = front[l] \/ back[k] = back[l]) => k = l
  <2>1. \A k \in 1 .. c : k \in 1 .. Len(front)
    BY <1>5, <1>6, <1>7
  <2>2. \A k \in 1 .. c : front[k] \in Prefills
    BY <2>1, <1>7, ElemAt
  <2>3. \A k \in 1 .. c : back[k] \in BackRows
    BY <1>9, <1>7, ElemAt
  <2>4. \A k, l \in 1 .. c : front[k] = front[l] => k = l
    BY <2>1, <1>7 DEF NoRepeats
  <2>5. \A k, l \in 1 .. c : back[k] = back[l] => k = l
    <3> SUFFICES ASSUME NEW k \in 1 .. c, NEW l \in 1 .. c, back[k] = back[l] PROVE k = l
      OBVIOUS
    <3>1. c - k + 1 = c - l + 1
      BY <1>9, <1>7 DEF NoRepeats
    <3> QED
      BY <3>1, <1>5
  <2> QED
    BY <2>2, <2>3, <2>4, <2>5
<1>11. \A k \in 1 .. c : Swaps[k][1] = front[k] /\ Swaps[k][2] = back[k]
  BY <1>8
<1>12. Prefills \cap BackRows = {} /\ Prefills \subseteq DOMAIN rows /\ BackRows \subseteq DOMAIN rows
  BY <1>2
<1>13. \A k \in 1 .. c : /\ Swaps[k] = <<Swaps[k][1], Swaps[k][2]>>
                         /\ Swaps[k][1] \in Prefills /\ Swaps[k][2] \in BackRows
  BY <1>8, <1>10, <1>11
<1>14. \A k, l \in 1 .. c : (Swaps[k][1] = Swaps[l][1] \/ Swaps[k][2] = Swaps[l][2]) => k = l
  BY <1>10, <1>11
<1> HIDE DEF IInv
<1> QED
  BY <1>5, <1>8, <1>12, <1>13, <1>14

(* Swapping is an exchange of rows of the batch: done twice, it does       *)
(* nothing.                                                                *)
LEMMA SwapFacts ==
  ASSUME IInv, pc = "reorder"
  PROVE  /\ \A i \in Row : Swapped(i) \in Row /\ Swapped(Swapped(i)) = i
         /\ \A i \in DOMAIN rows : Swapped(i) \in DOMAIN rows
         /\ [k \in DOMAIN Swaps |-> <<Swaps[k][1], Swaps[k][2], "SWAP">>] \in Seq(Moves)
<1> DEFINE a(k) == Swaps[k][1]
           b(k) == Swaps[k][2]
           hit(i, k) == i \in {a(k), b(k)}
<1>1. PICK c \in Nat :
           /\ DOMAIN Swaps = 1 .. c /\ Prefills \cap BackRows = {}
           /\ Prefills \subseteq DOMAIN rows /\ BackRows \subseteq DOMAIN rows
           /\ \A k \in 1 .. c : a(k) \in Prefills /\ b(k) \in BackRows
           /\ \A k, l \in 1 .. c : (a(k) = a(l) \/ b(k) = b(l)) => k = l
  BY SwapPairs
<1>2. DOMAIN rows \subseteq Row
  BY OwnRow DEF IInv
<1>3. \A i : Swapped(i) =
        IF \E k \in 1 .. c : hit(i, k)
        THEN IF i = a(CHOOSE k \in 1 .. c : hit(i, k)) THEN b(CHOOSE k \in 1 .. c : hit(i, k))
                                                       ELSE a(CHOOSE k \in 1 .. c : hit(i, k))
        ELSE i
  BY <1>1 DEF Swapped
<1>4. ASSUME NEW i, NEW k \in 1 .. c, hit(i, k)
      PROVE  Swapped(i) = IF i = a(k) THEN b(k) ELSE a(k)
  <2>1. PICK l \in 1 .. c : l = (CHOOSE j \in 1 .. c : hit(i, j)) /\ hit(i, l)
    BY <1>4
  <2>2. Swapped(i) = IF i = a(l) THEN b(l) ELSE a(l)
    BY <2>1, <1>3
  <2>3. a(k) # b(l) /\ a(l) # b(k)
    BY <1>1
  <2>4. k = l
    BY <2>1, <2>3, <1>1, <1>4
  <2> QED
    BY <2>2, <2>4
<1>5. \A k \in 1 .. c : a(k) # b(k) /\ a(k) \in DOMAIN rows /\ b(k) \in DOMAIN rows
  BY <1>1
<1>6. \A i : ~(\E k \in 1 .. c : hit(i, k)) => Swapped(i) = i
  BY <1>3
<1>7. ASSUME NEW i
      PROVE  /\ Swapped(Swapped(i)) = i
             /\ i \in DOMAIN rows => Swapped(i) \in DOMAIN rows
             /\ i \in Row => Swapped(i) \in Row
  <2>1. CASE \E k \in 1 .. c : hit(i, k)
    <3>1. PICK k \in 1 .. c : hit(i, k)
      BY <2>1
    <3>2. Swapped(i) = IF i = a(k) THEN b(k) ELSE a(k)
      BY <3>1, <1>4
    <3>3. hit(Swapped(i), k)
      BY <3>2
    <3>4. Swapped(Swapped(i)) = IF Swapped(i) = a(k) THEN b(k) ELSE a(k)
      BY <3>3, <1>4
    <3> QED
      BY <3>1, <3>2, <3>4, <1>5, <1>2
  <2>2. CASE ~ \E k \in 1 .. c : hit(i, k)
    BY <2>2, <1>6
  <2> QED
    BY <2>1, <2>2
<1>8. [k \in DOMAIN Swaps |-> <<Swaps[k][1], Swaps[k][2], "SWAP">>] \in Seq(Moves)
  <2>1. \A k \in 1 .. c : <<Swaps[k][1], Swaps[k][2], "SWAP">> \in Moves
    BY <1>2, <1>5 DEF Moves
  <2>2. [k \in 1 .. c |-> <<Swaps[k][1], Swaps[k][2], "SWAP">>] \in Seq(Moves)
    <3> DEFINE z == [k \in 1 .. c |-> <<Swaps[k][1], Swaps[k][2], "SWAP">>]
    <3>1. z \in [1 .. c -> Moves]
      BY <2>1
    <3> HIDE DEF z
    <3>2. z \in Seq(Moves)
      BY <3>1, SeqDef
    <3> QED
      BY <3>2 DEF z
  <2> QED
    BY <1>1, <2>2
<1> QED
  BY <1>7, <1>8

-----------------------------------------------------------------------------
(* The parts of the type invariant. *)
SchedType ==
  /\ submits \in [Req -> 0 .. MaxSubmits]
  /\ status \in [Req -> {"none", "waiting", "running", "preempted"}]
  /\ preempts \in [Req -> 0 .. MaxPreempts]
  /\ alloc \in [Req -> Blocks]
  /\ finished \subseteq Req

Outputs == [finished : SUBSET Req, sched : SUBSET Req, new : SUBSET Req,
            resumed : SUBSET Req, long : SUBSET Req, blocks : [Req -> Blocks]]

RunType ==
  /\ backend \in Backends
  /\ pc \in {"idle", "remove", "cached", "add", "reorder", "sample"}
  /\ out \in Outputs
  /\ toAdd \in Seq(Req)
  /\ DOMAIN cached \subseteq Req /\ cached \in [DOMAIN cached -> Entries]

RowType ==
  /\ reqIds \in Seq(Req \cup {0}) /\ Len(reqIds) <= MaxNumReqs
  /\ DOMAIN index \subseteq Req /\ index \in [DOMAIN index -> Row]
  /\ DOMAIN rows = {index[r] : r \in DOMAIN index}
  /\ rows \in [DOMAIN rows -> Entries]

ColumnType ==
  /\ DOMAIN gens \subseteq Row /\ gens \in [DOMAIN gens -> Owner]
  /\ mask \in [Row -> Owner]
  /\ lora \in [DOMAIN rows -> {Adapter[r] : r \in Req}]
  /\ loraIds \in [{Adapter[r] : r \in Req} -> SUBSET Req]

ToldType ==
  /\ builder \in Builders
  /\ DOMAIN meta \subseteq Row /\ meta \in [DOMAIN meta -> [owner : Owner, mask : Owner]]
  /\ procs \in [Row -> Owner]

(* They make up the type invariant. *)
LEMMA Types == TypeOK <=> SchedType /\ RunType /\ RowType /\ ColumnType /\ ToldType
BY DEF TypeOK, SchedType, RunType, RowType, ColumnType, ToldType, Outputs, Builders

(* They do in the next state. *)
LEMMA TypesNext == SchedType' /\ RunType' /\ RowType' /\ ColumnType' /\ ToldType' => TypeOK'
BY DEF TypeOK, SchedType, RunType, RowType, ColumnType, ToldType, Outputs, Builders

(* The columns stay. *)
LEMMA RowTypeFrame ==
  ASSUME TypeOK, UNCHANGED rowVars
  PROVE  RowType' /\ ColumnType'
<1>1. UNCHANGED <<reqIds, index, rows>> /\ RowType
  BY Types DEF rowVars
<1>2. UNCHANGED <<rows, gens, mask, lora, loraIds>> /\ ColumnType
  BY Types DEF rowVars
<1>3. RowType'
  BY <1>1 DEF RowType
<1>4. ColumnType'
  BY <1>2 DEF ColumnType
<1> QED
  BY <1>3, <1>4

(* The sampler and the processors are told nothing. *)
LEMMA ToldTypeFrame ==
  ASSUME TypeOK, UNCHANGED <<builder, meta, procs>>
  PROVE  ToldType'
BY Types DEF ToldType

(* The model runner has only gone on. *)
LEMMA RunTypeFrame ==
  ASSUME TypeOK, pc' \in {"idle", "remove", "cached", "add", "reorder", "sample"},
         UNCHANGED <<backend, out, toAdd, cached>>
  PROVE  RunType'
BY Types DEF RunType

(* The scheduler does nothing. *)
LEMMA SchedTypeFrame ==
  ASSUME TypeOK, UNCHANGED schedVars
  PROVE  SchedType'
BY Types DEF SchedType, schedVars

-----------------------------------------------------------------------------
(* The worker starts with an empty batch. *)
LEMMA InitIInv == Init => IInv
<1> SUFFICES ASSUME Init PROVE IInv
  OBVIOUS
<1> USE DEF Init
<1>1. DOMAIN <<>> = {} /\ Elems(<<>>) = {} /\ Len(<<>>) = 0
  BY DEF Elems
<1>2. /\ \A r \in Req : submits[r] = 0 /\ status[r] = "none" /\ alloc[r] = <<>>
      /\ DOMAIN cached = {} /\ DOMAIN index = {} /\ DOMAIN rows = {} /\ DOMAIN gens = {}
      /\ DOMAIN meta = {} /\ Len(reqIds) = 0 /\ pc = "idle" /\ toAdd = <<>>
  BY <1>1
<1>3. TypeOK
  <2>1. /\ submits \in [Req -> 0 .. MaxSubmits] /\ preempts \in [Req -> 0 .. MaxPreempts]
        /\ alloc \in [Req -> Blocks]
    BY Sizes DEF Blocks
  <2>2. out \in [finished : SUBSET Req, sched : SUBSET Req, new : SUBSET Req,
                 resumed : SUBSET Req, long : SUBSET Req, blocks : [Req -> Blocks]]
    BY DEF NoOutput, Blocks
  <2>3. mask \in [Row -> Owner] /\ procs \in [Row -> Owner]
    BY Sizes
  <2>4. builder \in [removed : SUBSET Row, added : Seq(Row \X Owner), moved : Seq(Moves)]
    BY EmptyBuilderParts DEF Builders
  <2>5. /\ toAdd \in Seq(Req) /\ reqIds \in Seq(Req \cup {0}) /\ Len(reqIds) <= MaxNumReqs
        /\ loraIds \in [{Adapter[r] : r \in Req} -> SUBSET Req]
    BY Sizes
  <2>6. /\ DOMAIN cached \subseteq Req /\ cached \in [DOMAIN cached -> Entries]
        /\ DOMAIN index \subseteq Req /\ index \in [DOMAIN index -> Row]
        /\ DOMAIN rows = {index[r] : r \in DOMAIN index} /\ rows \in [DOMAIN rows -> Entries]
        /\ DOMAIN gens \subseteq Row /\ gens \in [DOMAIN gens -> Owner]
        /\ lora \in [DOMAIN rows -> {Adapter[r] : r \in Req}]
        /\ DOMAIN meta \subseteq Row /\ meta \in [DOMAIN meta -> [owner : Owner, mask : Owner]]
    BY <1>1
  <2> QED
    BY <2>1, <2>2, <2>3, <2>4, <2>5, <2>6 DEF TypeOK
<1>4. OutInv /\ CacheInv
  BY <1>2 DEF OutInv, CacheInv, StatusOf, IdleOf, Known, Early, Late
<1>5. ToAddInv /\ RowsInv /\ ContentInv
  BY <1>2 DEF ToAddInv, Late, RowsInv, ContentInv
<1>6. HolesInv /\ BuilderInv
  BY <1>2, EmptyBuilderParts DEF HolesInv, BuilderInv
<1>7. AdapterInv
  BY <1>2 DEF AdapterInv
<1>8. MetaInv
  BY <1>2 DEF MetaInv
<1>9. FollowInv
  <2> SUFFICES ASSUME NEW i \in Row PROVE Apply(builder)[i] = Occupant(i)
    BY DEF FollowInv
  <2>1. Apply(builder) = ToldRows(builder)
    BY ApplyTold, MovesNone, EmptyBuilderParts
  <2>2. AddsTo(builder, i) = {}
    BY EmptyBuilderParts DEF AddsTo
  <2>3. Told(builder, i) = Nobody
    BY <2>2, EmptyBuilderParts DEF Told
  <2> QED
    BY <2>1, <2>3, <1>2 DEF ToldRows, Occupant
<1> QED
  BY <1>3, <1>4, <1>5, <1>6, <1>7, <1>8, <1>9 DEF IInv

(* The scheduler leaves the batch alone. *)
LEMMA SchedulerFrame ==
  ASSUME IInv, pc = "idle", pc' \in {"idle", "remove"},
         UNCHANGED <<backend, toAdd, cached, rowVars, builder, meta, procs>>
  PROVE  /\ ToAddInv' /\ RowsInv' /\ HolesInv' /\ ContentInv' /\ AdapterInv' /\ BuilderInv'
         /\ MetaInv' /\ FollowInv'
<1> USE DEF IInv, rowVars
<1>1. ToAddInv' /\ RowsInv'
  BY DEF ToAddInv, RowsInv, Late
<1>2. HolesInv'
  BY DEF HolesInv
<1>3. ContentInv' /\ AdapterInv'
  BY DEF ContentInv, RowOf, AdapterInv
<1>4. BuilderInv'
  BY DEF BuilderInv
<1>5. MetaInv'
  BY DEF MetaInv
<1>6. FollowInv'
  BY DEF FollowInv, Apply, AddsTo, Occupant
<1> QED
  BY <1>1, <1>2, <1>3, <1>4, <1>5, <1>6

(* A request is submitted. *)
LEMMA SubmitStep ==
  ASSUME IInv, NEW r \in Req, Submit(r)
  PROVE  IInv'
<1> USE DEF IInv
<1>1. /\ pc = "idle" /\ pc' = "idle" /\ status[r] = "none"
      /\ Total(submits, Req, MaxSubmits) < MaxSubmits
      /\ submits' = [submits EXCEPT ![r] = submits[r] + 1]
      /\ status' = [status EXCEPT ![r] = "waiting"]
      /\ UNCHANGED <<preempts, alloc, finished, out>>
      /\ UNCHANGED <<backend, toAdd, cached, rowVars, builder, meta, procs>>
  BY DEF Submit, runVars
<1>2. /\ ToAddInv' /\ RowsInv' /\ HolesInv' /\ ContentInv' /\ AdapterInv' /\ BuilderInv'
      /\ MetaInv' /\ FollowInv'
  BY <1>1, SchedulerFrame
<1>3. submits[r] \in Nat /\ submits[r] + 1 <= MaxSubmits
  <2>1. submits \in [Req -> 0 .. MaxSubmits] /\ submits[r] + 0 <= MaxSubmits /\ 0 \in Nat
        /\ submits[r] = submits[r] + 0 /\ submits[r] \in Nat
    BY Sizes DEF TypeOK
  <2>2. submits[r] <= Total(submits, Req, MaxSubmits)
    BY <2>1, Sizes, TotalAdd
  <2>3. Total(submits, Req, MaxSubmits) \in Nat
    BY Sizes, TotalType
  <2> QED
    BY <1>1, <2>1, <2>2, <2>3, Sizes
<1>4. TypeOK'
  <2>1. SchedType'
    BY <1>1, <1>3, Sizes, Types DEF SchedType
  <2> QED
    BY <2>1, <1>1, RunTypeFrame, RowTypeFrame, ToldTypeFrame, TypesNext
<1>5. OutInv'
  BY <1>1 DEF OutInv
<1>6. CacheInv'
  <2> SUFFICES ASSUME NEW q \in Req PROVE StatusOf(q)' /\ IdleOf(q)'
    BY <1>1 DEF CacheInv, Early, Late
  <2>1. StatusOf(q) /\ IdleOf(q)
    BY <1>1 DEF CacheInv
  <2>2. CASE q = r
    <3>1. status'[q] = "waiting" /\ submits'[q] >= 1
      BY <1>1, <1>3, <2>2 DEF TypeOK
    <3> QED
      BY <2>1, <2>2, <3>1, <1>1 DEF StatusOf, IdleOf, Known, rowVars
  <2>3. CASE q # r
    <3>1. status'[q] = status[q] /\ submits'[q] = submits[q]
      BY <1>1, <2>3 DEF TypeOK
    <3> QED
      BY <2>1, <3>1, <1>1 DEF StatusOf, IdleOf, Fresh, rowVars
  <2> QED
    BY <2>2, <2>3
<1> QED
  BY <1>2, <1>4, <1>5, <1>6

(* A request ends between two steps. *)
LEMMA FinishStep ==
  ASSUME IInv, NEW r \in Req, Finish(r)
  PROVE  IInv'
<1> USE DEF IInv
<1>1. /\ pc = "idle" /\ pc' = "idle" /\ status[r] # "none"
      /\ status' = [status EXCEPT ![r] = "none"]
      /\ alloc' = [alloc EXCEPT ![r] = <<>>]
      /\ finished' = finished \cup {r}
      /\ UNCHANGED <<submits, preempts, out>>
      /\ UNCHANGED <<backend, toAdd, cached, rowVars, builder, meta, procs>>
  BY DEF Finish, runVars
<1>2. /\ ToAddInv' /\ RowsInv' /\ HolesInv' /\ ContentInv' /\ AdapterInv' /\ BuilderInv'
      /\ MetaInv' /\ FollowInv'
  BY <1>1, SchedulerFrame
<1>3. TypeOK'
  <2>1. SchedType'
    BY <1>1, Types DEF SchedType, Blocks
  <2> QED
    BY <2>1, <1>1, RunTypeFrame, RowTypeFrame, ToldTypeFrame, TypesNext
<1>4. OutInv'
  BY <1>1 DEF OutInv
<1>5. CacheInv'
  <2> SUFFICES ASSUME NEW q \in Req PROVE StatusOf(q)' /\ IdleOf(q)'
    BY <1>1 DEF CacheInv, Early, Late
  <2>1. StatusOf(q) /\ IdleOf(q)
    BY <1>1 DEF CacheInv
  <2>2. CASE q = r
    <3>1. status'[q] = "none" /\ alloc'[q] = <<>> /\ q \in finished'
      BY <1>1, <2>2 DEF TypeOK
    <3> QED
      BY <3>1 DEF StatusOf, IdleOf, Known
  <2>3. CASE q # r
    <3>1. status'[q] = status[q] /\ alloc'[q] = alloc[q] /\ (q \in finished' <=> q \in finished)
      BY <1>1, <2>3 DEF TypeOK
    <3> QED
      BY <2>1, <3>1, <1>1 DEF StatusOf, IdleOf, Fresh, rowVars
  <2> QED
    BY <2>2, <2>3
<1> QED
  BY <1>2, <1>3, <1>4, <1>5

(* The parts of a SchedulerOutput. *)
LEMMA OutputParts ==
  ASSUME NEW o \in Outputs
  PROVE  /\ o.finished \subseteq Req /\ o.sched \subseteq Req /\ o.new \subseteq Req
         /\ o.resumed \subseteq Req /\ o.long \subseteq Req /\ o.blocks \in [Req -> Blocks]
BY DEF Outputs

(* A step is scheduled. *)
LEMMA ScheduleStep ==
  ASSUME IInv, NEW S \in SUBSET Req, NEW long \in SUBSET S, NEW P \in SUBSET (Req \ S),
         Schedule(S, long, P)
  PROVE  IInv'
<1> USE DEF IInv
<1> DEFINE new == {r \in S : status[r] = "waiting"}
           resumed == {r \in S : status[r] = "preempted"}
           sent == [r \in Req |-> IF r \in S THEN Sent(r) ELSE <<>>]
<1>1. /\ pc = "idle" /\ pc' = "remove" /\ finished' = {}
      /\ \A r \in S : CanRun(r)
      /\ Cardinality(S) <= MaxNumReqs
      /\ \A r \in P : status[r] = "running"
      /\ Total(preempts, Req, MaxPreempts) + Cardinality(P) <= MaxPreempts
      /\ out' = [finished |-> finished, sched |-> S, long |-> long, new |-> new,
                 resumed |-> resumed, blocks |-> sent]
      /\ status' = [r \in Req |-> CASE r \in S -> "running"
                                    [] r \in P -> "preempted"
                                    [] OTHER   -> status[r]]
      /\ preempts' = [r \in Req |-> IF r \in P THEN preempts[r] + 1 ELSE preempts[r]]
      /\ alloc' = [r \in Req |-> CASE r \in S -> alloc[r] \o Sent(r)
                                   [] r \in P -> <<>>
                                   [] OTHER   -> alloc[r]]
      /\ UNCHANGED <<submits, backend, toAdd, cached, rowVars, builder, meta, procs>>
  BY DEF Schedule
<1>2. /\ ToAddInv' /\ RowsInv' /\ HolesInv' /\ ContentInv' /\ AdapterInv' /\ BuilderInv'
      /\ MetaInv' /\ FollowInv'
  BY <1>1, SchedulerFrame
<1>3. SchedType
  BY Types
<1>4. \A r \in Req : /\ Sent(r) \in Blocks /\ alloc[r] \in Blocks
                     /\ alloc[r] \o Sent(r) \in Blocks /\ <<>> \in Blocks
  <2> SUFFICES ASSUME NEW r \in Req
               PROVE  Sent(r) \in Blocks /\ alloc[r] \in Blocks /\ alloc[r] \o Sent(r) \in Blocks
                      /\ <<>> \in Blocks
    OBVIOUS
  <2>1. alloc[r] \in Seq(0 .. MaxPreempts) /\ preempts[r] \in 0 .. MaxPreempts
    BY <1>3 DEF SchedType, Blocks
  <2>2. Sent(r) \in Seq(0 .. MaxPreempts)
    <3>1. <<preempts[r]>> \in Seq(0 .. MaxPreempts) /\ <<>> \in Seq(0 .. MaxPreempts)
      BY <2>1
    <3> QED
      BY <3>1, Zenon DEF Sent
  <2>3. alloc[r] \o Sent(r) \in Seq(0 .. MaxPreempts)
    BY <2>1, <2>2, ConcatProperties
  <2> QED
    BY <2>1, <2>2, <2>3 DEF Blocks
<1>5. \A r \in P : preempts[r] + 1 \in 0 .. MaxPreempts
  <2> SUFFICES ASSUME NEW r \in P PROVE preempts[r] + 1 \in 0 .. MaxPreempts
    OBVIOUS
  <2>1. preempts \in [Req -> 0 .. MaxPreempts] /\ preempts[r] + 0 <= MaxPreempts /\ 0 \in Nat
        /\ preempts[r] = preempts[r] + 0 /\ preempts[r] \in Nat /\ r \in Req
    BY <1>3, Sizes DEF SchedType
  <2>2. preempts[r] <= Total(preempts, Req, MaxPreempts)
    BY <2>1, Sizes, TotalAdd
  <2>3. Total(preempts, Req, MaxPreempts) \in Nat
    BY Sizes, TotalType
  <2>4. IsFiniteSet(P)
    BY Sizes, FS_Subset
  <2>5. Cardinality(P) \in Nat /\ Cardinality(P) # 0
    BY <2>4, FS_CardinalityType, FS_EmptySet
  <2> QED
    BY <1>1, <2>1, <2>2, <2>3, <2>5, Sizes
<1>6. /\ \A r \in Req : /\ status'[r] = IF r \in S THEN "running"
                                        ELSE IF r \in P THEN "preempted" ELSE status[r]
                        /\ alloc'[r] = IF r \in S THEN alloc[r] \o Sent(r)
                                       ELSE IF r \in P THEN <<>> ELSE alloc[r]
  BY <1>1
<1>7. /\ out'.finished = finished /\ out'.sched = S /\ out'.long = long /\ out'.new = new
      /\ out'.resumed = resumed /\ out'.blocks = sent
  BY <1>1
<1>8. TypeOK'
  <2>1. SchedType'
    <3>1. status' \in [Req -> {"none", "waiting", "running", "preempted"}]
      BY <1>1, <1>3 DEF SchedType
    <3>2. preempts' \in [Req -> 0 .. MaxPreempts]
      BY <1>1, <1>3, <1>5 DEF SchedType
    <3>3. alloc' \in [Req -> Blocks]
      <4> HIDE DEF new, resumed, sent
      <4> QED
        BY <1>1, <1>4
    <3> QED
      BY <1>1, <1>3, <3>1, <3>2, <3>3 DEF SchedType
  <2>2. out' \in Outputs
    <3>1. finished \in SUBSET Req /\ S \in SUBSET Req /\ long \in SUBSET Req
          /\ new \in SUBSET Req /\ resumed \in SUBSET Req
      BY <1>3 DEF SchedType
    <3>2. sent \in [Req -> Blocks]
      BY <1>4
    <3> HIDE DEF new, resumed, sent
    <3> QED
      BY <1>1, <3>1, <3>2 DEF Outputs
  <2>3. RunType'
    BY <1>1, <2>2, Types DEF RunType
  <2> QED
    BY <2>1, <2>3, <1>1, RowTypeFrame, ToldTypeFrame, TypesNext
<1>9. OutInv'
  BY <1>1, <1>6, <1>7 DEF OutInv
<1>10. CacheInv'
  <2> SUFFICES ASSUME NEW r \in Req PROVE StatusOf(r)' /\ EarlyOf(r)'
    BY <1>1 DEF CacheInv, Early, Late
  <2>1. StatusOf(r) /\ IdleOf(r)
    BY <1>1 DEF CacheInv
  <2>2. DOMAIN index' = DOMAIN index /\ cached' = cached /\ submits' = submits
    BY <1>1 DEF rowVars
  <2>3. (status[r] # "none" /\ Tokens(r) < MaxLen) \/ r \notin S
    BY <1>1 DEF CanRun
  <2>4. StatusOf(r)'
    BY <1>1, <1>6, <2>1, <2>2, <2>3 DEF StatusOf
  <2>5. /\ r \in DOMAIN cached' => r \in out'.finished \/ status'[r] \in Known
        /\ r \in DOMAIN index' => r \in out'.finished \/ r \notin out'.new \cup out'.resumed
    BY <1>6, <1>7, <2>1, <2>2 DEF IdleOf, Known
  <2>6. r \in new => 1 < MaxLen /\ out'.blocks[r] = alloc'[r]
    <3> SUFFICES ASSUME r \in new PROVE 1 < MaxLen /\ out'.blocks[r] = alloc'[r]
      OBVIOUS
    <3>1. alloc[r] = <<>> /\ Tokens(r) = 1
      BY <2>1 DEF StatusOf, Tokens
    <3>2. alloc'[r] = <<>> \o Sent(r) /\ out'.blocks[r] = Sent(r)
      BY <3>1, <1>6, <1>7
    <3>3. <<>> \o Sent(r) = Sent(r)
      BY <1>4, ConcatEmptySeq DEF Blocks
    <3> QED
      BY <3>1, <3>2, <3>3, <2>3
  <2>7. ASSUME status'[r] \in Known, r \notin new
        PROVE  status[r] \in Known /\ (r \in S => status[r] \in {"running", "preempted"})
    BY <1>1, <1>3, <1>6, <2>3, <2>7 DEF SchedType, Known
  <2>8. ASSUME status'[r] \in Known, r \notin new
        PROVE  /\ r \in DOMAIN cached' /\ cached'[r].owner = <<r, submits'[r]>>
               /\ r \notin out'.finished
               /\ r \in out'.sched => cached'[r].len < MaxLen /\ NewBlocks(r)' = alloc'[r]
               /\ r \notin out'.sched /\ status'[r] = "running" => cached'[r].blocks = alloc'[r]
    <3>1. Fresh(r) /\ r \notin finished
      BY <2>1, <2>7, <2>8 DEF IdleOf
    <3>2. r \in S => cached[r].len < MaxLen
      BY <2>3, <2>7, <2>8 DEF Tokens
    <3>3. ASSUME r \in S, status[r] = "running" PROVE NewBlocks(r)' = alloc'[r]
      <4>1. r \notin resumed /\ sent[r] = Sent(r)
        BY <3>3
      <4>2. NewBlocks(r)' = cached[r].blocks \o Sent(r)
        BY <4>1, <1>7, <2>2 DEF NewBlocks
      <4>3. cached[r].blocks = alloc[r]
        BY <3>1, <3>3 DEF Fresh
      <4> QED
        BY <4>2, <4>3, <3>3, <1>6
    <3>4. ASSUME r \in S, status[r] = "preempted" PROVE NewBlocks(r)' = alloc'[r]
      <4>1. r \in resumed /\ sent[r] = Sent(r)
        BY <3>4
      <4>2. NewBlocks(r)' = Sent(r)
        BY <4>1, <1>7 DEF NewBlocks
      <4>3. alloc[r] = <<>> /\ alloc'[r] = alloc[r] \o Sent(r)
        BY <2>1, <3>4, <1>6 DEF StatusOf
      <4>4. <<>> \o Sent(r) = Sent(r)
        BY <1>4, ConcatEmptySeq DEF Blocks
      <4> QED
        BY <4>2, <4>3, <4>4
    <3>5. r \notin S /\ status'[r] = "running" => cached'[r].blocks = alloc'[r]
      BY <3>1, <1>6, <2>2 DEF Fresh
    <3> QED
      BY <3>1, <3>2, <3>3, <3>4, <3>5, <1>7, <2>2, <2>7, <2>8 DEF Fresh
  <2> QED
    BY <2>4, <2>5, <2>6, <2>8, <1>1, <1>7 DEF EarlyOf
<1> QED
  BY <1>2, <1>8, <1>9, <1>10

(* What the processors will know, in the next state. *)
LEMMA ApplyNext ==
  ASSUME procs' = procs
  PROVE  Apply(builder)' = Apply(builder')
BY DEF Apply, AddsTo

(* A processor that is told of no move. *)
LEMMA ApplyUnmoved ==
  ASSUME NEW b, b.moved = <<>>, NEW i \in Row
  PROVE  Apply(b)[i] = Told(b, i)
<1>1. Apply(b) = ToldRows(b)
  BY ApplyTold, MovesNone
<1> QED
  BY <1>1 DEF ToldRows

(* The finished and the unscheduled requests leave the batch. *)
LEMMA RemoveStep ==
  ASSUME IInv, RemoveRequests
  PROVE  IInv'
<1> USE DEF IInv
<1>0. PICK gone : gone = {index[r] : r \in Leaving}
  OBVIOUS
<1>1. /\ pc = "remove" /\ pc' = "cached"
      /\ cached' = [r \in DOMAIN cached \ out.finished |-> cached[r]]
      /\ index' = [r \in DOMAIN index \ Leaving |-> index[r]]
      /\ reqIds' = [k \in DOMAIN reqIds |-> IF k - 1 \in gone THEN 0 ELSE reqIds[k]]
      /\ gens' = [i \in DOMAIN gens \ gone |-> gens[i]]
      /\ loraIds' = [a \in DOMAIN loraIds |->
                       loraIds[a] \ {r \in Leaving : lora[index[r]] = a /\ a # 0}]
      /\ rows' = [i \in DOMAIN rows \ gone |-> rows[i]]
      /\ lora' = [i \in DOMAIN lora \ gone |-> lora[i]]
      /\ mask' = [i \in Row |-> IF i \in gone THEN Nobody ELSE mask[i]]
      /\ builder' = [builder EXCEPT !.removed = builder.removed \cup gone]
      /\ UNCHANGED <<schedVars, backend, out, toAdd, meta, procs>>
  BY <1>0 DEF RemoveRequests, DropLora, Restrict
<1>2. RunType /\ RowType /\ ColumnType /\ ToldType
  BY Types
<1>3. /\ gone \subseteq Row /\ Leaving \subseteq DOMAIN index
      /\ \A r \in DOMAIN index : index[r] \in gone <=> r \in Leaving
      /\ gone \subseteq DOMAIN rows
  <2>1. Leaving \subseteq DOMAIN index
    BY DEF Leaving
  <2> QED
    BY <2>1, <1>0, OwnRow
<1>4. PICK c : c = builder' /\ c \in Builders /\ c.removed = gone /\ c.added = builder.added
               /\ c.moved = builder.moved
  <2>1. builder.removed = {} /\ builder \in Builders
    BY <1>1, <1>2 DEF HolesInv, ToldType
  <2>2. builder' = [removed |-> gone, added |-> builder.added, moved |-> builder.moved]
    BY <1>1, <2>1, BuilderParts
  <2> QED
    <3>1. gone \in SUBSET Row /\ builder.added \in Seq(Row \X Owner) /\ builder.moved \in Seq(Moves)
      BY <2>1, <1>3, BuilderParts
    <3> QED
      <4>1. /\ builder' \in Builders /\ builder'.removed = gone
            /\ builder'.added = builder.added /\ builder'.moved = builder.moved
        BY <3>1, <2>2 DEF Builders
      <4> QED
        BY <4>1
<1>5. /\ Len(reqIds') = Len(reqIds) /\ reqIds' \in Seq(Req \cup {0})
      /\ \A k \in 1 .. Len(reqIds) : reqIds'[k] = IF k - 1 \in gone THEN 0 ELSE reqIds[k]
  <2>1. PICK n \in Nat : n = Len(reqIds) /\ DOMAIN reqIds = 1 .. n
    BY <1>2, LenProperties DEF RowType
  <2>2. \A k \in 1 .. n : reqIds[k] \in Req \cup {0}
    BY <1>2, <2>1, ElemAt DEF RowType
  <2>3. reqIds' \in [1 .. n -> Req \cup {0}]
    BY <1>1, <2>1, <2>2
  <2>4. reqIds' \in Seq(Req \cup {0}) /\ Len(reqIds') = n
    BY <2>3, SeqDef
  <2> QED
    BY <1>1, <2>1, <2>4
<1>6. /\ DOMAIN index' = DOMAIN index \ Leaving
      /\ \A r \in DOMAIN index' : index'[r] = index[r] /\ index[r] \notin gone
  BY <1>1, <1>3
<1>7. DOMAIN rows' = DOMAIN rows \ gone /\ \A i \in DOMAIN rows' : rows'[i] = rows[i]
  BY <1>1
<1>8. DOMAIN rows' = {index'[r] : r \in DOMAIN index'}
  <2>1. DOMAIN rows = {index[r] : r \in DOMAIN index}
    BY <1>2 DEF RowType
  <2> QED
    BY <2>1, <1>6, <1>7, <1>3
<1>9. TypeOK'
  <2>1. RowType'
    <3>1. index' \in [DOMAIN index' -> Row] /\ DOMAIN index' \subseteq Req
      BY <1>2, <1>1 DEF RowType
    <3>2. rows' \in [DOMAIN rows' -> Entries]
      BY <1>2, <1>1 DEF RowType
    <3>3. Len(reqIds') <= MaxNumReqs
      BY <1>2, <1>5 DEF RowType
    <3> QED
      BY <3>1, <3>2, <3>3, <1>5, <1>8 DEF RowType
  <2>2. ColumnType'
    <3>1. gens' \in [DOMAIN gens' -> Owner] /\ DOMAIN gens' \subseteq Row
      BY <1>1, <1>2 DEF ColumnType
    <3>2. mask' \in [Row -> Owner]
      BY <1>1, <1>2, Sizes DEF ColumnType
    <3>3. lora' \in [DOMAIN rows' -> {Adapter[r] : r \in Req}]
      BY <1>1, <1>2, <1>7 DEF ColumnType
    <3>4. loraIds' \in [{Adapter[r] : r \in Req} -> SUBSET Req]
      BY <1>1, <1>2 DEF ColumnType
    <3> QED
      BY <3>1, <3>2, <3>3, <3>4 DEF ColumnType
  <2>3. ToldType'
    BY <1>1, <1>2, <1>4 DEF ToldType
  <2>4. RunType'
    BY <1>1, <1>2 DEF RunType
  <2> QED
    BY <2>1, <2>2, <2>3, <2>4, <1>1, SchedTypeFrame, TypesNext
<1>10. OutInv'
  BY <1>1 DEF OutInv, schedVars
<1>11. CacheInv'
  <2> SUFFICES ASSUME NEW r \in Req PROVE StatusOf(r)' /\ EarlyOf(r)'
    BY <1>1 DEF CacheInv, Early, Late
  <2>1. StatusOf(r) /\ EarlyOf(r)
    BY <1>1 DEF CacheInv, Early
  <2>2. UNCHANGED <<submits, status, alloc, out>>
    BY <1>1 DEF schedVars
  <2>3. /\ r \in DOMAIN cached' <=> r \in DOMAIN cached /\ r \notin out.finished
        /\ r \in DOMAIN cached' => cached'[r] = cached[r]
        /\ r \in DOMAIN index' => r \in DOMAIN index /\ r \in out.sched /\ r \notin out.finished
    BY <1>1, <1>6 DEF Leaving
  <2>4. r \in DOMAIN cached' => NewBlocks(r)' = NewBlocks(r)
    BY <2>2, <2>3 DEF NewBlocks
  <2>5. StatusOf(r)'
    BY <2>1, <2>2 DEF StatusOf
  <2>6. EarlyOf(r)'
    BY <2>1, <2>2, <2>3, <2>4, <1>1 DEF EarlyOf
  <2> QED
    BY <2>5, <2>6
<1>12. ToAddInv'
  BY <1>1 DEF ToAddInv, Late
<1>13. RowsInv'
  <2>1. \A r \in DOMAIN index' : index'[r] < Len(reqIds') /\ reqIds'[index'[r] + 1] = r
    <3> SUFFICES ASSUME NEW r \in DOMAIN index'
                 PROVE  index'[r] < Len(reqIds') /\ reqIds'[index'[r] + 1] = r
      OBVIOUS
    <3>1. /\ r \in DOMAIN index /\ index'[r] = index[r] /\ index[r] \notin gone
          /\ index[r] + 1 \in 1 .. Len(reqIds) /\ index[r] \in Nat /\ reqIds[index[r] + 1] = r
          /\ index[r] < Len(reqIds)
      BY <1>6, OwnRow DEF RowsInv
    <3>2. (index[r] + 1) - 1 = index[r]
      BY <3>1
    <3> QED
      BY <3>1, <3>2, <1>5
  <2>2. \A k \in 1 .. Len(reqIds') :
          reqIds'[k] # 0 => reqIds'[k] \in DOMAIN index' /\ index'[reqIds'[k]] = k - 1
    BY <1>3, <1>5, <1>6 DEF RowsInv
  <2> QED
    BY <2>1, <2>2 DEF RowsInv
<1>14. HolesInv'
  <2>1. \A i \in gone : i < Len(reqIds') /\ reqIds'[i + 1] = 0
    <3> SUFFICES ASSUME NEW i \in gone PROVE i < Len(reqIds') /\ reqIds'[i + 1] = 0
      OBVIOUS
    <3>1. PICK r \in DOMAIN index : i = index[r]
      BY <1>3, OwnRow
    <3>2. i \in Nat /\ i + 1 \in 1 .. Len(reqIds) /\ (i + 1) - 1 = i
      BY <3>1, OwnRow
    <3> QED
      BY <3>2, <1>5
  <2>2. \A k \in 1 .. Len(reqIds') : reqIds'[k] = 0 => k - 1 \in gone
    BY <1>1, <1>5 DEF HolesInv
  <2> QED
    BY <2>1, <2>2, <1>1, <1>4 DEF HolesInv
<1>15. ContentInv'
  <2>1. DOMAIN gens' \subseteq DOMAIN rows'
    BY <1>1, <1>7 DEF ContentInv
  <2>2. ASSUME NEW r \in DOMAIN index' PROVE RowOf(r)'
    <3>1. /\ RowOf(r) /\ index'[r] = index[r] /\ index[r] \notin gone /\ index[r] \in DOMAIN rows
      BY <1>6, OwnRow DEF ContentInv
    <3>2. r \notin out.finished
      BY <1>6, <1>1 DEF Leaving
    <3>3. r \in DOMAIN cached' /\ cached'[r] = cached[r]
      BY <3>1, <3>2, <1>1 DEF RowOf
    <3>4. /\ rows'[index[r]] = rows[index[r]] /\ lora'[index[r]] = lora[index[r]]
      BY <3>1, <1>1, <1>2 DEF ColumnType
    <3>5. /\ index[r] \in DOMAIN gens' <=> index[r] \in DOMAIN gens
          /\ index[r] \in DOMAIN gens => gens'[index[r]] = gens[index[r]]
      BY <3>1, <1>1
    <3> QED
      BY <3>1, <3>3, <3>4, <3>5 DEF RowOf
  <2> QED
    BY <2>1, <2>2 DEF ContentInv
<1>16. AdapterInv'
  <2> SUFFICES ASSUME NEW a \in DOMAIN loraIds', a # 0, NEW r \in Req
               PROVE  r \in loraIds'[a] <=> r \in DOMAIN index' /\ Adapter[r] = a
    BY DEF AdapterInv
  <2>1. a \in DOMAIN loraIds /\ (r \in loraIds[a] <=> r \in DOMAIN index /\ Adapter[r] = a)
    BY <1>1 DEF AdapterInv
  <2>2. r \in DOMAIN index => lora[index[r]] = Adapter[r]
    BY DEF ContentInv, RowOf
  <2>3. loraIds'[a] = loraIds[a] \ {q \in Leaving : lora[index[q]] = a /\ a # 0}
    BY <1>1, <2>1
  <2> QED
    BY <2>1, <2>2, <2>3, <1>3, <1>6
<1>17. BuilderInv'
  <2> SUFFICES ASSUME backend = "attention" PROVE BuilderInv'
    BY <1>1 DEF BuilderInv
  <2>1. builder.moved = <<>>
    BY <1>1 DEF BuilderInv
  <2>2. c.moved = <<>> /\ Len(c.moved) = 0
    BY <2>1, <1>4
  <2> QED
    BY <2>2, <1>1, <1>4 DEF BuilderInv
<1>18. MetaInv'
  <2> SUFFICES ASSUME backend = "attention", builder' = EmptyBuilder PROVE MetaInv'
    BY <1>1 DEF MetaInv
  <2>1. gone = {} /\ builder = EmptyBuilder
    BY <1>1, <1>2, <1>4, EmptyBuilderParts, BuilderParts DEF HolesInv, ToldType
  <2> QED
    BY <2>1, <1>1, <1>7 DEF MetaInv
<1>19. FollowInv'
  <2> SUFFICES ASSUME backend = "attention", NEW i \in Row PROVE Apply(c)[i] = Occupant(i)'
    BY <1>1, <1>4, ApplyNext DEF FollowInv
  <2>1. builder.moved = <<>> /\ builder.removed = {}
    BY <1>1 DEF BuilderInv, HolesInv
  <2>2. Apply(c)[i] = Told(c, i) /\ Told(builder, i) = Occupant(i)
    BY <2>1, <1>4, ApplyUnmoved DEF FollowInv
  <2>3. CASE i \in gone
    BY <2>2, <2>3, <1>4, <1>7, ToldRemoved DEF Occupant
  <2>4. CASE i \notin gone
    BY <2>1, <2>2, <2>4, <1>4, <1>7, ToldRemoved DEF Occupant
  <2> QED
    BY <2>3, <2>4
<1> QED
  BY <1>9, <1>10, <1>11, <1>12, <1>13, <1>14, <1>15, <1>16, <1>17, <1>18, <1>19

(* The state of a request. *)
LEMMA EntryParts ==
  ASSUME NEW e \in Entries
  PROVE  /\ e.owner \in Owner /\ e.len \in 1 .. MaxLen /\ e.blocks \in Blocks
         /\ e = [owner |-> e.owner, len |-> e.len, blocks |-> e.blocks]
BY DEF Entries

(* Such a state with other blocks. *)
LEMMA EntryBlocks ==
  ASSUME NEW e \in Entries, NEW b \in Blocks, NEW d, d = [e EXCEPT !.blocks = b]
  PROVE  d \in Entries /\ d.owner = e.owner /\ d.len = e.len /\ d.blocks = b
<1>1. d = [owner |-> e.owner, len |-> e.len, blocks |-> b]
  BY EntryParts
<1> QED
  BY <1>1, EntryParts DEF Entries

(* Such a state with one more token. *)
LEMMA EntryLen ==
  ASSUME NEW e \in Entries, e.len < MaxLen, NEW d, d = [e EXCEPT !.len = e.len + 1]
  PROVE  d \in Entries /\ d.owner = e.owner /\ d.blocks = e.blocks
<1>1. d = [owner |-> e.owner, len |-> e.len + 1, blocks |-> e.blocks]
  BY EntryParts
<1>2. e.len + 1 \in 1 .. MaxLen
  BY EntryParts, Sizes
<1> QED
  BY <1>1, <1>2, EntryParts DEF Entries

(* The cached states are updated, and the rows of those in the batch. *)
LEMMA UpdateStep ==
  ASSUME IInv, UpdateCached
  PROVE  IInv'
<1> USE DEF IInv
<1> DEFINE known == out.sched \ out.new
           upd(r) == CASE r \in out.new -> [owner |-> <<r, submits[r]>>, len |-> 1,
                                            blocks |-> out.blocks[r]]
                       [] r \in known   -> [cached[r] EXCEPT !.blocks = NewBlocks(r)]
                       [] OTHER         -> cached[r]
           row(i) == [rows[i] EXCEPT !.blocks = rows[i].blocks \o out.blocks[reqIds[i + 1]]]
<1>1. /\ pc = "cached" /\ pc' = "add"
      /\ cached' = [r \in DOMAIN cached \cup out.new |-> upd(r)]
      /\ rows' = [i \in DOMAIN rows |-> row(i)]
      /\ toAdd' = Ascending(out.new) \o Ascending(known \ DOMAIN index)
      /\ UNCHANGED <<schedVars, backend, out, reqIds, index, gens, mask, lora, loraIds, builder,
                     meta, procs>>
  BY DEF UpdateCached, InOrder
<1>2. RunType /\ RowType /\ ColumnType /\ ToldType /\ SchedType
  BY Types
<1>3. /\ out.sched \subseteq Req /\ out.new \subseteq out.sched /\ out.resumed \subseteq out.sched
      /\ out.blocks \in [Req -> Blocks] /\ \A r \in out.sched : status[r] = "running"
  BY <1>1, <1>2, OutputParts DEF OutInv, RunType
<1>4. \A r \in Req : StatusOf(r) /\ EarlyOf(r)
  BY <1>1 DEF CacheInv, Early
<1>5. ASSUME NEW r \in out.new
      PROVE  /\ upd(r) \in Entries /\ upd(r).owner = <<r, submits[r]>> /\ upd(r).len < MaxLen
             /\ upd(r).blocks = alloc[r]
  <2>1. upd(r) = [owner |-> <<r, submits[r]>>, len |-> 1, blocks |-> out.blocks[r]]
    OBVIOUS
  <2>2. r \in Req /\ submits[r] >= 1 /\ submits[r] \in 0 .. MaxSubmits /\ out.blocks[r] \in Blocks
        /\ 1 < MaxLen /\ out.blocks[r] = alloc[r]
    BY <1>2, <1>3, <1>4 DEF StatusOf, EarlyOf, SchedType
  <2>3. <<r, submits[r]>> \in Owner /\ 1 \in 1 .. MaxLen
    BY <2>2, Sizes DEF Owner
  <2> HIDE DEF upd
  <2> QED
    BY <2>1, <2>2, <2>3 DEF Entries
<1>6. ASSUME NEW r \in known
      PROVE  /\ r \in DOMAIN cached /\ upd(r) = [cached[r] EXCEPT !.blocks = NewBlocks(r)]
             /\ upd(r) \in Entries /\ upd(r).owner = <<r, submits[r]>> /\ upd(r).len < MaxLen
             /\ upd(r).blocks = alloc[r]
  <2>1. /\ upd(r) = [cached[r] EXCEPT !.blocks = NewBlocks(r)]
    OBVIOUS
  <2>2. r \in Req /\ status[r] \in Known /\ r \notin out.new
    BY <1>3 DEF Known
  <2>3. /\ r \in DOMAIN cached /\ cached[r].owner = <<r, submits[r]>> /\ cached[r].len < MaxLen
        /\ NewBlocks(r) = alloc[r]
    BY <2>2, <1>4 DEF EarlyOf
  <2>4. cached[r] \in Entries /\ alloc[r] \in Blocks
    BY <2>2, <2>3, <1>2 DEF RunType, SchedType
  <2> HIDE DEF upd
  <2> QED
    BY <2>1, <2>3, <2>4, EntryBlocks
<1>7. \A r : r \notin out.sched => upd(r) = cached[r]
  BY <1>3
<1>8. ASSUME NEW r \in DOMAIN index
      PROVE  /\ r \in known /\ r \notin out.resumed /\ row(index[r]) = upd(r)
             /\ rows[index[r]] = cached[r]
  <2>1. r \in Req /\ reqIds[index[r] + 1] = r
    BY OwnRow
  <2>2. r \in out.sched /\ r \notin out.new /\ r \notin out.resumed
    BY <2>1, <1>1, <1>4 DEF EarlyOf
  <2>3. rows[index[r]] = cached[r]
    BY DEF ContentInv, RowOf
  <2>4. NewBlocks(r) = cached[r].blocks \o out.blocks[r]
    BY <2>2 DEF NewBlocks
  <2>5. row(index[r]) = [cached[r] EXCEPT !.blocks = cached[r].blocks \o out.blocks[r]]
    BY <2>1, <2>3
  <2>6. upd(r) = [cached[r] EXCEPT !.blocks = NewBlocks(r)]
    BY <2>2, <1>6
  <2> HIDE DEF upd, row
  <2> QED
    BY <2>2, <2>3, <2>4, <2>5, <2>6
<1> HIDE DEF upd, row
<1>9. /\ DOMAIN cached' = DOMAIN cached \cup out.new
      /\ \A r \in DOMAIN cached' : cached'[r] = upd(r)
      /\ DOMAIN rows' = DOMAIN rows
      /\ \A r \in DOMAIN index : rows'[index[r]] = upd(r) /\ rows'[index[r]].owner = rows[index[r]].owner
  <2>1. /\ DOMAIN cached' = DOMAIN cached \cup out.new
        /\ \A r \in DOMAIN cached' : cached'[r] = upd(r)
        /\ DOMAIN rows' = DOMAIN rows
    BY <1>1
  <2>2. ASSUME NEW r \in DOMAIN index
        PROVE  rows'[index[r]] = upd(r) /\ rows'[index[r]].owner = rows[index[r]].owner
    <3>1. index[r] \in DOMAIN rows
      BY OwnRow
    <3>2. rows'[index[r]] = upd(r)
      BY <3>1, <1>1, <1>8
    <3>3. r \in known /\ rows[index[r]] = cached[r] /\ r \in Req
      BY <1>8, OwnRow
    <3>4. status[r] \in Known
      BY <3>3, <1>3 DEF Known
    <3>5. cached[r].owner = <<r, submits[r]>>
      BY <3>3, <3>4, <1>4 DEF EarlyOf
    <3> QED
      BY <3>2, <3>3, <3>5, <1>6
  <2> QED
    BY <2>1, <2>2
<1>10. /\ toAdd' \in Seq(Req) /\ NoRepeats(toAdd')
       /\ Elems(toAdd') = out.new \cup (known \ DOMAIN index)
  <2>1. /\ out.new \in SUBSET Nat /\ known \ DOMAIN index \in SUBSET Nat
        /\ IsFiniteSet(out.new) /\ IsFiniteSet(known \ DOMAIN index)
        /\ out.new \subseteq Req /\ known \ DOMAIN index \subseteq Req
    BY <1>3, Sizes, FS_Subset
  <2> DEFINE s == Ascending(out.new)
             t == Ascending(known \ DOMAIN index)
  <2>2. /\ s \in Seq(out.new) /\ Elems(s) = out.new /\ NoRepeats(s)
        /\ t \in Seq(known \ DOMAIN index) /\ Elems(t) = known \ DOMAIN index /\ NoRepeats(t)
    <3> HIDE DEF known
    <3> QED
      BY <2>1, AscendingList
  <2>3. s \in Seq(Req) /\ t \in Seq(Req)
    <3> HIDE DEF s, t, known
    <3> QED
      BY <2>1, <2>2, SeqMonotonic, Zenon
  <2>4. Elems(s) \cap Elems(t) = {}
    BY <2>2
  <2>5. toAdd' = s \o t
    BY <1>1
  <2> HIDE DEF s, t
  <2> QED
    BY <2>2, <2>3, <2>4, <2>5, JoinElems
<1>11. TypeOK'
  <2>1. cached' \in [DOMAIN cached' -> Entries] /\ DOMAIN cached' \subseteq Req
    <3>1. ASSUME NEW r \in DOMAIN cached' PROVE upd(r) \in Entries
      <4>1. CASE r \in out.new
        BY <4>1, <1>5
      <4>2. CASE r \in known
        BY <4>2, <1>6
      <4>3. CASE r \notin out.sched
        <5>1. r \in DOMAIN cached
          BY <4>3, <1>3, <1>9
        <5> QED
          BY <4>3, <5>1, <1>2, <1>7 DEF RunType
      <4> QED
        BY <4>1, <4>2, <4>3
    <3> QED
      BY <3>1, <1>1, <1>2, <1>3 DEF RunType
  <2>2. RunType'
    BY <2>1, <1>1, <1>2, <1>10 DEF RunType
  <2>3. rows' \in [DOMAIN rows' -> Entries]
    <3>1. ASSUME NEW i \in DOMAIN rows PROVE rows'[i] \in Entries
      <4>1. PICK r \in DOMAIN index : i = index[r]
        BY OwnRow
      <4> QED
        BY <4>1, <1>6, <1>8, <1>9
    <3> QED
      BY <3>1, <1>1, <1>9
  <2>4. RowType'
    BY <2>3, <1>1, <1>2, <1>9 DEF RowType
  <2>5. ColumnType'
    BY <1>1, <1>2, <1>9 DEF ColumnType
  <2> QED
    BY <2>2, <2>4, <2>5, <1>1, SchedTypeFrame, ToldTypeFrame, TypesNext
<1>12. OutInv'
  BY <1>1 DEF OutInv, schedVars
<1>13. CacheInv'
  <2> SUFFICES ASSUME NEW r \in Req PROVE StatusOf(r)' /\ LateOf(r)'
    BY <1>1 DEF CacheInv, Early, Late
  <2>1. StatusOf(r) /\ EarlyOf(r) /\ UNCHANGED <<submits, status, alloc, out>>
    BY <1>1, <1>4 DEF schedVars
  <2>2. StatusOf(r)'
    BY <2>1 DEF StatusOf
  <2>3. CASE r \in out.sched
    <3>1. r \in DOMAIN cached' /\ status[r] = "running"
      BY <2>3, <1>3, <1>6, <1>9
    <3>2. cached'[r].owner = <<r, submits[r]>> /\ cached'[r].len < MaxLen
          /\ cached'[r].blocks = alloc[r]
      BY <2>3, <3>1, <1>5, <1>6, <1>9
    <3> QED
      BY <2>1, <2>2, <3>1, <3>2 DEF LateOf, Fresh, Known
  <2>4. CASE r \notin out.sched
    <3>1. r \notin out.new /\ (r \in DOMAIN cached' <=> r \in DOMAIN cached)
          /\ (r \in DOMAIN cached' => cached'[r] = cached[r])
      BY <2>4, <1>3, <1>7, <1>9
    <3> QED
      BY <2>1, <2>2, <2>4, <3>1, <1>1 DEF EarlyOf, LateOf, Fresh
  <2> QED
    BY <2>3, <2>4
<1>14. ToAddInv'
  <2>1. DOMAIN index \subseteq known
    BY <1>8
  <2> QED
    BY <2>1, <1>1, <1>3, <1>10 DEF ToAddInv
<1>15. RowsInv'
  BY <1>1 DEF RowsInv
<1>16. HolesInv'
  BY <1>1 DEF HolesInv
<1>17. ContentInv' /\ AdapterInv'
  <2>1. ASSUME NEW r \in DOMAIN index PROVE RowOf(r)'
    <3>1. RowOf(r) /\ r \in DOMAIN cached'
      BY <1>9 DEF ContentInv, RowOf
    <3> QED
      BY <3>1, <1>1, <1>9 DEF RowOf
  <2> QED
    BY <2>1, <1>1, <1>9 DEF ContentInv, AdapterInv
<1>18. BuilderInv'
  BY <1>1 DEF BuilderInv
<1>19. \A i \in DOMAIN rows : rows'[i].owner = rows[i].owner
  <2> SUFFICES ASSUME NEW i \in DOMAIN rows PROVE rows'[i].owner = rows[i].owner
    OBVIOUS
  <2>1. PICK r \in DOMAIN index : i = index[r]
    BY OwnRow
  <2> QED
    BY <2>1, <1>9
<1>20. MetaInv'
  BY <1>1, <1>9, <1>19 DEF MetaInv
<1>21. FollowInv'
  <2>1. \A i : Occupant(i)' = Occupant(i)
    BY <1>9, <1>19 DEF Occupant
  <2>2. Apply(builder)' = Apply(builder)
    BY <1>1, ApplyNext
  <2> QED
    BY <2>1, <2>2, <1>1 DEF FollowInv
<1> QED
  BY <1>11, <1>12, <1>13, <1>14, <1>15, <1>16, <1>17, <1>18, <1>20, <1>21

(* Where _register_add_request finds a row: one that was left, or the one  *)
(* after the last.                                                         *)
LEMMA FreeRowFacts ==
  ASSUME IInv, pc = "add", toAdd # <<>>, NEW r, r = Head(toAdd), NEW i, i = FreeRow,
         reqIds' = IF i = Len(reqIds) THEN Append(reqIds, r) ELSE [reqIds EXCEPT ![i + 1] = r]
  PROVE  /\ i \in Row /\ i \in Nat /\ i \notin DOMAIN rows
         /\ r \in Req /\ r \notin DOMAIN index /\ r \in out.sched
         /\ reqIds' \in Seq(Req \cup {0}) /\ Len(reqIds') \in Nat
         /\ Len(reqIds) <= Len(reqIds') /\ Len(reqIds') <= MaxNumReqs /\ i < Len(reqIds')
         /\ reqIds'[i + 1] = r
         /\ \A k \in 1 .. Len(reqIds') : k # i + 1 => k \in 1 .. Len(reqIds)
         /\ \A k \in 1 .. Len(reqIds) : k # i + 1 => reqIds'[k] = reqIds[k]
<1> USE DEF IInv
<1>1. /\ r \in Req /\ r \in Elems(toAdd)
  BY Types, TailPart, ElemAt DEF RunType
<1>2. r \notin DOMAIN index /\ r \in out.sched /\ DOMAIN index \subseteq out.sched
  BY <1>1 DEF ToAddInv, Late
<1>3. /\ reqIds \in Seq(Req \cup {0}) /\ Len(reqIds) \in Nat /\ Len(reqIds) <= MaxNumReqs
      /\ builder.removed \subseteq Nat /\ r \in Req \cup {0}
  BY <1>1, Types, OwnRow, BuilderParts, Sizes DEF RowType, ToldType
<1>4. \A k \in 1 .. Len(reqIds) : reqIds[k] = 0 => k - 1 \in builder.removed
  BY DEF HolesInv
<1>5. CASE builder.removed # {}
  <2>1. i \in builder.removed /\ i \in Nat /\ i < Len(reqIds) /\ reqIds[i + 1] = 0
    BY <1>3, <1>5, MinFacts DEF FreeRow, HolesInv
  <2>2. i # Len(reqIds) /\ i + 1 \in 1 .. Len(reqIds)
    BY <2>1, <1>3
  <2>3. reqIds' = [reqIds EXCEPT ![i + 1] = r]
    BY <2>2
  <2>4. /\ reqIds' \in Seq(Req \cup {0}) /\ Len(reqIds') = Len(reqIds)
        /\ \A j \in 1 .. Len(reqIds) : reqIds'[j] = IF j = i + 1 THEN r ELSE reqIds[j]
    <3>1. PICK j \in 1 .. Len(reqIds) : j = i + 1
      BY <2>2
    <3>2. PICK T : T = Req \cup {0}
      OBVIOUS
    <3>3. reqIds \in Seq(T) /\ r \in T
      BY <1>3, <3>2
    <3>4. /\ [reqIds EXCEPT ![j] = r] \in Seq(T) /\ Len([reqIds EXCEPT ![j] = r]) = Len(reqIds)
          /\ \A k \in 1 .. Len(reqIds) : [reqIds EXCEPT ![j] = r][k] = IF k = j THEN r ELSE reqIds[k]
      BY <3>3, ExceptSeq
    <3> QED
      BY <3>1, <3>2, <3>4, <2>3
  <2>5. i \notin DOMAIN rows
    BY <2>1, OwnRow
  <2>6. i \in Row
    BY <2>1, Types, BuilderParts DEF ToldType
  <2> QED
    BY <1>1, <1>2, <1>3, <2>1, <2>2, <2>4, <2>5, <2>6
<1>6. CASE builder.removed = {}
  <2>1. \A k \in 1 .. Len(reqIds) : reqIds[k] # 0
    BY <1>4, <1>6
  <2>2. \A q \in DOMAIN index : index[q] < Len(reqIds)
    BY DEF RowsInv
  <2>3. Len(reqIds) <= Len(reqIds)
    BY <1>3
  <2>4. NumReqs = Len(reqIds) /\ IsFiniteSet(DOMAIN index)
    BY <1>3, <2>1, <2>2, <2>3, Compact
  <2>5. i = Len(reqIds)
    BY <1>6, <2>4 DEF FreeRow
  <2>6. Len(reqIds) + 1 <= MaxNumReqs
    <3>1. IsFiniteSet(out.sched) /\ Cardinality(out.sched) \in Nat
      <4>1. out.sched \in SUBSET Req
        BY Types, OutputParts DEF RunType
      <4> QED
        BY <4>1, Sizes, FS_Subset, FS_CardinalityType
    <3>2. Cardinality(DOMAIN index \cup {r}) = NumReqs + 1
      BY <2>4, <1>2, FS_AddElement DEF NumReqs
    <3>3. Cardinality(DOMAIN index \cup {r}) <= Cardinality(out.sched)
      BY <3>1, <1>2, FS_Subset
    <3>4. Cardinality(out.sched) <= MaxNumReqs
      BY DEF OutInv
    <3> QED
      BY <3>1, <3>2, <3>3, <3>4, <2>4, <1>3, Sizes
  <2>7. /\ reqIds' \in Seq(Req \cup {0}) /\ Len(reqIds') = Len(reqIds) + 1
        /\ \A j \in 1 .. Len(reqIds) : reqIds'[j] = reqIds[j]
        /\ reqIds'[Len(reqIds) + 1] = r
    BY <2>5, <1>3, AppendProperties
  <2>8. i \in Row
    BY <2>5, <2>6, <1>3, Sizes DEF Row
  <2>9. i \notin DOMAIN rows
    <3>1. \A q \in DOMAIN index : index[q] \in Nat
      BY OwnRow
    <3> QED
      BY <3>1, <2>2, <2>5, <1>3, OwnRow
  <2>10. /\ i \in Nat /\ Len(reqIds') \in Nat /\ Len(reqIds) <= Len(reqIds') /\ i < Len(reqIds')
         /\ Len(reqIds') <= MaxNumReqs /\ reqIds'[i + 1] = r
         /\ \A k \in 1 .. Len(reqIds') : k # i + 1 => k \in 1 .. Len(reqIds)
    BY <1>3, <2>5, <2>6, <2>7
  <2> QED
    BY <1>1, <1>2, <2>7, <2>8, <2>9, <2>10
<1> QED
  BY <1>5, <1>6

(* A request is added to the batch. *)
LEMMA AddStep ==
  ASSUME IInv, AddRequest
  PROVE  IInv'
<1> USE DEF IInv
<1>0. PICK r, i, e : r = Head(toAdd) /\ i = FreeRow /\ e = cached[r]
  OBVIOUS
<1>1. /\ pc = "add" /\ pc' = "add" /\ toAdd # <<>> /\ toAdd' = Tail(toAdd)
      /\ reqIds' = IF i = Len(reqIds) THEN Append(reqIds, r) ELSE [reqIds EXCEPT ![i + 1] = r]
      /\ index' = Put(index, r, i)
      /\ rows' = Put(rows, i, e)
      /\ gens' = IF r \in Seeded THEN Put(gens, i, e.owner) ELSE gens
      /\ mask' = IF r \in Masked THEN [mask EXCEPT ![i] = e.owner] ELSE mask
      /\ lora' = Put(lora, i, Adapter[r])
      /\ loraIds' = IF Adapter[r] = 0 THEN loraIds
                    ELSE [loraIds EXCEPT ![Adapter[r]] = loraIds[Adapter[r]] \cup {r}]
      /\ builder' = [builder EXCEPT !.removed = builder.removed \ {i},
                                    !.added = Append(builder.added, <<i, e.owner>>)]
      /\ UNCHANGED <<schedVars, backend, out, cached, pc, meta, procs>>
  BY <1>0 DEF AddRequest
<1>2. RunType /\ RowType /\ ColumnType /\ ToldType /\ SchedType
  BY Types
<1>3. /\ i \in Row /\ i \in Nat /\ i \notin DOMAIN rows
      /\ r \in Req /\ r \notin DOMAIN index /\ r \in out.sched
      /\ reqIds' \in Seq(Req \cup {0}) /\ Len(reqIds') \in Nat
      /\ Len(reqIds) <= Len(reqIds') /\ Len(reqIds') <= MaxNumReqs /\ i < Len(reqIds')
      /\ reqIds'[i + 1] = r
      /\ \A k \in 1 .. Len(reqIds') : k # i + 1 => k \in 1 .. Len(reqIds)
      /\ \A k \in 1 .. Len(reqIds) : k # i + 1 => reqIds'[k] = reqIds[k]
  BY <1>0, <1>1, FreeRowFacts, ZenonT(40)
<1>4. r \in DOMAIN cached /\ e \in Entries /\ e.owner \in Owner
  <2>1. LateOf(r) /\ status[r] = "running"
    BY <1>1, <1>3 DEF CacheInv, OutInv, Late
  <2>2. r \in DOMAIN cached
    BY <2>1 DEF LateOf, Fresh, Known
  <2> QED
    BY <2>2, <1>0, <1>2, EntryParts DEF RunType
<1>5. /\ DOMAIN index' = DOMAIN index \cup {r} /\ index'[r] = i
      /\ \A q \in DOMAIN index : index'[q] = index[q] /\ index[q] # i /\ q # r
  <2>1. index' = Put(index, r, i)
    BY <1>1
  <2>2. \A q \in DOMAIN index : index[q] # i /\ q # r
    BY <1>3, OwnRow
  <2> QED
    BY <2>1, <2>2 DEF Put
<1>6. /\ DOMAIN rows' = DOMAIN rows \cup {i} /\ rows'[i] = e
      /\ \A j \in DOMAIN rows : rows'[j] = rows[j] /\ j # i
  <2>1. rows' = Put(rows, i, e)
    BY <1>1
  <2> QED
    BY <2>1, <1>3 DEF Put
<1>7. PICK c : c = builder' /\ c \in Builders /\ c.removed = builder.removed \ {i}
               /\ c.added = Append(builder.added, <<i, e.owner>>) /\ c.moved = builder.moved
  <2>1. builder \in Builders
    BY <1>2 DEF ToldType
  <2>2. PICK R, a : R = builder.removed \ {i} /\ a = Append(builder.added, <<i, e.owner>>)
    OBVIOUS
  <2>3. R \subseteq Row /\ a \in Seq(Row \X Owner) /\ builder.moved \in Seq(Moves)
    <3>1. <<i, e.owner>> \in Row \X Owner
      BY <1>3, <1>4
    <3> QED
      BY <2>1, <2>2, <3>1, BuilderParts, AppendProperties
  <2>4. builder' = [removed |-> R, added |-> a, moved |-> builder.moved]
    <3>1. builder = [removed |-> builder.removed, added |-> builder.added, moved |-> builder.moved]
      BY <2>1, BuilderParts
    <3>2. builder' = [builder EXCEPT !.removed = R, !.added = a]
      BY <1>1, <2>2
    <3> QED
      BY <3>1, <3>2
  <2>5. builder' \in Builders /\ builder'.removed = R /\ builder'.added = a
        /\ builder'.moved = builder.moved
    BY <2>3, <2>4 DEF Builders
  <2> QED
    BY <2>2, <2>5
<1>8. TypeOK'
  <2>1. RunType'
    BY <1>1, <1>2, TailPart DEF RunType
  <2>2. RowType'
    <3>1. index' \in [DOMAIN index' -> Row] /\ DOMAIN index' \subseteq Req
      <4>1. index \in [DOMAIN index -> Row] /\ DOMAIN index \subseteq Req
        BY <1>2 DEF RowType
      <4>2. index' \in [DOMAIN index \cup {r} -> Row]
        BY <4>1, <1>1, <1>3, PutType
      <4> QED
        BY <4>1, <4>2, <1>3, <1>5
    <3>2. rows' \in [DOMAIN rows' -> Entries]
      <4>1. rows \in [DOMAIN rows -> Entries]
        BY <1>2 DEF RowType
      <4>2. rows' \in [DOMAIN rows \cup {i} -> Entries]
        BY <4>1, <1>1, <1>4, PutType
      <4> QED
        BY <4>2, <1>6
    <3>3. DOMAIN rows' = {index'[q] : q \in DOMAIN index'}
      <4>1. DOMAIN rows = {index[q] : q \in DOMAIN index}
        BY <1>2 DEF RowType
      <4> QED
        BY <4>1, <1>5, <1>6
    <3> QED
      BY <3>1, <3>2, <3>3, <1>3 DEF RowType
  <2>3. ColumnType'
    <3>1. gens' \in [DOMAIN gens' -> Owner] /\ DOMAIN gens' \subseteq Row
      <4>1. gens \in [DOMAIN gens -> Owner] /\ DOMAIN gens \subseteq Row
        BY <1>2 DEF ColumnType
      <4>2. /\ Put(gens, i, e.owner) \in [DOMAIN gens \cup {i} -> Owner]
            /\ DOMAIN Put(gens, i, e.owner) = DOMAIN gens \cup {i}
        BY <4>1, <1>4, PutType, PutFacts
      <4> QED
        BY <4>1, <4>2, <1>1, <1>3
    <3>2. mask' \in [Row -> Owner]
      BY <1>1, <1>2, <1>3, <1>4 DEF ColumnType
    <3>3. lora' \in [DOMAIN rows' -> {Adapter[q] : q \in Req}]
      <4>1. DOMAIN lora = DOMAIN rows /\ lora \in [DOMAIN lora -> {Adapter[q] : q \in Req}]
        BY <1>2 DEF ColumnType
      <4>2. Adapter[r] \in {Adapter[q] : q \in Req}
        BY <1>3
      <4>3. lora' \in [DOMAIN lora \cup {i} -> {Adapter[q] : q \in Req}]
        BY <4>1, <4>2, <1>1, PutType
      <4> QED
        BY <4>1, <4>3, <1>6
    <3>4. loraIds' \in [{Adapter[q] : q \in Req} -> SUBSET Req]
      BY <1>1, <1>2, <1>3 DEF ColumnType
    <3> QED
      BY <3>1, <3>2, <3>3, <3>4 DEF ColumnType
  <2>4. ToldType'
    BY <1>1, <1>2, <1>7 DEF ToldType
  <2> QED
    BY <2>1, <2>2, <2>3, <2>4, <1>1, SchedTypeFrame, TypesNext
<1>9. OutInv' /\ CacheInv'
  <2>1. UNCHANGED <<submits, status, alloc, finished, out, cached>>
    BY <1>1 DEF schedVars
  <2>2. OutInv'
    BY <1>1, <2>1 DEF OutInv
  <2>3. CacheInv'
    BY <1>1, <2>1 DEF CacheInv, StatusOf, LateOf, Fresh, Early, Late
  <2> QED
    BY <2>2, <2>3
<1>10. ToAddInv'
  <2>1. toAdd \in Seq(Req)
    BY <1>2 DEF RunType
  <2>2. /\ Elems(toAdd) = Elems(toAdd') \cup {r} /\ PartOf(toAdd', toAdd)
        /\ toAdd' \in Seq(Req) /\ (NoRepeats(toAdd) => r \notin Elems(toAdd'))
    BY <2>1, <1>0, <1>1, TailPart
  <2>3. NoRepeats(toAdd) => NoRepeats(toAdd')
    BY <2>1, <2>2, PartKeeps
  <2> QED
    BY <2>2, <2>3, <1>1, <1>5 DEF ToAddInv, Late
<1>11. RowsInv'
  <2>1. ASSUME NEW q \in DOMAIN index'
        PROVE  index'[q] < Len(reqIds') /\ reqIds'[index'[q] + 1] = q
    <3>1. CASE q = r
      BY <3>1, <1>3, <1>5
    <3>2. CASE q # r
      <4>1. /\ q \in DOMAIN index /\ index'[q] = index[q] /\ index[q] # i
        BY <3>2, <1>5
      <4>2. /\ index[q] \in Nat /\ index[q] + 1 \in 1 .. Len(reqIds) /\ reqIds[index[q] + 1] = q
            /\ Len(reqIds) \in Nat
        BY <4>1, OwnRow
      <4>3. index[q] + 1 # i + 1 /\ index[q] < Len(reqIds')
        BY <4>1, <4>2, <1>3
      <4> QED
        BY <4>1, <4>2, <4>3, <1>3
    <3> QED
      BY <3>1, <3>2
  <2>2. ASSUME NEW k \in 1 .. Len(reqIds'), reqIds'[k] # 0
        PROVE  reqIds'[k] \in DOMAIN index' /\ index'[reqIds'[k]] = k - 1
    <3>1. CASE k = i + 1
      BY <3>1, <1>3, <1>5
    <3>2. CASE k # i + 1
      <4>1. k \in 1 .. Len(reqIds) /\ reqIds'[k] = reqIds[k]
        BY <3>2, <1>3
      <4>2. reqIds[k] \in DOMAIN index /\ index[reqIds[k]] = k - 1
        BY <4>1, <2>2 DEF RowsInv
      <4> QED
        BY <4>1, <4>2, <1>5
    <3> QED
      BY <3>1, <3>2
  <2> QED
    BY <2>1, <2>2 DEF RowsInv
<1>12. HolesInv'
  <2>1. ASSUME NEW j \in c.removed PROVE j < Len(reqIds') /\ reqIds'[j + 1] = 0
    <3>1. j \in builder.removed /\ j # i /\ j \in Nat
      BY <1>2, <1>7, BuilderParts, Sizes DEF ToldType
    <3>2. j < Len(reqIds) /\ reqIds[j + 1] = 0 /\ Len(reqIds) \in Nat
      BY <3>1, OwnRow DEF HolesInv
    <3>3. j + 1 \in 1 .. Len(reqIds) /\ j + 1 # i + 1 /\ j < Len(reqIds')
      BY <3>1, <3>2, <1>3
    <3> QED
      BY <3>2, <3>3, <1>3
  <2>2. ASSUME NEW k \in 1 .. Len(reqIds'), reqIds'[k] = 0 PROVE k - 1 \in c.removed
    <3>1. k # i + 1
      BY <2>2, <1>3, Sizes
    <3>2. k \in 1 .. Len(reqIds) /\ reqIds[k] = 0
      BY <2>2, <3>1, <1>3
    <3>3. k - 1 \in builder.removed
      BY <3>2, <1>1 DEF HolesInv
    <3>4. k - 1 # i
      BY <3>1, <3>2, <1>3, OwnRow
    <3> QED
      BY <3>3, <3>4, <1>7
  <2> QED
    BY <2>1, <2>2, <1>1, <1>7 DEF HolesInv
<1>13. ContentInv'
  <2>1. DOMAIN gens' = (IF r \in Seeded THEN DOMAIN gens \cup {i} ELSE DOMAIN gens)
        /\ (r \in Seeded => gens'[i] = e.owner)
        /\ \A j \in DOMAIN gens : gens'[j] = gens[j] \/ j = i
    <3>1. gens' = IF r \in Seeded THEN Put(gens, i, e.owner) ELSE gens
      BY <1>1
    <3> QED
      BY <3>1 DEF Put
  <2>2. DOMAIN gens \subseteq DOMAIN rows /\ i \notin DOMAIN gens
    BY <1>3 DEF ContentInv
  <2>3. DOMAIN lora = DOMAIN rows
    BY <1>2 DEF ColumnType
  <2>4. lora'[i] = Adapter[r] /\ \A j \in DOMAIN rows : lora'[j] = lora[j]
    <3>1. lora' = Put(lora, i, Adapter[r])
      BY <1>1
    <3> QED
      BY <3>1, <2>3, <1>3 DEF Put
  <2>5. RowOf(r)'
    BY <2>1, <2>2, <2>4, <1>0, <1>1, <1>4, <1>5, <1>6 DEF RowOf
  <2>6. ASSUME NEW q \in DOMAIN index PROVE RowOf(q)'
    <3>1. /\ RowOf(q) /\ index'[q] = index[q] /\ index[q] # i /\ index[q] \in DOMAIN rows
      BY <1>5, OwnRow DEF ContentInv
    <3>2. rows'[index[q]] = rows[index[q]] /\ lora'[index[q]] = lora[index[q]]
      BY <3>1, <1>6, <2>4
    <3>3. /\ index[q] \in DOMAIN gens' <=> index[q] \in DOMAIN gens
          /\ index[q] \in DOMAIN gens => gens'[index[q]] = gens[index[q]]
      BY <3>1, <2>1
    <3> QED
      BY <3>1, <3>2, <3>3, <1>1 DEF RowOf
  <2> QED
    BY <2>1, <2>2, <2>5, <2>6, <1>5, <1>6 DEF ContentInv
<1>14. AdapterInv'
  <2> SUFFICES ASSUME NEW a \in DOMAIN loraIds', a # 0, NEW q \in Req
               PROVE  q \in loraIds'[a] <=> q \in DOMAIN index' /\ Adapter[q] = a
    BY DEF AdapterInv
  <2>1. DOMAIN loraIds' = DOMAIN loraIds /\ a \in DOMAIN loraIds
        /\ loraIds'[a] = IF Adapter[r] = a THEN loraIds[a] \cup {r} ELSE loraIds[a]
    BY <1>1
  <2>2. q \in loraIds[a] <=> q \in DOMAIN index /\ Adapter[q] = a
    BY <2>1 DEF AdapterInv
  <2> QED
    BY <2>1, <2>2, <1>5
<1>15. BuilderInv'
  <2> SUFFICES ASSUME backend = "attention" PROVE BuilderInv'
    BY <1>1 DEF BuilderInv
  <2>1. c.moved = <<>> /\ Len(c.moved) = 0
    BY <1>1, <1>7 DEF BuilderInv
  <2> QED
    BY <2>1, <1>1, <1>7 DEF BuilderInv
<1>16. MetaInv'
  <2>1. c.added # <<>>
    <3>1. PICK T, p : T = Row \X Owner /\ p = <<i, e.owner>>
      OBVIOUS
    <3>2. builder.added \in Seq(T) /\ p \in T
      BY <3>1, <1>2, <1>3, <1>4, BuilderParts DEF ToldType
    <3>3. Append(builder.added, p) # <<>>
      BY <3>2, AppendProperties
    <3> QED
      BY <3>1, <3>3, <1>7
  <2>2. builder' # EmptyBuilder
    BY <2>1, <1>7, EmptyBuilderParts
  <2> QED
    BY <2>2 DEF MetaInv
<1>17. FollowInv'
  <2> SUFFICES ASSUME backend = "attention", NEW j \in Row PROVE Apply(c)[j] = Occupant(j)'
    BY <1>1, <1>7, ApplyNext DEF FollowInv
  <2>1. builder.moved = <<>> /\ builder \in Builders
    BY <1>1, <1>2 DEF BuilderInv, ToldType
  <2>2. Apply(c)[j] = Told(c, j) /\ Told(builder, j) = Occupant(j)
    BY <2>1, <1>7, ApplyUnmoved DEF FollowInv
  <2>3. Told(c, i) = e.owner /\ (j # i => Told(c, j) = Told(builder, j))
    <3>1. WithAdd(builder, c, i, e.owner)
      BY <2>1, <1>3, <1>4, <1>7 DEF WithAdd
    <3> QED
      BY <3>1, ToldAdded
  <2> QED
    BY <2>2, <2>3, <1>6 DEF Occupant
<1> QED
  BY <1>8, <1>9, <1>10, <1>11, <1>12, <1>13, <1>14, <1>15, <1>16, <1>17

(* The last row that is taken. *)
LEMMA LastRowFacts ==
  ASSUME TypeOK, RowsInv, DOMAIN index # {}
  PROVE  /\ LastRow \in DOMAIN rows /\ LastRow \in Nat /\ LastRow \in Row
         /\ \A r \in DOMAIN index : index[r] <= LastRow
         /\ \E q \in DOMAIN index : index[q] = LastRow
<1>1. /\ DOMAIN rows = {index[r] : r \in DOMAIN index} /\ DOMAIN rows \subseteq Row
      /\ DOMAIN rows # {}
  BY OwnRow DEF TypeOK
<1>2. IsFiniteSet(DOMAIN rows) /\ DOMAIN rows \in SUBSET Nat
  BY <1>1, Sizes, FirstRows, FS_Subset DEF Row
<1>3. LastRow = Max(DOMAIN rows)
  BY <1>1 DEF LastRow
<1>4. LastRow \in DOMAIN rows /\ \A k \in DOMAIN rows : LastRow >= k
  BY <1>1, <1>2, <1>3, MaxFacts
<1> QED
  BY <1>1, <1>2, <1>4, OwnRow

(* Whether a request is left. *)
LEMMA SomeLeft ==
  ASSUME TypeOK
  PROVE  NumReqs \in Nat /\ (NumReqs > 0 <=> DOMAIN index # {})
<1>1. IsFiniteSet(DOMAIN index)
  BY Sizes, FS_Subset DEF TypeOK
<1> QED
  BY <1>1, FS_CardinalityType, FS_EmptySet DEF NumReqs

(* c is the builder when the last row was moved into a row that was left.  *)
WithMove(last, hole, c, mv) ==
  /\ last \in Row /\ hole \in builder.removed /\ last # hole
  /\ c \in Builders /\ c.removed = builder.removed \ {hole} /\ c.added = builder.added
  /\ mv = <<last, hole, "UNIDIRECTIONAL">> /\ c.moved = Append(builder.moved, mv)

(* What the processors then know. *)
LEMMA FollowMove ==
  ASSUME IInv, backend = "attention", NEW last, NEW hole, NEW c, NEW mv, WithMove(last, hole, c, mv)
  PROVE  /\ Apply(c)[last] = Nobody /\ Apply(c)[hole] = Occupant(last)
         /\ \A j \in Row \ {last, hole} : Apply(c)[j] = Occupant(j)
<1> USE DEF IInv, WithMove
<1>1. PICK b \in Builders : b = builder
  BY Types DEF ToldType
<1>2. procs \in [Row -> Owner] /\ hole \in Row /\ b.moved \in Seq(Moves) /\ mv \in Moves
  <2>1. procs \in [Row -> Owner]
    BY Types DEF ToldType
  <2>2. hole \in Row /\ b.moved \in Seq(Moves)
    BY <1>1, BuilderParts
  <2> QED
    BY <2>1, <2>2 DEF Moves
<1>3. PICK p \in [Row -> Owner], q \in [Row -> Owner] : p = ToldRows(b) /\ q = ToldRows(c)
  BY <1>2, ToldTyped
<1>4. \A i \in Row \ {hole} : p[i] = q[i]
  <2> SUFFICES ASSUME NEW i \in Row, i # hole PROVE p[i] = q[i]
    OBVIOUS
  <2>1. (i \in c.removed <=> i \in b.removed) /\ c.added = b.added
    BY <1>1
  <2>2. Told(c, i) = Told(b, i)
    BY <2>1, ToldRemoved
  <2> QED
    BY <2>2, <1>3 DEF ToldRows
<1>5. \A k \in 1 .. Len(b.moved) : b.moved[k][1] # hole /\ b.moved[k][2] # hole
  BY <1>1 DEF BuilderInv
<1>6. \E a \in [Row -> Owner] : /\ ApplyMoves(q, Append(b.moved, mv)) = ApplyMove(a, mv)
                                /\ \A i \in Row \ {hole} : a[i] = ApplyMoves(p, b.moved)[i]
  <2>1. Apart(p, q, hole, b.moved, mv)
    BY <1>2, <1>3, <1>4, <1>5 DEF Apart
  <2> QED
    BY <2>1, MovesAppended
<1>7. PICK a \in [Row -> Owner] : /\ Apply(c) = ApplyMove(a, mv)
                                  /\ \A i \in Row \ {hole} : a[i] = Apply(b)[i]
  BY <1>1, <1>3, <1>6, ApplyTold
<1>8. \A i \in Row \ {hole} : a[i] = Occupant(i)
  BY <1>1, <1>7 DEF FollowInv
<1>9. /\ mv[1] = last /\ mv[2] = hole /\ mv[3] # "SWAP"
  OBVIOUS
<1>10. \A i \in Row : ApplyMove(a, mv)[i] =
              IF i = mv[1] THEN (IF mv[3] = "SWAP" THEN a[mv[2]] ELSE Nobody)
              ELSE IF i = mv[2] THEN a[mv[1]] ELSE a[i]
  BY <1>2, MoveFacts
<1> QED
  BY <1>2, <1>7, <1>8, <1>9, <1>10

(* The list of the ids, after a move. *)
LEMMA MovedIds ==
  ASSUME NEW s \in Seq(Req \cup {0}), NEW j \in 1 .. Len(s), NEW l \in 1 .. Len(s), j # l,
         NEW t, t = [s EXCEPT ![j] = s[l], ![l] = 0]
  PROVE  /\ t \in Seq(Req \cup {0}) /\ Len(t) = Len(s)
         /\ \A k \in 1 .. Len(s) : t[k] = IF k = l THEN 0 ELSE IF k = j THEN s[l] ELSE s[k]
<1>1. PICK T : T = Req \cup {0}
  OBVIOUS
<1>2. s \in Seq(T) /\ 0 \in T
  BY <1>1
<1>3. PICK v \in T : v = s[l]
  BY <1>2, ElemAt
<1>4. PICK u : u = [s EXCEPT ![j] = v]
  OBVIOUS
<1>5. u \in Seq(T) /\ Len(u) = Len(s) /\ \A k \in 1 .. Len(s) : u[k] = IF k = j THEN v ELSE s[k]
  BY <1>2, <1>4, ExceptSeq
<1>6. t = [u EXCEPT ![l] = 0] /\ l \in 1 .. Len(u)
  BY <1>3, <1>4, <1>5
<1>7. t \in Seq(T) /\ Len(t) = Len(u) /\ \A k \in 1 .. Len(u) : t[k] = IF k = l THEN 0 ELSE u[k]
  <2>1. PICK i \in 1 .. Len(u), z \in T : i = l /\ z = 0
    BY <1>2, <1>6
  <2>2. /\ [u EXCEPT ![i] = z] \in Seq(T) /\ Len([u EXCEPT ![i] = z]) = Len(u)
        /\ \A k \in 1 .. Len(u) : [u EXCEPT ![i] = z][k] = IF k = i THEN z ELSE u[k]
    BY <1>5, ExceptSeq
  <2> QED
    BY <2>1, <2>2, <1>6
<1> QED
  BY <1>1, <1>3, <1>5, <1>7

(* The last row moves into a row that was left. *)
LEMMA CondenseStep ==
  ASSUME IInv, CondenseMove
  PROVE  IInv'
<1> USE DEF IInv
<1>0. PICK last, hole : last = LastRow /\ hole = Min(builder.removed)
  OBVIOUS
<1>1. /\ pc = "add" /\ pc' = "add" /\ toAdd = <<>> /\ toAdd' = <<>>
      /\ builder.removed # {} /\ NumReqs > 0 /\ hole < last
      /\ reqIds' = [reqIds EXCEPT ![hole + 1] = reqIds[last + 1], ![last + 1] = 0]
      /\ index' = [index EXCEPT ![reqIds[last + 1]] = hole]
      /\ rows' = MoveRow(rows, last, hole)
      /\ gens' = IF last \in DOMAIN gens THEN MoveRow(gens, last, hole) ELSE gens
      /\ lora' = MoveRow(lora, last, hole)
      /\ mask' = [mask EXCEPT ![hole] = mask[last]]
      /\ builder' = [builder EXCEPT !.removed = builder.removed \ {hole},
                       !.moved = Append(builder.moved, <<last, hole, "UNIDIRECTIONAL">>)]
      /\ UNCHANGED <<schedVars, runVars, loraIds, meta, procs>>
  BY <1>0 DEF CondenseMove, Added, MustMove, MoveIndex, MoveGenerator, RecordMove, runVars
<1>2. RunType /\ RowType /\ ColumnType /\ ToldType /\ SchedType
  BY Types
<1>3. /\ last \in DOMAIN rows /\ last \in Nat /\ last \in Row
      /\ \A r \in DOMAIN index : index[r] <= last /\ index[r] \in Nat
      /\ \E r \in DOMAIN index : index[r] = last
  <2>1. DOMAIN index # {}
    BY <1>1, SomeLeft
  <2> QED
    BY <2>1, <1>0, LastRowFacts, OwnRow
<1>4. /\ hole \in builder.removed /\ hole \in Row /\ hole \in Nat /\ hole < Len(reqIds)
      /\ reqIds[hole + 1] = 0
  <2>1. builder.removed \subseteq Row /\ builder.removed \in SUBSET Nat
    BY <1>2, BuilderParts, Sizes DEF ToldType
  <2> QED
    BY <2>1, <1>0, <1>1, MinFacts DEF HolesInv
<1>5. PICK q \in DOMAIN index : index[q] = last
  BY <1>3
<1>6. /\ q \in Req /\ q # 0 /\ reqIds[last + 1] = q /\ Len(reqIds) \in Nat
      /\ last + 1 \in 1 .. Len(reqIds) /\ hole + 1 \in 1 .. Len(reqIds) /\ hole # last
      /\ hole + 1 # last + 1 /\ last \notin builder.removed
  <2>1. /\ q \in Req /\ q # 0 /\ reqIds[last + 1] = q /\ Len(reqIds) \in Nat
        /\ last + 1 \in 1 .. Len(reqIds)
    BY <1>5, OwnRow
  <2> QED
    BY <2>1, <1>1, <1>3, <1>4 DEF HolesInv
<1>7. hole \notin DOMAIN rows
  <2> SUFFICES ASSUME NEW r \in DOMAIN index, index[r] = hole PROVE FALSE
    BY OwnRow
  <2> QED
    BY <1>4, OwnRow
<1>8. /\ reqIds' \in Seq(Req \cup {0}) /\ Len(reqIds') = Len(reqIds)
      /\ \A k \in 1 .. Len(reqIds) : reqIds'[k] = IF k = last + 1 THEN 0
                                                  ELSE IF k = hole + 1 THEN q ELSE reqIds[k]
  <2>1. PICK j \in 1 .. Len(reqIds), l \in 1 .. Len(reqIds) : j = hole + 1 /\ l = last + 1 /\ j # l
    BY <1>6
  <2>2. reqIds' = [reqIds EXCEPT ![j] = reqIds[l], ![l] = 0] /\ reqIds \in Seq(Req \cup {0})
    BY <2>1, <1>1, <1>2 DEF RowType
  <2>3. /\ reqIds' \in Seq(Req \cup {0}) /\ Len(reqIds') = Len(reqIds)
        /\ \A k \in 1 .. Len(reqIds) : reqIds'[k] = IF k = l THEN 0 ELSE IF k = j THEN reqIds[l] ELSE reqIds[k]
    BY <2>1, <2>2, MovedIds
  <2> QED
    BY <2>1, <2>3, <1>6
<1>9. /\ DOMAIN index' = DOMAIN index /\ index'[q] = hole
      /\ \A r \in DOMAIN index : r # q => index'[r] = index[r] /\ index[r] < last /\ index[r] # hole
  <2>1. index' = [index EXCEPT ![q] = hole]
    BY <1>1, <1>6
  <2>2. \A r \in DOMAIN index : r # q => index[r] # last /\ index[r] # hole
    BY <1>5, <1>7, OwnRow
  <2> QED
    BY <2>1, <2>2, <1>2, <1>3 DEF RowType
<1>10. /\ DOMAIN rows' = (DOMAIN rows \ {last}) \cup {hole} /\ rows' \in [DOMAIN rows' -> Entries]
       /\ rows'[hole] = rows[last]
       /\ \A y \in DOMAIN rows \ {last} : rows'[y] = rows[y]
  <2>1. rows' = [y \in (DOMAIN rows \ {last}) \cup {hole} |-> IF y = hole THEN rows[last] ELSE rows[y]]
    BY <1>1 DEF MoveRow, Put, Restrict
  <2>2. rows \in [DOMAIN rows -> Entries]
    BY <1>2 DEF RowType
  <2> QED
    BY <2>1, <2>2, <1>3, <1>7
<1>11. /\ lora' \in [DOMAIN rows' -> {Adapter[r] : r \in Req}] /\ lora'[hole] = lora[last]
       /\ \A y \in DOMAIN rows \ {last} : lora'[y] = lora[y]
  <2>1. PICK A : A = {Adapter[r] : r \in Req}
    OBVIOUS
  <2>2. DOMAIN lora = DOMAIN rows /\ lora \in [DOMAIN lora -> A]
    BY <2>1, <1>2 DEF ColumnType
  <2>3. lora' = [y \in (DOMAIN lora \ {last}) \cup {hole} |-> IF y = hole THEN lora[last] ELSE lora[y]]
    BY <1>1 DEF MoveRow, Put, Restrict
  <2>4. /\ lora' \in [(DOMAIN rows \ {last}) \cup {hole} -> A] /\ lora'[hole] = lora[last]
        /\ \A y \in DOMAIN rows \ {last} : lora'[y] = lora[y]
    BY <2>2, <2>3, <1>3, <1>7
  <2> QED
    BY <2>1, <2>4, <1>10
<1>12. /\ DOMAIN gens' = (IF last \in DOMAIN gens THEN (DOMAIN gens \ {last}) \cup {hole} ELSE DOMAIN gens)
       /\ gens' \in [DOMAIN gens' -> Owner]
       /\ last \in DOMAIN gens => gens'[hole] = gens[last]
       /\ \A y \in DOMAIN gens \ {last} : gens'[y] = gens[y] /\ y # hole
       /\ hole \notin DOMAIN gens
  <2>1. gens \in [DOMAIN gens -> Owner] /\ hole \notin DOMAIN gens
    BY <1>2, <1>7 DEF ColumnType, ContentInv
  <2>2. CASE last \in DOMAIN gens
    <3>1. gens' = [y \in (DOMAIN gens \ {last}) \cup {hole} |-> IF y = hole THEN gens[last] ELSE gens[y]]
      BY <2>2, <1>1 DEF MoveRow, Put, Restrict
    <3> QED
      BY <3>1, <2>1, <2>2
  <2>3. CASE last \notin DOMAIN gens
    BY <2>1, <2>3, <1>1
  <2> QED
    BY <2>2, <2>3
<1>13. PICK c, mv : /\ c = builder' /\ c \in Builders /\ c.removed = builder.removed \ {hole}
                    /\ c.added = builder.added /\ c.moved = Append(builder.moved, mv)
                    /\ mv = <<last, hole, "UNIDIRECTIONAL">> /\ mv \in Moves
                    /\ builder.moved \in Seq(Moves)
  <2>1. builder \in Builders
    BY <1>2 DEF ToldType
  <2>2. PICK mv : mv = <<last, hole, "UNIDIRECTIONAL">> /\ mv \in Moves
    <3>1. <<last, hole, "UNIDIRECTIONAL">> \in Moves
      BY <1>3, <1>4 DEF Moves
    <3> QED
      BY <3>1
  <2>3. PICK R, m : R = builder.removed \ {hole} /\ m = Append(builder.moved, mv)
    OBVIOUS
  <2>4. R \subseteq Row /\ builder.added \in Seq(Row \X Owner) /\ m \in Seq(Moves)
        /\ builder.moved \in Seq(Moves)
    BY <2>1, <2>2, <2>3, BuilderParts, AppendProperties
  <2>5. builder' = [removed |-> R, added |-> builder.added, moved |-> m]
    <3>1. builder = [removed |-> builder.removed, added |-> builder.added, moved |-> builder.moved]
      BY <2>1, BuilderParts
    <3>2. builder' = [builder EXCEPT !.removed = R, !.moved = m]
      BY <1>1, <2>2, <2>3
    <3> QED
      BY <3>1, <3>2
  <2>6. builder' \in Builders /\ builder'.removed = R /\ builder'.added = builder.added
        /\ builder'.moved = m
    BY <2>4, <2>5 DEF Builders
  <2> QED
    BY <2>2, <2>3, <2>4, <2>6
<1>14. TypeOK'
  <2>1. RunType'
    BY <1>1, RunTypeFrame DEF runVars
  <2>2. RowType'
    <3>1. index' \in [DOMAIN index' -> Row] /\ DOMAIN index' \subseteq Req
      BY <1>2, <1>4, <1>5, <1>6, <1>1, <1>9 DEF RowType
    <3>2. DOMAIN rows' = {index'[r] : r \in DOMAIN index'}
      <4>1. DOMAIN rows = {index[r] : r \in DOMAIN index}
        BY <1>2 DEF RowType
      <4> QED
        <5>1. ASSUME NEW r \in DOMAIN index PROVE index'[r] \in DOMAIN rows'
          <6>1. CASE r = q
            BY <6>1, <1>9, <1>10
          <6>2. CASE r # q
            <7>1. index'[r] = index[r] /\ index[r] # last /\ index[r] \in DOMAIN rows
              BY <6>2, <4>1, <1>3, <1>5, <1>9, OwnRow
            <7> QED
              BY <7>1, <1>10
          <6> QED
            BY <6>1, <6>2
        <5>2. ASSUME NEW i \in DOMAIN rows' PROVE \E r \in DOMAIN index' : i = index'[r]
          <6>1. CASE i = hole
            BY <6>1, <1>9
          <6>2. CASE i # hole
            <7>1. i \in DOMAIN rows /\ i # last
              BY <6>2, <1>10
            <7>2. PICK r \in DOMAIN index : i = index[r]
              BY <7>1, <4>1
            <7>3. r # q
              BY <7>1, <7>2, <1>5
            <7> QED
              BY <7>2, <7>3, <1>9
          <6> QED
            BY <6>1, <6>2
        <5> QED
          BY <5>1, <5>2, <1>9
    <3> QED
      BY <3>1, <3>2, <1>2, <1>8, <1>10 DEF RowType
  <2>3. ColumnType'
    <3>1. DOMAIN gens' \subseteq Row
      BY <1>2, <1>4, <1>12 DEF ColumnType
    <3>2. mask' \in [Row -> Owner]
      BY <1>1, <1>2, <1>3, <1>4 DEF ColumnType
    <3> QED
      BY <3>1, <3>2, <1>1, <1>2, <1>11, <1>12 DEF ColumnType
  <2>4. ToldType'
    BY <1>1, <1>2, <1>13 DEF ToldType
  <2> QED
    BY <2>1, <2>2, <2>3, <2>4, <1>1, SchedTypeFrame, TypesNext
<1>15. OutInv' /\ CacheInv' /\ ToAddInv'
  <2>1. UNCHANGED <<submits, status, alloc, finished, out, cached>>
    BY <1>1 DEF schedVars, runVars
  <2>2. OutInv'
    BY <1>1, <2>1 DEF OutInv
  <2>3. CacheInv'
    BY <1>1, <2>1 DEF CacheInv, StatusOf, LateOf, Fresh, Early, Late
  <2>4. ToAddInv'
    BY <1>1, <2>1, <1>9 DEF ToAddInv, Late
  <2> QED
    BY <2>2, <2>3, <2>4
<1>16. RowsInv'
  <2>1. ASSUME NEW r \in DOMAIN index'
        PROVE  index'[r] < Len(reqIds') /\ reqIds'[index'[r] + 1] = r
    <3>1. CASE r = q
      BY <3>1, <1>4, <1>6, <1>8, <1>9
    <3>2. CASE r # q
      <4>1. r \in DOMAIN index /\ index'[r] = index[r] /\ index[r] < last /\ index[r] # hole
        BY <3>2, <1>9
      <4>2. /\ index[r] \in Nat /\ index[r] + 1 \in 1 .. Len(reqIds) /\ reqIds[index[r] + 1] = r
        BY <4>1, OwnRow
      <4>3. index[r] + 1 # last + 1 /\ index[r] + 1 # hole + 1 /\ index[r] < Len(reqIds')
        BY <4>1, <4>2, <1>3, <1>4, <1>6, <1>8
      <4> QED
        BY <4>1, <4>2, <4>3, <1>8
    <3> QED
      BY <3>1, <3>2
  <2>2. ASSUME NEW k \in 1 .. Len(reqIds'), reqIds'[k] # 0
        PROVE  reqIds'[k] \in DOMAIN index' /\ index'[reqIds'[k]] = k - 1
    <3>1. k \in 1 .. Len(reqIds) /\ k # last + 1
      BY <2>2, <1>8
    <3>2. CASE k = hole + 1
      BY <3>1, <3>2, <1>4, <1>5, <1>8, <1>9
    <3>3. CASE k # hole + 1
      <4>1. reqIds'[k] = reqIds[k]
        BY <3>1, <3>3, <1>8
      <4>2. reqIds[k] \in DOMAIN index /\ index[reqIds[k]] = k - 1
        BY <4>1, <3>1, <2>2 DEF RowsInv
      <4>3. reqIds[k] # q
        BY <4>2, <3>1, <1>3, <1>5, <1>6
      <4> QED
        BY <4>1, <4>2, <4>3, <1>9
    <3> QED
      BY <3>2, <3>3
  <2> QED
    BY <2>1, <2>2 DEF RowsInv
<1>17. HolesInv'
  <2>1. ASSUME NEW j \in c.removed PROVE j < Len(reqIds') /\ reqIds'[j + 1] = 0
    <3>1. j \in builder.removed /\ j # hole /\ j \in Nat
      BY <1>2, <1>13, BuilderParts, Sizes DEF ToldType
    <3>2. j < Len(reqIds) /\ reqIds[j + 1] = 0
      BY <3>1 DEF HolesInv
    <3>3. j + 1 \in 1 .. Len(reqIds) /\ j + 1 # hole + 1
      BY <3>1, <3>2, <1>4, <1>6
    <3> QED
      BY <3>2, <3>3, <1>8
  <2>2. ASSUME NEW k \in 1 .. Len(reqIds'), reqIds'[k] = 0, k - 1 \notin c.removed
        PROVE  \A r \in DOMAIN index' : index'[r] < k - 1
    <3>1. k \in 1 .. Len(reqIds) /\ k \in Nat /\ k # hole + 1
      BY <2>2, <1>6, <1>8
    <3>2. last <= k - 1
      <4>1. CASE k = last + 1
        BY <4>1, <1>3
      <4>2. CASE k # last + 1
        <5>1. reqIds[k] = 0 /\ k - 1 \notin builder.removed
          BY <4>2, <3>1, <2>2, <1>4, <1>8, <1>13
        <5>2. index[q] < k - 1
          BY <5>1, <3>1, <1>5 DEF HolesInv
        <5> QED
          BY <5>2, <3>1, <1>3, <1>5
      <4> QED
        BY <4>1, <4>2
    <3>3. \A r \in DOMAIN index' : index'[r] < last /\ index'[r] \in Nat
      BY <1>1, <1>3, <1>4, <1>9
    <3> QED
      BY <3>1, <3>2, <3>3, <1>3
  <2> QED
    BY <2>1, <2>2, <1>1, <1>13 DEF HolesInv
<1>18. ContentInv'
  <2>1. DOMAIN gens' \subseteq DOMAIN rows'
    BY <1>10, <1>12 DEF ContentInv
  <2>2. RowOf(q) /\ cached' = cached
    BY <1>1, <1>5 DEF ContentInv, runVars
  <2>3. RowOf(q)'
    BY <2>2, <1>5, <1>9, <1>10, <1>11, <1>12 DEF RowOf
  <2>4. ASSUME NEW r \in DOMAIN index, r # q PROVE RowOf(r)'
    <3>1. /\ RowOf(r) /\ index'[r] = index[r] /\ index[r] # hole /\ index[r] # last
          /\ index[r] \in DOMAIN rows
      BY <2>4, <1>3, <1>9, OwnRow DEF ContentInv
    <3>2. rows'[index[r]] = rows[index[r]] /\ lora'[index[r]] = lora[index[r]]
      BY <3>1, <1>10, <1>11
    <3>3. /\ index[r] \in DOMAIN gens' <=> index[r] \in DOMAIN gens
          /\ index[r] \in DOMAIN gens => gens'[index[r]] = gens[index[r]]
      BY <3>1, <1>12
    <3> QED
      BY <3>1, <3>2, <3>3, <2>2 DEF RowOf
  <2> QED
    BY <2>1, <2>3, <2>4, <1>9 DEF ContentInv
<1>19. AdapterInv'
  BY <1>1, <1>9 DEF AdapterInv
<1>20. /\ Len(c.moved) = Len(builder.moved) + 1 /\ Len(builder.moved) \in Nat
       /\ \A k \in 1 .. Len(builder.moved) : c.moved[k] = builder.moved[k]
       /\ c.moved[Len(builder.moved) + 1] = mv /\ c.moved # <<>>
  BY <1>13, AppendProperties, LenProperties
<1>21. BuilderInv'
  <2> SUFFICES ASSUME backend = "attention", NEW k \in 1 .. Len(c.moved)
               PROVE  c.moved[k][1] \notin c.removed /\ c.moved[k][2] \notin c.removed
    BY <1>1, <1>13 DEF BuilderInv, runVars
  <2>1. CASE k = Len(builder.moved) + 1
    <3>1. c.moved[k] = mv /\ mv[1] = last /\ mv[2] = hole
      BY <2>1, <1>13, <1>20
    <3> QED
      BY <3>1, <1>6, <1>13
  <2>2. CASE k # Len(builder.moved) + 1
    <3>1. k \in 1 .. Len(builder.moved) /\ c.moved[k] = builder.moved[k]
      BY <2>2, <1>20
    <3>2. builder.moved[k][1] \notin builder.removed /\ builder.moved[k][2] \notin builder.removed
      BY <3>1 DEF BuilderInv
    <3> QED
      BY <3>1, <3>2, <1>13
  <2> QED
    BY <2>1, <2>2
<1>22. MetaInv'
  <2>1. builder' # EmptyBuilder
    BY <1>13, <1>20, EmptyBuilderParts
  <2> QED
    BY <2>1 DEF MetaInv
<1>23. FollowInv'
  <2> SUFFICES ASSUME backend = "attention", NEW j \in Row PROVE Apply(c)[j] = Occupant(j)'
    BY <1>1, <1>13, ApplyNext DEF FollowInv, runVars
  <2>1. /\ Apply(c)[last] = Nobody /\ Apply(c)[hole] = Occupant(last)
        /\ \A i \in Row \ {last, hole} : Apply(c)[i] = Occupant(i)
    <3>1. WithMove(last, hole, c, mv)
      BY <1>3, <1>4, <1>6, <1>13 DEF WithMove
    <3> QED
      BY <3>1, FollowMove
  <2> QED
    BY <2>1, <1>3, <1>6, <1>10 DEF Occupant
<1> QED
  BY <1>14, <1>15, <1>16, <1>17, <1>18, <1>19, <1>21, <1>22, <1>23

(* condense leaves the rows of the batch without a gap. *)
LEMMA Condensed ==
  ASSUME IInv, Added, ~MustMove
  PROVE  /\ DOMAIN rows = 0 .. NumReqs - 1 /\ NumReqs \in Nat /\ NumReqs <= Len(reqIds)
         /\ \A k \in 1 .. NumReqs : reqIds[k] \in DOMAIN index /\ index[reqIds[k]] = k - 1
<1> USE DEF IInv
<1>1. Len(reqIds) \in Nat /\ builder.removed \in SUBSET Nat
  BY Types, OwnRow, BuilderParts, Sizes DEF ToldType
<1>2. CASE DOMAIN index = {}
  <2>1. /\ 0 \in Nat /\ 0 <= Len(reqIds) /\ \A k \in 1 .. 0 : reqIds[k] # 0
        /\ \A r \in DOMAIN index : index[r] < 0
    BY <1>1, <1>2
  <2>2. /\ DOMAIN rows = 0 .. 0 - 1 /\ NumReqs = 0
        /\ \A k \in 1 .. 0 : reqIds[k] \in DOMAIN index /\ index[reqIds[k]] = k - 1
    BY <2>1, Compact
  <2> QED
    BY <2>1, <2>2
<1>3. CASE DOMAIN index # {}
  <2>1. PICK last : last = LastRow
    OBVIOUS
  <2>2. /\ last \in Nat /\ \A r \in DOMAIN index : index[r] <= last /\ index[r] \in Nat
        /\ \E q \in DOMAIN index : index[q] = last
    BY <2>1, <1>3, LastRowFacts, OwnRow
  <2>3. PICK q \in DOMAIN index : index[q] = last
    BY <2>2
  <2>4. last + 1 \in 1 .. Len(reqIds) /\ reqIds[last + 1] # 0
    BY <2>3, OwnRow
  <2>5. \A i \in builder.removed : i \in Nat /\ last <= i
    <3> SUFFICES ASSUME NEW i \in builder.removed PROVE i \in Nat /\ last <= i
      OBVIOUS
    <3>1. NumReqs > 0
      BY <1>3, SomeLeft
    <3>2. Min(builder.removed) \in Nat /\ Min(builder.removed) <= i /\ i \in Nat
      BY <1>1, MinFacts
    <3>3. ~(Min(builder.removed) < last)
      BY <3>1, <2>1 DEF MustMove
    <3> QED
      BY <3>2, <3>3, <2>2
  <2>6. ASSUME NEW k \in 1 .. last + 1, reqIds[k] = 0 PROVE FALSE
    <3>1. k \in 1 .. Len(reqIds) /\ k \in Nat /\ k # last + 1 /\ k - 1 < last
      BY <2>2, <2>4, <2>6, <1>1
    <3>2. k - 1 \in builder.removed \/ \A r \in DOMAIN index : index[r] < k - 1
      BY <3>1, <2>6 DEF HolesInv
    <3>3. k - 1 \notin builder.removed
      BY <3>1, <2>2, <2>5
    <3>4. last < k - 1
      BY <3>2, <3>3, <2>3
    <3> QED
      BY <3>1, <3>4, <2>2
  <2>7. PICK n \in Nat : n = last + 1
    BY <2>2
  <2>8. n <= Len(reqIds) /\ (\A k \in 1 .. n : reqIds[k] # 0) /\ \A r \in DOMAIN index : index[r] < n
    BY <2>2, <2>4, <2>6, <2>7, <1>1
  <2>9. /\ DOMAIN rows = 0 .. n - 1 /\ NumReqs = n
        /\ \A k \in 1 .. n : reqIds[k] \in DOMAIN index /\ index[reqIds[k]] = k - 1
    BY <2>8, Compact
  <2> QED
    BY <2>8, <2>9
<1> QED
  BY <1>2, <1>3

(* A processor that has been told everything. *)
LEMMA ApplyEmptyNext ==
  ASSUME builder' = EmptyBuilder, procs' \in [Row -> Owner]
  PROVE  Apply(builder)' = procs'
<1>1. PICK p \in [Row -> Owner] : p = procs'
  OBVIOUS
<1>2. \A i : AddsTo(EmptyBuilder, i) = {} /\ i \notin EmptyBuilder.removed
  BY EmptyBuilderParts DEF AddsTo
<1>3. [i \in Row |-> IF i \in EmptyBuilder.removed THEN Nobody
                     ELSE IF AddsTo(EmptyBuilder, i) = {} THEN p[i]
                     ELSE EmptyBuilder.added[Max(AddsTo(EmptyBuilder, i))][2]] = p
  BY <1>2
<1>4. Apply(builder)' =
        ApplyMoves([i \in Row |-> IF i \in EmptyBuilder.removed THEN Nobody
                                  ELSE IF AddsTo(EmptyBuilder, i) = {} THEN p[i]
                                  ELSE EmptyBuilder.added[Max(AddsTo(EmptyBuilder, i))][2]],
                   EmptyBuilder.moved)
  BY <1>1 DEF Apply, AddsTo
<1> QED
  BY <1>1, <1>3, <1>4, EmptyBuilderParts, MovesNone

(* What _make_sampling_metadata returns. *)
LEMMA MetadataFacts ==
  ASSUME TypeOK, DOMAIN rows = 0 .. NumReqs - 1, DOMAIN rows \subseteq Row
  PROVE  /\ DOMAIN SamplingMetadata = DOMAIN rows
         /\ SamplingMetadata \in [DOMAIN rows -> [owner : Owner, mask : Owner]]
         /\ \A i \in DOMAIN rows : SamplingMetadata[i].owner = rows[i].owner
<1>1. ASSUME NEW i \in DOMAIN rows
      PROVE  rows[i].owner \in Owner /\ mask[i] \in Owner /\ Nobody \in Owner
  <2>1. rows[i] \in Entries /\ mask[i] \in Owner
    BY DEF TypeOK
  <2> QED
    BY <2>1, EntryParts, Sizes
<1>2. PICK m : m = [i \in DOMAIN rows |-> IF DOMAIN index \cap Masked = {} THEN Nobody ELSE mask[i]]
  OBVIOUS
<1>3. \A i \in DOMAIN rows : m[i] \in Owner
  BY <1>1, <1>2
<1>4. SamplingMetadata = [i \in DOMAIN rows |-> [owner |-> rows[i].owner, mask |-> m[i]]]
  BY <1>2 DEF SamplingMetadata
<1> QED
  BY <1>1, <1>3, <1>4

(* The rows of the batch are trimmed, the sampler and the processors told. *)
LEMMA RefreshStep ==
  ASSUME IInv, RefreshMetadata
  PROVE  IInv'
<1> USE DEF IInv
<1>0. PICK n : n = NumReqs
  OBVIOUS
<1>1. /\ pc = "add" /\ toAdd = <<>> /\ toAdd' = <<>> /\ Added /\ ~MustMove
      /\ reqIds' = SubSeq(reqIds, 1, n)
      /\ procs' = Apply(builder)
      /\ meta' = IF builder # EmptyBuilder THEN SamplingMetadata ELSE meta
      /\ builder' = EmptyBuilder
      /\ pc' \in {"idle", "reorder", "sample"}
      /\ pc' = "idle" => out.sched = {} /\ out' = NoOutput
      /\ pc' # "idle" => out' = out
      /\ pc' = "reorder" => backend = "mla"
      /\ UNCHANGED <<schedVars, backend, cached, index, rows, gens, mask, lora, loraIds>>
  <2>1. /\ pc = "add" /\ toAdd = <<>> /\ toAdd' = <<>> /\ Added /\ ~MustMove
        /\ reqIds' = SubSeq(reqIds, 1, n)
        /\ procs' = Apply(builder)
        /\ meta' = IF builder # EmptyBuilder THEN SamplingMetadata ELSE meta
        /\ builder' = EmptyBuilder
        /\ UNCHANGED <<schedVars, backend, cached, index, rows, gens, mask, lora, loraIds>>
    BY <1>0 DEF RefreshMetadata, BatchUpdated, Added
  <2>2. /\ pc' = IF out.sched = {} THEN "idle" ELSE IF backend = "mla" THEN "reorder" ELSE "sample"
        /\ out' = IF out.sched = {} THEN NoOutput ELSE out
    BY DEF RefreshMetadata
  <2>3. CASE out.sched = {}
    BY <2>1, <2>2, <2>3
  <2>4. CASE out.sched # {} /\ backend = "mla"
    BY <2>1, <2>2, <2>4
  <2>5. CASE out.sched # {} /\ backend # "mla"
    BY <2>1, <2>2, <2>5
  <2> QED
    BY <2>3, <2>4, <2>5
<1>2. RunType /\ RowType /\ ColumnType /\ ToldType /\ SchedType
  BY Types
<1>3. /\ DOMAIN rows = 0 .. n - 1 /\ n \in Nat /\ n <= Len(reqIds)
      /\ \A k \in 1 .. n : reqIds[k] \in DOMAIN index /\ index[reqIds[k]] = k - 1
      /\ DOMAIN rows \subseteq Row /\ Len(reqIds) \in Nat /\ Len(reqIds) <= MaxNumReqs
  BY <1>0, <1>1, Condensed, OwnRow
<1>4. /\ reqIds' \in Seq(Req \cup {0}) /\ Len(reqIds') = n
      /\ \A k \in 1 .. n : reqIds'[k] = reqIds[k]
  <2>1. PICK T : T = Req \cup {0}
    OBVIOUS
  <2>2. \A k \in 1 .. n : reqIds[k] \in T
    <3>1. reqIds \in Seq(T)
      BY <2>1, <1>2 DEF RowType
    <3> QED
      BY <3>1, <1>3, ElemAt
  <2>3. PICK s : s = SubSeq(reqIds, 1, n)
    OBVIOUS
  <2>4. /\ s \in Seq(T) /\ Len(s) = IF 1 <= n THEN n - 1 + 1 ELSE 0
        /\ \A i \in 1 .. n - 1 + 1 : s[i] = reqIds[1 + i - 1]
    <3>1. 1 \in Int /\ n \in Int
      BY <1>3
    <3> QED
      BY <3>1, <2>2, <2>3, SubSeqProperties
  <2>5. Len(s) = n /\ \A k \in 1 .. n : s[k] = reqIds[k]
    BY <2>4, <1>3
  <2> QED
    BY <2>1, <2>3, <2>4, <2>5, <1>1
<1>5. procs' \in [Row -> Owner]
  BY <1>1, <1>2, ToldTyped DEF ToldType
<1>6. TypeOK'
  <2>1. RunType'
    <3>1. NoOutput \in Outputs
      BY DEF NoOutput, Outputs, Blocks
    <3> QED
      BY <3>1, <1>1, <1>2 DEF RunType
  <2>2. RowType'
    <3>1. UNCHANGED <<index, rows>> /\ n <= MaxNumReqs
      BY <1>1, <1>3, Sizes
    <3>2. /\ DOMAIN index \subseteq Req /\ index \in [DOMAIN index -> Row]
          /\ DOMAIN rows = {index[r] : r \in DOMAIN index} /\ rows \in [DOMAIN rows -> Entries]
      BY <1>2 DEF RowType
    <3> QED
      BY <3>1, <3>2, <1>4 DEF RowType
  <2>3. ColumnType'
    BY <1>1, <1>2 DEF ColumnType
  <2>4. ToldType'
    <3>1. DOMAIN meta' \subseteq Row /\ meta' \in [DOMAIN meta' -> [owner : Owner, mask : Owner]]
      <4>1. CASE builder = EmptyBuilder
        BY <4>1, <1>1, <1>2 DEF ToldType
      <4>2. CASE builder # EmptyBuilder
        BY <4>2, <1>0, <1>1, <1>3, MetadataFacts
      <4> QED
        BY <4>1, <4>2
    <3> QED
      BY <3>1, <1>1, <1>5, EmptyBuilderParts DEF ToldType
  <2> QED
    BY <2>1, <2>2, <2>3, <2>4, <1>1, SchedTypeFrame, TypesNext
<1>7. OutInv' /\ CacheInv' /\ ToAddInv'
  <2>1. UNCHANGED <<submits, status, alloc, finished, cached, index>> /\ finished = {}
    BY <1>1 DEF schedVars, OutInv
  <2>2. OutInv'
    BY <1>1, <2>1 DEF OutInv
  <2>3. DOMAIN index = out.sched
    <3>1. Elems(<<>>) = {}
      BY DEF Elems
    <3> QED
      BY <3>1, <1>1 DEF ToAddInv, Late
  <2>4. CacheInv'
    <3> SUFFICES ASSUME NEW r \in Req
                 PROVE  /\ StatusOf(r)' /\ pc' \notin Early
                        /\ pc' = "idle" => IdleOf(r)' /\ pc' \notin Late
                        /\ pc' # "idle" => LateOf(r)'
      BY DEF CacheInv
    <3>1. StatusOf(r) /\ LateOf(r)
      BY <1>1 DEF CacheInv, Late
    <3>2. StatusOf(r)' /\ pc' \notin Early /\ (pc' = "idle" => pc' \notin Late)
      BY <3>1, <2>1, <1>1 DEF StatusOf, Early, Late
    <3>3. pc' = "idle" => IdleOf(r)'
      BY <3>1, <2>1, <2>3, <1>1 DEF IdleOf, LateOf, Fresh
    <3>4. pc' # "idle" => LateOf(r)'
      BY <3>1, <2>1, <1>1 DEF LateOf, Fresh
    <3> QED
      BY <3>2, <3>3, <3>4
  <2>5. ToAddInv'
    BY <1>1, <2>1 DEF ToAddInv, Late
  <2> QED
    BY <2>2, <2>4, <2>5
<1>8. RowsInv'
  <2>1. ASSUME NEW r \in DOMAIN index PROVE index[r] < n /\ reqIds'[index[r] + 1] = r
    <3>1. index[r] \in Nat /\ index[r] \in DOMAIN rows /\ reqIds[index[r] + 1] = r
      BY OwnRow
    <3>2. index[r] < n /\ index[r] + 1 \in 1 .. n
      BY <3>1, <1>3
    <3> QED
      BY <3>1, <3>2, <1>4
  <2> QED
    BY <2>1, <1>1, <1>3, <1>4 DEF RowsInv
<1>9. HolesInv'
  <2>1. \A k \in 1 .. n : reqIds'[k] # 0
    BY <1>3, <1>4, OwnRow
  <2> QED
    BY <2>1, <1>1, <1>4, EmptyBuilderParts DEF HolesInv
<1>10. ContentInv'
  BY <1>1 DEF ContentInv, RowOf
<1>11. AdapterInv'
  BY <1>1 DEF AdapterInv
<1>12. BuilderInv'
  <2>1. Len(<<>>) = 0
    OBVIOUS
  <2> QED
    BY <2>1, <1>1, <1>2, EmptyBuilderParts, Sizes DEF BuilderInv
<1>13. MetaInv'
  <2> SUFFICES ASSUME backend = "attention"
               PROVE  /\ DOMAIN meta' = DOMAIN rows
                      /\ \A i \in DOMAIN rows : meta'[i].owner = rows[i].owner
    BY <1>1 DEF MetaInv
  <2>1. CASE builder = EmptyBuilder
    BY <2>1, <1>1 DEF MetaInv
  <2>2. CASE builder # EmptyBuilder
    BY <2>2, <1>0, <1>1, <1>3, MetadataFacts
  <2> QED
    BY <2>1, <2>2
<1>14. FollowInv'
  <2> SUFFICES ASSUME backend = "attention", NEW i \in Row PROVE Apply(builder)'[i] = Occupant(i)'
    BY <1>1 DEF FollowInv
  <2>1. Apply(builder)' = procs' /\ procs'[i] = Occupant(i)
    BY <1>1, <1>5, ApplyEmptyNext DEF FollowInv
  <2> QED
    BY <2>1, <1>1 DEF Occupant
<1> QED
  BY <1>6, <1>7, <1>8, <1>9, <1>10, <1>11, <1>12, <1>13, <1>14

(* The rows are exchanged along f, its own inverse. *)
Exchange(f) ==
  /\ f \in [Row -> Row] /\ \A i \in Row : f[f[i]] = i
  /\ \A i \in DOMAIN rows : f[i] \in DOMAIN rows
  /\ reqIds' = [k \in DOMAIN reqIds |-> reqIds[f[k - 1] + 1]]
  /\ index' = [r \in DOMAIN index |-> f[index[r]]]
  /\ rows' = [i \in DOMAIN rows |-> rows[f[i]]]
  /\ gens' = [i \in {f[j] : j \in DOMAIN gens} |-> gens[f[i]]]
  /\ lora' = [i \in DOMAIN lora |-> lora[f[i]]]

(* swap_states, for all the pairs of a batch. *)
LEMMA ReorderIsExchange ==
  ASSUME IInv, ReorderBatch
  PROVE  \E f : Exchange(f)
<1> USE DEF IInv
<1>1. pc = "reorder"
  BY DEF ReorderBatch
<1>2. /\ \A i \in Row : Swapped(i) \in Row /\ Swapped(Swapped(i)) = i
      /\ \A i \in DOMAIN rows : Swapped(i) \in DOMAIN rows
  BY <1>1, SwapFacts
<1>3. PICK f : f = [i \in Row |-> Swapped(i)]
  OBVIOUS
<1>4. \A i \in Row : f[i] = Swapped(i)
  BY <1>3
<1>5. /\ DOMAIN reqIds = 1 .. Len(reqIds) /\ DOMAIN rows \subseteq Row /\ DOMAIN lora = DOMAIN rows
      /\ DOMAIN gens \subseteq Row /\ \A r \in DOMAIN index : index[r] \in Row
      /\ \A k \in DOMAIN reqIds : k - 1 \in Row
  <2>1. /\ DOMAIN reqIds = 1 .. Len(reqIds) /\ DOMAIN lora = DOMAIN rows /\ DOMAIN gens \subseteq Row
    BY Types, ElemAt DEF RowType, ColumnType
  <2>2. /\ DOMAIN rows \subseteq Row /\ Len(reqIds) \in Nat /\ Len(reqIds) <= MaxNumReqs
        /\ \A r \in DOMAIN index : index[r] \in Row
    BY OwnRow
  <2>3. \A k \in DOMAIN reqIds : k - 1 \in Row
    BY <2>1, <2>2, Sizes DEF Row
  <2> QED
    BY <2>1, <2>2, <2>3
<1>6. reqIds' = [k \in DOMAIN reqIds |-> reqIds[f[k - 1] + 1]]
  <2>1. \A k \in DOMAIN reqIds : Swapped(k - 1) = f[k - 1]
    BY <1>4, <1>5
  <2>2. reqIds' = [k \in DOMAIN reqIds |-> reqIds[Swapped(k - 1) + 1]]
    BY DEF ReorderBatch
  <2> QED
    BY <2>1, <2>2
<1>7. index' = [r \in DOMAIN index |-> f[index[r]]]
  <2>1. index' = [r \in DOMAIN index |-> Swapped(index[r])]
    BY DEF ReorderBatch
  <2>2. \A r \in DOMAIN index : Swapped(index[r]) = f[index[r]]
    BY <1>4, <1>5
  <2> QED
    BY <2>1, <2>2
<1>8. rows' = [i \in DOMAIN rows |-> rows[f[i]]] /\ lora' = [i \in DOMAIN lora |-> lora[f[i]]]
  <2>1. /\ rows' = [i \in DOMAIN rows |-> rows[Swapped(i)]]
        /\ lora' = [i \in DOMAIN lora |-> lora[Swapped(i)]]
    BY DEF ReorderBatch
  <2>2. \A i \in DOMAIN rows : Swapped(i) = f[i]
    BY <1>4, <1>5
  <2> QED
    BY <2>1, <2>2, <1>5
<1>9. gens' = [i \in {f[j] : j \in DOMAIN gens} |-> gens[f[i]]]
  <2>1. gens' = [i \in {Swapped(j) : j \in DOMAIN gens} |-> gens[Swapped(i)]]
    BY DEF ReorderBatch
  <2>2. \A j \in DOMAIN gens : Swapped(j) = f[j] /\ f[j] \in Row
    BY <1>2, <1>4, <1>5
  <2>3. {Swapped(j) : j \in DOMAIN gens} = {f[j] : j \in DOMAIN gens}
    BY <2>2
  <2>4. \A i \in {f[j] : j \in DOMAIN gens} : Swapped(i) = f[i]
    BY <2>2, <1>4
  <2> QED
    BY <2>1, <2>3, <2>4
<1>10. f \in [Row -> Row] /\ \A i \in Row : f[f[i]] = i
  BY <1>2, <1>3, <1>4
<1>11. \A i \in DOMAIN rows : f[i] \in DOMAIN rows
  BY <1>2, <1>4, <1>5
<1> QED
  BY <1>6, <1>7, <1>8, <1>9, <1>10, <1>11 DEF Exchange

(* The decodes move to the front. *)
LEMMA ReorderStep ==
  ASSUME IInv, ReorderBatch
  PROVE  IInv'
<1> USE DEF IInv
<1>1. /\ pc = "reorder" /\ pc' = "sample"
      /\ mask' = [i \in Row |-> IF i \in Prefills THEN mask[Swapped(i)] ELSE mask[i]]
      /\ UNCHANGED <<schedVars, runVars, loraIds, meta, procs>>
  BY DEF ReorderBatch
<1>2. RunType /\ RowType /\ ColumnType /\ ToldType /\ SchedType
  BY Types
<1>3. PICK f : Exchange(f)
  BY ReorderIsExchange
<1>4. PICK n \in Nat :
        /\ DOMAIN rows = 0 .. n - 1 /\ n = Len(reqIds)
        /\ \A k \in 1 .. n : reqIds[k] \in DOMAIN index /\ index[reqIds[k]] = k - 1
  BY <1>1, NoGap
<1>5. backend # "attention"
  BY <1>1 DEF BuilderInv
<1>6. /\ f \in [Row -> Row] /\ \A i \in Row : f[f[i]] = i
      /\ \A i \in DOMAIN rows : f[i] \in DOMAIN rows /\ i \in Row
  BY <1>3, OwnRow DEF Exchange
<1>7. DOMAIN index' = DOMAIN index /\ \A r \in DOMAIN index : index'[r] = f[index[r]]
  BY <1>3 DEF Exchange
<1>8. DOMAIN rows' = DOMAIN rows /\ \A i \in DOMAIN rows : rows'[i] = rows[f[i]]
  BY <1>3 DEF Exchange
<1>9. /\ reqIds' \in Seq(Req \cup {0}) /\ Len(reqIds') = n
      /\ \A k \in 1 .. n : reqIds'[k] = reqIds[f[k - 1] + 1]
  <2>1. reqIds' = [k \in 1 .. n |-> reqIds[f[k - 1] + 1]]
    <3>1. DOMAIN reqIds = 1 .. n
      BY <1>2, <1>4, ElemAt DEF RowType
    <3> QED
      BY <3>1, <1>3 DEF Exchange
  <2>2. ASSUME NEW k \in 1 .. n PROVE reqIds[f[k - 1] + 1] \in Req \cup {0}
    <3>1. k - 1 \in DOMAIN rows
      BY <1>4
    <3>2. f[k - 1] \in 0 .. n - 1
      BY <3>1, <1>4, <1>6
    <3>3. f[k - 1] + 1 \in 1 .. n
      BY <3>2
    <3> QED
      BY <3>3, <1>2, <1>4, ElemAt DEF RowType
  <2>3. reqIds' \in [1 .. n -> Req \cup {0}]
    BY <2>1, <2>2
  <2>4. reqIds' \in Seq(Req \cup {0})
    BY <2>3, SeqDef
  <2> QED
    BY <2>1, <2>3, <2>4, LenProperties
<1>10. \A i \in DOMAIN rows : \E r \in DOMAIN index : index'[r] = i
  <2> SUFFICES ASSUME NEW i \in DOMAIN rows PROVE \E r \in DOMAIN index : index'[r] = i
    OBVIOUS
  <2>1. f[i] \in DOMAIN rows /\ f[f[i]] = i
    BY <1>6
  <2>2. PICK r \in DOMAIN index : f[i] = index[r]
    BY <2>1, OwnRow
  <2> QED
    BY <2>1, <2>2, <1>7
<1>11. PICK c : c = builder' /\ c \in Builders /\ c.removed = {}
  <2>1. builder \in Builders /\ builder.removed = {}
    BY <1>1, <1>2 DEF ToldType, HolesInv
  <2>2. PICK s \in Seq(Moves) : s = [k \in DOMAIN Swaps |-> <<Swaps[k][1], Swaps[k][2], "SWAP">>]
    BY <1>1, SwapFacts
  <2>3. PICK m : m = builder.moved \o s
    OBVIOUS
  <2>4. builder.added \in Seq(Row \X Owner) /\ m \in Seq(Moves)
    BY <2>1, <2>2, <2>3, BuilderParts, ConcatProperties
  <2>5. builder' = [removed |-> {}, added |-> builder.added, moved |-> m]
    <3>1. builder = [removed |-> builder.removed, added |-> builder.added, moved |-> builder.moved]
      BY <2>1, BuilderParts
    <3>2. builder' = [builder EXCEPT !.moved = m]
      BY <2>2, <2>3 DEF ReorderBatch
    <3>3. builder' = [removed |-> builder.removed, added |-> builder.added, moved |-> m]
      BY <3>1, <3>2
    <3> QED
      BY <3>3, <2>1
  <2>6. builder' \in Builders /\ builder'.removed = {}
    BY <2>4, <2>5 DEF Builders
  <2> QED
    BY <2>6
<1>12. TypeOK'
  <2>1. RunType'
    BY <1>1, RunTypeFrame DEF runVars
  <2>2. RowType'
    <3>1. DOMAIN index' \subseteq Req /\ index' \in [DOMAIN index' -> Row]
      <4>1. index' = [r \in DOMAIN index |-> f[index[r]]] /\ \A r \in DOMAIN index : index[r] \in Row
        BY <1>3, OwnRow DEF Exchange
      <4> QED
        BY <4>1, <1>2, <1>6 DEF RowType
    <3>2. DOMAIN rows' = {index'[r] : r \in DOMAIN index'}
      <4>1. \A r \in DOMAIN index : index'[r] \in DOMAIN rows
        BY <1>6, <1>7, OwnRow
      <4> QED
        BY <4>1, <1>7, <1>8, <1>10
    <3>3. rows' \in [DOMAIN rows' -> Entries]
      <4>1. rows' = [i \in DOMAIN rows |-> rows[f[i]]] /\ rows \in [DOMAIN rows -> Entries]
        BY <1>2, <1>3 DEF Exchange, RowType
      <4> QED
        BY <4>1, <1>6
    <3>4. Len(reqIds') <= MaxNumReqs
      BY <1>2, <1>4, <1>9 DEF RowType
    <3> QED
      BY <3>1, <3>2, <3>3, <3>4, <1>9 DEF RowType
  <2>3. ColumnType'
    <3>1. DOMAIN gens' \subseteq Row /\ gens' \in [DOMAIN gens' -> Owner]
      <4>1. gens' = [i \in {f[j] : j \in DOMAIN gens} |-> gens[f[i]]]
        BY <1>3 DEF Exchange
      <4>2. gens \in [DOMAIN gens -> Owner] /\ DOMAIN gens \subseteq Row
        BY <1>2 DEF ColumnType
      <4> QED
        BY <4>1, <4>2, <1>6
    <3>2. mask' \in [Row -> Owner]
      BY <1>1, <1>2, SwapFacts DEF ColumnType
    <3>3. lora' \in [DOMAIN rows' -> {Adapter[r] : r \in Req}]
      <4>1. lora' = [i \in DOMAIN lora |-> lora[f[i]]] /\ lora \in [DOMAIN rows -> {Adapter[r] : r \in Req}]
        BY <1>2, <1>3 DEF Exchange, ColumnType
      <4> QED
        BY <4>1, <1>6, <1>8
    <3> QED
      BY <3>1, <3>2, <3>3, <1>1, <1>2 DEF ColumnType
  <2>4. ToldType'
    BY <1>1, <1>2, <1>11 DEF ToldType
  <2> QED
    BY <2>1, <2>2, <2>3, <2>4, <1>1, SchedTypeFrame, TypesNext
<1>13. OutInv' /\ CacheInv' /\ ToAddInv'
  <2>1. UNCHANGED <<submits, status, alloc, finished, out, cached, toAdd, backend>>
    BY <1>1 DEF schedVars, runVars
  <2>2. OutInv'
    BY <1>1, <2>1 DEF OutInv
  <2>3. CacheInv'
    BY <1>1, <2>1 DEF CacheInv, StatusOf, LateOf, Fresh, Early, Late
  <2>4. ToAddInv'
    BY <1>1, <2>1, <1>7 DEF ToAddInv, Late
  <2> QED
    BY <2>2, <2>3, <2>4
<1>14. RowsInv'
  <2>1. ASSUME NEW r \in DOMAIN index PROVE index'[r] < n /\ reqIds'[index'[r] + 1] = r
    <3>1. index[r] \in DOMAIN rows /\ reqIds[index[r] + 1] = r
      BY OwnRow
    <3>2. PICK j \in 0 .. n - 1 : j = f[index[r]] /\ f[j] = index[r]
      BY <3>1, <1>4, <1>6
    <3>3. j + 1 \in 1 .. n /\ (j + 1) - 1 = j /\ j < n
      OBVIOUS
    <3> QED
      BY <3>1, <3>2, <3>3, <1>7, <1>9
  <2>2. ASSUME NEW k \in 1 .. n PROVE reqIds'[k] \in DOMAIN index' /\ index'[reqIds'[k]] = k - 1
    <3>1. k - 1 \in DOMAIN rows
      BY <1>4
    <3>2. PICK j \in 0 .. n - 1 : j = f[k - 1] /\ f[j] = k - 1
      BY <3>1, <1>4, <1>6
    <3>3. j + 1 \in 1 .. n /\ (j + 1) - 1 = j
      OBVIOUS
    <3> QED
      BY <3>2, <3>3, <1>4, <1>7, <1>9
  <2> QED
    BY <2>1, <2>2, <1>7, <1>9 DEF RowsInv
<1>15. HolesInv'
  <2> SUFFICES ASSUME NEW k \in 1 .. n PROVE reqIds'[k] # 0
    BY <1>1, <1>9, <1>11 DEF HolesInv
  <2>1. k - 1 \in DOMAIN rows
    BY <1>4
  <2>2. PICK j \in 0 .. n - 1 : j = f[k - 1]
    BY <2>1, <1>4, <1>6
  <2>3. j + 1 \in 1 .. n
    OBVIOUS
  <2> QED
    BY <2>2, <2>3, <1>4, <1>9, OwnRow
<1>16. ContentInv'
  <2>1. /\ DOMAIN gens' = {f[j] : j \in DOMAIN gens} /\ \A i \in DOMAIN gens' : gens'[i] = gens[f[i]]
        /\ DOMAIN gens \subseteq DOMAIN rows
    BY <1>3 DEF Exchange, ContentInv
  <2>2. \A i \in DOMAIN rows : lora'[i] = lora[f[i]]
    BY <1>2, <1>3 DEF Exchange, ColumnType
  <2>3. \A i \in DOMAIN rows : f[i] \in DOMAIN gens' <=> i \in DOMAIN gens
    BY <2>1, <1>6
  <2>4. ASSUME NEW r \in DOMAIN index PROVE RowOf(r)'
    <3>1. RowOf(r) /\ index[r] \in DOMAIN rows /\ cached' = cached
      BY <1>1, OwnRow DEF ContentInv, runVars
    <3>2. PICK j \in DOMAIN rows : j = index'[r] /\ j = f[index[r]] /\ f[j] = index[r]
      BY <3>1, <1>6, <1>7
    <3>3. rows'[j] = rows[index[r]] /\ lora'[j] = lora[index[r]]
      BY <3>2, <2>2, <1>8
    <3>4. /\ j \in DOMAIN gens' <=> index[r] \in DOMAIN gens
          /\ j \in DOMAIN gens' => gens'[j] = gens[index[r]]
      BY <3>1, <3>2, <2>1, <2>3
    <3> QED
      BY <3>1, <3>2, <3>3, <3>4 DEF RowOf
  <2>5. DOMAIN gens' \subseteq DOMAIN rows'
    BY <2>1, <1>6, <1>8
  <2> QED
    BY <2>4, <2>5, <1>7 DEF ContentInv
<1>17. AdapterInv'
  BY <1>1, <1>7 DEF AdapterInv
<1>18. BuilderInv' /\ MetaInv' /\ FollowInv'
  <2>1. backend' # "attention"
    BY <1>1, <1>5 DEF runVars
  <2> QED
    BY <2>1 DEF BuilderInv, MetaInv, FollowInv
<1> QED
  BY <1>12, <1>13, <1>14, <1>15, <1>16, <1>17, <1>18

(* One token is sampled for each row. *)
LEMMA SampleStep ==
  ASSUME IInv, NEW partial, Sample(partial)
  PROVE  IInv'
<1> USE DEF IInv
<1>1. /\ pc = "sample" /\ pc' = "idle" /\ out' = NoOutput
      /\ rows' = [i \in DOMAIN rows |-> IF reqIds[i + 1] \in partial THEN rows[i]
                                        ELSE [rows[i] EXCEPT !.len = rows[i].len + 1]]
      /\ cached' = [r \in DOMAIN cached |-> IF r \in ToSet(reqIds) \ partial
                                            THEN [cached[r] EXCEPT !.len = cached[r].len + 1]
                                            ELSE cached[r]]
      /\ UNCHANGED <<schedVars, backend, toAdd, reqIds, index, gens, mask, lora, loraIds,
                     builder, meta, procs>>
  BY DEF Sample
<1>2. RunType /\ RowType /\ ColumnType /\ ToldType /\ SchedType
  BY Types
<1>3. toAdd = <<>> /\ DOMAIN index = out.sched /\ finished = {}
  <2>1. Elems(<<>>) = {}
    BY DEF Elems
  <2> QED
    BY <2>1, <1>1 DEF ToAddInv, Late, OutInv
<1>4. ToSet(reqIds) = DOMAIN index
  <2>1. DOMAIN reqIds = 1 .. Len(reqIds)
    BY <1>2, ElemAt DEF RowType
  <2>2. \A k \in 1 .. Len(reqIds) : reqIds[k] \in DOMAIN index
    BY <1>1, NoGap
  <2>3. \A r \in DOMAIN index : \E k \in 1 .. Len(reqIds) : reqIds[k] = r
    BY OwnRow
  <2> QED
    BY <2>1, <2>2, <2>3 DEF ToSet
<1>5. ASSUME NEW r \in DOMAIN index
      PROVE  /\ r \in DOMAIN cached /\ rows[index[r]] = cached[r] /\ index[r] \in DOMAIN rows
             /\ cached[r] \in Entries /\ cached[r].len < MaxLen /\ reqIds[index[r] + 1] = r
             /\ status[r] = "running"
  <2>1. RowOf(r) /\ LateOf(r) /\ index[r] \in DOMAIN rows /\ reqIds[index[r] + 1] = r /\ r \in Req
    <3>1. r \in Req /\ index[r] \in DOMAIN rows /\ reqIds[index[r] + 1] = r
      BY OwnRow
    <3> QED
      BY <3>1, <1>1 DEF ContentInv, CacheInv, Late
  <2>2. r \in DOMAIN cached /\ cached[r] \in Entries
    BY <2>1, <1>2 DEF RowOf, RunType
  <2> QED
    BY <2>1, <2>2, <1>1, <1>3 DEF RowOf, LateOf, OutInv
<1>6. ASSUME NEW r \in DOMAIN index
      PROVE  /\ cached'[r] \in Entries /\ cached'[r].owner = cached[r].owner
             /\ cached'[r].blocks = cached[r].blocks
  <2>1. CASE r \in partial
    BY <2>1, <1>1, <1>5
  <2>2. CASE r \notin partial
    <3>1. PICK e, d : e = cached[r] /\ d = [e EXCEPT !.len = e.len + 1]
      OBVIOUS
    <3>2. cached'[r] = d
      BY <3>1, <2>2, <1>1, <1>4, <1>5
    <3>3. d \in Entries /\ d.owner = e.owner /\ d.blocks = e.blocks
      BY <3>1, <1>5, EntryLen
    <3> QED
      BY <3>1, <3>2, <3>3
  <2> QED
    BY <2>1, <2>2
<1>7. ASSUME NEW r \in DOMAIN index PROVE rows'[index[r]] = cached'[r]
  <2>1. rows'[index[r]] = IF r \in partial THEN cached[r] ELSE [cached[r] EXCEPT !.len = cached[r].len + 1]
    BY <1>1, <1>5
  <2>2. cached'[r] = IF r \in partial THEN cached[r] ELSE [cached[r] EXCEPT !.len = cached[r].len + 1]
    BY <1>1, <1>4, <1>5
  <2> QED
    BY <2>1, <2>2
<1>8. \A r \in DOMAIN cached \ DOMAIN index : cached'[r] = cached[r]
  BY <1>1, <1>4
<1>9. DOMAIN cached' = DOMAIN cached /\ DOMAIN rows' = DOMAIN rows
  BY <1>1
<1>10. ASSUME NEW i \in DOMAIN rows PROVE rows'[i] \in Entries /\ rows'[i].owner = rows[i].owner
  <2>1. PICK r \in DOMAIN index : i = index[r]
    BY OwnRow
  <2> QED
    BY <2>1, <1>5, <1>6, <1>7
<1>11. \A r \in DOMAIN cached : /\ cached'[r] \in Entries /\ cached'[r].owner = cached[r].owner
                                /\ cached'[r].blocks = cached[r].blocks
  <2> SUFFICES ASSUME NEW r \in DOMAIN cached, r \notin DOMAIN index PROVE cached'[r] \in Entries
    BY <1>6, <1>8
  <2>1. cached'[r] = cached[r]
    BY <1>8
  <2> QED
    BY <2>1, <1>2 DEF RunType
<1>12. TypeOK'
  <2>1. RunType'
    <3>1. NoOutput \in Outputs
      BY DEF NoOutput, Outputs, Blocks
    <3>2. cached' \in [DOMAIN cached -> Entries]
      <4>1. PICK z : z = cached'
        OBVIOUS
      <4>2. z = [r \in DOMAIN cached |-> z[r]]
        BY <4>1, <1>1
      <4> QED
        BY <4>1, <4>2, <1>11
    <3> QED
      BY <3>1, <3>2, <1>1, <1>2, <1>9 DEF RunType
  <2>2. RowType'
    <3>1. rows' \in [DOMAIN rows -> Entries]
      <4>1. PICK z : z = rows'
        OBVIOUS
      <4>2. z = [i \in DOMAIN rows |-> z[i]]
        BY <4>1, <1>1
      <4> QED
        BY <4>1, <4>2, <1>10
    <3>2. UNCHANGED <<reqIds, index>>
      BY <1>1
    <3> QED
      BY <3>1, <3>2, <1>2, <1>9 DEF RowType
  <2>3. ColumnType'
    BY <1>1, <1>2, <1>9 DEF ColumnType
  <2>4. ToldType'
    BY <1>1, ToldTypeFrame
  <2> QED
    BY <2>1, <2>2, <2>3, <2>4, <1>1, SchedTypeFrame, TypesNext
<1>13. OutInv' /\ ToAddInv'
  BY <1>1, <1>3 DEF OutInv, ToAddInv, Late
<1>14. CacheInv'
  <2> SUFFICES ASSUME NEW r \in Req PROVE StatusOf(r)' /\ IdleOf(r)'
    BY <1>1 DEF CacheInv, Early, Late
  <2>1. StatusOf(r) /\ LateOf(r) /\ UNCHANGED <<submits, status, alloc, finished, index>>
    BY <1>1 DEF CacheInv, Late, schedVars
  <2>2. StatusOf(r)'
    BY <2>1 DEF StatusOf
  <2>3. Fresh(r) => Fresh(r)'
    BY <2>1, <1>9, <1>11 DEF Fresh
  <2>4. IdleOf(r)'
    BY <2>1, <2>3, <1>3, <1>5, <1>9 DEF IdleOf, LateOf
  <2> QED
    BY <2>2, <2>4
<1>15. RowsInv' /\ AdapterInv'
  BY <1>1 DEF RowsInv, AdapterInv
<1>16. HolesInv'
  BY <1>1 DEF HolesInv
<1>17. ContentInv'
  <2>1. ASSUME NEW r \in DOMAIN index PROVE RowOf(r)'
    <3>1. RowOf(r) /\ UNCHANGED <<index, gens, lora>>
      BY <1>1 DEF ContentInv
    <3>2. rows'[index[r]].owner = rows[index[r]].owner
      BY <1>5, <1>10
    <3> QED
      BY <3>1, <3>2, <1>5, <1>7, <1>9 DEF RowOf
  <2> QED
    BY <2>1, <1>1, <1>9 DEF ContentInv
<1>18. BuilderInv'
  BY <1>1, <1>3 DEF BuilderInv
<1>19. MetaInv'
  BY <1>1, <1>9, <1>10 DEF MetaInv
<1>20. FollowInv'
  <2> SUFFICES ASSUME backend = "attention", NEW i \in Row PROVE Apply(builder)[i] = Occupant(i)'
    BY <1>1, ApplyNext DEF FollowInv
  <2>1. Apply(builder)[i] = Occupant(i)
    BY DEF FollowInv
  <2> QED
    BY <2>1, <1>9, <1>10 DEF Occupant
<1> QED
  BY <1>12, <1>13, <1>14, <1>15, <1>16, <1>17, <1>18, <1>19, <1>20

(* A step that changes nothing. *)
LEMMA StutterStep ==
  ASSUME IInv, UNCHANGED vars
  PROVE  IInv'
<1> USE DEF IInv
<1>1. UNCHANGED schedVars /\ UNCHANGED runVars /\ UNCHANGED rowVars /\ UNCHANGED <<pc, builder, meta, procs>>
  BY DEF vars
<1>2. /\ UNCHANGED <<submits, status, preempts, alloc, finished, backend, out, toAdd, cached>>
      /\ UNCHANGED <<reqIds, index, rows, gens, mask, lora, loraIds>>
  BY <1>1 DEF schedVars, runVars, rowVars
<1>3. TypeOK'
  <2>1. RunType'
    BY <1>1, <1>2, Types DEF RunType
  <2> QED
    BY <2>1, <1>1, SchedTypeFrame, RowTypeFrame, ToldTypeFrame, TypesNext
<1>4. OutInv' /\ ToAddInv' /\ RowsInv' /\ HolesInv'
  BY <1>1, <1>2 DEF OutInv, ToAddInv, RowsInv, HolesInv
<1>5. CacheInv'
  BY <1>1, <1>2 DEF CacheInv, StatusOf, IdleOf, EarlyOf, LateOf, Fresh, NewBlocks
<1>6. ContentInv' /\ AdapterInv' /\ BuilderInv' /\ MetaInv'
  BY <1>1, <1>2 DEF ContentInv, RowOf, AdapterInv, BuilderInv, MetaInv
<1>7. FollowInv'
  BY <1>1, <1>2, ApplyNext DEF FollowInv, Occupant
<1> QED
  BY <1>3, <1>4, <1>5, <1>6, <1>7

-----------------------------------------------------------------------------
(* Every step keeps the invariant. *)
LEMMA Invariant == Spec => []IInv
<1>1. IInv /\ [Next]_vars => IInv'
  <2> SUFFICES ASSUME IInv, [Next]_vars PROVE IInv'
    OBVIOUS
  <2>1. ASSUME NEW r \in Req, Submit(r) PROVE IInv'
    BY <2>1, SubmitStep
  <2>2. ASSUME NEW r \in Req, Finish(r) PROVE IInv'
    BY <2>2, FinishStep
  <2>3. ASSUME NEW S \in SUBSET Req, NEW long \in SUBSET S, NEW P \in SUBSET (Req \ S),
               Schedule(S, long, P)
        PROVE  IInv'
    BY <2>3, ScheduleStep
  <2>4. CASE UpdateStates
    BY <2>4, RemoveStep, UpdateStep, AddStep, CondenseStep, RefreshStep DEF UpdateStates
  <2>5. CASE ReorderBatch
    BY <2>5, ReorderStep
  <2>6. ASSUME NEW partial \in SUBSET out.long, Sample(partial) PROVE IInv'
    BY <2>6, SampleStep
  <2>7. CASE UNCHANGED vars
    BY <2>7, StutterStep
  <2> QED
    BY <2>1, <2>2, <2>3, <2>4, <2>5, <2>6, <2>7 DEF Next
<1> QED
  BY <1>1, InitIInv, PTL DEF Spec

(* Every variable keeps its type, whatever is submitted, scheduled,        *)
(* preempted, resumed and finished: no row, index, entry or move that      *)
(* InputBatch writes is out of its range.                                  *)
THEOREM TypeCorrect == Spec => []TypeOK
<1>1. IInv => TypeOK
  BY DEF IInv
<1> QED
  BY <1>1, Invariant, PTL

(* When _update_states ends, and when the batch has been reordered, it is  *)
(* what the scheduler asked for, in rows without a gap, and                *)
(* req_id_to_index is the inverse of req_ids.                              *)
THEOREM BatchCorrect == Spec => []BatchIsScheduled
<1>1. IInv => BatchIsScheduled
  <2> SUFFICES ASSUME IInv, Prepared PROVE BatchIsScheduled
    BY DEF BatchIsScheduled
  <2>1. pc \notin {"cached", "add"} /\ pc \in Late /\ pc # "add"
    BY DEF Prepared, Late
  <2>2. DOMAIN index = out.sched
    <3>1. Elems(<<>>) = {}
      BY DEF Elems
    <3> QED
      BY <3>1, <2>1 DEF IInv, ToAddInv
  <2>3. NumReqs = Len(reqIds)
    BY <2>1, NoGap
  <2>4. \A r \in DOMAIN index : index[r] < Len(reqIds) /\ reqIds[index[r] + 1] = r
    BY DEF IInv, RowsInv
  <2> QED
    BY <2>2, <2>3, <2>4 DEF BatchIsScheduled
<1> QED
  BY <1>1, Invariant, PTL

(* Each row of such a batch holds the state of the request now known by    *)
(* its id, with the blocks the scheduler has given it since it was last    *)
(* preempted.                                                              *)
THEOREM RowsCorrect == Spec => []RowsBelong
<1>1. IInv => RowsBelong
  <2> SUFFICES ASSUME IInv, Prepared, NEW r \in DOMAIN index
               PROVE  /\ rows[index[r]].owner = <<r, submits[r]>>
                      /\ rows[index[r]].len = cached[r].len
                      /\ rows[index[r]].blocks = alloc[r]
    BY DEF RowsBelong
  <2> USE DEF IInv
  <2>1. r \in Req /\ RowOf(r) /\ pc \in Late /\ pc # "add" /\ pc # "idle"
    BY OwnRow DEF Prepared, Late, ContentInv
  <2>2. status[r] = "running"
    <3>1. Elems(<<>>) = {}
      BY DEF Elems
    <3>2. r \in out.sched
      BY <3>1, <2>1 DEF ToAddInv
    <3> QED
      BY <3>2, <2>1 DEF OutInv
  <2>3. Fresh(r)
    BY <2>1, <2>2 DEF CacheInv, LateOf, Known
  <2> QED
    BY <2>1, <2>2, <2>3 DEF RowOf, Fresh
<1> QED
  BY <1>1, Invariant, PTL

(* The dictionaries keyed by row have an entry for the requests that have  *)
(* a generator of their own, and for no other row of such a batch.         *)
THEOREM GeneratorsCorrect == Spec => []GeneratorsBelong
<1>1. IInv => GeneratorsBelong
  <2> SUFFICES ASSUME IInv
               PROVE  gens = [i \in {index[r] : r \in Seeded \cap DOMAIN index} |-> rows[i].owner]
    BY DEF GeneratorsBelong
  <2> USE DEF IInv
  <2>1. DOMAIN gens \subseteq DOMAIN rows /\ \A r \in DOMAIN index : RowOf(r)
    BY DEF ContentInv
  <2>2. DOMAIN gens = {index[r] : r \in Seeded \cap DOMAIN index}
    <3>1. ASSUME NEW i \in DOMAIN gens PROVE \E r \in Seeded \cap DOMAIN index : i = index[r]
      <4>1. PICK r \in DOMAIN index : i = index[r]
        BY <2>1, OwnRow
      <4> QED
        BY <4>1, <2>1 DEF RowOf
    <3>2. ASSUME NEW r \in Seeded \cap DOMAIN index PROVE index[r] \in DOMAIN gens
      BY <2>1 DEF RowOf
    <3> QED
      BY <3>1, <3>2
  <2>3. \A i \in DOMAIN gens : gens[i] = rows[i].owner
    <3> SUFFICES ASSUME NEW i \in DOMAIN gens PROVE gens[i] = rows[i].owner
      OBVIOUS
    <3>1. PICK r \in Seeded \cap DOMAIN index : i = index[r]
      BY <2>2
    <3> QED
      BY <3>1, <2>1 DEF RowOf
  <2>4. gens = [i \in DOMAIN gens |-> gens[i]]
    BY Types DEF ColumnType
  <2> QED
    BY <2>2, <2>3, <2>4
<1> QED
  BY <1>1, Invariant, PTL

(* Each row of such a batch is mapped to its request's adapter, and the    *)
(* sets of requests of the active adapters are those of the batch.         *)
THEOREM AdaptersCorrect == Spec => []AdaptersBelong
<1>1. IInv => AdaptersBelong
  <2> SUFFICES ASSUME IInv
               PROVE  /\ \A r \in DOMAIN index : lora[index[r]] = Adapter[r]
                      /\ \A a \in DOMAIN loraIds \ {0} : loraIds[a] = {r \in DOMAIN index : Adapter[r] = a}
    BY DEF AdaptersBelong
  <2> USE DEF IInv
  <2>1. \A r \in DOMAIN index : lora[index[r]] = Adapter[r] /\ r \in Req
    BY OwnRow DEF ContentInv, RowOf
  <2>2. ASSUME NEW a \in DOMAIN loraIds, a # 0
        PROVE  loraIds[a] = {r \in DOMAIN index : Adapter[r] = a}
    <3>1. loraIds[a] \subseteq Req
      BY Types DEF ColumnType
    <3>2. \A r \in Req : r \in loraIds[a] <=> r \in DOMAIN index /\ Adapter[r] = a
      BY <2>2 DEF AdapterInv
    <3> QED
      BY <3>1, <3>2, <2>1
  <2> QED
    BY <2>1, <2>2
<1> QED
  BY <1>1, Invariant, PTL

(* With a backend that keeps the order, the sampler is given the           *)
(* parameters of the request in each row: refresh_metadata may leave the   *)
(* metadata alone when the builder is empty.                               *)
THEOREM SamplerCorrect == Spec => []SamplerFollows
<1>1. IInv => SamplerFollows
  <2> SUFFICES ASSUME IInv, backend = "attention", pc = "sample"
               PROVE  /\ DOMAIN meta = 0 .. NumReqs - 1
                      /\ \A i \in DOMAIN meta : meta[i].owner = rows[i].owner
    BY DEF SamplerFollows, SampledWithOwnParams
  <2>1. DOMAIN rows = 0 .. NumReqs - 1
    BY NoGap
  <2> USE DEF IInv
  <2>2. builder = EmptyBuilder
    <3>1. builder \in Builders
      BY Types DEF ToldType
    <3>2. builder.removed = {} /\ builder.added = <<>> /\ builder.moved = <<>>
      BY DEF HolesInv, BuilderInv
    <3> QED
      BY <3>1, <3>2, BuilderParts
  <2> QED
    BY <2>1, <2>2 DEF MetaInv
<1> QED
  BY <1>1, Invariant, PTL

(* With such a backend, the record of added, removed and moved rows is     *)
(* enough for the logits processors to follow the batch.                   *)
THEOREM ProcessorsCorrect == Spec => []UpdatesFollow
<1>1. IInv => UpdatesFollow
  <2> SUFFICES ASSUME IInv, backend = "attention", pc = "sample", NEW i \in Row
               PROVE  procs[i] = IF i < NumReqs THEN rows[i].owner ELSE Nobody
    BY DEF UpdatesFollow, ProcessorsFollow
  <2>1. DOMAIN rows = 0 .. NumReqs - 1 /\ NumReqs \in Nat
    BY NoGap
  <2> USE DEF IInv
  <2>2. builder.removed = {} /\ builder.added = <<>> /\ builder.moved = <<>>
    BY DEF HolesInv, BuilderInv
  <2>3. AddsTo(builder, i) = {}
    BY <2>2 DEF AddsTo
  <2>4. Apply(builder)[i] = procs[i]
    BY <2>2, <2>3, ApplyUnmoved DEF Told
  <2>5. procs[i] = Occupant(i)
    BY <2>4 DEF FollowInv
  <2>6. i \in DOMAIN rows <=> i < NumReqs
    BY <2>1, Sizes
  <2> QED
    BY <2>5, <2>6 DEF Occupant
<1> QED
  BY <1>1, Invariant, PTL
=============================================================================
