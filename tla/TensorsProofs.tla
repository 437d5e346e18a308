---------------------------- MODULE TensorsProofs ----------------------------
(***************************************************************************)
(* Facts about the operators on tensors, for tensors of any length.        *)
(***************************************************************************)
EXTENDS Tensors, RequestListsProofs

(* A list of n elements, of whatever kind. *)
IsList(s, n) == s = [i \in 1 .. n |-> s[i]]

-----------------------------------------------------------------------------
(* Recursive functions. *)

(* A value for each of 0 .. n, each made of the one before it.             *)
Follows(f, v0, h, n) ==
  f = [k \in 0 .. n |-> IF k = 0 THEN v0 ELSE h[<<f[k - 1], k>>]]

StepByStep(f, v0, h, n) == f[0] = v0 /\ \A k \in 1 .. n : f[k] = h[<<f[k - 1], k>>]

(* The shortest recursion that had no such function would be one step      *)
(* longer than one that has.                                               *)
LEMMA Recursion ==
  ASSUME NEW V, NEW n \in Nat, NEW v0 \in V, NEW h \in [V \X (1 .. n) -> V]
  PROVE  \E f \in [0 .. n -> V] : StepByStep(f, v0, h, n)
<1> DEFINE bad == {m \in 0 .. n : ~ \E f \in [0 .. m -> V] : Follows(f, v0, h, m)}
<1>1. bad = {}
  <2> SUFFICES ASSUME bad # {} PROVE FALSE
    OBVIOUS
  <2>1. bad \in SUBSET Nat
    OBVIOUS
  <2>2. PICK m \in bad : \A l \in bad : m <= l
    BY <2>1, LeastMember
  <2>3. m \in 0 .. n /\ ~ \E f \in [0 .. m -> V] : Follows(f, v0, h, m)
    OBVIOUS
  <2>4. m # 0
    <3>1. [k \in 0 .. 0 |-> v0] \in [0 .. 0 -> V]
      OBVIOUS
    <3>2. Follows([k \in 0 .. 0 |-> v0], v0, h, 0)
      BY DEF Follows
    <3> QED
      BY <3>1, <3>2, <2>3
  <2>5. m - 1 \in 0 .. n /\ m - 1 \notin bad
    <3>1. m - 1 \in 0 .. n /\ ~(m <= m - 1)
      BY <2>3, <2>4
    <3> HIDE DEF bad
    <3> QED
      BY <3>1, <2>2
  <2>6. PICK f \in [0 .. m - 1 -> V] : Follows(f, v0, h, m - 1)
    BY <2>5
  <2> DEFINE g == [k \in 0 .. m |-> IF k = m THEN h[<<f[m - 1], m>>] ELSE f[k]]
  <2>7. g \in [0 .. m -> V]
    <3>1. f[m - 1] \in V /\ m \in 1 .. n
      BY <2>3, <2>4
    <3>2. <<f[m - 1], m>> \in V \X (1 .. n)
      BY <3>1
    <3>3. h[<<f[m - 1], m>>] \in V
      BY <3>2
    <3>4. \A k \in 0 .. m : k # m => k \in 0 .. m - 1
      BY <2>3
    <3> QED
      BY <3>3, <3>4
  <2>8. Follows(g, v0, h, m)
    <3>1. ASSUME NEW k \in 0 .. m
          PROVE  g[k] = IF k = 0 THEN v0 ELSE h[<<g[k - 1], k>>]
      <4>1. CASE k = m
        <5>1. m - 1 \in 0 .. m /\ m - 1 # m
          BY <2>3, <2>4
        <5> QED
          BY <4>1, <5>1, <2>4
      <4>2. CASE k # m
        <5>1. k \in 0 .. m - 1 /\ (k # 0 => k - 1 \in 0 .. m /\ k - 1 # m /\ k - 1 \in 0 .. m - 1)
          BY <4>2, <2>3
        <5>2. f[k] = IF k = 0 THEN v0 ELSE h[<<f[k - 1], k>>]
          BY <5>1, <2>6 DEF Follows
        <5> QED
          BY <4>2, <5>1, <5>2
      <4> QED
        BY <4>1, <4>2
    <3>2. g = [k \in 0 .. m |-> IF k = 0 THEN v0 ELSE h[<<g[k - 1], k>>]]
      BY <3>1
    <3> HIDE DEF g
    <3> QED
      BY <3>2 DEF Follows
  <2> QED
    BY <2>3, <2>7, <2>8
<1>2. PICK f \in [0 .. n -> V] : Follows(f, v0, h, n)
  <2>1. n \in 0 .. n
    OBVIOUS
  <2> QED
    BY <1>1, <2>1
<1>3. f = [k \in 0 .. n |-> IF k = 0 THEN v0 ELSE h[<<f[k - 1], k>>]]
  BY <1>2 DEF Follows
<1>4. \A k \in 0 .. n : f[k] = IF k = 0 THEN v0 ELSE h[<<f[k - 1], k>>]
  BY <1>3
<1>5. 0 \in 0 .. n /\ \A k \in 1 .. n : k \in 0 .. n /\ k # 0
  OBVIOUS
<1>6. StepByStep(f, v0, h, n)
  BY <1>4, <1>5 DEF StepByStep
<1> QED
  BY <1>6

-----------------------------------------------------------------------------
(* Lists. *)

(* Listed gives the list that it is given. *)
LEMMA ListedSame ==
  ASSUME NEW n \in Nat, NEW s, IsList(s, n)
  PROVE  /\ Listed(s) = s /\ DOMAIN s = 1 .. n /\ Len(s) = n
         /\ s \in Seq({s[i] : i \in 1 .. n})
<1> DEFINE S == {s[i] : i \in 1 .. n}
<1>1. s \in [1 .. n -> S]
  BY DEF IsList
<1>2. s \in Seq(S)
  BY <1>1, SeqDef
<1>3. DOMAIN s = 1 .. n /\ DOMAIN s = 1 .. Len(s) /\ Len(s) \in Nat
  BY <1>1, <1>2, LenProperties
<1>4. Len(s) = n
  BY <1>3
<1> QED
  BY <1>2, <1>3, <1>4, ConcatEmptySeq DEF Listed

(* A list of a set is one. *)
LEMMA SeqIsList ==
  ASSUME NEW S, NEW s \in Seq(S)
  PROVE  Len(s) \in Nat /\ DOMAIN s = 1 .. Len(s) /\ IsList(s, Len(s))
BY LenProperties DEF IsList

-----------------------------------------------------------------------------
(* Sums. *)

(* off[i] is the sum of the first i counts. *)
Offsets(off, counts, n) ==
  /\ off \in [0 .. n -> Nat] /\ off[0] = 0
  /\ \A i \in 1 .. n : off[i] = off[i - 1] + counts[i]

(* A function made of sums is one of numbers. *)
LEMMA OffsetsOf ==
  ASSUME NEW n \in Nat, NEW counts \in [1 .. n -> Nat], NEW off, off = [i \in 0 .. n |-> off[i]],
         off[0] = 0, \A i \in 1 .. n : off[i] = off[i - 1] + counts[i]
  PROVE  Offsets(off, counts, n)
<1> DEFINE bad == {k \in 0 .. n : off[k] \notin Nat}
<1>1. bad = {}
  <2> SUFFICES ASSUME bad # {} PROVE FALSE
    OBVIOUS
  <2>1. bad \in SUBSET Nat
    OBVIOUS
  <2>2. PICK m \in bad : \A l \in bad : m <= l
    BY <2>1, LeastMember
  <2>3. m \in 1 .. n /\ off[m] \notin Nat
    OBVIOUS
  <2>4. m - 1 \in 0 .. n /\ m - 1 \notin bad
    <3>1. m - 1 \in 0 .. n /\ ~(m <= m - 1)
      BY <2>3
    <3> HIDE DEF bad
    <3> QED
      BY <3>1, <2>2
  <2>5. off[m - 1] \in Nat /\ counts[m] \in Nat
    BY <2>3, <2>4
  <2>6. off[m] = off[m - 1] + counts[m]
    BY <2>3
  <2>7. off[m] \in Nat
    BY <2>5, <2>6
  <2> QED
    BY <2>3, <2>7
<1> QED
  BY <1>1 DEF Offsets

(* Sums grow. *)
LEMMA OffsetsGrow ==
  ASSUME NEW n \in Nat, NEW counts \in [1 .. n -> Nat], NEW off, Offsets(off, counts, n),
         NEW i \in 0 .. n, NEW j \in i .. n
  PROVE  off[i] <= off[j]
<1> DEFINE bad == {k \in i .. n : ~(off[i] <= off[k])}
<1>0. off \in [0 .. n -> Nat]
  BY DEF Offsets
<1>1. bad = {}
  <2> SUFFICES ASSUME bad # {} PROVE FALSE
    OBVIOUS
  <2>1. bad \in SUBSET Nat
    OBVIOUS
  <2>2. PICK m \in bad : \A l \in bad : m <= l
    BY <2>1, LeastMember
  <2>3. m \in i .. n /\ m # i /\ ~(off[i] <= off[m])
    BY <1>0
  <2>4. m - 1 \in i .. n /\ m - 1 \notin bad
    <3>1. m - 1 \in i .. n /\ ~(m <= m - 1)
      BY <2>3
    <3> HIDE DEF bad
    <3> QED
      BY <3>1, <2>2
  <2>5. off[m] = off[m - 1] + counts[m] /\ m \in 1 .. n /\ off[m - 1] \in Nat /\ off[i] \in Nat
    BY <2>3, <2>4, <1>0 DEF Offsets
  <2>6. off[i] <= off[m - 1] /\ counts[m] \in Nat
    BY <2>4, <2>5
  <2> QED
    BY <2>3, <2>5, <2>6
<1> QED
  BY <1>1

(* Every place below the last sum lies in one of the parts. *)
LiesIn(p, counts, off, n) == \E i \in 1 .. n : \E k \in 1 .. counts[i] : p = off[i - 1] + k

LEMMA Located ==
  ASSUME NEW n \in Nat, NEW counts \in [1 .. n -> Nat], NEW off, Offsets(off, counts, n),
         NEW p \in 1 .. off[n]
  PROVE  LiesIn(p, counts, off, n)
<1> DEFINE reach == {i \in 0 .. n : p <= off[i]}
<1>0. off \in [0 .. n -> Nat] /\ off[0] = 0 /\ n \in 0 .. n
  BY DEF Offsets
<1>1. reach \in SUBSET Nat /\ reach # {}
  <2>1. p <= off[n]
    BY <1>0
  <2> QED
    BY <2>1, <1>0
<1>2. PICK m \in reach : \A l \in reach : m <= l
  BY <1>1, LeastMember
<1>3. m \in 1 .. n /\ p <= off[m]
  BY <1>0
<1>4. m - 1 \in 0 .. n /\ m - 1 \notin reach
  <2>1. m - 1 \in 0 .. n /\ ~(m <= m - 1)
    BY <1>3
  <2> HIDE DEF reach
  <2> QED
    BY <2>1, <1>2
<1>5. off[m - 1] < p /\ off[m] = off[m - 1] + counts[m] /\ off[m - 1] \in Nat /\ counts[m] \in Nat
  BY <1>0, <1>3, <1>4 DEF Offsets
<1>6. p - off[m - 1] \in 1 .. counts[m] /\ p = off[m - 1] + (p - off[m - 1])
  BY <1>3, <1>5
<1> QED
  BY <1>3, <1>6 DEF LiesIn

(* np.cumsum gives the sums. *)
LEMMA CumSumOffsets ==
  ASSUME NEW counts \in Seq(Nat)
  PROVE  \E off : /\ Offsets(off, counts, Len(counts))
                  /\ CumSum(counts) = [i \in 1 .. Len(counts) |-> off[i]]
                  /\ IsList(CumSum(counts), Len(counts))
<1>1. PICK n \in Nat : n = Len(counts)
  BY LenProperties
<1>2. counts \in [1 .. n -> Nat] /\ DOMAIN counts = 1 .. n
  BY <1>1, LenProperties
<1> DEFINE Eq(f) == f = [i \in DOMAIN counts |-> IF i = 1 THEN counts[1] ELSE f[i - 1] + counts[i]]
           cu == CHOOSE f : Eq(f)
           h == [p \in Nat \X (1 .. n) |-> p[1] + counts[p[2]]]
<1>3. \E f : Eq(f)
  <2>1. h \in [Nat \X (1 .. n) -> Nat]
    BY <1>2
  <2>2. \A v \in Nat, k \in 1 .. n : h[<<v, k>>] = v + counts[k]
    OBVIOUS
  <2> HIDE DEF h
  <2>3. PICK f \in [0 .. n -> Nat] : StepByStep(f, 0, h, n)
    <3>1. 0 \in Nat
      OBVIOUS
    <3> QED
      BY <3>1, <2>1, Recursion
  <2>4. f[0] = 0 /\ \A k \in 1 .. n : f[k] = f[k - 1] + counts[k]
    <3>1. \A k \in 1 .. n : f[k - 1] \in Nat
      BY <2>3
    <3> QED
      BY <3>1, <2>2, <2>3 DEF StepByStep
  <2> DEFINE g == [i \in 1 .. n |-> f[i]]
  <2>5. ASSUME NEW i \in 1 .. n
        PROVE  g[i] = IF i = 1 THEN counts[1] ELSE g[i - 1] + counts[i]
    <3>1. CASE i = 1
      BY <3>1, <2>4, <1>2
    <3>2. CASE i # 1
      <4>1. i - 1 \in 1 .. n
        BY <3>2
      <4> QED
        BY <3>2, <4>1, <2>4
    <3> QED
      BY <3>1, <3>2
  <2>6. g = [i \in 1 .. n |-> IF i = 1 THEN counts[1] ELSE g[i - 1] + counts[i]]
    BY <2>5
  <2> HIDE DEF g
  <2> QED
    BY <2>6, <1>2
<1>4. Eq(cu)
  BY <1>3
<1>5. CumSum(counts) = Listed(cu)
  BY DEF CumSum
<1> HIDE DEF cu
<1>6. IsList(cu, n) /\ \A i \in 1 .. n : cu[i] = IF i = 1 THEN counts[1] ELSE cu[i - 1] + counts[i]
  BY <1>2, <1>4 DEF IsList
<1> DEFINE off == [i \in 0 .. n |-> IF i = 0 THEN 0 ELSE cu[i]]
<1>7. ASSUME NEW i \in 1 .. n
      PROVE  off[i] = off[i - 1] + counts[i]
  <2>1. CASE i = 1
    <3>1. counts[1] \in Nat
      BY <2>1, <1>2
    <3> QED
      BY <2>1, <3>1, <1>6
  <2>2. CASE i # 1
    <3>1. i - 1 \in 1 .. n /\ i - 1 \in 0 .. n /\ i - 1 # 0 /\ i \in 0 .. n /\ i # 0
      BY <2>2
    <3> QED
      BY <2>2, <3>1, <1>6
  <2> QED
    BY <2>1, <2>2
<1>8. off[0] = 0 /\ off = [i \in 0 .. n |-> off[i]]
  BY DEF off
<1>9. Listed(cu) = cu /\ cu = [i \in 1 .. n |-> off[i]]
  <2>1. Listed(cu) = cu
    BY <1>6, ListedSame
  <2>2. cu = [i \in 1 .. n |-> cu[i]]
    BY <1>6 DEF IsList
  <2>3. \A i \in 1 .. n : off[i] = cu[i]
    OBVIOUS
  <2> HIDE DEF off
  <2> QED
    BY <2>1, <2>2, <2>3
<1> HIDE DEF off
<1>10. Offsets(off, counts, n)
  BY <1>2, <1>7, <1>8, OffsetsOf
<1> QED
  BY <1>1, <1>5, <1>6, <1>9, <1>10, ZenonT(40)

(* There is one list of sums. *)
LEMMA OffsetsUnique ==
  ASSUME NEW n \in Nat, NEW counts \in [1 .. n -> Nat], NEW f, NEW g,
         Offsets(f, counts, n), Offsets(g, counts, n)
  PROVE  f = g
<1> DEFINE bad == {k \in 0 .. n : f[k] # g[k]}
<1>0. f \in [0 .. n -> Nat] /\ g \in [0 .. n -> Nat]
  BY DEF Offsets
<1>1. bad = {}
  <2> SUFFICES ASSUME bad # {} PROVE FALSE
    OBVIOUS
  <2>1. bad \in SUBSET Nat
    OBVIOUS
  <2>2. PICK m \in bad : \A l \in bad : m <= l
    BY <2>1, LeastMember
  <2>3. m \in 1 .. n /\ f[m] # g[m]
    BY DEF Offsets
  <2>4. m - 1 \in 0 .. n /\ m - 1 \notin bad
    <3>1. m - 1 \in 0 .. n /\ ~(m <= m - 1)
      BY <2>3
    <3> HIDE DEF bad
    <3> QED
      BY <3>1, <2>2
  <2> QED
    BY <2>3, <2>4 DEF Offsets
<1>2. \A k \in 0 .. n : f[k] = g[k]
  BY <1>1
<1> QED
  BY <1>0, <1>2

-----------------------------------------------------------------------------
(* Lists of lists. *)

(* torch.cat and np.concatenate: the k-th element of the i-th list comes   *)
(* behind those of the lists before it.                                    *)
IsFlat(r, seqs, counts, off, n) ==
  \A i \in 1 .. n : \A k \in 1 .. counts[i] :
    off[i - 1] + k \in 1 .. off[n] /\ r[off[i - 1] + k] = seqs[i][k]

LEMMA Flattened ==
  ASSUME NEW n \in Nat, NEW seqs, IsList(seqs, n), NEW counts \in [1 .. n -> Nat],
         \A i \in 1 .. n : IsList(seqs[i], counts[i]),
         NEW off, Offsets(off, counts, n)
  PROVE  /\ IsList(FlattenSeq(seqs), off[n]) /\ Len(FlattenSeq(seqs)) = off[n]
         /\ IsFlat(FlattenSeq(seqs), seqs, counts, off, n)
<1> DEFINE S == UNION {{seqs[i][k] : k \in 1 .. counts[i]} : i \in 1 .. n}
<1>1. \A i \in 1 .. n : seqs[i] \in Seq(S) /\ Len(seqs[i]) = counts[i]
  <2> SUFFICES ASSUME NEW i \in 1 .. n PROVE seqs[i] \in Seq(S) /\ Len(seqs[i]) = counts[i]
    OBVIOUS
  <2>1. seqs[i] \in Seq({seqs[i][k] : k \in 1 .. counts[i]}) /\ Len(seqs[i]) = counts[i]
    BY ListedSame
  <2>2. {seqs[i][k] : k \in 1 .. counts[i]} \subseteq S
    OBVIOUS
  <2> QED
    BY <2>1, <2>2, SeqMonotonic
<1> HIDE DEF S
<1>2. Len(seqs) = n
  BY ListedSame
<1>3. off \in [0 .. n -> Nat] /\ off[0] = 0 /\ \A i \in 1 .. n : off[i] = off[i - 1] + counts[i]
  BY DEF Offsets
<1> DEFINE Eq(f) == f = [i \in 1 .. Len(seqs) |-> IF i = 1 THEN seqs[i] ELSE f[i - 1] \o seqs[i]]
           fl == CHOOSE f : Eq(f)
           h == [p \in Seq(S) \X (1 .. n) |-> p[1] \o seqs[p[2]]]
<1>4. \E f : Eq(f)
  <2>1. h \in [Seq(S) \X (1 .. n) -> Seq(S)]
    BY <1>1, ConcatProperties
  <2>2. \A v \in Seq(S), k \in 1 .. n : h[<<v, k>>] = v \o seqs[k]
    OBVIOUS
  <2> HIDE DEF h
  <2>3. PICK f \in [0 .. n -> Seq(S)] : StepByStep(f, <<>>, h, n)
    <3>1. <<>> \in Seq(S)
      BY EmptySeq
    <3> QED
      BY <3>1, <2>1, Recursion
  <2>4. f[0] = <<>> /\ \A k \in 1 .. n : f[k] = f[k - 1] \o seqs[k]
    <3>1. \A k \in 1 .. n : f[k - 1] \in Seq(S)
      BY <2>3
    <3> QED
      BY <3>1, <2>2, <2>3 DEF StepByStep
  <2> DEFINE g == [i \in 1 .. n |-> f[i]]
  <2>5. ASSUME NEW i \in 1 .. n
        PROVE  g[i] = IF i = 1 THEN seqs[i] ELSE g[i - 1] \o seqs[i]
    <3>1. CASE i = 1
      <4>0. 1 \in 1 .. n /\ 1 - 1 = 0
        BY <3>1
      <4>1. g[1] = <<>> \o seqs[1] /\ seqs[1] \in Seq(S)
        BY <4>0, <2>4, <1>1
      <4> QED
        BY <3>1, <4>1, ConcatEmptySeq
    <3>2. CASE i # 1
      <4>1. i - 1 \in 1 .. n
        BY <3>2
      <4> QED
        BY <3>2, <4>1, <2>4
    <3> QED
      BY <3>1, <3>2
  <2>6. g = [i \in 1 .. n |-> IF i = 1 THEN seqs[i] ELSE g[i - 1] \o seqs[i]]
    BY <2>5
  <2> HIDE DEF g
  <2> QED
    BY <2>6, <1>2
<1>5. Eq(fl)
  BY <1>4
<1>6. n # 0 => FlattenSeq(seqs) = fl[n]
  BY <1>2 DEF FlattenSeq
<1> HIDE DEF fl
<1>7. \A i \in 1 .. n : fl[i] = IF i = 1 THEN seqs[i] ELSE fl[i - 1] \o seqs[i]
  BY <1>5, <1>2
<1> DEFINE Good(m) == /\ fl[m] \in Seq(S) /\ Len(fl[m]) = off[m]
                      /\ \A i \in 1 .. m : \A k \in 1 .. counts[i] :
                           off[i - 1] + k \in 1 .. off[m] /\ fl[m][off[i - 1] + k] = seqs[i][k]
           bad == {m \in 1 .. n : ~Good(m)}
<1>8. bad = {}
  <2> SUFFICES ASSUME bad # {} PROVE FALSE
    OBVIOUS
  <2>1. bad \in SUBSET Nat
    OBVIOUS
  <2> HIDE DEF Good
  <2>2. PICK m \in bad : \A l \in bad : m <= l
    BY <2>1, LeastMember
  <2>3. m \in 1 .. n /\ ~Good(m)
    OBVIOUS
  <2>4. m # 1
    <3>1. ASSUME m = 1 PROVE Good(1)
      <4>1. 1 \in 1 .. n
        BY <2>3, <3>1
      <4>0. off[1] = off[1 - 1] + counts[1] /\ 1 - 1 = 0 /\ counts[1] \in Nat
        BY <4>1, <1>3
      <4>2. fl[1] = seqs[1] /\ off[1] = counts[1] /\ off[0] = 0 /\ counts[1] \in Nat
        BY <4>0, <4>1, <1>3, <1>7
      <4>3. fl[1] \in Seq(S) /\ Len(fl[1]) = off[1]
        BY <4>1, <4>2, <1>1
      <4>4. ASSUME NEW i \in 1 .. 1, NEW k \in 1 .. counts[i]
            PROVE  off[i - 1] + k \in 1 .. off[1] /\ fl[1][off[i - 1] + k] = seqs[i][k]
        <5>1. i = 1 /\ off[i - 1] + k = k
          BY <4>2
        <5> QED
          BY <4>2, <5>1
      <4> QED
        BY <4>3, <4>4 DEF Good
    <3> QED
      BY <3>1, <2>3
  <2>5. m - 1 \in 1 .. n /\ m - 1 \notin bad
    <3>1. m - 1 \in 1 .. n /\ ~(m <= m - 1)
      BY <2>3, <2>4
    <3> HIDE DEF bad
    <3> QED
      BY <3>1, <2>2
  <2>6. Good(m - 1)
    BY <2>5
  <2>7. /\ fl[m] = fl[m - 1] \o seqs[m] /\ off[m] = off[m - 1] + counts[m]
        /\ off[m - 1] \in Nat /\ counts[m] \in Nat
    <3>1. fl[m] = fl[m - 1] \o seqs[m]
      BY <2>3, <2>4, <1>7
    <3>2. off[m] = off[m - 1] + counts[m] /\ counts[m] \in Nat
      BY <2>3, <1>3
    <3>3. m - 1 \in 0 .. n
      BY <2>5
    <3> QED
      BY <3>1, <3>2, <3>3, <1>3
  <2>8. seqs[m] \in Seq(S) /\ Len(seqs[m]) = counts[m] /\ fl[m - 1] \in Seq(S) /\ Len(fl[m - 1]) = off[m - 1]
    BY <2>3, <2>6, <1>1 DEF Good
  <2>9. /\ fl[m] \in Seq(S) /\ Len(fl[m]) = off[m]
        /\ \A q \in 1 .. off[m] : fl[m][q] = IF q <= off[m - 1] THEN fl[m - 1][q] ELSE seqs[m][q - off[m - 1]]
    <3>1. /\ fl[m - 1] \o seqs[m] \in Seq(S)
          /\ Len(fl[m - 1] \o seqs[m]) = Len(fl[m - 1]) + Len(seqs[m])
          /\ \A q \in 1 .. Len(fl[m - 1]) + Len(seqs[m]) :
               (fl[m - 1] \o seqs[m])[q] = IF q <= Len(fl[m - 1]) THEN fl[m - 1][q]
                                           ELSE seqs[m][q - Len(fl[m - 1])]
      BY <2>8, ConcatProperties
    <3> QED
      BY <3>1, <2>7, <2>8
  <2>10. ASSUME NEW i \in 1 .. m, NEW k \in 1 .. counts[i]
         PROVE  off[i - 1] + k \in 1 .. off[m] /\ fl[m][off[i - 1] + k] = seqs[i][k]
    <3>1. CASE i = m
      <4>1. /\ off[m - 1] + k \in 1 .. off[m] /\ ~(off[m - 1] + k <= off[m - 1])
            /\ (off[m - 1] + k) - off[m - 1] = k
        BY <3>1, <2>7
      <4> QED
        BY <3>1, <4>1, <2>9
    <3>2. CASE i # m
      <4>1. i \in 1 .. m - 1
        BY <3>2, <2>3
      <4>2. off[i - 1] + k \in 1 .. off[m - 1] /\ fl[m - 1][off[i - 1] + k] = seqs[i][k]
        BY <4>1, <2>6 DEF Good
      <4>3. off[i - 1] + k \in 1 .. off[m] /\ off[i - 1] + k <= off[m - 1]
        BY <4>2, <2>7
      <4> QED
        BY <4>2, <4>3, <2>9
    <3> QED
      BY <3>1, <3>2
  <2> QED
    BY <2>3, <2>9, <2>10 DEF Good
<1>9. CASE n = 0
  <2>1. FlattenSeq(seqs) = seqs
    BY <1>9, <1>2 DEF FlattenSeq
  <2> QED
    BY <2>1, <1>2, <1>3, <1>9 DEF IsFlat
<1>10. CASE n # 0
  <2>1. n \in 1 .. n
    BY <1>10
  <2>2. Good(n)
    BY <2>1, <1>8
  <2>3. IsList(fl[n], off[n])
    BY <2>2, SeqIsList
  <2> QED
    BY <2>2, <2>3, <1>6, <1>10 DEF IsFlat
<1> QED
  BY <1>9, <1>10

(* np.repeat and torch.repeat_interleave. *)
RepeatsEach(r, s, counts, off, n) ==
  \A i \in 1 .. n : \A k \in 1 .. counts[i] :
    off[i - 1] + k \in 1 .. off[n] /\ r[off[i - 1] + k] = s[i]

LEMMA Repeated ==
  ASSUME NEW n \in Nat, NEW s, IsList(s, n), NEW counts \in [1 .. n -> Nat],
         NEW off, Offsets(off, counts, n)
  PROVE  /\ IsList(RepeatEach(s, counts), off[n]) /\ Len(RepeatEach(s, counts)) = off[n]
         /\ RepeatsEach(RepeatEach(s, counts), s, counts, off, n)
<1> DEFINE seqs == [i \in 1 .. n |-> [k \in 1 .. counts[i] |-> s[i]]]
<1>1. RepeatEach(s, counts) = FlattenSeq(seqs)
  BY ListedSame DEF RepeatEach
<1>2. IsList(seqs, n) /\ \A i \in 1 .. n : IsList(seqs[i], counts[i])
  BY DEF IsList
<1>3. \A i \in 1 .. n : \A k \in 1 .. counts[i] : seqs[i][k] = s[i]
  OBVIOUS
<1> HIDE DEF seqs
<1>4. /\ IsList(FlattenSeq(seqs), off[n]) /\ Len(FlattenSeq(seqs)) = off[n]
      /\ \A i \in 1 .. n : \A k \in 1 .. counts[i] :
           off[i - 1] + k \in 1 .. off[n] /\ FlattenSeq(seqs)[off[i - 1] + k] = seqs[i][k]
  BY <1>2, Flattened DEF IsFlat
<1> QED
  BY <1>1, <1>3, <1>4 DEF RepeatsEach

-----------------------------------------------------------------------------
(* Quotients and remainders. *)

LEMMA DivMod ==
  ASSUME NEW a \in Nat, NEW n \in Nat \ {0}
  PROVE  \E q \in Nat, r \in 0 .. n - 1 : a = n * q + r /\ q = a \div n /\ r = a % n
<1>1. PICK q \in Int, r \in 0 .. n - 1 : a = n * q + r /\ q = a \div n /\ r = a % n
  OBVIOUS
<1>2. a \div n \in Nat
  OBVIOUS
<1>3. q \in Nat
  BY <1>1, <1>2
<1> QED
  BY <1>1, <1>3

LEMMA ProductGrows ==
  ASSUME NEW n \in Nat \ {0}, NEW q \in Int, NEW r \in Int, q < r
  PROVE  n * q + n <= n * r
<1>1. PICK d \in Nat : r = q + 1 + d
  <2>1. r - q - 1 \in Nat /\ r = q + 1 + (r - q - 1)
    OBVIOUS
  <2> QED
    BY <2>1
<1>2. n * r = n * q + n + n * d
  BY <1>1
<1>3. n * d \in Nat /\ n * q \in Int
  OBVIOUS
<1> QED
  BY <1>2, <1>3

LEMMA DivModUnique ==
  ASSUME NEW n \in Nat \ {0}, NEW q \in Nat, NEW r \in 0 .. n - 1
  PROVE  n * q + r \in Nat /\ (n * q + r) \div n = q /\ (n * q + r) % n = r
<1>1. n * q \in Nat
  OBVIOUS
<1>2. PICK a \in Nat : a = n * q + r
  BY <1>1
<1>3. PICK p \in Nat, t \in 0 .. n - 1 : a = n * p + t /\ p = a \div n /\ t = a % n
  BY DivMod
<1>4. n * p \in Nat
  BY <1>3
<1>5. ~(p < q)
  <2>1. p < q => n * p + n <= n * q
    BY ProductGrows
  <2> QED
    BY <2>1, <1>1, <1>2, <1>3, <1>4
<1>6. ~(q < p)
  <2>1. q < p => n * q + n <= n * p
    BY ProductGrows
  <2> QED
    BY <2>1, <1>1, <1>2, <1>3, <1>4
<1>7. p = q
  BY <1>5, <1>6
<1> QED
  BY <1>1, <1>2, <1>3, <1>4, <1>7

LEMMA MinOfTwo ==
  ASSUME NEW a \in Nat, NEW b \in Nat
  PROVE  Min({a, b}) = IF a <= b THEN a ELSE b
<1>1. {a, b} \in SUBSET Nat /\ {a, b} # {}
  OBVIOUS
<1>2. Min({a, b}) \in {a, b} /\ \A k \in {a, b} : Min({a, b}) <= k
  BY <1>1, MinFacts
<1> QED
  BY <1>2

(* A row of w elements, read in tiles of T, the last one shorter. *)
InTiles(g, w, T) ==
  FlattenSeq([j \in 1 .. w \div T |-> [c \in 1 .. T |-> g[(j - 1) * T + c - 1]]])
    \o [c \in 1 .. w % T |-> g[(w \div T) * T + c - 1]]

LEMMA Tiled ==
  ASSUME NEW T \in Nat \ {0}, NEW w \in Nat, NEW g
  PROVE  InTiles(g, w, T) = [c \in 1 .. w |-> g[c - 1]]
<1>0. PICK V : \A c \in Nat : g[c] \in V
  <2>1. \A c \in Nat : g[c] \in {g[d] : d \in Nat}
    OBVIOUS
  <2> QED
    BY <2>1
<1>1. PICK q \in Nat, r \in 0 .. T - 1 : w = T * q + r /\ q = w \div T /\ r = w % T
  BY DivMod
<1>2. \A j \in Nat : j * T \in Nat /\ j * T = T * j
  OBVIOUS
<1> DEFINE seqs == [j \in 1 .. q |-> [c \in 1 .. T |-> g[(j - 1) * T + c - 1]]]
           counts == [j \in 1 .. q |-> T]
           off == [j \in 0 .. q |-> j * T]
           F == FlattenSeq(seqs)
           rest == [c \in 1 .. r |-> g[q * T + c - 1]]
<1>3. counts \in [1 .. q -> Nat]
  OBVIOUS
<1>4. Offsets(off, counts, q)
  <2>1. off \in [0 .. q -> Nat] /\ off[0] = 0
    BY <1>2
  <2>2. ASSUME NEW j \in 1 .. q PROVE off[j] = off[j - 1] + counts[j]
    <3>1. j - 1 \in 0 .. q /\ j \in 0 .. q /\ (j - 1) * T + T = j * T
      OBVIOUS
    <3> QED
      BY <3>1
  <2> QED
    BY <2>1, <2>2 DEF Offsets
<1>5. IsList(seqs, q) /\ \A j \in 1 .. q : IsList(seqs[j], counts[j])
  BY DEF IsList
<1>6. \A j \in 1 .. q : \A c \in 1 .. T : seqs[j][c] = g[(j - 1) * T + c - 1]
  OBVIOUS
<1>7. \A j \in 1 .. q : counts[j] = T /\ off[j - 1] = (j - 1) * T
  OBVIOUS
<1>8. off[q] = q * T /\ q * T \in Nat
  BY <1>2
<1> HIDE DEF seqs, counts, off
<1>9. /\ IsList(F, off[q]) /\ Len(F) = off[q]
      /\ \A j \in 1 .. q : \A c \in 1 .. counts[j] :
           off[j - 1] + c \in 1 .. off[q] /\ F[off[j - 1] + c] = seqs[j][c]
  BY <1>3, <1>4, <1>5, Flattened DEF IsFlat
<1> HIDE DEF F
<1>10. \A p \in 1 .. q * T : F[p] = g[p - 1]
  <2> SUFFICES ASSUME NEW p \in 1 .. q * T PROVE F[p] = g[p - 1]
    OBVIOUS
  <2>1. p \in 1 .. off[q]
    BY <1>8
  <2>2. PICK j \in 1 .. q : \E c \in 1 .. counts[j] : p = off[j - 1] + c
    BY <2>1, <1>3, <1>4, Located DEF LiesIn
  <2>3. PICK c \in 1 .. T : p = (j - 1) * T + c
    BY <2>2, <1>7
  <2>4. F[p] = seqs[j][c]
    BY <2>3, <1>7, <1>9
  <2>5. seqs[j][c] = g[(j - 1) * T + c - 1]
    BY <1>6
  <2>6. (j - 1) * T + c - 1 = p - 1
    BY <2>3
  <2> QED
    BY <2>4, <2>5, <2>6
<1>11. F \in Seq(V) /\ Len(F) = q * T
  <2>1. \A p \in 1 .. q * T : F[p] \in V
    <3> SUFFICES ASSUME NEW p \in 1 .. q * T PROVE F[p] \in V
      OBVIOUS
    <3>1. p - 1 \in Nat
      BY <1>8
    <3> QED
      BY <3>1, <1>0, <1>10
  <2>2. F = [p \in 1 .. q * T |-> F[p]]
    BY <1>8, <1>9 DEF IsList
  <2>3. F \in [1 .. q * T -> V]
    BY <2>1, <2>2
  <2> QED
    BY <2>3, <1>8, <1>9, SeqDef
<1>12. rest \in Seq(V) /\ Len(rest) = r /\ \A c \in 1 .. r : rest[c] = g[q * T + c - 1]
  <2>1. \A c \in 1 .. r : q * T + c - 1 \in Nat
    BY <1>8
  <2>0. \A c \in 1 .. r : g[q * T + c - 1] \in V
    BY <2>1, <1>0, Zenon
  <2>2. rest \in [1 .. r -> V] /\ r \in Nat
    <3>1. r \in Nat
      BY <1>1
    <3>2. rest \in [1 .. r -> V]
      BY <2>0, Zenon
    <3> QED
      BY <3>1, <3>2
  <2>3. rest \in Seq(V)
    <3> HIDE DEF rest
    <3> QED
      BY <2>2, SeqDef
  <2>4. IsList(rest, r)
    BY DEF IsList
  <2> QED
    BY <2>2, <2>3, <2>4, ListedSame
<1> HIDE DEF rest
<1>13. /\ F \o rest \in Seq(V) /\ Len(F \o rest) = q * T + r
       /\ \A p \in 1 .. q * T + r : (F \o rest)[p] = IF p <= q * T THEN F[p] ELSE rest[p - q * T]
  <2>1. /\ F \o rest \in Seq(V) /\ Len(F \o rest) = Len(F) + Len(rest)
        /\ \A p \in 1 .. Len(F) + Len(rest) :
             (F \o rest)[p] = IF p <= Len(F) THEN F[p] ELSE rest[p - Len(F)]
    BY <1>11, <1>12, ConcatProperties
  <2> QED
    BY <2>1, <1>11, <1>12
<1>14. PICK Q \in Nat : Q = q * T
  BY <1>8
<1>15. w = Q + r
  BY <1>1, <1>2, <1>14
<1>16. \A p \in 1 .. w : (F \o rest)[p] = g[p - 1]
  <2> SUFFICES ASSUME NEW p \in 1 .. w PROVE (F \o rest)[p] = g[p - 1]
    OBVIOUS
  <2>1. CASE p <= Q
    <3>1. p \in 1 .. Q
      BY <2>1
    <3>2. F[p] = g[p - 1]
      BY <3>1, <1>10, <1>14
    <3> QED
      BY <2>1, <3>2, <1>13, <1>14, <1>15
  <2>2. CASE ~(p <= Q)
    <3>1. p - Q \in 1 .. r /\ Q + (p - Q) - 1 = p - 1
      BY <2>2, <1>15
    <3>2. rest[p - Q] = g[Q + (p - Q) - 1]
      BY <3>1, <1>12, <1>14
    <3>3. (F \o rest)[p] = rest[p - Q]
      BY <2>2, <1>13, <1>14, <1>15
    <3> QED
      BY <3>1, <3>2, <3>3
  <2> QED
    BY <2>1, <2>2
<1>17. F \o rest = [p \in 1 .. w |-> (F \o rest)[p]]
  <2>1. F \o rest \in [1 .. w -> V]
    <3>1. Len(F \o rest) = w
      BY <1>13, <1>14, <1>15
    <3> QED
      BY <3>1, <1>13, LenProperties
  <2> QED
    BY <2>1
<1>18. F \o rest = [c \in 1 .. w |-> g[c - 1]]
  BY <1>16, <1>17
<1> QED
  BY <1>1, <1>18 DEF InTiles, F, seqs, rest

LEMMA Cancel ==
  ASSUME NEW n \in Nat \ {0}, NEW q \in Int, NEW r \in Int, n * q = n * r
  PROVE  q = r
<1>1. q < r => n * q + n <= n * r
  BY ProductGrows
<1>2. r < q => n * r + n <= n * q
  BY ProductGrows
<1>3. PICK a \in Int : a = n * q /\ a = n * r
  OBVIOUS
<1> QED
  BY <1>1, <1>2, <1>3

(* A multiple of n that is no negative number is n times a number. *)
LEMMA Multiple ==
  ASSUME NEW n \in Nat \ {0}, NEW u \in Int, n * u >= 0
  PROVE  u \in Nat
<1>1. u < 0 => n * u + n <= n * 0
  BY ProductGrows
<1>2. n * 0 = 0 /\ n * u \in Int
  OBVIOUS
<1> QED
  BY <1>1, <1>2

LEMMA Divides ==
  ASSUME NEW n \in Nat \ {0}, NEW a \in Nat, a % n = 0
  PROVE  \E q \in Nat : a = n * q /\ q = a \div n
<1>1. PICK q \in Nat, r \in 0 .. n - 1 : a = n * q + r /\ q = a \div n /\ r = a % n
  BY DivMod
<1>2. n * q \in Nat
  OBVIOUS
<1> QED
  BY <1>1, <1>2

-----------------------------------------------------------------------------
(* Element by element. *)

ArangeIs(r, n)       == IsList(r, n) /\ \A i \in 1 .. n : r[i] = i - 1
PlusIs(r, s, t, n)   == IsList(r, n) /\ \A i \in 1 .. n : r[i] = s[i] + t[i]
MinusIs(r, s, t, n)  == IsList(r, n) /\ \A i \in 1 .. n : r[i] = s[i] - t[i]
SelectIs(r, s, x, n) == IsList(r, n) /\ \A i \in 1 .. n : r[i] = s[x[i] + 1]

LEMMA ArangeAt ==
  ASSUME NEW n \in Nat
  PROVE  ArangeIs(ARange(n), n)
<1> DEFINE l == [i \in 1 .. n |-> i - 1]
<1>1. IsList(l, n)
  BY DEF IsList
<1>2. ARange(n) = l
  BY <1>1, ListedSame DEF ARange
<1> QED
  BY <1>1, <1>2 DEF ArangeIs

LEMMA PlusAt ==
  ASSUME NEW n \in Nat, NEW s, NEW t, IsList(s, n)
  PROVE  PlusIs(Plus(s, t), s, t, n)
<1> DEFINE l == [i \in 1 .. n |-> s[i] + t[i]]
<1>1. IsList(l, n)
  BY DEF IsList
<1>2. DOMAIN s = 1 .. n
  BY ListedSame
<1>3. Plus(s, t) = Listed(l)
  BY <1>2 DEF Plus
<1>4. \A i \in 1 .. n : l[i] = s[i] + t[i]
  OBVIOUS
<1> HIDE DEF l
<1> QED
  BY <1>1, <1>3, <1>4, ListedSame DEF PlusIs

LEMMA MinusAt ==
  ASSUME NEW n \in Nat, NEW s, NEW t, IsList(s, n)
  PROVE  MinusIs(Minus(s, t), s, t, n)
<1> DEFINE l == [i \in 1 .. n |-> s[i] - t[i]]
<1>1. IsList(l, n)
  BY DEF IsList
<1>2. DOMAIN s = 1 .. n
  BY ListedSame
<1>3. Minus(s, t) = Listed(l)
  BY <1>2 DEF Minus
<1>4. \A i \in 1 .. n : l[i] = s[i] - t[i]
  OBVIOUS
<1> HIDE DEF l
<1> QED
  BY <1>1, <1>3, <1>4, ListedSame DEF MinusIs

LEMMA SelectAt ==
  ASSUME NEW n \in Nat, NEW s, NEW x, IsList(x, n)
  PROVE  SelectIs(IndexSelect(s, x), s, x, n)
<1> DEFINE l == [i \in 1 .. n |-> s[x[i] + 1]]
<1>1. IsList(l, n)
  BY DEF IsList
<1>2. DOMAIN x = 1 .. n
  BY ListedSame
<1>3. IndexSelect(s, x) = Listed(l)
  BY <1>2 DEF IndexSelect, Get
<1>4. \A i \in 1 .. n : l[i] = s[x[i] + 1]
  OBVIOUS
<1> HIDE DEF l
<1> QED
  BY <1>1, <1>3, <1>4, ListedSame DEF SelectIs

(* The place that an element of a part has among all of them. *)
LEMMA PlaceIn ==
  ASSUME NEW n \in Nat, NEW counts \in [1 .. n -> Nat], NEW off, Offsets(off, counts, n),
         NEW i \in 1 .. n, NEW k \in 1 .. counts[i]
  PROVE  /\ off[i - 1] \in Nat /\ off[i] \in Nat /\ off[n] \in Nat /\ counts[i] \in Nat
         /\ off[i] = off[i - 1] + counts[i] /\ off[i] <= off[n]
         /\ off[i - 1] + k \in 1 .. off[n]
<1>1. off \in [0 .. n -> Nat] /\ off[i] = off[i - 1] + counts[i]
  BY DEF Offsets
<1>2. i - 1 \in 0 .. n /\ i \in 0 .. n /\ n \in i .. n
  OBVIOUS
<1>3. off[i] <= off[n]
  BY <1>2, OffsetsGrow
<1>4. PICK o \in Nat, w \in Nat, c \in Nat : o = off[i - 1] /\ w = off[n] /\ c = counts[i]
  BY <1>1, <1>2
<1>5. o + c <= w /\ k \in 1 .. c
  BY <1>1, <1>3, <1>4
<1>6. o + k \in 1 .. w
  BY <1>5
<1> QED
  BY <1>1, <1>2, <1>3, <1>4, <1>6

NextOffset(off, counts, i) == \E o, c \in Nat : o = off[i - 1] /\ c = counts[i] /\ off[i] = o + c

LEMMA OffsetAt ==
  ASSUME NEW n \in Nat, NEW counts \in [1 .. n -> Nat], NEW off, Offsets(off, counts, n),
         NEW i \in 1 .. n
  PROVE  NextOffset(off, counts, i)
<1>1. off \in [0 .. n -> Nat] /\ off[i] = off[i - 1] + counts[i]
  BY DEF Offsets
<1>2. i - 1 \in 0 .. n /\ counts[i] \in Nat
  OBVIOUS
<1>3. off[i - 1] \in Nat
  BY <1>1, <1>2
<1> QED
  BY <1>1, <1>2, <1>3 DEF NextOffset
=============================================================================
