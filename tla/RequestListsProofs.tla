-------------------------- MODULE RequestListsProofs --------------------------
(***************************************************************************)
(* Facts about lists of requests and sums over requests, for every list    *)
(* and every set of requests.                                              *)
(***************************************************************************)
EXTENDS RequestLists, SortedLists, FiniteSetsExt, FiniteSetTheorems, SequenceTheorems,
        WellFoundedInduction, TLAPS

Elems(s)     == {s[i] : i \in 1 .. Len(s)}
NoRepeats(s) == \A i, j \in 1 .. Len(s) : s[i] = s[j] => i = j

(* h picks the elements of t from s, in the order of s. *)
Picks(h, t, s) ==
  /\ h \in [1 .. Len(t) -> 1 .. Len(s)]
  /\ \A k \in 1 .. Len(t) : t[k] = s[h[k]] /\ h[k] >= k
  /\ \A k, l \in 1 .. Len(t) : k < l => h[k] < h[l]

PartOf(t, s) == \E h : Picks(h, t, s)

-----------------------------------------------------------------------------
(* Lists. *)

(* The deques and lists of the engine grow by append. *)
LEMMA AppendElems ==
  ASSUME NEW S, NEW s \in Seq(S), NEW e \in S
  PROVE  /\ Elems(Append(s, e)) = Elems(s) \cup {e}
         /\ NoRepeats(s) /\ e \notin Elems(s) => NoRepeats(Append(s, e))
<1>1. /\ Append(s, e) \in Seq(S)
      /\ Len(Append(s, e)) = Len(s) + 1 /\ Len(s) \in Nat
      /\ \A i \in 1 .. Len(s) : Append(s, e)[i] = s[i]
      /\ Append(s, e)[Len(s) + 1] = e
  BY AppendProperties, LenProperties
<1>2. 1 .. Len(s) + 1 = (1 .. Len(s)) \cup {Len(s) + 1}
  BY <1>1
<1> QED
  BY <1>1, <1>2 DEF Elems, NoRepeats

(* The element at a place. *)
LEMMA ElemAt ==
  ASSUME NEW S, NEW s \in Seq(S)
  PROVE  /\ Len(s) \in Nat /\ DOMAIN s = 1 .. Len(s)
         /\ \A i \in 1 .. Len(s) : s[i] \in S /\ s[i] \in Elems(s)
         /\ Elems(s) \subseteq S
         /\ s # <<>> => Len(s) >= 1
BY LenProperties, ElementOfSeq, EmptySeq DEF Elems

(* A part of a list keeps what the list has: no element twice, and order.  *)
LEMMA PartKeeps ==
  ASSUME NEW S, NEW s \in Seq(S), NEW t \in Seq(S), PartOf(t, s)
  PROVE  /\ Elems(t) \subseteq Elems(s)
         /\ NoRepeats(s) => NoRepeats(t)
         /\ Len(t) <= Len(s)
<1>1. PICK h : Picks(h, t, s)
  BY DEF PartOf
<1>2. Len(s) \in Nat /\ Len(t) \in Nat
  BY LenProperties
<1>3. \A k \in 1 .. Len(t) : h[k] \in 1 .. Len(s) /\ t[k] = s[h[k]] /\ h[k] >= k
  BY <1>1 DEF Picks
<1>4. Len(t) <= Len(s)
  <2>1. CASE Len(t) = 0
    BY <2>1, <1>2
  <2>2. CASE Len(t) # 0
    <3>1. Len(t) \in 1 .. Len(t)
      BY <2>2, <1>2
    <3> QED
      BY <3>1, <1>3, <1>2
  <2> QED
    BY <2>1, <2>2
<1>5. NoRepeats(s) => NoRepeats(t)
  <2> SUFFICES ASSUME NoRepeats(s),
                      NEW k \in 1 .. Len(t), NEW l \in 1 .. Len(t), t[k] = t[l]
               PROVE  k = l
    BY DEF NoRepeats
  <2>1. h[k] = h[l]
    BY <1>3 DEF NoRepeats
  <2>2. ~(k < l) /\ ~(l < k)
    BY <1>1, <2>1, <1>3, <1>2 DEF Picks
  <2> QED
    BY <2>2, <1>2
<1>6. Elems(t) \subseteq Elems(s)
  BY <1>3 DEF Elems
<1> QED
  BY <1>4, <1>5, <1>6

(* popleft: what is left when the first element is taken. *)
LEMMA TailPart ==
  ASSUME NEW S, NEW s \in Seq(S), s # <<>>
  PROVE  /\ Head(s) \in S /\ Head(s) = s[1] /\ 1 \in 1 .. Len(s) /\ Tail(s) \in Seq(S)
         /\ Len(Tail(s)) = Len(s) - 1
         /\ \A i \in 1 .. Len(Tail(s)) : Tail(s)[i] = s[i + 1] /\ i + 1 \in 1 .. Len(s)
         /\ PartOf(Tail(s), s)
         /\ Elems(s) = Elems(Tail(s)) \cup {Head(s)}
         /\ NoRepeats(s) => Head(s) \notin Elems(Tail(s))
<1>1. /\ Head(s) \in S /\ Head(s) = s[1] /\ Tail(s) \in Seq(S)
      /\ Len(s) \in Nat /\ Len(s) # 0 /\ Len(Tail(s)) = Len(s) - 1
      /\ \A i \in 1 .. Len(Tail(s)) : Tail(s)[i] = s[i + 1]
  BY HeadTailProperties, LenProperties, EmptySeq
<1>2. \A i \in 1 .. Len(Tail(s)) : i + 1 \in 1 .. Len(s) /\ i + 1 # 1
  BY <1>1
<1>3. PartOf(Tail(s), s)
  <2> DEFINE h == [i \in 1 .. Len(Tail(s)) |-> i + 1]
  <2>1. Picks(h, Tail(s), s)
    BY <1>1, <1>2 DEF Picks
  <2> QED
    BY <2>1 DEF PartOf
<1>4. Elems(s) = Elems(Tail(s)) \cup {Head(s)}
  <2>1. \A i \in 1 .. Len(s) : i = 1 \/ (i - 1 \in 1 .. Len(Tail(s)) /\ Tail(s)[i - 1] = s[i])
    BY <1>1
  <2>2. \A x \in Elems(s) : x \in Elems(Tail(s)) \cup {Head(s)}
    BY <1>1, <2>1 DEF Elems
  <2>3. \A x \in Elems(Tail(s)) : x \in Elems(s)
    BY <1>1, <1>2 DEF Elems
  <2>4. Head(s) \in Elems(s)
    BY <1>1 DEF Elems
  <2> QED
    BY <2>2, <2>3, <2>4
<1>5. 1 \in 1 .. Len(s)
  BY <1>1
<1>6. NoRepeats(s) => Head(s) \notin Elems(Tail(s))
  BY <1>1, <1>2, <1>5 DEF Elems, NoRepeats
<1> QED
  BY <1>1, <1>2, <1>3, <1>4, <1>5, <1>6

(* appendleft: an element in front of a list. *)
LEMMA PrependElems ==
  ASSUME NEW S, NEW s \in Seq(S), NEW e \in S
  PROVE  /\ <<e>> \o s \in Seq(S) /\ Len(<<e>> \o s) = Len(s) + 1 /\ Len(s) \in Nat
         /\ (<<e>> \o s)[1] = e
         /\ \A i \in 2 .. Len(s) + 1 : (<<e>> \o s)[i] = s[i - 1] /\ i - 1 \in 1 .. Len(s)
         /\ Elems(<<e>> \o s) = Elems(s) \cup {e}
         /\ NoRepeats(s) /\ e \notin Elems(s) => NoRepeats(<<e>> \o s)
<1> DEFINE t == <<e>> \o s
<1>1. <<e>> \in Seq(S) /\ Len(<<e>>) = 1 /\ <<e>>[1] = e /\ Len(s) \in Nat
  BY LenProperties
<1>2. /\ t \in Seq(S) /\ Len(t) = 1 + Len(s)
      /\ \A i \in 1 .. 1 + Len(s) : t[i] = IF i <= 1 THEN <<e>>[i] ELSE s[i - 1]
  BY <1>1, ConcatProperties
<1> HIDE DEF t
<1>3. /\ Len(t) = Len(s) + 1 /\ t[1] = e
      /\ \A i \in 2 .. Len(s) + 1 : t[i] = s[i - 1] /\ i - 1 \in 1 .. Len(s)
      /\ \A i \in 1 .. Len(s) : t[i + 1] = s[i] /\ i + 1 \in 1 .. Len(t)
  BY <1>1, <1>2
<1>4. \A i \in 1 .. Len(t) : i = 1 \/ i \in 2 .. Len(s) + 1
  BY <1>1, <1>3
<1>5. Elems(t) = Elems(s) \cup {e}
  <2>1. \A x \in Elems(t) : x \in Elems(s) \cup {e}
    BY <1>3, <1>4 DEF Elems
  <2>2. \A x \in Elems(s) : x \in Elems(t)
    BY <1>3 DEF Elems
  <2>3. 1 \in 1 .. Len(t)
    BY <1>1, <1>3
  <2>4. e \in Elems(t)
    BY <1>3, <2>3 DEF Elems
  <2> QED
    BY <2>1, <2>2, <2>4
<1>6. NoRepeats(s) /\ e \notin Elems(s) => NoRepeats(t)
  <2> SUFFICES ASSUME NoRepeats(s), e \notin Elems(s),
                      NEW i \in 1 .. Len(t), NEW j \in 1 .. Len(t), t[i] = t[j]
               PROVE  i = j
    BY DEF NoRepeats
  <2>1. \A k \in 2 .. Len(s) + 1 : t[k] # e
    BY <1>3 DEF Elems
  <2>2. CASE i \in 2 .. Len(s) + 1 /\ j \in 2 .. Len(s) + 1
    <3>1. i - 1 = j - 1
      BY <2>2, <1>3 DEF NoRepeats
    <3> QED
      BY <3>1, <2>2
  <2> QED
    BY <2>1, <2>2, <1>3, <1>4
<1> QED
  BY <1>1, <1>2, <1>3, <1>5, <1>6 DEF t

(* The number of elements of a list. *)
LEMMA ElemsFinite ==
  ASSUME NEW S, NEW s \in Seq(S)
  PROVE  IsFiniteSet(Elems(s)) /\ Cardinality(Elems(s)) <= Len(s)
<1> DEFINE f == [i \in 1 .. Len(s) |-> s[i]]
<1>1. Len(s) \in Nat
  BY LenProperties
<1>2. f \in Surjection(1 .. Len(s), Elems(s))
  BY DEF Surjection, Elems
<1>3. IsFiniteSet(1 .. Len(s)) /\ Cardinality(1 .. Len(s)) = Len(s)
  BY FS_Interval, <1>1, SMTT(40)
<1> QED
  BY <1>2, <1>3, FS_Surjection

(* A list without repetitions is no longer than the set it is taken from. *)
LEMMA NoRepeatsShort ==
  ASSUME NEW S, IsFiniteSet(S), NEW s \in Seq(S), NoRepeats(s)
  PROVE  Len(s) <= Cardinality(S)
<1> DEFINE f == [i \in 1 .. Len(s) |-> s[i]]
<1>1. Len(s) \in Nat /\ \A i \in 1 .. Len(s) : s[i] \in S
  BY ElemAt
<1>2. f \in Injection(1 .. Len(s), S)
  BY <1>1 DEF Injection, IsInjective, NoRepeats
<1>3. Cardinality(1 .. Len(s)) = Len(s)
  BY FS_Interval, <1>1
<1> QED
  BY <1>2, <1>3, FS_Injection

-----------------------------------------------------------------------------
(* remove_all and list.remove: a list without some of its elements. *)

(* The number of members of D up to j. *)
UpToPlace(D, j) == {k \in D : k <= j}
RankIn(D, j) == Cardinality(UpToPlace(D, j))

(* The places that are kept are numbered without gaps, in their order. *)
LEMMA Ranking ==
  ASSUME NEW n \in Nat, NEW D \in SUBSET (1 .. n)
  PROVE  /\ IsFiniteSet(D) /\ Cardinality(D) \in Nat
         /\ \A j \in D : RankIn(D, j) \in 1 .. Cardinality(D) /\ RankIn(D, j) <= j
         /\ \A j, l \in D : j < l => RankIn(D, j) < RankIn(D, l)
         /\ \A i \in 1 .. Cardinality(D) : \E j \in D : RankIn(D, j) = i
<1> DEFINE rank == [j \in D |-> RankIn(D, j)]
           c == Cardinality(D)
<1>0. \A j \in D : j \in 1 .. n
  OBVIOUS
<1>1. IsFiniteSet(D) /\ c \in Nat
  <2>1. IsFiniteSet(1 .. n)
    BY FS_Interval
  <2> QED
    BY <2>1, FS_Subset, FS_CardinalityType
<1>2. ASSUME NEW j \in D
      PROVE  /\ IsFiniteSet(UpToPlace(D, j)) /\ Cardinality(UpToPlace(D, j)) \in 1 .. c
             /\ Cardinality(UpToPlace(D, j)) <= j
  <2>1. UpToPlace(D, j) \in SUBSET D /\ j \in UpToPlace(D, j)
    BY <1>0 DEF UpToPlace
  <2>2. /\ IsFiniteSet(UpToPlace(D, j)) /\ Cardinality(UpToPlace(D, j)) \in Nat
        /\ Cardinality(UpToPlace(D, j)) <= c
    <3> QED
      BY <2>1, <1>1, FS_Subset, FS_CardinalityType
  <2>3. Cardinality(UpToPlace(D, j)) # 0
    <3> QED
      BY <2>1, <2>2, FS_EmptySet
  <2>4. Cardinality(UpToPlace(D, j)) <= j
    <3>1. UpToPlace(D, j) \in SUBSET (1 .. j)
      <4>1. \A k \in UpToPlace(D, j) : k \in 1 .. n /\ k <= j
        BY <1>0 DEF UpToPlace
      <4>2. \A k \in UpToPlace(D, j) : k \in 1 .. j
        BY <4>1, <1>0
      <4> QED
        BY <4>2
    <3>2. IsFiniteSet(1 .. j) /\ Cardinality(1 .. j) = j
      BY <1>0, FS_Interval
    <3> QED
      BY <3>1, <3>2, FS_Subset
  <2> QED
    BY <2>2, <2>3, <2>4, <1>1
<1>3. ASSUME NEW j \in D, NEW l \in D, j < l
      PROVE  Cardinality(UpToPlace(D, j)) < Cardinality(UpToPlace(D, l))
  <2>1. UpToPlace(D, j) \in SUBSET UpToPlace(D, l) /\ l \in UpToPlace(D, l) /\ l \notin UpToPlace(D, j)
    <3>1. \A k \in D : k \in 1 .. n /\ (k <= j => k <= l)
      BY <1>3, <1>0
    <3>2. \A k \in UpToPlace(D, j) : k \in UpToPlace(D, l)
      BY <3>1 DEF UpToPlace
    <3>3. l \in UpToPlace(D, l) /\ l \notin UpToPlace(D, j)
      BY <1>3, <1>0 DEF UpToPlace
    <3> QED
      BY <3>2, <3>3
  <2>2. /\ IsFiniteSet(UpToPlace(D, l))
        /\ Cardinality(UpToPlace(D, l)) \in Nat /\ Cardinality(UpToPlace(D, j)) \in Nat
    BY <1>2, <1>1
  <2>3. Cardinality(UpToPlace(D, j)) <= Cardinality(UpToPlace(D, l))
        /\ Cardinality(UpToPlace(D, j)) # Cardinality(UpToPlace(D, l))
    BY <2>1, <2>2, FS_Subset
  <2> QED
    BY <2>2, <2>3
<1>4. rank \in Injection(D, 1 .. c)
  <2>1. rank \in [D -> 1 .. c]
    BY <1>2 DEF RankIn
  <2>2. \A j, l \in D : rank[j] = rank[l] => j = l
    <3> SUFFICES ASSUME NEW j \in D, NEW l \in D, rank[j] = rank[l]
                 PROVE  j = l
      OBVIOUS
    <3>1. Cardinality(UpToPlace(D, j)) = Cardinality(UpToPlace(D, l))
      BY DEF RankIn
    <3>2. ~(j < l) /\ ~(l < j)
      BY <3>1, <1>3, <1>2
    <3> QED
      BY <3>2, <1>0
  <2> HIDE DEF rank
  <2> QED
    BY <2>1, <2>2 DEF Injection, IsInjective
<1>5. rank \in Surjection(D, 1 .. c)
  <2>1. IsFiniteSet(1 .. c) /\ Cardinality(1 .. c) = c
    BY <1>1, FS_Interval
  <2> HIDE DEF rank
  <2> QED
    BY <2>1, <1>4, FS_Injection
<1>6. \A i \in 1 .. c : \E j \in D : rank[j] = i
  <2> HIDE DEF rank
  <2> QED
    BY <1>5 DEF Surjection
<1>7. \A j \in D : RankIn(D, j) \in 1 .. c /\ RankIn(D, j) <= j
  BY <1>2 DEF RankIn
<1>8. \A j, l \in D : j < l => RankIn(D, j) < RankIn(D, l)
  BY <1>3 DEF RankIn
<1>9. \A i \in 1 .. c : \E j \in D : RankIn(D, j) = i
  BY <1>6
<1> QED
  BY <1>1, <1>7, <1>8, <1>9

(* What remains is a part of the list: its elements but those in R. *)
LEMMA WithoutPart ==
  ASSUME NEW S, NEW s \in Seq(S), NEW R
  PROVE  /\ Without(s, R) \in Seq(S)
         /\ PartOf(Without(s, R), s)
         /\ Elems(Without(s, R)) = Elems(s) \ R
<1> DEFINE D == Kept(s, R)
           c == Cardinality(D)
           rank == [j \in D |-> RankIn(D, j)]
           h == [i \in 1 .. c |-> CHOOSE j \in D : KeptUpTo(s, R, j) = i]
           t == Without(s, R)
<1>1. Len(s) \in Nat /\ DOMAIN s = 1 .. Len(s) /\ \A i \in 1 .. Len(s) : s[i] \in S
  BY ElemAt
<1>2. D \in SUBSET (1 .. Len(s)) /\ D = {j \in 1 .. Len(s) : s[j] \notin R}
  BY <1>1 DEF Kept
<1> HIDE DEF D
<1>3. /\ IsFiniteSet(D) /\ c \in Nat
      /\ \A j \in D : rank[j] \in 1 .. c /\ rank[j] <= j
      /\ \A j, l \in D : j < l => rank[j] < rank[l]
      /\ \A i \in 1 .. c : \E j \in D : rank[j] = i
  BY <1>1, <1>2, Ranking
<1>4. \A j \in D : rank[j] = KeptUpTo(s, R, j)
  BY DEF KeptUpTo, RankIn, UpToPlace, D
<1> HIDE DEF c, rank
<1>5. ASSUME NEW i \in 1 .. c
      PROVE  h[i] \in D /\ rank[h[i]] = i
  <2>1. \E j \in D : KeptUpTo(s, R, j) = i
    BY <1>3, <1>4
  <2>2. h[i] \in D /\ KeptUpTo(s, R, h[i]) = i
    BY <2>1
  <2> QED
    BY <2>2, <1>4
<1>6. t = [i \in 1 .. c |-> s[h[i]]]
  BY DEF Without, D, c
<1> HIDE DEF h, t
<1>7. \A i \in 1 .. c : h[i] \in 1 .. Len(s) /\ s[h[i]] \in S /\ s[h[i]] \notin R /\ h[i] >= i
  BY <1>5, <1>2, <1>1, <1>3
<1>8. t \in Seq(S) /\ Len(t) = c /\ \A i \in 1 .. c : t[i] = s[h[i]]
  BY <1>6, <1>7, <1>3
<1>9. PartOf(t, s)
  <2>1. \A k, l \in 1 .. c : k < l => h[k] < h[l]
    <3> SUFFICES ASSUME NEW k \in 1 .. c, NEW l \in 1 .. c, k < l
                 PROVE  h[k] < h[l]
      OBVIOUS
    <3>1. h[k] \in D /\ h[l] \in D /\ rank[h[k]] = k /\ rank[h[l]] = l
      BY <1>5
    <3>2. h[k] \in Int /\ h[l] \in Int
      BY <1>7
    <3>3. ~(h[l] < h[k]) /\ h[l] # h[k]
      BY <3>1, <1>3
    <3> QED
      BY <3>2, <3>3
  <2>2. h \in [1 .. Len(t) -> 1 .. Len(s)]
    BY <1>7, <1>8 DEF h
  <2> QED
    BY <2>1, <2>2, <1>7, <1>8, Zenon DEF PartOf, Picks
<1>10. Elems(t) = Elems(s) \ R
  <2>1. \A x \in Elems(t) : x \in Elems(s) \ R
    BY <1>7, <1>8 DEF Elems
  <2>2. ASSUME NEW j \in 1 .. Len(s), s[j] \notin R
        PROVE  s[j] \in Elems(t)
    <3>1. j \in D
      BY <2>2, <1>2
    <3>2. rank[j] \in 1 .. c /\ h[rank[j]] \in D /\ rank[h[rank[j]]] = rank[j]
      BY <3>1, <1>3, <1>5
    <3>3. ~(h[rank[j]] < j) /\ ~(j < h[rank[j]])
      BY <3>1, <3>2, <1>3, <1>7
    <3>4. h[rank[j]] = j
      BY <3>3, <3>2, <1>7, <1>2
    <3> QED
      BY <3>2, <3>4, <1>8 DEF Elems
  <2> QED
    BY <2>1, <2>2 DEF Elems
<1> QED
  BY <1>8, <1>9, <1>10 DEF t

-----------------------------------------------------------------------------
(* Sums. *)

(* The units that Total counts. *)
Units(f, R, n) == {rk \in R \X (1 .. n) : rk[2] <= f[rk[1]]}

(* A sum over finitely many requests is a number. *)
LEMMA TotalType ==
  ASSUME NEW R, IsFiniteSet(R), NEW n \in Nat, NEW f
  PROVE  /\ IsFiniteSet(Units(f, R, n))
         /\ Total(f, R, n) = Cardinality(Units(f, R, n)) /\ Total(f, R, n) \in Nat
<1>1. IsFiniteSet(1 .. n)
  BY FS_Interval
<1>2. IsFiniteSet(R \X (1 .. n))
  BY <1>1, FS_Product
<1>3. Units(f, R, n) \in SUBSET (R \X (1 .. n))
  BY DEF Units
<1>4. IsFiniteSet(Units(f, R, n)) /\ Cardinality(Units(f, R, n)) \in Nat
  BY <1>2, <1>3, FS_Subset, FS_CardinalityType
<1>5. Total(f, R, n) = Cardinality(Units(f, R, n))
  BY DEF Total, Units
<1> QED
  BY <1>4, <1>5

(* The sum of zeros is zero. *)
LEMMA TotalZero ==
  ASSUME NEW R, NEW n \in Nat, NEW f, \A r \in R : f[r] = 0
  PROVE  Total(f, R, n) = 0
<1>1. Units(f, R, n) = {}
  BY DEF Units
<1> QED
  BY <1>1, FS_EmptySet DEF Total, Units

(* A column of Units: k units of one request. *)
LEMMA Column ==
  ASSUME NEW r, NEW a \in Nat, NEW k \in Nat
  PROVE  /\ IsFiniteSet({r} \X (a + 1 .. a + k))
         /\ Cardinality({r} \X (a + 1 .. a + k)) = k
<1>1. IsFiniteSet(a + 1 .. a + k) /\ Cardinality(a + 1 .. a + k) = k
  BY FS_Interval
<1>2. IsFiniteSet({r}) /\ Cardinality({r}) = 1
  BY FS_Singleton
<1>3. IsFiniteSet({r} \X (a + 1 .. a + k)) /\ Cardinality({r} \X (a + 1 .. a + k)) = 1 * k
  BY <1>1, <1>2, FS_Product
<1> QED
  BY <1>3

(* Giving k more to one request adds k to the sum, and the sum is at least *)
(* what any request has.                                                   *)
LEMMA TotalAdd ==
  ASSUME NEW R, IsFiniteSet(R), NEW n \in Nat, NEW f \in [R -> 0 .. n],
         NEW r \in R, NEW k \in Nat, f[r] + k <= n,
         NEW g, g[r] = f[r] + k, \A q \in R \ {r} : g[q] = f[q]
  PROVE  /\ Total(g, R, n) = Total(f, R, n) + k
         /\ f[r] <= Total(f, R, n)
<1> DEFINE C == {r} \X (f[r] + 1 .. f[r] + k)
           B == {r} \X (0 + 1 .. 0 + f[r])
           U == Units(f, R, n)
           W == Units(g, R, n)
<1>0. f[r] \in Nat /\ 0 \in Nat
  OBVIOUS
<1>1. IsFiniteSet(C) /\ Cardinality(C) = k /\ IsFiniteSet(B) /\ Cardinality(B) = f[r]
  <2>1. \A a, m \in Nat : /\ IsFiniteSet({r} \X (a + 1 .. a + m))
                         /\ Cardinality({r} \X (a + 1 .. a + m)) = m
    BY Column
  <2>2. IsFiniteSet(C) /\ Cardinality(C) = k
    BY <1>0, <2>1
  <2>3. IsFiniteSet(B) /\ Cardinality(B) = f[r]
    BY <1>0, <2>1, Zenon
  <2> QED
    BY <2>2, <2>3
<1>2. /\ IsFiniteSet(U)
      /\ Total(f, R, n) = Cardinality(U) /\ Total(f, R, n) \in Nat
      /\ Total(g, R, n) = Cardinality(W)
  BY TotalType
<1>3. W = U \cup C /\ U \cap C = {}
  <2>1. ASSUME NEW x \in R, NEW m \in 1 .. n
        PROVE  /\ <<x, m>> \in W <=> <<x, m>> \in U \cup C
               /\ ~(<<x, m>> \in U /\ <<x, m>> \in C)
    <3>1. /\ <<x, m>> \in W <=> m <= g[x]
          /\ <<x, m>> \in U <=> m <= f[x]
          /\ <<x, m>> \in C <=> x = r /\ m \in f[r] + 1 .. f[r] + k
      BY DEF Units
    <3>2. g[x] = IF x = r THEN f[r] + k ELSE f[x]
      OBVIOUS
    <3> QED
      BY <3>1, <3>2, <1>0
  <2>2. W \subseteq R \X (1 .. n) /\ U \subseteq R \X (1 .. n)
        /\ C \subseteq R \X (1 .. n)
    BY DEF Units
  <2> HIDE DEF U, W, C
  <2> QED
    BY <2>1, <2>2
<1>4. B \subseteq U
  BY DEF Units
<1> HIDE DEF U, W, C, B
<1>5. Cardinality(U \cup C) = Cardinality(U) + k
  <2>1. Cardinality(U \cup C) = Cardinality(U) + Cardinality(C) - Cardinality(U \cap C)
    BY <1>1, <1>2, FS_Union
  <2>2. Cardinality(U \cap C) = 0
    BY <1>3, FS_EmptySet
  <2> QED
    BY <2>1, <2>2, <1>1, <1>2
<1>6. f[r] <= Cardinality(U)
  BY <1>1, <1>2, <1>4, FS_Subset
<1> QED
  BY <1>2, <1>3, <1>5, <1>6

(* What is taken from the requests in T is what the sum loses. *)
LEMMA TotalFreed ==
  ASSUME NEW R, IsFiniteSet(R), NEW n \in Nat, NEW f \in [R -> 0 .. n], NEW T \in SUBSET R
  PROVE  Total(f, R, n) = Total([r \in R |-> IF r \in T THEN 0 ELSE f[r]], R, n) + Total(f, T, n)
<1> DEFINE g == [r \in R |-> IF r \in T THEN 0 ELSE f[r]]
           U == Units(g, R, n)
           V == Units(f, T, n)
<1>1. IsFiniteSet(T)
  BY FS_Subset
<1>2. /\ IsFiniteSet(U) /\ IsFiniteSet(V)
      /\ Total(g, R, n) = Cardinality(U) /\ Total(g, R, n) \in Nat
      /\ Total(f, T, n) = Cardinality(V) /\ Total(f, T, n) \in Nat
      /\ Total(f, R, n) = Cardinality(Units(f, R, n))
  BY <1>1, TotalType
<1>3. Units(f, R, n) = U \cup V /\ U \cap V = {}
  <2>1. ASSUME NEW x \in R, NEW m \in 1 .. n
        PROVE  /\ <<x, m>> \in Units(f, R, n) <=> <<x, m>> \in U \cup V
               /\ ~(<<x, m>> \in U /\ <<x, m>> \in V)
    BY DEF Units
  <2>2. Units(f, R, n) \subseteq R \X (1 .. n) /\ U \subseteq R \X (1 .. n)
        /\ V \subseteq R \X (1 .. n)
    BY DEF Units
  <2> HIDE DEF U, V
  <2> QED
    BY <2>1, <2>2
<1> HIDE DEF U, V, g
<1>4. Cardinality(U \cup V) = Cardinality(U) + Cardinality(V) - Cardinality(U \cap V)
  BY <1>2, FS_Union
<1>5. Cardinality(U \cap V) = 0
  BY <1>3, FS_EmptySet
<1> QED
  BY <1>2, <1>3, <1>4, <1>5 DEF g
-----------------------------------------------------------------------------
(* Numbers in order. *)

(* min(...) of anything is its least member. *)
LEMMA LeastMember ==
  ASSUME NEW S \in SUBSET Nat, S # {}
  PROVE  \E m \in S : \A k \in S : m <= k
<1>1. PICK x \in S : \A y \in S : ~(<<y, x>> \in OpToRel(<, Nat))
  BY NatLessThanWellFounded, WFMin
<1>2. \A y \in S : ~(y < x)
  BY <1>1 DEF OpToRel
<1> QED
  BY <1>2

(* min, as the batch and the padding to a graph use it. *)
LEMMA MinFacts ==
  ASSUME NEW S \in SUBSET Nat, S # {}
  PROVE  Min(S) \in S /\ \A k \in S : Min(S) <= k
BY LeastMember DEF Min

(* A finite list of numbers has a bound: the shortest one that has none    *)
(* would be one longer than a list that has.                               *)
LEMMA Bounded ==
  ASSUME NEW S \in SUBSET Nat, IsFiniteSet(S)
  PROVE  \E n \in Nat : \A k \in S : k <= n
<1>1. PICK f : f \in Bijection(1 .. Cardinality(S), S)
  BY FS_CardinalityType DEF ExistsBijection
<1> DEFINE c == Cardinality(S)
           bound(k, n) == \A i \in 1 .. k : f[i] <= n
           bad == {k \in 0 .. c : ~ \E n \in Nat : bound(k, n)}
<1>2. c \in Nat
  BY FS_CardinalityType
<1>3. f \in [1 .. c -> S] /\ \A s \in S : \E i \in 1 .. c : f[i] = s
  BY <1>1 DEF Bijection, Surjection
<1> HIDE DEF c
<1>4. bad = {}
  <2> SUFFICES ASSUME bad # {} PROVE FALSE
    OBVIOUS
  <2>1. bad \in SUBSET Nat
    BY <1>2
  <2>2. PICK k \in bad : \A l \in bad : k <= l
    BY <2>1, LeastMember
  <2>3. k \in 0 .. c /\ ~ \E n \in Nat : bound(k, n)
    OBVIOUS
  <2>4. k # 0
    <3>1. bound(0, 0)
      OBVIOUS
    <3> QED
      BY <3>1, <2>3
  <2>5. k - 1 \in 0 .. c /\ k - 1 \notin bad
    <3>1. k \in Nat /\ k <= c /\ k - 1 \in 0 .. c /\ ~(k <= k - 1)
      BY <2>3, <2>4, <1>2
    <3> HIDE DEF bad
    <3> QED
      BY <2>2, <3>1
  <2>6. PICK n \in Nat : bound(k - 1, n)
    BY <2>5
  <2>7. f[k] \in Nat
    <3>1. k \in 1 .. c
      BY <2>3, <2>4, <1>2
    <3> QED
      BY <3>1, <1>3
  <2>8. PICK m \in Nat : n <= m /\ f[k] <= m
    <3>1. \A x, y \in Nat : \E z \in Nat : x <= z /\ y <= z
      <4> SUFFICES ASSUME NEW x \in Nat, NEW y \in Nat
                   PROVE  \E z \in Nat : x <= z /\ y <= z
        OBVIOUS
      <4>1. x + y \in Nat /\ x <= x + y /\ y <= x + y
        OBVIOUS
      <4> QED
        BY <4>1
    <3> QED
      BY <3>1, <2>7
  <2>9. bound(k, m)
    <3> SUFFICES ASSUME NEW i \in 1 .. k PROVE f[i] <= m
      OBVIOUS
    <3>1. CASE i = k
      BY <3>1, <2>8
    <3>2. CASE i # k
      <4>1. i \in 1 .. k - 1 /\ i \in 1 .. c
        BY <3>2, <2>3, <1>2
      <4>2. f[i] \in Nat
        BY <4>1, <1>3
      <4> QED
        BY <4>1, <4>2, <2>6, <2>8
    <3> QED
      BY <3>1, <3>2
  <2> QED
    BY <2>3, <2>9
<1>5. PICK n \in Nat : bound(c, n)
  BY <1>4, <1>2
<1> QED
  BY <1>3, <1>5

(* max, as the padding over the ranks uses it. *)
LEMMA MaxFacts ==
  ASSUME NEW S \in SUBSET Nat, IsFiniteSet(S), S # {}
  PROVE  Max(S) \in S /\ \A k \in S : Max(S) >= k
<1> DEFINE ub == {n \in Nat : \A k \in S : k <= n}
<1>1. ub \in SUBSET Nat /\ ub # {}
  BY Bounded
<1>2. PICK m \in ub : \A n \in ub : m <= n
  BY <1>1, LeastMember
<1>3. m \in Nat /\ \A k \in S : k <= m
  OBVIOUS
<1>4. m \in S
  <2> SUFFICES ASSUME m \notin S PROVE FALSE
    OBVIOUS
  <2>1. \A k \in S : k \in Nat /\ k <= m - 1
    BY <1>3
  <2>2. m - 1 \in Nat
    <3>1. PICK k \in S : k \in Nat /\ k <= m - 1
      BY <2>1
    <3> QED
      BY <3>1, <1>3
  <2>3. m - 1 \in ub
    BY <2>1, <2>2
  <2> QED
    BY <2>3, <1>2, <1>3
<1>5. \E x \in S : \A y \in S : x >= y
  BY <1>3, <1>4
<1> QED
  BY <1>5 DEF Max

(* sorted(...) lists every member once, in ascending order. *)
LEMMA AscendingList ==
  ASSUME NEW S \in SUBSET Nat, IsFiniteSet(S)
  PROVE  /\ Ascending(S) \in Seq(S) /\ Len(Ascending(S)) = Cardinality(S)
         /\ Elems(Ascending(S)) = S /\ NoRepeats(Ascending(S))
         /\ \A i, j \in 1 .. Len(Ascending(S)) : i < j => Ascending(S)[i] < Ascending(S)[j]
<1> DEFINE c == Cardinality(S)
           L == Ascending(S)
<1>1. PICK n \in Nat : \A k \in S : k <= n
  BY Bounded
<1> DEFINE D == {k + 1 : k \in S}
<1>2. D \in SUBSET (1 .. n + 1)
  BY <1>1
<1>3. \A k \in S : Cardinality({t \in S : t <= k}) = RankIn(D, k + 1)
  <2> SUFFICES ASSUME NEW k \in S
               PROVE  Cardinality({t \in S : t <= k}) = Cardinality(UpToPlace(D, k + 1))
    BY DEF RankIn
  <2> DEFINE A == {t \in S : t <= k}
             g == [t \in A |-> t + 1]
  <2>1. IsFiniteSet(A)
    BY FS_Subset
  <2>2. g \in Bijection(A, UpToPlace(D, k + 1))
    <3>1. \A t \in A : g[t] \in UpToPlace(D, k + 1)
      BY DEF UpToPlace
    <3>2. \A t, u \in A : g[t] = g[u] => t = u
      OBVIOUS
    <3>3. \A d \in UpToPlace(D, k + 1) : \E t \in A : g[t] = d
      BY DEF UpToPlace
    <3> HIDE DEF g, A
    <3>4. g \in [A -> UpToPlace(D, k + 1)]
      BY <3>1 DEF g
    <3> QED
      BY <3>2, <3>3, <3>4 DEF Bijection, Injection, Surjection, IsInjective
  <2> HIDE DEF g, A, D
  <2>3. Cardinality(UpToPlace(D, k + 1)) = Cardinality(A)
    BY <2>1, <2>2, FS_Bijection DEF ExistsBijection
  <2> QED
    BY <2>3 DEF A
<1>4. Cardinality(D) = c
  <2> DEFINE g == [t \in S |-> t + 1]
  <2>1. g \in Bijection(S, D)
    BY DEF Bijection, Injection, Surjection, IsInjective
  <2> HIDE DEF g, D
  <2> QED
    BY <2>1, FS_Bijection DEF ExistsBijection
<1>5. /\ c \in Nat
      /\ \A k \in S : RankIn(D, k + 1) \in 1 .. c
      /\ \A k, l \in S : k < l => RankIn(D, k + 1) < RankIn(D, l + 1)
      /\ \A i \in 1 .. c : \E k \in S : RankIn(D, k + 1) = i
  <2>1. /\ Cardinality(D) \in Nat
        /\ \A j \in D : RankIn(D, j) \in 1 .. Cardinality(D)
        /\ \A j, l \in D : j < l => RankIn(D, j) < RankIn(D, l)
        /\ \A i \in 1 .. Cardinality(D) : \E j \in D : RankIn(D, j) = i
    <3>1. n + 1 \in Nat
      OBVIOUS
    <3> HIDE DEF D
    <3> QED
      BY <3>1, <1>2, Ranking
  <2>2. \A k \in S : k + 1 \in D
    OBVIOUS
  <2>3. \A k, l \in S : k < l => k + 1 < l + 1
    OBVIOUS
  <2>4. \A j \in D : \E k \in S : j = k + 1
    OBVIOUS
  <2> HIDE DEF D
  <2> QED
    BY <2>1, <2>2, <2>3, <2>4, <1>4
<1> DEFINE rank(k) == Cardinality({t \in S : t <= k})
<1>6. /\ \A k \in S : rank(k) \in 1 .. c
      /\ \A k, l \in S : k < l => rank(k) < rank(l)
      /\ \A i \in 1 .. c : \E k \in S : rank(k) = i
  <2> HIDE DEF D
  <2> QED
    BY <1>3, <1>5
<1>7. L = [i \in 1 .. c |-> CHOOSE s \in S : rank(s) = i]
  BY DEF Ascending
<1> HIDE DEF L, rank, c
<1>8. \A i \in 1 .. c : L[i] \in S /\ rank(L[i]) = i
  BY <1>6, <1>7
<1>9. L \in Seq(S) /\ Len(L) = c
  <2>1. L = [i \in 1 .. c |-> L[i]]
    BY <1>7
  <2> QED
    BY <2>1, <1>5, <1>8, IsASeq
<1>10. \A i, j \in 1 .. c : i < j => L[i] < L[j]
  <2> SUFFICES ASSUME NEW i \in 1 .. c, NEW j \in 1 .. c, i < j PROVE L[i] < L[j]
    OBVIOUS
  <2>1. L[i] \in Nat /\ L[j] \in Nat /\ L[i] # L[j]
    <3>1. rank(L[i]) = i /\ rank(L[j]) = j /\ i # j
      BY <1>8, <1>5
    <3>2. L[i] \in S /\ L[j] \in S
      BY <1>8
    <3> QED
      BY <3>1, <3>2
  <2>2. ~(L[j] < L[i])
    <3>1. L[j] < L[i] => rank(L[j]) < rank(L[i])
      BY <1>6, <1>8
    <3> QED
      BY <3>1, <1>8, <1>5
  <2> QED
    BY <2>1, <2>2
<1>11. Elems(L) = S
  <2>1. \A k \in S : \E i \in 1 .. c : L[i] = k
    <3> SUFFICES ASSUME NEW k \in S PROVE \E i \in 1 .. c : L[i] = k
      OBVIOUS
    <3>1. rank(k) \in 1 .. c
      BY <1>6
    <3> DEFINE i == rank(k)
    <3>2. L[i] \in S /\ rank(L[i]) = i
      BY <3>1, <1>8
    <3>3. ~(L[i] < k) /\ ~(k < L[i])
      <4>1. L[i] < k => rank(L[i]) < rank(k)
        BY <3>2, <1>6
      <4>2. k < L[i] => rank(k) < rank(L[i])
        BY <3>2, <1>6
      <4>3. rank(k) \in Int /\ rank(L[i]) = rank(k)
        BY <3>1, <3>2, <1>5
      <4> QED
        BY <4>1, <4>2, <4>3
    <3>4. L[i] = k
      <4>1. L[i] \in Nat /\ k \in Nat
        BY <3>2
      <4> HIDE DEF i
      <4> QED
        BY <4>1, <3>3
    <3> QED
      BY <3>1, <3>4
  <2> QED
    BY <2>1, <1>8, <1>9 DEF Elems
<1>12. NoRepeats(L)
  <2> SUFFICES ASSUME NEW i \in 1 .. c, NEW j \in 1 .. c, L[i] = L[j] PROVE i = j
    BY <1>9 DEF NoRepeats
  <2>1. rank(L[i]) = i /\ rank(L[j]) = j
    BY <1>8
  <2> QED
    BY <2>1
<1> QED
  BY <1>9, <1>10, <1>11, <1>12 DEF L, c

(* Two lists joined. *)
LEMMA JoinElems ==
  ASSUME NEW S, NEW s \in Seq(S), NEW t \in Seq(S)
  PROVE  /\ s \o t \in Seq(S) /\ Elems(s \o t) = Elems(s) \cup Elems(t)
         /\ NoRepeats(s) /\ NoRepeats(t) /\ Elems(s) \cap Elems(t) = {} => NoRepeats(s \o t)
<1>1. PICK m \in Nat, n \in Nat : m = Len(s) /\ n = Len(t)
  BY LenProperties
<1>2. /\ s \o t \in Seq(S) /\ Len(s \o t) = m + n
      /\ \A i \in 1 .. m + n : (s \o t)[i] = IF i <= m THEN s[i] ELSE t[i - m]
  BY <1>1, ConcatProperties
<1>3. PICK u : u = s \o t
  OBVIOUS
<1>4. \A i \in 1 .. m : i \in 1 .. m + n /\ u[i] = s[i]
  BY <1>2, <1>3
<1>5. \A i \in 1 .. n : m + i \in 1 .. m + n /\ u[m + i] = t[i]
  <2> SUFFICES ASSUME NEW i \in 1 .. n PROVE m + i \in 1 .. m + n /\ u[m + i] = t[i]
    OBVIOUS
  <2>1. m + i \in 1 .. m + n /\ ~(m + i <= m) /\ (m + i) - m = i
    OBVIOUS
  <2> QED
    BY <2>1, <1>2, <1>3
<1>6. \A i \in 1 .. m + n : i \in 1 .. m \/ \E j \in 1 .. n : i = m + j
  <2> SUFFICES ASSUME NEW i \in 1 .. m + n, i \notin 1 .. m PROVE \E j \in 1 .. n : i = m + j
    OBVIOUS
  <2>1. i - m \in 1 .. n /\ i = m + (i - m)
    OBVIOUS
  <2> QED
    BY <2>1
<1>7. Elems(u) = Elems(s) \cup Elems(t)
  <2>1. /\ Elems(u) = {u[i] : i \in 1 .. m + n}
        /\ Elems(s) = {s[i] : i \in 1 .. m} /\ Elems(t) = {t[i] : i \in 1 .. n}
    BY <1>1, <1>2, <1>3 DEF Elems
  <2>2. Elems(u) \subseteq Elems(s) \cup Elems(t)
    <3> SUFFICES ASSUME NEW i \in 1 .. m + n PROVE u[i] \in Elems(s) \cup Elems(t)
      BY <2>1
    <3>1. CASE i \in 1 .. m
      BY <3>1, <2>1, <1>4
    <3>2. CASE i \notin 1 .. m
      <4>1. PICK j \in 1 .. n : i = m + j
        BY <3>2, <1>6
      <4> QED
        BY <4>1, <2>1, <1>5
    <3> QED
      BY <3>1, <3>2
  <2>3. Elems(s) \subseteq Elems(u)
    BY <2>1, <1>4
  <2>4. Elems(t) \subseteq Elems(u)
    BY <2>1, <1>5
  <2> QED
    BY <2>2, <2>3, <2>4
<1>8. ASSUME NoRepeats(s), NoRepeats(t), Elems(s) \cap Elems(t) = {} PROVE NoRepeats(u)
  <2> SUFFICES ASSUME NEW i \in 1 .. m + n, NEW j \in 1 .. m + n, u[i] = u[j] PROVE i = j
    BY <1>2, <1>3 DEF NoRepeats
  <2>1. \A k \in 1 .. m, l \in 1 .. n : s[k] # t[l]
    BY <1>1, <1>8 DEF Elems
  <2>2. CASE i \in 1 .. m /\ j \in 1 .. m
    BY <2>2, <1>1, <1>4, <1>8 DEF NoRepeats
  <2>3. CASE i \notin 1 .. m /\ j \notin 1 .. m
    <3>1. PICK k \in 1 .. n, l \in 1 .. n : i = m + k /\ j = m + l
      BY <2>3, <1>6
    <3>2. t[k] = t[l]
      BY <3>1, <1>5
    <3> QED
      BY <3>1, <3>2, <1>1, <1>8 DEF NoRepeats
  <2>4. CASE i \in 1 .. m /\ j \notin 1 .. m
    <3>1. PICK l \in 1 .. n : j = m + l
      BY <2>4, <1>6
    <3> QED
      BY <3>1, <2>1, <2>4, <1>4, <1>5
  <2>5. CASE i \notin 1 .. m /\ j \in 1 .. m
    <3>1. PICK l \in 1 .. n : i = m + l
      BY <2>5, <1>6
    <3> QED
      BY <3>1, <2>1, <2>5, <1>4, <1>5
  <2> QED
    BY <2>2, <2>3, <2>4, <2>5
<1> QED
  BY <1>2, <1>3, <1>7, <1>8
=============================================================================
