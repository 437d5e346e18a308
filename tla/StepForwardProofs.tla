-------------------------- MODULE StepForwardProofs --------------------------
(***************************************************************************)
(* Proofs about the embeddings, the adapters, the sampled tokens and the   *)
(* drafter's inputs of a step, for any batch, any answers of the target,   *)
(* any widths and any number of cores and ranks.                           *)
(***************************************************************************)
EXTENDS StepForward, TensorsProofs

-----------------------------------------------------------------------------
(* The kernels. *)

(* The loops of the cores come to every token, and to none twice. *)
LEMMA OneCore ==
  ASSUME NEW n \in Nat \ {0}, NEW aiv \in Nat \ {0}, NEW idx \in 0 .. n - 1
  PROVE  Cardinality(Cores(n, aiv, idx)) = 1
<1>1. PICK per \in Nat \ {0} : per = (n + aiv - 1) \div aiv
  <2>1. n + aiv - 1 \in Nat
    OBVIOUS
  <2>2. PICK q \in Nat, r \in 0 .. aiv - 1 :
          n + aiv - 1 = aiv * q + r /\ q = (n + aiv - 1) \div aiv /\ r = (n + aiv - 1) % aiv
    BY <2>1, DivMod
  <2>3. q # 0
    BY <2>2
  <2> QED
    BY <2>2, <2>3
<1>2. PICK c \in Nat, r \in 0 .. per - 1 : idx = per * c + r /\ c = idx \div per /\ r = idx % per
  BY DivMod
<1>3. PICK m \in Nat, s \in 0 .. per - 1 :
        n + per - 1 = per * m + s /\ m = (n + per - 1) \div per /\ s = (n + per - 1) % per
  <2>1. n + per - 1 \in Nat
    OBVIOUS
  <2> QED
    BY <2>1, DivMod
<1>4. Cores(n, aiv, idx) = {d \in 0 .. m - 1 : d * per <= idx /\ idx < Min({d * per + per, n})}
  BY <1>1, <1>3 DEF Cores
<1>5. \A d \in Nat : d * per \in Nat /\ d * per = per * d /\ per * d \in Nat
  OBVIOUS
<1>6. c \in 0 .. m - 1
  <2>1. m <= c => per * m <= per * c
    <3>1. m < c => per * m + per <= per * c
      BY ProductGrows
    <3> QED
      BY <3>1, <1>5
  <2> QED
    BY <2>1, <1>2, <1>3, <1>5
<1>7. \A d \in 0 .. m - 1 : d * per <= idx /\ idx < Min({d * per + per, n}) <=> d = c
  <2> SUFFICES ASSUME NEW d \in 0 .. m - 1
               PROVE  d * per <= idx /\ idx < Min({d * per + per, n}) <=> d = c
    OBVIOUS
  <2>1. Min({d * per + per, n}) = IF d * per + per <= n THEN d * per + per ELSE n
    <3>1. d * per + per \in Nat
      BY <1>5
    <3> QED
      BY <3>1, MinOfTwo
  <2>2. d * per <= idx /\ idx < Min({d * per + per, n}) <=> per * d <= idx /\ idx < per * d + per
    BY <2>1, <1>5
  <2>3. d < c => per * d + per <= per * c
    BY ProductGrows
  <2>4. c < d => per * c + per <= per * d
    BY ProductGrows
  <2> QED
    BY <2>2, <2>3, <2>4, <1>2, <1>5
<1>8. Cores(n, aiv, idx) = {c}
  BY <1>4, <1>6, <1>7
<1> QED
  BY <1>8, FS_Singleton

-----------------------------------------------------------------------------
(* The embeddings. *)

(* The parts of the ranks cover the vocabularies: padding makes them       *)
(* multiples of the ranks.  With one rank a token is looked up under its   *)
(* id, so the places before an added one are those of the model's tokens.  *)
ShardsCover ==
  /\ OrgVocab <= TPSize * VocabShard /\ AddedVocab <= TPSize * AddedShard
  /\ TPSize = 1 /\ AddedVocab > 0 => VocabShard = OrgVocab

(* Rank r of parts of the given size has place j, of total ones. *)
HasPlace(r, size, total, j) == Min({r * size, total}) <= j /\ j < Min({(r + 1) * size, total})

(* Of tp ranks, only rank r has it. *)
OnlyShard(r, tp, size, total, j) == \A q \in 0 .. tp - 1 : HasPlace(q, size, total, j) <=> q = r

LEMMA ShardBounds ==
  ASSUME NEW r \in Nat, NEW size \in Nat, NEW total \in Nat
  PROVE  /\ Min({r * size, total}) \in Nat /\ Min({(r + 1) * size, total}) \in Nat
         /\ Min({r * size, total}) <= Min({(r + 1) * size, total})
         /\ Min({(r + 1) * size, total}) - Min({r * size, total}) <= size
         /\ \A j \in Nat : HasPlace(r, size, total, j) <=> r * size <= j /\ j < r * size + size /\ j < total
<1>1. r * size \in Nat /\ (r + 1) * size \in Nat /\ (r + 1) * size = r * size + size
  OBVIOUS
<1>2. /\ Min({r * size, total}) = IF r * size <= total THEN r * size ELSE total
      /\ Min({(r + 1) * size, total}) = IF (r + 1) * size <= total THEN (r + 1) * size ELSE total
  BY <1>1, MinOfTwo
<1>3. PICK a \in Nat, b \in Nat : a = r * size /\ b = (r + 1) * size /\ b = a + size
  BY <1>1
<1>4. \A j \in Nat : HasPlace(r, size, total, j) <=> Min({a, total}) <= j /\ j < Min({b, total})
  BY <1>3 DEF HasPlace
<1>5. Min({a, total}) = (IF a <= total THEN a ELSE total) /\ Min({b, total}) = IF b <= total THEN b ELSE total
  BY <1>2, <1>3
<1>6. /\ Min({a, total}) \in Nat /\ Min({b, total}) \in Nat
      /\ Min({a, total}) <= Min({b, total}) /\ Min({b, total}) - Min({a, total}) <= size
      /\ \A j \in Nat : HasPlace(r, size, total, j) <=> a <= j /\ j < a + size /\ j < total
  <2>1. b = a + size
    BY <1>3
  <2>2. PICK x \in Nat, y \in Nat : x = Min({a, total}) /\ y = Min({b, total})
    BY <1>5
  <2>3. x = (IF a <= total THEN a ELSE total) /\ y = IF b <= total THEN b ELSE total
    BY <2>2, <1>5
  <2>4. x <= y /\ y - x <= size /\ \A j \in Nat : x <= j /\ j < y <=> a <= j /\ j < a + size /\ j < total
    BY <2>1, <2>3
  <2>5. \A j \in Nat : HasPlace(r, size, total, j) <=> x <= j /\ j < y
    BY <2>2, <1>4
  <2> QED
    BY <2>2, <2>4, <2>5
<1> QED
  BY <1>3, <1>6

LEMMA OneShard ==
  ASSUME NEW tp \in Nat, NEW size \in Nat, NEW total \in Nat, total <= tp * size,
         NEW j \in 0 .. total - 1
  PROVE  \E r \in 0 .. tp - 1 : OnlyShard(r, tp, size, total, j)
<1>1. size # 0
  OBVIOUS
<1>2. PICK r \in Nat, s \in 0 .. size - 1 : j = size * r + s /\ r = j \div size /\ s = j % size
  BY <1>1, DivMod
<1>3. \A q \in Nat : q * size \in Nat /\ q * size = size * q /\ size * q \in Nat
  OBVIOUS
<1>4. r < tp
  <2>1. tp < r => size * tp + size <= size * r
    BY <1>1, ProductGrows
  <2> QED
    BY <2>1, <1>2, <1>3
<1>5. ASSUME NEW q \in 0 .. tp - 1
      PROVE  HasPlace(q, size, total, j) <=> q = r
  <2>1. q < r => size * q + size <= size * r
    BY <1>1, ProductGrows
  <2>2. r < q => size * r + size <= size * q
    BY <1>1, ProductGrows
  <2>0. q \in Nat /\ j \in Nat
    OBVIOUS
  <2>3. HasPlace(q, size, total, j) <=> q * size <= j /\ j < q * size + size /\ j < total
    BY <2>0, ShardBounds
  <2> QED
    BY <2>1, <2>2, <2>3, <1>2, <1>3
<1>6. r \in 0 .. tp - 1
  BY <1>4
<1> QED
  BY <1>5, <1>6 DEF OnlyShard

(* get_masked_input_and_mask and the rank's weights: a rank that has a     *)
(* token finds the token's own embedding, the others mask it.              *)
LEMMA MaskedInput ==
  ASSUME NEW r \in Nat, NEW id \in 0 .. OrgVocab + AddedVocab - 1
  PROVE  LET g == GetMaskedInputAndMask(id, ShardIndices(r))
         IN  /\ g.mask <=> ~ (IF id < OrgVocab THEN HasPlace(r, VocabShard, OrgVocab, id)
                              ELSE HasPlace(r, AddedShard, AddedVocab, id - OrgVocab))
             /\ ~g.mask => Stored(r, g.input) = id
<1> DEFINE s == ShardIndices(r)
           g == GetMaskedInputAndMask(id, s)
<1>1. /\ OrgVocab \in Nat /\ AddedVocab \in Nat /\ VocabShard \in Nat /\ AddedShard \in Nat
      /\ id \in Nat
  BY VocabAssumption
<1>2. PICK os \in Nat, oe \in Nat :
        /\ os = Min({r * VocabShard, OrgVocab}) /\ oe = Min({(r + 1) * VocabShard, OrgVocab})
        /\ os <= oe /\ oe - os <= VocabShard
  BY <1>1, ShardBounds
<1>3. PICK sa \in Nat, ea \in Nat :
        /\ sa = Min({r * AddedShard, AddedVocab}) /\ ea = Min({(r + 1) * AddedShard, AddedVocab})
        /\ sa <= ea
  <2>1. /\ Min({r * AddedShard, AddedVocab}) \in Nat /\ Min({(r + 1) * AddedShard, AddedVocab}) \in Nat
        /\ Min({r * AddedShard, AddedVocab}) <= Min({(r + 1) * AddedShard, AddedVocab})
    BY <1>1, ShardBounds
  <2> QED
    BY <2>1
<1>4. /\ s.org_vocab_start_index = os /\ s.org_vocab_end_index = oe
      /\ s.added_vocab_start_index = OrgVocab + sa /\ s.added_vocab_end_index = OrgVocab + ea
  BY <1>2, <1>3 DEF ShardIndices
<1>5. \A j \in Nat : /\ HasPlace(r, VocabShard, OrgVocab, j) <=> os <= j /\ j < oe
                     /\ HasPlace(r, AddedShard, AddedVocab, j) <=> sa <= j /\ j < ea
  <2> SUFFICES ASSUME NEW j \in Nat
               PROVE  /\ HasPlace(r, VocabShard, OrgVocab, j) <=> os <= j /\ j < oe
                      /\ HasPlace(r, AddedShard, AddedVocab, j) <=> sa <= j /\ j < ea
    OBVIOUS
  <2>1. HasPlace(r, VocabShard, OrgVocab, j) <=>
          Min({r * VocabShard, OrgVocab}) <= j /\ j < Min({(r + 1) * VocabShard, OrgVocab})
    BY DEF HasPlace
  <2>2. HasPlace(r, AddedShard, AddedVocab, j) <=>
          Min({r * AddedShard, AddedVocab}) <= j /\ j < Min({(r + 1) * AddedShard, AddedVocab})
    BY DEF HasPlace
  <2> QED
    BY <2>1, <2>2, <1>2, <1>3
<1>6. oe <= OrgVocab /\ os <= oe /\ oe - os <= VocabShard /\ sa <= ea
  <2>1. r * VocabShard \in Nat /\ (r + 1) * VocabShard \in Nat
    BY <1>1
  <2>2. oe = IF (r + 1) * VocabShard <= OrgVocab THEN (r + 1) * VocabShard ELSE OrgVocab
    BY <2>1, <1>1, <1>2, MinOfTwo
  <2> QED
    BY <2>1, <2>2, <1>1, <1>2, <1>3

<1> HIDE DEF s
<1> DEFINE org   == os <= id /\ id < oe
           added == OrgVocab + sa <= id /\ id < OrgVocab + ea
           shift == OrgVocab + sa - (oe - os) - (VocabShard - (oe - os))
           valid == org \/ (added /\ ~(OrgVocab + sa = OrgVocab + ea))
           offset == IF org THEN os ELSE IF added /\ ~(OrgVocab + sa = OrgVocab + ea) THEN shift ELSE 0
<1>7. (g.mask <=> ~valid) /\ g.input = IF valid THEN id - offset ELSE 0
  <2> DEFINE u == s.org_vocab_start_index
             v == s.org_vocab_end_index
             x == s.added_vocab_start_index
             y == s.added_vocab_end_index
             in_org == u <= id /\ id < v
             in_added == x <= id /\ id < y
             by == IF in_org THEN u ELSE IF in_added /\ ~(x = y) THEN x - (v - u) - (VocabShard - (v - u)) ELSE 0
             found == in_org \/ (in_added /\ ~(x = y))
  <2>1. g = [input |-> IF found THEN id - by ELSE 0, mask |-> ~found]
    BY Zenon DEF GetMaskedInputAndMask, NumOrgVocabPadding
  <2>2. (found <=> valid) /\ by = offset
    BY <1>1, <1>4
  <2> HIDE DEF g, valid, found, by, offset
  <2>3. (g.mask <=> ~found) /\ g.input = IF found THEN id - by ELSE 0
    BY <2>1
  <2> QED
    BY <2>2, <2>3
<1>8. \A place : Stored(r, place) =
        IF place < VocabShard THEN IF place < oe - os THEN os + place ELSE -1
        ELSE OrgVocab + sa + place - VocabShard
  BY <1>4 DEF Stored, s
<1> HIDE DEF g
<1>9. valid <=> IF id < OrgVocab THEN HasPlace(r, VocabShard, OrgVocab, id)
                ELSE HasPlace(r, AddedShard, AddedVocab, id - OrgVocab)
  <2>1. CASE id < OrgVocab
    BY <2>1, <1>1, <1>5, <1>6
  <2>2. CASE ~(id < OrgVocab)
    <3>1. id - OrgVocab \in Nat
      BY <2>2, <1>1
    <3>2. HasPlace(r, AddedShard, AddedVocab, id - OrgVocab) <=> sa <= id - OrgVocab /\ id - OrgVocab < ea
      BY <3>1, <1>5
    <3>3. ~org
      BY <2>2, <1>1, <1>6
    <3>4. added <=> sa <= id - OrgVocab /\ id - OrgVocab < ea
      BY <1>1, <1>6
    <3>5. added => OrgVocab + sa # OrgVocab + ea
      BY <1>1, <1>6
    <3> QED
      BY <2>2, <3>2, <3>3, <3>4, <3>5
  <2> QED
    BY <2>1, <2>2
<1>10. valid => Stored(r, g.input) = id
  <2>1. CASE org
    <3>1. g.input = id - os
      BY <2>1, <1>7
    <3>2. id - os < VocabShard /\ id - os < oe - os /\ os + (id - os) = id
      BY <2>1, <1>1, <1>6
    <3> QED
      BY <3>1, <3>2, <1>8
  <2>2. CASE valid /\ ~org
    <3>1. g.input = id - shift /\ added
      BY <2>2, <1>7
    <3>2. id - shift = id - OrgVocab - sa + VocabShard
      BY <1>1, <1>6
    <3>3. ~(id - OrgVocab - sa + VocabShard < VocabShard)
      BY <3>1, <1>1, <1>6
    <3>4. OrgVocab + sa + (id - OrgVocab - sa + VocabShard) - VocabShard = id
      BY <1>1, <1>6
    <3> QED
      BY <3>1, <3>2, <3>3, <3>4, <1>8
  <2> QED
    BY <2>1, <2>2
<1> QED
  BY <1>7, <1>9, <1>10 DEF g, s

(* vocab_parallel_embedding_forward: one rank embeds a token, with the     *)
(* token's own weights.                                                    *)
LEMMA EmbeddedOnce ==
  ASSUME ShardsCover, NEW id \in 0 .. OrgVocab + AddedVocab - 1
  PROVE  \E r \in 0 .. TPSize - 1 : EmbeddingForward(id, TPSize) = {<<r, id>>}
<1>1. /\ OrgVocab \in Nat /\ AddedVocab \in Nat /\ VocabShard \in Nat /\ AddedShard \in Nat
      /\ id \in Nat /\ TPSize \in Nat \ {0}
  BY VocabAssumption, DPAssumption
<1>2. CASE TPSize = 1
  <2>1. OrgVocab <= VocabShard /\ (AddedVocab > 0 => VocabShard = OrgVocab)
    BY <1>1, <1>2 DEF ShardsCover
  <2>2. /\ 0 * VocabShard = 0 /\ (0 + 1) * VocabShard = VocabShard
        /\ 0 * AddedShard = 0
    BY <1>1
  <2>3. /\ Min({0 * VocabShard, OrgVocab}) = 0 /\ Min({(0 + 1) * VocabShard, OrgVocab}) = OrgVocab
        /\ Min({0 * AddedShard, AddedVocab}) = 0
    <3>1. /\ Min({0, OrgVocab}) = IF 0 <= OrgVocab THEN 0 ELSE OrgVocab
          /\ Min({VocabShard, OrgVocab}) = IF VocabShard <= OrgVocab THEN VocabShard ELSE OrgVocab
          /\ Min({0, AddedVocab}) = IF 0 <= AddedVocab THEN 0 ELSE AddedVocab
      BY <1>1, MinOfTwo
    <3>2. Min({0, OrgVocab}) = 0 /\ Min({VocabShard, OrgVocab}) = OrgVocab /\ Min({0, AddedVocab}) = 0
      BY <3>1, <2>1, <1>1
    <3> QED
      BY <3>2, <2>2
  <2>4. Stored(0, id) = IF id < VocabShard THEN IF id < OrgVocab - 0 THEN 0 + id ELSE -1
                        ELSE OrgVocab + 0 + id - VocabShard
    <3>1. /\ ShardIndices(0).org_vocab_start_index = 0 /\ ShardIndices(0).org_vocab_end_index = OrgVocab
          /\ ShardIndices(0).added_vocab_start_index = OrgVocab + 0
      BY <2>3, Zenon DEF ShardIndices
    <3> QED
      BY <3>1 DEF Stored
  <2>5. Stored(0, id) = id
    BY <2>1, <2>4, <1>1
  <2>6. EmbeddingForward(id, TPSize) = {<<0, id>>}
    BY <2>5, <1>2 DEF EmbeddingForward
  <2> QED
    BY <2>6, <1>2
<1>3. CASE TPSize # 1
  <2> DEFINE Has(q) == IF id < OrgVocab THEN HasPlace(q, VocabShard, OrgVocab, id)
                       ELSE HasPlace(q, AddedShard, AddedVocab, id - OrgVocab)
             g(q) == GetMaskedInputAndMask(id, ShardIndices(q))
  <2>1. PICK r \in 0 .. TPSize - 1 : \A q \in 0 .. TPSize - 1 : Has(q) <=> q = r
    <3>1. CASE id < OrgVocab
      <4>1. id \in 0 .. OrgVocab - 1 /\ OrgVocab <= TPSize * VocabShard /\ TPSize \in Nat
        BY <3>1, <1>1 DEF ShardsCover
      <4>2. \E r \in 0 .. TPSize - 1 : OnlyShard(r, TPSize, VocabShard, OrgVocab, id)
        BY <4>1, <1>1, OneShard
      <4> QED
        BY <3>1, <4>2 DEF OnlyShard
    <3>2. CASE ~(id < OrgVocab)
      <4>1. /\ id - OrgVocab \in 0 .. AddedVocab - 1 /\ AddedVocab <= TPSize * AddedShard
            /\ TPSize \in Nat
        BY <3>2, <1>1 DEF ShardsCover
      <4>2. \E r \in 0 .. TPSize - 1 : OnlyShard(r, TPSize, AddedShard, AddedVocab, id - OrgVocab)
        BY <4>1, <1>1, OneShard
      <4> QED
        BY <3>2, <4>2 DEF OnlyShard
    <3> QED
      BY <3>1, <3>2
  <2>2. \A q \in 0 .. TPSize - 1 : (~g(q).mask <=> Has(q)) /\ (~g(q).mask => Stored(q, g(q).input) = id)
    <3> SUFFICES ASSUME NEW q \in 0 .. TPSize - 1
                 PROVE  (~g(q).mask <=> Has(q)) /\ (~g(q).mask => Stored(q, g(q).input) = id)
      OBVIOUS
    <3>1. q \in Nat
      BY <1>1
    <3> QED
      BY <3>1, MaskedInput
  <2>3. EmbeddingForward(id, TPSize) =
          {<<q, Stored(q, g(q).input)>> : q \in {p \in 0 .. TPSize - 1 : ~g(p).mask}}
    BY <1>3 DEF EmbeddingForward
  <2> HIDE DEF g, Has
  <2>4. {p \in 0 .. TPSize - 1 : ~g(p).mask} = {r}
    BY <2>1, <2>2
  <2>5. EmbeddingForward(id, TPSize) = {<<r, Stored(r, g(r).input)>>}
    BY <2>3, <2>4
  <2>6. Stored(r, g(r).input) = id
    BY <2>1, <2>2
  <2> QED
    BY <2>5, <2>6
<1> QED
  BY <1>2, <1>3

-----------------------------------------------------------------------------
(* compute_meta. *)

(* Where the runs of tokens with one adapter start, and end. *)
Start(indices) == Ascending({i \in DOMAIN indices : i = 1 \/ indices[i] # indices[i - 1]})
RunEnd(indices, k) ==
  IF k = Len(Start(indices)) THEN Len(indices) + 1 ELSE Start(indices)[k + 1]

(* The first run starts with the first token, the others behind it where   *)
(* the adapter changes.                                                    *)
LEMMA StartFacts ==
  ASSUME NEW indices \in Seq(Int), Len(indices) # 0
  PROVE  LET m == Len(Start(indices))
         IN  /\ m \in Nat \ {0} /\ Start(indices) \in [1 .. m -> 1 .. Len(indices)]
             /\ Start(indices) \in Seq(1 .. Len(indices))
             /\ Start(indices)[1] = 1
             /\ \A k, l \in 1 .. m : k < l => Start(indices)[k] < Start(indices)[l]
             /\ \A i \in 1 .. Len(indices) : i # 1 /\ indices[i] # indices[i - 1] =>
                  \E k \in 1 .. m : Start(indices)[k] = i
<1>1. PICK n \in Nat \ {0} : n = Len(indices) /\ DOMAIN indices = 1 .. n
  BY LenProperties
<1>2. PICK D : D = {i \in DOMAIN indices : i = 1 \/ indices[i] # indices[i - 1]}
  OBVIOUS
<1>3. D \in SUBSET Nat /\ D \in SUBSET (1 .. n) /\ 1 \in D
  BY <1>1, <1>2
<1>4. IsFiniteSet(D)
  <2>1. IsFiniteSet(1 .. n)
    BY <1>1, FS_Interval
  <2> QED
    BY <2>1, <1>3, FS_Subset
<1>5. PICK L : L = Start(indices) /\ L = Ascending(D)
  BY <1>2 DEF Start
<1>6. /\ L \in Seq(D) /\ Elems(L) = D
      /\ \A i, j \in 1 .. Len(L) : i < j => L[i] < L[j]
  BY <1>3, <1>4, <1>5, AscendingList
<1>7. PICK m \in Nat : m = Len(L)
  BY <1>6, LenProperties
<1>8. L \in [1 .. m -> D] /\ DOMAIN L = 1 .. m
  BY <1>6, <1>7, LenProperties
<1>9. \A i \in D : \E k \in 1 .. m : L[k] = i
  BY <1>6, <1>7 DEF Elems
<1>10. L \in [1 .. m -> 1 .. n] /\ L \in Seq(1 .. n)
  BY <1>3, <1>6, <1>8, SeqMonotonic
<1>11. m # 0 /\ L[1] = 1
  <2>1. PICK k \in 1 .. m : L[k] = 1
    BY <1>3, <1>9
  <2>2. 1 \in 1 .. m /\ L[1] \in 1 .. n
    BY <2>1, <1>10
  <2>3. k # 1 => L[1] < L[k]
    BY <2>1, <2>2, <1>6, <1>7
  <2> QED
    BY <2>1, <2>2, <2>3
<1>12. \A i \in 1 .. n : i # 1 /\ indices[i] # indices[i - 1] => \E k \in 1 .. m : L[k] = i
  BY <1>1, <1>2, <1>9
<1> QED
  BY <1>1, <1>5, <1>6, <1>7, <1>10, <1>11, <1>12

(* All tokens of a run have the adapter of its first one. *)
LEMMA RunsConstant ==
  ASSUME NEW indices \in Seq(Int), Len(indices) # 0,
         NEW k \in 1 .. Len(Start(indices)), NEW j \in Start(indices)[k] .. RunEnd(indices, k) - 1
  PROVE  j \in 1 .. Len(indices) /\ indices[j] = indices[Start(indices)[k]]
<1>1. PICK n \in Nat \ {0} : n = Len(indices)
  BY LenProperties
<1>9. PICK L : L = Start(indices)
  OBVIOUS
<1>2. PICK m \in Nat \ {0} : L = Start(indices) /\ m = Len(Start(indices))
  BY <1>9, StartFacts
<1>3. /\ L \in [1 .. m -> 1 .. n]
      /\ \A a, b \in 1 .. m : a < b => L[a] < L[b]
      /\ \A i \in 1 .. n : i # 1 /\ indices[i] # indices[i - 1] => \E a \in 1 .. m : L[a] = i
  BY <1>1, <1>2, StartFacts
<1>4. k \in 1 .. m /\ L[k] \in 1 .. n
  BY <1>2, <1>3
<1>5. PICK e \in Nat : e = RunEnd(indices, k) /\ e <= n + 1 /\ (k # m => e = L[k + 1] /\ k + 1 \in 1 .. m)
  <2>1. CASE k = m
    BY <2>1, <1>1, <1>2 DEF RunEnd
  <2>2. CASE k # m
    <3>1. k + 1 \in 1 .. m
      BY <2>2, <1>4
    <3>2. L[k + 1] \in 1 .. n
      BY <3>1, <1>3
    <3>3. RunEnd(indices, k) = L[k + 1]
      BY <2>2, <1>2 DEF RunEnd
    <3> QED
      BY <2>2, <3>1, <3>2, <3>3
  <2> QED
    BY <2>1, <2>2
<1>6. j \in L[k] .. e - 1
  BY <1>2, <1>5
<1>0. PICK lk \in Nat : lk = L[k] /\ lk \in 1 .. n
  BY <1>4
<1> DEFINE bad == {i \in lk .. e - 1 : indices[i] # indices[lk]}
<1>7. bad = {}
  <2> SUFFICES ASSUME bad # {} PROVE FALSE
    OBVIOUS
  <2>1. bad \in SUBSET Nat
    BY <1>0, <1>5
  <2>2. PICK i \in bad : \A l \in bad : i <= l
    <3> HIDE DEF bad
    <3> QED
      BY <2>1, LeastMember
  <2>3. i \in lk .. e - 1 /\ i # lk /\ indices[i] # indices[lk]
    BY <1>0, <1>5
  <2>4. i - 1 \in lk .. e - 1 /\ i - 1 \notin bad
    <3>1. i - 1 \in lk .. e - 1 /\ ~(i <= i - 1)
      BY <2>3, <1>0
    <3> HIDE DEF bad
    <3> QED
      BY <3>1, <2>2
  <2>5. indices[i] # indices[i - 1]
    BY <2>3, <2>4
  <2>6. i \in 1 .. n /\ i # 1 /\ lk < i /\ i < e
    <3>1. e <= n + 1
      BY <1>5
    <3> QED
      BY <3>1, <2>3, <1>0, SMTT(40)
  <2>7. PICK a \in 1 .. m : L[a] = i
    BY <2>5, <2>6, <1>3
  <2>8. ~(a <= k)
    <3>1. a < k => L[a] < lk
      BY <1>0, <1>3, <1>4
    <3>2. a = k => L[a] = lk
      BY <1>0
    <3> QED
      BY <3>1, <3>2, <2>6, <2>7, <1>4
  <2>9. k # m /\ e = L[k + 1] /\ k + 1 \in 1 .. m
    <3>1. k # m
      BY <2>8, <1>4
    <3> QED
      BY <3>1, <1>5
  <2>10. k + 1 < a => L[k + 1] < L[a]
    BY <2>9, <1>3
  <2> QED
    BY <2>6, <2>7, <2>8, <2>9, <2>10, <1>4
<1>8. indices[j] = indices[L[k]]
  BY <1>0, <1>6, <1>7
<1> QED
  BY <1>1, <1>2, <1>4, <1>5, <1>6, <1>8

LEMMA MetaFields ==
  ASSUME NEW indices \in Seq(Int), Len(indices) # 0
  PROVE  LET m == Len(Start(indices))
             meta == ComputeMeta(indices)
         IN  /\ \A k \in 1 .. m : meta.lora_indices[k] = indices[Start(indices)[k]]
             /\ meta.seq_len = [k \in 1 .. m |-> RunEnd(indices, k) - Start(indices)[k]]
             /\ meta.seq_len \in Seq(Nat) /\ Len(meta.seq_len) = m
             /\ meta.no_lora <=> m = 1 /\ indices[1] = -1
<1>1. PICK n \in Nat \ {0} : n = Len(indices) /\ DOMAIN indices = 1 .. n
  BY LenProperties
<1>2. PICK L : L = Start(indices)
  OBVIOUS
<1>3. PICK m \in Nat \ {0} : m = Len(L)
  BY <1>2, StartFacts
<1>4. /\ L \in [1 .. m -> 1 .. n] /\ DOMAIN L = 1 .. m
      /\ \A a, b \in 1 .. m : a < b => L[a] < L[b]
  BY <1>1, <1>2, <1>3, StartFacts
<1> DEFINE lens == [k \in 1 .. m |-> RunEnd(indices, k) - L[k]]
           meta == ComputeMeta(indices)
<1>5. meta = [lora_indices |-> Take(indices, L),
              seq_len      |-> Listed([k \in DOMAIN L |-> RunEnd(indices, k) - L[k]]),
              no_lora      |-> Len(L) = 1 /\ indices[1] = -1]
  BY <1>2, Zenon DEF ComputeMeta, Start, RunEnd
<1>6. lens \in [1 .. m -> Nat]
  <2> SUFFICES ASSUME NEW k \in 1 .. m PROVE RunEnd(indices, k) - L[k] \in Nat
    OBVIOUS
  <2>1. L[k] \in 1 .. n
    BY <1>4
  <2>2. CASE k = m
    BY <2>1, <2>2, <1>1, <1>2, <1>3 DEF RunEnd
  <2>3. CASE k # m
    <3>1. k + 1 \in 1 .. m /\ k < k + 1
      BY <2>3
    <3>2. L[k + 1] \in 1 .. n /\ L[k] < L[k + 1]
      BY <3>1, <1>4
    <3>3. RunEnd(indices, k) = L[k + 1]
      BY <2>3, <1>2, <1>3 DEF RunEnd
    <3> QED
      BY <2>1, <3>2, <3>3
  <2> QED
    BY <2>2, <2>3
<1>7. IsList(lens, m) /\ lens \in Seq(Nat)
  BY <1>6, SeqDef DEF IsList
<1>8. Listed([k \in DOMAIN L |-> RunEnd(indices, k) - L[k]]) = lens /\ Len(lens) = m
  <2>1. Listed(lens) = lens /\ Len(lens) = m
    BY <1>7, ListedSame
  <2> QED
    BY <2>1, <1>4
<1>9. meta.seq_len = lens
  BY <1>5, <1>8
<1>10. \A k \in 1 .. m : meta.lora_indices[k] = indices[L[k]]
  <2> DEFINE t == [i \in DOMAIN L |-> indices[L[i]]]
  <2>1. IsList(t, m)
    BY <1>4 DEF IsList
  <2>2. Listed(t) = t
    BY <2>1, ListedSame
  <2>3. meta.lora_indices = t
    BY <1>5, <2>2 DEF Take
  <2> QED
    BY <2>3, <1>4
<1>11. meta.no_lora <=> m = 1 /\ indices[1] = -1
  <2> HIDE DEF meta
  <2>1. meta.no_lora = (Len(L) = 1 /\ indices[1] = -1)
    BY <1>5
  <2> QED
    BY <2>1, <1>3
<1> HIDE DEF meta, lens
<1>12. /\ \A k \in 1 .. m : meta.lora_indices[k] = indices[L[k]]
       /\ meta.seq_len = lens /\ meta.seq_len \in Seq(Nat) /\ Len(meta.seq_len) = m
       /\ meta.no_lora <=> m = 1 /\ indices[1] = -1
  BY <1>7, <1>8, <1>9, <1>10, <1>11
<1> QED
  BY <1>2, <1>3, <1>12 DEF meta, lens

(* The sgmv kernels find the adapter of a token again from the lengths of  *)
(* the runs.                                                               *)
LEMMA SgmvFinds ==
  ASSUME NEW indices \in Seq(Int), Len(indices) # 0, NEW idx \in 0 .. Len(indices) - 1
  PROVE  SgmvIndex(ComputeMeta(indices), idx) = indices[idx + 1]
<1>1. PICK n \in Nat \ {0} : n = Len(indices)
  BY LenProperties
<1>2. PICK L : L = Start(indices)
  OBVIOUS
<1>3. PICK m \in Nat \ {0} : m = Len(L)
  BY <1>2, StartFacts
<1>4. L \in [1 .. m -> 1 .. n] /\ L[1] = 1
  BY <1>1, <1>2, <1>3, StartFacts
<1>5. PICK meta : meta = ComputeMeta(indices)
  OBVIOUS
<1>6. /\ \A k \in 1 .. m : meta.lora_indices[k] = indices[L[k]]
      /\ meta.seq_len = [k \in 1 .. m |-> RunEnd(indices, k) - L[k]]
      /\ meta.seq_len \in Seq(Nat) /\ Len(meta.seq_len) = m
  BY <1>2, <1>3, <1>5, MetaFields
<1>7. PICK off : /\ Offsets(off, meta.seq_len, m)
                 /\ CumSum(meta.seq_len) = [i \in 1 .. m |-> off[i]]
  BY <1>6, CumSumOffsets, ZenonT(40)
<1>8. /\ off \in [0 .. m -> Nat] /\ off[0] = 0
      /\ \A k \in 1 .. m : off[k] = off[k - 1] + (RunEnd(indices, k) - L[k])
  BY <1>6, <1>7 DEF Offsets
<1>9. \A k \in 1 .. m : RunEnd(indices, k) = IF k = m THEN n + 1 ELSE L[k + 1]
  BY <1>1, <1>2, <1>3 DEF RunEnd
<1> DEFINE bad == {k \in 1 .. m : off[k - 1] # L[k] - 1}
<1>10. bad = {}
  <2> SUFFICES ASSUME bad # {} PROVE FALSE
    OBVIOUS
  <2>1. bad \in SUBSET Nat
    OBVIOUS
  <2>2. PICK k \in bad : \A l \in bad : k <= l
    BY <2>1, LeastMember
  <2>3. k \in 1 .. m /\ off[k - 1] # L[k] - 1
    OBVIOUS
  <2>4. k # 1
    <3>1. 1 - 1 = 0
      OBVIOUS
    <3> QED
      BY <3>1, <2>3, <1>4, <1>8
  <2>5. k - 1 \in 1 .. m /\ k - 1 \notin bad
    <3>1. k - 1 \in 1 .. m /\ ~(k <= k - 1)
      BY <2>3, <2>4
    <3> HIDE DEF bad
    <3> QED
      BY <3>1, <2>2
  <2>6. off[k - 1 - 1] = L[k - 1] - 1
    BY <2>5
  <2>7. RunEnd(indices, k - 1) = L[k]
    <3>1. k - 1 # m /\ k - 1 + 1 = k
      BY <2>3
    <3> QED
      BY <3>1, <2>5, <1>9
  <2>8. off[k - 1] = off[k - 1 - 1] + (L[k] - L[k - 1])
    BY <2>5, <2>7, <1>8
  <2>9. L[k] \in 1 .. n /\ L[k - 1] \in 1 .. n
    BY <2>3, <2>5, <1>4
  <2> QED
    BY <2>3, <2>6, <2>8, <2>9, SMTT(40)
<1>11. \A k \in 1 .. m : off[k] = RunEnd(indices, k) - 1
  <2> SUFFICES ASSUME NEW k \in 1 .. m PROVE off[k] = RunEnd(indices, k) - 1
    OBVIOUS
  <2>1. off[k - 1] = L[k] - 1
    BY <1>10
  <2>2. L[k] \in 1 .. n
    BY <1>4
  <2>3. RunEnd(indices, k) \in Int
    <3>1. k # m => k + 1 \in 1 .. m
      OBVIOUS
    <3> QED
      BY <3>1, <1>4, <1>9
  <2>4. off[k] = off[k - 1] + (RunEnd(indices, k) - L[k])
    BY <1>8
  <2> QED
    BY <2>1, <2>2, <2>3, <2>4
<1> DEFINE holds == {i \in 1 .. m : idx < off[i]}
<1>12. holds \in SUBSET Nat /\ holds # {}
  <2>1. m \in 1 .. m
    OBVIOUS
  <2>2. off[m] = n + 1 - 1
    BY <2>1, <1>9, <1>11
  <2>3. idx < off[m]
    BY <2>2, <1>1
  <2> QED
    BY <2>1, <2>3
<1>13. PICK k : k = Min(holds) /\ k \in holds /\ \A l \in holds : k <= l
  <2> HIDE DEF holds
  <2> QED
    BY <1>12, MinFacts
<1>14. SgmvIndex(meta, idx) = meta.lora_indices[k]
  <2>1. CumSum(meta.seq_len) = [i \in 1 .. m |-> off[i]]
    BY <1>7
  <2>2. {i \in DOMAIN CumSum(meta.seq_len) : idx < CumSum(meta.seq_len)[i]} = holds
    BY <2>1
  <2> HIDE DEF holds
  <2> QED
    BY <2>2, <1>12, <1>13 DEF SgmvIndex
<1>15. k \in 1 .. m /\ idx < off[k] /\ off[k] = RunEnd(indices, k) - 1
  BY <1>11, <1>13
<1>16. idx + 1 < RunEnd(indices, k)
  <2>1. RunEnd(indices, k) \in Int
    <3>1. k # m => k + 1 \in 1 .. m
      BY <1>15
    <3> QED
      BY <3>1, <1>4, <1>9, <1>15
  <2> QED
    BY <2>1, <1>15
<1>17. L[k] <= idx + 1
  <2>1. CASE k = 1
    BY <2>1, <1>4
  <2>2. CASE k # 1
    <3>1. k - 1 \in 1 .. m /\ ~(k <= k - 1)
      BY <2>2, <1>15
    <3>2. k - 1 \notin holds
      <4> HIDE DEF holds
      <4> QED
        BY <3>1, <1>13
    <3>3. ~(idx < off[k - 1])
      BY <3>1, <3>2
    <3>4. off[k - 1] = L[k] - 1 /\ L[k] \in 1 .. n
      BY <1>4, <1>10, <1>15
    <3> QED
      BY <3>3, <3>4
  <2> QED
    BY <2>1, <2>2
<1>18. idx + 1 \in L[k] .. RunEnd(indices, k) - 1
  <2>1. L[k] \in 1 .. n
    BY <1>4, <1>15
  <2>2. off[k] \in Nat
    BY <1>8, <1>15
  <2> QED
    BY <2>1, <2>2, <1>15, <1>17
<1>19. indices[idx + 1] = indices[L[k]]
  BY <1>2, <1>3, <1>15, <1>18, RunsConstant
<1> QED
  BY <1>5, <1>6, <1>14, <1>15, <1>19

(* A batch with one run and no adapter for it has no adapter at all. *)
LEMMA NoLora ==
  ASSUME NEW indices \in Seq(Int), Len(indices) # 0, ComputeMeta(indices).no_lora,
         NEW t \in 1 .. Len(indices)
  PROVE  indices[t] = -1
<1>1. Len(Start(indices)) = 1 /\ indices[1] = -1
  BY MetaFields
<1>2. Start(indices)[1] = 1 /\ RunEnd(indices, 1) = Len(indices) + 1 /\ Len(indices) \in Nat
  BY <1>1, StartFacts, LenProperties DEF RunEnd
<1>3. 1 \in 1 .. Len(Start(indices)) /\ t \in Start(indices)[1] .. RunEnd(indices, 1) - 1
  BY <1>1, <1>2
<1>4. indices[t] = indices[Start(indices)[1]]
  BY <1>3, RunsConstant
<1> QED
  BY <1>1, <1>2, <1>4

-----------------------------------------------------------------------------
(* Shrink. *)

(* Both kinds of kernels find the adapter of every token. *)
LEMMA FoundIndices ==
  ASSUME NEW indices \in Seq(Int), Len(indices) # 0
  PROVE  /\ BgmvIndices(Len(indices), indices) = indices
         /\ SgmvIndices(Len(indices), ComputeMeta(indices)) = indices
<1>1. PICK n \in Nat : n = Len(indices) /\ IsList(indices, n)
  BY SeqIsList
<1>2. ASSUME NEW tok \in 1 .. n
      PROVE  /\ BgmvIndex(indices, tok - 1) = indices[tok]
             /\ SgmvIndex(ComputeMeta(indices), tok - 1) = indices[tok]
  <2>1. tok - 1 + 1 = tok /\ tok - 1 \in 0 .. n - 1
    OBVIOUS
  <2>2. SgmvIndex(ComputeMeta(indices), tok - 1) = indices[tok - 1 + 1]
    BY <2>1, <1>1, SgmvFinds
  <2> QED
    BY <2>1, <2>2 DEF BgmvIndex, Get
<1>3. /\ [tok \in 1 .. n |-> BgmvIndex(indices, tok - 1)] = indices
      /\ [tok \in 1 .. n |-> SgmvIndex(ComputeMeta(indices), tok - 1)] = indices
  BY <1>1, <1>2 DEF IsList
<1>4. Listed(indices) = indices
  BY <1>1, ListedSame
<1> QED
  BY <1>1, <1>3, <1>4 DEF BgmvIndices, SgmvIndices

(* ProcessImpl of the shrink kernels leaves out no place of x and takes    *)
(* none twice.                                                             *)
LEMMA ShrinkRowExact ==
  ASSUME NEW tok, NEW adapter \in Int, NEW in \in Nat
  PROVE  ShrinkRow(tok, adapter, in) = LoraProduct(tok, adapter, in)
<1>1. LoraRank \in Nat \ {0} /\ InTile \in Nat \ {0}
  BY LoraAssumption
<1> DEFINE Row(r) == FlattenSeq([j \in 1 .. in \div InTile |-> [c \in 1 .. InTile |->
                         <<tok, (j - 1) * InTile + c - 1,
                           adapter * in * LoraRank + (r - 1) * in + ((j - 1) * InTile + c - 1)>>]])
                     \o [c \in 1 .. in % InTile |->
                         <<tok, (in \div InTile) * InTile + c - 1,
                           adapter * in * LoraRank + (r - 1) * in + ((in \div InTile) * InTile + c - 1)>>]
           Product(r) == [c \in 1 .. in |-> <<tok, c - 1, adapter * in * LoraRank + (r - 1) * in + c - 1>>]
<1>2. ShrinkRow(tok, adapter, in) = Listed([r \in 1 .. LoraRank |-> Row(r)])
  BY Zenon DEF ShrinkRow
<1>3. ASSUME NEW r \in 1 .. LoraRank PROVE Row(r) = Product(r)
  <2>1. PICK base \in Int : base = adapter * in * LoraRank + (r - 1) * in
    BY <1>1
  <2> DEFINE g == [col \in Nat |-> <<tok, col, base + col>>]
  <2>3. InTiles(g, in, InTile) = [c \in 1 .. in |-> g[c - 1]]
    <3> HIDE DEF g
    <3> QED
      BY <1>1, Tiled
  <2>4. PICK q \in Nat, s \in 0 .. InTile - 1 :
          in = InTile * q + s /\ q = in \div InTile /\ s = in % InTile
    BY <1>1, DivMod
  <2>5. \A j \in 1 .. q : \A c \in 1 .. InTile : (j - 1) * InTile + c - 1 \in Nat
    <3> SUFFICES ASSUME NEW j \in 1 .. q, NEW c \in 1 .. InTile PROVE (j - 1) * InTile + c - 1 \in Nat
      OBVIOUS
    <3>1. (j - 1) * InTile \in Nat
      BY <1>1
    <3> QED
      BY <3>1, <1>1
  <2>6. \A c \in 1 .. s : q * InTile + c - 1 \in Nat
    <3>1. q * InTile \in Nat
      BY <1>1
    <3> QED
      BY <3>1, <1>1
  <2>7. [j \in 1 .. q |-> [c \in 1 .. InTile |-> g[(j - 1) * InTile + c - 1]]]
          = [j \in 1 .. q |-> [c \in 1 .. InTile |->
               <<tok, (j - 1) * InTile + c - 1, base + ((j - 1) * InTile + c - 1)>>]]
    BY <2>5
  <2>8. [c \in 1 .. s |-> g[q * InTile + c - 1]]
          = [c \in 1 .. s |-> <<tok, q * InTile + c - 1, base + (q * InTile + c - 1)>>]
    BY <2>6
  <2>9. [c \in 1 .. in |-> g[c - 1]] = [c \in 1 .. in |-> <<tok, c - 1, base + c - 1>>]
    <3>1. \A c \in 1 .. in : c - 1 \in Nat /\ base + (c - 1) = base + c - 1
      OBVIOUS
    <3> QED
      BY <3>1
  <2> HIDE DEF g
  <2>10. FlattenSeq([j \in 1 .. q |-> [c \in 1 .. InTile |->
               <<tok, (j - 1) * InTile + c - 1, base + ((j - 1) * InTile + c - 1)>>]])
           \o [c \in 1 .. s |-> <<tok, q * InTile + c - 1, base + (q * InTile + c - 1)>>]
         = [c \in 1 .. in |-> <<tok, c - 1, base + c - 1>>]
    <3>1. InTiles(g, in, InTile) =
            FlattenSeq([j \in 1 .. q |-> [c \in 1 .. InTile |-> g[(j - 1) * InTile + c - 1]]])
              \o [c \in 1 .. s |-> g[q * InTile + c - 1]]
      BY <2>4, Zenon DEF InTiles
    <3> QED
      BY <3>1, <2>3, <2>7, <2>8, <2>9, Zenon
  <2> QED
    BY <2>1, <2>4, <2>10, Zenon
<1> HIDE DEF Row
<1>4. [r \in 1 .. LoraRank |-> Row(r)] = [r \in 1 .. LoraRank |-> Product(r)]
  BY <1>3
<1>5. LoraProduct(tok, adapter, in) = [r \in 1 .. LoraRank |-> Product(r)]
  BY DEF LoraProduct
<1>6. IsList(LoraProduct(tok, adapter, in), LoraRank) /\ LoraRank \in Nat
  BY <1>1, <1>5 DEF IsList
<1> QED
  BY <1>2, <1>4, <1>5, <1>6, ListedSame

-----------------------------------------------------------------------------
(* Expand. *)

(* How the kernels' sizes divide each other. *)
LEMMA TileSizes ==
  \E a, b, n \in Nat \ {0} :
    /\ Repeat = LoraRank * a /\ Repeat \div LoraRank = a
    /\ WeightTile = LoraRank * (a * b) /\ WeightTile \div LoraRank = a * b /\ a * b \in Nat \ {0}
    /\ OutTile = (a * b) * n /\ OutTile \div (a * b) = n
<1>1. /\ LoraRank \in Nat \ {0} /\ OutTile \in Nat \ {0} /\ WeightTile \in Nat \ {0} /\ Repeat \in Nat \ {0}
      /\ Repeat % LoraRank = 0 /\ WeightTile % Repeat = 0
      /\ OutTile % (WeightTile \div LoraRank) = 0
  BY LoraAssumption
<1>2. PICK a \in Nat : Repeat = LoraRank * a /\ a = Repeat \div LoraRank
  BY <1>1, Divides
<1>3. a # 0
  BY <1>1, <1>2
<1>4. PICK b \in Nat : WeightTile = Repeat * b
  BY <1>1, Divides
<1>5. b # 0
  BY <1>1, <1>4
<1>6. a * b \in Nat \ {0}
  <2>1. a * b \in Nat
    OBVIOUS
  <2>2. 0 < b => a * 0 + a <= a * b
    BY <1>3, ProductGrows
  <2> QED
    BY <2>1, <2>2, <1>3, <1>5
<1>7. WeightTile = LoraRank * (a * b)
  <2>1. (LoraRank * a) * b = LoraRank * (a * b)
    BY <1>1
  <2> QED
    BY <2>1, <1>2, <1>4
<1>8. PICK p \in Nat \ {0} : p = a * b
  BY <1>6
<1>9. WeightTile \div LoraRank = p
  <2>1. LoraRank * p + 0 = WeightTile
    BY <1>1, <1>7, <1>8
  <2>2. 0 \in 0 .. LoraRank - 1
    BY <1>1
  <2>3. (LoraRank * p + 0) \div LoraRank = p
    BY <2>2, <1>1, DivModUnique
  <2> QED
    BY <2>1, <2>3
<1>10. PICK n \in Nat : OutTile = p * n /\ n = OutTile \div p
  BY <1>1, <1>9, Divides
<1>11. n # 0
  BY <1>1, <1>10
<1> QED
  BY <1>2, <1>3, <1>5, <1>6, <1>7, <1>8, <1>9, <1>10, <1>11

(* The weights of a slice fill the steps of the expand kernels. *)
WidthFits(hidden) == (hidden * LoraRank) % Repeat = 0

(* The columns that the steps behind the last full tile compute: all. *)
LEMMA LastColumns ==
  ASSUME NEW hidden \in Nat, WidthFits(hidden),
         NEW h \in Nat, h = hidden % OutTile
  PROVE  ((h * LoraRank) \div WeightTile) * (WeightTile \div LoraRank)
           + (((h * LoraRank) % WeightTile) \div Repeat) * (Repeat \div LoraRank) = h
<1>1. LoraRank \in Nat \ {0} /\ OutTile \in Nat \ {0} /\ WeightTile \in Nat \ {0} /\ Repeat \in Nat \ {0}
  BY LoraAssumption
<1>2. PICK a \in Nat \ {0}, b \in Nat \ {0}, n \in Nat \ {0} :
        /\ Repeat = LoraRank * a /\ Repeat \div LoraRank = a
        /\ WeightTile = LoraRank * (a * b) /\ WeightTile \div LoraRank = a * b /\ a * b \in Nat \ {0}
        /\ OutTile = (a * b) * n
  BY TileSizes
<1>3. PICK p \in Nat \ {0} : p = a * b
  BY <1>2
<1>4. PICK t \in Nat : hidden = a * t
  <2>1. PICK x \in Nat : x = hidden * LoraRank
    BY <1>1
  <2>2. PICK t \in Nat : hidden * LoraRank = Repeat * t
    <3>1. x % Repeat = 0
      BY <2>1 DEF WidthFits
    <3>2. \E t \in Nat : x = Repeat * t /\ t = x \div Repeat
      BY <3>1, <1>1, Divides
    <3> QED
      BY <3>2, <2>1
  <2>3. LoraRank * hidden = LoraRank * (a * t)
    <3>1. LoraRank * hidden = hidden * LoraRank /\ (LoraRank * a) * t = LoraRank * (a * t)
      BY <1>1
    <3> QED
      BY <3>1, <2>2, <1>2
  <2>4. hidden = a * t
    <3>1. a * t \in Int
      OBVIOUS
    <3> QED
      BY <3>1, <2>3, <1>1, Cancel
  <2> QED
    BY <2>4
<1>5. PICK Q \in Nat : hidden = OutTile * Q + h
  BY <1>1, DivMod
<1>6. PICK u \in Nat : h = a * u
  <2>1. h = a * (t - b * n * Q)
    <3>1. OutTile * Q = a * (b * n * Q)
      BY <1>2
    <3>2. a * t - a * (b * n * Q) = a * (t - b * n * Q)
      OBVIOUS
    <3>3. h = a * t - a * (b * n * Q)
      <4>1. PICK x \in Int, y \in Int : x = a * t /\ y = a * (b * n * Q)
        OBVIOUS
      <4>2. hidden = x /\ hidden = y + h
        BY <4>1, <3>1, <1>4, <1>5
      <4>3. h = x - y
        BY <4>2
      <4> QED
        BY <4>1, <4>3
    <3> QED
      BY <3>2, <3>3
  <2>2. PICK u \in Int : u = t - b * n * Q
    OBVIOUS
  <2>3. u \in Nat
    BY <2>1, <2>2, Multiple
  <2> QED
    BY <2>1, <2>2, <2>3
<1>7. PICK e \in Nat, f \in 0 .. p - 1 : h = p * e + f /\ e = h \div p /\ f = h % p
  BY DivMod
<1>8. PICK v \in Nat : f = a * v
  <2>1. f = a * (u - b * e)
    <3>1. p * e = a * (b * e) /\ a * u - a * (b * e) = a * (u - b * e)
      BY <1>3
    <3> QED
      BY <3>1, <1>6, <1>7
  <2>2. PICK v \in Int : v = u - b * e
    OBVIOUS
  <2>3. v \in Nat
    BY <2>1, <2>2, Multiple
  <2> QED
    BY <2>1, <2>2, <2>3
<1>9. (h * LoraRank) \div WeightTile = e /\ (h * LoraRank) % WeightTile = LoraRank * f
  <2>1. h * LoraRank = WeightTile * e + LoraRank * f
    <3>1. h * LoraRank = (p * e + f) * LoraRank
      BY <1>7
    <3>2. (p * e + f) * LoraRank = (LoraRank * p) * e + LoraRank * f
      BY <1>1
    <3> QED
      BY <3>1, <3>2, <1>2, <1>3
  <2>2. LoraRank * f \in 0 .. WeightTile - 1
    <3>1. LoraRank * f \in Nat /\ LoraRank * f + LoraRank <= LoraRank * p
      BY <1>1, ProductGrows
    <3> QED
      BY <3>1, <1>1, <1>2, <1>3
  <2>3. PICK x \in 0 .. WeightTile - 1 : x = LoraRank * f
    BY <2>2
  <2>4. (WeightTile * e + x) \div WeightTile = e /\ (WeightTile * e + x) % WeightTile = x
    BY <1>1, DivModUnique
  <2> QED
    BY <2>1, <2>3, <2>4
<1>10. (LoraRank * f) \div Repeat = v
  <2>1. LoraRank * f = Repeat * v + 0
    <3>1. LoraRank * (a * v) = (LoraRank * a) * v /\ Repeat * v \in Nat
      BY <1>1
    <3> QED
      BY <3>1, <1>2, <1>8
  <2>2. 0 \in 0 .. Repeat - 1
    BY <1>1
  <2> QED
    BY <2>1, <2>2, <1>1, DivModUnique
<1>11. e * p + v * a = h
  <2>1. e * p = p * e /\ v * a = a * v
    OBVIOUS
  <2> QED
    BY <2>1, <1>7, <1>8
<1> QED
  BY <1>2, <1>3, <1>9, <1>10, <1>11

(* Process, Compute and ComputeLastIteration: column p of a slice is       *)
(* computed, with the weights of that column.                              *)
LEMMA WeightPlace ==
  ASSUME NEW adapter \in Nat, NEW hidden \in Nat, WidthFits(hidden), NEW p \in 0 .. hidden - 1
  PROVE  ExpandWeight(adapter, hidden, p) = (adapter * hidden + p) * LoraRank
<1>1. LoraRank \in Nat \ {0} /\ OutTile \in Nat \ {0} /\ WeightTile \in Nat \ {0} /\ Repeat \in Nat \ {0}
  BY LoraAssumption
<1>2. PICK per \in Nat \ {0}, n \in Nat \ {0} :
        /\ WeightTile = LoraRank * per /\ WeightTile \div LoraRank = per
        /\ OutTile = per * n /\ OutTile \div per = n
  BY TileSizes
<1>3. PICK q \in Nat, s \in 0 .. OutTile - 1 : p = OutTile * q + s /\ q = p \div OutTile /\ s = p % OutTile
  BY <1>1, DivMod
<1>4. PICK Q \in Nat, h \in 0 .. OutTile - 1 :
        hidden = OutTile * Q + h /\ Q = hidden \div OutTile /\ h = hidden % OutTile
  BY <1>1, DivMod
<1>5. PICK g \in Nat, w \in 0 .. per - 1 : s = per * g + w /\ g = s \div per /\ w = s % per
  <2>1. s \in Nat
    BY <1>1
  <2> QED
    BY <2>1, DivMod
<1>6. p % per = w
  <2>1. p = per * (n * q + g) + w
    <3>1. OutTile * q = per * (n * q) /\ per * (n * q) + per * g = per * (n * q + g)
      BY <1>2
    <3>2. PICK x \in Nat, y \in Nat : x = OutTile * q /\ y = per * g
      BY <1>1
    <3>3. p = (x + y) + w
      <4>1. p = x + s
        BY <3>2, <1>3
      <4>2. s = y + w
        BY <3>2, <1>5
      <4> QED
        BY <4>1, <4>2
    <3>4. x + y = per * (n * q + g)
      BY <3>1, <3>2
    <3> QED
      BY <3>3, <3>4
  <2>2. n * q + g \in Nat
    OBVIOUS
  <2> QED
    BY <2>1, <2>2, DivModUnique
<1>7. q < Q \/ s < h
  <2>1. Q < q => OutTile * Q + OutTile <= OutTile * q
    BY <1>1, ProductGrows
  <2>2. PICK x \in Nat, y \in Nat : x = OutTile * q /\ y = OutTile * Q
    BY <1>1
  <2>3. p = x + s /\ hidden = y + h /\ (Q < q => y + OutTile <= x) /\ (Q = q => x = y)
    BY <2>1, <2>2, <1>3, <1>4
  <2> QED
    BY <2>3, <1>1
<1>8. ((h * LoraRank) \div WeightTile) * per
        + (((h * LoraRank) % WeightTile) \div Repeat) * (Repeat \div LoraRank) = h
  <2>1. h \in Nat
    BY <1>1
  <2> QED
    BY <2>1, <1>2, <1>4, LastColumns
<1>9. ExpandWeight(adapter, hidden, p) = adapter * LoraRank * hidden + (q * n + g) * WeightTile + w * LoraRank
  <2> DEFINE x == (h * LoraRank) \div WeightTile
             z == ((h * LoraRank) % WeightTile) \div Repeat
             k == Repeat \div LoraRank
             computed == q < Q \/ s < x * per + z * k
  <2>1. ExpandWeight(adapter, hidden, p) =
          IF ~computed THEN -1
          ELSE adapter * LoraRank * hidden + (q * n + g) * WeightTile + w * LoraRank
    BY <1>2, <1>3, <1>4, <1>5, <1>6 DEF ExpandWeight
  <2>2. computed
    BY <1>7, <1>8
  <2> HIDE DEF computed
  <2> QED
    BY <2>1, <2>2
<1>10. adapter * LoraRank * hidden + (q * n + g) * (LoraRank * per) + w * LoraRank
         = (adapter * hidden + ((per * n) * q + (per * g + w))) * LoraRank
  BY <1>1
<1>11. p = (per * n) * q + (per * g + w)
  BY <1>2, <1>3, <1>5
<1> QED
  BY <1>2, <1>9, <1>10, <1>11

-----------------------------------------------------------------------------
(* The wrapper. *)

(* What the shrink kernels should leave in the buffer of a slice, and what *)
(* the expand kernels should make of y.                                    *)
Shrunk(indices, in) ==
  [tok \in DOMAIN indices |-> IF indices[tok] < 0 THEN <<>> ELSE LoraProduct(tok, indices[tok], in)]

Delta(x, adapter, hidden, p) == << <<x, (adapter * hidden + p) * LoraRank>> >>

ExpandedRow(row, x, adapter, offset, hidden) ==
  [k \in DOMAIN row |->
     IF k <= offset \/ k > offset + hidden THEN row[k]
     ELSE row[k] \o Delta(x, adapter, hidden, k - 1 - offset)]

Expanded(y, x, indices, offset, hidden) ==
  [tok \in DOMAIN y |->
     IF indices[tok] < 0 THEN y[tok] ELSE ExpandedRow(y[tok], x[tok], indices[tok], offset, hidden)]

(* n rows of the given width. *)
IsRows(y, n, width) == IsList(y, n) /\ \A tok \in 1 .. n : IsList(y[tok], width)

LEMMA ShrinkExact ==
  ASSUME NEW indices \in Seq(Int), Len(indices) # 0, NEW in \in Nat, NEW aiv \in Nat \ {0}
  PROVE  Shrink(indices, in, aiv) = Shrunk(indices, in)
<1>1. PICK n \in Nat \ {0} : n = Len(indices) /\ DOMAIN indices = 1 .. n /\ indices \in [1 .. n -> Int]
  BY LenProperties
<1>2. ASSUME NEW tok \in 1 .. n
      PROVE  (IF indices[tok] < 0 \/ Cores(Len(indices), aiv, tok - 1) = {} THEN <<>>
              ELSE ShrinkRow(tok, indices[tok], in))
             = IF indices[tok] < 0 THEN <<>> ELSE LoraProduct(tok, indices[tok], in)
  <2>1. tok - 1 \in 0 .. n - 1
    OBVIOUS
  <2>2. Cardinality(Cores(n, aiv, tok - 1)) = 1
    BY <2>1, OneCore
  <2>3. Cores(n, aiv, tok - 1) # {}
    <3>1. Cardinality({}) = 0
      BY FS_EmptySet
    <3>2. 0 # 1
      OBVIOUS
    <3> QED
      BY <3>1, <3>2, <2>2, Zenon
  <2>4. indices[tok] \in Int
    BY <1>1
  <2>5. ShrinkRow(tok, indices[tok], in) = LoraProduct(tok, indices[tok], in)
    BY <2>4, ShrinkRowExact
  <2> QED
    BY <2>3, <2>5, <1>1
<1> DEFINE f == [tok \in DOMAIN indices |->
                   IF indices[tok] < 0 \/ Cores(Len(indices), aiv, tok - 1) = {} THEN <<>>
                   ELSE ShrinkRow(tok, indices[tok], in)]
<1>3. f = Shrunk(indices, in)
  BY <1>1, <1>2 DEF Shrunk
<1>4. IsList(f, n)
  BY <1>1 DEF IsList
<1>5. Shrink(indices, in, aiv) = Listed(f)
  BY DEF Shrink
<1> HIDE DEF f
<1> QED
  BY <1>3, <1>4, <1>5, ListedSame

(* _apply_shrink, in prefills and decodes. *)
LEMMA ApplyShrinkExact ==
  ASSUME NEW indices \in Seq(Int), Len(indices) # 0, NEW is_prefill \in BOOLEAN,
         NEW in \in Nat, NEW aiv \in Nat \ {0}
  PROVE  ApplyShrink(indices, ComputeMeta(indices), is_prefill, in, aiv) = Shrunk(indices, in)
<1>1. CASE ~is_prefill
  BY <1>1, FoundIndices, ShrinkExact DEF ApplyShrink, BgmvShrink
<1>2. CASE is_prefill /\ ~ComputeMeta(indices).no_lora
  BY <1>2, FoundIndices, ShrinkExact DEF ApplyShrink, SgmvShrink
<1>3. CASE is_prefill /\ ComputeMeta(indices).no_lora
  <2>1. DOMAIN indices = 1 .. Len(indices)
    BY LenProperties
  <2>2. \A tok \in DOMAIN indices : indices[tok] = -1
    BY <2>1, <1>3, NoLora
  <2>3. \A tok \in DOMAIN indices : indices[tok] < 0
    BY <2>2
  <2>4. Shrunk(indices, in) = [tok \in DOMAIN indices |-> <<>>]
    BY <2>3 DEF Shrunk
  <2> QED
    BY <1>3, <2>4 DEF ApplyShrink
<1> QED
  BY <1>1, <1>2, <1>3

(* A row of an expand kernel: each column of the slice gets one delta. *)
LEMMA ExpandExact ==
  ASSUME NEW indices \in Seq(Int), Len(indices) # 0, NEW aiv \in Nat \ {0},
         NEW width \in Nat, NEW y, IsRows(y, Len(indices), width), NEW x,
         NEW offset \in Nat, NEW hidden \in Nat, WidthFits(hidden)
  PROVE  Expand(y, x, indices, offset, hidden, aiv) = Expanded(y, x, indices, offset, hidden)
<1>1. PICK n \in Nat \ {0} : n = Len(indices) /\ indices \in [1 .. n -> Int]
  BY LenProperties
<1>2. IsList(y, n) /\ Len(y) = n /\ DOMAIN y = 1 .. n
  BY <1>1, ListedSame DEF IsRows
<1>3. \A tok \in 1 .. n : IsList(y[tok], width) /\ DOMAIN y[tok] = 1 .. width
  BY <1>1, ListedSame DEF IsRows
<1> DEFINE Row(tok) == [k \in DOMAIN y[tok] |->
              IF k <= offset \/ k > offset + hidden THEN y[tok][k]
              ELSE y[tok][k] \o [c \in 1 .. Cardinality(Cores(Len(y), aiv, tok - 1)) |->
                      <<x[tok], ExpandWeight(indices[tok], hidden, k - 1 - offset)>>]]
<1>4. ASSUME NEW tok \in 1 .. n, ~(indices[tok] < 0)
      PROVE  Listed(Row(tok)) = ExpandedRow(y[tok], x[tok], indices[tok], offset, hidden)
  <2>1. tok - 1 \in 0 .. n - 1
    OBVIOUS
  <2>2. Cardinality(Cores(Len(y), aiv, tok - 1)) = 1
    BY <2>1, <1>2, OneCore
  <2>3. indices[tok] \in Nat
    BY <1>1, <1>4
  <2>4. ASSUME NEW k \in 1 .. width, ~(k <= offset \/ k > offset + hidden)
        PROVE  [c \in 1 .. Cardinality(Cores(Len(y), aiv, tok - 1)) |->
                  <<x[tok], ExpandWeight(indices[tok], hidden, k - 1 - offset)>>]
               = Delta(x[tok], indices[tok], hidden, k - 1 - offset)
    <3>1. PICK p \in 0 .. hidden - 1 : p = k - 1 - offset
      BY <2>4
    <3>2. ExpandWeight(indices[tok], hidden, p) = (indices[tok] * hidden + p) * LoraRank
      BY <2>3, WeightPlace
    <3>3. \A z : [c \in 1 .. 1 |-> z] = <<z>>
      OBVIOUS
    <3> QED
      BY <3>1, <3>2, <3>3, <2>2 DEF Delta
  <2>5. Row(tok) = ExpandedRow(y[tok], x[tok], indices[tok], offset, hidden)
    BY <2>4, <1>3 DEF ExpandedRow
  <2>6. IsList(Row(tok), width)
    BY <1>3 DEF IsList
  <2> HIDE DEF Row
  <2> QED
    BY <2>5, <2>6, ListedSame
<1> HIDE DEF Row
<1> DEFINE f == [tok \in DOMAIN y |-> IF indices[tok] < 0 THEN y[tok] ELSE Listed(Row(tok))]
<1>5. Expand(y, x, indices, offset, hidden, aiv) = Listed(f)
  BY DEF Expand, Row
<1>6. f = Expanded(y, x, indices, offset, hidden)
  BY <1>2, <1>4 DEF Expanded
<1>7. IsList(f, n)
  BY <1>2 DEF IsList
<1> HIDE DEF f
<1> QED
  BY <1>5, <1>6, <1>7, ListedSame

(* _apply_expand, in prefills and decodes. *)
LEMMA ApplyExpandExact ==
  ASSUME NEW indices \in Seq(Int), Len(indices) # 0, NEW is_prefill \in BOOLEAN, NEW aiv \in Nat \ {0},
         NEW width \in Nat, NEW y, IsRows(y, Len(indices), width), NEW x,
         NEW offset \in Nat, NEW hidden \in Nat, WidthFits(hidden)
  PROVE  ApplyExpand(y, x, indices, ComputeMeta(indices), is_prefill, offset, hidden, aiv)
           = Expanded(y, x, indices, offset, hidden)
<1>1. Len(indices) \in Nat /\ DOMAIN indices = 1 .. Len(indices)
  BY LenProperties
<1>2. Len(y) = Len(indices) /\ DOMAIN y = 1 .. Len(indices)
  BY <1>1, ListedSame DEF IsRows
<1>3. Expand(y, x, indices, offset, hidden, aiv) = Expanded(y, x, indices, offset, hidden)
  BY ExpandExact
<1>4. CASE ~is_prefill
  BY <1>2, <1>3, <1>4, FoundIndices DEF ApplyExpand, BgmvExpand
<1>5. CASE is_prefill /\ ~ComputeMeta(indices).no_lora
  BY <1>2, <1>3, <1>5, FoundIndices DEF ApplyExpand, SgmvExpand
<1>6. CASE is_prefill /\ ComputeMeta(indices).no_lora
  <2>1. \A tok \in 1 .. Len(indices) : indices[tok] = -1
    BY <1>6, NoLora
  <2>2. \A tok \in 1 .. Len(indices) : indices[tok] < 0
    BY <2>1
  <2>3. y = [tok \in 1 .. Len(indices) |-> y[tok]]
    BY DEF IsRows, IsList
  <2>4. Expanded(y, x, indices, offset, hidden) = [tok \in 1 .. Len(indices) |-> y[tok]]
    BY <2>2, <1>2 DEF Expanded
  <2> QED
    BY <2>3, <2>4, <1>6 DEF ApplyExpand
<1> QED
  BY <1>4, <1>5, <1>6

LEMMA ExpandedRows ==
  ASSUME NEW n \in Nat, NEW width \in Nat, NEW y, IsRows(y, n, width), NEW x, NEW indices,
         NEW offset, NEW hidden
  PROVE  IsRows(Expanded(y, x, indices, offset, hidden), n, width)
<1>1. DOMAIN y = 1 .. n /\ \A tok \in 1 .. n : IsList(y[tok], width) /\ DOMAIN y[tok] = 1 .. width
  BY ListedSame DEF IsRows
<1>2. PICK z : z = Expanded(y, x, indices, offset, hidden)
  OBVIOUS
<1>3. \A tok \in 1 .. n : z[tok] = IF indices[tok] < 0 THEN y[tok]
                                   ELSE ExpandedRow(y[tok], x[tok], indices[tok], offset, hidden)
  BY <1>1, <1>2 DEF Expanded
<1>4. IsList(z, n)
  BY <1>1, <1>2 DEF Expanded, IsList
<1>5. \A tok \in 1 .. n : IsList(ExpandedRow(y[tok], x[tok], indices[tok], offset, hidden), width)
  BY <1>1 DEF ExpandedRow, IsList
<1> QED
  BY <1>1, <1>2, <1>3, <1>4, <1>5 DEF IsRows

-----------------------------------------------------------------------------
(* The slices of a projection. *)

(* What a row should hold, column by column. *)
HasDeltas(row, x, adapter, slices, off, n) ==
  /\ IsList(row, off[n])
  /\ \A i \in 1 .. n : \A k \in 1 .. slices[i] :
       row[off[i - 1] + k]
         = IF adapter < 0 THEN <<"base">> ELSE <<"base">> \o Delta(x, adapter, slices[i], k - 1)

LEMMA WithDeltaAt ==
  ASSUME NEW n \in Nat, NEW slices, IsList(slices, n), slices \in [1 .. n -> Nat],
         NEW off, Offsets(off, slices, n), NEW x, NEW adapter \in Int
  PROVE  HasDeltas(WithDelta(x, adapter, slices), x, adapter, slices, off, n)
<1>1. LoraRank \in Nat /\ DOMAIN slices = 1 .. n
  BY LoraAssumption
<1> DEFINE seqs == [s \in DOMAIN slices |-> [k \in 1 .. slices[s] |->
                      <<"base">> \o IF adapter < 0 THEN <<>>
                                    ELSE << <<x, (adapter * slices[s] + k - 1) * LoraRank>> >>]]
<1>2. WithDelta(x, adapter, slices) = FlattenSeq(seqs)
  BY DEF WithDelta
<1>3. IsList(seqs, n) /\ \A i \in 1 .. n : IsList(seqs[i], slices[i])
  BY <1>1 DEF IsList
<1>4. ASSUME NEW i \in 1 .. n, NEW k \in 1 .. slices[i]
      PROVE  seqs[i][k]
               = IF adapter < 0 THEN <<"base">> ELSE <<"base">> \o Delta(x, adapter, slices[i], k - 1)
  <2>1. seqs[i][k] = <<"base">> \o IF adapter < 0 THEN <<>>
                                   ELSE << <<x, (adapter * slices[i] + k - 1) * LoraRank>> >>
    BY <1>1
  <2>2. adapter * slices[i] + k - 1 = adapter * slices[i] + (k - 1)
    <3>1. slices[i] \in Nat
      OBVIOUS
    <3>2. adapter * slices[i] \in Int
      BY <3>1
    <3> QED
      BY <3>2
  <2>3. <<"base">> \o <<>> = <<"base">>
    <3>1. <<"base">> \in Seq({"base"})
      OBVIOUS
    <3> QED
      BY <3>1, ConcatEmptySeq
  <2> QED
    BY <2>1, <2>2, <2>3 DEF Delta
<1> HIDE DEF seqs
<1>5. /\ IsList(FlattenSeq(seqs), off[n])
      /\ \A i \in 1 .. n : \A k \in 1 .. slices[i] : FlattenSeq(seqs)[off[i - 1] + k] = seqs[i][k]
  BY <1>3, Flattened DEF IsFlat
<1> QED
  BY <1>2, <1>4, <1>5 DEF HasDeltas

LEMMA BaseRowsFacts ==
  ASSUME NEW n \in Nat, NEW width \in Nat
  PROVE  /\ IsRows(BaseRows(n, width), n, width)
         /\ \A t \in 1 .. n : \A p \in 1 .. width : BaseRows(n, width)[t][p] = <<"base">>
<1> DEFINE y == [t \in 1 .. n |-> [k \in 1 .. width |-> <<"base">>]]
<1>1. IsRows(y, n, width)
  BY DEF IsRows, IsList
<1>2. BaseRows(n, width) = y
  <2>1. IsList(y, n)
    BY DEF IsList
  <2>2. BaseRows(n, width) = Listed(y)
    BY DEF BaseRows
  <2> HIDE DEF y
  <2> QED
    BY <2>1, <2>2, ListedSame
<1>3. \A t \in 1 .. n : \A p \in 1 .. width : y[t][p] = <<"base">>
  OBVIOUS
<1> QED
  BY <1>1, <1>2, <1>3

(* The slices one behind the other: s of them leave their deltas in their  *)
(* own columns and the rest as it is.                                      *)
SliceBySlice(after, x, indices, slices, off, n) ==
  /\ indices \in Seq(Int) /\ n \in Nat
  /\ IsList(slices, n) /\ slices \in [1 .. n -> Nat] /\ Offsets(off, slices, n)
  /\ after[0] = BaseRows(Len(indices), off[n])
  /\ \A s \in 1 .. n : after[s] = Expanded(after[s - 1], x, indices, off[s - 1], slices[s])

(* What they should leave. *)
Deltas(x, indices, slices) == [t \in 1 .. Len(indices) |-> WithDelta(x[t], indices[t], slices)]

LEMMA SlicesExpanded ==
  ASSUME NEW after, NEW x, NEW indices, NEW slices, NEW off, NEW n,
         SliceBySlice(after, x, indices, slices, off, n)
  PROVE  after[n] = Deltas(x, indices, slices)
<1>p. /\ indices \in Seq(Int) /\ n \in Nat
      /\ IsList(slices, n) /\ slices \in [1 .. n -> Nat] /\ Offsets(off, slices, n)
  BY DEF SliceBySlice
<1> USE <1>p
<1>0. /\ after[0] = BaseRows(Len(indices), off[n])
      /\ \A s \in 1 .. n : after[s] = Expanded(after[s - 1], x, indices, off[s - 1], slices[s])
  BY DEF SliceBySlice
<1>1. PICK N \in Nat : N = Len(indices) /\ indices \in [1 .. N -> Int]
  BY LenProperties
<1>2. off \in [0 .. n -> Nat] /\ off[0] = 0 /\ \A i \in 1 .. n : off[i] = off[i - 1] + slices[i]
  BY DEF Offsets
<1>3. PICK W \in Nat : W = off[n]
  BY <1>2
<1>11. \A i \in 0 .. n : \A j \in i .. n : off[i] <= off[j]
  BY OffsetsGrow
<1>12. \A p \in 1 .. W : \E i \in 1 .. n : \E k \in 1 .. slices[i] : p = off[i - 1] + k
  <2> SUFFICES ASSUME NEW p \in 1 .. W PROVE LiesIn(p, slices, off, n)
    BY DEF LiesIn
  <2>1. p \in 1 .. off[n]
    BY <1>3
  <2> QED
    BY <2>1, Located
<1>13. ASSUME NEW v, NEW adapter \in Int
       PROVE  /\ IsList(WithDelta(v, adapter, slices), W)
              /\ \A i \in 1 .. n : \A k \in 1 .. slices[i] :
                   WithDelta(v, adapter, slices)[off[i - 1] + k]
                     = IF adapter < 0 THEN <<"base">>
                       ELSE <<"base">> \o Delta(v, adapter, slices[i], k - 1)
  <2>1. HasDeltas(WithDelta(v, adapter, slices), v, adapter, slices, off, n)
    BY WithDeltaAt
  <2> QED
    BY <2>1, <1>3 DEF HasDeltas
<1> DEFINE Cell(s, t, i, k) == IF ~(indices[t] < 0) /\ i <= s
                               THEN <<"base">> \o Delta(x[t], indices[t], slices[i], k - 1) ELSE <<"base">>
           Good(s) == /\ IsRows(after[s], N, W)
                      /\ \A t \in 1 .. N : \A i \in 1 .. n : \A k \in 1 .. slices[i] :
                           after[s][t][off[i - 1] + k] = Cell(s, t, i, k)
           bad == {s \in 0 .. n : ~Good(s)}
<1>4. \A i \in 1 .. n : \A k \in 1 .. slices[i] :
        /\ off[i - 1] \in Nat /\ off[i - 1] < off[i - 1] + k /\ off[i - 1] + k <= off[i]
        /\ off[i - 1] + k \in 1 .. W
  <2> SUFFICES ASSUME NEW i \in 1 .. n, NEW k \in 1 .. slices[i]
               PROVE  /\ off[i - 1] \in Nat /\ off[i - 1] < off[i - 1] + k /\ off[i - 1] + k <= off[i]
                      /\ off[i - 1] + k \in 1 .. W
    OBVIOUS
  <2>1. off[i - 1] \in Nat /\ slices[i] \in Nat /\ off[i] = off[i - 1] + slices[i]
    BY <1>2
  <2>2. off[i] <= off[n]
    <3>1. i \in 0 .. n /\ n \in i .. n
      OBVIOUS
    <3> QED
      BY <3>1, OffsetsGrow
  <2>3. PICK o \in Nat, m \in Nat : o = off[i - 1] /\ m = slices[i] /\ off[i] = o + m
    BY <2>1
  <2>4. k \in 1 .. m /\ o + m <= W
    BY <2>2, <2>3, <1>3
  <2>5. o < o + k /\ o + k <= o + m /\ o + k \in 1 .. W
    BY <2>4
  <2> QED
    BY <2>3, <2>5
<1>5. Good(0)
  <2>1. /\ IsRows(after[0], N, W)
        /\ \A t \in 1 .. N : \A p \in 1 .. W : after[0][t][p] = <<"base">>
    <3>1. after[0] = BaseRows(N, W)
      BY <1>0, <1>1, <1>3
    <3> QED
      BY <3>1, BaseRowsFacts
  <2>2. \A i \in 1 .. n : ~(i <= 0)
    OBVIOUS
  <2> QED
    BY <2>1, <2>2, <1>4
<1>6. ASSUME NEW s \in 1 .. n, Good(s - 1) PROVE Good(s)
  <2>1. after[s] = Expanded(after[s - 1], x, indices, off[s - 1], slices[s])
    BY <1>0
  <2>2. IsRows(after[s - 1], N, W)
    BY <1>6
  <2>3. IsRows(after[s], N, W)
    BY <2>1, <2>2, ExpandedRows
  <2>4. DOMAIN after[s - 1] = 1 .. N /\ \A t \in 1 .. N : DOMAIN after[s - 1][t] = 1 .. W
    BY <2>2, ListedSame DEF IsRows
  <2>5. ASSUME NEW t \in 1 .. N, NEW i \in 1 .. n, NEW k \in 1 .. slices[i]
        PROVE  after[s][t][off[i - 1] + k] = Cell(s, t, i, k)
    <3>1. PICK p \in 1 .. W : p = off[i - 1] + k
      BY <1>4
    <3>2. after[s - 1][t][p] = Cell(s - 1, t, i, k)
      BY <3>1, <1>6
    <3>3. CASE indices[t] < 0
      <4>1. after[s][t] = after[s - 1][t]
        BY <3>3, <2>1, <2>4 DEF Expanded
      <4> QED
        BY <3>1, <3>2, <3>3, <4>1
    <3>4. CASE ~(indices[t] < 0)
      <4>1. after[s][t] = ExpandedRow(after[s - 1][t], x[t], indices[t], off[s - 1], slices[s])
        BY <3>4, <2>1, <2>4 DEF Expanded
      <4>2. after[s][t][p] = IF p <= off[s - 1] \/ p > off[s - 1] + slices[s] THEN after[s - 1][t][p]
                             ELSE after[s - 1][t][p] \o Delta(x[t], indices[t], slices[s], p - 1 - off[s - 1])
        BY <4>1, <2>4 DEF ExpandedRow
      <4>3. off[s - 1] \in Nat /\ slices[s] \in Nat /\ off[s] = off[s - 1] + slices[s]
        BY <1>2
      <4>0. off[i - 1] \in Nat /\ off[i] \in Nat /\ off[i - 1] < p /\ p <= off[i]
        BY <3>1, <1>2, <1>4
      <4>4. CASE i < s
        <5>1. i \in 0 .. n /\ s - 1 \in i .. n
          BY <4>4
        <5>2. off[i] <= off[s - 1] /\ off[i] \in Nat
          BY <5>1, <1>2, <1>11
        <5>3. p <= off[s - 1]
          BY <5>2, <4>0, <4>3
        <5>4. i <= s /\ i <= s - 1
          BY <4>4
        <5> QED
          BY <5>3, <5>4, <4>2, <3>1, <3>2
      <4>5. CASE i = s
        <5>0. PICK o \in Nat, m \in Nat : o = off[s - 1] /\ m = slices[s] /\ off[s] = o + m
          BY <4>3
        <5>3. p = o + k /\ o < p /\ p <= o + m
          BY <5>0, <4>0, <4>5, <3>1
        <5>4. ~(p <= o \/ p > o + m) /\ p - 1 - o = k - 1 /\ ~(i <= s - 1) /\ i <= s
          <6> HIDE DEF Good, Cell
          <6>1. k \in Nat /\ i \in Nat /\ s \in Nat /\ p \in Nat
            BY <5>0, <4>3, <4>5
          <6> QED
            BY <6>1, <4>5, <5>3
        <5>1. /\ ~(p <= off[s - 1] \/ p > off[s - 1] + slices[s]) /\ p - 1 - off[s - 1] = k - 1
              /\ ~(i <= s - 1) /\ i <= s
          BY <5>0, <5>4
        <5>2. after[s - 1][t][p] = <<"base">>
          BY <5>1, <3>2
        <5> QED
          BY <5>1, <5>2, <4>2, <4>5, <3>1, <3>4
      <4>6. CASE i > s
        <5>1. s \in 0 .. n /\ i - 1 \in s .. n
          BY <4>6
        <5>2. off[s] <= off[i - 1] /\ off[i - 1] \in Nat
          BY <5>1, <4>0, <1>11
        <5>3. p > off[s - 1] + slices[s]
          BY <5>2, <4>0, <4>3, SMTT(40)
        <5>4. ~(i <= s) /\ ~(i <= s - 1)
          BY <4>6
        <5> QED
          BY <5>3, <5>4, <4>2, <3>1, <3>2
      <4> QED
        BY <4>4, <4>5, <4>6
    <3> QED
      BY <3>3, <3>4
  <2> QED
    BY <2>3, <2>5
<1> HIDE DEF Good
<1>7. bad = {}
  <2> SUFFICES ASSUME bad # {} PROVE FALSE
    OBVIOUS
  <2>1. bad \in SUBSET Nat
    OBVIOUS
  <2>2. PICK s \in bad : \A l \in bad : s <= l
    BY <2>1, LeastMember
  <2>3. s \in 1 .. n /\ ~Good(s)
    BY <1>5
  <2>4. s - 1 \in 0 .. n /\ s - 1 \notin bad
    <3>1. s - 1 \in 0 .. n /\ ~(s <= s - 1)
      BY <2>3
    <3> HIDE DEF bad
    <3> QED
      BY <3>1, <2>2
  <2> QED
    BY <2>3, <2>4, <1>6
<1>8. Good(n)
  <2>1. n \in 0 .. n
    OBVIOUS
  <2> QED
    BY <2>1, <1>7
<1>9. IsList(after[n], N) /\ \A t \in 1 .. N : IsList(after[n][t], W)
  BY <1>8 DEF Good, IsRows
<1>10. ASSUME NEW t \in 1 .. N PROVE after[n][t] = WithDelta(x[t], indices[t], slices)
  <2>1. PICK d : d = WithDelta(x[t], indices[t], slices)
    OBVIOUS
  <2>2. indices[t] \in Int
    BY <1>1
  <2>3. /\ IsList(d, W)
        /\ \A i \in 1 .. n : \A k \in 1 .. slices[i] :
             d[off[i - 1] + k] = IF indices[t] < 0 THEN <<"base">>
                                 ELSE <<"base">> \o Delta(x[t], indices[t], slices[i], k - 1)
    <3>1. PICK v : v = x[t]
      OBVIOUS
    <3>2. PICK a \in Int : a = indices[t]
      BY <2>2
    <3> QED
      BY <3>1, <3>2, <2>1, <1>13
  <2>4. ASSUME NEW p \in 1 .. W PROVE after[n][t][p] = d[p]
    <3>1. PICK i \in 1 .. n : \E k \in 1 .. slices[i] : p = off[i - 1] + k
      BY <1>12
    <3>2. PICK k \in 1 .. slices[i] : p = off[i - 1] + k
      BY <3>1
    <3>3. after[n][t][p] = Cell(n, t, i, k)
      BY <3>2, <1>8 DEF Good
    <3>4. i <= n
      OBVIOUS
    <3> QED
      BY <3>2, <3>3, <3>4, <2>3
  <2> QED
    BY <2>1, <2>3, <2>4, <1>9 DEF IsList
<1> QED
  BY <1>1, <1>9, <1>10 DEF IsList, Deltas

(* The slices that add_expand goes over, one after the other.  The         *)
(* shortest part of them that had no such list of results would be one     *)
(* slice longer than one that has.                                         *)
ExpandSteps(after, y, buffer, indices, meta, is_prefill, slices, aiv) ==
  /\ after[0] = y
  /\ \A s \in 1 .. Len(slices) :
       after[s] = ApplyExpand(after[s - 1], buffer[s], indices, meta, is_prefill,
                    CumSum(slices)[s] - slices[s], slices[s], aiv)
  /\ AddExpand(y, buffer, indices, meta, is_prefill, slices, aiv) = after[Len(slices)]

LEMMA AddExpandSteps ==
  ASSUME NEW y, NEW buffer, NEW indices, NEW meta, NEW is_prefill, NEW slices \in Seq(Nat), NEW aiv
  PROVE  \E after : ExpandSteps(after, y, buffer, indices, meta, is_prefill, slices, aiv)
<1>1. PICK n \in Nat : n = Len(slices)
  BY LenProperties
<1> DEFINE Next1(z, s) == ApplyExpand(z, buffer[s], indices, meta, is_prefill,
                            CumSum(slices)[s] - slices[s], slices[s], aiv)
           upTo(f, m) == f = [s \in 0 .. m |-> IF s = 0 THEN y ELSE Next1(f[s - 1], s)]
           after == CHOOSE f : upTo(f, Len(slices))
           bad == {m \in Nat : ~ \E f : upTo(f, m)}
<1>2. AddExpand(y, buffer, indices, meta, is_prefill, slices, aiv) = after[Len(slices)]
  BY DEF AddExpand
<1> HIDE DEF Next1
<1>3. bad = {}
  <2> SUFFICES ASSUME bad # {} PROVE FALSE
    OBVIOUS
  <2>1. PICK m \in bad : \A l \in bad : m <= l
    BY LeastMember
  <2>2. m \in Nat /\ ~ \E f : upTo(f, m)
    OBVIOUS
  <2>3. m # 0
    <3>1. upTo([s \in {0} |-> y], 0)
      OBVIOUS
    <3> QED
      BY <3>1, <2>2
  <2>4. m - 1 \in Nat /\ m - 1 \notin bad
    <3>1. m - 1 \in Nat /\ ~(m <= m - 1)
      BY <2>2, <2>3
    <3> HIDE DEF bad
    <3> QED
      BY <3>1, <2>1
  <2>5. PICK f : upTo(f, m - 1)
    BY <2>4
  <2> DEFINE u == [s \in 0 .. m |-> IF s = m THEN Next1(f[m - 1], m) ELSE f[s]]
  <2>6. upTo(u, m)
    <3>1. ASSUME NEW s \in 0 .. m
          PROVE  u[s] = IF s = 0 THEN y ELSE Next1(u[s - 1], s)
      <4>1. CASE s = m
        <5>1. m - 1 \in 0 .. m /\ m - 1 # m
          BY <2>4
        <5> QED
          BY <4>1, <5>1, <2>3
      <4>2. CASE s # m
        <5>1. s \in 0 .. m - 1 /\ (s # 0 => s - 1 \in 0 .. m /\ s - 1 # m /\ s - 1 \in 0 .. m - 1)
          BY <4>2, <2>2
        <5>2. f[s] = IF s = 0 THEN y ELSE Next1(f[s - 1], s)
          BY <5>1, <2>5
        <5> QED
          BY <4>2, <5>1, <5>2
      <4> QED
        BY <4>1, <4>2
    <3> QED
      BY <3>1
  <2> QED
    BY <2>2, <2>6
<1>4. \E f : upTo(f, Len(slices))
  BY <1>1, <1>3
<1>5. upTo(after, Len(slices))
  BY <1>4
<1> HIDE DEF after
<1>6. after[0] = y /\ \A s \in 1 .. n : after[s] = Next1(after[s - 1], s)
  <2> HIDE DEF bad
  <2>1. after = [s \in 0 .. n |-> IF s = 0 THEN y ELSE Next1(after[s - 1], s)]
    BY <1>1, <1>5
  <2> HIDE DEF upTo
  <2>2. ASSUME NEW s \in 0 .. n PROVE after[s] = IF s = 0 THEN y ELSE Next1(after[s - 1], s)
    BY <2>1
  <2>3. 0 \in 0 .. n /\ \A s \in 1 .. n : s \in 0 .. n /\ s # 0
    OBVIOUS
  <2> QED
    BY <2>2, <2>3
<1>7. \A s \in 1 .. Len(slices) :
        after[s] = ApplyExpand(after[s - 1], buffer[s], indices, meta, is_prefill,
                     CumSum(slices)[s] - slices[s], slices[s], aiv)
  <2> SUFFICES ASSUME NEW s \in 1 .. Len(slices)
               PROVE  after[s] = Next1(after[s - 1], s)
    BY Zenon DEF Next1
  <2> QED
    BY <1>1, <1>6
<1> QED
  BY <1>2, <1>6, <1>7 DEF ExpandSteps

(* Without an adapter it does not matter what has been shrunk. *)
LEMMA NoDelta ==
  ASSUME NEW adapter \in Int, adapter < 0, NEW x, NEW v, NEW slices
  PROVE  WithDelta(x, adapter, slices) = WithDelta(v, adapter, slices)
BY DEF WithDelta

LEMMA ShrunkDelta ==
  ASSUME NEW indices \in Seq(Int), NEW in \in Nat, NEW slices, NEW t \in 1 .. Len(indices)
  PROVE  WithDelta(Shrunk(indices, in)[t], indices[t], slices)
           = WithDelta(LoraProduct(t, indices[t], in), indices[t], slices)
<1>1. t \in DOMAIN indices
  BY LenProperties
<1>2. PICK a \in Int : a = indices[t]
  BY <1>1, LenProperties
<1>3. CASE a < 0
  BY <1>2, <1>3, NoDelta
<1>4. CASE ~(a < 0)
  <2>1. Shrunk(indices, in)[t] = LoraProduct(t, indices[t], in)
    BY <1>1, <1>2, <1>4 DEF Shrunk
  <2> QED
    BY <2>1
<1> QED
  BY <1>3, <1>4

(* add_lora_linear. *)
LinearAdded(indices, is_prefill, slices, in, aiv) ==
  AddLoraLinear(BaseRows(Len(indices), Last(CumSum(slices))), indices, ComputeMeta(indices),
                is_prefill, slices, in, aiv)
    = [t \in 1 .. Len(indices) |-> WithDelta(LoraProduct(t, indices[t], in), indices[t], slices)]

LEMMA LinearExact ==
  ASSUME NEW indices \in Seq(Int), Len(indices) # 0, NEW is_prefill \in BOOLEAN,
         NEW slices \in Seq(Nat), Len(slices) # 0, \A s \in 1 .. Len(slices) : WidthFits(slices[s]),
         NEW in \in Nat, NEW aiv \in Nat \ {0}
  PROVE  LinearAdded(indices, is_prefill, slices, in, aiv)
<1>1. PICK N \in Nat \ {0} : N = Len(indices)
  BY LenProperties
<1>2. PICK n \in Nat \ {0} : n = Len(slices) /\ DOMAIN slices = 1 .. n /\ IsList(slices, n)
                             /\ slices \in [1 .. n -> Nat]
  BY SeqIsList, LenProperties
<1>3. PICK off : /\ Offsets(off, slices, n) /\ CumSum(slices) = [i \in 1 .. n |-> off[i]]
                 /\ IsList(CumSum(slices), n)
  BY <1>2, CumSumOffsets
<1>4. off \in [0 .. n -> Nat] /\ \A i \in 1 .. n : off[i] = off[i - 1] + slices[i]
  BY <1>3 DEF Offsets
<1>5. PICK W \in Nat : W = off[n]
  BY <1>4
<1>6. Last(CumSum(slices)) = W
  <2>1. Len(CumSum(slices)) = n
    BY <1>3, ListedSame
  <2> QED
    BY <2>1, <1>3, <1>5 DEF Last
<1>7. \A s \in 1 .. n : off[s - 1] \in Nat /\ CumSum(slices)[s] - slices[s] = off[s - 1]
  <2> SUFFICES ASSUME NEW s \in 1 .. n
               PROVE  off[s - 1] \in Nat /\ CumSum(slices)[s] - slices[s] = off[s - 1]
    OBVIOUS
  <2>3. off[s - 1] \in Nat /\ slices[s] \in Nat /\ off[s] = off[s - 1] + slices[s]
    <3>1. s - 1 \in 0 .. n
      OBVIOUS
    <3>2. off[s - 1] \in Nat
      BY <3>1, <1>4
    <3>3. slices[s] \in Nat
      BY <1>2
    <3>4. off[s] = off[s - 1] + slices[s]
      BY <1>4
    <3> QED
      BY <3>2, <3>3, <3>4
  <2>1. PICK o \in Nat, m \in Nat : o = off[s - 1] /\ m = slices[s] /\ off[s] = o + m
    BY <2>3
  <2>2. CumSum(slices)[s] = off[s]
    BY <1>3
  <2> QED
    BY <2>1, <2>2
<1> DEFINE meta == ComputeMeta(indices)
           y == BaseRows(N, W)
           sh == Shrunk(indices, in)
           buffer == AddShrink(indices, meta, is_prefill, slices, in, aiv)
<1>8. \A s \in 1 .. n : buffer[s] = sh
  <2> DEFINE l == [s \in DOMAIN slices |-> ApplyShrink(indices, meta, is_prefill, in, aiv)]
  <2>1. ApplyShrink(indices, meta, is_prefill, in, aiv) = sh
    BY ApplyShrinkExact
  <2>2. l = [s \in 1 .. n |-> sh]
    BY <1>2, <2>1
  <2> HIDE DEF l, sh
  <2>3. IsList(l, n)
    BY <2>2 DEF IsList
  <2>4. buffer = l
    <3>1. buffer = Listed(l)
      BY DEF AddShrink, l
    <3> HIDE DEF buffer
    <3> QED
      BY <3>1, <2>3, ListedSame
  <2> QED
    BY <2>2, <2>4
<1> HIDE DEF buffer
<1>9. PICK after : /\ after[0] = y
                   /\ \A s \in 1 .. n :
                        after[s] = ApplyExpand(after[s - 1], buffer[s], indices, meta, is_prefill,
                                     CumSum(slices)[s] - slices[s], slices[s], aiv)
                   /\ AddExpand(y, buffer, indices, meta, is_prefill, slices, aiv) = after[n]
  <2> HIDE DEF y, meta
  <2>1. PICK f : ExpandSteps(f, y, buffer, indices, meta, is_prefill, slices, aiv)
    BY AddExpandSteps
  <2> QED
    BY <1>2, <2>1 DEF ExpandSteps
<1>10. \A s \in 1 .. n : IsRows(after[s - 1], N, W) => after[s] = Expanded(after[s - 1], sh, indices, off[s - 1], slices[s])
  <2> SUFFICES ASSUME NEW s \in 1 .. n, IsRows(after[s - 1], N, W)
               PROVE  after[s] = Expanded(after[s - 1], sh, indices, off[s - 1], slices[s])
    OBVIOUS
  <2>1. PICK o \in Nat, m \in Nat : o = off[s - 1] /\ m = slices[s]
    BY <1>2, <1>7
  <2>2. WidthFits(m)
    BY <1>2, <2>1
  <2>3. PICK z : z = after[s - 1] /\ IsRows(z, Len(indices), W)
    BY <1>1
  <2>4. after[s] = ApplyExpand(z, sh, indices, meta, is_prefill, o, m, aiv)
    <3> HIDE DEF sh, meta, y
    <3> QED
      BY <1>7, <1>8, <1>9, <2>1, <2>3
  <2> HIDE DEF sh, y
  <2>5. ApplyExpand(z, sh, indices, meta, is_prefill, o, m, aiv) = Expanded(z, sh, indices, o, m)
    BY <2>2, <2>3, ApplyExpandExact
  <2> QED
    BY <2>1, <2>3, <2>4, <2>5
<1>11. \A s \in 0 .. n : IsRows(after[s], N, W)
  <2> DEFINE bad == {s \in 0 .. n : ~IsRows(after[s], N, W)}
  <2> SUFFICES ASSUME bad # {} PROVE FALSE
    OBVIOUS
  <2>1. bad \in SUBSET Nat
    OBVIOUS
  <2>2. PICK s \in bad : \A l \in bad : s <= l
    BY <2>1, LeastMember
  <2>3. IsRows(after[0], N, W)
    <3> HIDE DEF bad
    <3> QED
      BY <1>9, BaseRowsFacts
  <2> HIDE DEF sh, y, meta
  <2>4. s \in 1 .. n /\ ~IsRows(after[s], N, W)
    BY <2>3
  <2>5. s - 1 \in 0 .. n /\ s - 1 \notin bad
    <3>1. s - 1 \in 0 .. n /\ ~(s <= s - 1)
      BY <2>4
    <3> HIDE DEF bad
    <3> QED
      BY <3>1, <2>2
  <2>6. IsRows(after[s - 1], N, W)
    BY <2>5
  <2>7. after[s] = Expanded(after[s - 1], sh, indices, off[s - 1], slices[s])
    BY <1>10, <2>4, <2>6
  <2> QED
    BY <2>4, <2>6, <2>7, ExpandedRows
<1>12. \A s \in 1 .. n : after[s] = Expanded(after[s - 1], sh, indices, off[s - 1], slices[s])
  <2>1. \A s \in 1 .. n : s - 1 \in 0 .. n
    OBVIOUS
  <2> HIDE DEF sh, y, meta
  <2> QED
    BY <2>1, <1>10, <1>11
<1>13. after[n] = [t \in 1 .. Len(indices) |-> WithDelta(sh[t], indices[t], slices)]
  <2>1. after[0] = BaseRows(Len(indices), off[n])
    BY <1>1, <1>5, <1>9
  <2> HIDE DEF sh, y, meta
  <2>2. SliceBySlice(after, sh, indices, slices, off, n)
    BY <2>1, <1>2, <1>3, <1>12 DEF SliceBySlice
  <2>3. after[n] = Deltas(sh, indices, slices)
    BY <2>2, SlicesExpanded
  <2> QED
    BY <2>3 DEF Deltas
<1>14. \A t \in 1 .. Len(indices) :
         WithDelta(sh[t], indices[t], slices) = WithDelta(LoraProduct(t, indices[t], in), indices[t], slices)
  BY ShrunkDelta
<1>15. AddLoraLinear(BaseRows(Len(indices), Last(CumSum(slices))), indices, ComputeMeta(indices),
                     is_prefill, slices, in, aiv) = after[n]
  BY <1>1, <1>6, <1>9 DEF AddLoraLinear, buffer
<1> HIDE DEF sh, meta, y
<1>16. after[n] = [t \in 1 .. Len(indices) |->
                     WithDelta(LoraProduct(t, indices[t], in), indices[t], slices)]
  BY <1>13, <1>14
<1> QED
  BY <1>15, <1>16 DEF LinearAdded

-----------------------------------------------------------------------------
(* One slice: embeddings. *)

LEMMA OneSlice ==
  ASSUME NEW indices \in Seq(Int), NEW hidden \in Nat, NEW x
  PROVE  Expanded(BaseRows(Len(indices), hidden), x, indices, 0, hidden)
           = [t \in 1 .. Len(indices) |-> WithDelta(x[t], indices[t], <<hidden>>)]
<1> DEFINE slices == <<hidden>>
           off == [i \in 0 .. 1 |-> IF i = 0 THEN 0 ELSE hidden]
           y == BaseRows(Len(indices), hidden)
           e == Expanded(y, x, indices, 0, hidden)
           after == [i \in 0 .. 1 |-> IF i = 0 THEN y ELSE e]
<1>1. slices[1] = hidden /\ slices \in [1 .. 1 -> Nat] /\ IsList(slices, 1)
  <2>1. slices = [i \in 1 .. 1 |-> hidden]
    OBVIOUS
  <2> QED
    BY <2>1 DEF IsList
<1>2. off \in [0 .. 1 -> Nat] /\ off[0] = 0 /\ off[1] = hidden
  OBVIOUS
<1>3. after[0] = y /\ after[1] = e
  OBVIOUS
<1> HIDE DEF slices, off, after, e
<1>4. \A i \in 1 .. 1 : i = 1 /\ i - 1 = 0
  OBVIOUS
<1>5. Offsets(off, slices, 1)
  <2>1. off[1] = off[0] + slices[1]
    BY <1>1, <1>2
  <2> QED
    BY <2>1, <1>2, <1>4 DEF Offsets
<1>6. SliceBySlice(after, x, indices, slices, off, 1)
  <2>1. after[0] = BaseRows(Len(indices), off[1])
    BY <1>2, <1>3
  <2>2. after[1] = Expanded(after[0], x, indices, off[0], slices[1])
    BY <1>1, <1>2, <1>3 DEF e
  <2> QED
    BY <2>1, <2>2, <1>1, <1>4, <1>5 DEF SliceBySlice
<1>7. after[1] = [t \in 1 .. Len(indices) |-> WithDelta(x[t], indices[t], slices)]
  <2> HIDE DEF y
  <2>1. after[1] = Deltas(x, indices, slices)
    BY <1>6, SlicesExpanded
  <2> QED
    BY <2>1 DEF Deltas
<1>8. e = Expanded(BaseRows(Len(indices), hidden), x, indices, 0, hidden) /\ slices = <<hidden>>
  BY DEF e, slices
<1> QED
  BY <1>3, <1>7, <1>8, Zenon

(* add_lora_embedding. *)
EmbeddingAdded(indices, is_prefill, hidden, aiv) ==
  AddLoraEmbedding(BaseRows(Len(indices), hidden), ARange(Len(indices)), indices,
                   ComputeMeta(indices), is_prefill, hidden, aiv)
    = [t \in 1 .. Len(indices) |-> WithDelta(t - 1, indices[t], <<hidden>>)]

LEMMA EmbeddingExact ==
  ASSUME NEW indices \in Seq(Int), Len(indices) # 0, NEW is_prefill \in BOOLEAN,
         NEW hidden \in Nat, WidthFits(hidden), NEW aiv \in Nat \ {0}
  PROVE  EmbeddingAdded(indices, is_prefill, hidden, aiv)
<1>1. PICK N \in Nat \ {0} : N = Len(indices)
  BY LenProperties
<1> DEFINE y == BaseRows(Len(indices), hidden)
           x == ARange(Len(indices))
<1>2. IsRows(y, Len(indices), hidden)
  BY <1>1, BaseRowsFacts
<1>3. \A t \in 1 .. N : x[t] = t - 1
  <2> DEFINE l == [i \in 1 .. N |-> i - 1]
  <2>1. IsList(l, N)
    BY DEF IsList
  <2>2. x = Listed(l)
    BY <1>1 DEF ARange
  <2>3. Listed(l) = l
    BY <2>1, ListedSame
  <2> QED
    BY <2>2, <2>3
<1> HIDE DEF y, x
<1>4. AddLoraEmbedding(y, x, indices, ComputeMeta(indices), is_prefill, hidden, aiv)
        = Expanded(y, x, indices, 0, hidden)
  <2>1. 0 \in Nat
    OBVIOUS
  <2> QED
    BY <2>1, <1>2, ApplyExpandExact DEF AddLoraEmbedding
<1>5. Expanded(y, x, indices, 0, hidden)
        = [t \in 1 .. Len(indices) |-> WithDelta(x[t], indices[t], <<hidden>>)]
  BY OneSlice DEF y
<1> QED
  BY <1>1, <1>3, <1>4, <1>5 DEF x, y, EmbeddingAdded

-----------------------------------------------------------------------------
(* Batches. *)

(* The tokens of a batch, adapter by adapter. *)
LEMMA LoraInputs ==
  ASSUME NEW b \in Batches(ShapeSeqs, {TRUE}), NEW lora \in [DOMAIN b -> {-1, 0, 1}]
  PROVE  MakeLoraInputs(b, lora) \in Seq(Int) /\ Len(MakeLoraInputs(b, lora)) # 0
<1>0. PICK ss \in ShapeSeqs : \E g : b = Listed([i \in DOMAIN ss |-> Request(i, ss[i], g[i])])
  BY DEF Batches
<1>1. PICK g : b = Listed([i \in DOMAIN ss |-> Request(i, ss[i], g[i])])
  BY <1>0
<1>2. PICK n \in Nat \ {0} : ss \in [1 .. n -> Shapes] /\ DOMAIN ss = 1 .. n
  <2>1. CASE \E s \in Shapes : ss = <<s>>
    BY <2>1
  <2>2. CASE \E s, u \in Shapes : ss = <<s, u>>
    BY <2>2
  <2>3. CASE \E f \in Triples, s \in Shapes : ss = <<f[1], s, f[2]>>
    <3>1. PICK f \in Triples, s \in Shapes : ss = <<f[1], s, f[2]>>
      BY <2>3
    <3>2. f[1] \in Shapes /\ f[2] \in Shapes
      BY StepAssumption
    <3>3. PICK u \in Shapes, v \in Shapes : ss = <<u, s, v>>
      BY <3>1, <3>2
    <3> QED
      BY <3>3
  <2> QED
    BY <2>1, <2>2, <2>3 DEF ShapeSeqs
<1> DEFINE l == [i \in 1 .. n |-> Request(i, ss[i], g[i])]
<1>3. b = l
  <2>1. IsList(l, n)
    BY DEF IsList
  <2> HIDE DEF l
  <2>2. b = Listed(l)
    BY <1>1, <1>2 DEF l
  <2> QED
    BY <2>1, <2>2, ListedSame
<1>4. DOMAIN b = 1 .. n
  BY <1>3
<1>5. \A i \in 1 .. n : b[i]["sched"] \in Nat \ {0}
  <2> SUFFICES ASSUME NEW i \in 1 .. n PROVE b[i]["sched"] \in Nat \ {0}
    OBVIOUS
  <2>1. b[i] = Request(i, ss[i], g[i])
    BY <1>3
  <2>2. ss[i] \in Shapes
    BY <1>2
  <2>3. ss[i][2] \in Nat \ {0}
    BY <2>2, StepAssumption
  <2>4. Request(i, ss[i], g[i])["sched"] = ss[i][2]
    BY DEF Request
  <2> QED
    BY <2>1, <2>3, <2>4
<1> HIDE DEF l
<1> DEFINE counts == [i \in 1 .. n |-> b[i]["sched"]]
<1>6. counts \in [1 .. n -> Nat] /\ IsList(counts, n) /\ counts[1] # 0 /\ Len(counts) = n
  <2>1. 1 \in 1 .. n
    OBVIOUS
  <2> QED
    BY <2>1, <1>5 DEF IsList
<1>7. Of(b, "sched") = counts
  <2>1. Of(b, "sched") = Listed(counts)
    BY <1>4 DEF Of
  <2> HIDE DEF counts
  <2> QED
    BY <2>1, <1>6, ListedSame
<1> HIDE DEF counts
<1>8. lora \in [1 .. n -> Int] /\ IsList(lora, n)
  <2>1. lora \in [1 .. n -> {-1, 0, 1}]
    BY <1>4
  <2>2. {-1, 0, 1} \subseteq Int
    OBVIOUS
  <2> QED
    BY <2>1, <2>2 DEF IsList
<1>9. lora \in Seq(Int) /\ Len(lora) = n
  BY <1>8
<1>10. PICK off : Offsets(off, counts, n)
  <2>1. counts \in Seq(Nat)
    BY <1>6
  <2> QED
    BY <2>1, <1>6, CumSumOffsets
<1>11. PICK W \in Nat : W = off[n]
  BY <1>10 DEF Offsets
<1> DEFINE indices == RepeatEach(lora, counts)
<1>12. IsList(indices, W) /\ Len(indices) = W
  BY <1>6, <1>8, <1>10, <1>11, Repeated
<1>13. \A i \in 1 .. n : \A k \in 1 .. counts[i] : indices[off[i - 1] + k] = lora[i]
  <2>1. RepeatsEach(RepeatEach(lora, counts), lora, counts, off, n)
    BY <1>6, <1>8, <1>10, Repeated
  <2> HIDE DEF indices
  <2>2. RepeatsEach(indices, lora, counts, off, n)
    BY <2>1 DEF indices
  <2> QED
    BY <2>2 DEF RepeatsEach
<1> HIDE DEF indices
<1>14. \A p \in 1 .. W : indices[p] \in Int
  <2> SUFFICES ASSUME NEW p \in 1 .. W PROVE indices[p] \in Int
    OBVIOUS
  <2>1. p \in 1 .. off[n]
    BY <1>11
  <2>2. LiesIn(p, counts, off, n)
    BY <2>1, <1>6, <1>10, Located
  <2>3. PICK i \in 1 .. n : \E k \in 1 .. counts[i] : p = off[i - 1] + k
    BY <2>2 DEF LiesIn
  <2> QED
    BY <2>3, <1>8, <1>13
<1>15. indices \in Seq(Int)
  <2>1. indices \in [1 .. W -> Int]
    BY <1>12, <1>14 DEF IsList
  <2> QED
    BY <2>1
<1>16. W # 0
  <2>1. 1 \in 0 .. n /\ n \in 1 .. n /\ 0 \in 0 .. n
    OBVIOUS
  <2>2. off[1] <= off[n]
    BY <2>1, <1>6, <1>10, OffsetsGrow
  <2>3. off[0] = 0 /\ off[1] = off[1 - 1] + counts[1] /\ 1 - 1 = 0 /\ counts[1] \in Nat
    BY <2>1, <1>6, <1>10 DEF Offsets
  <2>4. PICK c \in Nat : c = counts[1] /\ c # 0
    BY <1>6, <2>3
  <2>5. off[1] = c
    BY <2>3, <2>4
  <2> QED
    BY <2>2, <2>4, <2>5, <1>11
<1>17. MakeLoraInputs(b, lora) = indices
  BY <1>7 DEF MakeLoraInputs, indices
<1> QED
  BY <1>9, <1>12, <1>15, <1>16, <1>17

-----------------------------------------------------------------------------
WidthsFit == \A s \in 1 .. Len(Slices) : WidthFits(Slices[s])

(* compute_meta, the shrink and expand kernels and the methods of          *)
(* PunicaWrapperNPU, for tokens with any adapters in any order, any number *)
(* of them, of cores and of input columns: every column of a projection    *)
(* and of an embedding gets the delta of its own token's adapter once, and *)
(* only that.                                                              *)
THEOREM AdaptersOfAnyTokens ==
  ASSUME WidthsFit, NEW indices \in Seq(Int), Len(indices) # 0,
         NEW in \in Nat, NEW cores \in Nat \ {0}
  PROVE  AdaptersExact(indices, ComputeMeta(indices), in, cores)
<1>1. Slices \in Seq(Nat) /\ Len(Slices) \in Nat /\ Len(Slices) > 1
  <2>1. Slices \in Seq(Nat \ {0}) /\ Len(Slices) > 1
    BY StepAssumption
  <2>2. Len(Slices) \in Nat /\ Slices \in [1 .. Len(Slices) -> Nat \ {0}]
    BY <2>1, LenProperties
  <2>3. Slices \in [1 .. Len(Slices) -> Nat]
    BY <2>2
  <2> QED
    BY <2>1, <2>2, <2>3, IsASeq
<1>2. \A s \in 1 .. 2 : Slices[s] \in Nat /\ WidthFits(Slices[s])
  <2>1. \A s \in 1 .. 2 : s \in 1 .. Len(Slices)
    BY <1>1
  <2>2. \A s \in 1 .. Len(Slices) : Slices[s] \in Nat
    BY <1>1
  <2> QED
    BY <2>1, <2>2 DEF WidthsFit
<1>3. DOMAIN indices = 1 .. Len(indices)
  BY LenProperties
<1>4. ASSUME NEW is_prefill \in BOOLEAN
      PROVE  AddLoraLinear(BaseRows(Len(indices), Last(CumSum(Slices))), indices, ComputeMeta(indices),
                           is_prefill, Slices, in, cores)
               = [t \in DOMAIN indices |-> WithDelta(LoraProduct(t, indices[t], in), indices[t], Slices)]
  <2>1. Len(Slices) # 0 /\ \A s \in 1 .. Len(Slices) : WidthFits(Slices[s])
    BY <1>1 DEF WidthsFit
  <2>2. LinearAdded(indices, is_prefill, Slices, in, cores)
    BY <2>1, <1>1, LinearExact
  <2> QED
    BY <2>2, <1>3 DEF LinearAdded
<1>5. ASSUME NEW is_prefill \in BOOLEAN
      PROVE  AddLoraEmbedding(BaseRows(Len(indices), Slices[2]), ARange(Len(indices)), indices,
                              ComputeMeta(indices), is_prefill, Slices[2], cores)
               = [t \in DOMAIN indices |-> WithDelta(t - 1, indices[t], <<Slices[2]>>)]
  <2>1. PICK hidden \in Nat : hidden = Slices[2] /\ WidthFits(hidden)
    BY <1>2
  <2>2. EmbeddingAdded(indices, is_prefill, hidden, cores)
    BY <2>1, EmbeddingExact
  <2> QED
    BY <2>1, <2>2, <1>3 DEF EmbeddingAdded
<1> QED
  BY <1>4, <1>5 DEF AdaptersExact

(* vocab_parallel_embedding_forward and make_lora_inputs too: when the     *)
(* parts of the ranks cover the vocabulary and the weights fill the steps  *)
(* of the expand kernels, every token of every batch of the given shapes   *)
(* is embedded by one rank, from the place of its own id, and its          *)
(* projections and embedding get the deltas of its own request's adapter.  *)
THEOREM OwnWeights == ShardsCover /\ WidthsFit => (Spec => []RowsGetOwnWeights)
<1> SUFFICES ASSUME ShardsCover, WidthsFit PROVE Spec => []RowsGetOwnWeights
  OBVIOUS
<1>1. \A id \in 0 .. OrgVocab + AddedVocab - 1 :
        \E r \in 0 .. TPSize - 1 : EmbeddingForward(id, TPSize) = {<<r, id>>}
  BY EmbeddedOnce
<1>2. ASSUME NEW b \in Batches(ShapeSeqs, {TRUE}), NEW in \in InDims, NEW cores \in CoreNums,
             NEW lora \in [DOMAIN b -> {-1, 0, 1}], NEW indices \in {MakeLoraInputs(b, lora)}
      PROVE  AdaptersExact(indices, ComputeMeta(indices), in, cores)
  <2>1. in \in Nat /\ cores \in Nat \ {0}
    BY StepAssumption
  <2>2. MakeLoraInputs(b, lora) \in Seq(Int) /\ Len(MakeLoraInputs(b, lora)) # 0
    BY LoraInputs
  <2>3. indices \in Seq(Int) /\ Len(indices) # 0
    BY <2>2
  <2> QED
    BY <2>1, <2>2, <2>3, AdaptersOfAnyTokens
<1>3. RowsGetOwnWeights
  BY <1>1, <1>2 DEF RowsGetOwnWeights
<1> QED
  BY <1>3, PTL

-----------------------------------------------------------------------------
(* The flat inputs of a batch. *)

CumsIs(cu, off, n)        == IsList(cu, n) /\ \A i \in 1 .. n : cu[i] = off[i]
RampIs(r, counts, off, n) ==
  IsList(r, off[n]) /\ \A i \in 1 .. n : \A k \in 1 .. counts[i] : r[off[i - 1] + k] = k - 1

(* _get_cumsum_and_arange counts every part from zero. *)
LEMMA CumsumAt ==
  ASSUME NEW n \in Nat \ {0}, NEW counts, IsList(counts, n), counts \in [1 .. n -> Nat],
         NEW off, Offsets(off, counts, n)
  PROVE  /\ CumsIs(CumsumAndArange(counts).cu, off, n)
         /\ RampIs(CumsumAndArange(counts).arange, counts, off, n)
<1> DEFINE cu == CumSum(counts)
           base == Minus(cu, counts)
           rep == RepeatEach(base, counts)
           all == ARange(Last(cu))
           ramp == Minus(all, rep)
<1>1. CumsumAndArange(counts) = [cu |-> cu, arange |-> ramp]
  BY DEF CumsumAndArange
<1>2. counts \in Seq(Nat) /\ Len(counts) = n
  BY ListedSame
<1>3. CumsIs(cu, off, n)
  <2>1. PICK f : /\ Offsets(f, counts, n) /\ CumSum(counts) = [i \in 1 .. n |-> f[i]]
                 /\ IsList(CumSum(counts), n)
    BY <1>2, CumSumOffsets
  <2>2. f = off
    BY <2>1, OffsetsUnique
  <2> QED
    BY <2>1, <2>2 DEF CumsIs
<1> HIDE DEF cu
<1>4. IsList(cu, n) /\ \A i \in 1 .. n : cu[i] = off[i]
  BY <1>3 DEF CumsIs
<1>5. off \in [0 .. n -> Nat] /\ \A i \in 1 .. n : off[i] = off[i - 1] + counts[i]
  BY DEF Offsets
<1>6. PICK W \in Nat : W = off[n]
  BY <1>5
<1>7. Last(cu) = W
  <2>1. Len(cu) = n
    BY <1>4, ListedSame
  <2> QED
    BY <2>1, <1>4, <1>6 DEF Last
<1>8. IsList(base, n) /\ \A i \in 1 .. n : base[i] = off[i - 1]
  <2>1. MinusIs(base, cu, counts, n)
    BY <1>4, MinusAt
  <2> HIDE DEF base
  <2>2. ASSUME NEW i \in 1 .. n PROVE base[i] = off[i - 1]
    <3>1. i - 1 \in 0 .. n
      OBVIOUS
    <3>2. PICK o \in Nat, c \in Nat : o = off[i - 1] /\ c = counts[i]
      BY <3>1, <1>5
    <3>3. off[i] = o + c
      BY <3>2, <1>5
    <3>4. base[i] = off[i] - counts[i]
      BY <2>1, <1>4 DEF MinusIs
    <3> QED
      BY <3>2, <3>3, <3>4
  <2> QED
    BY <2>1, <2>2 DEF MinusIs
<1> HIDE DEF base
<1>9. IsList(rep, W) /\ RepeatsEach(rep, base, counts, off, n)
  BY <1>6, <1>8, Repeated
<1>10. ArangeIs(all, W)
  BY <1>7, ArangeAt
<1> HIDE DEF rep, all
<1>11. MinusIs(ramp, all, rep, W)
  <2>1. IsList(all, W)
    BY <1>10 DEF ArangeIs
  <2> QED
    BY <2>1, MinusAt
<1> HIDE DEF ramp
<1>12. ASSUME NEW i \in 1 .. n, NEW k \in 1 .. counts[i] PROVE ramp[off[i - 1] + k] = k - 1
  <2>1. off[i - 1] \in Nat /\ off[i - 1] + k \in 1 .. off[n]
    BY PlaceIn
  <2>2. PICK o \in Nat : o = off[i - 1]
    BY <2>1
  <2>3. PICK p \in 1 .. W : p = o + k
    BY <2>1, <2>2, <1>6
  <2>4. rep[p] = o
    BY <2>2, <2>3, <1>8, <1>9 DEF RepeatsEach
  <2>5. all[p] = p - 1
    BY <1>10 DEF ArangeIs
  <2>6. ramp[p] = (p - 1) - o
    BY <2>4, <2>5, <1>11 DEF MinusIs
  <2>7. (p - 1) - o = k - 1
    BY <2>3
  <2> QED
    BY <2>2, <2>3, <2>6, <2>7
<1>13. RampIs(ramp, counts, off, n)
  BY <1>6, <1>11, <1>12 DEF RampIs, MinusIs
<1> QED
  BY <1>1, <1>3, <1>13

(* Requests as the scheduler gives them: their tokens are known, but for   *)
(* drafts, which end the request, behind a token that is no draft.         *)
IsRequest(r) ==
  /\ r.computed \in Nat /\ r.sched \in Nat \ {0} /\ r.drafts \in Nat /\ r.total \in Nat
  /\ IsList(r.tokens, MaxModelLen) /\ r.greedy \in BOOLEAN
  /\ r.drafts < r.sched /\ r.computed + r.sched <= MaxModelLen
  /\ r.drafts > 0 => r.computed + r.sched = r.total + r.drafts

IsBatch(b, n) == n \in Nat \ {0} /\ IsList(b, n) /\ \A i \in 1 .. n : IsRequest(b[i])

FieldIs(r, b, field, n) == IsList(r, n) /\ \A i \in 1 .. n : r[i] = b[i][field]

LEMMA OfAt ==
  ASSUME NEW n \in Nat, NEW b, IsList(b, n), NEW field
  PROVE  FieldIs(Of(b, field), b, field, n)
<1> DEFINE l == [i \in 1 .. n |-> b[i][field]]
<1>1. IsList(l, n)
  BY DEF IsList
<1>2. DOMAIN b = 1 .. n
  BY ListedSame
<1>3. Of(b, field) = Listed(l)
  BY <1>2 DEF Of
<1>4. \A i \in 1 .. n : l[i] = b[i][field]
  OBVIOUS
<1> HIDE DEF l
<1> QED
  BY <1>1, <1>3, <1>4, ListedSame DEF FieldIs

(* The numbers of a batch. *)
LEMMA BatchCounts ==
  ASSUME NEW n, NEW b, IsBatch(b, n)
  PROVE  /\ n \in Nat \ {0} /\ IsList(b, n) /\ DOMAIN b = 1 .. n /\ Len(b) = n
         /\ IsList(Of(b, "sched"), n) /\ Of(b, "sched") \in [1 .. n -> Nat]
         /\ \A i \in 1 .. n : Of(b, "sched")[i] = b[i].sched
         /\ IsList(Of(b, "drafts"), n) /\ Of(b, "drafts") \in [1 .. n -> Nat]
         /\ \A i \in 1 .. n : Of(b, "drafts")[i] = b[i].drafts
<1>1. n \in Nat \ {0} /\ IsList(b, n) /\ \A i \in 1 .. n : b[i].sched \in Nat /\ b[i].drafts \in Nat
  BY DEF IsBatch, IsRequest
<1>2. DOMAIN b = 1 .. n /\ Len(b) = n
  BY <1>1, ListedSame
<1> DEFINE s == Of(b, "sched")  d == Of(b, "drafts")
<1>3. FieldIs(s, b, "sched", n) /\ FieldIs(d, b, "drafts", n)
  BY <1>1, OfAt
<1> HIDE DEF s, d
<1>4. IsList(s, n) /\ s \in [1 .. n -> Nat] /\ \A i \in 1 .. n : s[i] = b[i].sched
  BY <1>1, <1>3 DEF FieldIs, IsList
<1>5. IsList(d, n) /\ d \in [1 .. n -> Nat] /\ \A i \in 1 .. n : d[i] = b[i].drafts
  BY <1>1, <1>3 DEF FieldIs, IsList
<1> QED
  BY <1>1, <1>2, <1>4, <1>5 DEF s, d

(* _prepare_inputs: the flat rows of a request hold its tokens from the    *)
(* first that is not computed on.                                          *)
PositionsAre(r, b, off, n) ==
  IsList(r, off[n])
  /\ \A i \in 1 .. n : \A k \in 1 .. b[i].sched : r[off[i - 1] + k] = b[i].computed + k - 1
TokensAre(r, b, off, n) ==
  IsList(r, off[n])
  /\ \A i \in 1 .. n : \A k \in 1 .. b[i].sched : r[off[i - 1] + k] = b[i].tokens[b[i].computed + k]
RequestsAre(r, b, off, n) ==
  IsList(r, off[n]) /\ \A i \in 1 .. n : \A k \in 1 .. b[i].sched : r[off[i - 1] + k] = i - 1

RequestOf(b) == RepeatEach(ARange(Len(b)), Of(b, "sched"))
Positions(b) == Plus(IndexSelect(Of(b, "computed"), RequestOf(b)), CumsumAndArange(Of(b, "sched")).arange)

LEMMA PositionsAt ==
  ASSUME NEW n, NEW b, IsBatch(b, n), NEW off, Offsets(off, Of(b, "sched"), n)
  PROVE  RequestsAre(RequestOf(b), b, off, n) /\ PositionsAre(Positions(b), b, off, n)
<1> DEFINE num == Of(b, "sched")
           comp == Of(b, "computed")
           ids == ARange(Len(b))
           req == RequestOf(b)
           ramp == CumsumAndArange(num).arange
           sel == IndexSelect(comp, req)
           pos == Positions(b)
<1>1. /\ n \in Nat \ {0} /\ IsList(b, n) /\ Len(b) = n
      /\ IsList(num, n) /\ num \in [1 .. n -> Nat] /\ \A i \in 1 .. n : num[i] = b[i].sched
  BY BatchCounts
<1>2. FieldIs(comp, b, "computed", n)
  BY <1>1, OfAt
<1>3. \A i \in 1 .. n : b[i].computed \in Nat
  BY DEF IsBatch, IsRequest
<1>4. ArangeIs(ids, n)
  BY <1>1, ArangeAt
<1>5. PICK W \in Nat : W = off[n]
  BY <1>1 DEF Offsets
<1>6. req = RepeatEach(ids, num) /\ pos = Plus(sel, ramp)
  BY DEF RequestOf, Positions
<1>7. RampIs(ramp, num, off, n)
  <2>1. Offsets(off, num, n)
    OBVIOUS
  <2> HIDE DEF num
  <2> QED
    BY <2>1, <1>1, CumsumAt
<1> HIDE DEF num, comp, ids, req, ramp, pos
<1>8. IsList(req, W) /\ RepeatsEach(req, ids, num, off, n)
  <2>1. IsList(ids, n)
    BY <1>4 DEF ArangeIs
  <2>2. Offsets(off, num, n)
    BY DEF num
  <2> QED
    BY <2>1, <2>2, <1>1, <1>5, <1>6, Repeated
<1>9. SelectIs(sel, comp, req, W)
  BY <1>8, SelectAt
<1> HIDE DEF sel
<1>10. PlusIs(pos, sel, ramp, W)
  <2>1. IsList(sel, W)
    BY <1>9 DEF SelectIs
  <2> QED
    BY <2>1, <1>6, PlusAt
<1>11. ASSUME NEW i \in 1 .. n, NEW k \in 1 .. b[i].sched
       PROVE  req[off[i - 1] + k] = i - 1 /\ pos[off[i - 1] + k] = b[i].computed + k - 1
  <2>1. k \in 1 .. num[i] /\ Offsets(off, num, n)
    BY <1>1 DEF num
  <2>2. off[i - 1] \in Nat /\ off[i - 1] + k \in 1 .. off[n]
    BY <2>1, <1>1, PlaceIn
  <2>3. PICK p \in 1 .. W : p = off[i - 1] + k
    BY <2>2, <1>5
  <2>4. req[p] = i - 1
    <3>1. req[p] = ids[i]
      BY <2>1, <2>3, <1>8 DEF RepeatsEach
    <3> QED
      BY <3>1, <1>4 DEF ArangeIs
  <2>5. ramp[p] = k - 1
    BY <2>1, <2>3, <1>7 DEF RampIs
  <2>6. sel[p] = b[i].computed
    <3>1. sel[p] = comp[req[p] + 1]
      BY <1>9 DEF SelectIs
    <3>2. req[p] + 1 = i
      BY <2>4
    <3> QED
      BY <3>1, <3>2, <1>2 DEF FieldIs
  <2>7. pos[p] = sel[p] + ramp[p]
    BY <1>10 DEF PlusIs
  <2>8. PICK c \in Nat : c = b[i].computed
    BY <1>3
  <2>10. PICK kk \in Nat : kk = k
    BY <2>1, <1>1
  <2>9. c + (kk - 1) = c + kk - 1
    OBVIOUS
  <2> QED
    BY <2>3, <2>4, <2>5, <2>6, <2>7, <2>8, <2>9, <2>10
<1>12. IsList(pos, W)
  BY <1>10 DEF PlusIs
<1> QED
  BY <1>5, <1>8, <1>11, <1>12 DEF RequestsAre, PositionsAre, req, pos

(* The row of a token in the flat token_ids_cpu. *)
LEMMA TokenRows ==
  ASSUME NEW n, NEW b, IsBatch(b, n), NEW i \in 1 .. n, NEW p \in 0 .. MaxModelLen - 1
  PROVE  FlattenSeq(Of(b, "tokens"))[p + (i - 1) * MaxModelLen + 1] = b[i].tokens[p + 1]
<1>1. MaxModelLen \in Nat \ {0}
  BY InputsAssumption
<1>2. n \in Nat /\ IsList(b, n) /\ \A j \in 1 .. n : IsList(b[j].tokens, MaxModelLen)
  BY DEF IsBatch, IsRequest
<1> DEFINE rows == Of(b, "tokens")
           counts == [j \in 1 .. n |-> MaxModelLen]
           off == [j \in 0 .. n |-> j * MaxModelLen]
<1>3. FieldIs(rows, b, "tokens", n)
  BY <1>2, OfAt
<1> HIDE DEF rows
<1>4. IsList(rows, n) /\ \A j \in 1 .. n : rows[j] = b[j].tokens /\ IsList(rows[j], counts[j])
  BY <1>2, <1>3 DEF FieldIs
<1>5. counts \in [1 .. n -> Nat]
  BY <1>1
<1>6. Offsets(off, counts, n)
  <2>1. off = [j \in 0 .. n |-> off[j]] /\ off[0] = 0
    BY <1>1, <1>2
  <2>2. ASSUME NEW j \in 1 .. n PROVE off[j] = off[j - 1] + counts[j]
    <3>1. j \in 0 .. n /\ j - 1 \in 0 .. n
      BY <1>2
    <3>2. off[j] = j * MaxModelLen /\ off[j - 1] = (j - 1) * MaxModelLen /\ counts[j] = MaxModelLen
      BY <3>1
    <3>3. PICK M \in Nat : M = MaxModelLen
      BY <1>1
    <3>4. j * M = (j - 1) * M + M
      BY <1>2
    <3> QED
      BY <3>2, <3>3, <3>4
  <2> HIDE DEF off, counts
  <2> QED
    BY <2>1, <2>2, <1>2, <1>5, OffsetsOf
<1>7. off[i - 1] = (i - 1) * MaxModelLen /\ counts[i] = MaxModelLen
  <2>1. i - 1 \in 0 .. n
    BY <1>2
  <2> QED
    BY <2>1
<1> HIDE DEF off, counts
<1>8. p + 1 \in 1 .. counts[i]
  BY <1>1, <1>7
<1>9. FlattenSeq(rows)[off[i - 1] + (p + 1)] = rows[i][p + 1]
  <2>1. IsFlat(FlattenSeq(rows), rows, counts, off, n)
    BY <1>2, <1>4, <1>5, <1>6, Flattened
  <2> QED
    BY <2>1, <1>8 DEF IsFlat
<1>10. PICK m \in Int : m = (i - 1) * MaxModelLen
  BY <1>1, <1>2
<1>11. m + (p + 1) = p + m + 1
  OBVIOUS
<1> QED
  BY <1>4, <1>7, <1>9, <1>10, <1>11 DEF rows

(* The query_start_loc of a batch. *)
StartsAre(qsl, off, n) == IsList(qsl, n + 1) /\ \A i \in 0 .. n : qsl[i + 1] = off[i]

LEMMA StartsOf ==
  ASSUME NEW n \in Nat \ {0}, NEW off \in [0 .. n -> Nat], off[0] = 0, NEW cu, CumsIs(cu, off, n)
  PROVE  StartsAre(<<0>> \o cu, off, n) /\ CumsIs(Tail(<<0>> \o cu), off, n)
<1>1. IsList(cu, n) /\ \A i \in 1 .. n : cu[i] = off[i] /\ off[i] \in Nat
  BY DEF CumsIs
<1>2. cu \in Seq(Nat) /\ Len(cu) = n
  <2>1. cu \in [1 .. n -> Nat]
    BY <1>1 DEF IsList
  <2> QED
    BY <2>1
<1> DEFINE q == <<0>> \o cu
<1>3. /\ q \in Seq(Nat) /\ Len(q) = n + 1 /\ q[1] = 0
      /\ \A i \in 2 .. n + 1 : q[i] = cu[i - 1]
  <2>1. 0 \in Nat
    OBVIOUS
  <2> QED
    BY <2>1, <1>2, PrependElems
<1> HIDE DEF q
<1>4. IsList(q, n + 1)
  BY <1>3, SeqIsList
<1>5. ASSUME NEW i \in 0 .. n PROVE q[i + 1] = off[i]
  <2>1. CASE i = 0
    BY <2>1, <1>3
  <2>2. CASE i # 0
    <3>1. i \in 1 .. n /\ i + 1 \in 2 .. n + 1 /\ (i + 1) - 1 = i
      BY <2>2
    <3> QED
      BY <3>1, <1>1, <1>3
  <2> QED
    BY <2>1, <2>2
<1>6. /\ Tail(q) \in Seq(Nat) /\ Len(Tail(q)) = n
      /\ \A i \in 1 .. n : Tail(q)[i] = q[i + 1]
  <2>1. q # <<>>
    BY <1>3, EmptySeq
  <2>2. (n + 1) - 1 = n
    OBVIOUS
  <2> QED
    BY <2>1, <2>2, <1>3, TailPart
<1>7. IsList(Tail(q), n)
  BY <1>6, SeqIsList
<1>8. CumsIs(Tail(q), off, n)
  <2>1. \A i \in 1 .. n : i \in 0 .. n
    OBVIOUS
  <2> QED
    BY <2>1, <1>5, <1>6, <1>7 DEF CumsIs
<1> QED
  BY <1>4, <1>5, <1>8 DEF q, StartsAre

LEMMA InputsAt ==
  ASSUME NEW n, NEW b, IsBatch(b, n), NEW off, Offsets(off, Of(b, "sched"), n), NEW cfg
  PROVE  /\ TokensAre(PrepareInputs(b, cfg).input_ids, b, off, n)
         /\ PrepareInputs(b, cfg).positions = Positions(b)
         /\ StartsAre(PrepareInputs(b, cfg).query_start_loc, off, n)
         /\ CumsIs(Tail(PrepareInputs(b, cfg).query_start_loc), off, n)
<1> DEFINE num == Of(b, "sched")
           cu == CumsumAndArange(num).cu
           pos == Positions(b)
           req == RequestOf(b)
           at == [k \in DOMAIN pos |-> pos[k] + req[k] * MaxModelLen]
           flat == FlattenSeq(Of(b, "tokens"))
           ids == IndexSelect(flat, Listed(at))
<1>1. /\ PrepareInputs(b, cfg).input_ids = ids
      /\ PrepareInputs(b, cfg).positions = pos
      /\ PrepareInputs(b, cfg).query_start_loc = <<0>> \o cu
  BY DEF PrepareInputs, Positions, RequestOf
<1>2. RequestsAre(req, b, off, n) /\ PositionsAre(pos, b, off, n)
  BY PositionsAt
<1>3. n \in Nat \ {0} /\ IsList(num, n) /\ num \in [1 .. n -> Nat] /\ \A i \in 1 .. n : num[i] = b[i].sched
  BY BatchCounts
<1>4. Offsets(off, num, n)
  OBVIOUS
<1> HIDE DEF num
<1>5. CumsIs(cu, off, n)
  BY <1>3, <1>4, CumsumAt
<1>6. off \in [0 .. n -> Nat] /\ off[0] = 0
  BY DEF Offsets
<1> HIDE DEF cu, pos, req, flat
<1>7. StartsAre(<<0>> \o cu, off, n) /\ CumsIs(Tail(<<0>> \o cu), off, n)
  BY <1>3, <1>5, <1>6, StartsOf
<1>8. PICK W \in Nat : W = off[n]
  BY <1>3, <1>6
<1>9. IsList(pos, W) /\ DOMAIN pos = 1 .. W
  BY <1>2, <1>8, ListedSame DEF PositionsAre
<1>10. IsList(at, W) /\ \A p \in 1 .. W : at[p] = pos[p] + req[p] * MaxModelLen
  BY <1>9 DEF IsList
<1> HIDE DEF at
<1>11. SelectIs(ids, flat, at, W)
  <2>1. Listed(at) = at
    BY <1>10, ListedSame
  <2> QED
    BY <2>1, <1>10, SelectAt
<1> HIDE DEF ids
<1>12. ASSUME NEW i \in 1 .. n, NEW k \in 1 .. b[i].sched
       PROVE  ids[off[i - 1] + k] = b[i].tokens[b[i].computed + k]
  <2>0. IsRequest(b[i])
    BY DEF IsBatch
  <2>1. k \in 1 .. num[i]
    BY <1>3
  <2>2. off[i - 1] + k \in 1 .. off[n]
    BY <2>1, <1>3, <1>4, PlaceIn
  <2>3. PICK p \in 1 .. W : p = off[i - 1] + k
    BY <2>2, <1>8
  <2>4. req[p] = i - 1 /\ pos[p] = b[i].computed + k - 1
    BY <2>3, <1>2 DEF RequestsAre, PositionsAre
  <2>5. PICK c \in Nat, s \in Nat, M \in Nat : c = b[i].computed /\ s = b[i].sched /\ M = MaxModelLen /\ c + s <= M
    BY <2>0, InputsAssumption DEF IsRequest
  <2>6. PICK x \in 0 .. M - 1 : x = c + k - 1 /\ x + 1 = c + k
    BY <2>5
  <2>7. ids[p] = flat[x + (i - 1) * MaxModelLen + 1]
    BY <2>4, <2>5, <2>6, <1>10, <1>11 DEF SelectIs
  <2>8. flat[x + (i - 1) * MaxModelLen + 1] = b[i].tokens[x + 1]
    BY <2>5, TokenRows DEF flat
  <2> QED
    BY <2>3, <2>5, <2>6, <2>7, <2>8
<1>13. TokensAre(ids, b, off, n)
  BY <1>8, <1>11, <1>12 DEF TokensAre, SelectIs
<1> QED
  BY <1>1, <1>7, <1>13 DEF pos

-----------------------------------------------------------------------------
(* The metadata of drafts.  D counts the drafts of each request, offD sums *)
(* them; one token more of each request is sampled.                        *)
Sampled(D, n)     == [i \in 1 .. n |-> D[i] + 1]
SampledUpTo(offD, n) == [i \in 0 .. n |-> offD[i] + i]

LEMMA SampledOffsets ==
  ASSUME NEW n \in Nat, NEW D \in [1 .. n -> Nat], NEW offD, Offsets(offD, D, n)
  PROVE  /\ Sampled(D, n) \in [1 .. n -> Nat] /\ IsList(Sampled(D, n), n)
         /\ Offsets(SampledUpTo(offD, n), Sampled(D, n), n)
<1>1. offD \in [0 .. n -> Nat] /\ offD[0] = 0 /\ \A i \in 1 .. n : offD[i] = offD[i - 1] + D[i]
  BY DEF Offsets
<1>2. Sampled(D, n) \in [1 .. n -> Nat] /\ IsList(Sampled(D, n), n)
  BY DEF Sampled, IsList
<1>3. SampledUpTo(offD, n) \in [0 .. n -> Nat] /\ SampledUpTo(offD, n)[0] = 0
  BY <1>1 DEF SampledUpTo
<1>4. ASSUME NEW i \in 1 .. n
      PROVE  SampledUpTo(offD, n)[i] = SampledUpTo(offD, n)[i - 1] + Sampled(D, n)[i]
  <2>1. i - 1 \in 0 .. n /\ i \in 0 .. n
    OBVIOUS
  <2>2. PICK o \in Nat, d \in Nat : o = offD[i - 1] /\ d = D[i] /\ offD[i] = o + d
    BY <2>1, <1>1
  <2>3. SampledUpTo(offD, n)[i] = (o + d) + i
    BY <2>1, <2>2 DEF SampledUpTo
  <2>4. SampledUpTo(offD, n)[i - 1] = o + (i - 1)
    BY <2>1, <2>2 DEF SampledUpTo
  <2>5. Sampled(D, n)[i] = d + 1
    BY <2>2 DEF Sampled
  <2>6. (o + d) + i = (o + (i - 1)) + (d + 1)
    OBVIOUS
  <2> QED
    BY <2>3, <2>4, <2>5, <2>6
<1> QED
  BY <1>2, <1>3, <1>4 DEF Offsets

LogitsAre(r, D, off, offM, n) ==
  IsList(r, offM[n])
  /\ \A i \in 1 .. n : \A j \in 1 .. D[i] + 1 : r[offM[i - 1] + j] = off[i] - (D[i] + 1) + (j - 1)
TargetsAre(r, D, offD, offM, n) ==
  IsList(r, offD[n]) /\ \A i \in 1 .. n : \A j \in 1 .. D[i] : r[offD[i - 1] + j] = offM[i - 1] + (j - 1)
BonusAre(r, offM, n) == IsList(r, n) /\ \A i \in 1 .. n : r[i] = offM[i] - 1
DraftsAre(r, input_ids, D, off, offD, n) ==
  IsList(r, offD[n]) /\ \A i \in 1 .. n : \A j \in 1 .. D[i] : r[offD[i - 1] + j] = input_ids[off[i] - D[i] + j]

(* The sum of two ragged lists, the first with a value for each part, the  *)
(* second counting from zero in each.                                      *)
BaseRampIs(r, base, counts, off, n) ==
  /\ IsList(r, off[n])
  /\ \A i \in 1 .. n : \A k \in 1 .. counts[i] : r[off[i - 1] + k] = base[i] + (k - 1)

LEMMA BasePlusRamp ==
  ASSUME NEW n \in Nat \ {0}, NEW base, IsList(base, n),
         NEW counts, IsList(counts, n), counts \in [1 .. n -> Nat], NEW off, Offsets(off, counts, n)
  PROVE  BaseRampIs(Plus(RepeatEach(base, counts), CumsumAndArange(counts).arange),
                    base, counts, off, n)
<1> DEFINE rep == RepeatEach(base, counts)
           ramp == CumsumAndArange(counts).arange
           r == Plus(rep, ramp)
<1>1. PICK W \in Nat : W = off[n]
  BY DEF Offsets
<1>2. IsList(rep, W) /\ RepeatsEach(rep, base, counts, off, n)
  BY <1>1, Repeated
<1>3. RampIs(ramp, counts, off, n)
  BY CumsumAt
<1> HIDE DEF rep, ramp
<1>4. PlusIs(r, rep, ramp, W)
  BY <1>2, PlusAt
<1> HIDE DEF r
<1>5. ASSUME NEW i \in 1 .. n, NEW k \in 1 .. counts[i] PROVE r[off[i - 1] + k] = base[i] + (k - 1)
  <2>1. off[i - 1] + k \in 1 .. off[n]
    BY PlaceIn
  <2>2. PICK p \in 1 .. W : p = off[i - 1] + k
    BY <2>1, <1>1
  <2>3. rep[p] = base[i]
    BY <2>2, <1>2 DEF RepeatsEach
  <2>4. ramp[p] = k - 1
    BY <2>2, <1>3 DEF RampIs
  <2> QED
    BY <2>2, <2>3, <2>4, <1>4 DEF PlusIs
<1> QED
  BY <1>1, <1>4, <1>5 DEF PlusIs, r, rep, ramp, BaseRampIs

LEMMA MetadataAt ==
  ASSUME NEW n \in Nat \ {0}, NEW D, IsList(D, n), D \in [1 .. n -> Nat], NEW offD, Offsets(offD, D, n),
         NEW off \in [0 .. n -> Nat], NEW cu, CumsIs(cu, off, n), NEW input_ids
  PROVE  LET meta == CalcSpecDecodeMetadata(D, cu, input_ids)
             offM == SampledUpTo(offD, n)
         IN  /\ meta.num_draft_tokens = D
             /\ CumsIs(meta.cu_num_draft_tokens, offD, n)
             /\ LogitsAre(meta.logits_indices, D, off, offM, n)
             /\ TargetsAre(meta.target_logits_indices, D, offD, offM, n)
             /\ BonusAre(meta.bonus_logits_indices, offM, n)
             /\ DraftsAre(meta.draft_token_ids, input_ids, D, off, offD, n)
<1> DEFINE M == Sampled(D, n)
           offM == SampledUpTo(offD, n)
           sampled == CumsumAndArange(M)
           draft == CumsumAndArange(D)
           baseL == Minus(cu, M)
           logits == Plus(RepeatEach(baseL, M), sampled.arange)
           baseT == Minus(sampled.cu, M)
           targets == Plus(RepeatEach(baseT, D), draft.arange)
           bonus == Listed([i \in DOMAIN D |-> sampled.cu[i] - 1])
           ids == IndexSelect(input_ids, logits)
           drafts == Listed([k \in DOMAIN targets |-> Get(ids, targets[k] + 1)])
           meta == CalcSpecDecodeMetadata(D, cu, input_ids)
<1>0. DOMAIN D = 1 .. n
  OBVIOUS
<1>1. M \in [1 .. n -> Nat] /\ IsList(M, n) /\ Offsets(offM, M, n)
  BY SampledOffsets
<1>2. \A i \in 1 .. n : M[i] = D[i] + 1
  BY DEF Sampled
<1>3. Listed([i \in DOMAIN D |-> D[i] + 1]) = M
  <2>1. [i \in DOMAIN D |-> D[i] + 1] = M
    BY <1>0 DEF Sampled
  <2> QED
    BY <2>1, <1>1, ListedSame
<1>4. /\ meta.num_draft_tokens = D /\ meta.cu_num_draft_tokens = draft.cu
      /\ meta.logits_indices = logits /\ meta.target_logits_indices = targets
      /\ meta.bonus_logits_indices = bonus /\ meta.draft_token_ids = drafts
  <2> HIDE DEF M
  <2> QED
    BY <1>3 DEF CalcSpecDecodeMetadata
<1> HIDE DEF M, offM, meta
<1>5. CumsIs(draft.cu, offD, n)
  BY CumsumAt
<1>6. CumsIs(sampled.cu, offM, n)
  BY <1>1, CumsumAt
<1>7. offM \in [0 .. n -> Nat] /\ \A i \in 1 .. n : offM[i] = offM[i - 1] + M[i]
  BY <1>1 DEF Offsets
<1>8. IsList(cu, n) /\ \A i \in 1 .. n : cu[i] = off[i]
  BY DEF CumsIs
<1>9. IsList(baseL, n) /\ \A i \in 1 .. n : baseL[i] = off[i] - (D[i] + 1)
  <2>1. MinusIs(baseL, cu, M, n)
    BY <1>8, MinusAt
  <2> HIDE DEF baseL
  <2> QED
    BY <2>1, <1>2, <1>8 DEF MinusIs
<1>10. IsList(baseT, n) /\ \A i \in 1 .. n : baseT[i] = offM[i - 1]
  <2> DEFINE sc == sampled.cu
  <2>1. IsList(sc, n) /\ \A i \in 1 .. n : sc[i] = offM[i]
    BY <1>6 DEF CumsIs
  <2> HIDE DEF sc
  <2>2. MinusIs(baseT, sc, M, n)
    BY <2>1, MinusAt DEF sc
  <2> HIDE DEF baseT
  <2>3. ASSUME NEW i \in 1 .. n PROVE baseT[i] = offM[i - 1]
    <3>1. i - 1 \in 0 .. n
      OBVIOUS
    <3>2. PICK o \in Nat, m \in Nat : o = offM[i - 1] /\ m = M[i] /\ offM[i] = o + m
      BY <3>1, <1>1, <1>7
    <3>3. baseT[i] = (o + m) - m
      BY <3>2, <2>1, <2>2 DEF MinusIs
    <3> QED
      BY <3>2, <3>3
  <2> QED
    BY <2>2, <2>3 DEF MinusIs
<1>11. bonus = [i \in 1 .. n |-> offM[i] - 1]
  <2> DEFINE l == [i \in DOMAIN D |-> sampled.cu[i] - 1]
  <2>1. l = [i \in 1 .. n |-> offM[i] - 1]
    BY <1>0, <1>6 DEF CumsIs
  <2>2. IsList(l, n)
    BY <2>1 DEF IsList
  <2> HIDE DEF l
  <2>3. Listed(l) = l
    BY <2>2, ListedSame
  <2> QED
    BY <2>1, <2>3 DEF l
<1> HIDE DEF baseL, baseT, bonus
<1>12. BaseRampIs(logits, baseL, M, offM, n)
  BY <1>1, <1>9, BasePlusRamp
<1>13. BaseRampIs(targets, baseT, D, offD, n)
  BY <1>10, BasePlusRamp
<1> HIDE DEF logits, targets, sampled, draft
<1>14. LogitsAre(logits, D, off, offM, n)
  BY <1>2, <1>9, <1>12 DEF BaseRampIs, LogitsAre
<1>15. TargetsAre(targets, D, offD, offM, n)
  BY <1>10, <1>13 DEF BaseRampIs, TargetsAre
<1>16. BonusAre(bonus, offM, n)
  BY <1>11 DEF BonusAre, IsList
<1>17. PICK WD \in Nat, WM \in Nat : WD = offD[n] /\ WM = offM[n]
  BY <1>7, SMTT(40) DEF Offsets
<1>18. IsList(targets, WD) /\ DOMAIN targets = 1 .. WD
  BY <1>15, <1>17, ListedSame DEF TargetsAre
<1>19. SelectIs(ids, input_ids, logits, WM)
  <2>1. IsList(logits, WM)
    BY <1>14, <1>17 DEF LogitsAre
  <2> QED
    BY <2>1, SelectAt
<1> HIDE DEF ids
<1>20. IsList(drafts, WD) /\ \A p \in 1 .. WD : drafts[p] = ids[targets[p] + 1 + 1]
  <2> DEFINE l == [k \in DOMAIN targets |-> Get(ids, targets[k] + 1)]
  <2>1. l = [k \in 1 .. WD |-> ids[targets[k] + 1 + 1]]
    BY <1>18 DEF Get
  <2>2. IsList(l, WD)
    BY <2>1 DEF IsList
  <2> HIDE DEF l
  <2>3. drafts = l
    BY <2>2, ListedSame DEF l
  <2> QED
    BY <2>1, <2>2, <2>3
<1> HIDE DEF drafts
<1>21. ASSUME NEW i \in 1 .. n, NEW j \in 1 .. D[i]
       PROVE  drafts[offD[i - 1] + j] = input_ids[off[i] - D[i] + j]
  <2>0. PICK d \in Nat, w \in Nat : d = D[i] /\ w = off[i]
    <3>1. i \in 0 .. n /\ D[i] \in Nat
      OBVIOUS
    <3>2. off[i] \in Nat
      BY <3>1
    <3> QED
      BY <3>1, <3>2
  <2>1. offD[i - 1] + j \in 1 .. offD[n]
    BY PlaceIn
  <2>2. PICK p \in 1 .. WD : p = offD[i - 1] + j
    BY <2>1, <1>17
  <2>3. j + 1 \in 1 .. M[i]
    BY <1>2, <2>0
  <2>12. PICK j2 \in 1 .. M[i] : j2 = j + 1
    BY <2>3
  <2>13. offM[i - 1] \in Nat /\ offM[i - 1] + j2 \in 1 .. offM[n]
    BY <1>1, PlaceIn, ZenonT(40)
  <2>4. offM[i - 1] \in Nat /\ offM[i - 1] + (j + 1) \in 1 .. offM[n]
    BY <2>12, <2>13
  <2>5. PICK o \in Nat : o = offM[i - 1]
    BY <2>4
  <2>6. PICK q \in 1 .. WM : q = o + (j + 1)
    BY <2>4, <2>5, <1>17
  <2>7. targets[p] = o + (j - 1)
    BY <2>2, <2>5, <1>15 DEF TargetsAre
  <2>8. targets[p] + 1 + 1 = q
    BY <2>6, <2>7, <2>0
  <2>9. logits[q] = w - (d + 1) + ((j + 1) - 1)
    <3>1. j + 1 \in 1 .. D[i] + 1
      BY <2>3, <1>2
    <3> QED
      BY <3>1, <2>0, <2>5, <2>6, <1>14 DEF LogitsAre
  <2>10. logits[q] + 1 = w - d + j
    BY <2>9, <2>0, SMTT(40)
  <2>11. ids[q] = input_ids[logits[q] + 1]
    BY <1>19 DEF SelectIs
  <2> QED
    BY <2>0, <2>2, <2>8, <2>10, <2>11, <1>20
<1>22. DraftsAre(drafts, input_ids, D, off, offD, n)
  BY <1>17, <1>20, <1>21 DEF DraftsAre
<1> QED
  BY <1>4, <1>5, <1>14, <1>15, <1>16, <1>22 DEF meta, offM

-----------------------------------------------------------------------------
(* The target's answers. *)

OwnerOf(b, off, r) == CHOOSE i \in DOMAIN b : r < off[i] /\ r >= off[i] - b[i].sched

(* A flat row has one owner. *)
LEMMA OneOwner ==
  ASSUME NEW n, NEW b, IsBatch(b, n), NEW off, Offsets(off, Of(b, "sched"), n), NEW cu, CumsIs(cu, off, n),
         NEW i \in 1 .. n, NEW r \in Int, off[i] - b[i].sched <= r, r < off[i]
  PROVE  OwnerOf(b, cu, r) = i
<1> DEFINE S == Of(b, "sched")
<1>1. /\ n \in Nat /\ DOMAIN b = 1 .. n /\ S \in [1 .. n -> Nat] /\ \A j \in 1 .. n : S[j] = b[j].sched
  BY BatchCounts
<1>2. Offsets(off, S, n)
  OBVIOUS
<1> HIDE DEF S
<1>3. /\ off \in [0 .. n -> Nat]
      /\ \A j \in 1 .. n : j - 1 \in 0 .. n /\ j \in 0 .. n /\ off[j] = off[j - 1] + S[j]
  BY <1>1, <1>2 DEF Offsets
<1>4. \A j \in 1 .. n : cu[j] = off[j] /\ off[j] \in Nat /\ off[j - 1] \in Nat /\ off[j] - b[j].sched = off[j - 1]
  <2> SUFFICES ASSUME NEW j \in 1 .. n
               PROVE  cu[j] = off[j] /\ off[j] \in Nat /\ off[j - 1] \in Nat /\ off[j] - b[j].sched = off[j - 1]
    OBVIOUS
  <2>1. PICK o \in Nat, s \in Nat : o = off[j - 1] /\ s = S[j] /\ off[j] = o + s
    BY <1>1, <1>3
  <2>2. cu[j] = off[j]
    BY DEF CumsIs
  <2> QED
    BY <2>1, <2>2, <1>1
<1>5. ASSUME NEW j \in 1 .. n, r < cu[j], r >= cu[j] - b[j].sched PROVE j = i
  <2>0. off[j - 1] <= r /\ r < off[j] /\ off[i - 1] <= r /\ r < off[i]
    BY <1>4, <1>5
  <2>1. CASE j < i
    <3>1. j \in 0 .. n /\ i - 1 \in j .. n
      BY <1>1, <2>1
    <3>2. off[j] <= off[i - 1]
      BY <3>1, <1>1, <1>2, OffsetsGrow
    <3> QED
      BY <3>2, <2>0, <1>4
  <2>2. CASE i < j
    <3>1. i \in 0 .. n /\ j - 1 \in i .. n
      BY <1>1, <2>2
    <3>2. off[i] <= off[j - 1]
      BY <3>1, <1>1, <1>2, OffsetsGrow
    <3> QED
      BY <3>2, <2>0, <1>4
  <2> QED
    BY <2>1, <2>2, <1>1
<1>6. r < cu[i] /\ r >= cu[i] - b[i].sched
  BY <1>4
<1> QED
  BY <1>1, <1>5, <1>6 DEF OwnerOf

(* The token at a sampled row is the target's answer there. *)
AnswerAt(b, t, rows, k, i, j) == TokensAt(b, t, rows)[k] = t[i][j]

LEMMA TokensAtRows ==
  ASSUME NEW n, NEW b, IsBatch(b, n), NEW off, Offsets(off, Of(b, "sched"), n), NEW t,
         NEW m \in Nat, NEW rows, IsList(rows, m)
  PROVE  /\ IsList(TokensAt(b, t, rows), m)
         /\ \A k \in 1 .. m, i \in 1 .. n : \A j \in 1 .. b[i].drafts + 1 :
              rows[k] = off[i] - (b[i].drafts + 1) + (j - 1) => AnswerAt(b, t, rows, k, i, j)
<1> DEFINE cu == CumSum(Of(b, "sched"))
           Owner(r) == OwnerOf(b, cu, r)
           Place(r) == r - (cu[Owner(r)] - b[Owner(r)].drafts - 1) + 1
           l == [k \in 1 .. m |-> IF Place(rows[k]) >= 1 THEN t[Owner(rows[k])][Place(rows[k])] ELSE 0]
<1>1. TokensAt(b, t, rows) = Listed(l)
  <2>1. DOMAIN rows = 1 .. m
    BY ListedSame
  <2> QED
    BY <2>1 DEF TokensAt, OwnerOf
<1>2. IsList(l, m)
  BY DEF IsList
<1>3. TokensAt(b, t, rows) = l
  <2> HIDE DEF l
  <2> QED
    BY <1>1, <1>2, ListedSame
<1>4. CumsIs(cu, off, n)
  <2> DEFINE S == Of(b, "sched")
  <2>1. n \in Nat /\ S \in [1 .. n -> Nat] /\ Len(S) = n /\ S \in Seq(Nat)
    <3>1. n \in Nat /\ S \in [1 .. n -> Nat]
      BY BatchCounts
    <3> QED
      BY <3>1
  <2>2. Offsets(off, S, n)
    OBVIOUS
  <2> HIDE DEF S
  <2>3. PICK f : /\ Offsets(f, S, n) /\ CumSum(S) = [i \in 1 .. n |-> f[i]] /\ IsList(CumSum(S), n)
    BY <2>1, CumSumOffsets
  <2>4. f = off
    BY <2>1, <2>2, <2>3, OffsetsUnique
  <2> QED
    BY <2>3, <2>4 DEF CumsIs, S
<1> HIDE DEF cu
<1>5. ASSUME NEW k \in 1 .. m, NEW i \in 1 .. n, NEW j \in 1 .. b[i].drafts + 1,
             rows[k] = off[i] - (b[i].drafts + 1) + (j - 1)
      PROVE  AnswerAt(b, t, rows, k, i, j)
  <2>1. IsRequest(b[i])
    BY DEF IsBatch
  <2>2. PICK d \in Nat, s \in Nat : d = b[i].drafts /\ s = b[i].sched /\ d < s
    BY <2>1 DEF IsRequest
  <2>3. PICK w \in Nat : w = off[i] /\ cu[i] = w
    <3>1. n \in Nat /\ off \in [0 .. n -> Nat] /\ i \in 0 .. n
      BY BatchCounts DEF Offsets
    <3> QED
      BY <3>1, <1>4 DEF CumsIs
  <2>4. PICK r \in Int : r = rows[k] /\ r = w - (d + 1) + (j - 1)
    BY <2>2, <2>3, <1>5
  <2>5. j \in 1 .. d + 1 /\ w - s <= r /\ r < w
    BY <2>2, <2>4
  <2>6. Owner(r) = i
    BY <2>2, <2>3, <2>5, <1>4, OneOwner
  <2> HIDE DEF Owner
  <2>7. Place(r) = j
    <3>1. Place(r) = r - (w - d - 1) + 1
      BY <2>2, <2>3, <2>6
    <3> QED
      BY <3>1, <2>2, <2>4, <2>5
  <2> HIDE DEF Place
  <2>8. j >= 1
    BY <2>5
  <2> QED
    BY <2>4, <2>6, <2>7, <2>8, <1>3 DEF AnswerAt
<1> QED
  BY <1>2, <1>3, <1>5

-----------------------------------------------------------------------------
(* The rejection sampler. *)

LEMMA MismatchFacts ==
  ASSUME NEW draft, NEW target, NEW start, NEW n \in Nat
  PROVE  /\ FirstMismatch(draft, target, start, n) \in 0 .. n
         /\ \A p \in 0 .. n - 1 : p < FirstMismatch(draft, target, start, n) =>
              draft[start + p + 1] = target[start + p + 1]
         /\ FirstMismatch(draft, target, start, n) < n =>
              draft[start + FirstMismatch(draft, target, start, n) + 1]
                # target[start + FirstMismatch(draft, target, start, n) + 1]
<1> DEFINE differ == {p \in 0 .. n - 1 : draft[start + p + 1] # target[start + p + 1]}
           a == FirstMismatch(draft, target, start, n)
<1>1. a = IF differ = {} THEN n ELSE Min(differ)
  BY DEF FirstMismatch, Get
<1>2. CASE differ = {}
  <2>1. a = n
    BY <1>1, <1>2
  <2> HIDE DEF a
  <2>2. a \in 0 .. n /\ ~(a < n)
    BY <2>1
  <2>3. \A p \in 0 .. n - 1 : draft[start + p + 1] = target[start + p + 1]
    BY <1>2
  <2> QED
    BY <2>2, <2>3 DEF a
<1>3. CASE differ # {}
  <2>1. differ \in SUBSET Nat
    OBVIOUS
  <2>2. Min(differ) \in differ /\ \A p \in differ : Min(differ) <= p
    BY <2>1, <1>3, MinFacts
  <2>3. a \in differ /\ \A p \in differ : a <= p
    BY <2>2, <1>1, <1>3
  <2> HIDE DEF a
  <2>4. a \in 0 .. n - 1 /\ draft[start + a + 1] # target[start + a + 1]
    BY <2>3
  <2>5. ASSUME NEW p \in 0 .. n - 1, p < a PROVE draft[start + p + 1] = target[start + p + 1]
    <3>1. p \notin differ
      <4> HIDE DEF differ
      <4>1. ~(a <= p)
        BY <2>4, <2>5
      <4> QED
        BY <4>1, <2>3
    <3> QED
      BY <3>1
  <2>6. a \in 0 .. n
    BY <2>4
  <2> QED
    BY <2>4, <2>5, <2>6 DEF a
<1> QED
  BY <1>2, <1>3

SamplerInputs(meta, target, bonus, greedy, t, D, offD, n) ==
  /\ n \in Nat \ {0} /\ IsList(D, n) /\ D \in [1 .. n -> Nat] /\ Offsets(offD, D, n)
  /\ meta.num_draft_tokens = D /\ CumsIs(meta.cu_num_draft_tokens, offD, n)
  /\ IsList(meta.draft_token_ids, offD[n])
  /\ \A i \in 1 .. n : \A j \in 1 .. D[i] : target[offD[i - 1] + j] = t[i][j]
  /\ \A i \in 1 .. n : bonus[i] = t[i][D[i] + 1]
  /\ IsList(greedy, n) /\ greedy \in [1 .. n -> BOOLEAN]

Agreed(meta, target, D, offD, i) == FirstMismatch(meta.draft_token_ids, target, offD[i - 1], D[i])

(* A row of the output: the answer up to a + 1 tokens, and placeholders. *)
RowIs(row, answer, a, W) ==
  DOMAIN row = 1 .. W /\ \A c \in 1 .. W : row[c] = IF c <= a + 1 THEN answer[c] ELSE Placeholder
EmptyRow(row, W) == DOMAIN row = 1 .. W /\ \A c \in 1 .. W : row[c] = Placeholder

(* The rows of the requests in S are sampled, the others are empty. *)
SampledRows(out, S, meta, target, t, D, offD, n, W) ==
  /\ DOMAIN out = 1 .. n
  /\ \A i \in 1 .. n : IF i \in S THEN RowIs(out[i], t[i], Agreed(meta, target, D, offD, i), W)
                       ELSE EmptyRow(out[i], W)

LEMMA GreedySampled ==
  ASSUME NEW meta, NEW target, NEW bonus, NEW greedy, NEW t, NEW D, NEW offD, NEW n,
         SamplerInputs(meta, target, bonus, greedy, t, D, offD, n),
         NEW W \in Nat, \A i \in 1 .. n : D[i] < W, NEW out,
         SampledRows(out, {}, meta, target, t, D, offD, n, W)
  PROVE  SampledRows(RejectionGreedySample(out, meta, target, bonus, greedy),
                     {i \in 1 .. n : greedy[i]}, meta, target, t, D, offD, n, W)
<1>1. /\ n \in Nat \ {0} /\ IsList(D, n) /\ D \in [1 .. n -> Nat] /\ DOMAIN D = 1 .. n
      /\ meta.num_draft_tokens = D /\ Offsets(offD, D, n)
      /\ \A i \in 1 .. n : \A j \in 1 .. D[i] : target[offD[i - 1] + j] = t[i][j]
      /\ \A i \in 1 .. n : bonus[i] = t[i][D[i] + 1]
      /\ greedy \in [1 .. n -> BOOLEAN]
  BY DEF SamplerInputs
<1> DEFINE cu == meta.cu_num_draft_tokens
           start == Minus(cu, D)
           a(i) == Agreed(meta, target, D, offD, i)
           first == Listed([i \in 1 .. n |-> FirstMismatch(meta.draft_token_ids, target, start[i], D[i])])
           copy_len == Listed([i \in 1 .. n |-> Min({first[i] + 1, D[i]})])
           res == RejectionGreedySample(out, meta, target, bonus, greedy)
           Cell(i, c) == CASE greedy[i] /\ c - 1 < copy_len[i] -> Get(target, start[i] + c - 1)
                           [] greedy[i] /\ first[i] >= D[i] /\ c - 1 = D[i] -> bonus[i]
                           [] OTHER -> out[i][c]
<1>2. res = [i \in DOMAIN out |-> [c \in DOMAIN out[i] |-> Cell(i, c)]]
  BY <1>1 DEF RejectionGreedySample
<1>3. CumsIs(cu, offD, n)
  BY DEF SamplerInputs
<1> HIDE DEF cu
<1>4. \A i \in 1 .. n : start[i] = offD[i - 1] /\ offD[i - 1] \in Nat
  <2>0. n \in Nat /\ IsList(cu, n)
    BY <1>1, <1>3 DEF CumsIs
  <2>1. MinusIs(start, cu, D, n)
    BY <2>0, MinusAt
  <2> HIDE DEF start
  <2> SUFFICES ASSUME NEW i \in 1 .. n PROVE start[i] = offD[i - 1] /\ offD[i - 1] \in Nat
    OBVIOUS
  <2>2. n \in Nat /\ D \in [1 .. n -> Nat] /\ Offsets(offD, D, n)
    BY <1>1
  <2>5. NextOffset(offD, D, i)
    BY <2>2, OffsetAt
  <2>3. PICK o \in Nat, d \in Nat : o = offD[i - 1] /\ d = D[i] /\ offD[i] = o + d
    BY <2>5 DEF NextOffset
  <2>4. start[i] = (o + d) - d
    BY <2>1, <2>3, <1>3 DEF MinusIs, CumsIs
  <2> QED
    BY <2>3, <2>4
<1> HIDE DEF start
<1>5. \A i \in 1 .. n : first[i] = a(i)
  <2> DEFINE l == [i \in 1 .. n |-> FirstMismatch(meta.draft_token_ids, target, start[i], D[i])]
  <2>1. IsList(l, n)
    BY DEF IsList
  <2>2. \A i \in 1 .. n : l[i] = a(i)
    BY <1>4 DEF Agreed
  <2> HIDE DEF l
  <2>3. Listed(l) = l
    BY <2>1, <1>1, ListedSame
  <2>4. first = l
    BY <2>3 DEF l
  <2> HIDE DEF first
  <2> QED
    BY <2>2, <2>4
<1> HIDE DEF first
<1>6. \A i \in 1 .. n : a(i) \in 0 .. D[i]
  BY <1>1, MismatchFacts DEF Agreed
<1> HIDE DEF a
<1>7. \A i \in 1 .. n : copy_len[i] = IF a(i) + 1 <= D[i] THEN a(i) + 1 ELSE D[i]
  <2> DEFINE l == [i \in 1 .. n |-> Min({first[i] + 1, D[i]})]
  <2>1. IsList(l, n)
    BY DEF IsList
  <2>2. ASSUME NEW i \in 1 .. n PROVE l[i] = IF a(i) + 1 <= D[i] THEN a(i) + 1 ELSE D[i]
    <3>1. PICK x \in Nat, y \in Nat : x = a(i) + 1 /\ y = D[i] /\ first[i] + 1 = x
      BY <1>1, <1>5, <1>6
    <3>2. l[i] = Min({x, y})
      BY <3>1
    <3>3. Min({x, y}) = IF x <= y THEN x ELSE y
      BY MinOfTwo
    <3> QED
      BY <3>1, <3>2, <3>3
  <2> HIDE DEF l
  <2>3. copy_len = l
    BY <2>1, <1>1, ListedSame DEF l
  <2> HIDE DEF copy_len
  <2> QED
    BY <2>2, <2>3
<1> HIDE DEF copy_len
<1>8. DOMAIN out = 1 .. n /\ \A i \in 1 .. n : EmptyRow(out[i], W)
  BY DEF SampledRows
<1>9. ASSUME NEW i \in 1 .. n
      PROVE  IF greedy[i] THEN RowIs(res[i], t[i], a(i), W) ELSE EmptyRow(res[i], W)
  <2>1. DOMAIN out[i] = 1 .. W /\ \A c \in 1 .. W : out[i][c] = Placeholder
    BY <1>8 DEF EmptyRow
  <2>2. DOMAIN res[i] = 1 .. W /\ \A c \in 1 .. W : res[i][c] = Cell(i, c)
    <3> HIDE DEF Cell
    <3> QED
      BY <2>1, <1>2, <1>8
  <2> HIDE DEF res
  <2>3. CASE ~greedy[i]
    <3>1. \A c \in 1 .. W : Cell(i, c) = out[i][c]
      BY <2>3
    <3> HIDE DEF Cell
    <3> QED
      BY <2>1, <2>2, <2>3, <3>1 DEF EmptyRow
  <2>4. CASE greedy[i]
    <3>1. PICK d \in Nat, o \in Nat, x \in Nat :
            /\ d = D[i] /\ o = offD[i - 1] /\ x = a(i) /\ x <= d /\ start[i] = o /\ first[i] = x
            /\ copy_len[i] = IF x + 1 <= d THEN x + 1 ELSE d
      <4>1. D[i] \in Nat /\ offD[i - 1] \in Nat /\ a(i) \in 0 .. D[i]
        BY <1>1, <1>4, <1>6
      <4>2. a(i) \in Nat /\ a(i) <= D[i]
        BY <4>1
      <4> QED
        BY <4>1, <4>2, <1>4, <1>5, <1>7
    <3>2. ASSUME NEW c \in 1 .. W PROVE Cell(i, c) = IF c <= x + 1 THEN t[i][c] ELSE Placeholder
      <4>1. CASE c - 1 < copy_len[i]
        <5>1. c <= x + 1 /\ c \in 1 .. d /\ o + c - 1 + 1 = o + c
          BY <3>1, <4>1
        <5>2. Cell(i, c) = target[start[i] + c - 1 + 1]
          <6>1. ~(c - 1 = D[i])
            BY <3>1, <4>1
          <6> QED
            BY <6>1, <4>1, <2>4 DEF Get
        <5>3. target[offD[i - 1] + c] = t[i][c]
          BY <5>1, <3>1, <1>1
        <5> HIDE DEF Cell
        <5> QED
          BY <5>1, <5>2, <5>3, <3>1
      <4>2. CASE ~(c - 1 < copy_len[i]) /\ x = d /\ c - 1 = d
        <5>1. c <= x + 1 /\ c = D[i] + 1 /\ first[i] >= D[i] /\ c - 1 = D[i]
          BY <3>1, <4>2
        <5>2. Cell(i, c) = bonus[i]
          BY <5>1, <4>2, <2>4
        <5>3. bonus[i] = t[i][c]
          BY <5>1, <1>1
        <5> HIDE DEF Cell
        <5> QED
          BY <5>1, <5>2, <5>3
      <4>3. CASE ~(c - 1 < copy_len[i]) /\ ~(x = d /\ c - 1 = d)
        <5>1. ~(c <= x + 1) /\ ~(first[i] >= D[i] /\ c - 1 = D[i])
          BY <3>1, <4>3
        <5>2. Cell(i, c) = out[i][c]
          BY <5>1, <4>3
        <5> HIDE DEF Cell
        <5> QED
          BY <5>1, <5>2, <2>1
      <4> QED
        BY <4>1, <4>2, <4>3
    <3> HIDE DEF Cell
    <3>3. \A c \in 1 .. W : res[i][c] = IF c <= x + 1 THEN t[i][c] ELSE Placeholder
      BY <2>2, <3>2
    <3>4. RowIs(res[i], t[i], x, W)
      BY <2>2, <3>3 DEF RowIs
    <3> QED
      BY <2>4, <3>1, <3>4
  <2> QED
    BY <2>3, <2>4
<1>10. DOMAIN res = 1 .. n
  <2> HIDE DEF Cell
  <2> QED
    BY <1>2, <1>8
<1> HIDE DEF res
<1> QED
  BY <1>9, <1>10 DEF SampledRows, a, res

LEMMA RandomSampled ==
  ASSUME NEW meta, NEW target, NEW bonus, NEW greedy, NEW t, NEW D, NEW offD, NEW n,
         SamplerInputs(meta, target, bonus, greedy, t, D, offD, n),
         NEW W \in Nat, \A i \in 1 .. n : D[i] < W, NEW out,
         SampledRows(out, {i \in 1 .. n : greedy[i]}, meta, target, t, D, offD, n, W)
  PROVE  SampledRows(RejectionRandomSample(out, meta, target, bonus,
                       SampleRecoveredTokens(meta.draft_token_ids, target), greedy),
                     1 .. n, meta, target, t, D, offD, n, W)
<1>1. /\ n \in Nat \ {0} /\ D \in [1 .. n -> Nat] /\ Offsets(offD, D, n)
      /\ \A i \in 1 .. n : \A j \in 1 .. D[i] : target[offD[i - 1] + j] = t[i][j]
      /\ \A i \in 1 .. n : bonus[i] = t[i][D[i] + 1]
      /\ greedy \in [1 .. n -> BOOLEAN]
  BY DEF SamplerInputs
<1> DEFINE cu == meta.cu_num_draft_tokens
           drafts == meta.draft_token_ids
           rec == SampleRecoveredTokens(drafts, target)
           a(i) == Agreed(meta, target, D, offD, i)
           start(i) == IF i = 1 THEN 0 ELSE cu[i - 1]
           m(i) == cu[i] - start(i)
           first == Listed([i \in 1 .. n |-> FirstMismatch(drafts, target, start(i), m(i))])
           res == RejectionRandomSample(out, meta, target, bonus, rec, greedy)
           Cell(i, c) == CASE ~greedy[i] /\ c - 1 < first[i] -> Get(drafts, start(i) + c - 1)
                           [] ~greedy[i] /\ c - 1 = first[i] /\ first[i] < m(i) -> Get(rec, start(i) + c - 1)
                           [] ~greedy[i] /\ c - 1 = m(i) /\ first[i] = m(i) -> bonus[i]
                           [] OTHER -> out[i][c]
<1>2. DOMAIN out = 1 .. n
  BY DEF SampledRows
<1>3. res = [i \in DOMAIN out |-> [c \in DOMAIN out[i] |-> Cell(i, c)]]
  BY <1>2 DEF RejectionRandomSample
<1>4. CumsIs(cu, offD, n) /\ IsList(drafts, offD[n])
  BY DEF SamplerInputs
<1>5. PICK WD \in Nat : WD = offD[n]
  BY <1>1 DEF Offsets
<1>6. \A p \in 1 .. WD : rec[p] = IF target[p] = drafts[p] THEN 3 ELSE target[p]
  <2> DEFINE l == [k \in 1 .. WD |-> IF target[k] = drafts[k] THEN 3 ELSE target[k]]
  <2>1. IsList(l, WD)
    BY DEF IsList
  <2>2. DOMAIN drafts = 1 .. WD
    BY <1>4, <1>5, ListedSame
  <2> HIDE DEF drafts
  <2>3. rec = Listed(l)
    BY <2>2 DEF SampleRecoveredTokens
  <2>4. rec = l
    <3> HIDE DEF l, rec
    <3> QED
      BY <2>1, <2>3, ListedSame
  <2> HIDE DEF rec
  <2> QED
    BY <2>4
<1> HIDE DEF cu, drafts, rec
<1>7. \A i \in 1 .. n : start(i) = offD[i - 1] /\ m(i) = D[i] /\ offD[i - 1] \in Nat
  <2> SUFFICES ASSUME NEW i \in 1 .. n
               PROVE  start(i) = offD[i - 1] /\ m(i) = D[i] /\ offD[i - 1] \in Nat
    OBVIOUS
  <2>1. NextOffset(offD, D, i)
    <3>1. n \in Nat /\ D \in [1 .. n -> Nat] /\ Offsets(offD, D, n)
      BY <1>1
    <3> QED
      BY <3>1, OffsetAt
  <2>2. PICK o \in Nat, d \in Nat : o = offD[i - 1] /\ d = D[i] /\ offD[i] = o + d
    BY <2>1 DEF NextOffset
  <2>3. start(i) = o
    <3>1. CASE i = 1
      <4>1. offD[0] = 0 /\ i - 1 = 0
        BY <1>1, <3>1 DEF Offsets
      <4> QED
        BY <3>1, <4>1, <2>2
    <3>2. CASE i # 1
      <4>1. i - 1 \in 1 .. n
        BY <3>2, <1>1
      <4> QED
        BY <3>2, <4>1, <2>2, <1>4 DEF CumsIs
    <3> QED
      BY <3>1, <3>2
  <2>4. cu[i] = o + d
    BY <2>2, <1>4 DEF CumsIs
  <2> HIDE DEF start
  <2>5. m(i) = (o + d) - o
    BY <2>3, <2>4
  <2> QED
    BY <2>2, <2>3, <2>5
<1> HIDE DEF start, m
<1>8. \A i \in 1 .. n : first[i] = a(i)
  <2> DEFINE l == [i \in 1 .. n |-> FirstMismatch(drafts, target, start(i), m(i))]
  <2>1. IsList(l, n)
    BY DEF IsList
  <2>2. \A i \in 1 .. n : l[i] = a(i)
    BY <1>7 DEF Agreed, drafts
  <2> HIDE DEF l
  <2>3. Listed(l) = l
    BY <2>1, <1>1, ListedSame
  <2>4. first = l
    BY <2>3 DEF l
  <2> HIDE DEF first
  <2> QED
    BY <2>2, <2>4
<1> HIDE DEF first
<1>9. \A i \in 1 .. n : /\ a(i) \in 0 .. D[i]
                        /\ \A p \in 0 .. D[i] - 1 : p < a(i) =>
                             drafts[offD[i - 1] + p + 1] = target[offD[i - 1] + p + 1]
                        /\ a(i) < D[i] => drafts[offD[i - 1] + a(i) + 1] # target[offD[i - 1] + a(i) + 1]
  BY <1>1, MismatchFacts DEF Agreed, drafts
<1> HIDE DEF a
<1>10. ASSUME NEW i \in 1 .. n PROVE RowIs(res[i], t[i], a(i), W)
  <2>1. DOMAIN out[i] = 1 .. W
    BY DEF SampledRows, RowIs, EmptyRow
  <2>2. DOMAIN res[i] = 1 .. W /\ \A c \in 1 .. W : res[i][c] = Cell(i, c)
    <3> HIDE DEF Cell
    <3> QED
      BY <2>1, <1>2, <1>3
  <2> HIDE DEF res
  <2>3. CASE greedy[i]
    <3>1. \A c \in 1 .. W : Cell(i, c) = out[i][c]
      BY <2>3
    <3>2. RowIs(out[i], t[i], a(i), W)
      BY <2>3 DEF SampledRows, a
    <3> HIDE DEF Cell
    <3> QED
      BY <2>2, <3>1, <3>2 DEF RowIs
  <2>4. CASE ~greedy[i]
    <3>0. \A c \in 1 .. W : out[i][c] = Placeholder
      BY <2>4 DEF SampledRows, EmptyRow
    <3>1. PICK d \in Nat, o \in Nat, x \in Nat :
            d = D[i] /\ o = offD[i - 1] /\ x = a(i) /\ x <= d /\ start(i) = o /\ m(i) = d /\ first[i] = x
      <4>1. D[i] \in Nat /\ offD[i - 1] \in Nat /\ a(i) \in 0 .. D[i]
        BY <1>1, <1>7, <1>9
      <4>2. a(i) \in Nat /\ a(i) <= D[i]
        BY <4>1
      <4> QED
        BY <4>1, <4>2, <1>7, <1>8
    <3>2. /\ \A p \in 0 .. d - 1 : p < x => drafts[o + p + 1] = target[o + p + 1]
          /\ x < d => drafts[o + x + 1] # target[o + x + 1]
      BY <3>1, <1>9
    <3>3. \A j \in 1 .. d : target[o + j] = t[i][j] /\ o + j \in 1 .. WD
      <4> SUFFICES ASSUME NEW j \in 1 .. d PROVE target[o + j] = t[i][j] /\ o + j \in 1 .. WD
        OBVIOUS
      <4>1. j \in 1 .. D[i]
        BY <3>1
      <4>2. n \in Nat /\ D \in [1 .. n -> Nat] /\ Offsets(offD, D, n)
        BY <1>1
      <4>3. offD[i - 1] + j \in 1 .. offD[n]
        BY <4>1, <4>2, PlaceIn
      <4> QED
        BY <4>1, <4>3, <3>1, <1>1, <1>5
    <3>4. ASSUME NEW c \in 1 .. W PROVE Cell(i, c) = IF c <= x + 1 THEN t[i][c] ELSE Placeholder
      <4>1. CASE c - 1 < x
        <5>1. c <= x + 1 /\ c - 1 \in 0 .. d - 1 /\ c \in 1 .. d /\ o + (c - 1) + 1 = o + c /\ o + c - 1 + 1 = o + c
          BY <3>1, <4>1
        <5>2. Cell(i, c) = drafts[start(i) + c - 1 + 1]
          <6>1. c - 1 < first[i] /\ ~(c - 1 = first[i]) /\ ~(c - 1 = m(i))
            BY <3>1, <4>1
          <6> QED
            BY <6>1, <2>4 DEF Get
        <5>3. drafts[o + (c - 1) + 1] = target[o + (c - 1) + 1]
          BY <5>1, <4>1, <3>2
        <5> HIDE DEF Cell
        <5> QED
          BY <5>1, <5>2, <5>3, <3>1, <3>3
      <4>2. CASE c - 1 = x /\ x < d
        <5>1. c <= x + 1 /\ c \in 1 .. d /\ o + x + 1 = o + c /\ o + c - 1 + 1 = o + c
          BY <3>1, <4>2
        <5>2. Cell(i, c) = rec[start(i) + c - 1 + 1]
          <6>1. ~(c - 1 < first[i]) /\ c - 1 = first[i] /\ first[i] < m(i) /\ ~(first[i] = m(i))
            BY <3>1, <4>2
          <6> QED
            BY <6>1, <2>4 DEF Get
        <5>3. drafts[o + c] # target[o + c]
          BY <5>1, <4>2, <3>2
        <5>4. rec[o + c] = target[o + c]
          BY <5>1, <5>3, <3>3, <1>6
        <5> HIDE DEF Cell
        <5> QED
          BY <5>1, <5>2, <5>4, <3>1, <3>3
      <4>3. CASE c - 1 = d /\ x = d
        <5>1. c <= x + 1 /\ c = D[i] + 1
          BY <3>1, <4>3
        <5>2. Cell(i, c) = bonus[i]
          <6>1. ~(c - 1 < first[i]) /\ ~(first[i] < m(i)) /\ c - 1 = m(i) /\ first[i] = m(i)
            BY <3>1, <4>3
          <6> QED
            BY <6>1, <2>4
        <5>3. bonus[i] = t[i][c]
          BY <5>1, <1>1
        <5> HIDE DEF Cell
        <5> QED
          BY <5>1, <5>2, <5>3
      <4>4. CASE ~(c - 1 < x) /\ ~(c - 1 = x /\ x < d) /\ ~(c - 1 = d /\ x = d)
        <5>1. /\ ~(c <= x + 1) /\ ~(c - 1 < first[i]) /\ ~(c - 1 = first[i] /\ first[i] < m(i))
              /\ ~(c - 1 = m(i) /\ first[i] = m(i))
          BY <3>1, <4>4
        <5>2. Cell(i, c) = out[i][c]
          BY <5>1
        <5> HIDE DEF Cell
        <5> QED
          BY <5>1, <5>2, <3>0
      <4> QED
        BY <4>1, <4>2, <4>3, <4>4
    <3> HIDE DEF Cell
    <3>5. \A c \in 1 .. W : res[i][c] = IF c <= x + 1 THEN t[i][c] ELSE Placeholder
      BY <2>2, <3>4
    <3>6. RowIs(res[i], t[i], x, W)
      BY <2>2, <3>5 DEF RowIs
    <3> QED
      BY <3>1, <3>6
  <2> QED
    BY <2>3, <2>4
<1>11. DOMAIN res = 1 .. n
  <2> HIDE DEF Cell
  <2> QED
    BY <1>2, <1>3
<1> HIDE DEF res
<1> QED
  BY <1>10, <1>11 DEF SampledRows, a, res, rec, drafts

(* One draft each, all greedy: rejection_greedy_sample_spec_len_1. *)
LEMMA SpecLen1Sampled ==
  ASSUME NEW meta, NEW target, NEW bonus, NEW greedy, NEW t, NEW D, NEW offD, NEW n,
         SamplerInputs(meta, target, bonus, greedy, t, D, offD, n),
         \A i \in 1 .. n : D[i] = 1
  PROVE  SampledRows(RejectionGreedySpecLen1(meta.draft_token_ids, target, bonus),
                     1 .. n, meta, target, t, D, offD, n, 2)
<1> DEFINE drafts == meta.draft_token_ids
           res == RejectionGreedySpecLen1(drafts, target, bonus)
           a(i) == Agreed(meta, target, D, offD, i)
<1>1. /\ n \in Nat \ {0} /\ D \in [1 .. n -> Nat] /\ Offsets(offD, D, n)
      /\ \A i \in 1 .. n : \A j \in 1 .. D[i] : target[offD[i - 1] + j] = t[i][j]
      /\ \A i \in 1 .. n : bonus[i] = t[i][D[i] + 1]
      /\ IsList(drafts, offD[n])
  BY DEF SamplerInputs
<1>2. \A i \in 0 .. n : offD[i] = i
  <2> DEFINE f == [i \in 0 .. n |-> i]
  <2>1. n \in Nat /\ D \in [1 .. n -> Nat] /\ Offsets(offD, D, n)
    BY <1>1
  <2>2. f \in [0 .. n -> Nat] /\ f[0] = 0
    BY <2>1
  <2>3. \A i \in 1 .. n : f[i] = f[i - 1] + D[i]
    BY <2>1
  <2>4. Offsets(f, D, n)
    BY <2>2, <2>3 DEF Offsets
  <2> HIDE DEF f
  <2>5. offD = f
    BY <2>1, <2>4, OffsetsUnique
  <2> QED
    BY <2>5 DEF f
<1>3. n \in 0 .. n /\ offD[n] = n
  BY <1>1, <1>2
<1>4. DOMAIN drafts = 1 .. n
  BY <1>1, <1>3, ListedSame
<1>5. \A i \in 1 .. n : /\ a(i) \in 0 .. D[i]
                        /\ \A p \in 0 .. D[i] - 1 : p < a(i) =>
                             drafts[offD[i - 1] + p + 1] = target[offD[i - 1] + p + 1]
                        /\ a(i) < D[i] => drafts[offD[i - 1] + a(i) + 1] # target[offD[i - 1] + a(i) + 1]
  BY <1>1, MismatchFacts DEF Agreed
<1> HIDE DEF a, drafts
<1>6. /\ DOMAIN res = 1 .. n
      /\ \A i \in 1 .. n : res[i] = <<target[i], IF drafts[i] = target[i] THEN bonus[i] ELSE Placeholder>>
  BY <1>4 DEF RejectionGreedySpecLen1
<1> HIDE DEF res
<1>7. ASSUME NEW i \in 1 .. n PROVE RowIs(res[i], t[i], a(i), 2)
  <2>1. offD[i - 1] = i - 1 /\ D[i] = 1 /\ i \in Nat
    BY <1>1, <1>2
  <2>2. PICK x \in Nat : x = a(i) /\ x <= 1
    BY <2>1, <1>5
  <2>3. /\ 0 < x => drafts[(i - 1) + 0 + 1] = target[(i - 1) + 0 + 1]
        /\ x < 1 => drafts[(i - 1) + x + 1] # target[(i - 1) + x + 1]
    <3>1. 0 \in 0 .. D[i] - 1
      BY <2>1
    <3> QED
      BY <3>1, <2>1, <2>2, <1>5
  <2>4. (i - 1) + 0 + 1 = i /\ (x < 1 => (i - 1) + x + 1 = i)
    BY <2>1
  <2>5. drafts[i] = target[i] <=> x = 1
    BY <2>2, <2>3, <2>4
  <2>6. target[i] = t[i][1] /\ bonus[i] = t[i][2]
    <3>1. 1 \in 1 .. D[i] /\ offD[i - 1] + 1 = i /\ D[i] + 1 = 2
      BY <2>1
    <3> QED
      BY <3>1, <1>1
  <2>7. DOMAIN res[i] = 1 .. 2 /\ res[i][1] = t[i][1] /\ res[i][2] = IF x = 1 THEN t[i][2] ELSE Placeholder
    BY <2>5, <2>6, <1>6
  <2>8. \A c \in 1 .. 2 : c = 1 \/ c = 2
    OBVIOUS
  <2>9. 1 <= x + 1 /\ (2 <= x + 1 <=> x = 1)
    BY <2>2
  <2> QED
    BY <2>2, <2>7, <2>8, <2>9 DEF RowIs
<1> QED
  BY <1>6, <1>7 DEF SampledRows, a, res, drafts

(* rejection_sample: each row has the drafts that the target agrees with   *)
(* and one token more.                                                     *)
LEMMA RejectionSampled ==
  ASSUME NEW meta, NEW target, NEW bonus, NEW greedy, NEW t, NEW D, NEW offD, NEW n,
         SamplerInputs(meta, target, bonus, greedy, t, D, offD, n)
  PROVE  \E W \in Nat : /\ \A i \in 1 .. n : D[i] < W
                        /\ SampledRows(RejectionSample(meta, target, bonus, greedy),
                                       1 .. n, meta, target, t, D, offD, n, W)
<1> DEFINE W == Max(Range(D)) + 1
           none == [i \in DOMAIN D |-> [c \in 1 .. W |-> Placeholder]]
           all == Range(greedy) = {TRUE}
           nobody == Range(greedy) = {FALSE}
           spec1 == RejectionGreedySpecLen1(meta.draft_token_ids, target, bonus)
           greedily == RejectionGreedySample(none, meta, target, bonus, greedy)
           chosen == IF nobody THEN none ELSE IF Range(D) = {1} /\ all THEN spec1 ELSE greedily
           rec == SampleRecoveredTokens(meta.draft_token_ids, target)
           G == {i \in 1 .. n : greedy[i]}
           res == RejectionSample(meta, target, bonus, greedy)
<1>1. /\ n \in Nat \ {0} /\ D \in [1 .. n -> Nat] /\ meta.num_draft_tokens = D
      /\ greedy \in [1 .. n -> BOOLEAN]
  BY DEF SamplerInputs
<1>2. res = IF all THEN chosen ELSE RejectionRandomSample(chosen, meta, target, bonus, rec, greedy)
  BY <1>1 DEF RejectionSample
<1>3. /\ Range(D) \in SUBSET Nat /\ \A i \in 1 .. n : D[i] \in Range(D)
      /\ 1 \in 1 .. n /\ Range(D) # {}
      /\ \A i \in 1 .. n : greedy[i] \in Range(greedy)
      /\ \A g \in Range(greedy) : \E i \in 1 .. n : g = greedy[i]
  BY <1>1 DEF Range
<1>4. IsFiniteSet(Range(D))
  <2>1. IsFiniteSet(1 .. n)
    BY <1>1, FS_Interval
  <2>2. D \in Surjection(1 .. n, Range(D))
    BY <1>1 DEF Surjection, Range
  <2> QED
    BY <2>1, <2>2, FS_Surjection
<1>5. Max(Range(D)) \in Range(D) /\ \A x \in Range(D) : x <= Max(Range(D))
  BY <1>3, <1>4, MaxFacts
<1>6. PICK w \in Nat : w = W /\ (\A i \in 1 .. n : D[i] < w) /\ (Range(D) = {1} => w = 2)
  <2>1. PICK m \in Nat : m = Max(Range(D))
    BY <1>3, <1>5
  <2>2. \A i \in 1 .. n : D[i] \in Nat /\ D[i] <= m
    BY <2>1, <1>1, <1>3, <1>5
  <2>3. m + 1 \in Nat /\ W = m + 1 /\ (\A i \in 1 .. n : D[i] < m + 1) /\ (Range(D) = {1} => m + 1 = 2)
    BY <2>1, <2>2, <1>5
  <2> QED
    BY <2>3
<1>7. SampledRows(none, {}, meta, target, t, D, offD, n, w)
  <2>1. none = [i \in 1 .. n |-> [c \in 1 .. w |-> Placeholder]]
    BY <1>1, <1>6
  <2> HIDE DEF none
  <2>2. ASSUME NEW i \in 1 .. n PROVE EmptyRow(none[i], w)
    <3>1. none[i] = [c \in 1 .. w |-> Placeholder]
      BY <2>1
    <3> QED
      BY <3>1 DEF EmptyRow
  <2> QED
    BY <2>1, <2>2 DEF SampledRows
<1> HIDE DEF none, W
<1>8. CASE nobody
  <2>1. ~all
    BY <1>8
  <2>2. \A i \in 1 .. n : greedy[i] = FALSE
    BY <1>8, <1>3
  <2>3. G = {}
    BY <2>2
  <2>4. chosen = none
    BY <1>8
  <2> HIDE DEF chosen, all, G
  <2>5. res = RejectionRandomSample(none, meta, target, bonus, rec, greedy)
    BY <2>1, <2>4, <1>2
  <2>6. SampledRows(none, G, meta, target, t, D, offD, n, w)
    BY <2>3, <1>7
  <2>7. SampledRows(RejectionRandomSample(none, meta, target, bonus, rec, greedy),
                    1 .. n, meta, target, t, D, offD, n, w)
    BY <2>6, <1>6, RandomSampled DEF G
  <2> HIDE DEF res
  <2> QED
    BY <2>5, <2>7, <1>6 DEF res
<1>9. CASE ~nobody /\ all /\ Range(D) = {1}
  <2>1. \A i \in 1 .. n : D[i] = 1
    BY <1>9, <1>3
  <2>2. chosen = spec1 /\ res = chosen
    BY <1>9, <1>2
  <2>3. SampledRows(spec1, 1 .. n, meta, target, t, D, offD, n, 2)
    BY <2>1, SpecLen1Sampled
  <2>4. w = 2
    BY <1>9, <1>6
  <2> HIDE DEF res, chosen, spec1
  <2> QED
    BY <2>2, <2>3, <2>4, <1>6 DEF res
<1>10. CASE ~nobody /\ ~(all /\ Range(D) = {1})
  <2>1. chosen = greedily
    BY <1>10
  <2>2. SampledRows(greedily, G, meta, target, t, D, offD, n, w)
    BY <1>6, <1>7, GreedySampled
  <2> HIDE DEF chosen, greedily
  <2>3. CASE all
    <3>1. \A i \in 1 .. n : greedy[i] = TRUE
      BY <2>3, <1>3
    <3>2. G = 1 .. n
      BY <3>1
    <3> HIDE DEF G
    <3>3. res = greedily
      BY <2>1, <2>3, <1>2
    <3> HIDE DEF res
    <3> QED
      BY <3>2, <3>3, <2>2, <1>6 DEF res
  <2>4. CASE ~all
    <3>1. res = RejectionRandomSample(greedily, meta, target, bonus, rec, greedy)
      BY <2>1, <2>4, <1>2
    <3>2. SampledRows(RejectionRandomSample(greedily, meta, target, bonus, rec, greedy),
                      1 .. n, meta, target, t, D, offD, n, w)
      BY <2>2, <1>6, RandomSampled
    <3> HIDE DEF res
    <3> QED
      BY <3>1, <3>2, <1>6 DEF res
  <2> QED
    BY <2>3, <2>4
<1> QED
  BY <1>8, <1>9, <1>10

(* parse_output keeps what is no placeholder. *)
KeptOf(row) == Take(row, Ascending({c \in DOMAIN row : row[c] # Placeholder}))

LEMMA AscendingFirst ==
  ASSUME NEW m \in Nat
  PROVE  Ascending(1 .. m) = [i \in 1 .. m |-> i]
<1>0. ASSUME NEW k \in Nat PROVE Cardinality(1 .. k) = k
  <2>1. 1 \in Int /\ k \in Int
    OBVIOUS
  <2>2. Cardinality(1 .. k) = IF 1 > k THEN 0 ELSE k - 1 + 1
    BY <2>1, FS_Interval
  <2> QED
    BY <2>2
<1>1. Cardinality(1 .. m) = m
  BY <1>0
<1>2. ASSUME NEW i \in 1 .. m
      PROVE  (CHOOSE s \in 1 .. m : Cardinality({x \in 1 .. m : x <= s}) = i) = i
  <2>1. \A s \in 1 .. m : Cardinality({x \in 1 .. m : x <= s}) = s
    <3> TAKE s \in 1 .. m
    <3>1. {x \in 1 .. m : x <= s} = 1 .. s
      OBVIOUS
    <3>2. s \in Nat
      OBVIOUS
    <3> QED
      BY <3>1, <3>2, <1>0
  <2> QED
    BY <2>1
<1> QED
  BY <1>1, <1>2 DEF Ascending

LEMMA KeptOfRow ==
  ASSUME NEW W \in Nat, NEW a \in Nat, a < W, NEW answer, NEW row, RowIs(row, answer, a, W),
         \A c \in 1 .. a + 1 : answer[c] # Placeholder
  PROVE  KeptOf(row) = [c \in 1 .. a + 1 |-> answer[c]]
<1> DEFINE S == {c \in DOMAIN row : row[c] # Placeholder}
           l == [c \in 1 .. a + 1 |-> answer[c]]
<1>1. DOMAIN row = 1 .. W /\ \A c \in 1 .. W : row[c] = IF c <= a + 1 THEN answer[c] ELSE Placeholder
  BY DEF RowIs
<1>2. \A c \in 1 .. a + 1 : c \in 1 .. W /\ c <= a + 1 /\ row[c] = answer[c]
  BY <1>1
<1>3. S = 1 .. a + 1
  <2>1. \A c \in 1 .. W : row[c] # Placeholder => c \in 1 .. a + 1
    BY <1>1
  <2> QED
    BY <2>1, <1>1, <1>2
<1>4. Ascending(S) = [c \in 1 .. a + 1 |-> c]
  <2>1. a + 1 \in Nat
    OBVIOUS
  <2> QED
    BY <2>1, <1>3, AscendingFirst
<1>5. Take(row, Ascending(S)) = Listed(l)
  <2>1. PICK idx : idx = Ascending(S) /\ idx = [c \in 1 .. a + 1 |-> c]
    BY <1>4
  <2>2. [i \in DOMAIN idx |-> row[idx[i]]] = l
    BY <2>1, <1>2
  <2> QED
    BY <2>1, <2>2 DEF Take
<1>6. IsList(l, a + 1) /\ a + 1 \in Nat
  BY DEF IsList
<1> HIDE DEF l, S
<1>7. Listed(l) = l
  BY <1>6, ListedSame
<1> QED
  BY <1>5, <1>7 DEF KeptOf, S, l

(* The whole of parse_output. *)
ParsedIs(r, t, meta, target, D, offD, n) ==
  \A i \in 1 .. n : r[i] = [c \in 1 .. Agreed(meta, target, D, offD, i) + 1 |-> t[i][c]]

LEMMA Parsed ==
  ASSUME NEW meta, NEW target, NEW bonus, NEW greedy, NEW t, NEW D, NEW offD, NEW n,
         SamplerInputs(meta, target, bonus, greedy, t, D, offD, n),
         \A i \in 1 .. n : \A j \in 1 .. D[i] + 1 : t[i][j] \in Nat
  PROVE  ParsedIs(ParseOutput(RejectionSample(meta, target, bonus, greedy)), t, meta, target, D, offD, n)
<1>1. n \in Nat /\ D \in [1 .. n -> Nat]
  BY DEF SamplerInputs
<1>2. PICK out : out = RejectionSample(meta, target, bonus, greedy)
  OBVIOUS
<1>3. PICK W \in Nat : /\ \A i \in 1 .. n : D[i] < W
                       /\ SampledRows(out, 1 .. n, meta, target, t, D, offD, n, W)
  BY <1>2, RejectionSampled
<1>4. DOMAIN out = 1 .. n
  BY <1>3 DEF SampledRows
<1> DEFINE l == [i \in 1 .. n |-> KeptOf(out[i])]
           r == ParseOutput(out)
<1>5. r = Listed(l)
  BY <1>4 DEF ParseOutput, KeptOf
<1>6. IsList(l, n)
  BY DEF IsList
<1>7. \A i \in 1 .. n : l[i] = KeptOf(out[i])
  OBVIOUS
<1> HIDE DEF l, r
<1>8. r = l
  BY <1>1, <1>5, <1>6, ListedSame
<1>9. ASSUME NEW i \in 1 .. n PROVE KeptOf(out[i]) = [c \in 1 .. Agreed(meta, target, D, offD, i) + 1 |-> t[i][c]]
  <2>1. D[i] \in Nat
    BY <1>1
  <2>2. Agreed(meta, target, D, offD, i) \in 0 .. D[i]
    BY <2>1, MismatchFacts DEF Agreed
  <2>3. PICK a \in Nat : a = Agreed(meta, target, D, offD, i) /\ a <= D[i]
    BY <2>1, <2>2
  <2>4. a < W
    BY <2>1, <2>3, <1>3
  <2>5. RowIs(out[i], t[i], a, W)
    BY <2>3, <1>3 DEF SampledRows
  <2>6. \A c \in 1 .. a + 1 : t[i][c] # Placeholder
    <3> TAKE c \in 1 .. a + 1
    <3>1. c \in 1 .. D[i] + 1
      BY <2>1, <2>3
    <3>2. t[i][c] \in Nat
      BY <3>1
    <3> QED
      BY <3>2 DEF Placeholder
  <2>7. KeptOf(out[i]) = [c \in 1 .. a + 1 |-> t[i][c]]
    BY <2>4, <2>5, <2>6, KeptOfRow
  <2> QED
    BY <2>3, <2>7
<1> QED
  BY <1>2, <1>7, <1>8, <1>9 DEF ParsedIs, r

-----------------------------------------------------------------------------
(* What a request gets. *)

(* The tokens behind a request's own, its drafts, agree with the answer up *)
(* to a, and no further.                                                   *)
AgreesUpTo(tokens, total, answer, d, a) ==
  /\ a \in 0 .. d
  /\ \A p \in 1 .. d : p <= a => tokens[total + p] = answer[p]
  /\ a < d => tokens[total + a + 1] # answer[a + 1]

Prefix(answer, m) == [c \in 1 .. m |-> answer[c]]

LEMMA TargetOf ==
  ASSUME NEW r, r.drafts \in Nat, r.total \in Nat, ~(r.computed + r.sched < r.total),
         NEW V, NEW answer \in [1 .. r.drafts + 1 -> V],
         NEW a, AgreesUpTo(r.tokens, r.total, answer, r.drafts, a)
  PROVE  TargetTokens(r, answer) = Prefix(answer, a + 1)
<1>1. PICK d \in Nat, o \in Nat : d = r.drafts /\ o = r.total
  OBVIOUS
<1>2. /\ a \in 0 .. d
      /\ \A p \in 1 .. d : p <= a => r.tokens[o + p] = answer[p]
      /\ a < d => r.tokens[o + a + 1] # answer[a + 1]
  BY <1>1 DEF AgreesUpTo
<1> DEFINE T == {m \in 0 .. d : \A j \in 1 .. m : answer[j] = r.tokens[o + j - 1 + 1]}
<1>3. TargetTokens(r, answer) = SubSeq(answer, 1, Max(T) + 1)
  BY <1>1 DEF TargetTokens, Get
<1>4. \A m \in 0 .. d : m \in T <=> m <= a
  <2> SUFFICES ASSUME NEW m \in 0 .. d PROVE m \in T <=> m <= a
    OBVIOUS
  <2>1. CASE m <= a
    <3>1. ASSUME NEW j \in 1 .. m PROVE answer[j] = r.tokens[o + j - 1 + 1]
      <4>1. j \in 1 .. d /\ j <= a /\ o + j - 1 + 1 = o + j
        BY <2>1, <1>2, SMTT(40)
      <4> QED
        BY <4>1, <1>2
    <3> QED
      BY <2>1, <3>1
  <2>2. CASE ~(m <= a)
    <3>1. PICK k \in 1 .. m : k = a + 1 /\ a < d /\ o + k - 1 + 1 = o + a + 1
      <4>1. a + 1 \in 1 .. m /\ a < d /\ o + (a + 1) - 1 + 1 = o + a + 1
        BY <2>2, <1>2
      <4> QED
        BY <4>1
    <3>2. answer[k] # r.tokens[o + k - 1 + 1]
      BY <3>1, <1>2
    <3> QED
      BY <2>2, <3>2
  <2> QED
    BY <2>1, <2>2
<1>5. T \in SUBSET Nat /\ T # {} /\ a \in T
  <2>1. a \in T
    BY <1>2, <1>4
  <2>2. T \in SUBSET Nat
    OBVIOUS
  <2> HIDE DEF T
  <2> QED
    BY <2>1, <2>2
<1>6. IsFiniteSet(T)
  <2>1. 0 \in Int /\ d \in Int
    OBVIOUS
  <2>2. IsFiniteSet(0 .. d)
    BY <2>1, FS_Interval
  <2>3. T \in SUBSET (0 .. d)
    OBVIOUS
  <2> HIDE DEF T
  <2> QED
    BY <2>2, <2>3, FS_Subset
<1>7. \A m \in T : m \in 0 .. d
  OBVIOUS
<1> HIDE DEF T
<1>8. Max(T) \in T /\ \A k \in T : Max(T) >= k
  BY <1>5, <1>6, MaxFacts
<1>9. Max(T) = a
  <2>1. PICK x \in 0 .. d : x = Max(T) /\ x \in T
    BY <1>7, <1>8
  <2>2. x <= a /\ x >= a
    BY <2>1, <1>4, <1>5, <1>8
  <2> QED
    BY <2>1, <2>2, <1>2
<1>10. answer \in Seq(V) /\ Len(answer) = d + 1
  <2>1. answer \in [1 .. d + 1 -> V] /\ d + 1 \in Nat
    BY <1>1
  <2> QED
    BY <2>1
<1>11. SubSeq(answer, 1, a + 1) = [c \in 1 .. a + 1 |-> answer[c]]
  <2>1. PICK m \in Nat : m = a + 1 /\ m <= d + 1
    BY <1>2
  <2>2. SubSeq(answer, 1, m) = [c \in 1 .. m |-> answer[c]]
    <3>1. 1 \in Int /\ m \in Int /\ \A c \in 1 .. m : answer[c] \in V
      BY <2>1, <1>1
    <3>2. /\ SubSeq(answer, 1, m) \in Seq(V) /\ Len(SubSeq(answer, 1, m)) = IF 1 <= m THEN m - 1 + 1 ELSE 0
          /\ \A c \in 1 .. m - 1 + 1 : SubSeq(answer, 1, m)[c] = answer[1 + c - 1]
      BY <3>1, SubSeqProperties
    <3>3. PICK q \in Seq(V) : q = SubSeq(answer, 1, m)
      BY <3>2
    <3>4. Len(q) = m /\ \A c \in 1 .. m : q[c] = answer[c]
      BY <3>2, <3>3
    <3>5. DOMAIN q = 1 .. m /\ q = [c \in DOMAIN q |-> q[c]]
      BY <3>3, <3>4, LenProperties
    <3> QED
      BY <3>3, <3>4, <3>5
  <2> QED
    BY <2>1, <2>2
<1> QED
  BY <1>3, <1>9, <1>11 DEF Prefix

(* The target's tokens and the bonus tokens that the sampler is given are  *)
(* the answers at the places that it takes them for.                       *)
LEMMA SamplerIsGiven ==
  ASSUME NEW n, NEW b, IsBatch(b, n), NEW t, NEW off, Offsets(off, Of(b, "sched"), n),
         NEW offD, Offsets(offD, Of(b, "drafts"), n), NEW cu, CumsIs(cu, off, n), NEW ids, NEW meta,
         meta = CalcSpecDecodeMetadata(Of(b, "drafts"), cu, ids), NEW logits,
         logits = TokensAt(b, t, meta.logits_indices)
  PROVE  /\ SamplerInputs(meta, IndexSelect(logits, meta.target_logits_indices),
                          IndexSelect(logits, meta.bonus_logits_indices), Of(b, "greedy"),
                          t, Of(b, "drafts"), offD, n)
         /\ DraftsAre(meta.draft_token_ids, ids, Of(b, "drafts"), off, offD, n)
<1> DEFINE D == Of(b, "drafts")
           G == Of(b, "greedy")
           offM == SampledUpTo(offD, n)
           rows == meta.logits_indices
           ti == meta.target_logits_indices
           bi == meta.bonus_logits_indices
           target == IndexSelect(logits, ti)
           bonus == IndexSelect(logits, bi)
<1>1. n \in Nat \ {0} /\ IsList(D, n) /\ D \in [1 .. n -> Nat] /\ \A i \in 1 .. n : D[i] = b[i].drafts
  BY BatchCounts
<1>2. IsList(G, n) /\ G \in [1 .. n -> BOOLEAN]
  <2>1. n \in Nat /\ IsList(b, n) /\ \A i \in 1 .. n : b[i].greedy \in BOOLEAN
    BY DEF IsBatch, IsRequest
  <2>2. FieldIs(G, b, "greedy", n)
    BY <2>1, OfAt
  <2> HIDE DEF G
  <2>3. IsList(G, n) /\ \A i \in 1 .. n : G[i] = b[i].greedy
    BY <2>2 DEF FieldIs
  <2>4. \A i \in 1 .. n : G[i] \in BOOLEAN
    BY <2>1, <2>3, Zenon
  <2> QED
    BY <2>3, <2>4 DEF IsList
<1>3. Offsets(offD, D, n)
  OBVIOUS
<1>4. meta = CalcSpecDecodeMetadata(D, cu, ids)
  OBVIOUS
<1>5. off \in [0 .. n -> Nat]
  BY DEF Offsets
<1> HIDE DEF D, G
<1>6. /\ meta.num_draft_tokens = D
      /\ CumsIs(meta.cu_num_draft_tokens, offD, n)
      /\ LogitsAre(rows, D, off, offM, n)
      /\ TargetsAre(ti, D, offD, offM, n)
      /\ BonusAre(bi, offM, n)
      /\ DraftsAre(meta.draft_token_ids, ids, D, off, offD, n)
  <2> DEFINE m == CalcSpecDecodeMetadata(D, cu, ids)
  <2>1. n \in Nat \ {0} /\ IsList(D, n) /\ D \in [1 .. n -> Nat] /\ Offsets(offD, D, n)
        /\ off \in [0 .. n -> Nat] /\ CumsIs(cu, off, n)
    BY <1>1, <1>3, <1>5
  <2>2. /\ m.num_draft_tokens = D
        /\ CumsIs(m.cu_num_draft_tokens, offD, n)
        /\ LogitsAre(m.logits_indices, D, off, offM, n)
        /\ TargetsAre(m.target_logits_indices, D, offD, offM, n)
        /\ BonusAre(m.bonus_logits_indices, offM, n)
        /\ DraftsAre(m.draft_token_ids, ids, D, off, offD, n)
    BY <2>1, MetadataAt, Zenon
  <2> HIDE DEF m
  <2>3. meta = m
    BY <1>4 DEF m
  <2> HIDE DEF offM
  <2> QED
    BY <2>2, <2>3
<1>7. n \in Nat /\ Sampled(D, n) \in [1 .. n -> Nat] /\ Offsets(offM, Sampled(D, n), n)
  BY <1>1, <1>3, SampledOffsets
<1>8. offM \in [0 .. n -> Nat] /\ offD \in [0 .. n -> Nat]
  BY <1>3, <1>7 DEF Offsets
<1> HIDE DEF offM, rows, ti, bi
<1>9. PICK m \in Nat : m = offM[n]
  BY <1>1, <1>8
<1>10. PICK e \in Nat : e = offD[n]
  BY <1>1, <1>8
<1>11. /\ IsList(logits, m)
       /\ \A k \in 1 .. m, i \in 1 .. n : \A j \in 1 .. b[i].drafts + 1 :
            rows[k] = off[i] - (b[i].drafts + 1) + (j - 1) => AnswerAt(b, t, rows, k, i, j)
  <2>1. IsList(rows, m)
    BY <1>6, <1>9 DEF LogitsAre
  <2>2. logits = TokensAt(b, t, rows)
    BY DEF rows
  <2> QED
    BY <2>1, <2>2, TokensAtRows
<1>12. ASSUME NEW i \in 1 .. n, NEW j \in 1 .. D[i] + 1
       PROVE  logits[offM[i - 1] + j] = t[i][j] /\ offM[i - 1] \in Nat
  <2>1. j \in 1 .. Sampled(D, n)[i]
    BY DEF Sampled
  <2>2. offM[i - 1] \in Nat /\ offM[i - 1] + j \in 1 .. offM[n]
    BY <2>1, <1>7, PlaceIn
  <2>3. PICK k \in 1 .. m : k = offM[i - 1] + j
    BY <2>2, <1>9
  <2>4. rows[k] = off[i] - (D[i] + 1) + (j - 1)
    BY <2>3, <1>6 DEF LogitsAre
  <2>5. j \in 1 .. b[i].drafts + 1 /\ rows[k] = off[i] - (b[i].drafts + 1) + (j - 1)
    BY <2>4, <1>1
  <2>6. AnswerAt(b, t, rows, k, i, j)
    BY <2>5, <1>11
  <2> QED
    BY <2>2, <2>3, <2>6 DEF AnswerAt, rows
<1>13. SelectIs(target, logits, ti, e) /\ SelectIs(bonus, logits, bi, n)
  <2>1. IsList(ti, e) /\ IsList(bi, n)
    BY <1>6, <1>10 DEF TargetsAre, BonusAre
  <2> QED
    BY <2>1, <1>1, SelectAt
<1> HIDE DEF target, bonus
<1>14. ASSUME NEW i \in 1 .. n, NEW j \in 1 .. D[i] PROVE target[offD[i - 1] + j] = t[i][j]
  <2>1. n \in Nat /\ D[i] \in Nat /\ j \in 1 .. D[i] + 1
    BY <1>1
  <2>2. offD[i - 1] \in Nat /\ offD[i - 1] + j \in 1 .. offD[n]
    BY <2>1, <1>1, <1>3, PlaceIn
  <2>3. PICK k \in 1 .. e : k = offD[i - 1] + j
    BY <2>2, <1>10
  <2>4. ti[k] = offM[i - 1] + (j - 1)
    BY <2>3, <1>6 DEF TargetsAre
  <2>5. logits[offM[i - 1] + j] = t[i][j] /\ offM[i - 1] \in Nat
    BY <2>1, <1>12
  <2>6. ti[k] + 1 = offM[i - 1] + j
    BY <2>4, <2>5
  <2>7. target[k] = logits[ti[k] + 1]
    BY <1>13 DEF SelectIs
  <2> QED
    BY <2>3, <2>5, <2>6, <2>7
<1>15. ASSUME NEW i \in 1 .. n PROVE bonus[i] = t[i][D[i] + 1]
  <2>1. PICK d \in Nat : d = D[i]
    BY <1>1
  <2>2. d + 1 \in 1 .. D[i] + 1 /\ Sampled(D, n)[i] = d + 1
    BY <2>1 DEF Sampled
  <2>3. logits[offM[i - 1] + (d + 1)] = t[i][d + 1] /\ offM[i - 1] \in Nat
    BY <2>2, <1>12
  <2>4. offM[i] = offM[i - 1] + (d + 1)
    BY <2>2, <1>7 DEF Offsets
  <2>5. bi[i] = offM[i] - 1
    BY <1>6 DEF BonusAre
  <2>6. bi[i] + 1 = offM[i - 1] + (d + 1)
    BY <2>3, <2>4, <2>5
  <2>7. bonus[i] = logits[bi[i] + 1]
    BY <1>13 DEF SelectIs
  <2> QED
    BY <2>1, <2>3, <2>6, <2>7
<1>16. IsList(meta.draft_token_ids, offD[n])
  BY <1>6 DEF DraftsAre
<1>17. SamplerInputs(meta, target, bonus, G, t, D, offD, n)
  BY <1>1, <1>2, <1>3, <1>6, <1>14, <1>15, <1>16 DEF SamplerInputs
<1> QED
  BY <1>6, <1>17 DEF D, G, target, bonus, ti, bi

(* The drafts that the sampler compares are the request's own, so they     *)
(* agree with the answer as far as the request's tokens do.                *)
LEMMA OwnDrafts ==
  ASSUME NEW n, NEW b, IsBatch(b, n), NEW t, NEW off, Offsets(off, Of(b, "sched"), n),
         NEW offD, Offsets(offD, Of(b, "drafts"), n), NEW ids, TokensAre(ids, b, off, n), NEW meta,
         DraftsAre(meta.draft_token_ids, ids, Of(b, "drafts"), off, offD, n), NEW target,
         \A i \in 1 .. n : \A j \in 1 .. Of(b, "drafts")[i] : target[offD[i - 1] + j] = t[i][j],
         NEW i \in 1 .. n
  PROVE  AgreesUpTo(b[i].tokens, b[i].total, t[i], b[i].drafts, Agreed(meta, target, Of(b, "drafts"), offD, i))
<1> DEFINE D == Of(b, "drafts")
           S == Of(b, "sched")
           drafts == meta.draft_token_ids
           x == Agreed(meta, target, D, offD, i)
<1>1. /\ n \in Nat /\ D \in [1 .. n -> Nat] /\ D[i] = b[i].drafts
      /\ S \in [1 .. n -> Nat] /\ S[i] = b[i].sched
  BY BatchCounts
<1>2. Offsets(offD, D, n) /\ Offsets(off, S, n)
  OBVIOUS
<1>3. \A j \in 1 .. D[i] : target[offD[i - 1] + j] = t[i][j]
  OBVIOUS
<1>4. \A j \in 1 .. D[i] : drafts[offD[i - 1] + j] = ids[off[i] - D[i] + j]
  BY DEF DraftsAre
<1>5. IsRequest(b[i])
  BY DEF IsBatch
<1> HIDE DEF D, S, drafts
<1>6. PICK d \in Nat, s \in Nat, c \in Nat, tot \in Nat :
        /\ d = b[i].drafts /\ s = b[i].sched /\ c = b[i].computed /\ tot = b[i].total
        /\ d = D[i] /\ s = S[i] /\ d < s /\ (d > 0 => c + s = tot + d)
  BY <1>1, <1>5, SMTT(40) DEF IsRequest
<1>7. PICK o \in Nat : o = off[i - 1] /\ off[i] = o + s
  <2>1. NextOffset(off, S, i)
    BY <1>1, <1>2, OffsetAt
  <2> QED
    BY <2>1, <1>6 DEF NextOffset
<1>8. PICK od \in Nat : od = offD[i - 1]
  <2>1. NextOffset(offD, D, i)
    BY <1>1, <1>2, OffsetAt
  <2> QED
    BY <2>1 DEF NextOffset
<1>9. ASSUME NEW p \in 1 .. d PROVE drafts[od + p] = b[i].tokens[tot + p]
  <2>1. p \in 1 .. D[i]
    BY <1>6
  <2>2. drafts[od + p] = ids[(o + s) - d + p]
    BY <2>1, <1>4, <1>6, <1>7, <1>8
  <2>3. PICK k \in 1 .. s : k = s - d + p /\ (o + s) - d + p = o + k /\ c + k = tot + p
    <3>1. s - d + p \in 1 .. s /\ (o + s) - d + p = o + (s - d + p) /\ c + (s - d + p) = tot + p
      BY <1>6
    <3> QED
      BY <3>1
  <2>4. ids[off[i - 1] + k] = b[i].tokens[b[i].computed + k]
    BY <1>6 DEF TokensAre
  <2> QED
    BY <2>2, <2>3, <2>4, <1>6, <1>7
<1>10. /\ x \in 0 .. d
       /\ \A p \in 0 .. d - 1 : p < x => drafts[od + p + 1] = target[od + p + 1]
       /\ x < d => drafts[od + x + 1] # target[od + x + 1]
  BY <1>6, <1>8, MismatchFacts DEF Agreed, drafts
<1> HIDE DEF x
<1>11. ASSUME NEW p \in 1 .. d, p <= x PROVE b[i].tokens[tot + p] = t[i][p]
  <2>1. PICK q \in 0 .. d - 1 : q = p - 1 /\ q < x /\ od + q + 1 = od + p
    <3>1. p - 1 \in 0 .. d - 1 /\ p - 1 < x /\ od + (p - 1) + 1 = od + p
      BY <1>10, <1>11
    <3> QED
      BY <3>1
  <2>2. drafts[od + p] = target[od + p]
    BY <2>1, <1>10
  <2>3. target[od + p] = t[i][p]
    BY <1>3, <1>6, <1>8
  <2> QED
    BY <2>2, <2>3, <1>9
<1>12. ASSUME x < d PROVE b[i].tokens[tot + x + 1] # t[i][x + 1]
  <2>1. PICK p \in 1 .. d : p = x + 1 /\ od + x + 1 = od + p /\ tot + x + 1 = tot + p
    <3>1. x + 1 \in 1 .. d /\ od + x + 1 = od + (x + 1) /\ tot + x + 1 = tot + (x + 1)
      BY <1>10, <1>12
    <3> QED
      BY <3>1
  <2>2. drafts[od + p] # target[od + p]
    BY <2>1, <1>10, <1>12
  <2>3. target[od + p] = t[i][p]
    BY <1>3, <1>6, <1>8
  <2> QED
    BY <2>1, <2>2, <2>3, <1>9
<1> QED
  BY <1>6, <1>10, <1>11, <1>12 DEF AgreesUpTo, x, D

(* What sampling gives before the tokens of partial prefills are dropped. *)
SampledIds(b, inp, t) ==
  LET logits == TokensAt(b, t, LogitsIndices(b, inp))
      meta   == SpecDecodeMetadata(b, inp)
  IN  IF UseSpecDecode(b)
      THEN ParseOutput(RejectionSample(meta,
             IndexSelect(logits, meta.target_logits_indices),
             IndexSelect(logits, meta.bonus_logits_indices), Of(b, "greedy")))
      ELSE [i \in DOMAIN b |-> <<logits[i]>>]

LEMMA SampledWithDrafts ==
  ASSUME NEW n, NEW b, IsBatch(b, n), NEW cfg, NEW t,
         \A i \in 1 .. n : t[i] \in [1 .. b[i].drafts + 1 -> Nat], UseSpecDecode(b),
         NEW i \in 1 .. n, ~(b[i].computed + b[i].sched < b[i].total)
  PROVE  SampledIds(b, PrepareInputs(b, cfg), t)[i] = TargetTokens(b[i], t[i])
<1> DEFINE D == Of(b, "drafts")
           S == Of(b, "sched")
<1>1. /\ n \in Nat /\ D \in [1 .. n -> Nat] /\ \A k \in 1 .. n : D[k] = b[k].drafts
      /\ S \in [1 .. n -> Nat] /\ D \in Seq(Nat) /\ S \in Seq(Nat) /\ Len(D) = n /\ Len(S) = n
  <2>1. n \in Nat /\ D \in [1 .. n -> Nat] /\ S \in [1 .. n -> Nat] /\ \A k \in 1 .. n : D[k] = b[k].drafts
    BY BatchCounts
  <2> HIDE DEF D, S
  <2>2. D \in Seq(Nat) /\ Len(D) = n
    BY <2>1
  <2>3. S \in Seq(Nat) /\ Len(S) = n
    BY <2>1
  <2> QED
    BY <2>1, <2>2, <2>3
<1> HIDE DEF D, S
<1>2. PICK off : Offsets(off, S, n)
  BY <1>1, CumSumOffsets
<1>3. PICK offD : Offsets(offD, D, n)
  BY <1>1, CumSumOffsets
<1>4. PICK inp : inp = PrepareInputs(b, cfg)
  OBVIOUS
<1>5. TokensAre(inp.input_ids, b, off, n) /\ CumsIs(Tail(inp.query_start_loc), off, n)
  BY <1>2, <1>4, InputsAt DEF S
<1>6. PICK meta : meta = CalcSpecDecodeMetadata(Of(b, "drafts"), Tail(inp.query_start_loc), inp.input_ids)
  OBVIOUS
<1>7. PICK logits : logits = TokensAt(b, t, meta.logits_indices)
  OBVIOUS
<1>8. PICK target, bonus : /\ target = IndexSelect(logits, meta.target_logits_indices)
                           /\ bonus = IndexSelect(logits, meta.bonus_logits_indices)
  OBVIOUS
<1>9. SampledIds(b, inp, t) = ParseOutput(RejectionSample(meta, target, bonus, Of(b, "greedy")))
  BY <1>6, <1>7, <1>8 DEF SampledIds, SpecDecodeMetadata, LogitsIndices
<1>10. /\ SamplerInputs(meta, target, bonus, Of(b, "greedy"), t, D, offD, n)
       /\ DraftsAre(meta.draft_token_ids, inp.input_ids, D, off, offD, n)
  <2>1. Offsets(off, Of(b, "sched"), n) /\ Offsets(offD, Of(b, "drafts"), n)
    BY <1>2, <1>3 DEF S, D
  <2>2. /\ SamplerInputs(meta, IndexSelect(logits, meta.target_logits_indices),
                          IndexSelect(logits, meta.bonus_logits_indices), Of(b, "greedy"),
                          t, Of(b, "drafts"), offD, n)
        /\ DraftsAre(meta.draft_token_ids, inp.input_ids, Of(b, "drafts"), off, offD, n)
    BY <2>1, <1>5, <1>6, <1>7, SamplerIsGiven
  <2> QED
    BY <2>2, <1>8 DEF D
<1>11. PICK a : a = Agreed(meta, target, D, offD, i)
  OBVIOUS
<1>12. SampledIds(b, inp, t)[i] = [c \in 1 .. a + 1 |-> t[i][c]]
  <2>1. \A k \in 1 .. n : \A j \in 1 .. D[k] + 1 : t[k][j] \in Nat
    BY <1>1
  <2>2. ParsedIs(SampledIds(b, inp, t), t, meta, target, D, offD, n)
    BY <2>1, <1>9, <1>10, Parsed
  <2> QED
    BY <2>2, <1>11 DEF ParsedIs
<1>13. AgreesUpTo(b[i].tokens, b[i].total, t[i], b[i].drafts, a)
  <2>1. /\ Offsets(off, Of(b, "sched"), n) /\ Offsets(offD, Of(b, "drafts"), n)
        /\ DraftsAre(meta.draft_token_ids, inp.input_ids, Of(b, "drafts"), off, offD, n)
    BY <1>2, <1>3, <1>10 DEF S, D
  <2>2. \A k \in 1 .. n : \A j \in 1 .. Of(b, "drafts")[k] : target[offD[k - 1] + j] = t[k][j]
    BY <1>10 DEF SamplerInputs, D
  <2>3. AgreesUpTo(b[i].tokens, b[i].total, t[i], b[i].drafts, Agreed(meta, target, Of(b, "drafts"), offD, i))
    BY <2>1, <2>2, <1>5, OwnDrafts
  <2> QED
    BY <2>3, <1>11 DEF D
<1>14. TargetTokens(b[i], t[i]) = [c \in 1 .. a + 1 |-> t[i][c]]
  <2>1. b[i].drafts \in Nat /\ b[i].total \in Nat /\ t[i] \in [1 .. b[i].drafts + 1 -> Nat]
    BY DEF IsBatch, IsRequest
  <2>2. PICK r, answer : r = b[i] /\ answer = t[i]
    OBVIOUS
  <2>3. /\ r.drafts \in Nat /\ r.total \in Nat /\ ~(r.computed + r.sched < r.total)
        /\ answer \in [1 .. r.drafts + 1 -> Nat]
        /\ AgreesUpTo(r.tokens, r.total, answer, r.drafts, a)
    BY <2>1, <2>2, <1>13
  <2>4. TargetTokens(r, answer) = Prefix(answer, a + 1)
    BY <2>3, TargetOf
  <2> QED
    BY <2>2, <2>4 DEF Prefix
<1> QED
  BY <1>4, <1>12, <1>14

LEMMA SampledWithoutDrafts ==
  ASSUME NEW n, NEW b, IsBatch(b, n), NEW cfg, NEW t,
         \A i \in 1 .. n : t[i] \in [1 .. b[i].drafts + 1 -> Nat], ~UseSpecDecode(b),
         NEW i \in 1 .. n, ~(b[i].computed + b[i].sched < b[i].total)
  PROVE  SampledIds(b, PrepareInputs(b, cfg), t)[i] = TargetTokens(b[i], t[i])
<1> DEFINE S == Of(b, "sched")
<1>1. n \in Nat /\ DOMAIN b = 1 .. n /\ S \in [1 .. n -> Nat] /\ S \in Seq(Nat) /\ Len(S) = n
  <2>1. n \in Nat /\ DOMAIN b = 1 .. n /\ S \in [1 .. n -> Nat]
    BY BatchCounts
  <2> HIDE DEF S
  <2> QED
    BY <2>1
<1> HIDE DEF S
<1>2. PICK off : Offsets(off, S, n)
  BY <1>1, CumSumOffsets
<1>3. PICK inp, cu : inp = PrepareInputs(b, cfg) /\ cu = Tail(inp.query_start_loc)
  OBVIOUS
<1>4. CumsIs(cu, off, n)
  BY <1>2, <1>3, InputsAt DEF S
<1> DEFINE rows == [k \in 1 .. n |-> cu[k] - 1]
           logits == TokensAt(b, t, rows)
<1>5. LogitsIndices(b, inp) = rows
  <2>1. IsList(rows, n)
    BY DEF IsList
  <2>2. DOMAIN cu = 1 .. n
    BY <1>1, <1>4, ListedSame DEF CumsIs
  <2>3. LogitsIndices(b, inp) = Listed(rows)
    BY <2>2, <1>3 DEF LogitsIndices
  <2> HIDE DEF rows
  <2> QED
    BY <2>1, <2>3, <1>1, ListedSame
<1>6. SampledIds(b, inp, t)[i] = <<logits[i]>>
  <2>1. SampledIds(b, inp, t) = [k \in DOMAIN b |-> <<TokensAt(b, t, LogitsIndices(b, inp))[k]>>]
    BY DEF SampledIds
  <2> HIDE DEF rows
  <2> QED
    BY <2>1, <1>1, <1>5
<1>7. /\ b[i].drafts = 0 /\ b[i].total \in Nat /\ off[i] \in Nat
      /\ t[i] \in [1 .. b[i].drafts + 1 -> Nat]
  <2>1. b[i].drafts \in Nat /\ b[i].total \in Nat
    BY DEF IsBatch, IsRequest
  <2>2. ~(b[i].drafts > 0)
    BY <1>1 DEF UseSpecDecode
  <2>3. off[i] \in Nat
    BY <1>1, <1>2 DEF Offsets
  <2> QED
    BY <2>1, <2>2, <2>3
<1>8. logits[i] = t[i][1]
  <2>1. IsList(rows, n) /\ rows[i] = off[i] - 1
    BY <1>4 DEF IsList, CumsIs
  <2> HIDE DEF rows
  <2>2. \A k \in 1 .. n, h \in 1 .. n : \A j \in 1 .. b[h].drafts + 1 :
          rows[k] = off[h] - (b[h].drafts + 1) + (j - 1) => AnswerAt(b, t, rows, k, h, j)
    BY <2>1, <1>1, <1>2, TokensAtRows DEF S
  <2>3. 1 \in 1 .. b[i].drafts + 1 /\ rows[i] = off[i] - (b[i].drafts + 1) + (1 - 1)
    BY <2>1, <1>7
  <2>4. AnswerAt(b, t, rows, i, i, 1)
    BY <2>2, <2>3
  <2> QED
    BY <2>4 DEF AnswerAt
<1> HIDE DEF logits
<1>9. TargetTokens(b[i], t[i]) = [c \in 1 .. 0 + 1 |-> t[i][c]]
  <2>1. AgreesUpTo(b[i].tokens, b[i].total, t[i], b[i].drafts, 0)
    BY <1>7 DEF AgreesUpTo
  <2>2. PICK r, answer : r = b[i] /\ answer = t[i]
    OBVIOUS
  <2>3. /\ r.drafts \in Nat /\ r.total \in Nat /\ ~(r.computed + r.sched < r.total)
        /\ answer \in [1 .. r.drafts + 1 -> Nat]
        /\ AgreesUpTo(r.tokens, r.total, answer, r.drafts, 0)
    BY <2>1, <2>2, <1>7
  <2>4. TargetTokens(r, answer) = Prefix(answer, 0 + 1)
    BY <2>3, TargetOf
  <2> QED
    BY <2>2, <2>4 DEF Prefix
<1>10. [c \in 1 .. 0 + 1 |-> t[i][c]] = <<t[i][1]>>
  OBVIOUS
<1> QED
  BY <1>3, <1>6, <1>8, <1>9, <1>10

(* _calc_spec_decode_metadata, RejectionSampler.forward and the end of     *)
(* execute_model, for a batch of any length, whatever the requests have    *)
(* computed, how many drafts each has, which are greedy and what the       *)
(* target answers: each request keeps the longest prefix of its own drafts *)
(* that the target agrees with, and the target's token behind it; a part   *)
(* of a prompt keeps nothing.                                              *)
THEOREM SampledTokens ==
  ASSUME NEW n, NEW b, IsBatch(b, n), NEW cfg, NEW t,
         \A i \in 1 .. n : t[i] \in [1 .. b[i].drafts + 1 -> Nat]
  PROVE  ValidSampledTokenIds(b, PrepareInputs(b, cfg), t) = [i \in DOMAIN b |-> TargetTokens(b[i], t[i])]
<1>1. PICK inp : inp = PrepareInputs(b, cfg)
  OBVIOUS
<1>2. n \in Nat /\ DOMAIN b = 1 .. n
  BY BatchCounts
<1> DEFINE Partial(i) == b[i].computed + b[i].sched < b[i].total
           l == [i \in 1 .. n |-> IF Partial(i) THEN <<>> ELSE SampledIds(b, inp, t)[i]]
<1>3. ValidSampledTokenIds(b, inp, t) = Listed(l)
  <2>1. ValidSampledTokenIds(b, inp, t) =
          Listed([i \in DOMAIN b |-> IF Partial(i) THEN <<>> ELSE SampledIds(b, inp, t)[i]])
    BY DEF ValidSampledTokenIds, SampledIds
  <2> QED
    BY <2>1, <1>2
<1>4. IsList(l, n)
  BY DEF IsList
<1>5. ASSUME NEW i \in 1 .. n
      PROVE  (IF Partial(i) THEN <<>> ELSE SampledIds(b, inp, t)[i]) = TargetTokens(b[i], t[i])
  <2>1. CASE Partial(i)
    BY <2>1 DEF TargetTokens
  <2>2. CASE ~Partial(i) /\ UseSpecDecode(b)
    BY <2>2, <1>1, SampledWithDrafts
  <2>3. CASE ~Partial(i) /\ ~UseSpecDecode(b)
    BY <2>3, <1>1, SampledWithoutDrafts
  <2> QED
    BY <2>1, <2>2, <2>3
<1>6. l = [i \in 1 .. n |-> TargetTokens(b[i], t[i])]
  <2> HIDE DEF Partial
  <2> QED
    BY <1>5
<1> HIDE DEF l
<1>7. Listed(l) = l
  BY <1>2, <1>4, ListedSame
<1> QED
  BY <1>1, <1>2, <1>3, <1>6, <1>7

-----------------------------------------------------------------------------
(* What a step leaves of a request. *)

(* Scatter: what is written at a place is read there, the rest stays. *)
ScatterIs(r, x, idx, values, n) ==
  /\ IsList(r, n)
  /\ \A p \in 1 .. n : \A j \in DOMAIN idx :
       idx[j] = p - 1 /\ (\A h \in DOMAIN idx : idx[h] = p - 1 => h = j) => r[p] = values[j]
  /\ \A p \in 1 .. n : (\A j \in DOMAIN idx : idx[j] # p - 1) => r[p] = x[p]

LEMMA ScatterAt ==
  ASSUME NEW n \in Nat, NEW x, IsList(x, n), NEW idx, NEW values
  PROVE  ScatterIs(Scatter(x, idx, values), x, idx, values, n)
<1> DEFINE At(p) == CHOOSE j \in DOMAIN idx : idx[j] = p - 1
           l == [p \in 1 .. n |-> IF \E j \in DOMAIN idx : idx[j] = p - 1 THEN values[At(p)] ELSE x[p]]
           r == Scatter(x, idx, values)
<1>1. IsList(l, n)
  BY DEF IsList
<1>2. DOMAIN x = 1 .. n
  BY ListedSame
<1>3. r = Listed(l)
  BY <1>2 DEF Scatter
<1>4. ASSUME NEW p \in 1 .. n, NEW j \in DOMAIN idx, idx[j] = p - 1,
             \A h \in DOMAIN idx : idx[h] = p - 1 => h = j
      PROVE  l[p] = values[j]
  <2>1. At(p) \in DOMAIN idx /\ idx[At(p)] = p - 1
    BY <1>4
  <2>2. At(p) = j
    <3> HIDE DEF At
    <3> QED
      BY <2>1, <1>4
  <2>3. l[p] = values[At(p)]
    BY <1>4
  <2> QED
    BY <2>2, <2>3
<1>5. \A p \in 1 .. n : (\A j \in DOMAIN idx : idx[j] # p - 1) => l[p] = x[p]
  OBVIOUS
<1> HIDE DEF l, r
<1>6. r = l
  BY <1>1, <1>3, ListedSame
<1> QED
  BY <1>1, <1>4, <1>5, <1>6 DEF ScatterIs, r

(* The target agrees with the drafts of a request up to some place. *)
LEMMA SomeAgree ==
  ASSUME NEW tokens, NEW total \in Nat, NEW answer, NEW d \in Nat
  PROVE  \E a \in Nat : AgreesUpTo(tokens, total, answer, d, a)
<1> DEFINE own == [q \in Int |-> tokens[total + q]]
           a == FirstMismatch(own, answer, 0, d)
<1>1. /\ a \in 0 .. d
      /\ \A p \in 0 .. d - 1 : p < a => own[0 + p + 1] = answer[0 + p + 1]
      /\ a < d => own[0 + a + 1] # answer[0 + a + 1]
  BY MismatchFacts
<1> HIDE DEF a
<1>2. PICK e \in Nat : e = a /\ e <= d
  BY <1>1
<1>3. ASSUME NEW p \in 1 .. d, p <= e PROVE tokens[total + p] = answer[p]
  <2>1. PICK q \in 0 .. d - 1 : q = p - 1 /\ q < e /\ 0 + q + 1 = p
    <3>1. p - 1 \in 0 .. d - 1 /\ p - 1 < e /\ 0 + (p - 1) + 1 = p
      BY <1>3
    <3> QED
      BY <3>1
  <2>2. own[p] = answer[p]
    BY <2>1, <1>1, <1>2
  <2> QED
    BY <2>2
<1>4. e < d => tokens[total + e + 1] # answer[e + 1]
  <2>1. 0 + e + 1 = e + 1 /\ e + 1 \in Int /\ total + e + 1 = total + (e + 1)
    BY <1>2
  <2>2. own[e + 1] = tokens[total + (e + 1)]
    BY <2>1
  <2> HIDE DEF own
  <2>3. e < d => own[e + 1] # answer[e + 1]
    BY <2>1, <1>1, <1>2
  <2> QED
    BY <2>1, <2>2, <2>3
<1>5. e \in 0 .. d
  BY <1>2
<1> QED
  BY <1>2, <1>3, <1>4, <1>5 DEF AgreesUpTo

(* The runner's limits: nothing is scheduled behind a request's tokens and *)
(* drafts, a sampled token has its place in the row, and a drafter's block *)
(* of rows holds what is scheduled.                                        *)
DraftsFit(r) ==
  /\ {"tokens", "total", "blocks"} \subseteq DOMAIN r
  /\ r.computed + r.sched <= r.total + r.drafts
  /\ r.computed + r.sched >= r.total => r.total + r.drafts < MaxModelLen
  /\ r.sched <= KernelBlock

(* A request with its sampled tokens v behind its own. *)
Cached(r, v) ==
  [r EXCEPT !.tokens = Scatter(@, [k \in DOMAIN v |-> r.total + k - 1], v),
            !.total = @ + Len(v)]

(* kept of the scheduled tokens stay in the request new, and each is       *)
(* followed by the next one, the last by what was sampled.                 *)
Leaves(r, v, new, kept) ==
  /\ kept \in 1 .. r.sched /\ Staying(r, new) = kept
  /\ (IF r.drafts > 0 THEN r.drafts + 1 - Len(v) ELSE 0) = r.sched - kept
  /\ \A k \in 1 .. kept - 1 : new.tokens[r.computed + k + 1] = r.tokens[r.computed + k + 1]
  /\ new.tokens[r.computed + kept + 1] = IF v # <<>> THEN Last(v) ELSE r.tokens[r.computed + r.sched + 1]
  /\ new.blocks = r.blocks

LEMMA CachedFields ==
  ASSUME NEW r, {"tokens", "total", "blocks"} \subseteq DOMAIN r, NEW v
  PROVE  /\ Cached(r, v).tokens = Scatter(r.tokens, [k \in DOMAIN v |-> r.total + k - 1], v)
         /\ Cached(r, v).total = r.total + Len(v)
         /\ Cached(r, v).blocks = r.blocks
<1> DEFINE s == Scatter(r.tokens, [k \in DOMAIN v |-> r.total + k - 1], v)
<1>1. Cached(r, v) = [r EXCEPT !.tokens = s, !.total = r.total + Len(v)]
  BY DEF Cached
<1> HIDE DEF s
<1> QED
  BY <1>1 DEF s

LEMMA PartLeft ==
  ASSUME NEW r, IsRequest(r), DraftsFit(r), r.computed + r.sched < r.total
  PROVE  Leaves(r, <<>>, Cached(r, <<>>), r.sched)
<1> DEFINE new == Cached(r, <<>>)
           idx == [k \in DOMAIN <<>> |-> r.total + k - 1]
<1>1. PICK c \in Nat, s \in Nat, d \in Nat, tot \in Nat :
        /\ c = r.computed /\ s = r.sched /\ d = r.drafts /\ tot = r.total
        /\ c + s < tot /\ s # 0 /\ (d > 0 => c + s = tot + d)
  BY DEF IsRequest
<1>2. d = 0
  BY <1>1
<1>3. /\ new.tokens = Scatter(r.tokens, idx, <<>>) /\ new.total = r.total + Len(<<>>)
      /\ new.blocks = r.blocks
  <2>1. {"tokens", "total", "blocks"} \subseteq DOMAIN r
    BY DEF DraftsFit
  <2> QED
    BY <2>1, CachedFields
<1>4. IsList(r.tokens, MaxModelLen) /\ MaxModelLen \in Nat
  BY InputsAssumption DEF IsRequest
<1>5. DOMAIN idx = {}
  OBVIOUS
<1> HIDE DEF new, idx
<1>6. ScatterIs(new.tokens, r.tokens, idx, <<>>, MaxModelLen)
  BY <1>3, <1>4, ScatterAt
<1>7. new.tokens = r.tokens
  <2>1. \A p \in 1 .. MaxModelLen : new.tokens[p] = r.tokens[p]
    BY <1>5, <1>6 DEF ScatterIs
  <2>2. IsList(new.tokens, MaxModelLen)
    BY <1>6 DEF ScatterIs
  <2> QED
    BY <2>1, <2>2, <1>4 DEF IsList
<1>8. Staying(r, new) = s
  <2>1. Len(<<>>) = 0
    OBVIOUS
  <2>2. new.total = tot
    BY <2>1, <1>1, <1>3
  <2> QED
    BY <2>2, <1>1 DEF Staying
<1>9. s \in 1 .. s /\ s - s = 0 /\ ~(d > 0)
  BY <1>1, <1>2
<1> QED
  BY <1>1, <1>3, <1>7, <1>8, <1>9 DEF Leaves, new

LEMMA FullLeft ==
  ASSUME NEW r, IsRequest(r), DraftsFit(r), ~(r.computed + r.sched < r.total),
         NEW answer, NEW a \in Nat, AgreesUpTo(r.tokens, r.total, answer, r.drafts, a),
         NEW v, v = Prefix(answer, a + 1)
  PROVE  Leaves(r, v, Cached(r, v), r.sched - r.drafts + a)
<1> DEFINE new == Cached(r, v)
           idx == [k \in DOMAIN v |-> r.total + k - 1]
<1>1. PICK c \in Nat, s \in Nat, d \in Nat, tot \in Nat, N \in Nat :
        /\ c = r.computed /\ s = r.sched /\ d = r.drafts /\ tot = r.total /\ N = MaxModelLen
        /\ c + s = tot + d /\ d < s /\ tot + d < N
  <2>1. /\ r.computed \in Nat /\ r.sched \in Nat /\ r.drafts \in Nat /\ r.total \in Nat
        /\ MaxModelLen \in Nat /\ r.drafts < r.sched
        /\ r.drafts > 0 => r.computed + r.sched = r.total + r.drafts
    BY InputsAssumption DEF IsRequest
  <2>2. /\ r.computed + r.sched <= r.total + r.drafts
        /\ r.computed + r.sched >= r.total => r.total + r.drafts < MaxModelLen
    BY DEF DraftsFit
  <2>3. r.computed + r.sched = r.total + r.drafts /\ r.computed + r.sched >= r.total
    BY <2>1, <2>2
  <2> QED
    BY <2>1, <2>2, <2>3
<1>2. /\ a <= d
      /\ \A p \in 1 .. d : p <= a => r.tokens[tot + p] = answer[p]
  BY <1>1 DEF AgreesUpTo
<1>3. DOMAIN v = 1 .. a + 1 /\ \A j \in 1 .. a + 1 : v[j] = answer[j]
  BY DEF Prefix
<1>4. Len(v) = a + 1 /\ v # <<>> /\ Last(v) = v[a + 1]
  <2>1. IsList(v, a + 1) /\ a + 1 \in Nat
    BY DEF Prefix, IsList
  <2>2. Len(v) = a + 1
    BY <2>1, ListedSame
  <2>3. Last(v) = v[Len(v)]
    BY DEF Last
  <2>4. Len(<<>>) = 0
    OBVIOUS
  <2> QED
    BY <2>2, <2>3, <2>4
<1>5. /\ new.tokens = Scatter(r.tokens, idx, v) /\ new.total = tot + (a + 1) /\ new.blocks = r.blocks
  <2>1. {"tokens", "total", "blocks"} \subseteq DOMAIN r
    BY DEF DraftsFit
  <2>2. /\ new.tokens = Scatter(r.tokens, idx, v) /\ new.total = r.total + Len(v) /\ new.blocks = r.blocks
    BY <2>1, CachedFields
  <2> QED
    BY <2>2, <1>1, <1>4
<1>6. DOMAIN idx = 1 .. a + 1 /\ \A j \in 1 .. a + 1 : idx[j] = tot + j - 1
  BY <1>1, <1>3
<1> HIDE DEF new, idx
<1>7. ScatterIs(new.tokens, r.tokens, idx, v, N)
  <2>1. IsList(r.tokens, N)
    BY <1>1 DEF IsRequest
  <2> QED
    BY <2>1, <1>5, ScatterAt
<1>8. PICK kept \in 1 .. s : kept = s - d + a /\ c + kept = tot + a
  <2>1. s - d + a \in 1 .. s /\ c + (s - d + a) = tot + a
    BY <1>1, <1>2
  <2> QED
    BY <2>1
<1>9. Staying(r, new) = kept
  <2>1. new.total > r.total /\ new.total - 1 - r.computed = kept
    BY <1>1, <1>5, <1>8
  <2> QED
    BY <2>1 DEF Staying
<1>10. (IF d > 0 THEN d + 1 - Len(v) ELSE 0) = s - kept
  <2>1. s - kept = d - a
    BY <1>8
  <2>2. CASE d > 0
    <3>1. d + 1 - Len(v) = d - a
      BY <1>4
    <3> QED
      BY <3>1, <2>1, <2>2
  <2>3. CASE ~(d > 0)
    <3>1. d - a = 0
      BY <1>2, <2>3
    <3> QED
      BY <3>1, <2>1, <2>3
  <2> QED
    BY <2>2, <2>3
<1>11. ASSUME NEW j \in 1 .. a + 1 PROVE new.tokens[tot + j] = answer[j]
  <2>0. j \in Nat /\ j <= a + 1 /\ 1 <= j
    OBVIOUS
  <2>1. tot + j \in 1 .. N /\ idx[j] = (tot + j) - 1 /\ j \in DOMAIN idx
    <3>1. tot + j \in 1 .. N
      BY <2>0, <1>1, <1>2
    <3>2. idx[j] = tot + j - 1 /\ j \in DOMAIN idx
      BY <1>6
    <3> QED
      BY <3>1, <3>2
  <2>2. ASSUME NEW h \in DOMAIN idx, idx[h] = (tot + j) - 1 PROVE h = j
    <3>1. h \in 1 .. a + 1 /\ idx[h] = tot + h - 1
      BY <1>6
    <3> QED
      BY <3>1, <2>2
  <2>3. new.tokens[tot + j] = v[j]
    BY <2>1, <2>2, <1>7 DEF ScatterIs
  <2> QED
    BY <2>3, <1>3
<1>12. ASSUME NEW p \in 1 .. N, p <= tot PROVE new.tokens[p] = r.tokens[p]
  <2>1. \A j \in DOMAIN idx : idx[j] # p - 1
    BY <1>6, <1>12
  <2> QED
    BY <2>1, <1>7 DEF ScatterIs
<1>13. ASSUME NEW k \in 1 .. kept - 1 PROVE new.tokens[c + k + 1] = r.tokens[c + k + 1]
  <2>1. CASE c + k + 1 <= tot
    <3>1. c + k + 1 \in 1 .. N
      BY <2>1, <1>1
    <3> QED
      BY <3>1, <2>1, <1>12
  <2>2. CASE ~(c + k + 1 <= tot)
    <3>1. PICK j \in 1 .. a : c + k + 1 = tot + j
      <4>1. c + k + 1 - tot \in 1 .. a /\ c + k + 1 = tot + (c + k + 1 - tot)
        BY <2>2, <1>8, <1>1
      <4> QED
        BY <4>1
    <3>2. j \in 1 .. a + 1 /\ j \in 1 .. d /\ j <= a
      BY <1>2
    <3> QED
      BY <3>1, <3>2, <1>2, <1>11
  <2> QED
    BY <2>1, <2>2
<1>14. new.tokens[c + kept + 1] = Last(v)
  <2>1. a + 1 \in 1 .. a + 1 /\ c + kept + 1 = tot + (a + 1)
    BY <1>8, <1>1, SMTT(40)
  <2>2. new.tokens[tot + (a + 1)] = answer[a + 1]
    BY <2>1, <1>11
  <2> QED
    BY <2>1, <2>2, <1>3, <1>4
<1>15. Leaves(r, v, new, kept)
  BY <1>1, <1>4, <1>5, <1>8, <1>9, <1>10, <1>13, <1>14 DEF Leaves
<1> QED
  BY <1>1, <1>8, <1>15 DEF new

LEMMA RequestLeft ==
  ASSUME NEW r, IsRequest(r), DraftsFit(r), NEW answer \in [1 .. r.drafts + 1 -> Nat]
  PROVE  \E kept : Leaves(r, TargetTokens(r, answer), Cached(r, TargetTokens(r, answer)), kept)
<1>1. r.drafts \in Nat /\ r.total \in Nat
  BY DEF IsRequest
<1>2. CASE r.computed + r.sched < r.total
  <2>1. TargetTokens(r, answer) = <<>>
    BY <1>2 DEF TargetTokens
  <2>2. Leaves(r, <<>>, Cached(r, <<>>), r.sched)
    BY <1>2, PartLeft
  <2> QED
    BY <2>1, <2>2
<1>3. CASE ~(r.computed + r.sched < r.total)
  <2>1. PICK a \in Nat : AgreesUpTo(r.tokens, r.total, answer, r.drafts, a)
    BY <1>1, SomeAgree
  <2>2. TargetTokens(r, answer) = Prefix(answer, a + 1)
    BY <2>1, <1>1, <1>3, TargetOf
  <2>3. PICK v : v = Prefix(answer, a + 1)
    OBVIOUS
  <2>4. Leaves(r, v, Cached(r, v), r.sched - r.drafts + a)
    BY <2>1, <2>3, <1>3, FullLeft
  <2> QED
    BY <2>2, <2>3, <2>4
<1> QED
  BY <1>2, <1>3

(* The same of a batch. *)
StaysAre(kept, b, valid, new, n) ==
  /\ IsList(kept, n) /\ kept \in [1 .. n -> Nat]
  /\ \A i \in 1 .. n : Leaves(b[i], valid[i], new[i], kept[i])

Stepped(b, n, valid, t) ==
  /\ IsBatch(b, n) /\ \A i \in 1 .. n : DraftsFit(b[i])
  /\ \A i \in 1 .. n : t[i] \in [1 .. b[i].drafts + 1 -> Nat]
  /\ \A i \in 1 .. n : valid[i] = TargetTokens(b[i], t[i])

LEMMA BatchLeft ==
  ASSUME NEW n, NEW b, NEW valid, NEW t, Stepped(b, n, valid, t)
  PROVE  \E kept : StaysAre(kept, b, valid, CacheSampled(b, valid), n)
<1> DEFINE new == CacheSampled(b, valid)
           l == [i \in 1 .. n |-> Cached(b[i], valid[i])]
           kept == [i \in 1 .. n |-> CHOOSE k : Leaves(b[i], valid[i], l[i], k)]
<1>1. n \in Nat /\ DOMAIN b = 1 .. n
  <2>1. IsBatch(b, n)
    BY DEF Stepped
  <2> QED
    BY <2>1, BatchCounts
<1>2. new = Listed(l)
  BY <1>1 DEF CacheSampled, Cached
<1>3. IsList(l, n)
  BY DEF IsList
<1>4. \A i \in 1 .. n : l[i] = Cached(b[i], valid[i])
  OBVIOUS
<1> HIDE DEF l, new
<1>5. new = l
  BY <1>1, <1>2, <1>3, ListedSame
<1>6. ASSUME NEW i \in 1 .. n PROVE Leaves(b[i], valid[i], l[i], kept[i])
  <2>1. IsRequest(b[i]) /\ DraftsFit(b[i]) /\ t[i] \in [1 .. b[i].drafts + 1 -> Nat]
        /\ valid[i] = TargetTokens(b[i], t[i])
    BY DEF Stepped, IsBatch
  <2>2. PICK r, answer : r = b[i] /\ answer = t[i]
    OBVIOUS
  <2>3. \E k : Leaves(r, TargetTokens(r, answer), Cached(r, TargetTokens(r, answer)), k)
    BY <2>1, <2>2, RequestLeft
  <2>4. \E k : Leaves(b[i], valid[i], l[i], k)
    BY <2>1, <2>2, <2>3, <1>4
  <2> QED
    BY <2>4
<1>7. IsList(kept, n) /\ kept = [i \in 1 .. n |-> kept[i]]
  BY DEF IsList
<1> HIDE DEF kept
<1>8. \A i \in 1 .. n : kept[i] \in Nat
  <2> TAKE i \in 1 .. n
  <2>1. kept[i] \in 1 .. b[i].sched
    BY <1>6 DEF Leaves
  <2> QED
    BY <2>1
<1> QED
  BY <1>5, <1>6, <1>7, <1>8 DEF StaysAre, new

-----------------------------------------------------------------------------
(* The rows a drafter takes: those of the kept tokens, request by request. *)

(* The rows of a request are counts[i] from offP[i - 1] on, the kept ones  *)
(* first.                                                                  *)
RowsTaken(p, kept, counts, offP, off, n) ==
  /\ counts \in [1 .. n -> Nat] /\ Offsets(offP, counts, n)
  /\ IsList(p.rows, offP[n]) /\ IsList(p.last, n)
  /\ \A i \in 1 .. n : /\ kept[i] \in 1 .. counts[i] /\ p.last[i] = offP[i - 1] + kept[i] - 1
                       /\ \A k \in 1 .. kept[i] : p.rows[offP[i - 1] + k] = off[i - 1] + (k - 1)

(* The differences of a list of starts. *)
QueryIs(qsl, counts, off, n) ==
  /\ Minus(Tail(qsl), Front(qsl)) = counts /\ Last(qsl) = off[n]
  /\ \A i \in 1 .. n : qsl[i] = off[i - 1] /\ qsl[i + 1] = off[i]

LEMMA StartDifferences ==
  ASSUME NEW n \in Nat, NEW counts \in [1 .. n -> Nat], IsList(counts, n),
         NEW off, Offsets(off, counts, n), NEW qsl, StartsAre(qsl, off, n)
  PROVE  QueryIs(qsl, counts, off, n)
<1>1. off \in [0 .. n -> Nat]
  BY DEF Offsets
<1>2. IsList(qsl, n + 1) /\ n + 1 \in Nat /\ \A i \in 0 .. n : qsl[i + 1] = off[i]
  BY DEF StartsAre
<1>3. \A i \in 1 .. n : qsl[i] = off[i - 1] /\ qsl[i + 1] = off[i]
  <2> TAKE i \in 1 .. n
  <2>1. i - 1 \in 0 .. n /\ i \in 0 .. n /\ (i - 1) + 1 = i
    OBVIOUS
  <2> QED
    BY <2>1, <1>2
<1>4. qsl \in Seq(Nat) /\ Len(qsl) = n + 1
  <2>1. qsl = [i \in 1 .. n + 1 |-> qsl[i]]
    BY <1>2 DEF IsList
  <2>2. \A i \in 1 .. n + 1 : qsl[i] \in Nat
    <3> TAKE i \in 1 .. n + 1
    <3>1. i - 1 \in 0 .. n /\ (i - 1) + 1 = i
      OBVIOUS
    <3> QED
      BY <3>1, <1>1, <1>2
  <2> QED
    BY <2>1, <2>2, <1>2, IsASeq
<1>5. Last(qsl) = off[n]
  <2>1. n \in 0 .. n
    OBVIOUS
  <2> QED
    BY <2>1, <1>2, <1>4 DEF Last
<1>6. IsList(Tail(qsl), n) /\ \A i \in 1 .. n : Tail(qsl)[i] = qsl[i + 1]
  <2>1. Tail(qsl) \in Seq(Nat) /\ Len(Tail(qsl)) = n /\ \A i \in 1 .. n : Tail(qsl)[i] = qsl[i + 1]
    <3>1. qsl # <<>>
      BY <1>4
    <3> QED
      BY <3>1, <1>4
  <2> QED
    BY <2>1, SeqIsList
<1>7. \A i \in 1 .. n : Front(qsl)[i] = qsl[i]
  <2>1. Front(qsl) = SubSeq(qsl, 1, n)
    BY <1>4 DEF Front
  <2>2. \A i \in 1 .. n - 1 + 1 : SubSeq(qsl, 1, n)[i] = qsl[1 + i - 1]
    <3>1. 1 \in Int /\ n \in Int /\ \A i \in 1 .. n : qsl[i] \in Nat
      BY <1>4
    <3> QED
      BY <3>1, SubSeqProperties
  <2> QED
    BY <2>1, <2>2
<1>8. PICK f, g : f = Tail(qsl) /\ g = Front(qsl)
  OBVIOUS
<1>9. MinusIs(Minus(f, g), f, g, n)
  BY <1>6, <1>8, MinusAt
<1>10. \A i \in 1 .. n : Minus(f, g)[i] = counts[i]
  <2> TAKE i \in 1 .. n
  <2>1. Minus(f, g)[i] = off[i] - off[i - 1]
    <3>1. Minus(f, g)[i] = f[i] - g[i]
      BY <1>9 DEF MinusIs
    <3>2. f[i] = off[i] /\ g[i] = off[i - 1]
      BY <1>3, <1>6, <1>7, <1>8
    <3> QED
      BY <3>1, <3>2
  <2>2. NextOffset(off, counts, i)
    BY OffsetAt
  <2>3. PICK o \in Nat, k \in Nat : o = off[i - 1] /\ k = counts[i] /\ off[i] = o + k
    BY <2>2 DEF NextOffset
  <2> QED
    BY <2>1, <2>3
<1>11. Minus(f, g) = counts
  BY <1>9, <1>10 DEF MinusIs, IsList
<1> QED
  BY <1>3, <1>5, <1>8, <1>11 DEF QueryIs

(* How many tokens of each request are rejected. *)
RejectedAre(rej, kept, counts, n) ==
  IsList(rej, n) /\ \A i \in 1 .. n : kept[i] \in 1 .. counts[i] /\ rej[i] = counts[i] - kept[i]

LEMMA RejectedOf ==
  ASSUME NEW n, NEW b, NEW valid, NEW t, Stepped(b, n, valid, t), NEW kept, NEW new,
         StaysAre(kept, b, valid, new, n)
  PROVE  RejectedAre(NumRejected(b, valid), kept, Of(b, "sched"), n)
<1> DEFINE l == [i \in 1 .. n |-> IF b[i].drafts > 0 THEN b[i].drafts + 1 - Len(valid[i]) ELSE 0]
<1>1. IsBatch(b, n) /\ n \in Nat
  BY DEF Stepped, IsBatch
<1>2. DOMAIN b = 1 .. n /\ \A i \in 1 .. n : Of(b, "sched")[i] = b[i].sched
  BY <1>1, BatchCounts
<1>3. NumRejected(b, valid) = Listed(l)
  BY <1>2 DEF NumRejected
<1>4. IsList(l, n)
  BY DEF IsList
<1>5. \A i \in 1 .. n : l[i] = IF b[i].drafts > 0 THEN b[i].drafts + 1 - Len(valid[i]) ELSE 0
  OBVIOUS
<1> HIDE DEF l
<1>6. NumRejected(b, valid) = l
  BY <1>1, <1>3, <1>4, ListedSame
<1>7. ASSUME NEW i \in 1 .. n
      PROVE  kept[i] \in 1 .. Of(b, "sched")[i] /\ l[i] = Of(b, "sched")[i] - kept[i]
  <2>1. Leaves(b[i], valid[i], new[i], kept[i])
    BY DEF StaysAre
  <2> QED
    BY <2>1, <1>2, <1>5 DEF Leaves
<1> QED
  BY <1>4, <1>6, <1>7 DEF RejectedAre

LEMMA TorchairRows ==
  ASSUME NEW n \in Nat, NEW counts \in [1 .. n -> Nat], IsList(counts, n),
         NEW off, Offsets(off, counts, n), NEW qsl, StartsAre(qsl, off, n),
         NEW kept, NEW rej, RejectedAre(rej, kept, counts, n)
  PROVE  RowsTaken(MtpPrepareInputs(qsl, rej, TRUE), kept, counts, off, off, n)
<1> DEFINE p == MtpPrepareInputs(qsl, rej, TRUE)
           l == [i \in 1 .. n |-> qsl[i] + counts[i] - rej[i] - 1]
<1>1. QueryIs(qsl, counts, off, n)
  BY StartDifferences
<1>2. p.rows = ARange(off[n]) /\ p.last = Listed(l)
  BY <1>1 DEF MtpPrepareInputs, QueryIs
<1>3. IsList(l, n)
  BY DEF IsList
<1>4. \A i \in 1 .. n : l[i] = qsl[i] + counts[i] - rej[i] - 1
  OBVIOUS
<1> HIDE DEF p, l
<1>5. p.last = l
  BY <1>2, <1>3, ListedSame
<1>6. PICK W \in Nat : W = off[n]
  BY DEF Offsets
<1>7. ArangeIs(p.rows, W)
  BY <1>2, <1>6, ArangeAt
<1>8. ASSUME NEW i \in 1 .. n
      PROVE  /\ kept[i] \in 1 .. counts[i] /\ p.last[i] = off[i - 1] + kept[i] - 1
             /\ \A k \in 1 .. kept[i] : p.rows[off[i - 1] + k] = off[i - 1] + (k - 1)
  <2>1. kept[i] \in 1 .. counts[i] /\ rej[i] = counts[i] - kept[i]
    BY DEF RejectedAre
  <2>2. NextOffset(off, counts, i)
    BY OffsetAt
  <2>3. PICK o \in Nat, c \in Nat, k \in Nat : o = off[i - 1] /\ c = counts[i] /\ k = kept[i] /\ k <= c
    BY <2>1, <2>2 DEF NextOffset
  <2>4. p.last[i] = off[i - 1] + kept[i] - 1
    <3>1. p.last[i] = o + c - (c - k) - 1
      BY <1>1, <1>4, <1>5, <2>1, <2>3 DEF QueryIs
    <3> QED
      BY <3>1, <2>3
  <2>5. ASSUME NEW h \in 1 .. kept[i] PROVE p.rows[off[i - 1] + h] = off[i - 1] + (h - 1)
    <3>1. h \in 1 .. counts[i]
      BY <2>3
    <3>2. off[i - 1] + h \in 1 .. off[n]
      BY <3>1, PlaceIn
    <3>3. PICK r \in 1 .. W : r = off[i - 1] + h
      BY <3>2, <1>6
    <3>4. p.rows[r] = r - 1
      BY <1>7, <3>3 DEF ArangeIs
    <3>5. r - 1 = o + (h - 1)
      BY <2>3, <3>3
    <3> QED
      BY <3>3, <3>4, <3>5, <2>3
  <2> QED
    BY <2>1, <2>4, <2>5
<1> QED
  BY <1>3, <1>5, <1>6, <1>7, <1>8 DEF RowsTaken, ArangeIs, p

(* The rows of the kept tokens one behind the other. *)
LEMMA KeptRows ==
  ASSUME NEW n \in Nat, NEW kept \in [1 .. n -> Nat], NEW offP, Offsets(offP, kept, n),
         \A i \in 1 .. n : kept[i] # 0,
         NEW off, NEW seqs, IsList(seqs, n), \A i \in 1 .. n : IsList(seqs[i], kept[i]),
         \A i \in 1 .. n : \A j \in 1 .. kept[i] : seqs[i][j] = off[i - 1] + (j - 1),
         NEW p, p.rows = FlattenSeq(seqs), IsList(p.last, n), \A i \in 1 .. n : p.last[i] = offP[i] - 1
  PROVE  RowsTaken(p, kept, kept, offP, off, n)
<1>1. IsList(p.rows, offP[n]) /\ IsFlat(p.rows, seqs, kept, offP, n)
  BY Flattened
<1>2. ASSUME NEW i \in 1 .. n
      PROVE  /\ kept[i] \in 1 .. kept[i] /\ p.last[i] = offP[i - 1] + kept[i] - 1
             /\ \A k \in 1 .. kept[i] : p.rows[offP[i - 1] + k] = off[i - 1] + (k - 1)
  <2>1. NextOffset(offP, kept, i)
    BY OffsetAt
  <2>2. PICK o \in Nat, c \in Nat : o = offP[i - 1] /\ c = kept[i] /\ offP[i] = o + c /\ c # 0
    BY <2>1 DEF NextOffset
  <2>3. kept[i] \in 1 .. kept[i] /\ p.last[i] = offP[i - 1] + kept[i] - 1
    BY <2>2, SMTT(40)
  <2>4. \A k \in 1 .. kept[i] : p.rows[offP[i - 1] + k] = off[i - 1] + (k - 1)
    BY <1>1 DEF IsFlat
  <2> QED
    BY <2>3, <2>4
<1> QED
  BY <1>1, <1>2 DEF RowsTaken

(* cu_num_tokens: where the kept tokens of each request start. *)
KeptStartAt(cu, offP, kept, n) ==
  /\ Offsets(offP, kept, n) /\ StartsAre(cu, offP, n)
  /\ Minus(Tail(cu), Front(cu)) = kept /\ \A i \in 1 .. n : cu[i + 1] = offP[i]

LEMMA KeptStarts ==
  ASSUME NEW n \in Nat \ {0}, NEW counts \in [1 .. n -> Nat], IsList(counts, n),
         NEW kept \in [1 .. n -> Nat], IsList(kept, n), NEW rej, RejectedAre(rej, kept, counts, n)
  PROVE  \E offP : KeptStartAt(<<0>> \o CumSum(Minus(counts, rej)), offP, kept, n)
<1>1. MinusIs(Minus(counts, rej), counts, rej, n)
  BY MinusAt
<1>2. \A i \in 1 .. n : Minus(counts, rej)[i] = kept[i]
  <2> TAKE i \in 1 .. n
  <2>1. kept[i] \in 1 .. counts[i] /\ rej[i] = counts[i] - kept[i] /\ counts[i] \in Nat
    BY DEF RejectedAre
  <2> QED
    BY <2>1, <1>1 DEF MinusIs
<1>3. Minus(counts, rej) = kept
  BY <1>1, <1>2 DEF MinusIs, IsList
<1>4. kept \in Seq(Nat) /\ Len(kept) = n
  BY IsASeq
<1>5. PICK offP : /\ Offsets(offP, kept, n) /\ CumSum(kept) = [i \in 1 .. n |-> offP[i]]
                  /\ IsList(CumSum(kept), n)
  BY <1>4, CumSumOffsets
<1>6. CumsIs(CumSum(kept), offP, n)
  BY <1>5 DEF CumsIs
<1>7. offP \in [0 .. n -> Nat] /\ offP[0] = 0
  BY <1>5 DEF Offsets
<1>8. PICK cu : cu = <<0>> \o CumSum(kept)
  OBVIOUS
<1>9. StartsAre(cu, offP, n)
  BY <1>6, <1>7, <1>8, StartsOf
<1>10. n \in Nat /\ QueryIs(cu, kept, offP, n)
  BY <1>5, <1>9, StartDifferences
<1> QED
  BY <1>3, <1>5, <1>8, <1>9, <1>10 DEF KeptStartAt, QueryIs

(* A request's kept tokens fit a block of the kernels. *)
LEMMA BlockRows ==
  ASSUME NEW n \in Nat \ {0}, NEW counts \in [1 .. n -> Nat], IsList(counts, n),
         NEW off, Offsets(off, counts, n), NEW qsl, StartsAre(qsl, off, n),
         NEW kept \in [1 .. n -> Nat], IsList(kept, n), NEW rej, RejectedAre(rej, kept, counts, n),
         \A i \in 1 .. n : counts[i] <= KernelBlock
  PROVE  \E offP : RowsTaken(MtpPrepareInputs(qsl, rej, FALSE), kept, kept, offP, off, n)
<1> DEFINE p == MtpPrepareInputs(qsl, rej, FALSE)
           cu == <<0>> \o CumSum(Minus(counts, rej))
           l == [i \in 1 .. n |-> cu[i + 1] - 1]
           seqs == [i \in 1 .. n |-> [j \in 1 .. kept[i] |-> IF j <= KernelBlock THEN qsl[i] + j - 1 ELSE 0]]
<1>1. QueryIs(qsl, counts, off, n)
  BY StartDifferences
<1>2. PICK offP : KeptStartAt(cu, offP, kept, n)
  BY KeptStarts
<1>3. Minus(Tail(cu), Front(cu)) = kept /\ \A i \in 1 .. n : cu[i + 1] = offP[i]
  BY <1>2 DEF KeptStartAt
<1>4. p.rows = PrepareInputKernel(qsl, cu) /\ p.last = Listed(l)
  BY <1>1 DEF MtpPrepareInputs, QueryIs
<1>5. \A i \in 1 .. n : l[i] = cu[i + 1] - 1
  OBVIOUS
<1> HIDE DEF cu
<1>6. PrepareInputKernel(qsl, cu) = FlattenSeq(seqs)
  BY <1>3 DEF PrepareInputKernel
<1>7. IsList(l, n) /\ IsList(seqs, n) /\ \A i \in 1 .. n : IsList(seqs[i], kept[i])
  BY DEF IsList
<1>8. \A i \in 1 .. n : \A j \in 1 .. kept[i] : seqs[i][j] = IF j <= KernelBlock THEN qsl[i] + j - 1 ELSE 0
  OBVIOUS
<1> HIDE DEF p, l, seqs
<1>9. p.last = l
  BY <1>4, <1>7, ListedSame
<1>10. \A i \in 1 .. n : kept[i] # 0
  BY DEF RejectedAre
<1>11. \A i \in 1 .. n : \A j \in 1 .. kept[i] : seqs[i][j] = off[i - 1] + (j - 1)
  <2> TAKE i \in 1 .. n
  <2> TAKE j \in 1 .. kept[i]
  <2>1. kept[i] \in 1 .. counts[i] /\ counts[i] <= KernelBlock /\ counts[i] \in Nat
    BY DEF RejectedAre
  <2>2. PICK c \in Nat, k \in Nat : c = counts[i] /\ k = kept[i] /\ k <= c /\ c <= KernelBlock
    BY <2>1
  <2>3. j <= k /\ j \in Nat
    BY <2>2
  <2>5. PICK o \in Nat : o = off[i - 1] /\ qsl[i] = o
    <3>1. NextOffset(off, counts, i)
      BY OffsetAt
    <3>2. qsl[i] = off[i - 1]
      BY <1>1 DEF QueryIs
    <3> QED
      BY <3>1, <3>2 DEF NextOffset
  <2>6. o + j - 1 = o + (j - 1)
    BY <2>3
  <2>7. j <= KernelBlock
    BY <2>2, <2>3, KernelAssumption
  <2> QED
    BY <2>5, <2>6, <2>7, <1>8
<1>12. \A i \in 1 .. n : p.last[i] = offP[i] - 1
  BY <1>3, <1>5, <1>9
<1>13. Offsets(offP, kept, n)
  BY <1>2 DEF KeptStartAt
<1>14. p.rows = FlattenSeq(seqs) /\ IsList(p.last, n)
  BY <1>4, <1>6, <1>7, <1>9
<1>15. RowsTaken(p, kept, kept, offP, off, n)
  BY <1>7, <1>10, <1>11, <1>12, <1>13, <1>14, KeptRows
<1> QED
  BY <1>15 DEF p

LEMMA EagleRows ==
  ASSUME NEW n \in Nat \ {0}, NEW counts \in [1 .. n -> Nat], IsList(counts, n),
         NEW off, Offsets(off, counts, n), NEW qsl, StartsAre(qsl, off, n),
         NEW kept \in [1 .. n -> Nat], IsList(kept, n), NEW rej, RejectedAre(rej, kept, counts, n),
         \A i \in 1 .. n : counts[i] <= KernelBlock
  PROVE  \E offP : RowsTaken(EaglePrepareInputs(qsl, rej), kept, kept, offP, off, n)
<1> DEFINE p == EaglePrepareInputs(qsl, rej)
           cu == <<0>> \o CumSum(Minus(counts, rej))
           l == [i \in 1 .. n |-> cu[i + 1] - 1]
           seqs == [i \in 1 .. n |-> [j \in 1 .. kept[i] |-> qsl[i] + ((j - 1) % KernelBlock)]]
<1>1. QueryIs(qsl, counts, off, n)
  BY StartDifferences
<1>2. PICK offP : KeptStartAt(cu, offP, kept, n)
  BY KeptStarts
<1>3. Minus(Tail(cu), Front(cu)) = kept /\ \A i \in 1 .. n : cu[i + 1] = offP[i]
  BY <1>2 DEF KeptStartAt
<1>4. p.rows = PrepareEagleInputSequential(qsl, cu) /\ p.last = Listed(l)
  <2>1. DOMAIN rej = 1 .. n
    BY DEF RejectedAre, IsList
  <2> QED
    BY <1>1, <2>1 DEF EaglePrepareInputs, QueryIs
<1>5. \A i \in 1 .. n : l[i] = cu[i + 1] - 1
  OBVIOUS
<1> HIDE DEF cu
<1>6. PrepareEagleInputSequential(qsl, cu) = FlattenSeq(seqs)
  BY <1>3 DEF PrepareEagleInputSequential
<1>7. IsList(l, n) /\ IsList(seqs, n) /\ \A i \in 1 .. n : IsList(seqs[i], kept[i])
  BY DEF IsList
<1>8. \A i \in 1 .. n : \A j \in 1 .. kept[i] : seqs[i][j] = qsl[i] + ((j - 1) % KernelBlock)
  OBVIOUS
<1> HIDE DEF p, l, seqs
<1>9. p.last = l
  BY <1>4, <1>7, ListedSame
<1>10. \A i \in 1 .. n : kept[i] # 0
  BY DEF RejectedAre
<1>11. \A i \in 1 .. n : \A j \in 1 .. kept[i] : seqs[i][j] = off[i - 1] + (j - 1)
  <2> TAKE i \in 1 .. n
  <2> TAKE j \in 1 .. kept[i]
  <2>1. kept[i] \in 1 .. counts[i] /\ counts[i] <= KernelBlock /\ counts[i] \in Nat
    BY DEF RejectedAre
  <2>2. PICK c \in Nat, k \in Nat : c = counts[i] /\ k = kept[i] /\ k <= c /\ c <= KernelBlock
    BY <2>1
  <2>3. j <= k /\ j \in Nat /\ j > 0
    BY <2>2
  <2>4. KernelBlock \in Nat \ {0} /\ j - 1 \in 0 .. KernelBlock - 1
    BY <2>2, <2>3, KernelAssumption
  <2>5. PICK K \in Nat \ {0} : K = KernelBlock
    BY <2>4
  <2>6. PICK h \in 0 .. K - 1 : h = j - 1
    BY <2>4, <2>5
  <2>7. h % K = h
    <3>1. K * 0 = 0
      OBVIOUS
    <3>2. 0 \in Nat /\ 0 + h = h
      OBVIOUS
    <3>3. (K * 0 + h) % K = h
      BY <3>2, DivModUnique
    <3> QED
      BY <3>1, <3>2, <3>3
  <2>8. qsl[i] = off[i - 1]
    BY <1>1 DEF QueryIs
  <2> QED
    BY <2>5, <2>6, <2>7, <2>8, <1>8
<1>12. \A i \in 1 .. n : p.last[i] = offP[i] - 1
  BY <1>3, <1>5, <1>9
<1>13. Offsets(offP, kept, n)
  BY <1>2 DEF KeptStartAt
<1>14. p.rows = FlattenSeq(seqs) /\ IsList(p.last, n)
  BY <1>4, <1>6, <1>7, <1>9
<1>15. RowsTaken(p, kept, kept, offP, off, n)
  BY <1>7, <1>10, <1>11, <1>12, <1>13, <1>14, KeptRows
<1> QED
  BY <1>15 DEF p

(* Without drafts all rows stay. *)
LEMMA AllTaken ==
  ASSUME NEW n \in Nat, NEW counts \in [1 .. n -> Nat], IsList(counts, n), \A i \in 1 .. n : counts[i] # 0,
         NEW off, Offsets(off, counts, n), NEW qsl, StartsAre(qsl, off, n)
  PROVE  RowsTaken(AllRows(qsl), counts, counts, off, off, n)
<1> DEFINE p == AllRows(qsl)
           l == [i \in 1 .. n |-> qsl[i + 1] - 1]
<1>1. QueryIs(qsl, counts, off, n)
  BY StartDifferences
<1>2. DOMAIN Tail(qsl) = 1 .. n
  <2>1. IsList(qsl, n + 1) /\ n + 1 \in Nat
    BY DEF StartsAre
  <2>2. qsl \in Seq({qsl[i] : i \in 1 .. n + 1}) /\ Len(qsl) = n + 1
    BY <2>1, ListedSame
  <2> QED
    BY <2>2
<1>3. p.rows = ARange(off[n]) /\ p.last = Listed(l)
  BY <1>1, <1>2 DEF AllRows, QueryIs
<1>4. IsList(l, n)
  BY DEF IsList
<1>5. \A i \in 1 .. n : l[i] = qsl[i + 1] - 1
  OBVIOUS
<1> HIDE DEF p, l
<1>6. p.last = l
  BY <1>3, <1>4, ListedSame
<1>7. PICK W \in Nat : W = off[n]
  BY DEF Offsets
<1>8. ArangeIs(p.rows, W)
  BY <1>3, <1>7, ArangeAt
<1>9. ASSUME NEW i \in 1 .. n
      PROVE  /\ counts[i] \in 1 .. counts[i] /\ p.last[i] = off[i - 1] + counts[i] - 1
             /\ \A k \in 1 .. counts[i] : p.rows[off[i - 1] + k] = off[i - 1] + (k - 1)
  <2>1. NextOffset(off, counts, i)
    BY OffsetAt
  <2>2. PICK o \in Nat, c \in Nat : o = off[i - 1] /\ c = counts[i] /\ off[i] = o + c /\ c # 0
    BY <2>1 DEF NextOffset
  <2>3. qsl[i + 1] = off[i]
    BY <1>1 DEF QueryIs
  <2>4. counts[i] \in 1 .. counts[i] /\ p.last[i] = off[i - 1] + counts[i] - 1
    BY <1>5, <1>6, <2>2, <2>3
  <2>5. ASSUME NEW h \in 1 .. counts[i] PROVE p.rows[off[i - 1] + h] = off[i - 1] + (h - 1)
    <3>1. off[i - 1] + h \in 1 .. off[n]
      BY PlaceIn
    <3>2. PICK r \in 1 .. W : r = off[i - 1] + h
      BY <3>1, <1>7
    <3>3. p.rows[r] = r - 1
      BY <1>8, <3>2 DEF ArangeIs
    <3>4. r - 1 = o + (h - 1)
      BY <2>2, <3>2
    <3> QED
      BY <3>2, <3>3, <3>4, <2>2
  <2> QED
    BY <2>4, <2>5
<1> QED
  BY <1>4, <1>6, <1>7, <1>8, <1>9 DEF RowsTaken, ArangeIs, p

-----------------------------------------------------------------------------
(* The tokens that a drafter is fed. *)

(* A place belongs to one request. *)
IsPlace(at, off, i, k) == at = off[i - 1] + k
SamePlace(i, k, h, l)  == i = h /\ k = l

LEMMA PlaceOnce ==
  ASSUME NEW n \in Nat, NEW counts \in [1 .. n -> Nat], NEW off, Offsets(off, counts, n),
         NEW i \in 1 .. n, NEW k \in 1 .. counts[i], NEW h \in 1 .. n, NEW l \in 1 .. counts[h],
         NEW at, IsPlace(at, off, i, k), IsPlace(at, off, h, l)
  PROVE  SamePlace(i, k, h, l)
<1>1. NextOffset(off, counts, i) /\ NextOffset(off, counts, h)
  BY OffsetAt
<1>2. PICK o \in Nat, c \in Nat : o = off[i - 1] /\ c = counts[i] /\ off[i] = o + c
  BY <1>1 DEF NextOffset
<1>3. PICK u \in Nat, d \in Nat : u = off[h - 1] /\ d = counts[h] /\ off[h] = u + d
  BY <1>1 DEF NextOffset
<1>4. o + k = u + l /\ k <= c /\ l <= d /\ k >= 1 /\ l >= 1 /\ k \in Nat /\ l \in Nat
  BY <1>2, <1>3, SMTT(40) DEF IsPlace
<1>5. CASE i < h
  <2>1. i \in 0 .. n /\ h - 1 \in i .. n
    BY <1>5
  <2>2. off[i] <= off[h - 1]
    BY <2>1, OffsetsGrow
  <2>3. o + c <= u
    BY <2>2, <1>2, <1>3
  <2> QED
    BY <2>3, <1>4
<1>6. CASE h < i
  <2>1. h \in 0 .. n /\ i - 1 \in h .. n
    BY <1>6
  <2>2. off[h] <= off[i - 1]
    BY <2>1, OffsetsGrow
  <2>3. u + d <= o
    BY <2>2, <1>2, <1>3
  <2> QED
    BY <2>3, <1>4
<1>7. CASE i = h
  <2>1. o = u
    BY <1>2, <1>3, <1>7
  <2>2. k = l
    BY <2>1, <1>4
  <2> QED
    BY <2>2, <1>7 DEF SamePlace
<1> QED
  BY <1>5, <1>6, <1>7 DEF SamePlace

(* input_ids[:-1] = ids[1:] *)
ShiftedIs(x, ids, W) == IsList(x, W) /\ \A a \in 1 .. W - 1 : x[a] = ids[a + 1]

LEMMA ShiftedAt ==
  ASSUME NEW W \in Nat \ {0}, NEW ids, IsList(ids, W)
  PROVE  ShiftedIs(Tail(ids) \o <<Last(ids)>>, ids, W)
<1> DEFINE S == {ids[i] : i \in 1 .. W}
           tail == Tail(ids)
           x == tail \o <<Last(ids)>>
<1>1. ids \in Seq(S) /\ Len(ids) = W
  <2>1. W \in Nat
    OBVIOUS
  <2> QED
    BY <2>1, ListedSame
<1>2. Last(ids) \in S
  <2>1. Last(ids) = ids[W] /\ W \in 1 .. W
    BY <1>1 DEF Last
  <2> QED
    BY <2>1
<1> HIDE DEF S
<1>3. tail \in Seq(S) /\ Len(tail) = W - 1 /\ \A a \in 1 .. W - 1 : tail[a] = ids[a + 1]
  <2>1. ids # <<>>
    BY <1>1
  <2> QED
    BY <2>1, <1>1
<1> HIDE DEF tail
<1>4. PICK last \in S : last = Last(ids)
  BY <1>2
<1>5. /\ tail \o <<last>> \in Seq(S) /\ Len(tail \o <<last>>) = W
      /\ \A a \in 1 .. W - 1 : (tail \o <<last>>)[a] = tail[a]
  BY <1>3
<1>6. IsList(tail \o <<last>>, W)
  BY <1>5, SeqIsList
<1> QED
  BY <1>3, <1>4, <1>5, <1>6 DEF ShiftedIs, tail

(* The kept tokens of each request, with the next one behind each. *)
Feeds(q, p, kept, offP, off, b, n, inp, next) ==
  \A i \in 1 .. n : \A k \in 1 .. kept[i] :
    LET at == offP[i - 1] + k
    IN  /\ q.rows[at] = off[i - 1] + (k - 1)
        /\ q.positions[at] = b[i].computed + k - 1
        /\ q.slots[at] = inp.slot_mapping[off[i - 1] + k]
        /\ k < kept[i] => q.input_ids[at] = b[i].tokens[b[i].computed + (k + 1)]
        /\ k = kept[i] => q.input_ids[at] = next[i]

LEMMA ShiftFeeds ==
  ASSUME NEW n, NEW b, IsBatch(b, n), NEW off, Offsets(off, Of(b, "sched"), n),
         NEW inp, TokensAre(inp.input_ids, b, off, n), PositionsAre(inp.positions, b, off, n),
         NEW p, NEW kept, NEW counts, NEW offP, RowsTaken(p, kept, counts, offP, off, n),
         \A i \in 1 .. n : kept[i] <= b[i].sched, NEW next
  PROVE  Feeds(ShiftIn(p, inp, next), p, kept, offP, off, b, n, inp, next)
<1> DEFINE ids == IndexSelect(inp.input_ids, p.rows)
           x == Tail(ids) \o <<Last(ids)>>
           y == Scatter(x, p.last, next)
           positions == IndexSelect(inp.positions, p.rows)
           slots == IndexSelect(inp.slot_mapping, p.rows)
<1>1. /\ counts \in [1 .. n -> Nat] /\ Offsets(offP, counts, n)
      /\ IsList(p.rows, offP[n]) /\ IsList(p.last, n)
  BY DEF RowsTaken
<1>2. n \in Nat \ {0} /\ n \in Nat
  BY DEF IsBatch
<1>3. ASSUME NEW i \in 1 .. n
      PROVE  /\ kept[i] \in 1 .. counts[i] /\ p.last[i] = offP[i - 1] + kept[i] - 1
             /\ \A k \in 1 .. kept[i] : p.rows[offP[i - 1] + k] = off[i - 1] + (k - 1)
  BY DEF RowsTaken
<1>4. PICK W \in Nat \ {0} : W = offP[n]
  <2>1. 1 \in 1 .. n /\ kept[1] \in 1 .. counts[1] /\ counts[1] \in Nat
    BY <1>1, <1>2, <1>3
  <2>2. offP[1 - 1] + kept[1] \in 1 .. offP[n]
    BY <2>1, <1>1, <1>2, PlaceIn
  <2>3. offP[n] \in Nat
    BY <1>1, <1>2 DEF Offsets
  <2> QED
    BY <2>2, <2>3
<1>5. W \in Nat /\ IsList(p.rows, W)
  BY <1>1, <1>4
<1>6. SelectIs(ids, inp.input_ids, p.rows, W) /\ SelectIs(positions, inp.positions, p.rows, W)
        /\ SelectIs(slots, inp.slot_mapping, p.rows, W)
  BY <1>5, SelectAt
<1>7. ShiftIn(p, inp, next) = [rows |-> p.rows, input_ids |-> y, positions |-> positions,
                               slots |-> slots, last |-> p.last]
  BY DEF ShiftIn
<1> HIDE DEF ids, positions, slots
<1>8. ShiftedIs(x, ids, W)
  <2>1. IsList(ids, W)
    BY <1>6 DEF SelectIs
  <2> QED
    BY <2>1, ShiftedAt
<1> HIDE DEF x
<1>9. ScatterIs(y, x, p.last, next, W)
  <2>1. IsList(x, W)
    BY <1>8 DEF ShiftedIs
  <2> QED
    BY <2>1, <1>5, ScatterAt
<1> HIDE DEF y
<1>10. DOMAIN p.last = 1 .. n
  BY <1>1 DEF IsList
<1>11. ASSUME NEW i \in 1 .. n, NEW k \in 1 .. kept[i]
       PROVE  LET at == offP[i - 1] + k
              IN  /\ p.rows[at] = off[i - 1] + (k - 1)
                  /\ positions[at] = b[i].computed + k - 1
                  /\ slots[at] = inp.slot_mapping[off[i - 1] + k]
                  /\ k < kept[i] => y[at] = b[i].tokens[b[i].computed + (k + 1)]
                  /\ k = kept[i] => y[at] = next[i]
  <2>1. kept[i] \in 1 .. counts[i] /\ k \in 1 .. counts[i] /\ kept[i] \in Nat /\ counts[i] \in Nat
    BY <1>1, <1>3
  <2>2. PICK s \in Nat : s = b[i].sched /\ kept[i] <= s /\ k \in 1 .. s /\ k \in Nat
    <3>1. b[i].sched \in Nat
      BY DEF IsBatch, IsRequest
    <3> QED
      BY <3>1, <2>1
  <2>3. offP[i - 1] + k \in 1 .. offP[n] /\ offP[i - 1] \in Nat
    BY <2>1, <1>1, <1>2, PlaceIn
  <2>4. PICK at \in 1 .. W : at = offP[i - 1] + k
    BY <2>3, <1>4
  <2>5. PICK o \in Nat : o = off[i - 1]
    <3>1. off \in [0 .. n -> Nat] /\ i - 1 \in 0 .. n
      BY <1>2 DEF Offsets
    <3> QED
      BY <3>1
  <2>6. p.rows[at] = o + (k - 1)
    BY <2>4, <2>5, <1>3
  <2>7. o + (k - 1) + 1 = o + k
    BY <2>2
  <2>8. positions[at] = b[i].computed + k - 1
    <3>1. positions[at] = inp.positions[o + k]
      BY <2>6, <2>7, <1>6 DEF SelectIs
    <3>2. inp.positions[off[i - 1] + k] = b[i].computed + k - 1
      BY <2>2 DEF PositionsAre
    <3> QED
      BY <3>1, <3>2, <2>5
  <2>9. slots[at] = inp.slot_mapping[off[i - 1] + k]
    BY <2>5, <2>6, <2>7, <1>6 DEF SelectIs
  <2>10. ASSUME NEW h \in 1 .. n, p.last[h] = at - 1 PROVE h = i /\ k = kept[i]
    <3>1. kept[h] \in 1 .. counts[h] /\ p.last[h] = offP[h - 1] + kept[h] - 1 /\ kept[h] \in Nat
      BY <1>1, <1>3
    <3>2. offP[h - 1] \in Nat
      BY <3>1, <1>1, <1>2, PlaceIn
    <3>3. PICK u \in Nat, v \in Nat : u = offP[h - 1] /\ v = kept[h]
      BY <3>1, <3>2
    <3>4. offP[i - 1] + k = offP[h - 1] + kept[h]
      <4>1. u + v - 1 = at - 1
        BY <2>10, <3>1, <3>3
      <4>2. u + v = at
        BY <4>1
      <4> QED
        BY <4>2, <3>3, <2>4
    <3>5. PICK l \in 1 .. counts[h] : l = kept[h]
      BY <3>1
    <3>6. PICK m \in 1 .. counts[i] : m = k
      BY <2>1
    <3>7. IsPlace(at, offP, i, m) /\ IsPlace(at, offP, h, l)
      BY <3>4, <3>5, <3>6, <2>4 DEF IsPlace
    <3>8. counts \in [1 .. n -> Nat] /\ Offsets(offP, counts, n) /\ n \in Nat
      BY <1>1, <1>2
    <3>9. SamePlace(i, m, h, l)
      BY <3>7, <3>8, PlaceOnce
    <3> QED
      BY <3>5, <3>6, <3>9 DEF SamePlace
  <2>11. ASSUME k = kept[i] PROVE y[at] = next[i]
    <3>1. p.last[i] = at - 1
      BY <2>3, <2>4, <2>11, <1>3
    <3> QED
      BY <3>1, <2>10, <1>9, <1>10 DEF ScatterIs
  <2>12. ASSUME k < kept[i] PROVE y[at] = b[i].tokens[b[i].computed + (k + 1)]
    <3>1. PICK k2 \in 1 .. kept[i] : k2 = k + 1
      BY <2>12, <2>1, <2>2
    <3>2. k2 \in 1 .. counts[i] /\ k2 \in 1 .. s /\ k2 \in Nat
      BY <3>1, <2>1, <2>2
    <3>3. offP[i - 1] + k2 \in 1 .. offP[n]
      BY <3>2, <1>1, <1>2, PlaceIn
    <3>4. at \in 1 .. W - 1 /\ at + 1 = offP[i - 1] + k2 /\ at + 1 \in 1 .. W
      <4>1. PICK u \in Nat : u = offP[i - 1] /\ at = u + k /\ u + k2 <= W
        BY <3>3, <2>3, <2>4, <1>4
      <4>2. at + 1 = u + k2
        BY <4>1, <3>1, <2>2
      <4> QED
        BY <4>1, <4>2
    <3>5. y[at] = x[at]
      <4>1. \A h \in 1 .. n : p.last[h] # at - 1
        BY <2>10, <2>12, <2>1, <2>2
      <4> QED
        BY <4>1, <1>9, <1>10 DEF ScatterIs
    <3>6. x[at] = ids[at + 1]
      BY <3>4, <1>8 DEF ShiftedIs
    <3>7. p.rows[offP[i - 1] + k2] = off[i - 1] + (k2 - 1)
      BY <1>3
    <3>8. ids[at + 1] = inp.input_ids[o + k2]
      <4>1. o + (k2 - 1) + 1 = o + k2
        BY <3>2
      <4>2. p.rows[at + 1] = o + (k2 - 1)
        BY <3>4, <3>7, <2>5
      <4>3. ids[at + 1] = inp.input_ids[p.rows[at + 1] + 1]
        BY <3>4, <1>6 DEF SelectIs
      <4> QED
        BY <4>1, <4>2, <4>3
    <3>9. inp.input_ids[off[i - 1] + k2] = b[i].tokens[b[i].computed + k2]
      BY <3>2, <2>2 DEF TokensAre
    <3> QED
      BY <3>1, <3>5, <3>6, <3>8, <3>9, <2>5
  <2> QED
    BY <2>4, <2>5, <2>6, <2>8, <2>9, <2>11, <2>12
<1> QED
  BY <1>7, <1>11 DEF Feeds

(* What comes behind the scheduled tokens of a request. *)
LEMMA NextTokens ==
  ASSUME NEW n, NEW b, IsBatch(b, n), NEW valid, NEW i \in 1 .. n
  PROVE  NextTokenIds(b, valid)[i]
           = IF valid[i] # <<>> THEN Last(valid[i]) ELSE b[i].tokens[b[i].computed + b[i].sched + 1]
<1> DEFINE l == [h \in 1 .. n |-> IF valid[h] # <<>> THEN Last(valid[h])
                                  ELSE b[h].tokens[b[h].computed + b[h].sched + 1]]
<1>1. n \in Nat /\ DOMAIN b = 1 .. n
  BY BatchCounts
<1>2. NextTokenIds(b, valid) = Listed(l)
  BY <1>1 DEF NextTokenIds, Get
<1>3. IsList(l, n)
  BY DEF IsList
<1>4. l[i] = IF valid[i] # <<>> THEN Last(valid[i]) ELSE b[i].tokens[b[i].computed + b[i].sched + 1]
  OBVIOUS
<1> HIDE DEF l
<1> QED
  BY <1>1, <1>2, <1>3, <1>4, ListedSame

(* The k-th token of a request that stays. *)
FollowsAt(b, new, inp, q, lasts, i, stay, k, row0, at, pos) ==
  /\ Get(q.rows, at) = row0 + k - 1
  /\ Get(q.positions, at) = pos
  /\ Get(q.slots, at) = Get(inp.slot_mapping, row0 + k - 1)
  /\ k < stay \/ i \in lasts => Get(q.input_ids, at) = Get(new[i].tokens, pos + 1)

LEMMA Followed ==
  ASSUME NEW n, NEW b, NEW valid, NEW t, Stepped(b, n, valid, t), NEW off, Offsets(off, Of(b, "sched"), n),
         NEW kept, NEW new, StaysAre(kept, b, valid, new, n),
         NEW p, NEW counts, NEW offP, RowsTaken(p, kept, counts, offP, off, n),
         NEW inp, NEW next, NEW q, q.last = p.last, Feeds(q, p, kept, offP, off, b, n, inp, next),
         NEW lasts, \A i \in 1 .. n : i \in lasts => next[i] = NextTokenIds(b, valid)[i]
  PROVE  FollowsTarget(b, new, inp, q, lasts)
<1>1. IsBatch(b, n)
  BY DEF Stepped
<1>2. /\ n \in Nat \ {0} /\ n \in Nat /\ DOMAIN b = 1 .. n
      /\ IsList(Of(b, "sched"), n) /\ Of(b, "sched") \in [1 .. n -> Nat]
      /\ \A i \in 1 .. n : Of(b, "sched")[i] = b[i].sched
  BY <1>1, BatchCounts
<1>3. CumsIs(CumSum(Of(b, "sched")), off, n)
  <2>1. CumsIs(CumsumAndArange(Of(b, "sched")).cu, off, n)
    BY <1>2, CumsumAt
  <2> QED
    BY <2>1 DEF CumsumAndArange
<1>4. counts \in [1 .. n -> Nat] /\ Offsets(offP, counts, n)
  BY DEF RowsTaken
<1>5. ASSUME NEW i \in 1 .. n, NEW k \in 1 .. kept[i], NEW row0, row0 = CumSum(Of(b, "sched"))[i] - b[i].sched,
             NEW at, at = q.last[i] - kept[i] + k, NEW pos, pos = b[i].computed + k - 1
      PROVE  FollowsAt(b, new, inp, q, lasts, i, kept[i], k, row0, at, pos)
  <2>1. Leaves(b[i], valid[i], new[i], kept[i])
    BY DEF StaysAre
  <2>2. PICK c \in Nat, s \in Nat, m \in Nat :
          c = b[i].computed /\ s = b[i].sched /\ m = kept[i] /\ m <= s /\ k \in 1 .. m /\ k \in Nat
    <3>1. b[i].computed \in Nat /\ b[i].sched \in Nat /\ kept[i] \in 1 .. b[i].sched
      BY <1>1, <2>1 DEF IsBatch, IsRequest, Leaves
    <3> QED
      BY <3>1
  <2>3. PICK o \in Nat : o = off[i - 1] /\ row0 = o
    <3>1. NextOffset(off, Of(b, "sched"), i)
      BY <1>2, OffsetAt
    <3>2. PICK o \in Nat, z \in Nat : o = off[i - 1] /\ z = Of(b, "sched")[i] /\ off[i] = o + z
      BY <3>1 DEF NextOffset
    <3>3. z = s /\ CumSum(Of(b, "sched"))[i] = o + z
      BY <3>2, <2>2, <1>2, <1>3 DEF CumsIs
    <3>4. row0 = o
      BY <3>3, <2>2, <1>5
    <3> QED
      BY <3>2, <3>4
  <2>4. PICK u \in Nat : u = offP[i - 1] /\ q.last[i] = u + m - 1
    <3>1. NextOffset(offP, counts, i)
      BY <1>2, <1>4, OffsetAt
    <3>2. p.last[i] = offP[i - 1] + kept[i] - 1
      BY DEF RowsTaken
    <3> QED
      BY <3>1, <3>2, <2>2 DEF NextOffset
  <2>5. at + 1 = u + k /\ row0 + k - 1 + 1 = o + k /\ o + (k - 1) = row0 + k - 1
    <3>1. at = u + m - 1 - m + k
      BY <2>2, <2>4, <1>5
    <3> QED
      BY <3>1, <2>2, <2>3
  <2>6. /\ q.rows[u + k] = o + (k - 1)
        /\ q.positions[u + k] = b[i].computed + k - 1
        /\ q.slots[u + k] = inp.slot_mapping[o + k]
        /\ k < m => q.input_ids[u + k] = b[i].tokens[c + (k + 1)]
        /\ k = m => q.input_ids[u + k] = next[i]
    BY <2>2, <2>3, <2>4 DEF Feeds
  <2>7. pos + 1 + 1 = c + k + 1 /\ c + (k + 1) = c + k + 1
    BY <2>2, <1>5
  <2>8. ASSUME k < m PROVE Get(q.input_ids, at) = Get(new[i].tokens, pos + 1)
    <3>1. k \in 1 .. kept[i] - 1
      BY <2>2, <2>8
    <3>2. new[i].tokens[b[i].computed + k + 1] = b[i].tokens[b[i].computed + k + 1]
      BY <3>1, <2>1 DEF Leaves
    <3> QED
      BY <3>2, <2>2, <2>5, <2>6, <2>7, <2>8 DEF Get
  <2>9. ASSUME k = m, i \in lasts PROVE Get(q.input_ids, at) = Get(new[i].tokens, pos + 1)
    <3>1. next[i] = IF valid[i] # <<>> THEN Last(valid[i])
                    ELSE b[i].tokens[b[i].computed + b[i].sched + 1]
      BY <2>9, <1>1, NextTokens
    <3>2. new[i].tokens[b[i].computed + kept[i] + 1]
            = IF valid[i] # <<>> THEN Last(valid[i]) ELSE b[i].tokens[b[i].computed + b[i].sched + 1]
      BY <2>1 DEF Leaves
    <3>3. new[i].tokens[c + k + 1] = next[i]
      BY <3>1, <3>2, <2>2, <2>9
    <3> QED
      BY <3>3, <2>5, <2>6, <2>7, <2>9 DEF Get
  <2>10. k < m \/ k = m
    BY <2>2
  <2> QED
    BY <2>2, <2>3, <2>5, <2>6, <2>8, <2>9, <2>10, <1>5 DEF Get, FollowsAt
<1>6. \A i \in 1 .. n : Staying(b[i], new[i]) = kept[i]
  BY DEF StaysAre, Leaves
<1>7. ASSUME NEW i \in DOMAIN b, NEW k \in 1 .. Staying(b[i], new[i])
      PROVE  FollowsAt(b, new, inp, q, lasts, i, Staying(b[i], new[i]), k,
                       CumSum(Of(b, "sched"))[i] - b[i].sched, q.last[i] - Staying(b[i], new[i]) + k,
                       b[i].computed + k - 1)
  <2>1. i \in 1 .. n /\ Staying(b[i], new[i]) = kept[i] /\ k \in 1 .. kept[i]
    BY <1>2, <1>6
  <2>2. PICK row0, at, pos : /\ row0 = CumSum(Of(b, "sched"))[i] - b[i].sched
                             /\ at = q.last[i] - kept[i] + k /\ pos = b[i].computed + k - 1
    OBVIOUS
  <2>3. FollowsAt(b, new, inp, q, lasts, i, kept[i], k, row0, at, pos)
    BY <2>1, <2>2, <1>5
  <2> QED
    BY <2>1, <2>2, <2>3
<1> QED
  BY <1>7, Zenon DEF FollowsTarget, FollowsAt

(* What a proposer makes of the rows it takes. *)
ProposedFrom(q, b, n, inp, next, kept, p, counts, offP, off) ==
  /\ Offsets(off, Of(b, "sched"), n) /\ RowsTaken(p, kept, counts, offP, off, n)
  /\ q.last = p.last /\ Feeds(q, p, kept, offP, off, b, n, inp, next)
Proposed(q, b, n, inp, next, kept) ==
  \E p, counts, offP, off : ProposedFrom(q, b, n, inp, next, kept, p, counts, offP, off)

LEMMA RowsProposed ==
  ASSUME NEW n, NEW b, NEW valid, NEW t, Stepped(b, n, valid, t), NEW off, Offsets(off, Of(b, "sched"), n),
         NEW kept, NEW new, StaysAre(kept, b, valid, new, n), NEW cfg, NEW next,
         NEW p, NEW counts, NEW offP, RowsTaken(p, kept, counts, offP, off, n)
  PROVE  Proposed(ShiftIn(p, PrepareInputs(b, cfg), next), b, n, PrepareInputs(b, cfg), next, kept)
<1>1. IsBatch(b, n)
  BY DEF Stepped
<1>2. PICK inp : inp = PrepareInputs(b, cfg)
  OBVIOUS
<1>3. TokensAre(inp.input_ids, b, off, n) /\ PositionsAre(inp.positions, b, off, n)
  <2>1. TokensAre(PrepareInputs(b, cfg).input_ids, b, off, n)
        /\ PrepareInputs(b, cfg).positions = Positions(b)
    BY <1>1, InputsAt
  <2>2. PositionsAre(Positions(b), b, off, n)
    BY <1>1, PositionsAt
  <2> QED
    BY <2>1, <2>2, <1>2
<1>4. \A i \in 1 .. n : kept[i] <= b[i].sched
  <2> TAKE i \in 1 .. n
  <2>1. kept[i] \in 1 .. b[i].sched
    BY DEF StaysAre, Leaves
  <2>2. b[i].sched \in Nat
    BY <1>1 DEF IsBatch, IsRequest
  <2> QED
    BY <2>1, <2>2
<1>5. Feeds(ShiftIn(p, inp, next), p, kept, offP, off, b, n, inp, next)
  BY <1>1, <1>3, <1>4, ShiftFeeds
<1>6. ShiftIn(p, inp, next).last = p.last
  BY DEF ShiftIn
<1> QED
  BY <1>2, <1>5, <1>6 DEF Proposed, ProposedFrom

(* The rows that either proposer takes. *)
TakesKept(p, b, n, kept) ==
  \E counts, offP, off : Offsets(off, Of(b, "sched"), n) /\ RowsTaken(p, kept, counts, offP, off, n)

LEMMA ProposersTake ==
  ASSUME NEW n, NEW b, NEW valid, NEW t, Stepped(b, n, valid, t), NEW kept, NEW new,
         StaysAre(kept, b, valid, new, n), NEW cfg, NEW qsl, qsl = PrepareInputs(b, cfg).query_start_loc
  PROVE  /\ TakesKept(MtpPrepareInputs(qsl, NumRejected(b, valid), TRUE), b, n, kept)
         /\ TakesKept(MtpPrepareInputs(qsl, NumRejected(b, valid), FALSE), b, n, kept)
         /\ TakesKept(EaglePrepareInputs(qsl, NumRejected(b, valid)), b, n, kept)
         /\ ~UseSpecDecode(b) => TakesKept(AllRows(qsl), b, n, kept)
<1>1. IsBatch(b, n) /\ \A i \in 1 .. n : DraftsFit(b[i])
  BY DEF Stepped
<1>2. PICK counts \in [1 .. n -> Nat] : /\ counts = Of(b, "sched") /\ IsList(counts, n)
                                        /\ \A i \in 1 .. n : counts[i] = b[i].sched
  BY <1>1, BatchCounts
<1>3. n \in Nat \ {0} /\ n \in Nat /\ DOMAIN b = 1 .. n
  BY <1>1, BatchCounts
<1>4. PICK off : Offsets(off, counts, n)
  <2>1. counts \in Seq(Nat) /\ Len(counts) = n
    BY <1>2, <1>3, IsASeq
  <2> QED
    BY <2>1, CumSumOffsets
<1>5. StartsAre(qsl, off, n)
  BY <1>1, <1>2, <1>4, InputsAt
<1>6. PICK rej : rej = NumRejected(b, valid)
  OBVIOUS
<1>7. RejectedAre(rej, kept, counts, n)
  BY <1>2, <1>6, RejectedOf
<1>8. kept \in [1 .. n -> Nat] /\ IsList(kept, n)
  BY DEF StaysAre
<1>9. \A i \in 1 .. n : counts[i] <= KernelBlock /\ counts[i] # 0
  BY <1>1, <1>2 DEF DraftsFit, IsBatch, IsRequest
<1>10. RowsTaken(MtpPrepareInputs(qsl, rej, TRUE), kept, counts, off, off, n)
  BY <1>2, <1>3, <1>4, <1>5, <1>7, TorchairRows
<1>11. \E offP : RowsTaken(MtpPrepareInputs(qsl, rej, FALSE), kept, kept, offP, off, n)
  BY <1>2, <1>3, <1>4, <1>5, <1>7, <1>8, <1>9, BlockRows
<1>12. \E offP : RowsTaken(EaglePrepareInputs(qsl, rej), kept, kept, offP, off, n)
  BY <1>2, <1>3, <1>4, <1>5, <1>7, <1>8, <1>9, EagleRows
<1>13. ASSUME ~UseSpecDecode(b) PROVE RowsTaken(AllRows(qsl), kept, counts, off, off, n)
  <2>1. RowsTaken(AllRows(qsl), counts, counts, off, off, n)
    BY <1>2, <1>3, <1>4, <1>5, <1>9, AllTaken
  <2>2. ASSUME NEW i \in 1 .. n PROVE kept[i] = counts[i]
    <3>1. ~(b[i].drafts > 0)
      BY <1>3, <1>13 DEF UseSpecDecode
    <3>2. 0 = b[i].sched - kept[i]
      BY <3>1 DEF StaysAre, Leaves
    <3>3. b[i].sched \in Nat /\ kept[i] \in Nat
      BY <1>1, <1>8 DEF IsBatch, IsRequest
    <3> QED
      BY <3>2, <3>3, <1>2
  <2>3. kept = counts
    BY <2>2, <1>2, <1>8 DEF IsList
  <2> QED
    BY <2>1, <2>3
<1> QED
  BY <1>2, <1>4, <1>6, <1>10, <1>11, <1>12, <1>13 DEF TakesKept

(* MtpProposer.propose and EagleProposer.propose. *)
LEMMA ProposesKept ==
  ASSUME NEW n, NEW b, NEW valid, NEW t, Stepped(b, n, valid, t), NEW kept, NEW new,
         StaysAre(kept, b, valid, new, n), NEW cfg, NEW torchair \in BOOLEAN
  PROVE  /\ Proposed(MtpPropose(b, PrepareInputs(b, cfg), valid, torchair), b, n, PrepareInputs(b, cfg),
                     NextTokenIds(b, valid), kept)
         /\ Proposed(EaglePropose(b, PrepareInputs(b, cfg), valid), b, n, PrepareInputs(b, cfg),
                     [i \in DOMAIN b |-> NextTokenIds(b, valid)[1]], kept)
<1> DEFINE qsl == PrepareInputs(b, cfg).query_start_loc
           p == IF UseSpecDecode(b) THEN MtpPrepareInputs(qsl, NumRejected(b, valid), torchair)
                ELSE AllRows(qsl)
           e == IF UseSpecDecode(b) THEN EaglePrepareInputs(qsl, NumRejected(b, valid)) ELSE AllRows(qsl)
           next == NextTokenIds(b, valid)
           first == [i \in DOMAIN b |-> NextTokenIds(b, valid)[1]]
<1>1. /\ TakesKept(MtpPrepareInputs(qsl, NumRejected(b, valid), TRUE), b, n, kept)
      /\ TakesKept(MtpPrepareInputs(qsl, NumRejected(b, valid), FALSE), b, n, kept)
      /\ TakesKept(EaglePrepareInputs(qsl, NumRejected(b, valid)), b, n, kept)
      /\ ~UseSpecDecode(b) => TakesKept(AllRows(qsl), b, n, kept)
  BY ProposersTake
<1>2. /\ MtpPropose(b, PrepareInputs(b, cfg), valid, torchair) = ShiftIn(p, PrepareInputs(b, cfg), next)
      /\ EaglePropose(b, PrepareInputs(b, cfg), valid) = ShiftIn(e, PrepareInputs(b, cfg), first)
  BY DEF MtpPropose, EaglePropose
<1>3. TakesKept(p, b, n, kept) /\ TakesKept(e, b, n, kept)
  BY <1>1
<1> HIDE DEF qsl, p, e, next, first
<1>4. ASSUME NEW x, NEW y, TakesKept(x, b, n, kept)
      PROVE  Proposed(ShiftIn(x, PrepareInputs(b, cfg), y), b, n, PrepareInputs(b, cfg), y, kept)
  <2>1. PICK counts, offP, off : Offsets(off, Of(b, "sched"), n) /\ RowsTaken(x, kept, counts, offP, off, n)
    BY <1>4 DEF TakesKept
  <2> QED
    BY <2>1, RowsProposed
<1> QED
  BY <1>2, <1>3, <1>4 DEF next, first

-----------------------------------------------------------------------------
(* Where the second draft token goes. *)

(* Each request has blocks of its own for its scheduled tokens, and zeros  *)
(* behind them; block zero is never given out.                             *)
HasBlock(r, k) == (k - 1) * BlockSize < r.computed + r.sched
OwnBlocks(r) ==
  /\ IsList(r.blocks, MaxBlocks)
  /\ \A k \in 1 .. MaxBlocks : r.blocks[k] \in Nat /\ (r.blocks[k] # 0 <=> HasBlock(r, k))
BlocksApart(b, n) ==
  /\ \A i \in 1 .. n : OwnBlocks(b[i])
  /\ \A i, h \in 1 .. n : \A k, l \in 1 .. MaxBlocks :
       b[i].blocks[k] = b[h].blocks[l] /\ b[i].blocks[k] # 0 => SamePlace(i, k, h, l)

(* A position lies in a block of the table. *)
InBlock(z, k, r) == k \in 1 .. MaxBlocks /\ r \in 0 .. BlockSize - 1 /\ z = (k - 1) * BlockSize + r
                    /\ z \div BlockSize = k - 1 /\ z % BlockSize = r

LEMMA PositionInBlock ==
  ASSUME NEW z \in Nat, z < MaxModelLen
  PROVE  \E k, r : InBlock(z, k, r)
<1>1. PICK B \in Nat \ {0}, N \in Nat : B = BlockSize /\ N = MaxModelLen
  BY InputsAssumption
<1>2. PICK q \in Nat, r \in 0 .. B - 1 : z = B * q + r /\ q = z \div B /\ r = z % B
  BY DivMod
<1>3. N + B - 1 \in Nat
  BY <1>1
<1>4. PICK m \in Nat, s \in 0 .. B - 1 : N + B - 1 = B * m + s /\ m = (N + B - 1) \div B
  BY <1>3, DivMod
<1>5. m = MaxBlocks
  BY <1>1, <1>4 DEF MaxBlocks
<1>6. PICK x \in Int, y \in Int : x = B * q /\ y = B * m
  OBVIOUS
<1>7. x < y
  <2>1. z = x + r /\ N + B - 1 = y + s
    BY <1>2, <1>4, <1>6
  <2>2. z < N
    BY <1>1
  <2> QED
    BY <2>1, <2>2
<1>8. q < m
  <2>1. CASE m = q
    BY <2>1, <1>6, <1>7
  <2>2. CASE m < q
    <3>1. B * m + B <= B * q
      BY <2>2, ProductGrows
    <3> QED
      BY <3>1, <1>6, <1>7
  <2> QED
    BY <2>1, <2>2
<1>9. PICK k \in 1 .. m : k - 1 = q
  <2>1. q + 1 \in 1 .. m /\ (q + 1) - 1 = q
    BY <1>8
  <2> QED
    BY <2>1
<1>10. (k - 1) * B = B * q
  BY <1>9
<1> QED
  BY <1>1, <1>2, <1>5, <1>9, <1>10 DEF InBlock

(* A slot belongs to one block. *)
LEMMA SlotsApart ==
  ASSUME NEW x \in Nat, NEW y \in Nat, NEW r \in 0 .. BlockSize - 1, NEW s \in 0 .. BlockSize - 1,
         x * BlockSize + r = y * BlockSize + s
  PROVE  x = y /\ r = s
<1>1. PICK B \in Nat \ {0} : B = BlockSize
  BY InputsAssumption
<1>2. r \in 0 .. B - 1 /\ s \in 0 .. B - 1
  BY <1>1
<1>3. x * B = B * x /\ y * B = B * y
  OBVIOUS
<1>4. B * x + r = B * y + s
  BY <1>1, <1>3
<1>5. (B * x + r) \div B = x /\ (B * x + r) % B = r
  BY <1>2, DivModUnique
<1>6. (B * y + s) \div B = y /\ (B * y + s) % B = s
  BY <1>2, DivModUnique
<1> QED
  BY <1>4, <1>5, <1>6

(* The last kept token of a request, and the place of the next one. *)
LEMMA LastPosition ==
  ASSUME NEW n, NEW b, NEW valid, NEW t, Stepped(b, n, valid, t), NEW kept, NEW new,
         StaysAre(kept, b, valid, new, n), NEW q, NEW inp, NEW next, Proposed(q, b, n, inp, next, kept),
         NEW i \in 1 .. n
  PROVE  Get(q.positions, q.last[i]) + 1 = b[i].computed + kept[i]
<1>1. PICK p, counts, offP, off : ProposedFrom(q, b, n, inp, next, kept, p, counts, offP, off)
  BY DEF Proposed
<1>2. RowsTaken(p, kept, counts, offP, off, n) /\ q.last = p.last
        /\ Feeds(q, p, kept, offP, off, b, n, inp, next)
  BY <1>1 DEF ProposedFrom
<1>3. n \in Nat /\ b[i].computed \in Nat
  BY DEF Stepped, IsBatch, IsRequest
<1>4. PICK m \in Nat, c \in Nat : m = kept[i] /\ c = b[i].computed /\ m \in 1 .. m
  <2>1. kept[i] \in Nat /\ kept[i] \in 1 .. b[i].sched
    BY DEF StaysAre, Leaves
  <2> QED
    BY <2>1, <1>3
<1>5. PICK u \in Nat : u = offP[i - 1] /\ q.last[i] = u + m - 1
  <2>1. NextOffset(offP, counts, i)
    BY <1>2, <1>3, OffsetAt DEF RowsTaken
  <2>2. p.last[i] = offP[i - 1] + kept[i] - 1
    BY <1>2 DEF RowsTaken
  <2> QED
    BY <2>1, <2>2, <1>2, <1>4 DEF NextOffset
<1>6. q.positions[u + m] = c + m - 1
  BY <1>2, <1>4, <1>5 DEF Feeds
<1>7. q.last[i] + 1 = u + m /\ c + m - 1 + 1 = c + m
  BY <1>4, <1>5
<1> QED
  BY <1>4, <1>6, <1>7 DEF Get

(* EagleProposer.propose: the slot of a second draft token holds nothing   *)
(* that is still needed.                                                   *)
LEMMA SecondSlotsFree ==
  ASSUME NEW n, NEW b, NEW valid, NEW t, Stepped(b, n, valid, t), BlocksApart(b, n), NEW kept, NEW new,
         StaysAre(kept, b, valid, new, n), NEW q, NEW inp, NEW next, Proposed(q, b, n, inp, next, kept)
  PROVE  Range(SecondDraftSlots(b, q)) \cap LiveSlots(b, new) = {}
<1>1. IsBatch(b, n)
  BY DEF Stepped
<1>2. n \in Nat /\ DOMAIN b = 1 .. n
  BY <1>1, BatchCounts
<1> DEFINE Second(i) == IF b[i].computed + kept[i] >= MaxModelLen THEN -1
                        ELSE Get(b[i].blocks, (b[i].computed + kept[i]) \div BlockSize) * BlockSize
                               + ((b[i].computed + kept[i]) % BlockSize)
           l == [i \in 1 .. n |->
                  LET position == Get(q.positions, q.last[i]) + 1
                      clamped  == IF position >= MaxModelLen THEN 0 ELSE position
                  IN  IF position >= MaxModelLen THEN -1
                      ELSE Get(b[i].blocks, clamped \div BlockSize) * BlockSize + (clamped % BlockSize)]
<1>3. SecondDraftSlots(b, q) = Listed(l)
  BY <1>2 DEF SecondDraftSlots
<1>4. IsList(l, n)
  BY DEF IsList
<1>5. ASSUME NEW i \in 1 .. n PROVE l[i] = Second(i)
  <2>1. Get(q.positions, q.last[i]) + 1 = b[i].computed + kept[i]
    BY LastPosition
  <2> QED
    BY <2>1
<1> HIDE DEF l
<1>6. SecondDraftSlots(b, q) = l /\ DOMAIN l = 1 .. n
  BY <1>2, <1>3, <1>4, ListedSame
<1>7. ASSUME NEW i \in 1 .. n, NEW h \in 1 .. n, NEW z \in 0 .. b[h].computed + kept[h] - 1,
             Second(i) = Get(b[h].blocks, z \div BlockSize) * BlockSize + (z % BlockSize)
      PROVE  FALSE
  <2>1. PICK c \in Nat, m \in Nat, d \in Nat, o \in Nat, N \in Nat :
          /\ c = b[i].computed /\ m = kept[i] /\ d = b[h].computed /\ o = kept[h] /\ N = MaxModelLen
    <3>1. b[i].computed \in Nat /\ b[h].computed \in Nat /\ kept[i] \in Nat /\ kept[h] \in Nat
          /\ MaxModelLen \in Nat
      BY <1>1, InputsAssumption DEF IsBatch, IsRequest, StaysAre
    <3> QED
      BY <3>1
  <2>2. PICK s \in Nat : s = b[h].sched /\ o <= s /\ d + s <= N
    <3>1. b[h].sched \in Nat /\ b[h].computed + b[h].sched <= MaxModelLen /\ kept[h] \in 1 .. b[h].sched
      BY <1>1 DEF IsBatch, IsRequest, StaysAre, Leaves
    <3> QED
      BY <3>1, <2>1
  <2>3. z \in Nat /\ z < d + o /\ z < d + s /\ z < MaxModelLen
    BY <2>1, <2>2
  <2>4. PICK k, r : InBlock(z, k, r)
    BY <2>3, PositionInBlock
  <2>5. k \in 1 .. MaxBlocks /\ r \in 0 .. BlockSize - 1 /\ z = (k - 1) * BlockSize + r
        /\ z \div BlockSize = k - 1 /\ z % BlockSize = r
    BY <2>4 DEF InBlock
  <2>6. PICK B \in Nat \ {0}, K \in Nat : B = BlockSize /\ K = MaxBlocks /\ k \in 1 .. K /\ k \in Nat
    <3>1. BlockSize \in Nat \ {0} /\ MaxBlocks \in Nat
      <4>1. PICK B \in Nat \ {0}, M \in Nat : B = BlockSize /\ M = MaxModelLen + BlockSize - 1
        BY InputsAssumption
      <4>2. \E q2 \in Nat, r2 \in 0 .. B - 1 : M = B * q2 + r2 /\ q2 = M \div B /\ r2 = M % B
        BY DivMod
      <4> QED
        BY <4>1, <4>2 DEF MaxBlocks
    <3> QED
      BY <3>1, <2>5
  <2>7. PICK y \in Nat : y = b[h].blocks[k] /\ y # 0
    <3>1. HasBlock(b[h], k)
      <4>1. PICK w \in Int : w = (k - 1) * BlockSize
        BY <2>6
      <4>2. w <= z
        BY <4>1, <2>5, <2>6
      <4> QED
        BY <4>1, <4>2, <2>1, <2>2, <2>3 DEF HasBlock
    <3>2. OwnBlocks(b[h])
      BY DEF BlocksApart
    <3> QED
      BY <3>1, <3>2, <2>5 DEF OwnBlocks
  <2>8. Get(b[h].blocks, z \div BlockSize) = y
    <3>1. (k - 1) + 1 = k
      BY <2>6
    <3> QED
      BY <3>1, <2>5, <2>7 DEF Get
  <2>9. Second(i) = y * BlockSize + r
    BY <2>5, <2>8, <1>7
  <2>10. CASE c + m >= N
    <3>1. Second(i) = -1
      BY <2>1, <2>10
    <3>2. PICK w \in Nat : w = y * BlockSize
      BY <2>6
    <3>3. w + r >= 0
      BY <3>2, <2>5, <2>6
    <3>4. Second(i) = w + r
      BY <3>2, <2>9
    <3> HIDE DEF Second
    <3> QED
      BY <3>1, <3>3, <3>4
  <2>11. CASE ~(c + m >= N)
    <3>1. PICK p \in Nat : p = c + m /\ p < MaxModelLen
      BY <2>1, <2>11
    <3>2. PICK f, g : InBlock(p, f, g)
      BY <3>1, PositionInBlock
    <3>3. f \in 1 .. MaxBlocks /\ g \in 0 .. BlockSize - 1 /\ p = (f - 1) * BlockSize + g
          /\ p \div BlockSize = f - 1 /\ p % BlockSize = g
      BY <3>2 DEF InBlock
    <3>4. PICK x \in Nat : x = b[i].blocks[f] /\ Get(b[i].blocks, p \div BlockSize) = x
      <4>1. (f - 1) + 1 = f
        BY <2>6, <3>3
      <4>2. OwnBlocks(b[i])
        BY DEF BlocksApart
      <4> QED
        BY <4>1, <4>2, <3>3 DEF Get, OwnBlocks
    <3>5. Second(i) = x * BlockSize + g
      BY <3>1, <3>3, <3>4, <2>1, <2>11
    <3>6. x * BlockSize + g = y * BlockSize + r
      BY <3>5, <2>9
    <3>7. x = y /\ g = r
      BY <3>3, <3>6, <2>5, SlotsApart
    <3>8. SamePlace(i, f, h, k)
      <4>1. b[i].blocks[f] = b[h].blocks[k] /\ b[i].blocks[f] # 0
        BY <3>4, <3>7, <2>7
      <4> QED
        BY <4>1, <3>3, <2>5 DEF BlocksApart
    <3>9. p = z /\ c = d /\ m = o
      BY <3>3, <3>7, <3>8, <2>1, <2>5 DEF SamePlace
    <3> QED
      BY <3>1, <3>9, <2>3
  <2> QED
    BY <2>10, <2>11
<1> HIDE DEF Second
<1>8. ASSUME NEW slot, slot \in Range(SecondDraftSlots(b, q)), slot \in LiveSlots(b, new) PROVE FALSE
  <2>1. PICK i \in 1 .. n : slot = Second(i)
    <3>1. PICK i \in DOMAIN l : slot = l[i]
      BY <1>6, <1>8 DEF Range
    <3> QED
      BY <3>1, <1>5, <1>6
  <2>2. PICK h \in 1 .. n : \E z \in 0 .. b[h].computed + Staying(b[h], new[h]) - 1 :
          slot = Get(new[h].blocks, z \div BlockSize) * BlockSize + (z % BlockSize)
    BY <1>2, <1>8, Zenon DEF LiveSlots
  <2>3. Staying(b[h], new[h]) = kept[h] /\ new[h].blocks = b[h].blocks
    BY DEF StaysAre, Leaves
  <2>4. PICK z \in 0 .. b[h].computed + kept[h] - 1 :
          slot = Get(b[h].blocks, z \div BlockSize) * BlockSize + (z % BlockSize)
    BY <2>2, <2>3
  <2> QED
    BY <2>1, <2>4, <1>7
<1> QED
  BY <1>8

-----------------------------------------------------------------------------
(* The grammar bitmask. *)

(* The rows of the requests in S meet their logits, the others have none.  *)
MaskOf(D, n, S) ==
  FlattenSeq([i \in 1 .. n |-> [j \in 1 .. D[i] + 1 |-> IF i \in S THEN <<i, j>> ELSE <<>>]])
Masked(x, D, offM, n, S) ==
  /\ IsList(x, offM[n])
  /\ \A i \in 1 .. n : \A j \in 1 .. D[i] + 1 : x[offM[i - 1] + j] = IF i \in S THEN <<i, j>> ELSE <<>>
MaskSizes(D, offM, n) ==
  n \in Nat /\ D \in [1 .. n -> Nat] /\ IsList(D, n) /\ Sampled(D, n) \in [1 .. n -> Nat]
    /\ Offsets(offM, Sampled(D, n), n)

LEMMA MaskAt ==
  ASSUME NEW D, NEW offM, NEW n, MaskSizes(D, offM, n), NEW S
  PROVE  Masked(MaskOf(D, n, S), D, offM, n, S)
<1> DEFINE C == Sampled(D, n)
           seqs == [i \in 1 .. n |-> [j \in 1 .. D[i] + 1 |-> IF i \in S THEN <<i, j>> ELSE <<>>]]
<1>1. n \in Nat /\ C \in [1 .. n -> Nat] /\ Offsets(offM, C, n)
  BY DEF MaskSizes
<1>2. \A i \in 1 .. n : C[i] = D[i] + 1
  BY DEF Sampled
<1>3. IsList(seqs, n)
  BY DEF IsList
<1>4. \A i \in 1 .. n : seqs[i] = [j \in 1 .. D[i] + 1 |-> IF i \in S THEN <<i, j>> ELSE <<>>]
  OBVIOUS
<1>5. MaskOf(D, n, S) = FlattenSeq(seqs)
  BY DEF MaskOf
<1> HIDE DEF seqs, C
<1>6. \A i \in 1 .. n : IsList(seqs[i], C[i])
  <2> TAKE i \in 1 .. n
  <2>1. IsList([j \in 1 .. D[i] + 1 |-> IF i \in S THEN <<i, j>> ELSE <<>>], D[i] + 1)
    BY DEF IsList
  <2> QED
    BY <2>1, <1>2, <1>4
<1>7. IsList(FlattenSeq(seqs), offM[n]) /\ IsFlat(FlattenSeq(seqs), seqs, C, offM, n)
  BY <1>1, <1>3, <1>6, Flattened
<1>8. ASSUME NEW i \in 1 .. n, NEW j \in 1 .. D[i] + 1
      PROVE  FlattenSeq(seqs)[offM[i - 1] + j] = IF i \in S THEN <<i, j>> ELSE <<>>
  <2>1. FlattenSeq(seqs)[offM[i - 1] + j] = seqs[i][j]
    BY <1>2, <1>7 DEF IsFlat
  <2> QED
    BY <2>1, <1>4
<1> QED
  BY <1>5, <1>7, <1>8 DEF Masked

LEMMA MaskUnique ==
  ASSUME NEW D, NEW offM, NEW n, MaskSizes(D, offM, n), NEW S, NEW x, NEW y,
         Masked(x, D, offM, n, S), Masked(y, D, offM, n, S)
  PROVE  x = y
<1> DEFINE C == Sampled(D, n)
<1>1. n \in Nat /\ C \in [1 .. n -> Nat] /\ Offsets(offM, C, n)
  BY DEF MaskSizes
<1>2. \A i \in 1 .. n : C[i] = D[i] + 1
  BY DEF Sampled
<1> HIDE DEF C
<1>3. ASSUME NEW p \in 1 .. offM[n] PROVE x[p] = y[p]
  <2>1. LiesIn(p, C, offM, n)
    BY <1>1, Located
  <2>2. PICK i \in 1 .. n : \E k \in 1 .. C[i] : p = offM[i - 1] + k
    BY <2>1 DEF LiesIn
  <2>3. PICK k \in 1 .. D[i] + 1 : p = offM[i - 1] + k
    BY <2>2, <1>2
  <2> QED
    BY <2>3 DEF Masked
<1>4. IsList(x, offM[n]) /\ IsList(y, offM[n])
  BY DEF Masked
<1> QED
  BY <1>3, <1>4 DEF IsList

(* One more request's rows. *)
LEMMA MaskGrows ==
  ASSUME NEW D, NEW offM, NEW n, MaskSizes(D, offM, n), NEW S, NEW x, Masked(x, D, offM, n, S),
         NEW i \in 1 .. n, NEW idx, NEW values, DOMAIN idx = 1 .. D[i] + 1,
         \A j \in 1 .. D[i] + 1 : idx[j] = offM[i - 1] + j - 1 /\ values[j] = <<i, j>>
  PROVE  Masked(Scatter(x, idx, values), D, offM, n, S \cup {i})
<1> DEFINE C == Sampled(D, n)
           y == Scatter(x, idx, values)
<1>1. n \in Nat /\ C \in [1 .. n -> Nat] /\ Offsets(offM, C, n) /\ D \in [1 .. n -> Nat]
  BY DEF MaskSizes
<1>2. \A h \in 1 .. n : C[h] = D[h] + 1
  BY DEF Sampled
<1> HIDE DEF C, y
<1>3. PICK W \in Nat : W = offM[n]
  BY <1>1 DEF Offsets
<1>4. ScatterIs(y, x, idx, values, W)
  BY <1>3, ScatterAt DEF Masked, y
<1>5. ASSUME NEW h \in 1 .. n, NEW j \in 1 .. D[h] + 1
      PROVE  y[offM[h - 1] + j] = IF h \in S \cup {i} THEN <<h, j>> ELSE <<>>
  <2>1. PICK k \in 1 .. C[h] : k = j
    BY <1>2
  <2>2. offM[h - 1] + k \in 1 .. offM[n] /\ offM[h - 1] \in Nat
    BY <1>1, PlaceIn
  <2>3. PICK p \in 1 .. W : p = offM[h - 1] + k /\ p = offM[h - 1] + j
    BY <2>1, <2>2, <1>3
  <2>4. ASSUME NEW g \in 1 .. D[i] + 1, idx[g] = p - 1 PROVE h = i /\ j = g
    <3>1. PICK l \in 1 .. C[i] : l = g
      BY <1>2
    <3>2. offM[i - 1] \in Nat
      BY <3>1, <1>1, PlaceIn
    <3>3. PICK o \in Nat, l2 \in Nat : o = offM[i - 1] /\ l2 = g /\ idx[g] = o + l2 - 1
      <4>1. g \in Nat /\ idx[g] = offM[i - 1] + g - 1
        BY <1>1
      <4> QED
        BY <4>1, <3>2
    <3>4. p = o + l2
      BY <3>3, <2>4, SMTT(40)
    <3>5. IsPlace(p, offM, h, k) /\ IsPlace(p, offM, i, l)
      BY <3>1, <3>3, <3>4, <2>3 DEF IsPlace
    <3>6. SamePlace(h, k, i, l)
      BY <3>5, <1>1, PlaceOnce
    <3> QED
      BY <3>1, <3>6, <2>1 DEF SamePlace
  <2>5. CASE h = i
    <3>1. j \in 1 .. D[i] + 1 /\ idx[j] = p - 1 /\ values[j] = <<h, j>>
      <4>1. PICK g \in 1 .. D[i] + 1 : g = j
        BY <2>5
      <4>2. idx[g] = offM[i - 1] + g - 1 /\ values[g] = <<i, g>>
        OBVIOUS
      <4>3. p - 1 = offM[i - 1] + j - 1
        <5>1. PICK o \in Nat : o = offM[h - 1] /\ o = offM[i - 1]
          BY <2>2, <2>5
        <5>2. j \in Nat
          <6>1. D[h] \in Nat
            BY <1>1
          <6> QED
            BY <6>1
        <5>3. p = o + j
          BY <5>1, <2>3
        <5> QED
          BY <5>1, <5>2, <5>3
      <4> QED
        BY <4>1, <4>2, <4>3, <2>5
    <3>2. y[p] = values[j]
      BY <3>1, <2>4, <1>4 DEF ScatterIs
    <3> QED
      BY <3>1, <3>2, <2>3, <2>5
  <2>6. CASE h # i
    <3>1. \A g \in 1 .. D[i] + 1 : idx[g] # p - 1
      BY <2>4, <2>6
    <3>2. y[p] = x[p]
      BY <3>1, <1>4 DEF ScatterIs
    <3>3. x[offM[h - 1] + j] = IF h \in S THEN <<h, j>> ELSE <<>>
      BY DEF Masked
    <3> QED
      BY <3>2, <3>3, <2>3, <2>6
  <2> QED
    BY <2>5, <2>6
<1> QED
  BY <1>3, <1>4, <1>5 DEF Masked, ScatterIs, y

(* The rows of the compacted bitmask, and those that one request puts.     *)
Bitmask(D, order) ==
  FlattenSeq([k \in DOMAIN order |-> [j \in 1 .. D[order[k]] + 1 |-> <<order[k], j>>]])
RowsUpTo(D, order) == CumSum(Listed([k \in DOMAIN order |-> D[order[k]] + 1]))
PutRowsOf(D, order, x, k) ==
  Scatter(x, [j \in 1 .. D[order[k]] + 1 |->
                (order[k] - 1) + (CumSum(D)[order[k]] - D[order[k]]) + (j - 1)],
             [j \in 1 .. D[order[k]] + 1 |->
                Bitmask(D, order)[RowsUpTo(D, order)[k] - (D[order[k]] + 1) + j]])

IsOrder(order, m, n) == m \in Nat /\ IsList(order, m) /\ order \in [1 .. m -> 1 .. n]

LEMMA RowsPut ==
  ASSUME NEW D, NEW offD, NEW n \in Nat \ {0}, IsList(D, n), D \in [1 .. n -> Nat], Offsets(offD, D, n),
         NEW order, NEW m, IsOrder(order, m, n), NEW k \in 1 .. m, NEW S, NEW x,
         Masked(x, D, SampledUpTo(offD, n), n, S)
  PROVE  Masked(PutRowsOf(D, order, x, k), D, SampledUpTo(offD, n), n, S \cup {order[k]})
<1> DEFINE offM == SampledUpTo(offD, n)
           C == [h \in 1 .. m |-> D[order[h]] + 1]
           seqs == [h \in 1 .. m |-> [j \in 1 .. D[order[h]] + 1 |-> <<order[h], j>>]]
<1>1. m \in Nat /\ order \in [1 .. m -> 1 .. n] /\ DOMAIN order = 1 .. m
  BY DEF IsOrder
<1>2. n \in Nat /\ MaskSizes(D, offM, n)
  BY SampledOffsets DEF MaskSizes
<1>3. PICK i \in 1 .. n : i = order[k]
  BY <1>1
<1>4. C \in [1 .. m -> Nat] /\ IsList(C, m)
  BY <1>1 DEF IsList
<1>5. C \in Seq(Nat) /\ Len(C) = m
  BY <1>1, <1>4, IsASeq
<1>6. \A h \in 1 .. m : C[h] = D[order[h]] + 1
  OBVIOUS
<1>7. Listed([h \in DOMAIN order |-> D[order[h]] + 1]) = C
  BY <1>1, <1>4, ListedSame
<1>8. \A h \in 1 .. m : seqs[h] = [j \in 1 .. D[order[h]] + 1 |-> <<order[h], j>>]
  OBVIOUS
<1>9. Bitmask(D, order) = FlattenSeq(seqs) /\ IsList(seqs, m)
  BY <1>1 DEF Bitmask, IsList
<1> HIDE DEF C, seqs
<1>10. \A h \in 1 .. m : IsList(seqs[h], C[h])
  <2> TAKE h \in 1 .. m
  <2>1. IsList([j \in 1 .. D[order[h]] + 1 |-> <<order[h], j>>], D[order[h]] + 1)
    BY DEF IsList
  <2> QED
    BY <2>1, <1>6, <1>8
<1>11. PICK offC : Offsets(offC, C, m) /\ CumSum(C) = [h \in 1 .. m |-> offC[h]]
  BY <1>5, CumSumOffsets
<1>12. IsFlat(FlattenSeq(seqs), seqs, C, offC, m)
  BY <1>1, <1>4, <1>9, <1>10, <1>11, Flattened
<1>13. PICK d \in Nat : d = D[i]
  OBVIOUS
<1>14. C[k] = d + 1 /\ seqs[k] = [j \in 1 .. d + 1 |-> <<i, j>>]
  BY <1>3, <1>6, <1>8, <1>13
<1>15. PICK c \in Nat : c = offC[k - 1] /\ RowsUpTo(D, order)[k] = c + (d + 1)
  <2>1. NextOffset(offC, C, k)
    BY <1>1, <1>4, <1>11, OffsetAt
  <2>2. PICK c \in Nat : c = offC[k - 1] /\ offC[k] = c + (d + 1)
    BY <2>1, <1>14 DEF NextOffset
  <2>3. RowsUpTo(D, order)[k] = offC[k]
    BY <1>7, <1>11 DEF RowsUpTo
  <2> QED
    BY <2>2, <2>3
<1>16. PICK o \in Nat : o = offD[i - 1] /\ CumSum(D)[i] = o + d
  <2>1. CumsIs(CumsumAndArange(D).cu, offD, n)
    BY <1>2, CumsumAt
  <2>2. CumSum(D)[i] = offD[i]
    BY <2>1 DEF CumsumAndArange, CumsIs
  <2>3. NextOffset(offD, D, i)
    BY <1>2, OffsetAt
  <2> QED
    BY <2>2, <2>3, <1>13 DEF NextOffset
<1>17. offM[i - 1] = o + (i - 1)
  <2>1. i - 1 \in 0 .. n
    OBVIOUS
  <2> QED
    BY <2>1, <1>16 DEF SampledUpTo
<1> DEFINE idx == [j \in 1 .. d + 1 |-> (i - 1) + (o + d - d) + (j - 1)]
           values == [j \in 1 .. d + 1 |-> Bitmask(D, order)[c + (d + 1) - (d + 1) + j]]
<1>18. PutRowsOf(D, order, x, k) = Scatter(x, idx, values)
  <2> DEFINE s == CumSum(D)[i]
             e == RowsUpTo(D, order)[k]
  <2>1. PutRowsOf(D, order, x, k)
          = Scatter(x, [j \in 1 .. D[i] + 1 |-> (i - 1) + (s - D[i]) + (j - 1)],
                       [j \in 1 .. D[i] + 1 |-> Bitmask(D, order)[e - (D[i] + 1) + j]])
    BY <1>3 DEF PutRowsOf
  <2>2. s = o + d /\ e = c + (d + 1) /\ D[i] = d
    BY <1>13, <1>15, <1>16
  <2> HIDE DEF s, e
  <2> QED
    BY <2>1, <2>2
<1>19. \A j \in 1 .. d + 1 : idx[j] = offM[i - 1] + j - 1
  BY <1>17
<1>20. ASSUME NEW j \in 1 .. d + 1 PROVE values[j] = <<i, j>>
  <2>1. c + (d + 1) - (d + 1) + j = c + j
    OBVIOUS
  <2>2. FlattenSeq(seqs)[offC[k - 1] + j] = seqs[k][j]
    BY <1>12, <1>14 DEF IsFlat
  <2>3. values[j] = Bitmask(D, order)[c + j]
    BY <2>1
  <2> HIDE DEF values
  <2> QED
    BY <2>2, <2>3, <1>9, <1>14, <1>15
<1>21. DOMAIN idx = 1 .. d + 1
  OBVIOUS
<1> HIDE DEF idx, values, offM
<1>22. Masked(x, D, offM, n, S)
  BY DEF offM
<1>23. Masked(Scatter(x, idx, values), D, offM, n, S \cup {i})
  BY <1>2, <1>13, <1>19, <1>20, <1>21, <1>22, MaskGrows
<1> QED
  BY <1>3, <1>18, <1>23 DEF offM

(* apply_grammar_bitmask, request by request. *)
GrammarSteps(sorted, b, order, m, W) ==
  /\ sorted[0] = [r \in 1 .. W |-> <<>>]
  /\ \A k \in 1 .. m : sorted[k] = PutRowsOf(Of(b, "drafts"), order, sorted[k - 1], k)
  /\ ApplyGrammarBitmask(b, order) = sorted[m]

LEMMA GrammarRecursion ==
  ASSUME NEW b, NEW order, NEW m, NEW n, IsOrder(order, m, n), Len(order) = m
  PROVE  \E sorted : GrammarSteps(sorted, b, order, m, Len(b) + Last(CumSum(Of(b, "drafts"))))
<1>1. m \in Nat
  BY DEF IsOrder
<1> DEFINE D == Of(b, "drafts")
           W == Len(b) + Last(CumSum(D))
           base == [r \in 1 .. W |-> <<>>]
           Put(x, k) == PutRowsOf(D, order, x, k)
           upTo(f, l) == f = [k \in 0 .. l |-> IF k = 0 THEN base ELSE Put(f[k - 1], k)]
           sorted == CHOOSE f : upTo(f, Len(order))
           bad == {l \in Nat : ~ \E f : upTo(f, l)}
<1>2. ApplyGrammarBitmask(b, order) = sorted[Len(order)]
  BY Zenon DEF ApplyGrammarBitmask, PutRowsOf, Bitmask, RowsUpTo
<1> HIDE DEF Put, base, W, D
<1>3. bad = {}
  <2> SUFFICES ASSUME bad # {} PROVE FALSE
    OBVIOUS
  <2>1. PICK l \in bad : \A h \in bad : l <= h
    BY LeastMember
  <2>2. l \in Nat /\ ~ \E f : upTo(f, l)
    OBVIOUS
  <2>3. l # 0
    <3>1. upTo([k \in {0} |-> base], 0)
      OBVIOUS
    <3> QED
      BY <3>1, <2>2
  <2>4. l - 1 \in Nat /\ l - 1 \notin bad
    <3>1. l - 1 \in Nat /\ ~(l <= l - 1)
      BY <2>2, <2>3
    <3> HIDE DEF bad
    <3> QED
      BY <3>1, <2>1
  <2>5. PICK f : upTo(f, l - 1)
    BY <2>4
  <2> DEFINE u == [k \in 0 .. l |-> IF k = l THEN Put(f[l - 1], l) ELSE f[k]]
  <2>6. upTo(u, l)
    <3>1. ASSUME NEW k \in 0 .. l
          PROVE  u[k] = IF k = 0 THEN base ELSE Put(u[k - 1], k)
      <4>1. CASE k = l
        <5>1. l - 1 \in 0 .. l /\ l - 1 # l
          BY <2>4
        <5> QED
          BY <4>1, <5>1, <2>3
      <4>2. CASE k # l
        <5>1. k \in 0 .. l - 1 /\ (k # 0 => k - 1 \in 0 .. l /\ k - 1 # l /\ k - 1 \in 0 .. l - 1)
          BY <4>2, <2>2
        <5>2. f[k] = IF k = 0 THEN base ELSE Put(f[k - 1], k)
          BY <5>1, <2>5
        <5> QED
          BY <4>2, <5>1, <5>2
      <4> QED
        BY <4>1, <4>2
    <3> QED
      BY <3>1
  <2> QED
    BY <2>2, <2>6
<1>4. \E f : upTo(f, Len(order))
  BY <1>1, <1>3
<1>5. upTo(sorted, Len(order))
  BY <1>4
<1> HIDE DEF sorted
<1>6. sorted[0] = base /\ \A k \in 1 .. m : sorted[k] = Put(sorted[k - 1], k)
  <2> HIDE DEF bad
  <2>1. sorted = [k \in 0 .. m |-> IF k = 0 THEN base ELSE Put(sorted[k - 1], k)]
    BY <1>5
  <2> HIDE DEF upTo
  <2>2. ASSUME NEW k \in 0 .. m PROVE sorted[k] = IF k = 0 THEN base ELSE Put(sorted[k - 1], k)
    BY <2>1
  <2>3. 0 \in 0 .. m /\ \A k \in 1 .. m : k \in 0 .. m /\ k # 0
    BY <1>1
  <2> QED
    BY <2>2, <2>3
<1> QED
  BY <1>2, <1>6 DEF GrammarSteps, Put, base, W, D

(* apply_grammar_bitmask: whatever requests have structured output, and in *)
(* which order the scheduler lists them, each row of the bitmask meets the *)
(* logits that it was made for, and the others have none.                  *)
LEMMA GrammarApplied ==
  ASSUME NEW n, NEW b, IsBatch(b, n), NEW order, NEW m, IsOrder(order, m, n)
  PROVE  ApplyGrammarBitmask(b, order) = GrammarRows(b, order)
<1>1. /\ n \in Nat \ {0} /\ n \in Nat /\ DOMAIN b = 1 .. n /\ Len(b) = n
      /\ IsList(Of(b, "drafts"), n) /\ Of(b, "drafts") \in [1 .. n -> Nat]
      /\ \A i \in 1 .. n : Of(b, "drafts")[i] = b[i].drafts
  BY BatchCounts
<1>2. PICK D \in [1 .. n -> Nat] : D = Of(b, "drafts") /\ IsList(D, n)
  BY <1>1
<1>3. m \in Nat /\ order \in [1 .. m -> 1 .. n] /\ DOMAIN order = 1 .. m /\ Len(order) = m
  BY ListedSame DEF IsOrder
<1>4. PICK offD : Offsets(offD, D, n)
  <2>1. D \in Seq(Nat) /\ Len(D) = n
    BY <1>1, <1>2, IsASeq
  <2> QED
    BY <2>1, CumSumOffsets
<1>5. PICK offM : offM = SampledUpTo(offD, n)
  OBVIOUS
<1>6. MaskSizes(D, offM, n)
  BY <1>1, <1>2, <1>4, <1>5, SampledOffsets DEF MaskSizes
<1>7. Len(b) + Last(CumSum(D)) = offM[n]
  <2>1. CumsIs(CumSum(D), offD, n)
    <3>1. CumsIs(CumsumAndArange(D).cu, offD, n)
      BY <1>1, <1>2, <1>4, CumsumAt
    <3> QED
      BY <3>1 DEF CumsumAndArange
  <2>2. Len(CumSum(D)) = n /\ CumSum(D)[n] = offD[n]
    <3>1. IsList(CumSum(D), n) /\ n \in 1 .. n
      BY <2>1, <1>1 DEF CumsIs
    <3> QED
      BY <3>1, <2>1, <1>1, ListedSame DEF CumsIs
  <2>3. Last(CumSum(D)) = offD[n]
    BY <2>2 DEF Last
  <2>4. offD[n] \in Nat /\ offM[n] = offD[n] + n
    <3>1. n \in 0 .. n
      BY <1>1
    <3> QED
      BY <3>1, <1>4, <1>5 DEF Offsets, SampledUpTo
  <2> QED
    BY <2>3, <2>4, <1>1
<1>8. PICK sorted : GrammarSteps(sorted, b, order, m, offM[n])
  BY <1>2, <1>3, <1>7, GrammarRecursion
<1> DEFINE Done(k) == {order[h] : h \in 1 .. k}
           bad == {k \in 0 .. m : ~Masked(sorted[k], D, offM, n, Done(k))}
<1>9. Masked(sorted[0], D, offM, n, Done(0))
  <2>1. sorted[0] = [r \in 1 .. offM[n] |-> <<>>]
    BY <1>8 DEF GrammarSteps
  <2>2. IsList(sorted[0], offM[n])
    BY <2>1 DEF IsList
  <2>3. ASSUME NEW i \in 1 .. n, NEW j \in 1 .. D[i] + 1 PROVE sorted[0][offM[i - 1] + j] = <<>>
    <3>1. PICK k \in 1 .. Sampled(D, n)[i] : k = j
      BY DEF Sampled
    <3>2. offM[i - 1] + k \in 1 .. offM[n]
      BY <1>6, PlaceIn DEF MaskSizes
    <3> QED
      BY <3>1, <3>2, <2>1
  <2>4. Done(0) = {}
    OBVIOUS
  <2> QED
    BY <2>2, <2>3, <2>4 DEF Masked
<1>10. bad = {}
  <2> SUFFICES ASSUME bad # {} PROVE FALSE
    OBVIOUS
  <2>1. bad \in SUBSET Nat /\ m \in Nat
    BY <1>3
  <2>2. PICK k \in bad : \A h \in bad : k <= h
    BY <2>1, LeastMember
  <2>3. k \in 1 .. m /\ ~Masked(sorted[k], D, offM, n, Done(k))
    <3>1. k \in 0 .. m /\ ~Masked(sorted[k], D, offM, n, Done(k))
      OBVIOUS
    <3>2. k # 0
      BY <3>1, <1>9
    <3> QED
      BY <2>1, <3>1, <3>2
  <2>4. k - 1 \in 0 .. m /\ k - 1 \notin bad
    <3>1. k - 1 \in 0 .. m /\ ~(k <= k - 1)
      BY <2>1, <2>3
    <3> HIDE DEF bad
    <3> QED
      BY <3>1, <2>2
  <2>5. Masked(sorted[k - 1], D, offM, n, Done(k - 1))
    BY <2>4
  <2>6. PICK x, S : x = sorted[k - 1] /\ S = Done(k - 1)
    OBVIOUS
  <2>7. Masked(x, D, SampledUpTo(offD, n), n, S)
    BY <2>5, <2>6, <1>5
  <2>8. Masked(PutRowsOf(D, order, x, k), D, SampledUpTo(offD, n), n, S \cup {order[k]})
    BY <2>3, <2>7, <1>1, <1>2, <1>4, RowsPut
  <2>9. S \cup {order[k]} = Done(k)
    <3>1. \A h \in 1 .. k : h = k \/ h \in 1 .. k - 1
      BY <2>3
    <3>2. k \in 1 .. k /\ \A h \in 1 .. k - 1 : h \in 1 .. k
      BY <2>3
    <3> QED
      BY <3>1, <3>2, <2>6
  <2>10. sorted[k] = PutRowsOf(D, order, x, k)
    BY <2>3, <2>6, <1>2, <1>8 DEF GrammarSteps
  <2> QED
    BY <2>3, <2>8, <2>9, <2>10, <1>5
<1>11. Masked(sorted[m], D, offM, n, Done(m))
  <2>1. m \in 0 .. m
    BY <1>3
  <2> QED
    BY <2>1, <1>10
<1>12. Done(m) = Range(order)
  BY <1>3 DEF Range
<1>13. GrammarRows(b, order) = MaskOf(D, n, Range(order))
  BY <1>1, <1>2 DEF GrammarRows, MaskOf
<1>14. PICK S : S = Range(order) /\ S = Done(m)
  BY <1>12
<1>15. Masked(sorted[m], D, offM, n, S) /\ Masked(MaskOf(D, n, S), D, offM, n, S)
  BY <1>6, <1>11, <1>14, MaskAt
<1>16. sorted[m] = MaskOf(D, n, S)
  BY <1>6, <1>15, MaskUnique
<1>17. ApplyGrammarBitmask(b, order) = sorted[m]
  BY <1>8 DEF GrammarSteps
<1> QED
  BY <1>13, <1>14, <1>16, <1>17

-----------------------------------------------------------------------------
(* A step with drafts. *)

LEMMA FollowsProposed ==
  ASSUME NEW n, NEW b, NEW valid, NEW t, Stepped(b, n, valid, t), NEW kept, NEW new,
         StaysAre(kept, b, valid, new, n), NEW q, NEW inp, NEW next, Proposed(q, b, n, inp, next, kept),
         NEW lasts, \A i \in 1 .. n : i \in lasts => next[i] = NextTokenIds(b, valid)[i]
  PROVE  FollowsTarget(b, new, inp, q, lasts)
<1>1. PICK p, counts, offP, off : ProposedFrom(q, b, n, inp, next, kept, p, counts, offP, off)
  BY DEF Proposed
<1>2. /\ Offsets(off, Of(b, "sched"), n) /\ RowsTaken(p, kept, counts, offP, off, n)
      /\ q.last = p.last /\ Feeds(q, p, kept, offP, off, b, n, inp, next)
  BY <1>1 DEF ProposedFrom
<1> QED
  BY <1>2, Followed

(* The whole of it, for a batch of any length, whatever the requests have  *)
(* computed, how many drafts each has, which are greedy and what the       *)
(* target answers: the tokens kept are those of SampledTokens; either      *)
(* proposer takes the rows of just the tokens that stay, at their own      *)
(* positions and slots, with the token that follows each; and the second   *)
(* draft token of EagleProposer overwrites no KV that is still needed.     *)
THEOREM DraftsFollowTarget ==
  ASSUME NEW n, NEW b, IsBatch(b, n), \A i \in 1 .. n : DraftsFit(b[i]), BlocksApart(b, n), NEW cfg, NEW t,
         \A i \in 1 .. n : t[i] \in [1 .. b[i].drafts + 1 -> Nat]
  PROVE  SampledExact(b, PrepareInputs(b, cfg), t, ValidSampledTokenIds(b, PrepareInputs(b, cfg), t))
<1>1. PICK inp, valid : inp = PrepareInputs(b, cfg) /\ valid = ValidSampledTokenIds(b, inp, t)
  OBVIOUS
<1>2. valid = [i \in DOMAIN b |-> TargetTokens(b[i], t[i])]
  BY <1>1, SampledTokens
<1>3. n \in Nat /\ DOMAIN b = 1 .. n
  BY BatchCounts
<1>4. Stepped(b, n, valid, t)
  BY <1>2, <1>3 DEF Stepped
<1>5. PICK new : new = CacheSampled(b, valid)
  OBVIOUS
<1>6. PICK kept : StaysAre(kept, b, valid, new, n)
  BY <1>4, <1>5, BatchLeft
<1>7. PICK first : first = [i \in DOMAIN b |-> NextTokenIds(b, valid)[1]]
  OBVIOUS
<1>8. ASSUME NEW torchair \in BOOLEAN
      PROVE  /\ Proposed(MtpPropose(b, inp, valid, torchair), b, n, inp, NextTokenIds(b, valid), kept)
             /\ Proposed(EaglePropose(b, inp, valid), b, n, inp, first, kept)
  BY <1>1, <1>4, <1>6, <1>7, ProposesKept
<1>9. CASE mtp
  <2>1. PICK q : q = MtpPropose(b, inp, valid, mode = "torchair")
    OBVIOUS
  <2>2. (mode = "torchair") \in BOOLEAN
    OBVIOUS
  <2>3. Proposed(q, b, n, inp, NextTokenIds(b, valid), kept)
    BY <2>1, <2>2, <1>8
  <2>4. FollowsTarget(b, new, inp, q, DOMAIN b)
    BY <2>3, <1>4, <1>6, FollowsProposed
  <2> QED
    BY <2>1, <2>4, <1>1, <1>2, <1>5, <1>9 DEF SampledExact, DraftsExact
<1>10. CASE ~mtp
  <2>1. PICK q : q = EaglePropose(b, inp, valid)
    OBVIOUS
  <2>2. Proposed(q, b, n, inp, first, kept)
    BY <2>1, <1>8
  <2>3. \A i \in 1 .. n : i \in {1} => first[i] = NextTokenIds(b, valid)[i]
    BY <1>3, <1>7
  <2>4. FollowsTarget(b, new, inp, q, {1})
    BY <2>2, <2>3, <1>4, <1>6, FollowsProposed
  <2>5. Range(SecondDraftSlots(b, q)) \cap LiveSlots(b, new) = {}
    BY <2>2, <1>4, <1>6, SecondSlotsFree
  <2> QED
    BY <2>1, <2>4, <2>5, <1>1, <1>2, <1>5, <1>10 DEF SampledExact, DraftsExact
<1> QED
  BY <1>9, <1>10

(* The batches of the given shapes are such batches. *)
IsShape(s) ==
  /\ s[1] \in Nat /\ s[2] \in Nat \ {0} /\ s[3] \in Nat /\ s[4] \in Nat
  /\ s[3] < s[2] /\ s[2] <= KernelBlock
  /\ s[1] + s[2] <= MaxModelLen /\ s[1] + s[2] <= s[4] + s[3]
  /\ s[3] > 0 => s[1] + s[2] = s[4] + s[3]
  /\ s[1] + s[2] >= s[4] => s[4] + s[3] < MaxModelLen

LEMMA RequestFits ==
  ASSUME NEW i, NEW s, IsShape(s), NEW greedy \in BOOLEAN
  PROVE  IsRequest(Request(i, s, greedy)) /\ DraftsFit(Request(i, s, greedy))
<1> DEFINE r == Request(i, s, greedy)
           tokens == [p \in 1 .. MaxModelLen |->
                 CASE p <= s[4] -> 10 * i + p
                   [] p > s[4] /\ p <= s[4] + s[3] -> 1
                   [] OTHER -> 0]
<1>1. /\ r.computed = s[1] /\ r.sched = s[2] /\ r.drafts = s[3] /\ r.total = s[4]
      /\ r.greedy = greedy /\ r.tokens = Listed(tokens) /\ {"tokens", "total", "blocks"} \subseteq DOMAIN r
  BY DEF Request
<1>2. IsList(tokens, MaxModelLen) /\ MaxModelLen \in Nat
  BY InputsAssumption DEF IsList
<1> HIDE DEF tokens, r
<1>3. r.tokens = tokens
  BY <1>1, <1>2, ListedSame
<1>4. IsRequest(r) /\ DraftsFit(r)
  BY <1>1, <1>2, <1>3 DEF IsShape, IsRequest, DraftsFit
<1> QED
  BY <1>4 DEF r

LEMMA RequestBlocks ==
  ASSUME NEW i \in 1 .. 3, NEW s, IsShape(s), NEW greedy
  PROVE  /\ OwnBlocks(Request(i, s, greedy))
         /\ \A k \in 1 .. MaxBlocks : Request(i, s, greedy).blocks[k] # 0 =>
              Request(i, s, greedy).blocks[k] = 3 * k - i + 1
<1> DEFINE r == Request(i, s, greedy)
           blocks == [k \in 1 .. MaxBlocks |-> IF (k - 1) * BlockSize < s[1] + s[2] THEN 3 * k - i + 1 ELSE 0]
<1>1. r.computed = s[1] /\ r.sched = s[2] /\ r.blocks = Listed(blocks)
  BY DEF Request
<1>2. MaxBlocks \in Nat
  <2>1. PICK B \in Nat \ {0}, M \in Nat : B = BlockSize /\ M = MaxModelLen + BlockSize - 1
    BY InputsAssumption
  <2>2. \E q \in Nat, h \in 0 .. B - 1 : M = B * q + h /\ q = M \div B /\ h = M % B
    BY DivMod
  <2> QED
    BY <2>1, <2>2 DEF MaxBlocks
<1>3. IsList(blocks, MaxBlocks)
  BY DEF IsList
<1>4. \A k \in 1 .. MaxBlocks : blocks[k] = IF (k - 1) * BlockSize < s[1] + s[2] THEN 3 * k - i + 1 ELSE 0
  OBVIOUS
<1> HIDE DEF blocks, r
<1>5. r.blocks = blocks
  BY <1>1, <1>2, <1>3, ListedSame
<1>6. ASSUME NEW k \in 1 .. MaxBlocks
      PROVE  /\ blocks[k] \in Nat /\ (blocks[k] # 0 <=> HasBlock(r, k))
             /\ blocks[k] # 0 => blocks[k] = 3 * k - i + 1
  <2>1. k \in Nat /\ k >= 1
    BY <1>2
  <2>2. 3 * k - i + 1 \in Nat \ {0}
    BY <2>1
  <2>3. HasBlock(r, k) <=> (k - 1) * BlockSize < s[1] + s[2]
    BY <1>1 DEF HasBlock
  <2> QED
    BY <2>2, <2>3, <1>4
<1>7. OwnBlocks(r) /\ \A k \in 1 .. MaxBlocks : r.blocks[k] # 0 => r.blocks[k] = 3 * k - i + 1
  BY <1>3, <1>5, <1>6 DEF OwnBlocks
<1> QED
  BY <1>7 DEF r

(* A block of the drafter's kernels has a row for each scheduled token.    *)
KernelsReach == \A s \in Shapes : s[2] <= KernelBlock

LEMMA ShapedBatch ==
  ASSUME KernelsReach, NEW b \in Batches(ShapeSeqs, BOOLEAN)
  PROVE  \E n : IsBatch(b, n) /\ (\A i \in 1 .. n : DraftsFit(b[i])) /\ BlocksApart(b, n)
<1>1. PICK ss \in ShapeSeqs : \E g \in [DOMAIN ss -> BOOLEAN] :
        b = Listed([i \in DOMAIN ss |-> Request(i, ss[i], g[i])])
  BY DEF Batches
<1>2. PICK g \in [DOMAIN ss -> BOOLEAN] : b = Listed([i \in DOMAIN ss |-> Request(i, ss[i], g[i])])
  BY <1>1
<1>3. PICK n \in 1 .. 3 : ss \in [1 .. n -> Shapes] /\ DOMAIN ss = 1 .. n
  <2>1. CASE \E s \in Shapes : ss = <<s>>
    BY <2>1
  <2>2. CASE \E s, u \in Shapes : ss = <<s, u>>
    BY <2>2
  <2>3. CASE \E f \in Triples, s \in Shapes : ss = <<f[1], s, f[2]>>
    <3>1. PICK f \in Triples, s \in Shapes : ss = <<f[1], s, f[2]>>
      BY <2>3
    <3>2. f[1] \in Shapes /\ f[2] \in Shapes
      BY StepAssumption
    <3>3. PICK u \in Shapes, v \in Shapes : ss = <<u, s, v>>
      BY <3>1, <3>2
    <3> QED
      BY <3>3
  <2> QED
    BY <2>1, <2>2, <2>3 DEF ShapeSeqs
<1> DEFINE l == [i \in 1 .. n |-> Request(i, ss[i], g[i])]
<1>4. b = Listed(l) /\ IsList(l, n)
  BY <1>2, <1>3 DEF IsList
<1>5. \A i \in 1 .. n : l[i] = Request(i, ss[i], g[i])
  OBVIOUS
<1> HIDE DEF l
<1>6. b = l /\ n \in Nat \ {0}
  <2>1. n \in Nat \ {0} /\ n \in Nat
    OBVIOUS
  <2> QED
    BY <2>1, <1>4, ListedSame
<1>7. \A s \in Shapes : IsShape(s)
  BY ShapesAssumption, StepAssumption DEF IsShape, KernelsReach
<1>8. ASSUME NEW i \in 1 .. n
      PROVE  /\ IsRequest(b[i]) /\ DraftsFit(b[i]) /\ OwnBlocks(b[i])
             /\ \A k \in 1 .. MaxBlocks : b[i].blocks[k] # 0 => b[i].blocks[k] = 3 * k - i + 1
  <2>1. PICK s, x : s = ss[i] /\ x = g[i] /\ x \in BOOLEAN
    BY <1>2, <1>3
  <2>2. IsShape(s) /\ i \in 1 .. 3
    BY <2>1, <1>3, <1>7
  <2>3. b[i] = Request(i, s, x)
    BY <2>1, <1>5, <1>6
  <2>4. IsRequest(Request(i, s, x)) /\ DraftsFit(Request(i, s, x))
    BY <2>1, <2>2, RequestFits
  <2>5. /\ OwnBlocks(Request(i, s, x))
        /\ \A k \in 1 .. MaxBlocks : Request(i, s, x).blocks[k] # 0 =>
             Request(i, s, x).blocks[k] = 3 * k - i + 1
    BY <2>2, RequestBlocks
  <2> QED
    BY <2>3, <2>4, <2>5
<1>9. ASSUME NEW i \in 1 .. n, NEW h \in 1 .. n, NEW k \in 1 .. MaxBlocks, NEW m \in 1 .. MaxBlocks,
             b[i].blocks[k] = b[h].blocks[m], b[i].blocks[k] # 0
      PROVE  SamePlace(i, k, h, m)
  <2>1. 3 * k - i + 1 = 3 * m - h + 1
    BY <1>8, <1>9
  <2>2. i \in 1 .. 3 /\ h \in 1 .. 3
    BY <1>3
  <2>3. k \in Int /\ m \in Int
    OBVIOUS
  <2>4. k = m /\ i = h
    BY <2>1, <2>2, <2>3
  <2> QED
    BY <2>4 DEF SamePlace
<1> QED
  BY <1>4, <1>6, <1>8, <1>9 DEF IsBatch, BlocksApart

(* apply_grammar_bitmask for the orders that are looked at. *)
LEMMA GrammarHolds ==
  ASSUME NEW n, NEW b, IsBatch(b, n)
  PROVE  GrammarExact(b)
<1>1. n \in Nat \ {0} /\ DOMAIN b = 1 .. n /\ Len(b) = n
  BY BatchCounts
<1>2. IsOrder(<<1>>, 1, n) /\ IsOrder(<<Len(b)>>, 1, n)
  BY <1>1 DEF IsOrder, IsList
<1>3. IsOrder(Reverse([i \in DOMAIN b |-> i]), n, n)
  <2> DEFINE s == [i \in 1 .. n |-> i]
             r == [i \in 1 .. n |-> s[(n - i) + 1]]
  <2>1. Len(s) = n
    BY <1>1
  <2>2. Reverse([i \in DOMAIN b |-> i]) = r
    BY <1>1, <2>1 DEF Reverse
  <2>3. r \in [1 .. n -> 1 .. n]
    BY <1>1
  <2> HIDE DEF r
  <2>4. IsList(r, n)
    BY <2>3 DEF IsList
  <2> QED
    BY <1>1, <2>2, <2>3, <2>4 DEF IsOrder
<1>4. ASSUME NEW order, NEW m, IsOrder(order, m, n)
      PROVE  ApplyGrammarBitmask(b, order) = GrammarRows(b, order)
  BY <1>4, GrammarApplied
<1> QED
  BY <1>2, <1>3, <1>4 DEF GrammarExact

(* _calc_spec_decode_metadata, RejectionSampler, the bookkeeping of        *)
(* execute_model, both proposers and apply_grammar_bitmask, for batches of *)
(* any shapes that the scheduler may give, and any drafter and graph mode: *)
(* every request gets the drafts that the target agrees with and one token *)
(* more, the drafter is fed what stays, and each row of the bitmask meets  *)
(* its own logits; as long as no request has more tokens in a step than a  *)
(* block of the proposers' kernels has rows.                               *)
THEOREM SpeculationHolds == KernelsReach => (Spec => []SpeculationExact)
<1> SUFFICES ASSUME KernelsReach PROVE Spec => []SpeculationExact
  OBVIOUS
<1>1. ASSUME NEW b \in Batches(ShapeSeqs, BOOLEAN), NEW cfg PROVE BatchExact(b, PrepareInputs(b, cfg))
  <2>1. PICK n : IsBatch(b, n) /\ (\A i \in 1 .. n : DraftsFit(b[i])) /\ BlocksApart(b, n)
    BY ShapedBatch
  <2>2. DOMAIN b = 1 .. n
    BY <2>1, BatchCounts
  <2>3. ASSUME NEW t \in AllAnswers(b)
        PROVE  SampledExact(b, PrepareInputs(b, cfg), t, ValidSampledTokenIds(b, PrepareInputs(b, cfg), t))
    <3>1. \A i \in 1 .. n : t[i] \in [1 .. b[i].drafts + 1 -> {1, 2}]
      BY <2>2 DEF AllAnswers, Answers
    <3>2. \A i \in 1 .. n : t[i] \in [1 .. b[i].drafts + 1 -> Nat]
      BY <3>1
    <3> QED
      BY <2>1, <3>2, DraftsFollowTarget
  <2>4. GrammarExact(b)
    BY <2>1, GrammarHolds
  <2> QED
    BY <2>3, <2>4 DEF BatchExact
<1>2. SpeculationExact
  BY <1>1 DEF SpeculationExact
<1> QED
  BY <1>2, PTL
=============================================================================
