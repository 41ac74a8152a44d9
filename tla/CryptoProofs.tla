---------------------------- MODULE CryptoProofs ----------------------------
(***************************************************************************)
(* The crypto library: the key storage (KeyStorage) and the SRx Crypto API *)
(* (CryptoApi).                                                            *)
(*                                                                         *)
(* The lists of the key storage stay ordered for every set of keys, in     *)
(* spite of the back pointers that are not set: an element without one     *)
(* takes the elements before it along when it goes, and what is left is    *)
(* the end of an ordered list.  From the order follow the refinement of    *)
(* KeyRegistry, that size does not fall below what is stored, and which    *)
(* key a signature is verified with.                                       *)
(*                                                                         *)
(* Handles of libraries are counted and given back, and an API object that *)
(* was initialized can be used and has the keys its lists name.            *)
(***************************************************************************)
EXTENDS KeyStorage, CryptoApi, SequenceTheorems, FiniteSetTheorems, WellFoundedInduction, TLAPS

Chains == Seq(Element)

HeadTyped == head \in [Buckets -> Chains]

(* SortedUnique of one list.                                               *)
Ordered(L) ==
  /\ \A i, j \in 1..Len(L) : i < j => L[i].asn <= L[j].asn /\ ~SameName(L[i], L[j])
  /\ L # <<>> => ~L[1].back

-----------------------------------------------------------------------------
(* A set of positions has a first one.                                     *)
LEMMA FirstPosition ==
  ASSUME NEW I \in SUBSET Nat, I # {}
  PROVE  Min(I) \in I /\ \A j \in I : Min(I) <= j
<1>1. PICK x \in I : \A y \in I : <<y, x>> \notin OpToRel(<, Nat)
  BY NatLessThanWellFounded, WFMin, Zenon
<1>2. \A y \in I : ~(y < x)
  BY <1>1, Zenon DEF OpToRel
<1>3. \A y \in I : x <= y
  BY <1>2
<1> QED
  BY <1>3 DEF Min

(* Where a walk for k stops, and that it did not stop before.              *)
LEMMA StopPosition ==
  ASSUME NEW L \in Chains, NEW k
  PROVE  /\ Stop(L, k) \in 0..Len(L)
         /\ Stop(L, k) = 0 =>
              \A j \in 1..Len(L) : ~(L[j].asn > k.asn) /\ ~SameName(L[j], k)
         /\ Stop(L, k) # 0 =>
              /\ L[Stop(L, k)].asn > k.asn \/ SameName(L[Stop(L, k)], k)
              /\ \A j \in 1..(Stop(L, k) - 1) : ~(L[j].asn > k.asn) /\ ~SameName(L[j], k)
<1> DEFINE I == {i \in 1..Len(L) : L[i].asn > k.asn \/ SameName(L[i], k)}
<1>1. Stop(L, k) = IF I # {} THEN Min(I) ELSE 0
  BY DEF Stop, SelectInSeq
<1>2. Len(L) \in Nat
  BY DEF Chains
<1>3. CASE I = {}
  BY <1>1, <1>2, <1>3
<1>4. CASE I # {}
  <2>1. Min(I) \in I /\ \A j \in I : Min(I) <= j
    <3>1. I \in SUBSET Nat
      BY <1>2
    <3> HIDE DEF I
    <3> QED BY <1>4, <3>1, FirstPosition
  <2> HIDE DEF I
  <2>2. Stop(L, k) \in I /\ \A j \in I : Stop(L, k) <= j
    BY <1>1, <1>4, <2>1
  <2> QED BY <1>2, <2>2 DEF I
<1> QED
  BY <1>3, <1>4

(* The fields of the elements of a list.                                   *)
LEMMA ElementFields ==
  ASSUME NEW L \in Chains, NEW i \in 1..Len(L)
  PROVE  /\ L[i] \in Element /\ L[i].asn \in Nat /\ L[i].back \in BOOLEAN
         /\ L[i].keys \in Seq(Materials \cup {Hole}) /\ Len(L[i].keys) \in Nat
<1>1. L[i] \in Element
  BY DEF Chains
<1>2. ASNs \subseteq Nat
  BY KeyInputs DEF ASNs, Key
<1>3. L[i].asn \in ASNs /\ L[i].back \in BOOLEAN /\ L[i].keys \in Seq(Materials \cup {Hole})
  BY <1>1 DEF Element
<1>4. Len(L[i].keys) \in Nat
  BY <1>3, LenProperties
<1> QED
  BY <1>1, <1>2, <1>3, <1>4

(* A key and the element made of it.                                       *)
LEMMA KeyFields ==
  ASSUME NEW k \in Keys
  PROVE  /\ k.asn \in Nat /\ Home(k) \in Buckets
         /\ \A back \in BOOLEAN : /\ New(k, back) \in Element
                                  /\ New(k, back).asn = k.asn /\ New(k, back).ski = k.ski
                                  /\ New(k, back).back = back
<1>1. k.asn \in ASNs /\ k.asn \in Nat /\ k.ski \in {j.ski : j \in Keys} /\ k.data \in Materials
  BY KeyInputs DEF ASNs, Key
<1>2. Home(k) \in Buckets
  BY <1>1 DEF Home, Buckets
<1>3. <<k.data>> \in Seq(Materials \cup {Hole})
  BY <1>1
<1> QED
  BY <1>1, <1>2, <1>3 DEF New, Element, Skis

-----------------------------------------------------------------------------
(* Two elements that differ in their back pointers at most.                *)
SameItem(d, e) == d.asn = e.asn /\ d.ski = e.ski /\ d.keys = e.keys

(* A list whose elements are, in their order, elements of an ordered list  *)
(* up to keys and back pointers, and whose first has no back pointer.      *)
LEMMA OrderedPart ==
  ASSUME NEW L \in Chains, Ordered(L), NEW M \in Chains, NEW at \in [1..Len(M) -> 1..Len(L)],
         \A p, q \in 1..Len(M) : p < q => at[p] < at[q],
         \A p \in 1..Len(M) : M[p].asn = L[at[p]].asn /\ M[p].ski = L[at[p]].ski,
         M # <<>> => ~M[1].back
  PROVE  Ordered(M)
BY DEF Ordered, SameName

(* The first element has no back pointer, so what has one is not first.    *)
LEMMA BackNotFirst ==
  ASSUME NEW L \in Chains, Ordered(L), NEW i \in 1..Len(L), L[i].back
  PROVE  i > 1
<1>1. L # <<>> /\ Len(L) \in Nat
  BY DEF Chains
<1> QED
  BY <1>1 DEF Ordered

(* The two ends of a list.                                                 *)
LEMMA FrontPart ==
  ASSUME NEW L \in Chains, NEW i \in 1..Len(L)
  PROVE  /\ SubSeq(L, 1, i - 1) \in Chains /\ Len(SubSeq(L, 1, i - 1)) = i - 1
         /\ \A p \in 1..(i - 1) : SubSeq(L, 1, i - 1)[p] = L[p]
<1>1. \A p \in 1..(i - 1) : L[p] \in Element
  BY ElementFields, LenProperties DEF Chains
<1>2. i - 1 \in Int /\ i - 1 >= 0 /\ i \in Int
  BY LenProperties DEF Chains
<1> QED
  BY <1>1, <1>2, SubSeqProperties DEF Chains

LEMMA RestPart ==
  ASSUME NEW L \in Chains, NEW i \in 1..Len(L)
  PROVE  LET rest == SubSeq(L, i + 1, Len(L)) IN
         /\ rest \in Chains /\ Len(rest) = Len(L) - i
         /\ \A p \in 1..(Len(L) - i) : rest[p] = L[p + i]
<1>1. Len(L) \in Nat /\ i \in Nat /\ i + 1 \in Int /\ Len(L) \in Int
  BY LenProperties DEF Chains
<1>2. \A p \in (i + 1)..Len(L) : L[p] \in Element
  BY <1>1, ElementFields
<1>3. /\ SubSeq(L, i + 1, Len(L)) \in Chains
      /\ Len(SubSeq(L, i + 1, Len(L))) =
           IF i + 1 <= Len(L) THEN Len(L) - (i + 1) + 1 ELSE 0
      /\ \A p \in 1..(Len(L) - (i + 1) + 1) :
           SubSeq(L, i + 1, Len(L))[p] = L[(i + 1) + p - 1]
  BY <1>1, <1>2, SubSeqProperties DEF Chains
<1>4. \A p \in 1..(Len(L) - i) : (i + 1) + p - 1 = p + i
  BY <1>1
<1>5. Len(L) - (i + 1) + 1 = Len(L) - i
  BY <1>1
<1> QED
  <2>1. Len(L) - (i + 1) + 1 = (IF i + 1 <= Len(L) THEN Len(L) - (i + 1) + 1 ELSE 0)
    BY <1>1
  <2> DEFINE rest == SubSeq(L, i + 1, Len(L))
  <2>2. /\ rest \in Chains /\ Len(rest) = Len(L) - i
        /\ \A p \in 1..(Len(L) - i) : rest[p] = L[(i + 1) + p - 1]
    BY <1>3, <1>5, <2>1, Zenon
  <2> HIDE DEF rest
  <2>3. \A p \in 1..(Len(L) - i) : rest[p] = L[p + i]
    BY <2>2, <1>4
  <2> QED BY <2>2, <2>3 DEF rest

(* Two lists, the second of which has lost its back pointer: _ks_freeKS_Elem *)
(* with or without the elements before.                                    *)
LEMMA OrderedUnlinked ==
  ASSUME NEW L \in Chains, Ordered(L), NEW i \in 1..Len(L)
  PROVE  LET M == Unlinked(L, i) IN
         /\ M \in Chains /\ Ordered(M)
         /\ \A p \in 1..Len(M) : \E q \in 1..Len(L) : q # i /\ SameItem(M[p], L[q])
         /\ (i > 1 => L[i].back) =>
              \A q \in 1..Len(L) : q # i => \E p \in 1..Len(M) : SameItem(M[p], L[q])
<1> DEFINE front == IF L[i].back THEN SubSeq(L, 1, i - 1) ELSE <<>>
           rest0 == SubSeq(L, i + 1, Len(L))
           rest  == IF rest0 = <<>> THEN <<>> ELSE [rest0 EXCEPT ![1].back = FALSE]
           M == front \o rest
           f == IF L[i].back THEN i - 1 ELSE 0
           at == [p \in 1..Len(M) |-> IF p <= f THEN p ELSE p - f + i]
<1>0. Len(L) \in Nat /\ i \in Nat /\ i >= 1 /\ i <= Len(L)
  BY LenProperties DEF Chains
<1>1. /\ front \in Chains /\ Len(front) = f /\ f \in Nat /\ f < i
      /\ \A p \in 1..f : front[p] = L[p]
  BY <1>0, FrontPart, EmptySeq DEF Chains
<1>2. /\ rest0 \in Chains /\ Len(rest0) = Len(L) - i
      /\ \A p \in 1..(Len(L) - i) : rest0[p] = L[p + i]
  BY RestPart
<1>3. /\ rest \in Chains /\ Len(rest) = Len(L) - i
      /\ \A p \in 1..(Len(L) - i) : SameItem(rest[p], L[p + i])
      /\ rest # <<>> => ~rest[1].back
  <2> HIDE DEF rest0
  <2>1. CASE rest0 = <<>>
    BY <1>0, <1>2, <2>1, EmptySeq DEF Chains
  <2>2. CASE rest0 # <<>>
    <3> DEFINE e == [rest0[1] EXCEPT !.back = FALSE]
    <3>1. 1 \in 1..Len(rest0)
      BY <1>0, <1>2, <2>2, EmptySeq DEF Chains
    <3>2. e \in Element /\ SameItem(e, rest0[1]) /\ e.back = FALSE
      BY <1>2, <3>1, ElementFields DEF Element, SameItem
    <3>3. rest = [rest0 EXCEPT ![1] = e]
      BY <2>2
    <3> HIDE DEF e, rest
    <3>4. /\ rest \in Chains /\ Len(rest) = Len(rest0)
          /\ \A p \in 1..Len(rest0) : rest[p] = IF p = 1 THEN e ELSE rest0[p]
      BY <1>2, <3>1, <3>2, <3>3, ExceptSeq DEF Chains
    <3> QED BY <1>0, <1>2, <3>1, <3>2, <3>4 DEF SameItem
  <2> QED BY <2>1, <2>2
<1> HIDE DEF front, rest, rest0, f
<1>4. /\ M \in Chains /\ Len(M) = f + (Len(L) - i)
      /\ \A p \in 1..Len(M) : M[p] = IF p <= f THEN front[p] ELSE rest[p - f]
  <2>1. /\ M \in Chains /\ Len(M) = Len(front) + Len(rest)
        /\ \A p \in 1..(Len(front) + Len(rest)) :
             M[p] = IF p <= Len(front) THEN front[p] ELSE rest[p - Len(front)]
    BY <1>1, <1>3, ConcatProperties DEF Chains
  <2> HIDE DEF M
  <2> QED BY <2>1, <1>1, <1>3
<1>5. Unlinked(L, i) = M
  BY DEF Unlinked, front, rest, rest0
<1> HIDE DEF M
<1>6. /\ at \in [1..Len(M) -> 1..Len(L)]
      /\ \A p, q \in 1..Len(M) : p < q => at[p] < at[q]
  BY <1>0, <1>1, <1>4
<1>7. \A p \in 1..Len(M) : SameItem(M[p], L[at[p]]) /\ at[p] # i
  <2> TAKE p \in 1..Len(M)
  <2>1. CASE p <= f
    BY <1>0, <1>1, <1>4, <2>1 DEF SameItem
  <2>2. CASE ~(p <= f)
    <3>1. p - f \in 1..(Len(L) - i) /\ at[p] = (p - f) + i
      BY <1>0, <1>1, <1>4, <2>2
    <3>2. M[p] = rest[p - f]
      BY <1>4, <2>2
    <3>3. at[p] # i
      BY <1>0, <3>1
    <3> HIDE DEF at
    <3> QED BY <1>3, <3>1, <3>2, <3>3
  <2> QED BY <2>1, <2>2
<1>8. M # <<>> => ~M[1].back
  <2> SUFFICES ASSUME M # <<>> PROVE ~M[1].back
    OBVIOUS
  <2>1. 1 \in 1..Len(M)
    BY <1>0, <1>1, <1>4, EmptySeq DEF Chains
  <2>2. CASE f >= 1
    <3>1. M[1] = L[1] /\ L # <<>>
      BY <1>0, <1>1, <1>4, <2>1, <2>2
    <3> QED BY <3>1 DEF Ordered
  <2>3. CASE f = 0
    <3>1. M[1] = rest[1] /\ Len(rest) > 0
      BY <1>0, <1>1, <1>3, <1>4, <2>1, <2>3
    <3> QED BY <1>3, <3>1, EmptySeq
  <2> QED BY <1>1, <2>2, <2>3
<1>9. ASSUME i > 1 => L[i].back, NEW q \in 1..Len(L), q # i
      PROVE  \E p \in 1..Len(M) : SameItem(M[p], L[q])
  <2>1. f = i - 1
    BY <1>0, <1>9 DEF f
  <2>2. CASE q < i
    <3>1. q \in 1..Len(M) /\ at[q] = q
      BY <1>0, <1>4, <2>1, <2>2
    <3> QED BY <1>7, <3>1
  <2>3. CASE q > i
    <3>1. q - 1 \in 1..Len(M) /\ at[q - 1] = q
      BY <1>0, <1>4, <2>1, <2>3
    <3> QED BY <1>7, <3>1
  <2> QED BY <1>0, <1>9, <2>2, <2>3
<1>10. Ordered(M)
  <2> HIDE DEF at
  <2> QED BY <1>4, <1>6, <1>7, <1>8, OrderedPart DEF SameItem
<1>11. \A p \in 1..Len(M) : \E q \in 1..Len(L) : q # i /\ SameItem(M[p], L[q])
  <2> HIDE DEF at
  <2> QED BY <1>6, <1>7
<1> QED
  BY <1>4, <1>5, <1>9, <1>10, <1>11

(* The new element at the end: nothing before it is larger or the same.    *)
LEMMA OrderedAppended ==
  ASSUME NEW L \in Chains, Ordered(L), L # <<>>, NEW k \in Keys, Stop(L, k) = 0,
         NEW back \in BOOLEAN
  PROVE  LET M == Append(L, New(k, back)) IN
         /\ M \in Chains /\ Ordered(M)
         /\ Len(M) = Len(L) + 1 /\ M[Len(L) + 1] = New(k, back)
         /\ \A p \in 1..Len(L) : M[p] = L[p]
<1> DEFINE n == New(k, back)
           M == Append(L, n)
<1>1. n \in Element /\ n.asn = k.asn /\ n.ski = k.ski /\ k.asn \in Nat
  BY KeyFields
<1>2. Len(L) \in Nat /\ Len(L) >= 1
  BY EmptySeq, LenProperties DEF Chains
<1> HIDE DEF n
<1>3. /\ M \in Chains /\ Len(M) = Len(L) + 1
      /\ \A p \in 1..Len(L) : M[p] = L[p]
      /\ M[Len(L) + 1] = n
  BY <1>1, AppendProperties DEF Chains
<1> HIDE DEF M
<1>4. \A j \in 1..Len(L) : L[j].asn <= n.asn /\ ~SameName(L[j], n)
  <2> TAKE j \in 1..Len(L)
  <2>1. ~(L[j].asn > k.asn) /\ ~SameName(L[j], k) /\ L[j].asn \in Nat
    BY StopPosition, ElementFields
  <2> QED BY <1>1, <2>1 DEF SameName
<1>5. \A p, q \in 1..Len(M) : p < q => M[p].asn <= M[q].asn /\ ~SameName(M[p], M[q])
  <2> SUFFICES ASSUME NEW p \in 1..Len(M), NEW q \in 1..Len(M), p < q
               PROVE  M[p].asn <= M[q].asn /\ ~SameName(M[p], M[q])
    OBVIOUS
  <2>1. p \in 1..Len(L) /\ M[p] = L[p]
    BY <1>2, <1>3
  <2>2. CASE q = Len(L) + 1
    BY <1>3, <1>4, <2>1, <2>2
  <2>3. CASE q # Len(L) + 1
    <3>1. q \in 1..Len(L) /\ M[q] = L[q]
      BY <1>2, <1>3, <2>3
    <3> QED BY <2>1, <3>1 DEF Ordered
  <2> QED BY <2>2, <2>3
<1>6. M[1] = L[1]
  BY <1>2, <1>3
<1> QED
  BY <1>3, <1>5, <1>6 DEF Ordered, M, n

(* The new element before the first larger one, which is where a walk for  *)
(* a key that is not there stops.                                          *)
LEMMA OrderedInserted ==
  ASSUME NEW L \in Chains, Ordered(L), NEW k \in Keys, Stop(L, k) # 0, ~Known(L, k)
  PROVE  LET i == Stop(L, k)
             front == IF L[i].back THEN SubSeq(L, 1, i - 1) ELSE <<>>
             rest  == <<[L[i] EXCEPT !.back = TRUE]>> \o SubSeq(L, i + 1, Len(L))
             M == front \o <<New(k, L[i].back)>> \o rest
         IN  /\ M \in Chains /\ Ordered(M)
             /\ \A p \in 1..Len(M) : \/ SameItem(M[p], New(k, L[i].back))
                                     \/ \E q \in 1..Len(L) : SameItem(M[p], L[q])
             /\ \E p \in 1..Len(M) : SameItem(M[p], New(k, L[i].back))
             /\ (i > 1 => L[i].back) =>
                  \A q \in 1..Len(L) : \E p \in 1..Len(M) : SameItem(M[p], L[q])
<1> DEFINE i == Stop(L, k)
           front == IF L[i].back THEN SubSeq(L, 1, i - 1) ELSE <<>>
           e == [L[i] EXCEPT !.back = TRUE]
           rest0 == SubSeq(L, i + 1, Len(L))
           rest == <<e>> \o rest0
           n == New(k, L[i].back)
           start == front \o <<n>>
           M == start \o rest
           f == IF L[i].back THEN i - 1 ELSE 0
<1>0. Len(L) \in Nat /\ i \in Nat /\ i >= 1 /\ i <= Len(L) /\ i \in 1..Len(L)
  BY StopPosition, LenProperties DEF Chains
<1>a. \A j \in 1..(i - 1) : ~(L[j].asn > k.asn) /\ ~SameName(L[j], k)
  BY StopPosition
<1>b. L[i].asn > k.asn
  BY StopPosition DEF Known
<1>c. n \in Element /\ n.asn = k.asn /\ n.ski = k.ski /\ n.back = L[i].back /\ k.asn \in Nat
  BY <1>0, KeyFields, ElementFields
<1> HIDE DEF i, n
<1>1. /\ front \in Chains /\ Len(front) = f /\ f \in Nat /\ f < i
      /\ \A p \in 1..f : front[p] = L[p]
  BY <1>0, FrontPart, EmptySeq DEF Chains
<1>d. /\ f = 0 => ~L[i].back
      /\ f > 0 => L[i].back
  BY <1>0, BackNotFirst
<1>2. /\ rest0 \in Chains /\ Len(rest0) = Len(L) - i
      /\ \A p \in 1..(Len(L) - i) : rest0[p] = L[p + i]
  BY <1>0, RestPart
<1>3. e \in Element /\ SameItem(e, L[i])
  BY <1>0, ElementFields DEF Element, SameItem
<1> HIDE DEF front, rest0, e, f
<1>4. /\ rest \in Chains /\ Len(rest) = Len(L) - i + 1
      /\ \A p \in 1..(Len(L) - i + 1) : rest[p] = IF p = 1 THEN e ELSE L[p - 1 + i]
  <2>1. <<e>> \in Chains /\ Len(<<e>>) = 1 /\ <<e>>[1] = e
    BY <1>3 DEF Chains
  <2>2. /\ rest \in Chains /\ Len(rest) = 1 + Len(rest0)
        /\ \A p \in 1..(1 + Len(rest0)) : rest[p] = IF p <= 1 THEN <<e>>[p] ELSE rest0[p - 1]
    BY <2>1, <1>2, ConcatProperties DEF Chains
  <2> HIDE DEF rest
  <2>3. ASSUME NEW p \in 1..(Len(L) - i + 1)
        PROVE  rest[p] = IF p = 1 THEN e ELSE L[p - 1 + i]
    <3>1. CASE p = 1
      BY <1>0, <1>2, <2>1, <2>2, <3>1
    <3>2. CASE p # 1
      <4>1. p - 1 \in 1..(Len(L) - i)
        BY <1>0, <3>2
      <4>2. rest[p] = rest0[p - 1]
        BY <1>0, <1>2, <2>2, <3>2
      <4> QED BY <1>2, <4>1, <4>2, <3>2
    <3> QED BY <3>1, <3>2
  <2>4. Len(rest) = Len(L) - i + 1
    BY <1>0, <1>2, <2>2
  <2> QED BY <2>2, <2>3, <2>4
<1> HIDE DEF rest
<1>5. /\ start \in Chains /\ Len(start) = f + 1
      /\ \A p \in 1..(f + 1) : start[p] = IF p <= f THEN L[p] ELSE n
  <2>1. <<n>> \in Chains /\ Len(<<n>>) = 1 /\ <<n>>[1] = n
    BY <1>c DEF Chains
  <2>2. /\ start \in Chains /\ Len(start) = Len(front) + 1
        /\ \A p \in 1..(Len(front) + 1) :
             start[p] = IF p <= Len(front) THEN front[p] ELSE <<n>>[p - Len(front)]
    BY <2>1, <1>1, ConcatProperties DEF Chains
  <2> HIDE DEF start
  <2>3. ASSUME NEW p \in 1..(f + 1)
        PROVE  start[p] = IF p <= f THEN L[p] ELSE n
    <3>1. CASE p <= f
      BY <1>1, <2>2, <3>1
    <3>2. CASE ~(p <= f)
      <4>1. p - f = 1
        BY <1>1, <3>2
      <4> QED BY <1>1, <2>1, <2>2, <3>2, <4>1
    <3> QED BY <3>1, <3>2
  <2> QED BY <1>1, <2>2, <2>3
<1> HIDE DEF start
<1>6. /\ M \in Chains /\ Len(M) = f + 1 + (Len(L) - i + 1)
      /\ \A p \in 1..Len(M) : M[p] = IF p <= f + 1 THEN start[p] ELSE rest[p - (f + 1)]
  <2>1. /\ M \in Chains /\ Len(M) = Len(start) + Len(rest)
        /\ \A p \in 1..(Len(start) + Len(rest)) :
             M[p] = IF p <= Len(start) THEN start[p] ELSE rest[p - Len(start)]
    BY <1>4, <1>5, ConcatProperties DEF Chains
  <2> HIDE DEF M
  <2> QED BY <2>1, <1>4, <1>5
<1> HIDE DEF M
(* Before the new element: elements not larger; behind it: larger ones.    *)
<1>7. ASSUME NEW p \in 1..Len(M)
      PROVE  \/ p <= f /\ p < i /\ p \in 1..Len(L) /\ M[p] = L[p]
             \/ p = f + 1 /\ M[p] = n
             \/ /\ p > f + 1 /\ p - f - 2 + i >= i /\ p - f - 2 + i \in 1..Len(L)
                /\ SameItem(M[p], L[p - f - 2 + i])
  <2>0. p \in Nat /\ p >= 1 /\ p <= f + 1 + (Len(L) - i + 1)
    BY <1>0, <1>1, <1>6
  <2>1. CASE p <= f + 1
    <3>1. M[p] = start[p] /\ p \in 1..(f + 1)
      BY <1>1, <1>6, <2>0, <2>1
    <3>2. M[p] = IF p <= f THEN L[p] ELSE n
      BY <1>5, <3>1
    <3>3. p <= f => p < i /\ p \in 1..Len(L)
      BY <1>0, <1>1, <2>0
    <3>4. ~(p <= f) => p = f + 1
      BY <1>1, <2>0, <2>1
    <3> QED BY <3>2, <3>3, <3>4
  <2>2. CASE p > f + 1
    <3>1. /\ p - (f + 1) \in 1..(Len(L) - i + 1)
          /\ p - (f + 1) - 1 + i = p - f - 2 + i
          /\ p - f - 2 + i >= i /\ p - f - 2 + i \in 1..Len(L)
      BY <1>0, <1>1, <2>0, <2>2
    <3>2. M[p] = rest[p - (f + 1)]
      BY <1>1, <1>6, <2>0, <2>2
    <3>3. CASE p - (f + 1) = 1
      <4>1. M[p] = e /\ p - f - 2 + i = i
        BY <1>0, <1>1, <1>4, <3>1, <3>2, <3>3
      <4> QED BY <1>3, <2>2, <3>1, <4>1
    <3>4. CASE p - (f + 1) # 1
      <4>1. M[p] = L[p - (f + 1) - 1 + i]
        BY <1>4, <3>1, <3>2, <3>4
      <4> QED BY <2>2, <3>1, <4>1 DEF SameItem
    <3> QED BY <3>3, <3>4
  <2> QED BY <1>1, <1>6, <2>1, <2>2
<1>8. \A j \in 1..Len(L) :
        /\ L[j].asn \in Nat
        /\ j < i => L[j].asn <= k.asn /\ ~SameName(L[j], k)
        /\ j >= i => L[j].asn > k.asn
  <2> TAKE j \in 1..Len(L)
  <2>1. L[j].asn \in Nat /\ L[i].asn \in Nat
    BY <1>0, ElementFields
  <2>2. ASSUME j < i PROVE L[j].asn <= k.asn /\ ~SameName(L[j], k)
    BY <1>0, <1>a, <1>c, <2>1, <2>2
  <2>3. ASSUME j >= i PROVE L[j].asn > k.asn
    <3>1. CASE j = i
      BY <1>b, <3>1
    <3>2. CASE j > i
      <4>1. L[i].asn <= L[j].asn
        BY <1>0, <3>2 DEF Ordered
      <4> QED BY <1>b, <1>c, <2>1, <4>1
    <3> QED BY <1>0, <2>3, <3>1, <3>2
  <2> QED BY <2>1, <2>2, <2>3
<1>9. \A p, q \in 1..Len(M) : p < q => M[p].asn <= M[q].asn /\ ~SameName(M[p], M[q])
  <2> SUFFICES ASSUME NEW p \in 1..Len(M), NEW q \in 1..Len(M), p < q
               PROVE  M[p].asn <= M[q].asn /\ ~SameName(M[p], M[q])
    OBVIOUS
  <2> DEFINE s == p - f - 2 + i
             t == q - f - 2 + i
  <2>0. p \in Nat /\ q \in Nat
    BY <1>0, <1>1, <1>6
  <2>1. CASE p <= f
    <3>1. p < i /\ p \in 1..Len(L) /\ M[p] = L[p]
      BY <1>1, <1>7, <2>0, <2>1
    <3>2. L[p].asn <= k.asn /\ ~SameName(L[p], k) /\ L[p].asn \in Nat
      BY <1>8, <3>1
    <3>3. CASE q <= f
      <4>1. q \in 1..Len(L) /\ M[q] = L[q]
        BY <1>1, <1>7, <2>0, <3>3
      <4> QED BY <3>1, <4>1 DEF Ordered
    <3>4. CASE q = f + 1
      <4>1. M[q] = n
        BY <1>1, <1>7, <3>4
      <4> QED BY <1>c, <3>1, <3>2, <4>1 DEF SameName
    <3>5. CASE q > f + 1
      <4>1. t \in 1..Len(L) /\ t >= i /\ M[q].asn = L[t].asn
        BY <1>1, <1>7, <2>0, <3>5 DEF SameItem
      <4>2. L[t].asn > k.asn /\ L[t].asn \in Nat
        BY <1>8, <4>1
      <4> QED BY <1>c, <3>1, <3>2, <4>1, <4>2 DEF SameName
    <3> QED BY <1>1, <2>0, <3>3, <3>4, <3>5
  <2>2. CASE p = f + 1
    <3>1. M[p] = n
      BY <1>1, <1>7, <2>2
    <3>2. t \in 1..Len(L) /\ t >= i /\ M[q].asn = L[t].asn
      BY <1>1, <1>7, <2>0, <2>2 DEF SameItem
    <3>3. L[t].asn > k.asn /\ L[t].asn \in Nat
      BY <1>8, <3>2
    <3> QED BY <1>c, <3>1, <3>2, <3>3 DEF SameName
  <2>3. CASE p > f + 1
    <3>1. /\ s \in 1..Len(L) /\ M[p].asn = L[s].asn /\ M[p].ski = L[s].ski
          /\ t \in 1..Len(L) /\ M[q].asn = L[t].asn /\ M[q].ski = L[t].ski
      BY <1>1, <1>7, <2>0, <2>3 DEF SameItem
    <3>2. s < t
      BY <1>0, <1>1, <2>0
    <3> QED BY <3>1, <3>2 DEF Ordered, SameName
  <2> QED BY <1>1, <2>0, <2>1, <2>2, <2>3
<1>10. ~M[1].back
  <2>1. 1 \in 1..Len(M)
    BY <1>0, <1>1, <1>6
  <2>2. CASE f >= 1
    <3>1. M[1] = L[1] /\ L # <<>>
      BY <1>0, <1>1, <1>7, <2>1, <2>2, EmptySeq
    <3> QED BY <3>1 DEF Ordered
  <2>3. CASE f = 0
    BY <1>c, <1>d, <1>7, <2>1, <2>3
  <2> QED BY <1>1, <2>2, <2>3
<1>11. \A p \in 1..Len(M) : SameItem(M[p], n) \/ \E q \in 1..Len(L) : SameItem(M[p], L[q])
  BY <1>7 DEF SameItem
<1>12. ASSUME i > 1 => L[i].back, NEW q \in 1..Len(L)
       PROVE  \E p \in 1..Len(M) : SameItem(M[p], L[q])
  <2>1. f = i - 1
    BY <1>0, <1>12 DEF f
  <2>2. CASE q < i
    <3>1. q \in 1..Len(M) /\ q <= f
      BY <1>0, <1>6, <2>1, <2>2
    <3>2. ~(q = f + 1) /\ ~(q > f + 1)
      BY <1>0, <1>1, <3>1
    <3>3. M[q] = L[q]
      BY <1>7, <3>1, <3>2
    <3> QED BY <3>1, <3>3 DEF SameItem
  <2>3. CASE q >= i
    <3>1. q + 1 \in 1..Len(M) /\ q + 1 > f + 1 /\ (q + 1) - f - 2 + i = q
      BY <1>0, <1>6, <2>1, <2>3
    <3>2. ~(q + 1 <= f) /\ q + 1 # f + 1
      BY <1>0, <1>1, <3>1
    <3>3. SameItem(M[q + 1], L[(q + 1) - f - 2 + i])
      BY <1>7, <3>1, <3>2
    <3> QED BY <3>1, <3>3
  <2> QED BY <1>0, <2>2, <2>3
<1>13. Ordered(M)
  BY <1>6, <1>9, <1>10 DEF Ordered
<1>14. \E p \in 1..Len(M) : SameItem(M[p], n)
  <2>1. f + 1 \in 1..Len(M) /\ ~(f + 1 <= f) /\ ~(f + 1 > f + 1)
    BY <1>0, <1>1, <1>6
  <2>2. M[f + 1] = n
    BY <1>7, <2>1
  <2> QED BY <2>1, <2>2 DEF SameItem
<1> QED
  BY <1>6, <1>11, <1>12, <1>13, <1>14 DEF M, start, rest, rest0, front, e, n, i

Rekeyed(L, i, ks) == [L EXCEPT ![i].keys = ks]

(* The keys of an element do not matter to the order.                      *)
LEMMA OrderedRekeyed ==
  ASSUME NEW L \in Chains, Ordered(L), NEW i \in 1..Len(L),
         NEW ks \in Seq(Materials \cup {Hole})
  PROVE  LET M == Rekeyed(L, i, ks) IN
         /\ M \in Chains /\ Ordered(M) /\ Len(M) = Len(L)
         /\ M[i].asn = L[i].asn /\ M[i].ski = L[i].ski /\ M[i].keys = ks
         /\ \A p \in 1..Len(L) : p # i => M[p] = L[p]
<1> DEFINE e == [L[i] EXCEPT !.keys = ks]
           M == [L EXCEPT ![i] = e]
           at == [p \in 1..Len(M) |-> p]
<1>1. /\ e \in Element /\ e.asn = L[i].asn /\ e.ski = L[i].ski /\ e.back = L[i].back
      /\ e.keys = ks
  BY ElementFields DEF Element
<1> HIDE DEF e
<1>2. /\ M \in Chains /\ Len(M) = Len(L)
      /\ \A p \in 1..Len(L) : M[p] = IF p = i THEN e ELSE L[p]
  BY <1>1, ExceptSeq DEF Chains
<1>3. M # <<>> => ~M[1].back
  <2>1. M # <<>> => L # <<>> /\ 1 \in 1..Len(L)
    BY <1>2, EmptySeq, LenProperties DEF Chains
  <2> HIDE DEF M
  <2> QED BY <1>1, <1>2, <2>1 DEF Ordered
<1>4. Rekeyed(L, i, ks) = M
  BY DEF e, Rekeyed
<1> HIDE DEF M
<1>5. \A p, q \in 1..Len(M) : p < q => at[p] < at[q]
  OBVIOUS
<1>6. at \in [1..Len(M) -> 1..Len(L)]
  BY <1>2
<1>7. \A p \in 1..Len(M) : M[p].asn = L[at[p]].asn /\ M[p].ski = L[at[p]].ski
  BY <1>1, <1>2
<1> HIDE DEF at
<1>8. Ordered(M)
  BY <1>2, <1>3, <1>5, <1>6, <1>7, OrderedPart
<1> QED
  BY <1>1, <1>2, <1>4, <1>8

-----------------------------------------------------------------------------
Inv == HeadTyped /\ SortedUnique

LEMMA SortedLists ==
  ASSUME HeadTyped
  PROVE  SortedUnique <=> \A b \in Buckets : Ordered(head[b])
BY DEF SortedUnique, Ordered

(* One bucket gets another list.                                           *)
LEMMA OneListChanged ==
  ASSUME Inv, NEW b \in Buckets, NEW M \in Chains, Ordered(M), head' = [head EXCEPT ![b] = M]
  PROVE  Inv'
<1>1. HeadTyped'
  BY DEF Inv, HeadTyped
<1>2. \A c \in Buckets : head'[c] = IF c = b THEN M ELSE head[c]
  BY DEF Inv, HeadTyped
<1>3. \A c \in Buckets : Ordered(head'[c])
  BY <1>2, SortedLists DEF Inv
<1> QED
  BY <1>1, <1>3 DEF Inv, SortedUnique, Ordered

LEMMA NothingChanged ==
  ASSUME Inv, head' = head
  PROVE  Inv'
BY DEF Inv, HeadTyped, SortedUnique

(* All lists are given up.                                                 *)
LEMMA Emptied ==
  ASSUME head' = [b \in Buckets |-> <<>>]
  PROVE  Inv'
<1>1. \A b \in Buckets : head'[b] = <<>>
  OBVIOUS
<1>2. Len(<<>>) = 0 /\ <<>> \in Chains
  BY EmptySeq DEF Chains
<1> QED
  BY <1>1, <1>2 DEF Inv, HeadTyped, SortedUnique

(* ks_storeKey: each of its ways to link the new element.                  *)
LEMMA SortedStore ==
  ASSUME Inv, NEW k \in Keys,
         StoreFirst(k) \/ StoreLast(k) \/ StoreBefore(k) \/ StoreKnown(k)
  PROVE  Inv'
<1> DEFINE L == head[Home(k)]
           i == Stop(L, k)
<1>1. Home(k) \in Buckets /\ L \in Chains /\ Ordered(L)
  BY KeyFields, SortedLists DEF Inv, HeadTyped
<1>2. CASE head' = head
  BY <1>2, NothingChanged
<1>3. CASE StoreFirst(k) /\ head' # head
  <2> DEFINE e == New(k, FALSE)
  <2>1. head' = [head EXCEPT ![Home(k)] = <<e>>]
    BY <1>3 DEF StoreFirst
  <2>2. e \in Element /\ e.back = FALSE
    BY KeyFields
  <2> HIDE DEF e
  <2>3. <<e>> \in Chains
    BY <2>2 DEF Chains
  <2>4. Len(<<e>>) = 1 /\ <<e>>[1] = e
    OBVIOUS
  <2>5. \A p, q \in 1..Len(<<e>>) : ~(p < q)
    BY <2>4
  <2>6. Ordered(<<e>>)
    BY <2>2, <2>4, <2>5 DEF Ordered
  <2> QED BY <1>1, <2>1, <2>3, <2>6, OneListChanged
<1>4. CASE StoreLast(k) /\ head' # head
  <2> DEFINE back == Last(L).asn # k.asn
             M == Append(L, New(k, back))
  <2>1. head' = [head EXCEPT ![Home(k)] = M] /\ L # <<>> /\ Stop(L, k) = 0
    BY <1>4 DEF StoreLast
  <2>2. back \in BOOLEAN
    OBVIOUS
  <2> HIDE DEF back
  <2>3. M \in Chains /\ Ordered(M)
    BY <1>1, <2>1, <2>2, OrderedAppended
  <2> QED BY <1>1, <2>1, <2>3, OneListChanged
<1>5. CASE StoreBefore(k)
  <2> DEFINE front == IF L[i].back THEN SubSeq(L, 1, i - 1) ELSE <<>>
             rest  == <<[L[i] EXCEPT !.back = TRUE]>> \o SubSeq(L, i + 1, Len(L))
             M == front \o <<New(k, L[i].back)>> \o rest
  <2>1. head' = [head EXCEPT ![Home(k)] = M] /\ Stop(L, k) # 0 /\ ~Known(L, k)
    BY <1>5 DEF StoreBefore
  <2>2. M \in Chains /\ Ordered(M)
    BY <1>1, <2>1, OrderedInserted
  <2> HIDE DEF M
  <2> QED BY <1>1, <2>1, <2>2, OneListChanged
<1>6. CASE StoreKnown(k) /\ head' # head
  <2> DEFINE ks == Append(L[i].keys, k.data)
             M == Rekeyed(L, i, ks)
  <2>1. head' = [head EXCEPT ![Home(k)][i].keys = Append(@, k.data)] /\ i # 0
    BY <1>6 DEF StoreKnown, Known
  <2>2. head' = [head EXCEPT ![Home(k)] = M]
    BY <2>1, <1>1 DEF Rekeyed
  <2>3. i \in 1..Len(L)
    BY <1>1, <2>1, StopPosition, LenProperties DEF Chains
  <2>4. ks \in Seq(Materials \cup {Hole})
    <3>1. k.data \in Materials
      BY KeyInputs DEF Key
    <3> QED BY <1>1, <2>3, <3>1, ElementFields, AppendProperties
  <2> HIDE DEF ks, i
  <2>5. M \in Chains /\ Ordered(M)
    BY <1>1, <2>3, <2>4, OrderedRekeyed
  <2> QED BY <1>1, <2>2, <2>5, OneListChanged
<1> QED
  BY <1>2, <1>3, <1>4, <1>5, <1>6

(* A scan that found something found it in the array.                      *)
LEMMA ScanPosition ==
  ASSUME NEW e, e.keys \in Seq(Materials \cup {Hole}), NEW d, Scan(e, d) # 0
  PROVE  Scan(e, d) \in 1..Len(e.keys) /\ e.keys[Scan(e, d)] \in {Hole, d}
<1> DEFINE I == {p \in 1..Len(e.keys) : e.keys[p] \in {Hole, d}}
<1>1. Scan(e, d) = IF I # {} THEN Min(I) ELSE 0
  BY DEF Scan, SelectInSeq
<1>2. I \in SUBSET Nat
  BY LenProperties
<1>3. I # {} => Min(I) \in I
  <2> HIDE DEF I
  <2> QED BY <1>2, FirstPosition
<1> QED
  BY <1>1, <1>3

LEMMA ScanMisses ==
  ASSUME NEW e, e.keys \in Seq(Materials \cup {Hole}), NEW d, Scan(e, d) = 0
  PROVE  \A p \in 1..Len(e.keys) : e.keys[p] \notin {Hole, d}
<1> DEFINE I == {p \in 1..Len(e.keys) : e.keys[p] \in {Hole, d}}
<1>1. Scan(e, d) = IF I # {} THEN Min(I) ELSE 0
  BY DEF Scan, SelectInSeq
<1>2. I \in SUBSET Nat /\ 0 \notin I
  BY LenProperties
<1>3. I # {} => Min(I) \in I
  <2> HIDE DEF I
  <2> QED BY <1>2, FirstPosition
<1>4. I = {}
  BY <1>1, <1>2, <1>3
<1> QED
  BY <1>4

(* The array of an element's keys, less one.                               *)
LEMMA WithoutType ==
  ASSUME NEW ks \in Seq(Materials \cup {Hole}), ks # <<>>, NEW j \in 1..Len(ks)
  PROVE  Without(ks, j) \in Seq(Materials \cup {Hole})
<1>1. Len(ks) - 1 \in Nat /\ Len(ks) \in Nat
  BY EmptySeq, LenProperties
<1>2. ASSUME NEW p \in 1..(Len(ks) - 1)
      PROVE  Without(ks, j)[p] \in Materials \cup {Hole}
  <2>1. Without(ks, j)[p] \in {ks[p], ks[p + 1], Hole} /\ p \in 1..Len(ks) /\ p + 1 \in 1..Len(ks)
    BY <1>1 DEF Without
  <2> QED BY <2>1, ElementOfSeq
<1>3. Without(ks, j) \in [1..(Len(ks) - 1) -> Materials \cup {Hole}]
  BY <1>2 DEF Without
<1> QED
  BY <1>1, <1>3

(* ks_delKey: the element goes, or one of its keys.                        *)
LEMMA SortedDelete ==
  ASSUME Inv, NEW k \in Keys, DeleteAll(k) \/ DeleteOne(k)
  PROVE  Inv'
<1> DEFINE L == head[Home(k)]
           i == Stop(L, k)
<1>1. Home(k) \in Buckets /\ L \in Chains /\ Ordered(L)
  BY KeyFields, SortedLists DEF Inv, HeadTyped
<1>2. i \in 1..Len(L)
  <2>1. i # 0
    BY DEF DeleteAll, DeleteOne, Known
  <2> QED BY <1>1, <2>1, StopPosition, LenProperties DEF Chains
<1>3. CASE head' = [head EXCEPT ![Home(k)] = Unlinked(L, i)]
  <2>1. Unlinked(L, i) \in Chains /\ Ordered(Unlinked(L, i))
    BY <1>1, <1>2, OrderedUnlinked
  <2> QED BY <1>1, <1>3, <2>1, OneListChanged
<1>4. CASE DeleteOne(k) /\ Len(L[i].keys) # 1
  <2> DEFINE j == Scan(L[i], k.data)
             ks == Without(L[i].keys, j)
             M == Rekeyed(L, i, ks)
  <2>1. /\ head' = [head EXCEPT ![Home(k)] = [L EXCEPT ![i].keys = Without(@, j)]]
        /\ j # 0
    BY <1>4 DEF DeleteOne
  <2>2. head' = [head EXCEPT ![Home(k)] = M]
    BY <2>1 DEF Rekeyed
  <2>3. L[i].keys \in Seq(Materials \cup {Hole})
    BY <1>1, <1>2, ElementFields
  <2>4. j \in 1..Len(L[i].keys)
    BY <2>1, <2>3, ScanPosition
  <2>5. ks \in Seq(Materials \cup {Hole})
    <3>1. L[i].keys # <<>>
      BY <2>3, <2>4, EmptySeq
    <3> HIDE DEF i, j
    <3> QED BY <2>3, <2>4, <3>1, WithoutType
  <2> HIDE DEF ks, i
  <2>6. M \in Chains /\ Ordered(M)
    BY <1>1, <1>2, <2>5, OrderedRekeyed
  <2> QED BY <1>1, <2>2, <2>6, OneListChanged
<1> QED
  BY <1>3, <1>4 DEF DeleteAll, DeleteOne

(* A call that changes the lists: one of the ways of ks_storeKey or of     *)
(* ks_delKey.                                                              *)
CallFor(k) ==
  StoreKey(k) \/ StoreCrash(k) \/ DeleteName(k) \/ DeleteKey(k) \/ DeleteCrash(k)

LEMMA CallsFor ==
  ASSUME NEW k \in Keys, CallFor(k)
  PROVE  \/ UNCHANGED <<head, size>> /\ (crashed' = TRUE \/ UNCHANGED crashed)
         \/ StoreFirst(k) \/ StoreLast(k) \/ StoreBefore(k) \/ StoreKnown(k)
         \/ DeleteAll(k) \/ DeleteOne(k)
BY DEF CallFor, StoreKey, StoreCrash, DeleteName, DeleteKey, DeleteCrash, DeleteNothing, storage

LEMMA InvHolds == Spec => []Inv
<1>1. Init => Inv
  BY Emptied, EmptySeq DEF Init, Inv, HeadTyped, SortedUnique, Chains
<1>2. Inv /\ [Next]_vars => Inv'
  <2> SUFFICES ASSUME Inv, [Next]_vars PROVE Inv'
    OBVIOUS
  <2>1. CASE UNCHANGED vars
    BY <2>1, NothingChanged DEF vars, storage
  <2>2. ASSUME NEW k \in Keys, CallFor(k) PROVE Inv'
    BY <2>2, CallsFor, NothingChanged, SortedStore, SortedDelete
  <2>3. CASE \E source \in Sources : CleanKeys(source)
    BY <2>3, NothingChanged, Emptied DEF CleanKeys
  <2>4. CASE Reinit
    BY <2>4, Emptied DEF Reinit
  <2> QED BY <2>1, <2>2, <2>3, <2>4 DEF Next, CallFor
<1> QED
  BY <1>1, <1>2, PTL DEF Spec

(* The walks of store, delete and get rely on lists that are ordered by AS *)
(* number, have one element per AS number and SKI and a first element      *)
(* without back pointer.  So they are, for any keys, whatever is stored,   *)
(* deleted and lost.                                                       *)
THEOREM ListsStaySorted == Spec => []SortedUnique
<1>1. Inv => SortedUnique
  BY DEF Inv
<1> QED
  BY <1>1, InvHolds, PTL

-----------------------------------------------------------------------------
(***************************************************************************)
(* What the elements hold, and the count of keys.                          *)
(***************************************************************************)

NoTwins(ks) ==
  \A p, q \in 1..Len(ks) : p # q /\ ks[p] = ks[q] => ks[p] = Hole

(* Each key of an element was registered under the element's name, and the *)
(* element holds it once.                                                  *)
FromKeys(e) ==
  /\ \A j \in 1..Len(e.keys) : e.keys[j] # Hole =>
       \E k \in Keys : SameName(e, k) /\ k.data = e.keys[j]
  /\ NoTwins(e.keys)

(* A key that is taken out of an array is not in what is left of it.       *)
LEMMA WithoutTwins ==
  ASSUME NEW ks \in Seq(Materials \cup {Hole}), NoTwins(ks), NEW j \in 1..Len(ks)
  PROVE  /\ NoTwins(Without(ks, j))
         /\ ks[j] # Hole => \A p \in 1..Len(Without(ks, j)) : Without(ks, j)[p] # ks[j]
<1> DEFINE W == Without(ks, j)
           from(p) == IF p < j THEN p ELSE p + 1
<1>1. Len(ks) \in Nat /\ j \in Nat /\ Len(ks) - 1 \in Nat
  BY LenProperties
<1>2. Len(W) = Len(ks) - 1
  BY <1>1 DEF Without
<1>3. ASSUME NEW p \in 1..Len(W)
      PROVE  W[p] = Hole \/ W[p] = ks[from(p)]
  <2>1. p \in 1..(Len(ks) - 1)
    BY <1>2
  <2>2. W[p] = IF p < j THEN ks[p] ELSE IF p < Len(ks) - 1 THEN ks[p + 1] ELSE Hole
    BY <2>1 DEF Without
  <2> HIDE DEF W
  <2> QED BY <2>2
<1> HIDE DEF W
<1>4. \A p \in 1..Len(W) : from(p) \in 1..Len(ks) /\ from(p) # j
  BY <1>1, <1>2
<1>5. \A p, q \in 1..Len(W) : p # q => from(p) # from(q)
  BY <1>1, <1>2
<1> HIDE DEF from
<1>6. NoTwins(W)
  BY <1>3, <1>4, <1>5 DEF NoTwins
<1>7. ks[j] # Hole => \A p \in 1..Len(W) : W[p] # ks[j]
  BY <1>3, <1>4 DEF NoTwins
<1> QED
  BY <1>6, <1>7 DEF W

(* Where the keys of a list are, by the names of their elements: in an     *)
(* ordered list no two elements share one.                                 *)
Slots(L) == UNION {{<<L[i].asn, L[i].ski>>} \X (1..Len(L[i].keys)) : i \in 1..Len(L)}
AllSlots == UNION {{b} \X Slots(head[b]) : b \in Buckets}

Genuine == \A b \in Buckets : \A i \in 1..Len(head[b]) : FromKeys(head[b][i])

(* Elements that got lost were counted and are not counted back.           *)
Counted == IsFiniteSet(AllSlots) /\ size \in Nat /\ Cardinality(AllSlots) <= size

CountInv == Genuine /\ Counted /\ crashed \in BOOLEAN

LEMMA SlotOf ==
  ASSUME NEW L, NEW x
  PROVE  x \in Slots(L) <=>
           \E i \in 1..Len(L) : \E j \in 1..Len(L[i].keys) : x = <<<<L[i].asn, L[i].ski>>, j>>
BY DEF Slots

(* What is the same item has the same slots and the same origin.           *)
LEMMA ItemSlots ==
  ASSUME NEW L, NEW M,
         \A p \in 1..Len(M) : \E q \in 1..Len(L) : SameItem(M[p], L[q])
  PROVE  Slots(M) \subseteq Slots(L)
<1> SUFFICES ASSUME NEW x \in Slots(M) PROVE x \in Slots(L)
  OBVIOUS
<1>1. PICK p \in 1..Len(M) : \E j \in 1..Len(M[p].keys) : x = <<<<M[p].asn, M[p].ski>>, j>>
  BY SlotOf
<1>2. PICK q \in 1..Len(L) : SameItem(M[p], L[q])
  OBVIOUS
<1>3. \E j \in 1..Len(L[q].keys) : x = <<<<L[q].asn, L[q].ski>>, j>>
  BY <1>1, <1>2 DEF SameItem
<1> QED BY <1>3, SlotOf

LEMMA ItemOrigin ==
  ASSUME NEW d, NEW e, SameItem(d, e), FromKeys(e)
  PROVE  FromKeys(d)
BY DEF SameItem, FromKeys, SameName

(* The slots of the storage when one bucket has another list.              *)
LEMMA SlotsNext ==
  ASSUME Inv, NEW b \in Buckets, NEW M, head' = [head EXCEPT ![b] = M], NEW N, NEW G,
         Slots(M) \subseteq (Slots(head[b]) \ G) \cup N
  PROVE  AllSlots' \subseteq (AllSlots \ ({b} \X (G \ N))) \cup ({b} \X N)
<1>1. \A c \in Buckets : head'[c] = IF c = b THEN M ELSE head[c]
  BY DEF Inv, HeadTyped
<1>2. AllSlots' = UNION {{c} \X Slots(head'[c]) : c \in Buckets}
  BY DEF AllSlots, Slots
<1> SUFFICES ASSUME NEW x \in AllSlots'
             PROVE  x \in (AllSlots \ ({b} \X (G \ N))) \cup ({b} \X N)
  OBVIOUS
<1>3. PICK c \in Buckets : x \in {c} \X Slots(head'[c])
  BY <1>2
<1>4. PICK y \in Slots(head'[c]) : x = <<c, y>>
  BY <1>3
<1>5. CASE c = b
  <2>1. y \in (Slots(head[b]) \ G) \cup N
    BY <1>1, <1>4, <1>5
  <2>2. CASE y \in N
    BY <1>4, <1>5, <2>2
  <2>3. CASE y \in Slots(head[b]) \ G
    <3>1. <<b, y>> \in AllSlots
      BY <2>3 DEF AllSlots
    <3> QED BY <1>4, <1>5, <2>3, <3>1
  <2> QED BY <2>1, <2>2, <2>3
<1>6. CASE c # b
  <2>1. <<c, y>> \in AllSlots
    BY <1>1, <1>4, <1>6 DEF AllSlots
  <2> QED BY <1>4, <1>6, <2>1
<1> QED BY <1>5, <1>6

-----------------------------------------------------------------------------
(* Counting                                                                *)

LEMMA CountKept ==
  ASSUME Counted, AllSlots' \subseteq AllSlots, size' \in Nat, size <= size'
  PROVE  Counted'
<1>1. IsFiniteSet(AllSlots') /\ Cardinality(AllSlots') <= Cardinality(AllSlots)
  BY FS_Subset DEF Counted
<1>2. Cardinality(AllSlots) \in Nat /\ Cardinality(AllSlots') \in Nat
  BY <1>1, FS_CardinalityType DEF Counted
<1> QED
  BY <1>1, <1>2 DEF Counted

LEMMA CountMore ==
  ASSUME Counted, NEW x, AllSlots' \subseteq AllSlots \cup {x}, size' = size + 1
  PROVE  Counted'
<1> DEFINE S == AllSlots \cup {x}
<1>0. IsFiniteSet(AllSlots) /\ Cardinality(AllSlots) \in Nat
  BY FS_CardinalityType DEF Counted
<1>1. IsFiniteSet(S) /\ Cardinality(S) <= Cardinality(AllSlots) + 1
  <2>1. /\ IsFiniteSet(S)
        /\ Cardinality(S) = IF x \in AllSlots THEN Cardinality(AllSlots) ELSE Cardinality(AllSlots) + 1
    BY <1>0, FS_AddElement
  <2> HIDE DEF S
  <2> QED BY <1>0, <2>1
<1>2. Cardinality(AllSlots) \in Nat /\ Cardinality(S) \in Nat
  BY <1>1, FS_CardinalityType DEF Counted
<1>3. AllSlots' \in SUBSET S
  OBVIOUS
<1> HIDE DEF S
<1>4. IsFiniteSet(AllSlots') /\ Cardinality(AllSlots') <= Cardinality(S)
  BY <1>1, <1>3, FS_Subset
<1>5. Cardinality(AllSlots') \in Nat
  BY <1>4, FS_CardinalityType
<1> QED
  BY <1>1, <1>2, <1>4, <1>5 DEF Counted

LEMMA CountLess ==
  ASSUME Counted, NEW T \in SUBSET AllSlots, AllSlots' \subseteq AllSlots \ T,
         size' = size - Cardinality(T)
  PROVE  Counted'
<1> DEFINE S == AllSlots \ T
<1>1. IsFiniteSet(T) /\ Cardinality(T) \in Nat /\ Cardinality(T) <= Cardinality(AllSlots)
  BY FS_Subset, FS_CardinalityType DEF Counted
<1>2. IsFiniteSet(S) /\ Cardinality(S) = Cardinality(AllSlots) - Cardinality(T)
  <2>1. AllSlots \cap T = T
    OBVIOUS
  <2> QED BY <2>1, FS_Difference DEF Counted
<1>3. AllSlots' \in SUBSET S
  OBVIOUS
<1> HIDE DEF S
<1>4. IsFiniteSet(AllSlots') /\ Cardinality(AllSlots') <= Cardinality(S)
  BY <1>2, <1>3, FS_Subset
<1>5. Cardinality(AllSlots') \in Nat /\ Cardinality(AllSlots) \in Nat
  BY <1>4, FS_CardinalityType DEF Counted
<1> QED
  BY <1>1, <1>2, <1>4, <1>5 DEF Counted

(* What cleaning subtracts: the places are not more than the slots.        *)
LEMMA TotalCounted ==
  ASSUME Inv, Counted
  PROVE  Total \in Nat /\ Total <= size
<1> DEFINE P == UNION {{b} \X KeyPlaces(head[b]) : b \in Buckets}
           slot(b, i, j) == <<b, <<<<head[b][i].asn, head[b][i].ski>>, j>>>>
           f == [x \in P |-> slot(x[1], x[2][1], x[2][2])]
<1>1. \A x \in P : \E b \in Buckets : \E i \in 1..Len(head[b]) : \E j \in 1..Len(head[b][i].keys) :
        x = <<b, <<i, j>>>>
  BY DEF KeyPlaces
<1>2. \A b \in Buckets : \A i \in 1..Len(head[b]) : \A j \in 1..Len(head[b][i].keys) :
        slot(b, i, j) \in AllSlots
  BY SlotOf DEF AllSlots
<1>3. \A b \in Buckets : \A i, k \in 1..Len(head[b]) :
        head[b][i].asn = head[b][k].asn /\ head[b][i].ski = head[b][k].ski => i = k
  <2> TAKE b \in Buckets
  <2> TAKE i, k \in 1..Len(head[b])
  <2>1. Ordered(head[b]) /\ Len(head[b]) \in Nat
    BY SortedLists, LenProperties DEF Inv, HeadTyped, Chains
  <2>2. i < k \/ k < i \/ i = k
    BY <2>1
  <2> QED BY <2>1, <2>2 DEF Ordered, SameName
<1>4. f \in [P -> AllSlots]
  <2> SUFFICES ASSUME NEW x \in P PROVE f[x] \in AllSlots
    OBVIOUS
  <2>1. PICK b \in Buckets : \E i \in 1..Len(head[b]) : \E j \in 1..Len(head[b][i].keys) :
          x = <<b, <<i, j>>>>
    BY <1>1
  <2>2. PICK i \in 1..Len(head[b]) : \E j \in 1..Len(head[b][i].keys) : x = <<b, <<i, j>>>>
    BY <2>1
  <2>3. PICK j \in 1..Len(head[b][i].keys) : x = <<b, <<i, j>>>>
    BY <2>2
  <2>4. f[x] = slot(b, i, j)
    BY <2>3
  <2> QED BY <1>2, <2>4
<1>5. ASSUME NEW x \in P, NEW y \in P, f[x] = f[y]
      PROVE  x = y
  <2>1. PICK b \in Buckets : \E i \in 1..Len(head[b]) : \E j \in 1..Len(head[b][i].keys) :
          x = <<b, <<i, j>>>>
    BY <1>1
  <2>a. PICK i \in 1..Len(head[b]) : \E j \in 1..Len(head[b][i].keys) : x = <<b, <<i, j>>>>
    BY <2>1
  <2>2. PICK j \in 1..Len(head[b][i].keys) : x = <<b, <<i, j>>>>
    BY <2>a
  <2>3. PICK c \in Buckets : \E k \in 1..Len(head[c]) : \E l \in 1..Len(head[c][k].keys) :
          y = <<c, <<k, l>>>>
    BY <1>1
  <2>b. PICK k \in 1..Len(head[c]) : \E l \in 1..Len(head[c][k].keys) : y = <<c, <<k, l>>>>
    BY <2>3
  <2>4. PICK l \in 1..Len(head[c][k].keys) : y = <<c, <<k, l>>>>
    BY <2>b
  <2>5. f[x] = slot(b, i, j) /\ f[y] = slot(c, k, l)
    BY <2>2, <2>4
  <2> HIDE DEF f
  <2>6. slot(b, i, j) = slot(c, k, l)
    BY <1>5, <2>5
  <2>7. b = c /\ j = l /\ head[b][i].asn = head[c][k].asn /\ head[b][i].ski = head[c][k].ski
    BY <2>6
  <2>8. i = k
    BY <1>3, <2>7
  <2> QED BY <2>2, <2>4, <2>7, <2>8
<1> HIDE DEF P, f
<1>6. f \in Injection(P, AllSlots)
  BY <1>4, <1>5 DEF Injection, IsInjective
<1>7. IsFiniteSet(P) /\ Cardinality(P) <= Cardinality(AllSlots)
  BY <1>6, FS_Injection DEF Counted
<1>8. Cardinality(P) \in Nat /\ Cardinality(AllSlots) \in Nat
  BY <1>7, FS_CardinalityType DEF Counted
<1>9. Total = Cardinality(P)
  BY DEF Total, P
<1> QED
  BY <1>7, <1>8, <1>9 DEF Counted

-----------------------------------------------------------------------------
(* One bucket gets another list.                                           *)
LEMMA GenuineNext ==
  ASSUME Inv, Genuine, NEW b \in Buckets, NEW M, head' = [head EXCEPT ![b] = M],
         \A p \in 1..Len(M) : FromKeys(M[p])
  PROVE  Genuine'
<1>1. \A c \in Buckets : head'[c] = IF c = b THEN M ELSE head[c]
  BY DEF Inv, HeadTyped
<1>2. ASSUME NEW c \in Buckets, NEW i \in 1..Len(head'[c])
      PROVE  FromKeys(head'[c][i])
  BY <1>1 DEF Genuine
<1> QED
  BY <1>2 DEF Genuine, FromKeys, SameName, NoTwins

LEMMA CountUnchanged ==
  ASSUME CountInv, head' = head, size' = size, crashed' \in BOOLEAN
  PROVE  CountInv'
BY DEF CountInv, Genuine, Counted, AllSlots, Slots, FromKeys, SameName, NoTwins

LEMMA NothingLeft ==
  ASSUME head' = [b \in Buckets |-> <<>>], size' \in Nat, crashed' \in BOOLEAN
  PROVE  CountInv'
<1>1. \A b \in Buckets : head'[b] = <<>>
  OBVIOUS
<1>2. Len(<<>>) = 0
  OBVIOUS
<1>3. AllSlots' = {}
  BY <1>1, <1>2 DEF AllSlots, Slots
<1>4. IsFiniteSet({}) /\ Cardinality({}) = 0
  BY FS_EmptySet
<1>5. Counted'
  BY <1>3, <1>4 DEF Counted
<1>6. Genuine'
  BY <1>1, <1>2 DEF Genuine
<1> QED
  BY <1>5, <1>6 DEF CountInv

(* A list with one key more.                                               *)
LEMMA ListStored ==
  ASSUME Inv, CountInv, NEW b \in Buckets, NEW M, head' = [head EXCEPT ![b] = M],
         \A p \in 1..Len(M) : FromKeys(M[p]),
         NEW y, Slots(M) \subseteq Slots(head[b]) \cup {y},
         size' = size + 1, crashed' = crashed
  PROVE  CountInv'
<1>1. Slots(M) \subseteq (Slots(head[b]) \ {}) \cup {y}
  OBVIOUS
<1>2. AllSlots' \subseteq (AllSlots \ ({b} \X ({} \ {y}))) \cup ({b} \X {y})
  BY <1>1, SlotsNext
<1>3. AllSlots' \subseteq AllSlots \cup {<<b, y>>}
  BY <1>2
<1>4. Counted'
  BY <1>3, CountMore DEF CountInv
<1> QED
  BY <1>4, GenuineNext DEF CountInv

(* A list without n of the keys of an element.                             *)
LEMMA ListDeleted ==
  ASSUME Inv, CountInv, NEW b \in Buckets, NEW M, head' = [head EXCEPT ![b] = M],
         \A p \in 1..Len(M) : FromKeys(M[p]),
         NEW G \in SUBSET Slots(head[b]), IsFiniteSet(G),
         Slots(M) \subseteq Slots(head[b]) \ G,
         size' = size - Cardinality(G), crashed' = crashed
  PROVE  CountInv'
<1> DEFINE T == {b} \X G
<1>1. Slots(M) \subseteq (Slots(head[b]) \ G) \cup {}
  OBVIOUS
<1>2. AllSlots' \subseteq (AllSlots \ ({b} \X (G \ {}))) \cup ({b} \X {})
  BY <1>1, SlotsNext
<1>3. AllSlots' \subseteq AllSlots \ T
  BY <1>2
<1>4. T \in SUBSET AllSlots
  BY DEF AllSlots
<1>5. Cardinality(T) = Cardinality(G)
  <2>1. IsFiniteSet({b}) /\ Cardinality({b}) = 1
    BY FS_Singleton
  <2>2. Cardinality(T) = Cardinality({b}) * Cardinality(G)
    BY <2>1, FS_Product
  <2>3. Cardinality(G) \in Nat
    BY FS_CardinalityType
  <2> QED BY <2>1, <2>2, <2>3
<1> HIDE DEF T
<1>6. Counted'
  BY <1>3, <1>4, <1>5, CountLess DEF CountInv
<1> QED
  BY <1>6, GenuineNext DEF CountInv

(* The new element holds one key, the one it is made of.                   *)
LEMMA NewItem ==
  ASSUME NEW k \in Keys, NEW L, NEW M, \A q \in 1..Len(L) : FromKeys(L[q]),
         \A p \in 1..Len(M) : \/ \E back \in BOOLEAN : SameItem(M[p], New(k, back))
                              \/ \E q \in 1..Len(L) : SameItem(M[p], L[q])
  PROVE  /\ \A p \in 1..Len(M) : FromKeys(M[p])
         /\ Slots(M) \subseteq Slots(L) \cup {<<<<k.asn, k.ski>>, 1>>}
<1>1. \A back \in BOOLEAN :
        LET n == New(k, back) IN
        n.asn = k.asn /\ n.ski = k.ski /\ n.keys = <<k.data>>
  BY DEF New
<1>2. Len(<<k.data>>) = 1 /\ <<k.data>>[1] = k.data
  OBVIOUS
<1>3. \A back \in BOOLEAN : FromKeys(New(k, back))
  BY <1>1, <1>2 DEF FromKeys, SameName, NoTwins
<1>4. ASSUME NEW p \in 1..Len(M)
      PROVE  FromKeys(M[p])
  BY <1>3, ItemOrigin
<1>5. ASSUME NEW x \in Slots(M)
      PROVE  x \in Slots(L) \cup {<<<<k.asn, k.ski>>, 1>>}
  <2>1. PICK p \in 1..Len(M) : \E j \in 1..Len(M[p].keys) : x = <<<<M[p].asn, M[p].ski>>, j>>
    BY SlotOf
  <2>2. CASE \E back \in BOOLEAN : SameItem(M[p], New(k, back))
    <3>1. M[p].asn = k.asn /\ M[p].ski = k.ski /\ M[p].keys = <<k.data>>
      BY <1>1, <2>2 DEF SameItem
    <3>2. \A j \in 1..Len(M[p].keys) : j = 1
      BY <1>2, <3>1
    <3> QED BY <2>1, <3>1, <3>2
  <2>3. CASE \E q \in 1..Len(L) : SameItem(M[p], L[q])
    <3>1. PICK q \in 1..Len(L) : SameItem(M[p], L[q])
      BY <2>3
    <3>2. \E j \in 1..Len(L[q].keys) : x = <<<<L[q].asn, L[q].ski>>, j>>
      BY <2>1, <3>1 DEF SameItem
    <3>3. x \in Slots(L)
      BY <3>2, SlotOf
    <3> QED BY <3>3
  <2> QED BY <2>2, <2>3
<1> QED
  BY <1>4, <1>5

(* ks_storeKey.                                                            *)
LEMMA CountStore ==
  ASSUME Inv, CountInv, NEW k \in Keys,
         StoreFirst(k) \/ StoreLast(k) \/ StoreBefore(k) \/ StoreKnown(k)
  PROVE  CountInv'
<1> DEFINE L == head[Home(k)]
           i == Stop(L, k)
           y == <<<<k.asn, k.ski>>, 1>>
<1>1. Home(k) \in Buckets /\ L \in Chains /\ Ordered(L) /\ Len(L) \in Nat
  BY KeyFields, SortedLists, LenProperties DEF Inv, HeadTyped, Chains
<1>2. (\A q \in 1..Len(L) : FromKeys(L[q])) /\ crashed \in BOOLEAN
  BY <1>1 DEF CountInv, Genuine
<1>3. CASE UNCHANGED <<head, size>>
  BY <1>2, <1>3, CountUnchanged DEF StoreFirst, StoreLast, StoreBefore, StoreKnown
<1>4. ASSUME NEW M, head' = [head EXCEPT ![Home(k)] = M], size' = size + 1, crashed' = crashed,
             \A p \in 1..Len(M) : \/ \E back \in BOOLEAN : SameItem(M[p], New(k, back))
                                  \/ \E q \in 1..Len(L) : SameItem(M[p], L[q])
      PROVE  CountInv'
  <2>1. /\ \A p \in 1..Len(M) : FromKeys(M[p])
        /\ Slots(M) \subseteq Slots(L) \cup {y}
    BY <1>2, <1>4, NewItem
  <2> HIDE DEF y
  <2> QED BY <1>1, <1>4, <2>1, ListStored
<1>5. CASE StoreFirst(k) /\ ~UNCHANGED <<head, size>>
  <2> DEFINE n == New(k, FALSE)
             M == <<n>>
  <2>1. head' = [head EXCEPT ![Home(k)] = M] /\ size' = size + 1 /\ crashed' = crashed
    BY <1>5 DEF StoreFirst
  <2>2. \A p \in 1..Len(M) : SameItem(M[p], New(k, FALSE))
    <3> HIDE DEF n
    <3>1. Len(M) = 1 /\ M[1] = n
      OBVIOUS
    <3> HIDE DEF M
    <3>2. \A p \in 1..Len(M) : M[p] = n
      BY <3>1
    <3> QED BY <3>2 DEF SameItem, n
  <2> HIDE DEF M
  <2> QED BY <1>4, <2>1, <2>2
<1>6. CASE StoreLast(k) /\ ~UNCHANGED <<head, size>>
  <2> DEFINE back == Last(L).asn # k.asn
             M == Append(L, New(k, back))
  <2>1. /\ head' = [head EXCEPT ![Home(k)] = M] /\ size' = size + 1 /\ crashed' = crashed
        /\ L # <<>> /\ Stop(L, k) = 0
    BY <1>6 DEF StoreLast
  <2>2. back \in BOOLEAN
    OBVIOUS
  <2> HIDE DEF back
  <2>3. /\ Len(M) = Len(L) + 1 /\ M[Len(L) + 1] = New(k, back)
        /\ \A p \in 1..Len(L) : M[p] = L[p]
    BY <1>1, <2>1, <2>2, OrderedAppended
  <2> HIDE DEF M
  <2>4. ASSUME NEW p \in 1..Len(M)
        PROVE  \/ \E c \in BOOLEAN : SameItem(M[p], New(k, c))
               \/ \E q \in 1..Len(L) : SameItem(M[p], L[q])
    <3>1. CASE p = Len(L) + 1
      BY <2>2, <2>3, <3>1 DEF SameItem
    <3>2. CASE p # Len(L) + 1
      <4>1. p \in 1..Len(L)
        BY <1>1, <2>3, <3>2
      <4> QED BY <2>3, <4>1 DEF SameItem
    <3> QED BY <3>1, <3>2
  <2> QED BY <1>4, <2>1, <2>4
<1>7. CASE StoreBefore(k)
  <2> DEFINE front == IF L[i].back THEN SubSeq(L, 1, i - 1) ELSE <<>>
             rest  == <<[L[i] EXCEPT !.back = TRUE]>> \o SubSeq(L, i + 1, Len(L))
             M == front \o <<New(k, L[i].back)>> \o rest
  <2>1. /\ head' = [head EXCEPT ![Home(k)] = M] /\ size' = size + 1 /\ crashed' = crashed
        /\ Stop(L, k) # 0 /\ ~Known(L, k)
    BY <1>7 DEF StoreBefore
  <2>2. i \in 1..Len(L)
    BY <1>1, <2>1, StopPosition
  <2>3. \A p \in 1..Len(M) : \/ SameItem(M[p], New(k, L[i].back))
                             \/ \E q \in 1..Len(L) : SameItem(M[p], L[q])
    BY <1>1, <2>1, OrderedInserted
  <2>4. L[i].back \in BOOLEAN
    BY <1>1, <2>2, ElementFields
  <2> HIDE DEF M, i
  <2> QED BY <1>4, <2>1, <2>3, <2>4
<1>8. CASE StoreKnown(k) /\ ~UNCHANGED <<head, size>>
  <2> DEFINE ks == Append(L[i].keys, k.data)
             M == Rekeyed(L, i, ks)
             z == <<<<L[i].asn, L[i].ski>>, Len(L[i].keys) + 1>>
  <2>1. /\ head' = [head EXCEPT ![Home(k)][i].keys = Append(@, k.data)]
        /\ size' = size + 1 /\ crashed' = crashed
        /\ i # 0 /\ SameName(L[i], k)
    BY <1>8 DEF StoreKnown, Known
  <2>0. Scan(L[i], k.data) = 0
    BY <1>8 DEF StoreKnown
  <2>2. head' = [head EXCEPT ![Home(k)] = M]
    BY <2>1, <1>1 DEF Rekeyed
  <2>3. i \in 1..Len(L)
    BY <1>1, <2>1, StopPosition
  <2>4. L[i].keys \in Seq(Materials \cup {Hole}) /\ k.data \in Materials
    BY <1>1, <2>3, ElementFields, KeyInputs DEF Key
  <2>5. /\ ks \in Seq(Materials \cup {Hole}) /\ Len(ks) = Len(L[i].keys) + 1
        /\ \A j \in 1..Len(L[i].keys) : ks[j] = L[i].keys[j]
        /\ ks[Len(L[i].keys) + 1] = k.data /\ Len(L[i].keys) \in Nat
    BY <2>4, AppendProperties, LenProperties
  <2> HIDE DEF ks, i
  <2>6. /\ Len(M) = Len(L)
        /\ M[i].asn = L[i].asn /\ M[i].ski = L[i].ski /\ M[i].keys = ks
        /\ \A p \in 1..Len(L) : p # i => M[p] = L[p]
    <3>1. ks \in Seq(Materials \cup {Hole})
      BY <2>5
    <3>2. L \in Chains /\ Ordered(L)
      BY <1>1
    <3> HIDE DEF L
    <3> QED BY <3>1, <3>2, <2>3, OrderedRekeyed
  <2> HIDE DEF M
  <2>7. FromKeys(M[i])
    <3>1. FromKeys(L[i]) /\ SameName(M[i], k)
      BY <1>2, <2>1, <2>3, <2>6 DEF SameName
    <3>4. NoTwins(ks)
      <4>1. NoTwins(L[i].keys)
        BY <3>1 DEF FromKeys
      <4>2. \A j \in 1..Len(L[i].keys) : L[i].keys[j] # k.data
        BY <2>0, <2>4, ScanMisses
      <4>3. \A j \in 1..Len(ks) : j \in 1..Len(L[i].keys) \/ j = Len(L[i].keys) + 1
        BY <2>5
      <4> QED BY <2>5, <4>1, <4>2, <4>3 DEF NoTwins
    <3> SUFFICES ASSUME NEW j \in 1..Len(ks), ks[j] # Hole
                 PROVE  \E x \in Keys : SameName(M[i], x) /\ x.data = ks[j]
      BY <2>6, <3>4 DEF FromKeys
    <3>2. CASE j \in 1..Len(L[i].keys)
      <4>1. PICK x \in Keys : SameName(L[i], x) /\ x.data = ks[j]
        BY <2>5, <3>1, <3>2 DEF FromKeys
      <4> QED BY <2>6, <4>1 DEF SameName
    <3>3. CASE j \notin 1..Len(L[i].keys)
      <4>1. Len(L[i].keys) \in Nat /\ Len(ks) = Len(L[i].keys) + 1
        BY <2>5
      <4>2. j = Len(L[i].keys) + 1
        BY <3>3, <4>1
      <4> QED BY <2>5, <3>1, <4>2
    <3> QED BY <3>2, <3>3
  <2>8. \A p \in 1..Len(M) : FromKeys(M[p])
    BY <1>2, <2>6, <2>7
  <2>9. Slots(M) \subseteq Slots(L) \cup {z}
    <3> SUFFICES ASSUME NEW x \in Slots(M) PROVE x \in Slots(L) \cup {z}
      OBVIOUS
    <3>1. PICK p \in 1..Len(L) : \E j \in 1..Len(M[p].keys) : x = <<<<M[p].asn, M[p].ski>>, j>>
      BY <2>6, SlotOf
    <3>2. CASE p # i
      <4>1. \E j \in 1..Len(L[p].keys) : x = <<<<L[p].asn, L[p].ski>>, j>>
        BY <2>6, <3>1, <3>2
      <4> QED BY <4>1, SlotOf
    <3>3. CASE p = i
      <4>1. PICK j \in 1..Len(ks) : x = <<<<L[i].asn, L[i].ski>>, j>>
        BY <2>6, <3>1, <3>3
      <4>2. CASE j \in 1..Len(L[i].keys)
        BY <2>3, <4>1, <4>2, SlotOf
      <4>3. CASE j \notin 1..Len(L[i].keys)
        <5>1. Len(L[i].keys) \in Nat /\ Len(ks) = Len(L[i].keys) + 1
          BY <2>5
        <5>2. j = Len(L[i].keys) + 1
          BY <4>3, <5>1
        <5> QED BY <4>1, <5>2
      <4> QED BY <4>2, <4>3
    <3> QED BY <3>2, <3>3
  <2> HIDE DEF z
  <2> QED BY <1>1, <2>1, <2>2, <2>8, <2>9, ListStored
<1> QED
  BY <1>3, <1>5, <1>6, <1>7, <1>8

(* ks_delKey.                                                              *)
LEMMA CountDelete ==
  ASSUME Inv, CountInv, NEW k \in Keys, DeleteAll(k) \/ DeleteOne(k)
  PROVE  CountInv'
<1> DEFINE L == head[Home(k)]
           i == Stop(L, k)
           name == <<L[i].asn, L[i].ski>>
           n == Len(L[i].keys)
<1>1. Home(k) \in Buckets /\ L \in Chains /\ Ordered(L) /\ Len(L) \in Nat
  BY KeyFields, SortedLists, LenProperties DEF Inv, HeadTyped, Chains
<1>2. (\A q \in 1..Len(L) : FromKeys(L[q])) /\ crashed \in BOOLEAN
  BY <1>1 DEF CountInv, Genuine
<1>3. i \in 1..Len(L)
  BY <1>1, StopPosition DEF DeleteAll, DeleteOne, Known
<1>4. L[i].keys \in Seq(Materials \cup {Hole}) /\ n \in Nat
  BY <1>1, <1>3, ElementFields
<1>5. crashed' = crashed
  BY DEF DeleteAll, DeleteOne
<1>6. ASSUME NEW q \in 1..Len(L), q # i
      PROVE  <<L[q].asn, L[q].ski>> # name
  <2>1. q < i \/ i < q
    BY <1>1, <1>3, <1>6
  <2> HIDE DEF i
  <2> QED BY <1>1, <1>3, <2>1 DEF Ordered, SameName
<1> HIDE DEF i
<1>7. CASE head' = [head EXCEPT ![Home(k)] = Unlinked(L, i)] /\ size' = size - n
  <2> DEFINE M == Unlinked(L, i)
             G == {name} \X (1..n)
  <2>1. \A p \in 1..Len(M) : \E q \in 1..Len(L) : q # i /\ SameItem(M[p], L[q])
    BY <1>1, <1>3, OrderedUnlinked
  <2>2. G \in SUBSET Slots(L)
    BY <1>3, SlotOf
  <2>3. IsFiniteSet(G) /\ Cardinality(G) = n
    <3>1. IsFiniteSet({name}) /\ Cardinality({name}) = 1
      BY FS_Singleton
    <3>2. IsFiniteSet(1..n) /\ Cardinality(1..n) = n
      <4>1. \A m \in Nat : IsFiniteSet(1..m) /\ Cardinality(1..m) = m
        BY FS_Interval
      <4> HIDE DEF n
      <4> QED BY <1>4, <4>1
    <3>3. IsFiniteSet(G) /\ Cardinality(G) = Cardinality({name}) * Cardinality(1..n)
      BY <3>1, <3>2, FS_Product
    <3> HIDE DEF G
    <3> QED BY <1>4, <3>1, <3>2, <3>3
  <2> HIDE DEF M
  <2>4. \A p \in 1..Len(M) : FromKeys(M[p])
    BY <1>2, <2>1, ItemOrigin
  <2>5. Slots(M) \subseteq Slots(L) \ G
    <3> SUFFICES ASSUME NEW x \in Slots(M) PROVE x \in Slots(L) /\ x \notin G
      OBVIOUS
    <3>1. PICK p \in 1..Len(M) : \E j \in 1..Len(M[p].keys) : x = <<<<M[p].asn, M[p].ski>>, j>>
      BY SlotOf
    <3>2. PICK q \in 1..Len(L) : q # i /\ SameItem(M[p], L[q])
      BY <2>1
    <3>3. \E j \in 1..Len(L[q].keys) : x = <<<<L[q].asn, L[q].ski>>, j>>
      BY <3>1, <3>2 DEF SameItem
    <3>4. x \in Slots(L)
      BY <3>3, SlotOf
    <3>5. <<L[q].asn, L[q].ski>> # name
      BY <1>6, <3>2
    <3> QED BY <3>3, <3>4, <3>5
  <2>6. size' = size - Cardinality(G)
    BY <1>7, <2>3
  <2>7. head' = [head EXCEPT ![Home(k)] = M]
    BY <1>7 DEF M
  <2> HIDE DEF G, L
  <2> QED BY <1>1, <1>5, <2>2, <2>3, <2>4, <2>5, <2>6, <2>7, ListDeleted DEF L
<1>8. CASE DeleteOne(k) /\ n # 1
  <2> DEFINE j == Scan(L[i], k.data)
             ks == Without(L[i].keys, j)
             M == Rekeyed(L, i, ks)
             G == {<<name, n>>}
  <2>1. /\ head' = [head EXCEPT ![Home(k)] = [L EXCEPT ![i].keys = Without(@, j)]]
        /\ j # 0 /\ size' = size - 1
    BY <1>8 DEF DeleteOne, i
  <2>2. head' = [head EXCEPT ![Home(k)] = M]
    BY <2>1 DEF Rekeyed
  <2>3. j \in 1..n
    BY <1>4, <2>1, ScanPosition
  <2>4. ks \in Seq(Materials \cup {Hole})
    <3>1. L[i].keys # <<>>
      BY <1>4, <2>3, EmptySeq
    <3> HIDE DEF j, L
    <3> QED BY <1>4, <2>3, <3>1, WithoutType
  <2>5. Len(ks) = n - 1
    <3>1. n - 1 \in Nat
      BY <1>4, <2>3
    <3> HIDE DEF j
    <3> QED BY <3>1 DEF Without
  <2>6. \A p \in 1..Len(ks) : ks[p] = Hole \/ \E q \in 1..n : ks[p] = L[i].keys[q]
    <3> SUFFICES ASSUME NEW p \in 1..Len(ks)
                 PROVE  ks[p] = Hole \/ \E q \in 1..n : ks[p] = L[i].keys[q]
      OBVIOUS
    <3>1. p \in 1..(n - 1) /\ p \in 1..n /\ p + 1 \in 1..n
      BY <1>4, <2>5
    <3>2. ks[p] \in {L[i].keys[p], L[i].keys[p + 1], Hole}
      BY <3>1 DEF Without
    <3> HIDE DEF ks
    <3> QED BY <3>1, <3>2
  <2> HIDE DEF ks
  <2>7. /\ Len(M) = Len(L)
        /\ M[i].asn = L[i].asn /\ M[i].ski = L[i].ski /\ M[i].keys = ks
        /\ \A p \in 1..Len(L) : p # i => M[p] = L[p]
    <3>1. L \in Chains /\ Ordered(L)
      BY <1>1
    <3> HIDE DEF L
    <3> QED BY <3>1, <1>3, <2>4, OrderedRekeyed
  <2> HIDE DEF M
  <2>8. FromKeys(M[i])
    <3>0. NoTwins(ks)
      BY <1>2, <1>3, <1>4, <2>3, WithoutTwins DEF FromKeys, ks
    <3> SUFFICES ASSUME NEW p \in 1..Len(ks), ks[p] # Hole
                 PROVE  \E x \in Keys : SameName(M[i], x) /\ x.data = ks[p]
      BY <2>7, <3>0 DEF FromKeys
    <3>1. PICK q \in 1..n : ks[p] = L[i].keys[q]
      BY <2>6
    <3>2. PICK x \in Keys : SameName(L[i], x) /\ x.data = ks[p]
      BY <1>2, <1>3, <3>1 DEF FromKeys
    <3> QED BY <2>7, <3>2 DEF SameName
  <2>9. \A p \in 1..Len(M) : FromKeys(M[p])
    BY <1>2, <2>7, <2>8
  <2>10. G \in SUBSET Slots(L) /\ IsFiniteSet(G) /\ Cardinality(G) = 1
    <3>1. n \in 1..Len(L[i].keys)
      BY <1>4, <2>3
    <3>2. <<name, n>> \in Slots(L)
      BY <1>3, <3>1, SlotOf
    <3> QED BY <3>2, FS_Singleton
  <2>11. Slots(M) \subseteq Slots(L) \ G
    <3> SUFFICES ASSUME NEW x \in Slots(M) PROVE x \in Slots(L) /\ x # <<name, n>>
      OBVIOUS
    <3>1. PICK p \in 1..Len(L) : \E q \in 1..Len(M[p].keys) : x = <<<<M[p].asn, M[p].ski>>, q>>
      BY <2>7, SlotOf
    <3>2. CASE p # i
      <4>1. \E q \in 1..Len(L[p].keys) : x = <<<<L[p].asn, L[p].ski>>, q>>
        BY <2>7, <3>1, <3>2
      <4>2. x \in Slots(L)
        BY <4>1, SlotOf
      <4>3. <<L[p].asn, L[p].ski>> # name
        BY <1>6, <3>2
      <4> QED BY <4>1, <4>2, <4>3
    <3>3. CASE p = i
      <4>1. PICK q \in 1..Len(ks) : x = <<name, q>>
        BY <2>7, <3>1, <3>3
      <4>2. q \in 1..n /\ q # n
        BY <1>4, <2>5
      <4>3. x \in Slots(L)
        BY <1>3, <4>1, <4>2, SlotOf
      <4> QED BY <4>1, <4>2, <4>3
    <3> QED BY <3>2, <3>3
  <2>12. size' = size - Cardinality(G)
    BY <2>1, <2>10
  <2> HIDE DEF G, L
  <2> QED BY <1>1, <1>5, <2>2, <2>9, <2>10, <2>11, <2>12, ListDeleted DEF L
<1> QED
  BY <1>7, <1>8 DEF DeleteAll, DeleteOne, i

(* Cleaning frees all and subtracts what was in the lists.                 *)
LEMMA CountClean ==
  ASSUME Inv, CountInv, NEW source, CleanKeys(source)
  PROVE  CountInv'
<1>1. CASE UNCHANGED <<head, size>>
  BY <1>1, CountUnchanged DEF CleanKeys, CountInv
<1>2. CASE head' = [b \in Buckets |-> <<>>] /\ size' = size - Total /\ crashed' = crashed
  <2>1. Total \in Nat /\ Total <= size /\ size \in Nat
    BY TotalCounted DEF CountInv, Counted
  <2>2. size' \in Nat
    BY <1>2, <2>1
  <2> QED BY <1>2, <2>2, NothingLeft DEF CountInv
<1> QED
  BY <1>1, <1>2 DEF CleanKeys

LEMMA CountHolds == Spec => []CountInv
<1>1. Init => CountInv
  <2> SUFFICES ASSUME Init PROVE CountInv
    OBVIOUS
  <2>1. \A b \in Buckets : head[b] = <<>>
    BY DEF Init
  <2>2. Len(<<>>) = 0
    OBVIOUS
  <2>3. AllSlots = {}
    BY <2>1, <2>2 DEF AllSlots, Slots
  <2>4. Genuine
    BY <2>1, <2>2 DEF Genuine
  <2>5. IsFiniteSet({}) /\ Cardinality({}) = 0
    BY FS_EmptySet
  <2>6. size = 0 /\ crashed = FALSE
    BY DEF Init
  <2>7. Counted
    BY <2>3, <2>5, <2>6 DEF Counted
  <2> QED BY <2>4, <2>6, <2>7 DEF CountInv
<1>2. Inv /\ CountInv /\ [Next]_vars => CountInv'
  <2> SUFFICES ASSUME Inv, CountInv, [Next]_vars PROVE CountInv'
    OBVIOUS
  <2>1. CASE UNCHANGED vars
    BY <2>1, CountUnchanged DEF vars, storage, CountInv
  <2>2. ASSUME NEW k \in Keys, CallFor(k) PROVE CountInv'
    <3>1. CASE UNCHANGED <<head, size>> /\ (crashed' = TRUE \/ UNCHANGED crashed)
      BY <3>1, CountUnchanged DEF CountInv
    <3> QED BY <2>2, <3>1, CallsFor, CountStore, CountDelete
  <2>3. CASE \E source \in Sources : CleanKeys(source)
    BY <2>3, CountClean
  <2>4. CASE Reinit
    BY <2>4, NothingLeft DEF Reinit, CountInv
  <2> QED BY <2>1, <2>2, <2>3, <2>4 DEF Next, CallFor
<1> QED
  BY <1>1, <1>2, InvHolds, PTL DEF Spec

(* The count of keys never falls below zero, for any keys: an element that *)
(* is lost for a missing back pointer stays counted, and neither deleting  *)
(* nor cleaning subtracts more than is there.                              *)
THEOREM CountSuffices == Spec => []TypeOK
<1> DEFINE AskedTyped == asked \in {"register", "unregister"} \X SUBSET Wanted
<1>1. Init => AskedTyped
  BY DEF Init
<1>2. AskedTyped /\ [Next]_vars => AskedTyped'
  <2> SUFFICES ASSUME AskedTyped, [Next]_vars PROVE AskedTyped'
    OBVIOUS
  <2> DEFINE S == {{w \in Wanted : w = Data(k) /\ Home(k) = Bucket(k.asn)} : k \in Keys}
                    \cup {{w \in Wanted : SameName(w, k) /\ k.ours} : k \in Keys}
                    \cup {{w \in Wanted : w = Data(k) /\ k.ours} : k \in Keys} \cup {Wanted}
  <2>1. S \subseteq SUBSET Wanted
    OBVIOUS
  <2>2. UNCHANGED asked \/ \E how \in {"register", "unregister"}, T \in S : asked' = <<how, T>>
    BY DEF Next, StoreKey, StoreCrash, DeleteName, DeleteKey, DeleteCrash, CleanKeys, Reinit, vars
  <2> HIDE DEF S
  <2> QED BY <2>1, <2>2 DEF Wanted
<1>3. Inv /\ CountInv /\ AskedTyped => TypeOK
  BY DEF Inv, HeadTyped, Chains, CountInv, Counted, TypeOK
<1> QED
  BY <1>1, <1>2, <1>3, InvHolds, CountHolds, PTL DEF Spec

-----------------------------------------------------------------------------
(***************************************************************************)
(* The key storage implements the registry it is used as, for every set of *)
(* keys: what its lists hold is what a search finds, and each operation    *)
(* changes what the lists hold as the registry does at its request.        *)
(***************************************************************************)

(* w is in a list, wherever it is.                                         *)
Holds(L, w) ==
  \E i \in 1..Len(L) : SameName(L[i], w) /\ \E j \in 1..Len(L[i].keys) : L[i].keys[j] = w.data

(* What is wanted of the keys: their names and data.                       *)
LEMMA WantedFields ==
  ASSUME NEW w \in Wanted
  PROVE  /\ w.asn \in Nat /\ w.asn \in ASNs /\ Bucket(w.asn) \in Buckets
         /\ w.data \in Materials /\ w.data \notin Bad /\ w.data # Hole
         /\ w = [asn |-> w.asn, ski |-> w.ski, data |-> w.data]
<1>1. PICK k \in Keys : /\ k.data \notin Bad
                        /\ w = [asn |-> k.asn, ski |-> k.ski, data |-> k.data]
  BY DEF Wanted, Data
<1>2. k.asn \in Nat /\ k.data \in Materials /\ k.asn \in ASNs
  BY KeyInputs DEF Key, ASNs
<1>3. w.asn = k.asn /\ w.ski = k.ski /\ w.data = k.data
  BY <1>1
<1> QED
  BY <1>1, <1>2, <1>3, KeyInputs DEF Buckets

(* In an ordered list a search that stops early misses nothing, and what   *)
(* it stops at is the only element of its name.                            *)
LEMMA SearchFinds ==
  ASSUME NEW L \in Chains, Ordered(L), NEW w \in Wanted
  PROVE  LET k == [asn |-> w.asn, ski |-> w.ski]
             ks == IF Known(L, k) THEN L[Stop(L, k)].keys ELSE <<>>
         IN  w.data \in ToSet(ks) <=> Holds(L, w)
<1> DEFINE k == [asn |-> w.asn, ski |-> w.ski]
           s == Stop(L, k)
<1>1. \A e : SameName(e, k) <=> SameName(e, w)
  BY DEF SameName
<1>2. k.asn = w.asn /\ k.ski = w.ski /\ w.asn \in Nat
  BY WantedFields
<1> HIDE DEF k
<1>3. /\ s \in 0..Len(L)
      /\ s = 0 => \A j \in 1..Len(L) : ~SameName(L[j], k)
      /\ s # 0 => /\ L[s].asn > k.asn \/ SameName(L[s], k)
                  /\ \A j \in 1..(s - 1) : ~SameName(L[j], k)
  BY StopPosition
<1>4. Len(L) \in Nat
  BY LenProperties DEF Chains
<1> HIDE DEF s
<1>5. CASE Known(L, k)
  <2>1. s # 0 /\ SameName(L[s], k) /\ s \in 1..Len(L)
    BY <1>3, <1>4, <1>5 DEF Known, s
  <2>2. \A i \in 1..Len(L) : SameName(L[i], w) => i = s
    BY <1>1, <1>4, <2>1 DEF Ordered, SameName
  <2>3. L[s].keys \in Seq(Materials \cup {Hole})
    BY <2>1, ElementFields
  <2>4. w.data \in ToSet(L[s].keys) <=> \E j \in 1..Len(L[s].keys) : L[s].keys[j] = w.data
    BY <2>3, LenProperties DEF ToSet
  <2>5. Holds(L, w) <=> \E j \in 1..Len(L[s].keys) : L[s].keys[j] = w.data
    BY <1>1, <2>1, <2>2 DEF Holds
  <2> QED BY <1>5, <2>4, <2>5 DEF s, k
<1>6. CASE ~Known(L, k)
  <2>1. ASSUME NEW i \in 1..Len(L), SameName(L[i], w) PROVE FALSE
    <3>1. SameName(L[i], k) /\ L[i].asn = k.asn
      BY <1>1, <1>2, <2>1 DEF SameName
    <3>2. s # 0 /\ s \in 1..Len(L) /\ ~SameName(L[s], k) /\ L[s].asn > k.asn
      BY <1>3, <1>4, <1>6, <3>1 DEF Known, s
    <3>3. i > s
      BY <1>3, <1>4, <3>1, <3>2
    <3>4. L[s].asn <= L[i].asn
      BY <3>2, <3>3 DEF Ordered
    <3>5. L[s].asn \in Nat /\ k.asn \in Nat
      BY <1>2, <3>2, ElementFields
    <3> QED BY <3>1, <3>2, <3>4, <3>5
  <2>2. ToSet(<<>>) = {}
    BY DEF ToSet
  <2> QED BY <1>6, <2>1, <2>2 DEF Holds, k
<1> QED
  BY <1>5, <1>6

(* So what is found is what the list of the bucket holds.                  *)
LEMMA FoundHeld ==
  ASSUME Inv, NEW w \in Wanted
  PROVE  w \in Found <=> Holds(head[Bucket(w.asn)], w)
<1>1. /\ head[Bucket(w.asn)] \in Chains /\ Ordered(head[Bucket(w.asn)])
  BY WantedFields, SortedLists DEF Inv, HeadTyped
<1> QED
  BY <1>1, SearchFinds DEF Found, GetKey

(* The same of the next state, in which one bucket has another list.       *)
LEMMA FoundNext ==
  ASSUME Inv, NEW b \in Buckets, NEW M \in Chains, Ordered(M),
         head' = [head EXCEPT ![b] = M], NEW w \in Wanted
  PROVE  /\ Bucket(w.asn) = b => (w \in Found' <=> Holds(M, w))
         /\ Bucket(w.asn) # b => (w \in Found' <=> w \in Found)
<1> DEFINE c == Bucket(w.asn)
<1>1. c \in Buckets
  BY WantedFields
<1>2. head'[c] = IF c = b THEN M ELSE head[c]
  BY <1>1 DEF Inv, HeadTyped
<1>3. head'[c] \in Chains /\ Ordered(head'[c])
  BY <1>1, <1>2, SortedLists DEF Inv, HeadTyped
<1>4. w \in Found' <=> Holds(head'[c], w)
  BY <1>3, SearchFinds DEF Found, GetKey
<1> QED
  BY <1>2, <1>4, FoundHeld

-----------------------------------------------------------------------------
RegistryStep == Registry!Step(Found, Found', asked')

(* What asks for one key, or to be rid of some.                            *)
AskedFor(k) == {w \in Wanted : w = Data(k) /\ Home(k) = Bucket(k.asn)}
OfName(k) == {w \in Wanted : SameName(w, k) /\ k.ours}
OfKey(k) == {w \in Wanted : w = Data(k) /\ k.ours}

LEMMA DataFields ==
  ASSUME NEW k
  PROVE  Data(k).asn = k.asn /\ Data(k).ski = k.ski /\ Data(k).data = k.data
BY DEF Data

LEMMA SameFound ==
  ASSUME head' = head
  PROVE  Found' = Found
BY DEF Found, GetKey

(* A key that is stored for good was there or is now.                      *)
LEMMA NothingStored ==
  ASSUME NEW k \in Keys, head' = head, asked' = <<"register", AskedFor(k)>>, AskedFor(k) \subseteq Found
  PROVE  RegistryStep
BY SameFound DEF RegistryStep, Registry!Step, Registry!Registered

(* A list that holds the key asked for, no other that it did not hold, and *)
(* has lost none while exact.                                              *)
LEMMA ListGains ==
  ASSUME Inv, NEW k \in Keys, NEW M \in Chains, Ordered(M),
         head' = [head EXCEPT ![Home(k)] = M],
         asked' = <<"register", AskedFor(k)>>,
         \A w \in Wanted : Holds(M, w) => Holds(head[Home(k)], w) \/ w = Data(k),
         Data(k) \in Wanted => Holds(M, Data(k)),
         Linked => \A w \in Wanted : Holds(head[Home(k)], w) => Holds(M, w)
  PROVE  RegistryStep
<1> DEFINE b == Home(k)
<1>1. Found' \subseteq Wanted /\ Found \subseteq Wanted
  BY DEF Found, Wanted, Data
<1>2. b \in Buckets
  BY KeyFields
<1> HIDE DEF b
<1>3. \A w \in Wanted : /\ Bucket(w.asn) = b => (w \in Found' <=> Holds(M, w))
                        /\ Bucket(w.asn) # b => (w \in Found' <=> w \in Found)
  BY <1>2, FoundNext DEF b
<1>4. \A w \in Wanted : Bucket(w.asn) = b => (w \in Found <=> Holds(head[b], w))
  BY FoundHeld
<1>5. \A w \in Wanted : w = Data(k) /\ Bucket(w.asn) = b <=> w \in AskedFor(k)
  BY DataFields DEF AskedFor, b
<1>6. AskedFor(k) \subseteq Found'
  BY <1>3, <1>5 DEF AskedFor
<1>7. Found' \subseteq Found \cup AskedFor(k)
  BY <1>1, <1>3, <1>4, <1>5 DEF b
<1>8. Linked => Found \subseteq Found'
  BY <1>1, <1>3, <1>4 DEF b
<1> QED
  BY <1>6, <1>7, <1>8 DEF RegistryStep, Registry!Step, Registry!Registered

(* What an element holds it holds wherever its back pointer points.        *)
LEMMA HeldByItem ==
  ASSUME NEW L, NEW M, NEW p \in 1..Len(M), NEW q \in 1..Len(L), SameItem(M[p], L[q]), NEW w,
         SameName(M[p], w), \E j \in 1..Len(M[p].keys) : M[p].keys[j] = w.data
  PROVE  SameName(L[q], w) /\ Holds(L, w)
BY DEF SameItem, SameName, Holds

(* ks_storeKey.                                                            *)
LEMMA StoreRefines ==
  ASSUME Inv, NEW k \in Keys,
         StoreFirst(k) \/ StoreLast(k) \/ StoreBefore(k) \/ StoreKnown(k),
         asked' = <<"register", AskedFor(k)>>
  PROVE  RegistryStep
<1> DEFINE L == head[Home(k)]
           i == Stop(L, k)
<1>1. Home(k) \in Buckets /\ L \in Chains /\ Ordered(L) /\ Len(L) \in Nat
  BY KeyFields, SortedLists, LenProperties DEF Inv, HeadTyped, Chains
<1>2. Linked => \A q \in 1..Len(L) : q > 1 => L[q].back
  BY <1>1 DEF Linked
<1>3. \A back \in BOOLEAN, w \in Wanted :
        LET n == New(k, back) IN
        SameName(n, w) /\ (\E j \in 1..Len(n.keys) : n.keys[j] = w.data) => w = Data(k)
  <2> TAKE back \in BOOLEAN, w \in Wanted
  <2>1. /\ New(k, back).asn = k.asn /\ New(k, back).ski = k.ski
        /\ New(k, back).keys = <<k.data>>
    BY DEF New
  <2>2. Len(<<k.data>>) = 1 /\ <<k.data>>[1] = k.data
    OBVIOUS
  <2>3. w = [asn |-> w.asn, ski |-> w.ski, data |-> w.data]
    BY WantedFields
  <2>4. ASSUME SameName(New(k, back), w), NEW j \in 1..Len(<<k.data>>), <<k.data>>[j] = w.data
        PROVE  w = Data(k)
    <3>1. w.asn = k.asn /\ w.ski = k.ski /\ w.data = k.data
      BY <2>1, <2>2, <2>4 DEF SameName
    <3> QED BY <2>3, <3>1 DEF Data
  <2> QED BY <2>1, <2>4
<1>n. \A back : /\ SameName(New(k, back), Data(k)) /\ Len(New(k, back).keys) = 1
                /\ New(k, back).keys[1] = Data(k).data
  BY DataFields DEF New, SameName
<1>h. ASSUME NEW M, NEW p \in 1..Len(M), NEW n, SameItem(M[p], n),
             SameName(n, Data(k)), Len(n.keys) = 1, n.keys[1] = Data(k).data
      PROVE  Holds(M, Data(k))
  <2>1. SameName(M[p], Data(k)) /\ M[p].keys = n.keys
    BY <1>h DEF SameItem, SameName
  <2>2. 1 \in 1..Len(M[p].keys) /\ M[p].keys[1] = Data(k).data
    BY <1>h, <2>1
  <2> QED BY <2>1, <2>2 DEF Holds
<1>4. CASE head' = head /\ k.data \in Bad
  <2>1. Data(k) \notin Wanted
    BY <1>4, WantedFields, DataFields
  <2>2. AskedFor(k) = {}
    BY <2>1 DEF AskedFor
  <2> QED BY <1>4, <2>2, NothingStored
<1>s. CASE StoreKnown(k) /\ Scan(L[i], k.data) # 0
  <2>1. i # 0 /\ SameName(L[i], k) /\ ~HitsHole(L[i], k.data) /\ head' = head
    BY <1>s DEF StoreKnown, Known
  <2>2. i \in 1..Len(L)
    BY <1>1, <2>1, StopPosition
  <2>3. L[i].keys \in Seq(Materials \cup {Hole})
    BY <1>1, <2>2, ElementFields
  <2>4. PICK j \in 1..Len(L[i].keys) : L[i].keys[j] = k.data
    <3>1. /\ Scan(L[i], k.data) \in 1..Len(L[i].keys)
          /\ L[i].keys[Scan(L[i], k.data)] \in {Hole, k.data}
      <4> HIDE DEF i, L
      <4> QED BY <1>s, <2>3, ScanPosition
    <3> QED BY <1>s, <2>1, <3>1 DEF HitsHole
  <2>5. SameName(L[i], Data(k)) /\ Data(k).data = k.data
    BY <2>1, DataFields DEF SameName
  <2>6. Holds(L, Data(k))
    BY <2>2, <2>4, <2>5 DEF Holds
  <2>7. AskedFor(k) \subseteq Found
    BY <2>6, FoundHeld, DataFields DEF AskedFor
  <2> QED BY <2>1, <2>7, NothingStored
<1>5. CASE StoreFirst(k) /\ k.data \notin Bad
  <2> DEFINE n == New(k, FALSE)
             M == <<n>>
  <2>1. head' = [head EXCEPT ![Home(k)] = M] /\ L = <<>>
    BY <1>5 DEF StoreFirst
  <2>2. n \in Element /\ n.back = FALSE
    BY KeyFields
  <2>3. \A w \in Wanted :
          SameName(n, w) /\ (\E j \in 1..Len(n.keys) : n.keys[j] = w.data) => w = Data(k)
    BY <1>3
  <2>h. SameName(n, Data(k)) /\ Len(n.keys) = 1 /\ n.keys[1] = Data(k).data
    BY <1>n
  <2> HIDE DEF n
  <2>4. M \in Chains /\ Len(M) = 1 /\ M[1] = n
    <3>1. <<n>> \in Seq(Element)
      BY <2>2
    <3> QED BY <3>1 DEF Chains
  <2> HIDE DEF M
  <2>5. \A p, q \in 1..Len(M) : ~(p < q)
    BY <2>4
  <2>6. Ordered(M)
    BY <2>2, <2>4, <2>5 DEF Ordered
  <2>7. \A w \in Wanted : Holds(M, w) => w = Data(k)
    <3> SUFFICES ASSUME NEW w \in Wanted, Holds(M, w) PROVE w = Data(k)
      OBVIOUS
    <3>1. PICK p \in 1..Len(M) :
            SameName(M[p], w) /\ \E j \in 1..Len(M[p].keys) : M[p].keys[j] = w.data
      BY DEF Holds
    <3>2. M[p] = n
      BY <2>4
    <3> QED BY <2>3, <3>1, <3>2
  <2>8. \A w \in Wanted : ~Holds(L, w)
    <3>1. Len(L) = 0
      BY <2>1, EmptySeq
    <3> QED BY <3>1 DEF Holds
  <2>9. Holds(M, Data(k))
    BY <1>h, <2>h, <2>4 DEF SameItem
  <2> QED BY <2>1, <2>4, <2>6, <2>7, <2>8, <2>9, ListGains
<1>6. CASE StoreLast(k) /\ k.data \notin Bad
  <2> DEFINE back == Last(L).asn # k.asn
             n == New(k, back)
             M == Append(L, n)
  <2>1. head' = [head EXCEPT ![Home(k)] = M] /\ L # <<>> /\ Stop(L, k) = 0
    BY <1>6 DEF StoreLast
  <2>2. back \in BOOLEAN
    OBVIOUS
  <2> HIDE DEF back
  <2>3. /\ M \in Chains /\ Ordered(M) /\ Len(M) = Len(L) + 1 /\ M[Len(L) + 1] = n
        /\ \A p \in 1..Len(L) : M[p] = L[p]
    BY <1>1, <2>1, <2>2, OrderedAppended
  <2>4. \A w \in Wanted :
          SameName(n, w) /\ (\E j \in 1..Len(n.keys) : n.keys[j] = w.data) => w = Data(k)
    BY <1>3, <2>2
  <2>h. SameName(n, Data(k)) /\ Len(n.keys) = 1 /\ n.keys[1] = Data(k).data
    BY <1>n
  <2> HIDE DEF n, M
  <2>5. \A w \in Wanted : Holds(M, w) => Holds(L, w) \/ w = Data(k)
    <3> SUFFICES ASSUME NEW w \in Wanted, Holds(M, w) PROVE Holds(L, w) \/ w = Data(k)
      OBVIOUS
    <3>1. PICK p \in 1..Len(M) :
            SameName(M[p], w) /\ \E j \in 1..Len(M[p].keys) : M[p].keys[j] = w.data
      BY DEF Holds
    <3>2. CASE p = Len(L) + 1
      BY <2>3, <2>4, <3>1, <3>2
    <3>3. CASE p # Len(L) + 1
      <4>1. p \in 1..Len(L) /\ M[p] = L[p]
        BY <1>1, <2>3, <3>3
      <4> QED BY <3>1, <4>1 DEF Holds
    <3> QED BY <3>2, <3>3
  <2>6. \A w \in Wanted : Holds(L, w) => Holds(M, w)
    <3>1. \A p \in 1..Len(L) : p \in 1..Len(M) /\ M[p] = L[p]
      BY <1>1, <2>3
    <3> QED BY <3>1 DEF Holds
  <2>7. Holds(M, Data(k))
    <3>1. PICK p \in 1..Len(M) : M[p] = n
      BY <1>1, <2>3
    <3> QED BY <1>h, <2>h, <3>1 DEF SameItem
  <2> QED BY <2>1, <2>3, <2>5, <2>6, <2>7, ListGains
<1>7. CASE StoreBefore(k)
  <2> DEFINE front == IF L[i].back THEN SubSeq(L, 1, i - 1) ELSE <<>>
             rest  == <<[L[i] EXCEPT !.back = TRUE]>> \o SubSeq(L, i + 1, Len(L))
             n == New(k, L[i].back)
             M == front \o <<n>> \o rest
  <2>1. head' = [head EXCEPT ![Home(k)] = M] /\ Stop(L, k) # 0 /\ ~Known(L, k)
    BY <1>7 DEF StoreBefore
  <2>2. i \in 1..Len(L)
    BY <1>1, <2>1, StopPosition
  <2>3. /\ M \in Chains /\ Ordered(M)
        /\ \A p \in 1..Len(M) : \/ SameItem(M[p], n)
                                \/ \E q \in 1..Len(L) : SameItem(M[p], L[q])
        /\ (i > 1 => L[i].back) =>
             \A q \in 1..Len(L) : \E p \in 1..Len(M) : SameItem(M[p], L[q])
        /\ \E p \in 1..Len(M) : SameItem(M[p], n)
    BY <1>1, <2>1, OrderedInserted
  <2>4. \A w \in Wanted :
          SameName(n, w) /\ (\E j \in 1..Len(n.keys) : n.keys[j] = w.data) => w = Data(k)
    BY <1>1, <1>3, <2>2, ElementFields
  <2>h. SameName(n, Data(k)) /\ Len(n.keys) = 1 /\ n.keys[1] = Data(k).data
    BY <1>n
  <2> HIDE DEF n, M
  <2>5. \A w \in Wanted : Holds(M, w) => Holds(L, w) \/ w = Data(k)
    <3> SUFFICES ASSUME NEW w \in Wanted, Holds(M, w) PROVE Holds(L, w) \/ w = Data(k)
      OBVIOUS
    <3>1. PICK p \in 1..Len(M) :
            SameName(M[p], w) /\ \E j \in 1..Len(M[p].keys) : M[p].keys[j] = w.data
      BY DEF Holds
    <3>2. CASE SameItem(M[p], n)
      BY <2>4, <3>1, <3>2 DEF SameItem, SameName
    <3>3. CASE \E q \in 1..Len(L) : SameItem(M[p], L[q])
      BY <3>1, <3>3, HeldByItem
    <3> QED BY <2>3, <3>2, <3>3
  <2>6. Linked => \A w \in Wanted : Holds(L, w) => Holds(M, w)
    <3>1. Linked => \A q \in 1..Len(L) : \E p \in 1..Len(M) : SameItem(M[p], L[q])
      BY <1>2, <2>2, <2>3
    <3> QED BY <3>1 DEF Holds, SameItem, SameName
  <2>7. Holds(M, Data(k))
    BY <1>h, <2>h, <2>3
  <2> QED BY <2>1, <2>3, <2>5, <2>6, <2>7, ListGains
<1>8. CASE StoreKnown(k) /\ Scan(L[i], k.data) = 0
  <2> DEFINE ks == Append(L[i].keys, k.data)
             M == Rekeyed(L, i, ks)
  <2>1. head' = [head EXCEPT ![Home(k)][i].keys = Append(@, k.data)] /\ i # 0 /\ SameName(L[i], k)
    BY <1>8 DEF StoreKnown, Known
  <2>2. head' = [head EXCEPT ![Home(k)] = M]
    BY <2>1, <1>1 DEF Rekeyed
  <2>3. i \in 1..Len(L)
    BY <1>1, <2>1, StopPosition
  <2>4. L[i].keys \in Seq(Materials \cup {Hole}) /\ k.data \in Materials
    BY <1>1, <2>3, ElementFields, KeyInputs DEF Key
  <2>5. /\ ks \in Seq(Materials \cup {Hole}) /\ Len(ks) = Len(L[i].keys) + 1
        /\ \A j \in 1..Len(L[i].keys) : ks[j] = L[i].keys[j]
        /\ ks[Len(L[i].keys) + 1] = k.data /\ Len(L[i].keys) \in Nat
    BY <2>4, AppendProperties, LenProperties
  <2> HIDE DEF ks, i
  <2>6. /\ M \in Chains /\ Ordered(M) /\ Len(M) = Len(L)
        /\ M[i].asn = L[i].asn /\ M[i].ski = L[i].ski /\ M[i].keys = ks
        /\ \A p \in 1..Len(L) : p # i => M[p] = L[p]
    <3>1. ks \in Seq(Materials \cup {Hole})
      BY <2>5
    <3>2. L \in Chains /\ Ordered(L)
      BY <1>1
    <3> HIDE DEF L
    <3> QED BY <3>1, <3>2, <2>3, OrderedRekeyed
  <2> HIDE DEF M
  <2>7. \A w \in Wanted : Holds(M, w) => Holds(L, w) \/ w = Data(k)
    <3> SUFFICES ASSUME NEW w \in Wanted, Holds(M, w) PROVE Holds(L, w) \/ w = Data(k)
      OBVIOUS
    <3>1. PICK p \in 1..Len(L) :
            SameName(M[p], w) /\ \E j \in 1..Len(M[p].keys) : M[p].keys[j] = w.data
      BY <2>6 DEF Holds
    <3>2. CASE p # i
      BY <2>6, <3>1, <3>2 DEF Holds
    <3>3. CASE p = i
      <4>1. SameName(L[i], w) /\ w.asn = k.asn /\ w.ski = k.ski
        BY <2>1, <2>6, <3>1, <3>3 DEF SameName
      <4>2. PICK j \in 1..(Len(L[i].keys) + 1) : ks[j] = w.data
        BY <2>5, <2>6, <3>1, <3>3
      <4>3. CASE j \in 1..Len(L[i].keys)
        BY <2>3, <2>5, <4>1, <4>2, <4>3 DEF Holds
      <4>4. CASE j \notin 1..Len(L[i].keys)
        <5>0. Len(L[i].keys) \in Nat
          BY <2>5
        <5>1. j = Len(L[i].keys) + 1
          BY <4>2, <4>4, <5>0
        <5>2. w.data = k.data
          BY <2>5, <4>2, <5>1
        <5> QED BY <4>1, <5>2, WantedFields DEF Data
      <4> QED BY <4>3, <4>4
    <3> QED BY <3>2, <3>3
  <2>8. \A w \in Wanted : Holds(L, w) => Holds(M, w)
    <3> SUFFICES ASSUME NEW w \in Wanted, NEW p \in 1..Len(L), SameName(L[p], w),
                        NEW j \in 1..Len(L[p].keys), L[p].keys[j] = w.data
                 PROVE  Holds(M, w)
      BY DEF Holds
    <3>1. CASE p # i
      BY <2>6, <3>1 DEF Holds
    <3>2. CASE p = i
      <4>1. SameName(M[i], w) /\ j \in 1..Len(M[i].keys) /\ M[i].keys[j] = w.data
        BY <2>5, <2>6, <3>2 DEF SameName
      <4> QED BY <2>3, <2>6, <4>1 DEF Holds
    <3> QED BY <3>1, <3>2
  <2>9. Holds(M, Data(k))
    <3>1. SameName(M[i], Data(k)) /\ Data(k).data = k.data
      BY <2>1, <2>6, DataFields DEF SameName
    <3>2. Len(ks) \in 1..Len(M[i].keys) /\ M[i].keys[Len(ks)] = k.data
      BY <2>5, <2>6
    <3> QED BY <2>3, <2>6, <3>1, <3>2 DEF Holds
  <2> QED BY <2>2, <2>6, <2>7, <2>8, <2>9, ListGains
<1>9. StoreFirst(k) \/ StoreLast(k) => k.data \notin Bad \/ head' = head
  BY DEF StoreFirst, StoreLast
<1> QED
  BY <1>4, <1>s, <1>5, <1>6, <1>7, <1>8, <1>9

(* A list that holds nothing new.                                          *)
LEMMA ListLoses ==
  ASSUME Inv, NEW b \in Buckets, NEW M \in Chains, Ordered(M),
         head' = [head EXCEPT ![b] = M],
         \A w \in Wanted : Holds(M, w) => Holds(head[b], w)
  PROVE  Found' \subseteq Found
<1>1. Found' \subseteq Wanted
  BY DEF Found, Wanted, Data
<1>2. \A w \in Wanted : w \in Found' => w \in Found
  BY FoundHeld, FoundNext
<1> QED
  BY <1>1, <1>2

(* The element of a name goes, alone while exact.                          *)
LEMMA ElementGoes ==
  ASSUME Inv, NEW k \in Keys, k.ours, Known(head[Home(k)], k),
         head' = [head EXCEPT ![Home(k)] = Unlinked(head[Home(k)], Stop(head[Home(k)], k))]
  PROVE  /\ Found' \subseteq Found
         /\ \A w \in Found' : ~SameName(w, k)
         /\ Linked => \A w \in Found : w \in Found' <=> ~SameName(w, k)
<1> DEFINE L == head[Home(k)]
           i == Stop(L, k)
           M == Unlinked(L, i)
<1>1. Home(k) \in Buckets /\ L \in Chains /\ Ordered(L) /\ Len(L) \in Nat
  BY KeyFields, SortedLists, LenProperties DEF Inv, HeadTyped, Chains
<1>2. i \in 1..Len(L) /\ SameName(L[i], k)
  <2>1. i # 0 /\ SameName(L[i], k)
    BY DEF Known
  <2> QED BY <1>1, <2>1, StopPosition
<1>3. head' = [head EXCEPT ![Home(k)] = M]
  OBVIOUS
<1>a. Linked => (i > 1 => L[i].back)
  BY <1>1, <1>2 DEF Linked
<1> HIDE DEF i
<1>4. /\ M \in Chains /\ Ordered(M)
      /\ \A p \in 1..Len(M) : \E q \in 1..Len(L) : q # i /\ SameItem(M[p], L[q])
      /\ (i > 1 => L[i].back) =>
           \A q \in 1..Len(L) : q # i => \E p \in 1..Len(M) : SameItem(M[p], L[q])
  BY <1>1, <1>2, OrderedUnlinked
<1> HIDE DEF M
<1>5. ASSUME NEW w \in Wanted, Holds(M, w)
      PROVE  Holds(L, w) /\ ~SameName(w, k)
  <2>1. PICK p \in 1..Len(M) :
          SameName(M[p], w) /\ \E j \in 1..Len(M[p].keys) : M[p].keys[j] = w.data
    BY <1>5 DEF Holds
  <2>2. PICK q \in 1..Len(L) : q # i /\ SameItem(M[p], L[q])
    BY <1>4
  <2>3. SameName(L[q], w) /\ Holds(L, w)
    BY <2>1, <2>2, HeldByItem
  <2>4. ~SameName(L[q], L[i])
    BY <1>1, <1>2, <2>2 DEF Ordered, SameName
  <2> QED BY <1>2, <2>3, <2>4 DEF SameName
<1>6. ASSUME Linked, NEW w \in Wanted, Holds(L, w), ~SameName(w, k)
      PROVE  Holds(M, w)
  <2>1. PICK q \in 1..Len(L) :
          SameName(L[q], w) /\ \E j \in 1..Len(L[q].keys) : L[q].keys[j] = w.data
    BY <1>6 DEF Holds
  <2>2. q # i
    BY <1>2, <1>6, <2>1 DEF SameName
  <2>3. PICK p \in 1..Len(M) : SameItem(M[p], L[q])
    BY <1>4, <1>6, <1>a, <2>2
  <2> QED BY <2>1, <2>3 DEF Holds, SameItem, SameName
<1>7. \A w \in Wanted : SameName(w, k) => Bucket(w.asn) = Home(k)
  BY DEF SameName, Home
<1>8. Found \subseteq Wanted
  BY DEF Found
<1>9. ASSUME Linked, NEW w \in Found
      PROVE  w \in Found' <=> ~SameName(w, k)
  <2>1. w \in Wanted
    BY <1>8
  <2>2. CASE Bucket(w.asn) = Home(k)
    <3>1. (w \in Found' <=> Holds(M, w)) /\ Holds(L, w)
      BY <1>1, <1>3, <1>4, <2>1, <2>2, FoundHeld, FoundNext
    <3> QED BY <1>5, <1>6, <1>9, <2>1, <3>1
  <2>3. CASE Bucket(w.asn) # Home(k)
    BY <1>1, <1>3, <1>4, <1>7, <2>1, <2>3, FoundNext
  <2> QED BY <2>2, <2>3
<1>10. Found' \subseteq Found
  BY <1>1, <1>3, <1>4, <1>5, ListLoses
<1>11. ASSUME NEW w \in Found', SameName(w, k)
       PROVE  FALSE
  <2>1. w \in Wanted
    BY DEF Found, Wanted, Data
  <2>2. Bucket(w.asn) = Home(k)
    BY <1>7, <1>11, <2>1
  <2>3. Holds(M, w)
    BY <1>1, <1>3, <1>4, <2>1, <2>2, FoundNext
  <2> QED BY <1>5, <1>11, <2>1, <2>3
<1> QED
  BY <1>9, <1>10, <1>11

(* A key of the name of k is held by the element k leads to, if any.       *)
LEMMA HeldByStop ==
  ASSUME Inv, NEW k \in Keys, k.ours, NEW w \in Wanted, SameName(w, k), w \in Found
  PROVE  /\ Known(head[Home(k)], k)
         /\ \E j \in 1..Len(head[Home(k)][Stop(head[Home(k)], k)].keys) :
              head[Home(k)][Stop(head[Home(k)], k)].keys[j] = w.data
<1> DEFINE L == head[Home(k)]
           i == Stop(L, k)
<1>1. Home(k) \in Buckets /\ L \in Chains /\ Ordered(L) /\ Len(L) \in Nat
  BY KeyFields, SortedLists, LenProperties DEF Inv, HeadTyped, Chains
<1>2. Bucket(w.asn) = Home(k) /\ w.asn = k.asn /\ k.asn \in Nat
  BY KeyFields, WantedFields DEF SameName, Home
<1>3. Holds(L, w)
  BY <1>2, FoundHeld
<1>4. PICK q \in 1..Len(L) :
        SameName(L[q], w) /\ \E j \in 1..Len(L[q].keys) : L[q].keys[j] = w.data
  BY <1>3 DEF Holds
<1>5. SameName(L[q], k) /\ L[q].asn = k.asn
  BY <1>4 DEF SameName
<1>6. /\ i \in 0..Len(L)
      /\ i = 0 => \A j \in 1..Len(L) : ~SameName(L[j], k)
      /\ i # 0 => /\ L[i].asn > k.asn \/ SameName(L[i], k)
                  /\ \A j \in 1..(i - 1) : ~SameName(L[j], k)
  BY <1>1, StopPosition
<1>7. i \in 1..Len(L) /\ q \in Nat /\ i \in Nat
  BY <1>1, <1>4, <1>5, <1>6
<1> HIDE DEF i
<1>8. L[i].asn \in Nat
  BY <1>1, <1>7, ElementFields
<1>9. SameName(L[i], k)
  <2>1. ~(q < i)
    BY <1>1, <1>5, <1>6, <1>7
  <2>2. i < q => L[i].asn <= L[q].asn
    BY <1>1, <1>7 DEF Ordered
  <2> QED BY <1>2, <1>5, <1>6, <1>7, <1>8, <2>1, <2>2
<1>10. q = i
  <2>1. SameName(L[q], L[i]) /\ SameName(L[i], L[q])
    BY <1>5, <1>9 DEF SameName
  <2> QED BY <1>1, <1>7, <2>1 DEF Ordered
<1> QED
  BY <1>4, <1>7, <1>9, <1>10 DEF Known, i

(* ks_delKey of all keys of a name.                                        *)
LEMMA DeleteNameRefines ==
  ASSUME Inv, NEW k \in Keys,
         DeleteAll(k) \/ DeleteNothing(k, Known(head[Home(k)], k)),
         asked' = <<"unregister", OfName(k)>>
  PROVE  RegistryStep
<1>1. OfName(k) = {w \in Wanted : SameName(w, k) /\ k.ours} /\ Found \subseteq Wanted
  BY DEF OfName, Found
<1>2. CASE DeleteAll(k)
  <2>1. /\ Found' \subseteq Found
        /\ \A w \in Found' : ~SameName(w, k)
        /\ Linked => \A w \in Found : w \in Found' <=> ~SameName(w, k)
    BY <1>2, ElementGoes DEF DeleteAll
  <2>2. k.ours
    BY <1>2 DEF DeleteAll
  <2>3. Found' \subseteq Found \ OfName(k) /\ (Linked => Found \ OfName(k) \subseteq Found')
    BY <1>1, <2>1, <2>2
  <2> QED BY <2>3 DEF RegistryStep, Registry!Step, Registry!Unregistered
<1>3. CASE DeleteNothing(k, Known(head[Home(k)], k))
  <2>1. Found' = Found
    BY <1>3, SameFound DEF DeleteNothing, storage
  <2>2. ~k.ours \/ ~Known(head[Home(k)], k)
    BY <1>3 DEF DeleteNothing
  <2>3. \A w \in Found : w \notin OfName(k)
    BY <1>1, <2>2, HeldByStop
  <2>4. Found' \subseteq Found \ OfName(k) /\ (Linked => Found \ OfName(k) \subseteq Found')
    BY <2>1, <2>3
  <2> QED BY <2>4 DEF RegistryStep, Registry!Step, Registry!Unregistered
<1> QED
  BY <1>2, <1>3

(* ks_delKey of one key: the element's only one, or one of several.        *)
LEMMA DeleteKeyRefines ==
  ASSUME Inv, Genuine, NEW k \in Keys, DeleteOne(k), asked' = <<"unregister", OfKey(k)>>
  PROVE  RegistryStep
<1> DEFINE L == head[Home(k)]
           i == Stop(L, k)
           j == Scan(L[i], k.data)
<1>1. Home(k) \in Buckets /\ L \in Chains /\ Ordered(L) /\ Len(L) \in Nat
  BY KeyFields, SortedLists, LenProperties DEF Inv, HeadTyped, Chains
<1>2. k.ours /\ Known(L, k) /\ j # 0 /\ ~HitsHole(L[i], k.data)
  BY DEF DeleteOne
<1>3. i \in 1..Len(L) /\ SameName(L[i], k)
  BY <1>1, <1>2, StopPosition DEF Known
<1>4. /\ L[i].keys \in Seq(Materials \cup {Hole}) /\ Len(L[i].keys) \in Nat
      /\ NoTwins(L[i].keys)
  <2>1. FromKeys(L[i])
    BY <1>1, <1>3 DEF Genuine
  <2>2. L[i].keys \in Seq(Materials \cup {Hole})
    BY <1>1, <1>3, ElementFields
  <2> HIDE DEF i, L
  <2> QED BY <2>1, <2>2, LenProperties DEF FromKeys
<1>5. j \in 1..Len(L[i].keys) /\ L[i].keys[j] = k.data /\ k.data # Hole
  <2>1. j \in 1..Len(L[i].keys) /\ L[i].keys[j] \in {Hole, k.data}
    <3> HIDE DEF i, L
    <3> QED BY <1>2, <1>4, ScanPosition
  <2>2. k.data # Hole
    BY KeyInputs DEF Key
  <2> QED BY <1>2, <2>1, <2>2 DEF HitsHole
<1>6. OfKey(k) = {w \in Wanted : w = Data(k)} /\ Found \subseteq Wanted
  BY <1>2 DEF OfKey, Found
<1>7. SameName(Data(k), k) /\ Data(k).data = k.data /\ Bucket(Data(k).asn) = Home(k)
  BY <1>2, DataFields DEF SameName, Home
<1>8. CASE Len(L[i].keys) = 1
  <2>1. head' = [head EXCEPT ![Home(k)] = Unlinked(L, i)]
    BY <1>8 DEF DeleteOne
  <2>2. /\ Found' \subseteq Found
        /\ \A w \in Found' : ~SameName(w, k)
        /\ Linked => \A w \in Found : w \in Found' <=> ~SameName(w, k)
    BY <1>2, <2>1, ElementGoes
  <2>3. ASSUME NEW w \in Found, SameName(w, k) PROVE w = Data(k)
    <3>1. w \in Wanted
      BY <1>6
    <3>2. PICK p \in 1..Len(L[i].keys) : L[i].keys[p] = w.data
      BY <1>2, <2>3, <3>1, HeldByStop
    <3>3. w.data = k.data
      BY <1>5, <1>8, <3>2
    <3>4. w = [asn |-> w.asn, ski |-> w.ski, data |-> w.data]
      BY <3>1, WantedFields
    <3> QED BY <2>3, <3>3, <3>4 DEF Data, SameName
  <2>4. Found' \subseteq Found \ OfKey(k) /\ (Linked => Found \ OfKey(k) \subseteq Found')
    BY <1>6, <1>7, <2>2, <2>3
  <2> QED BY <2>4 DEF RegistryStep, Registry!Step, Registry!Unregistered
<1>9. CASE Len(L[i].keys) # 1
  <2> DEFINE ks == Without(L[i].keys, j)
             M == Rekeyed(L, i, ks)
  <2>1. ~Linked
    BY <1>1, <1>3, <1>9 DEF Linked
  <2>2. head' = [head EXCEPT ![Home(k)] = M]
    BY <1>9 DEF DeleteOne, Rekeyed
  <2>5. /\ ks \in Seq(Materials \cup {Hole})
        /\ \A p \in 1..Len(ks) : ks[p] # k.data
    <3>1. L[i].keys # <<>>
      BY <1>4, <1>5, EmptySeq
    <3> HIDE DEF i, j, L
    <3> QED BY <1>4, <1>5, <3>1, WithoutType, WithoutTwins
  <2>6. Len(ks) = Len(L[i].keys) - 1
    <3>1. Len(L[i].keys) - 1 \in Nat
      BY <1>4, <1>5
    <3> HIDE DEF i, j
    <3> QED BY <3>1 DEF Without
  <2>7. \A p \in 1..Len(ks) : ks[p] = Hole \/ \E q \in 1..Len(L[i].keys) : ks[p] = L[i].keys[q]
    <3> SUFFICES ASSUME NEW p \in 1..Len(ks)
                 PROVE  ks[p] = Hole \/ \E q \in 1..Len(L[i].keys) : ks[p] = L[i].keys[q]
      OBVIOUS
    <3>1. p \in 1..(Len(L[i].keys) - 1) /\ p \in 1..Len(L[i].keys) /\ p + 1 \in 1..Len(L[i].keys)
      BY <1>4, <2>6
    <3>2. ks[p] \in {L[i].keys[p], L[i].keys[p + 1], Hole}
      BY <3>1 DEF Without
    <3> HIDE DEF ks
    <3> QED BY <3>1, <3>2
  <2> HIDE DEF ks, i
  <2>8. /\ M \in Chains /\ Ordered(M) /\ Len(M) = Len(L)
        /\ M[i].asn = L[i].asn /\ M[i].ski = L[i].ski /\ M[i].keys = ks
        /\ \A p \in 1..Len(L) : p # i => M[p] = L[p]
    <3>1. L \in Chains /\ Ordered(L)
      BY <1>1
    <3> HIDE DEF L
    <3> QED BY <3>1, <1>3, <2>5, OrderedRekeyed
  <2> HIDE DEF M
  <2>9. \A w \in Wanted : Holds(M, w) => Holds(L, w) /\ w # Data(k)
    <3> SUFFICES ASSUME NEW w \in Wanted, Holds(M, w) PROVE Holds(L, w) /\ w # Data(k)
      OBVIOUS
    <3>1. PICK p \in 1..Len(L) :
            SameName(M[p], w) /\ \E q \in 1..Len(M[p].keys) : M[p].keys[q] = w.data
      BY <2>8 DEF Holds
    <3>2. CASE p # i
      <4>1. Holds(L, w) /\ SameName(L[p], w)
        BY <2>8, <3>1, <3>2 DEF Holds
      <4>2. ~SameName(L[p], L[i]) /\ ~SameName(L[i], L[p])
        BY <1>1, <1>3, <3>2 DEF Ordered, SameName
      <4>3. w # Data(k)
        BY <1>3, <1>7, <4>1, <4>2 DEF SameName
      <4> QED BY <4>1, <4>3
    <3>3. CASE p = i
      <4>1. PICK q \in 1..Len(ks) : ks[q] = w.data
        BY <2>8, <3>1, <3>3
      <4>2. w.data # Hole
        BY WantedFields
      <4>3. \E r \in 1..Len(L[i].keys) : L[i].keys[r] = w.data
        BY <2>7, <4>1, <4>2
      <4>4. SameName(L[i], w)
        BY <2>8, <3>1, <3>3 DEF SameName
      <4>5. w # Data(k)
        BY <1>7, <2>5, <4>1
      <4> QED BY <1>3, <4>3, <4>4, <4>5 DEF Holds
    <3> QED BY <3>2, <3>3
  <2>10. Found' \subseteq Found
    BY <1>1, <2>2, <2>8, <2>9, ListLoses
  <2>11. ASSUME NEW w \in Found', w \in OfKey(k) PROVE FALSE
    <3>1. w \in Wanted /\ w = Data(k) /\ Bucket(w.asn) = Home(k)
      BY <1>6, <1>7, <2>11
    <3>2. Holds(M, w)
      BY <1>1, <2>2, <2>8, <3>1, FoundNext
    <3> QED BY <2>9, <3>1, <3>2
  <2>12. Found' \subseteq Found \ OfKey(k)
    BY <2>10, <2>11
  <2> QED BY <2>1, <2>12 DEF RegistryStep, Registry!Step, Registry!Unregistered
<1> QED
  BY <1>8, <1>9

(* ks_delKey of one key that is not there.                                 *)
LEMMA MissingRefines ==
  ASSUME Inv, NEW k \in Keys, asked' = <<"unregister", OfKey(k)>>,
         DeleteNothing(k, /\ Known(head[Home(k)], k)
                          /\ Scan(head[Home(k)][Stop(head[Home(k)], k)], k.data) # 0)
  PROVE  RegistryStep
<1> DEFINE L == head[Home(k)]
           i == Stop(L, k)
<1>1. Found' = Found /\ (~k.ours \/ ~Known(L, k) \/ Scan(L[i], k.data) = 0)
  BY SameFound DEF DeleteNothing, storage
<1>2. ASSUME NEW w \in Found, w \in OfKey(k) PROVE FALSE
  <2>1. k.ours /\ w \in Wanted /\ SameName(w, k) /\ w.data = k.data
    BY <1>2, DataFields DEF OfKey, SameName
  <2>2. Known(L, k) /\ \E j \in 1..Len(L[i].keys) : L[i].keys[j] = k.data
    BY <2>1, HeldByStop
  <2>3. L \in Chains
    BY KeyFields DEF Inv, HeadTyped
  <2>4. i \in 1..Len(L)
    BY <2>2, <2>3, StopPosition, LenProperties DEF Known, Chains
  <2>5. L[i].keys \in Seq(Materials \cup {Hole})
    BY <2>3, <2>4, ElementFields
  <2>6. Scan(L[i], k.data) = 0
    BY <1>1, <2>1, <2>2
  <2> HIDE DEF i, L
  <2> QED BY <2>2, <2>5, <2>6, ScanMisses
<1>3. Found' \subseteq Found \ OfKey(k) /\ (Linked => Found \ OfKey(k) \subseteq Found')
  BY <1>1, <1>2
<1> QED
  BY <1>3 DEF RegistryStep, Registry!Step, Registry!Unregistered

(* The storage given up.                                                   *)
LEMMA EmptyRefines ==
  ASSUME head' = [b \in Buckets |-> <<>>], asked' = <<"unregister", Wanted>>
  PROVE  RegistryStep
<1>1. ASSUME NEW w \in Wanted PROVE w \notin Found'
  <2> DEFINE L == head'[Bucket(w.asn)]
  <2>1. L = <<>> /\ L \in Chains /\ Len(L) = 0
    BY WantedFields, EmptySeq DEF Chains
  <2> HIDE DEF L
  <2>2. Ordered(L) /\ ~Holds(L, w)
    BY <2>1 DEF Ordered, Holds
  <2>3. w \in Found' <=> Holds(L, w)
    BY <2>1, <2>2, SearchFinds DEF Found, GetKey, L
  <2> QED BY <2>2, <2>3
<1>2. Found' = {} /\ Found \subseteq Wanted
  BY <1>1 DEF Found, Wanted, Data
<1> QED
  BY <1>2 DEF RegistryStep, Registry!Step, Registry!Unregistered

-----------------------------------------------------------------------------
(* For its callers the storage is a set of keys.  When a call returns, the *)
(* key it registers is found, if it can be used and is put where it is     *)
(* looked for, or the keys it unregisters, a name's or one, are not; no    *)
(* other key has come; and while all back pointers are set and no element  *)
(* holds two keys, no other has gone.  So it is for any keys, however      *)
(* their AS numbers collide.                                               *)
THEOREM StorageIsRegistry == Spec => ImplementsRegistry
<1>1. Init => Found = {} /\ asked = <<"unregister", Wanted>>
  <2> SUFFICES ASSUME Init, NEW w \in Wanted PROVE w \notin Found
    BY DEF Found, Init
  <2> DEFINE L == head[Bucket(w.asn)]
  <2>1. L = <<>> /\ L \in Chains /\ Len(L) = 0
    BY WantedFields, EmptySeq DEF Chains, Init
  <2> HIDE DEF L
  <2>2. Ordered(L) /\ ~Holds(L, w)
    BY <2>1 DEF Ordered, Holds
  <2>3. w \in Found <=> Holds(L, w)
    BY <2>1, <2>2, SearchFinds DEF Found, GetKey, L
  <2> QED BY <2>2, <2>3
<1>2. Inv /\ CountInv /\ [Next]_vars => RegistryStep \/ UNCHANGED <<Found, asked>>
  <2> SUFFICES ASSUME Inv, CountInv, [Next]_vars
               PROVE  RegistryStep \/ UNCHANGED <<Found, asked>>
    OBVIOUS
  <2>0. CASE UNCHANGED <<head, asked>>
    BY <2>0, SameFound
  <2>1. ASSUME NEW k \in Keys, StoreKey(k) PROVE RegistryStep
    <3>1. StoreFirst(k) \/ StoreLast(k) \/ StoreBefore(k) \/ StoreKnown(k)
      BY <2>1 DEF StoreKey
    <3>2. asked' = <<"register", AskedFor(k)>>
      BY <2>1 DEF StoreKey, AskedFor
    <3> QED BY <3>1, <3>2, StoreRefines
  <2>2. ASSUME NEW k \in Keys, DeleteName(k) PROVE RegistryStep
    <3>1. DeleteAll(k) \/ DeleteNothing(k, Known(head[Home(k)], k))
      BY <2>2 DEF DeleteName
    <3>2. asked' = <<"unregister", OfName(k)>>
      BY <2>2 DEF DeleteName, OfName
    <3> QED BY <3>1, <3>2, DeleteNameRefines
  <2>3. ASSUME NEW k \in Keys, DeleteKey(k) PROVE RegistryStep
    <3>1. \/ DeleteOne(k)
          \/ DeleteNothing(k, /\ Known(head[Home(k)], k)
                              /\ Scan(head[Home(k)][Stop(head[Home(k)], k)], k.data) # 0)
      BY <2>3 DEF DeleteKey
    <3>2. asked' = <<"unregister", OfKey(k)>>
      BY <2>3 DEF DeleteKey, OfKey
    <3>3. Genuine
      BY DEF CountInv
    <3> QED BY <3>1, <3>2, <3>3, DeleteKeyRefines, MissingRefines
  <2>4. ASSUME NEW k \in Keys, StoreCrash(k) \/ DeleteCrash(k) PROVE UNCHANGED <<head, asked>>
    BY <2>4 DEF StoreCrash, DeleteCrash
  <2>5. ASSUME NEW source \in Sources, CleanKeys(source)
        PROVE  RegistryStep \/ UNCHANGED <<head, asked>>
    BY <2>5, EmptyRefines DEF CleanKeys
  <2>6. CASE Reinit
    BY <2>6, EmptyRefines DEF Reinit
  <2>7. CASE UNCHANGED vars
    BY <2>0, <2>7 DEF vars, storage
  <2> QED BY <2>0, <2>1, <2>2, <2>3, <2>4, <2>5, <2>6, <2>7 DEF Next
<1>3. RegistryStep \/ UNCHANGED <<Found, asked>> => [Registry!Next]_<<Found, asked>>
  BY DEF RegistryStep, Registry!Next
<1> QED
  BY <1>1, <1>2, <1>3, InvHolds, CountHolds, PTL DEF Spec, ImplementsRegistry, Registry!Spec

-----------------------------------------------------------------------------
(* A key that is found is among those that validate gets, and the first    *)
(* usable one of them was registered under the same name.                  *)
LEMMA UsableFound ==
  ASSUME Inv, Genuine, NEW w \in Wanted,
         NEW e \in Element, SameName(e, w), FromKeys(e),
         NEW j \in 1..Len(e.keys), e.keys[j] \notin Bad \cup {Hole}
  PROVE  [asn |-> w.asn, ski |-> w.ski, data |-> e.keys[j]] \in Wanted
<1>1. PICK k \in Keys : SameName(e, k) /\ k.data = e.keys[j]
  BY DEF FromKeys
<1>2. k.data \notin Bad /\ k.asn = w.asn /\ k.ski = w.ski
  BY <1>1 DEF SameName
<1> QED
  BY <1>1, <1>2 DEF Wanted, Data

(* validate breaks off after the first usable key that does not verify the *)
(* signature, so a signature surely verifies only if its key is the only   *)
(* usable one of the AS number and SKI.  Then it does, whatever bad keys   *)
(* and holes lie around it, for any keys.                                  *)
THEOREM OnlyKeyFound == Spec => []OnlyKeyVerifies
<1>1. ASSUME Inv, CountInv, NEW w \in Found, \A v \in Found : SameName(v, w) => v = w
      PROVE  Verifies(w.asn, w.ski, w.data)
  <2> DEFINE L == head[Bucket(w.asn)]
             k == [asn |-> w.asn, ski |-> w.ski]
             s == Stop(L, k)
             ks == GetKey(w.asn, w.ski)
             I == {p \in 1..Len(ks) : ks[p] \notin Bad \cup {Hole}}
  <2>1. w \in Wanted /\ w.data \in ToSet(ks) /\ w.data \notin Bad \cup {Hole} /\ Bucket(w.asn) \in Buckets
    BY WantedFields DEF Found
  <2>2. L \in Chains /\ Len(L) \in Nat
    <3>1. L \in Chains
      BY <1>1, <2>1 DEF Inv, HeadTyped
    <3> HIDE DEF L
    <3> QED BY <3>1, LenProperties DEF Chains
  <2>3. Known(L, k) /\ ks = L[s].keys
    <3>1. ks # <<>>
      BY <2>1 DEF ToSet
    <3> QED BY <3>1 DEF GetKey
  <2>4. s \in 1..Len(L) /\ SameName(L[s], w)
    BY <2>2, <2>3, StopPosition DEF Known, SameName
  <2>5. L[s] \in Element /\ FromKeys(L[s]) /\ ks \in Seq(Materials \cup {Hole}) /\ Len(ks) \in Nat
    <3>1. L[s] \in Element /\ L[s].keys \in Seq(Materials \cup {Hole}) /\ Len(L[s].keys) \in Nat
      <4> HIDE DEF L, s
      <4> QED BY <2>2, <2>4, ElementFields
    <3>2. FromKeys(L[s])
      BY <1>1, <2>1, <2>4 DEF CountInv, Genuine
    <3> HIDE DEF L, s, ks
    <3> QED BY <2>3, <3>1, <3>2
  <2>6. I # {}
    BY <2>1, <2>5, LenProperties DEF ToSet
  <2>7. I \in SUBSET Nat
    OBVIOUS
  <2>8. SelectInSeq(ks, LAMBDA d : d \notin Bad \cup {Hole}) = Min(I)
    BY <2>6 DEF SelectInSeq
  <2>9. Min(I) \in I
    <3> HIDE DEF I
    <3> QED BY <2>6, <2>7, FirstPosition
  <2> DEFINE m == Min(I)
  <2> HIDE DEF m, L, s
  <2>10. m \in 1..Len(ks) /\ ks[m] \notin Bad \cup {Hole} /\ m # 0
    BY <2>9 DEF m
  <2> DEFINE v == [asn |-> w.asn, ski |-> w.ski, data |-> ks[m]]
  <2>11. v \in Wanted
    BY <1>1, <2>1, <2>3, <2>4, <2>5, <2>10, UsableFound DEF CountInv
  <2>12. ks[m] \in ToSet(ks)
    BY <2>10 DEF ToSet
  <2>13. v \in Found /\ SameName(v, w)
    BY <2>11, <2>12 DEF Found, SameName
  <2>14. ks[m] = w.data
    BY <1>1, <2>13
  <2> QED BY <2>8, <2>10, <2>14 DEF Verifies, m
<1>2. Inv /\ CountInv => OnlyKeyVerifies
  BY <1>1 DEF OnlyKeyVerifies
<1> QED
  BY <1>2, InvHolds, CountHolds, PTL

-----------------------------------------------------------------------------
(* Objects of the API                                                      *)

(* The parts of the state that the first proofs need; keys play no role.   *)
Object == [libHandle : DOMAIN Libraries \cup {Nothing},
           configFile : DOMAIN Configs \cup {Nothing},
           fn : [Functions -> {"null", "wrap", "lib"}]]
Shape ==
  /\ api \in [Apis -> Object]
  /\ ready \in [Apis -> BOOLEAN]
  /\ opened \in [DOMAIN Libraries -> Nat]
  /\ DOMAIN plugin = DOMAIN Libraries
  /\ again \in BOOLEAN /\ fault \in BOOLEAN

Fields == {"initialized", "store", "pub", "priv"}
StaticVariables == \A l \in DOMAIN Libraries : DOMAIN plugin[l] = Fields

(* Without a library no function is one of a library, only an object that  *)
(* is ready has a library, and its functions are there.                    *)
OwnFunctions ==
  \A a \in Apis :
    /\ api[a].libHandle = Nothing => \A f \in Functions : api[a].fn[f] # "lib"
    /\ api[a].libHandle # Nothing => ready[a]
    /\ ready[a] => \A f \in Functions : api[a].fn[f] # "null"

(* A second object on a plug-in means that it was given up before.         *)
OneHolder ==
  ~again => \A a, b \in Apis :
    api[a].libHandle = api[b].libHandle /\ api[a].libHandle # Nothing => a = b

ApiInv ==
  Shape /\ StaticVariables /\ OwnFunctions /\ OneHolder /\ NothingLeftBehind /\ ReadyApisWork

-----------------------------------------------------------------------------
(* Handles                                                                 *)

LEMMA HeldFinite ==
  ASSUME NEW l
  PROVE  IsFiniteSet(Held(l)) /\ Cardinality(Held(l)) \in Nat
<1>1. Held(l) \in SUBSET Apis
  BY DEF Held
<1> QED
  BY <1>1, ApiInputs, FS_Subset, FS_CardinalityType

(* Nobody holds a library that is not open.                                *)
LEMMA HeldIffOpen ==
  ASSUME NEW l, NEW n, n = Cardinality(Held(l))
  PROVE  n = 0 <=> Held(l) = {}
BY HeldFinite, FS_EmptySet

(* An object that is bound holds one library more.                         *)
LEMMA HolderAdded ==
  ASSUME Shape, NEW a \in Apis, NEW l \in DOMAIN Libraries,
         api[a].libHandle = Nothing,
         DOMAIN api' = Apis, \A b \in Apis \ {a} : api'[b] = api[b],
         api'[a].libHandle = l
  PROVE  /\ Held(l)' = Held(l) \cup {a}
         /\ Cardinality(Held(l)') = Cardinality(Held(l)) + 1
         /\ \A m \in DOMAIN Libraries : m # l => Held(m)' = Held(m)
<1>1. Held(l)' = Held(l) \cup {a}
  BY DEF Held
<1>2. a \notin Held(l)
  BY ApiInputs DEF Held
<1>3. Cardinality(Held(l) \cup {a}) = Cardinality(Held(l)) + 1
  BY <1>2, HeldFinite, FS_AddElement
<1>4. \A m \in DOMAIN Libraries : m # l => Held(m)' = Held(m)
  BY ApiInputs DEF Held
<1> QED
  BY <1>1, <1>3, <1>4

(* An object that is unbound holds one less.                               *)
LEMMA HolderRemoved ==
  ASSUME Shape, NEW a \in Apis, NEW l \in DOMAIN Libraries,
         api[a].libHandle = l,
         DOMAIN api' = Apis, \A b \in Apis \ {a} : api'[b] = api[b],
         api'[a].libHandle = Nothing
  PROVE  /\ Held(l)' = Held(l) \ {a}
         /\ Cardinality(Held(l)') = Cardinality(Held(l)) - 1
         /\ \A m \in DOMAIN Libraries : m # l => Held(m)' = Held(m)
<1>1. Held(l)' = Held(l) \ {a}
  BY ApiInputs DEF Held
<1>2. a \in Held(l)
  BY DEF Held
<1>3. Cardinality(Held(l) \ {a}) = Cardinality(Held(l)) - 1
  BY <1>2, HeldFinite, FS_RemoveElement
<1>4. \A m \in DOMAIN Libraries : m # l => Held(m)' = Held(m)
  BY ApiInputs DEF Held
<1> QED
  BY <1>1, <1>3, <1>4

(* Who holds what depends on libHandle alone.                              *)
LEMMA HoldersKept ==
  ASSUME DOMAIN api' = Apis, \A b \in Apis : api'[b].libHandle = api[b].libHandle, NEW l
  PROVE  Held(l)' = Held(l)
BY DEF Held

-----------------------------------------------------------------------------
(* The steps                                                               *)

LEMMA InitInv == ApiInit => ApiInv
<1> SUFFICES ASSUME ApiInit PROVE ApiInv
  OBVIOUS
<1>1. Shape
  BY DEF ApiInit, Shape, Object, Unbound
<1>2. OwnFunctions /\ OneHolder /\ ReadyApisWork
  BY DEF ApiInit, OwnFunctions, OneHolder, ReadyApisWork, Unbound
<1>3. \A l \in DOMAIN Libraries : Held(l) = {}
  BY ApiInputs DEF ApiInit, Held, Unbound
<1>4. NothingLeftBehind
  BY <1>3, FS_EmptySet DEF ApiInit, NothingLeftBehind
<1>5. StaticVariables
  BY DEF ApiInit, StaticVariables, NotLoaded, Fields
<1> QED
  BY <1>1, <1>2, <1>4, <1>5 DEF ApiInv

(* Steps that change neither who holds what nor a plug-in.                 *)
LEMMA QuietStep ==
  ASSUME ApiInv, NEW a \in Apis, api[a].libHandle = Nothing,
         api' = [api EXCEPT ![a] = api'[a]], api'[a] \in Object,
         api'[a].libHandle = Nothing,
         \A f \in Functions : api'[a].fn[f] # "lib",
         ready' = [ready EXCEPT ![a] = ready'[a]], ready'[a] \in BOOLEAN,
         ready'[a] => \A f \in Functions : api'[a].fn[f] # "null",
         UNCHANGED <<opened, plugin, again, fault>>
  PROVE  ApiInv'
<1>0. /\ DOMAIN api' = Apis
      /\ \A b \in Apis \ {a} : api'[b] = api[b] /\ ready'[b] = ready[b]
  BY DEF ApiInv, Shape
<1>1. Shape'
  BY DEF ApiInv, Shape
<1>2. OwnFunctions'
  BY <1>0 DEF ApiInv, OwnFunctions
<1>3. OneHolder'
  BY <1>0 DEF ApiInv, OneHolder
<1>4. \A l : Held(l)' = Held(l)
  BY <1>0, HoldersKept
<1>5. NothingLeftBehind'
  <2> SUFFICES ASSUME NEW l \in DOMAIN Libraries
               PROVE  /\ opened'[l] = Cardinality(Held(l)')
                      /\ \A b \in Held(l)' : ready'[b]
                      /\ Held(l)' = {} => plugin'[l] = NotLoaded
    BY DEF NothingLeftBehind
  <2>1. a \notin Held(l)
    BY ApiInputs DEF Held
  <2>2. \A b \in Held(l) : b \in Apis \ {a}
    BY <2>1 DEF Held
  <2> QED
    BY <1>0, <1>4, <2>2 DEF ApiInv, NothingLeftBehind
<1>6. ReadyApisWork'
  BY <1>0 DEF ApiInv, ReadyApisWork
<1>7. StaticVariables'
  BY DEF ApiInv, StaticVariables
<1> QED
  BY <1>1, <1>2, <1>3, <1>5, <1>6, <1>7 DEF ApiInv

LEMMA SetConfigStep ==
  ASSUME ApiInv, NEW a \in Apis, NEW file \in DOMAIN Configs, SetConfig(a, file)
  PROVE  ApiInv'
<1>1. api[a] = Unbound /\ api'[a] = [Unbound EXCEPT !.configFile = file]
  BY DEF SetConfig, ApiInv, Shape
<1>2. ~ready[a]
  <2>1. "init" \in Functions
    BY DEF Functions
  <2> QED
    BY <1>1, <2>1 DEF ApiInv, OwnFunctions, Unbound
<1>3. api'[a] \in Object
  BY <1>1 DEF Object, Unbound
<1>4. api[a].libHandle = Nothing /\ api'[a].libHandle = Nothing
  BY <1>1 DEF Unbound
<1>5. \A f \in Functions : api'[a].fn[f] # "lib"
  BY <1>1 DEF Unbound
<1>6. api' = [api EXCEPT ![a] = api'[a]] /\ ready' = [ready EXCEPT ![a] = ready'[a]]
  BY DEF SetConfig, ApiInv, Shape
<1>7. ready'[a] = FALSE
  BY <1>2 DEF SetConfig, ApiInv, Shape
<1>8. UNCHANGED <<opened, plugin, again, fault>>
  BY DEF SetConfig
<1> QED
  BY <1>3, <1>4, <1>5, <1>6, <1>7, <1>8, QuietStep

(* The object stays without a library, with the wrappers or with nothing.  *)
LEMMA UnboundStep ==
  ASSUME ApiInv, NEW a \in Apis, api[a].libHandle = Nothing,
         \/ InitLocal(a) \/ InitUnopened(a)
         \/ Unbind(a)
  PROVE  ApiInv'
<1>1. UNCHANGED <<opened, plugin, again, fault>>
  BY DEF InitLocal, InitUnopened, Unbind, ReleaseAndClose
<1>2. CASE InitLocal(a)
  <2>1. /\ api' = [api EXCEPT ![a] =
              [libHandle |-> Nothing, configFile |-> ConfigFile(a), fn |-> Wrappers]]
        /\ ready' = [ready EXCEPT ![a] = TRUE]
    BY <1>2 DEF InitLocal
  <2>2. ConfigFile(a) \in DOMAIN Configs \cup {Nothing}
    BY DEF ConfigFile, ApiInv, Shape, Object
  <2>3. /\ api'[a] = [libHandle |-> Nothing, configFile |-> ConfigFile(a), fn |-> Wrappers]
        /\ ready'[a] = TRUE
    BY <2>1 DEF ApiInv, Shape
  <2>4. api'[a] \in Object /\ api'[a].libHandle = Nothing
    BY <2>2, <2>3 DEF Object, Wrappers
  <2>5. \A f \in Functions : api'[a].fn[f] = "wrap"
    BY <2>3 DEF Wrappers
  <2> QED
    BY <1>1, <2>1, <2>3, <2>4, <2>5, QuietStep
<1>3. CASE InitUnopened(a) \/ Unbind(a)
  <2>1. api' = [api EXCEPT ![a] = Unbound] /\ ready' = [ready EXCEPT ![a] = FALSE]
    BY <1>3 DEF InitUnopened, Unbind
  <2>2. api'[a] = Unbound /\ ready'[a] = FALSE
    BY <2>1 DEF ApiInv, Shape
  <2>3. api'[a] \in Object /\ api'[a].libHandle = Nothing
    BY <2>2 DEF Object, Unbound
  <2>4. \A f \in Functions : api'[a].fn[f] = "null"
    BY <2>2 DEF Unbound
  <2> QED
    BY <1>1, <2>1, <2>2, <2>3, <2>4, QuietStep
<1> QED
  BY <1>2, <1>3

-----------------------------------------------------------------------------
(* A library is bound                                                      *)

LEMMA BoundStep ==
  ASSUME ApiInv, NEW a \in Apis, InitBound(a)
  PROVE  ApiInv'
<1> PICK l : l = Conf(a).library_name
  OBVIOUS
<1>0. /\ l \in DOMAIN Libraries /\ l # Nothing
      /\ api[a].libHandle = Nothing
      /\ ~plugin[l].initialized
  BY ApiInputs DEF InitBound, Openable, InitFails
<1>1. /\ api'[a] = [libHandle |-> l, configFile |-> ConfigFile(a), fn |-> MapAPI(Conf(a))]
      /\ ready'[a] = TRUE
      /\ DOMAIN api' = Apis
      /\ \A b \in Apis \ {a} : api'[b] = api[b] /\ ready'[b] = ready[b]
      /\ UNCHANGED <<again, fault>>
  BY DEF InitBound, ApiInv, Shape
<1>2. /\ opened'[l] = opened[l] + 1
      /\ plugin'[l].initialized /\ plugin'[l].store = "ready"
      /\ \A m \in DOMAIN Libraries \ {l} : opened'[m] = opened[m] /\ plugin'[m] = plugin[m]
  BY <1>0 DEF InitBound, ApiInv, Shape, init
<1>3. \A f \in Functions : MapAPI(Conf(a))[f] \in {"wrap", "lib"}
  BY DEF MapAPI
<1>4. Shape'
  <2>1. ConfigFile(a) \in DOMAIN Configs \cup {Nothing}
    BY DEF ConfigFile, ApiInv, Shape, Object
  <2>2. api'[a] \in Object
    BY <1>0, <1>1, <2>1 DEF Object, MapAPI
  <2> QED
    BY <1>0, <1>1, <2>2 DEF InitBound, ApiInv, Shape
<1>5. OwnFunctions'
  BY <1>0, <1>1, <1>3 DEF ApiInv, OwnFunctions
(* A holder of the library that is ready would have initialized it.        *)
<1>6. ASSUME ~again, NEW b \in Apis PROVE api[b].libHandle # l
  BY <1>0, <1>6 DEF ApiInv, OwnFunctions, ReadyApisWork
<1>7. OneHolder'
  BY <1>0, <1>1, <1>6 DEF ApiInv, OneHolder
<1>8. /\ Held(l)' = Held(l) \cup {a}
      /\ Cardinality(Held(l)') = Cardinality(Held(l)) + 1
      /\ \A m \in DOMAIN Libraries : m # l => Held(m)' = Held(m)
  BY <1>0, <1>1, HolderAdded DEF ApiInv
<1>9. NothingLeftBehind'
  <2> SUFFICES ASSUME NEW m \in DOMAIN Libraries
               PROVE  /\ opened'[m] = Cardinality(Held(m)')
                      /\ \A b \in Held(m)' : ready'[b]
                      /\ Held(m)' = {} => plugin'[m] = NotLoaded
    BY DEF NothingLeftBehind
  <2>1. CASE m = l
    <3>1. opened'[l] = Cardinality(Held(l)')
      BY <1>0, <1>2, <1>8 DEF ApiInv, NothingLeftBehind
    <3>2. ASSUME NEW b \in Held(l)' PROVE ready'[b]
      <4>1. b = a \/ (b \in Held(l) /\ b \in Apis \ {a})
        BY <1>8, <3>2 DEF Held
      <4> QED
        BY <1>0, <1>1, <4>1 DEF ApiInv, NothingLeftBehind
    <3>3. Held(l)' # {}
      BY <1>8
    <3> QED
      BY <2>1, <3>1, <3>2, <3>3
  <2>2. CASE m # l
    <3>1. a \notin Held(m)
      BY <1>0, ApiInputs DEF Held
    <3>2. \A b \in Held(m) : b \in Apis \ {a}
      BY <3>1 DEF Held
    <3> QED
      BY <1>1, <1>2, <1>8, <2>2, <3>2 DEF ApiInv, NothingLeftBehind
  <2> QED
    BY <2>1, <2>2
<1>10. ReadyApisWork'
  <2> SUFFICES ASSUME ~again
               PROVE  /\ ~fault
                      /\ \A b \in Apis : ready'[b] =>
                           /\ \A f \in Functions : api'[b].fn[f] # "null"
                           /\ api'[b].libHandle # Nothing =>
                                /\ plugin'[api'[b].libHandle].initialized
                                /\ plugin'[api'[b].libHandle].store = "ready"
    BY <1>1 DEF ReadyApisWork
  <2>1. ASSUME NEW b \in Apis, b # a, ready'[b], api'[b].libHandle # Nothing
        PROVE  /\ plugin'[api'[b].libHandle].initialized
               /\ plugin'[api'[b].libHandle].store = "ready"
    <3>1. api'[b] = api[b] /\ ready[b]
      BY <1>1, <2>1
    <3>2. api[b].libHandle \in DOMAIN Libraries \ {l}
      BY <1>6, <2>1, <3>1 DEF ApiInv, Shape, Object
    <3> QED
      BY <1>2, <2>1, <3>1, <3>2 DEF ApiInv, ReadyApisWork
  <2>2. \A b \in Apis : ready'[b] => \A f \in Functions : api'[b].fn[f] # "null"
    BY <1>1, <1>3 DEF ApiInv, OwnFunctions
  <2> QED
    BY <1>1, <1>2, <2>1, <2>2 DEF ApiInv, ReadyApisWork
<1>11. StaticVariables'
  <2>1. DOMAIN plugin'[l] = Fields
    BY <1>0 DEF InitBound, ApiInv, Shape, init, Freed, Fields
  <2> QED
    BY <1>2, <2>1 DEF ApiInv, StaticVariables
<1> QED
  BY <1>4, <1>5, <1>7, <1>9, <1>10, <1>11 DEF ApiInv

-----------------------------------------------------------------------------
(* A library is opened and given back, and an object is unbound            *)

LEMMA RefusedStep ==
  ASSUME ApiInv, NEW a \in Apis, InitRefused(a)
  PROVE  ApiInv'
<1> PICK l : l = Conf(a).library_name
  OBVIOUS
<1> PICK given : plugin' = [plugin EXCEPT ![l] = Close(given, opened[l])]
  BY DEF InitRefused
<1>0. l \in DOMAIN Libraries /\ l # Nothing /\ api[a].libHandle = Nothing
  BY ApiInputs DEF InitRefused, Openable
<1>1. /\ api'[a] = Unbound /\ ready'[a] = FALSE
      /\ DOMAIN api' = Apis
      /\ \A b \in Apis \ {a} : api'[b] = api[b] /\ ready'[b] = ready[b]
      /\ UNCHANGED <<opened, fault>>
      /\ again' = (again \/ (plugin[l].initialized /\ plugin'[l] # plugin[l]))
  BY DEF InitRefused, ApiInv, Shape
<1>2. /\ plugin'[l] = Close(given, opened[l])
      /\ \A m \in DOMAIN Libraries \ {l} : plugin'[m] = plugin[m]
  BY <1>0 DEF ApiInv, Shape
<1>3. Shape'
  <2>1. api'[a] \in Object
    BY <1>1 DEF Object, Unbound
  <2>2. api' \in [Apis -> Object] /\ ready' \in [Apis -> BOOLEAN]
    BY <2>1 DEF InitRefused, ApiInv, Shape
  <2>3. again' \in BOOLEAN
    BY <1>1
  <2> QED
    BY <1>0, <1>1, <2>2, <2>3 DEF ApiInv, Shape
<1>4. api'[a].libHandle = Nothing /\ \A f \in Functions : api'[a].fn[f] = "null"
  BY <1>1 DEF Unbound
<1>5. OwnFunctions'
  BY <1>1, <1>4 DEF ApiInv, OwnFunctions
<1>6. OneHolder'
  BY <1>1, <1>4 DEF ApiInv, OneHolder
<1>7. \A m : Held(m)' = Held(m)
  BY <1>0, <1>1, <1>4, HoldersKept
<1>8. NothingLeftBehind'
  <2> SUFFICES ASSUME NEW m \in DOMAIN Libraries
               PROVE  /\ opened'[m] = Cardinality(Held(m)')
                      /\ \A b \in Held(m)' : ready'[b]
                      /\ Held(m)' = {} => plugin'[m] = NotLoaded
    BY DEF NothingLeftBehind
  <2>1. opened'[m] = Cardinality(Held(m)')
    BY <1>1, <1>7 DEF ApiInv, NothingLeftBehind
  <2>2. \A b \in Held(m)' : ready'[b]
    <3>1. \A b \in Held(m) : b \in Apis \ {a}
      BY <1>0, ApiInputs DEF Held
    <3> QED
      BY <1>1, <1>7, <3>1 DEF ApiInv, NothingLeftBehind
  <2>3. ASSUME Held(m)' = {} PROVE plugin'[m] = NotLoaded
    <3>1. opened[m] = 0
      BY <1>7, <2>3, HeldIffOpen DEF ApiInv, NothingLeftBehind
    <3>2. CASE m = l
      BY <1>2, <3>1, <3>2 DEF Close
    <3>3. CASE m # l
      BY <1>2, <1>7, <2>3, <3>3 DEF ApiInv, NothingLeftBehind
    <3> QED
      BY <3>2, <3>3
  <2> QED
    BY <2>1, <2>2, <2>3
<1>9. ReadyApisWork'
  <2> SUFFICES ASSUME ~again'
               PROVE  /\ ~fault'
                      /\ \A b \in Apis : ready'[b] =>
                           /\ \A f \in Functions : api'[b].fn[f] # "null"
                           /\ api'[b].libHandle # Nothing =>
                                /\ plugin'[api'[b].libHandle].initialized
                                /\ plugin'[api'[b].libHandle].store = "ready"
    BY DEF ReadyApisWork
  <2>1. ~again /\ (plugin[l].initialized => plugin'[l] = plugin[l])
    BY <1>1
  <2>2. ASSUME NEW b \in Apis, ready'[b], api'[b].libHandle # Nothing
        PROVE  /\ plugin'[api'[b].libHandle].initialized
               /\ plugin'[api'[b].libHandle].store = "ready"
    <3>1. api'[b] = api[b] /\ ready[b]
      BY <1>1, <2>2
    <3>2. /\ plugin[api[b].libHandle].initialized
          /\ plugin[api[b].libHandle].store = "ready"
      BY <2>1, <2>2, <3>1 DEF ApiInv, ReadyApisWork
    <3>3. api[b].libHandle \in DOMAIN Libraries
      BY <2>2, <3>1 DEF ApiInv, Shape, Object
    <3>4. plugin'[api[b].libHandle] = plugin[api[b].libHandle]
      BY <1>2, <2>1, <3>2, <3>3
    <3> QED
      BY <3>1, <3>2, <3>4
  <2>3. \A b \in Apis : ready'[b] => \A f \in Functions : api'[b].fn[f] # "null"
    BY <1>1 DEF ApiInv, OwnFunctions
  <2> QED
    BY <1>1, <2>1, <2>2, <2>3 DEF ApiInv, ReadyApisWork
<1>10. StaticVariables'
  <2>1. DOMAIN plugin'[l] = Fields
    BY <1>0 DEF InitRefused, ApiInv, Shape, StaticVariables,
                Close, release, init, Freed, NotLoaded, Fields
  <2> QED
    BY <1>2, <2>1 DEF ApiInv, StaticVariables
<1> QED
  BY <1>3, <1>5, <1>6, <1>8, <1>9, <1>10 DEF ApiInv

LEMMA UnbindStep ==
  ASSUME ApiInv, NEW a \in Apis, api[a].libHandle # Nothing, Unbind(a)
  PROVE  ApiInv'
<1> PICK l : l = api[a].libHandle
  OBVIOUS
<1>0. l \in DOMAIN Libraries /\ l # Nothing
  BY DEF ApiInv, Shape, Object
<1> PICK given : /\ plugin' = [plugin EXCEPT ![l] = Close(given, opened[l] - 1)]
                 /\ opened' = [opened EXCEPT ![l] = @ - 1]
  BY DEF Unbind, ReleaseAndClose
<1>1. /\ api'[a] = Unbound /\ ready'[a] = FALSE
      /\ DOMAIN api' = Apis
      /\ \A b \in Apis \ {a} : api'[b] = api[b] /\ ready'[b] = ready[b]
      /\ UNCHANGED <<again, fault>>
  BY DEF Unbind, ApiInv, Shape
<1>2. /\ plugin'[l] = Close(given, opened'[l]) /\ opened'[l] = opened[l] - 1
      /\ \A m \in DOMAIN Libraries \ {l} : opened'[m] = opened[m] /\ plugin'[m] = plugin[m]
  BY <1>0 DEF ApiInv, Shape
<1>3. api'[a].libHandle = Nothing /\ \A f \in Functions : api'[a].fn[f] = "null"
  BY <1>1 DEF Unbound
<1>4. /\ Held(l)' = Held(l) \ {a}
      /\ Cardinality(Held(l)') = Cardinality(Held(l)) - 1
      /\ \A m \in DOMAIN Libraries : m # l => Held(m)' = Held(m)
  BY <1>0, <1>1, <1>3, HolderRemoved DEF ApiInv
<1>5. opened'[l] = Cardinality(Held(l)')
  BY <1>0, <1>2, <1>4 DEF ApiInv, NothingLeftBehind
<1>6. Shape'
  <2>1. api'[a] \in Object
    BY <1>1 DEF Object, Unbound
  <2>2. api' \in [Apis -> Object] /\ ready' \in [Apis -> BOOLEAN]
    BY <2>1 DEF Unbind, ApiInv, Shape
  <2>3. IsFiniteSet(Held(l) \ {a}) /\ Cardinality(Held(l) \ {a}) \in Nat
    BY HeldFinite, FS_Difference, FS_Singleton, FS_CardinalityType
  <2>4. opened'[l] \in Nat
    BY <1>4, <1>5, <2>3
  <2> QED
    BY <1>0, <1>1, <2>2, <2>4 DEF ApiInv, Shape
<1>7. OwnFunctions'
  BY <1>1, <1>3 DEF ApiInv, OwnFunctions
<1>8. OneHolder'
  BY <1>1, <1>3 DEF ApiInv, OneHolder
<1>9. NothingLeftBehind'
  <2> SUFFICES ASSUME NEW m \in DOMAIN Libraries
               PROVE  /\ opened'[m] = Cardinality(Held(m)')
                      /\ \A b \in Held(m)' : ready'[b]
                      /\ Held(m)' = {} => plugin'[m] = NotLoaded
    BY DEF NothingLeftBehind
  <2>1. CASE m = l
    <3>1. \A b \in Held(l)' : b \in Held(l) /\ b \in Apis \ {a}
      BY <1>4 DEF Held
    <3>2. \A b \in Held(l)' : ready'[b]
      BY <1>0, <1>1, <3>1 DEF ApiInv, NothingLeftBehind
    <3>3. Held(l)' = {} => opened'[l] = 0
      BY <1>5, FS_EmptySet
    <3> QED
      BY <1>2, <1>5, <2>1, <3>2, <3>3 DEF Close
  <2>2. CASE m # l
    <3>1. \A b \in Held(m) : b \in Apis \ {a}
      BY <2>2 DEF Held
    <3> QED
      BY <1>1, <1>2, <1>4, <2>2, <3>1 DEF ApiInv, NothingLeftBehind
  <2> QED
    BY <2>1, <2>2
<1>10. ReadyApisWork'
  <2> SUFFICES ASSUME ~again
               PROVE  /\ ~fault
                      /\ \A b \in Apis : ready'[b] =>
                           /\ \A f \in Functions : api'[b].fn[f] # "null"
                           /\ api'[b].libHandle # Nothing =>
                                /\ plugin'[api'[b].libHandle].initialized
                                /\ plugin'[api'[b].libHandle].store = "ready"
    BY <1>1 DEF ReadyApisWork
  <2>1. ASSUME NEW b \in Apis, ready'[b], api'[b].libHandle # Nothing
        PROVE  /\ plugin'[api'[b].libHandle].initialized
               /\ plugin'[api'[b].libHandle].store = "ready"
    <3>1. b # a /\ api'[b] = api[b] /\ ready[b]
      BY <1>1, <2>1
    <3>2. api[b].libHandle \in DOMAIN Libraries \ {l}
      BY <2>1, <3>1 DEF ApiInv, Shape, Object, OneHolder
    <3> QED
      BY <1>2, <2>1, <3>1, <3>2 DEF ApiInv, ReadyApisWork
  <2>2. \A b \in Apis : ready'[b] => \A f \in Functions : api'[b].fn[f] # "null"
    BY <1>1 DEF ApiInv, OwnFunctions
  <2> QED
    BY <2>1, <2>2 DEF ApiInv, ReadyApisWork
<1>11. StaticVariables'
  <2>1. DOMAIN plugin'[l] = Fields
    BY <1>0 DEF Unbind, ReleaseAndClose, ApiInv, Shape, StaticVariables,
                Close, release, NotLoaded, Fields
  <2> QED
    BY <1>2, <2>1 DEF ApiInv, StaticVariables
<1> QED
  BY <1>6, <1>7, <1>8, <1>9, <1>10, <1>11 DEF ApiInv

-----------------------------------------------------------------------------
(* Calls                                                                   *)

(* No call gives up the storage.                                           *)
LEMMA StorageKept ==
  ASSUME NEW p, NEW f, NEW k, NEW source,
         DOMAIN p = Fields
  PROVE  /\ DOMAIN KeyCall(p, f, k, source) = Fields
         /\ KeyCall(p, f, k, source).initialized = p.initialized
         /\ KeyCall(p, f, k, source).store = p.store
BY DEF KeyCall, Fields

(* Settings and the last answer play no role.                              *)
LEMMA SameStep ==
  ASSUME ApiInv, UNCHANGED <<api, ready, opened, plugin, again, fault>>
  PROVE  ApiInv'
<1>1. Shape' /\ StaticVariables'
  BY DEF ApiInv, Shape, StaticVariables
<1>2. OwnFunctions' /\ OneHolder'
  BY DEF ApiInv, OwnFunctions, OneHolder
<1>3. \A l : Held(l)' = Held(l)
  BY DEF Held
<1>4. NothingLeftBehind'
  BY <1>3 DEF ApiInv, NothingLeftBehind
<1>5. ReadyApisWork'
  BY DEF ApiInv, ReadyApisWork
<1> QED
  BY <1>1, <1>2, <1>4, <1>5 DEF ApiInv

LEMMA CallStep ==
  ASSUME ApiInv, NEW a \in Apis, NEW f \in Functions, NEW k, NEW source,
         Call(a, f, k, source)
  PROVE  ApiInv'
<1> PICK l : l = api[a].libHandle
  OBVIOUS
<1>0. /\ ready[a]
      /\ UNCHANGED <<api, ready, opened, again>>
  BY DEF Call
<1>1. CASE api[a].fn[f] # "lib"
  <2>1. UNCHANGED <<plugin, fault>>
    BY <1>1 DEF Call
  <2> QED
    BY <1>0, <2>1, SameStep
<1>2. CASE api[a].fn[f] = "lib"
  <2>1. l \in DOMAIN Libraries /\ l # Nothing
    BY <1>2 DEF ApiInv, Shape, OwnFunctions, Object
  <2>2. \/ plugin' = [plugin EXCEPT ![l] = KeyCall(plugin[l], f, k, source)] /\ fault' = fault
        \/ UNCHANGED plugin /\ fault' = TRUE /\ plugin[l].store # "ready"
    BY <1>2 DEF Call
  <2>3. again \/ fault' = fault
    BY <1>0, <2>1, <2>2 DEF ApiInv, ReadyApisWork
  <2>4. /\ DOMAIN plugin' = DOMAIN Libraries
        /\ DOMAIN plugin'[l] = Fields
        /\ plugin'[l].initialized = plugin[l].initialized
        /\ plugin'[l].store = plugin[l].store
        /\ \A m \in DOMAIN Libraries \ {l} : plugin'[m] = plugin[m]
    BY <2>1, <2>2, StorageKept DEF ApiInv, Shape, StaticVariables
  <2>5. Shape' /\ StaticVariables'
    BY <1>0, <2>2, <2>4 DEF ApiInv, Shape, StaticVariables
  <2>6. OwnFunctions' /\ OneHolder'
    BY <1>0 DEF ApiInv, OwnFunctions, OneHolder
  <2>7. NothingLeftBehind'
    <3>1. \A m : Held(m)' = Held(m)
      BY <1>0 DEF Held
    <3>2. a \in Held(l)
      BY DEF Held
    <3> QED
      BY <1>0, <2>4, <3>1, <3>2 DEF ApiInv, NothingLeftBehind
  <2>8. ReadyApisWork'
    <3>1. \A m \in DOMAIN Libraries : /\ plugin'[m].initialized = plugin[m].initialized
                                      /\ plugin'[m].store = plugin[m].store
      BY <2>4
    <3>2. \A b \in Apis : api[b].libHandle # Nothing => api[b].libHandle \in DOMAIN Libraries
      BY DEF ApiInv, Shape, Object
    <3> QED
      BY <1>0, <2>3, <3>1, <3>2 DEF ApiInv, ReadyApisWork
  <2> QED
    BY <2>5, <2>6, <2>7, <2>8 DEF ApiInv
<1> QED
  BY <1>1, <1>2

LEMMA NextInv == ApiInv /\ [ApiNext]_apiVars => ApiInv'
<1> SUFFICES ASSUME ApiInv, [ApiNext]_apiVars PROVE ApiInv'
  OBVIOUS
<1>1. CASE UNCHANGED <<api, ready, opened, plugin, again, fault>>
  BY <1>1, SameStep
<1>2. CASE UNCHANGED apiVars
  BY <1>1, <1>2 DEF apiVars
<1>3. CASE ApiNext
  <2> PICK a \in Apis :
        \/ \E file \in DOMAIN Configs : SetConfig(a, file)
        \/ InitAgain(a) \/ InitLocal(a) \/ InitUnopened(a) \/ InitBound(a) \/ InitRefused(a)
        \/ Unbind(a)
        \/ \E f \in Functions, k \in KeyNames, source \in {0, 1} : Call(a, f, k, source)
    BY <1>3 DEF ApiNext
  <2>1. CASE \E file \in DOMAIN Configs : SetConfig(a, file)
    BY <2>1, SetConfigStep
  <2>2. CASE InitAgain(a)
    BY <1>1, <2>2 DEF InitAgain
  <2>3. CASE InitLocal(a) \/ InitUnopened(a)
    <3>1. api[a].libHandle = Nothing
      BY <2>3 DEF InitLocal, InitUnopened
    <3> QED
      BY <2>3, <3>1, UnboundStep
  <2>4. CASE InitBound(a)
    BY <2>4, BoundStep
  <2>5. CASE InitRefused(a)
    BY <2>5, RefusedStep
  <2>6. CASE Unbind(a)
    BY <2>6, UnboundStep, UnbindStep
  <2>7. CASE \E f \in Functions, k \in KeyNames, source \in {0, 1} : Call(a, f, k, source)
    BY <2>7, CallStep
  <2> QED
    BY <2>1, <2>2, <2>3, <2>4, <2>5, <2>6, <2>7
<1> QED
  BY <1>2, <1>3

(* In every run a library is open as often as objects hold it and nothing  *)
(* stays behind of a refused srxCryptoInit or after the last unbind.       *)
THEOREM HandlesGivenBack == ApiSpec => []NothingLeftBehind
<1>1. ApiInv => NothingLeftBehind
  BY DEF ApiInv
<1> QED
  BY <1>1, InitInv, NextInv, PTL DEF ApiSpec

(* In every run, until a plug-in in use is initialized again, an object    *)
(* whose srxCryptoInit succeeded has all its functions and their storage.  *)
THEOREM ReadyApisUsable == ApiSpec => []ReadyApisWork
<1>1. ApiInv => ReadyApisWork
  BY DEF ApiInv
<1> QED
  BY <1>1, InitInv, NextInv, PTL DEF ApiSpec

-----------------------------------------------------------------------------
(* Key lists                                                               *)

(* Reading breaks off at the first key that cannot be loaded: a key is     *)
(* read if it and all before it can.                                       *)
LEMMA KeyRead ==
  ASSUME NEW L \in Seq(Line), NEW s, NEW private, NEW k
  PROVE  k \in readKeyFile(s, L, private) <=>
           \E i \in 1..Len(L) : /\ L[i].key = k /\ ~L[i].skip
                                /\ \A j \in 1..i : L[j].skip \/ Loads(s, L[j].key, private)
<1> DEFINE I == {i \in 1..Len(L) : ~L[i].skip /\ ~Loads(s, L[i].key, private)}
           stop == IF I # {} THEN Min(I) ELSE 0
           read == IF stop = 0 THEN 1..Len(L) ELSE 1..(stop - 1)
<1>1. readKeyFile(s, L, private) = {L[i].key : i \in {j \in read : ~L[j].skip}}
  BY DEF readKeyFile, SelectInSeq
<1>2. Len(L) \in Nat
  OBVIOUS
<1>3. \A i \in Nat : i \in read <=> i \in 1..Len(L) /\ \A j \in 1..i : j \notin I
  <2>1. CASE I = {}
    <3>1. read = 1..Len(L)
      BY <2>1
    <3> HIDE DEF I, read
    <3> QED BY <2>1, <3>1
  <2>2. CASE I # {}
    <3>1. Min(I) \in I /\ \A j \in I : Min(I) <= j
      <4>1. I \in SUBSET Nat
        OBVIOUS
      <4> HIDE DEF I
      <4> QED BY <2>2, <4>1, FirstPosition
    <3> DEFINE m == Min(I)
    <3>2. m \in 1..Len(L) /\ m \in I /\ \A j \in I : m <= j
      BY <3>1
    <3> HIDE DEF m
    <3>3. read = 1..(m - 1)
      BY <2>2, <3>2 DEF m
    <3> HIDE DEF I, read
    <3> QED BY <1>2, <3>2, <3>3
  <2> QED BY <2>1, <2>2
<1>4. read \in SUBSET Nat
  OBVIOUS
<1>5. \A j \in 1..Len(L) : j \notin I <=> L[j].skip \/ Loads(s, L[j].key, private)
  OBVIOUS
<1>6. \A i \in 1..Len(L) : 1..i \subseteq 1..Len(L) /\ i \in Nat
  BY <1>2
<1> HIDE DEF I, read
<1>7. \A i \in 1..Len(L) : i \in read <=> \A j \in 1..i : L[j].skip \/ Loads(s, L[j].key, private)
  BY <1>3, <1>5, <1>6
<1>8. read \subseteq 1..Len(L)
  BY <1>3, <1>4
<1> QED
  BY <1>1, <1>7, <1>8

(* What the lists of a configuration bring under its own settings is what  *)
(* they name.                                                              *)
LEMMA KeysListed ==
  ASSUME NEW c, NEW type
  PROVE  KeysOf(OwnSettings(c), c.init_value, type) = Listed(c, type)
<1> DEFINE s == OwnSettings(c)
<1>1. ASSUME NEW file
      PROVE  ListOf(file) \in Seq(Line) /\ DOMAIN ListOf(file) = 1..Len(ListOf(file))
  BY FileInputs DEF ListOf
<1>2. ASSUME NEW file, NEW i \in 1..Len(ListOf(file))
      PROVE  ListOf(file)[i].key \in KeyNames
  <2>1. ListOf(file)[i] \in Line
    BY <1>1
  <2> QED BY <2>1 DEF Line
<1> HIDE DEF s
<1>3. ASSUME NEW k
      PROVE  k \in KeysOf(s, c.init_value, type) <=>
               k \in KeyNames /\ \E p \in ToSet(c.init_value) : p.type = type /\
                 k \in readKeyFile(s, ListOf(p.file), type = "PRIV")
  <2>1. ASSUME NEW file, k \in readKeyFile(s, ListOf(file), type = "PRIV")
        PROVE  k \in KeyNames
    <3>1. PICK i \in 1..Len(ListOf(file)) : ListOf(file)[i].key = k
      BY <1>1, <2>1, KeyRead
    <3> QED BY <1>2, <3>1
  <2> QED BY <2>1 DEF KeysOf
<1>4. ASSUME NEW k \in KeyNames, NEW p
      PROVE  k \in readKeyFile(s, ListOf(p.file), type = "PRIV") <=>
               LET L == ListOf(p.file) IN
               \E i \in DOMAIN L : /\ L[i].key = k /\ ~L[i].skip
                                   /\ \A j \in 1..i : L[j].skip \/ Loads(s, L[j].key, type = "PRIV")
  <2> DEFINE L == ListOf(p.file)
  <2>1. L \in Seq(Line) /\ DOMAIN L = 1..Len(L)
    BY <1>1
  <2> HIDE DEF L
  <2>2. k \in readKeyFile(s, L, type = "PRIV") <=>
          \E i \in 1..Len(L) : /\ L[i].key = k /\ ~L[i].skip
                               /\ \A j \in 1..i : L[j].skip \/ Loads(s, L[j].key, type = "PRIV")
    BY <2>1, KeyRead
  <2> QED BY <2>1, <2>2 DEF L
<1>5. ASSUME NEW k
      PROVE  k \in KeysOf(s, c.init_value, type) <=> k \in Listed(c, type)
  <2> DEFINE Asked(q) == LET L == ListOf(q.file) IN
               \E i \in DOMAIN L : /\ L[i].key = k /\ ~L[i].skip
                                   /\ \A j \in 1..i : L[j].skip \/ Loads(s, L[j].key, type = "PRIV")
  <2>1. k \in Listed(c, type) <=>
          k \in KeyNames /\ \E q \in ToSet(c.init_value) : q.type = type /\ Asked(q)
    BY Zenon DEF Listed, s
  <2>2. ASSUME NEW q, k \in KeyNames
        PROVE  k \in readKeyFile(s, ListOf(q.file), type = "PRIV") <=> Asked(q)
    BY <1>4, <2>2
  <2> HIDE DEF Asked
  <2> QED BY <1>3, <2>1, <2>2
<1> QED
  BY <1>5 DEF KeysOf, Listed, s

-----------------------------------------------------------------------------
(* The last srxCryptoInit was one of the program's objects.                *)
AnswerKnown == answer.fn = "srxCryptoInit" => answer.api \in Apis

ListInv == AnswerKnown /\ KeysAsListed

(* Only an srxCryptoInit that binds a library has something to show.       *)
LEMMA NothingToShow ==
  ASSUME AnswerKnown', answer'.fn # "srxCryptoInit" \/ ~answer'.ok
                       \/ api'[answer'.api].libHandle = Nothing
  PROVE  ListInv'
BY DEF ListInv, KeysAsListed

LEMMA KeysBound ==
  ASSUME ApiInv, NEW a \in Apis, InitBound(a)
  PROVE  ListInv'
<1> PICK c : c = Conf(a)
  OBVIOUS
<1> DEFINE l == c.library_name
           g == SettingsOf(a)
<1>1. answer' = [fn |-> "srxCryptoInit", api |-> a, ok |-> TRUE]
  BY DEF InitBound, Answer
<1>2. /\ api'[a].configFile = ConfigFile(a) /\ api'[a].libHandle = l
      /\ l \in DOMAIN Libraries
  BY DEF InitBound, Openable, ApiInv, Shape
<1>3. plugin'[l].pub = KeysOf(g, c.init_value, "PUB") /\ plugin'[l].priv = KeysOf(g, c.init_value, "PRIV")
  <2>1. plugin'[l] = init(plugin[l], g, c.init_value) /\ ~InitFails(plugin[l], c.init_value)
    BY <1>2 DEF InitBound, ApiInv, Shape
  <2> HIDE DEF g
  <2> QED BY <2>1 DEF init
<1>4. c.key_vault \notin LongPaths \cup {Nothing} => g = OwnSettings(c)
  BY DEF InitBound, Openable, SettingsOf, GeneralConfiguration, OwnSettings
<1> HIDE DEF l, g
<1>5. c.key_vault \notin LongPaths \cup {Nothing} =>
        plugin'[l].pub = Listed(c, "PUB") /\ plugin'[l].priv = Listed(c, "PRIV")
  BY <1>3, <1>4, KeysListed
<1>6. Configs[api'[a].configFile] = c
  BY <1>2 DEF Conf
<1>7. answer'.api = a /\ answer'.fn = "srxCryptoInit"
  BY <1>1
<1> QED
  BY <1>2, <1>5, <1>6, <1>7 DEF ListInv, AnswerKnown, KeysAsListed

LEMMA ListStep == ApiInv /\ ListInv /\ [ApiNext]_apiVars => ListInv'
<1> SUFFICES ASSUME ApiInv, ListInv, [ApiNext]_apiVars PROVE ListInv'
  OBVIOUS
<1>1. CASE UNCHANGED <<api, plugin, answer>>
  BY <1>1 DEF ListInv, AnswerKnown, KeysAsListed
<1>2. CASE UNCHANGED apiVars
  BY <1>1, <1>2 DEF apiVars
<1>3. ASSUME NEW a \in Apis, NEW file \in DOMAIN Configs, SetConfig(a, file)
      PROVE  ListInv'
  <2>1. answer' = answer /\ plugin' = plugin
    BY <1>3 DEF SetConfig
  <2>2. api'[a].libHandle = Nothing /\ \A b \in Apis \ {a} : api'[b] = api[b]
    BY <1>3 DEF SetConfig, Unbound, ApiInv, Shape
  <2>3. AnswerKnown'
    BY <2>1 DEF ListInv, AnswerKnown
  <2>4. CASE answer.api = a
    BY <2>1, <2>2, <2>3, <2>4, NothingToShow
  <2>5. CASE answer.api # a
    BY <2>1, <2>2, <2>3, <2>5 DEF ListInv, AnswerKnown, KeysAsListed
  <2> QED BY <2>4, <2>5
<1>4. ASSUME NEW a \in Apis,
             InitAgain(a) \/ InitLocal(a) \/ InitUnopened(a) \/ InitRefused(a) \/ Unbind(a)
      PROVE  ListInv'
  <2>1. AnswerKnown'
    BY <1>4 DEF InitAgain, InitLocal, InitUnopened, InitRefused, Unbind, Answer, AnswerKnown
  <2>2. CASE InitLocal(a)
    <3>1. answer'.api = a /\ api'[a].libHandle = Nothing
      BY <2>2 DEF InitLocal, Answer, ApiInv, Shape
    <3> QED BY <2>1, <3>1, NothingToShow
  <2>3. CASE ~InitLocal(a)
    <3>1. answer'.fn # "srxCryptoInit" \/ ~answer'.ok
      BY <1>4, <2>3 DEF InitAgain, InitUnopened, InitRefused, Unbind, Answer
    <3> QED BY <2>1, <3>1, NothingToShow
  <2> QED BY <2>2, <2>3
<1>5. ASSUME NEW a \in Apis, NEW f \in Functions, NEW k, NEW source, Call(a, f, k, source)
      PROVE  ListInv'
  <2>1. CASE UNCHANGED <<answer, plugin>>
    BY <1>1, <1>5, <2>1 DEF Call
  <2>2. CASE ~UNCHANGED <<answer, plugin>>
    <3>1. answer'.fn = f
      BY <1>5, <2>2 DEF Call, Answer
    <3>2. answer'.fn # "srxCryptoInit"
      BY <3>1 DEF Functions
    <3> QED BY <3>2, NothingToShow DEF AnswerKnown
  <2> QED BY <2>1, <2>2
<1> QED
  BY <1>2, <1>3, <1>4, <1>5, KeysBound DEF ApiNext

(* In every run a plug-in has, when its srxCryptoInit has succeeded, the   *)
(* keys that the lists of the object's configuration name, each with all   *)
(* before it, and no keys of another's directory or extension, unless its  *)
(* own directory is missing or too long.                                   *)
THEOREM ListedKeysLoaded == ApiSpec => []KeysAsListed
<1>1. ApiInit => ListInv
  <2>1. ApiInit => answer = NoAnswer
    BY DEF ApiInit
  <2>2. NoAnswer.fn = "none"
    BY DEF NoAnswer
  <2> QED BY <2>1, <2>2 DEF ListInv, AnswerKnown, KeysAsListed
<1>2. ListInv => KeysAsListed
  BY DEF ListInv
<1> QED
  BY <1>1, <1>2, InitInv, NextInv, ListStep, PTL DEF ApiSpec
=============================================================================
