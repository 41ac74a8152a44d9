-------------------------- MODULE SecurePathProofs --------------------------
(***************************************************************************)
(* What is true of every path, key list and attribute of SecurePath.       *)
(*                                                                         *)
(* In order: the list of keys, paths and segments, signing, lengths of     *)
(* messages, the message of the signer and the validator's, the            *)
(* attribute's lengths, and the path that the segments spell.              *)
(***************************************************************************)
EXTENDS SecurePath, SequenceLemmas


-----------------------------------------------------------------------------
(* The list of keys                                                        *)

Skis == {Lines[i].ski : i \in DOMAIN Lines}
Elements == [asn : Nat, ski : Skis, public : BOOLEAN, loaded : BOOLEAN]

Sorted(L) == \A j, k \in 1..Len(L) : j < k => ~Smaller(L[k], L[j])

(* The first element of L for a key is x; there is none.                   *)
Is(e, asn, public) == e.asn = asn /\ e.public = public
FirstIs(L, asn, public, x) ==
  /\ Is(x, asn, public)
  /\ \E j \in 1..Len(L) : L[j] = x /\ \A k \in 1..(j - 1) : ~Is(L[k], asn, public)
NoneIs(L, asn, public) == \A j \in 1..Len(L) : ~Is(L[j], asn, public)

(* A set of positions has a first one.                                     *)
LEMMA FirstPosition ==
  ASSUME NEW I \in SUBSET Nat, I # {}
  PROVE  Min(I) \in I /\ \A j \in I : Min(I) <= j
<1>1. PICK x \in I : \A y \in I : x <= y  BY LeastOf
<1> QED  BY <1>1 DEF Min

(* Smaller is a weak order of the elements.                                *)
LEMMA SmallerOrders ==
  ASSUME NEW e \in Elements, NEW f \in Elements, NEW g \in Elements
  PROVE  /\ Smaller(e, f) /\ ~Smaller(g, f) => Smaller(e, g)
         /\ ~Smaller(f, e) /\ ~Smaller(g, f) => ~Smaller(g, e)
         /\ ~Smaller(e, e)
         /\ Smaller(e, f) => ~Smaller(f, e)
         /\ \A asn, public : Is(e, asn, public) /\ Is(f, asn, public) => ~Smaller(e, f)
<1>1. /\ e.asn \in Nat /\ f.asn \in Nat /\ g.asn \in Nat
      /\ e.public \in BOOLEAN /\ f.public \in BOOLEAN /\ g.public \in BOOLEAN
  BY DEF Elements
<1> QED  BY <1>1 DEF Smaller, Is

(* Where an element is inserted.                                           *)
InsertedAt(M, L, e, p) ==
  /\ Len(M) = Len(L) + 1 /\ M[p] = e
  /\ \A i \in 1..(p - 1) : M[i] = L[i] /\ ~Smaller(e, L[i])
  /\ \A i \in p..Len(L) : M[i + 1] = L[i]
  /\ p <= Len(L) => Smaller(e, L[p])

(* The lengths of the three pieces of a split sequence.                    *)
Reaches(lc, lm, n, p) == lc = p /\ lm = n + 1

LEMMA SpliceLengths ==
  ASSUME NEW n \in Nat, NEW p \in 1..n, NEW la, NEW lb, NEW ld, NEW lc, NEW lm,
         la = p - 1, lb = n + 1 - p, ld = 1, lc = la + ld, lm = lc + lb
  PROVE  Reaches(lc, lm, n, p)
<1>1. p \in Nat /\ la \in Int /\ lb \in Int /\ lc = p - 1 + 1  OBVIOUS
<1>2. lc = p  BY <1>1
<1> QED  BY <1>1, <1>2 DEF Reaches

LEMMA Splice ==
  ASSUME NEW S, NEW L \in Seq(S), NEW e \in S, NEW p \in 1..Len(L),
         NEW M, M = InsertAt(L, p, e)
  PROVE  /\ M \in Seq(S) /\ Len(M) = Len(L) + 1 /\ M[p] = e
         /\ \A i \in 1..(p - 1) : M[i] = L[i]
         /\ \A i \in p..Len(L) : M[i + 1] = L[i]
<1> DEFINE a == SubSeq(L, 1, p - 1)
           b == SubSeq(L, p, Len(L))
           d == <<e>>
           c == a \o d
<1>0. Len(L) \in Nat /\ p \in Nat /\ 1 <= p /\ p <= Len(L)  OBVIOUS
<1>1. a \in Seq(S) /\ Len(a) = p - 1 /\ \A i \in 1..(p - 1) : a[i] = L[i]  BY <1>0
<1>2. b \in Seq(S) /\ Len(b) = Len(L) + 1 - p
      /\ \A i \in 1..(Len(L) + 1 - p) : b[i] = L[p + i - 1]
  BY <1>0
<1>3. d \in Seq(S) /\ Len(d) = 1 /\ d[1] = e  OBVIOUS
<1>4. M = c \o b  BY DEF InsertAt
<1> HIDE DEF a, b, d
<1>5. /\ c \in Seq(S) /\ Len(c) = Len(a) + Len(d)
      /\ \A i \in 1..Len(a) : c[i] = a[i]
      /\ \A i \in 1..Len(d) : c[Len(a) + i] = d[i]
  <2>1. c \in Seq(S) /\ Joins(c, a, d)  BY Zenon, <1>1, <1>3, ConcatParts
  <2> HIDE DEF c
  <2> QED  BY Zenon, <2>1 DEF Joins
<1> HIDE DEF c
<1>6. /\ M \in Seq(S) /\ Len(M) = Len(c) + Len(b)
      /\ \A i \in 1..Len(c) : M[i] = c[i]
      /\ \A i \in 1..Len(b) : M[Len(c) + i] = b[i]
  <2>1. c \o b \in Seq(S) /\ Joins(c \o b, c, b)  BY Zenon, <1>2, <1>5, ConcatParts
  <2> QED  BY Zenon, <1>4, <2>1 DEF Joins
<1>7. Len(c) = p /\ Len(M) = Len(L) + 1
  <2>1. /\ Len(a) = p - 1 /\ Len(b) = Len(L) + 1 - p /\ Len(d) = 1
        /\ Len(c) = Len(a) + Len(d) /\ Len(M) = Len(c) + Len(b)
    BY Zenon, <1>1, <1>2, <1>3, <1>5, <1>6
  <2>2. Reaches(Len(c), Len(M), Len(L), p)  BY Zenon, <1>0, <2>1, SpliceLengths
  <2> QED  BY Zenon, <2>2 DEF Reaches
<1>8. M[p] = e
  <2>1. 1 \in 1..Len(d) /\ Len(a) + 1 = p /\ p \in 1..Len(c)  BY <1>0, <1>1, <1>3, <1>7
  <2>2. c[Len(a) + 1] = d[1] /\ M[p] = c[p]  BY Zenon, <1>5, <1>6, <2>1
  <2> QED  BY <1>3, <2>1, <2>2
<1>9. ASSUME NEW i \in 1..(p - 1) PROVE M[i] = L[i]
  <2>1. i \in 1..Len(a) /\ i \in 1..Len(c)  BY <1>0, <1>1, <1>7
  <2>2. M[i] = c[i] /\ c[i] = a[i] /\ a[i] = L[i]  BY Zenon, <1>1, <1>5, <1>6, <2>1
  <2> QED  BY <2>2
<1>10. ASSUME NEW i \in p..Len(L) PROVE M[i + 1] = L[i]
  <2> PICK k : k = i + 1 - p  OBVIOUS
  <2>1. i \in Nat /\ p <= i /\ i <= Len(L)  BY <1>0
  <2>2. k \in 1..(Len(L) + 1 - p) /\ Len(c) + k = i + 1 /\ p + k - 1 = i  BY <1>0, <1>7, <2>1
  <2>3. k \in 1..Len(b)  BY <1>2, <2>2
  <2>4. M[Len(c) + k] = b[k] /\ b[k] = L[p + k - 1]  BY Zenon, <1>2, <1>6, <2>2, <2>3
  <2> QED  BY <2>2, <2>4
<1> QED  BY <1>6, <1>7, <1>8, <1>9, <1>10

LEMMA Insertion ==
  ASSUME NEW L \in Seq(Elements), NEW e \in Elements
  PROVE  /\ InsertElement(L, e) \in Seq(Elements)
         /\ \E p \in 1..(Len(L) + 1) : InsertedAt(InsertElement(L, e), L, e, p)
<1> DEFINE I == {i \in 1..Len(L) : Smaller(e, L[i])}
<1> PICK M : M = InsertElement(L, e)  OBVIOUS
<1>1. M = IF I # {} THEN (IF Min(I) = 0 THEN Append(L, e) ELSE InsertAt(L, Min(I), e))
          ELSE Append(L, e)
  BY DEF InsertElement, SelectInSeq
<1>2. Len(L) \in Nat  OBVIOUS
<1>3. CASE I = {}
  <2>1. M = Append(L, e)  BY <1>1, <1>3
  <2>2. InsertedAt(M, L, e, Len(L) + 1)
    <3>1. Len(M) = Len(L) + 1 /\ M[Len(L) + 1] = e /\ \A i \in 1..Len(L) : M[i] = L[i]
      BY <2>1
    <3>2. \A i \in 1..Len(L) : ~Smaller(e, L[i])  BY <1>3
    <3> HIDE DEF I
    <3> QED  BY <1>2, <3>1, <3>2 DEF InsertedAt
  <2> QED  BY <1>2, <2>1, <2>2
<1>4. CASE I # {}
  <2>1. Min(I) \in I /\ \A j \in I : Min(I) <= j
    <3>1. I \in SUBSET Nat  BY <1>2
    <3> HIDE DEF I
    <3> QED  BY <1>4, <3>1, FirstPosition
  <2> PICK p : p = Min(I)  OBVIOUS
  <2>2. p \in 1..Len(L) /\ Smaller(e, L[p]) /\ \A i \in 1..(p - 1) : ~Smaller(e, L[i])
    BY <2>1
  <2>3. M = InsertAt(L, p, e)  BY <1>1, <1>4, <2>2
  <2> HIDE DEF I
  <2>5. /\ M \in Seq(Elements) /\ Len(M) = Len(L) + 1 /\ M[p] = e
        /\ \A i \in 1..(p - 1) : M[i] = L[i]
        /\ \A i \in p..Len(L) : M[i + 1] = L[i]
    BY <2>2, <2>3, Splice
  <2>11. InsertedAt(M, L, e, p)  BY Zenon, <2>2, <2>5 DEF InsertedAt
  <2>12. p \in 1..(Len(L) + 1)  BY <1>2, <2>2
  <2> QED  BY <2>5, <2>11, <2>12
<1> QED  BY <1>3, <1>4

LEMMA InsertionSorts ==
  ASSUME NEW L \in Seq(Elements), NEW e \in Elements, Sorted(L)
  PROVE  Sorted(InsertElement(L, e))
<1> PICK M : M = InsertElement(L, e)  OBVIOUS
<1>1. M \in Seq(Elements)  BY Zenon, Insertion
<1>2. PICK p \in 1..(Len(L) + 1) : InsertedAt(M, L, e, p)  BY Zenon, Insertion
<1>3. Len(L) \in Nat /\ Len(M) = Len(L) + 1  BY <1>2 DEF InsertedAt
<1>4. \A i \in 1..(p - 1) : i \in 1..Len(L) /\ M[i] = L[i] /\ ~Smaller(e, L[i])
  BY <1>2, <1>3 DEF InsertedAt
<1>5. \A i \in (p + 1)..Len(M) : i - 1 \in 1..Len(L) /\ i - 1 >= p /\ M[i] = L[i - 1]
  <2> SUFFICES ASSUME NEW i \in (p + 1)..Len(M)
               PROVE  i - 1 \in 1..Len(L) /\ i - 1 >= p /\ M[i] = L[i - 1]
    OBVIOUS
  <2>1. i - 1 \in p..Len(L) /\ (i - 1) + 1 = i  BY <1>3
  <2>2. M[(i - 1) + 1] = L[i - 1]  BY <1>2, <2>1 DEF InsertedAt
  <2> QED  BY <1>3, <2>1, <2>2
<1>6. M[p] = e /\ (p <= Len(L) => Smaller(e, L[p]))  BY <1>2 DEF InsertedAt
<1>7. \A i \in 1..Len(L) : L[i] \in Elements  OBVIOUS
<1>8. \A j, k \in 1..Len(L) : j < k => ~Smaller(L[k], L[j])  BY DEF Sorted
<1>9. ASSUME NEW j \in 1..Len(M), NEW k \in 1..Len(M), j < k PROVE ~Smaller(M[k], M[j])
  <2>1. CASE k < p
    <3>1. j \in 1..(p - 1) /\ k \in 1..(p - 1)  BY <1>3, <1>9, <2>1
    <3> QED  BY <1>4, <1>8, <1>9, <3>1
  <2>2. CASE k = p
    <3>1. j \in 1..(p - 1)  BY <1>3, <1>9, <2>2
    <3> QED  BY <1>4, <1>6, <2>2, <3>1
  <2>3. CASE k > p /\ j < p
    <3>1. j \in 1..(p - 1) /\ k \in (p + 1)..Len(M)  BY <1>3, <2>3
    <3>2. M[j] = L[j] /\ M[k] = L[k - 1] /\ j \in 1..Len(L) /\ k - 1 \in 1..Len(L) /\ k - 1 >= p
      BY <1>4, <1>5, <3>1
    <3>3. j < k - 1  BY <1>3, <2>3, <3>2
    <3> QED  BY <1>8, <3>2, <3>3
  <2>4. CASE k > p /\ j = p
    <3>1. k \in (p + 1)..Len(M)  BY <1>3, <2>4
    <3>2. M[k] = L[k - 1] /\ k - 1 \in 1..Len(L) /\ k - 1 >= p  BY <1>5, <3>1
    <3>3. p \in 1..Len(L) /\ Smaller(e, L[p])  BY <1>3, <1>6, <3>2
    <3>4. k - 1 = p \/ ~Smaller(L[k - 1], L[p])  BY <1>8, <3>2, <3>3
    <3>5. Smaller(e, L[k - 1])
      <4>1. L[p] \in Elements /\ L[k - 1] \in Elements  BY <1>7, <3>2, <3>3
      <4>2. k - 1 # p => Smaller(e, L[k - 1])  BY Zenon, <3>3, <3>4, <4>1, SmallerOrders
      <4> QED  BY <3>3, <4>2
    <3>6. ~Smaller(L[k - 1], e)  BY Zenon, <1>7, <3>2, <3>5, SmallerOrders
    <3> QED  BY <1>6, <2>4, <3>2, <3>6
  <2>5. CASE j > p
    <3>1. j \in (p + 1)..Len(M) /\ k \in (p + 1)..Len(M)  BY <1>3, <1>9, <2>5
    <3>2. M[j] = L[j - 1] /\ M[k] = L[k - 1] /\ j - 1 \in 1..Len(L) /\ k - 1 \in 1..Len(L)
      BY <1>5, <3>1
    <3>3. j - 1 < k - 1  BY <1>3, <1>9
    <3> QED  BY <1>8, <3>2, <3>3
  <2> QED  BY <1>3, <1>9, <2>1, <2>2, <2>3, <2>4, <2>5
<1> QED  BY <1>9 DEF Sorted

(* What was first for its key stays first.                                 *)
LEMMA InsertionKeeps ==
  ASSUME NEW L \in Seq(Elements), NEW e \in Elements, Sorted(L), NEW asn, NEW public
  PROVE  /\ \A x : FirstIs(L, asn, public, x) => FirstIs(InsertElement(L, e), asn, public, x)
         /\ NoneIs(L, asn, public) =>
              IF Is(e, asn, public) THEN FirstIs(InsertElement(L, e), asn, public, e)
              ELSE NoneIs(InsertElement(L, e), asn, public)
<1> DEFINE M == InsertElement(L, e)
<1>1. PICK p \in 1..(Len(L) + 1) : InsertedAt(M, L, e, p)  BY Zenon, Insertion
<1> HIDE DEF M
<1>2. Len(L) \in Nat /\ Len(M) = Len(L) + 1 /\ p \in Nat /\ p \in 1..Len(M)
  BY <1>1 DEF InsertedAt
<1>3. \A i \in 1..(p - 1) : i \in 1..Len(L) /\ M[i] = L[i]
  BY <1>1, <1>2 DEF InsertedAt
<1>4. \A i \in (p + 1)..Len(M) : i - 1 \in p..Len(L) /\ i - 1 \in 1..Len(L) /\ M[i] = L[i - 1]
  <2> SUFFICES ASSUME NEW i \in (p + 1)..Len(M)
               PROVE  i - 1 \in p..Len(L) /\ i - 1 \in 1..Len(L) /\ M[i] = L[i - 1]
    OBVIOUS
  <2>1. i - 1 \in p..Len(L) /\ (i - 1) + 1 = i  BY <1>2
  <2>2. M[(i - 1) + 1] = L[i - 1]  BY <1>1, <2>1 DEF InsertedAt
  <2> QED  BY <1>2, <2>1, <2>2
<1>5. M[p] = e /\ (p <= Len(L) => Smaller(e, L[p]))  BY <1>1 DEF InsertedAt
<1>6. \A i \in 1..Len(L) : L[i] \in Elements  OBVIOUS
<1>7. ASSUME NEW x, FirstIs(L, asn, public, x) PROVE FirstIs(M, asn, public, x)
  <2>0. Is(x, asn, public)  BY <1>7 DEF FirstIs
  <2>1. PICK j \in 1..Len(L) : L[j] = x /\ \A k \in 1..(j - 1) : ~Is(L[k], asn, public)
    BY <1>7 DEF FirstIs
  <2>2. CASE j < p
    <3>1. j \in 1..(p - 1) /\ j \in 1..Len(M)  BY <1>2, <2>2
    <3>2. M[j] = x  BY <1>3, <2>1, <3>1
    <3>3. \A k \in 1..(j - 1) : k \in 1..(p - 1)  BY <1>2, <2>2
    <3>4. \A k \in 1..(j - 1) : ~Is(M[k], asn, public)  BY <1>3, <2>1, <3>3
    <3> QED  BY <2>0, <3>1, <3>2, <3>4 DEF FirstIs
  <2>3. CASE ~(j < p)
    <3>1. j \in p..Len(L) /\ j + 1 \in (p + 1)..Len(M) /\ (j + 1) - 1 = j /\ j + 1 \in 1..Len(M)
      BY <1>2, <2>3
    <3>2. M[j + 1] = x  BY <1>4, <2>1, <3>1
    <3>3. ~Is(e, asn, public)
      <4>1. p \in 1..Len(L) /\ Smaller(e, L[p])  BY <1>2, <1>5, <3>1
      <4>2. p = j \/ ~Smaller(L[j], L[p])  BY <1>2, <3>1, <4>1 DEF Sorted
      <4>3. Smaller(e, L[j])
        <5>1. p # j => Smaller(e, L[j])  BY Zenon, <1>6, <4>1, <4>2, SmallerOrders
        <5> QED  BY <4>1, <5>1
      <4> QED  BY Zenon, <1>6, <2>0, <2>1, <4>3, SmallerOrders
    <3>4. ASSUME NEW k \in 1..((j + 1) - 1) PROVE ~Is(M[k], asn, public)
      <4>0. j \in Nat /\ k \in Nat /\ 1 <= k /\ k <= j /\ j <= Len(L)  BY <1>2
      <4>1. CASE k < p
        <5>1. k \in 1..(p - 1) /\ k \in 1..(j - 1)  BY <1>2, <2>3, <4>0, <4>1
        <5> QED  BY Zenon, <1>3, <2>1, <5>1
      <4>2. CASE k = p
        BY <1>5, <3>3, <4>2
      <4>3. CASE k > p
        <5>1. k \in (p + 1)..Len(M) /\ k - 1 \in 1..(j - 1)  BY <1>2, <4>0, <4>3
        <5> QED  BY Zenon, <1>4, <2>1, <5>1
      <4> QED  BY <1>2, <4>0, <4>1, <4>2, <4>3
    <3> QED  BY <2>0, <3>1, <3>2, <3>4 DEF FirstIs
  <2> QED  BY <2>2, <2>3
<1>8. ASSUME NoneIs(L, asn, public), NEW k \in 1..Len(M), k # p PROVE ~Is(M[k], asn, public)
  <2>1. CASE k < p
    <3>1. k \in 1..(p - 1)  BY <1>2, <2>1
    <3> QED  BY <1>3, <1>8, <3>1 DEF NoneIs
  <2>2. CASE k > p
    <3>1. k \in (p + 1)..Len(M)  BY <1>2, <2>2
    <3> QED  BY <1>4, <1>8, <3>1 DEF NoneIs
  <2> QED  BY <1>2, <1>8, <2>1, <2>2
<1>9. ASSUME NoneIs(L, asn, public), Is(e, asn, public) PROVE FirstIs(M, asn, public, e)
  <2>1. \A k \in 1..(p - 1) : k \in 1..Len(M) /\ k # p  BY <1>2
  <2>2. \A k \in 1..(p - 1) : ~Is(M[k], asn, public)  BY <1>8, <1>9, <2>1
  <2> QED  BY <1>2, <1>5, <1>9, <2>2 DEF FirstIs
<1>10. ASSUME NoneIs(L, asn, public), ~Is(e, asn, public) PROVE NoneIs(M, asn, public)
  BY <1>5, <1>8, <1>10 DEF NoneIs
<1> QED  BY <1>7, <1>9, <1>10 DEF M

(* The list after the first n lines: for an AS the keys of its first line  *)
(* come first.                                                             *)
LineElement(line, public) ==
  [asn |-> line.asn, ski |-> line.ski, public |-> public,
   loaded |-> IF public THEN line.public ELSE line.private]

FirstLine(i, asn) == Lines[i].asn = asn /\ \A j \in 1..(i - 1) : Lines[j].asn # asn

Holds(L, n, asn, public) ==
  \/ (\A i \in 1..n : Lines[i].asn # asn) /\ NoneIs(L, asn, public)
  \/ \E i \in 1..n : FirstLine(i, asn) /\ FirstIs(L, asn, public, LineElement(Lines[i], public))

ListInv(L, n) ==
  /\ L \in Seq(Elements) /\ Sorted(L)
  /\ \A asn : \A public \in BOOLEAN : Holds(L, n, asn, public)

LEMMA LineFacts ==
  /\ Len(Lines) \in Nat /\ DOMAIN Lines = 1..Len(Lines)
  /\ \A i \in 1..Len(Lines) :
       /\ Lines[i].asn \in Nat /\ Lines[i].asn # 0
       /\ Lines[i].private \in BOOLEAN /\ Lines[i].public \in BOOLEAN
       /\ Lines[i].ski # FakeSki
       /\ \A public \in BOOLEAN : LineElement(Lines[i], public) \in Elements
<1>1. Len(Lines) \in Nat /\ DOMAIN Lines = 1..Len(Lines)  BY KeyFile
<1>2. ASSUME NEW i \in 1..Len(Lines)
      PROVE  /\ Lines[i].asn \in Nat /\ Lines[i].asn # 0
             /\ Lines[i].private \in BOOLEAN /\ Lines[i].public \in BOOLEAN
             /\ Lines[i].ski # FakeSki
  BY <1>1, KeyFile, Widths
<1>3. ASSUME NEW i \in 1..Len(Lines), NEW public \in BOOLEAN
      PROVE  LineElement(Lines[i], public) \in Elements
  <2>1. Lines[i].ski \in Skis  BY <1>1 DEF Skis
  <2> PICK l : l = Lines[i]  OBVIOUS
  <2>2. l.asn \in Nat /\ l.ski \in Skis /\ (IF public THEN l.public ELSE l.private) \in BOOLEAN
    BY <1>2, <2>1
  <2>3. LineElement(l, public) \in Elements  BY <2>2 DEF LineElement, Elements
  <2> QED  BY <2>3
<1> QED  BY Zenon, <1>1, <1>2, <1>3

LEMMA LoadElements ==
  ASSUME NEW L, NEW line
  PROVE  Load(L, line)
         = InsertElement(InsertElement(L, LineElement(line, TRUE)), LineElement(line, FALSE))
BY Zenon DEF Load, LineElement

LEMMA LoadKeeps ==
  ASSUME NEW n \in 1..Len(Lines), NEW L, ListInv(L, n - 1)
  PROVE  ListInv(Load(L, Lines[n]), n)
<1> DEFINE line == Lines[n]
           e1 == LineElement(line, TRUE)
           e2 == LineElement(line, FALSE)
           L1 == InsertElement(L, e1)
           L2 == InsertElement(L1, e2)
<1>1. L2 = Load(L, line)  BY Zenon, LoadElements
<1>2. e1 \in Elements /\ e2 \in Elements  BY Zenon, LineFacts
<1>3. \A asn, public : Is(e1, asn, public) <=> line.asn = asn /\ public = TRUE
  BY DEF Is, LineElement
<1>4. \A asn, public : Is(e2, asn, public) <=> line.asn = asn /\ public = FALSE
  BY DEF Is, LineElement
<1> HIDE DEF e1, e2
<1>5. L \in Seq(Elements) /\ Sorted(L)  BY Zenon DEF ListInv
<1>6. L1 \in Seq(Elements) /\ Sorted(L1)  BY Zenon, <1>2, <1>5, Insertion, InsertionSorts
<1>7. ASSUME NEW asn, NEW public
      PROVE  /\ \A x : FirstIs(L, asn, public, x) => FirstIs(L1, asn, public, x)
             /\ NoneIs(L, asn, public) =>
                  IF Is(e1, asn, public) THEN FirstIs(L1, asn, public, e1)
                  ELSE NoneIs(L1, asn, public)
  BY Zenon, <1>2, <1>5, InsertionKeeps
<1> HIDE DEF L1
<1>8. L2 \in Seq(Elements) /\ Sorted(L2)  BY Zenon, <1>2, <1>6, Insertion, InsertionSorts
<1>9. ASSUME NEW asn, NEW public
      PROVE  /\ \A x : FirstIs(L1, asn, public, x) => FirstIs(L2, asn, public, x)
             /\ NoneIs(L1, asn, public) =>
                  IF Is(e2, asn, public) THEN FirstIs(L2, asn, public, e2)
                  ELSE NoneIs(L2, asn, public)
  BY Zenon, <1>2, <1>6, InsertionKeeps
<1> HIDE DEF L2
<1>10. n \in Nat /\ n \in 1..n /\ \A i \in 1..(n - 1) : i \in 1..n
  BY LineFacts
<1>11. ASSUME NEW asn, NEW public \in BOOLEAN PROVE Holds(L2, n, asn, public)
  <2>1. Holds(L, n - 1, asn, public)  BY Zenon DEF ListInv
  <2>2. CASE \E i \in 1..(n - 1) : FirstLine(i, asn)
                  /\ FirstIs(L, asn, public, LineElement(Lines[i], public))
    <3>1. PICK i \in 1..(n - 1) : FirstLine(i, asn)
                  /\ FirstIs(L, asn, public, LineElement(Lines[i], public))
      BY <2>2
    <3>2. FirstIs(L2, asn, public, LineElement(Lines[i], public))  BY Zenon, <1>7, <1>9, <3>1
    <3>3. i \in 1..n  BY Zenon, <1>10
    <3> QED  BY Zenon, <3>1, <3>2, <3>3 DEF Holds
  <2>3. CASE (\A i \in 1..(n - 1) : Lines[i].asn # asn) /\ NoneIs(L, asn, public)
    <3>1. CASE line.asn # asn
      <4>1. NoneIs(L2, asn, public)  BY Zenon, <1>3, <1>4, <1>7, <1>9, <2>3, <3>1
      <4>2. \A i \in 1..n : i = n \/ i \in 1..(n - 1)  BY <1>10
      <4>3. \A i \in 1..n : Lines[i].asn # asn  BY Zenon, <2>3, <3>1, <4>2
      <4> QED  BY Zenon, <4>1, <4>3 DEF Holds
    <3>2. CASE line.asn = asn
      <4>1. FirstLine(n, asn)  BY Zenon, <2>3, <3>2 DEF FirstLine
      <4>2. FirstIs(L2, asn, public, LineElement(line, public))
        <5>1. CASE public = TRUE
          <6>1. FirstIs(L1, asn, public, e1)  BY Zenon, <1>3, <1>7, <2>3, <3>2, <5>1
          <6>2. FirstIs(L2, asn, public, e1)  BY Zenon, <1>9, <6>1
          <6> QED  BY Zenon, <5>1, <6>2 DEF e1
        <5>2. CASE public = FALSE
          <6>1. ~Is(e1, asn, public)  BY <1>3, <5>2
          <6>2. NoneIs(L1, asn, public)  BY Zenon, <1>7, <2>3, <6>1
          <6>3. FirstIs(L2, asn, public, e2)  BY Zenon, <1>4, <1>9, <6>2, <3>2, <5>2
          <6> QED  BY Zenon, <5>2, <6>3 DEF e2
        <5> QED  BY <5>1, <5>2
      <4> QED  BY Zenon, <1>10, <4>1, <4>2 DEF Holds
    <3> QED  BY <3>1, <3>2
  <2> QED  BY Zenon, <2>1, <2>2, <2>3 DEF Holds
<1>12. ListInv(L2, n)  BY Zenon, <1>8, <1>11 DEF ListInv
<1> QED  BY Zenon, <1>1, <1>12

LEMMA EmptyHolds == ListInv(<<>>, 0)
<1>1. <<>> \in Seq(Elements) /\ Len(<<>>) = 0 /\ 1..0 = {}  OBVIOUS
<1>2. Sorted(<<>>)  BY <1>1 DEF Sorted
<1>3. \A asn, public : NoneIs(<<>>, asn, public)  BY <1>1 DEF NoneIs
<1>4. \A asn : \A i \in 1..0 : Lines[i].asn # asn  BY <1>1
<1> QED  BY Zenon, <1>1, <1>2, <1>3, <1>4 DEF ListInv, Holds

LEMMA AsListHolds == ListInv(AsList, Len(Lines))
<1> DEFINE n == Len(Lines)
           V == Seq(Elements)
           step == [p \in (1..n) \X V |-> Load(p[2], Lines[p[1]])]
           Built(f) == f = [i \in 0..n |-> IF i = 0 THEN <<>> ELSE Load(f[i - 1], Lines[i])]
<1>1. n \in Nat /\ <<>> \in V /\ 0 \in 0..n /\ n \in 0..n  BY LineFacts
<1>2. step \in [(1..n) \X V -> V]
  <2>1. ASSUME NEW p \in (1..n) \X V PROVE Load(p[2], Lines[p[1]]) \in V
    <3> DEFINE line == Lines[p[1]]
    <3>1. LineElement(line, TRUE) \in Elements /\ LineElement(line, FALSE) \in Elements
      <4>1. p[1] \in 1..Len(Lines)  OBVIOUS
      <4> QED  BY Zenon, <4>1, LineFacts
    <3>2. p[2] \in Seq(Elements)  OBVIOUS
    <3>3. InsertElement(InsertElement(p[2], LineElement(line, TRUE)), LineElement(line, FALSE))
            \in Seq(Elements)
      BY Zenon, <3>1, <3>2, Insertion
    <3> QED  BY Zenon, <3>3, LoadElements
  <2> HIDE DEF n, V
  <2> QED  BY <2>1
<1>3. ASSUME NEW f, f \in [0..n -> V] PROVE Recursion(f, <<>>, step, n) <=> Built(f)
  <2> DEFINE a(i) == IF i = 0 THEN <<>> ELSE step[<<i, f[i - 1]>>]
             b(i) == IF i = 0 THEN <<>> ELSE Load(f[i - 1], Lines[i])
  <2>1. \A i \in 0..n : a(i) = b(i)
    <3> SUFFICES ASSUME NEW i \in 0..n PROVE a(i) = b(i)  OBVIOUS
    <3>1. CASE i = 0  BY <3>1
    <3>2. CASE i # 0
      <4>1. i \in 1..n /\ i - 1 \in 0..n  BY <1>1, <3>2
      <4>2. f[i - 1] \in V
        <5> HIDE DEF V
        <5> QED  BY <1>3, <4>1
      <4> HIDE DEF V, n
      <4>3. <<i, f[i - 1]>> \in (1..n) \X V  BY <4>1, <4>2
      <4> QED  BY <3>2, <4>3
    <3> QED  BY <3>1, <3>2
  <2>2. [i \in 0..n |-> a(i)] = [i \in 0..n |-> b(i)]
    <3> HIDE DEF a, b
    <3> QED  BY <2>1
  <2> QED  BY Zenon, <2>2 DEF Recursion
<1> HIDE DEF step
<1>4. \E f : Built(f)
  <2> HIDE DEF n, V, Built
  <2>1. PICK f : Recursion(f, <<>>, step, n)  BY Zenon, <1>1, <1>2, RecursionExists
  <2>2. f \in [0..n -> V]  BY Zenon, <1>1, <1>2, <2>1, RecursionStays
  <2> QED  BY <1>3, <2>1, <2>2
<1> DEFINE f == CHOOSE f : Built(f)
<1>5. Built(f)  BY Zenon, <1>4
<1>6. AsList = f[n]  BY Zenon DEF AsList
<1> HIDE DEF f
<1>7. \A i \in 0..n : f[i] = IF i = 0 THEN <<>> ELSE Load(f[i - 1], Lines[i])
  BY <1>5
<1> DEFINE P == {i \in 0..n : ListInv(f[i], i)}
<1>8. 0 \in P
  <2>1. f[0] = <<>>  BY <1>1, <1>7
  <2> QED  BY Zenon, <1>1, <2>1, EmptyHolds
<1>9. \A i \in 1..n : i - 1 \in P => i \in P
  <2> SUFFICES ASSUME NEW i \in 1..n, i - 1 \in P PROVE i \in P  OBVIOUS
  <2>1. i \in 0..n /\ i # 0 /\ ListInv(f[i - 1], i - 1)  BY <1>1
  <2>2. f[i] = Load(f[i - 1], Lines[i])  BY <1>7, <2>1
  <2>3. ListInv(Load(f[i - 1], Lines[i]), i)  BY Zenon, <2>1, LoadKeeps
  <2> QED  BY Zenon, <2>1, <2>2, <2>3
<1>10. \A i \in 0..n : i \in P
  <2> HIDE DEF P, n
  <2> QED  BY Zenon, <1>1, <1>8, <1>9, Upwards
<1>11. ListInv(f[n], n)  BY Zenon, <1>1, <1>10
<1> QED  BY Zenon, <1>6, <1>11

(* What getListInfo finds: the key of the first line of the AS, or nothing.*)
Found(asn, public, info) ==
  IF \A i \in 1..Len(Lines) : Lines[i].asn # asn THEN info = None
  ELSE \E i \in 1..Len(Lines) : FirstLine(i, asn) /\ info = LineElement(Lines[i], public)

LEMMA NeedleOrders ==
  ASSUME NEW asn \in Int, NEW public \in BOOLEAN,
         NEW needle, needle = [asn |-> asn, public |-> public]
  PROVE  \A e, f \in Elements :
           /\ Is(e, asn, public) <=> ~Smaller(e, needle) /\ ~Smaller(needle, e)
           /\ Is(e, asn, public) /\ Smaller(needle, f) => Smaller(e, f)
<1> TAKE e, f \in Elements
<1>1. /\ e.asn \in Nat /\ f.asn \in Nat
      /\ e.public \in BOOLEAN /\ f.public \in BOOLEAN
  BY DEF Elements
<1>2. needle.asn = asn /\ needle.public = public  OBVIOUS
<1> QED  BY <1>1, <1>2 DEF Smaller, Is

LEMMA GetListInfoFinds ==
  ASSUME NEW asn \in Int, NEW public \in BOOLEAN
  PROVE  Found(asn, public, GetListInfo(asn, public))
<1> DEFINE needle == [asn |-> asn, public |-> public]
           I == {j \in 1..Len(AsList) : ~Smaller(AsList[j], needle)}
           at == IF I # {} THEN Min(I) ELSE 0
<1>0. PICK L : L = AsList  OBVIOUS
<1>1. GetListInfo(asn, public)
        = IF at # 0 /\ ~Smaller(needle, AsList[at]) THEN AsList[at] ELSE None
  BY Zenon DEF GetListInfo, SelectInSeq
<1>2. L \in Seq(Elements) /\ Sorted(L) /\ Holds(L, Len(Lines), asn, public)
  BY Zenon, <1>0, AsListHolds DEF ListInv
<1>3. Len(L) \in Nat /\ \A j \in 1..Len(L) : L[j] \in Elements  BY <1>2
<1>4. I = {j \in 1..Len(L) : ~Smaller(L[j], needle)}  BY Zenon, <1>0
<1>5. I # {} => at \in I /\ \A j \in I : at <= j
  <2>1. I \in SUBSET Nat  BY <1>3, <1>4
  <2> HIDE DEF I
  <2> QED  BY <2>1, FirstPosition
<1>6. at # 0 => I # {}  OBVIOUS
<1>9. \A e, f \in Elements :
        /\ Is(e, asn, public) <=> ~Smaller(e, needle) /\ ~Smaller(needle, e)
        /\ Is(e, asn, public) /\ Smaller(needle, f) => Smaller(e, f)
  <2>1. needle = [asn |-> asn, public |-> public]  OBVIOUS
  <2> HIDE DEF needle
  <2> QED  BY <2>1, NeedleOrders
<1> HIDE DEF I, at, needle
<1>7. CASE \E i \in 1..Len(Lines) : FirstLine(i, asn)
               /\ FirstIs(L, asn, public, LineElement(Lines[i], public))
  <2>1. PICK i \in 1..Len(Lines) : FirstLine(i, asn)
               /\ FirstIs(L, asn, public, LineElement(Lines[i], public))
    BY <1>7
  <2> PICK x : x = LineElement(Lines[i], public)  OBVIOUS
  <2>2. PICK j \in 1..Len(L) : L[j] = x /\ \A k \in 1..(j - 1) : ~Is(L[k], asn, public)
    BY Zenon, <2>1 DEF FirstIs
  <2>3. Is(x, asn, public)  BY Zenon, <2>1 DEF FirstIs
  <2>4. ~Smaller(x, needle) /\ ~Smaller(needle, x)
    BY Zenon, <1>3, <2>2, <2>3, <1>9
  <2>5. j \in I  BY <1>4, <2>2, <2>4
  <2>6. at \in I /\ at <= j /\ at \in 1..Len(L) /\ ~Smaller(L[at], needle)
    <3>1. at \in I /\ at <= j  BY Zenon, <1>5, <2>5
    <3> QED  BY <1>4, <3>1
  <2>7. at = j
    <3>1. SUFFICES ASSUME at # j PROVE FALSE  OBVIOUS
    <3>2. at < j /\ at \in 1..(j - 1)  BY <1>3, <2>6, <3>1
    <3>3. ~Is(L[at], asn, public)  BY <2>2, <3>2
    <3>4. Smaller(needle, L[at])  BY Zenon, <1>3, <2>6, <3>3, <1>9
    <3>5. Smaller(x, L[at])  BY Zenon, <1>3, <2>2, <2>3, <2>6, <3>4, <1>9
    <3>6. ~Smaller(L[j], L[at])  BY Zenon, <1>2, <2>6, <3>2 DEF Sorted
    <3> QED  BY Zenon, <2>2, <3>5, <3>6
  <2>8. at # 0  BY <2>6
  <2>9. GetListInfo(asn, public) = x  BY Zenon, <1>0, <1>1, <2>2, <2>4, <2>7, <2>8
  <2>10. ~\A k \in 1..Len(Lines) : Lines[k].asn # asn  BY Zenon, <2>1 DEF FirstLine
  <2> QED  BY Zenon, <2>1, <2>9, <2>10 DEF Found
<1>8. CASE (\A i \in 1..Len(Lines) : Lines[i].asn # asn) /\ NoneIs(L, asn, public)
  <2>1. at # 0 => Smaller(needle, L[at])
    <3> SUFFICES ASSUME at # 0 PROVE Smaller(needle, L[at])  OBVIOUS
    <3>1. at \in I  BY Zenon, <1>5, <1>6
    <3>2. at \in 1..Len(L) /\ ~Smaller(L[at], needle)  BY <1>4, <3>1
    <3>3. ~Is(L[at], asn, public)  BY Zenon, <1>8, <3>2 DEF NoneIs
    <3> QED  BY Zenon, <1>3, <3>2, <3>3, <1>9
  <2>2. GetListInfo(asn, public) = None  BY Zenon, <1>0, <1>1, <2>1
  <2> QED  BY Zenon, <1>8, <2>2 DEF Found
<1> QED  BY Zenon, <1>2, <1>7, <1>8 DEF Holds

LEMMA LineOfIs ==
  ASSUME NEW asn
  PROVE  IF \A i \in 1..Len(Lines) : Lines[i].asn # asn THEN LineOf(asn) = None
         ELSE \E i \in 1..Len(Lines) : FirstLine(i, asn) /\ LineOf(asn) = Lines[i]
<1> DEFINE I == {i \in 1..Len(Lines) : Lines[i].asn = asn}
           at == IF I # {} THEN Min(I) ELSE 0
<1>1. LineOf(asn) = IF at = 0 THEN None ELSE Lines[at]
  BY Zenon DEF LineOf, SelectInSeq
<1>2. I # {} => at \in I /\ \A j \in I : at <= j
  <2>1. I \in SUBSET Nat  BY LineFacts
  <2> HIDE DEF I
  <2> QED  BY <2>1, FirstPosition
<1>3. CASE I = {}
  <2>1. at = 0  BY <1>3
  <2>2. \A i \in 1..Len(Lines) : Lines[i].asn # asn  BY <1>3
  <2> QED  BY Zenon, <1>1, <2>1, <2>2
<1>4. CASE I # {}
  <2> HIDE DEF at
  <2>1. at \in 1..Len(Lines) /\ Lines[at].asn = asn  BY <1>2, <1>4
  <2>2. \A j \in 1..(at - 1) : Lines[j].asn # asn
    <3> SUFFICES ASSUME NEW j \in 1..(at - 1), Lines[j].asn = asn PROVE FALSE  OBVIOUS
    <3>1. j \in 1..Len(Lines) /\ j < at  BY <2>1, LineFacts
    <3>2. j \in I  BY <3>1
    <3>3. at <= j  BY Zenon, <1>2, <1>4, <3>2
    <3> QED  BY <2>1, <3>1, <3>3, LineFacts
  <2>3. FirstLine(at, asn)  BY Zenon, <2>1, <2>2 DEF FirstLine
  <2>4. at # 0  BY <2>1, LineFacts
  <2>5. LineOf(asn) = Lines[at]  BY Zenon, <1>1, <2>4
  <2> QED  BY Zenon, <2>1, <2>3, <2>5
<1> QED  BY <1>3, <1>4

LEMMA FirstLineUnique ==
  ASSUME NEW asn, NEW i \in 1..Len(Lines), FirstLine(i, asn),
         NEW j \in 1..Len(Lines), FirstLine(j, asn)
  PROVE  i = j
<1>1. i \in Nat /\ j \in Nat  BY LineFacts
<1>2. ~(i < j) /\ ~(j < i)  BY <1>1 DEF FirstLine
<1> QED  BY <1>1, <1>2

(* The signer and the validator see the same line of the key file.         *)
LEMMA InfoIsLine ==
  ASSUME NEW asn \in Int, NEW public \in BOOLEAN
  PROVE  /\ LineOf(asn) = None => GetListInfo(asn, public) = None
         /\ LineOf(asn) # None =>
              /\ GetListInfo(asn, public) = LineElement(LineOf(asn), public)
              /\ GetListInfo(asn, public) # None
              /\ \E i \in 1..Len(Lines) : LineOf(asn) = Lines[i] /\ LineOf(asn).asn = asn
<1> PICK info : info = GetListInfo(asn, public)  OBVIOUS
<1> PICK line : line = LineOf(asn)  OBVIOUS
<1>1. Found(asn, public, info)  BY Zenon, GetListInfoFinds
<1>2. CASE \A i \in 1..Len(Lines) : Lines[i].asn # asn
  <2>1. info = None /\ line = None  BY Zenon, <1>1, <1>2, LineOfIs DEF Found
  <2> QED  BY Zenon, <2>1
<1>3. CASE ~\A i \in 1..Len(Lines) : Lines[i].asn # asn
  <2>1. PICK i \in 1..Len(Lines) : FirstLine(i, asn) /\ line = Lines[i]
    BY Zenon, <1>3, LineOfIs
  <2>2. PICK j \in 1..Len(Lines) : FirstLine(j, asn) /\ info = LineElement(Lines[j], public)
    BY Zenon, <1>1, <1>3 DEF Found
  <2>3. i = j  BY Zenon, <2>1, <2>2, FirstLineUnique
  <2>4. info = LineElement(line, public)  BY Zenon, <2>1, <2>2, <2>3
  <2>5. line.asn = asn /\ asn # 0  BY <2>1, LineFacts DEF FirstLine
  <2>6. info.asn = asn  BY <2>4, <2>5 DEF LineElement
  <2>7. info # None /\ line # None
    <3>1. None.asn = 0  BY DEF None
    <3> QED  BY Zenon, <2>5, <2>6, <3>1
  <2> QED  BY Zenon, <2>1, <2>4, <2>5, <2>7
<1> QED  BY <1>2, <1>3

-----------------------------------------------------------------------------
(* The path and its segments                                               *)

SegmentRecord == [pCount : Nat, flags : {0}, asn : Int]

LEMMA CountStays ==
  ASSUME NEW segs \in Seq(SegmentRecord), NEW asn \in Int
  PROVE  Count(segs, asn) \in Seq(SegmentRecord)
<1> PICK one : one = [pCount |-> 1, flags |-> 0, asn |-> asn]  OBVIOUS
<1>1. one \in SegmentRecord  BY DEF SegmentRecord
<1>2. Append(segs, one) \in Seq(SegmentRecord)  BY <1>1
<1>3. CASE segs # <<>>
  <2> DEFINE n == Len(segs)
             more == [segs EXCEPT ![n].pCount = (@ + 1) % PCountMod]
  <2>1. n \in 1..n /\ segs \in [1..n -> SegmentRecord]  BY <1>3
  <2>2. segs[n] \in SegmentRecord  BY <2>1
  <2> PICK seg : seg = [segs[n] EXCEPT !.pCount = (@ + 1) % PCountMod]  OBVIOUS
  <2>3. seg \in SegmentRecord
    <3>1. segs[n].pCount \in Nat  BY <2>2 DEF SegmentRecord
    <3>2. (segs[n].pCount + 1) % PCountMod \in Nat  BY <3>1, Widths
    <3> QED  BY <2>2, <3>2 DEF SegmentRecord
  <2>4. more = [segs EXCEPT ![n] = seg]  OBVIOUS
  <2> HIDE DEF more, n
  <2>5. more \in [1..n -> SegmentRecord]  BY <2>1, <2>3, <2>4
  <2>6. n \in Nat  BY DEF n
  <2>7. more \in Seq(SegmentRecord)  BY <2>5, <2>6, SeqDef
  <2>8. Count(segs, asn) = more \/ Count(segs, asn) = Append(segs, one)
    BY Zenon DEF Count, more, n
  <2> QED  BY Zenon, <1>2, <2>7, <2>8
<1>4. CASE segs = <<>>
  <2>1. Count(segs, asn) = Append(segs, one)  BY Zenon, <1>4 DEF Count
  <2> QED  BY Zenon, <1>2, <2>1
<1> QED  BY <1>3, <1>4

CountsUp(f, path) ==
  \A i \in 0..Len(path) : f[i] = IF i = 0 THEN <<>> ELSE Count(f[i - 1], path[i])

LEMMA SegmentsBuilt ==
  ASSUME NEW path \in Seq(Int)
  PROVE  \E f : CountsUp(f, path) /\ Segments(path) = f[Len(path)]
<1> DEFINE n == Len(path)
           V == Seq(SegmentRecord)
           step == [p \in (1..n) \X V |-> Count(p[2], path[p[1]])]
           Built(f) == f = [i \in 0..n |-> IF i = 0 THEN <<>> ELSE Count(f[i - 1], path[i])]
<1>1. n \in Nat /\ <<>> \in V /\ n \in 0..n /\ \A i \in 1..n : path[i] \in Int  OBVIOUS
<1>2. step \in [(1..n) \X V -> V]
  <2>1. ASSUME NEW p \in (1..n) \X V PROVE Count(p[2], path[p[1]]) \in V
    <3>1. path[p[1]] \in Int /\ p[2] \in Seq(SegmentRecord)  BY <1>1
    <3> QED  BY Zenon, <3>1, CountStays
  <2> HIDE DEF n, V
  <2> QED  BY <2>1
<1>3. ASSUME NEW f, \A i \in 0..n : f[i] \in V PROVE Recursion(f, <<>>, step, n) <=> Built(f)
  <2> DEFINE a(i) == IF i = 0 THEN <<>> ELSE step[<<i, f[i - 1]>>]
             b(i) == IF i = 0 THEN <<>> ELSE Count(f[i - 1], path[i])
  <2>1. \A i \in 0..n : a(i) = b(i)
    <3> SUFFICES ASSUME NEW i \in 0..n PROVE a(i) = b(i)  OBVIOUS
    <3>1. CASE i = 0  BY <3>1
    <3>2. CASE i # 0
      <4>1. i \in 1..n /\ i - 1 \in 0..n  BY <1>1, <3>2
      <4>2. f[i - 1] \in V
        <5> HIDE DEF V
        <5> QED  BY <1>3, <4>1
      <4> HIDE DEF V, n
      <4>3. <<i, f[i - 1]>> \in (1..n) \X V  BY <4>1, <4>2
      <4> QED  BY <3>2, <4>3
    <3> QED  BY <3>1, <3>2
  <2>2. [i \in 0..n |-> a(i)] = [i \in 0..n |-> b(i)]
    <3> HIDE DEF a, b
    <3> QED  BY <2>1
  <2> QED  BY Zenon, <2>2 DEF Recursion
<1> HIDE DEF step
<1>4. \E f : Built(f)
  <2> HIDE DEF n, V, Built
  <2>1. PICK f : Recursion(f, <<>>, step, n)  BY Zenon, <1>1, <1>2, RecursionExists
  <2>2. f \in [0..n -> V]  BY Zenon, <1>1, <1>2, <2>1, RecursionStays
  <2> QED  BY <1>3, <2>1, <2>2
<1> DEFINE f == CHOOSE f : Built(f)
<1>5. Built(f)  BY Zenon, <1>4
<1>6. Segments(path) = f[n]  BY Zenon DEF Segments
<1> HIDE DEF f
<1>7. \A i \in 0..n : f[i] = IF i = 0 THEN <<>> ELSE Count(f[i - 1], path[i])
  BY <1>5
<1> QED  BY Zenon, <1>6, <1>7 DEF CountsUp

LEMMA SegmentsTyped ==
  ASSUME NEW path \in Seq(Int)
  PROVE  Segments(path) \in Seq(SegmentRecord)
<1> DEFINE n == Len(path)
           V == Seq(SegmentRecord)
<1>1. n \in Nat /\ <<>> \in V /\ n \in 0..n /\ \A i \in 1..n : path[i] \in Int  OBVIOUS
<1>2. PICK f : CountsUp(f, path) /\ Segments(path) = f[n]  BY Zenon, SegmentsBuilt
<1>3. \A i \in 0..n : f[i] = IF i = 0 THEN <<>> ELSE Count(f[i - 1], path[i])
  BY Zenon, <1>2 DEF CountsUp
<1> DEFINE P == {i \in 0..n : f[i] \in V}
<1>4. 0 \in P
  <2>1. 0 \in 0..n  BY <1>1
  <2>2. f[0] = <<>>  BY <1>3, <2>1
  <2> QED  BY Zenon, <1>1, <2>1, <2>2
<1>5. \A i \in 1..n : i - 1 \in P => i \in P
  <2> SUFFICES ASSUME NEW i \in 1..n, i - 1 \in P PROVE i \in P  OBVIOUS
  <2>1. i \in 0..n /\ i # 0 /\ f[i - 1] \in Seq(SegmentRecord)  BY <1>1
  <2>2. f[i] = Count(f[i - 1], path[i])  BY <1>3, <2>1
  <2>3. Count(f[i - 1], path[i]) \in Seq(SegmentRecord)  BY Zenon, <1>1, <2>1, CountStays
  <2> QED  BY Zenon, <2>1, <2>2, <2>3
<1>6. \A i \in 0..n : i \in P
  <2> HIDE DEF P, n
  <2> QED  BY Zenon, <1>1, <1>4, <1>5, Upwards
<1> QED  BY Zenon, <1>1, <1>2, <1>6

LEMMA LongPathTyped ==
  ASSUME NEW written \in Seq([asn : Nat, count : Nat, dotted : BOOLEAN])
  PROVE  LongPath(written) \in Seq(Int)
<1>1. written \in Seq([asn : Nat, count : Nat, dotted : BOOLEAN])  OBVIOUS
<1> DEFINE rep(i) == [j \in 1..written[i].count |-> Printed(written[i])]
           reps == [i \in DOMAIN written |-> rep(i)]
<1>2. \A i \in DOMAIN written : rep(i) \in Seq(Int)
  <2> SUFFICES ASSUME NEW i \in DOMAIN written PROVE rep(i) \in Seq(Int)  OBVIOUS
  <2>1. written[i].count \in Nat /\ written[i].asn \in Nat
    <3> HIDE DEF rep, reps
    <3>1. i \in 1..Len(written)  BY <1>1
    <3>2. written[i] \in [asn : Nat, count : Nat, dotted : BOOLEAN]  BY <1>1, <3>1, ElementOfSeq
    <3> QED  BY <3>2
  <2>2. Printed(written[i]) \in Int  BY <2>1, Widths DEF Printed
  <2>3. rep(i) \in [1..written[i].count -> Int]  BY <2>2
  <2> QED  BY Zenon, <2>1, <2>3, FunctionIsSeq
<1>3. reps \in Seq(Seq(Int))
  <2>1. DOMAIN written = 1..Len(written) /\ Len(written) \in Nat  BY <1>1
  <2> HIDE DEF rep
  <2>2. reps \in [1..Len(written) -> Seq(Int)]  BY <2>1, <1>2
  <2> HIDE DEF reps
  <2> QED  BY <2>1, <2>2, SeqDef
<1>4. LongPath(written) \in Seq(Int)
  <2>1. LongPath(written) = FlattenSeq(reps)  BY DEF LongPath
  <2> HIDE DEF reps
  <2> QED  BY <2>1, <1>3, FlattenIsSeq
<1> QED  BY Zenon, <1>4

LEMMA PathTyped ==
  ASSUME NEW c, c.asn \in Nat,
         NEW written \in Seq([asn : Nat, count : Nat, dotted : BOOLEAN])
  PROVE  MyPath(c, written) \in Seq(Int)
<1>2. LongPath(written) \in Seq(Int)  BY Zenon, LongPathTyped
<1>3. <<c.asn>> \in Seq(Int)
  <2>1. c.asn \in Int  OBVIOUS
  <2> QED  BY <2>1
<1>4. <<c.asn>> \o LongPath(written) \in Seq(Int)  BY <1>2, <1>3, ConcatProperties
<1>5. MyPath(c, written) \in Seq(Int)  BY Zenon, <1>2, <1>4 DEF MyPath
<1> QED  BY Zenon, <1>5

-----------------------------------------------------------------------------
(* Signing                                                                 *)

(* S holds what is signed of the segments, each with the one behind it.    *)
Signs0(S, segs, c, nlri) ==
  S = [k \in DOMAIN segs |-> SignSegment(segs, c, nlri, S[k + 1], k)]

LEMMA LastNeedsNone ==
  ASSUME NEW segs, NEW c, NEW nlri, NEW x, NEW y
  PROVE  SignSegment(segs, c, nlri, x, Len(segs)) = SignSegment(segs, c, nlri, y, Len(segs))
BY Zenon DEF SignSegment

LEMMA SignedIs ==
  ASSUME NEW segs \in Seq(SegmentRecord), NEW c, NEW nlri
  PROVE  Signs0(Signed(segs, c, nlri), segs, c, nlri)
<1> DEFINE n == Len(segs)
           From(f, i) == f = [k \in i..n |-> SignSegment(segs, c, nlri, f[k + 1], k)]
           P == {i \in 1..n : \E f : From(f, i)}
<1>1. n \in Nat /\ DOMAIN segs = 1..n  OBVIOUS
<1>2. n >= 1 => n \in P
  <2> SUFFICES ASSUME n >= 1 PROVE n \in P  OBVIOUS
  <2> DEFINE f == [k \in n..n |-> SignSegment(segs, c, nlri, 0, n)]
  <2>1. n \in 1..n /\ \A k \in n..n : k = n
    <3> HIDE DEF n
    <3> QED  BY <1>1
  <2>2. \A k \in n..n : SignSegment(segs, c, nlri, 0, n) = SignSegment(segs, c, nlri, f[k + 1], k)
    <3> HIDE DEF f
    <3> QED  BY Zenon, <2>1, LastNeedsNone
  <2>3. From(f, n)
    <3> DEFINE a(k) == SignSegment(segs, c, nlri, 0, n)
               b(k) == SignSegment(segs, c, nlri, f[k + 1], k)
    <3>1. f = [k \in n..n |-> a(k)]  OBVIOUS
    <3> HIDE DEF f, n
    <3>2. \A k \in n..n : a(k) = b(k)  BY <2>2
    <3> HIDE DEF a, b
    <3>3. f = [k \in n..n |-> b(k)]  BY <3>1, <3>2
    <3> QED  BY <3>3 DEF b
  <2> HIDE DEF f, From
  <2> QED  BY Zenon, <2>1, <2>3
<1>3. \A i \in 1..(n - 1) : i + 1 \in P => i \in P
  <2> SUFFICES ASSUME NEW i \in 1..(n - 1), i + 1 \in P PROVE i \in P  OBVIOUS
  <2>0. i \in 1..n /\ i \in Nat /\ i < n
    <3> HIDE DEF n
    <3> QED  BY <1>1
  <2>1. PICK g : From(g, i + 1)
    <3> HIDE DEF From
    <3> QED  OBVIOUS
  <2> DEFINE a(k) == IF k = i THEN SignSegment(segs, c, nlri, g[i + 1], i) ELSE g[k]
             f == [k \in i..n |-> a(k)]
             b(k) == SignSegment(segs, c, nlri, f[k + 1], k)
  <2>2. \A k \in (i + 1)..n : g[k] = SignSegment(segs, c, nlri, g[k + 1], k)
    <3> DEFINE e(k) == SignSegment(segs, c, nlri, g[k + 1], k)
    <3>1. g = [k \in (i + 1)..n |-> e(k)]  BY Zenon, <2>1
    <3> HIDE DEF e
    <3>2. \A k \in (i + 1)..n : g[k] = e(k)  BY <3>1
    <3> QED  BY Zenon, <3>2 DEF e
  <2>3. ASSUME NEW k \in i..n PROVE a(k) = b(k)
    <3>0. k \in Nat /\ i <= k /\ k <= n
      <4> HIDE DEF n
      <4> QED  BY <1>1, <2>0
    <3>1. k # n => k + 1 \in i..n /\ k + 1 # i
      <4> HIDE DEF n
      <4> QED  BY <1>1, <2>0, <3>0
    <3>2. k # n => f[k + 1] = g[k + 1]  BY <3>1
    <3> HIDE DEF f
    <3>3. CASE k = i
      <4>1. k # n
        <5> HIDE DEF n
        <5> QED  BY <1>1, <2>0, <3>3
      <4> QED  BY Zenon, <3>2, <3>3, <4>1
    <3>4. CASE k # i
      <4>1. k \in (i + 1)..n  BY <3>0, <3>4, <2>0, <1>1
      <4>2. a(k) = SignSegment(segs, c, nlri, g[k + 1], k)  BY Zenon, <2>2, <3>4, <4>1
      <4>3. CASE k # n  BY Zenon, <3>2, <4>2, <4>3
      <4>4. CASE k = n  BY Zenon, <4>2, <4>4, LastNeedsNone
      <4> QED  BY <4>3, <4>4
    <3> QED  BY <3>3, <3>4
  <2>4. From(f, i)
    <3>1. f = [k \in i..n |-> a(k)]  OBVIOUS
    <3> HIDE DEF f, a, b, n
    <3>2. f = [k \in i..n |-> b(k)]  BY <2>3, <3>1
    <3> QED  BY <3>2 DEF b
  <2> HIDE DEF f, From
  <2> QED  BY <2>0, <2>4
<1>4. \A i \in 1..n : i \in P
  <2> HIDE DEF P, n
  <2> QED  BY Zenon, <1>1, <1>2, <1>3, Downwards
<1>5. \E f : Signs0(f, segs, c, nlri)
  <2>1. CASE n = 0
    <3> DEFINE f == [k \in 1..0 |-> 0]
    <3>1. f = [k \in 1..0 |-> SignSegment(segs, c, nlri, f[k + 1], k)]  OBVIOUS
    <3> HIDE DEF f
    <3> QED  BY <1>1, <2>1, <3>1 DEF Signs0
  <2>2. CASE n # 0
    <3>1. 1 \in P
      <4>1. 1 \in 1..n  BY <1>1, <2>2
      <4> QED  BY Zenon, <1>4, <4>1
    <3>2. \E f : From(f, 1)
      <4> HIDE DEF From
      <4> QED  BY <3>1
    <3> QED  BY Zenon, <1>1, <3>2 DEF Signs0
  <2> QED  BY <2>1, <2>2
<1> DEFINE f == CHOOSE f : Signs0(f, segs, c, nlri)
<1>6. Signs0(f, segs, c, nlri)  BY Zenon, <1>5
<1>7. Signed(segs, c, nlri) = f  BY Zenon DEF Signed, Signs0
<1> QED  BY Zenon, <1>6, <1>7

CapiSet(c) == c.capi \in BOOLEAN

SignsAs(c, asn) == ~c.capi /\ LineOf(asn) # None /\ LineOf(asn).private

(* What is signed with done behind it.                                     *)
Behind(segs, c, nlri, done, k) ==
  IF k = Len(segs)
  THEN <<AsnField(Target(segs, c, k)), PathField(segs[k]), AsnField(segs[k].asn), AlgoField,
         NlriField(nlri)>>
  ELSE <<AsnField(Target(segs, c, k))>> \o SigFields(done) \o <<PathField(segs[k])>> \o done.message

(* A segment is signed if there is a key for its AS, with this key, and    *)
(* faked otherwise.                                                        *)
SignedAs(r, asn, c, message) ==
  /\ r.message = message /\ r.sigLen \in Nat
  /\ r.made <=> SignsAs(c, asn)
  /\ r.made \in BOOLEAN
  /\ r.made => r.ski = LineOf(asn).ski /\ r.sig = <<r.ski, message>>
  /\ ~r.made => r.sig = <<>>

LEMMA ElementKeeps ==
  ASSUME NEW line
  PROVE  /\ LineElement(line, FALSE).loaded = line.private
         /\ LineElement(line, TRUE).loaded = line.public
         /\ \A public \in BOOLEAN : /\ LineElement(line, public).ski = line.ski
                                   /\ LineElement(line, public).asn = line.asn
BY DEF LineElement

LEMMA SegmentSigned ==
  ASSUME NEW segs, NEW c, CapiSet(c), NEW nlri, NEW done, NEW k, segs[k].asn \in Int
  PROVE  SignedAs(SignSegment(segs, c, nlri, done, k), segs[k].asn, c,
                  Behind(segs, c, nlri, done, k))
<1> DEFINE asn == segs[k].asn
<1> PICK line : line = LineOf(asn)  OBVIOUS
<1> PICK info : info = IF c.capi THEN None ELSE GetListInfo(asn, FALSE)  OBVIOUS
<1> PICK message : message = Behind(segs, c, nlri, done, k)  OBVIOUS
<1> PICK made : made = (info # None /\ info.loaded)  OBVIOUS
<1> PICK r : r = SignSegment(segs, c, nlri, done, k)  OBVIOUS
<1>0. made \in BOOLEAN  OBVIOUS
<1>1. /\ r.message = message /\ r.made = made
      /\ r.ski = IF info = None THEN FakeSki ELSE info.ski
      /\ r.sig = IF made THEN <<info.ski, message>> ELSE <<>>
      /\ r.sigLen = IF made THEN SigLen[asn] ELSE FakeLen
  <2> DEFINE ski == IF info = None THEN FakeSki ELSE info.ski
             sig == IF made THEN <<info.ski, message>> ELSE <<>>
             sigLen == IF made THEN SigLen[asn] ELSE FakeLen
  <2>1. r = [message |-> message, made |-> made, ski |-> ski, sig |-> sig, sigLen |-> sigLen]
    BY Zenon DEF SignSegment, Behind
  <2> HIDE DEF ski, sig, sigLen
  <2>2. /\ r.message = message /\ r.made = made /\ r.ski = ski /\ r.sig = sig
        /\ r.sigLen = sigLen
    BY <2>1
  <2> QED  BY Zenon, <2>2 DEF ski, sig, sigLen
<1>2. c.capi \in BOOLEAN  BY DEF CapiSet
<1>3. info # None <=> ~c.capi /\ line # None
  BY Zenon, InfoIsLine
<1>4. info # None => /\ info = LineElement(line, FALSE)
                     /\ \E i \in 1..Len(Lines) : line = Lines[i] /\ line.asn = asn
  BY Zenon, <1>3, InfoIsLine
<1>5. info # None => info.loaded = line.private /\ info.ski = line.ski /\ line.private \in BOOLEAN
  <2> SUFFICES ASSUME info # None
               PROVE  info.loaded = line.private /\ info.ski = line.ski /\ line.private \in BOOLEAN
    OBVIOUS
  <2>1. info.loaded = line.private /\ info.ski = line.ski  BY Zenon, <1>4, ElementKeeps
  <2>2. line.private \in BOOLEAN  BY Zenon, <1>4, LineFacts
  <2> QED  BY <2>1, <2>2
<1>6. made <=> SignsAs(c, asn)  BY Zenon, <1>3, <1>5 DEF SignsAs
<1>7. made => SigLen[asn] \in Nat
  <2> SUFFICES ASSUME made PROVE SigLen[asn] \in Nat  OBVIOUS
  <2>1. PICK i \in 1..Len(Lines) : Lines[i].asn = asn  BY <1>4
  <2>2. asn \in {Lines[j].asn : j \in DOMAIN Lines} /\ asn \in Nat  BY <2>1, LineFacts
  <2> QED  BY <2>2 DEF SigLen
<1>9. r.sigLen \in Nat
  BY Zenon, <1>1, <1>7, Widths
<1>10. made => r.ski = line.ski /\ r.sig = <<r.ski, message>>
  <2> SUFFICES ASSUME made PROVE r.ski = line.ski /\ r.sig = <<r.ski, message>>  OBVIOUS
  <2>1. info # None  OBVIOUS
  <2>2. r.ski = info.ski /\ r.sig = <<info.ski, message>>  BY Zenon, <1>1, <2>1
  <2> QED  BY Zenon, <1>5, <2>1, <2>2
<1>11. ~made => r.sig = <<>>  BY Zenon, <1>1
<1> QED  BY Zenon, <1>0, <1>1, <1>6, <1>9, <1>10, <1>11 DEF SignedAs

LEMMA SignedFacts ==
  ASSUME NEW segs \in Seq(SegmentRecord), NEW c, CapiSet(c), NEW nlri,
         NEW S, S = Signed(segs, c, nlri)
  PROVE  /\ DOMAIN S = 1..Len(segs) /\ Len(S) = Len(segs)
         /\ \A k \in 1..Len(segs) :
              SignedAs(S[k], segs[k].asn, c, Behind(segs, c, nlri, S[k + 1], k))
<1>1. Signs0(S, segs, c, nlri)  BY Zenon, SignedIs
<1>2. Len(segs) \in Nat /\ DOMAIN segs = 1..Len(segs)  OBVIOUS
<1> DEFINE e(k) == SignSegment(segs, c, nlri, S[k + 1], k)
<1>3. S = [k \in 1..Len(segs) |-> e(k)]  BY Zenon, <1>1, <1>2 DEF Signs0
<1>4. ASSUME NEW k \in 1..Len(segs)
      PROVE  SignedAs(e(k), segs[k].asn, c, Behind(segs, c, nlri, S[k + 1], k))
  <2>0. segs[k] \in SegmentRecord  BY ElementOfSeq
  <2>1. segs[k].asn \in Int  BY <2>0 DEF SegmentRecord
  <2> QED  BY Zenon, <2>1, SegmentSigned
<1> HIDE DEF e
<1>5. DOMAIN S = 1..Len(segs) /\ \A k \in 1..Len(segs) : S[k] = e(k)  BY <1>3
<1>6. S = [k \in 1..Len(segs) |-> S[k]]  BY <1>3, <1>5
<1>7. Len(S) = Len(segs)  BY Zenon, <1>2, <1>6, IsSeq
<1> QED  BY Zenon, <1>4, <1>5, <1>7

LEMMA SignedDomain ==
  ASSUME NEW segs \in Seq(SegmentRecord), NEW c, CapiSet(c), NEW nlri,
         NEW S, S = Signed(segs, c, nlri)
  PROVE  DOMAIN S = 1..Len(segs)
BY Zenon, SignedFacts

-----------------------------------------------------------------------------
(* The keys noted                                                          *)

(* The key noted for a segment that was signed is the public one of the    *)
(* same line of the key file.                                              *)
KeyNoted(key, asn, c) ==
  /\ SignsAs(c, asn) => key = LineElement(LineOf(asn), TRUE) /\ LineOf(asn) # None
                        /\ LineOf(asn).asn = asn
  /\ ~SignsAs(c, asn) => key = FakeKey

LEMMA NotedIsLine ==
  ASSUME NEW segs \in Seq(SegmentRecord), NEW c, CapiSet(c), NEW nlri,
         NEW S, S = Signed(segs, c, nlri), NEW k \in 1..Len(segs)
  PROVE  KeyNoted(NotedKey(S, segs, k), segs[k].asn, c)
<1> PICK asn : asn = segs[k].asn  OBVIOUS
<1>1. S[k].made <=> SignsAs(c, asn)  BY Zenon, SignedFacts DEF SignedAs
<1>2. segs[k] \in SegmentRecord  BY ElementOfSeq
<1>3. asn \in Int  BY <1>2 DEF SegmentRecord
<1>4. LineOf(asn) # None =>
        /\ GetListInfo(asn, TRUE) = LineElement(LineOf(asn), TRUE)
        /\ LineOf(asn).asn = asn
  BY Zenon, <1>3, InfoIsLine
<1> QED  BY Zenon, <1>1, <1>4 DEF NotedKey, KeyNoted, SignsAs

-----------------------------------------------------------------------------
(* The attribute and its lengths                                           *)

Weights(S, k) == [j \in 1..k |-> 22 + S[j].sigLen]

LEMMA WeightsAdd ==
  ASSUME NEW n \in Nat, NEW S, \A j \in 1..n : S[j].sigLen \in Nat
  PROVE  /\ \A k \in 0..n : Weights(S, k) \in Seq(Nat) /\ Total(Weights(S, k)) \in Nat
         /\ \A k \in 1..n :
              Total(Weights(S, k)) = Total(Weights(S, k - 1)) + 22 + S[k].sigLen
<1>1. ASSUME NEW k \in 0..n
      PROVE  /\ Weights(S, k) \in Seq(Nat) /\ Len(Weights(S, k)) = k
             /\ \A j \in 1..k : Weights(S, k)[j] = 22 + S[j].sigLen
  <2>1. k \in Nat /\ \A j \in 1..k : 22 + S[j].sigLen \in Nat  OBVIOUS
  <2>2. Weights(S, k) \in [1..k -> Nat]  BY <2>1 DEF Weights
  <2>3. Weights(S, k) \in Seq(Nat)  BY <2>1, <2>2, SeqDef
  <2>4. Len(Weights(S, k)) = k  BY <2>1, <2>2, <2>3, LenProperties
  <2>5. \A j \in 1..k : Weights(S, k)[j] = 22 + S[j].sigLen  BY DEF Weights
  <2> QED  BY <2>3, <2>4, <2>5
<1>2. ASSUME NEW k \in 1..n
      PROVE  Total(Weights(S, k)) = Total(Weights(S, k - 1)) + 22 + S[k].sigLen
  <2> PICK t : t = Weights(S, k)  OBVIOUS
  <2> PICK s : s = Weights(S, k - 1)  OBVIOUS
  <2>0. k \in 0..n /\ k - 1 \in 0..n /\ k \in 1..k  OBVIOUS
  <2>1. /\ t \in Seq(Nat) /\ Len(t) = k /\ \A j \in 1..k : t[j] = 22 + S[j].sigLen
        /\ s \in Seq(Nat) /\ Len(s) = k - 1 /\ \A j \in 1..(k - 1) : s[j] = 22 + S[j].sigLen
    BY <2>0, <1>1
  <2>2. Begins(t, s)
    <3>1. Len(s) <= Len(t)  BY <2>0, <2>1
    <3>2. ASSUME NEW j \in 1..(k - 1) PROVE s[j] = t[j]
      <4>1. j \in 1..k  BY <2>0
      <4> QED  BY Zenon, <2>1, <4>1
    <3> QED  BY Zenon, <2>1, <3>1, <3>2 DEF Begins
  <2>3. Len(s) = Len(t) - 1 /\ t # <<>>
    <3>1. Len(t) # 0  BY <2>0, <2>1
    <3> QED  BY <2>1, <3>1
  <2>4. Total(t) = Total(s) + t[Len(t)]  BY Zenon, <2>1, <2>2, <2>3, TotalFront
  <2>5. Total(s) \in Nat  BY Zenon, <2>1, TotalIs
  <2>6. t[Len(t)] = 22 + S[k].sigLen  BY Zenon, <2>0, <2>1
  <2>7. PICK w : w = S[k].sigLen /\ w \in Nat  OBVIOUS
  <2>8. Total(t) = Total(s) + (22 + w)  BY Zenon, <2>4, <2>6, <2>7
  <2>9. Total(t) = Total(s) + 22 + w  BY <2>5, <2>7, <2>8
  <2> QED  BY Zenon, <2>7, <2>9
<1>3. \A k \in 0..n : Total(Weights(S, k)) \in Nat  BY Zenon, <1>1, TotalIs
<1> QED  BY Zenon, <1>1, <1>2, <1>3

AttrFacts(a, segs, S) ==
  /\ a.segs = segs
  /\ a.secPathLen \div 6 = Len(segs) /\ a.secPathLen = 2 + 6 * Len(segs)
  /\ a.block.length = 3 + Total(Weights(S, Len(segs)))
  /\ a.length = a.secPathLen + a.block.length
  /\ a.length > 255 => a.extended
  /\ DOMAIN a.block.sigs = 1..Len(segs)
  /\ \A k \in 1..Len(segs) : /\ a.block.sigs[k].ski = S[k].ski
                             /\ a.block.sigs[k].sigLen = S[k].sigLen
                             /\ a.block.sigs[k].sig = S[k].sig

LEMMA AttributeIs ==
  ASSUME NEW segs \in Seq(SegmentRecord), NEW S, DOMAIN S = 1..Len(segs), NEW c
  PROVE  AttrFacts(Attribute(segs, S, c), segs, S)
<1> PICK block : block = SignatureBlock(S)  OBVIOUS
<1> PICK a : a = Attribute(segs, S, c)  OBVIOUS
<1> PICK n : n = Len(segs)  OBVIOUS
<1>1. n \in Nat  OBVIOUS
<1> DEFINE size == 2 + 6 * n
           wide == size + block.length > 255 \/ c.onlyExtLength
<1>2. a = [extended |-> wide, length |-> size + block.length, secPathLen |-> size,
           segs |-> segs, block |-> block]
  BY Zenon DEF Attribute
<1> HIDE DEF wide
<1>3. a.segs = segs /\ a.secPathLen = size /\ a.block = block /\ a.length = size + block.length
      /\ a.extended = wide
  BY <1>2
<1>4. size \div 6 = n  BY <1>1
<1> DEFINE sig(k) == [ski |-> S[k].ski, sigLen |-> S[k].sigLen, sig |-> S[k].sig]
           sigs == [k \in 1..n |-> sig(k)]
<1>5. block = [length |-> 3 + Total(Weights(S, n)), sigs |-> sigs]
  BY Zenon DEF SignatureBlock, Weights
<1>6. ASSUME NEW k \in 1..n
      PROVE sigs[k].ski = S[k].ski /\ sigs[k].sigLen = S[k].sigLen /\ sigs[k].sig = S[k].sig
  BY <1>6
<1>7. DOMAIN sigs = 1..n  OBVIOUS
<1> HIDE DEF sigs
<1>8. a.length > 255 => a.extended  BY Zenon, <1>3 DEF wide
<1>9. block.length = 3 + Total(Weights(S, n)) /\ block.sigs = sigs  BY <1>5
<1> QED  BY Zenon, <1>3, <1>4, <1>6, <1>7, <1>8, <1>9 DEF AttrFacts

-----------------------------------------------------------------------------
(* Fields and their bytes                                                  *)

Sizes(message) == [i \in DOMAIN message |-> message[i][3]]

LEMMA SizesTyped ==
  ASSUME NEW F, \A f \in F : f[3] \in Nat, NEW m \in Seq(F)
  PROVE  /\ Sizes(m) \in Seq(Nat) /\ Len(Sizes(m)) = Len(m)
         /\ \A i \in 1..Len(m) : Sizes(m)[i] = m[i][3]
<1>1. Len(m) \in Nat /\ DOMAIN m = 1..Len(m)  OBVIOUS
<1>2. ASSUME NEW i \in 1..Len(m) PROVE m[i][3] \in Nat
  <2>1. m[i] \in F  BY ElementOfSeq
  <2> QED  BY <2>1
<1>3. Sizes(m) \in [1..Len(m) -> Nat]  BY <1>1, <1>2 DEF Sizes
<1>4. Sizes(m) \in Seq(Nat)  BY <1>1, <1>3, SeqDef
<1>5. Len(Sizes(m)) = Len(m)  BY <1>1, <1>3, <1>4, LenProperties
<1>6. \A i \in 1..Len(m) : Sizes(m)[i] = m[i][3]  BY <1>1 DEF Sizes
<1> QED  BY Zenon, <1>4, <1>5, <1>6

LEMMA BytesConcat ==
  ASSUME NEW F, \A f \in F : f[3] \in Nat, NEW s \in Seq(F), NEW t \in Seq(F)
  PROVE  /\ Bytes(s) \in Nat /\ Bytes(t) \in Nat
         /\ Bytes(s \o t) = Bytes(s) + Bytes(t)
<1> PICK m : m = s \o t  OBVIOUS
<1>1. m \in Seq(F) /\ Joins(m, s, t)  BY Zenon, ConcatParts
<1>2. /\ Sizes(m) \in Seq(Nat) /\ Len(Sizes(m)) = Len(m)
      /\ \A i \in 1..Len(m) : Sizes(m)[i] = m[i][3]
  BY Zenon, <1>1, SizesTyped
<1>3. /\ Sizes(s) \in Seq(Nat) /\ Len(Sizes(s)) = Len(s)
      /\ \A i \in 1..Len(s) : Sizes(s)[i] = s[i][3]
  BY Zenon, SizesTyped
<1>4. /\ Sizes(t) \in Seq(Nat) /\ Len(Sizes(t)) = Len(t)
      /\ \A i \in 1..Len(t) : Sizes(t)[i] = t[i][3]
  BY Zenon, SizesTyped
<1>5. Len(s) \in Nat /\ Len(t) \in Nat  OBVIOUS
<1>6. Len(m) = Len(s) + Len(t)  BY Zenon, <1>1 DEF Joins
<1>7. \A i \in 1..Len(s) : i \in 1..Len(m)  BY <1>5, <1>6
<1>8. \A i \in 1..Len(t) : Len(s) + i \in 1..Len(m)  BY <1>5, <1>6
<1>9. \A i \in 1..Len(s) : Sizes(m)[i] = Sizes(s)[i]
  BY Zenon, <1>1, <1>2, <1>3, <1>7 DEF Joins
<1>10. \A i \in 1..Len(t) : Sizes(m)[Len(s) + i] = Sizes(t)[i]
  BY Zenon, <1>1, <1>2, <1>4, <1>8 DEF Joins
<1>11. Joins(Sizes(m), Sizes(s), Sizes(t))
  BY Zenon, <1>2, <1>3, <1>4, <1>6, <1>9, <1>10 DEF Joins
<1>12. Sizes(s) \o Sizes(t) \in Seq(Nat) /\ Joins(Sizes(s) \o Sizes(t), Sizes(s), Sizes(t))
  BY Zenon, <1>3, <1>4, ConcatParts
<1>13. Sizes(m) = Sizes(s) \o Sizes(t)
  BY Zenon, <1>2, <1>3, <1>4, <1>11, <1>12, JoinsOnce
<1>14. Total(Sizes(m)) = Total(Sizes(s)) + Total(Sizes(t))
  BY Zenon, <1>3, <1>4, <1>13, TotalConcat
<1>15. Total(Sizes(s)) \in Nat /\ Total(Sizes(t)) \in Nat  BY Zenon, <1>3, <1>4, TotalIs
<1> QED  BY Zenon, <1>14, <1>15 DEF Bytes, Sizes

LEMMA BytesOne ==
  ASSUME NEW f, f[3] \in Nat
  PROVE  Bytes(<<f>>) = f[3]
<1> PICK t : t = Sizes(<<f>>)  OBVIOUS
<1>1. <<f>> \in Seq({f}) /\ Len(<<f>>) = 1  OBVIOUS
<1>2. t \in Seq(Nat) /\ Len(t) = 1 /\ \A i \in 1..1 : t[i] = <<f>>[i][3]
  BY Zenon, <1>1, SizesTyped
<1>3. t[1] = f[3]  BY <1>2
<1>4. t # <<>> /\ <<>> \in Seq(Nat) /\ Len(<<>>) = Len(t) - 1 /\ Begins(t, <<>>)
  BY <1>2 DEF Begins
<1>5. Total(t) = Total(<<>>) + t[Len(t)]  BY Zenon, <1>2, <1>4, TotalFront
<1>6. Total(t) = 0 + f[3]  BY Zenon, <1>2, <1>3, <1>5, TotalNone
<1>7. Total(t) = f[3]  BY <1>6
<1> QED  BY Zenon, <1>7 DEF Bytes, Sizes

LEMMA PairJoins ==
  ASSUME NEW f, NEW g
  PROVE  <<f, g>> = <<f>> \o <<g>>
<1> DEFINE F == {f, g}
<1>1. <<f, g>> \in Seq(F) /\ <<f>> \in Seq(F) /\ <<g>> \in Seq(F)  OBVIOUS
<1>2. Joins(<<f, g>>, <<f>>, <<g>>)
  <2>1. Len(<<f, g>>) = Len(<<f>>) + Len(<<g>>)  OBVIOUS
  <2>2. \A i \in 1..Len(<<f>>) : <<f, g>>[i] = <<f>>[i]  OBVIOUS
  <2>3. \A i \in 1..Len(<<g>>) : <<f, g>>[Len(<<f>>) + i] = <<g>>[i]  OBVIOUS
  <2> QED  BY Zenon, <2>1, <2>2, <2>3 DEF Joins
<1> HIDE DEF F
<1>3. <<f>> \o <<g>> \in Seq(F) /\ Joins(<<f>> \o <<g>>, <<f>>, <<g>>)
  BY Zenon, <1>1, ConcatParts
<1> QED  BY Zenon, <1>1, <1>2, <1>3, JoinsOnce

LEMMA BytesTwo ==
  ASSUME NEW f, NEW g, f[3] \in Nat, g[3] \in Nat
  PROVE  Bytes(<<f, g>>) = f[3] + g[3]
<1> DEFINE F == {f, g}
<1>1. <<f>> \in Seq(F) /\ <<g>> \in Seq(F) /\ \A e \in F : e[3] \in Nat  OBVIOUS
<1>2. <<f, g>> = <<f>> \o <<g>>  BY Zenon, PairJoins
<1> HIDE DEF F
<1>3. Bytes(<<f>> \o <<g>>) = Bytes(<<f>>) + Bytes(<<g>>)  BY Zenon, <1>1, BytesConcat
<1>4. Bytes(<<f>>) = f[3] /\ Bytes(<<g>>) = g[3]  BY Zenon, BytesOne
<1> QED  BY Zenon, <1>2, <1>3, <1>4

LEMMA BytesThree ==
  ASSUME NEW f, NEW g, NEW h, f[3] \in Nat, g[3] \in Nat, h[3] \in Nat
  PROVE  Bytes(<<f, g, h>>) = f[3] + g[3] + h[3]
<1> DEFINE F == {f, g, h}
<1>1. <<f, g>> \in Seq(F) /\ <<h>> \in Seq(F) /\ \A e \in F : e[3] \in Nat  OBVIOUS
<1>2. <<f, g, h>> = <<f, g>> \o <<h>>  OBVIOUS
<1> HIDE DEF F
<1>3. Bytes(<<f, g>> \o <<h>>) = Bytes(<<f, g>>) + Bytes(<<h>>)  BY Zenon, <1>1, BytesConcat
<1>4. Bytes(<<f, g>>) = f[3] + g[3] /\ Bytes(<<h>>) = h[3]  BY Zenon, BytesOne, BytesTwo
<1> QED  BY Zenon, <1>2, <1>3, <1>4

-----------------------------------------------------------------------------
(* The message of a signature                                              *)

Fields(segs, S, c, nlri) ==
  LET all == 1..Len(segs)
  IN {AsnField(Target(segs, c, k)) : k \in all}
     \cup {PathField(segs[k]) : k \in all} \cup {AsnField(segs[k].asn) : k \in all}
     \cup {SkiField(S[k].ski) : k \in all} \cup {LenField(S[k].sigLen) : k \in all}
     \cup {SigField(S[k]) : k \in all} \cup {AlgoField, NlriField(nlri)}

Signing(segs, S, c, nlri) ==
  /\ segs \in Seq(SegmentRecord) /\ Len(segs) # 0 /\ CapiSet(c)
  /\ S = Signed(segs, c, nlri) /\ nlri.bytes \in Nat

LEMMA SigningFacts ==
  ASSUME NEW segs, NEW S, NEW c, NEW nlri, Signing(segs, S, c, nlri)
  PROVE  /\ Len(segs) \in Nat /\ Len(segs) \in 1..Len(segs) /\ nlri.bytes \in Nat
         /\ \A k \in 1..Len(segs) : S[k].sigLen \in Nat
         /\ \A k \in 1..Len(segs) : S[k].message = Behind(segs, c, nlri, S[k + 1], k)
<1>1. segs \in Seq(SegmentRecord) /\ Len(segs) # 0 /\ nlri.bytes \in Nat  BY DEF Signing
<1>2. Len(segs) \in Nat /\ Len(segs) \in 1..Len(segs)  BY <1>1
<1>3. \A k \in 1..Len(segs) :
        SignedAs(S[k], segs[k].asn, c, Behind(segs, c, nlri, S[k + 1], k))
  BY Zenon, SignedFacts DEF Signing
<1> QED  BY Zenon, <1>1, <1>2, <1>3 DEF SignedAs

LEMMA FieldsTyped ==
  ASSUME NEW segs, NEW S, NEW c, NEW nlri, Signing(segs, S, c, nlri)
  PROVE  \A f \in Fields(segs, S, c, nlri) : f[3] \in Nat
<1>1. \A k \in 1..Len(segs) : S[k].sigLen \in Nat  BY Zenon, SigningFacts
<1>2. nlri.bytes \in Nat  BY Zenon, SigningFacts
<1>3. \A x : AsnField(x)[3] = 4 /\ SkiField(x)[3] = 20 /\ LenField(x)[3] = 2 /\ PathField(x)[3] = 2
  BY DEF AsnField, SkiField, LenField, PathField
<1>4. \A g : SigField(g)[3] = g.sigLen  BY DEF SigField
<1>5. AlgoField[3] = 1 /\ NlriField(nlri)[3] = 4 + nlri.bytes  BY DEF AlgoField, NlriField
<1>6. 4 + nlri.bytes \in Nat /\ 4 \in Nat /\ 20 \in Nat /\ 2 \in Nat /\ 1 \in Nat  BY <1>2
<1> SUFFICES ASSUME NEW f \in Fields(segs, S, c, nlri) PROVE f[3] \in Nat  OBVIOUS
<1>7. \/ \E k \in 1..Len(segs) :
           f \in {AsnField(Target(segs, c, k)), PathField(segs[k]), AsnField(segs[k].asn),
                 SkiField(S[k].ski), LenField(S[k].sigLen), SigField(S[k])}
      \/ f \in {AlgoField, NlriField(nlri)}
  BY Zenon DEF Fields
<1>8. CASE f \in {AlgoField, NlriField(nlri)}
  <2>1. f[3] = 1 \/ f[3] = 4 + nlri.bytes  BY Zenon, <1>5, <1>8
  <2> QED  BY <1>6, <2>1
<1>9. ASSUME NEW k \in 1..Len(segs),
             f \in {AsnField(Target(segs, c, k)), PathField(segs[k]), AsnField(segs[k].asn),
                   SkiField(S[k].ski), LenField(S[k].sigLen), SigField(S[k])}
      PROVE  f[3] \in Nat
  <2>1. f[3] = 4 \/ f[3] = 20 \/ f[3] = 2 \/ f[3] = S[k].sigLen  BY Zenon, <1>3, <1>4, <1>9
  <2>2. S[k].sigLen \in Nat  BY <1>1
  <2> QED  BY <1>6, <2>1, <2>2
<1> QED  BY <1>7, <1>8, <1>9

(* The message behind the number of the AS it goes to.                     *)
Rest(segs, S, nlri, k) ==
  IF k = Len(segs)
  THEN <<PathField(segs[k]), AsnField(segs[k].asn), AlgoField, NlriField(nlri)>>
  ELSE SigFields(S[k + 1]) \o <<PathField(segs[k])>> \o S[k + 1].message

To(segs, c, k) == <<AsnField(Target(segs, c, k))>>
Seg(segs, k) == <<PathField(segs[k]), AsnField(segs[k].asn)>>

LEMMA FieldSequences ==
  ASSUME NEW segs, NEW S, NEW c, NEW nlri, Signing(segs, S, c, nlri),
         NEW F, F = Fields(segs, S, c, nlri), NEW k \in 1..Len(segs)
  PROVE  /\ To(segs, c, k) \in Seq(F) /\ Seg(segs, k) \in Seq(F)
         /\ <<PathField(segs[k])>> \in Seq(F) /\ <<AsnField(segs[k].asn)>> \in Seq(F)
         /\ SigFields(S[k]) \in Seq(F) /\ <<AlgoField, NlriField(nlri)>> \in Seq(F)
<1>1. /\ AsnField(Target(segs, c, k)) \in F /\ PathField(segs[k]) \in F
      /\ AsnField(segs[k].asn) \in F /\ SkiField(S[k].ski) \in F
      /\ LenField(S[k].sigLen) \in F /\ SigField(S[k]) \in F
      /\ AlgoField \in F /\ NlriField(nlri) \in F
  BY Zenon DEF Fields
<1>2. ASSUME NEW a \in F, NEW b \in F, NEW d \in F
      PROVE  <<a>> \in Seq(F) /\ <<a, b>> \in Seq(F) /\ <<a, b, d>> \in Seq(F)
  OBVIOUS
<1> QED  BY Zenon, <1>1, <1>2 DEF To, Seg, SigFields

RegroupsPair(g, p, a, r) == g \o <<p>> \o (<<a>> \o r) = g \o <<p, a>> \o r

LEMMA Regroup ==
  ASSUME NEW F, NEW g \in Seq(F), NEW p \in F, NEW a \in F, NEW r \in Seq(F)
  PROVE  RegroupsPair(g, p, a, r)
<1>1. <<p>> \in Seq(F) /\ <<a>> \in Seq(F)  OBVIOUS
<1> PICK s : s = <<p>>  OBVIOUS
<1> PICK t : t = <<a>>  OBVIOUS
<1>2. (g \o s) \o (t \o r) = ((g \o s) \o t) \o r /\ (g \o s) \o t = g \o (s \o t)
  <2>1. s \in Seq(F) /\ t \in Seq(F) /\ g \o s \in Seq(F)
    BY Zenon, <1>1, ConcatProperties
  <2>2. Regroups(g \o s, t, r) /\ Regroups(g, s, t)  BY Zenon, <2>1, Regrouped
  <2> QED  BY Zenon, <2>2 DEF Regroups
<1> QED  BY Zenon, <1>2, PairJoins DEF RegroupsPair

RegroupsLast(a, b, d, e, f) ==
  /\ <<a>> \o <<b, d, e, f>> = <<a, b, d, e, f>>
  /\ <<b, d>> \o <<e, f>> = <<b, d, e, f>>

LEMMA RegroupLast ==
  ASSUME NEW F, NEW a \in F, NEW b \in F, NEW d \in F, NEW e \in F, NEW f \in F
  PROVE  RegroupsLast(a, b, d, e, f)
<1> DEFINE S == {a, b, d, e, f}
<1>1. ASSUME NEW x, NEW y, NEW z, x \in Seq(S), y \in Seq(S), z \in Seq(S), Joins(z, x, y)
      PROVE  x \o y = z
  <2> HIDE DEF S
  <2>1. x \o y \in Seq(S) /\ Joins(x \o y, x, y)  BY Zenon, <1>1, ConcatParts
  <2> QED  BY Zenon, <1>1, <2>1, JoinsOnce
<1>2. <<a>> \in Seq(S) /\ <<b, d, e, f>> \in Seq(S) /\ <<a, b, d, e, f>> \in Seq(S)
  OBVIOUS
<1>3. <<b, d>> \in Seq(S) /\ <<e, f>> \in Seq(S)  OBVIOUS
<1>4. Joins(<<a, b, d, e, f>>, <<a>>, <<b, d, e, f>>)
  <2>1. \A i \in 1..Len(<<a>>) : <<a, b, d, e, f>>[i] = <<a>>[i]  OBVIOUS
  <2>2. \A i \in 1..Len(<<b, d, e, f>>) :
          <<a, b, d, e, f>>[Len(<<a>>) + i] = <<b, d, e, f>>[i]
    OBVIOUS
  <2>3. Len(<<a, b, d, e, f>>) = Len(<<a>>) + Len(<<b, d, e, f>>)  OBVIOUS
  <2> QED  BY Zenon, <2>1, <2>2, <2>3 DEF Joins
<1>5. Joins(<<b, d, e, f>>, <<b, d>>, <<e, f>>)
  <2>1. \A i \in 1..Len(<<b, d>>) : <<b, d, e, f>>[i] = <<b, d>>[i]  OBVIOUS
  <2>2. \A i \in 1..Len(<<e, f>>) : <<b, d, e, f>>[Len(<<b, d>>) + i] = <<e, f>>[i]
    OBVIOUS
  <2>3. Len(<<b, d, e, f>>) = Len(<<b, d>>) + Len(<<e, f>>)  OBVIOUS
  <2> QED  BY Zenon, <2>1, <2>2, <2>3 DEF Joins
<1> HIDE DEF S
<1>6. <<a>> \o <<b, d, e, f>> = <<a, b, d, e, f>>  BY Zenon, <1>1, <1>2, <1>4
<1>7. <<b, d>> \o <<e, f>> = <<b, d, e, f>>  BY Zenon, <1>1, <1>2, <1>3, <1>5
<1> QED  BY Zenon, <1>6, <1>7 DEF RegroupsLast
LEMMA MessagesTyped ==
  ASSUME NEW segs, NEW S, NEW c, NEW nlri, Signing(segs, S, c, nlri),
         NEW F, F = Fields(segs, S, c, nlri)
  PROVE  \A k \in 1..Len(segs) : S[k].message \in Seq(F)
<1> DEFINE n == Len(segs)
           P == {k \in 1..n : S[k].message \in Seq(F)}
<1>1. n \in Nat /\ n \in 1..n  BY Zenon, SigningFacts
<1>2. n \in P
  <2>1. /\ AsnField(Target(segs, c, n)) \in F /\ PathField(segs[n]) \in F
        /\ AsnField(segs[n].asn) \in F /\ AlgoField \in F /\ NlriField(nlri) \in F
    BY Zenon, <1>1 DEF Fields
  <2> PICK a \in F, b \in F, d \in F, e \in F, f \in F :
        /\ a = AsnField(Target(segs, c, n)) /\ b = PathField(segs[n])
        /\ d = AsnField(segs[n].asn) /\ e = AlgoField /\ f = NlriField(nlri)
    BY Zenon, <2>1
  <2>2. <<a, b, d, e, f>> \in Seq(F)  OBVIOUS
  <2>3. S[n].message = Behind(segs, c, nlri, S[n + 1], n)  BY Zenon, <1>1, SigningFacts
  <2>4. S[n].message = <<a, b, d, e, f>>
    BY Zenon, <2>3 DEF Behind
  <2>5. S[n].message \in Seq(F)  BY Zenon, <2>2, <2>4
  <2> QED  BY Zenon, <1>1, <2>5
<1>3. \A k \in 1..(n - 1) : k + 1 \in P => k \in P
  <2> SUFFICES ASSUME NEW k \in 1..(n - 1), k + 1 \in P PROVE k \in P  OBVIOUS
  <2>1. k \in 1..n /\ k # n /\ k + 1 \in 1..n
    <3> HIDE DEF n, P
    <3> QED  BY <1>1
  <2>2. To(segs, c, k) \in Seq(F) /\ <<PathField(segs[k])>> \in Seq(F)
    BY Zenon, <2>1, FieldSequences
  <2>3. SigFields(S[k + 1]) \in Seq(F)  BY Zenon, <2>1, FieldSequences
  <2>4. S[k + 1].message \in Seq(F)  OBVIOUS
  <2>5. To(segs, c, k) \o SigFields(S[k + 1]) \o <<PathField(segs[k])>> \o S[k + 1].message
        \in Seq(F)
    BY Zenon, <2>2, <2>3, <2>4, ConcatProperties
  <2>6. S[k].message = Behind(segs, c, nlri, S[k + 1], k)  BY Zenon, <2>1, SigningFacts
  <2>7. S[k].message \in Seq(F)  BY Zenon, <2>1, <2>5, <2>6 DEF Behind, To
  <2> QED  BY Zenon, <2>1, <2>7
<1>4. \A k \in 1..n : k \in P
  <2> HIDE DEF P, n
  <2> QED  BY Zenon, <1>1, <1>2, <1>3, Downwards
<1> QED  BY <1>4

LEMMA RestIs ==
  ASSUME NEW segs, NEW S, NEW c, NEW nlri, Signing(segs, S, c, nlri),
         NEW F, F = Fields(segs, S, c, nlri), NEW k \in 1..Len(segs)
  PROVE  /\ Rest(segs, S, nlri, k) \in Seq(F)
         /\ S[k].message = To(segs, c, k) \o Rest(segs, S, nlri, k)
<1>0. S[k].message = Behind(segs, c, nlri, S[k + 1], k)  BY Zenon, SigningFacts
<1>1. CASE k = Len(segs)
  <2>1. /\ AsnField(Target(segs, c, k)) \in F /\ PathField(segs[k]) \in F
        /\ AsnField(segs[k].asn) \in F /\ AlgoField \in F /\ NlriField(nlri) \in F
    BY Zenon DEF Fields
  <2>2. ASSUME NEW b \in F, NEW d \in F, NEW e \in F, NEW f \in F
        PROVE  <<b, d, e, f>> \in Seq(F)
    OBVIOUS
  <2>3. Rest(segs, S, nlri, k) \in Seq(F)  BY Zenon, <1>1, <2>1, <2>2 DEF Rest
  <2>4. RegroupsLast(AsnField(Target(segs, c, k)), PathField(segs[k]), AsnField(segs[k].asn),
                     AlgoField, NlriField(nlri))
    BY Zenon, <2>1, RegroupLast
  <2> QED  BY Zenon, <1>0, <1>1, <2>3, <2>4 DEF RegroupsLast, Behind, Rest, To
<1>2. CASE k # Len(segs)
  <2> PICK a : a = To(segs, c, k)  OBVIOUS
  <2> PICK g : g = SigFields(S[k + 1])  OBVIOUS
  <2> PICK p : p = <<PathField(segs[k])>>  OBVIOUS
  <2> PICK m : m = S[k + 1].message  OBVIOUS
  <2>1. k + 1 \in 1..Len(segs)
    <3>1. Len(segs) \in Nat  BY Zenon, SigningFacts
    <3> QED  BY <1>2, <3>1
  <2>2. a \in Seq(F) /\ p \in Seq(F)  BY Zenon, FieldSequences
  <2>3. g \in Seq(F)  BY Zenon, <2>1, FieldSequences
  <2>4. m \in Seq(F)  BY Zenon, <2>1, MessagesTyped
  <2>5. Rest(segs, S, nlri, k) = (g \o p) \o m  BY Zenon, <1>2 DEF Rest
  <2>6. S[k].message = ((a \o g) \o p) \o m  BY Zenon, <1>0, <1>2 DEF Behind, To
  <2>7. g \o p \in Seq(F) /\ (g \o p) \o m \in Seq(F)
    BY Zenon, <2>2, <2>3, <2>4, ConcatProperties
  <2>8. Regroups(a, g, p) /\ Regroups(a, g \o p, m)
    BY Zenon, <2>2, <2>3, <2>4, <2>7, Regrouped
  <2> QED  BY Zenon, <2>5, <2>6, <2>7, <2>8 DEF Regroups
<1> QED  BY <1>1, <1>2

LEMMA RestLast ==
  ASSUME NEW segs, NEW S, NEW c, NEW nlri, Signing(segs, S, c, nlri),
         NEW k, k = Len(segs)
  PROVE  Rest(segs, S, nlri, k) = Seg(segs, k) \o <<AlgoField, NlriField(nlri)>>
<1> DEFINE F == Fields(segs, S, c, nlri)
<1>1. k \in 1..Len(segs)  BY Zenon, SigningFacts
<1>2. /\ AsnField(Target(segs, c, k)) \in F /\ PathField(segs[k]) \in F
      /\ AsnField(segs[k].asn) \in F /\ AlgoField \in F /\ NlriField(nlri) \in F
  BY Zenon, <1>1 DEF Fields
<1> HIDE DEF F
<1>3. RegroupsLast(AsnField(Target(segs, c, k)), PathField(segs[k]), AsnField(segs[k].asn),
                   AlgoField, NlriField(nlri))
  BY Zenon, <1>2, RegroupLast
<1> QED  BY Zenon, <1>3 DEF RegroupsLast, Rest, Seg

LEMMA RestStep ==
  ASSUME NEW segs, NEW S, NEW c, NEW nlri, Signing(segs, S, c, nlri),
         NEW k \in 1..Len(segs), k # Len(segs)
  PROVE  Rest(segs, S, nlri, k)
         = SigFields(S[k + 1]) \o Seg(segs, k) \o Rest(segs, S, nlri, k + 1)
<1> PICK F : F = Fields(segs, S, c, nlri)  OBVIOUS
<1>1. k + 1 \in 1..Len(segs) /\ k + 1 # 1 /\ k + 1 - 1 = k
  <2>1. Len(segs) \in Nat  BY Zenon, SigningFacts
  <2> QED  BY <2>1
<1>2. Target(segs, c, k + 1) = segs[k].asn  BY <1>1 DEF Target
<1>3. PICK r \in Seq(F) : r = Rest(segs, S, nlri, k + 1)  BY Zenon, <1>1, RestIs
<1>4. S[k + 1].message = <<AsnField(segs[k].asn)>> \o r
  <2>1. S[k + 1].message = To(segs, c, k + 1) \o r  BY Zenon, <1>1, <1>3, RestIs
  <2> QED  BY Zenon, <1>2, <2>1 DEF To
<1>5. SigFields(S[k + 1]) \in Seq(F)  BY Zenon, <1>1, FieldSequences
<1>6. PathField(segs[k]) \in F /\ AsnField(segs[k].asn) \in F  BY Zenon DEF Fields
<1>7. RegroupsPair(SigFields(S[k + 1]), PathField(segs[k]), AsnField(segs[k].asn), r)
  BY Zenon, <1>5, <1>6, Regroup
<1> QED  BY Zenon, <1>3, <1>4, <1>7 DEF RegroupsPair, Rest, Seg

-----------------------------------------------------------------------------
(* The message a validator hashes                                          *)

HashFrom(from, a, nlri, n) ==
  from = [j \in 1..n |->
            IF j = n THEN <<PathField(a.segs[n]), AsnField(a.segs[n].asn)>>
                          \o <<AlgoField, NlriField(nlri)>>
            ELSE SigFields(a.block.sigs[j + 1])
                 \o <<PathField(a.segs[j]), AsnField(a.segs[j].asn)>> \o from[j + 1]]

IsRest(f, segs, S, nlri, n) == \A k \in 1..n : f[k] = Rest(segs, S, nlri, k)

LEMMA SameFields ==
  ASSUME NEW g, NEW h, g.ski = h.ski, g.sigLen = h.sigLen, g.sig = h.sig
  PROVE  SigFields(g) = SigFields(h)
BY Zenon DEF SigFields, SkiField, LenField, SigField

(* What follows the first AS number is the same for both.                  *)
LEMMA HashFromRest ==
  ASSUME NEW segs, NEW S, NEW c, NEW nlri, Signing(segs, S, c, nlri),
         NEW a, AttrFacts(a, segs, S),
         NEW n, n = Len(segs)
  PROVE  /\ HashFrom([k \in 1..n |-> Rest(segs, S, nlri, k)], a, nlri, n)
         /\ \A f : HashFrom(f, a, nlri, n) => IsRest(f, segs, S, nlri, n)
<1> DEFINE step(f, j) ==
             IF j = n THEN <<PathField(a.segs[n]), AsnField(a.segs[n].asn)>>
                           \o <<AlgoField, NlriField(nlri)>>
             ELSE SigFields(a.block.sigs[j + 1])
                  \o <<PathField(a.segs[j]), AsnField(a.segs[j].asn)>> \o f[j + 1]
<1>1. n \in Nat /\ n \in 1..n  BY Zenon, SigningFacts
<1>2. \A f : HashFrom(f, a, nlri, n) <=> f = [j \in 1..n |-> step(f, j)]
  BY Zenon DEF HashFrom
<1>3. \A f : step(f, n) = Rest(segs, S, nlri, n)
  <2>1. Rest(segs, S, nlri, n) = Seg(segs, n) \o <<AlgoField, NlriField(nlri)>>
    BY Zenon, RestLast
  <2> QED  BY Zenon, <2>1 DEF Seg, AttrFacts
<1>4. ASSUME NEW f, NEW j \in 1..(n - 1), f[j + 1] = Rest(segs, S, nlri, j + 1)
      PROVE  step(f, j) = Rest(segs, S, nlri, j)
  <2>1. j \in 1..n /\ j # n /\ j + 1 \in 1..n  BY <1>1
  <2>2. Rest(segs, S, nlri, j)
        = SigFields(S[j + 1]) \o Seg(segs, j) \o Rest(segs, S, nlri, j + 1)
    BY Zenon, <2>1, RestStep
  <2>3. SigFields(a.block.sigs[j + 1]) = SigFields(S[j + 1])
    <3>1. /\ a.block.sigs[j + 1].ski = S[j + 1].ski
          /\ a.block.sigs[j + 1].sigLen = S[j + 1].sigLen
          /\ a.block.sigs[j + 1].sig = S[j + 1].sig
      BY Zenon, <2>1 DEF AttrFacts
    <3> QED  BY Zenon, <3>1, SameFields
  <2>4. a.segs = segs  BY Zenon DEF AttrFacts
  <2> QED  BY Zenon, <1>4, <2>1, <2>2, <2>3, <2>4 DEF Seg
<1> HIDE DEF step
<1> DEFINE rest(k) == Rest(segs, S, nlri, k)
           g == [k \in 1..n |-> rest(k)]
<1>5. g = [j \in 1..n |-> step(g, j)]
  <2>1. ASSUME NEW j \in 1..n PROVE rest(j) = step(g, j)
    <3>1. CASE j = n  BY Zenon, <1>3, <3>1
    <3>2. CASE j # n
      <4>1. j \in 1..(n - 1) /\ j + 1 \in 1..n  BY <1>1, <3>2
      <4>2. g[j + 1] = Rest(segs, S, nlri, j + 1)  BY Zenon, <4>1
      <4> QED  BY Zenon, <1>4, <4>1, <4>2
    <3> QED  BY <3>1, <3>2
  <2> DEFINE next(j) == step(g, j)
  <2>2. \A j \in 1..n : rest(j) = next(j)  BY Zenon, <2>1
  <2> HIDE DEF rest, next
  <2>3. g = [j \in 1..n |-> next(j)]  BY <2>2
  <2> QED  BY Zenon, <2>3 DEF next
<1>6. HashFrom(g, a, nlri, n)  BY Zenon, <1>2, <1>5
<1>7. ASSUME NEW f, HashFrom(f, a, nlri, n), NEW k \in 1..n PROVE f[k] = rest(k)
  <2> DEFINE P == {j \in 1..n : f[j] = rest(j)}
             next(j) == step(f, j)
  <2>1. f = [j \in 1..n |-> next(j)]  BY Zenon, <1>2, <1>7
  <2>2. \A j \in 1..n : f[j] = next(j)
    <3> HIDE DEF next
    <3> QED  BY <2>1
  <2>3. n \in P  BY Zenon, <1>1, <1>3, <2>2
  <2>4. \A j \in 1..(n - 1) : j + 1 \in P => j \in P
    <3> SUFFICES ASSUME NEW j \in 1..(n - 1), j + 1 \in P PROVE j \in P  OBVIOUS
    <3>1. j \in 1..n  BY <1>1
    <3>2. f[j + 1] = Rest(segs, S, nlri, j + 1)  BY Zenon
    <3>3. f[j] = rest(j)  BY Zenon, <1>4, <2>2, <3>1, <3>2
    <3> QED  BY Zenon, <3>1, <3>3
  <2>5. \A j \in 1..n : j \in P
    <3> HIDE DEF P
    <3> QED  BY Zenon, <1>1, <2>3, <2>4, Downwards
  <2> QED  BY Zenon, <2>5
<1> QED  BY Zenon, <1>6, <1>7 DEF IsRest

LEMMA HashIsMessage ==
  ASSUME NEW segs, NEW S, NEW c, NEW nlri, Signing(segs, S, c, nlri),
         NEW a, AttrFacts(a, segs, S), NEW k \in 1..Len(segs)
  PROVE  HashMessage(a, c.peerAS, nlri, k) = S[k].message
<1> DEFINE n == a.secPathLen \div 6
           f == CHOOSE f : HashFrom(f, a, nlri, n)
<1>1. n = Len(segs) /\ a.segs = segs  BY Zenon DEF AttrFacts
<1>2. HashMessage(a, c.peerAS, nlri, k)
      = <<AsnField(IF k = 1 THEN c.peerAS ELSE a.segs[k - 1].asn)>> \o f[k]
  BY Zenon DEF HashMessage, HashFrom
<1> HIDE DEF n
<1>3. HashFrom(f, a, nlri, n)  BY Zenon, <1>1, HashFromRest
<1> HIDE DEF f
<1>4. IsRest(f, segs, S, nlri, n)  BY Zenon, <1>1, <1>3, HashFromRest
<1>5. f[k] = Rest(segs, S, nlri, k)  BY Zenon, <1>1, <1>4 DEF IsRest
<1>6. S[k].message = To(segs, c, k) \o Rest(segs, S, nlri, k)  BY Zenon, RestIs
<1>7. (IF k = 1 THEN c.peerAS ELSE a.segs[k - 1].asn) = Target(segs, c, k)
  BY Zenon, <1>1 DEF Target
<1>8. HashMessage(a, c.peerAS, nlri, k) = To(segs, c, k) \o f[k]
  BY Zenon, <1>2, <1>7 DEF To
<1> QED  BY Zenon, <1>5, <1>6, <1>8
LEMMA PartBytes ==
  ASSUME NEW segs, NEW S, NEW c, NEW nlri, Signing(segs, S, c, nlri),
         NEW k \in 1..Len(segs)
  PROVE  /\ Bytes(To(segs, c, k)) = 4 /\ Bytes(Seg(segs, k)) = 6
         /\ Bytes(SigFields(S[k])) = 22 + S[k].sigLen
         /\ Bytes(<<AlgoField, NlriField(nlri)>>) = 5 + nlri.bytes
<1>1. S[k].sigLen \in Nat /\ nlri.bytes \in Nat  BY Zenon, SigningFacts
<1>2. \A x : AsnField(x)[3] = 4 /\ SkiField(x)[3] = 20 /\ LenField(x)[3] = 2 /\ PathField(x)[3] = 2
  BY DEF AsnField, SkiField, LenField, PathField
<1>3. SigField(S[k])[3] = S[k].sigLen  BY DEF SigField
<1>4. AlgoField[3] = 1 /\ NlriField(nlri)[3] = 4 + nlri.bytes  BY DEF AlgoField, NlriField
<1>5. 4 + nlri.bytes \in Nat /\ 4 \in Nat /\ 20 \in Nat /\ 2 \in Nat /\ 1 \in Nat  BY <1>1
<1>6. Bytes(To(segs, c, k)) = 4  BY Zenon, <1>2, <1>5, BytesOne DEF To
<1>7. Bytes(Seg(segs, k)) = 6
  <2> PICK p : p = PathField(segs[k])  OBVIOUS
  <2> PICK a : a = AsnField(segs[k].asn)  OBVIOUS
  <2>1. p[3] = 2 /\ a[3] = 4  BY Zenon, <1>2
  <2>2. p[3] \in Nat /\ a[3] \in Nat  BY <2>1
  <2>3. Bytes(<<p, a>>) = p[3] + a[3]  BY Zenon, <2>2, BytesTwo
  <2>4. Bytes(Seg(segs, k)) = 2 + 4  BY Zenon, <2>1, <2>3 DEF Seg
  <2> QED  BY <2>4
<1>8. Bytes(SigFields(S[k])) = 22 + S[k].sigLen
  <2> PICK w \in Nat : w = S[k].sigLen  BY <1>1
  <2> PICK f : f = SkiField(S[k].ski)  OBVIOUS
  <2> PICK g : g = LenField(S[k].sigLen)  OBVIOUS
  <2> PICK h : h = SigField(S[k])  OBVIOUS
  <2>1. f[3] = 20 /\ g[3] = 2 /\ h[3] = w  BY Zenon, <1>2, <1>3
  <2>2. f[3] \in Nat /\ g[3] \in Nat /\ h[3] \in Nat  BY <2>1
  <2>3. Bytes(<<f, g, h>>) = f[3] + g[3] + h[3]  BY <2>2, BytesThree
  <2>4. Bytes(SigFields(S[k])) = 20 + 2 + w  BY Zenon, <2>1, <2>3 DEF SigFields
  <2>5. 20 + 2 + w = 22 + w  OBVIOUS
  <2> QED  BY Zenon, <2>4, <2>5
<1>9. Bytes(<<AlgoField, NlriField(nlri)>>) = 5 + nlri.bytes
  <2> PICK w \in Nat : w = nlri.bytes  BY <1>1
  <2>1. Bytes(<<AlgoField, NlriField(nlri)>>) = 1 + (4 + w)
    BY Zenon, <1>1, <1>4, <1>5, BytesTwo
  <2>2. 1 + (4 + w) = 5 + w  OBVIOUS
  <2> QED  BY Zenon, <2>1, <2>2
<1> QED  BY Zenon, <1>6, <1>7, <1>8, <1>9

RestBytes(segs, S, nlri, k) ==
  Bytes(Rest(segs, S, nlri, k)) + Total(Weights(S, k))
  = 6 * (Len(segs) - k) + 11 + nlri.bytes + Total(Weights(S, Len(segs)))

LEMMA RestBytesAre ==
  ASSUME NEW segs, NEW S, NEW c, NEW nlri, Signing(segs, S, c, nlri)
  PROVE  \A k \in 1..Len(segs) : RestBytes(segs, S, nlri, k)
<1> PICK n : n = Len(segs)  OBVIOUS
<1> PICK F : F = Fields(segs, S, c, nlri)  OBVIOUS
<1> DEFINE P == {k \in 1..n : RestBytes(segs, S, nlri, k)}
<1>1. n \in Nat /\ n \in 1..n  BY Zenon, SigningFacts
<1>2. \A f \in F : f[3] \in Nat  BY Zenon, FieldsTyped
<1>3. PICK b \in Nat : b = nlri.bytes  BY Zenon, SigningFacts
<1>4. /\ \A k \in 0..n : Total(Weights(S, k)) \in Nat
      /\ \A k \in 1..n : Total(Weights(S, k)) = Total(Weights(S, k - 1)) + 22 + S[k].sigLen
  <2>1. \A k \in 1..n : S[k].sigLen \in Nat  BY Zenon, SigningFacts
  <2> QED  BY Zenon, <1>1, <2>1, WeightsAdd
<1>5. n \in P
  <2>1. Bytes(Rest(segs, S, nlri, n)) = Bytes(Seg(segs, n)) + Bytes(<<AlgoField, NlriField(nlri)>>)
    <3>1. Rest(segs, S, nlri, n) = Seg(segs, n) \o <<AlgoField, NlriField(nlri)>>
      BY Zenon, RestLast
    <3>2. Seg(segs, n) \in Seq(F) /\ <<AlgoField, NlriField(nlri)>> \in Seq(F)
      BY Zenon, <1>1, FieldSequences
    <3> QED  BY Zenon, <1>2, <3>1, <3>2, BytesConcat
  <2>2. Bytes(Seg(segs, n)) = 6 /\ Bytes(<<AlgoField, NlriField(nlri)>>) = 5 + b
    BY Zenon, <1>1, <1>3, PartBytes
  <2>3. PICK t \in Nat : t = Total(Weights(S, n))
    <3>1. n \in 0..n  BY <1>1
    <3> QED  BY Zenon, <1>4, <3>1
  <2>4. PICK r : r = Bytes(Rest(segs, S, nlri, n))  OBVIOUS
  <2>5. r = 6 + (5 + b)  BY Zenon, <2>1, <2>2, <2>4
  <2>6. r + t = 6 * (n - n) + 11 + b + t  BY <1>1, <2>5
  <2>7. RestBytes(segs, S, nlri, n)  BY Zenon, <1>3, <2>3, <2>4, <2>6 DEF RestBytes
  <2> QED  BY Zenon, <1>1, <2>7
<1>6. \A k \in 1..(n - 1) : k + 1 \in P => k \in P
  <2> SUFFICES ASSUME NEW k \in 1..(n - 1), k + 1 \in P PROVE k \in P  OBVIOUS
  <2> HIDE DEF P
  <2>1. k \in 1..n /\ k # n /\ k + 1 \in 1..n /\ k \in 0..n /\ n \in 0..n /\ k + 1 \in 0..n
        /\ k \in Nat /\ (k + 1) - 1 = k
    BY <1>1
  <2>2. PICK w \in Nat : w = S[k + 1].sigLen  BY Zenon, <2>1, SigningFacts
  <2>3. PICK t \in Nat : t = Total(Weights(S, n))  BY Zenon, <1>4, <2>1
  <2>4. PICK u \in Nat : u = Total(Weights(S, k))  BY Zenon, <1>4, <2>1
  <2>5. PICK v \in Nat : v = Total(Weights(S, k + 1))  BY Zenon, <1>4, <2>1
  <2>6. v = u + 22 + w  BY Zenon, <1>4, <2>1, <2>2, <2>4, <2>5
  <2>7. Rest(segs, S, nlri, k + 1) \in Seq(F)  BY Zenon, <2>1, RestIs
  <2>8. PICK r : r = Bytes(Rest(segs, S, nlri, k))  OBVIOUS
  <2>9. PICK q \in Nat : q = Bytes(Rest(segs, S, nlri, k + 1))  BY Zenon, <1>2, <2>7, BytesConcat
  <2>10. r = 22 + w + 6 + q
    <3> PICK s : s = SigFields(S[k + 1])  OBVIOUS
    <3> PICK p : p = Seg(segs, k)  OBVIOUS
    <3> PICK m : m = Rest(segs, S, nlri, k + 1)  OBVIOUS
    <3>1. Rest(segs, S, nlri, k) = (s \o p) \o m  BY Zenon, <2>1, RestStep
    <3>2. s \in Seq(F) /\ p \in Seq(F) /\ m \in Seq(F)  BY Zenon, <2>1, <2>7, FieldSequences
    <3>3. s \o p \in Seq(F)  BY Zenon, <3>2, ConcatProperties
    <3>4. Bytes((s \o p) \o m) = Bytes(s \o p) + Bytes(m)  BY Zenon, <1>2, <3>2, <3>3, BytesConcat
    <3>5. Bytes(s \o p) = Bytes(s) + Bytes(p)  BY Zenon, <1>2, <3>2, BytesConcat
    <3>6. Bytes(s) = 22 + w  BY Zenon, <2>1, <2>2, PartBytes
    <3>7. Bytes(p) = 6  BY Zenon, <2>1, PartBytes
    <3> QED  BY Zenon, <2>8, <2>9, <3>1, <3>4, <3>5, <3>6, <3>7
  <2>11. q + v = 6 * (n - (k + 1)) + 11 + b + t
    <3>1. RestBytes(segs, S, nlri, k + 1)  BY DEF P
    <3> QED  BY Zenon, <1>3, <2>3, <2>5, <2>9, <3>1 DEF RestBytes
  <2>12. r + u = 6 * (n - k) + 11 + b + t  BY <1>1, <2>1, <2>6, <2>10, <2>11
  <2>13. RestBytes(segs, S, nlri, k)  BY Zenon, <1>3, <2>3, <2>4, <2>8, <2>12 DEF RestBytes
  <2> QED  BY Zenon, <2>1, <2>13 DEF P
<1>7. \A k \in 1..n : k \in P
  <2> HIDE DEF P
  <2> QED  BY Zenon, <1>1, <1>5, <1>6, Downwards
<1> QED  BY Zenon, <1>7

(* The buffer of the validator has room for the message and no more.       *)
LEMMA HashLengthIs ==
  ASSUME NEW segs, NEW S, NEW c, NEW nlri, Signing(segs, S, c, nlri),
         NEW a, AttrFacts(a, segs, S), NEW k \in 1..Len(segs)
  PROVE  HashMessageLength(a, nlri, k) = Bytes(S[k].message)
<1> PICK n : n = Len(segs)  OBVIOUS
<1> PICK F : F = Fields(segs, S, c, nlri)  OBVIOUS
<1>1. n \in Nat /\ n \in 1..n /\ k \in 0..n /\ n \in 0..n /\ k \in Nat
  <2>1. n \in Nat /\ n \in 1..n  BY Zenon, SigningFacts
  <2> QED  BY <2>1
<1>2. \A f \in F : f[3] \in Nat  BY Zenon, FieldsTyped
<1>3. PICK b \in Nat : b = nlri.bytes  BY Zenon, SigningFacts
<1>4. \A j \in 0..n : Total(Weights(S, j)) \in Nat
  <2>1. \A j \in 1..n : S[j].sigLen \in Nat  BY Zenon, SigningFacts
  <2> QED  BY Zenon, <1>1, <2>1, WeightsAdd
<1>5. PICK t \in Nat : t = Total(Weights(S, n))  BY Zenon, <1>1, <1>4
<1>6. PICK u \in Nat : u = Total(Weights(S, k))  BY Zenon, <1>1, <1>4
<1>7. Rest(segs, S, nlri, k) \in Seq(F) /\ To(segs, c, k) \in Seq(F)
  BY Zenon, RestIs, FieldSequences
<1>8. PICK r \in Nat : r = Bytes(Rest(segs, S, nlri, k))  BY Zenon, <1>2, <1>7, BytesConcat
<1>9. r + u = 6 * (n - k) + 11 + b + t
  <2>1. RestBytes(segs, S, nlri, k)  BY Zenon, RestBytesAre
  <2> QED  BY Zenon, <1>3, <1>5, <1>6, <1>8, <2>1 DEF RestBytes
<1>10. Bytes(S[k].message) = 4 + r
  <2>1. S[k].message = To(segs, c, k) \o Rest(segs, S, nlri, k)  BY Zenon, RestIs
  <2>2. Bytes(To(segs, c, k)) = 4  BY Zenon, PartBytes
  <2> QED  BY Zenon, <1>2, <1>7, <1>8, <2>1, <2>2, BytesConcat
<1>11. MessageSize(a, nlri) = 4 + 6 * (n + 1) + (3 + t) - 3 + 1 + 4 + b
  <2>1. a.secPathLen \div 6 = n /\ a.block.length = 3 + t  BY Zenon, <1>5 DEF AttrFacts
  <2> QED  BY Zenon, <1>3, <2>1 DEF MessageSize
<1>12. Total([j \in 1..k |-> 22 + a.block.sigs[j].sigLen]) = u
  <2> DEFINE x(j) == 22 + a.block.sigs[j].sigLen
             y(j) == 22 + S[j].sigLen
  <2>1. ASSUME NEW j \in 1..k PROVE x(j) = y(j)
    <3>1. j \in 1..n  BY <1>1
    <3> QED  BY Zenon, <3>1 DEF AttrFacts
  <2>2. [j \in 1..k |-> x(j)] = [j \in 1..k |-> y(j)]
    <3> HIDE DEF x, y
    <3> QED  BY <2>1
  <2> QED  BY Zenon, <1>6, <2>2 DEF Weights
<1>13. HashMessageLength(a, nlri, k)
       = (4 + 6 * (n + 1) + (3 + t) - 3 + 1 + 4 + b) - (4 + 6 * (k - 1) + 2 + u)
  BY Zenon, <1>11, <1>12 DEF HashMessageLength
<1>14. (4 + 6 * (n + 1) + (3 + t) - 3 + 1 + 4 + b) - (4 + 6 * (k - 1) + 2 + u) = 4 + r
  BY <1>1, <1>9
<1> QED  BY Zenon, <1>10, <1>13, <1>14

-----------------------------------------------------------------------------
(* Validation                                                              *)

LEMMA BlockIsFound ==
  ASSUME NEW segs, NEW S, NEW c, NEW nlri, Signing(segs, S, c, nlri),
         NEW a, AttrFacts(a, segs, S)
  PROVE  BlockFound(a)
<1>1. PICK n \in Nat : n = Len(segs)  BY Zenon, SigningFacts
<1>2. PICK t \in Nat : t = Total(Weights(S, n))
  <2>1. \A j \in 1..n : S[j].sigLen \in Nat  BY Zenon, <1>1, SigningFacts
  <2>2. n \in 0..n  BY <1>1
  <2>3. Total(Weights(S, n)) \in Nat  BY Zenon, <1>1, <2>1, <2>2, WeightsAdd
  <2> QED  BY Zenon, <2>3
<1> PICK length : length = a.block.length  OBVIOUS
<1> PICK path : path = a.secPathLen  OBVIOUS
<1>3. length = 3 + t /\ path = 2 + 6 * n /\ a.length = path + length
  BY Zenon, <1>1, <1>2 DEF AttrFacts
<1>4. length \in 1..((path + length) - path)  BY <1>1, <1>2, <1>3
<1> QED  BY Zenon, <1>3, <1>4 DEF BlockFound

SameMessage(a, c, nlri, S, k) ==
  /\ HashMessage(a, c.peerAS, nlri, k) = S[k].message
  /\ HashMessageLength(a, nlri, k) = Bytes(S[k].message)

LEMMA MessagesAgree ==
  ASSUME NEW segs, NEW S, NEW c, NEW nlri, Signing(segs, S, c, nlri),
         NEW a, AttrFacts(a, segs, S), NEW k \in 1..Len(segs)
  PROVE  SameMessage(a, c, nlri, S, k)
BY HashIsMessage, HashLengthIs DEF SameMessage

(* Both sides of a signature: one that was made is verified by the key of  *)
(* the same line of the key file, if the plug-in got it.                   *)
VerifiesWith(a, segs, c, nlri, keys, k) ==
  Verifies(a, c.peerAS, nlri, keys, k)
  <=> /\ SignsAs(c, segs[k].asn)
      /\ \E key \in keys : /\ key.asn = segs[k].asn
                           /\ key.ski = LineOf(segs[k].asn).ski

LEMMA SignatureVerifies ==
  ASSUME NEW segs, NEW S, NEW c, NEW nlri, Signing(segs, S, c, nlri),
         NEW a, AttrFacts(a, segs, S), NEW keys, NEW k \in 1..Len(segs)
  PROVE  VerifiesWith(a, segs, c, nlri, keys, k)
<1> PICK asn : asn = segs[k].asn  OBVIOUS
<1> PICK g : g = a.block.sigs[k]  OBVIOUS
<1> PICK m : m = S[k].message  OBVIOUS
<1>1. g.ski = S[k].ski /\ g.sig = S[k].sig /\ a.segs[k].asn = asn  BY Zenon DEF AttrFacts
<1>2. SameMessage(a, c, nlri, S, k)  BY Zenon, MessagesAgree
<1>3. HashMessage(a, c.peerAS, nlri, k) = m /\ HashMessageLength(a, nlri, k) = Bytes(m)
  BY Zenon, <1>2 DEF SameMessage
<1>4. Verifies(a, c.peerAS, nlri, keys, k)
      <=> /\ \E key \in keys : key.asn = asn /\ key.ski = g.ski
          /\ g.sig = <<g.ski, m>>
  BY Zenon, <1>1, <1>3 DEF Verifies
<1>5. SignedAs(S[k], asn, c, Behind(segs, c, nlri, S[k + 1], k))
  BY Zenon, SignedFacts DEF Signing
<1>6. SignsAs(c, asn) => g.ski = LineOf(asn).ski /\ g.sig = <<g.ski, m>>
  BY Zenon, <1>1, <1>5 DEF SignedAs
<1>7. ~SignsAs(c, asn) => g.sig # <<g.ski, m>>
  <2>1. ~SignsAs(c, asn) => g.sig = <<>>  BY Zenon, <1>1, <1>5 DEF SignedAs
  <2>2. <<>> # <<g.ski, m>>  OBVIOUS
  <2> QED  BY Zenon, <2>1, <2>2
<1> QED  BY Zenon, <1>4, <1>6, <1>7 DEF VerifiesWith

-----------------------------------------------------------------------------
(* The lengths in the attribute                                            *)

LEMMA FlattenBytes ==
  ASSUME NEW F, \A f \in F : f[3] \in Nat, NEW seqs \in Seq(Seq(F)),
         NEW w, w \in [0..Len(seqs) -> Nat], w[0] = 0,
         \A k \in 1..Len(seqs) : w[k] = w[k - 1] + Bytes(seqs[k])
  PROVE  Bytes(FlattenSeq(seqs)) = w[Len(seqs)]
<1> PICK n : n = Len(seqs)  OBVIOUS
<1> DEFINE P == {k \in 0..n : Bytes(FlattenSeq(FirstOf(seqs, k))) = w[k]}
<1>1. n \in Nat /\ 0 \in 0..n /\ n \in 0..n
  <2>1. n \in Nat  OBVIOUS
  <2> QED  BY <2>1
<1>2. 0 \in P
  <2>1. FlattenSeq(FirstOf(seqs, 0)) = <<>>  BY Zenon, FlattenFront
  <2>2. Bytes(<<>>) = 0
    <3>1. Sizes(<<>>) = <<>>  BY DEF Sizes
    <3> QED  BY Zenon, <3>1, TotalNone DEF Bytes, Sizes
  <2> QED  BY Zenon, <1>1, <2>1, <2>2
<1>3. \A k \in 1..n : k - 1 \in P => k \in P
  <2> SUFFICES ASSUME NEW k \in 1..n, k - 1 \in P PROVE k \in P  OBVIOUS
  <2>1. k \in 0..n /\ k - 1 \in 0..n  BY <1>1
  <2>2. FlattenSeq(FirstOf(seqs, k)) = FlattenSeq(FirstOf(seqs, k - 1)) \o seqs[k]
    BY Zenon, FlattenStep
  <2>3. FlattenSeq(FirstOf(seqs, k - 1)) \in Seq(F)  BY Zenon, <2>1, FlattenFront
  <2>4. seqs[k] \in Seq(F)  BY ElementOfSeq
  <2>5. Bytes(FlattenSeq(FirstOf(seqs, k - 1)) \o seqs[k])
        = Bytes(FlattenSeq(FirstOf(seqs, k - 1))) + Bytes(seqs[k])
    BY Zenon, <2>3, <2>4, BytesConcat
  <2>6. Bytes(FlattenSeq(FirstOf(seqs, k - 1))) = w[k - 1]  OBVIOUS
  <2>7. Bytes(FlattenSeq(FirstOf(seqs, k))) = w[k]  BY Zenon, <2>2, <2>5, <2>6
  <2> QED  BY Zenon, <2>1, <2>7
<1>4. \A k \in 0..n : k \in P
  <2> HIDE DEF P
  <2> QED  BY Zenon, <1>1, <1>2, <1>3, Upwards
<1>5. Bytes(FlattenSeq(FirstOf(seqs, n))) = w[n]  BY Zenon, <1>1, <1>4
<1> QED  BY Zenon, <1>5, FlattenFront

(* Fields of segments and of signatures, laid out as in the attribute.     *)
LEMMA PathBytes ==
  ASSUME NEW segs, NEW S, NEW c, NEW nlri, Signing(segs, S, c, nlri)
  PROVE  Bytes(FlattenSeq([k \in 1..Len(segs) |-> Seg(segs, k)])) = 6 * Len(segs)
<1> PICK n \in Nat : n = Len(segs)  BY Zenon, SigningFacts
<1> PICK F : F = Fields(segs, S, c, nlri)  OBVIOUS
<1> DEFINE item(k) == Seg(segs, k)
           seqs == [k \in 1..n |-> item(k)]
           w == [k \in 0..n |-> 6 * k]
<1>1. \A f \in F : f[3] \in Nat  BY Zenon, FieldsTyped
<1>2. \A k \in 1..n : item(k) \in Seq(F) /\ Bytes(item(k)) = 6
  BY Zenon, FieldSequences, PartBytes
<1>3. seqs \in Seq(Seq(F)) /\ Len(seqs) = n /\ \A k \in 1..n : seqs[k] = item(k)
  <2> HIDE DEF item
  <2>1. seqs \in [1..n -> Seq(F)]  BY <1>2
  <2>2. \A k \in 1..n : seqs[k] = item(k)  OBVIOUS
  <2> HIDE DEF seqs
  <2>3. seqs \in Seq(Seq(F))  BY <2>1, SeqDef
  <2>4. Len(seqs) = n  BY <2>1, <2>3, LenProperties
  <2> QED  BY Zenon, <2>2, <2>3, <2>4
<1>4. w \in [0..n -> Nat] /\ w[0] = 0 /\ w[n] = 6 * n
  OBVIOUS
<1>5. ASSUME NEW k \in 1..n PROVE w[k] = w[k - 1] + Bytes(seqs[k])
  <2>1. w[k] = 6 * k /\ w[k - 1] = 6 * (k - 1)  OBVIOUS
  <2>2. Bytes(seqs[k]) = 6  BY Zenon, <1>2, <1>3
  <2> HIDE DEF w, seqs
  <2>3. 6 * k = 6 * (k - 1) + 6  OBVIOUS
  <2> QED  BY Zenon, <2>1, <2>2, <2>3
<1> HIDE DEF w, seqs
<1>6. Bytes(FlattenSeq(seqs)) = w[n]
  <2>1. w \in [0..Len(seqs) -> Nat] /\ \A k \in 1..Len(seqs) : w[k] = w[k - 1] + Bytes(seqs[k])
    BY Zenon, <1>3, <1>4, <1>5
  <2>2. Bytes(FlattenSeq(seqs)) = w[Len(seqs)]
    BY Zenon, <1>1, <1>3, <1>4, <2>1, FlattenBytes
  <2> QED  BY Zenon, <1>3, <2>2
<1> QED  BY Zenon, <1>4, <1>6 DEF seqs

LEMMA SigBytes ==
  ASSUME NEW segs, NEW S, NEW c, NEW nlri, Signing(segs, S, c, nlri)
  PROVE  Bytes(FlattenSeq([k \in 1..Len(segs) |-> SigFields(S[k])])) = Total(Weights(S, Len(segs)))
<1> PICK n \in Nat : n = Len(segs)  BY Zenon, SigningFacts
<1> PICK F : F = Fields(segs, S, c, nlri)  OBVIOUS
<1> DEFINE item(k) == SigFields(S[k])
           seqs == [k \in 1..n |-> item(k)]
           weight(k) == Total(Weights(S, k))
           w == [k \in 0..n |-> weight(k)]
<1>1. \A f \in F : f[3] \in Nat  BY Zenon, FieldsTyped
<1>2. \A k \in 1..n : item(k) \in Seq(F) /\ Bytes(item(k)) = 22 + S[k].sigLen
  BY Zenon, FieldSequences, PartBytes
<1>3. seqs \in Seq(Seq(F)) /\ Len(seqs) = n /\ \A k \in 1..n : seqs[k] = item(k)
  <2> HIDE DEF item
  <2>1. seqs \in [1..n -> Seq(F)]  BY <1>2
  <2>2. \A k \in 1..n : seqs[k] = item(k)  OBVIOUS
  <2> HIDE DEF seqs
  <2>3. seqs \in Seq(Seq(F))  BY <2>1, SeqDef
  <2>4. Len(seqs) = n  BY <2>1, <2>3, LenProperties
  <2> QED  BY Zenon, <2>2, <2>3, <2>4
<1>4. /\ \A k \in 0..n : weight(k) \in Nat
      /\ \A k \in 1..n : weight(k) = weight(k - 1) + 22 + S[k].sigLen
      /\ \A k \in 1..n : S[k].sigLen \in Nat
  <2>1. \A k \in 1..n : S[k].sigLen \in Nat  BY Zenon, SigningFacts
  <2> QED  BY Zenon, <2>1, WeightsAdd
<1>5. weight(0) = 0
  <2>1. Weights(S, 0) = <<>>  BY DEF Weights
  <2> QED  BY Zenon, <2>1, TotalNone
<1> HIDE DEF weight
<1>6. 0 \in 0..n /\ n \in 0..n /\ \A k \in 1..n : k \in 0..n /\ k - 1 \in 0..n  OBVIOUS
<1>7. w \in [0..n -> Nat] /\ \A k \in 0..n : w[k] = weight(k)  BY <1>4
<1> HIDE DEF w, seqs
<1>8. ASSUME NEW k \in 1..n PROVE w[k] = w[k - 1] + Bytes(seqs[k])
  <2> PICK a \in Nat : a = weight(k - 1)  BY Zenon, <1>4, <1>6
  <2> PICK b \in Nat : b = S[k].sigLen  BY Zenon, <1>4
  <2>1. w[k] = a + 22 + b /\ w[k - 1] = a  BY Zenon, <1>4, <1>6, <1>7
  <2>2. Bytes(seqs[k]) = 22 + b  BY Zenon, <1>2, <1>3
  <2>3. a + 22 + b = a + (22 + b)  OBVIOUS
  <2> QED  BY Zenon, <2>1, <2>2, <2>3
<1>9. Bytes(FlattenSeq(seqs)) = w[n]
  <2>1. w \in [0..Len(seqs) -> Nat] /\ w[0] = 0
        /\ \A k \in 1..Len(seqs) : w[k] = w[k - 1] + Bytes(seqs[k])
    BY Zenon, <1>3, <1>5, <1>6, <1>7, <1>8
  <2>2. Bytes(FlattenSeq(seqs)) = w[Len(seqs)]
    BY Zenon, <1>1, <1>3, <2>1, FlattenBytes
  <2> QED  BY Zenon, <1>3, <2>2
<1>10. w[n] = Total(Weights(S, n))  BY Zenon, <1>6, <1>7 DEF weight
<1> QED  BY Zenon, <1>9, <1>10 DEF seqs

-----------------------------------------------------------------------------
(* What the segments spell                                                 *)

Copies(n, asn) == [j \in 1..n |-> asn]

LEMMA CopiesTyped ==
  ASSUME NEW n \in Nat, NEW asn \in Int
  PROVE  /\ Copies(n, asn) \in Seq(Int)
         /\ Copies(n + 1, asn) = Copies(n, asn) \o <<asn>>
         /\ Copies(1, asn) = <<asn>>
<1>1. ASSUME NEW i \in Nat
      PROVE  /\ Copies(i, asn) \in Seq(Int) /\ Len(Copies(i, asn)) = i
             /\ \A j \in 1..i : Copies(i, asn)[j] = asn
  <2>1. Copies(i, asn) \in [1..i -> Int]  BY DEF Copies
  <2>2. Copies(i, asn) \in Seq(Int)  BY <2>1, SeqDef
  <2>3. Len(Copies(i, asn)) = i  BY <2>1, <2>2, LenProperties
  <2> QED  BY Zenon, <2>2, <2>3 DEF Copies
<1> PICK a : a = Copies(n, asn)  OBVIOUS
<1> PICK b : b = Copies(n + 1, asn)  OBVIOUS
<1>2. n + 1 \in Nat /\ 1 \in Nat  OBVIOUS
<1>3. /\ a \in Seq(Int) /\ Len(a) = n /\ \A j \in 1..n : a[j] = asn
      /\ b \in Seq(Int) /\ Len(b) = n + 1 /\ \A j \in 1..(n + 1) : b[j] = asn
  BY Zenon, <1>1, <1>2
<1>4. <<asn>> \in Seq(Int) /\ Len(<<asn>>) = 1 /\ <<asn>>[1] = asn  OBVIOUS
<1>5. b = a \o <<asn>>
  <2>1. Joins(b, a, <<asn>>)
    <3>1. Len(b) = Len(a) + Len(<<asn>>)  BY <1>3, <1>4
    <3>2. \A i \in 1..Len(a) : b[i] = a[i]
      <4>1. \A i \in 1..n : i \in 1..(n + 1)  OBVIOUS
      <4> QED  BY Zenon, <1>3, <4>1
    <3>3. \A i \in 1..Len(<<asn>>) : b[Len(a) + i] = <<asn>>[i]
      <4>1. b[n + 1] = asn
        <5>1. n + 1 \in 1..(n + 1)  OBVIOUS
        <5> QED  BY Zenon, <1>3, <5>1
      <4>2. \A i \in 1..1 : i = 1  OBVIOUS
      <4> QED  BY Zenon, <1>3, <1>4, <4>1, <4>2
    <3> QED  BY Zenon, <3>1, <3>2, <3>3 DEF Joins
  <2>2. a \o <<asn>> \in Seq(Int) /\ Joins(a \o <<asn>>, a, <<asn>>)
    BY Zenon, <1>3, <1>4, ConcatParts
  <2> QED  BY Zenon, <1>3, <1>4, <2>1, <2>2, JoinsOnce
<1>6. Copies(1, asn) = <<asn>>
  <2>1. /\ Copies(1, asn) \in Seq(Int) /\ Len(Copies(1, asn)) = 1
        /\ \A j \in 1..1 : Copies(1, asn)[j] = asn
    BY Zenon, <1>1, <1>2
  <2>2. \A j \in 1..Len(<<asn>>) : Copies(1, asn)[j] = <<asn>>[j]
    <3>1. \A i \in 1..1 : i = 1  OBVIOUS
    <3> QED  BY Zenon, <1>4, <2>1, <3>1
  <2> QED  BY Zenon, <1>4, <2>1, <2>2, SameSequence
<1> QED  BY Zenon, <1>3, <1>5, <1>6

SpelledFrom(segs, n) ==
  /\ Spelled(segs) \in Seq(Int)
  /\ Spelled(FirstOf(segs, n - 1)) \in Seq(Int)
  /\ Spelled(segs) = Spelled(FirstOf(segs, n - 1)) \o Copies(segs[n].pCount, segs[n].asn)

LEMMA SpelledLast ==
  ASSUME NEW segs \in Seq(SegmentRecord), NEW n, n = Len(segs), n # 0
  PROVE  SpelledFrom(segs, n)
<1>0. n \in Nat /\ DOMAIN segs = 1..n /\ n - 1 \in 0..n /\ n \in 1..n /\ n - 1 \in Nat
  <2>1. n \in Nat /\ DOMAIN segs = 1..n  OBVIOUS
  <2> QED  BY <2>1
<1> DEFINE item(k) == Copies(segs[k].pCount, segs[k].asn)
           seqs == [k \in 1..n |-> item(k)]
<1>1. \A k \in 1..n : item(k) \in Seq(Int)
  <2> SUFFICES ASSUME NEW k \in 1..n PROVE item(k) \in Seq(Int)  OBVIOUS
  <2>1. segs[k] \in SegmentRecord  BY ElementOfSeq
  <2>2. segs[k].pCount \in Nat /\ segs[k].asn \in Int  BY <2>1 DEF SegmentRecord
  <2> QED  BY Zenon, <2>2, CopiesTyped
<1>2. Spelled(segs) = FlattenSeq(seqs)  BY Zenon, <1>0 DEF Spelled, Copies
<1>3. seqs \in Seq(Seq(Int)) /\ Len(seqs) = n /\ \A k \in 1..n : seqs[k] = item(k)
  <2> HIDE DEF item
  <2>1. seqs \in [1..n -> Seq(Int)]  BY <1>1
  <2>2. \A k \in 1..n : seqs[k] = item(k)  OBVIOUS
  <2> HIDE DEF seqs
  <2>3. seqs \in Seq(Seq(Int))  BY <1>0, <2>1, SeqDef
  <2>4. Len(seqs) = n  BY <1>0, <2>1, <2>3, LenProperties
  <2> QED  BY Zenon, <2>2, <2>3, <2>4
<1>4. Spelled(FirstOf(segs, n - 1)) = FlattenSeq(FirstOf(seqs, n - 1))
  <2> PICK s : s = FirstOf(segs, n - 1)  OBVIOUS
  <2>1. /\ Len(s) = n - 1 /\ s \in Seq(SegmentRecord)
        /\ \A i \in 1..(n - 1) : s[i] = segs[i]
    BY Zenon, <1>0, FirstOfIs
  <2>2. DOMAIN s = 1..(n - 1)  BY <2>1
  <2> DEFINE a(k) == Copies(s[k].pCount, s[k].asn)
             b(k) == seqs[k]
  <2>3. \A k \in 1..(n - 1) : a(k) = b(k)
    <3>1. \A k \in 1..(n - 1) : k \in 1..n  BY <1>0
    <3> HIDE DEF seqs
    <3> QED  BY Zenon, <1>3, <2>1, <3>1
  <2>4. [k \in 1..(n - 1) |-> a(k)] = [k \in 1..(n - 1) |-> b(k)]
    <3> HIDE DEF a, b
    <3> QED  BY <2>3
  <2> HIDE DEF seqs
  <2>5. Spelled(s) = FlattenSeq([k \in 1..(n - 1) |-> a(k)])
    BY Zenon, <2>2 DEF Spelled, Copies
  <2> QED  BY Zenon, <2>4, <2>5 DEF FirstOf
<1> HIDE DEF seqs
<1>5. FlattenSeq(FirstOf(seqs, n)) = FlattenSeq(FirstOf(seqs, n - 1)) \o seqs[n]
  BY Zenon, <1>0, <1>3, FlattenStep
<1>6. /\ FlattenSeq(FirstOf(seqs, n)) = FlattenSeq(seqs)
      /\ FlattenSeq(FirstOf(seqs, n)) \in Seq(Int) /\ FlattenSeq(FirstOf(seqs, n - 1)) \in Seq(Int)
  <2>1. n \in 0..n  BY <1>0
  <2> QED  BY Zenon, <1>0, <1>3, <2>1, FlattenFront
<1> QED  BY Zenon, <1>0, <1>2, <1>3, <1>4, <1>5, <1>6 DEF SpelledFrom
(* The segment stands for the run that ends at place i of the path.        *)
RunEnds(seg, path, i) ==
  /\ seg.asn = path[i] /\ seg.pCount \in 1..(PCountMod - 1) /\ seg.pCount <= i
  /\ \A j \in (i - seg.pCount + 1)..i : path[j] = path[i]

SpellsTo(s, path, i) ==
  /\ s \in Seq(SegmentRecord) /\ Spelled(s) = FirstOf(path, i)
  /\ i = 0 => s = <<>>
  /\ i # 0 => s # <<>> /\ RunEnds(s[Len(s)], path, i)

LEMMA FirstOfStep ==
  ASSUME NEW S, NEW s \in Seq(S), NEW k \in 1..Len(s)
  PROVE  FirstOf(s, k) = FirstOf(s, k - 1) \o <<s[k]>>
<1>1. k \in 0..Len(s) /\ k - 1 \in 0..Len(s) /\ k \in Nat
  <2>1. Len(s) \in Nat  OBVIOUS
  <2> QED  BY <2>1
<1> PICK a : a = FirstOf(s, k - 1)  OBVIOUS
<1> PICK b : b = FirstOf(s, k)  OBVIOUS
<1> PICK x : x = s[k]  OBVIOUS
<1>2. /\ a \in Seq(S) /\ Len(a) = k - 1 /\ \A i \in 1..(k - 1) : a[i] = s[i]
      /\ b \in Seq(S) /\ Len(b) = k /\ \A i \in 1..k : b[i] = s[i]
  BY Zenon, <1>1, FirstOfIs
<1>3. x \in S  BY ElementOfSeq
<1>4. <<x>> \in Seq(S) /\ Len(<<x>>) = 1 /\ <<x>>[1] = x  BY <1>3
<1>5. Joins(b, a, <<x>>)
  <2>1. Len(b) = Len(a) + Len(<<x>>)  BY <1>1, <1>2, <1>4
  <2>2. \A i \in 1..Len(a) : b[i] = a[i]
    <3>1. \A i \in 1..(k - 1) : i \in 1..k  BY <1>1
    <3> QED  BY Zenon, <1>2, <3>1
  <2>3. \A i \in 1..Len(<<x>>) : b[Len(a) + i] = <<x>>[i]
    <3>1. \A i \in 1..1 : i = 1  OBVIOUS
    <3>2. (k - 1) + 1 = k /\ k \in 1..k  BY <1>1
    <3> QED  BY Zenon, <1>2, <1>4, <3>1, <3>2
  <2> QED  BY Zenon, <2>1, <2>2, <2>3 DEF Joins
<1>6. a \o <<x>> \in Seq(S) /\ Joins(a \o <<x>>, a, <<x>>)  BY Zenon, <1>2, <1>4, ConcatParts
<1>7. b = a \o <<x>>  BY Zenon, <1>2, <1>4, <1>5, <1>6, JoinsOnce
<1> QED  BY Zenon, <1>7

(* One more AS number of the run: it stays shorter than pCount can count.  *)
RunGrown(n, path, i) ==
  /\ n \in Nat /\ n + 1 \in 1..(PCountMod - 1) /\ n + 1 <= i
  /\ (n + 1) % PCountMod = n + 1
  /\ \A j \in (i - (n + 1) + 1)..i : path[j] = path[i]

RunStart(b, n, m, i, len) ==
  b \in 1..len /\ b + m - 1 = i /\ b = i - (n + 1) + 1 /\ b \in b..i

LEMMA RunStarts ==
  ASSUME NEW i \in Nat, NEW n \in Nat, NEW m \in Nat, NEW len \in Nat,
         i \in 1..len, n + 1 = m, n <= i - 1, NEW b, b = i - n
  PROVE  RunStart(b, n, m, i, len)
BY DEF RunStart

LEMMA ModSmall ==
  ASSUME NEW x \in Nat, NEW m \in Nat, x < m, m > 0
  PROVE  x % m = x
OBVIOUS

LEMMA RunGrows ==
  ASSUME NEW path \in Seq(Int), Countable(path), NEW i \in 1..Len(path), i # 1,
         NEW seg, RunEnds(seg, path, i - 1), seg.asn = path[i],
         NEW n, n = seg.pCount
  PROVE  RunGrown(n, path, i)
<1>1. PCountMod \in Nat /\ PCountMod # 0 /\ Len(path) \in Nat /\ DOMAIN path = 1..Len(path)
      /\ i \in Nat
  BY Widths
<1>2. n \in 1..(PCountMod - 1) /\ n <= i - 1 /\ n \in Nat
  BY <1>1 DEF RunEnds
<1>3. ASSUME NEW j \in (i - (n + 1) + 1)..i PROVE path[j] = path[i]
  <2>1. CASE j = i  BY <2>1
  <2>2. CASE j # i
    <3>1. j \in ((i - 1) - n + 1)..(i - 1)  BY <1>1, <1>2, <2>2
    <3>2. path[j] = path[i - 1] /\ path[i - 1] = path[i]  BY Zenon, <3>1 DEF RunEnds
    <3> QED  BY Zenon, <3>2
  <2> QED  BY <2>1, <2>2
<1>4. n + 1 # PCountMod
  <2> SUFFICES ASSUME n + 1 = PCountMod PROVE FALSE  OBVIOUS
  <2> PICK m \in Nat : m = PCountMod  BY <1>1
  <2> PICK len \in Nat : len = Len(path)  BY <1>1
  <2> PICK b : b = i - n  OBVIOUS
  <2>0. i \in 1..len /\ n + 1 = m /\ n <= i - 1 /\ i \in Nat /\ n \in Nat
    BY Zenon, <1>1, <1>2
  <2>5. RunStart(b, n, m, i, len)  BY Zenon, <2>0, RunStarts
  <2>1. b \in 1..Len(path) /\ b + PCountMod - 1 = i /\ b = i - (n + 1) + 1
    BY Zenon, <2>5 DEF RunStart
  <2>2. \E j \in b..i : path[j] # path[b]  BY Zenon, <1>1, <2>1 DEF Countable
  <2>3. b \in b..i  BY Zenon, <2>5 DEF RunStart
  <2>4. \A j \in b..i : path[j] = path[i]  BY Zenon, <1>3, <2>1
  <2> QED  BY Zenon, <2>2, <2>3, <2>4
<1>5. n + 1 \in 1..(PCountMod - 1) /\ n + 1 <= i  BY <1>1, <1>2, <1>4
<1>6. (n + 1) % PCountMod = n + 1
  <2> PICK m \in Nat : m = PCountMod  BY <1>1
  <2> PICK x : x = n + 1  OBVIOUS
  <2>1. x \in Nat /\ x < m /\ m > 0  BY <1>1, <1>2, <1>5
  <2>2. x % m = x  BY Zenon, <2>1, ModSmall
  <2> QED  BY Zenon, <2>2
<1> QED  BY Zenon, <1>2, <1>3, <1>5, <1>6 DEF RunGrown

LEMMA CountSpells ==
  ASSUME NEW path \in Seq(Int), Countable(path), NEW i \in 1..Len(path),
         NEW s, SpellsTo(s, path, i - 1)
  PROVE  SpellsTo(Count(s, path[i]), path, i)
<1> PICK asn : asn = path[i]  OBVIOUS
<1> PICK n : n = Len(s)  OBVIOUS
<1>1. /\ s \in Seq(SegmentRecord) /\ Spelled(s) = FirstOf(path, i - 1)
      /\ i - 1 = 0 => s = <<>>
      /\ i - 1 # 0 => s # <<>> /\ RunEnds(s[Len(s)], path, i - 1)
  BY Zenon DEF SpellsTo
<1>2. /\ n \in Nat /\ i \in Nat /\ i # 0 /\ Len(path) \in Nat /\ asn \in Int
      /\ PCountMod \in Nat /\ PCountMod # 0 /\ DOMAIN path = 1..Len(path)
  <2>1. asn \in Int  BY ElementOfSeq
  <2> QED  BY <1>1, <2>1, Widths
<1>3. FirstOf(path, i) = Spelled(s) \o <<asn>>  BY Zenon, <1>1, FirstOfStep
<1>4. CASE s # <<>> /\ s[n].asn = asn
  <2>1. n # 0 /\ n \in 1..n  BY <1>1, <1>2, <1>4
  <2>2. i # 1  BY <1>1, <1>2, <1>4
  <2>3. s[n] \in SegmentRecord  BY <1>1, <2>1, ElementOfSeq
  <2> PICK k : k = s[n].pCount  OBVIOUS
  <2>4. /\ k \in Nat /\ k + 1 \in 1..(PCountMod - 1) /\ k + 1 <= i
        /\ (k + 1) % PCountMod = k + 1
        /\ \A j \in (i - (k + 1) + 1)..i : path[j] = path[i]
    <3>1. RunEnds(s[n], path, i - 1)
      <4>1. i - 1 # 0  BY <1>2, <2>2
      <4> QED  BY Zenon, <1>1, <4>1
    <3>2. RunGrown(k, path, i)  BY Zenon, <1>4, <2>2, <3>1, RunGrows
    <3> QED  BY Zenon, <3>2 DEF RunGrown
  <2> PICK seg : seg = [s[n] EXCEPT !.pCount = k + 1]  OBVIOUS
  <2>5. seg \in SegmentRecord /\ seg.pCount = k + 1 /\ seg.asn = asn
    <3>1. k + 1 \in Nat  BY <2>4
    <3> QED  BY <1>4, <2>3, <3>1 DEF SegmentRecord
  <2> PICK t : t = [s EXCEPT ![n] = seg]  OBVIOUS
  <2>6. Count(s, asn) = t
    <3>1. Last(s) = s[n]  BY Zenon DEF Last
    <3>2. Count(s, asn) = [s EXCEPT ![n].pCount = (@ + 1) % PCountMod]
      BY Zenon, <1>4, <3>1 DEF Count
    <3>3. [s EXCEPT ![n].pCount = (@ + 1) % PCountMod]
          = [s EXCEPT ![n] = [s[n] EXCEPT !.pCount = (s[n].pCount + 1) % PCountMod]]
      OBVIOUS
    <3> QED  BY Zenon, <2>4, <3>2, <3>3
  <2>7. t \in Seq(SegmentRecord) /\ Len(t) = n /\ t[n] = seg
        /\ \A j \in 1..(n - 1) : t[j] = s[j]
    <3>1. s \in [1..n -> SegmentRecord]  BY <1>1
    <3>2. t \in [1..n -> SegmentRecord] /\ t[n] = seg  BY <2>1, <2>5, <3>1
    <3>3. t \in Seq(SegmentRecord)  BY Zenon, <1>2, <3>2, FunctionIsSeq
    <3>4. Len(t) = n  BY <1>2, <3>2, <3>3, LenProperties
    <3>5. \A j \in 1..(n - 1) : t[j] = s[j]  BY <1>2, <3>1
    <3> QED  BY Zenon, <3>2, <3>3, <3>4, <3>5
  <2>8. FirstOf(t, n - 1) = FirstOf(s, n - 1)  BY <2>7 DEF FirstOf
  <2> PICK front : front = Spelled(FirstOf(s, n - 1))  OBVIOUS
  <2>9. front \in Seq(Int) /\ Spelled(s) = front \o Copies(k, asn)
    <3>1. SpelledFrom(s, n)  BY Zenon, <1>1, <2>1, SpelledLast
    <3> QED  BY Zenon, <1>4, <3>1 DEF SpelledFrom
  <2>10. Spelled(t) = front \o Copies(k + 1, asn)
    <3>1. SpelledFrom(t, n)  BY Zenon, <2>1, <2>7, SpelledLast
    <3> QED  BY Zenon, <2>5, <2>7, <2>8, <3>1 DEF SpelledFrom
  <2>11. Copies(k, asn) \in Seq(Int) /\ Copies(k + 1, asn) = Copies(k, asn) \o <<asn>>
    BY Zenon, <1>2, <2>4, CopiesTyped
  <2>12. Spelled(t) = Spelled(s) \o <<asn>>
    <3>1. <<asn>> \in Seq(Int)  BY <1>2
    <3>2. Regroups(front, Copies(k, asn), <<asn>>)  BY Zenon, <2>9, <2>11, <3>1, Regrouped
    <3> QED  BY Zenon, <2>9, <2>10, <2>11, <3>2 DEF Regroups
  <2>13. RunEnds(t[n], path, i)
    BY Zenon, <2>4, <2>5, <2>7 DEF RunEnds
  <2>14. t # <<>>
    <3>1. Len(t) # 0  BY <2>1, <2>7
    <3> QED  BY <3>1
  <2> QED  BY Zenon, <1>2, <1>3, <2>6, <2>7, <2>12, <2>13, <2>14 DEF SpellsTo
<1>5. CASE ~(s # <<>> /\ s[n].asn = asn)
  <2> PICK seg : seg = [pCount |-> 1, flags |-> 0, asn |-> asn]  OBVIOUS
  <2>1. seg \in SegmentRecord /\ seg.pCount = 1 /\ seg.asn = asn
    BY <1>2 DEF SegmentRecord
  <2> PICK t : t = Append(s, seg)  OBVIOUS
  <2>2. Count(s, asn) = t
    <3>1. Last(s) = s[n]  BY Zenon DEF Last
    <3> QED  BY Zenon, <1>5, <3>1 DEF Count
  <2>3. t \in Seq(SegmentRecord) /\ Len(t) = n + 1 /\ t[n + 1] = seg
        /\ \A j \in 1..n : t[j] = s[j]
    BY <1>1, <1>2, <2>1
  <2>4. n + 1 # 0 /\ (n + 1) - 1 = n  BY <1>2
  <2>5. FirstOf(t, n) = s
    <3>1. FirstOf(t, n) = FirstOf(s, n)  BY <2>3 DEF FirstOf
    <3> QED  BY Zenon, <1>1, <3>1, FirstOfAll
  <2>6. Spelled(t) = Spelled(s) \o <<asn>>
    <3>1. SpelledFrom(t, n + 1)  BY Zenon, <2>3, <2>4, SpelledLast
    <3>2. Copies(1, asn) = <<asn>>
      <4>1. 0 \in Nat  OBVIOUS
      <4> QED  BY Zenon, <1>2, <4>1, CopiesTyped
    <3> QED  BY Zenon, <2>1, <2>3, <2>4, <2>5, <3>1, <3>2 DEF SpelledFrom
  <2>7. PCountMod # 1
    <3> SUFFICES ASSUME PCountMod = 1 PROVE FALSE  OBVIOUS
    <3>1. i + PCountMod - 1 = i  BY <1>2
    <3>2. \E j \in i..i : path[j] # path[i]  BY Zenon, <1>2, <3>1 DEF Countable
    <3>3. \A j \in i..i : j = i  BY <1>2
    <3> QED  BY Zenon, <3>2, <3>3
  <2>8. RunEnds(seg, path, i)
    <3>1. 1 \in 1..(PCountMod - 1) /\ 1 <= i  BY <1>2, <2>7
    <3>2. \A j \in (i - 1 + 1)..i : j = i  BY <1>2
    <3> QED  BY Zenon, <2>1, <3>1, <3>2 DEF RunEnds
  <2>9. t # <<>>
    <3>1. Len(t) # 0  BY <1>2, <2>3
    <3> QED  BY <3>1
  <2> QED  BY Zenon, <1>2, <1>3, <2>2, <2>3, <2>6, <2>8, <2>9 DEF SpellsTo
<1> QED  BY Zenon, <1>4, <1>5

(* Segments are the runs of the path.                                      *)
LEMMA SegmentsSpell ==
  ASSUME NEW path \in Seq(Int), Countable(path)
  PROVE  Spelled(Segments(path)) = path
<1> PICK n : n = Len(path)  OBVIOUS
<1>1. n \in Nat /\ 0 \in 0..n /\ n \in 0..n
  <2>1. n \in Nat  OBVIOUS
  <2> QED  BY <2>1
<1>2. PICK f : CountsUp(f, path) /\ Segments(path) = f[n]  BY Zenon, SegmentsBuilt
<1>3. \A i \in 0..n : f[i] = IF i = 0 THEN <<>> ELSE Count(f[i - 1], path[i])
  BY Zenon, <1>2 DEF CountsUp
<1> DEFINE P == {i \in 0..n : SpellsTo(f[i], path, i)}
<1>4. 0 \in P
  <2>1. f[0] = <<>>  BY <1>1, <1>3
  <2>2. FirstOf(path, 0) = <<>>  BY Zenon, FirstOfAll
  <2>3. Spelled(<<>>) = <<>>
    <3>1. Spelled(<<>>) = FlattenSeq(<<>>)  BY DEF Spelled
    <3> QED  BY Zenon, <3>1, FlattenNone
  <2>4. <<>> \in Seq(SegmentRecord)  OBVIOUS
  <2>5. SpellsTo(f[0], path, 0)  BY Zenon, <2>1, <2>2, <2>3, <2>4 DEF SpellsTo
  <2> QED  BY Zenon, <1>1, <2>5
<1>5. \A i \in 1..n : i - 1 \in P => i \in P
  <2> SUFFICES ASSUME NEW i \in 1..n, i - 1 \in P PROVE i \in P  OBVIOUS
  <2>1. i \in 0..n /\ i # 0  BY <1>1
  <2>2. f[i] = Count(f[i - 1], path[i])  BY Zenon, <1>3, <2>1
  <2>3. SpellsTo(f[i - 1], path, i - 1)  OBVIOUS
  <2>4. SpellsTo(f[i], path, i)  BY Zenon, <2>2, <2>3, CountSpells
  <2> QED  BY Zenon, <2>1, <2>4
<1>6. \A i \in 0..n : i \in P
  <2> HIDE DEF P
  <2> QED  BY Zenon, <1>1, <1>4, <1>5, Upwards
<1>7. Spelled(f[n]) = FirstOf(path, n)  BY Zenon, <1>1, <1>6 DEF SpellsTo
<1>8. FirstOf(path, n) = path  BY Zenon, FirstOfAll
<1> QED  BY Zenon, <1>2, <1>7, <1>8

(* Within the limits the path is converted as it is written.               *)
LEMMA ConvertedAsWritten ==
  ASSUME NEW c, NEW path \in Seq([asn : Nat, count : Nat, dotted : BOOLEAN]), Printable(path)
  PROVE  MyPath(c, path) = Written(c, path)
<1> DEFINE a(i) == [j \in 1..path[i].count |-> Printed(path[i])]
           b(i) == [j \in 1..path[i].count |-> path[i].asn]
<1>1. ASSUME NEW i \in DOMAIN path PROVE a(i) = b(i)
  <2>1. path[i].dotted \/ path[i].asn < SignBit  BY Zenon DEF Printable
  <2>2. Printed(path[i]) = path[i].asn  BY Zenon, <2>1 DEF Printed
  <2> QED  BY Zenon, <2>2
<1>2. [i \in DOMAIN path |-> a(i)] = [i \in DOMAIN path |-> b(i)]
  <2> HIDE DEF a, b
  <2> QED  BY <1>1
<1>3. LongPath(path) = FlattenSeq([i \in DOMAIN path |-> b(i)])
  BY Zenon, <1>2 DEF LongPath
<1>4. IBGP(c) => MyPath(c, path) = LongPath(path)  BY Zenon DEF MyPath
<1>5. ~IBGP(c) => MyPath(c, path) = <<c.asn>> \o LongPath(path)  BY Zenon DEF MyPath
<1>6. IBGP(c) => Written(c, path) = <<>> \o LongPath(path)  BY Zenon, <1>3 DEF Written
<1>7. ~IBGP(c) => Written(c, path) = <<c.asn>> \o LongPath(path)  BY Zenon, <1>3 DEF Written
<1>8. ASSUME IBGP(c) PROVE <<>> \o LongPath(path) = LongPath(path)
  <2>1. LongPath(path) \in Seq(Int)  BY Zenon, LongPathTyped
  <2> QED  BY <2>1, ConcatEmptySeq
<1> QED  BY Zenon, <1>4, <1>5, <1>6, <1>7, <1>8
=============================================================================
