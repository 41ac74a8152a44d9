--------------------------- MODULE SequenceLemmas ---------------------------
(***************************************************************************)
(* What the proofs about paths and messages need of numbers, sums and      *)
(* sequences.  An induction is a fact about the least element of a set, or *)
(* about a set that holds what is shown of each number.                    *)
(***************************************************************************)
EXTENDS Sums, SequencesExt, SequenceTheorems, WellFoundedInduction, TLAPS

-----------------------------------------------------------------------------
(* Induction over the natural numbers, as a fact about sets                *)

LEMMA LeastOf ==
  ASSUME NEW S \in SUBSET Nat, S # {}
  PROVE  \E n \in S : \A k \in S : n <= k
<1>1. PICK n \in S : \A k \in S : <<k, n>> \notin OpToRel(<, Nat)
  BY NatLessThanWellFounded, WFMin
<1>2. \A k \in S : ~(k < n)  BY <1>1 DEF OpToRel
<1> QED  BY <1>2

(* What holds of 0 and is handed on to the next number holds up to n.      *)
LEMMA Upwards ==
  ASSUME NEW n \in Nat, NEW P, 0 \in P, \A i \in 1..n : i - 1 \in P => i \in P
  PROVE  \A i \in 0..n : i \in P
<1> DEFINE Bad == {i \in 0..n : i \notin P}
<1> SUFFICES ASSUME Bad # {} PROVE FALSE  OBVIOUS
<1>1. PICK m \in Bad : \A k \in Bad : m <= k
  <2>1. Bad \in SUBSET Nat  OBVIOUS
  <2> HIDE DEF Bad
  <2> QED  BY <2>1, LeastOf
<1>2. m # 0 /\ m - 1 \notin Bad  BY <1>1
<1> QED  BY <1>1, <1>2

(* And downwards from n.                                                   *)
LEMMA Downwards ==
  ASSUME NEW n \in Nat, NEW P, n >= 1 => n \in P, \A i \in 1..(n - 1) : i + 1 \in P => i \in P
  PROVE  \A i \in 1..n : i \in P
<1> DEFINE Q == {i \in 0..n : n - i >= 1 => n - i \in P}
<1>1. 0 \in Q  OBVIOUS
<1>2. \A i \in 1..n : i - 1 \in Q => i \in Q
  <2>1. SUFFICES ASSUME NEW i \in 1..n, i - 1 \in Q, n - i >= 1 PROVE n - i \in P  OBVIOUS
  <2>2. n - i \in 1..(n - 1) /\ (n - i) + 1 \in P  BY <2>1
  <2> QED  BY <2>2
<1>3. \A i \in 0..n : i \in Q
  <2> HIDE DEF Q
  <2> QED  BY Zenon, <1>1, <1>2, Upwards
<1>4. ASSUME NEW i \in 1..n PROVE i \in P
  <2>1. n - i \in 0..n /\ n - (n - i) = i  OBVIOUS
  <2> QED  BY <2>1, <1>3
<1> QED  BY <1>4

(* A function that is defined by its value before: it exists, and stays    *)
(* within V if every step does.                                            *)
Recursion(f, base, step, n) ==
  f = [i \in 0..n |-> IF i = 0 THEN base ELSE step[<<i, f[i - 1]>>]]

LEMMA RecursionStays ==
  ASSUME NEW n \in Nat, NEW V, NEW base \in V, NEW step \in [(1..n) \X V -> V], NEW f,
         Recursion(f, base, step, n)
  PROVE  f \in [0..n -> V]
<1>1. \A i \in 0..n : f[i] = IF i = 0 THEN base ELSE step[<<i, f[i - 1]>>]  BY DEF Recursion
<1> DEFINE P == {i \in 0..n : f[i] \in V}
<1>2. 0 \in P
  <2>1. 0 \in 0..n  OBVIOUS
  <2> QED  BY <1>1, <2>1
<1>3. \A i \in 1..n : i - 1 \in P => i \in P
  <2> SUFFICES ASSUME NEW i \in 1..n, i - 1 \in P PROVE f[i] \in V  OBVIOUS
  <2>1. f[i] = step[<<i, f[i - 1]>>]  BY <1>1
  <2>2. <<i, f[i - 1]>> \in (1..n) \X V  OBVIOUS
  <2> QED  BY <2>1, <2>2
<1>4. \A i \in 0..n : i \in P
  <2> HIDE DEF P
  <2> QED  BY Zenon, <1>2, <1>3, Upwards
<1>5. f = [i \in 0..n |-> f[i]]
  <2> DEFINE e(i) == IF i = 0 THEN base ELSE step[<<i, f[i - 1]>>]
  <2>1. f = [i \in 0..n |-> e(i)]  BY DEF Recursion
  <2> HIDE DEF e
  <2> QED  BY <2>1
<1> QED  BY <1>4, <1>5

LEMMA RecursionExists ==
  ASSUME NEW n \in Nat, NEW V, NEW base \in V, NEW step \in [(1..n) \X V -> V]
  PROVE  \E f : Recursion(f, base, step, n)
<1> DEFINE Upto(f, k) == /\ f \in [0..k -> V]
                         /\ \A i \in 0..k : f[i] = IF i = 0 THEN base ELSE step[<<i, f[i - 1]>>]
           P == {k \in 0..n : \E f : Upto(f, k)}
<1>1. 0 \in P
  <2>1. Upto([i \in 0..0 |-> base], 0)  OBVIOUS
  <2>2. 0 \in 0..n  OBVIOUS
  <2> HIDE DEF Upto
  <2> QED  BY <2>1, <2>2
<1>2. \A k \in 1..n : k - 1 \in P => k \in P
  <2> SUFFICES ASSUME NEW k \in 1..n, k - 1 \in P PROVE \E f : Upto(f, k)
    <3> HIDE DEF Upto
    <3> QED  OBVIOUS
  <2>2. PICK g : Upto(g, k - 1)
    <3> HIDE DEF Upto
    <3> QED  OBVIOUS
  <2> DEFINE h == [i \in 0..k |-> IF i = k THEN step[<<k, g[k - 1]>>] ELSE g[i]]
  <2>3. g[k - 1] \in V  BY <2>2
  <2>4. h \in [0..k -> V]
    <3>1. step[<<k, g[k - 1]>>] \in V  BY <2>3
    <3> QED  BY <3>1, <2>2
  <2>5. ASSUME NEW i \in 0..k PROVE h[i] = IF i = 0 THEN base ELSE step[<<i, h[i - 1]>>]
    <3>2. i # 0 => h[i - 1] = g[i - 1]  OBVIOUS
    <3>3. CASE i = k
      <4>1. h[i] = step[<<k, g[k - 1]>>]  BY <3>3
      <4>2. i # 0 /\ h[i - 1] = g[k - 1]  BY <3>2, <3>3
      <4> HIDE DEF h
      <4> QED  BY <3>3, <4>1, <4>2
    <3>4. CASE i # k
      <4>1. i \in 0..(k - 1)  BY <3>4
      <4>2. g[i] = IF i = 0 THEN base ELSE step[<<i, g[i - 1]>>]  BY <4>1, <2>2
      <4>3. h[i] = g[i]  BY <3>4
      <4> QED  BY <4>2, <4>3, <3>2
    <3> QED  BY <3>3, <3>4
  <2> HIDE DEF h
  <2> QED  BY <2>4, <2>5
<1>3. \A k \in 0..n : k \in P
  <2> HIDE DEF P
  <2> QED  BY Zenon, <1>1, <1>2, Upwards
<1>4. PICK f : Upto(f, n)  BY <1>3
<1>5. f = [i \in 0..n |-> f[i]]  BY <1>4
<1>6. f = [i \in 0..n |-> IF i = 0 THEN base ELSE step[<<i, f[i - 1]>>]]
  <2> DEFINE e(i) == IF i = 0 THEN base ELSE step[<<i, f[i - 1]>>]
  <2>1. \A i \in 0..n : f[i] = e(i)  BY <1>4
  <2> HIDE DEF e
  <2>2. f = [i \in 0..n |-> e(i)]  BY <1>5, <2>1
  <2> QED  BY <2>2 DEF e
<1> QED  BY <1>6 DEF Recursion

-----------------------------------------------------------------------------
(* Sums                                                                    *)

Sums(f, s) == f = [i \in 0..Len(s) |-> IF i = 0 THEN 0 ELSE f[i - 1] + s[i]]

LEMMA SumsExist ==
  ASSUME NEW s \in Seq(Nat)
  PROVE  (\E f : Sums(f, s)) /\ \A f : Sums(f, s) => f \in [0..Len(s) -> Nat]
<1> DEFINE n == Len(s)
           step == [p \in (1..n) \X Nat |-> p[2] + s[p[1]]]
<1>1. n \in Nat /\ 0 \in Nat  OBVIOUS
<1>2. step \in [(1..n) \X Nat -> Nat]  OBVIOUS
<1>3. ASSUME NEW f, f \in [0..n -> Nat] PROVE Recursion(f, 0, step, n) <=> Sums(f, s)
  <2>1. ASSUME NEW i \in 0..n
        PROVE (IF i = 0 THEN 0 ELSE step[<<i, f[i - 1]>>]) = IF i = 0 THEN 0 ELSE f[i - 1] + s[i]
    <3>1. i # 0 => <<i, f[i - 1]>> \in (1..n) \X Nat  BY <1>3
    <3> QED  BY <3>1
  <2> DEFINE a(i) == IF i = 0 THEN 0 ELSE step[<<i, f[i - 1]>>]
             b(i) == IF i = 0 THEN 0 ELSE f[i - 1] + s[i]
  <2>2. \A i \in 0..n : a(i) = b(i)  BY <2>1
  <2>3. [i \in 0..n |-> a(i)] = [i \in 0..n |-> b(i)]
    <3> HIDE DEF a, b
    <3> QED  BY <2>2
  <2> QED  BY Zenon, <2>3 DEF Recursion, Sums
<1> HIDE DEF step
<1>4. PICK f : Recursion(f, 0, step, n) /\ f \in [0..n -> Nat]
  <2> HIDE DEF n
  <2>1. PICK f : Recursion(f, 0, step, n)  BY Zenon, <1>1, <1>2, RecursionExists
  <2>2. f \in [0..n -> Nat]  BY Zenon, <1>1, <1>2, <2>1, RecursionStays
  <2> QED  BY <2>1, <2>2
<1>5. \E g : Sums(g, s)  BY <1>3, <1>4
<1>6. ASSUME NEW g, Sums(g, s) PROVE g \in [0..n -> Nat]
  <2>1. \A i \in 0..n : g[i] = IF i = 0 THEN 0 ELSE g[i - 1] + s[i]  BY <1>6 DEF Sums
  <2> DEFINE P == {i \in 0..n : g[i] \in Nat}
  <2>2. 0 \in P
    <3>1. 0 \in 0..n  OBVIOUS
    <3> QED  BY <2>1, <3>1
  <2>3. \A i \in 1..n : i - 1 \in P => i \in P
    <3> SUFFICES ASSUME NEW i \in 1..n, i - 1 \in P PROVE g[i] \in Nat  OBVIOUS
    <3>1. g[i] = g[i - 1] + s[i]  BY <2>1
    <3>2. s[i] \in Nat /\ g[i - 1] \in Nat  OBVIOUS
    <3> QED  BY <3>1, <3>2
  <2>4. \A i \in 0..n : i \in P
    <3> HIDE DEF P, n
    <3> QED  BY Zenon, <1>1, <2>2, <2>3, Upwards
  <2>5. DOMAIN g = 0..n
    <3> DEFINE e(i) == IF i = 0 THEN 0 ELSE g[i - 1] + s[i]
    <3>1. g = [i \in 0..n |-> e(i)]  BY <1>6 DEF Sums
    <3> HIDE DEF e
    <3> QED  BY <3>1
  <2>6. g = [i \in 0..n |-> g[i]]
    <3> DEFINE e(i) == IF i = 0 THEN 0 ELSE g[i - 1] + s[i]
    <3>1. g = [i \in 0..n |-> e(i)]  BY <1>6 DEF Sums
    <3> HIDE DEF e
    <3> QED  BY <3>1
  <2> QED  BY <2>4, <2>6
<1> QED  BY <1>5, <1>6

LEMMA TotalIs ==
  ASSUME NEW s \in Seq(Nat)
  PROVE  Total(s) \in Nat /\ \E f : Sums(f, s) /\ Total(s) = f[Len(s)]
<1> DEFINE f == CHOOSE f : Sums(f, s)
<1>1. Sums(f, s)  BY Zenon, SumsExist
<1>2. Total(s) = f[Len(s)]  BY Zenon DEF Total, Sums
<1> HIDE DEF f
<1>3. f \in [0..Len(s) -> Nat]  BY <1>1, SumsExist
<1>4. f[Len(s)] \in Nat  BY <1>3
<1> QED  BY <1>1, <1>2, <1>4

(* Sums of one sequence that begins with the other agree on it.            *)
Begins(t, s) == Len(s) <= Len(t) /\ \A i \in 1..Len(s) : s[i] = t[i]

LEMMA SumsAgree ==
  ASSUME NEW s \in Seq(Nat), NEW t \in Seq(Nat), Begins(t, s),
         NEW f, Sums(f, s), NEW g, Sums(g, t)
  PROVE  \A i \in 0..Len(s) : f[i] = g[i]
<1> DEFINE n == Len(s)
           P == {i \in 0..n : f[i] = g[i]}
<1>0. n \in Nat /\ Len(t) \in Nat /\ n <= Len(t) /\ \A i \in 1..n : s[i] = t[i]
  BY DEF Begins
<1>1. \A i \in 0..n : f[i] = IF i = 0 THEN 0 ELSE f[i - 1] + s[i]  BY DEF Sums
<1>2. \A i \in 0..Len(t) : g[i] = IF i = 0 THEN 0 ELSE g[i - 1] + t[i]  BY DEF Sums
<1>3. 0 \in P
  <2>1. 0 \in 0..n /\ 0 \in 0..Len(t)  BY <1>0
  <2> QED  BY <1>1, <1>2, <2>1
<1>4. \A i \in 1..n : i - 1 \in P => i \in P
  <2> SUFFICES ASSUME NEW i \in 1..n, i - 1 \in P PROVE f[i] = g[i]  OBVIOUS
  <2>1. i \in 0..Len(t) /\ i # 0  BY <1>0
  <2>2. f[i] = f[i - 1] + s[i] /\ g[i] = g[i - 1] + t[i]  BY <1>1, <1>2, <2>1
  <2> QED  BY <1>0, <2>2
<1>5. \A i \in 0..n : i \in P
  <2> HIDE DEF P, n
  <2> QED  BY Zenon, <1>0, <1>3, <1>4, Upwards
<1> QED  BY <1>5

LEMMA TotalNone == Total(<<>>) = 0
<1>1. PICK f : Sums(f, <<>>) /\ Total(<<>>) = f[Len(<<>>)]
  <2>1. <<>> \in Seq(Nat)  OBVIOUS
  <2> QED  BY Zenon, <2>1, TotalIs
<1>2. 0 \in 0..Len(<<>>) /\ Len(<<>>) = 0  OBVIOUS
<1>3. f[0] = 0  BY <1>1, <1>2 DEF Sums
<1> QED  BY <1>1, <1>2, <1>3

LEMMA TotalFront ==
  ASSUME NEW t \in Seq(Nat), t # <<>>,
         NEW s \in Seq(Nat), Len(s) = Len(t) - 1, Begins(t, s)
  PROVE  Total(t) = Total(s) + t[Len(t)]
<1>0. Len(t) \in Nat /\ Len(t) # 0 /\ Len(s) \in Nat  OBVIOUS
<1>1. PICK f : Sums(f, s) /\ Total(s) = f[Len(s)]  BY TotalIs
<1>2. PICK g : Sums(g, t) /\ Total(t) = g[Len(t)]  BY TotalIs
<1>3. Len(s) \in 0..Len(s)  BY <1>0
<1>4. f[Len(s)] = g[Len(s)]
  <2>1. \A i \in 0..Len(s) : f[i] = g[i]  BY <1>1, <1>2, SumsAgree
  <2> QED  BY Zenon, <1>3, <2>1
<1>5. Len(t) \in 0..Len(t) /\ Len(t) - 1 = Len(s)  BY <1>0
<1>6. g[Len(t)] = g[Len(t) - 1] + t[Len(t)]  BY <1>0, <1>2, <1>5 DEF Sums
<1> QED  BY <1>1, <1>2, <1>4, <1>5, <1>6

Joins(r, s, t) ==
  /\ Len(r) = Len(s) + Len(t)
  /\ \A i \in 1..Len(s) : r[i] = s[i]
  /\ \A i \in 1..Len(t) : r[Len(s) + i] = t[i]

LEMMA ConcatParts ==
  ASSUME NEW S, NEW s \in Seq(S), NEW t \in Seq(S)
  PROVE  s \o t \in Seq(S) /\ Joins(s \o t, s, t)
BY DEF Joins

LEMMA TotalConcatStep ==
  ASSUME NEW s \in Seq(Nat), NEW a \in Seq(Nat), NEW b \in Seq(Nat),
         b # <<>>, Len(a) = Len(b) - 1, Begins(b, a), Total(s \o a) = Total(s) + Total(a)
  PROVE  Total(s \o b) = Total(s) + Total(b)
<1> DEFINE sa == s \o a
           sb == s \o b
<1>1. /\ sa \in Seq(Nat) /\ Len(sa) = Len(s) + Len(a)
      /\ \A i \in 1..Len(s) : sa[i] = s[i]
      /\ \A i \in 1..Len(a) : sa[Len(s) + i] = a[i]
  <2>1. sa \in Seq(Nat) /\ Joins(sa, s, a)  BY Zenon, ConcatParts
  <2> HIDE DEF sa
  <2> QED  BY Zenon, <2>1 DEF Joins
<1>2. /\ sb \in Seq(Nat) /\ Len(sb) = Len(s) + Len(b)
      /\ \A i \in 1..Len(s) : sb[i] = s[i]
      /\ \A i \in 1..Len(b) : sb[Len(s) + i] = b[i]
  <2>1. sb \in Seq(Nat) /\ Joins(sb, s, b)  BY Zenon, ConcatParts
  <2> HIDE DEF sb
  <2> QED  BY Zenon, <2>1 DEF Joins
<1> HIDE DEF sa, sb
<1>3. Len(s) \in Nat /\ Len(a) \in Nat /\ Len(b) \in Nat /\ Len(b) \in 1..Len(b)
  OBVIOUS
<1>4. sb[Len(sb)] = b[Len(b)] /\ sb # <<>> /\ Len(sa) = Len(sb) - 1
  BY <1>1, <1>2, <1>3
<1>5. ASSUME NEW i \in 1..Len(sa) PROVE sa[i] = sb[i]
  <2>1. CASE i <= Len(s)
    <3>1. i \in 1..Len(s)  BY <1>3, <2>1
    <3> QED  BY Zenon, <1>1, <1>2, <3>1
  <2>2. CASE ~(i <= Len(s))
    <3> PICK j : j = i - Len(s)  OBVIOUS
    <3>1. j \in 1..Len(a) /\ j \in 1..Len(b) /\ i = Len(s) + j  BY <1>1, <1>3, <2>2
    <3>2. sa[i] = a[j] /\ sb[i] = b[j]  BY Zenon, <1>1, <1>2, <3>1
    <3>3. a[j] = b[j]  BY Zenon, <3>1 DEF Begins
    <3> QED  BY <3>2, <3>3
  <2> QED  BY <2>1, <2>2
<1>6. Begins(sb, sa)  BY <1>1, <1>4, <1>5 DEF Begins
<1>7. Total(sb) = Total(sa) + sb[Len(sb)]  BY Zenon, <1>1, <1>2, <1>4, <1>6, TotalFront
<1>8. Total(b) = Total(a) + b[Len(b)]  BY Zenon, TotalFront
<1>9. Total(s) \in Nat /\ Total(a) \in Nat /\ b[Len(b)] \in Nat  BY <1>3, TotalIs
<1> QED  BY <1>4, <1>7, <1>8, <1>9 DEF sa, sb

LEMMA TotalConcat ==
  ASSUME NEW s \in Seq(Nat), NEW t \in Seq(Nat)
  PROVE  Total(s \o t) = Total(s) + Total(t)
<1> DEFINE n == Len(t)
           front(k) == [i \in 1..k |-> t[i]]
           P == {k \in 0..n : Total(s \o front(k)) = Total(s) + Total(front(k))}
<1>0. n \in Nat /\ \A i \in 1..n : t[i] \in Nat  OBVIOUS
<1>1. ASSUME NEW k \in 0..n
      PROVE  front(k) \in Seq(Nat) /\ Len(front(k)) = k
  <2>1. front(k) \in [1..k -> Nat] /\ k \in Nat  BY <1>0
  <2> HIDE DEF front
  <2> QED  BY <2>1, SeqDef, LenProperties
<1>2. 0 \in P
  <2>1. front(0) = <<>>  OBVIOUS
  <2>2. s \o <<>> = s /\ Total(s) \in Nat  BY TotalIs
  <2>3. Total(s \o front(0)) = Total(s) + Total(front(0))
    <3>1. Total(s \o front(0)) = Total(s)  BY Zenon, <2>1, <2>2
    <3>2. Total(front(0)) = 0  BY Zenon, <2>1, TotalNone
    <3> HIDE DEF front
    <3> QED  BY <2>2, <3>1, <3>2
  <2>4. 0 \in 0..n  BY <1>0
  <2> HIDE DEF front
  <2> QED  BY <2>3, <2>4
<1>3. \A k \in 1..n : k - 1 \in P => k \in P
  <2> SUFFICES ASSUME NEW k \in 1..n, k - 1 \in P
               PROVE  Total(s \o front(k)) = Total(s) + Total(front(k))
    <3> HIDE DEF front
    <3> QED  BY <1>0
  <2> PICK a : a = front(k - 1)  OBVIOUS
  <2> PICK b : b = front(k)  OBVIOUS
  <2>1. a \in Seq(Nat) /\ Len(a) = k - 1 /\ b \in Seq(Nat) /\ Len(b) = k
    <3>1. k - 1 \in 0..n /\ k \in 0..n  BY <1>0
    <3> HIDE DEF front
    <3> QED  BY <1>1, <3>1
  <2>2. \A i \in 1..(k - 1) : a[i] = b[i]  OBVIOUS
  <2>3. Total(s \o a) = Total(s) + Total(a)
    <3> HIDE DEF front
    <3> QED  OBVIOUS
  <2>4. Len(a) = Len(b) - 1 /\ Len(a) <= Len(b) /\ Len(b) # 0  BY <1>0, <2>1
  <2>5. b # <<>>  BY <2>1, <2>4
  <2>6. Begins(b, a)
    <3>1. \A i \in 1..Len(a) : a[i] = b[i]  BY Zenon, <2>1, <2>2
    <3> QED  BY Zenon, <2>4, <3>1 DEF Begins
  <2> QED  BY Zenon, <2>1, <2>3, <2>4, <2>5, <2>6, TotalConcatStep
<1>4. \A k \in 0..n : k \in P
  <2> HIDE DEF P, n
  <2> QED  BY Zenon, <1>0, <1>2, <1>3, Upwards
<1>5. n \in P  BY <1>0, <1>4
<1>6. front(n) = t  OBVIOUS
<1> QED
  <2> HIDE DEF front
  <2> QED  BY <1>5, <1>6

-----------------------------------------------------------------------------
(* Sequences                                                               *)

LEMMA IsSeq ==
  ASSUME NEW n \in Nat, NEW f, f = [i \in 1..n |-> f[i]]
  PROVE  f \in Seq({f[i] : i \in 1..n}) /\ Len(f) = n /\ DOMAIN f = 1..n
<1> DEFINE S == {f[i] : i \in 1..n}
<1>1. f \in [1..n -> S]
  <2>1. \A i \in 1..n : f[i] \in S  OBVIOUS
  <2> HIDE DEF S
  <2> QED  BY <2>1
<1> HIDE DEF S
<1>2. f \in Seq(S)  BY <1>1, SeqDef
<1>3. DOMAIN f = 1..n  BY <1>1
<1>4. Len(f) = n  BY <1>2, <1>3, LenProperties
<1> QED  BY <1>2, <1>3, <1>4 DEF S

LEMMA FunctionIsSeq ==
  ASSUME NEW S, NEW n \in Nat, NEW f \in [1..n -> S]
  PROVE  f \in Seq(S)
BY SeqDef

LEMMA SameSequence ==
  ASSUME NEW S, NEW s \in Seq(S), NEW t \in Seq(S), Len(s) = Len(t),
         \A i \in 1..Len(t) : s[i] = t[i]
  PROVE  s = t
OBVIOUS

LEMMA JoinsOnce ==
  ASSUME NEW S, NEW a \in Seq(S), NEW b \in Seq(S), NEW s \in Seq(S), NEW t \in Seq(S),
         Joins(a, s, t), Joins(b, s, t)
  PROVE  a = b
<1>1. Len(s) \in Nat /\ Len(t) \in Nat  OBVIOUS
<1>2. Len(a) = Len(s) + Len(t) /\ Len(b) = Len(s) + Len(t)  BY DEF Joins
<1>3. ASSUME NEW i \in 1..Len(b) PROVE a[i] = b[i]
  <2>1. CASE i <= Len(s)
    <3>1. i \in 1..Len(s)  BY <1>1, <2>1
    <3> QED  BY Zenon, <3>1 DEF Joins
  <2>2. CASE ~(i <= Len(s))
    <3> PICK j : j = i - Len(s)  OBVIOUS
    <3>1. j \in 1..Len(t) /\ i = Len(s) + j  BY <1>1, <1>2, <2>2
    <3>2. a[Len(s) + j] = t[j] /\ b[Len(s) + j] = t[j]  BY Zenon, <3>1 DEF Joins
    <3> QED  BY Zenon, <3>1, <3>2
  <2> QED  BY <2>1, <2>2
<1> QED  BY Zenon, <1>2, <1>3, SameSequence

LEMMA TotalOne ==
  ASSUME NEW n \in Nat
  PROVE  Total(<<n>>) = n
<1>1. <<n>> \in Seq(Nat) /\ <<n>> # <<>> /\ Len(<<n>>) = 1 /\ <<n>>[1] = n  OBVIOUS
<1>2. <<>> \in Seq(Nat) /\ Len(<<>>) = Len(<<n>>) - 1 /\ Begins(<<n>>, <<>>)  BY DEF Begins
<1>3. Total(<<n>>) = Total(<<>>) + <<n>>[Len(<<n>>)]  BY Zenon, <1>1, <1>2, TotalFront
<1>4. Total(<<n>>) = 0 + n  BY Zenon, <1>1, <1>3, TotalNone
<1> QED  BY <1>4

(* The elements of s in the order they have, each by its weight.           *)
WeightsOf(W, s) == [i \in DOMAIN s |-> W[s[i]]]

AreWeights(w, W, s) ==
  w \in Seq(Nat) /\ Len(w) = Len(s) /\ \A i \in 1..Len(s) : w[i] = W[s[i]]

LEMMA WeightsTyped ==
  ASSUME NEW S, NEW W \in [S -> Nat], NEW s \in Seq(S)
  PROVE  AreWeights(WeightsOf(W, s), W, s)
<1>0. Len(s) \in Nat /\ DOMAIN s = 1..Len(s)  OBVIOUS
<1>1. \A i \in 1..Len(s) : W[s[i]] \in Nat
  <2> SUFFICES ASSUME NEW i \in 1..Len(s) PROVE W[s[i]] \in Nat  OBVIOUS
  <2>1. s[i] \in S  BY ElementOfSeq
  <2> QED  BY <2>1
<1>2. WeightsOf(W, s) \in [1..Len(s) -> Nat]  BY <1>0, <1>1 DEF WeightsOf
<1>3. WeightsOf(W, s) \in Seq(Nat)  BY <1>0, <1>2, SeqDef
<1>4. Len(WeightsOf(W, s)) = Len(s)  BY <1>0, <1>2, <1>3, LenProperties
<1>5. \A i \in 1..Len(s) : WeightsOf(W, s)[i] = W[s[i]]  BY <1>0 DEF WeightsOf
<1> QED  BY Zenon, <1>3, <1>4, <1>5 DEF AreWeights

LEMMA WeightsConcat ==
  ASSUME NEW S, NEW W \in [S -> Nat], NEW s \in Seq(S), NEW t \in Seq(S)
  PROVE  Total(WeightsOf(W, s \o t)) = Total(WeightsOf(W, s)) + Total(WeightsOf(W, t))
<1> PICK r : r = s \o t  OBVIOUS
<1>1. r \in Seq(S) /\ Joins(r, s, t)  BY Zenon, ConcatParts
<1> PICK a : a = WeightsOf(W, s)  OBVIOUS
<1> PICK b : b = WeightsOf(W, t)  OBVIOUS
<1> PICK c : c = WeightsOf(W, r)  OBVIOUS
<1>2. a \in Seq(Nat) /\ Len(a) = Len(s) /\ \A i \in 1..Len(s) : a[i] = W[s[i]]
  <2>1. AreWeights(a, W, s)  BY Zenon, WeightsTyped
  <2> QED  BY Zenon, <2>1 DEF AreWeights
<1>3. b \in Seq(Nat) /\ Len(b) = Len(t) /\ \A i \in 1..Len(t) : b[i] = W[t[i]]
  <2>1. AreWeights(b, W, t)  BY Zenon, WeightsTyped
  <2> QED  BY Zenon, <2>1 DEF AreWeights
<1>4. c \in Seq(Nat) /\ Len(c) = Len(r) /\ \A i \in 1..Len(r) : c[i] = W[r[i]]
  <2>1. AreWeights(c, W, r)  BY Zenon, <1>1, WeightsTyped
  <2> QED  BY Zenon, <2>1 DEF AreWeights
<1>5. Joins(c, a, b)
  <2>0. Len(s) \in Nat /\ Len(t) \in Nat /\ Len(r) = Len(s) + Len(t)  BY <1>1 DEF Joins
  <2>1. \A i \in 1..Len(s) : i \in 1..Len(r) /\ r[i] = s[i]  BY <1>1, <2>0 DEF Joins
  <2>2. \A i \in 1..Len(t) : Len(s) + i \in 1..Len(r) /\ r[Len(s) + i] = t[i]
    BY <1>1, <2>0 DEF Joins
  <2>3. ASSUME NEW i \in 1..Len(a) PROVE c[i] = a[i]
    <3>1. i \in 1..Len(s) /\ i \in 1..Len(r) /\ r[i] = s[i]  BY Zenon, <1>2, <2>1
    <3>2. c[i] = W[r[i]] /\ a[i] = W[s[i]]  BY Zenon, <1>2, <1>4, <3>1
    <3> QED  BY Zenon, <3>1, <3>2
  <2>4. ASSUME NEW i \in 1..Len(b) PROVE c[Len(a) + i] = b[i]
    <3>1. i \in 1..Len(t) /\ Len(s) + i \in 1..Len(r) /\ r[Len(s) + i] = t[i]
      BY Zenon, <1>3, <2>2
    <3>2. c[Len(s) + i] = W[r[Len(s) + i]] /\ b[i] = W[t[i]]  BY Zenon, <1>3, <1>4, <3>1
    <3>3. Len(a) = Len(s)  BY Zenon, <1>2
    <3> QED  BY Zenon, <3>1, <3>2, <3>3
  <2>5. Len(c) = Len(a) + Len(b)  BY Zenon, <1>2, <1>3, <1>4, <2>0
  <2> QED  BY Zenon, <2>3, <2>4, <2>5 DEF Joins
<1>6. a \o b \in Seq(Nat) /\ Joins(a \o b, a, b)  BY Zenon, <1>2, <1>3, ConcatParts
<1>7. c = a \o b  BY Zenon, <1>2, <1>3, <1>4, <1>5, <1>6, JoinsOnce
<1>8. Total(a \o b) = Total(a) + Total(b)  BY Zenon, <1>2, <1>3, TotalConcat
<1> QED  BY Zenon, <1>7, <1>8

-----------------------------------------------------------------------------
(* Flattening                                                              *)

(* f is what FlattenSeq builds for the first n of seqs.                    *)
Flattens(f, seqs, n) ==
  f = [i \in 1..n |-> IF i = 1 THEN seqs[i] ELSE f[i - 1] \o seqs[i]]

LEMMA FlattensExists ==
  ASSUME NEW seqs, NEW n \in Nat
  PROVE  \E f : Flattens(f, seqs, n)
<1> DEFINE Bad == {k \in Nat : ~\E f : Flattens(f, seqs, k)}
<1> SUFFICES Bad = {}  OBVIOUS
<1>1. SUFFICES ASSUME Bad # {} PROVE FALSE  OBVIOUS
<1>2. PICK m \in Bad : \A k \in Bad : m <= k  BY <1>1, LeastOf
<1>3. m # 0
  <2>1. Flattens([i \in 1..0 |-> 0], seqs, 0)  BY DEF Flattens
  <2> QED  BY <2>1
<1>4. m \in Nat /\ m - 1 \in Nat /\ m - 1 \notin Bad  BY <1>2, <1>3
<1>5. PICK g : Flattens(g, seqs, m - 1)  BY <1>4
<1> DEFINE h == [i \in 1..m |-> IF i = m THEN (IF i = 1 THEN seqs[i] ELSE g[i - 1] \o seqs[i]) ELSE g[i]]
<1>6. ASSUME NEW i \in 1..m PROVE h[i] = IF i = 1 THEN seqs[i] ELSE h[i - 1] \o seqs[i]
  <2>1. CASE i = m
    <3>1. i # 1 => i - 1 \in 1..m /\ i - 1 # m  BY <2>1, <1>4
    <3>2. i # 1 => h[i - 1] = g[i - 1]  BY <3>1
    <3> QED  BY <2>1, <3>2
  <2>2. CASE i # m
    <3>1. i \in 1..(m - 1)  BY <2>2, <1>4
    <3>2. g[i] = IF i = 1 THEN seqs[i] ELSE g[i - 1] \o seqs[i]  BY <3>1, <1>5 DEF Flattens
    <3>3. i # 1 => i - 1 \in 1..m /\ i - 1 # m  BY <3>1, <1>4
    <3>4. h[i] = g[i] /\ (i # 1 => h[i - 1] = g[i - 1])  BY <3>3, <2>2
    <3> QED  BY <3>2, <3>4
  <2> QED  BY <2>1, <2>2
<1>7. Flattens(h, seqs, m)
  <2>1. h = [i \in 1..m |-> h[i]]  OBVIOUS
  <2> HIDE DEF h
  <2> QED  BY <1>6, <2>1 DEF Flattens
<1> QED  BY <1>7, <1>2

LEMMA FlattenIsSeq ==
  ASSUME NEW S, NEW seqs \in Seq(Seq(S))
  PROVE  FlattenSeq(seqs) \in Seq(S)
<1> DEFINE n == Len(seqs)
<1>1. n \in Nat /\ \A i \in 1..n : seqs[i] \in Seq(S)  OBVIOUS
<1>2. CASE n = 0
  BY <1>2 DEF FlattenSeq
<1>3. CASE n # 0
  <2> DEFINE flatten == CHOOSE f : Flattens(f, seqs, n)
  <2>1. Flattens(flatten, seqs, n)  BY <1>1, FlattensExists
  <2>2. FlattenSeq(seqs) = flatten[n]  BY <1>3 DEF FlattenSeq, Flattens
  <2>3. \A i \in 1..n : flatten[i] = IF i = 1 THEN seqs[i] ELSE flatten[i - 1] \o seqs[i]
    <3> HIDE DEF flatten
    <3> QED  BY <2>1 DEF Flattens
  <2> HIDE DEF flatten
  <2> DEFINE Bad == {k \in 1..n : flatten[k] \notin Seq(S)}
  <2>4. Bad = {}
    <3>1. SUFFICES ASSUME Bad # {} PROVE FALSE  OBVIOUS
    <3>0. Bad \in SUBSET Nat  BY <1>1
    <3> HIDE DEF Bad
    <3>2. PICK m \in Bad : \A k \in Bad : m <= k  BY <3>1, <3>0, LeastOf
    <3> USE DEF Bad
    <3>3. m \in 1..n /\ flatten[m] \notin Seq(S) /\ (m # 1 => m - 1 \in 1..n /\ m - 1 \notin Bad)
      BY <3>2, <1>1
    <3>4. m # 1 => flatten[m - 1] \in Seq(S)  BY <3>3
    <3>5. seqs[m] \in Seq(S)  BY <3>3, <1>1
    <3>6. flatten[m] = IF m = 1 THEN seqs[m] ELSE flatten[m - 1] \o seqs[m]  BY <3>3, <2>3
    <3>7. m # 1 => flatten[m - 1] \o seqs[m] \in Seq(S)  BY <3>4, <3>5, ConcatProperties
    <3> QED  BY <3>3, <3>5, <3>6, <3>7
  <2>5. n \in 1..n  BY <1>1, <1>3
  <2> QED  BY <2>2, <2>4, <2>5
<1> QED  BY <1>2, <1>3

FirstOf(s, k) == [i \in 1..k |-> s[i]]

LEMMA FirstOfIs ==
  ASSUME NEW S, NEW s \in Seq(S), NEW k \in 0..Len(s)
  PROVE  /\ FirstOf(s, k) \in Seq(S) /\ Len(FirstOf(s, k)) = k
         /\ \A i \in 1..k : FirstOf(s, k)[i] = s[i]
<1>1. k \in Nat /\ \A i \in 1..k : s[i] \in S
  <2>1. Len(s) \in Nat  OBVIOUS
  <2>2. k \in Nat /\ \A i \in 1..k : i \in 1..Len(s)  BY <2>1
  <2> QED  BY <2>2, ElementOfSeq
<1>2. FirstOf(s, k) \in [1..k -> S]  BY <1>1 DEF FirstOf
<1>3. FirstOf(s, k) \in Seq(S)  BY <1>1, <1>2, SeqDef
<1>4. Len(FirstOf(s, k)) = k  BY <1>1, <1>2, <1>3, LenProperties
<1> QED  BY Zenon, <1>3, <1>4 DEF FirstOf

LEMMA FirstOfAll ==
  ASSUME NEW S, NEW s \in Seq(S)
  PROVE  FirstOf(s, Len(s)) = s /\ FirstOf(s, 0) = <<>>
BY DEF FirstOf

LEMMA FlattenStep ==
  ASSUME NEW S, NEW seqs \in Seq(Seq(S)), NEW k \in 1..Len(seqs)
  PROVE  FlattenSeq(FirstOf(seqs, k)) = FlattenSeq(FirstOf(seqs, k - 1)) \o seqs[k]
<1>0. k \in 0..Len(seqs) /\ k - 1 \in 0..Len(seqs) /\ k \in Nat /\ k # 0 /\ k - 1 \in Nat
      /\ k \in 1..k
  <2>1. Len(seqs) \in Nat  OBVIOUS
  <2> QED  BY <2>1
<1> PICK t : t = FirstOf(seqs, k)  OBVIOUS
<1> PICK s : s = FirstOf(seqs, k - 1)  OBVIOUS
<1>1. /\ Len(t) = k /\ \A i \in 1..k : t[i] = seqs[i]
      /\ Len(s) = k - 1 /\ \A i \in 1..(k - 1) : s[i] = seqs[i]
  BY Zenon, <1>0, FirstOfIs
<1> DEFINE f == CHOOSE f : Flattens(f, t, k)
           g == CHOOSE g : Flattens(g, s, k - 1)
<1>2. Flattens(f, t, k) /\ Flattens(g, s, k - 1)  BY Zenon, <1>0, FlattensExists
<1>3. FlattenSeq(t) = f[k]  BY Zenon, <1>0, <1>1 DEF FlattenSeq, Flattens
<1>4. k # 1 => FlattenSeq(s) = g[k - 1]
  <2>1. k # 1 => k - 1 # 0  BY <1>0
  <2> QED  BY Zenon, <1>1, <2>1 DEF FlattenSeq, Flattens
<1>5. k = 1 => FlattenSeq(s) = <<>>
  <2> SUFFICES ASSUME k = 1 PROVE FlattenSeq(s) = <<>>  OBVIOUS
  <2>1. s = <<>>  BY DEF FirstOf
  <2> QED  BY <2>1 DEF FlattenSeq
<1> HIDE DEF f, g
<1>6. \A i \in 1..k : f[i] = IF i = 1 THEN t[i] ELSE f[i - 1] \o t[i]
  BY <1>2 DEF Flattens
<1>7. \A i \in 1..(k - 1) : g[i] = IF i = 1 THEN s[i] ELSE g[i - 1] \o s[i]
  BY <1>2 DEF Flattens
<1> DEFINE P == {i \in 0..(k - 1) : i # 0 => f[i] = g[i]}
<1>8. 0 \in P
  <2>1. 0 \in 0..(k - 1)  BY <1>0
  <2> QED  BY <2>1
<1>9. \A i \in 1..(k - 1) : i - 1 \in P => i \in P
  <2> SUFFICES ASSUME NEW i \in 1..(k - 1), i - 1 \in P PROVE i \in P  OBVIOUS
  <2>1. i \in 1..k /\ i \in 0..(k - 1) /\ (i # 1 => i - 1 # 0)  BY <1>0
  <2>2. t[i] = s[i]  BY Zenon, <1>1, <2>1
  <2>3. i # 1 => f[i - 1] = g[i - 1]  BY Zenon, <2>1
  <2>4. /\ f[i] = (IF i = 1 THEN t[i] ELSE f[i - 1] \o t[i])
        /\ g[i] = (IF i = 1 THEN s[i] ELSE g[i - 1] \o s[i])
    BY Zenon, <1>6, <1>7, <2>1
  <2>5. f[i] = g[i]  BY Zenon, <2>2, <2>3, <2>4
  <2> QED  BY Zenon, <2>1, <2>5
<1>10. \A i \in 0..(k - 1) : i \in P
  <2> HIDE DEF P
  <2> QED  BY Zenon, <1>0, <1>8, <1>9, Upwards
<1>11. CASE k = 1
  <2>1. f[k] = t[k] /\ t[k] = seqs[k]  BY Zenon, <1>0, <1>1, <1>6, <1>11
  <2>2. seqs[k] \in Seq(S)  BY ElementOfSeq
  <2>3. <<>> \o seqs[k] = seqs[k]  BY <2>2, ConcatEmptySeq
  <2> QED  BY Zenon, <1>3, <1>5, <1>11, <2>1, <2>3
<1>12. CASE k # 1
  <2>1. f[k] = f[k - 1] \o t[k] /\ t[k] = seqs[k]  BY Zenon, <1>0, <1>1, <1>6, <1>12
  <2>2. k - 1 \in 0..(k - 1) /\ k - 1 # 0  BY <1>0, <1>12
  <2>3. f[k - 1] = g[k - 1]  BY Zenon, <1>10, <2>2
  <2> QED  BY Zenon, <1>3, <1>4, <1>12, <2>1, <2>3
<1> QED  BY <1>11, <1>12

LEMMA FlattenNone == FlattenSeq(<<>>) = <<>>
BY DEF FlattenSeq

LEMMA FlattenFront ==
  ASSUME NEW S, NEW seqs \in Seq(Seq(S))
  PROVE  /\ FlattenSeq(FirstOf(seqs, Len(seqs))) = FlattenSeq(seqs)
         /\ FlattenSeq(FirstOf(seqs, 0)) = <<>>
         /\ \A k \in 0..Len(seqs) : FlattenSeq(FirstOf(seqs, k)) \in Seq(S)
<1>1. FirstOf(seqs, Len(seqs)) = seqs /\ FirstOf(seqs, 0) = <<>>  BY Zenon, FirstOfAll
<1>2. \A k \in 0..Len(seqs) : FirstOf(seqs, k) \in Seq(Seq(S))  BY Zenon, FirstOfIs
<1> QED  BY Zenon, <1>1, <1>2, FlattenNone, FlattenIsSeq

(* What is in the whole is in one of its parts.                            *)
Within(s, x) == \E i \in DOMAIN s : s[i] = x

ElementsJoined(r, s, t, x) == Within(r, x) <=> Within(s, x) \/ Within(t, x)

LEMMA JoinedElements ==
  ASSUME NEW S, NEW r \in Seq(S), NEW s \in Seq(S), NEW t \in Seq(S), Joins(r, s, t), NEW x
  PROVE  ElementsJoined(r, s, t, x)
<1> PICK m : m = Len(s)  OBVIOUS
<1> PICK n : n = Len(t)  OBVIOUS
<1>1. /\ m \in Nat /\ n \in Nat
      /\ DOMAIN r = 1..(m + n) /\ DOMAIN s = 1..m /\ DOMAIN t = 1..n
  <2>1. Len(r) = m + n  BY Zenon DEF Joins
  <2>2. DOMAIN r = 1..Len(r) /\ DOMAIN s = 1..Len(s) /\ DOMAIN t = 1..Len(t)  OBVIOUS
  <2>3. Len(s) \in Nat /\ Len(t) \in Nat  OBVIOUS
  <2> QED  BY Zenon, <2>1, <2>2, <2>3
<1>2. (\A i \in 1..m : r[i] = s[i]) /\ \A i \in 1..n : r[m + i] = t[i]  BY Zenon DEF Joins
<1> HIDE DEF Joins
<1>3. \A i \in 1..m : i \in 1..(m + n)  BY <1>1
<1>4. \A i \in 1..n : m + i \in 1..(m + n)  BY <1>1
<1>5. \A i \in 1..(m + n) : i \in 1..m \/ \E j \in 1..n : i = m + j
  <2> SUFFICES ASSUME NEW i \in 1..(m + n), i \notin 1..m PROVE \E j \in 1..n : i = m + j
    OBVIOUS
  <2>1. i - m \in 1..n /\ i = m + (i - m)  BY <1>1
  <2> QED  BY Zenon, <2>1
<1>6. Within(s, x) => Within(r, x)  BY Zenon, <1>1, <1>2, <1>3 DEF Within
<1>7. Within(t, x) => Within(r, x)  BY Zenon, <1>1, <1>2, <1>4 DEF Within
<1>8. ASSUME Within(r, x), ~Within(s, x) PROVE Within(t, x)
  <2>1. PICK i \in 1..(m + n) : r[i] = x  BY Zenon, <1>1, <1>8 DEF Within
  <2>2. i \notin 1..m  BY Zenon, <1>1, <1>2, <1>8, <2>1 DEF Within
  <2>3. PICK j \in 1..n : i = m + j  BY Zenon, <1>5, <2>1, <2>2
  <2> QED  BY Zenon, <1>1, <1>2, <2>1, <2>3 DEF Within
<1> QED  BY Zenon, <1>6, <1>7, <1>8 DEF ElementsJoined

LEMMA FlattenElements ==
  ASSUME NEW S, NEW seqs \in Seq(Seq(S)), NEW x
  PROVE  Within(FlattenSeq(seqs), x) <=> \E k \in DOMAIN seqs : Within(seqs[k], x)
<1> PICK n : n = Len(seqs)  OBVIOUS
<1> DEFINE In(s) == Within(s, x)
           P == {k \in 0..n : In(FlattenSeq(FirstOf(seqs, k))) <=> \E l \in 1..k : In(seqs[l])}
<1>1. n \in Nat /\ 0 \in 0..n /\ n \in 0..n /\ DOMAIN seqs = 1..n
  <2>1. n \in Nat /\ DOMAIN seqs = 1..n  OBVIOUS
  <2> QED  BY <2>1
<1>2. 0 \in P
  <2>1. FlattenSeq(FirstOf(seqs, 0)) = <<>>  BY Zenon, FlattenFront
  <2>2. ~In(<<>>)  BY DEF Within
  <2>3. ~\E l \in 1..0 : In(seqs[l])  OBVIOUS
  <2> QED  BY Zenon, <1>1, <2>1, <2>2, <2>3
<1>3. \A k \in 1..n : k - 1 \in P => k \in P
  <2> SUFFICES ASSUME NEW k \in 1..n, k - 1 \in P PROVE k \in P  OBVIOUS
  <2>1. k \in 0..n /\ k - 1 \in 0..n  BY <1>1
  <2> PICK s : s = FlattenSeq(FirstOf(seqs, k - 1))  OBVIOUS
  <2> PICK t : t = seqs[k]  OBVIOUS
  <2>2. FlattenSeq(FirstOf(seqs, k)) = s \o t  BY Zenon, FlattenStep
  <2>3. s \in Seq(S)  BY Zenon, <2>1, FlattenFront
  <2>4. t \in Seq(S)  BY ElementOfSeq
  <2>5. s \o t \in Seq(S) /\ Joins(s \o t, s, t)  BY Zenon, <2>3, <2>4, ConcatParts
  <2> PICK r : r = s \o t  OBVIOUS
  <2>6. In(r) <=> In(s) \/ In(t)
    <3>1. r \in Seq(S) /\ Joins(r, s, t)  BY Zenon, <2>5
    <3>2. ElementsJoined(r, s, t, x)  BY Zenon, <2>3, <2>4, <3>1, JoinedElements
    <3> QED  BY Zenon, <3>2 DEF ElementsJoined
  <2>7. In(s) <=> \E l \in 1..(k - 1) : In(seqs[l])  OBVIOUS
  <2>8. (\E l \in 1..k : In(seqs[l])) <=> (\E l \in 1..(k - 1) : In(seqs[l])) \/ In(t)
    <3> HIDE DEF In
    <3>1. \A l : l \in 1..k <=> l \in 1..(k - 1) \/ l = k  BY <1>1
    <3> QED  BY Zenon, <3>1
  <2> HIDE DEF In
  <2> QED  BY Zenon, <2>1, <2>2, <2>6, <2>7, <2>8
<1>4. \A k \in 0..n : k \in P
  <2> HIDE DEF P
  <2> QED  BY Zenon, <1>1, <1>2, <1>3, Upwards
<1>5. In(FlattenSeq(FirstOf(seqs, n))) <=> \E l \in 1..n : In(seqs[l])  BY Zenon, <1>1, <1>4
<1>6. FlattenSeq(FirstOf(seqs, n)) = FlattenSeq(seqs)  BY Zenon, FlattenFront
<1> QED  BY Zenon, <1>1, <1>5, <1>6

(* The weight of the whole is that of its parts.                           *)
WeightIs(W, seqs, v) == Total(WeightsOf(W, FlattenSeq(seqs))) = Total(v)

LEMMA FlattenWeight ==
  ASSUME NEW S, NEW W \in [S -> Nat], NEW seqs \in Seq(Seq(S)),
         NEW v \in Seq(Nat), Len(v) = Len(seqs),
         \A k \in 1..Len(seqs) : Total(WeightsOf(W, seqs[k])) = v[k]
  PROVE  WeightIs(W, seqs, v)
<1> PICK n : n = Len(seqs)  OBVIOUS
<1> DEFINE P == {k \in 0..n : Total(WeightsOf(W, FlattenSeq(FirstOf(seqs, k)))) = Total(FirstOf(v, k))}
<1>1. n \in Nat /\ 0 \in 0..n /\ n \in 0..n
  <2>1. n \in Nat  OBVIOUS
  <2> QED  BY <2>1
<1>2. 0 \in P
  <2>1. FlattenSeq(FirstOf(seqs, 0)) = <<>>  BY Zenon, FlattenFront
  <2>2. FirstOf(v, 0) = <<>>  BY Zenon, FirstOfAll
  <2>3. WeightsOf(W, <<>>) = <<>>  BY DEF WeightsOf
  <2> QED  BY Zenon, <1>1, <2>1, <2>2, <2>3
<1>3. \A k \in 1..n : k - 1 \in P => k \in P
  <2> SUFFICES ASSUME NEW k \in 1..n, k - 1 \in P PROVE k \in P  OBVIOUS
  <2>1. k \in 0..n /\ k - 1 \in 0..n /\ k # 0 /\ k \in Nat /\ k \in 1..k
        /\ \A i \in 1..(k - 1) : i \in 1..k
    BY <1>1
  <2>2. FlattenSeq(FirstOf(seqs, k)) = FlattenSeq(FirstOf(seqs, k - 1)) \o seqs[k]
    BY Zenon, FlattenStep
  <2>3. FlattenSeq(FirstOf(seqs, k - 1)) \in Seq(S)  BY Zenon, <2>1, FlattenFront
  <2>4. seqs[k] \in Seq(S)  BY ElementOfSeq
  <2>5. Total(WeightsOf(W, FlattenSeq(FirstOf(seqs, k - 1)) \o seqs[k]))
        = Total(WeightsOf(W, FlattenSeq(FirstOf(seqs, k - 1)))) + Total(WeightsOf(W, seqs[k]))
    BY Zenon, <2>3, <2>4, WeightsConcat
  <2>6. Total(WeightsOf(W, FlattenSeq(FirstOf(seqs, k - 1)))) = Total(FirstOf(v, k - 1))  OBVIOUS
  <2>7. Total(FirstOf(v, k)) = Total(FirstOf(v, k - 1)) + v[k]
    <3>0. k \in 0..Len(v) /\ k - 1 \in 0..Len(v)  BY Zenon, <2>1
    <3> PICK a : a = FirstOf(v, k)  OBVIOUS
    <3> PICK b : b = FirstOf(v, k - 1)  OBVIOUS
    <3>1. a \in Seq(Nat) /\ Len(a) = k /\ \A i \in 1..k : a[i] = v[i]
      BY Zenon, <3>0, FirstOfIs
    <3>2. b \in Seq(Nat) /\ Len(b) = k - 1 /\ \A i \in 1..(k - 1) : b[i] = v[i]
      BY Zenon, <3>0, FirstOfIs
    <3>3. a # <<>> /\ Len(b) = Len(a) - 1  BY <2>1, <3>1, <3>2
    <3>4. Begins(a, b)
      <4>1. Len(b) <= Len(a)  BY <2>1, <3>1, <3>2
      <4>2. \A i \in 1..Len(b) : a[i] = b[i]  BY Zenon, <2>1, <3>1, <3>2
      <4> QED  BY Zenon, <4>1, <4>2 DEF Begins
    <3>5. Total(a) = Total(b) + a[Len(a)]  BY Zenon, <3>1, <3>2, <3>3, <3>4, TotalFront
    <3> QED  BY Zenon, <2>1, <3>1, <3>5
  <2>8. Total(WeightsOf(W, seqs[k])) = v[k]  OBVIOUS
  <2>9. Total(WeightsOf(W, FlattenSeq(FirstOf(seqs, k)))) = Total(FirstOf(v, k))
    BY Zenon, <2>2, <2>5, <2>6, <2>7, <2>8
  <2> QED  BY Zenon, <2>1, <2>9
<1>4. \A k \in 0..n : k \in P
  <2> HIDE DEF P
  <2> QED  BY Zenon, <1>1, <1>2, <1>3, Upwards
<1>5. Total(WeightsOf(W, FlattenSeq(FirstOf(seqs, n)))) = Total(FirstOf(v, n))  BY Zenon, <1>1, <1>4
<1>6. FirstOf(v, n) = v  BY Zenon, FirstOfAll
<1>7. FlattenSeq(FirstOf(seqs, n)) = FlattenSeq(seqs)  BY Zenon, FlattenFront
<1> QED  BY Zenon, <1>5, <1>6, <1>7 DEF WeightIs

-----------------------------------------------------------------------------
(* More of sums and of flattening                                          *)

(* A sum, from one number to the next.                                     *)
LEMMA TotalStep ==
  ASSUME NEW s \in Seq(Nat), NEW k \in 1..Len(s)
  PROVE  /\ Total(FirstOf(s, k)) = Total(FirstOf(s, k - 1)) + s[k]
         /\ Total(FirstOf(s, k - 1)) \in Nat /\ s[k] \in Nat
<1>0. k \in 0..Len(s) /\ k - 1 \in 0..Len(s) /\ k \in 1..k /\ k # 0 /\ k \in Nat
      /\ \A i \in 1..(k - 1) : i \in 1..k
  <2>1. Len(s) \in Nat  OBVIOUS
  <2> QED  BY <2>1
<1> PICK a : a = FirstOf(s, k)  OBVIOUS
<1> PICK b : b = FirstOf(s, k - 1)  OBVIOUS
<1>1. a \in Seq(Nat) /\ Len(a) = k /\ \A i \in 1..k : a[i] = s[i]
  BY Zenon, <1>0, FirstOfIs
<1>2. b \in Seq(Nat) /\ Len(b) = k - 1 /\ \A i \in 1..(k - 1) : b[i] = s[i]
  BY Zenon, <1>0, FirstOfIs
<1>3. a # <<>> /\ Len(b) = Len(a) - 1  BY <1>0, <1>1, <1>2
<1>4. Begins(a, b)
  <2>1. Len(b) <= Len(a)  BY <1>0, <1>1, <1>2
  <2>2. \A i \in 1..Len(b) : a[i] = b[i]  BY Zenon, <1>0, <1>1, <1>2
  <2> QED  BY Zenon, <2>1, <2>2 DEF Begins
<1>5. Total(a) = Total(b) + a[Len(a)]  BY Zenon, <1>1, <1>2, <1>3, <1>4, TotalFront
<1>6. a[Len(a)] = s[k]  BY Zenon, <1>0, <1>1
<1>7. Total(b) \in Nat  BY Zenon, <1>2, TotalIs
<1>8. s[k] \in Nat  BY ElementOfSeq
<1> QED  BY Zenon, <1>5, <1>6, <1>7, <1>8

LEMMA TotalEnds ==
  ASSUME NEW s \in Seq(Nat)
  PROVE  /\ Total(FirstOf(s, Len(s))) = Total(s) /\ Total(FirstOf(s, 0)) = 0
         /\ \A k \in 0..Len(s) : Total(FirstOf(s, k)) \in Nat
<1>1. FirstOf(s, Len(s)) = s /\ FirstOf(s, 0) = <<>>  BY Zenon, FirstOfAll
<1>2. \A k \in 0..Len(s) : FirstOf(s, k) \in Seq(Nat)  BY Zenon, FirstOfIs
<1> QED  BY Zenon, <1>1, <1>2, TotalNone, TotalIs

(* Numbers up to b add up to b times their number.                         *)
LEMMA TotalBounded ==
  ASSUME NEW s \in Seq(Nat), NEW b \in Nat, \A i \in 1..Len(s) : s[i] <= b
  PROVE  Total(s) <= b * Len(s)
<1> PICK n : n = Len(s)  OBVIOUS
<1>0. n \in Nat /\ 0 \in 0..n /\ n \in 0..n
  <2>1. n \in Nat  OBVIOUS
  <2> QED  BY <2>1
<1> DEFINE P == {k \in 0..n : Total(FirstOf(s, k)) <= b * k}
<1>1. 0 \in P
  <2>1. b * 0 = 0  OBVIOUS
  <2>2. Total(FirstOf(s, 0)) = 0  BY Zenon, TotalEnds
  <2> HIDE DEF P
  <2>3. Total(FirstOf(s, 0)) <= b * 0  BY <2>1, <2>2
  <2> QED  BY <1>0, <2>3 DEF P
<1>2. \A k \in 1..n : k - 1 \in P => k \in P
  <2> SUFFICES ASSUME NEW k \in 1..n, k - 1 \in P PROVE k \in P  OBVIOUS
  <2> PICK x : x = Total(FirstOf(s, k))  OBVIOUS
  <2> PICK y : y = Total(FirstOf(s, k - 1))  OBVIOUS
  <2> PICK z : z = s[k]  OBVIOUS
  <2>1. x = y + z /\ y \in Nat /\ z \in Nat  BY Zenon, TotalStep
  <2>2. y <= b * (k - 1)  OBVIOUS
  <2>3. z <= b  OBVIOUS
  <2>4. b * (k - 1) + b = b * k /\ b * (k - 1) \in Int /\ b * k \in Int
    <3>1. k \in Int  BY <1>0
    <3> QED  BY <3>1
  <2> HIDE DEF P
  <2>5. x <= b * k  BY <2>1, <2>2, <2>3, <2>4
  <2>6. k \in 0..n  BY <1>0
  <2> QED  BY Zenon, <2>5, <2>6 DEF P
<1>3. \A k \in 0..n : k \in P
  <2> HIDE DEF P
  <2> QED  BY Zenon, <1>0, <1>1, <1>2, Upwards
<1>4. Total(FirstOf(s, n)) <= b * n  BY Zenon, <1>0, <1>3
<1> QED  BY Zenon, <1>4, TotalEnds

LEMMA OneMore ==
  ASSUME NEW t \in Nat, NEW k \in Int, NEW x, NEW y \in Nat, NEW z \in Nat, x = y + z,
         t + (k - 1) <= y, z > 0
  PROVE  t + k <= x
OBVIOUS

(* A sum of positive numbers is more than each of its parts.               *)
LEMMA TotalGrows ==
  ASSUME NEW s \in Seq(Nat), \A i \in 1..Len(s) : s[i] > 0, NEW j \in 0..(Len(s) - 1)
  PROVE  Total(FirstOf(s, j)) < Total(s)
<1> PICK n : n = Len(s)  OBVIOUS
<1>0. n \in Nat /\ j \in Nat /\ j < n /\ 0 \in 0..(n - j) /\ n - j \in 0..(n - j) /\ n - j \in Nat
      /\ j \in 0..n /\ n - j > 0 /\ j + (n - j) = n /\ j + 0 = j
  <2>1. n \in Nat  OBVIOUS
  <2> QED  BY <2>1
<1> DEFINE P == {k \in 0..(n - j) : Total(FirstOf(s, j)) + k <= Total(FirstOf(s, j + k))}
<1>a. Total(FirstOf(s, j)) \in Nat  BY Zenon, <1>0, TotalEnds
<1>1. 0 \in P
  <2>1. Total(FirstOf(s, j)) + 0 <= Total(FirstOf(s, j))  BY <1>a
  <2> QED  BY Zenon, <1>0, <2>1
<1>2. \A k \in 1..(n - j) : k - 1 \in P => k \in P
  <2> SUFFICES ASSUME NEW k \in 1..(n - j), k - 1 \in P PROVE k \in P  OBVIOUS
  <2> PICK x : x = Total(FirstOf(s, j + k))  OBVIOUS
  <2> PICK y : y = Total(FirstOf(s, j + (k - 1)))  OBVIOUS
  <2> PICK z : z = s[j + k]  OBVIOUS
  <2> PICK t : t = Total(FirstOf(s, j))  OBVIOUS
  <2>0. j + k \in 1..n /\ (j + k) - 1 = j + (k - 1) /\ k \in 0..(n - j) /\ k \in Int  BY <1>0
  <2>1. x = y + z /\ y \in Nat /\ z \in Nat  BY Zenon, <2>0, TotalStep
  <2>2. t + (k - 1) <= y  OBVIOUS
  <2>3. z > 0  BY Zenon, <2>0
  <2>4. t \in Nat  BY Zenon, <1>a
  <2> HIDE DEF P
  <2>5. t + k <= x  BY Zenon, <2>0, <2>1, <2>2, <2>3, <2>4, OneMore
  <2> QED  BY Zenon, <2>0, <2>5 DEF P
<1>3. \A k \in 0..(n - j) : k \in P
  <2> HIDE DEF P
  <2> QED  BY Zenon, <1>0, <1>1, <1>2, Upwards
<1>4. Total(FirstOf(s, j)) + (n - j) <= Total(FirstOf(s, n))  BY Zenon, <1>0, <1>3
<1>5. Total(FirstOf(s, n)) = Total(s) /\ Total(s) \in Nat  BY Zenon, TotalEnds, TotalIs
<1>6. Total(FirstOf(s, j)) + (n - j) <= Total(s)  BY Zenon, <1>4, <1>5
<1> QED  BY <1>0, <1>a, <1>5, <1>6

Regroups(a, b, d) == (a \o b) \o d = a \o (b \o d)

LEMMA Regrouped ==
  ASSUME NEW F, NEW a \in Seq(F), NEW b \in Seq(F), NEW d \in Seq(F)
  PROVE  Regroups(a, b, d)
BY ConcatAssociative DEF Regroups

(* Flattening goes over joining.                                           *)
FlattensJoined(a, b) == FlattenSeq(a \o b) = FlattenSeq(a) \o FlattenSeq(b)

LEMMA FlattenConcat ==
  ASSUME NEW S, NEW a \in Seq(Seq(S)), NEW b \in Seq(Seq(S))
  PROVE  FlattensJoined(a, b)
<1> PICK c : c = a \o b  OBVIOUS
<1> PICK m : m = Len(a)  OBVIOUS
<1> PICK n : n = Len(b)  OBVIOUS
<1>0. m \in Nat /\ n \in Nat /\ 0 \in 0..n /\ n \in 0..n /\ m + 0 = m
      /\ \A k \in 0..n : m + k \in 0..(m + n)
  <2>1. m \in Nat /\ n \in Nat  OBVIOUS
  <2> QED  BY <2>1
<1>1. c \in Seq(Seq(S)) /\ Joins(c, a, b)  BY Zenon, ConcatParts
<1>2. Len(c) = m + n /\ (\A i \in 1..m : c[i] = a[i]) /\ \A i \in 1..n : c[m + i] = b[i]
  BY Zenon, <1>1 DEF Joins
<1>3. FirstOf(c, m) = a
  <2>1. m \in 0..Len(c)  BY Zenon, <1>0, <1>2
  <2>2. FirstOf(c, m) \in Seq(Seq(S)) /\ Len(FirstOf(c, m)) = m
        /\ \A i \in 1..m : FirstOf(c, m)[i] = c[i]
    BY Zenon, <1>1, <2>1, FirstOfIs
  <2> QED  BY Zenon, <1>2, <2>2, SameSequence
<1> PICK f : f = FlattenSeq(a)  OBVIOUS
<1>4. f \in Seq(S)  BY Zenon, FlattenIsSeq
<1> DEFINE P == {k \in 0..n : FlattenSeq(FirstOf(c, m + k)) = f \o FlattenSeq(FirstOf(b, k))}
<1>5. 0 \in P
  <2>1. FlattenSeq(FirstOf(b, 0)) = <<>>  BY Zenon, FlattenFront
  <2>2. f \o <<>> = f  BY <1>4, ConcatEmptySeq
  <2>3. FlattenSeq(FirstOf(c, m + 0)) = f  BY Zenon, <1>0, <1>3
  <2> QED  BY Zenon, <1>0, <2>1, <2>2, <2>3
<1>6. \A k \in 1..n : k - 1 \in P => k \in P
  <2> SUFFICES ASSUME NEW k \in 1..n, k - 1 \in P PROVE k \in P  OBVIOUS
  <2>0. m + k \in 1..(m + n) /\ (m + k) - 1 = m + (k - 1) /\ k \in 0..n /\ k - 1 \in 0..n
    BY <1>0
  <2> PICK g : g = FlattenSeq(FirstOf(b, k - 1))  OBVIOUS
  <2> PICK x : x = b[k]  OBVIOUS
  <2>1. g \in Seq(S)  BY Zenon, <2>0, FlattenFront
  <2>2. x \in Seq(S)  BY ElementOfSeq
  <2>3. FlattenSeq(FirstOf(b, k)) = g \o x  BY Zenon, FlattenStep
  <2>4. FlattenSeq(FirstOf(c, m + k)) = FlattenSeq(FirstOf(c, m + (k - 1))) \o c[m + k]
    BY Zenon, <1>1, <1>2, <2>0, FlattenStep
  <2>5. c[m + k] = x  BY Zenon, <1>2
  <2>6. FlattenSeq(FirstOf(c, m + (k - 1))) = f \o g  OBVIOUS
  <2>7. (f \o g) \o x = f \o (g \o x)
    <3>1. Regroups(f, g, x)  BY Zenon, <1>4, <2>1, <2>2, Regrouped
    <3> QED  BY Zenon, <3>1 DEF Regroups
  <2> HIDE DEF P
  <2> PICK h : h = g \o x  OBVIOUS
  <2>8. FlattenSeq(FirstOf(c, m + k)) = f \o h  BY Zenon, <2>4, <2>5, <2>6, <2>7
  <2> QED  BY Zenon, <2>0, <2>3, <2>8 DEF P
<1>7. \A k \in 0..n : k \in P
  <2> HIDE DEF P
  <2> QED  BY Zenon, <1>0, <1>5, <1>6, Upwards
<1>8. FlattenSeq(FirstOf(c, m + n)) = f \o FlattenSeq(FirstOf(b, n))  BY Zenon, <1>0, <1>7
<1>9. FlattenSeq(FirstOf(c, m + n)) = FlattenSeq(c)  BY Zenon, <1>1, <1>2, FlattenFront
<1>10. FlattenSeq(FirstOf(b, n)) = FlattenSeq(b)  BY Zenon, FlattenFront
<1> QED  BY Zenon, <1>8, <1>9, <1>10 DEF FlattensJoined

LEMMA FlattenEmpties ==
  ASSUME NEW seqs \in Seq({<<>>})
  PROVE  FlattenSeq(seqs) = <<>>
<1> PICK n : n = Len(seqs)  OBVIOUS
<1>0. n \in Nat /\ 0 \in 0..n /\ n \in 0..n
  <2>1. n \in Nat  OBVIOUS
  <2> QED  BY <2>1
<1>1. seqs \in Seq(Seq({}))
  <2>1. <<>> \in Seq({})  OBVIOUS
  <2>2. \A k \in 1..n : seqs[k] \in {<<>>}  BY ElementOfSeq
  <2>3. seqs = [k \in 1..n |-> seqs[k]]  OBVIOUS
  <2>4. \A k \in 1..n : seqs[k] \in Seq({})  BY Zenon, <2>1, <2>2
  <2>5. seqs \in [1..n -> Seq({})]  BY <2>3, <2>4
  <2> QED  BY Zenon, <1>0, <2>5, FunctionIsSeq
<1> DEFINE P == {k \in 0..n : FlattenSeq(FirstOf(seqs, k)) = <<>>}
<1>2. 0 \in P  BY Zenon, <1>0, <1>1, FlattenFront
<1>3. \A k \in 1..n : k - 1 \in P => k \in P
  <2> SUFFICES ASSUME NEW k \in 1..n, k - 1 \in P PROVE k \in P  OBVIOUS
  <2>0. k \in 0..n  BY <1>0
  <2>1. FlattenSeq(FirstOf(seqs, k)) = FlattenSeq(FirstOf(seqs, k - 1)) \o seqs[k]
    BY Zenon, <1>1, FlattenStep
  <2>2. seqs[k] \in {<<>>}  BY ElementOfSeq
  <2>3. seqs[k] = <<>>  BY <2>2
  <2>4. <<>> \o <<>> = <<>>  OBVIOUS
  <2> QED  BY Zenon, <2>0, <2>1, <2>3, <2>4
<1>4. \A k \in 0..n : k \in P
  <2> HIDE DEF P
  <2> QED  BY Zenon, <1>0, <1>2, <1>3, Upwards
<1>5. FlattenSeq(FirstOf(seqs, n)) = <<>>  BY Zenon, <1>0, <1>4
<1> QED  BY Zenon, <1>1, <1>5, FlattenFront

(* Wholes of parts of the same lengths are of the same length.             *)
LEMMA FlattenLengths ==
  ASSUME NEW S, NEW a \in Seq(Seq(S)), NEW b \in Seq(Seq(S)), Len(a) = Len(b),
         \A k \in 1..Len(b) : Len(a[k]) = Len(b[k])
  PROVE  Len(FlattenSeq(a)) = Len(FlattenSeq(b))
<1> PICK n : n = Len(b)  OBVIOUS
<1>0. n \in Nat /\ 0 \in 0..n /\ n \in 0..n
  <2>1. n \in Nat  OBVIOUS
  <2> QED  BY <2>1
<1> DEFINE P == {k \in 0..n : Len(FlattenSeq(FirstOf(a, k))) = Len(FlattenSeq(FirstOf(b, k)))}
<1>1. 0 \in P
  <2>1. FlattenSeq(FirstOf(a, 0)) = <<>> /\ FlattenSeq(FirstOf(b, 0)) = <<>>
    BY Zenon, FlattenFront
  <2> QED  BY Zenon, <1>0, <2>1
<1>2. \A k \in 1..n : k - 1 \in P => k \in P
  <2> SUFFICES ASSUME NEW k \in 1..n, k - 1 \in P PROVE k \in P  OBVIOUS
  <2>0. k \in 0..n /\ k - 1 \in 0..n  BY <1>0
  <2> PICK x : x = FlattenSeq(FirstOf(a, k - 1))  OBVIOUS
  <2> PICK y : y = FlattenSeq(FirstOf(b, k - 1))  OBVIOUS
  <2> PICK v : v = a[k]  OBVIOUS
  <2> PICK w : w = b[k]  OBVIOUS
  <2>1. x \in Seq(S) /\ y \in Seq(S)  BY Zenon, <2>0, FlattenFront
  <2>2. v \in Seq(S) /\ w \in Seq(S)  BY ElementOfSeq
  <2>3. FlattenSeq(FirstOf(a, k)) = x \o v  BY Zenon, FlattenStep
  <2>4. FlattenSeq(FirstOf(b, k)) = y \o w  BY Zenon, FlattenStep
  <2>5. Len(x) = Len(y) /\ Len(v) = Len(w)  OBVIOUS
  <2>6. Len(x \o v) = Len(y \o w)
    <3> HIDE DEF P
    <3>1. Len(x \o v) = Len(x) + Len(v)  BY <2>1, <2>2, ConcatProperties
    <3>2. Len(y \o w) = Len(y) + Len(w)  BY <2>1, <2>2, ConcatProperties
    <3> QED  BY Zenon, <2>5, <3>1, <3>2
  <2> QED  BY Zenon, <2>0, <2>3, <2>4, <2>6
<1>3. \A k \in 0..n : k \in P
  <2> HIDE DEF P
  <2> QED  BY Zenon, <1>0, <1>1, <1>2, Upwards
<1>4. Len(FlattenSeq(FirstOf(a, n))) = Len(FlattenSeq(FirstOf(b, n)))  BY Zenon, <1>0, <1>3
<1>5. FlattenSeq(FirstOf(a, n)) = FlattenSeq(a) /\ FlattenSeq(FirstOf(b, n)) = FlattenSeq(b)
  BY Zenon, FlattenFront
<1> QED  BY Zenon, <1>4, <1>5
=============================================================================
