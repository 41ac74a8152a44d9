---------------------------- MODULE BrioTgProofs ----------------------------
(***************************************************************************)
(* brio_tg for any settings, files, updates and command lines.             *)
(***************************************************************************)
EXTENDS BrioTg, SequenceLemmas

-----------------------------------------------------------------------------
(* The stacks                                                              *)

LEMMA MaxIs ==
  ASSUME NEW n \in Nat, NEW t \in SUBSET (1..n), t # {}
  PROVE  Max(t) \in t /\ \A y \in t : Max(t) >= y
<1> DEFINE D == {n - y : y \in t}
<1>1. PICK d \in D : \A k \in D : d <= k
  <2>1. \A y \in t : n - y \in Nat
    OBVIOUS
  <2>2. D \in SUBSET Nat
    BY <2>1
  <2>3. D # {}
    OBVIOUS
  <2> HIDE DEF D
  <2> QED BY <2>2, <2>3, LeastOf
<1>2. PICK m \in t : d = n - m
  OBVIOUS
<1>3. \A y \in t : m >= y
  <2> SUFFICES ASSUME NEW y \in t PROVE m >= y
    OBVIOUS
  <2>1. n - y \in D
    OBVIOUS
  <2>2. n - m <= n - y
    BY <2>1, <1>1, <1>2
  <2> QED BY <2>2
<1> QED BY <1>3 DEF Max

(* The fold that adds elements of e to the stack s, as far as n.           *)
Folds(g, s, e, n) ==
  g = [t \in SUBSET (1..n) |->
         IF t = {} THEN s ELSE fifoPush(g[t \ {Max(t)}], e[Max(t)])]

LEMMA FoldExists ==
  ASSUME NEW n \in Nat, NEW s, NEW e
  PROVE  \E g : Folds(g, s, e, n)
<1> DEFINE P == {k \in 0..n : \E g : Folds(g, s, e, k)}
<1>1. 0 \in P
  <2> DEFINE g == [t \in SUBSET (1..0) |-> s]
  <2>1. \A t \in SUBSET (1..0) : t = {}
    OBVIOUS
  <2>2. Folds(g, s, e, 0)
    BY <2>1 DEF Folds
  <2> QED BY <2>2
<1>2. ASSUME NEW k \in 1..n, k - 1 \in P PROVE k \in P
  <2>1. PICK g : Folds(g, s, e, k - 1)
    BY <1>2
  <2> DEFINE h == [t \in SUBSET (1..k) |->
                     IF k \in t THEN fifoPush(g[t \ {k}], e[k]) ELSE g[t]]
             v(t) == IF t = {} THEN s ELSE fifoPush(h[t \ {Max(t)}], e[Max(t)])
  <2>2. ASSUME NEW t \in SUBSET (1..k) PROVE h[t] = v(t)
    <3>1. CASE k \in t
      <4>1. k \in Nat /\ t # {}
        BY <3>1
      <4>2. Max(t) \in t /\ Max(t) >= k
        BY <4>1, <3>1, MaxIs
      <4>3. Max(t) \in 1..k
        BY <4>2
      <4>4. Max(t) = k
        BY <4>2, <4>3
      <4>5. t \ {k} \in SUBSET (1..k) /\ k \notin t \ {k}
        OBVIOUS
      <4>6. h[t \ {k}] = g[t \ {k}]
        BY <4>5
      <4>7. h[t] = fifoPush(g[t \ {k}], e[k])
        BY <3>1
      <4> QED BY <3>1, <4>4, <4>6, <4>7
    <3>2. CASE k \notin t
      <4>1. t \in SUBSET (1..(k - 1))
        BY <3>2
      <4>2. h[t] = g[t]
        BY <3>2
      <4>3. g[t] = IF t = {} THEN s ELSE fifoPush(g[t \ {Max(t)}], e[Max(t)])
        BY <4>1, <2>1 DEF Folds
      <4>4. t \ {Max(t)} \in SUBSET (1..k) /\ k \notin t \ {Max(t)}
        BY <3>2
      <4>5. h[t \ {Max(t)}] = g[t \ {Max(t)}]
        BY <4>4
      <4> QED BY <4>2, <4>3, <4>5
    <3> QED BY <3>1, <3>2
  <2>3. h = [t \in SUBSET (1..k) |-> h[t]]
    OBVIOUS
  <2> HIDE DEF h
  <2>4. h = [t \in SUBSET (1..k) |-> v(t)]
    <3> HIDE DEF v
    <3> QED BY <2>2, <2>3
  <2>5. Folds(h, s, e, k)
    BY <2>4 DEF Folds
  <2> QED BY <2>5
<1> HIDE DEF P
<1>3. n \in P
  BY <1>1, <1>2, Upwards
<1> QED BY <1>3 DEF P

(* What is on a stack s after the elements of e were added.                *)
Kept(s) == IF s.tail THEN s.chain ELSE <<>>
Stacked(s, e) ==
  IF e = <<>> THEN s
  ELSE [chain |-> Kept(s) \o e, tail |-> TRUE, count |-> s.count + Len(e)]

LEMMA PushedOnIs ==
  ASSUME NEW S, NEW s, Kept(s) \in Seq(S), s.count \in Int, NEW e \in Seq(S)
  PROVE  PushedOn(s, e) = Stacked(s, e)
<1> DEFINE n == Len(e)
<1>1. n \in Nat /\ DOMAIN e = 1..n
  OBVIOUS
<1>2. PICK g : Folds(g, s, e, n) /\ PushedOn(s, e) = g[1..n]
  <2> DEFINE G == CHOOSE g : Folds(g, s, e, n)
  <2>1. Folds(G, s, e, n)
    BY <1>1, FoldExists
  <2>2. PushedOn(s, e) = G[1..n]
    BY <1>1 DEF PushedOn, FoldLeft, MapThenFoldSet, Folds
  <2> QED BY <2>1, <2>2
<1> DEFINE c(k) == IF k = 0 THEN s
                   ELSE [chain |-> Kept(s) \o FirstOf(e, k), tail |-> TRUE, count |-> s.count + k]
           P == {k \in 0..n : g[1..k] = c(k)}
<1>3. 0 \in P
  <2>1. 1..0 = {}
    OBVIOUS
  <2> QED BY <2>1, <1>1, <1>2 DEF Folds
<1>4. ASSUME NEW k \in 1..n, k - 1 \in P PROVE k \in P
  <2>1. 1..k \in SUBSET (1..n) /\ k \in 1..k /\ k \in Nat
    <3> HIDE DEF n
    <3>1. k \in Nat /\ k >= 1 /\ k <= n
      BY <1>1
    <3>2. \A i \in 1..k : i \in 1..n
      BY <3>1, <1>1
    <3> QED BY <3>1, <3>2
  <2>2. Max(1..k) \in 1..k /\ Max(1..k) >= k
    <3> DEFINE t == 1..k
    <3>1. t \in SUBSET (1..k) /\ k \in t /\ t # {}
      BY <2>1
    <3> HIDE DEF t
    <3>2. Max(t) \in t /\ \A y \in t : Max(t) >= y
      BY <2>1, <3>1, MaxIs
    <3> QED BY <3>1, <3>2 DEF t
  <2>3. Max(1..k) = k /\ (1..k) \ {k} = 1..(k - 1)
    BY <2>2
  <2>4. g[1..k] = fifoPush(g[1..(k - 1)], e[k])
    BY <2>1, <2>3, <1>2 DEF Folds
  <2>5. g[1..k] = fifoPush(c(k - 1), e[k])
    BY <2>4, <1>4
  <2>6. /\ FirstOf(e, k) \in Seq(S) /\ FirstOf(e, k - 1) \in Seq(S) /\ e[k] \in S
        /\ FirstOf(e, k) = FirstOf(e, k - 1) \o <<e[k]>>
        /\ FirstOf(e, 0) = <<>>
    <3>1. k - 1 \in 0..Len(e) /\ k \in 0..Len(e) /\ 0 \in 0..Len(e)
      BY <1>1
    <3>2. FirstOf(e, k) \in Seq(S) /\ FirstOf(e, k - 1) \in Seq(S) /\ e[k] \in S
      BY <3>1, FirstOfIs
    <3>3. FirstOf(e, k) = FirstOf(e, k - 1) \o <<e[k]>>
      BY <3>1, <3>2 DEF FirstOf
    <3> QED BY <3>2, <3>3, FirstOfAll
  <2>7. Kept(s) \o FirstOf(e, k) = (Kept(s) \o FirstOf(e, k - 1)) \o <<e[k]>>
    BY <2>6
  <2>8. CASE k = 1
    <3>1. Kept(s) \o FirstOf(e, 1) = Kept(s) \o <<e[1]>>
      BY <2>6, <2>8
    <3>2. fifoPush(s, e[1]) = [chain |-> Kept(s) \o <<e[1]>>, tail |-> TRUE, count |-> s.count + 1]
      BY DEF fifoPush, Kept
    <3>3. k - 1 = 0 /\ k = 1 /\ 1 # 0
      BY <2>8
    <3>4. c(k - 1) = s /\ c(k) = [chain |-> Kept(s) \o <<e[1]>>, tail |-> TRUE, count |-> s.count + 1]
      BY <3>3, <3>1
    <3>5. g[1..k] = c(k)
      BY <2>5, <2>8, <3>2, <3>4
    <3> HIDE DEF c
    <3> QED BY <3>5
  <2>9. CASE k # 1
    <3> DEFINE q == c(k - 1)
    <3>1. q.tail = TRUE /\ q.chain = Kept(s) \o FirstOf(e, k - 1) /\ q.count = s.count + (k - 1)
      BY <2>9
    <3> HIDE DEF q
    <3>2. fifoPush(q, e[k]) = [chain |-> (Kept(s) \o FirstOf(e, k - 1)) \o <<e[k]>>, tail |-> TRUE,
                               count |-> s.count + (k - 1) + 1]
      BY <3>1 DEF fifoPush
    <3>3. s.count + (k - 1) + 1 = s.count + k
      OBVIOUS
    <3>4. c(k) = [chain |-> (Kept(s) \o FirstOf(e, k - 1)) \o <<e[k]>>, tail |-> TRUE, count |-> s.count + k]
      BY <2>7
    <3>5. g[1..k] = c(k)
      <4> HIDE DEF c
      <4> QED BY <2>5, <3>2, <3>3, <3>4 DEF q
    <3> HIDE DEF c
    <3> QED BY <3>5
  <2> QED BY <2>8, <2>9
<1> HIDE DEF P, n, c
<1>5. n \in P
  <2>1. n \in Nat /\ 0 \in P
    BY <1>1, <1>3
  <2>2. \A k \in 1..n : k - 1 \in P => k \in P
    BY <1>4
  <2>3. \A k \in 0..n : k \in P
    BY <2>1, <2>2, Upwards
  <2> QED BY <2>1, <2>3
<1>6. PushedOn(s, e) = c(n)
  BY <1>5, <1>2 DEF P
<1> USE DEF n, c
<1>7. FirstOf(e, n) = e /\ (n = 0 <=> e = <<>>)
  BY FirstOfAll
<1> QED BY <1>6, <1>7 DEF Stacked

-----------------------------------------------------------------------------
(* Sequences                                                               *)

LEMMA SeqIs ==
  ASSUME NEW S, NEW s \in Seq(S)
  PROVE  IsSequence(s) /\ Len(s) \in Nat /\ DOMAIN s = 1..Len(s)
<1>1. Len(s) \in Nat /\ DOMAIN s = 1..Len(s)
  OBVIOUS
<1>2. s \in [1..Len(s) -> ToSet(s)]
  BY <1>1 DEF ToSet
<1> QED BY <1>1, <1>2, FunctionIsSeq DEF IsSequence

LEMMA SequenceIs ==
  ASSUME NEW s, IsSequence(s)
  PROVE  /\ s \in Seq(ToSet(s)) /\ Len(s) \in Nat /\ DOMAIN s = 1..Len(s)
         /\ ToSet(s) = {s[i] : i \in 1..Len(s)}
BY DEF IsSequence, ToSet

LEMMA Widened ==
  ASSUME NEW s, IsSequence(s), NEW S, ToSet(s) \subseteq S
  PROVE  s \in Seq(S)
<1>1. s \in Seq(ToSet(s)) /\ Len(s) \in Nat
  BY SequenceIs
<1>2. s \in [1..Len(s) -> S]
  BY <1>1
<1> QED BY <1>1, <1>2, FunctionIsSeq

LEMMA EmptyIs == IsSequence(<<>>) /\ Len(<<>>) = 0 /\ ToSet(<<>>) = {}
<1>1. <<>> \in Seq({})
  OBVIOUS
<1>2. IsSequence(<<>>)
  BY <1>1, SeqIs
<1> QED BY <1>2 DEF ToSet

LEMMA OneIs ==
  ASSUME NEW x
  PROVE  IsSequence(<<x>>) /\ Len(<<x>>) = 1 /\ <<x>>[1] = x /\ ToSet(<<x>>) = {x}
<1>1. <<x>> \in Seq({x})
  OBVIOUS
<1>2. IsSequence(<<x>>)
  BY <1>1, SeqIs
<1>3. ToSet(<<x>>) = {<<x>>[i] : i \in 1..1}
  BY <1>2, SequenceIs
<1> QED BY <1>2, <1>3

LEMMA ConcatIs ==
  ASSUME NEW s, IsSequence(s), NEW t, IsSequence(t)
  PROVE  /\ IsSequence(s \o t) /\ Joins(s \o t, s, t)
         /\ ToSet(s \o t) = ToSet(s) \cup ToSet(t)
<1> DEFINE S == ToSet(s) \cup ToSet(t)
<1>1. s \in Seq(S) /\ t \in Seq(S)
  BY Widened
<1>2. s \o t \in Seq(S) /\ Joins(s \o t, s, t)
  BY <1>1, ConcatParts
<1>3. IsSequence(s \o t)
  BY <1>2, SeqIs
<1> HIDE DEF S
<1>4. ASSUME NEW x PROVE x \in ToSet(s \o t) <=> x \in ToSet(s) \/ x \in ToSet(t)
  <2>1. ElementsJoined(s \o t, s, t, x)
    BY <1>1, <1>2, JoinedElements
  <2> QED BY <2>1 DEF ElementsJoined, Within, ToSet
<1> QED BY <1>2, <1>3, <1>4

LEMMA ConcatAgain ==
  ASSUME NEW s, IsSequence(s), NEW t, IsSequence(t), NEW u, IsSequence(u)
  PROVE  (s \o t) \o u = s \o (t \o u)
<1> DEFINE S == ToSet(s) \cup ToSet(t) \cup ToSet(u)
<1>1. s \in Seq(S) /\ t \in Seq(S) /\ u \in Seq(S)
  BY Widened
<1> HIDE DEF S
<1> QED BY <1>1, ConcatAssociative

LEMMA ConcatNone ==
  ASSUME NEW s, IsSequence(s)
  PROVE  s \o <<>> = s /\ <<>> \o s = s
BY SequenceIs, ConcatEmptySeq

(* Parts put one behind the other.                                         *)
LEMMA FlattenIs ==
  ASSUME NEW S, NEW n \in Nat, NEW parts \in [1..n -> Seq(S)]
  PROVE  /\ FlattenSeq(parts) \in Seq(S)
         /\ n = 0 => FlattenSeq(parts) = <<>>
         /\ n > 0 => FlattenSeq(parts) = FlattenSeq([i \in 1..(n - 1) |-> parts[i]]) \o parts[n]
<1>1. parts \in Seq(Seq(S)) /\ Len(parts) = n
  BY FunctionIsSeq
<1>2. FlattenSeq(parts) \in Seq(S)
  BY <1>1, FlattenIsSeq
<1>3. FlattenSeq(FirstOf(parts, n)) = FlattenSeq(parts) /\ FlattenSeq(FirstOf(parts, 0)) = <<>>
  BY <1>1, FlattenFront
<1>4. n > 0 => FlattenSeq(FirstOf(parts, n)) = FlattenSeq(FirstOf(parts, n - 1)) \o parts[n]
  <2> SUFFICES ASSUME n > 0
               PROVE  FlattenSeq(FirstOf(parts, n)) = FlattenSeq(FirstOf(parts, n - 1)) \o parts[n]
    OBVIOUS
  <2>1. n \in 1..Len(parts)
    BY <1>1
  <2> QED BY <1>1, <2>1, FlattenStep
<1> QED BY <1>2, <1>3, <1>4 DEF FirstOf

-----------------------------------------------------------------------------
(* The invariant                                                           *)

Places == Playing \cup {"idle", "scan", "config", "params", "check", "post", "release", "fault"}

UpdateFields == {"id", "afi", "origin", "asSet", "validation", "bgp4"}
StackFields  == {"chain", "tail", "count"}
BgpFields    == {"link", "sending", "negotiated", "peerCaps", "losses", "stop", "pos", "input",
                 "on", "bin", "sendData"}

SessionTyped(s) ==
  /\ DOMAIN s = {"conf", "updates"}
  /\ DOMAIN s.conf = DOMAIN initBGPSessionConfig
  /\ DOMAIN s.updates = StackFields

(* What things are made of, and where the program is.                      *)
Structure ==
  /\ pc \in Places
  /\ IsSequence(argv) /\ idx \in Nat \ {0}
  /\ DOMAIN params = DOMAIN initParams
  /\ 1 \in DOMAIN sessions /\ SessionTyped(sessions[1])
  /\ count \in Nat
  /\ DOMAIN paramUpdates = StackFields
  /\ \A name \in DOMAIN files : InOrder(files[name])
  /\ \A f \in DOMAIN data : IsSequence(data[f])
  /\ stdin \in 0..Len(StdinLines)
  /\ IsSequence(sent)

(* The update u comes from the line l: it has its name, and is for BGP-4   *)
(* if the line says so.  Unless it is a copy it has the rest, too.         *)
From(u, l) ==
  /\ DOMAIN u = UpdateFields
  /\ u.id = l.id
  /\ BGP4Asked(l) \/ AsSet(l) => u.bgp4
Whole(u, l) ==
  /\ u.asSet = AsSet(l)
  /\ l.sep => u.validation = l.val

Matches(us, ls, whole) ==
  /\ IsSequence(us) /\ IsSequence(ls) /\ Len(us) = Len(ls)
  /\ \A i \in 1..Len(ls) : From(us[i], ls[i]) /\ (whole => Whole(us[i], ls[i]))

LinesUpTo(n) == FlattenSeq([i \in 1..n |-> LineOf(argv[i])])

(* The stacks have the updates of the options up to n and of the file.     *)
Collected(n) ==
  /\ n <= Len(argv)
  /\ Sound(paramUpdates) /\ Matches(paramUpdates.chain, LinesUpTo(n), TRUE)
  /\ count # 0 =>
       /\ Sound(Stack1) /\ Matches(Stack1.chain, OwnLines, TRUE)
       /\ Sound(globalUpdates) /\ Matches(globalUpdates.chain, GlobalLines, TRUE)

NothingDone ==
  /\ idx = 1
  /\ params = initParams
  /\ sessions = <<NewSession>>
  /\ count = 1
  /\ paramUpdates = initStack
  /\ globalUpdates = initStack

NothingPlayed == taken = <<>> /\ sent = <<>> /\ bgp = NoSession

(* Up to the modes nothing was read from the input or played, and what was *)
(* given is on the stacks.                                                 *)
Preparing ==
  /\ pc \in {"idle", "scan", "config"} => NothingDone
  /\ pc \notin Playing \cup {"release", "fault"} => stdin = 0
  /\ pc \in {"idle", "scan", "config", "params", "check", "post", "mode", "session"} => NothingPlayed
  /\ pc = "mode" => stdin = 0
  /\ pc = "config" => retVal = 1 /\ ~HelpAsked(argv) /\ ConfigAsked(argv) # Nothing
  /\ pc = "params" => retVal = IF HelpAsked(argv) THEN 0 ELSE 1
  /\ pc = "params" /\ ~error /\ ~HelpAsked(argv) => Collected(idx - 1)
  /\ pc \in {"check", "post"} => Collected(Len(argv))
  /\ pc = "check" => retVal = 1 /\ ~HelpAsked(argv)

(* Without BGPsec the first session has no capability to send it.          *)
SwitchedOff ==
  params.disable_bgpsec =>
    /\ params.mode = "BGP"
    /\ count # 0 => ~First.conf.bgpsec_v4_snd /\ ~First.conf.bgpsec_v6_snd
    /\ pc = "bgp" => bgp.negotiated = {}

(* Every update that was taken (t) or is on the stack s comes from a line; *)
(* if the links of the stacks held, each line has its update.              *)
Staged(t, s, lines, kept, whole) ==
  /\ IsSequence(t) /\ IsSequence(s.chain) /\ IsSequence(lines)
  /\ DOMAIN s = StackFields
  /\ \A u \in ToSet(t) \cup ToSet(s.chain) : \E l \in ToSet(lines) : From(u, l)
  /\ kept => Matches(t \o s.chain, lines, whole) /\ s.count = Len(s.chain)

OnStage ==
  /\ IsSequence(OwnLines) /\ IsSequence(GlobalLines)
  /\ Staged(taken, Stack1, Scripted, TailKept, count = 1)

BgpTyped ==
  /\ DOMAIN bgp = BgpFields
  /\ bgp.link \in {"up", "down"}
  /\ bgp.pos \in Nat \ {0}
  /\ bgp.bin => params.bin \in DOMAIN data

PlayingOn ==
  /\ pc \in Playing \cup {"post"} => params.create = Nothing /\ SwitchedOff
  /\ pc = "fault" => params.create = Nothing
  /\ pc \in Playing \ {"mode"} => count # 0
  /\ pc \in {"post", "mode"} => params.mode = "BGP" \/ count # 0
  /\ pc = "capi" => params.mode = "CAPI"
  /\ pc \in {"session", "bgp"} => params.mode = "BGP"
  /\ pc \in Playing /\ count # 0 => OnStage
  /\ pc = "bgp" => BgpTyped
  /\ pc = "fault" /\ TailKept => bgp # NoSession /\ bgp.pos # 1

(* A file that was generated is what generateFile writes.                  *)
Generated ==
  pc = "release" /\ retVal = 0 /\ ~HelpAsked(argv) /\ params.create # Nothing =>
    /\ params.create \in DOMAIN files
    /\ \E address : /\ address # Nothing
                    /\ files[params.create] = generateFile(First.conf, address)

BrioInv ==
  /\ Structure
  /\ Preparing
  /\ PlayingOn
  /\ NoBgpsecWhenOff
  /\ Generated

-----------------------------------------------------------------------------
(* Updates and their lines                                                 *)

LEMMA CreatedFrom ==
  ASSUME NEW l, NEW off
  PROVE  From(createUpdate(l, off), l) /\ Whole(createUpdate(l, off), l)
BY DEF From, Whole, createUpdate, UpdateFields

LEMMA CopiedFrom ==
  ASSUME NEW u, NEW l, From(u, l)
  PROVE  From(duplicateUpdate(u), l)
<1>1. /\ DOMAIN duplicateUpdate(u) = DOMAIN u
      /\ duplicateUpdate(u).id = u.id /\ duplicateUpdate(u).bgp4 = u.bgp4
  BY DEF From, duplicateUpdate, UpdateFields
<1> QED BY <1>1 DEF From

LEMMA MatchNone ==
  ASSUME NEW whole
  PROVE  Matches(<<>>, <<>>, whole)
BY EmptyIs DEF Matches

LEMMA MatchOne ==
  ASSUME NEW u, NEW l, From(u, l), Whole(u, l), NEW whole
  PROVE  Matches(<<u>>, <<l>>, whole)
<1>1. \A i \in 1..Len(<<l>>) : <<u>>[i] = u /\ <<l>>[i] = l
  BY OneIs
<1> QED BY <1>1, OneIs DEF Matches

LEMMA MatchLess ==
  ASSUME NEW us, NEW ls, Matches(us, ls, TRUE), NEW whole
  PROVE  Matches(us, ls, whole)
BY DEF Matches

LEMMA MatchConcat ==
  ASSUME NEW us, NEW ls, NEW vs, NEW ms, NEW whole, Matches(us, ls, whole), Matches(vs, ms, whole)
  PROVE  Matches(us \o vs, ls \o ms, whole)
<1> DEFINE m == Len(ls)
           n == Len(ms)
<1>1. /\ IsSequence(us) /\ IsSequence(vs) /\ IsSequence(ls) /\ IsSequence(ms)
      /\ Len(us) = m /\ Len(vs) = n /\ m \in Nat /\ n \in Nat
  BY SequenceIs DEF Matches
<1>2. /\ IsSequence(us \o vs) /\ Joins(us \o vs, us, vs)
      /\ IsSequence(ls \o ms) /\ Joins(ls \o ms, ls, ms)
  BY <1>1, ConcatIs
<1>3. Len(us \o vs) = m + n /\ Len(ls \o ms) = m + n
  BY <1>1, <1>2 DEF Joins
<1>4. ASSUME NEW i \in 1..(m + n)
      PROVE  /\ From((us \o vs)[i], (ls \o ms)[i])
             /\ whole => Whole((us \o vs)[i], (ls \o ms)[i])
  <2>1. CASE i <= m
    <3>1. i \in 1..m
      BY <1>1, <2>1
    <3>2. (us \o vs)[i] = us[i] /\ (ls \o ms)[i] = ls[i]
      BY <1>1, <1>2, <3>1 DEF Joins
    <3> QED BY <3>1, <3>2 DEF Matches
  <2>2. CASE i > m
    <3>1. i - m \in 1..n /\ i = m + (i - m)
      BY <1>1, <2>2
    <3>2. (us \o vs)[m + (i - m)] = vs[i - m] /\ (ls \o ms)[m + (i - m)] = ms[i - m]
      BY <1>1, <1>2, <3>1 DEF Joins
    <3> QED BY <3>1, <3>2 DEF Matches
  <2> QED BY <1>1, <2>1, <2>2
<1> QED BY <1>2, <1>3, <1>4 DEF Matches

(* What every update of one comes from is a line of the other.             *)
LEMMA MatchFrom ==
  ASSUME NEW us, NEW ls, NEW whole, Matches(us, ls, whole)
  PROVE  \A u \in ToSet(us) : \E l \in ToSet(ls) : From(u, l)
<1> SUFFICES ASSUME NEW u \in ToSet(us) PROVE \E l \in ToSet(ls) : From(u, l)
  OBVIOUS
<1>1. PICK i \in 1..Len(us) : u = us[i]
  BY SequenceIs DEF Matches
<1>2. ls[i] \in ToSet(ls) /\ From(us[i], ls[i])
  BY SequenceIs DEF Matches
<1> QED BY <1>1, <1>2

-----------------------------------------------------------------------------
(* The configuration file                                                  *)

LEMMA CompleteIs ==
  ASSUME NEW lines, IsSequence(lines)
  PROVE  IsSequence(Complete(lines))
<1> DEFINE n == Len(lines)
           S == ToSet(lines)
           parts == [i \in 1..n |-> IF Incomplete(lines[i]) THEN <<>> ELSE <<lines[i]>>]
<1>1. n \in Nat /\ DOMAIN lines = 1..n /\ \A i \in 1..n : lines[i] \in S
  BY SequenceIs
<1>2. parts \in [1..n -> Seq(S)]
  BY <1>1
<1>3. FlattenSeq(parts) \in Seq(S)
  BY <1>1, <1>2, FlattenIs
<1> QED BY <1>1, <1>3, SeqIs DEF Complete

LEMMA PushedIs ==
  ASSUME NEW lines, IsSequence(lines), NEW off
  PROVE  LET stack == Pushed([i \in DOMAIN lines |-> createUpdate(lines[i], off)])
         IN  DOMAIN stack = StackFields /\ Sound(stack) /\ Matches(stack.chain, lines, TRUE)
<1> DEFINE n == Len(lines)
           us == [i \in 1..n |-> createUpdate(lines[i], off)]
           S == {us[i] : i \in 1..n}
           stack == PushedOn(initStack, us)
<1>1. n \in Nat /\ DOMAIN lines = 1..n
  BY SequenceIs
<1>2. us \in Seq(S) /\ Len(us) = n
  BY <1>1, IsSeq
<1>3. Kept(initStack) = <<>> /\ initStack.count = 0 /\ Kept(initStack) \in Seq(S)
  BY DEF Kept, initStack
<1>4. IsSequence(us) /\ \A i \in 1..n : us[i] = createUpdate(lines[i], off)
  BY <1>2, SeqIs
<1> HIDE DEF us, S
<1>5. stack = Stacked(initStack, us)
  <2>1. initStack.count \in Int
    BY <1>3
  <2> QED BY <1>2, <1>3, <2>1, PushedOnIs
<1>6. <<>> \o us = us
  BY <1>4, ConcatNone
<1>7. stack = IF us = <<>> THEN initStack ELSE [chain |-> us, tail |-> TRUE, count |-> n]
  BY <1>1, <1>2, <1>3, <1>5, <1>6 DEF Stacked
<1>8. stack.chain = us /\ stack.count = n /\ DOMAIN stack = StackFields /\ (stack.tail <=> us # <<>>)
  BY <1>2, <1>7 DEF initStack, StackFields
<1>9. Matches(us, lines, TRUE)
  BY <1>2, <1>4, CreatedFrom DEF Matches
<1>10. Sound(stack)
  BY <1>2, <1>8 DEF Sound
<1> HIDE DEF stack
<1>11. DOMAIN stack = StackFields /\ Sound(stack) /\ Matches(stack.chain, lines, TRUE)
  BY <1>8, <1>9, <1>10
<1> QED BY <1>1, <1>11 DEF Pushed, stack, us

LEMMA FirstWrongIs ==
  ASSUME NEW lines, IsSequence(lines)
  PROVE  FirstWrong(lines) \in 0..Len(lines)
<1> DEFINE I == {i \in 1..Len(lines) : Wrong(lines[i])}
<1>1. Len(lines) \in Nat /\ I \in SUBSET Nat /\ I \subseteq 1..Len(lines)
  BY SequenceIs
<1>2. ASSUME I # {} PROVE Min(I) \in I
  <2> HIDE DEF I
  <2>1. PICK n \in I : \A k \in I : n <= k
    BY <1>1, <1>2, LeastOf
  <2> QED BY <2>1 DEF Min
<1>3. FirstWrong(lines) = IF I # {} THEN Min(I) ELSE 0
  BY DEF FirstWrong, SelectInSeq
<1> HIDE DEF I
<1>4. CASE I = {}
  BY <1>1, <1>3, <1>4
<1>5. CASE I # {}
  <2>1. Min(I) \in 1..Len(lines)
    BY <1>1, <1>2, <1>5
  <2>2. FirstWrong(lines) = Min(I)
    BY <1>3, <1>5
  <2>3. 1..Len(lines) \subseteq 0..Len(lines)
    BY <1>1
  <2> QED BY <2>1, <2>2, <2>3
<1> QED BY <1>4, <1>5

LEMMA ReadUpdatesIs ==
  ASSUME NEW lines, IsSequence(lines), NEW off
  PROVE  LET r == readUpdates(lines, off)
         IN  /\ DOMAIN r.stack = StackFields
             /\ ~r.wrong => Sound(r.stack) /\ Matches(r.stack.chain, Complete(lines), TRUE)
<1> DEFINE bad == FirstWrong(lines)
           good == IF bad = 0 THEN lines ELSE SubSeq(lines, 1, bad - 1)
           used == Complete(good)
           stack == Pushed([i \in DOMAIN used |-> createUpdate(used[i], off)])
<1>1. bad \in 0..Len(lines) /\ Len(lines) \in Nat /\ lines \in Seq(ToSet(lines))
  BY FirstWrongIs, SequenceIs
<1>2. good \in Seq(ToSet(lines))
  BY <1>1
<1>3. IsSequence(used)
  BY <1>2, SeqIs, CompleteIs
<1>4. DOMAIN stack = StackFields /\ Sound(stack) /\ Matches(stack.chain, used, TRUE)
  <2> HIDE DEF used
  <2> QED BY <1>3, PushedIs
<1>5. readUpdates(lines, off) = [stack |-> stack, wrong |-> bad # 0]
  BY DEF readUpdates
<1>6. bad = 0 => used = Complete(lines)
  OBVIOUS
<1> HIDE DEF bad, stack, used
<1> DEFINE r == readUpdates(lines, off)
<1>7. r.stack = stack /\ r.wrong = (bad # 0)
  BY <1>5
<1> HIDE DEF r
<1>8. DOMAIN r.stack = StackFields
  BY <1>4, <1>7
<1>9. ASSUME ~r.wrong PROVE Sound(r.stack) /\ Matches(r.stack.chain, Complete(lines), TRUE)
  BY <1>4, <1>6, <1>7, <1>9
<1> QED BY <1>8, <1>9 DEF r

LEMMA OverrideIs ==
  ASSUME NEW g, NEW f
  PROVE  /\ DOMAIN Override(g, f) = DOMAIN g
         /\ \A n \in DOMAIN g : Override(g, f)[n] = IF n \in DOMAIN f THEN f[n] ELSE g[n]
BY DEF Override

LEMMA InitStackIs ==
  ASSUME NEW whole
  PROVE  DOMAIN initStack = StackFields /\ Sound(initStack) /\ Matches(initStack.chain, <<>>, whole)
<1>1. initStack.chain = <<>> /\ initStack.count = 0 /\ ~initStack.tail
  BY DEF initStack
<1>2. DOMAIN initStack = StackFields
  BY DEF initStack, StackFields
<1> QED BY <1>1, <1>2, EmptyIs, MatchNone DEF Sound

LEMMA NewSessionIs ==
  ASSUME NEW whole
  PROVE  /\ SessionTyped(NewSession) /\ Sound(NewSession.updates)
         /\ Matches(NewSession.updates.chain, <<>>, whole)
<1>1. /\ DOMAIN NewSession = {"conf", "updates"}
      /\ NewSession.conf = initBGPSessionConfig /\ NewSession.updates = initStack
  BY DEF NewSession
<1> QED BY <1>1, InitStackIs DEF SessionTyped

LEMMA ReadSessionIs ==
  ASSUME NEW s, IsSequence(LinesOf(s)), NEW off
  PROVE  LET r == ReadSession(s, off)
         IN  /\ SessionTyped(r)
             /\ ~UpdatesWrong(s, off) =>
                  Sound(r.updates) /\ Matches(r.updates.chain, Complete(LinesOf(s)), TRUE)
<1> DEFINE r == ReadSession(s, off)
           u == readUpdates(LinesOf(s), off)
<1>1. DOMAIN r = {"conf", "updates"} /\ r.updates = u.stack
  BY DEF ReadSession
<1>2. DOMAIN r.conf = DOMAIN initBGPSessionConfig
  BY OverrideIs DEF ReadSession
<1>3. /\ DOMAIN u.stack = StackFields
      /\ ~u.wrong => Sound(u.stack) /\ Matches(u.stack.chain, Complete(LinesOf(s)), TRUE)
  BY ReadUpdatesIs
<1>4. UpdatesWrong(s, off) = u.wrong
  BY DEF UpdatesWrong
<1> HIDE DEF u, r
<1>5. SessionTyped(r)
  BY <1>1, <1>2, <1>3 DEF SessionTyped
<1>6. ASSUME ~UpdatesWrong(s, off)
      PROVE  Sound(r.updates) /\ Matches(r.updates.chain, Complete(LinesOf(s)), TRUE)
  BY <1>1, <1>3, <1>4, <1>6
<1> QED BY <1>5, <1>6 DEF r

(* The lines of a file that are for the first session, and for all.        *)
OwnOf(f)    == IF f.session = "list" THEN Complete(LinesOf(f.sessions[1])) ELSE <<>>
GlobalOf(f) == IF f.session = "none" THEN <<>> ELSE Complete(f.update.lines)

SessionsRead(r) ==
  /\ 1 \in DOMAIN r.sessions
  /\ \A k \in DOMAIN r.sessions : SessionTyped(r.sessions[k])
  /\ r.count \in Nat
  /\ DOMAIN r.globals = StackFields

LinesRead(r, f) ==
  r.count # 0 =>
    /\ Sound(r.sessions[1].updates) /\ Matches(r.sessions[1].updates.chain, OwnOf(f), TRUE)
    /\ Sound(r.globals) /\ Matches(r.globals.chain, GlobalOf(f), TRUE)

LEMMA NotThere ==
  ASSUME NEW p, NEW f, ~f.found \/ ~f.parses
  PROVE  LET r == readConfig(p, f) IN SessionsRead(r) /\ r.error /\ r.params = p
<1> DEFINE r == readConfig(p, f)
<1>1. r = [params |-> p, sessions |-> <<NewSession>>, count |-> 1, globals |-> initStack, error |-> TRUE]
  BY DEF readConfig
<1>2. /\ r.sessions = <<NewSession>> /\ r.count = 1 /\ r.globals = initStack /\ r.error
      /\ r.params = p
  BY <1>1
<1> HIDE DEF r
<1>3. DOMAIN r.sessions = 1..1 /\ r.sessions[1] = NewSession
  BY <1>2
<1>4. SessionsRead(r)
  BY <1>2, <1>3, NewSessionIs, InitStackIs DEF SessionsRead
<1> QED BY <1>2, <1>4 DEF r

LEMMA ReadConfigIs ==
  ASSUME NEW p, NEW f, InOrder(f), f.found, f.parses
  PROVE  LET r == readConfig(p, f)
         IN  /\ SessionsRead(r)
             /\ DOMAIN r.params = DOMAIN p
             /\ ~r.error => LinesRead(r, f)
<1> DEFINE q == ReadGlobals(p, f.globals)
           n == IF f.session = "list" THEN SessionCount(f.sessions, q.mode) ELSE 1
           bad == {k \in 1..n : SessionWrong(f.sessions[k])}
           ok == f.session = "list" /\ bad = {}
           lines == f.session = "list" /\ \E k \in 1..n : UpdatesWrong(f.sessions[k], q.disable_bgpsec)
           globals == readUpdates(f.update.lines, q.disable_bgpsec)
           wrong == \/ ModeWrong(f.globals)
                    \/ f.session = "list" /\ (bad # {} \/ lines)
                    \/ f.session # "none" /\ (~f.update.list \/ globals.wrong)
           first == IF n = 0 THEN <<NewSession>> ELSE <<>>
           one(k) == IF ok /\ ~ModeWrong(f.globals)
                     THEN ReadSession(f.sessions[k], q.disable_bgpsec) ELSE NewSession
           list == [k \in 1..n |-> one(k)]
           r == readConfig(p, f)
<1>1. /\ r.params = q /\ r.sessions = first \o list /\ r.count = n
      /\ r.globals = IF wrong \/ f.session = "none" THEN initStack ELSE globals.stack
      /\ r.error = wrong
  BY DEF readConfig
<1>2. DOMAIN q = DOMAIN p
  BY OverrideIs DEF ReadGlobals
<1>3. /\ n \in Nat
      /\ f.session = "list" => n <= Len(f.sessions)
      /\ IsSequence(f.sessions) /\ IsSequence(f.update.lines)
  <2>1. IsSequence(f.sessions) /\ IsSequence(f.update.lines) /\ Len(f.sessions) \in Nat
    BY SequenceIs DEF InOrder
  <2> QED BY <2>1 DEF SessionCount
<1>4. /\ DOMAIN globals.stack = StackFields
      /\ ~globals.wrong =>
           Sound(globals.stack) /\ Matches(globals.stack.chain, Complete(f.update.lines), TRUE)
  BY <1>3, ReadUpdatesIs
<1>5. ASSUME f.session = "list", NEW k \in 1..n
      PROVE  IsSequence(LinesOf(f.sessions[k]))
  <2>1. f.sessions[k] \in ToSet(f.sessions)
    BY <1>3, <1>5, SequenceIs
  <2> QED BY <2>1 DEF InOrder
<1> HIDE DEF n, q, globals
<1>6. ASSUME NEW k \in 1..n PROVE SessionTyped(one(k))
  <2>1. CASE ok
    BY <2>1, <1>5, ReadSessionIs, NewSessionIs
  <2>2. CASE ~ok
    BY <2>2, NewSessionIs
  <2> QED BY <2>1, <2>2
<1>7. /\ 1 \in DOMAIN r.sessions
      /\ \A k \in DOMAIN r.sessions : SessionTyped(r.sessions[k])
      /\ n # 0 => r.sessions[1] = one(1)
  <2> DEFINE S == {list[k] : k \in 1..n}
  <2>1. list \in Seq(S) /\ Len(list) = n /\ DOMAIN list = 1..n /\ \A k \in 1..n : list[k] = one(k)
    <3>1. \A k \in 1..n : list[k] = one(k)
      OBVIOUS
    <3> HIDE DEF one
    <3> QED BY <3>1, <1>3, IsSeq
  <2> HIDE DEF one, list, S
  <2>2. CASE n = 0
    <3>1. list = <<>> /\ r.sessions = <<NewSession>> \o list
      BY <2>1, <2>2, <1>1
    <3>2. r.sessions = <<NewSession>>
      BY <3>1, OneIs, ConcatNone
    <3>3. DOMAIN r.sessions = 1..1 /\ r.sessions[1] = NewSession
      BY <3>2
    <3> QED BY <3>3, <2>2, NewSessionIs
  <2>3. CASE n # 0
    <3>1. r.sessions = <<>> \o list
      BY <2>3, <1>1
    <3>2. r.sessions = list
      BY <3>1, <2>1, SeqIs, ConcatNone
    <3> QED BY <3>2, <2>1, <2>3, <1>3, <1>6
  <2> QED BY <2>2, <2>3
<1>8. DOMAIN r.globals = StackFields
  BY <1>1, <1>4, InitStackIs
<1>9. SessionsRead(r)
  BY <1>1, <1>3, <1>7, <1>8 DEF SessionsRead
<1>10. ASSUME ~r.error PROVE LinesRead(r, f)
  <2>1. ~wrong
    BY <1>1, <1>10
  <2> SUFFICES ASSUME n # 0
               PROVE  /\ Sound(r.sessions[1].updates)
                      /\ Matches(r.sessions[1].updates.chain, OwnOf(f), TRUE)
                      /\ Sound(r.globals) /\ Matches(r.globals.chain, GlobalOf(f), TRUE)
    BY <1>1 DEF LinesRead
  <2>2. 1 \in 1..n
    BY <1>3
  <2>3. Sound(r.sessions[1].updates) /\ Matches(r.sessions[1].updates.chain, OwnOf(f), TRUE)
    <3>1. CASE f.session = "list"
      <4>1. ok /\ ~ModeWrong(f.globals) /\ ~UpdatesWrong(f.sessions[1], q.disable_bgpsec)
        BY <2>1, <2>2, <3>1
      <4>2. r.sessions[1] = ReadSession(f.sessions[1], q.disable_bgpsec)
        BY <4>1, <1>7
      <4>3. IsSequence(LinesOf(f.sessions[1]))
        BY <2>2, <3>1, <1>5
      <4> HIDE DEF r
      <4>4. /\ Sound(r.sessions[1].updates)
            /\ Matches(r.sessions[1].updates.chain, Complete(LinesOf(f.sessions[1])), TRUE)
        BY <4>1, <4>2, <4>3, ReadSessionIs
      <4> QED BY <4>4, <3>1 DEF OwnOf
    <3>2. CASE f.session # "list"
      <4>1. r.sessions[1] = NewSession
        BY <1>7, <3>2
      <4> HIDE DEF r
      <4> QED BY <4>1, <3>2, NewSessionIs DEF OwnOf
    <3> QED BY <3>1, <3>2
  <2>4. Sound(r.globals) /\ Matches(r.globals.chain, GlobalOf(f), TRUE)
    <3>1. CASE f.session = "none"
      <4>1. r.globals = initStack
        BY <1>1, <3>1
      <4> HIDE DEF r
      <4> QED BY <4>1, <3>1, InitStackIs DEF GlobalOf
    <3>2. CASE f.session # "none"
      <4>1. r.globals = globals.stack /\ ~globals.wrong
        BY <1>1, <2>1, <3>2
      <4> HIDE DEF r
      <4> QED BY <4>1, <3>2, <1>4 DEF GlobalOf
    <3> QED BY <3>1, <3>2
  <2> QED BY <2>3, <2>4
<1> HIDE DEF r
<1> QED BY <1>1, <1>2, <1>9, <1>10 DEF r

-----------------------------------------------------------------------------
(* Stacks that are refilled and taken from                                 *)

LEMMA HeadMoves ==
  ASSUME NEW t, IsSequence(t), NEW c, IsSequence(c), c # <<>>
  PROVE  /\ IsSequence(Append(t, Head(c))) /\ IsSequence(Tail(c))
         /\ Append(t, Head(c)) \o Tail(c) = t \o c
         /\ ToSet(Append(t, Head(c))) \cup ToSet(Tail(c)) = ToSet(t) \cup ToSet(c)
         /\ Head(c) \in ToSet(c)
         /\ Len(Tail(c)) = Len(c) - 1
         /\ Last(Append(t, Head(c))) = Head(c)
<1> DEFINE S == ToSet(t) \cup ToSet(c)
<1>1. t \in Seq(S) /\ c \in Seq(S)
  BY Widened
<1> HIDE DEF S
<1>2. /\ Append(t, Head(c)) \in Seq(S) /\ Tail(c) \in Seq(S) /\ Len(Tail(c)) = Len(c) - 1
      /\ Last(Append(t, Head(c))) = Head(c)
  BY <1>1 DEF Last
<1>3. /\ Append(t, Head(c)) = t \o <<Head(c)>>
      /\ <<Head(c)>> \o Tail(c) = c
  BY <1>1
<1>4. IsSequence(Append(t, Head(c))) /\ IsSequence(Tail(c)) /\ IsSequence(<<Head(c)>>)
  BY <1>2, SeqIs, OneIs
<1>5. Append(t, Head(c)) \o Tail(c) = t \o c
  <2>1. (t \o <<Head(c)>>) \o Tail(c) = t \o (<<Head(c)>> \o Tail(c))
    <3> PICK h : h = <<Head(c)>>  OBVIOUS
    <3> PICK r : r = Tail(c)  OBVIOUS
    <3>1. IsSequence(h) /\ IsSequence(r) /\ IsSequence(t)  BY Zenon, <1>4
    <3>2. (t \o h) \o r = t \o (h \o r)  BY <3>1, ConcatAgain
    <3> QED  BY Zenon, <3>2
  <2> QED  BY Zenon, <1>3, <2>1
<1>6. /\ ToSet(Append(t, Head(c))) = ToSet(t) \cup {Head(c)}
      /\ ToSet(c) = {Head(c)} \cup ToSet(Tail(c))
  <2> DEFINE x == Head(c)
             r == Tail(c)
  <2>1. IsSequence(<<x>>) /\ ToSet(<<x>>) = {x}
    BY OneIs
  <2> HIDE DEF x, r
  <2>2. ToSet(t \o <<x>>) = ToSet(t) \cup {x}
    BY <2>1, ConcatIs
  <2>3. IsSequence(r)
    BY <1>4 DEF r
  <2>4. ToSet(<<x>> \o r) = {x} \cup ToSet(r)
    BY <2>1, <2>3, ConcatIs
  <2> QED BY <2>2, <2>4, <1>3 DEF x, r
<1> QED BY <1>2, <1>4, <1>5, <1>6

LEMMA StagedTaken ==
  ASSUME NEW t, NEW s, NEW lines, NEW kept, NEW whole, Staged(t, s, lines, kept, whole),
         s.chain # <<>>
  PROVE  /\ Staged(Append(t, peekStack(s)), popStack(s), lines, kept, whole)
         /\ Last(Append(t, peekStack(s))) = peekStack(s)
         /\ \E l \in ToSet(lines) : From(peekStack(s), l)
<1> DEFINE c == s.chain
           r == popStack(s)
           h == Append(t, Head(c))
<1>1. IsSequence(t) /\ IsSequence(c) /\ c # <<>>
  BY DEF Staged
<1>2. /\ IsSequence(h) /\ IsSequence(Tail(c))
      /\ h \o Tail(c) = t \o c
      /\ ToSet(h) \cup ToSet(Tail(c)) = ToSet(t) \cup ToSet(c)
      /\ Head(c) \in ToSet(c)
      /\ Len(Tail(c)) = Len(c) - 1
      /\ Last(h) = Head(c)
  <2> HIDE DEF c
  <2> QED BY <1>1, HeadMoves
<1>3. r.chain = Tail(c) /\ r.count = s.count - 1 /\ DOMAIN r = StackFields
  BY DEF popStack, StackFields
<1> HIDE DEF c, r, h
<1>4. Staged(h, r, lines, kept, whole)
  BY <1>2, <1>3 DEF Staged, c
<1>5. \E l \in ToSet(lines) : From(Head(c), l)
  BY <1>2 DEF Staged, c
<1> QED BY <1>2, <1>4, <1>5 DEF peekStack, c, h, r

LEMMA StagedPushed ==
  ASSUME NEW t, NEW s, NEW lines, NEW kept, NEW whole, Staged(t, s, lines, kept, whole),
         s.count = 0, NEW u, NEW l, From(u, l), Whole(u, l)
  PROVE  Staged(t, pushStack(s, u), lines \o <<l>>, kept, whole)
<1> DEFINE r == pushStack(s, u)
           more == lines \o <<l>>
<1>1. IsSequence(t) /\ IsSequence(s.chain) /\ IsSequence(lines) /\ DOMAIN s = StackFields
  BY DEF Staged
<1>2. /\ IsSequence(more) /\ ToSet(more) = ToSet(lines) \cup {l}
  BY <1>1, OneIs, ConcatIs
<1>3. CASE s.chain = <<>>
  <2>1. r = fifoPush(s, u)
    BY <1>3 DEF pushStack
  <2>2. r.chain = <<>> \o <<u>> /\ r.count = 1 /\ DOMAIN r = StackFields
    BY <2>1, <1>3 DEF fifoPush, StackFields
  <2>3. r.chain = <<u>>
    BY <2>2, OneIs, ConcatNone
  <2> HIDE DEF r, more
  <2>4. IsSequence(r.chain) /\ ToSet(r.chain) = {u} /\ r.count = Len(r.chain)
    BY <2>2, <2>3, OneIs
  <2>5. ASSUME kept PROVE Matches(t \o r.chain, more, whole)
    <3>1. t \o s.chain = t
      BY <1>1, <1>3, ConcatNone
    <3>2. Matches(t, lines, whole) /\ Matches(<<u>>, <<l>>, whole)
      BY <2>5, <3>1, MatchOne DEF Staged
    <3> QED BY <3>2, <2>3, MatchConcat DEF more
  <2> QED BY <1>1, <1>2, <2>2, <2>4, <2>5 DEF Staged, r, more
<1>4. CASE s.chain # <<>>
  <2>1. r.chain = <<u>> \o s.chain /\ DOMAIN r = StackFields
    BY <1>1, <1>4 DEF pushStack, StackFields
  <2> HIDE DEF r, more
  <2>2. IsSequence(r.chain) /\ ToSet(r.chain) = {u} \cup ToSet(s.chain)
    BY <1>1, <2>1, OneIs, ConcatIs
  <2>3. ~kept
    <3>1. Len(s.chain) # 0
      BY <1>1, <1>4, SequenceIs, EmptySeq
    <3> QED BY <3>1 DEF Staged
  <2> QED BY <1>1, <1>2, <2>1, <2>2, <2>3 DEF Staged, r, more
<1> QED BY <1>3, <1>4

-----------------------------------------------------------------------------
(* The lines a run was given                                               *)

LEMMA GivenSame ==
  ASSUME UNCHANGED <<argv, files, count>>
  PROVE  /\ ParamLines' = ParamLines /\ OwnLines' = OwnLines /\ GlobalLines' = GlobalLines
         /\ TailKept' = TailKept /\ HelpAsked(argv)' = HelpAsked(argv)
         /\ stdin' = stdin => Scripted' = Scripted
BY DEF ParamLines, OwnLines, GlobalLines, TailKept, File, FileNamed, Scripted, InputLines

LEMMA LineOfIs ==
  ASSUME NEW o
  PROVE  LineOf(o) \in Seq({o.val})
<1>1. <<>> \in Seq({o.val}) /\ <<o.val>> \in Seq({o.val})
  OBVIOUS
<1>2. LineOf(o) = <<>> \/ LineOf(o) = <<o.val>>
  BY DEF LineOf
<1> QED BY <1>1, <1>2

LEMMA LinesUpToIs ==
  ASSUME Structure, NEW n \in Nat, n <= Len(argv)
  PROVE  /\ IsSequence(LinesUpTo(n))
         /\ n = 0 => LinesUpTo(n) = <<>>
         /\ n > 0 => LinesUpTo(n) = LinesUpTo(n - 1) \o LineOf(argv[n])
<1> DEFINE S == {argv[i].val : i \in 1..n}
           parts == [i \in 1..n |-> LineOf(argv[i])]
<1>1. parts \in [1..n -> Seq(S)]
  <2>1. ASSUME NEW i \in 1..n PROVE LineOf(argv[i]) \in Seq(S)
    <3>1. LineOf(argv[i]) \in Seq({argv[i].val}) /\ {argv[i].val} \subseteq S
      BY LineOfIs
    <3> QED BY <3>1 DEF LineOf
  <2> QED BY <2>1
<1>2. /\ FlattenSeq(parts) \in Seq(S)
      /\ n = 0 => FlattenSeq(parts) = <<>>
      /\ n > 0 => FlattenSeq(parts) = FlattenSeq([i \in 1..(n - 1) |-> parts[i]]) \o parts[n]
  <2> HIDE DEF parts
  <2> QED BY <1>1, FlattenIs
<1>3. IsSequence(FlattenSeq(parts))
  BY <1>2, SeqIs
<1>4. n > 0 => [i \in 1..(n - 1) |-> parts[i]] = [i \in 1..(n - 1) |-> LineOf(argv[i])]
  OBVIOUS
<1>5. n > 0 => parts[n] = LineOf(argv[n])
  OBVIOUS
<1> QED BY <1>2, <1>3, <1>4, <1>5 DEF LinesUpTo

LEMMA ParamLinesAre ==
  ASSUME Structure
  PROVE  ParamLines = LinesUpTo(Len(argv)) /\ IsSequence(ParamLines) /\ Len(argv) \in Nat
<1>1. Len(argv) \in Nat /\ DOMAIN argv = 1..Len(argv)
  BY SequenceIs DEF Structure
<1>2. IsSequence(LinesUpTo(Len(argv)))
  BY <1>1, LinesUpToIs
<1> QED BY <1>1, <1>2 DEF ParamLines, LinesUpTo

(* The input up to a line.                                                 *)
InputUpTo(n) == FlattenSeq([i \in 1..n |-> Usable(StdinLines[i])])

LEMMA InputUpToIs ==
  ASSUME NEW n \in 0..Len(StdinLines)
  PROVE  /\ IsSequence(InputUpTo(n))
         /\ n = 0 => InputUpTo(n) = <<>>
         /\ n > 0 => InputUpTo(n) = InputUpTo(n - 1) \o Usable(StdinLines[n])
<1> DEFINE S == {StdinLines[i] : i \in 1..n}
           parts == [i \in 1..n |-> Usable(StdinLines[i])]
<1>1. parts \in [1..n -> Seq(S)]
  <2>1. ASSUME NEW i \in 1..n PROVE Usable(StdinLines[i]) \in Seq(S)
    <3>1. <<>> \in Seq(S) /\ <<StdinLines[i]>> \in Seq(S)
      OBVIOUS
    <3>2. Usable(StdinLines[i]) = <<>> \/ Usable(StdinLines[i]) = <<StdinLines[i]>>
      BY DEF Usable
    <3> QED BY <3>1, <3>2
  <2> QED BY <2>1
<1>2. /\ FlattenSeq(parts) \in Seq(S)
      /\ n = 0 => FlattenSeq(parts) = <<>>
      /\ n > 0 => FlattenSeq(parts) = FlattenSeq([i \in 1..(n - 1) |-> parts[i]]) \o parts[n]
  <2>1. n \in Nat
    BY Inputs, SequenceIs DEF Inputs
  <2> HIDE DEF parts
  <2> QED BY <1>1, <2>1, FlattenIs
<1>3. IsSequence(FlattenSeq(parts))
  BY <1>2, SeqIs
<1>4. n > 0 => [i \in 1..(n - 1) |-> parts[i]] = [i \in 1..(n - 1) |-> Usable(StdinLines[i])]
  BY Inputs, SequenceIs DEF Inputs
<1>5. n > 0 => parts[n] = Usable(StdinLines[n])
  OBVIOUS
<1> QED BY <1>2, <1>3, <1>4, <1>5 DEF InputUpTo

LEMMA InputLinesAre ==
  ASSUME Structure
  PROVE  /\ InputLines = InputUpTo(stdin) /\ IsSequence(InputLines)
         /\ stdin = 0 => InputLines = <<>>
<1>1. InputLines = InputUpTo(stdin) /\ stdin \in 0..Len(StdinLines)
  BY DEF InputLines, InputUpTo, Structure
<1> QED BY <1>1, InputUpToIs

LEMMA StackSet ==
  ASSUME Structure, NEW s, DOMAIN s = StackFields, SetStack(s)
  PROVE  /\ 1 \in DOMAIN sessions' /\ SessionTyped(sessions'[1])
         /\ Stack1' = s /\ First.conf' = First.conf
<1>1. DOMAIN sessions' = DOMAIN sessions /\ 1 \in DOMAIN sessions
  BY DEF Structure, SetStack
<1>2. sessions'[1] = [sessions[1] EXCEPT !.updates = s]
  BY <1>1 DEF SetStack
<1>3. SessionTyped(sessions[1])
  BY DEF Structure
<1>4. SessionTyped(sessions'[1]) /\ sessions'[1].updates = s /\ sessions'[1].conf = sessions[1].conf
  BY <1>2, <1>3 DEF SessionTyped
<1> QED BY <1>1, <1>4 DEF Stack1, First

LEMMA RefillIs ==
  ASSUME Structure, OnStage, NEW read \in BOOLEAN, MayRead(read), StdinRead(read),
         UNCHANGED <<argv, files, count>>
  PROVE  /\ Staged(taken, Refilled(read), Scripted', TailKept, count = 1)
         /\ stdin' \in 0..Len(StdinLines)
         /\ ToSet(Scripted) \subseteq ToSet(Scripted')
<1>1. Staged(taken, Stack1, Scripted, TailKept, count = 1)
  BY DEF OnStage
<1>2. ParamLines' = ParamLines /\ OwnLines' = OwnLines /\ GlobalLines' = GlobalLines
  BY GivenSame
<1>3. CASE ~read
  <2>1. Refilled(read) = Stack1 /\ stdin' = stdin
    BY <1>3 DEF Refilled, StdinRead
  <2>2. Scripted' = Scripted
    BY <2>1, GivenSame
  <2> QED BY <1>1, <2>1, <2>2 DEF Structure
<1>4. CASE read
  <2>1. Stack1.count = 0 /\ stdin < Len(StdinLines) /\ stdin' = stdin + 1 /\ stdin \in 0..Len(StdinLines)
    BY <1>4 DEF MayRead, StdinRead, isStackEmpty, Structure
  <2>2. Len(StdinLines) \in Nat
    BY Inputs, SequenceIs DEF Inputs
  <2>3. stdin' \in 0..Len(StdinLines) /\ stdin' > 0 /\ stdin' - 1 = stdin
    BY <2>1, <2>2
  <2> DEFINE front == (ParamLines \o OwnLines) \o GlobalLines
             used == Usable(NextLine)
  <2>4. InputLines' = InputLines \o used /\ IsSequence(InputLines)
    <3>1. InputLines' = InputUpTo(stdin')
      BY DEF InputLines, InputUpTo
    <3>2. InputLines = InputUpTo(stdin)
      BY DEF InputLines, InputUpTo
    <3>3. InputUpTo(stdin') = InputUpTo(stdin) \o Usable(StdinLines[stdin'])
      BY <2>3, InputUpToIs
    <3> QED BY <3>1, <3>2, <3>3, <2>1, InputUpToIs DEF NextLine
  <2>5. IsSequence(front)
    BY ParamLinesAre, ConcatIs DEF OnStage
  <2>6. IsSequence(used)
    BY EmptyIs, OneIs DEF Usable
  <2>7. Scripted = front \o InputLines /\ Scripted' = front \o InputLines'
    BY <1>2 DEF Scripted
  <2> HIDE DEF front
  <2>8. Scripted' = Scripted \o used
    BY <2>4, <2>5, <2>6, <2>7, ConcatAgain
  <2>9. IsSequence(Scripted)
    BY <1>1 DEF Staged
  <2>10. ToSet(Scripted) \subseteq ToSet(Scripted')
    BY <2>6, <2>8, <2>9, ConcatIs
  <2>11. CASE Incomplete(NextLine) \/ Wrong(NextLine)
    <3>1. Refilled(read) = Stack1 /\ used = <<>>
      BY <2>11 DEF Refilled, Usable
    <3>2. Scripted' = Scripted
      BY <2>8, <2>9, <3>1, ConcatNone
    <3> QED BY <1>1, <2>3, <2>10, <3>1, <3>2
  <2>12. CASE ~(Incomplete(NextLine) \/ Wrong(NextLine))
    <3> DEFINE u == createUpdate(NextLine, params.disable_bgpsec)
    <3>1. Refilled(read) = pushStack(Stack1, u) /\ used = <<NextLine>>
      BY <1>4, <2>1, <2>12 DEF Refilled, Usable, isStackEmpty
    <3>2. From(u, NextLine) /\ Whole(u, NextLine)
      BY CreatedFrom
    <3> HIDE DEF u, used
    <3>3. Staged(taken, pushStack(Stack1, u), Scripted \o <<NextLine>>, TailKept, count = 1)
      BY <1>1, <2>1, <3>2, StagedPushed
    <3> QED BY <2>3, <2>8, <2>10, <3>1, <3>3
  <2> QED BY <2>11, <2>12
<1> QED BY <1>3, <1>4

(* What a question for an update, or the end of the updates, leaves.       *)
LEMMA StageRefilled ==
  ASSUME Structure, OnStage, NEW read \in BOOLEAN, MayRead(read), StdinRead(read),
         UNCHANGED <<argv, files, count, taken>>, SetStack(Refilled(read))
  PROVE  /\ OnStage' /\ First.conf' = First.conf
         /\ 1 \in DOMAIN sessions' /\ SessionTyped(sessions'[1])
         /\ stdin' \in 0..Len(StdinLines)
         /\ ToSet(Scripted) \subseteq ToSet(Scripted')
<1>1. /\ Staged(taken, Refilled(read), Scripted', TailKept, count = 1)
      /\ stdin' \in 0..Len(StdinLines) /\ ToSet(Scripted) \subseteq ToSet(Scripted')
  BY RefillIs
<1>2. /\ 1 \in DOMAIN sessions' /\ SessionTyped(sessions'[1])
      /\ Stack1' = Refilled(read) /\ First.conf' = First.conf
  BY <1>1, StackSet DEF Staged
<1>3. OnStage'
  BY <1>1, <1>2, GivenSame DEF OnStage
<1> QED BY <1>1, <1>2, <1>3

LEMMA TakeIs ==
  ASSUME Structure, OnStage, NEW read \in BOOLEAN, Take(read),
         UNCHANGED <<argv, files, count>>
  PROVE  /\ First.conf' = First.conf
         /\ 1 \in DOMAIN sessions' /\ SessionTyped(sessions'[1])
         /\ stdin' \in 0..Len(StdinLines)
         /\ ToSet(Scripted) \subseteq ToSet(Scripted')
         /\ \/ pc' = "fault" /\ ~TailKept
            \/ pc' = pc /\ OnStage' /\ \E l \in ToSet(Scripted') : From(Last(taken'), l)
<1> DEFINE s == Refilled(read)
<1>1. /\ Staged(taken, s, Scripted', TailKept, count = 1)
      /\ stdin' \in 0..Len(StdinLines) /\ ToSet(Scripted) \subseteq ToSet(Scripted')
  BY RefillIs DEF Take
<1>2. s.count # 0
  BY DEF Take, isStackEmpty
<1> HIDE DEF s
<1>3. CASE HeadMissing(s)
  <2>1. pc' = "fault" /\ sessions' = sessions
    BY <1>3 DEF Take, s
  <2>2. ~TailKept
    BY <1>1, <1>3, EmptyIs DEF Staged, HeadMissing
  <2>3. First.conf' = First.conf
    BY <2>1 DEF First
  <2> QED BY <1>1, <2>1, <2>2, <2>3 DEF Structure
<1>4. CASE ~HeadMissing(s)
  <2>1. /\ SetStack(popStack(s)) /\ taken' = Append(taken, peekStack(s)) /\ pc' = pc
    BY <1>4 DEF Take, s
  <2>2. s.chain # <<>>
    BY <1>2, <1>4 DEF HeadMissing
  <2>3. /\ Staged(taken', popStack(s), Scripted', TailKept, count = 1)
        /\ Last(taken') = peekStack(s) /\ \E l \in ToSet(Scripted') : From(peekStack(s), l)
    BY <1>1, <2>1, <2>2, StagedTaken
  <2>4. /\ 1 \in DOMAIN sessions' /\ SessionTyped(sessions'[1])
        /\ Stack1' = popStack(s) /\ First.conf' = First.conf
    BY <2>1, <2>3, StackSet DEF Staged
  <2>5. OnStage'
    BY <2>3, <2>4, GivenSame DEF OnStage
  <2> QED BY <1>1, <2>1, <2>3, <2>4, <2>5
<1> QED BY <1>3, <1>4

LEMMA StageSame ==
  ASSUME OnStage, UNCHANGED <<argv, files, count, stdin, taken, sessions>>
  PROVE  OnStage'
<1>1. Scripted' = Scripted /\ TailKept' = TailKept /\ OwnLines' = OwnLines /\ GlobalLines' = GlobalLines
  BY GivenSame
<1>2. Stack1' = Stack1
  BY DEF Stack1, First
<1> QED BY <1>1, <1>2 DEF OnStage

(* What may be said of a message when BGPsec is off, and of which line.    *)
Lawful(m, off, lines, capi) ==
  m.kind = "bgpsec" \/ (m.kind = "validated" /\ capi) =>
    ~off /\ \E l \in ToSet(lines) : l.id = m.id /\ ~BGP4Asked(l) /\ ~AsSet(l)

LEMMA SentLawful ==
  NoBgpsecWhenOff <=> \A m \in ToSet(sent) : Lawful(m, params.disable_bgpsec, Scripted, pc = "capi")
BY DEF NoBgpsecWhenOff, Lawful

LEMMA StaysLawful ==
  ASSUME NEW m, NEW off, NEW lines, NEW capi, Lawful(m, off, lines, capi),
         NEW more, ToSet(lines) \subseteq ToSet(more), NEW capi2, capi2 => capi
  PROVE  Lawful(m, off, more, capi2)
BY DEF Lawful

LEMMA SentSame ==
  ASSUME NoBgpsecWhenOff, sent' = sent, params.disable_bgpsec' = params.disable_bgpsec,
         ToSet(Scripted) \subseteq ToSet(Scripted'), pc' = "capi" => pc = "capi"
  PROVE  NoBgpsecWhenOff'
<1>1. \A m \in ToSet(sent) : Lawful(m, params.disable_bgpsec, Scripted, pc = "capi")
  BY SentLawful
<1>2. \A m \in ToSet(sent') : Lawful(m, params.disable_bgpsec', Scripted', pc' = "capi")
  BY <1>1, StaysLawful
<1>3. NoBgpsecWhenOff' <=>
        \A m \in ToSet(sent') : Lawful(m, params.disable_bgpsec', Scripted', pc' = "capi")
  BY DEF NoBgpsecWhenOff, Lawful
<1> QED BY <1>2, <1>3

LEMMA SentOneMore ==
  ASSUME NoBgpsecWhenOff, IsSequence(sent), NEW m, sent' = Append(sent, m),
         params.disable_bgpsec' = params.disable_bgpsec,
         ToSet(Scripted) \subseteq ToSet(Scripted'), pc' = "capi" => pc = "capi",
         Lawful(m, params.disable_bgpsec, Scripted', pc' = "capi")
  PROVE  NoBgpsecWhenOff' /\ IsSequence(sent')
<1>1. \A k \in ToSet(sent) : Lawful(k, params.disable_bgpsec, Scripted, pc = "capi")
  BY SentLawful
<1>2. sent' = sent \o <<m>>
  <2>1. sent \in Seq(ToSet(sent) \cup {m})
    BY Widened
  <2> QED BY <2>1
<1>3. ToSet(sent') = ToSet(sent) \cup {m} /\ IsSequence(sent')
  BY <1>2, OneIs, ConcatIs
<1>4. \A k \in ToSet(sent') : Lawful(k, params.disable_bgpsec', Scripted', pc' = "capi")
  BY <1>1, <1>3, StaysLawful
<1>5. NoBgpsecWhenOff' <=>
        \A k \in ToSet(sent') : Lawful(k, params.disable_bgpsec', Scripted', pc' = "capi")
  BY DEF NoBgpsecWhenOff, Lawful
<1> QED BY <1>3, <1>4, <1>5

LEMMA NothingSent ==
  ASSUME sent' = <<>>
  PROVE  NoBgpsecWhenOff'
BY EmptyIs DEF NoBgpsecWhenOff

-----------------------------------------------------------------------------
(* The invariant holds                                                     *)

LEMMA BrioInit ==
  ASSUME Init
  PROVE  BrioInv
<1>1. IsSequence(<<>>) /\ ToSet(<<>>) = {}
  BY EmptyIs
<1>2. DOMAIN initStack = StackFields /\ SessionTyped(NewSession)
  BY InitStackIs, NewSessionIs
<1>3. DOMAIN sessions = 1..1 /\ sessions[1] = NewSession
  BY DEF Init
<1>4. Len(StdinLines) \in Nat
  BY Inputs, SequenceIs DEF Inputs
<1>5. \A name \in DOMAIN files : InOrder(files[name])
  BY Inputs DEF Inputs, Init
<1>6. DOMAIN data = {}
  BY DEF Init
<1>7. Structure
  BY <1>1, <1>2, <1>3, <1>4, <1>5, <1>6 DEF Init, Structure, Places
<1>8. Preparing
  BY DEF Init, Preparing, NothingDone, NothingPlayed, Playing
<1>9. PlayingOn /\ Generated
  BY DEF Init, PlayingOn, Generated, Playing
<1>10. NoBgpsecWhenOff
  BY <1>1 DEF Init, NoBgpsecWhenOff
<1> QED BY <1>7, <1>8, <1>9, <1>10 DEF BrioInv

(* From where the program plays, it goes on or to its end.                 *)
LEMMA PlayedOut ==
  ASSUME PlayingOn, pc \in Playing, UNCHANGED params.create,
         pc' \in {"capi", "records", "gen", "bgp", "release", "fault"}
  PROVE  Preparing' /\ Generated' /\ (pc' \in Playing \cup {"fault"} => params.create' = Nothing)
<1>1. params.create = Nothing
  BY DEF PlayingOn
<1>2. params.create' = Nothing
  BY <1>1
<1>3. Preparing'
  BY DEF Preparing, Playing
<1>4. Generated'
  BY <1>2 DEF Generated
<1> QED BY <1>2, <1>3, <1>4

LEMMA BgpOnlyKeeps ==
  ASSUME BrioInv, pc = "bgp", BgpOnly, BgpTyped', params.disable_bgpsec => bgp'.negotiated = {}
  PROVE  BrioInv'
<1> USE DEF BgpOnly, BgpStep, disk
<1>1. Structure'
  BY DEF BrioInv, Structure
<1>2. Preparing' /\ Generated'
  BY DEF Preparing, Generated, Playing
<1>3. pc \in Playing /\ count # 0 /\ OnStage /\ SwitchedOff /\ params.create = Nothing /\ params.mode = "BGP"
  BY DEF BrioInv, PlayingOn, Playing
<1>4. OnStage'
  BY <1>3, StageSame
<1>5. SwitchedOff'
  BY <1>3 DEF SwitchedOff, First
<1>6. PlayingOn'
  BY <1>3, <1>4, <1>5 DEF PlayingOn, Playing
<1>7. NoBgpsecWhenOff'
  BY SentSame, GivenSame DEF BrioInv
<1> QED BY <1>1, <1>2, <1>6, <1>7 DEF BrioInv

LEMMA SessionSteps ==
  ASSUME BrioInv,
         \/ \E caps \in PeerCaps : Established(caps)
         \/ \E goOn \in BOOLEAN : Lost(goOn)
         \/ EnterSending \/ LeaveSending
  PROVE  BrioInv'
<1>1. pc = "bgp" /\ BgpOnly
  BY DEF Established, Lost, EnterSending, LeaveSending
<1>2. BgpTyped /\ SwitchedOff /\ count # 0
  BY <1>1 DEF BrioInv, PlayingOn, Playing
<1>3. bgp.pos \in Nat \ {0} /\ data' = data /\ params' = params
  BY <1>1, <1>2 DEF BgpTyped, BgpOnly, BgpStep, disk
<1>4. ASSUME NEW caps \in PeerCaps, Established(caps)
      PROVE  BgpTyped' /\ bgp'.negotiated = bgp.negotiated
  BY <1>2, <1>3, <1>4 DEF BgpTyped, BgpFields, Established
<1>5. ASSUME NEW goOn \in BOOLEAN, Lost(goOn)
      PROVE  BgpTyped' /\ bgp'.negotiated = bgp.negotiated
  BY <1>2, <1>3, <1>5 DEF BgpTyped, BgpFields, Lost
<1>6. ASSUME LeaveSending
      PROVE  BgpTyped' /\ bgp'.negotiated = {}
  BY <1>2, <1>3, <1>6 DEF BgpTyped, BgpFields, LeaveSending
<1>7. ASSUME EnterSending
      PROVE  BgpTyped' /\ (params.disable_bgpsec => bgp'.negotiated = {})
  <2> DEFINE snd(v) == First.conf[IF v = "v4" THEN "bgpsec_v4_snd" ELSE "bgpsec_v6_snd"]
  <2>1. bgp' = [bgp EXCEPT !.sending = TRUE, !.negotiated = {v \in bgp.peerCaps : snd(v)}]
    BY <1>7 DEF EnterSending
  <2>2. params.disable_bgpsec => \A v : ~snd(v)
    BY <1>2 DEF SwitchedOff
  <2>3. params.disable_bgpsec => {v \in bgp.peerCaps : snd(v)} = {}
    BY <2>2
  <2> HIDE DEF snd
  <2> QED BY <1>2, <1>3, <2>1, <2>3 DEF BgpTyped, BgpFields
<1>8. BgpTyped' /\ (params.disable_bgpsec => bgp'.negotiated = {})
  BY <1>1, <1>2, <1>4, <1>5, <1>6, <1>7 DEF SwitchedOff
<1> QED BY <1>1, <1>8, BgpOnlyKeeps

LEMMA CountedDown ==
  ASSUME Structure, CountDown
  PROVE  /\ DOMAIN params' = DOMAIN initParams
         /\ UNCHANGED <<params.create, params.disable_bgpsec, params.mode, params.bin>>
<1>1. DOMAIN params = DOMAIN initParams
  BY DEF Structure
<1>2. {"create", "disable_bgpsec", "mode", "bin", "max"} \subseteq DOMAIN initParams
  BY DEF initParams
<1> HIDE DEF initParams
<1> QED BY <1>1, <1>2 DEF CountDown

(* One update was taken.                                                   *)
LEMMA AfterTake ==
  ASSUME BrioInv, pc \in {"capi", "gen", "bgp"}, NEW read \in BOOLEAN, Take(read), CountDown,
         UNCHANGED <<argv, idx, count, paramUpdates, files>>,
         \A f \in DOMAIN data' : IsSequence(data'[f]), IsSequence(sent'), NoBgpsecWhenOff',
         pc = "bgp" => BgpTyped' /\ bgp'.negotiated = bgp.negotiated
  PROVE  BrioInv'
<1>1. Structure /\ OnStage /\ count # 0 /\ SwitchedOff /\ PlayingOn
  BY DEF BrioInv, PlayingOn, Playing
<1>2. /\ First.conf' = First.conf
      /\ 1 \in DOMAIN sessions' /\ SessionTyped(sessions'[1])
      /\ stdin' \in 0..Len(StdinLines)
      /\ \/ pc' = "fault" /\ ~TailKept
         \/ pc' = pc /\ OnStage'
  BY <1>1, TakeIs
<1>3. /\ DOMAIN params' = DOMAIN initParams
      /\ UNCHANGED <<params.create, params.disable_bgpsec, params.mode, params.bin>>
  BY <1>1, CountedDown
<1>4. pc' \in {"capi", "gen", "bgp", "fault"}
  BY <1>2
<1>5. Structure'
  BY <1>1, <1>2, <1>3, <1>4 DEF Structure, Places, Playing
<1>6. Preparing' /\ Generated' /\ params.create' = Nothing
  BY <1>1, <1>3, <1>4, PlayedOut DEF Playing
<1>7. pc' # "fault" => SwitchedOff'
  BY <1>1, <1>2, <1>3 DEF SwitchedOff
<1>8. pc' = "fault" => ~TailKept'
  BY <1>2, GivenSame
<1>9. PlayingOn'
  <2>1. CASE pc' = "fault"
    BY <1>6, <1>8, <2>1 DEF PlayingOn, Playing
  <2>2. CASE pc' = pc /\ OnStage'
    <3>1. pc # "fault" /\ SwitchedOff'
      BY <1>7, <2>2
    <3> QED BY <1>1, <1>3, <1>6, <2>2, <3>1 DEF PlayingOn, Playing
  <2> QED BY <1>2, <2>1, <2>2
<1> QED BY <1>5, <1>6, <1>9 DEF BrioInv

(* An update that is not for BGP-4 comes from a line that is not.          *)
LEMMA SignedIsLawful ==
  ASSUME NEW u, NEW lines, \E l \in ToSet(lines) : From(u, l), ~u.bgp4,
         NEW off, ~off, NEW m, m.id = u.id, NEW capi
  PROVE  Lawful(m, off, lines, capi)
BY DEF Lawful, From

LEMMA CapiUpdateKeeps ==
  ASSUME BrioInv, NEW read \in BOOLEAN, NEW made \in BOOLEAN, CapiUpdate(read, made)
  PROVE  BrioInv'
<1>1. /\ pc = "capi" /\ Take(read) /\ CountDown
      /\ UNCHANGED <<argv, idx, count, paramUpdates, files, data>>
  BY DEF CapiUpdate, disk
<1>2. Structure /\ OnStage /\ SwitchedOff /\ params.mode = "CAPI" /\ NoBgpsecWhenOff
  BY <1>1 DEF BrioInv, PlayingOn, Playing
<1>3. /\ ToSet(Scripted) \subseteq ToSet(Scripted')
      /\ \/ pc' = "fault"
         \/ pc' = pc /\ \E l \in ToSet(Scripted') : From(Last(taken'), l)
  BY <1>1, <1>2, TakeIs
<1>4. ~params.disable_bgpsec /\ params.disable_bgpsec' = params.disable_bgpsec
  BY <1>1, <1>2, CountedDown DEF SwitchedOff
<1>5. NoBgpsecWhenOff' /\ IsSequence(sent')
  <2>1. CASE sent' = sent
    BY <1>1, <1>2, <1>3, <1>4, <2>1, SentSame DEF Structure
  <2>2. CASE sent' # sent
    <3> DEFINE u == Last(taken')
               m == [kind |-> "validated", id |-> u.id]
    <3>1. sent' = Append(sent, m) /\ pc' # "fault" /\ ~u.bgp4
      BY <2>2 DEF CapiUpdate
    <3>2. m.id = u.id
      OBVIOUS
    <3> HIDE DEF m
    <3>3. \E l \in ToSet(Scripted') : From(u, l)
      BY <1>3, <3>1
    <3> HIDE DEF u
    <3>4. Lawful(m, params.disable_bgpsec, Scripted', pc' = "capi")
      BY <1>4, <3>1, <3>2, <3>3, SignedIsLawful
    <3> QED BY <1>1, <1>2, <1>3, <1>4, <3>1, <3>4, SentOneMore DEF Structure
  <2> QED BY <2>1, <2>2
<1> QED BY <1>1, <1>2, <1>5, AfterTake DEF Structure

LEMMA GenUpdateKeeps ==
  ASSUME BrioInv, NEW read \in BOOLEAN, NEW made \in BOOLEAN, GenUpdate(read, made)
  PROVE  BrioInv'
<1>1. /\ pc = "gen" /\ Take(read) /\ CountDown
      /\ UNCHANGED <<argv, idx, count, paramUpdates, files, sent>>
  BY DEF GenUpdate
<1>2. Structure /\ OnStage /\ NoBgpsecWhenOff
  BY <1>1 DEF BrioInv, PlayingOn, Playing
<1>3. /\ ToSet(Scripted) \subseteq ToSet(Scripted')
      /\ pc' = "fault" \/ pc' = pc
  BY <1>1, <1>2, TakeIs
<1>4. params.disable_bgpsec' = params.disable_bgpsec
  BY <1>1, <1>2, CountedDown
<1>5. NoBgpsecWhenOff' /\ IsSequence(sent')
  BY <1>1, <1>2, <1>3, <1>4, SentSame DEF Structure
<1>6. \A f \in DOMAIN data' : IsSequence(data'[f])
  <2>1. CASE data' = data
    BY <1>2, <2>1 DEF Structure
  <2>2. CASE data' # data
    <3>1. PICK r : data' = [data EXCEPT ![params.out] = Append(@, r)]
      BY <2>2 DEF GenUpdate, storeData
    <3> SUFFICES ASSUME NEW f \in DOMAIN data PROVE IsSequence(data'[f])
      BY <3>1
    <3> DEFINE d == data[f]
    <3>2. IsSequence(d)
      BY <1>2 DEF Structure
    <3> HIDE DEF d
    <3>3. d \in Seq(ToSet(d) \cup {r})
      BY <3>2, Widened
    <3>4. Append(d, r) \in Seq(ToSet(d) \cup {r})
      BY <3>3
    <3>5. IsSequence(Append(d, r))
      BY <3>4, SeqIs
    <3> QED BY <3>1, <3>2, <3>5 DEF d
  <2> QED BY <2>1, <2>2
<1> QED BY <1>1, <1>5, <1>6, AfterTake

LEMMA SendUpdateKeeps ==
  ASSUME BrioInv, NEW read \in BOOLEAN, NEW made \in BOOLEAN, SendUpdate(read, made)
  PROVE  BrioInv'
<1>1. /\ pc = "bgp" /\ Take(read) /\ CountDown
      /\ UNCHANGED <<argv, idx, count, paramUpdates, files, data>>
      /\ bgp' = [bgp EXCEPT !.sendData = params'.max # 0]
  BY DEF SendUpdate, Sending, BgpStep, disk
<1>2. Structure /\ OnStage /\ SwitchedOff /\ NoBgpsecWhenOff /\ BgpTyped
  BY <1>1 DEF BrioInv, PlayingOn, Playing
<1>3. /\ ToSet(Scripted) \subseteq ToSet(Scripted')
      /\ \/ pc' = "fault"
         \/ pc' = pc /\ \E l \in ToSet(Scripted') : From(Last(taken'), l)
  BY <1>1, <1>2, TakeIs
<1>4. params.disable_bgpsec' = params.disable_bgpsec /\ params.bin' = params.bin
  BY <1>1, <1>2, CountedDown
<1>5. BgpTyped' /\ bgp'.negotiated = bgp.negotiated
  BY <1>1, <1>2, <1>4 DEF BgpTyped, BgpFields
<1>6. NoBgpsecWhenOff' /\ IsSequence(sent')
  <2>1. CASE sent' = sent
    BY <1>1, <1>2, <1>3, <1>4, <2>1, SentSame DEF Structure
  <2>2. CASE sent' # sent
    <3> DEFINE u == Last(taken')
               m == [kind |-> Kind(u, made), id |-> u.id]
    <3>1. sent' = Append(sent, m) /\ pc' # "fault"
      BY <2>2 DEF SendUpdate
    <3>2. pc' = pc /\ \E l \in ToSet(Scripted') : From(u, l)
      BY <1>3, <3>1
    <3>3. made => u.afi \in bgp.negotiated /\ ~u.bgp4
      BY <3>2 DEF SendUpdate, DoBGPSEC
    <3>4. m.id = u.id /\ m.kind \in {"bgpsec", "bgp4", "dropped"} /\ (m.kind = "bgpsec" => made)
      BY DEF Kind
    <3> HIDE DEF m, u
    <3>5. Lawful(m, params.disable_bgpsec, Scripted', pc' = "capi")
      <4>1. CASE ~made
        BY <3>4, <4>1 DEF Lawful
      <4>2. CASE made
        <5>1. ~params.disable_bgpsec
          BY <1>1, <1>2, <3>3, <4>2 DEF SwitchedOff
        <5> QED BY <3>2, <3>3, <3>4, <4>2, <5>1, SignedIsLawful
      <4> QED BY <4>1, <4>2
    <3> QED BY <1>1, <1>2, <1>3, <1>4, <3>1, <3>5, SentOneMore DEF Structure
  <2> QED BY <2>1, <2>2
<1> QED BY <1>1, <1>2, <1>5, <1>6, AfterTake DEF Structure

(* A step on which the settings and what was given stay as they are.       *)
LEMMA PlaysOn ==
  ASSUME BrioInv, pc \in Playing, count # 0, UNCHANGED <<argv, idx, count, paramUpdates, files>>,
         First.conf' = First.conf,
         1 \in DOMAIN sessions', SessionTyped(sessions'[1]),
         stdin' \in 0..Len(StdinLines), OnStage',
         DOMAIN params' = DOMAIN initParams,
         UNCHANGED <<params.create, params.disable_bgpsec, params.mode, params.bin>>,
         \A f \in DOMAIN data' : IsSequence(data'[f]), IsSequence(sent'), NoBgpsecWhenOff',
         pc' \in {"capi", "records", "gen", "session", "bgp", "release"},
         pc' = "session" => NothingPlayed', pc' = "capi" => params.mode = "CAPI",
         pc' \in {"session", "bgp"} => params.mode = "BGP",
         pc' = "bgp" => BgpTyped' /\ (params.disable_bgpsec => bgp'.negotiated = {})
  PROVE  BrioInv'
<1>1. Structure /\ SwitchedOff /\ params.create = Nothing
  BY DEF BrioInv, PlayingOn
<1>2. Structure'
  BY <1>1 DEF Structure, Places, Playing
<1>3. params.create' = Nothing
  BY <1>1
<1>4. Preparing' /\ Generated'
  BY <1>3 DEF Preparing, Generated, Playing
<1>5. SwitchedOff'
  BY <1>1 DEF SwitchedOff
<1>6. PlayingOn'
  BY <1>3, <1>5 DEF PlayingOn, Playing
<1> QED BY <1>2, <1>4, <1>6 DEF BrioInv

(* The same after a question for an update that may have read a line.      *)
LEMMA AfterQuestion ==
  ASSUME BrioInv, pc \in Playing, count # 0, NEW read \in BOOLEAN, MayRead(read), StdinRead(read),
         SetStack(Refilled(read)),
         UNCHANGED <<argv, idx, params, count, paramUpdates, files, data, taken, sent>>,
         pc' \in {"capi", "records", "session", "bgp", "release"},
         pc' = "session" => NothingPlayed', pc' = "capi" => params.mode = "CAPI" /\ sent = <<>>,
         pc' \in {"session", "bgp"} => params.mode = "BGP",
         pc' = "bgp" => BgpTyped' /\ (params.disable_bgpsec => bgp'.negotiated = {})
  PROVE  BrioInv'
<1>1. Structure /\ OnStage /\ NoBgpsecWhenOff
  BY DEF BrioInv, PlayingOn
<1>2. /\ OnStage' /\ First.conf' = First.conf
      /\ 1 \in DOMAIN sessions' /\ SessionTyped(sessions'[1])
      /\ stdin' \in 0..Len(StdinLines)
      /\ ToSet(Scripted) \subseteq ToSet(Scripted')
  BY <1>1, StageRefilled
<1>3. NoBgpsecWhenOff'
  BY <1>1, <1>2, SentSame, NothingSent
<1>4. /\ DOMAIN params' = DOMAIN initParams /\ IsSequence(sent')
      /\ \A f \in DOMAIN data' : IsSequence(data'[f])
  BY <1>1 DEF Structure
<1> QED BY <1>2, <1>3, <1>4, PlaysOn

(* The end of a run that plays.                                            *)
LEMMA EndsPlaying ==
  ASSUME BrioInv, pc \in Playing, pc' = "release",
         UNCHANGED <<argv, idx, params, sessions, count, paramUpdates, files, data, stdin, sent>>
  PROVE  BrioInv'
<1>1. Structure /\ NoBgpsecWhenOff /\ params.create = Nothing
  BY DEF BrioInv, PlayingOn
<1>2. Structure'
  BY <1>1 DEF Structure, Places
<1>3. params.create' = Nothing
  BY <1>1
<1>4. Preparing' /\ Generated' /\ PlayingOn'
  BY <1>3 DEF Preparing, Generated, PlayingOn, Playing
<1>5. NoBgpsecWhenOff'
  BY <1>1, SentSame, GivenSame
<1> QED BY <1>2, <1>4, <1>5 DEF BrioInv

LEMMA StartCapiKeeps ==
  ASSUME BrioInv, NEW read \in BOOLEAN, NEW init \in BOOLEAN, StartCapi(read, init)
  PROVE  BrioInv'
<1>1. /\ pc = "mode" /\ params.mode = "CAPI" /\ MayRead(read)
      /\ UNCHANGED <<argv, idx, params, count, paramUpdates, files, data, taken, sent, bgp>>
  BY DEF StartCapi, disk
<1>2. pc \in Playing /\ count # 0 /\ sent = <<>>
  BY <1>1 DEF BrioInv, PlayingOn, Preparing, NothingPlayed, Playing
<1>3. CASE init
  <2>1. pc' = "capi" /\ StdinRead(read) /\ SetStack(Refilled(read))
    BY <1>3 DEF StartCapi
  <2> QED BY <1>1, <1>2, <2>1, AfterQuestion
<1>4. CASE ~init
  <2>1. pc' = "release" /\ UNCHANGED <<sessions, stdin>>
    BY <1>4 DEF StartCapi
  <2> QED BY <1>1, <1>2, <2>1, EndsPlaying
<1> QED BY <1>3, <1>4

LEMMA CapiRecordsKeeps ==
  ASSUME BrioInv, NEW read \in BOOLEAN, CapiRecords(read)
  PROVE  BrioInv'
<1>1. /\ pc = "capi" /\ MayRead(read) /\ StdinRead(read) /\ SetStack(Refilled(read))
      /\ pc' \in {"records", "release"}
      /\ UNCHANGED <<argv, idx, params, count, paramUpdates, files, data, taken, sent>>
  BY DEF CapiRecords, NoMore, disk
<1>2. pc \in Playing /\ count # 0
  BY <1>1 DEF BrioInv, PlayingOn, Playing
<1> QED BY <1>1, <1>2, AfterQuestion

LEMMA EndGenKeeps ==
  ASSUME BrioInv, NEW read \in BOOLEAN, EndGen(read)
  PROVE  BrioInv'
<1>1. /\ pc = "gen" /\ MayRead(read) /\ StdinRead(read) /\ SetStack(Refilled(read))
      /\ pc' = "release"
      /\ UNCHANGED <<argv, idx, params, count, paramUpdates, files, data, taken, sent>>
  BY DEF EndGen, NoMore, disk
<1>2. pc \in Playing /\ count # 0
  BY <1>1 DEF BrioInv, PlayingOn, Playing
<1> QED BY <1>1, <1>2, AfterQuestion

LEMMA StartBgpKeeps ==
  ASSUME BrioInv, NEW read \in BOOLEAN, StartBgp(read)
  PROVE  BrioInv'
<1>1. /\ pc = "mode" /\ params.mode = "BGP" /\ count # 0
      /\ MayRead(read) /\ StdinRead(read) /\ SetStack(Refilled(read))
      /\ pc' \in {"session", "release"}
      /\ UNCHANGED <<argv, idx, params, count, paramUpdates, files, data, taken, sent, bgp>>
  BY DEF StartBgp, disk
<1>2. pc \in Playing /\ NothingPlayed'
  BY <1>1 DEF BrioInv, Preparing, NothingPlayed, Playing
<1> QED BY <1>1, <1>2, AfterQuestion

LEMMA OpenTrafficKeeps ==
  ASSUME BrioInv, NEW read \in BOOLEAN, OpenTraffic(read)
  PROVE  BrioInv'
<1>1. /\ pc = "session" /\ pc' = "bgp"
      /\ MayRead(read) /\ StdinRead(read) /\ SetStack(Refilled(read))
      /\ UNCHANGED <<argv, idx, params, count, paramUpdates, files, data, taken, sent>>
  BY DEF OpenTraffic, disk
<1>2. pc \in Playing /\ count # 0 /\ params.mode = "BGP"
  BY <1>1 DEF BrioInv, PlayingOn, Playing
<1>3. PICK snd, stop :
        bgp' = [link |-> "down", sending |-> FALSE, negotiated |-> {}, peerCaps |-> {}, losses |-> 0,
                stop |-> stop, pos |-> 1, input |-> TRUE, on |-> TRUE,
                bin |-> params.bin \in DOMAIN data, sendData |-> snd]
  BY DEF OpenTraffic
<1>4. /\ DOMAIN bgp' = BgpFields /\ bgp'.link = "down" /\ bgp'.pos = 1 /\ bgp'.negotiated = {}
      /\ bgp'.bin => params.bin \in DOMAIN data
  BY <1>3 DEF BgpFields
<1>5. BgpTyped'
  BY <1>1, <1>4 DEF BgpTyped
<1> QED BY <1>1, <1>2, <1>4, <1>5, AfterQuestion

LEMMA EndsKeep ==
  ASSUME BrioInv, NoBgpSession \/ EndBgp
  PROVE  BrioInv'
<1>1. pc \in Playing /\ pc' = "release"
      /\ UNCHANGED <<argv, idx, params, sessions, count, paramUpdates, files, data, stdin, sent>>
  BY DEF NoBgpSession, EndBgp, settings, disk, run, Playing
<1> QED BY <1>1, EndsPlaying

LEMMA StartGenKeeps ==
  ASSUME BrioInv, StartGen
  PROVE  BrioInv'
<1>1. /\ pc = "mode" /\ params.mode \in GenModes
      /\ UNCHANGED <<argv, idx, params, sessions, count, paramUpdates, files, stdin, taken, sent>>
  BY DEF StartGen, settings
<1>2. /\ pc \in Playing /\ count # 0 /\ Structure /\ sent = <<>> /\ OnStage
  BY <1>1 DEF BrioInv, PlayingOn, Preparing, NothingPlayed, Playing, GenModes
<1>3. CASE params.out \in DataFiles
  <2> DEFINE old == IF params.appendOut /\ params.out \in DOMAIN data THEN data[params.out] ELSE <<>>
  <2>1. /\ data' = [f \in DOMAIN data \cup {params.out} |-> IF f = params.out THEN old ELSE data[f]]
        /\ pc' = "gen"
    BY <1>3 DEF StartGen
  <2>2. IsSequence(old) /\ \A f \in DOMAIN data : IsSequence(data[f])
    BY <1>2, EmptyIs DEF Structure
  <2> HIDE DEF old
  <2>3. \A f \in DOMAIN data' : IsSequence(data'[f])
    BY <2>1, <2>2
  <2>4. OnStage' /\ NoBgpsecWhenOff' /\ First.conf' = First.conf
    BY <1>1, <1>2, StageSame, NothingSent DEF First
  <2> QED BY <1>1, <1>2, <2>1, <2>3, <2>4, PlaysOn DEF Structure
<1>4. CASE params.out \notin DataFiles
  BY <1>1, <1>2, <1>4, EndsPlaying DEF StartGen
<1> QED BY <1>3, <1>4

LEMMA CapiRecordKeeps ==
  ASSUME BrioInv, CapiRecord
  PROVE  BrioInv'
<1>1. /\ pc = "records"
      /\ UNCHANGED <<argv, idx, sessions, count, paramUpdates, files, data, stdin, taken>>
  BY DEF CapiRecord, disk
<1>2. pc \in Playing /\ count # 0 /\ Structure /\ OnStage /\ NoBgpsecWhenOff
  BY <1>1 DEF BrioInv, PlayingOn, Playing
<1>3. CASE pc' = "release" /\ UNCHANGED <<params, sent, bgp>>
  BY <1>1, <1>2, <1>3, EndsPlaying
<1>4. CASE pc' = pc /\ CountDown
  <2>1. PICK m : sent' = Append(sent, m) /\ m.kind = "validated"
    BY <1>4, <1>1 DEF CapiRecord
  <2>2. /\ DOMAIN params' = DOMAIN initParams
        /\ UNCHANGED <<params.create, params.disable_bgpsec, params.mode, params.bin>>
    BY <1>2, <1>4, CountedDown
  <2>3. Scripted' = Scripted /\ OnStage' /\ First.conf' = First.conf
    BY <1>1, <1>2, GivenSame, StageSame DEF First
  <2>4. Lawful(m, params.disable_bgpsec, Scripted', pc' = "capi")
    BY <1>1, <1>4, <2>1 DEF Lawful
  <2>5. NoBgpsecWhenOff' /\ IsSequence(sent')
    BY <1>1, <1>2, <1>4, <2>1, <2>2, <2>3, <2>4, SentOneMore DEF Structure
  <2> QED BY <1>1, <1>2, <1>4, <2>2, <2>3, <2>5, PlaysOn DEF Structure
<1> QED BY <1>3, <1>4 DEF CapiRecord

LEMMA LoadIs ==
  ASSUME NEW file, IsSequence(file), NEW pos \in Nat \ {0}, NEW a, NEW b, NEW types
  PROVE  loadData(file, pos, a, b, types) \in Nat
<1> DEFINE fits == {i \in pos..Len(file) : RightRecord(file[i], a, b, types)}
<1>1. Len(file) \in Nat
  BY SequenceIs
<1>2. fits \in SUBSET Nat
  BY <1>1
<1>3. loadData(file, pos, a, b, types) =
        IF fits = {} THEN 0 ELSE CHOOSE i \in fits : \A j \in fits : i <= j
  BY DEF loadData
<1> HIDE DEF fits
<1> DEFINE first == CHOOSE i \in fits : \A j \in fits : i <= j
<1>4. fits # {} => first \in fits
  <2> SUFFICES ASSUME fits # {} PROVE first \in fits
    OBVIOUS
  <2>1. \E i \in fits : \A j \in fits : i <= j
    BY <1>2, LeastOf
  <2> QED BY <2>1
<1> HIDE DEF first
<1>5. fits # {} => first \in Nat
  BY <1>2, <1>4
<1> QED BY <1>3, <1>5 DEF first

(* If there is still nothing on the stack, it is as it was.                *)
LEMMA StillEmpty ==
  ASSUME Structure, NEW read \in BOOLEAN, MayRead(read), isStackEmpty(Refilled(read))
  PROVE  Refilled(read) = Stack1
<1>1. DOMAIN Stack1 = StackFields
  BY DEF Structure, SessionTyped, Stack1, First
<1>2. CASE Refilled(read) # Stack1
  <2>1. read /\ Stack1.count = 0
    BY <1>2 DEF Refilled, MayRead, isStackEmpty
  <2>2. PICK u : Refilled(read) = pushStack(Stack1, u)
    BY <1>2 DEF Refilled
  <2>3. pushStack(Stack1, u).count = 1
    BY <1>1, <2>1 DEF pushStack, fifoPush, StackFields
  <2> QED BY <2>2, <2>3 DEF isStackEmpty
<1> QED BY <1>2

(* A step of the traffic loop that finds no update.                        *)
LEMMA FindsNothing ==
  ASSUME BrioInv, pc = "bgp", NEW read \in BOOLEAN, MayRead(read), StdinRead(read),
         isStackEmpty(Refilled(read)), CountDown, BgpStep, UNCHANGED <<sessions, taken>>,
         \/ sent' = sent
         \/ \E id : sent' = Append(sent, [kind |-> "record", id |-> id]),
         pc' \in {"bgp", "fault"}, pc' = "fault" => bgp' # NoSession /\ bgp'.pos # 1,
         pc' = "bgp" => BgpTyped', bgp'.negotiated = bgp.negotiated
  PROVE  BrioInv'
<1>1. /\ Structure /\ OnStage /\ count # 0 /\ NoBgpsecWhenOff /\ SwitchedOff
      /\ params.create = Nothing /\ params.mode = "BGP" /\ pc \in Playing
  BY DEF BrioInv, PlayingOn, Playing
<1>2. UNCHANGED <<argv, idx, count, paramUpdates, files, data>>
  BY DEF BgpStep, disk
<1>3. /\ Staged(taken, Stack1, Scripted', TailKept, count = 1)
      /\ stdin' \in 0..Len(StdinLines) /\ ToSet(Scripted) \subseteq ToSet(Scripted')
  BY <1>1, <1>2, StillEmpty, RefillIs
<1>4. Stack1' = Stack1 /\ First.conf' = First.conf
  BY DEF Stack1, First
<1>5. OnStage'
  BY <1>1, <1>2, <1>3, <1>4, GivenSame DEF OnStage
<1>6. /\ DOMAIN params' = DOMAIN initParams
      /\ UNCHANGED <<params.create, params.disable_bgpsec, params.mode, params.bin>>
  BY <1>1, CountedDown
<1>7. NoBgpsecWhenOff' /\ IsSequence(sent')
  <2>1. CASE sent' = sent
    BY <1>1, <1>3, <1>6, <2>1, SentSame DEF Structure
  <2>2. CASE \E id : sent' = Append(sent, [kind |-> "record", id |-> id])
    <3>1. PICK m : sent' = Append(sent, m) /\ m.kind = "record"
      BY <2>2
    <3>2. Lawful(m, params.disable_bgpsec, Scripted', pc' = "capi")
      BY <3>1 DEF Lawful
    <3> QED BY <1>1, <1>3, <1>6, <3>1, <3>2, SentOneMore DEF Structure
  <2> QED BY <2>1, <2>2
<1>8. CASE pc' = "bgp"
  BY <1>1, <1>2, <1>3, <1>4, <1>5, <1>6, <1>7, <1>8, PlaysOn DEF Structure, SwitchedOff
<1>9. CASE pc' = "fault"
  <2>1. Structure'
    BY <1>1, <1>2, <1>3, <1>6, <1>7, <1>9 DEF Structure, Places
  <2>2. Preparing' /\ Generated' /\ params.create' = Nothing
    BY <1>1, <1>6, <1>9, PlayedOut DEF BrioInv
  <2>3. PlayingOn'
    BY <1>9, <2>2 DEF PlayingOn, Playing
  <2> QED BY <1>7, <2>1, <2>2, <2>3 DEF BrioInv
<1> QED BY <1>8, <1>9

LEMMA SendRecordKeeps ==
  ASSUME BrioInv, NEW read \in BOOLEAN, SendRecord(read)
  PROVE  BrioInv'
<1> DEFINE i == NextRecord(TypeAll)
           r == data[params.bin][i]
<1>1. /\ pc = "bgp" /\ bgp.bin /\ MayRead(read) /\ StdinRead(read)
      /\ isStackEmpty(Refilled(read)) /\ CountDown /\ BgpStep /\ UNCHANGED <<sessions, taken>>
  BY DEF SendRecord, Sending
<1>2. Structure /\ BgpTyped
  BY <1>1 DEF BrioInv, PlayingOn
<1>3. i \in Nat
  <2>1. IsSequence(data[params.bin]) /\ bgp.pos \in Nat \ {0}
    BY <1>1, <1>2 DEF Structure, BgpTyped
  <2> QED BY <2>1, LoadIs DEF NextRecord
<1>4. /\ i = 0 => bgp' = [bgp EXCEPT !.bin = FALSE, !.input = FALSE, !.sendData = params'.max # 0]
      /\ i # 0 => bgp' = [bgp EXCEPT !.pos = i + 1, !.input = FALSE, !.sendData = params'.max # 0]
      /\ pc' = pc \/ (i # 0 /\ pc' = "fault")
      /\ \/ sent' = sent
         \/ sent' = Append(sent, [kind |-> "record", id |-> r.data])
  BY DEF SendRecord
<1> HIDE DEF i, r
<1>5. /\ DOMAIN bgp' = BgpFields /\ bgp'.link = bgp.link /\ bgp'.negotiated = bgp.negotiated
      /\ bgp'.bin => bgp.bin
      /\ i = 0 => bgp'.pos = bgp.pos
      /\ i # 0 => bgp'.pos = i + 1
  BY <1>1, <1>2, <1>4 DEF BgpTyped, BgpFields
<1>6. params'.bin = params.bin /\ data' = data
  BY <1>1, <1>2, CountedDown DEF BgpStep, disk
<1>7. BgpTyped'
  BY <1>2, <1>3, <1>5, <1>6 DEF BgpTyped
<1>8. bgp' # NoSession
  BY <1>5 DEF BgpFields, NoSession
<1>9. i # 0 => bgp'.pos # 1
  BY <1>3, <1>5
<1> QED BY <1>1, <1>4, <1>5, <1>7, <1>8, <1>9, FindsNothing

LEMMA SendNothingKeeps ==
  ASSUME BrioInv, NEW read \in BOOLEAN, SendNothing(read)
  PROVE  BrioInv'
<1>1. /\ pc = "bgp" /\ pc' = pc /\ sent' = sent /\ MayRead(read) /\ StdinRead(read)
      /\ isStackEmpty(Refilled(read)) /\ CountDown /\ BgpStep /\ UNCHANGED <<sessions, taken>>
      /\ bgp' = [bgp EXCEPT !.sendData = FALSE]
  BY DEF SendNothing, Sending
<1>2. Structure /\ BgpTyped
  BY <1>1 DEF BrioInv, PlayingOn
<1>3. params'.bin = params.bin /\ data' = data
  BY <1>1, <1>2, CountedDown DEF BgpStep, disk
<1>4. BgpTyped' /\ bgp'.negotiated = bgp.negotiated
  BY <1>1, <1>2, <1>3 DEF BgpTyped, BgpFields
<1> QED BY <1>1, <1>4, FindsNothing

LEMMA ReleaseKeeps ==
  ASSUME BrioInv, Release
  PROVE  BrioInv'
<1> USE DEF Release, disk
<1>1. IsSequence(<<>>) /\ DOMAIN initStack = StackFields /\ SessionTyped(NewSession)
  BY EmptyIs, InitStackIs, NewSessionIs
<1>2. DOMAIN sessions' = 1..1 /\ sessions'[1] = NewSession
  OBVIOUS
<1>3. Len(StdinLines) \in Nat
  BY Inputs, SequenceIs DEF Inputs
<1>4. Structure'
  BY <1>1, <1>2, <1>3 DEF BrioInv, Structure, Places
<1>5. Preparing'
  BY DEF Preparing, NothingDone, NothingPlayed, Playing
<1>6. PlayingOn' /\ Generated'
  BY DEF PlayingOn, Generated, Playing
<1>7. NoBgpsecWhenOff'
  BY NothingSent
<1> QED BY <1>4, <1>5, <1>6, <1>7 DEF BrioInv

(* A step on which the program gets its settings.                          *)
LEMMA SetsOut ==
  ASSUME BrioInv, pc \in {"idle", "scan", "config", "params", "check", "post"},
         pc' \in {"scan", "config", "params", "check", "post", "release"},
         Structure', Preparing', UNCHANGED <<stdin, taken, sent, bgp>>,
         pc' = "post" => params'.create = Nothing /\ SwitchedOff' /\ (params'.mode = "BGP" \/ count' # 0),
         Generated'
  PROVE  BrioInv'
<1>1. sent' = <<>>
  BY DEF BrioInv, Preparing, NothingPlayed
<1>2. NoBgpsecWhenOff'
  BY <1>1, NothingSent
<1>3. PlayingOn'
  BY DEF PlayingOn, Playing
<1> QED BY <1>2, <1>3 DEF BrioInv

LEMMA NothingYet ==
  ASSUME Preparing, pc \in {"idle", "scan", "config", "params", "check", "post"}
  PROVE  NothingPlayed /\ stdin = 0
BY DEF Preparing, Playing

(* The stacks at the start have what a command line without a              *)
(* configuration file gives.                                               *)
LEMMA CollectedAtStart ==
  ASSUME Structure, NothingDone, ConfigAsked(argv) = Nothing
  PROVE  Collected(0)
<1>1. LinesUpTo(0) = <<>> /\ Len(argv) \in Nat
  BY LinesUpToIs, SequenceIs DEF Structure
<1>2. OwnLines = <<>> /\ GlobalLines = <<>>
  BY DEF OwnLines, GlobalLines
<1>3. sessions[1] = NewSession
  BY DEF NothingDone
<1>4. Sound(initStack) /\ Matches(initStack.chain, <<>>, TRUE)
  BY InitStackIs
<1>5. Sound(Stack1) /\ Matches(Stack1.chain, <<>>, TRUE)
  BY <1>3, NewSessionIs DEF Stack1, First
<1>6. paramUpdates = initStack /\ globalUpdates = initStack
  BY DEF NothingDone
<1>7. 0 <= Len(argv)
  BY <1>1
<1> QED BY <1>1, <1>2, <1>4, <1>5, <1>6, <1>7 DEF Collected

LEMMA StartKeeps ==
  ASSUME BrioInv, NEW cl \in CommandLines, Start(cl)
  PROVE  BrioInv'
<1> USE DEF Start, settings, disk, run
<1>1. NothingPlayed /\ stdin = 0
  BY NothingYet DEF BrioInv
<1>2. Structure'
  BY Inputs DEF BrioInv, Structure, Places, Inputs
<1>3. Preparing' /\ Generated'
  BY <1>1 DEF BrioInv, Preparing, NothingDone, NothingPlayed, Generated, Playing
<1> QED BY <1>2, <1>3, SetsOut

LEMMA ScanKeeps ==
  ASSUME BrioInv, Scan
  PROVE  BrioInv'
<1> USE DEF Scan, settings, disk, run
<1>1. NothingPlayed /\ stdin = 0 /\ Structure /\ NothingDone
  BY NothingYet DEF BrioInv, Preparing
<1>2. Structure'
  BY <1>1 DEF Structure, Places, Playing
<1>3. /\ pc' \in {"config", "params"}
      /\ pc' = "config" => retVal' = 1 /\ ~HelpAsked(argv) /\ ConfigAsked(argv) # Nothing
      /\ pc' = "params" => retVal' = IF HelpAsked(argv) THEN 0 ELSE 1
      /\ pc' = "params" /\ ~error' /\ ~HelpAsked(argv) => ConfigAsked(argv) = Nothing
  OBVIOUS
<1>4. ASSUME pc' = "params", ~error', ~HelpAsked(argv) PROVE Collected(idx - 1)'
  <2>1. NothingDone'
    BY <1>1 DEF NothingDone
  <2>2. Collected(0)
    BY <1>1, <1>3, <1>4, CollectedAtStart
  <2>3. Collected(0)'
    <3>1. OwnLines' = OwnLines /\ GlobalLines' = GlobalLines
      BY GivenSame
    <3>2. LinesUpTo(0)' = LinesUpTo(0)
      BY DEF LinesUpTo
    <3> QED BY <2>2, <3>1, <3>2 DEF Collected, Stack1, First
  <2>4. (idx - 1)' = 0
    BY <2>1 DEF NothingDone
  <2> QED BY <2>3, <2>4
<1>5. Preparing'
  BY <1>1, <1>3, <1>4 DEF Preparing, NothingDone, NothingPlayed, Playing
<1>6. Generated'
  BY <1>3 DEF Generated
<1> QED BY <1>2, <1>3, <1>5, <1>6, SetsOut

LEMMA FileIsInOrder ==
  ASSUME Structure, NEW name
  PROVE  FileNamed(name).found => InOrder(FileNamed(name))
<1>1. CASE name \in DOMAIN files
  BY <1>1 DEF Structure, FileNamed
<1>2. CASE name \notin DOMAIN files
  BY <1>2 DEF FileNamed, NoFile
<1> QED BY <1>1, <1>2

LEMMA ReadConfigKeeps ==
  ASSUME BrioInv, ReadConfig
  PROVE  BrioInv'
<1> DEFINE f == FileNamed(ConfigAsked(argv))
           r == readConfig(params, f)
<1>1. /\ pc = "config" /\ pc' = "params" /\ params' = r.params /\ sessions' = r.sessions
      /\ count' = r.count /\ globalUpdates' = r.globals /\ error' = r.error
      /\ UNCHANGED <<argv, idx, paramUpdates, retVal, files, data, stdin, taken, sent, bgp>>
  BY DEF ReadConfig, disk, run
<1>2. /\ NothingPlayed /\ stdin = 0 /\ Structure /\ NothingDone
      /\ retVal = 1 /\ ~HelpAsked(argv) /\ ConfigAsked(argv) # Nothing
  BY <1>1, NothingYet DEF BrioInv, Preparing
<1>3. /\ SessionsRead(r) /\ DOMAIN r.params = DOMAIN params
      /\ ~r.error => LinesRead(r, f)
  <2> HIDE DEF f
  <2>1. CASE ~f.found \/ ~f.parses
    BY <2>1, NotThere
  <2>2. CASE f.found /\ f.parses
    <3>1. InOrder(f)
      BY <1>2, <2>2, FileIsInOrder DEF f
    <3> QED BY <2>2, <3>1, ReadConfigIs
  <2> QED BY <2>1, <2>2
<1> HIDE DEF f, r
<1>4. Structure'
  BY <1>1, <1>2, <1>3 DEF Structure, SessionsRead, Places
<1>5. ASSUME ~error' PROVE Collected(idx - 1)'
  <2>1. LinesRead(r, f)
    BY <1>1, <1>3, <1>5
  <2>2. Stack1' = r.sessions[1].updates
    BY <1>1 DEF Stack1, First
  <2>3. count' # 0 => OwnLines' = OwnOf(f) /\ GlobalLines' = GlobalOf(f)
    BY <1>1, <1>2 DEF OwnLines, GlobalLines, OwnOf, GlobalOf, File, FileNamed, f
  <2>4. count' # 0 =>
          /\ Sound(Stack1') /\ Matches(Stack1'.chain, OwnLines', TRUE)
          /\ Sound(globalUpdates') /\ Matches(globalUpdates'.chain, GlobalLines', TRUE)
    BY <1>1, <2>1, <2>2, <2>3 DEF LinesRead
  <2>5. paramUpdates' = initStack /\ (idx - 1)' = 0
    BY <1>1, <1>2 DEF NothingDone
  <2>6. LinesUpTo(0)' = <<>> /\ Len(argv') \in Nat
    <3>1. LinesUpTo(0) = <<>> /\ Len(argv) \in Nat
      BY <1>2, LinesUpToIs, SequenceIs DEF Structure
    <3>2. LinesUpTo(0)' = LinesUpTo(0)
      BY <1>1 DEF LinesUpTo
    <3> QED BY <1>1, <3>1, <3>2
  <2>7. Sound(initStack) /\ Matches(initStack.chain, <<>>, TRUE)
    BY InitStackIs
  <2>8. Sound(paramUpdates') /\ Matches(paramUpdates'.chain, LinesUpTo(0)', TRUE)
    <3> HIDE DEF r
    <3> QED BY <2>5, <2>6, <2>7
  <2>9. 0 <= Len(argv')
    BY <2>6
  <2>10. Collected(0)'
    BY <2>4, <2>8, <2>9 DEF Collected
  <2> QED BY <2>5, <2>10
<1>6. Preparing' /\ Generated'
  BY <1>1, <1>2, <1>5 DEF Preparing, NothingPlayed, Generated, Playing
<1> QED BY <1>1, <1>4, <1>6, SetsOut

LEMMA PushedBehind ==
  ASSUME NEW s, Sound(s), NEW ls, Matches(s.chain, ls, TRUE), NEW l, NEW off
  PROVE  LET r == fifoPush(s, createUpdate(l, off))
         IN  DOMAIN r = StackFields /\ Sound(r) /\ Matches(r.chain, ls \o <<l>>, TRUE)
<1> DEFINE u == createUpdate(l, off)
           r == fifoPush(s, u)
<1>1. IsSequence(s.chain) /\ Len(s.chain) \in Nat /\ (~s.tail => s.chain = <<>>)
  BY SequenceIs DEF Matches, Sound
<1>2. (IF s.tail THEN s.chain ELSE <<>>) = s.chain
  BY <1>1
<1>3. r = [chain |-> s.chain \o <<u>>, tail |-> TRUE, count |-> s.count + 1]
  BY <1>2 DEF fifoPush
<1>4. Matches(<<u>>, <<l>>, TRUE)
  BY CreatedFrom, MatchOne
<1> HIDE DEF u
<1>5. Matches(s.chain \o <<u>>, ls \o <<l>>, TRUE)
  BY <1>4, MatchConcat
<1>6. Len(s.chain \o <<u>>) = Len(s.chain) + 1
  BY <1>1, OneIs, ConcatIs DEF Joins
<1> DEFINE c == s.chain \o <<u>>
<1> HIDE DEF c
<1>7. c # <<>>
  BY <1>1, <1>6, EmptyIs DEF c
<1>8. r.chain = c /\ r.tail /\ r.count = s.count + 1 /\ DOMAIN r = StackFields
  BY <1>3 DEF c, StackFields
<1> HIDE DEF r
<1>9. Sound(r)
  BY <1>6, <1>7, <1>8 DEF Sound, c
<1>10. Matches(r.chain, ls \o <<l>>, TRUE)
  BY <1>5, <1>8 DEF c
<1> QED BY <1>8, <1>9, <1>10 DEF r, u

(* The settings of the first session are replaced.                         *)
LEMMA ConfSet ==
  ASSUME Structure, NEW c, DOMAIN c = DOMAIN initBGPSessionConfig,
         DOMAIN sessions' = DOMAIN sessions, sessions'[1] = [sessions[1] EXCEPT !.conf = c]
  PROVE  /\ 1 \in DOMAIN sessions' /\ SessionTyped(sessions'[1])
         /\ Stack1' = Stack1 /\ First.conf' = c
<1>1. 1 \in DOMAIN sessions /\ SessionTyped(sessions[1])
  BY DEF Structure
<1>2. SessionTyped(sessions'[1]) /\ sessions'[1].updates = sessions[1].updates /\ sessions'[1].conf = c
  BY <1>1 DEF SessionTyped
<1> QED BY <1>1, <1>2 DEF Stack1, First

LEMMA ParseParamKeeps ==
  ASSUME BrioInv, ParseParam
  PROVE  BrioInv'
<1> DEFINE o == argv[idx]
<1>1. /\ pc = "params" /\ pc' = pc /\ ~error /\ idx \in DOMAIN argv /\ idx' = idx + 1
      /\ error' = OptionWrong(o)
      /\ UNCHANGED <<argv, retVal, count, globalUpdates, files, data, stdin, taken, sent, bgp>>
  BY DEF ParseParam, settings, disk, run
<1>2. /\ NothingPlayed /\ stdin = 0 /\ Structure
      /\ retVal = (IF HelpAsked(argv) THEN 0 ELSE 1)
      /\ ~HelpAsked(argv) => Collected(idx - 1)
  BY <1>1, NothingYet DEF BrioInv, Preparing
<1>3. idx \in Nat \ {0} /\ idx \in 1..Len(argv) /\ Len(argv) \in Nat
  BY <1>1, <1>2, SequenceIs DEF Structure
<1>4. CASE OptionWrong(o)
  <2>1. UNCHANGED <<params, sessions, paramUpdates>>
    BY <1>4 DEF ParseParam, settings
  <2>2. Structure'
    BY <1>1, <1>2, <1>3, <2>1 DEF Structure
  <2>3. Preparing' /\ Generated'
    BY <1>1, <1>2, <1>4 DEF Preparing, NothingPlayed, Generated, Playing
  <2> QED BY <1>1, <2>2, <2>3, SetsOut
<1>5. CASE ~OptionWrong(o)
  <2> DEFINE conf == Override(First.conf, SessionOf(o))
             pushes == o.name = "update" /\ ~Incomplete(o.val)
             pushed == fifoPush(paramUpdates, createUpdate(o.val, params.disable_bgpsec))
  <2>1. /\ params' = Override(params, ParamOf(o))
        /\ sessions' = [sessions EXCEPT ![1].conf = Override(@, SessionOf(o))]
        /\ paramUpdates' = IF pushes THEN pushed ELSE paramUpdates
    BY <1>5 DEF ParseParam
  <2>2. DOMAIN params' = DOMAIN initParams
    BY <1>2, <2>1, OverrideIs DEF Structure
  <2>3. DOMAIN conf = DOMAIN initBGPSessionConfig
    BY <1>2, OverrideIs DEF Structure, SessionTyped, First
  <2>4. DOMAIN sessions' = DOMAIN sessions /\ sessions'[1] = [sessions[1] EXCEPT !.conf = conf]
    BY <1>2, <2>1 DEF Structure, First
  <2>5. 1 \in DOMAIN sessions' /\ SessionTyped(sessions'[1]) /\ Stack1' = Stack1
    <3> HIDE DEF conf
    <3> QED BY <1>2, <2>3, <2>4, ConfSet
  <2>6. DOMAIN paramUpdates' = StackFields
    BY <1>2, <2>1 DEF Structure, fifoPush, StackFields
  <2>7. Structure'
    BY <1>1, <1>2, <1>3, <2>2, <2>5, <2>6 DEF Structure
  <2>8. ASSUME ~HelpAsked(argv) PROVE Collected(idx - 1)'
    <3>1. Collected(idx - 1)
      BY <1>2, <2>8
    <3>2. /\ Sound(paramUpdates) /\ Matches(paramUpdates.chain, LinesUpTo(idx - 1), TRUE)
          /\ count # 0 =>
               /\ Sound(Stack1) /\ Matches(Stack1.chain, OwnLines, TRUE)
               /\ Sound(globalUpdates) /\ Matches(globalUpdates.chain, GlobalLines, TRUE)
      BY <3>1 DEF Collected
    <3>3. LinesUpTo(idx) = LinesUpTo(idx - 1) \o LineOf(o) /\ IsSequence(LinesUpTo(idx - 1))
      <4>1. idx \in Nat /\ idx > 0 /\ idx <= Len(argv) /\ idx - 1 \in Nat /\ idx - 1 <= Len(argv)
        BY <1>3
      <4> QED BY <1>2, <4>1, LinesUpToIs
    <3>4. Sound(paramUpdates') /\ Matches(paramUpdates'.chain, LinesUpTo(idx), TRUE)
      <4>1. CASE pushes
        <5>1. LineOf(o) = <<o.val>> /\ paramUpdates' = pushed
          BY <2>1, <4>1 DEF LineOf
        <5>2. Sound(pushed) /\ Matches(pushed.chain, LinesUpTo(idx - 1) \o <<o.val>>, TRUE)
          <6> HIDE DEF o
          <6> QED BY <3>2, PushedBehind
        <5> HIDE DEF pushed, o
        <5> QED BY <5>1, <5>2, <3>3
      <4>2. CASE ~pushes
        <5>1. LineOf(o) = <<>> /\ paramUpdates' = paramUpdates
          BY <2>1, <4>2 DEF LineOf
        <5>2. LinesUpTo(idx) = LinesUpTo(idx - 1)
          BY <5>1, <3>3, ConcatNone
        <5> QED BY <5>1, <5>2, <3>2
      <4> QED BY <4>1, <4>2
    <3>5. OwnLines' = OwnLines /\ GlobalLines' = GlobalLines
      BY <1>1, GivenSame
    <3>6. LinesUpTo(idx - 1)' = LinesUpTo(idx)
      <4>1. idx' - 1 = idx
        BY <1>1, <1>3
      <4> QED BY <4>1, <1>1 DEF LinesUpTo
    <3>7. idx' - 1 <= Len(argv')
      BY <1>1, <1>3
    <3> QED BY <1>1, <2>5, <3>2, <3>4, <3>5, <3>6, <3>7 DEF Collected
  <2>9. Preparing' /\ Generated'
    BY <1>1, <1>2, <2>8 DEF Preparing, NothingPlayed, Generated, Playing
  <2> QED BY <1>1, <2>7, <2>9, SetsOut
<1> QED BY <1>4, <1>5

LEMMA CollectedSame ==
  ASSUME NEW n, Collected(n), UNCHANGED <<argv, files, count, paramUpdates, globalUpdates>>,
         Stack1' = Stack1
  PROVE  Collected(n)'
<1>1. OwnLines' = OwnLines /\ GlobalLines' = GlobalLines
  BY GivenSame
<1>2. LinesUpTo(n)' = LinesUpTo(n)
  BY DEF LinesUpTo
<1> QED BY <1>1, <1>2 DEF Collected

LEMMA EndParamsKeeps ==
  ASSUME BrioInv, EndParams
  PROVE  BrioInv'
<1> USE DEF EndParams, settings, disk, run
<1>1. /\ NothingPlayed /\ stdin = 0 /\ Structure
      /\ retVal = (IF HelpAsked(argv) THEN 0 ELSE 1)
      /\ ~error /\ ~HelpAsked(argv) => Collected(idx - 1)
  BY NothingYet DEF BrioInv, Preparing
<1>2. pc' \in {"check", "release"}
  OBVIOUS
<1>3. Structure'
  BY <1>1, <1>2 DEF Structure, Places, Playing
<1>4. CASE pc' = "release"
  <2>1. retVal' = 0 => HelpAsked(argv)
    BY <1>1, <1>4
  <2>2. Generated'
    BY <1>4, <2>1 DEF Generated
  <2>3. Preparing'
    BY <1>1, <1>4 DEF Preparing, Playing
  <2> QED BY <1>3, <1>4, <2>2, <2>3, SetsOut
<1>5. CASE pc' = "check"
  <2>1. /\ ~error /\ retVal # 0 /\ idx \notin DOMAIN argv /\ retVal' = retVal
        /\ ~HelpAsked(argv) /\ retVal = 1
    BY <1>1, <1>5
  <2>2. idx - 1 = Len(argv)
    <3>1. Len(argv) \in Nat /\ DOMAIN argv = 1..Len(argv) /\ idx \in Nat \ {0}
      BY <1>1, SequenceIs DEF Structure
    <3>2. idx - 1 <= Len(argv)
      BY <1>1, <2>1 DEF Collected
    <3> QED BY <2>1, <3>1, <3>2
  <2>3. Collected(Len(argv))
    BY <1>1, <2>1, <2>2
  <2>4. Collected(Len(argv))'
    <3>1. Stack1' = Stack1 /\ Len(argv') = Len(argv)
      BY DEF Stack1, First
    <3> DEFINE n == Len(argv)
    <3>2. Collected(n)'
      <4> HIDE DEF n
      <4> QED BY <2>3, <3>1, CollectedSame DEF n
    <3> QED BY <3>2
  <2>5. Preparing' /\ Generated'
    BY <1>1, <1>5, <2>1, <2>4 DEF Preparing, NothingPlayed, Generated, Playing
  <2> QED BY <1>3, <1>5, <2>5, SetsOut
<1> QED BY <1>2, <1>4, <1>5

(* The capabilities are cleared in the first session, and only they.       *)
LEMMA CapsClearedIs ==
  ASSUME Structure
  PROVE  /\ DOMAIN CapsCleared = DOMAIN sessions
         /\ SessionTyped(CapsCleared[1]) /\ CapsCleared[1].updates = Stack1
         /\ \A n \in DOMAIN initBGPSessionConfig \ BgpsecCaps : CapsCleared[1].conf[n] = First.conf[n]
         /\ params.disable_bgpsec /\ count # 0 =>
              ~CapsCleared[1].conf.bgpsec_v4_snd /\ ~CapsCleared[1].conf.bgpsec_v6_snd
<1> DEFINE off == [n \in BgpsecCaps |-> FALSE]
           conf == Override(First.conf, off)
           one == [sessions[1] EXCEPT !.conf = conf]
<1>1. 1 \in DOMAIN sessions /\ SessionTyped(sessions[1]) /\ count \in Nat
  BY DEF Structure
<1>2. /\ DOMAIN conf = DOMAIN First.conf
      /\ \A n \in DOMAIN First.conf : conf[n] = IF n \in DOMAIN off THEN off[n] ELSE First.conf[n]
  BY OverrideIs
<1>3. DOMAIN First.conf = DOMAIN initBGPSessionConfig
  BY <1>1 DEF SessionTyped, First
<1>4. DOMAIN off = BgpsecCaps /\ \A n \in BgpsecCaps : off[n] = FALSE
  OBVIOUS
<1> HIDE DEF conf, off
<1>5. SessionTyped(one) /\ one.updates = Stack1 /\ one.conf = conf
  BY <1>1, <1>2, <1>3 DEF SessionTyped, Stack1, First
<1>6. DOMAIN CapsCleared = DOMAIN sessions
  BY DEF CapsCleared
<1>7. CapsCleared[1] = IF params.disable_bgpsec /\ ~(1 > count) THEN one ELSE sessions[1]
  BY <1>1 DEF CapsCleared, conf, off, First
<1>8. {"bgpsec_v4_snd", "bgpsec_v6_snd"} \subseteq BgpsecCaps \cap DOMAIN initBGPSessionConfig
  BY DEF BgpsecCaps, initBGPSessionConfig
<1>9. ~conf.bgpsec_v4_snd /\ ~conf.bgpsec_v6_snd
  BY <1>2, <1>3, <1>4, <1>8
<1>10. \A n \in DOMAIN initBGPSessionConfig \ BgpsecCaps : conf[n] = First.conf[n]
  BY <1>2, <1>3, <1>4
<1> HIDE DEF one
<1>11. CASE params.disable_bgpsec /\ ~(1 > count)
  <2>1. CapsCleared[1] = one
    BY <1>7, <1>11
  <2> QED BY <1>5, <1>6, <1>9, <1>10, <2>1
<1>12. CASE ~(params.disable_bgpsec /\ ~(1 > count))
  <2>1. CapsCleared[1] = First
    BY <1>7, <1>12 DEF First
  <2>2. ~(params.disable_bgpsec /\ count # 0)
    BY <1>1, <1>12
  <2> QED BY <1>1, <1>6, <2>1, <2>2 DEF Stack1, First
<1> QED BY <1>11, <1>12

LEMMA CheckSettingsKeeps ==
  ASSUME BrioInv, CheckSettings
  PROVE  BrioInv'
<1>1. /\ pc = "check"
      /\ pc' = (IF Conflict THEN "release" ELSE "post")
      /\ Conflict \/ params.create = Nothing
      /\ sessions' = (IF params.mode = "BGP" THEN CapsCleared ELSE sessions)
      /\ UNCHANGED <<argv, idx, params, count, paramUpdates, globalUpdates, retVal, files, data,
                     stdin, taken, sent, bgp>>
  BY DEF CheckSettings, disk, run
<1>2. /\ NothingPlayed /\ stdin = 0 /\ Structure /\ retVal = 1 /\ Collected(Len(argv))
  BY <1>1, NothingYet DEF BrioInv, Preparing
<1>3. /\ 1 \in DOMAIN sessions' /\ SessionTyped(sessions'[1]) /\ Stack1' = Stack1
      /\ params.mode = "BGP" /\ params.disable_bgpsec /\ count # 0 =>
           ~First'.conf.bgpsec_v4_snd /\ ~First'.conf.bgpsec_v6_snd
  <2>1. CASE params.mode = "BGP"
    <3>1. sessions' = CapsCleared
      BY <1>1, <2>1
    <3> QED BY <1>2, <3>1, CapsClearedIs DEF Structure, Stack1, First
  <2>2. CASE params.mode # "BGP"
    BY <1>1, <1>2, <2>2 DEF Structure, Stack1, First
  <2> QED BY <2>1, <2>2
<1>4. Structure'
  BY <1>1, <1>2, <1>3 DEF Structure, Places
<1>5. Collected(Len(argv))'
  <2> DEFINE n == Len(argv)
  <2>1. Len(argv') = n
    BY <1>1
  <2>2. Collected(n)'
    <3> HIDE DEF n
    <3> QED BY <1>1, <1>2, <1>3, CollectedSame DEF n
  <2> QED BY <2>1, <2>2
<1>6. Preparing' /\ Generated'
  BY <1>1, <1>2, <1>5 DEF Preparing, NothingPlayed, Generated, Playing
<1>7. ASSUME pc' = "post"
      PROVE  params'.create = Nothing /\ SwitchedOff' /\ (params'.mode = "BGP" \/ count' # 0)
  <2>1. ~Conflict /\ params.create = Nothing
    BY <1>1, <1>7
  <2>2. params.disable_bgpsec => params.mode = "BGP"
    BY <2>1 DEF Conflict
  <2>3. params.mode = "BGP" \/ count = 1
    BY <2>1 DEF Conflict
  <2>4. SwitchedOff'
    BY <1>1, <1>3, <1>7, <2>2 DEF SwitchedOff
  <2> QED BY <1>1, <2>1, <2>3, <2>4
<1>8. pc' \in {"release", "post"}
  BY <1>1
<1> QED BY <1>1, <1>4, <1>6, <1>7, <1>8, SetsOut

(* A file that is generated depends on three settings of the session.      *)
LEMMA GeneratedFrom ==
  ASSUME NEW c, NEW d, c.asn = d.asn, c.peer_asn = d.peer_asn, c.peer_ip = d.peer_ip, NEW address
  PROVE  generateFile(c, address) = generateFile(d, address)
<1>1. AsNumbers(c) = AsNumbers(d)
  BY DEF AsNumbers
<1> QED BY <1>1 DEF generateFile

LEMMA GeneratedInOrder ==
  ASSUME NEW c, NEW address
  PROVE  InOrder(generateFile(c, address))
<1> DEFINE g == generateFile(c, address)
<1>1. PICK s : g.sessions = <<s>> /\ LinesOf(s) = GeneratedLines
  BY DEF generateFile, LinesOf
<1>2. g.update.lines = <<>>
  BY DEF generateFile
<1> HIDE DEF g
<1>3. IsSequence(g.sessions) /\ ToSet(g.sessions) = {s}
  BY <1>1, OneIs
<1>4. IsSequence(GeneratedLines)
  <2> DEFINE a == [PlainLine("g1", "no", "-") EXCEPT !.sep = FALSE]
             b == PlainLine("g2", "blank", "-")
             e == PlainLine("g3", "no", "-")
             h == PlainLine("g4", "no", "-")
             k == PlainLine("g5", "no", "V")
  <2>1. GeneratedLines = <<a, b, e, h, k>>
    BY DEF GeneratedLines
  <2> HIDE DEF a, b, e, h, k
  <2>2. <<a, b, e, h, k>> \in Seq({a, b, e, h, k})
    OBVIOUS
  <2> QED BY <2>1, <2>2, SeqIs
<1> QED BY <1>1, <1>2, <1>3, <1>4, EmptyIs DEF InOrder, g

LEMMA CreateConfigKeeps ==
  ASSUME BrioInv, NEW asked \in BOOLEAN, CreateConfig(asked)
  PROVE  BrioInv'
<1> DEFINE f == params.create
           address == LocalAddr(IF asked THEN retrieveIPAddr(params.iface, Interfaces) ELSE Nothing)
           file == generateFile(First.conf, address)
<1>1. /\ pc = "check" /\ pc' = "release" /\ f # Nothing
      /\ files' = IF f \in DOMAIN files THEN files
                  ELSE [n \in DOMAIN files \cup {f} |-> IF n = f THEN file ELSE files[n]]
      /\ retVal' = (IF f \in DOMAIN files THEN 1 ELSE 0)
      /\ sessions' = CapsCleared
      /\ UNCHANGED <<argv, idx, params, count, paramUpdates, globalUpdates, data,
                     stdin, taken, sent, bgp>>
  BY DEF CreateConfig, run
<1>2. NothingPlayed /\ stdin = 0 /\ Structure
  BY <1>1, NothingYet DEF BrioInv, Preparing
<1>3. /\ 1 \in DOMAIN sessions' /\ SessionTyped(sessions'[1])
      /\ \A n \in {"asn", "peer_asn", "peer_ip"} : First'.conf[n] = First.conf[n]
  <2>1. {"asn", "peer_asn", "peer_ip"} \subseteq DOMAIN initBGPSessionConfig \ BgpsecCaps
    BY DEF initBGPSessionConfig, BgpsecCaps
  <2> QED BY <1>1, <1>2, <2>1, CapsClearedIs DEF Structure, First
<1>4. address # Nothing
  BY DEF LocalAddr, OrDefault, Nothing
<1>5. InOrder(file)
  BY GeneratedInOrder
<1>6. file = generateFile(First'.conf, address)
  <2> HIDE DEF address
  <2> QED BY <1>3, GeneratedFrom
<1> HIDE DEF address, file
<1>7. \A name \in DOMAIN files' : InOrder(files'[name])
  BY <1>1, <1>2, <1>5 DEF Structure
<1>8. Structure'
  BY <1>1, <1>2, <1>3, <1>7 DEF Structure, Places
<1>9. Preparing'
  BY <1>1 DEF Preparing, Playing
<1>10. Generated'
  <2>1. CASE f \in DOMAIN files
    BY <1>1, <2>1 DEF Generated
  <2>2. CASE f \notin DOMAIN files
    <3>1. f \in DOMAIN files' /\ files'[f] = file
      BY <1>1, <2>2
    <3> QED BY <1>1, <1>4, <1>6, <3>1 DEF Generated
  <2> QED BY <2>1, <2>2
<1> QED BY <1>1, <1>8, <1>9, <1>10, SetsOut

(* The stack of the first session after postProcessUpdateStack, from the   *)
(* stacks p of the parameters, s of the session and g for all.             *)
LEMMA Assembled ==
  ASSUME NEW p, Sound(p), NEW P, Matches(p.chain, P, TRUE),
         NEW s, DOMAIN s = StackFields, Sound(s), NEW O, Matches(s.chain, O, TRUE),
         NEW c, NEW G, NEW whole, Matches(c, G, whole)
  PROVE  LET w == IF isStackEmpty(p) THEN s ELSE Joined(p, s)
             kept == P = <<>> \/ O # <<>> \/ G = <<>>
         IN  Staged(<<>>, PushedOn(w, c), (P \o O) \o G, kept, whole)
<1> DEFINE w == IF isStackEmpty(p) THEN s ELSE Joined(p, s)
           r == PushedOn(w, c)
           kept == P = <<>> \/ O # <<>> \/ G = <<>>
           all == (P \o O) \o G
<1>1. /\ IsSequence(p.chain) /\ IsSequence(s.chain) /\ IsSequence(c)
      /\ IsSequence(P) /\ IsSequence(O) /\ IsSequence(G)
      /\ Len(p.chain) = Len(P) /\ Len(s.chain) = Len(O) /\ Len(c) = Len(G)
      /\ Len(P) \in Nat /\ Len(O) \in Nat /\ Len(G) \in Nat
  BY SequenceIs DEF Matches
<1>2. ASSUME NEW x, IsSequence(x) PROVE x = <<>> <=> Len(x) = 0
  <2>1. x \in Seq(ToSet(x))
    BY <1>2 DEF IsSequence
  <2> QED BY <2>1
<1>3. /\ p.count = Len(P) /\ s.count = Len(O)
      /\ (P = <<>> <=> Len(P) = 0) /\ (O = <<>> <=> Len(O) = 0) /\ (G = <<>> <=> Len(G) = 0)
      /\ (p.chain = <<>> <=> Len(P) = 0) /\ (s.chain = <<>> <=> Len(O) = 0) /\ (c = <<>> <=> Len(G) = 0)
  BY <1>1, <1>2 DEF Sound
<1>4. /\ w.chain = p.chain \o s.chain /\ w.tail = s.tail /\ w.count = Len(P) + Len(O)
      /\ DOMAIN w = StackFields
  <2>1. CASE isStackEmpty(p)
    <3>1. p.chain = <<>> /\ Len(P) = 0 /\ w = s
      BY <1>3, <2>1 DEF isStackEmpty
    <3> QED BY <1>1, <1>3, <3>1, ConcatNone
  <2>2. CASE ~isStackEmpty(p)
    BY <1>3, <2>2 DEF Joined, StackFields
  <2> QED BY <2>1, <2>2
<1>5. /\ Matches(w.chain, P \o O, whole)
      /\ IsSequence(w.chain) /\ IsSequence(P \o O) /\ Len(w.chain) = Len(P) + Len(O)
  <2>1. Matches(p.chain, P, whole) /\ Matches(s.chain, O, whole)
    BY MatchLess
  <2>2. Matches(w.chain, P \o O, whole)
    BY <1>4, <2>1, MatchConcat
  <2>3. Len(P \o O) = Len(P) + Len(O)
    BY <1>1, ConcatIs DEF Joins
  <2> QED BY <2>2, <2>3 DEF Matches
<1> HIDE DEF w
<1>6. IsSequence(all) /\ ToSet(all) = ToSet(P \o O) \cup ToSet(G)
  BY <1>1, <1>5, ConcatIs
<1>7. r = Stacked(w, c)
  <2> DEFINE S == ToSet(w.chain) \cup ToSet(c)
  <2>1. w.chain \in Seq(S) /\ c \in Seq(S) /\ <<>> \in Seq(S)
    BY <1>1, <1>5, Widened
  <2> HIDE DEF S
  <2>2. Kept(w) \in Seq(S) /\ w.count \in Int
    BY <1>1, <1>4, <2>1 DEF Kept
  <2> QED BY <2>1, <2>2, PushedOnIs
<1> DEFINE joined == Matches(r.chain, all, whole) /\ r.count = Len(r.chain)
           known == /\ IsSequence(r.chain) /\ DOMAIN r = StackFields
                    /\ \A u \in ToSet(r.chain) : \E l \in ToSet(all) : From(u, l)
<1>8. joined /\ DOMAIN r = StackFields => known
  BY MatchFrom DEF Matches
<1>9. known /\ (kept => joined)
  <2>1. CASE c = <<>>
    <3>1. r = w /\ G = <<>>
      BY <1>3, <1>7, <2>1 DEF Stacked
    <3>2. all = P \o O
      BY <1>5, <3>1, ConcatNone
    <3>3. joined /\ DOMAIN r = StackFields
      BY <1>4, <1>5, <3>1, <3>2
    <3> HIDE DEF all, r, joined, known
    <3> QED BY <1>8, <3>3
  <2>2. CASE c # <<>>
    <3>1. r = [chain |-> Kept(w) \o c, tail |-> TRUE, count |-> w.count + Len(c)]
      BY <1>7, <2>2 DEF Stacked
    <3>2. r.chain = Kept(w) \o c /\ r.count = Len(P) + Len(O) + Len(G) /\ DOMAIN r = StackFields
      BY <1>1, <1>4, <3>1 DEF StackFields
    <3>3. CASE kept
      <4>1. Kept(w) = w.chain
        <5>1. G # <<>>
          BY <1>3, <2>2
        <5>2. CASE O # <<>>
          BY <1>3, <1>4, <5>2 DEF Kept, Sound
        <5>3. CASE O = <<>> /\ P = <<>>
          <6>1. p.chain = <<>> /\ s.chain = <<>>
            BY <1>3, <5>3
          <6>2. w.chain = <<>>
            BY <1>4, <6>1, EmptyIs, ConcatNone
          <6> QED BY <6>2 DEF Kept
        <5> QED BY <3>3, <5>1, <5>2, <5>3
      <4>2. Matches(r.chain, all, whole)
        BY <1>5, <3>2, <4>1, MatchConcat
      <4>3. Len(r.chain) = Len(P) + Len(O) + Len(G)
        <5>1. r.chain = w.chain \o c
          BY <3>2, <4>1
        <5>2. Len(w.chain \o c) = Len(w.chain) + Len(c)
          BY <1>1, <1>5, ConcatIs DEF Joins
        <5> HIDE DEF r
        <5> QED BY <1>1, <1>5, <5>1, <5>2
      <4>4. joined /\ DOMAIN r = StackFields
        BY <3>2, <4>2, <4>3
      <4> HIDE DEF all, r, joined, known
      <4> QED BY <1>8, <4>4
    <3>4. CASE ~kept
      <4>1. ~s.tail
        BY <1>3, <3>4 DEF Sound
      <4>2. Kept(w) = <<>>
        BY <1>4, <4>1 DEF Kept
      <4>3. r.chain = c
        BY <1>1, <3>2, <4>2, ConcatNone
      <4>4. \A u \in ToSet(c) : \E l \in ToSet(G) : From(u, l)
        BY MatchFrom
      <4>5. known
        BY <1>1, <1>6, <3>2, <4>3, <4>4
      <4> HIDE DEF all, r, joined, known
      <4> QED BY <3>4, <4>5
    <3> HIDE DEF all, r, joined, known, kept
    <3> QED BY <3>3, <3>4
  <2> QED BY <2>1, <2>2
<1>10. <<>> \o r.chain = r.chain /\ ToSet(<<>>) = {} /\ IsSequence(<<>>)
  BY <1>9, ConcatNone, EmptyIs
<1> HIDE DEF r, all, kept
<1>11. Staged(<<>>, r, all, kept, whole)
  BY <1>6, <1>9, <1>10 DEF Staged
<1> QED BY <1>11 DEF r, all, kept, w

(* The copies of the global updates for the first session.                 *)
LEMMA CopiesMatch ==
  ASSUME NEW us, NEW ls, Matches(us, ls, TRUE), NEW only \in BOOLEAN
  PROVE  Matches([i \in DOMAIN us |-> IF ~only THEN duplicateUpdate(us[i]) ELSE us[i]], ls, only)
<1> DEFINE c == [i \in DOMAIN us |-> IF ~only THEN duplicateUpdate(us[i]) ELSE us[i]]
           S == {c[i] : i \in DOMAIN us}
<1>1. /\ IsSequence(us) /\ IsSequence(ls) /\ Len(us) = Len(ls) /\ Len(us) \in Nat
      /\ DOMAIN us = 1..Len(us)
      /\ \A i \in 1..Len(ls) : From(us[i], ls[i]) /\ Whole(us[i], ls[i])
  BY SequenceIs DEF Matches
<1>2. c \in Seq(S) /\ Len(c) = Len(us)
  BY <1>1, IsSeq
<1>3. \A i \in 1..Len(ls) : c[i] = IF ~only THEN duplicateUpdate(us[i]) ELSE us[i]
  BY <1>1
<1>4. IsSequence(c)
  BY <1>2, SeqIs
<1> HIDE DEF c, S
<1>5. \A i \in 1..Len(ls) : From(c[i], ls[i]) /\ (only => Whole(c[i], ls[i]))
  BY <1>1, <1>3, CopiedFrom
<1>6. Matches(c, ls, only)
  BY <1>1, <1>2, <1>4, <1>5 DEF Matches
<1> QED BY <1>6 DEF c

LEMMA PostProcessKeeps ==
  ASSUME BrioInv, PostProcess
  PROVE  BrioInv'
<1> DEFINE copies(k) == [i \in DOMAIN globalUpdates.chain |->
                           IF k < count THEN duplicateUpdate(globalUpdates.chain[i])
                           ELSE globalUpdates.chain[i]]
           stack == PushedOn(WithParams(Stack1), copies(1))
<1>1. /\ pc = "post" /\ pc' \in {"release", "mode"}
      /\ paramUpdates' = (IF count # 0 THEN [paramUpdates EXCEPT !.count = 0] ELSE paramUpdates)
      /\ UNCHANGED <<argv, idx, params, count, retVal, files, data, stdin, taken, sent, bgp>>
  BY DEF PostProcess, disk, run
<1>2. /\ NothingPlayed /\ stdin = 0 /\ Structure /\ Collected(Len(argv))
      /\ SwitchedOff /\ params.create = Nothing /\ (params.mode = "BGP" \/ count # 0)
  BY <1>1, NothingYet DEF BrioInv, Preparing, PlayingOn
<1>3. /\ DOMAIN sessions' = DOMAIN sessions
      /\ sessions'[1] = IF 1 > count THEN sessions[1] ELSE [sessions[1] EXCEPT !.updates = stack]
  <2>1. 1 \in DOMAIN sessions
    BY <1>2 DEF Structure
  <2>2. sessions' = [k \in DOMAIN sessions |->
                       IF k > count THEN sessions[k]
                       ELSE [sessions[k] EXCEPT !.updates =
                               WithGlobals(IF k = 1 THEN WithParams(@) ELSE @, k)]]
    BY DEF PostProcess
  <2>3. sessions'[1] = IF 1 > count THEN sessions[1]
                       ELSE [sessions[1] EXCEPT !.updates = WithGlobals(WithParams(@), 1)]
    BY <2>1, <2>2
  <2>4. WithGlobals(WithParams(Stack1), 1) = stack
    BY DEF WithGlobals
  <2> HIDE DEF stack
  <2> QED BY <2>2, <2>3, <2>4 DEF Stack1, First
<1>4. ASSUME count # 0 PROVE Staged(<<>>, stack, Scripted', TailKept, count = 1)
  <2> DEFINE only == count = 1
             c == [i \in DOMAIN globalUpdates.chain |->
                     IF ~only THEN duplicateUpdate(globalUpdates.chain[i]) ELSE globalUpdates.chain[i]]
             w == IF isStackEmpty(paramUpdates) THEN Stack1 ELSE Joined(paramUpdates, Stack1)
             all == (ParamLines \o OwnLines) \o GlobalLines
  <2>1. /\ Sound(paramUpdates) /\ Matches(paramUpdates.chain, ParamLines, TRUE)
        /\ Sound(Stack1) /\ Matches(Stack1.chain, OwnLines, TRUE)
        /\ Matches(globalUpdates.chain, GlobalLines, TRUE)
    BY <1>2, <1>4, ParamLinesAre DEF Collected
  <2>2. Matches(c, GlobalLines, only)
    <3> HIDE DEF only
    <3>1. only \in BOOLEAN
      BY DEF only
    <3> QED BY <2>1, <3>1, CopiesMatch
  <2>3. DOMAIN Stack1 = StackFields
    BY <1>2 DEF Structure, SessionTyped, Stack1, First
  <2>4. Staged(<<>>, PushedOn(w, c), all, TailKept, only)
    <3> HIDE DEF c, only
    <3> QED BY <2>1, <2>2, <2>3, Assembled DEF TailKept
  <2>5. w = WithParams(Stack1)
    BY <1>4 DEF WithParams
  <2>6. c = copies(1)
    <3>1. 1 < count <=> ~only
      BY <1>2, <1>4 DEF Structure
    <3> QED BY <3>1
  <2>7. Scripted' = all
    <3>1. InputLines' = <<>>
      <4>1. stdin' = 0 /\ 0 \in 0..Len(StdinLines)
        BY <1>1, <1>2 DEF Structure
      <4> QED BY <4>1, InputUpToIs DEF InputLines, InputUpTo
    <3>2. ParamLines' = ParamLines /\ OwnLines' = OwnLines /\ GlobalLines' = GlobalLines
      BY <1>1, GivenSame
    <3>3. IsSequence(all)
      BY <2>4 DEF Staged
    <3> QED BY <3>1, <3>2, <3>3, ConcatNone DEF Scripted
  <2> HIDE DEF c, w, all
  <2> QED BY <2>4, <2>5, <2>6, <2>7
<1>5. /\ 1 \in DOMAIN sessions' /\ SessionTyped(sessions'[1]) /\ First'.conf = First.conf
      /\ count # 0 => Stack1' = stack
  <2>1. 1 \in DOMAIN sessions /\ SessionTyped(sessions[1]) /\ count \in Nat
    BY <1>2 DEF Structure
  <2> HIDE DEF stack
  <2>2. CASE count = 0
    BY <1>3, <2>1, <2>2 DEF First
  <2>3. CASE count # 0
    <3>1. ~(1 > count) /\ DOMAIN stack = StackFields
      BY <1>4, <2>1, <2>3 DEF Staged
    <3>2. sessions'[1] = [sessions[1] EXCEPT !.updates = stack]
      BY <1>3, <3>1
    <3>3. SessionTyped(sessions'[1]) /\ sessions'[1].updates = stack /\ sessions'[1].conf = sessions[1].conf
      BY <2>1, <3>1, <3>2 DEF SessionTyped
    <3> QED BY <1>3, <2>1, <3>3 DEF First, Stack1
  <2> QED BY <2>2, <2>3
<1>6. Structure'
  <2>1. DOMAIN paramUpdates' = StackFields
    BY <1>1, <1>2 DEF Structure
  <2> QED BY <1>1, <1>2, <1>5, <2>1 DEF Structure, Places, Playing
<1>7. count # 0 => OnStage'
  <2>1. ASSUME count # 0 PROVE OnStage'
    <3>1. Staged(taken', Stack1', Scripted', TailKept', count' = 1)
      <4>1. taken' = <<>> /\ Stack1' = stack /\ TailKept' = TailKept /\ count' = count
        BY <1>1, <1>2, <1>5, <2>1, GivenSame DEF NothingPlayed
      <4> HIDE DEF stack
      <4> QED BY <1>4, <2>1, <4>1
    <3>2. IsSequence(OwnLines) /\ IsSequence(GlobalLines)
      BY <1>2, <2>1 DEF Collected, Matches
    <3>3. OwnLines' = OwnLines /\ GlobalLines' = GlobalLines
      BY <1>1, GivenSame
    <3> QED BY <3>1, <3>2, <3>3 DEF OnStage
  <2> QED BY <2>1
<1> HIDE DEF stack
<1>8. SwitchedOff' /\ params'.create = Nothing
  BY <1>1, <1>2, <1>5 DEF SwitchedOff
<1>9. Preparing' /\ Generated'
  BY <1>1, <1>2 DEF Preparing, NothingPlayed, Generated, Playing
<1>10. PlayingOn'
  BY <1>1, <1>2, <1>7, <1>8 DEF PlayingOn, Playing
<1>11. NoBgpsecWhenOff'
  BY <1>1, <1>2, NothingSent DEF NothingPlayed
<1> QED BY <1>6, <1>9, <1>10, <1>11 DEF BrioInv

(* If no line is incomplete, all of them are used.                         *)
LEMMA AllComplete ==
  ASSUME NEW lines, IsSequence(lines), \A i \in 1..Len(lines) : ~Incomplete(lines[i])
  PROVE  Len(Complete(lines)) = Len(lines)
<1> DEFINE n == Len(lines)
           S == ToSet(lines)
           parts(k) == [i \in 1..k |-> IF Incomplete(lines[i]) THEN <<>> ELSE <<lines[i]>>]
           P == {k \in 0..n : Len(FlattenSeq(parts(k))) = k}
<1>1. n \in Nat /\ DOMAIN lines = 1..n /\ \A i \in 1..n : lines[i] \in S /\ ~Incomplete(lines[i])
  BY SequenceIs
<1>2. ASSUME NEW k \in 0..n
      PROVE  /\ FlattenSeq(parts(k)) \in Seq(S)
             /\ k = 0 => FlattenSeq(parts(k)) = <<>>
             /\ k > 0 => FlattenSeq(parts(k)) = FlattenSeq(parts(k - 1)) \o <<lines[k]>>
  <2>1. parts(k) \in [1..k -> Seq(S)] /\ k \in Nat
    BY <1>1
  <2>2. k > 0 => [i \in 1..(k - 1) |-> parts(k)[i]] = parts(k - 1) /\ parts(k)[k] = <<lines[k]>>
    BY <1>1
  <2> HIDE DEF parts, S
  <2> QED BY <2>1, <2>2, FlattenIs
<1>3. 0 \in P
  <2>1. 0 \in 0..n
    BY <1>1
  <2>2. Len(FlattenSeq(parts(0))) = 0
    BY <1>2, <2>1, EmptyIs
  <2> QED BY <2>1, <2>2
<1>4. ASSUME NEW k \in 1..n, k - 1 \in P PROVE k \in P
  <2> DEFINE a == FlattenSeq(parts(k - 1))
             b == FlattenSeq(parts(k))
  <2>1. k \in 0..n /\ k - 1 \in 0..n /\ k > 0 /\ lines[k] \in S
    BY <1>1
  <2>2. Len(a) = k - 1
    BY <1>4
  <2>3. a \in Seq(S) /\ b = a \o <<lines[k]>>
    BY <1>2, <2>1
  <2> HIDE DEF a, S
  <2>4. Len(b) = k
    BY <2>1, <2>2, <2>3
  <2> QED BY <2>1, <2>4
<1> HIDE DEF P, parts, n
<1>5. n \in P
  <2>1. n \in Nat /\ 0 \in P
    BY <1>1, <1>3
  <2>2. \A k \in 1..n : k - 1 \in P => k \in P
    BY <1>4
  <2>3. \A k \in 0..n : k \in P
    BY <2>1, <2>2, Upwards
  <2> QED BY <2>1, <2>3
<1>6. Len(FlattenSeq(parts(n))) = n
  BY <1>5 DEF P
<1> QED BY <1>1, <1>6 DEF Complete, parts, n

LEMMA GeneratedLinesAre ==
  /\ IsSequence(GeneratedLines) /\ Len(GeneratedLines) = 5
  /\ \A i \in 1..5 : ~Incomplete(GeneratedLines[i]) /\ ~Wrong(GeneratedLines[i])
<1> DEFINE a == [PlainLine("g1", "no", "-") EXCEPT !.sep = FALSE]
           b == PlainLine("g2", "blank", "-")
           c == PlainLine("g3", "no", "-")
           d == PlainLine("g4", "no", "-")
           e == PlainLine("g5", "no", "V")
           fine(l) == ~Incomplete(l) /\ ~Wrong(l)
<1>1. GeneratedLines = <<a, b, c, d, e>>
  BY DEF GeneratedLines
<1>2. fine(a) /\ fine(b) /\ fine(c) /\ fine(d) /\ fine(e)
  BY DEF PlainLine, Incomplete, Wrong
<1> HIDE DEF a, b, c, d, e, fine
<1>3. <<a, b, c, d, e>> \in Seq({a, b, c, d, e}) /\ Len(<<a, b, c, d, e>>) = 5
  OBVIOUS
<1>4. \A i \in 1..5 : fine(<<a, b, c, d, e>>[i])
  BY <1>2
<1> QED BY <1>1, <1>3, <1>4, SeqIs DEF fine

(* The updates of a generated file.                                        *)
LEMMA GeneratedUpdates ==
  ASSUME NEW off
  PROVE  LET r == readUpdates(GeneratedLines, off)
         IN  ~r.wrong /\ Sound(r.stack) /\ r.stack.count = 5
<1> DEFINE r == readUpdates(GeneratedLines, off)
<1>1. ~r.wrong
  <2> DEFINE I == {i \in 1..Len(GeneratedLines) : Wrong(GeneratedLines[i])}
  <2>1. I = {}
    BY GeneratedLinesAre
  <2>2. FirstWrong(GeneratedLines) = IF I # {} THEN Min(I) ELSE 0
    BY DEF FirstWrong, SelectInSeq
  <2> HIDE DEF I
  <2> QED BY <2>1, <2>2 DEF readUpdates
<1>2. Sound(r.stack) /\ Matches(r.stack.chain, Complete(GeneratedLines), TRUE)
  BY <1>1, GeneratedLinesAre, ReadUpdatesIs
<1>3. Len(Complete(GeneratedLines)) = 5
  BY GeneratedLinesAre, AllComplete
<1> HIDE DEF r
<1>4. r.stack.count = 5
  BY <1>2, <1>3 DEF Sound, Matches
<1> QED BY <1>1, <1>2, <1>4 DEF r

(* A setting of a session that is not computed is kept as it is written.   *)
LEMMA WrittenIsRead ==
  ASSUME NEW s, NEW off,
         NEW n \in DOMAIN s \cap DOMAIN initBGPSessionConfig,
         n \notin {"printOnReceive", "printOnSend", "update", "null_signature_mode",
                   "fake_signature", "fake_ski"}
  PROVE  ReadSession(s, off).conf[n] = s[n]
<1> DEFINE defaults == Override(initBGPSessionConfig, Missing(s))
           own == [k \in DOMAIN s \ (Printing \cup {"update"}) |-> s[k]]
           plain == Override(defaults, own)
           with == Override(plain, Algorithm(s))
           conf == Override(with, Printed(s))
<1>1. ReadSession(s, off).conf = conf
  BY DEF ReadSession
<1>2. DOMAIN Printed(s) = Printing \cap DOMAIN s
  BY DEF Printed
<1>3. DOMAIN Algorithm(s) = {"null_signature_mode", "fake_signature", "fake_ski"}
  BY DEF Algorithm
<1>4. n \in DOMAIN own /\ own[n] = s[n]
  BY DEF Printing
<1> HIDE DEF own
<1>5. n \in DOMAIN defaults
  BY OverrideIs
<1> HIDE DEF defaults
<1>6. n \in DOMAIN plain /\ plain[n] = s[n]
  BY <1>4, <1>5, OverrideIs
<1> HIDE DEF plain
<1>7. n \in DOMAIN with /\ with[n] = s[n]
  BY <1>3, <1>6, OverrideIs
<1> HIDE DEF with
<1>8. conf[n] = s[n]
  BY <1>2, <1>7, OverrideIs DEF Printing
<1> HIDE DEF conf
<1> QED BY <1>1, <1>8

LEMMA GeneratedIsUsable ==
  ASSUME NEW c, NEW address, address # Nothing
  PROVE  LET r == readConfig(initParams, generateFile(c, address))
             conf == r.sessions[1].conf
         IN  /\ ~r.error /\ r.count = 1 /\ Playable(conf)
             /\ \A n \in {"asn", "peer_asn", "peer_ip"} : c[n] # initBGPSessionConfig[n] => conf[n] = c[n]
             /\ Sound(r.sessions[1].updates) /\ r.sessions[1].updates.count = 5
<1> DEFINE f == generateFile(c, address)
           q == ReadGlobals(initParams, f.globals)
           off == q.disable_bgpsec
           r == readConfig(initParams, f)
           numbers == {"asn", "peer_asn", "peer_port"}
           addresses == {"bgp_ident", "peer_ip"}
<1>1. PICK s :
        /\ f.sessions = <<s>>
        /\ numbers \cup addresses \cup {"fake_signature", "fake_ski"} \subseteq DOMAIN s
        /\ "next_hop_ipv6" \notin DOMAIN s
        /\ s.signature_generation = "BIO" /\ s.null_signature_mode = "FAKE"
        /\ s.asn = AsNumbers(c).asn /\ s.peer_asn = AsNumbers(c).peer_asn /\ s.peer_port = 179
        /\ s.bgp_ident = address /\ s.peer_ip = OrDefault(c.peer_ip, Nothing, "10.0.1.32")
        /\ "update" \in DOMAIN s /\ s.update.list /\ s.update.lines = GeneratedLines
  BY DEF generateFile
<1>2. /\ f.found /\ f.parses /\ f.session = "list" /\ f.globals = GeneratedGlobals
      /\ f.update.list /\ f.update.lines = <<>>
  BY DEF generateFile
<1> HIDE DEF f
<1>3. q.mode = "BGP" /\ ~ModeWrong(f.globals)
  <2>1. "mode" \in DOMAIN initParams /\ "mode" \in DOMAIN GeneratedGlobals /\ GeneratedGlobals.mode = "BGP"
    BY DEF initParams, GeneratedGlobals
  <2>2. "mode" \in DOMAIN Unlimited(GeneratedGlobals) /\ Unlimited(GeneratedGlobals).mode = "BGP"
    BY <2>1 DEF Unlimited
  <2> QED BY <1>2, <2>1, <2>2, OverrideIs DEF ReadGlobals, ModeWrong, Modes
<1>4. SessionCount(f.sessions, q.mode) = 1 /\ f.sessions[1] = s
  BY <1>1, <1>3 DEF SessionCount
<1>5. ~SessionWrong(s)
  BY <1>1 DEF SessionWrong, Required, SigModes, NsModes
<1>6. LinesOf(s) = GeneratedLines /\ ~UpdatesWrong(s, off)
  BY <1>1, GeneratedUpdates DEF LinesOf, UpdatesWrong
<1>7. ~readUpdates(f.update.lines, off).wrong
  <2> DEFINE none == <<>>
             I == {i \in 1..Len(none) : Wrong(none[i])}
  <2>1. Len(none) = 0 /\ I = {}
    BY EmptyIs
  <2>2. FirstWrong(none) = IF I # {} THEN Min(I) ELSE 0
    BY DEF FirstWrong, SelectInSeq
  <2> HIDE DEF I
  <2> QED BY <1>2, <2>1, <2>2 DEF readUpdates
<1>8. ~r.error /\ r.count = 1 /\ r.sessions[1] = ReadSession(s, off)
  <2> DEFINE bad == {k \in 1..1 : SessionWrong(f.sessions[k])}
             list == [k \in 1..1 |-> IF bad = {} /\ ~ModeWrong(f.globals)
                                     THEN ReadSession(f.sessions[k], off) ELSE NewSession]
  <2>1. bad = {} /\ ~\E k \in 1..1 : UpdatesWrong(f.sessions[k], off)
    BY <1>4, <1>5, <1>6
  <2>2. /\ r.count = 1 /\ ~r.error /\ r.sessions = <<>> \o list
    BY <1>2, <1>3, <1>4, <1>7, <2>1 DEF readConfig
  <2>3. list[1] = ReadSession(s, off) /\ DOMAIN list = 1..1
    BY <1>3, <1>4, <2>1
  <2>4. IsSequence(list)
    <3>1. list \in Seq({list[k] : k \in 1..1})
      BY IsSeq
    <3> QED BY <3>1, SeqIs
  <2> HIDE DEF list, r
  <2> QED BY <2>2, <2>3, <2>4, ConcatNone
<1> DEFINE conf == r.sessions[1].conf
<1>9. \A n \in numbers \cup addresses : conf[n] = s[n]
  <2> SUFFICES ASSUME NEW n \in numbers \cup addresses PROVE conf[n] = s[n]
    OBVIOUS
  <2>1. n \in DOMAIN s \cap DOMAIN initBGPSessionConfig
    BY <1>1 DEF initBGPSessionConfig
  <2> HIDE DEF r, off
  <2> QED BY <1>8, <2>1, WrittenIsRead
<1>10. Sound(r.sessions[1].updates) /\ r.sessions[1].updates.count = 5
  <2> HIDE DEF r, off
  <2>1. r.sessions[1].updates = readUpdates(GeneratedLines, off).stack
    BY <1>6, <1>8 DEF ReadSession
  <2> QED BY <2>1, GeneratedUpdates
<1> HIDE DEF r, q
<1>11. /\ s.asn = OrDefault(c.asn, 0, 65000) /\ s.peer_asn = OrDefault(c.peer_asn, 0, 65005)
  BY <1>1 DEF AsNumbers
<1>12. Playable(conf)
  <2>1. conf.asn # 0 /\ conf.peer_asn # 0 /\ conf.peer_port # 0
    BY <1>1, <1>9, <1>11 DEF OrDefault
  <2>2. conf.bgp_ident # Nothing /\ conf.peer_ip # Nothing
    <3>1. conf.bgp_ident = address /\ conf.peer_ip = OrDefault(c.peer_ip, Nothing, "10.0.1.32")
      BY <1>1, <1>9
    <3> HIDE DEF conf
    <3> QED BY <3>1 DEF OrDefault, Nothing
  <2> HIDE DEF conf
  <2> QED BY <2>1, <2>2 DEF Playable
<1>13. \A n \in {"asn", "peer_asn", "peer_ip"} : c[n] # initBGPSessionConfig[n] => conf[n] = c[n]
  <2>1. initBGPSessionConfig.asn = 0 /\ initBGPSessionConfig.peer_asn = 0
        /\ initBGPSessionConfig.peer_ip = Nothing
    BY DEF initBGPSessionConfig
  <2> QED BY <1>1, <1>9, <1>11, <2>1 DEF OrDefault
<1> QED BY <1>8, <1>10, <1>12, <1>13 DEF r, f

LEMMA BrioStill ==
  ASSUME BrioInv, UNCHANGED vars
  PROVE  BrioInv'
<1> USE DEF vars
<1>1. Structure'
  BY DEF BrioInv, Structure
<1>2. /\ Scripted' = Scripted /\ Stack1' = Stack1 /\ TailKept' = TailKept
      /\ OwnLines' = OwnLines /\ GlobalLines' = GlobalLines
  BY GivenSame DEF Stack1, First
<1>3. \A n : Collected(n) => Collected(n)'
  BY <1>2, CollectedSame
<1>4. Preparing'
  BY <1>3 DEF BrioInv, Preparing, NothingDone, NothingPlayed
<1>5. PlayingOn'
  BY <1>2 DEF BrioInv, PlayingOn, SwitchedOff, OnStage, BgpTyped, First
<1>6. NoBgpsecWhenOff'
  BY <1>2, SentSame DEF BrioInv
<1>7. Generated'
  BY DEF BrioInv, Generated, First
<1> QED BY <1>1, <1>4, <1>5, <1>6, <1>7 DEF BrioInv

LEMMA BrioStep ==
  ASSUME BrioInv, [Next]_vars
  PROVE  BrioInv'
<1>1. CASE UNCHANGED vars
  BY <1>1, BrioStill
<1>2. CASE \E cl \in CommandLines : Start(cl)
  BY <1>2, StartKeeps
<1>3. CASE Scan \/ ReadConfig \/ ParseParam \/ EndParams \/ CheckSettings \/ PostProcess
  BY <1>3, ScanKeeps, ReadConfigKeeps, ParseParamKeeps, EndParamsKeeps, CheckSettingsKeeps,
     PostProcessKeeps
<1>4. CASE \E asked \in BOOLEAN : CreateConfig(asked)
  BY <1>4, CreateConfigKeeps
<1>5. CASE \E read \in BOOLEAN, init \in BOOLEAN : StartCapi(read, init)
  BY <1>5, StartCapiKeeps
<1>6. CASE \E read \in BOOLEAN, made \in BOOLEAN :
             CapiUpdate(read, made) \/ GenUpdate(read, made) \/ SendUpdate(read, made)
  BY <1>6, CapiUpdateKeeps, GenUpdateKeeps, SendUpdateKeeps
<1>7. CASE \E read \in BOOLEAN : CapiRecords(read) \/ EndGen(read)
  BY <1>7, CapiRecordsKeeps, EndGenKeeps
<1>8. CASE \E read \in BOOLEAN :
             StartBgp(read) \/ OpenTraffic(read) \/ SendRecord(read) \/ SendNothing(read)
  BY <1>8, StartBgpKeeps, OpenTrafficKeeps, SendRecordKeeps, SendNothingKeeps
<1>9. CASE StartGen \/ CapiRecord
  BY <1>9, StartGenKeeps, CapiRecordKeeps
<1>10. CASE NoBgpSession \/ EndBgp
  BY <1>10, EndsKeep
<1>11. CASE \/ \E caps \in PeerCaps : Established(caps)
            \/ \E goOn \in BOOLEAN : Lost(goOn)
            \/ EnterSending \/ LeaveSending
  BY <1>11, SessionSteps
<1>12. CASE Release
  BY <1>12, ReleaseKeeps
<1> QED BY <1>1, <1>2, <1>3, <1>4, <1>5, <1>6, <1>7, <1>8, <1>9, <1>10, <1>11, <1>12 DEF Next

LEMMA BrioAlways == Spec => []BrioInv
BY BrioInit, BrioStep, PTL DEF Spec

-----------------------------------------------------------------------------
(* The properties                                                          *)

(* What matches has the same names in the same order.                      *)
LEMMA MatchIds ==
  ASSUME NEW us, NEW ls, NEW whole, Matches(us, ls, whole)
  PROVE  Ids(us) = Ids(ls)
<1>1. DOMAIN us = 1..Len(ls) /\ DOMAIN ls = 1..Len(ls)
  BY SequenceIs DEF Matches
<1>2. \A i \in 1..Len(ls) : us[i].id = ls[i].id
  BY DEF Matches, From
<1> QED BY <1>1, <1>2 DEF Ids

LEMMA IdsConcat ==
  ASSUME NEW s, IsSequence(s), NEW t, IsSequence(t)
  PROVE  Ids(s) \o Ids(t) = Ids(s \o t)
<1> DEFINE m == Len(s)
           n == Len(t)
           both == s \o t
           S == {both[i].id : i \in 1..(m + n)}
<1>1. /\ m \in Nat /\ n \in Nat /\ DOMAIN s = 1..m /\ DOMAIN t = 1..n
      /\ IsSequence(both) /\ Len(both) = m + n
      /\ \A i \in 1..m : both[i] = s[i]
      /\ \A i \in 1..n : both[m + i] = t[i]
  BY SequenceIs, ConcatIs DEF Joins
<1>2. DOMAIN both = 1..(m + n)
  BY <1>1, SequenceIs
<1> HIDE DEF both, m, n
<1>3. Ids(s) \in Seq(S) /\ Len(Ids(s)) = m /\ \A i \in 1..m : Ids(s)[i] = both[i].id
  <2>1. Ids(s) = [i \in 1..m |-> s[i].id]
    BY <1>1 DEF Ids
  <2>2. \A i \in 1..m : s[i].id \in S
    BY <1>1
  <2> HIDE DEF S
  <2>3. Ids(s) \in [1..m -> S]
    BY <2>1, <2>2
  <2> QED BY <1>1, <2>1, <2>3, FunctionIsSeq
<1>4. Ids(t) \in Seq(S) /\ Len(Ids(t)) = n /\ \A i \in 1..n : Ids(t)[i] = both[m + i].id
  <2>1. Ids(t) = [i \in 1..n |-> t[i].id]
    BY <1>1 DEF Ids
  <2>2. \A i \in 1..n : t[i].id = both[m + i].id /\ m + i \in 1..(m + n)
    BY <1>1
  <2>3. \A i \in 1..n : t[i].id \in S
    BY <2>2
  <2> HIDE DEF S
  <2>4. Ids(t) \in [1..n -> S]
    BY <2>1, <2>3
  <2> QED BY <1>1, <2>1, <2>2, <2>4, FunctionIsSeq
<1>5. Ids(both) \in Seq(S) /\ Len(Ids(both)) = m + n /\ \A i \in 1..(m + n) : Ids(both)[i] = both[i].id
  <2>1. Ids(both) = [i \in 1..(m + n) |-> both[i].id]
    BY <1>2 DEF Ids
  <2>2. Ids(both) \in [1..(m + n) -> S] /\ m + n \in Nat
    BY <1>1, <2>1
  <2> HIDE DEF S
  <2> QED BY <2>1, <2>2, FunctionIsSeq
<1> HIDE DEF S
<1>6. Ids(s) \o Ids(t) \in Seq(S) /\ Joins(Ids(s) \o Ids(t), Ids(s), Ids(t))
  BY <1>3, <1>4, ConcatParts
<1>7. \A i \in 1..(m + n) : (Ids(s) \o Ids(t))[i] = Ids(both)[i]
  <2> SUFFICES ASSUME NEW i \in 1..(m + n) PROVE (Ids(s) \o Ids(t))[i] = Ids(both)[i]
    OBVIOUS
  <2> DEFINE c == Ids(s) \o Ids(t)
  <2>4. m \in Nat /\ n \in Nat
    BY <1>1
  <2>1. CASE i <= m
    <3>1. i \in 1..m /\ i \in 1..Len(Ids(s))
      BY <2>4, <2>1, <1>3
    <3>2. c[i] = Ids(s)[i]
      BY <1>6, <3>1 DEF Joins
    <3> HIDE DEF c
    <3> QED BY <1>3, <1>5, <3>1, <3>2
  <2>2. CASE i > m
    <3>1. i - m \in 1..n /\ m + (i - m) = i
      BY <1>1, <2>2
    <3>2. (Ids(s) \o Ids(t))[m + (i - m)] = Ids(t)[i - m]
      BY <1>3, <1>4, <1>6, <3>1 DEF Joins
    <3> QED BY <1>4, <1>5, <3>1, <3>2
  <2>3. i <= m \/ i > m
    BY <2>4
  <2> QED BY <2>1, <2>2, <2>3
<1>8. Len(Ids(s) \o Ids(t)) = Len(Ids(both))
  BY <1>3, <1>4, <1>5, <1>6 DEF Joins
<1>9. Ids(s) \o Ids(t) = Ids(both)
  BY <1>5, <1>6, <1>7, <1>8, <1>1, SeqEqual
<1> QED BY <1>9 DEF both

LEMMA ScriptedIsPlayed == BrioInv => UpdatesAsScripted
<1> SUFFICES ASSUME BrioInv PROVE UpdatesAsScripted
  OBVIOUS
<1>1. pc = "fault" /\ TailKept => bgp # NoSession /\ bgp.pos # 1
  BY DEF BrioInv, PlayingOn
<1>2. ASSUME pc \in Playing, count # 0, TailKept
      PROVE  /\ Ahead = Ids(Scripted)
             /\ Stack1.count = Len(Stack1.chain)
             /\ count = 1 => \A i \in DOMAIN Scripted :
                  /\ (taken \o Stack1.chain)[i].asSet = AsSet(Scripted[i])
                  /\ Scripted[i].sep => (taken \o Stack1.chain)[i].validation = Scripted[i].val
  <2> DEFINE ahead == taken \o Stack1.chain
  <2>1. /\ IsSequence(taken) /\ IsSequence(Stack1.chain)
        /\ Matches(ahead, Scripted, count = 1) /\ Stack1.count = Len(Stack1.chain)
    BY <1>2 DEF BrioInv, PlayingOn, OnStage, Staged
  <2>2. Ahead = Ids(ahead)
    BY <2>1, IdsConcat DEF Ahead
  <2> HIDE DEF ahead
  <2>3. Ids(ahead) = Ids(Scripted)
    BY <2>1, MatchIds
  <2>4. DOMAIN Scripted = 1..Len(Scripted)
    BY <2>1, SequenceIs DEF Matches
  <2>5. count = 1 => \A i \in 1..Len(Scripted) : Whole(ahead[i], Scripted[i])
    BY <2>1 DEF Matches
  <2> QED BY <2>1, <2>2, <2>3, <2>4, <2>5 DEF Whole, ahead
<1> QED BY <1>1, <1>2 DEF UpdatesAsScripted

(* Every update given on the command line, in the configuration file or on *)
(* the standard input is played exactly once and in order, for any lines   *)
(* and any sessions (readConfig, parseParams, postProcessUpdateStack,      *)
(* isUpdateStackEmpty); the one script whose stacks come apart is named.   *)
THEOREM PlaysAsScripted == Spec => []UpdatesAsScripted
BY BrioAlways, ScriptedIsPlayed, PTL

(* Whatever the order of the options and whatever the file says, nothing   *)
(* goes out as BGPsec or is validated with BGPsec disabled, nor an update  *)
(* for which BGP-4 was asked or that has an AS_SET (createUpdate,          *)
(* _checkSettings, _runBGPRouterSession).                                  *)
THEOREM SendsNoBgpsecWhenOff == Spec => []NoBgpsecWhenOff
<1>1. BrioInv => NoBgpsecWhenOff
  BY DEF BrioInv
<1> QED BY <1>1, BrioAlways, PTL

(* Any configuration file brio_tg generates is read without an error, has  *)
(* the AS numbers and the peer the run was told, can be played and has     *)
(* five updates (generateFile, readConfig, checkBGPConfig).                *)
THEOREM GeneratesUsableConfig == Spec => []GeneratedConfigUsable
<1>1. BrioInv => GeneratedConfigUsable
  <2> SUFFICES ASSUME BrioInv, pc = "release", retVal = 0, ~HelpAsked(argv), params.create # Nothing
               PROVE  LET r == readConfig(initParams, files[params.create])
                          conf == r.sessions[1].conf
                          told(n) == First.conf[n] # initBGPSessionConfig[n]
                      IN /\ ~r.error /\ r.count = 1
                         /\ Playable(conf)
                         /\ \A n \in {"asn", "peer_asn", "peer_ip"} : told(n) => conf[n] = First.conf[n]
                         /\ Sound(r.sessions[1].updates) /\ r.sessions[1].updates.count = 5
    BY DEF GeneratedConfigUsable
  <2>1. PICK address : /\ address # Nothing
                       /\ files[params.create] = generateFile(First.conf, address)
    BY DEF BrioInv, Generated
  <2> QED BY <2>1, GeneratedIsUsable
<1> QED BY <1>1, BrioAlways, PTL
=============================================================================
