--------------------------- MODULE RtrServerProofs ---------------------------
(***************************************************************************)
(* The connections of brio_rc for any number of peers and descriptors: as  *)
(* long as no descriptor came back before the thread that had it, and the  *)
(* hash, were through with it, the number of a descriptor is as good as a  *)
(* name.  That is what every lookup in the hash relies on.                 *)
(*                                                                         *)
(* And the lock (TimerLock) under which the clients' threads read the list *)
(* of the cache.                                                           *)
(***************************************************************************)
EXTENDS RtrServer, TimerLock, FiniteSetTheorems, SequenceTheorems, WellFoundedInduction, TLAPS

ThreadStates == {"none", "find", "loop", "reply", "status", "wipe", "done"}

ServerTypes ==
  /\ peer \in [Conns -> PeerStates]
  /\ fd \in [Conns -> Fds \cup {0}]
  /\ owner \in [Fds -> Conns \cup {NULL}]
  /\ acceptor \in {"accept", "status", "done"}
  /\ order \in Seq(Conns)
  /\ entry \in [Conns -> Entry]
  /\ ccl \in [Conns -> Conns \cup {NULL}]
  /\ thread \in [Conns -> ThreadStates]
  /\ cast \in [pc : {"idle", "send", "next", "end"}, at : Conns \cup {NULL}]
  /\ due \in [Conns -> {"no", "due", "told", "twice"}]

(* The list holds the entries that are linked, each once.                  *)
HashSound ==
  /\ \A i, j \in 1..Len(order) : order[i] = order[j] => i = j
  /\ \A c \in Conns : c \in Linked <=> \E i \in 1..Len(order) : order[i] = c

(* Accepted, and handleStatus was not called yet.                          *)
Fresh(c) == peer[c] # "none" /\ entry[c].state = "none"

(* The descriptor is this connection's, open.                              *)
Holding(c) == Fresh(c) \/ thread[c] \in {"find", "loop", "reply"}

(* Somebody will look for this connection by its descriptor.               *)
Claims(c) ==
  Holding(c) \/ thread[c] = "status" \/ (c \in Linked /\ entry[c].fd # -1)

(* Where a connection, its entry and its thread can be together.           *)
LifeSound(c) ==
  /\ peer[c] = "none" => entry[c].state = "none"
  /\ entry[c].state = "none" => thread[c] = "none"
  /\ Fresh(c) => acceptor = "status"
  /\ peer[c] # "none" => fd[c] \in Fds
  /\ c \in Linked => entry[c].fd \in {fd[c], -1}
  /\ thread[c] \in {"find", "loop", "reply", "status"} => c \in Linked
  /\ thread[c] \in {"loop", "reply"} => ccl[c] = c
  /\ thread[c] = "wipe" => ccl[c] = c /\ entry[c].state = "off"
  /\ thread[c] = "done" => c \notin Linked \/ entry[c].fd = -1

(* Descriptors name connections; who is up has his.                        *)
OwnersSound(c) ==
  /\ peer[c] = "up" => Holding(c)
  /\ Holding(c) => owner[fd[c]] = c /\ peer[c] \in {"up", "gone"}
  /\ Claims(c) => owner[fd[c]] \in {c, NULL}
  /\ c \in Linked /\ entry[c].fd = -1 => peer[c] # "up"

NumbersUnique ==
  \A c, d \in Conns : Claims(c) /\ Claims(d) /\ fd[c] = fd[d] => c = d

VersionsSound(c) ==
  Proper(c) =>
    /\ peer[c] # "closed"
    /\ c \in Linked => entry[c].version \in Versions[c] \cup {UNDEF}
    /\ thread[c] = "reply" => entry[c].version \in Versions[c]

(* Who is due has been told if the walk is past him, and only then.        *)
Walking == cast.pc \in {"send", "next"}
Passed(i, k) == i < k \/ (i = k /\ cast.pc = "next")
WalkSound ==
  /\ cast.pc = "idle" => due = NobodyDue
  /\ Walking => cast.at \in Conns
  /\ Walking /\ due # NobodyDue => cast.at \in Linked
  /\ \A c \in Conns : due[c] # "no" => c \in Linked
  /\ Walking => \A i, k \in 1..Len(order) : order[k] = cast.at =>
       /\ Passed(i, k) /\ peer[order[i]] = "up" => due[order[i]] \in {"no", "told"}
       /\ ~Passed(i, k) => due[order[i]] \in {"no", "due"}
  /\ cast.pc = "end" => \A c \in Conns : peer[c] = "up" => due[c] \in {"no", "told"}

Sound ==
  /\ ServerTypes
  /\ HashSound
  /\ \A c \in Conns : LifeSound(c)
  /\ \A c, d \in Conns : Fresh(c) /\ Fresh(d) => c = d
  /\ \A c \in Conns : OwnersSound(c)
  /\ NumbersUnique
  /\ \A c \in Conns : VersionsSound(c)
  /\ WalkSound

ServerInv == ~early => Sound

-----------------------------------------------------------------------------
(* A set of positions has a first one.                                     *)
LEMMA SmallestNumber ==
  ASSUME NEW I \in SUBSET Nat, I # {}
  PROVE  Min(I) \in I /\ \A j \in I : Min(I) <= j
<1>1. PICK x \in I : \A y \in I : <<y, x>> \notin OpToRel(<, Nat)
  BY NatLessThanWellFounded, WFMin, Zenon
<1>2. \A y \in I : ~(y < x)
  BY <1>1, Zenon DEF OpToRel
<1>3. \A y \in I : x <= y
  BY <1>2
<1> QED
  BY <1>3 DEF Min

(* accept gives a free descriptor if there is one.                         *)
LEMMA FreeDescriptor ==
  ASSUME ServerTypes, Free # {}
  PROVE  Min(Free) \in Fds /\ owner[Min(Free)] = NULL
<1>1. Free \in SUBSET Nat
  BY ServerInputs DEF Free
<1>2. Min(Free) \in Free
  BY <1>1, SmallestNumber
<1> QED
  BY <1>2 DEF Free

(* Numbers in the hash are unique, so a lookup finds the one there is.     *)
LEMMA FindEntry ==
  ASSUME ServerTypes, HashSound, NEW f \in Fds, f # -1,
         \A c, d \in Linked : entry[c].fd = f /\ entry[d].fd = f => c = d
  PROVE  /\ Find(f) = NULL => \A c \in Linked : entry[c].fd # f
         /\ Find(f) # NULL => Find(f) \in Linked /\ entry[Find(f)].fd = f
<1> DEFINE I == {i \in 1..Len(order) : entry[order[i]].fd = f}
<1>1. Find(f) = IF (IF I # {} THEN Max(I) ELSE 0) = 0 THEN NULL ELSE order[IF I # {} THEN Max(I) ELSE 0]
  BY DEF Find, SelectLastInSeq
<1>2. Len(order) \in Nat /\ \A i \in 1..Len(order) : order[i] \in Linked /\ order[i] \in Conns
  BY DEF ServerTypes, HashSound
<1>3. \A i, j \in I : i = j
  BY <1>2 DEF HashSound
<1>4. CASE I = {}
  <2>1. \A c \in Linked : entry[c].fd # f
    BY <1>4 DEF HashSound, Linked
  <2> QED BY <1>1, <1>4, <2>1
<1>5. CASE I # {}
  <2>1. PICK i \in I : TRUE
    BY <1>5
  <2>2. Max(I) = i
    <3>1. I = {i}
      BY <1>3, <2>1
    <3>2. \A y \in {i} : i >= y
      BY <1>2, <2>1
    <3> HIDE DEF I
    <3> QED BY <3>1, <3>2 DEF Max
  <2>3. Find(f) = order[i]
    <3> HIDE DEF I
    <3>1. i # 0
      BY <1>2, <2>1 DEF I
    <3> QED BY <1>1, <1>5, <2>2, <3>1
  <2>4. order[i] \in Linked /\ entry[order[i]].fd = f /\ order[i] # NULL
    BY <1>2, <2>1, ServerInputs
  <2> QED BY <2>3, <2>4
<1> QED
  BY <1>4, <1>5

(* An entry is at one place of the list, and the next one follows it.      *)
LEMMA NextInList ==
  ASSUME ServerTypes, HashSound, NEW c \in Conns
  PROVE  /\ After(c) \in Conns \cup {NULL}
         /\ \A k \in 1..Len(order) : order[k] = c =>
              /\ SelectInSeq(order, LAMBDA d : d = c) = k
              /\ After(c) = IF k = Len(order) THEN NULL ELSE order[k + 1]
<1> DEFINE I == {i \in 1..Len(order) : order[i] = c}
           s == SelectInSeq(order, LAMBDA d : d = c)
<1>1. s = IF I # {} THEN Min(I) ELSE 0
  BY DEF SelectInSeq
<1>2. Len(order) \in Nat /\ \A i \in 1..Len(order) : order[i] \in Conns
  BY DEF ServerTypes
<1>3. After(c) = IF s = 0 \/ s = Len(order) THEN NULL ELSE order[s + 1]
  BY DEF After
<1>4. \A k \in 1..Len(order) : order[k] = c => I = {k}
  BY DEF HashSound
<1>5. \A k \in 1..Len(order) : order[k] = c => s = k
  <2> TAKE k \in 1..Len(order)
  <2> HAVE order[k] = c
  <2>1. I = {k}
    BY <1>4
  <2>2. Min({k}) = k
    BY DEF Min
  <2> HIDE DEF I
  <2> QED BY <1>1, <2>1, <2>2
<1>6. s \in 0..Len(order)
  <2>1. CASE I = {}
    <3>1. s = 0
      <4> HIDE DEF I, s
      <4> QED BY <1>1, <2>1
    <3> HIDE DEF s
    <3> QED BY <1>2, <3>1
  <2>2. CASE I # {}
    <3>1. PICK k \in 1..Len(order) : order[k] = c
      BY <2>2
    <3>2. s = k
      BY <1>5, <3>1
    <3> HIDE DEF s
    <3> QED BY <1>2, <3>1, <3>2
  <2> QED BY <2>1, <2>2
<1> HIDE DEF s
<1>7. After(c) \in Conns \cup {NULL}
  BY <1>2, <1>3, <1>6
<1>8. \A k \in 1..Len(order) : order[k] = c => s = k /\ After(c) = IF k = Len(order) THEN NULL ELSE order[k + 1]
  BY <1>2, <1>3, <1>5
<1> QED
  BY <1>7, <1>8 DEF s

(* HASH_DEL takes one entry out and leaves the others.                     *)
LEMMA RemovedFromList ==
  ASSUME ServerTypes, HashSound, NEW e \in Linked
  PROVE  LET new == RemoveFirst(order, e)
         IN  /\ new \in Seq(Conns)
             /\ \A i, j \in 1..Len(new) : new[i] = new[j] => i = j
             /\ \A c \in Conns : c \in Linked \ {e} <=> \E i \in 1..Len(new) : new[i] = c
<1>1. PICK k \in 1..Len(order) : order[k] = e
  BY DEF HashSound, Linked
<1>2. SelectInSeq(order, LAMBDA d : d = e) = k
  BY <1>1, NextInList DEF Linked
<1>3. RemoveFirst(order, e) = SubSeq(order, 1, k - 1) \o SubSeq(order, k + 1, Len(order))
  BY <1>1, <1>2 DEF RemoveFirst, RemoveAt
<1> DEFINE a == SubSeq(order, 1, k - 1)
           b == SubSeq(order, k + 1, Len(order))
<1>4. Len(order) \in Nat /\ \A i \in 1..Len(order) : order[i] \in Conns
  BY DEF ServerTypes
<1>5. /\ a \in Seq(Conns) /\ Len(a) = k - 1 /\ \A i \in 1..k - 1 : a[i] = order[i]
  <2>1. \A i \in 1..k - 1 : order[i] \in Conns
    BY <1>4
  <2>2. /\ SubSeq(order, 1, k - 1) \in Seq(Conns)
        /\ Len(SubSeq(order, 1, k - 1)) = IF 1 <= k - 1 THEN (k - 1) - 1 + 1 ELSE 0
        /\ \A i \in 1..(k - 1) - 1 + 1 : SubSeq(order, 1, k - 1)[i] = order[1 + i - 1]
    BY <2>1, <1>4, SubSeqProperties
  <2> QED BY <2>2, <1>4
<1>6. /\ b \in Seq(Conns) /\ Len(b) = Len(order) - k
      /\ \A i \in 1..Len(order) - k : b[i] = order[k + i]
  <2>1. \A i \in k + 1..Len(order) : order[i] \in Conns
    BY <1>4
  <2>2. /\ SubSeq(order, k + 1, Len(order)) \in Seq(Conns)
        /\ Len(SubSeq(order, k + 1, Len(order))) = IF k + 1 <= Len(order) THEN Len(order) - (k + 1) + 1 ELSE 0
        /\ \A i \in 1..Len(order) - (k + 1) + 1 : SubSeq(order, k + 1, Len(order))[i] = order[k + 1 + i - 1]
    BY <2>1, <1>4, SubSeqProperties
  <2> QED BY <2>2, <1>4
<1> DEFINE new == a \o b
<1> HIDE DEF a, b
<1>7. /\ new \in Seq(Conns) /\ Len(new) = Len(order) - 1
      /\ \A i \in 1..Len(order) - 1 : new[i] = IF i < k THEN order[i] ELSE order[i + 1]
  <2>1. /\ a \o b \in Seq(Conns) /\ Len(a \o b) = Len(a) + Len(b)
        /\ \A i \in 1..Len(a) + Len(b) : (a \o b)[i] = IF i <= Len(a) THEN a[i] ELSE b[i - Len(a)]
    BY <1>5, <1>6, ConcatProperties
  <2>2. Len(a) + Len(b) = Len(order) - 1
    BY <1>4, <1>5, <1>6
  <2>3. ASSUME NEW i \in 1..Len(order) - 1
        PROVE  new[i] = IF i < k THEN order[i] ELSE order[i + 1]
    <3>1. CASE i < k
      BY <1>4, <1>5, <2>1, <2>2, <3>1
    <3>2. CASE i >= k
      <4>1. i - Len(a) \in 1..Len(order) - k /\ k + (i - Len(a)) = i + 1 /\ ~(i <= Len(a))
        BY <1>4, <1>5, <3>2
      <4>2. new[i] = b[i - Len(a)]
        BY <2>1, <2>2, <4>1
      <4>3. b[i - Len(a)] = order[k + (i - Len(a))]
        BY <1>6, <4>1
      <4> HIDE DEF new
      <4> QED BY <1>4, <3>2, <4>1, <4>2, <4>3
    <3> HIDE DEF new
    <3> QED BY <3>1, <3>2, <1>4
  <2> QED BY <2>1, <2>2, <2>3
<1> HIDE DEF new
<1>8. \A i, j \in 1..Len(new) : new[i] = new[j] => i = j
  BY <1>4, <1>7 DEF HashSound
<1>9. ASSUME NEW c \in Conns
      PROVE  c \in Linked \ {e} <=> \E i \in 1..Len(new) : new[i] = c
  <2>1. ASSUME c \in Linked, c # e PROVE \E i \in 1..Len(new) : new[i] = c
    <3>1. PICK j \in 1..Len(order) : order[j] = c
      BY <2>1 DEF HashSound
    <3>2. j # k
      BY <1>1, <2>1, <3>1
    <3>3. CASE j < k
      <4>1. j \in 1..Len(new)
        BY <1>4, <1>7, <3>3
      <4> WITNESS j \in 1..Len(new)
      <4> QED BY <1>4, <1>7, <3>1, <3>3
    <3>4. CASE j > k
      <4>1. j - 1 \in 1..Len(new)
        BY <1>4, <1>7, <3>4
      <4> WITNESS j - 1 \in 1..Len(new)
      <4> QED BY <1>4, <1>7, <3>1, <3>4
    <3> QED BY <1>4, <3>2, <3>3, <3>4
  <2>2. ASSUME NEW i \in 1..Len(new), new[i] = c PROVE c \in Linked /\ c # e
    BY <1>1, <1>4, <1>7, <2>2 DEF HashSound
  <2> QED BY <2>1, <2>2
<1>10. RemoveFirst(order, e) = new
  BY <1>3 DEF new, a, b
<1> QED
  BY <1>7, <1>8, <1>9, <1>10

-----------------------------------------------------------------------------
LEMMA SoundInit == Init => ServerInv
<1> SUFFICES ASSUME Init PROVE Sound
  BY DEF ServerInv
<1>1. \A c \in Conns : c \notin Linked
  BY DEF Init, Linked, NoEntry
<1>2. ServerTypes
  <2>1. order \in Seq(Conns)
    BY DEF Init
  <2> QED BY <2>1 DEF Init, ServerTypes, PeerStates, Entry, NoEntry, ThreadStates, Silent, NobodyDue, UNDEF
<1>3. Len(order) = 0
  BY DEF Init
<1>4. HashSound
  BY <1>1, <1>3 DEF HashSound
<1>5. ASSUME NEW c \in Conns PROVE ~Claims(c) /\ LifeSound(c) /\ OwnersSound(c) /\ VersionsSound(c)
  BY <1>1 DEF Init, Claims, Holding, Fresh, LifeSound, OwnersSound, VersionsSound, NoEntry
<1>6. WalkSound
  BY <1>1 DEF Init, WalkSound, Walking, Silent, NobodyDue
<1>7. \A c, d \in Conns : Fresh(c) /\ Fresh(d) => c = d
  BY DEF Init, Fresh
<1> QED
  BY <1>2, <1>4, <1>5, <1>6, <1>7 DEF Sound, NumbersUnique

(* Who claims a descriptor has got one.                                    *)
LEMMA ClaimsHaveNumbers ==
  ASSUME Sound, NEW c \in Conns, Claims(c)
  PROVE  fd[c] \in Fds
BY DEF Sound, LifeSound, Claims, Holding, Fresh, Linked

(* A lookup by the number of one's own descriptor.                         *)
LEMMA FindsItself ==
  ASSUME Sound, NEW c \in Conns, Claims(c), c \in Linked
  PROVE  /\ fd[c] \in Fds
         /\ Find(fd[c]) = IF entry[c].fd = -1 THEN NULL ELSE c
<1>1. fd[c] \in Fds /\ entry[c].fd \in {fd[c], -1} /\ c # NULL
  BY ServerInputs DEF Sound, LifeSound, Linked
<1>2. fd[c] # -1 /\ fd[c] # 0
  BY <1>1, ServerInputs
<1>3. \A d \in Linked : entry[d].fd = fd[c] => d = c
  <2> TAKE d \in Linked
  <2> HAVE entry[d].fd = fd[c]
  <2>1. d \in Conns /\ Claims(d)
    BY <1>2 DEF Claims, Linked
  <2>2. fd[d] = fd[c]
    BY <1>2, <2>1 DEF Sound, LifeSound
  <2> QED BY <2>1, <2>2 DEF Sound, NumbersUnique
<1>4. /\ Find(fd[c]) = NULL => \A d \in Linked : entry[d].fd # fd[c]
      /\ Find(fd[c]) # NULL => Find(fd[c]) \in Linked /\ entry[Find(fd[c])].fd = fd[c]
  <2>1. ServerTypes /\ HashSound
    BY DEF Sound
  <2>2. \A d, g \in Linked : entry[d].fd = fd[c] /\ entry[g].fd = fd[c] => d = g
    BY <1>3
  <2> QED BY <1>1, <1>2, <2>1, <2>2, FindEntry
<1> QED
  BY <1>1, <1>2, <1>3, <1>4

(* A descriptor that accept gives without being early is named by nobody.  *)
LEMMA NotClaimed ==
  ASSUME Sound, NEW f \in Fds, owner[f] = NULL, Find(f) = NULL,
         \A d \in Conns : ~(fd[d] = f /\ thread[d] = "status")
  PROVE  \A d \in Conns : Claims(d) => fd[d] # f
<1>1. f # -1 /\ f # 0
  BY ServerInputs
<1>2. \A d \in Linked : entry[d].fd # f
  <2>1. ServerTypes /\ HashSound
    BY DEF Sound
  <2>2. ASSUME NEW d \in Linked, NEW g \in Linked, entry[d].fd = f, entry[g].fd = f
        PROVE  d = g
    <3>1. d \in Conns /\ g \in Conns /\ Claims(d) /\ Claims(g)
      BY <1>1, <2>2 DEF Claims, Linked
    <3>2. fd[d] = f /\ fd[g] = f
      BY <1>1, <2>2, <3>1 DEF Sound, LifeSound
    <3> QED BY <3>1, <3>2 DEF Sound, NumbersUnique
  <2>3. \A d, g \in Linked : entry[d].fd = f /\ entry[g].fd = f => d = g
    BY <2>2
  <2> QED BY <1>1, <2>1, <2>3, FindEntry
<1> TAKE d \in Conns
<1> HAVE Claims(d)
<1>3. CASE Holding(d)
  BY <1>3, ServerInputs DEF Sound, OwnersSound
<1>4. CASE thread[d] = "status"
  BY <1>4
<1>5. CASE d \in Linked /\ entry[d].fd # -1
  BY <1>2, <1>5 DEF Sound, LifeSound
<1> QED
  BY <1>3, <1>4, <1>5 DEF Claims

-----------------------------------------------------------------------------
(* The server loop.                                                        *)
LEMMA AcceptSound ==
  ASSUME Sound, NEW c \in Conns, Accept(c), ~early'
  PROVE  Sound'
<1> DEFINE f == Min(Free)
<1>1. f \in Fds /\ owner[f] = NULL /\ f # 0
  BY FreeDescriptor, ServerInputs DEF Sound, Accept
<1> HIDE DEF f
<1>2. /\ peer[c] = "none" /\ acceptor = "accept" /\ acceptor' = "status"
      /\ owner' = [owner EXCEPT ![f] = c] /\ fd' = [fd EXCEPT ![c] = f]
      /\ peer' = [peer EXCEPT ![c] = "up"]
      /\ UNCHANGED <<order, entry, ccl, thread, cast, due>>
      /\ Find(f) = NULL /\ \A d \in Conns : ~(fd[d] = f /\ thread[d] = "status")
  BY DEF Accept, f, hashVars, threadVars, castVars
<1>3. \A d \in Conns : Claims(d) => fd[d] # f
  BY <1>1, <1>2, NotClaimed
<1> USE DEF Sound
<1>4. ServerTypes'
  BY <1>1, <1>2 DEF ServerTypes, PeerStates
<1>5. HashSound'
  BY <1>2 DEF HashSound, Linked
<1>6. entry[c].state = "none" /\ thread[c] = "none" /\ c \notin Linked
  BY <1>2 DEF LifeSound, Linked
<1>7. \A d \in Conns : /\ d # c => peer'[d] = peer[d] /\ fd'[d] = fd[d] /\ (Holding(d)' <=> Holding(d))
                                 /\ (Claims(d)' <=> Claims(d)) /\ ~Fresh(d)'
                       /\ d = c => peer'[d] = "up" /\ fd'[d] = f /\ Holding(d)' /\ Claims(d)' /\ Fresh(d)'
                       /\ (d \in Linked)' <=> d \in Linked
  BY <1>2, <1>6 DEF ServerTypes, Holding, Claims, Fresh, Linked, LifeSound
<1>8. ASSUME NEW d \in Conns PROVE LifeSound(d)' /\ VersionsSound(d)'
  BY <1>1, <1>2, <1>6, <1>7 DEF LifeSound, VersionsSound, Proper
<1>9. ASSUME NEW d \in Conns PROVE OwnersSound(d)'
  <2>1. CASE d = c
    BY <1>1, <1>2, <1>6, <1>7, <2>1 DEF OwnersSound, ServerTypes
  <2>2. CASE d # c
    <3>1. Claims(d) => fd[d] # f /\ owner'[fd[d]] = owner[fd[d]]
      BY <1>1, <1>2, <1>3, ClaimsHaveNumbers DEF ServerTypes
    <3>2. Holding(d) => Claims(d)
      BY DEF Claims
    <3> QED BY <1>2, <1>7, <2>2, <3>1, <3>2 DEF OwnersSound
  <2> QED BY <2>1, <2>2
<1>10. NumbersUnique'
  BY <1>3, <1>7 DEF NumbersUnique
<1>11. WalkSound'
  <2>1. \A i \in 1..Len(order) : order[i] # c
    BY <1>6 DEF HashSound
  <2>2. \A i \in 1..Len(order) : order[i] \in Conns
    BY DEF ServerTypes
  <2>3. due[c] = "no"
    BY <1>6 DEF WalkSound, ServerTypes
  <2> QED BY <1>2, <1>7, <2>1, <2>2, <2>3 DEF WalkSound, Walking, Passed, NobodyDue, Linked
<1>12. \A d, e \in Conns : Fresh(d)' /\ Fresh(e)' => d = e
  BY <1>7
<1> QED
  BY <1>4, <1>5, <1>8, <1>9, <1>10, <1>11, <1>12

LEMMA SpawnSound ==
  ASSUME Sound, NEW c \in Conns, Spawn(c), ~early'
  PROVE  Sound'
<1> USE DEF Sound
<1> DEFINE e == [state |-> "linked", fd |-> fd[c], version |-> UNDEF, next |-> NULL]
<1>1. /\ Fresh(c) /\ acceptor' = "accept"
      /\ entry' = [entry EXCEPT ![c] = e] /\ order' = Append(order, c)
      /\ UNCHANGED <<fd, ccl, cast, due>>
  BY DEF Spawn, Fresh, castVars, CloseAs, osVars
<1>2. /\ fd[c] \in Fds /\ owner[fd[c]] = c /\ peer[c] \in {"up", "gone"} /\ thread[c] = "none" /\ c \notin Linked
      /\ fd[c] # -1
  BY <1>1, ServerInputs DEF Fresh, LifeSound, OwnersSound, Holding, Linked
<1>3. \/ thread' = [thread EXCEPT ![c] = "find"] /\ UNCHANGED <<peer, owner>>
      \/ /\ UNCHANGED thread /\ owner' = [owner EXCEPT ![fd[c]] = NULL]
         /\ peer' = [peer EXCEPT ![c] = IF @ = "up" THEN "refused" ELSE @]
  BY DEF Spawn, CloseAs, osVars
<1>4. ServerTypes'
  <2>1. e \in Entry
    BY <1>2 DEF Entry
  <2>2. order' \in Seq(Conns)
    BY <1>1, AppendProperties DEF ServerTypes
  <2> HIDE DEF e
  <2> QED BY <1>1, <1>2, <1>3, <2>1, <2>2 DEF ServerTypes, PeerStates, ThreadStates
<1>5. /\ Len(order) \in Nat /\ \A i \in 1..Len(order) : order[i] \in Linked /\ order[i] # c
      /\ Len(order') = Len(order) + 1 /\ \A i \in 1..Len(order) : order'[i] = order[i]
      /\ order'[Len(order) + 1] = c
  BY <1>1, <1>2, AppendProperties DEF ServerTypes, HashSound
<1>6. \A d \in Conns : /\ (d \in Linked)' <=> d \in Linked \/ d = c
                       /\ d # c => entry'[d] = entry[d]
                       /\ d = c => entry'[d] = e
  BY <1>1 DEF ServerTypes, Linked
<1>7. HashSound'
  <2>1. \A i, j \in 1..Len(order') : order'[i] = order'[j] => i = j
    BY <1>5 DEF HashSound
  <2>2. ASSUME NEW d \in Conns PROVE (d \in Linked)' <=> \E i \in 1..Len(order') : order'[i] = d
    <3>1. CASE d = c
      BY <1>5, <1>6, <3>1
    <3>2. CASE d # c
      BY <1>5, <1>6, <3>2 DEF HashSound
    <3> QED BY <3>1, <3>2
  <2> QED BY <2>1, <2>2 DEF HashSound
<1>8. \A d \in Conns : d # c => ~Fresh(d)
  BY <1>1
<1>9. \A d \in Conns : /\ d # c => /\ peer'[d] = peer[d] /\ thread'[d] = thread[d]
                                 /\ (Holding(d)' <=> Holding(d)) /\ (Claims(d)' <=> Claims(d))
                       /\ ~Fresh(d)'
                       /\ d = c => Claims(d) /\ Claims(d)' /\ (Holding(d)' <=> thread'[d] = "find")
                                  /\ thread'[d] \in {"find", "none"}
  BY <1>1, <1>2, <1>3, <1>6, <1>8 DEF ServerTypes, Holding, Claims, Fresh
<1>10. ASSUME NEW d \in Conns PROVE LifeSound(d)' /\ VersionsSound(d)'
  BY <1>1, <1>2, <1>3, <1>6, <1>9 DEF LifeSound, VersionsSound, Proper, Fresh, ServerTypes
<1>11. ASSUME NEW d \in Conns PROVE OwnersSound(d)'
  <2>1. CASE d = c
    BY <1>1, <1>2, <1>3, <1>6, <1>9, <2>1 DEF OwnersSound, ServerTypes
  <2>2. CASE d # c
    <3>1. Claims(d) => fd[d] # fd[c]
      BY <1>9, <2>2 DEF NumbersUnique
    <3>2. Claims(d) => owner'[fd[d]] = owner[fd[d]]
      BY <1>2, <1>3, <3>1, ClaimsHaveNumbers DEF ServerTypes
    <3>3. Holding(d) => Claims(d)
      BY DEF Claims
    <3> QED BY <1>1, <1>6, <1>9, <2>2, <3>1, <3>2, <3>3 DEF OwnersSound
  <2> QED BY <2>1, <2>2
<1>12. NumbersUnique'
  BY <1>1, <1>9 DEF NumbersUnique
<1>13. WalkSound'
  <2>1. due[c] = "no"
    BY <1>2 DEF WalkSound, ServerTypes
  <2>2. \A d \in Conns : peer'[d] = "up" => peer[d] = "up"
    BY <1>3, <1>9 DEF ServerTypes
  <2>3. Walking => \A i, k \in 1..Len(order') : order'[k] = cast.at =>
          /\ Passed(i, k) /\ peer'[order'[i]] = "up" => due[order'[i]] \in {"no", "told"}
          /\ ~Passed(i, k) => due[order'[i]] \in {"no", "due"}
    <3> SUFFICES ASSUME Walking, NEW i \in 1..Len(order'), NEW k \in 1..Len(order'), order'[k] = cast.at
                 PROVE /\ Passed(i, k) /\ peer'[order'[i]] = "up" => due[order'[i]] \in {"no", "told"}
                       /\ ~Passed(i, k) => due[order'[i]] \in {"no", "due"}
      OBVIOUS
    <3>1. CASE i = Len(order) + 1
      BY <1>5, <2>1, <3>1
    <3>2. CASE due = NobodyDue
      BY <1>4, <3>2 DEF NobodyDue, ServerTypes
    <3>3. CASE i # Len(order) + 1 /\ due # NobodyDue
      <4>1. i \in 1..Len(order) /\ k \in 1..Len(order)
        BY <1>2, <1>5, <3>3 DEF WalkSound
      <4> QED BY <1>5, <2>2, <4>1 DEF WalkSound, Linked
    <3> QED BY <3>1, <3>2, <3>3
  <2> QED BY <1>1, <1>6, <2>2, <2>3 DEF WalkSound, Walking, Passed, NobodyDue
<1>14. \A d, g \in Conns : Fresh(d)' /\ Fresh(g)' => d = g
  BY <1>9
<1> QED
  BY <1>4, <1>7, <1>10, <1>11, <1>12, <1>13, <1>14

-----------------------------------------------------------------------------
(* A step that is not about the list nor the message keeps the walk sound. *)
LEMMA WalkKept ==
  ASSUME Sound, UNCHANGED <<order, cast, due>>, Linked' = Linked,
         \A d \in Conns : peer'[d] = "up" => peer[d] = "up"
  PROVE  WalkSound'
BY DEF Sound, WalkSound, Walking, Passed, NobodyDue, ServerTypes

(* What a client's step does to the other clients: nothing, if it frees no *)
(* descriptor but its own.                                                 *)
LEMMA OthersKept ==
  ASSUME Sound, NEW c \in Conns, Claims(c), UNCHANGED fd,
         owner' = [owner EXCEPT ![fd[c]] = NULL] \/ UNCHANGED owner,
         NEW d \in Conns, d # c, peer'[d] = peer[d], thread'[d] = thread[d], entry'[d] = entry[d]
  PROVE  /\ Claims(d)' <=> Claims(d)
         /\ Holding(d)' <=> Holding(d)
         /\ OwnersSound(d)'
<1>1. /\ Claims(d)' <=> Claims(d)
      /\ Holding(d)' <=> Holding(d)
      /\ (d \in Linked)' <=> d \in Linked
  BY DEF Claims, Holding, Fresh, Linked
<1>2. Claims(d) => owner'[fd[d]] = owner[fd[d]]
  <2>1. Claims(d) => fd[d] # fd[c]
    BY DEF Sound, NumbersUnique
  <2> QED BY <2>1, ClaimsHaveNumbers DEF Sound, ServerTypes
<1>3. Holding(d) => Claims(d)
  BY DEF Claims
<1> QED
  BY <1>1, <1>2, <1>3 DEF Sound, OwnersSound

(* A client thread.                                                        *)
LEMMA FindSessionSound ==
  ASSUME Sound, NEW c \in Conns, FindSession(c), ~early'
  PROVE  Sound'
<1> USE DEF Sound
<1>1. /\ thread[c] = "find" /\ ccl' = [ccl EXCEPT ![c] = Find(fd[c])]
      /\ UNCHANGED <<fd, acceptor, order, entry, cast, due>>
  BY DEF FindSession, hashVars, castVars, osVars, CloseAs
<1>2. c \in Linked /\ Claims(c) /\ Holding(c) /\ entry[c].state = "linked" /\ owner[fd[c]] = c /\ c # NULL
  BY <1>1, ServerInputs DEF LifeSound, Claims, Holding, OwnersSound, Linked
<1>3. fd[c] \in Fds /\ Find(fd[c]) = IF entry[c].fd = -1 THEN NULL ELSE c
  BY <1>2, FindsItself
<1>4. \/ /\ entry[c].fd # -1 /\ Find(fd[c]) = c /\ thread' = [thread EXCEPT ![c] = "loop"]
         /\ UNCHANGED <<peer, owner>>
      \/ /\ entry[c].fd = -1 /\ Find(fd[c]) = NULL /\ thread' = [thread EXCEPT ![c] = "status"]
         /\ owner' = [owner EXCEPT ![fd[c]] = NULL]
         /\ peer' = [peer EXCEPT ![c] = IF @ = "up" THEN "closed" ELSE @]
  BY <1>2, <1>3 DEF FindSession, CloseAs, osVars
<1>5. peer[c] \in {"up", "gone"} /\ (entry[c].fd = -1 => peer[c] # "up")
  BY <1>2 DEF OwnersSound
<1>6. peer' = peer
  BY <1>4, <1>5 DEF ServerTypes
<1>7. ServerTypes'
  BY <1>1, <1>3, <1>4, <1>6 DEF ServerTypes, ThreadStates
<1>8. HashSound' /\ Linked' = Linked
  BY <1>1 DEF HashSound, Linked
<1>9. \A d \in Conns : d # c => thread'[d] = thread[d] /\ ccl'[d] = ccl[d]
  BY <1>1, <1>4 DEF ServerTypes
<1>10. \A d \in Conns : Claims(d)' <=> Claims(d)
  BY <1>1, <1>2, <1>4, <1>6, <1>8, <1>9 DEF Claims, Holding, Fresh, ServerTypes
<1>11. ASSUME NEW d \in Conns PROVE LifeSound(d)' /\ VersionsSound(d)'
  BY <1>1, <1>2, <1>3, <1>4, <1>6, <1>8, <1>9 DEF LifeSound, VersionsSound, Proper, Fresh, ServerTypes
<1>12. ASSUME NEW d \in Conns PROVE OwnersSound(d)'
  <2>1. CASE d = c
    BY <1>1, <1>2, <1>3, <1>4, <1>5, <1>6, <1>8, <2>1 DEF OwnersSound, ServerTypes, Holding, Fresh, Claims
  <2>2. CASE d # c
    <3>1. owner' = [owner EXCEPT ![fd[c]] = NULL] \/ UNCHANGED owner
      BY <1>4
    <3>2. peer'[d] = peer[d] /\ thread'[d] = thread[d] /\ entry'[d] = entry[d] /\ UNCHANGED fd
      BY <1>1, <1>6, <1>9, <2>2
    <3> QED BY <1>2, <2>2, <3>1, <3>2, OthersKept
  <2> QED BY <2>1, <2>2
<1>13. NumbersUnique'
  BY <1>1, <1>10 DEF NumbersUnique
<1>14. WalkSound'
  BY <1>1, <1>6, <1>8, WalkKept
<1>15. \A d, g \in Conns : Fresh(d)' /\ Fresh(g)' => d = g
  BY <1>1, <1>6 DEF Fresh
<1> QED
  BY <1>7, <1>8, <1>11, <1>12, <1>13, <1>14, <1>15

LEMMA ReceiveSound ==
  ASSUME Sound, NEW c \in Conns, NEW v \in Versions[c], Receive(c, v), ~early'
  PROVE  Sound'
<1> USE DEF Sound
<1>1. /\ thread[c] = "loop" /\ ccl[c] = c /\ c \in Linked /\ Claims(c) /\ owner[fd[c]] = c
      /\ UNCHANGED <<fd, acceptor, order, ccl, cast, due>>
  BY DEF Receive, LifeSound, Claims, Holding, OwnersSound, osVars, CloseAs, castVars
<1>2. v \in Nat
  BY ServerInputs
<1>3. \/ /\ v > CacheVersion \/ entry[c].version \notin {UNDEF, v}
         /\ thread' = [thread EXCEPT ![c] = "status"]
         /\ owner' = [owner EXCEPT ![fd[c]] = NULL]
         /\ peer' = [peer EXCEPT ![c] = IF @ = "up" THEN "closed" ELSE @]
         /\ UNCHANGED entry
      \/ /\ v <= CacheVersion
         /\ thread' = [thread EXCEPT ![c] = "reply"]
         /\ entry' = [entry EXCEPT ![c].version = v]
         /\ UNCHANGED <<peer, owner>>
  BY <1>1 DEF Receive, CloseAs, osVars
<1>4. fd[c] \in Fds /\ peer[c] \in {"up", "gone"} /\ entry[c].state = "linked" /\ entry[c] \in Entry
  BY <1>1, ClaimsHaveNumbers DEF Receive, Linked, ServerTypes
<1>5. /\ entry' \in [Conns -> Entry]
      /\ \A d \in Conns : d # c => entry'[d] = entry[d]
      /\ entry'[c].state = "linked" /\ entry'[c].fd = entry[c].fd
      /\ entry'[c].version = IF thread'[c] = "reply" THEN v ELSE entry[c].version
  <2>1. CASE UNCHANGED entry /\ thread' = [thread EXCEPT ![c] = "status"]
    BY <1>4, <2>1 DEF ServerTypes
  <2>2. CASE entry' = [entry EXCEPT ![c].version = v] /\ thread' = [thread EXCEPT ![c] = "reply"]
    <3>1. [entry[c] EXCEPT !.version = v] \in Entry
      BY <1>2, <1>4 DEF Entry
    <3> QED BY <1>4, <2>2, <3>1 DEF ServerTypes, Entry
  <2> QED BY <1>3, <2>1, <2>2
<1>6. ServerTypes'
  BY <1>1, <1>3, <1>4, <1>5 DEF ServerTypes, PeerStates, ThreadStates
<1>7. Linked' = Linked
  BY <1>1, <1>5 DEF Linked
<1>8. HashSound'
  BY <1>1, <1>7 DEF HashSound
<1>9. /\ \A d \in Conns : d # c => thread'[d] = thread[d] /\ peer'[d] = peer[d]
      /\ thread'[c] \in {"status", "reply"} /\ Claims(c)' /\ ~Fresh(c)
      /\ thread'[c] = "reply" => peer'[c] = peer[c] /\ UNCHANGED owner
      /\ thread'[c] = "status" => /\ peer'[c] \in {"gone", "closed"} /\ owner'[fd[c]] = NULL
                                  /\ v > CacheVersion \/ entry[c].version \notin {UNDEF, v}
  BY <1>1, <1>3, <1>4 DEF ServerTypes, Claims, Holding, Fresh
<1>10. \A d \in Conns : (Fresh(d)' <=> Fresh(d))
  BY <1>4, <1>5, <1>9 DEF Fresh
<1>11. ASSUME NEW d \in Conns PROVE LifeSound(d)'
  BY <1>1, <1>4, <1>5, <1>7, <1>9, <1>10 DEF LifeSound, Fresh
<1>12. ASSUME NEW d \in Conns PROVE VersionsSound(d)'
  <2>1. CASE d = c
    <3> SUFFICES ASSUME Proper(c) PROVE VersionsSound(c)'
      BY <2>1 DEF VersionsSound, Proper
    <3>1. v <= CacheVersion /\ entry[c].version \in {UNDEF, v}
      BY <1>1 DEF Proper, VersionsSound, CacheVersion
    <3>2. thread'[c] = "reply"
      BY <1>2, <1>9, <3>1 DEF CacheVersion
    <3> QED BY <1>5, <1>9, <3>2 DEF VersionsSound
  <2>2. CASE d # c
    BY <1>5, <1>7, <1>9, <2>2 DEF VersionsSound, Proper
  <2> QED BY <2>1, <2>2
<1>13. ASSUME NEW d \in Conns PROVE OwnersSound(d)'
  <2>1. CASE d = c
    BY <1>1, <1>4, <1>5, <1>7, <1>9, <1>10, <2>1 DEF OwnersSound, Holding, Claims
  <2>2. CASE d # c
    <3>1. owner' = [owner EXCEPT ![fd[c]] = NULL] \/ UNCHANGED owner
      BY <1>3
    <3> QED BY <1>1, <1>5, <1>9, <2>2, <3>1, OthersKept
  <2> QED BY <2>1, <2>2
<1>14. \A d \in Conns : Claims(d)' <=> Claims(d)
  BY <1>1, <1>5, <1>7, <1>9, <1>10 DEF Claims, Holding
<1>15. NumbersUnique'
  BY <1>1, <1>14 DEF NumbersUnique
<1>16. WalkSound'
  BY <1>1, <1>4, <1>7, <1>9, WalkKept
<1> QED
  BY <1>6, <1>8, <1>10, <1>11, <1>12, <1>13, <1>15, <1>16

(* A step that neither touches descriptors nor the hash.                   *)
LEMMA ThreadStepSound ==
  ASSUME Sound, NEW c \in Conns,
         \/ thread[c] = "reply" /\ thread' = [thread EXCEPT ![c] = "loop"]
         \/ thread[c] = "loop" /\ peer[c] = "gone" /\ thread' = [thread EXCEPT ![c] = "status"],
         UNCHANGED <<osVars, acceptor, hashVars, ccl, castVars>>
  PROVE  Sound'
<1> USE DEF Sound
<1>1. UNCHANGED <<peer, fd, owner, acceptor, order, entry, ccl, cast, due>> /\ Linked' = Linked
  BY DEF osVars, hashVars, castVars, Linked
<1>2. ServerTypes'
  BY <1>1 DEF ServerTypes, ThreadStates
<1>3. HashSound'
  BY <1>1 DEF HashSound
<1>4. /\ \A d \in Conns : d # c => thread'[d] = thread[d]
      /\ thread[c] \in {"loop", "reply"}
      /\ thread'[c] = "loop" \/ (thread'[c] = "status" /\ peer[c] = "gone")
  BY DEF ServerTypes
<1>5. \A d \in Conns : /\ Claims(d)' <=> Claims(d)
                       /\ Holding(d)' => Holding(d)
                       /\ Fresh(d)' <=> Fresh(d)
                       /\ peer[d] = "up" => (Holding(d)' <=> Holding(d))
  BY <1>1, <1>4 DEF Claims, Holding, Fresh
<1>6. ASSUME NEW d \in Conns PROVE LifeSound(d)' /\ VersionsSound(d)' /\ OwnersSound(d)'
  <2>1. LifeSound(d)'
    BY <1>1, <1>4, <1>5 DEF LifeSound
  <2>2. VersionsSound(d)'
    BY <1>1, <1>4 DEF VersionsSound, Proper
  <2>3. OwnersSound(d)'
    BY <1>1, <1>5 DEF OwnersSound
  <2> QED BY <2>1, <2>2, <2>3
<1>7. NumbersUnique'
  BY <1>1, <1>5 DEF NumbersUnique
<1>8. WalkSound'
  BY <1>1, WalkKept
<1> QED
  BY <1>2, <1>3, <1>5, <1>6, <1>7, <1>8

LEMMA StatusLostSound ==
  ASSUME Sound, NEW c \in Conns, StatusLost(c), ~early'
  PROVE  Sound'
<1> USE DEF Sound
<1>1. /\ thread[c] = "status" /\ c \in Linked /\ Claims(c) /\ ~Holding(c) /\ c # NULL
      /\ UNCHANGED <<peer, fd, owner, acceptor, cast>>
  BY ServerInputs DEF StatusLost, LifeSound, Claims, Holding, Fresh, Linked, osVars
<1>2. Find(fd[c]) = IF entry[c].fd = -1 THEN NULL ELSE c
  BY <1>1, FindsItself
<1>3. peer[c] \in PeerStates /\ peer[c] # "none" /\ peer[c] # "up" /\ entry[c].state = "linked" /\ fd[c] \in Fds
  BY <1>1, ClaimsHaveNumbers DEF ServerTypes, LifeSound, OwnersSound, Linked
<1>4. CASE entry[c].fd = -1
  <2>1. /\ thread' = [thread EXCEPT ![c] = "done"]
        /\ UNCHANGED <<order, entry, due, ccl>>
    BY <1>1, <1>2, <1>4 DEF StatusLost, hashVars
  <2>2. ServerTypes' /\ HashSound' /\ Linked' = Linked
    BY <1>1, <2>1 DEF ServerTypes, ThreadStates, HashSound, Linked
  <2>3. /\ \A d \in Conns : d # c => thread'[d] = thread[d]
        /\ thread'[c] = "done"
    BY <2>1 DEF ServerTypes
  <2>4. \A d \in Conns : /\ Claims(d)' => Claims(d)
                         /\ Holding(d)' <=> Holding(d)
                         /\ Fresh(d)' <=> Fresh(d)
    BY <1>1, <2>1, <2>2, <2>3 DEF Claims, Holding, Fresh
  <2>5. ASSUME NEW d \in Conns PROVE LifeSound(d)' /\ VersionsSound(d)' /\ OwnersSound(d)'
    <3>1. LifeSound(d)'
      BY <1>1, <1>3, <1>4, <2>1, <2>2, <2>3, <2>4 DEF LifeSound
    <3>2. VersionsSound(d)'
      BY <1>1, <2>1, <2>2, <2>3 DEF VersionsSound, Proper
    <3>3. OwnersSound(d)'
      BY <1>1, <2>1, <2>2, <2>4 DEF OwnersSound
    <3> QED BY <3>1, <3>2, <3>3
  <2>6. NumbersUnique'
    BY <1>1, <2>4 DEF NumbersUnique
  <2>7. WalkSound'
    BY <1>1, <2>1, <2>2, WalkKept
  <2> QED BY <2>2, <2>4, <2>5, <2>6, <2>7
<1>5. CASE entry[c].fd # -1
  <2>1. /\ order' = RemoveFirst(order, c)
        /\ entry' = [entry EXCEPT ![c].state = "off", ![c].next = After(c)]
        /\ due' = NobodyDue
        /\ ccl' = [ccl EXCEPT ![c] = c]
        /\ thread' = [thread EXCEPT ![c] = "wipe"]
    BY <1>1, <1>2, <1>5 DEF StatusLost
  <2>2. /\ order' \in Seq(Conns)
        /\ \A i, j \in 1..Len(order') : order'[i] = order'[j] => i = j
        /\ \A d \in Conns : d \in Linked \ {c} <=> \E i \in 1..Len(order') : order'[i] = d
    BY <1>1, <2>1, RemovedFromList
  <2>3. After(c) \in Conns \cup {NULL}
    BY NextInList
  <2>4. /\ entry' \in [Conns -> Entry]
        /\ \A d \in Conns : d # c => entry'[d] = entry[d]
        /\ entry'[c].state = "off"
    <3>1. [entry[c] EXCEPT !.state = "off", !.next = After(c)] \in Entry
      <4>1. entry[c] \in Entry
        BY DEF ServerTypes
      <4>2. [entry[c] EXCEPT !.state = "off"] \in Entry
        BY <4>1 DEF Entry
      <4> QED BY <2>3, <4>2 DEF Entry
    <3>2. entry' = [entry EXCEPT ![c] = [entry[c] EXCEPT !.state = "off", !.next = After(c)]]
      BY <2>1 DEF ServerTypes, Entry
    <3> QED BY <3>1, <3>2 DEF ServerTypes, Entry
  <2>5. ServerTypes'
    BY <1>1, <2>1, <2>2, <2>4 DEF ServerTypes, ThreadStates, NobodyDue
  <2>6. \A d \in Conns : (d \in Linked)' <=> d \in Linked /\ d # c
    BY <2>4 DEF Linked
  <2>7. HashSound'
    BY <2>2, <2>6 DEF HashSound
  <2>8. /\ \A d \in Conns : d # c => thread'[d] = thread[d] /\ ccl'[d] = ccl[d]
        /\ thread'[c] = "wipe" /\ ccl'[c] = c
    BY <2>1 DEF ServerTypes
  <2>9. \A d \in Conns : /\ Claims(d)' => Claims(d)
                         /\ Holding(d)' <=> Holding(d)
                         /\ Fresh(d)' <=> Fresh(d)
    BY <1>1, <1>3, <2>4, <2>6, <2>8 DEF Claims, Holding, Fresh
  <2>10. ASSUME NEW d \in Conns PROVE LifeSound(d)' /\ VersionsSound(d)' /\ OwnersSound(d)'
    <3>1. LifeSound(d)'
      BY <1>1, <1>3, <2>4, <2>6, <2>8, <2>9 DEF LifeSound
    <3>2. VersionsSound(d)'
      BY <1>1, <2>4, <2>6, <2>8 DEF VersionsSound, Proper
    <3>3. OwnersSound(d)'
      BY <1>1, <2>4, <2>6, <2>9 DEF OwnersSound
    <3> QED BY <3>1, <3>2, <3>3
  <2>11. NumbersUnique'
    BY <1>1, <2>9 DEF NumbersUnique
  <2>12. WalkSound'
    BY <1>1, <2>1, <2>2 DEF WalkSound, Walking, Passed, NobodyDue
  <2> QED BY <2>5, <2>7, <2>9, <2>10, <2>11, <2>12
<1> QED
  BY <1>4, <1>5

LEMMA WipeSound ==
  ASSUME Sound, NEW c \in Conns, Wipe(c), ~early'
  PROVE  Sound'
<1> USE DEF Sound
<1>1. /\ thread[c] = "wipe" /\ ccl[c] = c /\ entry[c].state = "off" /\ c \notin Linked
      /\ entry' = [entry EXCEPT ![c] = Wiped]
      /\ ccl' = [ccl EXCEPT ![c] = NULL]
      /\ thread' = [thread EXCEPT ![c] = "done"]
      /\ UNCHANGED <<peer, fd, owner, acceptor, order, cast, due>>
  BY DEF Wipe, LifeSound, Linked, osVars, castVars
<1>2. Wiped \in Entry /\ Wiped.state = "wiped"
  BY DEF Wiped, NoEntry, Entry, UNDEF
<1>3. /\ \A d \in Conns : d # c => thread'[d] = thread[d] /\ ccl'[d] = ccl[d] /\ entry'[d] = entry[d]
      /\ thread'[c] = "done" /\ entry'[c].state = "wiped"
      /\ entry' \in [Conns -> Entry]
  BY <1>1, <1>2 DEF ServerTypes
<1>4. ServerTypes'
  BY <1>1, <1>3 DEF ServerTypes, ThreadStates
<1>5. Linked' = Linked
  BY <1>1, <1>3 DEF Linked
<1>6. HashSound'
  BY <1>1, <1>5 DEF HashSound
<1>7. \A d \in Conns : /\ Claims(d)' <=> Claims(d)
                       /\ Holding(d)' <=> Holding(d)
                       /\ Fresh(d)' <=> Fresh(d)
  BY <1>1, <1>3, <1>5 DEF Claims, Holding, Fresh
<1>8. ASSUME NEW d \in Conns PROVE LifeSound(d)' /\ VersionsSound(d)' /\ OwnersSound(d)'
  <2>1. LifeSound(d)'
    BY <1>1, <1>3, <1>5, <1>7 DEF LifeSound
  <2>2. VersionsSound(d)'
    BY <1>1, <1>3, <1>5 DEF VersionsSound, Proper
  <2>3. OwnersSound(d)'
    BY <1>1, <1>3, <1>5, <1>7 DEF OwnersSound
  <2> QED BY <2>1, <2>2, <2>3
<1>9. NumbersUnique'
  BY <1>1, <1>7 DEF NumbersUnique
<1>10. WalkSound'
  BY <1>1, <1>5, WalkKept
<1> QED
  BY <1>4, <1>6, <1>7, <1>8, <1>9, <1>10

LEMMA PeerLeavesSound ==
  ASSUME Sound, NEW c \in Conns, PeerLeaves(c), ~early'
  PROVE  Sound'
<1> USE DEF Sound
<1>1. /\ peer[c] = "up" /\ Holding(c) /\ peer' = [peer EXCEPT ![c] = "gone"]
      /\ UNCHANGED <<fd, owner, acceptor, order, entry, ccl, thread, cast, due>>
  BY DEF PeerLeaves, OwnersSound, hashVars, threadVars, castVars
<1>2. \A d \in Conns : /\ d # c => peer'[d] = peer[d]
                       /\ d = c => peer'[d] = "gone"
                       /\ Claims(d)' <=> Claims(d)
                       /\ Holding(d)' <=> Holding(d)
                       /\ Fresh(d)' <=> Fresh(d)
  BY <1>1 DEF Claims, Holding, Fresh, Linked, ServerTypes
<1>3. ServerTypes' /\ HashSound' /\ Linked' = Linked
  BY <1>1 DEF ServerTypes, PeerStates, HashSound, Linked
<1>4. ASSUME NEW d \in Conns PROVE LifeSound(d)' /\ VersionsSound(d)' /\ OwnersSound(d)'
  <2>1. LifeSound(d)'
    BY <1>1, <1>2, <1>3 DEF LifeSound
  <2>2. VersionsSound(d)'
    BY <1>1, <1>2, <1>3 DEF VersionsSound, Proper
  <2>3. OwnersSound(d)'
    BY <1>1, <1>2, <1>3 DEF OwnersSound
  <2> QED BY <2>1, <2>2, <2>3
<1>5. NumbersUnique'
  BY <1>1, <1>2 DEF NumbersUnique
<1>6. WalkSound'
  BY <1>1, <1>2, <1>3, WalkKept
<1> QED
  BY <1>2, <1>3, <1>4, <1>5, <1>6

-----------------------------------------------------------------------------
(* The message to all leaves everything alone but cast and due, and -1     *)
(* where it could not be sent.                                             *)
LEMMA WalkStep ==
  ASSUME Sound, UNCHANGED <<peer, fd, owner, acceptor, order, entry, ccl, thread>>,
         ServerTypes', WalkSound'
  PROVE  Sound'
<1> USE DEF Sound
<1>1. HashSound' /\ Linked' = Linked
  BY DEF HashSound, Linked
<1>2. \A d \in Conns : LifeSound(d)' /\ VersionsSound(d)' /\ OwnersSound(d)'
  BY <1>1 DEF LifeSound, VersionsSound, Proper, OwnersSound, Claims, Holding, Fresh
<1>3. NumbersUnique'
  BY <1>1 DEF NumbersUnique, Claims, Holding, Fresh
<1> QED
  BY <1>1, <1>2, <1>3 DEF Fresh

LEMMA CastBeginSound ==
  ASSUME Sound, CastBegin, ~early'
  PROVE  Sound'
<1> USE DEF Sound
<1>1. /\ order # <<>> /\ cast' = [pc |-> "send", at |-> Head(order)]
      /\ due' = [c \in Conns |-> IF c \in Linked THEN "due" ELSE "no"]
      /\ UNCHANGED <<peer, fd, owner, acceptor, order, entry, ccl, thread>>
  BY DEF CastBegin, osVars, hashVars, threadVars
<1>2. /\ Len(order) \in Nat \ {0} /\ Head(order) = order[1] /\ order[1] \in Linked
  BY <1>1 DEF ServerTypes, HashSound
<1>3. ServerTypes'
  BY <1>1, <1>2 DEF ServerTypes, Linked
<1>4. Linked' = Linked /\ \A c \in Conns : due'[c] \in {"due", "no"} /\ (due'[c] = "due" => c \in Linked)
  BY <1>1 DEF Linked
<1>5. WalkSound'
  <2>1. \A i, k \in 1..Len(order) : order[k] = Head(order) => ~(i < k \/ (i = k /\ "send" = "next"))
    BY <1>2 DEF HashSound
  <2>2. \A i \in 1..Len(order) : order[i] \in Conns
    BY DEF ServerTypes
  <2> QED BY <1>1, <1>2, <1>4, <2>1, <2>2 DEF WalkSound, Walking, Passed, Linked
<1> QED
  BY <1>1, <1>3, <1>5, WalkStep

LEMMA CastNextSound ==
  ASSUME Sound, CastNext, ~early'
  PROVE  Sound'
<1> USE DEF Sound
<1> DEFINE n == NextOf(cast.at)
<1>1. /\ cast.pc = "next" /\ cast.at \in Conns
      /\ cast' = [cast EXCEPT !.at = n, !.pc = IF n = NULL THEN "end" ELSE "send"]
      /\ UNCHANGED <<peer, fd, owner, acceptor, order, entry, ccl, thread, due>>
  BY DEF CastNext, WalkSound, Walking, osVars, hashVars, threadVars
<1>2. n \in Conns \cup {NULL}
  BY <1>1, NextInList DEF NextOf, ServerTypes, Entry
<1> HIDE DEF n
<1>3. cast' = [pc |-> IF n = NULL THEN "end" ELSE "send", at |-> n]
  BY <1>1 DEF ServerTypes
<1>4. ServerTypes'
  BY <1>1, <1>2, <1>3 DEF ServerTypes
<1>5. Linked' = Linked
  BY <1>1 DEF Linked
<1>6. WalkSound'
  <2>1. CASE due = NobodyDue
    BY <1>1, <1>2, <1>3, <1>5, <2>1 DEF WalkSound, Walking, NobodyDue, ServerTypes
  <2>2. CASE due # NobodyDue
    <3>1. cast.at \in Linked
      BY <1>1, <2>2 DEF WalkSound, Walking
    <3>2. PICK k \in 1..Len(order) : order[k] = cast.at
      BY <1>1, <3>1 DEF HashSound
    <3>3. n = IF k = Len(order) THEN NULL ELSE order[k + 1]
      BY <1>1, <3>1, <3>2, NextInList DEF NextOf, Linked, n
    <3>4. Len(order) \in Nat /\ \A i \in 1..Len(order) : order[i] \in Conns /\ order[i] \in Linked
      BY DEF ServerTypes, HashSound
    <3>5. \A i \in 1..Len(order) :
            /\ i <= k /\ peer[order[i]] = "up" => due[order[i]] \in {"no", "told"}
            /\ i > k => due[order[i]] \in {"no", "due"}
      BY <1>1, <3>2, <3>4 DEF WalkSound, Walking, Passed
    <3>6. CASE k = Len(order)
      <4>1. \A c \in Conns : peer[c] = "up" => due[c] \in {"no", "told"}
        <5> SUFFICES ASSUME NEW c \in Conns, peer[c] = "up", c \in Linked
                     PROVE  due[c] \in {"no", "told"}
          BY DEF WalkSound
        <5>1. PICK i \in 1..Len(order) : order[i] = c
          BY DEF HashSound
        <5> QED BY <3>4, <3>5, <3>6, <5>1
      <4> QED BY <1>1, <1>3, <1>5, <3>3, <3>6, <4>1 DEF WalkSound, Walking
    <3>7. CASE k # Len(order)
      <4>1. k + 1 \in 1..Len(order) /\ n = order[k + 1] /\ n \in Linked /\ n \in Conns /\ n # NULL
        BY <3>3, <3>4, <3>7, ServerInputs
      <4>2. \A j \in 1..Len(order) : order[j] = n => j = k + 1
        BY <4>1 DEF HashSound
      <4>3. \A i, j \in 1..Len(order) : order[j] = n =>
              /\ i < j /\ peer[order[i]] = "up" => due[order[i]] \in {"no", "told"}
              /\ ~(i < j) => due[order[i]] \in {"no", "due"}
        BY <3>4, <3>5, <4>2
      <4> QED BY <1>1, <1>3, <1>5, <4>1, <4>3 DEF WalkSound, Walking, Passed
    <3> QED BY <3>6, <3>7
  <2> QED BY <2>1, <2>2
<1> QED
  BY <1>1, <1>4, <1>6, WalkStep

LEMMA CastEndSound ==
  ASSUME Sound, CastEnd, ~early'
  PROVE  Sound'
<1>1. /\ cast' = Silent /\ due' = NobodyDue
      /\ UNCHANGED <<peer, fd, owner, acceptor, order, entry, ccl, thread>>
  BY DEF CastEnd, osVars, hashVars, threadVars
<1>2. ServerTypes'
  BY <1>1 DEF Sound, ServerTypes, Silent, NobodyDue
<1>3. WalkSound'
  BY <1>1 DEF WalkSound, Walking, Silent, NobodyDue
<1> QED
  BY <1>1, <1>2, <1>3, WalkStep

(* Where the walk stands is a client that is up only if it is sent to.     *)
LEMMA CastSendFacts ==
  ASSUME Sound, CastSend
  PROVE  /\ cast.pc = "send" /\ cast.at \in Conns /\ cast' = [pc |-> "next", at |-> cast.at]
         /\ UNCHANGED <<peer, fd, owner, acceptor, order, ccl, thread>>
         /\ \/ /\ UNCHANGED entry
               /\ \E o \in Conns : due' = Told(o) /\ (cast.at \in Linked => o = cast.at)
            \/ /\ UNCHANGED due
               /\ entry' = [entry EXCEPT ![cast.at].fd = -1]
               /\ cast.at \in Linked => peer[cast.at] # "up"
<1> DEFINE at == cast.at
           f == entry[at].fd
<1>1. /\ cast.pc = "send" /\ cast.at \in Conns /\ cast' = [pc |-> "next", at |-> cast.at]
      /\ UNCHANGED <<peer, fd, owner, acceptor, order, ccl, thread>>
  BY DEF CastSend, Sound, ServerTypes, WalkSound, Walking, osVars, threadVars
<1>2. at \in Linked => /\ f \in {fd[at], -1}
                       /\ f # -1 => owner[f] \in {at, NULL}
                       /\ peer[at] = "up" => f = fd[at] /\ f \in Fds /\ owner[f] = at
  BY <1>1, ClaimsHaveNumbers DEF Sound, LifeSound, OwnersSound, Claims
<1>3. CASE due' = Told(owner[f]) /\ UNCHANGED entry /\ TRUE \in Sends(f)
  <2>1. f \in Fds /\ owner[f] # NULL
    BY <1>3 DEF Sends
  <2>2. owner[f] \in Conns /\ f # -1
    <3> HIDE DEF f
    <3>1. owner \in [Fds -> Conns \cup {NULL}]
      BY DEF Sound, ServerTypes
    <3>2. owner[f] \in Conns
      BY <2>1, <3>1
    <3> QED BY <2>1, <3>2, ServerInputs
  <2>3. at \in Linked => owner[f] = at
    BY <1>2, <2>1, <2>2
  <2> QED BY <1>1, <1>3, <2>2, <2>3
<1>4. CASE due' = due /\ entry' = [entry EXCEPT ![at].fd = -1] /\ FALSE \in Sends(f)
  <2>1. f \in Fds => owner[f] = NULL \/ peer[owner[f]] # "up"
    BY <1>4 DEF Sends
  <2>2. at \in Linked => peer[at] # "up"
    BY <1>1, <1>2, <2>1, ServerInputs
  <2> QED BY <1>1, <1>4, <2>2
<1>5. Sends(f) \subseteq BOOLEAN
  BY DEF Sends
<1>6. PICK ok \in Sends(f) : /\ due' = IF ok THEN Told(owner[f]) ELSE due
                             /\ entry' = IF ok THEN entry ELSE [entry EXCEPT ![at].fd = -1]
  BY DEF CastSend
<1> HIDE DEF f
<1>7. ok = TRUE \/ ok = FALSE
  BY <1>5
<1> QED
  BY <1>3, <1>4, <1>6, <1>7

(* Told changes one client, and nobody who was not due.                    *)
LEMMA ToldChanges ==
  ASSUME ServerTypes, NEW o \in Conns
  PROVE  /\ Told(o) \in [Conns -> {"no", "due", "told", "twice"}]
         /\ \A c \in Conns : c # o => Told(o)[c] = due[c]
         /\ due[o] = "no" => Told(o)[o] = "no"
         /\ due[o] = "due" => Told(o)[o] = "told"
         /\ due[o] # "no" => Told(o)[o] # "no"
BY DEF ServerTypes, Told

LEMMA CastSendSound ==
  ASSUME Sound, CastSend, ~early'
  PROVE  Sound'
<1> USE DEF Sound
<1> DEFINE at == cast.at
<1>1. /\ cast.pc = "send" /\ at \in Conns /\ cast' = [pc |-> "next", at |-> at]
      /\ UNCHANGED <<peer, fd, owner, acceptor, order, ccl, thread>>
  BY CastSendFacts
<1> HIDE DEF at
<1>2. at = cast.at
  BY DEF at
<1>3. Len(order) \in Nat /\ \A i \in 1..Len(order) : order[i] \in Conns /\ order[i] \in Linked
  BY DEF ServerTypes, HashSound
<1>4. CASE /\ UNCHANGED entry
           /\ \E o \in Conns : due' = Told(o) /\ (at \in Linked => o = at)
  <2>1. PICK o \in Conns : due' = Told(o) /\ (at \in Linked => o = at)
    BY <1>4
  <2>2. /\ due' \in [Conns -> {"no", "due", "told", "twice"}]
        /\ \A c \in Conns : c # o => due'[c] = due[c]
        /\ due[o] = "no" => due'[o] = "no"
        /\ due[o] = "due" => due'[o] = "told"
    BY <2>1, ToldChanges
  <2>3. ServerTypes'
    BY <1>1, <1>4, <2>2 DEF ServerTypes
  <2>4. Linked' = Linked
    BY <1>4 DEF Linked
  <2>5. WalkSound'
    <3>1. CASE due = NobodyDue
      <4>1. due' = NobodyDue
        BY <2>2, <3>1 DEF NobodyDue
      <4> QED BY <1>1, <1>3, <2>4, <4>1 DEF WalkSound, Walking, Passed, NobodyDue
    <3>2. CASE due # NobodyDue
      <4>1. at \in Linked /\ o = at
        BY <1>1, <1>2, <2>1, <3>2 DEF WalkSound, Walking
      <4>2. \A c \in Conns : due'[c] # "no" => c \in Linked
        BY <2>2, <4>1 DEF WalkSound
      <4>3. ASSUME NEW i \in 1..Len(order), NEW k \in 1..Len(order), order[k] = at
            PROVE  /\ i <= k /\ peer[order[i]] = "up" => due'[order[i]] \in {"no", "told"}
                   /\ ~(i <= k) => due'[order[i]] \in {"no", "due"}
        <5>1. order[i] = at <=> i = k
          BY <4>3 DEF HashSound
        <5>2. /\ i < k /\ peer[order[i]] = "up" => due[order[i]] \in {"no", "told"}
              /\ ~(i < k) => due[order[i]] \in {"no", "due"}
          BY <1>1, <1>2, <4>3 DEF WalkSound, Walking, Passed
        <5>3. CASE i = k
          BY <1>3, <2>2, <4>1, <5>1, <5>2, <5>3
        <5>4. CASE i # k
          BY <1>3, <2>2, <4>1, <5>1, <5>2, <5>4
        <5> QED BY <5>3, <5>4
      <4> QED BY <1>1, <1>3, <2>4, <4>1, <4>2, <4>3 DEF WalkSound, Walking, Passed
    <3> QED BY <3>1, <3>2
  <2> QED BY <1>1, <1>4, <2>3, <2>5, WalkStep
<1>5. CASE /\ UNCHANGED due
           /\ entry' = [entry EXCEPT ![at].fd = -1]
           /\ at \in Linked => peer[at] # "up"
  <2>1. /\ entry' \in [Conns -> Entry]
        /\ \A c \in Conns : /\ c # at => entry'[c] = entry[c]
                            /\ entry'[c].state = entry[c].state
                            /\ entry'[c].version = entry[c].version
        /\ entry'[at].fd = -1
    <3>1. [entry[at] EXCEPT !.fd = -1] \in Entry
      <4>1. entry[at] \in Entry
        BY <1>1 DEF ServerTypes
      <4> QED BY <4>1 DEF Entry
    <3>2. entry' = [entry EXCEPT ![at] = [entry[at] EXCEPT !.fd = -1]]
      BY <1>5
    <3> QED BY <1>1, <3>1, <3>2 DEF ServerTypes, Entry
  <2>2. Linked' = Linked
    BY <2>1 DEF Linked
  <2>3. ServerTypes' /\ HashSound'
    BY <1>1, <1>5, <2>1, <2>2 DEF ServerTypes, HashSound
  <2>4. \A c \in Conns : /\ Claims(c)' => Claims(c)
                         /\ Holding(c)' <=> Holding(c)
                         /\ Fresh(c)' <=> Fresh(c)
    BY <1>1, <2>1, <2>2 DEF Claims, Holding, Fresh
  <2>5. ASSUME NEW c \in Conns PROVE LifeSound(c)' /\ VersionsSound(c)' /\ OwnersSound(c)'
    <3>1. LifeSound(c)'
      BY <1>1, <2>1, <2>2, <2>4 DEF LifeSound
    <3>2. VersionsSound(c)'
      BY <1>1, <2>1, <2>2 DEF VersionsSound, Proper
    <3>3. OwnersSound(c)'
      BY <1>1, <1>5, <2>1, <2>2, <2>4 DEF OwnersSound
    <3> QED BY <3>1, <3>2, <3>3
  <2>6. NumbersUnique'
    BY <1>1, <2>4 DEF NumbersUnique
  <2>7. WalkSound'
    <3>1. CASE due = NobodyDue
      BY <1>1, <1>3, <1>5, <2>2, <3>1 DEF WalkSound, Walking, Passed, NobodyDue
    <3>2. CASE due # NobodyDue
      <4>1. at \in Linked /\ peer[at] # "up"
        BY <1>1, <1>2, <1>5, <3>2 DEF WalkSound, Walking
      <4>2. ASSUME NEW i \in 1..Len(order), NEW k \in 1..Len(order), order[k] = at
            PROVE  /\ i <= k /\ peer[order[i]] = "up" => due[order[i]] \in {"no", "told"}
                   /\ ~(i <= k) => due[order[i]] \in {"no", "due"}
        <5>1. /\ i < k /\ peer[order[i]] = "up" => due[order[i]] \in {"no", "told"}
              /\ ~(i < k) => due[order[i]] \in {"no", "due"}
          BY <1>1, <1>2, <4>2 DEF WalkSound, Walking, Passed
        <5>2. i = k => peer[order[i]] # "up"
          BY <4>1, <4>2
        <5> QED BY <1>3, <5>1, <5>2
      <4>3. \A c \in Conns : due[c] # "no" => c \in Linked
        BY DEF WalkSound
      <4> QED BY <1>1, <1>3, <1>5, <2>2, <4>1, <4>2, <4>3 DEF WalkSound, Walking, Passed
    <3> QED BY <3>1, <3>2
  <2> QED BY <2>3, <2>4, <2>5, <2>6, <2>7
<1> QED
  BY <1>4, <1>5, <1>2, CastSendFacts

(* accept gives up when there is no descriptor; a step of nobody.          *)
LEMMA AcceptorDoneSound ==
  ASSUME Sound, UNCHANGED <<osVars, hashVars, threadVars, castVars>>,
         UNCHANGED acceptor \/ (acceptor = "accept" /\ acceptor' = "done")
  PROVE  Sound'
<1> USE DEF Sound
<1>1. UNCHANGED <<peer, fd, owner, order, entry, ccl, thread, cast, due>> /\ Linked' = Linked
  BY DEF osVars, hashVars, threadVars, castVars, Linked
<1>2. ServerTypes' /\ HashSound' /\ WalkSound'
  BY <1>1, WalkKept DEF ServerTypes, HashSound
<1>3. \A d \in Conns : LifeSound(d)' /\ VersionsSound(d)' /\ OwnersSound(d)' /\ (Fresh(d)' => Fresh(d))
  BY <1>1 DEF LifeSound, VersionsSound, Proper, OwnersSound, Claims, Holding, Fresh
<1>4. NumbersUnique'
  BY <1>1 DEF NumbersUnique, Claims, Holding, Fresh
<1> QED
  BY <1>2, <1>3, <1>4

-----------------------------------------------------------------------------
LEMMA ServerStep == ServerInv /\ [Next]_vars => ServerInv'
<1> SUFFICES ASSUME ServerInv, [Next]_vars, ~early' PROVE Sound'
  BY DEF ServerInv
<1>1. ~early
  BY DEF Next, RunServerLoop, Serve, SendToAll, Accept, Spawn, AcceptFails, FindSession, Receive, Reply,
         ConnectionLost, StatusLost, Wipe, CastBegin, CastSend, CastNext, CastEnd, PeerLeaves, vars
<1>2. Sound
  BY <1>1 DEF ServerInv
<1>3. ASSUME NEW c \in Conns, Accept(c) PROVE Sound'
  BY <1>2, <1>3, AcceptSound
<1>4. ASSUME NEW c \in Conns, Spawn(c) PROVE Sound'
  BY <1>2, <1>4, SpawnSound
<1>5. CASE AcceptFails
  BY <1>2, <1>5, AcceptorDoneSound DEF AcceptFails
<1>6. ASSUME NEW c \in Conns, FindSession(c) PROVE Sound'
  BY <1>2, <1>6, FindSessionSound
<1>7. ASSUME NEW c \in Conns, NEW v \in Versions[c], Receive(c, v) PROVE Sound'
  BY <1>2, <1>7, ReceiveSound
<1>8. ASSUME NEW c \in Conns, Reply(c) PROVE Sound'
  <2>1. /\ thread[c] = "reply" /\ thread' = [thread EXCEPT ![c] = "loop"]
        /\ UNCHANGED <<osVars, acceptor, hashVars, ccl, castVars>>
    BY <1>8 DEF Reply
  <2> QED BY <1>2, <2>1, ThreadStepSound
<1>9. ASSUME NEW c \in Conns, ConnectionLost(c) PROVE Sound'
  BY <1>2, <1>9, ThreadStepSound DEF ConnectionLost
<1>10. ASSUME NEW c \in Conns, StatusLost(c) PROVE Sound'
  BY <1>2, <1>10, StatusLostSound
<1>11. ASSUME NEW c \in Conns, Wipe(c) PROVE Sound'
  BY <1>2, <1>11, WipeSound
<1>12. CASE CastBegin
  BY <1>2, <1>12, CastBeginSound
<1>13. CASE CastSend
  BY <1>2, <1>13, CastSendSound
<1>14. CASE CastNext
  BY <1>2, <1>14, CastNextSound
<1>15. CASE CastEnd
  BY <1>2, <1>15, CastEndSound
<1>16. ASSUME NEW c \in Conns, PeerLeaves(c) PROVE Sound'
  BY <1>2, <1>16, PeerLeavesSound
<1>17. CASE UNCHANGED vars
  BY <1>2, <1>17, AcceptorDoneSound DEF vars
<1> QED
  BY <1>3, <1>4, <1>5, <1>6, <1>7, <1>8, <1>9, <1>10, <1>11, <1>12, <1>13, <1>14, <1>15, <1>16, <1>17
     DEF Next, RunServerLoop, Serve, SendToAll

(* In every reachable state, unless a descriptor came back early, numbers  *)
(* are names.                                                              *)
THEOREM NumbersAreNames == Spec => []ServerInv
BY SoundInit, ServerStep, PTL DEF Spec

(* handleClient serves a client from the CacheClient that handleStatus     *)
(* made for this connection, however many others come, go, fail to get a   *)
(* thread or a message.                                                    *)
THEOREM OwnEntryServed == Spec => []ServedFromOwnEntry
<1>1. ServerInv => ServedFromOwnEntry
  BY DEF ServerInv, Sound, ServedFromOwnEntry, LifeSound, Linked
<1> QED
  BY <1>1, NumbersAreNames, PTL

(* A peer that keeps to one version that the cache knows is never hung up  *)
(* on by handleClient, and is answered in its version.                     *)
THEOREM OneVersionIsEnough == Spec => []ProperPeersServed
<1>1. ServerInv => ProperPeersServed
  <2> SUFFICES ASSUME Sound, NEW c \in Conns, Proper(c)
               PROVE  /\ peer[c] # "closed"
                      /\ thread[c] = "reply" => entry[ccl[c]].version \in Versions[c]
    BY DEF ServerInv, ProperPeersServed
  <2> QED BY DEF Sound, VersionsSound, LifeSound
<1> QED
  BY <1>1, NumbersAreNames, PTL

(* sendSerialNotifyToAllClients sends exactly one message to each client   *)
(* that was there when it began and when it ended, failures of others or   *)
(* not, if nobody left meanwhile.                                          *)
THEOREM EveryoneNotifiedOnce == Spec => []NotifyReachesAll
<1>1. ServerInv => NotifyReachesAll
  BY DEF ServerInv, Sound, NotifyReachesAll, WalkSound
<1> QED
  BY <1>1, NumbersAreNames, PTL

(* clientThreadCleanup takes the client off the hash, or it cannot be sent *)
(* to any more.                                                            *)
THEOREM EndedForgotten == Spec => []EndedClientsForgotten
<1>1. ServerInv => EndedClientsForgotten
  BY DEF ServerInv, Sound, EndedClientsForgotten, LifeSound, Linked
<1> QED
  BY <1>1, NumbersAreNames, PTL

-----------------------------------------------------------------------------
(* The cache lock for any number of clients, any interval of the service   *)
(* timer and signals that hit any thread anywhere.  Only a thread that is  *)
(* hit while it writes, or reset, makes the lock's count of readers and    *)
(* its writer differ from the sections the threads are in: what follows is *)
(* about the time before.                                                  *)

Ops == {"read", "unlockRead", "write", "unlockWrite"}

(* What a thread can have left to call, with the read and the write        *)
(* sections it is in by then.                                              *)
OutsideLock ==
  { <<>>,
    <<"read", "unlockRead", "write", "unlockWrite", "read", "unlockRead">>,
    <<"read", "unlockRead", "write", "unlockWrite">>,
    <<"write", "unlockWrite", "read", "unlockRead">>,
    <<"write", "unlockWrite">>,
    <<"read", "read", "unlockRead", "unlockRead">>,
    <<"read", "unlockRead">> }
InsideRead ==
  { <<"unlockRead", "write", "unlockWrite", "read", "unlockRead">>,
    <<"unlockRead", "write", "unlockWrite">>,
    <<"read", "unlockRead", "unlockRead">>,
    <<"unlockRead">> }
InsideReadTwice == { <<"unlockRead", "unlockRead">> }
InsideWrite == { <<"unlockWrite", "read", "unlockRead">>, <<"unlockWrite">> }

(* The calls s are what is left in r read and w write sections.            *)
Left(s, r, w) ==
  \/ s \in OutsideLock     /\ r = 0 /\ w = 0
  \/ s \in InsideRead      /\ r = 1 /\ w = 0
  \/ s \in InsideReadTwice /\ r = 2 /\ w = 0
  \/ s \in InsideWrite     /\ r = 0 /\ w = 1

Callbacks ==
  { <<"write", "unlockWrite">>, <<"write", "unlockWrite", "read", "unlockRead">> }

(* A thread that has the calls c left, on top of them the handler's h:     *)
(* nothing interrupts it; it was hit outside of the lock; or it was hit    *)
(* while it reads, and the handler has not got the lock.                   *)
Standing(c, h, r, w) ==
  \/ h = <<>> /\ Left(c, r, w)
  \/ c \in OutsideLock /\ Left(h, r, w)
  \/ h \in Callbacks /\ r # 0 /\ w = 0 /\ Left(c, r, w)

LockTypes ==
  /\ readers \in Int
  /\ writer \in Threads \cup {Nobody}
  /\ claim \in {NoClaim} \cup (Threads \X BOOLEAN)
  /\ calls \in [Threads -> Seq(Ops)]
  /\ handler \in [Threads -> Seq(Ops)]
  /\ reading \in [Threads -> Nat]
  /\ writing \in [Threads -> Nat]

(* The sections the threads believe to be in, each a thing to count.       *)
ReadSections == {s \in Threads \X {1, 2} : s[2] <= reading[s[1]]}

(* Who claims the lock is about to take it, by its own code, which only a  *)
(* callback that has not got the lock can interrupt, or by its handler.    *)
Claiming(p, onTop) ==
  IF onTop THEN handler[p] # <<>> /\ Head(handler[p]) = "write"
  ELSE /\ calls[p] # <<>> /\ Head(calls[p]) = "write"
       /\ handler[p] = <<>> \/ handler[p] \in Callbacks
ClaimSound ==
  /\ claim # NoClaim => writer = Nobody
  /\ \A p \in Threads, onTop \in BOOLEAN : claim = <<p, onTop>> => Claiming(p, onTop)

LockSound ==
  /\ LockTypes
  /\ ClaimSound
  /\ \A t \in Threads : Standing(calls[t], handler[t], reading[t], writing[t])
  /\ \A t \in Threads : writing[t] = 1 <=> writer = t
  /\ writer # Nobody => \A t \in Threads : reading[t] = 0
  /\ readers = Cardinality(ReadSections)

LockInv == ~spoiled => LockSound

-----------------------------------------------------------------------------
(* Each call leads to the sections the calls behind it expect.             *)
LEMMA LeftSteps ==
  ASSUME NEW s, NEW r, NEW w, Left(s, r, w), s # <<>>
  PROVE  /\ Head(s) = "read" => w = 0 /\ r \in {0, 1} /\ Left(Tail(s), r + 1, 0)
         /\ Head(s) = "unlockRead" => w = 0 /\ r \in {1, 2} /\ Left(Tail(s), r - 1, 0)
         /\ Head(s) = "write" => w = 0 /\ r = 0 /\ Left(Tail(s), 0, 1)
         /\ Head(s) = "unlockWrite" => w = 1 /\ r = 0 /\ Left(Tail(s), 0, 0)
         /\ w = 1 => Head(s) = "unlockWrite"
<1>1. CASE s \in OutsideLock /\ r = 0 /\ w = 0
  <2>1. s = <<"read", "unlockRead", "write", "unlockWrite", "read", "unlockRead">> => Head(s) = "read" /\ Tail(s) = <<"unlockRead", "write", "unlockWrite", "read", "unlockRead">>
    OBVIOUS
  <2>2. s = <<"read", "unlockRead", "write", "unlockWrite">> => Head(s) = "read" /\ Tail(s) = <<"unlockRead", "write", "unlockWrite">>
    OBVIOUS
  <2>3. s = <<"write", "unlockWrite", "read", "unlockRead">> => Head(s) = "write" /\ Tail(s) = <<"unlockWrite", "read", "unlockRead">>
    OBVIOUS
  <2>4. s = <<"write", "unlockWrite">> => Head(s) = "write" /\ Tail(s) = <<"unlockWrite">>
    OBVIOUS
  <2>5. s = <<"read", "read", "unlockRead", "unlockRead">> => Head(s) = "read" /\ Tail(s) = <<"read", "unlockRead", "unlockRead">>
    OBVIOUS
  <2>6. s = <<"read", "unlockRead">> => Head(s) = "read" /\ Tail(s) = <<"unlockRead">>
    OBVIOUS
  <2> QED BY <1>1, <2>1, <2>2, <2>3, <2>4, <2>5, <2>6 DEF Left, OutsideLock, InsideRead, InsideWrite
<1>2. CASE s \in InsideRead /\ r = 1 /\ w = 0
  <2>1. s = <<"unlockRead", "write", "unlockWrite", "read", "unlockRead">> => Head(s) = "unlockRead" /\ Tail(s) = <<"write", "unlockWrite", "read", "unlockRead">>
    OBVIOUS
  <2>2. s = <<"unlockRead", "write", "unlockWrite">> => Head(s) = "unlockRead" /\ Tail(s) = <<"write", "unlockWrite">>
    OBVIOUS
  <2>3. s = <<"read", "unlockRead", "unlockRead">> => Head(s) = "read" /\ Tail(s) = <<"unlockRead", "unlockRead">>
    OBVIOUS
  <2>4. s = <<"unlockRead">> => Head(s) = "unlockRead" /\ Tail(s) = <<>>
    OBVIOUS
  <2> QED BY <1>2, <2>1, <2>2, <2>3, <2>4 DEF Left, InsideRead, InsideReadTwice, OutsideLock
<1>3. CASE s \in InsideReadTwice /\ r = 2 /\ w = 0
  <2>1. s = <<"unlockRead", "unlockRead">> => Head(s) = "unlockRead" /\ Tail(s) = <<"unlockRead">>
    OBVIOUS
  <2> QED BY <1>3, <2>1 DEF Left, InsideReadTwice, InsideRead
<1>4. CASE s \in InsideWrite /\ r = 0 /\ w = 1
  <2>1. s = <<"unlockWrite", "read", "unlockRead">> => Head(s) = "unlockWrite" /\ Tail(s) = <<"read", "unlockRead">>
    OBVIOUS
  <2>2. s = <<"unlockWrite">> => Head(s) = "unlockWrite" /\ Tail(s) = <<>>
    OBVIOUS
  <2> QED BY <1>4, <2>1, <2>2 DEF Left, InsideWrite, OutsideLock
<1> QED
  BY <1>1, <1>2, <1>3, <1>4 DEF Left

(* Two sequences of calls in a row.                                        *)
LEMMA CallsInARow ==
  ASSUME NEW a \in Seq(Ops), NEW b \in Seq(Ops), NEW c \in Seq(Ops), Len(c) = Len(a) + Len(b),
         \A i \in 1..Len(a) : c[i] = a[i], \A i \in 1..Len(b) : c[Len(a) + i] = b[i]
  PROVE  a \o b = c
<1>1. /\ a \o b \in Seq(Ops) /\ Len(a \o b) = Len(a) + Len(b)
      /\ \A i \in 1..Len(a) + Len(b) : (a \o b)[i] = IF i <= Len(a) THEN a[i] ELSE b[i - Len(a)]
  BY ConcatProperties
<1>2. Len(a) \in Nat /\ Len(b) \in Nat
  OBVIOUS
<1>3. ASSUME NEW i \in 1..Len(a \o b) PROVE (a \o b)[i] = c[i]
  <2>1. CASE i <= Len(a)
    BY <1>1, <1>2, <2>1
  <2>2. CASE i > Len(a)
    <3>1. i - Len(a) \in 1..Len(b) /\ Len(a) + (i - Len(a)) = i
      BY <1>1, <1>2, <2>2
    <3> QED BY <1>1, <1>2, <2>2, <3>1
  <2> QED BY <1>1, <1>2, <2>1, <2>2
<1> QED
  BY <1>1, <1>3, SeqEqual

(* What a command but reset, a query or a callback calls starts outside.   *)
LEMMA PlansOutside ==
  /\ Commands \ {sendCacheResetToAllClients} \subseteq OutsideLock
  /\ sendCacheObjects \subseteq OutsideLock
  /\ serviceTimerExpired = Callbacks /\ Callbacks \subseteq OutsideLock
<1> USE DEF Ops
<1>1. <<"read">> \o <<"unlockRead", "write">>
        = <<"read", "unlockRead", "write">>
  <2> DEFINE a == <<"read">>
             b == <<"unlockRead", "write">>
             c == <<"read", "unlockRead", "write">>
  <2>1. a \in Seq(Ops) /\ b \in Seq(Ops) /\ c \in Seq(Ops)
    OBVIOUS
  <2>2. Len(a) = 1 /\ Len(b) = 2 /\ Len(c) = 3
    OBVIOUS
  <2>3. \A i \in 1..1 : c[i] = a[i]
    OBVIOUS
  <2>4. \A i \in 1..2 : c[1 + i] = b[i]
    OBVIOUS
  <2>5. a \o b = c
    <3> HIDE DEF Ops, a, b, c
    <3>1. Len(c) = Len(a) + Len(b)
      BY <2>2
    <3>2. \A i \in 1..Len(a) : c[i] = a[i]
      BY <2>2, <2>3
    <3>3. \A i \in 1..Len(b) : c[Len(a) + i] = b[i]
      BY <2>2, <2>4
    <3> QED BY <2>1, <3>1, <3>2, <3>3, CallsInARow, Zenon
  <2> QED BY <2>5
<1>2. <<"read", "unlockRead", "write">> \o <<"unlockWrite", "read">>
        = <<"read", "unlockRead", "write", "unlockWrite", "read">>
  <2> DEFINE a == <<"read", "unlockRead", "write">>
             b == <<"unlockWrite", "read">>
             c == <<"read", "unlockRead", "write", "unlockWrite", "read">>
  <2>1. a \in Seq(Ops) /\ b \in Seq(Ops) /\ c \in Seq(Ops)
    OBVIOUS
  <2>2. Len(a) = 3 /\ Len(b) = 2 /\ Len(c) = 5
    OBVIOUS
  <2>3. \A i \in 1..3 : c[i] = a[i]
    OBVIOUS
  <2>4. \A i \in 1..2 : c[3 + i] = b[i]
    OBVIOUS
  <2>5. a \o b = c
    <3> HIDE DEF Ops, a, b, c
    <3>1. Len(c) = Len(a) + Len(b)
      BY <2>2
    <3>2. \A i \in 1..Len(a) : c[i] = a[i]
      BY <2>2, <2>3
    <3>3. \A i \in 1..Len(b) : c[Len(a) + i] = b[i]
      BY <2>2, <2>4
    <3> QED BY <2>1, <3>1, <3>2, <3>3, CallsInARow, Zenon
  <2> QED BY <2>5
<1>3. <<"read", "unlockRead", "write", "unlockWrite", "read">> \o <<"unlockRead">>
        = <<"read", "unlockRead", "write", "unlockWrite", "read", "unlockRead">>
  <2> DEFINE a == <<"read", "unlockRead", "write", "unlockWrite", "read">>
             b == <<"unlockRead">>
             c == <<"read", "unlockRead", "write", "unlockWrite", "read", "unlockRead">>
  <2>1. a \in Seq(Ops) /\ b \in Seq(Ops) /\ c \in Seq(Ops)
    OBVIOUS
  <2>2. Len(a) = 5 /\ Len(b) = 1 /\ Len(c) = 6
    OBVIOUS
  <2>3. \A i \in 1..5 : c[i] = a[i]
    OBVIOUS
  <2>4. \A i \in 1..1 : c[5 + i] = b[i]
    OBVIOUS
  <2>5. a \o b = c
    <3> HIDE DEF Ops, a, b, c
    <3>1. Len(c) = Len(a) + Len(b)
      BY <2>2
    <3>2. \A i \in 1..Len(a) : c[i] = a[i]
      BY <2>2, <2>3
    <3>3. \A i \in 1..Len(b) : c[Len(a) + i] = b[i]
      BY <2>2, <2>4
    <3> QED BY <2>1, <3>1, <3>2, <3>3, CallsInARow, Zenon
  <2> QED BY <2>5
<1>4. <<"read", "unlockRead", "write">> \o <<"unlockWrite">>
        = <<"read", "unlockRead", "write", "unlockWrite">>
  <2> DEFINE a == <<"read", "unlockRead", "write">>
             b == <<"unlockWrite">>
             c == <<"read", "unlockRead", "write", "unlockWrite">>
  <2>1. a \in Seq(Ops) /\ b \in Seq(Ops) /\ c \in Seq(Ops)
    OBVIOUS
  <2>2. Len(a) = 3 /\ Len(b) = 1 /\ Len(c) = 4
    OBVIOUS
  <2>3. \A i \in 1..3 : c[i] = a[i]
    OBVIOUS
  <2>4. \A i \in 1..1 : c[3 + i] = b[i]
    OBVIOUS
  <2>5. a \o b = c
    <3> HIDE DEF Ops, a, b, c
    <3>1. Len(c) = Len(a) + Len(b)
      BY <2>2
    <3>2. \A i \in 1..Len(a) : c[i] = a[i]
      BY <2>2, <2>3
    <3>3. \A i \in 1..Len(b) : c[Len(a) + i] = b[i]
      BY <2>2, <2>4
    <3> QED BY <2>1, <3>1, <3>2, <3>3, CallsInARow, Zenon
  <2> QED BY <2>5
<1>5. appendPrefixData = <<"read", "unlockRead", "write", "unlockWrite", "read", "unlockRead">>
  BY <1>1, <1>2, <1>3 DEF appendPrefixData, changeReadToWriteLock, changeWriteToReadLock
<1>6. processEntryRemoval = <<"read", "unlockRead", "write", "unlockWrite">>
  BY <1>1, <1>4 DEF processEntryRemoval, changeReadToWriteLock
<1>7. sendCacheObjects = {<<"read", "unlockRead">>, <<"read", "read", "unlockRead", "unlockRead">>}
  BY DEF sendCacheObjects, dropSession, printCache
<1>8. serviceTimerExpired = {<<"write", "unlockWrite">>, <<"write", "unlockWrite", "read", "unlockRead">>}
  BY DEF serviceTimerExpired, deleteExpiredEntriesFromCache, emptyCache, printCache
<1>9. Commands \ {sendCacheResetToAllClients} \subseteq
        {appendPrefixData, processEntryRemoval, <<"read", "unlockRead">>, <<"write", "unlockWrite">>}
  BY DEF Commands, printCache, emptyCache
<1> QED
  BY <1>5, <1>6, <1>7, <1>8, <1>9 DEF OutsideLock, Callbacks

LEMMA OutsideTyped == OutsideLock \subseteq Seq(Ops)
BY DEF OutsideLock, Ops

-----------------------------------------------------------------------------
LEMMA SectionsFinite == IsFiniteSet(ReadSections)
<1>1. IsFiniteSet(Threads)
  BY ClientThreads, FS_AddElement DEF Threads
<1>2. IsFiniteSet({1, 2})
  BY FS_Singleton, FS_AddElement, IsFiniteSet({1}), IsFiniteSet({1} \cup {2}), {1, 2} = {1} \cup {2}
<1>3. IsFiniteSet(Threads \X {1, 2})
  BY <1>1, <1>2, FS_Product
<1> QED
  BY <1>3, FS_Subset DEF ReadSections

(* One thread enters or leaves one section.                                *)
LEMMA OneSectionMore ==
  ASSUME LockTypes, NEW t \in Threads, reading[t] \in {0, 1},
         reading' = [reading EXCEPT ![t] = @ + 1]
  PROVE  Cardinality(ReadSections)' = Cardinality(ReadSections) + 1
<1>1. ReadSections' = ReadSections \cup {<<t, reading[t] + 1>>}
  BY DEF ReadSections, LockTypes
<1>2. <<t, reading[t] + 1>> \notin ReadSections
  BY DEF ReadSections
<1> QED
  BY <1>1, <1>2, SectionsFinite, FS_AddElement

LEMMA OneSectionLess ==
  ASSUME LockTypes, NEW t \in Threads, reading[t] \in {1, 2},
         reading' = [reading EXCEPT ![t] = @ - 1]
  PROVE  Cardinality(ReadSections)' = Cardinality(ReadSections) - 1
<1>1. ReadSections' = ReadSections \ {<<t, reading[t]>>}
  BY DEF ReadSections, LockTypes
<1>2. <<t, reading[t]>> \in ReadSections
  BY DEF ReadSections
<1> QED
  BY <1>1, <1>2, SectionsFinite, FS_RemoveElement

(* The lock has no reader if and only if no thread is in a read section.   *)
LEMMA ReadersCounted ==
  ASSUME LockSound
  PROVE  /\ readers \in Nat
         /\ readers = 0 <=> \A t \in Threads : reading[t] = 0
<1>1. readers \in Nat /\ (readers = 0 <=> ReadSections = {})
  BY SectionsFinite, FS_CardinalityType, FS_EmptySet DEF LockSound
<1>2. ReadSections = {} <=> \A t \in Threads : reading[t] = 0
  <2>1. ASSUME NEW t \in Threads, reading[t] # 0 PROVE <<t, 1>> \in ReadSections
    BY <2>1 DEF ReadSections, LockSound, LockTypes
  <2>2. ASSUME \A t \in Threads : reading[t] = 0 PROVE ReadSections = {}
    BY <2>2 DEF ReadSections
  <2> QED BY <2>1, <2>2
<1> QED
  BY <1>1, <1>2

(* A thread goes on in what it has left to call, the others stay.          *)
LEMMA Advances ==
  ASSUME LockTypes, NEW t \in Threads, Todo(t) # <<>>, Advance(t)
  PROVE  /\ calls' \in [Threads -> Seq(Ops)] /\ handler' \in [Threads -> Seq(Ops)]
         /\ \A u \in Threads : u # t => calls'[u] = calls[u] /\ handler'[u] = handler[u]
         /\ handler[t] # <<>> => calls'[t] = calls[t] /\ handler'[t] = Tail(handler[t])
         /\ handler[t] = <<>> => calls'[t] = Tail(calls[t]) /\ handler'[t] = <<>>
<1> USE DEF LockTypes
<1>1. CASE handler[t] # <<>>
  <2>1. handler' = [handler EXCEPT ![t] = Tail(handler[t])] /\ UNCHANGED calls
    BY <1>1 DEF Advance
  <2>2. Tail(handler[t]) \in Seq(Ops)
    BY <1>1, HeadTailProperties
  <2> QED BY <1>1, <2>1, <2>2
<1>2. CASE handler[t] = <<>>
  <2>1. calls' = [calls EXCEPT ![t] = Tail(calls[t])] /\ UNCHANGED handler /\ calls[t] # <<>>
    BY <1>2 DEF Advance, Todo
  <2>2. Tail(calls[t]) \in Seq(Ops)
    BY <2>1, HeadTailProperties
  <2> QED BY <1>2, <2>1, <2>2
<1> QED
  BY <1>1, <1>2

(* What a thread calls next, its handler first, and where it stands then.  *)
LEMMA StandingSteps ==
  ASSUME NEW c, NEW h, NEW r, NEW w, Standing(c, h, r, w), NEW s, NEW c2, NEW h2, s # <<>>,
         s = IF h # <<>> THEN h ELSE c,
         h # <<>> => c2 = c /\ h2 = Tail(h),
         h = <<>> => c2 = Tail(c) /\ h2 = <<>>
  PROVE  /\ Head(s) = "read" => w = 0 /\ r \in {0, 1} /\ Standing(c2, h2, r + 1, 0)
         /\ Head(s) = "unlockRead" => w = 0 /\ r \in {1, 2} /\ Standing(c2, h2, r - 1, 0)
         /\ Head(s) = "write" => w = 0 /\ (r = 0 => Standing(c2, h2, 0, 1))
         /\ Head(s) = "unlockWrite" => w = 1 /\ r = 0 /\ Standing(c2, h2, 0, 0)
         /\ w = 1 => Head(s) = "unlockWrite"
         /\ Head(s) = "write" /\ r # 0 => h # <<>>
<1>1. CASE h = <<>>
  <2>1. Left(c, r, w)
    BY <1>1 DEF Standing, Left, OutsideLock, InsideRead, InsideReadTwice, InsideWrite, Callbacks
  <2>2. s = c /\ c2 = Tail(c) /\ h2 = <<>>
    BY <1>1
  <2>3. /\ Head(s) = "read" => w = 0 /\ r \in {0, 1} /\ Left(c2, r + 1, 0)
        /\ Head(s) = "unlockRead" => w = 0 /\ r \in {1, 2} /\ Left(c2, r - 1, 0)
        /\ Head(s) = "write" => w = 0 /\ r = 0 /\ Left(c2, 0, 1)
        /\ Head(s) = "unlockWrite" => w = 1 /\ r = 0 /\ Left(c2, 0, 0)
        /\ w = 1 => Head(s) = "unlockWrite"
    BY <2>1, <2>2, LeftSteps
  <2> QED BY <2>2, <2>3 DEF Standing
<1>2. CASE h # <<>> /\ c \in OutsideLock /\ Left(h, r, w)
  <2>1. s = h /\ c2 = c /\ h2 = Tail(h)
    BY <1>2
  <2>2. /\ Head(s) = "read" => w = 0 /\ r \in {0, 1} /\ Left(h2, r + 1, 0)
        /\ Head(s) = "unlockRead" => w = 0 /\ r \in {1, 2} /\ Left(h2, r - 1, 0)
        /\ Head(s) = "write" => w = 0 /\ r = 0 /\ Left(h2, 0, 1)
        /\ Head(s) = "unlockWrite" => w = 1 /\ r = 0 /\ Left(h2, 0, 0)
        /\ w = 1 => Head(s) = "unlockWrite"
    BY <1>2, <2>1, LeftSteps
  <2> QED BY <1>2, <2>1, <2>2 DEF Standing
<1>3. CASE h # <<>> /\ h \in Callbacks /\ r # 0 /\ w = 0 /\ Left(c, r, w)
  <2>1. s = h
    BY <1>3
  <2>2. Head(s) = "write"
    BY <1>3, <2>1 DEF Callbacks
  <2> QED BY <1>3, <2>2
<1> QED
  BY <1>1, <1>2, <1>3 DEF Standing

(* The same of a thread of a state.                                        *)
LEMMA ThreadSteps ==
  ASSUME LockSound, NEW t \in Threads, Todo(t) # <<>>
  PROVE  /\ Head(Todo(t)) = "read" => writing[t] = 0 /\ reading[t] \in {0, 1}
         /\ Head(Todo(t)) = "unlockRead" => writing[t] = 0 /\ reading[t] \in {1, 2}
         /\ Head(Todo(t)) = "write" => writing[t] = 0
         /\ Head(Todo(t)) = "unlockWrite" => writing[t] = 1 /\ reading[t] = 0
         /\ writing[t] = 1 => Head(Todo(t)) = "unlockWrite"
         /\ Head(Todo(t)) = "write" /\ reading[t] # 0 => handler[t] # <<>>
<1>1. PICK c2, h2 : /\ handler[t] # <<>> => c2 = calls[t] /\ h2 = Tail(handler[t])
                    /\ handler[t] = <<>> => c2 = Tail(calls[t]) /\ h2 = <<>>
  OBVIOUS
<1>2. Standing(calls[t], handler[t], reading[t], writing[t])
  BY DEF LockSound
<1>3. Todo(t) = IF handler[t] # <<>> THEN handler[t] ELSE calls[t]
  BY DEF Todo
<1> QED
  BY <1>1, <1>2, <1>3, StandingSteps

(* And after a call that it made.                                          *)
LEMMA CallSteps ==
  ASSUME LockSound, NEW t \in Threads, Todo(t) # <<>>, Advance(t)
  PROVE  /\ Head(Todo(t)) = "read" => Standing(calls'[t], handler'[t], reading[t] + 1, 0)
         /\ Head(Todo(t)) = "unlockRead" => Standing(calls'[t], handler'[t], reading[t] - 1, 0)
         /\ Head(Todo(t)) = "write" /\ reading[t] = 0 => Standing(calls'[t], handler'[t], 0, 1)
         /\ Head(Todo(t)) = "unlockWrite" => Standing(calls'[t], handler'[t], 0, 0)
<1>0. PICK c2, h2 : c2 = calls'[t] /\ h2 = handler'[t]
  OBVIOUS
<1>1. /\ handler[t] # <<>> => c2 = calls[t] /\ h2 = Tail(handler[t])
      /\ handler[t] = <<>> => c2 = Tail(calls[t]) /\ h2 = <<>>
  BY <1>0, Advances DEF LockSound
<1>2. Standing(calls[t], handler[t], reading[t], writing[t])
  BY DEF LockSound
<1>3. Todo(t) = IF handler[t] # <<>> THEN handler[t] ELSE calls[t]
  BY DEF Todo
<1>4. /\ Head(Todo(t)) = "read" => Standing(c2, h2, reading[t] + 1, 0)
      /\ Head(Todo(t)) = "unlockRead" => Standing(c2, h2, reading[t] - 1, 0)
      /\ Head(Todo(t)) = "write" /\ reading[t] = 0 => Standing(c2, h2, 0, 1)
      /\ Head(Todo(t)) = "unlockWrite" => Standing(c2, h2, 0, 0)
  BY <1>1, <1>2, <1>3, StandingSteps
<1> QED
  BY <1>0, <1>4

(* The others stand where they stood.                                      *)
LEMMA OthersStand ==
  ASSUME LockSound, NEW t \in Threads, Todo(t) # <<>>, Advance(t),
         \A u \in Threads : u # t => reading'[u] = reading[u] /\ writing'[u] = writing[u],
         Standing(calls'[t], handler'[t], reading'[t], writing'[t])
  PROVE  \A u \in Threads : Standing(calls'[u], handler'[u], reading'[u], writing'[u])
<1>1. \A u \in Threads : u # t => calls'[u] = calls[u] /\ handler'[u] = handler[u]
  BY Advances DEF LockSound
<1> QED
  BY <1>1 DEF LockSound

(* Who claims the lock takes it before anything else.                      *)
LEMMA ClaimKept ==
  ASSUME LockSound, NEW t \in Threads, Todo(t) # <<>>, Advance(t), Head(Todo(t)) # "write",
         UNCHANGED claim, writer' = writer \/ writer' = Nobody
  PROVE  ClaimSound'
<1>1. \A u \in Threads : u # t => calls'[u] = calls[u] /\ handler'[u] = handler[u]
  BY Advances DEF LockSound
<1>2. ASSUME NEW onTop \in BOOLEAN PROVE claim # <<t, onTop>>
  <2>1. claim = <<t, onTop>> => Claiming(t, onTop)
    BY DEF LockSound, ClaimSound
  <2>2. ~Claiming(t, onTop)
    BY DEF Claiming, Todo, Callbacks
  <2> QED BY <2>1, <2>2
<1>3. ASSUME NEW p \in Threads, NEW onTop \in BOOLEAN, claim' = <<p, onTop>>
      PROVE  Claiming(p, onTop)'
  <2>1. p # t /\ Claiming(p, onTop)
    BY <1>2, <1>3 DEF LockSound, ClaimSound
  <2> QED BY <1>1, <2>1 DEF Claiming
<1>4. claim' # NoClaim' => writer' = Nobody
  BY DEF LockSound, ClaimSound, NoClaim
<1> QED
  BY <1>3, <1>4 DEF ClaimSound

-----------------------------------------------------------------------------
LEMMA NobodyClaims == claim = NoClaim => ClaimSound
<1>1. ASSUME NEW p \in Threads, NEW onTop \in BOOLEAN PROVE NoClaim # <<p, onTop>>
  <2>1. p # Nobody
    BY ClientThreads DEF Threads, Nobody
  <2> QED BY <2>1 DEF NoClaim
<1> QED
  BY <1>1 DEF ClaimSound

LEMMA LockSoundInit == LockInit => LockSound
<1> SUFFICES ASSUME LockInit PROVE LockSound
  OBVIOUS
<1>1. <<>> \in Seq(Ops) /\ <<>> \in OutsideLock
  BY DEF OutsideLock
<1>2. LockTypes
  BY <1>1 DEF LockInit, LockTypes
<1>3. ReadSections = {}
  BY DEF LockInit, ReadSections
<1>4. \A t \in Threads : Standing(calls[t], handler[t], reading[t], writing[t])
  BY <1>1 DEF LockInit, Standing, Left
<1>5. \A t \in Threads : t # Nobody
  BY ClientThreads DEF Threads, Nobody
<1> QED
  BY <1>2, <1>3, <1>4, <1>5, FS_EmptySet, NobodyClaims DEF LockInit, LockSound

(* What gives a thread something to call: a command, a query, or a signal. *)
LEMMA BeginSound ==
  ASSUME LockSound, NEW t \in Threads, handler[t] = <<>>, NEW plan \in OutsideLock,
         \/ calls[t] = <<>> /\ calls' = [calls EXCEPT ![t] = plan] /\ UNCHANGED handler
         \/ /\ plan \in Callbacks /\ writing[t] = 0
            /\ handler' = [handler EXCEPT ![t] = plan] /\ UNCHANGED calls,
         UNCHANGED <<readers, writer, claim, reading, writing>>
  PROVE  LockSound'
<1> USE DEF LockSound, LockTypes
<1>1. plan \in Seq(Ops)
  BY OutsideTyped
<1>2. LockTypes'
  BY <1>1
<1>3. Left(calls[t], reading[t], writing[t])
  <2>1. Standing(calls[t], <<>>, reading[t], writing[t])
    OBVIOUS
  <2> QED BY <2>1 DEF Standing, Left, OutsideLock, InsideRead, InsideReadTwice, InsideWrite, Callbacks
<1>4. Standing(calls'[t], handler'[t], reading'[t], writing'[t])
  <2>1. CASE calls[t] = <<>> /\ calls' = [calls EXCEPT ![t] = plan] /\ UNCHANGED handler
    <3>1. reading[t] = 0 /\ writing[t] = 0
      BY <1>3, <2>1 DEF Left, OutsideLock, InsideRead, InsideReadTwice, InsideWrite
    <3> QED BY <2>1, <3>1 DEF Standing, Left
  <2>2. CASE /\ plan \in Callbacks /\ writing[t] = 0
             /\ handler' = [handler EXCEPT ![t] = plan] /\ UNCHANGED calls
    <3>1. CASE reading[t] = 0
      <4>1. calls[t] \in OutsideLock
        BY <1>3, <2>2, <3>1 DEF Left
      <4> QED BY <2>2, <3>1, <4>1 DEF Standing, Left
    <3>2. CASE reading[t] # 0
      BY <1>3, <2>2, <3>2 DEF Standing
    <3> QED BY <3>1, <3>2
  <2> QED BY <2>1, <2>2
<1>5. \A u \in Threads : Standing(calls'[u], handler'[u], reading'[u], writing'[u])
  <2>1. \A u \in Threads : u # t => calls'[u] = calls[u] /\ handler'[u] = handler[u]
    OBVIOUS
  <2> QED BY <1>4, <2>1
<1>6. ReadSections' = ReadSections
  BY DEF ReadSections
<1>7. ClaimSound'
  <2>1. ASSUME NEW p \in Threads, NEW onTop \in BOOLEAN, claim' = <<p, onTop>>
        PROVE  Claiming(p, onTop)'
    <3>1. Claiming(p, onTop)
      BY <2>1 DEF ClaimSound
    <3>2. CASE p # t
      <4>1. calls'[p] = calls[p] /\ handler'[p] = handler[p]
        BY <3>2
      <4> QED BY <3>1, <4>1 DEF Claiming
    <3>3. CASE p = t
      <4>1. onTop = FALSE /\ calls[t] # <<>> /\ Head(calls[t]) = "write"
        BY <3>1, <3>3 DEF Claiming
      <4>2. calls'[t] = calls[t] /\ handler'[t] \in Callbacks
        BY <4>1
      <4> QED BY <3>3, <4>1, <4>2 DEF Claiming
    <3> QED BY <3>2, <3>3
  <2>2. claim' # NoClaim' => writer' = Nobody
    BY DEF ClaimSound, NoClaim
  <2> QED BY <2>1, <2>2 DEF ClaimSound
<1> QED
  BY <1>2, <1>5, <1>6, <1>7

LEMMA ClaimWriteLockSound ==
  ASSUME LockSound, NEW t \in Threads, ClaimWriteLock(t)
  PROVE  LockSound'
<1>1. UNCHANGED <<readers, writer, calls, handler, reading, writing>>
  BY DEF ClaimWriteLock, sectionVars
<1>2. Todo(t) # <<>> /\ Head(Todo(t)) = "write" /\ writer = Nobody
  BY DEF ClaimWriteLock, NextIs
<1>3. PICK onTop \in BOOLEAN : onTop = (handler[t] # <<>>) /\ claim' = <<t, onTop>>
  BY DEF ClaimWriteLock, Self
<1>4. LockTypes'
  BY <1>1, <1>3 DEF LockSound, LockTypes
<1>5. ClaimSound'
  <2>1. Claiming(t, onTop)
    BY <1>2, <1>3 DEF Claiming, Todo
  <2>2. Claiming(t, onTop)'
    BY <1>1, <2>1 DEF Claiming
  <2> QED BY <1>1, <1>2, <1>3, <2>2 DEF ClaimSound
<1>6. ReadSections' = ReadSections
  BY <1>1 DEF ReadSections
<1> QED
  BY <1>1, <1>4, <1>5, <1>6 DEF LockSound

LEMMA ReadLockSound ==
  ASSUME LockSound, NEW t \in Threads, acquireReadLock(t)
  PROVE  LockSound'
<1> USE DEF LockSound, LockTypes
<1>1. Todo(t) # <<>> /\ Head(Todo(t)) = "read" /\ Advance(t)
  BY DEF acquireReadLock, NextIs
<1>2. calls' \in [Threads -> Seq(Ops)] /\ handler' \in [Threads -> Seq(Ops)]
  BY <1>1, Advances
<1>3. /\ writing[t] = 0 /\ reading[t] \in {0, 1}
      /\ Standing(calls'[t], handler'[t], reading[t] + 1, 0)
  BY <1>1, ThreadSteps, CallSteps
<1>4. writer # t /\ writer = Nobody /\ readers' = readers + 1
  BY <1>3, ReadersCounted DEF acquireReadLock, CanRead, Refused
<1>5. /\ reading' = [reading EXCEPT ![t] = @ + 1] /\ UNCHANGED <<writer, claim, writing>>
      /\ \A u \in Threads : reading'[u] = IF u = t THEN reading[t] + 1 ELSE reading[u]
  BY DEF acquireReadLock
<1>6. LockTypes'
  <2>1. readers \in Nat
    BY ReadersCounted
  <2>2. reading[t] \in Nat
    OBVIOUS
  <2> HIDE DEF LockSound
  <2>3. readers' \in Int /\ reading[t] + 1 \in Nat
    BY <1>4, <2>1, <2>2
  <2>4. /\ writer' \in Threads \cup {Nobody} /\ claim' \in {NoClaim'} \cup (Threads \X BOOLEAN)
        /\ writing' \in [Threads -> Nat] /\ reading \in [Threads -> Nat]
    BY <1>5 DEF LockSound, NoClaim
  <2> QED BY <1>2, <1>5, <2>3, <2>4
<1>7. \A u \in Threads : Standing(calls'[u], handler'[u], reading'[u], writing'[u])
  <2>1. \A u \in Threads : u # t => reading'[u] = reading[u] /\ writing'[u] = writing[u]
    BY <1>5
  <2>2. Standing(calls'[t], handler'[t], reading'[t], writing'[t])
    BY <1>3, <1>5
  <2> HIDE DEF LockSound, LockTypes
  <2> QED BY <1>1, <2>1, <2>2, OthersStand
<1>8. readers' = Cardinality(ReadSections)'
  BY <1>3, <1>4, <1>5, OneSectionMore
<1>9. ClaimSound'
  <2> HIDE DEF LockSound, LockTypes
  <2> QED BY <1>1, <1>5, ClaimKept
<1> QED
  BY <1>4, <1>5, <1>6, <1>7, <1>8, <1>9

LEMMA ReadUnlockSound ==
  ASSUME LockSound, NEW t \in Threads, unlockReadLock(t)
  PROVE  LockSound'
<1> USE DEF LockSound, LockTypes
<1>1. Todo(t) # <<>> /\ Head(Todo(t)) = "unlockRead" /\ Advance(t)
  BY DEF unlockReadLock, NextIs
<1>2. calls' \in [Threads -> Seq(Ops)] /\ handler' \in [Threads -> Seq(Ops)]
  BY <1>1, Advances
<1>3. /\ writing[t] = 0 /\ reading[t] \in {1, 2}
      /\ Standing(calls'[t], handler'[t], reading[t] - 1, 0)
  BY <1>1, ThreadSteps, CallSteps
<1>4. writer # t /\ writer = Nobody /\ readers' = readers - 1
  BY <1>3 DEF unlockReadLock, Released
<1>5. /\ reading' = [reading EXCEPT ![t] = @ - 1] /\ UNCHANGED <<writer, claim, writing>>
      /\ \A u \in Threads : reading'[u] = IF u = t THEN reading[t] - 1 ELSE reading[u]
  <2>1. /\ reading' = [reading EXCEPT ![t] = IF reading[t] > 0 THEN reading[t] - 1 ELSE 0]
        /\ UNCHANGED <<claim, writing>>
    BY DEF unlockReadLock
  <2>2. (IF reading[t] > 0 THEN reading[t] - 1 ELSE 0) = reading[t] - 1
    BY <1>3
  <2>3. UNCHANGED writer
    BY <1>4 DEF unlockReadLock, Released
  <2>4. reading' = [reading EXCEPT ![t] = reading[t] - 1]
    BY <2>1, <2>2
  <2> QED BY <2>1, <2>3, <2>4
<1>6. LockTypes'
  BY <1>2, <1>3, <1>4, <1>5
<1>7. \A u \in Threads : Standing(calls'[u], handler'[u], reading'[u], writing'[u])
  <2>1. \A u \in Threads : u # t => reading'[u] = reading[u] /\ writing'[u] = writing[u]
    BY <1>5
  <2>2. Standing(calls'[t], handler'[t], reading'[t], writing'[t])
    BY <1>3, <1>5
  <2> HIDE DEF LockSound, LockTypes
  <2> QED BY <1>1, <2>1, <2>2, OthersStand
<1>8. readers' = Cardinality(ReadSections)'
  BY <1>3, <1>4, <1>5, OneSectionLess
<1>9. ClaimSound'
  <2> HIDE DEF LockSound, LockTypes
  <2> QED BY <1>1, <1>5, ClaimKept
<1> QED
  BY <1>4, <1>5, <1>6, <1>7, <1>8, <1>9

(* The lock is only free for a writer when nobody reads, a thread that is  *)
(* interrupted while it reads included.                                    *)
LEMMA WriteLockSound ==
  ASSUME LockSound, NEW t \in Threads, acquireWriteLock(t)
  PROVE  LockSound'
<1> USE DEF LockSound, LockTypes
<1>1. Todo(t) # <<>> /\ Head(Todo(t)) = "write" /\ Advance(t)
  BY DEF acquireWriteLock, NextIs
<1>2. calls' \in [Threads -> Seq(Ops)] /\ handler' \in [Threads -> Seq(Ops)]
  BY <1>1, Advances
<1>3. writing[t] = 0 /\ (reading[t] = 0 => Standing(calls'[t], handler'[t], 0, 1))
  BY <1>1, ThreadSteps, CallSteps
<1>4. writer = Nobody /\ readers = 0 /\ \A u \in Threads : reading[u] = 0
  BY <1>3, ReadersCounted DEF acquireWriteLock, CanWrite, Refused
<1>5. /\ writer' = t /\ claim' = NoClaim /\ UNCHANGED <<readers, reading>>
      /\ writing' = [writing EXCEPT ![t] = 1]
      /\ \A u \in Threads : writing'[u] = IF u = t THEN 1 ELSE writing[u]
  BY <1>3 DEF acquireWriteLock
<1>6. LockTypes'
  BY <1>2, <1>5 DEF NoClaim
<1>7. \A u \in Threads : Standing(calls'[u], handler'[u], reading'[u], writing'[u])
  <2>1. \A u \in Threads : u # t => reading'[u] = reading[u] /\ writing'[u] = writing[u]
    BY <1>5
  <2>2. Standing(calls'[t], handler'[t], reading'[t], writing'[t])
    BY <1>3, <1>4, <1>5
  <2> HIDE DEF LockSound, LockTypes
  <2> QED BY <1>1, <2>1, <2>2, OthersStand
<1>8. ReadSections' = ReadSections /\ \A u \in Threads : writing[u] # 1
  <2>1. \A u \in Threads : u # Nobody
    BY ClientThreads DEF Threads, Nobody
  <2> QED BY <1>4, <1>5, <2>1 DEF ReadSections
<1>9. ClaimSound'
  <2>1. \A p \in Threads : p # Nobody
    BY ClientThreads DEF Threads, Nobody
  <2> QED BY <1>5, <2>1 DEF ClaimSound, NoClaim
<1> QED
  BY <1>4, <1>5, <1>6, <1>7, <1>8, <1>9

LEMMA WriteUnlockSound ==
  ASSUME LockSound, NEW t \in Threads, unlockWriteLock(t)
  PROVE  LockSound'
<1> USE DEF LockSound, LockTypes
<1>1. Todo(t) # <<>> /\ Head(Todo(t)) = "unlockWrite" /\ Advance(t)
  BY DEF unlockWriteLock, NextIs
<1>2. calls' \in [Threads -> Seq(Ops)] /\ handler' \in [Threads -> Seq(Ops)]
  BY <1>1, Advances
<1>3. writing[t] = 1 /\ reading[t] = 0 /\ Standing(calls'[t], handler'[t], 0, 0)
  BY <1>1, ThreadSteps, CallSteps
<1>4. writer = t /\ writer' = Nobody /\ UNCHANGED <<readers, claim, reading>>
  BY <1>3 DEF unlockWriteLock, Released
<1>5. /\ writing' = [writing EXCEPT ![t] = 0]
      /\ \A u \in Threads : writing'[u] = IF u = t THEN 0 ELSE writing[u]
  BY <1>3 DEF unlockWriteLock
<1>6. LockTypes'
  BY <1>2, <1>4, <1>5
<1>7. \A u \in Threads : Standing(calls'[u], handler'[u], reading'[u], writing'[u])
  <2>1. \A u \in Threads : u # t => reading'[u] = reading[u] /\ writing'[u] = writing[u]
    BY <1>4, <1>5
  <2>2. Standing(calls'[t], handler'[t], reading'[t], writing'[t])
    BY <1>3, <1>4, <1>5
  <2> HIDE DEF LockSound, LockTypes
  <2> QED BY <1>1, <2>1, <2>2, OthersStand
<1>8. ReadSections' = ReadSections /\ \A u \in Threads : writing'[u] # 1
  BY <1>4, <1>5 DEF ReadSections
<1>9. \A u \in Threads : u # Nobody
  BY ClientThreads DEF Threads, Nobody
<1>10. ClaimSound'
  <2> HIDE DEF LockSound, LockTypes
  <2> QED BY <1>1, <1>4, ClaimKept
<1> QED
  BY <1>4, <1>6, <1>7, <1>8, <1>9, <1>10

LEMMA LockStep == LockInv /\ [LockNext]_lockVars => LockInv'
<1> SUFFICES ASSUME LockInv, [LockNext]_lockVars, ~spoiled' PROVE LockSound'
  BY DEF LockInv
<1>0. ~spoiled /\ LockSound
  <2>1. spoiled => spoiled'
    BY DEF LockNext, Time, Exit, LateAlarm, Alarm, Interrupt, Command, Query, acquireReadLock,
           unlockReadLock, ClaimWriteLock, acquireWriteLock, unlockWriteLock, sectionVars,
           lockVars
  <2> QED BY <2>1 DEF LockInv
<1>1. ASSUME UNCHANGED <<lock, sectionVars>> PROVE LockSound'
  <2>1. UNCHANGED <<readers, writer, claim, calls, handler, reading, writing>>
    BY <1>1 DEF lock, sectionVars
  <2> QED BY <1>0, <2>1 DEF LockSound, LockTypes, ReadSections, ClaimSound, Claiming, NoClaim
<1>2. CASE Command
  <2>1. "console" \in Threads
    BY DEF Threads
  <2>2. PICK plan \in Commands : /\ calls' = [calls EXCEPT !["console"] = plan]
                                 /\ spoiled' = (spoiled \/ plan = sendCacheResetToAllClients)
    BY <1>2 DEF Command
  <2>3. plan \in OutsideLock
    BY <2>2, PlansOutside
  <2>4. UNCHANGED <<readers, writer, claim, handler, reading, writing>>
    BY <1>2 DEF Command, lock
  <2> QED BY <1>0, <1>2, <2>1, <2>2, <2>3, <2>4, BeginSound DEF Command
<1>3. ASSUME NEW t \in Threads, Query(t) PROVE LockSound'
  <2>1. PICK plan \in sendCacheObjects : calls' = [calls EXCEPT ![t] = plan]
    BY <1>3 DEF Query
  <2>2. plan \in OutsideLock
    BY PlansOutside
  <2>3. UNCHANGED <<readers, writer, claim, handler, reading, writing>>
    BY <1>3 DEF Query, lock
  <2> QED BY <1>0, <1>3, <2>1, <2>2, <2>3, BeginSound DEF Query
<1>4. ASSUME NEW t \in Threads, Interrupt(t) PROVE LockSound'
  <2>1. PICK plan \in serviceTimerExpired : handler' = [handler EXCEPT ![t] = plan]
    BY <1>4 DEF Interrupt
  <2>2. plan \in Callbacks /\ plan \in OutsideLock
    BY PlansOutside
  <2>3. UNCHANGED <<readers, writer, claim, calls, reading, writing>>
    BY <1>4 DEF Interrupt, lock
  <2>4. handler[t] = <<>> /\ writing[t] = 0
    <3>1. handler[t] = <<>> /\ ~(writing[t] > 0)
      BY <1>4 DEF Interrupt
    <3>2. writing[t] \in Nat
      BY <1>0 DEF LockSound, LockTypes
    <3> QED BY <3>1, <3>2
  <2> QED BY <1>0, <2>1, <2>2, <2>3, <2>4, BeginSound
<1> QED
  BY <1>0, <1>1, <1>2, <1>3, <1>4, ReadLockSound, ReadUnlockSound, ClaimWriteLockSound,
     WriteLockSound, WriteUnlockSound DEF LockNext, Time, Exit, LateAlarm, Alarm, lockVars

LEMMA LockAlways == LockSpec => []LockInv
BY LockSoundInit, LockStep, PTL DEF LockSpec, LockInv

-----------------------------------------------------------------------------
(* acquireWriteLock and acquireReadLock keep apart whoever changes the     *)
(* list and whoever reads it, for any number of clients and wherever the   *)
(* signals hit, until one hits a thread that writes or reset is given.     *)
THEOREM WritersAlone == LockSpec => []WriterIsAlone
<1>1. LockInv => WriterIsAlone
  <2> SUFFICES ASSUME LockSound, NEW t \in Threads, writing[t] > 0
               PROVE  /\ writing[t] = 1 /\ reading[t] = 0
                      /\ \A u \in Threads \ {t} : writing[u] = 0 /\ reading[u] = 0
    BY DEF LockInv, WriterIsAlone, WriteLockExcludes
  <2>1. \A u \in Threads : writing[u] \in {0, 1}
    BY DEF LockSound, Standing, Left
  <2>2. writer = t /\ writer # Nobody
    BY <2>1, ClientThreads DEF LockSound, Threads, Nobody
  <2> QED BY <2>1, <2>2 DEF LockSound
<1> QED
  BY <1>1, LockAlways, PTL

(* Nobody waits for cache.lock in a circle, wherever the signals hit, but  *)
(* a callback on top of a thread that reads or claims the lock             *)
(* (timer.c:144) and whoever waits behind it; a query's second read lock   *)
(* (dropSession) included.                                                 *)
THEOREM NoCircle == LockSpec => []SomeoneLetsGo
<1>1. LockInv => SomeoneLetsGo
  <2> SUFFICES ASSUME LockSound, NEW t \in Threads, Waits(t),
                      \A u \in Threads : ~WaitsForItself(u)
               PROVE  \E u \in Threads \ {t} : Inside(u) /\ ~Waits(u)
    BY DEF LockInv, SomeoneLetsGo
  <2>1. writer # t
    BY DEF Waits, CanRead, CanWrite, Refused
  <2>2. \A u \in Threads : reading[u] \in Nat /\ writing[u] \in Nat
    BY DEF LockSound, LockTypes
  <2>3. CASE writer # Nobody
    <3>1. writer \in Threads \ {t} /\ writing[writer] = 1
      BY <2>1, <2>3 DEF LockSound, LockTypes
    <3>2. Todo(writer) # <<>> => Head(Todo(writer)) = "unlockWrite"
      BY <3>1, ThreadSteps
    <3>3. ~Waits(writer)
      BY <3>2 DEF Waits, NextIs
    <3>4. Inside(writer)
      BY <2>2, <3>1 DEF Inside
    <3> QED BY <3>1, <3>3, <3>4
  <2>4. CASE writer = Nobody /\ readers # 0
    <3>1. readers > 0 /\ NextIs(t, "write")
      <4>1. readers > 0
        BY <2>4, ReadersCounted
      <4> QED BY <2>4, <4>1 DEF Waits, CanRead
    <3>2. PICK u \in Threads : reading[u] # 0
      BY <2>4, ReadersCounted
    <3>3. ~NextIs(u, "write")
      <4>1. ~(handler[u] # <<>> /\ NextIs(u, "write") /\ reading[u] > 0)
        BY DEF WaitsForItself
      <4>2. NextIs(u, "write") => handler[u] # <<>>
        BY <3>2, ThreadSteps DEF NextIs
      <4> QED BY <2>2, <3>2, <4>1, <4>2
    <3>4. ~Waits(u)
      BY <2>4, <3>1, <3>3 DEF Waits, CanRead
    <3>5. Inside(u)
      BY <2>2, <3>2 DEF Inside
    <3> QED BY <3>1, <3>3, <3>4, <3>5
  <2>5. CASE writer = Nobody /\ readers = 0
    <3>1. claim # NoClaim /\ ~(NextIs(t, "write") /\ claim = Self(t))
      BY <2>5 DEF Waits, CanRead, CanWrite, NextIs
    <3>2. PICK p \in Threads, onTop \in BOOLEAN : claim = <<p, onTop>>
      BY <3>1 DEF LockSound, LockTypes
    <3>3. Claiming(p, onTop)
      BY <3>2 DEF LockSound, ClaimSound
    <3>4. NextIs(p, "write")
      BY <3>3 DEF Claiming, NextIs, Todo, Callbacks
    <3>5. claim = Self(p)
      <4>1. CASE onTop
        BY <3>2, <3>3, <4>1 DEF Claiming, Self
      <4>2. CASE ~onTop
        <5>1. ~(handler[p] # <<>> /\ NextIs(p, "write") /\ claim = <<p, FALSE>>)
          BY DEF WaitsForItself
        <5>2. handler[p] = <<>>
          BY <3>2, <3>4, <4>2, <5>1
        <5> QED BY <3>2, <4>2, <5>2 DEF Self
      <4> QED BY <4>1, <4>2
    <3>6. CanWrite(p) /\ ~NextIs(p, "read")
      BY <2>5, <3>4, <3>5 DEF CanWrite, NextIs
    <3>7. ~Waits(p) /\ Inside(p)
      BY <3>5, <3>6 DEF Waits, Inside
    <3> QED BY <3>7
  <2> QED BY <2>3, <2>4, <2>5
<1> QED
  BY <1>1, LockAlways, PTL

=============================================================================
