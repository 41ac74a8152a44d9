--------------------------- MODULE RtrCacheProofs ---------------------------
(* Proofs about RtrCache for every value of its constants.  First what     *)
(* holds whoever runs inside the lock gaps of the console commands: types, *)
(* one ASPA object of a customer, one router told.  Then serials and       *)
(* answers, with conditions on the gaps and the inputs.                    *)
EXTENDS RtrCache, FiniteSetTheorems, TLAPS

-----------------------------------------------------------------------------
(* Lemmas about finite sets and the operators of RtrCache                  *)

(* The image of a finite set under a function is finite and no larger.     *)
LEMMA FiniteImage ==
  ASSUME NEW S, IsFiniteSet(S), NEW f, f = [x \in S |-> f[x]]
  PROVE  /\ IsFiniteSet({f[x] : x \in S})
         /\ Cardinality({f[x] : x \in S}) <= Cardinality(S)
  <1>1. f \in Surjection(S, {f[x] : x \in S})
    BY DEF Surjection
  <1> QED BY <1>1, FS_Surjection

(* Serial arithmetic stays within the serial numbers.                      *)
LEMMA U32Type ==
  ASSUME NEW n \in Int
  PROVE  U32(n) \in Serial
  BY Bounds DEF U32, Serial, Bounds

LEMMA SerialNat == Serial \subseteq Nat
  BY Bounds DEF Serial, Bounds

(* An append command's new entry is an entry, and no ASPA object.          *)
LEMMA NewEntryType ==
  ASSUME TypeOK, NEW k \in DOMAIN cmd.batch.lines
  PROVE  /\ NewEntry(k) \in Entry
         /\ NewEntry(k).obj \in Roas \cup RouterKeys
  <1>1. /\ cmd.batch.lines \in Seq(Roas \cup RouterKeys)
        /\ k \in Nat
    BY DEF TypeOK, Cmd, Batch
  <1>2. cmd.batch.lines[k] \in Roas \cup RouterKeys
    BY <1>1
  <1>3. U32(maxSerial + k) \in Serial
    BY <1>1, U32Type, SerialNat DEF TypeOK
  <1>4. tail + k \in Nat
    BY <1>1 DEF TypeOK
  <1> QED BY <1>2, <1>3, <1>4, Bounds DEF NewEntry, Entry, Payloads, Bounds

(* What an append command adds is a finite set of entries.                 *)
LEMMA NewEntriesFinite ==
  ASSUME TypeOK
  PROVE  IsFiniteSet({NewEntry(k) : k \in DOMAIN cmd.batch.lines})
  <1> DEFINE f == [k \in DOMAIN cmd.batch.lines |-> NewEntry(k)]
  <1>1. cmd.batch.lines \in Seq(Roas \cup RouterKeys)
    BY DEF TypeOK, Cmd, Batch
  <1>2. /\ DOMAIN cmd.batch.lines = 1..Len(cmd.batch.lines)
        /\ Len(cmd.batch.lines) \in Nat
    BY <1>1
  <1>3. IsFiniteSet(DOMAIN cmd.batch.lines)
    BY <1>2, FS_Interval
  <1>4. IsFiniteSet({f[k] : k \in DOMAIN cmd.batch.lines})
    <2>1. f = [k \in DOMAIN cmd.batch.lines |-> f[k]]
      OBVIOUS
    <2> HIDE DEF f
    <2> QED BY <1>3, <2>1, FiniteImage
  <1> QED BY <1>4

(* Counting entries gives a natural number.                                *)
LEMMA CountType ==
  ASSUME TypeOK, NEW S \in SUBSET entries
  PROVE  IsFiniteSet(S) /\ Cardinality(S) \in Nat
  BY FS_Subset, FS_CardinalityType DEF TypeOK

(* Withdrawing an entry yields an entry with the same payload.             *)
LEMMA WithdrawnType ==
  ASSUME TypeOK, NEW e \in Removable
  PROVE  Withdrawn(e) \in Entry /\ Withdrawn(e).obj = e.obj
  <1> DEFINE k == Cardinality({f \in Removable : f.pos <= e.pos})
  <1>1. k \in Nat
    BY CountType DEF Removable
  <1>2. U32(maxSerial + k) \in Serial
    BY <1>1, U32Type, SerialNat DEF TypeOK
  <1>3. tail + k \in Nat
    BY <1>1 DEF TypeOK
  <1>4. e \in Entry
    BY DEF Removable, TypeOK
  <1> HIDE DEF k
  <1>5. Withdrawn(e) = [obj |-> e.obj, pos |-> tail + k, serial |-> U32(maxSerial + k),
                        prevSerial |-> e.prevSerial, announced |-> FALSE,
                        expires |-> ExpirationInterval]
    <2>1. Withdrawn(e) = [e EXCEPT !.announced = FALSE, !.serial = U32(maxSerial + k),
                                   !.pos = tail + k, !.expires = ExpirationInterval]
      BY DEF Withdrawn, k
    <2> QED BY <1>4, <2>1 DEF Entry
  <1> QED BY <1>2, <1>3, <1>4, <1>5, Bounds DEF Entry, Bounds

(* So does a period of the service timer.                                  *)
LEMMA AgedType ==
  ASSUME NEW e \in Entry
  PROVE  Aged(e) \in Entry /\ Aged(e).obj = e.obj
  BY Bounds DEF Aged, Entry, Bounds

(* A router stays a router when it is notified, closed or answered.        *)
LEMMA ToldType ==
  ASSUME TypeOK, NEW c \in Routers
  PROVE  Told(router[c]) \in Router
  BY DEF Told, TypeOK, Router

LEMMA ClosedType ==
  ASSUME NEW r \in Router
  PROVE  Closed(r) \in Router
  BY DEF Closed, Router, UNDEF

LEMMA AppliedType ==
  ASSUME TypeOK, NEW view \in [Payloads -> Int], NEW P \in SUBSET entries
  PROVE  Applied(view, P) \in [Payloads -> Int]
  <1> SUFFICES ASSUME NEW o \in Payloads
               PROVE  Applied(view, P)[o] \in Int
    BY DEF Applied
  <1>1. /\ Cardinality({e \in P : e.obj = o /\ e.announced}) \in Int
        /\ Cardinality({e \in P : e.obj = o /\ ~e.announced}) \in Int
    BY CountType
  <1> QED BY <1>1 DEF Applied

-----------------------------------------------------------------------------
(* The type invariant                                                      *)

LEMMA IdleType == Idle \in Cmd
  BY DEF Idle, Cmd, NoBatch, Batch

LEMMA FlagType ==
  ASSUME NEW n \in Int, NEW b \in BOOLEAN
  PROVE  [Idle EXCEPT !.pc = "flag", !.added = n, !.now = b] \in Cmd
  BY IdleType DEF Cmd

LEMMA TypeInit == Init => TypeOK
  <1>1. 0 \in Serial /\ UINT32_MAX \in Serial
    BY Bounds DEF Serial, Bounds
  <1>2. Fresh \in Router
    BY <1>1 DEF Fresh, Router, UNDEF
  <1>3. IsFiniteSet({})
    BY FS_EmptySet
  <1>4. ASSUME Init PROVE TypeOK
    <2>1. entries \subseteq Entry /\ IsFiniteSet(entries) /\ tail \in Nat
      BY <1>3, <1>4 DEF Init
    <2>2. router \in [Routers -> Router]
      BY <1>2, <1>4 DEF Init
    <2>3. sessionID \in Nat /\ notify \in BOOLEAN /\ timer \in {"armed", "expired", "send"}
      BY <1>4 DEF Init
    <2>4. maxSerial \in Serial /\ minPSExpired \in Serial /\ maxSExpired \in Serial
      BY <1>1, <1>4 DEF Init
    <2>5. cmd \in Cmd
      BY <1>4, IdleType DEF Init
    <2> QED BY <2>1, <2>2, <2>3, <2>4, <2>5 DEF TypeOK
  <1> QED BY <1>4

(* The console thread's steps.                                             *)
LEMMA TypeAppend ==
  ASSUME TypeOK, AppendWrite \/ AppendCount \/ \E b \in Batches, now \in BOOLEAN : AppendBegin(b, now)
  PROVE  TypeOK'
  <1>1. CASE \E b \in Batches, now \in BOOLEAN : AppendBegin(b, now)
    <2>1. PICK b \in Batches, now \in BOOLEAN : AppendBegin(b, now)
      BY <1>1
    <2>2. b \in Batch
      BY Inputs DEF Inputs
    <2>3. Cardinality(entries) \in Nat
      BY CountType
    <2>4. cmd' \in Cmd
      BY <2>1, <2>2, <2>3, IdleType DEF AppendBegin, Cmd
    <2> QED BY <2>1, <2>4 DEF AppendBegin, TypeOK, cacheVars
  <1>2. CASE AppendWrite
    <2>1. entries' \subseteq Entry /\ IsFiniteSet(entries')
      BY <1>2, NewEntryType, NewEntriesFinite, FS_Union DEF AppendWrite, TypeOK
    <2>2. tail' \in Nat
      <3>1. cmd.batch.lines \in Seq(Roas \cup RouterKeys)
        BY DEF TypeOK, Cmd, Batch
      <3>2. Len(cmd.batch.lines) \in Nat
        BY <3>1
      <3> QED BY <1>2, <3>2 DEF AppendWrite, TypeOK
    <2>3. cmd' \in Cmd
      BY <1>2 DEF AppendWrite, TypeOK, Cmd
    <2> QED BY <1>2, <2>1, <2>2, <2>3 DEF AppendWrite, TypeOK
  <1>3. CASE AppendCount
    <2> DEFINE added == IF cmd.batch.ok THEN Cardinality(entries) - cmd.before ELSE 0
    <2>1. added \in Int
      BY CountType DEF TypeOK, Cmd
    <2>2. maxSerial' \in Serial
      BY <1>3, <2>1, U32Type, SerialNat DEF AppendCount, TypeOK
    <2>3. cmd' \in Cmd
      <3>1. cmd' = [Idle EXCEPT !.pc = "flag", !.added = added, !.now = cmd.now /\ cmd.batch.ok]
        BY <1>3 DEF AppendCount
      <3>2. (cmd.now /\ cmd.batch.ok) \in BOOLEAN
        OBVIOUS
      <3> HIDE DEF added
      <3> QED BY <2>1, <3>1, <3>2, FlagType
    <2> QED BY <1>3, <2>2, <2>3 DEF AppendCount, TypeOK
  <1> QED BY <1>1, <1>2, <1>3

LEMMA TypeAppendASPA ==
  ASSUME TypeOK, NEW o \in Aspas, NEW now \in BOOLEAN, AppendASPA(o, now)
  PROVE  TypeOK'
  <1>1. PICK p \in Serial :
          entries' = (entries \ FindASPA(o)) \cup
            {[obj |-> o, pos |-> tail + 1, serial |-> U32(maxSerial + 1), prevSerial |-> p,
              announced |-> TRUE, expires |-> 0]}
    <2>1. U32(maxSerial + 1) \in Serial
      BY U32Type, SerialNat DEF TypeOK
    <2>2. \A e \in FindASPA(o) : e.serial \in Serial
      BY DEF FindASPA, TypeOK, Entry
    <2> QED BY <2>1, <2>2 DEF AppendASPA
  <1> DEFINE new == [obj |-> o, pos |-> tail + 1, serial |-> U32(maxSerial + 1),
                     prevSerial |-> p, announced |-> TRUE, expires |-> 0]
  <1>2. new \in Entry
    BY U32Type, SerialNat, Bounds DEF Entry, Payloads, TypeOK, Bounds
  <1>3. IsFiniteSet((entries \ FindASPA(o)) \cup {new})
    BY CountType, FS_AddElement
  <1>4. entries' \subseteq Entry /\ IsFiniteSet(entries')
    BY <1>1, <1>2, <1>3 DEF TypeOK
  <1>5. maxSerial' \in Serial /\ tail' \in Nat
    BY U32Type, SerialNat DEF AppendASPA, TypeOK
  <1>6. cmd' \in Cmd
    <2>1. cmd' = [Idle EXCEPT !.pc = "flag", !.added = 1, !.now = now]
      BY DEF AppendASPA
    <2>2. 1 \in Int
      OBVIOUS
    <2> QED BY <2>1, <2>2, FlagType, Zenon
  <1> QED BY <1>4, <1>5, <1>6 DEF AppendASPA, TypeOK

LEMMA TypeRemove ==
  ASSUME TypeOK,
         \/ \E lo, hi \in 1..MaxEntries, now \in BOOLEAN : RemoveBegin(lo, hi, now)
         \/ RemoveWrite
         \/ RemoveCrash
  PROVE  TypeOK'
  <1>1. CASE \E lo, hi \in 1..MaxEntries, now \in BOOLEAN : RemoveBegin(lo, hi, now)
    <2>1. PICK lo \in 1..MaxEntries, hi \in 1..MaxEntries, now \in BOOLEAN :
            RemoveBegin(lo, hi, now)
      BY <1>1
    <2>2. lo \in Nat /\ hi \in Nat
      BY Bounds DEF Bounds
    <2>3. cmd' \in Cmd
      <3>1. cmd' = [Idle EXCEPT !.pc = "remove", !.lo = lo, !.hi = hi, !.now = now]
        BY <2>1 DEF RemoveBegin
      <3> QED BY <2>2, <3>1, IdleType DEF Cmd
    <2> QED BY <2>1, <2>3 DEF RemoveBegin, TypeOK, cacheVars
  <1>2. CASE RemoveWrite
    <2> DEFINE W == {Withdrawn(e) : e \in Removable}
    <2>1. /\ Removable \subseteq entries
          /\ IsFiniteSet(Removable) /\ Cardinality(Removable) \in Nat
          /\ IsFiniteSet(entries \ Removable)
      BY CountType DEF Removable
    <2>2. W \subseteq Entry
      BY WithdrawnType
    <2>3. IsFiniteSet(W)
      <3> DEFINE f == [e \in Removable |-> Withdrawn(e)]
      <3>1. IsFiniteSet({f[e] : e \in Removable})
        <4>1. f = [e \in Removable |-> f[e]]
          OBVIOUS
        <4> HIDE DEF f
        <4> QED BY <2>1, <4>1, FiniteImage
      <3> QED BY <3>1
    <2>4. entries' = (entries \ Removable) \cup W
      BY <1>2 DEF RemoveWrite
    <2> HIDE DEF W
    <2>5. entries' \subseteq Entry /\ IsFiniteSet(entries')
      BY <2>1, <2>2, <2>3, <2>4, FS_Union DEF TypeOK
    <2>6. tail' \in Nat
      BY <1>2, <2>1 DEF RemoveWrite, TypeOK
    <2>7. maxSerial' \in Serial
      BY <1>2, <2>1, U32Type, SerialNat DEF RemoveWrite, TypeOK
    <2>8. cmd' \in Cmd
      <3>1. cmd' = [Idle EXCEPT !.pc = "flag", !.added = Cardinality(Removable), !.now = cmd.now]
        BY <1>2 DEF RemoveWrite
      <3>2. cmd.now \in BOOLEAN
        BY DEF TypeOK, Cmd
      <3>3. Cardinality(Removable) \in Int
        BY <2>1
      <3> QED BY <3>1, <3>2, <3>3, FlagType, Zenon
    <2> QED BY <1>2, <2>5, <2>6, <2>7, <2>8 DEF RemoveWrite, TypeOK
  <1>3. CASE RemoveCrash
    <2>1. cmd' \in Cmd
      BY <1>3, IdleType DEF RemoveCrash, Cmd
    <2> QED BY <1>3, <2>1 DEF RemoveCrash, TypeOK, cacheVars
  <1> QED BY <1>1, <1>2, <1>3

LEMMA TypeNotifyAll ==
  ASSUME TypeOK, NotifyAll
  PROVE  router' \in [Routers -> Router]
  BY ToldType DEF NotifyAll

LEMMA TypeConsoleRest ==
  ASSUME TypeOK,
         \/ FlagNotify \/ SendNow \/ NotifyCommand \/ ResetCommand
         \/ \E id \in 0..MaxSession : SessionCommand(id)
         \/ EmptyCommand
  PROVE  TypeOK'
  <1>1. CASE FlagNotify
    <2>1. cmd' \in Cmd
      BY <1>1, IdleType DEF FlagNotify, Cmd
    <2>2. notify' \in BOOLEAN
      BY <1>1 DEF FlagNotify
    <2> QED BY <1>1, <2>1, <2>2 DEF FlagNotify, TypeOK, cacheVars
  <1>2. CASE SendNow
    BY <1>2, IdleType, TypeNotifyAll DEF SendNow, TypeOK, cacheVars
  <1>3. CASE NotifyCommand
    BY <1>3, TypeNotifyAll DEF NotifyCommand, TypeOK, cacheVars
  <1>4. CASE ResetCommand
    <2>1. router' \in [Routers -> Router]
      BY <1>4 DEF ResetCommand, TypeOK, Router
    <2> QED BY <1>4, <2>1 DEF ResetCommand, TypeOK, cacheVars
  <1>5. CASE \E id \in 0..MaxSession : SessionCommand(id)
    <2>1. PICK id \in 0..MaxSession : SessionCommand(id)
      BY <1>5
    <2>2. id \in Nat
      BY Bounds DEF Bounds
    <2>3. cmd' \in Cmd
      BY <2>1, IdleType DEF SessionCommand, Cmd
    <2> QED BY <2>1, <2>2, <2>3 DEF SessionCommand, TypeOK, cacheVars
  <1>6. CASE EmptyCommand
    <2>1. router' \in [Routers -> Router]
      BY <1>6 DEF EmptyCommand, TypeOK, Router
    <2>2. entries' \subseteq Entry /\ IsFiniteSet(entries') /\ tail' \in Nat
      BY <1>6, FS_EmptySet DEF EmptyCommand
    <2> QED BY <1>6, <2>1, <2>2 DEF EmptyCommand, TypeOK
  <1> QED BY <1>1, <1>2, <1>3, <1>4, <1>5, <1>6

(* The service timer's.                                                    *)
LEMMA TypeTimer ==
  ASSUME TypeOK, ServiceTimerExpired
  PROVE  TypeOK'
  <1>1. CASE DeleteExpired
    <2> DEFINE S == entries \ Expired
               A == {Aged(e) : e \in S}
    <2>1. S \subseteq entries /\ IsFiniteSet(S)
      BY CountType
    <2>2. A \subseteq Entry
      BY <2>1, AgedType DEF TypeOK
    <2>3. IsFiniteSet(A)
      <3> DEFINE f == [e \in S |-> Aged(e)]
      <3>1. IsFiniteSet({f[e] : e \in S})
        <4>1. f = [e \in S |-> f[e]]
          OBVIOUS
        <4> HIDE DEF f
        <4> QED BY <2>1, <4>1, FiniteImage
      <3> QED BY <3>1
    <2>4. entries' \subseteq Entry /\ IsFiniteSet(entries')
      BY <1>1, <2>2, <2>3 DEF DeleteExpired
    <2>5. minPSExpired' \in Serial /\ maxSExpired' \in Serial
      BY <1>1 DEF DeleteExpired, Expired, TypeOK, Entry
    <2> QED BY <1>1, <2>4, <2>5 DEF DeleteExpired, TypeOK
  <1>2. CASE TimerNotify
    BY <1>2 DEF TimerNotify, TypeOK, cacheVars
  <1>3. CASE TimerSend
    BY <1>3, TypeNotifyAll DEF TimerSend, TypeOK, cacheVars
  <1> QED BY <1>1, <1>2, <1>3 DEF ServiceTimerExpired

(* The connections'.                                                       *)
LEMMA TypeClient ==
  ASSUME TypeOK, NEW c \in Routers, Client(c)
  PROVE  TypeOK'
  <1>r. router[c] \in Router
    BY DEF TypeOK
  <1>1. CASE Connect(c)
    <2>1. router' \in [Routers -> Router]
      BY <1>1, <1>r DEF Connect, TypeOK, Router, UNDEF
    <2> QED BY <1>1, <2>1 DEF Connect, TypeOK, cacheVars
  <1>2. CASE Disconnect(c)
    <2>1. router' \in [Routers -> Router]
      BY <1>2, <1>r, ClosedType DEF Disconnect, TypeOK
    <2> QED BY <1>2, <2>1 DEF Disconnect, TypeOK, cacheVars
  <1>3. CASE \E kind \in {"reset", "serial"} : Query(c, kind)
    <2>1. PICK kind \in {"reset", "serial"} : Query(c, kind)
      BY <1>3
    <2>2. router' \in [Routers -> Router] /\ notify' \in BOOLEAN
      <3>1. CASE RouterVersion[c] > CacheVersion
        BY <2>1, <1>r, <3>1, ClosedType DEF Query, TypeOK
      <3>2. CASE ~(RouterVersion[c] > CacheVersion)
        <4>1. RouterVersion[c] \in Nat
          BY Inputs DEF Inputs
        <4>2. router' = [router EXCEPT ![c].version = RouterVersion[c],
                                       ![c].query = kind, ![c].todo = "none"]
              /\ notify' = FALSE
          BY <2>1, <3>2 DEF Query
        <4> QED BY <1>r, <4>1, <4>2 DEF TypeOK, Router
      <3> QED BY <3>1, <3>2
    <2> QED BY <2>1, <2>2 DEF Query, TypeOK, cacheVars
  <1>4. CASE RespondWrongSession(c)
    <2>1. router' \in [Routers -> Router]
      BY <1>4, <1>r DEF RespondWrongSession, TypeOK, Router
    <2> QED BY <1>4, <2>1 DEF RespondWrongSession, TypeOK, cacheVars
  <1>5. CASE RespondCacheReset(c)
    <2>1. router' \in [Routers -> Router]
      BY <1>5, <1>r DEF RespondCacheReset, TypeOK, Router
    <2> QED BY <1>5, <2>1 DEF RespondCacheReset, TypeOK, cacheVars
  <1>6. CASE RespondData(c)
    <2> DEFINE r == router[c]
               isReset == r.query = "reset"
               base == IF isReset THEN Fresh.view ELSE r.view
               sent == Sent(isReset, IF isReset THEN 0 ELSE r.serial, r.version)
               view == Applied(base, sent)
    <2>1. view \in [Payloads -> Int]
      <3>1. base \in [Payloads -> Int]
        BY <1>r DEF Fresh, Router
      <3>2. sent \subseteq entries
        BY DEF Sent
      <3> HIDE DEF base, sent
      <3> QED BY <3>1, <3>2, AppliedType
    <2>2. router' = [router EXCEPT ![c] =
            IF r.version = 0 THEN [r EXCEPT !.query = "ignored"]
            ELSE [r EXCEPT !.query = "none", !.hasData = TRUE, !.session = sessionID,
                           !.serial = maxSerial, !.view = view,
                           !.stale = @ /\ ~isReset]]
      BY <1>6 DEF RespondData
    <2> HIDE DEF view, isReset
    <2>3. router' \in [Routers -> Router]
      BY <1>r, <2>1, <2>2 DEF TypeOK, Router
    <2> QED BY <1>6, <2>3 DEF RespondData, TypeOK, cacheVars
  <1> QED BY <1>1, <1>2, <1>3, <1>4, <1>5, <1>6 DEF Client

(* Every state reached has its type, whatever the constants and whoever    *)
(* acts in the lock gaps: serial numbers and cache window stay 32 bit      *)
(* numbers, withdrawn entries and only they expire.                        *)
THEOREM TypeCorrect == Spec => []TypeOK
  <1>1. TypeOK /\ [Next]_vars => TypeOK'
    <2> SUFFICES ASSUME TypeOK, [Next]_vars PROVE TypeOK'
      OBVIOUS
    <2>1. CASE Console
      BY <2>1, TypeAppend, TypeAppendASPA, TypeRemove, TypeConsoleRest DEF Console
    <2>2. CASE ServiceTimerExpired
      BY <2>2, TypeTimer
    <2>3. CASE \E c \in Routers : Client(c)
      BY <2>3, TypeClient
    <2>4. CASE UNCHANGED vars
      BY <2>4 DEF vars, TypeOK
    <2> QED BY <2>1, <2>2, <2>3, <2>4 DEF Next
  <1> QED BY <1>1, TypeInit, PTL DEF Spec

-----------------------------------------------------------------------------
(* One ASPA object per customer                                            *)

(* findASPA finds whatever entry the customer has, if there is one.        *)
LEMMA FindASPAFindsAll ==
  ASSUME TypeOK, OneAspaPerCustomer, NEW o \in Aspas
  PROVE  \A e \in entries : SameCustomer(e.obj, o) => e \in FindASPA(o)
  <1> SUFFICES ASSUME NEW e \in entries, SameCustomer(e.obj, o)
               PROVE  e \in FindASPA(o)
    OBVIOUS
  <1> SUFFICES ASSUME NEW f \in entries, SameCustomer(f.obj, o)
               PROVE  e.pos <= f.pos
    BY DEF FindASPA
  <1>1. SameCustomer(e.obj, f.obj)
    BY DEF SameCustomer
  <1>2. e = f
    BY <1>1 DEF OneAspaPerCustomer
  <1>3. e.pos \in Nat
    BY DEF TypeOK, Entry
  <1> QED BY <1>2, <1>3

(* Steps that leave the list alone or empty.                               *)
LEMMA OneAspaSameEntries ==
  ASSUME OneAspaPerCustomer, entries' \subseteq entries
  PROVE  OneAspaPerCustomer'
  BY DEF OneAspaPerCustomer, SameCustomer, Aspas

LEMMA OneAspaConsole ==
  ASSUME TypeOK, OneAspaPerCustomer, Console
  PROVE  OneAspaPerCustomer'
  <1>1. CASE \E b \in Batches, now \in BOOLEAN : AppendBegin(b, now)
    BY <1>1, OneAspaSameEntries DEF AppendBegin, cacheVars
  <1>2. CASE AppendWrite
    <2>1. \A e \in entries' : e \in entries \/ e.obj \notin Aspas
      BY <1>2, NewEntryType, Payloads0 DEF AppendWrite, Payloads0
    <2> QED BY <2>1 DEF OneAspaPerCustomer, SameCustomer, Aspas
  <1>3. CASE AppendCount
    BY <1>3, OneAspaSameEntries DEF AppendCount
  <1>4. CASE \E o \in Aspas, now \in BOOLEAN : AppendASPA(o, now)
    <2>1. PICK o \in Aspas, now \in BOOLEAN : AppendASPA(o, now)
      BY <1>4
    <2>p. PICK p :
            entries' = (entries \ FindASPA(o)) \cup
              {[obj |-> o, pos |-> tail + 1, serial |-> U32(maxSerial + 1), prevSerial |-> p,
                announced |-> TRUE, expires |-> 0]}
      BY <2>1, Zenon DEF AppendASPA
    <2> DEFINE new == [obj |-> o, pos |-> tail + 1, serial |-> U32(maxSerial + 1),
                       prevSerial |-> p, announced |-> TRUE, expires |-> 0]
    <2>2. entries' = (entries \ FindASPA(o)) \cup {new} /\ new.obj = o
      BY <2>p
    <2> HIDE DEF new
    <2>3. \A e \in entries \ FindASPA(o) : ~SameCustomer(e.obj, o) /\ ~SameCustomer(o, e.obj)
      BY FindASPAFindsAll DEF SameCustomer
    <2>4. \A e, f \in entries' : SameCustomer(e.obj, f.obj) => e = f
      BY <2>2, <2>3 DEF OneAspaPerCustomer
    <2> QED BY <2>4 DEF OneAspaPerCustomer, SameCustomer, Aspas
  <1>5. CASE \E lo, hi \in 1..MaxEntries, now \in BOOLEAN : RemoveBegin(lo, hi, now)
    BY <1>5, OneAspaSameEntries DEF RemoveBegin, cacheVars
  <1>6. CASE RemoveWrite
    <2>1. \A e \in entries' : \E d \in entries :
            /\ e.obj = d.obj
            /\ e = IF d \in Removable THEN Withdrawn(d) ELSE d
      BY <1>6, WithdrawnType DEF RemoveWrite, Removable
    <2>2. \A e, f \in entries' : SameCustomer(e.obj, f.obj) => e = f
      BY <2>1 DEF OneAspaPerCustomer
    <2> QED BY <2>2 DEF OneAspaPerCustomer, SameCustomer, Aspas
  <1>7. CASE RemoveCrash \/ FlagNotify \/ SendNow \/ NotifyCommand \/ ResetCommand
    BY <1>7, OneAspaSameEntries
       DEF RemoveCrash, FlagNotify, SendNow, NotifyCommand, ResetCommand, cacheVars
  <1>8. CASE \E id \in 0..MaxSession : SessionCommand(id)
    BY <1>8, OneAspaSameEntries DEF SessionCommand, cacheVars
  <1>9. CASE EmptyCommand
    BY <1>9, OneAspaSameEntries DEF EmptyCommand
  <1> QED BY <1>1, <1>2, <1>3, <1>4, <1>5, <1>6, <1>7, <1>8, <1>9 DEF Console

LEMMA OneAspaTimer ==
  ASSUME TypeOK, OneAspaPerCustomer, ServiceTimerExpired
  PROVE  OneAspaPerCustomer'
  <1>1. CASE DeleteExpired
    <2>1. \A e \in entries' : \E d \in entries : e.obj = d.obj /\ e = Aged(d)
      BY <1>1, AgedType DEF DeleteExpired, TypeOK
    <2>2. \A e, f \in entries' : SameCustomer(e.obj, f.obj) => e = f
      BY <2>1 DEF OneAspaPerCustomer
    <2> QED BY <2>2 DEF OneAspaPerCustomer, SameCustomer, Aspas
  <1>2. CASE TimerNotify \/ TimerSend
    BY <1>2, OneAspaSameEntries DEF TimerNotify, TimerSend, cacheVars
  <1> QED BY <1>1, <1>2 DEF ServiceTimerExpired

LEMMA OneAspaClient ==
  ASSUME OneAspaPerCustomer, NEW c \in Routers, Client(c)
  PROVE  OneAspaPerCustomer'
  BY OneAspaSameEntries
     DEF Client, Connect, Disconnect, Query, RespondWrongSession, RespondCacheReset,
         RespondData, cacheVars

(* readASPAData keeps the list free of a second entry for a customer,      *)
(* whatever the inputs and whoever gets the lock in the gaps of the other  *)
(* commands.                                                               *)
THEOREM AspaUnique == Spec => []OneAspaPerCustomer
  <1>1. Init => OneAspaPerCustomer
    BY DEF Init, OneAspaPerCustomer
  <1>2. TypeOK /\ OneAspaPerCustomer /\ [Next]_vars => OneAspaPerCustomer'
    <2> SUFFICES ASSUME TypeOK, OneAspaPerCustomer, [Next]_vars
                 PROVE  OneAspaPerCustomer'
      OBVIOUS
    <2>1. CASE UNCHANGED vars
      BY <2>1, OneAspaSameEntries DEF vars
    <2> QED BY <2>1, OneAspaConsole, OneAspaTimer, OneAspaClient DEF Next
  <1> QED BY <1>1, <1>2, TypeCorrect, PTL DEF Spec

-----------------------------------------------------------------------------
(***************************************************************************)
(* A single router that is behind hears of it, for every value of the      *)
(* constants: service.notify, one flag for all, is enough for one router,  *)
(* whoever acts in the lock gaps and however often a query clears it.      *)
(***************************************************************************)

(* Session ids only grow, so a router of another session never comes back  *)
(* to be in this one; a router of version 0 never has data to be behind    *)
(* with, and the version of a router that has asked is known.              *)
SessionsOfThePast ==
  \A c \in Routers : router[c].session <= sessionID
DataInItsVersion ==
  \A c \in Routers : /\ router[c].version \in {UNDEF, RouterVersion[c]}
                     /\ router[c].hasData => RouterVersion[c] # 0
                     /\ router[c].query \in {"reset", "serial"} => router[c].version # UNDEF
                     /\ ~router[c].connected => router[c].query \notin {"reset", "serial"}

(* A command that is about to set the flag, if it added anything, or that  *)
(* sends the notification next.                                            *)
AboutToNotify == (cmd.pc = "flag" /\ cmd.added # 0) \/ cmd.pc = "send"

Noticed(c) ==
  \/ notify \/ timer = "send" \/ AboutToNotify
  \/ router[c].todo # "none"
  \/ router[c].query \in {"reset", "serial"}

NotifyInv ==
  /\ SessionsOfThePast
  /\ DataInItsVersion
  /\ \A c \in Routers : Behind(c) => Noticed(c)

-----------------------------------------------------------------------------
(* Who is told, and who is answered                                        *)

(* After a Serial Notify whoever is behind knows what to do.               *)
LEMMA ToldKnows ==
  ASSUME TypeOK, NotifyInv, NotifyAll, sessionID' = sessionID, maxSerial' = maxSerial
  PROVE  NotifyInv'
  <1> SUFFICES ASSUME NEW c \in Routers
               PROVE  /\ router'[c].session <= sessionID'
                      /\ router'[c].version \in {UNDEF, RouterVersion[c]}
                      /\ router'[c].hasData => RouterVersion[c] # 0
                      /\ router'[c].query = router[c].query
                      /\ router'[c].version = router[c].version
                      /\ router'[c].connected = router[c].connected
                      /\ Behind(c)' => router'[c].todo # "none"
    BY DEF NotifyInv, SessionsOfThePast, DataInItsVersion, Noticed
  <1>1. router[c] \in Router /\ router'[c] = Told(router[c])
    BY DEF TypeOK, NotifyAll
  <1>2. /\ router'[c].session = router[c].session /\ router'[c].version = router[c].version
        /\ router'[c].hasData = router[c].hasData /\ router'[c].query = router[c].query
        /\ router'[c].connected = router[c].connected
    BY <1>1 DEF Told, Router
  <1>3. Behind(c)' => router'[c].todo # "none"
    BY <1>1 DEF Behind, Told, Router
  <1> QED BY <1>2, <1>3 DEF NotifyInv, SessionsOfThePast, DataInItsVersion

(* Routers and serial stay, and whatever noticed a change still does.      *)
LEMMA NoticedKept ==
  ASSUME NotifyInv, router' = router, sessionID' = sessionID, maxSerial' = maxSerial,
         notify \/ timer = "send" \/ AboutToNotify
           => notify' \/ timer' = "send" \/ AboutToNotify'
  PROVE  NotifyInv'
  <1>1. SessionsOfThePast' /\ DataInItsVersion'
    BY DEF NotifyInv, SessionsOfThePast, DataInItsVersion
  <1>2. \A c \in Routers : Behind(c)' => Noticed(c)'
    BY DEF NotifyInv, Behind, Noticed
  <1> QED BY <1>1, <1>2 DEF NotifyInv

(* A change of the serial is noticed by the command that made it.          *)
LEMMA NoticedByCommand ==
  ASSUME NotifyInv, router' = router, sessionID' = sessionID,
         notify' = notify, timer' = timer, ~AboutToNotify,
         maxSerial' # maxSerial => AboutToNotify'
  PROVE  NotifyInv'
  <1>1. SessionsOfThePast' /\ DataInItsVersion'
    BY DEF NotifyInv, SessionsOfThePast, DataInItsVersion
  <1>2. \A c \in Routers : Behind(c)' => Noticed(c)'
    BY DEF NotifyInv, Behind, Noticed
  <1> QED BY <1>1, <1>2 DEF NotifyInv

(* One router changes; the flag may be cleared if it is the only one.      *)
LEMMA NoticedByRouter ==
  ASSUME TypeOK, NotifyInv, NEW c \in Routers, \A d \in Routers : d = c, NEW r \in Router,
         router' = [router EXCEPT ![c] = r],
         sessionID' = sessionID, maxSerial' = maxSerial, timer' = timer, cmd' = cmd,
         r.session <= sessionID,
         r.version \in {UNDEF, RouterVersion[c]},
         r.hasData => RouterVersion[c] # 0,
         r.query \in {"reset", "serial"} => r.version # UNDEF /\ r.connected,
         (/\ r.connected /\ r.version # UNDEF /\ r.hasData /\ r.session = sessionID
          /\ r.serial # maxSerial)
           => r.todo # "none" \/ r.query \in {"reset", "serial"}
  PROVE  NotifyInv'
  <1>1. router'[c] = r
    BY DEF TypeOK
  <1> QED BY <1>1 DEF NotifyInv, SessionsOfThePast, DataInItsVersion, Behind, Noticed

-----------------------------------------------------------------------------
(* The steps                                                               *)

LEMMA U32Same ==
  ASSUME NEW n \in Serial
  PROVE  U32(n) = n
  BY Bounds DEF Serial, U32, Bounds

LEMMA NotifyAppend ==
  ASSUME TypeOK, NotifyInv,
         \/ \E b \in Batches, now \in BOOLEAN : AppendBegin(b, now)
         \/ AppendWrite \/ AppendCount
         \/ \E o \in Aspas, now \in BOOLEAN : AppendASPA(o, now)
  PROVE  NotifyInv'
  <1>0. cmd \in Cmd /\ maxSerial \in Serial /\ maxSerial \in Nat
    BY SerialNat DEF TypeOK
  <1>1. CASE \E b \in Batches, now \in BOOLEAN : AppendBegin(b, now)
    <2>1. PICK b \in Batches, now \in BOOLEAN : AppendBegin(b, now)
      BY <1>1
    <2>2. /\ router' = router /\ sessionID' = sessionID /\ maxSerial' = maxSerial
          /\ notify' = notify /\ timer' = timer /\ cmd.pc = "idle"
      BY <2>1 DEF AppendBegin, cacheVars
    <2> QED BY <2>2, NoticedKept DEF AboutToNotify
  <1>2. CASE AppendWrite
    BY <1>2, NoticedKept DEF AppendWrite, AboutToNotify
  <1>3. CASE AppendCount
    <2>1. PICK added \in Int :
            /\ maxSerial' = U32(maxSerial + added)
            /\ cmd' = [Idle EXCEPT !.pc = "flag", !.added = added,
                                   !.now = cmd.now /\ cmd.batch.ok]
      <3>1. (IF cmd.batch.ok THEN Cardinality(entries) - cmd.before ELSE 0) \in Int
        BY <1>0, CountType DEF Cmd
      <3> QED BY <1>3, <3>1 DEF AppendCount
    <2>2. cmd'.pc = "flag" /\ cmd'.added = added
      BY <2>1 DEF Idle
    <2>3. maxSerial' # maxSerial => added # 0
      BY <1>0, <2>1, U32Same
    <2> QED BY <1>3, <2>2, <2>3, NoticedByCommand DEF AppendCount, AboutToNotify
  <1>4. CASE \E o \in Aspas, now \in BOOLEAN : AppendASPA(o, now)
    <2>1. PICK o \in Aspas, now \in BOOLEAN : AppendASPA(o, now)
      BY <1>4
    <2>2. cmd' = [Idle EXCEPT !.pc = "flag", !.added = 1, !.now = now] /\ cmd.pc = "idle"
      BY <2>1 DEF AppendASPA
    <2>3. cmd'.pc = "flag" /\ cmd'.added = 1
      BY <2>2 DEF Idle
    <2>4. router' = router /\ sessionID' = sessionID /\ notify' = notify /\ timer' = timer
      BY <2>1 DEF AppendASPA
    <2> QED BY <2>2, <2>3, <2>4, NoticedByCommand DEF AboutToNotify
  <1> QED BY <1>1, <1>2, <1>3, <1>4

LEMMA NotifyRemove ==
  ASSUME TypeOK, NotifyInv,
         \/ \E lo, hi \in 1..MaxEntries, now \in BOOLEAN : RemoveBegin(lo, hi, now)
         \/ RemoveWrite \/ RemoveCrash
  PROVE  NotifyInv'
  <1>1. CASE \E lo, hi \in 1..MaxEntries, now \in BOOLEAN : RemoveBegin(lo, hi, now)
    <2>1. PICK lo \in 1..MaxEntries, hi \in 1..MaxEntries, now \in BOOLEAN :
            RemoveBegin(lo, hi, now)
      BY <1>1
    <2>2. /\ router' = router /\ sessionID' = sessionID /\ maxSerial' = maxSerial
          /\ notify' = notify /\ timer' = timer /\ cmd.pc = "idle"
      BY <2>1 DEF RemoveBegin, cacheVars
    <2> QED BY <2>2, NoticedKept DEF AboutToNotify
  <1>2. CASE RemoveWrite
    <2> DEFINE n == Cardinality(Removable)
    <2>1. n \in Nat
      BY CountType DEF Removable
    <2>2. /\ cmd.pc = "remove" /\ maxSerial' = U32(maxSerial + n)
          /\ cmd' = [Idle EXCEPT !.pc = "flag", !.added = n, !.now = cmd.now]
          /\ router' = router /\ sessionID' = sessionID /\ notify' = notify /\ timer' = timer
      BY <1>2 DEF RemoveWrite
    <2> HIDE DEF n
    <2>3. cmd'.pc = "flag" /\ cmd'.added = n
      BY <2>2 DEF Idle
    <2>4. maxSerial' # maxSerial => n # 0
      BY <2>1, <2>2, U32Same, SerialNat DEF TypeOK
    <2> QED BY <2>2, <2>3, <2>4, NoticedByCommand DEF AboutToNotify
  <1>3. CASE RemoveCrash
    BY <1>3, NoticedKept DEF RemoveCrash, AboutToNotify, cacheVars
  <1> QED BY <1>1, <1>2, <1>3

LEMMA NotifyConsoleRest ==
  ASSUME TypeOK, NotifyInv,
         \/ FlagNotify \/ SendNow \/ NotifyCommand \/ ResetCommand
         \/ \E id \in 0..MaxSession : SessionCommand(id)
         \/ EmptyCommand
  PROVE  NotifyInv'
  <1>1. CASE FlagNotify
    BY <1>1, NoticedKept DEF FlagNotify, AboutToNotify, cacheVars, Idle
  <1>2. CASE SendNow \/ NotifyCommand
    BY <1>2, ToldKnows DEF SendNow, NotifyCommand, cacheVars
  <1>3. CASE ResetCommand
    <2>1. \A c \in Routers : /\ router'[c].session = router[c].session
                             /\ router'[c].version = router[c].version
                             /\ router'[c].hasData = router[c].hasData
                             /\ router'[c].query = router[c].query
                             /\ router'[c].connected = router[c].connected
                             /\ router'[c].version # UNDEF => router'[c].todo = "reset"
      BY <1>3 DEF ResetCommand, TypeOK, Router
    <2>2. sessionID' = sessionID
      BY <1>3 DEF ResetCommand
    <2>3. SessionsOfThePast' /\ DataInItsVersion'
      BY <2>1, <2>2 DEF NotifyInv, SessionsOfThePast, DataInItsVersion
    <2>4. \A c \in Routers : Behind(c)' => Noticed(c)'
      BY <2>1 DEF Behind, Noticed
    <2> QED BY <2>3, <2>4 DEF NotifyInv
  <1>4. CASE \E id \in 0..MaxSession : SessionCommand(id)
    <2>1. PICK id \in 0..MaxSession : SessionCommand(id)
      BY <1>4
    <2>2. router' = router /\ sessionID' = id /\ id >= sessionID /\ cmd'.pc = "send"
      BY <2>1 DEF SessionCommand, Idle
    <2>3. SessionsOfThePast'
      <3>1. \A c \in Routers : router[c].session \in Nat
        BY DEF TypeOK, Router
      <3> QED BY <2>2, <3>1, Bounds DEF NotifyInv, SessionsOfThePast, TypeOK, Bounds
    <2> QED BY <2>2, <2>3 DEF NotifyInv, DataInItsVersion, Noticed, AboutToNotify
  <1>5. CASE EmptyCommand
    <2>1. \A c \in Routers : /\ router[c] \in Router
                             /\ router'[c] = [router[c] EXCEPT !.stale = router[c].hasData]
      BY <1>5 DEF EmptyCommand, TypeOK
    <2>2. \A c \in Routers : /\ router'[c].session = router[c].session
                             /\ router'[c].version = router[c].version
                             /\ router'[c].hasData = router[c].hasData
                             /\ router'[c].connected = router[c].connected
                             /\ router'[c].serial = router[c].serial
                             /\ router'[c].todo = router[c].todo
                             /\ router'[c].query = router[c].query
      BY <2>1 DEF Router
    <2> QED BY <1>5, <2>2 DEF EmptyCommand, NotifyInv, SessionsOfThePast, DataInItsVersion,
                              Behind, Noticed, AboutToNotify
  <1> QED BY <1>1, <1>2, <1>3, <1>4, <1>5

LEMMA NotifyTimer ==
  ASSUME TypeOK, NotifyInv, ServiceTimerExpired
  PROVE  NotifyInv'
  <1>1. CASE DeleteExpired
    BY <1>1, NoticedKept DEF DeleteExpired, AboutToNotify
  <1>2. CASE TimerNotify
    BY <1>2, NoticedKept DEF TimerNotify, AboutToNotify, cacheVars
  <1>3. CASE TimerSend
    BY <1>3, ToldKnows DEF TimerSend, cacheVars
  <1> QED BY <1>1, <1>2, <1>3 DEF ServiceTimerExpired

(* The only router there is: its query clears the flag, and its answer     *)
(* brings it up to date.                                                   *)
LEMMA NotifyClient ==
  ASSUME TypeOK, NotifyInv, NEW c \in Routers, \A d \in Routers : d = c, Client(c)
  PROVE  NotifyInv'
  <1> DEFINE r0 == router[c]
  <1>0. /\ r0 \in Router /\ r0.session <= sessionID
        /\ r0.version \in {UNDEF, RouterVersion[c]}
        /\ r0.hasData => RouterVersion[c] # 0
        /\ r0.query \in {"reset", "serial"} => r0.version # UNDEF /\ r0.connected
    BY DEF TypeOK, NotifyInv, SessionsOfThePast, DataInItsVersion
  <1>t. RouterVersion[c] \in Nat /\ sessionID \in Nat
    BY Inputs DEF Inputs, TypeOK
  <1> HIDE DEF r0
  <1>1. CASE Connect(c)
    <2> DEFINE r == [r0 EXCEPT !.connected = TRUE, !.version = UNDEF]
    <2>1. router' = [router EXCEPT ![c] = r] /\ ~r0.connected
      BY <1>1 DEF Connect, r0, TypeOK
    <2>2. r \in Router /\ r.session = r0.session /\ r.version = UNDEF /\ r.hasData = r0.hasData
          /\ r.query = r0.query
      BY <1>0 DEF Router, UNDEF
    <2> HIDE DEF r
    <2> QED BY <1>0, <1>1, <2>1, <2>2, NoticedByRouter DEF Connect, cacheVars
  <1>2. CASE Disconnect(c)
    <2> DEFINE r == Closed(r0)
    <2>1. router' = [router EXCEPT ![c] = r]
      BY <1>2 DEF Disconnect, r0
    <2>2. r \in Router /\ r.session = r0.session /\ r.version = UNDEF /\ r.hasData = r0.hasData
          /\ r.query = "none"
      BY <1>0, ClosedType DEF Closed, Router
    <2> HIDE DEF r
    <2> QED BY <1>0, <1>2, <2>1, <2>2, NoticedByRouter DEF Disconnect, cacheVars
  <1>3. CASE \E kind \in {"reset", "serial"} : Query(c, kind)
    <2>1. PICK kind \in {"reset", "serial"} : Query(c, kind)
      BY <1>3
    <2>2. CASE RouterVersion[c] > CacheVersion
      <3> DEFINE r == Closed(r0)
      <3>1. router' = [router EXCEPT ![c] = r]
        BY <2>1, <2>2 DEF Query, r0
      <3>2. r \in Router /\ r.session = r0.session /\ r.version = UNDEF
            /\ r.hasData = r0.hasData /\ r.query = "none"
        BY <1>0, ClosedType DEF Closed, Router
      <3> HIDE DEF r
      <3> QED BY <1>0, <2>1, <3>1, <3>2, NoticedByRouter DEF Query, cacheVars
    <2>3. CASE ~(RouterVersion[c] > CacheVersion)
      <3> DEFINE r == [r0 EXCEPT !.version = RouterVersion[c], !.query = kind, !.todo = "none"]
      <3>1. router' = [router EXCEPT ![c] = r]
        <4>1. router' = [router EXCEPT ![c].version = RouterVersion[c],
                                       ![c].query = kind, ![c].todo = "none"]
          BY <2>1, <2>3 DEF Query
        <4> QED BY <4>1 DEF r0, TypeOK
      <3>2. r \in Router /\ r.session = r0.session /\ r.version = RouterVersion[c]
            /\ r.hasData = r0.hasData /\ r.query = kind /\ r.connected
            /\ RouterVersion[c] # UNDEF
        <4>1. r0.connected
          BY <2>1 DEF Query, r0
        <4>2. RouterVersion[c] \in Nat \ {UNDEF}
          BY <1>t DEF UNDEF
        <4>3. r0 \in Router /\ kind \in {"none", "reset", "serial", "ignored"}
          BY <1>0
        <4> QED BY <4>1, <4>2, <4>3 DEF Router
      <3> HIDE DEF r
      <3> QED BY <1>0, <2>1, <3>1, <3>2, NoticedByRouter DEF Query, cacheVars
    <2> QED BY <2>2, <2>3
  <1>4. CASE RespondWrongSession(c)
    <2> DEFINE r == [r0 EXCEPT !.query = "ignored"]
    <2>1. router' = [router EXCEPT ![c] = r] /\ r0.session # sessionID
      BY <1>4 DEF RespondWrongSession, WrongSession, r0
    <2>2. r \in Router /\ r.session = r0.session /\ r.version = r0.version
          /\ r.hasData = r0.hasData /\ r.query = "ignored"
      BY <1>0 DEF Router
    <2> HIDE DEF r
    <2> QED BY <1>0, <1>4, <2>1, <2>2, NoticedByRouter DEF RespondWrongSession, cacheVars
  <1>5. CASE RespondCacheReset(c)
    <2> DEFINE r == [r0 EXCEPT !.query = "none", !.todo = "reset"]
    <2>1. router' = [router EXCEPT ![c] = r]
      BY <1>5 DEF RespondCacheReset, r0, TypeOK
    <2>2. r \in Router /\ r.session = r0.session /\ r.version = r0.version
          /\ r.hasData = r0.hasData /\ r.todo = "reset" /\ r.query = "none"
      BY <1>0 DEF Router
    <2> HIDE DEF r
    <2> QED BY <1>0, <1>5, <2>1, <2>2, NoticedByRouter DEF RespondCacheReset, cacheVars
  <1>6. CASE RespondData(c)
    <2> DEFINE isReset == r0.query = "reset"
               base == IF isReset THEN Fresh.view ELSE r0.view
               sent == Sent(isReset, IF isReset THEN 0 ELSE r0.serial, r0.version)
               view == Applied(base, sent)
               r == IF r0.version = 0 THEN [r0 EXCEPT !.query = "ignored"]
                    ELSE [r0 EXCEPT !.query = "none", !.hasData = TRUE, !.session = sessionID,
                                    !.serial = maxSerial, !.view = view,
                                    !.stale = @ /\ ~isReset]
    <2>1. router' = [router EXCEPT ![c] = r] /\ r0.query \in {"reset", "serial"}
      BY <1>6 DEF RespondData, r0
    <2>u. sessionID' = sessionID /\ maxSerial' = maxSerial /\ timer' = timer /\ cmd' = cmd
      BY <1>6 DEF RespondData, cacheVars
    <2> HIDE DEF view, isReset
    <2>2. r \in Router
      <3>1. router'[c] = r
        BY <2>1 DEF TypeOK
      <3>2. TypeOK'
        BY TypeClient
      <3> QED BY <3>1, <3>2 DEF TypeOK
    <2>3. r.version = r0.version
      BY <1>0 DEF Router
    <2>4. CASE r0.version = 0
      <3>1. r.session = r0.session /\ r.hasData = r0.hasData /\ RouterVersion[c] = 0
            /\ r.query = "ignored"
        BY <1>0, <2>4 DEF Router, UNDEF
      <3> HIDE DEF r
      <3> QED BY <1>0, <2>1, <2>u, <2>2, <2>3, <3>1, NoticedByRouter
    <2>5. CASE r0.version # 0
      <3>1. r.session = sessionID /\ r.serial = maxSerial /\ r.query = "none"
        BY <1>0, <2>5 DEF Router
      <3>2. RouterVersion[c] # 0
        BY <1>0, <2>1, <2>5
      <3> HIDE DEF r
      <3>3. r.session <= sessionID
        BY <1>t, <3>1
      <3> QED BY <1>0, <2>1, <2>u, <2>2, <2>3, <3>1, <3>2, <3>3, NoticedByRouter
    <2> QED BY <2>4, <2>5
  <1> QED BY <1>1, <1>2, <1>3, <1>4, <1>5, <1>6 DEF Client

(* With one router a change of the cache is never forgotten: for any       *)
(* inputs, commands and lock-gap interference the router that is behind is *)
(* about to be told or is already asking.  (A second router breaks this:   *)
(* its query clears the flag for both.)                                    *)
THEOREM SingleRouterHears ==
  ASSUME \A c, d \in Routers : c = d
  PROVE  Spec => []BehindIsNotified
  <1>1. Init => NotifyInv
    BY Inputs DEF Init, Fresh, NotifyInv, SessionsOfThePast, DataInItsVersion, Behind, Inputs
  <1>2. TypeOK /\ NotifyInv /\ [Next]_vars => NotifyInv'
    <2> SUFFICES ASSUME TypeOK, NotifyInv, [Next]_vars PROVE NotifyInv'
      OBVIOUS
    <2>1. CASE Console
      BY <2>1, NotifyAppend, NotifyRemove, NotifyConsoleRest DEF Console
    <2>2. CASE ServiceTimerExpired
      BY <2>2, NotifyTimer
    <2>3. CASE \E c \in Routers : Client(c)
      BY <2>3, NotifyClient
    <2>4. CASE UNCHANGED vars
      BY <2>4, NoticedKept DEF vars, cacheVars, AboutToNotify
    <2> QED BY <2>1, <2>2, <2>3, <2>4 DEF Next
  <1>3. NotifyInv => BehindIsNotified
    BY DEF NotifyInv, Noticed, AboutToNotify, BehindIsNotified
  <1> QED BY <1>1, <1>2, <1>3, TypeCorrect, PTL DEF Spec

-----------------------------------------------------------------------------
(***************************************************************************)
(* The serials of RtrCache follow its list, and its answers tell routers   *)
(* what the cache holds, for every value of the constants, as long as the  *)
(* service timer stays out of the lock gaps and no input breaks off behind *)
(* lines that were read.  Both conditions are needed: what appending adds  *)
(* is counted by the change of the list's size, and not at all after a     *)
(* malformed line.                                                         *)
(***************************************************************************)

(* The list as places in a row.                                            *)
PlacesTaken ==
  /\ \A e \in entries : e.pos <= tail
  /\ \A e, f \in entries : e.pos = f.pos => e = f

SerialsGrow == \A e, f \in entries : e.pos < f.pos => e.serial < f.serial

(* The largest serial on the list: between writing the lines of an append  *)
(* and counting them it is ahead of cache.maxSerial by their number.       *)
Lines == Len(cmd.batch.lines)
Uncounted == IF cmd.pc = "count" THEN Lines ELSE 0
SerialsBounded == \A e \in entries : e.serial <= maxSerial + Uncounted

(* What a command will add when it is through.                             *)
ToCome ==
  CASE cmd.pc \in {"write", "count"} -> Lines
    [] cmd.pc = "remove" -> cmd.hi - cmd.lo + 1
    [] OTHER -> 0
RoomForSerials == maxSerial + ToCome <= MaxSerial

WellCounted == cmd.batch.ok \/ cmd.batch.lines = <<>>

(* The size of the list that appending started with.                       *)
SizeKnown ==
  /\ cmd.pc \in {"write", "count"} => WellCounted
  /\ cmd.pc = "write" => Cardinality(entries) = cmd.before
  /\ cmd.pc = "count" => Cardinality(entries) = cmd.before + Lines
  /\ cmd.pc = "remove" => cmd.lo <= cmd.hi

SerialInv ==
  PlacesTaken /\ SerialsGrow /\ SerialsBounded /\ RoomForSerials /\ SizeKnown

-----------------------------------------------------------------------------
(* Counting places                                                         *)

(* The number of elements up to an element's place grows along the list.   *)
LEMMA RankGrows ==
  ASSUME NEW R, IsFiniteSet(R), \A e \in R : e.pos \in Nat,
         NEW e \in R, NEW f \in R, e.pos < f.pos
  PROVE  Cardinality({g \in R : g.pos <= e.pos}) < Cardinality({g \in R : g.pos <= f.pos})
  <1> DEFINE E == {g \in R : g.pos <= e.pos}
             F == {g \in R : g.pos <= f.pos}
  <1>1. E \in SUBSET F /\ f \in F /\ f \notin E
    OBVIOUS
  <1>2. F \in SUBSET R
    OBVIOUS
  <1>3. IsFiniteSet(F) /\ Cardinality(F) \in Nat
    BY <1>2, FS_Subset, FS_CardinalityType
  <1> HIDE DEF E, F
  <1>4. IsFiniteSet(E) /\ Cardinality(E) \in Nat /\ Cardinality(E) <= Cardinality(F)
        /\ Cardinality(E) # Cardinality(F)
    BY <1>1, <1>3, FS_Subset, FS_CardinalityType
  <1>5. Cardinality(E) < Cardinality(F)
    BY <1>3, <1>4
  <1> QED BY <1>5 DEF E, F

(* It is a number from 1 to the number of all elements.                    *)
LEMMA RankBounds ==
  ASSUME NEW R, IsFiniteSet(R), NEW e \in R, e.pos \in Nat
  PROVE  Cardinality({g \in R : g.pos <= e.pos}) \in 1..Cardinality(R)
  <1> DEFINE E == {g \in R : g.pos <= e.pos}
  <1>1. E \in SUBSET R /\ e \in E
    OBVIOUS
  <1>2. IsFiniteSet(E) /\ Cardinality(E) \in Nat /\ Cardinality(E) <= Cardinality(R)
    BY <1>1, FS_Subset, FS_CardinalityType
  <1>3. Cardinality(E) # 0
    BY <1>1, <1>2, FS_EmptySet
  <1>4. Cardinality(R) \in Nat
    BY FS_CardinalityType
  <1>5. Cardinality(E) \in 1..Cardinality(R)
    BY <1>2, <1>3, <1>4
  <1> QED BY <1>5

LEMMA RangeSize ==
  ASSUME NEW lo \in Nat, NEW hi \in Nat, lo <= hi
  PROVE  IsFiniteSet(lo..hi) /\ Cardinality(lo..hi) = hi - lo + 1
  <1>1. lo \in Int /\ hi \in Int /\ ~(lo > hi)
    OBVIOUS
  <1> QED BY <1>1, FS_Interval

(* No more entries are withdrawn than there are indexes in the range, as   *)
(* no two entries have the same index.                                     *)
LEMMA RemovableBounded ==
  ASSUME TypeOK, PlacesTaken, cmd.lo <= cmd.hi
  PROVE  Cardinality(Removable) <= cmd.hi - cmd.lo + 1
  <1>1. cmd.lo \in Nat /\ cmd.hi \in Nat
    BY DEF TypeOK, Cmd
  <1> DEFINE f == [e \in Removable |-> Index(e)]
  <1>2. f \in Injection(Removable, cmd.lo..cmd.hi)
    <2>1. f \in [Removable -> cmd.lo..cmd.hi]
      BY DEF Removable
    <2>2. ASSUME NEW d \in Removable, NEW e \in Removable, f[d] = f[e] PROVE d = e
      <3>1. d \in entries /\ e \in entries /\ Index(d) = Index(e)
        BY <2>2 DEF Removable
      <3>2. \A g \in entries : g.pos \in Nat
        BY DEF TypeOK, Entry
      <3>3. IsFiniteSet(entries) /\ Index(d) \in Nat /\ Index(e) \in Nat
        BY CountType DEF TypeOK, Index
      <3>4. ~(d.pos < e.pos) /\ ~(e.pos < d.pos)
        BY <3>1, <3>2, <3>3, RankGrows DEF Index
      <3>5. d.pos = e.pos
        BY <3>1, <3>2, <3>4
      <3> QED BY <3>1, <3>5 DEF PlacesTaken
    <2>3. DOMAIN f = Removable
      OBVIOUS
    <2> HIDE DEF f
    <2> QED BY <2>1, <2>2, <2>3 DEF Injection, IsInjective
  <1>3. IsFiniteSet(cmd.lo..cmd.hi) /\ Cardinality(cmd.lo..cmd.hi) = cmd.hi - cmd.lo + 1
    BY <1>1, RangeSize
  <1> HIDE DEF f
  <1> QED BY <1>2, <1>3, FS_Injection

(* A serial that fits its 32 bits is not cut.                              *)
LEMMA U32Fits ==
  ASSUME NEW n \in Nat, n <= MaxSerial
  PROVE  U32(n) = n
  BY Bounds DEF U32, Bounds

-----------------------------------------------------------------------------
(* The list grows at its end                                               *)

LEMMA EntryFields ==
  ASSUME TypeOK
  PROVE  /\ \A e \in entries : e.pos \in Nat /\ e.serial \in Nat
         /\ tail \in Nat /\ maxSerial \in Nat
         /\ Cardinality(entries) \in Nat
         /\ Lines \in Nat /\ DOMAIN cmd.batch.lines = 1..Lines
  <1>1. \A e \in entries : e.pos \in Nat /\ e.serial \in Nat
    BY SerialNat DEF TypeOK, Entry
  <1>2. tail \in Nat /\ maxSerial \in Nat
    BY SerialNat DEF TypeOK
  <1>3. Cardinality(entries) \in Nat
    BY CountType
  <1>4. cmd.batch.lines \in Seq(Roas \cup RouterKeys)
    BY DEF TypeOK, Cmd, Batch
  <1> QED BY <1>1, <1>2, <1>3, <1>4 DEF Lines

(* Entries that are added behind the list, their serials behind            *)
(* cache.maxSerial in the same order, keep places and serials in order,    *)
(* whatever is taken out of the list.                                      *)
LEMMA Extended ==
  ASSUME TypeOK, PlacesTaken, SerialsGrow, \A e \in entries : e.serial <= maxSerial,
         NEW n \in Nat, NEW new,
         \A e \in new : \E k \in 1..n : e.pos = tail + k /\ e.serial = maxSerial + k,
         \A e, f \in new : e.pos = f.pos => e = f,
         entries' \subseteq entries \cup new, tail' = tail + n
  PROVE  /\ PlacesTaken' /\ SerialsGrow'
         /\ \A e \in entries' : e.serial <= maxSerial + n
  <1>1. /\ \A e \in entries : e.pos \in Nat /\ e.serial \in Nat
        /\ tail \in Nat /\ maxSerial \in Nat
    BY EntryFields
  <1>2. \A e \in new : /\ e.pos \in Nat /\ tail < e.pos /\ e.pos <= tail + n
                       /\ e.serial = maxSerial + (e.pos - tail)
    BY <1>1
  <1>3. \A e \in entries : e.pos <= tail /\ e.serial <= maxSerial
    BY DEF PlacesTaken
  <1>4. \A e \in entries' : e.pos <= tail + n
    BY <1>1, <1>2, <1>3
  <1>5. \A e, f \in entries' : e.pos = f.pos => e = f
    <2> SUFFICES ASSUME NEW e \in entries', NEW f \in entries', e.pos = f.pos
                 PROVE  e = f
      OBVIOUS
    <2>1. CASE e \in entries /\ f \in entries
      BY <2>1 DEF PlacesTaken
    <2>2. CASE e \in new /\ f \in new
      BY <2>2
    <2>3. CASE (e \in entries /\ f \in new) \/ (e \in new /\ f \in entries)
      BY <2>3, <1>1, <1>2, <1>3
    <2> QED BY <2>1, <2>2, <2>3
  <1>6. \A e, f \in entries' : e.pos < f.pos => e.serial < f.serial
    <2> SUFFICES ASSUME NEW e \in entries', NEW f \in entries', e.pos < f.pos
                 PROVE  e.serial < f.serial
      OBVIOUS
    <2>1. CASE e \in entries /\ f \in entries
      BY <2>1 DEF SerialsGrow
    <2>2. CASE e \in new /\ f \in new
      BY <2>2, <1>1, <1>2
    <2>3. CASE e \in entries /\ f \in new
      BY <2>3, <1>1, <1>2, <1>3
    <2>4. CASE e \in new /\ f \in entries
      BY <2>4, <1>1, <1>2, <1>3
    <2> QED BY <2>1, <2>2, <2>3, <2>4
  <1>7. \A e \in entries' : e.serial <= maxSerial + n
    BY <1>1, <1>2, <1>3
  <1> QED BY <1>4, <1>5, <1>6, <1>7 DEF PlacesTaken, SerialsGrow

(* The entries of an append command are as many as its lines, and new.     *)
LEMMA NewEntriesCounted ==
  ASSUME TypeOK, PlacesTaken, NEW new, new = {NewEntry(k) : k \in DOMAIN cmd.batch.lines}
  PROVE  /\ IsFiniteSet(new) /\ Cardinality(new) = Lines
         /\ new \cap entries = {}
  <1>1. /\ tail \in Nat /\ Lines \in Nat /\ DOMAIN cmd.batch.lines = 1..Lines
        /\ \A e \in entries : e.pos \in Nat
    BY EntryFields
  <1>2. \A k : NewEntry(k).pos = tail + k
    BY DEF NewEntry
  <1> DEFINE f == [k \in 1..Lines |-> NewEntry(k)]
  <1>3. f \in Bijection(1..Lines, new)
    <2>1. f \in [1..Lines -> new] /\ DOMAIN f = 1..Lines
      BY <1>1
    <2>2. \A j, k \in 1..Lines : f[j] = f[k] => j = k
      BY <1>1, <1>2
    <2>3. \A e \in new : \E k \in 1..Lines : f[k] = e
      BY <1>1
    <2> HIDE DEF f
    <2> QED BY <2>1, <2>2, <2>3 DEF Bijection, Injection, IsInjective, Surjection
  <1>4. IsFiniteSet(1..Lines) /\ Cardinality(1..Lines) = Lines
    BY <1>1, FS_Interval
  <1> HIDE DEF f
  <1>5. IsFiniteSet(new) /\ Cardinality(new) = Lines
    BY <1>3, <1>4, FS_Bijection DEF ExistsBijection
  <1>6. ASSUME NEW e \in new, e \in entries PROVE FALSE
    <2>1. PICK k \in 1..Lines : e = NewEntry(k)
      BY <1>1
    <2>2. e.pos = tail + k /\ e.pos <= tail
      BY <1>2, <1>6, <2>1 DEF PlacesTaken
    <2> QED BY <1>1, <2>2
  <1> QED BY <1>5, <1>6

-----------------------------------------------------------------------------
(* The steps                                                               *)

(* Steps that leave the list and its serial alone and begin nothing.       *)
LEMMA SerialKept ==
  ASSUME TypeOK, SerialInv, cmd.pc # "count",
         entries' = entries, tail' = tail, maxSerial' = maxSerial,
         cmd'.pc \notin {"write", "count", "remove"}
  PROVE  SerialInv'
  <1>1. maxSerial \in Nat /\ Lines \in Nat
    BY EntryFields
  <1>2. PlacesTaken' /\ SerialsGrow' /\ SerialsBounded' /\ SizeKnown'
    BY DEF SerialInv, PlacesTaken, SerialsGrow, SerialsBounded, Uncounted, SizeKnown
  <1>3. ToCome \in Int /\ ToCome >= 0
    BY <1>1 DEF ToCome, SerialInv, SizeKnown, TypeOK, Cmd
  <1>4. maxSerial <= MaxSerial
    BY <1>1, <1>3, Bounds DEF SerialInv, RoomForSerials, Bounds
  <1>5. RoomForSerials'
    BY <1>1, <1>4 DEF RoomForSerials, ToCome
  <1> QED BY <1>2, <1>5 DEF SerialInv

LEMMA SerialSame ==
  ASSUME SerialInv, entries' = entries, tail' = tail, maxSerial' = maxSerial, cmd' = cmd
  PROVE  SerialInv'
  BY DEF SerialInv, PlacesTaken, SerialsGrow, SerialsBounded, Uncounted, RoomForSerials, ToCome,
         SizeKnown, WellCounted, Lines

(* A step that begins a command: what will come is bounded by its guard.   *)
LEMMA SerialAppendBegin ==
  ASSUME TypeOK, SerialInv, NEW b \in Batches, b.ok \/ b.lines = <<>>,
         NEW now \in BOOLEAN, AppendBegin(b, now)
  PROVE  SerialInv'
  <1>1. /\ entries' = entries /\ tail' = tail /\ maxSerial' = maxSerial
        /\ cmd.pc = "idle" /\ maxSerial + Len(b.lines) <= MaxSerial
        /\ cmd'.pc = "write" /\ cmd'.batch = b /\ cmd'.before = Cardinality(entries)
    BY DEF AppendBegin, cacheVars, Idle
  <1>2. PlacesTaken' /\ SerialsGrow' /\ SerialsBounded'
    BY <1>1 DEF SerialInv, PlacesTaken, SerialsGrow, SerialsBounded, Uncounted
  <1>3. RoomForSerials'
    BY <1>1 DEF RoomForSerials, ToCome, Lines
  <1>4. SizeKnown'
    BY <1>1 DEF SizeKnown, WellCounted
  <1> QED BY <1>2, <1>3, <1>4 DEF SerialInv

LEMMA SerialAppendWrite ==
  ASSUME TypeOK, SerialInv, AppendWrite
  PROVE  SerialInv'
  <1> DEFINE new == {NewEntry(k) : k \in DOMAIN cmd.batch.lines}
  <1>1. /\ maxSerial \in Nat /\ tail \in Nat /\ Lines \in Nat
        /\ DOMAIN cmd.batch.lines = 1..Lines
        /\ IsFiniteSet(entries) /\ Cardinality(entries) \in Nat
    BY EntryFields DEF TypeOK
  <1>2. /\ entries' = entries \cup new /\ tail' = tail + Lines /\ maxSerial' = maxSerial
        /\ cmd.pc = "write" /\ cmd' = [cmd EXCEPT !.pc = "count"]
    BY DEF AppendWrite, Lines
  <1>3. cmd'.pc = "count" /\ cmd'.batch = cmd.batch /\ cmd'.before = cmd.before
    BY <1>2 DEF TypeOK, Cmd
  <1>4. maxSerial + Lines <= MaxSerial
    BY <1>2 DEF SerialInv, RoomForSerials, ToCome
  <1>5. \A k \in 1..Lines : NewEntry(k).pos = tail + k /\ NewEntry(k).serial = maxSerial + k
    <2> SUFFICES ASSUME NEW k \in 1..Lines PROVE U32(maxSerial + k) = maxSerial + k
      BY DEF NewEntry
    <2>1. maxSerial + k \in Nat /\ maxSerial + k <= MaxSerial
      BY <1>1, <1>4, Bounds DEF Bounds
    <2> QED BY <2>1, U32Fits
  <1>6. \A e \in new : \E k \in 1..Lines : e.pos = tail + k /\ e.serial = maxSerial + k
    BY <1>1, <1>5
  <1>7. \A e, f \in new : e.pos = f.pos => e = f
    <2> SUFFICES ASSUME NEW j \in 1..Lines, NEW k \in 1..Lines,
                        NewEntry(j).pos = NewEntry(k).pos
                 PROVE  NewEntry(j) = NewEntry(k)
      BY <1>1
    <2>1. j = k
      BY <1>1, <1>5
    <2> QED BY <2>1
  <1>8. IsFiniteSet(new) /\ Cardinality(new) = Lines /\ new \cap entries = {}
    BY NewEntriesCounted DEF SerialInv
  <1> HIDE DEF new
  <1>9. PlacesTaken' /\ SerialsGrow' /\ \A e \in entries' : e.serial <= maxSerial + Lines
    <2>1. \A e \in entries : e.serial <= maxSerial
      BY <1>1, <1>2, EntryFields DEF SerialInv, SerialsBounded, Uncounted
    <2> QED BY <1>1, <1>2, <1>6, <1>7, <2>1, Extended DEF SerialInv
  <1>10. Lines' = Lines
    BY <1>3 DEF Lines
  <1>11. SerialsBounded' /\ RoomForSerials'
    BY <1>2, <1>3, <1>4, <1>9, <1>10 DEF SerialsBounded, Uncounted, RoomForSerials, ToCome
  <1>12. Cardinality(entries') = Cardinality(entries) + Lines
    <2>1. Cardinality(entries \cap new) = 0
      BY <1>8, FS_EmptySet
    <2>2. Cardinality(entries \cup new)
          = Cardinality(entries) + Cardinality(new) - Cardinality(entries \cap new)
      BY <1>1, <1>8, FS_Union
    <2> QED BY <1>1, <1>2, <1>8, <2>1, <2>2
  <1>13. SizeKnown'
    BY <1>2, <1>3, <1>10, <1>12 DEF SerialInv, SizeKnown, WellCounted
  <1> QED BY <1>9, <1>11, <1>13 DEF SerialInv

(* What is counted is the number of lines, also where nothing is counted.  *)
LEMMA SerialAppendCount ==
  ASSUME TypeOK, SerialInv, AppendCount
  PROVE  SerialInv'
  <1> DEFINE added == IF cmd.batch.ok THEN Cardinality(entries) - cmd.before ELSE 0
  <1>1. maxSerial \in Nat /\ Lines \in Nat /\ \A e \in entries : e.serial \in Nat
    BY EntryFields
  <1>2. cmd.pc = "count" /\ entries' = entries /\ tail' = tail
        /\ maxSerial' = U32(maxSerial + added) /\ cmd'.pc = "flag"
    BY DEF AppendCount, Idle
  <1>3. added = Lines
    <2>1. Cardinality(entries) = cmd.before + Lines /\ WellCounted
      BY <1>2 DEF SerialInv, SizeKnown
    <2>2. cmd.before \in Nat
      BY DEF TypeOK, Cmd
    <2>3. cmd.batch.lines = <<>> => Lines = 0
      BY DEF Lines
    <2> QED BY <1>1, <2>1, <2>2, <2>3 DEF WellCounted
  <1> HIDE DEF added
  <1>4. maxSerial + Lines <= MaxSerial
    BY <1>2 DEF SerialInv, RoomForSerials, ToCome
  <1>5. maxSerial' = maxSerial + Lines
    BY <1>1, <1>2, <1>3, <1>4, U32Fits
  <1>6. PlacesTaken' /\ SerialsGrow' /\ SizeKnown'
    BY <1>2 DEF SerialInv, PlacesTaken, SerialsGrow, SizeKnown
  <1>7. \A e \in entries : e.serial <= maxSerial + Lines
    BY <1>2 DEF SerialInv, SerialsBounded, Uncounted
  <1>8. SerialsBounded' /\ RoomForSerials'
    BY <1>1, <1>2, <1>4, <1>5, <1>7 DEF SerialsBounded, Uncounted, RoomForSerials, ToCome
  <1> QED BY <1>6, <1>8 DEF SerialInv

LEMMA SerialAppendASPA ==
  ASSUME TypeOK, SerialInv, NEW o \in Aspas, NEW now \in BOOLEAN, AppendASPA(o, now)
  PROVE  SerialInv'
  <1>1. maxSerial \in Nat /\ tail \in Nat /\ \A e \in entries : e.serial \in Nat
    BY EntryFields
  <1>2. /\ cmd.pc = "idle" /\ maxSerial < MaxSerial
        /\ tail' = tail + 1 /\ maxSerial' = U32(maxSerial + 1) /\ cmd'.pc = "flag"
    <2>1. cmd' = [Idle EXCEPT !.pc = "flag", !.added = 1, !.now = now]
      BY DEF AppendASPA
    <2>2. cmd'.pc = "flag"
      BY <2>1 DEF Idle
    <2> QED BY <2>2 DEF AppendASPA
  <1>3. U32(maxSerial + 1) = maxSerial + 1
    BY <1>1, <1>2, U32Fits, Bounds DEF Bounds
  <1>4. PICK p : entries' = (entries \ FindASPA(o)) \cup
                   {[obj |-> o, pos |-> tail + 1, serial |-> U32(maxSerial + 1),
                     prevSerial |-> p, announced |-> TRUE, expires |-> 0]}
    BY Zenon DEF AppendASPA
  <1> DEFINE new == {[obj |-> o, pos |-> tail + 1, serial |-> U32(maxSerial + 1),
                      prevSerial |-> p, announced |-> TRUE, expires |-> 0]}
  <1>5. \A e \in new : \E k \in 1..1 : e.pos = tail + k /\ e.serial = maxSerial + k
    BY <1>1, <1>3
  <1>6. entries' \subseteq entries \cup new /\ \A e, f \in new : e = f
    BY <1>4
  <1> HIDE DEF new
  <1>7. \A e \in entries : e.serial <= maxSerial
    BY <1>1, <1>2 DEF SerialInv, SerialsBounded, Uncounted
  <1>8. PlacesTaken' /\ SerialsGrow' /\ \A e \in entries' : e.serial <= maxSerial + 1
    BY <1>2, <1>5, <1>6, <1>7, Extended DEF SerialInv
  <1>9. SerialsBounded' /\ RoomForSerials' /\ SizeKnown'
    BY <1>1, <1>2, <1>3, <1>8, Bounds
       DEF SerialsBounded, Uncounted, RoomForSerials, ToCome, SizeKnown, Bounds
  <1> QED BY <1>8, <1>9 DEF SerialInv

LEMMA SerialRemoveBegin ==
  ASSUME TypeOK, SerialInv, NEW lo \in 1..MaxEntries, NEW hi \in 1..MaxEntries,
         NEW now \in BOOLEAN, RemoveBegin(lo, hi, now)
  PROVE  SerialInv'
  <1>1. /\ entries' = entries /\ tail' = tail /\ maxSerial' = maxSerial
        /\ cmd.pc = "idle" /\ maxSerial + (hi - lo) + 1 <= MaxSerial
        /\ cmd'.pc = "remove" /\ cmd'.lo = lo /\ cmd'.hi = hi
    BY DEF RemoveBegin, cacheVars, Idle
  <1>2. hi \in lo..Cardinality(entries) /\ Cardinality(entries) \in Nat
    BY EntryFields DEF RemoveBegin
  <1>3. lo \in Nat /\ hi \in Nat /\ lo <= hi /\ maxSerial \in Nat
    BY <1>2, EntryFields
  <1>4. PlacesTaken' /\ SerialsGrow' /\ SerialsBounded'
    BY <1>1 DEF SerialInv, PlacesTaken, SerialsGrow, SerialsBounded, Uncounted
  <1>5. RoomForSerials'
    BY <1>1, <1>3, Bounds DEF RoomForSerials, ToCome, Bounds
  <1>6. SizeKnown'
    BY <1>1, <1>3 DEF SizeKnown
  <1> QED BY <1>4, <1>5, <1>6 DEF SerialInv

(* The withdrawn entries go behind the list in the order in which they     *)
(* stood there.                                                            *)
LEMMA SerialRemoveWrite ==
  ASSUME TypeOK, SerialInv, RemoveWrite
  PROVE  SerialInv'
  <1> DEFINE n == Cardinality(Removable)
             rank(e) == Cardinality({f \in Removable : f.pos <= e.pos})
             new == {Withdrawn(e) : e \in Removable}
  <1>1. /\ maxSerial \in Nat /\ tail \in Nat
        /\ \A e \in entries : e.pos \in Nat /\ e.serial \in Nat
    BY EntryFields
  <1>2. /\ cmd.pc = "remove" /\ entries' = (entries \ Removable) \cup new
        /\ tail' = tail + n /\ maxSerial' = U32(maxSerial + n) /\ cmd'.pc = "flag"
    BY DEF RemoveWrite, Idle
  <1>3. /\ Removable \subseteq entries /\ IsFiniteSet(Removable) /\ n \in Nat
        /\ \A e \in Removable : e.pos \in Nat
    BY <1>1, CountType DEF Removable
  <1>4. cmd.lo <= cmd.hi /\ cmd.lo \in Nat /\ cmd.hi \in Nat
    BY <1>2 DEF SerialInv, SizeKnown, TypeOK, Cmd
  <1>5. n <= cmd.hi - cmd.lo + 1
    BY <1>4, RemovableBounded DEF SerialInv
  <1>6. maxSerial + n <= MaxSerial
    <2>1. maxSerial + (cmd.hi - cmd.lo + 1) <= MaxSerial
      BY <1>2 DEF SerialInv, RoomForSerials, ToCome
    <2> QED BY <1>1, <1>3, <1>4, <1>5, <2>1, Bounds DEF Bounds
  <1>7. maxSerial' = maxSerial + n
    BY <1>1, <1>2, <1>3, <1>6, U32Fits
  <1>8. \A e \in Removable : rank(e) \in 1..n
    BY <1>3, RankBounds
  <1>9. \A e \in Removable :
          Withdrawn(e).pos = tail + rank(e) /\ Withdrawn(e).serial = maxSerial + rank(e)
    <2> SUFFICES ASSUME NEW e \in Removable
                 PROVE  /\ Withdrawn(e).pos = tail + rank(e)
                        /\ Withdrawn(e).serial = maxSerial + rank(e)
      OBVIOUS
    <2>1. U32(maxSerial + rank(e)) = maxSerial + rank(e)
      <3>1. rank(e) \in 1..n
        BY <1>8
      <3> HIDE DEF n, rank
      <3>2. maxSerial + rank(e) \in Nat /\ maxSerial + rank(e) <= MaxSerial
        BY <1>1, <1>3, <1>6, <3>1, Bounds DEF Bounds
      <3> QED BY <3>2, U32Fits
    <2>2. Withdrawn(e) = [e EXCEPT !.announced = FALSE, !.serial = U32(maxSerial + rank(e)),
                                   !.pos = tail + rank(e), !.expires = ExpirationInterval]
      BY DEF Withdrawn
    <2>3. e \in Entry
      BY <1>3 DEF TypeOK
    <2> HIDE DEF rank
    <2> QED BY <2>1, <2>2, <2>3 DEF Entry
  <1>10. \A e \in new : \E k \in 1..n : e.pos = tail + k /\ e.serial = maxSerial + k
    <2> HIDE DEF n, rank
    <2> QED BY <1>8, <1>9
  <1>11. \A e, f \in new : e.pos = f.pos => e = f
    <2> SUFFICES ASSUME NEW d \in Removable, NEW e \in Removable,
                        Withdrawn(d).pos = Withdrawn(e).pos
                 PROVE  d = e
      OBVIOUS
    <2>1. rank(d) = rank(e)
      <3>1. rank(d) \in Nat /\ rank(e) \in Nat
        BY <1>3, <1>8
      <3> HIDE DEF rank
      <3> QED BY <1>1, <1>9, <3>1
    <2>2. rank(d) \in Nat
      BY <1>3, <1>8
    <2>3. ~(d.pos < e.pos) /\ ~(e.pos < d.pos)
      <3>1. ASSUME d.pos < e.pos PROVE rank(d) < rank(e)
        BY <1>3, <3>1, RankGrows
      <3>2. ASSUME e.pos < d.pos PROVE rank(e) < rank(d)
        BY <1>3, <3>2, RankGrows
      <3> HIDE DEF rank
      <3> QED BY <2>1, <2>2, <3>1, <3>2
    <2>4. d.pos = e.pos
      BY <1>3, <2>3
    <2> QED BY <1>3, <2>4 DEF SerialInv, PlacesTaken
  <1>12. \A e \in entries : e.serial <= maxSerial
    BY <1>1, <1>2 DEF SerialInv, SerialsBounded, Uncounted
  <1> HIDE DEF n, new
  <1>13. PlacesTaken' /\ SerialsGrow' /\ \A e \in entries' : e.serial <= maxSerial + n
    <2>1. entries' \subseteq entries \cup new
      BY <1>2
    <2> QED BY <1>2, <1>3, <1>10, <1>11, <1>12, <2>1, Extended DEF SerialInv
  <1>14. SerialsBounded' /\ RoomForSerials' /\ SizeKnown'
    BY <1>1, <1>2, <1>3, <1>6, <1>7, <1>13
       DEF SerialsBounded, Uncounted, RoomForSerials, ToCome, SizeKnown
  <1> QED BY <1>13, <1>14 DEF SerialInv

LEMMA SerialConsole ==
  ASSUME \A b \in Batches : b.ok \/ b.lines = <<>>, TypeOK, SerialInv, Console
  PROVE  SerialInv'
  <1>1. CASE \E b \in Batches, now \in BOOLEAN : AppendBegin(b, now)
    BY <1>1, SerialAppendBegin
  <1>2. CASE AppendWrite \/ AppendCount
    BY <1>2, SerialAppendWrite, SerialAppendCount
  <1>3. CASE \E o \in Aspas, now \in BOOLEAN : AppendASPA(o, now)
    BY <1>3, SerialAppendASPA
  <1>4. CASE \E lo, hi \in 1..MaxEntries, now \in BOOLEAN : RemoveBegin(lo, hi, now)
    BY <1>4, SerialRemoveBegin
  <1>5. CASE RemoveWrite
    BY <1>5, SerialRemoveWrite
  <1>6. CASE RemoveCrash \/ FlagNotify \/ SendNow
    BY <1>6, SerialKept DEF RemoveCrash, FlagNotify, SendNow, cacheVars, Idle
  <1>7. CASE NotifyCommand \/ ResetCommand
    BY <1>7, SerialSame DEF NotifyCommand, ResetCommand, cacheVars
  <1>8. CASE \E id \in 0..MaxSession : SessionCommand(id)
    BY <1>8, SerialKept DEF SessionCommand, cacheVars, Idle
  <1>9. CASE EmptyCommand
    <2>1. /\ entries' = {} /\ tail' = 0 /\ maxSerial' = maxSerial /\ cmd' = cmd
          /\ cmd.pc = "idle"
      BY <1>9 DEF EmptyCommand
    <2> QED BY <2>1 DEF SerialInv, PlacesTaken, SerialsGrow, SerialsBounded, RoomForSerials,
                        ToCome, SizeKnown
  <1> QED BY <1>1, <1>2, <1>3, <1>4, <1>5, <1>6, <1>7, <1>8, <1>9 DEF Console

(* What the timer leaves on the list keeps place and serial; it gets the   *)
(* lock when no size or range is remembered.                               *)
LEMMA SerialDeleteExpired ==
  ASSUME "timer" \notin GapActors, TypeOK, SerialInv, DeleteExpired
  PROVE  SerialInv'
  <1>1. /\ cmd' = cmd /\ tail' = tail /\ maxSerial' = maxSerial
        /\ cmd.pc \notin {"write", "count", "remove"}
    BY DEF DeleteExpired, CanLock, InGap
  <1>2. \A e \in entries' : \E d \in entries :
          e = Aged(d) /\ e.pos = d.pos /\ e.serial = d.serial
    BY DEF DeleteExpired, Aged, TypeOK, Entry
  <1>3. PlacesTaken' /\ SerialsGrow' /\ SerialsBounded'
    BY <1>1, <1>2 DEF SerialInv, PlacesTaken, SerialsGrow, SerialsBounded, Uncounted
  <1>4. RoomForSerials' /\ SizeKnown'
    BY <1>1 DEF SerialInv, RoomForSerials, ToCome, SizeKnown
  <1> QED BY <1>3, <1>4 DEF SerialInv

LEMMA SerialsKept ==
  ASSUME "timer" \notin GapActors, \A b \in Batches : b.ok \/ b.lines = <<>>
  PROVE  Spec => []SerialInv
  <1>1. Init => SerialInv
    BY Bounds DEF Init, Idle, SerialInv, PlacesTaken, SerialsGrow, SerialsBounded,
                  RoomForSerials, ToCome, SizeKnown, Bounds
  <1>2. TypeOK /\ SerialInv /\ [Next]_vars => SerialInv'
    <2> SUFFICES ASSUME TypeOK, SerialInv, [Next]_vars PROVE SerialInv'
      OBVIOUS
    <2>1. CASE Console
      BY <2>1, SerialConsole
    <2>2. CASE DeleteExpired
      BY <2>2, SerialDeleteExpired
    <2>3. CASE TimerNotify \/ TimerSend
      BY <2>3, SerialSame DEF TimerNotify, TimerSend, cacheVars
    <2>4. CASE \E c \in Routers : Client(c)
      BY <2>4, SerialSame DEF Client, Connect, Disconnect, Query, RespondWrongSession,
                              RespondCacheReset, RespondData, cacheVars
    <2>5. CASE UNCHANGED vars
      BY <2>5, SerialSame DEF vars, cacheVars
    <2> QED BY <2>1, <2>2, <2>3, <2>4, <2>5 DEF Next, ServiceTimerExpired
  <1> QED BY <1>1, <1>2, TypeCorrect, PTL DEF Spec

(* If the timer does not run inside a command and every input that brings  *)
(* entries ends well, serials grow along the list and cache.maxSerial is   *)
(* not behind them: the query loop of sendCacheObjects can stop at the     *)
(* first newer serial, for any inputs and any number of clients in the     *)
(* lock gaps.                                                              *)
THEOREM SerialsFollow ==
  ASSUME "timer" \notin GapActors, \A b \in Batches : b.ok \/ b.lines = <<>>
  PROVE  Spec => []SerialsFollowList
  <1>1. TypeOK /\ SerialInv => SerialsFollowList
    <2> SUFFICES ASSUME TypeOK, SerialInv PROVE SerialsFollowList
      OBVIOUS
    <2>1. maxSerial \in Nat
      BY EntryFields
    <2> QED BY <2>1 DEF SerialInv, SerialsGrow, SerialsBounded, Uncounted, SerialsFollowList
  <1> QED BY <1>1, TypeCorrect, SerialsKept, PTL

-----------------------------------------------------------------------------
(* What routers hold                                                       *)

(* ROAs and keys come and go one by one; of ASPA objects a router has one  *)
(* per customer.                                                           *)
Plain == Roas \cup RouterKeys

(* The entries for o in E that a router of version v with serial s was     *)
(* told of and not told to withdraw.                                       *)
Known(E, o, s, v) ==
  {e \in E : /\ e.obj = o /\ Visible(o, v)
             /\ e.prevSerial <= s /\ (e.announced \/ s < e.serial)}

(* An entry's life: it keeps the serial it came with as the previous one,  *)
(* and a withdrawal is counted at once.                                    *)
EntriesLived ==
  /\ \A e \in entries : e.prevSerial <= e.serial
  /\ \A e \in entries : ~e.announced => e.prevSerial < e.serial /\ e.serial <= maxSerial
  /\ \A e \in entries : e.obj \in Plain /\ e.announced => e.serial = e.prevSerial
  /\ maxSExpired <= maxSerial

InSession(c) == router[c].hasData /\ router[c].session = sessionID
InWindow(s) == minPSExpired <= s /\ s < maxSExpired
Counted(c, o) == Cardinality(Known(entries, o, router[c].serial, RouterVersion[c]))

RouterSound(c) ==
  /\ router[c].serial <= maxSerial
  /\ router[c].session <= sessionID
  /\ router[c].query \in {"reset", "serial"} =>
       router[c].connected /\ router[c].version = RouterVersion[c]
  /\ router[c].query = "serial" => router[c].hasData

(* A router has at least the copies that later answers may withdraw.       *)
HoldsKnown(c) ==
  /\ \A o \in Payloads : router[c].view[o] >= 0
  /\ InSession(c) => \A o \in Plain : router[c].view[o] >= Counted(c, o)

(* It has exactly those unless a withdrawal expired that it does not know  *)
(* of, or "empty" took entries away without one.                           *)
HoldsExactly(c) ==
  InSession(c) /\ ~router[c].stale /\ ~InWindow(router[c].serial) =>
    \A o \in Plain : router[c].view[o] = Counted(c, o)

ViewInv == EntriesLived /\ \A c \in Routers : RouterSound(c) /\ HoldsKnown(c)
ExactInv == \A c \in Routers : HoldsExactly(c)

LEMMA EntryNumbers ==
  ASSUME TypeOK
  PROVE  /\ \A e \in entries : /\ e.pos \in Nat /\ e.serial \in Nat /\ e.prevSerial \in Nat
                               /\ e.announced \in BOOLEAN /\ e.obj \in Payloads
         /\ maxSerial \in Nat /\ minPSExpired \in Nat /\ maxSExpired \in Nat
         /\ \A c \in Routers : /\ router[c] \in Router /\ router[c].serial \in Nat
                               /\ router[c].view \in [Payloads -> Int]
  BY SerialNat DEF TypeOK, Entry, Router

LEMMA KnownCount ==
  ASSUME TypeOK, NEW o, NEW s, NEW v
  PROVE  /\ IsFiniteSet(Known(entries, o, s, v))
         /\ Cardinality(Known(entries, o, s, v)) \in Nat
  <1>1. Known(entries, o, s, v) \in SUBSET entries
    BY DEF Known
  <1> QED BY <1>1, CountType

LEMMA PlainPayloads == Plain \subseteq Payloads /\ Plain \cap Aspas = {}
  BY Payloads0 DEF Plain, Payloads, Payloads0

(* Steps that leave cache and routers' data alone.                         *)
SameData(q, r) ==
  /\ r.hasData = q.hasData /\ r.session = q.session /\ r.serial = q.serial
  /\ r.view = q.view /\ r.stale = q.stale

LEMMA ViewKept ==
  ASSUME TypeOK, ViewInv,
         entries' = entries, maxSerial' = maxSerial, sessionID' = sessionID,
         minPSExpired' = minPSExpired, maxSExpired' = maxSExpired,
         \A c \in Routers : SameData(router[c], router'[c]),
         \A c \in Routers : router'[c].query \in {"reset", "serial"} =>
           /\ router'[c].connected /\ router'[c].version = RouterVersion[c]
           /\ router'[c].query = "serial" => router[c].hasData
  PROVE  ViewInv' /\ (ExactInv => ExactInv')
  <1>1. EntriesLived'
    BY DEF ViewInv, EntriesLived
  <1>2. \A c \in Routers : RouterSound(c)'
    BY DEF ViewInv, RouterSound, SameData
  <1>3. \A c \in Routers : InSession(c)' = InSession(c) /\ \A o : Counted(c, o)' = Counted(c, o)
    BY DEF InSession, Counted, SameData
  <1>4. \A c \in Routers : HoldsKnown(c)'
    BY <1>3 DEF ViewInv, HoldsKnown, SameData
  <1>5. ASSUME ExactInv PROVE ExactInv'
    BY <1>3, <1>5 DEF ExactInv, HoldsExactly, SameData, InWindow
  <1> QED BY <1>1, <1>2, <1>4, <1>5 DEF ViewInv

(* Steps of the cache: no router knows of more entries than before.        *)
LEMMA CacheChanged ==
  ASSUME TypeOK, ViewInv, EntriesLived', router' = router, sessionID' = sessionID,
         maxSerial' \in Nat, maxSerial <= maxSerial',
         \A c \in Routers, o \in Plain : Counted(c, o)' \in Nat /\ Counted(c, o)' <= Counted(c, o)
  PROVE  ViewInv'
  <1>1. \A c \in Routers : RouterSound(c)'
    BY EntryNumbers DEF ViewInv, RouterSound
  <1>2. \A c \in Routers : HoldsKnown(c)'
    <2> SUFFICES ASSUME NEW c \in Routers PROVE HoldsKnown(c)'
      OBVIOUS
    <2>1. InSession(c)' = InSession(c) /\ HoldsKnown(c)
      BY DEF InSession, ViewInv
    <2>2. \A o \in Plain : router[c].view[o] \in Int /\ Counted(c, o) \in Nat
      BY EntryNumbers, KnownCount, PlainPayloads DEF Counted
    <2>3. \A o \in Plain : router[c].view[o] >= Counted(c, o) => router[c].view[o] >= Counted(c, o)'
      BY <2>2
    <2> QED BY <2>1, <2>3 DEF HoldsKnown
  <1> QED BY <1>1, <1>2 DEF ViewInv

LEMMA ExactChanged ==
  ASSUME ExactInv, router' = router, sessionID' = sessionID,
         \A c \in Routers : ~InWindow(router[c].serial)' =>
           ~InWindow(router[c].serial) /\ \A o \in Plain : Counted(c, o)' = Counted(c, o)
  PROVE  ExactInv'
  <1> SUFFICES ASSUME NEW c \in Routers PROVE HoldsExactly(c)'
    BY DEF ExactInv
  <1>1. InSession(c)' = InSession(c)
    BY DEF InSession
  <1> QED BY <1>1 DEF ExactInv, HoldsExactly

(* If the entries that routers know are the same, all is well.             *)
LEMMA KnownSame ==
  ASSUME TypeOK, ViewInv, EntriesLived', router' = router, sessionID' = sessionID,
         maxSerial' \in Nat, maxSerial <= maxSerial',
         minPSExpired' = minPSExpired, maxSExpired' = maxSExpired,
         \A o \in Plain, s \in Nat : \A v : s <= maxSerial =>
           Known(entries', o, s, v) = Known(entries, o, s, v)
  PROVE  ViewInv' /\ (ExactInv => ExactInv')
  <1>1. \A c \in Routers : router[c].serial \in Nat /\ router[c].serial <= maxSerial
    BY EntryNumbers DEF ViewInv, RouterSound
  <1>2. \A c \in Routers, o \in Plain : Counted(c, o)' = Counted(c, o) /\ Counted(c, o) \in Nat
    BY <1>1, KnownCount DEF Counted
  <1>3. ViewInv'
    <2>1. \A c \in Routers, o \in Plain : Counted(c, o)' \in Nat /\ Counted(c, o)' <= Counted(c, o)
      BY <1>2
    <2> QED BY <2>1, CacheChanged
  <1>4. ASSUME ExactInv PROVE ExactInv'
    BY <1>2, <1>4, ExactChanged DEF InWindow
  <1> QED BY <1>3, <1>4

-----------------------------------------------------------------------------
(* The console's steps                                                     *)

LEMMA ViewAppendWrite ==
  ASSUME TypeOK, SerialInv, ViewInv, AppendWrite
  PROVE  ViewInv' /\ (ExactInv => ExactInv')
  <1> DEFINE new == {NewEntry(k) : k \in DOMAIN cmd.batch.lines}
  <1>1. /\ maxSerial \in Nat /\ Lines \in Nat /\ DOMAIN cmd.batch.lines = 1..Lines
    BY EntryFields
  <1>2. /\ entries' = entries \cup new /\ UNCHANGED <<maxSerial, minPSExpired, maxSExpired, sessionID, router>>
        /\ cmd.pc = "write"
    BY DEF AppendWrite
  <1>3. maxSerial + Lines <= MaxSerial
    BY <1>2 DEF SerialInv, RoomForSerials, ToCome
  <1>4. \A e \in new : /\ e.serial = e.prevSerial /\ e.announced
                       /\ e.prevSerial \in Nat /\ maxSerial < e.prevSerial
    <2> SUFFICES ASSUME NEW k \in 1..Lines
                 PROVE  /\ NewEntry(k).serial = NewEntry(k).prevSerial /\ NewEntry(k).announced
                        /\ NewEntry(k).prevSerial = maxSerial + k
      BY <1>1
    <2>1. maxSerial + k \in Nat /\ maxSerial + k <= MaxSerial
      BY <1>1, <1>3, Bounds DEF Bounds
    <2> QED BY <2>1, U32Fits DEF NewEntry
  <1> HIDE DEF new
  <1>5. EntriesLived'
    BY <1>2, <1>4 DEF ViewInv, EntriesLived
  <1>6. \A o \in Plain, s \in Nat : \A v : s <= maxSerial =>
          Known(entries', o, s, v) = Known(entries, o, s, v)
    BY <1>1, <1>2, <1>4 DEF Known
  <1>7. maxSerial' \in Nat /\ maxSerial <= maxSerial'
    BY <1>1, <1>2
  <1> QED BY <1>2, <1>5, <1>6, <1>7, KnownSame

(* What is counted is what was written.                                    *)
LEMMA LinesCounted ==
  ASSUME TypeOK, SerialInv, AppendCount
  PROVE  maxSerial' = maxSerial + Lines /\ maxSerial + Lines <= MaxSerial
  <1> DEFINE added == IF cmd.batch.ok THEN Cardinality(entries) - cmd.before ELSE 0
  <1>1. maxSerial \in Nat /\ Lines \in Nat
    BY EntryFields
  <1>2. cmd.pc = "count" /\ maxSerial' = U32(maxSerial + added)
    BY DEF AppendCount
  <1>3. added = Lines
    <2>1. Cardinality(entries) = cmd.before + Lines /\ WellCounted
      BY <1>2 DEF SerialInv, SizeKnown
    <2>2. cmd.before \in Nat
      BY DEF TypeOK, Cmd
    <2>3. cmd.batch.lines = <<>> => Lines = 0
      BY DEF Lines
    <2> QED BY <1>1, <2>1, <2>2, <2>3 DEF WellCounted
  <1> HIDE DEF added
  <1>4. maxSerial + Lines <= MaxSerial
    BY <1>2 DEF SerialInv, RoomForSerials, ToCome
  <1> QED BY <1>1, <1>2, <1>3, <1>4, U32Fits

LEMMA ViewAppendCount ==
  ASSUME TypeOK, SerialInv, ViewInv, AppendCount
  PROVE  ViewInv' /\ (ExactInv => ExactInv')
  <1>1. maxSerial \in Nat /\ Lines \in Nat /\ maxSExpired \in Nat
        /\ \A e \in entries : e.serial \in Nat
    BY EntryFields, EntryNumbers
  <1>2. UNCHANGED <<entries, minPSExpired, maxSExpired, sessionID, router>>
    BY DEF AppendCount
  <1>3. maxSerial' = maxSerial + Lines
    BY LinesCounted
  <1>4. maxSerial' \in Nat /\ maxSerial <= maxSerial'
    BY <1>1, <1>3
  <1>5. EntriesLived'
    BY <1>1, <1>2, <1>4 DEF ViewInv, EntriesLived
  <1> QED BY <1>2, <1>4, <1>5, KnownSame

(* ASPA objects come and go without touching what is known of the others.  *)
LEMMA ViewAppendASPA ==
  ASSUME TypeOK, SerialInv, ViewInv, NEW o \in Aspas, NEW now \in BOOLEAN, AppendASPA(o, now)
  PROVE  ViewInv' /\ (ExactInv => ExactInv')
  <1>1. /\ maxSerial \in Nat /\ maxSExpired \in Nat
        /\ \A e \in entries : e.serial \in Nat /\ e.prevSerial \in Nat
    BY EntryNumbers
  <1>2. /\ cmd.pc = "idle" /\ maxSerial < MaxSerial /\ maxSerial' = U32(maxSerial + 1)
        /\ UNCHANGED <<minPSExpired, maxSExpired, sessionID, router>>
    BY DEF AppendASPA
  <1>3. U32(maxSerial + 1) = maxSerial + 1
    BY <1>1, <1>2, U32Fits, Bounds DEF Bounds
  <1>4. \A e \in entries : e.serial <= maxSerial
    BY <1>1, <1>2 DEF SerialInv, SerialsBounded, Uncounted
  <1>5. PICK p : /\ p \in {U32(maxSerial + 1)} \cup {e.serial : e \in FindASPA(o)}
                 /\ entries' = (entries \ FindASPA(o)) \cup
                      {[obj |-> o, pos |-> tail + 1, serial |-> U32(maxSerial + 1),
                        prevSerial |-> p, announced |-> TRUE, expires |-> 0]}
    BY DEF AppendASPA
  <1>6. p \in Nat /\ p <= maxSerial + 1
    BY <1>1, <1>3, <1>4, <1>5 DEF FindASPA
  <1> DEFINE new == [obj |-> o, pos |-> tail + 1, serial |-> U32(maxSerial + 1),
                     prevSerial |-> p, announced |-> TRUE, expires |-> 0]
  <1>7. new.obj = o /\ new.serial = maxSerial + 1 /\ new.prevSerial = p /\ new.announced
    BY <1>3
  <1>8. /\ \A e \in entries' : e \in entries \/ e = new
        /\ new \in entries'
        /\ \A e \in entries : e \notin entries' => e.obj \in Aspas
    BY <1>5 DEF FindASPA, SameCustomer
  <1> HIDE DEF new
  <1>9. maxSerial' = maxSerial + 1
    BY <1>2, <1>3
  <1>10. EntriesLived'
    <2>1. o \notin Plain
      BY PlainPayloads
    <2>2. \A e \in entries' : e.prevSerial <= e.serial
      BY <1>6, <1>7, <1>8 DEF ViewInv, EntriesLived
    <2>3. \A e \in entries' : ~e.announced => e.prevSerial < e.serial /\ e.serial <= maxSerial'
      BY <1>1, <1>7, <1>8, <1>9 DEF ViewInv, EntriesLived
    <2>4. \A e \in entries' : e.obj \in Plain /\ e.announced => e.serial = e.prevSerial
      BY <1>7, <1>8, <2>1 DEF ViewInv, EntriesLived
    <2>5. maxSExpired' <= maxSerial'
      BY <1>1, <1>2, <1>9 DEF ViewInv, EntriesLived
    <2> QED BY <2>2, <2>3, <2>4, <2>5 DEF EntriesLived
  <1>11. \A q \in Plain, s \in Nat : \A v : s <= maxSerial =>
          Known(entries', q, s, v) = Known(entries, q, s, v)
    <2> SUFFICES ASSUME NEW q \in Plain, NEW s \in Nat, NEW v
                 PROVE  \A e : e.obj = q => (e \in entries' <=> e \in entries)
      BY DEF Known
    <2>1. q \notin Aspas /\ o # q
      BY PlainPayloads
    <2> QED BY <1>7, <1>8, <2>1
  <1>12. maxSerial' \in Nat /\ maxSerial <= maxSerial'
    BY <1>1, <1>9
  <1> QED BY <1>2, <1>10, <1>11, <1>12, KnownSame

(* The withdrawn entries go behind the list in the order in which they     *)
(* stood there, and get the serials behind cache.maxSerial.                *)
LEMMA WithdrawnBehind ==
  ASSUME TypeOK, SerialInv, cmd.pc = "remove", NEW e \in Removable
  PROVE  /\ e \in entries
         /\ Withdrawn(e).serial \in Nat /\ maxSerial < Withdrawn(e).serial
         /\ Withdrawn(e).prevSerial = e.prevSerial /\ Withdrawn(e).obj = e.obj
         /\ Withdrawn(e).announced = FALSE
  <1> DEFINE n == Cardinality(Removable)
             k == Cardinality({f \in Removable : f.pos <= e.pos})
  <1>1. maxSerial \in Nat /\ \A f \in entries : f.pos \in Nat
    BY EntryFields
  <1>2. e \in entries /\ Removable \subseteq entries /\ IsFiniteSet(Removable) /\ n \in Nat
    BY CountType DEF Removable
  <1>3. k \in 1..n
    BY <1>1, <1>2, RankBounds
  <1>4. cmd.lo <= cmd.hi /\ cmd.lo \in Nat /\ cmd.hi \in Nat
    BY DEF SerialInv, SizeKnown, TypeOK, Cmd
  <1>5. n <= cmd.hi - cmd.lo + 1
    BY <1>4, RemovableBounded DEF SerialInv
  <1>6. Withdrawn(e) = [e EXCEPT !.announced = FALSE, !.serial = U32(maxSerial + k),
                                 !.pos = tail + k, !.expires = ExpirationInterval]
    BY DEF Withdrawn
  <1>7. e \in Entry
    BY <1>2 DEF TypeOK
  <1> HIDE DEF n, k
  <1>8. maxSerial + n <= MaxSerial
    <2>1. maxSerial + (cmd.hi - cmd.lo + 1) <= MaxSerial
      BY DEF SerialInv, RoomForSerials, ToCome
    <2> QED BY <1>1, <1>2, <1>4, <1>5, <2>1, Bounds DEF Bounds
  <1>9. U32(maxSerial + k) = maxSerial + k
    <2>1. maxSerial + k \in Nat /\ maxSerial + k <= MaxSerial
      BY <1>1, <1>2, <1>3, <1>8, Bounds DEF Bounds
    <2> QED BY <2>1, U32Fits
  <1>10. /\ Withdrawn(e).serial = maxSerial + k /\ Withdrawn(e).prevSerial = e.prevSerial
         /\ Withdrawn(e).obj = e.obj /\ Withdrawn(e).announced = FALSE
    BY <1>6, <1>7, <1>9 DEF Entry
  <1> QED BY <1>1, <1>2, <1>3, <1>10

(* No two entries have the same serial.                                    *)
LEMMA SerialsUnique ==
  ASSUME TypeOK, SerialInv, NEW d \in entries, NEW e \in entries, d.serial = e.serial
  PROVE  d = e
  <1>1. d.pos \in Nat /\ e.pos \in Nat /\ d.serial \in Nat /\ e.serial \in Nat
    BY EntryFields
  <1>2. ~(d.pos < e.pos) /\ ~(e.pos < d.pos)
    BY <1>1 DEF SerialInv, SerialsGrow
  <1>3. d.pos = e.pos
    BY <1>1, <1>2
  <1> QED BY <1>3 DEF SerialInv, PlacesTaken

(* Two sets with a mapping that tells their elements apart are of one size.*)
LEMMA ImageCounted ==
  ASSUME NEW S, IsFiniteSet(S), NEW f, f = [x \in S |-> f[x]],
         \A x, y \in S : f[x] = f[y] => x = y
  PROVE  Cardinality({f[x] : x \in S}) = Cardinality(S)
  <1>1. f \in Bijection(S, {f[x] : x \in S})
    <2>1. DOMAIN f = S /\ f \in [S -> {f[x] : x \in S}]
      BY Zenon
    <2> QED BY <2>1 DEF Bijection, Injection, IsInjective, Surjection
  <1> QED BY <1>1, FS_Bijection DEF ExistsBijection

(* Withdrawing changes entries, and none of what is known of them: an      *)
(* entry that is withdrawn was announced at a serial that it keeps.        *)
LEMMA ViewRemoveWrite ==
  ASSUME TypeOK, TypeOK', SerialInv, SerialInv', ViewInv, RemoveWrite
  PROVE  ViewInv' /\ (ExactInv => ExactInv')
  <1>1. /\ cmd.pc = "remove" /\ cmd'.pc = "flag"
        /\ entries' = (entries \ Removable) \cup {Withdrawn(e) : e \in Removable}
        /\ maxSerial' = U32(maxSerial + Cardinality(Removable))
        /\ UNCHANGED <<minPSExpired, maxSExpired, sessionID, router>>
    BY DEF RemoveWrite, Idle
  <1>2. /\ maxSerial \in Nat /\ maxSerial' \in Nat /\ maxSExpired \in Nat
        /\ \A e \in entries : e.serial \in Nat /\ e.prevSerial \in Nat /\ e.announced \in BOOLEAN
    BY EntryNumbers, SerialNat DEF TypeOK
  <1>3. \A e \in Removable : e \in entries /\ e.serial = e.prevSerial /\ e.announced
    BY <1>2 DEF Removable, ViewInv, EntriesLived
  <1>4. \A e \in entries : e.serial <= maxSerial
    BY <1>1, <1>2 DEF SerialInv, SerialsBounded, Uncounted
  <1>5. \A e \in entries' : e.serial <= maxSerial' /\ e.serial \in Nat
    <2>1. \A e \in entries' : e.serial <= maxSerial' + 0
      BY <1>1 DEF SerialInv, SerialsBounded, Uncounted
    <2>2. \A e \in entries' : e.serial \in Nat
      <3>1. entries' \subseteq Entry
        BY DEF TypeOK
      <3> QED BY <3>1, SerialNat DEF Entry
    <2> QED BY <1>2, <2>1, <2>2
  <1>6. \A e \in Removable :
          /\ Withdrawn(e).serial \in Nat /\ maxSerial < Withdrawn(e).serial
          /\ Withdrawn(e).prevSerial = e.prevSerial /\ Withdrawn(e).obj = e.obj
          /\ Withdrawn(e).announced = FALSE /\ Withdrawn(e) \in entries'
    BY <1>1, WithdrawnBehind
  <1>7. maxSerial <= maxSerial'
    <2>1. CASE Removable = {}
      <3>1. Cardinality(Removable) = 0
        BY <2>1, FS_EmptySet
      <3>2. maxSerial <= MaxSerial
        <4>1. ToCome \in Nat /\ maxSerial + ToCome <= MaxSerial
          BY <1>1 DEF SerialInv, RoomForSerials, ToCome, SizeKnown, TypeOK, Cmd
        <4> QED BY <1>2, <4>1, Bounds DEF Bounds
      <3> QED BY <1>1, <1>2, <3>1, <3>2, U32Fits
    <2>2. CASE Removable # {}
      BY <1>2, <1>5, <1>6, <2>2
    <2> QED BY <2>1, <2>2
  <1>8. EntriesLived'
    <2>1. \A e \in entries' : \/ e \in entries
                              \/ \E d \in Removable : e = Withdrawn(d)
      BY <1>1
    <2>2. \A e \in entries' : e.prevSerial <= e.serial
      BY <1>2, <1>3, <1>4, <1>6, <2>1 DEF ViewInv, EntriesLived
    <2>3. \A e \in entries' : ~e.announced => e.prevSerial < e.serial /\ e.serial <= maxSerial'
      BY <1>2, <1>3, <1>4, <1>5, <1>6, <2>1 DEF ViewInv, EntriesLived
    <2>4. \A e \in entries' : e.obj \in Plain /\ e.announced => e.serial = e.prevSerial
      BY <1>6, <2>1 DEF ViewInv, EntriesLived
    <2>5. maxSExpired' <= maxSerial'
      BY <1>1, <1>2, <1>7 DEF ViewInv, EntriesLived
    <2> QED BY <2>2, <2>3, <2>4, <2>5 DEF EntriesLived
  <1>9. \A o \in Plain, s \in Nat : \A v : s <= maxSerial =>
          Cardinality(Known(entries', o, s, v)) = Cardinality(Known(entries, o, s, v))
    <2> SUFFICES ASSUME NEW o \in Plain, NEW s \in Nat, NEW v, s <= maxSerial
                 PROVE  Cardinality(Known(entries', o, s, v)) = Cardinality(Known(entries, o, s, v))
      OBVIOUS
    <2> DEFINE K == Known(entries, o, s, v)
               moved == [e \in K |-> IF e \in Removable THEN Withdrawn(e) ELSE e]
    <2>1. Known(entries', o, s, v) = {moved[e] : e \in K}
      <3>1. ASSUME NEW e \in K PROVE moved[e] \in Known(entries', o, s, v)
        <4>1. e \in entries /\ e.obj = o /\ Visible(o, v) /\ e.prevSerial <= s
              /\ (e.announced \/ s < e.serial)
          BY <3>1 DEF Known
        <4>2. CASE e \in Removable
          <5>1. moved[e] = Withdrawn(e)
            BY <4>2
          <5>2. s < Withdrawn(e).serial
            BY <1>2, <1>6, <4>2
          <5> QED BY <1>6, <4>1, <4>2, <5>1, <5>2 DEF Known
        <4>3. CASE e \notin Removable
          BY <1>1, <4>1, <4>3 DEF Known
        <4> QED BY <4>2, <4>3
      <3>2. ASSUME NEW e \in Known(entries', o, s, v) PROVE \E d \in K : e = moved[d]
        <4>1. e \in entries' /\ e.obj = o /\ Visible(o, v) /\ e.prevSerial <= s
              /\ (e.announced \/ s < e.serial)
          BY <3>2 DEF Known
        <4>2. CASE e \in entries \ Removable
          <5>1. e \in K /\ moved[e] = e
            BY <4>1, <4>2 DEF Known
          <5> QED BY <5>1
        <4>3. CASE \E d \in Removable : e = Withdrawn(d)
          <5>1. PICK d \in Removable : e = Withdrawn(d)
            BY <4>3
          <5>2. d \in K
            BY <1>3, <1>6, <4>1, <5>1 DEF Known
          <5> QED BY <5>1, <5>2
        <4> QED BY <1>1, <4>1, <4>2, <4>3
      <3> HIDE DEF K, moved
      <3> QED BY <3>1, <3>2
    <2>2. \A d, e \in K : moved[d] = moved[e] => d = e
      <3> SUFFICES ASSUME NEW d \in K, NEW e \in K, moved[d] = moved[e] PROVE d = e
        OBVIOUS
      <3>1. d \in entries /\ e \in entries
        BY DEF Known
      <3>2. CASE d \in Removable /\ e \in Removable
        <4>1. Withdrawn(d) = Withdrawn(e)
          BY <3>2
        <4>2. d.serial = e.serial
          BY <1>3, <1>6, <3>2, <4>1
        <4> QED BY <3>1, <4>2, SerialsUnique
      <3>3. CASE d \in Removable /\ e \notin Removable
        <4>1. Withdrawn(d) = e
          BY <3>3
        <4> QED BY <1>2, <1>4, <1>6, <3>1, <3>3, <4>1
      <3>4. CASE d \notin Removable /\ e \in Removable
        <4>1. Withdrawn(e) = d
          BY <3>4
        <4> QED BY <1>2, <1>4, <1>6, <3>1, <3>4, <4>1
      <3>5. CASE d \notin Removable /\ e \notin Removable
        BY <3>5
      <3> QED BY <3>2, <3>3, <3>4, <3>5
    <2>3. IsFiniteSet(K) /\ moved = [e \in K |-> moved[e]]
      BY KnownCount
    <2> HIDE DEF K, moved
    <2>4. Cardinality({moved[e] : e \in K}) = Cardinality(K)
      BY <2>2, <2>3, ImageCounted
    <2> QED BY <2>1, <2>4 DEF K
  <1>10. \A c \in Routers, o \in Plain : Counted(c, o)' = Counted(c, o) /\ Counted(c, o) \in Nat
    <2>1. \A c \in Routers : router[c].serial \in Nat /\ router[c].serial <= maxSerial
      BY EntryNumbers DEF ViewInv, RouterSound
    <2> QED BY <1>1, <1>9, <2>1, KnownCount DEF Counted
  <1>11. ViewInv'
    <2>1. \A c \in Routers, o \in Plain : Counted(c, o)' \in Nat /\ Counted(c, o)' <= Counted(c, o)
      BY <1>10
    <2> QED BY <1>1, <1>2, <1>7, <1>8, <2>1, CacheChanged
  <1>12. ASSUME ExactInv PROVE ExactInv'
    BY <1>1, <1>10, <1>12, ExactChanged DEF InWindow
  <1> QED BY <1>11, <1>12

(* The list is emptied and the routers that have data are left with what   *)
(* they hold: it is stale.                                                 *)
LEMMA ViewEmpty ==
  ASSUME TypeOK, ViewInv, EmptyCommand
  PROVE  ViewInv' /\ (ExactInv => ExactInv')
  <1>1. /\ entries' = {}
        /\ UNCHANGED <<maxSerial, minPSExpired, maxSExpired, sessionID>>
        /\ router' = [c \in Routers |-> [router[c] EXCEPT !.stale = router[c].hasData]]
    BY DEF EmptyCommand
  <1>2. \A c \in Routers : router[c] \in Router
    BY DEF TypeOK
  <1>3. \A c \in Routers :
          /\ router'[c].serial = router[c].serial /\ router'[c].session = router[c].session
          /\ router'[c].query = router[c].query /\ router'[c].connected = router[c].connected
          /\ router'[c].version = router[c].version /\ router'[c].view = router[c].view
          /\ router'[c].hasData = router[c].hasData /\ router'[c].stale = router[c].hasData
    BY <1>1, <1>2 DEF Router
  <1>4. EntriesLived'
    BY <1>1 DEF ViewInv, EntriesLived
  <1>5. \A c \in Routers, o \in Plain : Counted(c, o)' = 0
    <2>1. \A o, s, v : Known({}, o, s, v) = {}
      BY DEF Known
    <2> QED BY <1>1, <2>1, FS_EmptySet DEF Counted
  <1>6. \A c \in Routers : RouterSound(c)'
    BY <1>1, <1>3 DEF ViewInv, RouterSound
  <1>7. \A c \in Routers : HoldsKnown(c)'
    BY <1>3, <1>5, PlainPayloads DEF ViewInv, HoldsKnown
  <1>8. ExactInv'
    BY <1>3 DEF ExactInv, HoldsExactly, InSession
  <1> QED BY <1>4, <1>6, <1>7, <1>8 DEF ViewInv

(* A new session is a later one, or the same.                              *)
LEMMA ViewSession ==
  ASSUME TypeOK, ViewInv, NEW id \in 0..MaxSession, SessionCommand(id)
  PROVE  ViewInv' /\ (ExactInv => ExactInv')
  <1>1. /\ sessionID \in Nat /\ id \in Nat /\ \A c \in Routers : router[c].session \in Nat
    BY Bounds DEF TypeOK, Router, Bounds
  <1>2. /\ UNCHANGED <<entries, maxSerial, minPSExpired, maxSExpired, router>>
        /\ sessionID' = id /\ id >= sessionID
    BY DEF SessionCommand, cacheVars
  <1>3. EntriesLived'
    BY <1>2 DEF ViewInv, EntriesLived
  <1>4. \A c \in Routers : RouterSound(c)'
    BY <1>1, <1>2 DEF ViewInv, RouterSound
  <1>5. \A c \in Routers : InSession(c)' => InSession(c)
    BY <1>1, <1>2 DEF ViewInv, RouterSound, InSession
  <1>6. \A c \in Routers, o \in Plain : Counted(c, o)' = Counted(c, o)
    BY <1>2 DEF Counted
  <1>7. \A c \in Routers : HoldsKnown(c)'
    BY <1>2, <1>5, <1>6 DEF ViewInv, HoldsKnown
  <1>8. ASSUME ExactInv PROVE ExactInv'
    BY <1>2, <1>5, <1>6, <1>8 DEF ExactInv, HoldsExactly, InWindow
  <1> QED BY <1>3, <1>4, <1>7, <1>8 DEF ViewInv

(* A notification gives routers something to do and changes nothing else.  *)
LEMMA ToldSame ==
  ASSUME TypeOK, NEW c \in Routers
  PROVE  /\ SameData(router[c], Told(router[c]))
         /\ Told(router[c]).query = router[c].query
         /\ Told(router[c]).connected = router[c].connected
         /\ Told(router[c]).version = router[c].version
  <1>1. router[c] \in Router
    BY DEF TypeOK
  <1> QED BY <1>1 DEF Told, SameData, Router

LEMMA ViewNotify ==
  ASSUME TypeOK, ViewInv, NotifyAll, UNCHANGED <<cacheVars, sessionID>>
  PROVE  ViewInv' /\ (ExactInv => ExactInv')
  <1>1. \A c \in Routers : router'[c] = Told(router[c])
    BY DEF NotifyAll
  <1>2. \A c \in Routers : SameData(router[c], router'[c])
    BY <1>1, ToldSame
  <1>3. \A c \in Routers : router'[c].query \in {"reset", "serial"} =>
          /\ router'[c].connected /\ router'[c].version = RouterVersion[c]
          /\ router'[c].query = "serial" => router[c].hasData
    BY <1>1, ToldSame DEF ViewInv, RouterSound
  <1> QED BY <1>2, <1>3, ViewKept DEF cacheVars

LEMMA ViewReset ==
  ASSUME TypeOK, ViewInv, ResetCommand
  PROVE  ViewInv' /\ (ExactInv => ExactInv')
  <1>1. \A c \in Routers : router[c] \in Router
    BY DEF TypeOK
  <1>2. \A c \in Routers : /\ SameData(router[c], router'[c])
                           /\ router'[c].query = router[c].query
                           /\ router'[c].connected = router[c].connected
                           /\ router'[c].version = router[c].version
    BY <1>1 DEF ResetCommand, Router, SameData
  <1>3. \A c \in Routers : router'[c].query \in {"reset", "serial"} =>
          /\ router'[c].connected /\ router'[c].version = RouterVersion[c]
          /\ router'[c].query = "serial" => router[c].hasData
    BY <1>2 DEF ViewInv, RouterSound
  <1>4. UNCHANGED <<cacheVars, sessionID>>
    BY DEF ResetCommand
  <1> QED BY <1>2, <1>3, <1>4, ViewKept DEF cacheVars

LEMMA ViewSame ==
  ASSUME TypeOK, ViewInv, UNCHANGED <<cacheVars, sessionID, router>>
  PROVE  ViewInv' /\ (ExactInv => ExactInv')
  <1>1. \A c \in Routers : SameData(router[c], router'[c])
    BY DEF SameData
  <1>2. \A c \in Routers : router'[c].query \in {"reset", "serial"} =>
          /\ router'[c].connected /\ router'[c].version = RouterVersion[c]
          /\ router'[c].query = "serial" => router[c].hasData
    BY DEF ViewInv, RouterSound
  <1> QED BY <1>1, <1>2, ViewKept DEF cacheVars

LEMMA ViewConsole ==
  ASSUME TypeOK, TypeOK', SerialInv, SerialInv', ViewInv, Console
  PROVE  ViewInv' /\ (ExactInv => ExactInv')
  <1>1. CASE \E b \in Batches, now \in BOOLEAN : AppendBegin(b, now)
    BY <1>1, ViewSame DEF AppendBegin
  <1>2. CASE AppendWrite \/ AppendCount
    BY <1>2, ViewAppendWrite, ViewAppendCount
  <1>3. CASE \E o \in Aspas, now \in BOOLEAN : AppendASPA(o, now)
    BY <1>3, ViewAppendASPA
  <1>4. CASE \E lo, hi \in 1..MaxEntries, now \in BOOLEAN : RemoveBegin(lo, hi, now)
    BY <1>4, ViewSame DEF RemoveBegin
  <1>5. CASE RemoveWrite
    BY <1>5, ViewRemoveWrite
  <1>6. CASE RemoveCrash \/ FlagNotify
    BY <1>6, ViewSame DEF RemoveCrash, FlagNotify
  <1>7. CASE SendNow \/ NotifyCommand
    BY <1>7, ViewNotify DEF SendNow, NotifyCommand
  <1>8. CASE ResetCommand
    BY <1>8, ViewReset
  <1>9. CASE \E id \in 0..MaxSession : SessionCommand(id)
    BY <1>9, ViewSession
  <1>10. CASE EmptyCommand
    BY <1>10, ViewEmpty
  <1> QED BY <1>1, <1>2, <1>3, <1>4, <1>5, <1>6, <1>7, <1>8, <1>9, <1>10 DEF Console

-----------------------------------------------------------------------------
(* The service timer's step                                                *)

(* The entries that go widen the window to the serials of the routers that *)
(* still wait for their withdrawal.                                        *)
LEMMA ViewDeleteExpired ==
  ASSUME TypeOK, TypeOK', SerialInv, ViewInv, DeleteExpired
  PROVE  ViewInv' /\ (ExactInv => ExactInv')
  <1>1. /\ entries' = {Aged(e) : e \in entries \ Expired}
        /\ UNCHANGED <<maxSerial, sessionID, router>>
    BY DEF DeleteExpired
  <1>2. /\ minPSExpired' <= minPSExpired /\ \A e \in Expired : minPSExpired' <= e.prevSerial
        /\ maxSExpired <= maxSExpired' /\ \A e \in Expired : e.serial <= maxSExpired'
        /\ maxSExpired' \in {maxSExpired} \cup {e.serial : e \in Expired}
    BY DEF DeleteExpired
  <1>3. /\ \A e \in entries : e.serial \in Nat /\ e.prevSerial \in Nat /\ e.announced \in BOOLEAN
        /\ maxSerial \in Nat /\ minPSExpired \in Nat /\ maxSExpired \in Nat
        /\ minPSExpired' \in Nat /\ maxSExpired' \in Nat
    BY EntryNumbers, SerialNat DEF TypeOK
  <1>4. \A e \in Expired : e \in entries /\ ~e.announced
    BY DEF Expired, TypeOK, Entry
  <1>5. \A e \in entries : /\ Aged(e).obj = e.obj /\ Aged(e).serial = e.serial
                           /\ Aged(e).prevSerial = e.prevSerial /\ Aged(e).announced = e.announced
                           /\ Aged(e).pos = e.pos
    BY DEF Aged, TypeOK, Entry
  <1>6. EntriesLived'
    <2>1. \A e \in entries' : \E d \in entries :
            /\ e.obj = d.obj /\ e.serial = d.serial
            /\ e.prevSerial = d.prevSerial /\ e.announced = d.announced
      BY <1>1, <1>5
    <2>2. maxSExpired' <= maxSerial'
      BY <1>1, <1>2, <1>4 DEF ViewInv, EntriesLived
    <2> QED BY <1>1, <2>1, <2>2 DEF ViewInv, EntriesLived
  <1>7. \A o \in Plain, s \in Nat : \A v :
          /\ Cardinality(Known(entries', o, s, v)) \in Nat
          /\ Cardinality(Known(entries', o, s, v)) <= Cardinality(Known(entries, o, s, v))
          /\ ~(minPSExpired' <= s /\ s < maxSExpired') =>
               Cardinality(Known(entries', o, s, v)) = Cardinality(Known(entries, o, s, v))
    <2> SUFFICES ASSUME NEW o \in Plain, NEW s \in Nat, NEW v
                 PROVE  /\ Cardinality(Known(entries', o, s, v)) \in Nat
                        /\ Cardinality(Known(entries', o, s, v)) <= Cardinality(Known(entries, o, s, v))
                        /\ ~(minPSExpired' <= s /\ s < maxSExpired') =>
                             Cardinality(Known(entries', o, s, v))
                             = Cardinality(Known(entries, o, s, v))
      OBVIOUS
    <2> DEFINE K == Known(entries, o, s, v)
               left == K \ Expired
               aged == [e \in left |-> Aged(e)]
    <2>1. Known(entries', o, s, v) = {aged[e] : e \in left}
      <3>1. ASSUME NEW e \in left PROVE aged[e] \in Known(entries', o, s, v)
        BY <1>1, <1>5 DEF Known
      <3>2. ASSUME NEW e \in Known(entries', o, s, v) PROVE \E d \in left : e = aged[d]
        <4>1. PICK d \in entries \ Expired : e = Aged(d)
          BY <1>1, <3>2 DEF Known
        <4>2. d \in left
          BY <1>5, <4>1, <3>2 DEF Known
        <4> QED BY <4>1, <4>2
      <3> HIDE DEF left, aged
      <3> QED BY <3>1, <3>2
    <2>2. \A d, e \in left : aged[d] = aged[e] => d = e
      BY <1>5 DEF Known, SerialInv, PlacesTaken
    <2>3. IsFiniteSet(left) /\ Cardinality(left) <= Cardinality(K) /\ Cardinality(left) \in Nat
          /\ Cardinality(K) \in Nat
      <3>1. left \in SUBSET K /\ IsFiniteSet(K)
        BY KnownCount
      <3> HIDE DEF left, K
      <3> QED BY <3>1, FS_Subset, FS_CardinalityType
    <2>4. aged = [e \in left |-> aged[e]]
      OBVIOUS
    <2>5. ASSUME ~(minPSExpired' <= s /\ s < maxSExpired') PROVE left = K
      <3> SUFFICES ASSUME NEW e \in K, e \in Expired PROVE FALSE
        OBVIOUS
      <3>1. e \in entries /\ e.prevSerial <= s /\ s < e.serial
        BY <1>4 DEF Known
      <3>2. minPSExpired' <= e.prevSerial /\ e.serial <= maxSExpired'
        BY <1>2
      <3> QED BY <1>3, <2>5, <3>1, <3>2
    <2> HIDE DEF left, aged, K
    <2>6. Cardinality({aged[e] : e \in left}) = Cardinality(left)
      BY <2>2, <2>3, <2>4, ImageCounted
    <2>7. Cardinality(Known(entries', o, s, v)) = Cardinality(left)
      BY <2>1, <2>6
    <2> QED BY <2>3, <2>5, <2>7 DEF K
  <1>8. \A c \in Routers : router[c].serial \in Nat
    BY EntryNumbers
  <1>9. ViewInv'
    <2>1. \A c \in Routers, o \in Plain : Counted(c, o)' \in Nat /\ Counted(c, o)' <= Counted(c, o)
      BY <1>1, <1>7, <1>8 DEF Counted
    <2>2. maxSerial' \in Nat /\ maxSerial <= maxSerial'
      BY <1>1, <1>3
    <2> QED BY <1>1, <1>6, <2>1, <2>2, CacheChanged
  <1>10. ASSUME ExactInv PROVE ExactInv'
    <2> SUFFICES ASSUME NEW c \in Routers, ~InWindow(router[c].serial)'
                 PROVE  /\ ~InWindow(router[c].serial)
                        /\ \A o \in Plain : Counted(c, o)' = Counted(c, o)
      BY <1>1, <1>10, ExactChanged
    <2>1. ~(minPSExpired' <= router[c].serial /\ router[c].serial < maxSExpired')
      BY <1>1 DEF InWindow
    <2>2. ~InWindow(router[c].serial)
      BY <1>2, <1>3, <1>8, <2>1 DEF InWindow
    <2>3. \A o \in Plain : Counted(c, o)' = Counted(c, o)
      BY <1>1, <1>7, <1>8, <2>1 DEF Counted
    <2> QED BY <2>2, <2>3
  <1> QED BY <1>9, <1>10

-----------------------------------------------------------------------------
(* The answers                                                             *)

(* A router that asks with its serial, and is not too old, is sent what    *)
(* takes it from the entries it knows to all that are announced.           *)
AnnouncedTo(o, v) == {e \in entries : e.obj = o /\ Visible(o, v) /\ e.announced}

LEMMA CountTwo ==
  ASSUME NEW S, NEW T, NEW U, IsFiniteSet(U), S \subseteq U, T \subseteq U,
         S \cap T = {}, S \cup T = U
  PROVE  /\ Cardinality(S) \in Nat /\ Cardinality(T) \in Nat
         /\ Cardinality(U) = Cardinality(S) + Cardinality(T)
  <1>1. IsFiniteSet(S) /\ IsFiniteSet(T) /\ Cardinality(S) \in Nat /\ Cardinality(T) \in Nat
    BY FS_Subset, FS_CardinalityType
  <1>2. Cardinality(S \cap T) = 0
    BY FS_EmptySet
  <1>3. Cardinality(S \cup T) = Cardinality(S) + Cardinality(T) - Cardinality(S \cap T)
    BY <1>1, FS_Union
  <1>4. Cardinality(U) = Cardinality(S \cup T)
    OBVIOUS
  <1> QED BY <1>1, <1>2, <1>3, <1>4

LEMMA SerialAnswer ==
  ASSUME TypeOK, SerialInv, EntriesLived, NEW o \in Plain, NEW s \in Nat, NEW v,
         NEW P, P = Sent(FALSE, s, v)
  PROVE  /\ Cardinality({e \in P : e.obj = o /\ e.announced}) \in Nat
         /\ Cardinality({e \in P : e.obj = o /\ ~e.announced}) \in Nat
         /\ Cardinality(Known(entries, o, s, v))
              + Cardinality({e \in P : e.obj = o /\ e.announced})
              - Cardinality({e \in P : e.obj = o /\ ~e.announced})
            = Cardinality(AnnouncedTo(o, v))
  <1> DEFINE A == {e \in P : e.obj = o /\ e.announced}
             W == {e \in P : e.obj = o /\ ~e.announced}
             K == Known(entries, o, s, v)
             kept == {e \in K : e.announced}
  <1>1. \A e \in entries : /\ e.serial \in Nat /\ e.prevSerial \in Nat /\ e.pos \in Nat
                           /\ e.announced \in BOOLEAN
    BY EntryNumbers
  <1>2. \A e : e \in P <=> /\ e \in entries /\ s < e.serial /\ Visible(e.obj, v)
                           /\ ~(e.serial # e.prevSerial /\ e.prevSerial > s)
    <2>1. \A e \in entries : (\E f \in entries : f.pos <= e.pos /\ f.serial > s) <=> s < e.serial
      <3> SUFFICES ASSUME NEW e \in entries
                   PROVE  (\E f \in entries : f.pos <= e.pos /\ f.serial > s) <=> s < e.serial
        OBVIOUS
      <3>1. ASSUME s < e.serial PROVE \E f \in entries : f.pos <= e.pos /\ f.serial > s
        BY <1>1, <3>1
      <3>2. ASSUME NEW f \in entries, f.pos <= e.pos, f.serial > s PROVE s < e.serial
        <4>1. CASE f.pos < e.pos
          <5>1. f.serial < e.serial
            BY <4>1 DEF SerialInv, SerialsGrow
          <5> QED BY <1>1, <3>2, <5>1
        <4>2. CASE f.pos = e.pos
          <5>1. f = e
            BY <4>2 DEF SerialInv, PlacesTaken
          <5> QED BY <1>1, <3>2, <5>1
        <4> QED BY <1>1, <3>2, <4>1, <4>2
      <3> QED BY <3>1, <3>2
    <2> QED BY <2>1 DEF Sent
  <1>3. \A e : e \in A <=> /\ e \in entries /\ s < e.serial /\ e.obj = o /\ Visible(o, v)
                           /\ e.announced
    BY <1>1, <1>2 DEF EntriesLived
  <1>4. \A e : e \in W <=> /\ e \in entries /\ s < e.serial /\ e.obj = o /\ Visible(o, v)
                           /\ ~e.announced /\ e.prevSerial <= s
    <2>1. \A e \in entries : ~e.announced => e.serial # e.prevSerial
      BY <1>1 DEF EntriesLived
    <2>2. \A e : e \in W <=> e \in P /\ e.obj = o /\ ~e.announced
      OBVIOUS
    <2>3. \A e \in entries : ~(e.prevSerial > s) <=> e.prevSerial <= s
      BY <1>1
    <2> HIDE DEF W
    <2> QED BY <1>2, <2>1, <2>2, <2>3
  <1>5. \A e : e \in kept <=> /\ e \in entries /\ e.obj = o /\ Visible(o, v)
                              /\ e.announced /\ e.prevSerial <= s
    BY DEF Known
  <1>6. W \subseteq K /\ kept \subseteq K /\ W \cap kept = {} /\ W \cup kept = K
    <2>1. \A e \in K : e \in W \/ e \in kept
      BY <1>4, <1>5 DEF Known
    <2>2. \A e \in W : e \in K /\ e \notin kept
      BY <1>4 DEF Known
    <2> HIDE DEF W, K
    <2> QED BY <2>1, <2>2
  <1>7. /\ A \subseteq AnnouncedTo(o, v) /\ kept \subseteq AnnouncedTo(o, v)
        /\ A \cap kept = {} /\ A \cup kept = AnnouncedTo(o, v)
    <2>1. \A e \in AnnouncedTo(o, v) : e.obj = o /\ e \in entries /\ e.announced /\ Visible(o, v)
      BY DEF AnnouncedTo
    <2>2. \A e \in entries : e.obj = o /\ e.announced => e.serial = e.prevSerial
      BY DEF EntriesLived
    <2> HIDE DEF A, kept
    <2>3. \A e \in AnnouncedTo(o, v) : e \in A \/ e \in kept
      BY <1>1, <1>3, <1>5, <2>1, <2>2
    <2>4. \A e \in A : e \in AnnouncedTo(o, v) /\ e \notin kept
      BY <1>1, <1>3, <1>5, <2>2 DEF AnnouncedTo
    <2>5. \A e \in kept : e \in AnnouncedTo(o, v)
      BY <1>5 DEF AnnouncedTo
    <2> HIDE DEF A, kept
    <2> QED BY <2>3, <2>4, <2>5
  <1>8. IsFiniteSet(K) /\ IsFiniteSet(AnnouncedTo(o, v))
    <2>1. AnnouncedTo(o, v) \in SUBSET entries
      BY DEF AnnouncedTo
    <2> QED BY <2>1, KnownCount, CountType
  <1> HIDE DEF A, W, K, kept
  <1>9. /\ Cardinality(W) \in Nat /\ Cardinality(kept) \in Nat
        /\ Cardinality(K) = Cardinality(W) + Cardinality(kept)
    BY <1>6, <1>8, CountTwo
  <1>10. /\ Cardinality(A) \in Nat
         /\ Cardinality(AnnouncedTo(o, v)) = Cardinality(A) + Cardinality(kept)
    BY <1>7, <1>8, CountTwo
  <1>11. /\ Cardinality(A) \in Nat /\ Cardinality(W) \in Nat
         /\ Cardinality(K) + Cardinality(A) - Cardinality(W) = Cardinality(AnnouncedTo(o, v))
    BY <1>9, <1>10
  <1> QED BY <1>11 DEF A, W, K

(* One that asks for everything is sent all that are announced.            *)
LEMMA ResetAnswer ==
  ASSUME EntriesLived, NEW o \in Plain, NEW v
  PROVE  /\ \A e : e \in Sent(TRUE, 0, v) /\ e.obj = o /\ e.announced
                   <=> e \in AnnouncedTo(o, v)
         /\ \A e \in Sent(TRUE, 0, v) : e.announced
  <1>1. \A e \in entries : e.obj = o /\ e.announced => e.serial = e.prevSerial
    BY DEF EntriesLived
  <1> QED BY <1>1 DEF Sent, AnnouncedTo

(* What a router knows of afterwards: with a line written and not counted  *)
(* it was sent more, and will be sent that again.                          *)
LEMMA KnownAfterwards ==
  ASSUME TypeOK, SerialInv, EntriesLived, NEW o \in Plain, NEW v
  PROVE  /\ Cardinality(AnnouncedTo(o, v)) \in Nat
         /\ Cardinality(Known(entries, o, maxSerial, v)) \in Nat
         /\ Cardinality(Known(entries, o, maxSerial, v)) <= Cardinality(AnnouncedTo(o, v))
         /\ cmd.pc # "count" => Known(entries, o, maxSerial, v) = AnnouncedTo(o, v)
  <1>1. /\ maxSerial \in Nat
        /\ \A e \in entries : e.serial \in Nat /\ e.prevSerial \in Nat /\ e.announced \in BOOLEAN
    BY EntryNumbers
  <1>2. Known(entries, o, maxSerial, v) \in SUBSET AnnouncedTo(o, v)
    BY <1>1 DEF Known, AnnouncedTo, EntriesLived
  <1>3. AnnouncedTo(o, v) \in SUBSET entries
    BY DEF AnnouncedTo
  <1>4. IsFiniteSet(AnnouncedTo(o, v)) /\ Cardinality(AnnouncedTo(o, v)) \in Nat
    BY <1>3, CountType
  <1>5. /\ Cardinality(Known(entries, o, maxSerial, v)) \in Nat
        /\ Cardinality(Known(entries, o, maxSerial, v)) <= Cardinality(AnnouncedTo(o, v))
    BY <1>2, <1>4, FS_Subset, FS_CardinalityType
  <1>6. ASSUME cmd.pc # "count" PROVE Known(entries, o, maxSerial, v) = AnnouncedTo(o, v)
    <2>1. \A e \in entries : e.serial <= maxSerial
      BY <1>1, <1>6 DEF SerialInv, SerialsBounded, Uncounted
    <2>2. \A e \in entries : e.obj = o /\ e.announced => e.serial = e.prevSerial
      BY DEF EntriesLived
    <2> QED BY <1>2, <2>1, <2>2 DEF Known, AnnouncedTo
  <1> QED BY <1>4, <1>5, <1>6

(* The router's copies after an answer.                                    *)
LEMMA ViewRespondData ==
  ASSUME TypeOK, SerialInv, ViewInv, NEW c \in Routers, RespondData(c)
  PROVE  /\ ViewInv'
         /\ ExactInv /\ "client" \notin GapActors => ExactInv'
  <1> DEFINE r == router[c]
             isReset == r.query = "reset"
             base == IF isReset THEN Fresh.view ELSE r.view
             sent == Sent(isReset, IF isReset THEN 0 ELSE r.serial, r.version)
             view == Applied(base, sent)
  <1>1. /\ UNCHANGED <<entries, maxSerial, minPSExpired, maxSExpired, sessionID>>
        /\ cmd' = cmd
        /\ r.query \in {"reset", "serial"} /\ ~WrongSession(c) /\ ~NeedsReset(c)
        /\ router' = [router EXCEPT ![c] =
             IF r.version = 0 THEN [r EXCEPT !.query = "ignored"]
             ELSE [r EXCEPT !.query = "none", !.hasData = TRUE, !.session = sessionID,
                            !.serial = maxSerial, !.view = view, !.stale = @ /\ ~isReset]]
    BY DEF RespondData, cacheVars
  <1>2. /\ r \in Router /\ router \in [Routers -> Router] /\ r.view \in [Payloads -> Int]
        /\ r.serial \in Nat /\ sessionID \in Nat /\ maxSerial \in Nat
    BY EntryNumbers DEF TypeOK
  <1>3. RouterSound(c) /\ HoldsKnown(c) /\ EntriesLived
    BY DEF ViewInv
  <1>4. \A d \in Routers : d # c => router'[d] = router[d]
    BY <1>1, <1>2
  <1>5. EntriesLived'
    BY <1>1, <1>3 DEF EntriesLived
  <1>6. \A d \in Routers : d # c => /\ (RouterSound(d) /\ HoldsKnown(d))'
                                    /\ HoldsExactly(d) => HoldsExactly(d)'
    BY <1>1, <1>4 DEF ViewInv, RouterSound, HoldsKnown, HoldsExactly, InSession, InWindow, Counted
  <1>7. CASE r.version = 0
    <2>1. router'[c] = [r EXCEPT !.query = "ignored"]
      BY <1>1, <1>2, <1>7
    <2>2. SameData(r, router'[c]) /\ router'[c].query = "ignored"
      BY <1>2, <2>1 DEF SameData, Router
    <2>3. (RouterSound(c) /\ HoldsKnown(c))' /\ (HoldsExactly(c) => HoldsExactly(c)')
      BY <1>1, <1>3, <2>2
         DEF SameData, RouterSound, HoldsKnown, HoldsExactly, InSession, InWindow, Counted
    <2> QED BY <1>5, <1>6, <2>3 DEF ViewInv, ExactInv
  <1>8. CASE r.version # 0
    <2>1. router'[c] = [r EXCEPT !.query = "none", !.hasData = TRUE, !.session = sessionID,
                                 !.serial = maxSerial, !.view = view, !.stale = @ /\ ~isReset]
      <3> HIDE DEF view, isReset
      <3> QED BY <1>1, <1>2, <1>8
    <2>2. /\ router'[c].query = "none" /\ router'[c].hasData /\ router'[c].session = sessionID
          /\ router'[c].serial = maxSerial /\ router'[c].view = view
          /\ router'[c].stale = (r.stale /\ ~isReset)
      <3> HIDE DEF view, isReset
      <3> QED BY <1>2, <2>1 DEF Router
    <2>3. RouterSound(c)'
      BY <1>1, <1>2, <2>2 DEF RouterSound
    <2>4. \A o \in Aspas : view[o] >= 0
      <3> SUFFICES ASSUME NEW o \in Aspas PROVE view[o] >= 0
        OBVIOUS
      <3>1. o \in Payloads
        BY DEF Payloads
      <3>2. base[o] >= 0
        BY <1>3, <3>1 DEF Fresh, HoldsKnown
      <3>3. view[o] \in {0, 1, base[o]}
        <4> HIDE DEF base, sent
        <4> QED BY <3>1 DEF Applied
      <3> QED BY <3>2, <3>3
    <2>5. \A o \in Plain :
            /\ view[o] >= Cardinality(AnnouncedTo(o, r.version))
            /\ isReset \/ (HoldsExactly(c) /\ ~r.stale)
                 => view[o] = Cardinality(AnnouncedTo(o, r.version))
      <3> SUFFICES ASSUME NEW o \in Plain
                   PROVE  /\ view[o] >= Cardinality(AnnouncedTo(o, r.version))
                          /\ isReset \/ (HoldsExactly(c) /\ ~r.stale)
                               => view[o] = Cardinality(AnnouncedTo(o, r.version))
        OBVIOUS
      <3>1. o \in Payloads /\ o \notin Aspas
        BY PlainPayloads
      <3>2. view[o] = base[o] + Cardinality({e \in sent : e.obj = o /\ e.announced})
                              - Cardinality({e \in sent : e.obj = o /\ ~e.announced})
        <4> HIDE DEF base, sent
        <4> QED BY <3>1 DEF Applied
      <3>3. Cardinality(AnnouncedTo(o, r.version)) \in Nat
        BY <1>3, KnownAfterwards
      <3>4. CASE isReset
        <4>1. base[o] = 0 /\ sent = Sent(TRUE, 0, r.version)
          BY <3>1, <3>4 DEF Fresh
        <4> HIDE DEF base, sent, view
        <4>2. /\ {e \in sent : e.obj = o /\ e.announced} = AnnouncedTo(o, r.version)
              /\ {e \in sent : e.obj = o /\ ~e.announced} = {}
          <5>1. /\ \A e : e \in Sent(TRUE, 0, r.version) /\ e.obj = o /\ e.announced
                         <=> e \in AnnouncedTo(o, r.version)
                /\ \A e \in Sent(TRUE, 0, r.version) : e.announced
            <6> HIDE DEF r
            <6> QED BY <1>3, ResetAnswer
          <5>2. /\ \A e : e \in sent /\ e.obj = o /\ e.announced
                         <=> e \in AnnouncedTo(o, r.version)
                /\ \A e \in sent : e.announced
            BY <4>1, <5>1
          <5> QED BY <5>2
        <4>3. Cardinality({e \in sent : e.obj = o /\ ~e.announced}) = 0
          BY <4>2, FS_EmptySet
        <4>4. view[o] = Cardinality(AnnouncedTo(o, r.version))
          <5>1. Cardinality({e \in sent : e.obj = o /\ e.announced})
                = Cardinality(AnnouncedTo(o, r.version))
            BY <4>2
          <5> QED BY <3>2, <3>3, <4>1, <4>3, <5>1
        <4> QED BY <3>3, <4>4
      <3>5. CASE ~isReset
        <4>1. base = r.view /\ sent = Sent(FALSE, r.serial, r.version)
          BY <3>5
        <4>2. /\ r.query = "serial" /\ r.hasData /\ r.session = sessionID
              /\ r.version = RouterVersion[c]
          BY <1>1, <1>3, <3>5 DEF WrongSession, RouterSound
        <4>3. InSession(c) /\ ~InWindow(r.serial)
          <5>1. ~CheckSerial(minPSExpired, maxSExpired, r.serial)
            BY <1>1, <4>2 DEF NeedsReset
          <5>2. minPSExpired \in Nat /\ maxSExpired \in Nat
            BY EntryNumbers
          <5>3. ~InWindow(r.serial)
            BY <1>2, <5>1, <5>2 DEF CheckSerial, InWindow
          <5> QED BY <4>2, <5>3 DEF InSession
        <4> HIDE DEF base, sent, view
        <4> DEFINE a == Cardinality({e \in sent : e.obj = o /\ e.announced})
                   w == Cardinality({e \in sent : e.obj = o /\ ~e.announced})
                   k == Cardinality(Known(entries, o, r.serial, r.version))
        <4>4. a \in Nat /\ w \in Nat /\ k + a - w = Cardinality(AnnouncedTo(o, r.version))
          <5> DEFINE q == Sent(FALSE, r.serial, r.version)
                     A == {e \in q : e.obj = o /\ e.announced}
                     W == {e \in q : e.obj = o /\ ~e.announced}
          <5>1. r.serial \in Nat /\ EntriesLived
            BY <1>2, <1>3
          <5>2. /\ Cardinality(A) \in Nat /\ Cardinality(W) \in Nat
                /\ k + Cardinality(A) - Cardinality(W) = Cardinality(AnnouncedTo(o, r.version))
            <6> HIDE DEF r
            <6> QED BY <5>1, SerialAnswer
          <5>3. sent = q
            BY <4>1
          <5> HIDE DEF q
          <5>4. a = Cardinality(A) /\ w = Cardinality(W)
            BY <5>3
          <5> QED BY <5>2, <5>4
        <4>5. k \in Nat
          BY KnownCount
        <4>6. r.view[o] \in Int /\ r.view[o] >= k
          BY <1>2, <1>3, <3>1, <4>2, <4>3 DEF HoldsKnown, Counted
        <4>7. HoldsExactly(c) /\ ~r.stale => r.view[o] = k
          BY <4>2, <4>3 DEF HoldsExactly, Counted
        <4>8. view[o] = r.view[o] + a - w
          BY <3>2, <4>1
        <4> HIDE DEF a, w, k
        <4> QED BY <3>3, <3>5, <4>4, <4>5, <4>6, <4>7, <4>8
      <3> QED BY <3>4, <3>5
    <2>6. r.version = RouterVersion[c]
      BY <1>1, <1>3 DEF RouterSound
    <2>7. \A o \in Plain : /\ Counted(c, o)' = Cardinality(Known(entries, o, maxSerial, r.version))
                           /\ Counted(c, o)' \in Nat
                           /\ Cardinality(AnnouncedTo(o, r.version)) \in Nat
                           /\ Counted(c, o)' <= Cardinality(AnnouncedTo(o, r.version))
                           /\ cmd.pc # "count" =>
                                Counted(c, o)' = Cardinality(AnnouncedTo(o, r.version))
      BY <1>1, <1>3, <2>2, <2>6, KnownAfterwards DEF Counted
    <2>8. \A o \in Plain : view[o] \in Int
      <3>1. view \in [Payloads -> Int]
        <4>1. base \in [Payloads -> Int]
          BY <1>2 DEF Fresh
        <4>2. sent \in SUBSET entries
          BY DEF Sent
        <4> HIDE DEF base, sent
        <4> QED BY <4>1, <4>2, AppliedType
      <3> HIDE DEF view
      <3> QED BY <3>1, PlainPayloads
    <2>9. HoldsKnown(c)'
      <3> HIDE DEF view
      <3>1. \A o \in Plain : view[o] >= Counted(c, o)' /\ view[o] >= 0
        BY <2>5, <2>7, <2>8
      <3>2. \A o \in Payloads : o \in Plain \/ o \in Aspas
        BY DEF Payloads, Plain
      <3>3. \A o \in Payloads : view[o] >= 0
        BY <2>4, <3>1, <3>2
      <3> QED BY <2>2, <3>1, <3>3 DEF HoldsKnown
    <2>10. ASSUME ExactInv, "client" \notin GapActors PROVE HoldsExactly(c)'
      <3>1. cmd.pc # "count"
        BY <2>10 DEF RespondData, CanLock, InGap
      <3>2. HoldsExactly(c)
        BY <2>10 DEF ExactInv
      <3> SUFFICES ASSUME ~router'[c].stale, NEW o \in Plain
                   PROVE  router'[c].view[o] = Counted(c, o)'
        BY DEF HoldsExactly
      <3>3. isReset \/ (HoldsExactly(c) /\ ~r.stale)
        BY <2>2, <3>2
      <3>4. view[o] = Cardinality(AnnouncedTo(o, r.version))
        <4> HIDE DEF view, isReset
        <4> QED BY <2>5, <3>3
      <3> HIDE DEF view
      <3> QED BY <2>2, <2>7, <3>1, <3>4
    <2> HIDE DEF view, isReset, base, sent
    <2>11. ViewInv'
      BY <1>5, <1>6, <2>3, <2>9 DEF ViewInv
    <2>12. ASSUME ExactInv, "client" \notin GapActors PROVE ExactInv'
      BY <1>6, <2>10, <2>12 DEF ExactInv
    <2> QED BY <2>11, <2>12
  <1> HIDE DEF r
  <1> QED BY <1>7, <1>8

(* The other steps of a connection change what the router waits for, not   *)
(* what it holds.                                                          *)
LEMMA DataKept ==
  ASSUME TypeOK, ViewInv, NEW c \in Routers, Client(c), ~RespondData(c)
  PROVE  /\ UNCHANGED <<cacheVars, sessionID>>
         /\ \A d \in Routers : SameData(router[d], router'[d])
         /\ \A d \in Routers : router'[d].query \in {"reset", "serial"} =>
              /\ router'[d].connected /\ router'[d].version = RouterVersion[d]
              /\ router'[d].query = "serial" => router[d].hasData
  <1> DEFINE r == router[c]
             Waits(q) == q.query \in {"reset", "serial"} =>
                           /\ q.connected /\ q.version = RouterVersion[c]
                           /\ q.query = "serial" => r.hasData
  <1>1. UNCHANGED <<cacheVars, sessionID>>
    BY DEF Client, Connect, Disconnect, Query, RespondWrongSession, RespondCacheReset
  <1>2. r \in Router /\ router \in [Routers -> Router] /\ Waits(r)
    BY DEF TypeOK, ViewInv, RouterSound
  <1>3. \E q : router' = [router EXCEPT ![c] = q] /\ SameData(r, q) /\ Waits(q)
    <2>1. CASE Connect(c)
      <3>1. router' = [router EXCEPT ![c] = [[r EXCEPT !.connected = TRUE] EXCEPT !.version = UNDEF]]
        BY <1>2, <2>1 DEF Connect
      <3>2. r.query \notin {"reset", "serial"}
        BY <1>2, <2>1 DEF Connect
      <3> DEFINE q == [[r EXCEPT !.connected = TRUE] EXCEPT !.version = UNDEF]
      <3>3. SameData(r, q) /\ q.query = r.query
        BY <1>2 DEF SameData, Router
      <3> HIDE DEF q
      <3>4. SameData(r, q) /\ Waits(q)
        BY <3>2, <3>3
      <3> QED BY <3>1, <3>4 DEF q
    <2>2. SameData(r, Closed(r)) /\ Waits(Closed(r))
      BY <1>2 DEF Closed, SameData, Router
    <2>3. CASE Disconnect(c)
      BY <2>2, <2>3 DEF Disconnect
    <2>4. CASE \E kind \in {"reset", "serial"} : Query(c, kind)
      <3>1. PICK kind \in {"reset", "serial"} : Query(c, kind)
        BY <2>4
      <3>2. CASE RouterVersion[c] > CacheVersion
        BY <2>2, <3>1, <3>2 DEF Query
      <3>3. CASE ~(RouterVersion[c] > CacheVersion)
        <4> DEFINE q == [[[r EXCEPT !.version = RouterVersion[c]] EXCEPT !.query = kind]
                         EXCEPT !.todo = "none"]
        <4>1. router' = [router EXCEPT ![c] = q]
          BY <1>2, <3>1, <3>3 DEF Query
        <4>2. SameData(r, q) /\ q.query = kind /\ q.version = RouterVersion[c]
              /\ q.connected = r.connected
          BY <1>2 DEF SameData, Router
        <4>3. r.connected /\ (kind = "serial" => r.hasData)
          BY <3>1 DEF Query
        <4> HIDE DEF q
        <4>4. Waits(q)
          BY <4>2, <4>3
        <4> QED BY <4>1, <4>2, <4>4
      <3> QED BY <3>2, <3>3
    <2>5. CASE RespondWrongSession(c)
      <3> DEFINE q == [r EXCEPT !.query = "ignored"]
      <3>1. router' = [router EXCEPT ![c] = q]
        BY <1>2, <2>5 DEF RespondWrongSession
      <3>2. SameData(r, q) /\ q.query = "ignored"
        BY <1>2 DEF SameData, Router
      <3> HIDE DEF q
      <3> QED BY <3>1, <3>2
    <2>6. CASE RespondCacheReset(c)
      <3> DEFINE q == [[r EXCEPT !.query = "none"] EXCEPT !.todo = "reset"]
      <3>1. router' = [router EXCEPT ![c] = q]
        BY <1>2, <2>6 DEF RespondCacheReset
      <3>2. SameData(r, q) /\ q.query = "none"
        BY <1>2 DEF SameData, Router
      <3> HIDE DEF q
      <3> QED BY <3>1, <3>2
    <2> HIDE DEF Waits, r
    <2> QED BY <2>1, <2>3, <2>4, <2>5, <2>6 DEF Client
  <1>4. PICK q : router' = [router EXCEPT ![c] = q] /\ SameData(r, q) /\ Waits(q)
    BY <1>3
  <1>5. router'[c] = q /\ \A d \in Routers : d # c => router'[d] = router[d]
    <2> HIDE DEF Waits, r
    <2> QED BY <1>2, <1>4
  <1>6. \A d \in Routers : SameData(router[d], router'[d])
    BY <1>4, <1>5 DEF SameData
  <1>7. \A d \in Routers : router'[d].query \in {"reset", "serial"} =>
          /\ router'[d].connected /\ router'[d].version = RouterVersion[d]
          /\ router'[d].query = "serial" => router[d].hasData
    BY <1>4, <1>5 DEF ViewInv, RouterSound
  <1> HIDE DEF r, Waits
  <1> QED BY <1>1, <1>6, <1>7

LEMMA ViewConnection ==
  ASSUME TypeOK, ViewInv, NEW c \in Routers, Client(c), ~RespondData(c)
  PROVE  ViewInv' /\ (ExactInv => ExactInv')
  BY DataKept, ViewKept DEF cacheVars

LEMMA ViewInit == Init => ViewInv /\ ExactInv
  <1> SUFFICES ASSUME Init PROVE ViewInv /\ ExactInv
    OBVIOUS
  <1>1. \A c \in Routers : router[c] = Fresh
    BY DEF Init
  <1>2. \A c \in Routers : RouterSound(c)
    BY <1>1 DEF Init, Fresh, RouterSound
  <1>3. \A c \in Routers : HoldsKnown(c) /\ HoldsExactly(c)
    BY <1>1 DEF Init, Fresh, HoldsKnown, HoldsExactly, InSession
  <1>4. EntriesLived
    BY DEF Init, EntriesLived
  <1> QED BY <1>2, <1>3, <1>4 DEF ViewInv, ExactInv

LEMMA ViewStep ==
  ASSUME TypeOK, TypeOK', SerialInv, SerialInv', ViewInv, [Next]_vars
  PROVE  ViewInv' /\ (ExactInv /\ "client" \notin GapActors => ExactInv')
  <1>1. CASE Console
    BY <1>1, ViewConsole
  <1>2. CASE DeleteExpired
    BY <1>2, ViewDeleteExpired
  <1>3. CASE TimerNotify
    BY <1>3, ViewSame DEF TimerNotify
  <1>4. CASE TimerSend
    BY <1>4, ViewNotify DEF TimerSend
  <1>5. CASE \E c \in Routers : Client(c)
    <2>1. PICK c \in Routers : Client(c)
      BY <1>5
    <2>2. CASE RespondData(c)
      BY <2>2, ViewRespondData
    <2>3. CASE ~RespondData(c)
      BY <2>1, <2>3, ViewConnection
    <2> QED BY <2>2, <2>3
  <1>6. CASE UNCHANGED vars
    BY <1>6, ViewSame DEF vars, cacheVars
  <1> QED BY <1>1, <1>2, <1>3, <1>4, <1>5, <1>6 DEF Next, ServiceTimerExpired

(* Announcements minus withdrawals are never negative at a router, with    *)
(* any commands, inputs that end well, any number of routers and clients   *)
(* served inside the lock gaps: sendCacheObjects withdraws at a router     *)
(* only what it was announced there, as long as the service timer does not *)
(* get the lock between the regions of a command.                          *)
THEOREM WithdrawnIsKnown ==
  ASSUME "timer" \notin GapActors, \A b \in Batches : b.ok \/ b.lines = <<>>
  PROVE  Spec => []NoUnknownWithdrawal
  <1>1. TypeOK /\ TypeOK' /\ SerialInv /\ SerialInv' /\ ViewInv /\ [Next]_vars => ViewInv'
    BY ViewStep
  <1>2. ViewInv => NoUnknownWithdrawal
    BY DEF ViewInv, HoldsKnown, NoUnknownWithdrawal
  <1> QED BY <1>1, <1>2, ViewInit, TypeCorrect, SerialsKept, PTL DEF Spec

(* A router that was answered and has the cache's serial holds exactly     *)
(* what the cache announces, if nobody gets the lock inside a command:     *)
(* withdrawals sent by serial, the window of expired ones (checkSerial),   *)
(* and Cache Resets make up for whatever it missed.                        *)
THEOREM SyncedHoldTheSame ==
  ASSUME GapActors = {}, \A b \in Batches : b.ok \/ b.lines = <<>>
  PROVE  Spec => []SyncedRoutersAgree
  <1>1. "timer" \notin GapActors /\ "client" \notin GapActors
    OBVIOUS
  <1>2. TypeOK /\ TypeOK' /\ SerialInv /\ SerialInv' /\ ViewInv /\ ExactInv /\ [Next]_vars
        => ViewInv' /\ ExactInv'
    BY <1>1, ViewStep
  <1>3. TypeOK /\ SerialInv /\ ViewInv /\ ExactInv => SyncedRoutersAgree
    <2> SUFFICES ASSUME TypeOK, SerialInv, ViewInv, ExactInv, ~InGap,
                        NEW c \in Routers, Synced(c), NEW o \in Plain
                 PROVE  router[c].view[o]
                        = IF Visible(o, RouterVersion[c]) THEN Announced(o) ELSE 0
      BY DEF SyncedRoutersAgree, Plain
    <2>1. /\ InSession(c) /\ ~router[c].stale /\ router[c].serial = maxSerial
          /\ cmd.pc # "count"
      BY DEF Synced, InSession, InGap
    <2>2. ~InWindow(maxSerial)
      BY EntryNumbers DEF ViewInv, EntriesLived, InWindow
    <2>3. router[c].view[o] = Cardinality(Known(entries, o, maxSerial, RouterVersion[c]))
      BY <2>1, <2>2 DEF ExactInv, HoldsExactly, Counted
    <2>4. Known(entries, o, maxSerial, RouterVersion[c]) = AnnouncedTo(o, RouterVersion[c])
      BY <2>1, KnownAfterwards DEF ViewInv
    <2>5. CASE Visible(o, RouterVersion[c])
      <3>1. AnnouncedTo(o, RouterVersion[c]) = {e \in entries : e.obj = o /\ e.announced}
        BY <2>5 DEF AnnouncedTo
      <3> QED BY <2>3, <2>4, <2>5, <3>1 DEF Announced
    <2>6. CASE ~Visible(o, RouterVersion[c])
      <3>1. AnnouncedTo(o, RouterVersion[c]) = {}
        BY <2>6 DEF AnnouncedTo
      <3> QED BY <2>3, <2>4, <2>6, <3>1, FS_EmptySet
    <2> QED BY <2>5, <2>6
  <1> QED BY <1>2, <1>3, <1>1, ViewInit, TypeCorrect, SerialsKept, PTL DEF Spec

-----------------------------------------------------------------------------
(* ASPA objects                                                            *)

(* The entries announced under a serial of their own: those that did not   *)
(* replace another one of their customer.                                  *)
OwnAspas == {e \in entries : e.obj \in Aspas /\ e.announced /\ e.serial = e.prevSerial}

(* A router has those of them that are not newer than its data.            *)
AspaHeld ==
  \A c \in Routers : InSession(c) /\ ~router[c].stale =>
    \A e \in OwnAspas : e.serial <= router[c].serial /\ Visible(e.obj, RouterVersion[c]) =>
      router[c].view[e.obj] # 0

(* What an answer leaves at the router of the ASPA objects.                *)
LEMMA AspaAnswered ==
  ASSUME TypeOK, OneAspaPerCustomer, ViewInv, AspaHeld,
         NEW c \in Routers, RespondData(c), router[c].version # 0, ~router'[c].stale,
         NEW e \in OwnAspas, Visible(e.obj, router[c].version)
  PROVE  router'[c].view[e.obj] # 0
  <1> DEFINE r == router[c]
             isReset == r.query = "reset"
             base == IF isReset THEN Fresh.view ELSE r.view
             sent == Sent(isReset, IF isReset THEN 0 ELSE r.serial, r.version)
             view == Applied(base, sent)
  <1>1. /\ r.query \in {"reset", "serial"} /\ ~WrongSession(c)
        /\ router' = [router EXCEPT ![c] =
             IF r.version = 0 THEN [r EXCEPT !.query = "ignored"]
             ELSE [r EXCEPT !.query = "none", !.hasData = TRUE, !.session = sessionID,
                            !.serial = maxSerial, !.view = view, !.stale = @ /\ ~isReset]]
    BY DEF RespondData
  <1>2. /\ r \in Router /\ router \in [Routers -> Router] /\ r.serial \in Nat
        /\ e \in entries /\ e.obj \in Aspas /\ e.announced /\ e.serial = e.prevSerial
        /\ e.serial \in Nat /\ e.pos \in Nat /\ e.obj \in Payloads
    BY EntryNumbers DEF TypeOK, OwnAspas
  <1>3. router'[c].view = view /\ router'[c].stale = (r.stale /\ ~isReset)
    <2> HIDE DEF view, isReset
    <2>1. router'[c] = [r EXCEPT !.query = "none", !.hasData = TRUE, !.session = sessionID,
                                 !.serial = maxSerial, !.view = view, !.stale = @ /\ ~isReset]
      BY <1>1, <1>2
    <2> QED BY <1>2, <2>1 DEF Router
  <1>4. ASSUME e \in sent PROVE view[e.obj] = 1
    <2>1. SameCustomer(e.obj, e.obj)
      BY <1>2 DEF SameCustomer
    <2> HIDE DEF base, sent
    <2> QED BY <1>2, <1>4, <2>1 DEF Applied
  <1>5. CASE isReset \/ e.serial > r.serial
    <2>1. e \in sent
      <3>1. CASE isReset
        BY <1>2, <3>1 DEF Sent
      <3>2. CASE ~isReset /\ e.serial > r.serial
        <4>1. e.pos <= e.pos
          BY <1>2
        <4> QED BY <1>2, <3>2, <4>1 DEF Sent
      <3> QED BY <1>5, <3>1, <3>2
    <2> HIDE DEF sent, view
    <2> QED BY <1>3, <1>4, <2>1
  <1>6. CASE ~isReset /\ ~(e.serial > r.serial)
    <2>1. CASE \E f \in sent : SameCustomer(f.obj, e.obj)
      <3>1. e \in sent
        BY <1>2, <2>1 DEF Sent, OneAspaPerCustomer
      <3> HIDE DEF sent, view
      <3> QED BY <1>3, <1>4, <3>1
    <2>2. CASE ~\E f \in sent : SameCustomer(f.obj, e.obj)
      <3>1. view[e.obj] = base[e.obj]
        <4> HIDE DEF base, sent
        <4> QED BY <1>2, <2>2 DEF Applied
      <3>2. base = r.view
        BY <1>6
      <3>3. InSession(c) /\ ~r.stale /\ r.version = RouterVersion[c]
        BY <1>1, <1>3, <1>6 DEF WrongSession, ViewInv, RouterSound, InSession
      <3>4. e.serial <= r.serial
        BY <1>2, <1>6
      <3>5. r.view[e.obj] # 0
        BY <3>3, <3>4 DEF AspaHeld
      <3> HIDE DEF view, base
      <3> QED BY <1>3, <3>1, <3>2, <3>5
    <2> QED BY <2>1, <2>2
  <1> QED BY <1>5, <1>6

(* Steps that announce nothing a router could have heard of, and leave its *)
(* data alone or mark it stale.                                            *)
LEMMA AspaKept ==
  ASSUME TypeOK, TypeOK', ViewInv, AspaHeld, sessionID <= sessionID',
         \A c \in Routers : SameData(router[c], router'[c])
                            \/ router'[c].stale \/ ~router'[c].hasData,
         \A e \in OwnAspas' : e.serial <= maxSerial =>
           \E d \in OwnAspas : d.obj = e.obj /\ d.serial = e.serial
  PROVE  AspaHeld'
  <1> SUFFICES ASSUME NEW c \in Routers, InSession(c)', ~router'[c].stale,
                      NEW e \in OwnAspas', e.serial <= router'[c].serial,
                      Visible(e.obj, RouterVersion[c])
               PROVE  router'[c].view[e.obj] # 0
    BY DEF AspaHeld
  <1>1. SameData(router[c], router'[c])
    BY DEF InSession
  <1>2. InSession(c) /\ ~router[c].stale
    <2>1. /\ router[c].session <= sessionID /\ router[c].session \in Nat
          /\ sessionID \in Nat /\ sessionID' \in Nat
      BY EntryNumbers DEF ViewInv, RouterSound, Router, TypeOK
    <2> QED BY <1>1, <2>1 DEF InSession, SameData
  <1>3. e.serial <= maxSerial
    <2>1. router[c].serial <= maxSerial /\ router[c].serial \in Nat /\ maxSerial \in Nat
      BY EntryNumbers DEF ViewInv, RouterSound
    <2>2. e.serial <= router[c].serial
      BY <1>1 DEF SameData
    <2>3. e.serial \in Nat
      BY SerialNat DEF TypeOK, Entry, OwnAspas
    <2> QED BY <2>1, <2>2, <2>3
  <1>4. PICK d \in OwnAspas : d.obj = e.obj /\ d.serial = e.serial
    BY <1>3
  <1>5. router[c].view[d.obj] # 0
    BY <1>1, <1>2, <1>4 DEF AspaHeld, SameData
  <1> QED BY <1>1, <1>4, <1>5 DEF SameData

LEMMA AspaAppend ==
  ASSUME TypeOK, TypeOK', SerialInv, ViewInv, AspaHeld, AppendWrite \/ AppendCount
  PROVE  AspaHeld'
  <1>1. UNCHANGED <<sessionID, router>> /\ sessionID \in Nat
    BY DEF AppendWrite, AppendCount, TypeOK
  <1>2. \A e \in OwnAspas' : e \in OwnAspas
    <2>1. CASE AppendCount
      BY <2>1 DEF AppendCount, OwnAspas
    <2>2. CASE AppendWrite
      <3>1. \A k \in DOMAIN cmd.batch.lines : NewEntry(k).obj \in Roas \cup RouterKeys
        BY DEF NewEntry, TypeOK, Cmd, Batch
      <3>2. \A k \in DOMAIN cmd.batch.lines : NewEntry(k).obj \notin Aspas
        BY <3>1, Payloads0 DEF Payloads0
      <3> QED BY <2>2, <3>2 DEF AppendWrite, OwnAspas
    <2> QED BY <2>1, <2>2
  <1>3. \A c \in Routers : SameData(router[c], router'[c])
    BY <1>1 DEF SameData
  <1> QED BY <1>1, <1>2, <1>3, AspaKept

LEMMA AspaReplaced ==
  ASSUME TypeOK, TypeOK', ViewInv, AspaHeld,
         NEW o \in Aspas, NEW now \in BOOLEAN, AppendASPA(o, now)
  PROVE  AspaHeld'
  <1>1. /\ UNCHANGED <<sessionID, router>> /\ sessionID \in Nat
        /\ maxSerial \in Nat /\ maxSerial < MaxSerial
    BY EntryNumbers DEF AppendASPA, TypeOK
  <1>2. U32(maxSerial + 1) = maxSerial + 1
    BY <1>1, U32Fits, Bounds DEF Bounds
  <1>3. \A e \in entries' : e \in entries \/ e.serial = maxSerial + 1
    BY <1>2 DEF AppendASPA
  <1>4. \A e \in OwnAspas' : e.serial <= maxSerial => e \in OwnAspas
    BY <1>1, <1>3 DEF OwnAspas
  <1>5. \A c \in Routers : SameData(router[c], router'[c])
    BY <1>1 DEF SameData
  <1> QED BY <1>1, <1>4, <1>5, AspaKept

LEMMA AspaRemove ==
  ASSUME TypeOK, TypeOK', SerialInv, ViewInv, AspaHeld, RemoveWrite
  PROVE  AspaHeld'
  <1>1. UNCHANGED <<sessionID, router>> /\ sessionID \in Nat /\ cmd.pc = "remove"
        /\ entries' = (entries \ Removable) \cup {Withdrawn(e) : e \in Removable}
    BY DEF RemoveWrite, TypeOK
  <1>2. \A e \in Removable : Withdrawn(e).announced = FALSE
    BY <1>1, WithdrawnBehind
  <1>3. \A e \in OwnAspas' : e \in OwnAspas
    BY <1>1, <1>2 DEF OwnAspas
  <1>4. \A c \in Routers : SameData(router[c], router'[c])
    BY <1>1 DEF SameData
  <1> QED BY <1>1, <1>3, <1>4, AspaKept

LEMMA AspaDeleteExpired ==
  ASSUME TypeOK, TypeOK', ViewInv, AspaHeld, DeleteExpired
  PROVE  AspaHeld'
  <1>1. UNCHANGED <<sessionID, router>> /\ sessionID \in Nat
        /\ entries' = {Aged(e) : e \in entries \ Expired}
    BY DEF DeleteExpired, TypeOK
  <1>2. \A e \in entries : /\ Aged(e).obj = e.obj /\ Aged(e).serial = e.serial
                           /\ Aged(e).prevSerial = e.prevSerial /\ Aged(e).announced = e.announced
    BY DEF Aged, TypeOK, Entry
  <1>3. \A e \in OwnAspas' : \E d \in OwnAspas : d.obj = e.obj /\ d.serial = e.serial
    BY <1>1, <1>2 DEF OwnAspas
  <1>4. \A c \in Routers : SameData(router[c], router'[c])
    BY <1>1 DEF SameData
  <1> QED BY <1>1, <1>3, <1>4, AspaKept

(* The steps that leave the list alone, or take everything from it.        *)
LEMMA AspaRest ==
  ASSUME TypeOK, TypeOK', ViewInv, AspaHeld,
         entries' = entries \/ entries' = {}, sessionID <= sessionID',
         \A c \in Routers : \/ SameData(router[c], router'[c])
                            \/ router'[c].stale \/ ~router'[c].hasData
  PROVE  AspaHeld'
  <1>1. \A e \in OwnAspas' : e \in OwnAspas
    BY DEF OwnAspas
  <1> QED BY <1>1, AspaKept

LEMMA AspaConsole ==
  ASSUME TypeOK, TypeOK', SerialInv, ViewInv, AspaHeld, Console
  PROVE  AspaHeld'
  <1>1. CASE AppendWrite \/ AppendCount
    BY <1>1, AspaAppend
  <1>2. CASE \E o \in Aspas, now \in BOOLEAN : AppendASPA(o, now)
    BY <1>2, AspaReplaced
  <1>3. CASE RemoveWrite
    BY <1>3, AspaRemove
  <1>4. CASE SendNow \/ NotifyCommand
    <2>1. entries' = entries /\ sessionID' = sessionID /\ sessionID \in Nat /\ NotifyAll
      BY <1>4 DEF SendNow, NotifyCommand, cacheVars, TypeOK
    <2>2. \A c \in Routers : SameData(router[c], router'[c])
      BY <2>1, ToldSame DEF NotifyAll
    <2> QED BY <2>1, <2>2, AspaRest
  <1>5. CASE ResetCommand
    <2>1. entries' = entries /\ sessionID' = sessionID /\ sessionID \in Nat
      BY <1>5 DEF ResetCommand, cacheVars, TypeOK
    <2>2. \A c \in Routers : router[c] \in Router
      BY DEF TypeOK
    <2>3. \A c \in Routers : SameData(router[c], router'[c])
      BY <1>5, <2>2 DEF ResetCommand, Router, SameData
    <2> QED BY <2>1, <2>3, AspaRest
  <1>6. CASE EmptyCommand
    <2>1. entries' = {} /\ sessionID' = sessionID /\ sessionID \in Nat
      BY <1>6 DEF EmptyCommand, TypeOK
    <2>2. \A c \in Routers : router[c] \in Router
      BY DEF TypeOK
    <2>3. \A c \in Routers : router'[c].stale \/ ~router'[c].hasData
      BY <1>6, <2>2 DEF EmptyCommand, Router
    <2> QED BY <2>1, <2>3, AspaRest
  <1>7. CASE \E id \in 0..MaxSession : SessionCommand(id)
    <2>1. entries' = entries /\ router' = router /\ sessionID <= sessionID'
      BY <1>7 DEF SessionCommand, cacheVars
    <2>2. \A c \in Routers : SameData(router[c], router'[c])
      BY <2>1 DEF SameData
    <2> QED BY <2>1, <2>2, AspaRest
  <1>8. CASE \/ \E b \in Batches, now \in BOOLEAN : AppendBegin(b, now)
             \/ \E lo, hi \in 1..MaxEntries, now \in BOOLEAN : RemoveBegin(lo, hi, now)
             \/ RemoveCrash \/ FlagNotify
    <2>1. entries' = entries /\ router' = router /\ sessionID' = sessionID /\ sessionID \in Nat
      BY <1>8 DEF AppendBegin, RemoveBegin, RemoveCrash, FlagNotify, cacheVars, TypeOK
    <2>2. \A c \in Routers : SameData(router[c], router'[c])
      BY <2>1 DEF SameData
    <2> QED BY <2>1, <2>2, AspaRest
  <1> QED BY <1>1, <1>2, <1>3, <1>4, <1>5, <1>6, <1>7, <1>8 DEF Console

(* After an answer the router holds what the answer left it; a version 0   *)
(* router gets to use nothing of it.                                       *)
LEMMA AspaRespondData ==
  ASSUME TypeOK, TypeOK', OneAspaPerCustomer, ViewInv, AspaHeld,
         NEW c \in Routers, RespondData(c)
  PROVE  AspaHeld'
  <1>1. UNCHANGED <<entries, sessionID>> /\ router[c].query \in {"reset", "serial"}
    BY DEF RespondData, cacheVars
  <1>2. router \in [Routers -> Router] /\ router[c] \in Router /\ sessionID \in Nat
    BY DEF TypeOK
  <1>3. \A d \in Routers : d # c => SameData(router[d], router'[d])
    BY <1>2 DEF RespondData, SameData
  <1>4. CASE router[c].version = 0
    <2>1. router'[c] = [router[c] EXCEPT !.query = "ignored"]
      BY <1>2, <1>4 DEF RespondData
    <2>2. SameData(router[c], router'[c])
      BY <1>2, <2>1 DEF SameData, Router
    <2> QED BY <1>1, <1>2, <1>3, <2>2, AspaRest
  <1>5. CASE router[c].version # 0
    <2>1. router[c].version = RouterVersion[c]
      BY <1>1 DEF ViewInv, RouterSound
    <2>2. ~router'[c].stale => \A e \in OwnAspas :
            Visible(e.obj, RouterVersion[c]) => router'[c].view[e.obj] # 0
      BY <1>5, <2>1, AspaAnswered
    <2>3. OwnAspas' = OwnAspas
      BY <1>1 DEF OwnAspas
    <2>4. \A d \in Routers : d # c => InSession(d)' = InSession(d)
      BY <1>1, <1>3 DEF InSession, SameData
    <2> SUFFICES ASSUME NEW d \in Routers, InSession(d)', ~router'[d].stale,
                        NEW e \in OwnAspas, e.serial <= router'[d].serial,
                        Visible(e.obj, RouterVersion[d])
                 PROVE  router'[d].view[e.obj] # 0
      BY <2>3 DEF AspaHeld
    <2>5. CASE d = c
      BY <2>2, <2>5
    <2>6. CASE d # c
      BY <1>3, <2>4, <2>6 DEF AspaHeld, SameData
    <2> QED BY <2>5, <2>6
  <1> QED BY <1>4, <1>5

LEMMA AspaStep ==
  ASSUME TypeOK, TypeOK', OneAspaPerCustomer, SerialInv, ViewInv, AspaHeld, [Next]_vars
  PROVE  AspaHeld'
  <1>1. CASE Console
    BY <1>1, AspaConsole
  <1>2. CASE DeleteExpired
    BY <1>2, AspaDeleteExpired
  <1>3. CASE TimerNotify \/ UNCHANGED vars
    <2>1. entries' = entries /\ router' = router /\ sessionID' = sessionID /\ sessionID \in Nat
      BY <1>3 DEF TimerNotify, vars, cacheVars, TypeOK
    <2>2. \A c \in Routers : SameData(router[c], router'[c])
      BY <2>1 DEF SameData
    <2> QED BY <2>1, <2>2, AspaRest
  <1>4. CASE TimerSend
    <2>1. entries' = entries /\ sessionID' = sessionID /\ sessionID \in Nat /\ NotifyAll
      BY <1>4 DEF TimerSend, cacheVars, TypeOK
    <2>2. \A c \in Routers : SameData(router[c], router'[c])
      BY <2>1, ToldSame DEF NotifyAll
    <2> QED BY <2>1, <2>2, AspaRest
  <1>5. CASE \E c \in Routers : Client(c)
    <2>1. PICK c \in Routers : Client(c)
      BY <1>5
    <2>2. CASE RespondData(c)
      BY <2>2, AspaRespondData
    <2>3. CASE ~RespondData(c)
      <3>1. entries' = entries /\ sessionID' = sessionID /\ sessionID \in Nat
            /\ \A d \in Routers : SameData(router[d], router'[d])
        BY <2>1, <2>3, DataKept DEF cacheVars, TypeOK
      <3> QED BY <3>1, AspaRest
    <2> QED BY <2>2, <2>3
  <1> QED BY <1>1, <1>2, <1>3, <1>4, <1>5 DEF Next, ServiceTimerExpired

(* No answer of sendCacheObjects leaves out an ASPA object that came under *)
(* a serial of its own: what a router lacks right after it replaced        *)
(* another object of its customer.  Any commands, inputs that end well,    *)
(* any number of routers and clients served inside the lock gaps.          *)
THEOREM AnswersComplete ==
  ASSUME "timer" \notin GapActors, \A b \in Batches : b.ok \/ b.lines = <<>>
  PROVE  Spec => AnswersLackOnlyReplaced
  <1>1. Init => AspaHeld
    BY DEF Init, AspaHeld, InSession, Fresh
  <1>2. TypeOK /\ TypeOK' /\ SerialInv /\ SerialInv' /\ ViewInv /\ [Next]_vars => ViewInv'
    BY ViewStep
  <1>3. TypeOK /\ TypeOK' /\ OneAspaPerCustomer /\ SerialInv /\ ViewInv /\ AspaHeld /\ [Next]_vars
        => AspaHeld'
    BY AspaStep
  <1> DEFINE Answered ==
        \A c \in Routers : RespondData(c) /\ router[c].version > 0 /\ ~router'[c].stale =>
          \A e \in entries : e.obj \in Aspas /\ e.announced /\ Lacks(c, e) =>
            e.serial # e.prevSerial
  <1>4. TypeOK /\ OneAspaPerCustomer /\ ViewInv /\ AspaHeld => [Answered]_vars
    <2> SUFFICES ASSUME TypeOK, OneAspaPerCustomer, ViewInv, AspaHeld,
                        NEW c \in Routers, RespondData(c), router[c].version > 0,
                        ~router'[c].stale, NEW e \in entries, e.obj \in Aspas, e.announced,
                        Lacks(c, e), e.serial = e.prevSerial
                 PROVE  FALSE
      OBVIOUS
    <2>1. e \in OwnAspas /\ Visible(e.obj, router[c].version) /\ router'[c].view[e.obj] = 0
      BY DEF OwnAspas, Lacks
    <2>2. router[c].version # 0
      BY DEF UNDEF
    <2> QED BY <2>1, <2>2, AspaAnswered
  <1>5. AnswersLackOnlyReplaced <=> [][Answered]_vars
    BY DEF AnswersLackOnlyReplaced
  <1> HIDE DEF Answered
  <1> QED BY <1>1, <1>2, <1>3, <1>4, <1>5, ViewInit, TypeCorrect, SerialsKept, AspaUnique,
             PTL DEF Spec

=============================================================================
