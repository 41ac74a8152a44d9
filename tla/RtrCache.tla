------------------------------ MODULE RtrCache ------------------------------
(***************************************************************************)
(* The RPKI-to-Router cache of brio_rc (rpkirtr_svr.c): the list of        *)
(* validated payloads with their serial numbers, the console commands that *)
(* change it, the service timer that expires withdrawn entries and sends   *)
(* the pending Serial Notify, and the answers given to Serial and Reset    *)
(* Queries.                                                                *)
(*                                                                         *)
(* The SList is a set of entries; the field pos is the entry's place in    *)
(* the list.  The list only ever grows at its end, so tail, the last place *)
(* handed out, orders what is appended or moved after what is there.       *)
(*                                                                         *)
(* A console command that gives up the cache lock on its way (the lock     *)
(* "upgrade" and "downgrade" of rwlock.c are an unlock followed by a lock) *)
(* is split at those points, where service.notify is set, and where the    *)
(* notification is sent; each region that holds the lock is one step.      *)
(***************************************************************************)
EXTENDS Integers, Sequences, FiniteSets

CONSTANTS
  Routers,            \* the routers, each with at most one connection
  RouterVersion,      \* [Routers -> Nat]: the protocol version a router speaks
  Roas, RouterKeys,   \* payloads that are added and removed as they are
  Customers, Providers, \* an ASPA object pairs a customer with its providers
  Batches,            \* inputs of the append commands, see Batch below
  Commands,           \* the console commands used: a subset of CommandNames
  GapActors,          \* who may get the lock inside a command's lock gap
  ExpirationInterval, \* timer periods a withdrawn entry is kept
  UINT32_MAX,         \* largest serial number
  MaxSerial,          \* bound: serial numbers used
  MaxEntries,         \* bound: entries in the list
  MaxSession          \* bound: session ids used

Aspas    == Customers \X Providers
Payloads == Roas \cup RouterKeys \cup Aspas

(* What one append command reads: the payloads of its well-formed lines,   *)
(* and whether the input then ends (ok) or has a line with too few fields. *)
Batch == [lines : Seq(Roas \cup RouterKeys), ok : BOOLEAN]

CommandNames == {"append", "aspa", "remove", "empty", "session", "notify", "reset"}

ASSUME Payloads0 ==
  /\ Roas \cap RouterKeys = {}
  /\ Roas \cap Aspas = {}
  /\ RouterKeys \cap Aspas = {}

ASSUME Bounds ==
  /\ UINT32_MAX \in Nat \ {0}
  /\ MaxSerial \in Nat
  /\ MaxSerial <= UINT32_MAX
  /\ MaxEntries \in Nat
  /\ MaxSession \in Nat
  /\ ExpirationInterval \in Nat \ {0}

ASSUME Inputs ==
  /\ RouterVersion \in [Routers -> Nat]
  /\ Batches \subseteq Batch
  /\ Commands \subseteq CommandNames
  /\ GapActors \subseteq {"client", "timer"}

Serial == 0..UINT32_MAX
U32(n) == n % (UINT32_MAX + 1)

VARIABLES
  entries,       \* cache.entries
  tail,          \* last place handed out in the list
  maxSerial,     \* cache.maxSerial
  minPSExpired,  \* cache.minPSExpired
  maxSExpired,   \* cache.maxSExpired
  sessionID,     \* sessionID
  notify,        \* service.notify
  cmd,           \* the command the console thread executes
  timer,         \* how far the service timer's handler is
  router         \* per router: its connection and the data it holds

cacheVars == <<entries, tail, maxSerial, minPSExpired, maxSExpired>>
vars == <<entries, tail, maxSerial, minPSExpired, maxSExpired, sessionID, notify, cmd, timer,
          router>>

(* ValCacheEntry.  expires counts the timer periods left to a withdrawn    *)
(* entry, 0 while it is announced and does not expire.                     *)
Entry == {e \in [obj : Payloads, pos : Nat, serial : Serial, prevSerial : Serial,
                 announced : BOOLEAN, expires : 0..ExpirationInterval] :
            e.announced <=> e.expires = 0}

(* The console thread's progress through a command.                        *)
NoBatch == [lines |-> <<>>, ok |-> FALSE]
Idle == [pc |-> "idle", batch |-> NoBatch, before |-> 0, lo |-> 0, hi |-> 0,
         now |-> FALSE, added |-> 0]
Cmd == [pc : {"idle", "write", "count", "remove", "flag", "send", "crashed"},
        batch : Batch, before : Nat, lo : Nat, hi : Nat, now : BOOLEAN, added : Int]

(* A router.  connected and version are the CacheClient of the server; the *)
(* rest is the router's own: the query it waits on, what it was told to    *)
(* do, the session and serial of its data, and per payload the             *)
(* announcements minus the withdrawals it was sent.  stale marks data that *)
(* was withdrawn by "empty", of which the protocol tells the router        *)
(* nothing.                                                                *)
UNDEF == -1
Fresh == [connected |-> FALSE, version |-> UNDEF, query |-> "none", todo |-> "none",
          hasData |-> FALSE, session |-> 0, serial |-> 0,
          view |-> [o \in Payloads |-> 0], stale |-> FALSE]
Router == [connected : BOOLEAN, version : Nat \cup {UNDEF},
           query : {"none", "reset", "serial", "ignored"},
           todo : {"none", "reset", "serial"},
           hasData : BOOLEAN, session : Nat, serial : Serial,
           view : [Payloads -> Int], stale : BOOLEAN]

TypeOK ==
  /\ entries \subseteq Entry
  /\ IsFiniteSet(entries)
  /\ tail \in Nat
  /\ maxSerial \in Serial
  /\ minPSExpired \in Serial
  /\ maxSExpired \in Serial
  /\ sessionID \in Nat
  /\ notify \in BOOLEAN
  /\ cmd \in Cmd
  /\ timer \in {"armed", "expired", "send"}
  /\ router \in [Routers -> Router]

Init ==
  /\ entries = {} /\ tail = 0
  /\ maxSerial = 0 /\ minPSExpired = UINT32_MAX /\ maxSExpired = 0
  /\ sessionID = 0 /\ notify = FALSE
  /\ cmd = Idle
  /\ timer = "armed"
  /\ router = [c \in Routers |-> Fresh]

-----------------------------------------------------------------------------
(* Helpers                                                                 *)

(* Between two lock regions of a command the lock is free for the others.  *)
InGap == cmd.pc \in {"write", "count", "remove"}
CanLock(who) == InGap => who \in GapActors

Index(e) == Cardinality({f \in entries : f.pos <= e.pos})

SameCustomer(o, p) == o \in Aspas /\ p \in Aspas /\ o[1] = p[1]

(* A Serial Notify reaches every client of the hash; a router that has not *)
(* spoken yet ignores it, one in another session starts over.              *)
Told(r) ==
  IF ~r.connected \/ r.version = UNDEF \/ ~r.hasData THEN r
  ELSE IF r.session # sessionID THEN [r EXCEPT !.todo = "reset"]
  ELSE IF r.serial # maxSerial /\ r.todo = "none" THEN [r EXCEPT !.todo = "serial"]
  ELSE r
NotifyAll == router' = [c \in Routers |-> Told(router[c])]

-----------------------------------------------------------------------------
(* Console commands                                                        *)

(* append, add, addNow, addKey, addKeyNow: the size is read under the read *)
(* lock, which is then given up to get the write lock.                     *)
AppendBegin(b, now) ==
  /\ "append" \in Commands
  /\ cmd.pc = "idle"
  /\ Cardinality(entries) + Len(b.lines) <= MaxEntries
  /\ maxSerial + Len(b.lines) <= MaxSerial
  /\ cmd' = [Idle EXCEPT !.pc = "write", !.batch = b, !.now = now,
                         !.before = Cardinality(entries)]
  /\ UNCHANGED <<cacheVars, sessionID, notify, timer, router>>

NewEntry(k) ==
  [obj |-> cmd.batch.lines[k], pos |-> tail + k, serial |-> U32(maxSerial + k),
   prevSerial |-> U32(maxSerial + k), announced |-> TRUE, expires |-> 0]

(* The lines before a malformed one stay in the list.                      *)
AppendWrite ==
  /\ cmd.pc = "write"
  /\ entries' = entries \cup {NewEntry(k) : k \in DOMAIN cmd.batch.lines}
  /\ tail' = tail + Len(cmd.batch.lines)
  /\ cmd' = [cmd EXCEPT !.pc = "count"]
  /\ UNCHANGED <<maxSerial, minPSExpired, maxSExpired, sessionID, notify, timer, router>>

(* The entries added are counted by the change of the list's size.         *)
AppendCount ==
  /\ cmd.pc = "count"
  /\ LET added == IF cmd.batch.ok THEN Cardinality(entries) - cmd.before ELSE 0
     IN /\ maxSerial' = U32(maxSerial + added)
        /\ cmd' = [Idle EXCEPT !.pc = "flag", !.added = added,
                               !.now = cmd.now /\ cmd.batch.ok]
  /\ UNCHANGED <<entries, tail, minPSExpired, maxSExpired, sessionID, notify, timer, router>>

(* Bug findASPA could have: it looks for the same object.                  *)
FindSameASPA(o) == {e \in entries : e.obj = o}

(* findASPA: the first entry of the customer, withdrawn or not.            *)
FindASPA(o) ==
  {e \in entries : /\ SameCustomer(e.obj, o)
                   /\ \A f \in entries : SameCustomer(f.obj, o) => e.pos <= f.pos}

(* addASPA, addASPANow: an entry of the same customer is taken out of the  *)
(* list and its serial kept as the previous one.                           *)
AppendASPA(o, now) ==
  /\ "aspa" \in Commands
  /\ cmd.pc = "idle"
  /\ Cardinality(entries) < MaxEntries
  /\ maxSerial < MaxSerial
  /\ LET old == FindASPA(o)
         serial == U32(maxSerial + 1)
         previous == {e.serial : e \in old} \ {0}
     IN \E p \in IF previous = {} THEN {serial} ELSE previous :
          entries' = (entries \ old) \cup
            {[obj |-> o, pos |-> tail + 1, serial |-> serial, prevSerial |-> p,
              announced |-> TRUE, expires |-> 0]}
  /\ tail' = tail + 1
  /\ maxSerial' = U32(maxSerial + 1)
  /\ cmd' = [Idle EXCEPT !.pc = "flag", !.added = 1, !.now = now]
  /\ UNCHANGED <<minPSExpired, maxSExpired, sessionID, notify, timer, router>>

(* remove, removeNow: the indexes are checked under the read lock, which   *)
(* is then given up to get the write lock.                                 *)
RemoveBegin(lo, hi, now) ==
  /\ "remove" \in Commands
  /\ cmd.pc = "idle"
  /\ lo \in 1..Cardinality(entries) /\ hi \in lo..Cardinality(entries)
  /\ maxSerial + (hi - lo) + 1 <= MaxSerial
  /\ cmd' = [Idle EXCEPT !.pc = "remove", !.lo = lo, !.hi = hi, !.now = now]
  /\ UNCHANGED <<cacheVars, sessionID, notify, timer, router>>

(* The entries the loop withdraws: those of the range whose serial never   *)
(* changed.                                                                *)
Removable == {e \in entries : Index(e) \in cmd.lo..cmd.hi /\ e.serial = e.prevSerial}

(* Bugs: the withdrawn entry keeps its place, or never expires.            *)
WithdrawnInPlace(e) ==
  LET k == Cardinality({f \in Removable : f.pos <= e.pos})
  IN [e EXCEPT !.announced = FALSE, !.serial = U32(maxSerial + k),
               !.expires = ExpirationInterval]
WithdrawnForever(e) ==
  LET k == Cardinality({f \in Removable : f.pos <= e.pos})
  IN [e EXCEPT !.announced = FALSE, !.serial = U32(maxSerial + k), !.pos = tail + k]

Withdrawn(e) ==
  LET k == Cardinality({f \in Removable : f.pos <= e.pos})
  IN [e EXCEPT !.announced = FALSE, !.serial = U32(maxSerial + k), !.pos = tail + k,
               !.expires = ExpirationInterval]

(* The loop runs hi - lo + 1 times over the nodes from lo on; the ones it  *)
(* moves to the end it meets again.                                        *)
RemoveOffList == cmd.hi - Cardinality(entries) > Cardinality(Removable)

RemoveWrite ==
  /\ cmd.pc = "remove"
  /\ ~RemoveOffList
  /\ entries' = (entries \ Removable) \cup {Withdrawn(e) : e \in Removable}
  /\ tail' = tail + Cardinality(Removable)
  /\ maxSerial' = U32(maxSerial + Cardinality(Removable))
  /\ cmd' = [Idle EXCEPT !.pc = "flag", !.added = Cardinality(Removable), !.now = cmd.now]
  /\ UNCHANGED <<minPSExpired, maxSExpired, sessionID, notify, timer, router>>

(* getNodeFromSList and getNextNodeOfSListNode return NULL past the end.   *)
RemoveCrash ==
  /\ cmd.pc = "remove"
  /\ RemoveOffList
  /\ cmd' = [Idle EXCEPT !.pc = "crashed"]
  /\ UNCHANGED <<cacheVars, sessionID, notify, timer, router>>

(* Bug: the flag is assigned, also by a removal that removed nothing.      *)
FlagNotifyAssigned ==
  /\ cmd.pc = "flag"
  /\ notify' = (cmd.added # 0)
  /\ cmd' = IF cmd.now THEN [Idle EXCEPT !.pc = "send"] ELSE Idle
  /\ UNCHANGED <<cacheVars, sessionID, timer, router>>

(* After the lock is released: service.notify, then the ...Now commands    *)
(* send the notification at once.                                          *)
FlagNotify ==
  /\ cmd.pc = "flag"
  /\ notify' = (notify \/ cmd.added # 0)
  /\ cmd' = IF cmd.now THEN [Idle EXCEPT !.pc = "send"] ELSE Idle
  /\ UNCHANGED <<cacheVars, sessionID, timer, router>>

SendNow ==
  /\ cmd.pc = "send"
  /\ NotifyAll
  /\ cmd' = Idle
  /\ UNCHANGED <<cacheVars, sessionID, notify, timer>>

NotifyCommand ==
  /\ "notify" \in Commands
  /\ cmd.pc = "idle"
  /\ NotifyAll
  /\ UNCHANGED <<cacheVars, sessionID, notify, cmd, timer>>

ResetCommand ==
  /\ "reset" \in Commands
  /\ cmd.pc = "idle"
  /\ router' = [c \in Routers |->
                  IF router[c].version # UNDEF THEN [router[c] EXCEPT !.todo = "reset"]
                  ELSE router[c]]
  /\ UNCHANGED <<cacheVars, sessionID, notify, cmd, timer>>

(* sessionID <number>: only a number below the current one is refused.     *)
(* The notification is sent next.                                          *)
SessionCommand(id) ==
  /\ "session" \in Commands
  /\ cmd.pc = "idle"
  /\ id # 0
  /\ id >= sessionID
  /\ sessionID' = id
  /\ cmd' = [Idle EXCEPT !.pc = "send"]
  /\ UNCHANGED <<cacheVars, notify, timer, router>>

(* empty: neither the serial number nor the expired window changes.        *)
EmptyCommand ==
  /\ "empty" \in Commands
  /\ cmd.pc = "idle"
  /\ entries' = {}
  /\ tail' = 0
  /\ router' = [c \in Routers |-> [router[c] EXCEPT !.stale = router[c].hasData]]
  /\ UNCHANGED <<maxSerial, minPSExpired, maxSExpired, sessionID, notify, cmd, timer>>

-----------------------------------------------------------------------------
(* Service timer: one period of 60 seconds.  The write lock is held while  *)
(* the expired entries are deleted; service.notify is looked at, and the   *)
(* notification sent, after that.                                          *)

Expired == {e \in entries : e.expires = 1}
Aged(e) == IF e.expires > 1 THEN [e EXCEPT !.expires = @ - 1] ELSE e

DeleteExpired ==
  /\ cmd.pc # "crashed"
  /\ timer = "armed"
  /\ CanLock("timer")
  /\ entries' = {Aged(e) : e \in entries \ Expired}
  /\ \E lo \in {minPSExpired} \cup {e.prevSerial : e \in Expired} :
       /\ lo <= minPSExpired /\ \A e \in Expired : lo <= e.prevSerial
       /\ minPSExpired' = lo
  /\ \E hi \in {maxSExpired} \cup {e.serial : e \in Expired} :
       /\ maxSExpired <= hi /\ \A e \in Expired : e.serial <= hi
       /\ maxSExpired' = hi
  /\ timer' = "expired"
  /\ UNCHANGED <<tail, maxSerial, sessionID, notify, cmd, router>>

(* Bug: the flag is cleared before it is looked at.                        *)
TimerNotifySwapped ==
  /\ cmd.pc # "crashed"
  /\ timer = "expired"
  /\ notify' = FALSE
  /\ timer' = IF notify' THEN "send" ELSE "armed"
  /\ UNCHANGED <<cacheVars, sessionID, cmd, router>>

TimerNotify ==
  /\ cmd.pc # "crashed"
  /\ timer = "expired"
  /\ timer' = IF notify THEN "send" ELSE "armed"
  /\ notify' = FALSE
  /\ UNCHANGED <<cacheVars, sessionID, cmd, router>>

TimerSend ==
  /\ cmd.pc # "crashed"
  /\ timer = "send"
  /\ CanLock("timer")
  /\ NotifyAll
  /\ timer' = "armed"
  /\ UNCHANGED <<cacheVars, sessionID, notify, cmd>>

-----------------------------------------------------------------------------
(* Connections and queries                                                 *)

Connect(c) ==
  /\ cmd.pc # "crashed"
  /\ ~router[c].connected
  /\ router' = [router EXCEPT ![c].connected = TRUE, ![c].version = UNDEF]
  /\ UNCHANGED <<cacheVars, sessionID, notify, cmd, timer>>

Closed(r) == [r EXCEPT !.connected = FALSE, !.version = UNDEF, !.query = "none", !.todo = "none"]

Disconnect(c) ==
  /\ router[c].connected
  /\ router' = [router EXCEPT ![c] = Closed(router[c])]
  /\ UNCHANGED <<cacheVars, sessionID, notify, cmd, timer>>

(* The highest version the cache speaks (RPKI_RTR_PROTOCOL_VERSION).       *)
CacheVersion == 2

(* handleClient up to the call of sendCacheObjects, which clears           *)
(* service.notify before it asks for the lock.                             *)
Query(c, kind) ==
  /\ cmd.pc # "crashed"
  /\ router[c].connected
  /\ router[c].query \in {"none", "ignored"}
  /\ kind = "serial" => router[c].hasData /\ router[c].todo # "reset"
  /\ \/ router[c].todo = kind
     \/ \A o \in Payloads : router[c].view[o] <= MaxEntries  \* bound: copies held
  /\ IF RouterVersion[c] > CacheVersion
     THEN /\ router' = [router EXCEPT ![c] = Closed(router[c])]
          /\ UNCHANGED notify
     ELSE /\ router' = [router EXCEPT ![c].version = RouterVersion[c],
                                      ![c].query = kind, ![c].todo = "none"]
          /\ notify' = FALSE
  /\ UNCHANGED <<cacheVars, sessionID, cmd, timer>>

(* Bug: the oldest serial of the range is left out.                        *)
CheckSerialExclusive(min, max, s) ==
  IF min < max THEN min < s /\ s <= max ELSE ~(s < min) /\ s > max

(* True for the serials that get a Cache Reset.                            *)
CheckSerial(min, max, s) ==
  IF min < max THEN min <= s /\ s <= max ELSE ~(s < min) /\ s > max

(* Keys need version 1, ASPA objects version 2.                            *)
Visible(o, v) == (o \in RouterKeys => v >= 1) /\ (o \in Aspas => v >= 2)

(* Bug: withdrawals are sent whether or not the router heard of the entry. *)
SentUnasked(isReset, s, v) ==
  {e \in entries :
     /\ isReset \/ \E f \in entries : f.pos <= e.pos /\ f.serial > s
     /\ isReset => e.announced
     /\ Visible(e.obj, v)}

(* Bug: off by one.                                                        *)
SentFromSecond(isReset, s, v) ==
  {e \in entries :
     /\ isReset \/ \E f \in entries : f.pos <= e.pos /\ f.serial > s + 1
     /\ isReset => e.announced
     /\ ~(e.serial # e.prevSerial /\ e.prevSerial > s)
     /\ Visible(e.obj, v)}

(* The entries sent: all from the first with a newer serial on, less the   *)
(* ones not announced (reset) and the ones taken for never announced to    *)
(* this client.                                                            *)
Sent(isReset, s, v) ==
  {e \in entries :
     /\ isReset \/ \E f \in entries : f.pos <= e.pos /\ f.serial > s
     /\ isReset => e.announced
     /\ ~(e.serial # e.prevSerial /\ e.prevSerial > s)
     /\ Visible(e.obj, v)}

(* The router's data after the PDUs for the entries in P.                  *)
Applied(view, P) ==
  [o \in Payloads |->
     IF o \in Aspas
     THEN IF \E e \in P : SameCustomer(e.obj, o)
          THEN IF \E e \in P : e.obj = o /\ e.announced THEN 1 ELSE 0
          ELSE view[o]
     ELSE view[o] + Cardinality({e \in P : e.obj = o /\ e.announced})
                  - Cardinality({e \in P : e.obj = o /\ ~e.announced})]

WrongSession(c) == router[c].query = "serial" /\ router[c].session # sessionID
NeedsReset(c) ==
  /\ router[c].query = "serial"
  /\ CheckSerial(minPSExpired, maxSExpired, router[c].serial)

(* Another session: dropSession finds no client and sends nothing.         *)
RespondWrongSession(c) ==
  /\ cmd.pc # "crashed" /\ CanLock("client")
  /\ WrongSession(c)
  /\ router' = [router EXCEPT ![c].query = "ignored"]
  /\ UNCHANGED <<cacheVars, sessionID, notify, cmd, timer>>

RespondCacheReset(c) ==
  /\ cmd.pc # "crashed" /\ CanLock("client")
  /\ ~WrongSession(c)
  /\ NeedsReset(c)
  /\ router' = [router EXCEPT ![c].query = "none", ![c].todo = "reset"]
  /\ UNCHANGED <<cacheVars, sessionID, notify, cmd, timer>>

(* sendEndOfData sends nothing to a version 0 client, which therefore      *)
(* never gets to use the data.                                             *)
RespondData(c) ==
  /\ cmd.pc # "crashed" /\ CanLock("client")
  /\ router[c].query \in {"reset", "serial"}
  /\ ~WrongSession(c) /\ ~NeedsReset(c)
  /\ LET r == router[c]
         isReset == r.query = "reset"
         base == IF isReset THEN Fresh.view ELSE r.view
         sent == Sent(isReset, IF isReset THEN 0 ELSE r.serial, r.version)
     IN router' = [router EXCEPT ![c] =
          IF r.version = 0 THEN [r EXCEPT !.query = "ignored"]
          ELSE [r EXCEPT !.query = "none", !.hasData = TRUE, !.session = sessionID,
                         !.serial = maxSerial, !.view = Applied(base, sent),
                         !.stale = @ /\ ~isReset]]
  /\ UNCHANGED <<cacheVars, sessionID, notify, cmd, timer>>

-----------------------------------------------------------------------------
Console ==
  \/ \E b \in Batches, now \in BOOLEAN : AppendBegin(b, now)
  \/ AppendWrite
  \/ AppendCount
  \/ \E o \in Aspas, now \in BOOLEAN : AppendASPA(o, now)
  \/ \E lo, hi \in 1..MaxEntries, now \in BOOLEAN : RemoveBegin(lo, hi, now)
  \/ RemoveWrite
  \/ RemoveCrash
  \/ FlagNotify
  \/ SendNow
  \/ NotifyCommand
  \/ ResetCommand
  \/ \E id \in 0..MaxSession : SessionCommand(id)
  \/ EmptyCommand

Client(c) ==
  \/ Connect(c)
  \/ Disconnect(c)
  \/ \E kind \in {"reset", "serial"} : Query(c, kind)
  \/ RespondWrongSession(c)
  \/ RespondCacheReset(c)
  \/ RespondData(c)

ServiceTimerExpired == DeleteExpired \/ TimerNotify \/ TimerSend

Next == Console \/ ServiceTimerExpired \/ \E c \in Routers : Client(c)

Spec == Init /\ [][Next]_vars

(* The console thread finishes a command it has begun, the timer goes on   *)
(* firing, a client thread answers, and a router does what it was told to. *)
(* Timer and client threads have to get a lock that is free time and       *)
(* again: strong fairness.                                                 *)
Liveness ==
  /\ WF_vars(AppendWrite) /\ WF_vars(AppendCount) /\ WF_vars(RemoveWrite)
  /\ WF_vars(FlagNotify) /\ WF_vars(SendNow)
  /\ SF_vars(DeleteExpired) /\ WF_vars(TimerNotify) /\ SF_vars(TimerSend)
  /\ \A c \in Routers :
       /\ SF_vars(RespondWrongSession(c) \/ RespondCacheReset(c) \/ RespondData(c))
       /\ WF_vars(router[c].todo # "none" /\ Query(c, router[c].todo))
FairSpec == Spec /\ Liveness

-----------------------------------------------------------------------------
(* Properties                                                              *)

(* The list never holds two entries of one customer: readASPAData replaces *)
(* whatever findASPA finds, a withdrawn entry too, because a router keeps  *)
(* one ASPA object per customer.                                           *)
OneAspaPerCustomer ==
  \A e, f \in entries : SameCustomer(e.obj, f.obj) => e = f

(* Serial numbers grow along the list and none is beyond cache.maxSerial   *)
(* once a command has counted what it added: the query loop of             *)
(* sendCacheObjects sends everything behind the first newer serial.        *)
SerialsFollowList ==
  /\ \A e, f \in entries : e.pos < f.pos => e.serial < f.serial
  /\ cmd.pc # "count" => \A e \in entries : e.serial <= maxSerial

Announced(o) == Cardinality({e \in entries : e.obj = o /\ e.announced})

(* The router has been answered and nothing changed since.                 *)
Synced(c) ==
  /\ router[c].hasData /\ router[c].session = sessionID
  /\ router[c].serial = maxSerial /\ ~router[c].stale

(* A router whose serial is the cache's holds exactly the ROAs and keys    *)
(* announced, whatever it missed in between: the withdrawals come with     *)
(* their own serials, and a router too old for the ones already expired is *)
(* told to start over.                                                     *)
SyncedRoutersAgree ==
  ~InGap =>
    \A c \in Routers : Synced(c) =>
      \A o \in Roas \cup RouterKeys :
        router[c].view[o] = IF Visible(o, RouterVersion[c]) THEN Announced(o) ELSE 0

(* No router is sent a withdrawal of something it was not announced        *)
(* (error 6 of the protocol, fatal to the session).                        *)
NoUnknownWithdrawal ==
  \A c \in Routers, o \in Payloads : router[c].view[o] >= 0

(* Right after an answer the router has every announced ASPA object, but   *)
(* for those that replaced another one of their customer: the code takes   *)
(* them for never announced and leaves them out.                           *)
Lacks(c, e) == Visible(e.obj, router[c].version) /\ router'[c].view[e.obj] = 0
AnswersLackOnlyReplaced ==
  [][\A c \in Routers : RespondData(c) /\ router[c].version > 0 /\ ~router'[c].stale =>
       \A e \in entries : e.obj \in Aspas /\ e.announced /\ Lacks(c, e) =>
         e.serial # e.prevSerial]_vars

(* A connected router that is behind will hear of it: the notification is  *)
(* pending, about to be, or the router is already asking.                  *)
Behind(c) ==
  /\ router[c].connected /\ router[c].version # UNDEF
  /\ router[c].hasData /\ router[c].session = sessionID
  /\ router[c].serial # maxSerial
BehindIsNotified ==
  \A c \in Routers : Behind(c) =>
    \/ notify \/ timer = "send"
    \/ cmd.pc \in {"flag", "send"}
    \/ router[c].todo # "none"
    \/ router[c].query \in {"reset", "serial"}

(* And it catches up, or goes away, unless a removal crashed the server.   *)
CatchesUp == \A c \in Routers : Behind(c) ~> ~Behind(c) \/ cmd.pc = "crashed"

=============================================================================
