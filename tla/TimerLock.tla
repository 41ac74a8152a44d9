------------------------------ MODULE TimerLock ------------------------------
(***************************************************************************)
(* The cache lock of brio_rc (rwlock.c, a pthread_rwlock_t), the threads   *)
(* that take it (rpkirtr_svr.c) and the service timer (timer.c), whose     *)
(* callback runs in the handler of SIGALRM, on top of whatever the thread  *)
(* that the signal hits is doing.                                          *)
(*                                                                         *)
(* A command, a query or a callback is the sequence of its calls on the    *)
(* lock; the work between two calls is the time between two steps.         *)
(***************************************************************************)
EXTENDS ServiceTimer, Sequences, FiniteSets

CONSTANTS
  Clients,       \* the client threads; the console is one more thread
  MaxUnlocks     \* bound: unlocks of a lock that nobody holds

ASSUME ClientThreads == IsFiniteSet(Clients) /\ Clients \cap {"console", "nobody"} = {}
ASSUME UnlockBound == MaxUnlocks \in Nat

Threads == Clients \cup {"console"}
Nobody  == "nobody"

(* Who claims the lock: a thread's own code or the handler on top of it.   *)
NoClaim == <<Nobody, FALSE>>

VARIABLES
  readers,   \* the lock: its count of readers, which an unlock too many makes negative
  writer,    \* the lock: the thread that has it for writing
  claim,     \* the lock: the writer that waits for the readers to leave
  calls,     \* per thread: the calls it has still to make
  handler,   \* per thread: the calls left to the handler that interrupts it
  reading,   \* per thread: the read sections it is in, by its own code
  writing,   \* per thread: the write sections it is in, by its own code
  spoiled    \* history: a signal hit a thread in a write section, or reset was given

lock == <<readers, writer, claim>>
sectionVars == <<calls, handler, reading, writing, spoiled>>
lockVars == <<timerVars, lock, sectionVars>>

-----------------------------------------------------------------------------
(* Bugs: the read lock is kept; the read lock is not taken again.          *)
UpgradeKeepsRead == <<"write">>
DowngradeForgotten == <<"unlockWrite">>

(* rwlock.c: there is no upgrade, the lock is given up and taken again.    *)
changeReadToWriteLock == <<"unlockRead", "write">>
changeWriteToReadLock == <<"unlockWrite", "read">>

(* The calls of the console's commands, of a query (dropSession takes the  *)
(* lock once more), and of the timer's callback.  What only reads the list *)
(* makes the calls of printCache: sendSerialNotifyToAllClients, a removal  *)
(* whose indexes are refused.                                              *)
appendPrefixData ==
  <<"read">> \o changeReadToWriteLock \o changeWriteToReadLock \o <<"unlockRead">>
processEntryRemoval == <<"read">> \o changeReadToWriteLock \o <<"unlockWrite">>
printCache == <<"read", "unlockRead">>
emptyCache == <<"write", "unlockWrite">>
sendCacheResetToAllClients == <<"unlockRead">>
Commands ==
  {appendPrefixData, processEntryRemoval, printCache, emptyCache, sendCacheResetToAllClients}

dropSession == printCache
sendCacheObjects == {printCache, <<"read">> \o dropSession \o <<"unlockRead">>}

deleteExpiredEntriesFromCache == emptyCache
serviceTimerExpired ==
  {deleteExpiredEntriesFromCache, deleteExpiredEntriesFromCache \o printCache}

-----------------------------------------------------------------------------
LockInit ==
  /\ TimerInit
  /\ readers = 0 /\ writer = Nobody /\ claim = NoClaim
  /\ calls = [t \in Threads |-> <<>>]
  /\ handler = [t \in Threads |-> <<>>]
  /\ reading = [t \in Threads |-> 0]
  /\ writing = [t \in Threads |-> 0]
  /\ spoiled = FALSE

(* What a thread executes: the handler, if one interrupted it.             *)
Todo(t) == IF handler[t] # <<>> THEN handler[t] ELSE calls[t]
NextIs(t, op) == Todo(t) # <<>> /\ Head(Todo(t)) = op
Advance(t) ==
  IF handler[t] # <<>>
  THEN handler' = [handler EXCEPT ![t] = Tail(@)] /\ UNCHANGED calls
  ELSE calls' = [calls EXCEPT ![t] = Tail(@)] /\ UNCHANGED handler

-----------------------------------------------------------------------------
(* The lock, as glibc has it with default attributes: readers get in while *)
(* writers wait, until the last reader leaves it to the writer that claims *)
(* it; a claim keeps other writers out.  The thread that has the lock for  *)
(* writing is refused (EDEADLK), as is a reader when the count is out of   *)
(* range (EAGAIN).  No caller looks at the result: refused or not, it goes *)
(* on.  After an unlock too many (readers below 0) a writer may get in or  *)
(* wait for ever.                                                          *)
Refused(t) == writer = t
Self(t) == <<t, handler[t] # <<>>>>
CanRead(t) == Refused(t) \/ (writer = Nobody /\ (claim = NoClaim \/ readers > 0))
CanWrite(t) ==
  Refused(t) \/ (writer = Nobody /\ readers <= 0 /\ claim \in {NoClaim, Self(t)})

acquireReadLock(t) ==
  /\ NextIs(t, "read")
  /\ CanRead(t)
  /\ readers' = IF Refused(t) \/ readers < -1 THEN readers ELSE readers + 1
  /\ reading' = [reading EXCEPT ![t] = @ + 1]
  /\ Advance(t)
  /\ UNCHANGED <<timerVars, writer, claim, writing, spoiled>>

ClaimWriteLock(t) ==
  /\ NextIs(t, "write")
  /\ writer = Nobody /\ claim = NoClaim /\ readers > 0
  /\ claim' = Self(t)
  /\ UNCHANGED <<timerVars, readers, writer, sectionVars>>

acquireWriteLock(t) ==
  /\ NextIs(t, "write")
  /\ CanWrite(t)
  /\ writer' = t
  /\ claim' = NoClaim
  /\ writing' = [writing EXCEPT ![t] = @ + 1]
  /\ Advance(t)
  /\ UNCHANGED <<timerVars, readers, reading, spoiled>>

(* pthread_rwlock_unlock: the writer's lock if the caller is the writer,   *)
(* else one reader less, whoever that reader is.                           *)
Released(t) ==
  IF writer = t THEN writer' = Nobody /\ UNCHANGED readers
  ELSE readers' = readers - 1 /\ UNCHANGED writer

unlockReadLock(t) ==
  /\ NextIs(t, "unlockRead")
  /\ readers > -MaxUnlocks \/ writer = t
  /\ Released(t)
  /\ reading' = [reading EXCEPT ![t] = IF @ > 0 THEN @ - 1 ELSE 0]
  /\ Advance(t)
  /\ UNCHANGED <<timerVars, claim, writing, spoiled>>

unlockWriteLock(t) ==
  /\ NextIs(t, "unlockWrite")
  /\ readers > -MaxUnlocks \/ writer = t
  /\ Released(t)
  /\ writing' = [writing EXCEPT ![t] = @ - 1]
  /\ Advance(t)
  /\ UNCHANGED <<timerVars, claim, reading, spoiled>>

-----------------------------------------------------------------------------
Command ==
  /\ phase = "running"
  /\ calls["console"] = <<>> /\ handler["console"] = <<>>
  /\ \E c \in Commands :
       /\ calls' = [calls EXCEPT !["console"] = c]
       /\ spoiled' = (spoiled \/ c = sendCacheResetToAllClients)
  /\ UNCHANGED <<timerVars, lock, handler, reading, writing>>

Query(t) ==
  /\ phase # "new"
  /\ t \in Clients
  /\ calls[t] = <<>> /\ handler[t] = <<>>
  /\ \E q \in sendCacheObjects : calls' = [calls EXCEPT ![t] = q]
  /\ UNCHANGED <<timerVars, lock, handler, reading, writing, spoiled>>

(* Whatever the thread does, inside the lock or waiting for it.  SIGALRM   *)
(* is blocked in a thread while it handles one; the alarm is set again     *)
(* before the callback, so another thread may be hit meanwhile.            *)
Interrupt(t) ==
  /\ alarmSignal
  /\ handler[t] = <<>>
  /\ \E h \in serviceTimerExpired : handler' = [handler EXCEPT ![t] = h]
  /\ spoiled' = (spoiled \/ writing[t] > 0)
  /\ UNCHANGED <<lock, calls, reading, writing>>
Alarm == \E t \in Threads : Interrupt(t)

Time == (setupService \/ Tick) /\ UNCHANGED <<lock, sectionVars>>
Exit ==
  /\ calls["console"] = <<>> /\ handler["console"] = <<>>
  /\ deleteAllTimers
  /\ UNCHANGED <<lock, sectionVars>>
LateAlarm == AlarmAfterRelease /\ UNCHANGED <<lock, sectionVars>>

LockNext ==
  /\ ~crashed
  /\ \/ Time \/ Alarm \/ Exit \/ LateAlarm
     \/ Command
     \/ \E t \in Threads :
          \/ Query(t)
          \/ acquireReadLock(t) \/ unlockReadLock(t)
          \/ ClaimWriteLock(t) \/ acquireWriteLock(t) \/ unlockWriteLock(t)

LockSpec == LockInit /\ [][LockNext]_lockVars

(* Time passes, a raised signal finds a thread in the end, and a thread    *)
(* goes on.  Who waits for the lock is woken by the one that frees it, the *)
(* last reader a writer and a writer the readers: strong fairness.         *)
LockFairness ==
  /\ WF_lockVars(Time) /\ SF_lockVars(Alarm)
  /\ \A t \in Threads :
       /\ SF_lockVars(acquireReadLock(t)) /\ SF_lockVars(acquireWriteLock(t))
       /\ WF_lockVars(ClaimWriteLock(t))
       /\ WF_lockVars(unlockReadLock(t)) /\ WF_lockVars(unlockWriteLock(t))
FairLockSpec == LockSpec /\ LockFairness

-----------------------------------------------------------------------------
(* Properties                                                              *)

(* acquireWriteLock "blocks until all existing read and write locks are    *)
(* unlocked" (rwlock.h), those of the same thread included: who changes    *)
(* the list is alone with it.                                              *)
WriteLockExcludes ==
  \A t \in Threads : writing[t] > 0 =>
    /\ writing[t] = 1 /\ reading[t] = 0
    /\ \A u \in Threads \ {t} : writing[u] = 0 /\ reading[u] = 0

(* And so it is whatever the signals interrupt, threads that read and      *)
(* threads that wait among them, until one hits a thread that writes or    *)
(* the console's reset gives up a lock it never took.                      *)
WriterIsAlone == ~spoiled => WriteLockExcludes

(* Nobody waits in a circle but a callback that waits for the thread it    *)
(* interrupted, one that reads or that claims the lock: who waits for the  *)
(* lock waits for another thread, inside it or next to be, that goes on,   *)
(* or for one that such a callback stands on.                              *)
Waits(t) ==
  \/ NextIs(t, "read")  /\ ~CanRead(t)
  \/ NextIs(t, "write") /\ ~CanWrite(t)
Inside(t) == reading[t] + writing[t] > 0 \/ claim = Self(t)
WaitsForItself(t) ==
  /\ handler[t] # <<>> /\ NextIs(t, "write")
  /\ reading[t] > 0 \/ claim = <<t, FALSE>>
SomeoneLetsGo ==
  ~spoiled => \A t \in Threads : Waits(t) =>
    \/ \E u \in Threads \ {t} : Inside(u) /\ ~Waits(u)
    \/ \E u \in Threads : WaitsForItself(u)

(* The service timer is active for good, so it "will fire in the future"   *)
(* (isActiveTimer), and its callback gets the lock: expired entries are    *)
(* deleted again and again, unless the program ends, a callback waits for  *)
(* the thread it interrupted, or the lock is spoiled.                      *)
ExpiredDeleted == \E t \in Threads : handler[t] # <<>> /\ acquireWriteLock(t)
ServiceRuns ==
  \/ []<><<ExpiredDeleted>>_lockVars
  \/ <>(phase = "released" \/ spoiled \/ \E t \in Threads : WaitsForItself(t))

=============================================================================
