# A TLA+ development for NIST BRIO

BRIO is a test tool for BGP, BGPsec and the RPKI-to-Router protocol. It consists of
two programs and a crypto library:

* `brio_rc`, a test harness for an RPKI validation cache: an operator types ROAs, router
  keys and ASPA objects at a console, routers connect and are served over the RTR protocol;
* `brio_tg`, a traffic generator: one or more BGP sessions to a router under test, over
  which prepared (BGPsec signed) updates are sent;
* `srx-crypto-api` with its plug-in `bgpsec_openssl`: key storage, signing, validation.

All paths below are relative to `src/`. The models are translated from the C code;
this file says what is modelled, what is checked, what is proved and what is not.

## 1. Inventory

| Component | State | Operations | Interacts with | Hard parts |
|---|---|---|---|---|
| RTR cache, `bgprpki-io/rpki-rtr-protocol/rpkirtr_svr.c` | `cache.entries` (a list in serial order), `maxSerial`, `minPSExpired`, `maxSExpired`, `sessionID`, `service.notify` | console commands `append`, `add*`, `addASPA*`, `remove*`, `empty`, `notify`, `reset`, `sessionID`; answers to Serial and Reset Query | service timer, client threads, all through `cache.lock` and the unlocked `service.notify` | the lock "upgrade" of `rwlock.c` gives the lock up; `service.notify` is one flag for all routers, read and written without a lock; a list that is renumbered by withdrawals |
| RTR service timer, the same file and `srx-common/timer.c` | the expiry time of withdrawn entries; the next time, the alarm | deletes what expired, moves the expired window, sends the pending Serial Notify; sets the alarm again | cache, clients | a signal handler that takes the cache's lock; a handler that comes late |
| Cache lock, `srx-common/rwlock.c` | a `pthread_rwlock_t` | read and write lock, their unlocks, upgrade and downgrade | console, client threads, the timer's handler on any of them | no caller looks at a result; an unlock says nothing of whose lock it is |
| RTR server sockets, `srx-common/srx/server_socket.c` | hash of clients, one thread per client | accept, broadcast, close | cache (`handleClient`, `handleStatus`) | the hash is shared without a lock, descriptors are reused |
| BGP session, `bgprpki-io/bgp/BGPSession.c`, `BGPFinalStateMachine.c`, `bgpsecio.c` | state of the state machine, retry counter, `run`, `tcpConnected`, `sessionFD`, a semaphore | establish, hold-time loop, receiver loop, sending of updates, stop | the peer; session, receiver and traffic threads | three threads over one unlocked struct; each `read`, `write`, `poll` can fail in several ways |
| BGP hold time loop, the same files | `lastSent`, `lastReceived` | keep-alive, sleep, give up | receiver and traffic threads, which move the time stamps | the length of the sleep is fixed before time stamps move |
| Key storage, `srx-crypto-api/bgpsec_openssl/key_storage.c` | 256 buckets by the bytes of the AS number, each a doubly linked list ordered by AS number; an element holds all keys of one AS number and SKI | store, delete, delete by source, get, empty | `bgpsec_openssl.c`; converts keys to the OpenSSL form | back pointers that are missing; colliding keys; a key that cannot be converted |
| Signing and validation, `bgpsec_openssl.c` | none beyond the key storage | init, sign, validate, (un)register keys | key storage, OpenSSL | choice between several keys of one AS and SKI |
| SRx Crypto API, `srx-crypto-api/srxcryptoapi.c`, `crypto_imple.c` | the table of functions of the loaded plug-in | load, map, hash message generation, key files | dlopen, plug-ins | hash message walks a path attribute |
| BGPsec path attribute, `bgpsec/BGPSecPathBin.c`, `ASList.c`, `bgpsecio.c` (`_runCAPI`) | list of keys by AS number; `pubKey`, `pubKeysStored`, `fakeUsed` of the session's `algoParam` | generate the path, sign from the origin on, note and register keys, validate | crypto API, key files | lengths computed in two places; signatures that cannot be made half way; state that outlives an update |
| AS path tokenizer, update stack, lists | strings, stacks | expand `10p3 20`, push, pop | traffic thread | boundaries |
| Updates of `brio_tg`, `updateStackUtil.c`, `antd-util/stack.c`, `linked_list.c` | one stack for the parameters, one for all sessions, one per session, and standard input | push, pop, join, copy | configuration, traffic thread | the join works on the links of the list, past its functions |
| Configuration, `cfg/configuration.c`, `cfg/cfgFile.c` | `params` with its sessions | read a file, take the command line, check, generate a file | all of `brio_tg` | the order of options, files and defaults |
| Program `brio_tg`, `bgpsecio.c` | mode, counters, exit status | main, check of the settings, modes CAPI, GEN and BGP | configuration, player, session, crypto API | one loop per mode over the same stack |
| Player, `player/player.c` | files of records | store, load the next record that fits | modes of `brio_tg` | records of several sessions in a file |
| BGP messages, `bgp/BGPHeader.c`, `BGPSession.c`, and printers, `bgp/printer/*` | `peerCap`, hold time, the traffic thread's buffer | build OPEN, KEEPALIVE, NOTIFICATION, UPDATE; read the peer's OPEN; walk and print a message | session, traffic thread | many lengths in one, two and three bytes, computed apart from what they are the lengths of |
| Test plug-ins, tools | none | | | |

What makes each of them correct:

* **RTR cache**: serials grow along the list; a router whose serial is the cache's serial
  holds exactly what the cache announces; a router that is behind is told; no router is
  sent a withdrawal of something it never had; one entry per ASPA customer.
* **Timer**: withdrawn entries are forgotten only together with the serials that need them; the
  service is called as long as the program runs.
* **Cache lock**: who changes the list is alone with it; nobody waits for himself.
* **Server sockets**: a broadcast reaches each live client once, and no dead one.
* **BGP session**: no session without an acceptable OPEN; a lost or stopped session ends
  all three threads; no thread waits for one that will not end.
* **Hold time**: a keep-alive goes out within the peer's hold time, a silent peer is noticed.
* **Key storage**: what is registered and not deleted is found, what is deleted is not;
  buckets stay ordered and without duplicates.
* **Signing and validation**: a signature verifies if one of the matching keys verifies it.
* **SRx Crypto API**: a handle is given back whatever failed; an object that was initialized can
  be used; the plug-in has the keys that its own configuration lists.
* **Updates and configuration**: each update given is played once and in order; BGPsec is off where
  it is switched off; a generated file is accepted.
* **Messages**: what is written reads back by its own lengths; nothing is sent that this connection's
  OPENs did not agree on.
* **Path, tokenizer, lists**: the bytes hashed by signer and validator are the same; the
  expansion is the one of the reference definition.

## 2. Models

| Module | What it models | Composes |
|---|---|---|
| `RtrCache` | the list of the cache, console, timer, queries, routers | server sockets by their effect only |
| `KeyRegistry` | abstract: the set of keys that can be found under their AS number and SKI | |
| `KeyStorage` | the buckets of the key storage, element by element, and the choice of a key in `validate` | refines `KeyRegistry` |
| `RtrServer` | connections of `brio_rc`: server loop, client threads, the hash of clients, a message to all | leaves the cache's data to `RtrCache` |
| `ServiceTimer` | the alarm of the service timer in seconds, from its setup to its deletion | leaves the callback to `RtrCache` and `TimerLock` |
| `TimerLock` | `cache.lock`, the calls on it by commands, queries and the callback, and the signal handler on top of a thread | `ServiceTimer`; leaves the data to `RtrCache` |
| `HoldTimer` | `fsmRunHoldTimeLoop` in seconds | |
| `BgpSession` | a session, its three threads and the peer | leaves the time open that `HoldTimer` has |
| `Sums` | pure: lengths added up | |
| `SecurePath` | pure: AS path to segments, list of keys, signing, lengths, hash messages, validation | |
| `CryptoApi` | objects of the SRx Crypto API, plug-ins, configurations and key files | the key storage by what `KeyRegistry` promises |
| `UpdateStack` | pure: the list under the stacks of updates, with its tail pointer and counter | |
| `Player` | pure: files of generated records | |
| `Config` | pure: configuration file, command line, scripted updates, the generated file | `UpdateStack` |
| `BrioTg` | `main` of `brio_tg` with its modes, started several times | `Config`, `Player`; the session by its life only |
| `OpenMessage` | pure: OPEN, KEEPALIVE, NOTIFICATION, how they are read and printed | |
| `UpdateMessage` | pure: path attributes and UPDATEs, how the printer walks them | `SecurePath`, `OpenMessage` |
| `BgpMessages` | what one session says and hears over several connections, and the updates it sends | `UpdateMessage`; the threads are in `BgpSession` |
| `CapiRun` | `_runCAPI`: one update after the other is signed, its keys registered, and validated | `SecurePath` |

`MCRtrCache`, `MCRtrServer`, `MCKeyStorage`, `MCCapiRun`, `MCCryptoApi`, `MCBrioTg` and `MCBgpMessages`
hold the small instances. The theorems are in eight modules: `RtrCacheProofs` (on `RtrCache`), `RtrServerProofs`
(`RtrServer` and `TimerLock`), `CryptoProofs` (`KeyStorage` and `CryptoApi`), `ModesProofs` (`CapiRun`, `BgpSession` and
`HoldTimer`: what `brio_tg` does in its modes CAPI and BGP), `BgpMessagesProofs` and `BrioTgProofs`. The lemmas about paths,
key lists and attributes that `ModesProofs` and `BgpMessagesProofs` share are in `SecurePathProofs`; sums, flattened
sequences and induction by the least counterexample are in `SequenceLemmas`.

### RtrCache

The list is a set of entries with a position. New and moved entries get a position behind
all others; `Index` recovers the console's index. An entry has the serial, the previous
serial, whether it is announced, and how many timer periods are left to it.

The granularity is the lock. `rwlock.c` upgrades a read lock by unlocking and locking
again, so `append` has three regions (read the size, write the lines, count the new size)
and `remove` two (check the index, move the entries). Setting `service.notify` and
sending are steps of their own, because they run outside of the lock. The constant
`GapActors` says which of client threads and timer get the lock in those gaps: the
properties that hold with an empty `GapActors` and fail otherwise show what the gaps cost.

A router is modelled by its connection, its query, and the data it holds, a count of
announcements minus withdrawals per payload, since a ROA may be listed several times. Each
router follows RFC 8210: a Serial Query after a Serial Notify with another serial, a Reset
Query after a Cache Reset.

Not in the model: parsing of lines and files (an input is a sequence of payloads that ends
well or with a malformed line), printing, versions of PDUs beyond the choice of what is
visible to which version, the socket layer, the signal handler's choice of thread (see `TimerLock`).

### ServiceTimer and TimerLock

In `ServiceTimer`, `ahead` is `t->future - time(NULL)`, `alarm` what is left on `ITIMER_REAL`. Whole
seconds are enough: the time is cut to seconds where the timer is set and where it goes off. `MaxLate`
bounds how late a handler may run after the process was stopped or the clock was set. `clearAlarm` passes
memory it did not initialize, so its outcome is either of the two that the kernel has for it; a handler
behind `deleteAllTimers` uses the released list and may crash (`AlarmAfterRelease`).

`TimerLock` adds the threads. A command, a query and the timer's callback are sequences of calls on the
lock (`"read"`, `"unlockRead"`, `"write"`, `"unlockWrite"`); `changeReadToWriteLock` is two of them. Each
thread has the calls left to it and, on top, those of a handler that interrupts it (`Interrupt`). The lock is
glibc's with default attributes, external to the repository: a count of readers without their names,
and the thread that writes. It lets readers in while writers wait, one of which may already have claimed the lock (`claim`,
`ClaimWriteLock`) and then keeps other writers out until the last reader leaves it the lock; it refuses the writer's own
calls, and on an unlock takes one reader off, whoever it is. `reading` and `writing` are what the code
believes: the sections a thread has entered and not left, since no result of the lock is looked at.
Nothing limits the signals or the commands: a handler may interrupt any thread anywhere, inside a section or while it waits, and
`reset` is a command like the others. `spoiled` records that a signal hit a thread in a write
section, or that `reset` was given: from then on nothing is claimed of the lock.

Not in the model: `malloc` and `printf` in the handler; creation and release of the lock; several timers, `stopTimer`,
`deleteTimer`, `startAbsoluteTimer`, which nobody calls.

### RtrServer

A connection is named by a model value; its `CacheClient`, its thread and its descriptor are
functions of it. Descriptors are numbers, and `accept` gives the smallest free one, as POSIX
says: that is what makes a descriptor come back while somebody still holds it. `order` is
the list of the hash (`Find` takes the youngest of a number, as uthash puts new entries in front of
their bucket), and each uthash macro is one step: what a half-done macro lets another thread
see is left out. The end of a thread has the steps of the code: close or not, look up and
unlink (`StatusLost`), overwrite with zeroes (`Wipe`).

A message to all is a walk: send, follow the pointer. `due` records who should get it and
did, and is dropped when some client leaves during the walk. `early` records that `accept`
handed out a descriptor while its former thread, or the hash, still had it. The properties are about the time before; what comes after is in section 4.

Not in the model: `stopServerLoop`, which only a program with another loop than `brio_rc`
could call in time; more than one message to all at a time; failed allocations; the modes
for one and for many clients of the SRx proxy; the console's `error` command.

### KeyStorage and KeyRegistry

The storage is a function from buckets to lists. A list is a sequence, and each element says
whether its back pointer is set (`back`): the code leaves it NULL where it appends behind an
element of the same AS number, and a removal takes an element without a back pointer for the
head. `Materials` are the keys' contents, `Bad` those that OpenSSL refuses to convert, `Hole`
is the NULL that removing one of several keys leaves in the array (`Without`). A step that
follows a NULL pointer sets `crashed`. `KeyRegistry` is what the plug-in promises its callers:
a set of keys and the request answered last (`asked`: register or unregister, and which keys). When a call returns, the
keys of its request are in the set, or out of it, and no other key has come. None other has gone either as long
as `exact` holds, which the storage maps to `Linked`: all back pointers set, one key per element. The request is made of the
call's arguments, never of the outcome: `StoreKey` asks for its key, if that can be used and its algorithm is the storage's
(or its AS number belongs to bucket 0 anyway), `DeleteName` for all keys of a name, `DeleteKey` for the one with that data,
cleaning and a new `init` for all. A call that finds nothing to do answers a request too, and must then find it fulfilled.

### HoldTimer

Times are ages: seconds since something was last sent and received. The loop wakes up,
sends a keep-alive when one is due, chooses its sleep, and during the sleep other threads
send and receive. Ages are bounded by what the loop lets them become; nothing is capped. The hold time that
`BgpSession` also has is called `negotiated` here, so that one module can speak of both.

### BgpSession

The variable `conn` is the TCP connection as this end can find it: up, closed by the peer
(the first write works, the next raises SIGPIPE), reset, or with no descriptor at all.
`Sends` is the outcome of `writeData` for each. `_isSocketAlive` returns the result of
`recv` through a `bool`, so an error counts as alive and the write is tried.
Each thread's position is its next step; a step ends where another thread can see
the difference. Handlers are whole: `processOpenMessage`, for instance, takes the hold
time, switches the state, and then may refuse the capabilities, send a NOTIFICATION and
fall back.

### SecurePath and CapiRun

Bytes are fields, triples of a tag, a value and a size, so a message is a sequence of fields
and two messages are equal if their bytes are. A signature is the SKI of its key and the message
it was made over; that is all a validator can find out about it. `SignSegment` builds the message as
`_signDraft15` does, one inside the next; `HashMessage` cuts it out of one buffer as
`sca_generateHashMessage` does, and `HashMessageLength` computes its length as the code does, from the
size of the buffer and what is used. Nothing in the model makes the two agree: `Verifies` compares
them. AS paths are sequences of tokens (an AS number, how often, plain or dotted). The widths of an
AS number and of `pCount` are the constants `SignBit` and `PCountMod`. A signature's length depends
on its AS, as DER signatures have different lengths, and on nothing else. Paths, lists and sums are built by recursive
functions, step by step as the loops of the code do, so that proofs can follow them. Lengths of 16 bits are not cut: 300
segments and signatures of 72 bytes stay below 2^15.

`CapiRun` is what `_runCAPI` does with a stack of updates; it is one thread. What lives longer
than an update are the noted keys, their number, `fakeUsed`, and the keys the plug-in has.

Not in the model: growth of the global buffers (64000 bytes, enough for 640 segments), a second
algorithm and signature block (no code sets `next`), AS sets, AS 0 and malformed path text, key
files with wrong contents, updates from binary files, records (mode GEN), statistics.

### CryptoApi

A program may have several `SRxCryptoAPI` objects; libraries, the plug-in's static variables and the
settings for key files (`settings`) are there once. `api` is an object: its handle, its configuration
file, and for each function whether it is NULL, the wrapper or the plug-in's. `opened` counts handles
as `dlopen` does, and the last `dlclose` takes the static variables with it. `srxCryptoInit` is one
action per outcome: already bound, local wrappers, not openable, bound, refused after opening.
`again` records that a plug-in in use lost its storages to another `srxCryptoInit`, which the code
frees without clearing the pointers: from there on the outcome depends on the build.

Not in the model: an entry without `library_name`, method names that lead to another function of the
library, the contents of key files beyond "can be loaded as what it is asked for", debug levels,
digests and ECDSA.

### UpdateStack, Config, Player and BrioTg

A list is what can be reached from its head, whether its tail pointer is set, and its counter.
Settings are functions from the names of `configuration.h` to values; an update is scripted as a line
with what `createUpdate` looks at (comma, blank, prefix, `B4`, braces, validation state). `parseParams` is
a step per option, since each option changes settings that the next one reads; `readConfig` and the
join of the stacks are whole. `BrioTg` then plays: each update and record is a step, a session may be
lost and established again (`MaxLosses`), and the program may be started again (`MaxStarts`) with the
files the first start wrote. `fault` is a NULL pointer that is followed. Command lines, files and input are
constants; `Inputs` says of them only that options, sessions and updates come in sequences.

Not in the model: numbers and addresses as text, messages to the user, statistics, more than the first
session in mode BGP (the code plays only that one).

### OpenMessage, UpdateMessage and BgpMessages

A message keeps the length fields that are written into it; what they are the lengths of is counted
from its parts, so nothing makes the two agree. A length that does not fit its byte is cut, and with it
what is copied by that length. Reading jumps by the lengths, in `processOpenMessage` and in the printers,
and an attribute whose lengths do not add up is read as malformed. `BgpMessages` has one session:
its OPEN, the peer's, header errors, what both agreed on (`peerCap`), the buffer of the traffic thread,
and the updates of its stack with the choice between BGPsec and BGP-4. Reading or writing is one step.
The loops over an OPEN's parameters are modelled by the places they come to (`Places`): `ReadOpen` takes what stands
before the first place it stops at (`stopped`): a capability or parameter that is refused, or one that ends the program, a BGPSEC
capability of an unknown AFI without an MPNLRI capability before it (`FollowsNull`). The session's state is then
`"CRASHED"`. Messages of the peer are handled under one guard (`Hear`).
`Blocks` says that a NOTIFICATION may find the socket full for all its attempts.

Not in the model: messages whose length is below 19 (`length - 19` underflows and up to 2^16 bytes
are awaited), wording of what is printed, parsing of prefixes.

## 3. Runs

Every passing run also names, by a mutant in `PROJECT.json`, a plausible bug that breaks
each of its properties.

| Run | Question | Bounds |
|---|---|---|
| `RtrClean` | Do list, answers, routers and notification agree when a command is not interrupted in its gaps; is there one entry per ASPA customer? | 1 router, 2 ROAs, 1 key, 1 ASPA customer with 2 provider lists, 3 serials, 3 entries, 2 session ids |
| `RtrCatchUp` | Does a router that is behind always catch up? | 1 router, 1 ROA, clients and timer in the gaps, files that break off, 2 serials, 2 entries |
| `TimerLock` | Whatever SIGALRM interrupts: is a writer alone, does nobody wait in a circle, are expired entries deleted again and again? | console, 1 client, a handler on each, every command; interval 3, handlers up to 2 seconds late |
| `RtrServer` | Served from its own entry, in its version, told once, forgotten at the end? | 3 connections, 2 descriptors, 1 peer with an unknown version, threads that cannot be created |
| `KeyAll` | Ordered, unique, counted? Does each call do what it was asked to do, and does what has one usable key verify? | 4 names (AS and SKI) in 2 buckets, 3 contents, 2 sources, 4 keys counted |
| `HoldTimer` | Keep-alives in time, silent peers noticed? | hold times 3, 5, 9, 61 with a sleep of at most 30 |
| `BgpClean` | Established only after an OPEN; do stop and loss end the threads? | every kind of message, hold times 0, 2, 180, 2 retries, 1 update |
| `BgpStop` | (violation) Does `run = false` end all threads? | as above |
| `CapiRun` | Do signer and validator agree, whatever keys are missing and whatever failed before? | AS numbers of 4 bits, `pCount` of 2 bits, paths of up to 3 tokens, 5 lines of keys, 6 sessions |
| `CryptoApi` | Are handles given back, can objects be used, are the listed keys there? | 2 objects, 2 plug-ins, 10 configurations, 2 keys |
| `BrioTg` | Are updates played once and in order, does BGPsec stay off, can the generated file be used? | 29 command lines, 8 files, 2 starts, 1 lost session, 2 lines of input |
| `BgpMessages` | Do messages read back, is only sent what was agreed on? | all single capabilities, 10 OPENs, 9 other messages, 2 connections, paths of up to 2521 ASes |

The bounds are small but each interesting case happens: three entries are the fewest for
which a withdrawn entry moves behind one that is kept and is met again by the loop; three
serials let one entry be announced, withdrawn and expired while a router is away; a bucket of three elements has a head,
one behind an equal AS number and one behind another; a fourth key gives one of them
a second content. Hold time 0 disables the hold time
loop, 2 is accepted by the code but below the loop's minimum of 3, and 180 runs it. In
`HoldTimer`, 3 is the smallest hold time, 5 does not divide by 3, and with 61 the sleep meets its
limit; the proofs cover all other values.

In `TimerLock`, `MaxUnlocks` bounds the count of readers below zero and matters only behind a
`reset`, which unlocks a lock that nobody may hold, and a hit on a writer. An interval of 3 seconds behaves like one of 60: the handler compares it
only with how late it is, and the run has every lateness below one interval. One client and the console, each with
a handler on top, are two threads that overlap in every way that two can, and the client alone asks twice for the lock; for more clients there are the proofs.

In `RtrServer`, three connections for two descriptors let the server run out of them and let one come
back. Its run ends a behaviour at the first early descriptor (`CONSTRAINT NotEarly`): `early` never
falls again and the properties say nothing about the time after. The symmetry exchanges the
two peers with the same version; no property or constant tells them apart.

In `CapiRun`, the lines of the key list have an AS with two keys (the first counts), one without a
public key, one without a private key, and an SKI that two ASes share; another AS has no line. The
sessions drop, fake or ignore what cannot be signed, sign with the plug-in (which never works),
and are internal or external. Paths have up to three signers before the own AS, runs that `pCount` just
counts and one longer, and none. With up to four segments the lengths lie on both sides of 255.
`MaxKeys` bounds the segments; the code has room for 300.

In `CryptoApi`, the second plug-in lacks `init`, `release` and `sign` under their default names; the
configurations are broken, without a library, without its entry, with a wrong value, without a key
directory or with one that is too long. Two objects are the fewest that can share a plug-in. The symmetry
exchanges the objects.

In `BgpMessages`, the lengths of the paths lie on both sides of each limit: 63 and 127 ASes (one length byte with
AS numbers of four and two bytes), 255, 256, 510 and 1020 (segments), 2521 (buffer). In `BrioTg`, each way
of giving a setting meets each other way that the code distinguishes; a second start meets what the first
one wrote.

`MaxSerial`, `MaxEntries`, `MaxSession` bound the inputs of the console, not what the
program does with them; the serial arithmetic is modulo `UINT32_MAX + 1`.

`CHECK_DEADLOCK FALSE` is given where the system may stop: a server that crashed, a storage
that followed a NULL pointer or was used after it was freed, a program whose threads have ended or that
was started as often as it may be, a session that tries no more.

### Fairness

* `RtrCache!FairSpec`: the console thread finishes a command it has begun (weak fairness of
  each step), the timer keeps firing and each client thread answers. The last two need a
  lock that is free again and again but not always, and a POSIX lock that is free is handed
  to a waiting thread eventually: strong fairness. A router acts upon what it was told; that
  is an assumption about the peer, stated in the specification. New commands, connections
  and disconnections are never forced.
* `BgpSession!FairSpec`: weak fairness for each of the three threads, as the operating
  system schedules them and every sleep, poll and semaphore wait has a time limit. Nothing is
  expected of the peer, nor that the hold time expires.
* `TimerLock!FairLockSpec`: time passes and `main` starts the service (weak fairness); a signal that is raised
  finds a thread that handles none in the end, wherever that thread is, and who waits for the lock is woken by the
  one that frees it, as glibc hands it over (strong fairness); claiming and unlocking never wait (weak fairness). Nobody is
  forced to give commands or ask, and `main` need not end. Readers are let in while a
  writer waits, so threads that overlap could keep the callback out; but signals go on, and each stops one of
  them, outside the lock or, which the property names, inside.
* The other specifications have no liveness property: they state no fairness.

## 4. What the runs show

Properties that hold:

* The list stays in serial order, and a synchronised router holds what is announced, if no
  one gets the lock inside a command (`SerialsFollowList`, `SyncedRoutersAgree`,
  `NoUnknownWithdrawal`). One router is always told (`BehindIsNotified`) and catches up
  (`CatchesUp`), although queries clear the pending notification.
* The ASPA list stays unique (`OneAspaPerCustomer`), by the proofs of section 5 whoever uses the gaps.
* Whatever threads the signals interrupt, until one hits a thread that writes or `reset` is given: who changes the
  list is alone with it (`WriterIsAlone`), and who waits for the lock waits for somebody else who can go on, unless some
  callback waits for the thread it interrupted, which reads or claims the lock (`SomeoneLetsGo`). With handlers less
  than an interval late the callback gets the lock again and again, unless the program ends or one of these
  happens (`ServiceRuns`).
* An answer to a router that starts afresh lacks no ASPA object but those that replaced another
  one (`AnswersLackOnlyReplaced`).
* Until a descriptor comes back too early, every client is served from its own entry and in
  its version, a peer that keeps to one version is not hung up on, a message reaches each
  client once if nobody leaves meanwhile, and no thread leaves an entry behind but those a failed
  send has marked with -1 (`ServedFromOwnEntry`, `ProperPeersServed`,
  `NotifyReachesAll`, `EndedClientsForgotten`).
* A signature verifies if its key is the only usable one of its AS number and SKI, whatever
  bad keys were registered with it (`OnlyKeyVerifies`).
* Buckets stay ordered and without duplicates under all inputs of `KeyAll`, other algorithms and unconvertible
  keys among them (`SortedUnique`). For the same inputs each call does what it was asked to do (`ImplementsRegistry`): the
  key it registers is found when it returns, the keys it unregisters are not, and no other comes back.
* `KeepAliveInTime`, `DeadPeerNoticed`; `EstablishedAfterOpen`, `LostSessionEnds`, and
  `StopEndsWithSocket`, which is `StopEnds` with the two conditions the code needs.
* An update is valid for the plug-in if and only if each AS of its path signed it with the first key
  of the list and the public key of that is there (`ValidIffGenuine`); the attribute's lengths are right
  (`LengthsMatch`), its segments spell the path as written for plain AS numbers below 2^31
  and runs below 256 (`PathSpelled`), the noted keys are those of this update and in the
  order that `BGPHeader.h` says (`KeysInOrder`), also after updates whose signing broke off.
* A plug-in is open as often as objects hold it, and nothing of it stays when the last one is unbound or
  refused (`NothingLeftBehind`). Until a plug-in in use is initialized again, an object that was
  initialized has its functions and its storage (`ReadyApisWork`). The plug-in has the keys of its
  lists up to the first that cannot be loaded, from its own configuration's directory (`KeysAsListed`).
* Each update given by parameters, session, global list and input is played once and in order, but
  for the case below (`UpdatesAsScripted`); a switched off BGPsec stays off (`NoBgpsecWhenOff`); a
  file that `brio_tg` generates can be used, with the AS numbers given (`GeneratedConfigUsable`).
* OPENs, and NOTIFICATIONs about missing capabilities of the AFIs the program knows, read back by their lengths (`OpenReadsBack`); UPDATEs do but
  for the windows `DoesNotArrive` and `DoesNotFit` that `BgpMessages` names, and for paths outside `Printable` and
  `Countable`: numbers whose text gets a sign, runs that `pCount` cannot count (`UpdateReadsBack`). No message
  is longer than its buffer, but for the prefix and next hop of an UPDATE, up to 41 bytes, which
  `createUpdateMessage` counts after its check of the size (BGPHeader.c:680; `TypeOK`). An UPDATE is
  of a kind that this connection's OPENs allow (`SentAsAgreed`; the address family is the message's own, as the buffer may
  still hold the one of an earlier update).

A disagreement with what a comment says, with a run:

* `BgpStop`: with hold time 0, or without a descriptor after a read error, the session
  thread stays in its last loop although `run` is false, and the program waits for it for ever.
Met while modelling or reading, without a run of their own:

* Lock and timer (`TimerLock` has these behaviours, `spoiled` and `WaitsForItself` name them in the properties): SIGALRM may
  hit the thread that has the write lock. The callback's `acquireWriteLock` is refused and goes on, although `rwlock.h` 78
  says that it blocks until all existing locks are unlocked: the list is changed in the middle of a change
  (`WriteLockExcludes` fails), and the callback's unlock gives up the command's lock. In a thread that has a read lock, or one that
  has claimed the write lock, the callback waits for that thread, which is itself, and in the end everybody waits.
  `reset` unlocks a lock it did not take (`rpkirtr_svr.c` 924), which is that of a client being served, and the cache is
  modified meanwhile, against the comment in 624. TLC finds the next with another constant: with
  `MaxLate = SERVICE_TIMER_INTERVAL`, a handler that runs an interval late sets
  no alarm, and the timer, which `isActiveTimer` calls active, never fires again (`timer.c` 102, `timer.h`
  76). `clearAlarm` hands `setitimer` memory it did not initialize, and the alarm may go on after
  `deleteAllTimers` (`timer.c` 152-158, `timer.h` 71).
* A removal checks its indexes, "Within bounds" (`rpkirtr_svr.c` 2818), under a read lock that it gives up before it has
  the write lock. The timer may delete expired entries in between, and the loop follows a NULL pointer behind the end of the
  list (2832-2846; `RemoveCrash` in `RtrCatchUp`, which `CatchesUp` allows for).
* For a BGPSEC capability of an unknown AFI, "WARNING: Unknown BGPSEC AFI Capability %u - Ignore" (`BGPSession.c` 1138) prints
  the AFI of the MPNLRI capability before it. Without one `mpnlri` is NULL (1045) and the program crashes: the state
  `"CRASHED"` of `BgpMessages`, which `BgpMessages.cfg` reaches with one of its OPENs.
* The timer in the gap of an append makes its count wrong (`rpkirtr_svr.c` 2183, 2190), against 2189; the
  serials of the new entries are then given out again (`RtrCatchUp` has this behaviour).
* Interleavings and lists (the models have these behaviours, no property speaks against them):
  `append` writes the entries with their serials, gives up the lock and only
  then raises `maxSerial` (`rpkirtr_svr.c` 2187). A client served in between gets the entry with the old
  serial. When the entry is withdrawn later, `sendPrefixes` takes it for never announced to this client,
  against the comment in 727.
  A refused client's descriptor is closed (1229, 1241) before its entry is looked up by that
  number (1350). A new peer may have it by then, and its entry is wiped while it is served:
  it is hung up on for an "Illegal switch of version number!" (`RtrServer` marks this with `early`).
  A key element behind one of the same AS number has no back pointer (`key_storage.c` 848), so freeing it
  moves the head of the bucket behind it (431-435), and keys are lost that nobody asked to delete, against
  the comment in 498-501; `exact` of `KeyRegistry` leaves this out.
  With updates as parameters and global updates but none of its own session, the joined list of
  updates has no tail pointer (`configuration.c` 640), the first global update becomes its head,
  and the parameters' updates are lost, against the comment in 613-615 (`TailKept` in `BrioTg`).
* RTR: `service.notify` is one flag for all routers, and the query of one clears it (621-622). With two
  routers, `RtrCache` has a behaviour in which the other is never told of a change, although
  `README.brio_rc.md:4` calls the harness multi-client capable: `BehindIsNotified` fails with the
  constants of `RtrClean.cfg` but two routers.
  An ASPA object that replaced another has `serial # prevSerial` and is left out of the answer
  to a Reset Query (727-732), although 721-722 says that a fresh set is sent.
  A Serial Query of another session gets no answer (`dropSession`, 469-493, finds no
  client). A version 0 router gets no End of Data (537-556). A replaced ASPA object cannot be
  removed (2846; `README.brio_rc.md:104` says objects can). Entries before a broken line stay in the list but are not counted
  (1502, 2190). In `waitForClient` (3110) the result is not set; a
  `sessionID reset` is not recognised as such (1911-1916).
* RTR connections: a walk over all clients that stands on an entry being wiped sends to descriptor 0
  and ends (888, 1354). A client that has not spoken yet is notified with version 255. The
  comment of `sendNum` (`socket.c` 142) says it closes the socket in case of an error; neither it nor
  `recvNum` does, so each lost connection keeps its descriptor, and when they are used up `accept`
  fails and the server loop ends (`server_socket.c` 762-773). Without a thread, the entry of a
  connection stays in the hash (835-839). The `error` command walks all clients and calls for
  each a function that walks all clients (2953, 1123).
* Keys: of several keys of one AS number and SKI only the first usable one is tried, as the loop of
  `validate` ends after the first failure (`bgpsec_openssl.c` 705-722). Cleaning by source compares with the wrong field and with source 0 removes everything
  (891-938). A key of another algorithm is stored in bucket 0 with a success status (711-735).
  A failed allocation is followed (754, 763-766). The new size of the key array is
  `sizeof + n` instead of the product (625-632).
* BGP: the traffic thread can send an UPDATE before the first KEEPALIVE. The semaphore
  may be used after it is destroyed (`BGPSession.c` 1345-1350 and 569-575). The retry counter
  is reset by each IDLE, so reconnects are not bounded. `brio_tg` has no handler for SIGPIPE.
  When the NOTIFICATION for a refused OPEN cannot be sent, the session can become
  ESTABLISHED on a dead connection; `EstablishedAfterOpen` is about a live one. An update whose send fails is
  lost.
* Path: `convertAsnPath` prints a plain AS number with `%d` (`updateStackUtil.c` 262) and the tokenizer
  skips the sign, so 4200000000 becomes 94967296. The name of the path is measured before it is compared
  with NULL (198, 212). A run of 256 has `pCount` 0 (`BGPSecPathBin.c` 625). More than 300 segments
  leave `pubKey` (770, 777). When the buffer grows behind a signature block, the block's buffer is
  replaced by `data` and `attr` still points to the old one (516-517). `CAPI_createSignature`
  returns 0 before it does anything (`Crypto.c` 636). `_freePSegList` drops the result of the
  rewind (`BGPSecPathBin.c` 277).
* Crypto API: a second `init` of a plug-in in use fails and frees both key storages
  (`bgpsec_openssl.c` 414-442), so the first object's calls use freed memory. The settings for key files are
  global: a configuration without `key_vault` keeps the former directory, and a directory that is too long is
  ignored (the result of `sca_SetKeyPath` is dropped, `srxcryptoapi.c` 686). A failed
  `srxCryptoInit` also clears `configFile`, so that trying again takes the system's configuration. A
  function that a library lacks is replaced by a wrapper, although the comment 955-969 speaks of a failure.
  `sca_getAlgorithmIDs` writes `*algoID1` twice (1936-1938). The type of a key list is taken by
  `strspn(tmpValue, "PUBRIV:")`, with the leading letters of the file's name. `_cleanKeys` always reports
  KEY_NOTFOUND, as `ks_removeSource` returns 0.
* Configuration: parameters read with `-s` and `-y` get a line feed appended (`configuration.c` 1838, 1850) and
  name files that are not there. `-t` is documented (330) but not parsed, and several long forms
  (`--peer_port`, `--disconnect`, `--hold_timer` and others) are not known to `getShortParam`. Without a
  configuration file the port is 0, the documentation says 179. `incl_global_updates` is read
  but never used. A `B4` directly behind the comma is not recognised (`cfgFile.c` 382 writes it so). Global
  updates copied to several sessions lose their AS set and validation state. Global updates are ignored without a
  `session`. `--show-settings` ends with status 1. Only the first session is played. A record of type
  attribute in mode BGP follows a NULL update (`bgpsecio.c` 569). Without an update at the start no key is
  loaded (1442), so piped updates cannot be signed. Mode GEN ignores `B4`. The player never writes `record.fake`.
* Messages: a path of 127 ASes with two bytes each, or 63 with four or 126 with two and a set, has a
  length that does not fit one byte and is cut to 0 or 2, because the segment headers are added after the
  choice of the length's size (`BGPHeader.c` 513-520); the path is lost. Multiples of 255 ASes get an empty
  segment that the printer takes for malformed (508). The negative result of `createUpdateMessage` is ignored
  (`bgpsecio.c` 565): the message before is sent again; its size check leaves out prefix and MP_REACH_NLRI.
  AS4_PATH is not made when only the own AS number is wide. A NOTIFICATION about a header error carries as many bytes as the refused
  message claims to have, although only the header was read, and above 4096 cannot be sent, against
  `BGPSession.c` 876-877. `_rcvBGP` refuses a message of exactly 4096 bytes (445) that
  `_checkMessageHeader` allows. `BGP_EXTMAX_MESSAGE_SIZE`, 65536, cannot be exceeded by a `u_int16_t`. After
  the `realloc` in `readNextBGPMessage` (792-799) `buff` points into the old buffer. The hold time of a
  refused OPEN stays (1034). A missing MPNLRI capability is refused in OpenConfirm (1225-1253), so the session is
  established if the NOTIFICATION cannot be sent. A BGPsec path segment with `pCount` 0 makes the
  printer loop 2^32 times. `___printCAP_T_BGPSEC` indexes 16 names with eight bits.

## 5. Proofs

The seven modules `*Proofs` and `SequenceLemmas` are checked by TLAPS with SMT, Zenon and PTL. Their theorems
hold for all values of the constants that satisfy the named assumptions of the modules.

* `TypeCorrect` (`RtrCache!TypeOK`): for any payloads, routers, bounds and any interference
  in the gaps. The list is a finite set, and an entry expires exactly when it is withdrawn, so the
  timer's window stays within the serials. Every action is a lemma of its own.
* `AspaUnique` (`OneAspaPerCustomer`): inductive together with the type invariant. The step that
  matters is `AppendASPA`, which takes out the first entry of the customer: by uniqueness it
  is the only one. `RemoveWrite` changes no object; appended lines hold no ASPA object.
* `SerialsFollow` (`SerialsFollowList`), when the timer is not in `GapActors` and no input breaks off
  behind lines that were read. Both are needed: the cache counts what it appends by the change of
  the list's size, which a timer in between falsifies, and does not count at all after a malformed line.
  `SerialInv` says that places grow along the list, that serials grow with them and are ahead of
  `maxSerial` by the lines written and not yet counted, and what size the command in its gap
  started from; that the lines of a removal get serials in their order is a fact on the ranks of a finite
  set (`RankGrows`). The serials of a command fit below `MaxSerial`, so nothing is said about a
  serial number that wraps around.
* `WithdrawnIsKnown` (`NoUnknownWithdrawal`), `SyncedHoldTheSame` (`SyncedRoutersAgree`) and `AnswersComplete`
  (`AnswersLackOnlyReplaced`), under the conditions of `SerialsFollow`; the second also with nobody in the gaps. A router's
  `view` counts announcements minus withdrawals per payload; the invariant `ViewInv` names the entries behind the
  count: `Known`, the entries it was told of and not told to withdraw, `Counted` their number. With clients
  in the gaps a router holds at least those; with nobody there it holds exactly those (`ExactInv`), unless its serial lies in the
  window of expired ones (from `minPSExpired` to below `maxSExpired`) or its data is old: then `checkSerial` resets it. The proof
  goes along the answers (`SerialAnswer`, `ResetAnswer`): a withdrawal keeps `prevSerial`, so that a router
  older than it was never told of the entry and a younger one is told to drop it, and deleting expired entries
  widens the window by the serials it forgets. For the third, `AspaHeld` says that a router with data has each announced ASPA
  object that came under a serial not newer than its own; a replacing object breaks that only for its own
  customer, as customers are unique.
* `SingleRouterHears` (`BehindIsNotified`), when there is one router; anybody may be in the gaps. With
  two, one router's query clears the flag that the other waits for, and the property fails. The
  invariant `NotifyInv` adds that a router's session is not a later one than the cache's and what a router
  with data can have for its version: an answer brings it up to date, a Cache Reset leaves it with something to do.
* `NumbersAreNames` (`ServerInv`), `OwnEntryServed`, `OneVersionIsEnough`, `EveryoneNotifiedOnce`, `EndedForgotten`
  (`RtrServer!ServedFromOwnEntry`, `ProperPeersServed`, `NotifyReachesAll`, `EndedClientsForgotten`), for any
  peers, versions and descriptors. Server loop, threads, hash and walk find a client by the number of its
  descriptor; the invariant says that who may still look for a number (`Claims`) has it alone, so
  that each lookup finds the right entry. An early descriptor breaks that, and all four properties are only
  claimed until one comes back (`~early`). For the message to all, `WalkSound` compares the place of the walk in
  the list with who has been told: new clients come behind it, and only one that leaves takes away its place.
* `WritersAlone`, `NoCircle` (`TimerLock!WriterIsAlone`, `SomeoneLetsGo`), for any number of clients, any interval and
  signals that hit any thread anywhere. The invariant `LockSound` holds until `spoiled`. What a thread still has to call says how many
  read and write sections it is in (`Left`); with a handler on top, the thread was hit outside of the lock, or it was hit while it
  reads and the handler has not got the lock (`Standing`), since that waits for a reader who cannot go on. The lock's
  count of readers is the number of all read sections (`ReadSections`), and who claims the lock is about to take it
  (`ClaimSound`). Nobody waits in a circle but behind such a handler, because who else waits for the write lock is in no
  section, and only a second read lock is asked for inside one, which is granted whenever no writer is in.
* `KeepAlivesInTime`, `DeadPeersNoticed`, `TimerTypeCorrect` (`HoldTimer`), for every hold
  time from 3 and every positive limit of the sleep. The invariant `TimerInv` says what the
  age of the time stamps will be at the wake-up, as the length of the sleep is fixed before
  (`SentAtWakeUp`, `ReceivedAtWakeUp`). Other threads can only make the ages smaller.
* `SessionTypeCorrect` (`BgpSession!TypeOK`), for every number of attempts, hold time and peer.
  `stopTime` would fall below -1 if the traffic thread counted again after it cleared `run`; `CountedOnce` says
  that it has left its sending loop by then.
* `NoSessionUnlessAgreed` (`EstablishedAfterOpen`), when no send is given up for a full socket (`~Blocks`).
  The property is not inductive: `OpenJudged` says the same of OpenConfirm too. The switch to OpenConfirm
  before the capabilities are refused does no harm because a NOTIFICATION either goes out, and the state is
  IDLE (`SwitchedStates`), or fails and takes the connection along (`NotifyOutcome`).
* `ListsStaySorted` (`SortedUnique`), for any set of keys. A walk stops at the first larger AS number
  (`StopPosition`), so what is inserted fits there, and a removal that loses the elements before it leaves an
  end of an ordered list (`OrderedUnlinked`). An element with a back pointer is never first (`BackNotFirst`),
  which is why the head keeps having none.
* `StorageIsRegistry` (`ImplementsRegistry`), for any keys, however they collide: each call that returns is a step of `KeyRegistry`
  for the request it was given, one that changes nothing included. In an ordered list the search finds whatever the list holds
  (`SearchFinds`); then each operation is compared with its request by what the lists hold before and after
  (`ListGains`, `ElementGoes`). That no other key gets lost needs `Linked`, as in the model.
* `CountSuffices` (`KeyStorage!TypeOK`): that `size` stays a number is all that is hard in it, as cleaning subtracts what it
  frees and lost elements stay counted. `CountInv` compares `size` with the number of `AllSlots`, the keys by bucket, name of
  their element and place: in an ordered list no two elements share a name, so the slots are not fewer than the places
  cleaning frees (`TotalCounted`, by an injection), and each operation adds or takes slots with the count.
* `OnlyKeyFound` (`OnlyKeyVerifies`): `Genuine` says that whatever an element holds was registered under its name or is a
  hole. So the first entry `validate` can use is a key that can be found, and if there is one, it is that one.
* `HandlesGivenBack`, `ReadyApisUsable` (`CryptoApi!NothingLeftBehind`, `ReadyApisWork`), for any finite
  set of objects and any libraries, configurations, key lists and key files. The invariant `ApiInv` adds that only an
  object that is ready has a library and no function of one without it (`OwnFunctions`), and that two
  objects hold one plug-in only after it was initialized again (`OneHolder`): a holder that is ready
  would have left it initialized, so a second `init` fails. Handles are counted by cardinality
  (`HolderAdded`, `HolderRemoved`, `HeldIffOpen`).
* `ListedKeysLoaded` (`KeysAsListed`), for any configurations, lists and key files: reading a list breaks off at the first key that
  cannot be loaded (`KeyRead`), so what it brings under the object's own settings is what the list names (`KeysListed`), and
  no step between the successful `srxCryptoInit` and the next answer touches the plug-in.

* `GenuineIsValid`, `NotedKeys`, `LengthsAreRight`, `SegmentsSpellPath` (`CapiRun!ValidIffGenuine`, `KeysInOrder`, `LengthsMatch`,
  `PathSpelled`), for every key file, path, session and order of updates. The invariant `RunInv` says that an attribute that is kept is
  the one signed for its update (`AttrOf`), that until it is validated the notes are of its signers (`NotesOf`), and that a key the plug-in
  has is the one of its AS in the key file. What follows is about the algorithms. The list of keys is sorted and holds the first line of each AS, with its
  private and its public key (`InsertionSorts`, `AsListHolds`), so the search by both finds them (`InfoIsLine`). The signer
  nests the message of each segment in the next, the validator cuts all out of one buffer: both are `Rest`, once unrolled from the
  origin (`RestStep`) and once from where the validator starts (`HashFromRest`), and the length computed from what the
  buffer has left is the number of bytes of `Rest` (`RestBytesAre`, `HashLengthIs`). Field by field and byte by byte the lengths
  of the attribute are those of its parts (`PathBytes`, `SigBytes`). For the path, each step of `Count` either makes a
  run longer or starts one (`CountSpells`); as no run reaches `PCountMod`, `pCount` never wraps (`RunGrows`). These are
  inductions along a path or list, done by hand on the least counterexample (`Upwards`, `Downwards`, `RecursionExists`).

* `OnlyAsAgreed` (`SentAsAgreed`), for any sessions, updates, paths and messages of the peer, and any number of connections. The
  invariant `SentInv` follows the agreement from the OPEN to the message: `peerCap` holds what the OPEN that was accepted
  announced and nothing of an earlier one (`AcceptedHeard`); an established session is the last attempt, so no other OPEN is read
  while something lies in the buffer (`LastAttempt`, `BufferEmpty`); what lies there is as both ends agreed
  (`BufferAgreed`), whatever update it was built for. `BuiltAgreed` shows the last of `createUpdateMessage`, attribute by attribute:
  a BGPsec attribute only after `Negotiated` for the prefix's family, AS numbers of the size agreed on in every segment.
  `AllRead` shows that an OPEN that is not refused is read to its end. That a chain of segments is a sequence of segments
  (`FlattenIsSeq`) is an induction, done by hand on the least counterexample.
* `OpensReadBack` (`OpenReadsBack`), for any capabilities, AS numbers and OPENs of the peer, those among them that end the program. The invariant `OpenInv` says that an OPEN that
  was said last is the session's own, and that a NOTIFICATION about capabilities was made from the OPEN heard last
  (no other is heard before the connection is given up). The rest is about the messages. Row by row
  of `CapTable`, what is written is read as the one field it stands for and shown as such (`RowsAre`, `RowsShown`); the
  parameters are the rows configured, no more and no less (`ParamsWritten`); the length counted beforehand is theirs
  because a sum over a flattened sequence is the sum of the parts' sums (`FlattenWeight`, `LengthCounted`). `MissingAre` and
  `LackingIs` relate what the NOTIFICATION shows to the capabilities of the OPEN itself.
* `MessagesFit` (`BgpMessages!TypeOK`), for any sessions, updates and messages of the peer. `TypeInv` adds to the two invariants above
  that what is said and what lies in the buffer is bounded (`Fits`). `MessageBuilt` takes an UPDATE apart: the fixed attributes in
  front, whose sizes are known one by one, and copies of those of the path, whose size is a sum over a list (`Measured`);
  the length is theirs in all, and exceeds what was checked by one prefix at most (`FirstSums`).
* `UpdatesReadBack` (`UpdateReadsBack`), for any sessions and updates. Inductive together with `SentInv`: what is sent is the update's
  message, or, if that did not fit, one that the property leaves out (`MessageReads`, `ReadsKept`). Along the message: the printer's
  walk meets each attribute where it begins, because the sizes read are those written (`AllAttrsRead`). An AS path is cut into
  pieces of 255 numbers, and the pieces put together are the path again (`PieceJoins`); the length that is
  read back, in one byte or two, is what the pieces take (`PiecesSize`, `BodySize`, `LengthWritten`), except in the windows of
  `DoesNotArrive`: so `BodyRead` and `PathArrives`. A BGPsec path is what `CapiRun` proves of it, segments that spell the path,
  and a block as long as its signatures (`BlockRead`, `BgpsecRead`). That a message that was given up was too long for `DoesNotFit`
  is a bound on the attributes besides the path (`Much`).
  Its statement names the limits that the run's small instance stays within: paths outside `Printable` and `Countable` are
  not written as the script spells them, and `DoesNotFit` counts the AS_SET, the AS4_PATH and the signatures too.

* `PlaysAsScripted`, `SendsNoBgpsecWhenOff`, `GeneratesUsableConfig` (`BrioTg!UpdatesAsScripted`, `NoBgpsecWhenOff`,
  `GeneratedConfigUsable`), for any command lines, configuration files, sessions, updates and lines of input, any number of
  starts and of lost sessions. The invariant `BrioInv` follows one start through its places: `Structure` (what things are made of),
  `Preparing`, `PlayingOn`, `Generated`, and `NoBgpsecWhenOff` itself, since what was sent stays sent.
  While options are read, the stacks have the updates of the options so far and of the file (`Collected`), each
  made from its line by `createUpdate` or copied from such a one (`From`); what a copy loses, the AS_SET and the validation state,
  is why `Whole` is only claimed of a single session. `Assembled` compares the stack after `postProcessUpdateStack` with the script,
  whichever of the three stacks are empty: the join moves the links of the lists, so the order depends on the tail pointers
  (`Sound`), and is lost in the case that `TailKept` leaves out. Then the updates
  taken and those on the stack are the script, and stay so as updates are popped (`StagedTaken`) and the input is
  read (`RefillIs`, `StageRefilled`). `SwitchedOff` says that with BGPsec disabled the program is in
  mode BGP and its session asks for no capability to send it (`CapsClearedIs`), so none is negotiated. A generated file
  is read back by `readConfig` from what `generateFile` wrote into each setting (`WrittenIsRead`, `GeneratedIsUsable`). Folds,
  filters and joins of sequences are taken up by inductions by hand (`FoldExists`, `MatchFrom`, `LinesUpToIs`).

The assumptions of the modules (`Payloads0`, `Bounds`, `Inputs` and so on) say that kinds of
payload differ and that limits are numbers, and are evaluated by TLC in each run.

So each invariant that a passing run checks is a theorem, some under the conditions named above, and the refinement
of the registry. Only model-checked is liveness (`CatchesUp`, `ServiceRuns`,
`StopEndsWithSocket`, `LostSessionEnds`), which needs ENABLED. What a recursive definition computes
for every input needs induction over data: the provers cannot instantiate the library's induction theorems, and an
induction by hand, as in `Upwards` and `FlattenIsSeq`, is done only where a theorem rests on it.

## 6. Plan

Done: the cache, its lock and its timer, the connections of its clients, the key storage, the hold time loop, the session,
the path attribute with the run that signs and validates it, the crypto API, the program `brio_tg` with its
settings, updates and player, and the messages of a session with their printers; theorems about
the cache, its lock, the connections of its clients, the session and what it sends, the hold time loop, the key storage, the crypto API,
the path attribute and the program `brio_tg`.

Modules to come, the most important first:

1. An abstract message to all, "each client that stays is told once", which `RtrServer`
   should implement while nobody leaves, and `stopServerLoop`.
2. The lock and the data together: `RtrCache` with the calls of `TimerLock`, so that what a callback does to the list
   inside a write section can be followed.
3. An abstract cache, the set of payloads announced per serial, which `RtrCache` implements
   without interference in its gaps.
4. The tokens of `convertAsnPath` character class by character class.

Theorems to come: the refinement of 3.

Not planned: the wording of printers, logs and help texts; parsing of numbers, prefixes and addresses;
the digests and ECDSA (external); the test plug-ins and tools; the operating system's sockets
beyond their outcomes.
