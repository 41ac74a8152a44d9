----------------------------- MODULE RtrServer ------------------------------
(***************************************************************************)
(* The connections of brio_rc: the server loop that accepts them           *)
(* (server_socket.c), one thread for each, the hash of clients they share  *)
(* without a lock (handleStatus, handleClient), and a message to all       *)
(* clients sent by the console or the timer, which walks that hash.        *)
(*                                                                         *)
(* A CacheClient is named by the connection it was made for.  Each macro   *)
(* of uthash is one step here.  The cache lock plays no part: all who take *)
(* it here take it for reading.                                            *)
(***************************************************************************)
EXTENDS Integers, Sequences, FiniteSets, SequencesExt, FiniteSetsExt

CONSTANTS
  Conns,       \* the connections peers may open
  Fds,         \* file descriptors
  Versions,    \* [Conns -> SUBSET Nat]: protocol versions a peer may use
  ThreadFails, \* pthread_create may fail
  NULL         \* no connection

ASSUME ServerInputs ==
  /\ Fds \subseteq Nat \ {0} /\ IsFiniteSet(Fds)
  /\ Versions \in [Conns -> SUBSET Nat]
  /\ ThreadFails \in BOOLEAN
  /\ NULL \notin Conns

VARIABLES
  peer,     \* per connection: how its two ends are
  fd,       \* per connection: clientFD of its ClientThread
  owner,    \* per descriptor: its connection, or NULL if it is free
  acceptor, \* where the server loop is
  order,    \* the hash of clients, in the order of its list
  entry,    \* per connection: its CacheClient
  ccl,      \* per connection: the CacheClient its thread works with
  thread,   \* per connection: where its thread is
  cast,     \* the message to all clients under way
  due,      \* per connection: whether it should get that message, and did
  early     \* a descriptor was handed out while its last thread or the hash had it

osVars == <<peer, fd, owner>>
hashVars == <<order, entry>>
threadVars == <<ccl, thread>>
castVars == <<cast, due>>
vars == <<osVars, acceptor, hashVars, threadVars, castVars, early>>

CacheVersion == 2
UNDEF == -1

(* up: both ends are open; gone: the peer closed or reset it; closed: this *)
(* end closed it; refused: it was closed because it got no thread.         *)
PeerStates == {"none", "up", "gone", "closed", "refused"}

(* A CacheClient: next is what hh.next holds once it is off the list; wiped*)
(* ones are all zero.                                                      *)
NoEntry == [state |-> "none", fd |-> 0, version |-> 0, next |-> NULL]
Wiped == [NoEntry EXCEPT !.state = "wiped"]
Entry == [state : {"none", "linked", "off", "wiped"}, fd : Fds \cup {0, -1},
          version : Nat \cup {UNDEF}, next : Conns \cup {NULL}]

Silent == [pc |-> "idle", at |-> NULL]

(* Nobody is due any more once somebody leaves while the message is sent.  *)
NobodyDue == [c \in Conns |-> "no"]

Init ==
  /\ peer = [c \in Conns |-> "none"]
  /\ fd = [c \in Conns |-> 0]
  /\ owner = [f \in Fds |-> NULL]
  /\ acceptor = "accept"
  /\ order = <<>> /\ entry = [c \in Conns |-> NoEntry]
  /\ ccl = [c \in Conns |-> NULL]
  /\ thread = [c \in Conns |-> "none"]
  /\ cast = Silent /\ due = NobodyDue
  /\ early = FALSE

-----------------------------------------------------------------------------
Free == {f \in Fds : owner[f] = NULL}
Linked == {c \in Conns : entry[c].state = "linked"}

(* HASH_FIND_INT: the youngest entry with this descriptor.  One whose      *)
(* field fd was overwritten with -1 is not found any more.                 *)
Find(f) ==
  LET i == SelectLastInSeq(order, LAMBDA c : entry[c].fd = f) IN IF i = 0 THEN NULL ELSE order[i]

(* What HASH_DEL leaves; the entry itself keeps its pointer.               *)
After(c) ==
  LET i == SelectInSeq(order, LAMBDA d : d = c)
  IN IF i = 0 \/ i = Len(order) THEN NULL ELSE order[i + 1]

(* close(): the end of the connection, and the descriptor is free.         *)
CloseAs(c, how) ==
  /\ owner' = [owner EXCEPT ![fd[c]] = NULL]
  /\ peer' = [peer EXCEPT ![c] = IF @ = "up" THEN how ELSE @]
  /\ UNCHANGED fd

-----------------------------------------------------------------------------
(* The server loop: runServerLoop.                                         *)

(* accept() gives the smallest descriptor that is free.                    *)
Accept(c) ==
  /\ acceptor = "accept" /\ peer[c] = "none"
  /\ Free # {}
  /\ LET f == Min(Free)
     IN /\ owner' = [owner EXCEPT ![f] = c]
        /\ fd' = [fd EXCEPT ![c] = f]
        /\ early' = (early \/ Find(f) # NULL \/ \E d \in Conns : fd[d] = f /\ thread[d] = "status")
  /\ peer' = [peer EXCEPT ![c] = "up"]
  /\ acceptor' = "status"
  /\ UNCHANGED <<hashVars, threadVars, castVars>>

(* Out of descriptors: the loop ends.                                      *)
AcceptFails ==
  /\ acceptor = "accept" /\ \E c \in Conns : peer[c] = "none"
  /\ Free = {}
  /\ acceptor' = "done"
  /\ UNCHANGED <<osVars, hashVars, threadVars, castVars, early>>

(* handleStatus of the new connection, and its thread.  Without a thread   *)
(* the connection is closed but its CacheClient stays in the hash.         *)
Spawn(c) ==
  /\ acceptor = "status" /\ peer[c] # "none" /\ entry[c].state = "none"
  /\ entry' = [entry EXCEPT ![c] =
       [state |-> "linked", fd |-> fd[c], version |-> UNDEF, next |-> NULL]]
  /\ order' = Append(order, c)
  /\ acceptor' = "accept"
  /\ \/ thread' = [thread EXCEPT ![c] = "find"] /\ UNCHANGED osVars
     \/ ThreadFails /\ CloseAs(c, "refused") /\ UNCHANGED thread
  /\ UNCHANGED <<ccl, castVars, early>>

-----------------------------------------------------------------------------
(* A client thread: custom_handleClient with handleClient.                 *)
FindSession(c) ==
  /\ thread[c] = "find"
  /\ ccl' = [ccl EXCEPT ![c] = Find(fd[c])]
  /\ \/ /\ Find(fd[c]) # NULL
        /\ thread' = [thread EXCEPT ![c] = "loop"]
        /\ UNCHANGED osVars
     \/ /\ Find(fd[c]) = NULL   \* "Cannot find client sessoin!"
        /\ thread' = [thread EXCEPT ![c] = "status"]
        /\ CloseAs(c, "closed")
  /\ UNCHANGED <<acceptor, hashVars, castVars, early>>

(* Bug: the version of the first PDU is not kept.                          *)
ReceiveForgetful(c, v) ==
  LET e == entry[ccl[c]] IN
  /\ thread[c] = "loop" /\ peer[c] \in {"up", "gone"}
  /\ \/ /\ v > CacheVersion \/ e.version \notin {UNDEF, v}
        /\ thread' = [thread EXCEPT ![c] = "status"]
        /\ CloseAs(c, "closed")
        /\ UNCHANGED entry
     \/ /\ v <= CacheVersion /\ e.version \in {UNDEF, v}
        /\ thread' = [thread EXCEPT ![c] = "reply"]
        /\ UNCHANGED <<osVars, entry>>
  /\ UNCHANGED <<acceptor, order, ccl, castVars, early>>

(* A PDU of version v is read; it may have been sent before the peer left. *)
Receive(c, v) ==
  LET e == entry[ccl[c]] IN
  /\ thread[c] = "loop" /\ peer[c] \in {"up", "gone"}
  /\ \/ /\ v > CacheVersion \/ e.version \notin {UNDEF, v}
        /\ thread' = [thread EXCEPT ![c] = "status"]
        /\ CloseAs(c, "closed")
        /\ UNCHANGED entry
     \/ /\ v <= CacheVersion /\ e.version \in {UNDEF, v}
        /\ thread' = [thread EXCEPT ![c] = "reply"]
        /\ entry' = [entry EXCEPT ![ccl[c]].version = v]
        /\ UNCHANGED osVars
  /\ UNCHANGED <<acceptor, order, ccl, castVars, early>>

(* The query is answered in the version the CacheClient has by then.       *)
Reply(c) ==
  /\ thread[c] = "reply"
  /\ thread' = [thread EXCEPT ![c] = "loop"]
  /\ UNCHANGED <<osVars, acceptor, hashVars, ccl, castVars, early>>

(* recvNum gives up; nobody closes the descriptor.                         *)
ConnectionLost(c) ==
  /\ thread[c] = "loop" /\ peer[c] = "gone"
  /\ thread' = [thread EXCEPT ![c] = "status"]
  /\ UNCHANGED <<osVars, acceptor, hashVars, ccl, castVars, early>>

(* Bug: the CacheClient is only wiped, it stays in the hash.               *)
StatusLostKept(c) ==
  LET e == Find(fd[c]) IN
  /\ thread[c] = "status"
  /\ ccl' = [ccl EXCEPT ![c] = e]
  /\ thread' = [thread EXCEPT ![c] = IF e = NULL THEN "done" ELSE "wipe"]
  /\ UNCHANGED <<osVars, acceptor, hashVars, castVars, early>>

(* Bug: the entry was not looked up, the first one goes.                   *)
StatusLostFirst(c) ==
  LET e == IF order = <<>> THEN NULL ELSE Head(order) IN
  /\ thread[c] = "status"
  /\ \/ /\ e # NULL
        /\ order' = RemoveFirst(order, e)
        /\ entry' = [entry EXCEPT ![e].state = "off", ![e].next = After(e)]
        /\ due' = NobodyDue
        /\ ccl' = [ccl EXCEPT ![c] = e]
        /\ thread' = [thread EXCEPT ![c] = "wipe"]
     \/ /\ e = NULL   \* "Unknown client"
        /\ thread' = [thread EXCEPT ![c] = "done"]
        /\ UNCHANGED <<hashVars, due, ccl>>
  /\ UNCHANGED <<osVars, acceptor, cast, early>>

(* clientThreadCleanup calls handleStatus: the entry comes off the hash... *)
StatusLost(c) ==
  LET e == Find(fd[c]) IN
  /\ thread[c] = "status"
  /\ \/ /\ e # NULL
        /\ order' = RemoveFirst(order, e)
        /\ entry' = [entry EXCEPT ![e].state = "off", ![e].next = After(e)]
        /\ due' = NobodyDue
        /\ ccl' = [ccl EXCEPT ![c] = e]
        /\ thread' = [thread EXCEPT ![c] = "wipe"]
     \/ /\ e = NULL   \* "Unknown client"
        /\ thread' = [thread EXCEPT ![c] = "done"]
        /\ UNCHANGED <<hashVars, due, ccl>>
  /\ UNCHANGED <<osVars, acceptor, cast, early>>

(* ...and is overwritten with zeroes, its pointer to the next one too.     *)
Wipe(c) ==
  /\ thread[c] = "wipe"
  /\ entry' = [entry EXCEPT ![ccl[c]] = Wiped]
  /\ ccl' = [ccl EXCEPT ![c] = NULL]
  /\ thread' = [thread EXCEPT ![c] = "done"]
  /\ UNCHANGED <<osVars, acceptor, order, castVars, early>>

-----------------------------------------------------------------------------
(* A message to all clients: sendSerialNotifyToAllClients, and the like.   *)
CastBegin ==
  /\ cast.pc = "idle" /\ order # <<>>
  /\ cast' = [pc |-> "send", at |-> Head(order)]
  /\ due' = [c \in Conns |-> IF c \in Linked THEN "due" ELSE "no"]
  /\ UNCHANGED <<osVars, acceptor, hashVars, threadVars, early>>

(* sendNum: a failure is written into the CacheClient, whose key that is.  *)
(* The first message after the peer has gone may still succeed.            *)
Sends(f) ==
  IF f \notin Fds \/ owner[f] = NULL THEN {FALSE}
  ELSE IF peer[owner[f]] = "up" THEN {TRUE} ELSE BOOLEAN

Told(c) ==
  [due EXCEPT ![c] = CASE @ = "no" -> "no" [] @ = "due" -> "told" [] OTHER -> "twice"]

(* Bug: a failure ends the walk.                                           *)
CastSendBreaks ==
  LET f == entry[cast.at].fd IN
  /\ cast.pc = "send"
  /\ \E ok \in Sends(f) :
       /\ due' = IF ok THEN Told(owner[f]) ELSE due
       /\ entry' = IF ok THEN entry ELSE [entry EXCEPT ![cast.at].fd = -1]
       /\ cast' = [cast EXCEPT !.pc = IF ok THEN "next" ELSE "end"]
  /\ UNCHANGED <<osVars, acceptor, order, threadVars, early>>

CastSend ==
  LET f == entry[cast.at].fd IN
  /\ cast.pc = "send"
  /\ \E ok \in Sends(f) :
       /\ due' = IF ok THEN Told(owner[f]) ELSE due
       /\ entry' = IF ok THEN entry ELSE [entry EXCEPT ![cast.at].fd = -1]
  /\ cast' = [cast EXCEPT !.pc = "next"]
  /\ UNCHANGED <<osVars, acceptor, order, threadVars, early>>

NextOf(c) == IF entry[c].state = "linked" THEN After(c) ELSE entry[c].next

CastNext ==
  /\ cast.pc = "next"
  /\ cast' = [cast EXCEPT !.at = NextOf(cast.at),
                          !.pc = IF NextOf(cast.at) = NULL THEN "end" ELSE "send"]
  /\ UNCHANGED <<osVars, acceptor, hashVars, threadVars, due, early>>

CastEnd ==
  /\ cast.pc = "end"
  /\ cast' = Silent
  /\ due' = NobodyDue
  /\ UNCHANGED <<osVars, acceptor, hashVars, threadVars, early>>

-----------------------------------------------------------------------------
(* The peers.                                                              *)
PeerLeaves(c) ==
  /\ peer[c] = "up"
  /\ peer' = [peer EXCEPT ![c] = "gone"]
  /\ UNCHANGED <<fd, owner, acceptor, hashVars, threadVars, castVars, early>>

-----------------------------------------------------------------------------
RunServerLoop ==
  (\E c \in Conns : Accept(c) \/ Spawn(c)) \/ AcceptFails

(* What a client thread does without being sent anything.                  *)
Serve(c) ==
  FindSession(c) \/ Reply(c) \/ ConnectionLost(c) \/ StatusLost(c) \/ Wipe(c)

SendToAll == CastBegin \/ CastSend \/ CastNext \/ CastEnd

Next ==
  \/ RunServerLoop
  \/ \E c \in Conns : Serve(c) \/ \E v \in Versions[c] : Receive(c, v)
  \/ SendToAll
  \/ \E c \in Conns : PeerLeaves(c)

Spec == Init /\ [][Next]_vars

-----------------------------------------------------------------------------
(* Properties                                                              *)

Proper(c) == \E v \in 0..CacheVersion : Versions[c] = {v}

(* A client that is served has its own CacheClient, in the hash, with its  *)
(* descriptor or -1 - unless a descriptor was handed out again before the  *)
(* thread that had it was through with handleStatus.                       *)
ServedFromOwnEntry ==
  ~early => \A c \in Conns : thread[c] \in {"loop", "reply"} =>
    ccl[c] = c /\ entry[c].state = "linked" /\ entry[c].fd \in {fd[c], -1}

(* A peer that keeps to one version the cache knows is not hung up on, and *)
(* is answered in that version.                                            *)
ProperPeersServed ==
  ~early => \A c \in Conns : Proper(c) =>
    /\ peer[c] # "closed"
    /\ thread[c] = "reply" => entry[ccl[c]].version \in Versions[c]

(* "Send a SERIAL NOTIFY to all clients": exactly one to each that was     *)
(* there from the beginning to the end, if no other one left meanwhile.    *)
NotifyReachesAll ==
  cast.pc = "end" /\ ~early => \A c \in Conns : peer[c] = "up" => due[c] \in {"no", "told"}

(* A thread that has ended leaves no CacheClient behind that a message     *)
(* would be sent to: it is off the hash, or -1 was written into it by a    *)
(* send that failed, which is why it is still there.                       *)
EndedClientsForgotten ==
  ~early => \A c \in Conns :
    thread[c] \in {"wipe", "done"} => c \notin Linked \/ entry[c].fd = -1
=============================================================================
