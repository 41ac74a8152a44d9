----------------------------- MODULE KeyStorage -----------------------------
(***************************************************************************)
(* The key storage of the bgpsec_openssl plug-in (key_storage.c), as the   *)
(* plug-in uses it for public keys, and the choice of the key a signature  *)
(* is verified with (validate).                                            *)
(*                                                                         *)
(* A bucket is a doubly linked list ordered by AS number.  A back pointer  *)
(* is either the element before or NULL - and NULL also where there is an  *)
(* element before: the list is a sequence, back says which it is.          *)
(***************************************************************************)
EXTENDS Integers, Sequences, FiniteSets, SequencesExt

CONSTANTS
  Keys,      \* the keys the callers use, see Key
  Materials, \* DER encoded key data
  Bad,       \* the ones d2i or EC_KEY_check_key refuse
  Sources,   \* where keys come from (sca_key_source_t)
  Hole,      \* a NULL in the array derKey
  MaxSize    \* bound: keys counted in the storage

ASNs == {k.asn : k \in Keys}
Skis == {k.ski : k \in Keys}

(* BGPSecKey.  ours: its algorithm is the one of the storage.              *)
Key == [asn : Nat, ski : {k.ski : k \in Keys}, data : Materials, ours : BOOLEAN]

ASSUME KeyInputs ==
  /\ Keys \subseteq Key
  /\ Bad \subseteq Materials
  /\ Hole \notin Materials

INTERNAL == 0  \* SCA_KSOURCE_INTERNAL
KS_BUCKETS == 256

(* _ks_getBucket: the sum of the bytes of the AS number.                   *)
Bucket(asn) ==
  (asn \div 2^24 + ((asn \div 2^16) % 256) + ((asn \div 2^8) % 256) + (asn % 256)) % KS_BUCKETS

(* The storage goes by the bucket of the AS number; a key of another       *)
(* algorithm ends up in bucket 0.                                          *)
Home(k) == IF k.ours THEN Bucket(k.asn) ELSE 0

VARIABLES
  head,    \* storage->head: per bucket its list
  size,    \* storage->size
  crashed, \* a NULL pointer was followed
  asked    \* history: the last call that returned, as a request to the registry

storage == <<head, size, crashed>>
vars == <<storage, asked>>

(* KS_Key_Element; noKeys is the length of keys.                           *)
Element == [asn : ASNs, ski : Skis, keys : Seq(Materials \cup {Hole}), back : BOOLEAN]

(* Only the buckets of the keys used can hold anything.                    *)
Buckets == {Bucket(a) : a \in ASNs} \cup {0}

(* The keys as the callers know them, those that can be used.              *)
Data(k) == [asn |-> k.asn, ski |-> k.ski, data |-> k.data]
Wanted == {Data(k) : k \in {j \in Keys : j.data \notin Bad}}

TypeOK ==
  /\ head \in [Buckets -> Seq(Element)]
  /\ size \in Nat
  /\ crashed \in BOOLEAN
  /\ asked \in {"register", "unregister"} \X SUBSET Wanted

Init ==
  /\ head = [b \in Buckets |-> <<>>] /\ size = 0 /\ crashed = FALSE
  /\ asked = <<"unregister", Wanted>>

-----------------------------------------------------------------------------
(* Walking a list: on while the AS number is smaller or the SKI another;   *)
(* 0 when the walk runs off the end.                                       *)
SameName(e, k) == e.asn = k.asn /\ e.ski = k.ski

(* Bug: the walk does not stop at a larger AS number.                      *)
StopAtName(L, k) == SelectInSeq(L, LAMBDA e : SameName(e, k))
Stop(L, k) == SelectInSeq(L, LAMBDA e : e.asn > k.asn \/ SameName(e, k))
Known(L, k) == Stop(L, k) # 0 /\ SameName(L[Stop(L, k)], k)

(* Where the scan of an element's keys for some data stops: at the data or *)
(* at a hole, which it dereferences.                                       *)
Scan(e, d) == SelectInSeq(e.keys, LAMBDA s : s \in {Hole, d})
HitsHole(e, d) == Scan(e, d) # 0 /\ e.keys[Scan(e, d)] = Hole

New(k, back) == [asn |-> k.asn, ski |-> k.ski, keys |-> <<k.data>>, back |-> back]

Running == ~crashed /\ size < MaxSize

-----------------------------------------------------------------------------
(* ks_storeKey with convert = true (_registerKey).  A key that cannot be   *)
(* converted yields no element.                                            *)
StoreFirst(k) ==
  /\ Running
  /\ head[Home(k)] = <<>>
  /\ IF k.data \in Bad
     THEN UNCHANGED <<head, size>>
     ELSE /\ head' = [head EXCEPT ![Home(k)] = <<New(k, FALSE)>>]
          /\ size' = size + 1
  /\ UNCHANGED crashed

(* The walk ran off the end.  Behind an element of the same AS number the  *)
(* back pointer is not set.                                                *)
StoreLast(k) ==
  LET L == head[Home(k)] IN
  /\ Running
  /\ L # <<>> /\ Stop(L, k) = 0
  /\ Last(L).asn # k.asn => k.data \notin Bad
  /\ IF k.data \in Bad
     THEN UNCHANGED <<head, size>>
     ELSE /\ head' = [head EXCEPT ![Home(k)] = Append(L, New(k, Last(L).asn # k.asn))]
          /\ size' = size + 1
  /\ UNCHANGED crashed

(* The new element takes over the back pointer of the one it is put before *)
(* and is the new head when that is NULL.                                  *)
StoreBefore(k) ==
  LET L == head[Home(k)]
      i == Stop(L, k)
  IN
  /\ Running
  /\ i # 0 /\ ~Known(L, k)
  /\ k.data \notin Bad
  /\ LET front == IF L[i].back THEN SubSeq(L, 1, i - 1) ELSE <<>>
         rest  == <<[L[i] EXCEPT !.back = TRUE]>> \o SubSeq(L, i + 1, Len(L))
     IN head' = [head EXCEPT ![Home(k)] = front \o <<New(k, L[i].back)>> \o rest]
  /\ size' = size + 1
  /\ UNCHANGED crashed

(* Same AS number and SKI: a duplicate, or one more key of the element,    *)
(* kept even if it cannot be converted.                                    *)
StoreKnown(k) ==
  LET L == head[Home(k)]
      i == Stop(L, k)
  IN
  /\ Running
  /\ Known(L, k)
  /\ ~HitsHole(L[i], k.data)
  /\ IF Scan(L[i], k.data) # 0
     THEN UNCHANGED <<head, size>>
     ELSE /\ head' = [head EXCEPT ![Home(k)][i].keys = Append(@, k.data)]
          /\ size' = size + 1
  /\ UNCHANGED crashed

(* The links to a new element that could not be created, and the length of *)
(* a key that is not there.                                                *)
StoreCrash(k) ==
  LET L == head[Home(k)]
      i == Stop(L, k)
  IN
  /\ Running
  /\ L # <<>>
  /\ \/ k.data \in Bad /\ i = 0 /\ Last(L).asn # k.asn
     \/ k.data \in Bad /\ i # 0 /\ ~Known(L, k)
     \/ Known(L, k) /\ HitsHole(L[i], k.data)
  /\ crashed' = TRUE
  /\ UNCHANGED <<head, size, asked>>

(* The call asks for the key, if it can be used and is put where it is     *)
(* looked for.                                                             *)
StoreKey(k) ==
  /\ StoreFirst(k) \/ StoreLast(k) \/ StoreBefore(k) \/ StoreKnown(k)
  /\ asked' = <<"register", {w \in Wanted : w = Data(k) /\ Home(k) = Bucket(k.asn)}>>

-----------------------------------------------------------------------------
(* _ks_freeKS_Elem: without a back pointer the element passes for the head *)
(* of the list; the one after it always loses its own.                     *)
Unlinked(L, i) ==
  LET front == IF L[i].back THEN SubSeq(L, 1, i - 1) ELSE <<>>
      rest  == SubSeq(L, i + 1, Len(L))
  IN front \o IF rest = <<>> THEN <<>> ELSE [rest EXCEPT ![1].back = FALSE]

(* Bug: the array is cut off, whichever key was to go.                     *)
LastCutOff(ks, j) == SubSeq(ks, 1, Len(ks) - 1)

(* The array derKey without its j-th key: the keys behind move up, except  *)
(* the last, since the loop's limit has already been lowered.              *)
Without(ks, j) ==
  [p \in 1..(Len(ks) - 1) |->
     IF p < j THEN ks[p]
     ELSE IF p < Len(ks) - 1 THEN ks[p + 1]
     ELSE Hole]

(* ks_delKey of a key without data: all keys of its AS number and SKI.     *)
DeleteAll(k) ==
  LET L == head[Home(k)]
      i == Stop(L, k)
  IN
  /\ ~crashed
  /\ k.ours
  /\ Known(L, k)
  /\ head' = [head EXCEPT ![Home(k)] = Unlinked(L, i)]
  /\ size' = size - Len(L[i].keys)
  /\ UNCHANGED crashed

(* Bug: the element subtracts its key once more when it goes.              *)
DeleteOneCountedTwice(k) ==
  LET L == head[Home(k)]
      i == Stop(L, k)
  IN
  /\ ~crashed
  /\ k.ours
  /\ Known(L, k)
  /\ Scan(L[i], k.data) # 0
  /\ ~HitsHole(L[i], k.data)
  /\ head' = [head EXCEPT ![Home(k)] =
       IF Len(L[i].keys) = 1 THEN Unlinked(L, i)
       ELSE [L EXCEPT ![i].keys = Without(@, Scan(L[i], k.data))]]
  /\ size' = size - IF Len(L[i].keys) = 1 THEN 2 ELSE 1
  /\ UNCHANGED crashed

(* ks_delKey of a key with data: that version of the key.                  *)
DeleteOne(k) ==
  LET L == head[Home(k)]
      i == Stop(L, k)
  IN
  /\ ~crashed
  /\ k.ours
  /\ Known(L, k)
  /\ Scan(L[i], k.data) # 0
  /\ ~HitsHole(L[i], k.data)
  /\ head' = [head EXCEPT ![Home(k)] =
       IF Len(L[i].keys) = 1 THEN Unlinked(L, i)
       ELSE [L EXCEPT ![i].keys = Without(@, Scan(L[i], k.data))]]
  /\ size' = size - 1
  /\ UNCHANGED crashed

DeleteCrash(k) ==
  LET L == head[Home(k)] IN
  /\ ~crashed
  /\ k.ours
  /\ Known(L, k) /\ HitsHole(L[Stop(L, k)], k.data)
  /\ crashed' = TRUE
  /\ UNCHANGED <<head, size, asked>>

(* A key of another algorithm is refused, and what is not found is left.   *)
DeleteNothing(k, there) ==
  /\ ~crashed
  /\ ~k.ours \/ ~there
  /\ UNCHANGED storage

DeleteName(k) ==
  /\ DeleteAll(k) \/ DeleteNothing(k, Known(head[Home(k)], k))
  /\ asked' = <<"unregister", {w \in Wanted : SameName(w, k) /\ k.ours}>>

DeleteKey(k) ==
  LET L == head[Home(k)] IN
  /\ \/ DeleteOne(k)
     \/ DeleteNothing(k, Known(L, k) /\ Scan(L[Stop(L, k)], k.data) # 0)
  /\ asked' = <<"unregister", {w \in Wanted : w = Data(k) /\ k.ours}>>

(* What the lists hold: the places in the arrays of their elements.        *)
KeyPlaces(L) == UNION {{i} \X (1..Len(L[i].keys)) : i \in 1..Len(L)}
Total == Cardinality(UNION {{b} \X KeyPlaces(head[b]) : b \in Buckets})

(* cleanKeys, ks_removeSource: the source of an element is never set, that *)
(* is, INTERNAL.  Each element but the last is freed through the back      *)
(* pointer of the next.                                                    *)
CleanKeys(source) ==
  /\ ~crashed
  /\ source = INTERNAL
  /\ IF \A b \in Buckets : \A i \in 2..Len(head[b]) : head[b][i].back
     THEN /\ head' = [b \in Buckets |-> <<>>]
          /\ size' = size - Total
          /\ asked' = <<"unregister", Wanted>>
          /\ UNCHANGED crashed
     ELSE crashed' = TRUE /\ UNCHANGED <<head, size, asked>>

(* release, and init for the next use: ks_empty frees head after head.     *)
Reinit ==
  /\ ~crashed
  /\ head' = [b \in Buckets |-> <<>>]
  /\ size' = 0
  /\ asked' = <<"unregister", Wanted>>
  /\ UNCHANGED crashed

-----------------------------------------------------------------------------
Next ==
  \/ \E k \in Keys :
       \/ StoreKey(k) \/ StoreCrash(k)
       \/ DeleteName(k) \/ DeleteKey(k) \/ DeleteCrash(k)
  \/ \E source \in Sources : CleanKeys(source)
  \/ Reinit

Spec == Init /\ [][Next]_vars

-----------------------------------------------------------------------------
(* Looking keys up                                                         *)

(* ks_getKey: the keys of the element; the bad ones and the holes are NULL *)
(* in ec_key.                                                              *)
GetKey(asn, ski) ==
  LET L == head[Bucket(asn)]
      k == [asn |-> asn, ski |-> ski]
  IN IF Known(L, k) THEN L[Stop(L, k)].keys ELSE <<>>

(* Bug: the outcome of the last key counts, and a NULL is none.            *)
VerifiesLast(asn, ski, signer) ==
  LET ks == GetKey(asn, ski)
  IN ks # <<>> /\ Last(ks) = signer

(* validate tries the keys that are not NULL, and stops at the first one   *)
(* that does not verify the signature - or that does.                      *)
Verifies(asn, ski, signer) ==
  LET ks == GetKey(asn, ski)
      i  == SelectInSeq(ks, LAMBDA d : d \notin Bad \cup {Hole})
  IN i # 0 /\ ks[i] = signer

Found == {k \in Wanted : k.data \in ToSet(GetKey(k.asn, k.ski))}

-----------------------------------------------------------------------------
(* Properties                                                              *)

(* A list stays ordered by AS number and has one element per AS number and *)
(* SKI, also after elements got lost, and the first one has no back        *)
(* pointer: what the walks of store, delete and get rely on.               *)
SortedUnique ==
  \A b \in Buckets :
    /\ \A i, j \in 1..Len(head[b]) : i < j =>
         head[b][i].asn <= head[b][j].asn /\ ~SameName(head[b][i], head[b][j])
    /\ head[b] # <<>> => ~head[b][1].back

(* Whatever the pointers, the key that a call registers is found, a key    *)
(* that a call unregisters is not, by its name or with its data, and no    *)
(* other key turns up.  As long as all back pointers are right and no      *)
(* element holds two keys, no other key is lost either.                    *)
Linked ==
  \A b \in Buckets : \A i \in 1..Len(head[b]) :
    (i > 1 => head[b][i].back) /\ Len(head[b][i].keys) = 1

Registry == INSTANCE KeyRegistry WITH
  Keys <- Wanted, keys <- Found, exact <- Linked
ImplementsRegistry == Registry!Spec

(* A signature is verified if the key that made it is the only usable one  *)
(* of its AS number and SKI, whatever bad keys and holes lie around it.    *)
OnlyKeyVerifies ==
  \A k \in Found :
    (\A j \in Found : SameName(j, k) => j = k) => Verifies(k.asn, k.ski, k.data)
=============================================================================
