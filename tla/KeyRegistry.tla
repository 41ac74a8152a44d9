----------------------------- MODULE KeyRegistry -----------------------------
(***************************************************************************)
(* What the key storage of the bgpsec_openssl plug-in promises its callers: *)
(* a set of keys, each found under its AS number and SKI, that a request   *)
(* adds to or takes from.  The keys of the request are in the set, or out  *)
(* of it, when it is answered.  While exact is TRUE nothing else happens   *)
(* to the set; otherwise other keys may get lost on the way, but none      *)
(* comes back.                                                             *)
(***************************************************************************)
CONSTANT Keys
VARIABLES
  keys, exact,
  asked   \* the last request that was answered: what to do, with which keys

(* What registering the keys in S, and unregistering them, may make of the *)
(* keys in old.                                                            *)
Registered(old, new, S) ==
  S \subseteq new /\ new \subseteq old \cup S /\ (exact => old \subseteq new)
Unregistered(old, new, S) ==
  new \subseteq old \ S /\ (exact => old \ S \subseteq new)

Step(old, new, request) ==
  \/ request[1] = "register"   /\ Registered(old, new, request[2])
  \/ request[1] = "unregister" /\ Unregistered(old, new, request[2])

(* What is bound here is evaluated once.  A step that changes neither      *)
(* variable answers the last request again: its keys are still in, or out. *)
Next == \E old \in {keys}, new \in {keys'}, request \in {asked'} : Step(old, new, request)

Spec == keys = {} /\ asked = <<"unregister", Keys>> /\ [][Next]_<<keys, asked>>
=============================================================================
