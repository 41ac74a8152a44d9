---------------------------- MODULE UpdateStack ----------------------------
(***************************************************************************)
(* The stacks of updates of brio_tg: the doubly linked list of             *)
(* linked_list.c under the stack functions of stack.c, and the join of two *)
(* stacks in postProcessUpdateStack, which works on the links themselves.  *)
(*                                                                         *)
(* A list is what can be reached from its head, whether its tail pointer   *)
(* is set (it then points at the last element reached) and its counter.    *)
(***************************************************************************)
EXTENDS Naturals, Sequences, SequencesExt

initStack == [chain |-> <<>>, tail |-> FALSE, count |-> 0]

isStackEmpty(s) == s.count = 0

(* addListElem: without a tail pointer the new element becomes the head.   *)
fifoPush(s, e) ==
  [chain |-> (IF s.tail THEN s.chain ELSE <<>>) \o <<e>>,
   tail  |-> TRUE,
   count |-> s.count + 1]

(* insertListElem with a comparison that always says "before".             *)
pushStack(s, e) ==
  IF s.chain = <<>> THEN fifoPush(s, e)
  ELSE [s EXCEPT !.chain = <<e>> \o @, !.count = @ + 1]

(* popStack reads the element at the head if the counter is not zero.      *)
HeadMissing(s) == s.count # 0 /\ s.chain = <<>>

peekStack(s) == Head(s.chain)

popStack(s) ==
  [chain |-> Tail(s.chain),
   tail  |-> s.tail /\ Len(s.chain) > 1,
   count |-> s.count - 1]

(* postProcessUpdateStack: the elements of p go before those of s; the     *)
(* tail pointer of s is left as it is.                                     *)
JoinedBehind(p, s) ==
  [chain |-> s.chain \o p.chain, tail |-> s.tail, count |-> s.count + p.count]
Joined(p, s) ==
  [chain |-> p.chain \o s.chain, tail |-> s.tail, count |-> s.count + p.count]

(* A list whose counter and tail pointer fit its elements.                 *)
Sound(s) == s.count = Len(s.chain) /\ (s.tail <=> s.chain # <<>>)

(* One element after the other is added to a stack.                        *)
PushedOn(s, updates) == FoldLeft(fifoPush, s, updates)
Pushed(updates) == PushedOn(initStack, updates)
=============================================================================
