-------------------------------- MODULE Sums --------------------------------
(***************************************************************************)
(* Lengths that are added up: of signatures, attributes, capabilities.     *)
(***************************************************************************)
EXTENDS Integers, Sequences

(* The sum of a sequence of numbers.                                       *)
Total(numbers) ==
  LET upTo[i \in 0..Len(numbers)] == IF i = 0 THEN 0 ELSE upTo[i - 1] + numbers[i]
  IN upTo[Len(numbers)]
=============================================================================
