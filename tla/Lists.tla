--------------------------------- MODULE Lists ---------------------------------
(***************************************************************************)
(* Sorting and filtering of lists (slices.Sort, sort.Slice and the loops   *)
(* that append what passes a test), defined so that their properties can   *)
(* be proved: SortSeq and SelectSeq are opaque to the prover.              *)
(***************************************************************************)
EXTENDS Integers, SequencesExt

(* The elements of S, smallest first, for a strict total order.  An        *)
(* element comes after as many others as are smaller.                      *)
Rank(S, Less(_, _), x) == Cardinality({y \in S : Less(y, x)})
InOrder(S, Less(_, _)) ==
  [i \in 1 .. Cardinality(S) |-> CHOOSE x \in S : Rank(S, Less, x) = i - 1]

(* The elements of a list that are in S, in their order. *)
Passing(list, S) ==
  FoldLeft(LAMBDA kept, x : IF x \in S THEN Append(kept, x) ELSE kept, <<>>, list)
===============================================================================
