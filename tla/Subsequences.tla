---------------------------- MODULE Subsequences ----------------------------
(***************************************************************************)
(* What is left of a list, in its order, when some elements are left out.  *)
(* It is stated by positions, because the provers know no SelectSeq.       *)
(***************************************************************************)
EXTENDS Integers, SequencesExt

ElementsAt(seq, positions) ==
    FlattenSeq([i \in DOMAIN seq |-> IF i \in positions THEN <<seq[i]>> ELSE <<>>])
=============================================================================
