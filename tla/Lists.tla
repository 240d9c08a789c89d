-------------------------------- MODULE Lists --------------------------------
(***************************************************************************)
(* Choosing from a list, as a comprehension with a condition does.         *)
(***************************************************************************)
EXTENDS Naturals, Sequences, SequencesExt

\* The elements of a list at the chosen places, in order.
Those(list, chosen) ==
    FlattenSeq([i \in 1 .. Len(list) |-> IF i \in chosen THEN <<list[i]>> ELSE <<>>])
=============================================================================
