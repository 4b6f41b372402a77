--------------------------- MODULE SequenceFilters ---------------------------
(***************************************************************************)
(* A comprehension over a list with a condition: SelectSeq by the set of   *)
(* what is kept, as a fold, which the proofs can follow step by step.      *)
(***************************************************************************)
EXTENDS Sequences, SequencesExt

\* The elements of seq that are in kept, in their order.
Keep(seq, kept) ==
    FoldLeft(LAMBDA before, x : IF x \in kept THEN Append(before, x) ELSE before, <<>>, seq)

\* A sequence, of whatever elements.
IsSequence(seq) == seq \in Seq(ToSet(seq))

=============================================================================
