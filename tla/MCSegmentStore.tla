--------------------------- MODULE MCSegmentStore ---------------------------
(* Constant values for model-checking SegmentStore.                         *)
EXTENDS SegmentStore, TLC

\* Two cases whose windows share a segment.
MCOverlap == [c \in Cases |-> {c, c + 1}]

MCSymmetry == Permutations(Cleaners)

=============================================================================
