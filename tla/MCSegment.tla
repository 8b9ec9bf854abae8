------------------------------ MODULE MCSegment ------------------------------
(***************************************************************************)
(* Instances of Segment for TLC.                                           *)
(***************************************************************************)
EXTENDS Segment, TLC

CONSTANTS a, b, z

\* Non-zero values are interchangeable, and so are goroutines of one kind.
Symmetry == Permutations(Val \ {Zero}) \cup Permutations(IO)
=============================================================================
