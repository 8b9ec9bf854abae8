--------------------------- MODULE MCObjStoreDevice ---------------------------
(***************************************************************************)
(* Instances of ObjStoreDevice for TLC.                                    *)
(***************************************************************************)
EXTENDS ObjStoreDevice, TLC

\* Across a segment boundary, and past the last segment.
Requests == {<<"read", 1, 4>>, <<"write", 3, 4>>}

\* Writes of more segments than the quota has units: one evicts what another has
\* written again while a flush uploads it from its buffer.
WideRequests == {<<"read", 3, 4>>, <<"write", 1, 4>>}

\* Goroutines of one kind are interchangeable.
Symmetry == Permutations(IO) \cup Permutations(Closer)
=============================================================================
