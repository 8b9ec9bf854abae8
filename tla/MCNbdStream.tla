----------------------------- MODULE MCNbdStream -----------------------------
(***************************************************************************)
(* Instances of NbdStream for TLC.                                         *)
(***************************************************************************)
EXTENDS NbdStream

CONSTANTS n1, n2

Nodes == <<n1, n2>>

\* No name, or two to try.
GivenNames == {<<>>, <<n2, n1>>}
=============================================================================
