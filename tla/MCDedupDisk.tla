----------------------------- MODULE MCDedupDisk -----------------------------
(***************************************************************************)
(* Instances of DedupDisk for TLC: two blocks, contents a, b and zero.     *)
(***************************************************************************)
EXTENDS DedupDisk, TLC

CONSTANTS a, b, z

On(k, v) == [blk |-> k, val |-> v]

\* Writes of one block and of both, with contents that are stored once.
Longer == {<<On(1, a)>>, <<On(2, z)>>, <<On(1, a), On(2, a)>>, <<On(1, z), On(2, a)>>,
           <<On(1, a), On(2, z)>>}

\* Writes of the first block.
OneBlock == {<<On(1, v)>> : v \in {a, b, z}}

\* Writes of both blocks.
Double == {<<On(1, v), On(2, w)>> : v, w \in {a, b, z}}

\* Equal and different contents for one block, and both in one write.
Mixed == {<<On(1, a)>>, <<On(1, b)>>, <<On(1, z)>>, <<On(1, a), On(2, a)>>,
          <<On(1, b), On(2, a)>>}

Symmetry == Permutations(Writer)
=============================================================================
