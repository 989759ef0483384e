----------------------------- MODULE MCDownload ------------------------------
(* Instances of Download: a piece of two blocks and a last piece of one.   *)
EXTENDS Download, TLC

MCBlocksIn == [p \in 0 .. PieceCount - 1 |-> IF p = 0 THEN 2 ELSE 1]
MCAnyBitfield == SUBSET (0 .. PieceCount - 1)
MCSeeds == {0 .. PieceCount - 1}
Symmetry == Permutations(Sessions)
=============================================================================
