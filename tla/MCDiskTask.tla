----------------------------- MODULE MCDiskTask ------------------------------
(* Instance of DiskTask: two pieces of one block each. *)
EXTENDS DiskTask

MCBlocksIn == [p \in 0 .. PieceCount - 1 |-> 1]
=============================================================================
