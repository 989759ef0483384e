-------------------------- MODULE MCDiskWriterAlone --------------------------
(* Instance of DiskWriterAlone: a piece of two blocks and a last piece of one. *)
EXTENDS DiskWriterAlone

MCBlocksIn == [p \in 0 .. 1 |-> IF p = 0 THEN 2 ELSE 1]
=============================================================================
