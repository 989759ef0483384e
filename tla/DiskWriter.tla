----------------------------- MODULE DiskWriter ------------------------------
(***************************************************************************)
(* The write path of the disk task for one torrent (disk.rs and            *)
(* disk/io/torrent.rs): blocks are collected per piece in the write        *)
(* buffer; the block that completes a piece moves the piece to a blocking  *)
(* thread, which hashes it, writes it and reports to the torrent.          *)
(***************************************************************************)
EXTENDS Integers, FiniteSets, Sequences

CONSTANTS
  PieceCount,    \* number of pieces in the torrent
  BlocksIn       \* BlocksIn[p]: number of blocks in piece p

ASSUME DiskAssumption ==
  /\ PieceCount \in Nat \ {0}
  /\ BlocksIn \in [0 .. PieceCount - 1 -> Nat \ {0}]

VARIABLES
  disk_queue,    \* WriteBlock commands sent to the disk task, in order
  write_buf,     \* blocks held in the write buffer
  write_jobs,    \* write_jobs[p]: blocking threads hashing and writing p
  written,       \* pieces whose bytes are in the files
  completions    \* PieceCompletion commands sent to the torrent, in order

diskVars == <<disk_queue, write_buf, write_jobs, written, completions>>

Pieces == 0 .. PieceCount - 1
BlocksOf(p) == {<<p, i>> : i \in 0 .. BlocksIn[p] - 1}
Blocks == UNION {BlocksOf(p) : p \in Pieces}

\* Ok(PieceCompletion {index, is_valid}), or Err, which names no piece.
Valid(p) == [result |-> "valid", index |-> p]
Invalid(p) == [result |-> "invalid", index |-> p]
WriteError == [result |-> "error"]
Completions == {Valid(p) : p \in Pieces} \cup {Invalid(p) : p \in Pieces} \cup {WriteError}

DiskInit ==
  /\ disk_queue = <<>>
  /\ write_buf = {}
  /\ write_jobs = [p \in Pieces |-> 0]
  /\ written = {}
  /\ completions = <<>>

-----------------------------------------------------------------------------
(* Operations.                                                             *)

\* disk_tx.send(WriteBlock): the channel is unbounded.
SendWriteBlock(b) ==
  /\ disk_queue' = Append(disk_queue, b)
  /\ UNCHANGED <<write_buf, write_jobs, written, completions>>

\* Mutants of IsComplete: complete with one block missing, and never complete.
IsComplete_LacksOne(p, buffered) == Cardinality(BlocksOf(p) \ buffered) <= 1
IsComplete_WantsOneMore(p, buffered) == Cardinality(BlocksOf(p) \cap buffered) > BlocksIn[p]

\* Piece::is_complete: all of its blocks are in its buffer.
IsComplete(p, buffered) == BlocksOf(p) \subseteq buffered

\* Torrent::write_block: the block enters its piece's buffer, where a second
\* copy of it is dropped; a complete piece leaves the buffer at once.
write_block(b) ==
  LET buffered == write_buf \cup {b}
      complete == IsComplete(b[1], buffered)
  IN /\ write_buf' = IF complete THEN buffered \ BlocksOf(b[1]) ELSE buffered
     /\ write_jobs' = IF complete THEN [write_jobs EXCEPT ![b[1]] = @ + 1] ELSE write_jobs
     /\ UNCHANGED <<written, completions>>

\* The disk task takes a WriteBlock command off its channel.
WriteBlock ==
  /\ disk_queue # <<>>
  /\ disk_queue' = Tail(disk_queue)
  /\ write_block(Head(disk_queue))

\* A blocking thread ends and reports to the torrent; its mutants start from
\* no thread and report before the write.
Finish_Unguarded(p, completion) ==
  /\ write_jobs' = [write_jobs EXCEPT ![p] = @ - 1]
  /\ completions' = Append(completions, completion)
  /\ UNCHANGED <<disk_queue, write_buf>>

Finish(p, completion) ==
  /\ write_jobs[p] > 0
  /\ write_jobs' = [write_jobs EXCEPT ![p] = @ - 1]
  /\ completions' = Append(completions, completion)
  /\ UNCHANGED <<disk_queue, write_buf>>

FinishValid_ReportsOnly(p) == Finish(p, Valid(p)) /\ UNCHANGED written

\* The three ways it ends: the hash matches and the write
\* succeeds, hash does not match, hash matches and the write fails.
FinishValid(p) == Finish(p, Valid(p)) /\ written' = written \cup {p}
FinishInvalid(p) == Finish(p, Invalid(p)) /\ UNCHANGED written
FinishError(p) == Finish(p, WriteError) /\ UNCHANGED written

\* The torrent task takes a PieceCompletion command off its channel.
TakeCompletion ==
  /\ completions # <<>>
  /\ completions' = Tail(completions)
  /\ UNCHANGED <<disk_queue, write_buf, write_jobs, written>>

DiskTypeOK ==
  /\ disk_queue \in Seq(Blocks)
  /\ write_buf \subseteq Blocks
  /\ write_jobs \in [Pieces -> Nat]
  /\ written \subseteq Pieces
  /\ completions \in Seq(Completions)
=============================================================================
