---------------------------- MODULE PieceDownload ----------------------------
(***************************************************************************)
(* The block table of one piece download (download.rs) as operators on a   *)
(* function from block indices to statuses.  Offsets and lengths follow    *)
(* from the index, so a BlockInfo is the index alone.                      *)
(***************************************************************************)
EXTENDS Integers, FiniteSets

BlockStatus == {"Free", "Requested", "Received"}

\* PieceDownload::new for a piece of count blocks: every block is free.
NewBlocks(count) == [i \in 0 .. count - 1 |-> "Free"]

\* The blocks that pick_blocks accepts: free ones and, in endgame, those
\* requested by others, i.e. that are not among the caller's own requests.
Eligible(blocks, in_end_game, prev_picked) ==
  {i \in DOMAIN blocks :
     \/ blocks[i] = "Free"
     \/ in_end_game /\ blocks[i] = "Requested" /\ i \notin prev_picked}

\* The members of a set of indices that a scan from 0 meets first.
FirstOf(S, count) == {i \in S : Cardinality({j \in S : j < i}) < count}

\* What pick_blocks appends to the pick buffer, and the table it leaves.
PickedBlocks(blocks, count, in_end_game, prev_picked) ==
  FirstOf(Eligible(blocks, in_end_game, prev_picked), count)

MarkRequested(blocks, picked) ==
  [i \in DOMAIN blocks |-> IF i \in picked THEN "Requested" ELSE blocks[i]]

\* received_block in a release build: the status is overwritten whatever it
\* was (debug_assert! is compiled out), and the old one is returned.
ReceivedBlock(blocks, i) == [blocks EXCEPT ![i] = "Received"]

\* free_block for each of a set of blocks: no look at their current status.
FreeBlocks(blocks, S) == [i \in DOMAIN blocks |-> IF i \in S THEN "Free" ELSE blocks[i]]

FreeAllBlocks(blocks) == [i \in DOMAIN blocks |-> "Free"]
=============================================================================
