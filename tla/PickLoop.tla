------------------------------ MODULE PickLoop -------------------------------
(***************************************************************************)
(* PieceDownload::pick_blocks (download.rs) as it runs: a loop over the    *)
(* blocks that stops when enough are picked.  Its callers hold the lock of *)
(* the download, so that elsewhere it is one step, which picks the set     *)
(* that PieceDownload names; here is why it is that set.                   *)
(***************************************************************************)
EXTENDS Integers, FiniteSets, Sequences, SequencesExt, AlgorithmRun

CONSTANT BlockCount   \* bound: blocks of a piece to pick from

ASSUME PickAssumption == BlockCount \in Nat

Table == INSTANCE PieceDownload

Indices == 0 .. BlockCount - 1
Tables == [Indices -> Table!BlockStatus]

StartPick ==
  /\ input.algorithm = "pick" /\ result = NotRun
  /\ \E count \in 0 .. BlockCount, in_end_game \in BOOLEAN, prev \in SUBSET Indices :
       result' = [op |-> "pick", count |-> count, in_end_game |-> in_end_game, prev_picked |-> prev,
                  i |-> 0, blocks |-> input.blocks, pick_buf |-> <<>>]
  /\ UNCHANGED input

\* Mutant of Picking: the buffer is never full.
Picking_IgnoresCount == result.op = "pick" /\ result.i < BlockCount

\* The loop goes on until the blocks are at an end or enough are picked.
Picking == result.op = "pick" /\ result.i < BlockCount /\ Len(result.pick_buf) # result.count

PickFree ==
  /\ Picking /\ result.blocks[result.i] = "Free"
  /\ result' = [result EXCEPT !.i = @ + 1, !.blocks[result.i] = "Requested",
                              !.pick_buf = Append(@, result.i)]
  /\ UNCHANGED input

\* In endgame a block requested by others is picked too, and stays as it is.
IsOthers == result.in_end_game /\ result.blocks[result.i] = "Requested" /\ result.i \notin result.prev_picked

PickRequested ==
  /\ Picking /\ IsOthers
  /\ result' = [result EXCEPT !.i = @ + 1, !.pick_buf = Append(@, result.i)]
  /\ UNCHANGED input

SkipBlock ==
  /\ Picking /\ result.blocks[result.i] # "Free" /\ ~ IsOthers
  /\ result' = [result EXCEPT !.i = @ + 1]
  /\ UNCHANGED input

-----------------------------------------------------------------------------
PickInit == input \in {[algorithm |-> "pick", blocks |-> t] : t \in Tables} /\ result = NotRun

PickNext == StartPick \/ PickFree \/ PickRequested \/ SkipBlock

PickSpec == PickInit /\ [][PickNext]_vars

-----------------------------------------------------------------------------
(* The loop picks exactly the blocks that the set PickedBlocks names, each *)
(* once, and marks what was free among them as requested.                  *)
LoopPicks ==
  result.op = "pick" /\ ~ Picking =>
    LET picked == Table!PickedBlocks(input.blocks, result.count, result.in_end_game, result.prev_picked)
    IN /\ ToSet(result.pick_buf) = picked
       /\ IsInjective(result.pick_buf)
       /\ Cardinality(picked) <= result.count
       /\ result.blocks = Table!MarkRequested(input.blocks, picked)
=============================================================================
