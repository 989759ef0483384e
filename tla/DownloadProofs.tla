--------------------------- MODULE DownloadProofs ----------------------------
(***************************************************************************)
(* Proofs about Download, for any number of sessions, pieces, blocks and   *)
(* faults: its types, the agreement of the piece picker with the table of  *)
(* downloads, the exactness of the picker's counters, and that every piece *)
(* we own is in the files.  None of these is inductive alone: what ties    *)
(* them is that everything on its way through the disk belongs to a picked *)
(* piece, and that what is reported valid has been written.  On the same   *)
(* invariant rest two action properties: Download implements PieceLife,    *)
(* and no step takes a session's request queue past its target.            *)
(* The last part is about what becomes of a block: while it is requested a *)
(* session holds it, once received it is on its way to the files, and      *)
(* outside endgame no two sessions hold it.  Each holds unless one kind of *)
(* fault breaks it, and is proved for every instance without that kind.    *)
(***************************************************************************)
EXTENDS Download, Basics

PickerProofs == INSTANCE PiecePickerProofs WITH MaxSessions <- Cardinality(Sessions)

-----------------------------------------------------------------------------
(* The inductive invariant.                                                *)

\* Blocks of pieces that have been picked, and the reports on such pieces.
PickedPieces == Pieces \cap is_pending
BlocksOfPicked == {b \in Blocks : b[1] \in is_pending}
Reports ==
  {Disk!Valid(p) : p \in PickedPieces \cap written} \cup
  {Disk!Invalid(p) : p \in PickedPieces} \cup {Disk!WriteError}

PickerInv == Picker!TypeOK /\ Picker!CountsExact

\* The table of downloads, and what the torrent task is registering.
TablesTyped ==
  /\ DOMAIN downloads \subseteq Pieces
  /\ \A p \in DOMAIN downloads : downloads[p] \in [0 .. BlocksIn[p] - 1 -> Table!BlockStatus]
TableInv ==
  /\ TablesTyped
  /\ PickedIsDownloading
  /\ registering \subseteq PickedPieces \cap written
  /\ panicked \in BOOLEAN

\* Whatever is on its way to the files or back belongs to a picked piece.
DiskInv ==
  /\ disk_queue \in Seq(BlocksOfPicked)
  /\ write_buf \subseteq BlocksOfPicked
  /\ write_jobs \in [Pieces -> Nat]
  /\ \A p \in Pieces : write_jobs[p] > 0 => p \in is_pending
  /\ written \subseteq Pieces
  /\ OwnedIsWritten
  /\ completions \in Seq(Reports)

SessionInv ==
  /\ connection \in [Sessions -> {"AvailabilityExchange", "Connected", "Disconnected"}]
  /\ is_choked \in [Sessions -> BOOLEAN]
  /\ is_interested \in [Sessions -> BOOLEAN]
  /\ peer_pieces \in [Sessions -> SUBSET Pieces]
  /\ target_len \in [Sessions -> 0 .. MaxLen]
  /\ outgoing_requests \in [Sessions -> SUBSET Blocks]
  /\ requests \in [Sessions -> SUBSET Blocks]
  /\ pc \in [Sessions -> {"select", "continue", "start"}]
  /\ wire \in [Sessions -> [Blocks -> Nat]]
  /\ faults \in [count : 0 .. MaxFaults, kinds : SUBSET FaultKinds]

\* The endgame flag travels from the torrent through commands to sessions.
Commands == [index : Pieces, in_endgame : {e \in BOOLEAN : e => in_endgame}]
EndgameInv ==
  /\ in_endgame \in BOOLEAN
  /\ session_endgame \in [Sessions -> BOOLEAN]
  /\ EndgameSound
  /\ cmds \in [Sessions -> Seq(Commands)]

IInv == PickerInv /\ TableInv /\ DiskInv /\ SessionInv /\ EndgameInv

-----------------------------------------------------------------------------
(* Lemmas on pieces and blocks.                                            *)

(* The picker and the disk number pieces and blocks as Download does.      *)
LEMMA SameNames ==
  /\ Picker!Pieces = Pieces
  /\ Disk!Pieces = Pieces
  /\ Disk!Blocks = Blocks
  /\ \A p : Disk!BlocksOf(p) = BlocksOf(p)
BY DEF Picker!Pieces, Disk!Pieces, Pieces, Disk!Blocks, Blocks, Disk!BlocksOf, BlocksOf

(* A block is a piece and an index in it.                                  *)
LEMMA BlockParts ==
  /\ \A b \in Blocks : b[1] \in Pieces /\ b[2] \in 0 .. BlocksIn[b[1]] - 1
  /\ \A p \in Pieces : BlocksOf(p) \subseteq Blocks /\ \A b \in BlocksOf(p) : b[1] = p
BY DEF Blocks, BlocksOf

(* The reports are distinguished by their results.                         *)
LEMMA ReportParts ==
  ASSUME NEW p \in Pieces, NEW report \in Reports
  PROVE  /\ report = Disk!Valid(p) => p \in PickedPieces \cap written
         /\ report = Disk!Invalid(p) => p \in PickedPieces
BY DEF Reports, Disk!Valid, Disk!Invalid, Disk!WriteError

-----------------------------------------------------------------------------
(* The picker's part of the invariant, carried over from PiecePickerProofs.*)

(* Every instance of the picker counts with the same Cardinality.          *)
LEMMA SameCardinality ==
  ASSUME NEW S
  PROVE  /\ Picker!Cardinality(S) = Cardinality(S)
         /\ PickerProofs!Cardinality(S) = Cardinality(S)
BY DEF Picker!Cardinality, PickerProofs!Cardinality, Cardinality

(* The invariant of the picker is the one that its own module proves.      *)
LEMMA SamePickerInv ==
  /\ PickerInv <=> PickerProofs!PickerInv
  /\ PickerInv' <=> PickerProofs!PickerInv'
BY SameCardinality
DEF PickerInv, Picker!TypeOK, Picker!CountsExact, Picker!Pieces, Picker!Missing, Picker!Free,
    PickerProofs!PickerInv, PickerProofs!TypeOK, PickerProofs!CountsExact,
    PickerProofs!Pieces, PickerProofs!Missing, PickerProofs!Free

(* The assumptions of the picker's theorems hold here.                     *)
LEMMA PickerHypotheses == PieceCount \in Nat \ {0} /\ Cardinality(Sessions) \in Nat
BY DownloadAssumption, FS_CardinalityType

(* A picker that owns nothing starts with exact counters.                  *)
LEMMA PickerStarts ==
  ASSUME Picker!New({})
  PROVE  PickerInv
<1>1. PickerProofs!New({}) /\ {} \in SUBSET PickerProofs!Pieces
  BY SameCardinality DEF Picker!New, PickerProofs!New, Picker!Pieces, PickerProofs!Pieces
<1>. QED BY <1>1, PickerHypotheses, PickerProofs!NewPicker, SamePickerInv

(* Picking a piece keeps the counters exact.                               *)
LEMMA PickKeepsPicker ==
  ASSUME PickerInv, NEW p \in Pieces, Picker!PickPiece(p)
  PROVE  PickerInv'
<1>1. PickerProofs!PickPiece(p) /\ p \in PickerProofs!Pieces
  BY DEF Pieces, PickerProofs!Pieces, Picker!PickPiece, Picker!IsFirstPickable, Picker!Pickable,
     Picker!Pieces, PickerProofs!PickPiece, PickerProofs!IsFirstPickable, PickerProofs!Pickable
<1>. QED BY <1>1, PickerHypotheses, PickerProofs!PickKeepsInv, SamePickerInv

(* Receiving a piece keeps the counters exact.                             *)
LEMMA ReceiveKeepsPicker ==
  ASSUME PickerInv, NEW p \in Pieces, Picker!ReceivedPiece(p)
  PROVE  PickerInv'
<1>1. PickerProofs!ReceivedPiece(p) /\ p \in PickerProofs!Pieces
  BY DEF Pieces, PickerProofs!Pieces, Picker!ReceivedPiece, PickerProofs!ReceivedPiece
<1>. QED BY <1>1, PickerHypotheses, PickerProofs!ReceiveKeepsInv, SamePickerInv

(* Registering a peer's pieces keeps the counters exact.                   *)
LEMMA RegisterKeepsPicker ==
  ASSUME PickerInv,
         \/ \E pieces \in SUBSET Pieces : Picker!RegisterPeerPieces(pieces)
         \/ \E p \in Pieces : Picker!RegisterPeerPiece(p)
  PROVE  PickerInv'
<1>1. \/ \E pieces \in SUBSET PickerProofs!Pieces : PickerProofs!RegisterPeerPieces(pieces)
      \/ \E p \in PickerProofs!Pieces : PickerProofs!RegisterPeerPiece(p)
  BY DEF Pieces, Picker!Pieces, PickerProofs!Pieces, Picker!RegisterPeerPieces,
     PickerProofs!RegisterPeerPieces, Picker!RegisterPeerPiece, PickerProofs!RegisterPeerPiece
<1>. QED BY <1>1, PickerHypotheses, PickerProofs!RegisterKeepsInv, SamePickerInv

-----------------------------------------------------------------------------
(* Steps of a session.                                                     *)

(* Freeing blocks keeps the tables what they are.                          *)
LEMMA FreedTyped ==
  ASSUME TablesTyped, NEW S
  PROVE  /\ DOMAIN Freed(S) = DOMAIN downloads
         /\ \A p \in DOMAIN downloads : Freed(S)[p] \in [0 .. BlocksIn[p] - 1 -> Table!BlockStatus]
BY DEF TablesTyped, Freed, Table!FreeBlocks, Table!BlockStatus

\* What most steps of a session leave as it is.
Quiet ==
  /\ UNCHANGED <<own_pieces, is_pending, missing_count, free_count, diskVars, torrentVars>>
  /\ DOMAIN downloads' = DOMAIN downloads
  /\ TablesTyped'

\* The steps that neither save a block nor start a download.
QuietStep(s) ==
  \/ \E pieces \in Bitfields : HandleBitfield(s, pieces)
  \/ HandleOtherFirst(s)
  \/ \E p \in Pieces : HandleHave(s, p)
  \/ HandleChoke(s)
  \/ HandleUnchoke(s)
  \/ ContinueDownloads(s)
  \/ SendRequests(s)
  \/ \E registered \in SUBSET requests[s] : SendFails(s, registered)
  \/ TimeOut(s)
  \/ AdjustTarget(s)
  \/ HandlePieceCompletion(s)
  \/ Leave(s)

(* Each of these steps leaves picker, disk and torrent task, and the set   *)
(* of downloads, as they are.                                              *)
LEMMA QuietSteps ==
  ASSUME TablesTyped, NEW s \in Sessions, QuietStep(s)
  PROVE  Quiet
<1>. USE DEF Quiet
<1>1. ASSUME NEW S, downloads' = Freed(S)
      PROVE  DOMAIN downloads' = DOMAIN downloads /\ TablesTyped'
  BY <1>1, FreedTyped DEF TablesTyped
<1>2. ASSUME UNCHANGED downloads
      PROVE  DOMAIN downloads' = DOMAIN downloads /\ TablesTyped'
  BY <1>2 DEF TablesTyped
<1>3. ASSUME NEW pieces \in Bitfields, HandleBitfield(s, pieces)
      PROVE  Quiet
  BY <1>2, <1>3 DEF HandleBitfield, Picker!RegisterPeerPieces
<1>4. ASSUME NEW p \in Pieces, HandleHave(s, p)
      PROVE  Quiet
  BY <1>2, <1>4 DEF HandleHave, Picker!RegisterPeerPiece
<1>5. CASE HandleOtherFirst(s)
  BY <1>2, <1>5 DEF HandleOtherFirst, pickerVars
<1>6. CASE HandleChoke(s)
  BY <1>1, <1>6 DEF HandleChoke, pickerVars
<1>7. CASE HandleUnchoke(s)
  BY <1>2, <1>7 DEF HandleUnchoke, pickerVars
<1>8. CASE ContinueDownloads(s)
  <2>1. UNCHANGED <<pickerVars, diskVars, torrentVars>>
    BY <1>8 DEF ContinueDownloads
  <2>2. CASE UNCHANGED downloads
    BY <1>2, <2>1, <2>2 DEF pickerVars
  <2>3. ASSUME NEW S, downloads' = [p \in DOMAIN downloads |->
                                     Table!MarkRequested(downloads[p], IndicesIn(p, S))]
        PROVE  Quiet
    BY <2>1, <2>3 DEF TablesTyped, Table!MarkRequested, Table!BlockStatus, pickerVars
  <2>. QED BY <1>8, <2>2, <2>3 DEF ContinueDownloads
<1>9. CASE SendRequests(s)
  BY <1>2, <1>9 DEF SendRequests, pickerVars
<1>10. ASSUME NEW registered \in SUBSET requests[s], SendFails(s, registered)
       PROVE  Quiet
  BY <1>1, <1>10 DEF SendFails, End, Exit, pickerVars
<1>11. CASE TimeOut(s)
  BY <1>1, <1>11 DEF TimeOut, pickerVars
<1>12. CASE AdjustTarget(s)
  BY <1>2, <1>12 DEF AdjustTarget, pickerVars
<1>13. CASE HandlePieceCompletion(s)
  BY <1>2, <1>13 DEF HandlePieceCompletion, pickerVars
<1>14. CASE Leave(s)
  BY <1>1, <1>14 DEF Leave, End, Exit, pickerVars
<1>. QED
  BY <1>3, <1>4, <1>5, <1>6, <1>7, <1>8, <1>9, <1>10, <1>11, <1>12, <1>13, <1>14 DEF QuietStep

(* What goes wrong is counted, and stays known.                            *)
LEMMA FaultTyped ==
  ASSUME faults \in [count : 0 .. MaxFaults, kinds : SUBSET FaultKinds], NEW kind, Fault(kind)
  PROVE  /\ faults' \in [count : 0 .. MaxFaults, kinds : SUBSET FaultKinds]
         /\ faults'.kinds = faults.kinds \cup {kind}
<1>1. faults.count + 1 \in 0 .. MaxFaults
  BY DownloadAssumption DEF Fault
<1>. QED BY <1>1 DEF Fault

(* Each step of a session keeps the types of the sessions' own state.      *)
LEMMA SessionTypes ==
  ASSUME SessionInv, TablesTyped, NEW s \in Sessions, SessionStep(s)
  PROVE  SessionInv'
<1>. USE DEF SessionInv
<1>1. \A p \in DOMAIN downloads : \A i \in EligibleIn(s, p) : <<p, i>> \in Blocks
  <2>1. \A p \in DOMAIN downloads : p \in Pieces /\ EligibleIn(s, p) \subseteq 0 .. BlocksIn[p] - 1
    BY DEF TablesTyped, EligibleIn, Table!Eligible
  <2>2. \A p \in Pieces : \A i \in 0 .. BlocksIn[p] - 1 : <<p, i>> \in BlocksOf(p)
    BY DEF BlocksOf
  <2>3. \A p \in Pieces : BlocksOf(p) \subseteq Blocks
    BY BlockParts
  <2>. QED BY <2>1, <2>2, <2>3
<1>2. ASSUME NEW pieces, Settle(s, pieces)
      PROVE  connection' \in [Sessions -> {"AvailabilityExchange", "Connected", "Disconnected"}]
  BY <1>2 DEF Settle
<1>3. ASSUME NEW S, Exit(s, S)
      PROVE  /\ connection' \in [Sessions -> {"AvailabilityExchange", "Connected", "Disconnected"}]
             /\ outgoing_requests' \in [Sessions -> SUBSET Blocks]
             /\ requests' \in [Sessions -> SUBSET Blocks]
             /\ pc' \in [Sessions -> {"select", "continue", "start"}]
             /\ wire' \in [Sessions -> [Blocks -> Nat]]
  BY <1>3 DEF Exit
<1>4. ASSUME NEW kind, Fault(kind)
      PROVE  faults' \in [count : 0 .. MaxFaults, kinds : SUBSET FaultKinds]
  BY <1>4, FaultTyped
<1>5. \A choked, interested : MakeRequestsPc(choked, interested) \in {"select", "continue", "start"}
  BY DEF MakeRequestsPc
<1>6. ASSUME NEW pieces \in Bitfields, HandleBitfield(s, pieces)
      PROVE  SessionInv'
  <2>1. pieces \in SUBSET Pieces
    BY DownloadAssumption DEF Pieces
  <2>2. Picker!InterestInPieces(pieces) \in BOOLEAN
    BY DEF Picker!InterestInPieces
  <2>. QED BY <1>2, <1>6, <2>1, <2>2 DEF HandleBitfield, pipelineVars
<1>7. CASE HandleOtherFirst(s)
  BY <1>2, <1>7 DEF HandleOtherFirst, pipelineVars
<1>8. ASSUME NEW p \in Pieces, HandleHave(s, p)
      PROVE  SessionInv'
  <2>1. Picker!InterestInPiece(p) \in BOOLEAN
    BY DEF Picker!InterestInPiece
  <2>. QED BY <1>2, <1>8, <2>1 DEF HandleHave, pipelineVars
<1>9. CASE HandleChoke(s)
  <2>1. wire' \in [Sessions -> [Blocks -> Nat]]
    BY <1>9 DEF HandleChoke
  <2>. QED BY <1>4, <1>9, <2>1 DEF HandleChoke
<1>10. CASE HandleUnchoke(s)
  <2>1. StartLen \in 0 .. MaxLen
    BY DownloadAssumption
  <2>. QED BY <1>2, <1>5, <1>10, <2>1 DEF HandleUnchoke
<1>11. ASSUME NEW b \in Blocks, HandleBlock(s, b)
       PROVE  SessionInv'
  <2>1. wire' \in [Sessions -> [Blocks -> Nat]]
    BY <1>11 DEF HandleBlock
  <2>2. target_len' \in [Sessions -> 0 .. MaxLen]
    <3>1. \/ target_len' = target_len
          \/ \E len \in 1 .. MaxLen : target_len' = [target_len EXCEPT ![s] = len]
      BY <1>11 DEF HandleBlock
    <3>2. \A len \in 1 .. MaxLen : len \in 0 .. MaxLen
      BY DownloadAssumption
    <3>. QED BY <3>1, <3>2
  <2>3. outgoing_requests' \in [Sessions -> SUBSET Blocks]
    BY <1>11 DEF HandleBlock
  <2>4. pc' \in [Sessions -> {"select", "continue", "start"}]
    BY <1>5, <1>11 DEF HandleBlock
  <2>. QED BY <1>11, <2>1, <2>2, <2>3, <2>4 DEF HandleBlock, protocolVars
<1>12. CASE ContinueDownloads(s)
  <2>1. requests' \in [Sessions -> SUBSET Blocks]
    <3>1. CASE UNCHANGED requests
      BY <3>1
    <3>2. ASSUME NEW S \in ContinuedPicks(s), requests' = [requests EXCEPT ![s] = S]
          PROVE  requests' \in [Sessions -> SUBSET Blocks]
      <4>1. S \subseteq UNION {{<<p, i>> : i \in EligibleIn(s, p)} : p \in DOMAIN downloads}
        BY DEF ContinuedPicks
      <4>2. S \subseteq Blocks
        BY <1>1, <4>1
      <4>. QED BY <3>2, <4>2
    <3>. QED BY <1>12, <3>1, <3>2 DEF ContinueDownloads
  <2>. QED BY <1>12, <2>1 DEF ContinueDownloads, protocolVars
<1>13. ASSUME NEW p \in Pieces, StartDownload(s, p)
       PROVE  SessionInv'
  <2>. DEFINE picked == Table!PickedBlocks(Table!NewBlocks(BlocksIn[p]), Quota(s),
                                          session_endgame[s], {})
  <2>1. picked \subseteq 0 .. BlocksIn[p] - 1
    BY DEF Table!PickedBlocks, Table!FirstOf, Table!Eligible, Table!NewBlocks
  <2>2. {<<p, i>> : i \in picked} \subseteq Blocks
    BY <2>1 DEF Blocks, BlocksOf
  <2>3. requests' = [requests EXCEPT ![s] = @ \cup {<<p, i>> : i \in picked}]
    BY <1>13 DEF StartDownload
  <2>4. requests' \in [Sessions -> SUBSET Blocks]
    BY <2>2, <2>3
  <2>. QED BY <1>13, <2>4 DEF StartDownload, protocolVars
<1>14. CASE SendRequests(s)
  <2>1. wire' \in [Sessions -> [Blocks -> Nat]]
    BY <1>14 DEF SendRequests
  <2>. QED BY <1>14, <2>1 DEF SendRequests, protocolVars
<1>15. ASSUME NEW registered \in SUBSET requests[s], SendFails(s, registered)
       PROVE  SessionInv'
  BY <1>3, <1>4, <1>15 DEF SendFails, End
<1>16. CASE TimeOut(s)
  <2>1. 1 \in 0 .. MaxLen
    BY DownloadAssumption
  <2>. QED BY <1>4, <1>5, <1>16, <2>1 DEF TimeOut, protocolVars
<1>17. CASE AdjustTarget(s)
  BY <1>17 DEF AdjustTarget, protocolVars, pipelineVars
<1>18. CASE HandlePieceCompletion(s)
  <2>1. wire' \in [Sessions -> [Blocks -> Nat]]
    BY <1>18 DEF HandlePieceCompletion
  <2>. QED BY <1>18, <2>1 DEF HandlePieceCompletion, protocolVars
<1>19. CASE Leave(s)
  BY <1>3, <1>4, <1>19 DEF Leave, End
<1>. QED
  BY <1>6, <1>7, <1>8, <1>9, <1>10, <1>11, <1>12, <1>13, <1>14, <1>15, <1>16, <1>17, <1>18, <1>19
  DEF SessionStep

(* A quiet step leaves the picker, the table's agreement with it and the   *)
(* disk's invariant alone.                                                 *)
LEMMA QuietKeeps ==
  ASSUME TableInv, DiskInv, Quiet
  PROVE  TableInv' /\ DiskInv' /\ Picker!Free' = Picker!Free /\ in_endgame' = in_endgame
<1>. USE DEF Quiet, torrentVars
<1>1. PickedIsDownloading'
  BY DEF TableInv, PickedIsDownloading
<1>2. TableInv'
  BY <1>1 DEF TableInv, DiskInv, diskVars, PickedPieces
<1>3. Reports' = Reports /\ BlocksOfPicked' = BlocksOfPicked
  BY DEF Reports, BlocksOfPicked, PickedPieces, diskVars
<1>4. DiskInv'
  BY <1>3 DEF DiskInv, OwnedIsWritten, diskVars
<1>5. Picker!Free' = Picker!Free
  BY DEF Picker!Free, Picker!Missing
<1>. QED BY <1>2, <1>4, <1>5

(* Saving a block: its piece has a download, hence was picked.             *)
LEMMA HandleBlockKeeps ==
  ASSUME TableInv, DiskInv, NEW s \in Sessions, NEW b \in Blocks, HandleBlock(s, b)
  PROVE  TableInv' /\ DiskInv' /\ Picker!Free' = Picker!Free /\ in_endgame' = in_endgame
<1>1. UNCHANGED <<own_pieces, is_pending, torrentVars>>
  BY DEF HandleBlock, pickerVars
<1>2. /\ DOMAIN downloads' = DOMAIN downloads
      /\ TablesTyped'
  <2>1. CASE UNCHANGED downloads
    BY <2>1 DEF TableInv, TablesTyped
  <2>2. CASE /\ b[1] \in DOMAIN downloads
             /\ downloads' = [downloads EXCEPT ![b[1]] = Table!ReceivedBlock(@, b[2])]
    <3>1. Table!ReceivedBlock(downloads[b[1]], b[2])
            \in [0 .. BlocksIn[b[1]] - 1 -> Table!BlockStatus]
      BY <2>2 DEF TableInv, TablesTyped, Table!ReceivedBlock, Table!BlockStatus
    <3>. QED BY <2>2, <3>1 DEF TableInv, TablesTyped
  <2>. QED BY <2>1, <2>2 DEF HandleBlock
<1>3. PickedIsDownloading'
  BY <1>1, <1>2 DEF TableInv, PickedIsDownloading, torrentVars
<1>4. UNCHANGED <<write_buf, write_jobs, written, completions>>
  BY DEF HandleBlock, Disk!SendWriteBlock, diskVars
<1>5. TableInv'
  BY <1>1, <1>2, <1>3, <1>4 DEF TableInv, PickedPieces, torrentVars
<1>6. Reports' = Reports /\ BlocksOfPicked' = BlocksOfPicked
  BY <1>1, <1>4 DEF Reports, BlocksOfPicked, PickedPieces
<1>7. disk_queue' \in Seq(BlocksOfPicked)
  <2>1. CASE UNCHANGED disk_queue
    BY <2>1 DEF DiskInv
  <2>2. CASE IsNew(b) /\ disk_queue' = Append(disk_queue, b)
    <3>1. b \in BlocksOfPicked
      BY <2>2 DEF IsNew, TableInv, PickedIsDownloading, BlocksOfPicked
    <3>. QED BY <2>2, <3>1, SeqAppend DEF DiskInv
  <2>. QED BY <2>1, <2>2 DEF HandleBlock, Disk!SendWriteBlock, diskVars
<1>8. DiskInv'
  BY <1>1, <1>4, <1>6, <1>7 DEF DiskInv, OwnedIsWritten
<1>9. Picker!Free' = Picker!Free
  BY <1>1 DEF Picker!Free, Picker!Missing
<1>. QED BY <1>1, <1>5, <1>8, <1>9 DEF torrentVars

(* Starting a download picks the piece and adds it to the table at once.   *)
LEMMA StartDownloadKeeps ==
  ASSUME PickerInv, TableInv, DiskInv, NEW s \in Sessions, NEW p \in Pieces, StartDownload(s, p)
  PROVE  TableInv' /\ DiskInv' /\ Picker!Free' \subseteq Picker!Free /\ in_endgame' = in_endgame
<1>1. /\ p \notin own_pieces /\ p \notin is_pending
      /\ is_pending' = is_pending \cup {p}
      /\ UNCHANGED <<own_pieces, torrentVars, diskVars>>
  BY DEF StartDownload, Picker!PickPiece, Picker!IsFirstPickable, Picker!Pickable
<1>2. DOMAIN downloads' = DOMAIN downloads \cup {p}
  BY DEF StartDownload
<1>3. TablesTyped'
  <2>. DEFINE new == Table!NewBlocks(BlocksIn[p])
              picked == Table!PickedBlocks(new, Quota(s), session_endgame[s], {})
  <2>1. new \in [0 .. BlocksIn[p] - 1 -> Table!BlockStatus]
    BY DEF Table!NewBlocks, Table!BlockStatus
  <2>2. Table!MarkRequested(new, picked) \in [0 .. BlocksIn[p] - 1 -> Table!BlockStatus]
    BY <2>1 DEF Table!MarkRequested, Table!BlockStatus
  <2>3. downloads' = [q \in DOMAIN downloads \cup {p} |->
                        IF q = p THEN Table!MarkRequested(new, picked) ELSE downloads[q]]
    BY DEF StartDownload
  <2>. QED BY <2>2, <2>3 DEF TableInv, TablesTyped
<1>4. PickedIsDownloading'
  BY <1>1, <1>2 DEF TableInv, PickedIsDownloading, PickedPieces, torrentVars
<1>5. TableInv'
  BY <1>1, <1>3, <1>4 DEF TableInv, PickedPieces, torrentVars, diskVars
<1>6. BlocksOfPicked \subseteq BlocksOfPicked' /\ Reports \subseteq Reports'
  BY <1>1 DEF BlocksOfPicked, Reports, PickedPieces, diskVars
<1>7. disk_queue \in Seq(BlocksOfPicked') /\ completions \in Seq(Reports')
  BY <1>6, SeqMonotone DEF DiskInv
<1>8. DiskInv'
  BY <1>1, <1>6, <1>7 DEF DiskInv, OwnedIsWritten, diskVars
<1>9. Picker!Free' \subseteq Picker!Free
  BY <1>1 DEF Picker!Free, Picker!Missing
<1>. QED BY <1>1, <1>5, <1>8, <1>9 DEF torrentVars

(* The sessions' endgame flags come from the torrent through commands.     *)
LEMMA SessionEndgame ==
  ASSUME EndgameInv, NEW s \in Sessions, SessionStep(s), in_endgame' = in_endgame,
         Picker!Free' \subseteq Picker!Free
  PROVE  EndgameInv'
<1>. SUFFICES ASSUME TRUE
              PROVE  /\ session_endgame' \in [Sessions -> BOOLEAN]
                     /\ \A t \in Sessions : session_endgame'[t] => in_endgame
                     /\ cmds' \in [Sessions -> Seq(Commands)]
  BY DEF EndgameInv, EndgameSound, Commands
<1>1. CASE UNCHANGED <<session_endgame, cmds>>
  BY <1>1 DEF EndgameInv, EndgameSound
<1>2. CASE HandlePieceCompletion(s)
  <2>1. cmds[s] \in Seq(Commands) /\ cmds[s] # <<>>
    BY <1>2 DEF EndgameInv, HandlePieceCompletion
  <2>2. Head(cmds[s]) \in Commands /\ Tail(cmds[s]) \in Seq(Commands)
    BY <2>1, SeqTail
  <2>3. Head(cmds[s]).in_endgame \in BOOLEAN /\ (Head(cmds[s]).in_endgame => in_endgame)
    BY <2>2 DEF Commands
  <2>4. /\ cmds' = [cmds EXCEPT ![s] = Tail(@)]
        /\ session_endgame' = [session_endgame EXCEPT ![s] = Head(cmds[s]).in_endgame]
    BY <1>2 DEF HandlePieceCompletion
  <2>5. cmds' \in [Sessions -> Seq(Commands)]
    BY <2>2, <2>4 DEF EndgameInv
  <2>. QED BY <2>3, <2>4, <2>5 DEF EndgameInv, EndgameSound
<1>3. ASSUME NEW S, Exit(s, S), UNCHANGED session_endgame
      PROVE  /\ session_endgame' \in [Sessions -> BOOLEAN]
             /\ \A t \in Sessions : session_endgame'[t] => in_endgame
             /\ cmds' \in [Sessions -> Seq(Commands)]
  <2>1. <<>> \in Seq(Commands)
    OBVIOUS
  <2>2. cmds' = [cmds EXCEPT ![s] = <<>>]
    BY <1>3 DEF Exit
  <2>. QED BY <1>3, <2>1, <2>2 DEF EndgameInv, EndgameSound
<1>. QED
  BY <1>1, <1>2, <1>3
  DEF SessionStep, HandleBitfield, HandleOtherFirst, HandleHave, HandleChoke, HandleUnchoke,
      HandleBlock, ContinueDownloads, StartDownload, SendRequests, SendFails, TimeOut,
      AdjustTarget, Leave, End

(* The picker's part of the invariant under the steps of a session.        *)
LEMMA SessionPicker ==
  ASSUME PickerInv, NEW s \in Sessions, SessionStep(s)
  PROVE  PickerInv'
<1>1. CASE UNCHANGED pickerVars
  BY <1>1 DEF pickerVars, PickerInv, Picker!TypeOK, Picker!CountsExact, Picker!Missing, Picker!Free
<1>2. ASSUME NEW pieces \in Bitfields, HandleBitfield(s, pieces)
      PROVE  PickerInv'
  <2>1. pieces \in SUBSET Pieces
    BY DownloadAssumption DEF Pieces
  <2>. QED BY <1>2, <2>1, RegisterKeepsPicker DEF HandleBitfield
<1>3. ASSUME NEW p \in Pieces, HandleHave(s, p)
      PROVE  PickerInv'
  BY <1>3, RegisterKeepsPicker DEF HandleHave
<1>4. ASSUME NEW p \in Pieces, StartDownload(s, p)
      PROVE  PickerInv'
  BY <1>4, PickKeepsPicker DEF StartDownload
<1>. QED
  BY <1>1, <1>2, <1>3, <1>4
  DEF SessionStep, HandleOtherFirst, HandleChoke, HandleUnchoke, HandleBlock, ContinueDownloads,
      SendRequests, SendFails, TimeOut, AdjustTarget, HandlePieceCompletion, Leave

(* Every step of a session keeps the invariant.                            *)
LEMMA SessionKeeps ==
  ASSUME IInv, NEW s \in Sessions, SessionStep(s)
  PROVE  IInv'
<1>. USE DEF IInv
<1>1. PickerInv'
  BY SessionPicker
<1>2. SessionInv'
  BY SessionTypes DEF TableInv
<1>3. TableInv' /\ DiskInv' /\ Picker!Free' \subseteq Picker!Free /\ in_endgame' = in_endgame
  <2>1. CASE QuietStep(s)
    BY <2>1, QuietSteps, QuietKeeps DEF TableInv
  <2>2. ASSUME NEW b \in Blocks, HandleBlock(s, b)
        PROVE  TableInv' /\ DiskInv' /\ Picker!Free' \subseteq Picker!Free /\ in_endgame' = in_endgame
    BY <2>2, HandleBlockKeeps
  <2>3. ASSUME NEW p \in Pieces, StartDownload(s, p)
        PROVE  TableInv' /\ DiskInv' /\ Picker!Free' \subseteq Picker!Free /\ in_endgame' = in_endgame
    BY <2>3, StartDownloadKeeps
  <2>. QED BY <2>1, <2>2, <2>3 DEF SessionStep, QuietStep
<1>4. EndgameInv'
  BY <1>3, SessionEndgame
<1>. QED BY <1>1, <1>2, <1>3, <1>4

-----------------------------------------------------------------------------
(* Steps of the disk task and its threads.                                 *)

(* A block moves from the queue to the buffer, or with its piece to a job. *)
LEMMA WriteBlockKeeps ==
  ASSUME DiskInv, Disk!WriteBlock, UNCHANGED pickerVars
  PROVE  DiskInv' /\ UNCHANGED written
<1>. DEFINE b == Head(disk_queue)
<1>1. disk_queue # <<>> /\ disk_queue' = Tail(disk_queue)
  BY DEF Disk!WriteBlock, Disk!write_block
<1>2. b \in BlocksOfPicked /\ Tail(disk_queue) \in Seq(BlocksOfPicked)
  BY <1>1, SeqTail DEF DiskInv
<1>3. b[1] \in Pieces /\ b[1] \in is_pending
  BY <1>2, BlockParts DEF BlocksOfPicked
<1>4. UNCHANGED <<written, completions, own_pieces, is_pending>>
  BY DEF Disk!WriteBlock, Disk!write_block, pickerVars
<1>5. BlocksOfPicked' = BlocksOfPicked /\ Reports' = Reports
  BY <1>4 DEF BlocksOfPicked, Reports, PickedPieces
<1>6. write_buf' \subseteq BlocksOfPicked
  BY <1>2 DEF DiskInv, Disk!WriteBlock, Disk!write_block
<1>7. /\ write_jobs' \in [Pieces -> Nat]
      /\ \A p \in Pieces : write_jobs'[p] > 0 => p \in is_pending
  <2>1. CASE UNCHANGED write_jobs
    BY <2>1 DEF DiskInv
  <2>2. CASE write_jobs' = [write_jobs EXCEPT ![b[1]] = @ + 1]
    BY <1>3, <2>2 DEF DiskInv
  <2>. QED BY <2>1, <2>2 DEF Disk!WriteBlock, Disk!write_block
<1>. QED BY <1>1, <1>2, <1>4, <1>5, <1>6, <1>7 DEF DiskInv, OwnedIsWritten

(* A thread's report is on a picked piece; a valid one follows the write.  *)
LEMMA FinishKeeps ==
  ASSUME DiskInv, NEW p \in Pieces, UNCHANGED pickerVars,
         Disk!FinishValid(p) \/ Disk!FinishInvalid(p) \/ Disk!FinishError(p)
  PROVE  DiskInv' /\ written \subseteq written'
<1>1. /\ write_jobs[p] > 0
      /\ write_jobs' = [write_jobs EXCEPT ![p] = @ - 1]
      /\ UNCHANGED <<disk_queue, write_buf, own_pieces, is_pending>>
  BY DEF Disk!FinishValid, Disk!FinishInvalid, Disk!FinishError, Disk!Finish, pickerVars
<1>2. p \in PickedPieces
  BY <1>1 DEF DiskInv, PickedPieces
<1>3. written \subseteq written' /\ written' \subseteq Pieces
  BY DEF DiskInv, Disk!FinishValid, Disk!FinishInvalid, Disk!FinishError
<1>4. BlocksOfPicked' = BlocksOfPicked /\ Reports \subseteq Reports'
  BY <1>1, <1>3 DEF BlocksOfPicked, Reports, PickedPieces
<1>5. completions \in Seq(Reports')
  BY <1>4, SeqMonotone DEF DiskInv
<1>6. PICK report : report \in Reports' /\ completions' = Append(completions, report)
  <2>1. CASE Disk!FinishValid(p)
    <3>1. p \in written' /\ PickedPieces' = PickedPieces
      BY <1>1, <2>1 DEF Disk!FinishValid, PickedPieces
    <3>2. Disk!Valid(p) \in Reports'
      BY <1>2, <3>1 DEF Reports
    <3>. QED BY <2>1, <3>2 DEF Disk!FinishValid, Disk!Finish
  <2>2. CASE Disk!FinishInvalid(p)
    <3>1. Disk!Invalid(p) \in Reports
      BY <1>2 DEF Reports
    <3>. QED BY <1>4, <2>2, <3>1 DEF Disk!FinishInvalid, Disk!Finish
  <2>3. CASE Disk!FinishError(p)
    <3>1. Disk!WriteError \in Reports
      BY DEF Reports
    <3>. QED BY <1>4, <2>3, <3>1 DEF Disk!FinishError, Disk!Finish
  <2>. QED BY <2>1, <2>2, <2>3
<1>7. completions' \in Seq(Reports')
  BY <1>5, <1>6, SeqAppend
<1>8. /\ write_jobs' \in [Pieces -> Nat]
      /\ \A q \in Pieces : write_jobs'[q] > 0 => q \in is_pending
  BY <1>1 DEF DiskInv
<1>. QED BY <1>1, <1>3, <1>4, <1>7, <1>8 DEF DiskInv, OwnedIsWritten

(* What only the picker decides stays when the picker stays.               *)
LEMMA PickerUnchanged ==
  ASSUME UNCHANGED pickerVars
  PROVE  Picker!Free' = Picker!Free /\ (PickerInv => PickerInv')
BY DEF pickerVars, PickerInv, Picker!TypeOK, Picker!CountsExact, Picker!Missing, Picker!Free

(* The parts that neither picker nor torrent task disturbs.                *)
LEMMA SessionUnchanged ==
  ASSUME SessionInv, UNCHANGED sessionVars,
         faults' \in [count : 0 .. MaxFaults, kinds : SUBSET FaultKinds]
  PROVE  SessionInv'
BY DEF SessionInv, sessionVars, protocolVars, pipelineVars

(* The flags on their way stay justified when the torrent's flag stays.    *)
LEMMA EndgameUnchanged ==
  ASSUME EndgameInv, UNCHANGED <<session_endgame, cmds, in_endgame>>, Picker!Free' = Picker!Free
  PROVE  EndgameInv'
BY DEF EndgameInv, EndgameSound, Commands

(* Every step of the disk keeps the invariant.                             *)
LEMMA DiskKeeps ==
  ASSUME IInv, DiskStep
  PROVE  IInv'
<1>. USE DEF IInv
<1>1. /\ UNCHANGED <<pickerVars, downloads, torrentVars, sessionVars, cmds>>
      /\ UNCHANGED <<own_pieces, is_pending, registering, panicked, in_endgame, session_endgame>>
  BY DEF DiskStep, pickerVars, torrentVars, sessionVars
<1>2. PickerInv' /\ Picker!Free' = Picker!Free
  BY <1>1, PickerUnchanged
<1>3. DiskInv' /\ written \subseteq written'
  BY <1>1, WriteBlockKeeps, FinishKeeps DEF DiskStep
<1>4. TableInv'
  BY <1>1, <1>3 DEF TableInv, TablesTyped, PickedIsDownloading, PickedPieces
<1>5. faults' \in [count : 0 .. MaxFaults, kinds : SUBSET FaultKinds]
  BY FaultTyped DEF DiskStep, SessionInv
<1>6. SessionInv'
  BY <1>1, <1>5, SessionUnchanged
<1>7. EndgameInv'
  BY <1>1, <1>2, EndgameUnchanged
<1>. QED BY <1>2, <1>3, <1>4, <1>6, <1>7

-----------------------------------------------------------------------------
(* Steps of the torrent task.                                              *)

(* Taking a report leaves the disk's part and yields one of Reports.       *)
LEMMA TakeCompletionKeeps ==
  ASSUME DiskInv, Disk!TakeCompletion, UNCHANGED pickerVars
  PROVE  DiskInv' /\ Head(completions) \in Reports /\ UNCHANGED written
<1>1. completions # <<>> /\ completions' = Tail(completions)
  BY DEF Disk!TakeCompletion
<1>2. UNCHANGED <<disk_queue, write_buf, write_jobs, written, own_pieces, is_pending>>
  BY DEF Disk!TakeCompletion, pickerVars
<1>3. BlocksOfPicked' = BlocksOfPicked /\ Reports' = Reports
  BY <1>2 DEF BlocksOfPicked, Reports, PickedPieces
<1>4. Head(completions) \in Reports /\ Tail(completions) \in Seq(Reports)
  BY <1>1, SeqTail DEF DiskInv
<1>. QED BY <1>1, <1>2, <1>3, <1>4 DEF DiskInv, OwnedIsWritten

(* A valid report removes the download of a picked and written piece; the  *)
(* other reports leave the set of downloads alone.                         *)
LEMMA TakeKeeps ==
  ASSUME TableInv, DiskInv, NEW p \in Pieces,
         TakeValid(p) \/ TakeInvalid(p) \/ TakeError
  PROVE  TableInv' /\ DiskInv'
<1>1. /\ UNCHANGED pickerVars
      /\ UNCHANGED <<own_pieces, is_pending, panicked>>
      /\ Disk!TakeCompletion
      /\ registering = {}
  BY DEF TakeValid, TakeInvalid, TakeError, TorrentReady, pickerVars, torrentVars
<1>2. DiskInv' /\ Head(completions) \in Reports /\ UNCHANGED written
  BY <1>1, TakeCompletionKeeps
<1>3. CASE TakeValid(p)
  <2>1. p \in PickedPieces \cap written
    BY <1>2, <1>3, ReportParts DEF TakeValid
  <2>2. DOMAIN downloads' = DOMAIN downloads \ {p} /\ TablesTyped'
    BY <1>3 DEF TakeValid, TableInv, TablesTyped
  <2>3. registering' = {p}
    BY <1>3 DEF TakeValid
  <2>4. PickedIsDownloading'
    BY <1>1, <2>2, <2>3 DEF TableInv, PickedIsDownloading
  <2>. QED BY <1>1, <1>2, <2>1, <2>2, <2>3, <2>4 DEF TableInv, PickedPieces
<1>4. CASE TakeInvalid(p)
  <2>1. DOMAIN downloads' = DOMAIN downloads /\ TablesTyped'
    <3>1. CASE UNCHANGED downloads
      BY <3>1 DEF TableInv, TablesTyped
    <3>2. CASE /\ p \in DOMAIN downloads
               /\ downloads' = [downloads EXCEPT ![p] = Table!FreeAllBlocks(@)]
      <4>1. Table!FreeAllBlocks(downloads[p]) \in [0 .. BlocksIn[p] - 1 -> Table!BlockStatus]
        BY <3>2 DEF TableInv, TablesTyped, Table!FreeAllBlocks, Table!BlockStatus
      <4>. QED BY <3>2, <4>1 DEF TableInv, TablesTyped
    <3>. QED BY <1>4, <3>1, <3>2 DEF TakeInvalid
  <2>2. UNCHANGED registering
    BY <1>4 DEF TakeInvalid, torrentVars
  <2>. QED BY <1>1, <1>2, <2>1, <2>2 DEF TableInv, PickedIsDownloading, PickedPieces
<1>5. CASE TakeError
  <2>1. UNCHANGED <<downloads, registering>>
    BY <1>5 DEF TakeError, torrentVars
  <2>. QED BY <1>1, <1>2, <2>1 DEF TableInv, TablesTyped, PickedIsDownloading, PickedPieces
<1>. QED BY <1>3, <1>4, <1>5

(* The picker learns of a piece that is picked and written; its flag stays *)
(* set, so everything on its way to the disk still belongs to a picked one.*)
LEMMA RegisterKeepsTables ==
  ASSUME TableInv, DiskInv, NEW p \in Pieces, RegisterPiece(p)
  PROVE  TableInv' /\ DiskInv' /\ Picker!Free' \subseteq Picker!Free
<1>1. /\ p \in PickedPieces \cap written
      /\ own_pieces' = own_pieces \cup {p}
      /\ registering = {p} /\ registering' = {}
      /\ UNCHANGED <<downloads, diskVars, panicked>>
  BY DEF RegisterPiece, TableInv, Picker!ReceivedPiece
<1>2. UNCHANGED <<is_pending, disk_queue, write_buf, write_jobs, written, completions>>
  BY <1>1 DEF RegisterPiece, Picker!ReceivedPiece, PickedPieces, diskVars
<1>3. PickedIsDownloading'
  BY <1>1, <1>2 DEF TableInv, PickedIsDownloading, PickedPieces
<1>4. TableInv'
  BY <1>1, <1>2, <1>3 DEF TableInv, TablesTyped, PickedPieces
<1>5. BlocksOfPicked' = BlocksOfPicked /\ Reports' = Reports
  BY <1>2 DEF BlocksOfPicked, Reports, PickedPieces
<1>6. OwnedIsWritten'
  BY <1>1, <1>2 DEF DiskInv, OwnedIsWritten
<1>7. DiskInv'
  BY <1>2, <1>5, <1>6 DEF DiskInv
<1>8. Picker!Free' \subseteq Picker!Free
  BY <1>1, <1>2 DEF Picker!Free, Picker!Missing
<1>. QED BY <1>4, <1>7, <1>8

(* Endgame begins when the counters say that nothing is left to pick, and  *)
(* they are exact; every command tells what the torrent knows.             *)
LEMMA RegisterKeepsEndgame ==
  ASSUME EndgameInv, PickerInv', NEW p \in Pieces, RegisterPiece(p),
         Picker!Free' \subseteq Picker!Free
  PROVE  EndgameInv'
<1>1. /\ in_endgame' = (in_endgame \/ EntersEndgame')
      /\ UNCHANGED session_endgame
  BY DEF RegisterPiece, sessionVars
<1>2. EntersEndgame' => Picker!Free' = {}
  <2>1. SUFFICES ASSUME EntersEndgame'
                 PROVE  Picker!Free' = {}
    OBVIOUS
  <2>2. Cardinality(Picker!Free') = 0
    BY <2>1, SameCardinality DEF EntersEndgame, Picker!all_pieces_picked, PickerInv,
       Picker!CountsExact
  <2>3. IsFiniteSet(Picker!Free')
    <3>1. IsFiniteSet(0 .. PieceCount - 1)
      BY DownloadAssumption, FS_Interval
    <3>2. Picker!Free' \subseteq 0 .. PieceCount - 1
      BY DEF Picker!Free, Picker!Missing, Picker!Pieces
    <3>. QED BY <3>1, <3>2, FS_Subset
  <2>. QED BY <2>2, <2>3, FS_EmptySet
<1>3. in_endgame' \in BOOLEAN /\ (in_endgame => in_endgame')
  BY <1>1 DEF EndgameInv, EntersEndgame
<1>4. EndgameSound'
  BY <1>1, <1>2, <1>3 DEF EndgameInv, EndgameSound
<1>5. Commands \subseteq Commands'
  BY <1>3 DEF Commands
<1>6. [index |-> p, in_endgame |-> in_endgame'] \in Commands'
  BY <1>3 DEF Commands
<1>7. ASSUME NEW t \in Sessions
      PROVE  cmds[t] \in Seq(Commands')
  BY <1>5, SeqMonotone DEF EndgameInv
<1>8. ASSUME NEW t \in Sessions
      PROVE  Append(cmds[t], [index |-> p, in_endgame |-> in_endgame']) \in Seq(Commands')
  BY <1>6, <1>7, SeqAppend
<1>9. cmds' \in [Sessions -> Seq(Commands')]
  BY <1>7, <1>8 DEF RegisterPiece
<1>. QED BY <1>1, <1>3, <1>4, <1>9 DEF EndgameInv

(* Every step of the torrent task keeps the invariant.                     *)
LEMMA TorrentKeeps ==
  ASSUME IInv, TorrentStep
  PROVE  IInv'
<1>. USE DEF IInv
<1>1. ASSUME NEW p \in Pieces, TakeValid(p) \/ TakeInvalid(p) \/ TakeError
      PROVE  IInv'
  <2>1. UNCHANGED <<pickerVars, sessionVars, session_endgame, cmds, in_endgame, faults>>
    BY <1>1 DEF TakeValid, TakeInvalid, TakeError, torrentVars, sessionVars
  <2>2. TableInv' /\ DiskInv'
    BY <1>1, TakeKeeps
  <2>3. PickerInv' /\ Picker!Free' = Picker!Free
    BY <2>1, PickerUnchanged
  <2>4. SessionInv'
    BY <2>1, SessionUnchanged DEF SessionInv
  <2>. QED BY <2>1, <2>2, <2>3, <2>4, EndgameUnchanged
<1>2. ASSUME NEW p \in Pieces, RegisterPiece(p)
      PROVE  IInv'
  <2>1. TableInv' /\ DiskInv' /\ Picker!Free' \subseteq Picker!Free
    BY <1>2, RegisterKeepsTables
  <2>2. PickerInv'
    BY <1>2, ReceiveKeepsPicker DEF RegisterPiece
  <2>3. EndgameInv'
    BY <1>2, <2>1, <2>2, RegisterKeepsEndgame
  <2>4. SessionInv'
    BY <1>2, SessionUnchanged DEF SessionInv, RegisterPiece
  <2>. QED BY <2>1, <2>2, <2>3, <2>4
<1>3. ASSUME NEW p \in Pieces, RegisterPanics(p)
      PROVE  IInv'
  <2>1. /\ UNCHANGED <<pickerVars, downloads, diskVars, registering, in_endgame, sessionVars,
                       cmds, faults>>
        /\ UNCHANGED <<own_pieces, is_pending, written, session_endgame>>
        /\ panicked' \in BOOLEAN
    BY <1>3 DEF RegisterPanics, pickerVars, diskVars, sessionVars
  <2>2. PickerInv' /\ Picker!Free' = Picker!Free
    BY <2>1, PickerUnchanged
  <2>3. TableInv'
    BY <2>1 DEF TableInv, TablesTyped, PickedIsDownloading, PickedPieces
  <2>4. DiskInv'
    BY <2>1 DEF DiskInv, BlocksOfPicked, Reports, PickedPieces, OwnedIsWritten, diskVars
  <2>5. SessionInv'
    BY <2>1, SessionUnchanged DEF SessionInv
  <2>. QED BY <2>1, <2>2, <2>3, <2>4, <2>5, EndgameUnchanged
<1>4. \E p \in Pieces : TRUE
  BY DownloadAssumption DEF Pieces
<1>. QED BY <1>1, <1>2, <1>3, <1>4 DEF TorrentStep

-----------------------------------------------------------------------------
(* The theorems.                                                           *)

(* The invariant holds at the start.                                       *)
LEMMA InitInv ==
  ASSUME Init
  PROVE  IInv
<1>1. PickerInv
  BY PickerStarts DEF Init
<1>2. own_pieces = {} /\ is_pending = {} /\ written = {} /\ DOMAIN downloads = {}
  BY DEF Init, Picker!New, Disk!DiskInit
<1>3. TableInv
  BY <1>2 DEF Init, TableInv, TablesTyped, PickedIsDownloading
<1>4. DiskInv
  <2>1. disk_queue = <<>> /\ completions = <<>> /\ write_buf = {}
    BY DEF Init, Disk!DiskInit
  <2>2. write_jobs = [p \in Pieces |-> 0]
    BY SameNames DEF Init, Disk!DiskInit
  <2>3. \A S : <<>> \in Seq(S)
    OBVIOUS
  <2>. QED BY <1>2, <2>1, <2>2, <2>3 DEF DiskInv, OwnedIsWritten
<1>5. SessionInv
  <2>1. 0 \in 0 .. MaxLen /\ 0 \in 0 .. MaxFaults
    BY DownloadAssumption
  <2>. QED BY <2>1 DEF Init, SessionInv
<1>6. EndgameInv
  <2>1. \A S : <<>> \in Seq(S)
    OBVIOUS
  <2>. QED BY <2>1 DEF Init, EndgameInv, EndgameSound
<1>. QED BY <1>1, <1>3, <1>4, <1>5, <1>6 DEF IInv

(* A step of nobody keeps the invariant.                                   *)
LEMMA StutterKeeps ==
  ASSUME IInv, UNCHANGED vars
  PROVE  IInv'
<1>. USE DEF IInv, vars
<1>1. UNCHANGED <<own_pieces, is_pending, written, registering, panicked, in_endgame>>
  BY DEF pickerVars, diskVars, torrentVars
<1>2. PickerInv' /\ Picker!Free' = Picker!Free
  BY PickerUnchanged
<1>3. TableInv'
  BY <1>1 DEF TableInv, TablesTyped, PickedIsDownloading, PickedPieces
<1>4. DiskInv'
  BY <1>1 DEF DiskInv, BlocksOfPicked, Reports, PickedPieces, OwnedIsWritten, diskVars
<1>5. SessionInv'
  BY SessionUnchanged DEF SessionInv, sessionVars
<1>6. EndgameInv'
  BY <1>1, <1>2, EndgameUnchanged
<1>. QED BY <1>2, <1>3, <1>4, <1>5, <1>6

(* Every step keeps the invariant.                                         *)
LEMMA StepInv ==
  ASSUME IInv, [Next]_vars
  PROVE  IInv'
BY SessionKeeps, DiskKeeps, TorrentKeeps, StutterKeeps DEF Next

(* Under every interleaving of sessions, disk task and torrent task, and   *)
(* with every fault, the five parts of the invariant hold together.        *)
THEOREM DownloadInvariant == Spec => []IInv
<1>1. Init => IInv
  BY InitInv
<1>2. IInv /\ [Next]_vars => IInv'
  BY StepInv
<1>. QED BY <1>1, <1>2, PTL DEF Spec

(* All state stays of its type: no counter of the picker or of the         *)
(* blocking threads is ever decremented below zero, no session's target    *)
(* queue length leaves its bounds.                                         *)
THEOREM DownloadTypeOK == Spec => []TypeOK
<1>1. IInv => TypeOK
  <2>1. SUFFICES ASSUME IInv
                 PROVE  TypeOK
    OBVIOUS
  <2>. USE DEF IInv
  <2>2. Picker!TypeOK
    BY <2>1 DEF PickerInv
  <2>3. Disk!DiskTypeOK
    <3>1. BlocksOfPicked \subseteq Disk!Blocks /\ Reports \subseteq Disk!Completions
      BY SameNames DEF BlocksOfPicked, Reports, PickedPieces, Disk!Completions
    <3>2. disk_queue \in Seq(Disk!Blocks) /\ completions \in Seq(Disk!Completions)
      BY <2>1, <3>1, SeqMonotone DEF DiskInv
    <3>. QED BY <2>1, <3>1, <3>2, SameNames DEF DiskInv, Disk!DiskTypeOK
  <2>4. cmds \in [Sessions -> Seq([index : Pieces, in_endgame : BOOLEAN])]
    <3>1. Commands \subseteq [index : Pieces, in_endgame : BOOLEAN]
      BY DEF Commands
    <3>2. ASSUME NEW s \in Sessions
          PROVE  cmds[s] \in Seq([index : Pieces, in_endgame : BOOLEAN])
      <4>1. cmds[s] \in Seq(Commands)
        BY <2>1 DEF EndgameInv
      <4>. QED BY <3>1, <4>1, SeqMonotone
    <3>. QED BY <2>1, <3>2 DEF EndgameInv
  <2>5. registering \subseteq Pieces
    BY <2>1 DEF TableInv, PickedPieces
  <2>. QED
    BY <2>1, <2>2, <2>3, <2>4, <2>5 DEF TypeOK, TableInv, TablesTyped, SessionInv, EndgameInv
<1>. QED BY <1>1, DownloadInvariant, PTL

(* The piece picker's flags and the table of downloads, behind two locks,  *)
(* agree: a picked and missing piece is being downloaded, unless the       *)
(* torrent task is just registering it.                                    *)
THEOREM DownloadPickedIsDownloading == Spec => []PickedIsDownloading
<1>1. IInv => PickedIsDownloading
  BY DEF IInv, TableInv
<1>. QED BY <1>1, DownloadInvariant, PTL

(* A piece is owned only once its bytes are in the files: what a valid     *)
(* completion reports has been written before the report was sent.         *)
THEOREM DownloadOwnedIsWritten == Spec => []OwnedIsWritten
<1>1. IInv => OwnedIsWritten
  BY DEF IInv, DiskInv
<1>. QED BY <1>1, DownloadInvariant, PTL

(* A session in endgame is right: the torrent found that no piece is left  *)
(* to pick, and none becomes free again.                                   *)
THEOREM DownloadEndgameSound == Spec => []EndgameSound
<1>1. IInv => EndgameSound
  BY DEF IInv, EndgameInv
<1>. QED BY <1>1, DownloadInvariant, PTL

-----------------------------------------------------------------------------
(* Download implements PieceLife: each of its steps maps to a step of      *)
(* PieceLife or to a stutter, whatever sessions, disk task and torrent     *)
(* task do and whatever fails.                                             *)

(* Where a piece stands follows from three sets: owned, being registered,  *)
(* being downloaded.                                                       *)
LEMMA SameStage ==
  ASSUME UNCHANGED <<own_pieces, registering>>, DOMAIN downloads' = DOMAIN downloads
  PROVE  \A p \in Pieces : LifeOf(p)' = LifeOf(p)
BY DEF LifeOf

(* A step that changes none of them, and writes no piece, is a stutter.    *)
LEMMA NoStage ==
  ASSUME UNCHANGED <<own_pieces, registering, written>>, DOMAIN downloads' = DOMAIN downloads
  PROVE  UNCHANGED Life!lifeVars
BY SameStage DEF Life!lifeVars

(* A step that moves one piece from one stage to another moves the others' *)
(* stages nowhere: PieceLife's Becomes.                                    *)
LEMMA OneStage ==
  ASSUME NEW p \in Pieces, NEW before, NEW after,
         LifeOf(p) = before, LifeOf(p)' = after,
         \A q \in Pieces \ {p} : LifeOf(q)' = LifeOf(q)
  PROVE  Life!Becomes(p, before, after)
BY DEF Life!Becomes

(* A picked piece is past its first stage.                                 *)
LEMMA PickedHasStage ==
  ASSUME TableInv, NEW p \in Pieces
  PROVE  p \in is_pending => LifeOf(p) # "missing"
BY DEF TableInv, PickedIsDownloading, LifeOf

-----------------------------------------------------------------------------
(* Steps.                                                                  *)

(* Picking a piece starts its life; the rest of what a session does moves  *)
(* no piece: late blocks, timeouts, chokes and the end of the session too. *)
LEMMA SessionLives ==
  ASSUME TableInv, DiskInv, NEW s \in Sessions, SessionStep(s)
  PROVE  [Life!Next]_Life!lifeVars
<1>1. CASE QuietStep(s)
  <2>1. Quiet
    BY <1>1, QuietSteps DEF TableInv
  <2>. QED BY <2>1, NoStage DEF Quiet, diskVars, torrentVars
<1>2. ASSUME NEW b \in Blocks, HandleBlock(s, b)
      PROVE  [Life!Next]_Life!lifeVars
  <2>1. UNCHANGED <<own_pieces, registering, written>>
    BY <1>2 DEF HandleBlock, pickerVars, torrentVars, diskVars, Disk!SendWriteBlock
  <2>2. DOMAIN downloads' = DOMAIN downloads
    BY <1>2 DEF HandleBlock
  <2>. QED BY <2>1, <2>2, NoStage
<1>3. ASSUME NEW p \in Pieces, StartDownload(s, p)
      PROVE  Life!Start(p)
  <2>1. /\ p \notin own_pieces /\ p \notin is_pending
        /\ UNCHANGED <<own_pieces, registering, written>>
        /\ DOMAIN downloads' = DOMAIN downloads \cup {p}
    BY <1>3 DEF StartDownload, Picker!PickPiece, Picker!IsFirstPickable, Picker!Pickable,
       torrentVars, diskVars
  <2>2. p \notin registering /\ p \notin DOMAIN downloads
    BY <2>1 DEF TableInv, PickedIsDownloading, PickedPieces
  <2>3. LifeOf(p) = "missing" /\ LifeOf(p)' = "downloading"
    BY <2>1, <2>2 DEF LifeOf
  <2>4. \A q \in Pieces \ {p} : LifeOf(q)' = LifeOf(q)
    BY <2>1 DEF LifeOf
  <2>. QED BY <2>1, <2>3, <2>4, OneStage DEF Life!Start
<1>. QED BY <1>1, <1>2, <1>3 DEF SessionStep, QuietStep, Life!Next

(* A thread that ends writes a piece past its first stage, or nothing.     *)
LEMMA DiskLives ==
  ASSUME TableInv, DiskInv, DiskStep
  PROVE  [Life!Next]_Life!lifeVars
<1>1. UNCHANGED <<own_pieces, registering, downloads>>
  BY DEF DiskStep, pickerVars, torrentVars
<1>2. CASE UNCHANGED written
  BY <1>1, <1>2, NoStage
<1>3. ASSUME NEW p \in Pieces, Disk!FinishValid(p)
      PROVE  Life!Write(p)
  <2>1. p \in is_pending
    BY <1>3 DEF Disk!FinishValid, Disk!Finish, DiskInv
  <2>2. written' = written \cup {p}
    BY <1>3 DEF Disk!FinishValid
  <2>. QED BY <1>1, <2>1, <2>2, SameStage, PickedHasStage DEF Life!Write
<1>. QED
  BY <1>2, <1>3
  DEF DiskStep, Disk!WriteBlock, Disk!write_block, Disk!FinishInvalid, Disk!FinishError, Life!Next

(* A valid report finishes its piece, unless the piece is owned already,   *)
(* and the picker then owns it; nothing else moves a piece.                *)
LEMMA TorrentLives ==
  ASSUME TableInv, DiskInv, TorrentStep
  PROVE  [Life!Next]_Life!lifeVars
<1>1. ASSUME NEW p \in Pieces, TakeValid(p)
      PROVE  [Life!Next]_Life!lifeVars
  <2>1. /\ UNCHANGED <<own_pieces, written>>
        /\ registering = {} /\ registering' = {p}
        /\ DOMAIN downloads' = DOMAIN downloads \ {p}
    BY <1>1 DEF TakeValid, TorrentReady, Disk!TakeCompletion, pickerVars
  <2>2. p \in PickedPieces \cap written
    <3>1. Head(completions) \in Reports
      BY <1>1, SeqTail DEF TakeValid, Disk!TakeCompletion, DiskInv
    <3>. QED BY <1>1, <3>1, ReportParts DEF TakeValid
  <2>3. \A q \in Pieces \ {p} : LifeOf(q)' = LifeOf(q)
    BY <2>1 DEF LifeOf
  <2>4. CASE p \in own_pieces
    <3>1. LifeOf(p)' = LifeOf(p)
      BY <2>1, <2>4 DEF LifeOf
    <3>. QED BY <2>1, <2>3, <3>1 DEF Life!lifeVars
  <2>5. CASE p \notin own_pieces
    <3>1. p \in DOMAIN downloads
      BY <2>1, <2>2, <2>5 DEF TableInv, PickedIsDownloading, PickedPieces
    <3>2. LifeOf(p) = "downloading" /\ LifeOf(p)' = "finishing"
      BY <2>1, <2>5, <3>1 DEF LifeOf
    <3>3. \A q \in Pieces : LifeOf(q) # "finishing"
      BY <2>1 DEF LifeOf
    <3>4. Life!Finish(p)
      BY <2>1, <2>2, <2>3, <3>2, <3>3, OneStage DEF Life!Finish
    <3>. QED BY <3>4 DEF Life!Next
  <2>. QED BY <2>4, <2>5
<1>2. ASSUME NEW p \in Pieces, TakeInvalid(p) \/ TakeError \/ RegisterPanics(p)
      PROVE  UNCHANGED Life!lifeVars
  <2>1. UNCHANGED <<own_pieces, registering, written>>
    BY <1>2 DEF TakeInvalid, TakeError, RegisterPanics, Disk!TakeCompletion, pickerVars,
       torrentVars, diskVars
  <2>2. DOMAIN downloads' = DOMAIN downloads
    BY <1>2 DEF TakeInvalid, TakeError, RegisterPanics
  <2>. QED BY <2>1, <2>2, NoStage
<1>3. ASSUME NEW p \in Pieces, RegisterPiece(p)
      PROVE  Life!Own(p)
  <2>1. /\ p \notin own_pieces /\ own_pieces' = own_pieces \cup {p}
        /\ registering = {p} /\ registering' = {}
        /\ UNCHANGED <<downloads, written>>
    BY <1>3 DEF RegisterPiece, Picker!ReceivedPiece, diskVars
  <2>2. LifeOf(p) = "finishing" /\ LifeOf(p)' = "owned"
    BY <2>1 DEF LifeOf
  <2>3. \A q \in Pieces \ {p} : LifeOf(q)' = LifeOf(q)
    BY <2>1 DEF LifeOf
  <2>. QED BY <2>1, <2>2, <2>3, OneStage DEF Life!Own
<1>4. \E p \in Pieces : TRUE
  BY DownloadAssumption DEF Pieces
<1>. QED BY <1>1, <1>2, <1>3, <1>4 DEF TorrentStep, Life!Next

-----------------------------------------------------------------------------
(* The refinement.                                                         *)

(* At the start every piece is missing and nothing is written.             *)
LEMMA StartsLife ==
  ASSUME Init
  PROVE  Life!Init
<1>1. own_pieces = {} /\ registering = {} /\ DOMAIN downloads = {} /\ written = {}
  BY DEF Init, Picker!New, Disk!DiskInit
<1>2. \A p \in Pieces : LifeOf(p) = "missing"
  BY <1>1 DEF LifeOf
<1>. QED BY <1>1, <1>2 DEF Life!Init

(* Every step is one of PieceLife's, or none.                              *)
LEMMA StepLives ==
  ASSUME IInv, [Next]_vars
  PROVE  [Life!Next]_Life!lifeVars
<1>1. CASE UNCHANGED vars
  <2>1. UNCHANGED <<own_pieces, registering, written, downloads>>
    BY <1>1 DEF vars, pickerVars, torrentVars, diskVars
  <2>. QED BY <2>1, NoStage
<1>. QED BY <1>1, SessionLives, DiskLives, TorrentLives DEF Next, IInv

(* The whole download, with its two locks, its late blocks, its second     *)
(* completions and its faults, keeps PieceLife's promise to each piece.    *)
THEOREM DownloadImplementsPieceLife == Spec => PiecesLive
<1>1. Init => Life!Init
  BY StartsLife
<1>2. IInv /\ [Next]_vars => [Life!Next]_Life!lifeVars
  BY StepLives
<1>. QED BY <1>1, <1>2, DownloadInvariant, PTL DEF Spec, PiecesLive, Life!Spec

-----------------------------------------------------------------------------
(* The request queue.                                                      *)

(* The sets of blocks a session holds are finite.                          *)
LEMMA BlocksFinite ==
  /\ \A p \in Pieces : IsFiniteSet(BlocksOf(p))
  /\ IsFiniteSet(Blocks)
  /\ \A S \in SUBSET Blocks : IsFiniteSet(S) /\ Cardinality(S) \in Nat
<1>1. ASSUME NEW p \in Pieces
      PROVE  IsFiniteSet(BlocksOf(p))
  <2>. DEFINE f == [i \in 0 .. BlocksIn[p] - 1 |-> <<p, i>>]
  <2>1. IsFiniteSet(0 .. BlocksIn[p] - 1)
    BY DownloadAssumption, FS_Interval DEF Pieces
  <2>2. IsFiniteSet({f[i] : i \in 0 .. BlocksIn[p] - 1})
    <3>1. f = [i \in 0 .. BlocksIn[p] - 1 |-> f[i]]
      OBVIOUS
    <3>. HIDE DEF f
    <3>. QED BY <2>1, <3>1, ImageFinite
  <2>3. {f[i] : i \in 0 .. BlocksIn[p] - 1} = BlocksOf(p)
    BY DEF BlocksOf
  <2>. QED BY <2>2, <2>3
<1>2. IsFiniteSet(Blocks)
  <2>. DEFINE f == [p \in Pieces |-> BlocksOf(p)]
  <2>1. IsFiniteSet(Pieces)
    BY DownloadAssumption, FS_Interval DEF Pieces
  <2>2. IsFiniteSet({f[p] : p \in Pieces})
    <3>1. f = [p \in Pieces |-> f[p]]
      OBVIOUS
    <3>. HIDE DEF f
    <3>. QED BY <2>1, <3>1, ImageFinite
  <2>3. \A S \in {f[p] : p \in Pieces} : IsFiniteSet(S)
    BY <1>1
  <2>4. UNION {f[p] : p \in Pieces} = Blocks
    BY DEF Blocks
  <2>. QED BY <2>2, <2>3, <2>4, FS_UNION
<1>. QED BY <1>1, <1>2, FS_Subset, FS_CardinalityType

(* The table of downloads counts with the same Cardinality.                *)
LEMMA SameTableCardinality ==
  ASSUME NEW S
  PROVE  Table!Cardinality(S) = Cardinality(S)
BY DEF Table!Cardinality, Cardinality

(* A scan takes no more than it is asked for: all that it takes but the    *)
(* last lies before the last, of which there are fewer than the count.     *)
LEMMA FirstOfBound ==
  ASSUME NEW n \in Nat, NEW S, S \subseteq 0 .. n, NEW count \in Nat
  PROVE  /\ IsFiniteSet(Table!FirstOf(S, count))
         /\ Cardinality(Table!FirstOf(S, count)) <= count
<1>. DEFINE first == Table!FirstOf(S, count)
<1>. SUFFICES IsFiniteSet(first) /\ Cardinality(first) <= count
  OBVIOUS
<1>1. IsFiniteSet(S) /\ first \subseteq S /\ \A i \in S : i \in Int /\ i <= n
  <2>1. IsFiniteSet(0 .. n)
    BY FS_Interval
  <2>2. \A i \in S : i \in 0 .. n
    OBVIOUS
  <2>3. first \subseteq S
    BY DEF Table!FirstOf
  <2>4. IsFiniteSet(S)
    BY <2>1, FS_Subset
  <2>5. \A i \in S : i \in Int /\ i <= n
    BY <2>2
  <2>. QED BY <2>3, <2>4, <2>5
<1>2. \A i \in first : Cardinality({j \in S : j < i}) < count
  BY SameTableCardinality DEF Table!FirstOf
<1>. HIDE DEF first
<1>3. IsFiniteSet(first) /\ Cardinality(first) \in Nat
  BY <1>1, FS_Subset, FS_CardinalityType
<1>4. CASE first = {}
  BY <1>4, FS_EmptySet
<1>5. CASE first # {}
  <2>1. PICK m \in first : \A i \in first : i <= m
    <3>1. first \subseteq Int /\ n \in Int /\ \A i \in first : i <= n
      BY <1>1
    <3>. QED BY <1>5, <3>1, GreatestNumber, Zenon
  <2>. DEFINE before == {j \in S : j < m}
  <2>2. Cardinality(before) < count
    BY <1>2, <2>1
  <2>3. first \subseteq before \cup {m}
    BY <1>1, <2>1
  <2>4. IsFiniteSet(before) /\ Cardinality(before) \in Nat
    BY <1>1, FS_Subset, FS_CardinalityType
  <2>. HIDE DEF before
  <2>5. /\ IsFiniteSet(before \cup {m}) /\ Cardinality(before \cup {m}) \in Nat
        /\ Cardinality(before \cup {m}) <= Cardinality(before) + 1
    BY SMTT(30), <2>4, FS_AddElement, FS_CardinalityType
  <2>6. Cardinality(first) <= Cardinality(before \cup {m})
    BY <2>3, <2>5, FS_Subset
  <2>. QED BY <1>3, <2>2, <2>4, <2>5, <2>6
<1>. QED BY <1>3, <1>4, <1>5

(* The session's queue after a step of its own: make_requests fills it up  *)
(* to the target at most, whatever it picks; every other step only lets    *)
(* picked blocks go.                                                       *)
LEMMA SessionQueue ==
  ASSUME SessionInv, TablesTyped, NEW s \in Sessions, SessionStep(s)
  PROVE  \/ requests'[s] \subseteq requests[s]
         \/ Cardinality(requests'[s]) + Cardinality(outgoing_requests'[s]) <= target_len[s]
<1>1. /\ Cardinality(requests[s]) \in Nat /\ IsFiniteSet(requests[s])
      /\ Cardinality(outgoing_requests[s]) \in Nat
      /\ target_len[s] \in Nat
  BY BlocksFinite, DownloadAssumption DEF SessionInv
<1>2. CASE ContinueDownloads(s)
  <2>1. CASE requests' = requests
    BY <2>1
  <2>2. ASSUME Quota(s) > 0, NEW S \in ContinuedPicks(s), requests' = [requests EXCEPT ![s] = S]
        PROVE  Cardinality(requests'[s]) + Cardinality(outgoing_requests'[s]) <= target_len[s]
    <3>. DEFINE eligible == UNION {{<<p, i>> : i \in EligibleIn(s, p)} : p \in DOMAIN downloads}
    <3>1. Cardinality(S) = IF Quota(s) < Cardinality(eligible) THEN Quota(s)
                           ELSE Cardinality(eligible)
      BY <2>2 DEF ContinuedPicks
    <3>2. IsFiniteSet(eligible) /\ Cardinality(eligible) \in Nat
      <4>1. \A p \in DOMAIN downloads :
              p \in Pieces /\ EligibleIn(s, p) \subseteq 0 .. BlocksIn[p] - 1
        BY DEF TablesTyped, EligibleIn, Table!Eligible
      <4>2. eligible \subseteq Blocks
        BY <4>1 DEF Blocks, BlocksOf
      <4>. QED BY <4>2, BlocksFinite
    <3>3. Quota(s) \in Int /\ Quota(s) <= target_len[s] - Cardinality(outgoing_requests[s])
      BY <1>1 DEF Quota
    <3>4. Cardinality(S) <= Quota(s)
      BY <3>1, <3>2, <3>3
    <3>5. requests'[s] = S /\ outgoing_requests'[s] = outgoing_requests[s]
      BY <1>2, <2>2 DEF ContinueDownloads, SessionInv
    <3>6. Cardinality(S) \in Int
      BY <3>1, <3>2, <3>3
    <3>. QED BY <1>1, <3>3, <3>4, <3>5, <3>6
  <2>. QED BY <1>2, <2>1, <2>2 DEF ContinueDownloads
<1>3. ASSUME NEW p \in Pieces, StartDownload(s, p)
      PROVE  Cardinality(requests'[s]) + Cardinality(outgoing_requests'[s]) <= target_len[s]
  <2>. DEFINE eligible == Table!Eligible(Table!NewBlocks(BlocksIn[p]), session_endgame[s], {})
              picked == Table!FirstOf(eligible, Quota(s))
              f == [i \in picked |-> <<p, i>>]
              new == {f[i] : i \in picked}
  <2>1. BlocksIn[p] - 1 \in Nat /\ eligible \subseteq 0 .. BlocksIn[p] - 1
    BY DownloadAssumption DEF Pieces, Table!Eligible, Table!NewBlocks
  <2>2. Quota(s) \in Nat /\ Quota(s) > 0
    BY <1>1, <1>3 DEF Quota, StartDownload
  <2>3. IsFiniteSet(picked) /\ Cardinality(picked) <= Quota(s) /\ Cardinality(picked) \in Nat
    <3>. HIDE DEF eligible
    <3>. QED BY <2>1, <2>2, FirstOfBound, FS_CardinalityType
  <2>4. IsFiniteSet(new) /\ Cardinality(new) <= Cardinality(picked) /\ Cardinality(new) \in Nat
    <3>1. f = [i \in picked |-> f[i]]
      OBVIOUS
    <3>. HIDE DEF f, picked
    <3>. QED BY <2>3, <3>1, ImageFinite, FS_CardinalityType
  <2>5. requests'[s] = requests[s] \cup new /\ outgoing_requests'[s] = outgoing_requests[s]
    BY <1>3 DEF StartDownload, SessionInv, Table!PickedBlocks
  <2>6. Cardinality(requests[s] \cup new) <= Cardinality(requests[s]) + Cardinality(new)
    <3>1. IsFiniteSet(requests[s] \cap new) /\ Cardinality(requests[s] \cap new) \in Nat
      BY <1>1, FS_Subset, FS_CardinalityType
    <3>. HIDE DEF new
    <3>2. Cardinality(requests[s] \cup new) =
            Cardinality(requests[s]) + Cardinality(new) - Cardinality(requests[s] \cap new)
      BY <1>1, <2>4, FS_Union
    <3>. QED BY <1>1, <2>4, <3>1, <3>2
  <2>7. Cardinality(requests[s] \cup new) \in Nat
    <3>. HIDE DEF new
    <3>. QED BY <1>1, <2>4, FS_Union, FS_CardinalityType
  <2>8. Quota(s) = target_len[s] - Cardinality(outgoing_requests[s]) - Cardinality(requests[s])
    BY DEF Quota
  <2>. HIDE DEF new, picked
  <2>. QED BY <1>1, <2>2, <2>3, <2>4, <2>5, <2>6, <2>7, <2>8
<1>4. CASE QuietStep(s) /\ ~ ContinueDownloads(s)
  BY <1>4
  DEF QuietStep, HandleBitfield, HandleOtherFirst, HandleHave, HandleChoke, HandleUnchoke,
      SendRequests, SendFails, TimeOut, AdjustTarget, HandlePieceCompletion, Leave, End, Exit,
      pipelineVars, SessionInv
<1>5. ASSUME NEW b \in Blocks, HandleBlock(s, b)
      PROVE  requests' = requests
  BY <1>5 DEF HandleBlock
<1>. QED BY <1>2, <1>3, <1>4, <1>5 DEF SessionStep, QuietStep

(* A step of one session leaves the queues of the others alone.            *)
LEMMA OthersQueues ==
  ASSUME SessionInv, NEW s \in Sessions, SessionStep(s), NEW t \in Sessions, t # s
  PROVE  requests'[t] = requests[t]
BY DEF SessionInv, SessionStep, HandleBitfield, HandleOtherFirst, HandleHave, HandleChoke,
   HandleUnchoke, HandleBlock, ContinueDownloads, StartDownload, SendRequests, SendFails, TimeOut,
   AdjustTarget, HandlePieceCompletion, Leave, End, Exit, pipelineVars

(* make_requests never picks past the target length of the queue, counting *)
(* what is in flight, what it picked in earlier rounds and, in endgame,    *)
(* what it requests a second time.                                         *)
THEOREM DownloadQueueWithinTarget == Spec => QueueWithinTarget
<1>1. ASSUME IInv, [Next]_vars, NEW t \in Sessions
      PROVE  \/ requests'[t] \subseteq requests[t]
             \/ Cardinality(requests'[t]) + Cardinality(outgoing_requests'[t]) <= target_len[t]
  <2>1. CASE UNCHANGED requests
    BY <2>1
  <2>2. ASSUME NEW s \in Sessions, SessionStep(s)
        PROVE  \/ requests'[t] \subseteq requests[t]
               \/ Cardinality(requests'[t]) + Cardinality(outgoing_requests'[t]) <= target_len[t]
    BY <1>1, <2>2, SessionQueue, OthersQueues DEF IInv, TableInv
  <2>3. DiskStep \/ TorrentStep \/ UNCHANGED vars => UNCHANGED requests
    BY DEF DiskStep, TorrentStep, TakeValid, TakeInvalid, TakeError, RegisterPiece, RegisterPanics,
       sessionVars, pipelineVars, vars
  <2>. QED BY <1>1, <2>1, <2>2, <2>3 DEF Next
<1>2. IInv /\ [Next]_vars =>
        [\A s \in Sessions : requests'[s] \subseteq requests[s] \/
           Cardinality(requests'[s]) + Cardinality(outgoing_requests'[s]) <= target_len[s]]_vars
  BY <1>1
<1>. QED BY <1>2, DownloadInvariant, PTL DEF Spec, QueueWithinTarget

-----------------------------------------------------------------------------
\* The blocks that session s has requested, or picked and not sent yet.
Held(s) == outgoing_requests[s] \cup requests[s]

Indices(p) == 0 .. BlocksIn[p] - 1

-----------------------------------------------------------------------------
(* What a step of a session does to one block.                             *)

\* Picked by s, in a download that was there or in one that it starts.
IsPicked(s, p, i) ==
  /\ <<p, i>> \in Held(s)'
  /\ downloads'[p][i] = "Requested"
  /\ p \in DOMAIN downloads => i \in EligibleIn(s, p)

\* Freed by s, which held it.
IsGivenBack(s, p, i) ==
  /\ p \in DOMAIN downloads
  /\ <<p, i>> \in Held(s) /\ <<p, i>> \notin Held(s)'
  /\ downloads'[p][i] = "Free"

\* Received by s, for the first time or again.
IsAnswered(s, p, i) ==
  /\ p \in DOMAIN downloads
  /\ <<p, i>> \notin Held(s)'
  /\ downloads'[p][i] = "Received"
  /\ downloads[p][i] = "Received" \/ disk_queue' = Append(disk_queue, <<p, i>>)

IsLeftAlone(s, p, i) ==
  /\ p \in DOMAIN downloads
  /\ <<p, i>> \in Held(s)' <=> <<p, i>> \in Held(s)
  /\ downloads'[p][i] = downloads[p][i]

\* In a download just started, beyond what s could pick.
IsNotPicked(s, p, i) ==
  /\ p \notin DOMAIN downloads
  /\ <<p, i>> \notin Held(s)'
  /\ downloads'[p][i] = "Free"

\* Something has made a session forget blocks that it had marked.
MayDrop == ~ (Without("send_failure") /\ Without("cut_short"))

\* Forgotten by s and not freed.
IsDropped(s, p, i) ==
  /\ MayDrop'
  /\ p \in DOMAIN downloads
  /\ <<p, i>> \in Held(s) /\ <<p, i>> \notin Held(s)'
  /\ downloads'[p][i] = downloads[p][i]

BlockMove(s) ==
  /\ \A t \in Sessions : t # s => Held(t)' = Held(t)
  /\ DOMAIN downloads \subseteq DOMAIN downloads'
  /\ \A b \in Held(s)' : b \in Held(s) \/ b[1] \in DOMAIN downloads'
  /\ \A p \in DOMAIN downloads' : \A i \in Indices(p) :
       \/ IsPicked(s, p, i) \/ IsGivenBack(s, p, i) \/ IsAnswered(s, p, i)
       \/ IsLeftAlone(s, p, i) \/ IsNotPicked(s, p, i) \/ IsDropped(s, p, i)

\* Blocks are picked and not sent only inside make_requests, and what a
\* session holds belongs to a picked piece.
NothingPicked == \A s \in Sessions : pc[s] \in {"select", "continue"} => requests[s] = {}
HeldIsPicked == \A s \in Sessions : Held(s) \subseteq BlocksOfPicked

(* Freeing a set of blocks frees these and touches no other.               *)
LEMMA FreedStatus ==
  ASSUME TablesTyped, NEW S, NEW p \in DOMAIN downloads, NEW i \in Indices(p)
  PROVE  Freed(S)[p][i] = IF <<p, i>> \in S THEN "Free" ELSE downloads[p][i]
<1>1. i \in IndicesIn(p, S) <=> <<p, i>> \in S
  BY DEF IndicesIn, Indices
<1>2. i \in DOMAIN downloads[p]
  BY DEF TablesTyped, Indices
<1>. QED BY <1>1, <1>2 DEF Freed, Table!FreeBlocks

(* A step that leaves the table and the requests alone moves no block.     *)
LEMMA NoBlockMove ==
  ASSUME UNCHANGED <<downloads, outgoing_requests, requests>>, NEW s \in Sessions
  PROVE  BlockMove(s)
BY DEF BlockMove, Held, IsLeftAlone

(* What went wrong stays known.                                            *)
LEMMA KindsGrow ==
  ASSUME SessionInv, [Next]_vars
  PROVE  faults.kinds \subseteq faults'.kinds
<1>. USE DEF SessionInv
<1>1. ASSUME NEW kind, Fault(kind)
      PROVE  faults.kinds \subseteq faults'.kinds
  BY <1>1, FaultTyped
<1>2. ASSUME NEW s \in Sessions, SessionStep(s)
      PROVE  faults' = faults \/ \E kind : Fault(kind)
  BY <1>2
  DEF SessionStep, HandleBitfield, HandleOtherFirst, HandleHave, HandleChoke, HandleUnchoke,
      HandleBlock, ContinueDownloads, StartDownload, SendRequests, SendFails, TimeOut,
      AdjustTarget, HandlePieceCompletion, Leave, End
<1>3. DiskStep => faults' = faults \/ \E kind : Fault(kind)
  BY DEF DiskStep
<1>4. TorrentStep => faults' = faults
  BY DEF TorrentStep, TakeValid, TakeInvalid, TakeError, RegisterPiece, RegisterPanics
<1>. QED BY <1>1, <1>2, <1>3, <1>4 DEF Next, vars

(* Giving back what a session holds, or, if it drops blocks, a part.       *)
LEMMA GiveBack ==
  ASSUME SessionInv, TablesTyped, NEW s \in Sessions, NEW S,
         downloads' = Freed(S), S \subseteq Held(s),
         outgoing_requests' = [outgoing_requests EXCEPT ![s] = {}],
         requests' = [requests EXCEPT ![s] = {}],
         S = Held(s) \/ MayDrop'
  PROVE  BlockMove(s)
<1>1. /\ DOMAIN downloads' = DOMAIN downloads
      /\ Held(s)' = {}
      /\ \A t \in Sessions : t # s => Held(t)' = Held(t)
  BY FreedTyped DEF SessionInv, Held
<1>2. ASSUME NEW p \in DOMAIN downloads, NEW i \in Indices(p)
      PROVE  IsGivenBack(s, p, i) \/ IsLeftAlone(s, p, i) \/ IsDropped(s, p, i)
  <2>1. downloads'[p][i] = IF <<p, i>> \in S THEN "Free" ELSE downloads[p][i]
    BY FreedStatus
  <2>2. CASE <<p, i>> \in S
    BY <1>1, <2>1, <2>2 DEF IsGivenBack
  <2>3. CASE <<p, i>> \notin Held(s)
    BY <1>1, <2>1, <2>3 DEF IsLeftAlone
  <2>4. CASE <<p, i>> \in Held(s) \ S
    BY <1>1, <2>1, <2>4 DEF IsDropped
  <2>. QED BY <2>2, <2>3, <2>4
<1>. QED BY <1>1, <1>2 DEF BlockMove

(* A choke, a timeout and the end of a session give back what was held.    *)
LEMMA GivingBackMoves ==
  ASSUME IInv, NothingPicked, NEW s \in Sessions,
         \/ HandleChoke(s) \/ TimeOut(s) \/ Leave(s)
         \/ \E registered \in SUBSET requests[s] : SendFails(s, registered)
  PROVE  BlockMove(s)
<1>. USE DEF IInv, TableInv
<1>1. ASSUME pc[s] = "select"
      PROVE  /\ requests[s] = {} /\ requests = [requests EXCEPT ![s] = {}]
             /\ Held(s) = outgoing_requests[s]
  BY <1>1 DEF NothingPicked, SessionInv, Held
<1>0. ASSUME NEW kind, NEW S, End(s, kind, S), S \subseteq Held(s),
             S = Held(s) \/ kind = "send_failure"
      PROVE  BlockMove(s)
  <2>1. /\ outgoing_requests' = [outgoing_requests EXCEPT ![s] = {}]
        /\ requests' = [requests EXCEPT ![s] = {}]
    BY <1>0 DEF End, Exit
  <2>2. CASE Fault(kind) /\ Exit(s, S)
    <3>1. kind = "send_failure" => MayDrop'
      BY <2>2, FaultTyped DEF SessionInv, MayDrop, Without
    <3>. QED BY <1>0, <2>1, <2>2, <3>1, GiveBack DEF Exit
  <2>3. CASE Fault("cut_short") /\ Exit(s, {})
    <3>1. MayDrop'
      BY <2>3, FaultTyped DEF SessionInv, MayDrop, Without
    <3>. QED BY <2>1, <2>3, <3>1, GiveBack DEF Exit
  <2>. QED BY <1>0, <2>2, <2>3 DEF End
<1>2. CASE HandleChoke(s)
  <2>1. /\ pc[s] = "select" /\ downloads' = Freed(outgoing_requests[s])
        /\ outgoing_requests' = [outgoing_requests EXCEPT ![s] = {}] /\ requests' = requests
    BY <1>2 DEF HandleChoke, Connected
  <2>. QED BY <1>1, <2>1, GiveBack
<1>3. CASE TimeOut(s)
  <2>1. /\ pc[s] = "select" /\ downloads' = Freed(outgoing_requests[s])
        /\ outgoing_requests' = [outgoing_requests EXCEPT ![s] = {}] /\ requests' = requests
    BY <1>3 DEF TimeOut, Selecting
  <2>. QED BY <1>1, <2>1, GiveBack
<1>4. CASE Leave(s)
  BY <1>0, <1>1, <1>4 DEF Leave, Selecting
<1>5. ASSUME NEW registered \in SUBSET requests[s], SendFails(s, registered)
      PROVE  BlockMove(s)
  BY <1>0, <1>5 DEF SendFails, Held
<1>. QED BY <1>2, <1>3, <1>4, <1>5

(* A block that arrives is no longer held, and received if it has a table. *)
LEMMA HandleBlockMoves ==
  ASSUME IInv, NothingPicked, NEW s \in Sessions, NEW b \in Blocks, HandleBlock(s, b)
  PROVE  BlockMove(s)
<1>. USE DEF IInv, TableInv
<1>1. /\ requests[s] = {} /\ requests' = requests
      /\ outgoing_requests' = [outgoing_requests EXCEPT ![s] = @ \ {b}]
  BY DEF HandleBlock, Connected, NothingPicked
<1>2. /\ Held(s)' = Held(s) \ {b}
      /\ \A t \in Sessions : t # s => Held(t)' = Held(t)
  BY <1>1 DEF SessionInv, Held
<1>3. b[1] \in Pieces /\ b = <<b[1], b[2]>>
  BY DEF Blocks, BlocksOf
<1>4. DOMAIN downloads' = DOMAIN downloads
  BY DEF HandleBlock
<1>5. ASSUME NEW p \in DOMAIN downloads, NEW i \in Indices(p)
      PROVE  IsAnswered(s, p, i) \/ IsLeftAlone(s, p, i)
  <2>1. i \in DOMAIN downloads[p]
    BY DEF TablesTyped, Indices
  <2>2. CASE <<p, i>> = b
    <3>1. p = b[1] /\ i = b[2]
      BY <2>2
    <3>2. downloads' = [downloads EXCEPT ![p] = Table!ReceivedBlock(@, i)]
      BY <3>1 DEF HandleBlock
    <3>3. downloads'[p][i] = "Received"
      BY <2>1, <3>2 DEF Table!ReceivedBlock
    <3>4. downloads[p][i] # "Received" => disk_queue' = Append(disk_queue, <<p, i>>)
      BY <2>2, <3>1 DEF HandleBlock, IsNew, Disk!SendWriteBlock
    <3>. QED BY <1>2, <2>2, <3>3, <3>4 DEF IsAnswered
  <2>3. CASE <<p, i>> # b
    <3>1. downloads'[p][i] = downloads[p][i]
      <4>1. CASE p = b[1]
        <5>1. i # b[2]
          BY <1>3, <2>3, <4>1
        <5>. QED BY <2>1, <4>1, <5>1 DEF HandleBlock, Table!ReceivedBlock
      <4>2. CASE p # b[1]
        BY <4>2 DEF HandleBlock
      <4>. QED BY <4>1, <4>2
    <3>. QED BY <1>2, <2>3, <3>1 DEF IsLeftAlone
  <2>. QED BY <2>2, <2>3
<1>. QED BY <1>2, <1>4, <1>5 DEF BlockMove

(* The first loop of make_requests picks only what is eligible.            *)
LEMMA ContinueMoves ==
  ASSUME IInv, NothingPicked, NEW s \in Sessions, ContinueDownloads(s)
  PROVE  BlockMove(s)
<1>. USE DEF IInv, TableInv
<1>1. requests[s] = {} /\ outgoing_requests' = outgoing_requests
  BY DEF ContinueDownloads, NothingPicked
<1>2. CASE UNCHANGED <<requests, downloads>>
  BY <1>1, <1>2, NoBlockMove
<1>3. ASSUME NEW S \in ContinuedPicks(s),
             requests' = [requests EXCEPT ![s] = S],
             downloads' = [p \in DOMAIN downloads |->
                             Table!MarkRequested(downloads[p], IndicesIn(p, S))]
      PROVE  BlockMove(s)
  <2>1. /\ DOMAIN downloads' = DOMAIN downloads
        /\ Held(s)' = Held(s) \cup S
        /\ \A t \in Sessions : t # s => Held(t)' = Held(t)
    BY <1>1, <1>3 DEF SessionInv, Held
  <2>2. \A b \in S : \E p \in DOMAIN downloads : \E i \in EligibleIn(s, p) : b = <<p, i>>
    BY DEF ContinuedPicks
  <2>3. ASSUME NEW p \in DOMAIN downloads, NEW i \in Indices(p)
        PROVE  IsPicked(s, p, i) \/ IsLeftAlone(s, p, i)
    <3>1. i \in DOMAIN downloads[p]
      BY DEF TablesTyped, Indices
    <3>2. downloads'[p][i] = IF <<p, i>> \in S THEN "Requested" ELSE downloads[p][i]
      BY <1>3, <3>1 DEF Table!MarkRequested, IndicesIn, Indices
    <3>3. CASE <<p, i>> \in S
      BY <2>1, <2>2, <3>2, <3>3 DEF IsPicked
    <3>4. CASE <<p, i>> \notin S
      BY <2>1, <3>2, <3>4 DEF IsLeftAlone
    <3>. QED BY <3>3, <3>4
  <2>4. \A b \in S : b[1] \in DOMAIN downloads
    BY <2>2
  <2>. QED BY <2>1, <2>3, <2>4 DEF BlockMove
<1>. QED BY <1>2, <1>3 DEF ContinueDownloads

(* A download is started for a piece of which nobody holds a block.        *)
LEMMA StartMoves ==
  ASSUME IInv, HeldIsPicked, NEW s \in Sessions, NEW q \in Pieces, StartDownload(s, q)
  PROVE  BlockMove(s)
<1>. USE DEF IInv, TableInv
<1>. DEFINE new == Table!NewBlocks(BlocksIn[q])
            picked == Table!PickedBlocks(new, Quota(s), session_endgame[s], {})
            S == {<<q, i>> : i \in picked}
<1>1. /\ q \notin is_pending /\ q \notin DOMAIN downloads
      /\ outgoing_requests' = outgoing_requests
      /\ requests' = [requests EXCEPT ![s] = @ \cup S]
      /\ downloads' = [p \in DOMAIN downloads \cup {q} |->
                         IF p = q THEN Table!MarkRequested(new, picked) ELSE downloads[p]]
  BY DEF StartDownload, Picker!PickPiece, Picker!IsFirstPickable, Picker!Pickable,
     PickedIsDownloading
<1>2. /\ Held(s)' = Held(s) \cup S
      /\ \A t \in Sessions : t # s => Held(t)' = Held(t)
  BY <1>1 DEF SessionInv, Held
<1>3. \A b \in Held(s) : b[1] # q
  BY <1>1 DEF HeldIsPicked, BlocksOfPicked
<1>4. ASSUME NEW i \in Indices(q)
      PROVE  IsPicked(s, q, i) \/ IsNotPicked(s, q, i)
  <2>1. downloads'[q][i] = IF i \in picked THEN "Requested" ELSE "Free"
    BY <1>1 DEF Table!MarkRequested, Table!NewBlocks, Indices
  <2>2. <<q, i>> \in Held(s)' <=> i \in picked
    BY <1>2, <1>3
  <2>. QED BY <1>1, <2>1, <2>2 DEF IsPicked, IsNotPicked
<1>5. ASSUME NEW p \in DOMAIN downloads, NEW i \in Indices(p)
      PROVE  IsLeftAlone(s, p, i)
  BY <1>1, <1>2 DEF IsLeftAlone
<1>6. \A b \in S : b[1] \in DOMAIN downloads'
  BY <1>1
<1>7. DOMAIN downloads' = DOMAIN downloads \cup {q}
  BY <1>1
<1>. QED BY <1>2, <1>4, <1>5, <1>6, <1>7 DEF BlockMove

(* Every step of a session is a move of each block.                        *)
LEMMA SessionMoves ==
  ASSUME IInv, NothingPicked, HeldIsPicked, NEW s \in Sessions, SessionStep(s)
  PROVE  BlockMove(s)
<1>2. CASE UNCHANGED <<downloads, outgoing_requests, requests>>
  BY <1>2, NoBlockMove
<1>3. CASE SendRequests(s)
  <2>1. /\ downloads' = downloads
        /\ outgoing_requests' = [outgoing_requests EXCEPT ![s] = @ \cup requests[s]]
        /\ requests' = [requests EXCEPT ![s] = {}]
    BY <1>3 DEF SendRequests
  <2>2. \A t \in Sessions : Held(t)' = Held(t)
    BY <2>1 DEF Held, IInv, SessionInv
  <2>. QED BY <2>1, <2>2 DEF BlockMove, IsLeftAlone
<1>4. CASE \/ HandleChoke(s) \/ TimeOut(s) \/ Leave(s)
           \/ \E registered \in SUBSET requests[s] : SendFails(s, registered)
  BY <1>4, GivingBackMoves
<1>5. ASSUME NEW b \in Blocks, HandleBlock(s, b)
      PROVE  BlockMove(s)
  BY <1>5, HandleBlockMoves
<1>6. CASE ContinueDownloads(s)
  BY <1>6, ContinueMoves
<1>7. ASSUME NEW q \in Pieces, StartDownload(s, q)
      PROVE  BlockMove(s)
  BY <1>7, StartMoves
<1>. QED
  BY <1>2, <1>3, <1>4, <1>5, <1>6, <1>7
  DEF SessionStep, HandleBitfield, HandleOtherFirst, HandleHave, HandleUnchoke, AdjustTarget,
      HandlePieceCompletion, pipelineVars

-----------------------------------------------------------------------------
(* What the sessions hold.                                                 *)

HeldInv == NothingPicked /\ HeldIsPicked

(* Only make_requests fills the pick buffer, and leaving it empties it.    *)
LEMMA SessionKeepsNothingPicked ==
  ASSUME SessionInv, NothingPicked, NEW s \in Sessions, SessionStep(s)
  PROVE  NothingPicked'
<1>. USE DEF NothingPicked, SessionInv
<1>1. CASE UNCHANGED <<requests, pc>>
  BY <1>1
<1>2. CASE /\ requests' = requests /\ pc[s] = "select"
           /\ \E next : pc' = [pc EXCEPT ![s] = next]
  BY <1>2
<1>3. CASE requests' = [requests EXCEPT ![s] = {}] /\ pc' = [pc EXCEPT ![s] = "select"]
  BY <1>3
<1>4. CASE pc' = [pc EXCEPT ![s] = "start"] /\ \A t \in Sessions : t # s => requests'[t] = requests[t]
  BY <1>4
<1>5. CASE HandleUnchoke(s)
  BY <1>2, <1>5 DEF HandleUnchoke, Selecting
<1>6. ASSUME NEW b \in Blocks, HandleBlock(s, b)
      PROVE  NothingPicked'
  BY <1>2, <1>6 DEF HandleBlock, Connected
<1>7. CASE ContinueDownloads(s)
  BY <1>4, <1>7 DEF ContinueDownloads
<1>8. ASSUME NEW p \in Pieces, StartDownload(s, p)
      PROVE  NothingPicked'
  BY <1>8 DEF StartDownload
<1>9. CASE SendRequests(s)
  BY <1>3, <1>9 DEF SendRequests
<1>10. CASE TimeOut(s)
  BY <1>2, <1>10 DEF TimeOut, Selecting
<1>11. CASE Leave(s)
  BY <1>3, <1>11 DEF Leave, End, Exit
<1>12. ASSUME NEW registered \in SUBSET requests[s], SendFails(s, registered)
       PROVE  NothingPicked'
  BY <1>3, <1>12 DEF SendFails, End, Exit
<1>. QED
  BY <1>1, <1>5, <1>6, <1>7, <1>8, <1>9, <1>10, <1>11, <1>12
  DEF SessionStep, HandleBitfield, HandleOtherFirst, HandleHave, HandleChoke, AdjustTarget,
      HandlePieceCompletion, pipelineVars

(* No step clears the flag of a picked piece: received_piece does not.     *)
LEMMA PendingGrows ==
  ASSUME TableInv, [Next]_vars
  PROVE  is_pending \subseteq is_pending'
<1>1. CASE UNCHANGED pickerVars
  BY <1>1 DEF pickerVars
<1>2. ASSUME NEW s \in Sessions, SessionStep(s), ~ UNCHANGED pickerVars
      PROVE  is_pending \subseteq is_pending'
  BY <1>2
  DEF SessionStep, HandleBitfield, HandleOtherFirst, HandleHave, HandleChoke, HandleUnchoke,
      HandleBlock, ContinueDownloads, StartDownload, SendRequests, SendFails, TimeOut,
      AdjustTarget, HandlePieceCompletion, Leave,
      Picker!RegisterPeerPieces, Picker!RegisterPeerPiece, Picker!PickPiece
<1>3. ASSUME DiskStep
      PROVE  UNCHANGED pickerVars
  BY <1>3 DEF DiskStep
<1>4. ASSUME NEW p \in Pieces, RegisterPiece(p)
      PROVE  is_pending \subseteq is_pending'
  <2>1. p \in is_pending
    BY <1>4 DEF RegisterPiece, TableInv, PickedPieces
  <2>. QED BY <1>4, <2>1 DEF RegisterPiece, Picker!ReceivedPiece
<1>5. ASSUME TorrentStep, \A p \in Pieces : ~ RegisterPiece(p)
      PROVE  UNCHANGED pickerVars
  BY <1>5 DEF TorrentStep, TakeValid, TakeInvalid, TakeError, RegisterPanics
<1>. QED BY <1>1, <1>2, <1>3, <1>4, <1>5 DEF Next, vars

(* Steps of the disk and of the torrent leave what the sessions hold.      *)
LEMMA OthersLeaveHeld ==
  ASSUME DiskStep \/ TorrentStep \/ UNCHANGED vars
  PROVE  UNCHANGED <<sessionVars, outgoing_requests, requests, pc>>
BY DEF DiskStep, TorrentStep, TakeValid, TakeInvalid, TakeError, RegisterPiece, RegisterPanics,
       sessionVars, pipelineVars, vars

(* What the sessions hold stays tied to picked pieces.                     *)
LEMMA HeldInvKept ==
  ASSUME IInv, HeldInv, [Next]_vars
  PROVE  HeldInv'
<1>. USE DEF IInv, HeldInv
<1>1. BlocksOfPicked \subseteq BlocksOfPicked'
  BY PendingGrows DEF BlocksOfPicked
<1>2. IInv'
  BY StepInv
<1>3. ASSUME NEW s \in Sessions, SessionStep(s)
      PROVE  HeldInv'
  <2>1. NothingPicked'
    BY <1>3, SessionKeepsNothingPicked
  <2>2. BlockMove(s)
    BY <1>3, SessionMoves
  <2>3. Held(s)' \subseteq BlocksOfPicked'
    <3>1. Held(s)' \subseteq Blocks
      BY <1>2 DEF Held, SessionInv
    <3>2. DOMAIN downloads' \subseteq is_pending'
      BY <1>2 DEF TableInv, PickedIsDownloading
    <3>. QED BY <1>1, <2>2, <3>1, <3>2 DEF BlockMove, HeldIsPicked, BlocksOfPicked
  <2>4. HeldIsPicked'
    BY <1>1, <2>2, <2>3 DEF BlockMove, HeldIsPicked
  <2>. QED BY <2>1, <2>4
<1>4. CASE DiskStep \/ TorrentStep \/ UNCHANGED vars
  <2>1. UNCHANGED <<outgoing_requests, requests, pc>>
    BY <1>4, OthersLeaveHeld
  <2>. QED BY <1>1, <2>1 DEF NothingPicked, HeldIsPicked, Held
<1>. QED BY <1>3, <1>4 DEF Next

(* Together with the invariant of Download.                                *)
BlockInv == IInv /\ HeldInv

(* Nobody holds a block at the start.                                      *)
LEMMA InitBlockInv ==
  ASSUME Init
  PROVE  BlockInv
BY InitInv DEF Init, BlockInv, HeldInv, NothingPicked, HeldIsPicked, Held

(* The sessions' holdings and the invariant of Download hold together.     *)
LEMMA BlockInvariant == Spec => []BlockInv
<1>1. Init => BlockInv
  BY InitBlockInv
<1>2. BlockInv /\ [Next]_vars => BlockInv'
  BY StepInv, HeldInvKept DEF BlockInv
<1>. QED BY <1>1, <1>2, PTL DEF Spec

(* The torrent task frees whole downloads or removes them; the disk and    *)
(* the rest of the torrent task leave the table alone.                     *)
LEMMA OthersMoves ==
  ASSUME TablesTyped, DiskStep \/ TorrentStep \/ UNCHANGED vars
  PROVE  /\ DOMAIN downloads' \subseteq DOMAIN downloads
         /\ \A p \in DOMAIN downloads' :
              \/ downloads'[p] = downloads[p]
              \/ /\ TakeInvalid(p)
                 /\ \A i \in Indices(p) : downloads'[p][i] = "Free"
<1>1. CASE UNCHANGED downloads
  BY <1>1
<1>2. ASSUME NEW q \in Pieces, TakeValid(q)
      PROVE  /\ DOMAIN downloads' \subseteq DOMAIN downloads
             /\ \A p \in DOMAIN downloads' : downloads'[p] = downloads[p]
  BY <1>2 DEF TakeValid
<1>3. ASSUME NEW q \in Pieces, TakeInvalid(q)
      PROVE  /\ DOMAIN downloads' = DOMAIN downloads
             /\ \A p \in DOMAIN downloads :
                  \/ downloads'[p] = downloads[p]
                  \/ p = q /\ \A i \in Indices(p) : downloads'[p][i] = "Free"
  BY <1>3 DEF TakeInvalid, Table!FreeAllBlocks, TablesTyped, Indices
<1>. QED
  BY <1>1, <1>2, <1>3 DEF DiskStep, TorrentStep, TakeError, RegisterPiece, RegisterPanics, vars

-----------------------------------------------------------------------------
(* A requested block is held.                                              *)

(* A step that gives up a requested block without freeing it is a failed   *)
(* send or an end that is cut short.                                       *)
LEMMA RequestedIsHeldKept ==
  ASSUME BlockInv, RequestedIsHeld, [Next]_vars
  PROVE  RequestedIsHeld'
<1>. USE DEF BlockInv, HeldInv
<1>1. TablesTyped /\ TablesTyped'
  BY StepInv DEF IInv, TableInv
<1>2. SUFFICES ASSUME ~ MayDrop', NEW p \in DOMAIN downloads', NEW i \in Indices(p),
                      downloads'[p][i] = "Requested"
               PROVE  \E s \in Sessions : <<p, i>> \in Held(s)'
  <2>1. \A p \in DOMAIN downloads' : DOMAIN downloads'[p] = Indices(p)
    BY <1>1 DEF TablesTyped, Indices
  <2>. QED BY <1>2, <2>1 DEF RequestedIsHeld, Held, MayDrop
<1>6. ~ MayDrop
  BY <1>2, KindsGrow DEF MayDrop, Without, IInv
<1>3. p \in DOMAIN downloads /\ downloads[p][i] = "Requested"
        => \E s \in Sessions : <<p, i>> \in Held(s)
  BY <1>1, <1>6 DEF RequestedIsHeld, Held, TablesTyped, Indices, MayDrop
<1>4. ASSUME NEW s \in Sessions, SessionStep(s)
      PROVE  \E t \in Sessions : <<p, i>> \in Held(t)'
  <2>1. BlockMove(s)
    BY <1>4, SessionMoves
  <2>2. IsPicked(s, p, i) \/ IsLeftAlone(s, p, i)
    BY <1>2, <2>1 DEF BlockMove, IsGivenBack, IsAnswered, IsNotPicked, IsDropped
  <2>. QED BY <1>2, <1>3, <2>1, <2>2 DEF BlockMove, IsPicked, IsLeftAlone
<1>5. CASE DiskStep \/ TorrentStep \/ UNCHANGED vars
  <2>1. UNCHANGED <<outgoing_requests, requests>>
    BY <1>5, OthersLeaveHeld
  <2>2. p \in DOMAIN downloads /\ downloads'[p] = downloads[p]
    BY <1>1, <1>2, <1>5, OthersMoves
  <2>. QED BY <1>2, <1>3, <2>1, <2>2 DEF Held
<1>. QED BY <1>4, <1>5 DEF Next

(* A requested block is held by a session, which will receive it, time it  *)
(* out or free it when it ends, whatever goes wrong, until a send fails    *)
(* inside make_requests or the end of a session is cut short.              *)
THEOREM BlockRequestedIsHeld == Spec => []RequestedIsHeld
<1>1. Init => RequestedIsHeld
  BY DEF Init, RequestedIsHeld
<1>2. BlockInv /\ RequestedIsHeld /\ [Next]_vars => RequestedIsHeld'
  BY RequestedIsHeldKept
<1>. QED BY <1>1, <1>2, BlockInvariant, PTL DEF Spec

-----------------------------------------------------------------------------
(* A received block is kept.                                               *)

(* Blocks in flight stay so, except on a report on their piece.            *)
LEMMA InFlightKept ==
  ASSUME BlockInv, [Next]_vars, Without("write_error")', NEW b \in Blocks, InFlight(b),
         ~ TakeValid(b[1]), ~ TakeInvalid(b[1])
  PROVE  InFlight(b)'
<1>. DEFINE Final == {Disk!Valid(b[1]), Disk!Invalid(b[1])}
<1>. USE DEF BlockInv, IInv
<1>1. CASE UNCHANGED diskVars
  BY <1>1 DEF InFlight, diskVars
<1>2. ASSUME NEW c \in Blocks, Disk!SendWriteBlock(c)
      PROVE  InFlight(b)'
  <2>1. /\ disk_queue' = Append(disk_queue, c)
        /\ UNCHANGED <<write_buf, write_jobs, completions>>
    BY <1>2 DEF Disk!SendWriteBlock
  <2>2. \A k \in DOMAIN disk_queue : k \in DOMAIN disk_queue' /\ disk_queue'[k] = disk_queue[k]
    BY <2>1 DEF DiskInv
  <2>. QED BY <2>1, <2>2 DEF InFlight
<1>3. CASE Disk!WriteBlock
  <2>. DEFINE h == Head(disk_queue)
  <2>1. disk_queue # <<>> /\ disk_queue' = Tail(disk_queue) /\ UNCHANGED completions
    BY <1>3 DEF Disk!WriteBlock, Disk!write_block
  <2>2. h \in Blocks /\ h[1] \in Pieces
    BY <2>1, SeqTail, BlockParts DEF DiskInv, BlocksOfPicked
  <2>3. \A k \in DOMAIN disk_queue :
          disk_queue[k] = h \/ \E j \in DOMAIN disk_queue' : disk_queue'[j] = disk_queue[k]
    <3>1. ASSUME NEW k \in DOMAIN disk_queue, k # 1
          PROVE  k - 1 \in DOMAIN Tail(disk_queue) /\ Tail(disk_queue)[k - 1] = disk_queue[k]
      BY <2>1, <3>1 DEF DiskInv
    <3>2. disk_queue[1] = h
      BY <2>1 DEF DiskInv
    <3>. QED BY <2>1, <3>1, <3>2
  <2>4. \A c \in write_buf \cup {h} : c \in write_buf' \/ write_jobs'[c[1]] > 0
    <3>1. CASE write_buf' = write_buf \cup {h}
      BY <3>1
    <3>2. CASE /\ write_buf' = (write_buf \cup {h}) \ BlocksOf(h[1])
               /\ write_jobs' = [write_jobs EXCEPT ![h[1]] = @ + 1]
      <4>1. write_jobs'[h[1]] > 0
        BY <2>2, <3>2 DEF DiskInv
      <4>2. \A c \in BlocksOf(h[1]) : c[1] = h[1]
        BY <2>2, BlockParts
      <4>. QED BY <3>2, <4>1, <4>2
    <3>. QED BY <1>3, <3>1, <3>2, SameNames DEF Disk!WriteBlock, Disk!write_block
  <2>5. \A q \in Pieces : write_jobs[q] > 0 => write_jobs'[q] > 0
    BY <1>3, <2>2 DEF Disk!WriteBlock, Disk!write_block, DiskInv
  <2>6. b[1] \in Pieces
    BY BlockParts
  <2>. QED BY <2>1, <2>3, <2>4, <2>5, <2>6 DEF InFlight
<1>4. ASSUME NEW p \in Pieces, NEW report,
             p = b[1] => report \in Final, Disk!Finish(p, report)
      PROVE  InFlight(b)'
  <2>1. /\ write_jobs' = [write_jobs EXCEPT ![p] = @ - 1]
        /\ completions' = Append(completions, report)
        /\ UNCHANGED <<disk_queue, write_buf>>
    BY <1>4 DEF Disk!Finish
  <2>2. /\ \A k \in DOMAIN completions : k \in DOMAIN completions' /\ completions'[k] = completions[k]
        /\ Len(completions') \in DOMAIN completions' /\ completions'[Len(completions')] = report
    BY <2>1 DEF DiskInv
  <2>3. p # b[1] => write_jobs'[b[1]] = write_jobs[b[1]]
    BY <2>1 DEF DiskInv
  <2>4. CASE p = b[1]
    BY <1>4, <2>2, <2>4 DEF InFlight
  <2>5. CASE p # b[1]
    BY <2>1, <2>2, <2>3, <2>5 DEF InFlight
  <2>. QED BY <2>4, <2>5
<1>5. ASSUME Disk!TakeCompletion, Head(completions) \notin Final
      PROVE  InFlight(b)'
  <2>1. /\ completions # <<>> /\ completions' = Tail(completions)
        /\ UNCHANGED <<disk_queue, write_buf, write_jobs>>
    BY <1>5 DEF Disk!TakeCompletion
  <2>2. ASSUME NEW k \in DOMAIN completions, completions[k] \in Final
        PROVE  k - 1 \in DOMAIN completions' /\ completions'[k - 1] = completions[k]
    <3>1. completions[1] = Head(completions)
      BY <2>1 DEF DiskInv
    <3>2. k # 1
      BY <1>5, <2>2, <3>1
    <3>. QED BY <2>1, <3>2 DEF DiskInv
  <2>. QED BY <2>1, <2>2 DEF InFlight
<1>6. ASSUME NEW s \in Sessions, SessionStep(s)
      PROVE  UNCHANGED diskVars \/ \E c \in Blocks : Disk!SendWriteBlock(c)
  BY <1>6
  DEF SessionStep, HandleBitfield, HandleOtherFirst, HandleHave, HandleChoke, HandleUnchoke,
      HandleBlock, ContinueDownloads, StartDownload, SendRequests, SendFails, TimeOut,
      AdjustTarget, HandlePieceCompletion, Leave
<1>7. CASE DiskStep
  <2>1. ASSUME NEW p \in Pieces, Disk!FinishValid(p) \/ Disk!FinishInvalid(p)
        PROVE  InFlight(b)'
    BY <1>4, <2>1 DEF Disk!FinishValid, Disk!FinishInvalid
  <2>2. ~ Fault("write_error")
    BY FaultTyped DEF Without, SessionInv
  <2>. QED BY <1>3, <1>7, <2>1, <2>2 DEF DiskStep
<1>8. CASE TorrentStep
  <2>1. ASSUME NEW p \in Pieces, TakeValid(p) \/ TakeInvalid(p)
        PROVE  Disk!TakeCompletion /\ Head(completions) \notin Final
    <3>1. p # b[1]
      BY <2>1
    <3>. QED BY <2>1, <3>1 DEF TakeValid, TakeInvalid, Disk!Valid, Disk!Invalid
  <2>2. TakeError => Disk!TakeCompletion /\ Head(completions) \notin Final
    BY DEF TakeError, Disk!Valid, Disk!Invalid, Disk!WriteError
  <2>3. ASSUME NEW p \in Pieces, RegisterPiece(p) \/ RegisterPanics(p)
        PROVE  UNCHANGED diskVars
    BY <2>3 DEF RegisterPiece, RegisterPanics
  <2>. QED BY <1>1, <1>5, <1>8, <2>1, <2>2, <2>3 DEF TorrentStep
<1>. QED BY <1>1, <1>2, <1>6, <1>7, <1>8 DEF Next, vars

(* A received block leaves the way to the files only with its report.      *)
LEMMA ReceivedIsKeptKept ==
  ASSUME BlockInv, ReceivedIsKept, [Next]_vars
  PROVE  ReceivedIsKept'
<1>. USE DEF BlockInv, HeldInv
<1>1. TablesTyped /\ TablesTyped'
  BY StepInv DEF IInv, TableInv
<1>2. SUFFICES ASSUME Without("write_error")', NEW p \in DOMAIN downloads', NEW i \in Indices(p),
                      downloads'[p][i] = "Received"
               PROVE  InFlight(<<p, i>>)'
  <2>1. \A p \in DOMAIN downloads' : DOMAIN downloads'[p] = Indices(p)
    BY <1>1 DEF TablesTyped, Indices
  <2>. QED BY <1>2, <2>1 DEF ReceivedIsKept
<1>3. p \in Pieces /\ <<p, i>> \in Blocks
  BY <1>1 DEF TablesTyped, Blocks, BlocksOf, Indices
<1>10. Without("write_error")
  BY <1>2, KindsGrow DEF Without, IInv
<1>4. p \in DOMAIN downloads /\ downloads[p][i] = "Received" => InFlight(<<p, i>>)
  BY <1>1, <1>10 DEF ReceivedIsKept, TablesTyped, Indices
<1>5. ~ TakeValid(p)
  BY <1>2 DEF TakeValid
<1>6. ~ TakeInvalid(p)
  BY <1>1, <1>2 DEF TakeInvalid, Table!FreeAllBlocks, TablesTyped, Indices
<1>7. CASE p \in DOMAIN downloads /\ downloads[p][i] = "Received"
  BY <1>2, <1>3, <1>4, <1>5, <1>6, <1>7, InFlightKept
<1>8. ASSUME NEW s \in Sessions, SessionStep(s),
             ~ (p \in DOMAIN downloads /\ downloads[p][i] = "Received")
      PROVE  InFlight(<<p, i>>)'
  <2>1. BlockMove(s)
    BY <1>8, SessionMoves
  <2>2. disk_queue' = Append(disk_queue, <<p, i>>)
    BY <1>2, <1>8, <2>1
    DEF BlockMove, IsPicked, IsGivenBack, IsAnswered, IsLeftAlone, IsNotPicked, IsDropped
  <2>3. Len(disk_queue') \in DOMAIN disk_queue' /\ disk_queue'[Len(disk_queue')] = <<p, i>>
    BY <2>2 DEF IInv, DiskInv
  <2>. QED BY <2>3 DEF InFlight
<1>9. CASE DiskStep \/ TorrentStep \/ UNCHANGED vars
  <2>1. p \in DOMAIN downloads /\ downloads'[p] = downloads[p]
    BY <1>1, <1>2, <1>9, OthersMoves
  <2>. QED BY <1>2, <1>7, <2>1
<1>. QED BY <1>7, <1>8, <1>9 DEF Next

(* A received block, which nobody requests again, is queued for the disk,  *)
(* buffered, being written or reported on, whatever else goes wrong, until *)
(* a write fails.                                                          *)
THEOREM BlockReceivedIsKept == Spec => []ReceivedIsKept
<1>1. Init => ReceivedIsKept
  BY DEF Init, ReceivedIsKept
<1>2. BlockInv /\ ReceivedIsKept /\ [Next]_vars => ReceivedIsKept'
  BY ReceivedIsKeptKept
<1>. QED BY <1>1, <1>2, BlockInvariant, PTL DEF Spec

-----------------------------------------------------------------------------
(* Outside endgame a block is held by one session.                         *)

\* What makes it inductive: a held block is not free, so nobody else can
\* pick it, and no report of a corrupt piece frees it under its holder.
HeldNotFree ==
  \A s \in Sessions : \A p \in DOMAIN downloads : \A i \in Indices(p) :
    <<p, i>> \in Held(s) => downloads[p][i] # "Free"

ExclusiveInv ==
  ~ in_endgame /\ Without("corrupt") => ExclusiveOutsideEndgame /\ HeldNotFree

SoundReports == {Disk!Valid(p) : p \in Pieces} \cup {Disk!WriteError}
NoCorruption == Without("corrupt") => completions \in Seq(SoundReports)

(* Without corrupt pieces no thread reports one.                           *)
LEMMA NoCorruptionKept ==
  ASSUME IInv, NoCorruption, [Next]_vars, Without("corrupt")'
  PROVE  completions' \in Seq(SoundReports)
<1>0. completions \in Seq(SoundReports)
  BY KindsGrow DEF NoCorruption, Without, IInv
<1>1. CASE UNCHANGED completions
  BY <1>0, <1>1
<1>2. CASE Disk!TakeCompletion
  BY <1>0, <1>2, SeqTail DEF Disk!TakeCompletion
<1>3. ASSUME NEW p \in Pieces, Disk!FinishValid(p) \/ Disk!FinishError(p)
      PROVE  completions' \in Seq(SoundReports)
  <2>1. Disk!Valid(p) \in SoundReports /\ Disk!WriteError \in SoundReports
    BY DEF SoundReports
  <2>. QED BY <1>0, <1>3, <2>1, SeqAppend DEF Disk!FinishValid, Disk!FinishError, Disk!Finish
<1>4. ASSUME NEW s \in Sessions, SessionStep(s)
      PROVE  UNCHANGED completions
  BY <1>4
  DEF SessionStep, HandleBitfield, HandleOtherFirst, HandleHave, HandleChoke, HandleUnchoke,
      HandleBlock, ContinueDownloads, StartDownload, SendRequests, SendFails, TimeOut,
      AdjustTarget, HandlePieceCompletion, Leave, diskVars, Disk!SendWriteBlock
<1>5. CASE DiskStep
  <2>1. ~ Fault("corrupt")
    BY FaultTyped DEF Without, IInv, SessionInv
  <2>. QED BY <1>1, <1>3, <1>5, <2>1 DEF DiskStep, Disk!WriteBlock, Disk!write_block
<1>6. CASE TorrentStep
  BY <1>1, <1>2, <1>6
  DEF TorrentStep, TakeValid, TakeInvalid, TakeError, RegisterPiece, RegisterPanics, diskVars
<1>. QED BY <1>1, <1>4, <1>5, <1>6 DEF Next, vars, diskVars

(* A download that a session's step adds is one of a piece not picked yet. *)
LEMMA NewDownloadOfFree ==
  ASSUME NEW s \in Sessions, SessionStep(s), NEW p \in DOMAIN downloads' \ DOMAIN downloads
  PROVE  p \notin is_pending
<1>1. ASSUME NEW q \in Pieces, StartDownload(s, q)
      PROVE  DOMAIN downloads' = DOMAIN downloads \cup {q} /\ q \notin is_pending
  BY <1>1 DEF StartDownload, Picker!PickPiece, Picker!IsFirstPickable, Picker!Pickable
<1>2. DOMAIN downloads' = DOMAIN downloads \/ \E q \in Pieces : StartDownload(s, q)
  BY DEF SessionStep, HandleBitfield, HandleOtherFirst, HandleHave, HandleChoke, HandleUnchoke,
         HandleBlock, ContinueDownloads, SendRequests, SendFails, TimeOut, AdjustTarget,
         HandlePieceCompletion, Leave, End, Exit, Freed
<1>. QED BY <1>1, <1>2

(* Only a free block is picked, and a block that is held is not free.      *)
LEMMA ExclusiveKept ==
  ASSUME BlockInv, NoCorruption, ExclusiveInv, [Next]_vars
  PROVE  ExclusiveInv'
<1>. USE DEF BlockInv, HeldInv
<1>1. IInv'
  BY StepInv
<1>2. in_endgame => in_endgame'
  <2>1. ASSUME NEW s \in Sessions, SessionStep(s)
        PROVE  in_endgame' = in_endgame
    BY <2>1
    DEF SessionStep, HandleBitfield, HandleOtherFirst, HandleHave, HandleChoke, HandleUnchoke,
        HandleBlock, ContinueDownloads, StartDownload, SendRequests, SendFails, TimeOut,
        AdjustTarget, HandlePieceCompletion, Leave, torrentVars
  <2>2. DiskStep => in_endgame' = in_endgame
    BY DEF DiskStep, torrentVars
  <2>3. TorrentStep => (in_endgame => in_endgame')
    BY DEF TorrentStep, TakeValid, TakeInvalid, TakeError, RegisterPiece, RegisterPanics, torrentVars
  <2>. QED BY <2>1, <2>2, <2>3 DEF Next, vars, torrentVars
<1>7. Without("corrupt")' => Without("corrupt")
  BY KindsGrow DEF Without, IInv
<1>3. SUFFICES ASSUME ~ in_endgame, Without("corrupt"), ExclusiveOutsideEndgame, HeldNotFree
               PROVE  /\ HeldNotFree'
                      /\ \A s, t \in Sessions : s # t => Held(s)' \cap Held(t)' = {}
  BY <1>2, <1>7 DEF ExclusiveInv, ExclusiveOutsideEndgame, Held
<1>4. \A s, t \in Sessions : s # t => Held(s) \cap Held(t) = {}
  BY <1>3 DEF ExclusiveOutsideEndgame, Held
<1>5. ASSUME NEW s \in Sessions, SessionStep(s)
      PROVE  /\ HeldNotFree'
             /\ \A t, u \in Sessions : t # u => Held(t)' \cap Held(u)' = {}
  <2>1. BlockMove(s)
    BY <1>5, SessionMoves
  <2>2. ~ session_endgame[s]
    BY <1>3 DEF IInv, EndgameInv, EndgameSound
  <2>3. ASSUME NEW p \in DOMAIN downloads', NEW i \in Indices(p), IsPicked(s, p, i)
        PROVE  \A t \in Sessions : t # s => <<p, i>> \notin Held(t)
    <3>1. CASE p \in DOMAIN downloads
      <4>1. downloads[p][i] = "Free"
        BY <2>2, <2>3, <3>1 DEF IsPicked, EligibleIn, Table!Eligible
      <4>. QED BY <1>3, <3>1, <4>1 DEF HeldNotFree
    <3>2. CASE p \notin DOMAIN downloads
      BY <1>5, <2>3, <3>2, NewDownloadOfFree DEF HeldIsPicked, BlocksOfPicked
    <3>. QED BY <3>1, <3>2
  <2>4. ASSUME NEW b \in Held(s)', b \notin Held(s)
        PROVE  \A t \in Sessions : t # s => b \notin Held(t)
    <3>1. b[1] \in DOMAIN downloads' /\ b \in Blocks
      BY <1>1, <2>1, <2>4 DEF BlockMove, Held, IInv, SessionInv
    <3>2. b[2] \in Indices(b[1]) /\ b = <<b[1], b[2]>>
      BY <3>1 DEF Blocks, BlocksOf, Indices
    <3>3. IsPicked(s, b[1], b[2])
      BY <2>1, <2>4, <3>1, <3>2
      DEF BlockMove, IsGivenBack, IsAnswered, IsLeftAlone, IsNotPicked, IsDropped
    <3>. QED BY <2>3, <3>1, <3>2, <3>3
  <2>5. \A t, u \in Sessions : t # u => Held(t)' \cap Held(u)' = {}
    BY <1>4, <2>1, <2>4 DEF BlockMove
  <2>6. ASSUME NEW t \in Sessions, NEW p \in DOMAIN downloads', NEW i \in Indices(p),
               <<p, i>> \in Held(t)', downloads'[p][i] = "Free"
        PROVE  FALSE
    <3>1. IsGivenBack(s, p, i) \/ IsLeftAlone(s, p, i) \/ IsNotPicked(s, p, i) \/ IsDropped(s, p, i)
      BY <2>1, <2>6 DEF BlockMove, IsPicked, IsAnswered
    <3>2. CASE t = s
      BY <1>3, <2>6, <3>1, <3>2
      DEF IsGivenBack, IsLeftAlone, IsNotPicked, IsDropped, HeldNotFree
    <3>3. CASE t # s
      <4>1. <<p, i>> \in Held(t)
        BY <2>1, <2>6, <3>3 DEF BlockMove
      <4>2. ~ IsGivenBack(s, p, i)
        BY <1>4, <3>3, <4>1 DEF IsGivenBack
      <4>3. CASE p \in DOMAIN downloads
        BY <1>3, <2>6, <3>1, <4>1, <4>2, <4>3 DEF IsLeftAlone, IsNotPicked, IsDropped, HeldNotFree
      <4>4. CASE p \notin DOMAIN downloads
        BY <1>5, <4>1, <4>4, NewDownloadOfFree DEF HeldIsPicked, BlocksOfPicked
      <4>. QED BY <4>3, <4>4
    <3>. QED BY <3>2, <3>3
  <2>. QED BY <2>5, <2>6 DEF HeldNotFree
<1>6. CASE DiskStep \/ TorrentStep \/ UNCHANGED vars
  <2>1. UNCHANGED <<outgoing_requests, requests>>
    BY <1>6, OthersLeaveHeld
  <2>2. \A p \in Pieces : ~ TakeInvalid(p)
    <3>1. SUFFICES ASSUME NEW p \in Pieces, TakeInvalid(p)
                   PROVE  FALSE
      OBVIOUS
    <3>2. Head(completions) \in SoundReports
      BY <1>3, <3>1, SeqTail DEF TakeInvalid, Disk!TakeCompletion, NoCorruption
    <3>. QED
      BY <3>1, <3>2 DEF TakeInvalid, SoundReports, Disk!Valid, Disk!Invalid, Disk!WriteError
  <2>3. /\ DOMAIN downloads' \subseteq DOMAIN downloads /\ DOMAIN downloads \subseteq Pieces
        /\ \A p \in DOMAIN downloads' : downloads'[p] = downloads[p]
    BY <1>6, <2>2, OthersMoves DEF IInv, TableInv, TablesTyped
  <2>. QED BY <1>3, <1>4, <2>1, <2>3 DEF HeldNotFree, Held
<1>. QED BY <1>5, <1>6 DEF Next

(* Outside endgame no block is requested of two peers at a time, whatever  *)
(* else goes wrong, until a corrupt piece has its blocks freed while       *)
(* others may still request them: a session picks a block only if it is    *)
(* free, and a block that is held never is.                                *)
THEOREM BlockExclusive == Spec => []ExclusiveOutsideEndgame
<1>1. Init => NoCorruption /\ ExclusiveInv
  <2>1. <<>> \in Seq(SoundReports)
    OBVIOUS
  <2>. QED
    BY <2>1 DEF Init, Disk!DiskInit, NoCorruption, ExclusiveInv, ExclusiveOutsideEndgame,
       HeldNotFree, Held
<1>2. BlockInv /\ NoCorruption /\ ExclusiveInv /\ [Next]_vars => (NoCorruption /\ ExclusiveInv)'
  BY NoCorruptionKept, ExclusiveKept DEF BlockInv, NoCorruption
<1>3. ExclusiveInv => ExclusiveOutsideEndgame
  BY DEF ExclusiveInv, ExclusiveOutsideEndgame
<1>. QED BY <1>1, <1>2, <1>3, BlockInvariant, PTL DEF Spec
=============================================================================
