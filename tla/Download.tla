------------------------------ MODULE Download -------------------------------
(***************************************************************************)
(* The download of one torrent: peer sessions (peer.rs) that share the     *)
(* piece picker and the table of piece downloads with each other and with  *)
(* the torrent task (torrent.rs), and the disk task they send blocks to.   *)
(*                                                                         *)
(* A step is what runs between two points where a task can be preempted    *)
(* with an effect on the others: make_requests is cut where it drops the   *)
(* locks on the shared state, handle_piece_completion between removing the *)
(* download and telling the picker.  A release build is modelled.          *)
(***************************************************************************)
EXTENDS Integers, FiniteSets, Sequences

CONSTANTS
  PieceCount,     \* number of pieces in the torrent
  BlocksIn,       \* BlocksIn[p]: number of blocks in piece p
  Sessions,       \* the peer sessions the torrent ever starts
  Bitfields,      \* the piece sets a peer may announce first ({}: none sent)
  StartLen,       \* START_REQUEST_QUEUE_LEN
  MaxLen,         \* bound: largest target request queue length
  FaultKinds,     \* what may go wrong in this instance
  MaxFaults       \* bound: how many times something goes wrong

AllFaultKinds ==
  {"choke", "timeout", "leave", "cut_short", "send_failure", "corrupt", "write_error"}

ASSUME DownloadAssumption ==
  /\ PieceCount \in Nat \ {0}
  /\ BlocksIn \in [0 .. PieceCount - 1 -> Nat \ {0}]
  /\ IsFiniteSet(Sessions)
  /\ Bitfields \subseteq SUBSET (0 .. PieceCount - 1)
  /\ StartLen \in Nat \ {0} /\ MaxLen \in Nat /\ StartLen <= MaxLen
  /\ FaultKinds \subseteq AllFaultKinds
  /\ MaxFaults \in Nat

VARIABLES
  \* shared: the piece picker, behind its lock
  own_pieces, frequency, is_pending, missing_count, free_count,
  \* shared: the piece downloads, behind theirs
  downloads,          \* downloads[p]: block table of an ongoing piece download
  \* the disk task and its channels
  disk_queue, write_buf, write_jobs, written, completions,
  \* the torrent task
  registering,        \* piece whose completion is half handled, or {}
  panicked,           \* received_piece's assertion has killed the task
  in_endgame,         \* Torrent::in_endgame
  \* each peer session
  connection,         \* SessionState::connection
  is_choked,          \* SessionState::is_choked: peer chokes us
  is_interested,      \* SessionState::is_interested: we want peer's pieces
  peer_pieces,        \* PeerInfo::pieces
  session_endgame,    \* SessionContext::in_endgame
  target_len,         \* target_request_queue_len, 0 for None
  outgoing_requests,  \* requests sent and not answered, freed or forgotten
  requests,           \* blocks picked by make_requests and not sent yet
  pc,                 \* where the session is: select loop or make_requests
  cmds,               \* PieceCompletion commands sent to the session
  \* the peer
  wire,               \* wire[s][b]: requests for b the peer may still answer
  \* the environment
  faults              \* what went wrong so far, and how many times

pickerVars == <<own_pieces, frequency, is_pending, missing_count, free_count>>
diskVars == <<disk_queue, write_buf, write_jobs, written, completions>>
torrentVars == <<registering, panicked, in_endgame>>
protocolVars == <<connection, is_choked, is_interested, peer_pieces>>
pipelineVars == <<outgoing_requests, requests, pc, wire>>
vars == <<pickerVars, downloads, diskVars, torrentVars, protocolVars,
          session_endgame, target_len, pipelineVars, cmds, faults>>

Picker == INSTANCE PiecePicker WITH MaxSessions <- Cardinality(Sessions)
Table == INSTANCE PieceDownload
Disk == INSTANCE DiskWriter

Pieces == 0 .. PieceCount - 1
BlocksOf(p) == {<<p, i>> : i \in 0 .. BlocksIn[p] - 1}
Blocks == UNION {BlocksOf(p) : p \in Pieces}

\* The indices, in piece p, of the blocks of a set.
IndicesIn(p, S) == {i \in 0 .. BlocksIn[p] - 1 : <<p, i>> \in S}

Fault(kind) ==
  /\ kind \in FaultKinds
  /\ faults.count < MaxFaults
  /\ faults' = [count |-> faults.count + 1, kinds |-> faults.kinds \cup {kind}]

\* Whether nothing of the kind has gone wrong.
Without(kind) == kind \notin faults.kinds

-----------------------------------------------------------------------------
(* Session: helpers.                                                       *)

\* The session waits in its select loop.
Selecting(s) == connection[s] # "Disconnected" /\ pc[s] = "select"

Connected(s) == connection[s] = "Connected" /\ pc[s] = "select"

\* make_requests goes on only if peer does not choke us and interests us.
MayRequest(choked, interested) == ~ choked /\ interested
MakeRequestsPc(choked, interested) ==
  IF MayRequest(choked, interested) THEN "continue" ELSE "select"

\* Mutants of Quota: blocks picked but not sent are forgotten, and the queue
\* is held one below its target.
Quota_IgnoresPicked(s) == target_len[s] - Cardinality(outgoing_requests[s])
Quota_OneLess(s) ==
  target_len[s] - 1 - Cardinality(outgoing_requests[s]) - Cardinality(requests[s])

\* Room left in the request queue, counting what is picked but not sent.
Quota(s) == target_len[s] - Cardinality(outgoing_requests[s]) - Cardinality(requests[s])

\* Mutant of Freed: requests are forgotten without freeing their blocks.
Freed_Nothing(blocks) == downloads

\* A table of downloads in which the blocks of a set are free again.
Freed(blocks) ==
  [p \in DOMAIN downloads |-> Table!FreeBlocks(downloads[p], IndicesIn(p, blocks))]

\* After the first message: disconnect if neither side has any piece.
Settle(s, pieces) ==
  connection' = [connection EXCEPT ![s] =
    IF @ = "AvailabilityExchange" /\ own_pieces = {} /\ pieces = {}
      THEN "Disconnected" ELSE "Connected"]

\* The session ends: what is given of its requests is freed, and nobody
\* answers them.
Exit(s, blocks) ==
  /\ downloads' = Freed(blocks)
  /\ connection' = [connection EXCEPT ![s] = "Disconnected"]
  /\ outgoing_requests' = [outgoing_requests EXCEPT ![s] = {}]
  /\ requests' = [requests EXCEPT ![s] = {}]
  /\ pc' = [pc EXCEPT ![s] = "select"]
  /\ wire' = [wire EXCEPT ![s] = [b \in Blocks |-> 0]]
  /\ cmds' = [cmds EXCEPT ![s] = <<>>]

\* start, after run: an end is cut short, and frees nothing, by an error with
\* nobody there to receive the alert, or the report that comes before it.
End(s, kind, blocks) ==
  \/ Fault(kind) /\ Exit(s, blocks)
  \/ Fault("cut_short") /\ Exit(s, {})

-----------------------------------------------------------------------------
(* Session: messages from the peer.                                        *)

HandleBitfield(s, pieces) ==
  /\ Selecting(s) /\ connection[s] = "AvailabilityExchange"
  /\ Picker!RegisterPeerPieces(pieces)
  /\ peer_pieces' = [peer_pieces EXCEPT ![s] = pieces]
  /\ is_interested' = [is_interested EXCEPT ![s] = Picker!InterestInPieces(pieces)]
  /\ Settle(s, pieces)
  /\ UNCHANGED <<downloads, diskVars, torrentVars, is_choked, session_endgame,
                 target_len, pipelineVars, cmds, faults>>

\* A peer with no piece skips the bitfield and starts with another message.
MaySendFirst(s) == connection[s] = "AvailabilityExchange" => {} \in Bitfields

\* KeepAlive, Interested, NotInterested and the like, as first message.
HandleOtherFirst(s) ==
  /\ Selecting(s) /\ connection[s] = "AvailabilityExchange" /\ MaySendFirst(s)
  /\ Settle(s, peer_pieces[s])
  /\ UNCHANGED <<pickerVars, downloads, diskVars, torrentVars, is_choked, is_interested,
                 peer_pieces, session_endgame, target_len, pipelineVars, cmds, faults>>

\* handle_have_msg for a piece the peer has not announced yet; the result
\* of register_peer_piece becomes our interest.
HandleHave(s, p) ==
  /\ Selecting(s) /\ MaySendFirst(s)
  /\ p \notin peer_pieces[s]
  /\ Picker!RegisterPeerPiece(p)
  /\ peer_pieces' = [peer_pieces EXCEPT ![s] = @ \cup {p}]
  /\ is_interested' = [is_interested EXCEPT ![s] = Picker!InterestInPiece(p)]
  /\ Settle(s, peer_pieces[s] \cup {p})
  /\ UNCHANGED <<downloads, diskVars, torrentVars, is_choked, session_endgame,
                 target_len, pipelineVars, cmds, faults>>

\* The peer drops the requests it has not answered (no Fast extension).
HandleChoke(s) ==
  /\ Connected(s) /\ ~ is_choked[s]
  /\ Fault("choke")
  /\ downloads' = Freed(outgoing_requests[s])
  /\ outgoing_requests' = [outgoing_requests EXCEPT ![s] = {}]
  /\ is_choked' = [is_choked EXCEPT ![s] = TRUE]
  /\ wire' = [wire EXCEPT ![s] = [b \in Blocks |-> 0]]
  /\ UNCHANGED <<pickerVars, diskVars, torrentVars, connection, is_interested, peer_pieces,
                 session_endgame, target_len, requests, pc, cmds>>

HandleUnchoke(s) ==
  /\ Selecting(s) /\ MaySendFirst(s) /\ is_choked[s]
  /\ is_choked' = [is_choked EXCEPT ![s] = FALSE]
  /\ target_len' = [target_len EXCEPT ![s] = IF is_interested[s] THEN StartLen ELSE @]
  /\ pc' = [pc EXCEPT ![s] = MakeRequestsPc(FALSE, is_interested[s])]
  /\ Settle(s, peer_pieces[s])
  /\ UNCHANGED <<pickerVars, downloads, diskVars, torrentVars, is_interested, peer_pieces,
                 session_endgame, outgoing_requests, requests, wire, cmds, faults>>

\* update_download_stats: one more in slow start, the same after it.
GrownTarget(s, len) == len \in {target_len[s], target_len[s] + 1} /\ len <= MaxLen

\* Mutant of IsNew: a late block, free by now, is marked but not saved.
IsNew_OnlyRequested(b) == b[1] \in DOMAIN downloads /\ downloads[b[1]][b[2]] = "Requested"

\* The block's piece is being downloaded and the block not received yet.
IsNew(b) == b[1] \in DOMAIN downloads /\ downloads[b[1]][b[2]] # "Received"

\* handle_block_msg and the call of make_requests after it.  The block may
\* be late: freed since, requested by others, received, or its piece gone.
HandleBlock(s, b) ==
  /\ Connected(s) /\ wire[s][b] > 0 /\ b[1] \in peer_pieces[s]
  /\ wire' = [wire EXCEPT ![s][b] = @ - 1]
  /\ outgoing_requests' = [outgoing_requests EXCEPT ![s] = @ \ {b}]
  /\ pc' = [pc EXCEPT ![s] = MakeRequestsPc(is_choked[s], is_interested[s])]
  /\ IF b[1] \in DOMAIN downloads
       THEN downloads' = [downloads EXCEPT ![b[1]] = Table!ReceivedBlock(@, b[2])]
       ELSE UNCHANGED downloads
  /\ IF IsNew(b)
       THEN /\ Disk!SendWriteBlock(b)
            /\ \E len \in 1 .. MaxLen :
                 GrownTarget(s, len) /\ target_len' = [target_len EXCEPT ![s] = len]
       ELSE UNCHANGED <<diskVars, target_len>>
  /\ UNCHANGED <<pickerVars, torrentVars, protocolVars, session_endgame, requests, cmds, faults>>

-----------------------------------------------------------------------------
(* Session: make_requests.                                                 *)

\* Mutant of EligibleIn: every session picks as if in endgame.
EligibleIn_AlwaysEndgame(s, p) ==
  Table!Eligible(downloads[p], TRUE, IndicesIn(p, outgoing_requests[s]))

EligibleIn(s, p) ==
  Table!Eligible(downloads[p], session_endgame[s], IndicesIn(p, outgoing_requests[s]))

\* What the loop over the downloads, in whatever order the hash map gives
\* them, may pick: as much as the quota allows, the first blocks of each
\* piece, and of at most one piece only a part.
ContinuedPicks(s) ==
  LET eligible == UNION {{<<p, i>> : i \in EligibleIn(s, p)} : p \in DOMAIN downloads}
      whole(p, S) == IndicesIn(p, S) = EligibleIn(s, p)
      target == IF Quota(s) < Cardinality(eligible) THEN Quota(s) ELSE Cardinality(eligible)
  IN {S \in SUBSET eligible :
        /\ Cardinality(S) = target
        /\ \A p \in DOMAIN downloads :
             IndicesIn(p, S) = Table!FirstOf(EligibleIn(s, p), Cardinality(IndicesIn(p, S)))
        /\ \A p, q \in DOMAIN downloads :
             p # q /\ ~ whole(p, S) /\ ~ whole(q, S) => {} \in {IndicesIn(p, S), IndicesIn(q, S)}}

ContinueDownloads(s) ==
  /\ pc[s] = "continue"
  /\ pc' = [pc EXCEPT ![s] = "start"]
  /\ IF Quota(s) > 0
       THEN \E S \in ContinuedPicks(s) :
              /\ requests' = [requests EXCEPT ![s] = S]
              /\ downloads' = [p \in DOMAIN downloads |->
                                 Table!MarkRequested(downloads[p], IndicesIn(p, S))]
       ELSE UNCHANGED <<requests, downloads>>
  /\ UNCHANGED <<pickerVars, diskVars, torrentVars, protocolVars, session_endgame,
                 target_len, outgoing_requests, wire, cmds, faults>>

\* One round of the second loop; the picker's lock is held until the new
\* download is in the shared table.
StartDownload(s, p) ==
  LET new == Table!NewBlocks(BlocksIn[p])
      picked == Table!PickedBlocks(new, Quota(s), session_endgame[s], {})
  IN /\ pc[s] = "start" /\ Quota(s) > 0
     /\ Picker!PickPiece(p)
     /\ downloads' = [q \in DOMAIN downloads \cup {p} |->
                        IF q = p THEN Table!MarkRequested(new, picked) ELSE downloads[q]]
     /\ requests' = [requests EXCEPT ![s] = @ \cup {<<p, i>> : i \in picked}]
     /\ UNCHANGED <<diskVars, torrentVars, protocolVars, session_endgame, target_len,
                    outgoing_requests, pc, wire, cmds, faults>>

\* The queue is full, or no piece can be picked.
PickingDone(s) == pc[s] = "start" /\ (Quota(s) <= 0 \/ Picker!Pickable = {})

SendRequests(s) ==
  /\ PickingDone(s)
  /\ outgoing_requests' = [outgoing_requests EXCEPT ![s] = @ \cup requests[s]]
  /\ wire' = [wire EXCEPT ![s] = [b \in Blocks |-> IF b \in requests[s] THEN @[b] + 1 ELSE @[b]]]
  /\ requests' = [requests EXCEPT ![s] = {}]
  /\ pc' = [pc EXCEPT ![s] = "select"]
  /\ UNCHANGED <<pickerVars, downloads, diskVars, torrentVars, protocolVars, session_endgame,
                 target_len, cmds, faults>>

\* A send fails: the requests up to and including it were registered, and
\* are freed as the session ends; the rest are dropped.
SendFails(s, registered) ==
  /\ PickingDone(s)
  /\ registered # {}
  /\ End(s, "send_failure", outgoing_requests[s] \cup registered)
  /\ UNCHANGED <<pickerVars, diskVars, torrentVars, is_choked, is_interested, peer_pieces,
                 session_endgame, target_len>>

-----------------------------------------------------------------------------
(* Session: timer, commands, end.                                          *)

\* check_request_timeout: free everything, re-issue a single request.  The
\* peer is not told, and may still answer.
TimeOut(s) ==
  /\ Selecting(s) /\ outgoing_requests[s] # {}
  /\ Fault("timeout")
  /\ downloads' = Freed(outgoing_requests[s])
  /\ outgoing_requests' = [outgoing_requests EXCEPT ![s] = {}]
  /\ target_len' = [target_len EXCEPT ![s] = 1]
  /\ pc' = [pc EXCEPT ![s] = MakeRequestsPc(is_choked[s], is_interested[s])]
  /\ UNCHANGED <<pickerVars, diskVars, torrentVars, protocolVars, session_endgame,
                 requests, wire, cmds>>

\* The rest of tick: the target follows the measured rate, never below one.
AdjustTarget(s) ==
  /\ Selecting(s) /\ target_len[s] > 0
  /\ \E len \in 1 .. MaxLen : target_len' = [target_len EXCEPT ![s] = len]
  /\ UNCHANGED <<pickerVars, downloads, diskVars, torrentVars, protocolVars, session_endgame,
                 pipelineVars, cmds, faults>>

\* Command::PieceCompletion: announce the piece to the peer, or cancel what
\* we requested of it; the peer honours a cancel or has answered already.
HandlePieceCompletion(s) ==
  /\ Selecting(s) /\ cmds[s] # <<>>
  /\ cmds' = [cmds EXCEPT ![s] = Tail(@)]
  /\ session_endgame' = [session_endgame EXCEPT ![s] = Head(cmds[s]).in_endgame]
  /\ LET p == Head(cmds[s]).index
         cancelled == IF p \in peer_pieces[s]
                        THEN {b \in outgoing_requests[s] \cap BlocksOf(p) : wire[s][b] > 0}
                        ELSE {}
     IN \E honoured \in SUBSET cancelled :
          wire' = [wire EXCEPT ![s] = [b \in Blocks |-> IF b \in honoured THEN @[b] - 1 ELSE @[b]]]
  /\ UNCHANGED <<pickerVars, downloads, diskVars, torrentVars, protocolVars, target_len,
                 outgoing_requests, requests, pc, faults>>

\* Any error in the select loop, or Command::Shutdown.
Leave(s) ==
  /\ Selecting(s)
  /\ End(s, "leave", outgoing_requests[s])
  /\ UNCHANGED <<pickerVars, diskVars, torrentVars, is_choked, is_interested, peer_pieces,
                 session_endgame, target_len>>

-----------------------------------------------------------------------------
(* The disk task and its threads.                                          *)

sessionVars == <<protocolVars, session_endgame, target_len, pipelineVars>>

DiskStep ==
  /\ \/ Disk!WriteBlock /\ UNCHANGED faults
     \/ \E p \in Pieces :
          \/ Disk!FinishValid(p) /\ UNCHANGED faults
          \/ Disk!FinishInvalid(p) /\ Fault("corrupt")
          \/ Disk!FinishError(p) /\ Fault("write_error")
  /\ UNCHANGED <<pickerVars, downloads, torrentVars, sessionVars, cmds>>

-----------------------------------------------------------------------------
(* The torrent task: PieceCompletion commands.                             *)

TorrentReady == registering = {} /\ ~ panicked

\* Mutant of TakeValid: the download is not removed.
TakeValid_KeepsDownload(p) ==
  /\ TorrentReady
  /\ Disk!TakeCompletion /\ Head(completions) = Disk!Valid(p)
  /\ registering' = {p}
  /\ UNCHANGED <<pickerVars, downloads, panicked, in_endgame, sessionVars, cmds, faults>>

TakeValid(p) ==
  /\ TorrentReady
  /\ Disk!TakeCompletion /\ Head(completions) = Disk!Valid(p)
  /\ downloads' = [q \in DOMAIN downloads \ {p} |-> downloads[q]]
  /\ registering' = {p}
  /\ UNCHANGED <<pickerVars, panicked, in_endgame, sessionVars, cmds, faults>>

\* Nobody is told that the blocks are free again.
TakeInvalid(p) ==
  /\ TorrentReady
  /\ Disk!TakeCompletion /\ Head(completions) = Disk!Invalid(p)
  /\ IF p \in DOMAIN downloads
       THEN downloads' = [downloads EXCEPT ![p] = Table!FreeAllBlocks(@)]
       ELSE UNCHANGED downloads
  /\ UNCHANGED <<pickerVars, torrentVars, sessionVars, cmds, faults>>

\* A write error is logged and that is all.
TakeError ==
  /\ TorrentReady
  /\ Disk!TakeCompletion /\ Head(completions) = Disk!WriteError
  /\ UNCHANGED <<pickerVars, downloads, torrentVars, sessionVars, cmds, faults>>

\* Mutant of EntersEndgame: pieces not picked yet are overlooked.
EntersEndgame_AnyMissing == Picker!missing_piece_count > 0

\* Endgame begins when pieces are missing and all of them are picked.
EntersEndgame == Picker!missing_piece_count > 0 /\ Picker!all_pieces_picked

\* The picker is told, endgame is decided, every live session is told.
RegisterPiece(p) ==
  /\ registering = {p}
  /\ Picker!ReceivedPiece(p)
  /\ registering' = {}
  /\ in_endgame' = (in_endgame \/ EntersEndgame')
  /\ cmds' = [s \in Sessions |->
                IF connection[s] = "Disconnected" THEN cmds[s]
                ELSE Append(cmds[s], [index |-> p, in_endgame |-> in_endgame'])]
  /\ UNCHANGED <<downloads, diskVars, panicked, sessionVars, faults>>

\* received_piece asserts that the piece is not owned yet.
RegisterPanics(p) ==
  /\ registering = {p} /\ p \in own_pieces
  /\ ~ panicked /\ panicked' = TRUE
  /\ UNCHANGED <<pickerVars, downloads, diskVars, registering, in_endgame, sessionVars, cmds, faults>>

-----------------------------------------------------------------------------
Init ==
  /\ Picker!New({})
  /\ downloads = [p \in {} |-> <<>>]
  /\ Disk!DiskInit
  /\ registering = {} /\ panicked = FALSE /\ in_endgame = FALSE
  /\ connection = [s \in Sessions |-> "AvailabilityExchange"]
  /\ is_choked = [s \in Sessions |-> TRUE]
  /\ is_interested = [s \in Sessions |-> FALSE]
  /\ peer_pieces = [s \in Sessions |-> {}]
  /\ session_endgame = [s \in Sessions |-> FALSE]
  /\ target_len = [s \in Sessions |-> 0]
  /\ outgoing_requests = [s \in Sessions |-> {}]
  /\ requests = [s \in Sessions |-> {}]
  /\ pc = [s \in Sessions |-> "select"]
  /\ cmds = [s \in Sessions |-> <<>>]
  /\ wire = [s \in Sessions |-> [b \in Blocks |-> 0]]
  /\ faults = [count |-> 0, kinds |-> {}]

SessionStep(s) ==
  \/ \E pieces \in Bitfields : HandleBitfield(s, pieces)
  \/ HandleOtherFirst(s)
  \/ \E p \in Pieces : HandleHave(s, p)
  \/ HandleChoke(s)
  \/ HandleUnchoke(s)
  \/ \E b \in Blocks : HandleBlock(s, b)
  \/ ContinueDownloads(s)
  \/ \E p \in Pieces : StartDownload(s, p)
  \/ SendRequests(s)
  \/ \E registered \in SUBSET requests[s] : SendFails(s, registered)
  \/ TimeOut(s)
  \/ AdjustTarget(s)
  \/ HandlePieceCompletion(s)
  \/ Leave(s)

TorrentStep ==
  \/ \E p \in Pieces : TakeValid(p) \/ TakeInvalid(p) \/ RegisterPiece(p) \/ RegisterPanics(p)
  \/ TakeError

Next == (\E s \in Sessions : SessionStep(s)) \/ DiskStep \/ TorrentStep

Spec == Init /\ [][Next]_vars

\* The scheduler runs every task that has something to do, every blocking
\* thread ends, and (an assumption on the peers) a peer announces itself,
\* unchokes us and answers what it was asked.
FairSession(s) ==
  /\ WF_vars(\E pieces \in Bitfields : HandleBitfield(s, pieces))
  /\ WF_vars(is_interested[s] /\ HandleUnchoke(s))
  /\ WF_vars(\E b \in Blocks : HandleBlock(s, b))
  /\ WF_vars(ContinueDownloads(s) \/ (\E p \in Pieces : StartDownload(s, p)) \/ SendRequests(s))
  /\ WF_vars(HandlePieceCompletion(s))

Fairness ==
  /\ \A s \in Sessions : FairSession(s)
  /\ WF_vars(DiskStep /\ faults' = faults)
  /\ WF_vars(TorrentStep)

FairSpec == Spec /\ Fairness

-----------------------------------------------------------------------------
(* Properties.                                                             *)

TypeOK ==
  /\ Picker!TypeOK
  /\ Disk!DiskTypeOK
  /\ DOMAIN downloads \subseteq Pieces
  /\ \A p \in DOMAIN downloads : downloads[p] \in [0 .. BlocksIn[p] - 1 -> Table!BlockStatus]
  /\ registering \subseteq Pieces /\ panicked \in BOOLEAN /\ in_endgame \in BOOLEAN
  /\ connection \in [Sessions -> {"AvailabilityExchange", "Connected", "Disconnected"}]
  /\ is_choked \in [Sessions -> BOOLEAN]
  /\ is_interested \in [Sessions -> BOOLEAN]
  /\ peer_pieces \in [Sessions -> SUBSET Pieces]
  /\ session_endgame \in [Sessions -> BOOLEAN]
  /\ target_len \in [Sessions -> 0 .. MaxLen]
  /\ outgoing_requests \in [Sessions -> SUBSET Blocks]
  /\ requests \in [Sessions -> SUBSET Blocks]
  /\ pc \in [Sessions -> {"select", "continue", "start"}]
  /\ cmds \in [Sessions -> Seq([index : Pieces, in_endgame : BOOLEAN])]
  /\ wire \in [Sessions -> [Blocks -> Nat]]
  /\ faults \in [count : 0 .. MaxFaults, kinds : SUBSET FaultKinds]

(* The piece picker's flags and the table of downloads, guarded by two     *)
(* locks, agree: a piece that is picked and missing is being downloaded,   *)
(* except while the torrent task is between removing the download and      *)
(* telling the picker.  A picked piece without a download would never be   *)
(* requested again; a download without a picked piece would be replaced.   *)
PickedIsDownloading ==
  DOMAIN downloads = ((Pieces \cap is_pending) \ own_pieces) \ registering

(* A piece is owned, and announced to peers, only once its bytes are in    *)
(* the files: the hash and the write come before received_piece.           *)
OwnedIsWritten == own_pieces \subseteq written

\* The data of block b is on its way to the files: queued for the disk
\* task, buffered, in a blocking thread, or reported on.
InFlight(b) ==
  \/ \E k \in DOMAIN disk_queue : disk_queue[k] = b
  \/ b \in write_buf
  \/ write_jobs[b[1]] > 0
  \/ \E k \in DOMAIN completions : completions[k] \in {Disk!Valid(b[1]), Disk!Invalid(b[1])}

(* A block marked received, which nobody will request again, is on its way *)
(* to disk: of all that may go wrong only a write error drops it.          *)
ReceivedIsKept ==
  Without("write_error") =>
    \A p \in DOMAIN downloads : \A i \in DOMAIN downloads[p] :
      downloads[p][i] = "Received" => InFlight(<<p, i>>)

(* A block marked requested, which nobody else requests outside endgame,   *)
(* is held by a session that will receive it, time it out or free it when  *)
(* it ends: "cancel any pending requests to not block other peers from     *)
(* completing the piece" (peer.rs, start).  Of all that may go wrong only  *)
(* a send that fails in make_requests and an end that is cut short leave   *)
(* blocks to nobody.                                                       *)
RequestedIsHeld ==
  Without("send_failure") /\ Without("cut_short") =>
    \A p \in DOMAIN downloads : \A i \in DOMAIN downloads[p] :
      downloads[p][i] = "Requested" =>
        \E s \in Sessions : <<p, i>> \in outgoing_requests[s] \cup requests[s]

(* Outside endgame a block is requested of one peer at a time: two         *)
(* sessions that pick blocks of the same piece never pick the same one,    *)
(* before a corrupt piece frees blocks that others may have requested.     *)
ExclusiveOutsideEndgame ==
  ~ in_endgame /\ Without("corrupt") =>
    \A s, t \in Sessions : s # t =>
      (outgoing_requests[s] \cup requests[s]) \cap (outgoing_requests[t] \cup requests[t]) = {}

(* A session in endgame, the only one allowed to request what others have  *)
(* requested, is right about it: no piece is left to pick, and it is the   *)
(* torrent that found so.  Its flag lags behind by a queued command.       *)
EndgameSound ==
  /\ in_endgame => Picker!Free = {}
  /\ \A s \in Sessions : session_endgame[s] => in_endgame

(* make_requests never picks past the target length of the request queue,  *)
(* counting requests in flight and blocks picked in earlier rounds.        *)
QueueWithinTarget ==
  [][\A s \in Sessions : requests'[s] \subseteq requests[s] \/
       Cardinality(requests'[s]) + Cardinality(outgoing_requests'[s]) <= target_len[s]]_vars

\* How far a piece is.
LifeOf(p) ==
  IF p \in own_pieces THEN "owned"
  ELSE IF p \in registering THEN "finishing"
  ELSE IF p \in DOMAIN downloads THEN "downloading" ELSE "missing"

Life == INSTANCE PieceLife WITH life <- [p \in Pieces |-> LifeOf(p)]

(* Sessions, picker, disk and torrent together keep the engine's promise   *)
(* to each piece, whatever fails: no piece skips a stage of its life or    *)
(* falls back, and none is finished before it is written.                  *)
PiecesLive == Life!Spec

(* The download comes to its end: with peers that have every piece, keep   *)
(* unchoking us and answer what they are asked, every piece is picked,     *)
(* completed and owned, however sessions, disk and torrent interleave.     *)
DownloadCompletes == <>(own_pieces = Pieces)

-----------------------------------------------------------------------------
(* What the code's own comments and assertions claim, and its steps break. *)

(* received_piece: "we must not already have this piece as otherwise the   *)
(* free/missing count logic is thrown off", asserted with assert!.         *)
ReceivedOnlyOnce == ~ panicked

\* A block nobody requests, and a session that could request it now.
IsFree(b) == b[1] \in DOMAIN downloads /\ downloads[b[1]][b[2]] = "Free"
CouldRequest(s, b) ==
  /\ Connected(s) /\ MayRequest(is_choked[s], is_interested[s])
  /\ b[1] \in peer_pieces[s] /\ Quota(s) > 0

(* The end of start: "cancel any pending requests to not block other peers *)
(* from completing the piece": a block that was freed, when another        *)
(* session could request it, is requested in the end.                      *)
FreedBlockRequested ==
  \A b \in Blocks :
    (IsFree(b) /\ \E s \in Sessions : CouldRequest(s, b))
      ~> (~ IsFree(b) \/ ~ \E s \in Sessions : CouldRequest(s, b))
=============================================================================
