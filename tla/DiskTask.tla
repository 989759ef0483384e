------------------------------ MODULE DiskTask -------------------------------
(***************************************************************************)
(* The disk task of disk.rs with the sessions that upload: one channel of  *)
(* commands for allocation, writes, reads and shutdown, the read cache and *)
(* the blocking reads of disk/io/torrent.rs, and the requests that peers   *)
(* make of their sessions (peer.rs).  The write path is DiskWriter's.      *)
(*                                                                         *)
(* The torrent is one file: a piece that is not written reads as a hole    *)
(* if a later piece is written, and otherwise fails for want of data.      *)
(* Peers ask for whole blocks.                                             *)
(***************************************************************************)
EXTENDS Integers, FiniteSets, Sequences, SequencesExt, Bags

CONSTANTS
  PieceCount, BlocksIn,   \* as in DiskWriter
  Sessions,
  CacheSize,    \* READ_CACHE_UPPER_BOUND
  MaxWrites,    \* bound: WriteBlock commands in all
  MaxRequests   \* bound: requests that all peers make

ASSUME DiskTaskAssumption ==
  /\ CacheSize \in Nat \ {0}
  /\ MaxWrites \in Nat /\ MaxRequests \in Nat

VARIABLES
  cmd_rx,       \* commands sent to the disk task, in order
  disk,         \* "running", "dead" (an error ended it) or "stopped"
  allocated,    \* the torrent is in the disk's table
  write_buf, write_jobs, written, completions,   \* as in DiskWriter
  read_cache,   \* cached pieces, the most recently used first
  read_jobs,    \* bag of blocking threads that read a piece
  read_errors,  \* requests whose failure the torrent was told of
  incoming_requests,    \* incoming_requests[s]: requests of s's peer
  is_peer_choked, is_peer_interested, alive,    \* per session
  session_rx,   \* session_rx[s]: blocks sent to s, in order
  writes,       \* history: WriteBlock commands sent
  requests,     \* history: requests made
  early         \* history: pieces requested before they were reported

Queued(cmd) == \E k \in DOMAIN cmd_rx : cmd_rx[k].cmd = cmd

\* The one channel carries other commands, too: only what becomes of a block
\* once it is taken off is DiskWriter's.
Writer == INSTANCE DiskWriter WITH disk_queue <- cmd_rx

Pieces == Writer!Pieces

writeVars == <<write_buf, write_jobs, written, completions>>
readVars == <<read_cache, read_jobs, read_errors>>
peerVars == <<incoming_requests, is_peer_choked, is_peer_interested, alive, session_rx>>
history == <<writes, requests, early>>
vars == <<cmd_rx, disk, allocated, writeVars, readVars, peerVars, history>>

NewTorrent == [cmd |-> "NewTorrent"]
WriteBlock(b) == [cmd |-> "WriteBlock", block |-> b]
ReadBlock(s, b) == [cmd |-> "ReadBlock", session |-> s, block |-> b]
Shutdown == [cmd |-> "Shutdown"]

\* The answer to a request.  It is the whole block at the request's offset,
\* so that a request of another length would never be found answered.
Answer(b, content) == [block |-> b, content |-> content]

\* The engine sends NewTorrent before it starts the torrent.
Init ==
  /\ cmd_rx = <<NewTorrent>> /\ disk = "running" /\ allocated = FALSE
  /\ write_buf = {} /\ written = {} /\ completions = <<>>
  /\ write_jobs = [p \in Pieces |-> 0]
  /\ read_cache = <<>> /\ read_jobs = EmptyBag /\ read_errors = {}
  /\ incoming_requests = [s \in Sessions |-> {}]
  /\ is_peer_choked = [s \in Sessions |-> TRUE]
  /\ is_peer_interested = [s \in Sessions |-> FALSE]
  /\ alive = [s \in Sessions |-> TRUE]
  /\ session_rx = [s \in Sessions |-> <<>>]
  /\ writes = 0 /\ requests = 0 /\ early = {}

-----------------------------------------------------------------------------
(* The disk task's loop.                                                   *)

Takes(cmd) ==
  /\ disk = "running" /\ cmd_rx # <<>> /\ Head(cmd_rx).cmd = cmd
  /\ cmd_rx' = Tail(cmd_rx)

\* Torrent::new may fail, which is reported to the engine and no more.
Allocate ==
  /\ Takes("NewTorrent")
  /\ allocated' \in BOOLEAN
  /\ UNCHANGED <<disk, writeVars, readVars, peerVars, history>>

\* An unknown torrent's command is an error that ends the loop.
UnknownTorrent ==
  /\ ~ allocated /\ (Takes("WriteBlock") \/ Takes("ReadBlock"))
  /\ disk' = "dead"
  /\ UNCHANGED <<allocated, writeVars, readVars, peerVars, history>>

Collect ==
  /\ allocated /\ Takes("WriteBlock") /\ Writer!write_block(Head(cmd_rx).block)
  /\ UNCHANGED <<disk, allocated, readVars, peerVars, history>>

\* LruCache: an entry that is used or put comes first, the last one goes.
\* Mutant of Cached: whatever piece is in the cache.
Cached_Any(p) == DOMAIN read_cache

Cached(p) == {k \in DOMAIN read_cache : read_cache[k].piece = p}

Put(p, content) ==
  LET others == IF Cached(p) = {} THEN read_cache
                ELSE RemoveAt(read_cache, CHOOSE k \in Cached(p) : TRUE)
      all == <<[piece |-> p, content |-> content]>> \o others
  IN SubSeq(all, 1, IF CacheSize < Len(all) THEN CacheSize ELSE Len(all))

\* A cached piece's block goes to the session; if that has ended, the send
\* fails, and its error ends the disk task.
ReadCached ==
  /\ allocated /\ Takes("ReadBlock")
  /\ LET s == Head(cmd_rx).session
         b == Head(cmd_rx).block
     IN \E k \in Cached(b[1]) :
          /\ read_cache' = Put(b[1], read_cache[k].content)
          /\ IF alive[s]
               THEN /\ session_rx' = [session_rx EXCEPT ![s] = Append(@, Answer(b, read_cache[k].content))]
                    /\ UNCHANGED disk
               ELSE /\ disk' = "dead"
                    /\ UNCHANGED session_rx
  /\ UNCHANGED <<allocated, writeVars, read_jobs, read_errors,
                 incoming_requests, is_peer_choked, is_peer_interested, alive, history>>

Job(s, b, content) == [session |-> s, block |-> b, content |-> content]

\* Any other piece is read whole by a blocking thread.
ReadUncached ==
  /\ allocated /\ Takes("ReadBlock") /\ Cached(Head(cmd_rx).block[1]) = {}
  /\ read_jobs' = read_jobs (+) SetToBag({Job(Head(cmd_rx).session, Head(cmd_rx).block, "unread")})
  /\ UNCHANGED <<disk, allocated, writeVars, read_cache, read_errors, peerVars, history>>

\* The commands after a Shutdown are dropped with the channel.
Stop ==
  /\ Takes("Shutdown")
  /\ disk' = "stopped"
  /\ UNCHANGED <<allocated, writeVars, readVars, peerVars, history>>

-----------------------------------------------------------------------------
(* Blocking threads, which outlive the disk task.                          *)

HashAndWrite(p) ==
  /\ UNCHANGED <<cmd_rx, disk, allocated, readVars, peerVars, history>>
  /\ Writer!FinishValid(p) \/ Writer!FinishInvalid(p) \/ Writer!FinishError(p)

Becomes(j, k) == read_jobs' = (read_jobs (-) SetToBag({j})) (+) SetToBag({k})
Ends(j) == read_jobs' = read_jobs (-) SetToBag({j})

\* What piece::read makes of a piece: its data or a hole.
Holds(p) == {c \in {"data", "hole"} : (c = "data") = (p \in written) /\ \E q \in written : p <= q}

LoadPiece(j) ==
  /\ j.content = "unread"
  /\ \E c \in Holds(j.block[1]) : Becomes(j, [j EXCEPT !.content = c])
  /\ UNCHANGED <<cmd_rx, disk, allocated, writeVars, read_cache, read_errors, peerVars, history>>

\* Mutant of FailPiece: the torrent is not told either.
FailPiece_TellsNobody(j) ==
  /\ j.content = "unread"
  /\ Ends(j)
  /\ UNCHANGED <<cmd_rx, disk, allocated, writeVars, read_cache, read_errors, peerVars, history>>

\* Mutant of FailPiece: a piece that cannot be read ends the disk task.
FailPiece_EndsDisk(j) ==
  /\ j.content = "unread"
  /\ Ends(j)
  /\ disk' = "dead"
  /\ read_errors' = read_errors \cup {<<j.session, j.block>>}
  /\ UNCHANGED <<cmd_rx, allocated, writeVars, read_cache, peerVars, history>>

\* Missing data or an IO error: the torrent is told, the session is not.
FailPiece(j) ==
  /\ j.content = "unread"
  /\ Ends(j)
  /\ read_errors' = read_errors \cup {<<j.session, j.block>>}
  /\ UNCHANGED <<cmd_rx, disk, allocated, writeVars, read_cache, peerVars, history>>

\* The piece enters the cache, whatever is there by now, and its block goes
\* to the session; here nobody minds if that has ended.
ServePiece(j) ==
  /\ j.content # "unread"
  /\ Ends(j)
  /\ read_cache' = Put(j.block[1], j.content)
  /\ session_rx' = [session_rx EXCEPT ![j.session] =
                      IF alive[j.session] THEN Append(@, Answer(j.block, j.content)) ELSE @]
  /\ UNCHANGED <<cmd_rx, disk, allocated, writeVars, read_errors, incoming_requests,
                 is_peer_choked, is_peer_interested, alive, history>>

ReadThread(j) == LoadPiece(j) \/ FailPiece(j) \/ ServePiece(j)

-----------------------------------------------------------------------------
(* Sessions.  One that ends drops all of its state and its channel.        *)

Leaves(s) ==
  /\ alive' = [alive EXCEPT ![s] = FALSE]
  /\ session_rx' = [session_rx EXCEPT ![s] = <<>>]
  /\ incoming_requests' = [incoming_requests EXCEPT ![s] = {}]
  /\ is_peer_choked' = [is_peer_choked EXCEPT ![s] = TRUE]
  /\ is_peer_interested' = [is_peer_interested EXCEPT ![s] = FALSE]

\* Any reason: a command to end, an invalid message, a lost connection.
EndSession(s) ==
  /\ alive[s] /\ Leaves(s)
  /\ UNCHANGED <<cmd_rx, disk, allocated, writeVars, readVars, history>>

\* A block received from the peer is sent to the disk, or the session fails.
HandleBlock(s, b) ==
  /\ alive[s] /\ writes < MaxWrites
  /\ writes' = writes + 1
  /\ IF disk = "running"
       THEN cmd_rx' = Append(cmd_rx, WriteBlock(b)) /\ UNCHANGED peerVars
       ELSE Leaves(s) /\ UNCHANGED cmd_rx
  /\ UNCHANGED <<disk, allocated, writeVars, readVars, requests, early>>

\* Interested: unchoked at once, and for good.
HandleInterested(s) ==
  /\ alive[s] /\ ~ is_peer_interested[s]
  /\ is_peer_interested' = [is_peer_interested EXCEPT ![s] = TRUE]
  /\ is_peer_choked' = [is_peer_choked EXCEPT ![s] = FALSE]
  /\ UNCHANGED <<cmd_rx, disk, allocated, writeVars, readVars, incoming_requests, alive,
                 session_rx, history>>

HandleNotInterested(s) ==
  /\ alive[s] /\ is_peer_interested[s]
  /\ is_peer_interested' = [is_peer_interested EXCEPT ![s] = FALSE]
  /\ UNCHANGED <<cmd_rx, disk, allocated, writeVars, readVars, incoming_requests, is_peer_choked,
                 alive, session_rx, history>>

\* handle_request_msg: a choked peer's request ends the session, a repeated
\* one is ignored, any other goes to the disk, if that still runs.
HandleRequest(s, b) ==
  /\ alive[s] /\ requests < MaxRequests
  /\ requests' = requests + 1
  /\ CASE is_peer_choked[s] -> Leaves(s) /\ UNCHANGED <<cmd_rx, early>>
       [] ~ is_peer_choked[s] /\ b \in incoming_requests[s] -> UNCHANGED <<cmd_rx, peerVars, early>>
       [] ~ is_peer_choked[s] /\ b \notin incoming_requests[s] /\ disk # "running" ->
            Leaves(s) /\ UNCHANGED <<cmd_rx, early>>
       [] OTHER ->
            /\ incoming_requests' = [incoming_requests EXCEPT ![s] = @ \cup {b}]
            /\ cmd_rx' = Append(cmd_rx, ReadBlock(s, b))
            /\ early' = IF Writer!Valid(b[1]) \in ToSet(completions) THEN early
                        ELSE early \cup {b[1]}
            /\ UNCHANGED <<is_peer_choked, is_peer_interested, alive, session_rx>>
  /\ UNCHANGED <<disk, allocated, writeVars, readVars, writes>>

HandleCancel(s, b) ==
  /\ alive[s] /\ b \in incoming_requests[s]
  /\ incoming_requests' = [incoming_requests EXCEPT ![s] = @ \ {b}]
  /\ UNCHANGED <<cmd_rx, disk, allocated, writeVars, readVars, is_peer_choked, is_peer_interested,
                 alive, session_rx, history>>

\* send_block: a block whose request was cancelled is dropped.
SendBlock(s) ==
  /\ alive[s] /\ session_rx[s] # <<>>
  /\ incoming_requests' = [incoming_requests EXCEPT ![s] = @ \ {Head(session_rx[s]).block}]
  /\ session_rx' = [session_rx EXCEPT ![s] = Tail(@)]
  /\ UNCHANGED <<cmd_rx, disk, allocated, writeVars, readVars, is_peer_choked, is_peer_interested,
                 alive, history>>

\* The engine's shutdown joins the torrents and then stops the disk task.  A
\* torrent joins the sessions of its table, in which a live one may be missing
\* (Lifecycle), so that nothing here says that all have ended.
SendShutdown ==
  /\ ~ Queued("Shutdown") /\ disk = "running"
  /\ cmd_rx' = Append(cmd_rx, Shutdown)
  /\ UNCHANGED <<disk, allocated, writeVars, readVars, peerVars, history>>

-----------------------------------------------------------------------------
DiskLoop == Allocate \/ UnknownTorrent \/ Collect \/ ReadCached \/ ReadUncached \/ Stop

Next ==
  \/ DiskLoop
  \/ \E p \in Pieces : HashAndWrite(p)
  \/ \E j \in BagToSet(read_jobs) : ReadThread(j)
  \/ \E s \in Sessions :
       \/ EndSession(s) \/ HandleInterested(s) \/ HandleNotInterested(s) \/ SendBlock(s)
       \/ \E b \in Writer!Blocks : HandleBlock(s, b)
       \/ \E b \in Writer!Blocks : HandleRequest(s, b) \/ HandleCancel(s, b)
  \/ SendShutdown

\* The loop keeps taking commands, every thread ends, and a session keeps
\* reading its channel.
Fairness ==
  /\ WF_vars(DiskLoop)
  /\ WF_vars(\E j \in BagToSet(read_jobs) : ReadThread(j))
  /\ \A s \in Sessions : WF_vars(SendBlock(s))

Spec == Init /\ [][Next]_vars /\ Fairness

-----------------------------------------------------------------------------
(* Properties.                                                             *)

TypeOK ==
  /\ ToSet(cmd_rx) \subseteq {NewTorrent, Shutdown} \cup {WriteBlock(b) : b \in Writer!Blocks}
                               \cup {ReadBlock(s, b) : s \in Sessions, b \in Writer!Blocks}
  /\ disk \in {"running", "dead", "stopped"} /\ allocated \in BOOLEAN
  /\ write_buf \subseteq Writer!Blocks /\ write_jobs \in [Pieces -> Nat]
  /\ written \subseteq Pieces /\ completions \in Seq(Writer!Completions)
  /\ Len(read_cache) <= CacheSize
  /\ ToSet(read_cache) \subseteq [piece : Pieces, content : {"data", "hole"}]
  /\ BagToSet(read_jobs) \subseteq
       [session : Sessions, block : Writer!Blocks, content : {"unread", "data", "hole"}]
  /\ read_errors \subseteq Sessions \X Writer!Blocks
  /\ incoming_requests \in [Sessions -> SUBSET Writer!Blocks]
  /\ is_peer_choked \in [Sessions -> BOOLEAN] /\ is_peer_interested \in [Sessions -> BOOLEAN]
  /\ alive \in [Sessions -> BOOLEAN]

(* A piece that peers request only after the torrent was told that it is   *)
(* complete, which is when they hear of it, is never served as a hole, not *)
(* even from the cache: it was in the files before anybody could read it.  *)
AnnouncedIsServed ==
  \A p \in Pieces \ early :
    /\ \A k \in Cached(p) : read_cache[k].content = "data"
    /\ \A s \in Sessions : \A answer \in ToSet(session_rx[s]) :
         answer.block[1] = p => answer.content = "data"

(* An allocation that failed or a session that ended is needed to end the  *)
(* disk task; nothing that a live session's peer asks for, nor a piece     *)
(* that cannot be read, ends it for the other torrents.                    *)
DiskSurvives == disk = "dead" => ~ allocated \/ \E s \in Sessions : ~ alive[s]

(* A request is answered or cancelled, however it is repeated and          *)
(* cancelled while its reads are under way, unless reading fails, the      *)
(* session ends or the disk task does.                                     *)
RequestAnswered ==
  \A s \in Sessions, b \in Writer!Blocks :
    b \in incoming_requests[s] ~>
      \/ b \notin incoming_requests[s]
      \/ <<s, b>> \in read_errors
      \/ disk # "running"
=============================================================================
