# A formal model of cratetorrent

cratetorrent is a BitTorrent V1 engine written in Rust on the tokio runtime.
This directory holds TLA+ modules that model its core, TLC configurations that
check them on small instances, and theorems about them checked by TLAPS. Paths
below are relative to `src/cratetorrent/src/`.

## The system

An *engine* task creates one *torrent* task per torrent and one *disk* task for
all of them. A torrent task starts one *peer session* task per connection. Tasks
talk through unbounded channels, except for two structures that the sessions of
a torrent and its torrent task share behind read-write locks: the *piece
picker* and the table of *piece downloads* (`TorrentContext`).

| Component | State | Operations | Talks to |
| --- | --- | --- | --- |
| Piece picker (`piece_picker.rs`) | own pieces; frequency and pending flag per piece; counts of missing and of free pieces | register a peer's pieces, pick a piece, mark one received | sessions, torrent (shared) |
| Piece download (`download.rs`) | status of each block of a piece | pick blocks, mark received, free one, free all | sessions, torrent (shared) |
| Peer session (`peer.rs`) | connection state, choke and interest of both sides, peer's pieces, outgoing and incoming requests | one handler per message, tick, request timeout, commands, exit | shared structures, torrent, disk, the peer |
| Session context (`peer/state.rs`) | target length of the request queue, slow start, timeout flag, rates | tick, prepare for download, register timeout | its session |
| Torrent (`torrent.rs`) | table of peers, available peers, trackers, endgame flag | tick, connect, announce, piece completion, peer state, shutdown | sessions, disk, engine, trackers |
| Disk (`disk.rs`, `disk/io/`) | per torrent: write buffer by piece, read cache, files | allocate, write block, read block | torrent, sessions, engine |
| File I/O (`disk/io/file.rs`, `iovecs.rs`) | none | vectored reads and writes over several files | disk threads |
| Storage layout (`storage_info.rs`, `lib.rs`) | none | lengths, offsets, files of a piece | everyone |
| Engine (`engine.rs`) | torrents, join handles | create, allocation result, shutdown | torrents, disk, user |
| Alerts (`alert.rs`) | a channel to the user, who may drop its receiver | send | engine, torrents, sessions, user |
| Codec (`peer/codec.rs`), tracker client (`tracker.rs`), metainfo, counters, configuration | local | parsing and plain data | |
| Command line application | | user interface | engine |

What is hard here, and what makes each part correct:

* **Shared tables under two locks.** A session picks a piece under one lock and
  files its download under another; the torrent removes the download first and
  tells the picker after. The two must stay in step, the counters derived from
  them must stay exact, and outside endgame no block may be requested twice.
* **Late blocks.** A timeout frees blocks without telling the peer, which still
  answers: a block may come after it was freed, requested by others, received by
  others, flushed to disk, or after its piece was completed.
* **Sessions that end.** Whatever a session held must become available again,
  and someone must ask for it.
* **Disk threads.** Blocks come in any order and twice; a piece is flushed once
  it is complete, hashed and written beside the event loop, and announced only
  when it is in the files.
* **One channel for the whole disk.** Allocation, writes and reads of all sessions,
  and the shutdown, go through it; threads outlive the task, reads race with writes
  over a cache, peers cancel and repeat what is under way, and an error in the
  loop ends it for everybody.
* **Sends that fail.** A send fails once the receiver is gone, and `?` then returns from
  where it stands: a session whose alert nobody receives frees nothing, a torrent whose
  alert of a failed announce nobody receives ends with its sessions alive.
* **Lifecycles.** Sessions end at any point of their life and report it twice, once
  or never; the table of peers knows them by address only; addresses come from
  trackers and from inbound connections; shutdown waits for all it finds there.
* **Bytes at boundaries.** Pieces span files, blocks span files, files end inside
  pieces; system calls transfer less than asked; messages and the handshake before
  them come in fragments.
* **A pipeline that feeds itself.** Blocks are requested when a block comes, so a
  target that falls to zero, or a timeout that is never due, stalls a session.

`PROJECT.json` lists every component and every hazard at its line.

## Modules

| Module | Models | Kind |
| --- | --- | --- |
| `PiecePicker` | `piece_picker.rs` | component, own specification |
| `PiecePickerProofs` | | its theorems |
| `Basics` | | lemmas on numbers, sums, finite sets and queues that the proofs share |
| `PieceDownload` | `download.rs` | operators on a block table |
| `DiskWriter` | `disk/io/torrent.rs` `write_block`, `disk/io/piece.rs` | component |
| `DiskWriterAlone`, `MCDiskWriterAlone` | any senders around `DiskWriter` | its specification and instance |
| `DiskWriterProofs` | | theorems of `DiskWriterAlone` |
| `DiskTask`, `MCDiskTask` | `disk.rs`, the read path of `disk/io/torrent.rs`, the upload side of `peer.rs`, over `DiskWriter` | composition |
| `DiskTaskProofs` | | its theorems |
| `PieceLife` | what the engine promises of each piece | abstract specification, implemented by `Download` |
| `Download` | sessions (`peer.rs`), torrent (`torrent.rs`), over `PiecePicker`, `PieceDownload`, `DiskWriter` | composition, the core |
| `DownloadProofs` | | its invariant and theorems: the refinement of `PieceLife`, what becomes of a block |
| `MCDownload` | | instances of `Download` |
| `Announce` | `TrackerEntry` and `announce_to_trackers` of `torrent.rs` | operators on a tracker's record |
| `Lifecycle`, `MCLifecycle` | table of peers, life of sessions, announces, shutdown (`torrent.rs`, `peer.rs`, `engine.rs`) | composition |
| `LifecycleProofs` | | its theorems |
| `Sums` | running totals, as several loops of the code keep them | operator |
| `Storage` | `storage_info.rs`, lengths of `lib.rs`, offsets of `metainfo.rs` | operators on a layout |
| `IoVecs` | `iovecs.rs` | operators on buffers, specification of a split and its consumption |
| `FileIO` | `disk/io/file.rs`, `disk/io/piece.rs`, over `Storage` and `IoVecs` | specification of an algorithm, by system calls |
| `FileProofs` | | theorems of `Storage`, `IoVecs` and `FileIO` |
| `PeerCodec` | `peer/codec.rs`, the switch of codecs in `peer.rs` | specification of an algorithm, by reads |
| `SessionContext` | `peer/state.rs`, `avg.rs`, `counter.rs` | operators on a session's numbers |
| `AlgorithmRun` | | the variables of an algorithm that is run by itself: its input, its result |
| `RequestPace` | requests, blocks, timeouts and ticks of a session of `peer.rs`, over `SessionContext` | specification of an algorithm |
| `PickLoop` | the loop of `pick_blocks` in `download.rs`, against `PieceDownload` | specification of an algorithm |
| `AlgorithmProofs` | | theorems of `RequestPace`, `PickLoop` and `PeerCodec` |
| `Algorithms`, `MCAlgorithms` | the algorithms above, on every input of a set | specification of runs |

### PiecePicker

A bitfield is the set of its ones. `own_pieces`, `frequency` and `is_pending` are
the fields of `PiecePicker` and `Piece`; `missing_count` and `free_count` its two
caches. Each method is one action because callers hold the picker's lock around
it. `InterestInPiece` is what `register_peer_piece` returns: the ownership bit as
it is, which is the opposite of interest (see Divergences). `pick_piece` does not
look at which peer asks.

### PieceDownload

Offset and length of a block follow from its index, so a block of a piece is its
index. `received_block` and `free_block` overwrite the status whatever it was, as
a release build does; `debug_assert!` is compiled out. `PickedBlocks` says in one
set what `pick_blocks` picks. `PickLoop` is the loop itself, one step per block, from
any table and any arguments; that it ends with that set is checked and proved.

### DiskWriter

`disk_queue` holds the `WriteBlock` commands. `WriteBlock` takes one and calls
`write_block`, which drops a block that is buffered already and moves a complete
piece to a blocking thread (`write_jobs` counts them per piece). A thread ends in one of three ways
and appends its result to `completions`, the torrent's command channel. Data are
left out: a hash mismatch is possible for any piece. A flushed piece that gets
another block opens a new buffer, as in the code.

### Download

State, per session `s`: `connection`, `is_choked`, `is_interested` and
`peer_pieces` are the fields of `SessionState` and `PeerInfo`; `session_endgame`
and `target_len` those of `SessionContext`; `outgoing_requests` is the field of
the same name; `requests` is the local of `make_requests`, and `pc` says where in
it the session is; `cmds` is the session's command channel. `wire[s][b]` counts
the requests for `b` that the peer may still answer: it is what makes blocks late
after a timeout, a cancel or an endgame completion. `registering` is the piece
whose completion the torrent has half handled.

Steps are cut where the code lets others in:

* `make_requests` is `ContinueDownloads` (the loop over the ongoing downloads,
  under the write lock of the table), a `StartDownload` per picked piece (the
  guard of the picker's lock lives until the download is stored), and
  `SendRequests`, or `SendFails` if one of the sends fails;
* the torrent's `handle_piece_completion` is `TakeValid` (remove the download) and
  `RegisterPiece` (picker, endgame, broadcast), or `RegisterPanics` if the picker's
  assertion fails, after which the torrent takes no step;
* the end of `run` and what `start` does after it is one action, `End`: the requests are
  freed, or, if the alert of an error or the report before it cannot be sent, nothing is
  (the fault `cut_short`);
* other handlers are one action each. Those that touch several blocks take the
  lock of each download in turn, but operations on different blocks commute.

The loop over the downloads follows a hash map's order: `ContinuedPicks` allows
every result that some order gives. The peer is external: it announces pieces,
chokes, unchokes, answers what it was asked, honours a cancel or not. Choking
drops its pending answers, as without the Fast extension.

Left out of `Download`: handshakes, the upload side, the bytes, the clock (a
timeout, a new target length and the end of a session may happen whenever their
other conditions hold), statistics, the table of peers, trackers and the ends of the torrent
task but for its panic: other modules have them.

`FaultKinds` and `MaxFaults` select which faults (choke, timeout, end of session, an end
cut short, failing send, corrupt piece, write error) an instance has, and how many;
`faults` is their number and kinds so far. A property that some kind of fault breaks
says so by `Without(kind)`: it is claimed of every behaviour up to the first such fault.

`PieceLife` says the same of one piece in four states: missing, downloading,
finishing, owned. `LifeOf` reads a piece's state off the picker, the table of
downloads and `registering`; `PiecesLive` is the refinement. It rules out a piece
that is owned without being written, one that falls back, and two completions under
way at once.

### DiskTask

`cmd_rx` is the disk task's channel with all four commands; `DiskWriter` is
instantiated on that channel, and `Collect` hands the block of a `WriteBlock` command
to its `write_block`, so that the write path is the one that `Download` uses. `disk` is `"dead"` after an error in the loop: a
command for a torrent whose allocation failed, or a cached block for a session that
has ended (`read_block` propagates that failed send; the blocking thread ignores
the same failure). A read that misses the cache becomes a member of the bag
`read_jobs` and goes through `LoadPiece` or `FailPiece`, then `ServePiece`: what was
read may be older than what is on disk when it enters the cache. Peers ask for
whole blocks: a request is answered under the block at its offset. The error for an
offset outside the piece (`InvalidBlockOffset`, `disk/io/torrent.rs:399-411`) is left out,
because `validate_block_info` (`peer.rs:1149-1159`) ends the session of a peer that asks
for such a block before the disk hears of it; that its sum of offset and length may wrap
around is not modelled. A session that ends drops its state. The engine's shutdown may find sessions
alive (`SendShutdown` has no condition on them), because it joins torrents, and those only
what is in their tables: a block may follow the `Shutdown` in the channel and is then
never collected. A piece is data or
a hole; the torrent is one file, so a piece before a written one reads as a hole.

Per session, `is_peer_choked`, `is_peer_interested` and `incoming_requests` are the
code's fields, `session_rx` its channel. Histories (`early` and two
counters) say what properties need of the past and bound the instance.

### Lifecycle and Announce

A session is numbered by the order of its start; `peers` maps addresses to sessions,
as the code's table maps them to join handles. The states of a session: connecting
(outbound only), handshaking, exchanging (in the loop of `run`, no message yet), connected,
ending (out of the loop: it frees its blocks and has its last report to send), ended,
refused (ended by a handshake or a connection, without a report). `sending` is set while
it waits in `sink.send` for its peer to read; it takes no command then. An error of `run`
is reported, then alerted, then reported once more (`Fail`, `Finish`), in two steps with
the freeing of blocks between them; if the torrent is gone or nobody receives the alert,
`start` returns after the first. A clean end (shutdown, or neither side has a piece) has
the last report only. `TickSession` reports a connected session once.

The torrent is `"starting"` during its first announce, `"announcing"` while it awaits a
tracker later and `"joining"` while it awaits sessions; it takes no command then. It ends
by a shutdown (`"ended"`) or by an error that `?` hands up from the listener, a tick or
the completion of the last piece (`"failed"`): `start` returns `Ok` in any case, so the
engine joins it and goes on. A failed announce counts an error and alerts; without a
receiver the alert is such an error, before the time of the announce is kept
(`AnnounceFailed`). `start` lets the first one pass, and shutdown's is its last step.
`DropAlerts` is the user who drops the receiver. There is one tracker: that the others
are not contacted after an unheard failure is not visible here. The engine's steps are
the command to the torrent, its join, and the disk's. A torrent task that panics
(run `second_completion`) is in `Download` only.

`Announce` has one operator per method of `TrackerEntry`. Time is counted in ticks of
the torrent; -1 stands for `None`.

### Storage, IoVecs, FileIO

A layout is a piece length and the files, each with its length and its offset, which
`Layout` sums up as `Metainfo::from_bytes` does. A file is the sequence of its bytes so
far, 0 a hole. `FileIO` takes one step per file that a piece enters (`WriteFile`,
`ReadFile`), per system call (`Pwritev`, `Preadv`) and per file that it leaves
(`FileWritten`, `FileRead`); a call transfers what it is asked for, a part of it, or
fails, and `partial` counts those that transfer a part.

A buffer is a pointer and a length, as in `IoVec`, and `IoVecs` keeps the original's
asymmetries: a split at a buffer boundary remembers the last buffer of the first half, a
split inside a buffer the rest of it, and `advance` never removes the buffer at the split.
Positions in the code's slice are counted from 0, here from 1: `pos` 0 is the `None` of
`split`. `piece_count` is the download's length divided by that of a piece, rounded up;
the code takes the number of hashes in the metainfo (`metainfo.rs:231`) and does not
compare the two, so a layout here is one whose metainfo is consistent. The code neither compares pointers nor looks at bytes, so what an address is
may be chosen: here it is the byte's place, in the buffers (`IoVecs`) or in the torrent
(`FileIO`), and the byte there is named after it. What ends up in a file then tells
where it came from, which is more than any particular content would.

### PeerCodec

Bytes are numbers, four of them a number as `put_u32` and `get_u32` have it. The
handshake has the length of the protocol string, the string, whose length is all the
decoder looks at (its bytes are the same here), and the other fields as one. A message
is a type, its numbers and its data; a message of an extension that we do not know is one
more type. `Arrive` is a read of any number of bytes, when the codec needs more;
`DecodeMessage` takes one message off the buffer and, behind the handshake, hands the
buffer on to `PeerCodec`; `DecodeFails` ends the session. Messages whose length does
not fit their type are left out.

### SessionContext and RequestPace

Each method of `SessionContext`, `SlidingAvg` and `Counter` is an operator from value
to value. Rates are held in fractions of 1 / `RATE_UNIT` where the code has an `f64`;
the average is fixed point as in the code. `RequestPace` runs them as a session that
always has blocks to request: it is unchoked, choked, gets blocks asked for and late
ones, new ones and waste, ticks, times out, ends. Time passes in ticks. `sent` adds up
the rounds of the reports (`PeerState`) that the session has sent, the end's one or two
included. What the torrent does with them is not modelled: `handle_peer_state_change`
(`torrent.rs:696-718`) adds a report only if the address is in the table, and to whoever
has it by then, and none while it joins its sessions; its totals may so miss the last
round or have it twice, and no property speaks of them.

## Runs

| Run | Question | Bounds |
| --- | --- | --- |
| `picker` | Do the cached counters and the flags stay right in every order of calls? | 3 pieces, each registered up to twice, as download and as seed |
| `algorithms` | Does each sequential algorithm give what it should? | up to 3 files of 1 to 4 bytes, pieces of 3 or 4, blocks of 2, two partial system calls; up to 3 buffers of 1 to 3 bytes; handshake and up to 2 messages of every kind, an unknown one among them, read in any fragments; every table of 4 blocks; 5 ticks, 5 blocks and 2 unchokes of a session |
| `disk_writer` | Is a piece flushed when and only when complete, and reported? | a piece of 2 blocks and one of 1, each block sent up to twice |
| `disk_task` | Do reads, writes, cancels, ends of sessions and shutdown get along in one channel? | 2 sessions, 2 pieces, a cache of one, one block of either piece written, two requests |
| `download` | Do shared tables, session queues, disk and torrent agree? | 2 sessions, 2 pieces (2 blocks and 1), queue of 2, one fault of any kind |
| `download_faults` | What survives any two faults of any kind, and is it `PieceLife`? | 2 sessions, 1 piece of 2 blocks, any announcements |
| `download_live` | Does the download complete? | 2 sessions, 2 pieces, queue of 1, one choke or timeout |
| `lifecycle` | Do the table of peers, announces and shutdown get along with sessions that fail anywhere and a user who drops the alerts? | 2 addresses, 2 sessions, a limit of 1, 2 ticks, a tracker that answers with or without an address, or fails |

Why these bounds: two sessions are enough for every race over a shared block, two
pieces for endgame (one piece received, the other picked), two blocks for a piece
that is partly requested or received, a queue of two for a session that holds
requests of two rounds, and two faults for the longest story found so far (two
timeouts, two late answers, a piece completed twice). Sessions are
interchangeable, so the safety runs use symmetry; the liveness run does not.
Deadlock is not checked: a finished download, an exhausted bound and a torrent
task that has died all stop legitimately.

In `algorithms` the layouts include files that end at a piece, at a block, inside a
block, and files shorter than a block; three buffers are needed for a split with
buffers on both sides of it; two messages for one that is cut behind another. A session
with `MIN_TIMEOUT` of one tick, averages over two samples and rates over two rounds
reaches timeouts, recoveries, the end of slow start and targets above and below the
number of requests out within five ticks and five blocks. In `disk_task` pieces have one
block, so that one write completes one (collecting several is `disk_writer`'s part): the
other one is a hole before it or data missing behind it; two requests are one cancelled
and repeated, one served from the cache, or two sessions on one piece. In `lifecycle` two sessions at a limit of
one are a session and its replacement, or an outbound and an inbound one.

Some properties say where they do not reach, because the code does not: `PieceWritten`
leaves out files that end between two blocks (run `file_boundary`) and partial writes;
`ShutdownLeavesNone` leaves out addresses connected twice (run `orphaned_session`) and a
torrent that failed unheard; `AnnouncesSpaced` a first announce that did; `ReceivedIsKept`
claims nothing after a write error, `RequestedIsHeld` nothing after a failing send in
`make_requests` or an end cut short, `ExclusiveOutsideEndgame` nothing after a corrupt
piece. These faults do happen in the runs, and other faults before them.

`DownloadCompletes` assumes weak fairness of each session's own steps (the tokio
scheduler polls every ready task), of the disk task and its threads, and of the
torrent task; and, as an assumption on seeds, that each announces itself,
unchokes an interested client and answers what it was asked. Nothing forces a
timeout, a choke or the end of a session. It holds with one fault; with two, both
sessions can end up idle beside blocks that were freed, which is what run `freed_block`
shows.

`RequestAnswered` assumes weak fairness of the disk task's loop, of its blocking
threads together and of each session's reading of its channel: the tokio scheduler
polls every ready task, and a blocking read ends. `ShutdownCompletes` assumes it of the
torrent's steps, of connection attempts (they succeed or fail; the operating system
ends them), of sessions that are ending, and of the engine, and strong fairness of a
session's taking of its command: `select!` polls what is ready in random order, so a session
that comes back to its loop again and again takes it. What no timeout of the code bounds
is no fairness but a premise of the property: no peer keeps a session waiting for good,
for its handshake or to read what is sent to it, and the tracker no announce (its
client has no timeout, `tracker.rs:148`, and is awaited inside the torrent's loop).
`CompletePieceReported` assumes it of the disk task and its threads.

### Divergences

Four runs end in a counterexample to something the code says of itself:

* `second_completion` – after two timeouts a received block can be freed, requested
  and written again; the piece completes a second time and `received_piece`'s
  `assert!` kills the torrent task.
* `freed_block` – blocks freed by a session that ends are not requested by a session
  that has nothing in flight: nothing wakes it, and the download stalls.
* `file_boundary` – if a file ends between two blocks of a piece, `TorrentFile::write`
  returns the last block written as part of the rest, and the next file starts with it.
* `orphaned_session` – an address that a tracker names again, or that connects to us,
  takes the table entry of a live session; shutdown neither tells that session to end
  nor joins it.

Also met while modelling, without a run of their own:

* `register_peer_piece` returns the ownership bit as interest, so a Have message for a
  piece that we lack never makes us interested (`piece_picker.rs:145` against
  `peer.rs:1087-1088`); `InterestInPiece` returns what the code returns.
* A send that fails inside `make_requests` leaves the remaining picked blocks requested
  by nobody (`peer.rs:917`), action `SendFails`.
* If the user has dropped the alerts, a session that fails returns at `peer.rs:346-350`,
  before it frees its requests at 372; a failing tracker ends the torrent task
  (`torrent.rs:634-639`, through 371 or 431) with its sessions alive and out of reach of
  the shutdown; and if it is the first announce that fails, the next tick announces at
  once. Nothing in `alert.rs` says that the receiver must be kept.
* A block that comes after its timeout may be free when it is received, which trips
  the `debug_assert!` at `download.rs:125`; requests outlive the download of their piece,
  although `peer.rs:159-160` says there must be an entry.
* The reset of `is_pending` in `received_piece` is in the branch where the flag is unset
  already; in endgame a session can pick a block it has requested already if another
  session freed it; interest is not re-evaluated when pieces complete;
  `make_requests` does not look at the peer's pieces.
* After a partial transfer, `TorrentFile::write` and `read` repeat the system call at
  the offset of the slice, not behind what was transferred.
* A piece read before it was written comes back as a hole and may enter the cache after
  the write; only the order of events keeps announced pieces from it
  (`AnnouncedIsServed`). A block comes back from the disk under its whole length, so a
  request of another length is never found answered. A failed read is reported to the torrent and leaves the
  session's entry in `incoming_requests` for good.
* A cached block for a session that has ended ends the disk task (`DiskSurvives` says
  what else may); so does a command for a torrent whose allocation failed.
* A session that is refused, while connecting or by its handshake, never reports its
  end and keeps its place in the table; there is no timeout for a handshake, for a peer
  that does not read or for a tracker, so shutdown waits as long as they do.
* The torrent's totals of a session may miss its last round or have it twice
  (`RequestPace`, above).
* Slow start ends when a round falls short of the average by a margin, not when the
  rate "has not increased significantly" (`peer/state.rs:298-314`); at a steady rate
  it goes on. A choke and an unchoke lift the limit of a single request after a
  timeout. `record_waste` and payload mark the context as changed, protocol bytes do not.

## Proofs

Checked by `tlapm` for every value of the constants, from the assumptions that the
modules name (`PickerAssumption`, `DownloadAssumption`, `WritesAssumption`,
`DiskTaskAssumption`, `LifecycleAssumption`, `PaceAssumption`, `PickAssumption`,
`IoVecsAssumption`, `FileIOAssumption`, `CodecAssumption`): each
says of what kind the constants are, and TLC evaluates it on the runs. Nothing is
assumed of the schedule.

**`PiecePickerProofs`.** `PickerInv`, types and exact counters together, is inductive:
neither part is without the other, as a decrement stays a natural number only
because the counter equals the size of a set that loses an element. From it
`PickerTypeOK`, `PickerCountsExact`, and the action property `PickerPicksOnce`.

**`DownloadProofs`.** The invariant `IInv` of the composition has five parts. What
the runs check (`PickedIsDownloading`, `OwnedIsWritten`, `EndgameSound`, exact
counters) is not inductive, because each action of the torrent task trusts what it
is told. `IInv` adds what makes that trust right:

* every block queued or buffered, every blocking thread and every report on a piece
  belongs to a piece that was picked (`DiskInv`): hence a completion never makes the
  torrent task tell the picker of a piece nobody picked, which is what keeps
  `free_count` right. It is inductive because a picked piece keeps its flag for good,
  also when it is received, which is the odd reset in `received_piece`;
* a report that a piece is valid follows its write, so what is being registered is
  written (`Reports`, `TableInv`);
* an endgame flag in a command still on its way is justified (`Commands`), and no
  step makes a piece free to pick again.

One lemma per group of steps follows each part; the steps of a session that neither
save a block nor start a download are handled once (`Quiet`). The picker's part is
carried over from `PiecePickerProofs` through an instance. The theorems:
`DownloadTypeOK`, `DownloadPickedIsDownloading`, `DownloadOwnedIsWritten` and
`DownloadEndgameSound`.

On `IInv` rest two more theorems. `DownloadImplementsPieceLife` is the refinement: by
`NoStage` and `OneStage` a step is a stutter, or moves one piece, as the three sets that
`LifeOf` reads tell; `SessionLives`, `DiskLives` and `TorrentLives` go through the
steps. The invariant is needed where a step of `Download` could happen in a state that
`PieceLife` does not let it happen in: a second completion of a piece already owned, a
report on a piece nobody downloads. `DownloadQueueWithinTarget` bounds a session's
requests by the size of what a scan takes (`FirstOfBound`), per download and in sum.

What becomes of a block is the last part. `SessionMoves` sums up what any step of a session does to any block
(`BlockMove`): it is picked, given back, answered, left alone or, if a send fails or an
end is cut short, dropped. On it rest three theorems, of every instance, in which the
kinds of faults so far (`faults.kinds`, which only grows: `KindsGrow`) tell how far the
property is claimed:

* `BlockRequestedIsHeld`, up to the first failing send in `make_requests` or end cut
  short, which leave blocks requested by nobody;
* `BlockReceivedIsKept`, up to the first write error, which drops a piece's blocks;
* `BlockExclusive`, up to the first corrupt piece, which frees blocks that other
  sessions may still have requested. Inductive with `HeldNotFree`: outside endgame a
  held block is never free, not even after a late answer to somebody else.

**`DiskWriterProofs`.** `WriterFlushNeedsEveryBlock` is inductive with the types: a copy
of a block is in the queue, in the buffer, or spent on a thread of its piece. The work
is in the counting of places in a queue (`Basics`: `PlacesAppend`, `PlacesTail`).

**`DiskTaskProofs`.** `ServedInv` follows a piece from
the question to the answer: a peer asks for it early (`early`) or after the torrent was
told that it is valid, hence written; so every read command, blocking thread, cache entry
and answer holds data or belongs to an early piece, whatever order threads end in. It
gives `DiskTaskAnnouncedIsServed`. `DiskTaskSurvives` names all that kills the task. The read
threads are a bag, the channel a sequence from which only the head is taken.

**`LifecycleProofs`.** `ListedInv` is the strengthening for the shutdown: as long as no
address is connected twice, the table leads to every session that still serves its peer,
so that joining what is in the table joins them all (`LifecycleShutdownLeavesNone`;
`ShutdownInv` adds that a torrent fails only unheard, or before it has a session). It
needs that a report of a disconnection belongs to a session that has left its loop
(`ReportInv`), or a late second report would take a live session out of the table: two reports of one
session cannot, for the second finds the entry gone, or, if the address was used again,
finds a session that `~ Reused` excludes. `EndedIsReported` turned out to be inductive
without any condition on addresses and is stated so, up to the end of the torrent.
`LifecycleConnectsWithinLimit` and `LifecycleAnnouncesSpaced` are action properties; the
latter needs that the tracker's record has the time of the last attempt, failed ones
too (`TrackerInv`), as long as the torrent lives and but for a first one that failed
unheard: a later one that does ends the torrent, so that no tick follows it.

**`AlgorithmProofs`.** For `RequestPace`, `SessionInv` has a part for each property:
`Pacing` adds the target to the requests (at least one block while unchoked, exactly one
and no slow start while it recovers from a timeout); `Sampling` keeps the average in its
fixed point between the least and the greatest sample, scaled, because a truncated
quotient lies between its dividend and zero (`QuotientBetween`); `Counting` adds that a
round with bytes is marked as changed, or a tick would drop it unsent (`PaceRoundsSent`). There is one
lemma per method of `SessionContext`; `Ready` is the invariant without the requests,
from which `make_requests` restores it (`RequestedInv`). For `PickLoop`, `LoopInv` says
that the loop has picked all that it has seen; `SeenIsPicked` that this is the set
`PickedBlocks` names, also when the loop stops before the end.

For `PeerCodec`, `StreamReceivedInOrder` rests on two facts. What one message is encoded
to, followed by anything, decodes to that message and what follows (`SentDecoded`: numbers
by `NumberBytes`, then one lemma per kind of message), and a part of it decodes to nothing.
And the stream is the messages one behind the other, which `StreamIsStream` says by
positions. The invariant (`Halfway`): after some messages, the buffer is the stream from
where the last one ended up to what has arrived, the wire is the rest, whichever codec
holds it. Hence where the reads cut the stream does not matter, and a codec that
started with an empty buffer would lose the place.

**`FileProofs`.** Sums, splits and loops over system calls are data, and there is no
induction over data here. It is replaced by an induction over positions, which needs no
operator as a parameter: `RangeInduction` shows that a set of numbers closed under the next
one holds a whole range, by the least number it lacks. On it rest `PartialSumsDef` (the
running totals are a function and do what their recursion says) and all that follows.

* `FileLayoutConsistent`: `Laid` says what `Layout` gives, files one behind the other;
  `FileAt` and `PieceAt` find the file and the piece of a byte; `FilesOfPiece` shows that
  the walk over files finds those that share a byte with the piece, no more and no less.
* `IoVecsSplitKeepsBytes`: that the first half holds the right bytes is not inductive.
  `Halved` adds where the split is, that the buffers are one behind the other on both
  sides of it, and that a buffer is empty only if it is the one at the split and all
  before it has been consumed: `as_slice` takes an empty buffer there for the end.
* `FileWriteStaysInPiece` and `FilePieceWritten` share `WriteInv`. Whatever was
  transferred, the first half never has more bytes than are left of the slice, so that a call at
  the slice's offset stays inside it: that is the first theorem. As long as the transfer
  is smooth (no partial call, no file that ends between two blocks), the buffers
  also start at the byte that is due, and what is before it is in the files.
* `FileReadIsExact` has the weaker `ReadInv`: buffers that a read fills are not bounded by
  the slice, so what a call finds depends on where the file ends (`ReadableNumbers`).

`IoVecsSpec`, `FileSpec` and `StreamSpec`, like `PaceSpec` and `PickSpec`, are the
algorithms by themselves; `Algorithms` is their disjunction, in the same variables, and
the run checks the same properties of it.

Only model-checked, because it is out of the prover's reach: liveness, which needs
fairness and ENABLED (`DownloadCompletes`, `RequestAnswered`, `ShutdownCompletes`,
`CompletePieceReported`). Every invariant and every action property that a passing run
checks is a theorem. Not a theorem either is what the four runs with a counterexample say.

## Not modelled

Parsing of the metainfo and of tracker answers, and the HTTP client: deserialisation
and I/O by libraries. The command line application, the contents of alerts,
configuration and error types: no state that the engine depends on, but for whether the
alerts' receiver is still there, which `Lifecycle` and `Download` have. Several torrents in one engine: they share
the disk task only, whose end for all of them is in `DiskTask`. Upload, protocol and
peak statistics and the torrent's totals: reported, never acted upon, but for the totals in an announce. Keep-alives and the Fast extension: the code
has none to send.

## Plan

Done: the modules above, and a theorem for every safety property that a run checks.
What is left, in this order:

1. Several torrents over one disk task.
2. The bytes left and the totals that an announce names, with duplicates and corrupt
   pieces counted as the code counts them, and reports that the torrent drops.
3. Several trackers, of which an unheard failure leaves some uncontacted.
