------------------------------- MODULE FileIO --------------------------------
(***************************************************************************)
(* Writing a piece to the files it lies in and reading it back             *)
(* (disk/io/file.rs, disk/io/piece.rs), one step per system call, which    *)
(* transfers all it is asked for or part of it, or fails.                  *)
(* A file is the sequence of its bytes so far, 0 a hole.  The byte at      *)
(* offset k of the torrent is k + 1, and the address of a byte of a piece  *)
(* that is being written or read is its offset in the torrent.             *)
(***************************************************************************)
EXTENDS Storage, IoVecs

CONSTANTS
  PieceLens, FileLens,  \* bound: the torrents
  MaxPartial            \* bound: calls per piece that transfer a part

ASSUME FileIOAssumption ==
  /\ BLOCK_LEN \in Nat \ {0} /\ PieceLens \subseteq Nat \ {0}
  /\ \A lens \in FileLens : lens \in Seq(Nat \ {0}) /\ lens # <<>>
  /\ MaxPartial \in Nat

Pieces(l) == 0 .. piece_count(l) - 1
PieceStart(l, index) == torrent_piece_offset(l, index)
PieceEnd(l, index) == PieceStart(l, index) + piece_len(l, index)

\* The buffers that the blocks of a piece are in.
Blocks(l, index) ==
  BuffersAt(PieceStart(l, index),
    [i \in 1 .. block_count(piece_len(l, index)) |-> block_len(piece_len(l, index), i - 1)])

\* The file to begin with, and whether another one follows.
FirstFile(l, index) ==
  CHOOSE f \in files_intersecting_piece(l, index) : \A g \in files_intersecting_piece(l, index) : f <= g
StageAfter(l, index, f) == IF f + 1 \in files_intersecting_piece(l, index) THEN "next" ELSE "done"

\* The part of the current file that belongs to what is left of the piece.
Slice == get_slice(input.layout, result.f, PieceStart(input.layout, result.index) + result.total,
                   piece_len(input.layout, result.index) - result.total)

\* How much a call transfers of what it is asked for.
Transfer(wanted) == {n \in 1 .. wanted : n = wanted \/ result.partial < MaxPartial}
Partial(n, wanted) == result.partial + (IF n = wanted THEN 0 ELSE 1)

NoSlice == [offset |-> 0, len |-> 0]

-----------------------------------------------------------------------------
(* Piece::write and, per file, TorrentFile::write.                         *)

\* The bytes of a file after those at n addresses are written at an offset.
Overwritten(file, offset, bufs, n) ==
  LET end == offset + n
  IN [k \in 1 .. (IF end > Len(file) THEN end ELSE Len(file)) |->
        IF offset < k /\ k <= end THEN Address(bufs, k - 1 - offset) + 1
        ELSE IF k <= Len(file) THEN file[k] ELSE 0]

\* A piece arrives in files that hold nothing.
StartWrite ==
  /\ input.algorithm = "storage" /\ result = NotRun
  /\ \E index \in Pieces(input.layout) :
       result' = [op |-> "write", stage |-> "next", index |-> index, f |-> FirstFile(input.layout, index),
                  files |-> [f \in DOMAIN input.layout.files |-> <<>>],
                  bufs |-> Blocks(input.layout, index), total |-> 0, slice |-> NoSlice,
                  iovecs |-> unbounded(<<>>), count |-> 0, partial |-> 0]
  /\ UNCHANGED input

WriteFile ==
  /\ result.op = "write" /\ result.stage = "next"
  /\ result' = [result EXCEPT !.stage = "file", !.slice = Slice, !.count = 0,
                              !.iovecs = bounded(result.bufs, Slice.len)]
  /\ UNCHANGED input

WriteStops == as_slice(result.iovecs) = <<>> \/ result.count = result.slice.len

\* Each call is made at the offset of the slice.
Pwritev ==
  /\ result.op = "write" /\ result.stage = "file" /\ ~ WriteStops
  /\ LET bufs == as_slice(result.iovecs)
     IN \E n \in Transfer(LenOf(bufs)) :
          result' = [result EXCEPT
            !.files[result.f] = Overwritten(@, result.slice.offset, bufs, n),
            !.count = @ + n, !.partial = Partial(n, LenOf(bufs)),
            !.iovecs = IF result.count + n = result.slice.len THEN @ ELSE advance(@, n)]
  /\ UNCHANGED input

\* What the file did not take is for the next one.
FileWritten ==
  /\ result.op = "write" /\ result.stage = "file" /\ WriteStops
  /\ result' = [result EXCEPT
       !.stage = StageAfter(input.layout, result.index, result.f), !.f = @ + 1,
       !.bufs = into_tail(result.iovecs), !.total = @ + result.slice.len]
  /\ UNCHANGED input

PwritevFails ==
  /\ result.op = "write" /\ result.stage = "file" /\ ~ WriteStops
  /\ result' = [result EXCEPT !.stage = "failed"]
  /\ UNCHANGED input

-----------------------------------------------------------------------------
(* piece::read and, per file, TorrentFile::read.                           *)

\* The files when the first n bytes of the torrent are in them.
Held(l, n, f) ==
  IF n <= torrent_offset(l, f) THEN 0
  ELSE IF n < torrent_end_offset(l, f) THEN n - torrent_offset(l, f) ELSE l.files[f].len
FirstBytes(l, n) ==
  [f \in DOMAIN l.files |-> [k \in 1 .. Held(l, n, f) |-> torrent_offset(l, f) + k]]

\* The bytes of a file behind an offset, at the first n addresses of buffers.
Filled(memory, bufs, file, offset, n) ==
  [a \in DOMAIN memory |->
     LET read == {i \in 0 .. n - 1 : Address(bufs, i) = a}
     IN IF read = {} THEN memory[a] ELSE file[offset + 1 + CHOOSE i \in read : TRUE]]

StartRead ==
  /\ input.algorithm = "storage" /\ result = NotRun
  /\ \E index \in Pieces(input.layout), n \in 0 .. download_len(input.layout) :
       result' = [op |-> "read", stage |-> "next", index |-> index, f |-> FirstFile(input.layout, index),
                  held |-> n, files |-> FirstBytes(input.layout, n),
                  bufs |-> Blocks(input.layout, index), total |-> 0, slice |-> NoSlice,
                  memory |-> [a \in PieceStart(input.layout, index)
                                      .. PieceEnd(input.layout, index) - 1 |-> 0],
                  count |-> 0, partial |-> 0]
  /\ UNCHANGED input

ReadFile ==
  /\ result.op = "read" /\ result.stage = "next"
  /\ result' = [result EXCEPT !.stage = "file", !.slice = Slice, !.count = 0]
  /\ UNCHANGED input

\* Mutant of ReadStops: the slice has one byte less.
ReadStops_Early == result.bufs = <<>> \/ result.count >= result.slice.len - 1

ReadStops == result.bufs = <<>> \/ result.count >= result.slice.len

\* What a call at the offset of the slice can read: the buffers do not end
\* with the slice.
Readable ==
  LET there == Len(result.files[result.f]) - result.slice.offset
  IN IF there <= 0 THEN 0 ELSE Least(LenOf(result.bufs), there)

Preadv ==
  /\ result.op = "read" /\ result.stage = "file" /\ ~ ReadStops
  /\ \E n \in Transfer(Readable) :
       result' = [result EXCEPT
         !.memory = Filled(@, result.bufs, result.files[result.f], result.slice.offset, n),
         !.count = @ + n, !.partial = Partial(n, Readable), !.bufs = advance_read(@, n)]
  /\ UNCHANGED input

FileRead ==
  /\ result.op = "read" /\ result.stage = "file" /\ ReadStops
  /\ result' = [result EXCEPT
       !.stage = StageAfter(input.layout, result.index, result.f), !.f = @ + 1,
       !.total = @ + result.slice.len]
  /\ UNCHANGED input

\* Nothing to read is an error of its own.
ReadMissesData ==
  /\ result.op = "read" /\ result.stage = "file" /\ ~ ReadStops /\ Readable = 0
  /\ result' = [result EXCEPT !.stage = "missing data"]
  /\ UNCHANGED input

PreadvFails ==
  /\ result.op = "read" /\ result.stage = "file" /\ ~ ReadStops
  /\ result' = [result EXCEPT !.stage = "failed"]
  /\ UNCHANGED input

-----------------------------------------------------------------------------
StorageInputs == {[algorithm |-> "storage", layout |-> Layout(n, lens)] : n \in PieceLens, lens \in FileLens}

FileNext ==
  \/ StartWrite \/ WriteFile \/ Pwritev \/ FileWritten \/ PwritevFails
  \/ StartRead \/ ReadFile \/ Preadv \/ FileRead \/ ReadMissesData \/ PreadvFails

FileSpec == input \in StorageInputs /\ result = NotRun /\ [][FileNext]_vars

-----------------------------------------------------------------------------
(* Properties.                                                             *)

Overlaps(l, f, index) ==
  torrent_offset(l, f) < PieceEnd(l, index) /\ torrent_end_offset(l, f) > PieceStart(l, index)

(* The lengths add up: pieces cover the torrent, blocks cover each piece,  *)
(* a block's offset leads back to its index, and the files of a piece are  *)
(* those it shares a byte with, which read and write rely on when they     *)
(* walk them without checking.                                             *)
LayoutConsistent ==
  input.algorithm = "storage" /\ result = NotRun =>
    LET l == input.layout
    IN /\ UNION {PieceStart(l, p) .. PieceEnd(l, p) - 1 : p \in Pieces(l)} = 0 .. download_len(l) - 1
       /\ \A p \in Pieces(l) :
            /\ files_intersecting_piece(l, p) = {f \in DOMAIN l.files : Overlaps(l, f, p)}
            /\ Hold(Blocks(l, p), PieceStart(l, p), PieceEnd(l, p))
            /\ \A i \in DOMAIN Blocks(l, p) :
                 /\ Blocks(l, p)[i].len > 0
                 /\ index_in_piece(EndOf(Blocks(l, p)[i]) - 1 - PieceStart(l, p)) = i - 1

InPiece(offset) ==
  PieceStart(input.layout, result.index) <= offset /\ offset < PieceEnd(input.layout, result.index)

\* The byte at an offset of the torrent, as it is in file f.
Stored(f, offset) ==
  LET k == offset - torrent_offset(input.layout, f) + 1
  IN IF k \in DOMAIN result.files[f] THEN result.files[f][k] ELSE 0

\* A file ends inside the piece, at the end of one of its blocks.
FileEndsAtBlock(l, index) ==
  \E f \in DOMAIN l.files :
    LET cut == torrent_end_offset(l, f) - PieceStart(l, index)
    IN 0 < cut /\ cut < piece_len(l, index) /\ cut % BLOCK_LEN = 0

(* A piece that spans files, split within its blocks, lands where it       *)
(* belongs in every file, if no file ends between two of its blocks and    *)
(* each system call transfers all it is asked to.                          *)
PieceWritten ==
  result.op = "write" /\ result.stage = "done" /\ result.partial = 0
    /\ ~ FileEndsAtBlock(input.layout, result.index) =>
  \A f \in DOMAIN input.layout.files :
    \A k \in torrent_offset(input.layout, f) .. torrent_end_offset(input.layout, f) - 1 :
      Stored(f, k) = IF InPiece(k) THEN k + 1 ELSE 0

(* Whatever the calls transfer, a write stays in the piece's part of each  *)
(* file: no file grows past its length, which is what IoVecs is for        *)
(* ("without accidentally extending the file"), and no other piece's bytes *)
(* are touched.                                                            *)
WriteStaysInPiece ==
  result.op = "write" =>
    \A f \in DOMAIN input.layout.files :
      /\ Len(result.files[f]) <= input.layout.files[f].len
      /\ \A k \in DOMAIN result.files[f] :
           result.files[f][k] # 0 => InPiece(torrent_offset(input.layout, f) + k - 1)

\* What the files hold ends before the piece, or inside it with a file.
PieceMissing ==
  \/ result.held <= PieceStart(input.layout, result.index)
  \/ /\ result.held < PieceEnd(input.layout, result.index)
     /\ \E f \in DOMAIN input.layout.files : result.held = torrent_offset(input.layout, f)

(* A read of a piece that is all there never finds data missing, whatever  *)
(* the calls transfer, and ends with its bytes in place if each transfers  *)
(* all it is asked to; if so, and what is there ends before the piece or   *)
(* with one of its files, the read does not end as if all was well.        *)
ReadIsExact ==
  result.op = "read" =>
    /\ result.held >= PieceEnd(input.layout, result.index) => result.stage # "missing data"
    /\ result.partial = 0 /\ result.stage = "done" =>
         /\ ~ PieceMissing
         /\ result.held >= PieceEnd(input.layout, result.index) =>
              \A a \in DOMAIN result.memory : result.memory[a] = a + 1

(* TorrentFile::write: "It returns the slice of blocks that weren't        *)
(* written to disk [...] the second half of blocks as though they were     *)
(* split at the file_slice.len offset".                                    *)
WriteReturnsRest ==
  result.op = "write" /\ result.stage \in {"next", "done"} =>
    Hold(result.bufs, PieceStart(input.layout, result.index) + result.total,
         PieceEnd(input.layout, result.index))
=============================================================================
