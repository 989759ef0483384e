------------------------------- MODULE Storage -------------------------------
(***************************************************************************)
(* Where the bytes of a torrent are (storage_info.rs, the lengths of       *)
(* lib.rs and the files of metainfo.rs).  All files together are one array *)
(* of bytes, cut into pieces, which are cut into blocks.  A layout has the *)
(* nominal length of a piece and the files, each a FileInfo.  Files are    *)
(* numbered from 1, pieces, blocks and bytes from 0.                       *)
(***************************************************************************)
EXTENDS Integers, Sequences, Sums

CONSTANT BLOCK_LEN

Least(a, b) == IF a < b THEN a ELSE b

-----------------------------------------------------------------------------
(* FileInfo.                                                               *)

\* A file starts where those before it end, which Metainfo::from_bytes sums
\* up while it collects the files.
Layout(piece_len, lens) ==
  [piece_len |-> piece_len,
   files |-> [f \in DOMAIN lens |-> [len |-> lens[f], torrent_offset |-> PartialSums(lens)[f - 1]]]]

torrent_offset(layout, f) == layout.files[f].torrent_offset
torrent_end_offset(layout, f) == torrent_offset(layout, f) + layout.files[f].len

\* get_slice panics on an offset outside the file.
SliceDefined(layout, f, offset) ==
  torrent_offset(layout, f) <= offset /\ offset < torrent_end_offset(layout, f)

\* Mutant of get_slice: the slice may reach past the end of its file.
get_slice_Unbounded(layout, f, offset, len) ==
  [offset |-> offset - torrent_offset(layout, f), len |-> len]

get_slice(layout, f, offset, len) ==
  [offset |-> offset - torrent_offset(layout, f),
   len |-> Least(len, torrent_end_offset(layout, f) - offset)]

-----------------------------------------------------------------------------
(* StorageInfo.                                                            *)

download_len(layout) ==
  PartialSums([f \in DOMAIN layout.files |-> layout.files[f].len])[Len(layout.files)]

\* One hash per piece: the last one covers what remains.
piece_count(layout) == (download_len(layout) + layout.piece_len - 1) \div layout.piece_len

last_piece_len(layout) == download_len(layout) - layout.piece_len * (piece_count(layout) - 1)

piece_len(layout, index) ==
  IF index = piece_count(layout) - 1 THEN last_piece_len(layout) ELSE layout.piece_len

torrent_piece_offset(layout, index) == index * layout.piece_len

\* Mutant of files_intersecting_bytes: a file that starts right after the
\* range is taken in.
files_intersecting_bytes_ClosedEnd(layout, start, end) ==
  LET first == {f \in DOMAIN layout.files : SliceDefined(layout, f, start)}
  IN IF Len(layout.files) = 1 THEN {1}
     ELSE {g \in DOMAIN layout.files : \E f \in first : f <= g /\
             \A h \in f + 1 .. g : torrent_offset(layout, h) \in start .. end}

\* The file that contains the first byte, and those after it that start
\* inside the range; a single file is not looked at.
files_intersecting_bytes(layout, start, end) ==
  LET first == {f \in DOMAIN layout.files : SliceDefined(layout, f, start)}
  IN IF Len(layout.files) = 1 THEN {1}
     ELSE {g \in DOMAIN layout.files : \E f \in first : f <= g /\
             \A h \in f + 1 .. g : torrent_offset(layout, h) \in start .. end - 1}

files_intersecting_piece(layout, index) ==
  files_intersecting_bytes(layout, torrent_piece_offset(layout, index),
                           torrent_piece_offset(layout, index) + piece_len(layout, index))

-----------------------------------------------------------------------------
(* Blocks of a piece of a given length.                                    *)

block_count(len) == (len + BLOCK_LEN - 1) \div BLOCK_LEN
block_len(len, i) == Least(len - i * BLOCK_LEN, BLOCK_LEN)
index_in_piece(offset) == offset \div BLOCK_LEN
=============================================================================
