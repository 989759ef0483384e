----------------------------- MODULE PiecePicker -----------------------------
(***************************************************************************)
(* The piece picker of piece_picker.rs: which pieces we own, how many      *)
(* peers have each piece, which pieces have been handed out for download,  *)
(* and two counters kept beside them as caches.  A bitfield is the set of  *)
(* the indices of its ones.  The picker lives behind one read-write lock   *)
(* (torrent.rs), so each of its methods is one action.                     *)
(***************************************************************************)
EXTENDS Integers, FiniteSets

CONSTANTS
  PieceCount,   \* number of pieces in the torrent
  MaxSessions   \* bound: sessions that ever register a given piece

ASSUME PickerAssumption == PieceCount \in Nat \ {0} /\ MaxSessions \in Nat

VARIABLES
  own_pieces,     \* the pieces we have downloaded
  frequency,      \* Piece::frequency of each piece
  is_pending,     \* the pieces whose Piece::is_pending flag is set
  missing_count,  \* cache: pieces not received yet
  free_count      \* cache: pieces that can still be picked

pickerVars == <<own_pieces, frequency, is_pending, missing_count, free_count>>

Pieces == 0 .. PieceCount - 1

-----------------------------------------------------------------------------
(* Queries.                                                                *)

Missing == Pieces \ own_pieces
Free == Missing \ is_pending

\* missing_piece_count and all_pieces_picked read the caches.
missing_piece_count == missing_count
all_pieces_picked == free_count = 0

\* Mutant of Pickable: pieces we own are not skipped.
Pickable_IgnoresOwned == {i \in Pieces : frequency[i] > 0 /\ i \notin is_pending}

\* The pieces pick_piece may return, and the first of them.
Pickable == {i \in Pieces : i \notin own_pieces /\ frequency[i] > 0 /\ i \notin is_pending}
IsFirstPickable(i) == i \in Pickable /\ \A j \in Pickable : i <= j

\* What register_peer_pieces returns: the peer has a piece that we lack.
InterestInPieces(pieces) == pieces \ own_pieces # {}

\* What register_peer_piece returns: the ownership bit of the piece as it is.
InterestInPiece(i) == i \in own_pieces

-----------------------------------------------------------------------------
(* Operations.                                                             *)

\* PiecePicker::new
New(own) ==
  /\ own_pieces = own
  /\ frequency = [i \in Pieces |-> 0]
  /\ is_pending = {}
  /\ missing_count = Cardinality(Pieces \ own)
  /\ free_count = missing_count

\* pick_piece when it returns Some(i); None leaves the picker unchanged.
PickPiece(i) ==
  /\ IsFirstPickable(i)
  /\ is_pending' = is_pending \cup {i}
  /\ free_count' = free_count - 1
  /\ UNCHANGED <<own_pieces, frequency, missing_count>>

RegisterPeerPieces(pieces) ==
  /\ frequency' = [i \in Pieces |-> IF i \in pieces THEN frequency[i] + 1 ELSE frequency[i]]
  /\ UNCHANGED <<own_pieces, is_pending, missing_count, free_count>>

RegisterPeerPiece(i) ==
  /\ frequency' = [frequency EXCEPT ![i] = @ + 1]
  /\ UNCHANGED <<own_pieces, is_pending, missing_count, free_count>>

\* Mutant of ReceivedPiece: a picked piece is counted out a second time.
ReceivedPiece_CountsTwice(i) ==
  /\ i \notin own_pieces
  /\ own_pieces' = own_pieces \cup {i}
  /\ missing_count' = missing_count - 1
  /\ free_count' = free_count - 1
  /\ UNCHANGED <<is_pending, frequency>>

\* received_piece; its assertion that we lack the piece is the guard.  The
\* flag of a pending piece is left set: the reset is in the other branch.
ReceivedPiece(i) ==
  /\ i \notin own_pieces
  /\ own_pieces' = own_pieces \cup {i}
  /\ missing_count' = missing_count - 1
  /\ IF i \in is_pending
       THEN UNCHANGED <<free_count, is_pending>>
       ELSE /\ free_count' = free_count - 1
            /\ is_pending' = is_pending \ {i}
  /\ UNCHANGED frequency

-----------------------------------------------------------------------------
(* The picker alone, called in any order.  A torrent starts with no piece  *)
(* (download) or with all of them (seed): engine.rs, Mode::own_pieces.     *)

Init == \E own \in {{}, Pieces} : New(own)

Next ==
  \/ \E pieces \in SUBSET {i \in Pieces : frequency[i] < MaxSessions} : RegisterPeerPieces(pieces)
  \/ \E i \in Pieces : frequency[i] < MaxSessions /\ RegisterPeerPiece(i)
  \/ \E i \in Pieces : PickPiece(i)
  \/ \E i \in Pieces : ReceivedPiece(i)

Spec == Init /\ [][Next]_pickerVars

-----------------------------------------------------------------------------
(* Properties.                                                             *)

TypeOK ==
  /\ own_pieces \subseteq Pieces
  /\ frequency \in [Pieces -> Nat]
  /\ is_pending \subseteq Pieces
  /\ missing_count \in Nat
  /\ free_count \in Nat

(* Whatever the order of calls, the two cached counters stay equal to what *)
(* they cache (the fields' comments in PiecePicker): endgame and the end   *)
(* of the download are decided on the caches alone, and as unsigned        *)
(* integers they must never be decremented below zero.                     *)
CountsExact ==
  /\ missing_count = Cardinality(Missing)
  /\ free_count = Cardinality(Free)

(* A piece handed out by pick_piece is never handed out again and is never *)
(* one we own: pick_piece only turns the flag of a free piece on, and no   *)
(* operation, received_piece included, makes a picked piece free again.    *)
PickedOnce == [][Free' \subseteq Free /\ (is_pending' \ is_pending) \subseteq Free]_pickerVars
=============================================================================
