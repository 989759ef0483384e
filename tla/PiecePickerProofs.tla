-------------------------- MODULE PiecePickerProofs --------------------------
(***************************************************************************)
(* Proofs about PiecePicker: the counters are exact and no piece is handed *)
(* out twice, for every number of pieces and every order of calls.  The    *)
(* conjunction TypeOK /\ CountsExact is inductive; TypeOK alone is not,    *)
(* since only CountsExact keeps the counters from going below zero.        *)
(***************************************************************************)
EXTENDS PiecePicker, FiniteSetTheorems, TLAPS

PickerInv == TypeOK /\ CountsExact

(* Every set of pieces is finite, so the theorems on cardinalities apply.  *)
LEMMA PiecesFinite ==
  ASSUME NEW S \in SUBSET Pieces
  PROVE  IsFiniteSet(S) /\ Cardinality(S) \in Nat
<1>1. IsFiniteSet(Pieces)
  BY PickerAssumption, FS_Interval DEF Pieces
<1>2. IsFiniteSet(S)
  BY <1>1, FS_Subset
<1>. QED BY <1>2, FS_CardinalityType

(* Taking one piece out of a set of pieces lowers its count by one.        *)
LEMMA PieceRemoved ==
  ASSUME NEW S \in SUBSET Pieces, NEW i \in S
  PROVE  /\ Cardinality(S \ {i}) = Cardinality(S) - 1
         /\ Cardinality(S) - 1 \in Nat
<1>1. IsFiniteSet(S)
  BY PiecesFinite
<1>2. Cardinality(S \ {i}) = Cardinality(S) - 1
  BY <1>1, FS_RemoveElement
<1>3. S \ {i} \in SUBSET Pieces
  OBVIOUS
<1>. QED BY <1>2, <1>3, PiecesFinite

(* PiecePicker::new establishes the invariant for any pieces we own.       *)
LEMMA NewPicker ==
  ASSUME NEW own \in SUBSET Pieces, New(own)
  PROVE  PickerInv
<1>1. Pieces \ own \in SUBSET Pieces
  OBVIOUS
<1>2. TypeOK
  BY <1>1, PiecesFinite DEF New, TypeOK
<1>3. CountsExact
  BY DEF New, CountsExact, Missing, Free
<1>. QED BY <1>2, <1>3 DEF PickerInv

(* The two registrations touch the frequencies alone.                      *)
LEMMA RegisterKeepsInv ==
  ASSUME PickerInv,
         \/ \E pieces \in SUBSET Pieces : RegisterPeerPieces(pieces)
         \/ \E i \in Pieces : RegisterPeerPiece(i)
  PROVE  PickerInv'
<1>1. UNCHANGED <<own_pieces, is_pending, missing_count, free_count>>
  BY DEF RegisterPeerPieces, RegisterPeerPiece
<1>2. frequency' \in [Pieces -> Nat]
  BY DEF PickerInv, TypeOK, RegisterPeerPieces, RegisterPeerPiece
<1>3. TypeOK'
  BY <1>1, <1>2 DEF PickerInv, TypeOK
<1>4. CountsExact'
  BY <1>1 DEF PickerInv, CountsExact, Missing, Free
<1>. QED BY <1>3, <1>4 DEF PickerInv

(* Picking a piece takes it out of the free pieces and out of the count.   *)
LEMMA PickKeepsInv ==
  ASSUME PickerInv, NEW i \in Pieces, PickPiece(i)
  PROVE  PickerInv'
<1>1. i \in Free
  BY DEF PickPiece, IsFirstPickable, Pickable, Free, Missing
<1>2. Missing' = Missing
  BY DEF PickPiece, Missing
<1>3. Free' = Free \ {i}
  BY <1>2 DEF PickPiece, Free
<1>4. Free \in SUBSET Pieces
  BY DEF Free, Missing
<1>5. free_count' = Cardinality(Free') /\ free_count' \in Nat
  BY <1>1, <1>3, <1>4, PieceRemoved DEF PickPiece, PickerInv, CountsExact
<1>6. CountsExact'
  BY <1>2, <1>5 DEF PickPiece, PickerInv, CountsExact
<1>7. TypeOK'
  BY <1>5 DEF PickPiece, PickerInv, TypeOK
<1>. QED BY <1>6, <1>7 DEF PickerInv

(* Receiving a piece takes it out of the missing pieces; whether it also   *)
(* leaves the free ones depends on its having been picked.                 *)
LEMMA ReceiveKeepsInv ==
  ASSUME PickerInv, NEW i \in Pieces, ReceivedPiece(i)
  PROVE  PickerInv'
<1>1. i \in Missing
  BY DEF ReceivedPiece, Missing
<1>2. Missing' = Missing \ {i}
  BY DEF ReceivedPiece, Missing
<1>3. Missing \in SUBSET Pieces /\ Free \in SUBSET Pieces
  BY DEF Free, Missing
<1>4. missing_count' = Cardinality(Missing') /\ missing_count' \in Nat
  BY <1>1, <1>2, <1>3, PieceRemoved DEF ReceivedPiece, PickerInv, CountsExact
<1>5. free_count' = Cardinality(Free') /\ free_count' \in Nat
  <2>1. CASE i \in is_pending
    <3>1. Free' = Free
      BY <2>1, <1>2 DEF ReceivedPiece, Free
    <3>. QED BY <2>1, <3>1 DEF ReceivedPiece, PickerInv, CountsExact, TypeOK
  <2>2. CASE i \notin is_pending
    <3>1. Free' = Free \ {i} /\ i \in Free
      BY <2>2, <1>1, <1>2 DEF ReceivedPiece, Free
    <3>. QED BY <2>2, <3>1, <1>3, PieceRemoved DEF ReceivedPiece, PickerInv, CountsExact
  <2>. QED BY <2>1, <2>2
<1>6. CountsExact'
  BY <1>4, <1>5 DEF CountsExact
<1>7. TypeOK'
  BY <1>4, <1>5 DEF ReceivedPiece, PickerInv, TypeOK
<1>. QED BY <1>6, <1>7 DEF PickerInv

(* The inductive invariant of the picker.                                  *)
THEOREM PickerInvariant == Spec => []PickerInv
<1>1. Init => PickerInv
  <2>. SUFFICES ASSUME NEW own \in {{}, Pieces}, New(own)
                PROVE  PickerInv
    BY DEF Init
  <2>. QED BY NewPicker
<1>2. PickerInv /\ [Next]_pickerVars => PickerInv'
  <2>. SUFFICES ASSUME PickerInv, [Next]_pickerVars
                PROVE  PickerInv'
    OBVIOUS
  <2>1. ASSUME NEW pieces \in SUBSET Pieces, RegisterPeerPieces(pieces)
        PROVE  PickerInv'
    BY <2>1, RegisterKeepsInv
  <2>2. ASSUME NEW i \in Pieces, RegisterPeerPiece(i)
        PROVE  PickerInv'
    BY <2>2, RegisterKeepsInv
  <2>3. ASSUME NEW i \in Pieces, PickPiece(i)
        PROVE  PickerInv'
    BY <2>3, PickKeepsInv
  <2>4. ASSUME NEW i \in Pieces, ReceivedPiece(i)
        PROVE  PickerInv'
    BY <2>4, ReceiveKeepsInv
  <2>5. CASE UNCHANGED pickerVars
    BY <2>5 DEF pickerVars, PickerInv, TypeOK, CountsExact, Missing, Free
  <2>. QED BY <2>1, <2>2, <2>3, <2>4, <2>5 DEF Next
<1>. QED BY <1>1, <1>2, PTL DEF Spec

(* No order of calls makes a counter negative: the code's are unsigned.    *)
THEOREM PickerTypeOK == Spec => []TypeOK
<1>1. PickerInv => TypeOK
  BY DEF PickerInv
<1>. QED BY <1>1, PickerInvariant, PTL

(* The cached counters of the picker always equal what they cache, so the  *)
(* end of the download and endgame are detected exactly when they occur.   *)
THEOREM PickerCountsExact == Spec => []CountsExact
<1>1. PickerInv => CountsExact
  BY DEF PickerInv
<1>. QED BY <1>1, PickerInvariant, PTL

(* A piece that pick_piece handed out is never handed out a second time.   *)
THEOREM PickerPicksOnce == Spec => PickedOnce
<1>1. [Next]_pickerVars =>
        [Free' \subseteq Free /\ (is_pending' \ is_pending) \subseteq Free]_pickerVars
  BY DEF Next, pickerVars, Free, Missing, RegisterPeerPieces, RegisterPeerPiece,
         PickPiece, IsFirstPickable, Pickable, ReceivedPiece
<1>. QED BY <1>1, PTL DEF Spec, PickedOnce
=============================================================================
