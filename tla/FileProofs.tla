----------------------------- MODULE FileProofs ------------------------------
(***************************************************************************)
(* Proofs about the bytes of a torrent: where they are, how buffers are    *)
(* split and consumed, and what writing and reading a piece does, for      *)
(* torrents of any files and pieces and transfers of any length.           *)
(* Sums and buffers are data, about which there is no induction here:      *)
(* RangeInduction takes its place, over the positions of a sequence.       *)
(***************************************************************************)
EXTENDS FileIO, Basics

-----------------------------------------------------------------------------
(* Buffers.                                                                *)

Buffers == [ptr : Nat, len : Nat]

\* The first p buffers are one behind the other, the first one at an address.
Row(bufs, p, from) ==
  /\ p > 0 => bufs[1].ptr = from
  /\ \A k \in 2 .. p : bufs[k].ptr = EndOf(bufs[k - 1])

(* The lengths of buffers add up from nothing, and never down.             *)
LEMMA LenUpToDef ==
  ASSUME NEW bufs \in Seq(Buffers)
  PROVE  /\ \A k \in 0 .. Len(bufs) : LenUpTo(bufs, k) \in Nat
         /\ LenUpTo(bufs, 0) = 0
         /\ \A k \in 1 .. Len(bufs) : LenUpTo(bufs, k) = LenUpTo(bufs, k - 1) + bufs[k].len
         /\ \A i \in 0 .. Len(bufs) : \A j \in i .. Len(bufs) : LenUpTo(bufs, i) <= LenUpTo(bufs, j)
<1>. DEFINE lens == [j \in DOMAIN bufs |-> bufs[j].len]
<1>1. lens \in Seq(Nat) /\ Len(lens) = Len(bufs) /\ \A k \in 1 .. Len(bufs) : lens[k] = bufs[k].len
  <2>1. DOMAIN bufs = 1 .. Len(bufs) /\ Len(bufs) \in Nat /\ \A k \in 1 .. Len(bufs) : bufs[k] \in Buffers
    OBVIOUS
  <2>2. \A k \in 1 .. Len(bufs) : bufs[k].len \in Nat
    BY <2>1 DEF Buffers
  <2>. QED BY <2>1, <2>2
<1>2. \A k : LenUpTo(bufs, k) = PartialSums(lens)[k]
  BY DEF LenUpTo
<1>. HIDE DEF lens
<1>3. \A k \in 0 .. Len(bufs) : LenUpTo(bufs, k) \in Nat
  <2>1. PartialSums(lens) \in [0 .. Len(bufs) -> Nat]
    BY <1>1, PartialSumsDef
  <2>. QED BY <1>2, <2>1
<1>4. LenUpTo(bufs, 0) = 0
  BY <1>1, <1>2, PartialSumsDef
<1>5. \A k \in 1 .. Len(bufs) : LenUpTo(bufs, k) = LenUpTo(bufs, k - 1) + bufs[k].len
  BY <1>1, <1>2, PartialSumsDef
<1>6. \A i \in 0 .. Len(bufs) : \A j \in i .. Len(bufs) : LenUpTo(bufs, i) <= LenUpTo(bufs, j)
  BY <1>1, <1>2, PartialSumsGrow
<1>. QED BY <1>3, <1>4, <1>5, <1>6

(* In a row, the bytes before a buffer are those from the first address.   *)
LEMMA RowSums ==
  ASSUME NEW bufs \in Seq(Buffers), NEW p \in 0 .. Len(bufs), NEW from \in Nat, Row(bufs, p, from)
  PROVE  \A k \in 1 .. p : /\ bufs[k].ptr = from + LenUpTo(bufs, k - 1)
                           /\ EndOf(bufs[k]) = from + LenUpTo(bufs, k)
<1>. DEFINE placed == {k \in 1 .. p : bufs[k].ptr = from + LenUpTo(bufs, k - 1)}
<1>1. ASSUME NEW k \in 1 .. p
      PROVE  /\ bufs[k].ptr \in Nat /\ bufs[k].len \in Nat
             /\ LenUpTo(bufs, k - 1) \in Nat /\ LenUpTo(bufs, k) \in Nat
             /\ LenUpTo(bufs, k) = LenUpTo(bufs, k - 1) + bufs[k].len
             /\ EndOf(bufs[k]) = bufs[k].ptr + bufs[k].len
  <2>1. bufs[k] \in Buffers /\ k \in 1 .. Len(bufs) /\ k \in 0 .. Len(bufs) /\ k - 1 \in 0 .. Len(bufs)
    OBVIOUS
  <2>. QED BY <2>1, LenUpToDef DEF Buffers, EndOf
<1>2. ASSUME p > 0
      PROVE  1 \in placed
  BY <1>2, LenUpToDef DEF Row
<1>3. ASSUME NEW k \in 1 .. p - 1, k \in placed
      PROVE  k + 1 \in placed
  <2>1. k \in 1 .. p /\ k + 1 \in 2 .. p /\ k + 1 \in 1 .. p /\ (k + 1) - 1 = k
    OBVIOUS
  <2>2. bufs[k + 1].ptr = EndOf(bufs[k])
    BY <2>1 DEF Row
  <2>3. EndOf(bufs[k]) = from + LenUpTo(bufs, k)
    <3>1. bufs[k].ptr = from + LenUpTo(bufs, k - 1)
      BY <1>3
    <3>2. /\ bufs[k].len \in Nat /\ LenUpTo(bufs, k - 1) \in Nat
          /\ LenUpTo(bufs, k) = LenUpTo(bufs, k - 1) + bufs[k].len
          /\ EndOf(bufs[k]) = bufs[k].ptr + bufs[k].len
      BY <1>1, <2>1
    <3>. QED BY <3>1, <3>2
  <2>. QED BY <2>1, <2>2, <2>3
<1>4. \A k \in 1 .. p : k \in placed
  <2>1. CASE p = 0
    BY <2>1
  <2>2. CASE p > 0
    <3>1. 1 \in Int /\ p \in Int
      OBVIOUS
    <3>. HIDE DEF placed
    <3>. QED BY <1>2, <1>3, <2>2, <3>1, RangeInduction
  <2>. QED BY <2>1, <2>2
<1>5. ASSUME NEW k \in 1 .. p
      PROVE  /\ bufs[k].ptr = from + LenUpTo(bufs, k - 1)
             /\ EndOf(bufs[k]) = from + LenUpTo(bufs, k)
  <2>1. bufs[k].ptr = from + LenUpTo(bufs, k - 1)
    BY <1>4
  <2>2. /\ bufs[k].len \in Nat /\ LenUpTo(bufs, k - 1) \in Nat
        /\ LenUpTo(bufs, k) = LenUpTo(bufs, k - 1) + bufs[k].len
        /\ EndOf(bufs[k]) = bufs[k].ptr + bufs[k].len
    BY <1>1
  <2>. QED BY <2>1, <2>2
<1>. QED BY <1>5

(* The first n bytes fill as many buffers as the lengths up to n say.      *)
LEMMA FilledIs ==
  ASSUME NEW bufs \in Seq(Buffers), NEW n \in Nat
  PROVE  /\ FilledBy(bufs, n) \in 0 .. Len(bufs) /\ LenUpTo(bufs, FilledBy(bufs, n)) <= n
         /\ FilledBy(bufs, n) < Len(bufs) => n < LenUpTo(bufs, FilledBy(bufs, n) + 1)
<1>. DEFINE filled == {k \in 0 .. Len(bufs) : LenUpTo(bufs, k) <= n}
            w == FilledBy(bufs, n)
<1>1. Len(bufs) \in Nat /\ Len(bufs) \in Int /\ filled \subseteq Int /\ \A k \in filled : k <= Len(bufs)
  OBVIOUS
<1>2. 0 \in filled
  BY LenUpToDef
<1>3. \E k \in filled : \A j \in filled : j <= k
  <2>. HIDE DEF filled
  <2>. QED BY <1>1, <1>2, GreatestNumber
<1>4. w \in filled /\ \A j \in filled : j <= w
  BY <1>3, Zenon DEF FilledBy
<1>5. ASSUME w < Len(bufs), ~ (n < LenUpTo(bufs, w + 1))
      PROVE  FALSE
  <2>1. w + 1 \in 0 .. Len(bufs) /\ w \in Nat
    BY <1>1, <1>4, <1>5
  <2>2. LenUpTo(bufs, w + 1) \in Nat
    BY <2>1, LenUpToDef
  <2>3. w + 1 \in filled
    BY <1>5, <2>1, <2>2
  <2>. HIDE DEF w, filled
  <2>. QED BY <1>4, <2>1, <2>3
<1>. HIDE DEF w
<1>6. w \in 0 .. Len(bufs) /\ LenUpTo(bufs, w) <= n
  BY <1>4
<1>7. w < Len(bufs) => n < LenUpTo(bufs, w + 1)
  BY <1>5
<1>. QED BY <1>6, <1>7 DEF w

(* The front of a row is a row.                                            *)
LEMMA RowFront ==
  ASSUME NEW bufs \in Seq(Buffers), NEW p \in 0 .. Len(bufs), NEW from \in Nat, Row(bufs, p, from)
  PROVE  LET front == SubSeq(bufs, 1, p)
         IN /\ front \in Seq(Buffers) /\ Len(front) = p /\ Row(front, p, from)
            /\ \A k \in 1 .. p : front[k] = bufs[k]
            /\ \A k \in 0 .. p : LenUpTo(front, k) = LenUpTo(bufs, k)
<1>. DEFINE front == SubSeq(bufs, 1, p)
<1>1. /\ front \in Seq(Buffers) /\ Len(front) = p /\ p \in Nat
      /\ \A k \in 1 .. p : front[k] = bufs[k]
  OBVIOUS
<1>. HIDE DEF front
<1>2. Row(front, p, from)
  BY SMTT(30), <1>1 DEF Row
<1>3. ASSUME NEW k \in 0 .. p
      PROVE  LenUpTo(front, k) = LenUpTo(bufs, k)
  <2>1. CASE k = 0
    BY <1>1, <2>1, LenUpToDef
  <2>2. CASE k \in 1 .. p
    <3>1. EndOf(bufs[k]) = from + LenUpTo(bufs, k)
      BY <2>2, RowSums
    <3>2. EndOf(front[k]) = from + LenUpTo(front, k)
      <4>1. p \in 0 .. Len(front)
        BY <1>1
      <4>. QED BY <1>1, <1>2, <2>2, <4>1, RowSums
    <3>3. LenUpTo(front, k) \in Nat /\ LenUpTo(bufs, k) \in Nat
      BY <1>1, LenUpToDef
    <3>4. front[k] = bufs[k]
      BY <1>1, <2>2
    <3>. QED BY <3>1, <3>2, <3>3, <3>4
  <2>. QED BY <1>1, <2>1, <2>2
<1>. QED BY <1>1, <1>2, <1>3 DEF front

\* Buffers with bytes in them, which are those from one address to another.
Filling(bufs, from, to) ==
  bufs \in Seq(Buffers) /\ Hold(bufs, from, to) /\ \A k \in 1 .. Len(bufs) : bufs[k].len > 0

(* Together they are as long as from the one to the other, and a byte is   *)
(* as far from the first address as from the first byte.                   *)
LEMMA FillingSums ==
  ASSUME NEW bufs \in Seq(Buffers), NEW from \in Nat, NEW to \in Nat, Hold(bufs, from, to)
  PROVE  /\ Row(bufs, Len(bufs), from) /\ Len(bufs) \in Nat /\ from <= to /\ LenOf(bufs) = to - from
         /\ \A i \in 0 .. (to - from) - 1 : Address(bufs, i) = from + i
<1>1. Row(bufs, Len(bufs), from) /\ Len(bufs) \in Nat /\ Len(bufs) \in 0 .. Len(bufs)
  BY DEF Hold, Row
<1>2. LenOf(bufs) = to - from /\ from <= to
  <2>1. CASE bufs = <<>>
    <3>1. from = to /\ Len(bufs) = 0
      BY <2>1 DEF Hold
    <3>2. LenOf(bufs) = 0
      BY <3>1, LenUpToDef DEF LenOf
    <3>. QED BY <3>1, <3>2
  <2>2. CASE bufs # <<>>
    <3>1. Len(bufs) \in 1 .. Len(bufs) /\ LenUpTo(bufs, Len(bufs)) \in Nat
      BY <1>1, <2>2, LenUpToDef
    <3>2. EndOf(bufs[Len(bufs)]) = from + LenUpTo(bufs, Len(bufs))
      BY <1>1, <3>1, RowSums
    <3>3. EndOf(bufs[Len(bufs)]) = to
      BY <2>2 DEF Hold
    <3>4. LenOf(bufs) = LenUpTo(bufs, Len(bufs))
      BY DEF LenOf
    <3>. QED BY <3>1, <3>2, <3>3, <3>4
  <2>. QED BY <2>1, <2>2
<1>3. ASSUME NEW i \in 0 .. (to - from) - 1
      PROVE  Address(bufs, i) = from + i
  <2>. DEFINE w == FilledBy(bufs, i)
              here(k) == LenUpTo(bufs, k - 1) <= i /\ i < LenUpTo(bufs, k)
              k == CHOOSE k \in DOMAIN bufs : here(k)
  <2>1. i \in Nat /\ i < to - from
    BY <1>2
  <2>2. w \in 0 .. Len(bufs) /\ LenUpTo(bufs, w) <= i /\ (w < Len(bufs) => i < LenUpTo(bufs, w + 1))
    BY <2>1, FilledIs
  <2>. HIDE DEF w
  <2>3. w < Len(bufs)
    BY <1>1, <1>2, <2>1, <2>2 DEF LenOf
  <2>4. w + 1 \in DOMAIN bufs /\ (w + 1) - 1 = w
    BY <1>1, <2>2, <2>3
  <2>5. k \in DOMAIN bufs /\ here(k)
    BY <2>2, <2>3, <2>4
  <2>6. Address(bufs, i) = bufs[k].ptr + (i - LenUpTo(bufs, k - 1))
    BY DEF Address
  <2>. HIDE DEF k
  <2>7. k \in 1 .. Len(bufs) /\ k - 1 \in 0 .. Len(bufs)
    BY <2>5
  <2>8. bufs[k].ptr = from + LenUpTo(bufs, k - 1) /\ LenUpTo(bufs, k - 1) \in Nat
    BY <1>1, <2>7, RowSums, LenUpToDef
  <2>. QED BY <2>1, <2>6, <2>8
<1>. QED BY <1>1, <1>2, <1>3

-----------------------------------------------------------------------------
(* Split buffers.                                                          *)

IoVecsRecords == [bufs : Seq(Buffers), pos : Nat, clean : BOOLEAN, second_half : Buffers]

\* Where the bytes before buffer k end: those cut off at the split are behind
\* the buffer they were cut off.
EndBefore(v, k) == IF k = v.pos + 1 /\ ~ v.clean THEN EndOf(v.second_half) ELSE EndOf(v.bufs[k - 1])

\* Both halves: one fills the bytes to a limit, the other those from there.
\* Only a buffer that the first half ends with may be empty.
Halved(v, from, limit, to) ==
  /\ v \in IoVecsRecords /\ v.pos <= Len(v.bufs)
  /\ IF v.pos = 0 THEN v.clean /\ limit = to ELSE EndOf(v.bufs[v.pos]) = limit
  /\ ~ v.clean => v.second_half.ptr = limit /\ v.second_half.len > 0
  /\ IF v.bufs = <<>> THEN from = to
     ELSE v.bufs[1].ptr = from /\ EndBefore(v, Len(v.bufs) + 1) = to
  /\ \A k \in 2 .. Len(v.bufs) : v.bufs[k].ptr = EndBefore(v, k)
  /\ \A k \in 1 .. Len(v.bufs) : v.bufs[k].len = 0 => k = 1 /\ v.pos = 1

(* The fields of split buffers.                                            *)
LEMMA IoVecsFields ==
  ASSUME NEW v \in IoVecsRecords
  PROVE  v.bufs \in Seq(Buffers) /\ v.pos \in Nat /\ v.clean \in BOOLEAN /\ v.second_half \in Buffers
BY DEF IoVecsRecords

(* A buffer of a sequence.                                                 *)
LEMMA BufferFields ==
  ASSUME NEW bufs \in Seq(Buffers), NEW k \in 1 .. Len(bufs)
  PROVE  /\ bufs[k] \in Buffers /\ bufs[k].ptr \in Nat /\ bufs[k].len \in Nat
         /\ EndOf(bufs[k]) \in Nat /\ EndOf(bufs[k]) = bufs[k].ptr + bufs[k].len
<1>1. bufs[k] \in Buffers
  OBVIOUS
<1>. QED BY <1>1 DEF Buffers, EndOf

(* What as_slice shows is the front of the buffers, up to the limit.       *)
LEMMA FirstHalf ==
  ASSUME NEW v, NEW from \in Nat, NEW limit \in Nat, NEW to \in Nat, Halved(v, from, limit, to)
  PROVE  LET n == Len(as_slice(v))
         IN /\ Filling(as_slice(v), from, limit) /\ as_slice(v) = SubSeq(v.bufs, 1, n)
            /\ n \in 0 .. Len(v.bufs) /\ Row(v.bufs, n, from)
            /\ n = IF v.pos = 0 THEN Len(v.bufs) ELSE IF as_slice(v) = <<>> THEN 0 ELSE v.pos
<1>1. /\ v.bufs \in Seq(Buffers) /\ v.pos \in 0 .. Len(v.bufs) /\ v.pos \in Nat
      /\ Len(v.bufs) \in Nat /\ v.clean \in BOOLEAN
  BY IoVecsFields DEF Halved
<1>. DEFINE p == IF v.pos = 0 THEN Len(v.bufs) ELSE v.pos
<1>2. p \in 0 .. Len(v.bufs) /\ Row(v.bufs, p, from)
  <2>1. ASSUME NEW k \in 2 .. p
        PROVE  v.bufs[k].ptr = EndOf(v.bufs[k - 1])
    BY <1>1 DEF Halved, EndBefore
  <2>2. p > 0 => v.bufs[1].ptr = from
    BY <1>1 DEF Halved
  <2>. HIDE DEF p
  <2>3. Row(v.bufs, p, from)
    BY <2>1, <2>2 DEF Row
  <2>. QED BY <1>1, <2>3 DEF p
<1>3. p > 0 => EndOf(v.bufs[p]) = limit
  BY <1>1 DEF Halved, EndBefore
<1>4. p = 0 => from = limit
  BY <1>1 DEF Halved
<1>5. CASE as_slice(v) = <<>>
  <2>1. p = 0 \/ (v.pos = 1 /\ p = 1 /\ v.bufs[1].len = 0)
    BY <1>1, <1>5 DEF as_slice
  <2>2. from = limit
    <3>1. CASE p = 0
      BY <1>4, <3>1
    <3>2. CASE p # 0
      <4>1. p = 1 /\ v.bufs[1].len = 0 /\ v.bufs[1].ptr = from /\ EndOf(v.bufs[1]) = limit
        BY <1>1, <1>3, <2>1, <3>2 DEF Halved
      <4>. QED BY <4>1 DEF EndOf
    <3>. QED BY <3>1, <3>2
  <2>3. Filling(<<>>, from, limit)
    BY <2>2 DEF Filling, Hold
  <2>4. SubSeq(v.bufs, 1, 0) = <<>> /\ Row(v.bufs, 0, from) /\ Len(<<>>) = 0
    BY DEF Row
  <2>5. v.pos = 0 => Len(v.bufs) = 0
    BY <1>1, <2>1
  <2>. QED BY <1>1, <1>5, <2>3, <2>4, <2>5
<1>6. CASE as_slice(v) # <<>>
  <2>1. as_slice(v) = SubSeq(v.bufs, 1, p)
    BY <1>1, <1>6 DEF as_slice
  <2>2. p = 1 /\ v.pos = 1 => v.bufs[1].len # 0
    BY <1>1, <1>6 DEF as_slice
  <2>. HIDE DEF p
  <2>3. /\ as_slice(v) \in Seq(Buffers) /\ Len(as_slice(v)) = p /\ Row(as_slice(v), p, from)
        /\ \A k \in 1 .. p : as_slice(v)[k] = v.bufs[k]
    BY <1>1, <1>2, <2>1, RowFront
  <2>4. p > 0
    BY <1>2, <1>6, <2>3
  <2>5. Hold(as_slice(v), from, limit)
    BY <1>2, <1>3, <1>6, <2>3, <2>4 DEF Hold, Row
  <2>6. \A k \in 1 .. p : as_slice(v)[k].len > 0
    <3>1. ASSUME NEW k \in 1 .. p
          PROVE  v.bufs[k].len \in Nat /\ v.bufs[k].len # 0
      <4>1. k \in 1 .. Len(v.bufs) /\ k <= p
        BY <1>1, <1>2
      <4>2. v.bufs[k].len = 0 => k = 1 /\ v.pos = 1
        BY <4>1 DEF Halved
      <4>3. k = 1 /\ v.pos = 1 => p = 1
        BY DEF p
      <4>. QED BY <1>1, <2>2, <4>1, <4>2, <4>3, BufferFields
    <3>. QED BY <2>3, <3>1
  <2>. QED BY <1>1, <1>2, <1>6, <2>1, <2>3, <2>5, <2>6 DEF Filling, p
<1>. QED BY <1>5, <1>6

(* Buffers with bytes in them have some, unless there are no buffers.      *)
LEMMA FillingSome ==
  ASSUME NEW bufs, NEW from \in Nat, NEW to \in Nat, Filling(bufs, from, to)
  PROVE  bufs # <<>> <=> from < to
<1>1. bufs \in Seq(Buffers) /\ Len(bufs) \in Nat /\ LenOf(bufs) = to - from
  BY FillingSums DEF Filling
<1>2. CASE bufs = <<>>
  BY <1>2 DEF Filling, Hold
<1>3. CASE bufs # <<>>
  <2>1. 1 \in 1 .. Len(bufs) /\ 0 \in 0 .. Len(bufs) /\ 1 \in 0 .. Len(bufs) /\ Len(bufs) \in 1 .. Len(bufs)
    BY <1>1, <1>3
  <2>2. bufs[1].len \in Nat /\ bufs[1].len > 0
    BY <1>1, <2>1, BufferFields DEF Filling
  <2>3. LenUpTo(bufs, 1) = 0 + bufs[1].len
    <3>1. 1 - 1 = 0
      OBVIOUS
    <3>. QED BY <1>1, <2>1, <3>1, LenUpToDef
  <2>4. LenUpTo(bufs, 1) <= LenUpTo(bufs, Len(bufs)) /\ LenUpTo(bufs, Len(bufs)) \in Nat
    BY <1>1, <2>1, LenUpToDef
  <2>. QED BY <1>1, <1>3, <2>2, <2>3, <2>4 DEF LenOf
<1>. QED BY <1>2, <1>3

(* What is left of a sequence without its first elements.                  *)
LEMMA SkipIs ==
  ASSUME NEW S, NEW q \in Seq(S), NEW n \in 0 .. Len(q)
  PROVE  /\ Skip(q, n) \in Seq(S) /\ Len(Skip(q, n)) = Len(q) - n /\ Len(q) - n \in Nat
         /\ \A k \in 1 .. Len(q) - n : Skip(q, n)[k] = q[k + n]
<1>1. Len(q) \in Nat
  OBVIOUS
<1>. QED BY <1>1 DEF Skip

(* What into_tail gives back: the bytes from the limit, or, after a split  *)
(* at the end of a buffer, from the beginning of that buffer.              *)
LEMMA SecondHalf ==
  ASSUME NEW v, NEW from \in Nat, NEW limit \in Nat, NEW to \in Nat, Halved(v, from, limit, to)
  PROVE  LET tail == into_tail(v)
         IN /\ tail \in Seq(Buffers)
            /\ Hold(tail, IF v.clean /\ v.pos > 0 THEN v.bufs[v.pos].ptr ELSE limit, to)
            /\ \A k \in 1 .. Len(tail) : tail[k].len = 0 => v.pos = 1 /\ v.bufs[1].len = 0
            /\ \A k \in 1 .. Len(tail) : \E j \in 1 .. Len(v.bufs) : EndOf(tail[k]) = EndBefore(v, j + 1)
<1>1. /\ v.bufs \in Seq(Buffers) /\ v.pos \in 0 .. Len(v.bufs) /\ v.pos \in Nat
      /\ Len(v.bufs) \in Nat /\ v.clean \in BOOLEAN /\ v.second_half \in Buffers
  BY IoVecsFields DEF Halved
<1>2. CASE v.pos = 0
  <2>1. into_tail(v) = <<>> /\ limit = to /\ Len(<<>>) = 0
    BY <1>2 DEF into_tail, Halved
  <2>. QED BY <1>2, <2>1 DEF Hold
<1>3. CASE v.pos > 0
  <2>. DEFINE whole == IF v.clean THEN v.bufs ELSE [v.bufs EXCEPT ![v.pos] = v.second_half]
              tail == into_tail(v)
              n == Len(v.bufs)
  <2>1. /\ whole \in Seq(Buffers) /\ Len(whole) = n
        /\ \A k \in 1 .. n : whole[k] = IF k = v.pos /\ ~ v.clean THEN v.second_half ELSE v.bufs[k]
    BY <1>1, <1>3
  <2>2. tail = Skip(whole, v.pos - 1)
    BY <1>3 DEF into_tail
  <2>. HIDE DEF whole, tail, n
  <2>3. n \in Nat /\ v.pos \in Nat /\ 1 <= v.pos /\ v.pos <= n
    BY <1>1, <1>3 DEF n
  <2>4. whole \in Seq(Buffers) /\ Len(whole) = n
    BY <2>1
  <2>5. /\ v.pos - 1 \in 0 .. Len(whole) /\ tail \in Seq(Buffers) /\ Len(tail) = n - (v.pos - 1)
        /\ \A k \in 1 .. n - (v.pos - 1) : tail[k] = whole[k + (v.pos - 1)]
    <3>1. v.pos - 1 \in 0 .. Len(whole)
      BY <2>3, <2>4
    <3>2. /\ Skip(whole, v.pos - 1) \in Seq(Buffers)
          /\ Len(Skip(whole, v.pos - 1)) = Len(whole) - (v.pos - 1)
          /\ \A k \in 1 .. Len(whole) - (v.pos - 1) : Skip(whole, v.pos - 1)[k] = whole[k + (v.pos - 1)]
      BY ZenonT(60), <2>4, <3>1, SkipIs
    <3>. QED BY <2>1, <2>2, <3>1, <3>2
  <2>6. \A k \in v.pos .. n : EndOf(whole[k]) = EndBefore(v, k + 1)
    BY SMTT(30), <1>1, <1>3, <2>1 DEF EndBefore
  <2>7. Hold(tail, IF v.clean THEN v.bufs[v.pos].ptr ELSE limit, to)
    <3>1. Len(tail) >= 1 /\ tail # <<>> /\ tail[1] = whole[v.pos] /\ tail[Len(tail)] = whole[n]
      <4>1. /\ 1 \in 1 .. n - (v.pos - 1) /\ n - (v.pos - 1) \in 1 .. n - (v.pos - 1)
            /\ 1 + (v.pos - 1) = v.pos /\ (n - (v.pos - 1)) + (v.pos - 1) = n
        BY <2>3
      <4>2. Len(tail) = n - (v.pos - 1) /\ Len(tail) >= 1
        BY <2>5, <4>1
      <4>3. tail # <<>>
        BY <4>2
      <4>. QED BY <2>5, <4>1, <4>2, <4>3
    <3>2. tail[1].ptr = IF v.clean THEN v.bufs[v.pos].ptr ELSE limit
      <4>1. whole[v.pos] = IF ~ v.clean THEN v.second_half ELSE v.bufs[v.pos]
        BY <2>1, <2>3
      <4>2. ~ v.clean => v.second_half.ptr = limit
        BY DEF Halved
      <4>. QED BY <3>1, <4>1, <4>2
    <3>3. EndOf(tail[Len(tail)]) = to
      <4>1. v.bufs # <<>> /\ n \in v.pos .. n
        BY <1>1, <1>3 DEF n
      <4>. QED BY <2>6, <3>1, <4>1 DEF Halved, n
    <3>4. ASSUME NEW k \in 2 .. Len(tail)
          PROVE  tail[k].ptr = EndOf(tail[k - 1])
      <4>. DEFINE j == k + (v.pos - 1)
      <4>1. /\ j \in 2 .. n /\ j > v.pos /\ j - 1 \in v.pos .. n /\ j \in 1 .. n /\ (j - 1) + 1 = j
            /\ k \in 1 .. n - (v.pos - 1) /\ k - 1 \in 1 .. n - (v.pos - 1)
            /\ (k - 1) + (v.pos - 1) = j - 1
        <5>1. Len(tail) = n - (v.pos - 1)
          BY <2>5
        <5>2. k \in Int /\ 2 <= k /\ k <= n - (v.pos - 1)
          BY <5>1
        <5>3. j \in Int /\ j = k + (v.pos - 1) /\ j > v.pos /\ j >= 2 /\ j <= n
          BY SMTT(30), <2>3, <5>2
        <5>. HIDE DEF j
        <5>4. (k - 1) + (v.pos - 1) = j - 1 /\ (j - 1) + 1 = j /\ j - 1 \in v.pos .. n
          BY SMTT(30), <2>3, <5>2, <5>3
        <5>5. j \in 2 .. n /\ j \in 1 .. n
          BY <2>3, <5>3
        <5>6. k \in 1 .. n - (v.pos - 1) /\ k - 1 \in 1 .. n - (v.pos - 1)
          BY <2>3, <5>2
        <5>. QED BY <5>3, <5>4, <5>5, <5>6
      <4>2. tail[k] = whole[j] /\ tail[k - 1] = whole[j - 1]
        BY <2>5, <4>1
      <4>. HIDE DEF j
      <4>3. whole[j] = v.bufs[j]
        BY <1>1, <2>1, <4>1
      <4>4. v.bufs[j].ptr = EndBefore(v, j)
        BY <4>1 DEF Halved, n
      <4>. QED BY <2>6, <4>1, <4>2, <4>3, <4>4
    <3>. QED BY <3>1, <3>2, <3>3, <3>4 DEF Hold
  <2>8. ASSUME NEW k \in 1 .. Len(tail)
        PROVE  /\ tail[k].len = 0 => v.pos = 1 /\ v.bufs[1].len = 0
               /\ \E j \in 1 .. n : EndOf(tail[k]) = EndBefore(v, j + 1)
    <3>. DEFINE j == k + (v.pos - 1)
    <3>1. j \in 1 .. n /\ j \in v.pos .. n /\ tail[k] = whole[j]
      <4>1. k \in 1 .. n - (v.pos - 1)
        BY <2>5
      <4>2. k \in Int /\ 1 <= k /\ k <= n - (v.pos - 1)
        BY <4>1
      <4>3. j \in 1 .. n /\ j \in v.pos .. n
        BY <2>3, <4>2
      <4>. QED BY <2>5, <4>1, <4>3
    <3>. HIDE DEF j
    <3>2. EndOf(tail[k]) = EndBefore(v, j + 1)
      BY <2>6, <3>1
    <3>3. tail[k].len = 0 => v.pos = 1 /\ v.bufs[1].len = 0
      <4>1. CASE j = v.pos /\ ~ v.clean
        BY <2>1, <3>1, <4>1 DEF Halved
      <4>2. CASE ~ (j = v.pos /\ ~ v.clean)
        <5>1. tail[k] = v.bufs[j]
          BY <2>1, <3>1, <4>2
        <5>. QED BY <3>1, <5>1 DEF Halved, n
      <4>. QED BY <4>1, <4>2
    <3>. QED BY <3>1, <3>2, <3>3
  <2>. QED BY <1>3, <2>5, <2>7, <2>8 DEF tail, n
<1>. QED BY <1>1, <1>2, <1>3

(* bounded splits the bytes at the limit, if there are more, and no buffer *)
(* is without a byte then.                                                 *)
LEMMA BoundedHalves ==
  ASSUME NEW bufs, NEW from \in Nat, NEW to \in Nat, Filling(bufs, from, to), NEW n \in Nat \ {0}
  PROVE  LET v == bounded(bufs, n)
         IN /\ Halved(v, from, Least(from + n, to), to)
            /\ v.pos > 0 => from + n <= to
            /\ Len(v.bufs) = Len(bufs)
            /\ \A k \in 1 .. Len(bufs) : v.bufs[k].len > 0 /\ EndBefore(v, k + 1) = EndOf(bufs[k])
<1>. DEFINE v == bounded(bufs, n)
            last == Len(bufs)
            reaching == {k \in DOMAIN bufs : LenUpTo(bufs, k) >= n}
            p == CHOOSE k \in reaching : \A j \in reaching : k <= j
<1>1. /\ bufs \in Seq(Buffers) /\ last \in Nat /\ Row(bufs, last, from) /\ from <= to
      /\ LenUpTo(bufs, last) = to - from /\ DOMAIN bufs = 1 .. last
  BY FillingSums DEF Filling, LenOf
<1>2. ASSUME NEW k \in 1 .. last
      PROVE  /\ bufs[k].ptr \in Nat /\ bufs[k].len \in Nat /\ bufs[k].len > 0
             /\ EndOf(bufs[k]) = bufs[k].ptr + bufs[k].len /\ EndOf(bufs[k]) \in Nat
             /\ LenUpTo(bufs, k) = LenUpTo(bufs, k - 1) + bufs[k].len
             /\ bufs[k].ptr = from + LenUpTo(bufs, k - 1) /\ EndOf(bufs[k]) = from + LenUpTo(bufs, k)
             /\ LenUpTo(bufs, k) \in Nat /\ LenUpTo(bufs, k - 1) \in Nat
             /\ LenUpTo(bufs, k) <= to - from
  <2>1. k \in 0 .. last /\ k - 1 \in 0 .. last /\ last \in 0 .. last /\ last \in k .. last
    BY <1>1
  <2>2. bufs[k].ptr = from + LenUpTo(bufs, k - 1) /\ EndOf(bufs[k]) = from + LenUpTo(bufs, k)
    BY <1>1, <2>1, RowSums
  <2>3. /\ bufs[k].ptr \in Nat /\ bufs[k].len \in Nat /\ EndOf(bufs[k]) \in Nat
        /\ EndOf(bufs[k]) = bufs[k].ptr + bufs[k].len
    BY <1>1, BufferFields
  <2>4. /\ LenUpTo(bufs, k) \in Nat /\ LenUpTo(bufs, k - 1) \in Nat
        /\ LenUpTo(bufs, k) = LenUpTo(bufs, k - 1) + bufs[k].len
        /\ LenUpTo(bufs, k) <= LenUpTo(bufs, last)
    BY <1>1, <2>1, LenUpToDef
  <2>5. bufs[k].len > 0
    BY DEF Filling
  <2>. QED BY <1>1, <2>2, <2>3, <2>4, <2>5
<1>3. /\ \A k \in 2 .. last : bufs[k].ptr = EndOf(bufs[k - 1])
      /\ bufs = <<>> => from = to
      /\ bufs # <<>> => bufs[1].ptr = from /\ EndOf(bufs[last]) = to /\ last \in 1 .. last
  BY <1>1 DEF Filling, Hold
<1>4. NoBuffer \in Buffers
  BY DEF NoBuffer, Buffer, Buffers
<1>5. ASSUME v = unbounded(bufs), to <= from + n
      PROVE  Halved(v, from, to, to) /\ Least(from + n, to) = to
  <2>1. /\ v.bufs = bufs /\ v.pos = 0 /\ v.clean = TRUE /\ v.second_half = NoBuffer
        /\ v \in IoVecsRecords
    BY <1>1, <1>4, <1>5 DEF unbounded, IoVecsRecords
  <2>. HIDE DEF v
  <2>2. \A k : EndBefore(v, k) = EndOf(bufs[k - 1])
    BY <2>1 DEF EndBefore
  <2>3. EndBefore(v, last + 1) = EndOf(bufs[last])
    BY <1>1, <2>2
  <2>4. \A k \in 1 .. last : bufs[k].len # 0
    BY <1>2
  <2>. QED BY SMTT(30), <1>1, <1>3, <1>5, <2>1, <2>2, <2>3, <2>4 DEF Halved, Least
<1>6. ASSUME v = unbounded(bufs)
      PROVE  /\ v.pos = 0 /\ v.bufs = bufs
             /\ \A k \in 1 .. last : EndBefore(v, k + 1) = EndOf(bufs[k])
  <2>1. v.bufs = bufs /\ v.pos = 0 /\ v.clean = TRUE
    BY <1>6 DEF unbounded
  <2>. HIDE DEF v
  <2>. QED BY <1>1, <2>1 DEF EndBefore
<1>7. CASE reaching = {}
  <2>1. v = unbounded(bufs)
    BY <1>7 DEF bounded
  <2>2. to <= from + n
    <3>1. CASE bufs = <<>>
      BY <1>3, <3>1
    <3>2. CASE bufs # <<>>
      <4>1. last \in 1 .. last /\ last \notin reaching
        BY <1>3, <1>7, <3>2
      <4>2. ~ (LenUpTo(bufs, last) >= n)
        BY <1>1, <4>1
      <4>. QED BY <1>1, <4>2
    <3>. QED BY <3>1, <3>2
  <2>3. Halved(v, from, Least(from + n, to), to)
    BY <1>5, <2>1, <2>2
  <2>4. /\ v.pos = 0 /\ v.bufs = bufs
        /\ \A k \in 1 .. last : EndBefore(v, k + 1) = EndOf(bufs[k])
    BY <1>6, <2>1
  <2>. HIDE DEF v
  <2>. QED BY <1>2, <2>3, <2>4 DEF v
<1>8. CASE reaching # {}
  <2>1. \E k \in reaching : \A j \in reaching : k <= j
    <3>1. reaching \subseteq Nat
      BY <1>1
    <3>. HIDE DEF reaching
    <3>. QED BY <1>8, <3>1, LeastNumber
  <2>2. p \in reaching /\ \A j \in reaching : p <= j
    BY <2>1, Zenon
  <2>3. v = IF LenUpTo(bufs, p) > n THEN split_within_buffer(bufs, p, n - LenUpTo(bufs, p - 1))
            ELSE IF p = last THEN unbounded(bufs) ELSE split_at_buffer_boundary(bufs, p)
    BY <1>8 DEF bounded
  <2>. HIDE DEF p, v
  <2>4. p \in 1 .. last /\ LenUpTo(bufs, p) >= n
    BY <1>1, <2>2
  <2>5. LenUpTo(bufs, p - 1) < n
    <3>1. CASE p = 1
      BY <1>1, <3>1, LenUpToDef
    <3>2. CASE p # 1
      <4>1. p - 1 \in 1 .. last /\ ~ (p <= p - 1)
        BY <2>4, <3>2
      <4>2. p - 1 \notin reaching
        BY <2>2, <4>1
      <4>. QED BY <1>1, <1>2, <4>1, <4>2
    <3>. QED BY <3>1, <3>2
  <2>6. from + n <= to /\ Least(from + n, to) = from + n
    <3>1. LenUpTo(bufs, p) <= to - from /\ LenUpTo(bufs, p) \in Nat
      BY <1>2, <2>4
    <3>2. from + n <= to
      BY <2>4, <3>1
    <3>. QED BY <3>2 DEF Least
  <2>. DEFINE limit == from + n
              cut == n - LenUpTo(bufs, p - 1)
              b == bufs[p]
  <2>7. CASE LenUpTo(bufs, p) > n
    <3>1. /\ cut \in Nat /\ 0 < cut /\ cut < b.len /\ b.ptr \in Nat /\ b.len \in Nat
          /\ b.ptr + cut = limit /\ b.ptr + b.len = EndOf(b)
      <4>1. /\ b.ptr \in Nat /\ b.len \in Nat /\ EndOf(b) = b.ptr + b.len
            /\ LenUpTo(bufs, p) = LenUpTo(bufs, p - 1) + b.len
            /\ b.ptr = from + LenUpTo(bufs, p - 1)
            /\ LenUpTo(bufs, p) \in Nat /\ LenUpTo(bufs, p - 1) \in Nat
        BY <1>2, <2>4
      <4>. HIDE DEF b
      <4>. QED BY <2>5, <2>7, <4>1
    <3>. HIDE DEF cut
    <3>2. /\ Shrunk(b, cut) = [ptr |-> b.ptr, len |-> cut]
          /\ Advanced(b, cut) = [ptr |-> b.ptr + cut, len |-> b.len - cut]
      BY DEF Shrunk, Advanced, Buffer
    <3>3. /\ Shrunk(b, cut) \in Buffers /\ Shrunk(b, cut).ptr = b.ptr /\ Shrunk(b, cut).len = cut
          /\ EndOf(Shrunk(b, cut)) = limit
          /\ Advanced(b, cut) \in Buffers /\ Advanced(b, cut).ptr = limit
          /\ Advanced(b, cut).len > 0 /\ EndOf(Advanced(b, cut)) = EndOf(b)
      BY <3>1, <3>2 DEF Buffers, EndOf
    <3>4. /\ v.bufs = [bufs EXCEPT ![p] = Shrunk(b, cut)] /\ v.pos = p /\ v.clean = FALSE
          /\ v.second_half = Advanced(b, cut)
          /\ v = [bufs |-> v.bufs, pos |-> v.pos, clean |-> v.clean, second_half |-> v.second_half]
      BY <2>3, <2>7 DEF split_within_buffer, cut
    <3>5. /\ v.bufs \in Seq(Buffers) /\ Len(v.bufs) = last
          /\ \A k \in 1 .. last : v.bufs[k] = IF k = p THEN Shrunk(b, cut) ELSE bufs[k]
      BY <1>1, <2>4, <3>3, <3>4
    <3>6. v \in IoVecsRecords
      <4>1. p \in Nat
        BY <1>1, <2>4
      <4>. HIDE DEF b
      <4>. QED BY <3>3, <3>4, <3>5, <4>1 DEF IoVecsRecords
    <3>7. \A k \in 1 .. last : v.bufs[k].ptr = bufs[k].ptr /\ v.bufs[k].len > 0
      BY <1>2, <3>1, <3>3, <3>5
    <3>8. \A k \in 1 .. last : EndBefore(v, k + 1) = EndOf(bufs[k])
      <4>1. ASSUME NEW k \in 1 .. last, k = p
            PROVE  EndBefore(v, k + 1) = EndOf(bufs[k])
        BY <3>3, <3>4, <4>1 DEF EndBefore
      <4>2. ASSUME NEW k \in 1 .. last, k # p
            PROVE  EndBefore(v, k + 1) = EndOf(bufs[k])
        <5>1. k + 1 # p + 1 /\ (k + 1) - 1 = k
          BY <1>1, <2>4, <4>2
        <5>. QED BY <3>4, <3>5, <4>2, <5>1 DEF EndBefore
      <4>. QED BY <4>1, <4>2
    <3>9. ASSUME NEW k \in 2 .. last
          PROVE  v.bufs[k].ptr = EndBefore(v, k)
      <4>1. k \in 1 .. last /\ k - 1 \in 1 .. last /\ (k - 1) + 1 = k
        BY <1>1
      <4>. QED BY <1>3, <3>7, <3>8, <4>1
    <3>10. EndOf(v.bufs[p]) = limit
      BY <2>4, <3>3, <3>5
    <3>11. bufs # <<>> /\ v.bufs # <<>> /\ v.pos <= Len(v.bufs) /\ v.pos # 0 /\ 1 \in 1 .. last
      BY <1>1, <2>4, <3>4, <3>5
    <3>12. v.bufs[1].ptr = from /\ EndBefore(v, last + 1) = to
      BY <1>3, <3>7, <3>8, <3>11
    <3>13. Halved(v, from, limit, to)
      <4>1. \A k \in 1 .. Len(v.bufs) : v.bufs[k].len = 0 => FALSE
        BY <3>5, <3>7
      <4>. QED BY <3>3, <3>4, <3>5, <3>6, <3>9, <3>10, <3>11, <3>12, <4>1 DEF Halved
    <3>. QED BY <2>6, <3>5, <3>7, <3>8, <3>13 DEF v
  <2>8. CASE ~ (LenUpTo(bufs, p) > n) /\ p = last
    <3>1. v = unbounded(bufs)
      BY <2>3, <2>8
    <3>2. LenUpTo(bufs, p) \in Nat
      BY <1>2, <2>4
    <3>3. to = from + n
      BY <1>1, <2>4, <2>8, <3>2
    <3>4. Halved(v, from, to, to)
      BY <1>5, <3>1, <3>3 DEF v
    <3>5. /\ v.pos = 0 /\ v.bufs = bufs
          /\ \A k \in 1 .. last : EndBefore(v, k + 1) = EndOf(bufs[k])
      BY <1>6, <3>1 DEF v
    <3>. QED BY <1>2, <2>6, <3>3, <3>4, <3>5 DEF v
  <2>9. CASE ~ (LenUpTo(bufs, p) > n) /\ p # last
    <3>1. /\ v.bufs = bufs /\ v.pos = p /\ v.clean = TRUE /\ v.second_half = NoBuffer
          /\ v = [bufs |-> v.bufs, pos |-> v.pos, clean |-> v.clean, second_half |-> v.second_half]
      BY <2>3, <2>9 DEF split_at_buffer_boundary, unbounded
    <3>2. v \in IoVecsRecords
      <4>1. p \in Nat
        BY <1>1, <2>4
      <4>. QED BY <1>1, <1>4, <3>1, <4>1 DEF IoVecsRecords
    <3>3. EndOf(bufs[p]) = limit
      BY <1>2, <2>4, <2>9
    <3>4. \A k : EndBefore(v, k) = EndOf(bufs[k - 1])
      BY <3>1 DEF EndBefore
    <3>5. \A k \in 1 .. last : EndBefore(v, k + 1) = EndOf(bufs[k])
      BY <1>1, <3>4
    <3>6. bufs # <<>> /\ v.pos <= Len(v.bufs) /\ v.pos # 0
      BY <1>1, <2>4, <3>1
    <3>7. EndBefore(v, last + 1) = to
      BY <1>3, <3>5, <3>6
    <3>8. Halved(v, from, limit, to)
      <4>1. \A k \in 1 .. last : v.bufs[k].len = 0 => FALSE
        BY <1>2, <3>1
      <4>2. \A k \in 2 .. last : v.bufs[k].ptr = EndBefore(v, k)
        BY <1>3, <3>1, <3>4
      <4>3. v.bufs[1].ptr = from
        BY <1>3, <3>1, <3>6
      <4>. QED BY <3>1, <3>2, <3>3, <3>6, <3>7, <4>1, <4>2, <4>3 DEF Halved
    <3>. QED BY <1>2, <2>6, <3>1, <3>5, <3>8 DEF v
  <2>. QED BY <2>7, <2>8, <2>9
<1>. QED BY <1>7, <1>8

(* While the first half has bytes, no buffer is without.                   *)
LEMMA HalvedPositive ==
  ASSUME NEW v, NEW from \in Nat, NEW limit \in Nat, NEW to \in Nat, Halved(v, from, limit, to),
         from < limit \/ v.pos = 0
  PROVE  \A k \in 1 .. Len(v.bufs) : v.bufs[k].len \in Nat /\ v.bufs[k].len > 0
<1>1. v.bufs \in Seq(Buffers) /\ v.pos \in Nat
  BY IoVecsFields DEF Halved
<1>2. ASSUME NEW k \in 1 .. Len(v.bufs), v.bufs[k].len = 0
      PROVE  FALSE
  <2>1. k = 1 /\ v.pos = 1
    BY <1>2 DEF Halved
  <2>2. v.bufs # <<>>
    BY <1>1, <2>1
  <2>3. v.bufs[1].ptr = from /\ EndOf(v.bufs[1]) = limit /\ v.bufs[1].len = 0
    BY <1>2, <2>1, <2>2 DEF Halved
  <2>. QED BY <2>1, <2>3 DEF EndOf
<1>. QED BY <1>1, <1>2, BufferFields

(* advance drops what it is told to off the front of the first half.       *)
LEMMA AdvanceHalves ==
  ASSUME NEW v, NEW from \in Nat, NEW limit \in Nat, NEW to \in Nat, Halved(v, from, limit, to),
         NEW n \in Nat \ {0}, n <= limit - from
  PROVE  LET u == advance(v, n)
         IN Halved(u, from + n, limit, to) /\ u.clean = v.clean /\ (u.pos = 0 <=> v.pos = 0)
<1>. DEFINE slice == as_slice(v)
            q == Len(slice)
            last == Len(v.bufs)
            w == FilledBy(slice, n)
            r == IF w > 0 /\ w = v.pos THEN w - 1 ELSE w
            m == n - LenUpTo(v.bufs, r)
            u == advance(v, n)
<1>1. /\ v.bufs \in Seq(Buffers) /\ v.pos \in 0 .. last /\ v.pos \in Nat /\ last \in Nat
      /\ v.clean \in BOOLEAN /\ v.second_half \in Buffers /\ v \in IoVecsRecords
  BY IoVecsFields DEF Halved
<1>2. /\ slice \in Seq(Buffers) /\ slice # <<>> /\ q \in Nat \ {0} /\ q \in 1 .. last
      /\ q = IF v.pos = 0 THEN last ELSE v.pos
      /\ Row(v.bufs, q, from) /\ LenUpTo(slice, q) = limit - from
      /\ \A k \in 0 .. q : LenUpTo(slice, k) = LenUpTo(v.bufs, k)
  <2>1. /\ Filling(slice, from, limit) /\ slice = SubSeq(v.bufs, 1, q) /\ q \in 0 .. last
        /\ Row(v.bufs, q, from)
        /\ q = IF v.pos = 0 THEN last ELSE IF slice = <<>> THEN 0 ELSE v.pos
    BY FirstHalf
  <2>2. slice # <<>> /\ slice \in Seq(Buffers) /\ LenUpTo(slice, q) = limit - from
    <3>1. from < limit
      OBVIOUS
    <3>. QED BY <2>1, <3>1, FillingSome, FillingSums DEF Filling, LenOf
  <2>3. q \in Nat \ {0}
    BY <2>2
  <2>. HIDE DEF q, slice
  <2>4. \A k \in 0 .. q : LenUpTo(slice, k) = LenUpTo(v.bufs, k)
    BY <1>1, <2>1, RowFront
  <2>5. q = IF v.pos = 0 THEN last ELSE v.pos
    BY <2>1, <2>2
  <2>6. q \in 1 .. last
    <3>1. q \in 0 .. last /\ last \in Nat
      BY <1>1, <2>1
    <3>. HIDE DEF last
    <3>. QED BY <2>3, <3>1
  <2>. QED BY <2>1, <2>2, <2>3, <2>4, <2>5, <2>6
<1>3. /\ w \in 0 .. q /\ LenUpTo(v.bufs, w) <= n /\ (w < q => n < LenUpTo(v.bufs, w + 1))
      /\ LenUpTo(v.bufs, q) = limit - from
  <2>1. w \in 0 .. q /\ LenUpTo(slice, w) <= n /\ (w < q => n < LenUpTo(slice, w + 1))
    BY <1>2, FilledIs
  <2>. HIDE DEF w, q, slice
  <2>2. w < q => w + 1 \in 0 .. q
    BY <1>2, <2>1
  <2>3. q \in 0 .. q
    BY <1>2
  <2>. QED BY <1>2, <2>1, <2>2, <2>3
<1>4. \A k \in 0 .. last : LenUpTo(v.bufs, k) \in Nat
  BY <1>1, LenUpToDef
<1>5. /\ u.bufs = Remaining(v.bufs, r, m) /\ u.clean = v.clean /\ u.second_half = v.second_half
      /\ u.pos = IF v.pos = 0 THEN 0 ELSE IF r >= v.pos - 1 THEN 1 ELSE v.pos - r
      /\ u = [bufs |-> u.bufs, pos |-> u.pos, clean |-> u.clean, second_half |-> u.second_half]
  <2>1. v = [bufs |-> v.bufs, pos |-> v.pos, clean |-> v.clean, second_half |-> v.second_half]
    BY <1>1 DEF IoVecsRecords
  <2>2. u = [v EXCEPT !.bufs = Remaining(v.bufs, r, m),
                      !.pos = IF v.pos = 0 THEN 0 ELSE IF r >= v.pos - 1 THEN 1 ELSE v.pos - r]
    BY <2>1 DEF advance
  <2>. HIDE DEF u, r, m
  <2>. QED BY <2>1, <2>2
<1>. HIDE DEF slice, q, w, u
<1>6. /\ r \in Nat /\ r <= w /\ (v.pos = 0 => r = w) /\ (v.pos > 0 => r <= v.pos - 1)
      /\ r = w \/ (r + 1 = w /\ w = q /\ w = v.pos)
      /\ r \in 0 .. last
  BY SMTT(30), <1>1, <1>2, <1>3
<1>7. LenUpTo(v.bufs, r) <= n /\ LenUpTo(v.bufs, r) \in Nat /\ m \in Nat
  <2>1. w \in r .. last
    BY <1>1, <1>2, <1>3, <1>6
  <2>2. LenUpTo(v.bufs, r) <= LenUpTo(v.bufs, w) /\ LenUpTo(v.bufs, w) \in Nat
    BY <1>1, <1>4, <1>6, <2>1, LenUpToDef
  <2>3. LenUpTo(v.bufs, r) \in Nat
    BY <1>4, <1>6
  <2>. QED BY <1>3, <2>2, <2>3
<1>8. u.pos = IF v.pos = 0 THEN 0 ELSE v.pos - r
  BY <1>1, <1>5, <1>6
<1>9. /\ Skip(v.bufs, r) \in Seq(Buffers) /\ Len(Skip(v.bufs, r)) = last - r /\ last - r \in Nat
      /\ \A k \in 1 .. last - r : Skip(v.bufs, r)[k] = v.bufs[k + r]
  BY <1>1, <1>6, SkipIs
<1>. HIDE DEF r
<1>10. CASE r = last
  <2>1. Skip(v.bufs, r) = <<>>
    BY <1>1, <1>9, <1>10
  <2>2. u.bufs = <<>> /\ Len(u.bufs) = 0
    BY <1>5, <2>1 DEF Remaining
  <2>3. v.pos = 0 /\ u.pos = 0 /\ w = q
    BY <1>1, <1>2, <1>3, <1>6, <1>8, <1>10
  <2>4. v.clean /\ limit = to
    BY <2>3 DEF Halved
  <2>5. from + n = to
    BY <1>3, <2>3, <2>4
  <2>6. u \in IoVecsRecords
    <3>1. <<>> \in Seq(Buffers) /\ 0 \in Nat
      OBVIOUS
    <3>. QED BY <1>1, <1>5, <2>2, <2>3, <3>1 DEF IoVecsRecords
  <2>. QED BY <1>5, <2>2, <2>3, <2>4, <2>5, <2>6 DEF Halved, u
<1>11. CASE r # last
  <2>. DEFINE left == Skip(v.bufs, r)
              b == v.bufs[r + 1]
  <2>1. r + 1 \in 1 .. last /\ r + 1 \in 1 .. q /\ last - r >= 1 /\ left # <<>> /\ left[1] = b
    <3>1. r < last /\ r < q
      BY SMTT(30), <1>1, <1>2, <1>3, <1>6, <1>11
    <3>2. r + 1 \in 1 .. last /\ r + 1 \in 1 .. q /\ last - r >= 1 /\ 1 \in 1 .. last - r /\ 1 + r = r + 1
      BY <1>1, <1>2, <1>6, <3>1
    <3>. QED BY <1>9, <3>2
  <2>2. \A k \in 1 .. last : v.bufs[k].len \in Nat /\ v.bufs[k].len > 0
    <3>1. from < limit
      OBVIOUS
    <3>. QED BY <3>1, HalvedPositive
  <2>3. /\ b.ptr \in Nat /\ b.len \in Nat /\ b.len > 0 /\ EndOf(b) = b.ptr + b.len
        /\ b.ptr = from + LenUpTo(v.bufs, r) /\ EndOf(b) = from + LenUpTo(v.bufs, r + 1)
        /\ LenUpTo(v.bufs, r + 1) \in Nat
    <3>1. (r + 1) - 1 = r /\ r + 1 \in 0 .. last /\ q \in 0 .. last
      BY <1>1, <1>2, <1>6, <2>1
    <3>2. b.ptr = from + LenUpTo(v.bufs, r) /\ EndOf(b) = from + LenUpTo(v.bufs, r + 1)
      <4>1. /\ b.ptr = from + LenUpTo(v.bufs, (r + 1) - 1)
            /\ EndOf(b) = from + LenUpTo(v.bufs, r + 1)
        <5>1. q \in 0 .. Len(v.bufs) /\ Row(v.bufs, q, from) /\ r + 1 \in 1 .. q
          BY <1>2, <2>1, <3>1
        <5>. HIDE DEF m
        <5>. QED BY <1>1, <5>1, RowSums
      <4>. QED BY <3>1, <4>1
    <3>3. b.ptr \in Nat /\ b.len \in Nat /\ EndOf(b) = b.ptr + b.len
      BY <1>1, <2>1, BufferFields
    <3>4. b.len > 0 /\ LenUpTo(v.bufs, r + 1) \in Nat
      BY <1>4, <2>1, <2>2, <3>1
    <3>. QED BY <3>2, <3>3, <3>4
  <2>4. m <= b.len /\ (m = b.len => r = v.pos - 1)
    <3>1. CASE r = w /\ w < q
      BY <1>3, <1>7, <2>3, <3>1
    <3>2. CASE r + 1 = w /\ w = q /\ w = v.pos
      <4>1. m <= b.len
        BY <1>3, <1>7, <2>3, <3>2
      <4>. QED BY <1>6, <3>2, <4>1
    <3>. QED BY <1>2, <1>3, <1>6, <2>1, <3>1, <3>2
  <2>. DEFINE c == Advanced(b, m)
  <2>5. /\ c \in Buffers /\ c.ptr = from + n /\ c.len = b.len - m /\ c.len \in Nat /\ EndOf(c) = EndOf(b)
    <3>1. c = [ptr |-> b.ptr + m, len |-> b.len - m]
      BY DEF Advanced, Buffer
    <3>2. b.ptr + m = from + n
      BY <1>7, <2>3
    <3>. HIDE DEF m
    <3>. QED BY <1>7, <2>3, <2>4, <3>1, <3>2 DEF Buffers, EndOf
  <2>6. u.bufs = [left EXCEPT ![1] = c]
    BY <1>5, <2>1 DEF Remaining
  <2>. HIDE DEF left, b, c, m
  <2>7. /\ u.bufs \in Seq(Buffers) /\ Len(u.bufs) = last - r
        /\ u.bufs[1] = c /\ \A k \in 2 .. last - r : u.bufs[k] = v.bufs[k + r]
    <3>1. left \in Seq(Buffers) /\ Len(left) = last - r /\ \A k \in 1 .. last - r : left[k] = v.bufs[k + r]
      BY <1>9 DEF left
    <3>2. u.bufs \in Seq(Buffers) /\ Len(u.bufs) = last - r
      <4>1. 1 \in 1 .. Len(left)
        BY <2>1, <3>1
      <4>. QED BY <2>5, <2>6, <3>1, <4>1
    <3>3. u.bufs[1] = c /\ \A k \in 2 .. last - r : u.bufs[k] = left[k]
      BY <2>1, <2>6, <3>1
    <3>. QED BY <3>1, <3>2, <3>3
  <2>8. u.pos \in Nat /\ u.pos <= last - r /\ (v.pos > 0 => u.pos + r = v.pos /\ u.pos > 0)
    BY <1>1, <1>6, <1>8, <2>1
  <2>9. u \in IoVecsRecords
    BY <1>1, <1>5, <2>7, <2>8 DEF IoVecsRecords
  <2>10. \A k \in 1 .. last - r : EndOf(u.bufs[k]) = EndOf(v.bufs[k + r])
    <3>1. EndOf(u.bufs[1]) = EndOf(v.bufs[1 + r])
      BY <1>6, <2>5, <2>7 DEF b
    <3>2. \A k \in 1 .. last - r : k = 1 \/ k \in 2 .. last - r
      BY <1>1, <1>6
    <3>. QED BY <2>7, <3>1, <3>2
  <2>11. ~ v.clean => v.pos > 0
    BY <1>1 DEF Halved
  <2>12. ASSUME NEW k \in 2 .. last - r + 1
         PROVE  EndBefore(u, k) = EndBefore(v, k + r)
    <3>1. k - 1 \in 1 .. last - r /\ (k - 1) + r = (k + r) - 1 /\ k \in Int
      BY <1>1, <1>6
    <3>2. ~ v.clean => (k = u.pos + 1 <=> k + r = v.pos + 1)
      <4>1. ~ v.clean => u.pos + r = v.pos
        BY <2>8, <2>11
      <4>2. r \in Nat /\ u.pos \in Nat /\ v.pos \in Nat /\ k \in Int
        BY <1>1, <1>6, <2>8, <3>1
      <4>3. k = u.pos + 1 <=> k + r = (u.pos + r) + 1
        BY SMTT(30), <4>2
      <4>. QED BY <4>1, <4>3
    <3>3. EndOf(u.bufs[k - 1]) = EndOf(v.bufs[(k + r) - 1])
      BY <2>10, <3>1
    <3>. QED BY <1>5, <3>2, <3>3 DEF EndBefore
  <2>13. ASSUME NEW k \in 2 .. last - r
         PROVE  u.bufs[k].ptr = EndBefore(u, k)
    <3>1. k \in 2 .. last - r + 1 /\ k + r \in 2 .. last
      BY <1>1, <1>6
    <3>2. v.bufs[k + r].ptr = EndBefore(v, k + r)
      BY <3>1 DEF Halved
    <3>. QED BY <2>7, <2>12, <3>1, <3>2
  <2>14. ASSUME NEW k \in 1 .. last - r, u.bufs[k].len = 0
         PROVE  k = 1 /\ u.pos = 1
    <3>1. CASE k = 1
      <4>1. m = b.len
        <5>1. b.len - m = 0 /\ b.len \in Nat /\ m \in Nat
          BY <1>7, <2>3, <2>5, <2>7, <2>14, <3>1
        <5>. QED BY <5>1
      <4>2. r = v.pos - 1
        BY <2>4, <4>1
      <4>. QED BY <1>1, <1>6, <1>8, <3>1, <4>2
    <3>2. CASE k # 1
      <4>1. k \in 2 .. last - r /\ k + r \in 1 .. last
        BY <1>1, <1>6, <3>2
      <4>. QED BY SMTT(30), <2>2, <2>7, <2>14, <4>1
    <3>. QED BY <3>1, <3>2
  <2>15. IF u.pos = 0 THEN u.clean /\ limit = to ELSE EndOf(u.bufs[u.pos]) = limit
    <3>1. CASE v.pos = 0
      BY <1>5, <1>8, <3>1 DEF Halved
    <3>2. CASE v.pos # 0
      <4>1. u.pos \in 1 .. last - r /\ u.pos + r = v.pos /\ u.pos # 0
        BY <1>1, <1>6, <2>8, <3>2
      <4>2. EndOf(v.bufs[v.pos]) = limit
        BY <3>2 DEF Halved
      <4>. QED BY <2>10, <4>1, <4>2
    <3>. QED BY <3>1, <3>2
  <2>16. u.bufs # <<>> /\ u.bufs[1].ptr = from + n /\ EndBefore(u, Len(u.bufs) + 1) = to
    <3>1. last - r + 1 \in 2 .. last - r + 1 /\ (last - r + 1) + r = last + 1
      BY <1>1, <1>6, <2>1
    <3>2. v.bufs # <<>>
      BY <1>1, <2>1
    <3>3. EndBefore(v, last + 1) = to
      BY <3>2 DEF Halved
    <3>4. EndBefore(u, last - r + 1) = to
      BY <2>12, <3>1, <3>3
    <3>. QED BY <2>1, <2>5, <2>7, <3>4
  <2>17. ~ u.clean => u.second_half.ptr = limit /\ u.second_half.len > 0
    BY <1>5 DEF Halved
  <2>18. Halved(u, from + n, limit, to)
    BY <2>7, <2>8, <2>9, <2>13, <2>14, <2>15, <2>16, <2>17 DEF Halved
  <2>. QED BY <1>1, <1>5, <1>8, <2>8, <2>18 DEF u
<1>. QED BY <1>10, <1>11

(* Buffers made for given lengths are filled from the address of the first.*)
LEMMA BuffersAtFill ==
  ASSUME NEW from \in Nat, NEW lens \in Seq(Nat \ {0})
  PROVE  /\ Filling(BuffersAt(from, lens), from, from + PartialSums(lens)[Len(lens)])
         /\ Len(BuffersAt(from, lens)) = Len(lens)
         /\ \A k \in 1 .. Len(lens) : /\ BuffersAt(from, lens)[k].len = lens[k]
                                      /\ EndOf(BuffersAt(from, lens)[k]) = from + PartialSums(lens)[k]
<1>. DEFINE bufs == BuffersAt(from, lens)
            sum == PartialSums(lens)
            n == Len(lens)
<1>1. n \in Nat /\ DOMAIN lens = 1 .. n /\ lens \in Seq(Nat) /\ \A k \in 1 .. n : lens[k] \in Nat \ {0}
  OBVIOUS
<1>2. sum \in [0 .. n -> Nat] /\ sum[0] = 0 /\ \A k \in 1 .. n : sum[k] = sum[k - 1] + lens[k]
  BY <1>1, PartialSumsDef
<1>3. bufs = [k \in 1 .. n |-> [ptr |-> from + sum[k - 1], len |-> lens[k]]]
  BY <1>1 DEF BuffersAt, Buffer
<1>. HIDE DEF bufs, sum
<1>4. ASSUME NEW k \in 1 .. n
      PROVE  /\ bufs[k] \in Buffers /\ bufs[k].ptr = from + sum[k - 1] /\ bufs[k].len = lens[k]
             /\ bufs[k].len > 0 /\ EndOf(bufs[k]) = from + sum[k]
  <2>1. k - 1 \in 0 .. n /\ k \in 0 .. n /\ lens[k] \in Nat \ {0} /\ sum[k] = sum[k - 1] + lens[k]
    BY <1>1, <1>2
  <2>2. sum[k - 1] \in Nat
    BY <1>2, <2>1
  <2>3. bufs[k] = [ptr |-> from + sum[k - 1], len |-> lens[k]]
    BY <1>3
  <2>. QED BY SMTT(30), <2>1, <2>2, <2>3 DEF Buffers, EndOf
<1>5. bufs \in Seq(Buffers) /\ Len(bufs) = n
  BY <1>1, <1>3, <1>4
<1>6. Hold(bufs, from, from + sum[n])
  <2>1. CASE n = 0
    <3>1. bufs = <<>> /\ sum[n] = 0
      BY <1>2, <1>5, <2>1
    <3>. QED BY <3>1 DEF Hold
  <2>2. CASE n # 0
    <3>1. bufs # <<>> /\ 1 \in 1 .. n /\ n \in 1 .. n /\ 1 - 1 = 0
      BY <1>1, <1>5, <2>2
    <3>2. bufs[1].ptr = from /\ EndOf(bufs[n]) = from + sum[n]
      BY SMTT(30), <1>2, <1>4, <3>1
    <3>3. ASSUME NEW k \in 2 .. n
          PROVE  bufs[k].ptr = EndOf(bufs[k - 1])
      <4>1. k \in 1 .. n /\ k - 1 \in 1 .. n
        BY <1>1
      <4>. QED BY <1>4, <4>1
    <3>. QED BY <1>5, <3>1, <3>2, <3>3 DEF Hold
  <2>. QED BY <2>1, <2>2
<1>. QED BY <1>4, <1>5, <1>6 DEF Filling, bufs, sum

(* A first half without bytes leaves the second half whole.                *)
LEMMA TailOfConsumed ==
  ASSUME NEW v, NEW limit \in Nat, NEW to \in Nat, Halved(v, limit, limit, to)
  PROVE  Hold(into_tail(v), limit, to)
<1>1. v.bufs \in Seq(Buffers) /\ v.pos \in 0 .. Len(v.bufs)
  BY IoVecsFields DEF Halved
<1>2. as_slice(v) = <<>>
  <2>1. Filling(as_slice(v), limit, limit)
    BY FirstHalf
  <2>. QED BY <2>1, FillingSome
<1>3. v.pos > 0 => v.bufs[v.pos].ptr = limit
  <2>1. ASSUME v.pos > 0
        PROVE  v.pos = 1 /\ v.bufs # <<>>
    <3>1. v.pos # 0 /\ Len(v.bufs) > 0
      BY <1>1, <2>1
    <3>2. v.bufs # <<>> /\ SubSeq(v.bufs, 1, v.pos) # <<>>
      BY <1>1, <2>1, <3>1
    <3>. QED BY <1>2, <3>1, <3>2 DEF as_slice
  <2>. QED BY <2>1 DEF Halved
<1>. QED BY <1>3, SecondHalf

-----------------------------------------------------------------------------
(* IoVecs.                                                                 *)

\* The bytes there are, and how many of them the first half is for.
AllBytes == PartialSums(input.lens)[Len(input.lens)]
Limit == Least(input.max_len, AllBytes)

\* The limit is not enough: where each buffer is, and which may be empty,
\* decides what advance and into_tail do next.
SplitInv ==
  /\ input \in IoVecsInputs
  /\ \/ result = NotRun
     \/ /\ result = [op |-> "iovecs", advanced |-> result.advanced, iovecs |-> result.iovecs]
        /\ result.advanced \in 0 .. Limit
        /\ Halved(result.iovecs, result.advanced, Limit, AllBytes)

(* The numbers of an input.                                                *)
LEMMA SplitInput ==
  ASSUME input \in IoVecsInputs
  PROVE  /\ input.lens \in Seq(Nat \ {0}) /\ input.max_len \in Nat \ {0}
         /\ AllBytes \in Nat /\ Limit \in Nat
<1>1. input.lens \in Seq(Nat \ {0}) /\ input.max_len \in Nat \ {0}
  BY IoVecsAssumption DEF IoVecsInputs
<1>2. AllBytes \in Nat
  <2>1. input.lens \in Seq(Nat) /\ Len(input.lens) \in 0 .. Len(input.lens)
    BY <1>1
  <2>. QED BY <2>1, PartialSumsDef DEF AllBytes
<1>. QED BY <1>1, <1>2 DEF Limit, Least

(* Splitting, and each advance, keeps the invariant.                       *)
LEMMA SplitStepInv == SplitInv /\ [IoVecsNext]_vars => SplitInv'
<1>. SUFFICES ASSUME SplitInv, [IoVecsNext]_vars
              PROVE  SplitInv'
  OBVIOUS
<1>1. /\ input \in IoVecsInputs /\ input.lens \in Seq(Nat \ {0}) /\ input.max_len \in Nat \ {0}
      /\ AllBytes \in Nat /\ Limit \in Nat
  BY SplitInput DEF SplitInv
<1>2. ASSUME input' = input, NEW v, NEW a \in 0 .. Limit, Halved(v, a, Limit, AllBytes),
             result' = [op |-> "iovecs", advanced |-> a, iovecs |-> v]
      PROVE  SplitInv'
  <2>1. AllBytes' = AllBytes /\ Limit' = Limit
    BY <1>2 DEF AllBytes, Limit
  <2>. QED BY <1>1, <1>2, <2>1 DEF SplitInv, Halved, EndBefore, IoVecsRecords, Buffers
<1>3. CASE UNCHANGED vars
  BY <1>3 DEF vars, SplitInv, AllBytes, Limit
<1>4. CASE BoundBuffers
  <2>. DEFINE bufs == BuffersAt(0, input.lens)
              v == bounded(bufs, input.max_len)
  <2>1. Filling(bufs, 0, AllBytes)
    <3>1. Filling(bufs, 0, 0 + AllBytes)
      BY <1>1, BuffersAtFill DEF AllBytes
    <3>. QED BY <1>1, <3>1
  <2>2. Halved(v, 0, Limit, AllBytes)
    <3>1. Halved(v, 0, Least(0 + input.max_len, AllBytes), AllBytes)
      BY <1>1, <2>1, BoundedHalves
    <3>2. 0 + input.max_len = input.max_len
      BY <1>1
    <3>. QED BY <3>1, <3>2 DEF Limit
  <2>3. input' = input /\ result' = [op |-> "iovecs", advanced |-> 0, iovecs |-> v]
    BY <1>4 DEF BoundBuffers
  <2>. HIDE DEF v
  <2>. QED BY <1>1, <1>2, <2>2, <2>3
<1>5. CASE AdvanceBuffers
  <2>1. PICK n \in 1 .. input.max_len :
          /\ AdvanceDefined(result.iovecs, n)
          /\ result' = [result EXCEPT !.advanced = @ + n, !.iovecs = advance(@, n)]
    BY <1>5 DEF AdvanceBuffers
  <2>2. input' = input
    BY <1>5 DEF AdvanceBuffers
  <2>. DEFINE a == result.advanced
              v == result.iovecs
  <2>3. /\ result = [op |-> "iovecs", advanced |-> a, iovecs |-> v]
        /\ a \in 0 .. Limit /\ Halved(v, a, Limit, AllBytes)
    BY <1>5 DEF AdvanceBuffers, SplitInv, NotRun
  <2>4. n <= Limit - a /\ a + n \in 0 .. Limit
    <3>1. Filling(as_slice(v), a, Limit)
      BY <1>1, <2>3, FirstHalf
    <3>2. LenOf(as_slice(v)) = Limit - a
      BY <1>1, <2>3, <3>1, FillingSums DEF Filling
    <3>3. n <= Limit - a
      BY <2>1, <3>2 DEF AdvanceDefined
    <3>. QED BY <1>1, <2>3, <3>3
  <2>5. Halved(advance(v, n), a + n, Limit, AllBytes)
    <3>1. n \in Nat \ {0} /\ a \in Nat
      BY <1>1, <2>3
    <3>. QED BY <1>1, <2>3, <2>4, <3>1, AdvanceHalves
  <2>6. result' = [op |-> "iovecs", advanced |-> a + n, iovecs |-> advance(v, n)]
    <3>1. result' = [result EXCEPT !.advanced = a + n, !.iovecs = advance(v, n)]
      BY <2>1
    <3>. HIDE DEF a, v
    <3>. QED BY <2>3, <3>1
  <2>. HIDE DEF a, v
  <2>. QED BY <1>2, <2>2, <2>4, <2>5, <2>6
<1>. QED BY <1>3, <1>4, <1>5 DEF IoVecsNext

(* Whatever the buffers and the limit, and however the first half is       *)
(* consumed, splitting neither loses nor repeats a byte.                   *)
THEOREM IoVecsSplitKeepsBytes == IoVecsSpec => []SplitKeepsBytes
<1>1. SplitInv => SplitKeepsBytes
  <2>. SUFFICES ASSUME SplitInv, result.op = "iovecs"
                PROVE  SplitKeepsBytes
    BY DEF SplitKeepsBytes
  <2>. DEFINE a == result.advanced
              v == result.iovecs
  <2>1. /\ AllBytes \in Nat /\ Limit \in Nat /\ a \in 0 .. Limit /\ a \in Nat
        /\ Halved(v, a, Limit, AllBytes)
    BY SplitInput DEF SplitInv, NotRun
  <2>. HIDE DEF a, v
  <2>2. Hold(as_slice(v), a, Limit)
    BY <2>1, FirstHalf DEF Filling
  <2>3. a = Limit => Hold(into_tail(v), Limit, AllBytes)
    BY <2>1, TailOfConsumed
  <2>4. ~ v.clean => Hold(into_tail(v), Limit, AllBytes)
    BY <2>1, SecondHalf
  <2>. QED BY <2>2, <2>3, <2>4 DEF SplitKeepsBytes, a, v, Limit, AllBytes, Least
<1>2. input \in IoVecsInputs /\ result = NotRun => SplitInv
  BY DEF SplitInv
<1>. QED BY <1>1, <1>2, SplitStepInv, PTL DEF IoVecsSpec

-----------------------------------------------------------------------------
(* Storage: files.                                                         *)

\* What the layout of a torrent's files comes to: one behind the other.
Laid(l) ==
  /\ l.piece_len \in Nat \ {0} /\ Len(l.files) \in Nat \ {0} /\ DOMAIN l.files = 1 .. Len(l.files)
  /\ \A f \in 1 .. Len(l.files) :
       /\ l.files[f].len \in Nat \ {0} /\ torrent_offset(l, f) \in Nat
       /\ torrent_offset(l, f) = IF f = 1 THEN 0 ELSE torrent_end_offset(l, f - 1)
       /\ torrent_end_offset(l, f) <= download_len(l)
       /\ \A g \in 1 .. Len(l.files) : f < g => torrent_end_offset(l, f) <= torrent_offset(l, g)
  /\ torrent_end_offset(l, Len(l.files)) = download_len(l) /\ download_len(l) \in Nat \ {0}

(* Layout lays files so.                                                   *)
LEMMA LayoutLaid ==
  ASSUME NEW n \in Nat \ {0}, NEW lens \in Seq(Nat \ {0}), lens # <<>>
  PROVE  Laid(Layout(n, lens))
<1>. DEFINE l == Layout(n, lens)
            last == Len(lens)
            sum == PartialSums(lens)
<1>1. /\ last \in Nat \ {0} /\ DOMAIN lens = 1 .. last /\ lens \in Seq(Nat)
      /\ \A f \in 1 .. last : lens[f] \in Nat \ {0}
  OBVIOUS
<1>2. /\ sum \in [0 .. last -> Nat] /\ sum[0] = 0
      /\ \A k \in 1 .. last : sum[k] = sum[k - 1] + lens[k]
      /\ \A i \in 0 .. last : \A j \in i .. last : sum[i] <= sum[j]
  BY <1>1, PartialSumsDef, PartialSumsGrow
<1>3. l = [piece_len |-> n,
           files |-> [f \in 1 .. last |-> [len |-> lens[f], torrent_offset |-> sum[f - 1]]]]
  BY <1>1 DEF Layout
<1>. HIDE DEF l, sum
<1>4. /\ l.piece_len = n /\ l.files = [f \in 1 .. last |-> [len |-> lens[f], torrent_offset |-> sum[f - 1]]]
      /\ DOMAIN l.files = 1 .. last /\ Len(l.files) = last
  BY <1>1, <1>3
<1>5. ASSUME NEW f \in 1 .. last
      PROVE  /\ l.files[f].len = lens[f] /\ lens[f] \in Nat \ {0}
             /\ torrent_offset(l, f) = sum[f - 1] /\ torrent_end_offset(l, f) = sum[f]
             /\ sum[f - 1] \in Nat /\ sum[f] \in Nat
  <2>1. l.files[f] = [len |-> lens[f], torrent_offset |-> sum[f - 1]]
    BY <1>4
  <2>2. f - 1 \in 0 .. last /\ f \in 0 .. last
    BY <1>1
  <2>3. torrent_offset(l, f) = sum[f - 1] /\ l.files[f].len = lens[f]
    BY <2>1 DEF torrent_offset
  <2>. QED BY <1>1, <1>2, <2>2, <2>3 DEF torrent_end_offset
<1>6. [f \in DOMAIN l.files |-> l.files[f].len] = lens
  <2>1. [f \in DOMAIN l.files |-> l.files[f].len] = [f \in 1 .. last |-> lens[f]]
    BY <1>4, <1>5
  <2>2. lens = [f \in 1 .. last |-> lens[f]]
    BY <1>1
  <2>. QED BY <2>1, <2>2
<1>7. download_len(l) = sum[last]
  <2>1. download_len(l) = PartialSums([f \in DOMAIN l.files |-> l.files[f].len])[Len(l.files)]
    BY DEF download_len
  <2>2. Len(l.files) = last
    BY <1>4
  <2>. QED BY <1>6, <2>1, <2>2, Zenon DEF sum
<1>8. ASSUME NEW f \in 1 .. last
      PROVE  /\ torrent_offset(l, f) = IF f = 1 THEN 0 ELSE torrent_end_offset(l, f - 1)
             /\ torrent_end_offset(l, f) <= download_len(l)
             /\ \A g \in 1 .. last : f < g => torrent_end_offset(l, f) <= torrent_offset(l, g)
  <2>1. torrent_offset(l, f) = IF f = 1 THEN 0 ELSE torrent_end_offset(l, f - 1)
    <3>1. CASE f = 1
      BY <1>2, <1>5, <3>1
    <3>2. CASE f # 1
      <4>1. f - 1 \in 1 .. last
        BY <1>1, <3>2
      <4>. QED BY <1>5, <3>2, <4>1
    <3>. QED BY <3>1, <3>2
  <2>2. torrent_end_offset(l, f) <= download_len(l)
    <3>1. f \in 0 .. last /\ last \in f .. last
      BY <1>1
    <3>. QED BY <1>2, <1>5, <1>7, <3>1
  <2>3. ASSUME NEW g \in 1 .. last, f < g
        PROVE  torrent_end_offset(l, f) <= torrent_offset(l, g)
    <3>1. f \in 0 .. last /\ g - 1 \in f .. last
      BY <1>1, <2>3
    <3>2. sum[f] <= sum[g - 1]
      BY <1>2, <3>1
    <3>. QED BY <1>5, <3>2
  <2>. QED BY <2>1, <2>2, <2>3
<1>9. torrent_end_offset(l, last) = download_len(l) /\ download_len(l) \in Nat \ {0}
  <2>1. last \in 1 .. last /\ last - 1 \in 0 .. last /\ last \in 0 .. last
    BY <1>1
  <2>2. sum[last] = sum[last - 1] + lens[last] /\ sum[last - 1] \in Nat /\ lens[last] \in Nat \ {0}
    BY <1>2, <1>5, <2>1
  <2>. QED BY <1>5, <1>7, <2>1, <2>2
<1>10. Laid(l)
  BY <1>1, <1>4, <1>5, <1>8, <1>9 DEF Laid
<1>. QED BY <1>10 DEF l

(* A file, by the numbers that say where it is.                            *)
LEMMA FileNumbers ==
  ASSUME NEW l, Laid(l), NEW f \in DOMAIN l.files
  PROVE  /\ f \in 1 .. Len(l.files) /\ f \in Nat /\ Len(l.files) \in Nat \ {0}
         /\ l.files[f].len \in Nat \ {0} /\ torrent_offset(l, f) \in Nat
         /\ torrent_end_offset(l, f) \in Nat /\ torrent_offset(l, f) < torrent_end_offset(l, f)
         /\ torrent_end_offset(l, f) = torrent_offset(l, f) + l.files[f].len
         /\ download_len(l) \in Nat \ {0} /\ torrent_end_offset(l, f) <= download_len(l)
         /\ torrent_end_offset(l, f) = download_len(l) \/
              (f + 1 \in DOMAIN l.files /\ torrent_offset(l, f + 1) = torrent_end_offset(l, f))
<1>1. /\ f \in 1 .. Len(l.files) /\ f \in Nat /\ Len(l.files) \in Nat \ {0} /\ l.files[f].len \in Nat \ {0}
      /\ torrent_offset(l, f) \in Nat /\ download_len(l) \in Nat \ {0}
      /\ torrent_end_offset(l, f) <= download_len(l)
      /\ f = Len(l.files) => torrent_end_offset(l, f) = download_len(l)
      /\ DOMAIN l.files = 1 .. Len(l.files)
  BY DEF Laid
<1>2. torrent_end_offset(l, f) = torrent_offset(l, f) + l.files[f].len
  BY DEF torrent_end_offset
<1>3. ASSUME f # Len(l.files)
      PROVE  f + 1 \in DOMAIN l.files /\ torrent_offset(l, f + 1) = torrent_end_offset(l, f)
  <2>1. f + 1 \in 1 .. Len(l.files) /\ f + 1 # 1 /\ (f + 1) - 1 = f
    BY <1>1, <1>3
  <2>2. torrent_offset(l, f + 1) = torrent_end_offset(l, (f + 1) - 1)
    BY <2>1 DEF Laid
  <2>. QED BY <1>1, <2>1, <2>2
<1>. QED BY <1>1, <1>2, <1>3

(* Files do not overlap: what precedes a file ends before it.              *)
LEMMA FilesApart ==
  ASSUME NEW l, Laid(l), NEW f \in DOMAIN l.files, NEW g \in DOMAIN l.files, f < g
  PROVE  torrent_end_offset(l, f) <= torrent_offset(l, g)
BY DEF Laid

(* Every byte is in a file.                                                *)
LEMMA FileAt ==
  ASSUME NEW l, Laid(l), NEW k \in 0 .. download_len(l) - 1
  PROVE  \E f \in DOMAIN l.files : torrent_offset(l, f) <= k /\ k < torrent_end_offset(l, f)
<1>. DEFINE begun == {f \in DOMAIN l.files : torrent_offset(l, f) <= k}
<1>1. /\ DOMAIN l.files = 1 .. Len(l.files) /\ Len(l.files) \in Nat \ {0} /\ Len(l.files) \in Int
      /\ torrent_offset(l, 1) = 0 /\ download_len(l) \in Nat
  BY DEF Laid
<1>2. 1 \in begun /\ begun \subseteq Int /\ \A f \in begun : f <= Len(l.files)
  BY <1>1
<1>3. PICK f \in begun : \A g \in begun : g <= f
  <2>. HIDE DEF begun
  <2>. QED BY <1>1, <1>2, GreatestNumber
<1>4. f \in DOMAIN l.files /\ torrent_offset(l, f) <= k
  OBVIOUS
<1>5. k < torrent_end_offset(l, f)
  <2>1. CASE torrent_end_offset(l, f) = download_len(l)
    BY <1>1, <2>1
  <2>2. CASE f + 1 \in DOMAIN l.files /\ torrent_offset(l, f + 1) = torrent_end_offset(l, f)
    <3>1. f + 1 \notin begun
      <4>1. f \in Nat /\ ~ (f + 1 <= f)
        BY <1>1, <1>4
      <4>. QED BY <1>3, <4>1
    <3>2. ~ (torrent_offset(l, f + 1) <= k) /\ torrent_offset(l, f + 1) \in Nat
      BY <2>2, <3>1, FileNumbers
    <3>. QED BY <2>2, <3>2
  <2>. QED BY <1>4, <2>1, <2>2, FileNumbers
<1>. QED BY <1>4, <1>5

-----------------------------------------------------------------------------
(* Storage: pieces.                                                        *)

(* How often a length goes into another one, the last time perhaps not     *)
(* whole.                                                                  *)
LEMMA RoundedUp ==
  ASSUME NEW a \in Nat \ {0}, NEW n \in Nat \ {0}
  PROVE  LET c == (a + n - 1) \div n
         IN c \in Nat \ {0} /\ a <= c * n /\ (c - 1) * n < a
<1>. DEFINE c == (a + n - 1) \div n
<1>1. a + n - 1 \in Nat
  OBVIOUS
<1>2. c \in Nat /\ c * n <= a + n - 1 /\ a + n - 1 < c * n + n
  BY <1>1, Division
<1>. HIDE DEF c
<1>3. c # 0
  BY <1>2
<1>4. c * n \in Nat /\ (c - 1) * n = c * n - n
  BY <1>2
<1>. QED BY <1>2, <1>3, <1>4 DEF c

(* Pieces follow each other, the last one ends with the torrent.           *)
LEMMA PieceNumbers ==
  ASSUME NEW l, Laid(l), NEW p \in Pieces(l)
  PROVE  /\ p \in Nat /\ piece_count(l) \in Nat \ {0} /\ piece_len(l, p) \in Nat \ {0}
         /\ PieceStart(l, p) \in Nat /\ PieceEnd(l, p) \in Nat
         /\ PieceStart(l, p) < PieceEnd(l, p) /\ PieceEnd(l, p) <= download_len(l)
         /\ PieceEnd(l, p) = PieceStart(l, p) + piece_len(l, p)
         /\ PieceStart(l, p) = p * l.piece_len
         /\ PieceEnd(l, p) = IF p = piece_count(l) - 1 THEN download_len(l)
                             ELSE p * l.piece_len + l.piece_len
<1>. DEFINE n == l.piece_len
            d == download_len(l)
            c == piece_count(l)
<1>1. n \in Nat \ {0} /\ d \in Nat \ {0}
  BY DEF Laid
<1>2. c = (d + n - 1) \div n
  BY DEF piece_count
<1>3. last_piece_len(l) = d - n * (c - 1)
  BY DEF last_piece_len
<1>. HIDE DEF n, d, c
<1>4. c \in Nat \ {0} /\ d <= c * n /\ (c - 1) * n < d
  BY <1>1, <1>2, RoundedUp
<1>5. p \in Nat /\ p <= c - 1 /\ PieceStart(l, p) = p * n /\ p * n \in Nat
  <2>1. p \in Nat /\ p <= c - 1
    BY <1>4 DEF Pieces, c
  <2>. QED BY <1>1, <2>1 DEF PieceStart, torrent_piece_offset, n
<1>6. PieceEnd(l, p) = PieceStart(l, p) + piece_len(l, p)
  BY DEF PieceEnd
<1>7. CASE p = c - 1
  <2>1. piece_len(l, p) = d - n * (c - 1)
    BY <1>3, <1>7 DEF piece_len, c
  <2>2. n * (c - 1) = p * n
    BY <1>1, <1>4, <1>7
  <2>3. piece_len(l, p) = d - p * n /\ p * n < d
    BY <1>4, <1>7, <2>1, <2>2
  <2>. QED BY <1>1, <1>4, <1>5, <1>6, <1>7, <2>3 DEF n, d, c
<1>8. CASE p # c - 1
  <2>1. piece_len(l, p) = n
    BY <1>8 DEF piece_len, c, n
  <2>2. p < c - 1 /\ c - 1 \in Nat
    BY <1>4, <1>5, <1>8
  <2>3. p * n + n <= (c - 1) * n
    BY <1>1, <1>5, <2>2, Multiples
  <2>4. (c - 1) * n \in Nat
    BY <1>1, <2>2
  <2>. QED BY <1>1, <1>4, <1>5, <1>6, <1>8, <2>1, <2>3, <2>4 DEF n, d, c
<1>. QED BY <1>7, <1>8

(* Every byte is in a piece.                                               *)
LEMMA PieceAt ==
  ASSUME NEW l, Laid(l), NEW k \in 0 .. download_len(l) - 1
  PROVE  \E p \in Pieces(l) : PieceStart(l, p) <= k /\ k < PieceEnd(l, p)
<1>. DEFINE n == l.piece_len
            d == download_len(l)
            c == piece_count(l)
            p == k \div n
<1>1. n \in Nat \ {0} /\ d \in Nat \ {0}
  BY DEF Laid
<1>2. c = (d + n - 1) \div n
  BY DEF piece_count
<1>3. k \in Nat /\ k < d
  BY <1>1
<1>. HIDE DEF n, d, c
<1>4. c \in Nat \ {0} /\ d <= c * n
  BY <1>1, <1>2, RoundedUp
<1>5. p \in Nat /\ p * n <= k /\ k < p * n + n
  BY <1>1, <1>3, Division
<1>. HIDE DEF p
<1>6. p < c
  <2>1. SUFFICES ASSUME c <= p
                 PROVE  FALSE
    BY <1>4, <1>5
  <2>2. c * n <= p * n
    <3>1. CASE c = p
      BY <1>1, <1>4, <3>1
    <3>2. CASE c < p
      <4>1. c * n + n <= p * n
        BY <1>1, <1>4, <1>5, <3>2, Multiples
      <4>. QED BY <1>1, <1>4, <1>5, <4>1
    <3>. QED BY <1>4, <1>5, <2>1, <3>1, <3>2
  <2>3. c * n \in Nat /\ p * n \in Nat
    BY <1>1, <1>4, <1>5
  <2>. QED BY <1>1, <1>3, <1>4, <1>5, <2>2, <2>3
<1>7. p \in Pieces(l)
  BY <1>4, <1>5, <1>6 DEF Pieces, c
<1>8. PieceStart(l, p) <= k /\ k < PieceEnd(l, p)
  BY <1>3, <1>5, <1>7, PieceNumbers DEF n, d
<1>. QED BY <1>7, <1>8

(* The files of a piece are those it shares a byte with.                   *)
LEMMA FilesOfPiece ==
  ASSUME NEW l, Laid(l), NEW p \in Pieces(l)
  PROVE  files_intersecting_piece(l, p) = {f \in DOMAIN l.files : Overlaps(l, f, p)}
<1>. DEFINE start == PieceStart(l, p)
            end == PieceEnd(l, p)
            first == {f \in DOMAIN l.files : SliceDefined(l, f, start)}
            found == files_intersecting_piece(l, p)
<1>1. start \in Nat /\ end \in Nat /\ start < end /\ end <= download_len(l) /\ download_len(l) \in Nat
  <2>1. download_len(l) \in Nat
    BY DEF Laid
  <2>. QED BY <2>1, PieceNumbers
<1>2. found = files_intersecting_bytes(l, start, end)
  BY DEF files_intersecting_piece, PieceStart, PieceEnd
<1>. HIDE DEF start, end, found
<1>3. CASE Len(l.files) = 1
  <2>1. found = {1} /\ DOMAIN l.files = {1}
    BY <1>2, <1>3 DEF files_intersecting_bytes, Laid
  <2>2. torrent_offset(l, 1) = 0 /\ torrent_end_offset(l, 1) = download_len(l)
    BY <1>3 DEF Laid
  <2>3. Overlaps(l, 1, p)
    BY <1>1, <2>2 DEF Overlaps, start, end
  <2>. QED BY <2>1, <2>3 DEF found
<1>4. CASE Len(l.files) # 1
  <2>. DEFINE Reached(f, g) == f <= g /\ \A h \in f + 1 .. g : torrent_offset(l, h) \in start .. end - 1
  <2>1. found = {g \in DOMAIN l.files : \E f \in first : Reached(f, g)}
    BY <1>2, <1>4 DEF files_intersecting_bytes
  <2>2. ASSUME NEW f \in DOMAIN l.files, NEW g \in DOMAIN l.files
        PROVE  /\ f \in Nat /\ g \in Nat /\ torrent_offset(l, f) \in Nat /\ torrent_end_offset(l, f) \in Nat
               /\ torrent_offset(l, f) < torrent_end_offset(l, f)
               /\ f < g => torrent_end_offset(l, f) <= torrent_offset(l, g)
    BY FileNumbers, FilesApart
  <2>3. ASSUME NEW g \in DOMAIN l.files, NEW f \in first, Reached(f, g)
        PROVE  Overlaps(l, g, p)
    <3>1. torrent_offset(l, f) <= start /\ start < torrent_end_offset(l, f) /\ f \in DOMAIN l.files
      BY DEF SliceDefined
    <3>2. CASE f = g
      BY <1>1, <2>2, <3>1, <3>2 DEF Overlaps, start, end
    <3>3. CASE f # g
      <4>1. g \in f + 1 .. g
        BY <2>2, <2>3, <3>1, <3>3
      <4>2. torrent_offset(l, g) \in start .. end - 1
        BY <2>3, <4>1
      <4>. QED BY <1>1, <2>2, <4>2 DEF Overlaps, start, end
    <3>. QED BY <3>2, <3>3
  <2>4. ASSUME NEW g \in DOMAIN l.files, Overlaps(l, g, p)
        PROVE  \E f \in first : Reached(f, g)
    <3>1. torrent_offset(l, g) < end /\ torrent_end_offset(l, g) > start
      BY <2>4 DEF Overlaps, start, end
    <3>2. start \in 0 .. download_len(l) - 1
      BY <1>1
    <3>3. PICK f \in DOMAIN l.files : torrent_offset(l, f) <= start /\ start < torrent_end_offset(l, f)
      BY <3>2, FileAt
    <3>4. f \in first
      BY <3>3 DEF SliceDefined
    <3>5. f <= g
      <4>1. SUFFICES ASSUME g < f
                     PROVE  FALSE
        BY <2>2
      <4>2. torrent_end_offset(l, g) <= torrent_offset(l, f)
        BY <2>2, <4>1
      <4>. QED BY <1>1, <2>2, <3>1, <3>3, <4>2
    <3>6. ASSUME NEW h \in f + 1 .. g
          PROVE  torrent_offset(l, h) \in start .. end - 1
      <4>1. h \in DOMAIN l.files /\ f < h /\ h <= g
        <5>1. DOMAIN l.files = 1 .. Len(l.files) /\ f \in Nat /\ g \in Nat /\ Len(l.files) \in Nat
          BY <2>2 DEF Laid
        <5>. QED BY <5>1
      <4>2. torrent_end_offset(l, f) <= torrent_offset(l, h)
        BY <2>2, <4>1
      <4>3. torrent_offset(l, h) <= torrent_offset(l, g)
        <5>1. CASE h = g
          BY <2>2, <5>1
        <5>2. CASE h < g
          <6>1. torrent_end_offset(l, h) <= torrent_offset(l, g)
            BY <2>2, <4>1, <5>2
          <6>. QED BY <2>2, <4>1, <6>1
        <5>. QED BY <2>2, <4>1, <5>1, <5>2
      <4>. QED BY <1>1, <2>2, <3>1, <3>3, <4>1, <4>2, <4>3
    <3>. QED BY <3>4, <3>5, <3>6
  <2>. HIDE DEF first, Reached
  <2>. QED BY <2>1, <2>3, <2>4 DEF found
<1>. QED BY <1>3, <1>4

-----------------------------------------------------------------------------
(* Storage: blocks.                                                        *)

\* The lengths of the blocks of a piece, and where each of them ends.
BlockLens(len) == [i \in 1 .. block_count(len) |-> block_len(len, i - 1)]
BlockEnd(len, i) == Least(i * BLOCK_LEN, len)

(* Blocks have bytes, all but the last one BLOCK_LEN of them.              *)
LEMMA BlockNumbers ==
  ASSUME NEW len \in Nat \ {0}
  PROVE  /\ block_count(len) \in Nat \ {0} /\ BlockEnd(len, 0) = 0 /\ BlockEnd(len, block_count(len)) = len
         /\ \A i \in 1 .. block_count(len) :
              /\ block_len(len, i - 1) \in Nat \ {0}
              /\ BlockEnd(len, i) = BlockEnd(len, i - 1) + block_len(len, i - 1)
              /\ BlockEnd(len, i) = len \/ BlockEnd(len, i) % BLOCK_LEN = 0
              /\ (BlockEnd(len, i) - 1) \div BLOCK_LEN = i - 1
<1>. DEFINE c == block_count(len)
            n == BLOCK_LEN
<1>1. n \in Nat \ {0} /\ c = (len + n - 1) \div n
  BY FileIOAssumption DEF block_count
<1>. HIDE DEF c, n
<1>2. c \in Nat \ {0} /\ len <= c * n /\ (c - 1) * n < len
  BY <1>1, RoundedUp
<1>3. BlockEnd(len, 0) = 0 /\ BlockEnd(len, c) = len
  BY <1>1, <1>2 DEF BlockEnd, Least, n
<1>4. ASSUME NEW i \in 1 .. c
      PROVE  /\ block_len(len, i - 1) \in Nat \ {0}
             /\ BlockEnd(len, i) = BlockEnd(len, i - 1) + block_len(len, i - 1)
             /\ BlockEnd(len, i) = len \/ BlockEnd(len, i) % n = 0
             /\ (BlockEnd(len, i) - 1) \div n = i - 1
  <2>. DEFINE a == (i - 1) * n
  <2>1. i \in Nat \ {0} /\ i <= c /\ i - 1 \in Nat /\ a \in Nat /\ i * n = a + n
    BY <1>1, <1>2
  <2>2. a < len
    <3>1. CASE i = c
      BY <1>2, <3>1
    <3>2. CASE i # c
      <4>1. i - 1 < c - 1 /\ c - 1 \in Nat
        BY <1>2, <2>1, <3>2
      <4>2. a + n <= (c - 1) * n /\ (c - 1) * n \in Nat
        BY <1>1, <2>1, <4>1, Multiples
      <4>. QED BY <1>1, <1>2, <2>1, <4>2
    <3>. QED BY <3>1, <3>2
  <2>. HIDE DEF a
  <2>3. BlockEnd(len, i - 1) = a
    BY <2>1, <2>2 DEF BlockEnd, Least, a, n
  <2>4. BlockEnd(len, i) = IF a + n < len THEN a + n ELSE len
    BY <2>1 DEF BlockEnd, Least, n
  <2>5. block_len(len, i - 1) = IF len - a < n THEN len - a ELSE n
    BY DEF block_len, Least, a, n
  <2>6. block_len(len, i - 1) \in Nat \ {0} /\ BlockEnd(len, i) = a + block_len(len, i - 1)
    BY <1>1, <2>1, <2>2, <2>4, <2>5
  <2>7. BlockEnd(len, i) = len \/ BlockEnd(len, i) % n = 0
    <3>1. (i * n + 0) % n = 0
      <4>1. i \in Nat /\ 0 \in Nat /\ 0 < n
        BY <1>1, <2>1
      <4>. QED BY <1>1, <4>1, DivisionIs
    <3>2. i * n + 0 = a + n
      BY <1>1, <2>1
    <3>. QED BY <2>4, <3>1, <3>2
  <2>8. (BlockEnd(len, i) - 1) \div n = i - 1
    <3>. DEFINE r == block_len(len, i - 1) - 1
    <3>1. r \in Nat /\ r < n /\ BlockEnd(len, i) - 1 = a + r
      BY <1>1, <2>1, <2>2, <2>5, <2>6
    <3>. HIDE DEF r
    <3>2. ((i - 1) * n + r) \div n = i - 1
      BY <1>1, <2>1, <3>1, DivisionIs
    <3>. QED BY <3>1, <3>2 DEF a
  <2>. QED BY <2>3, <2>6, <2>7, <2>8
<1>. QED BY <1>2, <1>3, <1>4 DEF c, n

(* The blocks' lengths add up to where they end.                           *)
LEMMA BlockSums ==
  ASSUME NEW len \in Nat \ {0}
  PROVE  /\ BlockLens(len) \in Seq(Nat \ {0}) /\ Len(BlockLens(len)) = block_count(len)
         /\ \A i \in 1 .. block_count(len) : BlockLens(len)[i] = block_len(len, i - 1)
         /\ \A i \in 0 .. block_count(len) : PartialSums(BlockLens(len))[i] = BlockEnd(len, i)
<1>. DEFINE c == block_count(len)
            lens == BlockLens(len)
            added == {i \in 0 .. c : PartialSums(lens)[i] = BlockEnd(len, i)}
<1>1. c \in Nat \ {0} /\ \A i \in 1 .. c : block_len(len, i - 1) \in Nat \ {0}
  BY BlockNumbers
<1>2. lens = [i \in 1 .. c |-> block_len(len, i - 1)]
  BY DEF BlockLens
<1>. HIDE DEF c, lens
<1>3. lens \in Seq(Nat \ {0}) /\ Len(lens) = c /\ \A i \in 1 .. c : lens[i] = block_len(len, i - 1)
  BY <1>1, <1>2
<1>4. lens \in Seq(Nat)
  <2>1. Nat \ {0} \subseteq Nat
    OBVIOUS
  <2>. QED BY <1>3, <2>1, SeqMonotone
<1>5. 0 \in added
  BY <1>1, <1>4, PartialSumsDef, BlockNumbers
<1>6. ASSUME NEW i \in 0 .. c - 1, i \in added
      PROVE  i + 1 \in added
  <2>1. i + 1 \in 1 .. c /\ (i + 1) - 1 = i /\ i + 1 \in 0 .. c
    BY <1>1
  <2>2. PartialSums(lens)[i + 1] = PartialSums(lens)[(i + 1) - 1] + lens[i + 1]
    BY <1>3, <1>4, <2>1, PartialSumsDef
  <2>3. BlockEnd(len, i + 1) = BlockEnd(len, (i + 1) - 1) + block_len(len, (i + 1) - 1)
    BY <2>1, BlockNumbers DEF c
  <2>4. lens[i + 1] = block_len(len, (i + 1) - 1)
    BY <1>3, <2>1
  <2>5. PartialSums(lens)[i] = BlockEnd(len, i)
    BY <1>6
  <2>6. PartialSums(lens)[i + 1] = BlockEnd(len, i + 1)
    BY <2>1, <2>2, <2>3, <2>4, <2>5
  <2>. QED BY <2>1, <2>6
<1>7. \A i \in 0 .. c : i \in added
  <2>1. 0 \in Int /\ c \in Int
    BY <1>1
  <2>. HIDE DEF added
  <2>. QED BY <1>5, <1>6, <2>1, RangeInduction
<1>. QED BY <1>3, <1>7 DEF c, lens

(* The buffers of a piece's blocks fill it.                                *)
LEMMA BlocksFill ==
  ASSUME NEW l, Laid(l), NEW p \in Pieces(l)
  PROVE  /\ Filling(Blocks(l, p), PieceStart(l, p), PieceEnd(l, p))
         /\ \A i \in DOMAIN Blocks(l, p) :
              LET end == EndOf(Blocks(l, p)[i])
              IN /\ end = PieceEnd(l, p) \/ (end - PieceStart(l, p)) % BLOCK_LEN = 0
                 /\ index_in_piece(end - 1 - PieceStart(l, p)) = i - 1
<1>. DEFINE start == PieceStart(l, p)
            len == piece_len(l, p)
            lens == BlockLens(len)
            bufs == Blocks(l, p)
            c == block_count(len)
<1>1. start \in Nat /\ len \in Nat \ {0} /\ PieceEnd(l, p) = start + len
  BY PieceNumbers
<1>2. bufs = BuffersAt(start, lens)
  BY DEF Blocks, BlockLens
<1>. HIDE DEF start, len, bufs
<1>3. /\ lens \in Seq(Nat \ {0}) /\ Len(lens) = c /\ c \in Nat \ {0}
      /\ \A i \in 0 .. c : PartialSums(lens)[i] = BlockEnd(len, i)
  BY <1>1, BlockSums, BlockNumbers
<1>4. PartialSums(lens)[Len(lens)] = len
  <2>1. c \in 0 .. c
    BY <1>3
  <2>. QED BY <1>1, <1>3, <2>1, BlockNumbers
<1>. HIDE DEF lens
<1>5. /\ Filling(bufs, start, start + PartialSums(lens)[Len(lens)]) /\ Len(bufs) = c
      /\ \A i \in 1 .. c : EndOf(bufs[i]) = start + PartialSums(lens)[i]
  BY <1>1, <1>2, <1>3, BuffersAtFill
<1>6. Filling(bufs, start, PieceEnd(l, p))
  BY <1>1, <1>4, <1>5
<1>7. ASSUME NEW i \in DOMAIN bufs
      PROVE  /\ EndOf(bufs[i]) = PieceEnd(l, p) \/ (EndOf(bufs[i]) - start) % BLOCK_LEN = 0
             /\ index_in_piece(EndOf(bufs[i]) - 1 - start) = i - 1
  <2>. DEFINE e == BlockEnd(len, i)
  <2>1. i \in 1 .. c /\ i \in 0 .. c
    <3>1. bufs \in Seq(Buffers)
      BY <1>6 DEF Filling
    <3>2. DOMAIN bufs = 1 .. c
      BY <1>5, <3>1
    <3>. QED BY <1>3, <3>2
  <2>2. EndOf(bufs[i]) = start + e
    BY <1>3, <1>5, <2>1
  <2>3. e = len \/ e % BLOCK_LEN = 0
    BY <1>1, <2>1, BlockNumbers
  <2>4. (e - 1) \div BLOCK_LEN = i - 1
    BY <1>1, <2>1, BlockNumbers
  <2>5. e \in Int
    <3>1. i * BLOCK_LEN \in Int
      BY <2>1, FileIOAssumption
    <3>. QED BY <1>1, <3>1 DEF BlockEnd, Least
  <2>. HIDE DEF e
  <2>6. EndOf(bufs[i]) - start = e /\ EndOf(bufs[i]) - 1 - start = e - 1
    BY <1>1, <2>2, <2>5
  <2>. QED BY <1>1, <2>2, <2>3, <2>4, <2>6 DEF index_in_piece
<1>. QED BY <1>6, <1>7 DEF start, bufs

-----------------------------------------------------------------------------
(* FileIO: the layout.                                                     *)

(* A torrent of the inputs is laid.                                        *)
LEMMA InputLaid ==
  ASSUME input \in StorageInputs
  PROVE  Laid(input.layout)
<1>1. PICK n \in PieceLens, lens \in FileLens : input = [algorithm |-> "storage", layout |-> Layout(n, lens)]
  BY DEF StorageInputs
<1>2. n \in Nat \ {0} /\ lens \in Seq(Nat \ {0}) /\ lens # <<>>
  BY FileIOAssumption
<1>. QED BY <1>1, <1>2, LayoutLaid

(* What LayoutConsistent says of a torrent.                                *)
LEMMA LaidConsistent ==
  ASSUME NEW l, Laid(l)
  PROVE  /\ UNION {PieceStart(l, p) .. PieceEnd(l, p) - 1 : p \in Pieces(l)} = 0 .. download_len(l) - 1
         /\ \A p \in Pieces(l) :
              /\ files_intersecting_piece(l, p) = {f \in DOMAIN l.files : Overlaps(l, f, p)}
              /\ Hold(Blocks(l, p), PieceStart(l, p), PieceEnd(l, p))
              /\ \A i \in DOMAIN Blocks(l, p) :
                   /\ Blocks(l, p)[i].len > 0
                   /\ index_in_piece(EndOf(Blocks(l, p)[i]) - 1 - PieceStart(l, p)) = i - 1
<1>. DEFINE Part(p) == PieceStart(l, p) .. PieceEnd(l, p) - 1
<1>1. download_len(l) \in Nat
  BY DEF Laid
<1>2. ASSUME NEW p \in Pieces(l), NEW k \in Part(p)
      PROVE  k \in 0 .. download_len(l) - 1
  BY <1>1, PieceNumbers
<1>3. ASSUME NEW k \in 0 .. download_len(l) - 1
      PROVE  \E p \in Pieces(l) : k \in Part(p)
  <2>1. PICK p \in Pieces(l) : PieceStart(l, p) <= k /\ k < PieceEnd(l, p)
    BY PieceAt
  <2>. QED BY <1>1, <2>1, PieceNumbers
<1>4. UNION {Part(p) : p \in Pieces(l)} = 0 .. download_len(l) - 1
  <2>. HIDE DEF Part
  <2>. QED BY <1>2, <1>3
<1>5. ASSUME NEW p \in Pieces(l)
      PROVE  /\ files_intersecting_piece(l, p) = {f \in DOMAIN l.files : Overlaps(l, f, p)}
             /\ Hold(Blocks(l, p), PieceStart(l, p), PieceEnd(l, p))
             /\ \A i \in DOMAIN Blocks(l, p) :
                  /\ Blocks(l, p)[i].len > 0
                  /\ index_in_piece(EndOf(Blocks(l, p)[i]) - 1 - PieceStart(l, p)) = i - 1
  <2>1. Filling(Blocks(l, p), PieceStart(l, p), PieceEnd(l, p))
    BY BlocksFill
  <2>2. DOMAIN Blocks(l, p) = 1 .. Len(Blocks(l, p))
    BY <2>1 DEF Filling
  <2>. QED BY <2>1, <2>2, FilesOfPiece, BlocksFill DEF Filling
<1>. QED BY <1>4, <1>5

(* No step changes the torrent.                                            *)
LEMMA TorrentKept == [FileNext]_vars => input' = input
<1>. SUFFICES ASSUME [FileNext]_vars
              PROVE  input' = input
  OBVIOUS
<1>1. CASE UNCHANGED vars
  BY <1>1 DEF vars
<1>2. CASE StartWrite
  BY <1>2 DEF StartWrite
<1>3. CASE WriteFile
  BY <1>3 DEF WriteFile
<1>4. CASE Pwritev
  BY <1>4 DEF Pwritev
<1>5. CASE FileWritten
  BY <1>5 DEF FileWritten
<1>6. CASE PwritevFails
  BY <1>6 DEF PwritevFails
<1>7. CASE StartRead
  BY <1>7 DEF StartRead
<1>8. CASE ReadFile
  BY <1>8 DEF ReadFile
<1>9. CASE Preadv
  BY <1>9 DEF Preadv
<1>10. CASE FileRead
  BY <1>10 DEF FileRead
<1>11. CASE ReadMissesData
  BY <1>11 DEF ReadMissesData
<1>12. CASE PreadvFails
  BY <1>12 DEF PreadvFails
<1>. QED BY <1>1, <1>2, <1>3, <1>4, <1>5, <1>6, <1>7, <1>8, <1>9, <1>10, <1>11, <1>12 DEF FileNext

(* The lengths of every torrent add up.                                    *)
THEOREM FileLayoutConsistent == FileSpec => []LayoutConsistent
<1>. DEFINE Chosen == input \in StorageInputs
<1>1. Chosen /\ [FileNext]_vars => Chosen'
  BY TorrentKept
<1>2. Chosen => LayoutConsistent
  BY InputLaid, LaidConsistent DEF LayoutConsistent
<1>. QED BY <1>1, <1>2, PTL DEF FileSpec

-----------------------------------------------------------------------------
(* FileIO: where a transfer is.                                            *)

\* How far into the torrent, and in which file.
At(l, r) == PieceStart(l, r.index) + r.total

InFile(l, r) ==
  /\ r.f \in DOMAIN l.files /\ r.total \in Nat
  /\ torrent_offset(l, r.f) <= At(l, r) /\ At(l, r) < torrent_end_offset(l, r.f)
  /\ At(l, r) < PieceEnd(l, r.index)

SliceOf(l, r) ==
  get_slice(l, r.f, PieceStart(l, r.index) + r.total, piece_len(l, r.index) - r.total)

(* The slice is what piece and file share from there.                      *)
LEMMA SliceNumbers ==
  ASSUME NEW l, Laid(l), NEW r, r.index \in Pieces(l), InFile(l, r)
  PROVE  LET slice == SliceOf(l, r)
         IN /\ At(l, r) \in Nat /\ PieceStart(l, r.index) <= At(l, r)
            /\ slice.offset \in Nat /\ torrent_offset(l, r.f) + slice.offset = At(l, r)
            /\ slice.len \in Nat \ {0}
            /\ At(l, r) + slice.len <= PieceEnd(l, r.index)
            /\ At(l, r) + slice.len <= torrent_end_offset(l, r.f)
            /\ \/ At(l, r) + slice.len = PieceEnd(l, r.index)
               \/ At(l, r) + slice.len = torrent_end_offset(l, r.f)
            /\ slice.offset + slice.len <= l.files[r.f].len
<1>. DEFINE slice == SliceOf(l, r)
            at == At(l, r)
            start == PieceStart(l, r.index)
            end == PieceEnd(l, r.index)
            left == piece_len(l, r.index) - r.total
<1>1. start \in Nat /\ end \in Nat /\ end = start + piece_len(l, r.index) /\ piece_len(l, r.index) \in Nat
  BY PieceNumbers
<1>2. /\ r.total \in Nat /\ at = start + r.total /\ at < end
      /\ torrent_offset(l, r.f) <= at /\ at < torrent_end_offset(l, r.f)
  BY DEF InFile, At
<1>3. /\ torrent_offset(l, r.f) \in Nat /\ torrent_end_offset(l, r.f) \in Nat
      /\ torrent_end_offset(l, r.f) = torrent_offset(l, r.f) + l.files[r.f].len
      /\ l.files[r.f].len \in Nat
  BY FileNumbers DEF InFile
<1>4. /\ slice.offset = at - torrent_offset(l, r.f)
      /\ slice.len = IF left < torrent_end_offset(l, r.f) - at THEN left
                     ELSE torrent_end_offset(l, r.f) - at
  BY DEF SliceOf, get_slice, Least, At
<1>5. left = end - at
  BY <1>1, <1>2
<1>. HIDE DEF slice, at, start, end, left
<1>6. at \in Nat /\ start <= at
  BY <1>1, <1>2
<1>7. slice.len \in Nat \ {0} /\ slice.offset \in Nat
  BY <1>1, <1>2, <1>3, <1>4, <1>5, <1>6
<1>8. at + slice.len <= end /\ at + slice.len <= torrent_end_offset(l, r.f)
  BY <1>1, <1>2, <1>3, <1>4, <1>5, <1>6
<1>9. at + slice.len = end \/ at + slice.len = torrent_end_offset(l, r.f)
  BY <1>1, <1>2, <1>3, <1>4, <1>5, <1>6
<1>10. torrent_offset(l, r.f) + slice.offset = at /\ slice.offset + slice.len <= l.files[r.f].len
  BY <1>2, <1>3, <1>4, <1>6, <1>7, <1>8
<1>. QED BY <1>6, <1>7, <1>8, <1>9, <1>10 DEF slice, at, start, end

(* The first file is the one that the piece starts in.                     *)
LEMMA FirstFileIs ==
  ASSUME NEW l, Laid(l), NEW p \in Pieces(l), NEW r, r.index = p, r.f = FirstFile(l, p), r.total = 0
  PROVE  InFile(l, r) /\ At(l, r) = PieceStart(l, p)
<1>. DEFINE start == PieceStart(l, p)
            end == PieceEnd(l, p)
            f == FirstFile(l, p)
<1>1. start \in Nat /\ end \in Nat /\ start < end /\ start \in 0 .. download_len(l) - 1
  <2>1. download_len(l) \in Nat
    BY DEF Laid
  <2>. QED BY <2>1, PieceNumbers
<1>2. PICK g \in DOMAIN l.files : torrent_offset(l, g) <= start /\ start < torrent_end_offset(l, g)
  BY <1>1, FileAt
<1>. DEFINE found == {h \in DOMAIN l.files : Overlaps(l, h, p)}
<1>3. files_intersecting_piece(l, p) = found
  BY FilesOfPiece
<1>4. g \in found
  <2>1. torrent_offset(l, g) \in Nat /\ torrent_end_offset(l, g) \in Nat
    BY <1>2, FileNumbers
  <2>. QED BY <1>1, <1>2, <2>1 DEF Overlaps
<1>5. \A h \in found : g <= h
  <2>1. SUFFICES ASSUME NEW h \in found, h < g
                 PROVE  FALSE
    <3>1. \A h \in found : h \in Nat /\ g \in Nat
      BY FileNumbers
    <3>. QED BY <3>1
  <2>2. torrent_end_offset(l, h) <= torrent_offset(l, g) /\ torrent_end_offset(l, h) > start
    BY <2>1, FilesApart DEF Overlaps
  <2>3. torrent_end_offset(l, h) \in Nat /\ torrent_offset(l, g) \in Nat
    BY FileNumbers
  <2>. QED BY <1>1, <1>2, <2>2, <2>3
<1>6. f \in found /\ \A h \in found : f <= h
  BY <1>3, <1>4, <1>5, Zenon DEF FirstFile
<1>. HIDE DEF f, found
<1>7. f = g
  <2>1. f \in DOMAIN l.files
    BY <1>6 DEF found
  <2>2. f \in Nat /\ g \in Nat /\ f <= g /\ g <= f
    BY <1>4, <1>5, <1>6, <2>1, FileNumbers
  <2>. QED BY <2>2
<1>8. At(l, r) = start
  BY <1>1 DEF At
<1>. QED BY <1>1, <1>2, <1>7, <1>8 DEF InFile, f

(* The next file is the one that the rest of the piece starts in; without  *)
(* one, the piece is done.                                                 *)
LEMMA NextFileIs ==
  ASSUME NEW l, Laid(l), NEW r, r.index \in Pieces(l), InFile(l, r),
         NEW q, q.index = r.index, q.f = r.f + 1, q.total = r.total + SliceOf(l, r).len
  PROVE  /\ At(l, q) = At(l, r) + SliceOf(l, r).len
         /\ StageAfter(l, r.index, r.f) = "next" =>
              InFile(l, q) /\ At(l, q) = torrent_end_offset(l, r.f) /\ At(l, q) < PieceEnd(l, r.index)
         /\ StageAfter(l, r.index, r.f) # "next" =>
              StageAfter(l, r.index, r.f) = "done" /\ At(l, q) = PieceEnd(l, r.index)
<1>. DEFINE p == r.index
            f == r.f
            at == At(l, r)
            n == SliceOf(l, r).len
            start == PieceStart(l, p)
            end == PieceEnd(l, p)
            found == files_intersecting_piece(l, p)
<1>1. /\ at \in Nat /\ start <= at /\ n \in Nat \ {0} /\ at + n <= end /\ at + n <= torrent_end_offset(l, f)
      /\ at + n = end \/ at + n = torrent_end_offset(l, f)
  BY SliceNumbers
<1>2. /\ start \in Nat /\ end \in Nat /\ end <= download_len(l) /\ download_len(l) \in Nat
      /\ f \in DOMAIN l.files /\ r.total \in Nat /\ at = start + r.total
  <2>1. download_len(l) \in Nat
    BY DEF Laid
  <2>. QED BY <2>1, PieceNumbers DEF InFile, At
<1>3. /\ f \in Nat /\ torrent_end_offset(l, f) \in Nat
      /\ \/ torrent_end_offset(l, f) = download_len(l)
         \/ f + 1 \in DOMAIN l.files /\ torrent_offset(l, f + 1) = torrent_end_offset(l, f)
  BY <1>2, FileNumbers
<1>4. found = {g \in DOMAIN l.files : Overlaps(l, g, p)}
  BY FilesOfPiece
<1>5. At(l, q) = at + n /\ q.total \in Nat /\ q.f = f + 1
  BY <1>1, <1>2 DEF At
<1>6. StageAfter(l, p, f) = IF f + 1 \in found THEN "next" ELSE "done"
  BY DEF StageAfter
<1>. HIDE DEF at, n, start, end, found, f, p
<1>7. ASSUME f + 1 \in found
      PROVE  InFile(l, q) /\ At(l, q) = torrent_end_offset(l, f) /\ At(l, q) < end
  <2>1. f + 1 \in DOMAIN l.files /\ torrent_offset(l, f + 1) < end
    BY <1>4, <1>7 DEF Overlaps, end
  <2>2. torrent_end_offset(l, f) <= torrent_offset(l, f + 1)
    BY <1>2, <1>3, <2>1, FilesApart
  <2>3. /\ torrent_offset(l, f + 1) \in Nat /\ torrent_end_offset(l, f + 1) \in Nat
        /\ torrent_offset(l, f + 1) < torrent_end_offset(l, f + 1)
        /\ torrent_end_offset(l, f + 1) <= download_len(l)
    BY <2>1, FileNumbers
  <2>4. torrent_offset(l, f + 1) = torrent_end_offset(l, f)
    BY <1>2, <1>3, <2>2, <2>3
  <2>5. at + n = torrent_end_offset(l, f)
    BY <1>1, <1>2, <1>3, <2>1, <2>3, <2>4
  <2>6. At(l, q) = torrent_end_offset(l, f) /\ At(l, q) < end
    BY <1>5, <2>1, <2>4, <2>5
  <2>7. InFile(l, q)
    BY <1>3, <1>5, <2>1, <2>3, <2>4, <2>6 DEF InFile, end, p
  <2>. QED BY <2>6, <2>7
<1>8. ASSUME f + 1 \notin found
      PROVE  At(l, q) = end
  <2>1. CASE torrent_end_offset(l, f) = download_len(l)
    BY <1>1, <1>2, <1>5, <2>1
  <2>2. CASE f + 1 \in DOMAIN l.files /\ torrent_offset(l, f + 1) = torrent_end_offset(l, f)
    <3>1. /\ torrent_offset(l, f + 1) \in Nat /\ torrent_end_offset(l, f + 1) \in Nat
          /\ torrent_offset(l, f + 1) < torrent_end_offset(l, f + 1)
      BY <2>2, FileNumbers
    <3>2. ~ (torrent_offset(l, f + 1) < end /\ torrent_end_offset(l, f + 1) > start)
      BY <1>4, <1>8, <2>2 DEF Overlaps, start, end
    <3>3. torrent_end_offset(l, f + 1) > start
      BY <1>1, <1>2, <1>3, <2>2, <3>1
    <3>4. end <= torrent_end_offset(l, f)
      BY <1>2, <1>3, <2>2, <3>1, <3>2, <3>3
    <3>. QED BY <1>1, <1>2, <1>3, <1>5, <3>4
  <2>. QED BY <1>3, <2>1, <2>2
<1>. QED BY <1>5, <1>6, <1>7, <1>8 DEF at, n, end, f, p

-----------------------------------------------------------------------------
(* FileIO: writing.                                                        *)

\* Every call so far has transferred all it was asked to, and the cut of the
\* files meets that of the blocks nowhere.
Smooth(l, r) == r.partial = 0 /\ ~ FileEndsAtBlock(l, r.index)

\* The byte of a file, 0 where nothing has been written.
ByteOf(file, k) == IF k \in DOMAIN file THEN file[k] ELSE 0

\* Each file has its part of the bytes from one offset to another.
Written(l, files, from, to) ==
  \A f \in DOMAIN l.files : \A k \in torrent_offset(l, f) .. torrent_end_offset(l, f) - 1 :
    ByteOf(files[f], k - torrent_offset(l, f) + 1) = IF from <= k /\ k < to THEN k + 1 ELSE 0

\* No file has more than its bytes, and nothing outside the piece.
Contained(l, files, from, to) ==
  \A f \in DOMAIN l.files :
    /\ files[f] \in Seq(Nat) /\ Len(files[f]) <= l.files[f].len
    /\ \A k \in 1 .. Len(files[f]) :
         files[f][k] # 0 => from <= torrent_offset(l, f) + k - 1 /\ torrent_offset(l, f) + k - 1 < to

\* An address is that of the end of a block.
EndsBlock(l, r, a) ==
  a = PieceEnd(l, r.index) \/ (a - PieceStart(l, r.index)) % BLOCK_LEN = 0

\* Before a file: the buffers go up to the end of the piece.
BuffersLeft(l, r, from) ==
  /\ Filling(r.bufs, from, PieceEnd(l, r.index))
  /\ Smooth(l, r) => /\ from = At(l, r)
                     /\ \A k \in 1 .. Len(r.bufs) : EndsBlock(l, r, EndOf(r.bufs[k]))

\* In a file: the first half has no more bytes than are left of the slice,
\* and as many if there is a second half.
BuffersSplit(l, r, from, limit) ==
  /\ Halved(r.iovecs, from, limit, PieceEnd(l, r.index))
  /\ \A k \in 1 .. Len(r.iovecs.bufs) : r.iovecs.bufs[k].len # 0
  /\ limit - from <= r.slice.len
  /\ r.count # r.slice.len =>
       /\ limit - from <= r.slice.len - r.count
       /\ r.iovecs.pos > 0 => limit - from = r.slice.len - r.count
  /\ Smooth(l, r) =>
       /\ from = At(l, r) /\ limit = At(l, r) + r.slice.len /\ r.count \in {0, r.slice.len}
       /\ \A k \in 1 .. Len(r.iovecs.bufs) : EndsBlock(l, r, EndBefore(r.iovecs, k + 1))

\* Up to where a smooth transfer has come.
Progress(l, r) ==
  IF r.stage = "next" THEN At(l, r)
  ELSE IF r.stage = "file" THEN At(l, r) + r.count ELSE PieceEnd(l, r.index)

IsWrite(r) ==
  r = [op |-> "write", stage |-> r.stage, index |-> r.index, f |-> r.f, files |-> r.files,
       bufs |-> r.bufs, total |-> r.total, slice |-> r.slice, iovecs |-> r.iovecs,
       count |-> r.count, partial |-> r.partial]

WriteInv(l, r) ==
  /\ IsWrite(r) /\ r.stage \in {"next", "file", "done", "failed"}
  /\ r.index \in Pieces(l) /\ r.partial \in Nat
  /\ DOMAIN r.files = DOMAIN l.files
  /\ Contained(l, r.files, PieceStart(l, r.index), PieceEnd(l, r.index))
  /\ Smooth(l, r) /\ r.stage # "failed" =>
       Written(l, r.files, PieceStart(l, r.index), Progress(l, r))
  /\ r.stage \in {"next", "file"} => InFile(l, r)
  /\ r.stage = "next" => \E from \in Nat : BuffersLeft(l, r, from)
  /\ r.stage = "file" => /\ r.slice = SliceOf(l, r) /\ r.count \in 0 .. r.slice.len
                         /\ \E from, limit \in Nat : BuffersSplit(l, r, from, limit)

\* A file after n bytes that follow an address are written at an offset.
IsOverwritten(new, file, offset, from, n) ==
  /\ new \in Seq(Nat)
  /\ Len(new) = IF offset + n > Len(file) THEN offset + n ELSE Len(file)
  /\ \A k \in 1 .. Len(new) :
       new[k] = IF offset < k /\ k <= offset + n THEN from + (k - offset)
                ELSE IF k <= Len(file) THEN file[k] ELSE 0

(* What is written over a file: its length, and each of its bytes.         *)
LEMMA OverwrittenIs ==
  ASSUME NEW file \in Seq(Nat), NEW offset \in Nat, NEW from \in Nat, NEW to \in Nat,
         NEW bufs \in Seq(Buffers), Hold(bufs, from, to), NEW n \in Nat, n <= to - from,
         NEW new, new = Overwritten(file, offset, bufs, n)
  PROVE  IsOverwritten(new, file, offset, from, n)
<1>. DEFINE m == IF offset + n > Len(file) THEN offset + n ELSE Len(file)
            Byte(k) == IF offset < k /\ k <= offset + n THEN from + (k - offset)
                       ELSE IF k <= Len(file) THEN file[k] ELSE 0
<1>1. m \in Nat /\ Len(file) \in Nat
  OBVIOUS
<1>2. new = [k \in 1 .. m |-> IF offset < k /\ k <= offset + n THEN Address(bufs, k - 1 - offset) + 1
                             ELSE IF k <= Len(file) THEN file[k] ELSE 0]
  BY DEF Overwritten
<1>3. ASSUME NEW k \in 1 .. m, offset < k, k <= offset + n
      PROVE  Address(bufs, k - 1 - offset) + 1 = from + (k - offset)
  <2>1. k - 1 - offset \in 0 .. (to - from) - 1
    BY <1>1, <1>3
  <2>2. Address(bufs, k - 1 - offset) = from + (k - 1 - offset)
    BY <2>1, FillingSums
  <2>. QED BY <1>1, <2>2
<1>4. \A k \in 1 .. m : new[k] = Byte(k)
  BY <1>2, <1>3
<1>5. \A k \in 1 .. m : Byte(k) \in Nat
  BY <1>1
<1>. HIDE DEF Byte
<1>6. new \in Seq(Nat) /\ Len(new) = m
  <2>1. new = [k \in 1 .. m |-> new[k]]
    BY <1>2
  <2>. HIDE DEF m
  <2>2. \A k \in 1 .. m : new[k] \in Nat
    BY <1>4, <1>5
  <2>3. new \in [1 .. m -> Nat]
    BY <2>1, <2>2
  <2>. QED BY <1>1, <2>3
<1>. QED BY <1>4, <1>6 DEF Byte, IsOverwritten


(* What a call writes over a file stays in the piece, if that is where it  *)
(* begins and ends.                                                        *)
LEMMA OverwrittenStays ==
  ASSUME NEW l, Laid(l), NEW files, DOMAIN files = DOMAIN l.files, NEW g \in DOMAIN l.files,
         NEW start \in Nat, NEW end \in Nat, Contained(l, files, start, end),
         NEW offset \in Nat, NEW n \in Nat, offset + n <= l.files[g].len,
         start <= torrent_offset(l, g) + offset, torrent_offset(l, g) + offset + n <= end,
         NEW bufs \in Seq(Buffers), NEW from \in Nat, NEW to \in Nat, Hold(bufs, from, to), n <= to - from,
         NEW new, new = Overwritten(files[g], offset, bufs, n)
  PROVE  Contained(l, [files EXCEPT ![g] = new], start, end)
<1>. DEFINE file == files[g]
            lo == torrent_offset(l, g)
            size == l.files[g].len
            after == [files EXCEPT ![g] = new]
<1>1. lo \in Nat /\ size \in Nat
  BY FileNumbers
<1>2. file \in Seq(Nat) /\ Len(file) <= size
  BY DEF Contained
<1>3. Len(file) \in Nat
  BY <1>2
<1>4. /\ new \in Seq(Nat)
      /\ Len(new) = IF offset + n > Len(file) THEN offset + n ELSE Len(file)
      /\ \A k \in 1 .. Len(new) :
           new[k] = IF offset < k /\ k <= offset + n THEN from + (k - offset)
                    ELSE IF k <= Len(file) THEN file[k] ELSE 0
  <2>1. new = Overwritten(file, offset, bufs, n)
    OBVIOUS
  <2>. HIDE DEF file
  <2>2. IsOverwritten(new, file, offset, from, n)
    BY <1>2, <2>1, OverwrittenIs
  <2>. QED BY <2>2 DEF IsOverwritten
<1>5. offset + n <= size /\ start <= lo + offset /\ lo + offset + n <= end
  OBVIOUS
<1>6. \A k \in 1 .. Len(file) : file[k] # 0 => start <= lo + k - 1 /\ lo + k - 1 < end
  BY DEF Contained
<1>7. after[g] = new /\ \A f \in DOMAIN l.files : f # g => after[f] = files[f]
  OBVIOUS
<1>. HIDE DEF file, lo, size, after
<1>8. Len(new) <= size
  BY <1>1, <1>2, <1>3, <1>4, <1>5
<1>9. ASSUME NEW k \in 1 .. Len(new), new[k] # 0
      PROVE  start <= lo + k - 1 /\ lo + k - 1 < end
  <2>1. k \in Nat \ {0}
    BY SMTT(30), <1>4
  <2>2. CASE offset < k /\ k <= offset + n
    BY <1>1, <1>5, <2>1, <2>2
  <2>3. CASE ~ (offset < k /\ k <= offset + n)
    <3>1. k <= Len(file) /\ file[k] # 0
      BY <1>4, <1>9, <2>3
    <3>2. k \in 1 .. Len(file)
      BY <1>3, <2>1, <3>1
    <3>. QED BY <1>6, <3>1, <3>2
  <2>. QED BY <2>2, <2>3
<1>10. ASSUME NEW f \in DOMAIN l.files
       PROVE  /\ after[f] \in Seq(Nat) /\ Len(after[f]) <= l.files[f].len
              /\ \A k \in 1 .. Len(after[f]) :
                   after[f][k] # 0 => /\ start <= torrent_offset(l, f) + k - 1
                                      /\ torrent_offset(l, f) + k - 1 < end
  <2>1. CASE f = g
    BY <1>4, <1>7, <1>8, <1>9, <2>1 DEF size, lo
  <2>2. CASE f # g
    BY <1>7, <2>2 DEF Contained
  <2>. QED BY <2>1, <2>2
<1>. QED BY <1>10 DEF Contained, after

(* The position in a file of a byte of a run of bytes that are written.    *)
LEMMA RunPosition ==
  ASSUME NEW lo \in Nat, NEW offset \in Nat, NEW at \in Nat, NEW n \in Nat, lo + offset = at,
         NEW k \in Nat, at <= k, k < at + n, NEW i, i = k - lo + 1
  PROVE  offset < i /\ i <= offset + n /\ at + (i - offset) = k + 1
OBVIOUS

(* What is written where the bytes before it end is in its place.          *)
LEMMA OverwrittenGoesOn ==
  ASSUME NEW l, Laid(l), NEW files, DOMAIN files = DOMAIN l.files, NEW g \in DOMAIN l.files,
         files[g] \in Seq(Nat), NEW start \in Nat, NEW at \in Nat, Written(l, files, start, at), start <= at,
         NEW offset \in Nat, torrent_offset(l, g) + offset = at, NEW n \in Nat,
         at + n <= torrent_end_offset(l, g),
         NEW bufs \in Seq(Buffers), NEW to \in Nat, Hold(bufs, at, to), n <= to - at,
         NEW new, new = Overwritten(files[g], offset, bufs, n)
  PROVE  Written(l, [files EXCEPT ![g] = new], start, at + n)
<1>. DEFINE file == files[g]
            lo == torrent_offset(l, g)
            hi == torrent_end_offset(l, g)
            after == [files EXCEPT ![g] = new]
<1>1. lo \in Nat /\ hi \in Nat /\ g \in Nat /\ lo + offset = at /\ at + n <= hi
  BY FileNumbers
<1>2. Len(file) \in Nat /\ DOMAIN file = 1 .. Len(file)
  OBVIOUS
<1>3. /\ new \in Seq(Nat)
      /\ Len(new) = IF offset + n > Len(file) THEN offset + n ELSE Len(file)
      /\ \A k \in 1 .. Len(new) :
           new[k] = IF offset < k /\ k <= offset + n THEN at + (k - offset)
                    ELSE IF k <= Len(file) THEN file[k] ELSE 0
  <2>1. new = Overwritten(file, offset, bufs, n) /\ file \in Seq(Nat)
    OBVIOUS
  <2>. HIDE DEF file
  <2>2. IsOverwritten(new, file, offset, at, n)
    BY <2>1, OverwrittenIs
  <2>. QED BY <2>2 DEF IsOverwritten
<1>4. after[g] = new /\ \A f \in DOMAIN l.files : f # g => after[f] = files[f]
  OBVIOUS
<1>5. DOMAIN new = 1 .. Len(new) /\ Len(new) \in Nat
  BY <1>3
<1>6. ASSUME NEW f \in DOMAIN l.files, NEW k \in torrent_offset(l, f) .. torrent_end_offset(l, f) - 1
      PROVE  ByteOf(after[f], k - torrent_offset(l, f) + 1) = IF start <= k /\ k < at + n THEN k + 1 ELSE 0
  <2>. DEFINE b == torrent_offset(l, f)
              e == torrent_end_offset(l, f)
              i == k - b + 1
  <2>1. b \in Nat /\ e \in Nat /\ f \in Nat
    BY FileNumbers
  <2>2. f # g => e <= lo \/ hi <= b
    BY SMTT(30), <1>1, <2>1, FilesApart
  <2>3. ByteOf(files[f], i) = IF start <= k /\ k < at THEN k + 1 ELSE 0
    BY DEF Written
  <2>4. k \in b .. e - 1
    OBVIOUS
  <2>5. f = g => b = lo
    OBVIOUS
  <2>. HIDE DEF lo, hi, file, after, b, e
  <2>6. k \in Nat /\ b <= k /\ k < e /\ i \in Nat \ {0}
    BY <2>1, <2>4
  <2>7. CASE ~ (at <= k /\ k < at + n)
    <3>1. (start <= k /\ k < at) <=> (start <= k /\ k < at + n)
      BY <2>6, <2>7
    <3>2. ByteOf(after[f], i) = ByteOf(files[f], i)
      <4>1. CASE f # g
        BY <1>4, <4>1
      <4>2. CASE f = g
        <5>1. ~ (offset < i /\ i <= offset + n)
          BY <1>1, <2>5, <2>6, <2>7, <4>2
        <5>. HIDE DEF i
        <5>2. i \in 1 .. Len(file) => i \in 1 .. Len(new)
          BY <1>2, <1>3
        <5>3. i \in 1 .. Len(new) => new[i] = IF i \in 1 .. Len(file) THEN file[i] ELSE 0
          BY SMTT(30), <1>2, <1>3, <2>6, <5>1
        <5>4. ByteOf(new, i) = ByteOf(file, i)
          BY <1>2, <1>5, <5>2, <5>3 DEF ByteOf
        <5>. QED BY <1>4, <4>2, <5>4 DEF file
      <4>. QED BY <4>1, <4>2
    <3>. HIDE DEF i
    <3>3. ByteOf(after[f], i) = IF start <= k /\ k < at + n THEN k + 1 ELSE 0
      BY <2>3, <3>1, <3>2
    <3>. QED BY <3>3 DEF i, b
  <2>8. CASE at <= k /\ k < at + n
    <3>1. f = g
      BY SMTT(30), <1>1, <2>1, <2>2, <2>6, <2>8
    <3>2. i = k - lo + 1 /\ start <= k
      BY <2>5, <2>6, <2>8, <3>1
    <3>. HIDE DEF i
    <3>3. offset < i /\ i <= offset + n /\ at + (i - offset) = k + 1
      BY <1>1, <2>6, <2>8, <3>2, RunPosition
    <3>4. i \in 1 .. Len(new)
      <4>1. offset + n <= Len(new)
        BY <1>1, <1>2, <1>3
      <4>. QED BY <1>5, <2>6, <3>3, <4>1
    <3>5. new[i] = k + 1
      BY <1>3, <3>3, <3>4
    <3>6. ByteOf(after[f], i) = k + 1
      BY <1>4, <1>5, <3>1, <3>4, <3>5 DEF ByteOf
    <3>. QED BY <2>8, <3>2, <3>6 DEF i, b
  <2>. QED BY <2>7, <2>8
<1>. QED BY <1>6 DEF Written, after

\* What a call makes of a write.
AfterPwritev(r, n) ==
  [r EXCEPT !.files[r.f] = Overwritten(@, r.slice.offset, as_slice(r.iovecs), n),
            !.count = @ + n,
            !.partial = r.partial + (IF n = LenOf(as_slice(r.iovecs)) THEN 0 ELSE 1),
            !.iovecs = IF r.count + n = r.slice.len THEN @ ELSE advance(@, n)]

(* That is a write.                                                        *)
LEMMA AfterPwritevIs ==
  ASSUME NEW r, IsWrite(r), NEW n, NEW q, q = AfterPwritev(r, n)
  PROVE  /\ q.stage = r.stage /\ q.index = r.index /\ q.f = r.f /\ q.total = r.total /\ q.slice = r.slice
         /\ q.files = [r.files EXCEPT ![r.f] =
                         Overwritten(r.files[r.f], r.slice.offset, as_slice(r.iovecs), n)]
         /\ q.iovecs = (IF r.count + n = r.slice.len THEN r.iovecs ELSE advance(r.iovecs, n))
         /\ q.count = r.count + n /\ IsWrite(q)
         /\ q.partial = r.partial + (IF n = LenOf(as_slice(r.iovecs)) THEN 0 ELSE 1)
<1>. DEFINE new == Overwritten(r.files[r.f], r.slice.offset, as_slice(r.iovecs), n)
            files == [r.files EXCEPT ![r.f] = new]
            more == r.count + n
            partial == r.partial + (IF n = LenOf(as_slice(r.iovecs)) THEN 0 ELSE 1)
            old == <<r.files, r.iovecs, r.count, r.partial>>
            stage == r.stage
            index == r.index
            f == r.f
            bufs == r.bufs
            total == r.total
            slice == r.slice
            u == IF r.count + n = r.slice.len THEN r.iovecs ELSE advance(r.iovecs, n)
<1>1. r = [op |-> "write", stage |-> stage, index |-> index, f |-> f, files |-> old[1],
           bufs |-> bufs, total |-> total, slice |-> slice, iovecs |-> old[2],
           count |-> old[3], partial |-> old[4]]
  BY DEF IsWrite
<1>2. q = [r EXCEPT !.files = files, !.count = more, !.partial = partial, !.iovecs = u]
  BY <1>1 DEF AfterPwritev
<1>. HIDE DEF files, more, partial, u, old, stage, index, f, bufs, total, slice
<1>3. q = [op |-> "write", stage |-> stage, index |-> index, f |-> f, files |-> files,
           bufs |-> bufs, total |-> total, slice |-> slice, iovecs |-> u,
           count |-> more, partial |-> partial]
  BY ZenonT(60), <1>1, <1>2
<1>. QED BY <1>3 DEF IsWrite, files, more, partial, u, old, stage, index, f, bufs, total, slice

(* A call writes into the slice, and its bytes where they belong.          *)
LEMMA PwritevKeeps ==
  ASSUME NEW l, Laid(l), NEW r, WriteInv(l, r), r.stage = "file", r.count # r.slice.len,
         NEW n \in Nat \ {0}, n <= LenOf(as_slice(r.iovecs)), NEW q, q = AfterPwritev(r, n)
  PROVE  WriteInv(l, q)
<1>. DEFINE start == PieceStart(l, r.index)
            end == PieceEnd(l, r.index)
            at == At(l, r)
            len == r.slice.len
            offset == r.slice.offset
            count == r.count
            lo == torrent_offset(l, r.f)
            hi == torrent_end_offset(l, r.f)
            size == l.files[r.f].len
            v == r.iovecs
            bufs == as_slice(v)
            file == r.files[r.f]
            new == Overwritten(file, offset, bufs, n)
            u == IF count + n = len THEN v ELSE advance(v, n)
<1>1. /\ IsWrite(r) /\ r.index \in Pieces(l) /\ r.partial \in Nat /\ InFile(l, r)
      /\ r.slice = SliceOf(l, r) /\ count \in 0 .. len
      /\ DOMAIN r.files = DOMAIN l.files /\ Contained(l, r.files, start, end)
      /\ Smooth(l, r) => Written(l, r.files, start, at + count)
  BY DEF WriteInv, Progress
<1>2. PICK from \in Nat, limit \in Nat : BuffersSplit(l, r, from, limit)
  BY DEF WriteInv
<1>3. /\ q.stage = "file" /\ q.index = r.index /\ q.f = r.f
      /\ q.files = [r.files EXCEPT ![r.f] = new] /\ q.total = r.total /\ q.slice = r.slice
      /\ q.iovecs = u /\ q.count = count + n /\ IsWrite(q)
      /\ q.partial = r.partial + (IF n = LenOf(bufs) THEN 0 ELSE 1)
  BY <1>1, AfterPwritevIs
<1>4. /\ start \in Nat /\ end \in Nat /\ at \in Nat /\ start <= at /\ offset \in Nat
      /\ lo + offset = at /\ len \in Nat \ {0} /\ at + len <= end /\ at + len <= hi
      /\ offset + len <= size
  BY <1>1, SliceNumbers, PieceNumbers
<1>5. r.f \in DOMAIN l.files /\ lo \in Nat /\ hi \in Nat /\ size \in Nat /\ hi = lo + size
  BY <1>1, FileNumbers DEF InFile
<1>6. /\ Halved(v, from, limit, end) /\ count # len /\ limit - from <= len - count
      /\ v.pos > 0 => limit - from = len - count
  BY <1>2 DEF BuffersSplit
<1>7. /\ bufs \in Seq(Buffers) /\ Hold(bufs, from, limit) /\ LenOf(bufs) = limit - from
      /\ file \in Seq(Nat)
  <2>1. Filling(bufs, from, limit)
    BY <1>4, <1>6, FirstHalf
  <2>. QED BY <1>1, <1>5, <2>1, FillingSums DEF Filling, Contained
<1>. HIDE DEF new, u, v, bufs, start, end, at, len, offset, count, lo, hi, size, file
<1>8. n <= limit - from /\ count \in Nat
  <2>1. n <= LenOf(bufs)
    BY DEF bufs, v
  <2>. QED BY <1>1, <1>4, <1>7, <2>1
<1>9. count + n <= len /\ n <= len
  BY <1>4, <1>6, <1>8
<1>10. q.partial \in Nat /\ (q.partial = 0 => r.partial = 0 /\ n = LenOf(bufs))
  BY <1>1, <1>3
<1>11. Contained(l, q.files, start, end) /\ DOMAIN q.files = DOMAIN l.files
  <2>1. offset + n <= size /\ start <= lo + offset /\ lo + offset + n <= end
    BY <1>4, <1>5, <1>9
  <2>2. new = Overwritten(r.files[r.f], offset, bufs, n)
    BY DEF new, file
  <2>3. Contained(l, [r.files EXCEPT ![r.f] = new], start, end)
    BY <1>1, <1>2, <1>4, <1>5, <1>7, <1>8, <2>1, <2>2, OverwrittenStays DEF size, lo
  <2>. QED BY <1>1, <1>3, <2>3
<1>12. ASSUME Smooth(l, q)
       PROVE  /\ Smooth(l, r) /\ count = 0 /\ n = len /\ from = at /\ limit = at + len
              /\ \A k \in 1 .. Len(v.bufs) : EndsBlock(l, r, EndBefore(v, k + 1))
  <2>1. Smooth(l, r) /\ n = LenOf(bufs)
    BY <1>3, <1>10, <1>12 DEF Smooth
  <2>2. /\ from = at /\ limit = at + len /\ count \in {0, len}
        /\ \A k \in 1 .. Len(v.bufs) : EndsBlock(l, r, EndBefore(v, k + 1))
    BY <1>2, <2>1 DEF BuffersSplit, at, len, count, v
  <2>. QED BY <1>4, <1>6, <1>7, <2>1, <2>2
<1>13. ASSUME Smooth(l, q)
       PROVE  Written(l, q.files, start, at + (count + n))
  <2>1. Written(l, r.files, start, at) /\ count + n = n
    <3>1. at + count = at /\ count + n = n
      BY <1>4, <1>12, <1>13
    <3>. QED BY <1>1, <1>12, <1>13, <3>1
  <2>2. new = Overwritten(r.files[r.f], offset, bufs, n) /\ r.files[r.f] \in Seq(Nat) /\ at + n <= hi
    BY <1>4, <1>7, <1>12, <1>13 DEF new, file
  <2>3. Hold(bufs, at, limit) /\ n <= limit - at
    BY <1>7, <1>8, <1>12, <1>13
  <2>4. Written(l, [r.files EXCEPT ![r.f] = new], start, at + n)
    BY <1>1, <1>2, <1>4, <1>5, <1>7, <2>1, <2>2, <2>3, OverwrittenGoesOn DEF hi, lo
  <2>. QED BY <1>3, <2>1, <2>4
<1>14. At(l, q) = at /\ InFile(l, q) /\ q.slice = SliceOf(l, q)
  BY <1>1, <1>3 DEF At, InFile, SliceOf, at
<1>15. count + n \in 0 .. len /\ q.slice.len = len
  BY <1>3, <1>4, <1>8, <1>9 DEF len
<1>16. \E a, b \in Nat : BuffersSplit(l, q, a, b)
  <2>1. CASE count + n = len
    <3>1. q.iovecs = v /\ q.count = q.slice.len
      BY <1>3, <1>15, <2>1 DEF u
    <3>2. Halved(q.iovecs, from, limit, PieceEnd(l, q.index)) /\ limit - from <= q.slice.len
      BY <1>2, <1>3, <1>6, <1>15, <3>1 DEF end, BuffersSplit, len
    <3>3. \A k \in 1 .. Len(q.iovecs.bufs) : q.iovecs.bufs[k].len # 0
      BY <1>2, <3>1 DEF BuffersSplit, v
    <3>4. Smooth(l, q) => /\ from = At(l, q) /\ limit = At(l, q) + q.slice.len
                          /\ \A k \in 1 .. Len(q.iovecs.bufs) : EndsBlock(l, q, EndBefore(q.iovecs, k + 1))
      BY <1>3, <1>12, <1>14, <1>15, <3>1 DEF EndsBlock
    <3>. QED BY <1>2, <3>1, <3>2, <3>3, <3>4 DEF BuffersSplit
  <2>2. CASE count + n # len
    <3>1. q.iovecs = u /\ u = advance(v, n) /\ from + n \in Nat
      BY <1>2, <1>3, <2>2 DEF u
    <3>2. Halved(u, from + n, limit, end) /\ (u.pos = 0 <=> v.pos = 0)
      BY <1>2, <1>4, <1>6, <1>8, <3>1, AdvanceHalves
    <3>3. u.pos \in Nat /\ v.pos \in Nat
      BY <1>6, <3>2, IoVecsFields DEF Halved
    <3>4. u.pos > 0 => limit - (from + n) = len - (count + n)
      BY <1>2, <1>4, <1>6, <1>8, <3>2, <3>3
    <3>5. limit - (from + n) <= len - (count + n) /\ limit - (from + n) <= len
      BY <1>2, <1>4, <1>6, <1>8
    <3>6. from + n < limit \/ u.pos = 0
      BY <1>2, <1>4, <1>8, <1>9, <2>2, <3>3, <3>4
    <3>7. \A k \in 1 .. Len(u.bufs) : u.bufs[k].len # 0
      <4>1. \A k \in 1 .. Len(u.bufs) : u.bufs[k].len \in Nat /\ u.bufs[k].len > 0
        BY <1>2, <1>4, <3>1, <3>2, <3>6, HalvedPositive
      <4>. QED BY <4>1
    <3>8. ~ Smooth(l, q)
      BY <1>4, <1>12, <2>2
    <3>9. q.count = count + n
      BY <1>3
    <3>10. BuffersSplit(l, q, from + n, limit)
      BY <1>3, <1>15, <3>1, <3>2, <3>4, <3>5, <3>7, <3>8, <3>9 DEF BuffersSplit, end
    <3>. QED BY <1>2, <3>1, <3>10
  <2>. QED BY <2>1, <2>2
<1>. QED BY <1>1, <1>3, <1>10, <1>11, <1>13, <1>14, <1>15, <1>16 DEF WriteInv, Progress, start, end

\* What the other steps make of a write.
AfterWriteFile(l, r) ==
  [r EXCEPT !.stage = "file", !.slice = SliceOf(l, r), !.count = 0,
            !.iovecs = bounded(r.bufs, SliceOf(l, r).len)]

AfterFileWritten(l, r) ==
  [r EXCEPT !.stage = StageAfter(l, r.index, r.f), !.f = @ + 1,
            !.bufs = into_tail(r.iovecs), !.total = @ + r.slice.len]

AfterWriteFailed(r) == [r EXCEPT !.stage = "failed"]

(* These are writes, and what does not change in them.                     *)
LEMMA AfterWriteIs ==
  ASSUME NEW l, NEW r, IsWrite(r)
  PROVE  /\ \A q : q = AfterWriteFile(l, r) =>
              /\ IsWrite(q) /\ q.stage = "file" /\ q.index = r.index /\ q.f = r.f /\ q.files = r.files
              /\ q.total = r.total /\ q.slice = SliceOf(l, r) /\ q.count = 0 /\ q.partial = r.partial
              /\ q.iovecs = bounded(r.bufs, SliceOf(l, r).len)
         /\ \A q : q = AfterFileWritten(l, r) =>
              /\ IsWrite(q) /\ q.stage = StageAfter(l, r.index, r.f) /\ q.index = r.index /\ q.f = r.f + 1
              /\ q.files = r.files /\ q.bufs = into_tail(r.iovecs) /\ q.total = r.total + r.slice.len
              /\ q.partial = r.partial
         /\ \A q : q = AfterWriteFailed(r) =>
              /\ IsWrite(q) /\ q.stage = "failed" /\ q.index = r.index /\ q.files = r.files
              /\ q.partial = r.partial
<1>. DEFINE stage == r.stage
            index == r.index
            f == r.f
            files == r.files
            bufs == r.bufs
            total == r.total
            slice == r.slice
            iovecs == r.iovecs
            count == r.count
            partial == r.partial
            s1 == SliceOf(l, r)
            v1 == bounded(r.bufs, SliceOf(l, r).len)
            stage2 == StageAfter(l, r.index, r.f)
            f2 == r.f + 1
            bufs2 == into_tail(r.iovecs)
            total2 == r.total + r.slice.len
<1>1. r = [op |-> "write", stage |-> stage, index |-> index, f |-> f, files |-> files, bufs |-> bufs,
           total |-> total, slice |-> slice, iovecs |-> iovecs, count |-> count, partial |-> partial]
  BY DEF IsWrite
<1>2. AfterWriteFile(l, r) = [r EXCEPT !.stage = "file", !.slice = s1, !.count = 0, !.iovecs = v1]
  BY DEF AfterWriteFile
<1>3. AfterFileWritten(l, r) = [r EXCEPT !.stage = stage2, !.f = f2, !.bufs = bufs2, !.total = total2]
  BY DEF AfterFileWritten
<1>. HIDE DEF stage, index, f, files, bufs, total, slice, iovecs, count, partial,
             s1, v1, stage2, f2, bufs2, total2
<1>4. AfterWriteFile(l, r) =
        [op |-> "write", stage |-> "file", index |-> index, f |-> f, files |-> files, bufs |-> bufs,
         total |-> total, slice |-> s1, iovecs |-> v1, count |-> 0, partial |-> partial]
  BY ZenonT(60), <1>1, <1>2
<1>5. AfterFileWritten(l, r) =
        [op |-> "write", stage |-> stage2, index |-> index, f |-> f2, files |-> files, bufs |-> bufs2,
         total |-> total2, slice |-> slice, iovecs |-> iovecs, count |-> count, partial |-> partial]
  BY ZenonT(60), <1>1, <1>3
<1>6. AfterWriteFailed(r) =
        [op |-> "write", stage |-> "failed", index |-> index, f |-> f, files |-> files, bufs |-> bufs,
         total |-> total, slice |-> slice, iovecs |-> iovecs, count |-> count, partial |-> partial]
  BY <1>1 DEF AfterWriteFailed
<1>7. ASSUME NEW q, q = AfterWriteFile(l, r)
      PROVE  /\ IsWrite(q) /\ q.stage = "file" /\ q.index = r.index /\ q.f = r.f /\ q.files = r.files
             /\ q.total = r.total /\ q.slice = SliceOf(l, r) /\ q.count = 0 /\ q.partial = r.partial
             /\ q.iovecs = bounded(r.bufs, SliceOf(l, r).len)
  BY <1>4, <1>7 DEF IsWrite, index, f, files, total, partial, s1, v1
<1>8. ASSUME NEW q, q = AfterFileWritten(l, r)
      PROVE  /\ IsWrite(q) /\ q.stage = StageAfter(l, r.index, r.f) /\ q.index = r.index /\ q.f = r.f + 1
             /\ q.files = r.files /\ q.bufs = into_tail(r.iovecs) /\ q.total = r.total + r.slice.len
             /\ q.partial = r.partial
  BY <1>5, <1>8 DEF IsWrite, stage2, index, f2, files, bufs2, total2, partial
<1>9. ASSUME NEW q, q = AfterWriteFailed(r)
      PROVE  /\ IsWrite(q) /\ q.stage = "failed" /\ q.index = r.index /\ q.files = r.files
             /\ q.partial = r.partial
  BY <1>6, <1>9 DEF IsWrite, index, files, partial
<1>. QED BY <1>7, <1>8, <1>9

(* Splitting the buffers at the end of the slice touches no file.          *)
LEMMA WriteFileKeeps ==
  ASSUME NEW l, Laid(l), NEW r, WriteInv(l, r), r.stage = "next", NEW q, q = AfterWriteFile(l, r)
  PROVE  WriteInv(l, q)
<1>. DEFINE start == PieceStart(l, r.index)
            end == PieceEnd(l, r.index)
            at == At(l, r)
            len == SliceOf(l, r).len
            v == bounded(r.bufs, len)
<1>1. /\ IsWrite(r) /\ r.index \in Pieces(l) /\ r.partial \in Nat /\ InFile(l, r)
      /\ DOMAIN r.files = DOMAIN l.files /\ Contained(l, r.files, start, end)
      /\ Smooth(l, r) => Written(l, r.files, start, at)
  BY DEF WriteInv, Progress
<1>2. PICK from \in Nat : BuffersLeft(l, r, from)
  BY DEF WriteInv
<1>3. /\ IsWrite(q) /\ q.stage = "file" /\ q.index = r.index /\ q.f = r.f /\ q.files = r.files
      /\ q.total = r.total /\ q.slice = SliceOf(l, r) /\ q.count = 0 /\ q.partial = r.partial
      /\ q.iovecs = v
  BY <1>1, AfterWriteIs
<1>4. end \in Nat /\ at \in Nat /\ len \in Nat \ {0} /\ at + len <= end
  BY <1>1, SliceNumbers, PieceNumbers
<1>5. /\ Filling(r.bufs, from, end)
      /\ Smooth(l, r) => from = at /\ \A k \in 1 .. Len(r.bufs) : EndsBlock(l, r, EndOf(r.bufs[k]))
  BY <1>2 DEF BuffersLeft
<1>. DEFINE limit == Least(from + len, end)
<1>6. /\ Halved(v, from, limit, end) /\ (v.pos > 0 => from + len <= end) /\ Len(v.bufs) = Len(r.bufs)
      /\ \A k \in 1 .. Len(r.bufs) : v.bufs[k].len > 0 /\ EndBefore(v, k + 1) = EndOf(r.bufs[k])
  <2>. HIDE DEF len, end
  <2>. QED BY <1>2, <1>4, <1>5, BoundedHalves
<1>7. limit = IF from + len < end THEN from + len ELSE end
  BY DEF Least
<1>8. q.slice.len = len /\ q.index = r.index /\ At(l, q) = at /\ InFile(l, q) /\ SliceOf(l, q) = q.slice
  BY <1>1, <1>3 DEF At, InFile, SliceOf
<1>9. Smooth(l, q) <=> Smooth(l, r)
  BY <1>3 DEF Smooth
<1>. HIDE DEF start, end, at, len, v, limit
<1>10. limit \in Nat /\ limit - from <= len /\ (from + len <= end => limit - from = len)
  BY <1>2, <1>4, <1>7
<1>11. \A k \in 1 .. Len(q.iovecs.bufs) : q.iovecs.bufs[k].len # 0
  BY <1>3, <1>6
<1>12. BuffersSplit(l, q, from, limit)
  <2>1. Halved(q.iovecs, from, limit, PieceEnd(l, q.index))
    BY <1>3, <1>6 DEF end
  <2>2. limit - from <= q.slice.len
    BY <1>8, <1>10
  <2>3. limit - from <= q.slice.len - q.count
    BY <1>2, <1>3, <1>4, <1>8, <1>10
  <2>4. q.iovecs.pos > 0 => limit - from = q.slice.len - q.count
    <3>1. len - 0 = len
      BY <1>4
    <3>. QED BY <1>3, <1>6, <1>8, <1>10, <3>1
  <2>5. ASSUME Smooth(l, q)
        PROVE  /\ from = At(l, q) /\ limit = At(l, q) + q.slice.len /\ q.count \in {0, q.slice.len}
               /\ \A k \in 1 .. Len(q.iovecs.bufs) : EndsBlock(l, q, EndBefore(q.iovecs, k + 1))
    <3>1. from = at /\ \A k \in 1 .. Len(r.bufs) : EndsBlock(l, r, EndOf(r.bufs[k]))
      BY <1>5, <1>9, <2>5
    <3>2. limit = at + len
      BY <1>2, <1>4, <1>7, <3>1
    <3>3. \A k \in 1 .. Len(v.bufs) : EndsBlock(l, q, EndBefore(v, k + 1))
      BY <1>3, <1>6, <3>1 DEF EndsBlock
    <3>. QED BY <1>3, <1>8, <3>1, <3>2, <3>3
  <2>. QED BY <1>11, <2>1, <2>2, <2>3, <2>4, <2>5 DEF BuffersSplit
<1>13. Smooth(l, q) => Written(l, q.files, start, at + 0)
  <2>1. at + 0 = at
    BY <1>4
  <2>. QED BY <1>1, <1>3, <1>9, <2>1
<1>14. 0 \in 0 .. q.slice.len
  BY <1>4, <1>8
<1>. QED BY <1>1, <1>2, <1>3, <1>8, <1>10, <1>12, <1>13, <1>14 DEF WriteInv, Progress, start, end

(* A call that fails leaves the files as they are.                         *)
LEMMA WriteFailedKeeps ==
  ASSUME NEW l, NEW r, WriteInv(l, r), NEW q, q = AfterWriteFailed(r)
  PROVE  WriteInv(l, q)
<1>1. IsWrite(r)
  BY DEF WriteInv
<1>2. /\ IsWrite(q) /\ q.stage = "failed" /\ q.index = r.index /\ q.files = r.files
      /\ q.partial = r.partial
  BY <1>1, AfterWriteIs
<1>. QED BY <1>2 DEF WriteInv

\* A write as it begins.
StartedWrite(l, index) ==
  [op |-> "write", stage |-> "next", index |-> index, f |-> FirstFile(l, index),
   files |-> [f \in DOMAIN l.files |-> <<>>], bufs |-> Blocks(l, index), total |-> 0, slice |-> NoSlice,
   iovecs |-> unbounded(<<>>), count |-> 0, partial |-> 0]

(* At first the blocks fill the piece and the files hold nothing.          *)
LEMMA StartWriteKeeps ==
  ASSUME NEW l, Laid(l), NEW index \in Pieces(l), NEW q, q = StartedWrite(l, index)
  PROVE  WriteInv(l, q)
<1>. DEFINE start == PieceStart(l, index)
            end == PieceEnd(l, index)
            bufs == Blocks(l, index)
            first == FirstFile(l, index)
            files == [f \in DOMAIN l.files |-> <<>>]
            iovecs == unbounded(<<>>)
<1>1. q = [op |-> "write", stage |-> "next", index |-> index, f |-> first,
           files |-> files, bufs |-> bufs, total |-> 0, slice |-> NoSlice,
           iovecs |-> iovecs, count |-> 0, partial |-> 0]
  BY DEF StartedWrite
<1>. HIDE DEF bufs, first, files, iovecs
<1>2. /\ IsWrite(q) /\ q.stage = "next" /\ q.index = index /\ q.f = first /\ q.total = 0
      /\ q.partial = 0 /\ q.files = files /\ q.bufs = bufs
  BY <1>1 DEF IsWrite
<1>3. InFile(l, q) /\ At(l, q) = start
  BY <1>2, FirstFileIs DEF first
<1>4. start \in Nat /\ end \in Nat
  BY PieceNumbers
<1>5. /\ Filling(bufs, start, end)
      /\ \A i \in DOMAIN bufs : EndOf(bufs[i]) = end \/ (EndOf(bufs[i]) - start) % BLOCK_LEN = 0
  BY BlocksFill DEF bufs
<1>6. \A k \in 1 .. Len(bufs) : EndsBlock(l, q, EndOf(bufs[k]))
  <2>1. DOMAIN bufs = 1 .. Len(bufs)
    BY <1>5 DEF Filling
  <2>. QED BY <1>2, <1>5, <2>1 DEF EndsBlock
<1>7. BuffersLeft(l, q, start)
  BY <1>2, <1>3, <1>5, <1>6 DEF BuffersLeft
<1>8. DOMAIN files = DOMAIN l.files /\ \A f \in DOMAIN l.files : files[f] = <<>>
  BY DEF files
<1>9. Contained(l, files, start, end)
  <2>1. ASSUME NEW f \in DOMAIN l.files
        PROVE  /\ files[f] \in Seq(Nat) /\ Len(files[f]) <= l.files[f].len
               /\ \A k \in 1 .. Len(files[f]) :
                    files[f][k] # 0 => /\ start <= torrent_offset(l, f) + k - 1
                                       /\ torrent_offset(l, f) + k - 1 < end
    <3>1. l.files[f].len \in Nat
      BY FileNumbers
    <3>2. files[f] = <<>>
      BY <1>8
    <3>3. <<>> \in Seq(Nat) /\ Len(<<>>) = 0
      OBVIOUS
    <3>. QED BY <3>1, <3>2, <3>3
  <2>. QED BY <2>1 DEF Contained
<1>10. Written(l, files, start, start)
  <2>1. ASSUME NEW f \in DOMAIN l.files,
               NEW k \in torrent_offset(l, f) .. torrent_end_offset(l, f) - 1
        PROVE  ByteOf(files[f], k - torrent_offset(l, f) + 1)
                 = IF start <= k /\ k < start THEN k + 1 ELSE 0
    <3>1. k \in Int
      BY FileNumbers
    <3>2. ~ (start <= k /\ k < start)
      BY <1>4, <3>1
    <3>3. DOMAIN files[f] = {}
      BY <1>8
    <3>. QED BY <3>2, <3>3 DEF ByteOf
  <2>. QED BY <2>1 DEF Written
<1>. QED BY <1>2, <1>3, <1>4, <1>7, <1>8, <1>9, <1>10 DEF WriteInv, Progress, start, end

(* After a file, the buffers are those of the next one: also where the     *)
(* split was at the end of a buffer, if all went smoothly, for then that   *)
(* buffer ended with the file and the file inside the piece.               *)
LEMMA FileWrittenKeeps ==
  ASSUME NEW l, Laid(l), NEW r, WriteInv(l, r), r.stage = "file",
         as_slice(r.iovecs) = <<>> \/ r.count = r.slice.len, NEW q, q = AfterFileWritten(l, r)
  PROVE  WriteInv(l, q)
<1>. DEFINE start == PieceStart(l, r.index)
            end == PieceEnd(l, r.index)
            at == At(l, r)
            len == SliceOf(l, r).len
            v == r.iovecs
            tail == into_tail(v)
            stage == StageAfter(l, r.index, r.f)
<1>1. /\ IsWrite(r) /\ r.index \in Pieces(l) /\ r.partial \in Nat /\ InFile(l, r)
      /\ r.slice = SliceOf(l, r)
      /\ DOMAIN r.files = DOMAIN l.files /\ Contained(l, r.files, start, end)
      /\ Smooth(l, r) => Written(l, r.files, start, at + r.count)
  BY DEF WriteInv, Progress
<1>2. PICK from \in Nat, limit \in Nat : BuffersSplit(l, r, from, limit)
  BY DEF WriteInv
<1>3. /\ IsWrite(q) /\ q.stage = stage /\ q.index = r.index /\ q.f = r.f + 1
      /\ q.files = r.files /\ q.bufs = tail /\ q.total = r.total + len /\ q.partial = r.partial
  BY <1>1, AfterWriteIs
<1>4. start \in Nat /\ end \in Nat /\ at \in Nat /\ len \in Nat \ {0} /\ start <= at /\ at + len <= end
  BY <1>1, SliceNumbers, PieceNumbers
<1>5. /\ At(l, q) = at + len
      /\ stage = "next" => InFile(l, q) /\ At(l, q) = torrent_end_offset(l, r.f) /\ At(l, q) < end
      /\ stage # "next" => stage = "done" /\ At(l, q) = end
  BY <1>1, <1>3, NextFileIs
<1>6. Smooth(l, q) <=> Smooth(l, r)
  BY <1>3 DEF Smooth
<1>7. /\ Halved(v, from, limit, end) /\ \A k \in 1 .. Len(v.bufs) : v.bufs[k].len # 0
      /\ Smooth(l, r) =>
           /\ from = at /\ limit = at + len /\ r.count \in {0, len}
           /\ \A k \in 1 .. Len(v.bufs) : EndsBlock(l, r, EndBefore(v, k + 1))
  BY <1>1, <1>2 DEF BuffersSplit
<1>8. /\ v.bufs \in Seq(Buffers) /\ v.pos \in Nat /\ v.pos <= Len(v.bufs) /\ Len(v.bufs) \in Nat
      /\ v.pos > 0 => EndOf(v.bufs[v.pos]) = limit
  <2>1. v.bufs \in Seq(Buffers) /\ v.pos \in Nat /\ v.pos <= Len(v.bufs)
    BY <1>7, IoVecsFields DEF Halved
  <2>. QED BY <1>7, <2>1 DEF Halved
<1>. DEFINE to == IF v.clean /\ v.pos > 0 THEN v.bufs[v.pos].ptr ELSE limit
<1>9. /\ tail \in Seq(Buffers) /\ Hold(tail, to, end)
      /\ \A k \in 1 .. Len(tail) : tail[k].len = 0 => v.pos = 1 /\ v.bufs[1].len = 0
      /\ \A k \in 1 .. Len(tail) : \E j \in 1 .. Len(v.bufs) : EndOf(tail[k]) = EndBefore(v, j + 1)
  BY <1>2, <1>4, <1>7, SecondHalf
<1>10. as_slice(v) = <<>> => ~ from < limit
  <2>1. Filling(as_slice(v), from, limit)
    BY <1>2, <1>4, <1>7, FirstHalf
  <2>. QED BY <1>2, <2>1, FillingSome
<1>11. Smooth(l, r) => r.count = len
  BY <1>1, <1>4, <1>7, <1>10
<1>12. Smooth(l, q) => Written(l, q.files, start, at + len)
  BY <1>1, <1>3, <1>6, <1>11
<1>13. to \in Nat
  <2>1. v.pos > 0 => v.bufs[v.pos].ptr \in Nat
    <3>1. v.pos > 0 => v.pos \in 1 .. Len(v.bufs)
      BY <1>8
    <3>. QED BY <1>8, <3>1, BufferFields
  <2>. QED BY <1>2, <2>1
<1>14. Filling(tail, to, end)
  <2>1. ASSUME NEW k \in 1 .. Len(tail), tail[k].len = 0
        PROVE  FALSE
    <3>1. v.pos = 1 /\ v.bufs[1].len = 0
      BY <1>9, <2>1
    <3>2. 1 \in 1 .. Len(v.bufs)
      BY <1>8, <3>1
    <3>. QED BY <1>7, <3>1, <3>2
  <2>2. \A k \in 1 .. Len(tail) : tail[k].len \in Nat
    BY <1>9, BufferFields
  <2>3. \A k \in 1 .. Len(tail) : tail[k].len > 0
    BY <2>1, <2>2
  <2>. QED BY <1>9, <2>3 DEF Filling
<1>15. ASSUME stage = "next", Smooth(l, r)
       PROVE  to = at + len
  <2>1. limit = at + len /\ limit = torrent_end_offset(l, r.f) /\ limit < end
    BY <1>5, <1>7, <1>15
  <2>2. SUFFICES ASSUME v.clean, v.pos > 0
                 PROVE  FALSE
    BY <2>1
  <2>3. v.pos \in 1 .. Len(v.bufs) /\ (v.pos + 1) - 1 = v.pos
    BY <1>8, <2>2
  <2>4. EndBefore(v, v.pos + 1) = limit
    BY <1>8, <2>2, <2>3 DEF EndBefore
  <2>5. EndsBlock(l, r, limit)
    BY <1>7, <1>15, <2>3, <2>4
  <2>6. (limit - start) % BLOCK_LEN = 0
    BY <1>2, <1>4, <2>1, <2>5 DEF EndsBlock
  <2>7. end = start + piece_len(l, r.index) /\ piece_len(l, r.index) \in Nat
    BY <1>1, PieceNumbers
  <2>8. 0 < limit - start /\ limit - start < piece_len(l, r.index)
    <3>. HIDE DEF start, end, at, len
    <3>. QED BY <1>2, <1>4, <2>1, <2>7
  <2>9. r.f \in DOMAIN l.files
    BY <1>1 DEF InFile
  <2>10. FileEndsAtBlock(l, r.index)
    BY <2>1, <2>6, <2>8, <2>9 DEF FileEndsAtBlock
  <2>. QED BY <1>15, <2>10 DEF Smooth
<1>16. stage = "next" => BuffersLeft(l, q, to)
  <2>1. ASSUME NEW k \in 1 .. Len(tail), Smooth(l, q)
        PROVE  EndsBlock(l, q, EndOf(tail[k]))
    BY <1>3, <1>6, <1>7, <1>9, <2>1 DEF EndsBlock
  <2>. HIDE DEF to, tail, stage, at, len, start, v
  <2>. QED BY <1>3, <1>5, <1>6, <1>14, <1>15, <2>1 DEF BuffersLeft
<1>. HIDE DEF to, tail, stage, at, len, start, end, v
<1>17. CASE stage = "next"
  BY <1>1, <1>3, <1>5, <1>12, <1>13, <1>16, <1>17 DEF WriteInv, Progress, start, end
<1>18. CASE stage # "next"
  BY <1>1, <1>3, <1>5, <1>12, <1>18 DEF WriteInv, Progress, start, end
<1>. QED BY <1>17, <1>18

(* What the properties say of a write, for each layout of the files.       *)
LEMMA WriteContained ==
  ASSUME NEW l, Laid(l), NEW r, WriteInv(l, r)
  PROVE  \A f \in DOMAIN l.files :
           /\ Len(r.files[f]) <= l.files[f].len
           /\ \A k \in DOMAIN r.files[f] :
                r.files[f][k] # 0 => /\ PieceStart(l, r.index) <= torrent_offset(l, f) + k - 1
                                     /\ torrent_offset(l, f) + k - 1 < PieceEnd(l, r.index)
<1>1. ASSUME NEW f \in DOMAIN l.files
      PROVE  DOMAIN r.files[f] = 1 .. Len(r.files[f])
  BY DEF WriteInv, Contained
<1>. QED BY <1>1 DEF WriteInv, Contained

-----------------------------------------------------------------------------
(* FileIO: read.                                                           *)

\* Memory holds the piece up to an offset that what is in the files reaches.
Got(l, r, to) ==
  /\ to <= r.held \/ to = PieceStart(l, r.index)
  /\ \A a \in PieceStart(l, r.index) .. to - 1 : r.memory[a] = a + 1

\* PieceMissing, of any layout and read.
Missing(l, r) ==
  \/ r.held <= PieceStart(l, r.index)
  \/ /\ r.held < PieceEnd(l, r.index)
     /\ \E f \in DOMAIN l.files : r.held = torrent_offset(l, f)

\* Each call reads all there is, and that is all of the file or nothing.
Exact(l, r) == r.partial = 0 /\ (Missing(l, r) \/ r.held >= PieceEnd(l, r.index))

IsRead(r) ==
  r = [op |-> "read", stage |-> r.stage, index |-> r.index, f |-> r.f, held |-> r.held,
       files |-> r.files, bufs |-> r.bufs, total |-> r.total, slice |-> r.slice,
       memory |-> r.memory, count |-> r.count, partial |-> r.partial]

\* The buffers that are left go from an address to the end of the piece; an
\* exact read has come to that address.
ReadUpTo(l, r, from, to) ==
  /\ Filling(r.bufs, from, PieceEnd(l, r.index))
  /\ Exact(l, r) => from = to /\ Got(l, r, to)

ReadInv(l, r) ==
  /\ IsRead(r) /\ r.stage \in {"next", "file", "done", "failed", "missing data"}
  /\ r.index \in Pieces(l) /\ r.partial \in Nat /\ r.held \in Nat
  /\ r.files = FirstBytes(l, r.held)
  /\ DOMAIN r.memory = PieceStart(l, r.index) .. PieceEnd(l, r.index) - 1
  /\ r.held >= PieceEnd(l, r.index) => r.stage # "missing data"
  /\ r.stage \in {"next", "file"} => InFile(l, r)
  /\ r.stage = "next" => \E from \in Nat : ReadUpTo(l, r, from, At(l, r))
  /\ r.stage = "file" => /\ r.slice = SliceOf(l, r)
                         /\ Exact(l, r) => r.count \in {0, r.slice.len}
                         /\ \E from \in Nat : ReadUpTo(l, r, from, At(l, r) + r.count)
  /\ r.stage = "done" => (Exact(l, r) => Got(l, r, PieceEnd(l, r.index)))

(* Buffers without the bytes that have been read into them.                *)
LEMMA AdvanceReadFills ==
  ASSUME NEW bufs, NEW from \in Nat, NEW to \in Nat, Filling(bufs, from, to),
         NEW n \in Nat \ {0}, n <= to - from
  PROVE  Filling(advance_read(bufs, n), from + n, to)
<1>. DEFINE v == unbounded(bufs)
            u == advance(v, n)
<1>1. /\ v \in IoVecsRecords /\ v.bufs = bufs /\ v.pos = 0 /\ v.clean = TRUE
      /\ bufs \in Seq(Buffers) /\ Len(bufs) \in Nat
  BY DEF unbounded, NoBuffer, Buffer, IoVecsRecords, Buffers, Filling
<1>2. /\ v = [bufs |-> bufs, pos |-> 0, clean |-> TRUE, second_half |-> NoBuffer] /\ as_slice(v) = bufs
  BY DEF unbounded, as_slice
<1>3. u.bufs = advance_read(bufs, n) /\ u.pos = 0
  <2>. DEFINE whole == FilledBy(bufs, n)
              rest == Remaining(bufs, whole, n - LenUpTo(bufs, whole))
  <2>1. (IF whole > 0 /\ whole = v.pos THEN whole - 1 ELSE whole) = whole
    BY <1>1
  <2>2. u = [v EXCEPT !.bufs = rest, !.pos = 0]
    BY <1>1, <1>2, <2>1 DEF advance
  <2>3. rest = advance_read(bufs, n)
    BY DEF advance_read
  <2>. HIDE DEF v, u, rest
  <2>. QED BY <1>2, <2>2, <2>3
<1>. HIDE DEF v, u
<1>4. ASSUME NEW k \in 1 .. Len(bufs) + 1
      PROVE  EndBefore(v, k) = EndOf(bufs[k - 1])
  BY <1>1 DEF EndBefore
<1>5. Halved(v, from, to, to)
  <2>1. IF bufs = <<>> THEN from = to ELSE bufs[1].ptr = from /\ EndBefore(v, Len(bufs) + 1) = to
    <3>1. Len(bufs) + 1 \in 1 .. Len(bufs) + 1 /\ (Len(bufs) + 1) - 1 = Len(bufs)
      BY <1>1
    <3>2. EndBefore(v, Len(bufs) + 1) = EndOf(bufs[Len(bufs)])
      BY <1>4, <3>1
    <3>. QED BY <3>2 DEF Filling, Hold
  <2>2. ASSUME NEW k \in 2 .. Len(bufs)
        PROVE  bufs[k].ptr = EndBefore(v, k)
    <3>1. k \in 1 .. Len(bufs) + 1
      BY <1>1
    <3>. QED BY <1>4, <3>1 DEF Filling, Hold
  <2>3. \A k \in 1 .. Len(bufs) : bufs[k].len # 0
    BY <1>1, BufferFields DEF Filling
  <2>. QED BY <1>1, <2>1, <2>2, <2>3 DEF Halved
<1>6. Halved(u, from + n, to, to) /\ from + n \in Nat
  BY <1>5, AdvanceHalves DEF u
<1>7. Filling(as_slice(u), from + n, to)
  BY <1>6, FirstHalf
<1>. QED BY <1>3, <1>7 DEF as_slice

(* What a file has of the first bytes of the torrent.                      *)
LEMMA HeldNumbers ==
  ASSUME NEW l, Laid(l), NEW n \in Nat, NEW f \in DOMAIN l.files
  PROVE  /\ Held(l, n, f) \in Nat
         /\ Len(FirstBytes(l, n)[f]) = Held(l, n, f)
         /\ \A k \in 1 .. Held(l, n, f) : FirstBytes(l, n)[f][k] = torrent_offset(l, f) + k
         /\ n <= torrent_offset(l, f) => Held(l, n, f) = 0
         /\ n >= torrent_end_offset(l, f) =>
              Held(l, n, f) = torrent_end_offset(l, f) - torrent_offset(l, f)
         /\ torrent_offset(l, f) <= n /\ n < torrent_end_offset(l, f) =>
              Held(l, n, f) = n - torrent_offset(l, f)
<1>. DEFINE lo == torrent_offset(l, f)
            hi == torrent_end_offset(l, f)
            size == l.files[f].len
            held == Held(l, n, f)
<1>1. lo \in Nat /\ hi \in Nat /\ size \in Nat /\ hi = lo + size /\ lo < hi
  BY FileNumbers
<1>2. held = IF n <= lo THEN 0 ELSE IF n < hi THEN n - lo ELSE size
  BY DEF Held
<1>3. FirstBytes(l, n)[f] = [k \in 1 .. held |-> lo + k]
  BY DEF FirstBytes
<1>. HIDE DEF lo, hi, size, held
<1>4. held \in Nat
  BY <1>1, <1>2
<1>5. Len(FirstBytes(l, n)[f]) = held /\ \A k \in 1 .. held : FirstBytes(l, n)[f][k] = lo + k
  BY <1>3, <1>4
<1>6. /\ n <= lo => held = 0
      /\ n >= hi => held = hi - lo
      /\ lo <= n /\ n < hi => held = n - lo
  BY <1>1, <1>2
<1>. QED BY <1>4, <1>5, <1>6 DEF held, lo, hi

\* Memory after n bytes behind an offset have been read to an address.
IsFilled(after, memory, file, from, offset, n) ==
  /\ DOMAIN after = DOMAIN memory
  /\ \A a \in DOMAIN memory :
       a \in Nat => after[a] = IF from <= a /\ a < from + n THEN file[offset + 1 + (a - from)]
                              ELSE memory[a]

(* What a call has read into memory, and what it has left alone.           *)
LEMMA MemoryIs ==
  ASSUME NEW memory, NEW file, NEW from \in Nat, NEW to \in Nat, NEW bufs \in Seq(Buffers),
         Hold(bufs, from, to), NEW offset \in Nat, NEW n \in Nat, n <= to - from,
         NEW after, after = Filled(memory, bufs, file, offset, n)
  PROVE  IsFilled(after, memory, file, from, offset, n)
<1>. DEFINE read(a) == {i \in 0 .. n - 1 : Address(bufs, i) = a}
<1>1. after = [a \in DOMAIN memory |->
                 IF read(a) = {} THEN memory[a] ELSE file[offset + 1 + CHOOSE i \in read(a) : TRUE]]
  BY DEF Filled
<1>2. ASSUME NEW i \in 0 .. n - 1
      PROVE  Address(bufs, i) = from + i
  <2>1. i \in 0 .. (to - from) - 1
    OBVIOUS
  <2>. QED BY <2>1, FillingSums
<1>3. ASSUME NEW a \in DOMAIN memory, a \in Nat
      PROVE  after[a] = IF from <= a /\ a < from + n THEN file[offset + 1 + (a - from)] ELSE memory[a]
  <2>1. \A i \in read(a) : i = a - from
    <3>1. ASSUME NEW i \in read(a)
          PROVE  i = a - from
      <4>1. i \in 0 .. n - 1 /\ Address(bufs, i) = a
        OBVIOUS
      <4>2. from + i = a /\ i \in Int
        BY <1>2, <4>1
      <4>. QED BY <4>2
    <3>. QED BY <3>1
  <2>2. CASE from <= a /\ a < from + n
    <3>1. a - from \in 0 .. n - 1 /\ from + (a - from) = a
      BY <1>3, <2>2
    <3>2. a - from \in read(a)
      BY <1>2, <3>1
    <3>. DEFINE i == CHOOSE i \in read(a) : TRUE
    <3>3. i \in read(a)
      BY <3>2
    <3>4. i = a - from
      BY <2>1, <3>3
    <3>5. after[a] = file[offset + 1 + i]
      BY <1>1, <3>2
    <3>. HIDE DEF i
    <3>. QED BY <2>2, <3>4, <3>5
  <2>3. CASE ~ (from <= a /\ a < from + n)
    <3>1. a - from \notin 0 .. n - 1
      BY <1>3, <2>3
    <3>2. read(a) = {}
      <4>1. \A i \in read(a) : i \in 0 .. n - 1
        OBVIOUS
      <4>. HIDE DEF read
      <4>. QED BY <2>1, <3>1, <4>1
    <3>. QED BY <1>1, <2>3, <3>2
  <2>. QED BY <2>2, <2>3
<1>4. DOMAIN after = DOMAIN memory
  BY <1>1
<1>. QED BY <1>3, <1>4 DEF IsFilled

\* Readable, of any read.
ReadableOf(r) ==
  LET there == Len(r.files[r.f]) - r.slice.offset
  IN IF there <= 0 THEN 0 ELSE Least(LenOf(r.bufs), there)

(* A call finds something if the piece is there; an exact read finds all   *)
(* of the slice or nothing.                                                *)
LEMMA ReadableNumbers ==
  ASSUME NEW l, Laid(l), NEW r, ReadInv(l, r), r.stage = "file",
         NEW from \in Nat, Filling(r.bufs, from, PieceEnd(l, r.index))
  PROVE  LET n == ReadableOf(r)
         IN /\ n \in Nat /\ n <= PieceEnd(l, r.index) - from
            /\ n > 0 => r.slice.offset + n <= Held(l, r.held, r.f)
            /\ r.held >= PieceEnd(l, r.index) /\ from < PieceEnd(l, r.index) => n > 0
            /\ Exact(l, r) /\ from = At(l, r) /\ n > 0 => n = r.slice.len /\ At(l, r) + n <= r.held
<1>. DEFINE start == PieceStart(l, r.index)
            end == PieceEnd(l, r.index)
            at == At(l, r)
            len == r.slice.len
            offset == r.slice.offset
            lo == torrent_offset(l, r.f)
            hi == torrent_end_offset(l, r.f)
            has == Held(l, r.held, r.f)
            held == r.held
            there == has - offset
            left == end - from
            n == ReadableOf(r)
<1>1. /\ r.index \in Pieces(l) /\ InFile(l, r) /\ r.slice = SliceOf(l, r) /\ held \in Nat
      /\ r.files = FirstBytes(l, held)
  BY DEF ReadInv
<1>2. /\ start \in Nat /\ end \in Nat /\ at \in Nat /\ start <= at /\ offset \in Nat
      /\ lo + offset = at /\ len \in Nat \ {0} /\ at + len <= end /\ at + len <= hi
      /\ at + len = end \/ at + len = hi
  BY <1>1, SliceNumbers, PieceNumbers
<1>3. r.f \in DOMAIN l.files /\ lo \in Nat /\ hi \in Nat /\ r.f \in Nat
  BY <1>1, FileNumbers DEF InFile
<1>4. /\ has \in Nat /\ Len(r.files[r.f]) = has
      /\ held <= lo => has = 0
      /\ held >= hi => has = hi - lo
      /\ lo <= held /\ held < hi => has = held - lo
  <2>1. r.files[r.f] = FirstBytes(l, held)[r.f]
    BY <1>1
  <2>2. /\ has \in Nat /\ Len(FirstBytes(l, held)[r.f]) = has
        /\ held <= lo => has = 0
        /\ held >= hi => has = hi - lo
        /\ lo <= held /\ held < hi => has = held - lo
    BY ZenonT(60), <1>1, <1>3, HeldNumbers
  <2>. QED BY <2>1, <2>2
<1>5. LenOf(r.bufs) = left /\ from <= end
  BY <1>2, FillingSums DEF Filling
<1>6. n = IF there <= 0 THEN 0 ELSE IF left < there THEN left ELSE there
  BY <1>4, <1>5 DEF ReadableOf, Least
<1>7. Missing(l, r) => held <= start \/ held <= lo \/ held >= hi
  <2>1. ASSUME NEW f \in DOMAIN l.files, held = torrent_offset(l, f)
        PROVE  held <= lo \/ held >= hi
    <3>1. f \in Nat /\ torrent_offset(l, f) \in Nat /\ torrent_end_offset(l, f) \in Nat
          /\ torrent_offset(l, f) < torrent_end_offset(l, f)
      BY FileNumbers
    <3>2. CASE f = r.f
      BY <1>3, <2>1, <3>2
    <3>3. CASE f < r.f
      <4>1. torrent_end_offset(l, f) <= lo
        BY <1>3, <3>3, FilesApart
      <4>. HIDE DEF lo, held, hi
      <4>. QED BY <1>3, <2>1, <3>1, <4>1
    <3>4. CASE r.f < f
      BY <1>3, <2>1, <3>4, FilesApart
    <3>. QED BY <1>3, <3>1, <3>2, <3>3, <3>4
  <2>. QED BY <2>1 DEF Missing
<1>8. Exact(l, r) => held >= end \/ held <= start \/ held <= lo \/ held >= hi
  BY <1>7 DEF Exact
<1>. HIDE DEF n, start, end, at, len, offset, lo, hi, has, held
<1>9. n \in Nat /\ n <= left
  BY <1>2, <1>4, <1>5, <1>6
<1>10. n > 0 => offset + n <= has
  BY <1>2, <1>4, <1>5, <1>6
<1>11. held >= end /\ from < end => n > 0
  <2>1. CASE held >= hi
    BY <1>1, <1>2, <1>3, <1>4, <1>5, <1>6, <2>1
  <2>2. CASE held < hi
    BY <1>1, <1>2, <1>3, <1>4, <1>5, <1>6, <2>2
  <2>. QED BY <1>1, <1>3, <2>1, <2>2
<1>12. ASSUME Exact(l, r), from = at, n > 0
       PROVE  n = len /\ at + n <= held
  <2>1. ~ (held <= lo) /\ there > 0
    BY <1>1, <1>2, <1>3, <1>4, <1>5, <1>6, <1>12
  <2>2. CASE held >= hi
    BY <1>1, <1>2, <1>3, <1>4, <1>5, <1>6, <1>12, <2>1, <2>2
  <2>3. CASE held < hi
    <3>1. has = held - lo /\ there = held - at
      BY SMTT(30), <1>1, <1>2, <1>3, <1>4, <2>1, <2>3
    <3>2. held > start
      BY <1>1, <1>2, <2>1, <3>1
    <3>3. held >= end
      BY <1>1, <1>2, <1>3, <1>8, <1>12, <2>1, <2>3, <3>2
    <3>. QED BY <1>1, <1>2, <1>3, <1>5, <1>6, <1>12, <2>1, <2>3, <3>1, <3>3
  <2>. QED BY <1>1, <1>3, <2>2, <2>3
<1>. QED BY <1>9, <1>10, <1>11, <1>12 DEF n, end, at, offset, len, has, held

\* What the steps make of a read.
AfterReadFile(l, r) == [r EXCEPT !.stage = "file", !.slice = SliceOf(l, r), !.count = 0]

AfterPreadv(r, n) ==
  [r EXCEPT !.memory = Filled(@, r.bufs, r.files[r.f], r.slice.offset, n), !.count = @ + n,
            !.partial = r.partial + (IF n = ReadableOf(r) THEN 0 ELSE 1), !.bufs = advance_read(@, n)]

AfterFileRead(l, r) ==
  [r EXCEPT !.stage = StageAfter(l, r.index, r.f), !.f = @ + 1, !.total = @ + r.slice.len]

AfterReadEnds(r, stage) == [r EXCEPT !.stage = stage]

(* These are reads, and what does not change in them.                      *)
LEMMA AfterReadIs ==
  ASSUME NEW l, NEW r, IsRead(r)
  PROVE  /\ \A q : q = AfterReadFile(l, r) =>
              /\ IsRead(q) /\ q.stage = "file" /\ q.index = r.index /\ q.f = r.f /\ q.held = r.held
              /\ q.files = r.files /\ q.bufs = r.bufs /\ q.total = r.total /\ q.slice = SliceOf(l, r)
              /\ q.memory = r.memory /\ q.count = 0 /\ q.partial = r.partial
         /\ \A q : q = AfterFileRead(l, r) =>
              /\ IsRead(q) /\ q.stage = StageAfter(l, r.index, r.f) /\ q.index = r.index /\ q.f = r.f + 1
              /\ q.held = r.held /\ q.files = r.files /\ q.bufs = r.bufs
              /\ q.total = r.total + r.slice.len /\ q.memory = r.memory /\ q.partial = r.partial
         /\ \A stage, q : q = AfterReadEnds(r, stage) =>
              /\ IsRead(q) /\ q.stage = stage /\ q.index = r.index /\ q.held = r.held
              /\ q.files = r.files /\ q.memory = r.memory /\ q.partial = r.partial
<1>. DEFINE stage0 == r.stage
            index == r.index
            f == r.f
            held == r.held
            files == r.files
            bufs == r.bufs
            total == r.total
            slice == r.slice
            memory == r.memory
            count == r.count
            partial == r.partial
            slice1 == SliceOf(l, r)
            stage1 == StageAfter(l, r.index, r.f)
            f1 == r.f + 1
            total1 == r.total + r.slice.len
<1>1. r = [op |-> "read", stage |-> stage0, index |-> index, f |-> f, held |-> held, files |-> files,
           bufs |-> bufs, total |-> total, slice |-> slice, memory |-> memory, count |-> count,
           partial |-> partial]
  BY DEF IsRead
<1>2. AfterReadFile(l, r) = [r EXCEPT !.stage = "file", !.slice = slice1, !.count = 0]
  BY DEF AfterReadFile
<1>4. AfterFileRead(l, r) = [r EXCEPT !.stage = stage1, !.f = f1, !.total = total1]
  BY DEF AfterFileRead
<1>. HIDE DEF stage0, index, f, held, files, bufs, total, slice, memory, count, partial,
             slice1, stage1, f1, total1
<1>5. AfterReadFile(l, r) =
        [op |-> "read", stage |-> "file", index |-> index, f |-> f, held |-> held, files |-> files,
         bufs |-> bufs, total |-> total, slice |-> slice1, memory |-> memory, count |-> 0,
         partial |-> partial]
  BY ZenonT(60), <1>1, <1>2
<1>7. AfterFileRead(l, r) =
        [op |-> "read", stage |-> stage1, index |-> index, f |-> f1, held |-> held, files |-> files,
         bufs |-> bufs, total |-> total1, slice |-> slice, memory |-> memory, count |-> count,
         partial |-> partial]
  BY ZenonT(60), <1>1, <1>4
<1>8. ASSUME NEW stage
      PROVE  AfterReadEnds(r, stage) =
        [op |-> "read", stage |-> stage, index |-> index, f |-> f, held |-> held, files |-> files,
         bufs |-> bufs, total |-> total, slice |-> slice, memory |-> memory, count |-> count,
         partial |-> partial]
  BY <1>1 DEF AfterReadEnds
<1>9. ASSUME NEW q, q = AfterReadFile(l, r)
      PROVE  /\ IsRead(q) /\ q.stage = "file" /\ q.index = r.index /\ q.f = r.f /\ q.held = r.held
             /\ q.files = r.files /\ q.bufs = r.bufs /\ q.total = r.total /\ q.slice = SliceOf(l, r)
             /\ q.memory = r.memory /\ q.count = 0 /\ q.partial = r.partial
  BY <1>5, <1>9 DEF IsRead, index, f, held, files, bufs, total, slice1, memory, partial
<1>11. ASSUME NEW q, q = AfterFileRead(l, r)
       PROVE  /\ IsRead(q) /\ q.stage = StageAfter(l, r.index, r.f) /\ q.index = r.index /\ q.f = r.f + 1
              /\ q.held = r.held /\ q.files = r.files /\ q.bufs = r.bufs
              /\ q.total = r.total + r.slice.len /\ q.memory = r.memory /\ q.partial = r.partial
  BY <1>7, <1>11 DEF IsRead, stage1, index, f1, held, files, bufs, total1, memory, partial
<1>12. ASSUME NEW stage, NEW q, q = AfterReadEnds(r, stage)
       PROVE  /\ IsRead(q) /\ q.stage = stage /\ q.index = r.index /\ q.held = r.held
              /\ q.files = r.files /\ q.memory = r.memory /\ q.partial = r.partial
  BY <1>8, <1>12 DEF IsRead, index, held, files, memory, partial
<1>. QED BY <1>9, <1>11, <1>12

(* A call leaves a read.                                                   *)
LEMMA AfterPreadvIs ==
  ASSUME NEW r, IsRead(r), NEW n, NEW q, q = AfterPreadv(r, n)
  PROVE  /\ IsRead(q) /\ q.stage = r.stage /\ q.index = r.index /\ q.f = r.f /\ q.held = r.held
         /\ q.files = r.files /\ q.bufs = advance_read(r.bufs, n) /\ q.total = r.total
         /\ q.slice = r.slice /\ q.count = r.count + n
         /\ q.memory = Filled(r.memory, r.bufs, r.files[r.f], r.slice.offset, n)
         /\ q.partial = r.partial + (IF n = ReadableOf(r) THEN 0 ELSE 1)
<1>. DEFINE stage == r.stage
            index == r.index
            f == r.f
            held == r.held
            files == r.files
            bufs == r.bufs
            total == r.total
            slice == r.slice
            old == <<r.memory, r.count, r.partial>>
            memory1 == Filled(r.memory, r.bufs, r.files[r.f], r.slice.offset, n)
            count1 == r.count + n
            partial1 == r.partial + (IF n = ReadableOf(r) THEN 0 ELSE 1)
            bufs1 == advance_read(r.bufs, n)
<1>1. r = [op |-> "read", stage |-> stage, index |-> index, f |-> f, held |-> held, files |-> files,
           bufs |-> bufs, total |-> total, slice |-> slice, memory |-> old[1], count |-> old[2],
           partial |-> old[3]]
  BY DEF IsRead
<1>2. q = [r EXCEPT !.memory = memory1, !.count = count1, !.partial = partial1, !.bufs = bufs1]
  BY <1>1 DEF AfterPreadv
<1>. HIDE DEF stage, index, f, held, files, bufs, total, slice, old, memory1, count1, partial1, bufs1
<1>3. q = [op |-> "read", stage |-> stage, index |-> index, f |-> f, held |-> held, files |-> files,
           bufs |-> bufs1, total |-> total, slice |-> slice, memory |-> memory1, count |-> count1,
           partial |-> partial1]
  BY ZenonT(60), <1>1, <1>2
<1>. QED BY <1>3 DEF IsRead, stage, index, f, held, files, bufs1, total, slice, memory1, count1, partial1

\* A read as it begins.
StartedRead(l, index, n) ==
  [op |-> "read", stage |-> "next", index |-> index, f |-> FirstFile(l, index),
   held |-> n, files |-> FirstBytes(l, n), bufs |-> Blocks(l, index), total |-> 0, slice |-> NoSlice,
   memory |-> [a \in PieceStart(l, index) .. PieceEnd(l, index) - 1 |-> 0], count |-> 0, partial |-> 0]

(* At first the buffers are the whole piece.                               *)
LEMMA StartReadKeeps ==
  ASSUME NEW l, Laid(l), NEW index \in Pieces(l), NEW n \in Nat, NEW q, q = StartedRead(l, index, n)
  PROVE  ReadInv(l, q)
<1>. DEFINE start == PieceStart(l, index)
            end == PieceEnd(l, index)
            bufs == Blocks(l, index)
            first == FirstFile(l, index)
            files == FirstBytes(l, n)
            memory == [a \in PieceStart(l, index) .. PieceEnd(l, index) - 1 |-> 0]
<1>1. q = [op |-> "read", stage |-> "next", index |-> index, f |-> first, held |-> n,
           files |-> files, bufs |-> bufs, total |-> 0, slice |-> NoSlice,
           memory |-> memory, count |-> 0, partial |-> 0]
  BY DEF StartedRead
<1>2. DOMAIN memory = start .. end - 1
  OBVIOUS
<1>. HIDE DEF bufs, first, files, memory
<1>3. /\ IsRead(q) /\ q.stage = "next" /\ q.index = index /\ q.f = first /\ q.total = 0
      /\ q.partial = 0 /\ q.files = files /\ q.bufs = bufs /\ q.held = n /\ q.memory = memory
  BY <1>1 DEF IsRead
<1>4. InFile(l, q) /\ At(l, q) = start
  BY <1>3, FirstFileIs DEF first
<1>5. start \in Nat /\ end \in Nat
  BY PieceNumbers
<1>6. Filling(bufs, start, end)
  BY BlocksFill DEF bufs
<1>7. Got(l, q, start)
  <2>1. start .. start - 1 = {}
    BY <1>5
  <2>. QED BY <1>3, <2>1 DEF Got
<1>8. ReadUpTo(l, q, start, At(l, q))
  BY <1>3, <1>4, <1>6, <1>7 DEF ReadUpTo
<1>. QED BY <1>2, <1>3, <1>4, <1>5, <1>8 DEF ReadInv, files, start, end

(* Going to a file reads nothing yet.                                      *)
LEMMA ReadFileKeeps ==
  ASSUME NEW l, Laid(l), NEW r, ReadInv(l, r), r.stage = "next", NEW q, q = AfterReadFile(l, r)
  PROVE  ReadInv(l, q)
<1>1. /\ IsRead(r) /\ r.index \in Pieces(l) /\ InFile(l, r)
  BY DEF ReadInv
<1>2. PICK from \in Nat : ReadUpTo(l, r, from, At(l, r))
  BY DEF ReadInv
<1>3. /\ IsRead(q) /\ q.stage = "file" /\ q.index = r.index /\ q.f = r.f /\ q.held = r.held
      /\ q.files = r.files /\ q.bufs = r.bufs /\ q.total = r.total /\ q.slice = SliceOf(l, r)
      /\ q.memory = r.memory /\ q.count = 0 /\ q.partial = r.partial
  BY <1>1, AfterReadIs
<1>4. InFile(l, q) /\ At(l, q) = At(l, r) /\ SliceOf(l, q) = SliceOf(l, r)
  BY <1>1, <1>3 DEF InFile, At, SliceOf
<1>5. At(l, q) + q.count = At(l, r)
  <2>1. At(l, r) \in Nat
    BY <1>1, SliceNumbers
  <2>. QED BY <1>3, <1>4, <2>1
<1>6. Exact(l, q) <=> Exact(l, r)
  BY <1>3 DEF Exact, Missing
<1>7. ReadUpTo(l, q, from, At(l, q) + q.count)
  BY <1>2, <1>3, <1>5, <1>6 DEF ReadUpTo, Got
<1>. QED BY <1>2, <1>3, <1>4, <1>7 DEF ReadInv

(* A read that ends early has no more to say.                              *)
LEMMA ReadEndsKeeps ==
  ASSUME NEW l, NEW r, ReadInv(l, r), NEW stage \in {"failed", "missing data"},
         stage = "missing data" => ~ r.held >= PieceEnd(l, r.index), NEW q, q = AfterReadEnds(r, stage)
  PROVE  ReadInv(l, q)
<1>1. IsRead(r)
  BY DEF ReadInv
<1>2. /\ IsRead(q) /\ q.stage = stage /\ q.index = r.index /\ q.held = r.held
      /\ q.files = r.files /\ q.memory = r.memory /\ q.partial = r.partial
  <2>1. \A x : x = AfterReadEnds(r, stage) =>
          /\ IsRead(x) /\ x.stage = stage /\ x.index = r.index /\ x.held = r.held
          /\ x.files = r.files /\ x.memory = r.memory /\ x.partial = r.partial
    BY <1>1, AfterReadIs, Zenon
  <2>. QED BY <2>1
<1>. QED BY <1>2 DEF ReadInv

(* After a file the next one goes on where it ended.                       *)
LEMMA FileReadKeeps ==
  ASSUME NEW l, Laid(l), NEW r, ReadInv(l, r), r.stage = "file",
         r.bufs = <<>> \/ r.count >= r.slice.len, NEW q, q = AfterFileRead(l, r)
  PROVE  ReadInv(l, q)
<1>. DEFINE end == PieceEnd(l, r.index)
            at == At(l, r)
            len == SliceOf(l, r).len
            stage == StageAfter(l, r.index, r.f)
<1>1. /\ IsRead(r) /\ r.index \in Pieces(l) /\ InFile(l, r) /\ r.slice = SliceOf(l, r)
      /\ Exact(l, r) => r.count \in {0, r.slice.len}
  BY DEF ReadInv
<1>2. PICK from \in Nat : ReadUpTo(l, r, from, at + r.count)
  BY DEF ReadInv
<1>3. /\ IsRead(q) /\ q.stage = stage /\ q.index = r.index /\ q.f = r.f + 1
      /\ q.held = r.held /\ q.files = r.files /\ q.bufs = r.bufs
      /\ q.total = r.total + len /\ q.memory = r.memory /\ q.partial = r.partial
  <2>. DEFINE total == r.total + r.slice.len
  <2>1. /\ IsRead(q) /\ q.stage = stage /\ q.index = r.index /\ q.f = r.f + 1
        /\ q.held = r.held /\ q.files = r.files /\ q.bufs = r.bufs
        /\ q.total = total /\ q.memory = r.memory /\ q.partial = r.partial
    BY <1>1, AfterReadIs
  <2>2. total = r.total + len
    BY <1>1
  <2>. QED BY <2>1, <2>2
<1>4. end \in Nat /\ at \in Nat /\ len \in Nat \ {0} /\ at + len <= end /\ at < end
  <2>1. end \in Nat /\ at \in Nat /\ len \in Nat \ {0} /\ at + len <= end
    BY <1>1, SliceNumbers, PieceNumbers
  <2>. QED BY <1>1, <2>1 DEF InFile
<1>5. /\ At(l, q) = at + len
      /\ stage = "next" => InFile(l, q)
      /\ stage # "next" => stage = "done" /\ At(l, q) = end
  BY <1>1, <1>3, NextFileIs
<1>6. Exact(l, q) <=> Exact(l, r)
  BY <1>3 DEF Exact, Missing
<1>7. r.bufs = <<>> => ~ from < end
  <2>1. Filling(r.bufs, from, end)
    BY <1>2 DEF ReadUpTo
  <2>. QED BY <1>2, <1>4, <2>1, FillingSome
<1>8. ASSUME Exact(l, r)
      PROVE  from = at + len /\ Got(l, r, at + len)
  <2>1. from = at + r.count /\ Got(l, r, at + r.count) /\ r.count \in {0, len}
    BY <1>1, <1>2, <1>8 DEF ReadUpTo
  <2>2. r.count >= len \/ ~ from < end
    BY <1>1, <1>7
  <2>3. r.count = len
    <3>. HIDE DEF len, at, end
    <3>. QED BY <1>2, <1>4, <2>1, <2>2
  <2>. QED BY <2>1, <2>3
<1>9. ReadUpTo(l, q, from, At(l, q))
  <2>1. Filling(q.bufs, from, PieceEnd(l, q.index))
    BY <1>2, <1>3 DEF ReadUpTo
  <2>2. Exact(l, q) => from = At(l, q) /\ Got(l, q, At(l, q))
    BY <1>3, <1>5, <1>6, <1>8 DEF Got
  <2>. QED BY <2>1, <2>2 DEF ReadUpTo
<1>. HIDE DEF end, at, len, stage
<1>10. CASE stage = "next"
  BY <1>2, <1>3, <1>5, <1>9, <1>10 DEF ReadInv
<1>11. CASE stage # "next"
  <2>1. Exact(l, q) => Got(l, q, PieceEnd(l, q.index))
    BY <1>3, <1>5, <1>9, <1>11 DEF ReadUpTo, end
  <2>. QED BY <1>3, <1>5, <1>11, <2>1 DEF ReadInv
<1>. QED BY <1>10, <1>11

(* A call reads bytes of the piece to their places; an exact one all those *)
(* of the slice.                                                           *)
LEMMA PreadvKeeps ==
  ASSUME NEW l, Laid(l), NEW r, ReadInv(l, r), r.stage = "file", r.bufs # <<>>, ~ r.count >= r.slice.len,
         NEW n \in Nat \ {0}, n <= ReadableOf(r), NEW q, q = AfterPreadv(r, n)
  PROVE  ReadInv(l, q)
<1>. DEFINE start == PieceStart(l, r.index)
            end == PieceEnd(l, r.index)
            at == At(l, r)
            len == r.slice.len
            offset == r.slice.offset
            lo == torrent_offset(l, r.f)
            has == Held(l, r.held, r.f)
            readable == ReadableOf(r)
            file == r.files[r.f]
<1>1. /\ IsRead(r) /\ r.index \in Pieces(l) /\ InFile(l, r) /\ r.slice = SliceOf(l, r)
      /\ r.held \in Nat /\ r.partial \in Nat /\ r.files = FirstBytes(l, r.held)
      /\ DOMAIN r.memory = start .. end - 1
      /\ Exact(l, r) => r.count \in {0, len}
  BY DEF ReadInv
<1>2. PICK from \in Nat : ReadUpTo(l, r, from, at + r.count)
  BY DEF ReadInv
<1>3. /\ IsRead(q) /\ q.stage = r.stage /\ q.index = r.index /\ q.f = r.f /\ q.held = r.held
      /\ q.files = r.files /\ q.bufs = advance_read(r.bufs, n) /\ q.total = r.total
      /\ q.slice = r.slice /\ q.count = r.count + n
      /\ q.memory = Filled(r.memory, r.bufs, file, offset, n)
      /\ q.partial = r.partial + (IF n = readable THEN 0 ELSE 1)
  BY <1>1, AfterPreadvIs
<1>4. /\ start \in Nat /\ end \in Nat /\ at \in Nat /\ start <= at /\ offset \in Nat
      /\ lo + offset = at /\ len \in Nat \ {0} /\ at + len <= end
  BY <1>1, SliceNumbers, PieceNumbers
<1>5. r.f \in DOMAIN l.files /\ lo \in Nat
  BY <1>1, FileNumbers DEF InFile
<1>6. Filling(r.bufs, from, end) /\ (Exact(l, r) => from = at + r.count /\ Got(l, r, at + r.count))
  BY <1>2 DEF ReadUpTo
<1>7. /\ readable \in Nat /\ readable <= end - from
      /\ readable > 0 => offset + readable <= has
      /\ Exact(l, r) /\ from = at /\ readable > 0 => readable = len /\ at + readable <= r.held
  BY <1>2, <1>6, ReadableNumbers
<1>8. has \in Nat /\ \A k \in 1 .. has : file[k] = lo + k
  <2>1. file = FirstBytes(l, r.held)[r.f]
    BY <1>1
  <2>2. has \in Nat /\ \A k \in 1 .. has : FirstBytes(l, r.held)[r.f][k] = lo + k
    <3>1. r.held \in Nat /\ r.f \in DOMAIN l.files
      BY <1>1, <1>5
    <3>. QED BY <3>1, HeldNumbers, Zenon
  <2>. HIDE DEF file, has, lo
  <2>. QED BY <2>1, <2>2
<1>9. n <= readable
  OBVIOUS
<1>10. r.bufs \in Seq(Buffers) /\ Hold(r.bufs, from, end)
  BY <1>6 DEF Filling
<1>11. At(l, q) = at /\ InFile(l, q) /\ SliceOf(l, q) = r.slice
  BY <1>1, <1>3 DEF At, InFile, SliceOf
<1>12. /\ DOMAIN q.memory = start .. end - 1 /\ q.partial \in Nat
       /\ IsFilled(q.memory, r.memory, file, from, offset, n)
  <2>1. n <= end - from /\ n \in Nat
    <3>. HIDE DEF readable, end
    <3>. QED BY <1>2, <1>4, <1>7, <1>9
  <2>2. IsFilled(q.memory, r.memory, file, from, offset, n)
    <3>. HIDE DEF end, file, offset
    <3>. QED BY <1>2, <1>3, <1>4, <1>10, <2>1, MemoryIs
  <2>3. q.partial \in Nat
    BY <1>1, <1>3
  <2>. QED BY <1>1, <2>2, <2>3 DEF IsFilled
<1>. HIDE DEF start, end, at, len, offset, lo, has, readable, file
<1>13. n <= end - from /\ from + n \in Nat /\ n \in Nat /\ offset + n <= has
  BY SMTT(30), <1>2, <1>4, <1>7, <1>8, <1>9
<1>14. Filling(q.bufs, from + n, end)
  BY <1>2, <1>3, <1>4, <1>6, <1>13, AdvanceReadFills
<1>15. ASSUME Exact(l, q)
       PROVE  /\ q.count = len /\ from + n = at + q.count /\ Got(l, q, at + q.count)
  <2>1. r.partial = 0 /\ n = readable
    BY <1>1, <1>3, <1>15 DEF Exact
  <2>2. Exact(l, r)
    BY <1>3, <1>15, <2>1 DEF Exact, Missing
  <2>3. r.count = 0
    BY <1>1, <1>4, <2>2 DEF len
  <2>4. from = at /\ Got(l, r, at)
    <3>1. at + r.count = at
      BY <1>4, <2>3
    <3>. QED BY <1>6, <2>2, <3>1
  <2>5. n = len /\ at + n <= r.held
    BY <1>7, <2>1, <2>2, <2>4
  <2>6. q.count = len /\ at + q.count = at + n
    BY <1>3, <1>4, <2>3, <2>5
  <2>7. ASSUME NEW a \in start .. (at + n) - 1
        PROVE  q.memory[a] = a + 1
    <3>1. a \in Nat /\ a \in start .. end - 1
      BY <1>2, <1>4, <1>13, <2>4
    <3>2. q.memory[a] = IF from <= a /\ a < from + n THEN file[offset + 1 + (a - from)] ELSE r.memory[a]
      BY <1>1, <1>12, <3>1 DEF IsFilled
    <3>3. CASE a < at
      <4>1. a \in start .. at - 1
        BY <1>4, <3>1, <3>3
      <4>2. r.memory[a] = a + 1
        BY <2>4, <4>1 DEF Got, start
      <4>3. ~ (from <= a)
        BY <1>4, <2>4, <3>1, <3>3
      <4>. QED BY <3>2, <4>2, <4>3
    <3>4. CASE at <= a
      <4>1. from <= a /\ a < from + n
        BY <1>4, <2>4, <3>1, <3>4
      <4>2. offset + 1 + (a - from) \in 1 .. has
        BY <1>2, <1>4, <1>8, <1>13, <3>1, <4>1
      <4>3. lo + (offset + 1 + (a - from)) = a + 1
        BY <1>4, <1>5, <2>4, <3>1
      <4>. QED BY <1>8, <3>2, <4>1, <4>2, <4>3
    <3>. QED BY <1>4, <3>1, <3>3, <3>4
  <2>8. Got(l, q, at + n)
    <3>. DEFINE to == at + n
    <3>1. PieceStart(l, q.index) = start /\ to <= q.held
      BY <1>3, <2>5 DEF start
    <3>2. \A a \in start .. to - 1 : q.memory[a] = a + 1
      BY <2>7
    <3>. HIDE DEF to
    <3>3. Got(l, q, to)
      BY <3>1, <3>2 DEF Got
    <3>. QED BY <3>3 DEF to
  <2>. QED BY <2>4, <2>6, <2>8
<1>16. ReadUpTo(l, q, from + n, At(l, q) + q.count)
  BY <1>3, <1>11, <1>14, <1>15 DEF ReadUpTo, end
<1>17. Exact(l, q) => q.count \in {0, q.slice.len}
  BY <1>3, <1>15 DEF len
<1>. QED BY <1>1, <1>3, <1>11, <1>12, <1>13, <1>16, <1>17 DEF ReadInv, start, end

(* Nothing to read means that not all of the piece is there.               *)
LEMMA ReadMisses ==
  ASSUME NEW l, Laid(l), NEW r, ReadInv(l, r), r.stage = "file", r.bufs # <<>>, ReadableOf(r) = 0
  PROVE  ~ r.held >= PieceEnd(l, r.index)
<1>1. r.index \in Pieces(l)
  BY DEF ReadInv
<1>2. PICK from \in Nat : ReadUpTo(l, r, from, At(l, r) + r.count)
  BY DEF ReadInv
<1>3. Filling(r.bufs, from, PieceEnd(l, r.index)) /\ PieceEnd(l, r.index) \in Nat
  BY <1>1, <1>2, PieceNumbers DEF ReadUpTo
<1>4. from < PieceEnd(l, r.index)
  BY <1>2, <1>3, FillingSome
<1>. QED BY <1>2, <1>3, <1>4, ReadableNumbers

-----------------------------------------------------------------------------
(* FileIO: all of it.                                                      *)

\* A torrent's files, and nothing has begun, or a write or a read goes on.
FileInv ==
  /\ input \in StorageInputs
  /\ result = NotRun \/ WriteInv(input.layout, result) \/ ReadInv(input.layout, result)

(* A write is no read.                                                     *)
LEMMA Operations ==
  /\ NotRun.op = "none"
  /\ \A l, r : WriteInv(l, r) => r.op = "write"
  /\ \A l, r : ReadInv(l, r) => r.op = "read"
<1>1. ASSUME NEW r, IsWrite(r)
      PROVE  r.op = "write"
  BY <1>1 DEF IsWrite
<1>2. ASSUME NEW r, IsRead(r)
      PROVE  r.op = "read"
  BY <1>2 DEF IsRead
<1>. QED BY <1>1, <1>2 DEF NotRun, WriteInv, ReadInv

(* What the actions do, of any layout.                                     *)
LEMMA FileSteps ==
  /\ Slice = SliceOf(input.layout, result) /\ Readable = ReadableOf(result)
  /\ StartWrite => \E index \in Pieces(input.layout) : result' = StartedWrite(input.layout, index)
  /\ WriteFile => result.stage = "next" /\ result' = AfterWriteFile(input.layout, result)
  /\ Pwritev => /\ result.stage = "file" /\ result.count # result.slice.len
                /\ \E n \in Transfer(LenOf(as_slice(result.iovecs))) : result' = AfterPwritev(result, n)
  /\ FileWritten => /\ result.stage = "file"
                    /\ as_slice(result.iovecs) = <<>> \/ result.count = result.slice.len
                    /\ result' = AfterFileWritten(input.layout, result)
  /\ PwritevFails => result' = AfterWriteFailed(result)
  /\ StartRead => \E index \in Pieces(input.layout), n \in 0 .. download_len(input.layout) :
                    result' = StartedRead(input.layout, index, n)
  /\ ReadFile => result.stage = "next" /\ result' = AfterReadFile(input.layout, result)
  /\ Preadv => /\ result.stage = "file" /\ ~ ReadStops
               /\ \E n \in Transfer(Readable) : result' = AfterPreadv(result, n)
  /\ FileRead => result.stage = "file" /\ ReadStops /\ result' = AfterFileRead(input.layout, result)
  /\ ReadMissesData => /\ result.stage = "file" /\ ~ ReadStops /\ Readable = 0
                       /\ result' = AfterReadEnds(result, "missing data")
  /\ PreadvFails => result' = AfterReadEnds(result, "failed")
<1>1. Slice = SliceOf(input.layout, result)
  BY DEF Slice, SliceOf
<1>2. Readable = ReadableOf(result)
  BY DEF Readable, ReadableOf
<1>3. StartWrite => \E index \in Pieces(input.layout) : result' = StartedWrite(input.layout, index)
  BY DEF StartWrite, StartedWrite
<1>4. WriteFile => result.stage = "next" /\ result' = AfterWriteFile(input.layout, result)
  BY <1>1 DEF WriteFile, AfterWriteFile
<1>5. Pwritev => /\ result.stage = "file" /\ result.count # result.slice.len
                 /\ \E n \in Transfer(LenOf(as_slice(result.iovecs))) : result' = AfterPwritev(result, n)
  BY DEF Pwritev, AfterPwritev, WriteStops, Partial
<1>6. FileWritten => /\ result.stage = "file"
                     /\ as_slice(result.iovecs) = <<>> \/ result.count = result.slice.len
                     /\ result' = AfterFileWritten(input.layout, result)
  BY DEF FileWritten, AfterFileWritten, WriteStops
<1>7. PwritevFails => result' = AfterWriteFailed(result)
  BY DEF PwritevFails, AfterWriteFailed
<1>8. StartRead => \E index \in Pieces(input.layout), n \in 0 .. download_len(input.layout) :
                     result' = StartedRead(input.layout, index, n)
  BY DEF StartRead, StartedRead
<1>9. ReadFile => result.stage = "next" /\ result' = AfterReadFile(input.layout, result)
  BY <1>1 DEF ReadFile, AfterReadFile
<1>10. Preadv => /\ result.stage = "file" /\ ~ ReadStops
                 /\ \E n \in Transfer(Readable) : result' = AfterPreadv(result, n)
  BY <1>2 DEF Preadv, AfterPreadv, Partial
<1>11. FileRead => result.stage = "file" /\ ReadStops /\ result' = AfterFileRead(input.layout, result)
  BY DEF FileRead, AfterFileRead
<1>12. ReadMissesData => /\ result.stage = "file" /\ ~ ReadStops /\ Readable = 0
                         /\ result' = AfterReadEnds(result, "missing data")
  BY DEF ReadMissesData, AfterReadEnds
<1>13. PreadvFails => result' = AfterReadEnds(result, "failed")
  BY DEF PreadvFails, AfterReadEnds
<1>. QED BY <1>1, <1>2, <1>3, <1>4, <1>5, <1>6, <1>7, <1>8, <1>9, <1>10, <1>11, <1>12, <1>13

(* Each step keeps it so.                                                  *)
LEMMA FileStepInv == FileInv /\ [FileNext]_vars => FileInv'
<1>. SUFFICES ASSUME FileInv, [FileNext]_vars
              PROVE  FileInv'
  OBVIOUS
<1>. DEFINE l == input.layout
            r == result
            q == result'
<1>1. input' = input /\ input \in StorageInputs /\ Laid(l)
  BY TorrentKept, InputLaid DEF FileInv
<1>2. r = NotRun \/ WriteInv(l, r) \/ ReadInv(l, r)
  BY DEF FileInv
<1>3. r.op = "write" => WriteInv(l, r)
  BY <1>2, Operations
<1>4. r.op = "read" => ReadInv(l, r)
  BY <1>2, Operations
<1>5. SUFFICES q = NotRun \/ WriteInv(l, q) \/ ReadInv(l, q)
  BY <1>1 DEF FileInv
<1>6. CASE UNCHANGED vars
  <2>1. q = r
    BY <1>6 DEF vars
  <2>. QED BY <1>2, <2>1
<1>7. CASE StartWrite
  BY <1>1, <1>7, FileSteps, StartWriteKeeps
<1>8. CASE WriteFile
  <2>1. r.op = "write"
    BY <1>8 DEF WriteFile
  <2>. QED BY <1>1, <1>3, <1>8, <2>1, FileSteps, WriteFileKeeps
<1>9. CASE Pwritev
  <2>1. r.op = "write"
    BY <1>9 DEF Pwritev
  <2>2. r.stage = "file" /\ r.count # r.slice.len /\ WriteInv(l, r)
    BY <1>3, <1>9, <2>1, FileSteps
  <2>3. PICK n \in Transfer(LenOf(as_slice(r.iovecs))) : q = AfterPwritev(r, n)
    BY <1>9, FileSteps
  <2>4. LenOf(as_slice(r.iovecs)) \in Int
    <3>1. PICK from \in Nat, limit \in Nat : BuffersSplit(l, r, from, limit)
      BY <2>2 DEF WriteInv
    <3>2. PieceEnd(l, r.index) \in Nat
      BY <1>1, <2>2, PieceNumbers DEF WriteInv
    <3>3. Filling(as_slice(r.iovecs), from, limit)
      BY <3>1, <3>2, FirstHalf DEF BuffersSplit
    <3>. DEFINE bufs == as_slice(r.iovecs)
    <3>4. bufs \in Seq(Buffers) /\ Hold(bufs, from, limit)
      BY <3>3 DEF Filling
    <3>. HIDE DEF bufs
    <3>5. LenOf(bufs) = limit - from
      BY <3>1, <3>4, FillingSums
    <3>. QED BY <3>1, <3>5 DEF bufs
  <2>5. n \in Nat \ {0} /\ n <= LenOf(as_slice(r.iovecs))
    BY <2>4 DEF Transfer
  <2>. HIDE DEF l, r, q
  <2>. QED BY <1>1, <2>2, <2>3, <2>5, PwritevKeeps
<1>10. CASE FileWritten
  <2>1. r.op = "write"
    BY <1>10 DEF FileWritten
  <2>. QED BY <1>1, <1>3, <1>10, <2>1, FileSteps, FileWrittenKeeps
<1>11. CASE PwritevFails
  <2>1. r.op = "write"
    BY <1>11 DEF PwritevFails
  <2>. QED BY <1>3, <1>11, <2>1, FileSteps, WriteFailedKeeps
<1>12. CASE StartRead
  <2>1. PICK index \in Pieces(l), n \in 0 .. download_len(l) : q = StartedRead(l, index, n)
    BY <1>12, FileSteps
  <2>2. n \in Nat
    BY <1>1 DEF Laid
  <2>. QED BY <1>1, <2>1, <2>2, StartReadKeeps
<1>13. CASE ReadFile
  <2>1. r.op = "read"
    BY <1>13 DEF ReadFile
  <2>. QED BY <1>1, <1>4, <1>13, <2>1, FileSteps, ReadFileKeeps
<1>14. CASE Preadv
  <2>1. r.op = "read"
    BY <1>14 DEF Preadv
  <2>2. r.stage = "file" /\ ~ ReadStops /\ ReadInv(l, r) /\ Readable = ReadableOf(r)
    BY <1>4, <1>14, <2>1, FileSteps
  <2>3. PICK n \in Transfer(Readable) : q = AfterPreadv(r, n)
    BY <1>14, FileSteps
  <2>4. ReadableOf(r) \in Int
    <3>1. PICK from \in Nat : ReadUpTo(l, r, from, At(l, r) + r.count)
      BY <2>2 DEF ReadInv
    <3>2. Filling(r.bufs, from, PieceEnd(l, r.index))
      BY <3>1 DEF ReadUpTo
    <3>. QED BY <1>1, <2>2, <3>2, ReadableNumbers
  <2>5. n \in Nat \ {0} /\ n <= ReadableOf(r)
    BY <2>2, <2>4 DEF Transfer
  <2>6. r.bufs # <<>> /\ ~ r.count >= r.slice.len
    BY <2>2 DEF ReadStops
  <2>. HIDE DEF l, r, q
  <2>. QED BY <1>1, <2>2, <2>3, <2>5, <2>6, PreadvKeeps
<1>15. CASE FileRead
  <2>1. r.op = "read"
    BY <1>15 DEF FileRead
  <2>. QED BY <1>1, <1>4, <1>15, <2>1, FileSteps, FileReadKeeps DEF ReadStops
<1>16. CASE ReadMissesData
  <2>1. r.op = "read"
    BY <1>16 DEF ReadMissesData
  <2>2. /\ r.stage = "file" /\ ReadInv(l, r) /\ ReadableOf(r) = 0 /\ r.bufs # <<>>
        /\ q = AfterReadEnds(r, "missing data")
    BY <1>4, <1>16, <2>1, FileSteps DEF ReadStops
  <2>. HIDE DEF l, r, q
  <2>. QED BY <1>1, <2>2, ReadMisses, ReadEndsKeeps
<1>17. CASE PreadvFails
  <2>1. r.op = "read"
    BY <1>17 DEF PreadvFails
  <2>2. ReadInv(l, r) /\ q = AfterReadEnds(r, "failed")
    BY <1>4, <1>17, <2>1, FileSteps
  <2>. HIDE DEF l, r, q
  <2>. QED BY <2>2, ReadEndsKeeps
<1>. HIDE DEF l, r, q
<1>. QED BY <1>6, <1>7, <1>8, <1>9, <1>10, <1>11, <1>12, <1>13, <1>14, <1>15, <1>16, <1>17 DEF FileNext

(* It is so in every state.                                                *)
LEMMA FileAlways == FileSpec => []FileInv
<1>1. input \in StorageInputs /\ result = NotRun => FileInv
  BY DEF FileInv
<1>. QED BY <1>1, FileStepInv, PTL DEF FileSpec

(* No write reaches past the end of a file or touches another piece,       *)
(* however many bytes each system call takes.                              *)
THEOREM FileWriteStaysInPiece == FileSpec => []WriteStaysInPiece
<1>1. FileInv => WriteStaysInPiece
  <2>. SUFFICES ASSUME FileInv, result.op = "write"
                PROVE  WriteStaysInPiece
    BY DEF WriteStaysInPiece
  <2>1. Laid(input.layout) /\ WriteInv(input.layout, result)
    BY InputLaid, Operations DEF FileInv
  <2>. QED BY <2>1, WriteContained DEF WriteStaysInPiece, InPiece
<1>. QED BY <1>1, FileAlways, PTL

(* A write that ends, of a piece no block of which ends with a file inside *)
(* the piece, has put each byte where it belongs, if each call transferred *)
(* all it was asked to.                                                    *)
THEOREM FilePieceWritten == FileSpec => []PieceWritten
<1>1. FileInv => PieceWritten
  <2>. DEFINE l == input.layout
              r == result
  <2>. SUFFICES ASSUME FileInv, r.op = "write", r.stage = "done", r.partial = 0,
                       ~ FileEndsAtBlock(l, r.index), NEW f \in DOMAIN l.files,
                       NEW k \in torrent_offset(l, f) .. torrent_end_offset(l, f) - 1
                PROVE  Stored(f, k) = IF InPiece(k) THEN k + 1 ELSE 0
    BY DEF PieceWritten
  <2>1. WriteInv(l, r)
    BY Operations DEF FileInv
  <2>2. Written(l, r.files, PieceStart(l, r.index), PieceEnd(l, r.index))
    BY <2>1 DEF WriteInv, Smooth, Progress
  <2>3. Stored(f, k) = ByteOf(r.files[f], k - torrent_offset(l, f) + 1)
    BY DEF Stored, ByteOf
  <2>. QED BY <2>2, <2>3 DEF Written, InPiece
<1>. QED BY <1>1, FileAlways, PTL

(* A read of a piece that is all there never finds data missing.  If every *)
(* call transfers all that it is asked to, a read that ends well has the   *)
(* piece's bytes in place, and none ends well that finds the files to end  *)
(* before the piece, or inside it with one of its files.                   *)
THEOREM FileReadIsExact == FileSpec => []ReadIsExact
<1>1. FileInv => ReadIsExact
  <2>. DEFINE l == input.layout
              r == result
              start == PieceStart(l, r.index)
              end == PieceEnd(l, r.index)
  <2>. SUFFICES ASSUME FileInv, r.op = "read"
                PROVE  ReadIsExact
    BY DEF ReadIsExact
  <2>1. Laid(l) /\ ReadInv(l, r)
    BY InputLaid, Operations DEF FileInv
  <2>2. /\ r.held >= end => r.stage # "missing data"
        /\ DOMAIN r.memory = start .. end - 1 /\ r.held \in Nat
    BY <2>1 DEF ReadInv
  <2>3. start \in Nat /\ end \in Nat /\ start < end
    BY <2>1, PieceNumbers DEF ReadInv
  <2>4. Missing(l, r) <=> PieceMissing
    BY DEF Missing, PieceMissing
  <2>5. ASSUME r.partial = 0, r.stage = "done", Missing(l, r) \/ r.held >= end
        PROVE  ~ Missing(l, r) /\ \A a \in DOMAIN r.memory : r.memory[a] = a + 1
    <3>1. Got(l, r, end)
      BY <2>1, <2>5 DEF ReadInv, Exact
    <3>2. end <= r.held
      BY <2>3, <3>1 DEF Got
    <3>3. ~ Missing(l, r)
      <4>. HIDE DEF start, end
      <4>1. ~ r.held <= start /\ ~ r.held < end
        <5>. DEFINE held == r.held
        <5>1. held \in Nat /\ end <= held
          BY <2>2, <3>2
        <5>. HIDE DEF held
        <5>2. ~ held <= start /\ ~ held < end
          BY <2>3, <5>1
        <5>. QED BY <5>2 DEF held
      <4>. QED BY <4>1 DEF Missing, start, end
    <3>. QED BY <2>2, <3>1, <3>3 DEF Got
  <2>. QED BY <2>2, <2>4, <2>5 DEF ReadIsExact
<1>. QED BY <1>1, FileAlways, PTL
=============================================================================
