------------------------------- MODULE IoVecs --------------------------------
(***************************************************************************)
(* Vectored buffers (iovecs.rs).  A buffer is a pointer and a length, as   *)
(* in the code; where the bytes are is all that the code looks at, so an   *)
(* address is the number of a byte.  IoVecs wraps a sequence of buffers    *)
(* and, if they are longer than the slice of the file they go to, a split: *)
(* the position of the last buffer of the first half (0: no split) and     *)
(* what was cut off that buffer, if the split is not at its end.           *)
(***************************************************************************)
EXTENDS Integers, Sequences, Sums, AlgorithmRun

CONSTANTS
  BufferLens,   \* bound: lengths of the buffers to split
  Limits        \* bound: lengths to split them at

ASSUME IoVecsAssumption ==
  /\ \A lens \in BufferLens : lens \in Seq(Nat \ {0})
  /\ Limits \subseteq Nat \ {0}

Skip(s, n) == SubSeq(s, n + 1, Len(s))

Buffer(ptr, len) == [ptr |-> ptr, len |-> len]
EndOf(buf) == buf.ptr + buf.len
Shrunk(buf, n) == Buffer(buf.ptr, n)
Advanced(buf, n) == Buffer(buf.ptr + n, buf.len - n)

\* The number of bytes in the first k buffers, and in all of them.
LenUpTo(bufs, k) == PartialSums([j \in DOMAIN bufs |-> bufs[j].len])[k]
LenOf(bufs) == LenUpTo(bufs, Len(bufs))

\* Buffers one behind the other, the first one at an address.
BuffersAt(start, lens) ==
  [k \in DOMAIN lens |-> Buffer(start + PartialSums(lens)[k - 1], lens[k])]

\* The bytes of the buffers, in order, are those from `from` to before `to`.
Hold(bufs, from, to) ==
  /\ IF bufs = <<>> THEN from = to ELSE bufs[1].ptr = from /\ EndOf(bufs[Len(bufs)]) = to
  /\ \A k \in 2 .. Len(bufs) : bufs[k].ptr = EndOf(bufs[k - 1])

\* Where byte i of the buffers is, counted from 0.
Address(bufs, i) ==
  LET k == CHOOSE k \in DOMAIN bufs : LenUpTo(bufs, k - 1) <= i /\ i < LenUpTo(bufs, k)
  IN bufs[k].ptr + (i - LenUpTo(bufs, k - 1))

-----------------------------------------------------------------------------
(* IoVecs.                                                                 *)

NoBuffer == Buffer(0, 0)

unbounded(bufs) == [bufs |-> bufs, pos |-> 0, clean |-> TRUE, second_half |-> NoBuffer]

split_at_buffer_boundary(bufs, pos) == [unbounded(bufs) EXCEPT !.pos = pos]

split_within_buffer(bufs, pos, cut) ==
  [bufs |-> [bufs EXCEPT ![pos] = Shrunk(@, cut)], pos |-> pos, clean |-> FALSE,
   second_half |-> Advanced(bufs[pos], cut)]

\* Mutant of bounded: the buffer at the boundary is not trimmed.
bounded_NoTrim(bufs, max_len) ==
  LET reaching == {k \in DOMAIN bufs : LenUpTo(bufs, k) >= max_len}
      pos == CHOOSE k \in reaching : \A j \in reaching : k <= j
  IN IF reaching = {} THEN unbounded(bufs) ELSE split_at_buffer_boundary(bufs, pos)

\* Split at the first buffer that reaches the limit.
bounded(bufs, max_len) ==
  LET reaching == {k \in DOMAIN bufs : LenUpTo(bufs, k) >= max_len}
      pos == CHOOSE k \in reaching : \A j \in reaching : k <= j
  IN IF reaching = {} THEN unbounded(bufs)
     ELSE IF LenUpTo(bufs, pos) > max_len
       THEN split_within_buffer(bufs, pos, max_len - LenUpTo(bufs, pos - 1))
     ELSE IF pos = Len(bufs) THEN unbounded(bufs)
     ELSE split_at_buffer_boundary(bufs, pos)

\* The first half; a buffer that advance has emptied marks its end.
as_slice(iovecs) ==
  IF iovecs.pos = 0 THEN iovecs.bufs
  ELSE IF iovecs.pos = 1 /\ iovecs.bufs # <<>> /\ iovecs.bufs[1].len = 0 THEN <<>>
  ELSE SubSeq(iovecs.bufs, 1, iovecs.pos)

\* How many buffers the first n bytes fill.
FilledBy(bufs, n) ==
  LET filled == {k \in 0 .. Len(bufs) : LenUpTo(bufs, k) <= n}
  IN CHOOSE k \in filled : \A j \in filled : j <= k

\* The buffers without the first k, and the first of the others without n bytes.
Remaining(bufs, k, n) ==
  LET left == Skip(bufs, k)
  IN IF left = <<>> THEN <<>> ELSE [left EXCEPT ![1] = Advanced(@, n)]

\* advance panics if asked for more than the first half holds.
AdvanceDefined(iovecs, n) == n <= LenOf(as_slice(iovecs))

\* Drops n bytes off the front.  The buffer at the split stays, emptied if
\* need be: into_tail restores its second half.
advance(iovecs, n) ==
  LET whole == FilledBy(as_slice(iovecs), n)
      removed == IF whole > 0 /\ whole = iovecs.pos THEN whole - 1 ELSE whole
  IN [iovecs EXCEPT
        !.bufs = Remaining(@, removed, n - LenUpTo(@, removed)),
        !.pos = IF @ = 0 THEN 0 ELSE IF removed >= @ - 1 THEN 1 ELSE @ - removed]

\* The second half.  A split at a buffer boundary gives back, unless advance
\* has emptied it, the buffer before the boundary too.
into_tail(iovecs) ==
  IF iovecs.pos = 0 THEN <<>>
  ELSE Skip(IF iovecs.clean THEN iovecs.bufs
            ELSE [iovecs.bufs EXCEPT ![iovecs.pos] = iovecs.second_half], iovecs.pos - 1)

\* The free function advance, for buffers to read into.
advance_read(bufs, n) ==
  LET whole == FilledBy(bufs, n) IN Remaining(bufs, whole, n - LenUpTo(bufs, whole))

-----------------------------------------------------------------------------
(* Buffers that hold the first bytes there are, bounded, then advanced bit *)
(* by bit.                                                                 *)

BoundBuffers ==
  /\ input.algorithm = "iovecs" /\ result = NotRun
  /\ result' = [op |-> "iovecs", advanced |-> 0,
                iovecs |-> bounded(BuffersAt(0, input.lens), input.max_len)]
  /\ UNCHANGED input

AdvanceBuffers ==
  /\ result.op = "iovecs"
  /\ \E n \in 1 .. input.max_len :
       /\ AdvanceDefined(result.iovecs, n)
       /\ result' = [result EXCEPT !.advanced = @ + n, !.iovecs = advance(@, n)]
  /\ UNCHANGED input

IoVecsInputs == {[algorithm |-> "iovecs", lens |-> lens, max_len |-> n] : lens \in BufferLens, n \in Limits}
IoVecsNext == BoundBuffers \/ AdvanceBuffers

IoVecsSpec == input \in IoVecsInputs /\ result = NotRun /\ [][IoVecsNext]_vars

(* Splitting neither loses nor repeats a byte, wherever the limit falls    *)
(* and however the first half is consumed: the first half is what is left  *)
(* of the bytes up to the limit, and, once it is consumed or if the split  *)
(* is inside a buffer, the tail is the bytes after the limit.              *)
SplitKeepsBytes ==
  result.op = "iovecs" =>
    LET first_half == as_slice(result.iovecs)
        len == PartialSums(input.lens)[Len(input.lens)]
        limit == IF input.max_len < len THEN input.max_len ELSE len
    IN /\ Hold(first_half, result.advanced, limit)
       /\ result.advanced = limit \/ ~ result.iovecs.clean =>
            Hold(into_tail(result.iovecs), limit, len)
=============================================================================
