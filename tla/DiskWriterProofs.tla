-------------------------- MODULE DiskWriterProofs ---------------------------
(***************************************************************************)
(* Proofs about DiskWriterAlone, for any number of pieces and blocks and   *)
(* any number of copies of each: the write path keeps its types, and every *)
(* blocking thread that was ever started stands for one more copy of each  *)
(* block of its piece.  The second is inductive given the first: a block   *)
(* goes from the queue to the buffer to a thread, and is counted once.     *)
(***************************************************************************)
EXTENDS DiskWriterAlone, Basics

IInv == TypeOK /\ FlushNeedsEveryBlock

\* What FlushNeedsEveryBlock counts for a block of a piece.
Buffered(b) == IF b \in write_buf THEN 1 ELSE 0
Uses(p, b) == finished[p] + write_jobs[p] + Queued(b) + Buffered(b)

-----------------------------------------------------------------------------
(* Lemmas on blocks and queues.                                            *)

(* A block is one of exactly one piece's.                                  *)
LEMMA BlockParts ==
  /\ \A b \in Blocks : b[1] \in Pieces /\ b \in BlocksOf(b[1])
  /\ \A p \in Pieces : \A b \in BlocksOf(p) : b \in Blocks /\ b[1] = p
BY DEF Blocks, BlocksOf

(* How many copies of a block are queued is counted by its places.         *)
LEMMA QueuedIsPlaces ==
  /\ \A b : Queued(b) = Cardinality(Places(disk_queue, b))
  /\ \A b : Queued(b)' = Cardinality(Places(disk_queue', b))
BY DEF Queued, Places

(* With the types, all that is counted are numbers.                        *)
LEMMA UsesTyped ==
  ASSUME TypeOK, NEW p \in Pieces, NEW b \in BlocksOf(p)
  PROVE  /\ finished[p] \in Nat /\ write_jobs[p] \in Nat /\ Queued(b) \in Nat
         /\ Buffered(b) \in {0, 1} /\ sent[b] \in 0 .. MaxWrites
<1>1. b \in Blocks
  BY BlockParts
<1>2. Queued(b) \in Nat
  BY QueuedIsPlaces, PlacesFinite DEF TypeOK, DiskTypeOK
<1>. QED BY <1>1, <1>2 DEF TypeOK, DiskTypeOK, Buffered

-----------------------------------------------------------------------------
(* Steps.                                                                  *)

(* A copy that is sent is queued.                                          *)
LEMMA SendKeeps ==
  ASSUME IInv, NEW b \in Blocks, Send(b)
  PROVE  IInv'
<1>. USE DEF IInv
<1>1. /\ disk_queue' = Append(disk_queue, b)
      /\ sent' = [sent EXCEPT ![b] = @ + 1] /\ sent[b] < MaxWrites
      /\ UNCHANGED <<write_buf, write_jobs, written, completions, finished>>
  BY DEF Send, SendWriteBlock
<1>2. disk_queue' \in Seq(Blocks)
  BY <1>1, SeqAppend DEF TypeOK, DiskTypeOK
<1>3. sent[b] + 1 \in 0 .. MaxWrites
  BY <1>1, WritesAssumption DEF TypeOK
<1>4. TypeOK'
  BY <1>1, <1>2, <1>3 DEF TypeOK, DiskTypeOK
<1>5. ASSUME NEW p \in Pieces, NEW c \in BlocksOf(p)
      PROVE  Uses(p, c)' <= sent'[c]
  <2>1. Queued(c)' = Queued(c) + (IF b = c THEN 1 ELSE 0)
    BY <1>1, QueuedIsPlaces, PlacesAppend DEF TypeOK, DiskTypeOK
  <2>2. sent'[c] = sent[c] + (IF b = c THEN 1 ELSE 0)
    BY <1>1, BlockParts DEF TypeOK
  <2>3. Uses(p, c) <= sent[c]
    BY DEF FlushNeedsEveryBlock, Uses, Buffered
  <2>4. finished'[p] = finished[p] /\ write_jobs'[p] = write_jobs[p] /\ Buffered(c)' = Buffered(c)
    BY <1>1 DEF Buffered
  <2>. QED BY <2>1, <2>2, <2>3, <2>4, UsesTyped DEF Uses
<1>. QED BY <1>4, <1>5 DEF FlushNeedsEveryBlock, Uses, Buffered

(* A copy that is taken off the queue is buffered, or dropped beside one   *)
(* that is; the one that completes a piece takes one of each with it.      *)
LEMMA CollectKeeps ==
  ASSUME IInv, Collect
  PROVE  IInv'
<1>. USE DEF IInv
<1>. DEFINE b == Head(disk_queue)
            buffered == write_buf \cup {b}
<1>1. /\ disk_queue \in Seq(Blocks) /\ disk_queue # <<>> /\ disk_queue' = Tail(disk_queue)
      /\ UNCHANGED <<written, completions, sent, finished>>
  BY DEF Collect, WriteBlock, write_block, TypeOK, DiskTypeOK
<1>2. b \in Blocks /\ Tail(disk_queue) \in Seq(Blocks) /\ b[1] \in Pieces /\ b \in BlocksOf(b[1])
  BY <1>1, SeqTail, BlockParts
<1>3. /\ write_buf' = IF IsComplete(b[1], buffered) THEN buffered \ BlocksOf(b[1]) ELSE buffered
      /\ write_jobs' = IF IsComplete(b[1], buffered) THEN [write_jobs EXCEPT ![b[1]] = @ + 1]
                       ELSE write_jobs
  BY DEF Collect, WriteBlock, write_block
<1>4. TypeOK'
  <2>1. write_buf' \subseteq Blocks
    BY <1>2, <1>3 DEF TypeOK, DiskTypeOK
  <2>2. write_jobs' \in [Pieces -> Nat]
    BY <1>2, <1>3 DEF TypeOK, DiskTypeOK
  <2>. QED BY <1>1, <1>2, <2>1, <2>2 DEF TypeOK, DiskTypeOK
<1>5. ASSUME NEW p \in Pieces, NEW c \in BlocksOf(p)
      PROVE  Uses(p, c)' <= sent'[c]
  <2>1. Queued(c) = Queued(c)' + (IF b = c THEN 1 ELSE 0)
    BY <1>1, QueuedIsPlaces, PlacesTail
  <2>2. Queued(c)' \in Nat
    BY <1>1, <1>2, QueuedIsPlaces, PlacesFinite
  <2>3. Uses(p, c) <= sent[c]
    BY DEF FlushNeedsEveryBlock, Uses, Buffered
  <2>4. CASE ~ IsComplete(b[1], buffered)
    <3>1. Buffered(c)' <= Buffered(c) + (IF b = c THEN 1 ELSE 0) /\ Buffered(c)' \in {0, 1}
      BY <1>3, <2>4 DEF Buffered
    <3>2. finished'[p] = finished[p] /\ write_jobs'[p] = write_jobs[p] /\ sent'[c] = sent[c]
      BY <1>1, <1>3, <2>4
    <3>. QED BY <2>1, <2>2, <2>3, <3>1, <3>2, UsesTyped DEF Uses
  <2>5. CASE IsComplete(b[1], buffered) /\ p = b[1]
    <3>1. c \in buffered /\ Buffered(c)' = 0
      BY <1>3, <2>5 DEF IsComplete, Buffered
    <3>2. Buffered(c) + (IF b = c THEN 1 ELSE 0) >= 1
      BY <3>1 DEF Buffered
    <3>3. finished'[p] = finished[p] /\ write_jobs'[p] = write_jobs[p] + 1 /\ sent'[c] = sent[c]
      BY <1>1, <1>3, <2>5 DEF TypeOK, DiskTypeOK
    <3>. QED BY <2>1, <2>2, <2>3, <3>1, <3>2, <3>3, UsesTyped DEF Uses
  <2>6. CASE IsComplete(b[1], buffered) /\ p # b[1]
    <3>1. c # b /\ c \notin BlocksOf(b[1])
      BY <1>2, <2>6, BlockParts
    <3>2. Buffered(c)' = Buffered(c)
      BY <1>3, <2>6, <3>1 DEF Buffered
    <3>3. finished'[p] = finished[p] /\ write_jobs'[p] = write_jobs[p] /\ sent'[c] = sent[c]
      BY <1>1, <1>3, <2>6 DEF TypeOK, DiskTypeOK
    <3>. QED BY <2>1, <2>2, <2>3, <3>1, <3>2, <3>3, UsesTyped DEF Uses
  <2>. QED BY <2>4, <2>5, <2>6
<1>. QED BY <1>4, <1>5 DEF FlushNeedsEveryBlock, Uses, Buffered

(* A thread that ends was one that ran.                                    *)
LEMMA HashAndWriteKeeps ==
  ASSUME IInv, NEW p \in Pieces, HashAndWrite(p)
  PROVE  IInv'
<1>. USE DEF IInv
<1>1. /\ write_jobs[p] > 0 /\ write_jobs' = [write_jobs EXCEPT ![p] = @ - 1]
      /\ finished' = [finished EXCEPT ![p] = @ + 1]
      /\ UNCHANGED <<disk_queue, write_buf, sent>>
      /\ written' \in {written, written \cup {p}}
  BY DEF HashAndWrite, FinishValid, FinishInvalid, FinishError, Finish
<1>2. completions' \in Seq(Completions)
  <2>1. PICK report \in Completions : completions' = Append(completions, report)
    BY DEF HashAndWrite, FinishValid, FinishInvalid, FinishError, Finish, Completions
  <2>. QED BY <2>1, SeqAppend DEF TypeOK, DiskTypeOK
<1>3. TypeOK'
  <2>1. write_jobs' \in [Pieces -> Nat] /\ finished' \in [Pieces -> Nat]
    BY <1>1 DEF TypeOK, DiskTypeOK
  <2>. QED BY <1>1, <1>2, <2>1 DEF TypeOK, DiskTypeOK
<1>4. ASSUME NEW q \in Pieces, NEW c \in BlocksOf(q)
      PROVE  Uses(q, c)' <= sent'[c]
  <2>1. finished'[q] + write_jobs'[q] = finished[q] + write_jobs[q]
    BY <1>1 DEF TypeOK, DiskTypeOK
  <2>2. Queued(c)' = Queued(c) /\ Buffered(c)' = Buffered(c) /\ sent'[c] = sent[c]
    BY <1>1 DEF Queued, Buffered
  <2>3. Uses(q, c) <= sent[c]
    BY DEF FlushNeedsEveryBlock, Uses, Buffered
  <2>. QED BY <2>1, <2>2, <2>3, UsesTyped DEF Uses
<1>. QED BY <1>3, <1>4 DEF FlushNeedsEveryBlock, Uses, Buffered

-----------------------------------------------------------------------------
(* The theorems.                                                           *)

(* Nothing is sent at the start.                                           *)
LEMMA InitInv ==
  ASSUME Init
  PROVE  IInv
<1>1. /\ disk_queue = <<>> /\ completions = <<>> /\ write_buf = {} /\ written = {}
      /\ write_jobs = [p \in Pieces |-> 0]
  BY DEF Init, DiskInit
<1>2. \A S : <<>> \in Seq(S)
  OBVIOUS
<1>3. 0 \in 0 .. MaxWrites
  BY WritesAssumption
<1>4. TypeOK
  BY <1>1, <1>2, <1>3 DEF Init, TypeOK, DiskTypeOK
<1>5. \A b : Queued(b) = 0
  <2>1. \A b : Places(disk_queue, b) = {}
    BY <1>1 DEF Places
  <2>. QED BY <2>1, QueuedIsPlaces, FS_EmptySet
<1>6. ASSUME NEW p \in Pieces, NEW b \in BlocksOf(p)
      PROVE  Uses(p, b) <= sent[b]
  BY <1>1, <1>5, BlockParts DEF Init, Uses, Buffered
<1>. QED BY <1>4, <1>6 DEF IInv, FlushNeedsEveryBlock, Uses, Buffered

(* Every step keeps the invariant.                                         *)
LEMMA StepInv ==
  ASSUME IInv, [Next]_vars
  PROVE  IInv'
<1>1. CASE UNCHANGED vars
  BY <1>1 DEF vars, diskVars, IInv, TypeOK, DiskTypeOK, FlushNeedsEveryBlock, Queued
<1>. QED BY <1>1, SendKeeps, CollectKeeps, HashAndWriteKeeps DEF Next

(* The two parts hold together.                                            *)
THEOREM WriterInvariant == Spec => []IInv
<1>1. Init => IInv
  BY InitInv
<1>2. IInv /\ [Next]_vars => IInv'
  BY StepInv
<1>. QED BY <1>1, <1>2, PTL DEF Spec

(* The write path keeps its types; no count of threads goes below zero.    *)
THEOREM WriterTypeOK == Spec => []TypeOK
<1>1. IInv => TypeOK
  BY DEF IInv
<1>. QED BY <1>1, WriterInvariant, PTL

(* A piece goes to a blocking thread only when each of its blocks came     *)
(* once more since the last time, for any number of duplicates in any      *)
(* order: blocks counted for one thread are never counted for another.     *)
THEOREM WriterFlushNeedsEveryBlock == Spec => []FlushNeedsEveryBlock
<1>1. IInv => FlushNeedsEveryBlock
  BY DEF IInv
<1>. QED BY <1>1, WriterInvariant, PTL
=============================================================================
