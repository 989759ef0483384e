--------------------------- MODULE DiskTaskProofs ---------------------------
(***************************************************************************)
(* Proofs about DiskTask, for any number of pieces, blocks, sessions,      *)
(* requests and cached pieces: its types, that a piece announced before it *)
(* was asked for is never served as a hole, and that nothing but a failed  *)
(* allocation or an ended session ends the disk task.                      *)
(***************************************************************************)
EXTENDS DiskTask, Basics

-----------------------------------------------------------------------------
(* The inductive invariant.                                                *)

Commands == {NewTorrent, Shutdown} \cup {WriteBlock(b) : b \in Writer!Blocks}
              \cup {ReadBlock(s, b) : s \in Sessions, b \in Writer!Blocks}
CacheEntries == [piece : Pieces, content : {"data", "hole"}]
Jobs == [session : Sessions, block : Writer!Blocks, content : {"unread", "data", "hole"}]
Answers == [block : Writer!Blocks, content : {"data", "hole"}]

CommandsTyped ==
  cmd_rx \in Seq(Commands) /\ disk \in {"running", "dead", "stopped"} /\ allocated \in BOOLEAN
WritesTyped ==
  /\ write_buf \subseteq Writer!Blocks /\ write_jobs \in [Pieces -> Nat]
  /\ written \subseteq Pieces /\ completions \in Seq(Writer!Completions)
ReadsTyped ==
  /\ read_cache \in Seq(CacheEntries) /\ Len(read_cache) <= CacheSize
  /\ BagToSet(read_jobs) \subseteq Jobs
  /\ read_errors \subseteq Sessions \X Writer!Blocks
PeersTyped ==
  /\ incoming_requests \in [Sessions -> SUBSET Writer!Blocks]
  /\ is_peer_choked \in [Sessions -> BOOLEAN] /\ is_peer_interested \in [Sessions -> BOOLEAN]
  /\ alive \in [Sessions -> BOOLEAN]
  /\ session_rx \in [Sessions -> Seq(Answers)]
Typed == CommandsTyped /\ WritesTyped /\ ReadsTyped /\ PeersTyped

\* A piece that was not asked for early is in the files from the command to
\* the answer, and only an early one is read as a hole.
ReportedInv == \A p \in Pieces : Writer!Valid(p) \in ToSet(completions) => p \in written
AskedInv ==
  \A k \in DOMAIN cmd_rx : cmd_rx[k].cmd = "ReadBlock" => cmd_rx[k].block[1] \in written \cup early
JobsInv ==
  \A j \in BagToSet(read_jobs) :
    /\ j.block[1] \in written \cup early
    /\ j.content = "hole" => j.block[1] \in early
CacheInv == \A k \in DOMAIN read_cache : read_cache[k].content = "hole" => read_cache[k].piece \in early
AnswersInv ==
  \A s \in Sessions : \A k \in DOMAIN session_rx[s] :
    session_rx[s][k].content = "hole" => session_rx[s][k].block[1] \in early
ServedInv == ReportedInv /\ AskedInv /\ JobsInv /\ CacheInv /\ AnswersInv

IInv == Typed /\ ServedInv /\ DiskSurvives

-----------------------------------------------------------------------------
(* Lemmas on the channel, blocks, the cache and bags of threads.           *)

(* A command is what its first field says.                                 *)
LEMMA CommandFacts ==
  ASSUME NEW c \in Commands
  PROVE  /\ c.cmd = "WriteBlock" => c.block \in Writer!Blocks
         /\ c.cmd = "ReadBlock" => c.session \in Sessions /\ c.block \in Writer!Blocks
BY DEF Commands, NewTorrent, Shutdown, WriteBlock, ReadBlock

(* A block names one of the pieces.                                        *)
LEMMA BlockPiece ==
  ASSUME NEW b \in Writer!Blocks
  PROVE  b[1] \in Pieces /\ Writer!BlocksOf(b[1]) \subseteq Writer!Blocks
BY DEF Writer!Blocks, Writer!BlocksOf, Pieces

(* What is left of the channel after a command is taken off.               *)
LEMMA TakesFacts ==
  ASSUME CommandsTyped, NEW cmd, Takes(cmd)
  PROVE  /\ disk = "running" /\ Head(cmd_rx) \in Commands /\ Head(cmd_rx).cmd = cmd
         /\ 1 \in DOMAIN cmd_rx /\ Head(cmd_rx) = cmd_rx[1]
         /\ cmd_rx' \in Seq(Commands)
         /\ \A k \in DOMAIN cmd_rx' :
              k \in Int /\ k > 0 /\ k + 1 \in DOMAIN cmd_rx /\ cmd_rx'[k] = cmd_rx[k + 1]
BY DEF CommandsTyped, Takes

(* What was true of the commands in the channel is true of what is left.   *)
LEMMA TakesKeeps ==
  ASSUME IInv, NEW cmd, Takes(cmd), UNCHANGED <<alive, written, early>>
  PROVE  AskedInv'
<1>1. \A k \in DOMAIN cmd_rx' :
        k \in Int /\ k > 0 /\ k + 1 \in DOMAIN cmd_rx /\ cmd_rx'[k] = cmd_rx[k + 1]
  BY TakesFacts DEF IInv, Typed
<1>. QED BY <1>1 DEF IInv, ServedInv, AskedInv

(* What is in the channel after a command is sent.                         *)
LEMMA AppendFacts ==
  ASSUME CommandsTyped, NEW c \in Commands, cmd_rx' = Append(cmd_rx, c)
  PROVE  /\ cmd_rx' \in Seq(Commands)
         /\ DOMAIN cmd_rx \subseteq Nat
         /\ Len(cmd_rx) + 1 \in DOMAIN cmd_rx' /\ cmd_rx'[Len(cmd_rx) + 1] = c
         /\ \A k \in DOMAIN cmd_rx : k < Len(cmd_rx) + 1 /\ k \in DOMAIN cmd_rx' /\ cmd_rx'[k] = cmd_rx[k]
         /\ \A k \in DOMAIN cmd_rx' : k = Len(cmd_rx) + 1 \/ k \in DOMAIN cmd_rx
BY DEF CommandsTyped

(* The threads that run after one was started, and after one ended.        *)
LEMMA BagFacts ==
  ASSUME NEW B, NEW x
  PROVE  /\ BagToSet(B (+) SetToBag({x})) = BagToSet(B) \cup {x}
         /\ BagToSet(B (-) SetToBag({x})) \subseteq BagToSet(B)
<1>1. BagToSet(B (+) SetToBag({x})) = BagToSet(B) \cup {x}
  BY DEF BagToSet, SetToBag, (+)
<1>2. BagToSet(B (-) SetToBag({x})) \subseteq BagToSet(B)
  BY DEF BagToSet, SetToBag, (-)
<1>. QED BY <1>1, <1>2

(* A piece put into the cache is its first entry; the others were there.   *)
LEMMA PutFacts ==
  ASSUME DiskTaskAssumption, ReadsTyped, NEW p \in Pieces, NEW content \in {"data", "hole"}
  PROVE  /\ Put(p, content) \in Seq(CacheEntries) /\ Len(Put(p, content)) <= CacheSize
         /\ \A k \in DOMAIN Put(p, content) :
              \/ Put(p, content)[k] = [piece |-> p, content |-> content]
              \/ \E j \in DOMAIN read_cache : Put(p, content)[k] = read_cache[j]
<1>. DEFINE e == [piece |-> p, content |-> content]
            i == CHOOSE k \in Cached(p) : TRUE
            others == IF Cached(p) = {} THEN read_cache ELSE RemoveAt(read_cache, i)
            all == <<e>> \o others
            n == IF CacheSize < Len(all) THEN CacheSize ELSE Len(all)
<1>1. e \in CacheEntries
  BY DEF CacheEntries
<1>2. read_cache \in Seq(CacheEntries) /\ Len(read_cache) \in Nat /\ DOMAIN read_cache = 1 .. Len(read_cache)
  BY DEF ReadsTyped
<1>3. others \in Seq(CacheEntries)
      /\ \A k \in DOMAIN others : \E j \in DOMAIN read_cache : others[k] = read_cache[j]
  <2>1. CASE Cached(p) = {}
    BY <1>2, <2>1
  <2>2. CASE Cached(p) # {}
    <3>. DEFINE N == Len(read_cache)
                a == SubSeq(read_cache, 1, i - 1)
                b == SubSeq(read_cache, i + 1, N)
    <3>1. i \in 1 .. N
      BY <1>2, <2>2 DEF Cached
    <3>2. others = a \o b
      BY <2>2 DEF RemoveAt
    <3>. HIDE DEF i
    <3>3. /\ a \in Seq(CacheEntries) /\ Len(a) = i - 1
          /\ \A k \in 1 .. i - 1 : a[k] = read_cache[k]
      BY <1>2, <3>1
    <3>4. /\ b \in Seq(CacheEntries) /\ Len(b) = N - i
          /\ \A k \in 1 .. N - i : b[k] = read_cache[k + i]
      <4>1. i + 1 \in 1 .. N + 1 /\ N \in i .. N /\ i \in Nat /\ N \in Nat
        BY <1>2, <3>1
      <4>2. /\ b \in Seq(CacheEntries)
            /\ Len(b) = N - (i + 1) + 1
            /\ \A k \in 1 .. N - (i + 1) + 1 : b[k] = read_cache[i + 1 + k - 1]
        <5>1. /\ i + 1 \in Int /\ N \in Int
              /\ \A k \in i + 1 .. N : read_cache[k] \in CacheEntries
          BY <1>2, <4>1
        <5>2. /\ b \in Seq(CacheEntries)
              /\ Len(b) = IF i + 1 <= N THEN N - (i + 1) + 1 ELSE 0
              /\ \A k \in 1 .. N - (i + 1) + 1 : b[k] = read_cache[i + 1 + k - 1]
          BY <5>1, SubSeqProperties
        <5>. QED BY <4>1, <5>2
      <4>3. \A k \in 1 .. N - i : i + 1 + k - 1 = k + i
        BY <4>1
      <4>4. N - (i + 1) + 1 = N - i
        BY <4>1
      <4>. QED BY <4>2, <4>3, <4>4
    <3>. HIDE DEF a, b, others
    <3>5. /\ a \o b \in Seq(CacheEntries) /\ Len(a \o b) = Len(a) + Len(b)
          /\ \A k \in 1 .. Len(a) + Len(b) : (a \o b)[k] = IF k <= Len(a) THEN a[k] ELSE b[k - Len(a)]
      BY <3>3, <3>4, ConcatProperties
    <3>6. others \in Seq(CacheEntries) /\ DOMAIN others = 1 .. N - 1
      <4>1. Len(a) + Len(b) = N - 1
        BY <1>2, <3>1, <3>3, <3>4
      <4>. QED BY <3>2, <3>5, <4>1
    <3>7. ASSUME NEW k \in 1 .. N - 1
          PROVE  \E j \in 1 .. N : others[k] = read_cache[j]
      <4>1. CASE k <= i - 1
        BY <1>2, <3>1, <3>2, <3>3, <3>4, <3>5, <4>1
      <4>2. CASE k > i - 1
        <5>1. k - (i - 1) \in 1 .. N - i /\ k - (i - 1) + i \in 1 .. N
          BY <1>2, <3>1, <4>2
        <5>2. k \in 1 .. Len(a) + Len(b) /\ ~ (k <= Len(a)) /\ k - Len(a) = k - (i - 1)
          BY <1>2, <3>1, <3>3, <3>4, <4>2
        <5>3. others[k] = b[k - Len(a)]
          BY <3>2, <3>5, <5>2
        <5>4. others[k] = read_cache[k - (i - 1) + i]
          BY <3>4, <5>1, <5>2, <5>3
        <5>. QED BY <5>1, <5>4
      <4>. QED BY <1>2, <3>1, <4>1, <4>2
    <3>. QED BY <1>2, <3>6, <3>7
  <2>. QED BY <2>1, <2>2
<1>. HIDE DEF others, e
<1>4. /\ all \in Seq(CacheEntries) /\ Len(all) \in Nat \ {0}
      /\ \A k \in 1 .. Len(all) : all[k] = e \/ \E j \in DOMAIN others : all[k] = others[j]
  <2>1. <<e>> \in Seq(CacheEntries) /\ Len(<<e>>) = 1 /\ <<e>>[1] = e
    BY <1>1
  <2>2. /\ all \in Seq(CacheEntries) /\ Len(all) = 1 + Len(others)
        /\ \A k \in 1 .. 1 + Len(others) : all[k] = IF k <= 1 THEN <<e>>[k] ELSE others[k - 1]
    <3>1. /\ <<e>> \o others \in Seq(CacheEntries) /\ Len(<<e>> \o others) = Len(<<e>>) + Len(others)
          /\ \A k \in 1 .. Len(<<e>>) + Len(others) :
               (<<e>> \o others)[k] = IF k <= Len(<<e>>) THEN <<e>>[k] ELSE others[k - Len(<<e>>)]
      BY <1>3, <2>1, ConcatProperties
    <3>. QED BY <2>1, <3>1
  <2>3. Len(others) \in Nat /\ DOMAIN others = 1 .. Len(others)
    BY <1>3
  <2>4. ASSUME NEW k \in 1 .. 1 + Len(others), k # 1
        PROVE  k - 1 \in DOMAIN others /\ all[k] = others[k - 1]
    BY <2>2, <2>3, <2>4
  <2>5. all[1] = e
    BY <2>1, <2>2, <2>3
  <2>. QED BY <2>2, <2>3, <2>4, <2>5
<1>. HIDE DEF all
<1>5. n \in 1 .. Len(all) /\ n <= CacheSize
  BY <1>4 DEF DiskTaskAssumption
<1>6. Put(p, content) = SubSeq(all, 1, n)
  BY DEF Put, all, others, e
<1>. HIDE DEF n
<1>7. /\ SubSeq(all, 1, n) \in Seq(CacheEntries) /\ Len(SubSeq(all, 1, n)) = n
      /\ \A k \in 1 .. n : SubSeq(all, 1, n)[k] = all[k]
  BY <1>4, <1>5
<1>8. DOMAIN Put(p, content) = 1 .. n /\ \A k \in 1 .. n : Put(p, content)[k] = all[k] /\ k \in 1 .. Len(all)
  BY <1>4, <1>5, <1>6, <1>7
<1>. QED BY <1>3, <1>4, <1>5, <1>6, <1>7, <1>8 DEF e

(* A session that leaves is no longer alive and has nothing to read.       *)
LEMMA LeavesFacts ==
  ASSUME PeersTyped, AnswersInv, NEW s \in Sessions, Leaves(s), UNCHANGED early
  PROVE  /\ PeersTyped' /\ AnswersInv'
         /\ \A x \in Sessions : alive'[x] => alive[x]
         /\ ~ alive'[s]
<1>1. PeersTyped'
  BY DEF PeersTyped, Leaves
<1>2. \A x \in Sessions : session_rx'[x] = IF x = s THEN <<>> ELSE session_rx[x]
  BY DEF PeersTyped, Leaves
<1>3. AnswersInv'
  BY <1>2 DEF AnswersInv
<1>4. /\ \A x \in Sessions : alive'[x] => alive[x]
      /\ ~ alive'[s]
  BY DEF PeersTyped, Leaves
<1>. QED BY <1>1, <1>3, <1>4

(* An answer sent to a session is of a piece that is read as it should be. *)
LEMMA AnswerKeeps ==
  ASSUME PeersTyped, AnswersInv, NEW s \in Sessions, NEW b \in Writer!Blocks,
         NEW content \in {"data", "hole"},
         content = "hole" => b[1] \in early, UNCHANGED early,
         session_rx' = [session_rx EXCEPT ![s] = Append(@, Answer(b, content))]
  PROVE  session_rx' \in [Sessions -> Seq(Answers)] /\ AnswersInv'
<1>. DEFINE q == session_rx[s]
            x == Answer(b, content)
<1>1. q \in Seq(Answers)
  BY DEF PeersTyped
<1>2. x \in Answers /\ x.block = b /\ x.content = content
  BY DEF Answers, Answer
<1>. HIDE DEF x
<1>3. /\ Append(q, x) \in Seq(Answers)
      /\ \A k \in DOMAIN Append(q, x) : (k \in DOMAIN q /\ Append(q, x)[k] = q[k]) \/ Append(q, x)[k] = x
  BY <1>1, <1>2
<1>4. \A t \in Sessions : session_rx'[t] = IF t = s THEN Append(q, x) ELSE session_rx[t]
  BY DEF PeersTyped, x
<1>5. session_rx' \in [Sessions -> Seq(Answers)]
  BY <1>3 DEF PeersTyped, x
<1>6. ASSUME NEW t \in Sessions, NEW k \in DOMAIN session_rx'[t], session_rx'[t][k].content = "hole"
      PROVE  session_rx'[t][k].block[1] \in early
  <2>1. CASE t # s \/ (k \in DOMAIN q /\ session_rx'[t][k] = q[k])
    BY <1>4, <1>6, <2>1 DEF AnswersInv
  <2>2. CASE session_rx'[t][k] = x
    BY <1>2, <1>6, <2>2
  <2>. QED BY <1>3, <1>4, <1>6, <2>1, <2>2
<1>7. AnswersInv'
  BY <1>6 DEF AnswersInv
<1>. QED BY <1>5, <1>7

-----------------------------------------------------------------------------
(* What a step keeps of the parts of the state that it does not touch.     *)

(* A step that leaves the write path alone keeps its types and the         *)
(* completions that it has reported.                                       *)
LEMMA WritesFrame ==
  ASSUME WritesTyped, ReportedInv, UNCHANGED writeVars
  PROVE  WritesTyped' /\ ReportedInv'
BY DEF WritesTyped, ReportedInv, writeVars, ToSet, Writer!Valid, Writer!Completions, Writer!Invalid,
   Writer!WriteError, Writer!Blocks, Writer!BlocksOf, Writer!Pieces, Pieces

(* A step that leaves the read path alone keeps its types, the cache and   *)
(* the reads under way, if no more becomes unwritten.                      *)
LEMMA ReadsFrame ==
  ASSUME ReadsTyped, CacheInv, JobsInv, UNCHANGED readVars,
         written \subseteq written', early \subseteq early'
  PROVE  ReadsTyped' /\ CacheInv' /\ JobsInv'
<1>1. UNCHANGED <<read_cache, read_jobs, read_errors>>
  BY DEF readVars
<1>2. ReadsTyped'
  BY <1>1 DEF ReadsTyped
<1>3. CacheInv' /\ JobsInv'
  BY <1>1 DEF CacheInv, JobsInv
<1>. QED BY <1>2, <1>3

(* A step that leaves the sessions alone keeps their types and the answers *)
(* on their way to them.                                                   *)
LEMMA PeersFrame ==
  ASSUME PeersTyped, AnswersInv, UNCHANGED peerVars, early \subseteq early'
  PROVE  PeersTyped' /\ AnswersInv'
<1>1. UNCHANGED <<incoming_requests, is_peer_choked, is_peer_interested, alive, session_rx>>
  BY DEF peerVars
<1>2. PeersTyped'
  BY <1>1 DEF PeersTyped
<1>3. AnswersInv'
  BY <1>1 DEF AnswersInv
<1>. QED BY <1>2, <1>3

(* A step that leaves the channel alone, whatever sessions it ends.        *)
LEMMA ChannelFrame ==
  ASSUME IInv, UNCHANGED <<cmd_rx, disk, allocated>>, \A s \in Sessions : alive'[s] => alive[s],
         written \subseteq written', early \subseteq early'
  PROVE  CommandsTyped' /\ AskedInv' /\ DiskSurvives'
<1>. USE DEF IInv, Typed, ServedInv
<1>1. CommandsTyped'
  BY DEF CommandsTyped
<1>4. AskedInv'
  BY DEF AskedInv
<1>5. DiskSurvives'
  BY DEF DiskSurvives
<1>. QED BY <1>1, <1>4, <1>5

(* A command is taken off.                                                 *)
LEMMA TakenFrame ==
  ASSUME IInv, NEW cmd, Takes(cmd), UNCHANGED <<alive, written, early>>, allocated' \in BOOLEAN,
         disk' \in {"running", "dead", "stopped"}
  PROVE  CommandsTyped' /\ AskedInv'
<1>. USE DEF IInv, Typed
<1>1. /\ Head(cmd_rx).cmd = cmd /\ 1 \in DOMAIN cmd_rx /\ Head(cmd_rx) = cmd_rx[1]
      /\ cmd_rx' \in Seq(Commands)
      /\ \A k \in DOMAIN cmd_rx' :
           k \in Int /\ k > 0 /\ k + 1 \in DOMAIN cmd_rx /\ cmd_rx'[k] = cmd_rx[k + 1]
  BY TakesFacts
<1>2. AskedInv'
  BY TakesKeeps
<1>3. CommandsTyped'
  BY <1>1 DEF CommandsTyped
<1>. QED BY <1>2, <1>3

(* A command is sent: a read only of what is written or asked for early.   *)
LEMMA SentFrame ==
  ASSUME IInv, NEW c \in Commands, cmd_rx' = Append(cmd_rx, c), disk = "running",
         UNCHANGED <<disk, allocated, alive, written>>, early \subseteq early',
         c.cmd = "ReadBlock" => c.block[1] \in written \cup early'
  PROVE  CommandsTyped' /\ AskedInv' /\ DiskSurvives'
<1>. USE DEF IInv, Typed, ServedInv
<1>. DEFINE N == Len(cmd_rx) + 1
<1>1. /\ cmd_rx' \in Seq(Commands) /\ DOMAIN cmd_rx \subseteq Nat
      /\ N \in DOMAIN cmd_rx' /\ cmd_rx'[N] = c
      /\ \A k \in DOMAIN cmd_rx : k < N /\ k \in DOMAIN cmd_rx' /\ cmd_rx'[k] = cmd_rx[k]
      /\ \A k \in DOMAIN cmd_rx' : k = N \/ k \in DOMAIN cmd_rx
  BY AppendFacts
<1>2. N \in Nat
  BY DEF CommandsTyped
<1>. HIDE DEF N
<1>3. CommandsTyped'
  BY <1>1 DEF CommandsTyped
<1>7. AskedInv'
  BY <1>1 DEF AskedInv
<1>8. DiskSurvives'
  BY DEF DiskSurvives
<1>. QED BY <1>3, <1>7, <1>8

-----------------------------------------------------------------------------
(* Steps of the disk task's loop.                                          *)

(* An allocation succeeds or fails; neither touches a block.               *)
LEMMA AllocateKeeps ==
  ASSUME IInv, Allocate
  PROVE  IInv'
<1>. USE DEF IInv, Typed, ServedInv
<1>1. /\ Takes("NewTorrent") /\ allocated' \in BOOLEAN
      /\ UNCHANGED <<disk, writeVars, readVars, peerVars, alive, written, early>>
  BY DEF Allocate, peerVars, writeVars, history
<1>2. disk = "running"
  BY <1>1 DEF Takes
<1>3. CommandsTyped' /\ AskedInv'
  BY <1>1, <1>2, TakenFrame
<1>4. DiskSurvives'
  BY <1>1, <1>2 DEF DiskSurvives
<1>. QED BY <1>1, <1>3, <1>4, WritesFrame, ReadsFrame, PeersFrame

(* A command for a torrent that was not allocated ends the task.           *)
LEMMA UnknownTorrentKeeps ==
  ASSUME IInv, UnknownTorrent
  PROVE  IInv'
<1>. USE DEF IInv, Typed, ServedInv
<1>1. /\ ~ allocated /\ disk' = "dead"
      /\ UNCHANGED <<allocated, writeVars, readVars, peerVars, alive, written, early>>
  BY DEF UnknownTorrent, peerVars, writeVars, history
<1>2. PICK cmd \in {"WriteBlock", "ReadBlock"} : Takes(cmd)
  BY DEF UnknownTorrent
<1>3. CommandsTyped' /\ AskedInv'
  BY <1>1, <1>2, TakenFrame DEF CommandsTyped
<1>4. DiskSurvives'
  BY <1>1 DEF DiskSurvives
<1>. QED BY <1>1, <1>3, <1>4, WritesFrame, ReadsFrame, PeersFrame

(* A block is buffered, and its piece goes to a thread when complete.      *)
LEMMA CollectKeeps ==
  ASSUME IInv, Collect
  PROVE  IInv'
<1>. USE DEF IInv, Typed, ServedInv
<1>. DEFINE b == Head(cmd_rx).block
            buffered == write_buf \cup {b}
            complete == Writer!IsComplete(b[1], buffered)
<1>1. /\ Takes("WriteBlock") /\ Writer!write_block(b)
      /\ UNCHANGED <<disk, allocated, readVars, peerVars, alive, written, completions, early>>
  BY DEF Collect, peerVars, history, Writer!write_block
<1>2. disk = "running" /\ b \in Writer!Blocks
  <2>1. CommandsTyped
    OBVIOUS
  <2>. QED BY <1>1, <2>1, TakesFacts, CommandFacts
<1>3. CommandsTyped' /\ AskedInv'
  BY <1>1, <1>2, TakenFrame DEF CommandsTyped
<1>4. b[1] \in Pieces
  BY <1>2, BlockPiece
<1>5. /\ write_buf' = IF complete THEN buffered \ Writer!BlocksOf(b[1]) ELSE buffered
      /\ write_jobs' = IF complete THEN [write_jobs EXCEPT ![b[1]] = @ + 1] ELSE write_jobs
  BY <1>1 DEF Writer!write_block
<1>. HIDE DEF b, complete
<1>6. write_buf' \subseteq Writer!Blocks /\ write_jobs' \in [Pieces -> Nat]
  BY <1>2, <1>4, <1>5 DEF WritesTyped
<1>7. WritesTyped' /\ ReportedInv'
  BY <1>1, <1>6 DEF WritesTyped, ReportedInv, ToSet
<1>8. DiskSurvives'
  BY <1>1, <1>2 DEF DiskSurvives
<1>. QED BY <1>1, <1>3, <1>7, <1>8, ReadsFrame, PeersFrame

(* The block comes from the cached piece; a session that has ended is the  *)
(* only reason for the disk task to die here.                              *)
LEMMA ReadCachedKeeps ==
  ASSUME DiskTaskAssumption, IInv, ReadCached
  PROVE  IInv'
<1>. USE DEF IInv, Typed, ServedInv
<1>. DEFINE s == Head(cmd_rx).session
            b == Head(cmd_rx).block
<1>1. /\ allocated /\ Takes("ReadBlock")
      /\ UNCHANGED <<allocated, writeVars, read_jobs, read_errors, incoming_requests, is_peer_choked,
                     is_peer_interested, alive, written, early>>
  BY DEF ReadCached, history, writeVars
<1>2. PICK k \in Cached(b[1]) :
        /\ read_cache' = Put(b[1], read_cache[k].content)
        /\ IF alive[s]
             THEN /\ session_rx' = [session_rx EXCEPT ![s] = Append(@, Answer(b, read_cache[k].content))]
                  /\ UNCHANGED disk
             ELSE /\ disk' = "dead"
                  /\ UNCHANGED session_rx
  BY DEF ReadCached
<1>. DEFINE content == read_cache[k].content
<1>3. disk = "running" /\ s \in Sessions /\ b \in Writer!Blocks
  <2>1. CommandsTyped
    OBVIOUS
  <2>. QED BY <1>1, <2>1, TakesFacts, CommandFacts
<1>. HIDE DEF s, b
<1>4. CommandsTyped' /\ AskedInv'
  BY <1>1, <1>2, <1>3, TakenFrame DEF CommandsTyped
<1>5. b[1] \in Pieces
  BY <1>3, BlockPiece
<1>6. k \in DOMAIN read_cache /\ read_cache[k].piece = b[1]
  BY DEF Cached
<1>7. content \in {"data", "hole"} /\ (content = "hole" => b[1] \in early)
  <2>1. read_cache \in Seq(CacheEntries)
    BY DEF ReadsTyped
  <2>2. read_cache[k] \in CacheEntries
    BY <1>6, <2>1
  <2>. QED BY <1>6, <2>2 DEF CacheEntries, CacheInv
<1>8. /\ read_cache' = Put(b[1], content)
      /\ alive[s] => session_rx' = [session_rx EXCEPT ![s] = Append(@, Answer(b, content))] /\ UNCHANGED disk
      /\ ~ alive[s] => disk' = "dead" /\ UNCHANGED session_rx
  BY <1>2
<1>. HIDE DEF content
<1>9. /\ read_cache' \in Seq(CacheEntries) /\ Len(read_cache') <= CacheSize
      /\ \A i \in DOMAIN read_cache' :
           \/ read_cache'[i] = [piece |-> b[1], content |-> content]
           \/ \E j \in DOMAIN read_cache : read_cache'[i] = read_cache[j]
  BY <1>5, <1>7, <1>8, PutFacts
<1>10. ReadsTyped' /\ CacheInv' /\ JobsInv'
  BY <1>1, <1>7, <1>9 DEF ReadsTyped, CacheInv, JobsInv
<1>11. session_rx' \in [Sessions -> Seq(Answers)] /\ AnswersInv'
  <2>1. CASE alive[s]
    BY <1>1, <1>3, <1>7, <1>8, <2>1, AnswerKeeps
  <2>2. CASE ~ alive[s]
    BY <1>1, <1>8, <2>2 DEF PeersTyped, AnswersInv
  <2>. QED BY <2>1, <2>2
<1>12. PeersTyped'
  BY <1>1, <1>11 DEF PeersTyped
<1>13. DiskSurvives'
  BY <1>1, <1>3, <1>8 DEF DiskSurvives
<1>. QED BY <1>1, <1>4, <1>10, <1>11, <1>12, <1>13, WritesFrame

(* A read that misses the cache goes to a thread.                          *)
LEMMA ReadUncachedKeeps ==
  ASSUME IInv, ReadUncached
  PROVE  IInv'
<1>. USE DEF IInv, Typed, ServedInv
<1>. DEFINE j == Job(Head(cmd_rx).session, Head(cmd_rx).block, "unread")
<1>1. /\ Takes("ReadBlock")
      /\ read_jobs' = read_jobs (+) SetToBag({j})
      /\ UNCHANGED <<disk, allocated, writeVars, read_cache, read_errors, peerVars, alive, written, early>>
  BY DEF ReadUncached, history, writeVars, peerVars
<1>2. /\ disk = "running"
      /\ j \in Jobs /\ j.content = "unread" /\ j.block[1] \in written \cup early
  <2>1. CommandsTyped
    OBVIOUS
  <2>2. /\ disk = "running" /\ Head(cmd_rx) \in Commands /\ Head(cmd_rx).cmd = "ReadBlock"
        /\ 1 \in DOMAIN cmd_rx /\ Head(cmd_rx) = cmd_rx[1]
    BY <1>1, <2>1, TakesFacts
  <2>3. Head(cmd_rx).session \in Sessions /\ Head(cmd_rx).block \in Writer!Blocks
    BY <2>2, CommandFacts
  <2>. QED BY <2>2, <2>3 DEF Job, Jobs, AskedInv
<1>. HIDE DEF j
<1>3. CommandsTyped' /\ AskedInv'
  BY <1>1, <1>2, TakenFrame DEF CommandsTyped
<1>4. BagToSet(read_jobs') = BagToSet(read_jobs) \cup {j}
  BY <1>1, BagFacts
<1>5. ReadsTyped' /\ CacheInv' /\ JobsInv'
  BY <1>1, <1>2, <1>4 DEF ReadsTyped, CacheInv, JobsInv
<1>6. DiskSurvives'
  BY <1>1, <1>2 DEF DiskSurvives
<1>. QED BY <1>1, <1>3, <1>5, <1>6, WritesFrame, PeersFrame

(* The task stops; what is queued behind the shutdown stays in the channel.*)
LEMMA StopKeeps ==
  ASSUME IInv, Stop
  PROVE  IInv'
<1>. USE DEF IInv, Typed, ServedInv
<1>1. /\ Takes("Shutdown") /\ disk' = "stopped"
      /\ UNCHANGED <<allocated, writeVars, readVars, peerVars, alive, written, early>>
  BY DEF Stop, peerVars, writeVars, history
<1>2. CommandsTyped' /\ AskedInv'
  BY <1>1, TakenFrame DEF CommandsTyped
<1>3. DiskSurvives'
  BY <1>1 DEF DiskSurvives
<1>. QED BY <1>1, <1>2, <1>3, WritesFrame, ReadsFrame, PeersFrame

-----------------------------------------------------------------------------
(* Steps of the blocking threads.                                          *)

(* A thread that ends reports a piece valid only if it has written it.     *)
LEMMA HashAndWriteKeeps ==
  ASSUME IInv, NEW p \in Pieces, HashAndWrite(p)
  PROVE  IInv'
<1>. USE DEF IInv, Typed, ServedInv
<1>1. UNCHANGED <<cmd_rx, disk, allocated, readVars, peerVars, alive, early>>
  BY DEF HashAndWrite, peerVars, history
<1>2. PICK c \in Writer!Completions :
        /\ Writer!Finish(p, c)
        /\ written' = written \cup {p} \/ written' = written
        /\ \A q \in Pieces : c = Writer!Valid(q) => q \in written'
  <2>1. CASE Writer!FinishValid(p)
    <3>1. Writer!Valid(p) \in Writer!Completions /\ \A q : Writer!Valid(p) = Writer!Valid(q) => q = p
      BY DEF Writer!Completions, Writer!Valid, Pieces
    <3>. QED BY <2>1, <3>1 DEF Writer!FinishValid
  <2>2. CASE Writer!FinishInvalid(p)
    <3>1. Writer!Invalid(p) \in Writer!Completions /\ \A q : Writer!Invalid(p) # Writer!Valid(q)
      BY DEF Writer!Completions, Writer!Valid, Writer!Invalid, Pieces
    <3>. QED BY <2>2, <3>1 DEF Writer!FinishInvalid
  <2>3. CASE Writer!FinishError(p)
    <3>1. Writer!WriteError \in Writer!Completions /\ \A q : Writer!WriteError # Writer!Valid(q)
      BY DEF Writer!Completions, Writer!Valid, Writer!WriteError
    <3>. QED BY <2>3, <3>1 DEF Writer!FinishError
  <2>. QED BY <2>1, <2>2, <2>3 DEF HashAndWrite
<1>3. /\ write_jobs[p] > 0 /\ write_jobs' = [write_jobs EXCEPT ![p] = @ - 1]
      /\ completions' = Append(completions, c) /\ UNCHANGED write_buf
  BY <1>2 DEF Writer!Finish
<1>4. completions \in Seq(Writer!Completions)
  BY DEF WritesTyped
<1>5. completions' \in Seq(Writer!Completions) /\ ToSet(completions') = ToSet(completions) \cup {c}
  BY <1>3, <1>4 DEF ToSet
<1>6. WritesTyped'
  <2>1. write_jobs' \in [Pieces -> Nat]
    BY <1>3 DEF WritesTyped
  <2>2. write_buf' \subseteq Writer!Blocks /\ written' \subseteq Pieces
    BY <1>2, <1>3 DEF WritesTyped
  <2>. QED BY <1>5, <2>1, <2>2 DEF WritesTyped
<1>7. ReportedInv'
  <2>1. SUFFICES ASSUME NEW q \in Pieces, Writer!Valid(q) \in ToSet(completions')
                 PROVE  q \in written'
    BY DEF ReportedInv, Writer!Valid
  <2>. QED BY <1>2, <1>5, <2>1 DEF ReportedInv
<1>8. CommandsTyped' /\ AskedInv' /\ DiskSurvives'
  BY <1>1, <1>2, ChannelFrame
<1>. QED BY <1>1, <1>2, <1>6, <1>7, <1>8, ReadsFrame, PeersFrame

(* What a thread loads of a piece in the files is its data.                *)
LEMMA LoadPieceKeeps ==
  ASSUME IInv, NEW j \in BagToSet(read_jobs), LoadPiece(j)
  PROVE  IInv'
<1>. USE DEF IInv, Typed, ServedInv
<1>1. UNCHANGED <<cmd_rx, disk, allocated, writeVars, read_cache, read_errors, peerVars,
                  alive, written, early>>
  BY DEF LoadPiece, peerVars, writeVars, history
<1>2. PICK c \in Holds(j.block[1]) : Becomes(j, [j EXCEPT !.content = c])
  BY DEF LoadPiece
<1>. DEFINE k == [j EXCEPT !.content = c]
<1>3. c \in {"data", "hole"} /\ (c = "hole" => j.block[1] \notin written)
  BY DEF Holds
<1>4. j \in Jobs /\ j.block[1] \in written \cup early
  BY DEF ReadsTyped, JobsInv
<1>5. k \in Jobs /\ k.block = j.block /\ k.content = c
  BY <1>3, <1>4 DEF Jobs
<1>. HIDE DEF k
<1>6. BagToSet(read_jobs') \subseteq BagToSet(read_jobs) \cup {k}
  <2>. DEFINE rest == read_jobs (-) SetToBag({j})
  <2>1. read_jobs' = rest (+) SetToBag({k})
    BY <1>2 DEF Becomes, k
  <2>2. BagToSet(rest) \subseteq BagToSet(read_jobs)
    BY BagFacts
  <2>. HIDE DEF rest
  <2>3. BagToSet(read_jobs') = BagToSet(rest) \cup {k}
    BY <2>1, BagFacts
  <2>. QED BY <2>2, <2>3
<1>7. ReadsTyped' /\ CacheInv' /\ JobsInv'
  BY <1>1, <1>3, <1>4, <1>5, <1>6 DEF ReadsTyped, CacheInv, JobsInv
<1>8. CommandsTyped' /\ AskedInv' /\ DiskSurvives'
  BY <1>1, ChannelFrame
<1>. QED BY <1>1, <1>7, <1>8, WritesFrame, PeersFrame

(* A read that fails is noted for the torrent; its block goes nowhere.     *)
LEMMA FailPieceKeeps ==
  ASSUME IInv, NEW j \in BagToSet(read_jobs), FailPiece(j)
  PROVE  IInv'
<1>. USE DEF IInv, Typed, ServedInv
<1>1. /\ Ends(j) /\ read_errors' = read_errors \cup {<<j.session, j.block>>}
      /\ UNCHANGED <<cmd_rx, disk, allocated, writeVars, read_cache, peerVars, alive, written, early>>
  BY DEF FailPiece, peerVars, writeVars, history
<1>2. j.session \in Sessions /\ j.block \in Writer!Blocks
  BY DEF ReadsTyped, Jobs
<1>3. BagToSet(read_jobs') \subseteq BagToSet(read_jobs)
  BY <1>1, BagFacts DEF Ends
<1>4. ReadsTyped' /\ CacheInv' /\ JobsInv'
  BY <1>1, <1>2, <1>3 DEF ReadsTyped, CacheInv, JobsInv
<1>5. CommandsTyped' /\ AskedInv' /\ DiskSurvives'
  BY <1>1, ChannelFrame
<1>. QED BY <1>1, <1>4, <1>5, WritesFrame, PeersFrame

(* The piece goes to the cache and its block to the session, if it lives.  *)
LEMMA ServePieceKeeps ==
  ASSUME DiskTaskAssumption, IInv, NEW j \in BagToSet(read_jobs), ServePiece(j)
  PROVE  IInv'
<1>. USE DEF IInv, Typed, ServedInv
<1>. DEFINE s == j.session
            b == j.block
            content == j.content
<1>1. /\ Ends(j) /\ content # "unread"
      /\ read_cache' = Put(b[1], content)
      /\ session_rx' = [session_rx EXCEPT ![s] = IF alive[s] THEN Append(@, Answer(b, content)) ELSE @]
      /\ UNCHANGED <<cmd_rx, disk, allocated, writeVars, read_errors, incoming_requests,
                     is_peer_choked, is_peer_interested, alive, written, early>>
  BY DEF ServePiece, writeVars, history
<1>2. /\ s \in Sessions /\ b \in Writer!Blocks /\ content \in {"data", "hole"}
      /\ content = "hole" => b[1] \in early
  BY <1>1 DEF ReadsTyped, Jobs, JobsInv
<1>3. b[1] \in Pieces
  BY <1>2, BlockPiece
<1>4. BagToSet(read_jobs') \subseteq BagToSet(read_jobs)
  BY <1>1, BagFacts DEF Ends
<1>5. /\ alive[s] => session_rx' = [session_rx EXCEPT ![s] = Append(@, Answer(b, content))]
      /\ ~ alive[s] => UNCHANGED session_rx
  BY <1>1, <1>2 DEF PeersTyped
<1>. HIDE DEF s, b, content
<1>6. /\ read_cache' \in Seq(CacheEntries) /\ Len(read_cache') <= CacheSize
      /\ \A i \in DOMAIN read_cache' :
           \/ read_cache'[i] = [piece |-> b[1], content |-> content]
           \/ \E k \in DOMAIN read_cache : read_cache'[i] = read_cache[k]
  BY <1>1, <1>2, <1>3, PutFacts
<1>7. ReadsTyped' /\ CacheInv' /\ JobsInv'
  BY <1>1, <1>2, <1>4, <1>6 DEF ReadsTyped, CacheInv, JobsInv
<1>8. session_rx' \in [Sessions -> Seq(Answers)] /\ AnswersInv'
  <2>1. CASE alive[s]
    BY <1>1, <1>2, <1>5, <2>1, AnswerKeeps
  <2>2. CASE ~ alive[s]
    BY <1>1, <1>5, <2>2 DEF PeersTyped, AnswersInv
  <2>. QED BY <2>1, <2>2
<1>9. PeersTyped'
  BY <1>1, <1>8 DEF PeersTyped
<1>10. CommandsTyped' /\ AskedInv' /\ DiskSurvives'
  BY <1>1, ChannelFrame
<1>. QED BY <1>1, <1>7, <1>8, <1>9, <1>10, WritesFrame

-----------------------------------------------------------------------------
(* Steps of the sessions and of the engine.                                *)

(* A session that ends drops its requests and its channel.                 *)
LEMMA EndSessionKeeps ==
  ASSUME IInv, NEW s \in Sessions, EndSession(s)
  PROVE  IInv'
<1>. USE DEF IInv, Typed, ServedInv
<1>1. Leaves(s) /\ UNCHANGED <<cmd_rx, disk, allocated, writeVars, readVars, written, early>>
  BY DEF EndSession, writeVars, history
<1>2. PeersTyped' /\ AnswersInv' /\ \A x \in Sessions : alive'[x] => alive[x]
  BY <1>1, LeavesFacts
<1>3. CommandsTyped' /\ AskedInv' /\ DiskSurvives'
  BY <1>1, <1>2, ChannelFrame
<1>. QED BY <1>1, <1>2, <1>3, WritesFrame, ReadsFrame

(* A block is sent to a task that runs; one that has ended ends the session*)
LEMMA HandleBlockKeeps ==
  ASSUME IInv, NEW s \in Sessions, NEW b \in Writer!Blocks, HandleBlock(s, b)
  PROVE  IInv'
<1>. USE DEF IInv, Typed, ServedInv
<1>1. /\ alive[s]
      /\ UNCHANGED <<disk, allocated, writeVars, readVars, written, early>>
  BY DEF HandleBlock, writeVars
<1>2. CASE disk = "running"
  <2>1. cmd_rx' = Append(cmd_rx, WriteBlock(b)) /\ UNCHANGED <<peerVars, alive>>
    BY <1>2 DEF HandleBlock, peerVars
  <2>2. WriteBlock(b) \in Commands /\ WriteBlock(b).cmd = "WriteBlock"
    BY DEF Commands, WriteBlock
  <2>4. CommandsTyped' /\ AskedInv' /\ DiskSurvives'
    BY <1>1, <1>2, <2>1, <2>2, SentFrame
  <2>. QED BY <1>1, <2>1, <2>4, WritesFrame, ReadsFrame, PeersFrame
<1>3. CASE disk # "running"
  <2>1. Leaves(s) /\ UNCHANGED cmd_rx
    BY <1>3 DEF HandleBlock
  <2>2. PeersTyped' /\ AnswersInv' /\ \A x \in Sessions : alive'[x] => alive[x]
    BY <1>1, <2>1, LeavesFacts
  <2>3. CommandsTyped' /\ AskedInv' /\ DiskSurvives'
    BY <1>1, <2>1, <2>2, ChannelFrame
  <2>. QED BY <1>1, <2>2, <2>3, WritesFrame, ReadsFrame
<1>. QED BY <1>2, <1>3

(* What a session notes about its peer and about the peer's requests.      *)
LEMMA PeerStepKeeps ==
  ASSUME IInv, UNCHANGED <<cmd_rx, disk, allocated, writeVars, readVars, alive, history>>,
         PeersTyped', AnswersInv'
  PROVE  IInv'
<1>. USE DEF IInv, Typed, ServedInv
<1>1. UNCHANGED <<written, early>>
  BY DEF writeVars, history
<1>2. CommandsTyped' /\ AskedInv' /\ DiskSurvives'
  BY <1>1, ChannelFrame
<1>. QED BY <1>1, <1>2, WritesFrame, ReadsFrame

(* Interest changes no request.                                            *)
LEMMA HandleInterestKeeps ==
  ASSUME IInv, NEW s \in Sessions, HandleInterested(s) \/ HandleNotInterested(s)
  PROVE  IInv'
<1>1. /\ UNCHANGED <<cmd_rx, disk, allocated, writeVars, readVars, incoming_requests, alive,
                     session_rx, history>>
      /\ is_peer_interested' = [is_peer_interested EXCEPT ![s] = TRUE]
           \/ is_peer_interested' = [is_peer_interested EXCEPT ![s] = FALSE]
      /\ is_peer_choked' = [is_peer_choked EXCEPT ![s] = FALSE] \/ is_peer_choked' = is_peer_choked
  BY DEF HandleInterested, HandleNotInterested
<1>2. PeersTyped'
  BY <1>1 DEF IInv, Typed, PeersTyped
<1>3. AnswersInv'
  BY <1>1 DEF IInv, ServedInv, AnswersInv, history
<1>. QED BY <1>1, <1>2, <1>3, PeerStepKeeps

(* A cancel drops a request; its answer may come all the same.             *)
LEMMA HandleCancelKeeps ==
  ASSUME IInv, NEW s \in Sessions, NEW b \in Writer!Blocks, HandleCancel(s, b)
  PROVE  IInv'
<1>1. /\ UNCHANGED <<cmd_rx, disk, allocated, writeVars, readVars, is_peer_choked, is_peer_interested,
                     alive, session_rx, history>>
      /\ incoming_requests' = [incoming_requests EXCEPT ![s] = @ \ {b}]
  BY DEF HandleCancel
<1>2. PeersTyped'
  BY <1>1 DEF IInv, Typed, PeersTyped
<1>3. AnswersInv'
  BY <1>1 DEF IInv, ServedInv, AnswersInv, history
<1>. QED BY <1>1, <1>2, <1>3, PeerStepKeeps

(* An answer is taken off the session's channel, sent or not.              *)
LEMMA SendBlockKeeps ==
  ASSUME IInv, NEW s \in Sessions, SendBlock(s)
  PROVE  IInv'
<1>1. /\ UNCHANGED <<cmd_rx, disk, allocated, writeVars, readVars, is_peer_choked, is_peer_interested,
                     alive, history>>
      /\ incoming_requests' = [incoming_requests EXCEPT ![s] = @ \ {Head(session_rx[s]).block}]
      /\ session_rx[s] # <<>>
      /\ session_rx' = [session_rx EXCEPT ![s] = Tail(@)]
  BY DEF SendBlock
<1>2. session_rx[s] \in Seq(Answers)
  BY DEF IInv, Typed, PeersTyped
<1>. DEFINE q == session_rx[s]
<1>3. /\ Tail(q) \in Seq(Answers)
      /\ \A k \in DOMAIN Tail(q) : k + 1 \in DOMAIN q /\ Tail(q)[k] = q[k + 1]
  BY <1>1, <1>2
<1>4. PeersTyped'
  BY <1>1, <1>3 DEF IInv, Typed, PeersTyped
<1>5. \A t \in Sessions : session_rx'[t] = IF t = s THEN Tail(q) ELSE session_rx[t]
  BY <1>1 DEF IInv, Typed, PeersTyped
<1>6. AnswersInv'
  BY <1>1, <1>3, <1>5 DEF IInv, ServedInv, AnswersInv, history
<1>. QED BY <1>1, <1>4, <1>6, PeerStepKeeps

(* A request that is sent on is of a piece that was reported, and so is in *)
(* the files, or is early.                                                 *)
LEMMA HandleRequestKeeps ==
  ASSUME IInv, NEW s \in Sessions, NEW b \in Writer!Blocks, HandleRequest(s, b)
  PROVE  IInv'
<1>. USE DEF IInv, Typed, ServedInv
<1>1. UNCHANGED <<disk, allocated, writeVars, readVars, written>>
  BY DEF HandleRequest, writeVars
<1>2. \/ Leaves(s) /\ UNCHANGED <<cmd_rx, early>>
      \/ UNCHANGED <<cmd_rx, peerVars, early>>
      \/ /\ disk = "running"
         /\ incoming_requests' = [incoming_requests EXCEPT ![s] = @ \cup {b}]
         /\ cmd_rx' = Append(cmd_rx, ReadBlock(s, b))
         /\ early' = IF Writer!Valid(b[1]) \in ToSet(completions) THEN early ELSE early \cup {b[1]}
         /\ UNCHANGED <<is_peer_choked, is_peer_interested, alive, session_rx>>
  BY DEF HandleRequest
<1>3. CASE Leaves(s) /\ UNCHANGED <<cmd_rx, early>>
  <2>1. PeersTyped' /\ AnswersInv' /\ \A x \in Sessions : alive'[x] => alive[x]
    BY <1>3, LeavesFacts
  <2>2. CommandsTyped' /\ AskedInv' /\ DiskSurvives'
    BY <1>1, <1>3, <2>1, ChannelFrame
  <2>. QED BY <1>1, <1>3, <2>1, <2>2, WritesFrame, ReadsFrame
<1>4. CASE UNCHANGED <<cmd_rx, peerVars, early>>
  <2>1. UNCHANGED alive
    BY <1>4 DEF peerVars
  <2>2. CommandsTyped' /\ AskedInv' /\ DiskSurvives'
    BY <1>1, <1>4, <2>1, ChannelFrame
  <2>. QED BY <1>1, <1>4, <2>2, WritesFrame, ReadsFrame, PeersFrame
<1>5. CASE /\ disk = "running"
           /\ incoming_requests' = [incoming_requests EXCEPT ![s] = @ \cup {b}]
           /\ cmd_rx' = Append(cmd_rx, ReadBlock(s, b))
           /\ early' = IF Writer!Valid(b[1]) \in ToSet(completions) THEN early ELSE early \cup {b[1]}
           /\ UNCHANGED <<is_peer_choked, is_peer_interested, alive, session_rx>>
  <2>1. early \subseteq early' /\ b[1] \in written \cup early'
    <3>1. b[1] \in Pieces
      BY BlockPiece
    <3>. QED BY <1>5, <3>1 DEF ReportedInv
  <2>2. /\ ReadBlock(s, b) \in Commands /\ ReadBlock(s, b).cmd = "ReadBlock"
        /\ ReadBlock(s, b).block = b
    BY DEF Commands, ReadBlock
  <2>3. CommandsTyped' /\ AskedInv' /\ DiskSurvives'
    BY <1>1, <1>5, <2>1, <2>2, SentFrame
  <2>4. PeersTyped'
    BY <1>5 DEF PeersTyped
  <2>5. AnswersInv'
    BY <1>5, <2>1 DEF AnswersInv
  <2>. QED BY <1>1, <2>1, <2>3, <2>4, <2>5, WritesFrame, ReadsFrame
<1>. QED BY <1>2, <1>3, <1>4, <1>5

(* The engine's shutdown is one more command in the channel.               *)
LEMMA SendShutdownKeeps ==
  ASSUME IInv, SendShutdown
  PROVE  IInv'
<1>. USE DEF IInv, Typed, ServedInv
<1>1. /\ disk = "running" /\ cmd_rx' = Append(cmd_rx, Shutdown)
      /\ UNCHANGED <<disk, allocated, writeVars, readVars, peerVars, alive, written, early>>
  BY DEF SendShutdown, peerVars, writeVars, history
<1>2. Shutdown \in Commands /\ Shutdown.cmd = "Shutdown"
  BY DEF Commands, Shutdown
<1>3. CommandsTyped' /\ AskedInv' /\ DiskSurvives'
  BY <1>1, <1>2, SentFrame
<1>. QED BY <1>1, <1>3, WritesFrame, ReadsFrame, PeersFrame

-----------------------------------------------------------------------------
(* The invariant and the theorems.                                         *)

(* The invariant holds initially.                                          *)
LEMMA InitInv ==
  ASSUME DiskTaskAssumption, Init
  PROVE  IInv
<1>. USE DEF Init
<1>1. CommandsTyped
  <2>1. NewTorrent \in Commands
    BY DEF Commands
  <2>2. <<NewTorrent>> \in Seq(Commands)
    BY <2>1
  <2>. QED BY <2>2 DEF CommandsTyped
<1>2. WritesTyped
  BY DEF WritesTyped
<1>3. BagToSet(read_jobs) = {} /\ DOMAIN read_cache = {} /\ DOMAIN completions = {}
  BY DEF EmptyBag, SetToBag, BagToSet
<1>4. ReadsTyped
  BY <1>3 DEF ReadsTyped, DiskTaskAssumption
<1>5. PeersTyped
  BY DEF PeersTyped
<1>6. cmd_rx[1] = NewTorrent /\ DOMAIN cmd_rx = {1} /\ NewTorrent.cmd = "NewTorrent"
  BY DEF NewTorrent
<1>8. \A s \in Sessions : DOMAIN session_rx[s] = {}
  OBVIOUS
<1>9. ServedInv
  BY <1>3, <1>6, <1>8 DEF ServedInv, ReportedInv, AskedInv, JobsInv, CacheInv, AnswersInv, ToSet
<1>10. DiskSurvives
  BY DEF DiskSurvives
<1>. QED BY <1>1, <1>2, <1>4, <1>5, <1>9, <1>10 DEF IInv, Typed

(* Every step keeps the invariant.                                         *)
LEMMA NextInv ==
  ASSUME DiskTaskAssumption, IInv, [Next]_vars
  PROVE  IInv'
<1>1. CASE DiskLoop
  BY <1>1, AllocateKeeps, UnknownTorrentKeeps, CollectKeeps, ReadCachedKeeps, ReadUncachedKeeps, StopKeeps
  DEF DiskLoop
<1>2. ASSUME NEW p \in Pieces, HashAndWrite(p)
      PROVE  IInv'
  BY <1>2, HashAndWriteKeeps
<1>3. ASSUME NEW j \in BagToSet(read_jobs), ReadThread(j)
      PROVE  IInv'
  BY <1>3, LoadPieceKeeps, FailPieceKeeps, ServePieceKeeps DEF ReadThread
<1>4. ASSUME NEW s \in Sessions,
             EndSession(s) \/ HandleInterested(s) \/ HandleNotInterested(s) \/ SendBlock(s)
      PROVE  IInv'
  BY <1>4, EndSessionKeeps, HandleInterestKeeps, SendBlockKeeps
<1>5. ASSUME NEW s \in Sessions, NEW b \in Writer!Blocks,
             HandleBlock(s, b) \/ HandleRequest(s, b) \/ HandleCancel(s, b)
      PROVE  IInv'
  BY <1>5, HandleBlockKeeps, HandleRequestKeeps, HandleCancelKeeps
<1>6. CASE SendShutdown
  BY <1>6, SendShutdownKeeps
<1>7. CASE UNCHANGED vars
  <2>. USE DEF IInv, Typed, ServedInv
  <2>1. UNCHANGED <<cmd_rx, disk, allocated, writeVars, readVars, peerVars, alive, written, early>>
    BY <1>7 DEF vars, writeVars, peerVars, history
  <2>2. CommandsTyped' /\ AskedInv' /\ DiskSurvives'
    BY <2>1, ChannelFrame
  <2>. QED BY <2>1, <2>2, WritesFrame, ReadsFrame, PeersFrame
<1>. QED BY <1>1, <1>2, <1>3, <1>4, <1>5, <1>6, <1>7 DEF Next

(* The inductive invariant holds: from the command to the answer, a piece  *)
(* asked for after its announcement is in the files.                       *)
THEOREM DiskTaskInvariant == Spec => []IInv
<1>1. Init => IInv
  BY DiskTaskAssumption, InitInv
<1>2. IInv /\ [Next]_vars => IInv'
  BY DiskTaskAssumption, NextInv
<1>. QED BY <1>1, <1>2, PTL DEF Spec

(* The channel carries nothing but the four commands, the cache never      *)
(* holds more than its limit and no count of threads goes below zero.      *)
THEOREM DiskTaskTypeOK == Spec => []TypeOK
<1>1. ASSUME Typed
      PROVE  TypeOK
  <2>1. ToSet(cmd_rx) \subseteq Commands
    BY <1>1 DEF Typed, CommandsTyped, ToSet
  <2>2. ToSet(read_cache) \subseteq CacheEntries
    BY <1>1 DEF Typed, ReadsTyped, ToSet
  <2>. QED
    BY <1>1, <2>1, <2>2
    DEF Typed, CommandsTyped, WritesTyped, ReadsTyped, PeersTyped, TypeOK, Commands, CacheEntries, Jobs
<1>2. IInv => TypeOK
  BY <1>1 DEF IInv
<1>. QED BY <1>2, DiskTaskInvariant, PTL

(* A piece that peers ask for only after the torrent was told that it is   *)
(* complete is never served as a hole, not even from the cache.            *)
THEOREM DiskTaskAnnouncedIsServed == Spec => []AnnouncedIsServed
<1>1. ASSUME IInv, NEW p \in Pieces \ early
      PROVE  /\ \A k \in Cached(p) : read_cache[k].content = "data"
             /\ \A s \in Sessions : \A answer \in ToSet(session_rx[s]) :
                  answer.block[1] = p => answer.content = "data"
  <2>1. ASSUME NEW k \in Cached(p)
        PROVE  read_cache[k].content = "data"
    <3>1. k \in DOMAIN read_cache /\ read_cache[k].piece = p
      BY DEF Cached
    <3>2. read_cache[k] \in CacheEntries
      BY <1>1, <3>1 DEF IInv, Typed, ReadsTyped
    <3>. QED BY <1>1, <3>1, <3>2 DEF IInv, ServedInv, CacheInv, CacheEntries
  <2>2. ASSUME NEW s \in Sessions, NEW answer \in ToSet(session_rx[s]), answer.block[1] = p
        PROVE  answer.content = "data"
    <3>1. PICK k \in DOMAIN session_rx[s] : session_rx[s][k] = answer
      BY DEF ToSet
    <3>2. session_rx[s] \in Seq(Answers)
      BY <1>1 DEF IInv, Typed, PeersTyped
    <3>3. answer \in Answers
      BY <3>1, <3>2
    <3>. QED BY <1>1, <2>2, <3>1, <3>3 DEF IInv, ServedInv, AnswersInv, Answers
  <2>. QED BY <2>1, <2>2
<1>2. IInv => AnnouncedIsServed
  BY <1>1 DEF AnnouncedIsServed
<1>. QED BY <1>2, DiskTaskInvariant, PTL

(* Only a failed allocation or a session that ended kills the disk task.   *)
THEOREM DiskTaskSurvives == Spec => []DiskSurvives
<1>1. IInv => DiskSurvives
  BY DEF IInv
<1>. QED BY <1>1, DiskTaskInvariant, PTL
===============================================================================
