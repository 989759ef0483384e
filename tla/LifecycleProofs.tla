--------------------------- MODULE LifecycleProofs ---------------------------
(***************************************************************************)
(* Proofs about Lifecycle, for any number of addresses, sessions, ticks    *)
(* and intervals: its types, what a finished shutdown leaves, that no      *)
(* ended session keeps its place unreported, that connecting respects the  *)
(* limit and that ticks announce no sooner than the tracker allows.        *)
(***************************************************************************)
EXTENDS Lifecycle, Basics

-----------------------------------------------------------------------------
(* The inductive invariant.                                                *)

SessionRecords == [addr : Addrs, state : Connections, shutdown : BOOLEAN, sending : BOOLEAN]
Reports == {PeerState(a, c) : a \in Addrs, c \in {"Connected", "Disconnected"}}

StatesTyped ==
  /\ engine \in {"running", "joining", "stopping", "done"}
  /\ torrent \in {"starting", "announcing", "running", "joining", "ended", "failed"}
  /\ event \in {"none", "Started", "Completed", "Stopped"}
  /\ listening \in BOOLEAN /\ complete \in BOOLEAN
  /\ available_peers \in Seq(Addrs)
  /\ cmd_rx \in Seq(Reports \cup {Shutdown})
  /\ sessions \in Seq(SessionRecords)

\* Every entry of the table is a session with the entry's address.
TableInv ==
  /\ peers = [a \in DOMAIN peers |-> peers[a]]
  /\ DOMAIN peers \subseteq Addrs /\ IsFiniteSet(DOMAIN peers)
  /\ \A a \in DOMAIN peers :
       /\ peers[a] \in [session : DOMAIN sessions, connection : {"Connecting", "Connected"}]
       /\ sessions[peers[a].session].addr = a

\* Only a session that has left its loop is reported disconnected.
ReportInv ==
  \A k \in DOMAIN cmd_rx : \A a \in Addrs :
    cmd_rx[k] = PeerState(a, "Disconnected") =>
      \E n \in DOMAIN sessions : sessions[n].addr = a /\ ~ Serving(n)

\* While no address is reused, the table leads to every serving session.
ListedInv ==
  ~ Reused => \A n \in DOMAIN sessions : Serving(n) =>
    sessions[n].addr \in DOMAIN peers /\ peers[sessions[n].addr].session = n

\* How far a shutdown is, what it has left when the torrent says so, and how
\* else the torrent may have ended.
Leaving == torrent = "ended" \/ event = "Stopped"
ShutdownInv ==
  /\ event = "Stopped" => torrent \in {"announcing", "ended"}
  /\ engine \in {"stopping", "done"} => Gone
  /\ Leaving /\ ~ Reused => \A n \in DOMAIN sessions : ~ Serving(n)
  /\ torrent = "failed" => ~ listening \/ sessions = <<>>

\* The tracker's entry has the time of the last attempt, if that is kept.
TrackerRecords == [last_announce_time : Nat \cup {NONE}, interval : Nat \cup {NONE},
                   min_interval : Nat \cup {NONE}, error_count : Nat]
TrackerInv ==
  /\ now \in Nat /\ attempted \in Nat \cup {NONE} /\ tracker \in TrackerRecords
  /\ torrent = "starting" => now = 0
  /\ Timed /\ ~ Gone => tracker.last_announce_time = attempted

IInv ==
  StatesTyped /\ TableInv /\ ReportInv /\ ListedInv /\ ShutdownInv /\ EndedIsReported /\ TrackerInv

-----------------------------------------------------------------------------
(* Lemmas on sessions and the table.                                       *)

(* A report is told from the engine's command by its first field.          *)
LEMMA Commands ==
  ASSUME NEW c \in Reports \cup {Shutdown}
  PROVE  /\ c.cmd = "PeerState" => /\ c = PeerState(c.addr, c.connection) /\ c.addr \in Addrs
                                   /\ c.connection \in {"Connected", "Disconnected"}
         /\ c.cmd = "Shutdown" => c = Shutdown
         /\ \A a : \A conn : PeerState(a, conn).addr = a /\ PeerState(a, conn).connection = conn
                             /\ PeerState(a, conn) # Shutdown
BY DEF Reports, PeerState, Shutdown

(* A session that changes its state keeps its number and address.          *)
LEMMA BecomesFacts ==
  ASSUME sessions \in Seq(SessionRecords), NEW n \in DOMAIN sessions, NEW state \in Connections,
         Becomes(n, state)
  PROVE  /\ sessions' \in Seq(SessionRecords) /\ DOMAIN sessions' = DOMAIN sessions
         /\ \A m \in DOMAIN sessions :
              /\ sessions'[m].addr = sessions[m].addr
              /\ sessions'[m].state = IF m = n THEN state ELSE sessions[m].state
<1>1. DOMAIN sessions = 1 .. Len(sessions) /\ \A m \in DOMAIN sessions : sessions[m] \in SessionRecords
  OBVIOUS
<1>. DEFINE e == [sessions[n] EXCEPT !.state = state, !.sending = FALSE]
<1>2. e \in SessionRecords /\ e.addr = sessions[n].addr /\ e.state = state
  BY <1>1 DEF SessionRecords
<1>3. sessions' = [sessions EXCEPT ![n] = e]
  BY DEF Becomes
<1>. HIDE DEF e
<1>4. sessions' \in Seq(SessionRecords) /\ Len(sessions') = Len(sessions)
  BY <1>1, <1>2, <1>3, ExceptSeq
<1>5. DOMAIN sessions' = DOMAIN sessions
  BY <1>1, <1>4
<1>6. \A m \in DOMAIN sessions : sessions'[m] = IF m = n THEN e ELSE sessions[m]
  BY <1>3
<1>. QED BY <1>2, <1>4, <1>5, <1>6

(* A session has one of the addresses.                                     *)
LEMMA SessionAddr ==
  ASSUME StatesTyped, NEW n \in DOMAIN sessions
  PROVE  sessions[n] \in SessionRecords /\ sessions[n].addr \in Addrs
<1>1. sessions \in Seq(SessionRecords)
  BY DEF StatesTyped
<1>2. sessions[n] \in SessionRecords
  BY <1>1
<1>. QED BY <1>2 DEF SessionRecords

(* New sessions are numbered after the old ones; the table has, for each   *)
(* of their addresses, one of them, and for the others what it had.        *)
LEMMA StartFacts ==
  ASSUME StatesTyped, NEW addrs \in Seq(Addrs), NEW state \in Connections, Start(addrs, state)
  PROVE  /\ sessions' \in Seq(SessionRecords)
         /\ DOMAIN sessions \subseteq DOMAIN sessions'
         /\ \A n \in DOMAIN sessions : sessions'[n] = sessions[n]
         /\ \A k \in DOMAIN addrs :
              /\ Len(sessions) + k \in DOMAIN sessions' \ DOMAIN sessions
              /\ sessions'[Len(sessions) + k].addr = addrs[k]
              /\ sessions'[Len(sessions) + k].state = state
         /\ \A n \in DOMAIN sessions' \ DOMAIN sessions :
              \E k \in DOMAIN addrs : n = Len(sessions) + k
         /\ DOMAIN peers' = DOMAIN peers \cup ToSet(addrs)
         /\ peers' = [a \in DOMAIN peers' |-> peers'[a]]
         /\ \A a \in DOMAIN peers \ ToSet(addrs) : peers'[a] = peers[a]
         /\ \A a \in ToSet(addrs) : \E k \in DOMAIN addrs :
              addrs[k] = a /\ peers'[a] = [session |-> Len(sessions) + k, connection |-> "Connecting"]
<1>. DEFINE new == [k \in DOMAIN addrs |-> [addr |-> addrs[k], state |-> state, shutdown |-> FALSE,
                                    sending |-> FALSE]]
            N == Len(sessions)
<1>1. /\ N \in Nat /\ DOMAIN sessions = 1 .. N
      /\ Len(addrs) \in Nat /\ DOMAIN addrs = 1 .. Len(addrs)
      /\ \A k \in DOMAIN addrs : addrs[k] \in Addrs
  BY DEF StatesTyped
<1>2. new \in Seq(SessionRecords) /\ Len(new) = Len(addrs) /\ DOMAIN new = DOMAIN addrs
  <2>1. \A k \in DOMAIN addrs : new[k] \in SessionRecords
    BY <1>1 DEF SessionRecords
  <2>. QED BY <1>1, <2>1
<1>3. sessions' = sessions \o new
  BY DEF Start
<1>4. \A k \in DOMAIN addrs : new[k].addr = addrs[k] /\ new[k].state = state
  OBVIOUS
<1>5. /\ sessions' \in Seq(SessionRecords)
      /\ DOMAIN sessions' = 1 .. N + Len(addrs)
      /\ \A n \in 1 .. N : sessions'[n] = sessions[n]
      /\ \A k \in 1 .. Len(addrs) : sessions'[N + k] = new[k]
  <2>. HIDE DEF new
  <2>1. /\ sessions' \in Seq(SessionRecords) /\ Len(sessions') = N + Len(addrs)
        /\ \A i \in 1 .. N + Len(addrs) : sessions'[i] = IF i <= N THEN sessions[i] ELSE new[i - N]
    <3>1. sessions \in Seq(SessionRecords)
      BY DEF StatesTyped
    <3>2. /\ sessions \o new \in Seq(SessionRecords)
          /\ Len(sessions \o new) = N + Len(new)
          /\ \A i \in 1 .. N + Len(new) :
               (sessions \o new)[i] = IF i <= N THEN sessions[i] ELSE new[i - N]
      BY <1>2, <3>1, ConcatProperties
    <3>. QED BY <1>2, <1>3, <3>2
  <2>. QED BY <1>1, <2>1
<1>6. /\ DOMAIN peers' = DOMAIN peers \cup ToSet(addrs)
      /\ peers' = [a \in DOMAIN peers' |-> peers'[a]]
      /\ \A a \in DOMAIN peers \ ToSet(addrs) : peers'[a] = peers[a]
  BY DEF Start
<1>7. ASSUME NEW a \in ToSet(addrs)
      PROVE  \E k \in DOMAIN addrs :
               addrs[k] = a /\ peers'[a] = [session |-> N + k, connection |-> "Connecting"]
  <2>. DEFINE IsLast(k) == addrs[k] = a /\ \A j \in k + 1 .. Len(addrs) : addrs[j] # a
  <2>1. Places(addrs, a) # {} /\ Places(addrs, a) \subseteq 1 .. Len(addrs)
    BY <1>1 DEF ToSet, Places
  <2>2. PICK k \in Places(addrs, a) : \A j \in Places(addrs, a) : j <= k
    <3>1. /\ Places(addrs, a) \subseteq Int /\ Len(addrs) \in Int
          /\ \A j \in Places(addrs, a) : j <= Len(addrs)
      BY <1>1, <2>1
    <3>. QED BY <2>1, <3>1, GreatestNumber, Zenon
  <2>3. k \in DOMAIN addrs /\ IsLast(k)
    BY <1>1, <2>2 DEF Places
  <2>4. (CHOOSE j \in DOMAIN addrs : IsLast(j)) \in DOMAIN addrs
        /\ IsLast(CHOOSE j \in DOMAIN addrs : IsLast(j))
    BY <2>3, Zenon
  <2>5. peers'[a] = [session |-> N + CHOOSE j \in DOMAIN addrs : IsLast(j),
                     connection |-> "Connecting"]
    BY DEF Start
  <2>. QED BY <2>4, <2>5
<1>8. \A n \in DOMAIN sessions' \ DOMAIN sessions : \E k \in DOMAIN addrs : n = N + k
  <2>1. ASSUME NEW n \in DOMAIN sessions' \ DOMAIN sessions
        PROVE  n - N \in DOMAIN addrs /\ n = N + (n - N)
    BY <1>1, <1>5
  <2>. QED BY <2>1
<1>9. \A k \in DOMAIN addrs : N + k \in DOMAIN sessions' \ DOMAIN sessions
  BY <1>1, <1>5
<1>10. /\ DOMAIN sessions \subseteq DOMAIN sessions'
       /\ \A n \in DOMAIN sessions : sessions'[n] = sessions[n]
  BY <1>1, <1>5
<1>11. \A k \in DOMAIN addrs : sessions'[N + k].addr = addrs[k] /\ sessions'[N + k].state = state
  BY <1>1, <1>4, <1>5
<1>. HIDE DEF new
<1>. QED BY <1>5, <1>6, <1>7, <1>8, <1>9, <1>10, <1>11

-----------------------------------------------------------------------------
(* Steps of a session.                                                     *)

\* A step in which a session changes its state and what it reports.
SessionMove(n, state, cmds) ==
  /\ Becomes(n, state) /\ Report(cmds)
  /\ state \in {"Ending", "Ended", "Refused"} \/ Serving(n)
  /\ state = "Ended" => cmds # <<>>
  /\ \A k \in DOMAIN cmds :
       state \in {"Ending", "Ended"} /\ cmds[k] = PeerState(sessions[n].addr, "Disconnected")

\* The steps of a session that change its state.
Moves(n) ==
  SessionProgress(n) \/ Handshake(n) \/ Exchange(n) \/ FailSession(n) \/ ShutdownSession(n)

(* Each of them is such a step: a session ends only with a report.         *)
LEMMA SessionMoves ==
  ASSUME StatesTyped, NEW n \in DOMAIN sessions, Moves(n)
  PROVE  /\ SessionUnchanged
         /\ \E state \in Connections, cmds \in Seq(Reports) : SessionMove(n, state, cmds)
<1>. DEFINE r == PeerState(sessions[n].addr, "Disconnected")
<1>1. SessionUnchanged
  BY DEF Moves, SessionProgress, Connect, Finish, Handshake, Exchange, FailSession, ShutdownSession
<1>2. r \in Reports
  BY SessionAddr DEF Reports
<1>3. ASSUME NEW state \in Connections \ {"Ended"}, Becomes(n, state), UNCHANGED cmd_rx,
             state \in {"Ending", "Refused"} \/ Serving(n)
      PROVE  \E st \in Connections, cmds \in Seq(Reports) : SessionMove(n, st, cmds)
  <2>1. Report(<<>>)
    BY <1>3, ConcatEmptySeq DEF Report, StatesTyped
  <2>2. SessionMove(n, state, <<>>)
    BY <1>3, <2>1 DEF SessionMove
  <2>3. <<>> \in Seq(Reports)
    OBVIOUS
  <2>. QED BY <2>2, <2>3
<1>4. ASSUME NEW state \in {"Ending", "Ended"}, Becomes(n, state), Report(<<r>>)
      PROVE  \E st \in Connections, cmds \in Seq(Reports) : SessionMove(n, st, cmds)
  <2>. HIDE DEF r
  <2>1. /\ <<r>> \in Seq(Reports) /\ <<r>> # <<>>
        /\ \A k \in DOMAIN <<r>> : <<r>>[k] = r
    BY <1>2
  <2>2. SessionMove(n, state, <<r>>)
    BY <1>4, <2>1 DEF SessionMove, r
  <2>3. state \in Connections
    BY DEF Connections
  <2>. QED BY <2>1, <2>2, <2>3
<1>5. /\ {"Handshaking", "Exchanging", "Connected", "Ending", "Refused"} \subseteq Connections \ {"Ended"}
      /\ sessions[n].state \in {"Connecting", "Handshaking", "Exchanging", "Connected"} => Serving(n)
  BY DEF Connections, Serving, Live
<1>6. CASE Connect(n)
  BY <1>3, <1>5, <1>6 DEF Connect
<1>7. CASE Handshake(n)
  BY <1>3, <1>4, <1>5, <1>7 DEF Handshake, Fail
<1>8. CASE Exchange(n)
  BY <1>3, <1>5, <1>8 DEF Exchange
<1>9. CASE FailSession(n)
  BY <1>4, <1>9 DEF FailSession, Fail
<1>10. CASE ShutdownSession(n)
  BY <1>3, <1>5, <1>10 DEF ShutdownSession
<1>11. CASE Finish(n)
  BY <1>4, <1>11 DEF Finish
<1>. QED
  BY <1>1, <1>6, <1>7, <1>8, <1>9, <1>10, <1>11 DEF Moves, SessionProgress

(* Reports are added at the end, unless there is no torrent any more.      *)
LEMMA ReportFacts ==
  ASSUME StatesTyped, NEW cmds \in Seq(Reports \cup {Shutdown}), Report(cmds)
  PROVE  /\ cmd_rx' \in Seq(Reports \cup {Shutdown})
         /\ \A k \in DOMAIN cmd_rx' :
              (k \in DOMAIN cmd_rx /\ cmd_rx'[k] = cmd_rx[k]) \/ \E j \in DOMAIN cmds : cmd_rx'[k] = cmds[j]
         /\ ToSet(cmd_rx) \subseteq ToSet(cmd_rx')
         /\ ~ Gone => ToSet(cmds) \subseteq ToSet(cmd_rx')
<1>. DEFINE C == Reports \cup {Shutdown}
<1>1. CASE Gone
  BY <1>1 DEF Report, StatesTyped, ToSet
<1>2. CASE ~ Gone
  <2>1. cmd_rx \in Seq(C) /\ cmd_rx' = cmd_rx \o cmds
    BY <1>2 DEF Report, StatesTyped
  <2>. HIDE DEF C
  <2>2. cmds \in Seq(C)
    BY DEF C
  <2>3. /\ cmd_rx' \in Seq(C) /\ Len(cmd_rx') = Len(cmd_rx) + Len(cmds)
        /\ \A i \in 1 .. Len(cmd_rx) + Len(cmds) :
             cmd_rx'[i] = IF i <= Len(cmd_rx) THEN cmd_rx[i] ELSE cmds[i - Len(cmd_rx)]
    BY <2>1, <2>2, ConcatProperties
  <2>4. /\ Len(cmd_rx) \in Nat /\ Len(cmds) \in Nat
        /\ DOMAIN cmd_rx = 1 .. Len(cmd_rx) /\ DOMAIN cmds = 1 .. Len(cmds)
        /\ DOMAIN cmd_rx' = 1 .. Len(cmd_rx) + Len(cmds)
    BY <2>1, <2>2, <2>3
  <2>5. \A k \in DOMAIN cmd_rx' :
          \/ k \in DOMAIN cmd_rx /\ cmd_rx'[k] = cmd_rx[k]
          \/ k - Len(cmd_rx) \in DOMAIN cmds /\ cmd_rx'[k] = cmds[k - Len(cmd_rx)]
    BY <2>3, <2>4
  <2>6. \A k \in DOMAIN cmd_rx : k \in DOMAIN cmd_rx' /\ cmd_rx'[k] = cmd_rx[k]
    BY <2>3, <2>4
  <2>7. \A k \in DOMAIN cmds : k + Len(cmd_rx) \in DOMAIN cmd_rx' /\ cmd_rx'[k + Len(cmd_rx)] = cmds[k]
    BY <2>3, <2>4
  <2>8. ToSet(cmd_rx) \subseteq ToSet(cmd_rx')
    BY <2>6 DEF ToSet
  <2>9. ToSet(cmds) \subseteq ToSet(cmd_rx')
    BY <2>7 DEF ToSet
  <2>10. cmd_rx' \in Seq(Reports \cup {Shutdown})
    BY <2>3 DEF C
  <2>. QED BY <2>5, <2>8, <2>9, <2>10
<1>. QED BY <1>1, <1>2

(* A session that moves on, and ends only with a report, keeps the         *)
(* invariant.                                                              *)
LEMMA SessionMoveKeeps ==
  ASSUME IInv, NEW n \in DOMAIN sessions, NEW state \in Connections, NEW cmds \in Seq(Reports),
         SessionUnchanged, SessionMove(n, state, cmds)
  PROVE  IInv'
<1>. USE DEF IInv
<1>1. /\ UNCHANGED <<engine, torrent, available_peers, peers, listening, complete, event, now,
                     tracker, attempted>>
      /\ Becomes(n, state) /\ Report(cmds)
  BY DEF SessionMove, SessionUnchanged, tracking
<1>2. /\ sessions' \in Seq(SessionRecords) /\ DOMAIN sessions' = DOMAIN sessions
      /\ \A m \in DOMAIN sessions :
           /\ sessions'[m].addr = sessions[m].addr
           /\ sessions'[m].state = IF m = n THEN state ELSE sessions[m].state
  BY <1>1, BecomesFacts DEF StatesTyped
<1>3. cmds \in Seq(Reports \cup {Shutdown})
  BY SeqMonotone
<1>4. /\ cmd_rx' \in Seq(Reports \cup {Shutdown})
      /\ \A k \in DOMAIN cmd_rx' :
           (k \in DOMAIN cmd_rx /\ cmd_rx'[k] = cmd_rx[k]) \/ \E j \in DOMAIN cmds : cmd_rx'[k] = cmds[j]
      /\ ToSet(cmd_rx) \subseteq ToSet(cmd_rx')
      /\ ~ Gone => ToSet(cmds) \subseteq ToSet(cmd_rx')
  BY <1>1, <1>3, ReportFacts
<1>5. StatesTyped'
  BY <1>1, <1>2, <1>4 DEF StatesTyped, Reports
<1>6. TableInv'
  BY <1>1, <1>2 DEF TableInv
<1>7. Reused' = Reused /\ \A m \in DOMAIN sessions : Serving(m)' => Serving(m)
  BY <1>1, <1>2 DEF Reused, Serving, Live, SessionMove
<1>8. ReportInv'
  <2>1. SUFFICES ASSUME NEW k \in DOMAIN cmd_rx', NEW a \in Addrs,
                        cmd_rx'[k] = PeerState(a, "Disconnected")
                 PROVE  \E m \in DOMAIN sessions' : sessions'[m].addr = a /\ ~ Serving(m)'
    BY DEF ReportInv, PeerState, Serving, Live
  <2>2. CASE k \in DOMAIN cmd_rx /\ cmd_rx'[k] = cmd_rx[k]
    BY <1>2, <1>7, <2>1, <2>2 DEF ReportInv
  <2>3. CASE \E j \in DOMAIN cmds : cmd_rx'[k] = cmds[j]
    <3>1. /\ state \in {"Ending", "Ended"}
          /\ PeerState(a, "Disconnected") = PeerState(sessions[n].addr, "Disconnected")
      BY <2>1, <2>3 DEF SessionMove
    <3>2. a = sessions[n].addr
      BY <3>1 DEF PeerState
    <3>. QED BY <1>2, <3>1, <3>2 DEF Serving, Live
  <2>. QED BY <1>4, <2>2, <2>3
<1>9. ListedInv'
  BY <1>1, <1>2, <1>7 DEF ListedInv
<1>10. ShutdownInv'
  <2>1. sessions # <<>>
    OBVIOUS
  <2>. QED BY <1>1, <1>2, <1>7, <2>1 DEF ShutdownInv, Leaving, Gone
<1>11. EndedIsReported'
  <2>1. SUFFICES ASSUME ~ Gone, NEW a \in DOMAIN peers, sessions'[peers[a].session].state = "Ended"
                 PROVE  PeerState(a, "Disconnected") \in ToSet(cmd_rx')
    BY <1>1 DEF EndedIsReported, PeerState, Gone
  <2>2. peers[a].session \in DOMAIN sessions /\ sessions[peers[a].session].addr = a
    BY DEF TableInv
  <2>3. CASE peers[a].session # n
    BY <1>2, <1>4, <2>1, <2>2, <2>3 DEF EndedIsReported, Gone
  <2>4. CASE peers[a].session = n
    <3>1. state = "Ended" /\ cmds # <<>>
      BY <1>2, <2>1, <2>2, <2>4 DEF SessionMove
    <3>2. 1 \in DOMAIN cmds
      BY <3>1
    <3>3. cmds[1] = PeerState(a, "Disconnected") /\ cmds[1] \in ToSet(cmds)
      BY <2>2, <2>4, <3>2 DEF SessionMove, ToSet
    <3>. QED BY <1>4, <2>1, <3>3
  <2>. QED BY <2>3, <2>4
<1>12. TrackerInv'
  BY <1>1 DEF TrackerInv, Timed, Gone
<1>. QED BY <1>5, <1>6, <1>8, <1>9, <1>10, <1>11, <1>12

(* A tick reports a connection and changes no session.                     *)
LEMMA TickSessionKeeps ==
  ASSUME IInv, NEW n \in DOMAIN sessions, TickSession(n)
  PROVE  IInv'
<1>. USE DEF IInv
<1>. DEFINE r == PeerState(sessions[n].addr, "Connected")
<1>1. /\ UNCHANGED <<engine, torrent, available_peers, peers, sessions, listening, complete, event, now,
                     tracker, attempted>>
      /\ Report(<<r>>)
  BY DEF TickSession, SessionUnchanged, tracking
<1>2. r \in Reports
  BY SessionAddr DEF Reports
<1>. HIDE DEF r
<1>3. <<r>> \in Seq(Reports \cup {Shutdown}) /\ DOMAIN <<r>> = {1} /\ <<r>>[1] = r
  BY <1>2
<1>4. /\ cmd_rx' \in Seq(Reports \cup {Shutdown})
      /\ \A k \in DOMAIN cmd_rx' :
           (k \in DOMAIN cmd_rx /\ cmd_rx'[k] = cmd_rx[k]) \/ cmd_rx'[k] = r
      /\ ToSet(cmd_rx) \subseteq ToSet(cmd_rx')
  BY <1>1, <1>3, ReportFacts
<1>5. StatesTyped'
  BY <1>1, <1>4 DEF StatesTyped, Reports
<1>6. \A a : r # PeerState(a, "Disconnected")
  BY DEF r, PeerState
<1>7. ReportInv'
  BY <1>1, <1>4, <1>6 DEF ReportInv, PeerState, Serving, Live
<1>8. EndedIsReported'
  BY <1>1, <1>4 DEF EndedIsReported, PeerState, Gone
<1>. QED
  BY <1>1, <1>5, <1>7, <1>8
  DEF TableInv, ListedInv, ShutdownInv, Leaving, Gone, Reused, Serving, Live, TrackerInv, Timed

(* Waiting for the peer, or not any more, changes nothing else.            *)
LEMMA SendKeeps ==
  ASSUME IInv, NEW n \in DOMAIN sessions, Send(n)
  PROVE  IInv'
<1>. USE DEF IInv
<1>1. /\ UNCHANGED <<engine, torrent, available_peers, peers, cmd_rx, listening, complete, event, now,
                     tracker, attempted>>
      /\ sessions' = [sessions EXCEPT ![n].sending = ~ sessions[n].sending]
  BY DEF Send, SessionUnchanged, tracking
<1>. DEFINE e == [sessions[n] EXCEPT !.sending = ~ sessions[n].sending]
<1>2. e \in SessionRecords /\ e.addr = sessions[n].addr /\ e.state = sessions[n].state
  BY SessionAddr DEF SessionRecords
<1>3. sessions \in Seq(SessionRecords) /\ sessions' = [sessions EXCEPT ![n] = e]
  BY <1>1 DEF StatesTyped
<1>. HIDE DEF e
<1>4. sessions' \in Seq(SessionRecords) /\ Len(sessions') = Len(sessions)
  BY <1>2, <1>3, ExceptSeq
<1>5. /\ DOMAIN sessions' = DOMAIN sessions
      /\ \A m \in DOMAIN sessions :
           sessions'[m].addr = sessions[m].addr /\ sessions'[m].state = sessions[m].state
  BY <1>2, <1>3
<1>6. Reused' = Reused /\ \A m \in DOMAIN sessions : Serving(m)' = Serving(m)
  BY <1>5 DEF Reused, Serving, Live
<1>7. sessions # <<>>
  OBVIOUS
<1>8. StatesTyped'
  BY <1>1, <1>4 DEF StatesTyped, Reports
<1>9. TableInv' /\ EndedIsReported'
  BY <1>1, <1>5 DEF TableInv, EndedIsReported, PeerState, Gone
<1>10. ReportInv' /\ ListedInv'
  BY <1>1, <1>5, <1>6 DEF ReportInv, ListedInv, PeerState
<1>11. ShutdownInv' /\ TrackerInv'
  BY <1>1, <1>5, <1>6, <1>7 DEF ShutdownInv, Leaving, Gone, TrackerInv, Timed
<1>. QED BY <1>8, <1>9, <1>10, <1>11

(* What the sessions and the table keep if neither changes.                *)
LEMMA SameTable ==
  ASSUME IInv, UNCHANGED <<peers, sessions>>,
         (cmd_rx' = cmd_rx /\ (Gone => Gone')) \/ (cmd_rx' = <<>> /\ Gone')
  PROVE  /\ TableInv' /\ ReportInv' /\ ListedInv' /\ EndedIsReported'
         /\ cmd_rx' \in Seq(Reports \cup {Shutdown})
         /\ Reused' = Reused /\ \A n : Serving(n)' = Serving(n)
<1>. USE DEF IInv
<1>1. Reused' = Reused /\ \A n : Serving(n)' = Serving(n)
  BY DEF Reused, Serving, Live
<1>2. TableInv' /\ ListedInv'
  BY <1>1 DEF TableInv, ListedInv
<1>3. cmd_rx \in Seq(Reports \cup {Shutdown})
  BY DEF StatesTyped
<1>4. CASE cmd_rx' = cmd_rx /\ (Gone => Gone')
  BY <1>1, <1>2, <1>3, <1>4 DEF ReportInv, EndedIsReported, PeerState
<1>5. CASE cmd_rx' = <<>> /\ Gone'
  BY <1>1, <1>2, <1>5 DEF ReportInv, EndedIsReported, PeerState
<1>. QED BY <1>4, <1>5

-----------------------------------------------------------------------------
(* Steps of the torrent.                                                   *)

(* The addresses of a queue are finitely many.                             *)
LEMMA ToSetFinite ==
  ASSUME NEW S, NEW q \in Seq(S)
  PROVE  IsFiniteSet(ToSet(q)) /\ Cardinality(ToSet(q)) <= Len(q)
<1>1. /\ Len(q) \in Nat /\ DOMAIN q = 1 .. Len(q) /\ q = [k \in 1 .. Len(q) |-> q[k]]
      /\ ToSet(q) = {q[k] : k \in 1 .. Len(q)}
  BY DEF ToSet
<1>2. IsFiniteSet(1 .. Len(q)) /\ Cardinality(1 .. Len(q)) = Len(q)
  <2>1. /\ IsFiniteSet(1 .. Len(q))
        /\ Cardinality(1 .. Len(q)) = IF 1 > Len(q) THEN 0 ELSE Len(q) - 1 + 1
    <3>1. 1 \in Int /\ Len(q) \in Int
      BY <1>1
    <3>. QED BY <3>1, FS_Interval, Zenon
  <2>. QED BY <1>1, <2>1
<1>3. IsFiniteSet({q[k] : k \in 1 .. Len(q)}) /\ Cardinality({q[k] : k \in 1 .. Len(q)}) <= Len(q)
  BY <1>1, <1>2, ImageFinite
<1>. QED BY <1>1, <1>3

(* New sessions of a running torrent take the place of the old ones in the *)
(* table: if none of their addresses is reused they are live and listed.   *)
LEMMA StartKeeps ==
  ASSUME IInv, torrent = "running", NEW addrs \in Seq(Addrs),
         NEW state \in {"Connecting", "Handshaking"}, Start(addrs, state),
         UNCHANGED <<engine, listening, cmd_rx>>,
         torrent' \in {"announcing", "running"}, event' \in {event, "none"}
  PROVE  /\ sessions' \in Seq(SessionRecords)
         /\ TableInv' /\ ReportInv' /\ ListedInv' /\ ShutdownInv' /\ EndedIsReported'
<1>. USE DEF IInv
<1>. DEFINE N == Len(sessions)
<1>1. /\ sessions' \in Seq(SessionRecords)
      /\ DOMAIN sessions \subseteq DOMAIN sessions'
      /\ \A n \in DOMAIN sessions : sessions'[n] = sessions[n]
      /\ \A k \in DOMAIN addrs :
           /\ N + k \in DOMAIN sessions' \ DOMAIN sessions
           /\ sessions'[N + k].addr = addrs[k]
           /\ sessions'[N + k].state = state
      /\ \A n \in DOMAIN sessions' \ DOMAIN sessions : \E k \in DOMAIN addrs : n = N + k
      /\ DOMAIN peers' = DOMAIN peers \cup ToSet(addrs)
      /\ peers' = [a \in DOMAIN peers' |-> peers'[a]]
      /\ \A a \in DOMAIN peers \ ToSet(addrs) : peers'[a] = peers[a]
      /\ \A a \in ToSet(addrs) : \E k \in DOMAIN addrs :
           addrs[k] = a /\ peers'[a] = [session |-> N + k, connection |-> "Connecting"]
  <2>1. state \in Connections
    BY DEF Connections
  <2>. QED BY <2>1, StartFacts
<1>2. \A k \in DOMAIN addrs : addrs[k] \in ToSet(addrs) /\ addrs[k] \in Addrs
  BY DEF ToSet
<1>3. ToSet(addrs) \subseteq Addrs
  BY DEF ToSet
<1>. HIDE DEF N
<1>4. TableInv'
  <2>1. IsFiniteSet(DOMAIN peers')
    <3>1. IsFiniteSet(ToSet(addrs)) /\ IsFiniteSet(DOMAIN peers)
      BY ToSetFinite DEF TableInv
    <3>2. IsFiniteSet(DOMAIN peers \cup ToSet(addrs))
      BY <3>1, FS_Union, Zenon
    <3>. QED BY <1>1, <3>2
  <2>2. ASSUME NEW a \in DOMAIN peers'
        PROVE  /\ peers'[a] \in [session : DOMAIN sessions', connection : {"Connecting", "Connected"}]
               /\ sessions'[peers'[a].session].addr = a
    <3>1. CASE a \in ToSet(addrs)
      BY <1>1, <3>1
    <3>2. CASE a \notin ToSet(addrs)
      BY <1>1, <3>2 DEF TableInv
    <3>. QED BY <3>1, <3>2
  <2>. QED BY <1>1, <1>3, <2>1, <2>2 DEF TableInv
<1>5. ReportInv'
  <2>1. SUFFICES ASSUME NEW k \in DOMAIN cmd_rx, NEW a \in Addrs,
                        cmd_rx[k] = PeerState(a, "Disconnected")
                 PROVE  \E n \in DOMAIN sessions' : sessions'[n].addr = a /\ ~ Serving(n)'
    BY DEF ReportInv, PeerState, Serving, Live
  <2>2. PICK n \in DOMAIN sessions : sessions[n].addr = a /\ ~ Serving(n)
    BY <2>1 DEF ReportInv
  <2>. QED BY <1>1, <2>2 DEF Serving, Live
<1>6. ~ Reused' => ~ Reused
  BY <1>1 DEF Reused
<1>7. ListedInv'
  <2>1. SUFFICES ASSUME ~ Reused', NEW n \in DOMAIN sessions', Serving(n)'
                 PROVE  /\ sessions'[n].addr \in DOMAIN peers'
                        /\ peers'[sessions'[n].addr].session = n
    BY DEF ListedInv
  <2>2. \A m \in DOMAIN sessions' : sessions'[m].addr = sessions'[n].addr => m = n
    BY <2>1 DEF Reused
  <2>3. CASE n \in DOMAIN sessions
    <3>1. sessions[n].addr \in DOMAIN peers /\ peers[sessions[n].addr].session = n
      BY <1>1, <1>6, <2>1, <2>3 DEF ListedInv, Serving, Live
    <3>2. sessions[n].addr \notin ToSet(addrs)
      <4>1. ASSUME NEW k \in DOMAIN addrs, addrs[k] = sessions[n].addr
            PROVE  FALSE
        <5>1. N + k # n /\ N + k \in DOMAIN sessions' /\ sessions'[N + k].addr = sessions'[n].addr
          BY <1>1, <2>3, <4>1
        <5>. QED BY <2>2, <5>1
      <4>. QED BY <4>1 DEF ToSet
    <3>. QED BY <1>1, <2>3, <3>1, <3>2
  <2>4. CASE n \notin DOMAIN sessions
    <3>1. PICK k \in DOMAIN addrs : n = N + k
      BY <1>1, <2>4
    <3>2. sessions'[n].addr = addrs[k] /\ addrs[k] \in ToSet(addrs)
      BY <1>1, <1>2, <3>1
    <3>3. PICK j \in DOMAIN addrs : addrs[j] = addrs[k] /\ peers'[addrs[k]].session = N + j
      BY <1>1, <3>2
    <3>4. N + j = n
      BY <1>1, <2>2, <3>2, <3>3
    <3>. QED BY <1>1, <3>2, <3>3, <3>4
  <2>. QED BY <2>3, <2>4
<1>8. ShutdownInv'
  BY DEF ShutdownInv, Leaving, Gone
<1>9. EndedIsReported'
  <2>1. SUFFICES ASSUME NEW a \in DOMAIN peers', sessions'[peers'[a].session].state = "Ended"
                 PROVE  PeerState(a, "Disconnected") \in ToSet(cmd_rx)
    BY DEF EndedIsReported, PeerState, Gone
  <2>2. a \notin ToSet(addrs)
    BY <1>1, <2>1
  <2>3. a \in DOMAIN peers /\ peers'[a] = peers[a] /\ peers[a].session \in DOMAIN sessions
    BY <1>1, <2>2 DEF TableInv
  <2>. QED BY <1>1, <2>1, <2>3 DEF EndedIsReported, Gone
<1>. QED BY <1>1, <1>4, <1>5, <1>7, <1>8, <1>9

(* What connecting takes from the waiting addresses, and what it leaves.   *)
LEMMA ConnectCountFacts ==
  ASSUME LifecycleAssumption, StatesTyped, TableInv
  PROVE  /\ ConnectCount \in 0 .. Len(available_peers) /\ Cardinality(DOMAIN peers) \in Nat
         /\ ConnectCount > 0 => Cardinality(DOMAIN peers) + ConnectCount <= MaxConnected
         /\ SubSeq(available_peers, 1, ConnectCount) \in Seq(Addrs)
         /\ Len(SubSeq(available_peers, 1, ConnectCount)) = ConnectCount
         /\ SubSeq(available_peers, ConnectCount + 1, Len(available_peers)) \in Seq(Addrs)
<1>1. available_peers \in Seq(Addrs) /\ Len(available_peers) \in Nat
  BY DEF StatesTyped
<1>2. Cardinality(DOMAIN peers) \in Nat
  BY FS_CardinalityType DEF TableInv
<1>3. /\ ConnectCount \in 0 .. Len(available_peers)
      /\ ConnectCount > 0 => Cardinality(DOMAIN peers) + ConnectCount <= MaxConnected
  BY <1>1, <1>2 DEF ConnectCount, LifecycleAssumption
<1>4. /\ SubSeq(available_peers, 1, ConnectCount) \in Seq(Addrs)
      /\ Len(SubSeq(available_peers, 1, ConnectCount)) = ConnectCount
  BY <1>1, <1>3, SubSeqProperties
<1>5. SubSeq(available_peers, ConnectCount + 1, Len(available_peers)) \in Seq(Addrs)
  BY <1>1, <1>3, SubSeqProperties
<1>. QED BY <1>2, <1>3, <1>4, <1>5

(* A tick keeps the invariant.                                             *)
LEMMA TickKeeps ==
  ASSUME LifecycleAssumption, IInv, Tick
  PROVE  IInv'
<1>. USE DEF IInv
<1>. DEFINE first == SubSeq(available_peers, 1, ConnectCount)
<1>1. /\ torrent = "running" /\ now' = now + 1 /\ event' = "none"
      /\ torrent' \in {"announcing", "running"}
      /\ Start(first, "Connecting")
      /\ available_peers' = SubSeq(available_peers, ConnectCount + 1, Len(available_peers))
      /\ UNCHANGED <<engine, listening, complete, tracker, cmd_rx, attempted>>
  BY DEF Tick, MayAnnounce
<1>2. first \in Seq(Addrs) /\ available_peers' \in Seq(Addrs)
  BY <1>1, ConnectCountFacts
<1>. HIDE DEF first
<1>3. /\ sessions' \in Seq(SessionRecords)
      /\ TableInv' /\ ReportInv' /\ ListedInv' /\ ShutdownInv' /\ EndedIsReported'
  BY <1>1, <1>2, StartKeeps
<1>4. StatesTyped'
  BY <1>1, <1>2, <1>3 DEF StatesTyped, Reports
<1>5. TrackerInv'
  BY <1>1 DEF TrackerInv, Timed, Gone
<1>. QED BY <1>3, <1>4, <1>5

(* An inbound connection keeps the invariant.                              *)
LEMMA AcceptKeeps ==
  ASSUME LifecycleAssumption, IInv, NEW a \in Inbound, Accept(a)
  PROVE  IInv'
<1>. USE DEF IInv
<1>1. /\ torrent = "running" /\ Start(<<a>>, "Handshaking")
      /\ UNCHANGED <<engine, torrent, available_peers, cmd_rx, listening, complete, event, now, tracker,
                     attempted>>
  BY DEF Accept, tracking
<1>2. <<a>> \in Seq(Addrs)
  BY DEF LifecycleAssumption
<1>3. /\ sessions' \in Seq(SessionRecords)
      /\ TableInv' /\ ReportInv' /\ ListedInv' /\ ShutdownInv' /\ EndedIsReported'
  BY <1>1, <1>2, StartKeeps
<1>4. StatesTyped'
  BY <1>1, <1>3 DEF StatesTyped, Reports
<1>5. TrackerInv'
  BY <1>1 DEF TrackerInv, Timed, Gone
<1>. QED BY <1>3, <1>4, <1>5

(* The torrent takes a report: a session that has ended leaves the table,  *)
(* whoever reported it, and no other entry loses its report.               *)
LEMMA TakePeerStateKeeps ==
  ASSUME IInv, TakePeerState
  PROVE  IInv'
<1>. USE DEF IInv
<1>1. /\ torrent = "running" /\ cmd_rx # <<>> /\ Head(cmd_rx).cmd = "PeerState"
      /\ cmd_rx' = Tail(cmd_rx)
      /\ UNCHANGED <<engine, torrent, available_peers, sessions, listening, complete, event, now, tracker,
                     attempted>>
  BY DEF TakePeerState, Takes, tracking
<1>. DEFINE C == Reports \cup {Shutdown}
            a == Head(cmd_rx).addr
            connection == Head(cmd_rx).connection
<1>2. cmd_rx \in Seq(C)
  BY DEF StatesTyped
<1>. HIDE DEF C
<1>3. /\ Head(cmd_rx) = cmd_rx[1] /\ 1 \in DOMAIN cmd_rx /\ Head(cmd_rx) \in C
      /\ cmd_rx' \in Seq(C)
      /\ \A k \in DOMAIN cmd_rx' : k + 1 \in DOMAIN cmd_rx /\ cmd_rx'[k] = cmd_rx[k + 1]
      /\ \A k \in DOMAIN cmd_rx : k # 1 => k - 1 \in DOMAIN cmd_rx' /\ cmd_rx'[k - 1] = cmd_rx[k]
  BY <1>1, <1>2
<1>4. /\ Head(cmd_rx) = PeerState(a, connection) /\ a \in Addrs
      /\ connection \in {"Connected", "Disconnected"}
  BY <1>1, <1>3, Commands DEF C
<1>5. peers' = StateChanged(a, connection)
  BY DEF TakePeerState
<1>. HIDE DEF a, connection
<1>6. /\ peers' = [x \in DOMAIN peers' |-> peers'[x]]
      /\ DOMAIN peers' \subseteq DOMAIN peers
      /\ \A x \in DOMAIN peers : x # a => x \in DOMAIN peers' /\ peers'[x] = peers[x]
      /\ connection # "Disconnected" /\ a \in DOMAIN peers =>
           a \in DOMAIN peers' /\ peers'[a] = [session |-> peers[a].session, connection |-> "Connected"]
      /\ connection = "Disconnected" => a \notin DOMAIN peers'
  <2>1. CASE a \notin DOMAIN peers
    BY <1>5, <2>1 DEF StateChanged, TableInv
  <2>2. CASE a \in DOMAIN peers /\ connection = "Disconnected"
    BY <1>5, <2>2 DEF StateChanged
  <2>3. CASE a \in DOMAIN peers /\ connection = "Connected"
    <3>1. peers' = [peers EXCEPT ![a].connection = "Connected"]
      BY <1>5, <2>3 DEF StateChanged
    <3>2. [peers[a] EXCEPT !.connection = "Connected"] =
            [session |-> peers[a].session, connection |-> "Connected"]
      BY <2>3 DEF TableInv
    <3>3. peers' = [peers EXCEPT ![a] = [session |-> peers[a].session, connection |-> "Connected"]]
      BY <3>1, <3>2
    <3>. QED BY <2>3, <3>3 DEF TableInv
  <2>. QED BY <1>4, <2>1, <2>2, <2>3
<1>7. StatesTyped'
  BY <1>1, <1>3 DEF StatesTyped, Reports, C
<1>8. TableInv'
  <2>1. IsFiniteSet(DOMAIN peers')
    BY <1>6, FS_Subset DEF TableInv
  <2>2. ASSUME NEW x \in DOMAIN peers'
        PROVE  /\ peers'[x] \in [session : DOMAIN sessions, connection : {"Connecting", "Connected"}]
               /\ sessions[peers'[x].session].addr = x
    <3>1. x \in DOMAIN peers
      BY <1>6
    <3>2. CASE x # a
      BY <1>6, <3>1, <3>2 DEF TableInv
    <3>3. CASE x = a
      BY <1>6, <3>1, <3>3 DEF TableInv
    <3>. QED BY <3>2, <3>3
  <2>. QED BY <1>1, <1>6, <2>1, <2>2 DEF TableInv
<1>9. ReportInv'
  <2>1. SUFFICES ASSUME NEW k \in DOMAIN cmd_rx', NEW x \in Addrs,
                        cmd_rx'[k] = PeerState(x, "Disconnected")
                 PROVE  \E n \in DOMAIN sessions : sessions[n].addr = x /\ ~ Serving(n)
    BY <1>1 DEF ReportInv, PeerState, Serving, Live
  <2>. QED BY <1>3, <2>1 DEF ReportInv
<1>10. ListedInv'
  <2>1. SUFFICES ASSUME ~ Reused, NEW n \in DOMAIN sessions, Serving(n)
                 PROVE  /\ sessions[n].addr \in DOMAIN peers'
                        /\ peers'[sessions[n].addr].session = n
    BY <1>1 DEF ListedInv, Reused, Serving, Live
  <2>2. sessions[n].addr \in DOMAIN peers /\ peers[sessions[n].addr].session = n
    BY <2>1 DEF ListedInv
  <2>3. CASE sessions[n].addr # a
    BY <1>6, <2>2, <2>3
  <2>4. CASE sessions[n].addr = a
    <3>1. connection # "Disconnected"
      <4>1. ASSUME connection = "Disconnected"
            PROVE  FALSE
        <5>1. PICK m \in DOMAIN sessions : sessions[m].addr = a /\ ~ Serving(m)
          BY <1>3, <1>4, <4>1 DEF ReportInv
        <5>2. m = n
          BY <2>1, <2>4, <5>1 DEF Reused
        <5>. QED BY <2>1, <5>1, <5>2
      <4>. QED BY <4>1
    <3>. QED BY <1>6, <2>2, <2>4, <3>1
  <2>. QED BY <2>3, <2>4
<1>11. ShutdownInv'
  BY <1>1 DEF ShutdownInv, Leaving, Gone, Reused, Serving, Live
<1>12. EndedIsReported'
  <2>1. SUFFICES ASSUME NEW x \in DOMAIN peers', sessions[peers'[x].session].state = "Ended"
                 PROVE  PeerState(x, "Disconnected") \in ToSet(cmd_rx')
    BY <1>1 DEF EndedIsReported, PeerState, Gone
  <2>2. x \in DOMAIN peers /\ peers'[x].session = peers[x].session
    BY <1>6, <2>1
  <2>3. PeerState(x, "Disconnected") \in ToSet(cmd_rx)
    BY <1>1, <2>1, <2>2 DEF EndedIsReported, Gone
  <2>4. PICK k \in DOMAIN cmd_rx : cmd_rx[k] = PeerState(x, "Disconnected")
    BY <2>3 DEF ToSet
  <2>5. k # 1
    <3>1. ASSUME k = 1
          PROVE  x = a /\ connection = "Disconnected"
      BY <1>3, <1>4, <2>4, <3>1 DEF PeerState
    <3>. QED BY <1>6, <3>1
  <2>. QED BY <1>3, <2>4, <2>5 DEF ToSet
<1>13. TrackerInv'
  BY <1>1 DEF TrackerInv, Timed, Gone
<1>. QED BY <1>7, <1>8, <1>9, <1>10, <1>11, <1>12, <1>13

(* Telling the sessions to end changes only what they have been told.      *)
LEMMA TakeShutdownKeeps ==
  ASSUME IInv, TakeShutdown
  PROVE  IInv'
<1>. USE DEF IInv
<1>. DEFINE C == Reports \cup {Shutdown}
<1>1. /\ torrent = "running" /\ torrent' = "joining" /\ cmd_rx # <<>> /\ Head(cmd_rx).cmd = "Shutdown"
      /\ cmd_rx' = Tail(cmd_rx)
      /\ UNCHANGED <<engine, available_peers, peers, listening, complete, event, now, tracker, attempted>>
  BY DEF TakeShutdown, Takes, tracking
<1>2. cmd_rx \in Seq(C)
  BY DEF StatesTyped
<1>. HIDE DEF C
<1>3. /\ Head(cmd_rx) = cmd_rx[1] /\ 1 \in DOMAIN cmd_rx /\ Head(cmd_rx) \in C
      /\ cmd_rx' \in Seq(C)
      /\ \A k \in DOMAIN cmd_rx' : k + 1 \in DOMAIN cmd_rx /\ cmd_rx'[k] = cmd_rx[k + 1]
      /\ \A k \in DOMAIN cmd_rx : k # 1 => k - 1 \in DOMAIN cmd_rx' /\ cmd_rx'[k - 1] = cmd_rx[k]
  BY <1>1, <1>2
<1>4. cmd_rx[1] = Shutdown
  BY <1>1, <1>3, Commands DEF C
<1>5. /\ sessions' \in Seq(SessionRecords) /\ DOMAIN sessions' = DOMAIN sessions
      /\ \A n \in DOMAIN sessions :
           sessions'[n].addr = sessions[n].addr /\ sessions'[n].state = sessions[n].state
  <2>1. /\ sessions' = [n \in DOMAIN sessions |-> sessions'[n]]
        /\ \A n \in DOMAIN sessions :
             sessions'[n] = IF n \in Told THEN [sessions[n] EXCEPT !.shutdown = TRUE] ELSE sessions[n]
    BY DEF TakeShutdown
  <2>2. ASSUME NEW n \in DOMAIN sessions
        PROVE  /\ sessions'[n] \in SessionRecords
               /\ sessions'[n].addr = sessions[n].addr /\ sessions'[n].state = sessions[n].state
    <3>1. sessions[n] \in SessionRecords
      BY SessionAddr
    <3>2. /\ [sessions[n] EXCEPT !.shutdown = TRUE] \in SessionRecords
          /\ [sessions[n] EXCEPT !.shutdown = TRUE].addr = sessions[n].addr
          /\ [sessions[n] EXCEPT !.shutdown = TRUE].state = sessions[n].state
      BY <3>1 DEF SessionRecords
    <3>. QED BY <2>1, <3>1, <3>2
  <2>3. DOMAIN sessions = 1 .. Len(sessions) /\ Len(sessions) \in Nat
    BY DEF StatesTyped
  <2>4. DOMAIN sessions' = DOMAIN sessions
    BY <2>1
  <2>5. sessions' \in [1 .. Len(sessions) -> SessionRecords]
    BY <2>1, <2>2, <2>3
  <2>6. sessions' \in Seq(SessionRecords)
    BY <2>3, <2>5
  <2>. QED BY <2>2, <2>4, <2>6
<1>6. StatesTyped'
  BY <1>1, <1>3, <1>5 DEF StatesTyped, Reports, C
<1>7. TableInv'
  BY <1>1, <1>5 DEF TableInv
<1>8. Reused' = Reused /\ \A n \in DOMAIN sessions : Serving(n)' = Serving(n)
  BY <1>5 DEF Reused, Serving, Live
<1>9. ReportInv'
  <2>1. SUFFICES ASSUME NEW k \in DOMAIN cmd_rx', NEW x \in Addrs,
                        cmd_rx'[k] = PeerState(x, "Disconnected")
                 PROVE  \E n \in DOMAIN sessions' : sessions'[n].addr = x /\ ~ Serving(n)'
    BY DEF ReportInv, PeerState, Serving, Live
  <2>2. PICK n \in DOMAIN sessions : sessions[n].addr = x /\ ~ Serving(n)
    BY <1>3, <2>1 DEF ReportInv
  <2>. QED BY <1>5, <1>8, <2>2
<1>10. ListedInv'
  BY <1>1, <1>5, <1>8 DEF ListedInv
<1>11. ShutdownInv'
  BY <1>1 DEF ShutdownInv, Leaving, Gone
<1>12. EndedIsReported'
  <2>1. SUFFICES ASSUME NEW x \in DOMAIN peers, sessions'[peers[x].session].state = "Ended"
                 PROVE  PeerState(x, "Disconnected") \in ToSet(cmd_rx')
    BY <1>1 DEF EndedIsReported, PeerState, Gone
  <2>2. PeerState(x, "Disconnected") \in ToSet(cmd_rx)
    BY <1>1, <1>5, <2>1 DEF EndedIsReported, TableInv, Gone
  <2>3. PICK k \in DOMAIN cmd_rx : cmd_rx[k] = PeerState(x, "Disconnected")
    BY <2>2 DEF ToSet
  <2>4. k # 1
    BY <1>4, <2>3 DEF PeerState, Shutdown
  <2>. QED BY <1>3, <2>3, <2>4 DEF ToSet
<1>13. TrackerInv'
  BY <1>1 DEF TrackerInv, Timed, Gone
<1>. QED BY <1>6, <1>7, <1>9, <1>10, <1>11, <1>12, <1>13

(* Once the listed sessions have ended none serves its peer, if no address *)
(* was reused: the torrent ends or announces that it stopped.              *)
LEMMA JoinSessionsKeeps ==
  ASSUME IInv, JoinSessions
  PROVE  IInv'
<1>. USE DEF IInv
<1>1. /\ torrent = "joining" /\ (\A n \in Listed : ~ Live(n)) /\ event' = "Stopped"
      /\ torrent' \in {"announcing", "ended"} /\ KeepCommands
      /\ UNCHANGED <<engine, listening, complete, available_peers, peers, sessions, now, tracker, attempted>>
  BY DEF JoinSessions
<1>2. /\ TableInv' /\ ReportInv' /\ ListedInv' /\ EndedIsReported'
      /\ cmd_rx' \in Seq(Reports \cup {Shutdown})
      /\ Reused' = Reused /\ \A n : Serving(n)' = Serving(n)
  BY <1>1, SameTable DEF KeepCommands, Gone
<1>3. StatesTyped'
  BY <1>1, <1>2 DEF StatesTyped, Reports
<1>4. ASSUME ~ Reused, NEW n \in DOMAIN sessions
      PROVE  ~ Serving(n)
  BY <1>1, <1>4 DEF ListedInv, Listed, Serving
<1>5. ShutdownInv'
  BY <1>1, <1>2, <1>4 DEF ShutdownInv, Leaving, Gone
<1>6. TrackerInv'
  BY <1>1 DEF TrackerInv, Timed, Gone
<1>. QED BY <1>2, <1>3, <1>5, <1>6

(* After an announce the torrent is back in its loop, or it has ended.     *)
LEMMA AfterAnnounceKeeps ==
  ASSUME IInv, Announcing, KeepCommands, event' = Past(event), TrackerInv',
         torrent' = Resumed \/ (torrent' = "failed" /\ ~ listening /\ event # "Stopped"),
         available_peers' \in Seq(Addrs), UNCHANGED <<engine, listening, complete, peers, sessions>>
  PROVE  IInv'
<1>. USE DEF IInv
<1>1. /\ torrent' \in {"running", "ended", "failed"}
      /\ torrent' = "ended" => event = "Stopped"
      /\ event' = "Stopped" => torrent' = "ended" /\ event = "Stopped"
      /\ torrent' = "failed" => ~ listening
      /\ event' \in {"none", "Stopped"}
  BY DEF Resumed, Past
<1>2. ~ Gone
  BY DEF Gone, Announcing
<1>3. /\ TableInv' /\ ReportInv' /\ ListedInv' /\ EndedIsReported'
      /\ cmd_rx' \in Seq(Reports \cup {Shutdown})
      /\ Reused' = Reused /\ \A n : Serving(n)' = Serving(n)
  BY <1>2, SameTable DEF KeepCommands
<1>4. StatesTyped'
  BY <1>1, <1>3 DEF StatesTyped, Reports
<1>5. ShutdownInv'
  BY <1>1, <1>2, <1>3 DEF ShutdownInv, Leaving, Gone
<1>. QED BY <1>3, <1>4, <1>5

(* An answer sets the intervals that it names.                             *)
LEMMA AnnounceAnsweredKeeps ==
  ASSUME LifecycleAssumption, IInv, NEW i \in Intervals, NEW addrs \in Seq(Addrs),
         AnnounceAnswered(i.interval, i.min_interval, addrs)
  PROVE  IInv'
<1>. USE DEF IInv
<1>1. /\ Announcing /\ torrent' = Resumed /\ event' = Past(event) /\ attempted' = now /\ KeepCommands
      /\ tracker' = Announced(tracker, now, i.interval, i.min_interval)
      /\ available_peers' = available_peers \o addrs
      /\ UNCHANGED <<engine, listening, complete, now, peers, sessions>>
  BY DEF AnnounceAnswered
<1>2. available_peers' \in Seq(Addrs)
  BY <1>1, ConcatProperties DEF StatesTyped
<1>3. /\ i.interval \in Nat \cup {NONE} /\ i.min_interval \in Nat \cup {NONE}
  BY DEF LifecycleAssumption
<1>4. tracker'.last_announce_time = now /\ tracker' \in TrackerRecords
  BY <1>1, <1>3 DEF Announced, TrackerInv, TrackerRecords, Or
<1>5. torrent' # "starting"
  BY <1>1 DEF Resumed
<1>6. TrackerInv'
  BY <1>1, <1>4, <1>5 DEF TrackerInv
<1>. QED BY <1>1, <1>2, <1>6, AfterAnnounceKeeps

(* A failed announce is counted, and timed if the user hears of it; if     *)
(* not, it is the first one or the last that the torrent makes.            *)
LEMMA AnnounceErrorKeeps ==
  ASSUME IInv, AnnounceError
  PROVE  IInv'
<1>. USE DEF IInv
<1>1. /\ Announcing /\ event' = Past(event) /\ attempted' = now /\ KeepCommands
      /\ tracker' = AnnounceFailed(tracker, now, listening)
      /\ torrent' = IF listening \/ torrent = "starting" \/ event = "Stopped" THEN Resumed ELSE "failed"
      /\ UNCHANGED <<engine, listening, complete, now, available_peers, peers, sessions>>
  BY DEF AnnounceError
<1>2. /\ tracker' \in TrackerRecords
      /\ listening => tracker'.last_announce_time = now
  <2>. DEFINE t == IF listening THEN now ELSE tracker.last_announce_time
  <2>1. tracker \in TrackerRecords /\ now \in Nat
    BY DEF TrackerInv
  <2>2. tracker' = [tracker EXCEPT !.error_count = tracker.error_count + 1, !.last_announce_time = t]
    BY <1>1 DEF AnnounceFailed
  <2>3. tracker.error_count + 1 \in Nat /\ t \in Nat \cup {NONE} /\ (listening => t = now)
    BY <2>1 DEF TrackerRecords
  <2>. HIDE DEF t, IInv
  <2>. QED BY <2>1, <2>2, <2>3 DEF TrackerRecords
<1>3. torrent = "starting" => now = 0
  BY DEF TrackerInv
<1>4. TrackerInv'
  <2>1. now \in Nat /\ attempted' \in Nat \cup {NONE} /\ now' = now
    BY <1>1 DEF TrackerInv
  <2>2. Timed' /\ ~ Gone' => listening
    BY <1>1, <1>3, <2>1 DEF Timed, Gone, Resumed
  <2>3. torrent' # "starting"
    BY <1>1 DEF Resumed
  <2>. QED BY <1>1, <1>2, <2>1, <2>2, <2>3 DEF TrackerInv
<1>5. available_peers' \in Seq(Addrs)
  BY <1>1 DEF StatesTyped
<1>6. torrent' = Resumed \/ (torrent' = "failed" /\ ~ listening /\ event # "Stopped")
  BY <1>1
<1>. QED BY <1>1, <1>4, <1>5, <1>6, AfterAnnounceKeeps

(* The last piece changes only what is announced.                          *)
LEMMA CompleteTorrentKeeps ==
  ASSUME IInv, CompleteTorrent
  PROVE  IInv'
<1>. USE DEF IInv
<1>1. /\ torrent = "running" /\ torrent' \in {"announcing", "running"}
      /\ event' \in {"none", "Completed"} /\ complete' = TRUE
      /\ UNCHANGED <<engine, listening, now, tracker, available_peers, peers, cmd_rx, sessions, attempted>>
  BY DEF CompleteTorrent, MayAnnounce
<1>2. /\ TableInv' /\ ReportInv' /\ ListedInv' /\ EndedIsReported'
      /\ cmd_rx' \in Seq(Reports \cup {Shutdown})
      /\ Reused' = Reused /\ \A n : Serving(n)' = Serving(n)
  BY <1>1, SameTable DEF Gone
<1>3. StatesTyped'
  BY <1>1 DEF StatesTyped, Reports
<1>4. ShutdownInv' /\ TrackerInv'
  BY <1>1 DEF ShutdownInv, Leaving, Gone, TrackerInv, Timed
<1>. QED BY <1>2, <1>3, <1>4

(* A torrent without a listener ends before it has a session.              *)
LEMMA BindFailsKeeps ==
  ASSUME IInv, BindFails
  PROVE  IInv'
<1>. USE DEF IInv
<1>1. /\ torrent = "running" /\ sessions = <<>> /\ torrent' = "failed" /\ KeepCommands
      /\ UNCHANGED <<engine, available_peers, peers, sessions, listening, complete, event, now, tracker,
                     attempted>>
  BY DEF BindFails, tracking
<1>2. /\ TableInv' /\ ReportInv' /\ ListedInv' /\ EndedIsReported'
      /\ cmd_rx' \in Seq(Reports \cup {Shutdown})
      /\ Reused' = Reused /\ \A n : Serving(n)' = Serving(n)
  BY <1>1, SameTable DEF Gone, KeepCommands
<1>3. StatesTyped'
  BY <1>1, <1>2 DEF StatesTyped, Reports
<1>4. ShutdownInv' /\ TrackerInv'
  BY <1>1 DEF ShutdownInv, Leaving, Gone, TrackerInv, Timed
<1>. QED BY <1>2, <1>3, <1>4

-----------------------------------------------------------------------------
(* Steps of the engine.                                                    *)

(* The engine's command is no report of a session.                         *)
LEMMA BeginShutdownKeeps ==
  ASSUME IInv, BeginShutdown
  PROVE  IInv'
<1>. USE DEF IInv
<1>1. /\ engine = "running" /\ engine' = "joining" /\ Report(<<Shutdown>>)
      /\ UNCHANGED <<torrent, available_peers, peers, sessions, listening, complete, event, now, tracker,
                     attempted>>
  BY DEF BeginShutdown, EngineUnchanged, tracking
<1>2. <<Shutdown>> \in Seq(Reports \cup {Shutdown}) /\ DOMAIN <<Shutdown>> = {1} /\ <<Shutdown>>[1] = Shutdown
  OBVIOUS
<1>3. /\ cmd_rx' \in Seq(Reports \cup {Shutdown})
      /\ \A k \in DOMAIN cmd_rx' :
           (k \in DOMAIN cmd_rx /\ cmd_rx'[k] = cmd_rx[k]) \/ cmd_rx'[k] = Shutdown
      /\ ToSet(cmd_rx) \subseteq ToSet(cmd_rx')
  BY <1>1, <1>2, ReportFacts
<1>4. StatesTyped'
  BY <1>1, <1>3 DEF StatesTyped, Reports
<1>5. \A x : Shutdown # PeerState(x, "Disconnected")
  BY DEF Shutdown, PeerState
<1>6. ReportInv'
  <2>1. SUFFICES ASSUME NEW k \in DOMAIN cmd_rx', NEW x \in Addrs,
                        cmd_rx'[k] = PeerState(x, "Disconnected")
                 PROVE  \E n \in DOMAIN sessions : sessions[n].addr = x /\ ~ Serving(n)
    BY <1>1 DEF ReportInv, PeerState, Serving, Live
  <2>. QED BY <1>3, <1>5, <2>1 DEF ReportInv
<1>7. EndedIsReported'
  BY <1>1, <1>3 DEF EndedIsReported, PeerState, Gone
<1>8. TableInv' /\ ListedInv' /\ ShutdownInv'
  BY <1>1 DEF TableInv, ListedInv, ShutdownInv, Leaving, Gone, Reused, Serving, Live
<1>9. TrackerInv'
  BY <1>1 DEF TrackerInv, Timed, Gone
<1>. QED BY <1>4, <1>6, <1>7, <1>8, <1>9

(* The engine goes on only after the torrent has ended.                    *)
LEMMA JoinKeeps ==
  ASSUME IInv, JoinTorrent \/ JoinDisk
  PROVE  IInv'
<1>. USE DEF IInv
<1>1. /\ Gone /\ engine' \in {"stopping", "done"}
      /\ UNCHANGED <<torrent, available_peers, peers, cmd_rx, sessions, listening, complete, event, now,
                     tracker, attempted>>
  BY DEF JoinTorrent, JoinDisk, EngineUnchanged, tracking, ShutdownInv
<1>2. /\ TableInv' /\ ReportInv' /\ ListedInv' /\ EndedIsReported'
      /\ Reused' = Reused /\ \A n : Serving(n)' = Serving(n)
  BY <1>1, SameTable DEF Gone
<1>3. StatesTyped'
  BY <1>1 DEF StatesTyped, Reports
<1>4. ShutdownInv' /\ TrackerInv'
  BY <1>1, <1>2 DEF ShutdownInv, Leaving, Gone, TrackerInv, Timed
<1>. QED BY <1>2, <1>3, <1>4

(* Without the alerts' receiver fewer attempts count as timed.             *)
LEMMA DropAlertsKeeps ==
  ASSUME IInv, DropAlerts
  PROVE  IInv'
<1>. USE DEF IInv
<1>1. /\ listening' = FALSE
      /\ UNCHANGED <<engine, torrent, complete, event, now, tracker, available_peers, peers, cmd_rx,
                     sessions, attempted>>
  BY DEF DropAlerts
<1>2. /\ TableInv' /\ ReportInv' /\ ListedInv' /\ EndedIsReported'
      /\ Reused' = Reused /\ \A n : Serving(n)' = Serving(n)
  BY <1>1, SameTable DEF Gone
<1>3. StatesTyped'
  <2>1. cmd_rx' = cmd_rx /\ event' = event /\ listening' \in BOOLEAN
    BY <1>1 DEF StatesTyped
  <2>. QED BY <1>1, <2>1 DEF StatesTyped
<1>4. ShutdownInv' /\ TrackerInv'
  BY <1>1, <1>2 DEF ShutdownInv, Leaving, Gone, TrackerInv, Timed
<1>. QED BY <1>2, <1>3, <1>4

-----------------------------------------------------------------------------
(* The invariant and the theorems.                                         *)

(* The invariant holds initially.                                          *)
LEMMA InitInv ==
  ASSUME LifecycleAssumption, Init
  PROVE  IInv
<1>. USE DEF Init
<1>1. DOMAIN peers = {} /\ DOMAIN sessions = {} /\ DOMAIN cmd_rx = {}
  OBVIOUS
<1>2. StatesTyped
  BY DEF StatesTyped, LifecycleAssumption
<1>3. TableInv
  BY <1>1, FS_EmptySet DEF TableInv
<1>4. ReportInv /\ ListedInv /\ ShutdownInv
  BY <1>1 DEF ReportInv, ListedInv, ShutdownInv, Leaving
<1>5. EndedIsReported
  BY <1>1 DEF EndedIsReported, Gone
<1>6. TrackerInv
  BY DEF TrackerInv, TrackerRecords, Timed, NewTracker, NONE
<1>. QED BY <1>2, <1>3, <1>4, <1>5, <1>6 DEF IInv

(* Every step keeps the invariant.                                         *)
LEMMA NextInv ==
  ASSUME LifecycleAssumption, IInv, [Next]_vars
  PROVE  IInv'
<1>1. ASSUME NEW n \in DOMAIN sessions, Moves(n)
      PROVE  IInv'
  <2>1. StatesTyped
    BY DEF IInv
  <2>2. PICK state \in Connections, cmds \in Seq(Reports) : SessionMove(n, state, cmds)
    BY <1>1, <2>1, SessionMoves
  <2>3. SessionUnchanged
    BY <1>1, <2>1, SessionMoves
  <2>. QED BY <2>2, <2>3, SessionMoveKeeps
<1>2. ASSUME NEW n \in DOMAIN sessions, TickSession(n) \/ Send(n)
      PROVE  IInv'
  BY <1>2, TickSessionKeeps, SendKeeps
<1>3. CASE TorrentProgress
  BY <1>3, TakePeerStateKeeps, TakeShutdownKeeps, JoinSessionsKeeps
  DEF TorrentProgress
<1>4. CASE AnyAnswer
  <2>1. PICK i \in Intervals, addrs \in {<<>>} \cup {<<a>> : a \in Known} :
          AnnounceAnswered(i.interval, i.min_interval, addrs)
    BY <1>4 DEF AnyAnswer
  <2>2. addrs \in Seq(Addrs)
    <3>1. CASE addrs = <<>>
      BY <3>1
    <3>2. ASSUME NEW a \in Known, addrs = <<a>>
          PROVE  addrs \in Seq(Addrs)
      BY <3>2, LifecycleAssumption DEF LifecycleAssumption
    <3>. QED BY <3>1, <3>2
  <2>. QED BY <2>1, <2>2, AnnounceAnsweredKeeps
<1>5. CASE Tick
  BY <1>5, TickKeeps
<1>6. CASE BindFails \/ CompleteTorrent \/ AnnounceError \/ DropAlerts
  BY <1>6, BindFailsKeeps, CompleteTorrentKeeps, AnnounceErrorKeeps, DropAlertsKeeps
<1>7. ASSUME NEW a \in Inbound, Accept(a)
      PROVE  IInv'
  BY <1>7, AcceptKeeps
<1>8. CASE BeginShutdown
  BY <1>8, BeginShutdownKeeps
<1>9. CASE JoinTorrent \/ JoinDisk
  BY <1>9, JoinKeeps
<1>10. CASE UNCHANGED vars
  BY <1>10 DEF vars, IInv, StatesTyped, Reports, TableInv, ReportInv, ListedInv, ShutdownInv, Leaving,
     Gone, Reused, Serving, Live, EndedIsReported, TrackerInv, Timed, PeerState
<1>. QED BY <1>1, <1>2, <1>3, <1>4, <1>5, <1>6, <1>7, <1>8, <1>9, <1>10 DEF Next, Moves

(* The inductive invariant holds: the table leads to every session that    *)
(* serves its peer, unless an address was connected twice.                 *)
THEOREM LifecycleInvariant == Spec => []IInv
<1>1. Init => IInv
  BY LifecycleAssumption, InitInv
<1>2. IInv /\ [Next]_vars => IInv'
  BY LifecycleAssumption, NextInv
<1>. QED BY <1>1, <1>2, PTL DEF Spec

(* Every variable of the torrent, its sessions and its engine keeps its    *)
(* type, and every entry of the table names a session of its address.      *)
THEOREM LifecycleTypeOK == Spec => []TypeOK
<1>1. IInv => TypeOK
  BY DEF IInv, StatesTyped, SessionRecords, TableInv, TypeOK
<1>. QED BY <1>1, LifecycleInvariant, PTL

(* A shutdown that has finished leaves no serving session behind, as long  *)
(* as no address was connected twice and the user holds the alerts.        *)
THEOREM LifecycleShutdownLeavesNone == Spec => []ShutdownLeavesNone
<1>1. IInv => ShutdownLeavesNone
  BY DEF IInv, ShutdownInv, Leaving, Gone, ShutdownLeavesNone
<1>. QED BY <1>1, LifecycleInvariant, PTL

(* A session that ended after its handshake is off the table, or the       *)
(* report that takes it off waits for the torrent.                         *)
THEOREM LifecycleEndedIsReported == Spec => []EndedIsReported
<1>1. IInv => EndedIsReported
  BY DEF IInv
<1>. QED BY <1>1, LifecycleInvariant, PTL

(* A tick that connects to anyone leaves at most the configured number of  *)
(* entries in the table.                                                   *)
THEOREM LifecycleConnectsWithinLimit == Spec => ConnectsWithinLimit
<1>1. ASSUME IInv, Tick
      PROVE  Cardinality(DOMAIN peers') <= MaxConnected \/ peers' = peers
  <2>. DEFINE first == SubSeq(available_peers, 1, ConnectCount)
              N == Cardinality(DOMAIN peers)
  <2>1. /\ ConnectCount \in Nat /\ N \in Nat
        /\ ConnectCount > 0 => N + ConnectCount <= MaxConnected
        /\ first \in Seq(Addrs) /\ Len(first) = ConnectCount
    BY <1>1, LifecycleAssumption, ConnectCountFacts DEF IInv, StatesTyped
  <2>2. /\ DOMAIN peers' = DOMAIN peers \cup ToSet(first)
        /\ peers' = [a \in DOMAIN peers' |-> peers'[a]]
        /\ \A a \in DOMAIN peers \ ToSet(first) : peers'[a] = peers[a]
    <3>1. StatesTyped /\ "Connecting" \in Connections /\ Start(first, "Connecting")
      BY <1>1 DEF IInv, Connections, Tick
    <3>. HIDE DEF first
    <3>. QED BY <2>1, <3>1, StartFacts
  <2>. HIDE DEF first, ConnectCount, N
  <2>3. IsFiniteSet(ToSet(first)) /\ Cardinality(ToSet(first)) <= ConnectCount
        /\ Cardinality(ToSet(first)) \in Nat
    BY <2>1, ToSetFinite, FS_CardinalityType
  <2>4. IsFiniteSet(DOMAIN peers)
    BY <1>1 DEF IInv, TableInv
  <2>5. CASE ConnectCount > 0
    <3>1. Cardinality(DOMAIN peers \cup ToSet(first)) =
            N + Cardinality(ToSet(first)) - Cardinality(DOMAIN peers \cap ToSet(first))
      BY <2>3, <2>4, FS_Union, Zenon DEF N
    <3>2. Cardinality(DOMAIN peers \cap ToSet(first)) \in Nat
      BY <2>3, FS_Intersection, FS_CardinalityType
    <3>. QED BY <2>1, <2>2, <2>3, <2>5, <3>1, <3>2, LifecycleAssumption DEF LifecycleAssumption
  <2>6. CASE ConnectCount = 0
    <3>1. ToSet(first) = {}
      BY <2>1, <2>6 DEF ToSet
    <3>2. DOMAIN peers' = DOMAIN peers /\ \A a \in DOMAIN peers : peers'[a] = peers[a]
      BY <2>2, <3>1
    <3>3. peers = [a \in DOMAIN peers |-> peers[a]]
      BY <1>1 DEF IInv, TableInv
    <3>. QED BY <2>2, <3>2, <3>3
  <2>. QED BY <2>1, <2>5, <2>6
<1>2. IInv /\ [Next]_vars =>
        [Tick => Cardinality(DOMAIN peers') <= MaxConnected \/ peers' = peers]_vars
  BY <1>1
<1>. QED BY <1>2, LifecycleInvariant, PTL DEF Spec, ConnectsWithinLimit

(* A tick announces only after more time has passed since the last attempt *)
(* than an interval that the tracker answered, or the default, unless that *)
(* was a first attempt whose failure nobody heard of.                      *)
THEOREM LifecycleAnnouncesSpaced == Spec => AnnouncesSpaced
<1>1. ASSUME IInv, Tick, torrent' = "announcing", Timed
      PROVE  \/ now' > attempted + Or(tracker.min_interval, AnnounceInterval)
             \/ now' > attempted + Or(tracker.interval, AnnounceInterval)
  <2>1. tracker.last_announce_time = attempted /\ attempted # NONE
    BY <1>1 DEF IInv, TrackerInv, Timed, Gone, Tick, NONE
  <2>2. can_announce(tracker, now') \/ should_announce(tracker, now')
    BY <1>1 DEF Tick, MayAnnounce, Announces
  <2>. QED BY <2>1, <2>2 DEF can_announce, should_announce
<1>2. IInv /\ [Next]_vars =>
        [Tick /\ torrent' = "announcing" /\ Timed =>
           \/ now' > attempted + Or(tracker.min_interval, AnnounceInterval)
           \/ now' > attempted + Or(tracker.interval, AnnounceInterval)]_vars
  BY <1>1
<1>. QED BY <1>2, LifecycleInvariant, PTL DEF Spec, AnnouncesSpaced
===============================================================================
