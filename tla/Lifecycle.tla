------------------------------ MODULE Lifecycle -------------------------------
(***************************************************************************)
(* A torrent's task with its table of peers, the sessions it starts and    *)
(* the tracker it announces to (torrent.rs, the ends of peer.rs), under an *)
(* engine that shuts everything down (engine.rs).                          *)
(*                                                                         *)
(* A session is a task of its own, numbered in the order of its start; the *)
(* table has one entry for each address.  While the torrent waits for a    *)
(* tracker or for its sessions it takes no command.  The user may drop the *)
(* receiver of the alerts, and some of the sends that then fail return     *)
(* early from where they are made.                                         *)
(***************************************************************************)
EXTENDS Announce, FiniteSets, Sequences, SequencesExt

CONSTANTS
  Addrs,          \* addresses of peers
  Seeds,          \* the addresses given to Mode::Download
  Inbound,        \* the addresses that connections come in from
  MaxConnected,   \* max_connected_peer_count
  Intervals,      \* bound: the intervals a tracker may answer
  Known,          \* bound: the addresses a tracker may answer
  MaxSessions,    \* bound: sessions ever started
  MaxTime,        \* bound: ticks
  MaxAvailable,   \* bound: addresses that wait to be connected
  MayDropAlerts   \* bound: whether the user may drop the AlertReceiver

ASSUME LifecycleAssumption ==
  /\ Seeds \in Seq(Addrs) /\ Inbound \subseteq Addrs /\ Known \subseteq Addrs
  /\ AnnounceInterval \in Nat /\ ErrorThreshold \in Nat /\ MaxConnected \in Nat
  /\ MinRequested \in 0 .. MaxConnected
  /\ Intervals \subseteq [interval : Nat \cup {NONE}, min_interval : Nat \cup {NONE}]
  /\ MaxSessions \in Nat /\ MaxTime \in Nat /\ MaxAvailable \in Nat
  /\ MayDropAlerts \in BOOLEAN

VARIABLES
  engine,      \* "running", "joining" its torrent, "stopping" the disk, "done"
  listening,   \* whether the AlertReceiver is still there
  torrent,     \* "starting" and "announcing" wait for a tracker, "running",
               \* "joining" its sessions, "ended", "failed": ended by an error
  complete,    \* no piece is missing
  event,       \* of the announce under way, "Stopped" of the last one
  now,         \* ticks so far
  tracker,
  available_peers,
  peers,       \* the table: address to session and the state it reported
  cmd_rx,      \* commands sent to the torrent, in order
  sessions,    \* sessions[n]: address, state, whether Shutdown was sent to it
               \* and whether it waits for its peer to read what it sends
  attempted    \* history: time of the last announce

vars == <<engine, listening, torrent, complete, event, now, tracker, available_peers, peers,
          cmd_rx, sessions, attempted>>
tracking == <<listening, complete, event, now, tracker, attempted>>

\* A session that is refused ends without a report to the torrent; one that
\* is ending has left its loop, frees its blocks and sends its last report.
Live(n) == sessions[n].state \notin {"Ended", "Refused"}
Serving(n) == Live(n) /\ sessions[n].state # "Ending"
InLoop(n) == sessions[n].state \in {"Exchanging", "Connected"}

Announcing == torrent \in {"starting", "announcing"}
Gone == torrent \in {"ended", "failed"}
Listed == {peers[a].session : a \in DOMAIN peers}

PeerState(a, c) == [cmd |-> "PeerState", addr |-> a, connection |-> c]
Shutdown == [cmd |-> "Shutdown"]

\* start: the first announce; a torrent that seeds has no event for it.
Init ==
  /\ engine = "running" /\ listening = TRUE /\ complete \in BOOLEAN /\ now = 0
  /\ tracker = NewTracker /\ attempted = NONE
  /\ available_peers = Seeds /\ peers = <<>> /\ cmd_rx = <<>> /\ sessions = <<>>
  /\ event = IF complete THEN "none" ELSE "Started"
  /\ torrent = IF Announces(tracker, now, event, Len(Seeds)) THEN "starting" ELSE "running"

\* The user is no longer interested in alerts, as nothing forbids.
DropAlerts ==
  /\ MayDropAlerts /\ listening' = FALSE
  /\ UNCHANGED <<engine, torrent, complete, event, now, tracker, available_peers, peers, cmd_rx,
                 sessions, attempted>>

-----------------------------------------------------------------------------
(* Sessions.                                                               *)

\* Commands to a torrent that has ended are lost, and so are those it leaves.
Report(cmds) == cmd_rx' = IF Gone THEN cmd_rx ELSE cmd_rx \o cmds

SessionUnchanged ==
  UNCHANGED <<engine, torrent, available_peers, peers, tracking>>

Becomes(n, state) == sessions' = [sessions EXCEPT ![n].state = state, ![n].sending = FALSE]

\* start_outbound: no report if the connection fails.
Connect(n) ==
  /\ sessions[n].state = "Connecting"
  /\ Becomes(n, "Handshaking") \/ Becomes(n, "Refused")
  /\ SessionUnchanged /\ UNCHANGED cmd_rx

\* The first of two reports.  If it or the alert after it cannot be sent, the
\* session returns at once and frees nothing.
Fail(n, alerted) ==
  /\ Becomes(n, IF Gone \/ ~ alerted THEN "Ended" ELSE "Ending")
  /\ Report(<<PeerState(sessions[n].addr, "Disconnected")>>)

\* start: the peer's handshake comes in, whose PeerConnected only sets the
\* peer's id, or a wrong one or an IO error, which is not reported, or the
\* stream closes, which is reported but no alert.
Handshake(n) ==
  /\ sessions[n].state = "Handshaking"
  /\ \/ ~ Gone /\ Becomes(n, "Exchanging") /\ UNCHANGED cmd_rx
     \/ Becomes(n, "Refused") /\ UNCHANGED cmd_rx
     \/ Fail(n, TRUE)
  /\ SessionUnchanged

\* run: after the first message, if neither side has a piece the session ends.
Exchange(n) ==
  /\ sessions[n].state = "Exchanging" /\ ~ sessions[n].sending
  /\ \/ Becomes(n, "Connected")
     \/ ~ complete /\ Becomes(n, "Ending")
  /\ SessionUnchanged /\ UNCHANGED cmd_rx

\* A message is sent, which is over when the peer has read enough.
Send(n) ==
  /\ InLoop(n)
  /\ sessions' = [sessions EXCEPT ![n].sending = ~ @]
  /\ SessionUnchanged /\ UNCHANGED cmd_rx

\* tick: a change of state is reported, here once, of the connected state.
\* Without a torrent the report is an error, FailSession.
TickSession(n) ==
  /\ sessions[n].state = "Connected" /\ ~ sessions[n].sending /\ ~ Gone
  /\ PeerState(sessions[n].addr, "Connected") \notin ToSet(cmd_rx)
  /\ sessions[n].addr \in DOMAIN peers => peers[sessions[n].addr].connection # "Connected"
  /\ Report(<<PeerState(sessions[n].addr, "Connected")>>)
  /\ SessionUnchanged /\ UNCHANGED sessions

\* run ends in an error.
FailSession(n) ==
  /\ InLoop(n)
  /\ Fail(n, listening)
  /\ SessionUnchanged

\* Only the loop of run reads the session's commands, between two messages.
ShutdownSession(n) ==
  /\ InLoop(n) /\ ~ sessions[n].sending /\ sessions[n].shutdown
  /\ Becomes(n, "Ending")
  /\ SessionUnchanged /\ UNCHANGED cmd_rx

\* Mutant of Finish: the last report is left out.
Finish_Unreported(n) ==
  /\ sessions[n].state = "Ending"
  /\ Becomes(n, "Ended")
  /\ SessionUnchanged /\ UNCHANGED cmd_rx

\* Blocks are freed; then the last report, which every other end sends.
Finish(n) ==
  /\ sessions[n].state = "Ending"
  /\ Becomes(n, "Ended")
  /\ Report(<<PeerState(sessions[n].addr, "Disconnected")>>)
  /\ SessionUnchanged

-----------------------------------------------------------------------------
(* The torrent.                                                            *)

\* Mutant of Start: entries are numbered from the first session of all.
Start_FromFirst(addrs, state) ==
  /\ Len(sessions) + Len(addrs) <= MaxSessions
  /\ sessions' = sessions \o [k \in DOMAIN addrs |->
                                [addr |-> addrs[k], state |-> state, shutdown |-> FALSE,
                                 sending |-> FALSE]]
  /\ peers' = [a \in DOMAIN peers \cup ToSet(addrs) |->
                 IF a \notin ToSet(addrs) THEN peers[a]
                 ELSE [session |-> CHOOSE k \in DOMAIN addrs : addrs[k] = a,
                       connection |-> "Connecting"]]

\* New sessions enter the table, each in the place of the last one with its
\* address.
Start(addrs, state) ==
  /\ Len(sessions) + Len(addrs) <= MaxSessions
  /\ sessions' = sessions \o [k \in DOMAIN addrs |->
                                [addr |-> addrs[k], state |-> state, shutdown |-> FALSE,
                                 sending |-> FALSE]]
  /\ peers' = [a \in DOMAIN peers \cup ToSet(addrs) |->
                 IF a \notin ToSet(addrs) THEN peers[a]
                 ELSE [session |-> Len(sessions) + CHOOSE k \in DOMAIN addrs : addrs[k] = a
                                     /\ \A j \in k + 1 .. Len(addrs) : addrs[j] # a,
                       connection |-> "Connecting"]]

\* Mutant of ConnectCount: what is connected is not counted.
ConnectCount_AllOfThem == IF MaxConnected < Len(available_peers) THEN MaxConnected ELSE Len(available_peers)

\* saturating_sub: inbound sessions may exceed the limit.
ConnectCount ==
  LET room == IF MaxConnected > Cardinality(DOMAIN peers)
                THEN MaxConnected - Cardinality(DOMAIN peers) ELSE 0
  IN IF room < Len(available_peers) THEN room ELSE Len(available_peers)

\* announce_to_trackers from the loop, with the counts at that time.
MayAnnounce(e) ==
  IF Announces(tracker, now', e, Cardinality(DOMAIN peers') + Len(available_peers'))
    THEN torrent' = "announcing" /\ event' = e
    ELSE torrent' = "running" /\ event' = "none"

\* tick: connect, then see whether to announce.
Tick ==
  /\ torrent = "running" /\ now < MaxTime
  /\ now' = now + 1
  /\ Start(SubSeq(available_peers, 1, ConnectCount), "Connecting")
  /\ available_peers' = SubSeq(available_peers, ConnectCount + 1, Len(available_peers))
  /\ MayAnnounce("none")
  /\ UNCHANGED <<engine, listening, complete, tracker, cmd_rx, attempted>>

\* An inbound connection.
Accept(a) ==
  /\ torrent = "running"
  /\ Start(<<a>>, "Handshaking")
  /\ UNCHANGED <<engine, torrent, available_peers, cmd_rx, tracking>>

\* handle_piece_completion of the last piece, which some session brought.
CompleteTorrent ==
  /\ torrent = "running" /\ ~ complete
  /\ \E n \in DOMAIN sessions : sessions[n].state \in {"Connected", "Ending", "Ended"}
  /\ complete' = TRUE
  /\ UNCHANGED <<engine, listening, now, tracker, available_peers, peers, cmd_rx, sessions, attempted>>
  /\ MayAnnounce("Completed")

\* After an announce: back to the loop, or to the end of the task.
Resumed == IF event = "Stopped" THEN "ended" ELSE "running"
Past(e) == IF e = "Stopped" THEN e ELSE "none"
KeepCommands == cmd_rx' = IF Gone' THEN <<>> ELSE cmd_rx

\* The tracker answers, with addresses that may be connected already.
AnnounceAnswered(interval, min_interval, addrs) ==
  /\ Announcing
  /\ tracker' = Announced(tracker, now, interval, min_interval)
  /\ Len(available_peers) + Len(addrs) <= MaxAvailable
  /\ available_peers' = available_peers \o addrs
  /\ torrent' = Resumed /\ event' = Past(event) /\ attempted' = now
  /\ KeepCommands
  /\ UNCHANGED <<engine, listening, complete, now, peers, sessions>>

\* An alert that nobody receives is an error of the torrent, which ends its
\* loop; start lets it pass, and after the last announce there is no loop.
AnnounceError ==
  /\ Announcing
  /\ tracker' = AnnounceFailed(tracker, now, listening)
  /\ torrent' = IF listening \/ torrent = "starting" \/ event = "Stopped" THEN Resumed ELSE "failed"
  /\ event' = Past(event) /\ attempted' = now
  /\ KeepCommands
  /\ UNCHANGED <<engine, listening, complete, now, available_peers, peers, sessions>>

Takes(cmd) ==
  /\ torrent = "running" /\ cmd_rx # <<>> /\ Head(cmd_rx).cmd = cmd
  /\ cmd_rx' = Tail(cmd_rx)

\* handle_peer_state_change: by address, whoever reports.
StateChanged(a, connection) ==
  IF a \notin DOMAIN peers THEN peers
  ELSE IF connection = "Disconnected" THEN [x \in DOMAIN peers \ {a} |-> peers[x]]
  ELSE [peers EXCEPT ![a].connection = connection]

TakePeerState ==
  /\ Takes("PeerState")
  /\ peers' = StateChanged(Head(cmd_rx).addr, Head(cmd_rx).connection)
  /\ UNCHANGED <<engine, torrent, available_peers, sessions, tracking>>

\* Mutant of Told: only sessions known to be connected are told to end.
Told_Connected == {n \in Listed : \E a \in DOMAIN peers :
                     peers[a].session = n /\ peers[a].connection = "Connected"}

Told == Listed

\* shutdown: first tell all sessions, then join them all.
TakeShutdown ==
  /\ Takes("Shutdown")
  /\ torrent' = "joining"
  /\ sessions' = [n \in DOMAIN sessions |->
                    IF n \in Told THEN [sessions[n] EXCEPT !.shutdown = TRUE] ELSE sessions[n]]
  /\ UNCHANGED <<engine, available_peers, peers, tracking>>

\* Mutant of JoinSessions: the first session to end is enough.
JoinSessions_Any ==
  /\ torrent = "joining" /\ (Listed = {} \/ \E n \in Listed : ~ Live(n))
  /\ event' = "Stopped"
  /\ torrent' = IF Announces(tracker, now, "Stopped", 0) THEN "announcing" ELSE "ended"
  /\ KeepCommands
  /\ UNCHANGED <<engine, listening, complete, available_peers, peers, sessions, now, tracker, attempted>>

JoinSessions ==
  /\ torrent = "joining" /\ \A n \in Listed : ~ Live(n)
  /\ event' = "Stopped"
  /\ torrent' = IF Announces(tracker, now, "Stopped", 0) THEN "announcing" ELSE "ended"
  /\ KeepCommands
  /\ UNCHANGED <<engine, listening, complete, available_peers, peers, sessions, now, tracker, attempted>>

\* The listener cannot be bound, after the first announce: the task ends.
BindFails ==
  /\ torrent = "running" /\ now = 0 /\ sessions = <<>>
  /\ torrent' = "failed" /\ KeepCommands
  /\ UNCHANGED <<engine, available_peers, peers, sessions, tracking>>

-----------------------------------------------------------------------------
(* The engine: torrents first, then the disk task.                         *)

EngineUnchanged == UNCHANGED <<torrent, available_peers, peers, sessions, tracking>>

BeginShutdown ==
  /\ engine = "running" /\ engine' = "joining"
  /\ Report(<<Shutdown>>)
  /\ EngineUnchanged

JoinTorrent ==
  /\ engine = "joining" /\ Gone /\ engine' = "stopping"
  /\ UNCHANGED cmd_rx /\ EngineUnchanged

JoinDisk ==
  /\ engine = "stopping" /\ engine' = "done"
  /\ UNCHANGED cmd_rx /\ EngineUnchanged

-----------------------------------------------------------------------------
SessionProgress(n) == Connect(n) \/ Finish(n)
TorrentProgress == TakePeerState \/ TakeShutdown \/ JoinSessions

AnyAnswer ==
  \E i \in Intervals, addrs \in {<<>>} \cup {<<a>> : a \in Known} :
    AnnounceAnswered(i.interval, i.min_interval, addrs)

Next ==
  \/ \E n \in DOMAIN sessions :
       \/ SessionProgress(n) \/ Handshake(n) \/ Exchange(n) \/ Send(n)
       \/ TickSession(n) \/ FailSession(n) \/ ShutdownSession(n)
  \/ TorrentProgress \/ AnyAnswer \/ AnnounceError
  \/ Tick \/ CompleteTorrent \/ BindFails
  \/ \E a \in Inbound : Accept(a)
  \/ BeginShutdown \/ JoinTorrent \/ JoinDisk \/ DropAlerts

\* Tasks are scheduled and connection attempts end.  select! takes what is
\* ready in no fixed order: a session that keeps coming back to its loop takes
\* its command.  Nothing says that a peer's handshake ever comes, that it ever
\* reads what is sent to it or that a tracker ever answers.
Fairness ==
  /\ \A n \in 1 .. MaxSessions :
       /\ WF_vars(n \in DOMAIN sessions /\ SessionProgress(n))
       /\ SF_vars(n \in DOMAIN sessions /\ ShutdownSession(n))
  /\ WF_vars(TorrentProgress)
  /\ WF_vars(JoinTorrent) /\ WF_vars(JoinDisk)

Spec == Init /\ [][Next]_vars /\ Fairness

-----------------------------------------------------------------------------
(* Properties.                                                             *)

Connections == {"Connecting", "Handshaking", "Exchanging", "Connected", "Ending", "Ended", "Refused"}

TypeOK ==
  /\ engine \in {"running", "joining", "stopping", "done"}
  /\ torrent \in {"starting", "announcing", "running", "joining", "ended", "failed"}
  /\ event \in {"none", "Started", "Completed", "Stopped"}
  /\ listening \in BOOLEAN /\ complete \in BOOLEAN
  /\ available_peers \in Seq(Addrs) /\ DOMAIN peers \subseteq Addrs
  /\ \A a \in DOMAIN peers : sessions[peers[a].session].addr = a
  /\ sessions \in Seq([addr : Addrs, state : Connections, shutdown : BOOLEAN, sending : BOOLEAN])

\* An address was connected a second time.
Reused == \E m, n \in DOMAIN sessions : m # n /\ sessions[m].addr = sessions[n].addr

(* A finished shutdown leaves no session that still serves its peer, in    *)
(* whatever state it was when it was told to end, but for two reasons: an  *)
(* address was connected twice, or the torrent had ended in an error that  *)
(* the user no longer wanted to hear of.                                   *)
ShutdownLeavesNone ==
  engine = "done" /\ ~ Reused =>
    \/ \A n \in DOMAIN sessions : ~ Serving(n)
    \/ torrent = "failed" /\ ~ listening

(* Torrent::shutdown: "Shuts down torrent and all peer sessions".          *)
ShutdownEndsSessions == engine = "done" => \A n \in DOMAIN sessions : ~ Serving(n)

(* A session that ends after its handshake gives up its place in the table *)
(* as soon as the torrent takes its report, so that the limit counts live  *)
(* sessions; the torrent never needs a second report, nor an end of a      *)
(* session that is cut short.                                              *)
EndedIsReported ==
  ~ Gone =>
    \A a \in DOMAIN peers :
      sessions[peers[a].session].state = "Ended" =>
        PeerState(a, "Disconnected") \in ToSet(cmd_rx)

(* Connecting never takes the table past its limit; only inbound sessions  *)
(* do.                                                                     *)
ConnectsWithinLimit ==
  [][Tick => Cardinality(DOMAIN peers') <= MaxConnected \/ peers' = peers]_vars

\* The last attempt is not a first one whose failure found no listener.
Timed == attempted > 0 \/ (attempted = 0 /\ listening)

(* Ticks do not announce sooner after the last attempt, a failed one too,  *)
(* than the intervals that the tracker has named allow, or the default     *)
(* ones, however badly the torrent needs peers.  An announce that fails    *)
(* unheard ends the torrent, but for its first, after which the next tick  *)
(* announces at once.                                                      *)
AnnouncesSpaced ==
  [][Tick /\ torrent' = "announcing" /\ Timed =>
       \/ now' > attempted + Or(tracker.min_interval, AnnounceInterval)
       \/ now' > attempted + Or(tracker.interval, AnnounceInterval)]_vars

\* A peer keeps the session waiting, for its handshake or to read.
Waits(n) ==
  n \in DOMAIN sessions /\ (sessions[n].state = "Handshaking" \/ sessions[n].sending)

(* The engine's shutdown ends, whatever the sessions are doing and however *)
(* the torrent ended, if no peer and no tracker, for neither of which      *)
(* there is a timeout, keeps it waiting for good.                          *)
ShutdownCompletes ==
  (/\ \A n \in 1 .. MaxSessions : []<> ~ Waits(n)
   /\ []<> ~ Announcing)
  => (engine = "joining" ~> engine = "done")
=============================================================================
