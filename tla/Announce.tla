------------------------------- MODULE Announce -------------------------------
(***************************************************************************)
(* When a torrent contacts a tracker (TrackerEntry and                     *)
(* announce_to_trackers of torrent.rs).  Time is counted in ticks.         *)
(***************************************************************************)
EXTENDS Integers

CONSTANTS
  AnnounceInterval,   \* announce_interval: the default of both intervals
  ErrorThreshold,     \* tracker_error_threshold
  MinRequested        \* min_requested_peer_count

\* Option<_> of an interval or a time: none is negative.
NONE == -1
Or(option, default) == IF option = NONE THEN default ELSE option

NewTracker == [last_announce_time |-> NONE, interval |-> NONE, min_interval |-> NONE, error_count |-> 0]

should_announce(tracker, t) ==
  tracker.last_announce_time # NONE =>
    t > tracker.last_announce_time + Or(tracker.interval, AnnounceInterval)

can_announce(tracker, t) ==
  tracker.last_announce_time # NONE =>
    t > tracker.last_announce_time + Or(tracker.min_interval, AnnounceInterval)

NeedsPeers(peer_count, event) == peer_count < MinRequested /\ event # "Stopped"

\* Trackers that failed too often are skipped, events go out at once.
Announces(tracker, t, event, peer_count) ==
  /\ tracker.error_count < ErrorThreshold
  /\ \/ event # "none"
     \/ NeedsPeers(peer_count, event) /\ can_announce(tracker, t)
     \/ should_announce(tracker, t)

\* Mutant of AnnounceFailed: the time of a failed attempt is never kept.
AnnounceFailed_NotTimed(tracker, t, alerted) == [tracker EXCEPT !.error_count = @ + 1]

\* The time is kept after the user is alerted, which fails if nobody listens.
AnnounceFailed(tracker, t, alerted) ==
  [tracker EXCEPT !.error_count = @ + 1, !.last_announce_time = IF alerted THEN t ELSE @]

\* An answer replaces the intervals that it names.
Announced(tracker, t, interval, min_interval) ==
  [tracker EXCEPT !.interval = Or(interval, @), !.min_interval = Or(min_interval, @),
                  !.last_announce_time = t]
=============================================================================
