------------------------------ MODULE PieceLife ------------------------------
(***************************************************************************)
(* What the engine promises of each piece of a torrent: it is missing,     *)
(* then downloaded, then written to the files, and only then owned, once   *)
(* and for good, one piece at a time, whatever fails on the way.           *)
(***************************************************************************)
CONSTANT Pieces

VARIABLES
  life,      \* life[p]: how far piece p is
  written    \* the pieces whose bytes are in the files

lifeVars == <<life, written>>

Lives == {"missing", "downloading", "finishing", "owned"}

Init == life = [p \in Pieces |-> "missing"] /\ written = {}

Becomes(p, before, after) ==
  life[p] = before /\ life' = [life EXCEPT ![p] = after]

\* A session picks the piece.
Start(p) == Becomes(p, "missing", "downloading") /\ UNCHANGED written

\* A blocking thread writes it, perhaps again.
Write(p) == life[p] # "missing" /\ written' = written \cup {p} /\ UNCHANGED life

\* The torrent takes it out of the downloads and tells the picker.
Finish(p) ==
  /\ p \in written /\ \A q \in Pieces : life[q] # "finishing"
  /\ Becomes(p, "downloading", "finishing")
  /\ UNCHANGED written
Own(p) == Becomes(p, "finishing", "owned") /\ UNCHANGED written

Next == \E p \in Pieces : Start(p) \/ Write(p) \/ Finish(p) \/ Own(p)

Spec == Init /\ [][Next]_lifeVars
=============================================================================
