----------------------------- MODULE Algorithms ------------------------------
(***************************************************************************)
(* The sequential algorithms of the engine, each run on every input of a   *)
(* bounded set: the layout of pieces in files, writing and reading a piece *)
(* with whole and partial system calls, splitting vectored buffers,        *)
(* decoding a stream cut into fragments, the loop of pick_blocks           *)
(* (PickLoop), and the numbers by which a session steers its requests      *)
(* (RequestPace).                                                          *)
(* A behaviour chooses an input, then the algorithm's other arguments.     *)
(***************************************************************************)
EXTENDS RequestPace, PickLoop, FileIO, PeerCodec

-----------------------------------------------------------------------------
Inputs ==
  StorageInputs \cup IoVecsInputs \cup StreamInputs
  \cup {[algorithm |-> "session"]}
  \cup {[algorithm |-> "pick", blocks |-> t] : t \in Tables}

Init == input \in Inputs /\ result = NotRun

Next ==
  \/ FileNext
  \/ IoVecsNext
  \/ StreamNext
  \/ PickNext
  \/ PaceNext

Spec == Init /\ [][Next]_vars
=============================================================================
