---------------------------- MODULE AlgorithmRun -----------------------------
(***************************************************************************)
(* The state of an algorithm that is run by itself: a behaviour chooses an *)
(* input, and the algorithm leaves a result.                               *)
(***************************************************************************)

VARIABLES
  input,    \* what was chosen first
  result    \* what the algorithm made of it

vars == <<input, result>>

NotRun == [op |-> "none"]
=============================================================================
