----------------------------- MODULE MCLifecycle -----------------------------
(* Instance of Lifecycle: one seed, one more address, and a tracker that   *)
(* allows an announce each tick and leaves the other interval to the       *)
(* default.                                                                *)
EXTENDS Lifecycle

CONSTANTS a1, a2
MCSeeds == <<a1>>
MCIntervals == {[interval |-> NONE, min_interval |-> 0]}
=============================================================================
