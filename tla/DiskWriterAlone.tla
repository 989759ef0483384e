--------------------------- MODULE DiskWriterAlone ---------------------------
(***************************************************************************)
(* DiskWriter driven by sessions that send any block at any time, up to    *)
(* MaxWrites copies of each.  Nobody reads the completions, so that        *)
(* channel is also the record of what the disk task reported.              *)
(***************************************************************************)
EXTENDS DiskWriter

CONSTANTS MaxWrites   \* bound: WriteBlock commands for one block

ASSUME WritesAssumption == MaxWrites \in Nat

VARIABLES
  sent,       \* history: sent[b] WriteBlock commands were sent for block b
  finished    \* history: finished[p] blocking threads ended for piece p

vars == <<diskVars, sent, finished>>

Init ==
  /\ DiskInit
  /\ sent = [b \in Blocks |-> 0]
  /\ finished = [p \in Pieces |-> 0]

Send(b) ==
  /\ sent[b] < MaxWrites
  /\ sent' = [sent EXCEPT ![b] = @ + 1]
  /\ SendWriteBlock(b)
  /\ UNCHANGED finished

Collect == WriteBlock /\ UNCHANGED <<sent, finished>>

HashAndWrite(p) ==
  /\ FinishValid(p) \/ FinishInvalid(p) \/ FinishError(p)
  /\ finished' = [finished EXCEPT ![p] = @ + 1]
  /\ UNCHANGED sent

Next ==
  \/ \E b \in Blocks : Send(b)
  \/ Collect
  \/ \E p \in Pieces : HashAndWrite(p)

\* The disk task keeps taking commands, and every blocking thread ends.
Fairness == WF_vars(Collect) /\ \A p \in Pieces : WF_vars(HashAndWrite(p))

Spec == Init /\ [][Next]_vars /\ Fairness

-----------------------------------------------------------------------------
(* Properties.                                                             *)

TypeOK ==
  /\ DiskTypeOK
  /\ sent \in [Blocks -> 0 .. MaxWrites]
  /\ finished \in [Pieces -> Nat]

Queued(b) == Cardinality({k \in DOMAIN disk_queue : disk_queue[k] = b})

(* A piece goes to a blocking thread only when each of its blocks has been *)
(* written once more since the last time: no thread is started with blocks *)
(* that no session sent, and none is started twice for the same blocks.    *)
FlushNeedsEveryBlock ==
  \A p \in Pieces : \A b \in BlocksOf(p) :
    finished[p] + write_jobs[p] + Queued(b) + (IF b \in write_buf THEN 1 ELSE 0) <= sent[b]

(* Once every block of a piece has been sent, in whatever order and with   *)
(* whatever duplicates, a thread hashes the piece and reports the result.  *)
CompletePieceReported ==
  \A p \in Pieces : (\A b \in BlocksOf(p) : sent[b] > 0) ~> finished[p] > 0
=============================================================================
