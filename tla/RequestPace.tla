----------------------------- MODULE RequestPace -----------------------------
(***************************************************************************)
(* How a session paces its requests, by the numbers of SessionContext: it  *)
(* requests when it is unchoked, when a block comes and when requests time *)
(* out (peer.rs), and sends what it received to its torrent.  The module  *)
(* is one of the algorithms that Algorithms runs, in variables of which it *)
(* needs only the result.                                                  *)
(***************************************************************************)
EXTENDS Integers, AlgorithmRun, Storage

CONSTANTS
  MIN_TIMEOUT, SLOW_START_ERROR_MARGIN, START_REQUEST_QUEUE_LEN, WEIGHT, INVERTED_GAIN, RATE_UNIT,
  MaxTicks,     \* bound: ticks of a session
  MaxBlocks,    \* bound: blocks that a session gets
  MaxUnchokes   \* bound: unchokes by its peer

ASSUME PaceAssumption ==
  /\ {BLOCK_LEN, START_REQUEST_QUEUE_LEN, WEIGHT, INVERTED_GAIN, RATE_UNIT} \subseteq Nat \ {0}
  /\ {MIN_TIMEOUT, SLOW_START_ERROR_MARGIN, MaxTicks, MaxBlocks, MaxUnchokes} \subseteq Nat

Context == INSTANCE SessionContext

-----------------------------------------------------------------------------
(* A session that is interested in its peer, in a torrent that always has  *)
(* blocks left to request.  Time is counted in ticks, one each second; a   *)
(* block that comes late is one whose request was given up.                *)

NewSession ==
  [op |-> "session", ctx |-> Context!NewContext, outgoing |-> 0, late |-> 0, since |-> 0,
   ended |-> FALSE, sent |-> [down |-> 0, waste |-> 0],
   ticks |-> 0, unchokes |-> 0, rtts |-> {}, unchoked |-> FALSE]

StartSession ==
  /\ input.algorithm = "session" /\ result = NotRun
  /\ result' = NewSession
  /\ UNCHANGED input

InSession == result.op = "session" /\ ~ result.ended

\* make_requests, and the time at which they were made.
Requested(s) ==
  IF s.ctx.is_choked \/ s.outgoing >= s.ctx.target THEN s
  ELSE [s EXCEPT !.outgoing = s.ctx.target, !.since = 0]

\* free_pending_blocks: the peer may answer all the same.
GivenUp(s) == [s EXCEPT !.outgoing = 0, !.late = s.late + s.outgoing]

\* Sends PeerState.  sent adds up the rounds in all that were sent; whether
\* the torrent still takes them, and finds the address in its table, is not
\* told to the session.
Report(s) ==
  [s EXCEPT !.sent = [down |-> @.down + s.ctx.down.round, waste |-> @.waste + s.ctx.waste.round]]

Unchoke ==
  /\ InSession /\ result.ctx.is_choked /\ result.unchokes < MaxUnchokes
  /\ result' = Requested([result EXCEPT
       !.ctx = Context!prepare_for_download([@ EXCEPT !.is_choked = FALSE, !.changed = TRUE]),
       !.unchokes = @ + 1, !.unchoked = result.ctx.timed_out])
  /\ UNCHANGED input

Choke ==
  /\ InSession /\ ~ result.ctx.is_choked
  /\ result' = [GivenUp(result) EXCEPT !.ctx = [@ EXCEPT !.is_choked = TRUE, !.changed = TRUE]]
  /\ UNCHANGED input

\* handle_block_msg, then make_requests; a block that another session got
\* first is waste.
Block(asked, new) ==
  /\ InSession
  /\ result.ctx.down.total + result.ctx.waste.total < MaxBlocks * BLOCK_LEN
  /\ IF asked THEN result.outgoing > 0 ELSE result.late > 0
  /\ LET s == IF asked THEN [result EXCEPT !.outgoing = @ - 1] ELSE [result EXCEPT !.late = @ - 1]
     IN result' = Requested(
          IF new THEN [s EXCEPT !.ctx = Context!update_download_stats(@, s.since),
                                !.rtts = @ \cup {s.since}]
                 ELSE [s EXCEPT !.ctx = Context!record_waste(@)])
  /\ UNCHANGED input

\* check_request_timeout.
TimedOut(s) ==
  IF s.outgoing = 0 \/ s.since <= Context!request_timeout(s.ctx) THEN s
  ELSE Requested([GivenUp(s) EXCEPT !.ctx = Context!register_request_timeout(@), !.unchoked = FALSE])

TickSession ==
  /\ InSession /\ result.ticks < MaxTicks
  /\ LET s == TimedOut([result EXCEPT !.ticks = @ + 1, !.since = @ + 1])
     IN result' = [(IF s.ctx.changed THEN Report(s) ELSE s) EXCEPT !.ctx = Context!tick(@)]
  /\ UNCHANGED input

\* The end of start sends PeerState once more, whatever has changed, and after
\* an error of run it is the second one.  Only the counters of the session
\* are kept here.
EndSession ==
  /\ InSession
  /\ \E told \in {Report(result), Report(Report(result))} :
       result' = [NewSession EXCEPT
         !.ended = TRUE, !.sent = told.sent,
         !.ctx = [@ EXCEPT !.down = result.ctx.down, !.waste = result.ctx.waste]]
  /\ UNCHANGED input

-----------------------------------------------------------------------------
PaceInit == input = [algorithm |-> "session"] /\ result = NotRun

PaceNext ==
  \/ StartSession \/ Unchoke \/ Choke \/ TickSession \/ EndSession
  \/ \E asked, new \in BOOLEAN : Block(asked, new)

PaceSpec == PaceInit /\ [][PaceNext]_vars

-----------------------------------------------------------------------------
(* Properties.                                                             *)

(* "Only allow a single outstanding request from now until peer hasn't     *)
(* timed out": until a block comes in time no second request is out,       *)
(* however fast late blocks come, unless the peer chokes and unchokes us.  *)
SingleRequestUntilRecovery ==
  result.op = "session" /\ result.ctx.timed_out /\ ~ result.unchoked => result.outgoing <= 1

(* The pipeline never runs dry: as blocks are requested only when one      *)
(* comes, on an unchoke or on a timeout, an unchoked session without a     *)
(* request out would stay idle for good, whatever its rate fell to.        *)
PipelineNeverStalls ==
  InSession /\ ~ result.ctx.is_choked => result.outgoing > 0

(* The average round trip starts without bias and stays among the samples, *)
(* and its deviation within their spread, in spite of fixed point and      *)
(* truncation: a timeout is never less than some round trip was, nor more  *)
(* than four times their spread above them.                                *)
AverageWithinSamples ==
  result.op = "session" /\ result.rtts # {} =>
    LET least == CHOOSE t \in result.rtts : \A u \in result.rtts : t <= u
        greatest == CHOOSE t \in result.rtts : \A u \in result.rtts : u <= t
    IN /\ Context!mean(result.ctx.rtt) \in least .. greatest
       /\ Context!deviation(result.ctx.rtt) \in 0 .. greatest - least
       /\ Context!request_timeout(result.ctx) \in
            least .. Context!Larger(greatest + 4 * (greatest - least), MIN_TIMEOUT)

(* No round is reset before it is sent, and none is sent twice but the     *)
(* last: what a session has sent is what it has counted, less the current  *)
(* round while it lives, and with that round once or twice when it ends.   *)
(* The sends themselves succeed, as they do while the torrent lives.       *)
RoundsSent ==
  result.op = "session" =>
    \A k \in {"down", "waste"} :
      LET counted == result.ctx[k].total
          round == result.ctx[k].round
      IN result.sent[k] \in IF result.ended THEN {counted, counted + round} ELSE {counted - round}
=============================================================================
