--------------------------- MODULE SessionContext ----------------------------
(***************************************************************************)
(* The numbers a session steers its requests with (peer/state.rs), the     *)
(* sliding average of round trips they rest on (avg.rs) and the counters   *)
(* that it reports to its torrent (counter.rs).  One operator per method,  *)
(* from a value to the value that the method leaves.                       *)
(***************************************************************************)
EXTENDS Integers

CONSTANTS
  BLOCK_LEN, MIN_TIMEOUT, SLOW_START_ERROR_MARGIN, START_REQUEST_QUEUE_LEN,
  WEIGHT, INVERTED_GAIN,
  RATE_UNIT   \* rates are held in fractions of 1 / RATE_UNIT, in place of an f64

Larger(a, b) == IF a < b THEN b ELSE a
Distance(a, b) == IF a < b THEN b - a ELSE a - b
\* i64's division truncates.
Quotient(a, b) == IF a < 0 THEN -((-a) \div b) ELSE a \div b

-----------------------------------------------------------------------------
(* SlidingAvg, in fixed point of 1 / 64.                                   *)

NewAverage == [mean |-> 0, deviation |-> 0, samples |-> 0]

\* Mutant of update: the first samples weigh no more than the later ones.
update_Biased(a, sample) ==
  [a EXCEPT !.mean = @ + Quotient(64 * sample - @, INVERTED_GAIN), !.samples = 1]

update(a, sample) ==
  LET samples == IF a.samples < INVERTED_GAIN THEN a.samples + 1 ELSE a.samples
      deviation == IF a.samples > 0 THEN Distance(a.mean, 64 * sample) ELSE 0
  IN [mean |-> a.mean + Quotient(64 * sample - a.mean, samples),
      deviation |-> IF samples = 1 THEN a.deviation
                    ELSE a.deviation + Quotient(deviation - a.deviation, samples - 1),
      samples |-> samples]

mean(a) == (a.mean + 32) \div 64
deviation(a) == (a.deviation + 32) \div 64

-----------------------------------------------------------------------------
(* Counter.                                                                *)

NewCounter == [total |-> 0, round |-> 0, rate |-> 0]
add(c, bytes) == [c EXCEPT !.total = @ + bytes, !.round = @ + bytes]
reset(c) ==
  [c EXCEPT !.round = 0, !.rate = (@ * (WEIGHT - 1) + c.round * RATE_UNIT) \div WEIGHT]
avg(c) == (2 * c.rate + RATE_UNIT) \div (2 * RATE_UNIT)

-----------------------------------------------------------------------------
(* SessionContext of a session that is interested in its peer; a target of *)
(* 0 stands for None.                                                      *)

NewContext ==
  [is_choked |-> TRUE, in_slow_start |-> FALSE, target |-> 0, rtt |-> NewAverage,
   timed_out |-> FALSE, down |-> NewCounter, waste |-> NewCounter, changed |-> FALSE]

request_timeout(ctx) == Larger(mean(ctx.rtt) + 4 * deviation(ctx.rtt), MIN_TIMEOUT)

register_request_timeout(ctx) ==
  [ctx EXCEPT !.target = 1, !.timed_out = TRUE, !.in_slow_start = FALSE, !.changed = TRUE]

prepare_for_download(ctx) ==
  [ctx EXCEPT !.in_slow_start = TRUE, !.target = START_REQUEST_QUEUE_LEN]

\* A block that came `elapsed` after the last requests were sent.
update_download_stats(ctx, elapsed) ==
  [ctx EXCEPT !.timed_out = @ /\ elapsed > request_timeout(ctx),
              !.rtt = update(@, elapsed),
              !.down = add(@, BLOCK_LEN),
              !.target = IF ctx.in_slow_start /\ @ > 0 THEN @ + 1 ELSE @,
              !.changed = TRUE]

\* Mutant of record_waste: not marked as a change to report.
record_waste_Unmarked(ctx) == [ctx EXCEPT !.waste = add(@, BLOCK_LEN)]

record_waste(ctx) == [ctx EXCEPT !.waste = add(@, BLOCK_LEN), !.changed = TRUE]

maybe_exit_slow_start(ctx) ==
  [ctx EXCEPT !.in_slow_start =
     @ /\ ~ ( /\ ~ ctx.is_choked /\ ctx.target > 0 /\ ctx.down.round > 0
              /\ ctx.down.round + SLOW_START_ERROR_MARGIN < avg(ctx.down) )]

\* Mutant of update_target_request_queue_len: no least value.
update_target_request_queue_len_Unclamped(ctx) ==
  IF ctx.target = 0 \/ ctx.in_slow_start THEN ctx
  ELSE [ctx EXCEPT !.target = (avg(ctx.down) + BLOCK_LEN - 1) \div BLOCK_LEN]

update_target_request_queue_len(ctx) ==
  IF ctx.target = 0 \/ ctx.in_slow_start THEN ctx
  ELSE [ctx EXCEPT !.target = Larger((avg(ctx.down) + BLOCK_LEN - 1) \div BLOCK_LEN, 1)]

\* The round ends after slow start is checked and before the target is set.
RoundEnded(ctx) ==
  LET c == maybe_exit_slow_start(ctx)
  IN [c EXCEPT !.down = reset(@), !.waste = reset(@), !.changed = FALSE]

\* Mutant of tick: the target follows the rate during a timeout as well.
tick_IgnoresTimeout(ctx) == update_target_request_queue_len(RoundEnded(ctx))

tick(ctx) ==
  IF ctx.timed_out THEN RoundEnded(ctx) ELSE update_target_request_queue_len(RoundEnded(ctx))
=============================================================================
