--------------------------- MODULE AlgorithmProofs ----------------------------
(***************************************************************************)
(* Proofs about the algorithms that are not about files: the numbers by    *)
(* which a session paces its requests (RequestPace), for sessions of any   *)
(* length and round trips of any time, the loop of pick_blocks (PickLoop), *)
(* for tables of any length, and the stream of a peer (PeerCodec), for any *)
(* messages and cut in any way.                                            *)
(* None of the properties of RequestPace is inductive: the target must be  *)
(* known with the requests, the average in fixed point with the samples,   *)
(* and what is not marked as changed with what was sent.                   *)
(***************************************************************************)
EXTENDS RequestPace, PickLoop, PeerCodec, Basics

-----------------------------------------------------------------------------
(* RequestPace: the inductive invariant.                                   *)

Averages == [mean : Nat, deviation : Nat, samples : Nat]
Counters == [total : Nat, round : Nat, rate : Int]
Contexts ==
  [is_choked : BOOLEAN, in_slow_start : BOOLEAN, target : Nat, rtt : Averages,
   timed_out : BOOLEAN, down : Counters, waste : Counters, changed : BOOLEAN]
SessionRecords ==
  [op : {"session"}, ctx : Contexts, outgoing : Nat, late : Nat, since : Nat,
   ended : BOOLEAN, sent : [down : Nat, waste : Nat],
   ticks : Nat, unchokes : Nat, rtts : SUBSET Nat, unchoked : BOOLEAN]

\* A choked session has no request out, an open one always has some, and one
\* that recovers from a timeout asks for a single block at a time.
Pacing(s) ==
  /\ s.ctx.is_choked => s.outgoing = 0
  /\ ~ s.ended /\ ~ s.ctx.is_choked => s.ctx.target >= 1 /\ s.outgoing > 0
  /\ s.ctx.timed_out /\ ~ s.unchoked =>
       s.ctx.target = 1 /\ ~ s.ctx.in_slow_start /\ s.outgoing <= 1

\* The average a, in fixed point, of round trips from l to g.
Between(a, l, g) ==
  64 * l <= a.mean /\ a.mean <= 64 * g /\ a.deviation <= 64 * g - 64 * l /\ a.samples >= 1

Bounds(T, l, g) == l \in T /\ g \in T /\ \A u \in T : l <= u /\ u <= g

Sampling(T, a) ==
  \/ T = {} /\ a = Context!NewAverage
  \/ \E l, g \in T : Bounds(T, l, g) /\ Between(a, l, g)

\* A round not yet over is not sent, and one with bytes is marked.  At the
\* end the last one is sent, perhaps twice.
SentAll(sent, counter, ended) ==
  IF ended THEN sent \in {counter.total, counter.total + counter.round}
           ELSE counter.total = sent + counter.round

Counting(s) ==
  /\ SentAll(s.sent.down, s.ctx.down, s.ended)
  /\ SentAll(s.sent.waste, s.ctx.waste, s.ended)
  /\ ~ s.ended /\ ~ s.ctx.changed => s.ctx.down.round = 0 /\ s.ctx.waste.round = 0

SessionInv(s) ==
  s \in SessionRecords /\ Pacing(s) /\ Sampling(s.rtts, s.ctx.rtt) /\ Counting(s)

PaceInv == result = NotRun \/ SessionInv(result)

-----------------------------------------------------------------------------
(* The average.                                                            *)

(* A truncated division lies between its dividend and zero.                *)
LEMMA QuotientBetween ==
  ASSUME NEW a \in Int, NEW n \in Nat \ {0}
  PROVE  /\ Context!Quotient(a, n) \in Int
         /\ a >= 0 => 0 <= Context!Quotient(a, n) /\ Context!Quotient(a, n) <= a
         /\ a <= 0 => a <= Context!Quotient(a, n) /\ Context!Quotient(a, n) <= 0
<1>1. ASSUME NEW b \in Nat
      PROVE  b \div n \in Int /\ 0 <= b \div n /\ b \div n <= b
  OBVIOUS
<1>2. CASE a < 0
  <2>1. -a \in Nat
    BY <1>2
  <2>2. (-a) \div n \in Int /\ 0 <= (-a) \div n /\ (-a) \div n <= -a
    BY <1>1, <2>1
  <2>. DEFINE q == (-a) \div n
  <2>3. Context!Quotient(a, n) = -q
    BY <1>2 DEF Context!Quotient
  <2>. HIDE DEF q
  <2>. QED BY <1>2, <2>2, <2>3 DEF q
<1>3. CASE ~ (a < 0)
  <2>1. a \in Nat
    BY <1>3
  <2>. QED BY <1>1, <1>3, <2>1 DEF Context!Quotient
<1>. QED BY <1>2, <1>3

(* The constants, by the kind of number that each is.                      *)
LEMMA PaceConstants ==
  /\ BLOCK_LEN \in Nat \ {0} /\ START_REQUEST_QUEUE_LEN \in Nat \ {0}
  /\ WEIGHT \in Nat \ {0} /\ INVERTED_GAIN \in Nat \ {0} /\ RATE_UNIT \in Nat \ {0}
  /\ MIN_TIMEOUT \in Nat /\ SLOW_START_ERROR_MARGIN \in Nat
BY PaceAssumption

(* The first sample is the average: nothing that it started from is left.  *)
LEMMA FirstSample ==
  ASSUME NEW t \in Nat
  PROVE  Context!update(Context!NewAverage, t) = [mean |-> 64 * t, deviation |-> 0, samples |-> 1]
<1>1. Context!Quotient(64 * t - 0, 1) = 64 * t
  BY DEF Context!Quotient
<1>. QED BY <1>1, PaceConstants DEF Context!update, Context!NewAverage

(* A later one moves mean and deviation towards it, and never past it.     *)
LEMMA LaterSample ==
  ASSUME NEW a \in Averages, NEW t \in Nat, NEW l \in Nat, NEW g \in Nat,
         Between(a, l, g), l <= t, t <= g
  PROVE  Context!update(a, t) \in Averages /\ Between(Context!update(a, t), l, g)
<1>. DEFINE n == IF a.samples < INVERTED_GAIN THEN a.samples + 1 ELSE a.samples
            d == Context!Distance(a.mean, 64 * t)
            p == Context!Quotient(64 * t - a.mean, n)
            q == Context!Quotient(d - a.deviation, n - 1)
<1>1. a.mean \in Nat /\ a.deviation \in Nat /\ a.samples \in Nat \ {0}
  BY DEF Averages, Between
<1>2. n \in Nat \ {0}
  BY <1>1, PaceConstants
<1>3. d \in Nat /\ d <= 64 * g - 64 * l
  BY <1>1 DEF Context!Distance, Between
<1>4. Context!update(a, t) =
        [mean |-> a.mean + p, deviation |-> IF n = 1 THEN a.deviation ELSE a.deviation + q, samples |-> n]
  BY <1>1 DEF Context!update
<1>5. /\ p \in Int
      /\ 64 * t - a.mean >= 0 => 0 <= p /\ p <= 64 * t - a.mean
      /\ 64 * t - a.mean <= 0 => 64 * t - a.mean <= p /\ p <= 0
  <2>1. 64 * t - a.mean \in Int
    BY <1>1
  <2>. QED BY <1>2, <2>1, QuotientBetween
<1>6. ASSUME n # 1
      PROVE  /\ q \in Int
             /\ d - a.deviation >= 0 => 0 <= q /\ q <= d - a.deviation
             /\ d - a.deviation <= 0 => d - a.deviation <= q /\ q <= 0
  <2>1. d - a.deviation \in Int /\ n - 1 \in Nat \ {0}
    BY <1>1, <1>2, <1>3, <1>6
  <2>. QED BY <2>1, QuotientBetween
<1>. HIDE DEF n, d, p, q
<1>. DEFINE b == Context!update(a, t)
<1>7. b.mean = a.mean + p /\ b.deviation = (IF n = 1 THEN a.deviation ELSE a.deviation + q) /\ b.samples = n
  BY <1>4
<1>8. b.mean \in Nat /\ 64 * l <= b.mean /\ b.mean <= 64 * g
  BY <1>1, <1>5, <1>7 DEF Between
<1>9. b.deviation \in Nat /\ b.deviation <= 64 * g - 64 * l
  BY <1>1, <1>3, <1>6, <1>7 DEF Between
<1>. QED BY <1>2, <1>4, <1>7, <1>8, <1>9 DEF Averages, Between

(* With one more sample the average lies between the samples again.        *)
LEMMA SampleTaken ==
  ASSUME NEW T, T \subseteq Nat, NEW a \in Averages, Sampling(T, a), NEW t \in Nat
  PROVE  Context!update(a, t) \in Averages /\ Sampling(T \cup {t}, Context!update(a, t))
<1>1. CASE T = {} /\ a = Context!NewAverage
  <2>. DEFINE b == Context!update(a, t)
  <2>1. b = [mean |-> 64 * t, deviation |-> 0, samples |-> 1]
    BY <1>1, FirstSample
  <2>2. T \cup {t} = {t}
    BY <1>1
  <2>3. Bounds({t}, t, t)
    BY DEF Bounds
  <2>4. Between(b, t, t)
    BY <2>1 DEF Between
  <2>. QED BY <2>1, <2>2, <2>3, <2>4 DEF Averages, Sampling
<1>2. CASE \E l, g \in T : Bounds(T, l, g) /\ Between(a, l, g)
  <2>1. PICK l \in T, g \in T : Bounds(T, l, g) /\ Between(a, l, g)
    BY <1>2
  <2>. DEFINE low == IF t < l THEN t ELSE l
              high == IF g < t THEN t ELSE g
  <2>2. low \in Nat /\ high \in Nat /\ low <= t /\ t <= high /\ low <= l /\ g <= high
    OBVIOUS
  <2>3. Bounds(T \cup {t}, low, high)
    BY <2>1 DEF Bounds
  <2>4. Between(a, low, high)
    BY <2>1, <2>2 DEF Between, Averages
  <2>. HIDE DEF low, high
  <2>5. Context!update(a, t) \in Averages /\ Between(Context!update(a, t), low, high)
    BY <2>2, <2>4, LaterSample
  <2>6. low \in T \cup {t} /\ high \in T \cup {t}
    BY <2>3 DEF Bounds
  <2>. QED BY <2>3, <2>5, <2>6 DEF Sampling
<1>. QED BY <1>1, <1>2 DEF Sampling

-----------------------------------------------------------------------------
(* What the methods of SessionContext leave.                               *)

(* The rate of a counter stays a number, whatever it is weighed with.      *)
LEMMA CounterTyped ==
  ASSUME NEW c \in Counters
  PROVE  /\ Context!reset(c) \in Counters
         /\ Context!reset(c).total = c.total /\ Context!reset(c).round = 0
         /\ Context!add(c, BLOCK_LEN) \in Counters
         /\ Context!add(c, BLOCK_LEN).total = c.total + BLOCK_LEN
         /\ Context!add(c, BLOCK_LEN).round = c.round + BLOCK_LEN
         /\ Context!avg(c) \in Int
<1>1. c.rate \in Int /\ c.round \in Nat /\ c.total \in Nat
  BY DEF Counters
<1>2. c.rate * (WEIGHT - 1) + c.round * RATE_UNIT \in Int
  BY <1>1, PaceConstants
<1>3. (c.rate * (WEIGHT - 1) + c.round * RATE_UNIT) \div WEIGHT \in Int
  BY <1>2, PaceConstants
<1>4. 2 * c.rate + RATE_UNIT \in Int /\ 2 * RATE_UNIT \in Nat \ {0}
  BY <1>1, PaceConstants
<1>5. Context!avg(c) \in Int
  BY <1>4 DEF Context!avg
<1>6. /\ Context!reset(c) \in Counters
      /\ Context!reset(c).total = c.total /\ Context!reset(c).round = 0
  BY <1>1, <1>3 DEF Context!reset, Counters
<1>7. /\ Context!add(c, BLOCK_LEN).total = c.total + BLOCK_LEN
      /\ Context!add(c, BLOCK_LEN).round = c.round + BLOCK_LEN
  BY DEF Context!add, Counters
<1>8. Context!add(c, BLOCK_LEN) \in Counters
  <2>1. c.total + BLOCK_LEN \in Nat /\ c.round + BLOCK_LEN \in Nat
    BY <1>1, PaceConstants
  <2>. QED BY <2>1 DEF Context!add, Counters
<1>. QED BY <1>5, <1>6, <1>7, <1>8

(* The fields of a context.                                                *)
LEMMA ContextFields ==
  ASSUME NEW c \in Contexts
  PROVE  /\ c.is_choked \in BOOLEAN /\ c.in_slow_start \in BOOLEAN /\ c.target \in Nat
         /\ c.rtt \in Averages /\ c.timed_out \in BOOLEAN /\ c.changed \in BOOLEAN
         /\ c.down \in Counters /\ c.waste \in Counters
         /\ c.down.total \in Nat /\ c.down.round \in Nat
         /\ c.waste.total \in Nat /\ c.waste.round \in Nat
BY DEF Contexts, Counters

(* A block counts for the session's rate, and may end a timeout.  Only a   *)
(* session in slow start asks for more from then on.                       *)
LEMMA StatsUpdated ==
  ASSUME NEW c \in Contexts, NEW t \in Nat, Context!update(c.rtt, t) \in Averages
  PROVE  LET d == Context!update_download_stats(c, t)
         IN /\ d \in Contexts
            /\ d.is_choked = c.is_choked /\ d.in_slow_start = c.in_slow_start
            /\ d.timed_out => c.timed_out
            /\ d.target >= c.target /\ (~ c.in_slow_start => d.target = c.target)
            /\ d.rtt = Context!update(c.rtt, t)
            /\ d.down.total = c.down.total + BLOCK_LEN /\ d.down.round = c.down.round + BLOCK_LEN
            /\ d.waste = c.waste /\ d.changed
<1>. DEFINE d == Context!update_download_stats(c, t)
            late == c.timed_out /\ t > Context!request_timeout(c)
            target == IF c.in_slow_start /\ c.target > 0 THEN c.target + 1 ELSE c.target
<1>1. late \in BOOLEAN /\ target \in Nat /\ target >= c.target /\ (~ c.in_slow_start => target = c.target)
  BY ContextFields
<1>2. Context!add(c.down, BLOCK_LEN) \in Counters
  BY ContextFields, CounterTyped
<1>3. /\ d.is_choked = c.is_choked /\ d.in_slow_start = c.in_slow_start /\ d.target = target
      /\ d.rtt = Context!update(c.rtt, t) /\ d.timed_out = late
      /\ d.down = Context!add(c.down, BLOCK_LEN) /\ d.waste = c.waste /\ d.changed
  BY DEF Contexts, Context!update_download_stats
<1>4. d \in Contexts
  BY <1>1, <1>2 DEF Contexts, Context!update_download_stats
<1>. QED BY <1>1, <1>3, <1>4, ContextFields, CounterTyped

(* Waste is counted, and nothing else changes.                             *)
LEMMA WasteRecorded ==
  ASSUME NEW c \in Contexts
  PROVE  LET d == Context!record_waste(c)
         IN /\ d \in Contexts
            /\ d.is_choked = c.is_choked /\ d.in_slow_start = c.in_slow_start
            /\ d.timed_out = c.timed_out /\ d.target = c.target /\ d.rtt = c.rtt
            /\ d.waste.total = c.waste.total + BLOCK_LEN /\ d.waste.round = c.waste.round + BLOCK_LEN
            /\ d.down = c.down /\ d.changed
<1>1. Context!add(c.waste, BLOCK_LEN) \in Counters
  BY ContextFields, CounterTyped
<1>. DEFINE d == Context!record_waste(c)
<1>2. /\ d.is_choked = c.is_choked /\ d.in_slow_start = c.in_slow_start /\ d.target = c.target
      /\ d.rtt = c.rtt /\ d.timed_out = c.timed_out
      /\ d.down = c.down /\ d.waste = Context!add(c.waste, BLOCK_LEN) /\ d.changed
  BY DEF Contexts, Context!record_waste
<1>3. d \in Contexts
  BY <1>1 DEF Contexts, Context!record_waste
<1>. QED BY <1>2, <1>3, ContextFields, CounterTyped

(* A round ends: the counters keep their totals, slow start may end.       *)
LEMMA RoundOver ==
  ASSUME NEW c \in Contexts
  PROVE  LET d == Context!RoundEnded(c)
         IN /\ d \in Contexts
            /\ d.is_choked = c.is_choked /\ (d.in_slow_start => c.in_slow_start)
            /\ d.timed_out = c.timed_out /\ d.target = c.target /\ d.rtt = c.rtt
            /\ d.down.total = c.down.total /\ d.down.round = 0
            /\ d.waste.total = c.waste.total /\ d.waste.round = 0 /\ ~ d.changed
<1>. DEFINE e == Context!maybe_exit_slow_start(c)
            slow == e.in_slow_start
<1>1. slow \in BOOLEAN /\ (slow => c.in_slow_start)
  BY DEF Contexts, Context!maybe_exit_slow_start
<1>2. e = [is_choked |-> c.is_choked, in_slow_start |-> slow, target |-> c.target, rtt |-> c.rtt,
           timed_out |-> c.timed_out, down |-> c.down, waste |-> c.waste, changed |-> c.changed]
  BY DEF Contexts, Context!maybe_exit_slow_start
<1>. HIDE DEF slow
<1>3. Context!RoundEnded(c) =
        [e EXCEPT !.down = Context!reset(@), !.waste = Context!reset(@), !.changed = FALSE]
  BY DEF Context!RoundEnded
<1>. HIDE DEF e
<1>4. Context!RoundEnded(c) =
        [is_choked |-> c.is_choked, in_slow_start |-> slow, target |-> c.target, rtt |-> c.rtt,
         timed_out |-> c.timed_out, down |-> Context!reset(c.down), waste |-> Context!reset(c.waste),
         changed |-> FALSE]
  BY <1>2, <1>3
<1>5. /\ Context!reset(c.down) \in Counters
      /\ Context!reset(c.down).total = c.down.total /\ Context!reset(c.down).round = 0
      /\ Context!reset(c.waste) \in Counters
      /\ Context!reset(c.waste).total = c.waste.total /\ Context!reset(c.waste).round = 0
  BY ContextFields, CounterTyped
<1>. QED BY <1>1, <1>4, <1>5, ContextFields DEF Contexts

(* A tick ends the round, and sets a new target of at least one block,     *)
(* unless a timeout or slow start decides on it.                           *)
LEMMA Ticked ==
  ASSUME NEW c \in Contexts
  PROVE  LET d == Context!tick(c)
         IN /\ d \in Contexts
            /\ d.is_choked = c.is_choked /\ (d.in_slow_start => c.in_slow_start)
            /\ d.timed_out = c.timed_out /\ d.rtt = c.rtt
            /\ c.target >= 1 => d.target >= 1
            /\ c.timed_out => d.target = c.target
            /\ d.down.total = c.down.total /\ d.down.round = 0
            /\ d.waste.total = c.waste.total /\ d.waste.round = 0
<1>. DEFINE e == Context!RoundEnded(c)
            want == Context!Larger((Context!avg(e.down) + BLOCK_LEN - 1) \div BLOCK_LEN, 1)
<1>1. /\ e \in Contexts
      /\ e.is_choked = c.is_choked /\ (e.in_slow_start => c.in_slow_start)
      /\ e.timed_out = c.timed_out /\ e.target = c.target /\ e.rtt = c.rtt
      /\ e.down.total = c.down.total /\ e.down.round = 0
      /\ e.waste.total = c.waste.total /\ e.waste.round = 0
  BY RoundOver
<1>2. want \in Nat /\ want >= 1
  <2>1. Context!avg(e.down) \in Int
    BY <1>1, ContextFields, CounterTyped
  <2>2. Context!avg(e.down) + BLOCK_LEN - 1 \in Int
    BY <2>1, PaceConstants
  <2>3. (Context!avg(e.down) + BLOCK_LEN - 1) \div BLOCK_LEN \in Int
    BY <2>2, PaceConstants
  <2>. QED BY <2>3 DEF Context!Larger
<1>3. CASE c.timed_out \/ e.target = 0 \/ e.in_slow_start
  <2>1. Context!tick(c) = e
    BY <1>3 DEF Context!tick, Context!update_target_request_queue_len
  <2>. HIDE DEF e
  <2>. QED BY <1>1, <2>1
<1>4. CASE ~ (c.timed_out \/ e.target = 0 \/ e.in_slow_start)
  <2>1. Context!tick(c) = [e EXCEPT !.target = want]
    BY <1>4 DEF Context!tick, Context!update_target_request_queue_len
  <2>. HIDE DEF e, want
  <2>. DEFINE d == Context!tick(c)
  <2>2. /\ d \in Contexts /\ d.is_choked = e.is_choked /\ d.in_slow_start = e.in_slow_start
        /\ d.timed_out = e.timed_out /\ d.rtt = e.rtt /\ d.target = want
        /\ d.down = e.down /\ d.waste = e.waste
    BY <1>1, <1>2, <2>1 DEF Contexts
  <2>. QED BY <1>1, <1>2, <1>4, <2>2
<1>. QED BY <1>3, <1>4

-----------------------------------------------------------------------------
(* The steps of a session.                                                 *)

(* The fields of a session.                                                *)
LEMMA SessionFields ==
  ASSUME NEW s \in SessionRecords
  PROVE  /\ s.op = "session" /\ s.ctx \in Contexts
         /\ s.outgoing \in Nat /\ s.late \in Nat /\ s.since \in Nat
         /\ s.ended \in BOOLEAN /\ s.unchoked \in BOOLEAN
         /\ s.sent \in [down : Nat, waste : Nat]
         /\ s.sent.down \in Nat /\ s.sent.waste \in Nat
         /\ s.ticks \in Nat /\ s.unchokes \in Nat /\ s.rtts \subseteq Nat
BY DEF SessionRecords

\* What makes a session ready for make_requests: all of the invariant but
\* the requests themselves, for which it needs a target.
Ready(s) ==
  /\ s \in SessionRecords /\ ~ s.ended
  /\ s.ctx.is_choked => s.outgoing = 0
  /\ ~ s.ctx.is_choked => s.ctx.target >= 1
  /\ s.ctx.timed_out /\ ~ s.unchoked =>
       s.ctx.target = 1 /\ ~ s.ctx.in_slow_start /\ s.outgoing <= 1
  /\ Sampling(s.rtts, s.ctx.rtt)
  /\ Counting(s)

(* A live session of the invariant is ready.                               *)
LEMMA InvReady ==
  ASSUME NEW s, SessionInv(s), ~ s.ended
  PROVE  Ready(s)
BY DEF SessionInv, Pacing, Ready

(* make_requests brings a session that is ready back into the invariant:   *)
(* with a target it leaves a request out.                                  *)
LEMMA RequestedInv ==
  ASSUME NEW s, Ready(s)
  PROVE  SessionInv(Requested(s)) /\ ~ Requested(s).ended
<1>. DEFINE r == Requested(s)
<1>1. s \in SessionRecords /\ ~ s.ended
  BY DEF Ready
<1>2. /\ s.ctx \in Contexts /\ s.ctx.target \in Nat /\ s.outgoing \in Nat
      /\ s.ctx.is_choked \in BOOLEAN
  BY <1>1, SessionFields, ContextFields
<1>3. /\ r \in SessionRecords /\ r.ctx = s.ctx /\ r.ended = s.ended /\ r.sent = s.sent
      /\ r.rtts = s.rtts /\ r.unchoked = s.unchoked
  BY <1>1, <1>2 DEF Requested, SessionRecords
<1>4. r.outgoing = IF s.ctx.is_choked \/ s.outgoing >= s.ctx.target THEN s.outgoing ELSE s.ctx.target
  BY <1>1 DEF Requested, SessionRecords
<1>5. Pacing(r)
  BY <1>1, <1>2, <1>3, <1>4 DEF Ready, Pacing
<1>6. Sampling(r.rtts, r.ctx.rtt)
  BY <1>3 DEF Ready
<1>7. Counting(r)
  BY <1>3 DEF Ready, Counting, SentAll
<1>. QED BY <1>1, <1>3, <1>5, <1>6, <1>7 DEF SessionInv

(* A session starts choked, with nothing requested, sampled or sent.       *)
LEMMA NewSessionInv == SessionInv(NewSession)
<1>1. Context!NewContext \in Contexts
  BY DEF Context!NewContext, Context!NewAverage, Context!NewCounter, Contexts, Averages, Counters
<1>2. NewSession \in SessionRecords
  BY <1>1 DEF NewSession, SessionRecords
<1>3. Pacing(NewSession)
  BY DEF NewSession, Pacing, Context!NewContext
<1>4. Sampling(NewSession.rtts, NewSession.ctx.rtt)
  BY DEF NewSession, Sampling, Context!NewContext
<1>5. Counting(NewSession)
  BY DEF NewSession, Counting, SentAll, Context!NewContext, Context!NewCounter
<1>. QED BY <1>2, <1>3, <1>4, <1>5 DEF SessionInv

(* An unchoke gives a session a target to request up to.                   *)
LEMMA UnchokeKeeps ==
  ASSUME SessionInv(result), Unchoke
  PROVE  SessionInv(result')
<1>. DEFINE c == result.ctx
            d == Context!prepare_for_download([c EXCEPT !.is_choked = FALSE, !.changed = TRUE])
            s == [result EXCEPT !.ctx = d, !.unchokes = @ + 1, !.unchoked = result.ctx.timed_out]
<1>1. result \in SessionRecords /\ ~ result.ended /\ c.is_choked /\ c \in Contexts
  BY SessionFields DEF SessionInv, Unchoke, InSession
<1>2. [c EXCEPT !.is_choked = FALSE, !.changed = TRUE] \in Contexts
  BY <1>1 DEF Contexts
<1>3. d \in Contexts
  BY <1>2, PaceConstants DEF Context!prepare_for_download, Contexts
<1>4. /\ ~ d.is_choked /\ d.target = START_REQUEST_QUEUE_LEN /\ d.rtt = c.rtt
      /\ d.timed_out = c.timed_out /\ d.down = c.down /\ d.waste = c.waste /\ d.changed
  BY <1>1 DEF Context!prepare_for_download, Contexts
<1>5. c.timed_out \in BOOLEAN
  BY <1>1, ContextFields
<1>6. result' = Requested(s)
  BY DEF Unchoke
<1>. HIDE DEF d
<1>7. s \in SessionRecords
  <2>1. result.unchokes + 1 \in Nat
    BY <1>1, SessionFields
  <2>. QED BY <1>1, <1>3, <1>5, <2>1 DEF SessionRecords
<1>8. /\ s.ctx = d /\ s.outgoing = result.outgoing /\ s.ended = result.ended /\ s.rtts = result.rtts
      /\ s.sent = result.sent /\ s.unchoked = c.timed_out
  BY <1>1 DEF SessionRecords
<1>. HIDE DEF s, c
<1>9. Ready(s)
  <2>1. result.outgoing = 0
    BY <1>1 DEF SessionInv, Pacing, c
  <2>2. Sampling(s.rtts, s.ctx.rtt)
    BY <1>4, <1>8 DEF SessionInv, c
  <2>3. Counting(s)
    BY <1>1, <1>4, <1>8 DEF SessionInv, Counting, SentAll, c
  <2>. QED BY <1>1, <1>4, <1>7, <1>8, <2>1, <2>2, <2>3, PaceConstants DEF Ready
<1>. QED BY <1>6, <1>9, RequestedInv

(* Giving up the requests leaves none, and changes nothing else.           *)
LEMMA GivenUpFields ==
  ASSUME NEW s \in SessionRecords
  PROVE  LET r == GivenUp(s)
         IN /\ r \in SessionRecords /\ r.ctx = s.ctx /\ r.outgoing = 0 /\ r.ended = s.ended
            /\ r.sent = s.sent /\ r.rtts = s.rtts /\ r.unchoked = s.unchoked
<1>1. s.late + s.outgoing \in Nat
  BY SessionFields
<1>2. GivenUp(s) \in SessionRecords
  BY <1>1 DEF GivenUp, SessionRecords
<1>3. LET r == GivenUp(s)
      IN /\ r.ctx = s.ctx /\ r.outgoing = 0 /\ r.ended = s.ended
         /\ r.sent = s.sent /\ r.rtts = s.rtts /\ r.unchoked = s.unchoked
  BY DEF GivenUp, SessionRecords
<1>. QED BY <1>2, <1>3

(* A choke gives all requests up.                                          *)
LEMMA ChokeKeeps ==
  ASSUME SessionInv(result), Choke
  PROVE  SessionInv(result')
<1>. DEFINE c == result.ctx
            g == GivenUp(result)
            d == [c EXCEPT !.is_choked = TRUE, !.changed = TRUE]
<1>1. result \in SessionRecords /\ ~ result.ended /\ c \in Contexts
  BY SessionFields DEF SessionInv, Choke, InSession
<1>2. /\ g \in SessionRecords /\ g.ctx = c /\ g.outgoing = 0 /\ g.ended = result.ended
      /\ g.sent = result.sent /\ g.rtts = result.rtts /\ g.unchoked = result.unchoked
  BY <1>1, GivenUpFields
<1>3. d \in Contexts
  BY <1>1 DEF Contexts
<1>4. /\ d.is_choked /\ d.target = c.target /\ d.rtt = c.rtt /\ d.in_slow_start = c.in_slow_start
      /\ d.timed_out = c.timed_out /\ d.down = c.down /\ d.waste = c.waste /\ d.changed
  BY <1>1 DEF Contexts
<1>5. result' = [g EXCEPT !.ctx = d]
  <2>1. result' = [g EXCEPT !.ctx = [@ EXCEPT !.is_choked = TRUE, !.changed = TRUE]]
    BY DEF Choke
  <2>. HIDE DEF g
  <2>. QED BY <1>2, <2>1
<1>. HIDE DEF g, d
<1>6. result' \in SessionRecords
  BY <1>2, <1>3, <1>5 DEF SessionRecords
<1>7. /\ result'.ctx = d /\ result'.outgoing = 0 /\ result'.ended = result.ended
      /\ result'.sent = result.sent /\ result'.rtts = result.rtts
      /\ result'.unchoked = result.unchoked
  BY <1>2, <1>5 DEF SessionRecords
<1>8. Pacing(result')
  BY <1>4, <1>7 DEF SessionInv, Pacing
<1>9. Counting(result')
  BY <1>1, <1>4, <1>7 DEF SessionInv, Counting, SentAll
<1>. QED BY <1>4, <1>6, <1>7, <1>8, <1>9 DEF SessionInv

(* A block comes: one request less, or one block less that may come late.  *)
(* The invariant needs a session ready for more requests whatever became   *)
(* of the block.                                                           *)
LEMMA BlockReady ==
  ASSUME NEW s, Ready(s), NEW new \in BOOLEAN
  PROVE  Ready(IF new THEN [s EXCEPT !.ctx = Context!update_download_stats(@, s.since),
                                     !.rtts = @ \cup {s.since}]
                      ELSE [s EXCEPT !.ctx = Context!record_waste(@)])
<1>. DEFINE c == s.ctx
<1>1. /\ s \in SessionRecords /\ ~ s.ended /\ c \in Contexts /\ c.rtt \in Averages
      /\ s.since \in Nat /\ s.rtts \subseteq Nat /\ s.outgoing \in Nat
      /\ c.target \in Nat /\ c.in_slow_start \in BOOLEAN
  BY SessionFields, ContextFields DEF Ready
<1>2. ASSUME NEW d \in Contexts, NEW T \in SUBSET Nat, NEW r,
             r \in SessionRecords, r.ctx = d, r.rtts = T, r.outgoing = s.outgoing, r.ended = s.ended,
             r.sent = s.sent, r.unchoked = s.unchoked,
             d.is_choked = c.is_choked, d.in_slow_start = c.in_slow_start,
             d.timed_out => c.timed_out,
             d.target >= c.target, ~ c.in_slow_start => d.target = c.target,
             Sampling(T, d.rtt), Counting(r)
      PROVE  Ready(r)
  <2>1. d.target \in Nat
    BY ContextFields
  <2>. QED BY <1>1, <1>2, <2>1 DEF Ready
<1>3. CASE new
  <2>. DEFINE d == Context!update_download_stats(c, s.since)
              T == s.rtts \cup {s.since}
              r == [s EXCEPT !.ctx = d, !.rtts = T]
  <2>1. Context!update(c.rtt, s.since) \in Averages /\ Sampling(T, Context!update(c.rtt, s.since))
    BY <1>1, SampleTaken DEF Ready
  <2>2. /\ d \in Contexts
        /\ d.is_choked = c.is_choked /\ d.in_slow_start = c.in_slow_start
        /\ d.timed_out => c.timed_out
        /\ d.target >= c.target /\ (~ c.in_slow_start => d.target = c.target)
        /\ d.rtt = Context!update(c.rtt, s.since)
        /\ d.down.total = c.down.total + BLOCK_LEN /\ d.down.round = c.down.round + BLOCK_LEN
        /\ d.waste = c.waste /\ d.changed
    BY <1>1, <2>1, StatsUpdated
  <2>3. T \in SUBSET Nat
    BY <1>1
  <2>. HIDE DEF d, T
  <2>4. r \in SessionRecords
    BY <1>1, <2>2, <2>3 DEF SessionRecords
  <2>5. /\ r.ctx = d /\ r.rtts = T /\ r.outgoing = s.outgoing /\ r.ended = s.ended
        /\ r.sent = s.sent /\ r.unchoked = s.unchoked
    BY <1>1 DEF SessionRecords
  <2>. HIDE DEF r
  <2>6. Counting(r)
    <3>1. /\ c.down.total = s.sent.down + c.down.round
          /\ c.waste.total = s.sent.waste + c.waste.round
      BY <1>1 DEF Ready, Counting, SentAll
    <3>. QED BY <1>1, <2>2, <2>5, <3>1, SessionFields, ContextFields, PaceConstants DEF Counting, SentAll
  <2>7. Ready(r)
    BY <1>2, <2>1, <2>2, <2>3, <2>4, <2>5, <2>6
  <2>. QED BY <1>3, <2>7 DEF r, d, T
<1>4. CASE ~ new
  <2>. DEFINE d == Context!record_waste(c)
              r == [s EXCEPT !.ctx = d]
  <2>1. /\ d \in Contexts
        /\ d.is_choked = c.is_choked /\ d.in_slow_start = c.in_slow_start
        /\ d.timed_out = c.timed_out /\ d.target = c.target /\ d.rtt = c.rtt
        /\ d.waste.total = c.waste.total + BLOCK_LEN /\ d.waste.round = c.waste.round + BLOCK_LEN
        /\ d.down = c.down /\ d.changed
    BY <1>1, WasteRecorded
  <2>. HIDE DEF d
  <2>2. r \in SessionRecords
    BY <1>1, <2>1 DEF SessionRecords
  <2>3. /\ r.ctx = d /\ r.rtts = s.rtts /\ r.outgoing = s.outgoing /\ r.ended = s.ended
        /\ r.sent = s.sent /\ r.unchoked = s.unchoked
    BY <1>1 DEF SessionRecords
  <2>. HIDE DEF r
  <2>4. Counting(r)
    <3>1. /\ c.down.total = s.sent.down + c.down.round
          /\ c.waste.total = s.sent.waste + c.waste.round
      BY <1>1 DEF Ready, Counting, SentAll
    <3>. QED BY <1>1, <2>1, <2>3, <3>1, SessionFields, ContextFields, PaceConstants DEF Counting, SentAll
  <2>5. Sampling(s.rtts, d.rtt)
    BY <2>1 DEF Ready
  <2>6. d.target >= c.target
    BY <1>1, <2>1
  <2>7. Ready(r)
    BY <1>1, <1>2, <2>1, <2>2, <2>3, <2>4, <2>5, <2>6
  <2>. QED BY <1>4, <2>7 DEF r, d
<1>. QED BY <1>3, <1>4

(* Whatever block comes, asked for or late, the session requests again.    *)
LEMMA BlockKeeps ==
  ASSUME SessionInv(result), NEW asked \in BOOLEAN, NEW new \in BOOLEAN, Block(asked, new)
  PROVE  SessionInv(result')
<1>. DEFINE s == IF asked THEN [result EXCEPT !.outgoing = @ - 1] ELSE [result EXCEPT !.late = @ - 1]
<1>1. result \in SessionRecords /\ ~ result.ended /\ Ready(result)
  BY InvReady DEF SessionInv, Block, InSession
<1>2. result.outgoing \in Nat /\ result.late \in Nat
  BY <1>1, SessionFields
<1>3. Ready(s)
  <2>1. CASE asked
    <3>1. result.outgoing > 0
      BY <2>1 DEF Block
    <3>2. result.outgoing - 1 \in Nat
      BY <1>2, <3>1
    <3>3. s = [result EXCEPT !.outgoing = result.outgoing - 1]
      BY <2>1
    <3>. HIDE DEF s
    <3>4. s \in SessionRecords
      BY <1>1, <3>2, <3>3 DEF SessionRecords
    <3>5. /\ s.ctx = result.ctx /\ s.outgoing = result.outgoing - 1 /\ s.ended = result.ended
          /\ s.rtts = result.rtts /\ s.sent = result.sent /\ s.unchoked = result.unchoked
      BY <1>1, <3>3 DEF SessionRecords
    <3>. QED BY <1>1, <1>2, <3>1, <3>4, <3>5 DEF Ready, Counting, SentAll
  <2>2. CASE ~ asked
    <3>1. result.late > 0
      BY <2>2 DEF Block
    <3>2. result.late - 1 \in Nat
      BY <1>2, <3>1
    <3>3. s = [result EXCEPT !.late = result.late - 1]
      BY <2>2
    <3>. HIDE DEF s
    <3>4. s \in SessionRecords
      BY <1>1, <3>2, <3>3 DEF SessionRecords
    <3>5. /\ s.ctx = result.ctx /\ s.outgoing = result.outgoing /\ s.ended = result.ended
          /\ s.rtts = result.rtts /\ s.sent = result.sent /\ s.unchoked = result.unchoked
      BY <1>1, <3>3 DEF SessionRecords
    <3>. QED BY <1>1, <3>4, <3>5 DEF Ready, Counting, SentAll
  <2>. QED BY <2>1, <2>2
<1>. HIDE DEF s
<1>. DEFINE r == IF new THEN [s EXCEPT !.ctx = Context!update_download_stats(@, s.since),
                                       !.rtts = @ \cup {s.since}]
                        ELSE [s EXCEPT !.ctx = Context!record_waste(@)]
<1>4. result' = Requested(r)
  BY DEF Block, s
<1>5. Ready(r)
  BY <1>3, BlockReady
<1>. HIDE DEF r
<1>. QED BY <1>4, <1>5, RequestedInv

(* A timeout leaves a single request.  A choked session has none that      *)
(* could time out.                                                         *)
LEMMA TimedOutInv ==
  ASSUME NEW s, SessionInv(s), ~ s.ended
  PROVE  SessionInv(TimedOut(s)) /\ ~ TimedOut(s).ended
<1>1. CASE s.outgoing = 0 \/ s.since <= Context!request_timeout(s.ctx)
  BY <1>1 DEF TimedOut
<1>2. CASE ~ (s.outgoing = 0 \/ s.since <= Context!request_timeout(s.ctx))
  <2>. DEFINE c == s.ctx
              g == GivenUp(s)
              d == Context!register_request_timeout(c)
              r == [g EXCEPT !.ctx = d, !.unchoked = FALSE]
  <2>1. s \in SessionRecords /\ c \in Contexts
    BY SessionFields DEF SessionInv
  <2>2. /\ g \in SessionRecords /\ g.ctx = c /\ g.outgoing = 0 /\ g.ended = s.ended
        /\ g.sent = s.sent /\ g.rtts = s.rtts /\ g.unchoked = s.unchoked
    BY <2>1, GivenUpFields
  <2>3. d \in Contexts
    BY <2>1 DEF Context!register_request_timeout, Contexts
  <2>4. /\ d.is_choked = c.is_choked /\ d.target = 1 /\ d.timed_out /\ ~ d.in_slow_start
        /\ d.rtt = c.rtt /\ d.down = c.down /\ d.waste = c.waste /\ d.changed
    BY <2>1 DEF Context!register_request_timeout, Contexts
  <2>5. TimedOut(s) = Requested(r)
    <3>1. TimedOut(s) = Requested([g EXCEPT !.ctx = Context!register_request_timeout(@), !.unchoked = FALSE])
      BY <1>2 DEF TimedOut
    <3>. HIDE DEF g
    <3>. QED BY <2>2, <3>1
  <2>. HIDE DEF g, d
  <2>6. r \in SessionRecords
    BY <2>2, <2>3 DEF SessionRecords
  <2>7. /\ r.ctx = d /\ r.outgoing = 0 /\ r.ended = s.ended /\ r.rtts = s.rtts
        /\ r.sent = s.sent /\ ~ r.unchoked
    BY <2>2 DEF SessionRecords
  <2>. HIDE DEF r
  <2>8. Sampling(r.rtts, r.ctx.rtt)
    BY <2>4, <2>7 DEF SessionInv
  <2>9. Counting(r)
    BY <2>4, <2>7 DEF SessionInv, Counting, SentAll
  <2>10. Ready(r)
    BY <2>4, <2>6, <2>7, <2>8, <2>9 DEF Ready
  <2>. QED BY <2>5, <2>10, RequestedInv
<1>. QED BY <1>1, <1>2

(* A tick reports what has changed before it ends the round.               *)
LEMMA TickKeeps ==
  ASSUME SessionInv(result), TickSession
  PROVE  SessionInv(result')
<1>. DEFINE later == [result EXCEPT !.ticks = @ + 1, !.since = @ + 1]
            s == TimedOut(later)
            told == IF s.ctx.changed THEN Report(s) ELSE s
            c == s.ctx
            d == Context!tick(c)
<1>1. result \in SessionRecords /\ ~ result.ended
  BY DEF SessionInv, TickSession, InSession
<1>2. SessionInv(later) /\ ~ later.ended
  <2>1. result.ticks + 1 \in Nat /\ result.since + 1 \in Nat
    BY <1>1, SessionFields
  <2>2. later \in SessionRecords
    BY <1>1, <2>1 DEF SessionRecords
  <2>3. /\ later.ctx = result.ctx /\ later.outgoing = result.outgoing /\ later.ended = result.ended
        /\ later.rtts = result.rtts /\ later.sent = result.sent
        /\ later.unchoked = result.unchoked
    BY <1>1 DEF SessionRecords
  <2>. HIDE DEF later
  <2>. QED BY <1>1, <2>2, <2>3 DEF SessionInv, Pacing, Counting, SentAll
<1>. HIDE DEF later
<1>3. SessionInv(s) /\ ~ s.ended
  BY <1>2, TimedOutInv
<1>4. result' = [told EXCEPT !.ctx = Context!tick(@)]
  BY DEF TickSession, later
<1>. HIDE DEF s
<1>5. s \in SessionRecords /\ c \in Contexts
  BY <1>3, SessionFields DEF SessionInv
<1>6. /\ told \in SessionRecords /\ told.ctx = c /\ told.outgoing = s.outgoing /\ told.ended = s.ended
      /\ told.rtts = s.rtts /\ told.unchoked = s.unchoked
      /\ told.sent.down = c.down.total /\ told.sent.waste = c.waste.total
  <2>1. CASE c.changed
    <3>. DEFINE down == s.sent.down + c.down.round
                waste == s.sent.waste + c.waste.round
                sums == [down |-> down, waste |-> waste]
    <3>1. down = c.down.total /\ waste = c.waste.total
      BY <1>3 DEF SessionInv, Counting, SentAll
    <3>2. down \in Nat /\ waste \in Nat
      BY <1>5, SessionFields, ContextFields
    <3>3. told = [s EXCEPT !.sent = sums]
      BY <1>5, <2>1, SessionFields DEF Report
    <3>4. sums \in [down : Nat, waste : Nat] /\ sums.down = down /\ sums.waste = waste
      BY <3>2
    <3>. HIDE DEF sums, down, waste, told
    <3>. QED BY <1>5, <3>1, <3>3, <3>4 DEF SessionRecords
  <2>2. CASE ~ c.changed
    <3>1. c.down.round = 0 /\ c.waste.round = 0
      BY <1>3, <2>2 DEF SessionInv, Counting, SentAll
    <3>2. s.sent.down = c.down.total /\ s.sent.waste = c.waste.total
      BY <1>3, <1>5, <3>1, SessionFields, ContextFields DEF SessionInv, Counting, SentAll
    <3>. QED BY <1>5, <2>2, <3>2
  <2>. QED BY <2>1, <2>2
<1>7. /\ d \in Contexts
      /\ d.is_choked = c.is_choked /\ (d.in_slow_start => c.in_slow_start)
      /\ d.timed_out = c.timed_out /\ d.rtt = c.rtt
      /\ c.target >= 1 => d.target >= 1
      /\ c.timed_out => d.target = c.target
      /\ d.down.total = c.down.total /\ d.down.round = 0
      /\ d.waste.total = c.waste.total /\ d.waste.round = 0
  BY <1>5, Ticked
<1>. HIDE DEF told
<1>8. result' = [told EXCEPT !.ctx = d]
  BY <1>4, <1>6
<1>. HIDE DEF d, c
<1>9. result' \in SessionRecords
  BY <1>6, <1>7, <1>8 DEF SessionRecords
<1>10. /\ result'.ctx = d /\ result'.outgoing = s.outgoing /\ result'.ended = s.ended
       /\ result'.rtts = s.rtts /\ result'.unchoked = s.unchoked
       /\ result'.sent.down = c.down.total /\ result'.sent.waste = c.waste.total
  BY <1>6, <1>8 DEF SessionRecords
<1>11. Pacing(result')
  BY <1>3, <1>7, <1>10 DEF SessionInv, Pacing, c
<1>12. Counting(result')
  <2>1. c.down.total \in Nat /\ c.waste.total \in Nat
    BY <1>5, ContextFields
  <2>. QED BY <1>3, <1>7, <1>10, <2>1 DEF Counting, SentAll
<1>13. Sampling(result'.rtts, result'.ctx.rtt)
  BY <1>3, <1>7, <1>10 DEF SessionInv, c
<1>. QED BY <1>9, <1>11, <1>12, <1>13 DEF SessionInv

(* A report sends the round under way and leaves the session as it is.     *)
LEMMA ReportFacts ==
  ASSUME NEW s \in SessionRecords
  PROVE  /\ Report(s) \in SessionRecords /\ Report(s).ctx = s.ctx
         /\ Report(s).sent = [down |-> s.sent.down + s.ctx.down.round,
                              waste |-> s.sent.waste + s.ctx.waste.round]
<1>. DEFINE sums == [down |-> s.sent.down + s.ctx.down.round,
                     waste |-> s.sent.waste + s.ctx.waste.round]
<1>1. s.ctx \in Contexts /\ s.sent \in [down : Nat, waste : Nat]
  BY SessionFields DEF SessionRecords
<1>2. s.ctx.down.round \in Nat /\ s.ctx.waste.round \in Nat
  BY <1>1, ContextFields
<1>3. sums \in [down : Nat, waste : Nat]
  BY <1>1, <1>2
<1>4. Report(s) = [s EXCEPT !.sent = sums]
  BY DEF Report, SessionRecords
<1>. HIDE DEF sums
<1>. QED BY <1>3, <1>4 DEF SessionRecords, sums

(* The end sends the round that was not over, once or twice.               *)
LEMMA EndKeeps ==
  ASSUME SessionInv(result), EndSession
  PROVE  SessionInv(result')
<1>. DEFINE c == result.ctx
            n == Context!NewContext
            d == [n EXCEPT !.down = c.down, !.waste = c.waste]
<1>1. result \in SessionRecords /\ ~ result.ended /\ c \in Contexts
  BY SessionFields DEF SessionInv, EndSession, InSession
<1>0. PICK told \in {Report(result), Report(Report(result))} :
        result' = [NewSession EXCEPT !.ended = TRUE, !.sent = told.sent,
                     !.ctx = [@ EXCEPT !.down = c.down, !.waste = c.waste]]
  BY DEF EndSession
<1>. DEFINE sums == told.sent
            r == [NewSession EXCEPT !.ended = TRUE, !.sent = sums, !.ctx = d]
<1>2. /\ sums \in [down : Nat, waste : Nat]
      /\ SentAll(sums.down, c.down, TRUE) /\ SentAll(sums.waste, c.waste, TRUE)
  <2>1. /\ Report(result) \in SessionRecords
        /\ Report(result).ctx = c
        /\ Report(result).sent = [down |-> result.sent.down + c.down.round,
                                  waste |-> result.sent.waste + c.waste.round]
    BY <1>1, ReportFacts
  <2>2. /\ Report(Report(result)) \in SessionRecords
        /\ Report(Report(result)).sent =
             [down |-> Report(result).sent.down + c.down.round,
              waste |-> Report(result).sent.waste + c.waste.round]
    BY <2>1, ReportFacts
  <2>3. /\ c.down.total = result.sent.down + c.down.round
        /\ c.waste.total = result.sent.waste + c.waste.round
    BY <1>1 DEF SessionInv, Counting, SentAll
  <2>4. /\ c.down.total \in Nat /\ c.waste.total \in Nat
        /\ c.down.round \in Nat /\ c.waste.round \in Nat
    BY <1>1, ContextFields
  <2>5. Report(result).sent = [down |-> c.down.total, waste |-> c.waste.total]
    BY <2>1, <2>3
  <2>6. Report(Report(result)).sent =
          [down |-> c.down.total + c.down.round, waste |-> c.waste.total + c.waste.round]
    BY <2>2, <2>5
  <2>. HIDE DEF c
  <2>7. \/ told.sent = [down |-> c.down.total, waste |-> c.waste.total]
        \/ told.sent = [down |-> c.down.total + c.down.round, waste |-> c.waste.total + c.waste.round]
    BY <2>5, <2>6
  <2>. QED BY <2>4, <2>7 DEF SentAll
<1>3. NewSession \in SessionRecords /\ NewSession.ctx = n /\ Sampling(NewSession.rtts, n.rtt)
  <2>1. NewSession.ctx = n
    BY DEF NewSession
  <2>. QED BY <2>1, NewSessionInv DEF SessionInv
<1>4. n \in Contexts /\ n.is_choked /\ ~ n.timed_out
  <2>1. n \in Contexts
    BY <1>3, SessionFields
  <2>. QED BY <2>1 DEF Context!NewContext
<1>5. result' = r
  <2>. HIDE DEF c, n
  <2>. QED BY <1>3, <1>0
<1>6. c.down \in Counters /\ c.waste \in Counters
  BY <1>1, ContextFields
<1>. HIDE DEF sums, n, c
<1>7. /\ d \in Contexts /\ d.is_choked /\ ~ d.timed_out /\ d.rtt = n.rtt
      /\ d.down = c.down /\ d.waste = c.waste
  BY <1>4, <1>6 DEF Contexts
<1>. HIDE DEF d
<1>8. r \in SessionRecords
  BY <1>2, <1>3, <1>7 DEF SessionRecords
<1>9. /\ r.ctx = d /\ r.ended = TRUE /\ r.sent = sums /\ r.outgoing = NewSession.outgoing
      /\ r.rtts = NewSession.rtts
  BY <1>3 DEF SessionRecords
<1>. HIDE DEF r
<1>10. Pacing(r)
  <2>1. NewSession.outgoing = 0
    BY DEF NewSession
  <2>. QED BY <1>7, <1>9, <2>1 DEF Pacing
<1>11. Counting(r)
  BY <1>2, <1>7, <1>9 DEF Counting, SentAll
<1>12. Sampling(r.rtts, r.ctx.rtt)
  BY <1>3, <1>7, <1>9
<1>. QED BY <1>5, <1>8, <1>10, <1>11, <1>12 DEF SessionInv

(* Every step of a session keeps the invariant.                            *)
LEMMA StepInv == PaceInv /\ [PaceNext]_vars => PaceInv'
<1>. SUFFICES ASSUME PaceInv, [PaceNext]_vars
              PROVE  PaceInv'
  OBVIOUS
<1>1. CASE UNCHANGED vars
  BY <1>1 DEF vars, PaceInv
<1>2. CASE StartSession
  BY <1>2, NewSessionInv DEF StartSession, PaceInv
<1>3. ASSUME InSession
      PROVE  SessionInv(result)
  BY <1>3 DEF InSession, PaceInv, NotRun
<1>4. CASE Unchoke
  BY <1>3, <1>4, UnchokeKeeps DEF Unchoke, PaceInv
<1>5. CASE Choke
  BY <1>3, <1>5, ChokeKeeps DEF Choke, PaceInv
<1>6. CASE TickSession
  BY <1>3, <1>6, TickKeeps DEF TickSession, PaceInv
<1>7. CASE EndSession
  BY <1>3, <1>7, EndKeeps DEF EndSession, PaceInv
<1>8. ASSUME NEW asked \in BOOLEAN, NEW new \in BOOLEAN, Block(asked, new)
      PROVE  PaceInv'
  BY <1>3, <1>8, BlockKeeps DEF Block, PaceInv
<1>. QED BY <1>1, <1>2, <1>4, <1>5, <1>6, <1>7, <1>8 DEF PaceNext

(* The invariant of a session's numbers, for every length of a session.    *)
THEOREM PaceInvariant == PaceSpec => []PaceInv
<1>1. PaceInit => PaceInv
  BY DEF PaceInit, PaceInv
<1>. QED BY <1>1, StepInv, PTL DEF PaceSpec

-----------------------------------------------------------------------------
(* The properties.                                                         *)

(* After a timeout no second request is out before a block comes in time   *)
(* or the peer unchokes us anew, however many late blocks come.            *)
THEOREM PaceSingleRequest == PaceSpec => []SingleRequestUntilRecovery
<1>1. PaceInv => SingleRequestUntilRecovery
  BY DEF PaceInv, SessionInv, Pacing, SingleRequestUntilRecovery, NotRun
<1>. QED BY <1>1, PaceInvariant, PTL

(* Whatever the rate falls to, an unchoked session has a request out: some *)
(* block or timeout will make it request again.                            *)
THEOREM PacePipelineNeverStalls == PaceSpec => []PipelineNeverStalls
<1>1. PaceInv => PipelineNeverStalls
  BY DEF PaceInv, SessionInv, Pacing, PipelineNeverStalls, InSession, NotRun
<1>. QED BY <1>1, PaceInvariant, PTL

(* What a session has sent to its torrent is what it has counted, but for  *)
(* the round that is not over, which is sent once or twice when it ends.   *)
THEOREM PaceRoundsSent == PaceSpec => []RoundsSent
<1>1. ASSUME SessionInv(result)
      PROVE  RoundsSent
  <2>1. result \in SessionRecords /\ result.ctx \in Contexts
    BY <1>1, SessionFields DEF SessionInv
  <2>2. /\ result.ctx.down.round \in Nat /\ result.ctx.waste.round \in Nat
        /\ result.sent.down \in Nat /\ result.sent.waste \in Nat
    BY <2>1, ContextFields DEF SessionRecords
  <2>. QED BY <1>1, <2>2 DEF SessionInv, Counting, SentAll, RoundsSent
<1>2. PaceInv => RoundsSent
  BY <1>1 DEF PaceInv, RoundsSent, NotRun
<1>. QED BY <1>2, PaceInvariant, PTL

(* Mean, deviation and timeout lie among the round trips that they were    *)
(* computed from, in spite of fixed point and truncation.                  *)
THEOREM PaceAverageWithinSamples == PaceSpec => []AverageWithinSamples
<1>1. PaceInv => AverageWithinSamples
  <2>. SUFFICES ASSUME PaceInv, result.op = "session", result.rtts # {}
                PROVE  LET least == CHOOSE t \in result.rtts : \A u \in result.rtts : t <= u
                           greatest == CHOOSE t \in result.rtts : \A u \in result.rtts : u <= t
                       IN /\ Context!mean(result.ctx.rtt) \in least .. greatest
                          /\ Context!deviation(result.ctx.rtt) \in 0 .. greatest - least
                          /\ Context!request_timeout(result.ctx) \in
                               least .. Context!Larger(greatest + 4 * (greatest - least), MIN_TIMEOUT)
    BY DEF AverageWithinSamples
  <2>. DEFINE T == result.rtts
              a == result.ctx.rtt
              least == CHOOSE t \in T : \A u \in T : t <= u
              greatest == CHOOSE t \in T : \A u \in T : u <= t
              m == Context!mean(a)
              v == Context!deviation(a)
  <2>1. SessionInv(result)
    BY DEF PaceInv, NotRun
  <2>2. T \subseteq Nat /\ a \in Averages
    BY <2>1, SessionFields, ContextFields DEF SessionInv
  <2>3. PICK l \in T, g \in T : Bounds(T, l, g) /\ Between(a, l, g)
    BY <2>1 DEF SessionInv, Sampling
  <2>4. least = l /\ greatest = g
    <3>1. least \in T /\ \A u \in T : least <= u
      BY <2>3 DEF Bounds
    <3>2. greatest \in T /\ \A u \in T : u <= greatest
      BY <2>3 DEF Bounds
    <3>. HIDE DEF least, greatest
    <3>3. least <= l /\ l <= least /\ greatest <= g /\ g <= greatest
      BY <2>3, <3>1, <3>2 DEF Bounds
    <3>. QED BY <2>2, <3>1, <3>2, <3>3
  <2>5. l \in Nat /\ g \in Nat /\ l <= g
    BY <2>2, <2>3 DEF Bounds
  <2>6. a.mean \in Nat /\ a.deviation \in Nat
    BY <2>2 DEF Averages
  <2>7. m \in Nat /\ l <= m /\ m <= g
    BY <2>3, <2>5, <2>6 DEF Between, Context!mean
  <2>8. v \in Nat /\ v <= g - l
    BY <2>3, <2>5, <2>6 DEF Between, Context!deviation
  <2>9. Context!request_timeout(result.ctx) = Context!Larger(m + 4 * v, MIN_TIMEOUT)
    BY DEF Context!request_timeout
  <2>. HIDE DEF least, greatest, m, v
  <2>10. Context!request_timeout(result.ctx) \in l .. Context!Larger(g + 4 * (g - l), MIN_TIMEOUT)
    BY <2>5, <2>7, <2>8, <2>9, PaceConstants DEF Context!Larger
  <2>11. m \in l .. g /\ v \in 0 .. g - l
    BY <2>5, <2>7, <2>8
  <2>. QED BY <2>4, <2>10, <2>11 DEF least, greatest, m, v
<1>. QED BY <1>1, PaceInvariant, PTL

-----------------------------------------------------------------------------
(* PickLoop: the inductive invariant.                                      *)

PickRecords ==
  [op : {"pick"}, count : Nat, in_end_game : BOOLEAN, prev_picked : SUBSET Indices,
   i : 0 .. BlockCount, blocks : Tables, pick_buf : Seq(Indices)]

\* The blocks that may be picked, and those of them that the loop has seen.
Wanted(r) == Table!Eligible(input.blocks, r.in_end_game, r.prev_picked)
Seen(r) == {j \in Wanted(r) : j < r.i}

\* The loop has picked all that it has seen, each block once, and has left
\* the rest of the table alone.
LoopInv(r) ==
  /\ r \in PickRecords
  /\ ToSet(r.pick_buf) = Seen(r) /\ IsInjective(r.pick_buf)
  /\ Len(r.pick_buf) = Cardinality(Seen(r)) /\ Len(r.pick_buf) <= r.count
  /\ \A j \in Indices : r.blocks[j] = IF j \in Seen(r) THEN "Requested" ELSE input.blocks[j]

PickInv == input.blocks \in Tables /\ (result = NotRun \/ LoopInv(result))

(* The fields of a pick.                                                   *)
LEMMA PickFields ==
  ASSUME NEW r \in PickRecords
  PROVE  /\ r.op = "pick" /\ r.count \in Nat /\ r.in_end_game \in BOOLEAN
         /\ r.prev_picked \subseteq Indices /\ r.i \in 0 .. BlockCount
         /\ r.blocks \in Tables /\ r.pick_buf \in Seq(Indices)
BY DEF PickRecords

(* All that may be picked are indices, and sets of indices are finite.     *)
LEMMA WantedFinite ==
  ASSUME input.blocks \in Tables, NEW r
  PROVE  /\ Wanted(r) \subseteq Indices
         /\ \A S \in SUBSET Indices : IsFiniteSet(S) /\ Cardinality(S) \in Nat
<1>1. IsFiniteSet(Indices)
  BY PickAssumption, FS_Interval DEF Indices
<1>2. Wanted(r) \subseteq Indices
  BY DEF Wanted, Table!Eligible, Tables
<1>. QED BY <1>1, <1>2, FS_Subset, FS_CardinalityType

(* What is appended to a list becomes a member, and a list of distinct     *)
(* members stays one.                                                      *)
LEMMA AppendMember ==
  ASSUME NEW S, NEW q \in Seq(S), NEW e \in S
  PROVE  /\ Append(q, e) \in Seq(S) /\ Len(Append(q, e)) = Len(q) + 1
         /\ ToSet(Append(q, e)) = ToSet(q) \cup {e}
         /\ IsInjective(q) /\ e \notin ToSet(q) => IsInjective(Append(q, e))
<1>1. /\ Len(q) \in Nat /\ DOMAIN q = 1 .. Len(q) /\ Append(q, e) \in Seq(S)
      /\ Len(Append(q, e)) = Len(q) + 1 /\ DOMAIN Append(q, e) = 1 .. Len(q) + 1
      /\ \A k \in 1 .. Len(q) : Append(q, e)[k] = q[k]
      /\ Append(q, e)[Len(q) + 1] = e
  OBVIOUS
<1>2. ToSet(Append(q, e)) = ToSet(q) \cup {e}
  BY <1>1 DEF ToSet
<1>3. ASSUME IsInjective(q), e \notin ToSet(q)
      PROVE  IsInjective(Append(q, e))
  BY <1>1, <1>3 DEF IsInjective, ToSet
<1>. QED BY <1>1, <1>2, <1>3

(* A step that picks the next block keeps the invariant, for a free block  *)
(* and for one requested by others; so does one that skips it.             *)
LEMMA PickedKeeps ==
  ASSUME input.blocks \in Tables, NEW r, LoopInv(r), r.i < BlockCount, Len(r.pick_buf) # r.count,
         r.i \in Wanted(r), NEW q \in PickRecords,
         q.count = r.count, q.in_end_game = r.in_end_game, q.prev_picked = r.prev_picked,
         q.i = r.i + 1, q.pick_buf = Append(r.pick_buf, r.i),
         \A j \in Indices : q.blocks[j] = IF j = r.i THEN "Requested" ELSE r.blocks[j]
  PROVE  LoopInv(q)
<1>1. /\ r.i \in Nat /\ r.i \in Indices /\ r.pick_buf \in Seq(Indices) /\ r.count \in Nat
      /\ Len(r.pick_buf) \in Nat
  BY PickFields, PickAssumption DEF LoopInv, Indices
<1>2. Wanted(q) = Wanted(r)
  BY DEF Wanted
<1>3. Seen(q) = Seen(r) \cup {r.i} /\ r.i \notin Seen(r) /\ Seen(r) \subseteq Indices
  <2>1. Wanted(r) \subseteq Indices
    BY WantedFinite
  <2>. QED BY <1>1, <1>2, <2>1 DEF Seen, Indices
<1>4. Cardinality(Seen(q)) = Cardinality(Seen(r)) + 1
  BY <1>3, WantedFinite, FS_AddElement
<1>5. ToSet(q.pick_buf) = Seen(q) /\ IsInjective(q.pick_buf) /\ Len(q.pick_buf) = Len(r.pick_buf) + 1
  BY <1>1, <1>3, AppendMember DEF LoopInv
<1>6. Len(q.pick_buf) <= q.count
  BY <1>1, <1>5 DEF LoopInv
<1>7. \A j \in Indices : q.blocks[j] = IF j \in Seen(q) THEN "Requested" ELSE input.blocks[j]
  BY <1>3 DEF LoopInv
<1>. QED BY <1>4, <1>5, <1>6, <1>7 DEF LoopInv

(* A step that skips a block has seen nothing that may be picked.          *)
LEMMA SkippedKeeps ==
  ASSUME input.blocks \in Tables, NEW r, LoopInv(r), r.i \notin Wanted(r), NEW q \in PickRecords,
         q.count = r.count, q.in_end_game = r.in_end_game, q.prev_picked = r.prev_picked,
         q.i = r.i + 1, q.pick_buf = r.pick_buf, q.blocks = r.blocks
  PROVE  LoopInv(q)
<1>1. Wanted(q) = Wanted(r) /\ r.i \in Nat
  BY PickFields DEF Wanted, LoopInv
<1>2. Seen(q) = Seen(r)
  <2>1. Wanted(r) \subseteq Indices
    BY WantedFinite
  <2>. QED BY <1>1, <2>1 DEF Seen, Indices
<1>. QED BY <1>2 DEF LoopInv

(* The block that the loop is at has the status it started with.           *)
LEMMA NotYetSeen ==
  ASSUME NEW r, LoopInv(r), r.i < BlockCount
  PROVE  /\ r \in PickRecords /\ r.i \in Indices /\ r.i + 1 \in 0 .. BlockCount
         /\ r.blocks[r.i] = input.blocks[r.i]
<1>1. r \in PickRecords /\ r.i \in Nat /\ r.i \in Indices /\ r.i + 1 \in 0 .. BlockCount
  BY PickFields, PickAssumption DEF LoopInv, Indices
<1>2. r.i \notin Seen(r)
  BY <1>1 DEF Seen
<1>. QED BY <1>1, <1>2 DEF LoopInv

(* Every step of the loop keeps the invariant.                             *)
LEMMA PickStepInv == PickInv /\ [PickNext]_vars => PickInv'
<1>. SUFFICES ASSUME PickInv, [PickNext]_vars
              PROVE  PickInv'
  OBVIOUS
<1>1. CASE UNCHANGED vars
  BY <1>1 DEF vars, PickInv, LoopInv, Seen, Wanted
<1>2. CASE StartPick
  <2>1. PICK count \in 0 .. BlockCount, in_end_game \in BOOLEAN, prev \in SUBSET Indices :
          result' = [op |-> "pick", count |-> count, in_end_game |-> in_end_game,
                     prev_picked |-> prev, i |-> 0, blocks |-> input.blocks, pick_buf |-> <<>>]
    BY <1>2 DEF StartPick
  <2>2. input' = input /\ input.blocks \in Tables
    BY <1>2 DEF StartPick, PickInv
  <2>3. result' \in PickRecords
    BY <2>1, <2>2, PickAssumption DEF PickRecords
  <2>. DEFINE r == result'
  <2>4. /\ r.i = 0 /\ r.blocks = input.blocks /\ r.pick_buf = <<>> /\ r.count \in Nat
    BY <2>1, PickAssumption
  <2>5. Seen(r) = {}
    <3>1. Wanted(r) \subseteq Indices
      BY <2>2, WantedFinite
    <3>. QED BY <2>4, <3>1 DEF Seen, Indices
  <2>6. ToSet(<<>>) = {} /\ IsInjective(<<>>) /\ Len(<<>>) = 0
    BY DEF ToSet, IsInjective
  <2>. HIDE DEF r
  <2>7. LoopInv(r)
    BY <2>3, <2>4, <2>5, <2>6, FS_EmptySet DEF LoopInv, r
  <2>. QED BY <2>2, <2>7 DEF PickInv, r, LoopInv, Seen, Wanted
<1>. DEFINE r == result
<1>3. ASSUME Picking
      PROVE  /\ LoopInv(r) /\ r.i < BlockCount /\ Len(r.pick_buf) # r.count
             /\ r \in PickRecords /\ r.i \in Indices /\ r.i + 1 \in 0 .. BlockCount
             /\ r.blocks[r.i] = input.blocks[r.i] /\ r.blocks \in Tables
             /\ r.pick_buf \in Seq(Indices) /\ Append(r.pick_buf, r.i) \in Seq(Indices)
             /\ input.blocks \in Tables
  <2>1. LoopInv(r) /\ r.i < BlockCount /\ Len(r.pick_buf) # r.count /\ input.blocks \in Tables
    BY <1>3 DEF Picking, PickInv, NotRun
  <2>. QED BY <2>1, NotYetSeen, PickFields, SeqAppend
<1>4. CASE PickFree
  <2>. DEFINE table == [r.blocks EXCEPT ![r.i] = "Requested"]
              buf == Append(r.pick_buf, r.i)
              q == result'
  <2>1. Picking /\ r.blocks[r.i] = "Free" /\ input' = input
    BY <1>4 DEF PickFree
  <2>2. q = [r EXCEPT !.i = r.i + 1, !.blocks = table, !.pick_buf = buf]
    BY <1>4, <1>3, <2>1 DEF PickFree, PickRecords
  <2>3. table \in Tables /\ \A j \in Indices : table[j] = IF j = r.i THEN "Requested" ELSE r.blocks[j]
    BY <1>3, <2>1 DEF Tables, Table!BlockStatus
  <2>. HIDE DEF q, table
  <2>4. q \in PickRecords
    BY <1>3, <2>1, <2>2, <2>3 DEF PickRecords
  <2>5. /\ q.count = r.count /\ q.in_end_game = r.in_end_game /\ q.prev_picked = r.prev_picked
        /\ q.i = r.i + 1 /\ q.pick_buf = buf /\ q.blocks = table
    BY <1>3, <2>1, <2>2 DEF PickRecords
  <2>6. r.i \in Wanted(r)
    BY <1>3, <2>1 DEF Wanted, Table!Eligible, Tables
  <2>7. LoopInv(q)
    BY <1>3, <2>1, <2>3, <2>4, <2>5, <2>6, PickedKeeps
  <2>. QED BY <1>3, <2>1, <2>7 DEF PickInv, q, LoopInv, Seen, Wanted
<1>5. CASE PickRequested
  <2>. DEFINE buf == Append(r.pick_buf, r.i)
              q == result'
  <2>1. Picking /\ IsOthers /\ input' = input
    BY <1>5 DEF PickRequested
  <2>2. q = [r EXCEPT !.i = r.i + 1, !.pick_buf = buf]
    BY <1>5 DEF PickRequested
  <2>. HIDE DEF q
  <2>3. q \in PickRecords
    BY <1>3, <2>1, <2>2 DEF PickRecords
  <2>4. /\ q.count = r.count /\ q.in_end_game = r.in_end_game /\ q.prev_picked = r.prev_picked
        /\ q.i = r.i + 1 /\ q.pick_buf = buf /\ q.blocks = r.blocks
    BY <1>3, <2>1, <2>2 DEF PickRecords
  <2>5. r.i \in Wanted(r) /\ r.blocks[r.i] = "Requested"
    BY <1>3, <2>1 DEF Wanted, Table!Eligible, Tables, IsOthers
  <2>6. LoopInv(q)
    BY <1>3, <2>1, <2>3, <2>4, <2>5, PickedKeeps
  <2>. QED BY <1>3, <2>1, <2>6 DEF PickInv, q, LoopInv, Seen, Wanted
<1>6. CASE SkipBlock
  <2>. DEFINE q == result'
  <2>1. Picking /\ r.blocks[r.i] # "Free" /\ ~ IsOthers /\ input' = input
    BY <1>6 DEF SkipBlock
  <2>2. q = [r EXCEPT !.i = r.i + 1]
    BY <1>6 DEF SkipBlock
  <2>. HIDE DEF q
  <2>3. q \in PickRecords
    BY <1>3, <2>1, <2>2 DEF PickRecords
  <2>4. /\ q.count = r.count /\ q.in_end_game = r.in_end_game /\ q.prev_picked = r.prev_picked
        /\ q.i = r.i + 1 /\ q.pick_buf = r.pick_buf /\ q.blocks = r.blocks
    BY <1>3, <2>1, <2>2 DEF PickRecords
  <2>5. r.i \notin Wanted(r)
    BY <1>3, <2>1 DEF Wanted, Table!Eligible, IsOthers
  <2>6. LoopInv(q)
    BY <1>3, <2>1, <2>3, <2>4, <2>5, SkippedKeeps
  <2>. QED BY <1>3, <2>1, <2>6 DEF PickInv, q, LoopInv, Seen, Wanted
<1>. QED BY <1>1, <1>2, <1>4, <1>5, <1>6 DEF PickNext

(* The invariant of the loop, for every table and every argument.          *)
THEOREM PickInvariant == PickSpec => []PickInv
<1>1. ASSUME PickInit
      PROVE  PickInv
  <2>1. PICK t \in Tables : input = [algorithm |-> "pick", blocks |-> t]
    BY <1>1 DEF PickInit
  <2>. QED BY <1>1, <2>1 DEF PickInit, PickInv
<1>. QED BY <1>1, PickStepInv, PTL DEF PickSpec

(* When the loop stops because enough are picked, these are the blocks     *)
(* that the scan has met first; when it stops at the end, it has met all.  *)
LEMMA SeenIsPicked ==
  ASSUME input.blocks \in Tables, NEW r, LoopInv(r),
         r.i >= BlockCount \/ Len(r.pick_buf) = r.count
  PROVE  Seen(r) = Table!FirstOf(Wanted(r), r.count)
<1>1. /\ r.i \in 0 .. BlockCount /\ r.i \in Nat /\ r.count \in Nat
      /\ Cardinality(Seen(r)) <= r.count
      /\ r.i = BlockCount \/ Cardinality(Seen(r)) = r.count
  BY PickFields, PickAssumption DEF LoopInv
<1>2. Wanted(r) \subseteq Indices /\ \A j \in Wanted(r) : j \in Nat /\ j < BlockCount
  BY WantedFinite, PickAssumption DEF Indices
<1>. DEFINE before(j) == {k \in Wanted(r) : k < j}
<1>3. /\ Seen(r) \subseteq Indices /\ IsFiniteSet(Seen(r)) /\ Cardinality(Seen(r)) \in Nat
      /\ \A j \in Wanted(r) : IsFiniteSet(before(j)) /\ Cardinality(before(j)) \in Nat
  <2>1. Seen(r) \subseteq Indices /\ \A j \in Wanted(r) : before(j) \subseteq Indices
    BY <1>2 DEF Seen
  <2>. QED BY <2>1, WantedFinite
<1>4. ASSUME NEW j \in Seen(r)
      PROVE  Cardinality(before(j)) < r.count
  <2>1. before(j) \subseteq Seen(r) /\ j \in Seen(r) /\ j \notin before(j) /\ j \in Wanted(r)
    BY <1>1, <1>2 DEF Seen
  <2>2. before(j) # Seen(r)
    BY <2>1
  <2>. HIDE DEF before
  <2>3. Cardinality(before(j)) < Cardinality(Seen(r))
    BY <1>3, <2>1, <2>2, FS_Subset
  <2>. QED BY <1>1, <1>3, <2>1, <2>3
<1>5. ASSUME NEW j \in Wanted(r), j \notin Seen(r)
      PROVE  ~ (Cardinality(before(j)) < r.count)
  <2>1. ~ (j < r.i) /\ j \in Nat /\ j < BlockCount
    BY <1>2, <1>5 DEF Seen
  <2>2. Cardinality(Seen(r)) = r.count
    BY <1>1, <2>1
  <2>3. Seen(r) \subseteq before(j)
    <3>1. ASSUME NEW k \in Seen(r)
          PROVE  k \in Wanted(r) /\ k < j
      <4>1. k \in Wanted(r) /\ k < r.i /\ k \in Nat
        BY <1>2 DEF Seen
      <4>. QED BY <1>1, <2>1, <4>1
    <3>. QED BY <3>1
  <2>. HIDE DEF before
  <2>4. Cardinality(Seen(r)) <= Cardinality(before(j))
    BY <1>3, <2>3, FS_Subset
  <2>. QED BY <1>1, <1>3, <2>2, <2>4
<1>6. Seen(r) \subseteq Wanted(r)
  BY DEF Seen
<1>7. Table!FirstOf(Wanted(r), r.count) = {j \in Wanted(r) : Cardinality(before(j)) < r.count}
  <2>1. \A S : Table!Cardinality(S) = Cardinality(S)
    BY DEF Table!Cardinality, Cardinality
  <2>. QED BY <2>1 DEF Table!FirstOf
<1>. HIDE DEF before
<1>. QED BY <1>4, <1>5, <1>6, <1>7

(* The loop of pick_blocks picks the set that PickedBlocks names, so that  *)
(* Download may take it for one step.                                      *)
THEOREM PickLoopPicks == PickSpec => []LoopPicks
<1>1. PickInv => LoopPicks
  <2>. SUFFICES ASSUME PickInv, result.op = "pick", ~ Picking
                PROVE  LET picked == Table!PickedBlocks(input.blocks, result.count, result.in_end_game,
                                                        result.prev_picked)
                       IN /\ ToSet(result.pick_buf) = picked
                          /\ IsInjective(result.pick_buf)
                          /\ Cardinality(picked) <= result.count
                          /\ result.blocks = Table!MarkRequested(input.blocks, picked)
    BY DEF LoopPicks
  <2>. DEFINE r == result
              picked == Table!PickedBlocks(input.blocks, r.count, r.in_end_game, r.prev_picked)
  <2>1. LoopInv(r) /\ input.blocks \in Tables
    BY DEF PickInv, NotRun
  <2>2. r.i \in 0 .. BlockCount /\ r.blocks \in Tables
    BY <2>1, PickFields DEF LoopInv
  <2>3. r.i >= BlockCount \/ Len(r.pick_buf) = r.count
    BY <2>2, PickAssumption DEF Picking
  <2>4. Seen(r) = picked
    BY <2>1, <2>3, SeenIsPicked DEF Table!PickedBlocks, Wanted
  <2>. HIDE DEF picked
  <2>5. Cardinality(picked) <= r.count
    BY <2>1, <2>4 DEF LoopInv
  <2>6. r.blocks = Table!MarkRequested(input.blocks, picked)
    <3>1. \A j \in Indices : r.blocks[j] = IF j \in picked THEN "Requested" ELSE input.blocks[j]
      BY <2>1, <2>4 DEF LoopInv
    <3>2. DOMAIN input.blocks = Indices /\ r.blocks = [j \in Indices |-> r.blocks[j]]
      BY <2>1, <2>2 DEF Tables
    <3>. QED BY <3>1, <3>2 DEF Table!MarkRequested
  <2>. QED BY <2>1, <2>4, <2>5, <2>6 DEF LoopInv, picked
<1>. QED BY <1>1, PickInvariant, PTL

-----------------------------------------------------------------------------
(* PeerCodec: numbers in four bytes.                                       *)

(* The bytes of a number give the number.                                  *)
LEMMA NumberBytes ==
  ASSUME NEW n \in U32
  PROVE  /\ n \in Nat /\ put_u32(n) \in [1 .. 4 -> Byte] /\ put_u32(n) \in Seq(Byte) /\ Len(put_u32(n)) = 4
         /\ put_u32(n)[4] + 256 * (put_u32(n)[3] + 256 * (put_u32(n)[2] + 256 * put_u32(n)[1])) = n
<1>. DEFINE a == n \div 16777216
            b == n \div 65536
            c == n \div 256
<1>1. n \in Nat /\ a \in 0 .. 255
  BY DEF U32, Byte
<1>2. a \in Nat /\ b \in Nat /\ c \in Nat
  BY <1>1
<1>3. b \div 256 = a /\ c \div 256 = b
  BY <1>1
<1>4. n = 256 * c + (n % 256) /\ c = 256 * b + (c % 256) /\ b = 256 * a + (b % 256) /\ a % 256 = a
  BY <1>1, <1>2, <1>3
<1>5. n % 256 \in Byte /\ c % 256 \in Byte /\ b % 256 \in Byte /\ a % 256 \in Byte
  BY <1>1, <1>2 DEF Byte
<1>6. put_u32(n) = <<a % 256, b % 256, c % 256, n % 256>>
  BY DEF put_u32
<1>. HIDE DEF a, b, c
<1>7. put_u32(n) \in [1 .. 4 -> Byte] /\ put_u32(n) \in Seq(Byte) /\ Len(put_u32(n)) = 4
  BY <1>5, <1>6
<1>8. put_u32(n)[1] = a /\ put_u32(n)[2] = b % 256 /\ put_u32(n)[3] = c % 256 /\ put_u32(n)[4] = n % 256
  BY <1>4, <1>6
<1>9. (n % 256) + 256 * ((c % 256) + 256 * ((b % 256) + 256 * a)) = n
  <2>1. n % 256 \in Nat /\ c % 256 \in Nat /\ b % 256 \in Nat
    BY <1>5 DEF Byte
  <2>2. (b % 256) + 256 * a = b
    BY <1>2, <1>4, <2>1
  <2>3. (c % 256) + 256 * b = c
    BY <1>2, <1>4, <2>1
  <2>4. (n % 256) + 256 * c = n
    BY <1>1, <1>2, <1>4, <2>1
  <2>. QED BY <2>2, <2>3, <2>4
<1>10. put_u32(n)[4] + 256 * (put_u32(n)[3] + 256 * (put_u32(n)[2] + 256 * put_u32(n)[1])) = n
  BY <1>8, <1>9
<1>. QED BY <1>1, <1>7, <1>10

(* The number is found wherever its bytes are.                             *)
LEMMA NumberFound ==
  ASSUME NEW n \in U32, NEW buf, NEW at \in Nat, \A t \in 1 .. 4 : buf[at + t] = put_u32(n)[t]
  PROVE  get_u32(buf, at) = n
<1>1. /\ buf[at + 1] = put_u32(n)[1] /\ buf[at + 2] = put_u32(n)[2]
      /\ buf[at + 3] = put_u32(n)[3] /\ buf[at + 4] = put_u32(n)[4]
  OBVIOUS
<1>2. put_u32(n)[4] + 256 * (put_u32(n)[3] + 256 * (put_u32(n)[2] + 256 * put_u32(n)[1])) = n
  BY NumberBytes
<1>. QED BY <1>1, <1>2 DEF get_u32

-----------------------------------------------------------------------------
(* PeerCodec: the bytes of a message.                                      *)

\* The messages that the session knows and that have an id.
Known == {msg \in Messages : msg # KeepAlive /\ msg # Extension}

(* What is known of such a message.                                        *)
LEMMA KnownMessage ==
  ASSUME NEW msg \in Known
  PROVE  /\ msg.type \in DOMAIN MessageId /\ msg.type # "Handshake"
         /\ msg.numbers \in Seq(U32) /\ msg.data \in Seq(Byte)
         /\ msg = Message(msg.type, msg.numbers, msg.data)
         /\ Len(msg.numbers) = NumberCount(msg.type) /\ NumberCount(msg.type) \in Nat
         /\ Len(msg.data) \in Nat /\ MsgLen(msg) \in U32
         /\ ~ HasData(msg.type) => msg.data = <<>>
<1>1. msg \in [type : DOMAIN MessageId, numbers : Seq(U32), data : Seq(Byte)]
  BY DEF Known, Messages
<1>2. /\ Len(msg.numbers) = NumberCount(msg.type) /\ MsgLen(msg) \in U32
      /\ ~ HasData(msg.type) => msg.data = <<>>
  BY DEF Known, Messages
<1>3. msg = [type |-> msg.type, numbers |-> msg.numbers, data |-> msg.data]
  BY <1>1
<1>4. msg.type \in DOMAIN MessageId => msg.type # "Handshake"
  BY DEF MessageId
<1>5. msg.type \in DOMAIN MessageId /\ msg.numbers \in Seq(U32) /\ msg.data \in Seq(Byte)
  BY <1>1
<1>6. Len(msg.numbers) \in Nat /\ Len(msg.data) \in Nat
  BY <1>5
<1>7. msg = Message(msg.type, msg.numbers, msg.data)
  BY <1>3, Zenon DEF Message
<1>. QED BY <1>2, <1>4, <1>5, <1>6, <1>7

(* The ids are bytes, they differ, and none is that of an extension.       *)
LEMMA Ids ==
  /\ \A type \in DOMAIN MessageId : MessageId[type] \in Byte /\ MessageId[type] # UNKNOWN_ID
  /\ \A t, u \in DOMAIN MessageId : MessageId[t] = MessageId[u] => t = u
<1>1. DOMAIN MessageId = {"Choke", "Unchoke", "Interested", "NotInterested", "Have", "Bitfield",
                          "Request", "Block", "Cancel"}
  BY DEF MessageId
<1>2. /\ MessageId["Choke"] = 0 /\ MessageId["Unchoke"] = 1 /\ MessageId["Interested"] = 2
      /\ MessageId["NotInterested"] = 3 /\ MessageId["Have"] = 4 /\ MessageId["Bitfield"] = 5
      /\ MessageId["Request"] = 6 /\ MessageId["Block"] = 7 /\ MessageId["Cancel"] = 8
  BY DEF MessageId
<1>3. \A type \in DOMAIN MessageId : MessageId[type] \in Byte
  BY <1>1, <1>2 DEF Byte
<1>4. \A t, u \in DOMAIN MessageId : MessageId[t] = MessageId[u] => t = u
  BY <1>1, <1>2
<1>. QED BY <1>3, <1>4, CodecAssumption

\* The bytes e of a message: the length, the id, the numbers, the data.
IsLayout(e, msg) ==
  LET fields_len == 5 + 4 * Len(msg.numbers)
  IN /\ e \in Seq(Byte) /\ Len(e) = 4 + MsgLen(msg) /\ Len(e) = fields_len + Len(msg.data)
     /\ \A t \in 1 .. 4 : e[t] = put_u32(MsgLen(msg))[t]
     /\ e[5] = MessageId[msg.type]
     /\ \A k \in 1 .. Len(msg.numbers) : \A t \in 1 .. 4 :
          e[(5 + 4 * (k - 1)) + t] = put_u32(msg.numbers[k])[t]
     /\ \A k \in 1 .. Len(msg.data) : e[fields_len + k] = msg.data[k]

(* A known message is encoded in this form.                                *)
LEMMA EncodedLayout ==
  ASSUME NEW msg \in Known
  PROVE  IsLayout(encode(msg), msg)
<1>. DEFINE count == Len(msg.numbers)
            nums == [i \in 1 .. 4 * count |-> put_u32(msg.numbers[((i - 1) \div 4) + 1])[((i - 1) % 4) + 1]]
            prefix == put_u32(MsgLen(msg))
            id == <<MessageId[msg.type]>>
            data == msg.data
            e == prefix \o id \o nums \o data
<1>1. /\ msg.type \in DOMAIN MessageId /\ msg.numbers \in Seq(U32) /\ data \in Seq(Byte)
      /\ count \in Nat /\ Len(data) \in Nat /\ MsgLen(msg) \in U32 /\ MsgLen(msg) \in Nat
  BY KnownMessage, NumberBytes
<1>2. prefix \in Seq(Byte) /\ Len(prefix) = 4
  BY <1>1, NumberBytes
<1>3. id \in Seq(Byte) /\ Len(id) = 1 /\ id[1] = MessageId[msg.type]
  BY <1>1, Ids
<1>4. ASSUME NEW k \in 1 .. count
      PROVE  msg.numbers[k] \in U32
  BY <1>1
<1>5. ASSUME NEW i \in 1 .. 4 * count
      PROVE  nums[i] \in Byte
  <2>1. i - 1 \in Nat /\ ((i - 1) \div 4) + 1 \in 1 .. count /\ ((i - 1) % 4) + 1 \in 1 .. 4
    <3>. DEFINE q == (i - 1) \div 4
    <3>1. i - 1 \in Nat /\ i <= 4 * count
      BY <1>1
    <3>2. /\ q \in Nat /\ q * 4 <= i - 1 /\ (i - 1) % 4 \in 0 .. 4 - 1
      BY <3>1, Division
    <3>. HIDE DEF q
    <3>3. q + 1 \in 1 .. count
      BY <1>1, <3>1, <3>2
    <3>. QED BY <3>1, <3>2, <3>3 DEF q
  <2>2. put_u32(msg.numbers[((i - 1) \div 4) + 1]) \in [1 .. 4 -> Byte]
    BY <1>4, <2>1, NumberBytes
  <2>. QED BY <2>1, <2>2
<1>6. nums \in Seq(Byte) /\ Len(nums) = 4 * count
  <2>. DEFINE n == 4 * count
  <2>1. nums = [i \in 1 .. n |-> nums[i]] /\ n \in Nat
    BY <1>1
  <2>2. \A i \in 1 .. n : nums[i] \in Byte
    BY <1>5
  <2>. HIDE DEF nums, n
  <2>3. nums \in Seq(Byte) /\ Len(nums) = n
    BY <2>1, <2>2, FunctionSeq
  <2>. QED BY <2>3 DEF n
<1>7. ASSUME NEW k \in 1 .. count, NEW t \in 1 .. 4
      PROVE  nums[4 * (k - 1) + t] = put_u32(msg.numbers[k])[t]
  <2>. DEFINE i == 4 * (k - 1) + t
  <2>1. k - 1 \in Nat /\ t - 1 \in Nat /\ t - 1 < 4 /\ i - 1 = (k - 1) * 4 + (t - 1)
    BY <1>1
  <2>2. (i - 1) \div 4 = k - 1 /\ (i - 1) % 4 = t - 1
    BY <2>1, DivisionIs
  <2>3. i \in 1 .. 4 * count
    BY <1>1
  <2>4. nums[i] = put_u32(msg.numbers[((i - 1) \div 4) + 1])[((i - 1) % 4) + 1]
    BY <2>3
  <2>5. (k - 1) + 1 = k /\ (t - 1) + 1 = t
    BY <1>1
  <2>. QED BY <2>2, <2>4, <2>5
<1>8. encode(msg) = e
  BY DEF Known, encode
<1>. HIDE DEF nums, prefix, id, data, count
<1>9. /\ e \in Seq(Byte) /\ Len(e) = Len(prefix) + Len(id) + Len(nums) + Len(data)
      /\ \A k \in 1 .. Len(prefix) : e[k] = prefix[k]
      /\ \A k \in 1 .. Len(id) : e[Len(prefix) + k] = id[k]
      /\ \A k \in 1 .. Len(nums) : e[Len(prefix) + Len(id) + k] = nums[k]
      /\ \A k \in 1 .. Len(data) : e[Len(prefix) + Len(id) + Len(nums) + k] = data[k]
  <2>1. prefix \in Seq(Byte) /\ id \in Seq(Byte) /\ nums \in Seq(Byte) /\ data \in Seq(Byte)
    BY <1>1, <1>2, <1>3, <1>6
  <2>2. e = prefix \o id \o nums \o data
    OBVIOUS
  <2>. HIDE DEF e
  <2>. QED BY <2>1, <2>2, FourParts
<1>. HIDE DEF e
<1>10. Len(e) = (5 + 4 * count) + Len(data) /\ Len(e) = 4 + MsgLen(msg)
  <2>1. MsgLen(msg) = (1 + 4 * count) + Len(data)
    BY DEF MsgLen, count, data
  <2>. QED BY <1>1, <1>2, <1>3, <1>6, <1>9, <2>1
<1>11. \A t \in 1 .. 4 : e[t] = put_u32(MsgLen(msg))[t]
  BY <1>2, <1>9 DEF prefix
<1>12. e[5] = MessageId[msg.type]
  <2>1. 1 \in 1 .. Len(id)
    BY <1>3
  <2>2. e[Len(prefix) + 1] = id[1]
    BY <1>9, <2>1
  <2>. QED BY <1>2, <1>3, <2>2
<1>13. ASSUME NEW k \in 1 .. count, NEW t \in 1 .. 4
       PROVE  e[(5 + 4 * (k - 1)) + t] = put_u32(msg.numbers[k])[t]
  <2>1. 4 * (k - 1) + t \in 1 .. Len(nums)
    BY <1>1, <1>6
  <2>2. e[4 + 1 + (4 * (k - 1) + t)] = nums[4 * (k - 1) + t]
    BY <1>2, <1>3, <1>9, <2>1
  <2>3. 4 + 1 + (4 * (k - 1) + t) = (5 + 4 * (k - 1)) + t
    BY <1>1
  <2>. QED BY <1>7, <2>2, <2>3
<1>14. ASSUME NEW k \in 1 .. Len(data)
       PROVE  e[(5 + 4 * count) + k] = data[k]
  <2>1. e[Len(prefix) + Len(id) + Len(nums) + k] = data[k]
    BY <1>9
  <2>2. Len(prefix) + Len(id) + Len(nums) + k = (5 + 4 * count) + k
    BY <1>1, <1>2, <1>3, <1>6
  <2>. QED BY <2>1, <2>2
<1>15. IsLayout(e, msg)
  BY <1>9, <1>10, <1>11, <1>12, <1>13, <1>14 DEF IsLayout, count, data
<1>. QED BY <1>8, <1>15

-----------------------------------------------------------------------------
(* PeerCodec: decoding what was encoded.                                   *)

\* What is in the buffer begins with these bytes, or is the beginning of them.
Agrees(buf, e) == \A k \in 1 .. Len(e) : k <= Len(buf) => buf[k] = e[k]

\* What the decoder makes of a buffer that begins with the bytes of a message.
DecodesTo(out, msg, buf, e) ==
  IF Len(buf) < Len(e) THEN out = NeedMore
  ELSE IF msg = Extension THEN out = Failed ELSE out = Decoded(msg, Drop(buf, Len(e)))

(* The numbers of a message are found behind its id, one behind the other. *)
LEMMA NumbersFound ==
  ASSUME NEW numbers \in Seq(U32), NEW buf,
         \A k \in 1 .. Len(numbers) : \A t \in 1 .. 4 :
           buf[(5 + 4 * (k - 1)) + t] = put_u32(numbers[k])[t]
  PROVE  [k \in 1 .. Len(numbers) |-> get_u32(buf, 5 + 4 * (k - 1))] = numbers
<1>1. ASSUME NEW k \in 1 .. Len(numbers)
      PROVE  get_u32(buf, 5 + 4 * (k - 1)) = numbers[k]
  <2>1. numbers[k] \in U32 /\ 5 + 4 * (k - 1) \in Nat
    OBVIOUS
  <2>. DEFINE at == 5 + 4 * (k - 1)
  <2>2. \A t \in 1 .. 4 : buf[at + t] = put_u32(numbers[k])[t]
    OBVIOUS
  <2>. HIDE DEF at
  <2>3. at \in Nat
    BY <2>1 DEF at
  <2>4. get_u32(buf, at) = numbers[k]
    BY <2>1, <2>2, <2>3, NumberFound
  <2>. QED BY <2>4 DEF at
<1>2. numbers = [k \in 1 .. Len(numbers) |-> numbers[k]]
  OBVIOUS
<1>. QED BY <1>1, <1>2

(* The bytes behind the fields are the data of the message.                *)
LEMMA DataFound ==
  ASSUME NEW data \in Seq(Byte), NEW buf \in Seq(Byte), NEW at \in Nat, at + Len(data) <= Len(buf),
         \A k \in 1 .. Len(data) : buf[at + k] = data[k]
  PROVE  SubSeq(buf, at + 1, at + Len(data)) = data
<1>. DEFINE s == SubSeq(buf, at + 1, at + Len(data))
<1>1. Len(data) \in Nat /\ Len(buf) \in Nat
  OBVIOUS
<1>2. s \in Seq(Byte) /\ Len(s) = Len(data) /\ \A k \in 1 .. Len(data) : s[k] = buf[at + k]
  BY <1>1
<1>. HIDE DEF s
<1>3. \A k \in 1 .. Len(data) : s[k] = data[k]
  BY <1>2
<1>4. s = data
  BY <1>2, <1>3, SeqEqual
<1>. QED BY <1>4 DEF s

(* A known message is decoded from its bytes, and from no fewer.           *)
LEMMA KnownDecoded ==
  ASSUME NEW msg \in Known, NEW buf \in Seq(Byte), Agrees(buf, encode(msg))
  PROVE  DecodesTo(decode(buf), msg, buf, encode(msg))
<1>. DEFINE e == encode(msg)
            count == Len(msg.numbers)
            msg_len == MsgLen(msg)
            data == msg.data
            fields_len == 5 + 4 * count
<1>1. /\ e \in Seq(Byte) /\ Len(e) = 4 + msg_len /\ Len(e) = fields_len + Len(data)
      /\ \A t \in 1 .. 4 : e[t] = put_u32(msg_len)[t]
      /\ e[5] = MessageId[msg.type]
      /\ \A k \in 1 .. count : \A t \in 1 .. 4 :
           e[(5 + 4 * (k - 1)) + t] = put_u32(msg.numbers[k])[t]
      /\ \A k \in 1 .. Len(data) : e[fields_len + k] = data[k]
  BY EncodedLayout, Zenon DEF IsLayout
<1>2. /\ msg.type \in DOMAIN MessageId /\ msg.numbers \in Seq(U32) /\ data \in Seq(Byte)
      /\ msg = Message(msg.type, msg.numbers, data)
      /\ count = NumberCount(msg.type) /\ count \in Nat /\ Len(data) \in Nat
      /\ msg_len \in U32 /\ (~ HasData(msg.type) => data = <<>>)
  BY KnownMessage
<1>3. msg_len = (1 + 4 * count) + Len(data) /\ msg # Extension
  BY DEF MsgLen, Known
<1>. HIDE DEF e, count, msg_len, data
<1>4. \A k \in 1 .. Len(e) : k <= Len(buf) => buf[k] = e[k]
  BY DEF Agrees, e
<1>5. /\ Len(buf) \in Nat /\ msg_len \in Nat \ {0} /\ Len(e) \in Nat /\ fields_len \in Nat
      /\ 5 <= fields_len /\ 4 * count \in Nat /\ count \in Nat /\ Len(data) \in Nat
      /\ Len(e) = 4 + msg_len /\ Len(e) = fields_len + Len(data)
  <2>1. Len(e) = 4 + msg_len /\ Len(e) = fields_len + Len(data) /\ Len(buf) \in Nat
    BY <1>1
  <2>2. count \in Nat /\ Len(data) \in Nat /\ 4 * count \in Nat
    BY <1>2
  <2>3. fields_len \in Nat /\ 5 <= fields_len
    BY <2>2
  <2>4. msg_len \in Nat \ {0}
    BY <1>3, <2>2
  <2>. QED BY <2>1, <2>2, <2>3, <2>4
<1>6. ASSUME Len(buf) >= 4
      PROVE  get_u32(buf, 0) = msg_len
  <2>1. ASSUME NEW t \in 1 .. 4
        PROVE  buf[0 + t] = put_u32(msg_len)[t]
    <3>1. t \in 1 .. Len(e) /\ t <= Len(buf) /\ 0 + t = t
      BY <1>5, <1>6
    <3>2. e[t] = put_u32(msg_len)[t]
      BY <1>1
    <3>. QED BY <1>4, <3>1, <3>2
  <2>. QED BY <1>2, <2>1, NumberFound
<1>7. CASE Len(buf) < Len(e)
  <2>1. Len(buf) < 4 \/ Len(buf) < 4 + get_u32(buf, 0)
    BY <1>1, <1>5, <1>6, <1>7
  <2>2. decode(buf) = NeedMore
    BY <2>1 DEF decode
  <2>. QED BY <1>7, <2>2 DEF DecodesTo, e
<1>8. CASE Len(buf) >= Len(e)
  <2>. DEFINE types == {type \in DOMAIN MessageId : MessageId[type] = buf[5]}
              numbers == [k \in 1 .. NumberCount(msg.type) |-> get_u32(buf, 5 + 4 * (k - 1))]
              data_len == IF HasData(msg.type) THEN msg_len - 1 - 4 * NumberCount(msg.type) ELSE 0
  <2>1. buf[5] = MessageId[msg.type]
    BY <1>1, <1>4, <1>5, <1>8
  <2>2. types = {msg.type}
    BY <1>2, <2>1, Ids
  <2>3. (CHOOSE type \in types : TRUE) = msg.type
    BY <2>2
  <2>4. get_u32(buf, 0) = msg_len /\ ~ (Len(buf) < 4 \/ Len(buf) < 4 + get_u32(buf, 0))
    BY <1>1, <1>5, <1>6, <1>8
  <2>5. decode(buf) = decode_payload(msg.type, msg_len, buf)
    <3>1. msg_len # 0 /\ types # {}
      BY <1>5, <2>2
    <3>. QED BY <2>3, <2>4, <3>1 DEF decode
  <2>6. numbers = msg.numbers
    <3>1. ASSUME NEW k \in 1 .. count, NEW t \in 1 .. 4
          PROVE  buf[(5 + 4 * (k - 1)) + t] = put_u32(msg.numbers[k])[t]
      <4>1. (5 + 4 * (k - 1)) + t \in 1 .. Len(e)
        BY <1>5
      <4>2. (5 + 4 * (k - 1)) + t <= Len(buf)
        BY <1>5, <1>8, <4>1
      <4>. QED BY <1>1, <1>4, <4>1, <4>2
    <3>2. [k \in 1 .. count |-> get_u32(buf, 5 + 4 * (k - 1))] = msg.numbers
      BY <1>2, <3>1, NumbersFound DEF count
    <3>. QED BY <1>2, <3>2
  <2>7. data_len = Len(data)
    <3>1. CASE HasData(msg.type)
      <4>1. msg_len - 1 - 4 * count = Len(data)
        BY <1>3, <1>5
      <4>. QED BY <1>2, <3>1, <4>1
    <3>2. CASE ~ HasData(msg.type)
      <4>1. Len(data) = 0
        BY <1>2, <3>2
      <4>. QED BY <3>2, <4>1
    <3>. QED BY <3>1, <3>2
  <2>8. SubSeq(buf, fields_len + 1, fields_len + Len(data)) = data
    <3>1. ASSUME NEW k \in 1 .. Len(data)
          PROVE  buf[fields_len + k] = data[k]
      <4>1. fields_len + k \in 1 .. Len(e) /\ fields_len + k <= Len(buf)
        <5>. HIDE DEF fields_len
        <5>. QED BY <1>5, <1>8
      <4>. QED BY <1>1, <1>4, <4>1
    <3>2. fields_len \in Nat /\ fields_len + Len(data) <= Len(buf)
      BY <1>1, <1>2, <1>5, <1>8
    <3>. HIDE DEF fields_len
    <3>. QED BY <1>2, <3>1, <3>2, DataFound
  <2>9. decode_payload(msg.type, msg_len, buf) =
          Decoded(Message(msg.type, numbers,
                          SubSeq(buf, (5 + 4 * NumberCount(msg.type)) + 1,
                                 (5 + 4 * NumberCount(msg.type)) + data_len)),
                  Drop(buf, (5 + 4 * NumberCount(msg.type)) + data_len))
    BY DEF decode_payload
  <2>10. decode_payload(msg.type, msg_len, buf) = Decoded(msg, Drop(buf, Len(e)))
    <3>. HIDE DEF numbers, data_len
    <3>. QED BY <1>1, <1>2, <2>6, <2>7, <2>8, <2>9
  <2>11. decode(buf) = Decoded(msg, Drop(buf, Len(e))) /\ ~ (Len(buf) < Len(e))
    BY <1>5, <1>8, <2>5, <2>10
  <2>. QED BY <1>3, <2>11 DEF DecodesTo, e
<1>. QED BY <1>5, <1>7, <1>8

(* A keep alive is decoded from its length alone.                          *)
LEMMA KeepAliveDecoded ==
  /\ encode(KeepAlive) \in Seq(Byte)
  /\ \A buf \in Seq(Byte) : Agrees(buf, encode(KeepAlive)) =>
       DecodesTo(decode(buf), KeepAlive, buf, encode(KeepAlive))
<1>1. encode(KeepAlive) = put_u32(0) /\ KeepAlive # Extension
  BY DEF encode, KeepAlive, Extension, Message
<1>2. 0 \in U32
  BY DEF U32, Byte
<1>3. put_u32(0) \in Seq(Byte) /\ Len(put_u32(0)) = 4
  BY <1>2, NumberBytes
<1>4. ASSUME NEW buf \in Seq(Byte), Agrees(buf, encode(KeepAlive))
      PROVE  DecodesTo(decode(buf), KeepAlive, buf, encode(KeepAlive))
  <2>1. Len(buf) \in Nat
    OBVIOUS
  <2>2. CASE Len(buf) < 4
    <3>1. decode(buf) = NeedMore
      BY <2>2 DEF decode
    <3>. QED BY <1>1, <1>3, <2>2, <3>1 DEF DecodesTo
  <2>3. CASE Len(buf) >= 4
    <3>1. \A t \in 1 .. 4 : buf[0 + t] = put_u32(0)[t]
      BY <1>1, <1>3, <1>4, <2>1, <2>3 DEF Agrees
    <3>2. get_u32(buf, 0) = 0
      BY <1>2, <3>1, NumberFound
    <3>3. decode(buf) = Decoded(KeepAlive, Drop(buf, 4))
      BY <2>1, <2>3, <3>2 DEF decode
    <3>4. ~ (Len(buf) < Len(encode(KeepAlive))) /\ Len(encode(KeepAlive)) = 4
      BY <1>1, <1>3, <2>1, <2>3
    <3>. QED BY <1>1, <3>3, <3>4 DEF DecodesTo
  <2>. QED BY <2>1, <2>2, <2>3
<1>. QED BY <1>1, <1>3, <1>4

(* A message of an extension makes the decoder fail once its id is there.  *)
LEMMA ExtensionDecoded ==
  /\ encode(Extension) \in Seq(Byte)
  /\ \A buf \in Seq(Byte) : Agrees(buf, encode(Extension)) =>
       DecodesTo(decode(buf), Extension, buf, encode(Extension))
<1>. DEFINE e == encode(Extension)
<1>1. 1 \in U32
  BY DEF U32, Byte
<1>2. put_u32(1) \in Seq(Byte) /\ Len(put_u32(1)) = 4
  BY <1>1, NumberBytes
<1>3. <<UNKNOWN_ID>> \in Seq(Byte) /\ Len(<<UNKNOWN_ID>>) = 1 /\ <<UNKNOWN_ID>>[1] = UNKNOWN_ID
  BY CodecAssumption
<1>4. <<>> \in Seq(Byte) /\ Len(<<>>) = 0
  OBVIOUS
<1>5. e = put_u32(1) \o <<UNKNOWN_ID>> \o <<>> \o <<>>
  <2>1. Extension # KeepAlive /\ Extension.numbers = <<>> /\ Extension.data = <<>>
    BY DEF KeepAlive, Extension, Message
  <2>2. MsgLen(Extension) = 1 /\ 4 * Len(Extension.numbers) = 0
    BY <2>1 DEF MsgLen
  <2>3. [i \in 1 .. 4 * Len(Extension.numbers) |->
           put_u32(Extension.numbers[((i - 1) \div 4) + 1])[((i - 1) % 4) + 1]] = <<>>
    BY <2>2
  <2>. QED BY <2>1, <2>2, <2>3 DEF encode
<1>. HIDE DEF e
<1>6. e \in Seq(Byte) /\ Len(e) = 4 + 1 /\ (\A t \in 1 .. 4 : e[t] = put_u32(1)[t]) /\ e[4 + 1] = UNKNOWN_ID
  <2>1. /\ e \in Seq(Byte)
        /\ Len(e) = Len(put_u32(1)) + Len(<<UNKNOWN_ID>>) + Len(<<>>) + Len(<<>>)
        /\ \A k \in 1 .. Len(put_u32(1)) : e[k] = put_u32(1)[k]
        /\ \A k \in 1 .. Len(<<UNKNOWN_ID>>) : e[Len(put_u32(1)) + k] = <<UNKNOWN_ID>>[k]
    BY <1>2, <1>3, <1>4, <1>5, FourParts
  <2>2. 1 \in 1 .. Len(<<UNKNOWN_ID>>)
    BY <1>3
  <2>3. e[4 + 1] = <<UNKNOWN_ID>>[1]
    BY <1>2, <2>1, <2>2
  <2>. QED BY SMTT(30), <1>2, <1>3, <1>4, <2>1, <2>3
<1>7. ASSUME NEW buf \in Seq(Byte), Agrees(buf, e)
      PROVE  DecodesTo(decode(buf), Extension, buf, e)
  <2>1. Len(buf) \in Nat
    OBVIOUS
  <2>2. ASSUME Len(buf) >= 4
        PROVE  get_u32(buf, 0) = 1
    <3>1. \A t \in 1 .. 4 : buf[0 + t] = put_u32(1)[t]
      BY <1>6, <1>7, <2>1, <2>2 DEF Agrees
    <3>. QED BY <1>1, <3>1, NumberFound
  <2>3. CASE Len(buf) < 5
    <3>1. Len(buf) < 4 \/ Len(buf) < 4 + get_u32(buf, 0)
      BY <2>1, <2>2, <2>3
    <3>2. decode(buf) = NeedMore
      BY <3>1 DEF decode
    <3>. QED BY <1>6, <2>3, <3>2 DEF DecodesTo
  <2>4. CASE Len(buf) >= 5
    <3>1. get_u32(buf, 0) = 1 /\ buf[5] = UNKNOWN_ID
      BY <1>6, <1>7, <2>1, <2>2, <2>4 DEF Agrees
    <3>2. {type \in DOMAIN MessageId : MessageId[type] = buf[5]} = {}
      BY <3>1, Ids
    <3>3. decode(buf) = Failed
      BY <2>1, <2>4, <3>1, <3>2 DEF decode
    <3>. QED BY <1>6, <2>1, <2>4, <3>3 DEF DecodesTo
  <2>. QED BY <2>1, <2>3, <2>4
<1>. QED BY <1>6, <1>7 DEF e

(* The handshake is decoded from its bytes, and from no fewer.             *)
LEMMA HandshakeDecoded ==
  ASSUME NEW hs, hs = Handshake(PEER_FIELDS)
  PROVE  /\ encode_handshake(hs) \in Seq(Byte) /\ hs # Extension /\ hs.type = "Handshake"
         /\ \A buf \in Seq(Byte) : Agrees(buf, encode_handshake(hs)) =>
              DecodesTo(decode_handshake(buf), hs, buf, encode_handshake(hs))
<1>. DEFINE e == encode_handshake(hs)
            prot == [k \in 1 .. PROT_LEN |-> 255]
<1>1. PROT_LEN \in Nat /\ FIELDS_LEN \in Nat /\ PROT_LEN \in Byte
  BY CodecAssumption DEF Byte
<1>2. prot \in Seq(Byte) /\ Len(prot) = PROT_LEN
  BY <1>1 DEF Byte
<1>3. PEER_FIELDS \in Seq(Byte) /\ Len(PEER_FIELDS) = FIELDS_LEN
  <2>1. /\ PEER_FIELDS = [k \in 1 .. FIELDS_LEN |-> PEER_FIELDS[k]]
        /\ \A k \in 1 .. FIELDS_LEN : PEER_FIELDS[k] \in Byte
    BY CodecAssumption
  <2>. QED BY <1>1, <2>1, FunctionSeq
<1>4. <<PROT_LEN>> \in Seq(Byte) /\ Len(<<PROT_LEN>>) = 1 /\ <<PROT_LEN>>[1] = PROT_LEN
  BY <1>1
<1>5. <<>> \in Seq(Byte) /\ Len(<<>>) = 0
  OBVIOUS
<1>6. e = <<PROT_LEN>> \o prot \o PEER_FIELDS \o <<>>
  <2>1. e = <<PROT_LEN>> \o prot \o PEER_FIELDS
    BY DEF encode_handshake, Handshake
  <2>2. <<PROT_LEN>> \o prot \o PEER_FIELDS \in Seq(Byte)
    <3>. HIDE DEF prot
    <3>. QED BY <1>2, <1>3, <1>4
  <2>3. \A s \in Seq(Byte) : s \o <<>> = s
    OBVIOUS
  <2>. QED BY <2>1, <2>2, <2>3
<1>. HIDE DEF e, prot
<1>7. /\ e \in Seq(Byte) /\ Len(e) = (1 + PROT_LEN) + FIELDS_LEN /\ e[1] = PROT_LEN
      /\ \A k \in 1 .. FIELDS_LEN : e[(1 + PROT_LEN) + k] = PEER_FIELDS[k]
  <2>1. /\ e \in Seq(Byte)
        /\ Len(e) = Len(<<PROT_LEN>>) + Len(prot) + Len(PEER_FIELDS) + Len(<<>>)
        /\ \A k \in 1 .. Len(<<PROT_LEN>>) : e[k] = <<PROT_LEN>>[k]
        /\ \A k \in 1 .. Len(PEER_FIELDS) :
             e[Len(<<PROT_LEN>>) + Len(prot) + k] = PEER_FIELDS[k]
    <3>. DEFINE first == <<PROT_LEN>>
                last == <<>>
    <3>1. /\ first \in Seq(Byte) /\ prot \in Seq(Byte) /\ PEER_FIELDS \in Seq(Byte)
          /\ last \in Seq(Byte) /\ e = first \o prot \o PEER_FIELDS \o last
      BY <1>2, <1>3, <1>4, <1>5, <1>6
    <3>. HIDE DEF first, last
    <3>2. /\ e \in Seq(Byte) /\ Len(e) = Len(first) + Len(prot) + Len(PEER_FIELDS) + Len(last)
          /\ \A k \in 1 .. Len(first) : e[k] = first[k]
          /\ \A k \in 1 .. Len(PEER_FIELDS) : e[Len(first) + Len(prot) + k] = PEER_FIELDS[k]
      BY <3>1, FourParts
    <3>. QED BY <3>2 DEF first, last
  <2>. QED BY <1>1, <1>2, <1>3, <1>4, <1>5, <2>1
<1>8. hs # Extension /\ hs.type = "Handshake"
  BY DEF Handshake, Extension, Message
<1>9. ASSUME NEW buf \in Seq(Byte), Agrees(buf, e)
      PROVE  DecodesTo(decode_handshake(buf), hs, buf, e)
  <2>1. Len(buf) \in Nat /\ (buf = <<>> <=> Len(buf) = 0)
    OBVIOUS
  <2>2. CASE Len(buf) < Len(e)
    <3>1. buf # <<>> => buf[1] = PROT_LEN
      BY <1>1, <1>7, <1>9, <2>1 DEF Agrees
    <3>2. Len(buf) <= PROT_LEN + FIELDS_LEN
      BY <1>1, <1>7, <2>1, <2>2
    <3>3. decode_handshake(buf) = NeedMore
      BY <3>1, <3>2 DEF decode_handshake
    <3>. QED BY <2>2, <3>3 DEF DecodesTo
  <2>3. CASE Len(buf) >= Len(e)
    <3>1. /\ buf # <<>> /\ buf[1] = PROT_LEN /\ ~ (Len(buf) <= PROT_LEN + FIELDS_LEN)
          /\ ~ (Len(buf) < Len(e))
      BY <1>1, <1>7, <1>9, <2>1, <2>3 DEF Agrees
    <3>2. SubSeq(buf, 2 + PROT_LEN, 1 + PROT_LEN + FIELDS_LEN) = PEER_FIELDS
      <4>. DEFINE at == 1 + PROT_LEN
      <4>1. at \in Nat /\ at + Len(PEER_FIELDS) <= Len(buf)
        BY <1>1, <1>3, <1>7, <2>1, <2>3
      <4>2. ASSUME NEW k \in 1 .. Len(PEER_FIELDS)
            PROVE  buf[at + k] = PEER_FIELDS[k]
        <5>1. at + k \in 1 .. Len(e) /\ at + k <= Len(buf)
          BY <1>1, <1>3, <1>7, <2>1, <4>1
        <5>2. e[at + k] = PEER_FIELDS[k]
          BY <1>3, <1>7
        <5>. QED BY <1>9, <5>1, <5>2 DEF Agrees
      <4>3. at + 1 = 2 + PROT_LEN /\ at + Len(PEER_FIELDS) = 1 + PROT_LEN + FIELDS_LEN
        BY <1>1, <1>3
      <4>. HIDE DEF at
      <4>4. SubSeq(buf, at + 1, at + Len(PEER_FIELDS)) = PEER_FIELDS
        BY <1>3, <4>1, <4>2, DataFound
      <4>. QED BY <4>3, <4>4
    <3>3. decode_handshake(buf) = Decoded(hs, Drop(buf, 1 + PROT_LEN + FIELDS_LEN))
      BY <3>1, <3>2 DEF decode_handshake
    <3>4. 1 + PROT_LEN + FIELDS_LEN = Len(e)
      BY <1>1, <1>7
    <3>. QED BY <1>8, <3>1, <3>3, <3>4 DEF DecodesTo
  <2>. QED BY <1>1, <1>7, <2>1, <2>2, <2>3
<1>. QED BY <1>7, <1>8, <1>9 DEF e

-----------------------------------------------------------------------------
(* PeerCodec: the stream.                                                  *)

\* What a peer may send.
Items == Messages \cup {Handshake(PEER_FIELDS)}

(* What the peer sends, and what the codec that is used then makes of it.  *)
LEMMA SentDecoded ==
  ASSUME input \in StreamInputs
  PROVE  /\ Sent \in Seq(Items) /\ Len(Sent) \in Nat \ {0} /\ DOMAIN Sent = 1 .. Len(Sent)
         /\ \A k \in 1 .. Len(Sent) : Encoded(Sent[k]) \in Seq(Byte)
         /\ \A g \in 0 .. Len(Sent) - 1 : \A buf \in Seq(Byte) :
              Agrees(buf, Encoded(Sent[g + 1])) =>
                DecodesTo(IF g = 0 THEN decode_handshake(buf) ELSE decode(buf),
                          Sent[g + 1], buf, Encoded(Sent[g + 1]))
<1>. DEFINE hs == Handshake(PEER_FIELDS)
            messages == input.messages
<1>1. messages \in Seq(Messages)
  <2>1. messages \in Streams
    <3>1. PICK m \in Streams : input = [algorithm |-> "stream", messages |-> m]
      BY Zenon DEF StreamInputs
    <3>. QED BY <3>1
  <2>2. \A m \in Streams : m \in Seq(Messages)
    BY CodecAssumption
  <2>. QED BY <2>1, <2>2, Zenon
<1>2. hs \in Items /\ Messages \subseteq Items
  BY DEF Items
<1>3. Sent = <<hs>> \o messages
  BY DEF Sent
<1>. HIDE DEF hs, messages
<1>4. /\ Sent \in Seq(Items) /\ Len(Sent) = 1 + Len(messages) /\ Sent[1] = hs
      /\ \A k \in 2 .. Len(Sent) : Sent[k] = messages[k - 1]
  <2>1. messages \in Seq(Items)
    BY <1>1, <1>2
  <2>. QED BY <1>2, <1>3, <2>1, Prepended
<1>5. Len(messages) \in Nat /\ \A k \in 2 .. Len(Sent) : Sent[k] \in Messages
  BY <1>1, <1>4
<1>6. ASSUME NEW msg \in Messages
      PROVE  /\ msg.type # "Handshake" /\ encode(msg) \in Seq(Byte)
             /\ \A buf \in Seq(Byte) : Agrees(buf, encode(msg)) =>
                  DecodesTo(decode(buf), msg, buf, encode(msg))
  <2>1. CASE msg = KeepAlive
    BY <2>1, KeepAliveDecoded DEF KeepAlive, Message
  <2>2. CASE msg = Extension
    BY <2>2, ExtensionDecoded DEF Extension, Message
  <2>3. CASE msg \in Known
    <3>1. msg.type # "Handshake" /\ encode(msg) \in Seq(Byte)
      BY <2>3, KnownMessage, EncodedLayout DEF IsLayout
    <3>. QED BY <2>3, <3>1, KnownDecoded
  <2>. QED BY <2>1, <2>2, <2>3 DEF Known
<1>7. /\ hs.type = "Handshake" /\ encode_handshake(hs) \in Seq(Byte)
      /\ \A buf \in Seq(Byte) : Agrees(buf, encode_handshake(hs)) =>
           DecodesTo(decode_handshake(buf), hs, buf, encode_handshake(hs))
  BY HandshakeDecoded DEF hs
<1>8. Encoded(hs) = encode_handshake(hs) /\ \A msg \in Messages : Encoded(msg) = encode(msg)
  BY <1>6, <1>7 DEF Encoded
<1>9. ASSUME NEW k \in 1 .. Len(Sent)
      PROVE  Encoded(Sent[k]) \in Seq(Byte)
  <2>1. CASE k = 1
    BY <1>4, <1>7, <1>8, <2>1
  <2>2. CASE k # 1
    <3>1. Sent[k] \in Messages
      BY <1>4, <1>5, <2>2
    <3>. QED BY <1>6, <1>8, <3>1
  <2>. QED BY <2>1, <2>2
<1>10. ASSUME NEW g \in 0 .. Len(Sent) - 1, NEW buf \in Seq(Byte), Agrees(buf, Encoded(Sent[g + 1]))
       PROVE  DecodesTo(IF g = 0 THEN decode_handshake(buf) ELSE decode(buf),
                        Sent[g + 1], buf, Encoded(Sent[g + 1]))
  <2>1. CASE g = 0
    <3>1. Sent[g + 1] = hs
      BY <1>4, <2>1
    <3>2. Agrees(buf, encode_handshake(hs))
      BY <1>8, <1>10, <3>1
    <3>3. DecodesTo(decode_handshake(buf), hs, buf, encode_handshake(hs))
      BY <1>7, <3>2
    <3>. QED BY <1>8, <2>1, <3>1, <3>3
  <2>2. CASE g # 0
    <3>1. Sent[g + 1] \in Messages
      BY <1>4, <1>5, <2>2
    <3>2. Encoded(Sent[g + 1]) = encode(Sent[g + 1])
      BY <1>8, <3>1
    <3>3. DecodesTo(decode(buf), Sent[g + 1], buf, encode(Sent[g + 1]))
      BY <1>6, <1>10, <3>1, <3>2
    <3>. QED BY <2>2, <3>2, <3>3
  <2>. QED BY <2>1, <2>2
<1>11. Len(Sent) \in Nat \ {0} /\ DOMAIN Sent = 1 .. Len(Sent)
  BY <1>4, <1>5
<1>. QED BY <1>4, <1>9, <1>10, <1>11

\* The stream's bytes after the first `from` ones, up to byte `to`.
Piece(s, bytes, from, to) ==
  s \in Seq(Byte) /\ Len(s) = to - from /\ \A k \in 1 .. Len(s) : s[k] = bytes[from + k]

(* Pieces of a stream that are cut or put together are pieces.             *)
LEMMA PieceCut ==
  ASSUME NEW s, NEW bytes, NEW from \in Nat, NEW to \in Nat, Piece(s, bytes, from, to),
         NEW n \in 0 .. Len(s)
  PROVE  Piece(SubSeq(s, 1, n), bytes, from, from + n) /\ Piece(Drop(s, n), bytes, from + n, to)
<1>1. s \in Seq(Byte) /\ Len(s) \in Nat /\ Len(s) = to - from /\ n \in Nat /\ n <= Len(s)
  BY DEF Piece
<1>2. \A k \in 1 .. Len(s) : s[k] = bytes[from + k]
  BY DEF Piece
<1>3. Piece(SubSeq(s, 1, n), bytes, from, from + n)
  <2>. DEFINE t == SubSeq(s, 1, n)
  <2>1. t \in Seq(Byte) /\ Len(t) = n /\ \A k \in 1 .. n : t[k] = s[k]
    BY <1>1
  <2>. HIDE DEF t
  <2>2. Piece(t, bytes, from, from + n)
    <3>1. Len(t) = (from + n) - from
      BY <1>1, <2>1
    <3>2. \A k \in 1 .. Len(t) : t[k] = bytes[from + k]
      BY <1>1, <1>2, <2>1
    <3>. QED BY <2>1, <3>1, <3>2 DEF Piece
  <2>. QED BY <2>2 DEF t
<1>4. Piece(Drop(s, n), bytes, from + n, to)
  <2>. DEFINE t == SubSeq(s, n + 1, Len(s))
  <2>1. t \in Seq(Byte) /\ Len(t) = Len(s) - n /\ \A k \in 1 .. Len(t) : t[k] = s[n + k]
    BY <1>1
  <2>. HIDE DEF t
  <2>2. \A k \in 1 .. Len(t) : t[k] = bytes[(from + n) + k]
    <3>1. ASSUME NEW k \in 1 .. Len(t)
          PROVE  t[k] = bytes[(from + n) + k]
      <4>1. n + k \in 1 .. Len(s) /\ from + (n + k) = (from + n) + k
        BY <1>1, <2>1
      <4>. QED BY <1>2, <2>1, <4>1
    <3>. QED BY <3>1
  <2>3. Len(t) = to - (from + n)
    BY <1>1, <2>1
  <2>4. Piece(t, bytes, from + n, to)
    BY <2>1, <2>2, <2>3 DEF Piece
  <2>. QED BY <2>4 DEF t, Drop
<1>. QED BY <1>3, <1>4

LEMMA PiecesJoined ==
  ASSUME NEW s, NEW t, NEW bytes, NEW from \in Nat, NEW mid \in Nat, NEW to \in Nat,
         Piece(s, bytes, from, mid), Piece(t, bytes, mid, to)
  PROVE  Piece(s \o t, bytes, from, to)
<1>1. /\ s \in Seq(Byte) /\ Len(s) \in Nat /\ Len(s) = mid - from
      /\ t \in Seq(Byte) /\ Len(t) \in Nat /\ Len(t) = to - mid
  BY DEF Piece
<1>2. /\ \A k \in 1 .. Len(s) : s[k] = bytes[from + k]
      /\ \A k \in 1 .. Len(t) : t[k] = bytes[mid + k]
  BY DEF Piece
<1>. DEFINE u == s \o t
<1>3. /\ u \in Seq(Byte) /\ Len(u) = Len(s) + Len(t)
      /\ \A k \in 1 .. Len(u) : u[k] = IF k <= Len(s) THEN s[k] ELSE t[k - Len(s)]
  BY <1>1
<1>. HIDE DEF u
<1>4. ASSUME NEW k \in 1 .. Len(u)
      PROVE  u[k] = bytes[from + k]
  <2>1. CASE k <= Len(s)
    BY <1>1, <1>2, <1>3, <2>1
  <2>2. CASE ~ (k <= Len(s))
    <3>1. k - Len(s) \in 1 .. Len(t) /\ mid + (k - Len(s)) = from + k
      BY <1>1, <1>3, <2>2
    <3>. QED BY <1>2, <1>3, <2>2, <3>1
  <2>. QED BY <2>1, <2>2
<1>5. Len(u) = to - from
  BY <1>1, <1>3
<1>6. Piece(u, bytes, from, to)
  BY <1>3, <1>4, <1>5 DEF Piece
<1>. QED BY <1>6 DEF u

\* A stream of messages with these ends: each message's bytes, between its ends.
IsStream(bytes, ends, sent) ==
  /\ ends \in [0 .. Len(sent) -> Nat] /\ ends[0] = 0
  /\ \A k \in 1 .. Len(sent) : ends[k] = ends[k - 1] + Len(Encoded(sent[k]))
  /\ \A k \in 0 .. Len(sent) : ends[k] <= ends[Len(sent)]
  /\ bytes \in Seq(Byte) /\ Len(bytes) = ends[Len(sent)]
  /\ \A k \in 1 .. Len(sent) : \A j \in 1 .. Len(Encoded(sent[k])) :
       bytes[ends[k - 1] + j] = Encoded(sent[k])[j]

(* The stream of messages is one.                                          *)
LEMMA StreamIsStream ==
  ASSUME NEW S, NEW sent \in Seq(S), \A k \in 1 .. Len(sent) : Encoded(sent[k]) \in Seq(Byte)
  PROVE  IsStream(Stream(sent), Ends(sent), sent)
<1>. DEFINE lens == [k \in DOMAIN sent |-> Len(Encoded(sent[k]))]
            n == Len(sent)
            c == Ends(sent)
            bytes == Stream(sent)
<1>1. n \in Nat /\ DOMAIN sent = 1 .. n
  OBVIOUS
<1>2. \A k \in 1 .. n : Len(Encoded(sent[k])) \in Nat
  OBVIOUS
<1>3. lens \in Seq(Nat) /\ Len(lens) = n /\ \A k \in 1 .. n : lens[k] = Len(Encoded(sent[k]))
  BY <1>1, <1>2
<1>4. c = PartialSums(lens)
  BY DEF Ends
<1>5. bytes = [i \in 1 .. c[n] |->
                LET k == CHOOSE k \in DOMAIN sent : c[k - 1] < i /\ i <= c[k]
                IN Encoded(sent[k])[i - c[k - 1]]]
  BY Zenon DEF Stream
<1>. HIDE DEF lens, c, n, bytes
<1>6. /\ c \in [0 .. n -> Nat] /\ c[0] = 0
      /\ \A k \in 1 .. n : c[k] = c[k - 1] + Len(Encoded(sent[k]))
  BY <1>3, <1>4, PartialSumsDef
<1>7. \A i \in 0 .. n : \A j \in i .. n : c[i] <= c[j]
  BY <1>3, <1>4, PartialSumsGrow
<1>8. ASSUME NEW k \in 1 .. n, NEW m \in 1 .. n, NEW i \in Nat,
             c[k - 1] < i, i <= c[k], c[m - 1] < i, i <= c[m]
      PROVE  k = m
  <2>1. c[k - 1] \in Nat /\ c[k] \in Nat /\ c[m - 1] \in Nat /\ c[m] \in Nat
    BY SMTT(30), <1>1, <1>6
  <2>2. ~ (k < m)
    <3>1. k < m => k \in 0 .. n /\ m - 1 \in k .. n
      BY <1>1
    <3>2. k < m => c[k] <= c[m - 1]
      BY <1>7, <3>1
    <3>. QED BY <1>8, <2>1, <3>2
  <2>3. ~ (m < k)
    <3>1. m < k => m \in 0 .. n /\ k - 1 \in m .. n
      BY <1>1
    <3>2. m < k => c[m] <= c[k - 1]
      BY <1>7, <3>1
    <3>. QED BY <1>8, <2>1, <3>2
  <2>. QED BY <1>1, <2>2, <2>3
<1>9. ASSUME NEW k \in 1 .. n, NEW j \in 1 .. Len(Encoded(sent[k]))
      PROVE  c[k - 1] + j \in 1 .. c[n] /\ bytes[c[k - 1] + j] = Encoded(sent[k])[j]
  <2>. DEFINE i == c[k - 1] + j
              found == CHOOSE m \in DOMAIN sent : c[m - 1] < i /\ i <= c[m]
  <2>1. c[k - 1] \in Nat /\ c[k] \in Nat /\ c[n] \in Nat /\ Len(Encoded(sent[k])) \in Nat
    BY <1>1, <1>2, <1>6
  <2>2. c[k] = c[k - 1] + Len(Encoded(sent[k])) /\ c[k] <= c[n]
    BY <1>1, <1>6, <1>7
  <2>3. i \in Nat /\ c[k - 1] < i /\ i <= c[k] /\ i \in 1 .. c[n] /\ i - c[k - 1] = j
    BY SMTT(30), <2>1, <2>2
  <2>4. bytes[i] = Encoded(sent[found])[i - c[found - 1]]
    BY <1>5, <2>3
  <2>. HIDE DEF i
  <2>5. found \in 1 .. n /\ c[found - 1] < i /\ i <= c[found]
    BY <1>1, <2>3
  <2>. HIDE DEF found
  <2>6. found = k
    BY <1>8, <2>3, <2>5
  <2>. QED BY <2>3, <2>4, <2>6 DEF i
<1>10. ASSUME NEW i \in 1 .. c[n]
       PROVE  bytes[i] \in Byte
  <2>. DEFINE after == {m \in 0 .. n : i <= c[m]}
  <2>1. c[n] \in Nat /\ i \in Nat /\ n \in after
    BY <1>1, <1>6
  <2>2. PICK m \in after : \A p \in after : m <= p
    <3>1. after \subseteq Nat
      BY <1>1
    <3>. HIDE DEF after
    <3>. QED BY <2>1, <3>1, LeastNumber
  <2>3. m # 0
    BY <1>6
  <2>4. m \in 1 .. n /\ m - 1 \in 0 .. n /\ m - 1 \notin after
    BY <1>1, <2>2, <2>3
  <2>5. c[m - 1] \in Nat /\ c[m] \in Nat /\ c[m - 1] < i /\ i <= c[m]
    <3>1. c[m - 1] \in Nat /\ c[m] \in Nat
      BY <1>6, <2>4
    <3>2. i <= c[m] /\ ~ (i <= c[m - 1])
      BY <2>2, <2>4
    <3>. QED BY <2>1, <3>1, <3>2
  <2>6. c[m] = c[m - 1] + Len(Encoded(sent[m])) /\ Len(Encoded(sent[m])) \in Nat
    BY <1>2, <1>6, <2>4
  <2>7. i - c[m - 1] \in 1 .. Len(Encoded(sent[m])) /\ c[m - 1] + (i - c[m - 1]) = i
    BY <2>1, <2>5, <2>6
  <2>8. bytes[c[m - 1] + (i - c[m - 1])] = Encoded(sent[m])[i - c[m - 1]]
    BY <1>9, <2>4, <2>7
  <2>9. Encoded(sent[m]) \in Seq(Byte)
    BY <2>4 DEF n
  <2>. QED BY <2>7, <2>8, <2>9
<1>11. bytes \in Seq(Byte) /\ Len(bytes) = c[n]
  <2>. DEFINE last == c[n]
  <2>1. last \in Nat /\ bytes = [i \in 1 .. last |-> bytes[i]] /\ \A i \in 1 .. last : bytes[i] \in Byte
    <3>1. last \in Nat
      BY <1>1, <1>6
    <3>2. bytes = [i \in 1 .. last |-> bytes[i]]
      BY <1>5
    <3>. QED BY <1>10, <3>1, <3>2
  <2>. HIDE DEF last
  <2>2. bytes \in Seq(Byte) /\ Len(bytes) = last
    BY <2>1, FunctionSeq
  <2>. QED BY <2>2 DEF last
<1>12. \A k \in 0 .. n : c[k] <= c[n]
  BY <1>1, <1>7
<1>13. \A k \in 1 .. n : \A j \in 1 .. Len(Encoded(sent[k])) : bytes[c[k - 1] + j] = Encoded(sent[k])[j]
  BY <1>9
<1>14. IsStream(bytes, c, sent)
  BY <1>6, <1>11, <1>12, <1>13, Zenon DEF IsStream, n
<1>. QED BY <1>14 DEF bytes, c

-----------------------------------------------------------------------------
(* PeerCodec: the inductive invariant.                                     *)

\* After g messages, the first `arrived` bytes have been read, and those behind
\* the g messages are in the buffer.
Halfway(r, bytes, ends, g, arrived) ==
  /\ g \in 0 .. Len(Sent) /\ g = Len(r.got) /\ r.got \in Seq(Items)
  /\ \A k \in 1 .. g : r.got[k] = Sent[k] /\ Sent[k] # Extension
  /\ arrived \in Nat
  /\ Piece(r.read_buf, bytes, ends[g], arrived)
  /\ Piece(r.wire, bytes, arrived, ends[Len(Sent)])
  /\ r.codec \in {"HandshakeCodec", "PeerCodec", "closed"}
  /\ r.codec = "HandshakeCodec" => g = 0
  /\ r.codec = "PeerCodec" => g > 0
  /\ r.codec = "closed" => g < Len(Sent) /\ Sent[g + 1] = Extension

StreamRecord(r) ==
  r = [op |-> "stream", codec |-> r.codec, read_buf |-> r.read_buf, got |-> r.got, wire |-> r.wire]

StreamInv ==
  /\ input \in StreamInputs
  /\ \/ result = NotRun
     \/ /\ StreamRecord(result)
        /\ \E g, arrived : Halfway(result, Stream(Sent), Ends(Sent), g, arrived)

(* What the codec makes of the buffer, given how far the session is.       *)
LEMMA PolledIs ==
  ASSUME input \in StreamInputs, NEW r, NEW bytes, NEW ends, NEW g, NEW arrived,
         IsStream(bytes, ends, Sent), Halfway(r, bytes, ends, g, arrived), r.codec # "closed"
  PROVE  /\ g < Len(Sent) => DecodesTo(Polled(r), Sent[g + 1], r.read_buf, Encoded(Sent[g + 1]))
         /\ g = Len(Sent) => Polled(r) = NeedMore
<1>1. /\ g \in 0 .. Len(Sent) /\ Len(Sent) \in Nat \ {0} /\ arrived \in Nat
      /\ r.codec = (IF g = 0 THEN "HandshakeCodec" ELSE "PeerCodec")
  BY SentDecoded DEF Halfway
<1>2. Polled(r) = IF g = 0 THEN decode_handshake(r.read_buf) ELSE decode(r.read_buf)
  BY <1>1 DEF Polled
<1>3. /\ r.read_buf \in Seq(Byte) /\ Len(r.read_buf) \in Nat /\ Len(r.read_buf) = arrived - ends[g]
      /\ \A k \in 1 .. Len(r.read_buf) : r.read_buf[k] = bytes[ends[g] + k]
      /\ Len(r.wire) \in Nat /\ Len(r.wire) = ends[Len(Sent)] - arrived
  BY DEF Halfway, Piece
<1>4. /\ \A k \in 0 .. Len(Sent) : ends[k] \in Nat
      /\ \A k \in 1 .. Len(Sent) : \A j \in 1 .. Len(Encoded(Sent[k])) :
           bytes[ends[k - 1] + j] = Encoded(Sent[k])[j]
  BY DEF IsStream
<1>5. ASSUME g < Len(Sent)
      PROVE  DecodesTo(Polled(r), Sent[g + 1], r.read_buf, Encoded(Sent[g + 1]))
  <2>. DEFINE e == Encoded(Sent[g + 1])
  <2>1. g + 1 \in 1 .. Len(Sent) /\ g \in 0 .. Len(Sent) - 1 /\ (g + 1) - 1 = g
    BY <1>1, <1>5
  <2>2. \A j \in 1 .. Len(e) : bytes[ends[g] + j] = e[j]
    BY <1>4, <2>1
  <2>3. e \in Seq(Byte) /\ Len(e) \in Nat
    BY <2>1, SentDecoded
  <2>4. Agrees(r.read_buf, e)
    <3>. HIDE DEF e
    <3>1. ASSUME NEW k \in 1 .. Len(e), k <= Len(r.read_buf)
          PROVE  r.read_buf[k] = e[k]
      <4>1. k \in 1 .. Len(r.read_buf)
        BY <1>3, <2>3, <3>1
      <4>. QED BY <1>3, <2>2, <4>1
    <3>. QED BY <3>1 DEF Agrees
  <2>5. DecodesTo(IF g = 0 THEN decode_handshake(r.read_buf) ELSE decode(r.read_buf),
                  Sent[g + 1], r.read_buf, e)
    BY <1>3, <2>1, <2>4, SentDecoded
  <2>. QED BY <1>2, <2>5
<1>6. ASSUME g = Len(Sent)
      PROVE  Polled(r) = NeedMore
  <2>1. ends[g] \in Nat /\ Len(r.read_buf) = 0 /\ g # 0
    BY <1>1, <1>3, <1>4, <1>6
  <2>. QED BY <1>2, <2>1 DEF decode
<1>. QED BY <1>5, <1>6

(* The bytes of the stream of what the peer sends.                         *)
LEMMA SentIsStream ==
  ASSUME input \in StreamInputs
  PROVE  IsStream(Stream(Sent), Ends(Sent), Sent)
BY SentDecoded, StreamIsStream

(* What the invariant says about what is received.                         *)
LEMMA StreamInvReceived ==
  ASSUME StreamInv
  PROVE  StreamReceived
<1>1. SUFFICES ASSUME result.op = "stream"
               PROVE  LET got == Len(result.got)
                      IN /\ got <= Len(Sent)
                         /\ \A k \in 1 .. got : result.got[k] = Sent[k] /\ Sent[k] # Extension
                         /\ result.codec = "closed" => got < Len(Sent) /\ Sent[got + 1] = Extension
                         /\ result.wire = <<>> /\ Reading("none") => got = Len(Sent)
  BY DEF StreamReceived
<1>. DEFINE bytes == Stream(Sent)
            ends == Ends(Sent)
            n == Len(Sent)
<1>2. input \in StreamInputs /\ n \in Nat \ {0}
  BY SentDecoded DEF StreamInv
<1>3. PICK g, arrived : Halfway(result, bytes, ends, g, arrived)
  BY <1>1 DEF StreamInv, NotRun
<1>4. IsStream(bytes, ends, Sent)
  BY <1>2, SentIsStream
<1>. HIDE DEF bytes, ends
<1>5. /\ g \in 0 .. n /\ g = Len(result.got)
      /\ \A k \in 1 .. g : result.got[k] = Sent[k] /\ Sent[k] # Extension
      /\ result.codec = "closed" => g < n /\ Sent[g + 1] = Extension
  BY <1>3 DEF Halfway
<1>6. ASSUME result.wire = <<>>, Reading("none"), g < n
      PROVE  FALSE
  <2>. DEFINE e == Encoded(Sent[g + 1])
  <2>1. result.codec # "closed" /\ Polled(result).kind = "none"
    BY <1>6 DEF Reading
  <2>2. DecodesTo(Polled(result), Sent[g + 1], result.read_buf, e)
    BY <1>2, <1>3, <1>4, <1>6, <2>1, PolledIs
  <2>3. Len(result.read_buf) = arrived - ends[g] /\ Len(result.wire) = ends[n] - arrived /\ arrived \in Nat
    BY <1>3 DEF Halfway, Piece
  <2>4. /\ ends[g] \in Nat /\ ends[g + 1] \in Nat /\ ends[n] \in Nat
        /\ ends[g + 1] = ends[g] + Len(e) /\ ends[g + 1] <= ends[n]
    <3>1. g \in 0 .. n /\ g + 1 \in 0 .. n /\ g + 1 \in 1 .. n /\ (g + 1) - 1 = g /\ n \in 0 .. n
      BY <1>2, <1>5, <1>6
    <3>. QED BY <1>4, <3>1 DEF IsStream
  <2>5. Len(e) \in Nat
    <3>1. g + 1 \in 1 .. n
      BY <1>2, <1>5, <1>6
    <3>2. e \in Seq(Byte)
      BY <1>2, <3>1, SentDecoded
    <3>. HIDE DEF e
    <3>. QED BY <3>2
  <2>6. ~ (Len(result.read_buf) < Len(e))
    <3>1. Len(result.wire) = 0
      BY <1>6
    <3>. HIDE DEF e, n
    <3>. QED BY <2>3, <2>4, <2>5, <3>1
  <2>7. Polled(result).kind # "none"
    BY <2>2, <2>6 DEF DecodesTo, Failed, Decoded
  <2>. QED BY <2>1, <2>7
<1>. QED BY <1>2, <1>5, <1>6

(* A step that leaves the input alone keeps the invariant if the session   *)
(* is somewhere in the stream after it.                                    *)
LEMMA StreamGoesOn ==
  ASSUME input \in StreamInputs, input' = input, NEW r, result' = r, StreamRecord(r),
         NEW g, NEW arrived, Halfway(r, Stream(Sent), Ends(Sent), g, arrived)
  PROVE  StreamInv'
<1>1. Sent' = Sent /\ input' \in StreamInputs'
  BY DEF Sent, StreamInputs
<1>2. Stream(Sent)' = Stream(Sent) /\ Ends(Sent)' = Ends(Sent)
  BY <1>1
<1>3. Halfway(result, Stream(Sent), Ends(Sent), g, arrived)'
  BY <1>1, <1>2 DEF Halfway
<1>4. StreamRecord(result)'
  BY DEF StreamRecord
<1>. QED BY <1>1, <1>3, <1>4 DEF StreamInv

(* The session starts with nothing, and everything under way.              *)
LEMMA OpenStreamStep ==
  ASSUME StreamInv, OpenStream
  PROVE  StreamInv'
<1>. DEFINE r == [op |-> "stream", codec |-> "HandshakeCodec", read_buf |-> <<>>, got |-> <<>>,
                  wire |-> Stream(Sent)]
            bytes == Stream(Sent)
            ends == Ends(Sent)
            n == Len(Sent)
<1>1. input' = input /\ result' = r /\ input \in StreamInputs
  BY DEF StreamInv, OpenStream
<1>2. Sent' = Sent
  BY <1>1 DEF Sent
<1>3. IsStream(bytes, ends, Sent) /\ n \in Nat \ {0}
  BY <1>1, SentIsStream, SentDecoded
<1>4. /\ r.got = <<>> /\ r.read_buf = <<>> /\ r.wire = bytes /\ r.codec = "HandshakeCodec"
      /\ StreamRecord(r)
  BY DEF StreamRecord
<1>. HIDE DEF r, bytes, ends, n
<1>5. Piece(r.wire, bytes, 0, ends[n])
  <2>1. bytes \in Seq(Byte) /\ Len(bytes) = ends[n] /\ ends[n] \in Nat
    BY <1>3 DEF IsStream, n
  <2>2. Len(bytes) = ends[n] - 0 /\ \A k \in 1 .. Len(bytes) : bytes[k] = bytes[0 + k]
    BY <2>1
  <2>. QED BY <1>4, <2>1, <2>2 DEF Piece
<1>6. Piece(r.read_buf, bytes, ends[0], 0)
  <2>1. ends[0] = 0
    BY <1>3 DEF IsStream
  <2>. QED BY <1>4, <2>1 DEF Piece
<1>7. 0 \in 0 .. n /\ 0 = Len(r.got) /\ r.got \in Seq(Items) /\ 0 \in Nat
  BY <1>3, <1>4
<1>8. Halfway(r, bytes, ends, 0, 0)
  BY <1>4, <1>5, <1>6, <1>7 DEF Halfway, n
<1>. QED BY <1>1, <1>4, <1>8, StreamGoesOn DEF bytes, ends

(* Where the session is before a step that reads.                          *)
LEMMA ReadingIs ==
  ASSUME StreamInv, NEW kind, Reading(kind)
  PROVE  /\ input \in StreamInputs /\ StreamRecord(result) /\ result.codec # "closed"
         /\ Polled(result).kind = kind
         /\ Len(Sent) \in Nat \ {0} /\ IsStream(Stream(Sent), Ends(Sent), Sent)
         /\ \E g, arrived :
              /\ Halfway(result, Stream(Sent), Ends(Sent), g, arrived)
              /\ kind # "none" =>
                   /\ g < Len(Sent) /\ Len(result.read_buf) >= Len(Encoded(Sent[g + 1]))
                   /\ kind = "error" => Sent[g + 1] = Extension
                   /\ kind # "error" =>
                        /\ Sent[g + 1] # Extension
                        /\ Polled(result) =
                             Decoded(Sent[g + 1], Drop(result.read_buf, Len(Encoded(Sent[g + 1]))))
<1>1. /\ input \in StreamInputs /\ result.op = "stream" /\ result.codec # "closed"
      /\ Polled(result).kind = kind
  BY DEF StreamInv, Reading
<1>2. /\ StreamRecord(result)
      /\ \E g, arrived : Halfway(result, Stream(Sent), Ends(Sent), g, arrived)
  BY <1>1 DEF StreamInv, NotRun
<1>3. Len(Sent) \in Nat \ {0} /\ IsStream(Stream(Sent), Ends(Sent), Sent)
  BY <1>1, SentIsStream, SentDecoded
<1>4. PICK g, arrived : Halfway(result, Stream(Sent), Ends(Sent), g, arrived)
  BY <1>2
<1>. DEFINE e == Encoded(Sent[g + 1])
            out == Polled(result)
<1>5. ASSUME kind # "none"
      PROVE  /\ g < Len(Sent) /\ Len(result.read_buf) >= Len(e)
             /\ kind = "error" => Sent[g + 1] = Extension
             /\ kind # "error" => /\ Sent[g + 1] # Extension
                                  /\ out = Decoded(Sent[g + 1], Drop(result.read_buf, Len(e)))
  <2>1. out # NeedMore
    BY <1>1, <1>5 DEF NeedMore
  <2>2. g \in 0 .. Len(Sent) /\ g # Len(Sent)
    BY <1>1, <1>3, <1>4, <2>1, PolledIs DEF Halfway
  <2>3. g < Len(Sent) /\ g + 1 \in 1 .. Len(Sent)
    BY <1>3, <2>2
  <2>4. DecodesTo(out, Sent[g + 1], result.read_buf, e)
    BY <1>1, <1>3, <1>4, <2>3, PolledIs
  <2>5. e \in Seq(Byte) /\ result.read_buf \in Seq(Byte)
    BY <1>1, <1>4, <2>3, SentDecoded DEF Halfway, Piece
  <2>. HIDE DEF e, out
  <2>6. ~ (Len(result.read_buf) < Len(e)) /\ Len(e) \in Nat /\ Len(result.read_buf) \in Nat
    BY <2>1, <2>4, <2>5 DEF DecodesTo
  <2>7. Len(result.read_buf) >= Len(e)
    BY <2>6
  <2>8. out.kind = kind
    BY <1>1 DEF out
  <2>9. IF Sent[g + 1] = Extension THEN out = Failed
        ELSE out = Decoded(Sent[g + 1], Drop(result.read_buf, Len(e)))
    BY <2>4, <2>6 DEF DecodesTo
  <2>10. Failed.kind = "error" /\ Decoded(Sent[g + 1], Drop(result.read_buf, Len(e))).kind = "msg"
    BY DEF Failed, Decoded
  <2>. QED BY <2>3, <2>7, <2>8, <2>9, <2>10
<1>. QED BY <1>1, <1>2, <1>3, <1>4, <1>5

(* More bytes arrive.                                                      *)
LEMMA ArriveStep ==
  ASSUME StreamInv, Arrive
  PROVE  StreamInv'
<1>. DEFINE bytes == Stream(Sent)
            ends == Ends(Sent)
            n == Len(Sent)
<1>1. PICK k \in 1 .. Len(result.wire) :
        result' = [result EXCEPT !.read_buf = @ \o SubSeq(result.wire, 1, k), !.wire = Drop(@, k)]
  BY DEF Arrive
<1>2. Reading("none") /\ input' = input
  BY DEF Arrive
<1>3. /\ input \in StreamInputs /\ StreamRecord(result) /\ n \in Nat \ {0}
      /\ IsStream(bytes, ends, Sent)
  BY <1>2, ReadingIs
<1>4. PICK g, arrived : Halfway(result, bytes, ends, g, arrived)
  BY <1>2, ReadingIs
<1>. DEFINE codec == result.codec
            read_buf == result.read_buf
            got == result.got
            wire == result.wire
            now == read_buf \o SubSeq(wire, 1, k)
            rest == Drop(wire, k)
            r == [op |-> "stream", codec |-> codec, read_buf |-> now, got |-> got, wire |-> rest]
<1>5. result' = r
  <2>1. result = [op |-> "stream", codec |-> codec, read_buf |-> read_buf, got |-> got, wire |-> wire]
    BY <1>3, Zenon DEF StreamRecord
  <2>2. result' = [result EXCEPT !.read_buf = now, !.wire = rest]
    BY <1>1
  <2>. HIDE DEF codec, read_buf, got, wire, now, rest
  <2>. QED BY <2>1, <2>2
<1>. HIDE DEF bytes, ends, n
<1>6. /\ g \in 0 .. n /\ ends[g] \in Nat /\ ends[n] \in Nat /\ arrived \in Nat
      /\ Piece(read_buf, bytes, ends[g], arrived) /\ Piece(wire, bytes, arrived, ends[n])
  BY <1>3, <1>4 DEF Halfway, IsStream, n
<1>7. k \in 0 .. Len(wire) /\ arrived + k \in Nat
  BY <1>6
<1>8. Piece(SubSeq(wire, 1, k), bytes, arrived, arrived + k) /\ Piece(rest, bytes, arrived + k, ends[n])
  BY <1>6, <1>7, PieceCut
<1>9. Piece(now, bytes, ends[g], arrived + k)
  BY <1>6, <1>7, <1>8, PiecesJoined
<1>10. /\ r.codec = codec /\ r.got = got /\ r.read_buf = now /\ r.wire = rest /\ StreamRecord(r)
  BY DEF StreamRecord
<1>. HIDE DEF now, rest, r
<1>11. Halfway(r, bytes, ends, g, arrived + k)
  BY <1>4, <1>7, <1>8, <1>9, <1>10 DEF Halfway, n
<1>. QED BY <1>2, <1>3, <1>5, <1>10, <1>11, StreamGoesOn DEF bytes, ends

(* The session takes the message at the front of the buffer.               *)
LEMMA DecodeMessageStep ==
  ASSUME StreamInv, DecodeMessage
  PROVE  StreamInv'
<1>. DEFINE bytes == Stream(Sent)
            ends == Ends(Sent)
            n == Len(Sent)
<1>1. Reading("msg") /\ input' = input /\ result' = Received(result, Polled(result))
  BY DEF DecodeMessage
<1>2. /\ input \in StreamInputs /\ StreamRecord(result) /\ n \in Nat \ {0}
      /\ IsStream(bytes, ends, Sent)
  BY <1>1, ReadingIs
<1>3. PICK g, arrived :
        /\ Halfway(result, bytes, ends, g, arrived) /\ g < n
        /\ Len(result.read_buf) >= Len(Encoded(Sent[g + 1])) /\ Sent[g + 1] # Extension
        /\ Polled(result) = Decoded(Sent[g + 1], Drop(result.read_buf, Len(Encoded(Sent[g + 1]))))
  <2>1. "msg" # "none" /\ "msg" # "error"
    OBVIOUS
  <2>. QED BY <1>1, <2>1, ReadingIs
<1>. DEFINE e == Encoded(Sent[g + 1])
            msg == Sent[g + 1]
            codec == result.codec
            read_buf == result.read_buf
            got == result.got
            wire == result.wire
            rest == Drop(read_buf, Len(e))
            now == Append(got, msg)
            r == [op |-> "stream", codec |-> "PeerCodec", read_buf |-> rest, got |-> now, wire |-> wire]
<1>4. result' = r
  <2>1. result = [op |-> "stream", codec |-> codec, read_buf |-> read_buf, got |-> got, wire |-> wire]
    BY <1>2, Zenon DEF StreamRecord
  <2>2. Polled(result).msg = msg /\ Polled(result).rest = rest
    BY <1>3 DEF Decoded
  <2>3. result' = [result EXCEPT !.codec = "PeerCodec", !.read_buf = rest, !.got = now]
    BY <1>1, <2>2 DEF Received
  <2>. HIDE DEF codec, read_buf, got, wire, now, rest, msg, e, bytes, ends, n
  <2>. QED BY <2>1, <2>3
<1>5. g \in 0 .. n /\ g + 1 \in 1 .. n /\ g + 1 \in 0 .. n /\ (g + 1) - 1 = g /\ g \in Nat
  BY <1>2, <1>3 DEF Halfway
<1>6. e \in Seq(Byte) /\ msg \in Items
  BY <1>2, <1>5, SentDecoded
<1>. HIDE DEF bytes, ends, n
<1>7. /\ ends[g] \in Nat /\ ends[n] \in Nat /\ ends[g + 1] = ends[g] + Len(e)
  <2>1. n \in 0 .. n
    BY <1>2
  <2>. QED BY <1>2, <1>5, <2>1 DEF IsStream, n
<1>8. /\ g = Len(got) /\ got \in Seq(Items) /\ arrived \in Nat
      /\ \A k \in 1 .. g : got[k] = Sent[k] /\ Sent[k] # Extension
      /\ Piece(read_buf, bytes, ends[g], arrived) /\ Piece(wire, bytes, arrived, ends[n])
  BY <1>3 DEF Halfway, n
<1>9. Len(e) \in 0 .. Len(read_buf)
  <2>1. Len(e) \in Nat /\ Len(read_buf) \in Nat
    <3>. HIDE DEF e, read_buf
    <3>. QED BY <1>6, <1>8 DEF Piece
  <2>. QED BY <1>3, <2>1
<1>10. Piece(rest, bytes, ends[g + 1], arrived)
  BY <1>7, <1>8, <1>9, PieceCut
<1>11. /\ now \in Seq(Items) /\ g + 1 = Len(now)
       /\ \A k \in 1 .. g + 1 : now[k] = Sent[k] /\ Sent[k] # Extension
  <2>1. msg # Extension /\ msg = Sent[g + 1]
    BY <1>3
  <2>. HIDE DEF msg, got
  <2>2. /\ now \in Seq(Items) /\ g + 1 = Len(now) /\ now[g + 1] = msg
        /\ \A k \in 1 .. g : now[k] = got[k]
    BY <1>6, <1>8
  <2>3. \A k \in 1 .. g + 1 : k \in 1 .. g \/ k = g + 1
    BY <1>5
  <2>. HIDE DEF now
  <2>. QED BY <1>8, <2>1, <2>2, <2>3
<1>12. /\ r.codec = "PeerCodec" /\ r.got = now /\ r.read_buf = rest /\ r.wire = wire /\ StreamRecord(r)
  BY DEF StreamRecord
<1>. HIDE DEF now, rest, wire, r
<1>13. Halfway(r, bytes, ends, g + 1, arrived)
  BY <1>5, <1>8, <1>10, <1>11, <1>12 DEF Halfway, n
<1>. QED BY <1>1, <1>2, <1>4, <1>12, <1>13, StreamGoesOn DEF bytes, ends

(* The session ends at a message it does not know.                         *)
LEMMA DecodeFailsStep ==
  ASSUME StreamInv, DecodeFails
  PROVE  StreamInv'
<1>. DEFINE bytes == Stream(Sent)
            ends == Ends(Sent)
<1>1. Reading("error") /\ input' = input /\ result' = [result EXCEPT !.codec = "closed"]
  BY DEF DecodeFails
<1>2. input \in StreamInputs /\ StreamRecord(result)
  BY <1>1, ReadingIs
<1>3. PICK g, arrived :
        Halfway(result, bytes, ends, g, arrived) /\ g < Len(Sent) /\ Sent[g + 1] = Extension
  <2>1. "error" # "none"
    OBVIOUS
  <2>. QED BY <1>1, <2>1, ReadingIs
<1>. DEFINE read_buf == result.read_buf
            got == result.got
            wire == result.wire
            r == [op |-> "stream", codec |-> "closed", read_buf |-> read_buf, got |-> got, wire |-> wire]
<1>4. result' = r
  <2>1. result = [op |-> "stream", codec |-> result.codec, read_buf |-> read_buf, got |-> got, wire |-> wire]
    BY <1>2, Zenon DEF StreamRecord
  <2>. HIDE DEF read_buf, got, wire
  <2>. QED BY <1>1, <2>1
<1>5. /\ r.codec = "closed" /\ r.got = got /\ r.read_buf = read_buf /\ r.wire = wire /\ StreamRecord(r)
  BY DEF StreamRecord
<1>. HIDE DEF r, bytes, ends
<1>6. Halfway(r, bytes, ends, g, arrived)
  BY <1>3, <1>5 DEF Halfway
<1>. QED BY <1>1, <1>2, <1>4, <1>5, <1>6, StreamGoesOn DEF bytes, ends

(* Every step keeps the invariant.                                         *)
LEMMA StreamStepInv ==
  ASSUME StreamInv, [StreamNext]_vars
  PROVE  StreamInv'
<1>1. CASE UNCHANGED vars
  <2>1. input' = input /\ result' = result /\ Sent' = Sent /\ StreamInputs' = StreamInputs
    BY <1>1 DEF vars, Sent, StreamInputs
  <2>2. CASE result = NotRun
    BY <2>1, <2>2 DEF StreamInv
  <2>3. CASE result # NotRun
    BY <2>1, <2>3, StreamGoesOn DEF StreamInv
  <2>. QED BY <2>2, <2>3
<1>. QED BY <1>1, OpenStreamStep, ArriveStep, DecodeMessageStep, DecodeFailsStep DEF StreamNext

(* PeerCodec's promise, for a handshake and any finite sequence of         *)
(* well-formed messages, cut into any fragments: what is received is what  *)
(* was sent, up to a message of an extension, which the session does not   *)
(* know.  Bytes that encode no message are not considered.                 *)
THEOREM StreamReceivedInOrder == StreamSpec => []StreamReceived
<1>1. ASSUME input \in StreamInputs, result = NotRun
      PROVE  StreamInv
  BY <1>1 DEF StreamInv
<1>. QED BY <1>1, StreamStepInv, StreamInvReceived, PTL DEF StreamSpec
=============================================================================
