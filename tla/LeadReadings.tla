----------------------------- MODULE LeadReadings -----------------------------
(***************************************************************************)
(* What the Lead Engine reads from one symbol's streams: the tape          *)
(* (trade_flow.py, cvd.py), the liquidations, the open interest, and the   *)
(* prices of the symbol and of BTC side by side (lead_engine/rolling.py,   *)
(* liquidation_engine.py, oi_engine.py, btc_leadlag.py).                   *)
(*                                                                         *)
(* Readings are hundredths and are rounded toward zero; a tick is a second *)
(* and prices are logarithms, so a relative change is a difference.        *)
(***************************************************************************)
EXTENDS Integers, Sequences, SequencesExt

CONSTANTS
    ShortWindow, LongWindow,     \* the windows of five seconds and a minute
    LargeMultiple,               \* large_trade_multiple, in halves
    MinSamples,                  \* of a z-score, a percentile
    FlushNotional, CascadeGain,  \* liquidation_velocity and the acceleration, over ShortWindow
    FlatChange, FullChange,      \* FLAT_PCT and FULL_SCALE_PCT, of 10 000
    MinPairs, MaxLag             \* of the correlation, MAX_LAG_BUCKETS

Absent == 1000       \* no reading
Magnitude(n) == IF n >= 0 THEN n ELSE -n
Sign(n) == IF n > 0 THEN 1 ELSE IF n < 0 THEN -1 ELSE 0
Quot(a, b) == Sign(a) * (Magnitude(a) \div b)
Clamp(n) == IF n > 100 THEN 100 ELSE IF n < -100 THEN -100 ELSE n
Positive(n) == IF n > 0 THEN n ELSE 0
Total(seq, of(_)) == FoldLeft(LAMBDA acc, x : acc + of(x), 0, seq)
Peak(set) == CHOOSE m \in set : \A n \in set : n <= m

-----------------------------------------------------------------------------
(* TimeSeries: items in the order they arrived, each with its stamp.       *)

WindowAt(series, width, at) == SelectSeq(series, LAMBDA x : x.at \in at - width..at)
\* The reference is the stamp of the newest arrival.
Window(series, width) == IF series = <<>> THEN <<>> ELSE WindowAt(series, width, Last(series).at)

\* Last minus first of the window, by arrival.
Change(series, width) ==
    LET w == Window(series, width)
    IN  IF Len(w) < 2 THEN Absent ELSE Last(w).value - w[1].value

\* Faulty variant: the ratio of the two, against one to one.
RatioOf(up, down) == IF up + down = 0 THEN 0 ELSE Clamp((100 * up) \div (IF down = 0 THEN 1 ELSE down) - 100)
\* normalized_delta
Imbalance(up, down) == IF up + down = 0 THEN 0 ELSE Quot(100 * (up - down), up + down)

-----------------------------------------------------------------------------
(* The tape: trades [at, price, size, buy].                                *)

Volume(trades, buy) == Total(SelectSeq(trades, LAMBDA t : t.buy = buy), LAMBDA t : t.size)
Delta(trades) == IF trades = <<>> THEN Absent ELSE Imbalance(Volume(trades, TRUE), Volume(trades, FALSE))

\* CvdState: the running sum of what takers bought and sold.
Signed(t) == IF t.buy THEN t.size ELSE -t.size
Cvd(trades) ==
    [i \in DOMAIN trades |-> [at |-> trades[i].at, value |-> Total(SubSeq(trades, 1, i), Signed)]]

\* cvd.relationship and divergence: the price and the flow of a window.
PriceSeries(trades) == [i \in DOMAIN trades |-> [at |-> trades[i].at, value |-> trades[i].price]]
Relationship(trades, width) ==
    LET price == Change(PriceSeries(trades), width)
        flow == Change(Cvd(trades), width)
    IN  IF price = Absent \/ flow = Absent THEN "unknown"
        ELSE IF price = 0 \/ flow = 0 THEN "flat"
        ELSE IF Sign(price) = Sign(flow) THEN (IF price > 0 THEN "up" ELSE "down")
        ELSE IF price > 0 THEN "bearish" ELSE "bullish"

\* median_trade_size, doubled, and large_trades.
TwiceMedian(sizes) ==
    LET s == SortSeq(sizes, <)
        n == Len(s)
    IN  IF n = 0 THEN 0 ELSE s[(n + 1) \div 2] + s[n \div 2 + 1]
LargeTrades(trades) ==
    LET reference == TwiceMedian([i \in DOMAIN trades |-> trades[i].size])
    IN  SelectSeq(Window(trades, LongWindow), LAMBDA t : 4 * t.size >= LargeMultiple * reference)

\* Trades in the newest second, and in the one before.
Velocity(trades) == Len(Window(trades, 0))
Acceleration(trades) ==
    IF trades = <<>> THEN 0 ELSE Velocity(trades) - Len(WindowAt(trades, 0, Last(trades).at - 1))

\* _roll_velocity: the count of the second that ends with a trade at `at`.
Rolled(counts, trades, at) ==
    IF trades = <<>> \/ Last(trades).at = at THEN counts
    ELSE Append(counts, Len(WindowAt(trades, 0, Last(trades).at)))

\* n squared times the variance, and n times the distance from the mean.
Spread(values) == Len(values) * Total(values, LAMBDA v : v * v) - Total(values, LAMBDA v : v) * Total(values, LAMBDA v : v)
Above(count, values) == Len(values) * count - Total(values, LAMBDA v : v)
\* velocity_zscore, none of it below the mean, of a full scale of 3.
ZScore(n, spread, above) ==
    IF n < MinSamples \/ n < 2 \/ spread = 0 \/ above <= 0 THEN 0
    ELSE Peak({m \in 0..100 : 9 * m * m * n * spread <= 10000 * above * above * (n - 1)})
Surprise(count, counts) == ZScore(Len(counts), Spread(counts), Above(count, counts))

-----------------------------------------------------------------------------
(* Liquidations [at, notional, long].                                      *)

Notional(events) == Total(events, LAMBDA e : e.notional)
OfLongs(events) == Notional(SelectSeq(events, LAMBDA e : e.long))

\* peak_velocity: the most of any five whole seconds in a row.
PeakNotional(events) ==
    LET recent == Window(events, LongWindow)
    IN  Peak({0} \cup {Notional(WindowAt(recent, ShortWindow - 1, recent[i].at + ShortWindow - 1)) : i \in DOMAIN recent})

Exhausted(events) ==
    LET peak == PeakNotional(events)
    IN  peak >= FlushNotional /\ 5 * Notional(Window(events, ShortWindow)) <= 2 * peak

LiquidationState(events) ==
    LET recent == Window(events, ShortWindow)
        before == WindowAt(events, ShortWindow, Last(events).at - ShortWindow)
        total == Notional(recent)
    IN  IF events = <<>> THEN "neutral"
        ELSE IF total - Notional(before) >= CascadeGain THEN "cascade"
        ELSE IF total < FlushNotional THEN (IF Exhausted(events) THEN "exhaustion" ELSE "neutral")
        ELSE IF 100 * OfLongs(recent) >= 65 * total THEN "long_flush"
        ELSE IF 100 * (total - OfLongs(recent)) >= 65 * total THEN "short_squeeze"
        ELSE "neutral"

\* Whether longs were half of what was liquidated, or more.
LongsLead(events) == 2 * OfLongs(events) >= Notional(events)

LiquidationPressure(events) ==
    LET recent == Window(events, ShortWindow)
        size == Clamp((25 * Notional(recent)) \div FlushNotional)
        state == LiquidationState(events)
    IN  CASE state = "long_flush" -> -size
          [] state = "short_squeeze" -> size
          [] state = "cascade" -> IF LongsLead(recent) THEN -size ELSE size
          [] state = "exhaustion" -> IF LongsLead(Window(events, LongWindow)) THEN 50 ELSE -50
          [] OTHER -> 0

-----------------------------------------------------------------------------
(* Open interest: [series, prices, bucket, value], both series stamped.    *)

\* The bucket that was read already.
IsRepeat(oi, at, value) == at = oi.bucket /\ value = oi.value
IsRevision(oi, at, value) == at = oi.bucket /\ value # oi.value

\* observe: a revision replaces the reading, and adds a price.
Polled(oi, at, value, price) ==
    LET kept == IF IsRevision(oi, at, value) THEN SelectSeq(oi.series, LAMBDA x : x.at # at) ELSE oi.series
    IN  IF IsRepeat(oi, at, value) THEN oi
        ELSE [series |-> Append(kept, [at |-> at, value |-> value]),
              prices |-> IF price = Absent THEN oi.prices ELSE Append(oi.prices, [at |-> at, value |-> price]),
              bucket |-> at, value |-> value]

\* delta_pct, of 10 000.
InterestChange(oi) ==
    LET w == Window(oi.series, LongWindow)
    IN  IF Len(w) < 2 \/ w[1].value = 0 THEN Absent ELSE Quot(10000 * (Last(w).value - w[1].value), w[1].value)

Interpretation(oi) ==
    LET change == InterestChange(oi)
        price == Change(oi.prices, LongWindow)
    IN  IF change = Absent \/ price = Absent \/ price = 0 \/ Magnitude(change) <= FlatChange THEN "unknown"
        ELSE IF price > 0 THEN (IF change > 0 THEN "expansion" ELSE "short_covering")
        ELSE (IF change > 0 THEN "new_shorts" ELSE "deleveraging")

InterestPressure(oi) ==
    LET size == Clamp((100 * Magnitude(InterestChange(oi))) \div FullChange)
        reading == Interpretation(oi)
    IN  CASE reading = "expansion" -> size
          [] reading = "new_shorts" -> -size
          [] reading = "short_covering" -> -(size \div 2)
          [] reading = "deleveraging" -> size \div 2
          [] OTHER -> 0

-----------------------------------------------------------------------------
(* ReturnGrid and BtcLeadLag: a grid has the last price of each second     *)
(* that had a trade.                                                       *)

Returns(grid) ==
    LET before(b) == {a \in DOMAIN grid : a < b}
    IN  [b \in {c \in DOMAIN grid : before(c) # {}} |-> grid[b] - grid[Peak(before(b))]]

\* aligned, for a lag: BTC's returns against later ones of the symbol.
Pairs(btc, alt, lag) ==
    LET both == SetToSortSeq({b \in DOMAIN alt : b - lag \in DOMAIN btc}, <)
    IN  [i \in DOMAIN both |-> [left |-> btc[both[i] - lag], right |-> alt[both[i]]]]

\* n squared times the covariance of two columns.
Covariance(pairs, l(_), r(_)) ==
    Len(pairs) * Total(pairs, LAMBDA p : l(p) * r(p)) - Total(pairs, l) * Total(pairs, r)

\* correlation
Coefficient(ll, rr, lr) ==
    IF ll = 0 \/ rr = 0 THEN Absent
    ELSE Sign(lr) * Peak({m \in 0..100 : m * m * ll * rr <= 10000 * lr * lr})
Left(p) == p.left
Right(p) == p.right
Correlation(pairs) ==
    IF Len(pairs) < MinPairs THEN Absent
    ELSE Coefficient(Covariance(pairs, Left, Left), Covariance(pairs, Right, Right), Covariance(pairs, Left, Right))

\* btc_impulse over its full scale of 2.5: the newest returns against the others.
ImpulseOf(move, recent, n, spread) ==
    IF n < 2 \/ spread = 0 THEN 0
    ELSE Sign(move) * Peak({m \in 0..100 : 25 * m * m * recent * spread <= 40000 * move * move * n * (n - 1)})
Newest(all) == SubSeq(all, Peak({1, Len(all) - 2}), Len(all))
Base(all) == IF Len(all) > 3 THEN SubSeq(all, 1, Len(all) - 3) ELSE all
Sorted(btc) == LET order == SetToSortSeq(DOMAIN btc, <) IN [i \in DOMAIN order |-> btc[order[i]]]
ImpulseIn(all) ==
    IF Len(all) < MinPairs THEN 0
    ELSE ImpulseOf(Total(Newest(all), LAMBDA r : r), Len(Newest(all)), Len(Base(all)), Spread(Base(all)))
Impulse(btc) == ImpulseIn(Sorted(btc))

\* state_for: the lag with the strongest correlation, the shortest of equals.
Strongest(of, known) ==
    CHOOSE lag \in known : \A other \in known :
        \/ Magnitude(of[lag]) > Magnitude(of[other])
        \/ Magnitude(of[lag]) = Magnitude(of[other]) /\ lag <= other
LeadAt(of, lag) == [correlation |-> of[lag], lag |-> lag]
LeadOver(of) ==
    IF \A lag \in DOMAIN of : of[lag] = Absent THEN LeadAt(of, 0)
    ELSE LeadAt(of, Strongest(of, {lag \in DOMAIN of : of[lag] # Absent}))
Lead(btc, alt) == LeadOver([lag \in 0..MaxLag |-> Correlation(Pairs(btc, alt, lag))])

\* _lead_score; below MIN_ABS_CORRELATION nothing carries.
LeadScore(lead, impulse) ==
    IF lead.correlation = Absent \/ Magnitude(lead.correlation) < 25 THEN 0
    ELSE Quot(impulse * lead.correlation * (IF lead.lag = 0 THEN 6 ELSE 10), 1000)
=============================================================================
