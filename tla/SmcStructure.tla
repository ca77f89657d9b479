---------------------------- MODULE SmcStructure -----------------------------
(***************************************************************************)
(* What the Lead Engine reads from a series of bars: the swings, gaps,     *)
(* blocks and trend of lead_engine/smc_engine.py, the levels of            *)
(* prebreak_engine.LevelTracker, the wave context of elliott_state.py and  *)
(* the bars candles.CandleBuilder makes of trades.                         *)
(*                                                                         *)
(* A bar is [start, open, high, low, close, closed]; prices are whole      *)
(* numbers (the mean of two levels is rounded down).                       *)
(***************************************************************************)
EXTENDS Integers, Sequences, SequencesExt, Selections

CONSTANTS
    FractalWidth,    \* FRACTAL_WIDTH
    MaxCandles,      \* MAX_CANDLES of smc_engine and of the builder
    Tolerance        \* compression_pct, in thousandths

Absent == -1
Magnitude(n) == IF n >= 0 THEN n ELSE -n
Top(a, b) == IF a >= b THEN a ELSE b
Bottom(a, b) == IF a <= b THEN a ELSE b
Newest(s, n) == IF Len(s) > n THEN SubSeq(s, Len(s) - n + 1, Len(s)) ELSE s

Closed(candles) == Picked(candles, {i \in DOMAIN candles : candles[i].closed})

-----------------------------------------------------------------------------
(* SmcEngine.update: a bar's place in the series.                          *)

\* _supersedes: a closed bar is final.
Supersedes(incoming, existing) == ~(existing.closed /\ ~incoming.closed)

\* Faulty variant: only the newest bar is looked at.
PlaceAtTheEnd(candles, c) ==
    IF candles # <<>> /\ Last(candles).start = c.start
    THEN IF Supersedes(c, Last(candles)) THEN Append(Front(candles), c) ELSE candles
    ELSE Newest(Append(candles, c), MaxCandles)

Place(candles, c) ==
    LET older == Picked(candles, {i \in DOMAIN candles : candles[i].start < c.start})
        final == {d \in Range(candles) : d.start = c.start /\ ~Supersedes(c, d)}
        newer == Picked(candles, {i \in DOMAIN candles : candles[i].start > c.start})
        bar == IF final = {} THEN c ELSE CHOOSE d \in final : TRUE
    IN  Newest(older \o <<bar>> \o newer, MaxCandles)

-----------------------------------------------------------------------------
(* Swings, and what is read from them.                                     *)

\* Faulty variant of the candidates: the newest bars need nothing after them.
EveryBar(b) == FractalWidth + 1..Len(b)

\* Bars with `width` bars on each side.
Inner(b) == FractalWidth + 1..Len(b) - FractalWidth

IsHigh(b, i) ==
    /\ \A j \in i - FractalWidth..i - 1 : b[i].high >= b[j].high
    /\ \A j \in i + 1..Bottom(i + FractalWidth, Len(b)) : b[i].high > b[j].high
IsLow(b, i) ==
    /\ \A j \in i - FractalWidth..i - 1 : b[i].low <= b[j].low
    /\ \A j \in i + 1..Bottom(i + FractalWidth, Len(b)) : b[i].low < b[j].low
SwingOf(b, i) ==
    IF IsHigh(b, i) THEN [at |-> b[i].start, price |-> b[i].high, kind |-> "high"]
    ELSE [at |-> b[i].start, price |-> b[i].low, kind |-> "low"]

\* find_swings: a bar that reads as both is neither.
Swings(candles) ==
    LET b == Closed(candles)
        at == {i \in DOMAIN b : i \in Inner(b) /\ IsHigh(b, i) # IsLow(b, i)}
    IN  [k \in 1..Cardinality(at) |-> SwingOf(b, Nth(at, k))]

OfKind(swings, kind) == SelectSeq(swings, LAMBDA s : s.kind = kind)

\* label_swings
LabelOf(swings) ==
    LET same == OfKind(Front(swings), Last(swings).kind)
        higher == Last(swings).price > Last(same).price
    IN  IF Len(swings) < 3 \/ same = <<>> THEN ""
        ELSE IF Last(swings).kind = "high" THEN (IF higher THEN "HH" ELSE "LH")
        ELSE (IF higher THEN "HL" ELSE "LL")

\* find_fair_value_gaps, newest first.
GapAt(b, i) ==
    IF b[i + 1].low > b[i - 1].high
    THEN <<[direction |-> "bullish", top |-> b[i + 1].low, bottom |-> b[i - 1].high, at |-> b[i].start]>>
    ELSE IF b[i + 1].high < b[i - 1].low
    THEN <<[direction |-> "bearish", top |-> b[i - 1].low, bottom |-> b[i + 1].high, at |-> b[i].start]>>
    ELSE <<>>
Gaps(b) ==
    LET all == FoldLeft(LAMBDA found, i : GapAt(b, i) \o found, <<>>, [k \in 1..Len(b) - 2 |-> k + 1])
    IN  SubSeq(all, 1, Bottom(5, Len(all)))

\* find_order_block: the last bar before the newest whose body opposes the trend.
OrderBlock(b, direction) ==
    LET opposes(c) == IF direction = "bullish" THEN c.close < c.open
                      ELSE direction = "bearish" /\ c.close >= c.open
        found == SelectSeq(Front(b), opposes)
    IN  IF found = <<>> THEN Absent ELSE Last(found).start

-----------------------------------------------------------------------------
(* SmcEngine._compute_state.                                               *)

Unread == [trend |-> "ranging", label |-> "", high |-> Absent, low |-> Absent, event |-> "",
           direction |-> "", sweep |-> "", gaps |-> <<>>, block |-> Absent, position |-> "unknown"]

Extreme(swings, kind) ==
    IF OfKind(swings, kind) = <<>> THEN Absent ELSE Last(OfKind(swings, kind)).price
Rising(s) == s[Len(s)].price > s[Len(s) - 1].price
SwingTrend(swings) ==
    LET highs == OfKind(swings, "high")
        lows == OfKind(swings, "low")
    IN  IF Len(highs) < 2 \/ Len(lows) < 2 \/ Rising(highs) # Rising(lows) THEN "ranging"
        ELSE IF Rising(highs) THEN "bullish" ELSE "bearish"

BrokenUp(b, high) == high # Absent /\ Last(b).close > high
BrokenDown(b, low) == low # Absent /\ Last(b).close < low
SweepOf(b, high, low) ==
    IF high # Absent /\ Last(b).high > high /\ high >= Last(b).close THEN "high"
    ELSE IF low # Absent /\ Last(b).low < low /\ low <= Last(b).close THEN "low"
    ELSE ""

\* The state of closed bars b, with the trend that was committed before.
StateOf(b, before) ==
    LET swings == Swings(b)
        high == Extreme(swings, "high")
        low == Extreme(swings, "low")
        up == BrokenUp(b, high)
        down == ~up /\ BrokenDown(b, low)
        trend == IF up THEN "bullish" ELSE IF down THEN "bearish" ELSE SwingTrend(swings)
        against == (up /\ before = "bearish") \/ (down /\ before = "bullish")
        ranged == high # Absent /\ low # Absent /\ high > low
    IN  IF Len(b) < 2 * FractalWidth + 3 THEN Unread
        ELSE [trend |-> trend, label |-> LabelOf(swings), high |-> high, low |-> low,
              event |-> IF against THEN "choch" ELSE IF up \/ down THEN "bos" ELSE "",
              direction |-> IF up \/ down THEN trend ELSE "",
              sweep |-> SweepOf(b, high, low), gaps |-> Gaps(b), block |-> OrderBlock(b, trend),
              position |-> IF ~ranged THEN "unknown"
                           ELSE IF 2 * (Last(b).close - low) > high - low THEN "premium" ELSE "discount"]

\* Too few bars leave the committed trend alone.
TrendAfter(b, before) ==
    IF Len(b) < 2 * FractalWidth + 3 THEN before ELSE StateOf(b, before).trend

-----------------------------------------------------------------------------
(* LevelTracker: levels, the tests and the bounces they have had.          *)

Near(p, q) == Magnitude(p - q) * 1000 <= Tolerance * q
KindOfLevel(swing) == IF swing.kind = "high" THEN "resistance" ELSE "support"

\* One swing of rebuild: a test of the first level it is near to, or a new level.
Touch(levels, swing) ==
    LET hits == {i \in DOMAIN levels : levels[i].kind = KindOfLevel(swing)
                                       /\ Near(levels[i].price, swing.price)}
        first == CHOOSE i \in hits : \A j \in hits : i <= j
    IN  IF hits = {}
        THEN Append(levels, [price |-> swing.price, kind |-> KindOfLevel(swing), tests |-> 1,
                             last |-> swing.at, bounces |-> <<>>])
        ELSE [levels EXCEPT ![first].tests = @ + 1, ![first].last = swing.at,
                            ![first].price = (@ + swing.price) \div 2]

\* _measure_bounces: a bounce is closed by the return to the level.
BounceStep(level, acc, c) ==
    LET side == IF level.kind = "support" THEN c.low ELSE c.high
    IN  IF Near(side, level.price)
        THEN [away |-> FALSE, extreme |-> level.price,
              bounces |-> IF acc.away /\ acc.extreme # level.price
                          THEN Append(acc.bounces, Magnitude(acc.extreme - level.price))
                          ELSE acc.bounces]
        ELSE [acc EXCEPT !.away = TRUE,
                         !.extreme = IF level.kind = "support" THEN Top(@, c.high) ELSE Bottom(@, c.low)]
Bounces(level, b) ==
    FoldLeft(LAMBDA acc, c : BounceStep(level, acc, c),
             [away |-> FALSE, extreme |-> level.price, bounces |-> <<>>], b).bounces

LevelsOf(candles) ==
    LET b == Closed(candles)
        touched == FoldLeft(Touch, <<>>, Swings(b))
    IN  [i \in DOMAIN touched |-> [touched[i] EXCEPT !.bounces = Bounces(touched[i], b)]]

-----------------------------------------------------------------------------
(* elliott_state: the wave context.                                        *)

WaveLabels == <<"1", "2", "3", "4", "5", "A", "B", "C">>
LegsOf(swings) ==
    [k \in 1..Top(0, Len(swings) - 1) |->
        [start |-> swings[k].price, end |-> swings[k + 1].price, from |-> swings[k].at, to |-> swings[k + 1].at]]
LegLength(leg) == Magnitude(leg.end - leg.start)
Rises(leg) == leg.end >= leg.start

\* _violates_hard_rules; the overlap of waves 1 and 4 and the start of wave 1.
Passes(leg, price, rising) == IF rising THEN leg.end <= price ELSE leg.end >= price
Violates(legs) ==
    \/ Len(legs) >= 2 /\ Passes(legs[2], legs[1].start, Rises(legs[1]))
    \/ Len(legs) >= 4 /\ Passes(legs[4], legs[1].end, Rises(legs[1]))
    \/ /\ Len(legs) >= 5
       /\ LegLength(legs[3]) < LegLength(legs[1])
       /\ LegLength(legs[3]) < LegLength(legs[5])

\* context: the anchor walks forward until what remains is legal or one leg.
From(legs, anchor) == SubSeq(legs, anchor, Bottom(Len(legs), anchor + Len(WaveLabels) - 1))
Counted(legs) ==
    From(legs, CHOOSE a \in DOMAIN legs :
        /\ a = Len(legs) \/ ~Violates(From(legs, a))
        /\ \A b \in 1..a - 1 : Violates(From(legs, b)))

\* Trailing legs shorter than MIN_LEG_RATIO of the first are dropped.
Wiggle(legs, k) == k > 1 /\ 100 * LegLength(legs[k]) < 15 * LegLength(legs[1])
Trimmed(legs) ==
    SubSeq(legs, 1, CHOOSE k \in DOMAIN legs : ~Wiggle(legs, k) /\ \A j \in k + 1..Len(legs) : Wiggle(legs, j))

NoContext == [label |-> "", up |-> FALSE, legs |-> <<>>]
WaveContext(candles) ==
    LET swings == Swings(candles)
        legs == Trimmed(Counted(LegsOf(swings)))
    IN  IF Len(swings) < 3 THEN NoContext
        ELSE [label |-> WaveLabels[Len(legs)], up |-> Rises(Last(legs)), legs |-> legs]

\* ElliottContext.update: it replaces the newest bar or appends.
WaveBars(candles, c) ==
    IF candles # <<>> /\ Last(candles).start = c.start THEN Append(Front(candles), c)
    ELSE Newest(Append(candles, c), MaxCandles)

-----------------------------------------------------------------------------
(* CandleBuilder: bars of `length` made of trades [at, price].             *)

NoBar == [start |-> -1, open |-> 0, high |-> 0, low |-> 0, close |-> 0, closed |-> FALSE]
Bucket(at, length) == (at \div length) * length
Opened(start, p) == [start |-> start, open |-> p, high |-> p, low |-> p, close |-> p, closed |-> FALSE]
Extended(bar, p) == [bar EXCEPT !.high = Top(@, p), !.low = Bottom(@, p), !.close = p]
Finished(bar) == [bar EXCEPT !.closed = TRUE]

\* The bar a trade closes, if any; and the bar in progress after it.
Closes(forming, trade, length) == forming # NoBar /\ Bucket(trade.at, length) > forming.start
Forming(forming, trade, length) ==
    LET start == Bucket(trade.at, length)
    IN  IF forming = NoBar \/ start > forming.start THEN Opened(start, trade.price)
        ELSE IF start < forming.start THEN forming       \* late: dropped
        ELSE Extended(forming, trade.price)
=============================================================================
