------------------------------ MODULE LeadScores ------------------------------
(***************************************************************************)
(* From the readings of a symbol to its scores (lead_engine/layers.py,     *)
(* pressure_engine.py, prebreak_engine.py, normalize.py): five layers, one *)
(* pressure for each side, and how near the level ahead is to its break.   *)
(*                                                                         *)
(* `market` is what the streams left behind, `samples` what the Normalizer *)
(* remembers of earlier frames.  Scores are hundredths; the half of the    *)
(* spread is the unit of the microprice's offset.                          *)
(***************************************************************************)
EXTENDS LeadReadings, FiniteSetsExt

CONSTANTS
    Depths,         \* OBI_DEPTHS, the two of the touch first
    StackMultiple,  \* STACK_MULTIPLE, in halves
    DepthSamples,   \* samples a drain needs
    Compression,    \* compression_pct, in ticks
    Starts,         \* markets to begin with, with their samples
    Trades, Liquidated, Interest, Books, Structures,  \* what the streams may bring
    MaxSteps        \* bound of the messages

VARIABLES market, samples, steps

vars == <<market, samples, steps>>

-----------------------------------------------------------------------------
(* Normalizer: a value is ranked among the earlier ones and itself.        *)

\* What a frame reads off the book of a side: what was added, per unit traded.
Refill(side) == IF side.executed = 0 THEN Absent ELSE (100 * side.added) \div side.executed
Depth(sizes, n) == FoldLeft(LAMBDA a, b : a + b, 0, SubSeq(sizes, 1, IF n < Len(sizes) THEN n ELSE Len(sizes)))
\* MicropriceState.offset_bps, of the sizes at the touch.
Offset(book) == Imbalance(book.bid.sizes[1], book.ask.sizes[1])

Values(m) ==
    [slope |-> Change(Cvd(m.tape), LongWindow),
     funding |-> m.funding,
     offset |-> IF m.book.synced THEN Offset(m.book) ELSE Absent,
     bid |-> IF m.book.synced THEN Refill(m.book.bid) ELSE Absent,
     ask |-> IF m.book.synced THEN Refill(m.book.ask) ELSE Absent]

\* A signed feature of zero is not observed, a ratio of zero is.
Observed(m, before) ==
    [name \in DOMAIN before |->
        LET value == Values(m)[name]
            nothing == IF name \in {"bid", "ask"} THEN {Absent} ELSE {0, Absent}
        IN  IF value \in nothing THEN before[name] ELSE Append(before[name], Magnitude(value))]

Rank(seen, value) ==
    IF Len(seen) < MinSamples THEN 50
    ELSE (100 * Cardinality({i \in DOMAIN seen : seen[i] <= value})) \div Len(seen)

\* signed_strength: the sign is the value's own.
SignedStrength(seen, value) ==
    IF value \in {Absent, 0} THEN value ELSE Sign(value) * Rank(seen, Magnitude(value))

-----------------------------------------------------------------------------
(* The layers: parts with their weights, of which those present count.     *)

Weighed(parts, weight) ==
    LET there == {p \in DOMAIN parts : parts[p] # Absent}
        total == MapThenSumSet(LAMBDA p : weight[p], there)
        all == MapThenSumSet(LAMBDA p : weight[p], DOMAIN parts)
    IN  IF there = {} THEN [score |-> 0, confidence |-> 0]
        ELSE [score |-> Quot(MapThenSumSet(LAMBDA p : weight[p] * Clamp(parts[p]), there), total),
              confidence |-> (100 * total) \div all]

\* score_flow
FlowParts(m, seen) ==
    LET delta == Delta(Window(m.tape, ShortWindow))
    IN  [delta |-> delta, minute |-> Delta(Window(m.tape, LongWindow)),
         slope |-> SignedStrength(seen.slope, Values(m).slope), large |-> Delta(LargeTrades(m.tape)),
         velocity |-> IF m.tape = <<>> THEN Absent ELSE Quot(Surprise(Velocity(m.tape), m.counts) * delta, 100)]
FlowLayer(m, seen) ==
    Weighed(FlowParts(m, seen), [delta |-> 30, minute |-> 20, slope |-> 25, large |-> 12, velocity |-> 13])

\* alignment: the mean over the depths, as far as they agree.
Alignment(book) ==
    LET obi == [i \in DOMAIN Depths |-> Imbalance(Depth(book.bid.sizes, Depths[i]), Depth(book.ask.sizes, Depths[i]))]
        sum == Total(obi, LAMBDA n : n)
        size == Total(obi, Magnitude)
        mean == 105 * (obi[1] + obi[2]) + 130 * (obi[3] + obi[4] + obi[5])   \* of 600
    IN  IF size = 0 THEN 0 ELSE Clamp(Quot(mean * Magnitude(sum), 600 * size))

\* absorption_scores, of a side.
Absorption(side, seen) ==
    LET refill == Refill(side)
        depth == Depth(side.sizes, Len(side.sizes))
    IN  IF refill = Absent THEN 0
        ELSE (Clamp(refill \div 2) + (IF depth = 0 THEN 0 ELSE Clamp((200 * side.added) \div depth))
              + Rank(seen, refill)) \div 3

\* score_book
BookLayer(m, seen) ==
    LET bid == m.book.bid
        ask == m.book.ask
        b == bid.added - bid.cancelled
        a == ask.added - ask.cancelled
        absorbed == [bid |-> Absorption(bid, seen.bid), ask |-> Absorption(ask, seen.ask)]
    IN  IF ~m.book.synced THEN [score |-> 0, confidence |-> 0]
        ELSE Weighed([alignment |-> Alignment(m.book), microprice |-> SignedStrength(seen.offset, Offset(m.book)),
                      shift |-> IF a = 0 /\ b = 0 THEN Absent ELSE Quot(100 * (b - a), Magnitude(a) + Magnitude(b)),
                      walls |-> m.book.walls,
                      absorption |-> IF absorbed.bid = 0 /\ absorbed.ask = 0 THEN Absent
                                     ELSE absorbed.bid - absorbed.ask],
                     [alignment |-> 34, microprice |-> 18, shift |-> 18, walls |-> 15, absorption |-> 15])

\* invalidation_distance, of the position in the swing range.
Distance(position) == IF position = Absent THEN Absent ELSE 50 - 2 * Magnitude(position - 50)

\* score_structure; a direction is 1, 0 or -1.
StructureLayer(m) ==
    LET s == m.structure
    IN  IF ~s.known THEN [score |-> 0, confidence |-> 0]
        ELSE Weighed([trend |-> 60 * s.trend, broken |-> (IF s.choch THEN 100 ELSE 50) * s.broken,
                      sweep |-> 70 * s.sweep, elliott |-> s.elliott, distance |-> Distance(s.position)],
                     [trend |-> 28, broken |-> 30, sweep |-> 14, elliott |-> 16, distance |-> 12])

\* score_derivatives: crowded funding is read against its side.
DerivativesLayer(m, seen) ==
    LET funding == SignedStrength(seen.funding, m.funding)
    IN  Weighed([interest |-> IF Len(m.oi.series) < 2 THEN Absent ELSE InterestPressure(m.oi),
                 liquidations |-> IF m.liquidations = <<>> THEN Absent ELSE LiquidationPressure(m.liquidations),
                 funding |-> IF funding = Absent THEN Absent ELSE -funding],
                [interest |-> 40, liquidations |-> 40, funding |-> 20])

\* score_btc_lead: BTC's own flow and book, as far as the symbol follows it.
Following(lead, impulse) == [follows |-> lead.correlation, score |-> LeadScore(lead, impulse)]
LeadOf(m) == Following(Lead(Returns(m.btc), Returns(m.alt)), Impulse(Returns(m.btc)))
BtcLayer(m, lead) ==
    LET carried(n) == IF n = Absent \/ lead.follows = Absent THEN Absent ELSE Quot(n * lead.follows, 100)
    IN  Weighed([lead |-> lead.score, flow |-> carried(m.btcFlow), book |-> carried(m.btcBook)],
                [lead |-> 55, flow |-> 25, book |-> 20])

Layers(m, seen, lead) ==
    [flow |-> FlowLayer(m, seen), book |-> BookLayer(m, seen), structure |-> StructureLayer(m),
     derivatives |-> DerivativesLayer(m, seen), btc |-> BtcLayer(m, lead)]

-----------------------------------------------------------------------------
(* The pressure: the layers that speak, and what their conflict costs.     *)

LayerWeight == [flow |-> 30, book |-> 25, structure |-> 20, derivatives |-> 15, btc |-> 10]

\* detect_conflict: the confidence that is left.
ConflictPenalty(layers) ==
    LET live == {n \in DOMAIN layers : layers[n].confidence > 0 /\ layers[n].score # 0}
        net == Magnitude(MapThenSumSet(LAMBDA n : layers[n].score, live))
        total == MapThenSumSet(LAMBDA n : Magnitude(layers[n].score), live)
    IN  IF Cardinality(live) < 2 \/ 4 * net >= 3 * total THEN 100
        ELSE IF 5 * net < 2 * total THEN 35 ELSE 70

Pressure(layers) ==
    LET there == {n \in DOMAIN layers : layers[n].confidence > 0}
        weight == MapThenSumSet(LAMBDA n : LayerWeight[n], there)
        mean(of(_)) == MapThenSumSet(LAMBDA n : LayerWeight[n] * of(layers[n]), there) \div weight
    IN  IF there = {} THEN [long |-> 0, short |-> 0, confidence |-> 0]
        ELSE [long |-> mean(LAMBDA l : Positive(l.score)), short |-> mean(LAMBDA l : Positive(-l.score)),
              confidence |-> (weight * mean(LAMBDA l : l.confidence) * ConflictPenalty(layers)) \div 10000]

-----------------------------------------------------------------------------
(* PreBreakEngine: `up` asks for a break of the resistance.                *)

\* _fading_bounces
Fading(bounces) ==
    LET b == IF Len(bounces) > 4 THEN SubSeq(bounces, Len(bounces) - 3, Len(bounces)) ELSE bounces
        falls == Cardinality({i \in 1..Len(b) - 1 : b[i + 1] < b[i]})
    IN  IF Len(b) < 2 THEN 0
        ELSE (50 * falls) \div (Len(b) - 1) + Positive(50 - (50 * Last(b)) \div b[1])

\* _depth_drain, of the side that defends.
Drain(history, up) ==
    LET of(d) == IF up THEN d.ask ELSE d.bid
        first == of(history[1])
    IN  IF Len(history) < DepthSamples \/ first = 0 THEN 0
        ELSE Clamp(Positive((200 * (first - of(Last(history)))) \div first))

\* The median over both sides is twice the reference.
Stacked(book, side) ==
    LET big(size) == 4 * size >= StackMultiple * TwiceMedian(book.bid.sizes \o book.ask.sizes)
    IN  Cardinality({n \in DOMAIN side.sizes : \A i \in 1..n : big(side.sizes[i])})

Share(part, other) == IF part + other = 0 THEN 0 ELSE (100 * part) \div (part + other)

PreBreak(m, seen, layers, lead, up) ==
    LET level == IF up THEN m.structure.resistance ELSE m.structure.support
        defender == IF up THEN m.book.ask ELSE m.book.bid
        attacker == IF up THEN m.book.bid ELSE m.book.ask
        toward(n) == Positive(Clamp(IF up THEN n ELSE -n))
        slope == SignedStrength(seen.slope, Values(m).slope)
        compression == Positive(100 - (100 * level.distance) \div Compression)
        features ==
            10 * compression + 10 * Fading(level.bounces) + 13 * Drain(m.depths, up)
            + 15 * Share(defender.cancelled, defender.added)
            + 10 * ((70 * Share(attacker.added, defender.added) + 30 * Clamp(20 * Stacked(m.book, attacker))) \div 100)
            + 14 * toward(Quot(layers.flow.score + (IF slope = Absent THEN 0 ELSE slope), 2))
            + 8 * toward(Offset(m.book))
            + 8 * ((70 * Surprise(Velocity(m.tape), m.counts)) \div 100 + (IF Acceleration(m.tape) > 0 THEN 30 ELSE 0))
            + 7 * toward(lead.score)
            + 5 * Clamp(25 * Positive(level.tests - 1))
    IN  IF ~level.known \/ ~m.book.synced THEN 0 ELSE (features * (3500 + 65 * compression)) \div 1000000

\* The frame's numbers: the pressure, and how near each break is.
Numbers(m, pressure, near) ==
    [long |-> pressure.long, short |-> pressure.short, confidence |-> pressure.confidence,
     up |-> near[TRUE], down |-> near[FALSE], relationship |-> Relationship(m.tape, LongWindow)]
NumbersOf(m, seen, lead, layers) ==
    Numbers(m, Pressure(layers), [up \in BOOLEAN |-> PreBreak(m, seen, layers, lead, up)])
Led(m, seen, lead) == NumbersOf(m, seen, lead, Layers(m, seen, lead))
Scores(m, before) == Led(m, Observed(m, before), LeadOf(m))

-----------------------------------------------------------------------------
(* What arrives; a trade may be late.                                      *)

Tick == market' = [market EXCEPT !.now = @ + 1] /\ UNCHANGED samples

Trade ==
    \E t \in Trades :
        LET at == market.now - t.late
            trade == [at |-> at, price |-> market.price + t.move, size |-> t.size, buy |-> t.buy]
        IN  /\ at >= 0
            /\ market' = [market EXCEPT !.counts = Rolled(@, market.tape, at), !.tape = Append(@, trade),
                                        !.price = trade.price,
                                        !.alt = [b \in DOMAIN @ \cup {at} |-> IF b = at THEN trade.price ELSE @[b]]]
            /\ UNCHANGED samples

Liquidate ==
    \E e \in Liquidated :
        /\ market' = [market EXCEPT !.liquidations = Append(@, [at |-> market.now, notional |-> e.notional, long |-> e.long])]
        /\ UNCHANGED samples

\* A poll is for the newest bucket, or for the one it read before.
Poll ==
    \E value \in Interest, at \in {market.now, market.oi.bucket} :
        market' = [market EXCEPT !.oi = Polled(@, at, value, market.price)] /\ UNCHANGED samples

\* on_orderbook: a depth sample a second, of a synced book.
Book ==
    \E book \in Books :
        /\ market' = [market EXCEPT
               !.book = book,
               !.depths = IF ~book.synced \/ (@ # <<>> /\ Last(@).at = market.now) THEN @
                          ELSE Append(@, [at |-> market.now, bid |-> Depth(book.bid.sizes, Len(book.bid.sizes)),
                                          ask |-> Depth(book.ask.sizes, Len(book.ask.sizes))])]
        /\ UNCHANGED samples

Structure == \E s \in Structures : market' = [market EXCEPT !.structure = s] /\ UNCHANGED samples

Bitcoin ==
    \E move \in {-1, 1} :
        /\ market' = [market EXCEPT !.btc = [b \in DOMAIN @ \cup {market.now} |->
               IF b = market.now THEN @[Peak(DOMAIN @)] + move ELSE @[b]]]
        /\ UNCHANGED samples

\* A frame: the Normalizer keeps what it saw.
Frame == samples' = Observed(market, samples) /\ UNCHANGED market

Init == \E start \in Starts : market = start.market /\ samples = start.samples /\ steps = 0

Next ==
    /\ steps < MaxSteps /\ steps' = steps + 1
    /\ Tick \/ Trade \/ Liquidate \/ Poll \/ Book \/ Structure \/ Bitcoin \/ Frame

Spec == Init /\ [][Next]_vars

-----------------------------------------------------------------------------
(* The market seen from the other side.                                    *)

Opposite(n) == IF n = Absent THEN Absent ELSE -n
Mirrored(m) ==
    [m EXCEPT !.price = -@, !.funding = Opposite(@), !.btcFlow = Opposite(@), !.btcBook = Opposite(@),
              !.tape = [i \in DOMAIN @ |-> [@[i] EXCEPT !.price = -@, !.buy = ~@]],
              !.liquidations = [i \in DOMAIN @ |-> [@[i] EXCEPT !.long = ~@]],
              !.oi.prices = [i \in DOMAIN @ |-> [@[i] EXCEPT !.value = -@]],
              !.btc = [b \in DOMAIN @ |-> -@[b]], !.alt = [b \in DOMAIN @ |-> -@[b]],
              !.book = [@ EXCEPT !.bid = m.book.ask, !.ask = m.book.bid, !.walls = Opposite(@)],
              !.depths = [i \in DOMAIN @ |-> [@[i] EXCEPT !.bid = m.depths[i].ask, !.ask = m.depths[i].bid]],
              !.structure = [@ EXCEPT !.trend = -@, !.broken = -@, !.sweep = -@, !.elliott = Opposite(@),
                                      !.support = m.structure.resistance, !.resistance = m.structure.support,
                                      !.position = IF @ = Absent THEN @ ELSE 100 - @]]
MirroredSamples(s) == [s EXCEPT !.bid = s.ask, !.ask = s.bid]

\* Half of the liquidated notional on each side: the code reads it as longs.
Tied(m) ==
    \E w \in {ShortWindow, LongWindow} :
        LET e == Window(m.liquidations, w) IN e # <<>> /\ 2 * OfLongs(e) = Notional(e)

-----------------------------------------------------------------------------
(* Properties.                                                             *)

OtherWay(relationship) ==
    CASE relationship = "up" -> "down" [] relationship = "down" -> "up"
      [] relationship = "bullish" -> "bearish" [] relationship = "bearish" -> "bullish"
      [] OTHER -> relationship
Exchanged(scores) ==
    [scores EXCEPT !.long = scores.short, !.short = scores.long, !.up = scores.down, !.down = scores.up,
                   !.relationship = OtherWay(@)]

(* No side is favoured: the same market with the sides exchanged has the
   same scores and the same divergence with the sides exchanged, through
   all layers and features; but for the distance of the invalidation, which
   has one sign at both edges, and for a tie of liquidations (layers.py,
   pressure_engine.score, PreBreakEngine.evaluate).                        *)
MirrorHolds ==
    market.structure.position \in {Absent, 25, 75} /\ ~Tied(market) =>
        Scores(Mirrored(market), MirroredSamples(samples)) = Exchanged(Scores(market, samples))
=============================================================================
