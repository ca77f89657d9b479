------------------------------ MODULE LeadViews ------------------------------
(***************************************************************************)
(* What one symbol of the Lead Engine makes of its streams: the structure  *)
(* and levels, the frame that requests share, the walls of the book, and   *)
(* the scores.  The parts meet only in the frame, which takes a reading of *)
(* each; so each is checked with streams of its own, while the others      *)
(* rest: TLC checks the four in one run.                                   *)
(***************************************************************************)
EXTENDS LeadStructure

CONSTANTS
    Readers, Forced, Interval, BookLimit, TradeDead, TickerLimit, MaxTime,      \* of LeadFrames
    WallPrices, MaxSize, Lots, WallBooks, WallMultiple,                          \* of BookWalls
    MaxWallSteps, MaxResyncs,
    ShortWindow, LongWindow, LargeMultiple, MinSamples, FlushNotional,          \* of LeadScores
    CascadeGain, FlatChange, FullChange, MinPairs, MaxLeadLag, Depths,
    StackMultiple, DepthSamples, Compression, Starts, Trades, Liquidated,
    Interest, Books, Structures, MaxMessages

ASSUME ViewsAssumption ==
    /\ Forced \subseteq Readers /\ Interval \in Nat \ {0}
    /\ {BookLimit, TradeDead, TickerLimit, MaxTime, MaxWallSteps, MaxResyncs} \subseteq Nat
    /\ {FlushNotional, FlatChange, FullChange, Compression} \subseteq Nat \ {0}
    /\ ShortWindow \in Nat /\ LongWindow \in Nat /\ ShortWindow <= LongWindow
    /\ WallPrices \subseteq Nat /\ IsFiniteSet(WallPrices) /\ Lots \subseteq Nat /\ MaxSize \in Nat
    /\ WallBooks \subseteq [{"bid", "ask"} -> [WallPrices -> 0..MaxSize]]

VARIABLES
    part,                                                              \* the part that runs
    now, last, synced, frame, made, reader, lock,                      \* of LeadFrames
    book, steps, delivered, mirror, pending, flow, walls, spoofs, resyncs, crossing,  \* of BookWalls
    market, samples, messages                                          \* of LeadScores

Frames == INSTANCE LeadFrames
Walls ==
    INSTANCE BookWalls WITH market <- book, book <- mirror, wire <- delivered,
                            Prices <- WallPrices, Books <- WallBooks, MaxSteps <- MaxWallSteps
Scoring == INSTANCE LeadScores WITH steps <- messages, MaxLag <- MaxLeadLag, MaxSteps <- MaxMessages

frameVars == <<now, last, synced, frame, made, reader, lock>>
wallVars == <<book, steps, delivered, mirror, pending, flow, walls, spoofs, resyncs, crossing>>
scoreVars == <<market, samples, messages>>

ViewsInit ==
    /\ part \in {"structure", "frames", "walls", "scores"}
    /\ Init /\ Frames!Init /\ Walls!Init /\ Scoring!Init
    /\ part # "structure" => tape = CHOOSE t \in Tapes : TRUE      \* a resting part has one state
    /\ part # "scores" => [market |-> market, samples |-> samples] = CHOOSE s \in Starts : TRUE

ViewsNext ==
    /\ part' = part
    /\ \/ part = "structure" /\ Next /\ UNCHANGED <<frameVars, wallVars, scoreVars>>
       \/ part = "frames" /\ Frames!Next /\ UNCHANGED <<vars, wallVars, scoreVars>>
       \/ part = "walls" /\ Walls!Next /\ UNCHANGED <<vars, frameVars, scoreVars>>
       \/ part = "scores" /\ Scoring!Next /\ UNCHANGED <<vars, frameVars, wallVars>>

ViewsSpec == ViewsInit /\ [][ViewsNext]_<<part, vars, frameVars, wallVars, scoreVars>>

-----------------------------------------------------------------------------
(* The properties of the parts, each of which is stated and argued for in  *)
(* its own module.                                                         *)

\* The series of minutes and the longer bars made of it are the exchange's,
\* whatever order klines and history come in (LeadStructure).
MinutesAreTrue == SeriesConverges /\ LiveBarIsTrue
\* A tick is sampled once, however many ask (LeadFrames).
SampledOnce == Frames!SampledOnce
\* Who is allowed to trade by a frame is so by recent data (LeadFrames).
ServedFrameIsFresh == Frames!ServedFrameIsFresh
\* What is read as a pull was pulled (BookWalls).
PullsAreReal == Walls!PullsAreReal
\* No side of the market is favoured (LeadScores).
MirrorHolds == part = "scores" => Scoring!MirrorHolds
-----------------------------------------------------------------------------
(* Values for the constants.  A tape of two prices a minute, a double      *)
(* bottom that is left by two changes of character; a book with one large  *)
(* bid; and for LeadScores an empty market, and one that rose, with a      *)
(* history of everything, in which buyers keep taking but less than was    *)
(* usual.                                                                  *)

DoubleBottom == <<1, 1, 2, 3, 2, 2, 3, 3, 3, 4, 2, 1, 2, 6>>
TapeThatTurns == {DoubleBottom}

MCWallBooks == {[bid |-> <<1, 4, 0, 0>>, ask |-> <<0, 0, 1, 1>>]}

NoValue == 1000    \* Absent of LeadReadings
Side(sizes, added, cancelled, executed) ==
    [sizes |-> sizes, added |-> added, cancelled |-> cancelled, executed |-> executed]
NoBook == [synced |-> FALSE, bid |-> Side(<<1>>, 0, 0, 0), ask |-> Side(<<1>>, 0, 0, 0), walls |-> NoValue]
BidHeavy == [synced |-> TRUE, bid |-> Side(<<4, 2, 1>>, 3, 1, 2), ask |-> Side(<<1, 1, 2>>, 0, 2, 1), walls |-> 50]
TopOnly == [synced |-> TRUE, bid |-> Side(<<4, 1, 1>>, 1, 1, 1), ask |-> Side(<<1, 4, 4>>, 2, 0, 0), walls |-> NoValue]

Level(distance, bounces, tests) == [known |-> TRUE, distance |-> distance, bounces |-> bounces, tests |-> tests]
NoLevel == [known |-> FALSE, distance |-> 0, bounces |-> <<>>, tests |-> 0]
NoStructure == [known |-> FALSE, trend |-> 0, broken |-> 0, choch |-> FALSE, sweep |-> 0, elliott |-> NoValue,
           position |-> NoValue, support |-> NoLevel, resistance |-> NoLevel]
Reading(trend, broken, choch, sweep, elliott, position, support, resistance) ==
    [known |-> TRUE, trend |-> trend, broken |-> broken, choch |-> choch, sweep |-> sweep, elliott |-> elliott,
     position |-> position, support |-> support, resistance |-> resistance]
RisingReading == Reading(1, 1, FALSE, 0, 40, 75, NoLevel, Level(1, <<4, 3, 1>>, 3))
Turned == Reading(1, -1, TRUE, 1, NoValue, NoValue, Level(0, <<3, 2>>, 4), Level(3, <<>>, 1))
AtTheEdge == Reading(0, 0, FALSE, 0, NoValue, 100, Level(3, <<>>, 1), Level(0, <<2, 1>>, 2))
Empty ==
    [now |-> 0, price |-> 5, tape |-> <<>>, counts |-> <<>>, liquidations |-> <<>>, oi |-> [series |-> <<>>, prices |-> <<>>, bucket |-> 0, value |-> 0],
     btc |-> [b \in {0} |-> 3], alt |-> [b \in {0} |-> 5], btcFlow |-> NoValue, btcBook |-> NoValue,
     book |-> NoBook, depths |-> <<>>, funding |-> NoValue, structure |-> NoStructure]
NoSamples == [name \in {"slope", "offset", "funding", "bid", "ask"} |-> <<>>]

Bought(at, price, size) == [at |-> at, price |-> price, size |-> size, buy |-> TRUE]
Busy ==
    [Empty EXCEPT !.now = 5, !.price = 9, !.tape = <<Bought(1, 6, 4), Bought(2, 8, 4), Bought(5, 9, 1)>>,
        !.counts = <<0, 1, 1>>,
        !.liquidations = <<[at |-> 1, notional |-> 5, long |-> FALSE], [at |-> 4, notional |-> 2, long |-> TRUE]>>,
        !.oi = [series |-> <<[at |-> 2, value |-> 100], [at |-> 5, value |-> 102]>>,
                prices |-> <<[at |-> 2, value |-> 8], [at |-> 5, value |-> 9]>>, bucket |-> 5, value |-> 102],
        !.btc = [b \in 0..5 |-> <<3, 4, 4, 6, 5, 7>>[b + 1]], !.alt = [b \in 0..5 |-> <<5, 5, 6, 6, 8, 8>>[b + 1]],
        !.btcFlow = 60, !.btcBook = -20,
        !.book = BidHeavy, !.depths = <<[at |-> 3, bid |-> 5, ask |-> 6], [at |-> 5, bid |-> 7, ask |-> 4]>>,
        !.funding = 2, !.structure = RisingReading]
BusySamples == [slope |-> <<8, 8>>, offset |-> <<60, 20>>, funding |-> <<1, 3>>, bid |-> <<50, 200>>, ask |-> <<0>>]

MCDepths == <<1, 2, 2, 3, 3>>
MCMarkets == {[market |-> Empty, samples |-> NoSamples], [market |-> Busy, samples |-> BusySamples]}
MCTrades ==
    {[move |-> 1, size |-> 1, buy |-> TRUE, late |-> 0], [move |-> -1, size |-> 4, buy |-> FALSE, late |-> 0],
     [move |-> 0, size |-> 4, buy |-> TRUE, late |-> 1]}
MCLiquidated == [notional : {2, 6}, long : BOOLEAN]
MCInterest == {100, 102, 106}
ScoredBooks == {NoBook, BidHeavy, TopOnly}
MCStructures == {RisingReading, Turned, AtTheEdge}
=============================================================================
