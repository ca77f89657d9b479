-------------------------------- MODULE Feeds --------------------------------
(***************************************************************************)
(* The three parts of the service that follow the exchange's streams: the  *)
(* Lead Engine's order book, the recorder that taps it, and the candles of *)
(* the live session.  Each is checked with an exchange of its own, so a    *)
(* behaviour of this module is one of one part, while the others rest: TLC *)
(* checks the three in one run.                                            *)
(***************************************************************************)
EXTENDS BookFeed, FiniteSets

CONSTANTS
    BufferLimit, Budget,                                       \* of Capture
    RecordedUpdates, RecordedLost, MaxTrades, MaxSeeds, MaxRows,
    Prices, BarLength,                                         \* of LiveCandles
    MaxTime, MaxTradesPerTick, MaxSessions, MaxDrops

ASSUME CaptureAssumption ==
    /\ BufferLimit \in Nat \ {0} /\ Budget \in Nat
    /\ {RecordedUpdates, RecordedLost, MaxTrades, MaxSeeds, MaxRows} \subseteq Nat
ASSUME CandleAssumption ==
    /\ Prices \subseteq Nat /\ BarLength \in Nat \ {0}
    /\ {MaxTime, MaxTradesPerTick, MaxSessions, MaxDrops} \subseteq Nat

VARIABLES
    part,    \* the part that runs
    tapped, engineBook, frame, recorder, tape, thread, table, seeds, newest, spoilt,  \* of Capture
    now, market, session, wire, connected, dark, current, history, forming         \* of LiveCandles

Recorder ==
    INSTANCE Capture WITH exchange <- tapped, book <- engineBook,
                          MaxUpdates <- RecordedUpdates, MaxLost <- RecordedLost
Candles == INSTANCE LiveCandles

recorderVars == <<tapped, engineBook, frame, recorder, tape, thread, table, seeds, newest, spoilt>>
candleVars == <<now, market, session, wire, connected, dark, current, history, forming>>

FeedsInit == part \in {"book", "recorder", "candles"} /\ Init /\ Recorder!Init /\ Candles!Init

FeedsNext ==
    /\ part' = part
    /\ \/ part = "book" /\ Next /\ UNCHANGED <<recorderVars, candleVars>>
       \/ part = "recorder" /\ Recorder!Next /\ UNCHANGED <<vars, candleVars>>
       \/ part = "candles" /\ Candles!Next /\ UNCHANGED <<vars, recorderVars>>

FeedsSpec ==
    /\ FeedsInit /\ [][FeedsNext]_<<part, vars, recorderVars, candleVars>>
    /\ part = "book" => Fairness

-----------------------------------------------------------------------------
(* The properties of the parts, each of which is stated and argued for in  *)
(* its own module.                                                         *)

\* A resync that is wanted ends (BookFeed, which is fair only while it runs).
ResyncEnds == part = "book" => WantedResyncEnds
\* What the recorder keeps replays to the engine's book (Capture).
ReplayIsExact == Recorder!ReplayIsExact
\* Between the gaps the rows show, no trade is missing (Capture).
TapeIsWhole == Recorder!TapeIsWhole
\* A processed bar is over and the exchange's, but for the one in progress when the
\* history was seeded (LiveCandles).
BarsAreTrue == Candles!BarsAreTrue
=============================================================================
