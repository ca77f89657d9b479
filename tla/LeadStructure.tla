---------------------------- MODULE LeadStructure ----------------------------
(***************************************************************************)
(* Where the Lead Engine's structure comes from: one symbol's klines and   *)
(* trades on the socket, the history that _backfill_structure reads over   *)
(* REST on a thread of its own, and the snapshots that read what there is  *)
(* (lead_engine/engine.py, state.py, candles_rest.py).                     *)
(*                                                                         *)
(* The exchange is external: it trades twice a minute, first at the        *)
(* minute's open and then at its close, and publishes after each trade the *)
(* minute's bar, the second time confirmed.  A start is a number of ticks; *)
(* a minute is two of them, a fine bar of the level tracker one.           *)
(***************************************************************************)
EXTENDS SmcStructure, FiniteSets

CONSTANTS
    MinClosedBars,   \* MIN_CLOSED_BARS_FOR_LEVELS
    BackfillBars,    \* BACKFILL_BARS
    Tapes,           \* the prices the exchange may print, tick by tick
    ConnectAt,       \* ticks after which the socket may be up
    MaxLag, MaxOutages, MaxBackfills   \* bounds

ASSUME StructureAssumption ==
    /\ {FractalWidth, MaxCandles, MinClosedBars, BackfillBars} \subseteq Nat \ {0}
    /\ {MaxLag, MaxOutages, MaxBackfills, Tolerance} \subseteq Nat
    /\ \A t \in Tapes : t \in Seq(Nat \ {0}) /\ \A n \in ConnectAt : n \in 0..Len(t)

VARIABLES
    tape,       \* the prices of this run
    clock,      \* ticks the exchange has traded
    wire,       \* the tick up to which each topic has been delivered
    outages,    \* deliveries the socket has lost
    fetched,    \* the rows the backfill has still to hand over
    backfills,  \* backfills started
    exchange,   \* smc["1"], fed with klines and history; `of` (history): the bars of its answer
    local,      \* local_smc, fed with the bars made of trades
    minute,     \* local_candles: the minute in progress
    fine,       \* level_candles: its bars, and the one in progress
    levels,     \* LevelTracker: its key and levels, and (history) what it read
    heard       \* what was heard of each minute: the tick, and "rest" (history)

vars == <<tape, clock, wire, outages, fetched, backfills, exchange, local, minute, fine, levels, heard>>
feeds == <<exchange, local, minute, fine, heard>>

-----------------------------------------------------------------------------
(* The exchange.                                                           *)

StartOf(tick) == Bucket(tick - 1, 2)
IsLast(tick) == tick % 2 = 0
TradeAt(tick) == [at |-> tick - 1, price |-> tape[tick]]
BarAt(tick) ==
    LET first == Opened(StartOf(tick), tape[StartOf(tick) + 1])
    IN  IF IsLast(tick) THEN Finished(Extended(first, tape[tick])) ELSE first

\* fetch_candles: oldest first, the newest row marked as not closed.
RowsNow == Newest([m \in 1..(clock + 1) \div 2 |-> 2 * m], BackfillBars)

Trade ==
    /\ clock < Len(tape)
    /\ \A topic \in DOMAIN wire : clock - wire[topic] < MaxLag
    /\ clock' = clock + 1
    /\ UNCHANGED <<tape, wire, outages, fetched, backfills, levels, feeds>>

\* A reconnect, or a queue that is full: what was on its way is lost.
Outage ==
    /\ outages < MaxOutages
    /\ \E topic \in DOMAIN wire : wire[topic] < clock
    /\ outages' = outages + 1
    /\ wire' = [topic \in DOMAIN wire |-> clock]
    /\ UNCHANGED <<tape, clock, fetched, backfills, levels, feeds>>

-----------------------------------------------------------------------------
(* The series.                                                             *)

NewEngine == [candles |-> <<>>, trend |-> "ranging", key |-> <<>>, answer |-> <<>>, of |-> <<>>]
KeyOf(b) == <<IF b = <<>> THEN 0 ELSE Last(b).start, Len(b)>>

\* SmcEngine.update: every update clears the key of the remembered state.
Updated(engine, c) == [engine EXCEPT !.candles = Place(@, c), !.key = <<>>]

\* SmcEngine.state
ReadState(engine) ==
    LET b == Closed(engine.candles)
    IN  IF engine.key = KeyOf(b) THEN engine
        ELSE [engine EXCEPT !.key = KeyOf(b), !.answer = <<StateOf(b, engine.trend)>>,
                            !.trend = TrendAfter(b, engine.trend), !.of = b]

\* _on_klines and on_kline, for a kline of the socket.
Kline ==
    /\ wire.kline < clock
    /\ wire' = [wire EXCEPT !.kline = @ + 1]
    /\ exchange' = Updated(exchange, BarAt(wire.kline + 1))
    /\ heard' = [heard EXCEPT ![StartOf(wire.kline + 1)] = @ \cup {wire.kline + 1}]
    /\ UNCHANGED <<tape, clock, outages, fetched, backfills, local, minute, fine, levels>>

\* _on_trades and on_trade: the bar a trade closes goes to the local series.
PublicTrade ==
    /\ wire.trade < clock
    /\ wire' = [wire EXCEPT !.trade = @ + 1]
    /\ LET t == TradeAt(wire.trade + 1)
       IN  /\ local' = IF Closes(minute, t, 2) THEN Updated(local, Finished(minute)) ELSE local
           /\ minute' = Forming(minute, t, 2)
           /\ fine' = [bars |-> IF Closes(fine.forming, t, 1)
                                THEN Newest(Append(fine.bars, Finished(fine.forming)), MaxCandles)
                                ELSE fine.bars,
                       forming |-> Forming(fine.forming, t, 1)]
    /\ UNCHANGED <<tape, clock, outages, fetched, backfills, exchange, levels, heard>>

-----------------------------------------------------------------------------
(* The history.                                                            *)

\* A start of the engine: the rows are fetched, the one marked open is skipped.
Fetch ==
    /\ fetched = <<>> /\ backfills < MaxBackfills
    /\ backfills' = backfills + 1
    /\ fetched' = IF RowsNow = <<>> THEN <<>> ELSE Front(RowsNow)
    /\ UNCHANGED <<tape, clock, wire, outages, levels, feeds>>

Backfill ==
    /\ fetched # <<>>
    /\ exchange' = Updated(exchange, BarAt(Head(fetched)))
    /\ heard' = [heard EXCEPT ![StartOf(Head(fetched))] = @ \cup {Head(fetched)}]
    /\ fetched' = Tail(fetched)
    /\ UNCHANGED <<tape, clock, wire, outages, backfills, local, minute, fine, levels>>

-----------------------------------------------------------------------------
(* The snapshot.                                                           *)

\* _structure_engine: the series with more closed bars, the exchange's on a tie.
UsesExchange ==
    /\ exchange.candles # <<>>
    /\ Len(Closed(exchange.candles)) >= Len(Closed(local.candles))
Structure == IF UsesExchange THEN exchange ELSE local

\* The level tracker reads the fine bars once there are enough of them.
FineSeries == fine.bars \o (IF fine.forming = NoBar THEN <<>> ELSE <<fine.forming>>)
LevelSeries ==
    IF Structure.candles # <<>> /\ Len(Closed(FineSeries)) < MinClosedBars
    THEN Structure.candles ELSE FineSeries

\* LevelTracker.rebuild: skipped while the closed bars have the same key.
Rebuilt(candles) ==
    LET b == Closed(candles)
    IN  IF candles = <<>> THEN levels
        ELSE IF KeyOf(b) = levels.key THEN [levels EXCEPT !.read = b]
        ELSE [key |-> KeyOf(b), list |-> LevelsOf(b), read |-> b]

\* layer_scores and _compute_snapshot, as far as they read the structure.
Snapshot ==
    /\ exchange' = IF UsesExchange THEN ReadState(exchange) ELSE exchange
    /\ local' = IF UsesExchange \/ local.candles = <<>> THEN local ELSE ReadState(local)
    /\ levels' = Rebuilt(LevelSeries)
    /\ UNCHANGED <<tape, clock, wire, outages, fetched, backfills, minute, fine, heard>>

\* Faulty variant: the bar that opens the longer bar is left out.
InsideAfter(start) == {i \in DOMAIN exchange.candles : exchange.candles[i].start > start}
Inside(start) == {i \in DOMAIN exchange.candles : exchange.candles[i].start >= start}

\* live_candle: the bar in progress of `minutes` minutes, from the minute klines.
LiveCandle(minutes) ==
    LET start == Bucket(Top(clock, 1) - 1, 2 * minutes)
        inside == Inside(start)
        bar(i) == exchange.candles[i]
    IN  IF inside = {} THEN NoBar
        ELSE [start |-> start, open |-> bar(Min(inside)).open, close |-> bar(Max(inside)).close,
              high |-> Max({bar(i).high : i \in inside}), low |-> Min({bar(i).low : i \in inside}),
              closed |-> FALSE]

-----------------------------------------------------------------------------
(* The specification.                                                      *)

Init ==
    /\ tape \in Tapes
    /\ clock \in ConnectAt
    /\ wire = [kline |-> clock, trade |-> clock]
    /\ outages = 0 /\ fetched = <<>> /\ backfills = 0
    /\ exchange = NewEngine /\ local = NewEngine
    /\ minute = NoBar /\ fine = [bars |-> <<>>, forming |-> NoBar]
    /\ levels = [key |-> <<>>, list |-> <<>>, read |-> <<>>]
    /\ heard = [s \in {StartOf(t) : t \in DOMAIN tape} |-> {}]

Next == Trade \/ Outage \/ Kline \/ PublicTrade \/ Fetch \/ Backfill \/ Snapshot

Spec == Init /\ [][Next]_vars

-----------------------------------------------------------------------------
(* Properties.                                                             *)

(* The order in which klines, history and repeated history arrive does not
   matter: the series is the newest minutes that were heard of, each once,
   in time order, and closed with the exchange's own bar as soon as its
   last kline or its row was heard (SmcEngine.update, _supersedes).        *)
HeardBars ==
    LET minutes == [k \in 1..(Len(tape) + 1) \div 2 |-> 2 * k - 2]
        all == Picked(minutes, {k \in DOMAIN minutes : heard[minutes[k]] # {}})
    IN  [k \in DOMAIN all |-> BarAt(Max(heard[all[k]]))]
SeriesConverges == exchange.candles = Newest(HeardBars, MaxCandles)

(* Structure does not repaint: while bars are only added at the end, a swing
   that was read stays one, as long as its neighbours are kept
   (find_swings, the bars it needs on both sides).                         *)
Grown(old, new) ==
    old # <<>> /\ \A c \in Range(new) : c.start <= Last(old).start => c \in Range(old)
Kept(swing, b) == Cardinality({i \in DOMAIN b : b[i].start < swing.at}) >= FractalWidth
NoRepaint ==
    [][\A series \in {<<exchange, exchange'>>, <<local, local'>>} :
        LET old == Closed(series[1].candles)
            new == Closed(series[2].candles)
        IN  old # new /\ Grown(old, new) =>
              \A swing \in Range(Swings(old)) : Kept(swing, new) => swing \in Range(Swings(new))]_vars

(* The live bar of a longer timeframe holds every trade of that bar, when
   the minutes it is made of have been heard without a gap
   (live_candle: "every coarser one is an exact sum of them").             *)
TicksOf(start) == {t \in start + 1..clock : TRUE}
Unbroken(start) ==
    /\ wire.kline = clock
    /\ \A t \in TicksOf(start) : IsLast(t) \/ t = clock => t \in heard[StartOf(t)]
LiveBarIsTrue ==
    \A minutes \in 1..3 :
        LET start == Bucket(Top(clock, 1) - 1, 2 * minutes)
            prices == {tape[t] : t \in TicksOf(start)}
        IN  Unbroken(start) /\ exchange.candles # <<>> =>
              LET bar == LiveCandle(minutes)
              IN  /\ bar.open = tape[start + 1] /\ bar.close = tape[clock]
                  /\ bar.high \in prices /\ bar.low \in prices
                  /\ \A p \in prices : bar.low <= p /\ p <= bar.high

(* The answer changes when a bar closes and not before, whoever asks and how
   often (the comment of SmcEngine.state).                                 *)
AnswerMovesWithACloseOnly ==
    [][exchange.answer # <<>> /\ exchange'.answer # exchange.answer
         => exchange'.of # exchange.of]_vars
=============================================================================
