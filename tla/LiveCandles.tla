----------------------------- MODULE LiveCandles -----------------------------
(***************************************************************************)
(* pipeline/live_loop.py with candle_builder/aggregator.py, the Bybit REST *)
(* and trade clients and the live handlers of dashboard/server.py: how one *)
(* timeframe's history is seeded from REST and then grown from trades.     *)
(*                                                                         *)
(* Every timeframe has an aggregator and a history of its own that see the *)
(* same trades, so one stands for all.  The exchange is external: it       *)
(* trades, answers for its bars and streams trades in order, late, or not  *)
(* at all while the connection is down.  A bar is a bucket of BarLength    *)
(* ticks; volumes are counted as trades.                                   *)
(***************************************************************************)
EXTENDS FiniteSetsExt, Selections

CONSTANTS
    Prices,          \* prices a trade can have
    BarLength,       \* ticks of a bar
    MaxTime, MaxTradesPerTick, MaxSessions, MaxDrops   \* bounds

VARIABLES
    now,          \* the tick
    market,       \* every trade of the exchange, in order
    session,      \* "none", "seeded", "live", and how many there have been
    wire,         \* trades on their way to the session
    connected,    \* the trade socket is subscribed
    dark,         \* ticks in which the session's socket was down (history variable)
    current,      \* TimeframeAggregator._current
    history,      \* LiveTradingEngine.history: the bars that were processed
    forming       \* the bucket that was in progress when it was seeded (history variable)

vars == <<now, market, session, wire, connected, dark, current, history, forming>>

Bucket(at) == at \div BarLength
Ended(bucket) == (bucket + 1) * BarLength <= now

NoBar == [bucket |-> -1, open |-> 0, high |-> 0, low |-> 0, close |-> 0, trades |-> 0]
Higher(a, b) == IF a >= b THEN a ELSE b
Lower(a, b) == IF a <= b THEN a ELSE b

Opened(t) == [bucket |-> Bucket(t.at), open |-> t.price, high |-> t.price,
              low |-> t.price, close |-> t.price, trades |-> 1]
Extended(bar, t) ==
    [bar EXCEPT !.high = Higher(@, t.price), !.low = Lower(@, t.price),
                !.close = t.price, !.trades = @ + 1]

-----------------------------------------------------------------------------
(* The exchange.                                                           *)

\* The exchange's own bar, of its trades at the positions P; a bucket without a
\* trade repeats the last price.
InBucket(b) == {i \in DOMAIN market : Bucket(market[i].at) = b}
Earlier(b) == {i \in DOMAIN market : Bucket(market[i].at) < b}
Paid(P) == {market[i].price : i \in P}
BarOf(b, P) ==
    [bucket |-> b, open |-> market[Min(P)].price, high |-> Max(Paid(P)), low |-> Min(Paid(P)),
     close |-> market[Max(P)].price, trades |-> Cardinality(P)]
Flat(b, p) == [bucket |-> b, open |-> p, high |-> p, low |-> p, close |-> p, trades |-> 0]
TrueBar(b) ==
    IF InBucket(b) # {} THEN BarOf(b, InBucket(b)) ELSE Flat(b, market[Max(Earlier(b))].price)

Tick ==
    /\ now < MaxTime
    /\ now' = now + 1
    /\ dark' = IF session.stage = "live" /\ ~connected THEN dark \cup {now + 1} ELSE dark
    /\ UNCHANGED <<market, session, wire, connected, current, history, forming>>

TradesAt(at) == Cardinality({i \in DOMAIN market : market[i].at = at})
Trade ==
    /\ TradesAt(now) < MaxTradesPerTick
    /\ \E p \in Prices :
        LET t == [at |-> now, price |-> p]
        IN  /\ market' = Append(market, t)
            /\ wire' = IF connected THEN Append(wire, t) ELSE wire
    /\ UNCHANGED <<now, session, connected, dark, current, history, forming>>

\* Rows of get_klines, oldest first, from bucket `from` on (the limit).  The newest
\* is of the bucket in progress, as it stands; _parse_kline calls every row closed.
Rows(from) ==
    LET start == Higher(Bucket(Head(market).at), from)
    IN  IF market = <<>> THEN <<>>
        ELSE [i \in 1..Higher(0, Bucket(now) - start + 1) |-> TrueBar(start + i - 1)]
-----------------------------------------------------------------------------
(* The live session.                                                       *)

\* seed_history: rows that are known or older than the newest bar are skipped.
Seeded(rows) ==
    Picked(rows, {i \in DOMAIN rows : \A j \in 1..i - 1 : rows[j].bucket < rows[i].bucket})

\* start_live, start_live_on_boot: a fresh engine, and what REST answers for it.
Start ==
    /\ session.stage = "none" /\ session.count < MaxSessions
    /\ session' = [stage |-> "seeded", count |-> session.count + 1]
    /\ current' = NoBar /\ dark' = {}
    /\ \/ history' = <<>>                        \* backfill = 0, or REST failed
       \/ \E from \in 0..Bucket(now) : history' = Seeded(Rows(from))
    /\ forming' = IF history' = <<>> THEN NoBar.bucket ELSE Bucket(now)
    /\ UNCHANGED <<now, market, wire, connected>>

\* The task runs: run_live connects, and connects again after every failure.
Connect ==
    /\ session.stage \in {"seeded", "live"} /\ ~connected
    /\ session' = [session EXCEPT !.stage = "live"]
    /\ connected' = TRUE /\ wire' = <<>>
    /\ dark' = dark \cup {now}
    /\ UNCHANGED <<now, market, current, history, forming>>

Drop ==
    /\ connected /\ Cardinality(dark) < MaxDrops
    /\ connected' = FALSE /\ wire' = <<>>
    \* the trades still on the wire are lost with the socket
    /\ dark' = dark \cup {now} \cup {wire[i].at : i \in DOMAIN wire}
    /\ UNCHANGED <<now, market, session, current, history, forming>>

\* Faulty variant: a trade of the next bucket is still counted into the bar.
RolledLate(t) ==
    IF current = NoBar THEN <<Opened(t), history>>
    ELSE IF Bucket(t.at) > current.bucket
         THEN <<NoBar, Append(history, Extended(current, t))>>
         ELSE <<Extended(current, t), history>>

\* Faulty variant: the second trade of a bucket seals it.
RolledAtOnce(t) ==
    IF current = NoBar THEN <<Opened(t), history>>
    ELSE <<Opened(t), Append(history, current)>>

\* TimeframeAggregator.on_trade: a trade of a later bucket seals the open one,
\* and what is sealed is processed as a closed candle (_on_candle_closed).
Rolled(t) ==
    IF current = NoBar THEN <<Opened(t), history>>
    ELSE IF Bucket(t.at) > current.bucket
         THEN <<Opened(t), Append(history, current)>>
         ELSE <<Extended(current, t), history>>

Receive ==
    /\ connected /\ wire # <<>>
    /\ current' = Rolled(Head(wire))[1] /\ history' = Rolled(Head(wire))[2]
    /\ wire' = Tail(wire)
    /\ UNCHANGED <<now, market, session, connected, dark, forming>>

\* stop_live, or the process ends: the engine and its history are gone.
Stop ==
    /\ session.stage # "none"
    /\ session' = [session EXCEPT !.stage = "none"]
    /\ connected' = FALSE /\ wire' = <<>>
    /\ current' = NoBar /\ history' = <<>> /\ dark' = {} /\ forming' = NoBar.bucket
    /\ UNCHANGED <<now, market>>
-----------------------------------------------------------------------------
Init ==
    /\ now = 0 /\ market = <<>>
    /\ session = [stage |-> "none", count |-> 0]
    /\ wire = <<>> /\ connected = FALSE /\ dark = {}
    /\ current = NoBar /\ history = <<>> /\ forming = NoBar.bucket

Next == Tick \/ Trade \/ Start \/ Connect \/ Drop \/ Receive \/ Stop

Spec == Init /\ [][Next]_vars
-----------------------------------------------------------------------------
(* Properties.                                                             *)

\* How seed_history and the stream meet.  The bucket that was in progress when the
\* history was seeded may stand in it twice, first as REST had it and then as the
\* stream heard the rest of it.  Every other bar is in the history once, in order, and
\* only when its bucket is over on the exchange's clock, and is the exchange's bar,
\* trade for trade, unless the socket was down, or connected, in some tick of it.
Lit(b) == \A at \in b * BarLength .. (b + 1) * BarLength - 1 : at \notin dark
BarsAreTrue ==
    /\ \A i, j \in DOMAIN history : i < j =>
          \/ history[i].bucket < history[j].bucket
          \/ j = i + 1 /\ history[i].bucket = forming /\ history[j].bucket = forming
    /\ \A i \in DOMAIN history : history[i].bucket # forming =>
          /\ Ended(history[i].bucket)
          /\ Lit(history[i].bucket) => history[i] = TrueBar(history[i].bucket)
=============================================================================
