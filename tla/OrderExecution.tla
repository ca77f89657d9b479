--------------------------- MODULE OrderExecution ---------------------------
(***************************************************************************)
(* research/execution.py and the parts of research/book.py it reads: what  *)
(* market events do to the orders of one simulated trader.                 *)
(*                                                                         *)
(* Every event is handled whole, order by order, so the simulator is a set *)
(* of operators on orders; ResearchTrading drives them.  An order lives in *)
(* exchange time from its arrival on, while it is decided in receive time. *)
(* Prices and sizes are small integers, a price is a tick, and a book is   *)
(* the best two levels of each side.  Of its fills an order keeps the sums *)
(* and the times.                                                          *)
(***************************************************************************)
EXTENDS Integers, Sequences

CONSTANTS
    SendDelay, AckDelay, CancelDelay,  \* LatencyModel
    Participation,    \* the inverse of max_participation
    QueueFactor,      \* percent of a level assumed ahead of a new order
    CancelHelps,      \* QueueModel.cancel_helps
    MinNotional,      \* InstrumentSpec.min_notional
    TakerFee, MakerFee  \* of the price, in units of 1/Scale of a tick

Never == -1
NoPrice == -1
-----------------------------------------------------------------------------
(* Books: two sides, best level first, and the two clocks.                 *)

NoBook == [bids |-> <<>>, asks |-> <<>>, exch |-> 0, recv |-> 0]

\* BookState.valid: two sides that do not cross.
Usable(book) ==
    /\ book.bids # <<>> /\ book.asks # <<>>
    /\ book.bids[1].price < book.asks[1].price

\* Twice the mid.
Mid2(book) == book.bids[1].price + book.asks[1].price

\* A level past the last is empty.
Level(levels, i) == IF i <= Len(levels) THEN levels[i] ELSE [price |-> 0, size |-> 0]

SizeAt(levels, price) ==
    IF Level(levels, 1).price = price THEN Level(levels, 1).size
    ELSE IF Level(levels, 2).price = price THEN Level(levels, 2).size ELSE 0

\* The levels an order of this side rests among, and those it takes from.
OwnSide(side, book) == IF side = "buy" THEN book.bids ELSE book.asks
Opposite(side, book) == IF side = "buy" THEN book.asks ELSE book.bids
-----------------------------------------------------------------------------
(* Orders.                                                                 *)

Order(tag, side, kind, price, qty, postOnly, decidedAt, ttl) ==
    [tag |-> tag, side |-> side, kind |-> kind, price |-> price, qty |-> qty,
     postOnly |-> postOnly, decidedAt |-> decidedAt, ttl |-> ttl,
     state |-> "pending", taken |-> 0, made |-> 0, cost |-> 0, fees |-> 0, times |-> <<>>,
     ahead |-> 0, cancelAskedAt |-> Never, closedAt |-> Never]

ArrivesAt(o) == o.decidedAt + SendDelay
AckedAt(o) == ArrivesAt(o) + AckDelay

FilledQty(o) == o.taken + o.made
Remaining(o) == o.qty - FilledQty(o)
Terminal(o) == o.state \in {"filled", "cancelled", "rejected"}

\* Membership of open_orders.
InBook(o) == o.state \in {"open", "partial"} /\ o.closedAt = Never

Closed(o, state, at) == [o EXCEPT !.state = state, !.closedAt = at]
Rejected(o) == Closed(o, "rejected", ArrivesAt(o))

\* submit: an order too small for the venue never leaves.
Submitted(o, book) ==
    LET twice == IF o.price # NoPrice THEN 2 * o.price
                 ELSE IF Usable(book) THEN Mid2(book) ELSE NoPrice
    IN  IF o.qty = 0 \/ (twice # NoPrice /\ twice * o.qty < 2 * MinNotional)
        THEN Rejected(o) ELSE o

\* Faulty variant: the cancel lands at once.
CancelledAtOnce(o, at) == IF Terminal(o) THEN o ELSE Closed(o, "cancelled", at)

\* cancel: asked once, lands later.
Cancelled(o, at) ==
    IF Terminal(o) \/ o.cancelAskedAt # Never THEN o ELSE [o EXCEPT !.cancelAskedAt = at]

\* _record_fill.
Fill(o, price, qty, maker, at) ==
    [o EXCEPT !.taken = IF maker THEN @ ELSE @ + qty,
              !.made  = IF maker THEN @ + qty ELSE @,
              !.cost  = @ + price * qty,
              !.fees  = @ + price * qty * (IF maker THEN MakerFee ELSE TakerFee),
              !.times = Append(@, at),
              !.state = IF @ = "open" /\ Remaining(o) > qty THEN "partial" ELSE @]
-----------------------------------------------------------------------------
(* Taking liquidity (_take).                                               *)

WithinLimit(o, price) ==
    o.price = NoPrice \/ (IF o.side = "buy" THEN price <= o.price ELSE price >= o.price)

Smaller(a, b) == IF a < b THEN a ELSE b

\* One level of the walk: never more than its share of the resting size.
TookLevel(o, level) ==
    LET qty == Smaller(Remaining(o), level.size \div Participation)
    IN  IF qty = 0 \/ ~WithinLimit(o, level.price) THEN o
        ELSE Fill(o, level.price, qty, FALSE, ArrivesAt(o))

Walked(o, levels) == TookLevel(TookLevel(o, Level(levels, 1)), Level(levels, 2))

\* What a market order could not cross into does not happen.
Took(o, book) ==
    LET t == Walked(o, Opposite(o.side, book))
    IN  IF Remaining(t) = 0 THEN Closed(t, "filled", ArrivesAt(o))
        ELSE IF o.kind = "market"
             THEN Closed(t, IF FilledQty(t) = 0 THEN "cancelled" ELSE "partial", ArrivesAt(o))
        ELSE t
-----------------------------------------------------------------------------
(* Arrival (_arrive).                                                      *)

Marketable(o, book) == WithinLimit(o, Opposite(o.side, book)[1].price)

\* Its place in the queue is guessed from what rests at its price.
Rested(o, book) ==
    [o EXCEPT !.state = "open",
              !.ahead = (SizeAt(OwnSide(o.side, book), o.price) * QueueFactor) \div 100]

\* Faulty variant: a post-only order that would cross is filled all the same.
ArrivedCrossing(o, book) ==
    LET t == IF Marketable(o, book) THEN Took(o, book) ELSE o
    IN  IF ~Usable(book) THEN Rejected(o)
        ELSE IF o.kind = "market" THEN Took(o, book)
        ELSE IF Remaining(t) = 0 THEN t ELSE Rested(t, book)

Arrived(o, book) ==
    LET t == IF Marketable(o, book) THEN Took(o, book) ELSE o
    IN  IF ~Usable(book) THEN Rejected(o)
        ELSE IF o.kind = "market" THEN Took(o, book)
        ELSE IF Marketable(o, book) /\ o.postOnly THEN Rejected(o)
        ELSE IF Remaining(t) = 0 THEN t ELSE Rested(t, book)

\* _advance: arrivals first, then the cancels that have landed.
Landed(o, now, book) ==
    IF o.state = "pending" /\ ArrivesAt(o) <= now THEN Arrived(o, book) ELSE o

Pulled(o, now) ==
    IF InBook(o) /\ o.cancelAskedAt # Never /\ o.cancelAskedAt + CancelDelay <= now
    THEN Closed(o, "cancelled", now) ELSE o

Advanced(o, now, book) == Pulled(Landed(o, now, book), now)

\* _expire.
Expired(o, now) ==
    IF InBook(o) /\ o.ttl # Never /\ now >= AckedAt(o) + o.ttl THEN Cancelled(o, now) ELSE o
-----------------------------------------------------------------------------
(* Resting orders.                                                         *)

\* A trade past the order's price takes all that rests there; one at the price
\* fills what is left of it once the queue ahead has been served.
Through(o, trade) == IF o.side = "buy" THEN trade.price < o.price ELSE trade.price > o.price

MakerFill(o, qty, at) ==
    LET f == Fill(o, o.price, qty, TRUE, at)
    IN  IF Remaining(f) = 0 THEN Closed(f, "filled", at) ELSE f

\* Faulty variant: an order is filled by every trade of its size.
MatchedWhole(o, trade) ==
    IF InBook(o) /\ trade.side # o.side THEN MakerFill(o, trade.size, trade.exch) ELSE o

\* _match_makers.
Matched(o, trade) ==
    LET eaten == Smaller(o.ahead, trade.size)
        qty   == Smaller(Remaining(o), trade.size - eaten)
    IN  IF ~InBook(o) \/ Remaining(o) = 0 \/ trade.side = o.side THEN o
        ELSE IF Through(o, trade) THEN MakerFill(o, Remaining(o), trade.exch)
        ELSE IF trade.price # o.price THEN o
        ELSE IF qty = 0 THEN [o EXCEPT !.ahead = @ - eaten]
        ELSE MakerFill([o EXCEPT !.ahead = @ - eaten], qty, trade.exch)

\* _apply_book_change: size that left a level without a trade may have been
\* ahead of the order, in proportion, if CancelHelps.
Requeued(o, old, book) ==
    LET before == SizeAt(OwnSide(o.side, old), o.price)
        after  == SizeAt(OwnSide(o.side, book), o.price)
    IN  IF CancelHelps /\ InBook(o) /\ after < before
        THEN [o EXCEPT !.ahead = (@ * after) \div before] ELSE o

\* on_book and on_trade, for one order.
SawBook(o, old, book) == Expired(Requeued(Advanced(o, book.exch, book), old, book), book.exch)
SawTrade(o, book, trade) == Expired(Matched(Advanced(o, trade.exch, book), trade), trade.exch)

AfterBook(orders, old, book) == [i \in DOMAIN orders |-> SawBook(orders[i], old, book)]
AfterTrade(orders, book, trade) == [i \in DOMAIN orders |-> SawTrade(orders[i], book, trade)]
=============================================================================
