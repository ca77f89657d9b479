--------------------------- MODULE ResearchTrading --------------------------
(***************************************************************************)
(* research/runner.py, portfolio.py and strategies.py: one strategy on one *)
(* symbol.  Books and trades come in the order they are received, each     *)
(* with an earlier stamp of the exchange; a call of on_book or on_trade is *)
(* one step and does all of: detect gaps, move the orders, assess the      *)
(* feed, turn fills into positions, ask the strategy, act on its intents.  *)
(*                                                                         *)
(* The indicators of features.py are an input: a view says which of a      *)
(* strategy's filters pass.  One day is traded.                            *)
(***************************************************************************)
EXTENDS OrderExecution, SequencesExt

CONSTANTS
    Strategies,      \* those to run, a subset of StrategyNames
    Books,           \* the two sides of a book
    Trades,          \* price, size and aggressor's side of a public trade
    Views,           \* what the filters can say, a subset of ViewSet
    Steps, Lags,     \* time between events; age of an event when it is received
    StaleBook, GapLimit, Rewarm,       \* RunnerConfig
    MinSamples,      \* FeatureEngine.min_samples
    Qty, PassiveTtl, MaxHold, StopPermille, MaxExtension,  \* of the strategies
    MaxNotional, MaxDailyLoss, MaxDrawdown,                \* RiskLimits
    Scale,           \* money is counted in 1/Scale of a tick
    MaxOrders, MaxTime                 \* bounds

StrategyNames == {"order_flow_impulse", "spread_capture", "sweep_reversion"}
Sides == {"buy", "sell"}
ViewSet == [calm : BOOLEAN,      \* the filters of an entry or a quote pass
            side : Sides,        \* the side of the flow
            passive : BOOLEAN,   \* the passive_entry parameter
            burst : BOOLEAN]     \* a sweep is under way
Level2 == [price : Nat, size : Nat]

VARIABLES
    strategy,     \* the strategy this runner drives
    clock,        \* receive time of the last event
    feed,         \* what the runner knows of the feed
    desk          \* orders, position and journal

vars == <<strategy, clock, feed, desk>>

\* _last_event_ms, quality, _good_since_ms, the runner's book, the last valid
\* book of the features and how many they have seen.  `badAt` is a history
\* variable: the last event before which, or at which, the feed was not good.
NewFeed == [lastEvent |-> 0, quality |-> "ok", goodSince |-> 0,
            book |-> NoBook, seen |-> NoBook, samples |-> 0, badAt |-> Never]

\* None where the code has None.
None == [side |-> "none"]

NewDesk ==
    [orders |-> <<>>, entry |-> 0, exit |-> 0, quotes |-> <<>>, position |-> None,
     journal |-> <<>>, realised |-> 0, peak |-> 0, drawdown |-> 0, sweep |-> None]
-----------------------------------------------------------------------------
(* The quality of the feed (_tick, _assess).                               *)

Gap(t) == feed.lastEvent # 0 /\ t - feed.lastEvent > GapLimit
Stale(book, t) == ~Usable(book) \/ t - book.recv > StaleBook

\* Faulty variant: one good book ends a gap.
AssessedAtOnce(book, t) ==
    [quality |-> IF Stale(book, t) THEN "stale" ELSE "ok", goodSince |-> t]

Assessed(book, t) ==
    LET since == IF Gap(t) THEN t ELSE feed.goodSince
        was   == IF Gap(t) THEN "gap" ELSE feed.quality
    IN  IF Stale(book, t) THEN [quality |-> "stale", goodSince |-> t]
        ELSE [quality   |-> IF was # "ok" /\ t - since < Rewarm THEN was ELSE "ok",
              goodSince |-> since]

\* The feed after an event received at t that leaves the runner this book.
Observed(book, isBook, t) ==
    LET a == Assessed(book, t)
        sample == isBook /\ Usable(book)
    IN  [lastEvent |-> t, quality |-> a.quality, goodSince |-> a.goodSince, book |-> book,
         seen |-> IF sample THEN book ELSE feed.seen,
         samples |-> IF sample /\ feed.samples < MinSamples THEN feed.samples + 1 ELSE feed.samples,
         badAt |-> IF Gap(t) \/ Stale(book, t) THEN t ELSE feed.badAt]
-----------------------------------------------------------------------------
(* Turning fills into positions (_settle_orders and the portfolio).        *)

IsFlat(d) == d.position = None
HasFills(d, i) == i # 0 /\ d.orders[i].times # <<>>

\* open_position from what order i has filled so far.
Opened(d, i) ==
    LET o == d.orders[i]
    IN  [d EXCEPT !.position =
            [side |-> o.side, qty |-> FilledQty(o), cost |-> o.cost, fees |-> o.fees,
             order |-> i, openedAt |-> CHOOSE at \in Range(o.times) : \A b \in Range(o.times) : b <= at]]

EntrySettled(d) ==
    IF HasFills(d, d.entry) /\ IsFlat(d) THEN [Opened(d, d.entry) EXCEPT !.entry = 0] ELSE d

\* The other quotes are asked to cancel, and the one that filled, the n-th in
\* the order the runner's dict keeps them, is forgotten.
OthersPulled(d, n) ==
    [d EXCEPT
        !.orders = [i \in DOMAIN @ |->
            IF \E m \in DOMAIN d.quotes \ {n} : d.quotes[m].order = i
            THEN Cancelled(@[i], Last(d.orders[d.quotes[n].order].times)) ELSE @[i]],
        !.quotes = RemoveAt(@, n)]

QuoteSettled(d, n) ==
    IF n \in DOMAIN d.quotes /\ IsFlat(d) /\ HasFills(d, d.quotes[n].order)
    THEN OthersPulled(Opened(d, d.quotes[n].order), n) ELSE d

\* Once one of them has opened a position the other is left alone.
QuotesSettled(d) == QuoteSettled(QuoteSettled(d, 1), 2)

\* Net of a round trip: the difference of the average prices on the smaller of
\* the two quantities, less the fees of both sides.
Net(p, o) ==
    LET qty  == Smaller(p.qty, FilledQty(o))
        gain == (o.cost * Scale * qty) \div FilledQty(o) - (p.cost * Scale * qty) \div p.qty
    IN  (IF p.side = "buy" THEN gain ELSE -gain) - p.fees - o.fees

Higher(a, b) == IF a > b THEN a ELSE b

\* close_position closes the whole of it, whatever the exit o (order i) has filled.
ClosedBy(d, o, i) ==
    LET net == Net(d.position, o)
        sum == d.realised + net
        top == Higher(d.peak, sum)
    IN  [d EXCEPT !.position = None, !.exit = 0,
            !.journal = Append(@, [entry |-> d.position.order, exit |-> i, net |-> net]),
            !.realised = sum, !.peak = top, !.drawdown = Higher(@, top - sum)]

ExitSettled(d) ==
    IF HasFills(d, d.exit) /\ ~IsFlat(d) THEN ClosedBy(d, d.orders[d.exit], d.exit) ELSE d

\* Faulty variant: the order that opened the position stays the entry order.
SettledKeepingEntry(d) ==
    ExitSettled(QuotesSettled(IF HasFills(d, d.entry) /\ IsFlat(d) THEN Opened(d, d.entry) ELSE d))

Settled(d) == ExitSettled(QuotesSettled(EntrySettled(d)))
-----------------------------------------------------------------------------
(* Acting on intents, at t and with what is known of the feed (f).         *)

\* Portfolio.allows, for a runner that trades one symbol.
Allows(d, f) ==
    /\ IsFlat(d)
    /\ Mid2(f.seen) * Qty <= 2 * MaxNotional
    /\ d.realised > -MaxDailyLoss
    /\ d.drawdown < MaxDrawdown

Send(d, order, f) == [d EXCEPT !.orders = Append(@, Submitted(order, f.book))]
Live(d, i) == i # 0 /\ ~Terminal(d.orders[i])

\* The touch a passive order joins.
Touch(side, f) == OwnSide(side, f.seen)[1].price

\* Faulty variant: the feed is not asked.
EnterAnyway(d, f, side, passive, t) ==
    LET order == IF passive
                 THEN Order("entry", side, "limit", Touch(side, f), Qty, TRUE, t, PassiveTtl)
                 ELSE Order("entry", side, "market", NoPrice, Qty, FALSE, t, Never)
    IN  IF ~Live(d, d.entry) /\ Allows(d, f)
        THEN [Send(d, order, f) EXCEPT !.entry = Len(d.orders) + 1] ELSE d

\* _enter.
Enter(d, f, side, passive, t) ==
    LET order == IF passive
                 THEN Order("entry", side, "limit", Touch(side, f), Qty, TRUE, t, PassiveTtl)
                 ELSE Order("entry", side, "market", NoPrice, Qty, FALSE, t, Never)
    IN  IF f.quality = "ok" /\ ~Live(d, d.entry) /\ Allows(d, f)
        THEN [Send(d, order, f) EXCEPT !.entry = Len(d.orders) + 1] ELSE d

\* _exit.
Exit(d, f, t) ==
    LET side == IF d.position.side = "buy" THEN "sell" ELSE "buy"
    IN  IF Live(d, d.exit) THEN d
        ELSE [Send(d, Order("exit", side, "market", NoPrice, d.position.qty, FALSE, t, Never), f)
                 EXCEPT !.exit = Len(d.orders) + 1]

\* A dict keeps the place of a key that is set again.
SetQuote(quotes, tag, i) ==
    IF \E r \in Range(quotes) : r.tag = tag
    THEN [n \in DOMAIN quotes |-> IF quotes[n].tag = tag THEN [tag |-> tag, order |-> i] ELSE quotes[n]]
    ELSE Append(quotes, [tag |-> tag, order |-> i])

\* _quote: the limits do not hold back the quotes of a runner that holds.
Quote(d, f, side, t) ==
    LET away  == IF IsFlat(d) THEN 0 ELSE 1      \* the skew, at least a tick
        price == IF side = "buy" THEN Touch(side, f) - away ELSE Touch(side, f) + away
        open  == \E r \in Range(d.quotes) : r.tag = side /\ Live(d, r.order)
    IN  IF f.quality = "ok" /\ ~open /\ (Allows(d, f) \/ ~IsFlat(d))
        THEN [Send(d, Order("quote", side, "limit", price, Qty, TRUE, t, PassiveTtl), f)
                 EXCEPT !.quotes = SetQuote(@, side, Len(d.orders) + 1)]
        ELSE d
-----------------------------------------------------------------------------
(* The strategies (on_view), at exchange time x.                           *)

HeldFor(d, f, x) == IF Usable(f.book) THEN Higher(0, x - d.position.openedAt) ELSE 0
StopHit(d, f) ==
    LET p == d.position
        gain == Mid2(f.book) * p.qty - 2 * p.cost
    IN  Usable(f.book) /\ 1000 * (IF p.side = "buy" THEN gain ELSE -gain) <= -StopPermille * 2 * p.cost
Warm(f) == f.samples >= MinSamples /\ Usable(f.seen)

OrderFlowImpulse(d, f, v, t, x) ==
    IF ~IsFlat(d)
    THEN IF HeldFor(d, f, x) >= MaxHold \/ v.side # d.position.side THEN Exit(d, f, t) ELSE d
    ELSE IF Warm(f) /\ v.calm THEN Enter(d, f, v.side, v.passive, t) ELSE d

SpreadCapture(d, f, v, t, x) ==
    IF ~Warm(f) THEN d
    ELSE IF ~IsFlat(d) /\ (HeldFor(d, f, x) >= MaxHold \/ StopHit(d, f)) THEN Exit(d, f, t)
    ELSE IF v.calm THEN Quote(Quote(d, f, "buy", t), f, "sell", t) ELSE d

\* A sweep is recorded, followed while it extends, and faded once it is reclaimed.
\* The flow of a sweep that went down was selling.
Sweep(v, f, t) == [side |-> v.side, at |-> t, extreme |-> Mid2(f.seen)]
Extension(d, f) ==
    IF d.sweep.side = "sell" THEN d.sweep.extreme - Mid2(f.seen) ELSE Mid2(f.seen) - d.sweep.extreme

SweepReversion(d, f, v, t, x) ==
    IF ~IsFlat(d)
    THEN IF HeldFor(d, f, x) >= MaxHold \/ StopHit(d, f) THEN Exit(d, f, t) ELSE d
    ELSE IF ~Warm(f) THEN d
    ELSE IF v.burst THEN [d EXCEPT !.sweep = Sweep(v, f, t)]
    ELSE IF d.sweep = None THEN d
    ELSE IF t - d.sweep.at > MaxHold THEN [d EXCEPT !.sweep = None]
    ELSE IF Extension(d, f) > MaxExtension THEN [d EXCEPT !.sweep.extreme = Mid2(f.seen)]
    ELSE IF v.calm /\ Extension(d, f) < 0
         THEN Enter([d EXCEPT !.sweep = None], f, IF d.sweep.side = "sell" THEN "buy" ELSE "sell",
                    v.passive, t)
    ELSE d

Decided(d, f, v, t, x) ==
    CASE strategy = "order_flow_impulse" -> OrderFlowImpulse(d, f, v, t, x)
      [] strategy = "spread_capture"     -> SpreadCapture(d, f, v, t, x)
      [] strategy = "sweep_reversion"    -> SweepReversion(d, f, v, t, x)
-----------------------------------------------------------------------------
Init == strategy \in Strategies /\ clock = 0 /\ feed = NewFeed /\ desk = NewDesk

\* _after_market_event, once the orders have seen the event.
After(orders, f, v, t, x) ==
    /\ feed' = f
    /\ desk' = Decided(Settled([desk EXCEPT !.orders = orders]), f, v, t, x)
    /\ clock' = t /\ UNCHANGED strategy
    /\ t <= MaxTime /\ Len(desk'.orders) <= MaxOrders

\* on_book: books carry stamps that never go back.
OnBook == \E b \in Books, dt \in Steps, lag \in Lags, v \in Views :
    LET t == clock + dt
        book == [bids |-> b.bids, asks |-> b.asks, exch |-> t - lag, recv |-> t]
    IN  /\ feed.book.exch <= book.exch
        /\ After(AfterBook(desk.orders, feed.book, book), Observed(book, TRUE, t), v, t, book.exch)

\* on_trade: a trade may be reported after a book with a later stamp.
OnTrade == \E tr \in Trades, dt \in Steps, lag \in Lags, v \in Views :
    LET t == clock + dt
        trade == [price |-> tr.price, size |-> tr.size, side |-> tr.side, exch |-> t - lag]
    IN  /\ lag <= t
        /\ After(AfterTrade(desk.orders, feed.book, trade), Observed(feed.book, FALSE, t),
                 v, t, trade.exch)

\* mark_to_market: the position is sold into the book that is left, all of it.
WalkedLevel(o, level) ==
    LET qty == Smaller(Remaining(o), level.size)
    IN  IF qty = 0 THEN o ELSE Fill(o, level.price, qty, FALSE, o.decidedAt)

Marked(d) ==
    LET p == d.position
        side == IF p.side = "buy" THEN "sell" ELSE "buy"
        levels == Opposite(side, feed.book)
        mark == WalkedLevel(WalkedLevel(
                    Order("exit", side, "market", NoPrice, p.qty, FALSE, clock, Never),
                    Level(levels, 1)), Level(levels, 2))
    IN  IF IsFlat(d) \/ ~Usable(feed.book) \/ FilledQty(mark) = 0 THEN d ELSE ClosedBy(d, mark, 0)

\* finalise: the end of a run.
Finalise ==
    /\ clock < MaxTime /\ clock' = MaxTime
    /\ desk' = Marked(desk)
    /\ UNCHANGED <<strategy, feed>>

Next == OnBook \/ OnTrade \/ Finalise
Spec == Init /\ [][Next]_vars
-----------------------------------------------------------------------------
(* Properties.                                                             *)

\* What the simulator does to the orders is what OrderLifecycle allows, whatever
\* the market, the strategy and the delays: execution.py.
Stage(o) ==
    CASE o.state = "pending"   -> "sent"
      [] o.state = "rejected"  -> "refused"
      [] o.state = "filled"    -> "done"
      [] o.state \in {"open", "partial", "cancelled"} /\ o.kind = "market" /\ o.closedAt # Never -> "done"
      [] o.state = "cancelled" /\ o.kind # "market" -> "pulled"
      [] OTHER -> "resting"

LifeOf(o) ==
    [stage |-> Stage(o), qty |-> o.qty, taken |-> o.taken, made |-> o.made,
     asked |-> o.cancelAskedAt # Never, postOnly |-> o.postOnly, market |-> o.kind = "market"]

Lifecycle == INSTANCE OrderLifecycle
    WITH life <- [i \in DOMAIN desk.orders |-> LifeOf(desk.orders[i])]
Simulator == Lifecycle!LifeSpec

\* Nothing that could open a position is sent before the feed has been good for
\* as long as the runner waits, and an exit is never held back: _assess.
NewOrders == DOMAIN desk'.orders \ DOMAIN desk.orders
EntriesOnGoodData ==
    [][\A i \in NewOrders : desk'.orders[i].tag # "exit" /\ feed'.badAt # Never
                                => clock' - feed'.badAt >= Rewarm]_vars

\* No order is booked twice: what has opened a position opens no other, what has
\* closed one closes no other (_settle_orders forgets the order it has used).
BookedOnce ==
    /\ \A m, n \in DOMAIN desk.journal : m # n =>
           /\ desk.journal[m].entry # desk.journal[n].entry
           /\ desk.journal[m].exit # desk.journal[n].exit
    /\ ~IsFlat(desk) =>
           \A n \in DOMAIN desk.journal : desk.journal[n].entry # desk.position.order

=============================================================================
