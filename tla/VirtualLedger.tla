--------------------------- MODULE VirtualLedger ---------------------------
(***************************************************************************)
(* lead_engine/signal_machine.py, what the lead engine claims about one    *)
(* symbol, and virtual_trades.py, the paper trades on these claims, with   *)
(* the wiring of state.py.  The scores of a tick are reduced to the        *)
(* thresholds the machine compares them with.                              *)
(*                                                                         *)
(* Two threads meet in the ledger.  Whoever computes a snapshot advances   *)
(* the signal machine and then offers its signal to the ledger; the ingest *)
(* thread brings books, each stamped with the time it arrived, possibly    *)
(* after waiting in the queue.  The ledger's lock makes each call one      *)
(* step; a book can come between a signal and its offer.                   *)
(***************************************************************************)
EXTENDS Integers, FiniteSets

CONSTANTS
    Ticks,          \* the inputs a tick can bring, a subset of TickSet
    Cooldown,       \* INVALIDATION_COOLDOWN_SECONDS
    MaxTime,        \* bound on the clock
    Books,          \* top of book: bid and ask, in thousandths of a percent of the price
    SlipBps, StopPermille, TargetPermille,  \* of the price
    TakerFee,       \* in hundred-thousandths
    MaxHold, MaxFillGap, MaxBookAge, MaxOpen,   \* LedgerConfig
    MaxTrades       \* bound on the intents of a behaviour

Sides == {"long", "short"}
States == {"IDLE", "WATCH", "PRE_SIGNAL", "PRE_BREAK_LONG", "PRE_BREAK_SHORT",
           "HIGH_PROBABILITY", "A_PLUS", "REVERSAL_CANDIDATE", "INVALIDATED", "DATA_FAILURE"}

TickSet == [
    healthy    : BOOLEAN,      \* the health monitor's verdict
    blocked    : BOOLEAN,      \* _blocked names a reason
    leans      : Sides,        \* the side the scores point to
    break      : {"none", "weak", "building", "high", "top"},   \* its break score
    pressure   : {"low", "watch", "strong"},                     \* its pressure
    contested  : BOOLEAN,      \* the other side's pressure alone is worth watching
    exhausted  : Sides \cup {""},   \* a flush ended and pressure turned to this side
    disagree   : BOOLEAN]      \* layers partly disagree: A_PLUS is not claimed

ASSUME SignalAssumption ==
    Ticks \subseteq TickSet /\ Cooldown \in Nat /\ MaxTime \in Nat
ASSUME LedgerAssumption ==
    /\ Books \subseteq [bid : Nat \ {0}, ask : Nat \ {0}]
    /\ {SlipBps, StopPermille, TargetPermille, TakerFee} \subseteq Nat
    /\ {MaxHold, MaxFillGap, MaxBookAge, MaxOpen, MaxTrades} \subseteq Nat

VARIABLES
    clock,          \* this process's clock
    signal,         \* SignalMachine.current
    offering,       \* a snapshot has a signal the ledger has not been offered yet
    lastSignalAt,   \* _last_signal_at
    sequence,       \* _sequence
    pending, open, closed,   \* the three lists of trades
    arrival,        \* arrival time of the last book processed
    seen            \* arrival time of the last book the ledger used

ledgerVars == <<lastSignalAt, sequence, pending, open, closed>>
tradeVars == <<clock, signal, offering, ledgerVars, arrival, seen>>

-----------------------------------------------------------------------------
(* The signal machine.                                                     *)

Claim(state, direction) == [state |-> state, direction |-> direction]

SetupStates == {"PRE_BREAK_LONG", "PRE_BREAK_SHORT", "HIGH_PROBABILITY", "A_PLUS", "PRE_SIGNAL"}

\* A setup was building and is gone, or an invalidation is still cooling off.
Invalidates(i) ==
    \/ signal.state \in SetupStates /\ i.break = "none" /\ i.pressure = "low"
    \/ signal.state = "INVALIDATED" /\ clock - signal.changedAt < Cooldown

\* The claims that name a side, strongest first.
DirectionalClaim(i) ==
    IF i.exhausted # "" THEN Claim("REVERSAL_CANDIDATE", i.exhausted)
    ELSE IF i.break = "top" /\ i.pressure = "strong"
         THEN Claim(IF i.disagree THEN "HIGH_PROBABILITY" ELSE "A_PLUS", i.leans)
    ELSE IF i.break \in {"high", "top"} THEN Claim("HIGH_PROBABILITY", i.leans)
    ELSE IF i.break = "building"
         THEN Claim(IF i.leans = "long" THEN "PRE_BREAK_LONG" ELSE "PRE_BREAK_SHORT", i.leans)
    ELSE IF i.pressure = "strong" THEN Claim("PRE_SIGNAL", i.leans)
    ELSE IF i.pressure = "watch" \/ i.contested THEN Claim("WATCH", i.leans)
    ELSE Claim("IDLE", "")

\* _decide.
Decided(i) ==
    IF ~i.healthy THEN Claim("DATA_FAILURE", "")
    ELSE IF Invalidates(i) THEN Claim("INVALIDATED", signal.direction)
    ELSE IF i.blocked THEN Claim("WATCH", i.leans)
    ELSE DirectionalClaim(i)

\* update: the stamp moves only when the state does.
Update(i) ==
    signal' = [state     |-> Decided(i).state,
               direction |-> Decided(i).direction,
               changedAt |-> IF Decided(i).state = signal.state THEN signal.changedAt ELSE clock]

SignalInit == clock = 0 /\ signal = [state |-> "IDLE", direction |-> "", changedAt |-> 0]
-----------------------------------------------------------------------------
(* The ledger.                                                             *)

\* VirtualTrade.  Stop, target and deadline follow from the entry.
NoTime == -1
Trade(n, direction, at) ==
    [n |-> n, direction |-> direction, signalAt |-> at, status |-> "PENDING",
     entryAt |-> NoTime, entry |-> 0, lastSeen |-> NoTime,
     exitAt |-> NoTime, exit |-> 0, reason |-> "", uncertain |-> FALSE]

LedgerInit ==
    /\ SignalInit
    /\ offering = FALSE
    /\ lastSignalAt = 0 /\ sequence = 0
    /\ pending = {} /\ open = {} /\ closed = {}
    /\ arrival = 0 /\ seen = 0
-----------------------------------------------------------------------------
(* Snapshots (state.py, _compute_snapshot), one at a time.                 *)

Snapshot ==
    /\ ~offering
    /\ \E i \in Ticks : Update(i)
    /\ offering' = TRUE
    /\ UNCHANGED <<clock, ledgerVars, arrival, seen>>

\* The claims that open a position.
Actionable == {"PRE_BREAK_LONG", "PRE_BREAK_SHORT", "HIGH_PROBABILITY", "A_PLUS",
               "REVERSAL_CANDIDATE"}

\* Faulty variant: a transition is not remembered.
TransitionForgotten == signal.state \in Actionable /\ signal.direction \in Sides

\* A transition to an actionable claim that the ledger has not seen.
NewTransition ==
    /\ signal.state \in Actionable /\ signal.direction \in Sides
    /\ signal.changedAt > lastSignalAt

\* Faulty variant: intents that wait for a book take no room.
OpensIntentBesidePending == NewTransition /\ Cardinality(open) < MaxOpen

OpensIntent ==
    NewTransition /\ Cardinality(open) + Cardinality(pending) < MaxOpen

\* on_signal.  A new transition is used up even if there is no room for it.
OnSignal ==
    /\ offering
    /\ offering' = FALSE
    /\ lastSignalAt' = IF NewTransition THEN signal.changedAt ELSE lastSignalAt
    /\ IF OpensIntent
       THEN /\ sequence < MaxTrades
            /\ sequence' = sequence + 1
            /\ pending' = pending \cup {Trade(sequence + 1, signal.direction, signal.changedAt)}
       ELSE UNCHANGED <<sequence, pending>>
    /\ UNCHANGED <<clock, signal, open, closed, arrival, seen>>
-----------------------------------------------------------------------------
(* Books (on_book).                                                        *)

Slippage(price) == (price * SlipBps) \div 10000

\* _fill: the entry crosses the spread and pays slippage.
Filled(t, book, at) ==
    [t EXCEPT !.status = "OPEN", !.entryAt = at,
              !.entry = IF t.direction = "long" THEN book.ask + Slippage(book.ask)
                                                ELSE book.bid - Slippage(book.bid)]

Abandoned(t) == [t EXCEPT !.status = "ABANDONED"]

\* Price levels of an open trade: `side` is 1 for above the entry, -1 for below.
LevelOf(t, side, permille) == (t.entry * (1000 + side * permille)) \div 1000
Up(t) == IF t.direction = "long" THEN 1 ELSE -1
StopOf(t) == LevelOf(t, -Up(t), StopPermille)
TargetOf(t) == LevelOf(t, Up(t), TargetPermille)

\* The price an exit is taken at: the other side of the spread.
Touch(t, book) == IF t.direction = "long" THEN book.bid ELSE book.ask

ExitReason(t, book, at) ==
    IF Up(t) * (Touch(t, book) - StopOf(t)) <= 0 THEN "stop"
    ELSE IF Up(t) * (Touch(t, book) - TargetOf(t)) >= 0 THEN "target"
    ELSE IF at >= t.entryAt + MaxHold THEN "time"
    ELSE ""

\* _close: the exit pays slippage; a level crossed in a gap is flagged.
Closed(t, book, at) ==
    LET touch == Touch(t, book)
        last  == IF t.lastSeen = NoTime THEN t.entryAt ELSE t.lastSeen
    IN  [t EXCEPT !.status = "CLOSED", !.exitAt = at, !.reason = ExitReason(t, book, at),
                  !.exit = touch - Up(t) * Slippage(touch),
                  !.uncertain = at - last > MaxFillGap]

\* Faulty variant: the book that fills a trade settles it too.
SettlesAtOnce(t, book, at) == ExitReason(t, book, at) # ""

\* _settle_open: a book settles trades it did not fill, and marks the others.
Settles(t, book, at) == t.entryAt # at /\ ExitReason(t, book, at) # ""
Marked(t, at) == [t EXCEPT !.lastSeen = at]

\* _fill_pending: a book that arrived after the signal fills the intent, or
\* abandons it if it came too late.
Due(t, at) == at > t.signalAt
InTime(t, at) == at - t.signalAt <= MaxFillGap

\* _on_book for a book that is a price.
UseBook(book, at) ==
    LET due    == {t \in pending : Due(t, at)}
        late   == {t \in due : ~InTime(t, at)}
        filled == {Filled(t, book, at) : t \in due \ late}
        exits  == {t \in open \cup filled : Settles(t, book, at)}
    IN  /\ pending' = pending \ due
        /\ open' = {Marked(t, at) : t \in (open \cup filled) \ exits}
        /\ closed' = closed \cup {Abandoned(t) : t \in late}
                            \cup {Closed(t, book, at) : t \in exits}
        /\ seen' = at

\* A book processed at `clock` that arrived at `at`.  An old one is no price.
OnBook(book, at) ==
    /\ arrival' = at
    /\ IF clock - at > MaxBookAge THEN UNCHANGED <<pending, open, closed, seen>>
                                  ELSE UseBook(book, at)
    /\ UNCHANGED <<clock, signal, offering, lastSignalAt, sequence>>

Tick ==
    /\ clock < MaxTime
    /\ clock' = clock + 1
    /\ UNCHANGED <<signal, offering, ledgerVars, arrival, seen>>

LedgerNext ==
    \/ Snapshot \/ OnSignal \/ Tick
    \/ \E book \in Books, at \in arrival..clock : OnBook(book, at)

LedgerSpec == LedgerInit /\ [][LedgerNext]_tradeVars
-----------------------------------------------------------------------------
(* Properties.                                                             *)

Trades == pending \cup open \cup closed
Times == 0..MaxTime

\* Intents and open positions together never exceed the limit.
OneExposure == Cardinality(pending) + Cardinality(open) <= MaxOpen

\* A transition opens one trade, however long its state is held and however
\* often it is offered, and a trade is in one list.
OneTradePerTransition ==
    /\ \A t, u \in Trades : t.signalAt = u.signalAt => t.n = u.n
    /\ \A t, u \in Trades : t.n = u.n => t = u

\* No trade is filled by a book the signal could have known, nor across a gap,
\* and none is settled by the book that filled it (rules 1 and 3).
EntryAfterSignal ==
    \A t \in open \cup closed : t.entryAt # NoTime =>
        /\ t.signalAt < t.entryAt /\ t.entryAt - t.signalAt <= MaxFillGap
        /\ t.exitAt # NoTime => t.entryAt < t.exitAt

=============================================================================
