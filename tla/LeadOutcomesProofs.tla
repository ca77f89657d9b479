------------------------- MODULE LeadOutcomesProofs -------------------------
(***************************************************************************)
(* What holds of the paper ledger for every set of ticks and books, every  *)
(* limit and every cost.  LedgerInv is the inductive invariant: types, the *)
(* exposure limit, the numbering of trades by the transition that opened   *)
(* them, and the moments each list's trades have behind them.              *)
(***************************************************************************)
EXTENDS LeadOutcomes, SelectionProofs

TradeType ==
    [n : Nat, direction : Sides, signalAt : Nat, status : {"PENDING", "OPEN", "CLOSED", "ABANDONED"},
     entryAt : Int, entry : Int, lastSeen : Int, exitAt : Int, exit : Int,
     reason : {"", "stop", "target", "time"}, uncertain : BOOLEAN]

SignalType == [state : States, direction : Sides \cup {""}, changedAt : Nat]

LedgerTypes ==
    /\ clock \in Nat /\ signal \in SignalType /\ offering \in BOOLEAN
    /\ lastSignalAt \in Nat /\ sequence \in Nat /\ arrival \in Nat /\ seen \in Nat
    /\ pending \subseteq TradeType /\ open \subseteq TradeType /\ closed \subseteq TradeType
    /\ IsFiniteSet(pending) /\ IsFiniteSet(open)

\* A trade's number and the transition that opened it are in the past.
Numbered == \A t \in Trades : t.n <= sequence /\ t.signalAt <= lastSignalAt

\* A list says how far its trades have come, and when they got there.
EnteredInTime(t) == t.signalAt < t.entryAt /\ t.entryAt - t.signalAt <= MaxFillGap
Waits(t) == t.status = "PENDING" /\ t.entryAt = NoTime /\ t.exitAt = NoTime
Holds(t) == t.status = "OPEN" /\ EnteredInTime(t) /\ t.entryAt <= arrival /\ t.exitAt = NoTime
Ended(t) ==
    \/ t.status = "ABANDONED" /\ t.entryAt = NoTime
    \/ t.status = "CLOSED" /\ EnteredInTime(t) /\ t.entryAt < t.exitAt
Staged ==
    /\ \A t \in pending : Waits(t)
    /\ \A t \in open : Holds(t)
    /\ \A t \in closed : Ended(t)

LedgerInv == LedgerTypes /\ Numbered /\ Staged /\ OneExposure /\ OneTradePerTransition
-----------------------------------------------------------------------------
(* What a book makes of one trade.                                         *)

AfterFill(t, book, at) == IF Settles(t, book, at) THEN Closed(t, book, at) ELSE Marked(t, at)
After(t, book, at) ==
    IF t.status = "OPEN" THEN AfterFill(t, book, at)
    ELSE IF t.status # "PENDING" \/ ~Due(t, at) THEN t
    ELSE IF InTime(t, at) THEN AfterFill(Filled(t, book, at), book, at)
    ELSE Abandoned(t)

LEMMA SlippageInt ==
  ASSUME NEW price \in Int
  PROVE  Slippage(price) \in Int
  BY LedgerAssumption DEF Slippage

LEMMA FilledFields ==
  ASSUME NEW t \in TradeType, NEW book \in Books, NEW at \in Nat
  PROVE  /\ Filled(t, book, at) \in TradeType
         /\ Filled(t, book, at).n = t.n /\ Filled(t, book, at).signalAt = t.signalAt
         /\ Filled(t, book, at).status = "OPEN" /\ Filled(t, book, at).entryAt = at
         /\ Filled(t, book, at).exitAt = t.exitAt
<1> DEFINE entry == IF t.direction = "long" THEN book.ask + Slippage(book.ask)
                                            ELSE book.bid - Slippage(book.bid)
<1>1. book.ask \in Int /\ book.bid \in Int
  BY LedgerAssumption
<1>2. entry \in Int
  BY <1>1, SlippageInt
<1> HIDE DEF entry
<1>3. Filled(t, book, at) = [t EXCEPT !.status = "OPEN", !.entryAt = at, !.entry = entry]
  BY DEF Filled, entry
<1> at \in Int
  OBVIOUS
<1>4. Filled(t, book, at) \in TradeType
  BY <1>2, <1>3, Zenon DEF TradeType
<1>5. /\ Filled(t, book, at).n = t.n /\ Filled(t, book, at).signalAt = t.signalAt
      /\ Filled(t, book, at).status = "OPEN" /\ Filled(t, book, at).entryAt = at
      /\ Filled(t, book, at).exitAt = t.exitAt
  BY <1>3 DEF TradeType
<1> QED BY <1>4, <1>5

LEMMA AbandonedFields ==
  ASSUME NEW t \in TradeType
  PROVE  /\ Abandoned(t) \in TradeType
         /\ Abandoned(t).n = t.n /\ Abandoned(t).signalAt = t.signalAt
         /\ Abandoned(t).status = "ABANDONED" /\ Abandoned(t).entryAt = t.entryAt
  BY DEF Abandoned, TradeType

LEMMA MarkedFields ==
  ASSUME NEW t \in TradeType, NEW at \in Nat
  PROVE  /\ Marked(t, at) \in TradeType
         /\ Marked(t, at).n = t.n /\ Marked(t, at).signalAt = t.signalAt
         /\ Marked(t, at).status = t.status /\ Marked(t, at).entryAt = t.entryAt
         /\ Marked(t, at).exitAt = t.exitAt
<1> at \in Int
  OBVIOUS
<1>1. Marked(t, at) \in TradeType
  BY Zenon DEF Marked, TradeType
<1>2. /\ Marked(t, at).n = t.n /\ Marked(t, at).signalAt = t.signalAt
      /\ Marked(t, at).status = t.status /\ Marked(t, at).entryAt = t.entryAt
      /\ Marked(t, at).exitAt = t.exitAt
  BY DEF Marked, TradeType
<1> QED BY <1>1, <1>2

LEMMA ClosedFields ==
  ASSUME NEW t \in TradeType, NEW book \in Books, NEW at \in Nat
  PROVE  /\ Closed(t, book, at) \in TradeType
         /\ Closed(t, book, at).n = t.n /\ Closed(t, book, at).signalAt = t.signalAt
         /\ Closed(t, book, at).status = "CLOSED" /\ Closed(t, book, at).entryAt = t.entryAt
         /\ Closed(t, book, at).exitAt = at
<1> DEFINE touch  == Touch(t, book)
           price  == touch - Up(t) * Slippage(touch)
           reason == ExitReason(t, book, at)
           last   == IF t.lastSeen = NoTime THEN t.entryAt ELSE t.lastSeen
           gap    == at - last > MaxFillGap
<1>1. touch \in Int
  BY LedgerAssumption DEF Touch
<1>2. price \in Int
  BY <1>1, SlippageInt DEF Up
<1>3. reason \in {"", "stop", "target", "time"}
  BY DEF ExitReason
<1>4. gap \in BOOLEAN
  OBVIOUS
<1> HIDE DEF price, reason, gap
<1>5. Closed(t, book, at) = [t EXCEPT !.status = "CLOSED", !.exitAt = at, !.reason = reason,
                                      !.exit = price, !.uncertain = gap]
  BY DEF Closed, price, reason, gap
<1> at \in Int
  OBVIOUS
<1>6. Closed(t, book, at) \in TradeType
  BY <1>2, <1>3, <1>4, <1>5, Zenon DEF TradeType
<1>7. /\ Closed(t, book, at).n = t.n /\ Closed(t, book, at).signalAt = t.signalAt
      /\ Closed(t, book, at).status = "CLOSED" /\ Closed(t, book, at).entryAt = t.entryAt
      /\ Closed(t, book, at).exitAt = at
  BY <1>5 DEF TradeType
<1> QED BY <1>6, <1>7

\* A book leaves a trade its number and its signal.
LEMMA AfterFields ==
  ASSUME NEW t \in TradeType, NEW book \in Books, NEW at \in Nat
  PROVE  /\ After(t, book, at) \in TradeType
         /\ After(t, book, at).n = t.n /\ After(t, book, at).signalAt = t.signalAt
<1>1. ASSUME NEW u \in TradeType
      PROVE  /\ AfterFill(u, book, at) \in TradeType
             /\ AfterFill(u, book, at).n = u.n /\ AfterFill(u, book, at).signalAt = u.signalAt
  BY ClosedFields, MarkedFields DEF AfterFill
<1> QED BY <1>1, FilledFields, AbandonedFields DEF After
-----------------------------------------------------------------------------
(* One lemma for each action.                                              *)

LEMMA LedgerStarts == OutcomesInit => LedgerInv
<1> SUFFICES ASSUME OutcomesInit
             PROVE  LedgerInv
  OBVIOUS
<1>1. IsFiniteSet({}) /\ Cardinality({}) = 0
  BY FS_EmptySet
<1>2. LedgerTypes
  BY <1>1 DEF OutcomesInit, LedgerInit, SignalInit, LedgerTypes, SignalType, States
<1>3. OneExposure
  BY <1>1, LedgerAssumption DEF OutcomesInit, LedgerInit, OneExposure
<1> QED BY <1>2, <1>3 DEF OutcomesInit, LedgerInit, LedgerInv, Numbered, Staged, OneTradePerTransition, Trades

LEMMA LedgerRests == LedgerInv /\ UNCHANGED tradeVars => LedgerInv'
  BY DEF LedgerInv, LedgerTypes, Numbered, Staged, Waits, Holds, Ended, EnteredInTime, OneExposure,
         OneTradePerTransition, Trades, tradeVars, ledgerVars

\* What the ledger holds is not touched by the signal machine or the clock.
LEMMA TradesKept ==
  ASSUME LedgerInv, UNCHANGED <<ledgerVars, arrival>>
  PROVE  Numbered' /\ Staged' /\ OneExposure' /\ OneTradePerTransition'
  BY DEF LedgerInv, Numbered, Staged, Waits, Holds, Ended, EnteredInTime, OneExposure,
         OneTradePerTransition, Trades, ledgerVars

LEMMA DecidedTyped ==
  ASSUME signal \in SignalType, NEW i \in Ticks
  PROVE  Decided(i).state \in States /\ Decided(i).direction \in Sides \cup {""}
<1>1. i \in TickSet
  BY SignalAssumption
<1>2. i.leans \in Sides /\ i.exhausted \in Sides \cup {""}
  BY <1>1 DEF TickSet
<1>3. DirectionalClaim(i).state \in States /\ DirectionalClaim(i).direction \in Sides \cup {""}
  BY <1>2 DEF DirectionalClaim, Claim, States
<1> QED BY <1>2, <1>3 DEF Decided, Claim, SignalType, States

LEMMA SnapshotKeeps == LedgerInv /\ Snapshot => LedgerInv'
<1> SUFFICES ASSUME LedgerInv, Snapshot
             PROVE  LedgerInv'
  OBVIOUS
<1>1. PICK i \in Ticks : Update(i)
  BY DEF Snapshot
<1>2. signal' \in SignalType
  BY <1>1, DecidedTyped DEF Update, LedgerInv, LedgerTypes, SignalType
<1>3. LedgerTypes'
  BY <1>2 DEF Snapshot, LedgerInv, LedgerTypes, ledgerVars
<1> QED BY <1>3, TradesKept DEF Snapshot, LedgerInv

LEMMA TickKeeps == LedgerInv /\ Tick => LedgerInv'
<1> SUFFICES ASSUME LedgerInv, Tick
             PROVE  LedgerInv'
  OBVIOUS
<1>1. LedgerTypes'
  BY DEF Tick, LedgerInv, LedgerTypes, ledgerVars
<1> QED BY <1>1, TradesKept DEF Tick, LedgerInv

\* A new transition lies after every transition the ledger has traded.
LEMMA OnSignalKeeps == LedgerInv /\ OnSignal => LedgerInv'
<1> SUFFICES ASSUME LedgerInv, OnSignal
             PROVE  LedgerInv'
  OBVIOUS
<1> LedgerTypes /\ Numbered /\ Staged /\ OneExposure /\ OneTradePerTransition
  BY DEF LedgerInv
<1>a. sequence \in Nat /\ lastSignalAt \in Nat
  BY DEF LedgerTypes
<1>b. signal.changedAt \in Nat
  BY DEF LedgerTypes, SignalType
<1>c. \A t \in Trades : t.n \in Nat /\ t.signalAt \in Nat
  BY DEF Trades, LedgerTypes, TradeType
<1>1. CASE ~OpensIntent
  <2>1. /\ UNCHANGED <<clock, signal, sequence, pending, open, closed, arrival, seen>>
        /\ offering' = FALSE
        /\ lastSignalAt' = IF NewTransition THEN signal.changedAt ELSE lastSignalAt
    BY <1>1 DEF OnSignal
  <2>2. lastSignalAt' \in Nat /\ lastSignalAt <= lastSignalAt'
    BY <1>a, <1>b, <2>1 DEF NewTransition
  <2>3. LedgerTypes'
    BY <2>1, <2>2 DEF LedgerTypes
  <2>4. Numbered'
    BY <1>a, <1>c, <2>1, <2>2 DEF Numbered, Trades
  <2>5. Staged'
    BY <2>1 DEF Staged, Waits, Holds, Ended, EnteredInTime
  <2>6. OneExposure' /\ OneTradePerTransition'
    BY <2>1 DEF OneExposure, OneTradePerTransition, Trades
  <2> QED BY <2>3, <2>4, <2>5, <2>6 DEF LedgerInv
<1>2. CASE OpensIntent
  <2> DEFINE new == Trade(sequence + 1, signal.direction, signal.changedAt)
  <2>1. /\ UNCHANGED <<clock, signal, open, closed, arrival, seen>>
        /\ offering' = FALSE /\ lastSignalAt' = signal.changedAt
        /\ sequence' = sequence + 1 /\ pending' = pending \cup {new}
    BY <1>2 DEF OnSignal, OpensIntent
  <2>2. signal.direction \in Sides /\ signal.changedAt > lastSignalAt
    BY <1>2 DEF OpensIntent, NewTransition
  <2>3. /\ new.n = sequence + 1 /\ new.signalAt = signal.changedAt /\ new.status = "PENDING"
        /\ new.entryAt = NoTime /\ new.exitAt = NoTime
    BY DEF Trade
  <2> sequence + 1 \in Nat /\ NoTime \in Int /\ 0 \in Int
    BY <1>a DEF NoTime
  <2>4. new \in TradeType
    BY <1>b, <2>2, Zenon DEF Trade, TradeType
  <2> HIDE DEF new
  <2>5. /\ IsFiniteSet(pending')
        /\ Cardinality(pending') = Cardinality(pending) \/ Cardinality(pending') = Cardinality(pending) + 1
    BY <2>1, FS_AddElement DEF LedgerTypes
  <2>6. LedgerTypes'
    BY <1>b, <2>1, <2>4, <2>5 DEF LedgerTypes
  <2>7. \A t \in Trades : t.n < new.n /\ t.signalAt < new.signalAt
    BY <1>a, <1>b, <1>c, <2>2, <2>3 DEF Numbered
  <2>8. Trades' = Trades \cup {new}
    BY <2>1 DEF Trades
  <2>9. Numbered'
    BY <2>1, <2>2, <2>3, <2>8, <1>a, <1>b, <1>c DEF Numbered
  <2>10. Staged'
    BY <2>1, <2>3 DEF Staged, Waits, Holds, Ended, EnteredInTime
  <2>11. OneTradePerTransition'
    BY <2>3, <2>7, <2>8, <1>a, <1>b, <1>c DEF OneTradePerTransition
  <2>12. Cardinality(pending) \in Nat /\ Cardinality(open) \in Nat /\ Cardinality(pending') \in Nat
    BY <2>5, FS_CardinalityType DEF LedgerTypes
  <2>13. Cardinality(open) + Cardinality(pending) < MaxOpen
    BY <1>2 DEF OpensIntent
  <2>14. OneExposure'
    BY <2>1, <2>5, <2>12, <2>13, LedgerAssumption DEF OneExposure
  <2> QED BY <2>6, <2>9, <2>10, <2>11, <2>14 DEF LedgerInv
<1> QED BY <1>1, <1>2
\* A book that is a price moves each trade of a list where After says, and to
\* the list of its stage.
LEMMA BookMoves ==
  ASSUME LedgerInv, NEW book \in Books, NEW at \in Nat, arrival <= at, arrival' = at, UseBook(book, at)
  PROVE  /\ \A u \in pending' : u \in pending /\ u = After(u, book, at)
         /\ \A u \in open' : Holds(u)' /\ \E t \in pending \cup open : u = After(t, book, at)
         /\ \A u \in closed' : Ended(u) /\ (u \in closed \/ \E t \in pending \cup open : u = After(t, book, at))
<1> DEFINE due    == {t \in pending : Due(t, at)}
           late   == {t \in due : ~InTime(t, at)}
           filled == {Filled(t, book, at) : t \in due \ late}
           exits  == {t \in open \cup filled : Settles(t, book, at)}
<1>1. /\ pending' = pending \ due
      /\ open' = {Marked(t, at) : t \in (open \cup filled) \ exits}
      /\ closed' = closed \cup {Abandoned(t) : t \in late} \cup {Closed(t, book, at) : t \in exits}
  BY DEF UseBook
<1>2. /\ \A t \in pending : t \in TradeType /\ Waits(t)
      /\ \A t \in open : t \in TradeType /\ Holds(t)
      /\ \A t \in closed : t \in TradeType /\ Ended(t)
  BY DEF LedgerInv, LedgerTypes, Staged
<1>3. \A t \in TradeType : t.signalAt \in Nat /\ t.entryAt \in Int
  BY DEF TradeType
<1>4. arrival \in Nat /\ NoTime < at
  BY DEF LedgerInv, LedgerTypes, NoTime
<1>5. ASSUME NEW u \in pending'
      PROVE  u \in pending /\ u = After(u, book, at)
  BY <1>1, <1>2, <1>5 DEF After, Waits
<1>6. ASSUME NEW t \in due \ late
      PROVE  /\ Filled(t, book, at) \in TradeType
             /\ Filled(t, book, at).entryAt = at /\ Filled(t, book, at).exitAt = NoTime
             /\ Filled(t, book, at).status = "OPEN" /\ EnteredInTime(Filled(t, book, at))
             /\ After(t, book, at) = AfterFill(Filled(t, book, at), book, at)
  <2>1. t \in TradeType /\ Waits(t) /\ Due(t, at) /\ InTime(t, at)
    BY <1>2
  <2>2. /\ Filled(t, book, at) \in TradeType /\ Filled(t, book, at).signalAt = t.signalAt
        /\ Filled(t, book, at).entryAt = at /\ Filled(t, book, at).exitAt = NoTime
        /\ Filled(t, book, at).status = "OPEN"
    BY <2>1, FilledFields DEF Waits
  <2>3. EnteredInTime(Filled(t, book, at))
    BY <1>3, <2>1, <2>2 DEF EnteredInTime, Due, InTime
  <2>4. After(t, book, at) = AfterFill(Filled(t, book, at), book, at)
    BY <2>1 DEF After, Waits
  <2> QED BY <2>2, <2>3, <2>4
<1>7. ASSUME NEW u \in open'
      PROVE  Holds(u)' /\ \E t \in pending \cup open : u = After(t, book, at)
  <2>1. PICK t \in (open \cup filled) \ exits : u = Marked(t, at)
    BY <1>1, <1>7
  <2>2. ~Settles(t, book, at) /\ u = AfterFill(t, book, at)
    BY <2>1 DEF AfterFill
  <2>3. ASSUME t \in TradeType, EnteredInTime(t), t.entryAt <= at, t.exitAt = NoTime, t.status = "OPEN"
        PROVE  Holds(u)'
    BY <2>1, <2>3, MarkedFields DEF Holds, EnteredInTime
  <2>4. CASE t \in open
    <3>1. t \in TradeType /\ Holds(t)
      BY <1>2, <2>4
    <3>2. t.entryAt <= at
      BY <1>3, <1>4, <3>1 DEF Holds
    <3> QED BY <2>2, <2>3, <2>4, <3>1, <3>2 DEF Holds, After
  <2>5. CASE t \in filled
    <3>1. PICK s \in due \ late : t = Filled(s, book, at)
      BY <2>5
    <3>2. Holds(u)'
      BY <1>6, <2>3, <3>1
    <3> QED BY <1>6, <2>2, <3>1, <3>2
  <2> QED BY <2>4, <2>5
<1>8. ASSUME NEW u \in closed'
      PROVE  Ended(u) /\ (u \in closed \/ \E t \in pending \cup open : u = After(t, book, at))
  <2>1. CASE u \in closed
    BY <1>2, <2>1
  <2>2. CASE u \in {Abandoned(t) : t \in late}
    <3>1. PICK t \in late : u = Abandoned(t)
      BY <2>2
    <3>2. t \in TradeType /\ Waits(t) /\ Due(t, at) /\ ~InTime(t, at)
      BY <1>2
    <3>3. Ended(u)
      BY <3>1, <3>2, AbandonedFields DEF Ended, Waits
    <3> QED BY <3>1, <3>2, <3>3 DEF After, Waits
  <2>3. CASE u \in {Closed(t, book, at) : t \in exits}
    <3>1. PICK t \in exits : u = Closed(t, book, at)
      BY <2>3
    <3>2. t.entryAt # at /\ Settles(t, book, at)
      BY DEF Settles
    <3>3. t \in open
      BY <1>6, <3>2
    <3>4. t \in TradeType /\ Holds(t)
      BY <1>2, <3>3
    <3>5. t.entryAt < at
      BY <1>3, <1>4, <3>2, <3>4 DEF Holds
    <3>6. Ended(u)
      BY <3>1, <3>4, <3>5, ClosedFields DEF Ended, Holds, EnteredInTime
    <3>7. u = After(t, book, at)
      BY <3>1, <3>2, <3>4 DEF After, AfterFill, Holds
    <3> QED BY <3>3, <3>6, <3>7
  <2> QED BY <1>1, <2>1, <2>2, <2>3
<1> QED BY <1>5, <1>7, <1>8

LEMMA UseBookKeeps ==
  ASSUME LedgerInv, NEW book \in Books, NEW at \in Nat, arrival <= at, arrival' = at, UseBook(book, at),
         UNCHANGED <<clock, signal, offering, lastSignalAt, sequence>>
  PROVE  LedgerInv'
<1> DEFINE live == pending \cup open
           A(t) == After(t, book, at)
<1>0. LedgerTypes /\ Numbered /\ Staged /\ OneExposure /\ OneTradePerTransition
  BY DEF LedgerInv
<1>1. \A t \in Trades : t \in TradeType /\ A(t) \in TradeType /\ A(t).n = t.n /\ A(t).signalAt = t.signalAt
  BY <1>0, AfterFields DEF LedgerTypes, Trades
<1>2. \A t \in closed : A(t) = t
  BY <1>0 DEF Staged, Ended, After
<1> HIDE DEF A
<1>3. /\ \A u \in pending' : u \in pending /\ u = A(u)
      /\ \A u \in open' : Holds(u)' /\ \E t \in live : u = A(t)
      /\ \A u \in closed' : Ended(u) /\ (u \in closed \/ \E t \in live : u = A(t))
  BY BookMoves DEF A
<1>4. \A u \in Trades' : \E t \in Trades : u = A(t)
  BY <1>2, <1>3 DEF Trades
<1>5. OneTradePerTransition'
  BY <1>0, <1>1, <1>4 DEF OneTradePerTransition
<1>6. Numbered'
  BY <1>0, <1>1, <1>4 DEF Numbered
<1>7. Staged'
  BY <1>0, <1>3 DEF Staged, Waits, Ended, EnteredInTime
<1>8. IsFiniteSet(live) /\ Cardinality(live) <= MaxOpen
  <2>1. pending \cap open = {}
    BY <1>0 DEF Staged, Waits, Holds
  <2>2. IsFiniteSet(pending) /\ IsFiniteSet(open)
    BY <1>0 DEF LedgerTypes
  <2>3. /\ IsFiniteSet(live)
        /\ Cardinality(live) = Cardinality(pending) + Cardinality(open) - Cardinality(pending \cap open)
    BY <2>2, FS_Union
  <2>4. Cardinality(pending \cap open) = 0 /\ Cardinality(pending) \in Nat /\ Cardinality(open) \in Nat
    BY <2>1, <2>2, FS_EmptySet, FS_CardinalityType
  <2> QED BY <1>0, <2>3, <2>4 DEF OneExposure
<1>9. IsFiniteSet(live') /\ Cardinality(live') <= Cardinality(live)
  <2> DEFINE from == {t \in live : A(t) \in live'}
             move == [t \in from |-> A(t)]
  <2>1. IsFiniteSet(from) /\ Cardinality(from) <= Cardinality(live)
    BY <1>8, FS_Subset
  <2>2. \A u \in live' : \E t \in from : u = A(t)
    BY <1>3
  <2>3. move \in Surjection(from, live')
    BY <2>2 DEF Surjection
  <2>4. IsFiniteSet(live') /\ Cardinality(live') <= Cardinality(from)
    BY <2>1, <2>3, FS_Surjection
  <2> QED BY <1>8, <2>1, <2>4, FS_CardinalityType
<1>10. OneExposure' /\ IsFiniteSet(pending') /\ IsFiniteSet(open')
  <2>1. pending' \cap open' = {}
    BY <1>7 DEF Staged, Waits, Holds
  <2>2. IsFiniteSet(pending') /\ IsFiniteSet(open')
    BY <1>9, FS_Subset
  <2>3. Cardinality(live') = Cardinality(pending') + Cardinality(open') - Cardinality(pending' \cap open')
    BY <2>2, FS_Union
  <2>4. Cardinality(pending' \cap open') = 0 /\ Cardinality(pending') \in Nat /\ Cardinality(open') \in Nat
    BY <2>1, <2>2, FS_EmptySet, FS_CardinalityType
  <2>5. Cardinality(live') <= MaxOpen
    <3>1. Cardinality(live') \in Nat /\ Cardinality(live) \in Nat /\ MaxOpen \in Nat
      BY <1>8, <1>9, FS_CardinalityType, LedgerAssumption
    <3> QED BY <1>8, <1>9, <3>1
  <2> QED BY <2>2, <2>3, <2>4, <2>5 DEF OneExposure
<1>11. Trades' \subseteq TradeType
  BY <1>1, <1>4
<1>12. seen' \in Nat
  BY DEF UseBook
<1>13. LedgerTypes'
  BY <1>0, <1>10, <1>11, <1>12 DEF LedgerTypes, Trades
<1> QED BY <1>5, <1>6, <1>7, <1>10, <1>13 DEF LedgerInv

LEMMA OnBookKeeps == LedgerInv /\ (\E book \in Books, at \in arrival..clock : OnBook(book, at)) => LedgerInv'
<1> SUFFICES ASSUME LedgerInv, NEW book \in Books, NEW at \in arrival..clock, OnBook(book, at)
             PROVE  LedgerInv'
  OBVIOUS
<1>1. LedgerTypes /\ Numbered /\ Staged /\ OneExposure /\ OneTradePerTransition
  BY DEF LedgerInv
<1>2. at \in Nat /\ arrival <= at /\ arrival \in Nat
  BY <1>1 DEF LedgerTypes
<1>3. arrival' = at /\ UNCHANGED <<clock, signal, offering, lastSignalAt, sequence>>
  BY DEF OnBook
<1>4. CASE clock - at > MaxBookAge
  <2>1. UNCHANGED <<pending, open, closed, seen>>
    BY <1>4 DEF OnBook
  <2>2. LedgerTypes'
    BY <1>1, <1>2, <1>3, <2>1 DEF LedgerTypes
  <2>3. \A t \in open : t.entryAt \in Int
    BY <1>1 DEF LedgerTypes, TradeType
  <2>4. Staged'
    BY <1>1, <1>2, <1>3, <2>1, <2>3 DEF Staged, Waits, Holds, Ended, EnteredInTime
  <2>5. Numbered' /\ OneExposure' /\ OneTradePerTransition'
    BY <1>1, <1>3, <2>1 DEF Numbered, OneExposure, OneTradePerTransition, Trades
  <2> QED BY <2>2, <2>4, <2>5 DEF LedgerInv
<1>5. CASE ~(clock - at > MaxBookAge)
  BY <1>2, <1>3, <1>5, UseBookKeeps DEF OnBook
<1> QED BY <1>4, <1>5
-----------------------------------------------------------------------------
(* The theorems.                                                           *)

\* The ledger's lists stay typed, numbered and staged (VirtualLedger under the
\* snapshots of SymbolState and the books of the ingest thread).
THEOREM LedgerKeeps == OutcomesSpec => []LedgerInv
<1>1. LedgerInv /\ [OutcomesNext]_<<part, tradeVars, caseVars>> => LedgerInv'
  BY LedgerRests, SnapshotKeeps, OnSignalKeeps, TickKeeps, OnBookKeeps DEF OutcomesNext, LedgerNext
<1> QED BY LedgerStarts, <1>1, PTL DEF OutcomesSpec

\* Intents and positions together stay within the limit, whatever the books
\* and the threads' order (VirtualLedger._on_signal, _on_book).
THEOREM ExposureLimited == OutcomesSpec => []OneExposure
<1>1. LedgerInv => OneExposure
  BY DEF LedgerInv
<1> QED BY LedgerKeeps, <1>1, PTL

\* However often a transition is offered it opens one trade, and a trade is in
\* one list (VirtualLedger._last_signal_at).
THEOREM TransitionsTradedOnce == OutcomesSpec => []OneTradePerTransition
<1>1. LedgerInv => OneTradePerTransition
  BY DEF LedgerInv
<1> QED BY LedgerKeeps, <1>1, PTL

\* A trade is filled by a book from after its signal and before the gap, and
\* settled by a later one (VirtualLedger._fill_pending, _settle_open).
THEOREM EntriesFollowSignals == OutcomesSpec => []EntryAfterSignal
<1>1. LedgerInv => EntryAfterSignal
  BY DEF LedgerInv, Staged, Holds, Ended, EnteredInTime, EntryAfterSignal
<1> QED BY LedgerKeeps, <1>1, PTL
-----------------------------------------------------------------------------
(* The calibration of the break scores.                                    *)

CaseType ==
    [direction : {"long", "short"}, bucket : Buckets, opened : Nat, after : Nat,
     outcome : [Horizons -> {"open", "broke", "held"}], by : [Horizons -> Nat]]
HeardType == [at : Nat, price : Prices]
CaseTypes ==
    /\ now \in Nat /\ heard \in Seq(HeardType)
    /\ cases \in Seq(CaseType) /\ resolved \in Seq(CaseType)
    /\ ingest \in {Calibrator!Idle} \cup [step : {"kept"}, kept : Seq(CaseType)]
    /\ drain \in {Calibrator!Idle}
                     \cup [step : {"marked"}, out : SUBSET CaseType, over : Seq(CaseType)]
    /\ buffer \subseteq CaseType /\ rows \subseteq CaseType /\ inherited \subseteq rows
    /\ restored \in BOOLEAN /\ asked \in Seq({"long", "short"} \X Nat)

\* What the ingest thread will make of the open cases, what the recorder has under
\* way, and where settled cases are.
Kept == IF ingest = Calibrator!Idle THEN cases ELSE ingest.kept
Out == IF drain = Calibrator!Idle THEN {} ELSE drain.out
Filed == rows \cup buffer \cup Out
Stored == Range(resolved) \cup Filed

\* An outcome is what the trades heard in time say, up to the one that settled it;
\* an open one has heard none that broke the level.
Heard(o, h, hs, n) == {i \in o.after + 1..n : hs[i].at > o.opened /\ hs[i].at <= o.opened + h}
Truthful(o, hs) ==
    \A h \in Horizons :
        /\ o.outcome[h] # "open" => o.by[h] <= Len(hs)
        /\ o.outcome[h] = "broke" => \E i \in Heard(o, h, hs, o.by[h]) : Calibrator!Breaks(o, hs[i])
        /\ o.outcome[h] = "held" => \A i \in Heard(o, h, hs, o.by[h]) : ~Calibrator!Breaks(o, hs[i])
Unanswered(o, hs) ==
    /\ o.after <= Len(hs)
    /\ \A h \in Horizons : o.outcome[h] = "open" =>
           \A i \in Heard(o, h, hs, Len(hs)) : ~Calibrator!Breaks(o, hs[i])
Answerable ==
    /\ \A o \in Range(cases) \cup Range(Kept) : Truthful(o, heard) /\ Unanswered(o, heard)
    /\ \A o \in Stored : Truthful(o, heard)

\* A key is asked for once; a case is open or stored, and stored as it settled.
Key(o) == <<o.direction, o.opened>>
KeysOnce ==
    /\ \A i, j \in DOMAIN Kept : i # j => Key(Kept[i]) # Key(Kept[j])
    /\ \A o \in Range(Kept), p \in Stored : Key(o) # Key(p)
    /\ \A o, p \in Stored : Key(o) = Key(p) => o = p
    /\ \A o \in Range(Kept) \cup Stored : Key(o) \in Range(asked) /\ o.opened \in 1..now

\* What this process wrote or read back is marked; before it has read, it has
\* written nothing, and nothing it settled is in the table.  What it found there
\* is never on its way to be written.
WrittenOnce ==
    /\ restored => \A o \in Range(resolved) : Key(o) \in persisted \/ o \notin Filed
    /\ ~restored => /\ buffer = {} /\ Out = {} /\ inherited = rows
                    /\ \A o \in Range(resolved), p \in rows : Key(o) # Key(p)
    /\ inherited \cap buffer = {} /\ inherited \cap Out = {}

CaseInv == CaseTypes /\ Answerable /\ KeysOnce /\ WrittenOnce
-----------------------------------------------------------------------------
(* What a trade makes of a case.                                           *)

LEMMA HeardMore ==
  ASSUME NEW hs \in Seq(HeardType), NEW trade \in HeardType, NEW o \in CaseType,
         Truthful(o, hs)
  PROVE  Truthful(o, Append(hs, trade))
<1> DEFINE more == Append(hs, trade)
<1>1. /\ Len(hs) \in Nat /\ Len(more) = Len(hs) + 1
      /\ \A i \in 1..Len(hs) : more[i] = hs[i]
  BY AppendProperties, LenProperties
<1> HIDE DEF more
<1> SUFFICES ASSUME NEW h \in Horizons, o.outcome[h] # "open"
             PROVE  /\ o.by[h] <= Len(more)
                    /\ o.outcome[h] = "broke" =>
                          \E i \in Heard(o, h, more, o.by[h]) : Calibrator!Breaks(o, more[i])
                    /\ o.outcome[h] = "held" =>
                          \A i \in Heard(o, h, more, o.by[h]) : ~Calibrator!Breaks(o, more[i])
  BY DEF Truthful, more
<1>2. o.by[h] \in Nat /\ o.after \in Nat /\ o.by[h] <= Len(hs)
  BY DEF CaseType, Truthful
<1>3. \A i \in o.after + 1..o.by[h] : i \in 1..Len(hs) /\ more[i] = hs[i]
  BY <1>1, <1>2
<1>4. Heard(o, h, more, o.by[h]) = Heard(o, h, hs, o.by[h])
  BY <1>3 DEF Heard
<1>5. \A i \in Heard(o, h, hs, o.by[h]) : more[i] = hs[i]
  BY <1>3 DEF Heard
<1> QED BY <1>1, <1>2, <1>4, <1>5 DEF Truthful

LEMMA AnsweredFields ==
  ASSUME NEW o \in CaseType, NEW trade \in HeardType, NEW n \in Nat
  PROVE  LET a == Calibrator!Answered(o, trade, n)
         IN  /\ a \in CaseType /\ a.direction = o.direction /\ a.opened = o.opened
             /\ a.after = o.after
             /\ ~Calibrator!Answers(o, trade) => a = o
             /\ Calibrator!Answers(o, trade) => \A h \in Horizons :
                    /\ a.outcome[h] = Calibrator!OutcomeOf(o, h, trade)
                    /\ a.by[h] = IF o.outcome[h] = "open" /\ Calibrator!OutcomeOf(o, h, trade) # "open"
                                 THEN n ELSE o.by[h]
<1> DEFINE to == [h \in Horizons |-> Calibrator!OutcomeOf(o, h, trade)]
           by == [h \in Horizons |->
                     IF o.outcome[h] = "open" /\ Calibrator!OutcomeOf(o, h, trade) # "open"
                     THEN n ELSE o.by[h]]
           a == Calibrator!Answered(o, trade, n)
<1>1. CASE ~Calibrator!Answers(o, trade)
  BY <1>1 DEF Calibrator!Answered
<1>2. CASE Calibrator!Answers(o, trade)
  <2>1. a = [[o EXCEPT !.outcome = to] EXCEPT !.by = by]
    BY <1>2 DEF Calibrator!Answered
  <2>2. to \in [Horizons -> {"open", "broke", "held"}] /\ by \in [Horizons -> Nat]
    BY DEF Calibrator!OutcomeOf, CaseType
  <2>3. /\ \A h \in Horizons : to[h] = Calibrator!OutcomeOf(o, h, trade)
        /\ \A h \in Horizons :
               by[h] = IF o.outcome[h] = "open" /\ Calibrator!OutcomeOf(o, h, trade) # "open"
                       THEN n ELSE o.by[h]
    OBVIOUS
  <2> HIDE DEF a, to, by
  <2>4. /\ a \in CaseType /\ a.direction = o.direction /\ a.opened = o.opened
        /\ a.after = o.after /\ a.outcome = to /\ a.by = by
    BY <2>1, <2>2 DEF CaseType
  <2> QED BY <1>2, <2>3, <2>4 DEF a
<1> QED BY <1>1, <1>2

\* The trade is one more that the case has heard, or one from before it.
LEMMA AnsweredTruthfully ==
  ASSUME NEW hs \in Seq(HeardType), NEW trade \in HeardType, NEW o \in CaseType,
         Truthful(o, hs), Unanswered(o, hs)
  PROVE  LET a == Calibrator!Answered(o, trade, Len(hs) + 1)
         IN  Truthful(a, Append(hs, trade)) /\ Unanswered(a, Append(hs, trade))
<1> DEFINE more == Append(hs, trade)
           n == Len(hs) + 1
           a == Calibrator!Answered(o, trade, n)
<1>1. /\ Len(hs) \in Nat /\ Len(more) = n /\ n \in Nat /\ more[n] = trade
      /\ \A i \in 1..Len(hs) : more[i] = hs[i]
  BY AppendProperties, LenProperties
<1>2. /\ a \in CaseType /\ a.direction = o.direction /\ a.opened = o.opened
      /\ a.after = o.after
      /\ ~Calibrator!Answers(o, trade) => a = o
      /\ Calibrator!Answers(o, trade) => \A h \in Horizons :
             /\ a.outcome[h] = Calibrator!OutcomeOf(o, h, trade)
             /\ a.by[h] = IF o.outcome[h] = "open" /\ Calibrator!OutcomeOf(o, h, trade) # "open"
                          THEN n ELSE o.by[h]
  BY <1>1, AnsweredFields, Zenon
<1>3. Truthful(o, more)
  BY HeardMore
<1> HIDE DEF more, a
<1>4. /\ o.after \in Nat /\ o.after < n /\ o.opened \in Nat /\ trade.at \in Nat
      /\ \A h \in Horizons : h \in Nat /\ o.by[h] \in Nat
                             /\ o.outcome[h] \in {"open", "broke", "held"}
  BY <1>1, CalibrationAssumption DEF CaseType, HeardType, Unanswered
<1>5. \A i : Calibrator!Breaks(a, more[i]) <=> Calibrator!Breaks(o, more[i])
  BY <1>2 DEF Calibrator!Breaks
<1>6. \A m : \A h \in Horizons : Heard(a, h, more, m) = Heard(o, h, more, m)
  BY <1>2 DEF Heard
\* An outcome that is open until this trade.
<1>7. ASSUME NEW h \in Horizons, o.outcome[h] = "open", NEW i \in Heard(o, h, more, n), i # n
      PROVE  ~Calibrator!Breaks(o, more[i])
  <2>1. i \in 1..Len(hs) /\ i \in o.after + 1..Len(hs) /\ more[i] = hs[i]
        /\ more[i].at > o.opened /\ more[i].at <= o.opened + h
    BY <1>1, <1>4, <1>7 DEF Heard
  <2>2. i \in Heard(o, h, hs, Len(hs))
    BY <2>1 DEF Heard
  <2> QED BY <1>7, <2>1, <2>2 DEF Unanswered
<1>8. ASSUME NEW h \in Horizons
      PROVE  n \in Heard(o, h, more, n) <=> (trade.at > o.opened /\ trade.at - o.opened <= h)
  <2>1. n \in o.after + 1..n
    BY <1>1, <1>4
  <2>2. trade.at - o.opened <= h <=> trade.at <= o.opened + h
    BY <1>4
  <2> QED BY <1>1, <2>1, <2>2 DEF Heard
<1>9. ASSUME NEW h \in Horizons
      PROVE  /\ a.outcome[h] # "open" => a.by[h] <= Len(more)
             /\ a.outcome[h] = "broke" =>
                   \E i \in Heard(o, h, more, a.by[h]) : Calibrator!Breaks(o, more[i])
             /\ a.outcome[h] = "held" =>
                   \A i \in Heard(o, h, more, a.by[h]) : ~Calibrator!Breaks(o, more[i])
             /\ a.outcome[h] = "open" =>
                   \A i \in Heard(o, h, more, n) : ~Calibrator!Breaks(o, more[i])
  <2>1. CASE o.outcome[h] # "open"
    <3>1. a.outcome[h] = o.outcome[h] /\ a.by[h] = o.by[h]
      BY <1>2, <2>1 DEF Calibrator!OutcomeOf
    <3> QED BY <1>3, <2>1, <3>1 DEF Truthful
  <2>2. CASE o.outcome[h] = "open" /\ ~Calibrator!Answers(o, trade)
    <3>1. a.outcome[h] = "open" /\ n \notin Heard(o, h, more, n)
      BY <1>2, <1>4, <1>8, <2>2 DEF Calibrator!Answers
    <3> QED BY <1>7, <2>2, <3>1
  <2>3. CASE o.outcome[h] = "open" /\ Calibrator!Answers(o, trade)
    <3>1. a.outcome[h] = Calibrator!OutcomeOf(o, h, trade)
          /\ (a.outcome[h] # "open" => a.by[h] = n)
      BY <1>2, <2>3
    <3>2. n \in Heard(o, h, more, n) <=> trade.at - o.opened <= h
      BY <1>4, <1>8, <2>3 DEF Calibrator!Answers
    <3>3. CASE Calibrator!Breaks(o, trade) /\ trade.at - o.opened <= h
      <4>1. a.outcome[h] = "broke"
        BY <2>3, <3>1, <3>3 DEF Calibrator!OutcomeOf
      <4> QED BY <1>1, <3>1, <3>2, <3>3, <4>1
    <3>4. CASE ~(Calibrator!Breaks(o, trade) /\ trade.at - o.opened <= h)
      <4>1. a.outcome[h] \in {"held", "open"}
        BY <2>3, <3>1, <3>4 DEF Calibrator!OutcomeOf
      <4>2. \A i \in Heard(o, h, more, n) : ~Calibrator!Breaks(o, more[i])
        BY <1>1, <1>7, <2>3, <3>2, <3>4
      <4> QED BY <1>1, <3>1, <4>1, <4>2
    <3> QED BY <3>3, <3>4
  <2> QED BY <2>1, <2>2, <2>3
<1>10. Truthful(a, more)
  BY <1>5, <1>6, <1>9 DEF Truthful
<1>11. Unanswered(a, more)
  <2>1. a.after <= Len(more)
    BY <1>1, <1>2, <1>4
  <2> QED BY <1>1, <1>5, <1>6, <1>9, <2>1 DEF Unanswered
<1> QED BY <1>10, <1>11 DEF a, more
-----------------------------------------------------------------------------
(* The operators of the calibration's own module are those of this one,    *)
(* and what its lists are made of.                                         *)

LEMMA SameOperators ==
  /\ \A s : Calibrator!Range(s) = Range(s)
  /\ \A P, k : Calibrator!Nth(P, k) = Nth(P, k)
  /\ \A T : Calibrator!Cardinality(T) = Cardinality(T)
  /\ \A s, P : Calibrator!Picked(s, P) = Picked(s, P)
  /\ \A o : Calibrator!KeyOf(o) = Key(o)
<1>1. \A s : Calibrator!Range(s) = Range(s)
  BY DEF Calibrator!Range, Range
<1>2. \A T : Calibrator!Cardinality(T) = Cardinality(T)
  BY DEF Calibrator!Cardinality, Cardinality
<1>3. \A P, k : Calibrator!Nth(P, k) = Nth(P, k)
  <2> TAKE P, k
  <2>1. \A i : Calibrator!Cardinality({j \in P : j <= i}) = k <=> Cardinality({j \in P : j <= i}) = k
    BY <1>2
  <2> QED BY <2>1, Zenon DEF Calibrator!Nth, Nth
<1>4. \A s, P : Calibrator!Picked(s, P) = Picked(s, P)
  <2> TAKE s, P
  <2>1. Calibrator!Cardinality(P) = Cardinality(P) /\ \A k : Calibrator!Nth(P, k) = Nth(P, k)
    BY <1>2, <1>3
  <2> QED BY <2>1 DEF Calibrator!Picked, Picked
<1> QED BY <1>1, <1>2, <1>3, <1>4 DEF Calibrator!KeyOf, Key

LEMMA NewestOf ==
  ASSUME NEW S, NEW s \in Seq(S), NEW n \in Nat \ {0}
  PROVE  Calibrator!NewestOf(s, n) \in Seq(S) /\ Range(Calibrator!NewestOf(s, n)) \subseteq Range(s)
<1>1. Len(s) \in Nat /\ DOMAIN s = 1..Len(s) /\ \A i \in DOMAIN s : s[i] \in Range(s)
  BY RangeIs
<1>2. CASE Len(s) > n
  <2> DEFINE from == Len(s) - n + 1
             t == SubSeq(s, from, Len(s))
  <2>1. from \in 1..Len(s) + 1 /\ from \in Int /\ Len(s) \in (from - 1)..Len(s)
    BY <1>1, <1>2
  <2>2. /\ t \in Seq(S) /\ Len(t) = Len(s) - from + 1
        /\ \A i \in 1..Len(s) - from + 1 : t[i] = s[from + i - 1]
    BY <1>1, <2>1, SubSeqProperties
  <2> HIDE DEF t
  <2>3. \A i \in DOMAIN t : t[i] \in Range(s)
    <3>1. DOMAIN t = 1..Len(s) - from + 1
      BY <2>2, RangeIs
    <3>2. \A i \in 1..Len(s) - from + 1 : from + i - 1 \in DOMAIN s
      BY <1>1, <2>1
    <3> QED BY <1>1, <2>2, <3>1, <3>2
  <2>4. Range(t) \subseteq Range(s)
    BY <2>3 DEF Range
  <2> QED BY <1>2, <2>2, <2>4 DEF t, Calibrator!NewestOf
<1> QED BY <1>2 DEF Calibrator!NewestOf

\* What is read back are rows of the table, whatever their order.
LEMMA LoadedRows ==
  ASSUME CaseTypes, \A o \in rows : o.opened \in 1..now
  PROVE  Calibrator!Loaded \in Seq(CaseType) /\ Range(Calibrator!Loaded) \subseteq rows
<1> DEFINE P == Calibrator!Places
           N == Cardinality(P)
           m == IF N < LoadLimit THEN N ELSE LoadLimit
           t == Calibrator!Loaded
<1>1. P = {Calibrator!Place(o) : o \in rows}
  BY DEF Calibrator!Places
<1>2. now \in Nat /\ rows \subseteq CaseType
  BY DEF CaseTypes
<1>3. \A o \in rows : Calibrator!Place(o) \in 1..2 * now + 1
  BY <1>2 DEF Calibrator!Place
<1>4. P \in SUBSET (1..2 * now + 1) /\ 2 * now + 1 \in Nat
  BY <1>1, <1>2, <1>3
<1>5. N \in Nat /\ \A k \in 1..N : Nth(P, k) \in P
  BY <1>4, NthPosition
<1>6. m \in Nat /\ m <= N
  BY <1>5, CalibrationAssumption
<1>7. t = [k \in 1..m |-> CHOOSE o \in rows : Calibrator!Place(o) = Calibrator!Nth(P, k)]
  <2>1. Calibrator!Cardinality(P) = N
    BY SameOperators
  <2> HIDE DEF P, N
  <2> QED BY <2>1 DEF Calibrator!Loaded, P
<1> HIDE DEF P, N, m, t
<1>8. ASSUME NEW k \in 1..m
      PROVE  (CHOOSE o \in rows : Calibrator!Place(o) = Calibrator!Nth(P, k)) \in rows
  <2>1. Calibrator!Nth(P, k) \in P
    BY <1>5, <1>6, SameOperators
  <2>2. \E o \in rows : Calibrator!Place(o) = Calibrator!Nth(P, k)
    BY <1>1, <2>1
  <2> QED BY <2>2
<1>9. t \in [1..m -> rows]
  BY <1>7, <1>8
<1>10. t \in Seq(CaseType) /\ DOMAIN t = 1..m
  BY <1>2, <1>6, <1>9
<1>11. Range(t) \subseteq rows
  BY <1>9, <1>10 DEF Range
<1> QED BY <1>10, <1>11 DEF t

LEMMA CaseLists ==
  ASSUME CaseTypes
  PROVE  /\ Kept \in Seq(CaseType) /\ Range(cases) \subseteq CaseType
         /\ Range(Kept) \subseteq CaseType /\ Range(resolved) \subseteq CaseType
         /\ Filed \subseteq CaseType /\ Stored \subseteq CaseType /\ Out \subseteq CaseType
<1>1. Kept \in Seq(CaseType) /\ cases \in Seq(CaseType) /\ resolved \in Seq(CaseType)
  BY DEF CaseTypes, Kept, Calibrator!Idle
<1>2. Out \subseteq CaseType /\ rows \subseteq CaseType /\ buffer \subseteq CaseType
  BY DEF CaseTypes, Out, Calibrator!Idle
<1>3. /\ Range(cases) \subseteq CaseType /\ Range(Kept) \subseteq CaseType
      /\ Range(resolved) \subseteq CaseType
  BY <1>1, RangeIs
<1> QED BY <1>1, <1>2, <1>3 DEF Filed, Stored
-----------------------------------------------------------------------------
(* The actions of the calibration keep CaseInv.                            *)

LEMMA ResolveKeeps == CaseInv /\ Calibrator!Resolve => CaseInv'
<1> SUFFICES ASSUME CaseInv, Calibrator!Resolve
             PROVE  CaseInv'
  OBVIOUS
<1>1. /\ CaseTypes /\ Answerable /\ KeysOnce /\ WrittenOnce
      /\ now \in Nat /\ heard \in Seq(HeardType) /\ cases \in Seq(CaseType)
      /\ resolved \in Seq(CaseType) /\ Len(heard) \in Nat
  BY LenProperties DEF CaseInv, CaseTypes
<1>2. PICK late \in 0..MaxLate, price \in Prices :
        LET trade == [at |-> now - late, price |-> price]
            done == [k \in DOMAIN cases |-> Calibrator!Answered(cases[k], trade, Len(heard) + 1)]
        IN  /\ late <= now
            /\ heard' = Append(heard, trade)
            /\ cases' = done
            /\ resolved' = Calibrator!NewestOf(resolved \o
                  Picked(done, {k \in DOMAIN done : Calibrator!Settled(done[k])}), MaxResolved)
            /\ ingest' = [step |-> "kept",
                          kept |-> Picked(done, {k \in DOMAIN done : ~Calibrator!Settled(done[k])})]
  BY SameOperators DEF Calibrator!Resolve
<1>3. ingest = Calibrator!Idle
      /\ UNCHANGED <<now, persisted, restored, drain, buffer, rows, inherited, asked, restarts>>
  BY DEF Calibrator!Resolve, Calibrator!recorder
<1> DEFINE trade == [at |-> now - late, price |-> price]
           done == [k \in DOMAIN cases |-> Calibrator!Answered(cases[k], trade, Len(heard) + 1)]
           P == {k \in DOMAIN done : Calibrator!Settled(done[k])}
           Q == {k \in DOMAIN done : ~Calibrator!Settled(done[k])}
           new == Picked(done, P)
           kept == Picked(done, Q)
<1>4. trade \in HeardType
  BY <1>1, <1>2, CalibrationAssumption DEF HeardType
<1>5. /\ heard' = Append(heard, trade) /\ cases' = done
      /\ resolved' = Calibrator!NewestOf(resolved \o new, MaxResolved)
      /\ ingest' = [step |-> "kept", kept |-> kept]
  BY <1>2
<1> HIDE DEF trade
<1>6. /\ DOMAIN done = DOMAIN cases
      /\ \A k \in DOMAIN cases : done[k] = Calibrator!Answered(cases[k], trade, Len(heard) + 1)
  OBVIOUS
<1>7. DOMAIN cases = 1..Len(cases) /\ Len(cases) \in Nat
      /\ \A k \in DOMAIN cases : cases[k] \in Range(cases) /\ cases[k] \in CaseType
  BY <1>1, RangeIs
<1> HIDE DEF done
<1>8. ASSUME NEW k \in DOMAIN cases
      PROVE  /\ done[k] \in CaseType /\ Key(done[k]) = Key(cases[k])
             /\ done[k].opened = cases[k].opened
             /\ Truthful(done[k], heard') /\ Unanswered(done[k], heard')
  <2> DEFINE a == Calibrator!Answered(cases[k], trade, Len(heard) + 1)
  <2>1. cases[k] \in CaseType /\ Len(heard) + 1 \in Nat
        /\ Truthful(cases[k], heard) /\ Unanswered(cases[k], heard)
    BY <1>1, <1>7 DEF Answerable
  <2>2. a \in CaseType /\ a.direction = cases[k].direction /\ a.opened = cases[k].opened
    BY <1>4, <2>1, AnsweredFields, Zenon
  <2>3. Truthful(a, Append(heard, trade)) /\ Unanswered(a, Append(heard, trade))
    BY <1>1, <1>4, <2>1, AnsweredTruthfully, Zenon
  <2>4. done[k] = a
    BY <1>6
  <2> HIDE DEF a
  <2> QED BY <1>5, <2>2, <2>3, <2>4 DEF Key
<1>9. done \in Seq(CaseType)
  <2>1. done = [k \in 1..Len(cases) |-> done[k]]
    BY <1>7 DEF done
  <2>2. \A k \in 1..Len(cases) : done[k] \in CaseType
    BY <1>7, <1>8
  <2>3. done \in [1..Len(cases) -> CaseType]
    BY <2>1, <2>2
  <2> QED BY <1>7, <2>3
<1>10. /\ new \in Seq(CaseType) /\ kept \in Seq(CaseType)
       /\ \A x \in Range(new) : \E j \in DOMAIN cases : x = done[j] /\ Calibrator!Settled(done[j])
       /\ \A x \in Range(kept) : \E i \in DOMAIN cases : x = done[i] /\ ~Calibrator!Settled(done[i])
       /\ \A k, l \in DOMAIN kept : k # l =>
              \E i, j \in DOMAIN cases : i # j /\ kept[k] = done[i] /\ kept[l] = done[j]
  <2>1. P \subseteq DOMAIN done /\ Q \subseteq DOMAIN done
        /\ (\A i \in P : i \in DOMAIN cases /\ Calibrator!Settled(done[i]))
        /\ (\A i \in Q : i \in DOMAIN cases /\ ~Calibrator!Settled(done[i]))
    BY <1>6
  <2> HIDE DEF P, Q
  <2>2. new \in Seq(CaseType) /\ \A x \in Range(new) : \E i \in P : x = done[i]
    BY <1>9, <2>1, PickedFrom
  <2>3. /\ kept \in Seq(CaseType) /\ \A x \in Range(kept) : \E i \in Q : x = done[i]
        /\ \A k, l \in DOMAIN kept : k # l =>
               \E i, j \in Q : i # j /\ kept[k] = done[i] /\ kept[l] = done[j]
    BY <1>9, <2>1, PickedFrom
  <2> HIDE DEF new, kept
  <2> QED BY <2>1, <2>2, <2>3
<1> HIDE DEF new, kept, P, Q
<1>11. /\ resolved' \in Seq(CaseType) /\ Range(resolved') \subseteq Range(resolved) \cup Range(new)
  <2>1. resolved \o new \in Seq(CaseType)
        /\ Range(resolved \o new) = Range(resolved) \cup Range(new)
    BY <1>1, <1>10, ConcatProperties, RangeConcatenation
  <2>2. MaxResolved \in Nat \ {0}
    BY CalibrationAssumption
  <2> QED BY <1>5, <2>1, <2>2, NewestOf
<1>12. Kept = cases /\ Kept' = kept /\ Out' = Out /\ Filed' = Filed /\ rows' = rows
       /\ Stored' \subseteq Stored \cup Range(new) /\ Filed \subseteq Stored
  BY <1>3, <1>5, <1>11 DEF Kept, Out, Filed, Stored, Calibrator!Idle
<1>13. CaseTypes'
  <2>1. heard' \in Seq(HeardType)
    BY <1>1, <1>4, <1>5, AppendProperties
  <2> QED BY <1>1, <1>3, <1>5, <1>9, <1>10, <1>11, <2>1 DEF CaseTypes, Calibrator!Idle
<1>14. Answerable'
  <2>1. \A o \in Stored : Truthful(o, heard')
    <3>1. \A o \in Stored : o \in CaseType /\ Truthful(o, heard)
      BY <1>1, CaseLists DEF Answerable
    <3> QED BY <1>1, <1>4, <1>5, <3>1, HeardMore
  <2>2. \A o \in Range(cases') : \E k \in DOMAIN cases : o = done[k]
    BY <1>5, <1>6 DEF Range
  <2> QED BY <1>8, <1>10, <1>12, <2>1, <2>2 DEF Answerable
<1>15. \A i \in DOMAIN cases, p \in Stored : Key(done[i]) # Key(p)
  BY <1>1, <1>7, <1>8, <1>12 DEF KeysOnce
<1>16. \A i, j \in DOMAIN cases : i # j => Key(done[i]) # Key(done[j])
  BY <1>1, <1>8, <1>12 DEF KeysOnce
<1>17. KeysOnce'
  <2>1. \A k, l \in DOMAIN kept : k # l => Key(kept[k]) # Key(kept[l])
    BY <1>10, <1>16
  <2>2. ASSUME NEW o \in Range(kept), NEW p \in Stored'
        PROVE  Key(o) # Key(p)
    <3>1. PICK i \in DOMAIN cases : o = done[i] /\ ~Calibrator!Settled(done[i])
      BY <1>10
    <3>2. CASE p \in Stored
      BY <1>15, <3>1, <3>2
    <3>3. CASE p \in Range(new)
      <4>1. PICK j \in DOMAIN cases : p = done[j] /\ Calibrator!Settled(done[j])
        BY <1>10, <3>3
      <4> QED BY <1>16, <3>1, <4>1
    <3> QED BY <1>12, <3>2, <3>3
  <2>3. \A k \in DOMAIN cases : Key(done[k]) \in Range(asked) /\ done[k].opened \in 1..now
    BY <1>1, <1>7, <1>8, <1>12 DEF KeysOnce
  <2>4. \A o \in Range(kept) \cup Stored' : Key(o) \in Range(asked) /\ o.opened \in 1..now
    <3>1. \A o \in Range(kept) \cup Range(new) : \E i \in DOMAIN cases : o = done[i]
      BY <1>10
    <3>2. \A o \in Stored : Key(o) \in Range(asked) /\ o.opened \in 1..now
      BY <1>1 DEF KeysOnce
    <3> QED BY <1>12, <2>3, <3>1, <3>2
  <2>5. \A o, p \in Stored' : Key(o) = Key(p) => o = p
    <3>1. \A o, p \in Stored : Key(o) = Key(p) => o = p
      BY <1>1 DEF KeysOnce
    <3>2. \A o \in Range(new), p \in Stored : Key(o) # Key(p)
      BY <1>10, <1>15
    <3>3. \A o, p \in Range(new) : Key(o) = Key(p) => o = p
      BY <1>10, <1>16
    <3> QED BY <1>12, <3>1, <3>2, <3>3
  <2> QED BY <1>3, <1>12, <2>1, <2>2, <2>4, <2>5 DEF KeysOnce
<1>18. WrittenOnce'
  <2>1. \A o \in Range(new), p \in Stored : Key(o) # Key(p)
    BY <1>10, <1>15
  <2>2. rows \subseteq Filed
    BY DEF Filed
  <2> QED BY <1>1, <1>3, <1>11, <1>12, <2>1, <2>2 DEF WrittenOnce
<1> QED BY <1>13, <1>14, <1>17, <1>18 DEF CaseInv

LEMMA ReplaceKeeps == CaseInv /\ Calibrator!Replace => CaseInv'
<1> SUFFICES ASSUME CaseInv, Calibrator!Replace
             PROVE  CaseInv'
  OBVIOUS
<1>1. /\ CaseTypes /\ Answerable /\ KeysOnce /\ WrittenOnce
      /\ ingest # Calibrator!Idle /\ cases' = ingest.kept /\ ingest' = Calibrator!Idle
      /\ UNCHANGED <<now, heard, resolved, persisted, restored, drain, buffer, rows, inherited, asked>>
  BY DEF CaseInv, Calibrator!Replace, Calibrator!recorder
<1>2. /\ cases' = Kept /\ Kept' = Kept /\ Stored' = Stored /\ Filed' = Filed /\ Out' = Out
      /\ Kept \in Seq(CaseType)
  BY <1>1, CaseLists DEF Kept, Stored, Filed, Out
<1>3. CaseTypes'
  BY <1>1, <1>2 DEF CaseTypes
<1>4. Answerable' /\ KeysOnce' /\ WrittenOnce'
  BY <1>1, <1>2 DEF Answerable, KeysOnce, WrittenOnce
<1> QED BY <1>3, <1>4 DEF CaseInv

LEMMA ObserveKeeps == CaseInv /\ Calibrator!Observe => CaseInv'
<1> SUFFICES ASSUME CaseInv, Calibrator!Observe
             PROVE  CaseInv'
  OBVIOUS
<1>1. /\ CaseTypes /\ Answerable /\ KeysOnce /\ WrittenOnce
      /\ now \in Nat /\ heard \in Seq(HeardType) /\ cases \in Seq(CaseType) /\ Len(heard) \in Nat
  BY LenProperties DEF CaseInv, CaseTypes
<1>2. PICK direction \in {"long", "short"}, bucket \in Buckets, late \in 0..MaxLate :
        /\ late < now /\ <<direction, now - late>> \notin Range(asked)
        /\ cases' = Append(cases, Calibrator!Observation(direction, bucket, now - late))
        /\ asked' = Append(asked, <<direction, now - late>>)
  BY SameOperators DEF Calibrator!Observe, Calibrator!Directions
<1>3. UNCHANGED <<now, heard, resolved, persisted, ingest, restored, drain, buffer, rows, inherited>>
  BY DEF Calibrator!Observe, Calibrator!recorder
<1> DEFINE new == Calibrator!Observation(direction, bucket, now - late)
<1>4. now - late \in 1..now
  BY <1>1, <1>2, CalibrationAssumption
<1>5. /\ new \in CaseType /\ Key(new) = <<direction, now - late>> /\ new.opened \in 1..now
      /\ new.after = Len(heard) /\ \A h \in Horizons : new.outcome[h] = "open"
  BY <1>1, <1>2, <1>4 DEF Calibrator!Observation, CaseType, Key
<1> HIDE DEF new
<1>6. Truthful(new, heard) /\ Unanswered(new, heard)
  <2>1. \A h : Heard(new, h, heard, Len(heard)) = {}
    BY <1>1, <1>5 DEF Heard
  <2> QED BY <1>1, <1>5, <2>1 DEF Truthful, Unanswered
<1>7. cases' = Append(cases, new) /\ cases' \in Seq(CaseType)
  BY <1>1, <1>2, <1>5, AppendProperties DEF new
<1>8. asked' \in Seq({"long", "short"} \X Nat)
      /\ Range(asked') = Range(asked) \cup {Key(new)}
  <2>1. asked \in Seq({"long", "short"} \X Nat)
        /\ <<direction, now - late>> \in {"long", "short"} \X Nat
    BY <1>1, <1>4 DEF CaseTypes
  <2>2. \A k \in {"long", "short"} \X Nat :
            /\ Append(asked, k) \in Seq({"long", "short"} \X Nat)
            /\ Range(Append(asked, k)) = Range(asked) \cup {k}
    BY <2>1, Appended
  <2> QED BY <1>2, <1>5, <2>1, <2>2
<1>9. CaseTypes'
  BY <1>1, <1>3, <1>7, <1>8 DEF CaseTypes
<1>10. /\ Range(cases') = Range(cases) \cup {new}
       /\ DOMAIN cases = 1..Len(cases) /\ Len(cases) \in Nat
       /\ DOMAIN cases' = 1..Len(cases) + 1 /\ cases'[Len(cases) + 1] = new
       /\ \A i \in DOMAIN cases : cases'[i] = cases[i]
  BY <1>1, <1>5, <1>7, Appended
<1>11. Stored' = Stored /\ Filed' = Filed /\ Out' = Out
  BY <1>3 DEF Stored, Filed, Out
<1>12. Kept' = IF ingest = Calibrator!Idle THEN cases' ELSE Kept
  BY <1>3 DEF Kept
<1>13. Range(Kept') \subseteq Range(Kept) \cup {new}
  BY <1>10, <1>12 DEF Kept
<1>14. Answerable'
  BY <1>1, <1>3, <1>6, <1>10, <1>11, <1>13 DEF Answerable
<1>15. \A o \in Range(Kept) \cup Stored : Key(o) # Key(new)
  BY <1>1, <1>2, <1>5 DEF KeysOnce
<1>16. KeysOnce'
  <2>1. \A i, j \in DOMAIN Kept' : i # j => Key(Kept'[i]) # Key(Kept'[j])
    <3>1. CASE ingest = Calibrator!Idle
      <4>1. Kept = cases /\ Kept' = cases'
        BY <1>12, <3>1 DEF Kept
      <4>2. \A i \in DOMAIN cases : cases[i] \in Range(Kept)
        BY <4>1 DEF Range
      <4>3. \A i \in DOMAIN cases' : i \in DOMAIN cases \/ i = Len(cases) + 1
        BY <1>10
      <4> QED BY <1>1, <1>10, <1>15, <4>1, <4>2, <4>3 DEF KeysOnce
    <3>2. CASE ingest # Calibrator!Idle
      BY <1>1, <1>12, <3>2 DEF KeysOnce
    <3> QED BY <3>1, <3>2
  <2>2. \A o \in Range(Kept'), p \in Stored' : Key(o) # Key(p)
    BY <1>1, <1>11, <1>13, <1>15 DEF KeysOnce
  <2>3. \A o \in Range(Kept') \cup Stored' : Key(o) \in Range(asked') /\ o.opened \in 1..now'
    BY <1>1, <1>3, <1>5, <1>8, <1>11, <1>13 DEF KeysOnce
  <2>4. \A o, p \in Stored' : Key(o) = Key(p) => o = p
    BY <1>1, <1>11 DEF KeysOnce
  <2> QED BY <2>1, <2>2, <2>3, <2>4 DEF KeysOnce
<1>17. WrittenOnce'
  BY <1>1, <1>3, <1>11 DEF WrittenOnce
<1> QED BY <1>9, <1>14, <1>16, <1>17 DEF CaseInv

LEMMA RestoreKeeps == CaseInv /\ Calibrator!Restore => CaseInv'
<1> SUFFICES ASSUME CaseInv, Calibrator!Restore
             PROVE  CaseInv'
  OBVIOUS
<1> DEFINE loaded == Calibrator!Loaded
           P == {k \in DOMAIN loaded : \A p \in Range(resolved) : Key(p) # Key(loaded[k])}
           new == Picked(loaded, P)
<1>1. /\ CaseTypes /\ Answerable /\ KeysOnce /\ WrittenOnce /\ resolved \in Seq(CaseType)
      /\ ~restored /\ restored' = TRUE
      /\ UNCHANGED <<now, heard, cases, ingest, drain, buffer, rows, inherited, asked>>
  BY DEF CaseInv, CaseTypes, Calibrator!Restore
<1>2. /\ resolved' = Calibrator!NewestOf(resolved \o new, MaxResolved)
      /\ persisted' = persisted \cup {Key(o) : o \in Range(new)}
  <2>1. P = {k \in DOMAIN loaded :
                \A p \in Calibrator!Range(resolved) : Calibrator!KeyOf(p) # Calibrator!KeyOf(loaded[k])}
    BY SameOperators
  <2> HIDE DEF P, loaded
  <2>2. Calibrator!Picked(loaded, P) = new
    BY SameOperators
  <2>3. Calibrator!MarkedRestored(new) = persisted \cup {Key(o) : o \in Range(new)}
    BY SameOperators DEF Calibrator!MarkedRestored
  <2> QED BY <2>1, <2>2, <2>3, Zenon DEF Calibrator!Restore, loaded
<1>3. loaded \in Seq(CaseType) /\ Range(loaded) \subseteq rows
  <2>1. rows \subseteq Stored
    BY DEF Stored, Filed
  <2> QED BY <1>1, <2>1, LoadedRows DEF KeysOnce
<1> HIDE DEF loaded
<1>4. /\ new \in Seq(CaseType) /\ Range(new) \subseteq rows
  <2>1. P \subseteq DOMAIN loaded
    OBVIOUS
  <2> HIDE DEF P
  <2>2. new \in Seq(CaseType) /\ \A x \in Range(new) : \E i \in P : x = loaded[i]
    BY <1>3, <2>1, PickedFrom
  <2>3. \A i \in P : loaded[i] \in Range(loaded)
    BY <2>1 DEF Range
  <2> QED BY <1>3, <2>2, <2>3
<1> HIDE DEF new, P
<1>5. /\ resolved' \in Seq(CaseType) /\ Range(resolved') \subseteq Range(resolved) \cup Range(new)
  <2>1. resolved \o new \in Seq(CaseType)
        /\ Range(resolved \o new) = Range(resolved) \cup Range(new)
    BY <1>1, <1>4, ConcatProperties, RangeConcatenation
  <2>2. MaxResolved \in Nat \ {0}
    BY CalibrationAssumption
  <2> QED BY <1>2, <2>1, <2>2, NewestOf
<1>6. /\ Kept' = Kept /\ Out' = Out /\ Filed' = Filed /\ Stored' \subseteq Stored
  BY <1>1, <1>4, <1>5 DEF Kept, Out, Filed, Stored
<1>7. CaseTypes'
  BY <1>1, <1>5 DEF CaseTypes
<1>8. Answerable' /\ KeysOnce'
  BY <1>1, <1>6 DEF Answerable, KeysOnce
<1>9. WrittenOnce'
  <2>1. \A o \in Range(resolved) : o \notin Filed
    BY <1>1 DEF WrittenOnce, Filed
  <2>2. \A o \in Range(new) : Key(o) \in persisted'
    BY <1>2
  <2> QED BY <1>1, <1>5, <1>6, <2>1, <2>2 DEF WrittenOnce
<1> QED BY <1>7, <1>8, <1>9 DEF CaseInv

LEMMA MarkKeeps == CaseInv /\ Calibrator!Mark => CaseInv'
<1> SUFFICES ASSUME CaseInv, Calibrator!Mark
             PROVE  CaseInv'
  OBVIOUS
<1> DEFINE out == {o \in Range(resolved) : Key(o) \notin persisted}
<1>1. /\ CaseTypes /\ Answerable /\ KeysOnce /\ WrittenOnce /\ resolved \in Seq(CaseType)
      /\ restored /\ drain = Calibrator!Idle
      /\ UNCHANGED <<now, heard, cases, resolved, ingest, restored, buffer, rows, inherited, asked>>
  BY DEF CaseInv, CaseTypes, Calibrator!Mark
<1>2. /\ persisted' = persisted \cup {Key(o) : o \in out}
      /\ drain' = [step |-> "marked", out |-> out, over |-> resolved]
  <2>1. /\ out = {o \in Calibrator!Range(resolved) : Calibrator!KeyOf(o) \notin persisted}
        /\ {Key(o) : o \in out} = {Calibrator!KeyOf(o) : o \in out}
    BY SameOperators
  <2> HIDE DEF out
  <2> QED BY <2>1, Zenon DEF Calibrator!Mark
<1>3. out \subseteq Range(resolved) /\ \A o \in out : Key(o) \notin persisted
  OBVIOUS
<1>4. \A o \in Range(resolved) : o \in out \/ Key(o) \in persisted
  OBVIOUS
<1> HIDE DEF out
<1>5. out \subseteq CaseType
  BY <1>1, <1>3, CaseLists
<1>6. Kept' = Kept /\ Out = {} /\ Out' = out /\ Filed' = Filed \cup out /\ Stored' = Stored
  BY <1>1, <1>2, <1>3 DEF Kept, Out, Filed, Stored, Calibrator!Idle
<1>7. CaseTypes'
  BY <1>1, <1>2, <1>5 DEF CaseTypes
<1>8. Answerable' /\ KeysOnce'
  BY <1>1, <1>6 DEF Answerable, KeysOnce
<1>9. WrittenOnce'
  <2>1. \A o \in out : o \notin Filed
    BY <1>1, <1>3 DEF WrittenOnce
  <2>2. inherited \cap out = {} /\ inherited \cap buffer = {}
    BY <1>1, <2>1 DEF WrittenOnce, Filed, CaseTypes
  <2>3. \A o \in out : Key(o) \in persisted'
    BY <1>2
  <2>4. \A o \in Range(resolved) : Key(o) \in persisted' \/ o \notin Filed'
    BY <1>1, <1>2, <1>4, <1>6, <2>3 DEF WrittenOnce
  <2> QED BY <1>1, <1>6, <2>2, <2>4 DEF WrittenOnce
<1> QED BY <1>7, <1>8, <1>9 DEF CaseInv

LEMMA PruneKeeps == CaseInv /\ Calibrator!Prune => CaseInv'
<1> SUFFICES ASSUME CaseInv, Calibrator!Prune
             PROVE  CaseInv'
  OBVIOUS
<1>1. /\ CaseTypes /\ Answerable /\ KeysOnce /\ WrittenOnce /\ resolved \in Seq(CaseType)
      /\ drain # Calibrator!Idle /\ drain' = Calibrator!Idle
      /\ UNCHANGED <<now, heard, cases, resolved, ingest, restored, rows, inherited, asked>>
  BY DEF CaseInv, CaseTypes, Calibrator!Prune
<1>2. /\ Kept' = Kept /\ Out = drain.out /\ Out' = {} /\ Out \subseteq CaseType
  BY <1>1, CaseLists DEF Kept, Out
<1>3. IF resolved = drain.over
      THEN persisted' = persisted \cap {Key(o) : o \in Range(resolved)} /\ buffer' = buffer \cup Out
      ELSE UNCHANGED <<persisted, buffer>>
  <2>1. {Key(o) : o \in Range(resolved)} = {Calibrator!KeyOf(o) : o \in Calibrator!Range(resolved)}
    BY SameOperators
  <2> QED BY <1>2, <2>1 DEF Calibrator!Prune
<1>4. /\ buffer \subseteq buffer' /\ buffer' \subseteq buffer \cup Out
      /\ Filed' \subseteq Filed /\ rows \subseteq Filed' /\ Stored' \subseteq Stored
  BY <1>1, <1>2, <1>3 DEF Filed, Stored
<1>5. CaseTypes'
  BY <1>1, <1>2, <1>4 DEF CaseTypes
<1>6. Answerable' /\ KeysOnce'
  BY <1>1, <1>2, <1>4 DEF Answerable, KeysOnce
<1>7. \A o \in Range(resolved) : Key(o) \in persisted => Key(o) \in persisted'
  BY <1>3
<1>8. WrittenOnce'
  BY <1>1, <1>2, <1>4, <1>7 DEF WrittenOnce
<1> QED BY <1>5, <1>6, <1>8 DEF CaseInv

\* The table takes what is new: a row that it has already is sent as it is there.
LEMMA FlushKeeps == CaseInv /\ Calibrator!Flush => CaseInv'
<1> SUFFICES ASSUME CaseInv, Calibrator!Flush
             PROVE  CaseInv'
  OBVIOUS
<1>1. /\ CaseTypes /\ Answerable /\ KeysOnce /\ WrittenOnce
      /\ buffer # {} /\ buffer' \subseteq buffer /\ rows' = Calibrator!Upserted(buffer)
      /\ UNCHANGED <<now, heard, cases, resolved, ingest, restored, drain, asked, persisted, inherited>>
  BY DEF CaseInv, Calibrator!Flush
<1>2. rows' = rows \cup buffer
  <2>1. rows \subseteq Stored /\ buffer \subseteq Stored
    BY DEF Stored, Filed
  <2>2. \A r \in rows, o \in buffer : Key(o) = Key(r) => o = r
    BY <1>1, <2>1 DEF KeysOnce
  <2>3. rows' = {r \in rows : \A o \in buffer : Key(o) # Key(r)} \cup buffer
    BY <1>1, SameOperators DEF Calibrator!Upserted
  <2> QED BY <2>2, <2>3
<1>3. Kept' = Kept /\ Out' = Out /\ Filed' = Filed /\ Stored' = Stored
  BY <1>1, <1>2 DEF Kept, Out, Filed, Stored
<1>4. CaseTypes'
  BY <1>1, <1>2 DEF CaseTypes
<1>5. Answerable' /\ KeysOnce'
  BY <1>1, <1>3 DEF Answerable, KeysOnce
<1>6. restored
  BY <1>1 DEF WrittenOnce
<1>7. WrittenOnce'
  BY <1>1, <1>3, <1>6 DEF WrittenOnce
<1> QED BY <1>4, <1>5, <1>7 DEF CaseInv

\* What a process that ends leaves behind: its table.
LEMMA RestartKeeps == CaseInv /\ Calibrator!Restart => CaseInv'
<1> SUFFICES ASSUME CaseInv, Calibrator!Restart
             PROVE  CaseInv'
  OBVIOUS
<1>1. /\ CaseTypes /\ Answerable /\ KeysOnce /\ WrittenOnce
      /\ cases' = <<>> /\ resolved' = <<>> /\ persisted' = {} /\ ingest' = Calibrator!Idle
      /\ restored' = FALSE /\ drain' = Calibrator!Idle /\ buffer' = {} /\ inherited' = rows
      /\ UNCHANGED <<now, heard, rows, asked>> /\ <<>> \in Seq(CaseType)
  BY EmptySeq DEF CaseInv, Calibrator!Restart
<1>2. /\ Kept' = <<>> /\ Out' = {} /\ Filed' = rows /\ Stored' = rows /\ rows \subseteq Stored
      /\ Range(cases') = {} /\ Range(Kept') = {} /\ Range(resolved') = {} /\ DOMAIN Kept' = {}
  BY <1>1, EmptyOnce DEF Kept, Out, Filed, Stored
<1>3. CaseTypes'
  BY <1>1 DEF CaseTypes
<1>4. Answerable' /\ KeysOnce'
  BY <1>1, <1>2 DEF Answerable, KeysOnce
<1>5. WrittenOnce'
  BY <1>1, <1>2 DEF WrittenOnce
<1> QED BY <1>3, <1>4, <1>5 DEF CaseInv

LEMMA ClockKeeps ==
  ASSUME CaseInv, now' \in Nat, now <= now',
         UNCHANGED <<heard, cases, resolved, persisted, ingest, restored, drain, buffer, rows, inherited, asked>>
  PROVE  CaseInv'
<1>1. /\ CaseTypes /\ Answerable /\ KeysOnce /\ WrittenOnce /\ now \in Nat
      /\ Kept' = Kept /\ Out' = Out /\ Filed' = Filed /\ Stored' = Stored
  BY DEF CaseInv, CaseTypes, Kept, Out, Filed, Stored
<1>2. 1..now \subseteq 1..now'
  BY <1>1
<1>3. CaseTypes' /\ Answerable' /\ WrittenOnce'
  BY <1>1 DEF CaseTypes, Answerable, WrittenOnce
<1>4. KeysOnce'
  BY <1>1, <1>2 DEF KeysOnce
<1> QED BY <1>3, <1>4 DEF CaseInv

LEMMA CasesStart == OutcomesInit => CaseInv
<1> SUFFICES ASSUME Calibrator!Init
             PROVE  CaseInv
  BY DEF OutcomesInit
<1>1. /\ now = 1 /\ heard = <<>> /\ cases = <<>> /\ resolved = <<>>
      /\ ingest = Calibrator!Idle /\ restored = FALSE /\ drain = Calibrator!Idle
      /\ buffer = {} /\ rows = {} /\ inherited = {} /\ asked = <<>>
      /\ <<>> \in Seq(CaseType) /\ <<>> \in Seq(HeardType)
      /\ <<>> \in Seq({"long", "short"} \X Nat)
  BY EmptySeq DEF Calibrator!Init
<1>2. /\ Kept = <<>> /\ Out = {} /\ Filed = {} /\ Stored = {}
      /\ Range(cases) = {} /\ Range(Kept) = {} /\ Range(resolved) = {} /\ DOMAIN Kept = {}
  BY <1>1, EmptyOnce DEF Kept, Out, Filed, Stored
<1>3. CaseTypes
  BY <1>1 DEF CaseTypes
<1> QED BY <1>1, <1>2, <1>3 DEF CaseInv, Answerable, KeysOnce, WrittenOnce

LEMMA CasesKeep == CaseInv /\ [OutcomesNext]_<<part, tradeVars, caseVars>> => CaseInv'
<1> SUFFICES ASSUME CaseInv, [OutcomesNext]_<<part, tradeVars, caseVars>>
             PROVE  CaseInv'
  OBVIOUS
<1>1. now \in Nat
  BY DEF CaseInv, CaseTypes
<1>2. CASE UNCHANGED caseVars
  BY <1>1, <1>2, ClockKeeps DEF caseVars
<1>3. CASE Calibrator!Next
  <2>1. CASE Calibrator!Tick
    BY <1>1, <2>1, ClockKeeps DEF Calibrator!Tick, Calibrator!recorder
  <2> QED BY <1>3, <2>1, ObserveKeeps, ResolveKeeps, ReplaceKeeps, RestoreKeeps, MarkKeeps,
             PruneKeeps, FlushKeeps, RestartKeeps DEF Calibrator!Next
<1> QED BY <1>2, <1>3 DEF OutcomesNext
-----------------------------------------------------------------------------
(* What the calibration promises.                                          *)

\* A score counts as answered only by the trades after it, whatever the snapshot
\* threads open between the ingest thread's reading and its writing, and after
\* any restart (Calibrator.observe, resolve, restore): OutcomesAreCausal.
THEOREM ScoresAnsweredCausally == OutcomesSpec => []OutcomesAreCausal
<1>1. CaseInv => OutcomesAreCausal
  <2> SUFFICES ASSUME CaseInv, NEW o \in Range(cases) \cup Range(resolved), NEW h \in Horizons
               PROVE  /\ o.outcome[h] = "broke" =>
                            \E i \in Calibrator!InTime(o, h) : Calibrator!Breaks(o, heard[i])
                      /\ o.outcome[h] = "held" =>
                            \A i \in Calibrator!InTime(o, h) : ~Calibrator!Breaks(o, heard[i])
    BY SameOperators DEF OutcomesAreCausal, Calibrator!OutcomesAreCausal
  <2>1. Truthful(o, heard)
    BY DEF CaseInv, Answerable, Stored
  <2>2. Calibrator!InTime(o, h) = Heard(o, h, heard, o.by[h])
    BY DEF Calibrator!InTime, Heard
  <2> QED BY <2>1, <2>2 DEF Truthful
<1> QED BY <1>1, CasesStart, CasesKeep, PTL DEF OutcomesSpec

\* A settled score is filed by one process: what another one filed is read back
\* and known as written, what was opened here never has its key, and what is sent
\* again after a lost answer is the row that is there already
\* (Recorder._restore_calibration, Calibrator.drain_persist, Storage.flush): FiledByOne.
THEOREM ScoresFiledByOne == OutcomesSpec => []FiledByOne
<1>1. CaseInv => FiledByOne
  <2> SUFFICES ASSUME CaseInv, NEW o \in buffer \cup Out
               PROVE  /\ \A r \in inherited : Key(o) # Key(r)
                      /\ \A r \in rows : Key(o) = Key(r) => o = r
    BY SameOperators DEF FiledByOne, Calibrator!FiledByOne, Calibrator!Filing, Out
  <2>1. o \in Stored /\ rows \subseteq Stored /\ inherited \subseteq rows /\ o \notin inherited
    BY DEF CaseInv, CaseTypes, WrittenOnce, Stored, Filed
  <2>2. \A r \in rows : Key(o) = Key(r) => o = r
    BY <2>1 DEF CaseInv, KeysOnce
  <2> QED BY <2>1, <2>2
<1> QED BY <1>1, CasesStart, CasesKeep, PTL DEF OutcomesSpec
=============================================================================
