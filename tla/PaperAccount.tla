---------------------------- MODULE PaperAccount ----------------------------
(***************************************************************************)
(* The paper-trading account of one timeframe: BacktestEngine feeding      *)
(* closed candles to PositionManager, RiskManager and                      *)
(* PaperExecutionEngine (t3_engine/backtest/engine.py and below).          *)
(*                                                                         *)
(* One candle is processed as the code processes it: every open position   *)
(* sees the candle's adverse extreme, then - if it is still open - its     *)
(* favourable one, and only then may the count in force open a position.   *)
(* Each call of on_price_update is a step of its own, because threads of   *)
(* the dashboard read the account and install counts between them.         *)
(*                                                                         *)
(* Prices are integers (hundredths in the configurations), quantities are  *)
(* twentieths of a position's initial quantity, the finest fraction any    *)
(* plan uses, and money is an integer.  A confidence score is reduced to   *)
(* whether it reaches the threshold, a pivot to whether the candle         *)
(* confirmed one.                                                          *)
(***************************************************************************)
EXTENDS Integers, Sequences, FiniteSets, FiniteSetsExt, TLC

CONSTANTS
    Counts,           \* the counts (scenarios) that may be put in force
    Candles,          \* the closed candles the market may produce
    AiModes,          \* the values of BacktestEngine.ai_only an engine may be built with
    InitialEquity,
    RiskBps,          \* risk per trade of each tradeable label, in 1/10000 of equity
    MaxConcurrent,    \* max_concurrent_trades
    MaxExposureBps,   \* max_correlated_exposure
    MaxDailyBps,      \* max_daily_drawdown
    MaxTotalBps,      \* max_total_drawdown
    SlippageBps, FeeBps,
    MaxOpened,        \* bound on the positions a behaviour opens
    None              \* no scenario, no candle, no fill

Labels == {"1", "2", "3", "4", "5", "A", "B", "C"}
TradeableWaves == {"3", "4", "5", "C"}

WaveOk(w) == w.start \in Nat /\ w.end \in Nat

ASSUME CountsAssumption ==
    \A c \in Counts : /\ c.label \in Labels
                      /\ DOMAIN c.waves \subseteq Labels
                      /\ \A l \in DOMAIN c.waves : WaveOk(c.waves[l])

ASSUME CandlesAssumption ==
    \A k \in Candles : /\ k.low \in Nat /\ k.high \in Nat /\ k.close \in Nat
                       /\ k.low <= k.close /\ k.close <= k.high

ASSUME AccountAssumption ==
    /\ AiModes \subseteq BOOLEAN
    /\ InitialEquity \in Nat
    /\ RiskBps \in [TradeableWaves -> Nat]
    /\ MaxConcurrent \in Nat /\ MaxOpened \in Nat
    /\ MaxExposureBps \in Nat /\ MaxDailyBps \in Nat /\ MaxTotalBps \in Nat
    /\ SlippageBps \in Nat /\ FeeBps \in Nat

ASSUME NoneAssumption == None \notin Counts /\ None \notin Candles

Parts == 20           \* the initial quantity of every position, in twentieths

-----------------------------------------------------------------------------
(* Trade plans: signal_engine/targets.py and fibonacci/calculator.py.      *)

AbsDiff(a, b) == IF a >= b THEN a - b ELSE b - a
High(w) == IF w.start >= w.end THEN w.start ELSE w.end
Low(w)  == IF w.start >= w.end THEN w.end ELSE w.start

\* A level `permille` thousandths of `length` away from `anchor`.
Level(anchor, length, permille) == anchor + (length * permille) \div 1000

Leg(price, parts, runner) ==
    [price |-> price, parts |-> parts, runner |-> runner, filled |-> FALSE]

PlanWave3Long(w1, w2) ==
    LET len == w1.end - w1.start
        At(r) == Level(w2.end, len, r)
    IN  [stop |-> Low(w2),
         legs |-> << Leg(At(1000), 5, FALSE), Leg(At(1272), 5, FALSE),
                     Leg(At(1618), 5, FALSE), Leg(At(2000), 3, FALSE),
                     Leg(At(2618), 2, TRUE) >>]

PlanWave4Short(w3) ==
    LET len == w3.end - w3.start
        At(r) == Level(w3.end, len, -r)
    IN  [stop |-> IF w3.end >= w3.start THEN (High(w3) * 1001) \div 1000
                                        ELSE (Low(w3) * 999) \div 1000,
         legs |-> << Leg(At(236), 10, FALSE), Leg(At(382), 10, FALSE) >>]

PlanWave5Long(w1, w4) ==
    LET len == w1.end - w1.start
        At(r) == Level(w4.end, len, r)
    IN  [stop |-> Low(w4),
         legs |-> << Leg(At(618), 6, FALSE), Leg(At(1000), 8, FALSE),
                     Leg(At(1618), 6, TRUE) >>]

PlanWaveCShort(wa, wb) ==
    LET len == wa.end - wa.start
        At(r) == Level(wb.end, len, r)
    IN  [stop |-> High(wb),
         legs |-> << Leg(At(618), 5, FALSE), Leg(At(1000), 7, FALSE),
                     Leg(At(1272), 5, FALSE), Leg(At(1618), 3, TRUE) >>]

\* TRADEABLE_WAVES fixes the side by the label alone.
SideOf(label) == IF label \in {"3", "5"} THEN "LONG" ELSE "SHORT"

\* The waves each plan needs; without them _maybe_open_trade returns.
PlanInputs == [l \in TradeableWaves |-> CASE l = "3" -> {"1", "2"}
                                          [] l = "4" -> {"3"}
                                          [] l = "5" -> {"1", "4"}
                                          [] l = "C" -> {"A", "B"}]

HasPlan(c) == c.label \in TradeableWaves /\ PlanInputs[c.label] \subseteq DOMAIN c.waves

PlanOf(c) ==
    CASE c.label = "3" -> PlanWave3Long(c.waves["1"], c.waves["2"])
      [] c.label = "4" -> PlanWave4Short(c.waves["3"])
      [] c.label = "5" -> PlanWave5Long(c.waves["1"], c.waves["4"])
      [] c.label = "C" -> PlanWaveCShort(c.waves["A"], c.waves["B"])

\* _rr: reward to the first target over the stop distance, rounded to
\* hundredths; a zero distance is a ratio of zero.
RiskReward(entry, plan) ==
    LET risk   == AbsDiff(entry, plan.stop)
        reward == AbsDiff(plan.legs[1].price, entry)
    IN  IF risk = 0 THEN 0 ELSE (200 * reward + risk) \div (2 * risk)
-----------------------------------------------------------------------------
VARIABLES
    positions,   \* PositionManager.positions, in the order they were opened
    openRisk,    \* RiskManager.open_risk: open position -> its risk amount
    equity, peak, dayStart, tradingEnabled,
    aiOnly,      \* trade only the agent's count; set once, by the live loop
    scenario,    \* BacktestEngine.ai_scenario, or None
    evaluated,   \* _ai_evaluated_id is the id of the scenario in force
    phase,       \* "idle", "marking" (positions see a candle) or "deciding"
    candle,      \* the candle being processed, or None
    toMark,      \* open positions that have not yet seen all of it
    marking,     \* which extreme the next position sees
    lastFill     \* the fill last reported to on_fill, or None

account == <<positions, openRisk, equity, peak, dayStart, tradingEnabled>>
bar == <<phase, candle, toMark, marking>>
vars == <<positions, openRisk, equity, peak, dayStart, tradingEnabled,
          aiOnly, scenario, evaluated, phase, candle, toMark, marking, lastFill>>

OpenPositions == {i \in DOMAIN positions : ~positions[i].closed}

Init ==
    /\ positions = << >>
    /\ openRisk = << >>
    /\ equity = InitialEquity /\ peak = InitialEquity /\ dayStart = InitialEquity
    /\ tradingEnabled = TRUE
    /\ aiOnly \in AiModes /\ scenario = None /\ evaluated = FALSE
    /\ phase = "idle" /\ candle = None /\ toMark = {} /\ marking = "adverse"
    /\ lastFill = None
-----------------------------------------------------------------------------
(* Execution and money: execution/paper.py, risk_engine/risk_manager.py.   *)

\* A market fill: a buy pays slippage above the reference, a sell below it.
FillPrice(reference, isBuy) ==
    LET slip == (reference * SlippageBps) \div 10000
    IN  IF isBuy THEN reference + slip ELSE reference - slip

\* What `parts` twentieths of p earn when they leave at `reference`: the
\* initial quantity is risk / distance, so money is risk * move / distance,
\* less the exit fee.  (The fee of the entry order is never charged.)
LegPnl(p, reference, parts) ==
    LET fill == FillPrice(reference, p.side = "SHORT")
        move == IF p.side = "LONG" THEN fill - p.entry ELSE p.entry - fill
        fee  == (fill * FeeBps) \div 10000
    IN  (p.risk * (move - fee) * parts) \div (Parts * p.distance)

RiskAmountFor(label) == (equity * RiskBps[label]) \div 10000

TotalOpenRisk == MapThenSumSet(LAMBDA i : openRisk[i], DOMAIN openRisk)

\* Faulty variants: the halt is not asked about; the exposure of the trade
\* proposed is left out.
CanOpenTradeIgnoringHalt(label) ==
    /\ Cardinality(DOMAIN openRisk) < MaxConcurrent
    /\ (TotalOpenRisk + RiskAmountFor(label)) * 10000 <= MaxExposureBps * equity
CanOpenTradeOnPresentExposure(label) ==
    /\ tradingEnabled
    /\ Cardinality(DOMAIN openRisk) < MaxConcurrent
    /\ TotalOpenRisk * 10000 <= MaxExposureBps * equity

CanOpenTrade(label) ==
    /\ tradingEnabled
    /\ Cardinality(DOMAIN openRisk) < MaxConcurrent
    /\ (TotalOpenRisk + RiskAmountFor(label)) * 10000 <= MaxExposureBps * equity

\* _check_drawdown_limits
DrawdownBreached(newEquity, newPeak) ==
    \/ dayStart > 0 /\ (dayStart - newEquity) * 10000 >= MaxDailyBps * dayStart
    \/ newPeak > 0 /\ (newPeak - newEquity) * 10000 >= MaxTotalBps * newPeak

\* Faulty variant: the risk entry is not popped.
RegisterTradeClosedKeepingRisk(i, realized) ==
    LET newEquity == equity + realized
        newPeak   == IF newEquity > peak THEN newEquity ELSE peak
    IN  /\ equity' = newEquity /\ peak' = newPeak /\ UNCHANGED openRisk
        /\ tradingEnabled' = (tradingEnabled /\ ~DrawdownBreached(newEquity, newPeak))

RegisterTradeClosed(i, realized) ==
    LET newEquity == equity + realized
        newPeak   == IF newEquity > peak THEN newEquity ELSE peak
    IN  /\ openRisk' = [j \in DOMAIN openRisk \ {i} |-> openRisk[j]]
        /\ equity' = newEquity
        /\ peak' = newPeak
        /\ tradingEnabled' = (tradingEnabled /\ ~DrawdownBreached(newEquity, newPeak))
-----------------------------------------------------------------------------
(* Positions: position_manager/manager.py.                                 *)

Adverse(p, k)    == IF p.side = "LONG" THEN k.low ELSE k.high
Favourable(p, k) == IF p.side = "LONG" THEN k.high ELSE k.low

StopHit(p, price) == IF p.side = "LONG" THEN price <= p.stop ELSE price >= p.stop
LegHit(p, leg, price) ==
    /\ ~leg.filled
    /\ IF p.side = "LONG" THEN price >= leg.price ELSE price <= leg.price
FirstLegHit(p, price, n) ==
    /\ n \in DOMAIN p.legs /\ LegHit(p, p.legs[n], price)
    /\ \A m \in 1..(n - 1) : ~LegHit(p, p.legs[m], price)

\* What the recorder of the live loop is told of a fill: `reported` is the
\* price the record carries, `level` the one the order was filled at.
FillRecord(i, event, reported, level, runner, pnl) ==
    [position |-> i, event |-> event, reported |-> reported, level |-> level,
     runner |-> runner, pnl |-> pnl]

\* _close at the stop.
CloseAtStop(i, price) ==
    LET p   == positions[i]
        pnl == LegPnl(p, p.stop, p.quantity)
    IN  /\ StopHit(p, price)
        /\ positions' = [positions EXCEPT ![i] = [p EXCEPT !.quantity = 0, !.closed = TRUE,
                                                           !.realized = p.realized + pnl]]
        /\ RegisterTradeClosed(i, p.realized + pnl)
        /\ lastFill' = FillRecord(i, "STOP_LOSS", price, p.stop, FALSE, pnl)

\* _partial_close of the first unfilled leg the price reaches; the position
\* closes when nothing is left of it.
FillLeg(i, n, price) ==
    LET p    == positions[i]
        qty  == IF p.legs[n].parts <= p.quantity THEN p.legs[n].parts ELSE p.quantity
        pnl  == LegPnl(p, p.legs[n].price, qty)
        left == p.quantity - qty
    IN  /\ ~StopHit(p, price)
        /\ FirstLegHit(p, price, n)
        /\ positions' = [positions EXCEPT ![i] =
                            [p EXCEPT !.quantity = left, !.closed = (left = 0),
                                      !.realized = p.realized + pnl,
                                      !.legs = [p.legs EXCEPT ![n].filled = TRUE]]]
        /\ IF left = 0 THEN RegisterTradeClosed(i, p.realized + pnl)
                       ELSE UNCHANGED <<openRisk, equity, peak, tradingEnabled>>
        /\ lastFill' = FillRecord(i, "TP_HIT", price, p.legs[n].price,
                                  p.legs[n].runner, pnl)

NothingHit(i, price) ==
    /\ ~StopHit(positions[i], price)
    /\ \A n \in DOMAIN positions[i].legs : ~LegHit(positions[i], positions[i].legs[n], price)
    /\ UNCHANGED <<positions, openRisk, equity, peak, tradingEnabled, lastFill>>

OnPriceUpdate(i, price) ==
    /\ \/ CloseAtStop(i, price)
       \/ \E n \in DOMAIN positions[i].legs : FillLeg(i, n, price)
       \/ NothingHit(i, price)
    /\ UNCHANGED dayStart
-----------------------------------------------------------------------------
(* One candle: backtest/engine.py.                                         *)

\* process_candle is entered; _update_open_positions lists the positions.
StartCandle(k) ==
    /\ phase = "idle"
    /\ phase' = "marking" /\ candle' = k /\ marking' = "adverse"
    /\ toMark' = OpenPositions
    /\ UNCHANGED <<account, aiOnly, scenario, evaluated, lastFill>>

\* Faulty variant: a position sees only where the candle closed.
MarkPositionOnClose(i) ==
    /\ phase = "marking" /\ i \in toMark /\ \A j \in toMark : i <= j
    /\ OnPriceUpdate(i, candle.close)
    /\ toMark' = toMark \ {i}
    /\ UNCHANGED <<phase, candle, marking, aiOnly, scenario, evaluated>>

\* _update_open_positions, in the order the positions were opened: the
\* adverse extreme first, the favourable one only if that left p open.
MarkPosition(i) ==
    /\ phase = "marking" /\ i \in toMark /\ \A j \in toMark : i <= j
    /\ LET p == positions[i] IN
       \/ /\ marking = "adverse"
          /\ OnPriceUpdate(i, Adverse(p, candle))
          /\ IF positions'[i].closed
             THEN toMark' = toMark \ {i} /\ UNCHANGED marking
             ELSE marking' = "favourable" /\ UNCHANGED toMark
       \/ /\ marking = "favourable"
          /\ OnPriceUpdate(i, Favourable(p, candle))
          /\ toMark' = toMark \ {i} /\ marking' = "adverse"
    /\ UNCHANGED <<phase, candle, aiOnly, scenario, evaluated>>

EndMarking ==
    /\ phase = "marking" /\ toMark = {}
    /\ phase' = "deciding"
    /\ UNCHANGED <<account, candle, toMark, marking, aiOnly, scenario, evaluated, lastFill>>

\* Faulty variant: the reward-to-risk test is left out.
EntryAcceptedOnScore(c, confident) == confident

\* evaluate_entry accepts: the score reaches the threshold and the reward
\* is at least the risk.  (Its other tests cannot fail on these paths: the
\* stage passed in is TRIGGERED and neither path trades an invalidated count.)
EntryAccepted(c, confident) == confident /\ RiskReward(candle.close, PlanOf(c)) >= 100

\* Faulty variant: a label that is already open may be opened again.
EntryConsideredAgain(c) == HasPlan(c)

\* The early returns of _maybe_open_trade before a signal is made.
EntryConsidered(c) ==
    /\ HasPlan(c)
    /\ \A i \in OpenPositions : positions[i].label # c.label

NewPosition(c) ==
    LET entry == candle.close
        plan  == PlanOf(c)
        side  == SideOf(c.label)
    IN  [label |-> c.label, side |-> side,
         entry |-> FillPrice(entry, side = "LONG"), reference |-> entry,
         distance |-> AbsDiff(entry, plan.stop), stop |-> plan.stop,
         legs |-> plan.legs, quantity |-> Parts, risk |-> RiskAmountFor(c.label),
         realized |-> 0, closed |-> FALSE]

OpenTrade(c, confident) ==
    /\ EntryConsidered(c) /\ EntryAccepted(c, confident) /\ CanOpenTrade(c.label)
    /\ Len(positions) < MaxOpened
    /\ LET p == NewPosition(c)
           i == Len(positions) + 1
       IN  /\ positions' = Append(positions, p)
           /\ openRisk' = [j \in DOMAIN openRisk \cup {i} |->
                              IF j = i THEN p.risk ELSE openRisk[j]]
           /\ lastFill' = FillRecord(i, "ENTRY", candle.close, candle.close, FALSE, 0)
    /\ UNCHANGED <<equity, peak, dayStart, tradingEnabled>>

NoTrade(c, confident) ==
    /\ ~(EntryConsidered(c) /\ EntryAccepted(c, confident) /\ CanOpenTrade(c.label))
    /\ UNCHANGED <<account, lastFill>>

MaybeOpenTrade(c) ==
    \E confident \in BOOLEAN : OpenTrade(c, confident) \/ NoTrade(c, confident)

\* The engine's own path: a new pivot rebuilds the scenarios and the best
\* of them is evaluated; without a pivot nothing is.
DecideOnOwnCount(pivot) ==
    /\ ~aiOnly
    /\ IF pivot THEN \E c \in Counts : MaybeOpenTrade(c)
                ELSE UNCHANGED <<account, lastFill>>
    /\ UNCHANGED evaluated

\* _maybe_open_ai_trade: on a new pivot, or once when a count is new.
DecideOnAiCount(pivot) ==
    /\ aiOnly
    /\ IF scenario # None /\ (pivot \/ ~evaluated)
       THEN MaybeOpenTrade(scenario) /\ evaluated' = TRUE
       ELSE UNCHANGED <<account, lastFill, evaluated>>

Decide(pivot) ==
    /\ phase = "deciding"
    /\ DecideOnOwnCount(pivot) \/ DecideOnAiCount(pivot)
    /\ phase' = "idle" /\ candle' = None
    /\ UNCHANGED <<toMark, marking, aiOnly, scenario>>

\* set_ai_scenario with a new fingerprint, from a dashboard thread: it may
\* fall between any two steps of a candle.
InstallCount(c) ==
    /\ aiOnly
    /\ scenario' = c /\ evaluated' = FALSE
    /\ UNCHANGED <<account, bar, aiOnly, lastFill>>

Next ==
    \/ \E k \in Candles : StartCandle(k)
    \/ \E i \in DOMAIN positions : MarkPosition(i)
    \/ EndMarking
    \/ \E pivot \in BOOLEAN : Decide(pivot)
    \/ \E c \in Counts \cup {None} : InstallCount(c)

Spec == Init /\ [][Next]_vars
-----------------------------------------------------------------------------
(* Types.                                                                  *)

LegType == [price : Int, parts : Nat, runner : BOOLEAN, filled : BOOLEAN]

PositionType ==
    [label : TradeableWaves, side : {"LONG", "SHORT"}, entry : Int, reference : Nat,
     distance : Nat \ {0}, stop : Int, legs : Seq(LegType), quantity : 0..Parts,
     risk : Int, realized : Int, closed : BOOLEAN]

FillType ==
    [position : Nat, event : {"ENTRY", "TP_HIT", "STOP_LOSS"}, reported : Nat,
     level : Int, runner : BOOLEAN, pnl : Int]

\* Every variable has its type.  The distance a position is sized by is
\* positive: position_size can never raise on the path that reaches it.
TypeOK ==
    /\ positions \in Seq(PositionType)
    /\ DOMAIN openRisk \subseteq DOMAIN positions
    /\ \A i \in DOMAIN openRisk : openRisk[i] \in Int
    /\ equity \in Int /\ peak \in Int /\ dayStart \in Int
    /\ tradingEnabled \in BOOLEAN
    /\ aiOnly \in BOOLEAN /\ scenario \in Counts \cup {None} /\ evaluated \in BOOLEAN
    /\ phase \in {"idle", "marking", "deciding"}
    /\ candle \in Candles \cup {None} /\ (phase # "idle" => candle \in Candles)
    /\ toMark \subseteq DOMAIN positions
    /\ marking \in {"adverse", "favourable"}
    /\ lastFill \in FillType \cup {None}
-----------------------------------------------------------------------------
(* Safety.                                                                 *)

\* The risk book and the position book agree after every fill, partial or
\* full: a risk entry that outlived its position would block the account
\* for ever, a missing one would let it exceed its limits.
RiskBookMatchesPositions ==
    /\ DOMAIN openRisk = OpenPositions
    /\ \A i \in OpenPositions : openRisk[i] = positions[i].risk

\* Never more positions at once than max_concurrent_trades, and one per label.
PositionLimits ==
    /\ Cardinality(OpenPositions) <= MaxConcurrent
    /\ \A i, j \in OpenPositions : positions[i].label = positions[j].label => i = j

\* The summed risk of what is open stays within max_correlated_exposure of
\* the equity the account has NOW - also after a loss has shrunk it.
ExposureWithinCap == TotalOpenRisk * 10000 <= MaxExposureBps * equity

\* After a candle no position is open whose stop lies inside that candle:
\* whatever its take-profits did, the stop was not skipped.
NoPositionOutlivesItsStop ==
    phase = "deciding" =>
        \A i \in OpenPositions : ~StopHit(positions[i], Adverse(positions[i], candle))

\* A halted account holds what it has and opens nothing, and nothing in the
\* engine lifts the halt.
HaltIsFinal ==
    [][~tradingEnabled => ~tradingEnabled' /\ Len(positions') = Len(positions)]_vars
-----------------------------------------------------------------------------
(***************************************************************************)
(* Values for the constants.  Prices are in hundredths: an impulse that    *)
(* rises 100 -> 110, corrects to 104, and the counts that follow it.       *)
(***************************************************************************)

W(s, e) == [start |-> s, end |-> e]

\* Counts of a rising market, one for each tradeable label.
Wave3Up == [label |-> "3", waves |-> ("1" :> W(10000, 11000) @@ "2" :> W(11000, 10400))]
Wave4Up == [label |-> "4", waves |-> ("3" :> W(10400, 12400))]
Wave5Up == [label |-> "5", waves |-> ("1" :> W(10000, 11000) @@ "4" :> W(12000, 10800))]
WaveCDown == [label |-> "C", waves |-> ("A" :> W(12400, 11400) @@ "B" :> W(11400, 11900))]

K(l, c, h) == [low |-> l, close |-> c, high |-> h]

\* Candles that reach an entry, a stop or targets of those counts.
EntryWave3 == K(10500, 10600, 11000)
EntryWaveC == K(11600, 11750, 11800)
EntryWave4 == K(12200, 12300, 12350)
Plunge == K(10300, 10400, 12500)       \* through every stop; closes on the stop of wave 3

AllCounts == {Wave3Up, Wave4Up, Wave5Up, WaveCDown}
AllCandles == {EntryWave3, EntryWaveC, EntryWave4, Plunge}

MCRiskBps == [l \in TradeableWaves |-> CASE l = "3" -> 100 [] l = "4" -> 50
                                         [] l = "5" -> 75  [] l = "C" -> 100]
=============================================================================
