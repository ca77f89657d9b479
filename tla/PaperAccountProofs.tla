------------------------- MODULE PaperAccountProofs -------------------------
(***************************************************************************)
(* What holds of PaperAccount for every set of counts and candles, every   *)
(* limit and every cost.  IInv is the inductive invariant: type            *)
(* correctness, the agreement of the risk book with the position book, the *)
(* limits on open positions, and two facts they rest on - a position is    *)
(* closed exactly when nothing is left of it, and only open positions are  *)
(* still to see the candle.                                                *)
(***************************************************************************)
EXTENDS PaperAccount, FiniteSetTheorems, TLAPS

ClosedIsEmpty == \A i \in DOMAIN positions : positions[i].closed <=> positions[i].quantity = 0
MarksOpen == toMark \subseteq OpenPositions

IInv == TypeOK /\ RiskBookMatchesPositions /\ PositionLimits /\ ClosedIsEmpty /\ MarksOpen

PlanType == [stop : Int, legs : Seq(LegType)]
-----------------------------------------------------------------------------
(* The arithmetic of plans and fills stays within the integers.            *)

LEMMA LevelInt ==
  ASSUME NEW a \in Int, NEW b \in Int, NEW r \in Int
  PROVE  Level(a, b, r) \in Int
  BY DEF Level

LEMMA HighLowInt ==
  ASSUME NEW w, WaveOk(w)
  PROVE  High(w) \in Nat /\ Low(w) \in Nat /\ w.end - w.start \in Int
  BY DEF WaveOk, High, Low

LEMMA FiveLegs ==
  ASSUME NEW a \in LegType, NEW b \in LegType, NEW c \in LegType, NEW d \in LegType,
         NEW e \in LegType, NEW s \in Int
  PROVE  [stop |-> s, legs |-> <<a, b, c, d, e>>] \in PlanType
  BY DEF PlanType

LEMMA FourLegs ==
  ASSUME NEW a \in LegType, NEW b \in LegType, NEW c \in LegType, NEW d \in LegType,
         NEW s \in Int
  PROVE  [stop |-> s, legs |-> <<a, b, c, d>>] \in PlanType
  BY DEF PlanType

LEMMA ThreeLegs ==
  ASSUME NEW a \in LegType, NEW b \in LegType, NEW c \in LegType, NEW s \in Int
  PROVE  [stop |-> s, legs |-> <<a, b, c>>] \in PlanType
  BY DEF PlanType

LEMMA TwoLegs ==
  ASSUME NEW a \in LegType, NEW b \in LegType, NEW s \in Int
  PROVE  [stop |-> s, legs |-> <<a, b>>] \in PlanType
  BY DEF PlanType

LEMMA Wave3Typed ==
  ASSUME NEW w1, NEW w2, WaveOk(w1), WaveOk(w2)
  PROVE  PlanWave3Long(w1, w2) \in PlanType
<1> DEFINE at(r) == Level(w2.end, w1.end - w1.start, r)
           s == Low(w2)
           l1 == Leg(at(1000), 5, FALSE)
           l2 == Leg(at(1272), 5, FALSE)
           l3 == Leg(at(1618), 5, FALSE)
           l4 == Leg(at(2000), 3, FALSE)
           l5 == Leg(at(2618), 2, TRUE)
<1>1. /\ at(1000) \in Int
      /\ at(1272) \in Int
      /\ at(1618) \in Int
      /\ at(2000) \in Int
      /\ at(2618) \in Int
  BY HighLowInt DEF WaveOk, Level
<1>2. s \in Int
  BY HighLowInt
<1> HIDE DEF at
<1>3. l1 \in LegType /\ l2 \in LegType /\ l3 \in LegType /\ l4 \in LegType /\ l5 \in LegType
  BY <1>1 DEF Leg, LegType
<1> HIDE DEF s, l1, l2, l3, l4, l5
<1>4. PlanWave3Long(w1, w2) = [stop |-> s, legs |-> <<l1, l2, l3, l4, l5>>]
  BY DEF PlanWave3Long, at, s, l1, l2, l3, l4, l5
<1> QED BY <1>2, <1>3, <1>4, FiveLegs

LEMMA Wave4Typed ==
  ASSUME NEW w3, WaveOk(w3)
  PROVE  PlanWave4Short(w3) \in PlanType
<1> DEFINE at(r) == Level(w3.end, w3.end - w3.start, -r)
           s == IF w3.end >= w3.start THEN (High(w3) * 1001) \div 1000
                                      ELSE (Low(w3) * 999) \div 1000
           l1 == Leg(at(236), 10, FALSE)
           l2 == Leg(at(382), 10, FALSE)
<1>1. /\ at(236) \in Int
      /\ at(382) \in Int
  BY HighLowInt DEF WaveOk, Level
<1>2. s \in Int
  BY HighLowInt
<1> HIDE DEF at
<1>3. l1 \in LegType /\ l2 \in LegType
  BY <1>1 DEF Leg, LegType
<1> HIDE DEF s, l1, l2
<1>4. PlanWave4Short(w3) = [stop |-> s, legs |-> <<l1, l2>>]
  BY DEF PlanWave4Short, at, s, l1, l2
<1> QED BY <1>2, <1>3, <1>4, TwoLegs

LEMMA Wave5Typed ==
  ASSUME NEW w1, NEW w4, WaveOk(w1), WaveOk(w4)
  PROVE  PlanWave5Long(w1, w4) \in PlanType
<1> DEFINE at(r) == Level(w4.end, w1.end - w1.start, r)
           s == Low(w4)
           l1 == Leg(at(618), 6, FALSE)
           l2 == Leg(at(1000), 8, FALSE)
           l3 == Leg(at(1618), 6, TRUE)
<1>1. /\ at(618) \in Int
      /\ at(1000) \in Int
      /\ at(1618) \in Int
  BY HighLowInt DEF WaveOk, Level
<1>2. s \in Int
  BY HighLowInt
<1> HIDE DEF at
<1>3. l1 \in LegType /\ l2 \in LegType /\ l3 \in LegType
  BY <1>1 DEF Leg, LegType
<1> HIDE DEF s, l1, l2, l3
<1>4. PlanWave5Long(w1, w4) = [stop |-> s, legs |-> <<l1, l2, l3>>]
  BY DEF PlanWave5Long, at, s, l1, l2, l3
<1> QED BY <1>2, <1>3, <1>4, ThreeLegs

LEMMA WaveCTyped ==
  ASSUME NEW wa, NEW wb, WaveOk(wa), WaveOk(wb)
  PROVE  PlanWaveCShort(wa, wb) \in PlanType
<1> DEFINE at(r) == Level(wb.end, wa.end - wa.start, r)
           s == High(wb)
           l1 == Leg(at(618), 5, FALSE)
           l2 == Leg(at(1000), 7, FALSE)
           l3 == Leg(at(1272), 5, FALSE)
           l4 == Leg(at(1618), 3, TRUE)
<1>1. /\ at(618) \in Int
      /\ at(1000) \in Int
      /\ at(1272) \in Int
      /\ at(1618) \in Int
  BY HighLowInt DEF WaveOk, Level
<1>2. s \in Int
  BY HighLowInt
<1> HIDE DEF at
<1>3. l1 \in LegType /\ l2 \in LegType /\ l3 \in LegType /\ l4 \in LegType
  BY <1>1 DEF Leg, LegType
<1> HIDE DEF s, l1, l2, l3, l4
<1>4. PlanWaveCShort(wa, wb) = [stop |-> s, legs |-> <<l1, l2, l3, l4>>]
  BY DEF PlanWaveCShort, at, s, l1, l2, l3, l4
<1> QED BY <1>2, <1>3, <1>4, FourLegs

LEMMA PlanTyped ==
  ASSUME NEW c \in Counts, HasPlan(c)
  PROVE  PlanOf(c) \in PlanType
<1>1. c.label \in {"3", "4", "5", "C"}
  BY DEF HasPlan, TradeableWaves
<1>2. \A l \in PlanInputs[c.label] : WaveOk(c.waves[l])
  BY CountsAssumption DEF HasPlan
<1>3. CASE c.label = "3"
  BY <1>2, <1>3, Wave3Typed DEF PlanOf, PlanInputs, TradeableWaves
<1>4. CASE c.label = "4"
  BY <1>2, <1>4, Wave4Typed DEF PlanOf, PlanInputs, TradeableWaves
<1>5. CASE c.label = "5"
  BY <1>2, <1>5, Wave5Typed DEF PlanOf, PlanInputs, TradeableWaves
<1>6. CASE c.label = "C"
  BY <1>2, <1>6, WaveCTyped DEF PlanOf, PlanInputs, TradeableWaves
<1> QED BY <1>1, <1>3, <1>4, <1>5, <1>6

\* The account without the candle being processed: what a fill may change.
AccountOK ==
    /\ positions \in Seq(PositionType)
    /\ equity \in Int /\ peak \in Int
    /\ tradingEnabled \in BOOLEAN
    /\ RiskBookMatchesPositions /\ PositionLimits /\ ClosedIsEmpty

LEMMA SizedDistance ==
  ASSUME NEW entry \in Nat, NEW plan \in PlanType, RiskReward(entry, plan) >= 100
  PROVE  AbsDiff(entry, plan.stop) \in Nat \ {0}
  BY DEF RiskReward, AbsDiff, PlanType

LEMMA FillPriceInt ==
  ASSUME NEW r \in Int, NEW b \in BOOLEAN
  PROVE  FillPrice(r, b) \in Int
<1>1. SlippageBps \in Int
  BY AccountAssumption
<1>2. (r * SlippageBps) \div 10000 \in Int
  BY <1>1
<1> QED BY <1>2 DEF FillPrice

LEMMA LegPnlInt ==
  ASSUME NEW p \in PositionType, NEW r \in Int, NEW n \in Int
  PROVE  LegPnl(p, r, n) \in Int
<1> DEFINE fill == FillPrice(r, p.side = "SHORT")
           move == IF p.side = "LONG" THEN fill - p.entry ELSE p.entry - fill
           fee == (fill * FeeBps) \div 10000
           num == p.risk * (move - fee) * n
           den == Parts * p.distance
<1>1. p.entry \in Int /\ p.risk \in Int /\ p.distance \in Nat \ {0}
  BY DEF PositionType
<1>2. fill \in Int
  BY FillPriceInt
<1>3. FeeBps \in Int
  BY AccountAssumption
<1> HIDE DEF fill
<1>4. move \in Int /\ fee \in Int
  BY <1>1, <1>2, <1>3
<1> HIDE DEF move, fee
<1>5. num \in Int
  BY <1>1, <1>4
<1>6. den \in Nat \ {0}
  BY <1>1 DEF Parts
<1>7. LegPnl(p, r, n) = num \div den
  BY DEF LegPnl, num, den, move, fee, fill
<1> HIDE DEF num, den
<1> QED BY <1>5, <1>6, <1>7

LEMMA RiskAmountInt ==
  ASSUME equity \in Int, NEW l \in TradeableWaves
  PROVE  RiskAmountFor(l) \in Int
<1>1. RiskBps[l] \in Int
  BY AccountAssumption
<1>2. equity * RiskBps[l] \in Int
  BY <1>1
<1> QED BY <1>2 DEF RiskAmountFor

LEMMA NewPositionTyped ==
  ASSUME equity \in Int, candle \in Candles, NEW c \in Counts, NEW b \in BOOLEAN,
         HasPlan(c), EntryAccepted(c, b)
  PROVE  NewPosition(c) \in PositionType
<1>1. candle.close \in Nat
  BY CandlesAssumption
<1>2. c.label \in TradeableWaves
  BY DEF HasPlan
<1>3. PlanOf(c) \in PlanType
  BY PlanTyped
<1>4. RiskAmountFor(c.label) \in Int
  BY <1>2, RiskAmountInt
<1>5. AbsDiff(candle.close, PlanOf(c).stop) \in Nat \ {0}
  BY <1>1, <1>3, SizedDistance DEF EntryAccepted
<1>6. FillPrice(candle.close, SideOf(c.label) = "LONG") \in Int
  <2> DEFINE buy == SideOf(c.label) = "LONG"
  <2>1. candle.close \in Int /\ buy \in BOOLEAN
    BY <1>1
  <2> HIDE DEF buy
  <2>2. FillPrice(candle.close, buy) \in Int
    BY <2>1, FillPriceInt
  <2> QED BY <2>2 DEF buy
<1>7. SideOf(c.label) \in {"LONG", "SHORT"}
  BY DEF SideOf
<1> QED
  BY <1>1, <1>2, <1>3, <1>4, <1>5, <1>6, <1>7
     DEF NewPosition, PositionType, PlanType, Parts

-----------------------------------------------------------------------------
(* One position changes: every fill of on_price_update is of this form.    *)

LEMMA OpenFinite ==
  ASSUME positions \in Seq(PositionType)
  PROVE  IsFiniteSet(OpenPositions)
<1>1. DOMAIN positions = 1..Len(positions) /\ Len(positions) \in Nat
  OBVIOUS
<1>2. IsFiniteSet(1..Len(positions))
  BY <1>1, FS_Interval
<1>3. OpenPositions \in SUBSET (1..Len(positions))
  BY <1>1 DEF OpenPositions
<1> QED BY <1>2, <1>3, FS_Subset

LEMMA OnePositionChanges ==
  ASSUME AccountOK, NEW i \in OpenPositions, NEW q \in PositionType, NEW x \in Int,
         q.label = positions[i].label, q.risk = positions[i].risk,
         q.closed <=> q.quantity = 0,
         positions' = [positions EXCEPT ![i] = q],
         IF q.closed THEN RegisterTradeClosed(i, x)
                     ELSE UNCHANGED <<openRisk, equity, peak, tradingEnabled>>
  PROVE  /\ AccountOK'
         /\ DOMAIN positions' = DOMAIN positions
         /\ OpenPositions' = IF q.closed THEN OpenPositions \ {i} ELSE OpenPositions
<1> USE DEF AccountOK
<1>1. i \in DOMAIN positions /\ ~positions[i].closed
  BY DEF OpenPositions
<1>2. /\ positions' \in Seq(PositionType) /\ DOMAIN positions' = DOMAIN positions
      /\ positions'[i] = q /\ \A j \in DOMAIN positions \ {i} : positions'[j] = positions[j]
  BY <1>1
<1>3. OpenPositions' = IF q.closed THEN OpenPositions \ {i} ELSE OpenPositions
  BY <1>1, <1>2 DEF OpenPositions
<1>4. equity' \in Int /\ peak' \in Int /\ tradingEnabled' \in BOOLEAN
  <2>1. CASE q.closed
    BY <2>1 DEF RegisterTradeClosed
  <2>2. CASE ~q.closed
    BY <2>2
  <2> QED BY <2>1, <2>2
<1>5. RiskBookMatchesPositions'
  <2>1. CASE q.closed
    BY <1>1, <1>2, <1>3, <2>1 DEF RegisterTradeClosed, RiskBookMatchesPositions
  <2>2. CASE ~q.closed
    BY <1>1, <1>2, <1>3, <2>2 DEF RiskBookMatchesPositions, OpenPositions
  <2> QED BY <2>1, <2>2
<1>6. PositionLimits'
  <2>1. Cardinality(OpenPositions') <= MaxConcurrent
    <3>1. OpenPositions' \in SUBSET OpenPositions
      BY <1>3
    <3>2. /\ Cardinality(OpenPositions') \in Nat /\ Cardinality(OpenPositions) \in Nat
          /\ Cardinality(OpenPositions') <= Cardinality(OpenPositions)
      BY <3>1, OpenFinite, FS_Subset, FS_CardinalityType
    <3>3. Cardinality(OpenPositions) <= MaxConcurrent /\ MaxConcurrent \in Nat
      BY AccountAssumption DEF PositionLimits
    <3> QED BY <3>2, <3>3
  <2>2. \A j, k \in OpenPositions' : positions'[j].label = positions'[k].label => j = k
    BY <1>1, <1>2, <1>3 DEF PositionLimits, OpenPositions
  <2> QED BY <2>1, <2>2 DEF PositionLimits
<1>7. ClosedIsEmpty'
  BY <1>1, <1>2 DEF ClosedIsEmpty
<1> QED BY <1>2, <1>3, <1>4, <1>5, <1>6, <1>7

\* What a fill owes the rest of the candle: the account stays in order and
\* no position but i leaves the open ones.
FillKeeps(i) ==
    /\ AccountOK'
    /\ DOMAIN positions' = DOMAIN positions
    /\ OpenPositions' \subseteq OpenPositions
    /\ OpenPositions \ {i} \subseteq OpenPositions'
    /\ lastFill' \in FillType \cup {None}

LEMMA PositionFields ==
  ASSUME NEW p \in PositionType
  PROVE  /\ p.stop \in Int /\ p.quantity \in 0..Parts /\ p.realized \in Int
         /\ p.legs \in Seq(LegType) /\ p.label \in TradeableWaves /\ p.risk \in Int
  BY DEF PositionType

LEMMA LegFields ==
  ASSUME NEW l \in LegType
  PROVE  l.parts \in Nat /\ l.price \in Int /\ l.runner \in BOOLEAN
  BY DEF LegType

LEMMA PositionReduced ==
  ASSUME NEW p \in PositionType, NEW quantity \in 0..Parts,
         NEW realized \in Int, NEW legs \in Seq(LegType)
  PROVE  LET q == [p EXCEPT !.quantity = quantity, !.closed = (quantity = 0),
                            !.realized = realized, !.legs = legs]
         IN  /\ q \in PositionType /\ q.label = p.label /\ q.risk = p.risk
             /\ q.quantity = quantity /\ (q.closed <=> quantity = 0)
  BY DEF PositionType

LEMMA PositionEmptied ==
  ASSUME NEW p \in PositionType, NEW realized \in Int
  PROVE  LET q == [p EXCEPT !.quantity = 0, !.closed = TRUE, !.realized = realized]
         IN  /\ q \in PositionType /\ q.label = p.label /\ q.risk = p.risk
             /\ q.quantity = 0 /\ q.closed = TRUE
<1>1. 0 \in 0..Parts
  BY DEF Parts
<1> QED BY <1>1 DEF PositionType

LEMMA SplitQuantity ==
  ASSUME NEW a \in Nat, NEW b \in 0..Parts
  PROVE  LET m == IF a <= b THEN a ELSE b IN m \in Nat /\ b - m \in 0..Parts
  BY DEF Parts

LEMMA LegMarked ==
  ASSUME NEW legs \in Seq(LegType), NEW n \in DOMAIN legs
  PROVE  [legs EXCEPT ![n].filled = TRUE] \in Seq(LegType)
<1>1. legs[n] \in LegType
  OBVIOUS
<1>2. [legs[n] EXCEPT !.filled = TRUE] \in LegType
  BY <1>1 DEF LegType
<1>3. [legs EXCEPT ![n].filled = TRUE] = [legs EXCEPT ![n] = [legs[n] EXCEPT !.filled = TRUE]]
  OBVIOUS
<1> QED BY <1>2, <1>3

LEMMA FillRecordTyped ==
  ASSUME NEW i \in Nat, NEW e \in {"ENTRY", "TP_HIT", "STOP_LOSS"}, NEW price \in Nat,
         NEW level \in Int, NEW r \in BOOLEAN, NEW pnl \in Int
  PROVE  FillRecord(i, e, price, level, r, pnl) \in FillType
  BY DEF FillRecord, FillType

LEMMA CloseAtStopKeeps ==
  ASSUME AccountOK, NEW i \in OpenPositions, NEW price \in Nat, CloseAtStop(i, price)
  PROVE  FillKeeps(i)
<1> DEFINE p   == positions[i]
           pnl == LegPnl(p, p.stop, p.quantity)
           x   == p.realized + pnl
           q   == [p EXCEPT !.quantity = 0, !.closed = TRUE, !.realized = x]
<1>1. i \in DOMAIN positions /\ i \in Nat /\ p \in PositionType
  BY DEF OpenPositions, AccountOK
<1>2. p.stop \in Int /\ p.quantity \in 0..Parts /\ p.realized \in Int
  BY <1>1, PositionFields
<1>3. p.quantity \in Int
  BY <1>2 DEF Parts
<1>4. pnl \in Int
  BY <1>1, <1>2, <1>3, LegPnlInt
<1>5. /\ positions' = [positions EXCEPT ![i] = q] /\ RegisterTradeClosed(i, x)
      /\ lastFill' = FillRecord(i, "STOP_LOSS", price, p.stop, FALSE, pnl)
  BY DEF CloseAtStop
<1> HIDE DEF pnl
<1>6. x \in Int
  BY <1>2, <1>4
<1> HIDE DEF x
<1>7. q \in PositionType /\ q.label = p.label /\ q.risk = p.risk /\ q.quantity = 0 /\ q.closed = TRUE
  <2> HIDE DEF p, q
  <2>1. q = [p EXCEPT !.quantity = 0, !.closed = TRUE, !.realized = x]
    BY DEF q
  <2>2. p \in PositionType
    BY <1>1
  <2> QED BY <1>6, <2>1, <2>2, PositionEmptied
<1> HIDE DEF q
<1>8. lastFill' \in FillType
  <2>1. PICK level : level = p.stop
    OBVIOUS
  <2>2. level \in Int /\ i \in Nat /\ lastFill' = FillRecord(i, "STOP_LOSS", price, level, FALSE, pnl)
    BY <1>1, <1>2, <1>5, <2>1
  <2> QED BY <1>4, <2>2, FillRecordTyped
<1>9. /\ AccountOK' /\ DOMAIN positions' = DOMAIN positions
      /\ OpenPositions' = OpenPositions \ {i}
  BY <1>5, <1>6, <1>7, OnePositionChanges
<1> QED BY <1>8, <1>9 DEF FillKeeps

LEMMA FillLegKeeps ==
  ASSUME AccountOK, NEW i \in OpenPositions, NEW price \in Nat,
         NEW n \in DOMAIN positions[i].legs, FillLeg(i, n, price)
  PROVE  FillKeeps(i)
<1> DEFINE p    == positions[i]
           leg  == p.legs[n]
           qty  == IF leg.parts <= p.quantity THEN leg.parts ELSE p.quantity
           pnl  == LegPnl(p, leg.price, qty)
           left == p.quantity - qty
           x    == p.realized + pnl
           legs == [p.legs EXCEPT ![n].filled = TRUE]
           q    == [p EXCEPT !.quantity = left, !.closed = (left = 0), !.realized = x, !.legs = legs]
<1>1. i \in DOMAIN positions /\ i \in Nat /\ p \in PositionType
  BY DEF OpenPositions, AccountOK
<1>2. p.quantity \in 0..Parts /\ p.realized \in Int /\ p.legs \in Seq(LegType)
  BY <1>1, PositionFields
<1>3. leg \in LegType
  BY <1>2
<1>4. leg.parts \in Nat /\ leg.price \in Int /\ leg.runner \in BOOLEAN
  BY <1>3, LegFields
<1>5. /\ positions' = [positions EXCEPT ![i] = q]
      /\ IF left = 0 THEN RegisterTradeClosed(i, x)
                     ELSE UNCHANGED <<openRisk, equity, peak, tradingEnabled>>
      /\ lastFill' = FillRecord(i, "TP_HIT", price, leg.price, leg.runner, pnl)
  BY DEF FillLeg
<1>6. legs \in Seq(LegType)
  BY <1>2, LegMarked
<1> HIDE DEF leg, legs
<1>7. qty \in Nat /\ left \in 0..Parts
  BY <1>2, <1>4, SplitQuantity
<1> HIDE DEF qty
<1>8. pnl \in Int
  BY <1>1, <1>4, <1>7, LegPnlInt
<1> HIDE DEF pnl
<1>9. x \in Int
  BY <1>2, <1>8
<1> HIDE DEF x, left
<1>10. lastFill' \in FillType
  BY <1>1, <1>4, <1>5, <1>8, FillRecordTyped
<1>11. /\ q \in PositionType /\ q.label = p.label /\ q.risk = p.risk
       /\ q.quantity = left /\ (q.closed <=> left = 0)
  <2> HIDE DEF p
  <2> QED BY <1>1, <1>6, <1>7, <1>9, PositionReduced, Zenon
<1> HIDE DEF q
<1>12. IF q.closed THEN RegisterTradeClosed(i, x)
                   ELSE UNCHANGED <<openRisk, equity, peak, tradingEnabled>>
  BY <1>5, <1>11
<1>13. /\ AccountOK' /\ DOMAIN positions' = DOMAIN positions
       /\ OpenPositions' = IF q.closed THEN OpenPositions \ {i} ELSE OpenPositions
  BY <1>5, <1>9, <1>11, <1>12, OnePositionChanges
<1> QED BY <1>10, <1>13 DEF FillKeeps

LEMMA OnPriceUpdateKeeps ==
  ASSUME AccountOK, lastFill \in FillType \cup {None}, NEW i \in OpenPositions,
         NEW price \in Nat, OnPriceUpdate(i, price)
  PROVE  FillKeeps(i) /\ dayStart' = dayStart
<1>1. CASE CloseAtStop(i, price)
  BY <1>1, CloseAtStopKeeps DEF OnPriceUpdate
<1>2. CASE \E n \in DOMAIN positions[i].legs : FillLeg(i, n, price)
  BY <1>2, FillLegKeeps DEF OnPriceUpdate
<1>3. CASE NothingHit(i, price)
  BY <1>3 DEF OnPriceUpdate, NothingHit, FillKeeps, AccountOK, OpenPositions,
              RiskBookMatchesPositions, PositionLimits, ClosedIsEmpty
<1> QED BY <1>1, <1>2, <1>3 DEF OnPriceUpdate
-----------------------------------------------------------------------------
(* Each action keeps the invariant.                                        *)

LEMMA InitIInv == Init => IInv
<1> SUFFICES ASSUME Init PROVE IInv
  OBVIOUS
<1> USE DEF Init
<1>1. positions \in Seq(PositionType) /\ DOMAIN positions = {} /\ DOMAIN openRisk = {}
  OBVIOUS
<1>2. OpenPositions = {}
  BY <1>1 DEF OpenPositions
<1>3. TypeOK
  <2>1. InitialEquity \in Int
    BY AccountAssumption
  <2>2. equity \in Int /\ peak \in Int /\ dayStart \in Int
    BY <2>1
  <2>3. \A i \in DOMAIN openRisk : openRisk[i] \in Int
    BY <1>1
  <2>4. toMark \subseteq DOMAIN positions /\ DOMAIN openRisk \subseteq DOMAIN positions
    BY <1>1
  <2>5. /\ tradingEnabled \in BOOLEAN /\ aiOnly \in BOOLEAN /\ evaluated \in BOOLEAN
        /\ scenario \in Counts \cup {None} /\ lastFill \in FillType \cup {None}
        /\ candle \in Candles \cup {None} /\ phase = "idle" /\ marking = "adverse"
    BY AccountAssumption
  <2> HIDE DEF Init
  <2> QED BY <1>1, <2>2, <2>3, <2>4, <2>5 DEF TypeOK
<1>4. PositionLimits
  BY <1>2, FS_EmptySet, AccountAssumption DEF PositionLimits
<1> QED BY <1>1, <1>2, <1>3, <1>4 DEF IInv, RiskBookMatchesPositions, ClosedIsEmpty, MarksOpen

LEMMA InvGivesAccount == IInv => AccountOK
  BY DEF IInv, AccountOK, TypeOK

\* An account in order after a step, with the variables of the candle typed,
\* is IInv after it.
BarOK ==
    /\ DOMAIN openRisk \subseteq OpenPositions /\ toMark \subseteq OpenPositions
    /\ dayStart \in Int /\ aiOnly \in BOOLEAN /\ scenario \in Counts \cup {None} /\ evaluated \in BOOLEAN
    /\ phase \in {"idle", "marking", "deciding"} /\ candle \in Candles \cup {None}
    /\ (phase # "idle" => candle \in Candles) /\ marking \in {"adverse", "favourable"}
    /\ lastFill \in FillType \cup {None}

LEMMA AccountGivesInv ==
  ASSUME AccountOK', BarOK'
  PROVE  IInv'
<1>1. \A i \in OpenPositions' : positions'[i].risk \in Int /\ i \in DOMAIN positions'
  <2> TAKE i \in OpenPositions'
  <2>1. i \in DOMAIN positions' /\ positions'[i] \in PositionType
    BY DEF OpenPositions, AccountOK
  <2> QED BY <2>1, PositionFields
<1>2. \A i \in DOMAIN openRisk' : openRisk'[i] \in Int
  BY <1>1 DEF AccountOK, RiskBookMatchesPositions
<1>3. DOMAIN openRisk' \subseteq DOMAIN positions' /\ toMark' \subseteq DOMAIN positions'
  BY <1>1 DEF BarOK
<1>4. TypeOK'
  BY <1>2, <1>3 DEF TypeOK, AccountOK, BarOK
<1> QED BY <1>4 DEF IInv, AccountOK, MarksOpen, BarOK

\* A step that leaves the account alone.
LEMMA AccountUntouched ==
  ASSUME IInv, UNCHANGED account
  PROVE  /\ AccountOK' /\ OpenPositions' = OpenPositions /\ dayStart' \in Int
         /\ DOMAIN openRisk' \subseteq OpenPositions'
  BY DEF IInv, TypeOK, AccountOK, account, OpenPositions, RiskBookMatchesPositions,
         PositionLimits, ClosedIsEmpty

LEMMA StartCandleKeeps ==
  ASSUME IInv, NEW k \in Candles, StartCandle(k)
  PROVE  IInv'
<1>1. /\ AccountOK' /\ OpenPositions' = OpenPositions /\ dayStart' \in Int
      /\ DOMAIN openRisk' \subseteq OpenPositions'
  BY AccountUntouched DEF StartCandle
<1>2. /\ toMark' = OpenPositions /\ aiOnly' = aiOnly /\ scenario' = scenario /\ evaluated' = evaluated
      /\ phase' = "marking" /\ candle' = k /\ marking' = "adverse" /\ lastFill' = lastFill
  BY DEF StartCandle
<1>3. aiOnly \in BOOLEAN /\ scenario \in Counts \cup {None} /\ evaluated \in BOOLEAN /\ lastFill \in FillType \cup {None}
  BY DEF IInv, TypeOK
<1>4. BarOK'
  BY <1>1, <1>2, <1>3 DEF BarOK
<1> QED BY <1>1, <1>4, AccountGivesInv

LEMMA EndMarkingKeeps ==
  ASSUME IInv, EndMarking
  PROVE  IInv'
<1>1. /\ AccountOK' /\ OpenPositions' = OpenPositions /\ dayStart' \in Int
      /\ DOMAIN openRisk' \subseteq OpenPositions'
  BY AccountUntouched DEF EndMarking
<1>2. /\ UNCHANGED <<candle, toMark, marking, aiOnly, scenario, evaluated, lastFill>>
      /\ phase = "marking" /\ phase' = "deciding"
  BY DEF EndMarking
<1>3. BarOK'
  BY <1>1, <1>2 DEF BarOK, IInv, TypeOK, MarksOpen
<1> QED BY <1>1, <1>3, AccountGivesInv

LEMMA InstallCountKeeps ==
  ASSUME IInv, NEW c \in Counts \cup {None}, InstallCount(c)
  PROVE  IInv'
<1>1. /\ AccountOK' /\ OpenPositions' = OpenPositions /\ dayStart' \in Int
      /\ DOMAIN openRisk' \subseteq OpenPositions'
  BY AccountUntouched DEF InstallCount
<1>2. /\ UNCHANGED <<phase, candle, toMark, marking, aiOnly, lastFill>>
      /\ scenario' = c /\ evaluated' = FALSE
  BY DEF InstallCount, bar
<1>3. BarOK'
  BY <1>1, <1>2 DEF BarOK, IInv, TypeOK, MarksOpen
<1> QED BY <1>1, <1>3, AccountGivesInv

LEMMA MarkPositionKeeps ==
  ASSUME IInv, NEW i \in DOMAIN positions, MarkPosition(i)
  PROVE  IInv'
<1>1. /\ phase = "marking" /\ i \in toMark /\ i \in OpenPositions
      /\ UNCHANGED <<phase, candle, aiOnly, scenario, evaluated>>
  BY DEF MarkPosition, IInv, MarksOpen
<1>2. candle \in Candles /\ candle.low \in Nat /\ candle.high \in Nat
  BY <1>1, CandlesAssumption DEF IInv, TypeOK
<1>3. Adverse(positions[i], candle) \in Nat /\ Favourable(positions[i], candle) \in Nat
  BY <1>2 DEF Adverse, Favourable
<1>4. PICK price \in Nat : OnPriceUpdate(i, price)
  BY <1>3 DEF MarkPosition
<1>5. FillKeeps(i) /\ dayStart' = dayStart
  BY <1>1, <1>4, InvGivesAccount, OnPriceUpdateKeeps DEF IInv, TypeOK
<1>6. toMark' \subseteq OpenPositions' /\ marking' \in {"adverse", "favourable"}
  <2>1. CASE /\ marking = "adverse"
             /\ IF positions'[i].closed
                THEN toMark' = toMark \ {i} /\ UNCHANGED marking
                ELSE marking' = "favourable" /\ UNCHANGED toMark
    <3>1. CASE positions'[i].closed
      BY <2>1, <3>1, <1>5 DEF FillKeeps, IInv, MarksOpen
    <3>2. CASE ~positions'[i].closed
      <4>1. i \in OpenPositions'
        BY <3>2, <1>5 DEF OpenPositions, FillKeeps
      <4> QED BY <2>1, <3>2, <4>1, <1>5 DEF FillKeeps, IInv, MarksOpen
    <3> QED BY <3>1, <3>2
  <2>2. CASE toMark' = toMark \ {i} /\ marking' = "adverse"
    BY <2>2, <1>5 DEF FillKeeps, IInv, MarksOpen
  <2> QED BY <2>1, <2>2 DEF MarkPosition
<1>7. DOMAIN openRisk' \subseteq OpenPositions'
  BY <1>5 DEF FillKeeps, AccountOK, RiskBookMatchesPositions
<1>8. BarOK'
  BY <1>1, <1>2, <1>5, <1>6, <1>7 DEF BarOK, FillKeeps, IInv, TypeOK
<1> QED BY <1>5, <1>8, AccountGivesInv DEF FillKeeps

\* The account after a position was opened.
LEMMA OpenTradeKeeps ==
  ASSUME IInv, phase = "deciding", NEW c \in Counts, NEW b \in BOOLEAN, OpenTrade(c, b)
  PROVE  /\ AccountOK' /\ OpenPositions \subseteq OpenPositions'
         /\ DOMAIN openRisk' \subseteq OpenPositions'
         /\ dayStart' \in Int /\ lastFill' \in FillType
<1> DEFINE p == NewPosition(c)
           i == Len(positions) + 1
<1>1. /\ EntryConsidered(c) /\ EntryAccepted(c, b) /\ HasPlan(c)
      /\ Cardinality(DOMAIN openRisk) < MaxConcurrent
      /\ positions' = Append(positions, p)
      /\ openRisk' = [j \in DOMAIN openRisk \cup {i} |-> IF j = i THEN p.risk ELSE openRisk[j]]
      /\ lastFill' = FillRecord(i, "ENTRY", candle.close, candle.close, FALSE, 0)
      /\ UNCHANGED <<equity, peak, dayStart, tradingEnabled>>
  BY DEF OpenTrade, EntryConsidered, CanOpenTrade
<1>2. /\ equity \in Int /\ peak \in Int /\ dayStart \in Int /\ tradingEnabled \in BOOLEAN
      /\ candle \in Candles /\ positions \in Seq(PositionType)
  BY DEF IInv, TypeOK
<1>3. p \in PositionType /\ p.label = c.label /\ ~p.closed /\ p.quantity = Parts
  <2>1. p \in PositionType
    BY <1>1, <1>2, NewPositionTyped
  <2> QED BY <2>1 DEF NewPosition
<1>4. i \in Nat /\ DOMAIN positions = 1..Len(positions) /\ i \notin DOMAIN positions
  BY <1>2
<1> HIDE DEF p
<1>5. /\ positions' \in Seq(PositionType) /\ DOMAIN positions' = DOMAIN positions \cup {i}
      /\ positions'[i] = p /\ \A j \in DOMAIN positions : positions'[j] = positions[j]
  BY <1>1, <1>2, <1>3, <1>4
<1> HIDE DEF i
<1>6. OpenPositions' = OpenPositions \cup {i} /\ i \notin OpenPositions
  BY <1>3, <1>4, <1>5 DEF OpenPositions
<1>7. RiskBookMatchesPositions'
  <2>1. DOMAIN openRisk = OpenPositions /\ \A j \in OpenPositions : openRisk[j] = positions[j].risk
    BY DEF IInv, RiskBookMatchesPositions
  <2>2. DOMAIN openRisk' = OpenPositions'
    BY <1>1, <1>6, <2>1
  <2>3. ASSUME NEW j \in OpenPositions' PROVE openRisk'[j] = positions'[j].risk
    <3>1. CASE j = i
      BY <3>1, <1>1, <1>5
    <3>2. CASE j # i
      <4>1. j \in OpenPositions /\ j \in DOMAIN positions
        BY <3>2, <1>6 DEF OpenPositions
      <4> QED BY <3>2, <4>1, <1>1, <1>5, <2>1
    <3> QED BY <3>1, <3>2
  <2> QED BY <2>2, <2>3 DEF RiskBookMatchesPositions
<1>8. PositionLimits'
  <2>1. Cardinality(OpenPositions') <= MaxConcurrent
    <3>1. IsFiniteSet(OpenPositions) /\ Cardinality(OpenPositions) < MaxConcurrent
      BY <1>1, <1>2, OpenFinite DEF IInv, RiskBookMatchesPositions
    <3>2. Cardinality(OpenPositions') = Cardinality(OpenPositions) + 1
      BY <1>6, <3>1, FS_AddElement
    <3> QED BY <3>1, <3>2, FS_CardinalityType, AccountAssumption
  <2>2. ASSUME NEW j \in OpenPositions', NEW k \in OpenPositions',
               positions'[j].label = positions'[k].label
        PROVE  j = k
    <3>1. \A m \in OpenPositions : m \in DOMAIN positions /\ positions[m].label # p.label
      BY <1>1, <1>3 DEF EntryConsidered, OpenPositions
    <3> QED BY <2>2, <3>1, <1>5, <1>6 DEF IInv, PositionLimits
  <2> QED BY <2>1, <2>2 DEF PositionLimits
<1>9. ClosedIsEmpty'
  <2>1. \A j \in DOMAIN positions : positions[j].closed <=> positions[j].quantity = 0
    BY DEF IInv, ClosedIsEmpty
  <2> QED BY <2>1, <1>3, <1>5 DEF ClosedIsEmpty, Parts
<1>10. lastFill' \in FillType
  <2>1. candle.close \in Nat
    BY <1>2, CandlesAssumption
  <2>2. FillRecord(i, "ENTRY", candle.close, candle.close, FALSE, 0) \in FillType
    BY <2>1, <1>4 DEF FillRecord, FillType
  <2> QED BY <2>2, <1>1
<1> QED
  BY <1>1, <1>2, <1>5, <1>6, <1>7, <1>8, <1>9, <1>10 DEF AccountOK, RiskBookMatchesPositions

LEMMA MaybeOpenTradeKeeps ==
  ASSUME IInv, phase = "deciding", NEW c \in Counts, MaybeOpenTrade(c)
  PROVE  /\ AccountOK' /\ OpenPositions \subseteq OpenPositions'
         /\ DOMAIN openRisk' \subseteq OpenPositions'
         /\ dayStart' \in Int /\ lastFill' \in FillType \cup {None}
<1>1. PICK b \in BOOLEAN : OpenTrade(c, b) \/ NoTrade(c, b)
  BY DEF MaybeOpenTrade
<1>2. CASE OpenTrade(c, b)
  BY <1>2, OpenTradeKeeps
<1>3. CASE NoTrade(c, b)
  BY <1>3, AccountUntouched DEF NoTrade, IInv, TypeOK
<1> QED BY <1>1, <1>2, <1>3

LEMMA DecideKeeps ==
  ASSUME IInv, NEW pivot \in BOOLEAN, Decide(pivot)
  PROVE  IInv'
<1>1. /\ phase = "deciding" /\ phase' = "idle" /\ candle' = None
      /\ UNCHANGED <<toMark, marking, aiOnly, scenario>>
  BY DEF Decide
<1>2. /\ AccountOK' /\ OpenPositions \subseteq OpenPositions'
      /\ DOMAIN openRisk' \subseteq OpenPositions'
      /\ dayStart' \in Int /\ lastFill' \in FillType \cup {None} /\ evaluated' \in BOOLEAN
  <2>1. CASE \E c \in Counts : MaybeOpenTrade(c) /\ evaluated' \in BOOLEAN
    BY <1>1, <2>1, MaybeOpenTradeKeeps
  <2>2. CASE UNCHANGED <<account, lastFill>> /\ evaluated' \in BOOLEAN
    BY <2>2, AccountUntouched DEF IInv, TypeOK
  <2> QED BY <2>1, <2>2 DEF Decide, DecideOnOwnCount, DecideOnAiCount, IInv, TypeOK
<1>3. BarOK'
  BY <1>1, <1>2 DEF BarOK, IInv, TypeOK, MarksOpen
<1> QED BY <1>2, <1>3, AccountGivesInv

LEMMA NextKeeps == IInv /\ [Next]_vars => IInv'
<1> SUFFICES ASSUME IInv, [Next]_vars PROVE IInv'
  OBVIOUS
<1>1. ASSUME NEW k \in Candles, StartCandle(k) PROVE IInv'
  BY <1>1, StartCandleKeeps
<1>2. ASSUME NEW i \in DOMAIN positions, MarkPosition(i) PROVE IInv'
  BY <1>2, MarkPositionKeeps
<1>3. CASE EndMarking
  BY <1>3, EndMarkingKeeps
<1>4. ASSUME NEW pivot \in BOOLEAN, Decide(pivot) PROVE IInv'
  BY <1>4, DecideKeeps
<1>5. ASSUME NEW c \in Counts \cup {None}, InstallCount(c) PROVE IInv'
  BY <1>5, InstallCountKeeps
<1>6. CASE UNCHANGED vars
  BY <1>6 DEF vars, IInv, TypeOK, RiskBookMatchesPositions, PositionLimits, ClosedIsEmpty,
              MarksOpen, OpenPositions
<1> QED BY <1>1, <1>2, <1>3, <1>4, <1>5, <1>6 DEF Next

THEOREM Invariance == Spec => []IInv
  BY InitIInv, NextKeeps, PTL DEF Spec
-----------------------------------------------------------------------------
\* Whatever the counts, the candles, the limits and the costs: every
\* variable keeps its type, and no position is ever sized by a distance of
\* zero (the guard of position_size cannot raise).
THEOREM TypeCorrect == Spec => []TypeOK
<1>1. IInv => TypeOK
  BY DEF IInv
<1> QED BY <1>1, Invariance, PTL

\* register_trade_opened and register_trade_closed are called exactly when a
\* position opens and closes: the risk book and the position book agree
\* after every step of every behaviour.
THEOREM RiskBookAgrees == Spec => []RiskBookMatchesPositions
<1>1. IInv => RiskBookMatchesPositions
  BY DEF IInv
<1> QED BY <1>1, Invariance, PTL

\* can_open_trade together with the label test of _maybe_open_trade keeps
\* the open positions within the limit and apart by label, although neither
\* looks at the position book itself.
THEOREM LimitsHold == Spec => []PositionLimits
<1>1. IInv => PositionLimits
  BY DEF IInv
<1> QED BY <1>1, Invariance, PTL

\* Once _check_drawdown_limits has disabled trading, no step opens a
\* position or enables it again.
THEOREM HaltHolds == Spec => HaltIsFinal
<1> DEFINE A == ~tradingEnabled => ~tradingEnabled' /\ Len(positions') = Len(positions)
<1>1. ASSUME IInv, [Next]_vars PROVE [A]_vars
  <2> SUFFICES ASSUME ~tradingEnabled
               PROVE  ~tradingEnabled' /\ Len(positions') = Len(positions)
    OBVIOUS
  <2>1. ASSUME UNCHANGED account
        PROVE  ~tradingEnabled' /\ Len(positions') = Len(positions)
    BY <2>1 DEF account
  <2>2. ASSUME NEW i \in DOMAIN positions, MarkPosition(i)
        PROVE  ~tradingEnabled' /\ Len(positions') = Len(positions)
    <3>1. PICK price : OnPriceUpdate(i, price)
      BY <2>2 DEF MarkPosition
    <3>2. positions \in Seq(PositionType)
      BY <1>1 DEF IInv, TypeOK
    <3>3. ~tradingEnabled'
      BY <3>1 DEF OnPriceUpdate, CloseAtStop, FillLeg, NothingHit, RegisterTradeClosed
    <3>4. \/ positions' = positions
          \/ \E q : positions' = [positions EXCEPT ![i] = q]
      BY <3>1 DEF OnPriceUpdate, CloseAtStop, FillLeg, NothingHit
    <3> QED BY <3>2, <3>3, <3>4
  <2>3. ASSUME NEW c \in Counts, MaybeOpenTrade(c)
        PROVE  UNCHANGED account
    <3>1. PICK b \in BOOLEAN : OpenTrade(c, b) \/ NoTrade(c, b)
      BY <2>3 DEF MaybeOpenTrade
    <3>2. ~CanOpenTrade(c.label)
      BY DEF CanOpenTrade
    <3>3. OpenTrade(c, b) => CanOpenTrade(c.label)
      BY DEF OpenTrade
    <3> QED BY <3>1, <3>2, <3>3 DEF NoTrade
  <2>4. ASSUME NEW pivot \in BOOLEAN, Decide(pivot)
        PROVE  UNCHANGED account
    <3>1. scenario \in Counts \cup {None}
      BY <1>1 DEF IInv, TypeOK
    <3>2. (\E c \in Counts : MaybeOpenTrade(c)) \/ UNCHANGED <<account, lastFill>>
      BY <2>4, <3>1 DEF Decide, DecideOnOwnCount, DecideOnAiCount
    <3> QED BY <3>2, <2>3
  <2> QED
    BY <1>1, <2>1, <2>2, <2>4 DEF Next, StartCandle, EndMarking, InstallCount, vars, account
<1> QED BY <1>1, Invariance, PTL DEF Spec, HaltIsFinal
-----------------------------------------------------------------------------
(* The stop is looked at before anything else of a candle.                 *)

\* Position i is not stopped out by the candle being processed.
Clears(i) == ~StopHit(positions[i], Adverse(positions[i], candle))

\* Open positions that have seen the candle are clear of it, and so is the
\* one that is next to see its favourable extreme.
StopsSeen ==
    /\ phase = "marking" => \A i \in OpenPositions \ toMark : Clears(i)
    /\ phase = "marking" /\ marking = "favourable" =>
          \A i \in toMark : (\A j \in toMark : i <= j) => Clears(i)
    /\ NoPositionOutlivesItsStop

LEMMA StopStays ==
  ASSUME IInv, NEW i \in OpenPositions, NEW price, OnPriceUpdate(i, price)
  PROVE  /\ \A j \in DOMAIN positions \ {i} : positions'[j] = positions[j]
         /\ positions'[i].side = positions[i].side /\ positions'[i].stop = positions[i].stop
         /\ positions'[i].closed \/ ~StopHit(positions[i], price)
<1>1. i \in DOMAIN positions /\ positions \in Seq(PositionType) /\ positions[i] \in PositionType
  BY DEF IInv, TypeOK, OpenPositions
<1>2. CASE CloseAtStop(i, price)
  <2>1. PICK x : positions' = [positions EXCEPT ![i] = [positions[i] EXCEPT !.quantity = 0, !.closed = TRUE,
                                                                         !.realized = x]]
    BY <1>2 DEF CloseAtStop
  <2> QED BY <1>1, <2>1 DEF PositionType
<1>3. ASSUME NEW n \in DOMAIN positions[i].legs, FillLeg(i, n, price)
      PROVE  /\ \A j \in DOMAIN positions \ {i} : positions'[j] = positions[j]
             /\ positions'[i].side = positions[i].side /\ positions'[i].stop = positions[i].stop
             /\ ~StopHit(positions[i], price)
  <2>1. PICK left, x, legs, b :
           positions' = [positions EXCEPT ![i] = [positions[i] EXCEPT !.quantity = left, !.closed = b,
                                                                      !.realized = x, !.legs = legs]]
    BY <1>3 DEF FillLeg
  <2>2. ~StopHit(positions[i], price)
    BY <1>3 DEF FillLeg
  <2> QED BY <1>1, <2>1, <2>2 DEF PositionType
<1>4. CASE NothingHit(i, price)
  BY <1>4 DEF NothingHit
<1> QED BY <1>2, <1>3, <1>4 DEF OnPriceUpdate

\* What a position shows a candle does not depend on what is left of it.
LEMMA ClearsStays ==
  ASSUME NEW j, positions'[j].side = positions[j].side, positions'[j].stop = positions[j].stop,
         candle' = candle, Clears(j)
  PROVE  Clears(j)'
  BY DEF Clears, StopHit, Adverse

LEMMA MarkedClears ==
  ASSUME IInv, StopsSeen, NEW i \in DOMAIN positions, MarkPosition(i)
  PROVE  StopsSeen'
<1>1. /\ phase = "marking" /\ phase' = "marking" /\ candle' = candle
      /\ i \in toMark /\ \A j \in toMark : i <= j
      /\ i \in OpenPositions
  BY DEF MarkPosition, IInv, MarksOpen
<1>2. PICK price : OnPriceUpdate(i, price) /\ (marking = "adverse" => price = Adverse(positions[i], candle))
  BY DEF MarkPosition
<1>3. /\ \A j \in DOMAIN positions \ {i} : positions'[j] = positions[j]
      /\ positions'[i].side = positions[i].side /\ positions'[i].stop = positions[i].stop
      /\ positions'[i].closed \/ ~StopHit(positions[i], price)
  BY <1>1, <1>2, StopStays
<1>4. candle \in Candles /\ candle.low \in Nat /\ candle.high \in Nat
  BY <1>1, CandlesAssumption DEF IInv, TypeOK
<1>5. DOMAIN positions' = DOMAIN positions /\ OpenPositions' \subseteq OpenPositions
  <2>1. Adverse(positions[i], candle) \in Nat /\ Favourable(positions[i], candle) \in Nat
    BY <1>4 DEF Adverse, Favourable
  <2>2. PICK p \in Nat : OnPriceUpdate(i, p)
    BY <2>1 DEF MarkPosition
  <2> QED BY <1>1, <2>2, InvGivesAccount, OnPriceUpdateKeeps DEF FillKeeps, IInv, TypeOK
<1>6. ASSUME NEW j \in OpenPositions', j # i, Clears(j)
      PROVE  Clears(j)'
  <2>1. j \in DOMAIN positions \ {i}
    BY <1>5, <1>6 DEF OpenPositions
  <2> QED BY <1>1, <1>3, <1>6, <2>1, ClearsStays
<1>7. Clears(i) /\ i \in OpenPositions' => Clears(i)'
  BY <1>1, <1>3, ClearsStays
<1>8. i \in OpenPositions' => Clears(i)
  <2>1. CASE marking = "adverse"
    <3>1. i \in OpenPositions' => ~positions'[i].closed
      BY DEF OpenPositions
    <3> QED BY <1>2, <1>3, <2>1, <3>1 DEF Clears
  <2>2. CASE marking = "favourable"
    BY <1>1, <2>2 DEF StopsSeen
  <2> QED BY <2>1, <2>2 DEF MarkPosition
<1>9. \A j \in OpenPositions \ toMark : Clears(j)
  BY <1>1 DEF StopsSeen
<1>10. \/ toMark' = toMark \ {i} /\ marking' = "adverse"
       \/ toMark' = toMark /\ marking' = "favourable"
  BY DEF MarkPosition
<1>11. \A j \in OpenPositions' \ toMark' : Clears(j)'
  <2> TAKE j \in OpenPositions' \ toMark'
  <2>1. CASE j = i
    BY <1>7, <1>8, <2>1
  <2>2. CASE j # i
    <3>1. j \in OpenPositions \ toMark
      BY <1>5, <1>10, <2>2
    <3> QED BY <1>6, <1>9, <2>2, <3>1
  <2> QED BY <2>1, <2>2
<1>12. marking' = "favourable" => \A j \in toMark' : (\A k \in toMark' : j <= k) => Clears(j)'
  <2> SUFFICES ASSUME marking' = "favourable", NEW j \in toMark', \A k \in toMark' : j <= k
               PROVE  Clears(j)'
    OBVIOUS
  <2>1. toMark' = toMark /\ toMark \subseteq Nat
    <3>1. OpenPositions \subseteq Nat
      BY DEF IInv, TypeOK, OpenPositions
    <3> QED BY <1>10, <3>1 DEF IInv, MarksOpen
  <2>2. j <= i /\ i <= j /\ i \in Nat /\ j \in Nat
    BY <1>1, <2>1
  <2>3. j = i
    BY <2>2
  <2>4. i \in OpenPositions'
    <3>1. IInv'
      BY MarkPositionKeeps
    <3> QED BY <1>1, <2>1, <3>1 DEF IInv, MarksOpen
  <2> QED BY <1>7, <1>8, <2>3, <2>4
<1> QED BY <1>1, <1>11, <1>12 DEF StopsSeen, NoPositionOutlivesItsStop

\* Whatever a candle hits, no position is left open by it whose stop lies
\* inside it: the adverse extreme is looked at first, the stop before the
\* targets (_update_open_positions, on_price_update).
THEOREM StopsAreHonoured == Spec => []NoPositionOutlivesItsStop
<1>1. Init => StopsSeen
  BY DEF Init, StopsSeen, NoPositionOutlivesItsStop
<1>2. IInv /\ StopsSeen /\ [Next]_vars => StopsSeen'
  <2> SUFFICES ASSUME IInv, StopsSeen, [Next]_vars PROVE StopsSeen'
    OBVIOUS
  <2>1. ASSUME NEW k \in Candles, StartCandle(k) PROVE StopsSeen'
    BY <2>1 DEF StartCandle, account, StopsSeen, NoPositionOutlivesItsStop, OpenPositions
  <2>2. ASSUME NEW i \in DOMAIN positions, MarkPosition(i) PROVE StopsSeen'
    BY <2>2, MarkedClears
  <2>3. CASE EndMarking
    BY <2>3 DEF EndMarking, account, StopsSeen, NoPositionOutlivesItsStop, OpenPositions, Clears
  <2>4. ASSUME NEW pivot \in BOOLEAN, Decide(pivot) PROVE StopsSeen'
    BY <2>4 DEF Decide, StopsSeen, NoPositionOutlivesItsStop
  <2>5. ASSUME NEW c \in Counts \cup {None}, InstallCount(c) PROVE StopsSeen'
    BY <2>5 DEF InstallCount, account, bar, StopsSeen, NoPositionOutlivesItsStop, OpenPositions, Clears
  <2>6. CASE UNCHANGED vars
    BY <2>6 DEF vars, StopsSeen, NoPositionOutlivesItsStop, OpenPositions, Clears
  <2> QED BY <2>1, <2>2, <2>3, <2>4, <2>5, <2>6 DEF Next
<1>3. StopsSeen => NoPositionOutlivesItsStop
  BY DEF StopsSeen
<1> QED BY Invariance, <1>1, <1>2, <1>3, PTL DEF Spec
=============================================================================
