---------------------------- MODULE WaveAnalysis ----------------------------
(***************************************************************************)
(* The analysis half of backtest/engine.py BacktestEngine.process_candle:  *)
(* ZigZagPivotDetector, MarketStructureTracker, ScenarioEngine.rebuild     *)
(* with its confirmed chain, and _update_subwaves.  One step is one closed *)
(* candle.  A candle is [low, high]; its time is its index.                *)
(***************************************************************************)
EXTENDS WaveRules, Selections, FiniteSetsExt, SequencesExt

CONSTANTS Shapes,        \* the [low, high] a candle may have
          Deviation,     \* pivot_deviation_pct, in percent
          MinBreak,      \* structure_min_break_pct, in percent
          MinSubCandles, \* _MIN_CANDLES_FOR_SUBWAVES
          MaxCandles,    \* bound: candles of a behaviour
          MaxQuiet       \* bound: those of them that confirm no pivot

VARIABLES candles,   \* the history
          tracking,  \* ZigZagPivotDetector.tracking_type: 1, -1, or 0 for None
          high, low, \* the extreme candidates; only the tracked one is read
          pivots, trend, swing, \* swing[k]: the last pivot of kind k, or <<>>
          scenarios, chain,
          attempted, subwaves   \* keys <<label, start>> of chain waves
detector == <<tracking, high, low, pivots>>
structure == <<trend, swing>>
counts == <<scenarios, chain, attempted, subwaves>>
vars == <<candles, detector, structure, counts>>

Kinds == {1, -1}
Now == Len(candles)
-----------------------------------------------------------------------------
(* ZigZagPivotDetector.                                                    *)

Candidate(price, at) == [price |-> price, at |-> at]

\* The move from an extreme of kind k to the candle's far side, in percent.
Reversed(k, extreme, c) ==
    100 * (k * (extreme.price - (IF k = 1 THEN c.low ELSE c.high))) >= Deviation * extreme.price

PivotOf(k, extreme, at) ==
    [at |-> extreme.at, price |-> extreme.price, kind |-> k, confirmed |-> at]

\* What a candle does to the two candidates: a new extreme takes it over.
Higher(c, at) == IF c.high > high.price THEN Candidate(c.high, at) ELSE high
Lower(c, at) == IF c.low < low.price THEN Candidate(c.low, at) ELSE low

\* A candle confirms the tracked extreme if it does not extend it.
Confirms(k, c, at) ==
    /\ tracking \in {0, k}
    /\ IF k = 1 THEN Higher(c, at) = high /\ Reversed(1, high, c)
                ELSE Lower(c, at) = low /\ Reversed(-1, low, c)

\* Pivot confirmed: the other side is tracked from this candle on.
ConfirmPivot(k, c, at) ==
    /\ Confirms(k, c, at)
    /\ k = -1 => ~Confirms(1, c, at)
    /\ pivots' = Append(pivots, PivotOf(k, IF k = 1 THEN Higher(c, at) ELSE Lower(c, at), at))
    /\ tracking' = -k
    /\ high' = Candidate(c.high, at)
    /\ low' = Candidate(c.low, at)

\* update and _bootstrap without a pivot.
ExtendExtremes(c, at) ==
    /\ high' = IF at = 1 THEN Candidate(c.high, at) ELSE Higher(c, at)
    /\ low' = IF at = 1 THEN Candidate(c.low, at) ELSE Lower(c, at)
    /\ UNCHANGED <<tracking, pivots>>
-----------------------------------------------------------------------------
(* MarketStructureTracker.on_pivot.  BOS and CHoCH differ in the label of  *)
(* the event only: both leave the trend in the direction of the break.     *)

Breaks(p, old) ==
    /\ old # <<>>
    /\ p.kind * p.price > p.kind * old[1].price
    /\ 100 * Abs(p.price - old[1].price) >= MinBreak * old[1].price

NewSwing(p) == swing' = [swing EXCEPT ![p.kind] = <<p>>]

OnPivot(p) ==
    /\ trend' = IF Breaks(p, swing[p.kind]) THEN p.kind ELSE trend
    /\ NewSwing(p)
-----------------------------------------------------------------------------
(* ScenarioEngine.rebuild.                                                 *)

MaxScenarios == 3
StructureOrder == <<"impulse", "contracting", "expanding">>

\* The last three pivots a wave 1 in direction d may start from.
Anchors(ps, d) ==
    LET starts == {i \in 1..Len(ps) - 1 : ps[i].kind = -d}
        same == {i \in DOMAIN ps : ps[i].kind = -d}
    IN  {i \in starts : Cardinality({j \in same : j > i}) < MaxScenarios}

\* _score_candidate; order is the place in the unsorted list.
Candidates(ps, d) ==
    {LET built == Build(SubSeq(ps, x[1], Len(ps)), d, Canonical, StructureOrder[x[2]])
     IN  [waves |-> built.waves, structure |-> StructureOrder[x[2]], direction |-> d,
          order |-> 3 * x[1] + x[2], alive |-> ~built.broken,
          probability |-> IF built.broken THEN 0 ELSE Probability(built.waves)]
     : x \in Anchors(ps, d) \X (1..3)}

Outranks(s, t) ==
    s.probability > t.probability \/ (s.probability = t.probability /\ s.order < t.order)

\* Broken counts go, of equal geometries the best stays, and three survive.
Survivors(ps, d) ==
    LET alive == {s \in Candidates(ps, d) : s.alive}
        unique == {s \in alive : ~ \E t \in alive : t.waves = s.waves /\ Outranks(t, s)}
        above(s) == Cardinality({t \in unique : Outranks(t, s)})
    IN  [i \in 1..Least(MaxScenarios, Cardinality(unique)) |->
            CHOOSE s \in unique : above(s) = i - 1]

\* Faulty variant: the new reading is put on top of the old one.
Layered(old, completed) == old \o completed

\* _extend_confirmed_chain
Truncated(old, completed) ==
    Picked(old, {i \in DOMAIN old : old[i].to <= completed[1].from}) \o completed

Extended(old, survivors) ==
    IF survivors = <<>> THEN old
    ELSE LET completed == Front(survivors[1].waves)
         IN  IF completed = <<>> THEN old ELSE Truncated(old, completed)
-----------------------------------------------------------------------------
(* _update_subwaves: a wave new to the chain is subdivided once, if it is  *)
(* motive and long enough; whether a count is found is left open.          *)

Key(w) == <<w.label, w.from>>
Keys(waves) == {Key(w) : w \in ToSet(waves)}
Subdividable(w) == w.label \in {"1", "3", "5"} /\ w.to - w.from >= MinSubCandles

Pruned(newChain) == subwaves \cap Keys(newChain)

UpdateSubwaves(newChain) ==
    /\ attempted' = Keys(newChain)
    /\ \E found \in SUBSET {Key(w) : w \in {x \in ToSet(newChain) :
                                Subdividable(x) /\ Key(x) \notin attempted}} :
          subwaves' = Pruned(newChain) \cup found
-----------------------------------------------------------------------------
Init ==
    /\ candles = <<>> /\ tracking = 0 /\ pivots = <<>>
    /\ high = Candidate(0, 0) /\ low = Candidate(0, 0)
    /\ trend = 0 /\ swing = [k \in Kinds |-> <<>>]
    /\ scenarios = <<>> /\ chain = <<>> /\ attempted = {} /\ subwaves = {}

\* process_candle with a new pivot of kind k.
CandleConfirms(c, k) ==
    /\ Now \in 1..MaxCandles - 1
    /\ candles' = Append(candles, c)
    /\ ConfirmPivot(k, c, Now + 1)
    /\ OnPivot(Last(pivots'))
    /\ scenarios' = Survivors(pivots', IF trend' = 0 THEN 1 ELSE trend')
    /\ chain' = Extended(chain, scenarios')
    /\ UpdateSubwaves(chain')

\* process_candle without a pivot.
CandleExtends(c) ==
    /\ Now < MaxCandles /\ Now - Len(pivots) < MaxQuiet
    /\ Now > 0 => \A k \in Kinds : ~Confirms(k, c, Now + 1)
    /\ candles' = Append(candles, c)
    /\ ExtendExtremes(c, Now + 1)
    /\ UNCHANGED <<structure, counts>>

Next == \E c \in Shapes : CandleExtends(c) \/ \E k \in Kinds : CandleConfirms(c, k)

Spec == Init /\ [][Next]_vars
-----------------------------------------------------------------------------

\* Every point in time is covered by at most one wave of the confirmed
\* chain, and what the chain holds are legs between consecutive pivots
\* (scenario.py, confirmed_chain).
ChainIsOneReading ==
    /\ \A i \in 1..Len(chain) - 1 : chain[i].to <= chain[i + 1].from
    /\ \A i \in DOMAIN chain : \E j \in 2..Len(pivots) :
          pivots[j - 1].at = chain[i].from /\ pivots[j].at = chain[i].to

\* The rules of the theory, stated on the six prices of a motive wave.
Price(ws, i) == IF i = 0 THEN ws[1].start ELSE ws[i].end
Leg(ws, i) == Abs(Price(ws, i) - Price(ws, i - 1))
Legal(ws, d, structureType) ==
    /\ \A i \in 1..Least(Len(ws), 5) :
          LET move == d * (Price(ws, i) - Price(ws, i - 1))
          IN  IF i \in {1, 3, 5} THEN move > 0 ELSE move < 0
    /\ Len(ws) >= 2 => d * Price(ws, 2) > d * Price(ws, 0)
    /\ Len(ws) >= 4 /\ structureType = "impulse" => d * Price(ws, 4) > d * Price(ws, 1)
    /\ Len(ws) >= 5 /\ structureType = "impulse" => ~(Leg(ws, 3) < Leg(ws, 1) /\ Leg(ws, 3) < Leg(ws, 5))
    /\ Len(ws) >= 5 /\ structureType = "contracting" => Leg(ws, 1) > Leg(ws, 3) /\ Leg(ws, 3) > Leg(ws, 5)
    /\ Len(ws) >= 5 /\ structureType = "expanding" => Leg(ws, 1) < Leg(ws, 3) /\ Leg(ws, 3) < Leg(ws, 5)

\* A scenario of four waves or more is a legal count of its own structure: a
\* broken impulse is not kept under another name, and a correction follows
\* only a motive wave that passed its rules (build_candidate_waves).
ScenariosAreLegal ==
    \A i \in DOMAIN scenarios :
        LET s == scenarios[i]
        IN  Len(s.waves) >= 4 => Legal(s.waves, s.direction, s.structure)
=============================================================================
