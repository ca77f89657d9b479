------------------------------- MODULE Research -------------------------------
(***************************************************************************)
(* Research: the queue of its jobs, and what one of them runs, a strategy  *)
(* on an event stream.  The queue knows no more of a job than that it ends *)
(* or dies, so a behaviour of this module is one of the queue or one of a  *)
(* runner, while the other rests: TLC checks both in one run.              *)
(***************************************************************************)
EXTENDS ResearchQueue, Sequences

CONSTANTS
    Strategies, Books, Trades, Views, Steps, Lags, StaleBook, GapLimit, Rewarm,   \* of ResearchTrading
    MinSamples, Qty, PassiveTtl, MaxHold, StopPermille, MaxExtension,
    MaxNotional, MaxDailyLoss, MaxDrawdown, Scale, MaxOrders, MaxTime,
    SendDelay, AckDelay, CancelDelay, Participation, QueueFactor, CancelHelps,    \* of OrderExecution
    MinNotional, TakerFee, MakerFee

VARIABLES
    part,                            \* the part that runs
    strategy, clock, feed, desk      \* of ResearchTrading

Trading == INSTANCE ResearchTrading

ASSUME ExecutionAssumption ==
    /\ SendDelay \in Nat /\ AckDelay \in Nat /\ CancelDelay \in Nat
    /\ Participation \in Nat \ {0} /\ QueueFactor \in 0..100 /\ CancelHelps \in BOOLEAN
    /\ MinNotional \in Nat /\ TakerFee \in Nat /\ MakerFee \in Nat

ASSUME TradingAssumption ==
    /\ Strategies \subseteq Trading!StrategyNames /\ Views \subseteq Trading!ViewSet
    /\ \A b \in Books : b.bids \in Seq(Trading!Level2) /\ b.asks \in Seq(Trading!Level2)
    /\ \A tr \in Trades : tr.price \in Nat /\ tr.size \in Nat /\ tr.side \in Trading!Sides
    /\ Steps \subseteq Nat \ {0} /\ Lags \subseteq Nat
    /\ StaleBook \in Nat /\ GapLimit \in Nat /\ Rewarm \in Nat /\ MinSamples \in Nat
    /\ Qty \in Nat /\ PassiveTtl \in Nat /\ MaxHold \in Nat /\ StopPermille \in Nat
    /\ MaxExtension \in Nat /\ MaxNotional \in Nat /\ MaxDailyLoss \in Nat
    /\ MaxDrawdown \in Nat /\ Scale \in Nat \ {0} /\ MaxOrders \in Nat /\ MaxTime \in Nat

runnerVars == <<strategy, clock, feed, desk>>

ResearchInit ==
    /\ Init
    /\ \/ part = "queue" /\ strategy = (CHOOSE s \in Strategies : TRUE) /\ Trading!Init
       \/ part = "runner" /\ Trading!Init

ResearchNext ==
    /\ part' = part
    /\ \/ part = "queue" /\ Next /\ UNCHANGED runnerVars
       \/ part = "runner" /\ Trading!Next /\ UNCHANGED vars

ResearchSpec ==
    /\ ResearchInit /\ [][ResearchNext]_<<part, vars, runnerVars>>
    /\ part = "queue" => Fairness

-----------------------------------------------------------------------------
(* What the run feeds the runner: two books a tick apart, one of them      *)
(* thin, and one without bids; trades at and through the touch.            *)

L(price, size) == [price |-> price, size |-> size]
FewBooks == {[bids |-> <<L(10, 2)>>, asks |-> <<L(11, 2), L(12, 4)>>],
            [bids |-> <<L(9, 4)>>,  asks |-> <<L(10, 4)>>],
            [bids |-> <<>>,         asks |-> <<L(11, 2)>>]}
FewTrades == {[price |-> 10, size |-> 3, side |-> "sell"],
             [price |-> 8, size |-> 1, side |-> "sell"],
             [price |-> 12, size |-> 1, side |-> "buy"]}
V(calm, side, passive, burst) ==
    [calm |-> calm, side |-> side, passive |-> passive, burst |-> burst]
FewViews == {V(TRUE, "buy", TRUE, FALSE), V(TRUE, "sell", FALSE, FALSE),
            V(FALSE, "buy", FALSE, TRUE)}
-----------------------------------------------------------------------------
(* The properties of the parts, each of which is stated and argued for in  *)
(* its own module; the queue is fair only while it runs.                   *)

\* Every job that was enqueued ends (ResearchQueue).
JobsEnd == part = "queue" => EveryJobEnds
\* A fill is booked once (ResearchTrading).
BookedOnce == Trading!BookedOnce
\* The simulator moves an order only forward (OrderLifecycle).
Simulator == Trading!Simulator
\* An entry is sent on good data only (ResearchTrading).
EntriesOnGoodData == Trading!EntriesOnGoodData
=============================================================================
