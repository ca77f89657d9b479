------------------------------ MODULE BookWalls ------------------------------
(***************************************************************************)
(* What the Lead Engine makes of the changes of one order book             *)
(* (lead_engine/orderbook_engine.py and SymbolState.on_trade): what was    *)
(* added, executed and pulled on each side, and the walls.  The exchange   *)
(* is external: it sends book changes and prints on two topics, which      *)
(* arrive apart, and puts the changes of a while into one delta.           *)
(*                                                                         *)
(* A book is [bid, ask], each a size for every price; a size of 0 is no    *)
(* level.  The clock of the walls is the number of steps of the exchange.  *)
(* The flow window holds a whole run.                                      *)
(***************************************************************************)
EXTENDS Integers, Sequences, SequencesExt

CONSTANTS
    Prices, MaxSize, Lots,   \* the levels of the exchange's book, and what is added or taken
    Books,                   \* the books it may start with
    WallMultiple,            \* wall_multiple, in halves
    MaxSteps, MaxResyncs     \* bounds

VARIABLES
    market,     \* the exchange's book after each of its steps
    steps,      \* its steps: who did what at which level
    wire,       \* how many of its changes and of its prints were delivered
    book,       \* OrderBook.bids and .asks
    pending,    \* _pending_exec
    flow,       \* _flows, summed: added, removed and executed
    walls,      \* _walls
    spoofs,     \* _spoofs, with the step they were counted at
    resyncs, crossing   \* snapshots, and whether one separated prints from their change (history)

vars == <<market, steps, wire, book, pending, flow, walls, spoofs, resyncs, crossing>>

Sides == {"bid", "ask"}
Other(side) == IF side = "bid" THEN "ask" ELSE "bid"
LevelsOf(side, b) == {p \in Prices : b[side][p] > 0}
Highest(set) == CHOOSE p \in set : \A q \in set : q <= p
Lowest(set) == CHOOSE p \in set : \A q \in set : q >= p
Best(side, b) == IF side = "bid" THEN Highest(LevelsOf(side, b)) ELSE Lowest(LevelsOf(side, b))
Crossed(b) ==
    /\ \A side \in Sides : LevelsOf(side, b) # {}
    /\ Best("bid", b) >= Best("ask", b)

-----------------------------------------------------------------------------
(* The exchange.                                                           *)

Now == Last(market)
Step(kind, side, price, size) == [kind |-> kind, side |-> side, price |-> price, size |-> size]
Happens(step, size) ==
    /\ Len(steps) < MaxSteps
    /\ ~Crossed([Now EXCEPT ![step.side][step.price] = size])
    /\ market' = Append(market, [Now EXCEPT ![step.side][step.price] = size])
    /\ steps' = Append(steps, step)
    /\ UNCHANGED <<wire, book, pending, flow, walls, spoofs, resyncs, crossing>>

\* An order is added, or withdrawn.
Quote ==
    \E side \in Sides, p \in Prices, n \in Lots :
        \/ Now[side][p] + n <= MaxSize /\ Happens(Step("add", side, p, n), Now[side][p] + n)
        \/ Now[side][p] >= n /\ Happens(Step("pull", side, p, n), Now[side][p] - n)

\* A taker trades with the best level of a side.
Fill ==
    \E side \in Sides, n \in Lots :
        /\ LevelsOf(side, Now) # {} /\ Now[side][Best(side, Now)] >= n
        /\ Happens(Step("fill", side, Best(side, Now), n), Now[side][Best(side, Now)] - n)

-----------------------------------------------------------------------------
(* The walls.                                                              *)

Wall(key, size, at) ==
    [side |-> key[1], price |-> key[2], size |-> size, initial |-> size, first |-> at,
     reductions |-> 0, replenishments |-> 0, executed |-> 0, reached |-> FALSE]

\* Wall.observe
Observed(wall, size) ==
    LET cut == 5 * size < 4 * wall.size
        rebuilt == ~cut /\ 5 * size > 6 * wall.size /\ wall.reductions > 0
    IN  [wall EXCEPT !.size = size, !.reductions = IF cut THEN @ + 1 ELSE @,
                     !.replenishments = IF rebuilt THEN @ + 1 ELSE @]

\* _median_level_size, doubled.
TwiceMedian(b) ==
    LET levels == {l \in Sides \X Prices : b[l[1]][l[2]] > 0}
        sizes == SortSeq(SetToSeq({<<l, b[l[1]][l[2]]>> : l \in levels}), LAMBDA x, y : x[2] < y[2])
        n == Len(sizes)
    IN  IF n = 0 THEN 0
        ELSE IF n % 2 = 1 THEN 2 * sizes[n \div 2 + 1][2]
        ELSE sizes[n \div 2][2] + sizes[n \div 2 + 1][2]

IsWall(b, key) ==
    /\ b[key[1]][key[2]] > 0
    /\ 4 * b[key[1]][key[2]] >= WallMultiple * TwiceMedian(b)

\* The walls of book b.
Live(b, at) ==
    [key \in {k \in Sides \X Prices : IsWall(b, k)} |->
        IF key \in DOMAIN walls THEN Observed(walls[key], b[key[1]][key[2]])
        ELSE Wall(key, b[key[1]][key[2]], at)]

\* _touch_walls: the offer has come down to a bid wall, or the bid up to an ask wall.
Reached(wall, b) ==
    LET facing == LevelsOf(Other(wall.side), b)
    IN  \/ wall.reached
        \/ /\ facing # {}
           /\ IF wall.side = "bid" THEN Lowest(facing) <= wall.price ELSE Highest(facing) >= wall.price

\* _price_reached
PriceReached(wall, b) == Reached(wall, b) \/ wall.executed > 0

\* What _track_walls counts as withdrawn when book b is there
\* and its walls are `live`.
Vanished(live, b) ==
    {walls[key] : key \in {k \in DOMAIN walls \ DOMAIN live : ~PriceReached(walls[k], b)}}
Track(live, b, at) ==
    /\ walls' = [key \in DOMAIN live |->
                    [live[key] EXCEPT !.reached = key \in DOMAIN walls /\ Reached(walls[key], b)]]
    /\ spoofs' = spoofs \cup {[wall |-> w, at |-> at] : w \in Vanished(live, b)}

-----------------------------------------------------------------------------
(* The two topics.                                                         *)

\* _diff: the units by which the levels of a side grew.
Grew(side, old, new) ==
    Cardinality({u \in Prices \X (1..MaxSize) : old[side][u[1]] < u[2] /\ u[2] <= new[side][u[1]]})

\* _apply_delta, with every change up to the m-th, and _record_flow.
Delta(m) ==
    /\ m \in wire.book + 1..Len(steps)
    /\ LET b == market[m + 1]
       IN  /\ book' = b
           /\ flow' = [side \in Sides |->
                        [added |-> flow[side].added + Grew(side, book, b),
                         removed |-> flow[side].removed + Grew(side, b, book),
                         executed |-> flow[side].executed + pending[side]]]
           /\ Track(Live(b, m), b, m)
    /\ pending' = [side \in Sides |-> 0]
    /\ wire' = [wire EXCEPT !.book = m]
    /\ UNCHANGED <<market, steps, resyncs, crossing>>

Fills == {i \in DOMAIN steps : steps[i].kind = "fill"}
Printed(n) == \A i \in Fills : i <= wire.trade <=> i <= n

\* Faulty variant: the taker's side is taken for the side that was hit.
ConsumedBy(step) == Other(step.side)
\* A taker Buy consumes the ask side: the side of the order that was filled.
Consumed(step) == step.side

\* note_trade: the walls at the price of the print are traded.
Execution ==
    /\ \E i \in Fills : i > wire.trade
    /\ LET i == Lowest({j \in Fills : j > wire.trade})
           hits(key) == key[1] = Consumed(steps[i]) /\ key[2] = steps[i].price
       IN  /\ pending' = [pending EXCEPT ![Consumed(steps[i])] = @ + steps[i].size]
           /\ walls' = [key \in DOMAIN walls |->
                           IF hits(key) THEN [walls[key] EXCEPT !.executed = @ + steps[i].size, !.reached = TRUE]
                           ELSE walls[key]]
           /\ wire' = [wire EXCEPT !.trade = i]
    /\ UNCHANGED <<market, steps, book, flow, spoofs, resyncs, crossing>>

\* reset and _apply_snapshot: the flows stay, the walls are found anew.
Resync ==
    /\ resyncs < MaxResyncs
    /\ resyncs' = resyncs + 1
    /\ LET b == Now
       IN  /\ book' = b
           /\ walls' = [key \in {k \in Sides \X Prices : IsWall(b, k)} |->
                            Wall(key, b[key[1]][key[2]], Len(steps))]
    /\ pending' = [side \in Sides |-> 0]
    /\ crossing' = (crossing \/ ~Printed(Len(steps)) \/ pending # [side \in Sides |-> 0])
    /\ wire' = [wire EXCEPT !.book = Len(steps)]
    /\ UNCHANGED <<market, steps, flow, spoofs>>

-----------------------------------------------------------------------------
(* The specification.                                                      *)

Init ==
    /\ market \in {<<b>> : b \in Books}
    /\ steps = <<>> /\ wire = [book |-> 0, trade |-> 0]
    /\ book = market[1] /\ pending = [side \in Sides |-> 0]
    /\ flow = [side \in Sides |-> [added |-> 0, removed |-> 0, executed |-> 0]]
    /\ walls = [key \in {k \in Sides \X Prices : IsWall(market[1], k)} |-> Wall(key, market[1][key[1]][key[2]], 0)]
    /\ spoofs = {} /\ resyncs = 0 /\ crossing = FALSE

Next == Quote \/ Fill \/ (\E m \in 1..MaxSteps : Delta(m)) \/ Execution \/ Resync

Spec == Init /\ [][Next]_vars

-----------------------------------------------------------------------------
(* Properties.                                                             *)

Cancelled(side) == IF flow[side].removed > flow[side].executed THEN flow[side].removed - flow[side].executed ELSE 0
Units(kinds, side, n) ==
    {u \in (1..n) \X (1..MaxSize) :
        steps[u[1]].kind \in kinds /\ steps[u[1]].side = side /\ u[2] <= steps[u[1]].size}
Pulled(side) == Cardinality(Units({"pull"}, side, wire.book))

(* Trading is not read as pulling: once the prints and their changes have
   both arrived, in whatever order, no more counts as cancelled than was
   withdrawn; unless a new snapshot came between a print and its change
   (note_trade, LevelFlow.cancelled).                                      *)
PullsAreReal ==
    Printed(wire.book) /\ pending = [side \in Sides |-> 0] /\ ~crossing =>
        \A side \in Sides : Cancelled(side) <= Pulled(side)
=============================================================================
