--------------------------- MODULE OrderLifecycle ---------------------------
(***************************************************************************)
(* What the execution simulator promises of each order, whatever the       *)
(* market does and however many orders one event moves: an order is sent,  *)
(* rests, is filled bit by bit and ends once, and nothing happens to it    *)
(* after its end.                                                          *)
(***************************************************************************)
EXTENDS Integers, Sequences

VARIABLE life    \* the orders of one trader, in the order they were sent

LifeInit == life = <<>>

\* An order is sent without fills; it may be refused before it leaves.
Sent(o) ==
    /\ o.taken = 0 /\ o.made = 0 /\ ~o.asked
    /\ o.stage = "sent" \/ o.stage = "refused"

\* Filled: what was taken and what was made, never more than was sent.
Filled(o) == o.taken + o.made
Kept(a, b) == b.qty = a.qty /\ b.postOnly = a.postOnly /\ b.market = a.market

\* An order in flight or at rest moves on.
Moves(a, b) ==
    /\ a.stage \in {"sent", "resting"} /\ Kept(a, b)
    /\ a.asked => b.asked
    /\ b.made >= a.made /\ b.taken >= a.taken /\ Filled(b) <= b.qty
    \* a resting order pays the maker's fee, one that must rest nothing else
    /\ a.stage = "resting" \/ b.postOnly => b.taken = a.taken
    /\ \/ b.stage \in {a.stage, "resting"} /\ Filled(b) < b.qty
       \/ b.stage = "done" /\ Filled(b) = b.qty
       \/ b.stage = "done" /\ b.market                      \* the rest does not happen
       \/ b.stage = "pulled" /\ Filled(b) < b.qty /\ a.asked   \* never without having asked
       \/ b.stage = "refused" /\ a.stage = "sent" /\ Filled(b) = 0

\* One event: every order stays or moves, and some are sent.
Event ==
    /\ Len(life') >= Len(life)
    /\ \A i \in DOMAIN life : life'[i] = life[i] \/ Moves(life[i], life'[i])
    /\ \A i \in DOMAIN life' \ DOMAIN life : Sent(life'[i])

LifeSpec == LifeInit /\ [][Event]_life
=============================================================================
