------------------------------ MODULE LeadFrames ------------------------------
(***************************************************************************)
(* One symbol's frame in the Lead Engine (lead_engine/state.py, health.py, *)
(* engine.py): request threads and the recorder ask for it, with or        *)
(* without `force`; one at a time computes it, the others wait and look    *)
(* again.  Times are ticks; a caller reads the clock before it waits.      *)
(***************************************************************************)
EXTENDS Integers, Sequences

CONSTANTS
    Readers, Forced,  \* who asks for a frame, and who of them passes force=True
    Interval,         \* recompute_interval_seconds
    BookLimit,        \* book_age_degraded_ms
    TradeDead,        \* trade_age_dead_ms
    TickerLimit,      \* max_ticker_age_seconds
    MaxTime           \* bound of the clock

VARIABLES
    now,        \* the clock
    last,       \* StreamHealth: when a book, a trade and a ticker last arrived, 0 for never
    synced,     \* StreamHealth: orderbook_synced
    frame,      \* _snapshot and _snapshot_at
    made,       \* the frames computed (history)
    reader,     \* where each caller is
    lock        \* the holder of _snapshot_lock

vars == <<now, last, synced, frame, made, reader, lock>>

Idle == [step |-> "idle"]
None == [at |-> -1, enabled |-> FALSE, book |-> 0]

-----------------------------------------------------------------------------
(* Health.                                                                 *)

\* on_orderbook, on_trade and on_ticker, as far as health reads them.
Arrive ==
    /\ \E topic \in DOMAIN last : last[topic] # now /\ last' = [last EXCEPT ![topic] = now]
    /\ synced' \in IF last'.book = last.book THEN {synced} ELSE BOOLEAN
    /\ UNCHANGED <<now, frame, made, reader, lock>>

\* _reset_books
ResetBook ==
    /\ synced /\ synced' = FALSE
    /\ UNCHANGED <<now, last, frame, made, reader, lock>>

\* assess: with a fresh book a quiet tape is no fault; a dead one is, and so
\* is an old ticker.  Nothing takes ws_connected back once a frame came.
Silent(topic, limit, at) == last[topic] > 0 /\ at - last[topic] > limit
SignalsEnabled(at) ==
    /\ synced /\ last.book > 0
    /\ ~Silent("book", BookLimit, at)
    /\ ~Silent("trade", TradeDead, at)
    /\ ~Silent("ticker", TickerLimit, at)

-----------------------------------------------------------------------------
(* The frame.                                                              *)

\* Faulty variant: a frame that is there is served.
HitOfAnyAge(r, asked) == r \notin Forced /\ frame # None
Hit(r, asked) == r \notin Forced /\ frame # None /\ asked - frame.at < Interval

\* Faulty variant: who waited for the lock computes.
NoSecondLook(r) == FALSE
StillHit(r) == Hit(r, reader[r].now)

Served(r, asked, f) == [reader EXCEPT ![r] = [step |-> "served", now |-> asked, frame |-> f]]

\* snapshot, the check before the lock.  Time passes between two callers.
Ask(r) ==
    /\ reader[r] = Idle /\ now < MaxTime
    /\ now' = now + 1
    /\ reader' = IF Hit(r, now) THEN Served(r, now, frame)
                 ELSE [reader EXCEPT ![r] = [step |-> "waiting", now |-> now]]
    /\ UNCHANGED <<last, synced, frame, made, lock>>

\* The lock, and the check under it.
Enter(r) ==
    /\ reader[r].step = "waiting" /\ lock = {}
    /\ IF StillHit(r)
       THEN reader' = Served(r, reader[r].now, frame) /\ UNCHANGED lock
       ELSE reader' = [reader EXCEPT ![r].step = "computing"] /\ lock' = {r}
    /\ UNCHANGED <<now, last, synced, frame, made>>

\* _compute_snapshot: the verdict for the time the caller came, and the frame.
Publish(r) ==
    /\ reader[r].step = "computing"
    /\ LET at == reader[r].now
           f == [at |-> at, enabled |-> SignalsEnabled(at), book |-> last.book]
       IN  /\ frame' = f /\ reader' = Served(r, at, f)
           /\ made' = Append(made, [at |-> at, forced |-> r \in Forced])
    /\ lock' = {}
    /\ UNCHANGED <<now, last, synced>>

Leave(r) ==
    /\ reader[r].step = "served"
    /\ reader' = [reader EXCEPT ![r] = Idle]
    /\ UNCHANGED <<now, last, synced, frame, made, lock>>

-----------------------------------------------------------------------------
(* The specification.                                                      *)

Init ==
    /\ now = 1 /\ last = [topic \in {"book", "trade", "ticker"} |-> 0] /\ synced = FALSE
    /\ frame = None /\ made = <<>> /\ reader = [r \in Readers |-> Idle] /\ lock = {}

Next == Arrive \/ ResetBook \/ \E r \in Readers : Ask(r) \/ Enter(r) \/ Publish(r) \/ Leave(r)

Spec == Init /\ [][Next]_vars

-----------------------------------------------------------------------------
(* Properties.                                                             *)

(* A tick is sampled once: callers without force share a frame for an
   interval, however they wait for the lock; only a forced frame, whose
   caller may have come earlier, lets them compute sooner
   (state.SymbolState.snapshot, the comment at _snapshot_lock).            *)
SampledOnce ==
    \A i, j \in DOMAIN made :
        i < j /\ (\A k \in i..j : ~made[k].forced) => made[j].at - made[i].at >= Interval

(* A frame that allows signals is recent, whether it was computed for this
   caller, by another one while this one waited, or before: its book had
   arrived no longer ago than the two limits together (assess, snapshot).  *)
ServedFrameIsFresh ==
    \A r \in Readers : reader[r].step = "served" /\ reader[r].frame.enabled =>
        reader[r].now - reader[r].frame.book < BookLimit + Interval
=============================================================================
