---------------------------- MODULE PaperTrader -----------------------------
(***************************************************************************)
(* research/paper.py: the traders a server process runs on the live feed,  *)
(* the journal they keep in storage, and restarts.  What a trader's runner *)
(* does with a frame is ResearchTrading's; here it may close a trade.      *)
(***************************************************************************)
EXTENDS Selections, SequencesExt

CONSTANTS
    Traders,          \* strategies run on one symbol
    Warmup,           \* WARMUP_MS, in seconds
    LoadLimit,        \* the limit of _load_trades
    MaxBoots, MaxTrades, MaxTime   \* bounds

VARIABLES
    now,       \* seconds
    boot,      \* which process this is
    trader,    \* what the process knows, per trader
    table,     \* research_paper_trades: rows, oldest exit first
    closed     \* history: every trade ever closed, in that order

vars == <<now, boot, trader, table, closed>>

\* A trader of a process that has not started it yet.
Absent == [state |-> "STOPPED", session |-> 0, journal |-> <<>>, persisted |-> {},
           firstAt |-> 0, failures |-> 0]
Up(tr) == trader[tr].state # "STOPPED"

\* A closed trade is known by its trader, its process and its number there; what
\* storage knows it by is the session and the number: the trade_id of a row.
Row(tr, n) == [owner |-> tr, boot |-> boot, session |-> trader[tr].session, n |-> n]
SameKey(r, s) == r.session = s.session /\ r.n = s.n

\* Trades this process has closed for tr, and those it holds as written.
OwnTrades(tr) == {r \in Range(closed) : r.owner = tr /\ r.boot = boot}

\* insert with on_conflict: a row with the key of another takes its place.
Upserted(rows, new) ==
    [i \in DOMAIN rows |->
        IF \E r \in Range(new) : SameKey(r, rows[i])
        THEN CHOOSE r \in Range(new) : SameKey(r, rows[i]) ELSE rows[i]]
    \o Picked(new, {i \in DOMAIN new : ~\E s \in Range(rows) : SameKey(new[i], s)})
-----------------------------------------------------------------------------
(* start and _recover.  A session is named by the second it begins in, and  *)
(* the loop that starts every strategy begins several in one.              *)

Start(tr, loads) ==
    /\ ~Up(tr)
    /\ LET rows == SubSeq(table, 1, IF Len(table) < LoadLimit THEN Len(table) ELSE LoadLimit)
       IN  trader' = [trader EXCEPT ![tr] =
              IF loads
              THEN [Absent EXCEPT !.state = "RECOVERING", !.session = now,
                                  !.journal = rows, !.persisted = Range(rows)]
              ELSE [Absent EXCEPT !.state = "STORAGE_DEGRADED", !.session = now, !.failures = 1]]
    /\ UNCHANGED <<now, boot, table, closed>>
-----------------------------------------------------------------------------
(* A frame of the feed (_handle).                                          *)

\* _advance_state.
Advanced(t, good) ==
    IF t.state = "STORAGE_DEGRADED" THEN t.state
    ELSE IF now - t.firstAt < Warmup THEN "RECOVERING"
    ELSE IF ~good THEN "FEED_STALE" ELSE "RUNNING"

\* _flush_journal: the rows go out together; an answer may be lost after they
\* were written, and then the trader does not know.
Pending(t) == Picked(t.journal, {i \in DOMAIN t.journal : t.journal[i] \notin t.persisted})

\* Faulty variant: rows count as written when they are sent.
FlushedOnSend(t, answer) ==
    [t EXCEPT !.persisted = @ \cup Range(Pending(t)),
              !.failures = IF answer = "ok" THEN @ ELSE @ + 1,
              !.state = IF answer = "ok" THEN @ ELSE "STORAGE_DEGRADED"]

Flushed(t, answer) ==
    IF answer = "ok" THEN [t EXCEPT !.persisted = @ \cup Range(Pending(t))]
    ELSE [t EXCEPT !.failures = IF @ < 2 THEN @ + 1 ELSE @, !.state = "STORAGE_DEGRADED"]

\* The trade the runner closes with this frame, if any.
Closing(tr, closes) ==
    IF closes THEN <<Row(tr, Cardinality(OwnTrades(tr)) + 1)>> ELSE <<>>

Frame(tr, good, closes, answer) ==
    /\ Up(tr)
    /\ closes => Cardinality(OwnTrades(tr)) < MaxTrades
    /\ LET new == Closing(tr, closes)
           seen == [trader[tr] EXCEPT !.journal = @ \o new,
                                      !.firstAt = IF @ = 0 THEN now ELSE @]
       IN  \E t \in {[seen EXCEPT !.state = Advanced(seen, good)]} :
              /\ closed' = closed \o new
              /\ trader' = [trader EXCEPT ![tr] =
                                IF Pending(t) = <<>> THEN t ELSE Flushed(t, answer)]
              /\ table' = IF answer = "fail" THEN table ELSE Upserted(table, Pending(t))
    /\ UNCHANGED <<now, boot>>

\* The runner raises after closing: observe swallows it, nothing else is done.
FrameRaises(tr) ==
    /\ Up(tr)
    /\ Cardinality(OwnTrades(tr)) < MaxTrades
    /\ closed' = closed \o Closing(tr, TRUE)
    /\ trader' = [trader EXCEPT ![tr].journal = @ \o Closing(tr, TRUE),
                                ![tr].firstAt = IF @ = 0 THEN now ELSE @]
    /\ UNCHANGED <<now, boot, table>>

\* The process is stopped and started again; what it held is gone.
Restart ==
    /\ boot < MaxBoots
    /\ boot' = boot + 1
    /\ trader' = [tr \in Traders |-> Absent]
    /\ UNCHANGED <<now, table, closed>>

Tick == now < MaxTime /\ now' = now + 1 /\ UNCHANGED <<boot, trader, table, closed>>

Init ==
    /\ now = 1 /\ boot = 1
    /\ trader = [tr \in Traders |-> Absent]
    /\ table = <<>> /\ closed = <<>>

Next ==
    \/ \E tr \in Traders, loads \in BOOLEAN : Start(tr, loads)
    \/ \E tr \in Traders, good, closes \in BOOLEAN, answer \in {"ok", "lost", "fail"} :
           Frame(tr, good, closes, answer)
    \/ \E tr \in Traders : FrameRaises(tr)
    \/ Restart
    \/ Tick

\* Frames keep coming while a trader runs, and storage that is asked again and
\* again answers at last.
Fairness == \A tr \in Traders : SF_vars(Frame(tr, TRUE, FALSE, "ok"))
Spec == Init /\ [][Next]_vars /\ Fairness
-----------------------------------------------------------------------------
(* Properties.                                                             *)

\* What a trader holds as written was written: it is in the table, or a trade of
\* another session, begun in the same second, has taken its place there under the
\* same id.  The table tells of an id once, and a journal of every trade once,
\* restored or its own.
OtherRun(r, s) == r.owner # s.owner \/ r.boot # s.boot
Written(r) == \E s \in Range(table) : s = r \/ (SameKey(r, s) /\ OtherRun(r, s))
JournalIsTrue ==
    /\ \A i, j \in DOMAIN table : SameKey(table[i], table[j]) => i = j
    /\ \A tr \in Traders :
           /\ \A r \in trader[tr].persisted : Written(r)
           /\ \A i, j \in DOMAIN trader[tr].journal :
                  i # j => trader[tr].journal[i] # trader[tr].journal[j]

\* What a live trader has closed is filed at last, unless its process ends: again
\* and again there is nothing that it has not written, or holds for written wrongly.
ClosedTradesAreFiled ==
    \A tr \in Traders :
        []<>(\A r \in OwnTrades(tr) : r \in trader[tr].persisted /\ Written(r))
=============================================================================
