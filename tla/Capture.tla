------------------------------- MODULE Capture -------------------------------
(***************************************************************************)
(* research/capture.py: the recorder that taps the frames of the lead      *)
(* engine (engine.py, handle_message) into bounded segments, and           *)
(* research/dataset.py with book.py, which replay them.  One symbol.  The  *)
(* exchange's update u changes level u % 2, as in BookFeed; a level holds  *)
(* the update that last changed it.                                        *)
(*                                                                         *)
(* Not here: exchange restarts, which the recorder and the replay do not   *)
(* know (a delta of id 1), and a second process on the same table.         *)
(***************************************************************************)
EXTENDS Integers, Sequences, SequencesExt, Selections

CONSTANTS
    BufferLimit,   \* BUFFER_LIMIT
    Budget,        \* budget_bytes, in frames
    MaxUpdates, MaxLost, MaxTrades, MaxSeeds, MaxRows   \* bounds

VARIABLES
    exchange,   \* its last update and how many updates were lost on the way
    book,       \* the engine's OrderBook
    frame,      \* <<>>, or the frame the ingest thread has tapped but not applied
    recorder,   \* CaptureRecorder
    tape,       \* number of the last trade the recorder has been shown
    thread,     \* what the recorder's own thread is doing
    table,      \* the rows of research_captures, in the order of seq
    seeds,      \* how many snapshots were seeded
    newest,     \* the last update that has left its window
    spoilt      \* the last recorded snapshot was older than that

vars == <<exchange, book, frame, recorder, tape, thread, table, seeds, newest, spoilt>>

Levels == {0, 1}
Highest(S) == CHOOSE n \in S : \A m \in S : m <= n
BookAt(u) == [l \in Levels |-> Highest({0} \cup {v \in 1..u : v % 2 = l})]

\* The levels f names, over those of g.
Over(f, g) == [l \in DOMAIN f \cup DOMAIN g |-> IF l \in DOMAIN f THEN f[l] ELSE g[l]]

Frame(kind, u, levels) == [kind |-> kind, u |-> u, levels |-> levels]
Delta(u) == Frame("delta", u, [l \in {u % 2} |-> u])
Snapshot(u) == Frame("snapshot", u, BookAt(u))
Trade(n) == Frame("trade", n, <<>>)

Idle == [doing |-> "nothing", seed |-> <<>>, row |-> <<>>]
-----------------------------------------------------------------------------
(* The tap.  pending is the delta being merged, a sequence of at most one. *)

\* Faulty variant: the first word of a window stands.
MergedFirst(p, f) == Frame(p.kind, f.u, Over(p.levels, f.levels))

\* A delta says what a price holds now: the last word of the window stands.
Merged(p, f) == Frame(p.kind, f.u, Over(f.levels, p.levels))

\* _coalesce: what is ready to be buffered, and what is pending then.  rolls: the
\* frame belongs to another COALESCE_BOOK_MS window than the pending one.
Coalesced(pending, f, rolls) ==
    IF f.kind = "trade" THEN [ready |-> <<f>>, pending |-> pending]
    ELSE IF f.kind = "snapshot" THEN [ready |-> Append(pending, f), pending |-> <<>>]
    ELSE IF pending = <<>> \/ rolls THEN [ready |-> pending, pending |-> <<f>>]
    ELSE [ready |-> <<>>, pending |-> <<Merged(pending[1], f)>>]

\* How many frames too many the buffer has with some more.
Excess(r, frames) == Highest({0, Len(r.buffer) + Len(frames) - BufferLimit})

\* Faulty variant: a full buffer turns the new frames away.
BufferedIfRoom(r, frames) ==
    [r EXCEPT !.buffer = SubSeq(@ \o frames, 1, Len(@) + Len(frames) - Excess(r, frames))]

\* _append, frame by frame: a full buffer drops its oldest frames and counts them.
Buffered(r, frames) ==
    [r EXCEPT !.buffer = SubSeq(@ \o frames, Excess(r, frames) + 1, Len(@) + Len(frames)),
              !.dropped = @ + Excess(r, frames)]

Observed(r, f, rolls) ==
    LET c == Coalesced(r.pending, f, rolls)
    IN  IF r.state # "RECORDING" THEN r
        ELSE [Buffered(r, c.ready) EXCEPT !.pending = c.pending]

\* newest is kept for the properties only.
Record(r, frames) ==
    /\ recorder' = r
    /\ newest' = Highest({newest} \cup
                         {frames[i].u : i \in {j \in DOMAIN frames : frames[j].kind # "trade"}})

Observe(f) ==
    \E rolls \in BOOLEAN :
        Record(Observed(recorder, f, rolls), Coalesced(recorder.pending, f, rolls).ready)
-----------------------------------------------------------------------------
(* The ingest thread: a frame is tapped first and then applied.            *)

TapUpdate ==
    /\ frame = <<>> /\ exchange.u < MaxUpdates
    /\ exchange' = [exchange EXCEPT !.u = @ + 1]
    /\ frame' = <<Delta(exchange.u + 1)>> /\ Observe(Delta(exchange.u + 1))
    /\ UNCHANGED <<book, tape, thread, table, seeds, spoilt>>

\* The answer to a subscription or to a resync.
TapSnapshot ==
    /\ frame = <<>> /\ ~book.synced
    /\ frame' = <<Snapshot(exchange.u)>> /\ Observe(Snapshot(exchange.u))
    /\ spoilt' = FALSE
    /\ UNCHANGED <<exchange, book, tape, thread, table, seeds>>

TapTrade ==
    /\ frame = <<>> /\ tape < MaxTrades /\ recorder.state = "RECORDING"
    /\ tape' = tape + 1 /\ Observe(Trade(tape + 1))
    /\ UNCHANGED <<exchange, book, frame, thread, table, seeds, spoilt>>

LoseUpdate ==
    /\ exchange.u < MaxUpdates /\ exchange.lost < MaxLost
    /\ exchange' = [u |-> exchange.u + 1, lost |-> exchange.lost + 1]
    /\ UNCHANGED <<book, frame, recorder, tape, thread, table, seeds, spoilt, newest>>

\* SymbolState.on_orderbook; a gap makes the book unusable until a snapshot.
Applied(b, f) ==
    IF f.kind = "snapshot" THEN [levels |-> f.levels, synced |-> TRUE, lastU |-> f.u]
    ELSE IF b.synced /\ f.u = b.lastU + 1
         THEN [levels |-> Over(f.levels, b.levels), synced |-> TRUE, lastU |-> f.u]
    ELSE [b EXCEPT !.synced = FALSE]

Apply ==
    /\ frame # <<>>
    /\ book' = Applied(book, frame[1])
    /\ frame' = <<>>
    /\ UNCHANGED <<exchange, recorder, tape, thread, table, seeds, spoilt, newest>>
-----------------------------------------------------------------------------
(* The recorder's thread (_run): seed a snapshot when one is due, flush.   *)

\* seed_from_engine reads the book without a lock ...
SeedCopy ==
    /\ thread.doing = "nothing" /\ seeds < MaxSeeds /\ book.synced
    /\ thread' = [Idle EXCEPT !.doing = "seeding", !.seed = <<Frame("snapshot", book.lastU, book.levels)>>]
    /\ seeds' = seeds + 1
    /\ UNCHANGED <<exchange, book, frame, recorder, tape, table, spoilt, newest>>

\* ... and seed_snapshot appends it, behind deltas that it may not contain.
SeedAppend ==
    /\ thread.doing = "seeding"
    /\ Record(Buffered(recorder, thread.seed), thread.seed)
    /\ spoilt' = (thread.seed[1].u < newest)
    /\ thread' = Idle
    /\ UNCHANGED <<exchange, book, frame, tape, table, seeds>>

\* _drain_pending
Drained(r) == [Buffered(r, r.pending) EXCEPT !.pending = <<>>]

\* Faulty variant: the number of a segment is only used up when it is written.
CutUnnumbered(r) ==
    [r EXCEPT !.buffer = <<>>, !.dropped = 0, !.seq = IF table = <<>> THEN 1 ELSE Last(table).seq + 1]

\* The part of flush under the lock: a segment is numbered and cut.
Cut(r) == [r EXCEPT !.buffer = <<>>, !.dropped = 0, !.seq = @ + 1]
RowOf(r) == [seq |-> Cut(r).seq, dropped |-> r.dropped, frames |-> r.buffer]

\* flush: it drains the window every time and cuts a segment when one is due.
FlushNothing ==
    /\ thread.doing = "nothing" /\ recorder.pending # <<>>
    /\ Record(Drained(recorder), recorder.pending)
    /\ UNCHANGED <<exchange, book, frame, tape, thread, table, seeds, spoilt>>
FlushCut ==
    /\ thread.doing = "nothing" /\ recorder.seq < MaxRows
    /\ LET r == Drained(recorder)
       IN  /\ r.buffer # <<>>
           /\ Record(Cut(r), recorder.pending)
           /\ thread' = [Idle EXCEPT !.doing = "writing", !.row = <<RowOf(r)>>]
    /\ UNCHANGED <<exchange, book, frame, tape, table, seeds, spoilt>>

OverBudget(row) == recorder.stored + Len(row.frames) > Budget
Exhaust ==
    /\ thread.doing = "writing" /\ OverBudget(thread.row[1])
    /\ recorder' = [recorder EXCEPT !.state = "EXHAUSTED"]
    /\ thread' = Idle
    /\ UNCHANGED <<exchange, book, frame, tape, table, seeds, spoilt, newest>>

\* The writer: the row is stored, or it is not and its frames are gone; when only
\* the answer is lost the budget does not count it.
Write(stored, answered) ==
    /\ thread.doing = "writing" /\ ~OverBudget(thread.row[1])
    /\ table' = IF stored THEN table \o thread.row ELSE table
    /\ recorder' = IF stored /\ answered
                   THEN [recorder EXCEPT !.stored = @ + Len(thread.row[1].frames)] ELSE recorder
    /\ thread' = Idle
    /\ UNCHANGED <<exchange, book, frame, tape, seeds, spoilt, newest>>
-----------------------------------------------------------------------------
Init ==
    /\ exchange = [u |-> 0, lost |-> 0]
    /\ book = [levels |-> BookAt(0), synced |-> FALSE, lastU |-> 0]
    /\ frame = <<>> /\ tape = 0 /\ thread = Idle /\ table = <<>> /\ seeds = 0 /\ newest = 0 /\ spoilt = FALSE
    /\ recorder = [state |-> "RECORDING", buffer |-> <<>>, pending |-> <<>>, dropped |-> 0,
                   seq |-> 0, stored |-> 0]

Next ==
    \/ TapUpdate \/ TapSnapshot \/ TapTrade \/ LoseUpdate \/ Apply
    \/ SeedCopy \/ SeedAppend \/ FlushNothing \/ FlushCut \/ Exhaust
    \/ Write(TRUE, TRUE) \/ Write(TRUE, FALSE) \/ Write(FALSE, FALSE)

Spec == Init /\ [][Next]_vars
-----------------------------------------------------------------------------
(* Reading a recording back.                                               *)

\* BookReconstructor.apply
Unread == [synced |-> FALSE, levels |-> <<>>]
Replayed(b, f) ==
    IF f.kind = "snapshot" THEN [synced |-> TRUE, levels |-> f.levels]
    ELSE IF f.kind = "delta" /\ b.synced THEN [synced |-> TRUE, levels |-> Over(f.levels, b.levels)]
    ELSE b
ReplayFrom(b, frames) ==
    LET after[i \in 0..Len(frames)] == IF i = 0 THEN b ELSE Replayed(after[i - 1], frames[i])
    IN  after[Len(frames)]
Replay(frames) == ReplayFrom(Unread, frames)

\* The rows, and what would be the next one.
NextRow ==
    [seq |-> recorder.seq + 1, dropped |-> recorder.dropped,
     frames |-> recorder.buffer \o recorder.pending]
Rows == Append(table \o thread.row, NextRow)

\* What a reader has who starts afresh at every gap that the rows themselves show.
GapBefore(rows, i) ==
    rows[i].dropped > 0 \/ rows[i].seq # (IF i = 1 THEN 1 ELSE rows[i - 1].seq + 1)
SinceGap(rows) ==
    LET since[i \in 0..Len(rows)] ==
        IF i = 0 THEN <<>>
        ELSE IF GapBefore(rows, i) THEN rows[i].frames
        ELSE since[i - 1] \o rows[i].frames
    IN  since[Len(rows)]
Recent == SinceGap(Rows)
Gapless(rows) == \A i \in 1..Len(rows) : ~GapBefore(rows, i)
-----------------------------------------------------------------------------
(* Properties, of a recorder that records.                                 *)

\* "replaying the merged stream reconstructs the book EXACTLY": after any gap the
\* rows show, from the next snapshot on, the replay is the engine's book whenever
\* the engine trusts its own, through merging, seeding, lost rows and lost updates
\* (capture.py against book.py and orderbook_engine.py).  A seed that was overtaken
\* is excepted until the next snapshot.
ReplayIsExact ==
    recorder.state = "RECORDING" /\ frame = <<>> /\ book.synced /\ ~spoilt
    /\ Replay(Recent).synced
    => Replay(Recent).levels = book.levels

\* "Drops are counted, never silent": between the gaps the rows show, no trade is
\* missing, doubled or out of its order (capture.py).
TapeIsWhole ==
    LET trades == Picked(Recent, {i \in 1..Len(Recent) : Recent[i].kind = "trade"})
        first == tape - Len(trades)
    IN  recorder.state = "RECORDING" =>
            /\ \A k \in 1..Len(trades) : trades[k].u = first + k
            /\ Gapless(Rows) => first = 0
=============================================================================
