------------------------------ MODULE BookFeed ------------------------------
(***************************************************************************)
(* lead_engine/bybit_ws.py, orderbook_engine.py and the parts of engine.py *)
(* and state.py between them: one symbol's order book, from the exchange   *)
(* over the socket thread, the bounded queue and the ingest thread to the  *)
(* local book that signals are computed from.                              *)
(*                                                                         *)
(* The exchange is external: every update has the next id and changes one  *)
(* level, a subscription brings a snapshot, a restarted exchange counts    *)
(* from 1 again and says so with a delta of id 1.  A level holds the       *)
(* update that last changed it, so a book tells which updates are in it.   *)
(***************************************************************************)
EXTENDS Integers, Sequences, SequencesExt

CONSTANTS
    QueueLimit,      \* QUEUE_LIMIT, one slot stands for a tenth of it
    WireLimit, MaxUpdates, MaxEpochs, MaxLost, MaxConnects   \* bounds

ASSUME FeedAssumption ==
    /\ {QueueLimit, MaxEpochs} \subseteq Nat \ {0}
    /\ {WireLimit, MaxUpdates, MaxLost, MaxConnects} \subseteq Nat

VARIABLES
    exchange,    \* its epoch and last update id, and the updates it has lost
    link,        \* the connection: subscribed, requests and frames in flight
    queue,       \* frames the socket thread has left for the ingest thread
    wanted,      \* the symbol is in _resync_wanted
    asked,       \* a resync was asked for within RESYNC_DEBOUNCE_SECONDS
    book,        \* OrderBook
    muted,       \* ~health.orderbook_synced: no signal is computed
    socket,      \* what the socket thread is doing
    worker,      \* what the ingest thread is doing
    torn         \* history: a reset fell in the application of the last snapshot

vars == <<exchange, link, queue, wanted, asked, book, muted, socket, worker, torn>>

Levels == {0, 1}
Highest(S) == CHOOSE n \in S : \A m \in S : m <= n

\* The exchange's book after update u of an epoch: update v changes level v % 2.
BookAt(epoch, u) ==
    [l \in Levels |-> <<epoch, Highest({0} \cup {v \in 1..u : v % 2 = l})>>]
EmptyBook == [l \in Levels |-> <<0, 0>>]

\* Bybit's restart: a delta of id 1 is a snapshot.
IsSnapshot(frame) == frame.kind = "snapshot" \/ frame.u = 1

Snapshot(epoch, u) == [kind |-> "snapshot", epoch |-> epoch, u |-> u]
Delta(epoch, u) == [kind |-> "delta", epoch |-> epoch, u |-> u]

NoLink == [up |-> FALSE, subscribed |-> FALSE, asks |-> 0, wire |-> <<>>, connects |-> 0]
Reading == [call |-> "none", at |-> "start"]
Idle == [stage |-> "idle", frame |-> Delta(0, 0), wasSynced |-> FALSE]
-----------------------------------------------------------------------------
(* The exchange and the network.                                           *)

threads == <<queue, wanted, asked, book, muted, socket, worker, torn>>
Sends(frame) == IF link.subscribed THEN Append(link.wire, frame) ELSE link.wire

Update ==
    /\ exchange.u < MaxUpdates /\ Len(link.wire) < WireLimit
    /\ exchange' = [exchange EXCEPT !.u = @ + 1]
    /\ link' = [link EXCEPT !.wire = Sends(Delta(exchange.epoch, exchange.u + 1))]
    /\ UNCHANGED threads

\* An update no frame is sent for, or whose frame cannot be parsed.
LoseUpdate ==
    /\ exchange.u < MaxUpdates /\ exchange.lost < MaxLost /\ link.subscribed
    /\ exchange' = [exchange EXCEPT !.u = @ + 1, !.lost = @ + 1]
    /\ UNCHANGED <<link, threads>>

RestartExchange ==
    /\ exchange.epoch < MaxEpochs /\ Len(link.wire) < WireLimit
    /\ exchange' = [exchange EXCEPT !.epoch = @ + 1, !.u = 1]
    /\ link' = [link EXCEPT !.wire = Sends(Delta(exchange.epoch + 1, 1))]
    /\ UNCHANGED threads

\* A subscription, the first or one after an unsubscription.
Serve ==
    /\ link.asks > 0 /\ Len(link.wire) < WireLimit
    /\ link' = [link EXCEPT !.asks = @ - 1, !.subscribed = TRUE,
                            !.wire = Append(@, Snapshot(exchange.epoch, exchange.u))]
    /\ UNCHANGED <<exchange, threads>>

\* The socket thread learns of it when it next reads.
Disconnect ==
    /\ link.up /\ socket = Reading
    /\ link' = [NoLink EXCEPT !.connects = link.connects]
    /\ UNCHANGED <<exchange, threads>>
-----------------------------------------------------------------------------
(* The socket thread.  It holds no lock against the ingest thread, which    *)
(* may take any of its steps between two of these.                         *)

\* A snapshot in the ingest thread's hand, not yet wholly applied.
HoldsSnapshot == worker.stage # "idle" /\ IsSnapshot(worker.frame)

\* run: a new connection throws the book away and subscribes.
Connect ==
    /\ socket = Reading
    /\ ~link.up /\ link.connects < MaxConnects
    /\ link' = [NoLink EXCEPT !.up = TRUE, !.connects = link.connects + 1]
    /\ wanted' = TRUE /\ socket' = [call |-> "run", at |-> "clear"]
    /\ torn' = (torn \/ HoldsSnapshot)
    /\ UNCHANGED <<exchange, queue, asked, book, muted, worker>>

\* _receive: a full queue drops its oldest frames and the book with them.
Drop ==
    /\ socket = Reading
    /\ link.wire # <<>> /\ Len(queue) >= QueueLimit
    /\ queue' = Tail(queue)
    /\ wanted' = TRUE /\ socket' = [call |-> "_receive", at |-> "clear"]
    /\ torn' = (torn \/ HoldsSnapshot)
    /\ UNCHANGED <<exchange, link, asked, book, muted, worker>>

\* reset, in the order in which it writes: the levels, then what is known of them;
\* what health says of the book comes last (_reset_books).
ClearLevels ==
    /\ socket.at = "clear"
    /\ book' = [book EXCEPT !.levels = EmptyBook]
    /\ socket' = [socket EXCEPT !.at = "desync"]
    /\ UNCHANGED <<exchange, link, queue, wanted, asked, muted, worker, torn>>

LoseSync ==
    /\ socket.at = "desync"
    /\ book' = [book EXCEPT !.synced = FALSE, !.lastU = 0]
    /\ socket' = [socket EXCEPT !.at = "mute"]
    /\ UNCHANGED <<exchange, link, queue, wanted, asked, muted, worker, torn>>

\* _subscribe, after the reset.
Subscribe ==
    /\ socket = [call |-> "run", at |-> "mute"]
    /\ muted' = TRUE
    /\ link' = [link EXCEPT !.asks = 1]
    /\ socket' = Reading
    /\ UNCHANGED <<exchange, queue, wanted, asked, book, worker, torn>>

\* Faulty variant: what is wanted is forgotten without being asked for.
Forgotten(l) == l

\* _maybe_resync, after a frame: ask again for what is wanted.
Resubscribed(l) == IF wanted THEN [l EXCEPT !.asks = @ + 1] ELSE l

\* The rest of _receive: at once where there is room, else after the reset.
Receive ==
    /\ \/ socket = Reading /\ Len(queue) < QueueLimit /\ muted' = muted
       \/ socket = [call |-> "_receive", at |-> "mute"] /\ muted' = TRUE
    /\ link.wire # <<>>
    /\ queue' = Append(queue, Head(link.wire))
    /\ link' = Resubscribed([link EXCEPT !.wire = Tail(@)])
    /\ wanted' = FALSE /\ socket' = Reading
    /\ UNCHANGED <<exchange, asked, book, worker, torn>>

\* Frames of the other topics keep coming; they are not followed further.
ReceiveOther ==
    /\ socket = Reading
    /\ link.up /\ wanted
    /\ wanted' = FALSE /\ link' = Resubscribed(link)
    /\ UNCHANGED <<exchange, queue, asked, book, muted, socket, worker, torn>>
-----------------------------------------------------------------------------
(* The ingest thread (_drain, handle_message, OrderBook.apply).            *)

Take ==
    /\ worker.stage = "idle" /\ queue # <<>>
    /\ worker' = [stage |-> "taken", frame |-> Head(queue), wasSynced |-> book.synced]
    /\ queue' = Tail(queue)
    /\ torn' = IF IsSnapshot(Head(queue)) THEN socket # Reading ELSE torn
    /\ UNCHANGED <<exchange, link, wanted, asked, book, muted, socket>>

Merged(levels, frame) ==
    [levels EXCEPT ![frame.u % 2] = <<frame.epoch, frame.u>>]

\* Faulty variant: a delta over a gap is applied.
ContinuesAnyway(frame) == book.synced /\ frame.u > book.lastU

Continues(frame) == book.synced /\ (book.lastU = 0 \/ frame.u = book.lastU + 1)
IsGap(frame) == book.synced /\ book.lastU # 0 /\ frame.u > book.lastU + 1

\* The first half of apply: a snapshot is merged, a delta checked.  A reset may fall
\* before the second, which merges the delta or calls the snapshot's book synced.
Apply ==
    /\ worker.stage = "taken"
    /\ LET f == worker.frame
       IN  \/ /\ IsSnapshot(f)
              /\ book' = [book EXCEPT !.levels = BookAt(f.epoch, f.u), !.lastU = f.u]
              /\ worker' = [worker EXCEPT !.stage = "merged"]
           \/ /\ ~IsSnapshot(f) /\ Continues(f)
              /\ worker' = [worker EXCEPT !.stage = "checked"]
              /\ UNCHANGED book
           \/ /\ ~IsSnapshot(f) /\ ~Continues(f)
              /\ book' = IF IsGap(f) THEN [book EXCEPT !.synced = FALSE] ELSE book
              /\ worker' = [worker EXCEPT !.stage = "applied"]
    /\ UNCHANGED <<exchange, link, queue, wanted, asked, muted, socket, torn>>

FinishSnapshot ==
    /\ worker.stage = "merged"
    /\ book' = [book EXCEPT !.synced = TRUE]
    /\ worker' = [worker EXCEPT !.stage = "applied"]
    /\ UNCHANGED <<exchange, link, queue, wanted, asked, muted, socket, torn>>

MergeDelta ==
    /\ worker.stage = "checked"
    /\ book' = [book EXCEPT !.levels = Merged(@, worker.frame), !.lastU = worker.frame.u]
    /\ worker' = [worker EXCEPT !.stage = "applied"]
    /\ UNCHANGED <<exchange, link, queue, wanted, asked, muted, socket, torn>>

\* Faulty variant: health keeps what it said of the book before.
FinishUnnoticed ==
    /\ worker.stage = "applied"
    /\ worker' = Idle
    /\ muted' = (muted /\ ~book.synced)
    /\ UNCHANGED <<exchange, link, queue, book, asked, wanted, socket, torn>>

\* The rest of handle_message: a book that has lost its sequence is asked for
\* again, unless one was asked for a moment ago (_request_resync).
Finish ==
    /\ worker.stage = "applied"
    /\ worker' = Idle
    /\ IF worker.wasSynced /\ ~book.synced /\ ~asked
       THEN /\ wanted' = TRUE /\ asked' = TRUE /\ muted' = TRUE
            /\ book' = [levels |-> EmptyBook, synced |-> FALSE, lastU |-> 0]
       ELSE muted' = ~book.synced /\ UNCHANGED <<book, asked, wanted>>
    /\ UNCHANGED <<exchange, link, queue, socket, torn>>

\* RESYNC_DEBOUNCE_SECONDS pass.
DebounceEnds ==
    /\ asked /\ asked' = FALSE
    /\ UNCHANGED <<exchange, link, queue, wanted, book, muted, socket, worker, torn>>
-----------------------------------------------------------------------------
Init ==
    /\ exchange = [epoch |-> 1, u |-> 1, lost |-> 0]
    /\ link = NoLink /\ queue = <<>> /\ wanted = FALSE /\ asked = FALSE
    /\ book = [levels |-> EmptyBook, synced |-> FALSE, lastU |-> 0]
    /\ muted = TRUE /\ socket = Reading /\ worker = Idle /\ torn = FALSE

SocketSteps == Connect \/ Drop \/ ClearLevels \/ LoseSync \/ Subscribe \/ Receive
IngestSteps == Take \/ Apply \/ FinishSnapshot \/ MergeDelta \/ Finish

Next ==
    \/ Update \/ LoseUpdate \/ RestartExchange \/ Serve \/ Disconnect
    \/ SocketSteps \/ ReceiveOther \/ IngestSteps \/ DebounceEnds

\* Both threads run, the exchange answers, run() reconnects (within the bound) and
\* time passes.  Nothing is assumed of updates, losses and disconnections.
Fairness ==
    /\ WF_vars(Serve) /\ WF_vars(SocketSteps) /\ WF_vars(ReceiveOther)
    /\ WF_vars(IngestSteps) /\ WF_vars(DebounceEnds)

Spec == Init /\ [][Next]_vars /\ Fairness
-----------------------------------------------------------------------------
(* Properties.                                                             *)

\* What this module is for: between two frames and two resets, a book that says it is
\* synced is the exchange's book of some moment, update for update, and signals are
\* computed from no other (health.orderbook_synced follows OrderBook.synced over gaps
\* and resets).  No lock keeps a reset out of apply, and the book is not the exchange's
\* where one fell in the application of the snapshot it was made of.  One that falls in
\* that of a delta does no harm.
IsTrueBook == \E e \in 1..MaxEpochs : book.lastU # 0 /\ book.levels = BookAt(e, book.lastU)
AtRest == worker.stage = "idle" /\ socket = Reading
SyncedBookIsTrue ==
    AtRest => /\ book.synced => IsTrueBook \/ torn
              /\ ~muted => book.synced

\* What the code says of every synced book, torn or not ("a silently wrong book is the
\* failure this whole check exists to prevent", OrderBook.apply).
NoBookIsSilentlyWrong ==
    AtRest /\ book.synced =>
        \E e \in 1..MaxEpochs, u \in 0..MaxUpdates : book.levels = BookAt(e, u)

\* A book the socket thread has thrown away is rebuilt, whatever is still queued:
\* a resync that is wanted ends with a synced book or with the connection.
WantedResyncEnds == wanted ~> (book.synced \/ ~link.up)

=============================================================================
