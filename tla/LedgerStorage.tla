--------------------------- MODULE LedgerStorage ---------------------------
(***************************************************************************)
(* How the terminal trades of one paper ledger get to the database and     *)
(* back: VirtualLedger queues them (virtual_trades.py), the recorder files *)
(* them into the write buffer, the buffer is flushed to a table keyed by   *)
(* trade_id, and the next process reads its journal from there             *)
(* (lead_engine/storage.py).                                               *)
(*                                                                         *)
(* Three threads: the ingest thread ends trades, the recorder sweeps, and  *)
(* whoever stops the engine flushes once more.  The host may also kill the *)
(* process at any point; the table is all that is left of it.              *)
(***************************************************************************)
EXTENDS Integers, Sequences, FiniteSets, SequencesExt

CONSTANTS
    MaxTrades,      \* bound on the trades; they are named by the order of their signals
    JournalLimit,   \* LedgerConfig.journal_limit
    BatchSize,      \* BATCH_SIZE
    BufferLimit     \* the bound of rows put back after a failure

ASSUME StorageAssumption ==
    /\ MaxTrades \in Nat /\ JournalLimit \in Nat \ {0}
    /\ BatchSize \in Nat \ {0} /\ BufferLimit \in Nat /\ BatchSize <= BufferLimit

VARIABLES
    process,     \* "up", "stopping" or "down"
    made,        \* the trades ever opened are 1..made
    inherited,   \* those opened by earlier processes are 1..inherited
    live,        \* trades of this process that are pending or open
    journal,     \* closed
    queue,       \* pending_persist
    restored,    \* this symbol is in _ledgers_restored
    history,     \* the rows this process has read from the table
    recorder,    \* where the sweep is, the rows it has drained, the batch it sends
    stopper,     \* where stop() is, the batch it sends
    buffer,      \* the write buffer of lead_engine_virtual_trades
    table        \* the rows of that table: unique by trade_id, so a set

ledgerVars == <<made, live, journal, queue>>
vars == <<process, inherited, ledgerVars, restored, history, recorder, stopper, buffer, table>>

Trades == 1..MaxTrades
Resting == [at |-> "idle", hand |-> << >>, batch |-> << >>]
Newest(s, n) == IF Len(s) <= n THEN s ELSE SubSeq(s, Len(s) - n + 1, Len(s))
NewestOf(S, n) == {t \in S : Cardinality({u \in S : u > t}) < n}

\* Terminal trades in memory that still have to be filed.
Waiting == UNION {ToSet(s) : s \in {queue, recorder.hand, recorder.batch, stopper.batch, buffer}}

Init ==
    /\ process = "up" /\ made = 0 /\ inherited = 0
    /\ live = {} /\ journal = << >> /\ queue = << >> /\ restored = FALSE /\ history = {}
    /\ recorder = Resting /\ stopper = Resting
    /\ buffer = << >> /\ table = {}
-----------------------------------------------------------------------------
(* The ledger.                                                             *)

\* A signal opens an intent: one position at a time, max_open.  Neither waits
\* for a stop to begin: the stream is told to stop, not waited for.
Open ==
    /\ process # "down" /\ live = {} /\ made < MaxTrades
    /\ made' = made + 1 /\ live' = {made + 1}
    /\ UNCHANGED <<process, inherited, journal, queue, restored, history, recorder, stopper, buffer, table>>

\* _retire, for a trade abandoned or closed by a book.
Retire(t) ==
    /\ process # "down" /\ t \in live
    /\ live' = live \ {t}
    /\ journal' = Newest(Append(journal, t), JournalLimit)
    /\ queue' = Append(queue, t)
    /\ UNCHANGED <<process, inherited, made, restored, history, recorder, stopper, buffer, table>>

\* The journal with the rows of the table: what is stored, oldest first, then
\* what ended since the process started.
Merged(rows) == SetToSortSeq(rows \cup ToSet(journal), LAMBDA t, u : t < u)
-----------------------------------------------------------------------------
(* The recorder (sweep_once and _run).                                     *)

\* sweep_once; _run starts none after stop().
Sweep ==
    /\ process = "up" /\ recorder.at = "idle"
    /\ recorder' = [recorder EXCEPT !.at = IF restored THEN "draining" ELSE "restoring"]
    /\ UNCHANGED <<process, inherited, ledgerVars, restored, history, stopper, buffer, table>>

\* _restore_ledger reads the table on the first sweep, successfully or not.
Load ==
    /\ recorder.at = "restoring"
    /\ restored' = TRUE
    /\ history' \in {NewestOf(table, JournalLimit), {}}
    /\ recorder' = [recorder EXCEPT !.at = "loaded"]
    /\ UNCHANGED <<process, inherited, ledgerVars, stopper, buffer, table>>

\* VirtualLedger.restore; a trade may have ended since the read.
Restore ==
    /\ recorder.at = "loaded"
    /\ journal' = Newest(Merged(history), JournalLimit)
    /\ recorder' = [recorder EXCEPT !.at = "draining"]
    /\ UNCHANGED <<process, inherited, made, live, queue, restored, history, stopper, buffer, table>>

\* drain_persist, by every sweep.
Drain ==
    /\ recorder.at = "draining"
    /\ recorder' = [recorder EXCEPT !.at = "filing", !.hand = queue]
    /\ queue' = << >>
    /\ UNCHANGED <<process, inherited, made, live, journal, restored, history, stopper, buffer, table>>

\* Storage.record: the buffer is flushed when it is a batch, or when it has not
\* been for a while.
File ==
    /\ recorder.at = "filing" /\ recorder.hand # << >>
    /\ buffer' = Append(buffer, Head(recorder.hand))
    /\ \E at \in {"due"} \cup (IF Len(buffer') < BatchSize THEN {"filing"} ELSE {}) :
          recorder' = [recorder EXCEPT !.at = at, !.hand = Tail(@)]
    /\ UNCHANGED <<process, inherited, ledgerVars, restored, history, stopper, table>>

\* flush takes what is buffered: when it is due, and at the end of the sweep.
Take ==
    /\ \/ recorder.at = "due" /\ recorder' = [recorder EXCEPT !.at = "sending", !.batch = buffer]
       \/ /\ recorder.at = "filing" /\ recorder.hand = << >>
          /\ recorder' = [recorder EXCEPT !.at = "closing", !.batch = buffer]
    /\ buffer' = << >>
    /\ UNCHANGED <<process, inherited, ledgerVars, restored, history, stopper, table>>

PutBackOldest(batch) ==
    IF Len(batch \o buffer) <= BufferLimit THEN batch \o buffer
    ELSE SubSeq(batch \o buffer, 1, BufferLimit)

\* What flush leaves in the buffer after a failure.
PutBack(batch) == Newest(batch \o buffer, BufferLimit)

\* Faulty variant: without on_conflict a row that is there already is an error.
InsertPlain(batch) ==
    IF ToSet(batch) \cap table # {} THEN UNCHANGED table /\ buffer' = PutBack(batch)
    ELSE \/ table' = table \cup ToSet(batch) /\ buffer' \in {buffer, PutBack(batch)}
         \/ UNCHANGED table /\ buffer' = PutBack(batch)

\* supabase_rest.insert on the key trade_id.  It is applied and confirmed,
\* applied though the answer is lost, or not applied.
Insert(batch) ==
    \/ table' = table \cup ToSet(batch) /\ buffer' \in {buffer, PutBack(batch)}
    \/ UNCHANGED table /\ buffer' = PutBack(batch)

Send ==
    /\ recorder.at \in {"sending", "closing"}
    /\ IF recorder.batch = << >> THEN UNCHANGED <<table, buffer>> ELSE Insert(recorder.batch)
    /\ recorder' = [recorder EXCEPT !.at = IF @ = "closing" THEN "idle" ELSE "filing",
                                    !.batch = << >>]
    /\ UNCHANGED <<process, inherited, ledgerVars, restored, history, stopper>>

RecorderStep == Sweep \/ Load \/ Restore \/ Drain \/ File \/ Take \/ Send
-----------------------------------------------------------------------------
(* The end of a process, and the next one.                                 *)

\* LeadEngine.stop, with Recorder.stop: what is buffered is flushed.  What the
\* ledger still has queued is drained only by a sweep that is under way.
Stop ==
    /\ process = "up"
    /\ process' = "stopping"
    /\ stopper' = [stopper EXCEPT !.at = "sending", !.batch = buffer]
    /\ buffer' = << >>
    /\ UNCHANGED <<inherited, ledgerVars, restored, history, recorder, table>>

StopSend ==
    /\ stopper.at = "sending"
    /\ IF stopper.batch = << >> THEN UNCHANGED <<table, buffer>> ELSE Insert(stopper.batch)
    /\ stopper' = [stopper EXCEPT !.at = "done", !.batch = << >>]
    /\ UNCHANGED <<process, inherited, ledgerVars, restored, history, recorder>>

\* The process is killed, or has stopped.
Die ==
    /\ process # "down"
    /\ process' = "down" /\ inherited' = made
    /\ live' = {} /\ journal' = << >> /\ queue' = << >> /\ restored' = FALSE /\ history' = {}
    /\ recorder' = Resting /\ stopper' = Resting /\ buffer' = << >>
    /\ UNCHANGED <<made, table>>

Start ==
    /\ process = "down"
    /\ process' = "up"
    /\ UNCHANGED <<inherited, ledgerVars, restored, history, recorder, stopper, buffer, table>>

Next ==
    \/ Open \/ (\E t \in live : Retire(t))
    \/ RecorderStep
    \/ Stop \/ StopSend \/ Die \/ Start

\* The recorder keeps sweeping, requests have timeouts, the storage does not
\* refuse every request for ever, and a process that was told to stop ends.
Fairness ==
    /\ WF_vars(RecorderStep) /\ WF_vars(StopSend)
    /\ SF_vars(Send /\ ToSet(recorder.batch) \subseteq table' /\ UNCHANGED buffer)
    /\ WF_vars(stopper.at = "done" /\ Die)

Spec == Init /\ [][Next]_vars /\ Fairness
-----------------------------------------------------------------------------
(* Properties.                                                             *)

\* A terminal trade leaves memory unwritten only with the process or when the
\* buffer overflows, which drops the oldest (flush: "past which the oldest are
\* dropped").
LossIsBounded ==
    [][\A t \in Waiting \ Waiting' :
          \/ t \in table' \/ process' = "down"
          \/ /\ Len(buffer') = BufferLimit
             /\ process = "up" => \A u \in ToSet(buffer') : t < u]_vars

\* No terminal trade waits for ever: with LossIsBounded, it is filed unless the
\* process dies or the buffer overflows first.  In particular a row whose
\* answer was lost does not block those behind it (supabase_rest.insert).
EndedTradesAreFiled == \A t \in Trades : t \in Waiting ~> t \notin Waiting
=============================================================================
