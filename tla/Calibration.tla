----------------------------- MODULE Calibration ------------------------------
(***************************************************************************)
(* What one symbol's break scores were worth (lead_engine/calibration.py   *)
(* and the calibration half of storage.Recorder): the snapshot threads     *)
(* open observations, the ingest thread settles them with each trade, the  *)
(* recorder files the settled ones and reads them back after a restart.    *)
(*                                                                         *)
(* Times are ticks.  A price is "low" or "high" when it is break_pct beyond *)
(* the observed support or resistance, "mid" otherwise.                    *)
(***************************************************************************)
EXTENDS Selections, SequencesExt

CONSTANTS
    Prices,           \* where a trade may be
    Buckets,          \* the score buckets that are tracked
    Horizons,         \* HORIZONS_MS
    MaxResolved,      \* MAX_OBSERVATIONS
    LoadLimit,        \* the limit of load_calibration
    MaxTime, MaxTrades, MaxOpened, MaxRestarts, MaxLate   \* bounds

VARIABLES
    now,        \* the clock
    heard,      \* trades ingested, oldest first (history)
    pending, resolved, persisted,   \* the Calibrator
    ingest,     \* what the ingest thread keeps of `pending`, while it resolves
    restored, drain, buffer,        \* the recorder: restored yet, its drain, its buffer
    rows,       \* the calibration table
    inherited,  \* the rows that were in it when the process started (history)
    asked,      \* the observations opened, by any process (history)
    restarts

vars == <<now, heard, pending, resolved, persisted, ingest, restored, drain, buffer, rows, inherited,
          asked, restarts>>
recorder == <<restored, drain, buffer, rows, inherited>>

Directions == {"long", "short"}
Idle == [step |-> "idle"]

-----------------------------------------------------------------------------
(* The calibrator.                                                         *)

\* _key
KeyOf(o) == <<o.direction, o.opened>>
Settled(o) == \A h \in Horizons : o.outcome[h] # "open"

\* A price beyond the observed level by break_pct.
Breaks(o, trade) == trade.price = IF o.direction = "short" THEN "low" ELSE "high"

\* Faulty variant: no check of the time the observation was opened.
AnswersAny(o, trade) == TRUE
\* The no-lookahead boundary.
Answers(o, trade) == trade.at > o.opened

\* What trade number i makes of an observation.
OutcomeOf(o, h, trade) ==
    IF o.outcome[h] # "open" THEN o.outcome[h]
    ELSE IF Breaks(o, trade) /\ trade.at - o.opened <= h THEN "broke"
    ELSE IF trade.at - o.opened > h THEN "held" ELSE "open"
Answered(o, trade, i) ==
    IF ~Answers(o, trade) THEN o
    ELSE [o EXCEPT !.outcome = [h \in Horizons |-> OutcomeOf(o, h, trade)],
                   !.by = [h \in Horizons |-> IF o.outcome[h] = "open" /\ OutcomeOf(o, h, trade) # "open"
                                              THEN i ELSE o.by[h]]]

NewestOf(s, n) == IF Len(s) > n THEN SubSeq(s, Len(s) - n + 1, Len(s)) ELSE s

Observation(direction, bucket, at) ==
    [direction |-> direction, bucket |-> bucket, opened |-> at, after |-> Len(heard),
     outcome |-> [h \in Horizons |-> "open"], by |-> [h \in Horizons |-> 0]]

\* observe, by a snapshot whose caller came at `at`: one open case for a
\* direction and bucket.  No two callers come in the same millisecond.
Observe ==
    /\ Len(asked) < MaxOpened
    /\ \E direction \in Directions, bucket \in Buckets, late \in 0..MaxLate :
        /\ \A o \in Range(pending) : o.direction # direction \/ o.bucket # bucket
        /\ late < now /\ <<direction, now - late>> \notin Range(asked)
        /\ pending' = Append(pending, Observation(direction, bucket, now - late))
        /\ asked' = Append(asked, <<direction, now - late>>)
    /\ UNCHANGED <<now, heard, resolved, persisted, ingest, recorder, restarts>>

\* on_trade and the pass of resolve over `pending`.
Resolve ==
    /\ ingest = Idle /\ Len(heard) < MaxTrades
    /\ \E late \in 0..MaxLate, price \in Prices :
        LET trade == [at |-> now - late, price |-> price]
            done == [k \in DOMAIN pending |-> Answered(pending[k], trade, Len(heard) + 1)]
        IN  /\ late <= now
            /\ heard' = Append(heard, trade)
            /\ pending' = done
            /\ resolved' = NewestOf(resolved \o Picked(done, {k \in DOMAIN done : Settled(done[k])}), MaxResolved)
            /\ ingest' = [step |-> "kept",
                          kept |-> Picked(done, {k \in DOMAIN done : ~Settled(done[k])})]
    /\ UNCHANGED <<now, persisted, recorder, asked, restarts>>

\* `self.pending = still_pending`: what a reader opened meanwhile is gone.
Replace ==
    /\ ingest # Idle
    /\ pending' = ingest.kept
    /\ ingest' = Idle
    /\ UNCHANGED <<now, heard, resolved, persisted, recorder, asked, restarts>>

-----------------------------------------------------------------------------
(* The recorder.                                                           *)

\* Rows of the table by opened_ms, oldest first, as many as are asked for.
Place(o) == 2 * o.opened + (IF o.direction = "long" THEN 0 ELSE 1)
Places == {Place(o) : o \in rows}
Loaded ==
    [k \in 1..(IF Cardinality(Places) < LoadLimit THEN Cardinality(Places) ELSE LoadLimit) |->
        CHOOSE o \in rows : Place(o) = Nth(Places, k)]

\* Faulty variant: what was read is taken for new.
RestoredUnmarked(seq) == persisted
MarkedRestored(seq) == persisted \cup {KeyOf(o) : o \in Range(seq)}

\* _restore_calibration, once for a process.
Restore ==
    /\ ~restored /\ drain = Idle
    /\ LET new == Picked(Loaded, {k \in DOMAIN Loaded :
                                      \A p \in Range(resolved) : KeyOf(p) # KeyOf(Loaded[k])})
       IN  /\ resolved' = NewestOf(resolved \o new, MaxResolved)
           /\ persisted' = MarkedRestored(new)
    /\ restored' = TRUE
    /\ UNCHANGED <<now, heard, pending, ingest, drain, buffer, rows, inherited, asked, restarts>>

\* drain_persist: what is new is marked as written,
Mark ==
    /\ restored /\ drain = Idle
    /\ LET out == {o \in Range(resolved) : KeyOf(o) \notin persisted}
       IN  /\ out # {}
           /\ persisted' = persisted \cup {KeyOf(o) : o \in out}
           /\ drain' = [step |-> "marked", out |-> out, over |-> resolved]
    /\ UNCHANGED <<now, heard, pending, resolved, ingest, restored, buffer, rows, inherited, asked, restarts>>

\* then `resolved` is walked again: a deque that grew meanwhile raises, and
\* sweep_once goes on without the rows.
Prune ==
    /\ drain # Idle
    /\ IF resolved = drain.over
       THEN /\ persisted' = persisted \cap {KeyOf(o) : o \in Range(resolved)}
            /\ buffer' = buffer \cup drain.out
       ELSE UNCHANGED <<persisted, buffer>>
    /\ drain' = Idle
    /\ UNCHANGED <<now, heard, pending, resolved, ingest, restored, rows, inherited, asked, restarts>>

\* A resend merges: the table has observation_id for its key (CONFLICT_KEYS).
Upserted(new) == {r \in rows : \A o \in new : KeyOf(o) # KeyOf(r)} \cup new

\* Storage.flush, whose write reaches the table.  When its answer is lost, or
\* anything after it raises, the rows go back to the buffer all the same; a write
\* that is refused changes nothing.
Flush ==
    /\ buffer # {}
    /\ rows' = Upserted(buffer)
    /\ buffer' \in {{}, buffer}
    /\ UNCHANGED <<now, heard, pending, resolved, persisted, ingest, restored, drain, inherited, asked,
                   restarts>>

\* The process ends and another one starts: what was pending is not carried over.
Restart ==
    /\ restarts < MaxRestarts
    /\ restarts' = restarts + 1
    /\ pending' = <<>> /\ resolved' = <<>> /\ persisted' = {} /\ ingest' = Idle
    /\ restored' = FALSE /\ drain' = Idle /\ buffer' = {} /\ inherited' = rows
    /\ UNCHANGED <<now, heard, rows, asked>>

Tick ==
    /\ now < MaxTime
    /\ now' = now + 1
    /\ UNCHANGED <<heard, pending, resolved, persisted, ingest, recorder, asked, restarts>>

-----------------------------------------------------------------------------
(* The specification.                                                      *)

Init ==
    /\ now = 1 /\ heard = <<>>
    /\ pending = <<>> /\ resolved = <<>> /\ persisted = {} /\ ingest = Idle
    /\ restored = FALSE /\ drain = Idle /\ buffer = {} /\ rows = {} /\ inherited = {}
    /\ asked = <<>> /\ restarts = 0

Next ==
    \/ Tick \/ Observe \/ Resolve \/ Replace
    \/ Restore \/ Mark \/ Prune \/ Flush \/ Restart

Spec == Init /\ [][Next]_vars

-----------------------------------------------------------------------------
(* Properties.                                                             *)

(* An outcome is the market's: a score "broke" within a horizon only if a
   trade stamped after the score and within the horizon broke the level,
   and "held" only if none that had arrived did (Calibrator.resolve and
   observe, on two threads).                                               *)
InTime(o, h) ==
    {i \in o.after + 1..o.by[h] : heard[i].at > o.opened /\ heard[i].at <= o.opened + h}
OutcomesAreCausal ==
    \A o \in Range(pending) \cup Range(resolved), h \in Horizons :
        /\ o.outcome[h] = "broke" => \E i \in InTime(o, h) : Breaks(o, heard[i])
        /\ o.outcome[h] = "held" => \A i \in InTime(o, h) : ~Breaks(o, heard[i])

(* An observation is written by one process: what was in the table when the
   process started, and was perhaps read back, is not filed again.  What the
   process sends again, because it never learnt that it was written, is the
   row the table holds (Calibrator.restore, drain_persist, Storage.flush).  *)
Filing == buffer \cup (IF drain = Idle THEN {} ELSE drain.out)
FiledByOne ==
    \A o \in Filing :
        /\ \A r \in inherited : KeyOf(o) # KeyOf(r)
        /\ \A r \in rows : KeyOf(o) = KeyOf(r) => o = r
=============================================================================
