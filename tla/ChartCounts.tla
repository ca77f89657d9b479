----------------------------- MODULE ChartCounts -----------------------------
(***************************************************************************)
(* The second-opinion tab of one symbol (dashboard/server.py): builds      *)
(* fetch, file and count a chart for every timeframe, and the tab draws    *)
(* the stored count on the stored candles.  Runs of the AI analyst file    *)
(* the candles of the same charts (database/candle_store.py), and keep     *)
(* their counts under a key of their own (ai_advisor/analysis_store.py).   *)
(*                                                                         *)
(* Runs are threads that share the two tables and no lock.  Over REST a    *)
(* table is replaced by a delete and inserts, in SQL by one transaction.   *)
(* A series is named by the newest bar it was fetched up to, and stored in *)
(* chunks; what a count says is left out.                                  *)
(***************************************************************************)
EXTENDS Integers, Sequences, FiniteSets, SequencesExt

CONSTANTS
    Frames,        \* CLAUDE_TIMEFRAMES, the finest first
    Fallbacks,     \* what bars of a timeframe without a series are made of
    Runs, KindOf,  \* run -> "build", "warmup", "analyst" or "multi"
    Chunks,        \* INSERT_CHUNKs of a series
    MaxAge,        \* WARMUP_MAX_AGE_SECONDS, in bars
    MaxBars        \* bound of the clock

VARIABLES
    store,     \* "rest" or "sql"
    now,       \* the exchange's newest bar
    run,       \* what each run does, and the series it has in hand
    candles,   \* candle_store: the chunks filed for each timeframe
    counts,    \* analysis_store, CLAUDE_SOURCE: the rows of each timeframe, oldest first
    faults     \* calls of the exchange and the storage that failed (history)

tables == <<candles, counts>>
vars == <<store, now, run, tables, faults>>

ToCount == {Frames[i] : i \in DOMAIN Frames}
At(r, place) == run[r].at = place
Frame(r) == Head(run[r].todo)
Go(r, place) == run' = [run EXCEPT ![r].at = place]
Unfailed == UNCHANGED faults
Failed == faults' = faults + 1

\* Kinds whose runs join one another: the builds of start-up are builds.
JobOf(r) == IF KindOf[r] = "warmup" THEN "build" ELSE KindOf[r]
Running(r) == run[r].at \notin {"new", "absent", "ended"}
SameWork(s, r, wanted) == JobOf(s) = JobOf(r) /\ (JobOf(r) = "analyst" => run[s].todo = wanted)

\* analysis_store.load: the newest row.
Stored(f) == IF counts[f] = <<>> THEN {} ELSE {Last(counts[f])}

Init ==
    /\ store \in {"rest", "sql"} /\ now = 1 /\ faults = 0
    /\ run = [r \in Runs |-> [at |-> "new", todo |-> <<>>, bar |-> 0, chunk |-> 0, reading |-> FALSE]]
    /\ candles = [f \in ToCount |-> {}] /\ counts = [f \in ToCount |-> <<>>]
-----------------------------------------------------------------------------
(* The requests and the start of the process.                              *)

\* stale_timeframes: no count, or an old one.
Stale == SelectSeq(Frames, LAMBDA f : \A c \in Stored(f) : now - c.made >= MaxAge)

\* claude_build, warm_up_counts, ai_analyst_start, ai_multi_start: nothing is
\* stale, or the work is under way; or find_running finds none.
Ask(r) ==
    /\ At(r, "new")
    /\ \E wanted \in CASE KindOf[r] \in {"build", "multi"} -> {Frames}
                       [] KindOf[r] = "warmup" -> {Stale}
                       [] KindOf[r] = "analyst" -> {<<f>> : f \in ToCount} :
          LET idle == wanted = <<>> \/ \E s \in Runs : Running(s) /\ SameWork(s, r, wanted)
          IN  run' = [run EXCEPT ![r].at = IF idle THEN "ended" ELSE "absent", ![r].todo = wanted]
    /\ UNCHANGED <<store, now, tables, faults>>

\* jobs.start
Start(r) ==
    /\ At(r, "absent")
    /\ Go(r, "fetching")
    /\ UNCHANGED <<store, now, tables, faults>>
-----------------------------------------------------------------------------
(* A run.                                                                  *)

NextFrame(r) ==
    run' = [run EXCEPT ![r].todo = Tail(@), ![r].at = IF Len(run[r].todo) = 1 THEN "ended" ELSE "fetching"]
\* One timeframe failing does not end a build; an analyst's run it does.
FrameFails(r) ==
    /\ Failed
    /\ IF JobOf(r) = "build" THEN NextFrame(r) ELSE Go(r, "ended")
    /\ UNCHANGED <<store, now, tables>>

\* load_candles
Fetch(r) ==
    /\ At(r, "fetching")
    /\ \/ /\ run' = [run EXCEPT ![r].at = "filing", ![r].bar = now]
          /\ Unfailed /\ UNCHANGED <<store, now, tables>>
       \/ FrameFails(r)

\* candle_store.save; a failure of the storage is not noticed.
Row(r, k) == [by |-> r, bar |-> run[r].bar, chunk |-> k]
Unfiled(r) == Failed /\ Go(r, "filed") /\ UNCHANGED candles
FileSql(r) ==
    /\ At(r, "filing") /\ store = "sql"
    /\ \/ candles' = [candles EXCEPT ![Frame(r)] = {Row(r, k) : k \in 1..Chunks}] /\ Go(r, "filed") /\ Unfailed
       \/ Unfiled(r)
    /\ UNCHANGED <<store, now, counts>>
FileDelete(r) ==
    /\ At(r, "filing") /\ store = "rest"
    /\ \/ /\ candles' = [candles EXCEPT ![Frame(r)] = {}]
          /\ run' = [run EXCEPT ![r].at = "chunks", ![r].chunk = 1] /\ Unfailed
       \/ Unfiled(r)
    /\ UNCHANGED <<store, now, counts>>
FileChunk(r) ==
    /\ At(r, "chunks")
    /\ LET k == run[r].chunk
       IN  \/ /\ candles' = [candles EXCEPT ![Frame(r)] = @ \cup {Row(r, k)}]
              /\ run' = [run EXCEPT ![r].chunk = k + 1, ![r].at = IF k = Chunks THEN "filed" ELSE "chunks"]
              /\ Unfailed
           \/ Unfiled(r)
    /\ UNCHANGED <<store, now, counts>>

\* run_analyst_work, _analyse_timeframe: their counts go to other keys.
Analyse(r) ==
    /\ At(r, "filed") /\ JobOf(r) # "build"
    /\ \/ NextFrame(r) /\ UNCHANGED <<store, now, tables, faults>>
       \/ FrameFails(r)

\* build_claude_timeframe: the chart is counted, and a reading carried over.
Recount(r) ==
    /\ At(r, "filed") /\ JobOf(r) = "build"
    /\ \/ /\ run' = [run EXCEPT ![r].at = "saving", ![r].reading = \E c \in Stored(Frame(r)) : c.reading]
          /\ Unfailed /\ UNCHANGED <<store, now, tables>>
       \/ FrameFails(r)

\* analysis_store.save: in SQL a failure is logged, over REST it is the
\* error of the timeframe.
Made(r) == [bar |-> run[r].bar, made |-> now, reading |-> run[r].reading]
Unsaved(r) == Failed /\ NextFrame(r) /\ UNCHANGED counts
SaveSql(r) ==
    /\ At(r, "saving") /\ store = "sql"
    /\ \/ counts' = [counts EXCEPT ![Frame(r)] = <<Made(r)>>] /\ NextFrame(r) /\ Unfailed
       \/ Unsaved(r)
    /\ UNCHANGED <<store, now, candles>>
SaveDelete(r) ==
    /\ At(r, "saving") /\ store = "rest"
    /\ \/ counts' = [counts EXCEPT ![Frame(r)] = <<>>] /\ Go(r, "inserting") /\ Unfailed
       \/ Unsaved(r)
    /\ UNCHANGED <<store, now, candles>>
SaveInsert(r) ==
    /\ At(r, "inserting")
    /\ \/ counts' = [counts EXCEPT ![Frame(r)] = Append(@, Made(r))] /\ NextFrame(r) /\ Unfailed
       \/ Unsaved(r)
    /\ UNCHANGED <<store, now, candles>>

Step(r) ==
    \/ Ask(r) \/ Start(r) \/ Fetch(r) \/ FileSql(r) \/ FileDelete(r) \/ FileChunk(r)
    \/ Analyse(r) \/ Recount(r) \/ SaveSql(r) \/ SaveDelete(r) \/ SaveInsert(r)
-----------------------------------------------------------------------------
Bar == now < MaxBars /\ now' = now + 1 /\ UNCHANGED <<store, run, tables, faults>>

\* A reading is written into the stored count by someone else.
WriteReading ==
    /\ \E f \in ToCount :
          /\ Stored(f) # {}
          /\ counts' = [counts EXCEPT ![f][Len(counts[f])].reading = TRUE]
    /\ UNCHANGED <<store, now, run, candles, faults>>

Next == Bar \/ WriteReading \/ \E r \in Runs : Step(r)

Spec == Init /\ [][Next]_vars
-----------------------------------------------------------------------------
(* What the tab shows.                                                     *)

\* claude_chart: the series of the timeframe, or the first fallback that has
\* one; a finer bar is not made of coarser ones.
Place(f) == CHOOSE i \in DOMAIN Frames : Frames[i] = f
Sources(f) == SelectSeq(<<f>> \o Fallbacks, LAMBDA g : candles[g] # {})
Drawn(f) ==
    IF Sources(f) = <<>> \/ Place(Head(Sources(f))) > Place(f) THEN {} ELSE candles[Head(Sources(f))]

\* server.py:1794: "the count in this tab was made on exactly these bars, so
\* it is drawn on exactly these bars": with no run under way and no call failed.
DrawnOnItsBars ==
    faults = 0 /\ (\A r \in Runs : ~Running(r)) =>
        \A f \in ToCount : \A c \in Stored(f) : \A row \in Drawn(f) : row.bar = c.bar
-----------------------------------------------------------------------------
(* The instance of the run: two timeframes, and a run of each of the kinds *)
(* build, warmup and analyst, named by its kind.                           *)

TwoFrames == <<"15m", "4h">>
OneFallback == <<"15m">>
NamedByKind == [r \in Runs |-> r]
=============================================================================
