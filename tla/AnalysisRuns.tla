---------------------------- MODULE AnalysisRuns ----------------------------
(***************************************************************************)
(* Background analyses of one chart: the job registry (ai_advisor/jobs.py) *)
(* with the requests that start or join a run, and the store the runs save *)
(* to (ai_advisor/analysis_store.py), which the live chart reads.          *)
(*                                                                         *)
(* Every request is served by a thread of its own, and every run is a      *)
(* thread; they share the registry, whose two critical sections are single *)
(* steps, and the store.  A request starts at most one run, so runs are    *)
(* named by the request that started them.                                 *)
(***************************************************************************)
EXTENDS Integers, Sequences, FiniteSets, SequencesExt

CONSTANTS
    Requests,      \* POST .../start requests
    KindOf,        \* request -> "analyst" or "multi": what find_running matches
    StoreKinds,    \* "rest" (Supabase over HTTP), "sql" (one transaction)
    MaxJobs,       \* MAX_JOBS
    MaxCandle,     \* bound on the candles the market closes
    None

\* What a run's Job object and its thread hold.
Jobs == [status : {"running", "ended"},                     \* "done" or "error"
         step   : {"loading", "checking", "counting", "saving", "deleting", "inserting", "ended"},
         seen   : 0..MaxCandle,
         count  : {"none", "tradeable", "untradeable"}]

ASSUME RequestsAssumption ==
    /\ IsFiniteSet(Requests) /\ KindOf \in [Requests -> {"analyst", "multi"}]
    /\ StoreKinds \subseteq {"rest", "sql"}
    /\ MaxJobs \in Nat /\ MaxCandle \in Nat
    /\ None \notin Requests \cup Jobs

VARIABLES
    request,     \* what each request thread has done: "new", "absent", "answered"
    job,         \* run -> its Job object, or None before it is started
    registry,    \* the runs in _jobs
    finished,    \* finished runs, in the order of their updated_at
    aged,        \* finished runs older than FINISHED_TTL_SECONDS
    storeKind,   \* which database the process is configured with
    rows,        \* analysis_cache rows of the chart, oldest first: the run that saved each
    newest       \* number of the newest closed candle

runVars == <<request, job, registry, finished, aged, storeKind, rows, newest>>

Running(r) == job[r] # None /\ job[r].status = "running"
Ended(r) == job[r] # None /\ job[r].status # "running"

\* analysis_store.load: the newest row, or nothing.
Stored == IF rows = << >> THEN None ELSE Last(rows)

RunsInit ==
    /\ request = [r \in Requests |-> "new"]
    /\ job = [r \in Requests |-> None]
    /\ registry = {} /\ finished = << >> /\ aged = {}
    /\ storeKind \in StoreKinds
    /\ rows = << >> /\ newest = 0
-----------------------------------------------------------------------------
(* Requests: ai_analyst_start, ai_multi_start (dashboard/server.py).       *)

\* find_running finds a run of the same kind and chart: the request joins it.
Join(r) ==
    /\ request[r] = "new"
    /\ \E s \in registry : Running(s) /\ KindOf[s] = KindOf[r]
    /\ request' = [request EXCEPT ![r] = "answered"]
    /\ UNCHANGED <<job, registry, finished, aged, storeKind, rows, newest>>

\* find_running finds none; the lock is released before start takes it.
FindNone(r) ==
    /\ request[r] = "new"
    /\ \A s \in registry : ~(Running(s) /\ KindOf[s] = KindOf[r])
    /\ request' = [request EXCEPT ![r] = "absent"]
    /\ UNCHANGED <<job, registry, finished, aged, storeKind, rows, newest>>

\* The run s was finished before r was.
FinishedBefore(s, r) ==
    \E m, n \in DOMAIN finished : m < n /\ finished[m] = s /\ finished[n] = r

\* Faulty variants: the newest run is evicted for space, running or not; or
\* nothing is.
PrunedOfRunning ==
    LET live == registry \ aged IN {r \in live : Cardinality(live) <= MaxJobs \/ Ended(r)}

\* _prune_locked: expired runs go, then the longest finished ones as long as
\* there are more than MaxJobs.  Running ones are never evicted.
Pruned ==
    LET live    == registry \ aged
        surplus == Cardinality(live) - MaxJobs
    IN  {r \in live : Running(r) \/ Cardinality({s \in live : FinishedBefore(s, r)}) >= surplus}

\* jobs.start: prune, register, start the thread.
Start(r) ==
    /\ request[r] = "absent"
    /\ job' = [job EXCEPT ![r] = [status |-> "running", step |-> "loading", seen |-> 0,
                                  count |-> "none"]]
    /\ registry' = Pruned \cup {r}
    /\ request' = [request EXCEPT ![r] = "answered"]
    /\ UNCHANGED <<finished, aged, storeKind, rows, newest>>

\* An hour has passed since r finished (and since all that finished before).
Age(r) ==
    /\ r \in (ToSet(finished) \cap registry) \ aged
    /\ \A s \in registry \ aged : ~FinishedBefore(s, r)
    /\ aged' = aged \cup {r}
    /\ UNCHANGED <<request, job, registry, finished, storeKind, rows, newest>>
-----------------------------------------------------------------------------
(* Runs: run_analyst_work, run_multi_work and _analyse_timeframe.          *)

AtStep(r, step) == Running(r) /\ job[r].step = step

\* The thread of r ends, well or not: `run` in jobs.start sets the status.  What it
\* held is gone, but for what it has saved.
EndWith(r, left) ==
    /\ job' = [job EXCEPT ![r] = left]
    /\ finished' = Append(finished, r)
    /\ UNCHANGED <<request, registry, aged, storeKind, newest>>
End(r) == EndWith(r, [status |-> "ended", step |-> "ended", seen |-> 0, count |-> "none"])

Proceed(r, step) ==
    /\ job' = [job EXCEPT ![r].step = step]
    /\ UNCHANGED <<request, registry, finished, aged, storeKind, newest>>

\* load_candles; a failed fetch ends the run, as an empty series ends a
\* multi-timeframe run's part in this chart.
LoadCandles(r) ==
    /\ AtStep(r, "loading")
    /\ UNCHANGED rows
    /\ \/ /\ job' = [job EXCEPT ![r].seen = newest,
                                ![r].step = IF KindOf[r] = "multi" THEN "checking"
                                                                   ELSE "counting"]
          /\ UNCHANGED <<request, registry, finished, aged, storeKind, newest>>
       \/ End(r)

\* A multi-timeframe run reuses the saved count if no candle is newer,
\* unless it is forced to recompute.  Reading over REST may fail.
CheckCache(r) ==
    /\ AtStep(r, "checking")
    /\ UNCHANGED rows
    /\ \/ Stored # None /\ job[Stored].seen >= job[r].seen /\ End(r)
       \/ Proceed(r, "counting")
       \/ storeKind = "rest" /\ End(r)

\* run_analyst: a count is accepted, from which scenario_from_analysis can
\* build a scenario ("tradeable") or cannot ("untradeable"); or nothing is, and
\* nothing is saved; or it raises.
Count(r) ==
    /\ AtStep(r, "counting")
    /\ UNCHANGED rows
    /\ \/ /\ \E count \in {"tradeable", "untradeable"} :
             job' = [job EXCEPT ![r].count = count,
                                ![r].step = IF storeKind = "rest" THEN "deleting" ELSE "saving"]
          /\ UNCHANGED <<request, registry, finished, aged, storeKind, newest>>
       \/ End(r)

\* After the save a run ends; the verdict of a multi-timeframe run may still fail.
EndSaved(r) == EndWith(r, [job[r] EXCEPT !.status = "ended", !.step = "ended"])

\* save in one transaction: every row of the chart is replaced, or none if it fails.
SaveSql(r) ==
    /\ AtStep(r, "saving")
    /\ \/ rows' = <<r>> /\ EndSaved(r)
       \/ UNCHANGED rows /\ End(r)

\* save over REST: two requests, either of which may fail; SupabaseError is
\* not an SQLAlchemyError, so a failure ends the run.
DeleteRow(r) ==
    /\ AtStep(r, "deleting")
    /\ \/ rows' = << >> /\ Proceed(r, "inserting")
       \/ UNCHANGED rows /\ End(r)
InsertRow(r) ==
    /\ AtStep(r, "inserting")
    /\ \/ rows' = Append(rows, r) /\ EndSaved(r)
       \/ UNCHANGED rows /\ End(r)

CandleCloses ==
    /\ newest < MaxCandle
    /\ newest' = newest + 1
    /\ UNCHANGED <<request, job, registry, finished, aged, storeKind, rows>>

RunStep(r) ==
    \/ LoadCandles(r) \/ CheckCache(r) \/ Count(r)
    \/ SaveSql(r) \/ DeleteRow(r) \/ InsertRow(r)

RequestStep(r) == Join(r) \/ FindNone(r) \/ Start(r)

RunsNext ==
    \/ \E r \in Requests : RequestStep(r) \/ RunStep(r) \/ Age(r)
    \/ CandleCloses

\* A run ends: every call of the model has a timeout.  Nothing makes anyone
\* ask for an analysis.
RunsSpec == RunsInit /\ [][RunsNext]_runVars /\ \A r \in Requests : WF_runVars(RunStep(r))
-----------------------------------------------------------------------------
(* Properties.                                                             *)

\* Every variable keeps its type.
RunsTypeOK ==
    /\ request \in [Requests -> {"new", "absent", "answered"}]
    /\ job \in [Requests -> Jobs \cup {None}]
    /\ registry \subseteq Requests /\ aged \subseteq Requests
    /\ finished \in Seq(Requests) /\ rows \in Seq(Requests)
    /\ storeKind \in StoreKinds /\ newest \in 0..MaxCandle

\* A run in flight is in the registry, so a repeated request and a page that
\* polls can find it, however many runs the limit has evicted (jobs.py).
RunningStaysFindable == \A r \in Requests : Running(r) => r \in registry

=============================================================================
