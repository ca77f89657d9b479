----------------------------- MODULE LiveCounts -----------------------------
(***************************************************************************)
(* How a saved count reaches the account that trades it.                   *)
(*                                                                         *)
(* Every poll of the live chart (dashboard/server.py, live_state) is a     *)
(* thread that loads the newest saved count and hands it to the live       *)
(* pipeline (LiveT3Engine.apply_ai_analysis) and on to the account         *)
(* (BacktestEngine.set_ai_scenario), which trades the candles that close   *)
(* with whatever count is installed at that moment (PaperAccount).  The    *)
(* polls share no lock, and two of one chart may interleave.  A count is   *)
(* named by the run that saved it: its fingerprint holds the time of the   *)
(* save.                                                                   *)
(***************************************************************************)
EXTENDS AnalysisRuns

CONSTANTS Pollers       \* threads that serve GET /api/live/state

VARIABLES
    poll,        \* poller -> where it is in apply_ai_analysis, and the count it loaded
    aiCounts,    \* LiveT3Engine.ai_counts of the timeframe
    engineFp,    \* BacktestEngine._ai_fingerprint
    scenario,    \* the count BacktestEngine.ai_scenario was built from, or None
    overlapped   \* (history) the last poll to install a count met one that installs another

engineVars == <<aiCounts, engineFp, scenario>>
vars == <<runVars, poll, engineVars, overlapped>>

Init ==
    /\ RunsInit
    /\ poll = [p \in Pollers |-> [at |-> "idle", fp |-> None]]
    /\ aiCounts = None /\ engineFp = None /\ scenario = None
    /\ overlapped = FALSE
-----------------------------------------------------------------------------
(* Pollers.                                                                *)

PollAt(p, at) == poll[p].at = at
MovePoll(p, at) ==
    poll' = [poll EXCEPT ![p] = [at |-> at, fp |-> IF at = "idle" THEN None ELSE @.fp]]

\* live_ai_analysis.
LoadAnalysis(p) ==
    /\ PollAt(p, "idle")
    /\ poll' = [poll EXCEPT ![p] = [at |-> "counts", fp |-> Stored]]
    /\ UNCHANGED <<runVars, engineVars, overlapped>>

\* apply_ai_analysis: nothing to do if the pipeline knows this count.
CompareWithCounts(p) ==
    /\ PollAt(p, "counts")
    /\ MovePoll(p, IF poll[p].fp = aiCounts THEN "idle" ELSE "engine")
    /\ UNCHANGED <<runVars, engineVars, overlapped>>

\* Past both comparisons a poll writes its count into three places.
Installs(p) == poll[p].at \in {"mark", "install", "record"}
MeetsAnother(p) == \E q \in Pollers \ {p} : Installs(q) /\ poll[q].fp # poll[p].fp

\* set_ai_scenario: nothing to do if the account knows it.
CompareWithEngine(p) ==
    /\ PollAt(p, "engine")
    /\ MovePoll(p, IF poll[p].fp = engineFp THEN "idle" ELSE "mark")
    /\ overlapped' = IF poll[p].fp = engineFp THEN overlapped ELSE MeetsAnother(p)
    /\ UNCHANGED <<runVars, engineVars>>

MarkFingerprint(p) ==
    /\ PollAt(p, "mark")
    /\ engineFp' = poll[p].fp
    /\ MovePoll(p, "install")
    /\ UNCHANGED <<runVars, aiCounts, scenario, overlapped>>

\* scenario_from_analysis: what the account trades on the count f.
ScenarioOf(f) == IF f # None /\ job[f].count = "tradeable" THEN f ELSE None

\* Faulty variant: a count without a scenario leaves the previous one in place.
InstallIfTradeable(p) ==
    /\ PollAt(p, "install")
    /\ scenario' = IF ScenarioOf(poll[p].fp) = None THEN scenario ELSE poll[p].fp
    /\ MovePoll(p, "record")
    /\ UNCHANGED <<runVars, aiCounts, engineFp, overlapped>>

\* The assignment of ai_scenario.
InstallScenario(p) ==
    /\ PollAt(p, "install")
    /\ scenario' = ScenarioOf(poll[p].fp)
    /\ MovePoll(p, "record")
    /\ UNCHANGED <<runVars, aiCounts, engineFp, overlapped>>

\* Faulty variant: the pipeline does not note what it handed on.
RecordNothing(p) ==
    /\ PollAt(p, "record")
    /\ MovePoll(p, "idle")
    /\ UNCHANGED <<runVars, engineVars, overlapped>>

RecordCount(p) ==
    /\ PollAt(p, "record")
    /\ aiCounts' = poll[p].fp
    /\ MovePoll(p, "idle")
    /\ UNCHANGED <<runVars, engineFp, scenario, overlapped>>

PollStep(p) ==
    \/ LoadAnalysis(p) \/ CompareWithCounts(p) \/ CompareWithEngine(p)
    \/ MarkFingerprint(p) \/ InstallScenario(p) \/ RecordCount(p)
-----------------------------------------------------------------------------
RunsGoOn ==
    /\ \E r \in Requests : RunStep(r)
    /\ UNCHANGED <<poll, engineVars, overlapped>>
RunsElse ==
    /\ CandleCloses \/ \E r \in Requests : RequestStep(r) \/ Age(r)
    /\ UNCHANGED <<poll, engineVars, overlapped>>

Next == RunsGoOn \/ RunsElse \/ \E p \in Pollers : PollStep(p)

\* Runs end, each after a few steps: every call of the model has a timeout.  An open chart is polled
\* every few seconds.  Nothing makes anyone ask for an analysis.
Fairness ==
    /\ WF_vars(RunsGoOn)
    /\ \A p \in Pollers : WF_vars(PollStep(p))

Spec == Init /\ [][Next]_vars /\ Fairness
-----------------------------------------------------------------------------
(* Properties.                                                             *)

\* The pipeline's record, the account's fingerprint and the scenario it trades are of
\* one count whenever nobody writes them - unless the last to write met a poll that was
\* writing another count (LiveT3Engine.apply_ai_analysis, BacktestEngine.set_ai_scenario:
\* three assignments behind two comparisons, no lock).  Then a later poll that installs
\* its count without meeting one makes them agree again.
OneCountRules == aiCounts = engineFp /\ scenario = ScenarioOf(engineFp)
CountsAgree == (\A p \in Pollers : ~Installs(p)) /\ ~overlapped => OneCountRules

\* When no analysis is running or asked for any more, polls bring the account to the
\* newest saved count and leave it there (live_state: "a re-analysis takes effect on
\* the next candle that closes").
SavedCountIsTraded == <>[](aiCounts = Stored /\ scenario = ScenarioOf(Stored))

\* So they do, however often polls have met, once the last count has been written by
\* polls that met none with another count.
UnmetCountIsTraded == <>[]~overlapped => SavedCountIsTraded
=============================================================================
