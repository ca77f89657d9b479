--------------------------- MODULE AnalystSession ---------------------------
(***************************************************************************)
(* One run of the AI analyst over one chart (ai_advisor/analyst.py,        *)
(* run_analyst, with the toolbox of analyst_tools.py): a loop of requests  *)
(* to a language model, each answered by prose, by tool calls or by a      *)
(* failure.  The chart also has the automatic count of deep_count.py.      *)
(*                                                                         *)
(* What the model says is its own choice.  A structure it submits is       *)
(* <<first pivot, last pivot>> of a reading the rules accept, or Illegal.  *)
(***************************************************************************)
EXTENDS DeepCount

CONSTANTS
    Charts,        \* pivot series
    Ends,          \* <<first, last>>: the times of the first and the last candle
    MaxMaxSteps,   \* MAX_MAX_STEPS
    MinPivots,     \* MIN_PIVOTS_FOR_A_COUNT
    MaxRetries,    \* MAX_RATE_LIMIT_RETRIES
    MaxCalls       \* bound: tool calls of one turn

VARIABLES
    chart,       \* the pivots of the chart
    automatic,   \* its automatic count
    readings,    \* what the rules accept anywhere on it: check_count's verdicts
    maxSteps,    \* the run's step budget
    step,        \* number of the step, from 0
    at,          \* "turn", "request", "calls", "done" (returned), "raised"
    request,     \* the instructions the current request carries
    attempt,     \* how often it has been answered by "busy"
    calls,       \* tool calls of the turn still to execute
    seenPivots,
    submitted,   \* a submit_count has been recorded
    finished,    \* AnalystToolbox.finished
    accepted,    \* the structures accepted so far
    result       \* AnalystResult, or <<>> before the run returns

toolbox == <<seenPivots, submitted, finished, accepted>>
chartVars == <<chart, automatic, readings>>
vars == <<chartVars, maxSteps, step, at, request, attempt, calls, toolbox, result>>

Plain == [bank |-> FALSE, final |-> FALSE, forced |-> FALSE]

ReadingsOf(ps) == {<<s.from, s.to>> : s \in UNION {LegalAt(ps, i) : i \in DOMAIN ps}}

Init ==
    /\ chart \in Charts
    /\ automatic = CountOf(chart, MinPivots) /\ readings = ReadingsOf(chart)
    /\ maxSteps \in 1..MaxMaxSteps
    /\ step = 0 /\ at = "turn" /\ request = Plain /\ attempt = 0 /\ calls = 0
    /\ seenPivots = FALSE /\ submitted = FALSE /\ finished = FALSE
    /\ accepted = <<>> /\ result = <<>>
-----------------------------------------------------------------------------
(* What the run returns, with the reason it stopped.                       *)

Return(stepsUsed, why) ==
    /\ at' = "done"
    /\ result' = [accepted |-> accepted', finished |-> submitted', steps |-> stepsUsed, why |-> why]

Raise == at' = "raised" /\ UNCHANGED result

\* The wall clock has passed the budget.
OverBudget ==
    /\ at = "turn" /\ step > 0
    /\ UNCHANGED <<chartVars, maxSteps, step, request, attempt, calls, toolbox>>
    /\ Return(step, "budget")

\* BANK_PARTIAL_NUDGE, FINAL_STEP_NUDGE and the pinned tool choice.
Halfway == step = maxSteps \div 2 /\ step < maxSteps - 1 /\ ~submitted
FinalStep == step = maxSteps - 1

Ask ==
    /\ at = "turn"
    /\ request' = [bank |-> Halfway, final |-> FinalStep /\ ~finished,
                   forced |-> FinalStep /\ seenPivots]
    /\ at' = "request" /\ attempt' = 0
    /\ UNCHANGED <<chartVars, maxSteps, step, calls, toolbox, result>>

\* _post: a rate limit, or a provider that is busy, before the stream or in it.
Busy ==
    /\ at = "request" /\ attempt < MaxRetries
    /\ attempt' = attempt + 1
    /\ UNCHANGED <<chartVars, maxSteps, step, at, request, calls, toolbox, result>>

\* The call fails, is busy once too often, or the turn is empty: AIAdvisorError.
RequestFails ==
    /\ at = "request"
    /\ UNCHANGED <<chartVars, maxSteps, step, request, attempt, calls, toolbox>>
    /\ IF step = 0 THEN Raise ELSE Return(step, "error")

AnswerInProse ==
    /\ at = "request"
    /\ UNCHANGED <<chartVars, maxSteps, step, request, attempt, calls, toolbox>>
    /\ Return(step + 1, "prose")

AnswerWithCalls ==
    /\ at = "request"
    /\ calls' \in 1..MaxCalls /\ at' = "calls" /\ attempt' = 0
    /\ UNCHANGED <<chartVars, maxSteps, step, request, toolbox, result>>
-----------------------------------------------------------------------------
(* AnalystToolbox.call.                                                    *)

Calling == at = "calls" /\ calls > 0
Called ==
    /\ calls' = calls - 1
    /\ UNCHANGED <<chartVars, maxSteps, step, at, request, attempt, result>>

\* list_pivots with a usable deviation.
ListPivots ==
    /\ Calling /\ Called
    /\ seenPivots' = TRUE
    /\ UNCHANGED <<submitted, finished, accepted>>

\* Every other reading tool, an unknown one, arguments that are no JSON, and
\* every ToolError and TypeError: answered, and nothing changes.
Inspect ==
    /\ Calling /\ Called
    /\ UNCHANGED toolbox

\* int() and float() of an argument that is no number raise a ValueError
\* (get_candles, fibonacci_confluence, expected_bars of submit_count).
ArgumentRaises ==
    /\ Calling
    /\ UNCHANGED <<chartVars, maxSteps, step, request, attempt, calls, toolbox>>
    /\ Raise

SpanOf(s) == <<chart[s[1]].at, chart[s[2]].at>>

SpansOf(structures) == {SpanOf(s) : s \in ToSet(structures)}
Complete(structures) ==
    LET spans == SpansOf(structures)
        length == Ends[2] - Ends[1]
    IN  10 * Covered(spans) >= 9 * length \/ Gaps(spans, Ends[1], Ends[2]) = {}

\* Faulty variant: a new answer replaces the old one.
SubmitAfresh(proposed, complete) ==
    /\ accepted' = proposed
    /\ submitted' = TRUE
    /\ finished' = (complete \/ Complete(accepted'))
    /\ UNCHANGED seenPivots

\* submit_count: what the rules accept of the proposal is added; the rest of
\* it is rejected.  The duplicate of a structure is kept as well.
Submit(proposed, complete) ==
    /\ accepted' = accepted \o proposed
    /\ submitted' = TRUE
    /\ finished' = (complete \/ Complete(accepted'))
    /\ UNCHANGED seenPivots

SubmitCount ==
    /\ Calling /\ Called
    /\ \E complete \in BOOLEAN : \E proposed \in {<<>>} \cup {<<s>> : s \in readings} :
          Submit(proposed, complete)
-----------------------------------------------------------------------------
\* The calls of a turn are executed: the next step, unless the toolbox has
\* finished or the budget is used up.
EndTurn ==
    /\ at = "calls" /\ calls = 0
    /\ UNCHANGED <<chartVars, maxSteps, request, attempt, calls, toolbox>>
    /\ IF finished THEN UNCHANGED step /\ Return(step + 1, "finished")
       ELSE IF FinalStep THEN UNCHANGED step /\ Return(step + 1, "steps")
       ELSE step' = step + 1 /\ at' = "turn" /\ UNCHANGED result

Turn == Ask \/ Busy \/ RequestFails \/ AnswerInProse \/ AnswerWithCalls
Tools == ListPivots \/ Inspect \/ ArgumentRaises \/ SubmitCount \/ EndTurn
Next == OverBudget \/ Turn \/ Tools

\* The loop runs until it ends: requests and tools return.
Spec == Init /\ [][Next]_vars /\ WF_vars(Turn \/ Tools)
-----------------------------------------------------------------------------
(* Properties.                                                             *)

Ended == at \in {"done", "raised"}

\* What was accepted once is handed over, whatever the model service does to
\* the run afterwards: failures, the time budget, prose, further answers
\* (run_analyst).  A tool that raises still loses it, which is why "calls" is
\* excepted.
AnswerSurvives ==
    [][/\ IsPrefix(accepted, accepted')
       /\ submitted /\ Ended' /\ (at = "calls" => at' = "done")
            => at' = "done" /\ result'.finished /\ IsPrefix(accepted, result'.accepted)]_vars

\* The measured coverage is the part of the chart that lies in some accepted
\* structure, and the gaps are what lies in none, slivers excepted (coverage_of).
Units(spans) == UNION {(s[1] + 1)..s[2] : s \in spans}
CoverageIsTrue ==
    LET spans == SpansOf(accepted)
        units == Units(spans)
        gaps == Gaps(spans, Ends[1], Ends[2])
    IN  /\ Covered(spans) = Cardinality(units)
        /\ Units(gaps) \cap units = {}
        /\ \A u \in (Ends[1] + 1)..Ends[2] \ (units \cup Units(gaps)) :
              \E v \in units \cup {Ends[1], Ends[2] + 1} : 20 * Abs(u - v) <= Ends[2] - Ends[1] + 20

\* Where the rules accept a five-wave motive reading no correction is placed,
\* however poorly its proportions fit - a correction's count as neutral - and
\* structures are placed one after the other (deep_count.py).
MotiveOutranks ==
    LET placed == automatic.placed
    IN  /\ \A k \in DOMAIN placed :
              placed[k].structure \notin Structures =>
                  \A t \in Structures : ~Fits(chart, placed[k].from, t, 5)
        /\ \A k \in 1..Len(placed) - 1 : placed[k].to <= placed[k + 1].from
        /\ placed # <<>> /\ automatic.developing # <<>> =>
              Last(placed).to <= automatic.developing[1].from

=============================================================================
