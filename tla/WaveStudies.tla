----------------------------- MODULE WaveStudies -----------------------------
(***************************************************************************)
(* The counts of a chart: the rule engine's, candle by candle; the AI      *)
(* analyst's, in one session over a chart's pivots; and the way of a saved *)
(* count to the account that trades it.  The parts share the rules         *)
(* (WaveRules) and no state, so a behaviour of this module is one of one   *)
(* of them, while the others rest: TLC checks the three in one run.        *)
(***************************************************************************)
EXTENDS LiveCounts

CONSTANTS
    Shapes, Deviation, MinBreak, MinSubCandles, MaxCandles, MaxQuiet,  \* of WaveAnalysis
    Charts, Ends, MaxMaxSteps, MinPivots, MaxRetries, MaxCalls         \* of AnalystSession

ASSUME ShapesAssumption ==
    /\ \A c \in Shapes : c.low \in Nat \ {0} /\ c.high \in Nat /\ c.low <= c.high
    /\ Deviation \in Nat \ {0} /\ MaxCandles \in Nat
ASSUME SessionAssumption ==
    /\ MaxMaxSteps \in Nat \ {0} /\ MaxRetries \in Nat /\ MaxCalls \in Nat \ {0}
    /\ Ends \in Nat \X Nat /\ Ends[1] < Ends[2]
ASSUME ChartsAssumption ==                                  \* one pivot after the other
    /\ \A c \in Charts :
          /\ c \in Seq([at : Nat, price : Nat, kind : {1, -1}, confirmed : Nat])
          /\ \A i, j \in DOMAIN c : i < j => c[i].at < c[j].at
    /\ MinPivots \in Nat \ {0}

VARIABLES
    part,                                                   \* the part that runs
    candles, tracking, high, low, pivots, trend, swing,     \* of WaveAnalysis
    scenarios, chain, attempted, subwaves,
    chart, automatic, readings, maxSteps, step, at, asked, attempt, calls,
    seenPivots, submitted, handed, accepted, result         \* of AnalystSession

Engine == INSTANCE WaveAnalysis
Session == INSTANCE AnalystSession WITH request <- asked, finished <- handed

engineOwn ==
    <<candles, tracking, high, low, pivots, trend, swing, scenarios, chain, attempted, subwaves>>
sessionVars ==
    <<chart, automatic, readings, maxSteps, step, at, asked, attempt, calls,
      seenPivots, submitted, handed, accepted, result>>

StudiesInit ==
    /\ part \in {"engine", "analyst", "live"}
    /\ part # "live" => storeKind = "sql"                    \* a resting part has one state
    /\ part # "analyst" => chart = (CHOOSE c \in Charts : TRUE) /\ maxSteps = 1
    /\ Init /\ Engine!Init /\ Session!Init

StudiesNext ==
    /\ part' = part
    /\ \/ part = "engine" /\ Engine!Next /\ UNCHANGED <<vars, sessionVars>>
       \/ part = "analyst" /\ Session!Next /\ UNCHANGED <<vars, engineOwn>>
       \/ part = "live" /\ Next /\ UNCHANGED <<engineOwn, sessionVars>>

StudiesSpec ==
    /\ StudiesInit /\ [][StudiesNext]_<<part, vars, engineOwn, sessionVars>>
    /\ WF_vars(part = "live" /\ RunsGoOn)
    /\ \A p \in Pollers : WF_vars(part = "live" /\ PollStep(p))

-----------------------------------------------------------------------------
(* The properties of the parts, stated and argued for there; a part is     *)
(* fair only while it runs.                                                *)

\* No two waves of the confirmed chain overlap (WaveAnalysis).
ChainIsOneReading == Engine!ChainIsOneReading
\* A scenario of four waves is a legal count of its structure (WaveAnalysis).
ScenariosAreLegal == Engine!ScenariosAreLegal
\* The coverage is the part of the chart that lies in some structure (AnalystSession).
CoverageIsTrue == part = "analyst" => Session!CoverageIsTrue
\* No correction is placed where a five-wave reading is legal (AnalystSession).
MotiveOutranks == part = "analyst" => Session!MotiveOutranks
\* What was accepted once is handed over (AnalystSession).
AnswerSurvives == Session!AnswerSurvives
\* The last saved count is traded at last, if the polls that install it meet no other
\* count (LiveCounts).
LastCountIsTraded == part = "live" => UnmetCountIsTraded
\* And if they do (LiveCounts).
ReanalysisTakesEffect == part = "live" => SavedCountIsTraded
-----------------------------------------------------------------------------
(* Values for the constants.  An analysis of the chart and a               *)
(* multi-timeframe run that includes it; point candles at five prices, and *)
(* one candle that spans them all; every zigzag of seven pivots at five    *)
(* prices whose second pivot is the lowest and whose last is the highest,  *)
(* at unequal times.                                                       *)

BothKinds == [r \in {"analyst", "multi"} |-> r]

Points5 == {[low |-> p, high |-> p] : p \in 10..14}
MCShapes == Points5 \cup {[low |-> 10, high |-> 14]}

MCPrices == 1..5
MCPivots == 7
Times == <<2, 22, 40, 42, 60, 80, 99, 110>>
Zigzags(k) ==
    {p \in [1..MCPivots -> MCPrices] :
        /\ p[2] = 1 /\ p[7] = 5
        /\ \A i \in 1..MCPivots - 1 : IF (i + k) % 2 = 0 THEN p[i] > p[i + 1] ELSE p[i] < p[i + 1]}
PivotAt(p, i, k) ==
    [at |-> Times[i], price |-> p[i], kind |-> IF (i + k) % 2 = 0 THEN 1 ELSE -1,
     confirmed |-> Times[i]]
MCCharts == {[i \in 1..MCPivots |-> PivotAt(p, i, 1)] : p \in Zigzags(1)}
MCEnds == <<0, 100>>
=============================================================================
