----------------------------- MODULE LeadOutcomes -----------------------------
(***************************************************************************)
(* What the Lead Engine holds its own frames to: the virtual trades on its *)
(* signals, and the calibration of its break scores.  The two share no     *)
(* state, so a behaviour of this module is one of one of them, while the   *)
(* other rests: TLC checks both in one run.                                *)
(***************************************************************************)
EXTENDS VirtualLedger

CONSTANTS
    Prices, Buckets, Horizons, MaxResolved, LoadLimit,      \* of Calibration
    LastTick, MaxHeard, MaxAsked, MaxRestarts, MaxLate

ASSUME CalibrationAssumption ==
    /\ Prices \subseteq {"low", "high"} /\ Horizons \subseteq Nat \ {0}
    /\ {MaxResolved, LoadLimit} \subseteq Nat \ {0}
    /\ {LastTick, MaxHeard, MaxAsked, MaxRestarts, MaxLate} \subseteq Nat

VARIABLES
    part,                                                               \* the part that runs
    now, heard, cases, resolved, persisted, ingest,                     \* of Calibration
    restored, drain, buffer, rows, inherited, asked, restarts

Calibrator ==
    INSTANCE Calibration WITH pending <- cases, MaxTime <- LastTick, MaxTrades <- MaxHeard,
                              MaxOpened <- MaxAsked

caseVars == <<now, heard, cases, resolved, persisted, ingest, restored, drain, buffer, rows, inherited,
              asked, restarts>>

OutcomesInit == part \in {"ledger", "calibration"} /\ LedgerInit /\ Calibrator!Init

OutcomesNext ==
    /\ part' = part
    /\ \/ part = "ledger" /\ LedgerNext /\ UNCHANGED caseVars
       \/ part = "calibration" /\ Calibrator!Next /\ UNCHANGED tradeVars

OutcomesSpec == OutcomesInit /\ [][OutcomesNext]_<<part, tradeVars, caseVars>>

-----------------------------------------------------------------------------
(* What the run feeds the machine and the ledger.                          *)

Quiet == [healthy |-> TRUE, blocked |-> FALSE, leans |-> "long", break |-> "none",
          pressure |-> "low", contested |-> FALSE, exhausted |-> "", disagree |-> FALSE]

\* A dead feed, a quiet market, a long and a short setup, a reversal.
FewTicks == {
    [Quiet EXCEPT !.healthy = FALSE],
    Quiet,
    [Quiet EXCEPT !.break = "building", !.pressure = "watch"],
    [Quiet EXCEPT !.leans = "short", !.break = "high", !.pressure = "strong"],
    [Quiet EXCEPT !.exhausted = "short", !.pressure = "watch"]}

\* Around one price, beyond a target above, and a spread wider than a stop.
FewBooks == {[bid |-> 99995, ask |-> 100005], [bid |-> 100700, ask |-> 100710],
             [bid |-> 99500, ask |-> 100500]}
-----------------------------------------------------------------------------
(* The properties of the calibration, stated and argued for there.         *)

\* A score is answered by the market after it.
OutcomesAreCausal == Calibrator!OutcomesAreCausal
\* What another process filed is not filed again, and a resend changes nothing.
FiledByOne == Calibrator!FiledByOne
=============================================================================
