------------------------------ MODULE Accounts ------------------------------
(***************************************************************************)
(* The two accounts of trades that no exchange sees: the paper account of  *)
(* the counts, and the Lead Engine's virtual trades with the calibration   *)
(* of its scores.  They share no state, so a behaviour of this module is   *)
(* one of one of them, while the other rests: TLC checks both in one run.  *)
(***************************************************************************)
EXTENDS PaperAccount, LeadOutcomes

VARIABLE runs       \* the account that runs: "paper" or "lead"

AccountsInit ==
    /\ runs \in {"paper", "lead"} /\ Init /\ OutcomesInit
    /\ runs = "lead" => aiOnly = (CHOOSE mode \in AiModes : TRUE)  \* a resting one has one state
    /\ runs = "paper" => part = "ledger"

AccountsNext ==
    /\ runs' = runs
    /\ \/ runs = "paper" /\ Next /\ UNCHANGED <<part, tradeVars, caseVars>>
       \/ runs = "lead" /\ OutcomesNext /\ UNCHANGED vars

AccountsSpec == AccountsInit /\ [][AccountsNext]_<<runs, vars, part, tradeVars, caseVars>>
=============================================================================
