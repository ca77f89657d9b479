------------------------------- MODULE Records -------------------------------
(***************************************************************************)
(* The two records of trades that outlive their process: the Lead Engine's *)
(* ledger and the research paper traders.  They share no state, so a       *)
(* behaviour of this module is one of one part, while the other rests: TLC *)
(* checks both in one run.                                                 *)
(***************************************************************************)
EXTENDS LedgerStorage

CONSTANTS
    Traders, Warmup, LoadLimit, MaxBoots, PaperTrades, MaxTime  \* of PaperTrader

ASSUME PaperAssumption ==
    /\ Warmup \in Nat /\ LoadLimit \in Nat \ {0}
    /\ {MaxBoots, PaperTrades, MaxTime} \subseteq Nat \ {0}

VARIABLES
    part,                                    \* the part that runs
    now, boot, trader, paperTable, closed    \* of PaperTrader

Paper == INSTANCE PaperTrader WITH MaxTrades <- PaperTrades, table <- paperTable

paperVars == <<now, boot, trader, paperTable, closed>>

RecordsInit == part \in {"ledger", "paper"} /\ Init /\ Paper!Init

RecordsNext ==
    /\ part' = part
    /\ \/ part = "ledger" /\ Next /\ UNCHANGED paperVars
       \/ part = "paper" /\ Paper!Next /\ UNCHANGED vars

RecordsSpec ==
    /\ RecordsInit /\ [][RecordsNext]_<<part, vars, paperVars>>
    /\ \/ part = "ledger" /\ Fairness
       \/ part = "paper" /\ Paper!Fairness

-----------------------------------------------------------------------------
(* The properties of the parts, each of which is stated and argued for in  *)
(* its own module; a part is fair only while it runs.                      *)

\* No terminal trade of the ledger waits for ever (LedgerStorage).
LedgerTradesAreFiled == part = "ledger" => EndedTradesAreFiled
\* What is held as written was written, and journalled once (PaperTrader).
JournalIsTrue == Paper!JournalIsTrue
\* What a live paper trader has closed is filed at last (PaperTrader).
ClosedTradesAreFiled == part = "paper" => Paper!ClosedTradesAreFiled
=============================================================================
