--------------------------- MODULE MCLedgerOpening ---------------------------
(* Two processes that open one file of the version before ledger_spend.    *)
EXTENDS LedgerOpening

CONSTANTS p1, p2, f1

MCScenarios == [version : {8}, file : [Processes -> Files], old : {{}}]
=============================================================================
