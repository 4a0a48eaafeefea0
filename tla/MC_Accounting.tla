---------------------------- MODULE MC_Accounting ----------------------------
EXTENDS Accounting

CONSTANTS A, B

MCAccounts == {A, B}

(* An amount below nMinimumInputValue and one above it.                   *)
MCMinInput == 1
MCAmounts == {0, 2}

(* Room for two moves and two wallet transactions.                        *)
MCMaxPos == 6
=============================================================================
