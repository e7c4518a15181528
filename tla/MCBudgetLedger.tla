---------------------------- MODULE MCBudgetLedger ----------------------------
EXTENDS BudgetLedger, TLC

Requests == Permutations(Request)
===============================================================================
