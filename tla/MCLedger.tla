------------------------------ MODULE MCLedger ------------------------------
EXTENDS Ledger

CONSTANTS t1, t2, k1

MCTasks == {t1, t2}
MCKeywords == {k1}
MCKeywordLists == {<<k1>>}
=============================================================================
