---------------------------- MODULE MCSwitchLoop ----------------------------
EXTENDS SwitchLoop

CONSTANTS t1, t2, t3, k1, k2, w1, w2

MCTasks == {t1, t2, t3}
MCKeywords == {k1, k2}
MCWindows == {w1, w2}
MCContains == [w \in MCWindows |-> IF w = w1 THEN {k1, k2} ELSE {k2}]
MCKeywordLists == {<<>>, <<k1>>, <<k2>>, <<k2, k1>>}

TaskRow(created, kws, archived) ==
    [state |-> "live", created |-> created, keywords |-> kws, archived |-> archived]

(* Three tasks of different ages; any keyword list each, any archived flag.  *)
MCTables ==
    LET age(t) == CASE t = t1 -> 0 [] t = t2 -> 1 [] t = t3 -> 2
    IN {[t \in MCTasks |-> TaskRow(age(t), kws[t], archived[t])] :
            kws \in [MCTasks -> MCKeywordLists], archived \in [MCTasks -> BOOLEAN]}
=============================================================================
