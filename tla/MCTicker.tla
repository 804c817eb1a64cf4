------------------------------ MODULE MCTicker ------------------------------
(* Instances of Ticker for TLC: two tasks, the older one called t1, keywords *)
(* that windows can share, and the absent window.                            *)
EXTENDS TickerProperties

CONSTANTS t1, t2, k1, k2, w1, w2

MCTasks == {t1, t2}
MCKeywords == {k1, k2}
MCWindows == {w1, w2}

(* w1 mentions both keywords, w2 only the second.                            *)
MCContains == [w \in MCWindows |-> IF w = w1 THEN {k1, k2} ELSE {k2}]

MCKeywordLists == {<<k1>>, <<k2>>}

TaskRow(created, kws) ==
    [state |-> "live", created |-> created, keywords |-> kws, archived |-> FALSE]

(* t1 is older and follows k1, t2 follows k2: w1 picks t1, w2 picks t2.      *)
MCSeeded == {[t \in MCTasks |-> IF t = t1 THEN TaskRow(0, <<k1>>) ELSE TaskRow(1, <<k2>>)]}

(* Tables that change: t1 is there, t2 may be created, both follow k1.       *)
MCOneKeyword == {<<k1>>}

MCOneTask == {[t \in MCTasks |-> IF t = t1 THEN TaskRow(0, <<k1>>) ELSE Blank("unborn")]}
=============================================================================
