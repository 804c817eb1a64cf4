----------------------------- MODULE SwitchLoop -----------------------------
(* resolve_auto_switch in a closed loop with the effects of its decisions,   *)
(* with every argument its signature takes, afk included (BackgroundTicker   *)
(* never passes one).  One step decides and applies: the decision becomes    *)
(* the latest event, and handle_event then clears the override, since        *)
(* neither an AUTO start nor a stop keeps it.                                *)
EXTENDS AutoSwitch

CONSTANT InitRows     \* the task tables to decide over

(* Tasks are created at distinct instants.                                   *)
ASSUME LoopAssumption ==
    /\ InitRows \subseteq Rows
    /\ \A rows \in InitRows : \A t, u \in Live(rows) :
          rows[t].created = rows[u].created => t = u

VARIABLES mode, rows, window, afk,     \* what a decision reads from outside
          running,                     \* the task of the latest event, or None
          override, decision

inputs == <<mode, rows, window, afk>>
loop == <<mode, rows, window, afk, running, override, decision>>

LoopTypeOK == decision \in Decisions /\ override \in Overrides /\ running \in Tasks \cup {None}

Init ==
    /\ mode \in {"manual", "auto"}
    /\ rows \in InitRows
    /\ window \in Windows \cup {None}
    /\ afk \in BOOLEAN
    /\ running \in Live(rows) \cup {None}
    /\ override \in {NoOverride} \cup {Override(k) : k \in Keywords \cup {None}}
    /\ decision = NoOp

Decide ==
    LET d == ResolveAutoSwitch(mode, running, window, rows, override, afk)
    IN /\ decision' = d
       /\ running' = IF d.kind = "noop" THEN running ELSE d.task
       /\ override' = IF d.kind = "noop" THEN override ELSE NoOverride
       /\ UNCHANGED inputs

(* The user switches windows, leaves, or comes back.                         *)
Change ==
    /\ window' \in Windows \cup {None}
    /\ afk' \in BOOLEAN
    /\ UNCHANGED <<mode, rows, running, override, decision>>

Next == Decide \/ Change

Spec == Init /\ [][Next]_loop

-----------------------------------------------------------------------------
Again == ResolveAutoSwitch(mode, running, window, rows, override, afk)

(* Away, in front of a window that matches a task: with nothing running the  *)
(* code falls through to the window logic and starts the task, and with the  *)
(* task running it stops it.                                                 *)
AwayBeforeAMatch == mode = "auto" /\ afk /\ MatchWindow(rows, window).task # None

(* A decision settles: whatever it was, it is NoOp when it is taken again on *)
(* what it led to, or the ledger would grow by an event every poll_interval. *)
(* resolve_auto_switch has one exception, in full: away before a match it    *)
(* starts and stops the task in turn, and only what is NoOp there stays so.  *)
DecisionSettles ==
    [][Decide => IF AwayBeforeAMatch /\ decision'.kind # "noop"
                 THEN Again'.kind = (IF decision'.kind = "start" THEN "stop" ELSE "start")
                 ELSE Again'.kind = "noop"]_loop

(* Only the task that wins counts: archiving any other task, older or newer, *)
(* matching or not, leaves the decision alone, and archiving the winner      *)
(* never lets it win again.                                                  *)
OnlyTheWinnerCounts ==
    \A t \in Live(rows) :
        LET without == [rows EXCEPT ![t].archived = TRUE]
            d == ResolveAutoSwitch(mode, running, window, without, override, afk)
        IN IF t = MatchWindow(rows, window).task THEN d.task # t ELSE d = Again

(* An override only ever holds back: with one held the decision is either    *)
(* the one without it, or NoOp because the window still gives the keyword    *)
(* the override was captured with; being away goes before both.              *)
OverrideOnlyHolds ==
    LET free == ResolveAutoSwitch(mode, running, window, rows, NoOverride, afk)
    IN Again = IF free.kind = "start" /\ override = Override(free.keyword)
               THEN NoOp ELSE free
=============================================================================
