-------------------------- MODULE TickerProperties --------------------------
(* What the ticker promises, and what the repository's tests say it does.    *)
EXTENDS Ticker

Last(s) == s[Len(s)]

(* A step in which the ticker records an AUTO event.                         *)
AutoAppended == Len(ledger') > Len(ledger) /\ Last(ledger').source = "auto"

-----------------------------------------------------------------------------
(* Safety *)

(* Every event in the ledger, including what __post_init__ demands of it.    *)
TypeInvariant == TypeOK /\ \A i \in DOMAIN ledger : WellFormed(ledger[i])

(* The subscriber misses nothing and reorders nothing: while it is alive,    *)
(* what it has still to handle is exactly the last events of the ledger, in  *)
(* ledger order (append and publish are one step of the loop).               *)
PendingIsSuffix ==
    sub = "waiting" =>
        /\ Len(queue) <= Len(ledger)
        /\ \A i \in DOMAIN queue : queue[i] = Len(ledger) - Len(queue) + i

(* The override is never stale: it is held only while the last event handled *)
(* is a manual start (handle_event clears it on a stop and on an AUTO start, *)
(* and a restart forgets it).                                                *)
OverrideTracksLedger ==
    sub = "waiting" /\ override.held =>
        LET handled == Len(ledger) - Len(queue)
        IN handled > 0 /\ ledger[handled].source = "manual"

(* Deleting tasks never leaves an event whose task or subtask is gone, so    *)
(* GetCurrentTask never answers 404 for the running entry.                   *)
RefIntegrity ==
    \A i \in DOMAIN ledger : {ledger[i].task, ledger[i].subtask} \ {None} \subseteq Live(rows)

(* What a tick read of the ledger is still the ledger's latest event when it *)
(* decides and when it appends, however long ActivityWatch takes to answer.  *)
TickSeesLatest ==
    poll \in {"observe", "append"} => tick.latest = Latest(ledger)

(* A decision waiting to be appended is still a good one: taken in auto      *)
(* mode, for a task other than the one running now, and against no sticky    *)
(* manual start.                                                             *)
DecisionStillGood ==
    poll = "append" => /\ tick.mode = "auto"
                       /\ tick.decision.task # Running(ledger)
                       /\ ~calm

(* The mode may be switched off under a tick that has already read it; that  *)
(* tick is the only one that can still record an AUTO event.                 *)
AtMostOneStray == strays <= 1

(* The ticker never starts the task that is already running.                 *)
NoAutoRestart == [][AutoAppended => Running(ledger) # Last(ledger').task]_vars

(* A manual start is sticky: once its event is handled, and until the window *)
(* or the task table changes, the ticker does not switch away from it, not   *)
(* even with a decision taken before something else happened.                *)
StickyOverride == [][AutoAppended => ~calm]_vars

(* No tick in auto mode is wasted, however long it waited for its answer: it *)
(* records the match and that becomes the running task, or there was nothing *)
(* to record (no match, the match is running now, or the override held names *)
(* the signals of this moment).  AutoFollows rests on this.                  *)
EveryTickCounts ==
    [][/\ poll = "observe" /\ poll' = "sleeping" /\ tick.mode = "auto" =>
              \/ MatchWindow(rows, window).task \in {None, Running(ledger)}
              \/ override = Override(Signals(window, rows))
       /\ AutoAppended => Running(ledger') = tick.decision.task]_vars

(* A decision is inserted a while after tasks.list() was read, and PATCHes   *)
(* and creates commit meanwhile: the task decided on may have been archived  *)
(* or have lost the keyword that won.  The insert still finds its row, and   *)
(* the poll loop goes on; nor does any event end the subscription.  What the *)
(* code does let end them is left out: a DELETE of the task decided on, and  *)
(* an answer of ActivityWatch that cannot be read.                           *)
LoopsSurvive ==
    /\ "aw" \notin Faults => sub # "dead"
    /\ "aw" \notin Faults /\ "delete" \notin Requests => poll # "dead"

(* Until its event is handled a manual start is exposed to the ticker, but   *)
(* to one tick only: of the events still pending at most one is AUTO, since  *)
(* the subscription catches up between two ticks (_poll_loop waits for       *)
(* poll_interval, _subscribe_loop suspends only on an empty queue).          *)
ExposedToOneTick ==
    \A i, j \in DOMAIN queue :
        ledger[queue[i]].source = "auto" /\ ledger[queue[j]].source = "auto" => i = j

-----------------------------------------------------------------------------
(* Inductive strengthenings.  None of the properties above is inductive by   *)
(* itself; TickerProofs proves these instead.                                *)

(* While the override of a calm manual start is held it names the signals of *)
(* this very moment.                                                         *)
CalmMeansHeld == calm => override = Override(Signals(window, rows))

(* After a stray AUTO event no other tick holds the old mode.                *)
StraysBounded ==
    /\ strays \in {0, 1}
    /\ strays = 1 =>
          mode = "manual" /\ ~ (poll \in {"observe", "append"} /\ tick.mode = "auto")

DecisionInv ==
    TypeInvariant /\ TickSeesLatest /\ DecisionStillGood /\ CalmMeansHeld /\ StraysBounded

(* Before the subscription there is no override and there are no pending     *)
(* events; a dead subscriber has none pending.                               *)
SubscriberInv ==
    /\ TypeInvariant /\ PendingIsSuffix /\ OverrideTracksLedger
    /\ sub # "waiting" => queue = <<>>
    /\ sub = "starting" => ~override.held

(* From the moment a tick falls due until it is over no AUTO event is        *)
(* pending, so the one it may record is the only one.                        *)
PendingAuto == {i \in DOMAIN queue : ledger[queue[i]].source = "auto"}

ExposureInv ==
    /\ SubscriberInv
    /\ ExposedToOneTick
    /\ poll \in {"created", "due", "observe", "append"} => PendingAuto = {}

(* While nobody deletes, the row a decision names stays where it is.         *)
SurvivalInv ==
    /\ TypeInvariant /\ LoopsSurvive
    /\ "delete" \notin Requests /\ poll = "append" => tick.decision.task \in Live(rows)

-----------------------------------------------------------------------------
(* Refinement *)

(* The timesheet the repository's queries show: current_entry, and the       *)
(* entries of entries_in_range that have an end.                             *)
ClosedEntries == {e \in Entries(ledger) : e.end # Open}

Sheet == INSTANCE Timesheet WITH
    running  <- CurrentEntry(ledger),
    closed   <- ClosedEntries,
    recorded <- Len(ledger),
    clock    <- now

(* While the clock does not step back, the event ledger, the ticker, the     *)
(* handlers, every interleaving and every restart together behave like a     *)
(* timesheet: one running entry at most, closed at the very instant the      *)
(* next event is recorded, and history that is never rewritten.              *)
ImplementsTimesheet == Sheet!Spec

(* The ticker is one more subscriber of the bus: what it has handled so far  *)
(* is all of the ledger but the events still in its queue.                   *)
Handled == IF queue = <<>> THEN Len(ledger) ELSE Head(queue) - 1

Feed == INSTANCE Delivery WITH
    Subscribers <- {"ticker"},
    recorded    <- Len(ledger),
    attached    <- IF sub = "waiting" THEN {"ticker"} ELSE {},
    upto        <- [s \in {"ticker"} |-> IF sub = "waiting" THEN Handled ELSE 0]

(* _subscribe_loop is handed the events recorded since it subscribed, one by *)
(* one and in the order of the ledger, its own AUTO events included, however *)
(* far its ticks and the handlers get ahead of it; and a death of the        *)
(* subscription or of the process loses those pending and no others.         *)
ImplementsSubscription == Feed!Spec

NamedTasks ==
    {t \in Tasks : \E i \in DOMAIN ledger : t \in {ledger[i].task, ledger[i].subtask}}

TaskRows == INSTANCE Tables WITH
    Ids     <- Tasks,
    Parents <- [t \in Tasks |-> {None}],
    state   <- [t \in Tasks |-> rows[t].state],
    parent  <- [t \in Tasks |-> None],
    named   <- NamedTasks

(* The task rows live as Catalog's do while ticks and handlers name them: no *)
(* event, not even one decided before a DELETE, names a row that is not      *)
(* there at the insert, and none of those named ever goes.                   *)
ImplementsTaskTable == TaskRows!Spec

-----------------------------------------------------------------------------
(* Liveness *)

(* Every event the ticker's queue receives is handled.                       *)
EventsHandled ==
    \A i \in 1..(MaxEvents + 2) :
        (\E j \in DOMAIN queue : queue[j] = i) ~> (\A j \in DOMAIN queue : queue[j] # i)

(* When the mode stays auto and the window goes on matching t, t gets        *)
(* started, unless a manual start made under the same signals is held.       *)
Follows(t) ==
    <>[](mode = "auto" /\ MatchWindow(rows, window).task = t)
        => []<>(\/ Running(ledger) = t
                \/ override = Override(Signals(window, rows)))

AutoFollows == \A t \in Tasks : Follows(t)

-----------------------------------------------------------------------------
(* What the tests say *)

(* test_current_entry_is_none_after_stop: after a stop nothing is running.   *)
StopStops ==
    [][Len(ledger') > Len(ledger) /\ IsStop(Last(ledger')) => Running(ledger') = None]_vars

(* test_stop_event_clears_override: an override does not outlive a stop.     *)
StopClearsOverride ==
    \A i \in 1..MaxEvents :
        (i = Len(ledger) /\ IsStop(ledger[i])) ~> (~override.held \/ Len(ledger) > i)

(* test_poll_loop_writes_events: a running ticker in auto mode records the   *)
(* task the window matches.                                                  *)
PollLoopWritesEvents == AutoFollows
=============================================================================
