------------------------------- MODULE Ticker -------------------------------
(* The daemon's core: the background ticker, the entry ledger it shares with *)
(* the HTTP handlers, and the sticky override it keeps from the events it    *)
(* receives back (application/usecases/background_ticker.py, start_entry.py, *)
(* stop_entry.py, mode.py, interface/http/routers/entries.py).               *)
(*                                                                           *)
(* Two kinds of code run at once.                                            *)
(*   - The event loop runs tick_once, handle_event and the `async def'       *)
(*     handlers of POST /entries/start and /stop.  None of them suspends     *)
(*     between its first read and its last write (putting on an unbounded    *)
(*     queue does not suspend), so they exclude one another: LoopFree.       *)
(*   - The thread pool runs the `def' handlers: PATCH /mode and the CRUD of  *)
(*     tasks.  Each of their statements commits between any two statements   *)
(*     of a loop handler, so a tick is three steps: TickRead, TickObserve    *)
(*     and TickAppend.  The other loop handlers are one step each: what they *)
(*     read before their insert is an id, and ids are never reissued, so     *)
(*     they commute with the commits in between.                             *)
EXTENDS EntryEvents, AutoSwitch

CONSTANTS
    InitRows,    \* the task tables the daemon may find at its first boot
    Requests,    \* what clients ask for: a subset of RequestKinds
    Faults,      \* what may go wrong: a subset of FaultKinds
    MaxEvents,   \* bound: the environment is silent once the ledger is this long
    MaxTime      \* bound: the last instant the clock can show

RequestKinds == {"start", "subtask", "stop", "mode", "create", "update", "delete"}

(* "aw": ActivityWatch answers 200 with a body latest_window cannot read;    *)
(* "clock": the wall clock steps back; "crash": the process is killed.       *)
FaultKinds == {"aw", "clock", "crash"}

ASSUME TickerAssumption ==
    /\ InitRows \subseteq Rows
    /\ Requests \subseteq RequestKinds
    /\ Faults \subseteq FaultKinds
    /\ MaxEvents \in Nat
    /\ MaxTime \in Nat

VARIABLES
    ledger,     \* entry_events, in insertion order                  (durable)
    rows,       \* tasks                                             (durable)
    mode,       \* daemon_state['mode']                              (durable)
    now,        \* the last instant the system clock showed
    window,     \* what ActivityWatch would answer, None for no answer
    poll,       \* where _poll_loop is
    tick,       \* the local state of tick_once
    sub,        \* where _subscribe_loop is
    queue,      \* the ticker's queue on the event bus: positions in the ledger
    override,   \* the override store
    calm,       \* history: nothing that decides the signals has changed since
                \* the manual start the override was captured from
    strays      \* history: AUTO events appended since the last PATCH /mode,
                \* while the mode was manual

durable == <<ledger, rows, mode>>
vars == <<ledger, rows, mode, now, window, poll, tick, sub, queue, override, calm, strays>>

Ticks == [mode: {"manual", "auto"}, latest: Nat, decision: Decisions]
IdleTick == [mode |-> "manual", latest |-> 0, decision |-> NoOp]

TypeOK ==
    /\ ledger \in Seq(Event)
    /\ rows \in Rows
    /\ mode \in {"manual", "auto"}
    /\ now \in 0..MaxTime
    /\ window \in Windows \cup {None}
    /\ poll \in {"created", "observe", "append", "sleeping", "due", "dead"}
    /\ tick \in Ticks
    /\ sub \in {"starting", "waiting", "dead"}
    /\ queue \in Seq(Nat)
    /\ override \in Overrides
    /\ calm \in BOOLEAN
    /\ strays \in Nat

(* The daemon boots: the poll loop has been created before the subscription. *)
Boot ==
    /\ poll = "created"
    /\ tick = IdleTick
    /\ sub = "starting"
    /\ queue = <<>>
    /\ override = NoOverride
    /\ calm = FALSE

Init ==
    /\ ledger = <<>>
    /\ rows \in InitRows
    /\ mode = "manual"                  \* ModeRepository.get without a row
    /\ now \in 0..MaxTime
    /\ \A t \in Live(rows) : rows[t].created <= now
    /\ window \in Windows \cup {None}
    /\ strays = 0
    /\ Boot

-----------------------------------------------------------------------------
Bounded == Len(ledger) < MaxEvents

(* No request is accepted before the loop has registered the subscription.   *)
Serving == sub # "starting"

LoopFree == poll \in {"sleeping", "due", "dead"}

(* Where an `async def' handler may run.  Bug: the handlers of /entries are  *)
(* declared `def', and so run in the thread pool, beside a tick.             *)
LoopHandlerInThreadPool == Serving
LoopHandler == Serving /\ LoopFree

(* SystemClock.now *)
ReadClock(ts) ==
    /\ ts \in 0..MaxTime
    /\ ts >= now \/ "clock" \in Faults
    /\ now' = ts

(* append, then publish: the new event also goes to the ticker's own queue,  *)
(* once it has one.  Bug: the queue is a stack (asyncio.LifoQueue).          *)
RecordLifo(e) ==
    /\ ledger' = Append(ledger, e)
    /\ queue' = IF sub = "waiting" THEN <<Len(ledger) + 1>> \o queue ELSE queue
Record(e) ==
    /\ ledger' = Append(ledger, e)
    /\ queue' = IF sub = "waiting" THEN Append(queue, Len(ledger) + 1) ELSE queue

-----------------------------------------------------------------------------
(* POST /entries/start.  An archived task is accepted.                       *)
StartEntry(t, s) ==
    /\ "start" \in Requests /\ Bounded /\ LoopHandler
    /\ t \in Live(rows)
    /\ s # None => "subtask" \in Requests /\ s \in Live(rows)
    /\ \E ts \in 0..MaxTime : ReadClock(ts) /\ Record(ManualStart(ts, t, s))
    /\ UNCHANGED <<rows, mode, window, poll, tick, sub, override, calm, strays>>

(* POST /entries/stop.  It never checks that something is running.           *)
StopEntry ==
    /\ "stop" \in Requests /\ Bounded /\ LoopHandler
    /\ \E ts \in 0..MaxTime : ReadClock(ts) /\ Record(StopEvent(ts))
    /\ UNCHANGED <<rows, mode, window, poll, tick, sub, override, calm, strays>>

(* PATCH /mode *)
SetMode(m) ==
    /\ "mode" \in Requests /\ Bounded /\ Serving
    /\ mode' = m
    /\ strays' = 0
    /\ UNCHANGED <<ledger, rows, now, window, poll, tick, sub, queue, override, calm>>

(* A commit of the task CRUD.  What its handlers read first is Catalog's     *)
(* concern; here only the row they write matters.                            *)
WriteRow(t, row) ==
    /\ Bounded /\ Serving
    /\ rows' = [rows EXCEPT ![t] = row]
    /\ calm' = FALSE
    /\ UNCHANGED <<ledger, mode, window, poll, tick, sub, queue, override, strays>>

CreateTask(t, kws) ==
    /\ "create" \in Requests
    /\ rows[t].state = "unborn"
    /\ \E ts \in 0..MaxTime :
          /\ \A u \in Live(rows) : rows[u].created # ts
          /\ ReadClock(ts)
          /\ WriteRow(t, [state |-> "live", created |-> ts, keywords |-> kws,
                          archived |-> FALSE])

UpdateTask(t, kws, archived) ==
    /\ "update" \in Requests
    /\ t \in Live(rows)
    /\ WriteRow(t, [rows[t] EXCEPT !.keywords = kws, !.archived = archived])
    /\ UNCHANGED now

(* The foreign keys of entry_events: an event names rows that exist, and a   *)
(* row some event names stays.  Bugs: the connection does not switch them on *)
(* (PRAGMA foreign_keys), or subtask_id is declared without REFERENCES, or   *)
(* the insert refuses a task archived since the decision.                    *)
ForeignKeysOff(t) == t \in Tasks
ForeignKeysOfListed(t) == t \in Listed(rows)
ForeignKeys(t) == t \in Live(rows)

ReferencedAsTask(t) == \E i \in DOMAIN ledger : t = ledger[i].task
Referenced(t) == \E i \in DOMAIN ledger : t \in {ledger[i].task, ledger[i].subtask}

DeleteTask(t) ==
    /\ "delete" \in Requests
    /\ t \in Live(rows)
    /\ ~Referenced(t)
    /\ WriteRow(t, Blank("gone"))
    /\ UNCHANGED now

(* The user switches windows, or ActivityWatch goes away or comes back.      *)
FocusWindow(w) ==
    /\ Bounded
    /\ w # window
    /\ window' = w
    /\ calm' = FALSE
    /\ UNCHANGED <<durable, now, poll, tick, sub, queue, override, strays>>

-----------------------------------------------------------------------------
(* Bug: _poll_loop goes on to the next tick without waiting.                 *)
TickDueAtOnce ==
    /\ poll = "sleeping"
    /\ Serving
    /\ poll' = "due"
    /\ UNCHANGED <<durable, now, window, tick, sub, queue, override, calm, strays>>

(* The wait of _poll_loop times out.  It takes poll_interval, and meanwhile  *)
(* the loop has run what was ready: _subscribe_loop has registered, and has  *)
(* handled all that was queued (it suspends only when its queue is empty).   *)
TickDue ==
    /\ poll = "sleeping"
    /\ Serving
    /\ queue = <<>>
    /\ poll' = "due"
    /\ UNCHANGED <<durable, now, window, tick, sub, queue, override, calm, strays>>

(* tick_once, first reads: modes.get() and events.latest_event().  The first *)
(* tick runs before _subscribe_loop gets its first step, and a tick that is  *)
(* due may run before an event published after it fell due.                  *)
TickRead ==
    /\ poll \in {"created", "due"}
    /\ poll' = "observe"
    /\ tick' = [mode |-> mode, latest |-> Latest(ledger), decision |-> NoOp]
    /\ UNCHANGED <<durable, now, window, sub, queue, override, calm, strays>>

LatestTask(i) == IF i = 0 THEN None ELSE ledger[i].task

(* tick_once, after the call to ActivityWatch returns: tasks.list(),         *)
(* override_store.get() and the decision.  No AfkSnapshot is ever passed.    *)
TickObserve ==
    /\ poll = "observe"
    /\ LET d == ResolveAutoSwitch(tick.mode, LatestTask(tick.latest), window,
                                  rows, override, FALSE)
       IN IF d.kind = "start"
          THEN poll' = "append" /\ tick' = [tick EXCEPT !.decision = d]
          ELSE poll' = "sleeping" /\ tick' = IdleTick
    /\ UNCHANGED <<durable, now, window, sub, queue, override, calm, strays>>

(* latest_window raises: only TimeoutError is suppressed, and not here, so   *)
(* the exception ends the task.                                              *)
TickRaise ==
    /\ "aw" \in Faults
    /\ poll = "observe"
    /\ poll' = "dead"
    /\ tick' = IdleTick
    /\ UNCHANGED <<durable, now, window, sub, queue, override, calm, strays>>

(* append and publish; IntegrityError when the task was deleted meanwhile.   *)
TickAppend ==
    /\ poll = "append"
    /\ tick' = IdleTick
    /\ IF ForeignKeys(tick.decision.task)
       THEN /\ \E ts \in 0..MaxTime :
                  /\ ReadClock(ts)
                  /\ Record(AutoStart(ts, tick.decision.task, tick.decision.keyword))
            /\ poll' = "sleeping"
            /\ strays' = IF mode = "manual" THEN strays + 1 ELSE strays
       ELSE /\ poll' = "dead"
            /\ UNCHANGED <<ledger, queue, now, strays>>
    /\ UNCHANGED <<rows, mode, window, sub, override, calm>>

-----------------------------------------------------------------------------
(* _subscribe_loop's first step: the queue joins the event bus.              *)
Subscribe ==
    /\ sub = "starting"
    /\ LoopFree
    /\ sub' = "waiting"
    /\ UNCHANGED <<durable, now, window, poll, tick, queue, override, calm, strays>>

NextEvent == ledger[Head(queue)]

(* What handle_event leaves in the override store.  Bug: AUTO events are     *)
(* taken for none of its business.                                           *)
OverrideAfterIgnoringAuto(e) ==
    CASE e.source = "manual" -> Override(Signals(window, rows))
      [] e.source = "none"   -> NoOverride
      [] e.source = "auto"   -> override
OverrideAfter(e) ==
    IF e.source = "manual" THEN Override(Signals(window, rows)) ELSE NoOverride

(* handle_event.  Bug: a `return' that leaves _subscribe_loop after a stop.  *)
HandleEventUntilStop ==
    /\ sub = "waiting" /\ LoopFree
    /\ queue # <<>>
    /\ override' = OverrideAfter(NextEvent)
    /\ IF IsStop(NextEvent) THEN sub' = "dead" /\ UNCHANGED queue
                            ELSE queue' = Tail(queue) /\ UNCHANGED sub
    /\ calm' = (NextEvent.source = "manual")
    /\ UNCHANGED <<durable, now, window, poll, tick, strays>>
HandleEvent ==
    /\ sub = "waiting" /\ LoopFree
    /\ queue # <<>>
    /\ queue' = Tail(queue)
    /\ override' = OverrideAfter(NextEvent)
    /\ calm' = (NextEvent.source = "manual")
    /\ UNCHANGED <<durable, now, window, poll, tick, sub, strays>>

(* handle_event's latest_window raises: the subscription is closed.          *)
HandleRaise ==
    /\ "aw" \in Faults
    /\ sub = "waiting" /\ LoopFree
    /\ queue # <<>> /\ NextEvent.source = "manual"
    /\ sub' = "dead"
    /\ queue' = <<>>
    /\ UNCHANGED <<durable, now, window, poll, tick, override, calm, strays>>

(* The process dies and is started again: what was in memory is lost.        *)
Restart ==
    /\ "crash" \in Faults /\ Bounded
    /\ poll' = "created" /\ tick' = IdleTick
    /\ sub' = "starting" /\ queue' = <<>>
    /\ override' = NoOverride
    /\ calm' = FALSE
    /\ UNCHANGED <<durable, now, window, strays>>

-----------------------------------------------------------------------------
LoopRequest == StopEntry \/ \E t \in Tasks, s \in Tasks \cup {None} : StartEntry(t, s)

TaskRequest ==
    \E t \in Tasks :
        \/ DeleteTask(t)
        \/ \E kws \in KeywordLists :
              CreateTask(t, kws) \/ \E a \in BOOLEAN : UpdateTask(t, kws, a)

Environment ==
    \/ LoopRequest
    \/ TaskRequest
    \/ \E m \in {"manual", "auto"} : SetMode(m)
    \/ \E w \in Windows \cup {None} : FocusWindow(w)
    \/ Restart

Tick == TickDue \/ TickRead \/ TickObserve \/ TickRaise \/ TickAppend

Subscriber == Subscribe \/ HandleEvent \/ HandleRaise

Next == Environment \/ Tick \/ Subscriber

(* The loop keeps turning: waits time out, a due tick runs, and so does a    *)
(* queued event, which at most one tick can overtake.  Nothing forces a      *)
(* request, a fault or a window switch.                                      *)
Fairness ==
    /\ WF_vars(TickDue) /\ WF_vars(TickRead) /\ WF_vars(TickObserve) /\ WF_vars(TickAppend)
    /\ WF_vars(Subscribe) /\ WF_vars(HandleEvent)

Spec == Init /\ [][Next]_vars
FairSpec == Spec /\ Fairness
=============================================================================
