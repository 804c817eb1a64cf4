# colourlog in TLA+

A model of the colourlog daemon: TLA+ modules translated from `colourlog/`, TLC
configurations that check them on small instances, and TLAPS proofs of what
matters most for every instance. Paths below are relative to the repository
root; `usecases/` stands for `colourlog/application/usecases/` and `sqlite/` for
`colourlog/adapters/persistence/sqlite/`.

## 1. Inventory of the system

colourlog is a time tracker. A daemon (FastAPI on one asyncio loop, SQLite
underneath) keeps an append-only ledger of *entry events* (start a task, stop),
from which every *entry* (a stretch of time on a task) is derived. A background
ticker polls ActivityWatch every three seconds and, in auto mode, starts the
task whose keyword appears in the focused window. A GTK tray talks to the daemon
over HTTP and server-sent events.

| Component | Code | State it keeps | Operations | Interacts with |
|---|---|---|---|---|
| Entities | `domain/entities.py` | none (values) | `__post_init__` checks, `Entry.from_event` | everything |
| Entry ledger | `sqlite/entry_event_repository.py`, `sqlite/engine.py` | table `entry_events` | `append`, `latest_event`, `current_entry`, `entries_in_range`, `events_in_range` | tasks (foreign keys) |
| Decision | `usecases/resolve_auto_switch.py` | none | `resolve_auto_switch`, `compute_current_signals` | called by the ticker |
| Background ticker | `usecases/background_ticker.py` | locals of a tick; override store; its bus queue | `tick_once`, `handle_event`, `_poll_loop`, `_subscribe_loop` | ledger, tasks, mode, ActivityWatch, bus |
| Start / stop | `usecases/start_entry.py`, `stop_entry.py`, `routers/entries.py` | none | POST `/entries/start`, `/entries/stop` | ledger, bus |
| Mode | `usecases/mode.py`, `sqlite/mode_repository.py` | row `mode` of `daemon_state` | PATCH/GET `/mode` | read by every tick |
| Tasks | `usecases/crud_task.py`, `sqlite/task_repository.py` | table `tasks` | create, get, list, update, delete | projects, ledger, ticker |
| Clients, projects | `usecases/crud_client.py`, `crud_project.py` | tables `clients`, `projects` | create, get, list, update, delete | tasks |
| Event bus, SSE | `adapters/event_bus/in_memory.py`, `interface/sse/stream.py`, `routers/events.py` | a set of unbounded queues | `publish`, `subscribe` and its `finally`, GET `/events` | ticker, SSE clients |
| Lifespan | `composition/fastapi_app.py`, `__main__.py` | the stop event, the ticker's task | start-up, graceful shutdown, kill | ticker, open streams |
| Tray | `interface/tray/` | the view shown, the views GLib has yet to apply, an SSE thread, refresh threads | `_sse_loop`, `_refresh`, `_apply_view`, the menu's start, stop and exit | HTTP API, SSE |
| HTTP layer | `interface/http/` | none | validation, error mapping, wiring | use cases |

**Who runs concurrently with whom.** `async def` handlers (POST `/entries/start`
and `/stop`), `tick_once` and `handle_event` run on the event loop. None of them
really suspends between its first read and its last write (`queue.put` on an
unbounded queue returns at once, the ActivityWatch client is synchronous), so
they exclude one another. `def` handlers (PATCH `/mode`, all CRUD, all GETs) run
in Starlette's thread pool, and each SQL statement of theirs is a transaction of
its own that can commit between any two statements of a loop handler. A tick
that waits for ActivityWatch for up to five seconds gives them ample time. The
tray is a process of its own with three kinds of thread: one reads the stream, one
per line of an event asks for the current task, and the GTK thread applies the
views handed to it and makes the requests of the menu.

**What is hard.** State a tick read before the ActivityWatch call and uses after
it; events the ticker receives back through its queue later than they happened;
exceptions that end one of the two loops while the daemon looks alive; the
in-memory override next to the durable ledger across a restart; a wall clock
that steps back under an `ORDER BY ts`; ties in `ts`; a query that must pair
events before it filters them; foreign keys under racing deletes; bounds compared
as text; a client of the bus that stops reading or goes; threads of the tray that
answer in any order while the daemon dies and comes back. PROJECT.json
lists each under `hazards` at its line.

**What makes each component correct.**
- *Ledger*: entries tile time (no overlap, no gap, no entry of negative length);
  the current entry is the open one; a filter hides entries but changes none;
  recording an event cuts short at most one entry.
- *Decision*: settled by the oldest matching unarchived task alone; an override
  only holds back; a decision applied is not taken again.
- *Ticker*: it decides and appends on what is still the latest event; it never
  restarts the running task; a handled manual start is sticky, and one not yet
  handled is exposed to one tick only; after a switch to manual at most the tick
  in flight still writes; every event is handled; a window that goes on matching
  gets its task started.
- *Whole daemon*: it is a timesheet (one running entry at most, closed at the
  instant the next event is recorded, history never rewritten).
- *Catalogue*: no event, task or project names a row that is gone; a PATCH loses
  no one else's field.
- *Bus*: each client is sent an unbroken run of events, once and in order; a slow
  client holds nobody up; a client that went leaves nothing behind.
- *Tray*: no event is lost over a reconnection; at rest it shows what the ledger
  says; it ends up offline under a dead daemon and connected to a live one.
- *Lifespan*: a shutdown nothing holds up ends, whatever the two loops of the ticker
  are doing or have died of; once told to stop they record nothing, and neither is
  left behind.

## 2. Modules

```
Domain ── EntryEvents ──┬── Ledger ── MCLedger
   │                    │
   └── AutoSwitch ──────┼── Ticker ── TickerProperties ── MCTicker
            │                            └ INSTANCE Timesheet, Delivery, Tables
            └── SwitchLoop ── MCSwitchLoop
Catalog ── MCCatalog
   └ INSTANCE Tables
EventBus ──┬── Lifespan ── MCEventBus
   │       └── Tray ── MCTray
   └ INSTANCE Delivery

EntryEvents ── EntryEventsProofs ──┬── LedgerProofs (Ledger)
                                   └── AutoSwitchProofs ──┬── SwitchLoopProofs (SwitchLoop)
                                                          └── TickerProofs ── TickerSafetyProofs
                                                                                └ INSTANCE LedgerProofs
Catalog ── CatalogProofs
EventBus ── Lifespan, Tray ── DeliveryProofs
```

- **Domain** – entry events and task rows, reduced to the fields decisions are
  taken on, and the three event constructors (`StopEvent`, `ManualStart`,
  `AutoStart`). `source` stands for `source` and `match_source` together, since
  the ticker is the only writer of AUTO events and always writes WINDOW. A task
  row is `unborn`, `live` or `gone`: uuid4 ids are never reissued.
- **EntryEvents** – a ledger is a sequence in insertion order; `Latest`,
  `CurrentEntry`, `NextTs` (the `LEAD` column) and `EntriesInRange` are the
  repository's queries. `Before` is `ORDER BY ts` with ties in insertion order:
  the index `entry_events_ts_idx` orders equal keys by rowid and SQLite walks
  that index both for the window function and for `ORDER BY ts DESC LIMIT 1`.
  Stored timestamps are UTC instants. A query compares their ISO text with the
  text of its bounds, from the left: what the clock of the bound's offset shows
  decides, and when that agrees the suffixes do, none before `+00:00` before
  other `+` offsets before `-` (`TextLeq`). A bound is an instant and the offset
  the client wrote it with (one hour east, one hour west, UTC, or none), or absent.
- **AutoSwitch** – `resolve_auto_switch` as pure operators. A window stands for
  its lower-cased haystack, and the constant `Contains` says which keywords are
  substrings of it. Listing order is `created_at`, distinct per row.
- **Ticker** – the daemon's core. Variables: `ledger`, `rows`, `mode` (durable);
  `now` (the wall clock), `window` (what ActivityWatch would answer); `poll` and
  `tick` (program counter and locals of `tick_once`); `sub` and `queue` (the
  subscription); `override`; and two history variables used only by properties,
  `calm` (nothing that decides the signals changed since the manual start the
  override was captured from) and `strays` (AUTO events recorded in manual mode
  since the last PATCH).

  | Code | Action |
  |---|---|
  | the wait of `_poll_loop` timing out | `TickDue` |
  | `tick_once` up to the ActivityWatch call | `TickRead` |
  | `tick_once`, tasks, override, decision | `TickObserve` |
  | `latest_window` raising in a tick | `TickRaise` (the poll loop is dead) |
  | `tick_once`, append and publish | `TickAppend` (dead when the task is gone) |
  | `_subscribe_loop` reaching `subscribe` | `Subscribe` |
  | `handle_event` | `HandleEvent` |
  | `latest_window` raising in `handle_event` | `HandleRaise` (the subscription is dead) |
  | POST `/entries/start`, `/stop` | `StartEntry`, `StopEntry` |
  | PATCH `/mode` | `SetMode` |
  | commits of POST/PATCH/DELETE `/tasks` | `CreateTask`, `UpdateTask`, `DeleteTask` |
  | kill and restart of the process | `Restart` |
  | the user's windows, ActivityWatch going away | `FocusWindow` |

  A tick is three steps because thread-pool commits fall between its reads and
  its write. The window and `tasks.list()` are read in one step: a window switch
  commutes with a commit, so reading them apart reaches nothing new. The loop
  handlers are one step each: what they read before their insert is whether an
  id exists, and an insert for an id deleted meanwhile fails with no effect.
  After the boot the first tick runs before the subscription exists and requests
  are accepted only after it (`Serving`), which is the order `lifespan` and
  `run` create the tasks in.

  `TickDue` waits for an empty queue. An event put on the queue makes the
  subscription ready at once, the tick that may have put it goes on to wait on a
  timer, and asyncio runs what was ready before it looks at timers; and once it
  runs, `_subscribe_loop` suspends only on an empty queue. A tick already due is
  in line, and requests that run before it leave events it overtakes.
- **TickerProperties** – every property of Ticker, the inductive strengthenings
  the proofs use, and the refinement mappings to Timesheet, Delivery and Tables.
- **Timesheet** – what the daemon promises its user: one running entry at most,
  closed entries that never change, an instant that only advances.
- **Delivery** – what the bus promises a subscriber: from the moment it attaches it
  is handed every event, one by one in the order of the ledger, until it is
  detached. There are no queues in it: `recorded` counts the events, `upto` says up
  to which each of those `attached` has been brought. EventBus implements it for
  the clients of GET `/events` (`upto` is the last event sent) and Ticker for its own
  subscription (`upto` is the event before the head of its queue). The two model
  the bus apart, with different granularity, and Delivery is what they agree on.
- **Tables** – what the database promises whoever names a row: created once, with a
  parent that is there, and gone only when nothing names it. Each operation is one
  step. Catalog implements it with requests of several statements in several
  threads (its `state`, its `parent` fields, its `tracked`), and Ticker, whose task
  requests are single commits, for the rows its events name. That Ticker may
  leave out what the CRUD handlers read first rests on this: the same abstract
  tables allow every step of either.
- **Ledger** – the repository alone over arbitrary timestamps, with the
  reference projection of `tests/application/fakes.py`.
- **SwitchLoop** – the decision alone, in a loop with its own effects and with
  the `afk` argument, which `BackgroundTicker` never passes.
- **Catalog** – clients, projects and tasks under the handlers of the thread
  pool. `state` and `fields` are the three tables (`parent` is `client_id` or
  `project_id`, `label` every field that is patched like the name), `tracked` the
  tasks entry events name, `thread` the locals of each pool thread. The three
  kinds of row share their actions, since their handlers differ only in which
  parent a row has (`ParentsOf`).

  | Code | Action |
  |---|---|
  | `Create*`: the parent is looked up | `PostRow` |
  | `Update*`: the row is read and merged with the body | `PatchRow` |
  | `UpdateProject`, `UpdateTask`: a new parent is looked up | `FindParent` |
  | `Delete*`: the row is looked up | `DeleteRow` |
  | the `INSERT`, `UPDATE`, `DELETE` and the answer | `CommitCreate`, `CommitUpdate`, `CommitDelete` |
  | an entry event is inserted | `TrackTask` |

  An answer is `ok`, `missing` (404) or `error` (the IntegrityError nobody
  catches, a 500). `raced` is history for two properties: since the request's
  first read another one has written the row it works on, or the parent its
  write will name.

- **EventBus** – the bus seen by the clients of GET `/events`, and the life of the
  process. Variables: `phase` of the process; `events`, the ledger in its order;
  `subscribers`, whose queues the bus holds; per client its connection `stream`,
  its `queue`, what was `sent` on the connection, and `since`, history: how many
  events there were when it subscribed.

  | Code | Action |
  |---|---|
  | `StartEntry`, `StopEntry`, the ticker: append, then `publish` | `Record` |
  | GET `/events`, `subscribe` | `Subscribe` |
  | `sse_stream` taking an event and sending it | `Send` |
  | the handler cancelled, the `finally` of `subscribe` | `Discard` |
  | SIGTERM; the end of `lifespan`; SIGKILL; start | `Shutdown`, `Stop`, `Kill`, `Boot` |
  | a client that goes, or finds its connection broken | `Leave`, `Broken` |

  Recording and publishing are one step, since no put on an unbounded queue
  suspends. Uvicorn waits for open connections before it lets `lifespan` go on,
  so `Stop` waits for every stream that is open.
- **Lifespan** – EventBus with the tasks of its process, turn by turn: what EventBus
  has as the one step `Stop` takes `lifespan`, `run` and the two loops several turns
  here. `stop` is the stop event, `run`, `poll` and `sub` are the three tasks of the
  ticker, `cancelled` the loops that `cancel()` was called on and that have not run
  since, `pending` whether the ticker's own queue holds an event. An action is one
  turn of one task, up to where it suspends.

  | Code | Action |
  |---|---|
  | a start or stop requested; a client's stream | `Handler`; `Streams` |
  | SIGTERM; SIGKILL; the next process, up to the first turn of `run` | `Sigterm`, `Killed`, `Started` |
  | `lifespan` behind its `yield`: `stop.set()`, then `await run_task` | `LifespanStops`, `LifespanEnds` |
  | `run`: the `finally`, the end of `gather` | `RunCancels`, `RunEnds` |
  | `_poll_loop`: the wait running out; `CancelledError`, the test of the `while`, a tick | `Timeout`; `PollCancelled`, `PollStops`, `PollTicks` |
  | `_subscribe_loop`: `CancelledError`, its first turn, events | `SubCancelled`, `SubBegins`, `SubHandles` |

  Ready tasks take their turns in any order, of which asyncio's is one. The poll
  loop may therefore run before or after it is cancelled, with the event set: it
  ends either way. A loop that raised is `dead`, and `cancel()` passes it by. What a
  tick decides is Ticker's matter; here it records a start, or nothing, or raises.
- **Tray** – EventBus with one client, `tray`, whose threads are modelled. `loop`
  and `lines` are where the SSE thread is and how many lines it has read;
  `asking` and `answers` the refresh threads before and after their answer;
  `idle` the views handed to `GLib.idle_add`; `view` and `menu` the GTK thread's.
  `newest` and `late` are history: what the last refresh to be answered learnt,
  and whether the answer handed over last had been overtaken.

  | Code | Action |
  |---|---|
  | `_sse_loop`: the connection, its headers, a line | `SseConnect`, `SseOpened`, `SseLine` |
  | `_sse_loop`: refused, broken, the delay before the next try | `SseRefused`, `SseBroken`, `SseRetry` |
  | `_refresh`: the answer of GET `/current`, then `idle_add` | `Ask`, `HandOver` |
  | `_apply_view` | `ApplyView` |
  | the menu: start, stop; the request; its end; an error status | `ClickStart`, `ClickStop`, `Post`, `Posted`, `PostFailed` |
  | exit, and the tray started again | `Exit`, `Launch` |

  The SSE thread starts a refresh for each line `event:` and `data:`, so two for
  each event. What is running is the last event recorded, which is the latest by `ts`
  while the clock does not step back. The GTK thread applies nothing while it waits for a request. The
  back-off is a state without a length: how long it lasts matters to no property.

A definition that imitates a bug (a lifo queue, a handler in the thread pool, a
missing mode gate ...) stands before the definition it would replace and is used
by no specification; its comment starts with `Bug`. Each property of a passing
run has one of them that breaks it (`StopIsFinal` two, one for each of its halves).

## 3. Runs

| Run | Question | Bounds |
|---|---|---|
| `MCTicker.cfg` | Is anything a tick uses stale? Does the override follow the ledger? Is a manual start sticky, and exposed to one tick only before? Do references hold? Is a tick in auto mode ever wasted? Is it all a timesheet, a subscriber of the bus, a user of the tables? Under every request, malformed answers and kills. | 3 events, 2 instants, 2 tasks created, edited and deleted, 2 windows |
| `MCTickerLive.cfg` | Do both loops live on, whatever PATCHes commit between a decision and its insert? Is every event handled, does auto mode follow the window? | 3 events, 2 instants, 2 tasks archived and re-keyed, 2 windows, no faults |
| `MCLedger.cfg` | Are the queries right for every ledger? | 4 events, 3 instants: ties and steps back |
| `MCCatalog.cfg` | Do references hold, do deleted rows stay deleted, is an undisturbed PATCH exact, does a foreign key fail a handler only after a race? Do the requests come to atomic operations on the tables? | 1 client, 1 project, 1 task, 2 threads |
| `MCSwitchLoop.cfg` | Is the decision right for every table and override, and does it settle? | 3 tasks, 4 keyword lists, 2 keywords |
| `MCEventBus.cfg` | Is each client sent an unbroken run? Does a slow one hold up the other, or leave its queue behind? Is it all Delivery? Is a stop final, and does a shutdown end, from every state of the two loops? | a client that reads, one that may never; 3 events; any number of kills, boots and reconnections |
| `MCTray.cfg` | Is an event lost over a reconnection? Is a tray at rest right? Does it end up offline, or connected? | 1 task, 1 event at boot and 1 more, 2 refresh threads, 2 views not yet applied |

`MaxEvents` silences the *environment* once the ledger is that long; the ticker
itself is never stopped by a bound, so its liveness is not cut off. Three events
hold a manual start, a tick's answer to it and one more to disturb them, and the
ticker may add to them; all of Ticker's safety is proved without the bound.
Two tasks suffice for a
switch; MCSwitchLoop takes three, because the order of candidates matters there.
`w1` contains both keywords and `w2` only the second, so tasks compete for `w1`.
Catalog needs no bound on requests: ids are born and die once, so its state space
is finite; two threads make every race its properties speak of, and those are
proved for any number. One client is enough for a project to leave a client that
is then deleted. The bodies (`MCPatches`) rename, archive, unarchive, move, clear,
and clear and move at once; a body the id's endpoint does not accept is filtered
by `PatchesFor`.

Three events on the bus let one client have some sent, some queued and miss some by
coming late, next to another in a different state. In the tray two refresh threads
and two views are the least that overtake each other; a click, a thread and a view
wait when the bound is reached, which real ones would not, so a run with more
threads differs by order only. What `MCTray` checks as invariants is proved for
any bounds.

`PendingIsSuffix` and `NoResurrection` are proved and in no run: TLC checks what
implies them, `ImplementsSubscription` (each event handed is the next of the ledger)
and `ImplementsTables` (no step leads out of `gone`).

The `Requests` and `Faults` constants choose per run what the environment does.

`CHECK_DEADLOCK FALSE` stands where the system may really stop: with both loops
dead (or, in Ledger, the table at its bound) and a silent environment there is
no step left. `MCTickerLive` does without: its loops live.

**Fairness.**
- *Ticker* (`FairSpec`, used by `MCTickerLive` and two of the violations): weak
  fairness of the ticker's own steps and of the subscription. asyncio runs what is
  ready, `wait_for(..., poll_interval)` makes the next tick due, and no tick falls
  due over a pending event, so `HandleEvent` needs no strong fairness. Requests,
  window switches and faults are never forced. AutoFollows claims nothing for a
  task already running or under an override captured from the same signals.
- *Lifespan* (`LifeFairness`): asyncio gives each task that is ready a turn:
  lifespan, `run` and the two loops, each on its own, so that the end of a shutdown
  is a consequence over six or more of their turns. It runs a stream that has
  something to send as well, but sending also waits for the client, so only the
  clients named `Readers` are sent what is theirs. Nobody has to connect, leave,
  record, kill or boot, and no interval to pass.
- *Tray* (`FairSpec`): the operating system runs the threads, GLib applies the
  views, requests end (`httpx` has a timeout). The user, the process and everyone
  else are free. `Settles` therefore assumes a user who leaves the menu alone and
  a daemon that stays up, `OfflineShown` one that stays down.

**Violations: where the code and its tests disagree.** Each run checks one claim
of a test beyond the one schedule or input the test runs; PROJECT.json
(`findings`) quotes it.

| Run | Claim that fails | Why |
|---|---|---|
| `MCDeleteKillsPoll.cfg` | the running poll loop writes events | a racing DELETE makes the insert raise; the loop ends silently |
| `MCSubscriberDies.cfg` | a stop clears the override | a malformed answer ends the subscription for good |
| `MCClockStepsBack.cfg` | after a stop nothing runs | the stop is stamped before the start |
| `MCCatalogLost.cfg` | a PATCH of the name leaves `archived` alone | two PATCH requests read the same row and each writes all of it back |
| `MCRangeOffset.cfg` | a range selects the events between its bounds | a bound with another offset than UTC is compared as text |

Two more consequences of the same causes have no run of their own. While the
clock is behind the latest event, an AUTO start never becomes the latest, so every
tick records it again; and a PATCH whose row is deleted between the check and the
UPDATE, whose row count nobody looks at, answers 200 (`CommitUpdate`).

What the code does and nothing in the repository denies is no violation, but is
worth knowing. After a switch to manual mode one AUTO event may still be recorded,
by the tick that had read the old mode (`AtMostOneStray`). A user who is away with
nothing running falls through to the window logic of `resolve_auto_switch`, so that
before a window that matches it would start and stop the task in turn;
`DecisionSettles` has this as its one exception. It is latent, since no afk is ever
passed. A `to` without an offset never includes an
event at that very instant, whose text is longer. A tray at rest may be wrong in
the two ways `QuietMeansRight` names: a refresh thread overtook a later one, or the
last request timed out against a loop that waits for ActivityWatch. A shutdown
waits for an attached tray for as long as it stays, and the ticker goes on
recording meanwhile. A rename pushes nothing, so the tray shows the old name until
the next event. A start repeated after a timeout is recorded twice. A second SIGINT makes
uvicorn skip the end of `lifespan`, and asyncio cancels what is left.

A disagreement between two doubles, found on the way: with equal timestamps the
tests' in-memory `latest_event` returns the first inserted event (`max`), SQLite
the last.

## 4. Proofs

TLAPS checks every proof; none rests on an unproved fact. The assumptions are
those named in the modules (`DomainAssumption`, `WindowAssumption`,
`TickerAssumption`, `LedgerAssumption`, `LoopAssumption`, `CatalogAssumption`,
`BusAssumption`, `TrayAssumption`): ids and `None` are distinct, bounds are
naturals, tasks are created at distinct instants, the tray is a client and no task
is called like one of its views. The theorems hold for any sets of tasks, keywords,
windows, threads and clients, any requests and any faults.

| Theorem | Says | Argument |
|---|---|---|
| `Typed` (TickerProofs) | `Spec => []TypeInvariant` | inductive by itself; uses that a decision is typed (`StartAutoJustified`) and `Latest` a position (`LatestType`) |
| `Referential` | `Spec => []RefIntegrity` | relative to types: an event is recorded only for live rows, and only an unreferenced row dies |
| `StraysHold` (TickerSafetyProofs) | `Spec => []AtMostOneStray` | `DecisionInv` below |
| `NeverRestarts` | `Spec => NoAutoRestart` | the same invariant |
| `OverrideIsSticky` | `Spec => StickyOverride` | the same invariant |
| `DecisionsStayGood` | `[]TickSeesLatest`, `[]DecisionStillGood` | the same invariant |
| `SubscriberHolds`, `OverrideFollows` | `[]PendingIsSuffix`, `[]OverrideTracksLedger` | `SubscriberInv`: also that nothing is queued or held before the subscription |
| `SubscriptionImplements` | `Spec => ImplementsSubscription` | `SubscriberInv`: `HandledIs` turns the head of the queue into a position of the ledger |
| `TicksCount` | `Spec => EveryTickCounts` when the clock does not step back | `DecisionInv` with `DecisionExact`; `ChronoInv` for the appended event being the latest |
| `LoopsOutlive` | `Spec => []LoopsSurvive` | `SurvivalInv`: while nobody deletes, the row of a decision stays, whatever else is committed |
| `QueriesHold`, `HistoryKept` | `[]TimelineFaithful`, `[]OneOpenEntry`, `[]ProjectionMatchesReference`, `CutsOneEntry` of the daemon's own ledger, clock and all | `LedgerIsLedger`: the daemon's ledger is one Ledger's proofs speak of; they are instantiated |
| `ExposureHolds` | `Spec => []ExposedToOneTick` | `ExposureInv`: from the moment a tick is due until it ends no AUTO event is pending |
| `TaskTableImplements` (TickerProofs) | `Spec => ImplementsTaskTable` | a recorded event names live rows (`RecordNames`), a commit is one operation on a row (`WriteRowImplements`) |
| `Implements` (TickerProofs) | `Spec => ImplementsTimesheet` when the clock does not step back | `ChronoInv`: the ledger is chronological and not ahead of the clock |
| `OneOpenEntryHolds` (LedgerProofs) | the open entry of the list is the current entry | `OpenEntryIsCurrent`: `Before` is a total order, so exactly the greatest position has no successor |
| `TimelineHolds` | `Spec => []TimelineFaithful` | `CoversIffInEffect`: an entry ends at the least later position (`EndIsNext`), so it covers an instant exactly when its event is the greatest up to it |
| `CutsOneHolds` | `Spec => CutsOneEntry` | `KeepsEnd`: an end changes only if the new event comes directly after; `OneEnd`: that is true of one event |
| `ProjectionHolds`, `LedgerTyped` | `[]ProjectionMatchesReference`, `[]LedgerTypeOK` | `SortedIs`: ranks are a bijection, so the reference's sorted walk visits every event once; `NextInRank`: the next rank is what `LEAD` finds; `UtcTextIsInstant` |
| `OverrideHolds`, `LoopSettles`, `LoopTyped` (SwitchLoopProofs) | `[]OverrideOnlyHolds`, `DecisionSettles`, `[]LoopTypeOK` | by cases of the decision, `LoopInv` for the types |
| `WinnerHolds` | `[]OnlyTheWinnerCounts` | `WinnerStays`: with distinct creation instants the oldest candidate stays the oldest without another |
| `ReferencesHold`, `CatalogTyped` (CatalogProofs) | `Spec => []RefsHold`, `Spec => []CatalogTypeOK`, any number of threads | `IInv` below |
| `DeletedStaysDeleted` | `Spec => NoResurrection` | the same: an id being created has no row yet |
| `ErrorsAreRaces`, `PatchesAreExact` | `Spec => ErrorsNeedARace`, `Spec => UndisturbedPatchIsExact` | the same: what an unraced request holds is current |
| `CatalogImplements` | `Spec => ImplementsTables`, any number of threads | the same: `Sound` makes the statement of a request a step of the tables |
| `BusTyped`, `RunsAreContiguous` (DeliveryProofs) | `BusSpec => []BusTypeOK`, `BusSpec => []ContiguousRun`, any number of clients | `BusInv`, inductive with the types; a step touches one client's run or extends all |
| `BusImplements`, `TrayImplements` | `BusSpec => ImplementsDelivery`, and so for Tray's `Spec` | `BusInv`: the last event sent is as far from `since` as the run is long (`LastOfRun`) |
| `TurnsImplementBus`, `ProcessDelivers` | `LifeSpec => BusSpec`, and so `LifeSpec => ImplementsDelivery` | each turn of a task is a step of the bus or a stutter |
| `StopHolds` | `LifeSpec => StopIsFinal` | `RunOutlives`: once `run` is done both loops have ended, and an ended loop has no turn |
| `TrayTyped`, `NothingMissed` | `Spec => []TrayTypeOK`, `Spec => []NoEventMissed` | `TrayInv` below |
| `RightWhenQuiet` | `Spec => []QuietMeansRight` | `TrayInv` below |
| `StartAutoJustified`, `DecisionExact` (AutoSwitchProofs) | what a StartAuto implies; when exactly the decision is to start, and to stop | by cases of the decision |
| `MatchExact` | there is a match exactly when a listed task has a keyword in the window; it is the oldest such, with its first such keyword | `OldestType` and the least index of a hit |

*`DecisionInv`.* The three action properties speak of the moment of the append,
but the decision was taken a step earlier on facts read two steps earlier. So
the invariant carries the facts along: what the tick read as the latest event
is still the latest (`TickSeesLatest`); a decision waiting to be appended is
still good (`DecisionStillGood`: taken in auto mode, not for the running task,
not against a calm override); while calm, the override names the signals of this
very moment (`CalmMeansHeld`, without which the tick could decide against it);
and after a stray no other tick still holds the old mode (`StraysBounded`). Each
is preserved because loop handlers wait for the tick to end, which is what
`LoopFree` says and what the mutant `LoopHandlerInThreadPool` breaks.

*`ExposureInv`.* That two AUTO events are never pending together is not inductive:
it has to be known that while a tick is due or under way none is. A tick falls due
on an empty queue, handlers add manual events and stops only, and the tick's own
event is its last step; `RecordExposure` and `HandleExposure` say what the two
steps that touch the queue do to the pending events.

*`SurvivalInv`.* That a loop lives is not inductive: a tick about to append dies when
its task has gone. While nobody deletes, the invariant adds that the task of a
decision in flight is a live row, which it was when `tasks.list()` returned it and
which no other commit changes.

*Delivery.* The mappings speak of the last event a subscriber was handed, the code
of a queue of those it was not. `BusInv` says that what was sent and what is queued
make one unbroken run from `since` to the end of the ledger; so the last one sent
is `since` plus the number sent, a send adds one to it, and recording changes it
for nobody. The ticker's subscription is the same with `PendingIsSuffix`. A kill, a
failing handler and a client that leaves are all `Detach`: what they lose is what
was still to be handed, and after them nothing is.

*Tables.* The statement that ends a request acts on what the request read some steps
before. `Sound` says that this still allows the step: the id being created is
still unborn, and the parent it names is of the right kind; that the parent is
there, and the row for an UPDATE, the statement itself finds out.

*The daemon's ledger.* Ledger proves the queries right for every ledger, and
Ticker builds particular ones. `Queries == INSTANCE LedgerProofs` takes the lemmas
over (`TimelineOf`, `OneOpenEntryOf`, `ProjectionOf`, `AppendCutsOne`), so that
they hold of what ticks, handlers, restarts and a clock stepping back leave behind,
where `Implements` has to assume that it does not step back.

*`Implements`.* In a chronological ledger the order of `ORDER BY ts` is the
order of insertion (`ChronologicalBefore`), an entry ends at the event after its
own (`ChronologicalEnd`), so appending an event closes exactly the running entry
at the new timestamp (`AppendInOrder`). Every step of the daemon is then a
start, a stop, a passing of time or a stutter.

*`IInv` of CatalogProofs.* References hold because of what the requests in flight
carry, so the invariant speaks of each of them (`Sound`): its row is of the kind
its parent field says, an id being created has no row yet and no other request
works on it (`Alone`), and a request that has not raced holds the merge of what
the table holds now and a parent that is there. Every step either changes one
thread's state alone (`BecomeSafe`) or answers and marks those it has raced
(`FinishSafe`), and these two lemmas carry the induction for all actions.

*`TrayInv`.* `NoEventMissed` relates the newest answer to the stream, so the
invariant has three more parts. `BusInv` is the invariant of the bus, in which the
tray is a client like any other. `LinkInv` says what the SSE thread may believe of
its connection: which states of the stream go with which place of the loop, and
that it has read no more lines than were sent on it. `AnswersInv` follows the newest
answer while nothing was recorded after it: either it is the last one not handed
over, and shows the ledger, or all those not handed over are late, and then it is
what the indicator is about to show, unless a late one was handed over after it or
another refresh is to come. A quiet tray has nothing left to hand over or apply, so
the view shown is that answer.

*Only model-checked*: liveness (`EventsHandled`, `AutoFollows`,
`DeliveredToReaders`, `ShutdownEnds`, `OfflineShown`, the tray's `Settles`), which is
out of the prover's reach.

## 5. Not modelled, and why

- Text: trimming of names, lower-casing and substring search (`Contains` stands
  for it), tags, notes, the layout of labels, the JSON of an event.
- `database is locked` errors of SQLite, and ActivityWatch latency itself (a
  tick may take any time, but the loop is blocked while it does).
- Lists and single GETs of the catalogue: they only read, in one statement.
- The widgets of the tray and its dialog, of which only the result is modelled;
  names, so that a rename is no event (above).
- HTTP schemas, error mapping, dependency wiring, container, logging, packaging:
  declarative, without state. The status codes that matter to a caller are those
  of the actions (`missing` and `error` of Catalog, `PostFailed` of Tray).

## 6. Plan

Done: Domain, EntryEvents with text timestamps, AutoSwitch, Ticker, Timesheet,
Ledger, SwitchLoop, Catalog, EventBus, Lifespan, Tray, the abstract
Delivery and Tables, and the proofs of every safety property and every refinement
the runs check.

Left, in this order:

1. The liveness of Ticker and of the bus stated against Delivery: that whoever stays
   attached and reads is brought up to every event. A run, since it is liveness.
2. An abstract specification of the tray (it shows what the ledger says, or is about
   to refresh) and Tray shown to implement it; today `NoEventMissed` and
   `QuietMeansRight` say this of single states.
3. An instance of Tray with a second task and three refresh threads, if the
   liveness of the run can be paid for.
