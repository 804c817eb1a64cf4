------------------------------ MODULE Lifespan ------------------------------
(* The daemon's process, turn by turn, around its event bus: uvicorn, the    *)
(* lifespan of the app, run() and its two loops are tasks of one asyncio     *)
(* loop (composition/fastapi_app.py,                                         *)
(* application/usecases/background_ticker.py).  What EventBus has as the one *)
(* step Stop takes lifespan, run() and both loops several turns here.        *)
(*                                                                           *)
(* An action is one turn of one task: what it does until it suspends.  Tasks *)
(* that are ready take their turns in any order; asyncio's own order, first  *)
(* come first served, is one of them.  A cancelled task gets CancelledError  *)
(* in its next turn, whatever else has woken it meanwhile.                   *)
EXTENDS EventBus

VARIABLES
    stop,         \* the stop event of lifespan
    run,          \* run(): "waiting" for the event, "gathering", "done"
    poll,         \* _poll_loop: "ready" to start or to go on from its wait,
                  \* "sleeping" in it, "done", or "dead" of an exception
    sub,          \* _subscribe_loop: "ready" to start, "waiting" for its queue, ...
    cancelled,    \* the loops cancel() was called on, and that have not run since
    pending       \* is there an event in the ticker's own queue?

lifeVars == <<stop, run, poll, sub, cancelled, pending>>
allVars == <<busVars, lifeVars>>

Ended(state) == state \in {"done", "dead"}

(* run() has had its first turn, which lifespan queued before its yield: the *)
(* loops are created.                                                        *)
LifeInit ==
    /\ BusInit
    /\ stop = FALSE
    /\ run = "waiting" /\ poll = "ready" /\ sub = "ready"
    /\ cancelled = {} /\ pending = FALSE

-----------------------------------------------------------------------------
(* Requests and streams.                                                     *)

(* append and publish: the ticker's own queue gets the event as well, while  *)
(* it is on the bus.                                                         *)
OwnQueue == pending' = (pending \/ sub = "waiting")

(* uvicorn accepts requests when the start-up is over, the subscription      *)
(* registered, and has answered the last of them before lifespan goes on.    *)
Handler ==
    /\ sub # "ready" /\ ~stop
    /\ Recording
    /\ OwnQueue
    /\ UNCHANGED <<stop, run, poll, sub, cancelled>>

Streams(c) ==
    /\ \/ sub # "ready" /\ Subscribe(c)
       \/ Server(c)
       \/ Leave(c) \/ Broken(c)
    /\ UNCHANGED lifeVars

-----------------------------------------------------------------------------
(* The process.                                                              *)

Sigterm == Shutdown /\ UNCHANGED lifeVars

(* No stream is open any more, and lifespan is resumed behind its yield:     *)
(* stop.set() wakes whoever waits for the event, and run_task is awaited.    *)
LifespanStops ==
    /\ phase = "closing" /\ ~stop
    /\ \A c \in Clients : stream[c] # "open"
    /\ stop' = TRUE
    /\ poll' = IF poll = "sleeping" THEN "ready" ELSE poll
    /\ UNCHANGED <<busVars, run, sub, cancelled, pending>>

(* With the process everything in its memory goes.                           *)
Gone ==
    /\ stop' = FALSE
    /\ run' = "none" /\ poll' = "none" /\ sub' = "none"
    /\ cancelled' = {} /\ pending' = FALSE

(* run_task has ended, and so do lifespan, uvicorn and the process.          *)
LifespanEnds ==
    /\ stop /\ run = "done"
    /\ Stop
    /\ Gone

Killed == Kill /\ Gone

Started ==
    /\ Boot
    /\ stop' = FALSE
    /\ run' = "waiting" /\ poll' = "ready" /\ sub' = "ready"
    /\ cancelled' = {} /\ pending' = FALSE

-----------------------------------------------------------------------------
(* run().                                                                    *)

(* The `finally': cancel() reaches a loop that has not ended, and wakes it.  *)
(* Bug: only the poll loop is cancelled.                                     *)
RunCancelsPoll ==
    /\ run = "waiting" /\ stop
    /\ run' = "gathering"
    /\ cancelled' = {l \in {"poll"} : ~Ended(poll)}
    /\ poll' = IF poll = "sleeping" THEN "ready" ELSE poll
    /\ UNCHANGED <<busVars, stop, sub, pending>>
RunCancels ==
    /\ run = "waiting" /\ stop
    /\ run' = "gathering"
    /\ cancelled' = {l \in {"poll", "sub"} : ~Ended(IF l = "poll" THEN poll ELSE sub)}
    /\ poll' = IF poll = "sleeping" THEN "ready" ELSE poll
    /\ UNCHANGED <<busVars, stop, sub, pending>>

(* gather with return_exceptions waits for both, however either ends.  Bug:  *)
(* without it, the first of them that has failed ends the wait.              *)
GatheredUnlessFailed == (Ended(poll) /\ Ended(sub)) \/ poll = "dead" \/ sub = "dead"
Gathered == Ended(poll) /\ Ended(sub)

RunEnds ==
    /\ run = "gathering"
    /\ Gathered
    /\ run' = "done"
    /\ UNCHANGED <<busVars, stop, poll, sub, cancelled, pending>>

RunTurn == RunCancels \/ RunEnds

-----------------------------------------------------------------------------
(* _poll_loop.                                                               *)

(* poll_interval has passed.  It may in the very turn in which the event is  *)
(* set, before or after.                                                     *)
Timeout ==
    /\ poll = "sleeping"
    /\ poll' = "ready"
    /\ UNCHANGED <<busVars, stop, run, sub, cancelled, pending>>

(* CancelledError, which is not the TimeoutError that is suppressed.         *)
PollCancelled ==
    /\ poll = "ready" /\ "poll" \in cancelled
    /\ poll' = "done" /\ cancelled' = cancelled \ {"poll"}
    /\ UNCHANGED <<busVars, stop, run, sub, pending>>

(* The test of the `while'.                                                  *)
PollStops ==
    /\ poll = "ready" /\ "poll" \notin cancelled
    /\ stop
    /\ poll' = "done"
    /\ UNCHANGED <<busVars, stop, run, sub, cancelled, pending>>

(* tick_once records a start or nothing; or it raises, and the loop ends.    *)
TickOnce ==
    /\ \/ /\ poll' = "sleeping"
          /\ Len(events) < MaxEvents
          /\ \E t \in Tasks : Record(t)
          /\ OwnQueue
       \/ poll' \in {"sleeping", "dead"} /\ UNCHANGED <<busVars, pending>>
    /\ UNCHANGED <<stop, run, sub, cancelled>>

(* Bug: `while True', the cancellation being taken to be enough.             *)
PollTicksUnchecked ==
    /\ poll = "ready" /\ "poll" \notin cancelled
    /\ TickOnce
PollTicks ==
    /\ poll = "ready" /\ "poll" \notin cancelled
    /\ ~stop
    /\ TickOnce

PollTurn == PollCancelled \/ PollStops \/ PollTicks

-----------------------------------------------------------------------------
(* _subscribe_loop, which does not look at the event.                        *)

SubCancelled ==
    /\ sub \in {"ready", "waiting"} /\ "sub" \in cancelled
    /\ sub' = "done" /\ cancelled' = cancelled \ {"sub"}
    /\ pending' = FALSE
    /\ UNCHANGED <<busVars, stop, run, poll>>

(* Its first turn adds the queue to the bus.                                 *)
SubBegins ==
    /\ sub = "ready" /\ "sub" \notin cancelled
    /\ sub' = "waiting"
    /\ UNCHANGED <<busVars, stop, run, poll, cancelled, pending>>

(* One turn handles all that is pending, or raises on the way.               *)
SubHandles ==
    /\ sub = "waiting" /\ "sub" \notin cancelled
    /\ pending
    /\ sub' \in {"waiting", "dead"}
    /\ pending' = FALSE
    /\ UNCHANGED <<busVars, stop, run, poll, cancelled>>

SubTurn == SubCancelled \/ SubBegins \/ SubHandles

-----------------------------------------------------------------------------
Uvicorn ==
    \/ Handler
    \/ \E c \in Clients : Streams(c)
    \/ Sigterm \/ Killed \/ Started

LifeNext ==
    \/ Uvicorn
    \/ LifespanStops \/ LifespanEnds
    \/ RunTurn \/ Timeout \/ PollTurn \/ SubTurn

LifeSpec == LifeInit /\ [][LifeNext]_allVars

(* asyncio gives every task that is ready a turn, a stream with something to *)
(* send included; but Send also waits for its client, and only Readers take  *)
(* what they are sent.  No connection has to end, no interval to pass, and   *)
(* nobody to send SIGTERM.                                                   *)
LifeFairness(Readers) ==
    /\ WF_allVars(LifespanStops) /\ WF_allVars(LifespanEnds)
    /\ WF_allVars(RunTurn) /\ WF_allVars(PollTurn) /\ WF_allVars(SubTurn)
    /\ \A c \in Readers : WF_allVars(Send(c) /\ UNCHANGED lifeVars)

-----------------------------------------------------------------------------
(* A stop is final.  Once the event is set no tick begins, not even one that *)
(* fell due in the same turn and runs before it is cancelled, so nothing is  *)
(* recorded any more; and the process ends with no loop left behind, whether *)
(* it ran, waited, had not started or had died (_poll_loop, run, lifespan).  *)
StopIsFinal ==
    [][/\ stop => events' = events
       /\ LifespanEnds => Ended(poll) /\ Ended(sub)]_allVars

(* A shutdown that no stream holds up ends, whatever the two loops are doing *)
(* or have died of: each is woken from its wait by somebody, and nobody      *)
(* waits for one that will not end (lifespan, run).                          *)
ShutdownEnds ==
    (phase = "closing" /\ \A c \in Clients : stream[c] # "open") ~> phase # "closing"
=============================================================================
