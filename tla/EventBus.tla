------------------------------ MODULE EventBus ------------------------------
(* The event bus seen by the clients of GET /api/v1/events, and the life of  *)
(* the daemon's process (adapters/event_bus/in_memory.py,                    *)
(* interface/sse/stream.py, interface/http/routers/events.py,                *)
(* composition/fastapi_app.py).  A queue holds positions of the ledger: the  *)
(* k-th event recorded is k.                                                 *)
(*                                                                           *)
(* publish never suspends (the queues are unbounded), so an event is         *)
(* recorded and put on every queue in one turn of the loop.  Everything a    *)
(* client does, and when its stream is sent the next event, falls between.   *)
EXTENDS Integers, Sequences

CONSTANTS
    Clients,    \* connections to GET /events; one may be used again and again
    Tasks,
    None,       \* a stop event names no task
    InitEvents, \* the ledgers the daemon may find at its first boot
    MaxEvents   \* bound: nobody but the tray's user records beyond it

ASSUME BusAssumption ==
    /\ None \notin Tasks
    /\ InitEvents \subseteq Seq(Tasks \cup {None})
    /\ MaxEvents \in Nat

VARIABLES
    phase,        \* the process: "up", "closing" (it accepts no connection and
                  \* waits for the open ones) or "down"
    events,       \* entry_events in ledger order: the task started, or None
    subscribers,  \* whose queues the bus holds
    stream,       \* a client's connection: "none", "open", "broken" (the process
                  \* died) or "left" (the client went, the server is to notice)
    queue,        \* what the bus has put for a client and its stream not yet sent
    sent,         \* what was sent on a client's connection
    since         \* history: how many events there were when it subscribed

busVars == <<phase, events, subscribers, stream, queue, sent, since>>

(* Types, and: the queues on the bus are those of the connections the server *)
(* has not seen the end of.                                                  *)
BusTypeOK ==
    /\ phase \in {"up", "closing", "down"}
    /\ events \in Seq(Tasks \cup {None})
    /\ subscribers \subseteq Clients
    /\ stream \in [Clients -> {"none", "open", "broken", "left"}]
    /\ queue \in [Clients -> Seq(Nat)]
    /\ sent \in [Clients -> Seq(Nat)]
    /\ since \in [Clients -> Nat]
    /\ \A c \in Clients : c \in subscribers <=> stream[c] \in {"open", "left"}

BusInit ==
    /\ phase = "up"
    /\ events \in InitEvents
    /\ subscribers = {}
    /\ stream = [c \in Clients |-> "none"]
    /\ queue = [c \in Clients |-> <<>>]
    /\ sent = [c \in Clients |-> <<>>]
    /\ since = [c \in Clients |-> 0]

-----------------------------------------------------------------------------
(* The daemon.                                                               *)

(* Bug: bounded queues and put_nowait, the event dropped when one is full.   *)
PublishDropping(k) ==
    [c \in Clients |-> IF c \in subscribers /\ Len(queue[c]) < 1
                       THEN Append(queue[c], k) ELSE queue[c]]

(* Bug: bounded queues, publish waiting for the slowest of the clients.      *)
PublishWaiting(k) ==
    [c \in Clients |-> IF c \in subscribers /\ \A d \in subscribers : queue[d] = <<>>
                       THEN Append(queue[c], k) ELSE queue[c]]

(* publish: one put on the queue of every subscriber.                        *)
Publish(k) ==
    [c \in Clients |-> IF c \in subscribers THEN Append(queue[c], k) ELSE queue[c]]

(* A start or a stop, by a handler or the ticker.  The ticker goes on while  *)
(* uvicorn waits for connections to close.                                   *)
Record(e) ==
    /\ phase # "down"
    /\ events' = Append(events, e)
    /\ queue' = Publish(Len(events) + 1)
    /\ UNCHANGED <<phase, subscribers, stream, sent, since>>

(* GET /events: the stream's generator adds a queue to the bus.              *)
Subscribe(c) ==
    /\ phase = "up"
    /\ stream[c] = "none"
    /\ stream' = [stream EXCEPT ![c] = "open"]
    /\ subscribers' = subscribers \cup {c}
    /\ queue' = [queue EXCEPT ![c] = <<>>]
    /\ sent' = [sent EXCEPT ![c] = <<>>]
    /\ since' = [since EXCEPT ![c] = Len(events)]
    /\ UNCHANGED <<phase, events>>

(* The stream wakes with the event put first and sends it to its client.  A  *)
(* client that does not read holds up its own stream only.                   *)
Send(c) ==
    /\ stream[c] = "open"
    /\ queue[c] # <<>>
    /\ sent' = [sent EXCEPT ![c] = Append(@, Head(queue[c]))]
    /\ queue' = [queue EXCEPT ![c] = Tail(@)]
    /\ UNCHANGED <<phase, events, subscribers, stream, since>>

(* A connection that is over.                                                *)
Closed(c) ==
    /\ stream' = [stream EXCEPT ![c] = "none"]
    /\ sent' = [sent EXCEPT ![c] = <<>>]
    /\ since' = [since EXCEPT ![c] = 0]

(* Bug: subscribe without the `finally' that discards the queue.             *)
DiscardNothing(c) ==
    /\ stream[c] = "left"
    /\ Closed(c)
    /\ UNCHANGED <<phase, events, subscribers, queue>>

(* The server notices that a client went away and cancels its handler; the   *)
(* generator's `finally' takes the queue off the bus, at once if it waits    *)
(* for an event, a few turns later if it was cancelled while sending.        *)
Discard(c) ==
    /\ stream[c] = "left"
    /\ subscribers' = subscribers \ {c}
    /\ queue' = [queue EXCEPT ![c] = <<>>]
    /\ Closed(c)
    /\ UNCHANGED <<phase, events>>

(* The end of the process: the bus goes with it, and a client still there    *)
(* finds its connection broken.                                              *)
Die ==
    /\ phase' = "down"
    /\ subscribers' = {}
    /\ stream' = [c \in Clients |-> IF stream[c] \in {"open", "broken"}
                                    THEN "broken" ELSE "none"]
    /\ queue' = [c \in Clients |-> <<>>]
    /\ UNCHANGED <<events, sent, since>>

Kill == phase # "down" /\ Die

(* SIGTERM: uvicorn closes its listeners and waits for the open connections, *)
(* for however long they last.                                               *)
Shutdown ==
    /\ phase = "up"
    /\ phase' = "closing"
    /\ UNCHANGED <<events, subscribers, stream, queue, sent, since>>

(* The connections are closed, lifespan stops the ticker, and the process    *)
(* ends.  Lifespan has the turns this takes: from the stop event on nothing  *)
(* is recorded and no client is left, so for the bus they are one step.      *)
Stop ==
    /\ phase = "closing"
    /\ \A c \in Clients : stream[c] # "open"
    /\ Die

Boot ==
    /\ phase = "down"
    /\ phase' = "up"
    /\ UNCHANGED <<events, subscribers, stream, queue, sent, since>>

Process == Kill \/ Shutdown \/ Stop \/ Boot

Server(c) == Send(c) \/ Discard(c)

-----------------------------------------------------------------------------
(* The clients.                                                              *)

Leave(c) ==
    /\ stream[c] = "open"
    /\ stream' = [stream EXCEPT ![c] = "left"]
    /\ UNCHANGED <<phase, events, subscribers, queue, sent, since>>

(* A client has read the end of a connection the process's death broke.      *)
Broken(c) ==
    /\ stream[c] = "broken"
    /\ Closed(c)
    /\ UNCHANGED <<phase, events, subscribers, queue>>

Client(c) == Subscribe(c) \/ Leave(c) \/ Broken(c)

Recording ==
    /\ Len(events) < MaxEvents
    /\ \E e \in Tasks \cup {None} : Record(e)

BusNext ==
    \/ Recording
    \/ Process
    \/ \E c \in Clients : Server(c) \/ Client(c)

BusSpec == BusInit /\ [][BusNext]_busVars

-----------------------------------------------------------------------------
(* What the bus promises.                                                    *)

(* A client is sent, in order and once each, exactly the events recorded     *)
(* since it subscribed; what it was not sent yet waits in its queue, unless  *)
(* the process has died (publish, subscribe, sse_stream).                    *)
ContiguousRun ==
    \A c \in Clients :
        LET run == sent[c] \o queue[c] IN
        /\ \A i \in 1..Len(run) : run[i] = since[c] + i
        /\ stream[c] = "open" => since[c] + Len(run) = Len(events)

(* The position a client has been brought up to.                             *)
Upto(c) ==
    IF stream[c] # "open" THEN 0
    ELSE IF sent[c] = <<>> THEN since[c] ELSE sent[c][Len(sent[c])]

Feed == INSTANCE Delivery WITH
    Subscribers <- Clients,
    recorded    <- Len(events),
    attached    <- {c \in Clients : stream[c] = "open"},
    upto        <- [c \in Clients |-> Upto(c)]

(* Queues, slow clients, connections that end in any way and the death of    *)
(* the process come to what Delivery promises: the next event and no other,  *)
(* never one that was not recorded (publish, subscribe, sse_stream).         *)
ImplementsDelivery == Feed!Spec

(* However slow the other clients, an event reaches each client that reads,  *)
(* unless the client or the process goes (no client holds up publish).       *)
Delivered(Readers) ==
    \A c \in Readers, k \in 1..MaxEvents :
        (stream[c] = "open" /\ since[c] < k /\ k <= Len(events))
            ~> (stream[c] # "open" \/ since[c] + Len(sent[c]) >= k)
=============================================================================
