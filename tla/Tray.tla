-------------------------------- MODULE Tray --------------------------------
(* The tray against the daemon it watches: EventBus with one client whose    *)
(* threads are modelled (interface/tray/app.py, client.py, state.py).        *)
(*                                                                           *)
(* The SSE thread reads the stream line by line and starts a refresh thread  *)
(* for each line of an event; a refresh thread asks for the current task and *)
(* hands a view to GLib.idle_add; the GTK thread applies the views in the    *)
(* order they were handed over.  What happens to refresh threads in between  *)
(* is in no order.  The GTK thread also makes the requests of the menu, and  *)
(* applies no view while it waits for their answers.                         *)
EXTENDS EventBus

CONSTANTS
    tray,         \* the tray's connection
    TrayFaults,   \* a subset of {"timeout"}
    MaxThreads,   \* bound: refresh threads alive at once
    MaxIdle       \* bound: views the GTK thread has yet to apply

ASSUME TrayAssumption ==
    /\ tray \in Clients
    /\ TrayFaults \subseteq {"timeout"}
    /\ {"idle", "offline", "fresh"} \cap Tasks = {}
    /\ MaxThreads \in Nat /\ MaxIdle \in Nat

VARIABLES
    loop,      \* where the SSE thread is; "gone": the tray is not running
    lines,     \* how many lines of the stream it has read
    asking,    \* how many refresh threads have yet to be answered
    answers,   \* those that were: the view and, history, whether it is late,
               \* a later answer having been handed over before
    idle,      \* the views handed to GLib.idle_add, in order
    view,      \* what the indicator shows; "fresh" until a view is applied
    menu,      \* what the GTK thread does for the user
    newest,    \* history: what the last refresh to be answered learnt: "current"
               \* (still true), "old" or "timedOut"
    late       \* history: the answer handed over last was a late one

sseVars == <<loop, lines>>
refreshVars == <<asking, answers, newest, late>>
guiVars == <<view, menu>>
trayVars == <<sseVars, refreshVars, idle, guiVars>>
vars == <<busVars, trayVars>>

Views == Tasks \cup {"idle", "offline"}
Answers == [view: Views, late: BOOLEAN]

TrayTypeOK ==
    /\ BusTypeOK
    /\ loop \in {"gone", "connecting", "opening", "reading", "backoff"}
    /\ lines \in Nat
    /\ asking \in Nat
    /\ answers \in Seq(Answers)
    /\ idle \in Seq(Views)
    /\ view \in Views \cup {"fresh"}
    /\ menu \in {"free", "starting", "stopping", "posted"}
    /\ newest \in {"current", "old", "timedOut"}
    /\ late \in BOOLEAN

(* run: the SSE thread, a first refresh, the GTK main loop.                  *)
Init ==
    /\ BusInit
    /\ loop = "connecting" /\ lines = 0
    /\ asking = 1 /\ answers = <<>> /\ newest = "old" /\ late = FALSE
    /\ idle = <<>> /\ view = "fresh" /\ menu = "free"

Running == loop # "gone"

-----------------------------------------------------------------------------
(* Refresh threads.                                                          *)

(* Bug: the view of a stop built from the raw null.                          *)
ShownRaw == IF events = <<>> THEN None ELSE events[Len(events)]

(* GetCurrentTask and render: what a view of the ledger as it is shows.  The *)
(* latest event by ts is the last recorded while the clock keeps forward;    *)
(* what happens when it does not is Ticker's and Ledger's.                   *)
Shown ==
    IF events = <<>> \/ events[Len(events)] = None THEN "idle" ELSE events[Len(events)]

(* The refresh threads alive, one that is to follow a request included.      *)
Threads == asking + Len(answers) + (IF menu = "free" THEN 0 ELSE 1)

(* Bug: a refresh is left out while another one is under way.                *)
SpawnCoalesced ==
    /\ Threads < MaxThreads
    /\ asking' = IF asking = 0 /\ answers = <<>> THEN 1 ELSE asking

(* A new refresh thread.                                                     *)
Spawn == Threads < MaxThreads /\ asking' = asking + 1

Answered(v, learnt) ==
    /\ asking > 0
    /\ asking' = asking - 1
    /\ answers' = Append(answers, [view |-> v, late |-> FALSE])
    /\ newest' = learnt
    /\ UNCHANGED <<busVars, sseVars, idle, guiVars, late>>

(* current_task answers, is refused a connection, or gives up on a daemon    *)
(* whose loop waits for ActivityWatch: the last two show as offline, and so  *)
(* does an answer with an error status, which is taken for a timeout here.   *)
Ask ==
    \/ phase = "up" /\ Answered(Shown, "current")
    \/ phase # "up" /\ Answered("offline", "old")
    \/ phase = "up" /\ "timeout" \in TrayFaults /\ Answered("offline", "timedOut")

(* Any thread that has its answer is the next to reach GLib.idle_add.        *)
HandOver(i) ==
    /\ Len(idle) < MaxIdle
    /\ idle' = Append(idle, answers[i].view)
    /\ late' = answers[i].late
    /\ answers' = [j \in 1..Len(answers) - 1 |->
                     IF j < i THEN [answers[j] EXCEPT !.late = TRUE] ELSE answers[j + 1]]
    /\ UNCHANGED <<busVars, sseVars, asking, newest, guiVars>>

Refresh == Ask \/ \E i \in 1..Len(answers) : HandOver(i)

-----------------------------------------------------------------------------
(* The SSE thread.                                                           *)

Show(v) == Len(idle) < MaxIdle /\ idle' = Append(idle, v)

SseConnect ==
    /\ loop = "connecting"
    /\ Subscribe(tray)
    /\ loop' = "opening"
    /\ lines' = 0
    /\ UNCHANGED <<refreshVars, idle, guiVars>>

(* Bug: the tray goes on reading without asking what it missed.              *)
SseOpenedQuietly ==
    /\ loop = "opening"
    /\ stream[tray] \in {"open", "broken"}
    /\ Show("idle")
    /\ loop' = "reading"
    /\ UNCHANGED <<busVars, lines, refreshVars, guiVars>>

(* The headers are in: an idle view, soon replaced, and a refresh.           *)
SseOpened ==
    /\ loop = "opening"
    /\ stream[tray] \in {"open", "broken"}
    /\ Show("idle")
    /\ Spawn
    /\ loop' = "reading"
    /\ UNCHANGED <<busVars, lines, answers, newest, late, guiVars>>

(* A line `event:' or `data:': each event sent has one of each.              *)
SseLine ==
    /\ loop = "reading"
    /\ lines < 2 * Len(sent[tray])
    /\ lines' = lines + 1
    /\ Spawn
    /\ UNCHANGED <<busVars, loop, answers, idle, newest, late, guiVars>>

(* The stream breaks; lines it had not read are lost with it.                *)
SseBroken ==
    /\ loop \in {"opening", "reading"}
    /\ Broken(tray)
    /\ Show("offline")
    /\ loop' = "backoff"
    /\ lines' = 0
    /\ UNCHANGED <<refreshVars, guiVars>>

(* Bug: no view is applied for a connection refused.                         *)
SseRefusedSilently ==
    /\ loop = "connecting"
    /\ phase # "up"
    /\ loop' = "backoff"
    /\ UNCHANGED <<busVars, lines, refreshVars, idle, guiVars>>

SseRefused ==
    /\ loop = "connecting"
    /\ phase # "up"
    /\ Show("offline")
    /\ loop' = "backoff"
    /\ UNCHANGED <<busVars, lines, refreshVars, guiVars>>

SseRetry ==
    /\ loop = "backoff"
    /\ loop' = "connecting"
    /\ UNCHANGED <<busVars, lines, refreshVars, idle, guiVars>>

Sse == SseConnect \/ SseOpened \/ SseLine \/ SseBroken \/ SseRefused \/ SseRetry

-----------------------------------------------------------------------------
(* The GTK thread.                                                           *)

(* Bug: _apply_view returns True, and GLib calls it again and again.         *)
ApplyViewAgain ==
    /\ idle # <<>>
    /\ menu = "free"
    /\ view' = Head(idle)
    /\ idle' = Append(Tail(idle), Head(idle))
    /\ UNCHANGED <<busVars, sseVars, refreshVars, menu>>

ApplyView ==
    /\ idle # <<>>
    /\ menu = "free"
    /\ view' = Head(idle)
    /\ idle' = Tail(idle)
    /\ UNCHANGED <<busVars, sseVars, refreshVars, menu>>

Click(item) ==
    /\ Running
    /\ menu = "free"
    /\ Len(events) < MaxEvents
    /\ Threads < MaxThreads
    /\ menu' = item
    /\ UNCHANGED <<busVars, sseVars, refreshVars, idle, view>>

(* The item Start: the tasks are listed, or the click does nothing; then the *)
(* dialog, which runs a main loop of its own, ends with a task to start (or  *)
(* with none, which changes nothing).                                        *)
ClickStart == phase = "up" /\ Click("starting")

(* The item Stop is enabled by a running view (and before the first view).   *)
ClickStop == view \in Tasks \cup {"fresh"} /\ Click("stopping")

(* The daemon serves the request; the tray will be answered, or give up.     *)
Post ==
    /\ phase = "up"
    /\ \/ menu = "starting" /\ \E t \in Tasks : Record(t)
       \/ menu = "stopping" /\ Record(None)
    /\ menu' = "posted"
    /\ newest' = "old"
    /\ UNCHANGED <<sseVars, asking, answers, late, idle, view>>

(* POST returns or raises DaemonUnreachableError: a refresh.  Of a request   *)
(* given up the daemon may still record the event, as any client might.      *)
Posted ==
    /\ \/ menu = "posted"
       \/ menu \in {"starting", "stopping"} /\ (phase # "up" \/ "timeout" \in TrayFaults)
    /\ menu' = "free"
    /\ asking' = asking + 1
    /\ UNCHANGED <<busVars, sseVars, answers, newest, late, idle, view>>

(* An HTTP error status (404, the task chosen is gone; 500, of either item)  *)
(* escapes the callback: no event, and no refresh.                           *)
PostFailed ==
    /\ menu \in {"starting", "stopping"}
    /\ phase = "up"
    /\ menu' = "free"
    /\ UNCHANGED <<busVars, sseVars, refreshVars, idle, view>>

(* The item Exit, and the session starting the tray again.                   *)
Exit ==
    /\ Running
    /\ menu = "free"
    /\ loop' = "gone"
    /\ \/ Leave(tray)
       \/ Broken(tray)
       \/ stream[tray] \notin {"open", "broken"} /\ UNCHANGED busVars
    /\ lines' = 0
    /\ asking' = 0 /\ answers' = <<>> /\ newest' = "old" /\ late' = FALSE
    /\ idle' = <<>> /\ view' = "fresh"
    /\ UNCHANGED menu

Launch ==
    /\ ~Running
    /\ loop' = "connecting"
    /\ asking' = 1
    /\ UNCHANGED <<busVars, lines, answers, newest, late, idle, guiVars>>

Gtk == ApplyView \/ Post \/ Posted \/ PostFailed

User == ClickStart \/ ClickStop \/ Exit \/ Launch

-----------------------------------------------------------------------------
(* The daemon and its other clients.                                         *)

Others ==
    \/ Recording /\ newest' = "old" /\ UNCHANGED <<sseVars, asking, answers, late, idle, guiVars>>
    \/ /\ Process \/ \E c \in Clients : Server(c) \/ (c # tray /\ Client(c))
       /\ UNCHANGED trayVars

Next == Refresh \/ Sse \/ Gtk \/ User \/ Others

Spec == Init /\ [][Next]_vars

(* The operating system runs every thread of the tray and asyncio every      *)
(* stream with something to send; requests end, with an answer or without.   *)
(* Nothing makes the user, the daemon's process or anyone else act.          *)
Fairness ==
    /\ WF_vars(Ask)
    /\ WF_vars(\E i \in 1..Len(answers) : HandOver(i))
    /\ WF_vars(Sse)
    /\ WF_vars(ApplyView)
    /\ WF_vars(Post \/ Posted \/ PostFailed)
    /\ WF_vars(Server(tray) /\ UNCHANGED trayVars)
    /\ WF_vars(Stop /\ UNCHANGED trayVars)

FairSpec == Spec /\ Fairness

-----------------------------------------------------------------------------
(* What the tray promises.                                                   *)

Connected == loop = "reading" /\ stream[tray] = "open" /\ phase = "up"

Pending == queue[tray] # <<>> \/ lines < 2 * Len(sent[tray])

(* While the tray reads its stream, whatever was recorded after its newest   *)
(* answer still reaches it: an event recorded between two connections, or    *)
(* between the subscription and the first line, is not lost (_sse_loop asks  *)
(* after it has subscribed).                                                 *)
NoEventMissed == Connected /\ newest = "old" => asking > 0 \/ Pending

Quiet == Connected /\ ~Pending /\ asking = 0 /\ answers = <<>> /\ idle = <<>>

(* Once nothing is under way the tray shows what the ledger says, but for    *)
(* the two ways its code has of being wrong: a refresh thread that overtook  *)
(* a later one, and a request that timed out (_refresh, _sse_loop).          *)
QuietMeansRight == Quiet => view = Shown \/ late \/ newest = "timedOut"

(* A daemon that stays down is in the end, and for good, shown as offline,   *)
(* whatever answers were still on their way (_sse_loop, _refresh).           *)
OfflineShown ==
    <>[](Running /\ phase = "down") => <>[](view = "offline")

(* With a daemon that stays up and a user who leaves the menu alone, the     *)
(* tray connects again and comes to rest (_sse_loop, _apply_view).           *)
Settles ==
    <>[](Running /\ phase = "up" /\ menu = "free") => <>[]Quiet
=============================================================================
