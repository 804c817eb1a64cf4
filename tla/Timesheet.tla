------------------------------ MODULE Timesheet ------------------------------
(* What a user of the daemon sees: a timesheet.  At most one entry is        *)
(* running; starting a task ends the running entry at that instant and       *)
(* begins a new one, stopping only ends it; an entry that has ended never    *)
(* changes again.  The daemon keeps no such table: it keeps a ledger of      *)
(* events and derives every entry (domain/entities.py, Entry).  Ticker is    *)
(* shown to implement this module.                                           *)
EXTENDS Integers

CONSTANTS Tasks, MaxTime

Open == -1

VARIABLES
    running,    \* the entry that is running: a set of at most one entry
    closed,     \* the entries that have ended
    recorded,   \* how many starts and stops there have been: the next id - 1
    clock       \* the instant of the last of them

sheet == <<running, closed, recorded, clock>>

Instants == 0..MaxTime

Entry == [id: Nat, task: Tasks, start: Instants, end: Instants \cup {Open}]

Init ==
    /\ running = {}
    /\ closed = {}
    /\ recorded = 0
    /\ clock \in Instants

(* The running entry, ended at ts.                                           *)
Ended(ts) == {[e EXCEPT !.end = ts] : e \in running}

At(ts) ==
    /\ ts >= clock
    /\ clock' = ts
    /\ recorded' = recorded + 1
    /\ closed' = closed \cup Ended(ts)

Start(t) ==
    \E ts \in Instants :
        /\ At(ts)
        /\ running' = {[id |-> recorded + 1, task |-> t, start |-> ts, end |-> Open]}

Stop ==
    \E ts \in Instants : At(ts) /\ running' = {}

Pass ==
    /\ clock' \in Instants /\ clock' >= clock
    /\ UNCHANGED <<running, closed, recorded>>

Next == Stop \/ Pass \/ \E t \in Tasks : Start(t)

Spec == Init /\ [][Next]_sheet
=============================================================================
