------------------------------- MODULE Tables -------------------------------
(* What the database promises of its rows, to whoever names them: a row is   *)
(* created once, names a parent that is there, and goes only when no row and *)
(* no entry event names it; ids are never used again.  Each operation is one *)
(* step.  Catalog, whose requests are read-check-write sequences in several  *)
(* threads, is shown to implement this module for its three tables, and      *)
(* Ticker for the task rows its ticks and handlers use meanwhile: it is what *)
(* each of the two may rely on of the other.                                 *)

CONSTANTS
    Ids,
    Parents,    \* of each id: what its parent column may hold
    None

VARIABLES
    state,      \* of each id: "unborn" (no row yet), "live" or "gone"
    parent,     \* of each id: the row it names, or None
    named       \* the ids some entry event names

tables == <<state, parent, named>>

Present(id) == state[id] = "live"

MayName(id, p) == p \in Parents[id] /\ (p = None \/ Present(p))

(* A daemon may find rows of an earlier life, and no events yet.             *)
Init ==
    /\ state \in [Ids -> {"unborn", "live", "gone"}]
    /\ parent \in [Ids -> Ids \cup {None}]
    /\ \A id \in Ids : Present(id) => MayName(id, parent[id])
    /\ named = {}

Insert(id, p) ==
    /\ state[id] = "unborn"
    /\ MayName(id, p)
    /\ state' = [state EXCEPT ![id] = "live"]
    /\ parent' = [parent EXCEPT ![id] = p]
    /\ UNCHANGED named

Update(id, p) ==
    /\ Present(id)
    /\ MayName(id, p)
    /\ parent' = [parent EXCEPT ![id] = p]
    /\ UNCHANGED <<state, named>>

Remove(id) ==
    /\ Present(id)
    /\ id \notin named
    /\ \A child \in Ids : Present(child) => parent[child] # id
    /\ state' = [state EXCEPT ![id] = "gone"]
    /\ parent' = [parent EXCEPT ![id] = None]
    /\ UNCHANGED named

(* An entry event names its task, and a subtask if it has one.               *)
Name(S) ==
    /\ \A id \in S : Present(id)
    /\ named' = named \cup S
    /\ UNCHANGED <<state, parent>>

Next ==
    \/ \E id \in Ids : Remove(id) \/ \E p \in Parents[id] : Insert(id, p) \/ Update(id, p)
    \/ \E S \in SUBSET Ids : Name(S)

Spec == Init /\ [][Next]_tables
=============================================================================
