------------------------------- MODULE Domain -------------------------------
(* The entities the daemon keeps (domain/entities.py): entry events and task *)
(* rows, reduced to the fields the rest of the system decides on.            *)
EXTENDS Integers, Sequences

CONSTANTS Tasks,      \* ids of task rows (uuid4: an id is never used twice)
          Keywords,   \* lower-case keywords a task can carry
          KeywordLists, \* the keyword tuples task rows can carry
          None        \* Python's None, wherever a field is optional

ASSUME DomainAssumption == /\ None \notin Tasks \cup Keywords
                           /\ KeywordLists \subseteq Seq(Keywords)

-----------------------------------------------------------------------------
(* EntryEvent *)

(* The events __post_init__ admits, less the fields nothing here reads (id,  *)
(* calendar_event_id, note).  The ticker is the only writer of AUTO events   *)
(* and it always writes match_source WINDOW, so `source' stands for both.    *)
Event == [ts: Nat, task: Tasks \cup {None}, subtask: Tasks \cup {None},
          source: {"manual", "auto", "none"}, keyword: Keywords \cup {None}]

IsStop(e)  == e.task = None
IsStart(e) == e.task # None

WellFormed(e) ==
    /\ e.task = None <=> e.source = "none"       \* IncoherentStopEventError
    /\ e.subtask # None => e.task # None         \* SubtaskWithoutTaskError

(* Bug: a stop event that keeps StartEntry's default source.                 *)
StopEventSourced(ts) ==
    [ts |-> ts, task |-> None, subtask |-> None, source |-> "manual", keyword |-> None]
StopEvent(ts) ==
    [ts |-> ts, task |-> None, subtask |-> None, source |-> "none", keyword |-> None]

ManualStart(ts, t, sub) ==
    [ts |-> ts, task |-> t, subtask |-> sub, source |-> "manual", keyword |-> None]

AutoStart(ts, t, kw) ==
    [ts |-> ts, task |-> t, subtask |-> None, source |-> "auto", keyword |-> kw]

-----------------------------------------------------------------------------
(* Task *)
(* A row of the table tasks.  A row whose id was never issued is "unborn",   *)
(* one that was deleted is "gone"; uuid4 ids are never reissued.             *)
Row == [state: {"unborn", "live", "gone"}, created: Nat,
        keywords: KeywordLists \cup {<<>>}, archived: BOOLEAN]

Rows == [Tasks -> Row]

Blank(state) == [state |-> state, created |-> 0, keywords |-> <<>>, archived |-> FALSE]

Live(rows) == {t \in Tasks : rows[t].state = "live"}

(* tasks.list(): archived rows are left out.                                 *)
Listed(rows) == {t \in Live(rows) : ~rows[t].archived}
=============================================================================
