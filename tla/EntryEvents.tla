---------------------------- MODULE EntryEvents ----------------------------
(* The entry ledger: the table entry_events and the projections the          *)
(* repository computes from it (domain/entities.py and                       *)
(* adapters/persistence/sqlite/entry_event_repository.py).                   *)
(*                                                                           *)
(* A ledger is a sequence of events in the order they were inserted (the     *)
(* rowid order).  Every query sorts by ts.  Events with equal ts come back   *)
(* in insertion order, because entry_events_ts_idx orders equal keys by      *)
(* rowid and both the window function and the ORDER BY walk that index.      *)
(* Timestamps are UTC instants, of which only the order matters: naturals.   *)
(* The table holds their ISO text, and a query compares text.                *)
EXTENDS Domain

Open == -1            \* Entry.end of a running entry (is_running)

-----------------------------------------------------------------------------
(* ISO 8601 text, as isoformat writes it: what the wall clock of a UTC       *)
(* offset shows, then the offset.  Text is compared from the left, so the    *)
(* wall clocks decide; if they agree the offsets do, in the order of their   *)
(* characters: none at all, "+00:00", east of it, and "-" after all "+".     *)
Zones == {"naive", "utc", "east", "west"}

Offset(zone) == CASE zone = "east" -> 1 [] zone = "west" -> -1 [] OTHER -> 0

Suffix(zone) ==
    CASE zone = "naive" -> 0 [] zone = "utc" -> 1 [] zone = "east" -> 2 [] zone = "west" -> 3

IsoText(ts, zone) == [wall |-> ts + Offset(zone), suffix |-> Suffix(zone)]

TextLeq(a, b) == a.wall < b.wall \/ (a.wall = b.wall /\ a.suffix <= b.suffix)

(* A bound of a query: an instant and the offset the client wrote it with.   *)
Bound(ts, zone) == [ts |-> ts, zone |-> zone]

BoundText(b) == IsoText(b.ts, b.zone)

(* Bug: the column holds naive text.                                         *)
StoredNaive(ts) == IsoText(ts, "naive")

(* The clock answers in UTC, and so do all events.                           *)
Stored(ts) == IsoText(ts, "utc")

-----------------------------------------------------------------------------
(* The order of ORDER BY ts.                                                 *)
Before(L, i, j) == L[i].ts < L[j].ts \/ (L[i].ts = L[j].ts /\ i < j)

Greatest(L, S) == CHOOSE i \in S : \A j \in S \ {i} : Before(L, j, i)
Least(L, S)    == CHOOSE i \in S : \A j \in S \ {i} : Before(L, i, j)

(* latest_event: the position of the last event in that order, 0 if none.    *)
(* Bug: the last inserted event (ORDER BY rowid DESC).                       *)
LatestInserted(L) == Len(L)
Latest(L) == IF L = <<>> THEN 0 ELSE Greatest(L, DOMAIN L)

(* The task of current_entry, None when nothing runs.                        *)
Running(L) == IF L = <<>> THEN None ELSE L[Latest(L)].task

(* LEAD(ts) OVER (ORDER BY ts): the timestamp of the next event, NULL is Open. *)
(* Bugs: the window is ordered by insertion; LAST_VALUE instead of LEAD.     *)
NextTsInserted(L, i) == IF i = Len(L) THEN Open ELSE L[i + 1].ts
NextTsLast(L, i) == IF i = Latest(L) THEN Open ELSE L[Latest(L)].ts
NextTs(L, i) ==
    LET later == {j \in DOMAIN L : Before(L, i, j)}
    IN IF later = {} THEN Open ELSE L[Least(L, later)].ts

(* Entry.from_event: the entry a start event projects to.  Its id is the     *)
(* event's id, which the event's position in the ledger stands for.          *)
FromEvent(L, i, end) ==
    [id |-> i, task |-> L[i].task, start |-> L[i].ts, end |-> end]

CurrentEntry(L) ==
    IF Running(L) = None THEN {} ELSE {FromEvent(L, Latest(L), Open)}

(* entries_in_range: the next timestamp is computed over the whole table     *)
(* (the CTE), and only then are the rows filtered.  from and to are sets of  *)
(* at most one bound; an absent task is None.                                *)
Selected(L, from, to, task) ==
    {i \in DOMAIN L : /\ IsStart(L[i])
                      /\ task # None => L[i].task = task
                      /\ \A b \in from : TextLeq(BoundText(b), Stored(L[i].ts))
                      /\ \A b \in to : TextLeq(Stored(L[i].ts), BoundText(b))}

(* Bug: the filter is applied inside the CTE, before LEAD.                   *)
EntriesFilteredFirst(L, from, to, task) ==
    LET kept == Selected(L, from, to, task)
        later(i) == {j \in kept : Before(L, i, j)}
    IN {FromEvent(L, i, IF later(i) = {} THEN Open ELSE L[Least(L, later(i))].ts) :
            i \in kept}
EntriesInRange(L, from, to, task) ==
    {FromEvent(L, i, NextTs(L, i)) : i \in Selected(L, from, to, task)}

Entries(L) == EntriesInRange(L, {}, {}, None)
=============================================================================
