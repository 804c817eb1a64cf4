------------------------------- MODULE Ledger -------------------------------
(* SqliteEntryEventRepository on its own: a table that only ever grows, with *)
(* whatever timestamps the system clock happens to show, and the queries the *)
(* HTTP API answers from it.  Where Ticker asks who writes an event and when, *)
(* this module asks what the queries make of any ledger at all.              *)
EXTENDS EntryEvents, FiniteSets

CONSTANTS MaxEvents,   \* bound: the length of the ledger
          MaxTime      \* bound: the last instant

ASSUME LedgerAssumption == MaxEvents \in Nat /\ MaxTime \in Nat

VARIABLE ledger

Instants == 0..MaxTime

LedgerTypeOK == ledger \in Seq(Event) /\ \A i \in DOMAIN ledger : WellFormed(ledger[i])

Init == ledger = <<>>

AppendEvent(e) ==
    /\ Len(ledger) < MaxEvents
    /\ ledger' = Append(ledger, e)

(* The events its three writers construct. *)
NewEvents ==
    UNION {{StopEvent(ts)} \cup {ManualStart(ts, t, None) : t \in Tasks}
                           \cup {AutoStart(ts, t, k) : t \in Tasks, k \in Keywords}
               : ts \in Instants}

Next == \E e \in NewEvents : AppendEvent(e)

Spec == Init /\ [][Next]_ledger

-----------------------------------------------------------------------------
(* Position by position in the order of ORDER BY ts.                         *)
Rank(L, i) == Cardinality({j \in DOMAIN L : Before(L, j, i)}) + 1
Sorted(L) == [r \in DOMAIN L |-> CHOOSE i \in DOMAIN L : Rank(L, i) = r]

(* The repository of the tests (tests/application/fakes.py:130-150): walk    *)
(* the sorted events, pairing each start with the one after it.              *)
ReferenceEntries(L, from, to, task) ==
    LET order == Sorted(L)
        endAt(r) == IF r < Len(L) THEN L[order[r + 1]].ts ELSE Open
    IN {FromEvent(L, order[r], endAt(r)) :
            r \in {r \in DOMAIN L :
                      LET e == L[order[r]]
                      IN /\ IsStart(e)
                         /\ task # None => e.task = task
                         /\ \A b \in from : e.ts >= b.ts
                         /\ \A b \in to : e.ts <= b.ts}}

Bounds(zones) == {{}} \cup {{Bound(ts, zone)} : ts \in Instants, zone \in zones}

MatchesReference(zones) ==
    \A from, to \in Bounds(zones), task \in Tasks \cup {None} :
        EntriesInRange(ledger, from, to, task) = ReferenceEntries(ledger, from, to, task)

(* GET /entries answers, for every task and every from and to written in     *)
(* UTC, what the repository the tests run against answers: an end is the     *)
(* next event's timestamp even when a filter hides that event, and text      *)
(* selects the rows that instants would.                                     *)
ProjectionMatchesReference == MatchesReference({"utc"})

(* The same for a from or to written with another offset, which the API      *)
(* accepts (routers/entries.py) and the tests' repository understands.       *)
AnyOffsetMatchesReference == MatchesReference({"utc", "east", "west"})

(* The entries tile time.  At any instant the entries that cover it are the  *)
(* one begun by the event in effect (the last one not after that instant),   *)
(* and none before the first event or after a stop: no two entries overlap,  *)
(* none ends before it starts (EndBeforeStartError would fail the query),    *)
(* and no time between a start and the next event is lost, whatever order    *)
(* the clock made the events come in.                                        *)
InEffect(ts) == {i \in DOMAIN ledger : ledger[i].ts <= ts}

Covering(ts) ==
    {e \in Entries(ledger) : e.start <= ts /\ (e.end = Open \/ ts < e.end)}

TimelineFaithful ==
    \A ts \in Instants :
        LET effective == Greatest(ledger, InEffect(ts))
        IN {e.id : e \in Covering(ts)}
             = IF InEffect(ts) = {} \/ IsStop(ledger[effective]) THEN {} ELSE {effective}

(* The entry GetCurrentTask shows is the one entry GET /entries shows open.  *)
OneOpenEntry == {e \in Entries(ledger) : e.end = Open} = CurrentEntry(ledger)

(* Recording an event, even in the past of others, cuts short the one entry  *)
(* it falls into and leaves every other entry as it was.                     *)
CutsAtMostOne == Cardinality(Entries(ledger) \ Entries(ledger')) <= 1
CutsOneEntry == [][CutsAtMostOne]_ledger
=============================================================================
