---------------------------- MODULE TickerProofs ----------------------------
(* The ticker for every set of tasks, keywords and windows, every fault and  *)
(* every bound: types, references, and that the daemon implements Timesheet. *)
(* TickerSafetyProofs goes on with what a tick may record.                   *)
EXTENDS TickerProperties, AutoSwitchProofs, EntryEventsProofs

(* Next, action by action.                                                   *)
LEMMA NextCases ==
    ASSUME Next
    PROVE  \/ \E t \in Tasks, s \in Tasks \cup {None} : StartEntry(t, s)
           \/ StopEntry
           \/ \E t \in Tasks : DeleteTask(t)
           \/ \E t \in Tasks, kws \in KeywordLists : CreateTask(t, kws)
           \/ \E t \in Tasks, kws \in KeywordLists, a \in BOOLEAN : UpdateTask(t, kws, a)
           \/ \E m \in {"manual", "auto"} : SetMode(m)
           \/ \E w \in Windows \cup {None} : FocusWindow(w)
           \/ Restart
           \/ TickDue \/ TickRead \/ TickObserve \/ TickRaise \/ TickAppend
           \/ Subscribe \/ HandleEvent \/ HandleRaise
BY DEF Next, Environment, LoopRequest, TaskRequest, Tick, Subscriber

(* The events the three writers construct.                                   *)
LEMMA NewEventType ==
    ASSUME NEW ts \in Nat, NEW t \in Tasks, NEW s \in Tasks \cup {None},
           NEW k \in Keywords \cup {None}
    PROVE  /\ StopEvent(ts) \in Event /\ WellFormed(StopEvent(ts))
           /\ ManualStart(ts, t, s) \in Event /\ WellFormed(ManualStart(ts, t, s))
           /\ AutoStart(ts, t, k) \in Event /\ WellFormed(AutoStart(ts, t, k))
BY DomainAssumption DEF Event, WellFormed, StopEvent, ManualStart, AutoStart

(* Appending an event leaves the others where they are.                      *)
LEMMA RecordEffect ==
    ASSUME ledger \in Seq(Event), queue \in Seq(Nat), NEW e \in Event, Record(e)
    PROVE  /\ ledger' \in Seq(Event)
           /\ Len(ledger) \in Nat
           /\ Len(ledger') = Len(ledger) + 1
           /\ \A i \in DOMAIN ledger : i \in DOMAIN ledger' /\ ledger'[i] = ledger[i]
           /\ ledger'[Len(ledger) + 1] = e
           /\ \A i \in DOMAIN ledger' : i \in DOMAIN ledger \/ i = Len(ledger) + 1
           /\ queue' \in Seq(Nat)
<1>1. ledger' = Append(ledger, e)
    BY DEF Record
<1>2. /\ ledger' \in Seq(Event)
      /\ Len(ledger') = Len(ledger) + 1
      /\ \A i \in 1..Len(ledger) : ledger'[i] = ledger[i]
      /\ ledger'[Len(ledger) + 1] = e
    BY <1>1, AppendProperties
<1>3. DOMAIN ledger = 1..Len(ledger) /\ Len(ledger) \in Nat /\ DOMAIN ledger' = 1..Len(ledger')
    BY <1>2, LenProperties
<1>4. queue' \in Seq(Nat)
    BY <1>3, AppendProperties DEF Record
<1> QED
    BY <1>2, <1>3, <1>4

-----------------------------------------------------------------------------
(* Types *)

LEMMA InitTyped == Init => TypeInvariant
<1> SUFFICES ASSUME Init PROVE TypeInvariant
    OBVIOUS
<1>1. NoOp \in Decisions /\ NoOverride \in Overrides
    BY DEF NoOp, Decisions, NoOverride, Overrides
<1>2. IdleTick \in Ticks
    BY <1>1 DEF IdleTick, Ticks
<1>3. ledger \in Seq(Event) /\ queue \in Seq(Nat) /\ DOMAIN ledger = {}
    BY DEF Init, Boot
<1>4. rows \in Rows
    BY TickerAssumption DEF Init
<1> QED
    BY <1>1, <1>2, <1>3, <1>4 DEF Init, Boot, TypeInvariant, TypeOK

(* A loop handler that records a well-formed event keeps the types.          *)
LEMMA RecordTyped ==
    ASSUME TypeInvariant, NEW e \in Event, WellFormed(e), Record(e)
    PROVE  /\ ledger' \in Seq(Event)
           /\ queue' \in Seq(Nat)
           /\ \A i \in DOMAIN ledger' : WellFormed(ledger'[i])
<1>1. ledger \in Seq(Event) /\ queue \in Seq(Nat) /\ \A i \in DOMAIN ledger : WellFormed(ledger[i])
    BY DEF TypeInvariant, TypeOK
<1> QED
    BY <1>1, RecordEffect

LEMMA LatestIsNat ==
    ASSUME ledger \in Seq(Event) PROVE Latest(ledger) \in Nat
<1>1. CASE ledger = <<>>
    BY <1>1 DEF Latest
<1>2. CASE ledger # <<>>
    BY <1>2, LatestType, TsType
<1> QED
    BY <1>1, <1>2

LEMMA WriteRowTyped ==
    ASSUME TypeInvariant, NEW t \in Tasks, NEW row \in Row, WriteRow(t, row),
           now' \in 0..MaxTime
    PROVE  TypeInvariant'
<1>1. rows' \in Rows
    BY DEF WriteRow, TypeInvariant, TypeOK, Rows
<1> QED
    BY <1>1 DEF WriteRow, TypeInvariant, TypeOK

LEMMA NextTyped == TypeInvariant /\ [Next]_vars => TypeInvariant'
<1> SUFFICES ASSUME TypeInvariant, [Next]_vars PROVE TypeInvariant'
    OBVIOUS
<1>0. MaxTime \in Nat /\ 0..MaxTime \subseteq Nat
    BY TickerAssumption
<1> USE DEF ReadClock
<1>1. ASSUME NEW t \in Tasks, NEW s \in Tasks \cup {None}, StartEntry(t, s)
      PROVE  TypeInvariant'
    <2>1. PICK ts \in 0..MaxTime : ReadClock(ts) /\ Record(ManualStart(ts, t, s))
        BY <1>1 DEF StartEntry
    <2>2. ManualStart(ts, t, s) \in Event /\ WellFormed(ManualStart(ts, t, s))
        BY <1>0, NewEventType
    <2>3. /\ ledger' \in Seq(Event) /\ queue' \in Seq(Nat)
          /\ \A i \in DOMAIN ledger' : WellFormed(ledger'[i])
        BY <2>1, <2>2, RecordTyped
    <2> QED
        BY <1>1, <2>1, <2>3 DEF StartEntry, TypeInvariant, TypeOK
<1>2. ASSUME StopEntry PROVE TypeInvariant'
    <2>1. PICK ts \in 0..MaxTime : ReadClock(ts) /\ Record(StopEvent(ts))
        BY <1>2 DEF StopEntry
    <2>2. StopEvent(ts) \in Event /\ WellFormed(StopEvent(ts))
        BY <1>0, DomainAssumption DEF StopEvent, Event, WellFormed
    <2>3. /\ ledger' \in Seq(Event) /\ queue' \in Seq(Nat)
          /\ \A i \in DOMAIN ledger' : WellFormed(ledger'[i])
        BY <2>1, <2>2, RecordTyped
    <2> QED
        BY <1>2, <2>1, <2>3 DEF StopEntry, TypeInvariant, TypeOK
<1>3. ASSUME NEW t \in Tasks, DeleteTask(t) PROVE TypeInvariant'
    <2>1. Blank("gone") \in Row
        BY DEF Blank, Row
    <2>2. WriteRow(t, Blank("gone")) /\ now' \in 0..MaxTime
        BY <1>3 DEF DeleteTask, TypeInvariant, TypeOK
    <2> QED
        BY <2>1, <2>2, WriteRowTyped
<1>4. ASSUME NEW t \in Tasks, NEW kws \in KeywordLists, CreateTask(t, kws)
      PROVE  TypeInvariant'
    <2>1. PICK ts \in 0..MaxTime :
              /\ ReadClock(ts)
              /\ WriteRow(t, [state |-> "live", created |-> ts, keywords |-> kws,
                              archived |-> FALSE])
        BY <1>4 DEF CreateTask
    <2>2. [state |-> "live", created |-> ts, keywords |-> kws, archived |-> FALSE] \in Row
        BY <1>0 DEF Row
    <2> QED
        BY <2>1, <2>2, WriteRowTyped
<1>5. ASSUME NEW t \in Tasks, NEW kws \in KeywordLists, NEW a \in BOOLEAN,
             UpdateTask(t, kws, a)
      PROVE  TypeInvariant'
    <2>1. rows[t] \in Row
        BY DEF TypeInvariant, TypeOK, Rows
    <2>2. [rows[t] EXCEPT !.keywords = kws, !.archived = a] \in Row
        BY <2>1 DEF Row
    <2>3. /\ WriteRow(t, [rows[t] EXCEPT !.keywords = kws, !.archived = a])
          /\ now' \in 0..MaxTime
        BY <1>5 DEF UpdateTask, TypeInvariant, TypeOK
    <2> QED
        BY <2>2, <2>3, WriteRowTyped
<1>6. ASSUME NEW m \in {"manual", "auto"}, SetMode(m) PROVE TypeInvariant'
    BY <1>6 DEF SetMode, TypeInvariant, TypeOK
<1>7. ASSUME NEW w \in Windows \cup {None}, FocusWindow(w) PROVE TypeInvariant'
    BY <1>7 DEF FocusWindow, durable, TypeInvariant, TypeOK
<1>8. NoOp \in Decisions /\ NoOverride \in Overrides /\ IdleTick \in Ticks
    BY DEF NoOp, Decisions, NoOverride, Overrides, IdleTick, Ticks
<1>9. ASSUME Restart PROVE TypeInvariant'
    <2>1. queue' \in Seq(Nat)
        BY <1>9 DEF Restart
    <2>2. tick' \in Ticks /\ override' \in Overrides
        BY <1>8, <1>9 DEF Restart
    <2> QED
        BY <1>9, <2>1, <2>2 DEF Restart, durable, TypeInvariant, TypeOK
<1>10. ASSUME TickRead PROVE TypeInvariant'
    <2>1. Latest(ledger) \in Nat
        BY LatestIsNat DEF TypeInvariant, TypeOK
    <2>2. tick' \in Ticks
        BY <1>8, <1>10, <2>1 DEF TickRead, Ticks, TypeInvariant, TypeOK
    <2> QED
        BY <1>10, <2>2 DEF TickRead, durable, TypeInvariant, TypeOK
<1>11. ASSUME TickObserve PROVE TypeInvariant'
    <2> DEFINE d == ResolveAutoSwitch(tick.mode, LatestTask(tick.latest), window,
                                      rows, override, FALSE)
    <2>1. window \in Windows \cup {None} /\ rows \in Rows /\ override \in Overrides
        BY DEF TypeInvariant, TypeOK
    <2>2. d \in Decisions
        BY <2>1, StartAutoJustified
    <2>3. tick \in Ticks
        BY DEF TypeInvariant, TypeOK
    <2>4. [tick EXCEPT !.decision = d] \in Ticks
        BY <2>2, <2>3 DEF Ticks
    <2>5. tick' \in Ticks /\ poll' \in {"append", "sleeping"}
        BY <1>8, <1>11, <2>4 DEF TickObserve
    <2> QED
        BY <1>11, <2>5 DEF TickObserve, durable, TypeInvariant, TypeOK
<1>12. ASSUME TickRaise PROVE TypeInvariant'
    BY <1>8, <1>12 DEF TickRaise, durable, TypeInvariant, TypeOK
<1>13. ASSUME TickAppend PROVE TypeInvariant'
    <2>1. tick.decision \in Decisions /\ tick' = IdleTick
        BY <1>13 DEF TickAppend, TypeInvariant, TypeOK, Ticks
    <2>2. CASE ForeignKeys(tick.decision.task)
        <3>1. PICK ts \in 0..MaxTime :
                  /\ ReadClock(ts)
                  /\ Record(AutoStart(ts, tick.decision.task, tick.decision.keyword))
            BY <1>13, <2>2 DEF TickAppend
        <3>2. tick.decision.task \in Tasks /\ tick.decision.keyword \in Keywords \cup {None}
            BY <2>1, <2>2 DEF ForeignKeys, Live, Decisions
        <3> DEFINE e == AutoStart(ts, tick.decision.task, tick.decision.keyword)
        <3>3. e \in Event /\ WellFormed(e)
            BY <1>0, <3>2, DomainAssumption DEF AutoStart, Event, WellFormed
        <3>4. /\ ledger' \in Seq(Event) /\ queue' \in Seq(Nat)
              /\ \A i \in DOMAIN ledger' : WellFormed(ledger'[i])
            BY <3>1, <3>3, RecordTyped
        <3>5. strays' \in Nat /\ poll' = "sleeping"
            BY <1>13, <2>2 DEF TickAppend, TypeInvariant, TypeOK
        <3> QED
            BY <1>8, <1>13, <2>1, <3>1, <3>4, <3>5 DEF TickAppend, TypeInvariant, TypeOK
    <2>3. CASE ~ ForeignKeys(tick.decision.task)
        BY <1>8, <1>13, <2>3 DEF TickAppend, TypeInvariant, TypeOK
    <2> QED
        BY <2>2, <2>3
<1>14. ASSUME Subscribe PROVE TypeInvariant'
    BY <1>14 DEF Subscribe, durable, TypeInvariant, TypeOK
<1>15. ASSUME HandleEvent PROVE TypeInvariant'
    <2>1. Signals(window, rows) \in Keywords \cup {None}
        BY SignalsType DEF TypeInvariant, TypeOK
    <2>2. override' \in Overrides
        BY <1>8, <1>15, <2>1 DEF HandleEvent, OverrideAfter, Override, Overrides
    <2>3. queue' \in Seq(Nat)
        BY <1>15, HeadTailProperties DEF HandleEvent, TypeInvariant, TypeOK
    <2>4. calm' \in BOOLEAN
        BY <1>15 DEF HandleEvent
    <2> QED
        BY <1>15, <2>2, <2>3, <2>4 DEF HandleEvent, durable, TypeInvariant, TypeOK
<1>16. ASSUME HandleRaise PROVE TypeInvariant'
    BY <1>16 DEF HandleRaise, durable, TypeInvariant, TypeOK
<1>17. ASSUME UNCHANGED vars PROVE TypeInvariant'
    BY <1>17 DEF vars, TypeInvariant, TypeOK
<1>18. ASSUME TickDue PROVE TypeInvariant'
    BY <1>18 DEF TickDue, durable, TypeInvariant, TypeOK
<1> QED
    BY <1>1, <1>2, <1>3, <1>4, <1>5, <1>6, <1>7, <1>9, <1>10, <1>11, <1>12, <1>13,
       <1>14, <1>15, <1>16, <1>17, <1>18, NextCases

(* Every variable keeps its type, and every event in the ledger is one       *)
(* EntryEvent.__post_init__ admits.                                          *)
THEOREM Typed == Spec => []TypeInvariant
BY InitTyped, NextTyped, PTL DEF Spec

-----------------------------------------------------------------------------
(* Referential integrity *)

Named(e) == {e.task, e.subtask} \ {None}

(* The rows an event names are live when it is recorded.                     *)
LEMMA RecordKeepsRefs ==
    ASSUME TypeInvariant, RefIntegrity, NEW e \in Event, Record(e),
           Named(e) \subseteq Live(rows), rows' = rows
    PROVE  RefIntegrity'
<1>1. ledger \in Seq(Event) /\ queue \in Seq(Nat)
    BY DEF TypeInvariant, TypeOK
<1>2. Live(rows') = Live(rows)
    BY DEF Live
<1>3. ASSUME NEW i \in DOMAIN ledger'
      PROVE  {ledger'[i].task, ledger'[i].subtask} \ {None} \subseteq Live(rows')
    <2>1. CASE i \in DOMAIN ledger
        BY <1>1, <1>2, <2>1, RecordEffect DEF RefIntegrity
    <2>2. CASE i = Len(ledger) + 1
        BY <1>1, <1>2, <2>2, RecordEffect DEF Named
    <2> QED
        BY <1>1, <2>1, <2>2, RecordEffect
<1> QED
    BY <1>3 DEF RefIntegrity

(* A write to one row that leaves every row some event names live.           *)
LEMMA WriteRowKeepsRefs ==
    ASSUME TypeInvariant, RefIntegrity, NEW t \in Tasks, NEW row, WriteRow(t, row),
           row.state = "live" \/ ~ Referenced(t)
    PROVE  RefIntegrity'
<1>1. rows \in [Tasks -> Row] /\ rows' = [rows EXCEPT ![t] = row] /\ ledger' = ledger
    BY DEF WriteRow, TypeInvariant, TypeOK, Rows
<1>2. ASSUME NEW i \in DOMAIN ledger, NEW u \in {ledger[i].task, ledger[i].subtask} \ {None}
      PROVE  u \in Live(rows')
    <2>1. u \in Live(rows) /\ u \in Tasks
        BY <1>2 DEF RefIntegrity, Live
    <2>2. CASE u = t
        <3>1. Referenced(t)
            BY <1>2, <2>2 DEF Referenced
        <3> QED
            BY <1>1, <2>1, <2>2, <3>1 DEF Live
    <2>3. CASE u # t
        BY <1>1, <2>1, <2>3 DEF Live
    <2> QED
        BY <2>2, <2>3
<1> QED
    BY <1>1, <1>2 DEF RefIntegrity

LEMMA NextKeepsRefs ==
    TypeInvariant /\ RefIntegrity /\ [Next]_vars => RefIntegrity'
<1> SUFFICES ASSUME TypeInvariant, RefIntegrity, [Next]_vars PROVE RefIntegrity'
    OBVIOUS
<1>0. 0..MaxTime \subseteq Nat
    BY TickerAssumption
<1>1. ASSUME NEW t \in Tasks, NEW s \in Tasks \cup {None}, StartEntry(t, s)
      PROVE  RefIntegrity'
    <2>1. PICK ts \in 0..MaxTime : Record(ManualStart(ts, t, s))
        BY <1>1 DEF StartEntry
    <2>2. ManualStart(ts, t, s) \in Event
        BY <1>0, NewEventType
    <2>3. Named(ManualStart(ts, t, s)) \subseteq Live(rows) /\ rows' = rows
        BY <1>1 DEF StartEntry, Named, ManualStart
    <2> QED
        BY <2>1, <2>2, <2>3, RecordKeepsRefs
<1>2. ASSUME StopEntry PROVE RefIntegrity'
    <2>1. PICK ts \in 0..MaxTime : Record(StopEvent(ts))
        BY <1>2 DEF StopEntry
    <2>2. StopEvent(ts) \in Event
        BY <1>0 DEF StopEvent, Event
    <2>3. Named(StopEvent(ts)) \subseteq Live(rows) /\ rows' = rows
        BY <1>2 DEF StopEntry, Named, StopEvent
    <2> QED
        BY <2>1, <2>2, <2>3, RecordKeepsRefs
<1>3. ASSUME NEW t \in Tasks, DeleteTask(t) PROVE RefIntegrity'
    BY <1>3, WriteRowKeepsRefs DEF DeleteTask
<1>4. ASSUME NEW t \in Tasks, NEW kws \in KeywordLists, CreateTask(t, kws)
      PROVE  RefIntegrity'
    BY <1>4, WriteRowKeepsRefs DEF CreateTask
<1>5. ASSUME NEW t \in Tasks, NEW kws \in KeywordLists, NEW a \in BOOLEAN,
             UpdateTask(t, kws, a)
      PROVE  RefIntegrity'
    <2>1. rows[t] \in Row /\ rows[t].state = "live"
        BY <1>5 DEF UpdateTask, Live, TypeInvariant, TypeOK, Rows
    <2>2. [rows[t] EXCEPT !.keywords = kws, !.archived = a].state = "live"
        BY <2>1 DEF Row
    <2> QED
        BY <1>5, <2>2, WriteRowKeepsRefs DEF UpdateTask
<1>6. ASSUME TickAppend PROVE RefIntegrity'
    <2>1. CASE ForeignKeys(tick.decision.task)
        <3> DEFINE e(ts) == AutoStart(ts, tick.decision.task, tick.decision.keyword)
        <3>1. PICK ts \in 0..MaxTime : Record(e(ts))
            BY <1>6, <2>1 DEF TickAppend
        <3>2. tick.decision.task \in Live(rows) /\ tick.decision.task \in Tasks
              /\ tick.decision.keyword \in Keywords \cup {None}
            BY <2>1 DEF ForeignKeys, Live, TypeInvariant, TypeOK, Ticks, Decisions
        <3>3. e(ts) \in Event
            BY <1>0, <3>2 DEF AutoStart, Event
        <3>4. Named(e(ts)) \subseteq Live(rows) /\ rows' = rows
            BY <1>6, <3>2 DEF TickAppend, Named, AutoStart
        <3> QED
            BY <3>1, <3>3, <3>4, RecordKeepsRefs
    <2>2. CASE ~ ForeignKeys(tick.decision.task)
        BY <1>6, <2>2 DEF TickAppend, RefIntegrity
    <2> QED
        BY <2>1, <2>2
<1>7. ASSUME UNCHANGED <<ledger, rows>> PROVE RefIntegrity'
    BY <1>7 DEF RefIntegrity
<1>8. ASSUME \/ \E m \in {"manual", "auto"} : SetMode(m)
             \/ \E w \in Windows \cup {None} : FocusWindow(w)
             \/ Restart \/ TickDue \/ TickRead \/ TickObserve \/ TickRaise
             \/ Subscribe \/ HandleEvent \/ HandleRaise \/ UNCHANGED vars
      PROVE  UNCHANGED <<ledger, rows>>
    BY <1>8 DEF SetMode, FocusWindow, Restart, TickDue, TickRead, TickObserve, TickRaise,
                Subscribe, HandleEvent, HandleRaise, durable, vars
<1> QED
    BY <1>1, <1>2, <1>3, <1>4, <1>5, <1>6, <1>7, <1>8, NextCases

(* No event ever names a task or a subtask that is gone, however deletes     *)
(* race with starts and with ticks: GetCurrentTask finds its task.           *)
THEOREM Referential == Spec => []RefIntegrity
<1>1. Init => RefIntegrity
    BY DEF Init, RefIntegrity
<1> QED
    BY <1>1, NextKeepsRefs, Typed, PTL DEF Spec

-----------------------------------------------------------------------------
(* The task rows, as the ticker and the handlers use them, implement Tables. *)

LEMMA InitTaskRows == Init => TaskRows!Init
<1> SUFFICES ASSUME Init PROVE TaskRows!Init
    OBVIOUS
<1>1. rows \in [Tasks -> Row] /\ DOMAIN ledger = {}
    BY TickerAssumption, EmptySeq DEF Init, Rows
<1> QED
    BY <1>1 DEF TaskRows!Init, TaskRows!Present, TaskRows!MayName, NamedTasks, Row

(* An event recorded names live rows, and no row changes.                    *)
LEMMA RecordNames ==
    ASSUME TypeInvariant, NEW e \in Event, Record(e), Named(e) \subseteq Live(rows), rows' = rows
    PROVE  TaskRows!Next
<1>1. ledger \in Seq(Event) /\ queue \in Seq(Nat)
    BY DEF TypeInvariant, TypeOK
<1> DEFINE S == Named(e)
<1>2. \A t \in Tasks : t \in {e.task, e.subtask} <=> t \in S
    BY DomainAssumption DEF Named
<1>3. NamedTasks' = NamedTasks \cup S
    <2> HIDE DEF S
    <2>1. ASSUME NEW t \in Tasks PROVE t \in NamedTasks' <=> t \in NamedTasks \/ t \in S
        <3>1. /\ DOMAIN ledger' = DOMAIN ledger \cup {Len(ledger) + 1}
              /\ ledger'[Len(ledger) + 1] = e
              /\ \A i \in DOMAIN ledger : ledger'[i] = ledger[i]
            <4>1. Len(ledger) + 1 \in DOMAIN ledger'
                BY <1>1, RecordEffect, LenProperties
            <4> QED
                BY <1>1, <4>1, RecordEffect
        <3>2. (\E i \in DOMAIN ledger' : t \in {ledger'[i].task, ledger'[i].subtask})
                <=> \/ \E i \in DOMAIN ledger : t \in {ledger[i].task, ledger[i].subtask}
                    \/ t \in {e.task, e.subtask}
            BY <3>1
        <3> QED
            BY <1>2, <3>2 DEF NamedTasks
    <2>2. S \subseteq Tasks /\ NamedTasks \subseteq Tasks /\ NamedTasks' \subseteq Tasks
        BY DEF NamedTasks, Live, S
    <2> QED
        BY <2>1, <2>2
<1>4. S \in SUBSET Tasks /\ \A t \in S : rows[t].state = "live"
    BY DEF Live
<1> HIDE DEF S
<1>5. TaskRows!Name(S)
    BY <1>3, <1>4 DEF TaskRows!Name, TaskRows!Present
<1> QED
    BY <1>4, <1>5 DEF TaskRows!Next

LEMMA WriteRowRows ==
    ASSUME TypeInvariant, NEW t \in Tasks, NEW row, WriteRow(t, row)
    PROVE  /\ [u \in Tasks |-> rows'[u].state]
                  = [[u \in Tasks |-> rows[u].state] EXCEPT ![t] = row.state]
           /\ NamedTasks' = NamedTasks
BY DEF WriteRow, TypeInvariant, TypeOK, Rows, NamedTasks

LEMMA WriteRowImplements ==
    ASSUME TypeInvariant, NEW t \in Tasks, NEW row, WriteRow(t, row),
           \/ rows[t].state = "unborn" /\ row.state = "live"
           \/ t \in Live(rows) /\ row.state = "live"
           \/ t \in Live(rows) /\ row.state = "gone" /\ ~ Referenced(t)
    PROVE  TaskRows!Next
<1>0. rows \in [Tasks -> Row]
    BY DEF TypeInvariant, TypeOK, Rows
<1>1. CASE rows[t].state = "unborn" /\ row.state = "live"
    <2>1. TaskRows!Insert(t, None)
        BY <1>1, WriteRowRows DEF TaskRows!Insert, TaskRows!MayName
    <2> QED
        BY <2>1 DEF TaskRows!Next
<1>2. CASE t \in Live(rows) /\ row.state = "live"
    <2>1. TaskRows!Update(t, None)
        BY <1>2, WriteRowRows DEF TaskRows!Update, TaskRows!MayName, TaskRows!Present, Live
    <2> QED
        BY <2>1 DEF TaskRows!Next
<1>3. CASE t \in Live(rows) /\ row.state = "gone" /\ ~ Referenced(t)
    <2>1. t \notin NamedTasks /\ t # None
        BY <1>3, DomainAssumption DEF Referenced, NamedTasks
    <2>2. TaskRows!Remove(t)
        BY <1>3, <2>1, WriteRowRows DEF TaskRows!Remove, TaskRows!Present, Live
    <2> QED
        BY <2>2 DEF TaskRows!Next
<1> QED
    BY <1>1, <1>2, <1>3

LEMMA NextTaskRows == TypeInvariant /\ [Next]_vars => [TaskRows!Next]_(TaskRows!tables)
<1> SUFFICES ASSUME TypeInvariant, [Next]_vars PROVE [TaskRows!Next]_(TaskRows!tables)
    OBVIOUS
<1>0. 0..MaxTime \subseteq Nat
    BY TickerAssumption
<1>1. ASSUME NEW t \in Tasks, NEW s \in Tasks \cup {None}, StartEntry(t, s)
      PROVE  TaskRows!Next
    <2>1. PICK ts \in 0..MaxTime : Record(ManualStart(ts, t, s))
        BY <1>1 DEF StartEntry
    <2>2. ManualStart(ts, t, s) \in Event
        BY <1>0, NewEventType
    <2>3. Named(ManualStart(ts, t, s)) \subseteq Live(rows) /\ rows' = rows
        BY <1>1 DEF StartEntry, Named, ManualStart
    <2> QED
        BY <2>1, <2>2, <2>3, RecordNames
<1>2. ASSUME StopEntry PROVE TaskRows!Next
    <2>1. PICK ts \in 0..MaxTime : Record(StopEvent(ts))
        BY <1>2 DEF StopEntry
    <2>2. StopEvent(ts) \in Event
        BY <1>0 DEF StopEvent, Event
    <2>3. Named(StopEvent(ts)) \subseteq Live(rows) /\ rows' = rows
        BY <1>2 DEF StopEntry, Named, StopEvent
    <2> QED
        BY <2>1, <2>2, <2>3, RecordNames
<1>3. ASSUME NEW t \in Tasks, DeleteTask(t) PROVE TaskRows!Next
    BY <1>3, WriteRowImplements DEF DeleteTask, Blank
<1>4. ASSUME NEW t \in Tasks, NEW kws \in KeywordLists, CreateTask(t, kws)
      PROVE  TaskRows!Next
    BY <1>4, WriteRowImplements DEF CreateTask
<1>5. ASSUME NEW t \in Tasks, NEW kws \in KeywordLists, NEW a \in BOOLEAN,
             UpdateTask(t, kws, a)
      PROVE  TaskRows!Next
    <2>1. rows[t] \in Row /\ t \in Live(rows)
        BY <1>5 DEF UpdateTask, TypeInvariant, TypeOK, Rows
    <2>2. [rows[t] EXCEPT !.keywords = kws, !.archived = a].state = "live"
        BY <2>1 DEF Row, Live
    <2> QED
        BY <1>5, <2>1, <2>2, WriteRowImplements DEF UpdateTask
<1>6. ASSUME TickAppend PROVE TaskRows!Next \/ UNCHANGED <<ledger, rows>>
    <2>1. CASE ForeignKeys(tick.decision.task)
        <3> DEFINE e(ts) == AutoStart(ts, tick.decision.task, tick.decision.keyword)
        <3>1. PICK ts \in 0..MaxTime : Record(e(ts))
            BY <1>6, <2>1 DEF TickAppend
        <3>2. e(ts) \in Event
            BY <1>0, <2>1 DEF ForeignKeys, Live, AutoStart, Event, TypeInvariant, TypeOK, Ticks,
                              Decisions
        <3>3. Named(e(ts)) \subseteq Live(rows) /\ rows' = rows
            BY <1>6, <2>1 DEF TickAppend, ForeignKeys, Named, AutoStart
        <3> QED
            BY <3>1, <3>2, <3>3, RecordNames
    <2>2. CASE ~ ForeignKeys(tick.decision.task)
        BY <1>6, <2>2 DEF TickAppend
    <2> QED
        BY <2>1, <2>2
<1>7. CASE UNCHANGED <<ledger, rows>>
    BY <1>7 DEF TaskRows!tables, NamedTasks
<1>8. ASSUME \/ \E m \in {"manual", "auto"} : SetMode(m)
             \/ \E w \in Windows \cup {None} : FocusWindow(w)
             \/ Restart \/ TickDue \/ TickRead \/ TickObserve \/ TickRaise
             \/ Subscribe \/ HandleEvent \/ HandleRaise \/ UNCHANGED vars
      PROVE  UNCHANGED <<ledger, rows>>
    BY <1>8 DEF SetMode, FocusWindow, Restart, TickDue, TickRead, TickObserve, TickRaise,
                Subscribe, HandleEvent, HandleRaise, durable, vars
<1> QED
    BY <1>1, <1>2, <1>3, <1>4, <1>5, <1>6, <1>7, <1>8, NextCases

(* The daemon uses task rows as Tables allows: an event names rows that are  *)
(* there when it is inserted, even one decided before a DELETE, no row that  *)
(* an event names goes, and no id comes back.                                *)
THEOREM TaskTableImplements == Spec => ImplementsTaskTable
BY InitTaskRows, NextTaskRows, Typed, PTL DEF Spec, ImplementsTaskTable, TaskRows!Spec

-----------------------------------------------------------------------------
(* Timesheet                                                                 *)
(* The daemon implements it as long as the clock does not step back.  The    *)
(* ledger is then in chronological order, every entry ends at the event      *)
(* after its own, and appending an event closes exactly the running entry.   *)

Chronological(L) == \A i, j \in DOMAIN L : i < j => L[i].ts <= L[j].ts

(* In a chronological ledger the order of ORDER BY ts is the order of        *)
(* insertion.                                                                *)
LEMMA ChronologicalBefore ==
    ASSUME NEW L \in Seq(Event), Chronological(L),
           NEW i \in DOMAIN L, NEW j \in DOMAIN L
    PROVE  Before(L, i, j) <=> i < j
<1>1. i \in Nat /\ j \in Nat /\ L[i].ts \in Nat /\ L[j].ts \in Nat
    BY TsType
<1>2. (i < j => L[i].ts <= L[j].ts) /\ (j < i => L[j].ts <= L[i].ts)
    BY DEF Chronological
<1> QED
    BY <1>1, <1>2 DEF Before

LEMMA ChronologicalLatest ==
    ASSUME NEW L \in Seq(Event), Chronological(L), L # <<>>
    PROVE  Latest(L) = Len(L) /\ Len(L) \in DOMAIN L
<1>1. Len(L) \in Nat \ {0} /\ DOMAIN L = 1..Len(L) /\ Len(L) \in DOMAIN L
    BY EmptySeq, LenProperties
<1>2. Latest(L) \in DOMAIN L /\ \A j \in DOMAIN L \ {Latest(L)} : Before(L, j, Latest(L))
    BY LatestType
<1>3. Latest(L) # Len(L) => Len(L) < Latest(L)
    BY <1>1, <1>2, ChronologicalBefore
<1> QED
    BY <1>1, <1>2, <1>3

(* Where an entry ends.                                                      *)
LEMMA ChronologicalEnd ==
    ASSUME NEW L \in Seq(Event), Chronological(L), NEW i \in DOMAIN L
    PROVE  NextTs(L, i) = IF i = Len(L) THEN Open ELSE L[i + 1].ts
<1> DEFINE later == {j \in DOMAIN L : Before(L, i, j)}
<1>1. Len(L) \in Nat /\ DOMAIN L = 1..Len(L) /\ i \in Nat
    BY LenProperties
<1>2. \A j \in DOMAIN L : j \in later <=> i < j
    BY ChronologicalBefore
<1>3. CASE i = Len(L)
    <2>1. later = {}
        BY <1>1, <1>2, <1>3
    <2> QED
        BY <1>3, <2>1 DEF NextTs
<1>4. CASE i # Len(L)
    <2>1. i + 1 \in DOMAIN L /\ i + 1 \in later
        BY <1>1, <1>2, <1>4
    <2>2. /\ Least(L, later) \in later
          /\ \A j \in later \ {Least(L, later)} : Before(L, Least(L, later), j)
        BY <2>1, LeastType
    <2>3. Least(L, later) # i + 1 => Least(L, later) < i + 1
        BY <2>1, <2>2, ChronologicalBefore
    <2>4. Least(L, later) \in Nat /\ i < Least(L, later)
        BY <1>1, <1>2, <2>2
    <2>5. Least(L, later) = i + 1
        BY <1>1, <2>3, <2>4
    <2> QED
        BY <1>4, <2>1, <2>5 DEF NextTs
<1> QED
    BY <1>3, <1>4

(* The entry of the event at i, in a chronological ledger.                   *)
EntryAt(L, i) == FromEvent(L, i, IF i = Len(L) THEN Open ELSE L[i + 1].ts)

Closed(L) == {e \in Entries(L) : e.end # Open}

LEMMA ClosedAre ==
    ASSUME NEW L \in Seq(Event), Chronological(L)
    PROVE  Closed(L) = {EntryAt(L, i) : i \in {j \in DOMAIN L : L[j].task # None /\ j # Len(L)}}
<1>1. Len(L) \in Nat /\ DOMAIN L = 1..Len(L)
    BY LenProperties
<1>2. ASSUME NEW i \in DOMAIN L
      PROVE  /\ FromEvent(L, i, NextTs(L, i)) = EntryAt(L, i)
             /\ EntryAt(L, i).end # Open <=> i # Len(L)
    <2>1. FromEvent(L, i, NextTs(L, i)) = EntryAt(L, i)
        BY ChronologicalEnd DEF EntryAt
    <2>2. CASE i = Len(L)
        BY <2>1, <2>2 DEF EntryAt, FromEvent
    <2>3. CASE i # Len(L)
        <3>1. i + 1 \in DOMAIN L
            BY <1>1, <2>3
        <3>2. L[i + 1].ts \in Nat
            BY <3>1, TsType
        <3>3. EntryAt(L, i).end = L[i + 1].ts
            BY <2>3 DEF EntryAt, FromEvent
        <3> QED
            BY <2>1, <2>3, <3>2, <3>3 DEF Open
    <2> QED
        BY <2>1, <2>2, <2>3
<1>3. Entries(L) = {FromEvent(L, i, NextTs(L, i)) : i \in {j \in DOMAIN L : L[j].task # None}}
    BY DEF Entries, EntriesInRange, Selected, IsStart
<1>4. Entries(L) = {EntryAt(L, i) : i \in {j \in DOMAIN L : L[j].task # None}}
    BY <1>2, <1>3
<1> QED
    BY <1>2, <1>4 DEF Closed

LEMMA CurrentIs ==
    ASSUME NEW L \in Seq(Event), Chronological(L)
    PROVE  CurrentEntry(L) = IF L = <<>> \/ L[Len(L)].task = None THEN {}
                             ELSE {FromEvent(L, Len(L), Open)}
BY ChronologicalLatest DEF CurrentEntry, Running

(* Appending an event that is not earlier than any other.                    *)
LEMMA AppendInOrder ==
    ASSUME NEW L \in Seq(Event), Chronological(L), NEW e \in Event,
           \A i \in DOMAIN L : L[i].ts <= e.ts,
           NEW M, M = Append(L, e)
    PROVE  /\ M \in Seq(Event) /\ Chronological(M)
           /\ Closed(M) = Closed(L) \cup {[c EXCEPT !.end = e.ts] : c \in CurrentEntry(L)}
           /\ CurrentEntry(M) = IF e.task = None THEN {}
                                ELSE {[id |-> Len(L) + 1, task |-> e.task,
                                       start |-> e.ts, end |-> Open]}
<1> DEFINE n == Len(L)
<1>1. /\ M \in Seq(Event) /\ Len(M) = n + 1 /\ n \in Nat
      /\ \A i \in 1..n : M[i] = L[i]
      /\ M[n + 1] = e
      /\ DOMAIN L = 1..n /\ DOMAIN M = 1..(n + 1) /\ M # <<>>
    BY AppendProperties, LenProperties, EmptySeq
<1> HIDE DEF n
<1>2. Chronological(M)
    <2> SUFFICES ASSUME NEW i \in DOMAIN M, NEW j \in DOMAIN M, i < j
                 PROVE  M[i].ts <= M[j].ts
        BY DEF Chronological
    <2>1. i \in 1..n /\ M[i] = L[i] /\ i \in DOMAIN L
        BY <1>1
    <2>2. CASE j \in 1..n
        BY <1>1, <2>1, <2>2 DEF Chronological
    <2>3. CASE j = n + 1
        BY <1>1, <2>1, <2>3
    <2> QED
        BY <1>1, <2>2, <2>3
<1>3. Closed(M) = {EntryAt(M, i) : i \in {j \in 1..n : L[j].task # None}}
    <2>1. {j \in DOMAIN M : M[j].task # None /\ j # Len(M)} = {j \in 1..n : L[j].task # None}
        BY <1>1
    <2> QED
        BY <1>1, <1>2, <2>1, ClosedAre
<1>4. Closed(L) = {EntryAt(L, i) : i \in {j \in 1..n : L[j].task # None /\ j # n}}
    BY <1>1, ClosedAre DEF n
<1>5. ASSUME NEW i \in 1..n, i # n PROVE EntryAt(M, i) = EntryAt(L, i)
    <2>1. i + 1 \in 1..n /\ i # n + 1
        BY <1>1, <1>5
    <2> QED
        BY <1>1, <1>5, <2>1 DEF EntryAt, FromEvent, n
<1>6. CASE n = 0
    <2>1. L = <<>>
        BY <1>6, EmptySeq, LenProperties DEF n
    <2>2. CurrentEntry(L) = {}
        BY <2>1 DEF CurrentEntry, Running
    <2>3. Closed(M) = {} /\ Closed(L) = {}
        BY <1>3, <1>4, <1>6
    <2> QED
        BY <1>1, <1>2, <2>2, <2>3, CurrentIs DEF FromEvent, n
<1>7. CASE n # 0
    <2>1. n \in 1..n /\ L # <<>> /\ M[n] = L[n]
        BY <1>1, <1>7, EmptySeq
    <2>2. CASE L[n].task = None
        <3>1. CurrentEntry(L) = {}
            BY <2>1, <2>2, CurrentIs DEF n
        <3>2. Closed(M) = Closed(L)
            BY <1>3, <1>4, <1>5, <2>2
        <3> QED
            BY <1>1, <1>2, <3>1, <3>2, CurrentIs DEF FromEvent, n
    <2>3. CASE L[n].task # None
        <3>1. CurrentEntry(L) = {FromEvent(L, n, Open)}
            BY <2>1, <2>3, CurrentIs DEF n
        <3>2. EntryAt(M, n) = [FromEvent(L, n, Open) EXCEPT !.end = e.ts]
            BY <1>1, <2>1 DEF EntryAt, FromEvent
        <3>3. Closed(M) = Closed(L) \cup {EntryAt(M, n)}
            BY <1>3, <1>4, <1>5, <2>1, <2>3
        <3>4. {[c EXCEPT !.end = e.ts] : c \in CurrentEntry(L)} = {EntryAt(M, n)}
            BY <3>1, <3>2
        <3> QED
            BY <1>1, <1>2, <3>3, <3>4, CurrentIs DEF FromEvent, n
    <2> QED
        BY <2>2, <2>3
<1> QED
    BY <1>6, <1>7

-----------------------------------------------------------------------------
(* The inductive invariant: while the clock does not step back, the ledger   *)
(* is in chronological order and no event is later than the clock.           *)
ChronoInv ==
    /\ TypeInvariant
    /\ Chronological(ledger)
    /\ \A i \in DOMAIN ledger : ledger[i].ts <= now

(* A handler reads the clock and records an event stamped with what it read. *)
LEMMA RecordInOrder ==
    ASSUME "clock" \notin Faults, ChronoInv, NEW e \in Event, e.ts \in 0..MaxTime,
           ReadClock(e.ts), Record(e)
    PROVE  /\ Chronological(ledger')
           /\ \A i \in DOMAIN ledger' : ledger'[i].ts <= now'
           /\ now' = e.ts /\ now <= e.ts
           /\ Len(ledger') = Len(ledger) + 1
           /\ Closed(ledger') = Closed(ledger)
                  \cup {[c EXCEPT !.end = e.ts] : c \in CurrentEntry(ledger)}
           /\ CurrentEntry(ledger') = IF e.task = None THEN {}
                                      ELSE {[id |-> Len(ledger) + 1, task |-> e.task,
                                             start |-> e.ts, end |-> Open]}
<1>1. /\ ledger \in Seq(Event) /\ queue \in Seq(Nat) /\ Chronological(ledger)
      /\ now \in Nat /\ e.ts \in Nat
      /\ \A i \in DOMAIN ledger : ledger[i].ts \in Nat /\ ledger[i].ts <= now
    BY TickerAssumption, TsType DEF ChronoInv, TypeInvariant, TypeOK
<1>2. now' = e.ts /\ now <= e.ts
    BY <1>1 DEF ReadClock
<1>3. \A i \in DOMAIN ledger : ledger[i].ts <= e.ts
    BY <1>1, <1>2
<1>4. ledger' = Append(ledger, e)
    BY DEF Record
<1>5. /\ Chronological(ledger')
      /\ Closed(ledger') = Closed(ledger)
             \cup {[c EXCEPT !.end = e.ts] : c \in CurrentEntry(ledger)}
      /\ CurrentEntry(ledger') = IF e.task = None THEN {}
                                 ELSE {[id |-> Len(ledger) + 1, task |-> e.task,
                                        start |-> e.ts, end |-> Open]}
    BY <1>1, <1>3, <1>4, AppendInOrder
<1>6. /\ Len(ledger') = Len(ledger) + 1
      /\ \A i \in DOMAIN ledger' : ledger'[i].ts <= now'
    BY <1>1, <1>2, <1>3, RecordEffect
<1> QED
    BY <1>2, <1>5, <1>6

(* What every step does to the timesheet: nothing, or let the clock pass, or *)
(* record one event at the instant it reads.                                 *)
LEMMA SheetSteps ==
    ASSUME TypeInvariant, Next
    PROVE  \/ UNCHANGED <<ledger, now>>
           \/ ledger' = ledger /\ \E ts \in 0..MaxTime : ReadClock(ts)
           \/ \E e \in Event : e.ts \in 0..MaxTime /\ ReadClock(e.ts) /\ Record(e)
<1>0. 0..MaxTime \subseteq Nat
    BY TickerAssumption
<1>1. ASSUME NEW t \in Tasks, NEW s \in Tasks \cup {None}, StartEntry(t, s)
      PROVE  \E e \in Event : e.ts \in 0..MaxTime /\ ReadClock(e.ts) /\ Record(e)
    <2>1. PICK ts \in 0..MaxTime : ReadClock(ts) /\ Record(ManualStart(ts, t, s))
        BY <1>1 DEF StartEntry
    <2>2. ManualStart(ts, t, s) \in Event /\ ManualStart(ts, t, s).ts = ts
        BY <1>0, NewEventType DEF ManualStart
    <2> QED
        BY <2>1, <2>2
<1>2. ASSUME StopEntry
      PROVE  \E e \in Event : e.ts \in 0..MaxTime /\ ReadClock(e.ts) /\ Record(e)
    <2>1. PICK ts \in 0..MaxTime : ReadClock(ts) /\ Record(StopEvent(ts))
        BY <1>2 DEF StopEntry
    <2>2. StopEvent(ts) \in Event /\ StopEvent(ts).ts = ts
        BY <1>0 DEF StopEvent, Event
    <2> QED
        BY <2>1, <2>2
<1>3. ASSUME TickAppend, ForeignKeys(tick.decision.task)
      PROVE  \E e \in Event : e.ts \in 0..MaxTime /\ ReadClock(e.ts) /\ Record(e)
    <2> DEFINE e(ts) == AutoStart(ts, tick.decision.task, tick.decision.keyword)
    <2>1. PICK ts \in 0..MaxTime : ReadClock(ts) /\ Record(e(ts))
        BY <1>3 DEF TickAppend
    <2>2. tick.decision.task \in Tasks /\ tick.decision.keyword \in Keywords \cup {None}
        BY <1>3 DEF ForeignKeys, Live, TypeInvariant, TypeOK, Ticks, Decisions
    <2>3. e(ts) \in Event /\ e(ts).ts = ts
        BY <1>0, <2>2 DEF AutoStart, Event
    <2> QED
        BY <2>1, <2>3
<1>4. ASSUME TickAppend, ~ ForeignKeys(tick.decision.task)
      PROVE  UNCHANGED <<ledger, now>>
    BY <1>4 DEF TickAppend
<1>5. ASSUME NEW t \in Tasks, NEW kws \in KeywordLists, CreateTask(t, kws)
      PROVE  ledger' = ledger /\ \E ts \in 0..MaxTime : ReadClock(ts)
    BY <1>5 DEF CreateTask, WriteRow
<1>6. ASSUME \/ \E t \in Tasks : DeleteTask(t)
             \/ \E t \in Tasks, kws \in KeywordLists, a \in BOOLEAN : UpdateTask(t, kws, a)
             \/ \E m \in {"manual", "auto"} : SetMode(m)
             \/ \E w \in Windows \cup {None} : FocusWindow(w)
             \/ Restart \/ TickDue \/ TickRead \/ TickObserve \/ TickRaise
             \/ Subscribe \/ HandleEvent \/ HandleRaise
      PROVE  UNCHANGED <<ledger, now>>
    BY <1>6 DEF DeleteTask, UpdateTask, WriteRow, SetMode, FocusWindow, Restart, TickDue,
                TickRead, TickObserve, TickRaise, Subscribe, HandleEvent, HandleRaise, durable
<1> QED
    BY <1>1, <1>2, <1>3, <1>4, <1>5, <1>6, NextCases

LEMMA NextInOrder ==
    ASSUME "clock" \notin Faults
    PROVE  ChronoInv /\ [Next]_vars => ChronoInv'
<1> SUFFICES ASSUME ChronoInv, [Next]_vars PROVE ChronoInv'
    OBVIOUS
<1>1. TypeInvariant'
    BY NextTyped DEF ChronoInv
<1>2. CASE UNCHANGED <<ledger, now>>
    BY <1>1, <1>2 DEF ChronoInv, Chronological
<1>3. CASE ledger' = ledger /\ \E ts \in 0..MaxTime : ReadClock(ts)
    <2>1. now \in Nat /\ now' \in Nat /\ now <= now'
        BY <1>3, TickerAssumption DEF ReadClock, ChronoInv, TypeInvariant, TypeOK
    <2>2. \A i \in DOMAIN ledger : ledger[i].ts \in Nat /\ ledger[i].ts <= now
        BY TsType DEF ChronoInv, TypeInvariant, TypeOK
    <2> QED
        BY <1>1, <1>3, <2>1, <2>2 DEF ChronoInv, Chronological
<1>4. CASE \E e \in Event : e.ts \in 0..MaxTime /\ ReadClock(e.ts) /\ Record(e)
    <2>1. PICK e \in Event : e.ts \in 0..MaxTime /\ ReadClock(e.ts) /\ Record(e)
        BY <1>4
    <2> QED
        BY <1>1, <2>1, RecordInOrder DEF ChronoInv
<1>5. CASE UNCHANGED vars
    BY <1>2, <1>5 DEF vars
<1> QED
    BY <1>2, <1>3, <1>4, <1>5, SheetSteps DEF ChronoInv

(* Every step of the daemon is a step of the timesheet or a stutter.         *)
LEMMA NextImplements ==
    ASSUME "clock" \notin Faults, ChronoInv, [Next]_vars
    PROVE  [Sheet!Next]_(Sheet!sheet)
<1>0. /\ MaxTime \in Nat /\ now \in 0..MaxTime /\ ledger \in Seq(Event)
      /\ Len(ledger) \in Nat
    BY TickerAssumption, LenProperties DEF ChronoInv, TypeInvariant, TypeOK
<1>1. CASE UNCHANGED <<ledger, now>>
    BY <1>1 DEF Sheet!sheet, ClosedEntries, Entries, EntriesInRange, CurrentEntry, Running,
                Latest
<1>2. CASE ledger' = ledger /\ \E ts \in 0..MaxTime : ReadClock(ts)
    <2>1. now' \in 0..MaxTime /\ now' >= now
        BY <1>2 DEF ReadClock
    <2>2. Sheet!Pass
        BY <1>2, <2>1 DEF Sheet!Pass, Sheet!Instants, ClosedEntries
    <2> QED
        BY <2>2 DEF Sheet!Next
<1>3. CASE \E e \in Event : e.ts \in 0..MaxTime /\ ReadClock(e.ts) /\ Record(e)
    <2>1. PICK e \in Event : e.ts \in 0..MaxTime /\ ReadClock(e.ts) /\ Record(e)
        BY <1>3
    <2>2. /\ now' = e.ts /\ now <= e.ts
          /\ Len(ledger') = Len(ledger) + 1
          /\ Closed(ledger') = Closed(ledger)
                 \cup {[c EXCEPT !.end = e.ts] : c \in CurrentEntry(ledger)}
          /\ CurrentEntry(ledger') = IF e.task = None THEN {}
                                     ELSE {[id |-> Len(ledger) + 1, task |-> e.task,
                                            start |-> e.ts, end |-> Open]}
        BY <2>1, RecordInOrder
    <2>3. e.ts \in Sheet!Instants /\ Sheet!At(e.ts)
        BY <1>0, <2>1, <2>2 DEF Sheet!At, Sheet!Ended, Sheet!Instants, ClosedEntries, Closed
    <2>4. CASE e.task = None
        <3>1. Sheet!Stop
            BY <2>2, <2>3, <2>4 DEF Sheet!Stop
        <3> QED
            BY <3>1 DEF Sheet!Next
    <2>5. CASE e.task # None
        <3>1. e.task \in Tasks
            BY <2>5 DEF Event
        <3>2. Sheet!Start(e.task)
            BY <2>2, <2>3, <2>5 DEF Sheet!Start, Sheet!Open, Open
        <3> QED
            BY <3>1, <3>2 DEF Sheet!Next
    <2> QED
        BY <2>4, <2>5
<1>4. CASE UNCHANGED vars
    BY <1>1, <1>4 DEF vars
<1> QED
    BY <1>1, <1>2, <1>3, <1>4, SheetSteps DEF ChronoInv

LEMMA InitImplements == Init => ChronoInv /\ Sheet!Init
<1> SUFFICES ASSUME Init PROVE ChronoInv /\ Sheet!Init
    OBVIOUS
<1>1. ledger = <<>> /\ DOMAIN ledger = {} /\ Len(ledger) = 0 /\ now \in 0..MaxTime
    BY DEF Init
<1>2. CurrentEntry(ledger) = {} /\ ClosedEntries = {}
    BY <1>1 DEF CurrentEntry, Running, ClosedEntries, Entries, EntriesInRange, Selected
<1> QED
    BY <1>1, <1>2, InitTyped DEF ChronoInv, Chronological, Sheet!Init, Sheet!Instants

(* While the clock does not step back, the daemon (its ledger, its handlers, *)
(* its ticker, in every interleaving and across every restart) implements    *)
(* the timesheet a user is shown.                                            *)
THEOREM Implements ==
    ASSUME "clock" \notin Faults
    PROVE  Spec => ImplementsTimesheet
<1>1. ChronoInv /\ [Next]_vars => ChronoInv' /\ [Sheet!Next]_(Sheet!sheet)
    BY NextInOrder, NextImplements
<1> QED
    BY <1>1, InitImplements, PTL DEF Spec, ImplementsTimesheet, Sheet!Spec
=============================================================================
