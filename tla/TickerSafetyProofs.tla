------------------------- MODULE TickerSafetyProofs -------------------------
(* What a tick may record, and what the override store may hold, for every   *)
(* instance.  Two inductive invariants carry it: DecisionInv and             *)
(* SubscriberInv.                                                            *)
EXTENDS TickerProofs

(* The task of the latest event is the running one.                          *)
LEMMA LatestTaskIsRunning ==
    ASSUME ledger \in Seq(Event)
    PROVE  LatestTask(Latest(ledger)) = Running(ledger)
<1>1. CASE ledger = <<>>
    BY <1>1 DEF Latest, LatestTask, Running
<1>2. CASE ledger # <<>>
    <2>1. Latest(ledger) \in DOMAIN ledger
        BY <1>2, LatestType
    <2>2. Latest(ledger) # 0
        BY <2>1, TsType
    <2> QED
        BY <1>2, <2>2 DEF LatestTask, Running
<1> QED
    BY <1>1, <1>2

(* What is appended is the last event.                                       *)
LEMMA LastRecorded ==
    ASSUME TypeInvariant, NEW e \in Event, Record(e)
    PROVE  Last(ledger') = e /\ Len(ledger') > Len(ledger)
BY RecordEffect DEF TypeInvariant, TypeOK, Last

(* A handler of POST /entries and a tick record one event, or a tick none.   *)
LEMMA RecordingSteps ==
    ASSUME TypeInvariant,
           \/ \E t \in Tasks, s \in Tasks \cup {None} : StartEntry(t, s)
           \/ StopEntry \/ TickAppend
    PROVE  (\E e \in Event : Record(e)) \/ UNCHANGED <<ledger, queue>>
<1>0. 0..MaxTime \subseteq Nat
    BY TickerAssumption
<1>1. ASSUME NEW t \in Tasks, NEW s \in Tasks \cup {None}, StartEntry(t, s)
      PROVE  \E e \in Event : Record(e)
    <2>1. PICK ts \in 0..MaxTime : Record(ManualStart(ts, t, s))
        BY <1>1 DEF StartEntry
    <2>2. ManualStart(ts, t, s) \in Event
        BY <1>0, NewEventType
    <2> QED
        BY <2>1, <2>2
<1>2. ASSUME StopEntry PROVE \E e \in Event : Record(e)
    <2>1. PICK ts \in 0..MaxTime : Record(StopEvent(ts))
        BY <1>2 DEF StopEntry
    <2>2. StopEvent(ts) \in Event
        BY <1>0 DEF StopEvent, Event
    <2> QED
        BY <2>1, <2>2
<1>3. ASSUME TickAppend, ForeignKeys(tick.decision.task)
      PROVE  \E e \in Event : Record(e)
    <2> DEFINE e(ts) == AutoStart(ts, tick.decision.task, tick.decision.keyword)
    <2>1. PICK ts \in 0..MaxTime : Record(e(ts))
        BY <1>3 DEF TickAppend
    <2>2. e(ts) \in Event
        BY <1>0, <1>3 DEF ForeignKeys, Live, AutoStart, Event, TypeInvariant, TypeOK, Ticks,
                          Decisions
    <2> QED
        BY <2>1, <2>2
<1>4. ASSUME TickAppend, ~ ForeignKeys(tick.decision.task)
      PROVE  UNCHANGED <<ledger, queue>>
    BY <1>4 DEF TickAppend
<1> QED
    BY <1>1, <1>2, <1>3, <1>4

-----------------------------------------------------------------------------
(* The decision in flight *)

LEMMA InitDecision == Init => DecisionInv
<1> SUFFICES ASSUME Init PROVE DecisionInv
    OBVIOUS
<1>1. TypeInvariant
    BY InitTyped
<1> QED
    BY <1>1 DEF Init, Boot, DecisionInv, TickSeesLatest, DecisionStillGood, CalmMeansHeld,
                StraysBounded

LEMMA NextDecision == DecisionInv /\ [Next]_vars => DecisionInv'
<1> SUFFICES ASSUME DecisionInv, [Next]_vars PROVE DecisionInv'
    OBVIOUS
<1>0. TypeInvariant /\ TypeInvariant'
    BY NextTyped DEF DecisionInv
<1> DEFINE Rest == /\ TickSeesLatest' /\ DecisionStillGood' /\ CalmMeansHeld'
                   /\ StraysBounded'
<1> USE DEF LoopHandler, LoopFree
<1>1. ASSUME \/ \E t \in Tasks, s \in Tasks \cup {None} : StartEntry(t, s)
             \/ StopEntry
      PROVE  Rest
    <2>1. /\ poll \in {"sleeping", "due", "dead"} /\ poll' = poll
          /\ UNCHANGED <<rows, window, override, calm, strays, mode, tick>>
        BY <1>1 DEF StartEntry, StopEntry
    <2> QED
        BY <2>1 DEF DecisionInv, TickSeesLatest, DecisionStillGood, CalmMeansHeld,
                    StraysBounded
<1>2. ASSUME NEW t \in Tasks, NEW row, WriteRow(t, row) PROVE Rest
    BY <1>2 DEF WriteRow, DecisionInv, TickSeesLatest, DecisionStillGood, CalmMeansHeld,
                StraysBounded
<1>3. ASSUME NEW m \in {"manual", "auto"}, SetMode(m) PROVE Rest
    BY <1>3 DEF SetMode, DecisionInv, TickSeesLatest, DecisionStillGood, CalmMeansHeld,
                StraysBounded
<1>4. ASSUME NEW w \in Windows \cup {None}, FocusWindow(w) PROVE Rest
    BY <1>4 DEF FocusWindow, durable, DecisionInv, TickSeesLatest, DecisionStillGood,
                CalmMeansHeld, StraysBounded
<1>5. ASSUME Restart PROVE Rest
    BY <1>5 DEF Restart, durable, DecisionInv, TickSeesLatest, DecisionStillGood,
                CalmMeansHeld, StraysBounded
<1>6. ASSUME TickDue \/ TickRead PROVE Rest
    BY <1>6 DEF TickDue, TickRead, durable, DecisionInv, TickSeesLatest, DecisionStillGood,
                CalmMeansHeld, StraysBounded
<1>7. ASSUME TickObserve PROVE Rest
    <2> DEFINE d == ResolveAutoSwitch(tick.mode, LatestTask(tick.latest), window,
                                      rows, override, FALSE)
    <2>1. window \in Windows \cup {None} /\ rows \in Rows /\ override \in Overrides
        BY <1>0 DEF TypeInvariant, TypeOK
    <2> HIDE DEF d
    <2>2. d.kind = "start" => /\ tick.mode = "auto"
                              /\ d.task # LatestTask(tick.latest)
                              /\ override # Override(Signals(window, rows))
        <3>1. d = ResolveAutoSwitch(tick.mode, LatestTask(tick.latest), window, rows,
                                    override, FALSE)
            BY DEF d
        <3> QED
            BY <2>1, <3>1, StartAutoJustified
    <2> USE DEF d
    <2>3. poll = "observe" /\ tick.latest = Latest(ledger)
        BY <1>7 DEF TickObserve, DecisionInv, TickSeesLatest
    <2>4. LatestTask(tick.latest) = Running(ledger)
        BY <1>0, <2>3, LatestTaskIsRunning DEF TypeInvariant, TypeOK
    <2>5. UNCHANGED <<ledger, rows, mode, window, override, calm, strays>>
        BY <1>7 DEF TickObserve, durable
    <2>6. CASE d.kind = "start"
        <3>1. poll' = "append" /\ tick' = [tick EXCEPT !.decision = d]
            BY <1>7, <2>6 DEF TickObserve
        <3>2. tick'.mode = tick.mode /\ tick'.latest = tick.latest /\ tick'.decision = d
            BY <1>0, <3>1 DEF TypeInvariant, TypeOK, Ticks
        <3>3. ~calm
            BY <2>2, <2>6 DEF DecisionInv, CalmMeansHeld
        <3>4. Running(ledger') = Running(ledger) /\ Latest(ledger') = Latest(ledger)
            BY <2>5
        <3>5. DecisionStillGood'
            BY <2>2, <2>4, <2>5, <2>6, <3>2, <3>3, <3>4 DEF DecisionStillGood
        <3>6. TickSeesLatest'
            BY <2>3, <3>2, <3>4 DEF TickSeesLatest
        <3>7. CalmMeansHeld'
            BY <2>5, <3>3 DEF CalmMeansHeld
        <3>8. StraysBounded'
            BY <2>3, <2>5, <3>2 DEF DecisionInv, StraysBounded
        <3> QED
            BY <3>5, <3>6, <3>7, <3>8
    <2>7. CASE d.kind # "start"
        <3>1. poll' = "sleeping"
            BY <1>7, <2>7 DEF TickObserve
        <3> QED
            BY <2>5, <3>1 DEF DecisionInv, TickSeesLatest, DecisionStillGood, CalmMeansHeld,
                              StraysBounded
    <2> QED
        BY <2>6, <2>7
<1>8. ASSUME TickRaise PROVE Rest
    BY <1>8 DEF TickRaise, durable, DecisionInv, TickSeesLatest, DecisionStillGood,
                CalmMeansHeld, StraysBounded
<1>9. ASSUME TickAppend PROVE Rest
    <2>1. poll = "append" /\ poll' \in {"sleeping", "dead"} /\ tick.mode = "auto"
        BY <1>9 DEF TickAppend, DecisionInv, DecisionStillGood
    <2>2. UNCHANGED <<rows, mode, window, override, calm>>
        BY <1>9 DEF TickAppend
    <2>3. strays = 0
        BY <2>1 DEF DecisionInv, StraysBounded
    <2>4. strays' = 0 \/ (strays' = 1 /\ mode' = "manual")
        BY <1>9, <2>3 DEF TickAppend
    <2> QED
        BY <2>1, <2>2, <2>4 DEF DecisionInv, TickSeesLatest, DecisionStillGood,
                                CalmMeansHeld, StraysBounded
<1>10. ASSUME Subscribe PROVE Rest
    BY <1>10 DEF Subscribe, durable, DecisionInv, TickSeesLatest, DecisionStillGood,
                 CalmMeansHeld, StraysBounded
<1>11. ASSUME HandleEvent PROVE Rest
    <2>1. /\ poll \in {"sleeping", "due", "dead"} /\ poll' = poll
          /\ UNCHANGED <<ledger, rows, mode, window, tick, strays>>
        BY <1>11 DEF HandleEvent, durable
    <2>2. calm' => override' = Override(Signals(window, rows))
        BY <1>11 DEF HandleEvent, OverrideAfter
    <2>3. CalmMeansHeld'
        BY <2>1, <2>2 DEF CalmMeansHeld
    <2> QED
        BY <2>1, <2>3 DEF DecisionInv, TickSeesLatest, DecisionStillGood, StraysBounded
<1>12. ASSUME HandleRaise PROVE Rest
    BY <1>12 DEF HandleRaise, durable, DecisionInv, TickSeesLatest, DecisionStillGood,
                 CalmMeansHeld, StraysBounded
<1>13. ASSUME UNCHANGED vars PROVE Rest
    BY <1>13 DEF vars, DecisionInv, TickSeesLatest, DecisionStillGood, CalmMeansHeld,
                 StraysBounded
<1>14. ASSUME \/ \E t \in Tasks : DeleteTask(t)
              \/ \E t \in Tasks, kws \in KeywordLists : CreateTask(t, kws)
              \/ \E t \in Tasks, kws \in KeywordLists, a \in BOOLEAN : UpdateTask(t, kws, a)
       PROVE  \E t \in Tasks : \E row : WriteRow(t, row)
    BY <1>14 DEF DeleteTask, CreateTask, UpdateTask
<1>15. Rest
    BY <1>1, <1>2, <1>3, <1>4, <1>5, <1>6, <1>7, <1>8, <1>9, <1>10, <1>11, <1>12, <1>13,
       <1>14, NextCases
<1> QED
    BY <1>0, <1>15 DEF DecisionInv

LEMMA DecisionHolds == Spec => []DecisionInv
BY InitDecision, NextDecision, PTL DEF Spec

(* Only TickAppend records an AUTO event, and it records its decision.       *)
LEMMA AutoStep ==
    ASSUME DecisionInv, Next, AutoAppended
    PROVE  poll = "append" /\ Last(ledger').task = tick.decision.task
<1>0. TypeInvariant /\ 0..MaxTime \subseteq Nat /\ Len(ledger) \in Nat
    BY TickerAssumption, LenProperties DEF DecisionInv, TypeInvariant, TypeOK
<1>1. ASSUME NEW t \in Tasks, NEW s \in Tasks \cup {None}, StartEntry(t, s) PROVE FALSE
    <2>1. PICK ts \in 0..MaxTime : Record(ManualStart(ts, t, s))
        BY <1>1 DEF StartEntry
    <2>2. Last(ledger') = ManualStart(ts, t, s)
        BY <1>0, <2>1, NewEventType, LastRecorded
    <2> QED
        BY <2>2 DEF ManualStart, AutoAppended
<1>2. ASSUME StopEntry PROVE FALSE
    <2>1. PICK ts \in 0..MaxTime : Record(StopEvent(ts))
        BY <1>2 DEF StopEntry
    <2>2. StopEvent(ts) \in Event
        BY <1>0 DEF StopEvent, Event
    <2>3. Last(ledger') = StopEvent(ts)
        BY <1>0, <2>1, <2>2, LastRecorded
    <2> QED
        BY <2>3 DEF StopEvent, AutoAppended
<1>3. ASSUME TickAppend PROVE poll = "append" /\ Last(ledger').task = tick.decision.task
    <2>1. ForeignKeys(tick.decision.task)
        BY <1>0, <1>3 DEF TickAppend, AutoAppended
    <2> DEFINE e(ts) == AutoStart(ts, tick.decision.task, tick.decision.keyword)
    <2>2. PICK ts \in 0..MaxTime : Record(e(ts))
        BY <1>3, <2>1 DEF TickAppend
    <2>3. e(ts) \in Event
        BY <1>0, <2>1 DEF ForeignKeys, Live, AutoStart, Event, TypeInvariant, TypeOK, Ticks,
                          Decisions
    <2>4. Last(ledger') = e(ts)
        BY <1>0, <2>2, <2>3, LastRecorded
    <2> QED
        BY <1>3, <2>4 DEF TickAppend, AutoStart
<1>4. Len(ledger') > Len(ledger) => ledger' # ledger
    BY <1>0
<1>5. ASSUME \/ \E t \in Tasks : DeleteTask(t)
             \/ \E t \in Tasks, kws \in KeywordLists : CreateTask(t, kws)
             \/ \E t \in Tasks, kws \in KeywordLists, a \in BOOLEAN : UpdateTask(t, kws, a)
             \/ \E m \in {"manual", "auto"} : SetMode(m)
             \/ \E w \in Windows \cup {None} : FocusWindow(w)
             \/ Restart \/ TickDue \/ TickRead \/ TickObserve \/ TickRaise
             \/ Subscribe \/ HandleEvent \/ HandleRaise
      PROVE  ledger' = ledger
    BY <1>5 DEF DeleteTask, CreateTask, UpdateTask, WriteRow, SetMode, FocusWindow, Restart,
                TickDue, TickRead, TickObserve, TickRaise, Subscribe, HandleEvent, HandleRaise, durable
<1> QED
    BY <1>1, <1>2, <1>3, <1>4, <1>5, NextCases DEF AutoAppended

(* The mode can be switched off under at most one tick: after PATCH /mode no *)
(* more than one AUTO event follows.                                         *)
THEOREM StraysHold == Spec => []AtMostOneStray
<1>1. DecisionInv => AtMostOneStray
    BY DEF DecisionInv, StraysBounded, AtMostOneStray
<1> QED
    BY <1>1, DecisionHolds, PTL

(* The ticker never starts the task that is running, even though it read the *)
(* ledger before the call to ActivityWatch.                                  *)
THEOREM NeverRestarts == Spec => NoAutoRestart
<1>1. DecisionInv /\ [Next]_vars
          => [AutoAppended => Running(ledger) # Last(ledger').task]_vars
    <2> SUFFICES ASSUME DecisionInv, Next, AutoAppended
                 PROVE  Running(ledger) # Last(ledger').task
        OBVIOUS
    <2>1. poll = "append" /\ Last(ledger').task = tick.decision.task
        BY AutoStep
    <2> QED
        BY <2>1 DEF DecisionInv, DecisionStillGood
<1> QED
    BY <1>1, DecisionHolds, PTL DEF Spec, NoAutoRestart

(* A manual start whose event has been handled is not switched away from     *)
(* until the window or the task table has changed.                           *)
THEOREM OverrideIsSticky == Spec => StickyOverride
<1>1. DecisionInv /\ [Next]_vars => [AutoAppended => ~calm]_vars
    <2> SUFFICES ASSUME DecisionInv, Next, AutoAppended
                 PROVE  ~calm
        OBVIOUS
    <2>1. poll = "append"
        BY AutoStep
    <2> QED
        BY <2>1 DEF DecisionInv, DecisionStillGood
<1> QED
    BY <1>1, DecisionHolds, PTL DEF Spec, StickyOverride

-----------------------------------------------------------------------------
(* The subscriber *)

LEMMA InitSubscriber == Init => SubscriberInv
<1> SUFFICES ASSUME Init PROVE SubscriberInv
    OBVIOUS
<1>1. TypeInvariant
    BY InitTyped
<1> QED
    BY <1>1 DEF Init, Boot, SubscriberInv, PendingIsSuffix, OverrideTracksLedger, NoOverride

(* Recording an event extends the ledger and the pending events alike.       *)
LEMMA RecordKeepsSubscriber ==
    ASSUME SubscriberInv, NEW e \in Event, Record(e), TypeInvariant',
           UNCHANGED <<sub, override>>
    PROVE  SubscriberInv'
<1>1. ledger \in Seq(Event) /\ queue \in Seq(Nat)
    BY DEF SubscriberInv, TypeInvariant, TypeOK
<1>2. CASE sub = "waiting"
    <2>1. /\ Len(ledger) \in Nat /\ Len(ledger') = Len(ledger) + 1
          /\ \A i \in DOMAIN ledger : ledger'[i] = ledger[i]
        BY <1>1, RecordEffect
    <2>2. queue' = Append(queue, Len(ledger) + 1)
        BY <1>2 DEF Record
    <2>3. /\ Len(queue) \in Nat /\ Len(queue') = Len(queue) + 1
          /\ \A i \in 1..Len(queue) : queue'[i] = queue[i]
          /\ queue'[Len(queue) + 1] = Len(ledger) + 1
          /\ DOMAIN queue' = 1..(Len(queue) + 1) /\ DOMAIN queue = 1..Len(queue)
        BY <1>1, <2>1, <2>2, AppendProperties, LenProperties
    <2>4. /\ Len(queue) <= Len(ledger)
          /\ \A i \in DOMAIN queue : queue[i] = Len(ledger) - Len(queue) + i
        BY <1>2 DEF SubscriberInv, PendingIsSuffix
    <2>5. PendingIsSuffix'
        <3>1. ASSUME NEW i \in DOMAIN queue'
              PROVE  queue'[i] = Len(ledger') - Len(queue') + i
            <4>1. CASE i \in 1..Len(queue)
                <5>1. queue'[i] = Len(ledger) - Len(queue) + i
                    BY <2>3, <2>4, <4>1
                <5> QED
                    BY <2>1, <2>3, <4>1, <5>1
            <4>2. CASE i = Len(queue) + 1
                BY <2>1, <2>3, <4>2
            <4> QED
                BY <2>3, <4>1, <4>2
        <3>2. Len(queue') <= Len(ledger')
            BY <2>1, <2>3, <2>4
        <3> QED
            BY <3>1, <3>2 DEF PendingIsSuffix
    <2>6. Len(ledger') - Len(queue') = Len(ledger) - Len(queue)
        BY <2>1, <2>3
    <2>7. OverrideTracksLedger'
        <3> SUFFICES ASSUME override.held
                     PROVE  /\ Len(ledger) - Len(queue) > 0
                            /\ ledger'[Len(ledger) - Len(queue)].source = "manual"
            BY <1>2, <2>6 DEF OverrideTracksLedger
        <3>1. /\ Len(ledger) - Len(queue) > 0
              /\ ledger[Len(ledger) - Len(queue)].source = "manual"
            BY <1>2 DEF SubscriberInv, OverrideTracksLedger
        <3>2. Len(ledger) - Len(queue) \in DOMAIN ledger
            BY <1>1, <2>1, <2>3, <2>4, <3>1, LenProperties
        <3> QED
            BY <2>1, <3>1, <3>2
    <2> QED
        BY <1>2, <2>5, <2>7 DEF SubscriberInv
<1>3. CASE sub # "waiting"
    BY <1>3 DEF Record, SubscriberInv, PendingIsSuffix, OverrideTracksLedger
<1> QED
    BY <1>2, <1>3

(* Handling the first pending event makes it the last handled one.           *)
LEMMA HandleKeepsSubscriber ==
    ASSUME SubscriberInv, HandleEvent, TypeInvariant'
    PROVE  SubscriberInv'
<1>1. ledger \in Seq(Event) /\ queue \in Seq(Nat) /\ queue # <<>> /\ queue' = Tail(queue)
      /\ ledger' = ledger /\ sub = "waiting" /\ sub' = sub
    BY DEF HandleEvent, durable, SubscriberInv, TypeInvariant, TypeOK
<1>2. /\ Len(queue) \in Nat \ {0} /\ Len(queue') = Len(queue) - 1
      /\ \A i \in 1..(Len(queue) - 1) : queue'[i] = queue[i + 1]
      /\ Head(queue) = queue[1]
      /\ DOMAIN queue = 1..Len(queue) /\ DOMAIN queue' = 1..(Len(queue) - 1)
      /\ Len(ledger) \in Nat
    BY <1>1, HeadTailProperties, LenProperties, EmptySeq
<1>3. /\ Len(queue) <= Len(ledger)
      /\ \A i \in DOMAIN queue : queue[i] = Len(ledger) - Len(queue) + i
    BY <1>1 DEF SubscriberInv, PendingIsSuffix
<1>4. PendingIsSuffix'
    <2>1. ASSUME NEW i \in DOMAIN queue'
          PROVE  queue'[i] = Len(ledger) - Len(queue') + i
        <3>1. queue'[i] = queue[i + 1] /\ i + 1 \in DOMAIN queue
            BY <1>2
        <3>2. queue[i + 1] = Len(ledger) - Len(queue) + (i + 1)
            BY <1>3, <3>1
        <3> QED
            BY <1>2, <3>1, <3>2
    <2>2. Len(queue') <= Len(ledger)
        BY <1>2, <1>3
    <2> QED
        BY <1>1, <2>1, <2>2 DEF PendingIsSuffix
<1>5. Head(queue) = Len(ledger) - Len(queue') /\ Head(queue) > 0
    BY <1>2, <1>3
<1>6. override'.held => ledger[Head(queue)].source = "manual"
    BY DEF HandleEvent, OverrideAfter, NextEvent, NoOverride
<1>7. OverrideTracksLedger'
    BY <1>1, <1>5, <1>6 DEF OverrideTracksLedger
<1> QED
    BY <1>1, <1>4, <1>7 DEF SubscriberInv

LEMMA NextSubscriber == SubscriberInv /\ [Next]_vars => SubscriberInv'
<1> SUFFICES ASSUME SubscriberInv, [Next]_vars PROVE SubscriberInv'
    OBVIOUS
<1>0. TypeInvariant /\ TypeInvariant' /\ 0..MaxTime \subseteq Nat
    BY NextTyped, TickerAssumption DEF SubscriberInv
<1>1. ASSUME NEW t \in Tasks, NEW s \in Tasks \cup {None}, StartEntry(t, s)
      PROVE  SubscriberInv'
    <2>1. PICK ts \in 0..MaxTime : Record(ManualStart(ts, t, s))
        BY <1>1 DEF StartEntry
    <2>2. ManualStart(ts, t, s) \in Event
        BY <1>0, NewEventType
    <2>3. UNCHANGED <<sub, override>>
        BY <1>1 DEF StartEntry
    <2> QED
        BY <1>0, <2>1, <2>2, <2>3, RecordKeepsSubscriber
<1>2. ASSUME StopEntry PROVE SubscriberInv'
    <2>1. PICK ts \in 0..MaxTime : Record(StopEvent(ts))
        BY <1>2 DEF StopEntry
    <2>2. StopEvent(ts) \in Event
        BY <1>0 DEF StopEvent, Event
    <2>3. UNCHANGED <<sub, override>>
        BY <1>2 DEF StopEntry
    <2> QED
        BY <1>0, <2>1, <2>2, <2>3, RecordKeepsSubscriber
<1>3. ASSUME UNCHANGED <<ledger, sub, queue, override>> PROVE SubscriberInv'
    BY <1>0, <1>3 DEF SubscriberInv, PendingIsSuffix, OverrideTracksLedger
<1>4. ASSUME TickAppend PROVE SubscriberInv'
    <2>1. CASE ForeignKeys(tick.decision.task)
        <3> DEFINE e(ts) == AutoStart(ts, tick.decision.task, tick.decision.keyword)
        <3>1. PICK ts \in 0..MaxTime : Record(e(ts))
            BY <1>4, <2>1 DEF TickAppend
        <3>2. e(ts) \in Event
            BY <1>0, <2>1 DEF ForeignKeys, Live, AutoStart, Event, TypeInvariant, TypeOK,
                              Ticks, Decisions
        <3>3. UNCHANGED <<sub, override>>
            BY <1>4 DEF TickAppend
        <3> QED
            BY <1>0, <3>1, <3>2, <3>3, RecordKeepsSubscriber
    <2>2. CASE ~ ForeignKeys(tick.decision.task)
        <3>1. UNCHANGED <<ledger, sub, queue, override>>
            BY <1>4, <2>2 DEF TickAppend
        <3> QED
            BY <1>3, <3>1
    <2> QED
        BY <2>1, <2>2
<1>5. ASSUME \/ Restart \/ HandleRaise PROVE SubscriberInv'
    BY <1>0, <1>5 DEF Restart, HandleRaise, durable, NoOverride, SubscriberInv,
                      PendingIsSuffix, OverrideTracksLedger
<1>6. ASSUME Subscribe PROVE SubscriberInv'
    <2>1. /\ sub = "starting" /\ sub' = "waiting" /\ queue' = queue /\ queue = <<>>
          /\ ~override.held /\ override' = override /\ ledger' = ledger
        BY <1>6 DEF Subscribe, durable, SubscriberInv
    <2>2. Len(queue') = 0 /\ DOMAIN queue' = {} /\ Len(ledger') \in Nat
        BY <1>0, <2>1, LenProperties DEF TypeInvariant, TypeOK
    <2> QED
        BY <1>0, <2>1, <2>2 DEF SubscriberInv, PendingIsSuffix, OverrideTracksLedger
<1>7. ASSUME \/ \E t \in Tasks : DeleteTask(t)
             \/ \E t \in Tasks, kws \in KeywordLists : CreateTask(t, kws)
             \/ \E t \in Tasks, kws \in KeywordLists, a \in BOOLEAN : UpdateTask(t, kws, a)
             \/ \E m \in {"manual", "auto"} : SetMode(m)
             \/ \E w \in Windows \cup {None} : FocusWindow(w)
             \/ TickDue \/ TickRead \/ TickObserve \/ TickRaise \/ UNCHANGED vars
      PROVE  UNCHANGED <<ledger, sub, queue, override>>
    BY <1>7 DEF DeleteTask, CreateTask, UpdateTask, WriteRow, SetMode, FocusWindow,
                TickDue, TickRead, TickObserve, TickRaise, durable, vars
<1> QED
    BY <1>0, <1>1, <1>2, <1>3, <1>4, <1>5, <1>6, <1>7, HandleKeepsSubscriber, NextCases

LEMMA SubscriberKept == Spec => []SubscriberInv
BY InitSubscriber, NextSubscriber, PTL DEF Spec

(* The subscriber misses no event and sees them in ledger order.             *)
THEOREM SubscriberHolds == Spec => []PendingIsSuffix
<1>1. SubscriberInv => PendingIsSuffix
    BY DEF SubscriberInv
<1> QED
    BY <1>1, SubscriberKept, PTL

(* The override is held only while the last event handled is a manual start, *)
(* whatever is recorded, handled or lost in between (handle_event).          *)
THEOREM OverrideFollows == Spec => []OverrideTracksLedger
<1>1. SubscriberInv => OverrideTracksLedger
    BY DEF SubscriberInv
<1> QED
    BY <1>1, SubscriberKept, PTL

-----------------------------------------------------------------------------
(* The subscription implements Delivery *)

(* What has been handled is the ledger without the pending events; stated of *)
(* any queue and length, to serve before and after a step.                   *)
LEMMA HandledIs ==
    ASSUME NEW q \in Seq(Nat), NEW n \in Nat, Len(q) <= n,
           \A i \in DOMAIN q : q[i] = n - Len(q) + i
    PROVE  (IF q = <<>> THEN n ELSE Head(q) - 1) = n - Len(q)
<1>1. Len(q) \in Nat /\ DOMAIN q = 1..Len(q)
    BY LenProperties
<1>2. CASE q = <<>>
    BY <1>1, <1>2, EmptySeq
<1>3. CASE q # <<>>
    <2>1. Head(q) = q[1] /\ 1 \in DOMAIN q
        BY <1>1, <1>3, HeadTailProperties, EmptySeq
    <2>2. Head(q) = n - Len(q) + 1
        BY <2>1
    <2> QED
        BY <1>1, <1>3, <2>2
<1> QED
    BY <1>2, <1>3

LEMMA InitFeed == Init => Feed!Init
<1> SUFFICES ASSUME Init PROVE Feed!Init
    OBVIOUS
<1>1. Len(ledger) = 0 /\ sub = "starting"
    BY DEF Init, Boot
<1> QED
    BY <1>1 DEF Feed!Init

(* Recording leaves what has been handled as it is.                          *)
LEMMA RecordFeeds ==
    ASSUME SubscriberInv, SubscriberInv', NEW e \in Event, Record(e), UNCHANGED sub
    PROVE  Feed!Record
<1>1. /\ ledger \in Seq(Event) /\ queue \in Seq(Nat)
      /\ Len(ledger) \in Nat /\ Len(ledger') = Len(ledger) + 1
    BY RecordEffect DEF SubscriberInv, TypeInvariant, TypeOK
<1>2. ASSUME sub = "waiting" PROVE Handled' = Handled
    <2>1. queue' = Append(queue, Len(ledger) + 1)
        BY <1>2 DEF Record
    <2>2. Len(queue') = Len(queue) + 1
        BY <1>1, <2>1, AppendProperties
    <2>3. Handled = Len(ledger) - Len(queue) /\ Len(queue) \in Nat
        BY <1>1, <1>2, HandledIs, LenProperties DEF SubscriberInv, PendingIsSuffix, Handled
    <2>4. queue' \in Seq(Nat) /\ Len(ledger') \in Nat
        BY <1>1 DEF SubscriberInv, TypeInvariant, TypeOK
    <2>5. Handled' = Len(ledger') - Len(queue')
        BY <1>2, <2>4, HandledIs DEF SubscriberInv, PendingIsSuffix, Handled
    <2> QED
        BY <1>1, <2>2, <2>3, <2>5
<1> QED
    BY <1>1, <1>2 DEF Feed!Record

(* Handling an event is being handed the next one.                           *)
LEMMA HandleFeeds ==
    ASSUME SubscriberInv, SubscriberInv', HandleEvent
    PROVE  Feed!Hand("ticker")
<1>1. /\ queue \in Seq(Nat) /\ queue # <<>> /\ queue' = Tail(queue)
      /\ ledger' = ledger /\ sub = "waiting" /\ sub' = sub
    BY DEF HandleEvent, durable, SubscriberInv, TypeInvariant, TypeOK
<1>2. Len(queue) \in Nat \ {0} /\ Len(queue') = Len(queue) - 1
    BY <1>1, HeadTailProperties, EmptySeq, LenProperties
<1>3. Len(queue) <= Len(ledger) /\ Len(ledger) \in Nat
    BY <1>1, LenProperties DEF SubscriberInv, PendingIsSuffix, TypeInvariant, TypeOK
<1>4. Handled = Len(ledger) - Len(queue)
    BY <1>1, <1>3, HandledIs DEF SubscriberInv, PendingIsSuffix, Handled
<1>5. queue' \in Seq(Nat)
    BY <1>1, HeadTailProperties
<1>6. Handled' = Len(ledger) - Len(queue')
    BY <1>1, <1>3, <1>5, HandledIs DEF SubscriberInv, PendingIsSuffix, Handled
<1>7. Handled < Len(ledger) /\ Handled' = Handled + 1
    BY <1>2, <1>3, <1>4, <1>6
<1> QED
    BY <1>1, <1>7 DEF Feed!Hand

LEMMA SubscribeFeeds ==
    ASSUME SubscriberInv, Subscribe PROVE Feed!Attach("ticker")
<1>1. /\ sub = "starting" /\ sub' = "waiting" /\ ledger' = ledger
      /\ queue' = queue /\ queue = <<>>
    BY DEF Subscribe, durable, SubscriberInv
<1>2. Handled' = Len(ledger)
    BY <1>1 DEF Handled
<1> QED
    BY <1>1, <1>2 DEF Feed!Attach

(* A restart or an exception detaches it, if it was attached.                *)
LEMMA LosesFeed ==
    ASSUME Restart \/ HandleRaise
    PROVE  Feed!Detach(IF sub = "waiting" THEN {"ticker"} ELSE {})
<1>1. ledger' = ledger /\ sub' # "waiting"
    BY DEF Restart, HandleRaise, durable
<1> QED
    BY <1>1 DEF Feed!Detach

LEMMA NextFeeds ==
    ASSUME SubscriberInv, SubscriberInv', [Next]_vars PROVE [Feed!Next]_(Feed!delivery)
<1>0. TypeInvariant
    BY DEF SubscriberInv
<1>1. CASE UNCHANGED <<ledger, sub, queue>>
    BY <1>1 DEF Feed!delivery, Handled
<1>2. ASSUME NEW e \in Event, Record(e), UNCHANGED sub PROVE Feed!Next
    BY <1>2, RecordFeeds DEF Feed!Next
<1>3. CASE HandleEvent
    BY <1>3, HandleFeeds DEF Feed!Next
<1>4. CASE Subscribe
    BY <1>4, SubscribeFeeds DEF Feed!Next
<1>5. CASE Restart \/ HandleRaise
    <2>1. (IF sub = "waiting" THEN {"ticker"} ELSE {})
              \in SUBSET (IF sub = "waiting" THEN {"ticker"} ELSE {})
        OBVIOUS
    <2> QED
        BY <1>5, <2>1, LosesFeed DEF Feed!Next
<1>6. CASE \/ \E t \in Tasks, s \in Tasks \cup {None} : StartEntry(t, s)
           \/ StopEntry \/ TickAppend
    <2>1. UNCHANGED sub
        BY <1>6 DEF StartEntry, StopEntry, TickAppend
    <2>2. \/ \E e \in Event : Record(e)
          \/ UNCHANGED <<ledger, queue>>
        BY <1>0, <1>6, RecordingSteps
    <2> QED
        BY <1>1, <1>2, <2>1, <2>2
<1>7. ASSUME \/ \E t \in Tasks : DeleteTask(t)
             \/ \E t \in Tasks, kws \in KeywordLists : CreateTask(t, kws)
             \/ \E t \in Tasks, kws \in KeywordLists, a \in BOOLEAN : UpdateTask(t, kws, a)
             \/ \E m \in {"manual", "auto"} : SetMode(m)
             \/ \E w \in Windows \cup {None} : FocusWindow(w)
             \/ TickDue \/ TickRead \/ TickObserve \/ TickRaise \/ UNCHANGED vars
      PROVE  UNCHANGED <<ledger, sub, queue>>
    BY <1>7 DEF DeleteTask, CreateTask, UpdateTask, WriteRow, SetMode, FocusWindow,
                TickDue, TickRead, TickObserve, TickRaise, durable, vars
<1> QED
    BY <1>1, <1>3, <1>4, <1>5, <1>6, <1>7, NextCases

(* The ticker's subscription, its queue and its deaths included, implements  *)
(* Delivery for one subscriber: however ticks, handlers, failures and kills  *)
(* interleave, it is handed the next event of the ledger and no other.       *)
THEOREM SubscriptionImplements == Spec => ImplementsSubscription
<1>1. SubscriberInv /\ SubscriberInv' /\ [Next]_vars => [Feed!Next]_(Feed!delivery)
    BY NextFeeds
<1> QED
    BY <1>1, InitFeed, SubscriberKept, PTL DEF Spec, ImplementsSubscription, Feed!Spec

-----------------------------------------------------------------------------
(* Exposure *)

LEMMA InitExposure == Init => ExposureInv
<1> SUFFICES ASSUME Init PROVE ExposureInv
    OBVIOUS
<1>1. SubscriberInv /\ DOMAIN queue = {}
    BY InitSubscriber, EmptySeq DEF Init, Boot
<1> QED
    BY <1>1 DEF ExposureInv, ExposedToOneTick, PendingAuto

(* A recorded event joins the pending ones, which stay what they are.        *)
LEMMA RecordExposure ==
    ASSUME SubscriberInv, NEW e \in Event, Record(e), NEW i \in DOMAIN queue'
    PROVE  \/ i \in DOMAIN queue /\ ledger'[queue'[i]] = ledger[queue[i]]
           \/ i = Len(queue) + 1 /\ ledger'[queue'[i]] = e
<1>1. /\ ledger \in Seq(Event) /\ queue \in Seq(Nat)
      /\ Len(queue) \in Nat /\ DOMAIN queue = 1..Len(queue)
    BY LenProperties DEF SubscriberInv, TypeInvariant, TypeOK
<1>2. /\ Len(ledger) \in Nat /\ DOMAIN ledger = 1..Len(ledger)
      /\ ledger'[Len(ledger) + 1] = e
      /\ \A j \in DOMAIN ledger : ledger'[j] = ledger[j]
    BY <1>1, RecordEffect, LenProperties
<1>3. CASE sub = "waiting"
    <2>1. queue' = Append(queue, Len(ledger) + 1)
        BY <1>3 DEF Record
    <2>2. /\ DOMAIN queue' = 1..(Len(queue) + 1)
          /\ \A j \in 1..Len(queue) : queue'[j] = queue[j]
          /\ queue'[Len(queue) + 1] = Len(ledger) + 1
        BY <1>1, <1>2, <2>1, AppendProperties, LenProperties
    <2>3. CASE i \in 1..Len(queue)
        <3>1. /\ queue[i] = Len(ledger) - Len(queue) + i
              /\ Len(queue) <= Len(ledger)
            BY <1>1, <1>3, <2>3 DEF SubscriberInv, PendingIsSuffix
        <3>2. queue[i] \in DOMAIN ledger
            BY <1>1, <1>2, <2>3, <3>1
        <3> QED
            BY <1>1, <1>2, <2>2, <2>3, <3>2
    <2>4. CASE i = Len(queue) + 1
        BY <1>2, <2>2, <2>4
    <2> QED
        BY <1>1, <2>2, <2>3, <2>4
<1>4. CASE sub # "waiting"
    <2>1. queue' = <<>>
        BY <1>4 DEF Record, SubscriberInv
    <2> QED
        BY <2>1, EmptySeq
<1> QED
    BY <1>3, <1>4

(* Only an AUTO event adds to the pending AUTO events.                       *)
LEMMA RecordManualExposure ==
    ASSUME SubscriberInv, NEW e \in Event, Record(e), e.source # "auto",
           ExposedToOneTick
    PROVE  ExposedToOneTick' /\ (PendingAuto = {} => PendingAuto' = {})
<1>1. ASSUME NEW i \in DOMAIN queue', ledger'[queue'[i]].source = "auto"
      PROVE  i \in DOMAIN queue /\ ledger[queue[i]].source = "auto"
    BY <1>1, RecordExposure
<1> QED
    BY <1>1 DEF ExposedToOneTick, PendingAuto

(* Handling an event only takes the first pending one away.                  *)
LEMMA HandleExposure ==
    ASSUME SubscriberInv, HandleEvent, ExposedToOneTick
    PROVE  ExposedToOneTick' /\ (PendingAuto = {} => PendingAuto' = {})
<1>1. queue \in Seq(Nat) /\ queue # <<>> /\ queue' = Tail(queue) /\ ledger' = ledger
    BY DEF HandleEvent, durable, SubscriberInv, TypeInvariant, TypeOK
<1>2. /\ Len(queue) \in Nat \ {0} /\ DOMAIN queue = 1..Len(queue)
      /\ DOMAIN queue' = 1..(Len(queue) - 1)
      /\ \A i \in 1..(Len(queue) - 1) : queue'[i] = queue[i + 1]
    BY <1>1, HeadTailProperties, LenProperties, EmptySeq
<1>3. ASSUME NEW i \in DOMAIN queue', ledger'[queue'[i]].source = "auto"
      PROVE  i + 1 \in DOMAIN queue /\ ledger[queue[i + 1]].source = "auto"
    BY <1>1, <1>2, <1>3
<1>4. ASSUME NEW i \in DOMAIN queue', ledger'[queue'[i]].source = "auto",
             NEW j \in DOMAIN queue', ledger'[queue'[j]].source = "auto"
      PROVE  i = j
    <2>1. i + 1 = j + 1
        BY <1>3, <1>4 DEF ExposedToOneTick
    <2> QED
        BY <1>2, <2>1
<1> QED
    BY <1>3, <1>4 DEF ExposedToOneTick, PendingAuto

LEMMA NextExposure == ExposureInv /\ [Next]_vars => ExposureInv'
<1> SUFFICES ASSUME ExposureInv, [Next]_vars PROVE ExposureInv'
    OBVIOUS
<1>0. /\ SubscriberInv /\ SubscriberInv' /\ TypeInvariant /\ ExposedToOneTick
      /\ 0..MaxTime \subseteq Nat
    BY NextSubscriber, TickerAssumption DEF ExposureInv, SubscriberInv
<1> DEFINE Rest == /\ ExposedToOneTick'
                   /\ poll' \in {"created", "due", "observe", "append"} => PendingAuto' = {}
<1>1. ASSUME NEW e \in Event, e.source # "auto", Record(e), poll' = poll PROVE Rest
    BY <1>0, <1>1, RecordManualExposure DEF ExposureInv
<1>2. ASSUME NEW t \in Tasks, NEW s \in Tasks \cup {None}, StartEntry(t, s) PROVE Rest
    <2>1. PICK ts \in 0..MaxTime : Record(ManualStart(ts, t, s))
        BY <1>2 DEF StartEntry
    <2>2. ManualStart(ts, t, s) \in Event /\ ManualStart(ts, t, s).source # "auto"
        BY <1>0, NewEventType DEF ManualStart
    <2>3. poll' = poll
        BY <1>2 DEF StartEntry
    <2> QED
        BY <1>1, <2>1, <2>2, <2>3
<1>3. ASSUME StopEntry PROVE Rest
    <2>1. PICK ts \in 0..MaxTime : Record(StopEvent(ts))
        BY <1>3 DEF StopEntry
    <2>2. StopEvent(ts) \in Event /\ StopEvent(ts).source # "auto"
        BY <1>0 DEF StopEvent, Event
    <2>3. poll' = poll
        BY <1>3 DEF StopEntry
    <2> QED
        BY <1>1, <2>1, <2>2, <2>3
<1>4. ASSUME TickAppend PROVE Rest
    <2>1. poll = "append" /\ poll' \in {"sleeping", "dead"} /\ PendingAuto = {}
        BY <1>4 DEF TickAppend, ExposureInv
    <2>2. CASE ForeignKeys(tick.decision.task)
        <3> DEFINE e(ts) == AutoStart(ts, tick.decision.task, tick.decision.keyword)
        <3>1. PICK ts \in 0..MaxTime : Record(e(ts))
            BY <1>4, <2>2 DEF TickAppend
        <3>2. e(ts) \in Event
            BY <1>0, <2>2 DEF ForeignKeys, Live, AutoStart, Event, TypeInvariant, TypeOK,
                              Ticks, Decisions
        <3>3. ASSUME NEW i \in DOMAIN queue', ledger'[queue'[i]].source = "auto"
              PROVE  i = Len(queue) + 1
            BY <1>0, <2>1, <3>1, <3>2, <3>3, RecordExposure DEF PendingAuto
        <3> QED
            BY <2>1, <3>3 DEF ExposedToOneTick
    <2>3. CASE ~ ForeignKeys(tick.decision.task)
        <3>1. UNCHANGED <<ledger, queue>>
            BY <1>4, <2>3 DEF TickAppend
        <3> QED
            BY <1>0, <2>1, <3>1 DEF ExposedToOneTick
    <2> QED
        BY <2>2, <2>3
<1>5. ASSUME HandleEvent PROVE Rest
    <2>1. poll' = poll
        BY <1>5 DEF HandleEvent
    <2> QED
        BY <1>0, <1>5, <2>1, HandleExposure DEF ExposureInv
<1>6. ASSUME queue' = <<>> PROVE Rest
    BY <1>6, EmptySeq DEF ExposedToOneTick, PendingAuto
<1>7. ASSUME TickDue \/ Restart \/ HandleRaise PROVE Rest
    <2>1. queue' = <<>>
        BY <1>7 DEF TickDue, Restart, HandleRaise
    <2> QED
        BY <1>6, <2>1
<1>8. ASSUME UNCHANGED <<ledger, queue>>,
             poll' \in {"created", "due", "observe", "append"}
                 => poll \in {"created", "due", "observe", "append"}
      PROVE  Rest
    BY <1>8 DEF ExposureInv, ExposedToOneTick, PendingAuto
<1>9. ASSUME \/ \E t \in Tasks : DeleteTask(t)
             \/ \E t \in Tasks, kws \in KeywordLists : CreateTask(t, kws)
             \/ \E t \in Tasks, kws \in KeywordLists, a \in BOOLEAN : UpdateTask(t, kws, a)
             \/ \E m \in {"manual", "auto"} : SetMode(m)
             \/ \E w \in Windows \cup {None} : FocusWindow(w)
             \/ TickRead \/ TickObserve \/ TickRaise \/ Subscribe \/ UNCHANGED vars
      PROVE  Rest
    <2>1. /\ UNCHANGED <<ledger, queue>>
          /\ poll' \in {"created", "due", "observe", "append"}
                 => poll \in {"created", "due", "observe", "append"}
        BY <1>9 DEF DeleteTask, CreateTask, UpdateTask, WriteRow, SetMode, FocusWindow,
                    TickRead, TickObserve, TickRaise, Subscribe, durable, vars
    <2> QED
        BY <1>8, <2>1
<1>10. Rest
    BY <1>2, <1>3, <1>4, <1>5, <1>7, <1>9, NextCases
<1> QED
    BY <1>0, <1>10 DEF ExposureInv

(* A manual start may be switched away from before its override is captured, *)
(* but by one tick only: two AUTO events are never pending together.         *)
THEOREM ExposureHolds == Spec => []ExposedToOneTick
<1>1. ExposureInv => ExposedToOneTick
    BY DEF ExposureInv
<1> QED
    BY <1>1, InitExposure, NextExposure, PTL DEF Spec

(* A tick that waits for ActivityWatch still knows the latest event when it  *)
(* decides and when it appends, and what it decided still holds then.        *)
THEOREM DecisionsStayGood == Spec => [](TickSeesLatest /\ DecisionStillGood)
<1>1. DecisionInv => TickSeesLatest /\ DecisionStillGood
    BY DEF DecisionInv
<1> QED
    BY <1>1, DecisionHolds, PTL

-----------------------------------------------------------------------------
(* No tick is wasted *)

(* A decision to do nothing, taken in auto mode, has one of three reasons.   *)
LEMMA SilentTick ==
    ASSUME DecisionInv, Next, poll = "observe", poll' = "sleeping", tick.mode = "auto"
    PROVE  \/ MatchWindow(rows, window).task \in {None, Running(ledger)}
           \/ override = Override(Signals(window, rows))
<1>0. TypeInvariant
    BY DEF DecisionInv
<1>1. TickObserve
    BY NextCases DEF StartEntry, StopEntry, LoopHandler, LoopFree, DeleteTask, CreateTask,
        UpdateTask, WriteRow, SetMode, FocusWindow, Restart, TickDue, TickRead, TickRaise,
        TickAppend, Subscribe, HandleEvent, HandleRaise
<1> DEFINE d == ResolveAutoSwitch(tick.mode, LatestTask(tick.latest), window,
                                  rows, override, FALSE)
<1>2. d.kind # "start"
    BY <1>1 DEF TickObserve
<1>3. window \in Windows \cup {None} /\ rows \in Rows /\ override \in Overrides
    BY <1>0 DEF TypeInvariant, TypeOK
<1>4. LatestTask(tick.latest) = Running(ledger)
    BY <1>0, LatestTaskIsRunning DEF DecisionInv, TickSeesLatest, TypeInvariant, TypeOK
<1> HIDE DEF d
<1>5. d = ResolveAutoSwitch(tick.mode, LatestTask(tick.latest), window, rows, override, FALSE)
    BY DEF d
<1>6. ~ (/\ override # Override(Signals(window, rows))
         /\ MatchWindow(rows, window).task \notin {None, LatestTask(tick.latest)})
    <2>1. PICK afk \in BOOLEAN : afk = FALSE
        OBVIOUS
    <2>2. d = ResolveAutoSwitch(tick.mode, LatestTask(tick.latest), window, rows, override, afk)
        BY <1>5, <2>1
    <2> QED
        BY <1>2, <1>3, <2>1, <2>2, DecisionExact
<1> QED
    BY <1>4, <1>6

(* An AUTO event is the latest one once it is recorded.                      *)
LEMMA AutoStartRuns ==
    ASSUME "clock" \notin Faults, DecisionInv, ChronoInv, ChronoInv', Next, AutoAppended
    PROVE  Running(ledger') = tick.decision.task
<1>1. poll = "append" /\ Last(ledger').task = tick.decision.task
    BY AutoStep
<1>2. ledger' \in Seq(Event) /\ Chronological(ledger') /\ Len(ledger) \in Nat
    BY LenProperties DEF ChronoInv, TypeInvariant, TypeOK
<1>3. ledger' # <<>>
    BY <1>2, EmptySeq DEF AutoAppended
<1>4. Latest(ledger') = Len(ledger')
    BY <1>2, <1>3, ChronologicalLatest
<1> QED
    BY <1>1, <1>3, <1>4 DEF Running, Last

(* While the clock does not step back, a tick in auto mode either makes its  *)
(* match the running task or had a reason, at that moment, not to record it. *)
THEOREM TicksCount ==
    ASSUME "clock" \notin Faults
    PROVE  Spec => EveryTickCounts
<1>1. ChronoInv /\ [Next]_vars => ChronoInv'
    BY NextInOrder
<1>2. DecisionInv /\ ChronoInv /\ ChronoInv' /\ [Next]_vars
          => [/\ poll = "observe" /\ poll' = "sleeping" /\ tick.mode = "auto" =>
                   \/ MatchWindow(rows, window).task \in {None, Running(ledger)}
                   \/ override = Override(Signals(window, rows))
              /\ AutoAppended => Running(ledger') = tick.decision.task]_vars
    BY SilentTick, AutoStartRuns
<1> QED
    BY <1>1, <1>2, DecisionHolds, InitImplements, PTL DEF Spec, EveryTickCounts

-----------------------------------------------------------------------------
(* What ends the loops *)

LEMMA InitSurvival == Init => SurvivalInv
<1> SUFFICES ASSUME Init PROVE SurvivalInv
    OBVIOUS
<1> QED
    BY InitTyped DEF Init, Boot, SurvivalInv, LoopsSurvive

(* Writing a row leaves the other rows, and a row written live, live.        *)
LEMMA WriteRowLive ==
    ASSUME TypeInvariant, NEW t \in Tasks, NEW row, WriteRow(t, row), row.state = "live"
    PROVE  Live(rows) \subseteq Live(rows')
BY DEF WriteRow, Live, TypeInvariant, TypeOK, Rows

LEMMA NextSurvival == SurvivalInv /\ [Next]_vars => SurvivalInv'
<1> SUFFICES ASSUME SurvivalInv, [Next]_vars PROVE SurvivalInv'
    OBVIOUS
<1>0. TypeInvariant /\ TypeInvariant'
    BY NextTyped DEF SurvivalInv
<1> DEFINE Rest == /\ LoopsSurvive'
                   /\ "delete" \notin Requests /\ poll' = "append"
                          => tick'.decision.task \in Live(rows')
<1>1. ASSUME UNCHANGED <<poll, sub, tick>>,
             "delete" \notin Requests => Live(rows) \subseteq Live(rows')
      PROVE  Rest
    BY <1>1 DEF SurvivalInv, LoopsSurvive
<1>2. ASSUME \/ \E t \in Tasks, s \in Tasks \cup {None} : StartEntry(t, s)
             \/ StopEntry
             \/ \E m \in {"manual", "auto"} : SetMode(m)
             \/ \E w \in Windows \cup {None} : FocusWindow(w)
             \/ HandleEvent \/ UNCHANGED vars
      PROVE  Rest
    <2>1. UNCHANGED <<poll, sub, tick, rows>>
        BY <1>2 DEF StartEntry, StopEntry, SetMode, FocusWindow, HandleEvent, durable, vars
    <2> QED
        BY <1>1, <2>1
<1>3. ASSUME NEW t \in Tasks, NEW kws \in KeywordLists, CreateTask(t, kws) PROVE Rest
    <2>1. UNCHANGED <<poll, sub, tick>> /\ Live(rows) \subseteq Live(rows')
        BY <1>0, <1>3, WriteRowLive DEF CreateTask, WriteRow
    <2> QED
        BY <1>1, <2>1
<1>4. ASSUME NEW t \in Tasks, NEW kws \in KeywordLists, NEW a \in BOOLEAN,
             UpdateTask(t, kws, a)
      PROVE  Rest
    <2>1. rows[t] \in Row /\ rows[t].state = "live"
        BY <1>0, <1>4 DEF UpdateTask, Live, TypeInvariant, TypeOK, Rows
    <2>2. [rows[t] EXCEPT !.keywords = kws, !.archived = a].state = "live"
        BY <2>1 DEF Row
    <2>3. UNCHANGED <<poll, sub, tick>> /\ Live(rows) \subseteq Live(rows')
        BY <1>0, <1>4, <2>2, WriteRowLive DEF UpdateTask, WriteRow
    <2> QED
        BY <1>1, <2>3
<1>5. ASSUME NEW t \in Tasks, DeleteTask(t) PROVE Rest
    BY <1>1, <1>5 DEF DeleteTask, WriteRow
<1>6. ASSUME Restart \/ TickDue \/ TickRead \/ Subscribe PROVE Rest
    BY <1>6 DEF Restart, TickDue, TickRead, Subscribe, durable, LoopFree, SurvivalInv,
        LoopsSurvive
<1>7. ASSUME TickRaise \/ HandleRaise PROVE Rest
    BY <1>7 DEF TickRaise, HandleRaise, durable, LoopFree, SurvivalInv, LoopsSurvive
<1>8. ASSUME TickObserve PROVE Rest
    <2> DEFINE d == ResolveAutoSwitch(tick.mode, LatestTask(tick.latest), window,
                                      rows, override, FALSE)
    <2>1. window \in Windows \cup {None} /\ rows \in Rows /\ override \in Overrides
          /\ tick \in Ticks
        BY <1>0 DEF TypeInvariant, TypeOK
    <2>2. UNCHANGED <<rows, sub>>
        BY <1>8 DEF TickObserve, durable
    <2>3. CASE d.kind = "start"
        <3>1. d.task \in Listed(rows)
            BY <2>1, <2>3, StartAutoJustified
        <3>2. poll' = "append" /\ tick' = [tick EXCEPT !.decision = d]
            BY <1>8, <2>3 DEF TickObserve
        <3>3. tick'.decision.task \in Live(rows')
            BY <2>1, <2>2, <3>1, <3>2 DEF Ticks, Listed, Live
        <3> QED
            BY <2>2, <3>2, <3>3 DEF SurvivalInv, LoopsSurvive
    <2>4. CASE d.kind # "start"
        <3>1. poll' = "sleeping"
            BY <1>8, <2>4 DEF TickObserve
        <3> QED
            BY <2>2, <3>1 DEF SurvivalInv, LoopsSurvive
    <2> QED
        BY <2>3, <2>4
<1>9. ASSUME TickAppend PROVE Rest
    <2>1. sub' = sub /\ poll' \in {"sleeping", "dead"} /\ poll = "append"
        BY <1>9 DEF TickAppend
    <2>2. poll' = "dead" => tick.decision.task \notin Live(rows)
        BY <1>9 DEF TickAppend, ForeignKeys
    <2> QED
        BY <2>1, <2>2 DEF SurvivalInv, LoopsSurvive
<1>10. Rest
    BY <1>2, <1>3, <1>4, <1>5, <1>6, <1>7, <1>8, <1>9, NextCases
<1> QED
    BY <1>0, <1>10 DEF SurvivalInv

(* Whatever else happens, only a deletion that overtakes a decision, or an   *)
(* answer that cannot be read, ends a loop of the ticker (_poll_loop,        *)
(* _subscribe_loop).                                                         *)
THEOREM LoopsOutlive == Spec => []LoopsSurvive
<1>1. SurvivalInv => LoopsSurvive
    BY DEF SurvivalInv
<1> QED
    BY <1>1, InitSurvival, NextSurvival, PTL DEF Spec

-----------------------------------------------------------------------------
(* What the queries make of the daemon's own ledger.  Ledger and its proofs  *)
(* know nothing of the daemon; they are taken over here for the ledger the   *)
(* ticker and the handlers write, whatever the clock does.                   *)

Queries == INSTANCE LedgerProofs

LEMMA LedgerIsLedger == TypeInvariant => Queries!LedgerTypeOK
BY DEF TypeInvariant, TypeOK, WellFormed, Event, Queries!LedgerTypeOK, Queries!Event,
       Queries!WellFormed

(* The timeline is whole, with one open entry at most, and GET /entries      *)
(* answers what the repository of the tests does, for every interleaving of  *)
(* ticks, requests, failures, restarts and steps of the clock.               *)
THEOREM QueriesHold ==
    Spec => [](/\ Queries!TimelineFaithful
               /\ Queries!OneOpenEntry
               /\ Queries!ProjectionMatchesReference)
<1>1. TypeInvariant => /\ Queries!TimelineFaithful
                       /\ Queries!OneOpenEntry
                       /\ Queries!ProjectionMatchesReference
    BY LedgerIsLedger, Queries!TimelineOf, Queries!OneOpenEntryOf, Queries!ProjectionOf,
       DomainAssumption, TickerAssumption
<1> QED
    BY <1>1, Typed, PTL

(* Nor does any step of the daemon change more than one entry of the past.   *)
THEOREM HistoryKept == Spec => Queries!CutsOneEntry
<1>1. ASSUME TypeInvariant, [Next]_vars
      PROVE  ledger' = ledger \/ \E e \in Event : ledger' = Append(ledger, e)
    <2>1. CASE \/ \E t \in Tasks, s \in Tasks \cup {None} : StartEntry(t, s)
               \/ StopEntry \/ TickAppend
        BY <1>1, <2>1, RecordingSteps DEF Record
    <2>2. CASE \/ \E t \in Tasks : DeleteTask(t)
               \/ \E t \in Tasks, kws \in KeywordLists : CreateTask(t, kws)
               \/ \E t \in Tasks, kws \in KeywordLists, a \in BOOLEAN : UpdateTask(t, kws, a)
               \/ \E m \in {"manual", "auto"} : SetMode(m)
               \/ \E w \in Windows \cup {None} : FocusWindow(w)
               \/ Restart \/ TickDue \/ TickRead \/ TickObserve \/ TickRaise
               \/ Subscribe \/ HandleEvent \/ HandleRaise \/ UNCHANGED vars
        BY <2>2 DEF DeleteTask, CreateTask, UpdateTask, WriteRow, SetMode, FocusWindow, Restart,
                    TickDue, TickRead, TickObserve, TickRaise, Subscribe, HandleEvent,
                    HandleRaise, durable, vars
    <2> QED
        BY <1>1, <2>1, <2>2, NextCases
<1>2. ASSUME NEW e \in Event PROVE e \in Queries!Event
    BY DEF Event, Queries!Event
<1>3. TypeInvariant /\ [Next]_vars
          => [Queries!CutsAtMostOne]_ledger
    BY <1>1, <1>2, LedgerIsLedger, Queries!AppendCutsOne, DomainAssumption, TickerAssumption
<1> QED
    BY <1>3, Typed, PTL DEF Spec, Queries!CutsOneEntry
=============================================================================
