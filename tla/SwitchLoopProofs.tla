-------------------------- MODULE SwitchLoopProofs --------------------------
(* resolve_auto_switch in its loop, for every task table, window, override   *)
(* and afk.                                                                  *)
EXTENDS SwitchLoop, AutoSwitchProofs

LoopInv ==
    /\ LoopTypeOK
    /\ rows \in InitRows /\ rows \in Rows
    /\ window \in Windows \cup {None} /\ afk \in BOOLEAN

LEMMA MatchFields ==
    ASSUME NEW table \in Rows, NEW w \in Windows \cup {None}
    PROVE  /\ MatchWindow(table, w).task \in Tasks \cup {None}
           /\ MatchWindow(table, w).keyword \in Keywords \cup {None}
BY MatchWindowType DEF NoMatch, Listed, Live

(* A decision in the words of its match.                                     *)
LEMMA DecisionIs ==
    ASSUME NEW m, NEW r, NEW w, NEW table, NEW o, NEW away,
           NEW match, match = MatchWindow(table, w),
           NEW d, d = ResolveAutoSwitch(m, r, w, table, o, away)
    PROVE  /\ m # "auto" => d = NoOp
           /\ m = "auto" /\ away /\ r # None => d = Stop
           /\ m = "auto" /\ ~(away /\ r # None) =>
                 d = IF \/ o.held /\ match.keyword = o.keyword
                        \/ match.task = None \/ match.task = r
                     THEN NoOp ELSE StartAuto(match)
BY DEF ResolveAutoSwitch, Signals

-----------------------------------------------------------------------------
LEMMA InitLoop == Init => LoopInv
<1> SUFFICES ASSUME Init PROVE LoopInv
    OBVIOUS
<1>1. rows \in Rows /\ running \in Tasks \cup {None}
    BY LoopAssumption DEF Init, Live
<1>2. override \in Overrides
    <2>1. NoOverride \in Overrides /\ \A k \in Keywords \cup {None} : Override(k) \in Overrides
        BY DEF NoOverride, Override, Overrides
    <2>2. override \in {NoOverride} \cup {Override(k) : k \in Keywords \cup {None}}
        BY DEF Init
    <2> QED
        BY <2>1, <2>2
<1>3. decision \in Decisions
    BY DEF Init, NoOp, Decisions
<1> QED
    BY <1>1, <1>2, <1>3 DEF Init, LoopInv, LoopTypeOK

LEMMA NextLoop == LoopInv /\ [Next]_loop => LoopInv'
<1> SUFFICES ASSUME LoopInv, [Next]_loop PROVE LoopInv'
    OBVIOUS
<1>1. CASE Decide
    <2> DEFINE d == ResolveAutoSwitch(mode, running, window, rows, override, afk)
    <2>1. d \in Decisions
        BY StartAutoJustified DEF LoopInv, LoopTypeOK
    <2>2. d.task \in Tasks \cup {None}
        BY <2>1 DEF Decisions
    <2>3. /\ decision' = d
          /\ running' = IF d.kind = "noop" THEN running ELSE d.task
          /\ override' = IF d.kind = "noop" THEN override ELSE NoOverride
          /\ UNCHANGED <<rows, window, afk>>
        BY <1>1 DEF Decide, inputs
    <2> HIDE DEF d
    <2>4. NoOverride \in Overrides
        BY DEF NoOverride, Overrides
    <2> QED
        BY <2>1, <2>2, <2>3, <2>4 DEF LoopInv, LoopTypeOK
<1>2. CASE Change
    BY <1>2 DEF Change, LoopInv, LoopTypeOK
<1>3. CASE UNCHANGED loop
    BY <1>3 DEF loop, LoopInv, LoopTypeOK
<1> QED
    BY <1>1, <1>2, <1>3 DEF Next

LEMMA LoopHolds == Spec => []LoopInv
BY InitLoop, NextLoop, PTL DEF Spec

(* What runs, the override and the decision are always of the kinds          *)
(* resolve_auto_switch returns and the mode router keeps.                    *)
THEOREM LoopTyped == Spec => []LoopTypeOK
<1>1. LoopInv => LoopTypeOK
    BY DEF LoopInv
<1> QED
    BY <1>1, LoopHolds, PTL

-----------------------------------------------------------------------------
(* An override only ever holds back the one decision it was captured         *)
(* against; being away goes before it.                                       *)
THEOREM OverrideHolds == Spec => []OverrideOnlyHolds
<1>1. ASSUME LoopInv PROVE OverrideOnlyHolds
    <2> DEFINE match == MatchWindow(rows, window)
               free == ResolveAutoSwitch(mode, running, window, rows, NoOverride, afk)
    <2>1. match.task \in Tasks \cup {None}
        BY <1>1, MatchFields DEF LoopInv
    <2> HIDE DEF match
    <2>2. /\ mode # "auto" => Again = NoOp
          /\ mode = "auto" /\ afk /\ running # None => Again = Stop
          /\ mode = "auto" /\ ~(afk /\ running # None) =>
                Again = IF \/ override.held /\ match.keyword = override.keyword
                           \/ match.task = None \/ match.task = running
                        THEN NoOp ELSE StartAuto(match)
        BY DecisionIs DEF Again, match
    <2>3. /\ mode # "auto" => free = NoOp
          /\ mode = "auto" /\ afk /\ running # None => free = Stop
          /\ mode = "auto" /\ ~(afk /\ running # None) =>
                free = IF \/ NoOverride.held /\ match.keyword = NoOverride.keyword
                          \/ match.task = None \/ match.task = running
                       THEN NoOp ELSE StartAuto(match)
        BY DecisionIs DEF match
    <2> HIDE DEF free
    <2>4. NoOp.kind = "noop" /\ Stop.kind = "stop" /\ ~NoOverride.held
        BY DEF NoOp, Stop, NoOverride
    <2>5. StartAuto(match).kind = "start" /\ StartAuto(match).keyword = match.keyword
        BY DEF StartAuto
    <2>6. ASSUME NEW k
          PROVE  override = Override(k) <=> override.held /\ override.keyword = k
        <3>1. override \in [held: BOOLEAN, keyword: Keywords \cup {None}]
            BY <1>1 DEF LoopInv, LoopTypeOK, Overrides
        <3> QED
            BY <3>1 DEF Override
    <2>7. Again = IF free.kind = "start" /\ override = Override(free.keyword)
                  THEN NoOp ELSE free
        <3>1. CASE mode # "auto" \/ (afk /\ running # None)
            BY <2>2, <2>3, <2>4, <3>1
        <3>2. CASE mode = "auto" /\ ~(afk /\ running # None)
            <4>1. CASE match.task = None \/ match.task = running
                BY <2>2, <2>3, <2>4, <3>2, <4>1
            <4>2. CASE match.task # None /\ match.task # running
                <5>1. free = StartAuto(match)
                    BY <2>3, <2>4, <3>2, <4>2
                <5>2. override = Override(free.keyword)
                          <=> override.held /\ match.keyword = override.keyword
                    BY <2>5, <2>6, <5>1
                <5> QED
                    BY <2>2, <2>5, <3>2, <4>2, <5>1, <5>2
            <4> QED
                BY <4>1, <4>2
        <3> QED
            BY <3>1, <3>2
    <2> QED
        BY <2>7 DEF OverrideOnlyHolds, free
<1> QED
    BY <1>1, LoopHolds, PTL

(* A decision of any kind settles, but for the alternation of someone away   *)
(* before a window that matches, and that one is exact.                      *)
THEOREM LoopSettles == Spec => DecisionSettles
<1> DEFINE Settled == IF AwayBeforeAMatch /\ decision'.kind # "noop"
                      THEN Again'.kind = (IF decision'.kind = "start" THEN "stop" ELSE "start")
                      ELSE Again'.kind = "noop"
<1>1. ASSUME LoopInv, Decide PROVE Settled
    <2> DEFINE match == MatchWindow(rows, window)
               d == ResolveAutoSwitch(mode, running, window, rows, override, afk)
               Then(r, o) == ResolveAutoSwitch(mode, r, window, rows, o, afk)
    <2>1. /\ decision' = d
          /\ running' = IF d.kind = "noop" THEN running ELSE d.task
          /\ override' = IF d.kind = "noop" THEN override ELSE NoOverride
          /\ UNCHANGED <<mode, rows, window, afk>>
        BY <1>1 DEF Decide, inputs
    <2>2. Again' = Then(running', override')
        BY <2>1 DEF Again
    <2>3. /\ mode # "auto" => d = NoOp
          /\ mode = "auto" /\ afk /\ running # None => d = Stop
          /\ mode = "auto" /\ ~(afk /\ running # None) =>
                d = IF \/ override.held /\ match.keyword = override.keyword
                       \/ match.task = None \/ match.task = running
                    THEN NoOp ELSE StartAuto(match)
        BY DecisionIs DEF match
    <2>4. ASSUME NEW r
          PROVE  /\ mode = "auto" /\ afk /\ r # None => Then(r, NoOverride) = Stop
                 /\ mode = "auto" /\ ~(afk /\ r # None) =>
                       Then(r, NoOverride) = IF \/ NoOverride.held /\ match.keyword = NoOverride.keyword
                                                \/ match.task = None \/ match.task = r
                                             THEN NoOp ELSE StartAuto(match)
        BY DecisionIs DEF match
    <2>5. /\ NoOp.kind = "noop" /\ Stop.kind = "stop" /\ Stop.task = None
          /\ StartAuto(match).kind = "start" /\ StartAuto(match).task = match.task
          /\ ~NoOverride.held
        BY DEF NoOp, Stop, StartAuto, NoOverride
    <2>6. AwayBeforeAMatch <=> mode = "auto" /\ afk /\ match.task # None
        BY DEF AwayBeforeAMatch
    <2>7. d = Then(running, override)
        OBVIOUS
    <2> HIDE DEF match, d, Then
    <2>8. CASE d.kind = "noop"
        BY <2>1, <2>2, <2>7, <2>8
    <2>9. CASE d = Stop /\ mode = "auto" /\ afk
        <3>1. Again' = Then(None, NoOverride)
            BY <2>1, <2>2, <2>5, <2>9
        <3>2. Again' = IF match.task = None THEN NoOp ELSE StartAuto(match)
            BY <2>4, <2>5, <2>9, <3>1
        <3> QED
            BY <2>1, <2>5, <2>6, <2>9, <3>2
    <2>10. CASE d = StartAuto(match) /\ mode = "auto" /\ match.task # None
        <3>1. Again' = Then(match.task, NoOverride)
            BY <2>1, <2>2, <2>5, <2>10
        <3>2. Again' = IF afk THEN Stop ELSE NoOp
            BY <2>4, <2>10, <3>1
        <3> QED
            BY <2>1, <2>5, <2>6, <2>10, <3>2
    <2> QED
        BY <2>3, <2>5, <2>8, <2>9, <2>10
<1>2. LoopInv /\ [Next]_loop => [Decide => Settled]_loop
    BY <1>1
<1> QED
    BY <1>2, LoopHolds, PTL DEF Spec, DecisionSettles

-----------------------------------------------------------------------------
(* Archiving *)

DistinctAges(table) ==
    \A t, u \in Live(table) : table[t].created = table[u].created => t = u

SameButArchived(one, other) ==
    \A u \in Tasks : /\ one[u].created = other[u].created
                    /\ one[u].keywords = other[u].keywords

(* Archiving a task takes it, and it alone, from the candidates.             *)
LEMMA ArchivingEffect ==
    ASSUME NEW table \in Rows, NEW t \in Live(table), NEW w
    PROVE  LET without == [table EXCEPT ![t].archived = TRUE]
           IN  /\ without \in Rows /\ t \notin Listed(without)
               /\ SameButArchived(without, table)
               /\ Candidates(without, w) = Candidates(table, w) \ {t}
<1> DEFINE without == [table EXCEPT ![t].archived = TRUE]
<1>1. table \in [Tasks -> Row] /\ t \in Tasks /\ table[t].state = "live"
    BY DEF Rows, Live
<1>2. without = [table EXCEPT ![t] = [table[t] EXCEPT !.archived = TRUE]]
    OBVIOUS
<1> DEFINE row == [table[t] EXCEPT !.archived = TRUE]
<1>3. /\ row \in Row /\ row.state = "live" /\ row.archived = TRUE
      /\ row.created = table[t].created /\ row.keywords = table[t].keywords
    BY <1>1 DEF Row
<1> HIDE DEF row
<1>4. /\ without \in [Tasks -> Row] /\ without[t] = row
      /\ \A u \in Tasks : u # t => without[u] = table[u]
    BY <1>1, <1>2, <1>3 DEF row
<1>5. \A u \in Tasks : /\ without[u].created = table[u].created
                       /\ without[u].keywords = table[u].keywords
                       /\ without[u].state = table[u].state
    BY <1>1, <1>3, <1>4
<1>6. Listed(without) = Listed(table) \ {t}
    BY <1>1, <1>3, <1>4 DEF Listed, Live
<1>7. Candidates(without, w) = Candidates(table, w) \ {t}
    BY <1>5, <1>6 DEF Candidates, Listed, Live
<1> QED
    BY <1>4, <1>5, <1>6, <1>7 DEF Rows, SameButArchived

(* With distinct creation instants there is one oldest task.                 *)
LEMMA OldestIs ==
    ASSUME NEW table \in Rows, NEW S \in SUBSET Live(table), NEW o \in S,
           DistinctAges(table),
           \A u \in S : table[o].created <= table[u].created
    PROVE  Oldest(table, S) = o
<1>1. S \in SUBSET Tasks /\ \A u \in S : table[u].created \in Nat
    BY DEF Live, Rows, Row
<1>2. /\ Oldest(table, S) \in S
      /\ table[Oldest(table, S)].created <= table[o].created
    BY <1>1, OldestType
<1>3. table[Oldest(table, S)].created = table[o].created
    BY <1>1, <1>2
<1> QED
    BY <1>2, <1>3 DEF DistinctAges

(* A candidate less, and not the one that wins, leaves the match alone.      *)
LEMMA WinnerStays ==
    ASSUME NEW table \in Rows, NEW t, NEW w,
           DistinctAges(table), NEW without \in Rows, SameButArchived(without, table),
           Candidates(without, w) = Candidates(table, w) \ {t},
           t # MatchWindow(table, w).task
    PROVE  MatchWindow(without, w) = MatchWindow(table, w)
<1>1. CASE w = None \/ Candidates(table, w) = {}
    BY <1>1 DEF MatchWindow
<1>2. CASE w # None /\ Candidates(table, w) # {}
    <2> DEFINE C == Candidates(table, w)
               o == Oldest(table, C)
    <2>1. C \in SUBSET Live(table) /\ Live(table) \in SUBSET Tasks
        BY DEF Candidates, Listed, Live
    <2>2. o \in C /\ \A u \in C : table[o].created <= table[u].created
        BY <1>2, <2>1, OldestType
    <2>3. MatchWindow(table, w) = [task |-> o, keyword |-> FirstHit(table[o].keywords, w)]
        BY <1>2 DEF MatchWindow
    <2> HIDE DEF o, C
    <2>4. o # t
        BY <2>3
    <2>5. Oldest(table, C \ {t}) = o
        BY <2>1, <2>2, <2>4, OldestIs
    <2>6. Oldest(without, C \ {t}) = Oldest(table, C \ {t})
        <3>1. \A u \in C \ {t} : without[u].created = table[u].created
            BY <2>1 DEF SameButArchived
        <3> QED
            BY <3>1 DEF Oldest
    <2>7. Candidates(without, w) # {} /\ Candidates(without, w) = C \ {t}
        BY <2>2, <2>4 DEF C
    <2>8. MatchWindow(without, w) = [task |-> o, keyword |-> FirstHit(without[o].keywords, w)]
        BY <1>2, <2>5, <2>6, <2>7 DEF MatchWindow
    <2>9. without[o].keywords = table[o].keywords
        BY <2>1, <2>2 DEF SameButArchived
    <2> QED
        BY <2>3, <2>8, <2>9
<1> QED
    BY <1>1, <1>2

(* Only the task that wins counts: archiving any other changes nothing, and  *)
(* archiving the winner never lets it win again.                             *)
THEOREM WinnerHolds == Spec => []OnlyTheWinnerCounts
<1>1. ASSUME LoopInv, NEW t \in Live(rows)
      PROVE  LET without == [rows EXCEPT ![t].archived = TRUE]
                 d == ResolveAutoSwitch(mode, running, window, without, override, afk)
             IN IF t = MatchWindow(rows, window).task THEN d.task # t ELSE d = Again
    <2> DEFINE without == [rows EXCEPT ![t].archived = TRUE]
               d == ResolveAutoSwitch(mode, running, window, without, override, afk)
    <2>1. /\ rows \in Rows /\ window \in Windows \cup {None} /\ override \in Overrides
          /\ afk \in BOOLEAN
          /\ DistinctAges(rows)
        BY <1>1, LoopAssumption DEF LoopInv, LoopTypeOK, DistinctAges
    <2>2. /\ without \in Rows /\ t \notin Listed(without)
          /\ SameButArchived(without, rows)
          /\ Candidates(without, window) = Candidates(rows, window) \ {t}
        BY <2>1, ArchivingEffect
    <2> HIDE DEF without
    <2>3. d.task # t
        <3>1. d.kind = "start" => d.task \in Listed(without)
            BY <2>1, <2>2, StartAutoJustified
        <3>2. d.kind = "start" \/ d.task = None
            BY DEF ResolveAutoSwitch, NoOp, Stop, StartAuto
        <3>3. t # None
            BY DomainAssumption DEF Live
        <3> QED
            BY <2>2, <3>1, <3>2, <3>3
    <2>4. ASSUME t # MatchWindow(rows, window).task PROVE d = Again
        <3>1. MatchWindow(without, window) = MatchWindow(rows, window)
            BY <2>1, <2>2, <2>4, WinnerStays
        <3> QED
            BY <3>1 DEF ResolveAutoSwitch, Signals, Again
    <2> QED
        BY <2>3, <2>4 DEF without
<1>2. LoopInv => OnlyTheWinnerCounts
    BY <1>1 DEF OnlyTheWinnerCounts
<1> QED
    BY <1>2, LoopHolds, PTL
=============================================================================
