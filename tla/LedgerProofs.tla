---------------------------- MODULE LedgerProofs ----------------------------
(* The repository on its own: what holds of every ledger it can build.       *)
EXTENDS Ledger, EntryEventsProofs, FiniteSetTheorems

LEMMA NewEventType ==
    ASSUME NEW e \in NewEvents PROVE e \in Event /\ WellFormed(e)
<1>1. PICK ts \in Nat : \/ e = StopEvent(ts)
                        \/ \E t \in Tasks : e = ManualStart(ts, t, None)
                        \/ \E t \in Tasks, k \in Keywords : e = AutoStart(ts, t, k)
    BY LedgerAssumption DEF NewEvents, Instants
<1> QED
    BY <1>1, DomainAssumption
    DEF Event, WellFormed, StopEvent, ManualStart, AutoStart

(* Every event the three writers record is well formed.                      *)
THEOREM LedgerTyped == Spec => []LedgerTypeOK
<1>1. Init => LedgerTypeOK
    BY DEF Init, LedgerTypeOK
<1>2. LedgerTypeOK /\ [Next]_ledger => LedgerTypeOK'
    <2> SUFFICES ASSUME LedgerTypeOK, [Next]_ledger PROVE LedgerTypeOK'
        OBVIOUS
    <2>1. CASE UNCHANGED ledger
        BY <2>1 DEF LedgerTypeOK
    <2>2. CASE Next
        <3>1. PICK e \in NewEvents : AppendEvent(e)
            BY <2>2 DEF Next
        <3>2. e \in Event /\ WellFormed(e)
            BY NewEventType
        <3>3. ledger \in Seq(Event) /\ ledger' = Append(ledger, e)
            BY <3>1 DEF AppendEvent, LedgerTypeOK
        <3>4. /\ ledger' \in Seq(Event)
              /\ Len(ledger') = Len(ledger) + 1
              /\ \A i \in 1..Len(ledger) : ledger'[i] = ledger[i]
              /\ ledger'[Len(ledger) + 1] = e
            BY <3>2, <3>3, AppendProperties
        <3>5. ASSUME NEW i \in DOMAIN ledger' PROVE WellFormed(ledger'[i])
            <4>1. i \in 1..Len(ledger) \/ i = Len(ledger) + 1
                BY <3>3, <3>4, LenProperties
            <4>2. CASE i \in 1..Len(ledger)
                <5>1. i \in DOMAIN ledger
                    BY <3>3, <4>2, LenProperties
                <5> QED
                    BY <3>4, <4>2, <5>1 DEF LedgerTypeOK
            <4>3. CASE i = Len(ledger) + 1
                BY <3>2, <3>4, <4>3
            <4> QED
                BY <4>1, <4>2, <4>3
        <3> QED
            BY <3>4, <3>5 DEF LedgerTypeOK
    <2> QED
        BY <2>1, <2>2
<1> QED
    BY <1>1, <1>2, PTL DEF Spec

LEMMA OneOpenEntryOf == LedgerTypeOK => OneOpenEntry
BY OpenEntryIsCurrent DEF LedgerTypeOK, OneOpenEntry

(* The entry GET /current shows is always the one entry GET /entries shows   *)
(* open, for every clock and every order of events.                          *)
THEOREM OneOpenEntryHolds == Spec => []OneOpenEntry
BY OneOpenEntryOf, LedgerTyped, PTL

LEMMA TimelineOf == LedgerTypeOK => TimelineFaithful
<1>1. ASSUME LedgerTypeOK, NEW ts \in Instants
      PROVE  LET effective == Greatest(ledger, InEffect(ts))
             IN {e.id : e \in Covering(ts)}
                  = IF InEffect(ts) = {} \/ IsStop(ledger[effective]) THEN {} ELSE {effective}
    <2> DEFINE effective == Greatest(ledger, InEffect(ts))
               Covers(i) == /\ ledger[i].ts <= ts
                            /\ NextTs(ledger, i) = Open \/ ts < NextTs(ledger, i)
    <2>1. ledger \in Seq(Event) /\ ts \in Nat
        BY <1>1, LedgerAssumption DEF LedgerTypeOK, Instants
    <2>2. InEffect(ts) # {} => effective \in DOMAIN ledger
        BY <2>1, GreatestType DEF InEffect
    <2>3. \A i \in DOMAIN ledger : Covers(i) <=> InEffect(ts) # {} /\ i = effective
        BY <2>1, CoversIffInEffect DEF InEffect
    <2> DEFINE Starts == {i \in DOMAIN ledger : ledger[i].task # None}
    <2>4. {e.id : e \in Covering(ts)} = {i \in Starts : Covers(i)}
        <3>1. Entries(ledger) = {FromEvent(ledger, i, NextTs(ledger, i)) : i \in Starts}
            BY DEF Entries, EntriesInRange, Selected, IsStart
        <3>2. ASSUME NEW e \in Covering(ts) PROVE e.id \in {i \in Starts : Covers(i)}
            <4>1. PICK i \in Starts : e = FromEvent(ledger, i, NextTs(ledger, i))
                BY <3>1 DEF Covering
            <4>2. e.id = i /\ e.start = ledger[i].ts /\ e.end = NextTs(ledger, i)
                BY <4>1 DEF FromEvent
            <4> QED
                BY <4>2 DEF Covering
        <3>3. ASSUME NEW i \in Starts, Covers(i)
              PROVE  \E e \in Covering(ts) : e.id = i
            <4> DEFINE e == FromEvent(ledger, i, NextTs(ledger, i))
            <4>1. e.id = i /\ e.start = ledger[i].ts /\ e.end = NextTs(ledger, i)
                BY DEF FromEvent
            <4>2. e \in Entries(ledger)
                BY <3>1
            <4> HIDE DEF e
            <4>3. e \in Covering(ts)
                BY <3>3, <4>1, <4>2 DEF Covering
            <4> QED
                BY <4>1, <4>3
        <3> HIDE DEF Covers, Starts
        <3> QED
            BY <3>2, <3>3
    <2> HIDE DEF effective, Covers
    <2>5. {i \in Starts : Covers(i)} = {i \in Starts : InEffect(ts) # {} /\ i = effective}
        BY <2>3
    <2>6. {i \in Starts : InEffect(ts) # {} /\ i = effective}
              = IF InEffect(ts) = {} \/ IsStop(ledger[effective]) THEN {} ELSE {effective}
        BY <2>2 DEF IsStop
    <2> QED
        BY <2>4, <2>5, <2>6 DEF effective
<1> QED
    BY <1>1 DEF TimelineFaithful

(* GET /entries tiles time: at any instant the entries that cover it are the *)
(* one begun by the event in effect, none before the first event or after a  *)
(* stop, however the clock went.                                             *)
THEOREM TimelineHolds == Spec => []TimelineFaithful
BY TimelineOf, LedgerTyped, PTL

(* An event recorded between two others is between no other two.             *)
LEMMA OneEnd ==
    ASSUME NEW L \in Seq(Event), NEW K \in Seq(Event), NEW n, n \notin DOMAIN L,
           DOMAIN K = DOMAIN L \cup {n}, \A i \in DOMAIN L : K[i] = L[i],
           NEW i \in DOMAIN L, NextTs(K, i) # NextTs(L, i),
           NEW j \in DOMAIN L, NextTs(K, j) # NextTs(L, j)
    PROVE  i = j
<1>1. /\ Before(K, i, n) /\ Before(K, j, n)
      /\ Before(L, i, j) => Before(K, n, j)
      /\ Before(L, j, i) => Before(K, n, i)
    BY KeepsEnd
<1>2. ~Before(K, n, i) /\ ~Before(K, n, j)
    BY <1>1, BeforeIsTotal
<1> QED
    BY <1>1, <1>2, BeforeIsTotal

(* Nothing but that the ledger grows by one event, whatever its timestamp.   *)
LEMMA AppendCutsOne ==
    ASSUME LedgerTypeOK, NEW e \in Event, ledger' = Append(ledger, e)
    PROVE  CutsAtMostOne
<1> DEFINE gone == Entries(ledger) \ Entries(ledger')
           n == Len(ledger) + 1
<1>1. ledger \in Seq(Event) /\ e \in Event /\ ledger' = Append(ledger, e)
    BY DEF LedgerTypeOK
<1>2. /\ ledger' \in Seq(Event) /\ DOMAIN ledger' = DOMAIN ledger \cup {n}
      /\ n \notin DOMAIN ledger
      /\ \A i \in DOMAIN ledger : ledger'[i] = ledger[i]
    <2>1. /\ ledger' \in Seq(Event) /\ Len(ledger') = Len(ledger) + 1
          /\ \A i \in 1..Len(ledger) : ledger'[i] = ledger[i]
        BY <1>1, AppendProperties
    <2>2. /\ Len(ledger) \in Nat /\ DOMAIN ledger = 1..Len(ledger)
          /\ DOMAIN ledger' = 1..(Len(ledger) + 1)
        BY <1>1, <2>1, LenProperties
    <2> QED
        BY <2>1, <2>2
<1> HIDE DEF n
<1>3. ASSUME NEW x \in gone
      PROVE  \E i \in DOMAIN ledger : /\ x = FromEvent(ledger, i, NextTs(ledger, i))
                                      /\ NextTs(ledger', i) # NextTs(ledger, i)
    <2>1. PICK i \in DOMAIN ledger : /\ x = FromEvent(ledger, i, NextTs(ledger, i))
                                     /\ ledger[i].task # None
        BY DEF Entries, EntriesInRange, Selected, IsStart
    <2>2. FromEvent(ledger', i, NextTs(ledger', i)) \in Entries(ledger')
        BY <1>2, <2>1 DEF Entries, EntriesInRange, Selected, IsStart
    <2>3. NextTs(ledger', i) = NextTs(ledger, i)
              => FromEvent(ledger', i, NextTs(ledger', i)) = x
        BY <1>2, <2>1 DEF FromEvent
    <2> QED
        BY <2>1, <2>2, <2>3
<1>4. \A x, y \in gone : x = y
    <2> SUFFICES ASSUME NEW x \in gone, NEW y \in gone PROVE x = y
        OBVIOUS
    <2>1. PICK i \in DOMAIN ledger : /\ x = FromEvent(ledger, i, NextTs(ledger, i))
                                     /\ NextTs(ledger', i) # NextTs(ledger, i)
        BY <1>3
    <2>2. PICK j \in DOMAIN ledger : /\ y = FromEvent(ledger, j, NextTs(ledger, j))
                                     /\ NextTs(ledger', j) # NextTs(ledger, j)
        BY <1>3
    <2>3. i = j
        BY <1>1, <1>2, <2>1, <2>2, OneEnd
    <2> QED
        BY <2>1, <2>2, <2>3
<1> HIDE DEF gone
<1>5. gone = {} \/ \E x : gone = {x}
    <2>1. ASSUME NEW x \in gone PROVE gone = {x}
        BY <1>4, <2>1
    <2> QED
        BY <2>1
<1>6. Cardinality(gone) \in {0, 1}
    BY <1>5, FS_EmptySet, FS_Singleton
<1> QED
    BY <1>6 DEF gone, CutsAtMostOne

(* Recording an event, even in the past of others, changes one entry at most. *)
THEOREM CutsOneHolds == Spec => CutsOneEntry
<1>1. ASSUME LedgerTypeOK, NEW e \in NewEvents, AppendEvent(e)
      PROVE  CutsAtMostOne
    <2>1. e \in Event /\ ledger' = Append(ledger, e)
        BY <1>1, NewEventType DEF AppendEvent
    <2> QED
        BY <1>1, <2>1, AppendCutsOne
<1>2. LedgerTypeOK /\ [Next]_ledger => [CutsAtMostOne]_ledger
    BY <1>1 DEF Next
<1> QED
    BY <1>2, LedgerTyped, PTL DEF Spec, CutsOneEntry

-----------------------------------------------------------------------------
(* The queries answer what the repository of the tests answers *)

Prior(L, i) == {j \in DOMAIN L : Before(L, j, i)}

LEMMA PriorType ==
    ASSUME NEW L \in Seq(Event), NEW i \in DOMAIN L
    PROVE  /\ IsFiniteSet(Prior(L, i)) /\ Cardinality(Prior(L, i)) \in Nat
           /\ Rank(L, i) = Cardinality(Prior(L, i)) + 1
           /\ Rank(L, i) \in 1..Len(L)
<1>1. DOMAIN L = 1..Len(L) /\ Len(L) \in Nat
    BY LenProperties
<1>2. IsFiniteSet(DOMAIN L) /\ Cardinality(DOMAIN L) = Len(L)
    <2>1. IsFiniteSet(1..Len(L))
              /\ Cardinality(1..Len(L)) = IF 1 > Len(L) THEN 0 ELSE Len(L) - 1 + 1
        BY <1>1, FS_Interval
    <2> QED
        BY <1>1, <2>1
<1>3. IsFiniteSet(DOMAIN L \ {i}) /\ Cardinality(DOMAIN L \ {i}) = Len(L) - 1
    BY <1>2, FS_RemoveElement
<1>4. Prior(L, i) \in SUBSET (DOMAIN L \ {i})
    BY BeforeIsTotal DEF Prior
<1>5. IsFiniteSet(Prior(L, i)) /\ Cardinality(Prior(L, i)) <= Len(L) - 1
    BY <1>3, <1>4, FS_Subset
<1>6. Cardinality(Prior(L, i)) \in Nat
    BY <1>5, FS_CardinalityType
<1>7. Rank(L, i) = Cardinality(Prior(L, i)) + 1
    BY DEF Rank, Prior
<1> QED
    BY <1>1, <1>5, <1>6, <1>7

LEMMA RankOrders ==
    ASSUME NEW L \in Seq(Event), NEW i \in DOMAIN L, NEW j \in DOMAIN L, Before(L, i, j)
    PROVE  Rank(L, i) < Rank(L, j)
<1>1. i \notin Prior(L, i)
    BY BeforeIsTotal DEF Prior
<1>2. Prior(L, i) \cup {i} \in SUBSET Prior(L, j)
    BY BeforeIsTransitive DEF Prior
<1>3. Cardinality(Prior(L, i) \cup {i}) = Cardinality(Prior(L, i)) + 1
    BY <1>1, PriorType, FS_AddElement
<1>4. Cardinality(Prior(L, i) \cup {i}) <= Cardinality(Prior(L, j))
    BY <1>2, PriorType, FS_Subset
<1> QED
    BY <1>3, <1>4, PriorType

LEMMA RankIsOneToOne ==
    ASSUME NEW L \in Seq(Event), NEW i \in DOMAIN L, NEW j \in DOMAIN L,
           Rank(L, i) = Rank(L, j)
    PROVE  i = j
<1>1. Rank(L, i) \in 1..Len(L) /\ Rank(L, j) \in 1..Len(L) /\ Len(L) \in Nat
    BY PriorType, LenProperties
<1> QED
    BY <1>1, RankOrders, BeforeIsTotal

(* Every rank is taken, so Sorted lists every position once.                 *)
LEMMA SortedIs ==
    ASSUME NEW L \in Seq(Event), NEW r \in DOMAIN L
    PROVE  Sorted(L)[r] \in DOMAIN L /\ Rank(L, Sorted(L)[r]) = r
<1> DEFINE f == [i \in DOMAIN L |-> Rank(L, i)]
<1>1. DOMAIN L = 1..Len(L) /\ Len(L) \in Nat
    BY LenProperties
<1>2. f \in [DOMAIN L -> DOMAIN L] /\ \A i, j \in DOMAIN L : f[i] = f[j] => i = j
    BY <1>1, PriorType, RankIsOneToOne
<1> HIDE DEF f
<1>3. f \in Injection(DOMAIN L, DOMAIN L)
    BY <1>2 DEF Injection, IsInjective
<1>4. f \in Surjection(DOMAIN L, DOMAIN L)
    <2>1. IsFiniteSet(1..Len(L))
        BY <1>1, FS_Interval
    <2> QED
        BY <1>1, <1>3, <2>1, FS_Injection
<1>5. \E i \in DOMAIN L : Rank(L, i) = r
    BY <1>4 DEF Surjection, f
<1> QED
    BY <1>5 DEF Sorted

(* The event one rank up is the one that ends the entry.                     *)
LEMMA NextInRank ==
    ASSUME NEW L \in Seq(Event), NEW i \in DOMAIN L, NEW r \in DOMAIN L, Rank(L, i) = r
    PROVE  NextTs(L, i) = IF r < Len(L) THEN L[Sorted(L)[r + 1]].ts ELSE Open
<1>1. DOMAIN L = 1..Len(L) /\ Len(L) \in Nat
    BY LenProperties
<1>2. \A j \in DOMAIN L : Rank(L, j) \in 1..Len(L)
    BY PriorType
<1>3. CASE r < Len(L)
    <2> DEFINE n == Sorted(L)[r + 1]
    <2>1. r + 1 \in DOMAIN L
        BY <1>1, <1>3
    <2>2. n \in DOMAIN L /\ Rank(L, n) = r + 1
        BY <2>1, SortedIs
    <2> HIDE DEF n
    <2>3. Before(L, i, n)
        <3>1. i # n /\ ~ (Rank(L, n) < Rank(L, i))
            BY <1>1, <2>2
        <3> QED
            BY <2>2, <3>1, RankOrders, BeforeIsTotal
    <2>4. ASSUME NEW j \in DOMAIN L, Before(L, i, j) PROVE j = n \/ Before(L, n, j)
        <3>1. r < Rank(L, j)
            BY <2>4, RankOrders
        <3>2. ~ (Rank(L, j) < Rank(L, n))
            BY <1>1, <1>2, <2>2, <3>1
        <3> QED
            BY <2>2, <3>2, RankOrders, BeforeIsTotal
    <2>5. NextTs(L, i) = L[n].ts
        BY <2>2, <2>3, <2>4, NextIs
    <2> QED
        BY <1>3, <2>5 DEF n
<1>4. CASE ~ (r < Len(L))
    <2>1. ASSUME NEW j \in DOMAIN L, Before(L, i, j) PROVE FALSE
        <3>1. r < Rank(L, j)
            BY <2>1, RankOrders
        <3> QED
            BY <1>1, <1>2, <1>4, <3>1
    <2>2. NextTs(L, i) = Open
        BY <2>1 DEF NextTs
    <2> QED
        BY <1>4, <2>2
<1> QED
    BY <1>3, <1>4

(* Text written with the offset of the column compares like the instants.    *)
LEMMA UtcTextIsInstant ==
    ASSUME NEW a \in Nat, NEW b \in Nat
    PROVE  /\ TextLeq(BoundText(Bound(a, "utc")), Stored(b)) <=> a <= b
           /\ TextLeq(Stored(b), BoundText(Bound(a, "utc"))) <=> b <= a
<1>1. Offset("utc") = 0 /\ Suffix("utc") = 1
    BY DEF Offset, Suffix
<1>2. IsoText(a, "utc") = [wall |-> a, suffix |-> 1] /\ IsoText(b, "utc") = [wall |-> b, suffix |-> 1]
    BY <1>1 DEF IsoText
<1>3. BoundText(Bound(a, "utc")) = [wall |-> a, suffix |-> 1]
    BY <1>2 DEF Bound, BoundText
<1> QED
    BY <1>2, <1>3 DEF Stored, TextLeq

LEMMA AnswersAgree ==
    ASSUME NEW L \in Seq(Event), NEW from, NEW to, NEW task,
           \A b \in from \cup to : \E ts \in Nat : b = Bound(ts, "utc")
    PROVE  EntriesInRange(L, from, to, task) = ReferenceEntries(L, from, to, task)
<1> DEFINE order == Sorted(L)
           endAt(r) == IF r < Len(L) THEN L[order[r + 1]].ts ELSE Open
           Kept(e) == /\ IsStart(e)
                      /\ task # None => e.task = task
                      /\ \A b \in from : e.ts >= b.ts
                      /\ \A b \in to : e.ts <= b.ts
           Walked == {r \in DOMAIN L : Kept(L[order[r]])}
           Chosen == Selected(L, from, to, task)
<1>1. EntriesInRange(L, from, to, task) = {FromEvent(L, i, NextTs(L, i)) : i \in Chosen}
    BY DEF EntriesInRange
<1>2. ReferenceEntries(L, from, to, task) = {FromEvent(L, order[r], endAt(r)) : r \in Walked}
    BY DEF ReferenceEntries
<1>3. ASSUME NEW i \in DOMAIN L PROVE i \in Chosen <=> Kept(L[i])
    <2>1. ASSUME NEW b \in from \cup to
          PROVE  /\ TextLeq(BoundText(b), Stored(L[i].ts)) <=> L[i].ts >= b.ts
                 /\ TextLeq(Stored(L[i].ts), BoundText(b)) <=> L[i].ts <= b.ts
        <3>1. PICK ts \in Nat : b = Bound(ts, "utc")
            BY <2>1
        <3>2. b.ts = ts /\ L[i].ts \in Nat
            BY <3>1, TsType DEF Bound
        <3> QED
            BY <3>1, <3>2, UtcTextIsInstant
    <2> QED
        BY <2>1 DEF Selected
<1>4. ASSUME NEW r \in DOMAIN L
      PROVE  order[r] \in DOMAIN L /\ endAt(r) = NextTs(L, order[r])
    <2>1. order[r] \in DOMAIN L /\ Rank(L, order[r]) = r
        BY SortedIs
    <2> QED
        BY <2>1, NextInRank
<1>5. ASSUME NEW i \in DOMAIN L PROVE \E r \in DOMAIN L : order[r] = i
    <2>1. Rank(L, i) \in DOMAIN L
        BY PriorType, LenProperties
    <2>2. order[Rank(L, i)] \in DOMAIN L /\ Rank(L, order[Rank(L, i)]) = Rank(L, i)
        BY <2>1, SortedIs
    <2> QED
        BY <2>1, <2>2, RankIsOneToOne
<1>6. Chosen \in SUBSET (DOMAIN L)
    BY DEF Selected
<1> HIDE DEF order, endAt, Kept, Chosen
<1>7. ASSUME NEW i \in Chosen
      PROVE  \E r \in Walked : FromEvent(L, i, NextTs(L, i)) = FromEvent(L, order[r], endAt(r))
    <2>1. i \in DOMAIN L /\ Kept(L[i])
        BY <1>3, <1>6
    <2>2. PICK r \in DOMAIN L : order[r] = i
        BY <1>5, <2>1
    <2> QED
        BY <1>4, <2>1, <2>2
<1>8. ASSUME NEW r \in Walked
      PROVE  /\ order[r] \in Chosen
             /\ FromEvent(L, order[r], endAt(r)) = FromEvent(L, order[r], NextTs(L, order[r]))
    BY <1>3, <1>4
<1> HIDE DEF Walked
<1> QED
    BY <1>1, <1>2, <1>7, <1>8

LEMMA ProjectionOf == LedgerTypeOK => ProjectionMatchesReference
<1>1. ASSUME LedgerTypeOK, NEW from \in Bounds({"utc"}), NEW to \in Bounds({"utc"}),
             NEW task \in Tasks \cup {None}
      PROVE  EntriesInRange(ledger, from, to, task) = ReferenceEntries(ledger, from, to, task)
    <2>1. \A b \in from \cup to : \E ts \in Nat : b = Bound(ts, "utc")
        BY LedgerAssumption DEF Bounds, Instants
    <2> QED
        BY <1>1, <2>1, AnswersAgree DEF LedgerTypeOK
<1> QED
    BY <1>1 DEF ProjectionMatchesReference, MatchesReference

(* GET /entries, for every ledger, task and pair of bounds written in UTC,   *)
(* answers what the repository the tests run against answers.                *)
THEOREM ProjectionHolds == Spec => []ProjectionMatchesReference
BY ProjectionOf, LedgerTyped, PTL
=============================================================================
