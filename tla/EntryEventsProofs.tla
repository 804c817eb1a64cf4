-------------------------- MODULE EntryEventsProofs --------------------------
(* The order of the ledger and its projections, for every ledger: events may *)
(* have been recorded in any order of their timestamps.                      *)
EXTENDS EntryEvents, SequenceTheorems, WellFoundedInduction, TLAPS

(* A non-empty set of naturals has a least member.                           *)
LEMMA NatHasLeast ==
    ASSUME NEW S \in SUBSET Nat, S # {}
    PROVE  \E m \in S : \A n \in S : m <= n
<1>1. PICK m \in S : \A n \in S : ~ (<<n, m>> \in OpToRel(<, Nat))
    BY NatLessThanWellFounded, WFMin
<1>2. ASSUME NEW n \in S PROVE m <= n
    <2>1. ~ (<<n, m>> \in OpToRel(<, Nat))
        BY <1>1
    <2>2. ~ (n < m)
        BY <2>1 DEF OpToRel
    <2> QED
        BY <2>2
<1> QED
    BY <1>2

LEMMA TsType ==
    ASSUME NEW L \in Seq(Event), NEW i \in DOMAIN L
    PROVE  L[i].ts \in Nat /\ L[i].task \in Tasks \cup {None} /\ i \in Nat /\ i \in 1..Len(L)
<1>1. Len(L) \in Nat /\ i \in 1..Len(L)
    BY LenProperties
<1>2. L[i] \in Event
    BY <1>1, ElementOfSeq
<1> QED
    BY <1>1, <1>2 DEF Event

(* ORDER BY ts is a total order on positions.                                *)
LEMMA BeforeIsTotal ==
    ASSUME NEW L \in Seq(Event), NEW i \in DOMAIN L, NEW j \in DOMAIN L
    PROVE  /\ i # j => Before(L, i, j) \/ Before(L, j, i)
           /\ ~ (Before(L, i, j) /\ Before(L, j, i))
           /\ ~ Before(L, i, i)
BY TsType DEF Before

LEMMA BeforeIsTransitive ==
    ASSUME NEW L \in Seq(Event), NEW i \in DOMAIN L, NEW j \in DOMAIN L, NEW k \in DOMAIN L,
           Before(L, i, j), Before(L, j, k)
    PROVE  Before(L, i, k)
<1>1. L[i].ts \in Nat /\ L[j].ts \in Nat /\ L[k].ts \in Nat /\ i \in Nat /\ j \in Nat /\ k \in Nat
    BY TsType
<1> QED
    BY <1>1 DEF Before

(* Any set of positions has a least one: first by ts, then by position.      *)
LEMMA LeastType ==
    ASSUME NEW L \in Seq(Event), NEW S \in SUBSET (DOMAIN L), S # {}
    PROVE  /\ Least(L, S) \in S
           /\ \A j \in S \ {Least(L, S)} : Before(L, Least(L, S), j)
<1> DEFINE Stamps == {L[i].ts : i \in S}
<1>1. \A i \in S : i \in Nat /\ L[i].ts \in Nat
    BY TsType
<1>2. Stamps \in SUBSET Nat /\ Stamps # {}
    BY <1>1
<1>3. PICK m \in Stamps : \A n \in Stamps : m <= n
    BY <1>2, NatHasLeast
<1> DEFINE Earliest == {i \in S : L[i].ts = m}
<1>4. Earliest \in SUBSET Nat /\ Earliest # {}
    BY <1>1, <1>3
<1>5. PICK i \in Earliest : \A j \in Earliest : i <= j
    BY <1>4, NatHasLeast
<1>6. i \in S /\ L[i].ts = m
    BY <1>5
<1>7. ASSUME NEW j \in S \ {i} PROVE Before(L, i, j)
    <2>1. m <= L[j].ts
        BY <1>3
    <2>2. L[j].ts = m => i <= j
        BY <1>5
    <2> QED
        BY <1>1, <1>6, <2>1, <2>2 DEF Before
<1> QED
    BY <1>6, <1>7 DEF Least

(* Any set of positions has a last one.  The least prefix with members of S  *)
(* but without a last one cannot exist: adding a position to a prefix either *)
(* leaves its last member last or is itself last.                            *)
LEMMA GreatestType ==
    ASSUME NEW L \in Seq(Event), NEW S \in SUBSET (DOMAIN L), S # {}
    PROVE  /\ Greatest(L, S) \in S
           /\ \A j \in S \ {Greatest(L, S)} : Before(L, j, Greatest(L, S))
<1> DEFINE Upto(n) == S \cap (1..n)
           IsLast(i, n) == \A j \in Upto(n) \ {i} : Before(L, j, i)
           Bad == {n \in 1..Len(L) : Upto(n) # {} /\ ~ \E i \in Upto(n) : IsLast(i, n)}
<1>1. Len(L) \in Nat /\ DOMAIN L = 1..Len(L)
    BY LenProperties
<1>2. Bad = {}
    <2> SUFFICES ASSUME Bad # {} PROVE FALSE
        OBVIOUS
    <2>1. Bad \in SUBSET Nat
        BY <1>1
    <2>2. PICK n \in Bad : \A k \in Bad : n <= k
        BY <2>1, NatHasLeast
    <2>3. n \in 1..Len(L) /\ Upto(n) # {} /\ ~ \E i \in Upto(n) : IsLast(i, n)
        BY <2>2
    <2>4. n \in Nat /\ n - 1 \notin Bad
        <3>1. n \in Nat /\ ~ (n <= n - 1)
            BY <1>1, <2>3
        <3> QED
            BY <2>2, <3>1
    <2>5. \A j \in Upto(n) : j # n => j \in Upto(n - 1)
        BY <1>1, <2>3
    <2>6. \A j \in Upto(n - 1) : j \in Upto(n)
        BY <1>1, <2>3
    <2>7. CASE Upto(n - 1) = {}
        <3>1. Upto(n) = {n}
            BY <2>3, <2>5, <2>7
        <3>2. IsLast(n, n)
            BY <3>1
        <3> QED
            BY <2>3, <3>1, <3>2
    <2>8. CASE Upto(n - 1) # {}
        <3>1. n - 1 \in 1..Len(L)
            BY <1>1, <2>3, <2>8
        <3>2. PICK i \in Upto(n - 1) : IsLast(i, n - 1)
            BY <2>4, <2>8, <3>1
        <3>3. i \in DOMAIN L /\ i \in Upto(n)
            BY <2>6, <3>2
        <3>4. CASE n \notin S \/ Before(L, n, i)
            <4>1. IsLast(i, n)
                BY <2>5, <3>2, <3>4
            <4> QED
                BY <2>3, <3>3, <4>1
        <3>5. CASE n \in S /\ Before(L, i, n)
            <4>1. n \in DOMAIN L /\ n \in Upto(n)
                BY <1>1, <2>3, <3>5
            <4>2. ASSUME NEW j \in Upto(n) \ {n} PROVE Before(L, j, n)
                <5>1. j \in Upto(n - 1) /\ j \in DOMAIN L
                    BY <2>5
                <5>2. CASE j = i
                    BY <3>5, <5>2
                <5>3. CASE j # i
                    <6>1. Before(L, j, i)
                        BY <3>2, <5>1, <5>3
                    <6> QED
                        BY <3>3, <3>5, <4>1, <5>1, <6>1, BeforeIsTransitive
                <5> QED
                    BY <5>2, <5>3
            <4>3. IsLast(n, n)
                BY <4>2
            <4> QED
                BY <2>3, <4>1, <4>3
        <3>6. n \in S /\ n # i => Before(L, n, i) \/ Before(L, i, n)
            BY <3>3, BeforeIsTotal
        <3>7. n # i
            BY <2>4, <3>2
        <3> QED
            BY <3>4, <3>5, <3>6, <3>7
    <2> QED
        BY <2>7, <2>8
<1>3. Upto(Len(L)) = S
    BY <1>1
<1>4. Len(L) \in 1..Len(L)
    BY <1>1, <1>3
<1>5. PICK i \in S : \A j \in S \ {i} : Before(L, j, i)
    BY <1>2, <1>3, <1>4
<1> QED
    BY <1>5 DEF Greatest

(* A ledger with an event has a last one.                                    *)
LEMMA LatestType ==
    ASSUME NEW L \in Seq(Event), L # <<>>
    PROVE  /\ Latest(L) \in DOMAIN L
           /\ \A j \in DOMAIN L \ {Latest(L)} : Before(L, j, Latest(L))
<1>1. Len(L) \in Nat \ {0} /\ DOMAIN L = 1..Len(L)
    BY EmptySeq, LenProperties
<1>2. Latest(L) = Greatest(L, DOMAIN L)
    BY DEF Latest
<1>3. 1 \in DOMAIN L
    BY <1>1
<1>4. /\ Greatest(L, DOMAIN L) \in DOMAIN L
      /\ \A j \in DOMAIN L \ {Greatest(L, DOMAIN L)} : Before(L, j, Greatest(L, DOMAIN L))
    BY <1>3, GreatestType
<1> QED
    BY <1>2, <1>4

(* An entry is open exactly when its event is the last one.                  *)
LEMMA OpenIffLatest ==
    ASSUME NEW L \in Seq(Event), NEW i \in DOMAIN L
    PROVE  NextTs(L, i) = Open <=> i = Latest(L)
<1> DEFINE later == {j \in DOMAIN L : Before(L, i, j)}
<1>1. L # <<>>
    BY EmptySeq
<1>2. Latest(L) \in DOMAIN L /\ \A j \in DOMAIN L \ {Latest(L)} : Before(L, j, Latest(L))
    BY <1>1, LatestType
<1>3. CASE i = Latest(L)
    <2>1. later = {}
        BY <1>2, <1>3, BeforeIsTotal
    <2> QED
        BY <1>3, <2>1 DEF NextTs
<1>4. CASE i # Latest(L)
    <2>1. later # {} /\ later \in SUBSET (DOMAIN L)
        BY <1>2, <1>4
    <2>2. Least(L, later) \in DOMAIN L
        BY <2>1, LeastType
    <2>3. L[Least(L, later)].ts \in Nat
        BY <2>2, TsType
    <2>4. NextTs(L, i) # Open
        BY <2>1, <2>3 DEF NextTs, Open
    <2> QED
        BY <1>4, <2>4
<1> QED
    BY <1>3, <1>4

(* The end of an entry that has one is the least later event, and no later   *)
(* event ends it sooner.                                                     *)
LEMMA EndIsNext ==
    ASSUME NEW L \in Seq(Event), NEW i \in DOMAIN L, NextTs(L, i) # Open
    PROVE  \E n \in DOMAIN L : /\ Before(L, i, n) /\ NextTs(L, i) = L[n].ts
                               /\ \A j \in DOMAIN L :
                                     Before(L, i, j) => j = n \/ Before(L, n, j)
<1> DEFINE later == {j \in DOMAIN L : Before(L, i, j)}
<1>1. later # {} /\ NextTs(L, i) = L[Least(L, later)].ts
    BY DEF NextTs
<1>2. /\ Least(L, later) \in later
      /\ \A j \in later \ {Least(L, later)} : Before(L, Least(L, later), j)
    BY <1>1, LeastType
<1> QED
    BY <1>1, <1>2

(* And the only one of which that can be said.                               *)
LEMMA NextIs ==
    ASSUME NEW L \in Seq(Event), NEW i \in DOMAIN L, NEW n \in DOMAIN L, Before(L, i, n),
           \A j \in DOMAIN L : Before(L, i, j) => j = n \/ Before(L, n, j)
    PROVE  NextTs(L, i) = L[n].ts
<1> DEFINE later == {j \in DOMAIN L : Before(L, i, j)}
<1>1. later # {} /\ later \in SUBSET (DOMAIN L) /\ n \in later
    OBVIOUS
<1>2. /\ Least(L, later) \in later
      /\ \A j \in later \ {Least(L, later)} : Before(L, Least(L, later), j)
    BY <1>1, LeastType
<1>3. Least(L, later) = n
    BY <1>2, BeforeIsTotal
<1> QED
    BY <1>1, <1>3 DEF NextTs

(* Recording an event at position n leaves an earlier one's end alone,       *)
(* unless the new event comes between it and all that was later than it.     *)
LEMMA KeepsEnd ==
    ASSUME NEW L \in Seq(Event), NEW K \in Seq(Event), NEW n, n \notin DOMAIN L,
           DOMAIN K = DOMAIN L \cup {n}, \A i \in DOMAIN L : K[i] = L[i],
           NEW i \in DOMAIN L,
           ~ (Before(K, i, n) /\ \A j \in DOMAIN L : Before(L, i, j) => Before(K, n, j))
    PROVE  NextTs(K, i) = NextTs(L, i)
<1>1. \A j, k \in DOMAIN L : Before(K, j, k) <=> Before(L, j, k)
    BY DEF Before
<1>2. CASE NextTs(L, i) = Open
    <2>1. ASSUME NEW j \in DOMAIN L PROVE ~Before(L, i, j)
        <3> DEFINE later == {k \in DOMAIN L : Before(L, i, k)}
        <3>1. later # {} => NextTs(L, i) \in Nat
            BY LeastType, TsType DEF NextTs
        <3> QED
            BY <1>2, <3>1 DEF Open
    <2>2. \A j \in DOMAIN K : ~Before(K, i, j)
        BY <1>1, <2>1
    <2>3. NextTs(K, i) = Open
        BY <2>2 DEF NextTs
    <2> QED
        BY <1>2, <2>3
<1>3. CASE NextTs(L, i) # Open
    <2>1. PICK m \in DOMAIN L :
              /\ Before(L, i, m) /\ NextTs(L, i) = L[m].ts
              /\ \A j \in DOMAIN L : Before(L, i, j) => j = m \/ Before(L, m, j)
        BY <1>3, EndIsNext
    <2>2. ASSUME NEW j \in DOMAIN K, Before(K, i, j) PROVE j = m \/ Before(K, m, j)
        <3>1. CASE j \in DOMAIN L
            BY <1>1, <2>1, <2>2, <3>1
        <3>2. CASE j = n
            <4>1. PICK k \in DOMAIN L : Before(L, i, k) /\ ~Before(K, n, k)
                BY <2>2, <3>2
            <4>2. Before(K, k, n)
                BY <4>1, BeforeIsTotal
            <4>3. k = m \/ Before(K, m, k)
                BY <1>1, <2>1, <4>1
            <4>4. Before(K, m, n)
                BY <4>2, <4>3, BeforeIsTransitive
            <4> QED
                BY <3>2, <4>4
        <3> QED
            BY <3>1, <3>2
    <2>3. i \in DOMAIN K /\ m \in DOMAIN K /\ Before(K, i, m)
        BY <1>1, <2>1
    <2>4. NextTs(K, i) = K[m].ts
        BY <2>2, <2>3, NextIs
    <2> QED
        BY <2>1, <2>4
<1> QED
    BY <1>2, <1>3

(* A start covers an instant exactly when its event is the last one up to it. *)
LEMMA CoversIffInEffect ==
    ASSUME NEW L \in Seq(Event), NEW ts \in Nat, NEW i \in DOMAIN L
    PROVE  LET before == {j \in DOMAIN L : L[j].ts <= ts}
           IN  L[i].ts <= ts /\ (NextTs(L, i) = Open \/ ts < NextTs(L, i))
                 <=> before # {} /\ i = Greatest(L, before)
<1> DEFINE before == {j \in DOMAIN L : L[j].ts <= ts}
           last == Greatest(L, before)
<1>1. before # {} => last \in before /\ \A j \in before \ {last} : Before(L, j, last)
    BY GreatestType
<1> HIDE DEF last
<1>2. ASSUME L[i].ts <= ts, NextTs(L, i) = Open \/ ts < NextTs(L, i)
      PROVE  before # {} /\ i = last
    <2>1. i \in before /\ last \in before
        BY <1>1, <1>2
    <2>2. ASSUME i # last PROVE FALSE
        <3>1. Before(L, i, last)
            BY <1>1, <2>1, <2>2
        <3>2. L # <<>>
            BY EmptySeq
        <3>3. i # Latest(L)
            BY <2>1, <3>1, <3>2, LatestType, BeforeIsTotal
        <3>4. NextTs(L, i) # Open
            BY <3>3, OpenIffLatest
        <3>5. PICK n \in DOMAIN L : /\ NextTs(L, i) = L[n].ts
                                    /\ last = n \/ Before(L, n, last)
            BY <2>1, <3>1, <3>4, EndIsNext
        <3>6. L[n].ts <= L[last].ts
            BY <2>1, <3>5, TsType DEF Before
        <3>7. L[n].ts \in Nat /\ L[last].ts \in Nat /\ L[last].ts <= ts
            BY <2>1, TsType
        <3> QED
            BY <1>2, <3>4, <3>5, <3>6, <3>7
    <2> QED
        BY <2>1, <2>2
<1>3. ASSUME before # {}, i = last
      PROVE  L[i].ts <= ts /\ (NextTs(L, i) = Open \/ ts < NextTs(L, i))
    <2>1. L[i].ts <= ts
        BY <1>1, <1>3
    <2>2. ASSUME NextTs(L, i) # Open PROVE ts < NextTs(L, i)
        <3>1. PICK n \in DOMAIN L : Before(L, i, n) /\ NextTs(L, i) = L[n].ts
            BY <2>2, EndIsNext
        <3>2. n \notin before
            BY <1>1, <1>3, <3>1, BeforeIsTotal
        <3>3. L[n].ts \in Nat /\ ~ (L[n].ts <= ts)
            BY <3>2, TsType
        <3> QED
            BY <3>1, <3>3
    <2> QED
        BY <2>1, <2>2
<1> QED
    BY <1>2, <1>3 DEF last

(* GET /entries shows at most one open entry, and it is the one GET /current *)
(* shows, whatever order the clock made the events come in.                  *)
THEOREM OpenEntryIsCurrent ==
    ASSUME NEW L \in Seq(Event)
    PROVE  {e \in Entries(L) : e.end = Open} = CurrentEntry(L)
<1>1. CASE L = <<>>
    <2>1. Entries(L) = {}
        BY <1>1 DEF Entries, EntriesInRange, Selected
    <2> QED
        BY <1>1, <2>1 DEF CurrentEntry, Running
<1>2. CASE L # <<>>
    <2>1. Latest(L) \in DOMAIN L
        BY <1>2, LatestType
    <2>2. Running(L) = L[Latest(L)].task
        BY <1>2 DEF Running
    <2>3. Entries(L) = {FromEvent(L, i, NextTs(L, i)) : i \in {j \in DOMAIN L : L[j].task # None}}
        BY DEF Entries, EntriesInRange, Selected, IsStart
    <2>4. ASSUME NEW e \in Entries(L), e.end = Open PROVE e \in CurrentEntry(L)
        <3>1. PICK i \in DOMAIN L : L[i].task # None /\ e = FromEvent(L, i, NextTs(L, i))
            BY <2>3
        <3>2. NextTs(L, i) = Open
            BY <2>4, <3>1 DEF FromEvent
        <3>3. i = Latest(L)
            BY <3>2, OpenIffLatest
        <3> QED
            BY <2>2, <3>1, <3>2, <3>3 DEF CurrentEntry
    <2>5. ASSUME NEW e \in CurrentEntry(L) PROVE e \in Entries(L) /\ e.end = Open
        <3>1. L[Latest(L)].task # None /\ e = FromEvent(L, Latest(L), Open)
            BY <2>2, <2>5 DEF CurrentEntry
        <3>2. NextTs(L, Latest(L)) = Open
            BY <2>1, OpenIffLatest
        <3> QED
            BY <2>1, <2>3, <3>1, <3>2 DEF FromEvent
    <2> QED
        BY <2>4, <2>5
<1> QED
    BY <1>1, <1>2
=============================================================================
