-------------------------- MODULE AutoSwitchProofs --------------------------
(* What the decision operators return, for every task table, window and      *)
(* override.                                                                 *)
EXTENDS AutoSwitch, EntryEventsProofs

(* A listed row's keywords are a sequence of keywords.                       *)
LEMMA KeywordsType ==
    ASSUME NEW rows \in Rows, NEW t \in Tasks
    PROVE  rows[t].keywords \in Seq(Keywords)
<1>1. rows[t].keywords \in KeywordLists \cup {<<>>}
    BY DEF Rows, Row
<1>2. <<>> \in Seq(Keywords)
    OBVIOUS
<1>3. KeywordLists \subseteq Seq(Keywords)
    BY DomainAssumption
<1> QED
    BY <1>1, <1>2, <1>3

(* The sort by created_at always has a first element to offer.               *)
LEMMA OldestType ==
    ASSUME NEW rows \in Rows, NEW S \in SUBSET Tasks, S # {}
    PROVE  /\ Oldest(rows, S) \in S
           /\ \A u \in S : rows[Oldest(rows, S)].created <= rows[u].created
<1> DEFINE Ages == {rows[t].created : t \in S}
<1>1. \A t \in S : rows[t].created \in Nat
    BY DEF Rows, Row
<1>2. Ages \in SUBSET Nat /\ Ages # {}
    BY <1>1
<1>3. PICK m \in Ages : \A n \in Ages : m <= n
    BY <1>2, NatHasLeast
<1>4. PICK t \in S : rows[t].created = m
    BY <1>3
<1>5. \A u \in S : rows[t].created <= rows[u].created
    BY <1>3, <1>4
<1> QED
    BY <1>5 DEF Oldest

(* The inner loop of _match_window: the first keyword of the tuple that hits. *)
LEMMA FirstHitType ==
    ASSUME NEW kws \in Seq(Keywords), NEW w \in Windows, Hits(kws, w) # {}
    PROVE  FirstHit(kws, w) \in Keywords /\ FirstHit(kws, w) \in Contains[w]
<1>1. Hits(kws, w) \in SUBSET Nat
    BY DEF Hits
<1>2. PICK least \in Hits(kws, w) : \A j \in Hits(kws, w) : least <= j
    BY <1>1, NatHasLeast
<1> DEFINE first == CHOOSE i \in Hits(kws, w) : \A j \in Hits(kws, w) : i <= j
<1>3. first \in Hits(kws, w)
    BY <1>2
<1>4. FirstHit(kws, w) = kws[first]
    BY DEF FirstHit
<1>5. first \in DOMAIN kws /\ kws[first] \in Contains[w]
    BY <1>3 DEF Hits
<1> QED
    BY <1>4, <1>5

(* A match is a listed task and one of its keywords, which the window        *)
(* contains; without a match both are None.                                  *)
LEMMA MatchWindowType ==
    ASSUME NEW rows \in Rows, NEW w \in Windows \cup {None}
    PROVE  \/ MatchWindow(rows, w) = NoMatch
           \/ /\ w # None
              /\ MatchWindow(rows, w).task \in Listed(rows)
              /\ MatchWindow(rows, w).keyword \in Keywords
              /\ MatchWindow(rows, w).keyword \in Contains[w]
<1>1. CASE w = None \/ Candidates(rows, w) = {}
    BY <1>1 DEF MatchWindow
<1>2. CASE w # None /\ Candidates(rows, w) # {}
    <2> DEFINE t == Oldest(rows, Candidates(rows, w))
    <2>1. Candidates(rows, w) \in SUBSET Tasks
        BY DEF Candidates, Listed, Live
    <2>2. t \in Candidates(rows, w)
        BY <1>2, <2>1, OldestType
    <2>3. t \in Listed(rows) /\ t \in Tasks /\ Hits(rows[t].keywords, w) # {}
        BY <2>1, <2>2 DEF Candidates
    <2>4. rows[t].keywords \in Seq(Keywords)
        BY <2>3, KeywordsType
    <2>5. FirstHit(rows[t].keywords, w) \in Keywords
          /\ FirstHit(rows[t].keywords, w) \in Contains[w]
        BY <1>2, <2>3, <2>4, FirstHitType
    <2>6. MatchWindow(rows, w) = [task |-> t, keyword |-> FirstHit(rows[t].keywords, w)]
        BY <1>2 DEF MatchWindow
    <2> QED
        BY <1>2, <2>3, <2>5, <2>6
<1> QED
    BY <1>1, <1>2

LEMMA SignalsType ==
    ASSUME NEW rows \in Rows, NEW w \in Windows \cup {None}
    PROVE  Signals(w, rows) \in Keywords \cup {None}
BY MatchWindowType DEF Signals, NoMatch

(* What a StartAuto decision stands for: auto mode, a listed task other than *)
(* the running one, and no override captured under the same signals.         *)
THEOREM StartAutoJustified ==
    ASSUME NEW mode, NEW running, NEW w \in Windows \cup {None}, NEW rows \in Rows,
           NEW override \in Overrides, NEW afk \in BOOLEAN,
           NEW d, d = ResolveAutoSwitch(mode, running, w, rows, override, afk)
    PROVE  /\ d \in Decisions
           /\ d.kind = "start" =>
                 /\ mode = "auto"
                 /\ d.task \in Listed(rows)
                 /\ d.task # running
                 /\ d.keyword \in Contains[w]
                 /\ override # Override(Signals(w, rows))
<1> DEFINE match == MatchWindow(rows, w)
<1>1. NoOp \in Decisions /\ NoOp.kind # "start"
    BY DEF NoOp, Decisions
<1>2. Stop \in Decisions /\ Stop.kind # "start"
    BY DEF Stop, Decisions
<1>3. ASSUME d = StartAuto(match), mode = "auto", match.task # None, match.task # running,
             ~ (override.held /\ Signals(w, rows) = override.keyword)
      PROVE  /\ d \in Decisions
             /\ d.task \in Listed(rows)
             /\ d.task # running
             /\ d.keyword \in Contains[w]
             /\ override # Override(Signals(w, rows))
    <2>1. match # NoMatch
        BY <1>3 DEF NoMatch
    <2>2. match.task \in Listed(rows) /\ match.keyword \in Keywords
          /\ match.keyword \in Contains[w]
        BY <2>1, MatchWindowType
    <2>3. d = [kind |-> "start", task |-> match.task, keyword |-> match.keyword]
        BY <1>3 DEF StartAuto
    <2>4. match.task \in Tasks
        BY <2>2 DEF Listed, Live
    <2>5. override # Override(Signals(w, rows))
        BY <1>3 DEF Override
    <2> QED
        BY <1>3, <2>2, <2>3, <2>4, <2>5 DEF Decisions
<1>4. \/ d = NoOp \/ d = Stop
      \/ /\ d = StartAuto(match) /\ mode = "auto"
         /\ match.task # None /\ match.task # running
         /\ ~ (override.held /\ Signals(w, rows) = override.keyword)
    BY DEF ResolveAutoSwitch
<1> QED
    BY <1>1, <1>2, <1>3, <1>4

(* The whole decision: a start exactly when every reason against it fails,   *)
(* and then the match; a stop exactly when the user is away from something.  *)
(* In particular nothing else about the task table, the window or the        *)
(* override has a say (resolve_auto_switch).                                 *)
THEOREM DecisionExact ==
    ASSUME NEW mode, NEW running, NEW w \in Windows \cup {None}, NEW rows \in Rows,
           NEW override \in Overrides, NEW afk \in BOOLEAN,
           NEW d, d = ResolveAutoSwitch(mode, running, w, rows, override, afk)
    PROVE  /\ d.kind = "stop" <=> mode = "auto" /\ afk /\ running # None
           /\ d.kind = "start" <=>
                 /\ mode = "auto" /\ (afk => running = None)
                 /\ override # Override(Signals(w, rows))
                 /\ MatchWindow(rows, w).task \notin {None, running}
           /\ d.kind = "start" => d = StartAuto(MatchWindow(rows, w))
<1> DEFINE match == MatchWindow(rows, w)
<1>1. NoOp.kind = "noop" /\ Stop.kind = "stop" /\ StartAuto(match).kind = "start"
    BY DEF NoOp, Stop, StartAuto
<1>2. override = Override(Signals(w, rows))
          <=> override.held /\ Signals(w, rows) = override.keyword
    BY DEF Overrides, Override
<1> HIDE DEF match
<1>3. d = IF mode # "auto" THEN NoOp
          ELSE IF afk /\ running # None THEN Stop
          ELSE IF override.held /\ Signals(w, rows) = override.keyword THEN NoOp
          ELSE IF match.task = None \/ match.task = running THEN NoOp
          ELSE StartAuto(match)
    BY DEF ResolveAutoSwitch, match
<1>4. CASE mode # "auto"
    BY <1>1, <1>3, <1>4
<1>5. CASE mode = "auto" /\ afk /\ running # None
    BY <1>1, <1>3, <1>5
<1>6. CASE mode = "auto" /\ ~(afk /\ running # None) /\ override = Override(Signals(w, rows))
    BY <1>1, <1>2, <1>3, <1>6
<1>7. CASE mode = "auto" /\ ~(afk /\ running # None) /\ override # Override(Signals(w, rows))
    BY <1>1, <1>2, <1>3, <1>7 DEF match
<1> QED
    BY <1>4, <1>5, <1>6, <1>7

(* The match: there is one exactly when some listed task has a keyword in    *)
(* the window, and then it is the task created first of all of those, with   *)
(* the first such keyword of its list (_match_window).                       *)
THEOREM MatchExact ==
    ASSUME NEW rows \in Rows, NEW w \in Windows \cup {None},
           NEW t, t = MatchWindow(rows, w).task
    PROVE  /\ t = None <=> w = None \/ Candidates(rows, w) = {}
           /\ t # None =>
                 /\ t \in Candidates(rows, w)
                 /\ \A u \in Candidates(rows, w) : rows[t].created <= rows[u].created
                 /\ \E i \in DOMAIN rows[t].keywords :
                       /\ MatchWindow(rows, w).keyword = rows[t].keywords[i]
                       /\ rows[t].keywords[i] \in Contains[w]
                       /\ \A j \in DOMAIN rows[t].keywords :
                             j < i => rows[t].keywords[j] \notin Contains[w]
<1> DEFINE S == Candidates(rows, w)
<1>1. S \in SUBSET Tasks
    BY DEF Candidates, Listed, Live
<1>2. CASE w = None \/ S = {}
    BY <1>2 DEF MatchWindow, NoMatch
<1>3. CASE w # None /\ S # {}
    <2>1. t = Oldest(rows, S) /\ MatchWindow(rows, w).keyword = FirstHit(rows[t].keywords, w)
        BY <1>3 DEF MatchWindow
    <2>2. t \in S /\ \A u \in S : rows[t].created <= rows[u].created
        BY <1>1, <1>3, <2>1, OldestType
    <2>3. t # None
        BY <1>1, <2>2, DomainAssumption
    <2> DEFINE kws == rows[t].keywords
    <2>4. kws \in Seq(Keywords) /\ Hits(kws, w) # {}
        BY <1>1, <2>2, KeywordsType DEF Candidates
    <2> DEFINE first == CHOOSE i \in Hits(kws, w) : \A j \in Hits(kws, w) : i <= j
    <2>5. first \in Hits(kws, w) /\ \A j \in Hits(kws, w) : first <= j
        <3>1. Hits(kws, w) \in SUBSET Nat
            BY <2>4 DEF Hits
        <3>2. PICK least \in Hits(kws, w) : \A j \in Hits(kws, w) : least <= j
            BY <2>4, <3>1, NatHasLeast
        <3> QED
            BY <3>2
    <2>6. first \in DOMAIN kws /\ kws[first] \in Contains[w] /\ FirstHit(kws, w) = kws[first]
        BY <2>5 DEF Hits, FirstHit
    <2>7. ASSUME NEW j \in DOMAIN kws, j < first PROVE kws[j] \notin Contains[w]
        <3>1. j \in Nat /\ first \in Nat
            BY <2>4, <2>6
        <3> HIDE DEF first
        <3> QED
            BY <2>5, <2>7, <3>1 DEF Hits
    <2> HIDE DEF first
    <2> QED
        BY <1>3, <2>1, <2>2, <2>3, <2>6, <2>7
<1> QED
    BY <1>2, <1>3
=============================================================================
