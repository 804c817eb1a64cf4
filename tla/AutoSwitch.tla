----------------------------- MODULE AutoSwitch -----------------------------
(* The decision a tick takes                                                 *)
(* (application/usecases/resolve_auto_switch.py), as pure operators over a   *)
(* listing of the task table, the focused window and the override.           *)
(*                                                                           *)
(* A window stands for its haystack (app, title and url, lower-cased), a     *)
(* keyword for a string; Contains says which keywords are substrings of      *)
(* which haystacks.                                                          *)
EXTENDS Domain

CONSTANTS Windows,        \* haystacks the focused window can have
          Contains        \* Contains[w]: the keywords that occur in w

ASSUME WindowAssumption ==
    /\ None \notin Windows
    /\ Contains \in [Windows -> SUBSET Keywords]

-----------------------------------------------------------------------------
(* _match_window *)
Hits(kws, w) == {i \in DOMAIN kws : kws[i] \in Contains[w]}

(* Bug: an archived task still competes.                                     *)
CandidatesArchivedToo(rows, w) == {t \in Live(rows) : Hits(rows[t].keywords, w) # {}}
Candidates(rows, w) == {t \in Listed(rows) : Hits(rows[t].keywords, w) # {}}

(* sorted(..., key=created_at): rows are created at distinct instants.       *)
Oldest(rows, S) == CHOOSE t \in S : \A u \in S : rows[t].created <= rows[u].created

FirstHit(kws, w) == kws[CHOOSE i \in Hits(kws, w) : \A j \in Hits(kws, w) : i <= j]

NoMatch == [task |-> None, keyword |-> None]

MatchWindow(rows, w) ==
    IF w = None \/ Candidates(rows, w) = {} THEN NoMatch
    ELSE LET t == Oldest(rows, Candidates(rows, w))
         IN [task |-> t, keyword |-> FirstHit(rows[t].keywords, w)]

(* compute_current_signals: OverrideSignals.window_keyword *)
Signals(w, rows) == MatchWindow(rows, w).keyword

-----------------------------------------------------------------------------
(* OverrideContext | None *)
Overrides == [held: BOOLEAN, keyword: Keywords \cup {None}]
NoOverride == [held |-> FALSE, keyword |-> None]
Override(kw) == [held |-> TRUE, keyword |-> kw]

(* NoOp | StartAuto | Stop.  Bug: StartAuto's arguments swapped.             *)
Decisions == [kind: {"noop", "start", "stop"}, task: Tasks \cup {None},
              keyword: Keywords \cup {None}]
NoOp == [kind |-> "noop", task |-> None, keyword |-> None]
Stop == [kind |-> "stop", task |-> None, keyword |-> None]
StartAutoSwapped(m) == [kind |-> "start", task |-> m.keyword, keyword |-> m.task]
StartAuto(m) == [kind |-> "start", task |-> m.task, keyword |-> m.keyword]

(* Bugs of resolve_auto_switch: no mode gate; no override check; any held    *)
(* override blocks; a task already running is started again.                 *)
ResolveInAnyMode(mode, running, w, rows, override, afk) ==
    LET match == MatchWindow(rows, w)
    IN IF override.held /\ match.keyword = override.keyword THEN NoOp
       ELSE IF match.task \in {None, running} THEN NoOp
       ELSE StartAuto(match)
ResolveWithoutOverride(mode, running, w, rows, override, afk) ==
    LET match == MatchWindow(rows, w)
    IN IF mode # "auto" \/ match.task \in {None, running} THEN NoOp
       ELSE StartAuto(match)
ResolveBlockedWhileHeld(mode, running, w, rows, override, afk) ==
    LET match == MatchWindow(rows, w)
    IN IF mode # "auto" \/ override.held \/ match.task \in {None, running} THEN NoOp
       ELSE StartAuto(match)
ResolveRestarting(mode, running, w, rows, override, afk) ==
    LET match == MatchWindow(rows, w)
    IN IF mode # "auto" THEN NoOp
       ELSE IF override.held /\ match.keyword = override.keyword THEN NoOp
       ELSE IF match.task = None THEN NoOp
       ELSE StartAuto(match)

(* resolve_auto_switch.  running is the task of the latest event (None if    *)
(* there is none or it is a stop); afk is whether an AfkSnapshot that says   *)
(* "afk" was passed.                                                         *)
ResolveAutoSwitch(mode, running, w, rows, override, afk) ==
    LET match == MatchWindow(rows, w)
    IN IF mode # "auto" THEN NoOp
       ELSE IF afk /\ running # None THEN Stop
       ELSE IF override.held /\ Signals(w, rows) = override.keyword THEN NoOp
       ELSE IF match.task = None \/ match.task = running THEN NoOp
       ELSE StartAuto(match)
=============================================================================
