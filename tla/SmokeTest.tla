------------------------------ MODULE SmokeTest -------------------------------
(***************************************************************************)
(* The FPL smoke test (server/src/fpl/smoke/runSmoke.js and                *)
(* scripts/fplSmoke.js): a fixed order of requests, each of which decides  *)
(* some of the assumptions about FPL's answers, and the exit code that     *)
(* sums them up.  What an answer contains is left open: of the checks it   *)
(* decides, one at most comes out other than PASS.                         *)
(*                                                                         *)
(* An answer is "good"; "broken", JSON that fails its schema; "unusable",  *)
(* broken so that there is nothing to look into; "refused", an HTTP error  *)
(* or no JSON; or "unreached", no network, blocked, or FPL updating.       *)
(***************************************************************************)
EXTENDS Integers, FiniteSets

CONSTANTS
  League,       \* --league, perhaps none: numbers
  Explicit,     \* --entry, perhaps none: numbers
  Sampled,      \* the members --league-members takes from a league
  MaxPages,     \* maxStandingsPages
  MaxTroubles   \* bound: answers and verdicts that are not as hoped

Answers == {"good", "broken", "unusable", "refused", "unreached"}
Ok(a) == a \in {"good", "broken", "unusable"}
Usable(a) == a \in {"good", "broken"}

\* A verdict that is about no league or entry in particular.
All == 0

BootChecks == {"B1", "B2", "B3", "B4", "B5", "B6", "B7"}
EntryChecks == {"E1", "H1", "H2", "P1", "P2", "P3", "P4", "P5", "T1", "T2", "T3"}
OnceChecks == {"E2", "H3", "P6"}

VARIABLES
  at,      \* the request that is next
  given,   \* --gw was given
  gw,      \* a gameweek is known
  next,    \* the bootstrap names a next event before its deadline
  todo,    \* [leagues, reading, pages, entries, left]: what to ask for, the league that
           \* is being read, 0 if none, and its pages
  seen,    \* [row, histories, picks]: the current entry's row, entries read
  log,     \* [verdicts, unreached, breaks, troubles] of the requests so far
  exit     \* the exit code, -1 while the test runs

known == <<given, gw, next>>
smokeVars == <<at, known, todo, seen, log, exit>>

Init ==
  /\ at = "bootstrap"
  /\ given \in BOOLEAN /\ gw = given /\ next = FALSE
  /\ todo = [leagues |-> League, reading |-> 0, pages |-> 0, entries |-> Explicit, left |-> {}]
  /\ seen = [row |-> FALSE, histories |-> {}, picks |-> {}]
  /\ log = [verdicts |-> {}, unreached |-> FALSE, breaks |-> FALSE, troubles |-> 0]
  /\ exit = -1

-----------------------------------------------------------------------------
\* check(): verdicts that are appended to the run.
Verdicts(checks, of, status) == {[id |-> c, of |-> of, status |-> status] : c \in checks}

\* The log after a request with this answer, and these verdicts from it.
Logged(a, found, odd) ==
  [verdicts |-> log.verdicts \cup found,
   unreached |-> log.unreached \/ a = "unreached",
   breaks |-> log.breaks \/ (Ok(a) /\ a # "good"),
   troubles |-> log.troubles + odd + (IF a = "good" THEN 0 ELSE 1)]

\* What an answer that can be looked into makes of its checks: PASS, but for
\* one of them at most.
Looked(a, checks, of, also) ==
  {Logged(a, Verdicts(checks, of, "PASS") \cup also, 0)}
    \cup {Logged(a, Verdicts(checks \ {c}, of, "PASS") \cup Verdicts({c}, of, status) \cup also, 1) :
            c \in checks, status \in {"FAIL", "UNVERIFIED"}}

\* One request: the checks it decides if it can be looked into, else those that
\* are recorded as UNVERIFIED for it.
Request(a, checks, unanswered, of) ==
  /\ log' \in IF Usable(a) THEN Looked(a, checks, of, {})
              ELSE {Logged(a, Verdicts(unanswered, of, "UNVERIFIED"), 0)}
  /\ log'.troubles <= MaxTroubles
  /\ exit' = exit

\* Verdicts without a request.
Recorded(found) ==
  log' = [log EXCEPT !.verdicts = @ \cup found] /\ exit' = exit

-----------------------------------------------------------------------------
\* The bootstrap names the gameweek to look at, unless --gw did.  (Any JSON can
\* be looked into here, in the event status and in an entry's profile.)
Bootstrap(a) ==
  /\ at = "bootstrap" /\ at' = "fixtures" /\ a # "unusable"
  /\ Request(a, BootChecks, BootChecks, All)
  /\ \E current, deadline \in BOOLEAN :
       /\ Ok(a) \/ ~(current \/ deadline)
       /\ gw' = (given \/ current) /\ next' = deadline
  /\ UNCHANGED <<given, todo, seen>>

Fixtures(a) ==
  /\ at = "fixtures" /\ at' = "gw fixtures"
  /\ Request(a, {"F1", "F2"}, {"F1", "F2"}, All)
  /\ UNCHANGED <<known, todo, seen>>

GwFixtures(a) ==
  /\ at = "gw fixtures" /\ at' = "event status"
  /\ IF gw THEN Request(a, {"F3"}, {"F3"}, All)
     ELSE a = "good" /\ Recorded(Verdicts({"F3"}, All, "UNVERIFIED"))
  /\ UNCHANGED <<known, todo, seen>>

EventStatus(a) ==
  /\ at = "event status" /\ at' = "leagues" /\ a # "unusable"
  /\ Request(a, {"S1", "S2"}, {"S1", "S2"}, All)
  /\ UNCHANGED <<known, todo, seen>>

-----------------------------------------------------------------------------
\* The first page classifies the access; only a league that can be read and has
\* members is looked at further.
OpenLeague(l, a) ==
  /\ at = "leagues" /\ l \in todo.leagues /\ Usable(a) /\ at' = "pages"
  /\ log' \in Looked(a, {"L2"}, l, Verdicts({"L1"}, l, "PASS"))
  /\ log'.troubles <= MaxTroubles
  /\ todo' = [todo EXCEPT !.leagues = @ \ {l}, !.reading = l, !.pages = 1]
  /\ UNCHANGED <<known, seen, exit>>

\* No access, or an empty league: FAIL, unless FPL was not reached.
LeagueClosed(l, a) ==
  /\ at = "leagues" /\ l \in todo.leagues /\ log.troubles < MaxTroubles
  /\ log' = [Logged(a, Verdicts({"L1"}, l, IF a = "unreached" THEN "UNVERIFIED" ELSE "FAIL"), 0)
               EXCEPT !.troubles = log.troubles + 1]
  /\ todo' = [todo EXCEPT !.leagues = @ \ {l}]
  /\ UNCHANGED <<at, known, seen, exit>>

\* has_next: the loop over the pages ends at the first that is not OK.
StandingsPage(a) ==
  /\ at = "pages" /\ todo.pages < MaxPages
  /\ Request(a, {}, {}, All)
  /\ at' = IF Ok(a) THEN "pages" ELSE "last page"
  /\ todo' = IF Ok(a) THEN [todo EXCEPT !.pages = @ + 1] ELSE todo
  /\ UNCHANGED <<known, seen>>

\* Its members are sampled; a single page shows nothing of the pagination.
LeagueRead ==
  /\ at \in {"pages", "last page"} /\ at' = "leagues"
  /\ \E status \in IF todo.pages > 1 THEN {"PASS", "FAIL"} ELSE {"UNVERIFIED"} :
       Recorded(Verdicts({"L3"}, todo.reading, status))
  /\ todo' = [todo EXCEPT !.entries = @ \cup Sampled, !.reading = 0]
  /\ UNCHANGED <<known, seen>>

LeaguesDone ==
  /\ at = "leagues" /\ todo.leagues = {}
  /\ at' = IF todo.entries = {} THEN "semantics" ELSE "entry"
  /\ Recorded((IF League = {} THEN Verdicts({"L1", "L2", "L3"}, All, "UNVERIFIED") ELSE {})
              \cup (IF todo.entries = {}
                    THEN Verdicts(EntryChecks \cup OnceChecks, All, "UNVERIFIED") ELSE {}))
  /\ todo' = [todo EXCEPT !.left = todo.entries]
  /\ UNCHANGED <<known, seen>>

-----------------------------------------------------------------------------
\* The entries one after the other, each with four requests.
Turn(e) == e \in todo.left /\ \A o \in todo.left : e <= o

Entry(e, a) ==
  /\ at = "entry" /\ Turn(e) /\ at' = "history" /\ a # "unusable"
  /\ Request(a, {"E1"}, {"E1"}, e)
  /\ UNCHANGED <<known, todo, seen>>

History(e, a) ==
  /\ at = "history" /\ Turn(e) /\ at' = IF gw THEN "picks" ELSE "transfers"
  /\ Request(a, {"H1", "H2"}, {"H1"}, e)
  /\ \E played \in BOOLEAN :
       seen' = [seen EXCEPT !.row = Usable(a) /\ played,
                            !.histories = IF Usable(a) THEN @ \cup {e} ELSE @]
  /\ UNCHANGED <<known, todo>>

\* A plausible bug: picks that could not be read are not reported.
PicksUnreported(e, a) ==
  /\ at = "picks" /\ Turn(e) /\ at' = "transfers"
  /\ log' \in IF Usable(a) THEN Looked(a, {"P1", "P2", "P3", "P4"}, e, {})
              ELSE {Logged(a, {}, 0)}
  /\ log'.troubles <= MaxTroubles
  /\ seen' = [seen EXCEPT !.picks = IF Usable(a) THEN @ \cup {e} ELSE @]
  /\ UNCHANGED <<known, todo, exit>>

\* P4 compares the picks with the history's row of the gameweek, if there is one.
Picks(e, a) ==
  /\ at = "picks" /\ Turn(e) /\ at' = "transfers"
  /\ log' \in IF Usable(a)
              THEN IF seen.row THEN Looked(a, {"P1", "P2", "P3", "P4"}, e, {})
                   ELSE Looked(a, {"P1", "P2", "P3"}, e, Verdicts({"P4"}, e, "UNVERIFIED"))
              ELSE {Logged(a, Verdicts({"P1"}, e, "UNVERIFIED"), 0)}
  /\ log'.troubles <= MaxTroubles
  /\ seen' = [seen EXCEPT !.picks = IF Usable(a) THEN @ \cup {e} ELSE @]
  /\ UNCHANGED <<known, todo, exit>>

Transfers(e, a) ==
  /\ at = "transfers" /\ Turn(e)
  /\ Request(a, {"T1", "T2", "T3"}, {"T1"}, e)
  /\ todo' = [todo EXCEPT !.left = @ \ {e}]
  /\ at' = IF todo'.left = {} THEN "semantics" ELSE "entry"
  /\ UNCHANGED <<known, seen>>

-----------------------------------------------------------------------------
\* H3 is about all the histories that could be read; none, no verdict.
SeasonSemantics ==
  /\ at = "semantics" /\ at' = "next picks"
  /\ \E status \in {"PASS", "FAIL", "UNVERIFIED"} :
       Recorded(IF seen.histories = {} THEN {} ELSE Verdicts({"H3"}, All, status))
  /\ UNCHANGED <<known, todo, seen>>

\* The first entry's picks of the next gameweek: any answer of FPL's will do.
NextPicks(a) ==
  /\ at = "next picks" /\ at' = "live"
  /\ IF todo.entries # {} /\ next
     THEN log' = Logged(a, Verdicts({"P6"}, All, IF a = "unreached" THEN "UNVERIFIED"
                                                   ELSE "PASS"), 0)
          /\ log'.troubles <= MaxTroubles /\ exit' = exit
     ELSE a = "good" /\ Recorded(IF todo.entries = {} THEN {}
                                 ELSE Verdicts({"P6"}, All, "UNVERIFIED"))
  /\ UNCHANGED <<known, todo, seen>>

\* The live points, against every squad that was read (P5).
Live(a) ==
  /\ at = "live" /\ at' = "nonexistent"
  /\ IF gw
     THEN /\ log' \in IF Usable(a)
                      THEN UNION {Looked(a, {"V1", "V2"}, All,
                                         UNION {Verdicts({"P5"}, e, IF e = off THEN "FAIL" ELSE "PASS") :
                                                  e \in seen.picks}) : off \in seen.picks \cup {0}}
                      ELSE {Logged(a, Verdicts({"V1"}, All, "UNVERIFIED"), 0)}
          /\ log'.troubles <= MaxTroubles /\ exit' = exit
     ELSE a = "good" /\ Recorded(Verdicts({"V1"}, All, "UNVERIFIED"))
  /\ UNCHANGED <<known, todo, seen>>

\* An entry that does not exist: a 404 is what is hoped for, and no other refusal.
Nonexistent(a) ==
  /\ at = "nonexistent" /\ at' = "verdict"
  /\ \E status \in CASE a = "unreached" -> {"UNVERIFIED"}
                      [] a = "refused" -> {"PASS", "FAIL"}
                      [] OTHER -> {"FAIL"} :
       log' = Logged(a, Verdicts({"E2"}, All, status), 0)
  /\ log'.troubles <= MaxTroubles + 1
  /\ UNCHANGED <<known, todo, seen, exit>>

\* A plausible bug: an UNVERIFIED check is no reason to fail.
CodeOfFailures ==
  CASE log.unreached -> 3
    [] ~log.unreached /\ log.breaks -> 1
    [] OTHER -> IF \E v \in log.verdicts : v.status = "FAIL" THEN 2 ELSE 0

\* verdict: unreachable before broken before undecided.
ExitCode ==
  CASE log.unreached -> 3
    [] ~log.unreached /\ log.breaks -> 1
    [] OTHER -> IF \E v \in log.verdicts : v.status # "PASS" THEN 2 ELSE 0

\* The report is written, unless a sample still has identifying data in it.
Publish ==
  /\ at = "verdict" /\ at' = "done"
  /\ exit' \in {ExitCode, 1}
  /\ UNCHANGED <<known, todo, seen, log>>

\* An answer is cut off while its body is read, or has a shape that a check does
\* not expect: the process ends on the uncaught error.
Throw ==
  /\ at \notin {"verdict", "done"}
  /\ at' = "done" /\ exit' = 1
  /\ UNCHANGED <<known, todo, seen, log>>

Next ==
  \/ \E a \in Answers :
       \/ Bootstrap(a) \/ Fixtures(a) \/ GwFixtures(a) \/ EventStatus(a)
       \/ \E l \in League : OpenLeague(l, a) \/ LeagueClosed(l, a)
       \/ StandingsPage(a)
       \/ \E e \in todo.left : Entry(e, a) \/ History(e, a) \/ Picks(e, a) \/ Transfers(e, a)
       \/ NextPicks(a) \/ Live(a) \/ Nonexistent(a)
  \/ LeagueRead \/ LeaguesDone \/ SeasonSemantics \/ Publish \/ Throw

Spec == Init /\ [][Next]_smokeVars

-----------------------------------------------------------------------------
\* Exit code 0 decides every assumption ("every assumption must be decided
\* before M2"): no check of any league, of any sampled entry or of the season
\* is missing from the run, whichever requests failed on the way, and none came
\* out other than PASS.  Code 3 is left for a run that did not reach FPL.
PassDecidesAll ==
  /\ exit = 0 =>
       /\ \A v \in log.verdicts : v.status = "PASS"
       /\ \A c \in BootChecks \cup OnceChecks \cup {"F1", "F2", "F3", "S1", "S2", "V1", "V2"} :
            \E v \in log.verdicts : v.id = c
       /\ \A l \in League : \A c \in {"L1", "L2", "L3"} : \E v \in log.verdicts : v.id = c /\ v.of = l
       /\ League # {} /\ todo.entries # {}
       /\ \A e \in todo.entries : \A c \in EntryChecks : \E v \in log.verdicts : v.id = c /\ v.of = e
       /\ ~log.unreached /\ ~log.breaks
  /\ exit = 3 => log.unreached
=============================================================================
