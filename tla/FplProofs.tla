------------------------------ MODULE FplProofs ------------------------------
(***************************************************************************)
(* Two programs that ask FPL.  FplRequests: the breaker for any number of  *)
(* calls and any thresholds, its types, the single probe, and the failure  *)
(* count of a closed circuit.  SmokeTest (here Smoke): exit code 0 decides *)
(* every assumption, for any leagues, entries and answers.                 *)
(***************************************************************************)
EXTENDS FplRequests, Integers, TLAPS

CONSTANTS League, Explicit, Sampled, MaxPages, MaxTroubles
VARIABLES at, given, gw, next, todo, seen, log, exit

Smoke == INSTANCE SmokeTest

-----------------------------------------------------------------------------
(* FplRequests.                                                            *)

\* Only an attempt that is under way can be the probe: an attempt that begins
\* does not find the mark of an earlier one.
ProbeUnderWay == \A c \in Call : probe[c] => status[c] \in {"queued", "sent"}

\* A call that may begin an attempt has one left.
AttemptLeft ==
  \A c \in Call : status[c] \in {"idle", "backoff"} => attempt[c] < MaxAttempts

IInv ==
  /\ TypeOK
  /\ AttemptLeft
  /\ ProbeUnderWay
  /\ SingleProbe
  /\ ClosedBelowThreshold

-----------------------------------------------------------------------------
LEMMA InitIInv == Init => IInv
<1> SUFFICES ASSUME Init PROVE IInv
  OBVIOUS
<1> USE RequestsAssumption DEF Init
<1>1. TypeOK
  <2>1. queue \in Seq(Call) /\ probe \in [Call -> BOOLEAN]
    OBVIOUS
  <2>2. attempt \in [Call -> 0..MaxAttempts]
    OBVIOUS
  <2>3. status \in [Call -> {"idle", "queued", "sent", "backoff"}]
    OBVIOUS
  <2>4. failures \in 0..Threshold /\ openFor \in 0..ResetTimeout /\ tokens \in 0..Capacity
    OBVIOUS
  <2>5. QED
    <3> HIDE DEF Init
    <3>1. circuit \in {"closed", "open", "half_open"} /\ probeInFlight \in BOOLEAN
      BY DEF Init
    <3>2. QED
      BY <2>1, <2>2, <2>3, <2>4, <3>1 DEF TypeOK
<1>2. AttemptLeft /\ ProbeUnderWay /\ SingleProbe /\ ClosedBelowThreshold
  BY DEF AttemptLeft, ProbeUnderWay, SingleProbe, ClosedBelowThreshold
<1>3. QED
  BY <1>1, <1>2 DEF IInv

\* The retry loop keeps the attempt within maxAttempts.
LEMMA RetryTyped ==
  ASSUME TypeOK, NEW c \in Call, Retry(c) \/ Settle(c)
  PROVE  /\ attempt' \in [Call -> 0..MaxAttempts]
         /\ status' \in [Call -> {"idle", "queued", "sent", "backoff"}]
         /\ \A d \in Call : d # c => status'[d] = status[d]
         /\ AttemptLeft => AttemptLeft'
<1> USE RequestsAssumption DEF TypeOK
<1>1. CASE Settle(c)
  BY <1>1 DEF Settle, AttemptLeft
<1>2. CASE /\ attempt[c] < MaxAttempts
           /\ status' = [status EXCEPT ![c] = "backoff"]
           /\ UNCHANGED attempt
  BY <1>2 DEF AttemptLeft
<1>3. QED
  BY <1>1, <1>2 DEF Retry

\* An attempt that settles takes its mark away and no one else's.
LEMMA EndProbeKeeps ==
  ASSUME TypeOK, SingleProbe, ProbeUnderWay, NEW c \in Call, EndProbe(c),
         \A d \in Call : d # c => status'[d] = status[d]
  PROVE  /\ probe' \in [Call -> BOOLEAN]
         /\ probeInFlight' \in BOOLEAN
         /\ SingleProbe'
         /\ ProbeUnderWay'
<1>1. /\ probe' \in [Call -> BOOLEAN]
      /\ \A d \in Call : probe'[d] = (d # c /\ probe[d])
      /\ probeInFlight' = (probeInFlight /\ ~probe[c])
  BY DEF EndProbe, TypeOK
<1>2. QED
  BY <1>1 DEF TypeOK, SingleProbe, ProbeUnderWay

LEMMA StepKeepsIInv == IInv /\ [Next]_vars => IInv'
<1> SUFFICES ASSUME IInv, [Next]_vars
             PROVE  IInv'
  OBVIOUS
<1> USE RequestsAssumption DEF IInv, breaker, limiter
<1>1. ASSUME NEW c \in Call, Reject(c)
      PROVE  IInv'
  <2>1. TypeOK'
    BY <1>1, RetryTyped DEF Reject, State, TypeOK
  <2>2. ProbeUnderWay'
    BY <1>1 DEF Reject, Settle, ProbeUnderWay, TypeOK
  <2>3. AttemptLeft' /\ SingleProbe' /\ ClosedBelowThreshold'
    BY <1>1, RetryTyped DEF Reject, State, SingleProbe, ClosedBelowThreshold
  <2>4. QED
    BY <2>1, <2>2, <2>3
<1>2. ASSUME NEW c \in Call, Admit(c)
      PROVE  IInv'
  <2>1. /\ circuit' = State
        /\ probe' = [probe EXCEPT ![c] = State = "half_open"]
        /\ probeInFlight' = (probeInFlight \/ State = "half_open")
        /\ status' = [status EXCEPT ![c] = "queued"]
        /\ status[c] \in {"idle", "backoff"}
        /\ State = "half_open" => ~probeInFlight
    BY <1>2 DEF Admit, Rejects
  <2>2. State \in {"closed", "open", "half_open"} /\ (State = "closed" <=> circuit = "closed")
    BY DEF State, TypeOK
  <2>3. ~probe[c]
    BY <2>1 DEF ProbeUnderWay
  <2>4. /\ probe' \in [Call -> BOOLEAN]
        /\ \A d \in Call : probe'[d] = IF d = c THEN State = "half_open" ELSE probe[d]
    BY <2>1 DEF TypeOK
  <2>5. TypeOK'
    <3>1. queue' \in Seq(Call)
      BY <1>2 DEF Admit, TypeOK
    <3>2. attempt' \in [Call -> 0..MaxAttempts]
      <4>1. attempt[c] + 1 \in 0..MaxAttempts
        BY <2>1 DEF AttemptLeft, TypeOK
      <4>2. QED
        BY <1>2, <4>1 DEF Admit, NextAttempt, TypeOK
    <3>3. QED
      BY <1>2, <2>1, <2>2, <2>4, <3>1, <3>2 DEF Admit, TypeOK
  <2>6. ProbeUnderWay'
    BY <2>1, <2>4 DEF ProbeUnderWay, TypeOK
  <2>7. AttemptLeft'
    BY <1>2, <2>1 DEF Admit, AttemptLeft, TypeOK
  <2>8. SingleProbe'
    BY <2>1, <2>3, <2>4 DEF SingleProbe, TypeOK
  <2>9. ClosedBelowThreshold'
    BY <1>2, <2>1, <2>2 DEF Admit, ClosedBelowThreshold
  <2>10. QED
    BY <2>5, <2>6, <2>7, <2>8, <2>9
<1>3. ASSUME NEW c \in Call, Start(c)
      PROVE  IInv'
  <2>1. TypeOK'
    BY <1>3 DEF Start, TokenLeft, TypeOK
  <2>2. QED
    BY <1>3, <2>1 DEF Start, TypeOK, AttemptLeft, ProbeUnderWay, SingleProbe, ClosedBelowThreshold
<1>4. ASSUME NEW c \in Call, Succeed(c) \/ FailOther(c)
      PROVE  IInv'
  <2>1. EndProbe(c) /\ Settle(c) /\ UNCHANGED limiter
    BY <1>4 DEF Succeed, FailOther
  <2>2. /\ circuit' \in {"closed", "open", "half_open"}
        /\ failures' \in 0..Threshold
        /\ openFor' = openFor
        /\ ClosedBelowThreshold'
    BY <1>4 DEF Succeed, FailOther, Close, TypeOK, ClosedBelowThreshold
  <2>3. QED
    BY <2>1, <2>2, RetryTyped, EndProbeKeeps DEF TypeOK
<1>5. ASSUME NEW c \in Call, FailUpstream(c)
      PROVE  IInv'
  <2>1. EndProbe(c) /\ Retry(c) /\ UNCHANGED limiter
    BY <1>5 DEF FailUpstream
  <2>2. failures' \in 0..Threshold
    BY <1>5 DEF FailUpstream, CountFailure, TypeOK
  <2>3. /\ circuit' \in {"closed", "open", "half_open"}
        /\ openFor' \in 0..ResetTimeout
        /\ ClosedBelowThreshold'
    BY <1>5 DEF FailUpstream, Open, TypeOK, ClosedBelowThreshold
  <2>4. QED
    BY <2>1, <2>2, <2>3, RetryTyped, EndProbeKeeps DEF TypeOK
<1>6. CASE Tick
  <2>1. TypeOK'
    BY <1>6 DEF Tick, TypeOK
  <2>2. QED
    BY <1>6, <2>1 DEF Tick, AttemptLeft, ProbeUnderWay, SingleProbe, ClosedBelowThreshold
<1>7. CASE UNCHANGED vars
  BY <1>7 DEF vars, TypeOK, AttemptLeft, ProbeUnderWay, SingleProbe, ClosedBelowThreshold
<1>8. QED
  BY <1>1, <1>2, <1>3, <1>4, <1>5, <1>6, <1>7 DEF Next

LEMMA Invariance == Spec => []IInv
BY InitIInv, StepKeepsIInv, PTL DEF Spec

-----------------------------------------------------------------------------
\* The breaker's and the limiter's fields keep their types, the retry loop its
\* bound on attempts (circuitBreaker.js, retry.js).
THEOREM RequestsTyped == Spec => []TypeOK
BY Invariance, PTL DEF IInv

\* A half-open circuit lets one probe through, for any number of calls and any
\* order in which earlier attempts settle (circuitBreaker.js execute).
THEOREM OneProbe == Spec => []SingleProbe
BY Invariance, PTL DEF IInv

\* A closed circuit never carries a count that one more failure should already
\* have turned into an open one (circuitBreaker.js #transition).
THEOREM ClosedCount == Spec => []ClosedBelowThreshold
BY Invariance, PTL DEF IInv

-----------------------------------------------------------------------------
(* SmokeTest.                                                              *)

\* Each of these checks has a verdict about x.
Filed(verdicts, checks, x) == \A c \in checks : \E v \in verdicts : v.id = c /\ v.of = x

\* Nothing that the exit code would report.
Clean(l) == (\A v \in l.verdicts : v.status = "PASS") /\ ~l.unreached /\ ~l.breaks

\* Nothing that was logged is forgotten.
Grows(l, m) ==
  /\ l.verdicts \subseteq m.verdicts
  /\ Clean(m) => Clean(l)
  /\ m = [verdicts |-> m.verdicts, unreached |-> m.unreached, breaks |-> m.breaks, troubles |-> m.troubles]

\* The requests after the leagues, and those after the entries.
AfterEntries == {"semantics", "next picks", "live", "nonexistent", "verdict"}
AfterLeagues == {"entry", "history", "picks", "transfers"} \cup AfterEntries
AfterStatus == {"leagues", "pages", "last page"} \cup AfterLeagues
AfterBoot == {"fixtures", "gw fixtures", "event status"} \cup AfterStatus

\* What an entry's own requests decide; P5 needs the live points.
OwnChecks == Smoke!EntryChecks \ {"P5"}
Asked(e) ==
  /\ Filed(log.verdicts, OwnChecks, e)
  /\ e \in seen.histories /\ e \in seen.picks

\* The shapes the argument needs.
SmokeFormed ==
  /\ at \in {"bootstrap", "done"} \cup AfterBoot
  /\ gw \in BOOLEAN
  /\ log = [verdicts |-> log.verdicts, unreached |-> log.unreached, breaks |-> log.breaks, troubles |-> log.troubles]
  /\ todo = [leagues |-> todo.leagues, reading |-> todo.reading, pages |-> todo.pages,
             entries |-> todo.entries, left |-> todo.left]
  /\ seen = [row |-> seen.row, histories |-> seen.histories, picks |-> seen.picks]
  /\ todo.leagues \subseteq League /\ todo.entries \subseteq Int /\ todo.left \subseteq todo.entries
  /\ at # "done" => exit = -1

\* The league whose pages are being read: L3 is decided after them.
Pending == IF at \in {"pages", "last page"} THEN {todo.reading} ELSE {}

\* As long as the log is clean, what was asked so far is decided.
General ==
  /\ at \in AfterBoot => Filed(log.verdicts, Smoke!BootChecks, 0)
  /\ at \in AfterBoot \ {"fixtures"} => Filed(log.verdicts, {"F1", "F2"}, 0)
  /\ at \in AfterBoot \ {"fixtures", "gw fixtures"} => gw /\ Filed(log.verdicts, {"F3"}, 0)
  /\ at \in AfterStatus => Filed(log.verdicts, {"S1", "S2"}, 0)
Leagues ==
  /\ \A l \in League \ todo.leagues : Filed(log.verdicts, {"L1", "L2"}, l)
  /\ at \in {"bootstrap", "fixtures", "gw fixtures", "event status"} => todo.leagues = League
  /\ \A l \in League \ (todo.leagues \cup Pending) : Filed(log.verdicts, {"L3"}, l)
  /\ at \in AfterLeagues => todo.leagues = {} /\ League # {} /\ todo.entries # {}
Entries ==
  /\ at \in AfterLeagues => \A e \in todo.entries \ todo.left : Asked(e)
  /\ at \in AfterEntries => todo.left = {}
  /\ \A e \in todo.left : Smoke!Turn(e) =>
       /\ at \in {"history", "picks", "transfers"} => Filed(log.verdicts, {"E1"}, e)
       /\ at \in {"picks", "transfers"} => Filed(log.verdicts, {"H1", "H2"}, e) /\ e \in seen.histories
       /\ at = "transfers" => Filed(log.verdicts, {"P1", "P2", "P3", "P4"}, e) /\ e \in seen.picks
Finally ==
  /\ at \in AfterEntries \ {"semantics"} => Filed(log.verdicts, {"H3"}, 0)
  /\ at \in {"live", "nonexistent", "verdict"} => Filed(log.verdicts, {"P6"}, 0)
  /\ at \in {"nonexistent", "verdict"} =>
       /\ Filed(log.verdicts, {"V1", "V2"}, 0)
       /\ \A e \in todo.entries : Filed(log.verdicts, {"P5"}, e)
  /\ at = "verdict" => Filed(log.verdicts, {"E2"}, 0)

\* The inductive invariant.
SmokeIInv ==
  /\ SmokeFormed
  /\ Clean(log) /\ at # "done" => General /\ Leagues /\ Entries /\ Finally
  /\ Smoke!PassDecidesAll

\* A verdict that is filed stays filed.
LEMMA FiledStays ==
  ASSUME NEW l, NEW m, Grows(l, m), NEW checks, NEW x, Filed(l.verdicts, checks, x)
  PROVE  Filed(m.verdicts, checks, x)
BY DEF Grows, Filed

\* Verdicts other than PASS do not leave the log clean.
LEMMA BadVerdicts ==
  ASSUME NEW checks, checks # {}, NEW x, NEW outcome, outcome # "PASS",
         NEW m, Smoke!Verdicts(checks, x, outcome) \subseteq m.verdicts
  PROVE  ~Clean(m)
<1>1. PICK c \in checks : TRUE
  OBVIOUS
<1> DEFINE bad == [id |-> c, of |-> x, status |-> outcome]
<1>2. bad \in m.verdicts /\ bad.status = outcome
  BY DEF Smoke!Verdicts
<1> QED BY <1>2 DEF Clean

\* Verdicts that are in the log are filed.
LEMMA VerdictsFiled ==
  ASSUME NEW checks, NEW x, NEW outcome, NEW verdicts,
         Smoke!Verdicts(checks, x, outcome) \subseteq verdicts
  PROVE  Filed(verdicts, checks, x)
<1> SUFFICES ASSUME NEW c \in checks PROVE \E v \in verdicts : v.id = c /\ v.of = x
  BY DEF Filed
<1> DEFINE v == [id |-> c, of |-> x, status |-> outcome]
<1>1. v \in verdicts /\ v.id = c /\ v.of = x
  BY DEF Smoke!Verdicts
<1> QED BY <1>1

\* What a request that can be looked into does to the log.
LEMMA LookedFiles ==
  ASSUME NEW a, NEW checks, NEW x, NEW also, NEW m, m \in Smoke!Looked(a, checks, x, also)
  PROVE  /\ Grows(log, m)
         /\ Clean(m) => Filed(m.verdicts, checks, x) /\ also \subseteq m.verdicts
<1> DEFINE all == Smoke!Logged(a, Smoke!Verdicts(checks, x, "PASS") \cup also, 0)
           but(c, outcome) ==
             Smoke!Logged(a, Smoke!Verdicts(checks \ {c}, x, "PASS")
                               \cup Smoke!Verdicts({c}, x, outcome) \cup also, 1)
<1>1. Smoke!Looked(a, checks, x, also) =
        {all} \cup {but(c, outcome) : c \in checks, outcome \in {"FAIL", "UNVERIFIED"}}
  BY DEF Smoke!Looked
<1>2. m = all \/ \E c \in checks, outcome \in {"FAIL", "UNVERIFIED"} : m = but(c, outcome)
  <2> HIDE DEF all, but
  <2>1. m \in {all} \cup {but(c, outcome) : c \in checks, outcome \in {"FAIL", "UNVERIFIED"}}
    BY <1>1
  <2> QED BY <2>1
<1>3. CASE m = all
  <2> DEFINE pass == Smoke!Verdicts(checks, x, "PASS") \cup also
  <2>1. /\ m = [verdicts |-> m.verdicts, unreached |-> m.unreached, breaks |-> m.breaks, troubles |-> m.troubles]
        /\ m.verdicts = log.verdicts \cup pass
        /\ log.unreached => m.unreached
        /\ log.breaks => m.breaks
    BY <1>3 DEF Smoke!Logged
  <2>2. Grows(log, m)
    BY <2>1 DEF Grows, Clean
  <2>3. Smoke!Verdicts(checks, x, "PASS") \subseteq m.verdicts /\ also \subseteq m.verdicts
    BY <2>1
  <2> QED BY <2>2, <2>3, VerdictsFiled
<1>4. ASSUME NEW c \in checks, NEW outcome \in {"FAIL", "UNVERIFIED"}, m = but(c, outcome)
      PROVE  Grows(log, m) /\ ~Clean(m)
  <2> DEFINE found == Smoke!Verdicts(checks \ {c}, x, "PASS") \cup Smoke!Verdicts({c}, x, outcome) \cup also
  <2>1. /\ m = [verdicts |-> m.verdicts, unreached |-> m.unreached, breaks |-> m.breaks, troubles |-> m.troubles]
        /\ m.verdicts = log.verdicts \cup found
        /\ log.unreached => m.unreached
        /\ log.breaks => m.breaks
    BY <1>4 DEF Smoke!Logged
  <2>2. Grows(log, m)
    BY <2>1 DEF Grows, Clean
  <2>3. Smoke!Verdicts({c}, x, outcome) \subseteq m.verdicts /\ {c} # {} /\ outcome # "PASS"
    BY <2>1
  <2> QED BY <2>2, <2>3, BadVerdicts
<1> HIDE DEF all, but
<1> QED BY <1>2, <1>3, <1>4

\* What is recorded of a request that cannot be looked into.
LEMMA LoggedGrows ==
  ASSUME NEW a, NEW found, NEW odd, NEW m, m = Smoke!Logged(a, found, odd)
  PROVE  /\ Grows(log, m) /\ found \subseteq m.verdicts
         /\ Clean(m) => a # "unreached" /\ (\A v \in found : v.status = "PASS")
<1>1. /\ m = [verdicts |-> m.verdicts, unreached |-> m.unreached, breaks |-> m.breaks, troubles |-> m.troubles]
      /\ m.verdicts = log.verdicts \cup found
      /\ m.unreached <=> (log.unreached \/ a = "unreached")
      /\ log.breaks => m.breaks
  BY DEF Smoke!Logged
<1> QED BY <1>1 DEF Grows, Clean

\* A request leaves the log clean only if it could be looked into and decided
\* its checks.
LEMMA RequestFiles ==
  ASSUME NEW a, NEW checks, NEW unanswered, NEW x, Smoke!Request(a, checks, unanswered, x)
  PROVE  /\ Grows(log, log') /\ exit' = exit
         /\ unanswered # {} /\ Clean(log') => Smoke!Usable(a) /\ Filed(log'.verdicts, checks, x)
<1>1. exit' = exit
  BY DEF Smoke!Request
<1>2. CASE Smoke!Usable(a)
  <2>1. log' \in Smoke!Looked(a, checks, x, {})
    BY <1>2 DEF Smoke!Request
  <2> QED BY <1>1, <1>2, <2>1, LookedFiles
<1>3. CASE ~Smoke!Usable(a)
  <2>1. log' = Smoke!Logged(a, Smoke!Verdicts(unanswered, x, "UNVERIFIED"), 0)
    BY <1>3 DEF Smoke!Request
  <2>2. Grows(log, log') /\ Smoke!Verdicts(unanswered, x, "UNVERIFIED") \subseteq log'.verdicts
    BY <2>1, LoggedGrows
  <2>3. unanswered # {} => ~Clean(log')
    BY <2>2, BadVerdicts
  <2> QED BY <1>1, <2>2, <2>3
<1> QED BY <1>2, <1>3

\* Verdicts without a request.
LEMMA RecordedFiles ==
  ASSUME SmokeFormed, NEW found, Smoke!Recorded(found)
  PROVE  /\ Grows(log, log') /\ exit' = exit
         /\ found \subseteq log'.verdicts
<1>1. exit' = exit /\ log' = [log EXCEPT !.verdicts = log.verdicts \cup found]
  BY DEF Smoke!Recorded
<1>2. log' = [verdicts |-> log.verdicts \cup found, unreached |-> log.unreached,
              breaks |-> log.breaks, troubles |-> log.troubles]
  BY <1>1 DEF SmokeFormed
<1> QED BY <1>1, <1>2 DEF Grows, Clean

\* A step that only adds to the log keeps what was decided.
LEMMA StepKeeps ==
  ASSUME SmokeIInv, Grows(log, log'), Clean(log'), at # "done"
  PROVE  /\ General /\ Leagues /\ Entries /\ Finally
         /\ \A checks, x : Filed(log.verdicts, checks, x) => Filed(log'.verdicts, checks, x)
<1>1. Clean(log)
  BY DEF Grows
<1> QED BY <1>1, FiledStays DEF SmokeIInv

\* What todo and seen are made of.
Shaped ==
  /\ todo = [leagues |-> todo.leagues, reading |-> todo.reading, pages |-> todo.pages,
             entries |-> todo.entries, left |-> todo.left]
  /\ seen = [row |-> seen.row, histories |-> seen.histories, picks |-> seen.picks]
  /\ todo.leagues \subseteq League /\ todo.entries \subseteq Int /\ todo.left \subseteq todo.entries

\* As long as the test runs there is no exit code to justify.
LEMMA StepIInv ==
  ASSUME SmokeIInv, at # "done", at' \in AfterBoot, Grows(log, log'), exit' = exit,
         gw' \in BOOLEAN, Shaped',
         Clean(log') => General' /\ Leagues' /\ Entries' /\ Finally'
  PROVE  SmokeIInv'
<1>1. exit' = -1
  BY DEF SmokeIInv, SmokeFormed
<1>2. SmokeFormed'
  BY <1>1 DEF SmokeIInv, SmokeFormed, Grows, Shaped
<1>3. Smoke!PassDecidesAll'
  BY <1>1 DEF Smoke!PassDecidesAll
<1> QED BY <1>2, <1>3 DEF SmokeIInv

\* The requests about the season in general.
LEMMA GeneralSteps ==
  ASSUME SmokeIInv, NEW a,
         Smoke!Bootstrap(a) \/ Smoke!Fixtures(a) \/ Smoke!GwFixtures(a) \/ Smoke!EventStatus(a)
  PROVE  SmokeIInv'
<1> USE DEF General, Leagues, Pending, Entries, Finally, AfterBoot, AfterStatus, AfterLeagues, AfterEntries
<1>1. gw \in BOOLEAN /\ Shaped
  BY DEF SmokeIInv, SmokeFormed, Shaped
<1>2. CASE Smoke!Bootstrap(a)
  <2>1. /\ Smoke!Request(a, Smoke!BootChecks, Smoke!BootChecks, 0)
        /\ at = "bootstrap" /\ at' = "fixtures"
        /\ todo' = todo /\ seen' = seen
    BY <1>2 DEF Smoke!Bootstrap, Smoke!All
  <2>2. gw' \in BOOLEAN
    BY <1>1, <1>2 DEF Smoke!Bootstrap, SmokeIInv, SmokeFormed
  <2>3. /\ Grows(log, log') /\ exit' = exit
        /\ Clean(log') => Filed(log'.verdicts, Smoke!BootChecks, 0)
    BY <2>1, RequestFiles DEF Smoke!BootChecks
  <2>4. ASSUME Clean(log')
        PROVE  General' /\ Leagues' /\ Entries' /\ Finally'
    BY <2>1, <2>3, <2>4, StepKeeps
  <2>5. Shaped' /\ at # "done" /\ at' \in AfterBoot
    BY <1>1, <2>1 DEF Shaped
  <2> QED BY <2>2, <2>3, <2>4, <2>5, StepIInv
<1>3. CASE Smoke!Fixtures(a)
  <2>1. /\ Smoke!Request(a, {"F1", "F2"}, {"F1", "F2"}, 0)
        /\ at = "fixtures" /\ at' = "gw fixtures"
        /\ todo' = todo /\ seen' = seen /\ gw' = gw
    BY <1>3 DEF Smoke!Fixtures, Smoke!All, Smoke!known
  <2>2. /\ Grows(log, log') /\ exit' = exit
        /\ Clean(log') => Filed(log'.verdicts, {"F1", "F2"}, 0)
    <3>1. {"F1", "F2"} # {}
      OBVIOUS
    <3> QED BY <2>1, <3>1, RequestFiles
  <2>3. ASSUME Clean(log')
        PROVE  General' /\ Leagues' /\ Entries' /\ Finally'
    BY <2>1, <2>2, <2>3, StepKeeps
  <2>4. Shaped' /\ at # "done" /\ at' \in AfterBoot /\ gw' \in BOOLEAN
    BY <1>1, <2>1 DEF Shaped
  <2> QED BY <2>2, <2>3, <2>4, StepIInv
<1>4. CASE Smoke!GwFixtures(a)
  <2>1. /\ IF gw THEN Smoke!Request(a, {"F3"}, {"F3"}, 0)
           ELSE Smoke!Recorded(Smoke!Verdicts({"F3"}, 0, "UNVERIFIED"))
        /\ at = "gw fixtures" /\ at' = "event status"
        /\ todo' = todo /\ seen' = seen /\ gw' = gw
    BY <1>4 DEF Smoke!GwFixtures, Smoke!All, Smoke!known
  <2>2. /\ Grows(log, log') /\ exit' = exit
        /\ Clean(log') => gw /\ Filed(log'.verdicts, {"F3"}, 0)
    <3>1. {"F3"} # {}
      OBVIOUS
    <3>2. CASE gw
      BY <2>1, <3>1, <3>2, RequestFiles
    <3>3. CASE ~gw
      <4>1. /\ Grows(log, log') /\ exit' = exit
            /\ Smoke!Verdicts({"F3"}, 0, "UNVERIFIED") \subseteq log'.verdicts
        BY <2>1, <3>3, RecordedFiles DEF SmokeIInv
      <4>2. "UNVERIFIED" # "PASS"
        OBVIOUS
      <4> QED BY <3>1, <4>1, <4>2, BadVerdicts
    <3> QED BY <3>2, <3>3
  <2>3. ASSUME Clean(log')
        PROVE  General' /\ Leagues' /\ Entries' /\ Finally'
    BY <2>1, <2>2, <2>3, StepKeeps
  <2>4. Shaped' /\ at # "done" /\ at' \in AfterBoot /\ gw' \in BOOLEAN
    BY <1>1, <2>1 DEF Shaped
  <2> QED BY <2>2, <2>3, <2>4, StepIInv
<1>5. CASE Smoke!EventStatus(a)
  <2>1. /\ Smoke!Request(a, {"S1", "S2"}, {"S1", "S2"}, 0)
        /\ at = "event status" /\ at' = "leagues"
        /\ todo' = todo /\ seen' = seen /\ gw' = gw
    BY <1>5 DEF Smoke!EventStatus, Smoke!All, Smoke!known
  <2>2. /\ Grows(log, log') /\ exit' = exit
        /\ Clean(log') => Filed(log'.verdicts, {"S1", "S2"}, 0)
    <3>1. {"S1", "S2"} # {}
      OBVIOUS
    <3> QED BY <2>1, <3>1, RequestFiles
  <2>3. ASSUME Clean(log')
        PROVE  General' /\ Leagues' /\ Entries' /\ Finally'
    BY <2>1, <2>2, <2>3, StepKeeps
  <2>4. Shaped' /\ at # "done" /\ at' \in AfterBoot /\ gw' \in BOOLEAN
    BY <1>1, <2>1 DEF Shaped
  <2> QED BY <2>2, <2>3, <2>4, StepIInv
<1> QED BY <1>2, <1>3, <1>4, <1>5

\* The leagues, and the pages of one.
LEMMA LeagueSteps ==
  ASSUME SmokeIInv, Explicit \subseteq Int, Sampled \subseteq Int,
         \/ \E l \in League, a \in Smoke!Answers : Smoke!OpenLeague(l, a) \/ Smoke!LeagueClosed(l, a)
         \/ \E a \in Smoke!Answers : Smoke!StandingsPage(a)
         \/ Smoke!LeagueRead
  PROVE  SmokeIInv'
<1> USE DEF General, Leagues, Pending, Entries, Finally, AfterBoot, AfterStatus, AfterLeagues, AfterEntries
<1>1. gw \in BOOLEAN /\ Shaped
  BY DEF SmokeIInv, SmokeFormed, Shaped
<1>2. ASSUME NEW l \in League, NEW a \in Smoke!Answers, Smoke!OpenLeague(l, a)
      PROVE  SmokeIInv'
  <2> DEFINE first == Smoke!Verdicts({"L1"}, l, "PASS")
  <2>1. /\ log' \in Smoke!Looked(a, {"L2"}, l, first)
        /\ at = "leagues" /\ at' = "pages" /\ l \in todo.leagues
        /\ todo' = [todo EXCEPT !.leagues = todo.leagues \ {l}, !.reading = l, !.pages = 1]
        /\ seen' = seen /\ gw' = gw /\ exit' = exit
    BY <1>2 DEF Smoke!OpenLeague, Smoke!known
  <2>2. /\ Grows(log, log')
        /\ Clean(log') => Filed(log'.verdicts, {"L2"}, l) /\ first \subseteq log'.verdicts
    <3> HIDE DEF first
    <3> QED BY <2>1, LookedFiles
  <2>3. Clean(log') => Filed(log'.verdicts, {"L1", "L2"}, l)
    <3>1. Clean(log') => Filed(log'.verdicts, {"L1"}, l)
      BY <2>2, VerdictsFiled
    <3> QED BY <2>2, <3>1 DEF Filed
  <2>4. /\ todo' = [leagues |-> todo.leagues \ {l}, reading |-> l, pages |-> 1,
                    entries |-> todo.entries, left |-> todo.left]
        /\ todo'.leagues = todo.leagues \ {l} /\ todo'.reading = l
        /\ todo'.entries = todo.entries /\ todo'.left = todo.left
    BY <1>1, <2>1 DEF Shaped
  <2>5. ASSUME Clean(log')
        PROVE  General' /\ Leagues' /\ Entries' /\ Finally'
    <3>2. /\ General /\ Leagues
          /\ \A checks, x : Filed(log.verdicts, checks, x) => Filed(log'.verdicts, checks, x)
      BY <2>1, <2>2, <2>5, StepKeeps
    <3>3. \A k \in League \ todo'.leagues : Filed(log'.verdicts, {"L1", "L2"}, k)
      BY <2>3, <2>4, <2>5, <3>2
    <3>4. \A k \in League \ (todo'.leagues \cup {l}) : Filed(log'.verdicts, {"L3"}, k)
      BY <2>1, <2>4, <3>2
    <3>5. Leagues'
      BY <2>1, <2>4, <3>3, <3>4
    <3>6. General'
      BY <2>1, <3>2
    <3> QED BY <2>1, <3>5, <3>6
  <2>6. Shaped' /\ at # "done" /\ at' \in AfterBoot /\ gw' \in BOOLEAN
    BY <1>1, <2>1, <2>4 DEF Shaped
  <2> QED BY <2>1, <2>2, <2>5, <2>6, StepIInv
<1>3. ASSUME NEW l \in League, NEW a \in Smoke!Answers, Smoke!LeagueClosed(l, a)
      PROVE  SmokeIInv'
  <2> DEFINE outcome == IF a = "unreached" THEN "UNVERIFIED" ELSE "FAIL"
             found == Smoke!Verdicts({"L1"}, l, outcome)
             logged == Smoke!Logged(a, found, 0)
  <2>1. /\ log' = [logged EXCEPT !.troubles = log.troubles + 1]
        /\ at = "leagues" /\ at' = at
        /\ todo' = [todo EXCEPT !.leagues = todo.leagues \ {l}]
        /\ seen' = seen /\ gw' = gw /\ exit' = exit
    BY <1>3 DEF Smoke!LeagueClosed, Smoke!known
  <2>2. Grows(log, log') /\ found \subseteq log'.verdicts
    <3>1. log' = [verdicts |-> log.verdicts \cup found, unreached |-> log.unreached \/ a = "unreached",
                  breaks |-> log.breaks \/ (Smoke!Ok(a) /\ a # "good"), troubles |-> log.troubles + 1]
      BY <2>1 DEF Smoke!Logged
    <3> HIDE DEF found
    <3> QED BY <3>1 DEF Grows, Clean
  <2>3. ~Clean(log')
    <3>1. outcome # "PASS" /\ {"L1"} # {}
      OBVIOUS
    <3> HIDE DEF outcome
    <3> QED BY <2>2, <3>1, BadVerdicts
  <2>4. /\ todo' = [leagues |-> todo.leagues \ {l}, reading |-> todo.reading, pages |-> todo.pages,
                    entries |-> todo.entries, left |-> todo.left]
    BY <1>1, <2>1 DEF Shaped
  <2>5. Shaped' /\ at # "done" /\ at' \in AfterBoot /\ gw' \in BOOLEAN
    BY <1>1, <2>1, <2>4 DEF Shaped
  <2> QED BY <2>1, <2>2, <2>3, <2>5, StepIInv
<1>4. ASSUME NEW a \in Smoke!Answers, Smoke!StandingsPage(a)
      PROVE  SmokeIInv'
  <2>1. /\ Smoke!Request(a, {}, {}, 0)
        /\ at = "pages" /\ at' \in {"pages", "last page"}
        /\ todo' \in {todo, [todo EXCEPT !.pages = todo.pages + 1]}
        /\ seen' = seen /\ gw' = gw
    BY <1>4 DEF Smoke!StandingsPage, Smoke!known, Smoke!All
  <2>2. Grows(log, log') /\ exit' = exit
    BY <2>1, RequestFiles
  <2>3. /\ todo' = [leagues |-> todo.leagues, reading |-> todo.reading, pages |-> todo'.pages,
                    entries |-> todo.entries, left |-> todo.left]
        /\ todo'.leagues = todo.leagues /\ todo'.reading = todo.reading
        /\ todo'.entries = todo.entries /\ todo'.left = todo.left
    BY <1>1, <2>1 DEF Shaped
  <2>4. ASSUME Clean(log')
        PROVE  General' /\ Leagues' /\ Entries' /\ Finally'
    BY <2>1, <2>2, <2>3, <2>4, StepKeeps
  <2>5. Shaped' /\ at # "done" /\ at' \in AfterBoot /\ gw' \in BOOLEAN
    BY <1>1, <2>1, <2>3 DEF Shaped
  <2> QED BY <2>2, <2>4, <2>5, StepIInv
<1>5. CASE Smoke!LeagueRead
  <2>1. /\ \E outcome : Smoke!Recorded(Smoke!Verdicts({"L3"}, todo.reading, outcome))
        /\ at \in {"pages", "last page"} /\ at' = "leagues"
        /\ todo' = [todo EXCEPT !.entries = todo.entries \cup Sampled, !.reading = 0]
        /\ seen' = seen /\ gw' = gw
    BY <1>5 DEF Smoke!LeagueRead, Smoke!known, Smoke!All
  <2>2. PICK outcome : Smoke!Recorded(Smoke!Verdicts({"L3"}, todo.reading, outcome))
    BY <2>1
  <2>3. /\ Grows(log, log') /\ exit' = exit
        /\ Smoke!Verdicts({"L3"}, todo.reading, outcome) \subseteq log'.verdicts
    BY <2>2, RecordedFiles DEF SmokeIInv
  <2>4. Filed(log'.verdicts, {"L3"}, todo.reading)
    BY <2>3, VerdictsFiled
  <2>5. /\ todo' = [leagues |-> todo.leagues, reading |-> 0, pages |-> todo.pages,
                    entries |-> todo.entries \cup Sampled, left |-> todo.left]
        /\ todo'.leagues = todo.leagues /\ todo'.left = todo.left
    BY <1>1, <2>1 DEF Shaped
  <2>6. ASSUME Clean(log')
        PROVE  General' /\ Leagues' /\ Entries' /\ Finally'
    <3>1. /\ General /\ Leagues
          /\ \A checks, x : Filed(log.verdicts, checks, x) => Filed(log'.verdicts, checks, x)
      BY <2>1, <2>3, <2>6, StepKeeps
    <3>2. Pending = {todo.reading} /\ Pending' = {}
      BY <2>1
    <3>3. \A l \in League \ todo'.leagues : Filed(log'.verdicts, {"L1", "L2"}, l)
      BY <2>5, <3>1
    <3>4. \A l \in League \ todo'.leagues : Filed(log'.verdicts, {"L3"}, l)
      BY <2>4, <2>5, <3>1, <3>2
    <3>5. Leagues'
      BY <2>1, <3>2, <3>3, <3>4
    <3>6. General'
      BY <2>1, <3>1
    <3> QED BY <2>1, <3>5, <3>6
  <2>7. Shaped' /\ at # "done" /\ at' \in AfterBoot /\ gw' \in BOOLEAN
    BY <1>1, <2>1, <2>5 DEF Shaped
  <2> QED BY <2>3, <2>6, <2>7, StepIInv
<1> QED BY <1>2, <1>3, <1>4, <1>5

\* All leagues were asked for: there are entries to look at, or there is
\* something that could not be verified.
LEMMA LeaguesDoneStep ==
  ASSUME SmokeIInv, Smoke!LeaguesDone
  PROVE  SmokeIInv'
<1> USE DEF General, Leagues, Pending, Entries, Finally, AfterBoot, AfterStatus, AfterLeagues, AfterEntries
<1>1. gw \in BOOLEAN /\ Shaped
  BY DEF SmokeIInv, SmokeFormed, Shaped
<1> DEFINE unasked == IF League = {} THEN Smoke!Verdicts({"L1", "L2", "L3"}, 0, "UNVERIFIED") ELSE {}
           unread == IF todo.entries = {}
                     THEN Smoke!Verdicts(Smoke!EntryChecks \cup Smoke!OnceChecks, 0, "UNVERIFIED") ELSE {}
<1>2. /\ Smoke!Recorded(unasked \cup unread)
      /\ at = "leagues" /\ at' = (IF todo.entries = {} THEN "semantics" ELSE "entry")
      /\ todo.leagues = {}
      /\ todo' = [todo EXCEPT !.left = todo.entries]
      /\ seen' = seen /\ gw' = gw
  BY DEF Smoke!LeaguesDone, Smoke!known, Smoke!All
<1>3. Grows(log, log') /\ exit' = exit /\ unasked \cup unread \subseteq log'.verdicts
  <2> HIDE DEF unasked, unread
  <2> QED BY <1>2, RecordedFiles DEF SmokeIInv
<1>4. Clean(log') => League # {} /\ todo.entries # {}
  <2>1. "UNVERIFIED" # "PASS" /\ {"L1", "L2", "L3"} # {}
    OBVIOUS
  <2>2. ASSUME League = {} PROVE ~Clean(log')
    <3>1. Smoke!Verdicts({"L1", "L2", "L3"}, 0, "UNVERIFIED") \subseteq log'.verdicts
      BY <1>3, <2>2
    <3> QED BY <2>1, <3>1, BadVerdicts
  <2>3. ASSUME todo.entries = {} PROVE ~Clean(log')
    <3>1. Smoke!Verdicts(Smoke!EntryChecks \cup Smoke!OnceChecks, 0, "UNVERIFIED") \subseteq log'.verdicts
      BY <1>3, <2>3
    <3>2. Smoke!EntryChecks \cup Smoke!OnceChecks # {}
      BY DEF Smoke!EntryChecks
    <3> QED BY <2>1, <3>1, <3>2, BadVerdicts
  <2> QED BY <2>2, <2>3
<1>5. /\ todo' = [leagues |-> todo.leagues, reading |-> todo.reading, pages |-> todo.pages,
                  entries |-> todo.entries, left |-> todo.entries]
      /\ todo'.leagues = todo.leagues /\ todo'.entries = todo.entries /\ todo'.left = todo.entries
  BY <1>1, <1>2 DEF Shaped
<1>6. ASSUME Clean(log')
      PROVE  General' /\ Leagues' /\ Entries' /\ Finally'
  <2> HIDE DEF unasked, unread
  <2>1. at' = "entry"
    BY <1>2, <1>4, <1>6
  <2> QED BY <1>2, <1>3, <1>4, <1>5, <1>6, <2>1, StepKeeps
<1>7. Shaped' /\ at # "done" /\ at' \in AfterBoot /\ gw' \in BOOLEAN
  <2> HIDE DEF unasked, unread
  <2> QED BY <1>1, <1>2, <1>5 DEF Shaped
<1> QED BY <1>3, <1>6, <1>7, StepIInv

\* Verdicts of two kinds.
LEMMA FiledBoth ==
  ASSUME NEW verdicts, NEW A, NEW B, NEW x, Filed(verdicts, A, x), Filed(verdicts, B, x)
  PROVE  Filed(verdicts, A \cup B, x)
BY DEF Filed

\* The turn is one entry's.
LEMMA OneTurn ==
  ASSUME todo.left \subseteq Int
  PROVE  \A e, f \in todo.left : Smoke!Turn(e) /\ Smoke!Turn(f) => e = f
BY DEF Smoke!Turn

\* The entry whose turn it is, up to its picks.
LEMMA EntrySteps ==
  ASSUME SmokeIInv, NEW a, NEW e \in todo.left,
         Smoke!Entry(e, a) \/ Smoke!History(e, a) \/ Smoke!Picks(e, a)
  PROVE  SmokeIInv'
<1> USE DEF General, Leagues, Pending, Entries, Finally, AfterBoot, AfterStatus, AfterLeagues, AfterEntries
<1>1. /\ gw \in BOOLEAN /\ Shaped
      /\ \A f \in todo.left : Smoke!Turn(e) /\ Smoke!Turn(f) => e = f
  <2>1. gw \in BOOLEAN /\ Shaped
    BY DEF SmokeIInv, SmokeFormed, Shaped
  <2>2. todo.left \subseteq Int
    BY <2>1 DEF Shaped
  <2> QED BY <2>1, <2>2, OneTurn
<1>2. ASSUME todo' = todo
      PROVE  \A f : Smoke!Turn(f)' <=> Smoke!Turn(f)
  BY <1>2 DEF Smoke!Turn
<1>3. CASE Smoke!Entry(e, a)
  <2>1. /\ Smoke!Request(a, {"E1"}, {"E1"}, e) /\ Smoke!Turn(e)
        /\ at = "entry" /\ at' = "history"
        /\ todo' = todo /\ seen' = seen /\ gw' = gw
    BY <1>3 DEF Smoke!Entry, Smoke!known
  <2>2. /\ Grows(log, log') /\ exit' = exit
        /\ Clean(log') => Filed(log'.verdicts, {"E1"}, e)
    <3>1. {"E1"} # {}
      OBVIOUS
    <3> QED BY <2>1, <3>1, RequestFiles
  <2>3. ASSUME Clean(log')
        PROVE  General' /\ Leagues' /\ Entries' /\ Finally'
    <3>1. /\ General /\ Leagues /\ Entries
          /\ \A checks, x : Filed(log.verdicts, checks, x) => Filed(log'.verdicts, checks, x)
      BY <2>1, <2>2, <2>3, StepKeeps
    <3>2. General' /\ Leagues' /\ Finally'
      BY <2>1, <3>1
    <3>3. \A f \in todo.entries \ todo.left : Asked(f)'
      BY <2>1, <3>1 DEF Asked
    <3>4. Entries'
      BY <1>1, <1>2, <2>1, <2>2, <2>3, <3>3
    <3> QED BY <3>2, <3>4
  <2>4. Shaped' /\ at # "done" /\ at' \in AfterBoot /\ gw' \in BOOLEAN
    BY <1>1, <2>1 DEF Shaped
  <2> QED BY <2>2, <2>3, <2>4, StepIInv
<1>4. CASE Smoke!History(e, a)
  <2>1. /\ Smoke!Request(a, {"H1", "H2"}, {"H1"}, e) /\ Smoke!Turn(e)
        /\ at = "history" /\ at' = (IF gw THEN "picks" ELSE "transfers")
        /\ todo' = todo /\ gw' = gw
        /\ \E row : seen' = [seen EXCEPT !.row = row, !.histories = IF Smoke!Usable(a)
                                           THEN seen.histories \cup {e} ELSE seen.histories]
    BY <1>4 DEF Smoke!History, Smoke!known
  <2>2. /\ Grows(log, log') /\ exit' = exit
        /\ Clean(log') => Smoke!Usable(a) /\ Filed(log'.verdicts, {"H1", "H2"}, e)
    <3>1. {"H1"} # {}
      OBVIOUS
    <3> QED BY <2>1, <3>1, RequestFiles
  <2>3. /\ seen' = [row |-> seen'.row, histories |-> seen'.histories, picks |-> seen.picks]
        /\ seen'.picks = seen.picks /\ seen.histories \subseteq seen'.histories
        /\ Smoke!Usable(a) => e \in seen'.histories
    <3>1. PICK row : seen' = [seen EXCEPT !.row = row, !.histories = IF Smoke!Usable(a)
                                           THEN seen.histories \cup {e} ELSE seen.histories]
      BY <2>1
    <3>2. seen' = [row |-> row, picks |-> seen.picks,
                   histories |-> IF Smoke!Usable(a) THEN seen.histories \cup {e} ELSE seen.histories]
      BY <1>1, <3>1 DEF Shaped
    <3> QED BY <3>2
  <2>4. ASSUME Clean(log')
        PROVE  General' /\ Leagues' /\ Entries' /\ Finally'
    <3>1. /\ General /\ Leagues /\ Entries
          /\ \A checks, x : Filed(log.verdicts, checks, x) => Filed(log'.verdicts, checks, x)
      BY <2>1, <2>2, <2>4, StepKeeps
    <3>2. at' = "picks"
      BY <2>1, <3>1
    <3>3. General' /\ Leagues' /\ Finally'
      BY <2>1, <3>1, <3>2
    <3>4. \A f \in todo.entries \ todo.left : Asked(f)'
      BY <2>1, <2>3, <3>1 DEF Asked
    <3>5. Entries'
      BY <1>1, <1>2, <2>1, <2>2, <2>3, <2>4, <3>1, <3>2, <3>4
    <3> QED BY <3>3, <3>5
  <2>5. Shaped' /\ at # "done" /\ at' \in AfterBoot /\ gw' \in BOOLEAN
    BY <1>1, <2>1, <2>3 DEF Shaped
  <2> QED BY <2>2, <2>4, <2>5, StepIInv
<1>5. CASE Smoke!Picks(e, a)
  <2> DEFINE rowless == Smoke!Verdicts({"P4"}, e, "UNVERIFIED")
             unread == Smoke!Verdicts({"P1"}, e, "UNVERIFIED")
  <2>1. /\ log' \in IF Smoke!Usable(a)
                    THEN IF seen.row THEN Smoke!Looked(a, {"P1", "P2", "P3", "P4"}, e, {})
                         ELSE Smoke!Looked(a, {"P1", "P2", "P3"}, e, rowless)
                    ELSE {Smoke!Logged(a, unread, 0)}
        /\ Smoke!Turn(e)
        /\ at = "picks" /\ at' = "transfers"
        /\ todo' = todo /\ gw' = gw /\ exit' = exit
        /\ seen' = [seen EXCEPT !.picks = IF Smoke!Usable(a) THEN seen.picks \cup {e} ELSE seen.picks]
    BY <1>5 DEF Smoke!Picks, Smoke!known
  <2>2. /\ Grows(log, log')
        /\ Clean(log') => Smoke!Usable(a) /\ Filed(log'.verdicts, {"P1", "P2", "P3", "P4"}, e)
    <3> HIDE DEF rowless, unread
    <3>1. /\ rowless \subseteq log'.verdicts => ~Clean(log')
          /\ unread \subseteq log'.verdicts => ~Clean(log')
      <4>1. "UNVERIFIED" # "PASS" /\ {"P1"} # {} /\ {"P4"} # {}
        OBVIOUS
      <4> QED BY <4>1, BadVerdicts DEF rowless, unread
    <3>2. CASE Smoke!Usable(a) /\ seen.row
      BY <2>1, <3>2, LookedFiles
    <3>3. CASE Smoke!Usable(a) /\ ~seen.row
      BY <2>1, <3>1, <3>3, LookedFiles
    <3>4. CASE ~Smoke!Usable(a)
      BY <2>1, <3>1, <3>4, LoggedGrows
    <3> QED BY <3>2, <3>3, <3>4
  <2>3. /\ seen' = [row |-> seen.row, histories |-> seen.histories, picks |-> seen'.picks]
        /\ seen'.histories = seen.histories /\ seen.picks \subseteq seen'.picks
        /\ Smoke!Usable(a) => e \in seen'.picks
    <3> DEFINE picks == IF Smoke!Usable(a) THEN seen.picks \cup {e} ELSE seen.picks
    <3>1. seen' = [row |-> seen.row, histories |-> seen.histories, picks |-> picks]
      BY <1>1, <2>1 DEF Shaped
    <3> QED BY <3>1
  <2>4. ASSUME Clean(log')
        PROVE  General' /\ Leagues' /\ Entries' /\ Finally'
    <3>1. /\ General /\ Leagues /\ Entries
          /\ \A checks, x : Filed(log.verdicts, checks, x) => Filed(log'.verdicts, checks, x)
      BY <2>1, <2>2, <2>4, StepKeeps
    <3>2. General' /\ Leagues' /\ Finally'
      BY <2>1, <3>1
    <3>3. \A f \in todo.entries \ todo.left : Asked(f)'
      BY <2>1, <2>3, <3>1 DEF Asked
    <3>4. Entries'
      BY <1>1, <1>2, <2>1, <2>2, <2>3, <2>4, <3>1, <3>3
    <3> QED BY <3>2, <3>4
  <2>5. Shaped' /\ at # "done" /\ at' \in AfterBoot /\ gw' \in BOOLEAN
    BY <1>1, <2>1, <2>3 DEF Shaped
  <2> QED BY <2>1, <2>2, <2>4, <2>5, StepIInv
<1> QED BY <1>3, <1>4, <1>5

\* The last request of an entry: all its own checks are decided.
LEMMA TransfersStep ==
  ASSUME SmokeIInv, NEW a, NEW e \in todo.left, Smoke!Transfers(e, a)
  PROVE  SmokeIInv'
<1> USE DEF General, Leagues, Pending, Entries, Finally, AfterBoot, AfterStatus, AfterLeagues, AfterEntries
<1>1. gw \in BOOLEAN /\ Shaped
  BY DEF SmokeIInv, SmokeFormed, Shaped
<1>2. /\ Smoke!Request(a, {"T1", "T2", "T3"}, {"T1"}, e) /\ Smoke!Turn(e)
      /\ at = "transfers" /\ at' = (IF todo'.left = {} THEN "semantics" ELSE "entry")
      /\ todo' = [todo EXCEPT !.left = todo.left \ {e}]
      /\ seen' = seen /\ gw' = gw
  BY DEF Smoke!Transfers, Smoke!known
<1>3. /\ Grows(log, log') /\ exit' = exit
      /\ Clean(log') => Filed(log'.verdicts, {"T1", "T2", "T3"}, e)
  <2>1. {"T1"} # {}
    OBVIOUS
  <2> QED BY <1>2, <2>1, RequestFiles
<1>4. /\ todo' = [leagues |-> todo.leagues, reading |-> todo.reading, pages |-> todo.pages,
                  entries |-> todo.entries, left |-> todo.left \ {e}]
      /\ todo'.leagues = todo.leagues /\ todo'.entries = todo.entries /\ todo'.left = todo.left \ {e}
  BY <1>1, <1>2 DEF Shaped
<1>5. ASSUME Clean(log')
      PROVE  General' /\ Leagues' /\ Entries' /\ Finally'
  <2>1. /\ General /\ Leagues /\ Entries
        /\ \A checks, x : Filed(log.verdicts, checks, x) => Filed(log'.verdicts, checks, x)
    BY <1>2, <1>3, <1>5, StepKeeps
  <2>2. at' \in {"semantics", "entry"}
    BY <1>2
  <2>3. General' /\ Leagues' /\ Finally'
    BY <1>2, <1>4, <2>1, <2>2
  <2>4. Asked(e)'
    <3>1. /\ Filed(log'.verdicts, {"E1"}, e) /\ Filed(log'.verdicts, {"H1", "H2"}, e)
          /\ Filed(log'.verdicts, {"P1", "P2", "P3", "P4"}, e)
          /\ Filed(log'.verdicts, {"T1", "T2", "T3"}, e)
          /\ e \in seen.histories /\ e \in seen.picks
      BY <1>2, <1>3, <1>5, <2>1
    <3>2. OwnChecks = {"E1"} \cup ({"H1", "H2"} \cup ({"P1", "P2", "P3", "P4"} \cup {"T1", "T2", "T3"}))
      BY DEF OwnChecks, Smoke!EntryChecks
    <3>3. Filed(log'.verdicts, {"P1", "P2", "P3", "P4"} \cup {"T1", "T2", "T3"}, e)
      BY <3>1, FiledBoth
    <3>4. Filed(log'.verdicts, {"H1", "H2"} \cup ({"P1", "P2", "P3", "P4"} \cup {"T1", "T2", "T3"}), e)
      BY <3>1, <3>3, FiledBoth
    <3>5. Filed(log'.verdicts, OwnChecks, e)
      BY <3>1, <3>2, <3>4, FiledBoth
    <3> QED BY <1>2, <3>1, <3>5 DEF Asked
  <2>5. \A f \in todo.entries \ todo.left : Asked(f)'
    BY <1>2, <2>1 DEF Asked
  <2>6. \A f \in todo'.entries \ todo'.left : Asked(f)'
    BY <1>4, <2>4, <2>5
  <2>7. Entries'
    BY <1>2, <2>2, <2>6
  <2> QED BY <2>3, <2>7
<1>6. Shaped' /\ at # "done" /\ at' \in AfterBoot /\ gw' \in BOOLEAN
  BY <1>1, <1>2, <1>4 DEF Shaped
<1> QED BY <1>3, <1>5, <1>6, StepIInv

\* What the season's end adds: each check has a verdict whatever the answer.
LEMMA FinalSteps ==
  ASSUME SmokeIInv,
         \/ Smoke!SeasonSemantics
         \/ \E a \in Smoke!Answers : Smoke!NextPicks(a) \/ Smoke!Live(a) \/ Smoke!Nonexistent(a)
  PROVE  SmokeIInv'
<1> USE DEF General, Leagues, Pending, Entries, Finally, AfterBoot, AfterStatus, AfterLeagues, AfterEntries
<1>1. gw \in BOOLEAN /\ Shaped
  BY DEF SmokeIInv, SmokeFormed, Shaped
<1>2. ASSUME NEW check, Grows(log, log'), exit' = exit, todo' = todo, seen' = seen, gw' = gw,
             \/ at = "semantics" /\ at' = "next picks" /\ check = {"H3"}
             \/ at = "next picks" /\ at' = "live" /\ check = {"P6"}
             \/ /\ at = "live" /\ at' = "nonexistent" /\ check = {"V1", "V2"}
                /\ Clean(log') => \A e \in todo.entries : Filed(log'.verdicts, {"P5"}, e)
             \/ at = "nonexistent" /\ at' = "verdict" /\ check = {"E2"},
             Clean(log') => Filed(log'.verdicts, check, 0)
      PROVE  SmokeIInv'
  <2>1. ASSUME Clean(log')
        PROVE  General' /\ Leagues' /\ Entries' /\ Finally'
    <3>1. /\ General /\ Leagues /\ Entries /\ Finally
          /\ \A checks, x : Filed(log.verdicts, checks, x) => Filed(log'.verdicts, checks, x)
      BY <1>2, <2>1, StepKeeps
    <3>2. General' /\ Leagues'
      BY <1>2, <3>1
    <3>3. \A f \in todo.entries : Asked(f)'
      BY <1>2, <3>1 DEF Asked
    <3>4. Entries'
      BY <1>2, <3>1, <3>3
    <3>5. Finally'
      BY <1>2, <2>1, <3>1
    <3> QED BY <3>2, <3>4, <3>5
  <2>2. Shaped' /\ at # "done" /\ at' \in AfterBoot /\ gw' \in BOOLEAN
    BY <1>1, <1>2 DEF Shaped
  <2> QED BY <1>2, <2>1, <2>2, StepIInv
<1>3. ASSUME Clean(log'), Grows(log, log'), at \in AfterEntries
      PROVE  /\ gw /\ todo.entries # {} /\ todo.entries \subseteq seen.histories
             /\ todo.entries \subseteq seen.picks
  <2>1. General /\ Leagues /\ Entries
    BY <1>3, StepKeeps
  <2>2. \A e \in todo.entries : Asked(e)
    BY <1>3, <2>1
  <2> QED BY <1>3, <2>1, <2>2 DEF Asked
<1>4. CASE Smoke!SeasonSemantics
  <2>1. /\ \E outcome : Smoke!Recorded(IF seen.histories = {} THEN {}
                                       ELSE Smoke!Verdicts({"H3"}, 0, outcome))
        /\ at = "semantics" /\ at' = "next picks"
        /\ todo' = todo /\ seen' = seen /\ gw' = gw
    BY <1>4 DEF Smoke!SeasonSemantics, Smoke!known, Smoke!All
  <2>2. PICK outcome : Smoke!Recorded(IF seen.histories = {} THEN {}
                                      ELSE Smoke!Verdicts({"H3"}, 0, outcome))
    BY <2>1
  <2> DEFINE found == IF seen.histories = {} THEN {} ELSE Smoke!Verdicts({"H3"}, 0, outcome)
  <2>3. Grows(log, log') /\ exit' = exit /\ found \subseteq log'.verdicts
    <3>1. Smoke!Recorded(found)
      BY <2>2
    <3> HIDE DEF found
    <3> QED BY <3>1, RecordedFiles DEF SmokeIInv
  <2>4. ASSUME Clean(log') PROVE Filed(log'.verdicts, {"H3"}, 0)
    <3>1. seen.histories # {}
      BY <1>3, <2>1, <2>3, <2>4
    <3>2. Smoke!Verdicts({"H3"}, 0, outcome) \subseteq log'.verdicts
      BY <2>3, <3>1
    <3> QED BY <3>2, VerdictsFiled
  <2> HIDE DEF found
  <2> QED BY <1>2, <2>1, <2>3, <2>4
<1>5. ASSUME NEW a \in Smoke!Answers, Smoke!NextPicks(a)
      PROVE  SmokeIInv'
  <2> DEFINE asked == IF a = "unreached" THEN "UNVERIFIED" ELSE "PASS"
             found == IF todo.entries = {} THEN {} ELSE Smoke!Verdicts({"P6"}, 0, "UNVERIFIED")
  <2>1. /\ IF todo.entries # {} /\ next
           THEN log' = Smoke!Logged(a, Smoke!Verdicts({"P6"}, 0, asked), 0) /\ exit' = exit
           ELSE Smoke!Recorded(found)
        /\ at = "next picks" /\ at' = "live"
        /\ todo' = todo /\ seen' = seen /\ gw' = gw
    BY <1>5 DEF Smoke!NextPicks, Smoke!known, Smoke!All
  <2> HIDE DEF asked
  <2>2. CASE todo.entries # {} /\ next
    <3> HIDE DEF found
    <3>1. log' = Smoke!Logged(a, Smoke!Verdicts({"P6"}, 0, asked), 0) /\ exit' = exit
      BY <2>1, <2>2
    <3>2. Grows(log, log') /\ Smoke!Verdicts({"P6"}, 0, asked) \subseteq log'.verdicts
      BY <3>1, LoggedGrows
    <3>3. Filed(log'.verdicts, {"P6"}, 0)
      BY <3>2, VerdictsFiled
    <3> QED BY <1>2, <2>1, <3>1, <3>2, <3>3
  <2>3. CASE ~(todo.entries # {} /\ next)
    <3>1. Grows(log, log') /\ exit' = exit /\ found \subseteq log'.verdicts
      <4> HIDE DEF found
      <4> QED BY <2>1, <2>3, RecordedFiles DEF SmokeIInv
    <3>2. ASSUME Clean(log') PROVE Filed(log'.verdicts, {"P6"}, 0)
      <4>1. todo.entries # {}
        BY <1>3, <2>1, <3>1, <3>2
      <4>2. Smoke!Verdicts({"P6"}, 0, "UNVERIFIED") \subseteq log'.verdicts
        BY <3>1, <4>1
      <4> QED BY <4>2, VerdictsFiled
    <3> HIDE DEF found
    <3> QED BY <1>2, <2>1, <3>1, <3>2
  <2> QED BY <2>2, <2>3
<1>6. ASSUME NEW a \in Smoke!Answers, Smoke!Live(a)
      PROVE  SmokeIInv'
  <2> DEFINE judged(e, off) == Smoke!Verdicts({"P5"}, e, IF e = off THEN "FAIL" ELSE "PASS")
             squads(off) == UNION {judged(e, off) : e \in seen.picks}
             unread == Smoke!Verdicts({"V1"}, 0, "UNVERIFIED")
  <2>1. /\ IF gw THEN /\ log' \in IF Smoke!Usable(a)
                                  THEN UNION {Smoke!Looked(a, {"V1", "V2"}, 0, squads(off)) :
                                                off \in seen.picks \cup {0}}
                                  ELSE {Smoke!Logged(a, unread, 0)}
                      /\ exit' = exit
           ELSE Smoke!Recorded(unread)
        /\ at = "live" /\ at' = "nonexistent"
        /\ todo' = todo /\ seen' = seen /\ gw' = gw
    BY <1>6 DEF Smoke!Live, Smoke!known, Smoke!All
  <2>2. unread \subseteq log'.verdicts => ~Clean(log')
    <3>1. "UNVERIFIED" # "PASS" /\ {"V1"} # {}
      OBVIOUS
    <3> QED BY <3>1, BadVerdicts
  <2> HIDE DEF squads, unread
  <2>3. CASE gw /\ Smoke!Usable(a)
    <3>1. \E off : log' \in Smoke!Looked(a, {"V1", "V2"}, 0, squads(off))
      BY <2>1, <2>3
    <3>2. PICK off : log' \in Smoke!Looked(a, {"V1", "V2"}, 0, squads(off))
      BY <3>1
    <3>3. /\ Grows(log, log')
          /\ Clean(log') => Filed(log'.verdicts, {"V1", "V2"}, 0) /\ squads(off) \subseteq log'.verdicts
      BY <3>2, LookedFiles
    <3>4. ASSUME Clean(log'), NEW e \in todo.entries
          PROVE  Filed(log'.verdicts, {"P5"}, e)
      <4> DEFINE outcome == IF e = off THEN "FAIL" ELSE "PASS"
      <4>1. e \in seen.picks
        BY <1>3, <2>1, <3>3, <3>4
      <4>2. judged(e, off) \subseteq log'.verdicts
        <5> HIDE DEF judged
        <5> QED BY <3>3, <3>4, <4>1 DEF squads
      <4>3. Smoke!Verdicts({"P5"}, e, outcome) \subseteq log'.verdicts
        BY <4>2
      <4> HIDE DEF outcome
      <4> QED BY <4>3, VerdictsFiled
    <3> QED BY <1>2, <2>1, <2>3, <3>3, <3>4
  <2>4. CASE ~(gw /\ Smoke!Usable(a))
    <3>1. Grows(log, log') /\ exit' = exit /\ unread \subseteq log'.verdicts
      <4>1. CASE gw
        BY <2>1, <2>4, <4>1, LoggedGrows
      <4>2. CASE ~gw
        BY <2>1, <4>2, RecordedFiles DEF SmokeIInv
      <4> QED BY <4>1, <4>2
    <3>2. ~Clean(log')
      BY <2>2, <3>1
    <3> QED BY <1>2, <2>1, <3>1, <3>2
  <2> QED BY <2>3, <2>4
<1>7. ASSUME NEW a \in Smoke!Answers, Smoke!Nonexistent(a)
      PROVE  SmokeIInv'
  <2>1. /\ \E outcome : log' = Smoke!Logged(a, Smoke!Verdicts({"E2"}, 0, outcome), 0)
        /\ at = "nonexistent" /\ at' = "verdict" /\ exit' = exit
        /\ todo' = todo /\ seen' = seen /\ gw' = gw
    BY <1>7 DEF Smoke!Nonexistent, Smoke!known, Smoke!All
  <2>2. PICK outcome : log' = Smoke!Logged(a, Smoke!Verdicts({"E2"}, 0, outcome), 0)
    BY <2>1
  <2>3. Grows(log, log') /\ Smoke!Verdicts({"E2"}, 0, outcome) \subseteq log'.verdicts
    BY <2>2, LoggedGrows
  <2>4. Filed(log'.verdicts, {"E2"}, 0)
    BY <2>3, VerdictsFiled
  <2> QED BY <1>2, <2>1, <2>3, <2>4
<1> QED BY <1>4, <1>5, <1>6, <1>7

\* The end: code 0 needs a clean log, in which everything is decided by now.
LEMMA EndSteps ==
  ASSUME SmokeIInv, Smoke!Publish \/ Smoke!Throw
  PROVE  SmokeIInv'
<1>1. /\ at' = "done" /\ gw' = gw
      /\ todo' = todo /\ seen' = seen /\ log' = log
  BY DEF Smoke!Publish, Smoke!Throw, Smoke!known
<1>2. SmokeFormed'
  BY <1>1 DEF SmokeIInv, SmokeFormed
<1>3. ASSUME exit' = 3
      PROVE  log.unreached
  BY <1>3 DEF Smoke!Publish, Smoke!Throw, Smoke!ExitCode
<1>4. ASSUME exit' = 0
      PROVE  at = "verdict" /\ Clean(log)
  BY <1>4 DEF Smoke!Publish, Smoke!Throw, Smoke!ExitCode, Clean
<1>5. ASSUME exit' = 0
      PROVE  /\ \A c \in Smoke!BootChecks \cup Smoke!OnceChecks
                       \cup {"F1", "F2", "F3", "S1", "S2", "V1", "V2"} :
                  \E v \in log.verdicts : v.id = c
             /\ \A l \in League : \A c \in {"L1", "L2", "L3"} : \E v \in log.verdicts : v.id = c /\ v.of = l
             /\ League # {} /\ todo.entries # {}
             /\ \A e \in todo.entries : \A c \in Smoke!EntryChecks :
                  \E v \in log.verdicts : v.id = c /\ v.of = e
  <2>1. General /\ Leagues /\ Entries /\ Finally /\ at = "verdict"
    BY <1>4, <1>5 DEF SmokeIInv
  <2> USE DEF AfterBoot, AfterStatus, AfterLeagues, AfterEntries
  <2>2. /\ Filed(log.verdicts, Smoke!BootChecks, 0)
        /\ Filed(log.verdicts, {"F1", "F2"}, 0)
        /\ Filed(log.verdicts, {"F3"}, 0)
        /\ Filed(log.verdicts, {"S1", "S2"}, 0)
    BY <2>1 DEF General
  <2>3. /\ League # {} /\ todo.entries # {}
        /\ \A l \in League : Filed(log.verdicts, {"L1", "L2"}, l) /\ Filed(log.verdicts, {"L3"}, l)
    BY <2>1 DEF Leagues, Pending
  <2>4. /\ Filed(log.verdicts, {"H3"}, 0) /\ Filed(log.verdicts, {"P6"}, 0)
        /\ Filed(log.verdicts, {"V1", "V2"}, 0) /\ Filed(log.verdicts, {"E2"}, 0)
        /\ \A e \in todo.entries : Filed(log.verdicts, {"P5"}, e)
    BY <2>1 DEF Finally
  <2>5. \A e \in todo.entries : Filed(log.verdicts, OwnChecks, e)
    BY <2>1 DEF Entries, Asked
  <2>6. ASSUME NEW e \in todo.entries, NEW c \in Smoke!EntryChecks
        PROVE  \E v \in log.verdicts : v.id = c /\ v.of = e
    <3>1. c \in OwnChecks \/ c \in {"P5"}
      BY DEF OwnChecks
    <3> QED BY <2>4, <2>5, <3>1 DEF Filed
  <2>7. \A c \in Smoke!BootChecks \cup {"F1", "F2", "F3", "S1", "S2"} : \E v \in log.verdicts : v.id = c
    BY <2>2 DEF Filed
  <2>8. \A c \in Smoke!OnceChecks \cup {"V1", "V2"} : \E v \in log.verdicts : v.id = c
    BY <2>4 DEF Filed, Smoke!OnceChecks
  <2>9. \A l \in League : \A c \in {"L1", "L2", "L3"} : \E v \in log.verdicts : v.id = c /\ v.of = l
    BY <2>3 DEF Filed
  <2>10. \A c \in Smoke!BootChecks \cup Smoke!OnceChecks
                    \cup {"F1", "F2", "F3", "S1", "S2", "V1", "V2"} :
           \E v \in log.verdicts : v.id = c
    BY <2>7, <2>8
  <2> QED BY <2>3, <2>6, <2>9, <2>10
<1>6. Smoke!PassDecidesAll'
  BY <1>1, <1>3, <1>4, <1>5 DEF Smoke!PassDecidesAll, Clean
<1> QED BY <1>1, <1>2, <1>6 DEF SmokeIInv

\* Exit code 0 of the smoke test decides every assumption, whatever leagues and
\* entries it is given, whatever FPL answers and wherever it is cut off
\* (runSmoke, verdict).
THEOREM PassesDecideAll ==
  ASSUME Explicit \subseteq Int, Sampled \subseteq Int
  PROVE  Smoke!Spec => []Smoke!PassDecidesAll
<1>1. Smoke!Init => SmokeIInv
  BY DEF Smoke!Init, SmokeIInv, SmokeFormed, General, Leagues, Pending, Entries, Finally, Smoke!PassDecidesAll,
         AfterBoot, AfterStatus, AfterLeagues, AfterEntries
<1>2. SmokeIInv /\ [Smoke!Next]_(Smoke!smokeVars) => SmokeIInv'
  <2> SUFFICES ASSUME SmokeIInv, [Smoke!Next]_(Smoke!smokeVars)
               PROVE  SmokeIInv'
    OBVIOUS
  <2>1. CASE UNCHANGED Smoke!smokeVars
    <3>1. /\ at' = at /\ gw' = gw /\ log' = log /\ exit' = exit
          /\ todo' = todo /\ seen' = seen
      BY <2>1 DEF Smoke!smokeVars, Smoke!known
    <3>2. SmokeFormed' /\ Smoke!PassDecidesAll'
      BY <3>1 DEF SmokeIInv, SmokeFormed, Smoke!PassDecidesAll
    <3>3. ASSUME Clean(log), at # "done"
          PROVE  General' /\ Leagues' /\ Entries' /\ Finally'
      <4>1. General /\ Leagues /\ Entries /\ Finally
        BY <3>3 DEF SmokeIInv
      <4>2. General' /\ Leagues' /\ Finally'
        BY <3>1, <4>1 DEF General, Leagues, Pending, Finally
      <4>3. \A e : (Asked(e)' <=> Asked(e)) /\ (Smoke!Turn(e)' <=> Smoke!Turn(e))
        BY <3>1 DEF Asked, Smoke!Turn
      <4>4. Entries'
        BY <3>1, <4>1, <4>3 DEF Entries
      <4> QED BY <4>2, <4>4
    <3> QED BY <3>1, <3>2, <3>3 DEF SmokeIInv
  <2>2. CASE Smoke!Next
    BY <2>2, GeneralSteps, LeagueSteps, LeaguesDoneStep, EntrySteps, TransfersStep, FinalSteps, EndSteps
       DEF Smoke!Next
  <2> QED BY <2>1, <2>2
<1>3. SmokeIInv => Smoke!PassDecidesAll
  BY DEF SmokeIInv
<1> QED BY <1>1, <1>2, <1>3, PTL DEF Smoke!Spec
=============================================================================
