----------------------------- MODULE SyncRunProofs -----------------------------
(***************************************************************************)
(* SyncRun for any number of runs, locks, processes and members: the type  *)
(* invariant, the finality of a run's status, crash recovery, the silence  *)
(* of stale runs and what a SUCCESS speaks for.                            *)
(***************************************************************************)
EXTENDS SyncRun, TLAPS

\* The steps before a run's document is inserted, and those in which it is
\* there and the run has not finished.
Early == {"idle", "acquire", "enter", "mark", "insert"}
Fetched == {"freeBoot", "players", "T2", "T3", "live", "semantics", "finish"}
Body == {"enterBody", "fetch", "waitBoot", "T1"} \cup Fetched

\* A run's document follows the run: none before it is inserted, RUNNING until
\* it is finished or abandoned; a decision has none.
Documented ==
  \A r \in Run :
    /\ pc[r] \in Early => status[r] = "none"
    /\ pc[r] \in Body => status[r] \in {"RUNNING", "ABANDONED"}
    /\ pc[r] = "T4" /\ job[r] # "decision" => status[r] \in Final
    /\ job[r] = "decision" => status[r] = "none" /\ pc[r] \notin Body \cup {"mark", "insert"}

\* A shutdown sees a run from Enter to Release.  What it has marked and is not
\* final has not begun its body, and finds its process closing when it does.
Swept ==
  \A r \in Run :
    /\ r \in active \/ sweep[r] # "no" => pc[r] \notin {"idle", "acquire", "enter", "ended"}
    /\ sweep[r] = "marked" /\ status[r] \notin Final =>
         /\ home[r] \in closing
         /\ \/ pc[r] \in {"mark", "insert", "enterBody", "release"}
            \/ pc[r] = "finish" /\ outcome[r] = "FAILED"

\* A lock's epoch bounds the tokens of its runs, and the run it names has it.
Tokened ==
  \A r \in Run :
    /\ token[r] <= epoch[target[r]]
    /\ owner[target[r]] = r => token[r] = epoch[target[r]]
    /\ pc[r] = "waitBoot" => target[r] # Boot

\* The runs that had ended have lower tokens, so that Mark reaches them.
Recovered ==
  \A r, s \in Run : s \in gone[r] =>
    /\ target[s] = target[r] /\ token[s] < token[r] /\ pc[s] = "ended"
    /\ pc[r] = "insert" \/ status[r] # "none" => status[s] # "RUNNING"

\* While a run's body has earned nothing worse than SUCCESS, nothing of what it
\* is past was skipped.
Earned ==
  \A r \in Run :
    /\ job[r] = "members" => pc[r] \notin Body \ {"enterBody", "T2", "finish"}
    /\ outcome[r] = "SUCCESS" =>
         /\ handled[r] \subseteq written[r]
         /\ pc[r] \in Fetched /\ job[r] # "members" => "T1" \in written[r]
         /\ pc[r] \in {"live", "semantics"} => Member \subseteq written[r]
         /\ pc[r] = "finish" /\ job[r] \in {"group", "finalize"} => Member \subseteq written[r]
         /\ pc[r] = "finish" /\ job[r] = "members" => "T2" \in written[r]

\* SuccessIsComplete, one implication per kind of job.
SuccessEarned ==
  \A r \in Run : status[r] = "SUCCESS" =>
    /\ job[r] \in {"group", "finalize"} => {"T1"} \cup Member \subseteq written[r]
    /\ job[r] = "bootstrap" => "T1" \in written[r]
    /\ job[r] = "members" => "T2" \in written[r]

IInv ==
  /\ TypeOK
  /\ Documented
  /\ Swept
  /\ Tokened
  /\ Recovered
  /\ Earned
  /\ SuccessEarned

-----------------------------------------------------------------------------
\* The initial states satisfy the invariant: no run has begun.
LEMMA InitIInv == Init => IInv
<1> SUFFICES ASSUME Init
             PROVE  IInv
  OBVIOUS
<1> USE SyncAssumption DEF Init
<1>1. TypeOK
  BY DEF TypeOK, Steps, Statuses, Lock
<1>2. Documented /\ Swept /\ SuccessEarned
  BY DEF Documented, Swept, SuccessEarned, Early, Body, Fetched, Final
<1>3. Tokened /\ Recovered
  BY DEF Tokened, Recovered, Lock
<1>4. Earned
  BY DEF Earned, Body, Fetched
<1>5. QED
  BY <1>1, <1>2, <1>3, <1>4 DEF IInv

\* Every step keeps the variables well typed. What needs an argument is
\* Finish, which takes over the stored status: once a document exists it
\* is a status a run can have earned.
LEMMA TypeOKKept == IInv /\ Next => TypeOK'
<1> SUFFICES ASSUME IInv, Next
             PROVE  TypeOK'
  OBVIOUS
<1> USE SyncAssumption DEF IInv, TypeOK, Documented, Steps, Statuses, Final, Writes,
      Guarded, Lock, Body, Fetched, At, Go, Earn, locks, request, lease, progress,
      documents, processes
<1>1. ASSUME NEW r \in Run, Begin(r)
      PROVE  TypeOK'
  BY <1>1 DEF Begin
<1>2. ASSUME NEW r \in Run, Acquire(r)
      PROVE  TypeOK'
  <2>1. CASE GrantLock(target[r], r)
    BY <1>2, <2>1 DEF Acquire, GrantLock
  <2>2. CASE ~GrantLock(target[r], r)
    BY <1>2, <2>2 DEF Acquire
  <2>3. QED
    BY <2>1, <2>2
<1>3. ASSUME NEW r \in Run, Enter(r)
      PROVE  TypeOK'
  BY <1>3 DEF Enter
<1>4. ASSUME NEW r \in Run, Mark(r)
      PROVE  TypeOK'
  BY <1>4 DEF Mark, MarkAbandoned
<1>5. ASSUME NEW r \in Run, Insert(r)
      PROVE  TypeOK'
  BY <1>5 DEF Insert
<1>6. ASSUME NEW r \in Run, StartFails(r)
      PROVE  TypeOK'
  BY <1>6 DEF StartFails
<1>7. ASSUME NEW r \in Run, EnterBody(r)
      PROVE  TypeOK'
  BY <1>7 DEF EnterBody, Throw
<1>8. ASSUME NEW r \in Run, Fetch(r) \/ Players(r)
      PROVE  TypeOK'
  BY <1>8 DEF Fetch, Players, EnsureLease, Throw
<1>9. ASSUME NEW r \in Run, WaitBoot(r)
      PROVE  TypeOK'
  <2>1. CASE GrantLock(Boot, r)
    BY <1>9, <2>1 DEF WaitBoot, GrantLock, Throw
  <2>2. CASE ~GrantLock(Boot, r)
    BY <1>9, <2>2 DEF WaitBoot, Throw
  <2>3. QED
    BY <2>1, <2>2
<1>10. ASSUME NEW r \in Run, T1(r) \/ T2(r)
      PROVE  TypeOK'
  BY <1>10 DEF T1, T2, Write, Throw
<1>11. ASSUME NEW r \in Run, (\E m \in Member : T3(r, m))
      PROVE  TypeOK'
  BY <1>11 DEF T3, Throw, Write
<1>12. ASSUME NEW r \in Run, T4(r)
      PROVE  TypeOK'
  BY <1>12 DEF T4, Write
<1>13. ASSUME NEW r \in Run, FreeBoot(r)
      PROVE  TypeOK'
  BY <1>13 DEF FreeBoot, FreeLock
<1>14. ASSUME NEW r \in Run, EndT3(r) \/ Live(r) \/ Semantics(r)
      PROVE  TypeOK'
  BY <1>14 DEF EndT3, Live, Semantics, EnsureLease, Throw
<1>15. ASSUME NEW r \in Run, Finish(r)
      PROVE  TypeOK'
  <2>1. status[r] # "RUNNING" => status[r] = "ABANDONED"
    BY <1>15 DEF Finish
  <2>2. outcome' \in [Run -> {"SUCCESS", "PARTIAL", "FAILED", "ABANDONED"}]
    BY <1>15, <2>1 DEF Finish
  <2>3. status' \in [Run -> Statuses]
    BY <1>15 DEF Finish
  <2>4. pc' \in [Run -> Steps] /\ beating' \in [Run -> BOOLEAN]
    BY <1>15 DEF Finish, StopBeating
  <2>5. QED
    BY <1>15, <2>2, <2>3, <2>4 DEF Finish, StopBeating
<1>16. ASSUME NEW r \in Run, Release(r)
      PROVE  TypeOK'
  BY <1>16 DEF Release, SendRelease, FreeLock, Forget
<1>17. ASSUME NEW r \in Run, ShutdownMark(r)
      PROVE  TypeOK'
  BY <1>17 DEF ShutdownMark, MarkAbandoned
<1>18. ASSUME NEW r \in Run, ShutdownRelease(r)
      PROVE  TypeOK'
  BY <1>18 DEF ShutdownRelease, SendRelease, FreeLock
<1>19. ASSUME NEW p \in Process, Close(p)
      PROVE  TypeOK'
  BY <1>19 DEF Close
<1>20. ASSUME NEW p \in Process, Crash(p)
      PROVE  TypeOK'
  BY <1>20 DEF Crash, Forget
<1>21. ASSUME NEW l \in Lock, Expire(l)
      PROVE  TypeOK'
  BY <1>21 DEF Expire
<1>22. QED
  BY <1>1, <1>2, <1>3, <1>4, <1>5, <1>6, <1>7, <1>8, <1>9, <1>10, <1>11, <1>12,
     <1>13, <1>14, <1>15, <1>16, <1>17, <1>18, <1>19, <1>20, <1>21 DEF Next, StepOf

\* Every step keeps a run and its document in step: only Insert creates
\* it, and it is RUNNING or ABANDONED until Finish.
LEMMA DocumentedKept == IInv /\ Next => Documented'
<1> SUFFICES ASSUME IInv, Next
             PROVE  Documented'
  OBVIOUS
<1> USE SyncAssumption DEF IInv, Documented, TypeOK, Statuses, Final, Early, Body,
      Fetched, At, Go, Earn, locks, request, lease, progress, documents, processes
<1>1. ASSUME NEW r \in Run, Begin(r) \/ Acquire(r) \/ Enter(r) \/ StartFails(r)
      PROVE  Documented'
  BY <1>1 DEF Begin, Acquire, Enter, StartFails, Free, GrantLock
<1>2. ASSUME NEW r \in Run, Mark(r) \/ ShutdownMark(r)
      PROVE  Documented'
  BY <1>2 DEF Mark, ShutdownMark, MarkAbandoned
<1>3. ASSUME NEW r \in Run, Insert(r)
      PROVE  Documented'
  BY <1>3 DEF Insert
<1>4. ASSUME NEW r \in Run, EnterBody(r) \/ Fetch(r) \/ WaitBoot(r) \/ T1(r) \/
             FreeBoot(r) \/ Players(r)
      PROVE  Documented'
  BY <1>4 DEF EnterBody, Fetch, WaitBoot, T1, FreeBoot, Players, Throw, EnsureLease,
         Free, GrantLock, Write, FreeLock
<1>5. ASSUME NEW r \in Run, T2(r) \/ (\E m \in Member : T3(r, m)) \/ EndT3(r) \/
             Live(r) \/ Semantics(r)
      PROVE  Documented'
  BY <1>5 DEF T2, T3, EndT3, Live, Semantics, Throw, Write, EnsureLease
<1>6. ASSUME NEW r \in Run, Finish(r)
      PROVE  Documented'
  BY <1>6 DEF Finish, StopBeating
<1>7. ASSUME NEW r \in Run, T4(r) \/ Release(r)
      PROVE  Documented'
  BY <1>7 DEF T4, Release, Write, SendRelease, FreeLock, Forget
<1>8. ASSUME NEW r \in Run, ShutdownRelease(r)
      PROVE  Documented'
  BY <1>8 DEF ShutdownRelease, SendRelease, FreeLock
<1>9. ASSUME NEW p \in Process, Close(p) \/ Crash(p)
      PROVE  Documented'
  BY <1>9 DEF Close, Crash, Forget
<1>10. ASSUME NEW l \in Lock, Expire(l)
      PROVE  Documented'
  BY <1>10 DEF Expire
<1>11. QED
  BY <1>1, <1>2, <1>3, <1>4, <1>5, <1>6, <1>7, <1>8, <1>9, <1>10 DEF Next, StepOf

\* Every step keeps what a shutdown has marked away from its body: the
\* mark reaches a document that is RUNNING, and where there is none yet,
\* EnterBody finds the process closing.
LEMMA SweptKept == IInv /\ Next => Swept'
<1> SUFFICES ASSUME IInv, Next
             PROVE  Swept'
  OBVIOUS
<1> USE SyncAssumption DEF IInv, Swept, Documented, TypeOK, Statuses, Final, Early,
      Body, Fetched, At, Go, Earn, locks, request, lease, progress, documents,
      processes
<1>1. ASSUME NEW r \in Run, Begin(r) \/ Acquire(r) \/ Enter(r) \/ Mark(r)
      PROVE  Swept'
  BY <1>1 DEF Begin, Acquire, Enter, Mark, Free, GrantLock, MarkAbandoned
<1>2. ASSUME NEW r \in Run, Insert(r) \/ StartFails(r)
      PROVE  Swept'
  BY <1>2 DEF Insert, StartFails
<1>3. ASSUME NEW r \in Run, EnterBody(r)
      PROVE  Swept'
  BY <1>3 DEF EnterBody, Throw
<1>4. ASSUME NEW r \in Run, Fetch(r) \/ WaitBoot(r) \/ T1(r) \/ FreeBoot(r) \/
             Players(r)
      PROVE  Swept'
  BY <1>4 DEF Fetch, WaitBoot, T1, FreeBoot, Players, EnsureLease, Throw, Free,
         GrantLock, Write, FreeLock
<1>5. ASSUME NEW r \in Run, T2(r) \/ (\E m \in Member : T3(r, m)) \/ EndT3(r) \/
             Live(r) \/ Semantics(r)
      PROVE  Swept'
  BY <1>5 DEF T2, T3, EndT3, Live, Semantics, Throw, Write, EnsureLease
<1>6. ASSUME NEW r \in Run, Finish(r)
      PROVE  Swept'
  BY <1>6 DEF Finish, StopBeating
<1>7. ASSUME NEW r \in Run, T4(r)
      PROVE  Swept'
  BY <1>7 DEF T4, Write
<1>8. ASSUME NEW r \in Run, Release(r)
      PROVE  Swept'
  BY <1>8 DEF Release, SendRelease, FreeLock, Forget
<1>9. ASSUME NEW r \in Run, ShutdownMark(r)
      PROVE  Swept'
  <2>1. CASE sweep' = [sweep EXCEPT ![r] = "marked"]
    <3>1. \A s \in Run : status'[s] \in {status[s], "ABANDONED"}
      BY <1>9 DEF ShutdownMark, MarkAbandoned
    <3>2. status[r] = "RUNNING" => status'[r] \in Final
      BY <1>9, <2>1 DEF ShutdownMark, MarkAbandoned
    <3>3. status[r] = "none" /\ job[r] # "decision" => pc[r] \in {"mark", "insert", "release"}
      BY <1>9 DEF ShutdownMark, Steps
    <3>4. job[r] # "decision"
      BY <1>9, <2>1 DEF ShutdownMark
    <3>5. QED
      BY <1>9, <2>1, <3>1, <3>2, <3>3, <3>4 DEF ShutdownMark
  <2>2. CASE sweep' = [sweep EXCEPT ![r] = "unmarked"] /\ UNCHANGED status
    BY <1>9, <2>2 DEF ShutdownMark
  <2>3. QED
    BY <1>9, <2>1, <2>2 DEF ShutdownMark
<1>10. ASSUME NEW r \in Run, ShutdownRelease(r)
      PROVE  Swept'
  BY <1>10 DEF ShutdownRelease, SendRelease, FreeLock
<1>11. ASSUME NEW p \in Process, Close(p) \/ Crash(p)
      PROVE  Swept'
  BY <1>11 DEF Close, Crash, Forget
<1>12. ASSUME NEW l \in Lock, Expire(l)
      PROVE  Swept'
  BY <1>12 DEF Expire
<1>13. QED
  BY <1>1, <1>2, <1>3, <1>4, <1>5, <1>6, <1>7, <1>8, <1>9, <1>10, <1>11, <1>12 DEF
     Next, StepOf

\* Every step keeps a lock's epoch above the tokens of its runs. WaitBoot
\* grants the bootstrap lock to runs of other locks, whose own tokens it
\* leaves alone.
LEMMA TokenedKept == IInv /\ Next => Tokened'
<1> SUFFICES ASSUME IInv, Next
             PROVE  Tokened'
  OBVIOUS
<1> USE SyncAssumption DEF IInv, Tokened, TypeOK, Lock, At, Go, Earn, locks,
      request, lease, progress, documents, processes
<1>1. ASSUME NEW r \in Run, Acquire(r)
      PROVE  Tokened'
  BY <1>1 DEF Acquire, Free, GrantLock
<1>2. ASSUME NEW r \in Run, WaitBoot(r)
      PROVE  Tokened'
  BY <1>2 DEF WaitBoot, Free, GrantLock, Throw
<1>3. ASSUME NEW r \in Run, Fetch(r)
      PROVE  Tokened'
  BY <1>3 DEF Fetch, EnsureLease, Throw
<1>4. ASSUME NEW r \in Run, FreeBoot(r) \/ Release(r) \/ ShutdownRelease(r)
      PROVE  Tokened'
  BY <1>4 DEF FreeBoot, Release, ShutdownRelease, FreeLock, SendRelease, Forget
<1>5. ASSUME NEW r \in Run, Begin(r) \/ Enter(r) \/ Mark(r) \/ Insert(r) \/
             StartFails(r) \/ EnterBody(r) \/ T1(r) \/ Players(r)
      PROVE  Tokened'
  BY <1>5 DEF Begin, Enter, Mark, Insert, StartFails, EnterBody, T1, Players,
         MarkAbandoned, Throw, Write, EnsureLease
<1>6. ASSUME NEW r \in Run, T2(r) \/ (\E m \in Member : T3(r, m)) \/ EndT3(r) \/
             Live(r)
      PROVE  Tokened'
  BY <1>6 DEF T2, T3, EndT3, Live, Throw, Write, EnsureLease
<1>7. ASSUME NEW r \in Run, Semantics(r) \/ Finish(r) \/ T4(r)
      PROVE  Tokened'
  BY <1>7 DEF Semantics, Finish, T4, EnsureLease, Throw, StopBeating, Write
<1>8. ASSUME NEW r \in Run, ShutdownMark(r)
      PROVE  Tokened'
  BY <1>8 DEF ShutdownMark, MarkAbandoned
<1>9. ASSUME NEW p \in Process, Close(p) \/ Crash(p)
      PROVE  Tokened'
  BY <1>9 DEF Close, Crash, Forget
<1>10. ASSUME NEW l \in Lock, Expire(l)
      PROVE  Tokened'
  BY <1>10 DEF Expire
<1>11. QED
  BY <1>1, <1>2, <1>3, <1>4, <1>5, <1>6, <1>7, <1>8, <1>9, <1>10 DEF Next, StepOf

\* Every step keeps the runs that had ended below the token of the run
\* that got their lock, ended, and not RUNNING once that run is past Mark.
LEMMA RecoveredKept == IInv /\ Next => Recovered'
<1> SUFFICES ASSUME IInv, Next
             PROVE  Recovered'
  OBVIOUS
<1> USE SyncAssumption DEF IInv, Recovered, Tokened, Documented, TypeOK, Statuses,
      Early, Body, Fetched, At, Go, Earn, locks, request, lease, progress,
      documents, processes
<1>1. ASSUME NEW r \in Run, Acquire(r)
      PROVE  Recovered'
  BY <1>1 DEF Acquire, Free, GrantLock
<1>2. ASSUME NEW r \in Run, Mark(r) \/ ShutdownMark(r)
      PROVE  Recovered'
  BY <1>2 DEF Mark, ShutdownMark, MarkAbandoned
<1>3. ASSUME NEW r \in Run, Insert(r)
      PROVE  Recovered'
  BY <1>3 DEF Insert
<1>4. ASSUME NEW r \in Run, Finish(r)
      PROVE  Recovered'
  BY <1>4 DEF Finish, StopBeating
<1>5. ASSUME NEW r \in Run, Release(r)
      PROVE  Recovered'
  BY <1>5 DEF Release, SendRelease, FreeLock, Forget
<1>6. ASSUME NEW r \in Run, Begin(r) \/ Enter(r) \/ StartFails(r) \/ EnterBody(r) \/
             Fetch(r) \/ WaitBoot(r) \/ T1(r) \/ FreeBoot(r) \/ Players(r)
      PROVE  Recovered'
  BY <1>6 DEF Begin, Enter, StartFails, EnterBody, Fetch, WaitBoot, T1, FreeBoot,
         Players, Throw, EnsureLease, Free, GrantLock, Write, FreeLock
<1>7. ASSUME NEW r \in Run, T2(r) \/ (\E m \in Member : T3(r, m)) \/ EndT3(r) \/
             Live(r) \/ Semantics(r) \/ T4(r) \/ ShutdownRelease(r)
      PROVE  Recovered'
  BY <1>7 DEF T2, T3, EndT3, Live, Semantics, T4, ShutdownRelease, Throw, Write,
         EnsureLease, SendRelease, FreeLock
<1>8. ASSUME NEW p \in Process, Close(p) \/ Crash(p)
      PROVE  Recovered'
  BY <1>8 DEF Close, Crash, Forget
<1>9. ASSUME NEW l \in Lock, Expire(l)
      PROVE  Recovered'
  BY <1>9 DEF Expire
<1>10. QED
  BY <1>1, <1>2, <1>3, <1>4, <1>5, <1>6, <1>7, <1>8, <1>9 DEF Next, StepOf

\* Every step keeps a body that has earned SUCCESS free of skipped stages.
LEMMA EarnedKept == IInv /\ Next => Earned'
<1> SUFFICES ASSUME IInv, Next
             PROVE  Earned'
  OBVIOUS
<1> USE SyncAssumption DEF IInv, Earned, Documented, TypeOK, Statuses, Writes,
      Guarded, Early, Body, Fetched, At, Go, Earn, locks, request, lease, progress,
      documents, processes
<1>1. ASSUME NEW r \in Run, Begin(r) \/ Acquire(r) \/ Enter(r) \/ Mark(r) \/
             Insert(r) \/ StartFails(r)
      PROVE  Earned'
  BY <1>1 DEF Begin, Acquire, Enter, Mark, Insert, StartFails, Free, GrantLock,
         MarkAbandoned
<1>2. ASSUME NEW r \in Run, EnterBody(r) \/ Fetch(r) \/ WaitBoot(r)
      PROVE  Earned'
  BY <1>2 DEF EnterBody, Fetch, WaitBoot, Throw, EnsureLease, Free, GrantLock
<1>3. ASSUME NEW r \in Run, T1(r)
      PROVE  Earned'
  BY <1>3 DEF T1, Write
<1>4. ASSUME NEW r \in Run, FreeBoot(r)
      PROVE  Earned'
  BY <1>4 DEF FreeBoot, FreeLock
<1>5. ASSUME NEW r \in Run, Players(r)
      PROVE  Earned'
  BY <1>5 DEF Players, EnsureLease, Throw
<1>6. ASSUME NEW r \in Run, T2(r)
      PROVE  Earned'
  BY <1>6 DEF T2, Throw, Write
<1>7. ASSUME NEW r \in Run, (\E m \in Member : T3(r, m))
      PROVE  Earned'
  BY <1>7 DEF T3, Throw, Write
<1>8. ASSUME NEW r \in Run, EndT3(r)
      PROVE  Earned'
  BY <1>8 DEF EndT3
<1>9. ASSUME NEW r \in Run, Live(r) \/ Semantics(r)
      PROVE  Earned'
  BY <1>9 DEF Live, Semantics, EnsureLease, Throw
<1>10. ASSUME NEW r \in Run, Finish(r)
      PROVE  Earned'
  BY <1>10 DEF Finish, StopBeating
<1>11. ASSUME NEW r \in Run, T4(r)
      PROVE  Earned'
  BY <1>11 DEF T4, Write
<1>12. ASSUME NEW r \in Run, Release(r)
      PROVE  Earned'
  BY <1>12 DEF Release, SendRelease, FreeLock, Forget
<1>13. ASSUME NEW r \in Run, ShutdownMark(r) \/ ShutdownRelease(r)
      PROVE  Earned'
  BY <1>13 DEF ShutdownMark, ShutdownRelease, MarkAbandoned, SendRelease, FreeLock
<1>14. ASSUME NEW p \in Process, Close(p) \/ Crash(p)
      PROVE  Earned'
  BY <1>14 DEF Close, Crash, Forget
<1>15. ASSUME NEW l \in Lock, Expire(l)
      PROVE  Earned'
  BY <1>15 DEF Expire
<1>16. QED
  BY <1>1, <1>2, <1>3, <1>4, <1>5, <1>6, <1>7, <1>8, <1>9, <1>10, <1>11, <1>12,
     <1>13, <1>14, <1>15 DEF Next, StepOf

\* Every step keeps a SUCCESS complete: Finish records one only for a body
\* that has earned it, and nothing that was written is unwritten.
LEMMA SuccessEarnedKept == IInv /\ Next => SuccessEarned'
<1> SUFFICES ASSUME IInv, Next
             PROVE  SuccessEarned'
  OBVIOUS
<1> USE SyncAssumption DEF IInv, SuccessEarned, Earned, Documented, TypeOK,
      Statuses, Writes, Guarded, Early, Body, Fetched, At, Go, Earn, locks, request,
      lease, progress, documents, processes
<1>1. ASSUME NEW r \in Run, T1(r)
      PROVE  SuccessEarned'
  BY <1>1 DEF T1, Write
<1>2. ASSUME NEW r \in Run, T2(r)
      PROVE  SuccessEarned'
  BY <1>2 DEF T2, Throw, Write
<1>3. ASSUME NEW r \in Run, (\E m \in Member : T3(r, m))
      PROVE  SuccessEarned'
  BY <1>3 DEF T3, Throw, Write
<1>4. ASSUME NEW r \in Run, T4(r)
      PROVE  SuccessEarned'
  BY <1>4 DEF T4, Write
<1>5. ASSUME NEW r \in Run, Mark(r) \/ Insert(r) \/ ShutdownMark(r)
      PROVE  SuccessEarned'
  BY <1>5 DEF Mark, Insert, ShutdownMark, MarkAbandoned
<1>6. ASSUME NEW r \in Run, Finish(r)
      PROVE  SuccessEarned'
  BY <1>6 DEF Finish, StopBeating
<1>7. ASSUME NEW r \in Run, Begin(r) \/ Acquire(r) \/ Enter(r) \/ StartFails(r) \/
             EnterBody(r) \/ Fetch(r) \/ WaitBoot(r) \/ FreeBoot(r) \/ Players(r) \/
             EndT3(r) \/ Live(r) \/ Semantics(r) \/ Release(r) \/ ShutdownRelease(r)
      PROVE  SuccessEarned'
  BY <1>7 DEF Begin, Acquire, Enter, StartFails, EnterBody, Fetch, WaitBoot,
         FreeBoot, Players, EndT3, Live, Semantics, Release, ShutdownRelease, Free,
         GrantLock, Throw, EnsureLease, FreeLock, SendRelease, Forget
<1>8. ASSUME NEW p \in Process, Close(p) \/ Crash(p)
      PROVE  SuccessEarned'
  BY <1>8 DEF Close, Crash, Forget
<1>9. ASSUME NEW l \in Lock, Expire(l)
      PROVE  SuccessEarned'
  BY <1>9 DEF Expire
<1>10. QED
  BY <1>1, <1>2, <1>3, <1>4, <1>5, <1>6, <1>7, <1>8, <1>9 DEF Next, StepOf

\* A step that changes no variable keeps the invariant.
LEMMA StutterKeepsIInv == IInv /\ UNCHANGED vars => IInv'
BY DEF IInv, TypeOK, Documented, Swept, Tokened, Recovered, Earned, SuccessEarned,
       vars, locks, request, lease, progress, documents, processes

\* The invariant holds in every state of every behaviour.
LEMMA Invariant == Spec => []IInv
<1>1. IInv /\ [Next]_vars => IInv'
  <2>1. IInv /\ Next => IInv'
    BY TypeOKKept, DocumentedKept, SweptKept, TokenedKept, RecoveredKept, EarnedKept,
       SuccessEarnedKept DEF IInv
  <2>2. QED
    BY <2>1, StutterKeepsIInv
<1>2. QED
  BY InitIInv, <1>1, PTL DEF Spec

-----------------------------------------------------------------------------
\* The variables of the sync service keep their types, in particular a run's
\* earned status is always one its document may be given (syncRunRepo.finish).
THEOREM TypesHold == Spec => []TypeOK
<1>1. IInv => TypeOK
  BY DEF IInv
<1>2. QED
  BY Invariant, <1>1, PTL

\* Crash recovery reaches every run that had ended or died before a later run
\* got their lock, once that run is recorded (markAbandoned before insert).
THEOREM LeftoversAreRecovered == Spec => []LeftoversRecovered
<1>1. IInv => LeftoversRecovered
  BY DEF IInv, Recovered, LeftoversRecovered
<1>2. QED
  BY Invariant, <1>1, PTL

\* A run recorded as SUCCESS has written every stage of its job (runJob).
THEOREM SuccessIsEarned == Spec => []SuccessIsComplete
<1>1. IInv => SuccessIsComplete
  <2> SUFFICES ASSUME IInv, NEW r \in Run, status[r] = "SUCCESS"
               PROVE  CASE job[r] \in {"group", "finalize"} -> {"T1"} \cup Member \subseteq written[r]
                        [] job[r] = "bootstrap" -> "T1" \in written[r]
                        [] job[r] = "members" -> "T2" \in written[r]
    BY DEF SuccessIsComplete
  <2>1. job[r] \in AllJobs \ {"decision"}
    BY DEF IInv, TypeOK, Documented
  <2>2. CASE job[r] \in {"group", "finalize"}
    BY <2>2 DEF IInv, SuccessEarned
  <2>3. CASE job[r] = "bootstrap"
    BY <2>3 DEF IInv, SuccessEarned
  <2>4. CASE job[r] = "members"
    BY <2>4 DEF IInv, SuccessEarned
  <2>5. QED
    BY <2>1, <2>2, <2>3, <2>4 DEF AllJobs
<1>2. QED
  BY Invariant, <1>1, PTL

\* Only three steps change a run's status, and none of them one that is final:
\* crash recovery and shutdown abandon RUNNING runs, Finish moves a RUNNING one,
\* Insert finds none.
LEMMA StatusMoves ==
  ASSUME IInv, Next, NEW r \in Run, status'[r] # status[r]
  PROVE  \/ status[r] = "RUNNING" /\ status'[r] = "ABANDONED"
         \/ status[r] = "none" /\ status'[r] = "RUNNING"
         \/ status[r] = "RUNNING" /\ pc[r] = "finish" /\ status'[r] = outcome[r]
<1> USE DEF IInv, TypeOK
<1>1. CASE \E s \in Run : Mark(s) \/ ShutdownMark(s)
  BY <1>1 DEF Mark, ShutdownMark, MarkAbandoned
<1>2. CASE \E s \in Run : Insert(s)
  BY <1>2 DEF Insert, At, Documented, Early
<1>3. CASE \E s \in Run : Finish(s)
  BY <1>3 DEF Finish, At
<1>4. CASE UNCHANGED status
  BY <1>4
<1>5. QED
  <2>1. ASSUME NEW s \in Run, Begin(s) \/ Acquire(s) \/ Enter(s) \/ StartFails(s) \/ EnterBody(s)
                              \/ Fetch(s) \/ WaitBoot(s) \/ T1(s) \/ FreeBoot(s) \/ Players(s)
        PROVE  UNCHANGED status
    BY <2>1 DEF Begin, Acquire, Enter, StartFails, EnterBody, Fetch, EnsureLease, WaitBoot,
                T1, FreeBoot, Players, documents
  <2>2. ASSUME NEW s \in Run, T2(s) \/ (\E m \in Member : T3(s, m)) \/ EndT3(s) \/ Live(s)
                              \/ Semantics(s) \/ T4(s) \/ Release(s) \/ ShutdownRelease(s)
        PROVE  UNCHANGED status
    BY <2>2 DEF T2, T3, EndT3, Live, EnsureLease, Semantics, T4, Release, ShutdownRelease,
                documents
  <2>3. ASSUME (\E p \in Process : Close(p) \/ Crash(p)) \/ (\E l \in Lock : Expire(l))
        PROVE  UNCHANGED status
    BY <2>3 DEF Close, Crash, Expire, documents
  <2>4. QED
    BY <1>1, <1>2, <1>3, <1>4, <2>1, <2>2, <2>3 DEF Next, StepOf

\* A final status stays, and a run marked by a shutdown never becomes a SUCCESS
\* or PARTIAL, even if it was marked before its document existed (shutdown.js,
\* syncRunRepo.finish).
THEOREM FinalStays == Spec => FinalIsFinal
<1>1. ASSUME IInv, [Next]_vars, NEW r \in Run
      PROVE  /\ status[r] \in Final => status'[r] = status[r]
             /\ sweep[r] = "marked" /\ status[r] \notin Final
                => status'[r] \notin {"SUCCESS", "PARTIAL"}
  <2>1. CASE status'[r] = status[r]
    BY <2>1 DEF Final
  <2>2. CASE status'[r] # status[r]
    <3>1. Next
      BY <1>1, <2>2 DEF vars, documents
    <3>2. \/ status[r] = "RUNNING" /\ status'[r] = "ABANDONED"
          \/ status[r] = "none" /\ status'[r] = "RUNNING"
          \/ status[r] = "RUNNING" /\ pc[r] = "finish" /\ status'[r] = outcome[r]
      BY <1>1, <2>2, <3>1, StatusMoves
    <3>3. sweep[r] = "marked" /\ status[r] \notin Final /\ pc[r] = "finish" => outcome[r] = "FAILED"
      BY <1>1 DEF IInv, Swept
    <3>4. QED
      BY <3>2, <3>3 DEF Final
  <2>3. QED
    BY <2>1, <2>2
<1>2. IInv /\ [Next]_vars =>
        [\A r \in Run :
           /\ status[r] \in Final => status'[r] = status[r]
           /\ sweep[r] = "marked" /\ status[r] \notin Final
              => status'[r] \notin {"SUCCESS", "PARTIAL"}]_vars
  BY <1>1
<1>3. QED
  BY <1>2, Invariant, PTL DEF FinalIsFinal, Spec

\* What a step writes under the guard of a run's own lease, the run writes that
\* its lock names.
LEMMA GuardedWritesHold ==
  ASSUME IInv, Next, NEW r \in Run, written'[r] \cap Guarded # written[r] \cap Guarded
  PROVE  owner[target[r]] = r
<1> USE SyncAssumption DEF IInv, TypeOK, Guarded
<1>1. CASE \E s \in Run : T2(s) \/ T4(s) \/ (\E m \in Member : T3(s, m))
  BY <1>1 DEF T2, T3, T4, Write, Holds
<1>2. CASE \E s \in Run : T1(s)
  BY <1>2 DEF T1, Write
<1>3. CASE UNCHANGED written
  BY <1>3
<1>4. QED
  <2>1. ASSUME NEW s \in Run, Begin(s) \/ Acquire(s) \/ Enter(s) \/ Mark(s) \/ Insert(s)
                              \/ StartFails(s) \/ EnterBody(s) \/ Fetch(s) \/ WaitBoot(s)
        PROVE  UNCHANGED written
    BY <2>1 DEF Begin, Acquire, Enter, Mark, Insert, StartFails, EnterBody, Fetch, EnsureLease,
                WaitBoot, documents
  <2>2. ASSUME NEW s \in Run, FreeBoot(s) \/ Players(s) \/ EndT3(s) \/ Live(s) \/ Semantics(s)
                              \/ Finish(s) \/ Release(s) \/ ShutdownMark(s) \/ ShutdownRelease(s)
        PROVE  UNCHANGED written
    BY <2>2 DEF FreeBoot, Players, EndT3, Live, EnsureLease, Semantics, Finish, Release,
                ShutdownMark, ShutdownRelease, documents
  <2>3. ASSUME (\E p \in Process : Close(p) \/ Crash(p)) \/ (\E l \in Lock : Expire(l))
        PROVE  UNCHANGED written
    BY <2>3 DEF Close, Crash, Expire, documents
  <2>4. QED
    BY <1>1, <1>2, <1>3, <2>1, <2>2, <2>3 DEF Next, StepOf

\* Once a later run of a lock has written under its lease, an earlier one never
\* writes again: the lock names the run with the highest token (fence).
THEOREM StaleStaysSilent == Spec => StaleNeverWrites
<1>1. ASSUME IInv, [Next]_vars, NEW r \in Run, NEW s \in Run,
             target[r] = target[s], token[r] < token[s]
      PROVE  written'[r] \cap Guarded = written[r] \cap Guarded
  <2> SUFFICES ASSUME written'[r] \cap Guarded # written[r] \cap Guarded
               PROVE  FALSE
    OBVIOUS
  <2>1. Next
    BY <1>1 DEF vars, documents
  <2>2. owner[target[r]] = r
    BY <1>1, <2>1, GuardedWritesHold
  <2>3. token[r] = epoch[target[r]] /\ token[s] <= epoch[target[s]]
    BY <1>1, <2>2 DEF IInv, Tokened
  <2>4. epoch[target[r]] \in Nat /\ token[r] \in Nat /\ token[s] \in Nat
    BY <1>1 DEF IInv, TypeOK
  <2>5. QED
    BY <1>1, <2>3, <2>4
<1>2. IInv /\ [Next]_vars =>
        [\A r, s \in Run :
           /\ target[r] = target[s] /\ token[r] < token[s]
           /\ written[s] \cap Guarded # {}
           => written'[r] \cap Guarded = written[r] \cap Guarded]_vars
  BY <1>1
<1>3. QED
  BY <1>2, Invariant, PTL DEF StaleNeverWrites, Spec
=============================================================================
