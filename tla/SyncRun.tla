------------------------------- MODULE SyncRun -------------------------------
(***************************************************************************)
(* Sync runs (sync/syncService.js): every job of the sync service under    *)
(* its lease, in several processes that crash, stall and shut down.        *)
(*                                                                         *)
(* A step of a run is what it does between two awaits: one statement the   *)
(* database evaluates, or one transaction.  Between two steps of a run     *)
(* anything else may happen; in particular its lease may run out, because  *)
(* a process may stall for longer than the lease lasts.  Locks are the     *)
(* locks of module LeaseLock seen from here: who is named, with which      *)
(* token, and whether the lease has run out; a fenced transaction is one   *)
(* step because the lock document stays written from its fence to its      *)
(* commit.                                                                 *)
(***************************************************************************)
EXTENDS Naturals, FiniteSets

CONSTANTS
  Run,      \* runs; a run id is its lease's owner and is never used again
  NoRun,    \* owner: null
  Process,  \* operating-system processes; a restart is another process
  Group,    \* groups, each with its lock sync:group:<id>
  Boot,     \* the lock sync:bootstrap
  Member,   \* members of a group
  Work,     \* bound: the combinations of jobs that are started
  MayClose, \* bound: the processes that may shut down
  MayCrash, \* bound: the processes that may crash
  MayFail,  \* bound: the runs whose release, and shutdown's mark, may fail
  MayStall  \* bound: the runs that may stall for longer than their lease lasts

Lock == Group \cup {Boot}
AllJobs == {"group", "finalize", "bootstrap", "members", "decision"}

ASSUME SyncAssumption ==
  /\ NoRun \notin Run
  /\ Boot \notin Group
  /\ Member \cap {"T1", "T2", "T4"} = {}
  /\ Work \subseteq [Run -> AllJobs]
  /\ MayClose \subseteq Process
  /\ MayCrash \subseteq Process
  /\ MayFail \subseteq Run
  /\ MayStall \subseteq Run

VARIABLES
  owner,     \* per lock: the run its document names
  epoch,     \* per lock: fencingToken
  expired,   \* per lock: expiresAt <= $$NOW
  job,       \* per run: what it is for; this and the next two never change
  home,      \* per run: its process
  target,    \* per run: its lockId
  pc,        \* per run: the step it takes next
  token,     \* per run: its lease's fencingToken
  beating,   \* per run: its heartbeat timer runs
  released,  \* per run: its Lease object's `released`
  outcome,   \* per run: the status its body has earned so far
  handled,   \* per run: the members membersSyncStage is done with
  status,    \* per run: status of its syncRuns document
  written,   \* per run: what it has written in transactions
  closing,   \* processes that began to shut down
  dead,      \* processes that are gone
  active,    \* runs in the `active` map of their process
  sweep,     \* per run: how far shutdown() got with it
  gone       \* history, per run: the runs of its lock that had ended, or died,
             \* when it got its lease

locks == <<owner, epoch, expired>>
request == <<job, home, target>>
lease == <<token, beating, released, gone>>
progress == <<outcome, handled>>
documents == <<status, written>>
processes == <<closing, dead, active, sweep>>
vars == <<locks, request, pc, lease, progress, documents, processes>>

Steps == {"idle", "acquire", "enter", "mark", "insert", "enterBody",
          "fetch", "waitBoot", "T1", "freeBoot", "players", "T2", "T3", "live", "semantics",
          "finish", "T4", "release", "ended"}
Statuses == {"none", "RUNNING", "SUCCESS", "PARTIAL", "FAILED", "ABANDONED"}
Final == {"SUCCESS", "PARTIAL", "FAILED", "ABANDONED"}

\* Written in a transaction fenced on the run's own lease.
Guarded == {"T2", "T4"} \cup Member
Writes == Guarded \cup {"T1"}

TypeOK ==
  /\ owner \in [Lock -> Run \cup {NoRun}]
  /\ epoch \in [Lock -> Nat]
  /\ expired \in [Lock -> BOOLEAN]
  /\ job \in [Run -> AllJobs]
  /\ home \in [Run -> Process]
  /\ target \in [Run -> Lock]
  /\ pc \in [Run -> Steps]
  /\ token \in [Run -> Nat]
  /\ beating \in [Run -> BOOLEAN]
  /\ released \in [Run -> BOOLEAN]
  /\ outcome \in [Run -> {"SUCCESS", "PARTIAL", "FAILED", "ABANDONED"}]
  /\ handled \in [Run -> SUBSET Member]
  /\ status \in [Run -> Statuses]
  /\ written \in [Run -> SUBSET Writes]
  /\ closing \in SUBSET Process
  /\ dead \in SUBSET Process
  /\ active \in SUBSET Run
  /\ sweep \in [Run -> {"no", "marked", "unmarked"}]
  /\ gone \in [Run -> SUBSET Run]

Init ==
  /\ owner = [l \in Lock |-> NoRun]
  /\ epoch = [l \in Lock |-> 0]
  /\ expired = [l \in Lock |-> FALSE]
  /\ job \in Work
  /\ home \in [Run -> Process]
  /\ target \in [Run -> Lock]
  /\ \A r \in Run : job[r] = "bootstrap" <=> target[r] = Boot
  /\ pc = [r \in Run |-> "idle"]
  /\ token = [r \in Run |-> 0]
  /\ beating = [r \in Run |-> FALSE]
  /\ released = [r \in Run |-> FALSE]
  /\ outcome = [r \in Run |-> "SUCCESS"]
  /\ handled = [r \in Run |-> {}]
  /\ status = [r \in Run |-> "none"]
  /\ written = [r \in Run |-> {}]
  /\ closing = {}
  /\ dead = {}
  /\ active = {}
  /\ sweep = [r \in Run |-> "no"]
  /\ gone = [r \in Run |-> {}]

-----------------------------------------------------------------------------
(* Locks and control flow, as the steps below use them. *)

Free(l) == owner[l] = NoRun \/ expired[l]

GrantLock(l, r) ==
  /\ owner' = [owner EXCEPT ![l] = r]
  /\ epoch' = [epoch EXCEPT ![l] = @ + 1]
  /\ expired' = [expired EXCEPT ![l] = FALSE]

\* The owner's release sets owner: null and expiresAt: $$NOW; anyone else's
\* matches nothing.  It may fail: the error is swallowed.
FreeLock(l, r) ==
  \/ /\ owner[l] = r
     /\ owner' = [owner EXCEPT ![l] = NoRun]
     /\ expired' = [expired EXCEPT ![l] = TRUE]
     /\ UNCHANGED epoch
  \/ (owner[l] # r \/ r \in MayFail) /\ UNCHANGED locks

\* What a heartbeat or a fence of the run's own lease finds.
Holds(r) == ~released[r] /\ owner[target[r]] = r /\ ~expired[target[r]]

\* What the fence of T1 finds on the bootstrap lock.
HoldsBoot(r) ==
  IF target[r] = Boot THEN Holds(r) ELSE owner[Boot] = r /\ ~expired[Boot]

At(r, step) == pc[r] = step
Go(r, step) == pc' = [pc EXCEPT ![r] = step]
Earn(r, st) == outcome' = [outcome EXCEPT ![r] = st]

\* A plausible bug: a status the document does not know.
ThrowUnnamed(r) == Go(r, "finish") /\ Earn(r, "ERROR")

\* The body throws: the run finishes as FAILED.
Throw(r) == Go(r, "finish") /\ Earn(r, "FAILED")

Write(r, what) == written' = [written EXCEPT ![r] = @ \cup {what}]

\* if (!released) the release statement.
SendRelease(r) == IF released[r] THEN UNCHANGED locks ELSE FreeLock(target[r], r)

\* A plausible bug: nobody stops the heartbeat timer.
ForgetButBeat(runs) ==
  /\ pc' = [r \in Run |-> IF r \in runs THEN "ended" ELSE pc[r]]
  /\ released' = [r \in Run |-> r \notin runs /\ released[r]]
  /\ outcome' = [r \in Run |-> IF r \in runs THEN "SUCCESS" ELSE outcome[r]]
  /\ handled' = [r \in Run |-> IF r \in runs THEN {} ELSE handled[r]]
  /\ sweep' = [r \in Run |-> IF r \in runs THEN "no" ELSE sweep[r]]
  /\ active' = active \ runs
  /\ UNCHANGED beating

\* Runs that ended, or died with their process: of their objects and timers
\* nothing is left.
Forget(runs) ==
  /\ pc' = [r \in Run |-> IF r \in runs THEN "ended" ELSE pc[r]]
  /\ beating' = [r \in Run |-> r \notin runs /\ beating[r]]
  /\ released' = [r \in Run |-> r \notin runs /\ released[r]]
  /\ outcome' = [r \in Run |-> IF r \in runs THEN "SUCCESS" ELSE outcome[r]]
  /\ handled' = [r \in Run |-> IF r \in runs THEN {} ELSE handled[r]]
  /\ sweep' = [r \in Run |-> IF r \in runs THEN "no" ELSE sweep[r]]
  /\ active' = active \ runs

\* A plausible bug: the token itself, not the ones below it.
MarkSameToken(l, t) ==
  status' = [s \in Run |->
    IF target[s] = l /\ status[s] = "RUNNING" /\ token[s] = t THEN "ABANDONED" ELSE status[s]]

\* syncRunRepo.markAbandoned
MarkAbandoned(l, t) ==
  status' = [s \in Run |->
    IF target[s] = l /\ status[s] = "RUNNING" /\ token[s] < t THEN "ABANDONED" ELSE status[s]]
-----------------------------------------------------------------------------
(* runJob up to the body, and withGroupLease. *)

\* Requests and ticks come at any time, until the process is closing.
Begin(r) ==
  /\ At(r, "idle")
  /\ home[r] \notin closing \cup dead
  /\ Go(r, "acquire")
  /\ UNCHANGED <<locks, request, lease, progress, documents, processes>>

\* tryAcquireLease: granted, or LockBusyError.
Acquire(r) ==
  /\ At(r, "acquire")
  /\ \/ /\ Free(target[r])
        /\ GrantLock(target[r], r)
        /\ token' = [token EXCEPT ![r] = epoch[target[r]] + 1]
        /\ gone' = [gone EXCEPT ![r] = {s \in Run : pc[s] = "ended" /\ target[s] = target[r]}]
        /\ Go(r, "enter")
     \/ /\ ~Free(target[r])
        /\ Go(r, "ended")
        /\ UNCHANGED <<locks, token, gone>>
  /\ UNCHANGED <<request, beating, released, progress, documents, processes>>

\* active.set, then the check that a shutdown which began meanwhile did not
\* miss the run; a run refused here has no syncRuns document.
Enter(r) ==
  /\ At(r, "enter")
  /\ \/ /\ home[r] \in closing
        /\ Go(r, "release")
        /\ UNCHANGED <<active, beating>>
     \/ /\ home[r] \notin closing
        /\ active' = active \cup {r}
        /\ beating' = [beating EXCEPT ![r] = TRUE]
        /\ Go(r, IF job[r] = "decision" THEN "T4" ELSE "mark")
  /\ UNCHANGED <<locks, request, token, released, gone, progress, documents, closing, dead, sweep>>

\* Crash recovery for the earlier runs of this lock.
Mark(r) ==
  /\ At(r, "mark")
  /\ MarkAbandoned(target[r], token[r])
  /\ Go(r, "insert")
  /\ UNCHANGED <<locks, request, lease, progress, written, processes>>

Insert(r) ==
  /\ At(r, "insert")
  /\ status' = [status EXCEPT ![r] = "RUNNING"]
  /\ Go(r, "enterBody")
  /\ UNCHANGED <<locks, request, lease, progress, written, processes>>

\* Either statement fails: the catch block gives the lease back.
StartFails(r) ==
  /\ At(r, "mark") \/ At(r, "insert")
  /\ Go(r, "release")
  /\ active' = active \ {r}
  /\ beating' = [beating EXCEPT ![r] = FALSE]
  /\ UNCHANGED <<locks, request, token, released, gone, progress, documents, closing, dead, sweep>>

\* A plausible bug: the body starts without the second look at `closing`.
EnterBodyUnchecked(r) ==
  /\ At(r, "enterBody")
  /\ Go(r, IF job[r] = "members" THEN "T2" ELSE "fetch")
  /\ UNCHANGED <<locks, request, lease, progress, documents, processes>>

EnterBody(r) ==
  /\ At(r, "enterBody")
  /\ \/ home[r] \in closing /\ Throw(r)
     \/ /\ home[r] \notin closing
        /\ Go(r, IF job[r] = "members" THEN "T2" ELSE "fetch")
        /\ UNCHANGED outcome
  /\ UNCHANGED <<locks, request, lease, handled, documents, processes>>
-----------------------------------------------------------------------------
(* The body: bootstrapStage. *)

\* ensureLease: a heartbeat that finds the lease lost is LOCK_LOST and fails
\* the run.
EnsureLease(r, next) ==
  /\ \/ Holds(r) /\ Go(r, next) /\ UNCHANGED outcome
     \/ ~Holds(r) /\ Throw(r)
  /\ UNCHANGED <<locks, request, lease, handled, documents, processes>>

\* Bootstrap and fixtures arrive and the lease is checked, or the fetch, the
\* season check or the chip rules fail.
Fetch(r) ==
  /\ At(r, "fetch")
  /\ \/ EnsureLease(r, IF target[r] = Boot THEN "T1" ELSE "waitBoot")
     \/ Throw(r) /\ UNCHANGED <<locks, request, lease, handled, documents, processes>>

\* acquireLease polls the bootstrap lock for up to waitMs. Its lease is in no
\* map, and has no heartbeat.
WaitBoot(r) ==
  /\ At(r, "waitBoot")
  /\ \/ Free(Boot) /\ GrantLock(Boot, r) /\ Go(r, "T1") /\ UNCHANGED outcome
     \/ ~Free(Boot) /\ Throw(r) /\ UNCHANGED locks
  /\ UNCHANGED <<request, lease, handled, documents, processes>>

\* T1 is fenced on the bootstrap lock alone.
T1(r) ==
  /\ At(r, "T1")
  /\ \/ HoldsBoot(r) /\ Write(r, "T1") /\ UNCHANGED outcome
     \/ Earn(r, "FAILED") /\ UNCHANGED written
  /\ Go(r, "freeBoot")
  /\ UNCHANGED <<locks, request, lease, handled, status, processes>>

\* finally: the bootstrap lease goes back, unless it is the run's own.
FreeBoot(r) ==
  /\ At(r, "freeBoot")
  /\ IF target[r] = Boot THEN UNCHANGED locks ELSE FreeLock(Boot, r)
  /\ Go(r, IF outcome[r] = "FAILED" THEN "finish" ELSE "players")
  /\ UNCHANGED <<request, lease, progress, documents, processes>>

\* Players are written after a check, outside any transaction.
Players(r) ==
  /\ At(r, "players")
  /\ EnsureLease(r, IF job[r] = "bootstrap" THEN "finish" ELSE "T2")

-----------------------------------------------------------------------------
(* The body: members, T3, live data, semantics. *)

\* membersStage, and the bodies of registerGroup and addMembers: written, left
\* as it is (MANUAL group, frozen league), or an error.
T2(r) ==
  /\ At(r, "T2")
  /\ LET next == IF job[r] = "members" THEN "finish" ELSE "T3" IN
     \/ Holds(r) /\ Write(r, "T2") /\ Go(r, next) /\ UNCHANGED outcome
     \/ job[r] # "members" /\ Go(r, next) /\ outcome' \in {outcome, [outcome EXCEPT ![r] = "PARTIAL"]}
        /\ UNCHANGED written
     \/ Throw(r) /\ UNCHANGED written
  /\ UNCHANGED <<locks, request, lease, handled, status, processes>>

\* A plausible bug: T3 without its fence.
T3Unfenced(r, m) ==
  /\ At(r, "T3")
  /\ m \notin handled[r]
  /\ handled' = [handled EXCEPT ![r] = @ \cup {m}]
  /\ Write(r, m)
  /\ UNCHANGED <<locks, request, pc, lease, outcome, status, processes>>

\* A plausible bug: a failed member leaves the run a success.
T3Silent(r, m) ==
  /\ At(r, "T3")
  /\ m \notin handled[r]
  /\ handled' = [handled EXCEPT ![r] = @ \cup {m}]
  /\ (Holds(r) /\ Write(r, m)) \/ UNCHANGED written
  /\ UNCHANGED <<locks, request, pc, lease, outcome, status, processes>>

\* One member: written, failed on its own, or LOCK_LOST for the whole run.
T3(r, m) ==
  /\ At(r, "T3")
  /\ m \notin handled[r]
  /\ \/ /\ handled' = [handled EXCEPT ![r] = @ \cup {m}]
        /\ UNCHANGED pc
        /\ \/ Holds(r) /\ Write(r, m) /\ UNCHANGED outcome
           \/ Earn(r, "PARTIAL") /\ UNCHANGED written
     \/ ~Holds(r) /\ Throw(r) /\ UNCHANGED <<handled, written>>
  /\ UNCHANGED <<locks, request, lease, status, processes>>

\* A plausible bug: the stage waits until every member is written.
EndT3WhenWritten(r) ==
  /\ At(r, "T3")
  /\ Member \subseteq written[r]
  /\ Go(r, "live") \/ Go(r, "semantics")
  /\ UNCHANGED <<locks, request, lease, progress, documents, processes>>

\* Every member handled. The live data are not due before the deadline.
EndT3(r) ==
  /\ At(r, "T3")
  /\ handled[r] = Member
  /\ Go(r, "live") \/ Go(r, "semantics")
  /\ UNCHANGED <<locks, request, lease, progress, documents, processes>>

\* liveStage: one document is replaced after a check, outside any transaction;
\* another error than a lost lease makes the run PARTIAL. historyStage does the
\* same for each earlier gameweek that is incomplete, where an error is only a
\* warning.
Live(r) ==
  /\ At(r, "live")
  /\ \/ EnsureLease(r, "semantics")
     \/ /\ Go(r, "semantics")
        /\ Earn(r, "PARTIAL")
        /\ UNCHANGED <<locks, request, lease, handled, documents, processes>>

\* Evidence, if there is any, is applied after a check.
Semantics(r) ==
  /\ At(r, "semantics")
  /\ \/ EnsureLease(r, "finish")
     \/ /\ (Go(r, "finish") /\ UNCHANGED outcome) \/ Throw(r)
        /\ UNCHANGED <<locks, request, lease, handled, documents, processes>>
-----------------------------------------------------------------------------
(* After the body: finish, T4 of a finalize or a decision, release. *)

StopBeating(r) ==
  /\ beating' = [beating EXCEPT ![r] = IF job[r] = "finalize" THEN @ ELSE FALSE]
  /\ UNCHANGED <<token, released, gone>>

\* A plausible bug: finish() moves a run whatever its status.
FinishAlways(r) ==
  /\ At(r, "finish")
  /\ status' = [status EXCEPT ![r] = outcome[r]]
  /\ StopBeating(r)
  /\ Go(r, IF job[r] = "finalize" THEN "T4" ELSE "release")
  /\ UNCHANGED <<locks, request, progress, written, processes>>

\* finish() moves a RUNNING run; for any other the stored status is taken over.
\* When the statement itself fails the run is left as it is.
Finish(r) ==
  /\ At(r, "finish")
  /\ \/ /\ status[r] = "RUNNING"
        /\ status' = [status EXCEPT ![r] = outcome[r]]
        /\ Go(r, IF job[r] = "finalize" THEN "T4" ELSE "release")
        /\ UNCHANGED outcome
     \/ /\ status[r] # "RUNNING"
        /\ Earn(r, status[r])
        /\ Go(r, IF job[r] = "finalize" THEN "T4" ELSE "release")
        /\ UNCHANGED status
     \/ Go(r, "release") /\ UNCHANGED <<status, outcome>>
  /\ StopBeating(r)
  /\ UNCHANGED <<locks, request, handled, written, processes>>

\* The decision: refused by its gate, by the fence, or written. The gate of a
\* finalize refuses a run that is not a SUCCESS.
T4(r) ==
  /\ At(r, "T4")
  /\ \/ Holds(r) /\ (job[r] = "finalize" => outcome[r] = "SUCCESS") /\ Write(r, "T4")
     \/ UNCHANGED written
  /\ Go(r, "release")
  /\ UNCHANGED <<locks, request, lease, progress, status, processes>>

\* finally: stopHeartbeat, release, active.delete.
Release(r) ==
  /\ At(r, "release")
  /\ SendRelease(r)
  /\ Forget({r})
  /\ UNCHANGED <<request, token, gone, documents, closing, dead>>
-----------------------------------------------------------------------------
(* Shutdown, crashes, leases running out. *)

\* SIGTERM: no new runs from here on.
Close(p) ==
  /\ p \in MayClose \ (closing \cup dead)
  /\ closing' = closing \cup {p}
  /\ UNCHANGED <<locks, request, pc, lease, progress, documents, dead, active, sweep>>

\* For each run in the map: mark it ABANDONED, an error is swallowed ...
ShutdownMark(r) ==
  /\ home[r] \in closing
  /\ r \in active
  /\ sweep[r] = "no"
  /\ beating' = [beating EXCEPT ![r] = FALSE]
  /\ \/ /\ job[r] # "decision"
        /\ MarkAbandoned(target[r], token[r] + 1)
        /\ sweep' = [sweep EXCEPT ![r] = "marked"]
     \/ /\ job[r] = "decision" \/ r \in MayFail
        /\ sweep' = [sweep EXCEPT ![r] = "unmarked"]
        /\ UNCHANGED status
  /\ UNCHANGED <<locks, request, pc, token, released, gone, progress, written, closing, dead, active>>

\* ... and give its lease back.
ShutdownRelease(r) ==
  /\ sweep[r] # "no"
  /\ ~released[r]
  /\ released' = [released EXCEPT ![r] = TRUE]
  /\ SendRelease(r)
  /\ UNCHANGED <<request, pc, token, beating, gone, progress, documents, processes>>

\* The process exits or is killed; nothing of it runs any further.
Crash(p) ==
  /\ p \in MayCrash \ dead
  /\ dead' = dead \cup {p}
  /\ closing' = closing \ {p}
  /\ Forget({r \in Run : home[r] = p /\ pc[r] # "idle"})
  /\ UNCHANGED <<locks, request, token, gone, documents>>

\* The heartbeat timer of run r keeps lock l.
Beats(r, l) == owner[l] = r /\ target[r] = l /\ beating[r]

\* A lease runs out: nobody extends it, or the process stalls for too long.
Expire(l) ==
  /\ owner[l] # NoRun
  /\ ~expired[l]
  /\ \A r \in Run : Beats(r, l) => r \in MayStall
  /\ expired' = [expired EXCEPT ![l] = TRUE]
  /\ UNCHANGED <<owner, epoch, request, pc, lease, progress, documents, processes>>

StepOf(r) ==
  \/ Acquire(r) \/ Enter(r) \/ Mark(r) \/ Insert(r) \/ StartFails(r) \/ EnterBody(r)
  \/ Fetch(r) \/ WaitBoot(r) \/ T1(r) \/ FreeBoot(r) \/ Players(r)
  \/ T2(r) \/ (\E m \in Member : T3(r, m)) \/ EndT3(r) \/ Live(r) \/ Semantics(r)
  \/ Finish(r) \/ T4(r) \/ Release(r)

Next ==
  \/ \E r \in Run :
       \/ Begin(r) \/ StepOf(r) \/ ShutdownMark(r) \/ ShutdownRelease(r)
  \/ \E p \in Process : Close(p) \/ Crash(p)
  \/ \E l \in Lock : Expire(l)

Spec == Init /\ [][Next]_vars

\* Fetches time out, polls end and statements are answered, so a run moves on
\* in a live process; nothing relies on a shutdown getting anywhere.  A lease
\* that nobody extends runs out: the heartbeat never ran, has stopped, or died
\* with its process.
Fairness ==
  /\ \A r \in Run : WF_vars(StepOf(r))
  /\ \A l \in Lock :
       WF_vars((\A r \in Run : ~Beats(r, l)) /\ Expire(l))

LiveSpec == Spec /\ Fairness
-----------------------------------------------------------------------------
\* What a run, the next acquirer or a shutdown said of a run's end stays,
\* whoever comes late (syncRunRepo.finish, markAbandoned); and once a shutdown
\* has marked a run, nothing still in flight can finish it as a success, even if
\* its document did not exist yet (shutdown.js).
FinalIsFinal ==
  [][\A r \in Run :
       /\ status[r] \in Final => status'[r] = status[r]
       /\ sweep[r] = "marked" /\ status[r] \notin Final
          => status'[r] \notin {"SUCCESS", "PARTIAL"}]_vars

\* Crash recovery: a run that had ended or died when a later run got the lock is
\* no longer RUNNING once that run has recorded itself (markAbandoned, insert).
LeftoversRecovered ==
  \A r, s \in Run :
    s \in gone[r] /\ status[r] # "none" => status[s] # "RUNNING"

\* Once a later run of a lock has written under its lease, no earlier run of it
\* writes members, member rows or a decision any more, however late it wakes up.
StaleNeverWrites ==
  [][\A r, s \in Run :
       /\ target[r] = target[s] /\ token[r] < token[s]
       /\ written[s] \cap Guarded # {}
       => written'[r] \cap Guarded = written[r] \cap Guarded]_vars

\* A SUCCESS speaks for every stage of its job: nothing was skipped or isolated
\* along the way (status of runJob; live data and members may legally be unchanged).
SuccessIsComplete ==
  \A r \in Run :
    status[r] = "SUCCESS" =>
      CASE job[r] \in {"group", "finalize"} -> {"T1"} \cup Member \subseteq written[r]
        [] job[r] = "bootstrap" -> "T1" \in written[r]
        [] job[r] = "members" -> "T2" \in written[r]

\* Every lock comes back: after its run ended, failed, crashed, was shut down,
\* or could not even send its release.
LocksComeBack == \A l \in Lock : owner[l] # NoRun ~> (owner[l] = NoRun \/ expired[l])

\* Every run that began ends, unless its process does: no two of them wait for
\* each other's locks.
RunsEnd ==
  \A r \in Run : pc[r] # "idle" ~> pc[r] = "ended"

\* docs/ARCHITECTURE.md:326, of "every T1-T3 transaction": "a stale holder can
\* never commit data after losing its lease".
TransactionsUnderLease ==
  [][\A r \in Run : \A w \in {"T1", "T2"} \cup Member :
       w \in written'[r] \ written[r] => owner[target[r]] = r]_vars
=============================================================================
