------------------------------ MODULE LeaseLock ------------------------------
(***************************************************************************)
(* One lease lock: its document in the locks collection (lockRepo.js) and  *)
(* the Lease objects of the runs that compete for it (leaseLock.js).       *)
(*                                                                         *)
(* Every database operation of lockRepo is one atomic statement evaluated  *)
(* against the server clock, so it is one action here.  What is not atomic *)
(* is the code around it: a Lease method checks its local flags, sends a   *)
(* statement and awaits it, and the statement is evaluated any time later, *)
(* or never.  `pending` holds the statements that are under way.           *)
(*                                                                         *)
(* A guarded transaction writes the lock document with its first statement *)
(* (the fence) and so keeps every other writer of the document waiting     *)
(* until it commits or aborts; `writer` is the run whose transaction has   *)
(* that write open.  A statement whose filter does not match writes        *)
(* nothing and therefore does not wait.                                    *)
(***************************************************************************)
EXTENDS Integers, Sequences, FiniteSets

CONSTANTS
  Owner,       \* lease owners: one fresh ObjectId per run, never used twice
  NoOwner,     \* owner: null
  Ttl,         \* ttlMs
  Retention,   \* what the TTL index waits after expiresAt (24 hours)
  Burst,       \* how far tokens may run ahead of the clock
  MayCrash,    \* bound: the runs whose process may crash
  MaxTime,     \* bound: no lease is granted or extended after it
  MaxCommits   \* bound: the length of the log

(***************************************************************************)
(* checkTtl requires a positive ttlMs.  Burst < Retention is the premise   *)
(* of lockRepo's header: "tokens can only run ahead of the clock by the    *)
(* number of acquisitions within one millisecond", which is far below the  *)
(* number of milliseconds the TTL index waits.                             *)
(***************************************************************************)
ASSUME LeaseAssumption ==
  /\ NoOwner \notin Owner
  /\ MayCrash \subseteq Owner
  /\ Ttl \in Nat \ {0}
  /\ Retention \in Nat /\ Burst \in Nat /\ Burst < Retention
  /\ MaxTime \in Nat /\ MaxCommits \in Nat

VARIABLES
  now,      \* $$NOW, in milliseconds
  lock,     \* the lock document
  phase,    \* per run: how far its acquisition got
  token,    \* per run: the fencingToken of its Lease
  lost,     \* per run: the `lost` flag of its Lease
  released, \* per run: the `released` flag of its Lease
  until,    \* per run, history: the expiry its grant or last heartbeat set,
            \* 0 once it has begun to release the lease
  pending,  \* per run: statements sent, not yet evaluated
  writer,   \* the run whose open transaction has written the lock document
  dead,     \* runs whose process crashed
  grant,    \* history: the latest grant
  log       \* history: tokens of the committed guarded transactions

leaseVars == <<phase, token, lost, released, until>>

vars == <<now, lock, leaseVars, pending, writer, dead, grant, log>>

Doc(owner, fencingToken, expiresAt) ==
  [present |-> TRUE, owner |-> owner, token |-> fencingToken, expiresAt |-> expiresAt]
NoLock == [present |-> FALSE, owner |-> NoOwner, token |-> 0, expiresAt |-> 0]

Documents ==
  [present : BOOLEAN, owner : Owner \cup {NoOwner}, token : Nat, expiresAt : Nat]

TypeOK ==
  /\ now \in Nat
  /\ lock \in Documents
  /\ phase \in [Owner -> {"idle", "creating", "granted"}]
  /\ token \in [Owner -> Nat]
  /\ lost \in [Owner -> BOOLEAN]
  /\ released \in [Owner -> BOOLEAN]
  /\ until \in [Owner -> Nat]
  /\ pending \in [Owner -> SUBSET {"heartbeat", "fence", "release"}]
  /\ writer \in Owner \cup {NoOwner}
  /\ dead \in SUBSET Owner
  /\ grant \in [owner : Owner \cup {NoOwner}, token : Nat]
  /\ log \in Seq(Nat)

Init ==
  /\ now = 1
  /\ lock = NoLock
  /\ phase = [o \in Owner |-> "idle"]
  /\ token = [o \in Owner |-> 0]
  /\ lost = [o \in Owner |-> FALSE]
  /\ released = [o \in Owner |-> FALSE]
  /\ until = [o \in Owner |-> 0]
  /\ pending = [o \in Owner |-> {}]
  /\ writer = NoOwner
  /\ dead = {}
  /\ grant = [owner |-> NoOwner, token |-> 0]
  /\ log = <<>>

-----------------------------------------------------------------------------
(* The filters and expressions of lockRepo's statements. *)

\* A plausible bug: expiry is judged by the acquirer's own clock, which may be ahead.
TakableByOwnClock ==
  /\ lock.present
  /\ lock.owner = NoOwner \/ lock.expiresAt <= now + 1

\* A plausible bug: only a released lease can be taken over.
TakableIfReleased == lock.present /\ lock.owner = NoOwner

\* $or: [{ owner: null }, { $expr: { $lte: ['$expiresAt', '$$NOW'] } }]
Takable ==
  /\ lock.present
  /\ lock.owner = NoOwner \/ lock.expiresAt <= now

\* { _id, owner, fencingToken, expiresAt > $$NOW }: heartbeat and fence
HoldsLock(o) ==
  /\ lock.owner = o
  /\ lock.token = token[o]
  /\ now < lock.expiresAt

HoldsLockIgnoringExpiry(o) == lock.owner = o /\ lock.token = token[o]

\* A plausible bug: the previous token plus one, without the clock.
NextTokenWithoutClock == lock.token + 1

\* $max: [{ $add: [{ $ifNull: ['$fencingToken', 0] }, 1] }, { $toLong: '$$NOW' }]
NextToken == IF lock.token + 1 > now THEN lock.token + 1 ELSE now

\* A plausible bug: the fence reads the lock document, so nobody waits for it.
NeverWaits == TRUE

\* A write of the lock document waits for the transaction that has it open.
Writable == writer = NoOwner
-----------------------------------------------------------------------------
(* Acquisition: lockRepo.acquire, its two statements, and the new Lease. *)

GrantTo(o) ==
  /\ now <= MaxTime
  /\ NextToken <= now + Burst
  /\ lock' = Doc(o, NextToken, now + Ttl)
  /\ phase' = [phase EXCEPT ![o] = "granted"]
  /\ token' = [token EXCEPT ![o] = NextToken]
  /\ lost' = [lost EXCEPT ![o] = FALSE]
  /\ released' = [released EXCEPT ![o] = FALSE]
  /\ until' = [until EXCEPT ![o] = now + Ttl]
  /\ grant' = [owner |-> o, token |-> NextToken]

\* Statement 1: take over a document that is free or expired.
TakeOver(o) ==
  /\ phase[o] = "idle"
  /\ \/ Takable /\ Writable /\ GrantTo(o)
     \/ /\ ~Takable
        /\ phase' = [phase EXCEPT ![o] = "creating"]
        /\ UNCHANGED <<lock, token, lost, released, until, grant>>
  /\ UNCHANGED <<now, pending, writer, dead, log>>

\* Statement 2: create the document; an existing one makes the insert collide
\* on _id, acquire returns null and the caller may poll again.
CreateLock(o) ==
  /\ phase[o] = "creating"
  /\ \/ ~lock.present /\ GrantTo(o)
     \/ /\ lock.present
        /\ phase' = [phase EXCEPT ![o] = "idle"]
        /\ UNCHANGED <<lock, token, lost, released, until, grant>>
  /\ UNCHANGED <<now, pending, writer, dead, log>>

\* The run is in its process and its Lease still believes it holds the lock.
Believes(o) ==
  /\ o \notin dead
  /\ phase[o] = "granted"
  /\ ~lost[o]
  /\ ~released[o]

Send(o, statement) ==
  /\ statement \notin pending[o]
  /\ pending' = [pending EXCEPT ![o] = @ \cup {statement}]

Answer(o, statement) ==
  /\ statement \in pending[o]
  /\ pending' = [pending EXCEPT ![o] = @ \ {statement}]

MarkLost(o) == lost' = [lost EXCEPT ![o] = TRUE]
-----------------------------------------------------------------------------
(* Heartbeats: the interval timer and ensureLease both call heartbeat(). *)

SendHeartbeat(o) ==
  /\ Believes(o)
  /\ Send(o, "heartbeat")
  /\ UNCHANGED <<now, lock, leaseVars, writer, dead, grant, log>>

Extend(o) ==
  /\ now <= MaxTime
  /\ lock' = Doc(lock.owner, lock.token, now + Ttl)
  /\ until' = [until EXCEPT ![o] = IF released[o] THEN 0 ELSE now + Ttl]
  /\ UNCHANGED lost

\* A plausible bug: the filter without expiresAt > $$NOW.
HeartbeatIgnoringExpiry(o) ==
  /\ Answer(o, "heartbeat")
  /\ \/ HoldsLockIgnoringExpiry(o) /\ Writable /\ Extend(o)
     \/ ~HoldsLockIgnoringExpiry(o) /\ MarkLost(o) /\ UNCHANGED <<lock, until>>
  /\ UNCHANGED <<now, phase, token, released, writer, dead, grant, log>>

Heartbeat(o) ==
  /\ Answer(o, "heartbeat")
  /\ \/ HoldsLock(o) /\ Writable /\ Extend(o)
     \/ ~HoldsLock(o) /\ MarkLost(o) /\ UNCHANGED <<lock, until>>
  /\ UNCHANGED <<now, phase, token, released, writer, dead, grant, log>>
-----------------------------------------------------------------------------
(* A guarded transaction: the fence, then the commit or an abort. *)

SendFence(o) ==
  /\ Believes(o)
  /\ writer # o
  /\ Send(o, "fence")
  /\ UNCHANGED <<now, lock, leaseVars, writer, dead, grant, log>>

Fence(o) ==
  /\ Answer(o, "fence")
  /\ \/ HoldsLock(o) /\ Writable /\ writer' = o /\ UNCHANGED lost
     \/ ~HoldsLock(o) /\ MarkLost(o) /\ UNCHANGED writer
  /\ UNCHANGED <<now, lock, phase, token, released, until, dead, grant, log>>

Commit(o) ==
  /\ writer = o
  /\ Len(log) < MaxCommits
  /\ log' = Append(log, token[o])
  /\ writer' = NoOwner
  /\ UNCHANGED <<now, lock, leaseVars, pending, dead, grant>>

\* The body threw, the server killed the transaction, or the process died. The
\* driver's retry of the callback is another SendFence.
Abort(o) ==
  /\ writer = o
  /\ writer' = NoOwner
  /\ UNCHANGED <<now, lock, leaseVars, pending, dead, grant, log>>
-----------------------------------------------------------------------------
(* Release, crashes, lost statements, the clock and the TTL index. *)

SendRelease(o) ==
  /\ o \notin dead
  /\ phase[o] = "granted"
  /\ ~released[o]
  /\ released' = [released EXCEPT ![o] = TRUE]
  /\ until' = [until EXCEPT ![o] = 0]
  /\ Send(o, "release")
  /\ UNCHANGED <<now, lock, phase, token, lost, writer, dead, grant, log>>

\* A plausible bug: the filter names the lock only, not its owner.
ReleaseAnyOwner(o) ==
  /\ Answer(o, "release")
  /\ Writable
  /\ lock' = Doc(NoOwner, lock.token, now)
  /\ UNCHANGED <<now, leaseVars, writer, dead, grant, log>>

Release(o) ==
  /\ Answer(o, "release")
  /\ \/ /\ lock.owner = o /\ Writable
        /\ lock' = Doc(NoOwner, lock.token, now)
     \/ lock.owner # o /\ UNCHANGED lock
  /\ UNCHANGED <<now, leaseVars, writer, dead, grant, log>>

\* A statement is lost on its way: heartbeat and release errors are swallowed,
\* a fence error aborts the callback before it wrote anything.
Drop(o) ==
  /\ \E statement \in pending[o] : Answer(o, statement)
  /\ UNCHANGED <<now, lock, leaseVars, writer, dead, grant, log>>

\* The process dies. What it has sent may still be evaluated, an acquisition
\* included, and its open transaction stays open until the server aborts it.  A
\* run that merely sends nothing more looks the same to every safety property.
Crash(o) ==
  /\ o \in MayCrash \ dead
  /\ phase[o] # "idle"
  /\ dead' = dead \cup {o}
  /\ UNCHANGED <<now, lock, leaseVars, pending, writer, grant, log>>

Tick ==
  /\ now < MaxTime + Ttl
  /\ now' = now + 1
  /\ UNCHANGED <<lock, leaseVars, pending, writer, dead, grant, log>>

\* The TTL index removes a document that expired long ago.
TtlDelete ==
  /\ lock.present
  /\ Writable
  /\ lock.expiresAt + Retention <= now
  /\ lock' = NoLock
  /\ UNCHANGED <<now, leaseVars, pending, writer, dead, grant, log>>

Next ==
  \/ \E o \in Owner :
       \/ TakeOver(o) \/ CreateLock(o)
       \/ SendHeartbeat(o) \/ Heartbeat(o)
       \/ SendFence(o) \/ Fence(o) \/ Commit(o) \/ Abort(o)
       \/ SendRelease(o) \/ Release(o)
       \/ Drop(o) \/ Crash(o)
  \/ Tick
  \/ TtlDelete

Spec == Init /\ [][Next]_vars

\* Time passes, and the server ends every open transaction: its process commits
\* or aborts it, or transactionLifetimeLimitSeconds does.
Fairness ==
  /\ WF_vars(Tick)
  /\ \A o \in Owner : WF_vars(Abort(o))

LiveSpec == Spec /\ Fairness
-----------------------------------------------------------------------------
\* A run that has not begun to release the lease and whose grant or last
\* heartbeat still covers the present.
Live(o) == now < until[o]

\* Two runs never hold unexpired leases at once, whatever statements of earlier
\* holders are still under way (lockRepo.acquire against heartbeat and release).
MutualExclusion == \A o, p \in Owner : Live(o) /\ Live(p) => o = p

\* leaseLock.js treats `lost` as final: once a heartbeat or a fence found the
\* lease gone, no later statement of that run can find it held again.
LostIsFinal == \A o \in Owner : lost[o] => ~HoldsLock(o)

\* Tokens rise with every grant, even when the TTL index deleted the document
\* in between, and a guarded transaction commits only for the latest grant:
\* acquire's $max and the fence write of lockRepo.js together.
Store == INSTANCE FencedStore WITH epoch <- grant.token, holder <- grant.owner
ImplementsFencedStore == Store!Spec

\* Guarded transactions of successive holders commit in token order, even when
\* the lease expired, was taken over or its document was deleted meanwhile.
CommitsOrdered == Store!CommitsOrdered

\* The document stops naming a holder only when that holder released it or its
\* lease ran out: no late release of an earlier holder frees a later one.
FreedByHolderOrTime ==
  [][\A o \in Owner :
       lock.owner = o /\ lock'.owner # o => released[o] \/ lock.expiresAt <= now]_vars

\* A crashed holder never keeps the lock for good: eventually it has been taken
\* over or the next acquire succeeds.
DeadHolderYields ==
  \A o \in Owner :
    (o \in dead /\ lock.owner = o) ~> (lock.owner # o \/ (Takable /\ Writable))
=============================================================================
