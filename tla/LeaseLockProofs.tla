--------------------------- MODULE LeaseLockProofs ---------------------------
(***************************************************************************)
(* LeaseLock for every set of runs and every value of its bounds: the      *)
(* inductive invariant, mutual exclusion, the finality of a lost lease,    *)
(* and the refinement of FencedStore, from which the order of commits      *)
(* follows.                                                                *)
(***************************************************************************)
EXTENDS LeaseLock, TLAPS

\* The document against the history of grants.  While it exists it carries the
\* latest token, which the clock and its expiry trail by at most Burst; once the TTL index
\* has removed it, the clock is past every token ever granted, so that the
\* $max of acquire starts above them.
TokensCovered ==
  /\ lock.present => /\ lock.token = grant.token
                     /\ lock.token <= now + Burst
                     /\ lock.token <= lock.expiresAt + Burst
  /\ ~lock.present => lock = NoLock /\ grant.token < now

\* The run the document names is the one granted last, with that token.
HolderGranted ==
  \A o \in Owner :
    lock.owner = o => /\ phase[o] = "granted"
                      /\ token[o] = lock.token
                      /\ grant.owner = o

\* A run that is covered by its grant or heartbeat is the one in the document,
\* which expires no earlier than the run believes.
LiveIsHolder ==
  \A o \in Owner : Live(o) => lock.owner = o /\ until[o] <= lock.expiresAt

\* A release statement is under way only for a run that gave the lease up.
ReleasesAnnounced ==
  \A o \in Owner : /\ "release" \in pending[o] => /\ phase[o] = "granted"
                                                 /\ released[o]
                   /\ released[o] => until[o] = 0

\* The fence write keeps its run in the document until the transaction ends.
WriterIsHolder == writer # NoOwner => lock.owner = writer

IInv ==
  /\ TypeOK
  /\ TokensCovered
  /\ HolderGranted
  /\ LiveIsHolder
  /\ ReleasesAnnounced
  /\ WriterIsHolder
  /\ LostIsFinal

-----------------------------------------------------------------------------
LEMMA InitIInv == Init => IInv
BY LeaseAssumption
   DEF Init, IInv, TypeOK, Documents, TokensCovered, HolderGranted, LiveIsHolder,
       ReleasesAnnounced, WriterIsHolder, LostIsFinal, Live, HoldsLock, NoLock

\* Either kind of grant raises the token: the document is there and is
\* incremented, or it is gone and the clock is past the last token.
LEMMA NextTokenRises ==
  ASSUME TypeOK, TokensCovered
  PROVE  NextToken \in Nat /\ NextToken > grant.token
BY LeaseAssumption DEF TypeOK, Documents, TokensCovered, NextToken, NoLock

\* What a grant to run o does to the invariant when the document is free for
\* it: nobody writes it and nobody's lease still covers the present.
LEMMA GrantKeepsIInv ==
  ASSUME IInv, NEW o \in Owner, phase[o] # "granted",
         GrantTo(o), writer = NoOwner, \A p \in Owner : ~Live(p),
         UNCHANGED <<now, pending, writer, dead, log>>
  PROVE  IInv'
<1> USE LeaseAssumption DEF IInv
<1>1. TypeOK'
  BY NextTokenRises DEF GrantTo, Doc, Documents, TypeOK
<1>2. TokensCovered'
  BY NextTokenRises DEF GrantTo, Doc, Documents, TypeOK, TokensCovered
<1>3. HolderGranted'
  BY DEF GrantTo, Doc, Documents, TypeOK, HolderGranted
<1>4. LiveIsHolder'
  BY DEF GrantTo, Doc, Documents, TypeOK, LiveIsHolder, Live
<1>5. ReleasesAnnounced'
  BY DEF GrantTo, TypeOK, ReleasesAnnounced
<1>6. WriterIsHolder'
  BY DEF WriterIsHolder
<1>7. LostIsFinal'
  BY DEF GrantTo, Doc, Documents, TypeOK, LostIsFinal, HoldsLock
<1>8. QED
  BY <1>1, <1>2, <1>3, <1>4, <1>5, <1>6, <1>7

\* Steps that leave the document and the Leases alone, and may forget release
\* statements and end the open transaction.
LEMMA FrameKeepsIInv ==
  ASSUME IInv, TypeOK', UNCHANGED <<now, lock, leaseVars, grant>>,
         writer' \in {writer, NoOwner},
         \A o \in Owner : "release" \in pending'[o] => "release" \in pending[o]
  PROVE  IInv'
<1> USE DEF IInv, leaseVars
<1>1. TokensCovered' /\ HolderGranted' /\ WriterIsHolder'
  BY DEF TokensCovered, HolderGranted, WriterIsHolder
<1>2. LiveIsHolder' /\ LostIsFinal' /\ ReleasesAnnounced'
  BY DEF LiveIsHolder, Live, LostIsFinal, HoldsLock, ReleasesAnnounced
<1>3. QED
  BY <1>1, <1>2

\* A document with well-typed fields is well typed, and the other way round.
LEMMA DocTyped ==
  /\ \A own \in Owner \cup {NoOwner}, t \in Nat, e \in Nat : Doc(own, t, e) \in Documents
  /\ TypeOK => /\ lock.owner \in Owner \cup {NoOwner}
               /\ lock.token \in Nat
               /\ lock.expiresAt \in Nat
BY DEF Doc, Documents, TypeOK

\* Sending and answering a statement keep `pending` well typed, and change the
\* statements of that run only.
LEMMA SendAnswer ==
  ASSUME TypeOK, NEW o \in Owner, NEW stm \in {"heartbeat", "fence", "release"},
         Send(o, stm) \/ Answer(o, stm)
  PROVE  /\ pending' \in [Owner -> SUBSET {"heartbeat", "fence", "release"}]
         /\ \A p \in Owner : \A other \in {"heartbeat", "fence", "release"} :
              other \in pending'[p] => other \in pending[p] \/ (p = o /\ other = stm)
<1>1. pending \in [Owner -> SUBSET {"heartbeat", "fence", "release"}]
  BY DEF TypeOK
<1>2. PICK s \in SUBSET {"heartbeat", "fence", "release"} :
        /\ pending' = [pending EXCEPT ![o] = s]
        /\ s \in {pending[o] \cup {stm}, pending[o] \ {stm}}
  <2>1. pending[o] \cup {stm} \in SUBSET {"heartbeat", "fence", "release"}
    BY <1>1
  <2>2. pending[o] \ {stm} \in SUBSET {"heartbeat", "fence", "release"}
    BY <1>1
  <2>3. QED
    BY <2>1, <2>2 DEF Send, Answer
<1>3. QED
  BY <1>1, <1>2

\* Every step keeps the inductive invariant.
LEMMA StepKeepsIInv == IInv /\ [Next]_vars => IInv'
<1> SUFFICES ASSUME IInv, [Next]_vars
             PROVE  IInv'
  OBVIOUS
<1> USE LeaseAssumption DEF IInv, leaseVars
<1>1. ASSUME NEW o \in Owner, TakeOver(o)
      PROVE  IInv'
  <2>1. CASE Takable /\ Writable /\ GrantTo(o)
    <3>1. \A p \in Owner : ~Live(p)
      BY <2>1, DocTyped DEF Takable, LiveIsHolder, Live, TypeOK
    <3>2. QED
      BY <1>1, <2>1, <3>1, GrantKeepsIInv DEF TakeOver, Writable
  <2>2. CASE /\ phase' = [phase EXCEPT ![o] = "creating"]
             /\ UNCHANGED <<lock, token, lost, released, until, grant>>
    BY <1>1, <2>2
       DEF TakeOver, TypeOK, Documents, TokensCovered, HolderGranted, LiveIsHolder,
           ReleasesAnnounced, WriterIsHolder, LostIsFinal, Live, HoldsLock
  <2>3. QED
    BY <1>1, <2>1, <2>2 DEF TakeOver
<1>2. ASSUME NEW o \in Owner, CreateLock(o)
      PROVE  IInv'
  <2>1. CASE ~lock.present /\ GrantTo(o)
    <3>1. lock.owner = NoOwner /\ writer = NoOwner
      BY <2>1 DEF TokensCovered, NoLock, WriterIsHolder
    <3>2. \A p \in Owner : ~Live(p)
      BY <3>1 DEF LiveIsHolder
    <3>3. QED
      BY <1>2, <2>1, <3>1, <3>2, GrantKeepsIInv DEF CreateLock
  <2>2. CASE /\ phase' = [phase EXCEPT ![o] = "idle"]
             /\ UNCHANGED <<lock, token, lost, released, until, grant>>
    BY <1>2, <2>2
       DEF CreateLock, TypeOK, Documents, TokensCovered, HolderGranted, LiveIsHolder,
           ReleasesAnnounced, WriterIsHolder, LostIsFinal, Live, HoldsLock
  <2>3. QED
    BY <1>2, <2>1, <2>2 DEF CreateLock
<1>3. ASSUME NEW o \in Owner, SendHeartbeat(o) \/ SendFence(o)
      PROVE  IInv'
  <2>1. TypeOK'
    <3>1. pending' \in [Owner -> SUBSET {"heartbeat", "fence", "release"}]
      BY <1>3, SendAnswer DEF SendHeartbeat, SendFence
    <3>2. QED
      BY <1>3, <3>1 DEF SendHeartbeat, SendFence, TypeOK
  <2>2. QED
    BY <1>3, <2>1, SendAnswer, FrameKeepsIInv DEF SendHeartbeat, SendFence
<1>4. ASSUME NEW o \in Owner, Heartbeat(o)
      PROVE  IInv'
  <2>1. TypeOK'
    <3>1. Answer(o, "heartbeat")
      BY <1>4 DEF Heartbeat
    <3>2. pending' \in [Owner -> SUBSET {"heartbeat", "fence", "release"}]
      BY <3>1, SendAnswer
    <3>3. CASE HoldsLock(o) /\ Writable /\ Extend(o)
      <4>1. now + Ttl \in Nat
        BY DEF TypeOK
      <4>2. lock' \in Documents
        BY <3>3, <4>1, DocTyped DEF Extend
      <4>3. until' \in [Owner -> Nat] /\ lost' = lost
        BY <3>3, <4>1 DEF Extend, TypeOK
      <4>4. QED
        BY <1>4, <3>2, <4>2, <4>3 DEF Heartbeat, TypeOK
    <3>4. CASE ~HoldsLock(o) /\ MarkLost(o) /\ UNCHANGED <<lock, until>>
      BY <1>4, <3>2, <3>4 DEF Heartbeat, MarkLost, TypeOK
    <3>5. QED
      BY <1>4, <3>3, <3>4 DEF Heartbeat
  <2>2. ReleasesAnnounced'
    BY <1>4 DEF Heartbeat, Answer, Extend, MarkLost, TypeOK, ReleasesAnnounced
  <2>3. CASE HoldsLock(o) /\ Writable /\ Extend(o)
    <3>1. lock.present
      BY <2>3 DEF HoldsLock, TokensCovered, NoLock
    <3>2. TokensCovered'
      BY <1>4, <2>3, <3>1 DEF Heartbeat, Extend, Doc, Documents, TypeOK, TokensCovered
    <3>3. HolderGranted' /\ WriterIsHolder'
      BY <1>4, <2>3 DEF Heartbeat, Extend, Doc, Writable, TypeOK, HolderGranted, WriterIsHolder
    <3>4. LiveIsHolder'
      BY <1>4, <2>3 DEF Heartbeat, HoldsLock, Extend, Doc, Documents, TypeOK, LiveIsHolder, Live
    <3>5. LostIsFinal'
      BY <1>4, <2>3 DEF Heartbeat, HoldsLock, Extend, Doc, Documents, TypeOK, LostIsFinal
    <3>6. QED
      BY <2>1, <2>2, <3>2, <3>3, <3>4, <3>5
  <2>4. CASE ~HoldsLock(o) /\ MarkLost(o) /\ UNCHANGED <<lock, until>>
    BY <1>4, <2>1, <2>2, <2>4
       DEF Heartbeat, MarkLost, TypeOK, Documents, TokensCovered, HolderGranted, LiveIsHolder,
           WriterIsHolder, LostIsFinal, Live, HoldsLock
  <2>5. QED
    BY <1>4, <2>3, <2>4 DEF Heartbeat
<1>5. ASSUME NEW o \in Owner, Fence(o)
      PROVE  IInv'
  <2>1. TypeOK'
    BY <1>5 DEF Fence, Answer, MarkLost, TypeOK
  <2>2. WriterIsHolder'
    BY <1>5 DEF Fence, HoldsLock, WriterIsHolder
  <2>3. LostIsFinal'
    BY <1>5 DEF Fence, MarkLost, TypeOK, LostIsFinal, HoldsLock
  <2>4. ReleasesAnnounced'
    BY <1>5 DEF Fence, Answer, TypeOK, ReleasesAnnounced
  <2>5. TokensCovered' /\ HolderGranted' /\ LiveIsHolder'
    BY <1>5 DEF Fence, TokensCovered, HolderGranted, LiveIsHolder, Live
  <2>6. QED
    BY <2>1, <2>2, <2>3, <2>4, <2>5
<1>6. ASSUME NEW o \in Owner, Commit(o) \/ Abort(o)
      PROVE  IInv'
  <2>1. TypeOK'
    <3>1. log' \in Seq(Nat)
      <4>1. log \in Seq(Nat) /\ token[o] \in Nat
        BY DEF TypeOK
      <4>2. CASE log' = Append(log, token[o])
        BY <4>1, <4>2
      <4>3. QED
        BY <1>6, <4>1, <4>2 DEF Commit, Abort
    <3>2. QED
      BY <1>6, <3>1 DEF Commit, Abort, TypeOK
  <2>2. QED
    BY <1>6, <2>1, FrameKeepsIInv DEF Commit, Abort
<1>7. ASSUME NEW o \in Owner, SendRelease(o)
      PROVE  IInv'
  <2>1. TypeOK'
    BY <1>7 DEF SendRelease, Send, TypeOK
  <2>2. ReleasesAnnounced'
    BY <1>7 DEF SendRelease, Send, TypeOK, ReleasesAnnounced
  <2>3. LiveIsHolder'
    BY <1>7 DEF SendRelease, TypeOK, LiveIsHolder, Live
  <2>4. TokensCovered' /\ HolderGranted' /\ WriterIsHolder' /\ LostIsFinal'
    BY <1>7 DEF SendRelease, TokensCovered, HolderGranted, WriterIsHolder, LostIsFinal, HoldsLock
  <2>5. QED
    BY <2>1, <2>2, <2>3, <2>4
<1>8. ASSUME NEW o \in Owner, Release(o)
      PROVE  IInv'
  <2>1. TypeOK'
    <3>1. Answer(o, "release")
      BY <1>8 DEF Release
    <3>2. pending' \in [Owner -> SUBSET {"heartbeat", "fence", "release"}]
      BY <3>1, SendAnswer
    <3>3. QED
      <4>1. lock' \in Documents
        BY <1>8, DocTyped DEF Release, TypeOK
      <4>2. QED
        BY <1>8, <3>2, <4>1 DEF Release, TypeOK
  <2>2. CASE lock.owner = o /\ Writable /\ lock' = Doc(NoOwner, lock.token, now)
    <3>1. lock.present /\ until[o] = 0
      BY <1>8, <2>2 DEF Release, Answer, ReleasesAnnounced, TokensCovered, NoLock
    <3>2. TokensCovered'
      BY <1>8, <2>2, <3>1 DEF Release, Doc, Documents, TypeOK, TokensCovered
    <3>3. HolderGranted' /\ WriterIsHolder' /\ LostIsFinal'
      BY <1>8, <2>2
         DEF Release, Doc, Writable, TypeOK, HolderGranted, WriterIsHolder, LostIsFinal, HoldsLock
    <3>4. LiveIsHolder'
      BY <1>8, <2>2, <3>1 DEF Release, Doc, Documents, TypeOK, LiveIsHolder, Live
    <3>5. ReleasesAnnounced'
      BY <1>8 DEF Release, Answer, TypeOK, ReleasesAnnounced
    <3>6. QED
      BY <2>1, <3>2, <3>3, <3>4, <3>5
  <2>3. CASE lock.owner # o /\ UNCHANGED lock
    BY <1>8, <2>1, <2>3, FrameKeepsIInv DEF Release, Answer, TypeOK
  <2>4. QED
    BY <1>8, <2>2, <2>3 DEF Release
<1>9. ASSUME NEW o \in Owner, Drop(o)
      PROVE  IInv'
  <2>1. TypeOK'
    BY <1>9 DEF Drop, Answer, TypeOK
  <2>2. QED
    <3>1. PICK stm \in pending[o] : Answer(o, stm)
      BY <1>9 DEF Drop
    <3>2. stm \in {"heartbeat", "fence", "release"}
      BY DEF TypeOK
    <3>3. \A p \in Owner : "release" \in pending'[p] => "release" \in pending[p]
      BY <3>1, <3>2 DEF Answer, TypeOK
    <3>4. QED
      BY <1>9, <2>1, <3>3, FrameKeepsIInv DEF Drop
<1>10. ASSUME NEW o \in Owner, Crash(o)
       PROVE  IInv'
  <2>1. TypeOK'
    BY <1>10 DEF Crash, TypeOK
  <2>2. QED
    BY <1>10, <2>1, FrameKeepsIInv DEF Crash
<1>11. CASE Tick
  BY <1>11
     DEF Tick, TypeOK, Documents, TokensCovered, HolderGranted, LiveIsHolder,
         ReleasesAnnounced, WriterIsHolder, LostIsFinal, Live, HoldsLock
<1>12. CASE TtlDelete
  <2>1. lock.token < now
    BY <1>12 DEF TtlDelete, TypeOK, Documents, TokensCovered
  <2>2. \A o \in Owner : ~Live(o)
    BY <1>12, DocTyped DEF TtlDelete, TypeOK, LiveIsHolder, Live
  <2>3. QED
    BY <1>12, <2>1, <2>2
       DEF TtlDelete, Writable, NoLock, TypeOK, Documents, TokensCovered, HolderGranted,
           LiveIsHolder, ReleasesAnnounced, WriterIsHolder, LostIsFinal, Live, HoldsLock
<1>13. CASE UNCHANGED vars
  <2>1. TypeOK'
    BY <1>13 DEF vars, TypeOK
  <2>2. QED
    BY <1>13, <2>1, FrameKeepsIInv DEF vars
<1>14. QED
  BY <1>1, <1>2, <1>3, <1>4, <1>5, <1>6, <1>7, <1>8, <1>9, <1>10, <1>11, <1>12, <1>13
     DEF Next

\* The inductive invariant holds throughout.
LEMMA Invariance == Spec => []IInv
BY InitIInv, StepKeepsIInv, PTL DEF Spec

-----------------------------------------------------------------------------
\* Every value keeps its type (the documents and Lease objects of leaseLock.js).
THEOREM TypeCorrect == Spec => []TypeOK
BY Invariance, PTL DEF IInv

\* No two runs hold unexpired leases of one lock, for any number of runs and
\* any times: lockRepo's acquire, heartbeat, release and TTL deletion.
THEOREM AtMostOneLive == Spec => []MutualExclusion
<1>1. IInv => MutualExclusion
  BY LeaseAssumption DEF IInv, LiveIsHolder, MutualExclusion
<1>2. QED
  BY <1>1, Invariance, PTL

\* The `lost` flag of a Lease is never wrong: the lease is not held again.
THEOREM LostStaysLost == Spec => []LostIsFinal
BY Invariance, PTL DEF IInv

\* Only the holder's own release, or time, takes the document from a holder.
THEOREM FreedRightly == Spec => FreedByHolderOrTime
<1>1. IInv /\ [Next]_vars =>
        [\A o \in Owner :
           lock.owner = o /\ lock'.owner # o => released[o] \/ lock.expiresAt <= now]_vars
  <2> SUFFICES ASSUME IInv, Next, NEW o \in Owner, lock.owner = o, lock'.owner # o
               PROVE  released[o] \/ lock.expiresAt <= now
    OBVIOUS
  <2> USE LeaseAssumption DEF IInv
  <2>1. ASSUME NEW p \in Owner, TakeOver(p) \/ CreateLock(p)
        PROVE  lock.expiresAt <= now
    BY <2>1 DEF TakeOver, CreateLock, Takable, TokensCovered, NoLock
  <2>2. ASSUME NEW p \in Owner, Release(p)
        PROVE  released[o]
    BY <2>2 DEF Release, Answer, ReleasesAnnounced
  <2>3. ASSUME NEW p \in Owner, Heartbeat(p)
        PROVE  FALSE
    BY <2>3 DEF Heartbeat, Extend, Doc
  <2>4. CASE TtlDelete
    BY <2>4, DocTyped DEF TtlDelete, TypeOK
  <2>5. QED
    BY <2>1, <2>2, <2>3, <2>4
       DEF Next, SendHeartbeat, SendFence, Fence, Commit, Abort, SendRelease, Drop, Crash, Tick
<1>2. QED
  BY <1>1, Invariance, PTL DEF Spec, FreedByHolderOrTime

\* The lock with its clock, expiry, takeover, crashes and lost statements
\* implements the store that only ever commits for the latest grant.
THEOREM Refinement == Spec => ImplementsFencedStore
<1> USE LeaseAssumption
<1>1. Init => Store!Init
  BY DEF Init, Store!Init
<1>2. IInv /\ [Next]_vars => [Store!Next]_(Store!vars)
  <2> SUFFICES ASSUME IInv, [Next]_vars
               PROVE  Store!Next \/ UNCHANGED Store!vars
    BY DEF Store!vars
  <2> USE DEF IInv
  <2>1. ASSUME NEW o \in Owner, GrantTo(o), UNCHANGED log
        PROVE  Store!Grant
    BY <2>1, NextTokenRises DEF GrantTo, Store!Grant
  <2>2. ASSUME NEW o \in Owner, TakeOver(o) \/ CreateLock(o)
        PROVE  Store!Next \/ UNCHANGED Store!vars
    BY <2>1, <2>2 DEF TakeOver, CreateLock, Store!Next, Store!vars
  <2>3. ASSUME NEW o \in Owner, Commit(o)
        PROVE  Store!Commit
    <3>1. lock.owner = o
      BY <2>3 DEF Commit, WriterIsHolder
    <3>2. lock.present
      BY <3>1 DEF TokensCovered, NoLock, TypeOK
    <3>3. token[o] = grant.token /\ grant.owner = o
      BY <3>1, <3>2 DEF TokensCovered, HolderGranted
    <3>4. QED
      BY <2>3, <3>3 DEF Commit, Store!Commit
  <2>4. CASE UNCHANGED <<grant, log>>
    BY <2>4 DEF Store!vars
  <2>5. QED
    BY <2>2, <2>3, <2>4
       DEF Next, vars, SendHeartbeat, Heartbeat, SendFence, Fence, Abort, SendRelease,
           Release, Drop, Crash, Tick, TtlDelete, Store!Next
<1>3. QED
  BY <1>1, <1>2, Invariance, PTL DEF Spec, ImplementsFencedStore, Store!Spec

\* A store that raises the token with every grant and commits only with the
\* latest one commits in token order: what the fence of leaseLock.js is for.
THEOREM StoreOrdered == Store!Spec => []Store!Inv
<1>1. Store!Init => Store!Inv
  BY DEF Store!Init, Store!Inv, Store!TypeOK, Store!CommitsOrdered, Store!CommitsGranted
<1>2. Store!Inv /\ [Store!Next]_(Store!vars) => Store!Inv'
  <2> SUFFICES ASSUME Store!Inv, [Store!Next]_(Store!vars)
               PROVE  Store!Inv'
    OBVIOUS
  <2> USE DEF Store!Inv, Store!TypeOK, Store!CommitsOrdered, Store!CommitsGranted
  <2>1. CASE Store!Grant
    BY <2>1 DEF Store!Grant
  <2>2. CASE Store!Commit
    <3>1. Len(log') = Len(log) + 1 /\ log'[Len(log) + 1] = grant.token
      BY <2>2 DEF Store!Commit
    <3>2. \A i \in 1..Len(log) : log'[i] = log[i]
      BY <2>2 DEF Store!Commit
    <3>3. QED
      BY <2>2, <3>1, <3>2 DEF Store!Commit
  <2>3. CASE UNCHANGED Store!vars
    BY <2>3 DEF Store!vars
  <2>4. QED
    BY <2>1, <2>2, <2>3 DEF Store!Next
<1>3. QED
  BY <1>1, <1>2, PTL DEF Store!Spec

\* Guarded transactions commit in the order in which their leases were granted:
\* a holder that lost its lease never commits after its successor.
THEOREM CommitOrder == Spec => []CommitsOrdered
<1>1. Store!Inv => CommitsOrdered
  BY DEF Store!Inv, CommitsOrdered
<1>2. Store!Spec => []Store!Inv
  BY StoreOrdered
<1>3. QED
  BY <1>1, <1>2, Refinement, PTL DEF ImplementsFencedStore
=============================================================================
