---------------------------- MODULE DecisionProofs ----------------------------
(***************************************************************************)
(* Decision for any number of members, requests and runs: types, the chain *)
(* of decisions, what the lease protects and what a decision retains.      *)
(***************************************************************************)
EXTENDS Decision, FiniteSetTheorems, SequenceTheorems, TLAPS

\* The actions are numbered from 1 to the pointer's seq; each names the one
\* before it, and the pointer the last.
Chained ==
  /\ DOMAIN actions = 1..pointer.seq
  /\ pointer.seq = 0 => pointer = NoPointer
  /\ pointer.seq > 0 => /\ pointer.hash = Hash(pointer.seq, actions[pointer.seq].newSnapshot)
                        /\ pointer.snapshot = actions[pointer.seq].newSnapshot
                        /\ pointer.status = actions[pointer.seq].newStatus
  /\ Linked(actions)
  /\ \A i \in DOMAIN actions : actions[i].newSnapshot \in 1..Len(snapshots)
  /\ \A i \in DOMAIN actions \ {1} : /\ actions[i].prevStatus = actions[i - 1].newStatus
                                     /\ actions[i].prevSnapshot = actions[i - 1].newSnapshot

\* Once there is a decision the result is not provisional again.
Decided ==
  /\ \A i \in DOMAIN actions : actions[i].newStatus # "PROVISIONAL"
  /\ FinalizeFirst

\* Whoever has decided is done: no request decides twice.
DecidedOnce == \A i \in DOMAIN actions : pc[actions[i].by] = "done"

\* A run's document exists from its start, and is there for whoever confirmed an
\* input; a run is done with its evidence before it decides, and evidence only
\* expires after that.
Confirmed ==
  /\ \A r \in Run : /\ pc[r] = "idle" <=> status[r] = "none"
                    /\ pc[r] = "deciding" => \A m \in Member : raw[r][m] # "pending"
                    /\ pc[r] # "done" => \A m \in Member : raw[r][m] # "deleted"
  /\ \A r \in Confirmers(Database) : status[r] # "none"
  /\ \A r \in permanent : status[r] \notin {"none", "deleted"}

\* What the engine, the gate and the sources read from a view is well typed, and
\* whoever it says has confirmed an input has a document there.
ViewSound(d) ==
  /\ d.event \in [checked : BOOLEAN, by : Run \cup {NoRun}]
  /\ d.row \in [Member -> [value : Value, by : Run \cup {NoRun}]]
  /\ d.live \in Run \cup {NoRun}
  /\ d.group \in [active : BOOLEAN, excluded : SUBSET Member]
  /\ d.status \in [Run -> Statuses]
  /\ d.raw \in [Run -> [Member -> Captures]]
  /\ \A r \in Confirmers(d) : d.status[r] # "none"

\* An open transaction is the lock holder's.  Of what it has read, the chain and
\* the holder's own evidence cannot change, rows only by runs of the other
\* group, and a run that succeeded may at most expire.
Viewing ==
  \A j \in Decider : view[j] # NoView =>
    /\ holder = j /\ pc[j] = "deciding"
    /\ ViewSound(view[j])
    /\ view[j].snapshots = snapshots /\ view[j].pointer = pointer
    /\ \A r \in Run : view[j].status[r] = "SUCCESS" => status[r] \in {"SUCCESS", "deleted"}
    /\ j \in Run => view[j].raw[j] = raw[j]

\* Who finalized is done, and its document is permanent.
Traced ==
  /\ \A i \in DOMAIN actions : actions[i].action = "FINALIZE" =>
       /\ actions[i].by \in permanent
       /\ pc[actions[i].by] = "done"
  /\ FinalTraceable

\* Until a decision is committed, the actions an audit has read are all there are.
Audited ==
  /\ DOMAIN audit = {"pc", "seen", "from", "valid"}
  /\ audit.pc # "idle" => audit.from \in Nat /\ audit.from <= pointer.seq
  /\ audit.pc = "reading" /\ audit.from = pointer.seq => audit.seen = actions
  /\ AlarmOnlyIfRaced

IInv ==
  /\ TypeOK
  /\ Chained
  /\ Decided
  /\ Confirmed
  /\ Viewing
  /\ LeaseHoldsInputs
  /\ SourcesRetained
  /\ Traced
  /\ ChangesNoted
  /\ Audited

\* A gameweek's history changes by the commit of a decision only.
Committing ==
  \E j \in Decider : CommitFinalize(j) \/ CommitOverride(j) \/ CommitRecompute(j)

Quiet ==
  \/ \E r \in Run :
       \/ StartFinalize(r) \/ StartOther(r) \/ T1(r) \/ LiveStage(r) \/ Finish(r) \/ ExpireRun(r)
       \/ \E m \in Member : T3(r, m) \/ MemberFails(r, m) \/ Capture(r, m) \/ ExpireRaw(r, m)
  \/ \E j \in Decider : StartDecision(j) \/ Fence(j) \/ Retry(j) \/ GiveUp(j)
  \/ \E k \in Job : Crash(k)
  \/ \E m \in Member : ExcludeMember(m)
  \/ SetActive \/ AuditActions \/ AuditPointer

-----------------------------------------------------------------------------
\* A step commits a decision or is quiet.
LEMMA NextCases == Next => Committing \/ Quiet
BY DEF Next, Committing, Quiet

\* verifyChain accepts the stored chain: the count of its actions is their last
\* number.
LEMMA ChainVerifies == TypeOK /\ Chained => ChainValid
<1> SUFFICES ASSUME TypeOK, Chained
             PROVE  ChainValid
  OBVIOUS
<1>1. pointer.seq \in Nat
  BY DEF TypeOK, PointerType
<1>2. Cardinality(DOMAIN actions) = pointer.seq
  BY <1>1, FS_Interval DEF Chained
<1>3. DOMAIN snapshots = 1..Len(snapshots)
  BY DEF TypeOK
<1>4. pointer # NoPointer => HeadMatches(actions, pointer)
  BY <1>1, <1>2 DEF HeadMatches, Chained
<1>5. VerifyChain(actions, snapshots, pointer)
  BY <1>2, <1>3, <1>4 DEF VerifyChain, Chained
<1>6. DOMAIN actions # {} => pointer # NoPointer
  BY <1>1 DEF Chained, NoPointer
<1>7. QED
  BY <1>5, <1>6 DEF ChainValid, Chained

\* What the engine computes from a sound view is well typed, and a run it cites
\* has a document in the view.
LEMMA ViewResults ==
  ASSUME NEW d, ViewSound(d)
  PROVE  /\ Inputs(d) \in [checked : BOOLEAN, excluded : SUBSET Member,
                           value : [Member -> Value], synced : SUBSET Member]
         /\ Winners(d) \subseteq Eligible(d)
         /\ Eligible(d) \subseteq Member
         /\ Confirmers(d) \subseteq Run
         /\ Sources(d) \in [Confirmers(d) -> SUBSET Member]
<1> USE DEF ViewSound
<1>1. Inputs(d) \in [checked : BOOLEAN, excluded : SUBSET Member,
                     value : [Member -> Value], synced : SUBSET Member]
  BY DEF Inputs
<1>2. Winners(d) \subseteq Eligible(d) /\ Eligible(d) \subseteq Member
  BY DEF Winners, Eligible
<1>3. Confirmers(d) \subseteq Run
  BY DEF Confirmers
<1>4. Sources(d) \in [Confirmers(d) -> SUBSET Member]
  BY DEF Sources
<1>5. QED
  BY <1>1, <1>2, <1>3, <1>4

\* The initial state satisfies the invariant: nothing has happened.
LEMMA InitIInv == Init => IInv
<1> SUFFICES ASSUME Init
             PROVE  IInv
  OBVIOUS
<1> USE DecisionAssumption DEF Init, NoPointer, GENESIS
<1>1. TypeOK
  BY DEF TypeOK, PointerType, ResultStatus, Statuses, Captures, Value, Reconciled, SnapshotType
<1>2. Chained
  BY DEF Chained, Linked
<1>3. Decided /\ Traced /\ ChangesNoted
  BY DEF Decided, FinalizeFirst, Traced, FinalTraceable, ChangesNoted
<1>4. Confirmed
  BY DEF Confirmed, Confirmers, Database, Run, Decider, Job
<1>5. Viewing /\ LeaseHoldsInputs /\ SourcesRetained
  BY DEF Viewing, LeaseHoldsInputs, SourcesRetained
<1>6. Audited
  BY DEF Audited, AlarmOnlyIfRaced
<1>7. QED
  BY <1>1, <1>2, <1>3, <1>4, <1>5, <1>6 DEF IInv

-----------------------------------------------------------------------------
\* A step that leaves the history alone keeps what is said of it alone.
LEMMA HistoryKept ==
  ASSUME IInv, UNCHANGED history
  PROVE  Chained' /\ Decided' /\ ChangesNoted'
BY DEF IInv, history, Chained, Linked, Decided, FinalizeFirst, ChangesNoted

\* A quiet step leaves the history alone.
LEMMA QuietKeepsHistory == Quiet => UNCHANGED history
BY DEF Quiet, StartFinalize, StartOther, T1, LiveStage, Finish, ExpireRun, T3, MemberFails,
       Capture, ExpireRaw, StartDecision, Fence, Retry, GiveUp, Crash, ExcludeMember, SetActive,
       AuditActions, AuditPointer

\* Quiet steps keep the variables well typed.
LEMMA TypeOKKept == IInv /\ Quiet => TypeOK'
<1> SUFFICES ASSUME IInv, Quiet
             PROVE  TypeOK'
  OBVIOUS
<1> USE DecisionAssumption DEF IInv, TypeOK, Run, Decider, Job, Statuses, Captures,
      Value, Reconciled, jobs, synced, retention, history
<1>1. ASSUME NEW r \in Run, StartFinalize(r)
      PROVE  TypeOK'
  BY <1>1 DEF StartFinalize, Acquire, InsertRun
<1>2. ASSUME NEW r \in Run, StartOther(r)
      PROVE  TypeOK'
  BY <1>2 DEF StartOther, InsertRun
<1>3. ASSUME NEW j \in Decider, StartDecision(j)
      PROVE  TypeOK'
  BY <1>3 DEF StartDecision, Acquire
<1>4. ASSUME NEW r \in Run, T1(r)
      PROVE  TypeOK'
  BY <1>4 DEF T1
<1>5. ASSUME NEW r \in Run, NEW m \in Member, T3(r, m)
      PROVE  TypeOK'
  BY <1>5 DEF T3, Fenced
<1>6. ASSUME NEW r \in Run, NEW m \in Member, MemberFails(r, m)
      PROVE  TypeOK'
  BY <1>6 DEF MemberFails
<1>7. ASSUME NEW r \in Run, NEW m \in Member, Capture(r, m)
      PROVE  TypeOK'
  BY <1>7 DEF Capture
<1>8. ASSUME NEW r \in Run, NEW m \in Member, ExpireRaw(r, m)
      PROVE  TypeOK'
  BY <1>8 DEF ExpireRaw
<1>9. ASSUME NEW r \in Run, LiveStage(r)
      PROVE  TypeOK'
  BY <1>9 DEF LiveStage
<1>10. ASSUME NEW r \in Run, Finish(r)
      PROVE  TypeOK'
  BY <1>10 DEF Finish, Fails
<1>11. ASSUME NEW r \in Run, ExpireRun(r)
      PROVE  TypeOK'
  BY <1>11 DEF ExpireRun
<1>12. ASSUME NEW j \in Decider, Fence(j) \/ Retry(j)
      PROVE  TypeOK'
  BY <1>12 DEF Fence, Retry, Fenced
<1>13. ASSUME NEW j \in Decider, GiveUp(j)
      PROVE  TypeOK'
  BY <1>13 DEF GiveUp, End
<1>14. ASSUME NEW k \in Job, Crash(k)
      PROVE  TypeOK'
  BY <1>14 DEF Crash
<1>15. ASSUME NEW m \in Member, ExcludeMember(m)
      PROVE  TypeOK'
  <2>1. group' \in [active : BOOLEAN, excluded : SUBSET Member]
    <3>1. PICK ex \in {group.excluded \cup {m}, group.excluded \ {m}} :
            group' = [group EXCEPT !.excluded = ex]
      BY <1>15 DEF ExcludeMember
    <3>2. ex \in SUBSET Member
      OBVIOUS
    <3>3. QED
      BY <3>1, <3>2
  <2>2. edits' \in 0..MaxEdits
    BY <1>15 DEF ExcludeMember
  <2>3. QED
    BY <1>15, <2>1, <2>2 DEF ExcludeMember
<1>16. ASSUME SetActive
      PROVE  TypeOK'
  <2>1. group' \in [active : BOOLEAN, excluded : SUBSET Member] /\ edits' \in 0..MaxEdits
    BY <1>16 DEF SetActive
  <2>2. QED
    BY <1>16, <2>1 DEF SetActive
<1>17. ASSUME AuditActions \/ AuditPointer
      PROVE  TypeOK'
  BY <1>17 DEF AuditActions, AuditPointer
<1>18. QED
  BY <1>1, <1>2, <1>3, <1>4, <1>5, <1>6, <1>7, <1>8, <1>9, <1>10, <1>11, <1>12,
     <1>13, <1>14, <1>15, <1>16, <1>17 DEF Quiet

\* Quiet steps keep run documents and evidence in step with their runs:
\* T1, T3 and LiveStage confirm for runs that have a document, and Finish
\* waits for the recorder.
LEMMA ConfirmedKept == IInv /\ Quiet => Confirmed'
<1> SUFFICES ASSUME IInv, Quiet
             PROVE  Confirmed'
  OBVIOUS
<1> USE DecisionAssumption DEF IInv, Confirmed, TypeOK, Run, Decider, Job, Statuses,
      Captures, Confirmers, Database, jobs, synced, retention, history
<1>1. ASSUME NEW r \in Run, StartFinalize(r)
      PROVE  Confirmed'
  BY <1>1 DEF StartFinalize, Acquire, InsertRun
<1>2. ASSUME NEW r \in Run, StartOther(r)
      PROVE  Confirmed'
  BY <1>2 DEF StartOther, InsertRun
<1>3. ASSUME NEW j \in Decider, StartDecision(j)
      PROVE  Confirmed'
  <2>1. j \notin Run
    BY <1>3 DEF StartDecision
  <2>2. \A r \in Run : pc'[r] = pc[r]
    BY <1>3, <2>1 DEF StartDecision
  <2>3. QED
    BY <1>3, <2>2 DEF StartDecision
<1>4. ASSUME NEW r \in Run, T1(r)
      PROVE  Confirmed'
  BY <1>4 DEF T1
<1>5. ASSUME NEW r \in Run, NEW m \in Member, T3(r, m)
      PROVE  Confirmed'
  BY <1>5 DEF T3, Fenced
<1>6. ASSUME NEW r \in Run, NEW m \in Member, MemberFails(r, m)
      PROVE  Confirmed'
  BY <1>6 DEF MemberFails
<1>7. ASSUME NEW r \in Run, NEW m \in Member, Capture(r, m)
      PROVE  Confirmed'
  BY <1>7 DEF Capture
<1>8. ASSUME NEW r \in Run, NEW m \in Member, ExpireRaw(r, m)
      PROVE  Confirmed'
  BY <1>8 DEF ExpireRaw
<1>9. ASSUME NEW r \in Run, LiveStage(r)
      PROVE  Confirmed'
  BY <1>9 DEF LiveStage
<1>10. ASSUME NEW r \in Run, Finish(r)
      PROVE  Confirmed'
  BY <1>10 DEF Finish, Fails
<1>11. ASSUME NEW r \in Run, ExpireRun(r)
      PROVE  Confirmed'
  BY <1>11 DEF ExpireRun
<1>12. ASSUME NEW j \in Decider, Fence(j) \/ Retry(j)
      PROVE  Confirmed'
  BY <1>12 DEF Fence, Retry, Fenced
<1>13. ASSUME NEW j \in Decider, GiveUp(j)
      PROVE  Confirmed'
  BY <1>13 DEF GiveUp, End
<1>14. ASSUME NEW k \in Job, Crash(k)
      PROVE  Confirmed'
  BY <1>14 DEF Crash
<1>15. ASSUME NEW m \in Member, ExcludeMember(m)
      PROVE  Confirmed'
  BY <1>15 DEF ExcludeMember
<1>16. ASSUME SetActive \/ AuditActions \/ AuditPointer
      PROVE  Confirmed'
  BY <1>16 DEF SetActive, AuditActions, AuditPointer
<1>17. QED
  BY <1>1, <1>2, <1>3, <1>4, <1>5, <1>6, <1>7, <1>8, <1>9, <1>10, <1>11, <1>12,
     <1>13, <1>14, <1>15, <1>16 DEF Quiet

\* Quiet steps keep open views: while one is open its job stays the
\* holder, because Acquire waits for it, and no other can commit.
LEMMA ViewingKept == IInv /\ Quiet => Viewing'
<1> SUFFICES ASSUME IInv, Quiet
             PROVE  Viewing'
  OBVIOUS
<1> USE DecisionAssumption DEF IInv, Viewing, TypeOK, Confirmed, Run, Decider, Job,
      Statuses, Captures, Fenced, jobs, synced, retention, history
<1>1. ASSUME NEW r \in Run, StartFinalize(r)
      PROVE  Viewing'
  BY <1>1 DEF StartFinalize, Acquire, InsertRun
<1>2. ASSUME NEW r \in Run, StartOther(r)
      PROVE  Viewing'
  BY <1>2 DEF StartOther, InsertRun
<1>3. ASSUME NEW j \in Decider, StartDecision(j)
      PROVE  Viewing'
  BY <1>3 DEF StartDecision, Acquire
<1>4. ASSUME NEW r \in Run, T1(r)
      PROVE  Viewing'
  BY <1>4 DEF T1
<1>5. ASSUME NEW r \in Run, NEW m \in Member, T3(r, m) \/ MemberFails(r, m)
      PROVE  Viewing'
  BY <1>5 DEF T3, MemberFails
<1>6. ASSUME NEW r \in Run, NEW m \in Member, Capture(r, m) \/ ExpireRaw(r, m)
      PROVE  Viewing'
  BY <1>6 DEF Capture, ExpireRaw
<1>7. ASSUME NEW r \in Run, LiveStage(r)
      PROVE  Viewing'
  BY <1>7 DEF LiveStage
<1>8. ASSUME NEW r \in Run, Finish(r)
      PROVE  Viewing'
  BY <1>8 DEF Finish, Fails
<1>9. ASSUME NEW r \in Run, ExpireRun(r)
      PROVE  Viewing'
  BY <1>9 DEF ExpireRun
<1>10. ASSUME NEW j \in Decider, Fence(j)
      PROVE  Viewing'
  <2>1. holder = j /\ pc[j] = "deciding" /\ \A k \in Decider : view[k] = NoView
    BY <1>10 DEF Fence
  <2>2. ViewSound(Database)
    BY DEF ViewSound, Database
  <2>3. view' = [view EXCEPT ![j] = Database]
        /\ UNCHANGED <<holder, pc, status, raw, snapshots, pointer>>
    BY <1>10 DEF Fence
  <2>4. /\ Database.snapshots = snapshots /\ Database.pointer = pointer
        /\ Database.status = status /\ Database.raw = raw
    BY DEF Database
  <2>5. QED
    BY <2>1, <2>2, <2>3, <2>4
<1>11. ASSUME NEW j \in Decider, Retry(j)
      PROVE  Viewing'
  BY <1>11 DEF Retry
<1>12. ASSUME NEW j \in Decider, GiveUp(j)
      PROVE  Viewing'
  BY <1>12 DEF GiveUp, End
<1>13. ASSUME NEW k \in Job, Crash(k)
      PROVE  Viewing'
  BY <1>13 DEF Crash
<1>14. ASSUME NEW m \in Member, ExcludeMember(m)
      PROVE  Viewing'
  BY <1>14 DEF ExcludeMember
<1>15. ASSUME SetActive \/ AuditActions \/ AuditPointer
      PROVE  Viewing'
  BY <1>15 DEF SetActive, AuditActions, AuditPointer
<1>16. QED
  BY <1>1, <1>2, <1>3, <1>4, <1>5, <1>6, <1>7, <1>8, <1>9, <1>10, <1>11, <1>12,
     <1>13, <1>14, <1>15 DEF Quiet

\* Quiet steps keep the rows an open view has read, but for runs of the
\* other group: a finalizer passes its fence only while no view is open.
LEMMA LeaseHoldsInputsKept == IInv /\ Quiet => LeaseHoldsInputs'
<1> SUFFICES ASSUME IInv, Quiet
             PROVE  LeaseHoldsInputs'
  OBVIOUS
<1> USE DecisionAssumption DEF IInv, LeaseHoldsInputs, TypeOK, Viewing, Run,
      Decider, Job, Database, jobs, synced, retention, history
<1>1. ASSUME NEW r \in Run, NEW m \in Member, T3(r, m)
      PROVE  LeaseHoldsInputs'
  BY <1>1 DEF T3, Fenced
<1>2. ASSUME NEW j \in Decider, Fence(j)
      PROVE  LeaseHoldsInputs'
  BY <1>2 DEF Fence, Fenced
<1>3. ASSUME NEW j \in Decider, Retry(j) \/ GiveUp(j)
      PROVE  LeaseHoldsInputs'
  BY <1>3 DEF Retry, GiveUp, End
<1>4. ASSUME NEW k \in Job, Crash(k)
      PROVE  LeaseHoldsInputs'
  BY <1>4 DEF Crash
<1>5. ASSUME NEW r \in Run, StartFinalize(r) \/ StartOther(r) \/ T1(r) \/
             LiveStage(r) \/ Finish(r) \/ ExpireRun(r)
      PROVE  LeaseHoldsInputs'
  BY <1>5 DEF StartFinalize, StartOther, T1, LiveStage, Finish, ExpireRun, Acquire,
         InsertRun, Fails
<1>6. ASSUME NEW r \in Run, NEW m \in Member, MemberFails(r, m) \/ Capture(r, m) \/
             ExpireRaw(r, m)
      PROVE  LeaseHoldsInputs'
  BY <1>6 DEF MemberFails, Capture, ExpireRaw
<1>7. ASSUME NEW j \in Decider, StartDecision(j)
      PROVE  LeaseHoldsInputs'
  BY <1>7 DEF StartDecision, Acquire
<1>8. ASSUME NEW m \in Member, ExcludeMember(m)
      PROVE  LeaseHoldsInputs'
  BY <1>8 DEF ExcludeMember
<1>9. ASSUME SetActive \/ AuditActions \/ AuditPointer
      PROVE  LeaseHoldsInputs'
  BY <1>9 DEF SetActive, AuditActions, AuditPointer
<1>10. QED
  BY <1>1, <1>2, <1>3, <1>4, <1>5, <1>6, <1>7, <1>8, <1>9 DEF Quiet

\* Quiet steps keep what snapshots cite: only documents that are not
\* permanent expire.
LEMMA SourcesRetainedKept == IInv /\ Quiet => SourcesRetained'
<1> SUFFICES ASSUME IInv, Quiet
             PROVE  SourcesRetained'
  OBVIOUS
<1> USE DecisionAssumption DEF IInv, SourcesRetained, TypeOK, Run, Job, Decider,
      Confirmed, Statuses, jobs, synced, retention, history
<1>1. ASSUME NEW r \in Run, StartFinalize(r) \/ StartOther(r)
      PROVE  SourcesRetained'
  BY <1>1 DEF StartFinalize, StartOther, Acquire, InsertRun
<1>2. ASSUME NEW r \in Run, Finish(r)
      PROVE  SourcesRetained'
  BY <1>2 DEF Finish, Fails
<1>3. ASSUME NEW r \in Run, ExpireRun(r)
      PROVE  SourcesRetained'
  BY <1>3 DEF ExpireRun
<1>4. ASSUME NEW r \in Run, T1(r) \/ LiveStage(r)
      PROVE  SourcesRetained'
  BY <1>4 DEF T1, LiveStage
<1>5. ASSUME NEW r \in Run, NEW m \in Member, T3(r, m) \/ MemberFails(r, m) \/
             Capture(r, m) \/ ExpireRaw(r, m)
      PROVE  SourcesRetained'
  BY <1>5 DEF T3, MemberFails, Capture, ExpireRaw, Fenced
<1>6. ASSUME NEW j \in Decider, StartDecision(j) \/ Fence(j) \/ Retry(j) \/
             GiveUp(j)
      PROVE  SourcesRetained'
  BY <1>6 DEF StartDecision, Fence, Retry, GiveUp, Acquire, Fenced, End
<1>7. ASSUME NEW k \in Job, Crash(k)
      PROVE  SourcesRetained'
  BY <1>7 DEF Crash
<1>8. ASSUME NEW m \in Member, ExcludeMember(m)
      PROVE  SourcesRetained'
  BY <1>8 DEF ExcludeMember
<1>9. ASSUME SetActive \/ AuditActions \/ AuditPointer
      PROVE  SourcesRetained'
  BY <1>9 DEF SetActive, AuditActions, AuditPointer
<1>10. QED
  BY <1>1, <1>2, <1>3, <1>4, <1>5, <1>6, <1>7, <1>8, <1>9 DEF Quiet

\* What a finalized result rests on outlasts a step that leaves the history alone, if
\* documents stay permanent, and a run that is done stays so with what it has.
LEMMA TracedFrame ==
  ASSUME IInv, UNCHANGED history, permanent \subseteq permanent',
         \A q \in permanent : pc[q] = "done" =>
           /\ pc'[q] = "done"
           /\ status[q] = "SUCCESS" => status'[q] = "SUCCESS"
           /\ \A n \in Member : raw[q][n] \in {"none", "permanent"} => raw'[q][n] \in {"none", "permanent"}
  PROVE  Traced'
<1>1. /\ snapshots' = snapshots /\ actions' = actions
      /\ Traced
  BY DEF history, IInv
<1>2. ASSUME NEW i \in DOMAIN actions, actions[i].action = "FINALIZE"
      PROVE  /\ actions[i].by \in permanent' /\ pc'[actions[i].by] = "done"
             /\ status'[actions[i].by] = "SUCCESS"
             /\ \A m \in Counted(snapshots[actions[i].newSnapshot]) :
                  /\ actions[i].by \in DOMAIN snapshots[actions[i].newSnapshot].sources
                  /\ m \in snapshots[actions[i].newSnapshot].sources[actions[i].by]
                  /\ raw'[actions[i].by][m] \in {"none", "permanent"}
  <2>1. Counted(snapshots[actions[i].newSnapshot]) \subseteq Member
    BY DEF Counted
  <2>2. QED
    BY <1>1, <1>2, <2>1 DEF Traced, FinalTraceable
<1>3. QED
  BY <1>1, <1>2 DEF Traced, FinalTraceable

\* Quiet steps keep what a finalized result rests on: its run is done, its
\* document and its evidence are permanent.
LEMMA TracedKept == IInv /\ Quiet => Traced'
<1> SUFFICES ASSUME IInv, Quiet
             PROVE  Traced'
  OBVIOUS
<1> USE DecisionAssumption DEF IInv, TypeOK, Confirmed, Run, Job, Decider,
      jobs, synced, retention, history
<1> DEFINE Lasting ==
      /\ permanent \subseteq permanent'
      /\ \A q \in permanent : pc[q] = "done" =>
           /\ pc'[q] = "done"
           /\ status[q] = "SUCCESS" => status'[q] = "SUCCESS"
           /\ \A n \in Member : raw[q][n] \in {"none", "permanent"} => raw'[q][n] \in {"none", "permanent"}
<1>1. ASSUME NEW r \in Run, StartFinalize(r)
      PROVE  Lasting
  BY <1>1 DEF StartFinalize, Acquire, InsertRun
<1>2. ASSUME NEW r \in Run, StartOther(r)
      PROVE  Lasting
  BY <1>2 DEF StartOther, InsertRun
<1>3. ASSUME NEW j \in Decider, StartDecision(j)
      PROVE  Lasting
  BY <1>3 DEF StartDecision, Acquire
<1>4. ASSUME NEW r \in Run, T1(r)
      PROVE  Lasting
  BY <1>4 DEF T1
<1>5. ASSUME NEW r \in Run, LiveStage(r)
      PROVE  Lasting
  BY <1>5 DEF LiveStage
<1>6. ASSUME NEW r \in Run, NEW m \in Member, T3(r, m)
      PROVE  Lasting
  BY <1>6 DEF T3, Fenced
<1>7. ASSUME NEW r \in Run, NEW m \in Member, MemberFails(r, m)
      PROVE  Lasting
  BY <1>7 DEF MemberFails
<1>8. ASSUME NEW r \in Run, NEW m \in Member, Capture(r, m)
      PROVE  Lasting
  BY <1>8 DEF Capture
<1>9. ASSUME NEW r \in Run, NEW m \in Member, ExpireRaw(r, m)
      PROVE  Lasting
  BY <1>9 DEF ExpireRaw
<1>10. ASSUME NEW r \in Run, Finish(r)
      PROVE  Lasting
  BY <1>10 DEF Finish, Fails
<1>11. ASSUME NEW r \in Run, ExpireRun(r)
      PROVE  Lasting
  BY <1>11 DEF ExpireRun
<1>12. ASSUME NEW j \in Decider, Fence(j) \/ Retry(j)
      PROVE  Lasting
  BY <1>12 DEF Fence, Retry, Fenced
<1>13. ASSUME NEW j \in Decider, GiveUp(j)
      PROVE  Lasting
  BY <1>13 DEF GiveUp, End
<1>14. ASSUME NEW k \in Job, Crash(k)
      PROVE  Lasting
  BY <1>14 DEF Crash
<1>15. ASSUME NEW m \in Member, ExcludeMember(m)
      PROVE  Lasting
  BY <1>15 DEF ExcludeMember
<1>16. ASSUME SetActive \/ AuditActions \/ AuditPointer
      PROVE  Lasting
  BY <1>16 DEF SetActive, AuditActions, AuditPointer
<1>17. Lasting
  BY <1>1, <1>2, <1>3, <1>4, <1>5, <1>6, <1>7, <1>8, <1>9, <1>10, <1>11, <1>12,
     <1>13, <1>14, <1>15, <1>16 DEF Quiet
<1>18. QED
  BY <1>17, QuietKeepsHistory, TracedFrame

\* Quiet steps keep what an audit has read, and judge it by a chain that
\* is valid.
LEMMA AuditedKept == IInv /\ Quiet => Audited'
<1> SUFFICES ASSUME IInv, Quiet
             PROVE  Audited'
  OBVIOUS
<1> USE DecisionAssumption DEF IInv, Audited, TypeOK, AlarmOnlyIfRaced, PointerType,
      jobs, synced, retention, history
<1>1. ASSUME AuditActions
      PROVE  Audited'
  BY <1>1 DEF AuditActions
<1>2. ASSUME AuditPointer
      PROVE  Audited'
  <2>1. /\ audit' = [audit EXCEPT !.pc = "done", !.valid = VerifyChain(audit.seen, snapshots, pointer)]
        /\ audit.pc = "reading" /\ UNCHANGED <<actions, snapshots, pointer>>
    BY <1>2 DEF AuditPointer
  <2>2. /\ audit'.pc = "done" /\ audit'.from = audit.from
        /\ audit'.valid = VerifyChain(audit.seen, snapshots, pointer)
        /\ DOMAIN audit' = {"pc", "seen", "from", "valid"}
    BY <2>1
  <2>3. audit.from = pointer.seq => VerifyChain(audit.seen, snapshots, pointer)
    BY <2>1, ChainVerifies DEF ChainValid
  <2>4. pointer.seq \in Nat
    BY DEF PointerType
  <2>5. QED
    BY <2>1, <2>2, <2>3, <2>4
<1>3. ASSUME NEW r \in Run, StartFinalize(r) \/ StartOther(r) \/ T1(r) \/
             LiveStage(r) \/ Finish(r) \/ ExpireRun(r)
      PROVE  Audited'
  BY <1>3 DEF StartFinalize, StartOther, T1, LiveStage, Finish, ExpireRun, Acquire,
         InsertRun, Fails
<1>4. ASSUME NEW r \in Run, NEW m \in Member, T3(r, m) \/ MemberFails(r, m) \/
             Capture(r, m) \/ ExpireRaw(r, m)
      PROVE  Audited'
  BY <1>4 DEF T3, MemberFails, Capture, ExpireRaw, Fenced
<1>5. ASSUME NEW j \in Decider, StartDecision(j) \/ Fence(j) \/ Retry(j) \/
             GiveUp(j)
      PROVE  Audited'
  BY <1>5 DEF StartDecision, Fence, Retry, GiveUp, Acquire, Fenced, End
<1>6. ASSUME NEW k \in Job, Crash(k)
      PROVE  Audited'
  BY <1>6 DEF Crash
<1>7. ASSUME NEW m \in Member, ExcludeMember(m)
      PROVE  Audited'
  BY <1>7 DEF ExcludeMember
<1>8. ASSUME SetActive
      PROVE  Audited'
  BY <1>8 DEF SetActive
<1>9. QED
  BY <1>1, <1>2, <1>3, <1>4, <1>5, <1>6, <1>7, <1>8 DEF Quiet

-----------------------------------------------------------------------------
\* The commit of any decision keeps the invariant, if a finalize is the first
\* one, its run is a SUCCESS that wrote the rows of all who counted, and a change of
\* winners has a note.
LEMMA DecideKeepsIInv ==
  ASSUME IInv, NEW j \in Decider, view[j] # NoView,
         NEW action \in {"FINALIZE", "OVERRIDE", "RECOMPUTE"},
         NEW newStatus \in {"FINAL", "OVERRIDDEN"},
         NEW kind \in {"RULE_BASED", "OVERRIDE"},
         NEW declared \in SUBSET Member, NEW note \in BOOLEAN,
         Decide(j, action, newStatus, kind, declared, note),
         action = "FINALIZE" => /\ j \in Finalizer
                                /\ pointer.status = "PROVISIONAL"
                                /\ view[j].status[j] = "SUCCESS"
                                /\ j \in Confirmers(view[j])
                                /\ \A m \in Eligible(view[j]) : view[j].row[m].by = j,
         pointer.seq > 0 /\ declared # snapshots[pointer.snapshot].declared => note
  PROVE  IInv'
<1> DEFINE d == view[j]
           seq == pointer.seq + 1
           id == Len(snapshots) + 1
           snapshot == [kind |-> kind, inputs |-> Inputs(d), computed |-> Winners(d),
                        declared |-> declared, sources |-> Sources(d)]
           act == NextAction(j, action, newStatus, pointer, id, note)
<1> USE DecisionAssumption
<1>1. TypeOK /\ Chained /\ Decided /\ Confirmed /\ Viewing /\ SourcesRetained /\ Traced
      /\ ChangesNoted /\ Audited
  BY DEF IInv
\* What the transaction has read, and the guards of its writes.
<1>2. /\ ViewSound(d) /\ holder = j /\ pc[j] = "deciding" /\ d.pointer = pointer
      /\ \A r \in Run : d.status[r] = "SUCCESS" => status[r] \in {"SUCCESS", "deleted"}
      /\ j \in Run => d.raw[j] = raw[j]
  BY <1>1 DEF Viewing
<1>3. \A r \in Confirmers(d) : d.status[r] # "deleted" /\ (r \notin permanent => status[r] = d.status[r])
  BY DEF Decide
\* What it writes.
<1>4. /\ snapshots' = Append(snapshots, snapshot)
      /\ actions' = [i \in DOMAIN actions \cup {seq} |-> IF i = seq THEN act ELSE actions[i]]
      /\ pointer' = [seq |-> seq, status |-> newStatus, snapshot |-> id, hash |-> Hash(seq, id)]
      /\ permanent' = permanent \cup Confirmers(d)
      /\ raw' = [r \in Run |-> [m \in Member |->
           IF <<r, m>> \in Evidence(d) THEN "permanent" ELSE raw[r][m]]]
  BY <1>2 DEF Decide, MovedPointer, Retained
<1>5. /\ pc' = [pc EXCEPT ![j] = "done"]
      /\ view' = [view EXCEPT ![j] = NoView]
      /\ holder' = NoRun
      /\ UNCHANGED <<todo, partial, event, fresh, row, live, group, edits, status, audit>>
  BY <1>2 DEF Decide, End, synced
<1>6. /\ pointer.seq \in Nat /\ pointer \in PointerType
      /\ seq \in Nat /\ seq > pointer.seq /\ seq \notin DOMAIN actions
      /\ id \in Nat /\ snapshots \in Seq(SnapshotType)
  BY <1>1 DEF TypeOK, PointerType, Chained
<1>7. /\ snapshot \in SnapshotType
      /\ act \in ActionType
      /\ Confirmers(d) \subseteq Run
  <2>1. /\ Inputs(d) \in [checked : BOOLEAN, excluded : SUBSET Member,
                          value : [Member -> Value], synced : SUBSET Member]
        /\ Winners(d) \in SUBSET Member
        /\ Confirmers(d) \in SUBSET Run
        /\ Sources(d) \in [Confirmers(d) -> SUBSET Member]
    BY <1>2, ViewResults
  <2>2. Sources(d) \in UNION {[R -> SUBSET Member] : R \in SUBSET Run}
    BY <2>1
  <2>3. snapshot \in SnapshotType
    BY <2>1, <2>2 DEF SnapshotType
  <2>4. act \in ActionType
    BY <1>6 DEF NextAction, ActionType, PointerType, ResultStatus
  <2>5. QED
    BY <2>1, <2>3, <2>4
<1>8. /\ snapshots' \in Seq(SnapshotType) /\ Len(snapshots') = id
      /\ DOMAIN snapshots = 1..Len(snapshots) /\ DOMAIN snapshots' = 1..id
      /\ snapshots'[id] = snapshot
      /\ \A i \in 1..Len(snapshots) : snapshots'[i] = snapshots[i]
  <2> HIDE DEF snapshot
  <2>1. QED
    BY <1>4, <1>6, <1>7
<1>9. /\ DOMAIN actions' = 1..seq /\ actions'[seq] = act
      /\ \A i \in DOMAIN actions : i # seq /\ actions'[i] = actions[i]
  BY <1>1, <1>4, <1>6 DEF Chained
<1>10. /\ act.action = action /\ act.by = j /\ act.newStatus = newStatus
       /\ act.prevStatus = pointer.status /\ act.newSnapshot = id
       /\ act.prevSnapshot = pointer.snapshot /\ act.note = note
       /\ act.prevHash = pointer.hash
       /\ snapshot.declared = declared /\ snapshot.sources = Sources(d)
  BY DEF NextAction
<1>11. \A r \in Confirmers(d) : status[r] \notin {"none", "deleted"}
  BY <1>1, <1>2, <1>3, <1>7 DEF ViewSound, Confirmed
<1>12. \A k \in Decider : view'[k] = NoView
  BY <1>1, <1>2, <1>5 DEF Viewing, TypeOK
<1>13. \A r \in Run, m \in Member : raw'[r][m] \in {raw[r][m], "permanent"}
  BY <1>4
\* Who counts by the snapshot's inputs is who was eligible in the view.
<1>13a. Counted(snapshot) = Eligible(d) /\ Counted(snapshot) \subseteq Member
  BY DEF Counted, Eligible, Inputs
<1> HIDE DEF d, seq, id, snapshot, act
<1>14. TypeOK'
  <2>1. \A i \in DOMAIN actions' : actions'[i] \in ActionType
    <3>1. \A i \in DOMAIN actions' : i = seq \/ i \in DOMAIN actions
      BY <1>1, <1>6, <1>9 DEF Chained, seq
    <3>2. \A i \in DOMAIN actions : actions[i] \in ActionType
      BY <1>1 DEF TypeOK
    <3>3. QED
      BY <1>7, <1>9, <3>1, <3>2
  <2>2. pointer' \in PointerType
    BY <1>4, <1>6 DEF PointerType, ResultStatus, Hash
  <2>3. raw' \in [Run -> [Member -> Captures]]
    BY <1>1, <1>4 DEF TypeOK, Captures
  <2>4. QED
    BY <1>1, <1>4, <1>5, <1>7, <1>8, <1>9, <2>1, <2>2, <2>3, <1>6 DEF TypeOK, Job
<1>15. Chained'
  <2>1. Linked(actions')
    BY <1>1, <1>4, <1>6, <1>9, <1>10 DEF Linked, Chained, seq, NoPointer
  <2>2. \A i \in DOMAIN actions' : actions'[i].newSnapshot \in 1..Len(snapshots')
    BY <1>1, <1>6, <1>8, <1>9, <1>10 DEF Chained, seq, id
  <2>3. ASSUME NEW i \in DOMAIN actions' \ {1}
        PROVE  /\ actions'[i].prevStatus = actions'[i - 1].newStatus
               /\ actions'[i].prevSnapshot = actions'[i - 1].newSnapshot
    <3>1. i - 1 \in DOMAIN actions /\ actions'[i - 1] = actions[i - 1]
      BY <1>1, <1>6, <1>9 DEF Chained, seq
    <3>2. CASE i = seq
      BY <1>1, <1>6, <1>9, <1>10, <3>1, <3>2 DEF Chained, seq
    <3>3. CASE i # seq
      BY <1>1, <1>6, <1>9, <3>1, <3>3 DEF Chained, seq
    <3>4. QED
      BY <3>2, <3>3
  <2>4. /\ pointer'.seq = seq /\ pointer'.status = newStatus
        /\ pointer'.snapshot = id /\ pointer'.hash = Hash(seq, id)
    BY <1>4
  <2>5. QED
    BY <1>6, <1>9, <1>10, <2>1, <2>2, <2>3, <2>4 DEF Chained
<1>16. Decided'
  <2>1. action = "FINALIZE" => seq = 1
    BY <1>1, <1>6 DEF Decided, Chained, seq
  <2>2. \A i \in DOMAIN actions' : i = seq \/ i \in DOMAIN actions
    BY <1>1, <1>6, <1>9 DEF Chained, seq
  <2>3. QED
    BY <1>1, <1>9, <1>10, <2>1, <2>2 DEF Decided, FinalizeFirst
<1>17. Confirmed'
  <2>1. \A r \in Run : pc[r] = "deciding" \/ r # j
    BY <1>2
  <2>2. \A r \in Run : /\ pc'[r] = "idle" <=> status'[r] = "none"
                       /\ pc'[r] = "deciding" => \A m \in Member : raw'[r][m] # "pending"
                       /\ pc'[r] # "done" => \A m \in Member : raw'[r][m] # "deleted"
    BY <1>1, <1>2, <1>5, <1>13 DEF Confirmed, TypeOK, Job, Run, Decider
  <2>3. \A r \in Confirmers(Database)' : status'[r] # "none"
    BY <1>1, <1>5 DEF Confirmed, Confirmers, Database
  <2>4. \A r \in permanent' : status'[r] \notin {"none", "deleted"}
    BY <1>1, <1>4, <1>5, <1>11 DEF Confirmed
  <2>5. QED
    BY <2>2, <2>3, <2>4 DEF Confirmed
<1>18. Viewing' /\ LeaseHoldsInputs'
  BY <1>12 DEF Viewing, LeaseHoldsInputs
<1>19. SourcesRetained'
  <2>1. DOMAIN Sources(d) = Confirmers(d)
    BY DEF Sources
  <2>2. \A r \in DOMAIN snapshots'[id].sources : r \in permanent' /\ status[r] \notin {"none", "deleted"}
    BY <1>4, <1>8, <1>10, <1>11, <2>1
  <2>3. QED
    BY <1>1, <1>4, <1>5, <1>6, <1>8, <2>2 DEF SourcesRetained, id
<1>20. Traced'
  <2>1. ASSUME action = "FINALIZE"
        PROVE  /\ status[j] = "SUCCESS" /\ j \in permanent'
               /\ \A m \in Counted(snapshot) : /\ j \in DOMAIN Sources(d)
                                               /\ m \in Sources(d)[j]
                                               /\ raw'[j][m] \in {"none", "permanent"}
    <3>1. j \in Run /\ j \in Confirmers(d) /\ d.status[j] = "SUCCESS"
      BY <2>1 DEF Run, d
    <3>2. status[j] = "SUCCESS"
      BY <1>2, <1>3, <1>11, <3>1
    <3>0. Counted(snapshot) \subseteq Member /\ \A m \in Counted(snapshot) : d.row[m].by = j
      BY <2>1, <1>13a DEF d
    <3>3. ASSUME NEW m \in Counted(snapshot)
          PROVE  raw'[j][m] \in {"none", "permanent"}
      <4>1. raw[j][m] \in {"none", "expiring", "permanent"}
        <5>1. raw[j][m] \in Captures
          BY <1>1, <3>0, <3>1 DEF TypeOK
        <5>2. raw[j][m] # "pending" /\ raw[j][m] # "deleted"
          BY <1>1, <1>2, <3>0, <3>1 DEF Confirmed
        <5>3. QED
          BY <5>1, <5>2 DEF Captures
      <4>2. raw[j][m] = "expiring" => <<j, m>> \in Evidence(d)
        BY <1>2, <3>0, <3>1 DEF Evidence, d
      <4>3. QED
        BY <1>4, <3>0, <3>1, <4>1, <4>2
    <3>4. \A m \in Counted(snapshot) : j \in DOMAIN Sources(d) /\ m \in Sources(d)[j]
      BY <3>0, <3>1 DEF Sources, d
    <3>5. QED
      BY <1>4, <3>1, <3>2, <3>3, <3>4
  <2>2. \A i \in DOMAIN actions' : actions'[i].action = "FINALIZE" =>
          actions'[i].by \in permanent' /\ pc'[actions'[i].by] = "done"
    <3>1. ASSUME NEW i \in DOMAIN actions, actions[i].action = "FINALIZE"
          PROVE  actions[i].by \in permanent' /\ pc'[actions[i].by] = "done"
      BY <1>1, <1>4, <1>5, <3>1 DEF Traced, TypeOK, Chained, Run, Job, Decider
    <3>2. action = "FINALIZE" => pc'[j] = "done"
      BY <1>1, <1>5 DEF TypeOK, Job
    <3>3. \A i \in DOMAIN actions' : i = seq \/ i \in DOMAIN actions
      BY <1>1, <1>6, <1>9 DEF Chained, seq
    <3>4. QED
      BY <1>8, <1>9, <1>10, <2>1, <3>1, <3>2, <3>3
  <2>3. FinalTraceable'
    <3> SUFFICES ASSUME NEW i \in DOMAIN actions', actions'[i].action = "FINALIZE"
                 PROVE  LET s == snapshots'[actions'[i].newSnapshot] IN
                        /\ status'[actions'[i].by] = "SUCCESS"
                        /\ \A m \in Counted(s) :
                             /\ actions'[i].by \in DOMAIN s.sources
                             /\ m \in s.sources[actions'[i].by]
                             /\ raw'[actions'[i].by][m] \in {"none", "permanent"}
      BY DEF FinalTraceable
    <3>1. CASE i = seq
      BY <1>5, <1>8, <1>9, <1>10, <2>1, <3>1
    <3>2. CASE i # seq
      <4>1. i \in DOMAIN actions /\ actions'[i] = actions[i]
        BY <1>1, <1>6, <1>9, <3>2 DEF Chained, seq
      <4>2. snapshots'[actions[i].newSnapshot] = snapshots[actions[i].newSnapshot]
        BY <1>1, <1>8, <4>1 DEF Chained
      <4>3. Counted(snapshots[actions[i].newSnapshot]) \subseteq Member
        BY DEF Counted
      <4>4. actions[i].by \in Run
        BY <1>1, <4>1 DEF Traced, TypeOK
      <4>5. /\ status[actions[i].by] = "SUCCESS"
            /\ \A m \in Counted(snapshots[actions[i].newSnapshot]) :
                 /\ actions[i].by \in DOMAIN snapshots[actions[i].newSnapshot].sources
                 /\ m \in snapshots[actions[i].newSnapshot].sources[actions[i].by]
                 /\ raw[actions[i].by][m] \in {"none", "permanent"}
        BY <1>1, <4>1 DEF Traced, FinalTraceable
      <4>6. \A m \in Counted(snapshots[actions[i].newSnapshot]) :
              raw'[actions[i].by][m] \in {"none", "permanent"}
        BY <1>13, <4>3, <4>4, <4>5
      <4>7. QED
        BY <1>5, <4>1, <4>2, <4>5, <4>6
    <3>3. QED
      BY <3>1, <3>2
  <2>4. QED
    BY <2>2, <2>3 DEF Traced
<1>21. ChangesNoted'
  <2> SUFFICES ASSUME NEW i \in DOMAIN actions' \ {1},
                      snapshots'[actions'[i].newSnapshot].declared
                        # snapshots'[actions'[i - 1].newSnapshot].declared
               PROVE  actions'[i].note
    BY DEF ChangesNoted
  <2>1. i - 1 \in DOMAIN actions
    BY <1>1, <1>6, <1>9 DEF Chained, seq
  <2>2. snapshots'[actions'[i - 1].newSnapshot] = snapshots[actions[i - 1].newSnapshot]
    BY <1>1, <1>8, <1>9, <2>1 DEF Chained
  <2>3. CASE i = seq
    <3>1. pointer.seq = i - 1 /\ pointer.seq > 0
      BY <1>6, <2>1, <2>3 DEF seq, Chained
    <3>2. snapshots[pointer.snapshot] = snapshots[actions[i - 1].newSnapshot]
      BY <1>1, <3>1 DEF Chained
    <3>3. snapshots'[actions'[i].newSnapshot].declared = declared /\ actions'[i].note = note
      BY <1>8, <1>9, <1>10, <2>3
    <3>4. QED
      BY <2>2, <3>1, <3>2, <3>3
  <2>4. CASE i # seq
    <3>1. i \in DOMAIN actions \ {1} /\ actions'[i] = actions[i]
      BY <1>1, <1>6, <1>9, <2>4 DEF Chained, seq
    <3>2. snapshots'[actions[i].newSnapshot] = snapshots[actions[i].newSnapshot]
      BY <1>1, <1>8, <3>1 DEF Chained
    <3>3. QED
      BY <1>1, <2>2, <3>1, <3>2 DEF ChangesNoted
  <2>5. QED
    BY <2>3, <2>4
<1>22. Audited'
  BY <1>1, <1>4, <1>5, <1>6 DEF Audited, AlarmOnlyIfRaced, seq
<1>23. QED
  BY <1>14, <1>15, <1>16, <1>17, <1>18, <1>19, <1>20, <1>21, <1>22 DEF IInv

\* Each of the three commits is such a decision.
LEMMA CommitKeepsIInv == IInv /\ Committing => IInv'
<1> SUFFICES ASSUME IInv, NEW j \in Decider,
                    CommitFinalize(j) \/ CommitOverride(j) \/ CommitRecompute(j)
             PROVE  IInv'
  BY DEF Committing
<1> USE DecisionAssumption
<1>1. view[j] # NoView
  BY DEF CommitFinalize, CommitOverride, CommitRecompute
<1>2. /\ ViewSound(view[j]) /\ view[j].pointer = pointer /\ view[j].snapshots = snapshots
      /\ Decided /\ Chained /\ pointer \in PointerType
  BY <1>1 DEF IInv, Viewing, TypeOK
<1>3. /\ Winners(view[j]) \subseteq Eligible(view[j])
      /\ Eligible(view[j]) \subseteq Member
  BY <1>2, ViewResults
<1>4. CASE CommitFinalize(j)
  <2>1. /\ Decide(j, "FINALIZE", "FINAL", "RULE_BASED", Winners(view[j]), FALSE)
        /\ Gate(j, view[j]) /\ j \in Finalizer
    BY <1>4 DEF CommitFinalize
  <2>2. pointer.status = "PROVISIONAL" /\ pointer.seq = 0
    BY <1>2, <2>1 DEF Gate, PointerType, ResultStatus, Decided, Chained
  <2>3. /\ view[j].status[j] = "SUCCESS"
        /\ \A m \in Eligible(view[j]) : view[j].row[m].by = j
    BY <2>1 DEF Gate
  <2>4. j \in Confirmers(view[j])
    BY <1>3, <2>1 DEF Gate, Confirmers, Job, Decider
  <2>5. ~(pointer.seq > 0) /\ Winners(view[j]) \in SUBSET Member
    BY <1>3, <2>2
  <2>6. QED
    BY <1>1, <2>1, <2>2, <2>3, <2>4, <2>5, DecideKeepsIInv
<1>5. CASE CommitOverride(j)
  <2>1. Declared[j] \in SUBSET Member
    BY <1>5 DEF CommitOverride
  <2>2. QED
    BY <1>1, <1>5, <2>1, DecideKeepsIInv DEF CommitOverride
<1>6. CASE CommitRecompute(j)
  <2> DEFINE noted == j \in Noted
  <2>1. Winners(view[j]) \in SUBSET Member /\ noted \in BOOLEAN
    BY <1>3
  <2>2. /\ Decide(j, "RECOMPUTE", "FINAL", "RULE_BASED", Winners(view[j]), noted)
        /\ Winners(view[j]) # snapshots[pointer.snapshot].declared => noted
    BY <1>2, <1>6 DEF CommitRecompute, WinnersChanged
  <2> HIDE DEF noted
  <2>3. QED
    BY <1>1, <2>1, <2>2, DecideKeepsIInv
<1>7. QED
  BY <1>4, <1>5, <1>6

\* The invariant holds in every state of every behaviour.
LEMMA Invariant == Spec => []IInv
<1>1. IInv /\ [Next]_vars => IInv'
  <2>1. IInv /\ Quiet => IInv'
    BY QuietKeepsHistory, HistoryKept, TypeOKKept, ConfirmedKept, ViewingKept,
       LeaseHoldsInputsKept, SourcesRetainedKept, TracedKept, AuditedKept DEF IInv
  <2>2. IInv /\ UNCHANGED vars => IInv'
    <3> SUFFICES ASSUME IInv, UNCHANGED vars
                 PROVE  IInv'
      OBVIOUS
    <3>1. Traced'
      BY TracedFrame DEF IInv, TypeOK, vars, jobs, retention, history
    <3>2. QED
      BY <3>1 DEF IInv, TypeOK, Chained, Linked, Decided, FinalizeFirst, Confirmed, Confirmers,
             Database, Viewing, LeaseHoldsInputs, SourcesRetained, ChangesNoted, Audited,
             AlarmOnlyIfRaced, vars, jobs, synced, retention, history
  <2>3. QED
    BY <2>1, <2>2, CommitKeepsIInv, NextCases
<1>2. QED
  BY InitIInv, <1>1, PTL DEF Spec

-----------------------------------------------------------------------------
\* A decider that is done stays so.
LEMMA DoneStays ==
  ASSUME TypeOK, Quiet
  PROVE  \A j \in Decider : pc[j] = "done" => pc'[j] = "done"
<1> USE DecisionAssumption DEF TypeOK, Run, Decider, Job, jobs, synced, retention, history
<1>1. ASSUME NEW r \in Run, StartFinalize(r) \/ StartOther(r)
      PROVE  \A j \in Decider : pc[j] = "done" => pc'[j] = "done"
  BY <1>1 DEF StartFinalize, StartOther
<1>2. ASSUME NEW r \in Run, T1(r) \/ LiveStage(r)
      PROVE  \A j \in Decider : pc[j] = "done" => pc'[j] = "done"
  BY <1>2 DEF T1, LiveStage
<1>3. ASSUME NEW r \in Run, Finish(r)
      PROVE  \A j \in Decider : pc[j] = "done" => pc'[j] = "done"
  BY <1>3 DEF Finish, Fails
<1>4. ASSUME NEW r \in Run, ExpireRun(r)
      PROVE  \A j \in Decider : pc[j] = "done" => pc'[j] = "done"
  BY <1>4 DEF ExpireRun
<1>5. ASSUME NEW r \in Run, NEW m \in Member,
             T3(r, m) \/ MemberFails(r, m) \/ Capture(r, m) \/ ExpireRaw(r, m)
      PROVE  \A j \in Decider : pc[j] = "done" => pc'[j] = "done"
  BY <1>5 DEF T3, MemberFails, Capture, ExpireRaw
<1>6. ASSUME NEW k \in Decider, StartDecision(k) \/ Fence(k) \/ Retry(k) \/ GiveUp(k)
      PROVE  \A j \in Decider : pc[j] = "done" => pc'[j] = "done"
  BY <1>6 DEF StartDecision, Fence, Retry, GiveUp, End
<1>7. ASSUME NEW k \in Job, Crash(k)
      PROVE  \A j \in Decider : pc[j] = "done" => pc'[j] = "done"
  BY <1>7 DEF Crash
<1>8. ASSUME (\E m \in Member : ExcludeMember(m)) \/ SetActive \/ AuditActions \/ AuditPointer
      PROVE  \A j \in Decider : pc[j] = "done" => pc'[j] = "done"
  BY <1>8 DEF ExcludeMember, SetActive, AuditActions, AuditPointer
<1>9. QED
  BY <1>1, <1>2, <1>3, <1>4, <1>5, <1>6, <1>7, <1>8 DEF Quiet

\* A commit appends the action of its own request, which is done with it.
LEMMA Appends ==
  ASSUME IInv, NEW j \in Decider, view[j] # NoView,
         NEW action, NEW newStatus, NEW kind, NEW declared, NEW note,
         Decide(j, action, newStatus, kind, declared, note)
  PROVE  /\ DOMAIN actions = 1..pointer.seq
         /\ DOMAIN actions' = 1..(pointer.seq + 1)
         /\ \A i \in DOMAIN actions : actions'[i] = actions[i]
         /\ \A i \in DOMAIN actions : snapshots'[actions[i].newSnapshot] = snapshots[actions[i].newSnapshot]
         /\ actions'[pointer.seq + 1] =
              NextAction(j, action, newStatus, pointer, Len(snapshots) + 1, note)
         /\ snapshots'[Len(snapshots) + 1].declared = declared
         /\ pointer' = MovedPointer(pointer, newStatus, Len(snapshots) + 1)
         /\ pc' = [pc EXCEPT ![j] = "done"]
         /\ pc[j] = "deciding"
<1> DEFINE snapshot == [kind |-> kind, inputs |-> Inputs(view[j]), computed |-> Winners(view[j]),
                        declared |-> declared, sources |-> Sources(view[j])]
<1>1. /\ view[j].pointer = pointer /\ pc[j] = "deciding"
      /\ pointer.seq \in Nat /\ DOMAIN actions = 1..pointer.seq
      /\ \A i \in DOMAIN actions : actions[i].newSnapshot \in 1..Len(snapshots)
      /\ snapshots \in Seq(SnapshotType)
  BY DEF IInv, Viewing, TypeOK, PointerType, Chained
<1>2. /\ snapshots' = Append(snapshots, snapshot)
      /\ actions' = [i \in DOMAIN actions \cup {pointer.seq + 1} |-> IF i = pointer.seq + 1
           THEN NextAction(j, action, newStatus, pointer, Len(snapshots) + 1, note) ELSE actions[i]]
      /\ pointer' = MovedPointer(pointer, newStatus, Len(snapshots) + 1)
      /\ pc' = [pc EXCEPT ![j] = "done"]
  BY <1>1 DEF Decide, End
<1>3. snapshot.declared = declared
  OBVIOUS
<1> HIDE DEF snapshot
<1>4. /\ snapshots'[Len(snapshots) + 1] = snapshot
      /\ \A i \in 1..Len(snapshots) : snapshots'[i] = snapshots[i]
  BY <1>1, <1>2
<1>5. QED
  BY <1>1, <1>2, <1>3, <1>4

\* A sequence with one more element at its end.
LEMMA AppendIs ==
  ASSUME NEW S, NEW n \in Nat, NEW s \in [1..n -> S], NEW t \in [1..(n + 1) -> S], NEW e \in S,
         \A i \in 1..n : t[i] = s[i], t[n + 1] = e
  PROVE  t = Append(s, e)
<1>1. s \in Seq(S) /\ Len(s) = n
  OBVIOUS
<1>2. t \in Seq(S) /\ Len(t) = n + 1
  OBVIOUS
<1>4. /\ Append(s, e) \in Seq(S) /\ Len(Append(s, e)) = n + 1
      /\ \A i \in 1..n : Append(s, e)[i] = s[i]
      /\ Append(s, e)[n + 1] = e
  BY <1>1, AppendProperties
<1>5. \A i \in 1..(n + 1) : t[i] = Append(s, e)[i]
  <2>1. \A i \in 1..(n + 1) : i \in 1..n \/ i = n + 1
    OBVIOUS
  <2>2. QED
    BY <1>4, <2>1
<1>6. QED
  BY <1>2, <1>4, <1>5, SeqEqual

\* The initial ledger is empty.
LEMMA InitLedger == Init => Ledger!Init
BY DEF Init, Ledger!Init, Shown, NoPointer

\* A commit records its decision, unless its request has decided before.
LEMMA DecideRecords ==
  ASSUME IInv, DecidedOnce, NEW j \in Decider, view[j] # NoView,
         NEW action, NEW newStatus, NEW kind, NEW declared, NEW note,
         Decide(j, action, newStatus, kind, declared, note)
  PROVE  Ledger!Record(j, action, newStatus, declared, note)
<1> DEFINE Book == [i \in DOMAIN actions |-> Entry(actions[i])]
           new == [action |-> action, by |-> j, status |-> newStatus, winners |-> declared, note |-> note]
<1>1. pointer.seq \in Nat
  BY DEF IInv, TypeOK, PointerType
<1>2. /\ DOMAIN actions = 1..pointer.seq
      /\ DOMAIN actions' = 1..(pointer.seq + 1)
      /\ \A i \in DOMAIN actions : Entry(actions[i])' = Entry(actions[i])
      /\ \A i \in 1..(pointer.seq + 1) : i = pointer.seq + 1 => Entry(actions[i])' = new
      /\ Shown' = [status |-> newStatus, winners |-> declared]
  <2>1. pointer' # NoPointer /\ pointer'.status = newStatus /\ pointer'.snapshot = Len(snapshots) + 1
    BY <1>1, Appends DEF MovedPointer, NoPointer
  <2>2. /\ DOMAIN actions = 1..pointer.seq
        /\ DOMAIN actions' = 1..(pointer.seq + 1)
        /\ \A i \in DOMAIN actions : actions'[i] = actions[i]
        /\ \A i \in DOMAIN actions : snapshots'[actions[i].newSnapshot] = snapshots[actions[i].newSnapshot]
        /\ actions'[pointer.seq + 1] =
             NextAction(j, action, newStatus, pointer, Len(snapshots) + 1, note)
        /\ snapshots'[Len(snapshots) + 1].declared = declared
    BY Appends
  <2>3. \A i \in DOMAIN actions : Entry(actions[i])' = Entry(actions[i])
    BY <2>2 DEF Entry
  <2>4. ASSUME NEW i \in 1..(pointer.seq + 1), i = pointer.seq + 1
        PROVE  Entry(actions[i])' = new
    <3>1. /\ actions'[i].action = action /\ actions'[i].by = j
          /\ actions'[i].newStatus = newStatus /\ actions'[i].note = note
          /\ actions'[i].newSnapshot = Len(snapshots) + 1
      BY <2>2, <2>4 DEF NextAction
    <3>2. Entry(actions[i])' =
            [action |-> actions'[i].action, by |-> actions'[i].by, status |-> actions'[i].newStatus,
             winners |-> snapshots'[actions'[i].newSnapshot].declared, note |-> actions'[i].note]
      BY DEF Entry
    <3>3. QED
      BY <2>2, <3>1, <3>2
  <2>5. Shown' = [status |-> newStatus, winners |-> declared]
    BY <2>1, <2>2 DEF Shown
  <2>6. QED
    BY <2>2, <2>3, <2>4, <2>5
<1>3. Book' = Append(Book, new)
  <2>1. Book' = [i \in 1..(pointer.seq + 1) |-> Entry(actions[i])']
    BY <1>2
  <2>2. Book = [i \in 1..pointer.seq |-> Entry(actions[i])]
    BY <1>2
  <2> HIDE DEF new
  <2>3. \A i \in 1..pointer.seq : Book'[i] = Book[i]
    BY <1>1, <1>2, <2>1, <2>2
  <2>4. Book'[pointer.seq + 1] = new
    BY <1>1, <1>2, <2>1
  <2> DEFINE S == {Book[i] : i \in 1..pointer.seq} \cup {new}
  <2>5. Book \in [1..pointer.seq -> S] /\ new \in S
    BY <2>2
  <2>6. Book' \in [1..(pointer.seq + 1) -> S]
    <3>1. \A i \in 1..(pointer.seq + 1) : i \in 1..pointer.seq \/ i = pointer.seq + 1
      BY <1>1
    <3>2. \A i \in 1..(pointer.seq + 1) : Book'[i] \in S
      BY <2>3, <2>4, <3>1
    <3>3. QED
      BY <2>1, <3>2
  <2>7. ASSUME NEW s, NEW t, s = Book, t = Book'
        PROVE  t = Append(s, new)
    <3>1. /\ s \in [1..pointer.seq -> S] /\ t \in [1..(pointer.seq + 1) -> S]
          /\ \A i \in 1..pointer.seq : t[i] = s[i]
          /\ t[pointer.seq + 1] = new
      BY <2>3, <2>4, <2>5, <2>6, <2>7
    <3> HIDE DEF S, Book
    <3>2. QED
      BY <1>1, <2>5, <3>1, AppendIs
  <2>8. QED
    BY <2>7
<1>4. \A i \in DOMAIN Book : Book[i].by # j
  <2>1. pc[j] = "deciding"
    BY Appends
  <2>2. \A i \in DOMAIN actions : actions[i].by # j
    BY <2>1 DEF DecidedOnce
  <2>3. QED
    BY <2>2 DEF Entry
<1>5. QED
  BY <1>2, <1>3, <1>4 DEF Ledger!Record

\* The gate passes somebody's win only.
LEMMA SomebodyWins ==
  ASSUME NEW r, NEW d, Gate(r, d)
  PROVE  Winners(d) # {}
BY DEF Gate, Winners

\* Each commit is the ledger's step of that name.
LEMMA CommitIsStep == IInv /\ DecidedOnce /\ Committing => Ledger!Next
<1> SUFFICES ASSUME IInv, DecidedOnce, NEW j \in Decider,
                    CommitFinalize(j) \/ CommitOverride(j) \/ CommitRecompute(j)
             PROVE  Ledger!Next
  BY DEF Committing
<1> DEFINE Book == [i \in DOMAIN actions |-> Entry(actions[i])]
<1>1. view[j] # NoView
  BY DEF CommitFinalize, CommitOverride, CommitRecompute
<1>2. /\ ViewSound(view[j]) /\ view[j].pointer = pointer /\ view[j].snapshots = snapshots
      /\ Decided /\ Chained /\ pointer \in PointerType
  BY <1>1 DEF IInv, Viewing, TypeOK
<1>3. Winners(view[j]) \in SUBSET Member
  BY <1>2, ViewResults
<1>4. CASE CommitFinalize(j)
  <2>1. /\ Decide(j, "FINALIZE", "FINAL", "RULE_BASED", Winners(view[j]), FALSE)
        /\ Gate(j, view[j]) /\ j \in Finalizer
    BY <1>4 DEF CommitFinalize
  <2>2. pointer.seq = 0
    BY <1>2, <2>1 DEF Gate, PointerType, ResultStatus, Decided, Chained
  <2>3. Book = <<>>
    BY <1>2, <2>2 DEF Chained
  <2>4. Ledger!Record(j, "FINALIZE", "FINAL", Winners(view[j]), FALSE)
    BY <1>1, <2>1, DecideRecords
  <2>5. Ledger!Finalize(j)
    <3> DEFINE w == Winners(view[j])
    <3>1. w \in (SUBSET Member) \ {{}} /\ Ledger!Record(j, "FINALIZE", "FINAL", w, FALSE)
      <4>1. Winners(view[j]) # {}
        BY <2>1, SomebodyWins
      <4>2. QED
        BY <1>3, <2>4, <4>1
    <3> HIDE DEF w
    <3>2. QED
      BY <2>3, <3>1 DEF Ledger!Finalize
  <2>6. QED
    BY <2>1, <2>5 DEF Ledger!Next
<1>5. CASE CommitOverride(j)
  <2>1. j \in Overrider /\ Decide(j, "OVERRIDE", "OVERRIDDEN", "OVERRIDE", Declared[j], TRUE)
    BY <1>5 DEF CommitOverride
  <2>2. Ledger!Override(j)
    BY <1>1, <2>1, DecideRecords DEF Ledger!Override
  <2>3. QED
    BY <2>1, <2>2 DEF Ledger!Next
<1>6. CASE CommitRecompute(j)
  <2> DEFINE noted == j \in Noted
             w == Winners(view[j])
  <2>1. /\ j \in Recomputer /\ pointer # NoPointer
        /\ Decide(j, "RECOMPUTE", "FINAL", "RULE_BASED", w, noted)
        /\ w # snapshots[pointer.snapshot].declared => noted
    BY <1>2, <1>6 DEF CommitRecompute, WinnersChanged
  <2>2. Shown.winners = snapshots[pointer.snapshot].declared
    BY <2>1 DEF Shown
  <2>3. Book # <<>>
    <3>1. pointer.seq > 0
      BY <1>2, <2>1 DEF Chained, PointerType
    <3>2. 1 \in DOMAIN Book
      BY <1>2, <3>1 DEF Chained, PointerType
    <3>3. QED
      BY <3>2
  <2>4. w \in SUBSET Member
    BY <1>3
  <2> HIDE DEF noted, w
  <2>5. Ledger!Record(j, "RECOMPUTE", "FINAL", w, noted)
    BY <1>1, <2>1, DecideRecords
  <2>6. Ledger!Recompute(j)
    BY <2>1, <2>2, <2>3, <2>4, <2>5 DEF Ledger!Recompute, noted
  <2>7. QED
    BY <2>1, <2>6 DEF Ledger!Next
<1>7. QED
  BY <1>4, <1>5, <1>6

\* No request decides twice, in any state of any behaviour.
LEMMA OnceInvariant == Spec => []DecidedOnce
<1>1. Init => DecidedOnce
  BY DEF Init, DecidedOnce
<1>2. IInv /\ DecidedOnce /\ [Next]_vars => DecidedOnce'
  <2> SUFFICES ASSUME IInv, DecidedOnce, [Next]_vars
               PROVE  DecidedOnce'
    OBVIOUS
  <2>1. \A i \in DOMAIN actions : actions[i].by \in Decider
    BY DEF IInv, TypeOK, ActionType
  <2>2. CASE Quiet
    <3>1. \A j \in Decider : pc[j] = "done" => pc'[j] = "done"
      BY <2>2, DoneStays DEF IInv
    <3>2. actions' = actions
      BY <2>2, QuietKeepsHistory DEF history
    <3>3. QED
      BY <2>1, <3>1, <3>2 DEF DecidedOnce
  <2>3. CASE Committing
    <3>1. PICK j \in Decider : CommitFinalize(j) \/ CommitOverride(j) \/ CommitRecompute(j)
      BY <2>3 DEF Committing
    <3>2. view[j] # NoView
      BY <3>1 DEF CommitFinalize, CommitOverride, CommitRecompute
    <3>3. \E action, newStatus, kind, declared, note :
            Decide(j, action, newStatus, kind, declared, note)
      <4>1. CASE CommitFinalize(j)
        BY <4>1 DEF CommitFinalize
      <4>2. CASE CommitOverride(j)
        BY <4>2 DEF CommitOverride
      <4>3. CASE CommitRecompute(j)
        <5> DEFINE noted == j \in Noted
        <5>1. Decide(j, "RECOMPUTE", "FINAL", "RULE_BASED", Winners(view[j]), noted)
          BY <4>3 DEF CommitRecompute
        <5> HIDE DEF noted
        <5>2. QED
          BY <5>1
      <4>4. QED
        BY <3>1, <4>1, <4>2, <4>3
    <3>4. PICK action, newStatus, kind, declared, note :
            Decide(j, action, newStatus, kind, declared, note)
      BY <3>3
    <3>5. /\ DOMAIN actions = 1..pointer.seq
          /\ DOMAIN actions' = 1..(pointer.seq + 1)
          /\ \A i \in DOMAIN actions : actions'[i] = actions[i]
          /\ actions'[pointer.seq + 1].by = j
          /\ pc' = [pc EXCEPT ![j] = "done"]
          /\ pointer.seq \in Nat
      <4>1. pointer.seq \in Nat
        BY DEF IInv, TypeOK, PointerType
      <4>2. NextAction(j, action, newStatus, pointer, Len(snapshots) + 1, note).by = j
        BY DEF NextAction
      <4>3. QED
        BY <3>2, <3>4, <4>1, <4>2, Appends
    <3>6. pc \in [Job -> {"idle", "bootstrap", "members", "finishing", "deciding", "done"}]
      BY DEF IInv, TypeOK
    <3>7. QED
      BY <2>1, <3>5, <3>6 DEF DecidedOnce, Job
  <2>4. CASE UNCHANGED vars
    BY <2>4 DEF vars, jobs, history, DecidedOnce
  <2>5. QED
    BY <2>2, <2>3, <2>4, NextCases
<1>3. QED
  BY <1>1, <1>2, Invariant, PTL DEF Spec

\* Every step of the program is a step of the ledger or none.
THEOREM DecisionsAreAtomic == Spec => ImplementsLedger
<1>1. IInv /\ DecidedOnce /\ [Next]_vars => [Ledger!Next]_(Ledger!vars)
  <2>1. UNCHANGED history => UNCHANGED Ledger!vars
    BY DEF history, Ledger!vars, Entry, Shown
  <2>2. UNCHANGED vars => UNCHANGED history
    BY DEF vars
  <2>3. QED
    BY <2>1, <2>2, NextCases, QuietKeepsHistory, CommitIsStep
<1>2. QED
  BY <1>1, InitLedger, Invariant, OnceInvariant, PTL DEF Spec, ImplementsLedger, Ledger!Spec

-----------------------------------------------------------------------------
\* The documents a decision reads and writes keep their types; in particular no
\* snapshot cites anything but runs and members (the validators of gwResults).
THEOREM TypesHold == Spec => []TypeOK
<1>1. IInv => TypeOK
  BY DEF IInv
<1>2. QED
  BY Invariant, <1>1, PTL

\* The decisions form one chain that verifyChain accepts, whatever was retried,
\* taken over or raced (hashChain.js, ops/dbCheck.js).
THEOREM ChainStaysValid == Spec => []ChainValid
<1>1. IInv => ChainValid
  BY ChainVerifies DEF IInv
<1>2. QED
  BY Invariant, <1>1, PTL

\* A gameweek is finalized at most once, before any other decision (canFinalize).
THEOREM FinalizedFirst == Spec => []FinalizeFirst
<1>1. IInv => FinalizeFirst
  BY DEF IInv, Decided
<1>2. QED
  BY Invariant, <1>1, PTL

\* A finalized result rests on its own successful run and evidence for good
\* (finalize, unsetExpiry, unsetEvidenceExpiry).
THEOREM FinalStaysTraceable == Spec => []FinalTraceable
<1>1. IInv => FinalTraceable
  BY DEF IInv, Traced
<1>2. QED
  BY Invariant, <1>1, PTL

\* Only a run of another group changes a row that an open decision has read
\* (fence).
THEOREM LeaseProtectsInputs == Spec => []LeaseHoldsInputs
<1>1. IInv => LeaseHoldsInputs
  BY DEF IInv
<1>2. QED
  BY Invariant, <1>1, PTL

\* Every run a snapshot cites keeps its document (unsetExpiry, dbCheck I6, I7).
THEOREM SourcesStay == Spec => []SourcesRetained
<1>1. IInv => SourcesRetained
  BY DEF IInv
<1>2. QED
  BY Invariant, <1>1, PTL

\* Winners change after the first decision with an admin's note only (recompute,
\* override).
THEOREM ChangesAreNoted == Spec => []ChangesNoted
<1>1. IInv => ChangesNoted
  BY DEF IInv
<1>2. QED
  BY Invariant, <1>1, PTL

\* The verify endpoint alarms only when a decision came between its reads
\* (GET actions/verify).
THEOREM AlarmsAreRaces == Spec => []AlarmOnlyIfRaced
<1>1. IInv => AlarmOnlyIfRaced
  BY DEF IInv, Audited
<1>2. QED
  BY Invariant, <1>1, PTL
=============================================================================
