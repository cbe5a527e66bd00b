------------------------------ MODULE Decision ------------------------------
(***************************************************************************)
(* Deciding one gameweek of one group (services/resultService.js over      *)
(* repositories/resultRepo.js): finalize, override and recompute, each in  *)
(* one transaction (runT4) under the group's lease, against everything     *)
(* that is not under that lease: syncs of other groups that share members, *)
(* edits of the group, the TTL indexes, and the verify endpoint.           *)
(*                                                                         *)
(* A transaction reads the database as it was at its first statement, the  *)
(* fence, and its writes take effect together or not at all; it fails when *)
(* a document it writes has changed since.  So runT4 is two steps: Fence,  *)
(* which takes the view, and the commit, which writes what follows from    *)
(* that view.  Between the two anything else may commit.                   *)
(*                                                                         *)
(* A result of a member is "low" or "high" when reconciled; tied members   *)
(* share the win.  A hash is its content: seq and snapshot name an action. *)
(***************************************************************************)
EXTENDS Naturals, FiniteSets, Sequences, Functions

CONSTANTS
  Member,     \* members of the group
  Shared,     \* those that are members of another group, too
  Finalizer,  \* POST finalize requests, each also a sync run of this group
  Overrider,  \* POST override requests
  Recomputer, \* POST recompute requests
  Declared,   \* the winners an override names
  Noted,      \* recompute requests with a note
  Other,      \* FINALIZE runs of the other group
  NoRun,
  NoView,
  MaxEdits,   \* bound: edits of the group
  MaxAudits,  \* bound: GET actions/verify requests
  MayExclude, \* bound: members an edit may exclude
  MayStall,   \* bound: jobs that may be silent for longer than their lease
  MayCrash,   \* bound: jobs whose process may die
  MayFail,    \* bound: runs whose requests and writes may fail
  MayExpire,  \* bound: runs old enough for the TTL indexes
  Recorded,   \* bound: the responses, by run and member, that get stored
  Checked,    \* bound: what FPL may tell a run about the gameweek
  Answers     \* bound: what FPL may tell a run about a member

Run == Finalizer \cup Other
Decider == Finalizer \cup Overrider \cup Recomputer
Job == Decider \cup Other

Reconciled == {"low", "high"}
Value == {"none", "unreconciled"} \cup Reconciled

ASSUME DecisionAssumption ==
  /\ Shared \subseteq Member
  /\ IsFiniteSet(Member) /\ IsFiniteSet(Run)
  /\ Finalizer \cap Other = {}
  /\ Run \cap (Overrider \cup Recomputer) = {}
  /\ Overrider \cap Recomputer = {}
  /\ Declared \in [Overrider -> (SUBSET Member) \ {{}}]
  /\ Noted \subseteq Recomputer
  /\ NoRun \notin Job
  /\ MaxEdits \in Nat
  /\ MaxAudits \in Nat
  /\ MayExclude \subseteq Member
  /\ MayStall \subseteq Job
  /\ MayCrash \subseteq Job
  /\ MayFail \subseteq Run
  /\ MayExpire \subseteq Run
  /\ Recorded \subseteq Run \X Member
  /\ Checked \in [Run -> SUBSET BOOLEAN]
  /\ Answers \in [Run -> [Member -> SUBSET Value]]

VARIABLES
  holder,     \* the request the group's lock names
  pc,         \* per job: how far it got
  todo,       \* per run: members not yet written
  partial,    \* runs with a failed member
  view,       \* per decider: what its open transaction sees
  event,      \* the gameweek's document: DATA_CHECKED or not, confirmed by
  fresh,      \* runs with startedAt > the event's dataCheckedObservedAt
  row,        \* per member: value for the gameweek, confirmed by
  live,       \* the run that last confirmed the gameweek's live points
  group,      \* isActive, members excluded from this gameweek
  edits,      \* edits so far
  status,     \* per run: its syncRuns document
  permanent,  \* runs whose document has no expireAt
  raw,        \* per run and member: the raw responses behind the member's row
  snapshots,  \* resultSnapshots
  actions,    \* gwResultActions, by seq (linear_chain_unique)
  pointer,    \* the gwResults document
  audit       \* GET actions/verify

jobs == <<holder, pc, todo, partial, view>>
synced == <<event, fresh, row, live>>
retention == <<status, permanent, raw>>
history == <<snapshots, actions, pointer>>
vars == <<jobs, synced, group, edits, retention, history, audit>>

Statuses == {"none", "RUNNING", "SUCCESS", "PARTIAL", "FAILED", "ABANDONED", "deleted"}
Captures == {"none", "pending", "expiring", "permanent", "deleted"}
ResultStatus == {"PROVISIONAL", "FINAL", "OVERRIDDEN"}

\* Hash of an action, and the prevHash of the first one.
Hash(seq, snapshot) == <<seq, snapshot>>
GENESIS == <<0, 0>>

\* getPointer's null.
NoPointer == [seq |-> 0, status |-> "PROVISIONAL", snapshot |-> 0, hash |-> GENESIS]

\* What a transaction that starts now will see.
Database ==
  [event |-> event, fresh |-> fresh, row |-> row, live |-> live, group |-> group, status |-> status,
   raw |-> raw, snapshots |-> snapshots, actions |-> actions, pointer |-> pointer]

Init ==
  /\ holder = NoRun
  /\ pc = [j \in Job |-> "idle"]
  /\ todo = [r \in Run |-> {}]
  /\ partial = {}
  /\ view = [j \in Decider |-> NoView]
  /\ event = [checked |-> FALSE, by |-> NoRun]
  /\ fresh = {}
  /\ row = [m \in Member |-> [value |-> "none", by |-> NoRun]]
  /\ live = NoRun
  /\ group = [active |-> TRUE, excluded |-> {}]
  /\ edits = 0
  /\ status = [r \in Run |-> "none"]
  /\ permanent = {}
  /\ raw = [r \in Run |-> [m \in Member |-> "none"]]
  /\ snapshots = <<>>
  /\ actions = <<>>
  /\ pointer = NoPointer
  /\ audit = [pc |-> "idle", seen |-> <<>>, from |-> 0, valid |-> TRUE]

-----------------------------------------------------------------------------
(* The engine and the gate, on a view d of the database. *)

IsSynced(d, m) == d.row[m].by # NoRun

\* selectEligible: NO_TEAM needs a successful sync that found no row.
Eligible(d) ==
  {m \in Member \ d.group.excluded : IsSynced(d, m) => d.row[m].value # "none"}

\* computeGwResult's blockedBy.
Blocking(d) == {m \in Eligible(d) : d.row[m].value \notin Reconciled}

\* computeGwResult's winners: nobody while the result is BLOCKED.
Winners(d) ==
  LET top == {m \in Eligible(d) : d.row[m].value = "high"} IN
  CASE Blocking(d) # {}              -> {}
    [] Blocking(d) = {} /\ top # {}  -> top
    [] OTHER                         -> Eligible(d)

\* The engine's inputs, which inputsHash identifies: not who confirmed them.
Inputs(d) ==
  [checked |-> d.event.checked, excluded |-> d.group.excluded,
   value |-> [m \in Member |-> d.row[m].value],
   synced |-> {m \in Member : IsSynced(d, m)}]

\* buildSources: the runs that last confirmed an input document.
Confirmers(d) == ({d.event.by, d.live} \cup {d.row[m].by : m \in Member}) \ {NoRun}
Sources(d) == [r \in Confirmers(d) |-> {m \in Member : d.row[m].by = r}]

\* Plausible bugs: a gate that takes rows of any recent run; one that does not look at
\* the result it is about to replace.
GateAnyRun(r, d) ==
  /\ d.group.active /\ d.event.checked
  /\ d.pointer.status \notin {"FINAL", "OVERRIDDEN"}
  /\ d.status[r] = "SUCCESS"
  /\ \A m \in Eligible(d) : d.row[m].by \in d.fresh
  /\ Blocking(d) = {} /\ Eligible(d) # {}
GateAnyResult(r, d) ==
  /\ d.group.active /\ d.event.checked
  /\ d.status[r] = "SUCCESS"
  /\ \A m \in Eligible(d) : d.row[m].by = r /\ r \in d.fresh
  /\ Blocking(d) = {} /\ Eligible(d) # {}

\* evaluateFinalizeGate and canFinalize, with finalize's own run.status test.
Gate(r, d) ==
  /\ d.group.active
  /\ d.event.checked
  /\ d.pointer.status \notin {"FINAL", "OVERRIDDEN"}
  /\ d.status[r] = "SUCCESS"
  /\ \A m \in Eligible(d) : d.row[m].by = r /\ r \in d.fresh
  /\ Blocking(d) = {}
  /\ Eligible(d) # {}

\* Each action names the snapshot and the action before it, from the start.
Linked(acts) ==
  \A i \in DOMAIN acts :
    acts[i].prevHash = IF i = 1 THEN GENESIS ELSE Hash(i - 1, acts[i - 1].newSnapshot)

\* A plausible bug: the pointer compared with the number of the action to come.
HeadOffByOne(acts, ptr) == ptr.seq = Cardinality(DOMAIN acts) + 1

HeadMatches(acts, ptr) ==
  LET n == Cardinality(DOMAIN acts) IN
  /\ n > 0
  /\ ptr.seq = n
  /\ ptr.hash = Hash(n, acts[n].newSnapshot)
  /\ ptr.snapshot = acts[n].newSnapshot

\* hashChain.verifyChain over what listActions, getPointer and the snapshots say.
VerifyChain(acts, snaps, ptr) ==
  /\ DOMAIN acts = 1..Cardinality(DOMAIN acts)
  /\ Linked(acts)
  /\ \A i \in DOMAIN acts : acts[i].newSnapshot \in DOMAIN snaps
  /\ ptr # NoPointer => HeadMatches(acts, ptr)

-----------------------------------------------------------------------------
(* Requests and syncs. *)

\* A plausible bug: a fence whose answer nobody looks at.
FenceUnheeded(j) == TRUE

\* Every fenced statement: the lock names the caller, and no transaction that
\* has written the lock document is open.
Fenced(j) ==
  /\ holder = j
  /\ \A k \in Decider : view[k] = NoView

\* Acquiring writes the lock document, so it waits for an open transaction. The
\* lock is free, or its holder has died, or been silent for longer than a lease.
Acquire(j) ==
  /\ \A k \in Decider : view[k] = NoView
  /\ holder \notin MayStall \cup {NoRun} => pc[holder] = "done"
  /\ holder' = j

\* The run's own document; runs of earlier holders still RUNNING are abandoned.
InsertRun(r) ==
  /\ status' = [q \in Run |-> IF q = r THEN "RUNNING"
                              ELSE IF r \in Finalizer /\ q \in Finalizer /\ status[q] = "RUNNING"
                              THEN "ABANDONED" ELSE status[q]]
  /\ fresh' = IF event.checked THEN fresh \cup {r} ELSE fresh

\* finalize: the group is active, the lease taken, the run inserted.
StartFinalize(r) ==
  /\ r \in Finalizer /\ pc[r] = "idle"
  /\ group.active
  /\ Acquire(r)
  /\ InsertRun(r)
  /\ pc' = [pc EXCEPT ![r] = "bootstrap"]
  /\ UNCHANGED <<todo, partial, view, event, row, live, group, edits, permanent, raw, history, audit>>

\* override and recompute: withGroupLease, no run.
StartDecision(j) ==
  /\ j \in Overrider \cup Recomputer /\ pc[j] = "idle"
  /\ group.active
  /\ Acquire(j)
  /\ pc' = [pc EXCEPT ![j] = "deciding"]
  /\ UNCHANGED <<todo, partial, view, synced, group, edits, retention, history, audit>>

\* A finalize of the other group, under the other group's lease.
StartOther(r) ==
  /\ r \in Other /\ pc[r] = "idle"
  /\ InsertRun(r)
  /\ pc' = [pc EXCEPT ![r] = "bootstrap"]
  /\ UNCHANGED <<holder, todo, partial, view, event, row, live, group, edits, permanent, raw, history, audit>>

\* T1 is fenced on the bootstrap lease only. The first run to see DATA_CHECKED
\* started before it observed it; a regression forgets the observation.
T1(r) ==
  /\ pc[r] = "bootstrap"
  /\ \E checked \in Checked[r] :
       /\ event' = [checked |-> checked, by |-> r]
       /\ fresh' = IF checked /\ event.checked THEN fresh ELSE {}
  /\ todo' = [todo EXCEPT ![r] = IF r \in Other THEN Shared ELSE Member]
  /\ pc' = [pc EXCEPT ![r] = "members"]
  /\ UNCHANGED <<holder, partial, view, row, live, group, edits, retention, history, audit>>

\* T3: the member's row, and the responses behind it on their way to
\* fplRawResponses. A row that exists never disappears.
T3(r, m) ==
  /\ pc[r] = "members" /\ m \in todo[r]
  /\ r \in Finalizer => Fenced(r)
  /\ \E v \in Answers[r][m] :
       /\ v = "none" => row[m].value = "none"
       /\ row' = [row EXCEPT ![m] = [value |-> v, by |-> r]]
  /\ raw' = IF <<r, m>> \in Recorded THEN [raw EXCEPT ![r][m] = "pending"] ELSE raw
  /\ todo' = [todo EXCEPT ![r] = @ \ {m}]
  /\ UNCHANGED <<holder, pc, partial, view, event, fresh, live, group, edits, status, permanent, history, audit>>

\* A member whose fetch or write fails keeps its earlier row.
MemberFails(r, m) ==
  /\ pc[r] = "members" /\ m \in todo[r]
  /\ r \in MayFail
  /\ todo' = [todo EXCEPT ![r] = @ \ {m}]
  /\ partial' = partial \cup {r}
  /\ UNCHANGED <<holder, pc, view, synced, group, edits, retention, history, audit>>

\* liveStage: not fenced. The deadline of a gameweek to decide is past.
LiveStage(r) ==
  /\ pc[r] = "members" /\ todo[r] = {}
  /\ \/ live' = r /\ UNCHANGED partial
     \/ r \in MayFail /\ partial' = partial \cup {r} /\ UNCHANGED live
  /\ pc' = [pc EXCEPT ![r] = "finishing"]
  /\ UNCHANGED <<holder, todo, view, event, fresh, row, group, edits, retention, history, audit>>

\* The recorder's chain of writes, behind the run that feeds it. Its errors are
\* collected, not thrown: what is not Recorded meets one.
Capture(r, m) ==
  /\ raw[r][m] = "pending"
  /\ raw' = [raw EXCEPT ![r][m] = "expiring"]
  /\ UNCHANGED <<jobs, synced, group, edits, status, permanent, history, audit>>

\* A stage throws: a fence refused, a request failed.
Fails(r) ==
  /\ r \in MayFail \cup (Finalizer \ {holder})
  /\ pc[r] \in {"bootstrap", "members", "finishing"}

\* flush(), then finish(), which moves a RUNNING run only: one abandoned
\* meanwhile stays so. finalize goes on to runT4 whatever the status.
Finish(r) ==
  /\ \A m \in Member : raw[r][m] # "pending"
  /\ \E outcome \in {"SUCCESS", "PARTIAL", "FAILED"} :
       /\ IF outcome = "FAILED" THEN Fails(r)
          ELSE pc[r] = "finishing" /\ (outcome = "PARTIAL" <=> r \in partial)
       /\ status' = [status EXCEPT ![r] = IF @ = "RUNNING" THEN outcome ELSE @]
  /\ todo' = [todo EXCEPT ![r] = {}]
  /\ partial' = partial \ {r}
  /\ pc' = [pc EXCEPT ![r] = IF r \in Finalizer THEN "deciding" ELSE "done"]
  /\ UNCHANGED <<holder, view, synced, group, edits, permanent, raw, history, audit>>

-----------------------------------------------------------------------------
(* runT4. *)

\* fence(session), the first statement, which fixes what the rest reads.
Fence(j) ==
  /\ j \in Decider /\ pc[j] = "deciding" /\ view[j] = NoView
  /\ Fenced(j)
  /\ view' = [view EXCEPT ![j] = Database]
  /\ UNCHANGED <<holder, pc, todo, partial, synced, group, edits, retention, history, audit>>

\* The end of a request: its view is dropped and its lease released.
End(j) ==
  /\ pc' = [pc EXCEPT ![j] = "done"]
  /\ view' = [view EXCEPT ![j] = NoView]
  /\ holder' = IF holder = j THEN NoRun ELSE holder

\* A plausible bug: newStatus filled with the name of the action.
ActionMisfiled(j, action, newStatus, head, id, note) ==
  [action |-> action, by |-> j, prevStatus |-> head.status, newStatus |-> action,
   prevSnapshot |-> head.snapshot, newSnapshot |-> id, note |-> note, prevHash |-> head.hash]

\* nextAction: what runT4 appends after the head it has read.
NextAction(j, action, newStatus, head, id, note) ==
  [action |-> action, by |-> j, prevStatus |-> head.status, newStatus |-> newStatus,
   prevSnapshot |-> head.snapshot, newSnapshot |-> id, note |-> note, prevHash |-> head.hash]

\* A plausible bug: an update that leaves headHash as the first decision set it.
PointerKeepsHash(head, newStatus, id) ==
  [seq |-> head.seq + 1, status |-> newStatus, snapshot |-> id,
   hash |-> IF head = NoPointer THEN Hash(1, id) ELSE head.hash]

\* movePointer.
MovedPointer(head, newStatus, id) ==
  [seq |-> head.seq + 1, status |-> newStatus, snapshot |-> id, hash |-> Hash(head.seq + 1, id)]

\* A plausible bug: only the run that confirmed the gameweek is retained.
RetainsEvent(d) == permanent \cup ({d.event.by} \ {NoRun})

\* unsetExpiry.
Retained(d) == permanent \cup Confirmers(d)

\* What unsetEvidenceExpiry matches: the evidence stored by now.
Evidence(d) ==
  {e \in Run \X Member : d.row[e[2]].by = e[1] /\ d.raw[e[1]][e[2]] = "expiring"}

\* insertSnapshot, appendAction, movePointer, unsetExpiry, unsetEvidenceExpiry
\* and the commit. The snapshot's schema rejects a source whose run is missing;
\* the index, the pointer's guard and write conflicts reject what has changed.
Decide(j, action, newStatus, kind, declared, note) ==
  LET d == view[j]
      seq == d.pointer.seq + 1
      id == Len(snapshots) + 1
  IN
  /\ VerifyChain(d.actions, d.snapshots, d.pointer)
  /\ \A r \in Confirmers(d) : d.status[r] # "deleted" /\ (r \notin permanent => status[r] = d.status[r])
  /\ \A e \in Evidence(d) : raw[e[1]][e[2]] = "expiring"
  /\ seq \notin DOMAIN actions
  /\ pointer = d.pointer
  /\ snapshots' = Append(snapshots,
       [kind |-> kind, inputs |-> Inputs(d), computed |-> Winners(d), declared |-> declared,
        sources |-> Sources(d)])
  /\ actions' = [i \in DOMAIN actions \cup {seq} |->
       IF i = seq THEN NextAction(j, action, newStatus, d.pointer, id, note) ELSE actions[i]]
  /\ pointer' = MovedPointer(d.pointer, newStatus, id)
  /\ permanent' = Retained(d)
  /\ raw' = [r \in Run |-> [m \in Member |->
       IF <<r, m>> \in Evidence(d) THEN "permanent" ELSE raw[r][m]]]
  /\ End(j)
  /\ UNCHANGED <<todo, partial, synced, group, edits, status, audit>>

\* A repeat of the finalize that decided: same inputs, same winners.
Replayed(d) ==
  /\ d.pointer.status = "FINAL"
  /\ LET prev == d.snapshots[d.pointer.snapshot] IN
       /\ prev.kind = "RULE_BASED"
       /\ prev.inputs = Inputs(d)
       /\ prev.declared = Winners(d)

\* A plausible bug: compared with what the rules gave, not with what was declared.
ComputedChanged(d) == d.snapshots[d.pointer.snapshot].computed # Winners(d)

\* diffResults' winnersChanged.
WinnersChanged(d) == d.snapshots[d.pointer.snapshot].declared # Winners(d)

CommitFinalize(r) ==
  /\ r \in Finalizer /\ view[r] # NoView
  /\ ~Replayed(view[r])
  /\ Gate(r, view[r])
  /\ Decide(r, "FINALIZE", "FINAL", "RULE_BASED", Winners(view[r]), FALSE)

CommitOverride(j) ==
  /\ j \in Overrider /\ view[j] # NoView
  /\ view[j].group.active
  /\ view[j].pointer # NoPointer \/ view[j].event.checked
  /\ Decide(j, "OVERRIDE", "OVERRIDDEN", "OVERRIDE", Declared[j], TRUE)

CommitRecompute(j) ==
  /\ j \in Recomputer /\ view[j] # NoView
  /\ view[j].pointer # NoPointer
  /\ view[j].group.active /\ view[j].event.checked
  /\ Blocking(view[j]) = {}
  /\ WinnersChanged(view[j]) => j \in Noted
  /\ Decide(j, "RECOMPUTE", "FINAL", "RULE_BASED", Winners(view[j]), j \in Noted)

\* withTransaction starts over after a transient error or a write conflict.
Retry(j) ==
  /\ j \in Decider /\ view[j] # NoView
  /\ view' = [view EXCEPT ![j] = NoView]
  /\ UNCHANGED <<holder, pc, todo, partial, synced, group, edits, retention, history, audit>>

\* Refused by the gate, the fence or the schema, answered by a replay, or failed.
GiveUp(j) ==
  /\ j \in Decider /\ pc[j] = "deciding"
  /\ End(j)
  /\ UNCHANGED <<todo, partial, synced, group, edits, retention, history, audit>>

\* The process dies: nothing is finished, captured or released.
Crash(j) ==
  /\ j \in MayCrash /\ pc[j] \notin {"idle", "done"}
  /\ pc' = [pc EXCEPT ![j] = "done"]
  /\ view' = IF j \in Decider THEN [view EXCEPT ![j] = NoView] ELSE view
  /\ todo' = IF j \in Run THEN [todo EXCEPT ![j] = {}] ELSE todo
  /\ partial' = partial \ {j}
  /\ raw' = IF j \in Run
            THEN [raw EXCEPT ![j] = [m \in Member |-> IF @[m] = "pending" THEN "none" ELSE @[m]]]
            ELSE raw
  /\ UNCHANGED <<holder, synced, group, edits, status, permanent, history, audit>>

-----------------------------------------------------------------------------
(* What no lease of the group orders. *)

\* updateMember (isExcluded, joinedEvent): refused for an archived group.
ExcludeMember(m) ==
  /\ m \in MayExclude /\ group.active /\ edits < MaxEdits
  /\ edits' = edits + 1
  /\ \E ex \in {group.excluded \cup {m}, group.excluded \ {m}} :
       group' = [group EXCEPT !.excluded = ex]
  /\ UNCHANGED <<jobs, synced, retention, history, audit>>

\* archive and unarchive.
SetActive ==
  /\ edits < MaxEdits
  /\ edits' = edits + 1
  /\ \E active \in BOOLEAN : group' = [group EXCEPT !.active = active]
  /\ UNCHANGED <<jobs, synced, retention, history, audit>>

\* The TTL index deletes a run document 90 days after the run started.
ExpireRun(r) ==
  /\ r \in MayExpire /\ pc[r] = "done" /\ status[r] \notin {"none", "deleted"}
  /\ r \notin permanent
  /\ status' = [status EXCEPT ![r] = "deleted"]
  /\ UNCHANGED <<jobs, synced, group, edits, permanent, raw, history, audit>>

\* Likewise evidence after 14 days.
ExpireRaw(r, m) ==
  /\ r \in MayExpire /\ pc[r] = "done" /\ raw[r][m] = "expiring"
  /\ raw' = [raw EXCEPT ![r][m] = "deleted"]
  /\ UNCHANGED <<jobs, synced, group, edits, status, permanent, history, audit>>

\* GET actions/verify has no session: the actions are read first, the pointer
\* and the snapshots in statements of their own.
AuditActions ==
  /\ audit.pc = "idle" /\ MaxAudits > 0
  /\ audit' = [pc |-> "reading", seen |-> actions, from |-> pointer.seq, valid |-> TRUE]
  /\ UNCHANGED <<jobs, synced, group, edits, retention, history>>

AuditPointer ==
  /\ audit.pc = "reading"
  /\ audit' = [audit EXCEPT !.pc = "done", !.valid = VerifyChain(audit.seen, snapshots, pointer)]
  /\ UNCHANGED <<jobs, synced, group, edits, retention, history>>

Next ==
  \/ \E r \in Run :
       \/ StartFinalize(r) \/ StartOther(r) \/ T1(r) \/ LiveStage(r) \/ Finish(r) \/ ExpireRun(r)
       \/ \E m \in Member : T3(r, m) \/ MemberFails(r, m) \/ Capture(r, m) \/ ExpireRaw(r, m)
  \/ \E j \in Decider :
       \/ StartDecision(j) \/ Fence(j) \/ Retry(j) \/ GiveUp(j)
       \/ CommitFinalize(j) \/ CommitOverride(j) \/ CommitRecompute(j)
  \/ \E j \in Job : Crash(j)
  \/ \E m \in Member : ExcludeMember(m)
  \/ SetActive \/ AuditActions \/ AuditPointer

Spec == Init /\ [][Next]_vars

-----------------------------------------------------------------------------
(* The ledger that this implements. *)

\* What GET result shows: the pointer's status, its snapshot's winners.
Shown ==
  [status |-> pointer.status,
   winners |-> IF pointer = NoPointer THEN {} ELSE snapshots[pointer.snapshot].declared]

\* What an action has decided.
Entry(a) ==
  [action |-> a.action, by |-> a.by, status |-> a.newStatus,
   winners |-> snapshots[a.newSnapshot].declared, note |-> a.note]

Ledger == INSTANCE ResultLedger WITH
  ledger <- [i \in DOMAIN actions |-> Entry(actions[i])], current <- Shown

-----------------------------------------------------------------------------
(* Properties. *)

\* Whatever stalls, dies, races or is retried, each decision takes effect at
\* once and once at most: a finalize before any other only, winners that move
\* with a note only, and the result shown is the last decision's.
ImplementsLedger == Ledger!Spec

SnapshotType ==
  [kind : {"RULE_BASED", "OVERRIDE"},
   inputs : [checked : BOOLEAN, excluded : SUBSET Member, value : [Member -> Value],
             synced : SUBSET Member],
   computed : SUBSET Member, declared : SUBSET Member,
   sources : UNION {[R -> SUBSET Member] : R \in SUBSET Run}]

ActionType ==
  [action : {"FINALIZE", "OVERRIDE", "RECOMPUTE"}, by : Decider, prevStatus : ResultStatus,
   newStatus : ResultStatus, prevSnapshot : Nat, newSnapshot : Nat, note : BOOLEAN,
   prevHash : Nat \X Nat]

PointerType == [seq : Nat, status : ResultStatus, snapshot : Nat, hash : Nat \X Nat]

TypeOK ==
  /\ holder \in Job \cup {NoRun}
  /\ pc \in [Job -> {"idle", "bootstrap", "members", "finishing", "deciding", "done"}]
  /\ todo \in [Run -> SUBSET Member]
  /\ partial \in SUBSET Run
  /\ DOMAIN view = Decider
  /\ event \in [checked : BOOLEAN, by : Run \cup {NoRun}]
  /\ fresh \in SUBSET Run
  /\ row \in [Member -> [value : Value, by : Run \cup {NoRun}]]
  /\ live \in Run \cup {NoRun}
  /\ group \in [active : BOOLEAN, excluded : SUBSET Member]
  /\ edits \in 0..MaxEdits
  /\ status \in [Run -> Statuses]
  /\ permanent \in SUBSET Run
  /\ raw \in [Run -> [Member -> Captures]]
  /\ snapshots \in Seq(SnapshotType)
  /\ DOMAIN actions \in SUBSET Nat
  /\ \A i \in DOMAIN actions : actions[i] \in ActionType
  /\ pointer \in PointerType

\* The decisions of a gameweek form one chain and the pointer names its last
\* one, whatever was retried, taken over or raced: what verifyChain and checks
\* I4 and I5 of ops/dbCheck.js look for; and each decision starts from the
\* result the one before it left.
ChainValid ==
  /\ VerifyChain(actions, snapshots, pointer)
  /\ DOMAIN actions # {} => pointer # NoPointer
  /\ \A i \in DOMAIN actions \ {1} :
       /\ actions[i].prevStatus = actions[i - 1].newStatus
       /\ actions[i].prevSnapshot = actions[i - 1].newSnapshot

\* A gameweek is finalized at most once, and only before any other decision: a
\* finalize repeated after a lost answer is a replay or is refused.
FinalizeFirst ==
  \A i \in DOMAIN actions : actions[i].action = "FINALIZE" => i = 1

\* Every run a snapshot cites is kept for good (dbCheck I6 and I7), although
\* its document may have been about to expire when the decision was made.
SourcesRetained ==
  \A i \in DOMAIN snapshots : \A r \in DOMAIN snapshots[i].sources :
    r \in permanent /\ status[r] \notin {"none", "deleted"}

\* The members that counted in a decision, by the inputs its snapshot holds.
Counted(s) ==
  {m \in Member \ s.inputs.excluded : m \in s.inputs.synced => s.inputs.value[m] # "none"}

\* A finalized result rests on its own run for good: that run succeeded, wrote
\* the row of every member that counted, who won or not, and what was captured
\* of the responses behind those rows never expires.
FinalTraceable ==
  \A i \in DOMAIN actions : actions[i].action = "FINALIZE" =>
    LET s == snapshots[actions[i].newSnapshot] IN
    /\ status[actions[i].by] = "SUCCESS"
    /\ \A m \in Counted(s) :
         /\ actions[i].by \in DOMAIN s.sources
         /\ m \in s.sources[actions[i].by]
         /\ raw[actions[i].by][m] \in {"none", "permanent"}

\* Everything a snapshot cites is retained permanently (resultService.js:86,
\* dbCheck I7): no response behind a cited row has an expiry.
EvidenceRetained ==
  \A i \in DOMAIN snapshots : \A r \in DOMAIN snapshots[i].sources :
    \A m \in snapshots[i].sources[r] : raw[r][m] # "expiring"

\* While a decision is being made no sync of the same group changes a row it
\* has read: what the fence adds to the chain's own guards. Only a run of
\* another group may, for a member of both.
LeaseHoldsInputs ==
  \A j \in Decider : view[j] # NoView =>
    \A m \in Member : row[m] = view[j].row[m] \/ row[m].by \in Other

\* A finalize commits on the inputs the database then has: "Finalize holds the
\* lease from its FINALIZE sync through T4, so inputs cannot change between the
\* gate and the commit" (resultService.js:25).
CommitsOnInputs ==
  [][\A r \in Finalizer : CommitFinalize(r) => Inputs(view[r]) = Inputs(Database)]_vars

\* The declared winners change without an admin's note only by the finalize
\* that declares them first.
ChangesNoted ==
  \A i \in DOMAIN actions \ {1} :
    snapshots[actions[i].newSnapshot].declared # snapshots[actions[i - 1].newSnapshot].declared
      => actions[i].note

\* The verify endpoint reports a broken chain only when a decision was
\* committed between its reads (which it does not tell from tampering).
AlarmOnlyIfRaced ==
  audit.pc = "done" /\ ~audit.valid => pointer.seq > audit.from
=============================================================================
