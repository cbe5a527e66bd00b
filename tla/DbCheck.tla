------------------------------- MODULE DbCheck --------------------------------
(***************************************************************************)
(* npm run db:check (ops/dbCheck.js): a scan for what the database cannot  *)
(* enforce by itself.  It takes no lock and no session, so its collections *)
(* are read at different moments, while members are added, rows written,   *)
(* decisions committed and documents expired.                              *)
(*                                                                         *)
(* One gameweek of a group, and perhaps the result of the one before.  A   *)
(* content is 0 as it was written and 1 after somebody edited the document *)
(* by hand, and a hash is the content it was computed from.  A run stores  *)
(* one response.                                                           *)
(***************************************************************************)
EXTENDS Integers, FiniteSets, Sequences, Functions

CONSTANTS
  Null,          \* the absent value
  Entry,
  Run,
  Past,          \* the run behind the result of the gameweek before
  MaxDecisions,  \* bound
  Early          \* bound: the sets of collections a scan may read before others

VARIABLES
  db,        \* the collections
  recorder,  \* what each run's recorder has done: nothing, still "open", "stored" the
             \* response, "logged" its hash, or "lost" it
  owes,      \* history: what the last decision that cites a run left open
  fault,     \* what somebody did to the database by hand, Null if nothing
  scan       \* [pc, got, raced, found]

checkVars == <<db, recorder, owes, fault, scan>>

NoDocuments == <<>>

\* ActionHash of no action, and the pointer while there is none.
Genesis == <<>>
NoPointer == [seq |-> 0, hash |-> Genesis, snapshot |-> Null]

\* The snapshot of the gameweek before; its action and pointer are left out.
Before == 0

Without(docs, id) == Restrict(docs, DOMAIN docs \ {id})
With(docs, id, doc) == [i \in DOMAIN docs \cup {id} |-> IF i = id THEN doc ELSE docs[i]]

\* The database of a new group, or of one with the result of a gameweek.
Init ==
  /\ \E settled \in BOOLEAN :
       LET old(id, doc) == IF settled THEN With(NoDocuments, id, doc) ELSE NoDocuments
       IN /\ db = [group |-> [members |-> <<>>, me |-> Null], managers |-> {}, rows |-> {},
                   snapshots |-> old(Before, [of |-> "before", content |-> 0, hash |-> 0,
                                              source |-> Past]),
                   actions |-> {}, pointer |-> NoPointer,
                   runs |-> old(Past, [kept |-> TRUE, logged |-> TRUE]),
                   raws |-> old(Past, [kept |-> TRUE])]
          /\ recorder = [r \in Run |-> IF settled /\ r = Past THEN "logged" ELSE "none"]
  /\ owes = [r \in Run |-> {}]
  /\ fault = Null
  /\ scan = [pc |-> "idle", got |-> NoDocuments, raced |-> FALSE, found |-> {}]

-----------------------------------------------------------------------------
(* The writers.  Each is a transaction, a statement or an expiry: one step.*)

Working == fault = Null /\ scan.pc # "done"

Written ==
  /\ Working
  /\ scan' = [scan EXCEPT !.raced = scan.pc = "reading"]
  /\ UNCHANGED fault

\* T2: a member and the managers document behind it.
AddMember(e) ==
  /\ Written /\ e \notin Range(db.group.members)
  /\ UNCHANGED <<recorder, owes>>
  /\ db' = [db EXCEPT !.group.members = Append(@, e), !.managers = @ \cup {e}]

SetMe(e) ==
  /\ Written /\ e \in Range(db.group.members) \ {db.group.me}
  /\ UNCHANGED <<recorder, owes>>
  /\ db' = [db EXCEPT !.group.me = e]

\* T3: the rows of an entry that is a member, and its managers document.
WriteRow(e) ==
  /\ Written /\ e \in Range(db.group.members) /\ \A w \in db.rows : w.entry # e
  /\ UNCHANGED <<recorder, owes>>
  /\ db' = [db EXCEPT !.managers = @ \cup {e},
                      !.rows = @ \cup {[entry |-> e, id |-> 0, picks |-> 0]}]

\* A run begins. The rows it writes may cite it from now on.
StartRun(r) ==
  /\ Written /\ r # Past /\ recorder[r] = "none"
  /\ db' = [db EXCEPT !.runs = With(@, r, [kept |-> FALSE, logged |-> FALSE])]
  /\ recorder' = [recorder EXCEPT ![r] = "open"]
  /\ UNCHANGED owes

\* The recorder, behind the run that feeds it, stores the response with an expiry ...
Store(r) ==
  /\ Written /\ recorder[r] = "open"
  /\ db' = [db EXCEPT !.raws = With(@, r, [kept |-> FALSE])]
  /\ recorder' = [recorder EXCEPT ![r] = "stored"]
  /\ UNCHANGED owes

\* ... and logs its hash, also of a response that it does not store.
Log(r) ==
  /\ Written /\ recorder[r] \in {"open", "stored"}
  /\ db' = [db EXCEPT !.runs = With(@, r, [@[r] EXCEPT !.logged = TRUE])]
  /\ recorder' = [recorder EXCEPT ![r] = "logged"]
  /\ UNCHANGED owes

\* A write fails, the log is full, the run is not RUNNING any more, or it dies.
Lose(r) ==
  /\ Working /\ recorder[r] \in {"open", "stored"}
  /\ recorder' = [recorder EXCEPT ![r] = "lost"]
  /\ UNCHANGED <<db, owes, fault, scan>>

\* The TTL indexes delete what is not kept, weeks after it was written.
Expire(r) ==
  /\ Written /\ recorder[r] \in {"logged", "lost"}
  /\ UNCHANGED <<recorder, owes>>
  /\ \E name \in {"runs", "raws"} :
       /\ r \in DOMAIN db[name] /\ ~db[name][r].kept
       /\ db' = [db EXCEPT ![name] = Without(@, r)]

\* actionHash covers every field but the hash; the chain compares prevHash.
ActionHash(a) == <<a.seq, a.prevHash, a.snapshot, a.snapshotHash, a.content, a.prev>>
LastOf(acts) == CHOOSE a \in acts : \A b \in acts : b.seq <= a.seq

NextAction(r) ==
  LET seq == Cardinality(db.actions) + 1
      action == [seq |-> seq, prev |-> db.pointer.snapshot, snapshot |-> seq, snapshotHash |-> 0,
                 run |-> r, content |-> 0, hash |-> Genesis, prevHash |-> db.pointer.hash]
  IN [action EXCEPT !.hash = ActionHash(action)]

\* What a decision leaves open that cites a run in such a state.
OpenOf(state) ==
  CASE state = "logged" -> {}
    [] state = "lost"   -> {"I6 log"}
    [] OTHER            -> {"I6 log", "I7 late"}

\* A plausible bug: the evidence of a source is left to expire.
KeepNone(raws, r) == raws

\* rawResponseRepo.unsetEvidenceExpiry: what is there of a run's evidence does not expire.
KeepEvidence(raws, r) == IF r \in DOMAIN raws THEN With(raws, r, [kept |-> TRUE]) ELSE raws

\* T4: snapshot, action, pointer, and what they rest on is kept, as far as it is
\* there. The run is the decision's own, or that of another group which confirmed
\* a shared row and may still be RUNNING.
Decide(r) ==
  LET new == NextAction(r)
  IN /\ Written /\ new.seq <= MaxDecisions /\ r \in DOMAIN db.runs
     /\ owes' = [owes EXCEPT ![r] = OpenOf(recorder[r])]
     /\ UNCHANGED recorder
     /\ db' = [db EXCEPT !.snapshots = With(@, new.seq, [of |-> "this", content |-> 0, hash |-> 0,
                                                        source |-> r]),
                         !.actions = @ \cup {new},
                         !.pointer = [seq |-> new.seq, hash |-> new.hash, snapshot |-> new.seq],
                         !.runs = With(@, r, [@[r] EXCEPT !.kept = TRUE]),
                         !.raws = KeepEvidence(@, r)]

-----------------------------------------------------------------------------
(* What the scan reports of a database d, one set of findings for each of  *)
(* the invariants it checks.  "ref" is a reference that leads nowhere.     *)

Report(code, wrong) == IF wrong THEN {code} ELSE {}

\* I1: members are distinct.
Members(d) == Report("I1", ~IsInjective(d.group.members))

\* I2: a stored row has the id that its fields make.
Rows(d) == Report("I2", \E w \in d.rows : w.id # 0)

\* I8: and picks that make a squad.
Picks(d) == Report("I8", \E w \in d.rows : w.picks # 0)

\* I3: members, "me" and rows have a managers document, and "me" is a member.
Orphans(d) ==
  LET members == Range(d.group.members)
  IN Report("I3", \/ ~(members \cup {w.entry : w \in d.rows} \subseteq d.managers)
                  \/ d.group.me \notin {Null} \cup (members \cap d.managers))

\* I4: every snapshot still has its content, and is there for who names it, as
\* the new one or the previous.
Snapshots(d) ==
  LET there == {a \in d.actions : a.snapshot \in DOMAIN d.snapshots}
      dangling == \/ there # d.actions
                  \/ \E a \in d.actions : a.prev \notin {Null} \cup DOMAIN d.snapshots
  IN Report("I4", \/ \E i \in DOMAIN d.snapshots : d.snapshots[i].content # d.snapshots[i].hash
                  \/ \E a \in there : a.snapshotHash # d.snapshots[a.snapshot].content)
     \cup Report("I4 ref", dangling)

\* I4: the pointer names a snapshot that is there, is of its gameweek, and is its
\* last action's.
Pointer(d) ==
  Report("I4 ref", /\ d.pointer # NoPointer
                   /\ \/ d.pointer.snapshot \notin DOMAIN d.snapshots
                      \/ d.snapshots[d.pointer.snapshot].of # "this"
                      \/ /\ d.actions # {}
                         /\ LastOf(d.actions).snapshot # d.pointer.snapshot)

\* verifyChain: each action follows the one before it and is what its hash says.
Linked(acts) ==
  /\ {a.seq : a \in acts} = 1..Cardinality(acts)
  /\ \A a \in acts :
       /\ IF a.seq = 1 THEN a.prevHash = Genesis
          ELSE \E b \in acts : b.seq = a.seq - 1 /\ b.hash = a.prevHash
       /\ ActionHash(a) = a.hash

\* verifyChain: unless no snapshot was read at all, each action has its own.
SnapshotsFit(acts, snapshots) ==
  /\ DOMAIN snapshots # {} => \A a \in acts : a.snapshot \in DOMAIN snapshots
  /\ \A a \in acts : a.snapshot \in DOMAIN snapshots =>
       /\ snapshots[a.snapshot].hash = snapshots[a.snapshot].content
       /\ a.snapshotHash = snapshots[a.snapshot].content

HeadFits(acts, pointer) ==
  /\ acts # {}
  /\ pointer.seq = Cardinality(acts)
  /\ pointer.hash = LastOf(acts).hash /\ pointer.snapshot = LastOf(acts).snapshot

\* I5: the chain, and the pointer at its end.
Chain(d) ==
  Report("I5", ~Linked(d.actions))
    \cup Report("I5 ref", \/ ~SnapshotsFit(d.actions, d.snapshots)
                          \/ IF d.pointer = NoPointer THEN d.actions # {}
                             ELSE ~HeadFits(d.actions, d.pointer))

\* The runs that snapshots name as their sources.
Cited(d) == {d.snapshots[i].source : i \in DOMAIN d.snapshots}

\* I6: the runs that snapshots and actions cite exist, and have logged what the
\* snapshots cite of them.
SourceRuns(d) ==
  Report("I6 ref", ~(Cited(d) \cup {a.run : a \in d.actions} \subseteq DOMAIN d.runs))
    \cup Report("I6 log", \E r \in Cited(d) \cap DOMAIN d.runs : ~d.runs[r].logged)

\* The snapshots that actions name, that of the gameweek before among them, and
\* the runs behind them.
Named(d) == {Before} \cup UNION {{a.snapshot, a.prev} : a \in d.actions}
Sources(d) == {d.snapshots[i].source : i \in Named(d) \cap DOMAIN d.snapshots}

\* A plausible bug: a source that is there is taken to be kept.
KeptIfThere(d) == Report("I7 ref", ~(Sources(d) \subseteq DOMAIN d.runs))

\* I7: what a decision rests on is kept: its runs, and of their evidence what
\* is still there.
Kept(d) ==
  Report("I7 ref", \E r \in Sources(d) : r \notin DOMAIN d.runs \/ ~d.runs[r].kept)
    \cup Report("I7 late", \E r \in Sources(d) \cap DOMAIN d.raws : ~d.raws[r].kept)

Violations(d) ==
  Members(d) \cup Rows(d) \cup Picks(d) \cup Orphans(d) \cup Snapshots(d) \cup Pointer(d)
    \cup Chain(d) \cup SourceRuns(d) \cup Kept(d)

\* Some of the queries are answered before the others; the evidence is looked
\* up at the end.
ScanStart(first) ==
  /\ scan.pc = "idle"
  /\ scan' = [scan EXCEPT !.pc = "reading", !.got = Restrict(db, first)]
  /\ UNCHANGED <<db, recorder, owes, fault>>

\* What it has read when the last of its queries is answered.
Read == [name \in DOMAIN db |-> IF name \in DOMAIN scan.got THEN scan.got[name] ELSE db[name]]

ScanEnd ==
  /\ scan.pc = "reading"
  /\ scan' = [scan EXCEPT !.pc = "done", !.got = NoDocuments, !.found = Violations(Read)]
  /\ UNCHANGED <<db, recorder, owes, fault>>

-----------------------------------------------------------------------------
(* Somebody edits the database by hand, once, before the scan.             *)

\* What the scan must report of each kind of edit.
CodesOf ==
  [members |-> {"I1"}, managers |-> {"I3"}, rows |-> {"I2", "I8"},
   snapshot |-> {"I4", "I4 ref"}, action |-> {"I5", "I5 ref"}, pointer |-> {"I4 ref", "I5 ref"},
   run |-> {"I7 ref"}, evidence |-> {"I7 late"}]
Faults == DOMAIN CodesOf

\* Edits it cannot see: evidence that is gone, as if it had expired in time, and
\* the last action taken back together with the pointer's move.
Unseen == {"gone", "undone"}

Edits(docs, e, new) == (docs \ {e}) \cup new

\* A pointer at the last of some actions.
PointerTo(acts) ==
  IF acts = {} THEN NoPointer
  ELSE [seq |-> LastOf(acts).seq, hash |-> LastOf(acts).hash, snapshot |-> LastOf(acts).snapshot]

Undone ==
  LET rest == db.actions \ {LastOf(db.actions)}
  IN {[db EXCEPT !.actions = rest, !.pointer = PointerTo(rest)]}

Tampered(kind) ==
  CASE kind = "members" -> {[db EXCEPT !.group.members = @ \o @]}
    [] kind = "managers" -> {[db EXCEPT !.managers = @ \ {e}] : e \in Entry}
    [] kind = "rows" ->
         UNION {{[db EXCEPT !.rows = Edits(@, w, {new})] :
                   new \in {[w EXCEPT !.id = 1], [w EXCEPT !.picks = 1]}} : w \in db.rows}
    [] kind = "snapshot" ->
         UNION {LET forged == [db.snapshots[i] EXCEPT !.content = 1]
                    rehashed == [db.snapshots[i] EXCEPT !.content = 1, !.hash = 1]
                IN {[db EXCEPT !.snapshots = With(@, i, forged)],
                    [db EXCEPT !.snapshots = With(@, i, rehashed)],
                    [db EXCEPT !.snapshots = Without(@, i)]} :
                  i \in DOMAIN db.snapshots \ {Before}}
    [] kind = "action" ->
         UNION {LET forged == [a EXCEPT !.content = 1]
                    rehashed == [forged EXCEPT !.hash = ActionHash(forged)]
                IN {[db EXCEPT !.actions = Edits(@, a, new)] :
                      new \in {{}, {forged}, {rehashed}}} : a \in db.actions}
    [] kind = "pointer" ->
         {[db EXCEPT !.pointer = NoPointer]}
           \cup {[db EXCEPT !.pointer = [@ EXCEPT !.snapshot = i]] : i \in DOMAIN db.snapshots}
    [] kind = "run" ->
         UNION {{[db EXCEPT !.runs = Without(@, r)],
                 [db EXCEPT !.runs = With(@, r, [@[r] EXCEPT !.kept = FALSE])]} : r \in Sources(db)}
    [] kind = "evidence" ->
         {[db EXCEPT !.raws = With(@, r, [kept |-> FALSE])] : r \in Sources(db) \cap DOMAIN db.raws}
    [] kind = "gone" -> {[db EXCEPT !.raws = Without(@, r)] : r \in DOMAIN db.raws}
    [] kind = "undone" -> IF db.actions = {} THEN {} ELSE Undone

Tamper(kind) ==
  /\ fault = Null /\ scan.pc = "idle"
  /\ db' \in Tampered(kind) \ {db}
  /\ fault' = kind
  /\ UNCHANGED <<recorder, owes, scan>>

Next ==
  \/ \E e \in Entry : AddMember(e) \/ SetMe(e) \/ WriteRow(e)
  \/ \E r \in Run : StartRun(r) \/ Store(r) \/ Log(r) \/ Lose(r) \/ Expire(r) \/ Decide(r)
  \/ \E first \in Early : ScanStart(first)
  \/ ScanEnd
  \/ \E kind \in Faults \cup Unseen : Tamper(kind)

Spec == Init /\ [][Next]_checkVars

-----------------------------------------------------------------------------
\* Everything that decisions have left open.
Owed == UNION {owes[r] : r \in Run}

\* References, and marks of what is kept, that may be read at different moments.
Moving == {"I3", "I4 ref", "I5 ref", "I6 ref", "I6 log", "I7 ref", "I7 late"}

\* What db:check reports can be told apart. Of a database that only the program
\* wrote to it reports nothing but what some decision left open: one that cited a
\* run whose recorder was still writing, or had lost an entry. Each kind of edit
\* by hand in Faults it reports under the codes of that kind (a cut chain, a
\* decision whose hash was recomputed, a source that may expire), whatever else
\* is open; it makes nothing up for those in Unseen. If something was written
\* while it read, it may report references, never a document that is not what its
\* hash or its id says.
ScanIsExact ==
  scan.pc = "done" =>
    /\ ~scan.raced /\ fault \notin Faults => scan.found \subseteq Owed
    /\ ~scan.raced /\ fault \in Faults => scan.found \cap CodesOf[fault] # {}
    /\ fault = Null => scan.found \subseteq Moving
=============================================================================
