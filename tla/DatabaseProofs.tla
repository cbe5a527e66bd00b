---------------------------- MODULE DatabaseProofs -----------------------------
(***************************************************************************)
(* Two promises about the database.  DbCheck: the scan reports of what the *)
(* program wrote only what decisions left open, and of the kinds of edit   *)
(* it is said to find each under its codes, for any entries, runs and      *)
(* decisions, and whatever it reads before the rest.                       *)
(* Migrations (here Mig): a server that has started finds every migration, *)
(* for any servers and releases, although the runner is never fenced.      *)
(***************************************************************************)
EXTENDS DbCheck, FiniteSetTheorems, SequenceTheorems, TLAPS

CONSTANTS Process, Count, Release
VARIABLES schema, record, lease, proc

Mig == INSTANCE Migrations

-----------------------------------------------------------------------------
(* DbCheck.                                                                *)

Collections == {"group", "managers", "rows", "snapshots", "actions", "pointer", "runs", "raws"}

HasCollections == db = [name \in Collections |-> db[name]]
IsDatabase ==
  /\ HasCollections
  /\ db.group = [members |-> db.group.members, me |-> db.group.me]

\* What is true of a collection by itself, whenever it is read.
MembersTrue(g) == g.members \in Seq(Entry) /\ IsInjective(g.members)
RowsTrue(rows) == \A w \in rows : w.id = 0 /\ w.picks = 0
SnapshotsTrue(snapshots) ==
  \A i \in DOMAIN snapshots : snapshots[i].content = 0 /\ snapshots[i].hash = 0

\* An action as it was written.
AsWritten(a) ==
  /\ DOMAIN a = {"seq", "prev", "snapshot", "snapshotHash", "run", "content", "hash", "prevHash"}
  /\ a.snapshot = a.seq /\ a.snapshotHash = 0 /\ a.content = 0
ActionsTrue(acts) ==
  /\ IsFiniteSet(acts)
  /\ \A a, b \in acts : a.seq = b.seq => a = b
  /\ \A a \in acts : AsWritten(a)
  /\ Linked(acts)

Sound(d) ==
  /\ MembersTrue(d.group)
  /\ RowsTrue(d.rows)
  /\ SnapshotsTrue(d.snapshots)
  /\ ActionsTrue(d.actions)

\* What is true of collections that are read together.
Rooted(d) ==
  /\ d.managers = Range(d.group.members)
  /\ \A w \in d.rows : w.entry \in d.managers
  /\ d.group.me \in {Null} \cup Range(d.group.members)
PointsAt(d, a) == d.pointer = [seq |-> a.seq, hash |-> a.hash, snapshot |-> a.seq]
Headed(d) ==
  /\ \A i \in 1..Cardinality(d.actions) : i \in DOMAIN d.snapshots /\ d.snapshots[i].of = "this"
  /\ \A a \in d.actions : /\ a.run = d.snapshots[a.seq].source
                          /\ a.prev = IF a.seq = 1 THEN Null ELSE a.seq - 1
  /\ IF d.actions = {} THEN d.pointer = NoPointer
     ELSE \E a \in d.actions : a.seq = Cardinality(d.actions) /\ PointsAt(d, a)

\* The runs and the evidence that snapshots cite, but for what a decision owes.
Supported(d) ==
  /\ Cited(d) \subseteq DOMAIN d.runs /\ Cited(d) \subseteq Run
  /\ \A r \in Cited(d) : d.runs[r].kept
  /\ \A r \in Cited(d) : ~d.runs[r].logged => "I6 log" \in owes[r]
  /\ \A r \in Cited(d) \cap DOMAIN d.raws : ~d.raws[r].kept => "I7 late" \in owes[r]
Joined(d) == Rooted(d) /\ Headed(d) /\ Supported(d)

\* No snapshots but those of the actions, and that of the gameweek before.
Complete(d) == DOMAIN d.snapshots \subseteq {Before} \cup 1..Cardinality(d.actions)

-----------------------------------------------------------------------------
\* The last action is the one with the highest number.
LEMMA LastIs ==
  ASSUME NEW acts, NEW n \in Nat, NEW a \in acts, a.seq = n,
         \A b \in acts : b.seq \in 1..n /\ (b.seq = n => b = a)
  PROVE  LastOf(acts) = a
BY DEF LastOf

\* The actions of a chain are numbered to their count.
LEMMA Numbered ==
  ASSUME NEW acts, ActionsTrue(acts)
  PROVE  /\ Cardinality(acts) \in Nat
         /\ \A a \in acts : a.seq \in 1..Cardinality(acts)
         /\ \A i \in 1..Cardinality(acts) : \E a \in acts : a.seq = i
         /\ acts = {} <=> Cardinality(acts) = 0
<1>1. Cardinality(acts) \in Nat /\ (acts = {} <=> Cardinality(acts) = 0)
  BY FS_CardinalityType, FS_EmptySet DEF ActionsTrue
<1>2. {a.seq : a \in acts} = 1..Cardinality(acts)
  BY DEF ActionsTrue, Linked
<1>3. QED
  BY <1>1, <1>2

\* What a sequence holds when an element is appended.
LEMMA Appended ==
  ASSUME NEW S, NEW s \in Seq(S), NEW e \in S, IsInjective(s), e \notin Range(s)
  PROVE  /\ Append(s, e) \in Seq(S) /\ IsInjective(Append(s, e))
         /\ Range(Append(s, e)) = Range(s) \cup {e}
<1> DEFINE t == Append(s, e)
<1>1. /\ t \in Seq(S) /\ Len(t) = Len(s) + 1
      /\ \A i \in 1..Len(s) : t[i] = s[i]
      /\ t[Len(s) + 1] = e
  BY AppendProperties
<1>2. Len(s) \in Nat /\ DOMAIN s = 1..Len(s) /\ DOMAIN t = 1..(Len(s) + 1)
  BY <1>1, LenProperties
<1> HIDE DEF t
<1>3. \A i \in DOMAIN t : i \in DOMAIN s \/ i = Len(s) + 1
  BY <1>2
<1>4. Range(t) = Range(s) \cup {e}
  BY <1>1, <1>2 DEF Range
<1>5. IsInjective(t)
  BY <1>1, <1>2, <1>3 DEF IsInjective, Range
<1>6. QED
  BY <1>1, <1>4, <1>5 DEF t

\* Of sound collections nothing is reported but references, and what is kept.
LEMMA NothingIsFalse ==
  ASSUME NEW d, Sound(d)
  PROVE  Violations(d) \subseteq Moving
<1>1. Members(d) = {} /\ Rows(d) = {} /\ Picks(d) = {}
  BY DEF Sound, MembersTrue, RowsTrue, Members, Rows, Picks, Report
<1>2. Snapshots(d) \subseteq {"I4 ref"}
  <2>1. \A a \in d.actions : a.snapshotHash = 0
    BY DEF Sound, ActionsTrue, AsWritten
  <2>2. \A i \in DOMAIN d.snapshots : d.snapshots[i].content = 0 /\ d.snapshots[i].hash = 0
    BY DEF Sound, SnapshotsTrue
  <2> DEFINE there == {a \in d.actions : a.snapshot \in DOMAIN d.snapshots}
             wrong == \/ \E i \in DOMAIN d.snapshots : d.snapshots[i].content # d.snapshots[i].hash
                      \/ \E a \in there : a.snapshotHash # d.snapshots[a.snapshot].content
             dangling == \/ there # d.actions
                         \/ \E a \in d.actions : a.prev \notin {Null} \cup DOMAIN d.snapshots
  <2>3. ~wrong
    BY <2>1, <2>2
  <2>4. Snapshots(d) = Report("I4", wrong) \cup Report("I4 ref", dangling)
    BY DEF Snapshots
  <2>5. QED
    BY <2>3, <2>4 DEF Report
<1>3. Chain(d) \subseteq {"I5 ref"}
  BY DEF Sound, ActionsTrue, Chain, Report
<1>4. Orphans(d) \subseteq {"I3"} /\ Pointer(d) \subseteq {"I4 ref"}
      /\ SourceRuns(d) \subseteq {"I6 ref", "I6 log"} /\ Kept(d) \subseteq {"I7 ref", "I7 late"}
  BY DEF Orphans, Pointer, SourceRuns, Kept, Report
<1>5. QED
  BY <1>1, <1>2, <1>3, <1>4 DEF Violations, Moving

\* The last action of a chain that the pointer fits.
LEMMA LastAction ==
  ASSUME NEW d, Sound(d), Headed(d), d.actions # {}
  PROVE  \E a \in d.actions :
           a.seq = Cardinality(d.actions) /\ LastOf(d.actions) = a /\ PointsAt(d, a)
<1>1. PICK a \in d.actions : a.seq = Cardinality(d.actions) /\ PointsAt(d, a)
  BY DEF Headed
<1>2. ActionsTrue(d.actions)
  BY DEF Sound
<1>3. LastOf(d.actions) = a
  BY <1>1, <1>2, Numbered, LastIs DEF ActionsTrue
<1>4. QED
  BY <1>1, <1>3

\* Of collections that are sound and read together nothing is reported but what
\* decisions owe.
LEMMA NothingIsWrong ==
  ASSUME NEW d, Sound(d), Joined(d)
  PROVE  Violations(d) \subseteq Owed
<1>1. Members(d) = {} /\ Rows(d) = {} /\ Picks(d) = {}
  BY DEF Sound, MembersTrue, RowsTrue, Members, Rows, Picks, Report
<1>2. Orphans(d) = {}
  BY DEF Joined, Rooted, Orphans, Report
<1>3. ActionsTrue(d.actions) /\ Headed(d) /\ Supported(d)
  BY DEF Sound, Joined
<1>4. /\ \A a \in d.actions : a.snapshot = a.seq /\ a.seq \in DOMAIN d.snapshots
      /\ \A a \in d.actions : a.snapshotHash = 0 /\ a.run = d.snapshots[a.seq].source
      /\ \A i \in DOMAIN d.snapshots : d.snapshots[i].content = 0 /\ d.snapshots[i].hash = 0
  BY <1>3, Numbered DEF ActionsTrue, AsWritten, Headed, Sound, SnapshotsTrue
<1>5. \A a \in d.actions : a.prev \in {Null} \cup DOMAIN d.snapshots
  <2> SUFFICES ASSUME NEW a \in d.actions, a.seq # 1
               PROVE  a.prev \in DOMAIN d.snapshots
    BY <1>3 DEF Headed
  <2>1. Cardinality(d.actions) \in Nat /\ a.seq \in 1..Cardinality(d.actions)
    BY <1>3, Numbered
  <2>2. a.prev = a.seq - 1 /\ a.seq - 1 \in 1..Cardinality(d.actions)
    BY <1>3, <2>1 DEF Headed
  <2>3. QED
    BY <1>3, <2>2 DEF Headed
<1>6. Snapshots(d) = {}
  BY <1>4, <1>5 DEF Snapshots, Report
<1>7. d.actions = {} => d.pointer = NoPointer
  BY <1>3 DEF Headed
<1>8. d.actions # {} => /\ d.pointer # NoPointer
                        /\ d.pointer.snapshot \in DOMAIN d.snapshots
                        /\ d.snapshots[d.pointer.snapshot].of = "this"
                        /\ LastOf(d.actions).snapshot = d.pointer.snapshot
                        /\ HeadFits(d.actions, d.pointer)
  <2> SUFFICES ASSUME d.actions # {}
               PROVE  /\ d.pointer # NoPointer
                      /\ d.pointer.snapshot \in DOMAIN d.snapshots
                      /\ d.snapshots[d.pointer.snapshot].of = "this"
                      /\ LastOf(d.actions).snapshot = d.pointer.snapshot
                      /\ HeadFits(d.actions, d.pointer)
    OBVIOUS
  <2>1. PICK a \in d.actions :
          a.seq = Cardinality(d.actions) /\ LastOf(d.actions) = a /\ PointsAt(d, a)
    BY <1>3, LastAction
  <2>2. a.seq # 0 /\ a.snapshot = a.seq /\ a.seq \in 1..Cardinality(d.actions)
    BY <1>3, <1>4, <2>1, Numbered
  <2>3. d.snapshots[a.seq].of = "this"
    BY <1>3, <2>2 DEF Headed
  <2>4. QED
    BY <1>4, <2>1, <2>2, <2>3 DEF HeadFits, NoPointer, PointsAt
<1>9. Pointer(d) = {}
  BY <1>7, <1>8 DEF Pointer, Report
<1>10. Chain(d) = {}
  <2>1. SnapshotsFit(d.actions, d.snapshots)
    BY <1>4 DEF SnapshotsFit
  <2>2. QED
    BY <1>3, <1>7, <1>8, <2>1 DEF Chain, Report, ActionsTrue
<1>11. SourceRuns(d) \subseteq Owed
  <2>1. \A a \in d.actions : a.run \in Cited(d)
    BY <1>4 DEF Cited
  <2>2. Cited(d) \cup {a.run : a \in d.actions} \subseteq DOMAIN d.runs
    BY <1>3, <2>1 DEF Supported
  <2>3. (\E r \in Cited(d) \cap DOMAIN d.runs : ~d.runs[r].logged) => "I6 log" \in Owed
    BY <1>3 DEF Supported, Owed
  <2>4. QED
    BY <2>2, <2>3 DEF SourceRuns, Report
<1>12. Kept(d) \subseteq Owed
  <2>1. Sources(d) \subseteq Cited(d)
    BY DEF Sources, Cited
  <2>2. ~\E r \in Sources(d) : r \notin DOMAIN d.runs \/ ~d.runs[r].kept
    BY <1>3, <2>1 DEF Supported
  <2>3. (\E r \in Sources(d) \cap DOMAIN d.raws : ~d.raws[r].kept) => "I7 late" \in Owed
    BY <1>3, <2>1 DEF Supported, Owed
  <2>4. QED
    BY <2>2, <2>3 DEF Kept, Report
<1>13. QED
  BY <1>1, <1>2, <1>6, <1>9, <1>10, <1>11, <1>12 DEF Violations

-----------------------------------------------------------------------------
\* Members that are listed twice.
LEMMA MembersFound ==
  ASSUME IsDatabase, Sound(db), db' \in Tampered("members") \ {db}
  PROVE  "I1" \in Violations(db')
<1> DEFINE ids == db.group.members
<1>1. db' = [db EXCEPT !.group.members = ids \o ids] /\ db' # db
  BY DEF Tampered
<1>2. ids \in Seq(Entry)
  BY DEF Sound, MembersTrue
<1>3. ids # <<>>
  <2>1. CASE ids = <<>>
    <3>1. ids \o ids = ids
      BY <2>1
    <3>2. db' = db
      BY <1>1, <3>1 DEF IsDatabase, HasCollections, Collections
    <3>3. QED
      BY <1>1, <3>2
  <2>2. QED
    BY <2>1
<1>4. Len(ids) \in Nat /\ Len(ids) > 0
  BY <1>2, <1>3, EmptySeq
<1>5. db'.group.members = ids \o ids
  BY <1>1 DEF IsDatabase, HasCollections, Collections
<1> HIDE DEF ids
<1>6. /\ 1 \in DOMAIN (ids \o ids) /\ 1 + Len(ids) \in DOMAIN (ids \o ids)
      /\ (ids \o ids)[1] = (ids \o ids)[1 + Len(ids)]
      /\ 1 # 1 + Len(ids)
  BY <1>2, <1>4
<1>7. ~IsInjective(db'.group.members)
  BY <1>5, <1>6 DEF IsInjective
<1>8. QED
  BY <1>7 DEF Members, Report, Violations

\* A managers document that is gone.
LEMMA ManagersFound ==
  ASSUME IsDatabase, Joined(db), db' \in Tampered("managers") \ {db}
  PROVE  "I3" \in Violations(db')
<1>1. PICK e \in Entry : db' = [db EXCEPT !.managers = db.managers \ {e}]
  BY DEF Tampered
<1>2. e \in db.managers
  <2>1. CASE e \notin db.managers
    <3>1. db.managers \ {e} = db.managers
      BY <2>1
    <3>2. QED
      BY <1>1, <3>1 DEF IsDatabase, HasCollections, Collections
  <2>2. QED
    BY <2>1
<1>3. e \in Range(db'.group.members) /\ e \notin db'.managers
  BY <1>1, <1>2 DEF Joined, Rooted, IsDatabase, HasCollections, Collections
<1>4. QED
  BY <1>3 DEF Orphans, Report, Violations

\* A row whose id or picks were changed.
LEMMA RowsFound ==
  ASSUME IsDatabase, Sound(db), db' \in Tampered("rows") \ {db},
         \A w \in db.rows : {"id", "picks"} \subseteq DOMAIN w
  PROVE  Violations(db') \cap {"I2", "I8"} # {}
<1>1. PICK w \in db.rows : \E new \in {[w EXCEPT !.id = 1], [w EXCEPT !.picks = 1]} :
        db' = [db EXCEPT !.rows = Edits(db.rows, w, {new})]
  BY DEF Tampered
<1>2. PICK new \in {[w EXCEPT !.id = 1], [w EXCEPT !.picks = 1]} :
        db' = [db EXCEPT !.rows = Edits(db.rows, w, {new})]
  BY <1>1
<1>3. new.id # 0 \/ new.picks # 0
  OBVIOUS
<1>4. new \in db'.rows
  BY <1>2 DEF Edits, IsDatabase, HasCollections, Collections
<1>5. QED
  BY <1>3, <1>4 DEF Rows, Picks, Report, Violations

\* What I4 says of a snapshot that is not what its hash, or an action, says.
LEMMA SnapshotsTell ==
  ASSUME NEW d
  PROVE  /\ \A i \in DOMAIN d.snapshots :
              d.snapshots[i].content # d.snapshots[i].hash => "I4" \in Violations(d)
         /\ \A a \in d.actions :
              /\ a.snapshot \notin DOMAIN d.snapshots => "I4 ref" \in Violations(d)
              /\ a.snapshot \in DOMAIN d.snapshots /\ a.snapshotHash # d.snapshots[a.snapshot].content
                   => "I4" \in Violations(d)
<1> DEFINE there == {a \in d.actions : a.snapshot \in DOMAIN d.snapshots}
           wrong == \/ \E i \in DOMAIN d.snapshots : d.snapshots[i].content # d.snapshots[i].hash
                    \/ \E a \in there : a.snapshotHash # d.snapshots[a.snapshot].content
           dangling == \/ there # d.actions
                       \/ \E a \in d.actions : a.prev \notin {Null} \cup DOMAIN d.snapshots
<1>1. Snapshots(d) = Report("I4", wrong) \cup Report("I4 ref", dangling)
  BY DEF Snapshots
<1>2. /\ \A i \in DOMAIN d.snapshots : d.snapshots[i].content # d.snapshots[i].hash => wrong
      /\ \A a \in d.actions :
           a.snapshot \in DOMAIN d.snapshots /\ a.snapshotHash # d.snapshots[a.snapshot].content => wrong
  OBVIOUS
<1>3. \A a \in d.actions : a.snapshot \notin DOMAIN d.snapshots => dangling
  OBVIOUS
<1>4. /\ wrong => "I4" \in Violations(d)
      /\ dangling => "I4 ref" \in Violations(d)
  BY <1>1 DEF Report, Violations
<1> HIDE DEF wrong, there, dangling
<1>5. QED
  BY <1>2, <1>3, <1>4

\* A snapshot that was changed, with its hash or without, or is gone.
LEMMA SnapshotFound ==
  ASSUME IsDatabase, Sound(db), Joined(db), Complete(db), db' \in Tampered("snapshot") \ {db},
         \A i \in DOMAIN db.snapshots : {"content", "hash"} \subseteq DOMAIN db.snapshots[i]
  PROVE  Violations(db') \cap {"I4", "I4 ref"} # {}
<1>1. PICK i \in DOMAIN db.snapshots \ {Before} : db' \in
        {[db EXCEPT !.snapshots = With(db.snapshots, i, [db.snapshots[i] EXCEPT !.content = 1])],
         [db EXCEPT !.snapshots = With(db.snapshots, i, [db.snapshots[i] EXCEPT !.content = 1, !.hash = 1])],
         [db EXCEPT !.snapshots = Without(db.snapshots, i)]}
  BY DEF Tampered
<1>2. db.snapshots[i].hash = 0
  BY DEF Sound, SnapshotsTrue
<1>3. PICK a \in db.actions : a.snapshot = i /\ a.snapshotHash = 0
  <2>1. i \in 1..Cardinality(db.actions)
    BY <1>1 DEF Complete
  <2>2. QED
    BY <2>1, Numbered DEF Sound, ActionsTrue, AsWritten
<1>4. db'.actions = db.actions
  BY <1>1 DEF IsDatabase, HasCollections, Collections
<1>5. CASE db'.snapshots = With(db.snapshots, i, [db.snapshots[i] EXCEPT !.content = 1])
  <2>1. /\ i \in DOMAIN db'.snapshots
        /\ db'.snapshots[i].content = 1 /\ db'.snapshots[i].hash = 0
    BY <1>2, <1>5 DEF With
  <2>2. i \in DOMAIN db'.snapshots /\ db'.snapshots[i].content # db'.snapshots[i].hash
    BY <2>1
  <2>3. "I4" \in Violations(db')
    BY <2>2, SnapshotsTell
  <2>4. QED
    BY <2>3
<1>6. CASE db'.snapshots = With(db.snapshots, i, [db.snapshots[i] EXCEPT !.content = 1, !.hash = 1])
  <2>1. i \in DOMAIN db'.snapshots /\ db'.snapshots[i].content = 1
    BY <1>6 DEF With
  <2>2. a \in db'.actions /\ a.snapshot \in DOMAIN db'.snapshots
        /\ a.snapshotHash # db'.snapshots[a.snapshot].content
    BY <1>3, <1>4, <2>1
  <2>3. "I4" \in Violations(db')
    BY <2>2, SnapshotsTell
  <2>4. QED
    BY <2>3
<1>7. CASE db'.snapshots = Without(db.snapshots, i)
  <2>1. i \notin DOMAIN db'.snapshots
    BY <1>7 DEF Without, Restrict
  <2>2. QED
    BY <1>3, <1>4, <2>1, SnapshotsTell
<1>8. QED
  BY <1>1, <1>5, <1>6, <1>7 DEF IsDatabase, HasCollections, Collections

\* A pointer that is gone or names another snapshot.
LEMMA PointerFound ==
  ASSUME IsDatabase, Sound(db), Joined(db), db' \in Tampered("pointer") \ {db}
  PROVE  Violations(db') \cap {"I4 ref", "I5 ref"} # {}
<1>1. CASE db' = [db EXCEPT !.pointer = NoPointer]
  <2>1. db'.pointer = NoPointer /\ db'.actions = db.actions
    BY <1>1 DEF IsDatabase, HasCollections, Collections
  <2>2. db.actions # {}
    <3>1. db.pointer # NoPointer
      BY <1>1 DEF IsDatabase, HasCollections, Collections
    <3>2. QED
      BY <3>1 DEF Joined, Headed
  <2>3. QED
    BY <2>1, <2>2 DEF Chain, Report, Violations
<1>2. ASSUME NEW i \in DOMAIN db.snapshots,
             db' = [db EXCEPT !.pointer = [db.pointer EXCEPT !.snapshot = i]]
      PROVE  Violations(db') \cap {"I4 ref", "I5 ref"} # {}
  <2>1. /\ db'.pointer = [db.pointer EXCEPT !.snapshot = i] /\ db'.pointer # db.pointer
        /\ db'.actions = db.actions
    BY <1>2 DEF IsDatabase, HasCollections, Collections
  <2>2. CASE db.actions = {}
    <3>1. db.pointer = NoPointer
      BY <2>2 DEF Joined, Headed
    <3>2. ~HeadFits(db'.actions, db'.pointer) /\ db'.pointer # NoPointer
      BY <2>1, <2>2, <3>1 DEF HeadFits
    <3>3. QED
      BY <3>2 DEF Chain, Report, Violations
  <2>3. CASE db.actions # {}
    <3>1. Cardinality(db.actions) \in Nat
      BY Numbered DEF Sound
    <3>2. PICK a \in db.actions :
            a.seq = Cardinality(db.actions) /\ LastOf(db.actions) = a /\ PointsAt(db, a)
      BY <2>3, LastAction DEF Joined
    <3>3. a.snapshot = a.seq /\ a.seq # 0
      BY <3>2, Numbered DEF Sound, ActionsTrue, AsWritten
    <3>4. db'.pointer = [seq |-> a.seq, hash |-> a.hash, snapshot |-> i]
      BY <2>1, <3>2 DEF PointsAt
    <3>5. i # a.seq
      BY <2>1, <3>2, <3>4 DEF PointsAt
    <3>6. db'.pointer # NoPointer /\ LastOf(db'.actions).snapshot # db'.pointer.snapshot
      BY <2>1, <3>2, <3>3, <3>4, <3>5 DEF NoPointer
    <3>7. QED
      BY <2>1, <2>3, <3>6 DEF Pointer, Report, Violations
  <2>4. QED
    BY <2>2, <2>3
<1>3. QED
  BY <1>1, <1>2 DEF Tampered

\* A cited run that is gone or may expire.
LEMMA RunFound ==
  ASSUME IsDatabase, db' \in Tampered("run") \ {db},
         \A r \in DOMAIN db.runs : "kept" \in DOMAIN db.runs[r],
         Sources(db) \subseteq DOMAIN db.runs
  PROVE  "I7 ref" \in Violations(db')
<1>1. PICK r \in Sources(db) :
        db' \in {[db EXCEPT !.runs = Without(db.runs, r)],
                 [db EXCEPT !.runs = With(db.runs, r, [db.runs[r] EXCEPT !.kept = FALSE])]}
  BY DEF Tampered
<1>2. db'.snapshots = db.snapshots /\ db'.actions = db.actions
      /\ db'.runs \in {Without(db.runs, r), With(db.runs, r, [db.runs[r] EXCEPT !.kept = FALSE])}
  BY <1>1 DEF IsDatabase, HasCollections, Collections
<1>3. r \in Sources(db')
  BY <1>2 DEF Sources, Named
<1>4. CASE db'.runs = Without(db.runs, r)
  <2>1. r \notin DOMAIN db'.runs
    BY <1>4 DEF Without, Restrict
  <2>2. QED
    BY <1>3, <2>1 DEF Kept, Report, Violations
<1>5. CASE db'.runs = With(db.runs, r, [db.runs[r] EXCEPT !.kept = FALSE])
  <2>1. ~[db.runs[r] EXCEPT !.kept = FALSE].kept
    OBVIOUS
  <2>2. ~db'.runs[r].kept
    BY <1>5, <2>1 DEF With
  <2>3. QED
    BY <1>3, <2>2 DEF Kept, Report, Violations
<1>6. QED
  BY <1>2, <1>4, <1>5

\* Evidence of a cited run that may expire.
LEMMA EvidenceFound ==
  ASSUME IsDatabase, db' \in Tampered("evidence") \ {db}
  PROVE  "I7 late" \in Violations(db')
<1>1. PICK r \in Sources(db) \cap DOMAIN db.raws :
        db' = [db EXCEPT !.raws = With(db.raws, r, [kept |-> FALSE])]
  BY DEF Tampered
<1>2. db'.snapshots = db.snapshots /\ db'.actions = db.actions
      /\ db'.raws = With(db.raws, r, [kept |-> FALSE])
  BY <1>1 DEF IsDatabase, HasCollections, Collections
<1>3. r \in Sources(db')
  BY <1>2 DEF Sources, Named
<1>4. r \in DOMAIN db'.raws /\ ~db'.raws[r].kept
  BY <1>2 DEF With
<1>5. QED
  BY <1>3, <1>4 DEF Kept, Report, Violations

\* An action that is gone, was changed, or was changed and hashed again.
LEMMA ActionFound ==
  ASSUME IsDatabase, Sound(db), Joined(db), db' \in Tampered("action") \ {db}
  PROVE  Violations(db') \cap {"I5", "I5 ref"} # {}
<1> DEFINE n == Cardinality(db.actions)
<1>1. PICK a \in db.actions : \E new \in {{}, {[a EXCEPT !.content = 1]},
            {[[a EXCEPT !.content = 1] EXCEPT !.hash = ActionHash([a EXCEPT !.content = 1])]}} :
        db' = [db EXCEPT !.actions = Edits(db.actions, a, new)]
  BY DEF Tampered
<1>2. PICK new \in {{}, {[a EXCEPT !.content = 1]},
            {[[a EXCEPT !.content = 1] EXCEPT !.hash = ActionHash([a EXCEPT !.content = 1])]}} :
        db' = [db EXCEPT !.actions = Edits(db.actions, a, new)]
  BY <1>1
<1>3. /\ db'.actions = Edits(db.actions, a, new)
      /\ db'.pointer = db.pointer
  BY <1>2 DEF IsDatabase, HasCollections, Collections
<1>4. /\ ActionsTrue(db.actions) /\ AsWritten(a) /\ n \in Nat /\ n > 0 /\ a.seq \in 1..n
      /\ IsFiniteSet(db.actions)
      /\ \A b \in db.actions : b.seq \in 1..n /\ (b.seq = a.seq => b = a)
      /\ \A b, c \in db.actions : b.seq = c.seq => b = c
  BY Numbered DEF Sound, ActionsTrue
<1>5. PICK last \in db.actions :
        last.seq = n /\ LastOf(db.actions) = last /\ PointsAt(db, last)
  BY <1>4, LastAction DEF Joined
<1>6. db'.pointer # NoPointer /\ db'.pointer.seq = n /\ db'.pointer.hash = last.hash
  BY <1>3, <1>4, <1>5 DEF PointsAt, NoPointer
\* What is reported of a broken chain, or of one that the pointer does not fit.
<1>7. /\ ~Linked(db'.actions) => "I5" \in Violations(db')
      /\ ~HeadFits(db'.actions, db'.pointer) => "I5 ref" \in Violations(db')
  BY <1>6 DEF Chain, Report, Violations
\* The action that follows, unless it was the last.
<1>8. a.seq < n => \E b \in db.actions \ {a} : b.seq = a.seq + 1 /\ b.prevHash = a.hash
  <2> SUFFICES ASSUME a.seq < n
               PROVE  \E b \in db.actions \ {a} : b.seq = a.seq + 1 /\ b.prevHash = a.hash
    OBVIOUS
  <2>1. a.seq + 1 \in 1..n
    BY <1>4
  <2>2. PICK b \in db.actions : b.seq = a.seq + 1
    BY <1>4, <2>1, Numbered
  <2>3. b.seq # 1 /\ b.seq - 1 = a.seq /\ b # a
    BY <1>4, <2>2
  <2>4. PICK c \in db.actions : c.seq = b.seq - 1 /\ c.hash = b.prevHash
    BY <1>4, <2>3 DEF ActionsTrue, Linked
  <2>5. c = a
    BY <1>4, <2>3, <2>4
  <2>6. QED
    BY <2>2, <2>3, <2>4, <2>5
\* It is gone: the chain has a gap, or ends before the pointer.
<1>9. CASE new = {}
  <2>1. db'.actions = db.actions \ {a} /\ Cardinality(db'.actions) = n - 1
    <3>1. db'.actions = db.actions \ {a}
      BY <1>3, <1>9 DEF Edits
    <3>2. Cardinality(db.actions \ {a}) = n - 1
      BY <1>4, FS_RemoveElement
    <3>3. QED
      BY <3>1, <3>2
  <2>2. ~HeadFits(db'.actions, db'.pointer)
    BY <1>4, <1>6, <2>1 DEF HeadFits
  <2>3. QED
    BY <1>7, <2>2
\* It was changed: its hash is that of another content.
<1>10. CASE new = {[a EXCEPT !.content = 1]}
  <2> DEFINE forged == [a EXCEPT !.content = 1]
  <2>1. forged \in db'.actions
    BY <1>3, <1>10 DEF Edits
  <2>2. ActionHash(forged)[5] = 1 /\ forged.hash = a.hash
    BY <1>4 DEF ActionHash, AsWritten
  <2>3. a.hash[5] = 0
    <3>1. a.hash = ActionHash(a)
      BY <1>4 DEF ActionsTrue, Linked
    <3>2. QED
      BY <1>4, <3>1 DEF ActionHash, AsWritten
  <2> HIDE DEF forged
  <2>4. ActionHash(forged) # forged.hash
    BY <2>2, <2>3
  <2>5. ~Linked(db'.actions)
    BY <2>1, <2>4 DEF Linked
  <2>6. QED
    BY <1>7, <2>5
\* Its hash is new, too: neither the action after it nor the pointer has it.
<1>11. CASE new = {[[a EXCEPT !.content = 1] EXCEPT !.hash = ActionHash([a EXCEPT !.content = 1])]}
  <2> DEFINE forged == [a EXCEPT !.content = 1]
             rehashed == [forged EXCEPT !.hash = ActionHash(forged)]
  <2>1. db'.actions = (db.actions \ {a}) \cup {rehashed}
    BY <1>3, <1>11 DEF Edits
  <2>2. rehashed.seq = a.seq /\ rehashed.hash[5] = 1
    BY <1>4 DEF ActionHash, AsWritten
  <2>3. a.hash[5] = 0
    <3>1. a.hash = ActionHash(a)
      BY <1>4 DEF ActionsTrue, Linked
    <3>2. QED
      BY <1>4, <3>1 DEF ActionHash, AsWritten
  <2> HIDE DEF forged, rehashed
  <2>4. \A c \in db'.actions : c.seq = a.seq => c = rehashed
    BY <1>4, <2>1
  <2>5. CASE a.seq < n
    <3>1. PICK b \in db.actions \ {a} : b.seq = a.seq + 1 /\ b.prevHash = a.hash
      BY <1>8, <2>5
    <3>2. b \in db'.actions /\ b.seq # 1 /\ b.seq - 1 = a.seq
      BY <1>4, <2>1, <3>1
    <3>3. \A c \in db'.actions : c.seq = b.seq - 1 => c.hash # b.prevHash
      BY <2>2, <2>3, <2>4, <3>1, <3>2
    <3>4. ~Linked(db'.actions)
      BY <3>2, <3>3 DEF Linked
    <3>5. QED
      BY <1>7, <3>4
  <2>6. CASE a.seq = n
    <3>1. /\ rehashed \in db'.actions
          /\ \A b \in db'.actions : b.seq \in 1..n /\ (b.seq = n => b = rehashed)
      BY <1>4, <2>1, <2>2, <2>4, <2>6
    <3>2. LastOf(db'.actions) = rehashed
      BY <1>4, <2>2, <2>6, <3>1, LastIs
    <3>3. last = a
      BY <1>4, <1>5, <2>6
    <3>4. ~HeadFits(db'.actions, db'.pointer)
      BY <1>6, <2>2, <2>3, <3>2, <3>3 DEF HeadFits
    <3>5. QED
      BY <1>7, <3>4
  <2>7. a.seq < n \/ a.seq = n
    BY <1>4
  <2>8. QED
    BY <2>5, <2>6, <2>7
<1>12. QED
  BY <1>9, <1>10, <1>11

\* The last action taken back together with the pointer's move leaves nothing false.
LEMMA UndoneIsSound ==
  ASSUME IsDatabase, Sound(db), Joined(db), db' \in Tampered("undone") \ {db},
         owes' = owes
  PROVE  /\ IsDatabase' /\ Sound(db)' /\ Joined(db)'
         /\ db'.raws = db.raws
<1> DEFINE n == Cardinality(db.actions)
           rest == db.actions \ {LastOf(db.actions)}
<1>1. db.actions # {} /\ db' = [db EXCEPT !.actions = rest, !.pointer = PointerTo(rest)]
  BY DEF Tampered, Undone
<1>2. /\ db'.actions = rest /\ db'.pointer = PointerTo(rest)
      /\ db'.group = db.group /\ db'.managers = db.managers /\ db'.rows = db.rows
      /\ db'.snapshots = db.snapshots /\ db'.runs = db.runs /\ db'.raws = db.raws
      /\ db' = [name \in Collections |-> db'[name]]
  BY <1>1 DEF IsDatabase, HasCollections, Collections
<1>3. PICK a \in db.actions : a.seq = n /\ LastOf(db.actions) = a /\ PointsAt(db, a)
  BY <1>1, LastAction DEF Joined
<1>4. /\ ActionsTrue(db.actions) /\ n \in Nat /\ n > 0 /\ IsFiniteSet(db.actions)
      /\ \A b \in db.actions : b.seq \in 1..n
      /\ \A b, c \in db.actions : b.seq = c.seq => b = c
  BY <1>1, Numbered DEF Sound, ActionsTrue
<1>5. /\ rest = db.actions \ {a} /\ IsFiniteSet(rest) /\ Cardinality(rest) = n - 1
  BY <1>3, <1>4, FS_RemoveElement
<1> HIDE DEF rest, n
<1>6. \A b \in rest : b \in db.actions /\ b.seq \in 1..(n - 1)
  BY <1>3, <1>4, <1>5
<1>7. \A i \in 1..(n - 1) : \E b \in rest : b.seq = i
  <2> SUFFICES ASSUME NEW i \in 1..(n - 1)
               PROVE  \E b \in rest : b.seq = i
    OBVIOUS
  <2>1. PICK b \in db.actions : b.seq = i
    <3>1. i \in 1..n
      BY <1>4
    <3>2. QED
      BY <1>4, <3>1, Numbered DEF n
  <2>2. QED
    BY <1>3, <1>4, <1>5, <2>1
<1>8. ActionsTrue(rest)
  <2>1. {b.seq : b \in rest} = 1..(n - 1)
    BY <1>6, <1>7
  <2>2. ASSUME NEW b \in rest, b.seq # 1
        PROVE  \E c \in rest : c.seq = b.seq - 1 /\ c.hash = b.prevHash
    <3>1. PICK c \in db.actions : c.seq = b.seq - 1 /\ c.hash = b.prevHash
      BY <1>4, <1>6, <2>2 DEF ActionsTrue, Linked
    <3>2. c # a
      BY <1>3, <1>4, <1>6, <3>1
    <3>3. QED
      BY <1>5, <3>1, <3>2
  <2>3. \A b \in rest : (b.seq = 1 => b.prevHash = Genesis) /\ ActionHash(b) = b.hash /\ AsWritten(b)
    BY <1>4, <1>6 DEF ActionsTrue, Linked
  <2>4. QED
    BY <1>4, <1>5, <1>6, <2>1, <2>2, <2>3 DEF ActionsTrue, Linked
<1>9. Sound(db)'
  BY <1>2, <1>8 DEF Sound
<1>10. Headed(db)'
  <2>1. IF rest = {} THEN db'.pointer = NoPointer
        ELSE \E b \in rest : b.seq = n - 1 /\ PointsAt(db', b)
    <3>1. CASE rest = {}
      BY <1>2, <3>1 DEF PointerTo
    <3>2. CASE rest # {}
      <4>1. n - 1 \in 1..(n - 1)
        BY <1>4, <1>6, <3>2
      <4>2. PICK b \in rest : b.seq = n - 1
        BY <1>7, <4>1
      <4>3. LastOf(rest) = b
        <5>1. n - 1 \in Nat /\ \A c \in rest : c.seq \in 1..(n - 1) /\ (c.seq = n - 1 => c = b)
          BY <1>4, <1>6, <4>2
        <5>2. QED
          BY <4>2, <5>1, LastIs
      <4>4. b.snapshot = b.seq
        BY <1>8 DEF ActionsTrue, AsWritten
      <4>5. QED
        BY <1>2, <3>2, <4>2, <4>3, <4>4 DEF PointerTo, PointsAt
    <3>3. QED
      BY <3>1, <3>2
  <2>2. /\ \A i \in 1..n : i \in DOMAIN db.snapshots /\ db.snapshots[i].of = "this"
        /\ \A b \in db.actions : /\ b.run = db.snapshots[b.seq].source
                                 /\ b.prev = IF b.seq = 1 THEN Null ELSE b.seq - 1
    BY DEF Joined, Headed, n
  <2>3. 1..(n - 1) \subseteq 1..n
    BY <1>4
  <2>4. QED
    BY <1>2, <1>5, <1>6, <2>1, <2>2, <2>3 DEF Headed
<1>11. Rooted(db)' /\ Supported(db)'
  <2>1. owes' = owes
    OBVIOUS
  <2>2. Rooted(db)'
    BY <1>2 DEF Joined, Rooted
  <2>3. Cited(db)' = Cited(db)
    BY <1>2 DEF Cited
  <2>4. QED
    BY <1>2, <2>1, <2>2, <2>3 DEF Joined, Supported
<1>12. IsDatabase'
  BY <1>2 DEF IsDatabase, HasCollections
<1>13. QED
  BY <1>2, <1>9, <1>10, <1>11, <1>12 DEF Joined

-----------------------------------------------------------------------------
\* What the program has written is a database of documents with their fields.
Formed ==
  /\ IsDatabase
  /\ \A w \in db.rows : {"id", "picks"} \subseteq DOMAIN w
  /\ \A i \in DOMAIN db.snapshots : {"content", "hash"} \subseteq DOMAIN db.snapshots[i]
  /\ \A r \in DOMAIN db.runs : db.runs[r] \in [kept : BOOLEAN, logged : BOOLEAN]

\* How far the recorders are: a run is there while its recorder writes, what a
\* decision owes that cites it is not forgotten before it is written, and what
\* is logged is in the run.
Recording(d) ==
  /\ recorder = [r \in Run |-> recorder[r]] /\ owes = [r \in Run |-> owes[r]]
  /\ \A r \in Run :
       /\ recorder[r] = "none" => r \notin DOMAIN d.runs
       /\ recorder[r] \in {"open", "stored"} =>
            r \in DOMAIN d.runs /\ (r \in Cited(d) => "I7 late" \in owes[r])
       /\ recorder[r] = "logged" /\ r \in DOMAIN d.runs => d.runs[r].logged

InOrder == Formed /\ Sound(db) /\ Joined(db) /\ Complete(db) /\ Recording(db)

\* Nobody has edited the database, or the scan will say so, or can say nothing.
Honest ==
  /\ HasCollections
  /\ fault \in {Null} \cup Faults \cup Unseen
  /\ fault = Null => InOrder
  /\ fault \in Unseen => Sound(db) /\ Joined(db)
  /\ fault \in Faults => Violations(db) \cap CodesOf[fault] # {}

\* A scan that has read a part; what it reads at the end is sound, and all of a
\* piece if nothing was written meanwhile.
Scanning ==
  /\ scan = [pc |-> scan.pc, got |-> scan.got, raced |-> scan.raced, found |-> scan.found]
  /\ scan.pc \in {"idle", "reading", "done"} /\ scan.raced \in BOOLEAN
  /\ scan.pc = "idle" => ~scan.raced
  /\ scan.pc = "reading" => /\ fault = Null => Sound(Read)
                            /\ ~scan.raced => Read = db

IInv == Honest /\ Scanning /\ ScanIsExact

Writing ==
  \/ \E e \in Entry : AddMember(e) \/ SetMe(e) \/ WriteRow(e)
  \/ \E r \in Run : StartRun(r) \/ Store(r) \/ Log(r) \/ Expire(r) \/ Decide(r)

-----------------------------------------------------------------------------
\* The database of a new group is in order, and that of one with a result.
LEMMA InitIInv ==
  ASSUME Past \in Run, Null \notin Faults \cup Unseen, Init
  PROVE  IInv
<1>1. PICK settled \in BOOLEAN :
        LET old(id, doc) == IF settled THEN With(NoDocuments, id, doc) ELSE NoDocuments
        IN /\ db = [group |-> [members |-> <<>>, me |-> Null], managers |-> {}, rows |-> {},
                    snapshots |-> old(Before, [of |-> "before", content |-> 0, hash |-> 0,
                                               source |-> Past]),
                    actions |-> {}, pointer |-> NoPointer,
                    runs |-> old(Past, [kept |-> TRUE, logged |-> TRUE]),
                    raws |-> old(Past, [kept |-> TRUE])]
           /\ recorder = [r \in Run |-> IF settled /\ r = Past THEN "logged" ELSE "none"]
  BY DEF Init
<1> DEFINE snapshot == [of |-> "before", content |-> 0, hash |-> 0, source |-> Past]
           run == [kept |-> TRUE, logged |-> TRUE]
           raw == [kept |-> TRUE]
<1>2. /\ db.group = [members |-> <<>>, me |-> Null] /\ db.managers = {} /\ db.rows = {}
      /\ db.actions = {} /\ db.pointer = NoPointer
      /\ db = [name \in Collections |-> db[name]]
      /\ recorder = [r \in Run |-> IF settled /\ r = Past THEN "logged" ELSE "none"]
      /\ db.snapshots = IF settled THEN With(NoDocuments, Before, snapshot) ELSE NoDocuments
      /\ db.runs = IF settled THEN With(NoDocuments, Past, run) ELSE NoDocuments
      /\ db.raws = IF settled THEN With(NoDocuments, Past, raw) ELSE NoDocuments
  BY <1>1 DEF Collections
<1>3. /\ snapshot.content = 0 /\ snapshot.hash = 0 /\ snapshot.source = Past
      /\ {"content", "hash"} \subseteq DOMAIN snapshot
      /\ run \in [kept : BOOLEAN, logged : BOOLEAN] /\ run.kept /\ run.logged /\ raw.kept
  OBVIOUS
<1> HIDE DEF snapshot, run, raw
<1>4. DOMAIN NoDocuments = {}
  BY DEF NoDocuments
<1>5. /\ DOMAIN db.snapshots = IF settled THEN {Before} ELSE {}
      /\ \A i \in DOMAIN db.snapshots : db.snapshots[i] = snapshot
      /\ DOMAIN db.runs = IF settled THEN {Past} ELSE {}
      /\ \A r \in DOMAIN db.runs : db.runs[r] = run
      /\ \A r \in DOMAIN db.raws : db.raws[r] = raw
  BY <1>2, <1>4 DEF With
<1>6. Cited(db) = DOMAIN db.runs
  BY <1>3, <1>5 DEF Cited
<1>7. Formed
  BY <1>2, <1>3, <1>5 DEF Formed, IsDatabase, HasCollections
<1>8. Sound(db)
  <2>1. IsFiniteSet({}) /\ Cardinality({}) = 0
    BY FS_EmptySet
  <2>2. Linked({})
    BY <2>1 DEF Linked
  <2>3. MembersTrue(db.group)
    BY <1>2 DEF MembersTrue, IsInjective
  <2>4. RowsTrue(db.rows) /\ SnapshotsTrue(db.snapshots)
    BY <1>2, <1>3, <1>5 DEF RowsTrue, SnapshotsTrue
  <2>5. QED
    BY <1>2, <2>1, <2>2, <2>3, <2>4 DEF Sound, ActionsTrue
<1>9. Joined(db) /\ Complete(db)
  <2>1. Cardinality({}) = 0
    BY FS_EmptySet
  <2>2. Rooted(db)
    BY <1>2 DEF Rooted, Range
  <2>3. Headed(db)
    BY <1>2, <2>1 DEF Headed
  <2>4. Supported(db)
    BY <1>3, <1>5, <1>6 DEF Supported
  <2>5. Complete(db)
    BY <1>5 DEF Complete
  <2>6. QED
    BY <2>2, <2>3, <2>4, <2>5 DEF Joined
<1>10. Recording(db)
  <2>1. owes = [r \in Run |-> owes[r]] /\ recorder = [r \in Run |-> recorder[r]]
    BY <1>2 DEF Init
  <2>2. \A r \in Run : recorder[r] = IF settled /\ r = Past THEN "logged" ELSE "none"
    BY <1>2
  <2>3. QED
    BY <1>3, <1>5, <2>1, <2>2 DEF Recording
<1>11. Scanning /\ ScanIsExact /\ fault = Null
  BY DEF Init, Scanning, ScanIsExact
<1>12. Null \notin Faults \cup Unseen => Honest
  BY <1>2, <1>7, <1>8, <1>9, <1>10, <1>11 DEF Honest, InOrder, HasCollections
<1>13. QED
  BY <1>11, <1>12 DEF IInv

\* What is said of decisions and runs holds as long as those are not written to.
LEMMA DecisionsFrame ==
  ASSUME Joined(db), Complete(db), Recording(db), db'.snapshots = db.snapshots,
         db'.actions = db.actions, db'.pointer = db.pointer, db'.runs = db.runs,
         db'.raws = db.raws, owes' = owes, recorder' = recorder
  PROVE  Headed(db)' /\ Supported(db)' /\ Complete(db)' /\ Recording(db)'
<1>1. Cited(db)' = Cited(db)
  BY DEF Cited
<1>2. Headed(db)'
  BY DEF Joined, Headed, PointsAt
<1>3. Supported(db)'
  BY <1>1 DEF Joined, Supported
<1>4. Complete(db)'
  BY DEF Complete
<1>5. Recording(db)'
  BY <1>1 DEF Recording
<1>6. QED
  BY <1>2, <1>3, <1>4, <1>5

\* A transaction of T2 keeps the database in order: the managers document comes
\* with the member.
LEMMA AddMemberKeeps ==
  ASSUME InOrder, NEW e \in Entry, AddMember(e)
  PROVE  InOrder'
<1>1. /\ db' = [db EXCEPT !.group.members = Append(@, e), !.managers = @ \cup {e}]
      /\ e \notin Range(db.group.members)
      /\ owes' = owes /\ recorder' = recorder
  BY DEF AddMember
<1>2. /\ db'.group = [members |-> Append(db.group.members, e), me |-> db.group.me]
      /\ db'.managers = db.managers \cup {e}
      /\ db'.rows = db.rows /\ db'.snapshots = db.snapshots /\ db'.actions = db.actions
      /\ db'.pointer = db.pointer /\ db'.runs = db.runs /\ db'.raws = db.raws
      /\ db' = [name \in Collections |-> db'[name]]
  BY <1>1 DEF InOrder, Formed, IsDatabase, HasCollections, Collections
<1>3. /\ Formed /\ Sound(db) /\ Joined(db)
      /\ db.group.members \in Seq(Entry) /\ IsInjective(db.group.members)
  BY DEF InOrder, Sound, MembersTrue
<1>4. /\ Append(db.group.members, e) \in Seq(Entry) /\ IsInjective(Append(db.group.members, e))
      /\ Range(Append(db.group.members, e)) = Range(db.group.members) \cup {e}
  BY <1>1, <1>3, Appended
<1>5. Formed'
  BY <1>2, <1>3 DEF Formed, IsDatabase, HasCollections
<1>6. Sound(db)'
  BY <1>2, <1>3, <1>4 DEF Sound, MembersTrue
<1>7. Rooted(db)'
  BY <1>2, <1>3, <1>4 DEF Joined, Rooted
<1>8. Headed(db)' /\ Supported(db)' /\ Complete(db)' /\ Recording(db)'
  BY <1>1, <1>2, DecisionsFrame DEF InOrder
<1>9. QED
  BY <1>5, <1>6, <1>7, <1>8 DEF InOrder, Joined

\* The group's "me" is a member, and a row is a member's.
LEMMA MemberDataKeeps ==
  ASSUME InOrder, NEW e \in Entry, SetMe(e) \/ WriteRow(e)
  PROVE  InOrder'
<1> DEFINE new == [entry |-> e, id |-> 0, picks |-> 0]
<1>1. Formed /\ Sound(db) /\ Joined(db) /\ owes' = owes /\ recorder' = recorder
  BY DEF InOrder, SetMe, WriteRow
<1>2. /\ \/ db'.group = [members |-> db.group.members, me |-> e] /\ db'.rows = db.rows
         \/ db'.group = db.group /\ db'.rows = db.rows \cup {new}
      /\ e \in Range(db.group.members)
      /\ db'.managers = db.managers \cup {e}
      /\ db'.snapshots = db.snapshots /\ db'.actions = db.actions
      /\ db'.pointer = db.pointer /\ db'.runs = db.runs /\ db'.raws = db.raws
      /\ db' = [name \in Collections |-> db'[name]]
  <2>1. CASE SetMe(e)
    <3>1. db' = [db EXCEPT !.group.me = e] /\ e \in Range(db.group.members)
      BY <2>1 DEF SetMe
    <3>2. db.managers \cup {e} = db.managers
      BY <1>1, <3>1 DEF Joined, Rooted
    <3>3. QED
      BY <1>1, <3>1, <3>2 DEF Formed, IsDatabase, HasCollections, Collections
  <2>2. CASE WriteRow(e)
    <3>1. /\ db' = [db EXCEPT !.managers = @ \cup {e}, !.rows = @ \cup {new}]
          /\ e \in Range(db.group.members)
      BY <2>2 DEF WriteRow
    <3>2. QED
      BY <1>1, <3>1 DEF Formed, IsDatabase, HasCollections, Collections
  <2>3. QED
    BY <2>1, <2>2
<1>3. new.entry = e /\ new.id = 0 /\ new.picks = 0 /\ {"id", "picks"} \subseteq DOMAIN new
  OBVIOUS
<1> HIDE DEF new
<1>4. /\ db'.group.members = db.group.members
      /\ db'.group = [members |-> db'.group.members, me |-> db'.group.me]
  BY <1>1, <1>2 DEF Formed, IsDatabase, HasCollections
<1>5. Formed'
  BY <1>1, <1>2, <1>3, <1>4 DEF Formed, IsDatabase, HasCollections
<1>6. Sound(db)'
  BY <1>1, <1>2, <1>3, <1>4 DEF Sound, MembersTrue, RowsTrue
<1>7. Rooted(db)'
  BY <1>1, <1>2, <1>3, <1>4 DEF Joined, Rooted
<1>8. Headed(db)' /\ Supported(db)' /\ Complete(db)' /\ Recording(db)'
  BY <1>1, <1>2, DecisionsFrame DEF InOrder
<1>9. QED
  BY <1>5, <1>6, <1>7, <1>8 DEF InOrder, Joined

\* What is said of a group's members holds as long as they are not written to.
LEMMA MembersFrame ==
  ASSUME Sound(db), Joined(db), db'.group = db.group, db'.managers = db.managers,
         db'.rows = db.rows, db'.snapshots = db.snapshots, db'.actions = db.actions
  PROVE  Sound(db)' /\ Rooted(db)' /\ Cited(db)' = Cited(db)
BY DEF Sound, Joined, Rooted, Cited

\* Runs come and go, but for those that a decision cites, and their recorders write.
LEMMA RunsComeAndGo ==
  ASSUME InOrder, NEW r \in Run, StartRun(r) \/ Store(r) \/ Log(r) \/ Expire(r)
  PROVE  InOrder'
<1>1. /\ db'.group = db.group /\ db'.rows = db.rows /\ db'.managers = db.managers
      /\ db'.snapshots = db.snapshots /\ db'.actions = db.actions
      /\ db'.pointer = db.pointer
      /\ db' = [name \in Collections |-> db'[name]]
      /\ owes' = owes
  BY DEF InOrder, Formed, IsDatabase, HasCollections, Collections, StartRun, Store, Log, Expire
<1>2. /\ Sound(db)' /\ Rooted(db)' /\ Headed(db)' /\ Complete(db)' /\ Cited(db)' = Cited(db)
  BY <1>1, MembersFrame DEF InOrder, Joined, Headed, PointsAt, Complete
<1>3. /\ Cited(db) \subseteq DOMAIN db.runs /\ Cited(db) \subseteq Run
      /\ \A q \in Cited(db) : db.runs[q].kept /\ (~db.runs[q].logged => "I6 log" \in owes[q])
      /\ \A q \in Cited(db) \cap DOMAIN db.raws : ~db.raws[q].kept => "I7 late" \in owes[q]
  BY DEF InOrder, Joined, Supported
<1>4. /\ recorder = [q \in Run |-> recorder[q]] /\ owes = [q \in Run |-> owes[q]]
      /\ \A q \in Run :
           /\ recorder[q] = "none" => q \notin DOMAIN db.runs
           /\ recorder[q] \in {"open", "stored"} =>
                q \in DOMAIN db.runs /\ (q \in Cited(db) => "I7 late" \in owes[q])
           /\ recorder[q] = "logged" /\ q \in DOMAIN db.runs => db.runs[q].logged
  BY DEF InOrder, Recording
<1>5. \A q \in DOMAIN db.runs : db.runs[q] \in [kept : BOOLEAN, logged : BOOLEAN]
  BY DEF InOrder, Formed
<1>6. Formed' <=> \A q \in DOMAIN db'.runs : db'.runs[q] \in [kept : BOOLEAN, logged : BOOLEAN]
  BY <1>1 DEF InOrder, Formed, IsDatabase, HasCollections
\* It is enough to look at the runs, the evidence and the recorders.
<1>7. SUFFICES /\ \A q \in DOMAIN db'.runs : db'.runs[q] \in [kept : BOOLEAN, logged : BOOLEAN]
               /\ Supported(db)' /\ Recording(db)'
  BY <1>2, <1>6 DEF InOrder, Joined
<1>8. CASE StartRun(r)
  <2> DEFINE run == [kept |-> FALSE, logged |-> FALSE]
  <2>1. /\ db'.runs = With(db.runs, r, run) /\ db'.raws = db.raws
        /\ recorder[r] = "none" /\ recorder' = [recorder EXCEPT ![r] = "open"]
    BY <1>8 DEF StartRun, InOrder, Formed, IsDatabase, HasCollections, Collections
  <2>2. r \notin DOMAIN db.runs /\ r \notin Cited(db)
    BY <1>3, <1>4, <2>1
  <2>3. run \in [kept : BOOLEAN, logged : BOOLEAN]
    OBVIOUS
  <2> HIDE DEF run
  <2>4. Supported(db)'
    BY <1>1, <1>2, <1>3, <2>1, <2>2 DEF Supported, With
  <2>5. Recording(db)'
    BY <1>1, <1>2, <1>4, <2>1, <2>2 DEF Recording, With
  <2>6. QED
    BY <1>5, <2>1, <2>3, <2>4, <2>5 DEF With
<1>9. CASE Store(r)
  <2> DEFINE raw == [kept |-> FALSE]
  <2>1. /\ db'.runs = db.runs /\ db'.raws = With(db.raws, r, raw)
        /\ recorder[r] = "open" /\ recorder' = [recorder EXCEPT ![r] = "stored"]
    BY <1>9 DEF Store, InOrder, Formed, IsDatabase, HasCollections, Collections
  <2> HIDE DEF raw
  <2>2. Supported(db)'
    BY <1>1, <1>2, <1>3, <1>4, <2>1 DEF Supported, With
  <2>3. Recording(db)'
    BY <1>1, <1>2, <1>4, <2>1 DEF Recording
  <2>4. QED
    BY <1>5, <2>1, <2>2, <2>3
<1>10. CASE Log(r)
  <2> DEFINE run == [db.runs[r] EXCEPT !.logged = TRUE]
  <2>1. /\ db'.runs = With(db.runs, r, run) /\ db'.raws = db.raws
        /\ recorder[r] \in {"open", "stored"} /\ recorder' = [recorder EXCEPT ![r] = "logged"]
    BY <1>10 DEF Log, InOrder, Formed, IsDatabase, HasCollections, Collections
  <2>2. r \in DOMAIN db.runs
    BY <1>4, <2>1
  <2>3. /\ run \in [kept : BOOLEAN, logged : BOOLEAN]
        /\ run.kept = db.runs[r].kept /\ run.logged
    BY <1>5, <2>2
  <2> HIDE DEF run
  <2>4. /\ DOMAIN db'.runs = DOMAIN db.runs
        /\ \A q \in DOMAIN db.runs : /\ db.runs[q].kept => db'.runs[q].kept
                                     /\ db.runs[q].logged => db'.runs[q].logged
        /\ db'.runs[r].logged
    BY <2>1, <2>2, <2>3 DEF With
  <2>5. Supported(db)'
    BY <1>1, <1>2, <1>3, <2>1, <2>4 DEF Supported
  <2>6. /\ recorder' = [q \in Run |-> recorder'[q]]
        /\ \A q \in Run : recorder'[q] = IF q = r THEN "logged" ELSE recorder[q]
    BY <1>4, <2>1
  <2>7. Recording(db)'
    BY <1>1, <1>2, <1>4, <2>4, <2>6 DEF Recording
  <2>8. QED
    BY <1>5, <2>1, <2>3, <2>5, <2>7 DEF With
<1>11. CASE Expire(r)
  <2>1. /\ \/ /\ r \in DOMAIN db.runs /\ ~db.runs[r].kept
              /\ db'.runs = Without(db.runs, r) /\ db'.raws = db.raws
           \/ /\ r \in DOMAIN db.raws /\ ~db.raws[r].kept
              /\ db'.raws = Without(db.raws, r) /\ db'.runs = db.runs
        /\ recorder[r] \in {"logged", "lost"} /\ recorder' = recorder
    <3>1. PICK name \in {"runs", "raws"} :
            /\ r \in DOMAIN db[name] /\ ~db[name][r].kept
            /\ db' = [db EXCEPT ![name] = Without(@, r)]
      BY <1>11 DEF Expire
    <3>2. QED
      BY <1>11, <3>1 DEF Expire, InOrder, Formed, IsDatabase, HasCollections, Collections
  <2>2. Supported(db)'
    BY <1>1, <1>2, <1>3, <2>1 DEF Supported, Without, Restrict
  <2>3. Recording(db)'
    BY <1>1, <1>2, <1>4, <2>1 DEF Recording, Without, Restrict
  <2>4. QED
    BY <1>5, <2>1, <2>2, <2>3 DEF Without, Restrict
<1>12. QED
  BY <1>8, <1>9, <1>10, <1>11

\* A decision adds the next action of the chain, points at it, keeps the run and
\* the evidence that it cites, and owes what the run's recorder has yet to write.
LEMMA DecideKeeps ==
  ASSUME InOrder, NEW r \in Run, Decide(r)
  PROVE  InOrder'
<1> DEFINE n == Cardinality(db.actions)
           new == NextAction(r)
           snapshot == [of |-> "this", content |-> 0, hash |-> 0, source |-> r]
           run == [db.runs[r] EXCEPT !.kept = TRUE]
           raw == [kept |-> TRUE]
<1>1. /\ ActionsTrue(db.actions) /\ n \in Nat /\ IsFiniteSet(db.actions)
      /\ \A a \in db.actions : a.seq \in 1..n
      /\ db.actions = {} <=> n = 0
      /\ Formed /\ Sound(db) /\ Rooted(db) /\ Headed(db) /\ Supported(db)
  BY Numbered DEF InOrder, Sound, ActionsTrue, Joined
<1>2. /\ new.seq = n + 1 /\ new.run = r /\ new.prevHash = db.pointer.hash
      /\ new.prev = db.pointer.snapshot
      /\ AsWritten(new) /\ ActionHash(new) = new.hash
  <2> DEFINE action == [seq |-> n + 1, prev |-> db.pointer.snapshot, snapshot |-> n + 1,
                        snapshotHash |-> 0, run |-> r, content |-> 0, hash |-> Genesis,
                        prevHash |-> db.pointer.hash]
  <2>1. new = [action EXCEPT !.hash = ActionHash(action)]
    BY DEF NextAction
  <2> HIDE DEF new, n
  <2>2. /\ new.seq = n + 1 /\ new.prev = db.pointer.snapshot /\ new.snapshot = n + 1
        /\ new.snapshotHash = 0 /\ new.run = r
        /\ new.content = 0 /\ new.prevHash = db.pointer.hash /\ new.hash = ActionHash(action)
        /\ DOMAIN new = {"seq", "prev", "snapshot", "snapshotHash", "run", "content", "hash", "prevHash"}
    BY <2>1
  <2>3. ActionHash(action) = ActionHash(new)
    BY <2>2 DEF ActionHash
  <2>4. QED
    BY <2>2, <2>3 DEF AsWritten
<1>3. /\ r \in DOMAIN db.runs
      /\ db'.snapshots = With(db.snapshots, n + 1, snapshot)
      /\ db'.actions = db.actions \cup {new}
      /\ db'.pointer = [seq |-> n + 1, hash |-> new.hash, snapshot |-> n + 1]
      /\ db'.runs = With(db.runs, r, run)
      /\ db'.raws = IF r \in DOMAIN db.raws THEN With(db.raws, r, raw) ELSE db.raws
      /\ db'.group = db.group /\ db'.managers = db.managers /\ db'.rows = db.rows
      /\ db' = [name \in Collections |-> db'[name]]
      /\ owes' = [owes EXCEPT ![r] = OpenOf(recorder[r])] /\ recorder' = recorder
  <2>1. /\ r \in DOMAIN db.runs
        /\ db' = [db EXCEPT !.snapshots = With(db.snapshots, new.seq, snapshot),
                            !.actions = db.actions \cup {new},
                            !.pointer = [seq |-> new.seq, hash |-> new.hash, snapshot |-> new.seq],
                            !.runs = With(db.runs, r, run),
                            !.raws = IF r \in DOMAIN db.raws THEN With(db.raws, r, raw) ELSE db.raws]
        /\ owes' = [owes EXCEPT ![r] = OpenOf(recorder[r])] /\ recorder' = recorder
    BY DEF Decide, KeepEvidence
  <2> HIDE DEF new, n, snapshot, run, raw
  <2>2. QED
    BY <1>1, <1>2, <2>1 DEF Formed, IsDatabase, HasCollections, Collections
<1>4. /\ snapshot.of = "this" /\ snapshot.content = 0 /\ snapshot.hash = 0 /\ snapshot.source = r
      /\ {"content", "hash"} \subseteq DOMAIN snapshot
      /\ run \in [kept : BOOLEAN, logged : BOOLEAN] /\ run.kept
      /\ db.runs[r].logged => run.logged
      /\ raw.kept
  BY <1>1, <1>3 DEF Formed
<1> HIDE DEF new, snapshot, run, raw, n
<1>5. /\ new \notin db.actions
      /\ IsFiniteSet(db'.actions) /\ Cardinality(db'.actions) = n + 1
      /\ \A a \in db.actions : a.seq # n + 1
  <2>1. \A a \in db.actions : a.seq # n + 1
    BY <1>1
  <2>2. new \notin db.actions
    BY <1>2, <2>1
  <2>3. IsFiniteSet(db.actions \cup {new}) /\ Cardinality(db.actions \cup {new}) = n + 1
    BY <1>1, <2>2, FS_AddElement DEF n
  <2>4. QED
    BY <1>3, <2>1, <2>2, <2>3
\* It continues the action before it, or nothing.
<1>6. IF n = 0 THEN new.prevHash = Genesis /\ new.prev = Null
      ELSE /\ \E b \in db.actions : b.seq = n /\ b.hash = new.prevHash
           /\ new.prev = n
  <2>1. CASE n = 0
    <3>1. db.pointer = NoPointer
      BY <1>1, <2>1 DEF Headed
    <3>2. new.prevHash = Genesis /\ new.prev = Null
      BY <1>2, <3>1 DEF NoPointer
    <3>3. QED
      BY <2>1, <3>2
  <2>2. CASE n # 0
    <3>1. PICK b \in db.actions : b.seq = n /\ PointsAt(db, b)
      BY <1>1, <2>2 DEF Headed, n
    <3>2. b.hash = new.prevHash /\ new.prev = n
      BY <1>2, <3>1 DEF PointsAt
    <3>3. QED
      BY <2>2, <3>1, <3>2
  <2>3. QED
    BY <2>1, <2>2
<1>7. Formed'
  <2>1. \A i \in DOMAIN db'.snapshots : {"content", "hash"} \subseteq DOMAIN db'.snapshots[i]
    BY <1>1, <1>3, <1>4 DEF With, Formed
  <2>2. \A q \in DOMAIN db'.runs : db'.runs[q] \in [kept : BOOLEAN, logged : BOOLEAN]
    BY <1>1, <1>3, <1>4 DEF With, Formed
  <2>3. QED
    BY <1>1, <1>3, <2>1, <2>2 DEF Formed, IsDatabase, HasCollections
<1>8. ActionsTrue(db'.actions)
  <2>1. \A a, b \in db'.actions : a.seq = b.seq => a = b
    BY <1>1, <1>2, <1>3, <1>5 DEF ActionsTrue
  <2>2. \A a \in db'.actions : AsWritten(a) /\ ActionHash(a) = a.hash
    BY <1>1, <1>2, <1>3 DEF ActionsTrue, Linked
  <2>3. {a.seq : a \in db'.actions} = 1..(n + 1)
    <3>1. {a.seq : a \in db.actions} = 1..n
      BY <1>1 DEF ActionsTrue, Linked, n
    <3>2. {a.seq : a \in db'.actions} = {a.seq : a \in db.actions} \cup {n + 1}
      BY <1>2, <1>3
    <3>3. 1..(n + 1) = 1..n \cup {n + 1}
      BY <1>1
    <3>4. QED
      BY <3>1, <3>2, <3>3
  <2>4. ASSUME NEW a \in db'.actions
        PROVE  IF a.seq = 1 THEN a.prevHash = Genesis
               ELSE \E b \in db'.actions : b.seq = a.seq - 1 /\ b.hash = a.prevHash
    <3>1. CASE a \in db.actions
      BY <1>1, <1>3, <3>1 DEF ActionsTrue, Linked
    <3>2. CASE a = new
      <4>1. CASE n = 0
        BY <1>2, <1>6, <3>2, <4>1
      <4>2. CASE n # 0
        <5>1. PICK b \in db.actions : b.seq = n /\ b.hash = new.prevHash
          BY <1>6, <4>2
        <5>2. a.seq # 1 /\ a.seq - 1 = n
          BY <1>1, <1>2, <3>2, <4>2
        <5>3. QED
          BY <1>3, <3>2, <5>1, <5>2
      <4>3. QED
        BY <4>1, <4>2
    <3>3. QED
      BY <1>3, <3>1, <3>2
  <2>5. QED
    BY <1>5, <2>1, <2>2, <2>3, <2>4 DEF ActionsTrue, Linked
<1>9. SnapshotsTrue(db'.snapshots)
  BY <1>1, <1>3, <1>4 DEF SnapshotsTrue, With, Sound
<1>10. Sound(db)'
  BY <1>1, <1>3, <1>8, <1>9 DEF Sound
<1>11. /\ DOMAIN db.snapshots \subseteq {Before} \cup 1..n
       /\ 1..n \subseteq DOMAIN db.snapshots /\ n + 1 \notin DOMAIN db.snapshots
       /\ 1..(n + 1) = 1..n \cup {n + 1}
  <2>1. DOMAIN db.snapshots \subseteq {Before} \cup 1..n
    BY DEF InOrder, Complete, n
  <2>2. 1..n \subseteq DOMAIN db.snapshots
    BY <1>1 DEF Headed, n
  <2>3. n + 1 \notin {Before} \cup 1..n /\ 1..(n + 1) = 1..n \cup {n + 1}
    BY <1>1 DEF Before
  <2>4. QED
    BY <2>1, <2>2, <2>3
<1>12. /\ DOMAIN db'.snapshots = DOMAIN db.snapshots \cup {n + 1}
       /\ \A i \in DOMAIN db.snapshots : db'.snapshots[i] = db.snapshots[i]
       /\ db'.snapshots[n + 1] = snapshot
  BY <1>3, <1>11 DEF With
<1>13. Complete(db)'
  <2>1. DOMAIN db'.snapshots \subseteq {Before} \cup 1..(n + 1)
    BY <1>11, <1>12
  <2>2. QED
    BY <1>5, <2>1 DEF Complete
<1>14. Headed(db)'
  <2>1. \A i \in 1..(n + 1) : i \in DOMAIN db'.snapshots /\ db'.snapshots[i].of = "this"
    <3>1. \A i \in 1..n : db.snapshots[i].of = "this"
      BY <1>1 DEF Headed, n
    <3>2. QED
      BY <1>4, <1>11, <1>12, <3>1
  <2>2. ASSUME NEW a \in db'.actions
        PROVE  /\ a.run = db'.snapshots[a.seq].source
               /\ a.prev = IF a.seq = 1 THEN Null ELSE a.seq - 1
    <3>1. CASE a \in db.actions
      <4>1. a.seq \in DOMAIN db.snapshots
        BY <1>1, <1>11, <3>1
      <4>2. QED
        BY <1>1, <1>12, <3>1, <4>1 DEF Headed
    <3>2. CASE a = new
      <4>1. a.run = db'.snapshots[a.seq].source
        BY <1>2, <1>4, <1>12, <3>2
      <4>2. a.prev = IF a.seq = 1 THEN Null ELSE a.seq - 1
        BY <1>1, <1>2, <1>6, <3>2
      <4>3. QED
        BY <4>1, <4>2
    <3>3. QED
      BY <1>3, <3>1, <3>2
  <2>3. PointsAt(db', new) /\ new \in db'.actions /\ new.seq = Cardinality(db'.actions)
    BY <1>2, <1>3, <1>5 DEF PointsAt
  <2>4. QED
    BY <1>5, <2>1, <2>2, <2>3 DEF Headed, PointsAt
<1>15. Cited(db)' = Cited(db) \cup {r}
  BY <1>4, <1>12 DEF Cited
<1>16. Rooted(db)'
  BY <1>1, <1>3 DEF Rooted
<1>17. /\ recorder = [q \in Run |-> recorder[q]] /\ owes = [q \in Run |-> owes[q]]
       /\ \A q \in Run :
            /\ recorder[q] = "none" => q \notin DOMAIN db.runs
            /\ recorder[q] \in {"open", "stored"} =>
                 q \in DOMAIN db.runs /\ (q \in Cited(db) => "I7 late" \in owes[q])
            /\ recorder[q] = "logged" /\ q \in DOMAIN db.runs => db.runs[q].logged
  BY DEF InOrder, Recording
<1>18. /\ owes' = [q \in Run |-> owes'[q]]
       /\ \A q \in Run : q # r => owes'[q] = owes[q]
       /\ recorder[r] # "logged" => "I6 log" \in owes'[r]
       /\ recorder[r] \in {"open", "stored"} => "I7 late" \in owes'[r]
  BY <1>3, <1>17 DEF OpenOf
<1>19. /\ DOMAIN db'.runs = DOMAIN db.runs
       /\ db'.runs[r].kept /\ (db.runs[r].logged => db'.runs[r].logged)
       /\ \A q \in DOMAIN db.runs : q # r => db'.runs[q] = db.runs[q]
       /\ DOMAIN db'.raws = DOMAIN db.raws /\ (r \in DOMAIN db.raws => db'.raws[r].kept)
       /\ \A q \in DOMAIN db.raws : q # r => db'.raws[q] = db.raws[q]
  <2>1. /\ DOMAIN db'.runs = DOMAIN db.runs /\ db'.runs[r] = run
        /\ \A q \in DOMAIN db.runs : q # r => db'.runs[q] = db.runs[q]
    BY <1>3 DEF With
  <2>2. CASE r \in DOMAIN db.raws
    <3>1. /\ DOMAIN db'.raws = DOMAIN db.raws /\ db'.raws[r] = raw
          /\ \A q \in DOMAIN db.raws : q # r => db'.raws[q] = db.raws[q]
      BY <1>3, <2>2 DEF With
    <3>2. QED
      BY <1>4, <2>1, <3>1
  <2>3. CASE r \notin DOMAIN db.raws
    BY <1>3, <1>4, <2>1, <2>3
  <2>4. QED
    BY <2>2, <2>3
<1>20. Supported(db)'
  <2>1. Cited(db)' \subseteq DOMAIN db'.runs /\ Cited(db)' \subseteq Run
    BY <1>1, <1>3, <1>15, <1>19 DEF Supported
  <2>2. ASSUME NEW q \in Cited(db)'
        PROVE  /\ db'.runs[q].kept /\ (~db'.runs[q].logged => "I6 log" \in owes'[q])
               /\ q \in DOMAIN db'.raws => (~db'.raws[q].kept => "I7 late" \in owes'[q])
    <3>1. CASE q = r
      BY <1>3, <1>17, <1>18, <1>19, <3>1
    <3>2. CASE q # r
      <4>1. q \in Cited(db) /\ q \in Run /\ q \in DOMAIN db.runs
        BY <1>1, <1>15, <3>2 DEF Supported
      <4>2. db'.runs[q] = db.runs[q] /\ owes'[q] = owes[q]
        BY <1>18, <1>19, <3>2, <4>1
      <4>3. q \in DOMAIN db'.raws => q \in DOMAIN db.raws /\ db'.raws[q] = db.raws[q]
        BY <1>19, <3>2
      <4>4. QED
        BY <1>1, <4>1, <4>2, <4>3 DEF Supported
    <3>3. QED
      BY <3>1, <3>2
  <2>3. QED
    BY <2>1, <2>2 DEF Supported
<1>21. Recording(db)'
  <2>1. ASSUME NEW q \in Run
        PROVE  /\ recorder'[q] = "none" => q \notin DOMAIN db'.runs
               /\ recorder'[q] \in {"open", "stored"} =>
                    q \in DOMAIN db'.runs /\ (q \in Cited(db)' => "I7 late" \in owes'[q])
               /\ recorder'[q] = "logged" /\ q \in DOMAIN db'.runs => db'.runs[q].logged
    <3>1. CASE q = r
      BY <1>3, <1>17, <1>18, <1>19, <3>1
    <3>2. CASE q # r
      BY <1>3, <1>15, <1>17, <1>18, <1>19, <3>2
    <3>3. QED
      BY <3>1, <3>2
  <2>2. QED
    BY <1>3, <1>17, <1>18, <2>1 DEF Recording
<1>22. QED
  BY <1>7, <1>10, <1>13, <1>14, <1>16, <1>20, <1>21 DEF InOrder, Joined

\* Whatever the program writes, the database stays in order.
LEMMA WritersKeep ==
  ASSUME InOrder, Writing
  PROVE  InOrder'
BY AddMemberKeeps, MemberDataKeeps, RunsComeAndGo, DecideKeeps DEF Writing

\* What a hand has done to a database that was in order is found, of each kind
\* of edit under its codes.
LEMMA TamperFound ==
  ASSUME InOrder, NEW kind \in Faults, db' \in Tampered(kind) \ {db}
  PROVE  Violations(db') \cap CodesOf[kind] # {}
<1>1. kind \in {"members", "managers", "rows", "snapshot", "action", "pointer", "run", "evidence"}
  BY DEF Faults, CodesOf
<1>2. /\ CodesOf["members"] = {"I1"} /\ CodesOf["managers"] = {"I3"}
      /\ CodesOf["rows"] = {"I2", "I8"} /\ CodesOf["snapshot"] = {"I4", "I4 ref"}
      /\ CodesOf["action"] = {"I5", "I5 ref"} /\ CodesOf["pointer"] = {"I4 ref", "I5 ref"}
      /\ CodesOf["run"] = {"I7 ref"} /\ CodesOf["evidence"] = {"I7 late"}
  BY DEF CodesOf
<1>3. Formed /\ IsDatabase /\ Sound(db) /\ Joined(db) /\ Complete(db)
  BY DEF InOrder, Formed
<1>4. CASE kind = "members"
  BY <1>2, <1>3, <1>4, MembersFound
<1>5. CASE kind = "managers"
  BY <1>2, <1>3, <1>5, ManagersFound
<1>6. CASE kind = "rows"
  BY <1>2, <1>3, <1>6, RowsFound DEF Formed
<1>7. CASE kind = "snapshot"
  BY <1>2, <1>3, <1>7, SnapshotFound DEF Formed
<1>8. CASE kind = "action"
  BY <1>2, <1>3, <1>8, ActionFound
<1>9. CASE kind = "pointer"
  BY <1>2, <1>3, <1>9, PointerFound
<1>10. CASE kind = "run"
  <2>1. \A r \in DOMAIN db.runs : "kept" \in DOMAIN db.runs[r]
    BY <1>3 DEF Formed
  <2>2. Sources(db) \subseteq DOMAIN db.runs
    BY <1>3 DEF Joined, Supported, Sources, Cited
  <2>3. QED
    BY <1>2, <1>3, <1>10, <2>1, <2>2, RunFound
<1>11. CASE kind = "evidence"
  BY <1>2, <1>3, <1>11, EvidenceFound
<1>12. QED
  BY <1>1, <1>4, <1>5, <1>6, <1>7, <1>8, <1>9, <1>10, <1>11

\* An edit replaces one collection.
LEMMA EditsOneCollection ==
  ASSUME HasCollections, NEW kind \in Faults, db' \in Tampered(kind)
  PROVE  HasCollections'
<1>1. kind \in {"members", "managers", "rows", "snapshot", "action", "pointer", "run", "evidence"}
  BY DEF Faults, CodesOf
<1>2. \E name \in Collections : \E new : db' = [db EXCEPT ![name] = new]
  <2>1. CASE kind = "members"
    <3>1. db' = [db EXCEPT !.group.members = db.group.members \o db.group.members]
      BY <2>1 DEF Tampered
    <3>2. db' = [db EXCEPT !["group"] = [db.group EXCEPT !.members = db.group.members \o db.group.members]]
      BY <3>1
    <3>3. QED
      BY <3>2 DEF Collections
  <2>2. CASE kind = "managers"
    BY <2>2 DEF Tampered, Collections
  <2>3. CASE kind = "rows"
    <3>1. PICK w \in db.rows : \E new \in {[w EXCEPT !.id = 1], [w EXCEPT !.picks = 1]} :
            db' = [db EXCEPT !.rows = Edits(db.rows, w, {new})]
      BY <2>3 DEF Tampered
    <3>2. \E rows : db' = [db EXCEPT !.rows = rows]
      BY <3>1
    <3>3. QED
      BY <3>2 DEF Collections
  <2>4. CASE kind = "snapshot"
    <3>1. PICK i \in DOMAIN db.snapshots : db' \in
            {[db EXCEPT !.snapshots = With(db.snapshots, i, [db.snapshots[i] EXCEPT !.content = 1])],
             [db EXCEPT !.snapshots = With(db.snapshots, i, [db.snapshots[i] EXCEPT !.content = 1, !.hash = 1])],
             [db EXCEPT !.snapshots = Without(db.snapshots, i)]}
      BY <2>4 DEF Tampered
    <3>2. \E snapshots : db' = [db EXCEPT !.snapshots = snapshots]
      BY <3>1
    <3>3. QED
      BY <3>2 DEF Collections
  <2>5. CASE kind = "action"
    <3>1. PICK a \in db.actions : \E new \in {{}, {[a EXCEPT !.content = 1]},
              {[[a EXCEPT !.content = 1] EXCEPT !.hash = ActionHash([a EXCEPT !.content = 1])]}} :
            db' = [db EXCEPT !.actions = Edits(db.actions, a, new)]
      BY <2>5 DEF Tampered
    <3>2. \E acts : db' = [db EXCEPT !.actions = acts]
      BY <3>1
    <3>3. QED
      BY <3>2 DEF Collections
  <2>6. CASE kind = "pointer"
    <3>1. \/ db' = [db EXCEPT !.pointer = NoPointer]
          \/ \E i \in DOMAIN db.snapshots : db' = [db EXCEPT !.pointer = [db.pointer EXCEPT !.snapshot = i]]
      BY <2>6 DEF Tampered
    <3>2. \E pointer : db' = [db EXCEPT !.pointer = pointer]
      BY <3>1
    <3>3. QED
      BY <3>2 DEF Collections
  <2>7. CASE kind = "run"
    <3>1. \E runs : db' = [db EXCEPT !.runs = runs]
      BY <2>7 DEF Tampered
    <3>2. QED
      BY <3>1 DEF Collections
  <2>8. CASE kind = "evidence"
    <3>1. \E raws : db' = [db EXCEPT !.raws = raws]
      BY <2>8 DEF Tampered
    <3>2. QED
      BY <3>1 DEF Collections
  <2>9. QED
    BY <1>1, <2>1, <2>2, <2>3, <2>4, <2>5, <2>6, <2>7, <2>8
<1>3. QED
  BY <1>2 DEF HasCollections

\* Evidence that is gone leaves nothing false, as if it had expired.
LEMMA GoneIsSound ==
  ASSUME InOrder, db' \in Tampered("gone") \ {db}, owes' = owes
  PROVE  IsDatabase' /\ Sound(db)' /\ Joined(db)'
<1>1. PICK r \in DOMAIN db.raws : db' = [db EXCEPT !.raws = Without(db.raws, r)]
  BY DEF Tampered
<1>2. /\ db'.group = db.group /\ db'.rows = db.rows /\ db'.managers = db.managers
      /\ db'.snapshots = db.snapshots /\ db'.actions = db.actions
      /\ db'.pointer = db.pointer /\ db'.runs = db.runs
      /\ db'.raws = Without(db.raws, r)
      /\ db' = [name \in Collections |-> db'[name]]
  BY <1>1 DEF InOrder, Formed, IsDatabase, HasCollections, Collections
<1>3. Sound(db)' /\ Rooted(db)' /\ Headed(db)' /\ Cited(db)' = Cited(db)
  BY <1>2, MembersFrame DEF InOrder, Joined, Headed, PointsAt
<1>4. \A q \in DOMAIN db'.raws : q \in DOMAIN db.raws /\ db'.raws[q] = db.raws[q]
  BY <1>2 DEF Without, Restrict
<1>5. Supported(db)'
  BY <1>2, <1>3, <1>4 DEF InOrder, Joined, Supported
<1>6. IsDatabase'
  BY <1>2 DEF InOrder, Formed, IsDatabase, HasCollections
<1>7. QED
  BY <1>3, <1>5, <1>6 DEF Joined

\* What is read while others write is each collection as it was at some moment.
LEMMA WritersKeepRead ==
  ASSUME InOrder, Sound(Read), Writing, scan.pc = "reading", Scanning
  PROVE  Sound(Read)'
<1>1. Sound(db)' /\ IsDatabase /\ IsDatabase'
  BY WritersKeep DEF InOrder, Formed
<1>2. scan'.got = scan.got
  BY DEF Writing, AddMember, SetMe, WriteRow, StartRun, Store, Log, Expire, Decide, Written, Scanning
<1>3. DOMAIN db = Collections /\ DOMAIN db' = Collections
  BY <1>1 DEF IsDatabase, HasCollections
<1>4. \A name \in Collections : Read'[name] = Read[name] \/ Read'[name] = db'[name]
  BY <1>2, <1>3 DEF Read
<1>5. /\ Read'.group \in {Read.group, db'.group} /\ Read'.rows \in {Read.rows, db'.rows}
      /\ Read'.snapshots \in {Read.snapshots, db'.snapshots}
      /\ Read'.actions \in {Read.actions, db'.actions}
  BY <1>4 DEF Collections
<1>6. QED
  BY <1>1, <1>5 DEF Sound

\* A write leaves the scan in order; if the scan is reading, it is raced.
LEMMA WritingKeepsIInv ==
  ASSUME Null \notin Faults \cup Unseen
  PROVE  IInv /\ Writing => IInv'
<1> SUFFICES ASSUME IInv, Writing
             PROVE  IInv'
  OBVIOUS
<1>1. /\ fault = Null /\ fault' = Null /\ scan.pc # "done"
      /\ scan' = [scan EXCEPT !.raced = (scan.pc = "reading")]
  BY DEF Writing, AddMember, SetMe, WriteRow, StartRun, Store, Log, Expire, Decide, Written, Working
<1>2. InOrder /\ Scanning
  BY <1>1 DEF IInv, Honest
<1>3. InOrder'
  BY <1>2, WritersKeep
<1>4. Honest'
  BY <1>1, <1>3 DEF Honest, InOrder, Formed, IsDatabase
<1>5. /\ scan'.pc = scan.pc /\ scan'.got = scan.got /\ scan'.found = scan.found
      /\ scan'.raced = (scan.pc = "reading")
      /\ scan' = [pc |-> scan'.pc, got |-> scan'.got, raced |-> scan'.raced, found |-> scan'.found]
  BY <1>1, <1>2 DEF Scanning
<1>6. scan.pc = "reading" => Sound(Read)'
  BY <1>1, <1>2, WritersKeepRead DEF Scanning
<1>7. /\ scan'.raced \in BOOLEAN
      /\ (scan.pc = "reading" => scan'.raced) /\ (scan.pc = "idle" => ~scan'.raced)
  BY <1>5
<1>8. Scanning'
  BY <1>1, <1>2, <1>5, <1>6, <1>7 DEF Scanning
<1>9. ScanIsExact'
  BY <1>1, <1>5 DEF ScanIsExact
<1>10. QED
  BY <1>4, <1>8, <1>9 DEF IInv

\* What is said of the database holds as long as nobody writes to it.
LEMMA HonestFrame ==
  ASSUME Honest, db' = db, fault' = fault, owes' = owes, recorder' = recorder
  PROVE  Honest'
<1>1. HasCollections'
  BY DEF Honest, HasCollections
<1>2. Sound(db) /\ Joined(db) => Sound(db)' /\ Joined(db)'
  <2> SUFFICES ASSUME Sound(db), Joined(db)
               PROVE  Sound(db)' /\ Joined(db)'
    OBVIOUS
  <2>1. Sound(db)' /\ Rooted(db)' /\ Cited(db)' = Cited(db)
    BY MembersFrame
  <2>2. Headed(db)'
    BY DEF Joined, Headed, PointsAt
  <2>3. Supported(db)'
    BY <2>1 DEF Joined, Supported
  <2>4. QED
    BY <2>1, <2>2, <2>3 DEF Joined
<1>3. fault = Null => InOrder'
  <2> SUFFICES ASSUME InOrder
               PROVE  InOrder'
    BY DEF Honest
  <2>1. Formed'
    BY DEF InOrder, Formed, IsDatabase, HasCollections
  <2>2. Complete(db)' /\ Recording(db)'
    BY DecisionsFrame DEF InOrder
  <2>3. QED
    BY <1>2, <2>1, <2>2 DEF InOrder
<1>4. fault \in Faults => Violations(db') \cap CodesOf[fault] # {}
  BY DEF Honest
<1>5. QED
  BY <1>1, <1>2, <1>3, <1>4 DEF Honest

\* A recorder that loses an entry leaves the database and the scan as they are.
LEMMA LoseKeepsIInv ==
  ASSUME IInv, NEW r \in Run, Lose(r)
  PROVE  IInv'
<1>1. /\ fault = Null /\ recorder[r] \in {"open", "stored"}
      /\ recorder' = [recorder EXCEPT ![r] = "lost"]
      /\ db' = db /\ owes' = owes /\ fault' = fault /\ scan' = scan
  BY DEF Lose, Working
<1>2. InOrder /\ Honest /\ Scanning /\ ScanIsExact
  BY <1>1 DEF IInv, Honest
<1>3. Sound(db)' /\ Rooted(db)' /\ Cited(db)' = Cited(db)
  BY <1>1, <1>2, MembersFrame DEF InOrder
<1>4. Formed' /\ Headed(db)' /\ Complete(db)'
  BY <1>1, <1>2 DEF InOrder, Formed, IsDatabase, HasCollections, Joined, Headed, PointsAt, Complete
<1>5. Supported(db)'
  BY <1>1, <1>2, <1>3 DEF InOrder, Joined, Supported
<1>6. Recording(db)'
  BY <1>1, <1>2, <1>3 DEF InOrder, Recording
<1>7. InOrder'
  BY <1>3, <1>4, <1>5, <1>6 DEF InOrder, Joined
<1>8. Honest'
  BY <1>1, <1>2, <1>7 DEF Honest, InOrder, Formed, IsDatabase
<1>9. Read' = Read
  BY <1>1 DEF Read
<1>10. Scanning'
  BY <1>1, <1>2, <1>9 DEF Scanning, Sound
<1>11. ScanIsExact'
  BY <1>1, <1>2 DEF ScanIsExact, Owed
<1>12. QED
  BY <1>8, <1>10, <1>11 DEF IInv

\* A scan starts with what is there.
LEMMA ScanStartKeepsIInv ==
  ASSUME IInv, NEW first, ScanStart(first)
  PROVE  IInv'
<1>1. /\ db' = db /\ fault' = fault /\ scan.pc = "idle" /\ owes' = owes /\ recorder' = recorder
      /\ scan' = [scan EXCEPT !.pc = "reading", !.got = Restrict(db, first)]
  BY DEF ScanStart
<1>2. Honest /\ Scanning
  BY DEF IInv
<1>3. /\ scan'.pc = "reading" /\ scan'.got = Restrict(db, first) /\ scan'.found = scan.found
      /\ scan'.raced = scan.raced /\ ~scan.raced /\ scan.raced \in BOOLEAN
      /\ scan' = [pc |-> scan'.pc, got |-> scan'.got, raced |-> scan'.raced, found |-> scan'.found]
  BY <1>1, <1>2 DEF Scanning
<1>4. Honest'
  BY <1>1, <1>2, HonestFrame
<1>5. Read' = db
  BY <1>1, <1>2, <1>3 DEF Read, Restrict, Honest, HasCollections
<1>6. fault = Null => Sound(Read)'
  <2>1. fault = Null => Sound(db)
    BY <1>2 DEF Honest, InOrder
  <2>2. QED
    BY <1>5, <2>1 DEF Sound
<1>7. Scanning'
  BY <1>1, <1>3, <1>5, <1>6 DEF Scanning
<1>8. ScanIsExact'
  BY <1>3 DEF ScanIsExact
<1>9. QED
  BY <1>4, <1>7, <1>8 DEF IInv

\* A scan ends with what is found in all that was read.
LEMMA ScanEndKeepsIInv == IInv /\ ScanEnd => IInv'
<1> SUFFICES ASSUME IInv, ScanEnd
             PROVE  IInv'
  OBVIOUS
<1>1. /\ db' = db /\ fault' = fault /\ scan.pc = "reading" /\ owes' = owes /\ recorder' = recorder
      /\ scan' = [scan EXCEPT !.pc = "done", !.got = NoDocuments, !.found = Violations(Read)]
  BY DEF ScanEnd
<1>2. Honest /\ Scanning
  BY DEF IInv
<1>3. /\ scan'.pc = "done" /\ scan'.got = NoDocuments /\ scan'.found = Violations(Read)
      /\ scan'.raced = scan.raced /\ scan.raced \in BOOLEAN
      /\ scan' = [pc |-> scan'.pc, got |-> scan'.got, raced |-> scan'.raced, found |-> scan'.found]
  BY <1>1, <1>2 DEF Scanning
<1>4. Honest'
  BY <1>1, <1>2, HonestFrame
<1>5. Scanning'
  BY <1>3 DEF Scanning
<1>6. fault = Null => Violations(Read) \subseteq Moving
  BY <1>1, <1>2, NothingIsFalse DEF Scanning
<1>7. /\ ~scan.raced => Read = db
      /\ fault \notin Faults => Violations(db) \subseteq Owed
      /\ fault \in Faults => Violations(db) \cap CodesOf[fault] # {}
  BY <1>1, <1>2, NothingIsWrong DEF Scanning, Honest, InOrder
<1>8. Owed' = Owed
  BY <1>1 DEF Owed
<1>9. ScanIsExact'
  BY <1>1, <1>3, <1>6, <1>7, <1>8 DEF ScanIsExact
<1>10. QED
  BY <1>4, <1>5, <1>9 DEF IInv

\* An edit by hand is made before the scan; it is found, or leaves nothing false.
LEMMA TamperKeepsIInv ==
  ASSUME Null \notin Faults \cup Unseen, IInv, NEW kind \in Faults \cup Unseen, Tamper(kind)
  PROVE  IInv'
<1>1. /\ fault = Null /\ scan.pc = "idle" /\ db' \in Tampered(kind) \ {db}
      /\ fault' = kind /\ scan' = scan /\ owes' = owes /\ recorder' = recorder
  BY DEF Tamper
<1>2. InOrder /\ Scanning /\ HasCollections
  BY <1>1 DEF IInv, Honest
<1>3. CASE kind \in Unseen
  <2>1. IsDatabase' /\ Sound(db)' /\ Joined(db)'
    <3>1. CASE kind = "gone"
      BY <1>1, <1>2, <3>1, GoneIsSound
    <3>2. CASE kind = "undone"
      BY <1>1, <1>2, <3>2, UndoneIsSound DEF InOrder, Formed
    <3>3. QED
      BY <1>3, <3>1, <3>2 DEF Unseen
  <2>2. kind \notin Faults
    BY <1>3 DEF Unseen, Faults, CodesOf
  <2>3. Honest'
    BY <1>1, <1>3, <2>1, <2>2 DEF Honest, IsDatabase
  <2>4. Scanning' /\ ScanIsExact'
    BY <1>1, <1>2 DEF Scanning, ScanIsExact
  <2>5. QED
    BY <2>3, <2>4 DEF IInv
<1>4. CASE kind \in Faults
  <2>1. HasCollections'
    BY <1>1, <1>2, <1>4, EditsOneCollection
  <2>2. Violations(db') \cap CodesOf[kind] # {}
    BY <1>1, <1>2, <1>4, TamperFound
  <2>3. kind \notin Unseen
    BY <1>4 DEF Unseen, Faults, CodesOf
  <2>4. Honest'
    BY <1>1, <1>4, <2>1, <2>2, <2>3 DEF Honest
  <2>5. Scanning' /\ ScanIsExact'
    BY <1>1, <1>2 DEF Scanning, ScanIsExact
  <2>6. QED
    BY <2>4, <2>5 DEF IInv
<1>5. QED
  BY <1>3, <1>4

\* The invariant holds in every state of every behaviour.
LEMMA Invariant ==
  ASSUME Past \in Run, Null \notin Faults \cup Unseen
  PROVE  Spec => []IInv
<1>1. Init => IInv
  BY InitIInv
<1>2. IInv /\ [Next]_checkVars => IInv'
  <2>1. Next => \/ Writing \/ (\E r \in Run : Lose(r)) \/ (\E first \in Early : ScanStart(first))
                \/ ScanEnd \/ (\E kind \in Faults \cup Unseen : Tamper(kind))
    BY DEF Next, Writing
  <2>2. IInv /\ UNCHANGED checkVars => IInv'
    <3> SUFFICES ASSUME IInv, UNCHANGED checkVars
                 PROVE  IInv'
      OBVIOUS
    <3>1. /\ db' = db /\ fault' = fault /\ scan' = scan /\ owes' = owes /\ recorder' = recorder
      BY DEF checkVars
    <3>2. Honest'
      BY <3>1, HonestFrame DEF IInv
    <3>3. Read' = Read
      BY <3>1 DEF Read
    <3>4. Scanning'
      BY <3>1, <3>3 DEF IInv, Scanning, Sound
    <3>5. ScanIsExact'
      BY <3>1 DEF IInv, ScanIsExact, Owed
    <3>6. QED
      BY <3>2, <3>4, <3>5 DEF IInv
  <2>3. QED
    BY <2>1, <2>2, WritingKeepsIInv, LoseKeepsIInv, ScanStartKeepsIInv, ScanEndKeepsIInv,
       TamperKeepsIInv
<1>3. QED
  BY <1>1, <1>2, PTL DEF Spec

\* Of a database that only the program wrote to, db:check reports nothing but what
\* a decision left open that cites a run whose recorder had not finished; of one
\* edited in one of the ways of Faults it reports a code of that way; and what it
\* reports while others write are references and marks only (runDbCheck).
THEOREM ScanStaysExact ==
  ASSUME Past \in Run, Null \notin Faults \cup Unseen
  PROVE  Spec => []ScanIsExact
<1>1. IInv => ScanIsExact
  BY DEF IInv
<1>2. QED
  BY Invariant, <1>1, PTL

-----------------------------------------------------------------------------
(* Migrations.                                                             *)

\* The texts of the migrations are there, and there is at least one.
Releases ==
  /\ Count \in Nat \ {0}
  /\ \A p \in Process, m \in Mig!Migration : Release[p][m] # Null

Proc == [pc : {"down", "read", "apply", "record", "up"}, at : Mig!Migration]

\* The types the argument needs: maps over the migrations, of any text.
MigrationsTyped ==
  /\ DOMAIN schema = Mig!Migration /\ schema = [m \in Mig!Migration |-> schema[m]]
  /\ DOMAIN record = Mig!Migration /\ record = [m \in Mig!Migration |-> record[m]]
  /\ proc \in [Process -> Proc]

\* Whatever the other processes do, what a process has passed is recorded, and
\* what it is about to record is in effect.
PassedIsRecorded ==
  \A p \in Process :
    /\ proc[p].pc # "down" => \A n \in Mig!Migration : n < proc[p].at => record[n] # Null
    /\ proc[p].pc = "up" => proc[p].at = Count /\ record[Count] # Null
    /\ proc[p].pc = "record" => schema[proc[p].at] # Null

\* Nothing is recorded that is not in effect, and the order is kept.
AppliedInOrder ==
  \A m \in Mig!Migration :
    /\ record[m] # Null => schema[m] # Null
    /\ schema[m] # Null => \A n \in Mig!Migration : n < m => record[n] # Null

\* The inductive invariant.
MigrationsIInv == MigrationsTyped /\ PassedIsRecorded /\ AppliedInOrder
-----------------------------------------------------------------------------
\* Before the first boot nothing is applied, and nothing recorded.
LEMMA InitMigrations == ASSUME Releases PROVE Mig!Init => MigrationsIInv
<1> SUFFICES ASSUME Mig!Init PROVE MigrationsIInv
  OBVIOUS
<1>1. 1 \in Mig!Migration
  BY DEF Releases, Mig!Migration
<1>2. MigrationsTyped
  BY <1>1 DEF Mig!Init, MigrationsTyped, Mig!Down, Proc
<1>3. PassedIsRecorded /\ AppliedInOrder
  BY DEF Mig!Init, PassedIsRecorded, AppliedInOrder, Mig!Down
<1> QED BY <1>2, <1>3 DEF MigrationsIInv

\* What is there stays there: no step takes a migration or a record back.
LEMMA NothingTakenBack ==
  ASSUME Releases, MigrationsIInv, MigrationsTyped',
         NEW p \in Process, \A q \in Process \ {p} : proc'[q] = proc[q],
         \A m \in Mig!Migration : record[m] # Null => record'[m] # Null,
         \A m \in Mig!Migration : schema[m] # Null => schema'[m] # Null,
         proc'[p].pc # "down" => \A n \in Mig!Migration : n < proc'[p].at => record'[n] # Null,
         proc'[p].pc = "up" => proc'[p].at = Count /\ record'[Count] # Null,
         proc'[p].pc = "record" => schema'[proc'[p].at] # Null,
         AppliedInOrder'
  PROVE  MigrationsIInv'
<1>1. \A q \in Process : proc[q].at \in Mig!Migration
  BY DEF MigrationsIInv, MigrationsTyped, Proc
<1>2. Count \in Mig!Migration
  BY DEF Releases, Mig!Migration
<1> QED BY <1>1, <1>2 DEF MigrationsIInv, PassedIsRecorded

\* The process goes on to the next migration or starts (runMigrations' loop).
LEMMA AdvanceIInv ==
  ASSUME Releases, MigrationsIInv, NEW p \in Process, Mig!Advance(p),
         proc[p].pc \in {"read", "record"},
         DOMAIN record' = Mig!Migration, record' = [m \in Mig!Migration |-> record'[m]],
         UNCHANGED schema,
         \A m \in Mig!Migration : record[m] # Null => record'[m] # Null,
         record'[proc[p].at] # Null, AppliedInOrder'
  PROVE  MigrationsIInv'
<1>1. /\ proc[p] \in Proc /\ proc[p].at \in Mig!Migration /\ Count \in Nat \ {0}
      /\ \A m \in Mig!Migration : m \in Nat /\ m >= 1 /\ m <= Count
  BY DEF MigrationsIInv, MigrationsTyped, Proc, Releases, Mig!Migration
<1>2. \A n \in Mig!Migration : n <= proc[p].at => record'[n] # Null
  BY <1>1 DEF MigrationsIInv, PassedIsRecorded
<1>3. \A q \in Process \ {p} : proc'[q] = proc[q]
  BY DEF Mig!Advance, MigrationsIInv, MigrationsTyped
<1>4. CASE proc[p].at < Count
  <2>1. /\ proc' = [proc EXCEPT ![p] = [pc |-> "read", at |-> proc[p].at + 1]]
        /\ proc[p].at + 1 \in Mig!Migration
    BY <1>1, <1>4 DEF Mig!Advance, Mig!Migration
  <2>2. /\ proc'[p].pc = "read" /\ proc'[p].at = proc[p].at + 1 /\ MigrationsTyped'
    BY <2>1 DEF MigrationsIInv, MigrationsTyped, Proc
  <2>3. \A n \in Mig!Migration : n < proc'[p].at => record'[n] # Null
    BY <1>1, <1>2, <2>2
  <2> QED BY <1>3, <2>2, <2>3, NothingTakenBack
<1>5. CASE ~(proc[p].at < Count)
  <2>1. /\ proc' = [proc EXCEPT ![p].pc = "up"] /\ proc[p].at = Count
    BY <1>1, <1>5 DEF Mig!Advance
  <2>2. /\ proc'[p].pc = "up" /\ proc'[p].at = Count /\ MigrationsTyped'
    BY <2>1 DEF MigrationsIInv, MigrationsTyped, Proc
  <2>3. \A n \in Mig!Migration : n < proc'[p].at => record'[n] # Null
    BY <1>1, <1>2, <2>1, <2>2
  <2>4. record'[Count] # Null
    BY <2>1
  <2> QED BY <1>3, <2>2, <2>3, <2>4, NothingTakenBack
<1> QED BY <1>4, <1>5

\* Every step of a server keeps what it has passed recorded.
LEMMA NextMigrations ==
  ASSUME Releases PROVE MigrationsIInv /\ [Mig!Next]_(Mig!migVars) => MigrationsIInv'
<1> SUFFICES ASSUME MigrationsIInv, [Mig!Next]_(Mig!migVars) PROVE MigrationsIInv'
  OBVIOUS
<1>0. /\ \A p \in Process : proc[p] \in Proc /\ proc[p].at \in Mig!Migration
      /\ \A m \in Mig!Migration : m \in Nat /\ m >= 1 /\ m <= Count
      /\ 1 \in Mig!Migration
  BY DEF MigrationsIInv, MigrationsTyped, Proc, Releases, Mig!Migration
<1>1. CASE UNCHANGED Mig!migVars
  BY <1>1 DEF Mig!migVars, MigrationsIInv, MigrationsTyped, PassedIsRecorded, AppliedInOrder
<1>2. CASE Mig!Expire
  BY <1>2 DEF Mig!Expire, MigrationsIInv, MigrationsTyped, PassedIsRecorded, AppliedInOrder
<1>3. ASSUME NEW p \in Process, Mig!Boot(p) PROVE MigrationsIInv'
  <2>1. /\ MigrationsTyped' /\ UNCHANGED <<schema, record>>
        /\ proc'[p].pc = "read" /\ proc'[p].at = 1
        /\ \A q \in Process \ {p} : proc'[q] = proc[q]
    BY <1>3, <1>0 DEF Mig!Boot, MigrationsIInv, MigrationsTyped, Proc
  <2>2. AppliedInOrder'
    BY <2>1 DEF MigrationsIInv, AppliedInOrder
  <2> QED BY <1>0, <2>1, <2>2, NothingTakenBack
<1>4. ASSUME NEW p \in Process, Mig!Crash(p) PROVE MigrationsIInv'
  BY <1>4, <1>0 DEF Mig!Crash, Mig!Down, Proc,
                    MigrationsIInv, MigrationsTyped, PassedIsRecorded, AppliedInOrder
<1>5. ASSUME NEW p \in Process, Mig!Read(p) PROVE MigrationsIInv'
  <2>1. UNCHANGED <<schema, record>> /\ proc[p].pc = "read"
    BY <1>5 DEF Mig!Read
  <2>2. AppliedInOrder' /\ DOMAIN record' = Mig!Migration /\ record' = [m \in Mig!Migration |-> record'[m]]
    BY <2>1 DEF MigrationsIInv, AppliedInOrder, MigrationsTyped
  <2>3. CASE record[proc[p].at] = Null
    <3>1. proc' = [proc EXCEPT ![p].pc = "apply"]
      <4>1. Mig!Text(p) # Null
        BY <1>0 DEF Mig!Text, Releases
      <4> QED BY <1>5, <2>3, <4>1 DEF Mig!Read
    <3>2. /\ MigrationsTyped' /\ proc'[p].pc = "apply" /\ proc'[p].at = proc[p].at
          /\ \A q \in Process \ {p} : proc'[q] = proc[q]
      BY <3>1, <2>1 DEF MigrationsIInv, MigrationsTyped, Proc
    <3>3. \A n \in Mig!Migration : n < proc[p].at => record'[n] # Null
      BY <2>1 DEF MigrationsIInv, PassedIsRecorded
    <3> QED BY <2>1, <2>2, <3>2, <3>3, NothingTakenBack
  <2>4. CASE record[proc[p].at] # Null /\ record[proc[p].at] = Mig!Text(p)
    <3>1. Mig!Advance(p)
      BY <1>5, <2>4 DEF Mig!Read
    <3> QED BY <2>1, <2>2, <2>4, <3>1, AdvanceIInv
  <2>5. CASE record[proc[p].at] # Null /\ record[proc[p].at] # Mig!Text(p)
    <3>1. proc' = [proc EXCEPT ![p] = Mig!Down]
      BY <1>5, <2>5 DEF Mig!Read
    <3>2. /\ MigrationsTyped' /\ proc'[p].pc = "down"
          /\ \A q \in Process \ {p} : proc'[q] = proc[q]
      BY <3>1, <2>1, <1>0 DEF Mig!Down, Proc, MigrationsIInv, MigrationsTyped
    <3> QED BY <2>1, <2>2, <3>2, NothingTakenBack
  <2> QED BY <2>3, <2>4, <2>5
<1>6. ASSUME NEW p \in Process, Mig!Apply(p) PROVE MigrationsIInv'
  <2>1. /\ schema' = [schema EXCEPT ![proc[p].at] = Mig!Text(p)] /\ Mig!Text(p) # Null
        /\ proc' = [proc EXCEPT ![p].pc = "record"] /\ UNCHANGED record
        /\ proc[p].pc = "apply"
    BY <1>6, <1>0 DEF Mig!Apply, Mig!Text, Releases
  <2>2. /\ MigrationsTyped' /\ proc'[p].pc = "record" /\ proc'[p].at = proc[p].at
        /\ \A q \in Process \ {p} : proc'[q] = proc[q]
    BY <2>1, <1>0 DEF MigrationsIInv, MigrationsTyped, Proc
  <2>3. /\ schema'[proc[p].at] # Null
        /\ \A m \in Mig!Migration \ {proc[p].at} : schema'[m] = schema[m]
    BY <2>1, <1>0 DEF MigrationsIInv, MigrationsTyped
  <2>4. \A n \in Mig!Migration : n < proc[p].at => record'[n] # Null
    BY <2>1 DEF MigrationsIInv, PassedIsRecorded
  <2>5. AppliedInOrder'
    BY <2>1, <2>3, <2>4, <1>0 DEF MigrationsIInv, AppliedInOrder
  <2> QED BY <2>1, <2>2, <2>3, <2>4, <2>5, <1>0, NothingTakenBack
<1>7. ASSUME NEW p \in Process, Mig!Record(p) PROVE MigrationsIInv'
  <2> DEFINE at == proc[p].at
  <2>1. /\ record' = [record EXCEPT ![at] = IF record[at] = Null THEN Mig!Text(p) ELSE record[at]]
        /\ Mig!Text(p) # Null /\ Mig!Advance(p) /\ UNCHANGED schema /\ proc[p].pc = "record"
    BY <1>7, <1>0 DEF Mig!Record, Mig!Text, Releases
  <2>2. /\ DOMAIN record' = Mig!Migration /\ record' = [m \in Mig!Migration |-> record'[m]]
        /\ record'[at] # Null /\ \A m \in Mig!Migration \ {at} : record'[m] = record[m]
    BY <2>1, <1>0 DEF MigrationsIInv, MigrationsTyped
  <2>3. schema[at] # Null
    BY <2>1 DEF MigrationsIInv, PassedIsRecorded
  <2>4. AppliedInOrder'
    BY <2>1, <2>2, <2>3, <1>0 DEF MigrationsIInv, AppliedInOrder
  <2> QED BY <2>1, <2>2, <2>4, AdvanceIInv
<1> QED BY <1>1, <1>2, <1>3, <1>4, <1>5, <1>6, <1>7 DEF Mig!Next

\* The promise of runMigrationsLocked to server.js.
THEOREM AlwaysMigrated ==
  ASSUME Releases PROVE Mig!Spec => []Mig!StartedIsMigrated
<1>1. Mig!Init => MigrationsIInv
  BY InitMigrations
<1>2. MigrationsIInv /\ [Mig!Next]_(Mig!migVars) => MigrationsIInv'
  BY NextMigrations
<1>3. MigrationsIInv => Mig!StartedIsMigrated
  <2> SUFFICES ASSUME MigrationsIInv PROVE Mig!StartedIsMigrated
    OBVIOUS
  <2>1. ASSUME NEW p \in Process, proc[p].pc = "up", NEW m \in Mig!Migration PROVE record[m] # Null
    <3>1. proc[p].at = Count /\ record[Count] # Null
      BY <2>1 DEF MigrationsIInv, PassedIsRecorded
    <3>2. m < Count \/ m = Count
      BY DEF Mig!Migration, Releases
    <3> QED BY <2>1, <3>1, <3>2 DEF MigrationsIInv, PassedIsRecorded
  <2> QED BY <2>1 DEF MigrationsIInv, AppliedInOrder, Mig!StartedIsMigrated
<1> QED BY <1>1, <1>2, <1>3, PTL DEF Mig!Spec
=============================================================================
