---------------------------- MODULE SyncDataProofs -----------------------------
(***************************************************************************)
(* Two promises about the data that syncs store, each for any number of    *)
(* syncs and with an argument of its own.  FreshData: no row and no final  *)
(* result is older than a cache lifetime when its run starts.  Snapshots   *)
(* (here Snap): no settled row changes without a warning, because a        *)
(* transaction commits only on the row it read.                            *)
(***************************************************************************)
EXTENDS FreshData, TLAPS

CONSTANTS Null, Run, Content
VARIABLES now, answer, flag, observed, doc, writer, overwrote

Snap == INSTANCE Snapshots

-----------------------------------------------------------------------------
(* FreshData.                                                              *)

CachedAnswer == [at : Int, fetched : Int, checked : BOOLEAN]
StoredRow == [fetchedAt : Int, start : Int]
SyncRun == [pc : {"idle", "bootstrap", "T1", "member", "T4"}, start : Nat, checked : BOOLEAN]

\* The types the argument needs.
TypeOK ==
  /\ clock \in Nat
  /\ fpl \in BOOLEAN
  /\ cache \in [bootstrap : CachedAnswer, history : CachedAnswer]
  /\ sync \in [Sync -> SyncRun]
  /\ row \in StoredRow
  /\ final \in StoredRow

\* A cached answer was fetched when it was cached, and not in the future.
CacheHonest ==
  /\ cache["bootstrap"].fetched = cache["bootstrap"].at /\ cache["bootstrap"].at <= clock
  /\ cache["history"].fetched = cache["history"].at /\ cache["history"].at <= clock

\* No run started in the future.
StartsPast == \A s \in Sync : sync[s].start <= clock

\* The inductive invariant.
IInv == TypeOK /\ CacheHonest /\ StartsPast /\ FinalAtMostTtlOld
-----------------------------------------------------------------------------
\* What is answered is of now or of at most Ttl ago (cache.js, getOrLoad).
LEMMA AnswerIsFresh ==
  ASSUME Ttl \in Nat \ {0}, IInv, NEW kind \in {"bootstrap", "history"}
  PROVE  /\ Answer(kind) \in CachedAnswer
         /\ Answer(kind).fetched = Answer(kind).at
         /\ Answer(kind).at <= clock
         /\ Answer(kind).fetched > clock - Ttl
<1>1. /\ cache[kind] \in CachedAnswer
      /\ cache[kind].fetched = cache[kind].at
      /\ cache[kind].at <= clock
  <2>1. CASE kind = "bootstrap"
    BY <2>1 DEF IInv, TypeOK, CacheHonest
  <2>2. CASE kind = "history"
    BY <2>2 DEF IInv, TypeOK, CacheHonest
  <2> QED BY <2>1, <2>2
<1>2. clock \in Nat /\ fpl \in BOOLEAN
  BY DEF IInv, TypeOK
<1> QED BY <1>1, <1>2 DEF Answer, CachedAnswer

\* Before the first sync nothing is cached, stored or final.
LEMMA InitIInv ==
  ASSUME Ttl \in Nat \ {0} PROVE Init => IInv
<1> SUFFICES ASSUME Init PROVE IInv
  OBVIOUS
<1> USE DEF Init
<1>1. TypeOK
  <2>1. NotCached \in CachedAnswer
    BY DEF NotCached, CachedAnswer
  <2>2. NotStarted \in SyncRun
    BY DEF NotStarted, SyncRun
  <2>3. NoRow \in StoredRow
    BY DEF NoRow, StoredRow
  <2> QED BY <2>1, <2>2, <2>3 DEF TypeOK
<1>2. CacheHonest
  BY DEF CacheHonest, NotCached
<1>3. StartsPast
  BY DEF StartsPast, NotStarted
<1>4. FinalAtMostTtlOld
  BY DEF FinalAtMostTtlOld
<1> QED BY <1>1, <1>2, <1>3, <1>4 DEF IInv

\* Every step keeps the data as fresh as the cache promises.
LEMMA NextIInv ==
  ASSUME Ttl \in Nat \ {0} PROVE IInv /\ [Next]_freshVars => IInv'
<1> SUFFICES ASSUME IInv, [Next]_freshVars PROVE IInv'
  OBVIOUS
<1> USE DEF SyncRun, IInv, TypeOK, CacheHonest, StartsPast, FinalAtMostTtlOld
<1>1. CASE Tick
  BY <1>1 DEF Tick, StoredRow, CachedAnswer
<1>2. CASE Mark
  BY <1>2 DEF Mark
<1>3. ASSUME NEW s \in Sync, StartSync(s) PROVE IInv'
  BY <1>3 DEF StartSync
<1>4. ASSUME NEW s \in Sync, ReadBootstrap(s) PROVE IInv'
  <2>1. cache' = [cache EXCEPT !["bootstrap"] = Answer("bootstrap")]
    BY <1>4 DEF ReadBootstrap
  <2>2. /\ Answer("bootstrap") \in CachedAnswer
        /\ Answer("bootstrap").fetched = Answer("bootstrap").at
        /\ Answer("bootstrap").at <= clock
    BY AnswerIsFresh
  <2>3. UNCHANGED <<clock, fpl, row, final>>
    BY <1>4 DEF ReadBootstrap
  <2>4. Answer("bootstrap").checked \in BOOLEAN
    BY <2>2 DEF CachedAnswer
  <2>5. sync' = [sync EXCEPT ![s].pc = "T1", ![s].checked = Answer("bootstrap").checked]
    BY <1>4 DEF ReadBootstrap
  <2>6. /\ sync' \in [Sync -> SyncRun]
        /\ \A u \in Sync : sync'[u].start = sync[u].start
    BY <2>4, <2>5
  <2> QED BY <2>1, <2>2, <2>3, <2>6
<1>5. ASSUME NEW s \in Sync, T1(s) PROVE IInv'
  BY <1>5 DEF T1
<1>6. ASSUME NEW s \in Sync, SyncMember(s) PROVE IInv'
  <2>1. cache' = [cache EXCEPT !["history"] = Answer("history")]
    BY <1>6 DEF SyncMember
  <2>2. /\ Answer("history") \in CachedAnswer
        /\ Answer("history").fetched = Answer("history").at
        /\ Answer("history").at <= clock
        /\ Answer("history").fetched > clock - Ttl
    BY AnswerIsFresh
  <2>3. UNCHANGED <<clock, fpl, final>>
    BY <1>6 DEF SyncMember
  <2>4. /\ sync' \in [Sync -> SyncRun]
        /\ \A u \in Sync : sync'[u].start = sync[u].start
    BY <1>6 DEF SyncMember
  <2>5. row' = [fetchedAt |-> Answer("history").fetched, start |-> sync[s].start]
    BY <1>6 DEF SyncMember
  <2>6. Answer("history").fetched \in Int
    BY <2>2 DEF CachedAnswer
  <2>7. row' \in StoredRow /\ row'.fetchedAt > row'.start - Ttl
    BY <2>2, <2>5, <2>6 DEF StoredRow
  <2> QED BY <2>1, <2>2, <2>3, <2>4, <2>7
<1>7. ASSUME NEW s \in Sync, Commit(s) PROVE IInv'
  BY <1>7 DEF Commit
<1>8. CASE UNCHANGED freshVars
  BY <1>8 DEF freshVars
<1> QED BY <1>1, <1>2, <1>3, <1>4, <1>5, <1>6, <1>7, <1>8 DEF Next

\* The promise of client.js's cache to a finalize, for any number of syncs
\* and whatever the lifetime of its entries.
THEOREM FinalDataRecent ==
  ASSUME Ttl \in Nat \ {0} PROVE Spec => []FinalAtMostTtlOld
<1>1. Init => IInv
  BY InitIInv
<1>2. IInv /\ [Next]_freshVars => IInv'
  BY NextIInv
<1>3. IInv => FinalAtMostTtlOld
  BY DEF IInv
<1> QED BY <1>1, <1>2, <1>3, PTL DEF Spec

-----------------------------------------------------------------------------
(* Snapshots.                                                              *)

Row == [content : Content \cup {Null}, changedBy : Run \cup {Null},
        confirmedBy : Run \cup {Null}, source : Content \cup {Null}, settled : BOOLEAN]
Writer == [pc : {"idle", "fetch", "write", "done"}, startedAt : Int, got : Content \cup {Null},
           before : Row, settled : BOOLEAN, warned : BOOLEAN]

\* The types the argument needs.
RowTypeOK ==
  /\ now \in Int
  /\ answer \in Content
  /\ doc \in Row
  /\ writer \in [Run -> Writer]
  /\ overwrote \subseteq Run

\* A run whose transaction has begun has fetched.
Fetched == \A r \in Run : writer[r].pc = "write" => writer[r].got # Null

\* Only a run that is done, and warned, has replaced a settled row.
OverwroteAreDone == \A r \in overwrote : writer[r].pc = "done" /\ writer[r].warned

\* The stored row names runs that have ended, and is what they had fetched.
RowIsTraced ==
  doc # Snap!NoRow =>
    /\ doc.changedBy \in Run /\ writer[doc.changedBy].pc = "done"
    /\ doc.confirmedBy \in Run /\ writer[doc.confirmedBy].pc = "done"
    /\ doc.content = writer[doc.changedBy].got
    /\ doc.source = doc.content /\ doc.source = writer[doc.confirmedBy].got

\* The inductive invariant.
RowIInv == RowTypeOK /\ Fetched /\ OverwroteAreDone /\ RowIsTraced
-----------------------------------------------------------------------------
\* Before the first write there is no row to trace.
LEMMA InitRow ==
  ASSUME Null \notin Content, Null \notin Run PROVE Snap!Init => RowIInv
<1> SUFFICES ASSUME Snap!Init PROVE RowIInv
  OBVIOUS
<1>1. Snap!NoRow \in Row
  BY DEF Snap!NoRow, Row
<1>2. Snap!Idle \in Writer
  BY <1>1 DEF Snap!Idle, Writer
<1>3. RowTypeOK
  BY <1>1, <1>2 DEF Snap!Init, RowTypeOK
<1>4. Fetched /\ OverwroteAreDone /\ RowIsTraced
  BY DEF Snap!Init, Fetched, OverwroteAreDone, RowIsTraced, Snap!Idle
<1> QED BY <1>3, <1>4 DEF RowIInv

\* A step that leaves the row, the warnings and every run that is done as they
\* are.
LEMMA RowRests ==
  ASSUME RowIInv, UNCHANGED <<doc, overwrote>>,
         \A u \in Run : writer[u].pc = "done" =>
           /\ writer'[u].pc = "done"
           /\ writer'[u].got = writer[u].got /\ writer'[u].warned = writer[u].warned
  PROVE  OverwroteAreDone' /\ RowIsTraced'
BY DEF RowIInv, RowTypeOK, OverwroteAreDone, RowIsTraced

\* A transaction that commits found the row as it had read it.
LEMMA CommitRow ==
  ASSUME Null \notin Content, Null \notin Run, RowIInv, NEW r \in Run, Snap!Commit(r)
  PROVE  RowIInv'
<1> DEFINE got == writer[r].got
<1>1. /\ writer[r] \in Writer /\ writer[r].pc = "write" /\ doc = writer[r].before
      /\ doc \in Row
  BY DEF Snap!Commit, Snap!Conflicts, RowIInv, RowTypeOK
<1>2. got \in Content
  BY <1>1 DEF RowIInv, Fetched, Writer
<1>3. /\ doc' = Snap!Upserted(r)
      /\ Snap!Upserted(r) = [content |-> got,
                        changedBy |-> IF doc.content # got THEN r ELSE doc.changedBy,
                        confirmedBy |-> r, source |-> got, settled |-> writer[r].settled]
  BY DEF Snap!Commit, Snap!Upserted
<1>4. doc' \in Row
  BY <1>1, <1>2, <1>3 DEF Row, Writer
<1>5. Snap!SettledRowChanged(r) \in BOOLEAN
      /\ Snap!SettledRowChanged(r) = (doc.settled /\ doc.content # got)
  BY <1>1 DEF Snap!SettledRowChanged, Row
<1>6. /\ writer'[r] = [writer[r] EXCEPT !.pc = "done", !.warned = Snap!SettledRowChanged(r)]
      /\ \A u \in Run \ {r} : writer'[u] = writer[u]
      /\ DOMAIN writer' = Run
  BY DEF Snap!Commit, RowIInv, RowTypeOK
<1>7. writer'[r] \in Writer /\ writer'[r].pc = "done" /\ writer'[r].got = got
      /\ writer'[r].warned = Snap!SettledRowChanged(r)
  BY <1>1, <1>5, <1>6 DEF Writer
<1>8. writer' \in [Run -> Writer]
  BY <1>6, <1>7 DEF Snap!Commit, RowIInv, RowTypeOK
<1>9. overwrote' = IF doc.settled /\ doc.content # got THEN overwrote \cup {r} ELSE overwrote
  BY DEF Snap!Commit
<1>10. RowTypeOK'
  BY <1>4, <1>8, <1>9 DEF Snap!Commit, RowIInv, RowTypeOK
<1>11. Fetched'
  BY <1>6, <1>7 DEF RowIInv, Fetched
<1>12. OverwroteAreDone'
  <2>1. r \notin overwrote
    BY <1>1 DEF RowIInv, OverwroteAreDone
  <2> QED BY <2>1, <1>5, <1>6, <1>7, <1>9 DEF RowIInv, RowTypeOK, OverwroteAreDone
<1>13. RowIsTraced'
  <2>1. /\ doc'.content = got /\ doc'.source = got /\ doc'.confirmedBy = r
        /\ doc'.changedBy = IF doc.content # got THEN r ELSE doc.changedBy
    BY <1>3
  <2>2. CASE doc.content # got
    BY <2>1, <2>2, <1>7 DEF RowIsTraced
  <2>3. CASE doc.content = got
    <3>1. doc # Snap!NoRow
      BY <2>3, <1>2 DEF Snap!NoRow
    <3>2. /\ doc.changedBy \in Run /\ writer[doc.changedBy].pc = "done"
          /\ doc.content = writer[doc.changedBy].got
      BY <3>1 DEF RowIInv, RowIsTraced
    <3>3. writer'[doc.changedBy] = writer[doc.changedBy]
      BY <3>2, <1>1, <1>6
    <3> QED BY <2>1, <2>3, <3>2, <3>3, <1>7 DEF RowIsTraced
  <2> QED BY <2>2, <2>3
<1> QED BY <1>10, <1>11, <1>12, <1>13 DEF RowIInv

\* Every step keeps the row traced and its changes warned of.
LEMMA NextRow ==
  ASSUME Null \notin Content, Null \notin Run
  PROVE  RowIInv /\ [Snap!Next]_(Snap!snapshotVars) => RowIInv'
<1> SUFFICES ASSUME RowIInv, [Snap!Next]_(Snap!snapshotVars) PROVE RowIInv'
  OBVIOUS
<1>1. CASE UNCHANGED Snap!snapshotVars
  BY <1>1 DEF Snap!snapshotVars, RowIInv, RowTypeOK, Fetched, OverwroteAreDone, RowIsTraced
<1>2. CASE Snap!Tick \/ Snap!Mark \/ \E c \in Content : Snap!Correct(c)
  BY <1>2 DEF Snap!Tick, Snap!Mark, Snap!Correct,
              RowIInv, RowTypeOK, Fetched, OverwroteAreDone, RowIsTraced
<1>3. ASSUME NEW r \in Run,
             Snap!Start(r) \/ Snap!Observe(r) \/ Snap!Begin(r) \/ Snap!Retry(r)
      PROVE  RowIInv'
  <2> DEFINE pcs == {"idle", "fetch", "write", "done"}
  <2>1. /\ UNCHANGED <<doc, overwrote>>
        /\ writer[r] \in Writer /\ doc \in Row /\ Snap!SettledFor(r) \in BOOLEAN
    BY <1>3 DEF RowIInv, RowTypeOK,
                Snap!Start, Snap!Observe, Snap!Begin, Snap!Retry, Snap!SettledFor
  <2>2. /\ writer[r].pc # "done"
        /\ writer' = [writer EXCEPT ![r] = writer'[r]]
        /\ writer'[r] \in Writer
        /\ writer'[r].pc = "write" => writer'[r].got # Null
    <3>1. CASE Snap!Start(r)
      BY <2>1, <3>1 DEF Snap!Start, Writer, RowIInv, RowTypeOK
    <3>2. CASE Snap!Observe(r)
      BY <2>1, <3>2 DEF Snap!Observe, Writer, RowIInv, RowTypeOK
    <3>3. CASE Snap!Begin(r)
      BY <2>1, <3>3 DEF Snap!Begin, Writer, RowIInv, RowTypeOK
    <3>4. CASE Snap!Retry(r)
      BY <2>1, <3>4 DEF Snap!Retry, Writer, RowIInv, RowTypeOK
    <3> QED BY <1>3, <3>1, <3>2, <3>3, <3>4
  <2>3. \A u \in Run : writer[u].pc = "done" => writer'[u] = writer[u]
    BY <2>2 DEF RowIInv, RowTypeOK
  <2>4. OverwroteAreDone' /\ RowIsTraced'
    BY <2>1, <2>3, RowRests
  <2>5. RowTypeOK' /\ Fetched'
    BY <1>3, <2>1, <2>2 DEF RowIInv, RowTypeOK, Fetched,
                            Snap!Start, Snap!Observe, Snap!Begin, Snap!Retry
  <2> QED BY <2>4, <2>5 DEF RowIInv
<1>4. ASSUME NEW r \in Run, Snap!Commit(r) PROVE RowIInv'
  BY <1>4, CommitRow
<1> QED BY <1>1, <1>2, <1>3, <1>4 DEF Snap!Next

\* The promise of snapshotUpsert.js for rows that are written in a transaction,
\* whatever syncs of whatever groups write them.
THEOREM SettledRowsWarned ==
  ASSUME Null \notin Content, Null \notin Run PROVE Snap!Spec => []Snap!SettledChangesReported
<1>1. Snap!Init => RowIInv
  BY InitRow
<1>2. RowIInv /\ [Snap!Next]_(Snap!snapshotVars) => RowIInv'
  BY NextRow
<1>3. RowIInv => Snap!SettledChangesReported
  BY DEF RowIInv, OverwroteAreDone, RowIsTraced, Snap!SettledChangesReported
<1> QED BY <1>1, <1>2, <1>3, PTL DEF Snap!Spec
=============================================================================
