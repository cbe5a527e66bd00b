------------------------------ MODULE Snapshots ------------------------------
(***************************************************************************)
(* One snapshot row (repositories/internal/snapshotUpsert.js) of an entry  *)
(* that groups share, written by the syncs of those groups, each in a      *)
(* transaction of its own (T3).  A write replaces the data and says who    *)
(* changed it only if the content differs; it always says who confirmed    *)
(* it, from which response, and whether the row is settled: whether the    *)
(* run that confirms it started after data_checked was first observed.     *)
(***************************************************************************)
EXTENDS Integers, FiniteSets

CONSTANTS
  Null,       \* the absent value
  Run,
  Content,    \* what FPL may answer
  MaxTime     \* bound: the clock's last value

VARIABLES
  now,
  answer,        \* what FPL answers now
  flag,    \* FPL's data_checked flag
  observed,   \* events.dataCheckedObservedAt, Null if unset
  doc,        \* the stored row, NoRow before the first write
  writer,        \* each sync: [pc, startedAt, got, before, settled, warned]
  overwrote   \* the runs that replaced the content of a settled row

snapshotVars == <<now, answer, flag, observed, doc, writer, overwrote>>

NoRow == [content |-> Null, changedBy |-> Null, confirmedBy |-> Null, source |-> Null,
          settled |-> FALSE]
Idle == [pc |-> "idle", startedAt |-> 0, got |-> Null, before |-> NoRow, settled |-> FALSE,
         warned |-> FALSE]

Init ==
  /\ now = 0 /\ answer \in Content /\ flag = FALSE /\ observed = Null
  /\ doc = NoRow
  /\ writer = [r \in Run |-> Idle]
  /\ overwrote = {}

-----------------------------------------------------------------------------
Tick ==
  /\ now < MaxTime /\ now' = now + 1
  /\ UNCHANGED <<answer, flag, observed, doc, writer, overwrote>>

\* FPL corrects the row, or sets or clears the flag.
Correct(content) ==
  /\ answer # content /\ answer' = content
  /\ UNCHANGED <<now, flag, observed, doc, writer, overwrote>>
Mark ==
  /\ flag' = ~flag
  /\ UNCHANGED <<now, answer, observed, doc, writer, overwrote>>

Start(r) ==
  /\ writer[r].pc = "idle"
  /\ writer' = [writer EXCEPT ![r].pc = "fetch", ![r].startedAt = now]
  /\ UNCHANGED <<now, answer, flag, observed, doc, overwrote>>

\* The bootstrap stage stores the event (the first observation is kept), then
\* the entry's history is fetched.
Observe(r) ==
  /\ writer[r].pc = "fetch" /\ writer[r].got = Null
  /\ observed' = IF ~flag THEN Null ELSE IF observed = Null THEN now ELSE observed
  /\ writer' = [writer EXCEPT ![r].got = answer]
  /\ UNCHANGED <<now, answer, flag, doc, overwrote>>

\* settledFor: started after the flag was observed, not at the same time.
SettledFor(r) == observed # Null /\ writer[r].startedAt > observed

\* The transaction begins: it reads the row and the event.
Begin(r) ==
  /\ writer[r].pc = "fetch" /\ writer[r].got # Null
  /\ writer' = [writer EXCEPT ![r].pc = "write", ![r].before = doc, ![r].settled = SettledFor(r)]
  /\ UNCHANGED <<now, answer, flag, observed, doc, overwrote>>

\* A plausible bug: the row is written outside the transaction.
NeverConflicts(r) == FALSE

\* The row was written since the transaction began: it cannot write it too.
Conflicts(r) == doc # writer[r].before

\* The transaction is retried from its start; an upsert that finds the row
\* inserted meanwhile may fail for good, and the member with it.
Retry(r) ==
  /\ writer[r].pc = "write" /\ Conflicts(r)
  /\ \E pc \in {"fetch"} \cup (IF writer[r].before = NoRow THEN {"done"} ELSE {}) :
       writer' = [writer EXCEPT ![r].pc = pc]
  /\ UNCHANGED <<now, answer, flag, observed, doc, overwrote>>

\* upsertSnapshots: the server compares the content hash with the stored one;
\* what is reported back is judged by the hash that was read.
Upserted(r) ==
  [content |-> writer[r].got,
   changedBy |-> IF doc.content # writer[r].got THEN r ELSE doc.changedBy,
   confirmedBy |-> r, source |-> writer[r].got, settled |-> writer[r].settled]
SettledRowChanged(r) ==
  writer[r].before.settled /\ writer[r].before.content # writer[r].got

Commit(r) ==
  /\ writer[r].pc = "write" /\ ~Conflicts(r)
  /\ doc' = Upserted(r)
  /\ writer' = [writer EXCEPT ![r].pc = "done", ![r].warned = SettledRowChanged(r)]
  /\ overwrote' = IF doc.settled /\ doc.content # writer[r].got THEN overwrote \cup {r} ELSE overwrote
  /\ UNCHANGED <<now, answer, flag, observed>>

Next ==
  \/ Tick \/ Mark \/ \E c \in Content : Correct(c)
  \/ \E r \in Run : Start(r) \/ Observe(r) \/ Begin(r) \/ Retry(r) \/ Commit(r)

Spec == Init /\ [][Next]_snapshotVars

-----------------------------------------------------------------------------
\* "If provenance.settled is true and the hash differs, it still writes, but
\* records SETTLED_ROW_CHANGED": whatever syncs of other groups wrote between
\* this run's read and its write, a settled row never changes without a warning
\* of the run that changed it; and the row's data, the run that changed it and
\* the response it is traced to belong together.
SettledChangesReported ==
  /\ \A r \in overwrote : writer[r].warned
  /\ doc # NoRow => /\ doc.content = writer[doc.changedBy].got
                    /\ doc.source = doc.content /\ doc.source = writer[doc.confirmedBy].got
=============================================================================
