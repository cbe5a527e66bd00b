------------------------------ MODULE FreshData ------------------------------
(***************************************************************************)
(* How old the data of a final result may be.  FPL marks a gameweek        *)
(* data_checked and may have changed points up to that moment; the client  *)
(* answers from a cache for a while after a fetch; the time at which the   *)
(* flag was first observed is the database's, and the finalize gate        *)
(* compares it with the time at which the finalize's own run started.      *)
(*                                                                         *)
(* One gameweek, one member's history, and any number of syncs that share  *)
(* the process's cache.  Of the data only the time at which it was fetched *)
(* matters.                                                                *)
(***************************************************************************)
EXTENDS Integers, FiniteSets

CONSTANTS
  Sync,        \* runs, started at any time
  Finalize,    \* those of them with the trigger FINALIZE
  Ttl,         \* how long an answer is served from the cache
  MaxTime      \* bound: the clock

NotCached == [at |-> -1, fetched |-> -1, checked |-> FALSE]
NotStarted == [pc |-> "idle", start |-> 0, checked |-> FALSE]
NoEvent == [checked |-> FALSE, observedAt |-> -1]
NoRow == [fetchedAt |-> -1, start |-> -1]

VARIABLES
  clock,       \* the time
  fpl,         \* whether FPL has the gameweek marked data_checked
  cache,       \* the client's cache: [bootstrap, history], each [at, fetched, checked]
  event,       \* the stored event: [checked, observedAt]
  row,         \* the stored row: [fetchedAt, start]
  sync,        \* each run: [pc, start, checked]
  final        \* the row a result was finalized on, NoRow before that

freshVars == <<clock, fpl, cache, event, row, sync, final>>

Init ==
  /\ clock = 0
  /\ fpl = FALSE
  /\ cache = [bootstrap |-> NotCached, history |-> NotCached]
  /\ event = NoEvent
  /\ row = NoRow
  /\ sync = [s \in Sync |-> NotStarted]
  /\ final = NoRow

-----------------------------------------------------------------------------
Tick ==
  /\ clock < MaxTime
  /\ clock' = clock + 1
  /\ UNCHANGED <<fpl, cache, event, row, sync, final>>

\* FPL marks the gameweek's data as checked, or takes the mark back.
Mark ==
  /\ fpl' = ~fpl
  /\ UNCHANGED <<clock, cache, event, row, sync, final>>

\* A plausible bug: an entry that is used is kept for another TTL.
AnswerSliding(kind) ==
  IF cache[kind].at >= 0 /\ clock - cache[kind].at < Ttl
  THEN [cache[kind] EXCEPT !.at = clock]
  ELSE [at |-> clock, fetched |-> clock, checked |-> fpl]

\* getOrLoad: the cached answer until its TTL is over, else a fetch that is
\* cached from now on.
Answer(kind) ==
  IF cache[kind].at >= 0 /\ clock - cache[kind].at < Ttl THEN cache[kind]
  ELSE [at |-> clock, fetched |-> clock, checked |-> fpl]

-----------------------------------------------------------------------------
StartSync(s) ==
  /\ sync[s].pc = "idle"
  /\ sync' = [sync EXCEPT ![s] = [pc |-> "bootstrap", start |-> clock, checked |-> FALSE]]
  /\ UNCHANGED <<clock, fpl, cache, event, row, final>>

\* The bootstrap response is read now and applied by T1 later, after the
\* wait for the bootstrap lease.
ReadBootstrap(s) ==
  LET read == Answer("bootstrap")
  IN /\ sync[s].pc = "bootstrap"
     /\ cache' = [cache EXCEPT !["bootstrap"] = read]
     /\ sync' = [sync EXCEPT ![s].pc = "T1", ![s].checked = read.checked]
     /\ UNCHANGED <<clock, fpl, event, row, final>>

\* T1: observedAt is set the first time the flag is seen, kept while it stays
\* and cleared when it is taken back.
T1(s) ==
  /\ sync[s].pc = "T1"
  /\ event' = [checked |-> sync[s].checked,
               observedAt |-> CASE ~sync[s].checked -> -1
                                [] OTHER -> IF event.observedAt >= 0 THEN event.observedAt
                                            ELSE clock]
  /\ sync' = [sync EXCEPT ![s].pc = "member"]
  /\ UNCHANGED <<clock, fpl, cache, row, final>>

\* The member's history is read and T3 stores the row as
\* confirmed by this run.
SyncMember(s) ==
  LET read == Answer("history")
  IN /\ sync[s].pc = "member"
     /\ cache' = [cache EXCEPT !["history"] = read]
     /\ row' = [fetchedAt |-> read.fetched, start |-> sync[s].start]
     /\ sync' = [sync EXCEPT ![s].pc = IF s \in Finalize THEN "T4" ELSE "idle"]
     /\ UNCHANGED <<clock, fpl, event, final>>

\* The finalize's T4: the gate asks that the stored event is checked and that
\* the row was confirmed by this run, started after the flag was observed.
Gate(s) ==
  event.checked /\ row.start = sync[s].start /\ sync[s].start > event.observedAt

Commit(s) ==
  /\ sync[s].pc = "T4"
  /\ final' = IF Gate(s) /\ final = NoRow THEN row ELSE final
  /\ sync' = [sync EXCEPT ![s].pc = "idle"]
  /\ UNCHANGED <<clock, fpl, cache, event, row>>

Next ==
  \/ Tick \/ Mark
  \/ \E s \in Sync : StartSync(s) \/ ReadBootstrap(s) \/ T1(s) \/ SyncMember(s) \/ Commit(s)

Spec == Init /\ [][Next]_freshVars

-----------------------------------------------------------------------------
\* However the syncs interleave and the flag comes and goes, a final result
\* rests on data at most one cache lifetime older than its run, and so does
\* every row.
FinalAtMostTtlOld ==
  /\ final # NoRow => final.fetchedAt > final.start - Ttl
  /\ row # NoRow => row.fetchedAt > row.start - Ttl

\* What the architecture says: the data a result is finalized on was synced
\* after the flag had been observed.
FinalOnCheckedData == [][final' # final => final'.fetchedAt >= event.observedAt]_freshVars
=============================================================================
