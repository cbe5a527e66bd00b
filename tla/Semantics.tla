------------------------------ MODULE Semantics ------------------------------
(***************************************************************************)
(* How a season learns whether FPL reports points before or after transfer *)
(* hits.  Every group sync counts the hit rows it stores that prove one    *)
(* reading and whose points are new to the database, and applies the       *)
(* counts to the season at its end, outside the transactions that stored   *)
(* the rows.  The runs are of different groups that share members, so two  *)
(* of them may write the same row.                                         *)
(*                                                                         *)
(* A row is [proves, version]: "GROSS" or "NET" for a hit row that proves  *)
(* that reading, "NOTHING" for any other; the version tells apart rows     *)
(* that prove the same with different points.                              *)
(***************************************************************************)
EXTENDS Integers, FiniteSets, FiniteSetsExt

CONSTANTS
  Entry,          \* the managers, each with one gameweek row
  Run,            \* group syncs
  Reading,        \* the readings FPL's rows prove: {"GROSS"}, or both
  MayStop,        \* runs that may crash, stall or be shut down on the way
  MaxRevisions    \* bound: how often FPL changes a row

NoRow == [proves |-> "NOTHING", version |-> 0]

VARIABLES
  served,      \* the row FPL answers with for each entry
  stored,      \* the row in managerGameweeks: NoRow before the first sync
  value,       \* the season's pointsSemantics.value
  evidence,    \* pointsSemantics.evidenceRows
  conflicts,   \* pointsSemantics.conflictRows
  run,         \* each sync: [pc, fetched, left, tally]
  revisions,   \* rows FPL has changed so far
  interrupted  \* some run ended with evidence it had stored and not applied

semVars == <<served, stored, value, evidence, conflicts, run, revisions, interrupted>>

NoTally == [GROSS |-> 0, NET |-> 0]
Idle == [pc |-> "idle", fetched |-> [m \in Entry |-> NoRow], left |-> {}, tally |-> NoTally]

Init ==
  /\ served = [m \in Entry |-> [proves |-> "NOTHING", version |-> 1]]
  /\ stored = [m \in Entry |-> NoRow]
  /\ value = "UNVERIFIED" /\ evidence = 0 /\ conflicts = 0
  /\ run = [r \in Run |-> Idle]
  /\ revisions = 0
  /\ interrupted = FALSE

-----------------------------------------------------------------------------
\* FPL publishes other points for an entry.
Revise(m, proves) ==
  /\ revisions < MaxRevisions
  /\ revisions' = revisions + 1
  /\ served' = [served EXCEPT ![m] = [proves |-> proves, version |-> revisions + 2]]
  /\ UNCHANGED <<stored, value, evidence, conflicts, run, interrupted>>

Start(r) ==
  /\ run[r].pc = "idle"
  /\ run' = [run EXCEPT ![r].pc = "fetch", ![r].left = Entry]
  /\ UNCHANGED <<served, stored, value, evidence, conflicts, revisions, interrupted>>

\* The members are fetched at the same time, each answered at its own moment,
\* and all of them before the first is written.
FetchMember(r, m) ==
  LET left == run[r].left \ {m}
  IN /\ run[r].pc = "fetch" /\ m \in run[r].left
     /\ run' = [run EXCEPT ![r].fetched[m] = served[m],
                           ![r].pc = IF left = {} THEN "write" ELSE "fetch",
                           ![r].left = IF left = {} THEN Entry ELSE left]
     /\ UNCHANGED <<served, stored, value, evidence, conflicts, revisions, interrupted>>

\* A tally with one more row that proves this reading.
OneMore(tally, proof) == [tally EXCEPT ![proof] = @ + 1]

\* A plausible bug: only an inserted row is counted, not a changed one.
WriteMemberCountsInserted(r, m) ==
  LET row == run[r].fetched[m]
      proof == row.proves
      counts == proof \in {"GROSS", "NET"} /\ stored[m] = NoRow
  IN /\ run[r].pc = "write" /\ m \in run[r].left
     /\ stored' = [stored EXCEPT ![m] = row]
     /\ run' = [run EXCEPT ![r].left = @ \ {m},
                           ![r].tally = IF counts THEN OneMore(@, proof) ELSE @]
     /\ UNCHANGED <<served, value, evidence, conflicts, revisions, interrupted>>

\* T3 of one member: the row is stored, whatever it proves, and counted when it proves a
\* reading and the database had other points.
WriteMember(r, m) ==
  LET row == run[r].fetched[m]
      proof == row.proves
      counts == proof \in {"GROSS", "NET"} /\ stored[m] # row
  IN /\ run[r].pc = "write" /\ m \in run[r].left
     /\ stored' = [stored EXCEPT ![m] = row]
     /\ run' = [run EXCEPT ![r].left = @ \ {m},
                           ![r].tally = IF counts THEN OneMore(@, proof) ELSE @]
     /\ UNCHANGED <<served, value, evidence, conflicts, revisions, interrupted>>

\* A member whose fetch or write failed keeps its row; the others go on.
SkipMember(r, m) ==
  /\ run[r].pc = "write" /\ m \in run[r].left
  /\ run' = [run EXCEPT ![r].left = @ \ {m}]
  /\ UNCHANGED <<served, stored, value, evidence, conflicts, revisions, interrupted>>

-----------------------------------------------------------------------------
\* A plausible bug: a verified season is left alone by later rows.
AppliedOnce(v, tally) ==
  IF v # "UNVERIFIED"
  THEN [value |-> v, evidence |-> evidence, conflicts |-> conflicts]
  ELSE [value |-> CASE tally["GROSS"] > 0 /\ tally["NET"] > 0 -> "CONFLICTED"
                    [] OTHER -> IF tally["GROSS"] > 0 THEN "GROSS"
                                ELSE IF tally["NET"] > 0 THEN "NET" ELSE v,
        evidence |-> evidence + 1, conflicts |-> conflicts]

\* What the season becomes: an unverified one takes the proven value, one
\* conflicting row makes it CONFLICTED, and that one never changes again.
Applied(v, tally) ==
  LET gross == tally["GROSS"]
      net == tally["NET"]
      both == gross > 0 /\ net > 0
      proven == CASE both -> "CONFLICTED"
                  [] ~both /\ gross > 0 -> "GROSS"
                  [] ~both /\ net > 0 -> "NET"
                  [] OTHER -> "UNVERIFIED"
      add == [UNVERIFIED |-> IF both THEN 0 ELSE gross + net,
              GROSS |-> gross, NET |-> net, CONFLICTED |-> 0]
      against == [UNVERIFIED |-> IF both THEN gross + net ELSE 0,
                  GROSS |-> net, NET |-> gross, CONFLICTED |-> 0]
  IN [value |-> CASE conflicts + against[v] > 0 -> "CONFLICTED"
                  [] OTHER -> IF v = "UNVERIFIED" THEN proven ELSE v,
      evidence |-> evidence + add[v], conflicts |-> conflicts + against[v]]

\* The end of the sync, one atomic update of the season if there is anything
\* to apply.
ApplySemanticsEvidence(r) ==
  LET season == Applied(value, run[r].tally)
  IN /\ run[r].pc = "write" /\ run[r].left = {}
     /\ value' = season.value /\ evidence' = season.evidence /\ conflicts' = season.conflicts
     /\ run' = [run EXCEPT ![r] = Idle]
     /\ UNCHANGED <<served, stored, revisions, interrupted>>

\* The process dies, or the lease is lost before the last step: the rows stay
\* and the counts, kept in memory only, are gone.
Stop(r) ==
  /\ r \in MayStop /\ run[r].pc # "idle"
  /\ run' = [run EXCEPT ![r] = Idle]
  /\ interrupted' = (interrupted \/ run[r].tally # NoTally)
  /\ UNCHANGED <<served, stored, value, evidence, conflicts, revisions>>

Next ==
  \/ \E m \in Entry, proves \in Reading \cup {"NOTHING"} : Revise(m, proves)
  \/ \E r \in Run : \/ Start(r) \/ ApplySemanticsEvidence(r) \/ Stop(r)
                    \/ \E m \in Entry : FetchMember(r, m) \/ WriteMember(r, m)
                         \/ SkipMember(r, m)

Spec == Init /\ [][Next]_semVars

-----------------------------------------------------------------------------
Quiet == \A r \in Run : run[r].pc = "idle"
Proofs == {stored[m].proves : m \in Entry} \ {"NOTHING"}

\* While no sync is under way and none was cut short after storing proof, the
\* season follows the rows, whatever the order in which syncs of groups that
\* share members stored them: every reading a stored row proves is the
\* season's, two readings make it conflicted, and the finalize gate is open
\* (the season is verified) only on rows of one reading.
SemanticsFollowRows ==
  Quiet /\ ~interrupted =>
    /\ Proofs # {} => value # "UNVERIFIED"
    /\ value \in {"GROSS", "NET"} => Proofs \subseteq {value}
    /\ Cardinality(Proofs) = 2 => value = "CONFLICTED"
    /\ value # "UNVERIFIED" => evidence + conflicts > 0
    /\ value = "CONFLICTED" <=> conflicts > 0
=============================================================================
