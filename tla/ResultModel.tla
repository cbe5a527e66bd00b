----------------------------- MODULE ResultModel -----------------------------
(***************************************************************************)
(* What is recorded of a gameweek result (services/resultModel.js): the    *)
(* trace that explains it, the snapshot that holds it with its inputs, the *)
(* check that a snapshot still reproduces, and the differences that a      *)
(* recompute shows and that decide whether it needs a note.                *)
(*                                                                         *)
(* An input of the engine is [group, members, rows, event], as             *)
(* ComputeGwResult takes them.                                             *)
(***************************************************************************)
EXTENDS Winner

Compute(in) == ComputeGwResult(in.group, in.members, in.rows, in.event)

\* The rows of the standings: score, rank and position of every member.
Standings(in, result) ==
  [m \in DOMAIN in.members |->
     [score |-> IF m \in DOMAIN in.rows /\ IsReconciled(in.rows[m].status)
                THEN Score(in.group.winnerRule, in.rows[m]) ELSE Null,
      rank |-> Lookup(result.ranks, m, Null),
      position |-> IF m \in DOMAIN result.table THEN result.table[m].position ELSE Null,
      winner |-> m \in result.winners,
      status |-> CASE m \in DOMAIN in.rows -> in.rows[m].status
                   [] OTHER -> IF m \in result.eligible THEN "NOT_SYNCED" ELSE Null]]

WinningScore(in, result) ==
  IF result.winners = {} THEN Null
  ELSE Score(in.group.winnerRule, in.rows[CHOOSE w \in result.winners : TRUE])

\* The trace: nothing but the engine's own output decides it.  (What each rule of
\* the chain left is in it too.)
ExplainDecision(result) ==
  [status |-> result.status,
   eligible |-> result.eligible,
   ineligible |-> result.ineligible,
   blockedBy |-> result.blockedBy,
   tied |-> {m \in DOMAIN result.ranks : result.ranks[m] = 1},
   decidedBy |-> result.applied,
   outcome |-> CASE result.winners = {} -> "NONE"
                 [] OTHER -> IF Cardinality(result.winners) = 1 THEN "SINGLE" ELSE "SHARED",
   winners |-> result.winners]

\* A snapshot: the inputs and all that was computed from them, next to the
\* winners that were declared.
BuildSnapshotInput(in, result, declared) ==
  [inputs |-> in, computed |-> result.winners, declared |-> declared,
   score |-> WinningScore(in, result), applied |-> result.applied,
   trace |-> ExplainDecision(result), standings |-> Standings(in, result)]

\* What no longer follows from the stored inputs.
SnapshotMismatches(snapshot) ==
  LET again == BuildSnapshotInput(snapshot.inputs, Compute(snapshot.inputs), snapshot.declared)
  IN {field \in {"computed", "score", "applied", "trace", "standings"} :
        again[field] # snapshot[field]}

\* A plausible bug: a row has changed if its score or its rank has.
DiffWithoutWinners(previous, in, result) ==
  LET next == Standings(in, result)
      same(m) == \A f \in {"score", "rank"} : previous.standings[m][f] = next[m][f]
  IN [winnersChanged |-> previous.declared # result.winners,
      changed |-> {m \in DOMAIN next : m \notin DOMAIN previous.standings \/ ~same(m)}]

\* The differences between a decision and what the rules say now.
DiffResults(previous, in, result) ==
  LET next == Standings(in, result)
  IN [winnersChanged |-> previous.declared # result.winners,
      changed |-> {m \in DOMAIN next : Lookup(previous.standings, m, Null) # next[m]}]

-----------------------------------------------------------------------------
\* A decision stays what it was: its snapshot reproduces, an override's too
\* (the rule-based result is stored alongside), and one whose computed winners
\* or inputs were changed afterwards does not.
SnapshotReproduces(in, result) ==
  LET snapshot == BuildSnapshotInput(in, result, {1})
      forged == {[snapshot EXCEPT !.computed = @ \cup {w}] : w \in DOMAIN in.members \ result.winners}
                \cup {[snapshot EXCEPT !.computed = @ \ {w}] : w \in result.winners}
                \cup {[snapshot EXCEPT !.inputs.members[w].excluded = ~@] : w \in result.winners}
  IN /\ \A s \in forged \cup {snapshot} : SnapshotMismatches(s) = {} <=> s = snapshot
     /\ snapshot.trace.outcome = "SHARED" <=> snapshot.applied = SHARED
     /\ snapshot.computed \subseteq snapshot.trace.tied

\* What a recompute shows of a decision, an override's too: whoever the rules
\* make a winner now and did not then, or the other way round, is among the rows
\* it lists as changed; it lists none and reports no other winners only if every
\* score, rank, position and winner is as it was decided; and of unchanged inputs
\* it lists none, and reports other winners exactly if the rules had been overridden.
ChangeIsListed(snapshot, after, result) ==
  LET diff == DiffResults(snapshot, after, result)
      was == snapshot.computed
      now == result.winners
  IN /\ (was \ now) \cup (now \ was) \subseteq diff.changed
     /\ diff.changed = {} /\ ~diff.winnersChanged =>
          snapshot.standings = Standings(after, result) /\ snapshot.declared = now
     /\ snapshot.inputs = after =>
          diff.changed = {} /\ (diff.winnersChanged <=> snapshot.declared # was)

\* A decision declares what was computed or, overridden, any members; a
\* recompute goes on if nothing blocks the result.
ChangesAreListed(in, result, others) ==
  \A after \in others :
    LET again == Compute(after)
    IN again.status = "PROVISIONAL" =>
         \A declared \in {result.winners} \cup (SUBSET DOMAIN in.members \ {{}}) :
           ChangeIsListed(BuildSnapshotInput(in, result, declared), after, again)
=============================================================================
