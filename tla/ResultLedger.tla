---------------------------- MODULE ResultLedger ----------------------------
(***************************************************************************)
(* What services/resultService.js promises of one gameweek of one group,   *)
(* with no lease, transaction, sync, view or audit in sight: a ledger that *)
(* only grows, by one whole decision at a time, and a current result that  *)
(* is the ledger's last entry.  Module Decision is shown to implement it.  *)
(***************************************************************************)
EXTENDS Sequences

CONSTANTS
  Member,     \* members of the group
  Finalizer,  \* POST finalize requests
  Overrider,  \* POST override requests
  Recomputer, \* POST recompute requests
  Declared,   \* the winners an override names
  Noted       \* recompute requests with a note

VARIABLES
  ledger,     \* the decisions, in the order they took effect
  current     \* the result that everybody is shown

vars == <<ledger, current>>

Init ==
  /\ ledger = <<>>
  /\ current = [status |-> "PROVISIONAL", winners |-> {}]

\* A request takes effect at once, and once at most.
Record(j, action, status, winners, note) ==
  /\ \A i \in DOMAIN ledger : ledger[i].by # j
  /\ ledger' = Append(ledger, [action |-> action, by |-> j, status |-> status,
                               winners |-> winners, note |-> note])
  /\ current' = [status |-> status, winners |-> winners]

\* The first decision only, and somebody wins.
Finalize(j) ==
  /\ ledger = <<>>
  /\ \E winners \in (SUBSET Member) \ {{}} : Record(j, "FINALIZE", "FINAL", winners, FALSE)

\* At any time, with an admin's note.
Override(j) == Record(j, "OVERRIDE", "OVERRIDDEN", Declared[j], TRUE)

\* Of what was decided; the winners move with an admin's note only.
Recompute(j) ==
  /\ ledger # <<>>
  /\ \E winners \in SUBSET Member :
       /\ winners # current.winners => j \in Noted
       /\ Record(j, "RECOMPUTE", "FINAL", winners, j \in Noted)

Next ==
  \/ \E j \in Finalizer : Finalize(j)
  \/ \E j \in Overrider : Override(j)
  \/ \E j \in Recomputer : Recompute(j)

Spec == Init /\ [][Next]_vars
=============================================================================
