----------------------------- MODULE FencedStore -----------------------------
(***************************************************************************)
(* What the lease lock of server/src/locks promises the code that runs     *)
(* under it, with no clock, no lock document and no crashes in sight: the  *)
(* lease is granted again and again, each time with a larger fencing       *)
(* token, and a guarded transaction commits only with the token of the     *)
(* latest grant.  Module LeaseLock is shown to implement this one.         *)
(***************************************************************************)
EXTENDS Naturals, Sequences

CONSTANTS
  Owner,    \* the runs that ever hold the lease
  NoOwner   \* nobody has been granted it yet

VARIABLES
  epoch,    \* the fencing token of the latest grant
  holder,   \* the run it was granted to
  log       \* the tokens of the committed guarded transactions, in commit order

vars == <<epoch, holder, log>>

TypeOK ==
  /\ epoch \in Nat
  /\ holder \in Owner \cup {NoOwner}
  /\ log \in Seq(Nat)

Init ==
  /\ epoch = 0
  /\ holder = NoOwner
  /\ log = <<>>

\* A grant always raises the token.
Grant ==
  /\ epoch' \in Nat
  /\ epoch' > epoch
  /\ holder' \in Owner
  /\ UNCHANGED log

\* Only the latest grant's holder commits.
Commit ==
  /\ holder \in Owner
  /\ log' = Append(log, epoch)
  /\ UNCHANGED <<epoch, holder>>

Next == Grant \/ Commit

Spec == Init /\ [][Next]_vars

\* Guarded transactions take effect in the order the leases were granted: once
\* a later holder has committed, an earlier one never does (the "stale holder"
\* of architecture v0.3 section 5).
CommitsOrdered ==
  \A i, j \in 1..Len(log) : i < j => log[i] <= log[j]

\* No commit carries a token that was not yet granted.
CommitsGranted == \A i \in 1..Len(log) : log[i] <= epoch

\* What makes the first an invariant: proved in LeaseLockProofs.
Inv == TypeOK /\ CommitsOrdered /\ CommitsGranted
=============================================================================
