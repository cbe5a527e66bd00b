------------------------------- MODULE Points -------------------------------
(***************************************************************************)
(* The reconciliation of one entry's season (analytics/reconcile.js): FPL  *)
(* reports points, the cost of extra transfers and a running total, and    *)
(* never says whether the points are before or after that cost.  A row is  *)
(* given net and gross points only when the three numbers agree with each  *)
(* other and with what the season is known to report.                      *)
(*                                                                         *)
(* `rows' is a function from the events of the entry's history to          *)
(* [points, cost, total]; `picksPoints' gives the points the picks         *)
(* endpoint reported, by event; `checked' is the set of events that are    *)
(* DATA_CHECKED.                                                           *)
(***************************************************************************)
EXTENDS Values

Semantics == {"GROSS", "NET", "UNVERIFIED", "CONFLICTED"}
ReconciledStatuses == {"RECONCILED", "RECONCILED_NO_COST"}

IsReconciled(status) == status \in ReconciledStatuses

\* A plausible bug: the row before in the list, whatever its event.
PreviousTotalByIndex(rows, e) ==
  LET before == {f \in DOMAIN rows : f < e}
  IN IF before = {} THEN 0 ELSE rows[Max(before)].total

\* The season total before the event; absent when the row before is missing.
PreviousTotal(rows, e) ==
  CASE \A f \in DOMAIN rows : e <= f -> 0
    [] OTHER -> IF e - 1 \in DOMAIN rows THEN rows[e - 1].total ELSE Null

Delta(rows, e) ==
  LET previous == PreviousTotal(rows, e)
  IN IF previous = Null THEN Null ELSE rows[e].total - previous

\* What the change of the season total says the row's points are.
Hypothesis(rows, e) ==
  LET gross == Delta(rows, e) = rows[e].points - rows[e].cost
      net == Delta(rows, e) = rows[e].points
  IN CASE Delta(rows, e) = Null -> "NONE"
       [] gross /\ net -> "BOTH"
       [] gross /\ ~net -> "GROSS"
       [] net /\ ~gross -> "NET"
       [] OTHER -> "NONE"

\* The hit rows that support one hypothesis and refute the other.
Evidence(rows, hypothesis) ==
  {e \in DOMAIN rows : rows[e].cost > 0 /\ Hypothesis(rows, e) = hypothesis}

\* A plausible bug: the proof of an unverified season that comes first wins.
AppliedFirstProof(rows, season) ==
  IF season # "UNVERIFIED" THEN season
  ELSE IF Evidence(rows, "GROSS") # {} THEN "GROSS"
       ELSE IF Evidence(rows, "NET") # {} THEN "NET" ELSE "UNVERIFIED"

\* The season's verified semantics, else what the entry's own rows prove.
Applied(rows, season) ==
  LET gross == Evidence(rows, "GROSS") # {}
      net == Evidence(rows, "NET") # {}
  IN CASE season # "UNVERIFIED" -> season
       [] gross /\ net -> "CONFLICTED"
       [] gross /\ ~net -> "GROSS"
       [] net /\ ~gross -> "NET"
       [] OTHER -> "UNVERIFIED"

\* A plausible bug: the row's own hypothesis is enough, whatever the season's.
StatusOfRowAlone(rows, e, picksPoints, season, checked) ==
  IF Hypothesis(rows, e) = "NONE" THEN "INCOMPLETE"
  ELSE IF rows[e].cost = 0 THEN "RECONCILED_NO_COST" ELSE "RECONCILED"

\* The first reason not to trust the row, else how it reconciled.
ReconciliationStatus(rows, e, picksPoints, season, checked) ==
  LET hypothesis == Hypothesis(rows, e)
      reported == Lookup(picksPoints, e, Null)
  IN CASE Delta(rows, e) = Null -> "INCOMPLETE"
       [] OTHER ->
          IF reported # Null /\ reported # rows[e].points /\ e \in checked
          THEN "SOURCE_DISAGREEMENT"
          ELSE IF rows[e].cost = 0
          THEN IF hypothesis = "BOTH" THEN "RECONCILED_NO_COST" ELSE "MISMATCH"
          ELSE IF hypothesis \notin {"GROSS", "NET"} THEN "MISMATCH"
          ELSE IF hypothesis # Applied(rows, season) THEN "SEMANTICS_CONFLICT"
          ELSE "RECONCILED"

\* Net and gross points of a reconciled row, absent for any other.
Normalized(rows, e, picksPoints, season, checked) ==
  LET status == ReconciliationStatus(rows, e, picksPoints, season, checked)
      points == rows[e].points
      cost == rows[e].cost
      gross == Hypothesis(rows, e) = "GROSS"
      amount(value) == IF IsReconciled(status) THEN value ELSE Null
  IN [status |-> status,
      semantics |-> IF cost > 0 THEN Applied(rows, season) ELSE season,
      cost |-> cost,
      net |-> amount(IF gross THEN points - cost ELSE points),
      gross |-> amount(IF gross \/ cost = 0 THEN points ELSE points + cost)]

ReconcileSeason(rows, picksPoints, season, checked) ==
  [e \in DOMAIN rows |-> Normalized(rows, e, picksPoints, season, checked)]

-----------------------------------------------------------------------------
\* The net points of the reconciled rows up to the first one that is not add
\* up to FPL's own season total, gross exceeds net by exactly the cost, and
\* the hit rows of one season are never read in two ways.
AddsUp(rows, out) ==
  LET upTo(e) == {f \in DOMAIN rows : f <= e}
      reconciled(S) == \A f \in S : IsReconciled(out[f].status)
  IN /\ \A e \in DOMAIN rows : reconciled(upTo(e)) =>
          SumOf(upTo(e), LAMBDA f : out[f].net) = rows[e].total
     /\ \A e \in DOMAIN rows : IsReconciled(out[e].status) =>
          /\ out[e].gross - out[e].net = rows[e].cost
          /\ e # Min(DOMAIN rows) => e - 1 \in DOMAIN rows
     /\ \E reading \in {"GROSS", "NET"} : \A e \in DOMAIN rows :
          out[e].status = "RECONCILED" =>
            rows[e].points = IF reading = "GROSS" THEN out[e].gross ELSE out[e].net

\* A row whose two sources disagree once FPL says its data is checked, and the
\* hit rows of an entry that proves both readings, are never given points.
DoubtIsKept(rows, picksPoints, season, checked, out) ==
  /\ \A e \in checked \cap DOMAIN rows \cap DOMAIN picksPoints :
       picksPoints[e] \notin {Null, rows[e].points} => out[e].net = Null
  /\ (Evidence(rows, "GROSS") # {} /\ Evidence(rows, "NET") # {}
        /\ season = "UNVERIFIED") =>
       \A e \in DOMAIN rows : rows[e].cost > 0 => out[e].net = Null
=============================================================================
