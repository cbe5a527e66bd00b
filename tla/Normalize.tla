------------------------------ MODULE Normalize ------------------------------
(***************************************************************************)
(* FPL's responses for one entry turned into the rows of its season        *)
(* (sync/normalize.js, repositories/mappers/managerGameweek.js), and the   *)
(* smoke test's own reading of the same history (reconcileProbe.js).       *)
(*                                                                         *)
(* A sync is about one event: its picks are fetched, the picks of every    *)
(* other event are those that are stored.  `history' is the history        *)
(* response, [current, chips]: the rows that Points takes and the chips by *)
(* event; `picks' is the picks response, [squad, points, chip], or Null    *)
(* when FPL has none; `existing' is a function from the events stored to   *)
(* their rows.                                                             *)
(***************************************************************************)
EXTENDS Points

NoSquad == {}

\* A plausible bug: the points of the picks of other events are not carried.
PicksPointsFetched(event, picks, existing) ==
  IF picks = Null THEN <<>> ELSE (event :> picks.points)

\* The points of each event's picks: fetched for this event, stored for others.
PicksPoints(event, picks, existing) ==
  LET stored == {e \in DOMAIN existing \ {event} : existing[e].reported # Null}
      reported == [e \in stored |-> existing[e].reported]
  IN IF picks = Null THEN reported ELSE (event :> picks.points) @@ reported

\* pointsKey: what could prove how the season reports points.
PointsKey(rows, e) == <<rows[e].points, rows[e].cost, rows[e].total, PreviousTotal(rows, e)>>

\* One row as it is stored: the reconciled points and what they were computed
\* from, and the squad with the request that it came from.
SeasonRow(event, history, picks, season, checked, existing, e) ==
  LET rows == history.current
      picksPoints == PicksPoints(event, picks, existing)
      fetched == e = event /\ picks # Null
      stored == e # event /\ e \in DOMAIN existing
      kept(field, none) == IF stored THEN existing[e][field] ELSE none
  IN [points |-> Normalized(rows, e, picksPoints, season, checked),
      reported |-> Lookup(picksPoints, e, Null),
      key |-> PointsKey(rows, e),
      hasPicks |-> fetched \/ kept("hasPicks", FALSE),
      squad |-> IF fetched THEN picks.squad ELSE kept("squad", NoSquad),
      source |-> IF fetched THEN "fetched" ELSE kept("source", Null),
      chip |-> IF fetched THEN picks.chip ELSE Lookup(history.chips, e, Null)]

\* A hit row that supports one reading, if its points inputs are not stored yet.
EvidenceCandidates(history, existing) ==
  {e \in Evidence(history.current, "GROSS") \cup Evidence(history.current, "NET") :
     e \notin DOMAIN existing \/ existing[e].key # PointsKey(history.current, e)}

BuildSeasonRows(event, history, picks, season, checked, existing) ==
  [rows |-> [e \in DOMAIN history.current |->
               SeasonRow(event, history, picks, season, checked, existing, e)],
   evidence |-> EvidenceCandidates(history, existing)]

-----------------------------------------------------------------------------
(* reconcileProbe.js reads the same rows for the smoke test.               *)

ProbeOutcome(rows, e) ==
  LET previous == IF e = Min(DOMAIN rows) THEN 0 ELSE Lookup(rows, e - 1, [total |-> Null]).total
      delta == rows[e].total - previous
      gross == delta = rows[e].points - rows[e].cost
      net == delta = rows[e].points
  IN CASE previous = Null -> "INCOMPLETE"
       [] OTHER -> IF rows[e].cost = 0 THEN IF net THEN "NO_COST" ELSE "MISMATCH"
                   ELSE IF gross /\ ~net THEN "GROSS"
                   ELSE IF net /\ ~gross THEN "NET" ELSE "MISMATCH"

\* evaluateHistory and combineSemantics, over the histories of several entries.
ProbeSemantics(histories) ==
  LET seen(o) == \E rows \in histories : \E e \in DOMAIN rows : ProbeOutcome(rows, e) = o
  IN CASE seen("GROSS") /\ seen("NET") -> "CONFLICTED"
       [] seen("GROSS") /\ ~seen("NET") -> "GROSS"
       [] seen("NET") /\ ~seen("GROSS") -> "NET"
       [] OTHER -> "UNVERIFIED"

-----------------------------------------------------------------------------
(* Live data: the elements of an event, [fixtures, team], and its fixtures *)
(* as a function from ids to [home, away, finished].                       *)

LiveElementsOf(elements, fixtures) ==
  LET finished(f) == f \in DOMAIN fixtures /\ fixtures[f].finished
      ofTeam(t) == {f \in DOMAIN fixtures : t \in {fixtures[f].home, fixtures[f].away}}
  IN [i \in DOMAIN elements |->
        LET played == elements[i].fixtures
        IN IF played # {} THEN \A f \in played : finished(f)
           ELSE \A f \in ofTeam(elements[i].team) : finished(f)]

-----------------------------------------------------------------------------
\* What a row keeps when another event is synced: all but its chip, which is
\* the history's from then on.
Carried == {"points", "reported", "squad", "hasPicks", "source"}

\* A replay of identical responses changes nothing that is stored and proves
\* nothing again ("a replay of identical responses produces identical
\* documents"); and the sync of one event forgets nothing about another: its
\* squad, what its picks reported, and so a disagreement between its sources.
ReplayAddsNothing(in) ==
  LET sync(event, picks, existing) ==
        BuildSeasonRows(event, in.history, picks, in.season, in.checked, existing)
      first == sync(1, in.picks, <<>>)
      again == sync(1, in.picks, first.rows)
      other == sync(2, in.other, first.rows)
      swapped == sync(1, in.picks, other.rows)
      sameBut(old, new) == \A e \in DOMAIN old.rows, field \in Carried :
                             new.rows[e][field] = old.rows[e][field]
  IN /\ again.rows = first.rows /\ again.evidence = {} /\ other.evidence = {}
     /\ 1 \in DOMAIN other.rows =>
          \A field \in Carried : other.rows[1][field] = first.rows[1][field]
     /\ sameBut(other, swapped)
     /\ \A e \in DOMAIN other.rows : other.rows[e].hasPicks <=> other.rows[e].source # Null

\* The smoke test reads a history as the sync does: the same evidence, the same
\* rows without a hit, the same gaps.
ProbeAgrees(in) ==
  LET rows == in.history.current
      outcome(e) == ProbeOutcome(rows, e)
      status(e) == ReconciliationStatus(rows, e, <<>>, "UNVERIFIED", {})
  IN /\ ProbeSemantics({rows}) = Applied(rows, "UNVERIFIED")
     /\ \A e \in DOMAIN rows :
          /\ outcome(e) \in {"GROSS", "NET"} <=> e \in EvidenceCandidates(in.history, <<>>)
          /\ outcome(e) = "NO_COST" <=> status(e) = "RECONCILED_NO_COST"
          /\ outcome(e) \in {"INCOMPLETE", "MISMATCH"} <=> status(e) = outcome(e)
=============================================================================
