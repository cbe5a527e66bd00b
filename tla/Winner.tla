------------------------------- MODULE Winner -------------------------------
(***************************************************************************)
(* The gameweek result of a group (analytics/eligibility.js,               *)
(* tieBreakers.js, ranking.js and winner.js): who counts, what blocks the  *)
(* result, who wins, and the order of the table.  The winner is found by a *)
(* loop over the tie-break chain and the table by sorting into buckets:    *)
(* two pieces of code that have to agree.                                  *)
(*                                                                         *)
(* `members' is a function from entries to [excluded, joined, synced];     *)
(* `rows' gives the gameweek row of the entries that have one: what Points *)
(* computes, with [chip, captain, total].                                  *)
(***************************************************************************)
EXTENDS Points

SHARED == "SHARED"

\* Higher wins; Null when the data is missing.  No chip (Null) is data.
TieBreakValue(rule, row) ==
  CASE rule = "FEWER_TRANSFER_COST" -> IF row.cost = Null THEN Null ELSE -row.cost
    [] rule = "HIGHER_CAPTAIN_POINTS" -> row.captain
    [] rule = "NO_CHIP_PLAYED" -> IF row.chip = Null THEN 1 ELSE 0
    [] rule = "HIGHER_SEASON_TOTAL" -> row.total

ConfirmedRules ==
  {"FEWER_TRANSFER_COST", "HIGHER_SEASON_TOTAL", "HIGHER_CAPTAIN_POINTS",
   "NO_CHIP_PLAYED", SHARED}

\* Known rules, once each, SHARED last and only there.
IsValidRuleChain(chain) ==
  /\ chain # <<>> /\ chain[Len(chain)] = SHARED
  /\ Range(chain) \subseteq ConfirmedRules
  /\ IsInjective(chain)

HasData(rule, rows, S) == \A m \in S : TieBreakValue(rule, rows[m]) # Null

\* The best of S on a rule: all of S when the rule's data is missing.
TieBreak(rule, rows, S) ==
  IF HasData(rule, rows, S)
  THEN BestBy(S, LAMBDA m : TieBreakValue(rule, rows[m]))
  ELSE S

-----------------------------------------------------------------------------
\* A plausible bug: a missing row means no team, synced or not.
ReasonWithoutProof(members, rows, event, m) ==
  IF members[m].excluded THEN "EXCLUDED"
  ELSE IF members[m].joined # Null /\ event < OrElse(members[m].joined, event)
  THEN "JOINED_LATER"
  ELSE IF m \notin DOMAIN rows THEN "NO_TEAM" ELSE Null

\* Why a member does not count, in the code's order of precedence: no team
\* needs the proof that its history was read and has no such event.
IneligibleReason(members, rows, event, m) ==
  CASE members[m].excluded -> "EXCLUDED"
    [] ~members[m].excluded /\ members[m].joined # Null
         /\ event < OrElse(members[m].joined, event) -> "JOINED_LATER"
    [] OTHER -> IF members[m].synced /\ m \notin DOMAIN rows THEN "NO_TEAM" ELSE Null

Eligible(members, rows, event) ==
  {m \in DOMAIN members : IneligibleReason(members, rows, event, m) = Null}

\* The eligible members without a row that reconciled.
BlockedBy(members, rows, event) ==
  {m \in Eligible(members, rows, event) :
     m \notin DOMAIN rows \/ ~IsReconciled(rows[m].status)}

-----------------------------------------------------------------------------
Score(winnerRule, row) == IF winnerRule = "GROSS_POINTS" THEN row.gross ELSE row.net

\* The rank from the score alone: one more than the entries with a higher one.
CompetitionRanks(score) ==
  [m \in DOMAIN score |-> 1 + Cardinality({o \in DOMAIN score : score[o] > score[m]})]

\* The entries still tied with m after the first i rules of the chain: a rule
\* without data for all of them separates nobody.
TiedAfter(rows, S, score, chain, m) ==
  LET tied[i \in 0..Len(chain)] ==
        IF i = 0 THEN {o \in S : score[o] = score[m]}
        ELSE IF HasData(chain[i], rows, tied[i - 1])
        THEN {o \in tied[i - 1] :
                TieBreakValue(chain[i], rows[o]) = TieBreakValue(chain[i], rows[m])}
        ELSE tied[i - 1]
  IN tied

\* What puts a before b: the score, the first rule that separates the two
\* while they are tied, else the smaller entry id.
Separator(rows, S, score, chain, a, b) ==
  LET tied == TiedAfter(rows, S, score, chain, a)
      separating == {i \in 1..Len(chain) : b \in tied[i - 1] \ tied[i]}
  IN CASE score[a] # score[b] -> [by |-> Null, first |-> score[a] > score[b]]
       [] score[a] = score[b] /\ separating # {} ->
            LET rule == chain[Min(separating)]
            IN [by |-> rule,
                first |-> TieBreakValue(rule, rows[a]) > TieBreakValue(rule, rows[b])]
       [] OTHER -> [by |-> "ENTRY_ID_FALLBACK", first |-> a < b]

\* The unique order of the table, and what put each row below the one before.
ResolvePositions(rows, S, score, tieBreakRules) ==
  LET chain == SelectSeq(tieBreakRules, LAMBDA rule : rule # SHARED)
      before(a, b) == Separator(rows, S, score, chain, a, b).first
      position(m) == 1 + Cardinality({o \in S \ {m} : before(o, m)})
      previous(m) == CHOOSE o \in S : position(o) = position(m) - 1
  IN [m \in S |->
       [position |-> position(m),
        decidedBy |-> IF position(m) = 1 THEN Null
                      ELSE Separator(rows, S, score, chain, previous(m), m).by]]

\* A plausible bug: a rule drops the candidates whose data is missing.
NarrowToKnown(rows, candidates, tieBreakRules) ==
  LET known(rule, S) == {m \in S : TieBreakValue(rule, rows[m]) # Null}
      step(s, rule) ==
        IF rule = SHARED \/ known(rule, s.left) = {} THEN s
        ELSE [s EXCEPT !.left = BestBy(known(rule, s.left),
                                       LAMBDA m : TieBreakValue(rule, rows[m]))]
      end == FoldLeft(step, [left |-> candidates, ended |-> TRUE,
                             applied |-> Null, missing |-> {}], tieBreakRules)
  IN [end EXCEPT !.applied = IF Cardinality(end.left) > 1 THEN SHARED ELSE Null]

\* The loop over the chain: it stops at one candidate or at SHARED.
Narrow(rows, candidates, tieBreakRules) ==
  LET step(s, rule) ==
        IF s.ended \/ Cardinality(s.left) = 1 THEN s
        ELSE IF rule = SHARED THEN [s EXCEPT !.ended = TRUE, !.applied = SHARED]
        ELSE LET next == TieBreak(rule, rows, s.left)
             IN [left |-> next, ended |-> FALSE,
                 applied |-> IF next # s.left THEN rule ELSE s.applied,
                 missing |-> IF HasData(rule, rows, s.left) THEN s.missing
                             ELSE s.missing \cup {rule}]
      end == FoldLeft(step, [left |-> candidates, ended |-> FALSE,
                             applied |-> Null, missing |-> {}], tieBreakRules)
  IN [end EXCEPT !.applied =
        IF Cardinality(end.left) > 1 THEN SHARED ELSE end.applied]

ComputeGwResult(group, members, rows, event) ==
  LET eligible == Eligible(members, rows, event)
      blocked == BlockedBy(members, rows, event)
      score == [m \in eligible |-> Score(group.winnerRule, rows[m])]
      decided == blocked = {} /\ eligible # {}
      narrowed == Narrow(rows, BestBy(eligible, LAMBDA m : score[m]), group.tieBreakRules)
  IN [status |-> IF blocked = {} THEN "PROVISIONAL" ELSE "BLOCKED",
      eligible |-> eligible,
      ineligible |-> [m \in DOMAIN members \ eligible |->
                        IneligibleReason(members, rows, event, m)],
      blockedBy |-> blocked,
      winners |-> IF decided THEN narrowed.left ELSE {},
      applied |-> IF decided THEN narrowed.applied ELSE Null,
      missing |-> IF decided THEN narrowed.missing ELSE {},
      ranks |-> IF decided THEN CompetitionRanks(score) ELSE <<>>,
      table |-> IF decided
                THEN ResolvePositions(rows, eligible, score, group.tieBreakRules)
                ELSE <<>>]

-----------------------------------------------------------------------------
\* The winners are the top of the table: the loop that picks them and the
\* buckets that order it agree, more than one winner means that no rule of the
\* chain could separate them, and the entry id never decides who wins.
LeadsTable(group, rows, result) ==
  LET winners == result.winners
      table == result.table
  IN /\ {table[m].position : m \in DOMAIN table} = 1..Cardinality(DOMAIN table)
     /\ DOMAIN table # {} =>
          /\ winners # {} /\ \A w \in winners : result.ranks[w] = 1
          /\ {table[w].position : w \in winners} = 1..Cardinality(winners)
          /\ Cardinality(winners) > 1 <=> result.applied = SHARED
     /\ \A m \in DOMAIN table \ winners :
          table[m].position = Cardinality(winners) + 1 =>
            table[m].decidedBy # "ENTRY_ID_FALLBACK"
     /\ \A a, b \in DOMAIN table :
          table[a].position < table[b].position => result.ranks[a] <= result.ranks[b]

\* A member that may have scored more than anyone, because its history was not
\* read or its points did not reconcile, keeps the result blocked: a decided
\* result has the reconciled points of everyone who is not out for a reason
\* that could be proved.
NobodySkipped(members, rows, event, result) ==
  result.status = "PROVISIONAL" =>
    \A m \in DOMAIN members :
      \/ members[m].excluded
      \/ members[m].joined # Null /\ event < OrElse(members[m].joined, event)
      \/ members[m].synced /\ m \notin DOMAIN rows
      \/ m \in DOMAIN rows /\ rows[m].net # Null
=============================================================================
