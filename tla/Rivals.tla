------------------------------- MODULE Rivals -------------------------------
(***************************************************************************)
(* Rival analytics (analytics/rivals.js, services/rivalsModel.js): the     *)
(* leaderboard, "spy vs me", the strategy lab and the rival radar, all     *)
(* computed on one read of the synced rows and squads up to an event.      *)
(*                                                                         *)
(* The input is a record: `event', `me' (Null when unset), `members' (a    *)
(* function to whether each is excluded), `rows' and `squads' (functions   *)
(* from the <<entry, event>> pairs stored to [score, cost, total] and      *)
(* [xi, bench, captain]), `ep' and `team' (of an element, or Null),        *)
(* `upcoming' (a set of [event, home, away, homeFdr, awayFdr]), `bought'   *)
(* (a function from elements to the entries that bought them) and `chips'  *)
(* (a function from entries to the chips they have left, Null when the     *)
(* rules are unknown).  Averages are integers, in tenths.                   *)
(***************************************************************************)
EXTENDS Values

CONSTANT FormWindow   \* THREAT_RULE.formWindow: 3
CONSTANT FormAhead    \* THREAT_RULE.formAhead, points per gameweek: 5

ASSUME RivalsAssumption == FormWindow \in Nat \ {0} /\ FormAhead \in Nat \ {0}

FdrWindow == 3
LastGw == 38

Ids(in) == {m \in DOMAIN in.members : ~in.members[m]}
Me(in) == IF in.me \in Ids(in) THEN in.me ELSE Null

\* round1(mean(...)) in tenths, Null of nothing.
MeanTenths(S, value(_)) ==
  IF S = {} THEN Null ELSE Rounded(10 * SumOf(S, value), Cardinality(S))

-----------------------------------------------------------------------------
\* The events of an entry's rows up to the selected one, and those of them
\* whose points reconciled: an event without a score is skipped, never zero.
RowEvents(in, m) == {g \in 1..in.event : <<m, g>> \in DOMAIN in.rows}
Scored(in, m) == {g \in RowEvents(in, m) : in.rows[<<m, g>>].score # Null}
\* A plausible bug: the window counts gameweeks, not scored gameweeks.
LastEvents(in, m) == Scored(in, m) \cap (in.event - FormWindow + 1)..in.event

LastScored(in, m) ==
  {g \in Scored(in, m) : Cardinality({h \in Scored(in, m) : h > g}) < FormWindow}

GwScore(in, m) ==
  IF in.event \in Scored(in, m) THEN in.rows[<<m, in.event>>].score ELSE Null
Total(in, m) ==
  IF RowEvents(in, m) = {} THEN Null ELSE in.rows[<<m, Max(RowEvents(in, m))>>].total
Form(in, m) == MeanTenths(LastScored(in, m), LAMBDA g : in.rows[<<m, g>>].score)
Hits(in, m) == SumOf(RowEvents(in, m), LAMBDA g : in.rows[<<m, g>>].cost)

\* The latest squad known, and the eleven, the fifteen and captain it names.
SquadEvents(in, m) == {g \in 1..in.event : <<m, g>> \in DOMAIN in.squads}
SquadAt(in, m) ==
  IF SquadEvents(in, m) = {} THEN [xi |-> {}, bench |-> {}, captain |-> Null]
  ELSE in.squads[<<m, Max(SquadEvents(in, m))>>]
Squad15(in, m) == SquadAt(in, m).xi \cup SquadAt(in, m).bench

-----------------------------------------------------------------------------
\* The entries with a value, ranked with ties; the order breaks them by entry.
Ranked(in, value(_)) == {m \in Ids(in) : value(m) # Null}
OrderBy(in, value(_)) ==
  SetToSortSeq(Ranked(in, value),
               LAMBDA a, b : value(a) > value(b) \/ (value(a) = value(b) /\ a < b))

RankBy(in, value(_)) ==
  LET ranked == Ranked(in, value)
  IN [m \in ranked |-> RankIn(ranked, m, value)]

Overall(in) == RankBy(in, LAMBDA m : Total(in, m))
Leaderboard(in) == OrderBy(in, LAMBDA m : Total(in, m))
GwRanks(in) == RankBy(in, LAMBDA m : GwScore(in, m))
Podium(in) == {m \in DOMAIN Overall(in) : Overall(in)[m] <= 3}
Unranked(in) == Ids(in) \ DOMAIN Overall(in)
GwTop(in) ==
  BestBy(Ranked(in, LAMBDA m : GwScore(in, m)), LAMBDA m : GwScore(in, m))

\* The neighbours of "me" in the order, with the gap to each.
Closest(in) ==
  LET order == Leaderboard(in)
      at == CHOOSE i \in DOMAIN order : order[i] = Me(in)
      neighbour(i) ==
        IF i \in DOMAIN order
        THEN [entry |-> order[i], gap |-> Total(in, order[i]) - Total(in, Me(in))]
        ELSE Null
  IN IF Me(in) \in DOMAIN Overall(in)
     THEN [above |-> neighbour(at - 1), below |-> neighbour(at + 1)] ELSE Null

Difference(a, b) == IF a = Null \/ b = Null THEN Null ELSE a - b
GwDiff(in, m) == Difference(GwScore(in, m), GwScore(in, Me(in)))
OverallDiff(in, m) == Difference(Total(in, m), Total(in, Me(in)))

\* A plausible bug: a gameweek the rival has no score in is won.
HeadToHeadForfeit(in, m) ==
  LET both == Scored(in, Me(in))
      mine(g) == in.rows[<<Me(in), g>>].score
      theirs(g) == IF g \in Scored(in, m) THEN in.rows[<<m, g>>].score ELSE -1
  IN [wins |-> Cardinality({g \in both : mine(g) > theirs(g)}),
      losses |-> Cardinality({g \in both : mine(g) < theirs(g)}),
      draws |-> Cardinality({g \in both : mine(g) = theirs(g)}),
      gws |-> Cardinality(both)]

\* The gameweeks both have a score in, won, lost or drawn by "me".
HeadToHead(in, m) ==
  LET both == Scored(in, m) \cap Scored(in, Me(in))
      mine(g) == in.rows[<<Me(in), g>>].score
      theirs(g) == in.rows[<<m, g>>].score
  IN [wins |-> Cardinality({g \in both : mine(g) > theirs(g)}),
      losses |-> Cardinality({g \in both : mine(g) < theirs(g)}),
      draws |-> Cardinality({g \in both : mine(g) = theirs(g)}),
      gws |-> Cardinality(both)]

Overlap(in, m) ==
  LET mine == SquadAt(in, Me(in)).xi
      theirs == SquadAt(in, m).xi
  IN IF mine = {} \/ theirs = {} THEN Null
     ELSE [shared |-> theirs \cap mine, theirOnly |-> theirs \ mine]

-----------------------------------------------------------------------------
\* The form to beat: "my" form, else the mean of the rounded forms known.
Baseline(in) ==
  LET known == {m \in Ids(in) : Form(in, m) # Null}
  IN IF Me(in) \in known THEN Form(in, Me(in))
     ELSE IF known = {} THEN Null
     ELSE Rounded(SumOf(known, LAMBDA m : Form(in, m)), Cardinality(known))

\* Two points for a hot form, one for a better one; one for each kind of chip.
ThreatPoints(in, m) ==
  LET form == Form(in, m)
      base == Baseline(in)
      left == IF in.chips = Null THEN {} ELSE Lookup(in.chips, m, {})
      forForm == CASE form = Null \/ base = Null -> 0
                   [] OTHER -> IF form - base >= 10 * FormAhead THEN 2
                               ELSE IF form > base THEN 1 ELSE 0
      forChips == {kind \in {{"3xc"}, {"bboost"}, {"freehit", "wildcard"}} :
                     kind \cap left # {}}
  IN forForm + Cardinality(forChips)

ThreatLevel(points) ==
  CASE points >= 3 -> "HIGH" [] points = 2 -> "MEDIUM" [] OTHER -> "LOW"
ThreatComplete(in, m) == Form(in, m) # Null /\ in.chips # Null

-----------------------------------------------------------------------------
\* Who bought each player this gameweek and how many squads own him now.
Bandwagon(in) ==
  LET buyers(e) == in.bought[e] \cap Ids(in)
      mine == Squad15(in, Me(in))
  IN [e \in {x \in DOMAIN in.bought : buyers(x) # {}} |->
        [boughtBy |-> buyers(e),
         ownedBy |-> Cardinality({m \in Ids(in) : e \in Squad15(in, m)}),
         of |-> Cardinality({m \in Ids(in) : SquadEvents(in, m) # {}}),
         iOwn |-> IF Me(in) = Null THEN Null ELSE e \in mine]]

\* Expected points of the latest eleven, the captain's twice: unknown when no
\* starter has an estimate, never 0.
ExpectedPoints(in, m) ==
  LET squad == SquadAt(in, m)
      known == {e \in squad.xi : in.ep[e] # Null}
      times(e) == IF e = squad.captain THEN 2 ELSE 1
  IN [tenths |-> IF known = {} THEN Null ELSE SumOf(known, LAMBDA e : in.ep[e] * times(e)),
      missing |-> IF squad.xi = {} THEN Null ELSE Cardinality(squad.xi \ known)]

\* Every fixture of the eleven's clubs in the next gameweeks that has a
\* difficulty; a club counts once for each of its players.
FixtureDifficulty(in, m) ==
  LET window == {g \in (in.event + 1)..(in.event + FdrWindow) : g <= LastGw}
      xi == SquadAt(in, m).xi
      fdr(e, f) == IF f.home = in.team[e] THEN f.homeFdr ELSE f.awayFdr
      games == {<<e, f>> \in {x \in xi : in.team[x] # Null} \X in.upcoming :
                  /\ f.event \in window /\ in.team[e] \in {f.home, f.away}
                  /\ fdr(e, f) # Null}
  IN [mean |-> MeanTenths(games, LAMBDA g : fdr(g[1], g[2])),
      unknown |-> Cardinality({e \in xi : in.team[e] = Null})]

-----------------------------------------------------------------------------
\* Seen from the other side every comparison is the same one: what "I" win
\* against a rival he loses against me, the differences of the gameweek and of
\* the season change sign, and the shared players are the same.
MirroredViews(in) ==
  Me(in) # Null => \A rival \in Ids(in) \ {Me(in)} :
    LET other == [in EXCEPT !.me = rival]
        mine == HeadToHead(in, rival)
        his == HeadToHead(other, Me(in))
        negated(a, b) == (a = Null <=> b = Null) /\ (a # Null => a = -b)
    IN /\ mine.wins = his.losses /\ mine.losses = his.wins /\ mine.draws = his.draws
       /\ mine.wins + mine.losses + mine.draws = mine.gws
       /\ negated(GwDiff(in, rival), GwDiff(other, Me(in)))
       /\ negated(OverallDiff(in, rival), OverallDiff(other, Me(in)))
       /\ (Overlap(in, rival) = Null <=> Overlap(other, Me(in)) = Null)
       /\ Overlap(in, rival) # Null =>
            Overlap(in, rival).shared = Overlap(other, Me(in)).shared

\* The ranks, the order, the gaps and the podium are one ranking: nobody
\* stands above a better total, equal totals share a rank, the neighbours of
\* "me" are no further than anyone else, and who has no row is unranked
\* instead of last.
LeaderboardConsistent(in) ==
  LET order == Leaderboard(in)
      ranks == Overall(in)
  IN /\ Range(order) \cup Unranked(in) = Ids(in) /\ IsInjective(order)
     /\ \A i, j \in DOMAIN order :
          /\ i < j => Total(in, order[i]) >= Total(in, order[j])
          /\ ranks[order[i]] = ranks[order[j]] <=> Total(in, order[i]) = Total(in, order[j])
          /\ ranks[order[i]] <= i
     /\ order # <<>> => order[1] \in Podium(in)
     /\ Closest(in) # Null =>
          \A m \in DOMAIN ranks \ {Me(in)} :
            LET gap == Total(in, m) - Total(in, Me(in))
            IN /\ gap > 0 => Closest(in).above # Null /\ Closest(in).above.gap <= gap
               /\ gap < 0 => Closest(in).below # Null /\ Closest(in).below.gap >= gap

\* Form is judged on an entry's own last scored gameweeks, as many as there
\* are up to the window, whatever was skipped in between; his form is never
\* above his own best score; and a rival is called a high threat only when it
\* is known which chips are left.
FormIsOwn(in) ==
  \A m \in Ids(in) :
    /\ Cardinality(LastScored(in, m)) = Min({FormWindow, Cardinality(Scored(in, m))})
    /\ Form(in, m) # Null =>
         \E g \in Scored(in, m) : 10 * in.rows[<<m, g>>].score >= Form(in, m)
    /\ ThreatLevel(ThreatPoints(in, m)) = "HIGH" => in.chips # Null
=============================================================================
