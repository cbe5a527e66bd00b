------------------------------- MODULE Planner -------------------------------
(***************************************************************************)
(* The wildcard planner of the browser client (client/src/lib/planner.js,  *)
(* pages/Planner.jsx): drafts of a squad that the user fills, empties and  *)
(* lines up, saved in the browser after every change.  The page guards an  *)
(* addition against the squad it shows, the starting eleven is a second    *)
(* list kept beside the squad, and evaluate() judges the two.              *)
(***************************************************************************)
EXTENDS Values

CONSTANTS
  Player,       \* the players, by element id
  PositionOf,   \* of each player
  ClubOf,       \* of each player
  Estimate,     \* FPL's expected points of each player, or Null
  Position,     \* goalkeeper, defender, ...
  Shape,        \* SQUAD_SHAPE: players of a squad, by position
  XiMin, XiMax, \* XI_MIN and XI_MAX: of a starting eleven, by position
  XiPlayers,    \* XI_SIZE: 11
  ClubLimit,    \* MAX_PER_CLUB: 3
  Price,        \* of each player, in tenths
  Mine,         \* the latest synced squad of "me"
  Budget,       \* budgets a user sets, in tenths
  MaxDrafts     \* bound: drafts a user opens

VARIABLES
  drafts,   \* the drafts open in the page, a sequence of [squad, xi, budget]
  active,   \* the index of the draft shown, 0 for none
  storage   \* what the browser keeps: [drafts, active], or Null if it refuses

plannerVars == <<drafts, active, storage>>

SquadPlayers == SumOf(Position, LAMBDA pos : Shape[pos])
At(pos, S) == {p \in S : PositionOf[p] = pos}
OfClub(p, S) == {q \in S : ClubOf[q] = ClubOf[p]}

\* The higher estimate first, a missing one last, ties by element id.
BetterEstimate(p, q) ==
  LET ep(x) == OrElse(Estimate[x], -1)
  IN ep(p) > ep(q) \/ (ep(p) = ep(q) /\ p < q)
\* A plausible bug: simply the best players.
BestPlayers(S) ==
  {p \in S : Cardinality({q \in S : BetterEstimate(q, p)}) < XiPlayers}

\* The minimum of each position first, then the best of the rest, up to the size
\* of an eleven.  Whoever the loop comes to has all better ones of that position
\* in the eleven before, so a position is full for those beyond its maximum.
BestXi(S) ==
  LET place(p, T) == Cardinality({q \in T : BetterEstimate(q, p)}) + 1
      among(limit) == {p \in S : place(p, At(PositionOf[p], S)) <= limit[PositionOf[p]]}
      least == among(XiMin)
      rest == among(XiMax) \ least
  IN least \cup {p \in rest : Cardinality(least) + place(p, rest) <= XiPlayers}

\* Why a player cannot be added now.
Blocked(squad, p) ==
  \/ p \in squad
  \/ Cardinality(At(PositionOf[p], squad)) >= Shape[PositionOf[p]]
  \/ Cardinality(OfClub(p, squad)) >= ClubLimit

\* evaluate(): what is wrong with a draft.  The eleven is judged only when the
\* squad is full.
Problems(draft) ==
  LET squad == draft.squad
      xi == draft.xi \cap squad
      count(pos) == Cardinality(At(pos, xi))
      full == Cardinality(squad) = SquadPlayers
  IN {problem \in {"too many", "club", "budget", "eleven", "formation"} :
        CASE problem = "too many" -> \E pos \in Position : Cardinality(At(pos, squad)) > Shape[pos]
          [] problem = "club" -> \E p \in squad : Cardinality(OfClub(p, squad)) > ClubLimit
          [] problem = "budget" -> SumOf(squad, LAMBDA p : Price[p]) > draft.budget
          [] problem = "eleven" -> full /\ Cardinality(xi) # XiPlayers
          [] problem = "formation" ->
               full /\ \E pos \in Position : count(pos) \notin XiMin[pos]..XiMax[pos]}

Valid(draft) == Cardinality(draft.squad) = SquadPlayers /\ Problems(draft) = {}

\* The estimate of an eleven, the captain's (its best) twice, missing ones 0.
ExpectedOf(xi) ==
  LET ep(p) == OrElse(Estimate[p], 0)
      captain == {p \in xi : \A q \in xi \ {p} : BetterEstimate(p, q)}
  IN SumOf(xi, ep) + SumOf(captain, ep)

-----------------------------------------------------------------------------
\* A browser may refuse to store anything; the page works without it.
Nothing == [drafts |-> <<>>, active |-> 0]

Init ==
  /\ drafts = <<>>
  /\ active = 0
  /\ storage \in {Nothing, Null}

Current == drafts[active]

\* Every change is followed by the effect that saves it.
Keep(newDrafts, newActive) ==
  /\ drafts' = newDrafts
  /\ active' = newActive
  /\ storage' = IF storage = Null THEN Null
                ELSE [drafts |-> newDrafts, active |-> newActive]

\* A new draft from my squad or from nothing, shown at once.
Create(squad, budget) ==
  /\ Len(drafts) < MaxDrafts
  /\ Keep(Append(drafts, [squad |-> squad, xi |-> BestXi(squad), budget |-> budget]),
          Len(drafts) + 1)

\* The confirmed removal of the draft shown; the first one is shown instead.
RemoveDraft ==
  /\ active # 0
  /\ LET rest == RemoveAt(drafts, active)
     IN Keep(rest, IF rest = <<>> THEN 0 ELSE 1)

Update(draft) == Keep([drafts EXCEPT ![active] = draft], active)

\* The picker offers only players that are not blocked; the fifteenth player
\* lines up the best eleven if none was lined up by hand.
Add(p) ==
  /\ active # 0 /\ ~Blocked(Current.squad, p)
  /\ LET squad == Current.squad \cup {p}
         full == Cardinality(squad) = SquadPlayers
     IN Update([Current EXCEPT !.squad = squad, !.xi =
                  IF full /\ Current.xi = {} THEN BestXi(squad) ELSE Current.xi])

\* A plausible bug: the dropped player stays in the eleven.
DropFromSquad(p) ==
  /\ active # 0 /\ p \in Current.squad
  /\ Update([Current EXCEPT !.squad = @ \ {p}])

Drop(p) ==
  /\ active # 0 /\ p \in Current.squad
  /\ Update([Current EXCEPT !.squad = @ \ {p}, !.xi = @ \ {p}])

ToggleXi(p) ==
  /\ active # 0 /\ p \in Current.squad
  /\ Update([Current EXCEPT !.xi = IF p \in Current.xi THEN Current.xi \ {p}
                                   ELSE Current.xi \cup {p}])

\* The button that lines up the best eleven.
LineUp ==
  /\ active # 0 /\ Current.squad # {}
  /\ Update([Current EXCEPT !.xi = BestXi(Current.squad)])

SetBudget(budget) ==
  /\ active # 0
  /\ Update([Current EXCEPT !.budget = budget])

Show(i) ==
  /\ i \in DOMAIN drafts /\ i # active
  /\ Keep(drafts, i)

\* A plausible bug: only the drafts are read back.
ReloadDrafts ==
  LET kept == IF storage = Null THEN Nothing ELSE storage
  IN Keep(kept.drafts, 0)

\* The page is loaded again: what it can read back, else no draft.
Reload ==
  LET kept == IF storage = Null THEN Nothing ELSE storage
  IN Keep(kept.drafts, kept.active)

Next ==
  \/ \E squad \in {Mine, {}}, budget \in Budget : Create(squad, budget)
  \/ RemoveDraft
  \/ \E p \in Player : Add(p) \/ Drop(p) \/ ToggleXi(p)
  \/ LineUp
  \/ \E budget \in Budget : SetBudget(budget)
  \/ \E i \in DOMAIN drafts : Show(i)
  \/ Reload

Spec == Init /\ [][Next]_plannerVars

-----------------------------------------------------------------------------
\* The elevens a full squad allows.
Elevens(squad) ==
  {xi \in SUBSET squad :
     /\ Cardinality(xi) = XiPlayers
     /\ \A pos \in Position : Cardinality(At(pos, xi)) \in XiMin[pos]..XiMax[pos]}

\* Whatever was added, dropped, lined up, saved and loaded again, every draft
\* stays one the editor can finish: the eleven is part of the squad, no
\* position and no club is over its limit, the draft shown exists, and a
\* draft called valid has an eleven that is allowed.
DraftsSound ==
  /\ active \in 0..Len(drafts) /\ (active = 0 => drafts = <<>>)
  /\ \A i \in DOMAIN drafts :
       /\ drafts[i].xi \subseteq drafts[i].squad
       /\ Problems(drafts[i]) \cap {"too many", "club"} = {}
       /\ Valid(drafts[i]) => drafts[i].xi \in Elevens(drafts[i].squad)

\* Lining up greedily is best: for every full squad the editor can reach, the
\* eleven it proposes is allowed and no allowed one is expected to score more.
BestXiIsBest ==
  \A i \in DOMAIN drafts :
    LET squad == drafts[i].squad
    IN Cardinality(squad) = SquadPlayers =>
         /\ BestXi(squad) \in Elevens(squad)
         /\ \A xi \in Elevens(squad) : ExpectedOf(xi) <= ExpectedOf(BestXi(squad))
=============================================================================
