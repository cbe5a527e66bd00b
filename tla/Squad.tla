-------------------------------- MODULE Squad --------------------------------
(***************************************************************************)
(* What a manager's fifteen picks were worth (analytics/effectiveSquad.js) *)
(* and what a group's squads add up to (analytics/ownership.js,            *)
(* services/ownershipModel.js, services/chipModel.js,                      *)
(* analytics/transfers.js).  Chips, auto-subs and the passing of the       *)
(* armband to the vice-captain all change the multiplier of a pick, and    *)
(* FPL's own multiplier is only compared with the derived one.             *)
(*                                                                         *)
(* A squad is [order, captain, vice, chip, subs, fpl, gross]: the elements *)
(* by squad position, the picked captaincy, the chip, the auto-subs as     *)
(* pairs of elements, FPL's multipliers and the gross points of the row.   *)
(* `live' gives the elements that have live data: [minutes, points,        *)
(* settled].                                                               *)
(***************************************************************************)
EXTENDS Values

CONSTANTS
  XiSize,       \* positions that score without a bench boost: 11
  SquadSize     \* picks of a squad: 15

ASSUME SquadAssumption == XiSize \in Nat \ {0} /\ SquadSize \in Nat /\ XiSize <= SquadSize

KnownChips == {"bboost", "3xc", "wildcard", "freehit"}

\* pickViolations: nothing asks the captain to be in the eleven.
IsValidSquad(squad) ==
  /\ Len(squad.order) = SquadSize
  /\ IsInjective(squad.order)
  /\ squad.captain \in Range(squad.order) /\ squad.vice \in Range(squad.order)
  /\ squad.captain # squad.vice

Elements(squad) == Range(squad.order)
Xi(squad) == {squad.order[i] : i \in 1..XiSize}
BenchBoost(squad) == squad.chip = "bboost"
CaptainMultiplier(squad) == IF squad.chip = "3xc" THEN 3 ELSE 2

Stat(live, e) == Lookup(live, e, [minutes |-> 0, points |-> 0, settled |-> FALSE])
Played(live, e) == Stat(live, e).minutes > 0
Settled(live, e) == Stat(live, e).settled \/ Played(live, e)

\* A plausible bug: auto-subs are applied under a bench boost too, and the
\* player who goes off keeps his points.
BaseKeepsSubbedOut(squad) ==
  LET start == [e \in Elements(squad) |->
                  IF BenchBoost(squad) \/ e \in Xi(squad) THEN 1 ELSE 0]
      swap(base, sub) == [e \in DOMAIN base |-> IF e = sub.in THEN 1 ELSE base[e]]
  IN FoldLeft(swap, start, squad.subs)

\* 1 for who scores and 0 for the bench; the auto-subs in FPL's order, and
\* none of them under a bench boost.
BaseMultipliers(squad) ==
  LET start == [e \in Elements(squad) |->
                  IF BenchBoost(squad) \/ e \in Xi(squad) THEN 1 ELSE 0]
      swap(base, sub) ==
        [e \in DOMAIN base |-> CASE e = sub.in -> 1
                                 [] e # sub.in /\ e = sub.out -> 0
                                 [] OTHER -> base[e]]
  IN IF BenchBoost(squad) THEN start ELSE FoldLeft(swap, start, squad.subs)

\* A plausible bug: the vice-captain takes over on the bench as well.
CaptainOffTheBench(squad, live) ==
  LET base == BaseMultipliers(squad)
  IN IF Played(live, squad.captain) THEN [element |-> squad.captain, via |-> "CAPTAIN"]
     ELSE IF ~Settled(live, squad.captain)
     THEN [element |-> squad.captain, via |-> "PENDING"]
     ELSE IF Played(live, squad.vice) THEN [element |-> squad.vice, via |-> "VICE"]
     ELSE [element |-> Null, via |-> "NONE"]

\* Who wears the armband, and why: the captain if he played, nobody certain
\* while his matches may still be to come, then the vice-captain likewise.
EffectiveCaptain(squad, live) ==
  LET base == BaseMultipliers(squad)
      scores(e) == Played(live, e) /\ base[e] > 0
      captain == squad.captain
      vice == squad.vice
  IN CASE scores(captain) -> [element |-> captain, via |-> "CAPTAIN"]
       [] ~Settled(live, captain) -> [element |-> captain, via |-> "PENDING"]
       [] ~scores(captain) /\ Settled(live, captain) /\ scores(vice) ->
            [element |-> vice, via |-> "VICE"]
       [] OTHER -> [element |-> Null,
                    via |-> IF Settled(live, vice) THEN "NONE" ELSE "PENDING"]

EffectiveMultipliers(squad, live) ==
  LET base == BaseMultipliers(squad)
      armband == EffectiveCaptain(squad, live).element
  IN [e \in DOMAIN base |->
        IF e = armband /\ base[e] > 0 THEN CaptainMultiplier(squad) ELSE base[e]]

PickedMultiplier(squad, e) ==
  CASE e = squad.captain -> CaptainMultiplier(squad)
    [] OTHER -> IF BenchBoost(squad) \/ e \in Xi(squad) THEN 1 ELSE 0

\* The derived squad: multipliers, points, and the two cross-checks against
\* FPL, made only once the captaincy is settled.
DeriveEffectiveSquad(squad, live, grossGwPoints) ==
  LET effective == EffectiveMultipliers(squad, live)
      captain == EffectiveCaptain(squad, live)
      points == SumOf(Elements(squad), LAMBDA e : effective[e] * Stat(live, e).points)
      settled == captain.via # "PENDING"
  IN [squad |-> squad,
      effective |-> effective,
      picked |-> [e \in Elements(squad) |-> PickedMultiplier(squad, e)],
      captain |-> captain,
      points |-> points,
      captainPoints |-> CASE ~settled -> Null
                          [] settled /\ captain.element = Null -> 0
                          [] OTHER -> Stat(live, captain.element).points
                                        * effective[captain.element],
      warnings |->
        {w \in {"UNKNOWN_CHIP", "FPL_MULTIPLIER_DIFFERS", "EFFECTIVE_POINTS_MISMATCH"} :
           CASE w = "UNKNOWN_CHIP" -> squad.chip \notin Maybe(KnownChips)
             [] w = "FPL_MULTIPLIER_DIFFERS" -> settled /\ squad.fpl # effective
             [] OTHER -> settled /\ grossGwPoints \notin {Null, points}}]

\* What the chip did to the multipliers, as the chip view reports it.
ScoringEffect(squad) ==
  CASE BenchBoost(squad) -> "BENCH_BOOST"
    [] ~BenchBoost(squad) /\ CaptainMultiplier(squad) = 3 -> "TRIPLE_CAPTAIN"
    [] OTHER -> "NONE"

-----------------------------------------------------------------------------
(* The squads of a group: a function from the entries whose picks are      *)
(* valid to their derived squads.                                          *)

\* The entries of a scope, and the counts of one element over them.
ScopeStats(squads, scope, e) ==
  LET owners == {m \in scope : e \in Elements(squads[m].squad)}
  IN [squad |-> Cardinality(owners),
      xi |-> Cardinality({m \in owners : e \in Xi(squads[m].squad)}),
      captain |-> Cardinality({m \in owners : squads[m].squad.captain = e}),
      triple |-> Cardinality({m \in owners : /\ squads[m].squad.captain = e
                                             /\ CaptainMultiplier(squads[m].squad) = 3}),
      effCaptain |-> Cardinality({m \in owners : squads[m].captain.element = e}),
      pickedSum |-> SumOf(owners, LAMBDA m : squads[m].picked[e]),
      effSum |-> SumOf(owners, LAMBDA m : squads[m].effective[e])]

\* A plausible bug: a squad that is not eligible is counted as well.
OwnershipOfAll(squads, eligible, me) ==
  LET withPicks == DOMAIN squads
  IN [all |-> withPicks, rivals |-> withPicks \ {me}, missing |-> eligible \ DOMAIN squads,
      rows |-> [e \in UNION {Elements(squads[m].squad) : m \in withPicks} |->
                  [all |-> ScopeStats(squads, withPicks, e),
                   rivals |-> ScopeStats(squads, withPicks, e),
                   mine |-> IF me \in withPicks
                            THEN Lookup(squads[me].effective, e, 0) ELSE Null,
                   owners |-> {m \in withPicks : e \in Elements(squads[m].squad)}]]]

\* Shares are kept as count and denominator: a percentage only divides them.
\* "Me" is one of the rivals' opponents, never one of the rivals.
ComputeOwnership(squads, eligible, me) ==
  LET withPicks == eligible \cap DOMAIN squads
      rivals == withPicks \ {me}
  IN [all |-> withPicks, rivals |-> rivals,
      missing |-> eligible \ DOMAIN squads,
      rows |-> [e \in UNION {Elements(squads[m].squad) : m \in withPicks} |->
                  [all |-> ScopeStats(squads, withPicks, e),
                   rivals |-> ScopeStats(squads, rivals, e),
                   mine |-> IF me \in withPicks
                            THEN Lookup(squads[me].effective, e, 0) ELSE Null,
                   owners |-> {m \in withPicks : e \in Elements(squads[m].squad)}]]]

\* The ownership view: the squads that are not eligible are left out, those
\* with invalid picks are reported and counted as missing, never repaired.
OwnershipView(picks, live, eligible, me) ==
  LET valid == {m \in eligible \cap DOMAIN picks : IsValidSquad(picks[m])}
      squads == [m \in valid |-> DeriveEffectiveSquad(picks[m], live, picks[m].gross)]
  IN [ownership |-> ComputeOwnership(squads, eligible, me),
      squads |-> squads,
      invalid |-> (eligible \cap DOMAIN picks) \ valid,
      pending |-> {m \in valid : squads[m].captain.via = "PENDING"}]

-----------------------------------------------------------------------------
(* The transfers of a gameweek: `lists' gives each synced entry's          *)
(* transfers of the season, [in, out, event], and `costs' the hits of the  *)
(* entries that have a row.                                                *)

SummarizeTransfers(event, eligible, lists, costs) ==
  LET listed == eligible \cap DOMAIN lists
      made(m) == SelectSeq(lists[m], LAMBDA t : t.event = event)
      tally(kind) ==
        LET count(e) == SumOf(listed, LAMBDA m :
                          Cardinality({i \in DOMAIN made(m) : made(m)[i][kind] = e}))
        IN [e \in UNION {{made(m)[i][kind] : i \in DOMAIN made(m)} : m \in listed}
              |-> count(e)]
      paid == {m \in listed \cap DOMAIN costs : costs[m] # Null}
  IN [made |-> [m \in listed |-> made(m)],
      in |-> tally("in"), out |-> tally("out"),
      total |-> SumOf(listed, LAMBDA m : Len(made(m))),
      hits |-> Cardinality({m \in paid : costs[m] > 0}),
      hitCost |-> SumOf(paid, LAMBDA m : costs[m]),
      missing |-> eligible \ DOMAIN lists]

-----------------------------------------------------------------------------
(* Chips: `rules' is a set of windows [name, number, start, stop] and      *)
(* `played' a set of [entry, name, event].                                 *)

LastEvent == 38

\* A plausible bug: windows that touch are taken for disjoint.
ChipRulesMayTouch(rules) ==
  /\ rules # {}
  /\ \A r \in rules : r.number >= 1 /\ 1 <= r.start /\ r.start <= r.stop /\ r.stop <= LastEvent
  /\ \A r, s \in rules : r # s /\ r.name = s.name => r.stop <= s.start \/ s.stop <= r.start

\* The whole set is rejected for one bad window or one overlap.
ValidChipRules(rules) ==
  /\ rules # {}
  /\ \A r \in rules : r.number >= 1 /\ 1 <= r.start /\ r.start <= r.stop /\ r.stop <= LastEvent
  /\ \A r, s \in rules : r # s /\ r.name = s.name => r.stop < s.start \/ s.stop < r.start

ChipAvailability(rules, played, entry) ==
  LET mine == {p \in played : p.entry = entry}
      inWindow(r) == {p \in mine : p.name = r.name /\ p.event \in r.start..r.stop}
  IN [used |-> [r \in rules |-> Cardinality(inWindow(r))],
      available |-> [r \in rules |-> Cardinality(inWindow(r)) < r.number],
      unmapped |-> {p \in mine : p.name \notin {r.name : r \in rules}}]

\* What the two FPL sources say about a member's chip: the declared one of its
\* history, and the one its gameweek row carries (no row is no answer).
ChipState(synced, declared, hasRow, squadChip) ==
  CASE ~synced -> "UNKNOWN"
    [] synced /\ declared # Null ->
         IF hasRow /\ squadChip # declared THEN "SOURCE_DISAGREEMENT" ELSE "PLAYED"
    [] synced /\ declared = Null /\ ~hasRow -> "UNKNOWN"
    [] OTHER -> IF squadChip # Null THEN "ACTIVE_UNCONFIRMED" ELSE "NONE"

\* The smoke test's verdict on the windows: it sorts those of a name by their
\* start and compares each with the one before only.
ChipRulesVerdict(rules) ==
  LET next(r, s) == /\ s # r /\ s.name = r.name /\ s.start >= r.start
                    /\ \A t \in rules \ {r, s} : t.name = r.name => t.start <= r.start \/ t.start >= s.start
  IN /\ rules # {}
     /\ \A r \in rules : r.number >= 1 /\ 1 <= r.start /\ r.start <= r.stop /\ r.stop <= LastEvent
     /\ \A r, s \in rules : next(r, s) => s.start > r.stop

\* loadChips: of what is stored of a season, [rows, seasons, rules], what the
\* members of a group have: a member is synced if its season was ever stored.
LoadChips(stored, members) ==
  LET seasons == Restrict(stored.seasons, members \cap DOMAIN stored.seasons)
      chips(m) == {[entry |-> m, name |-> c.name, event |-> c.event] : c \in seasons[m]}
  IN [synced |-> DOMAIN seasons, rules |-> stored.rules,
      rows |-> Restrict(stored.rows, members \cap DOMAIN stored.rows),
      played |-> UNION {chips(m) : m \in DOMAIN seasons}]

\* The chip view of a gameweek: for each member what it played, by `rows' and by
\* `played', who played which chip, and what is left under the season's rules,
\* which are never made up.  `synced' are the members that were read.
ChipView(members, synced, rows, played, rules, event) ==
  LET mine(m) == {p \in played : p.entry = m /\ p.event = event}
      declared(m) == IF mine(m) = {} THEN Null ELSE (CHOOSE p \in mine(m) : TRUE).name
      state(m) == ChipState(m \in synced, declared(m), m \in DOMAIN rows, Lookup(rows, m, Null))
  IN [gameweek |-> [m \in members |-> [state |-> state(m), declared |-> declared(m)]],
      playedThisEvent |-> LET counted == {m \in members : state(m) = "PLAYED"}
                          IN [name \in {declared(m) : m \in counted} |->
                                {m \in counted : declared(m) = name}],
      availability |-> IF rules = {} THEN Null
                       ELSE [m \in synced |-> ChipAvailability(rules, played, m)],
      missing |-> members \ synced]

-----------------------------------------------------------------------------
\* One armband: the multipliers above 1 are those of one pick, the captain or
\* the vice-captain, who scores and (once settled) played; the squad fields
\* XiSize players or all of them, before and after the auto-subs; and the
\* points split into everyone's once and the armband's extra.
ArmbandOf(squad, live, derived) ==
  LET effective == derived.effective
      extra == {e \in DOMAIN effective : effective[e] > 1}
      fielded == {e \in DOMAIN effective : effective[e] > 0}
      bonus(e) == (CaptainMultiplier(squad) - 1) * Stat(live, e).points
  IN /\ extra \subseteq {squad.captain, squad.vice} /\ Cardinality(extra) <= 1
     /\ \A e \in extra : derived.captain.via \in {"CAPTAIN", "VICE"} => Played(live, e)
     /\ Cardinality(fielded) = IF BenchBoost(squad) THEN SquadSize ELSE XiSize
     /\ derived.points = SumOf(fielded, LAMBDA e : Stat(live, e).points) + SumOf(extra, bonus)
     /\ derived.captain.via \in {"CAPTAIN", "VICE"} <=> derived.captainPoints # Null /\ extra # {}

\* The columns of a group add up: every effective multiplier of every squad
\* that counts is in exactly one row, "me" is exactly the difference between
\* everyone and the rivals, and every eligible member is counted or missing.
OwnershipAddsUp(eligible, me, view) ==
  LET own == view.ownership
      total(scope) == SumOf(DOMAIN own.rows, LAMBDA e : own.rows[e][scope].effSum)
      worth(m) == SumOf(DOMAIN view.squads[m].effective,
                        LAMBDA e : view.squads[m].effective[e])
  IN /\ total("all") = SumOf(own.all, worth)
     /\ total("all") - total("rivals") = IF me \in own.all THEN worth(me) ELSE 0
     /\ own.all \cup own.missing = eligible /\ own.all \cap own.missing = {}
     /\ view.invalid \subseteq own.missing
     /\ \A e \in DOMAIN own.rows :
          own.rows[e].all.effSum - own.rows[e].rivals.effSum = OrElse(own.rows[e].mine, 0)

\* What comes in goes out: over the group the players bought and the players
\* sold are as many as the transfers, each by an eligible entry that was read.
TransfersBalance(eligible, summary) ==
  /\ SumOf(DOMAIN summary.in, LAMBDA e : summary.in[e]) = summary.total
  /\ SumOf(DOMAIN summary.out, LAMBDA e : summary.out[e]) = summary.total
  /\ DOMAIN summary.made \cup summary.missing = eligible
  /\ DOMAIN summary.made \cap summary.missing = {}

\* Under rules that were accepted, a played chip is counted in at most one
\* window, and in none only if the rules do not cover its event or its name.
ChipCountedOnce(rules, played, entry) ==
  LET mine == {p \in played : p.entry = entry}
      chips == ChipAvailability(rules, played, entry)
      covers(r, p) == r.name = p.name /\ p.event \in r.start..r.stop
  IN ValidChipRules(rules) =>
       /\ SumOf(rules, LAMBDA r : chips.used[r])
            = Cardinality({p \in mine : \E r \in rules : covers(r, p)})
       /\ chips.unmapped \cap {p \in mine : \E r \in rules : covers(r, p)} = {}

\* The smoke test accepts the chip rules that a sync accepts.
SmokeAcceptsSame(rules) == ChipRulesVerdict(rules) <=> ValidChipRules(rules)

\* The two halves of the chip view agree: who has played a chip in this
\* gameweek has used one in the window that covers it, nobody counts for two
\* chips, and only a member with a row is said to have played none.
ChipViewAgrees(in) ==
  LET loaded == LoadChips(in, in.members)
      view == ChipView(in.members, loaded.synced, loaded.rows, loaded.played, loaded.rules, in.event)
      names == DOMAIN view.playedThisEvent
      windows(name) == {r \in in.rules : r.name = name /\ in.event \in r.start..r.stop}
  IN /\ view.availability # Null =>
          \A name \in names : \A m \in view.playedThisEvent[name] : \A r \in windows(name) :
            view.availability[m].used[r] >= 1
     /\ \A a, b \in names : a # b => view.playedThisEvent[a] \cap view.playedThisEvent[b] = {}
     /\ \A m \in in.members : view.gameweek[m].state = "NONE" =>
          /\ m \in DOMAIN in.rows /\ m \notin view.missing
          /\ \A name \in names : m \notin view.playedThisEvent[name]
=============================================================================
