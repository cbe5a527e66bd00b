----------------------------- MODULE MCAnalytics ------------------------------
(***************************************************************************)
(* The inputs on which the analytics are checked: small families that hold *)
(* the cases in which two parts of the code could disagree.  Every input   *)
(* is a record with the arguments of the operators it is for.              *)
(***************************************************************************)
EXTENDS ResultModel, Normalize, Squad, Rivals, TransferPage, Anonymize, TLC

\* Histories of up to three gameweeks, one of them perhaps missing, whose
\* season totals follow one reading of the points, the other, or neither; an
\* account of the picks of gameweek 2, and what FPL has checked.
HistoriesOver(events) ==
  LET Rows == [points : {4, 8}, cost : {0, 4}, step : {0, 4, 8}]
      total(h, e) == SumOf({f \in DOMAIN h : f <= e}, LAMBDA f : h[f].step)
      History(h) == [e \in DOMAIN h |-> [points |-> h[e].points, cost |-> h[e].cost,
                                         total |-> total(h, e)]]
  IN {History(h) : h \in UNION {[D -> Rows] : D \in events}}

PointsInputs ==
  [rows : HistoriesOver({{1}, {1, 2}, {1, 3}, {1, 2, 3}}), picks : {<<>>, (2 :> 4), (2 :> 8)}, checked : {{}, {1, 2}},
   season : {"UNVERIFIED", "GROSS"}]

\* One entry's responses: a history with or without a chip, and for each of two
\* gameweeks the picks, which may say something else, or none.
NormalizeInputs ==
  LET Picks(squad) == {Null, [squad |-> squad, points |-> 4, chip |-> Null],
                       [squad |-> squad, points |-> 8, chip |-> "wildcard"]}
  IN [history : [current : HistoriesOver({{1}, {1, 2}, {1, 3}}), chips : {<<>>, (1 :> "wildcard")}],
      picks : Picks({1, 2}), other : {Null, [squad |-> {2, 3}, points |-> 8, chip |-> Null]}, checked : {{}, {1, 2}},
      season : {"UNVERIFIED", "GROSS"}]

\* Live data of a gameweek in which one club plays twice and one not at all.
LiveInputs ==
  LET Fixture(home, away, finished) == [home |-> home, away |-> away, finished |-> finished]
      Players == [fixtures : {{}, {1}, {1, 2}, {9}}, team : {1, 2, 3, 4}]
  IN {[elements |-> e, fixtures |-> <<Fixture(1, 2, d[1]), Fixture(3, 1, d[2])>>,
       finishing |-> f, minutes |-> m] :
        e \in [1..2 -> Players], d \in [1..2 -> BOOLEAN], f \in 1..2, m \in {0, 90}}

\* Three members: two who count, and one who is out or blocks the result for
\* each of the reasons there are; all that the tie-breaks look at.
ReconciledRow(data) ==
  [status |-> "RECONCILED", net |-> data.net, gross |-> data.net + data.cost,
   cost |-> data.cost, captain |-> data.captain, chip |-> data.chip, total |-> data.total]
DoubtfulRow == [status |-> "MISMATCH", net |-> Null, gross |-> Null,
                cost |-> 0, captain |-> 1, chip |-> Null, total |-> 20]
RowData ==
  [net : {2}, cost : {0}, captain : {Null, 1, 2}, chip : {Null}, total : {20}]
    \cup [net : {1}, cost : {0}, captain : {1}, chip : {Null}, total : {20}]
    \cup [net : {2}, cost : {4}, captain : {1, 2}, chip : {Null}, total : {20}]
    \cup [net : {2}, cost : {0}, captain : {1}, chip : {"bboost"}, total : {21}]
Regular == [excluded |-> FALSE, joined |-> Null, synced |-> TRUE]
GroupOf(rule, chain) == [winnerRule |-> rule, tieBreakRules |-> chain]
GwRules ==
  {GroupOf("NET_POINTS", <<"HIGHER_CAPTAIN_POINTS", "FEWER_TRANSFER_COST", SHARED>>),
   GroupOf("GROSS_POINTS", <<"NO_CHIP_PLAYED", "HIGHER_CAPTAIN_POINTS", SHARED>>),
   GroupOf("NET_POINTS", <<"HIGHER_SEASON_TOTAL", SHARED>>)}
WinnerInput(rules, third, rows) ==
  [event |-> 5, group |-> rules, members |-> <<Regular, Regular, third>>, rows |-> rows]

WinnerInputs ==
  LET Rows(d, S) == [m \in S |-> ReconciledRow(d[m])]
      Triples == [1..3 -> RowData]
      Pairs == [1..2 -> RowData]
  IN {WinnerInput(rules, Regular, Rows(d, 1..3)) : rules \in GwRules, d \in Triples}
     \cup {WinnerInput(rules, third, Rows(d, 1..2)) :
             rules \in GwRules, d \in Pairs,
             third \in {Regular, [Regular EXCEPT !.synced = FALSE],
                        [Regular EXCEPT !.excluded = TRUE], [Regular EXCEPT !.joined = 6]}}
     \cup {WinnerInput(rules, Regular, Rows(d, 1..2) @@ (3 :> DoubtfulRow)) :
             rules \in GwRules, d \in Pairs}

-----------------------------------------------------------------------------
\* Squads of three, two of whom play: every captaincy, chip and auto-sub.
Swap(out, in) == [out |-> out, in |-> in]
SquadOf(order, captain, vice, chip, subs) ==
  [order |-> order, captain |-> captain, vice |-> vice, chip |-> chip, subs |-> subs,
   fpl |-> [e \in Range(order) |-> 1], gross |-> Null]
Chips == {Null, "bboost", "3xc", "wildcard", "other"}
Subs == {<<>>, <<Swap(1, 3)>>, <<Swap(2, 3)>>}
LiveOf(minutes, points, settled) ==
  [minutes |-> minutes, points |-> points, settled |-> settled]

\* One squad against every state of its players' matches.
ArmbandInputs ==
  {[picks |-> (1 :> SquadOf(<<1, 2, 3>>, c, v, chip, subs)), live |-> live,
    eligible |-> {1}, me |-> 1] :
     c \in 1..3, v \in 1..3, chip \in Chips, subs \in Subs,
     live \in [1..3 -> {LiveOf(0, 0, FALSE), LiveOf(0, 0, TRUE), LiveOf(90, 5, FALSE)}]}

\* The squads of up to three members, one of them perhaps with picks that are
\* not valid, over every set of eligible members.
OwnershipInputs ==
  LET Live == <<LiveOf(90, 6, TRUE), LiveOf(0, 0, TRUE), LiveOf(90, 2, TRUE), LiveOf(30, 1, TRUE)>>
      Squads == {SquadOf(order, order[1], order[2], chip, subs) :
                   order \in {<<1, 2, 3>>, <<4, 1, 2>>}, chip \in {Null, "3xc", "bboost"},
                   subs \in {<<>>}}
                \cup {SquadOf(<<1, 2, 3>>, 2, 1, Null, <<Swap(2, 3)>>),
                      SquadOf(<<1, 2, 3>>, 4, 1, Null, <<>>)}
  IN {[picks |-> picks, live |-> Live, eligible |-> eligible, me |-> me] :
        picks \in UNION {[D -> Squads] : D \in {{1, 2}, {1, 3}, {2}}},
        eligible \in SUBSET (1..3), me \in {1, Null}}

SquadInputs == ArmbandInputs \cup OwnershipInputs

\* Transfers of two members who were read, or one, in two gameweeks.
Move(out, in, event) == [out |-> out, in |-> in, event |-> event]
TransferInputs ==
  LET Lists == {<<>>, <<Move(1, 2, 4)>>, <<Move(1, 2, 5)>>,
                <<Move(1, 2, 5), Move(3, 1, 5)>>, <<Move(2, 1, 4), Move(4, 2, 5)>>}
  IN {[eligible |-> eligible, lists |-> lists, costs |-> costs] :
        eligible \in SUBSET (1..3), lists \in UNION {[D -> Lists] : D \in SUBSET (1..2)},
        costs \in {<<>>, <<0, 4>>, <<4, Null, 8>>}}

\* Sets of chip windows, some that overlap or touch, and chips played.
Window(name, number, start, stop) ==
  [name |-> name, number |-> number, start |-> start, stop |-> stop]
ChipInputs ==
  LET Windows == {Window("3xc", 1, 1, 38), Window("wildcard", 1, 2, 19),
                  Window("wildcard", 1, 20, 38), Window("wildcard", 1, 19, 20),
                  Window("bboost", 2, 5, 39)}
      Chip(entry, name, event) == [entry |-> entry, name |-> name, event |-> event]
      Spent == {Chip(1, "wildcard", 1), Chip(1, "wildcard", 19), Chip(1, "wildcard", 20),
                Chip(1, "bboost", 6), Chip(2, "3xc", 7)}
  IN [rules : SUBSET Windows, played : SUBSET Spent]

\* Two members in gameweek 19, and an entry of another group: what the history
\* of those who were read says, and what their rows do, with rules that cover
\* it, or not, or none.
ChipViewInputs ==
  LET Chip(name, event) == [name |-> name, event |-> event]
      Spent == {{}, {Chip("wildcard", 19)}, {Chip("bboost", 18)}, {Chip("bboost", 19), Chip("3xc", 20)}}
      Rules == {{}, {Window("wildcard", 1, 2, 19), Window("wildcard", 1, 20, 38)},
                {Window("bboost", 2, 1, 19), Window("3xc", 1, 1, 38), Window("wildcard", 1, 20, 38)}}
      Over(Data) == UNION {[D -> Data] : D \in SUBSET {1, 2}}
  IN {[members |-> {1, 2}, event |-> 19, rules |-> rules,
       seasons |-> seasons @@ (3 :> {Chip("wildcard", 19)}), rows |-> rows @@ (3 :> "wildcard")] :
        rules \in Rules, seasons \in Over(Spent), rows \in Over({Null, "wildcard", "bboost"})}

-----------------------------------------------------------------------------
\* Up to three rivals over three gameweeks: every pattern of missing rows and
\* of rows without a score for two of them.
RivalsInputs ==
  LET NoRow == -1
      Cells == {NoRow, Null, 1, 2}
      Viewers == {<<1, FALSE, <<2, Null, 1>>>>, <<2, TRUE, <<NoRow, NoRow, NoRow>>>>}
      Season(h, e) == SumOf({g \in 1..e : h[g] \in Nat}, LAMBDA g : h[g])
      Row(h, e) == [score |-> h[e], cost |-> IF h[e] = 2 THEN 4 ELSE 0, total |-> Season(h, e)]
      RowsOf(hs) == [c \in {c \in (1..3) \X (1..3) : hs[c[1]][c[2]] # NoRow} |->
                       Row(hs[c[1]], c[2])]
      Latest == (<<1, 3>> :> [xi |-> {1, 2}, bench |-> {3}, captain |-> 1])
                  @@ (<<2, 1>> :> [xi |-> {1, 3}, bench |-> {2}, captain |-> 3])
                  @@ (<<2, 2>> :> [xi |-> {2, 4}, bench |-> {1}, captain |-> 2])
  IN {[event |-> 3, me |-> viewer[1], members |-> <<FALSE, FALSE, viewer[2]>>,
       rows |-> RowsOf(<<first, second, viewer[3]>>),
       squads |-> Latest, ep |-> <<50, Null, Null, 20>>, team |-> <<1, 2, Null, 1>>,
       upcoming |-> {[event |-> 4, home |-> 1, away |-> 2, homeFdr |-> 2, awayFdr |-> 5],
                     [event |-> 5, home |-> 2, away |-> 1, homeFdr |-> Null, awayFdr |-> 4]},
       bought |-> (1 :> {2, 3}) @@ (4 :> {3}),
       chips |-> IF viewer[2] THEN Null ELSE (2 :> {"3xc", "bboost", "freehit"})] :
        viewer \in Viewers,
        first \in [1..3 -> Cells],
        second \in {h \in [1..3 -> Cells] : h[1] \in {NoRow, 1}}}

-----------------------------------------------------------------------------
\* Two players of two clubs, over fixture lists with blanks and doubles.
SwapInputs ==
  LET Fixture(gw, home, away, homeFdr, awayFdr) ==
        [event |-> gw, home |-> home, away |-> away, homeFdr |-> homeFdr, awayFdr |-> awayFdr]
      Fixtures == {Fixture(2, 1, 2, 2, 4), Fixture(2, 3, 1, 3, 5), Fixture(3, 2, 3, 1, Null),
                   Fixture(4, 1, 3, 5, 2), Fixture(4, 2, 1, 4, 4)}
      Players == [team : {1, 2}, ep : {Null, 20, 60}, form : {Null, 15, 50}]
  IN [out : Players, in : Players, fixtures : SUBSET Fixtures, event : {1}]
     \cup [out : Players, in : Players, fixtures : {Fixtures}, event : {37, 38}]

\* What was paid for a player, twice in gameweek 3 perhaps, on a Wednesday and the
\* day after; and his price on two later days, in tenths.
PriceInputs ==
  LET Buy(in, cost, event, time) == [in |-> in, cost |-> cost, event |-> event, time |-> time]
  IN [buys : SUBSET {Buy(1, 3, 2, 2), Buy(1, 6, 3, 9), Buy(1, 4, 3, 10), Buy(2, 9, 4, 15)},
      start : 1..8, now : 1..8, later : 1..8, bank : {0, 2}]

\* What the page loaded, its list of players, and what the simulator loads later:
\* perhaps no group, no "me", no current gameweek or no squad by then; another
\* squad or another "me", other prices, a player who changed clubs, or a player
\* of the squad whom the players view lacks.
SimulatorInputs ==
  LET Player(id, team, position, price) ==
        [id |-> id, team |-> team, position |-> position, price |-> price, ep |-> 10 * id,
         form |-> Null, start |-> price, change |-> 1]
      Catalogue == <<Player(1, 1, "def", 40), Player(2, 2, "def", 50), Player(3, 1, "fwd", 60),
                     Player(4, 1, "def", Null), Player(5, 2, "fwd", 70)>>
      Catalogues == {Restrict(Catalogue, D) : D \in {1..5, {1, 3, 5}, {1, 2, 4}}}
                      \cup {[Catalogue EXCEPT ![5].team = 1], [Catalogue EXCEPT ![2].price = 55]}
      Load(squads, players) ==
        [group |-> TRUE, me |-> 1, current |-> 5, squads |-> squads,
         transfers |-> {[in |-> 2, cost |-> 45, event |-> 4, time |-> 1]},
         banks |-> (<<1, 4>> :> 5) @@ (<<1, 5>> :> 15), players |-> players,
         fixtures |-> {[event |-> 6, home |-> 1, away |-> 2, homeFdr |-> 2, awayFdr |-> 4]}]
      Loads == {Load(squads, players) : players \in Catalogues,
                  squads \in {<<1, 4>> :> {1, 2, 3}, <<1, 4>> :> {1, 3, 4},
                              (<<1, 4>> :> {1, 2, 3}) @@ (<<1, 5>> :> {2, 3, 5}),
                              (<<1, 4>> :> {1, 2, 3}) @@ (<<2, 5>> :> {1, 2, 5})}}
      Later(load) == {load, [load EXCEPT !.group = FALSE], [load EXCEPT !.me = Null],
                      [load EXCEPT !.me = 2], [load EXCEPT !.current = Null]}
  IN [page : Loads, catalogue : Catalogues, server : UNION {Later(load) : load \in Loads}]

\* Sets of players with all kinds of missing data, and filters over them.
FinderPlayer(id, position, price, history, status, change, net, added) ==
  [id |-> id, position |-> position, price |-> price, points |-> IF id = 4 THEN Null ELSE 10 * id,
   form |-> IF id = 3 THEN Null ELSE 10 * id, ep |-> IF id = 1 THEN Null ELSE 50 - 10 * id,
   fdr |-> FixtureRun(id, {[event |-> 4, home |-> 1, away |-> 2, homeFdr |-> 2, awayFdr |-> 5],
                           [event |-> 5, home |-> 1, away |-> 4, homeFdr |-> 4, awayFdr |-> Null]},
                      StatsThrough({1, 2, 3}, 3), 3).average,
   selectedBy |-> PointsOver(history, 3, 2).points, status |-> status,
   rotation |-> RotationRisk(history, 3, {1, 2, 3}),
   change |-> change, net |-> net, news |-> id = 2, added |-> added]

FinderInputs ==
  LET Games(minutes) == [g \in 1..Len(minutes) |-> [points |-> g, minutes |-> minutes[g]]]
      Catalogue ==
        {FinderPlayer(1, "def", 40, Games(<<90, 30, 20>>), "a", -1, 60000, Null),
         FinderPlayer(2, "def", Null, Games(<<90, 90, 90>>), "d", 0, Null, 7),
         FinderPlayer(3, "fwd", 50, Games(<<90, 90>>), Null, Null, 0, Null),
         FinderPlayer(4, "fwd", 60, <<>>, "i", 1, 50000, 9)}
  IN [players : SUBSET Catalogue, squads : {<<{1, 2, 4}, {2, 3}>>}, me : {1, 2},
      filters : [position : {Null, "def"}, maxPrice : {Null, 50, 60}, maxSelectedBy : {Null, 4},
                 maxOwners : {Null, 1}, fitOnly : BOOLEAN],
      sort : {"value", "form", "xpts", "fdr"}, limit : {1, 4}]

-----------------------------------------------------------------------------
\* What FPL tells the smoke test of a league and of an entry or two of it, or
\* outside it: small and large numbers, short and long names, somebody who runs
\* a league and did not join it, ranks that are told in two places, and a league
\* that a profile names a second time.
SampleInputs ==
  LET Ann == [entry |-> 5000, team |-> <<"Ann's", "XI">>, manager |-> <<"Ann", "Mary", "Lee">>]
      Bo == [entry |-> 6, team |-> <<"Bo">>, manager |-> <<"Bo">>]
      Row(who, rank) == [entry |-> who.entry, team |-> who.team, manager |-> who.manager, rank |-> rank]
      Profile(who, rank, leagues) ==
        [id |-> who.entry, team |-> who.team, first |-> FirstOf(who.manager, 1),
         last |-> <<Last(who.manager)>>, rank |-> rank, leagues |-> leagues]
      Cup(id, admin, rank) == [id |-> id, name |-> <<"Cup", "of", "all">>, admin |-> admin,
                               phase |-> id, rank |-> rank]
      Cups(id, top) == <<Cup(16, 31, top), Cup(id, 6, 2), Cup(17, 32, Null)>>
      Outsider == [entry |-> 77, team |-> <<"Lions">>, manager |-> <<"Cy">>]
  IN {[given |-> [leagues |-> <<id>>, entries |-> asked[1]],
       table |-> [league |-> [id |-> id, name |-> <<"Pub">>, admin |-> admin],
                  rows |-> <<Row(Ann, rank), Row(Bo, 2)>>, joins |-> joins],
       profiles |-> <<Profile(asked[2], top, FirstOf(Cups(id, top), cups))>> \o asked[3],
       squads |-> squads, ranks |-> {top, 1200}, live |-> live] :
        id \in {7, 4000}, admin \in {Null, 6, 31}, rank \in {1, 2500}, top \in {Null, 9, 2500},
        asked \in {<<<<5000>>, Ann, <<>>>>, <<<<6, 5000>>, Bo, <<Profile(Ann, 2500, <<>>)>>>>,
                  <<<<77>>, Outsider, <<>>>>},
        cups \in {0, 1, 3},
        joins \in {<<>>, <<Outsider, [Outsider EXCEPT !.entry = 78], [Outsider EXCEPT !.entry = 79]>>},
        squads \in {<<{1, 3}>>, <<{1, 2}, {3}>>}, live \in {<<>>, <<1, 2, 3, 4>>, <<4, 2, 1>>}}

-----------------------------------------------------------------------------
InputsOf ==
  [points |-> PointsInputs, winner |-> WinnerInputs, squads |-> SquadInputs,
   transfers |-> TransferInputs, chips |-> ChipInputs, rivals |-> RivalsInputs,
   swap |-> SwapInputs, prices |-> PriceInputs, finder |-> FinderInputs,
   normalize |-> NormalizeInputs, live |-> LiveInputs, simulator |-> SimulatorInputs]
    @@ ("chip view" :> ChipViewInputs) @@ ("samples" :> SampleInputs)

\* What the code computes from an input, where a property is about all of it.
OutputOf(kind, in) ==
  CASE kind = "points" -> ReconcileSeason(in.rows, in.picks, in.season, in.checked)
    [] kind = "winner" -> ComputeGwResult(in.group, in.members, in.rows, in.event)
    [] kind = "squads" -> OwnershipView(in.picks, in.live, in.eligible, in.me)
    [] kind = "transfers" -> SummarizeTransfers(5, in.eligible, in.lists, in.costs)
    [] OTHER -> Null

\* Points: the season's points add up, and doubt is kept.
PointsHold(in, out) ==
  /\ AddsUp(in.rows, out)
  /\ DoubtIsKept(in.rows, in.picks, in.season, in.checked, out)

\* Normalize: a replay adds nothing, and the smoke test reads the same.
NormalizeHolds(in) == ReplayAddsNothing(in) /\ ProbeAgrees(in)

\* Winner: the winners lead the table, and nobody is skipped; what is recorded
\* of it reproduces, and what another result changes is shown.  The result it
\* is compared with has the rows of two members exchanged, or one excluded.
WinnerHolds(in, out) ==
  /\ IsValidRuleChain(in.group.tieBreakRules)
  /\ LeadsTable(in.group, in.rows, out)
  /\ NobodySkipped(in.members, in.rows, in.event, out)
  /\ SnapshotReproduces(in, out)
  /\ ChangesAreListed(in, out, {in, [in EXCEPT !.rows[1] = in.rows[2], !.rows[2] = in.rows[1]],
                                [in EXCEPT !.members[1].excluded = TRUE]})

\* Squad: one armband in every squad, and the columns of the group add up.
SquadsHold(in, out) ==
  /\ \A m \in DOMAIN out.squads : ArmbandOf(in.picks[m], in.live, out.squads[m])
  /\ OwnershipAddsUp(in.eligible, in.me, out)

ChipsHold(in) ==
  /\ \A entry \in {1, 2} : ChipCountedOnce(in.rules, in.played, entry)
  /\ SmokeAcceptsSame(in.rules)

\* A player is never unsettled by a match that ends, and when all have ended
\* nobody's captaincy is pending: captain and vice-captain are both settled.
LiveHolds(in) ==
  LET settled(fixtures) == LiveElementsOf(in.elements, fixtures)
      later == [in.fixtures EXCEPT ![in.finishing].finished = TRUE]
      live(fixtures) == [e \in DOMAIN in.elements |->
                           LiveOf(in.minutes, 2, settled(fixtures)[e])]
      squad == SquadOf(<<1, 2, 3>>, 1, 2, Null, <<>>)
      listed == UNION {in.elements[e].fixtures : e \in DOMAIN in.elements}
  IN /\ \A e \in DOMAIN in.elements : settled(in.fixtures)[e] => settled(later)[e]
     /\ (\A f \in DOMAIN in.fixtures : in.fixtures[f].finished) /\ listed \subseteq DOMAIN in.fixtures =>
          EffectiveCaptain(squad, live(in.fixtures)).via # "PENDING"

\* Rivals: the views mirror each other, one ranking, everyone's own form.
RivalsHold(in) == MirroredViews(in) /\ LeaderboardConsistent(in) /\ FormIsOwn(in)

\* PlayerTools: the simulator, the prices, the finder and the news.
SwapHolds(in) ==
  HitPaysLater(ProjectPoints(in.out, in.fixtures, in.event),
               ProjectPoints(in.in, in.fixtures, in.event))
PricesHold(in) ==
  /\ NoMoneyFromNothing(PurchasePrice(1, in.buys, in.start), in.now, in.later, in.bank)
  /\ PaidInLastGameweek(1, in.buys, in.start)
FinderHolds(in) ==
  /\ FindsWithin(in.players, in.squads, in.filters, in.sort, in.limit)
  /\ AlertsAreNews(in.players, in.squads, in.me)

\* Anonymize: the samples agree with each other, and name nobody.
SamplesHold(in) == SamplesTellOneStory(in) /\ NobodyNamed(in)
=============================================================================
