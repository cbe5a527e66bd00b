----------------------------- MODULE PlayerTools -----------------------------
(***************************************************************************)
(* The player tools (analytics/playerStats.js, transfer.js, finder.js,     *)
(* news.js and services/playersModel.js): windows of recent games, the     *)
(* transfer simulator, the finder's filters and sorts, and the news flags. *)
(* Prices and projections are integers in tenths, as the code stores       *)
(* prices and rounds projections.                                          *)
(***************************************************************************)
EXTENDS Values

CONSTANTS
  Horizon,      \* gameweeks a projection covers, PROJECTION_GWS: 5
  HitCost,      \* points of one extra transfer: 4
  MaxPerClub    \* players of one club in a squad: 3

ASSUME ToolsAssumption == Horizon \in Nat \ {0} /\ HitCost \in Nat /\ MaxPerClub \in Nat \ {0}

LastGameweek == 38
RotationGames == 3
MinMinutes == 60
ShortGames == 2

GameweeksAfter(gw, n) == {g \in (gw + 1)..(gw + n) : g <= LastGameweek}

-----------------------------------------------------------------------------
(* `history' is a function from gameweeks to [points, minutes].            *)

PointsOver(history, upTo, n) ==
  LET known == {g \in DOMAIN history : g > upTo - n /\ g <= upTo}
      total(field) == IF known = {} THEN Null ELSE SumOf(known, LAMBDA g : history[g][field])
  IN [points |-> total("points"), minutes |-> total("minutes"),
      gws |-> Cardinality(known), of |-> Min({n, upTo})]

\* The last games, gameweeks in which the club had a fixture: a player is at
\* risk when two of three were short, and unknown before three are known.
RotationRisk(history, upTo, hadFixture) ==
  LET played == {g \in DOMAIN history : g <= upTo /\ g \in hadFixture}
      last == {g \in played : Cardinality({h \in played : h > g}) < RotationGames}
      short == {g \in last : history[g].minutes < MinMinutes}
  IN IF Cardinality(last) < RotationGames THEN Null
     ELSE Cardinality(short) >= ShortGames

\* The last finished gameweek up to the event: form never reads a running one.
StatsThrough(finished, event) == Max({g \in finished : g <= event} \cup {0})

\* `fixtures' is a set of [event, home, away, homeFdr, awayFdr].
FixturesOf(team, fixtures, gw) ==
  {f \in fixtures : f.event = gw /\ team \in {f.home, f.away}}
Fdr(team, f) == IF f.home = team THEN f.homeFdr ELSE f.awayFdr

FixtureRun(team, fixtures, afterGw, n) ==
  LET gws == GameweeksAfter(afterGw, n)
      list == UNION {FixturesOf(team, fixtures, g) : g \in gws}
      known == {f \in list : Fdr(team, f) # Null}
      games(g) == Cardinality(FixturesOf(team, fixtures, g))
  IN [average |-> IF known = {} THEN Null
                  ELSE Rounded(10 * SumOf(known, LAMBDA f : Fdr(team, f)), Cardinality(known)),
      doubles |-> Cardinality({g \in gws : games(g) >= 2}),
      blanks |-> Cardinality({g \in gws : games(g) = 0})]

-----------------------------------------------------------------------------
(* Prices, in tenths of a million.                                         *)

\* A plausible bug: half of a fall is kept too.
SellingPriceBothWays(purchase, now) ==
  IF Null \in {purchase, now} THEN Null ELSE purchase + (now - purchase) \div 2

\* Half of a rise is kept, rounded down; a fall is passed on in full.
SellingPrice(purchase, now) ==
  CASE Null \in {purchase, now} -> Null
    [] OTHER -> IF now <= purchase THEN now ELSE purchase + (now - purchase) \div 2

\* The places of Mon, Tue, ... Sun in the alphabet.
WeekdayAsText == <<2, 6, 7, 5, 1, 3, 4>>

\* The order of String(time), a Date's: by the weekday's name, then by what comes
\* after it.  A time is a day below 100, and day 0 a Monday.
AsText(time) == 100 * WeekdayAsText[1 + (time % 7)] + time

Buys(element, transfers) == {t \in transfers : t.in = element}

\* A plausible bug: the gameweek of a transfer is not looked at.
PurchasePriceByTime(element, transfers, start) ==
  LET buys == Buys(element, transfers)
      last == BestBy(buys, LAMBDA t : AsText(t.time))
  IN IF buys = {} THEN start ELSE (CHOOSE t \in last : TRUE).cost

\* What the last transfer in by that order cost, else the price at the start.
\* `transfers' is a set of [in, cost, event, time].
PurchasePrice(element, transfers, start) ==
  LET buys == Buys(element, transfers)
      last == BestBy(buys, LAMBDA t : 1000 * t.event + AsText(t.time))
  IN IF buys = {} THEN start ELSE (CHOOSE t \in last : TRUE).cost

StartPrice(now, change) == IF Null \in {now, change} THEN Null ELSE now - change

\* A plausible bug: the player who is sold still counts for his club.
CheckBeforeSale(squad, out, buy, bank) ==
  LET club == Cardinality({p \in squad : p.team = buy.team}) + 1
      after == IF Null \in {bank, out.selling, buy.price} THEN Null
               ELSE bank + out.selling - buy.price
  IN [samePosition |-> out.position = buy.position,
      alreadyOwned |-> \E p \in squad : p.id = buy.id,
      clubLimitBroken |-> club > MaxPerClub,
      bankAfter |-> after,
      affordable |-> IF after = Null THEN Null ELSE after >= 0]

\* `squad' is a set of players [id, team, position], `bank' may be Null.
TransferCheck(squad, out, buy, bank) ==
  LET kept == {p \in squad : p.id # out.id}
      club == Cardinality({p \in kept : p.team = buy.team}) + 1
      after == IF Null \in {bank, out.selling, buy.price} THEN Null
               ELSE bank + out.selling - buy.price
  IN [samePosition |-> out.position = buy.position,
      alreadyOwned |-> \E p \in squad : p.id = buy.id,
      clubLimitBroken |-> club > MaxPerClub,
      bankAfter |-> after,
      affordable |-> IF after = Null THEN Null ELSE after >= 0]

-----------------------------------------------------------------------------
(* The transfer simulator.                                                 *)

\* Tenths per unit of the base for each difficulty; unknown counts as 3.
FdrFactor(fdr) == IF fdr \in 1..5 THEN 13 - fdr ELSE 10

\* FPL's expected points for the next gameweek, then a base per game times the
\* difficulty: expected points per game of that gameweek, or form when the
\* club has no game in it (or FPL gives no estimate).
ProjectPoints(player, fixtures, event) ==
  LET gws == GameweeksAfter(event, Horizon)
      games(g) == FixturesOf(player.team, fixtures, g)
      first == IF gws = {} THEN 0 ELSE Cardinality(games(event + 1))
      useEp == player.ep # Null /\ first > 0
      factors(g) == SumOf(games(g), LAMBDA f : FdrFactor(Fdr(player.team, f)))
      estimate(g) ==
        IF useEp THEN Rounded(player.ep * factors(g), 10 * first)
        ELSE IF player.form = Null THEN Null ELSE Rounded(player.form * factors(g), 10)
  IN [g \in gws |-> IF g = event + 1 /\ player.ep # Null THEN player.ep ELSE estimate(g)]

\* A plausible bug: a gameweek without a projection counts as no gain.
BreakEvenSkipsUnknown(out, in, hit) ==
  LET cost == IF hit THEN 10 * HitCost ELSE 0
      gws == DOMAIN out
      upTo(g) == {h \in gws : h <= g /\ out[h] # Null /\ Lookup(in, h, Null) # Null}
      gain(g) == SumOf(upTo(g), LAMBDA h : in[h] - out[h])
      paid == {g \in gws : gain(g) > 0 /\ gain(g) >= cost}
  IN [cumulative |-> [g \in gws |-> gain(g)],
      net |-> IF gws = {} THEN -cost ELSE gain(Max(gws)) - cost,
      within |-> IF paid = {} THEN Null ELSE Min(paid),
      verdict |-> IF paid = {} THEN "DOES_NOT_PAY" ELSE "PAYS_OFF"]

\* The cumulative gain of a swap, unknown from the first gameweek without both
\* projections, and the first gameweek at which it has paid the hit.
BreakEven(out, in, hit) ==
  LET cost == IF hit THEN 10 * HitCost ELSE 0
      gws == DOMAIN out
      upTo(g) == {h \in gws : h <= g}
      known(g) == \A h \in upTo(g) : out[h] # Null /\ Lookup(in, h, Null) # Null
      gain(g) == SumOf(upTo(g), LAMBDA h : in[h] - out[h])
      paid == {g \in gws : known(g) /\ gain(g) > 0 /\ gain(g) >= cost}
      all == \A g \in gws : known(g)
  IN [cumulative |-> [g \in gws |-> IF known(g) THEN gain(g) ELSE Null],
      net |-> IF ~all THEN Null ELSE IF gws = {} THEN -cost ELSE gain(Max(gws)) - cost,
      within |-> IF paid = {} THEN Null ELSE Min(paid),
      verdict |-> CASE ~all -> "UNKNOWN"
                    [] OTHER -> IF paid = {} THEN "DOES_NOT_PAY" ELSE "PAYS_OFF"]

-----------------------------------------------------------------------------
(* The finder and the news feed.  `squads' gives each entry's latest       *)
(* elements, `players' is a set of the players view's rows.                *)

Owners(squads, element) == {m \in DOMAIN squads : element \in squads[m]}

\* Season points per million of price, in tenths; none without a price.
PointsPerMillion(p) ==
  IF p.points = Null \/ OrElse(p.price, 0) = 0 THEN Null
  ELSE Rounded(100 * p.points, p.price)

Metric(p, sort) ==
  CASE sort = "value" -> PointsPerMillion(p)
    [] sort = "form" -> p.form
    [] sort = "xpts" -> p.ep
    [] sort = "fdr" -> IF p.fdr = Null THEN Null ELSE -p.fdr   \* ascending

\* A plausible bug: a price that is not known passes the price filter.
PassesUnpriced(p, squads, filters) ==
  LET atMost(value, limit) == limit = Null \/ value = Null \/ value <= limit
  IN /\ filters.position \in {Null, p.position}
     /\ atMost(p.price, filters.maxPrice)
     /\ atMost(p.selectedBy, filters.maxSelectedBy)
     /\ Cardinality(Owners(squads, p.id)) <= OrElse(filters.maxOwners, 99)
     /\ ~filters.fitOnly \/ p.status \in {Null, "a"}

\* Missing data never passes a filter it would be judged by.
Passes(p, squads, filters) ==
  LET atMost(value, limit) == limit = Null \/ (value # Null /\ value <= limit)
  IN /\ filters.position \in {Null, p.position}
     /\ atMost(p.price, filters.maxPrice)
     /\ atMost(p.selectedBy, filters.maxSelectedBy)
     /\ atMost(Cardinality(Owners(squads, p.id)), filters.maxOwners)
     /\ ~filters.fitOnly \/ p.status \in {Null, "a"}

Lowest == -1000000          \* -Infinity: below any metric

\* Better metric first, missing last, then value for money, then the id.
FoundBefore(a, b, sort) ==
  LET x == Metric(a, sort)
      y == Metric(b, sort)
      value(p) == OrElse(PointsPerMillion(p), Lowest)
  IN IF x # y THEN y = Null \/ (x # Null /\ x > y)
     ELSE value(a) > value(b) \/ (value(a) = value(b) /\ a.id < b.id)

FindPlayers(players, squads, filters, sort, limit) ==
  LET rows == {p \in players : Passes(p, squads, filters)}
      sorted == SetToSortSeq(rows, LAMBDA a, b : FoundBefore(a, b, sort))
  IN [total |-> Cardinality(rows),
      rows |-> SubSeq(sorted, 1, Min({limit, Len(sorted)}))]

OutStatus == {"i", "s", "u", "n"}
FlagOrder == <<"OUT", "DOUBT", "ROTATION", "PRICE_DROPPED", "PRICE_PRESSURE">>
AlertFlags == {"OUT", "DOUBT", "ROTATION", "PRICE_DROPPED"}
PricePressureNet == 50000

PlayerFlags(p) ==
  {flag \in Range(FlagOrder) :
     CASE flag = "OUT" -> p.status \in OutStatus
       [] flag = "DOUBT" -> p.status = "d"
       [] flag = "ROTATION" -> p.rotation = TRUE
       [] flag = "PRICE_DROPPED" -> p.change # Null /\ OrElse(p.change, 0) < 0
       [] flag = "PRICE_PRESSURE" -> p.net # Null /\ OrElse(p.net, 0) >= PricePressureNet}

\* The place of the first flag in the order of severity.
Severity(p) ==
  Min({i \in DOMAIN FlagOrder : FlagOrder[i] \in PlayerFlags(p)} \cup {Len(FlagOrder) + 1})

\* The owned players with news or a flag, the newest news first; and those of
\* "my" squad whose flags are worth an alert, the most severe first.
NewsFeed(players, squads, me) ==
  LET items == {p \in players : /\ Owners(squads, p.id) # {}
                                /\ p.news \/ PlayerFlags(p) # {}}
      mine == {p \in items : /\ me \in Owners(squads, p.id)
                             /\ PlayerFlags(p) \cap AlertFlags # {}}
      graver(a, b) ==
        Severity(a) < Severity(b) \/ (Severity(a) = Severity(b) /\ a.id < b.id)
      newer(a, b) ==
        IF a.added = b.added THEN graver(a, b)
        ELSE b.added = Null \/ (a.added # Null /\ a.added > b.added)
  IN [items |-> SetToSortSeq(items, newer), mine |-> SetToSortSeq(mine, graver)]

-----------------------------------------------------------------------------
\* A hit never makes a transfer look better: with it the verdict pays off only
\* if it does without, and no earlier; the net is exactly the hit lower; and a
\* verdict is given only when every gameweek of the window was projected.
HitPaysLater(out, in) ==
  LET paid == BreakEven(out, in, TRUE)
      free == BreakEven(out, in, FALSE)
      complete == \A g \in DOMAIN out : out[g] # Null /\ Lookup(in, g, Null) # Null
  IN /\ paid.verdict = "PAYS_OFF" => free.verdict = "PAYS_OFF" /\ free.within <= paid.within
     /\ complete <=> paid.verdict # "UNKNOWN"
     /\ complete => paid.net = free.net - 10 * HitCost
     /\ free.verdict = "PAYS_OFF" =>
          BreakEven(in, out, FALSE).cumulative[free.within] < 0

\* A round trip never makes money: who sells at the selling price, buys back
\* at the price of the day and sells again later has no more than who held,
\* and no more in the bank in between; the selling price lies between what was
\* paid and what it costs now, and never falls when the price rises.
NoMoneyFromNothing(purchase, now, later, bank) ==
  LET selling == SellingPrice(purchase, now)
      player == [id |-> 1, team |-> 1, position |-> "def", price |-> now, selling |-> selling]
      check == TransferCheck({player}, player, player, bank)
  IN /\ selling <= now /\ selling >= Min({purchase, now})
     /\ selling - now + SellingPrice(now, later) <= SellingPrice(purchase, later)
     /\ now <= later => selling <= SellingPrice(purchase, later)
     /\ check.bankAfter <= bank /\ ~check.clubLimitBroken

\* The price that was paid is that of a transfer in the last gameweek in which the
\* player was bought, the latest one's if he was bought once in it.  (Of two in
\* one gameweek it may be the earlier.)
PaidInLastGameweek(element, transfers, start) ==
  LET price == PurchasePrice(element, transfers, start)
      last == BestBy(Buys(element, transfers), LAMBDA t : t.event)
  IN IF last = {} THEN price = start ELSE price \in {t.cost : t \in last}

\* A stricter filter finds fewer players, and only players whose data is known
\* and within it; the rows are the best of all that were found.
FindsWithin(players, squads, filters, sort, limit) ==
  LET found == FindPlayers(players, squads, filters, sort, limit)
      unlimited == FindPlayers(players, squads, filters, sort, Cardinality(players))
      laxer == FindPlayers(players, squads, [filters EXCEPT !.maxPrice = Null],
                           sort, Cardinality(players))
  IN /\ Range(unlimited.rows) \subseteq Range(laxer.rows)
     /\ filters.maxPrice # Null => \A p \in Range(found.rows) :
          OrElse(p.price, filters.maxPrice + 1) <= filters.maxPrice
     /\ IsPrefix(found.rows, unlimited.rows)
     /\ \A i, j \in DOMAIN unlimited.rows :
          i < j => \/ Metric(unlimited.rows[j], sort) = Null
                   \/ /\ Metric(unlimited.rows[i], sort) # Null
                      /\ Metric(unlimited.rows[i], sort) >= Metric(unlimited.rows[j], sort)

\* An alert is news: the alerts are the part of the feed about "my" players
\* that have a flag worth one, in the order of severity, whatever the age of
\* the news; and nobody is called a rotation risk on fewer than three games.
AlertsAreNews(players, squads, me) ==
  LET feed == NewsFeed(players, squads, me)
  IN /\ Range(feed.mine) \subseteq Range(feed.items)
     /\ \A p \in Range(feed.items) \ Range(feed.mine) :
          me \notin Owners(squads, p.id) \/ PlayerFlags(p) \subseteq {"PRICE_PRESSURE"}
     /\ \A i, j \in DOMAIN feed.mine :
          i < j => Severity(feed.mine[i]) <= Severity(feed.mine[j])
     /\ \A p \in Range(feed.items) : p.rotation = Null => "ROTATION" \notin PlayerFlags(p)
=============================================================================
