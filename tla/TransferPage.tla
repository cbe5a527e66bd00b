----------------------------- MODULE TransferPage ----------------------------
(***************************************************************************)
(* The transfer simulator's page and service (client pages/Transfers.jsx,  *)
(* services/transferService.js, services/groupSquads.js): whom the page    *)
(* offers, and whom it flags, it works out by itself, from a plan and a    *)
(* list of players that it fetched earlier and separately, the latter      *)
(* perhaps from its cache; the server loads everything again and judges    *)
(* the choice: position, ownership, club limit, money and projection.      *)
(*                                                                         *)
(* The service reads `loaded': [group, me, current, squads, transfers,     *)
(* banks, players, fixtures]; `squads' and `banks' are functions from the  *)
(* <<entry, event>> pairs stored to the set of elements and to the bank,   *)
(* `players' is a function from elements to the players view's rows.       *)
(***************************************************************************)
EXTENDS PlayerTools

CONSTANT ClientClubLimit   \* the limit that the page has written into it: 3

\* latestSquads: the last event up to the current one with picks, per entry.
LatestEvent(squads, m) == Max({s[2] : s \in {s \in DOMAIN squads : s[1] = m}})
LatestSquads(squads) ==
  [m \in {s[1] : s \in DOMAIN squads} |-> squads[<<m, LatestEvent(squads, m)>>]]

\* load: what is missing, in the order in which it is looked for.
LoadError(loaded) ==
  CASE ~loaded.group -> "NOT_FOUND"
    [] loaded.group /\ loaded.me = Null -> "ME_NOT_SET"
    [] loaded.group /\ loaded.me # Null /\ loaded.current = Null -> "NO_CURRENT_GW"
    [] OTHER -> IF loaded.me \notin DOMAIN LatestSquads(loaded.squads) THEN "NO_SQUAD" ELSE Null

\* My latest squad, with the estimated selling prices.  A player whom the
\* players view does not have keeps his place, without a club or a position.
Unknown(e) == [id |-> e, team |-> Null, position |-> Null, price |-> Null, ep |-> Null,
               form |-> Null, start |-> Null, change |-> Null]
SquadPlayer(loaded, e) ==
  LET p == Lookup(loaded.players, e, Unknown(e))
      purchase == IF e \in DOMAIN loaded.players
                  THEN PurchasePrice(e, loaded.transfers, StartPrice(p.price, p.change))
                  ELSE Null
  IN [purchase |-> purchase, selling |-> SellingPrice(purchase, p.price)] @@ p

TransferPlan(loaded) ==
  [squad |-> {SquadPlayer(loaded, e) : e \in LatestSquads(loaded.squads)[loaded.me]},
   event |-> loaded.current,
   bank |-> Lookup(loaded.banks, <<loaded.me, LatestEvent(loaded.squads, loaded.me)>>, Null)]

\* simulate: refused for a player who is not in the squad, or whom nobody knows.
Simulate(loaded, outId, inId, hit) ==
  LET plan == TransferPlan(loaded)
      out == CHOOSE p \in plan.squad : p.id = outId
      buy == loaded.players[inId]
      project(p) == ProjectPoints(p, loaded.fixtures, plan.event)
  IN CASE LoadError(loaded) # Null -> [error |-> LoadError(loaded)]
       [] OTHER ->
          IF outId \notin {p.id : p \in plan.squad} THEN [error |-> "NOT_IN_SQUAD"]
          ELSE IF inId \notin DOMAIN loaded.players THEN [error |-> "NOT_FOUND"]
          ELSE [error |-> Null, check |-> TransferCheck(plan.squad, out, buy, plan.bank),
                projection |-> BreakEven(project(out), project(buy), hit)]

-----------------------------------------------------------------------------
(* The page.                                                               *)

\* Whom it offers for a player of the squad (the first ones, by estimate).
Candidates(squad, out, players) ==
  {e \in DOMAIN players : /\ players[e].position = out.position
                          /\ \A p \in squad : p.id # e}

ClubAfter(squad, out, team) == Cardinality({p \in squad : p.id # out.id /\ p.team = team}) + 1

\* "4th from club".
Flagged(squad, out, buy) == ClubAfter(squad, out, buy.team) > ClientClubLimit

-----------------------------------------------------------------------------
MySquad(loaded) == LatestSquads(loaded.squads)[loaded.me]

\* The page's plan and players say the same of squads and clubs as the server's
\* now: nobody has synced or moved since.  Prices may have.
UpToDate(page, catalogue, server) ==
  LET clubs(players) == [e \in DOMAIN players |-> <<players[e].team, players[e].position>>]
  IN /\ LoadError(server) = Null /\ MySquad(page) = MySquad(server)
     /\ clubs(page.players) = clubs(server.players) /\ clubs(catalogue) = clubs(server.players)

\* The squad after a transfer is one that FPL allows, as far as it was before.
LeavesSquad(squad, out, buy) ==
  LET after == (squad \ {out}) \cup {buy}
      of(S, field, value) == Cardinality({p \in S : p[field] = value})
  IN /\ Cardinality(after) = Cardinality(squad)
     /\ \A p \in after : of(after, "position", p.position) = of(squad, "position", p.position)
     /\ of(after, "team", buy.team) <= MaxPerClub

\* What the page offers the server can be asked for.  However old the page's plan
\* and players are, a transfer that the server finds nothing wrong with leaves
\* its own squad one that is allowed; and while squads and clubs are what the page
\* has seen, the server knows whoever is offered, finds his position right and
\* him not owned, and breaks the club limit exactly where the page says so.
OffersAreSimulated(page, catalogue, server) ==
  LoadError(page) = Null =>
    LET squad == TransferPlan(page).squad
    IN \A out \in squad : \A e \in Candidates(squad, out, catalogue) :
         LET sim == Simulate(server, out.id, e, TRUE)
             now == TransferPlan(server).squad
             sold == CHOOSE p \in now : p.id = out.id
             right == /\ sim.error = Null
                      /\ sim.check.samePosition /\ ~sim.check.alreadyOwned
         IN /\ right /\ ~sim.check.clubLimitBroken => LeavesSquad(now, sold, server.players[e])
            /\ UpToDate(page, catalogue, server) =>
                 right /\ sim.check.clubLimitBroken = Flagged(squad, out, catalogue[e])
=============================================================================
