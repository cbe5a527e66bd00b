------------------------------ MODULE Anonymize -------------------------------
(***************************************************************************)
(* What the smoke test records of FPL's answers, and what is served from   *)
(* it: fpl/smoke/anonymize.js gives managers, teams and leagues stand-ins, *)
(* scripts/fplSmoke.js refuses to write samples in which a real name, ID   *)
(* or rank is left, and ops/sampleFpl.js answers from the samples as FPL   *)
(* would, so that a database can be seeded.                                *)
(*                                                                         *)
(* The answers that name somebody are a record:                            *)
(*   given     [leagues, entries] of the command line, sequences           *)
(*   table     one page of a league: [league, rows, joins]                 *)
(*   profiles  of the entries that were asked for, in that order           *)
(*   squads    their picks, sets of players; a sequence too                *)
(*   ranks     the ranks in an entry's history                             *)
(*   live      the players of the live response, a sequence                *)
(* IDs and ranks are the numbers they are, a name is its words.            *)
(***************************************************************************)
EXTENDS Values, TLC

CONSTANT KeptElements   \* players that a trimmed response keeps: 20

FirstLeague == 900000
FirstEntry == 100000
RANK_PLACEHOLDER == 500000

\* list.slice(0, n)
FirstOf(list, n) == SubSeq(list, 1, Min({n, Len(list)}))

\* The values of a list that are not absent.
Present(list) == SelectSeq(list, LAMBDA x : x # Null)

\* A list without what it repeats: the keys of a Map in the order they came.
Distinct(list) ==
  FoldLeft(LAMBDA known, x : IF x \in Range(known) THEN known ELSE Append(known, x), <<>>, list)

Column(rows, F(_)) == [i \in DOMAIN rows |-> F(rows[i])]

\* The leagues of a profile that its sample keeps.
Listed(profile) == FirstOf(profile.leagues, 2)

-----------------------------------------------------------------------------
\* createIdMap(), once all is anonymized: an ID's place is its number.  The
\* command line comes first, for the report, then the table, then the profiles.
IdMap(raw) ==
  LET entryOf(row) == row.entry
      ofProfile(p) == <<p.id>> \o Column(Listed(p), LAMBDA l : l.admin)
      idsOf(p) == Column(Listed(p), LAMBDA l : l.id)
  IN [entries |-> Distinct(Present(
        raw.given.entries \o <<raw.table.league.admin>> \o Column(raw.table.rows, entryOf)
          \o Column(FirstOf(raw.table.joins, 2), entryOf)
          \o FlattenSeq(Column(raw.profiles, ofProfile)))),
      leagues |-> Distinct(
        raw.given.leagues \o <<raw.table.league.id>> \o FlattenSeq(Column(raw.profiles, idsOf)))]

Number(list, id) == CHOOSE n \in DOMAIN list : list[n] = id
EntryOf(ids, id) == FirstEntry + Number(ids.entries, id)
LeagueOf(ids, id) == FirstLeague + Number(ids.leagues, id)

\* A plausible bug: who runs a league is forgotten.
AdminKept(ids, admin) == admin
AdminOf(ids, admin) == IF admin = Null THEN Null ELSE EntryOf(ids, admin)

Named(word, n) == <<word, ToString(n)>>

\* scrubRanks: null stays null.
ScrubRank(rank) == IF rank = Null THEN Null ELSE RANK_PLACEHOLDER

\* anonymizeStandings: the ranks of the table stay.
AnonymizeStandings(table, ids) ==
  LET number(row) == Number(ids.entries, row.entry)
      league == table.league
  IN [league |-> [id |-> LeagueOf(ids, league.id), admin |-> AdminOf(ids, league.admin),
                  name |-> Named("League", Number(ids.leagues, league.id))],
      rows |-> Column(table.rows, LAMBDA row :
                 [entry |-> EntryOf(ids, row.entry), team |-> Named("Team", number(row)),
                  manager |-> Named("Manager", number(row)), rank |-> row.rank]),
      joins |-> Column(FirstOf(table.joins, 2), LAMBDA row :
                  [entry |-> EntryOf(ids, row.entry), team |-> <<"Team">>, manager |-> <<"Manager", "N">>])]

\* anonymizeEntryProfile; of a league, what its phases say of it stays.
AnonymizeEntryProfile(profile, ids) ==
  LET n == Number(ids.entries, profile.id)
  IN [id |-> EntryOf(ids, profile.id), team |-> Named("Team", n),
      first |-> <<"Manager">>, last |-> <<ToString(n)>>, rank |-> ScrubRank(profile.rank),
      leagues |-> [i \in DOMAIN Listed(profile) |->
        LET l == profile.leagues[i]
        IN [id |-> LeagueOf(ids, l.id), name |-> <<"League", "classic", ToString(i)>>,
            admin |-> AdminOf(ids, l.admin), phase |-> l.phase, rank |-> ScrubRank(l.rank)]]]

\* A plausible bug: players whom somebody picked are not kept.
TrimPicked(live, keepIds) == {live[i] : i \in {i \in DOMAIN live : i <= KeptElements}}

\* trimLive: the first players, and those whom somebody picked.
TrimLive(live, keepIds) ==
  LET kept == {i \in DOMAIN live : i <= KeptElements \/ live[i] \in keepIds}
  IN {live[i] : i \in kept}

\* What the smoke test would write: of every endpoint, its first answer.
Samples(raw) ==
  LET ids == IdMap(raw)
  IN [table |-> AnonymizeStandings(raw.table, ids),
      profile |-> AnonymizeEntryProfile(Head(raw.profiles), ids),
      squad |-> Head(raw.squads),
      ranks |-> {ScrubRank(r) : r \in raw.ranks},
      live |-> TrimLive(raw.live, UNION Range(raw.squads))]

-----------------------------------------------------------------------------
\* A plausible bug: the ranks of managers are not searched for.
NumbersWithoutRanks(raw) ==
  Range(raw.given.leagues) \cup Range(raw.given.entries)
    \cup {row.entry : row \in Range(raw.table.rows)}

\* The real IDs, ranks and names that no sample may have.
SecretNumbers(raw) ==
  LET ranks == raw.ranks \cup UNION {{p.rank} \cup {l.rank : l \in Range(p.leagues)} : p \in Range(raw.profiles)}
  IN Range(raw.given.leagues) \cup Range(raw.given.entries)
       \cup {row.entry : row \in Range(raw.table.rows)} \cup (ranks \ {Null})
SecretNames(raw) ==
  {raw.table.league.name} \cup UNION {{row.team, row.manager} : row \in Range(raw.table.rows)}
    \cup UNION {{p.first, p.last, p.team} : p \in Range(raw.profiles)}

\* The numbers and the texts of the samples.
NumbersIn(s) ==
  {s.table.league.id, s.table.league.admin, s.profile.id, s.profile.rank}
    \cup s.ranks \cup UNION {{row.entry, row.rank} : row \in Range(s.table.rows)}
    \cup {row.entry : row \in Range(s.table.joins)}
    \cup UNION {{l.id, l.admin, l.phase, l.rank} : l \in Range(s.profile.leagues)}
NamesIn(s) ==
  {s.table.league.name, s.profile.team, s.profile.first, s.profile.last}
    \cup UNION {{row.team, row.manager} : row \in Range(s.table.rows) \cup Range(s.table.joins)}
    \cup {l.name : l \in Range(s.profile.leagues)}

\* text.includes(name), over words.
Includes(text, name) ==
  \E i \in 1..(Len(text) - Len(name) + 1) : SubSeq(text, i, i + Len(name) - 1) = name

\* findLeaks: small numbers and short names are not looked for.
LongEnough(name) == Len(name) > 1 \/ Len(Head(name)) >= 3
LeakedNumbers(s, raw) == {n \in SecretNumbers(raw) \cap NumbersIn(s) : n >= 1000}
LeakedNames(s, raw) ==
  {name \in SecretNames(raw) : LongEnough(name) /\ \E text \in NamesIn(s) : Includes(text, name)}

\* The samples are written.
Published(raw) ==
  LET s == Samples(raw) IN LeakedNumbers(s, raw) = {} /\ LeakedNames(s, raw) = {}

-----------------------------------------------------------------------------
\* sampleFetch, the profile of a member of the table: the one profile there is,
\* under the names of the member's row.
ServedProfile(s, entry) ==
  LET row == CHOOSE r \in Range(s.table.rows) : r.entry = entry
      whole == Len(row.manager) = 1
  IN [s.profile EXCEPT !.id = entry, !.team = row.team,
        !.first = IF whole THEN row.manager ELSE Front(row.manager),
        !.last = IF whole THEN <<>> ELSE <<Last(row.manager)>>]

Entries(s) == {row.entry : row \in Range(s.table.rows)}

-----------------------------------------------------------------------------
\* The samples tell one story: a profile, recorded apart from the table, has the
\* identity that its row has there, so that the seed serves the sampled team as
\* it was sampled ("under its own anonymized ID and names from the league
\* table", sampleFpl.js:12); no two members are served as one; and whoever was
\* picked has live points if FPL gave them.
SamplesTellOneStory(raw) ==
  LET s == Samples(raw)
  IN /\ (\E row \in Range(raw.table.rows) : row.entry = Head(raw.profiles).id) =>
          /\ s.profile.id \in Entries(s)
          /\ ServedProfile(s, s.profile.id) = s.profile
     /\ Cardinality(Entries(s)) = Cardinality({row.entry : row \in Range(raw.table.rows)})
     /\ \A a, b \in Entries(s) :
          a # b => ServedProfile(s, a).team # ServedProfile(s, b).team
                   /\ ServedProfile(s, a).last # ServedProfile(s, b).last
     /\ s.squad \cap Range(raw.live) \subseteq s.live

\* Nobody is named in what is written ("Real identifiers that must never appear
\* in committed files", fplSmoke.js:80).  The anonymizer and the search for what
\* it missed cover for each other: where the one leaves a field as it is (the
\* ranks of a table, the phases of a league), and where the other does not look
\* (small numbers, short names, who joins a league, who runs it).
NobodyNamed(raw) ==
  LET s == Samples(raw)
      people == {row.entry : row \in Range(raw.table.rows) \cup Range(raw.table.joins)}
                  \cup {p.id : p \in Range(raw.profiles)} \cup {raw.table.league.admin}
                  \cup {l.admin : l \in UNION {Range(p.leagues) : p \in Range(raw.profiles)}}
      names == SecretNames(raw) \cup UNION {{row.team, row.manager} : row \in Range(raw.table.joins)}
      entries == Entries(s) \cup {row.entry : row \in Range(s.table.joins)} \cup {s.profile.id}
                   \cup {s.table.league.admin} \cup {l.admin : l \in Range(s.profile.leagues)}
      ranks == UNION {{p.rank} \cup {l.rank : l \in Range(p.leagues)} : p \in Range(raw.profiles)} \cup raw.ranks
  IN Published(raw) =>
       /\ entries \ {Null} \subseteq FirstEntry + 1 .. FirstEntry + Cardinality(people)
       /\ names \cap NamesIn(s) = {}
       /\ \A l \in Range(raw.given.leagues) : l >= 1000 => l \notin NumbersIn(s)
       /\ \A r \in ranks \ {Null} : r >= 1000 => r \notin NumbersIn(s)
=============================================================================
