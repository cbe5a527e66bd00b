----------------------------- MODULE MCComponents -----------------------------
(***************************************************************************)
(* The smaller components on small instances, in one run.  An initial      *)
(* state chooses the component that is looked at, `focus'; the others stay *)
(* where they start.  The analytics have no state: their inputs are        *)
(* enumerated in the initial states and the properties are about what they *)
(* compute from them.                                                      *)
(***************************************************************************)
EXTENDS MCAnalytics

VARIABLES
  focus,   \* the component looked at
  input,   \* the input of the analytics, if that is what is looked at
  output,  \* what they compute from it
  \* Semantics
  served, stored, value, evidence, conflicts, run, revisions, interrupted,
  \* FreshData
  clock, fpl, cache, event, row, sync, final,
  \* GroupMembers
  group, managers, holder, job,
  \* RequestLog
  body, failed, call, chain, owed, full, status, requests, warnings, writeErrors,
  \* Migrations
  schema, record, lease, proc,
  \* Planner
  drafts, active, storage,
  \* SmokeTest
  at, given, gw, next, todo, seen, log, exit,
  \* DbCheck
  db, recorder, owes, fault, scan,
  \* Snapshots
  now, answer, flag, observed, doc, writer, overwrote

semantics == <<served, stored, value, evidence, conflicts, run, revisions, interrupted>>
fresh == <<clock, fpl, cache, event, row, sync, final>>
membership == <<group, managers, holder, job>>
requestLog == <<body, failed, call, chain, owed, full, status, requests, warnings,
                writeErrors>>
migrations == <<schema, record, lease, proc>>
planner == <<drafts, active, storage>>
smoke == <<at, given, gw, next, todo, seen, log, exit>>
dbCheck == <<db, recorder, owes, fault, scan>>
snapshots == <<now, answer, flag, observed, doc, writer, overwrote>>

-----------------------------------------------------------------------------
\* Two managers with a hit row each, two syncs of which one may be cut short.
Sem == INSTANCE Semantics WITH
  Entry <- {1, 2}, Run <- {"r1", "r2"}, Reading <- {"GROSS", "NET"},
  MayStop <- {"r1"}, MaxRevisions <- 2

\* One sync and one finalize that share a cache.
Fresh == INSTANCE FreshData WITH
  Sync <- {"sync", "final"}, Finalize <- {"final"}, Ttl <- 2, MaxTime <- 2

\* Two jobs, one of which may stall; a league that grows and shrinks, and one
\* whose second page repeats an entry of the first.
Members == INSTANCE GroupMembers WITH
  Mine <- {1}, Job <- {"j1", "j2"}, MayStall <- {"j1"},
  League <- {<<>>, <<1, 1, 2>>, <<4>>},
  Chosen <- {<<3>>, <<2, 2>>}, MaxMembers <- 3

\* Four calls to a log of two entries; the body waits for two of them.
Log == INSTANCE RequestLog WITH
  Call <- 1..4, Wait <- {1, 2}, MaxRequests <- 2, MaxFailures <- 1

\* Two servers of different releases: the text of the second migration differs.
Mig == INSTANCE Migrations WITH
  Process <- {"p1", "p2"}, Count <- 2,
  Release <- [p \in {"p1", "p2"} |-> IF p = "p1" THEN <<"a", "b">> ELSE <<"a", "c">>]

\* A squad of three out of four players, one of two defenders, with a club
\* clash; an eleven of two, with the goalkeeper, whom nobody expects much of.
Plan == INSTANCE Planner WITH
  Player <- 1..4,
  PositionOf <- <<"gk", "def", "def", "fwd">>,
  ClubOf <- <<"a", "b", "c", "b">>,
  Estimate <- <<2, Null, 5, 6>>,
  Position <- {"gk", "def", "fwd"},
  Shape <- [gk |-> 1, def |-> 1, fwd |-> 1],
  XiMin <- [gk |-> 1, def |-> 0, fwd |-> 0],
  XiMax <- [gk |-> 1, def |-> 1, fwd |-> 1],
  XiPlayers <- 2, ClubLimit <- 1, Price <- <<40, 50, 45, 60>>,
  Mine <- {1, 3}, Budget <- {140, 150}, MaxDrafts <- 2

\* A league of two pages, one of whose members is sampled, and another entry;
\* one answer or verdict that is not as hoped.
Smoke == INSTANCE SmokeTest WITH
  League <- {10}, Explicit <- {1}, Sampled <- {2}, MaxPages <- 2, MaxTroubles <- 1

\* One member, two runs that two decisions may rest on, one of them perhaps behind
\* the result before; one collection is read before the others, or all at once.
Check == INSTANCE DbCheck WITH
  Entry <- {1}, Run <- {"r1", "r2"}, Past <- "r1", MaxDecisions <- 2,
  Early <- LET names == {"group", "managers", "rows", "snapshots", "actions", "pointer", "runs"}
           IN {{c} : c \in names} \cup {names}

\* Three syncs that write the same row, of which FPL knows two versions.
Snap == INSTANCE Snapshots WITH Run <- {"s1", "s2", "s3"}, Content <- {"old", "new"}, MaxTime <- 1

-----------------------------------------------------------------------------
Components == {"semantics", "fresh data", "members",
  "request log", "migrations", "planner", "smoke test", "db check",
  "snapshots"}

\* One initial state for the components with several, while they rest.
PlannerAtRest == Plan!Init /\ storage = Null
SmokeAtRest == Smoke!Init /\ given
CheckAtRest == Check!Init /\ DOMAIN db.runs = {}

\* The analytics have an input each, a component has none.
Init ==
  /\ focus \in Components \cup DOMAIN InputsOf
  /\ Sem!Init
  /\ Fresh!Init
  /\ Members!Init
  /\ Log!Init
  /\ Mig!Init
  /\ IF focus = "planner" THEN Plan!Init ELSE PlannerAtRest
  /\ IF focus = "db check" THEN Check!Init ELSE CheckAtRest
  /\ IF focus = "smoke test" THEN Smoke!Init ELSE SmokeAtRest
  /\ Snap!Init /\ answer = "old"
  /\ input \in IF focus \in Components THEN {Null} ELSE InputsOf[focus]
  /\ output = OutputOf(focus, input)

SemanticsStep ==
  /\ focus = "semantics" /\ Sem!Next
  /\ UNCHANGED <<focus, input, output, fresh, membership, requestLog, migrations, planner, smoke, dbCheck, snapshots>>

FreshDataStep ==
  /\ focus = "fresh data" /\ Fresh!Next
  /\ UNCHANGED <<focus, input, output, semantics, membership, requestLog, migrations, planner, smoke, dbCheck, snapshots>>

MembersStep ==
  /\ focus = "members" /\ Members!Next
  /\ UNCHANGED <<focus, input, output, semantics, fresh, requestLog, migrations, planner, smoke, dbCheck, snapshots>>

RequestLogStep ==
  /\ focus = "request log" /\ Log!Next
  /\ UNCHANGED <<focus, input, output, semantics, fresh, membership, migrations, planner, smoke, dbCheck, snapshots>>

MigrationsStep ==
  /\ focus = "migrations" /\ Mig!Next
  /\ UNCHANGED <<focus, input, output, semantics, fresh, membership, requestLog, planner, smoke, dbCheck, snapshots>>

PlannerStep ==
  /\ focus = "planner" /\ Plan!Next
  /\ UNCHANGED <<focus, input, output, semantics, fresh, membership, requestLog, migrations, smoke, dbCheck, snapshots>>

SmokeTestStep ==
  /\ focus = "smoke test" /\ Smoke!Next
  /\ UNCHANGED <<focus, input, output, semantics, fresh, membership, requestLog, migrations, planner, dbCheck, snapshots>>

DbCheckStep ==
  /\ focus = "db check" /\ Check!Next
  /\ UNCHANGED <<focus, input, output, semantics, fresh, membership, requestLog, migrations, planner, smoke, snapshots>>

SnapshotsStep ==
  /\ focus = "snapshots" /\ Snap!Next
  /\ UNCHANGED <<focus, input, output, semantics, fresh, membership, requestLog, migrations, planner, smoke, dbCheck>>

Next ==
  \/ SemanticsStep \/ FreshDataStep \/ MembersStep \/ RequestLogStep
  \/ MigrationsStep \/ PlannerStep
  \/ SmokeTestStep \/ DbCheckStep \/ SnapshotsStep

componentVars ==
  <<focus, input, output, semantics, fresh, membership, requestLog, migrations, planner, smoke, dbCheck, snapshots>>

Spec == Init /\ [][Next]_componentVars

-----------------------------------------------------------------------------
(* The properties, one per component; each is stated in its module, and    *)
(* looked at where the component moves: elsewhere it stays as it starts.   *)

\* What a season says about FPL's points follows the rows that the syncs of
\* groups with shared members stored (syncService.js applies it after them).
SemanticsFollowRows == focus = "semantics" => Sem!SemanticsFollowRows

\* The data of a final result is at most one cache lifetime older than the run
\* that fetched it (client.js answers from its cache).
FinalAtMostTtlOld == focus = "fresh data" => Fresh!FinalAtMostTtlOld

\* The members of a group are sound whatever jobs, stalls and edits race.
MembersSound == focus = "members" => Members!MembersSound

\* No job undoes what an edit did to a member, and no edit what a job did.
MembersKept == Members!MembersKept

\* What a run's document says is what happened: its request log has every call,
\* or says that some are missing; and no settled row changes without a warning
\* of the run that changed it.
RunsTellAll ==
  /\ focus = "request log" => Log!GapsAreAnnounced
  /\ focus = "snapshots" => Snap!SettledChangesReported

\* A server that has started finds every migration applied and recorded.
StartedIsMigrated == focus = "migrations" => Mig!StartedIsMigrated

\* A draft of the planner stays one the editor can finish, and no eleven that
\* is allowed is expected to score more than the one it proposes.
DraftsSound == focus = "planner" => Plan!DraftsSound /\ Plan!BestXiIsBest

\* Exit code 0 of the smoke test decides every assumption; the samples it
\* records agree with each other and name nobody (anonymize.js).
SmokeIsSound ==
  /\ focus = "smoke test" => Smoke!PassDecidesAll
  /\ focus = "samples" => SamplesHold(input)

\* db:check reports what was edited by hand, and nothing that was not.
ScanIsExact == focus = "db check" => Check!ScanIsExact

\* Reconciled points add up to FPL's totals, and doubt is kept (reconcile.js).
PointsReconciled ==
  /\ focus = "points" => PointsHold(input, output)
  /\ focus = "normalize" => NormalizeHolds(input)

\* The loop that picks the winners and the sort that makes the table agree,
\* and nobody whose points are unknown is passed over (winner.js, ranking.js).
WinnersLeadTable ==
  focus = "winner" => WinnerHolds(input, output)

\* Multipliers, ownership, transfers and chips are each counted once
\* (effectiveSquad.js, ownership.js, transfers.js, chips.js).
SquadsAddUp ==
  /\ focus = "squads" => SquadsHold(input, output)
  /\ focus = "transfers" => TransfersBalance(input.eligible, output)
  /\ focus = "chips" => ChipsHold(input)
  /\ focus = "chip view" => ChipViewAgrees(input)
  /\ focus = "live" => LiveHolds(input)

\* What two rivals are told about each other is the same (rivals.js).
RivalsMirror ==
  focus = "rivals" => RivalsHold(input)

\* The simulator, the prices, the finder and the alerts of a player do not
\* contradict each other (transfer.js, playerStats.js, finder.js, news.js).
PlayersJudgedAlike ==
  /\ focus = "swap" => SwapHolds(input)
  /\ focus = "prices" => PricesHold(input)
  /\ focus = "finder" => FinderHolds(input)
  /\ focus = "simulator" => OffersAreSimulated(input.page, input.catalogue, input.server)
=============================================================================
