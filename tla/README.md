# FPL Radar, specified in TLA+

FPL Radar is an Express and MongoDB service (`src/server`) with a React client
(`src/client`). It syncs Fantasy Premier League data into MongoDB under lease
locks and lets an administrator turn a gameweek's computed result into a final,
hash-chained decision. This directory models the parts of the server whose
correctness depends on interleavings, failures and time, the analytics whose
edges are hard to test, and the parts of the client that keep state; TLC checks
the models on small instances and TLAPS proves the most important properties for
all.

Paths below are relative to `src/server/src` unless they start with `src/`.

## 1. Inventory

| component | state | operations | what is hard about it |
|---|---|---|---|
| Lease lock (`locks/`, `repositories/lockRepo.js`) | one document per lock: owner, fencingToken, expiresAt; per run a `Lease` with `lost`, `released` | acquire (take over, create), heartbeat, fence, release; TTL deletion | statements evaluated late or not at all; expiry between any two steps; token order across deletion |
| Transactions (`db/unitOfWork.js`) | the open transaction's writes | withTransaction | retries of the callback; write conflicts with takeovers |
| Upstream calls (`fpl/circuitBreaker.js`, `retry.js`, `rateLimiter.js`) | circuit, failure count, probe flag; attempt; queue and reservoir | execute, withRetry, schedule | an attempt settles in another state of the circuit than it was admitted in |
| Cache and client (`fpl/client.js`, `fpl/cache.js`) | TTL entries, single flight | request | a cached answer is older than the run that uses it |
| Sync service (`sync/syncService.js`) | `active` map, `closing`; per run its lease, outcome | runJob with bootstrap, members, live, history and semantics stages; withGroupLease; shutdown | stalls beyond the lease, crashes, shutdown at any await, partial failure |
| Sync run documents (`repositories/syncRunRepo.js`, `sync/runRecorder.js`) | status, token, request log | insert, pushRequest, finish, markAbandoned, unsetExpiry | finish races abandonment; leftovers of crashed processes |
| Results and decisions (`services/resultService.js`, `repositories/resultRepo.js`, `audit/hashChain.js`) | snapshots, actions, the pointer | finalize, override, recompute, verifyChain | write skew with group edits, concurrent first decisions, retention |
| Season semantics (`repositories/seasonRepo.js`) | value, evidence and conflict counters | replaceTeamsAndChipRules, applySemanticsEvidence | evidence lost between two transactions |
| Groups (`services/groupService.js`, `repositories/groupRepo.js`) | members, configuration, archive flag | create, updateMember, updateConfig, archive, addMembers | edits take no lease |
| Snapshot repositories (`repositories/internal/`) | content hash, confirming run, settled | upsertSnapshots, loadGroupGw | a row confirmed by another run |
| Response normalisation (`sync/normalize.js`) | none | rows of a season from history and picks, league members merged | gaps, replays, evidence carried forward |
| Analytics engine (`analytics/`, `services/resultModel.js`) | none | event state, eligibility, winner, tie-breaks, reconciliation, effective squads | numeric edges, ties, unknown values |
| Analytics for players and rivals (`analytics/`, `services/*Model.js`) | none | form, threats, prices, simulator, finder, news, ownership, transfers, chips | averages over gaps; two ends that must agree |
| Migrations (`db/migrations/`) | applied records | runMigrations under a lease | the lease is never fenced |
| Database check (`ops/dbCheck.js`) | none | a scan of all collections | reads without a snapshot |
| Shutdown (`shutdown.js`, `server.js`) | one promise | shutdown | order of marking and releasing |
| Browser client (`src/client`) | planner drafts in local storage; the transfer page's plan and players, fetched at different times | edit, copy, drop, reload; offer, flag, simulate | drafts read back; a page that judges by what it fetched earlier |
| Smoke test (`fpl/smoke/`, `src/server/scripts/fplSmoke.js`) | a log of requests and verdicts | a fixed order of requests, exit code | checks that never ran |
| Routes, authentication, read services | none over time | validation, assembly | not modelled |

Interaction: every sync, group registration and decision runs under a lease of
the lock `sync:group:<id>` or `sync:bootstrap`; a group sync additionally takes
the bootstrap lock for its first transaction. All FPL calls of a process share
one breaker, limiter and cache. `PROJECT.json` lists the hazards of each part at
their lines, with the properties that cover them.

## 2. Modules

| module | what it is | status |
|---|---|---|
| `FencedStore` | abstract: what the lease promises its users | checked, proved (`LeaseLockProofs`) |
| `LeaseLock` | lockRepo's statements and the Lease object | checked, proved (`LeaseLockProofs`) |
| `FplRequests` | retry over breaker over limiter | checked, proved (`FplProofs`) |
| `SyncRun` | the sync service's runs over its locks, in several processes | checked, proved (`SyncRunProofs`) |
| `ResultLedger` | abstract: what the decisions of a gameweek promise | checked, proved (`DecisionProofs`) |
| `Decision` | finalize, override and recompute of one gameweek of one group | checked, proved (`DecisionProofs`) |
| `Semantics` | whether FPL's points are gross or net: evidence, conflicts, the value | checked, proved (`SyncRecordProofs`) |
| `FreshData` | the client's cache under syncs and a finalize | checked, proved (`SyncDataProofs`) |
| `Snapshots` | one row that syncs of several groups write | checked, proved (`SyncDataProofs`) |
| `GroupMembers` | the members of a group under jobs and edits | checked, proved (`EditingProofs`) |
| `RequestLog` | the request log and warnings of one run | checked, proved (`SyncRecordProofs`) |
| `Migrations` | the migrations of servers that boot, die and differ | checked, proved (`DatabaseProofs`) |
| `DbCheck` | the scan of `npm run db:check` while others write | checked, proved (`DatabaseProofs`) |
| `SmokeTest` | the smoke test's requests, verdicts and exit code | checked, proved (`FplProofs`) |
| `Anonymize` | the samples it records, and what the seed serves from them | checked over bounded inputs |
| `Planner` | the planner's drafts, and what the browser keeps of them | checked, proved (`EditingProofs`) |
| `Points`, `Normalize` | reconciliation of points; the rows of a season | checked over inputs |
| `Winner`, `ResultModel` | ranking, tie-breakers, eligibility; a result, its snapshot and differences | checked over inputs |
| `Squad` | effective squads, ownership, transfers, chips | checked over inputs |
| `Rivals`, `PlayerTools`, `TransferPage` | rivals, prices, simulator, finder, news; whom the transfer page offers and flags | checked over inputs |
| `Values` | absent values, maps and sums that the pure modules share | |
| `MCLeaseLock`, `MCFplRequests`, `MCSyncRun`, `MCDecision`, `MCAnalytics`, `MCComponents` | instances for TLC | |

### LeaseLock

One lock document, any number of runs, the server's clock. Each statement that
changes the document is sent by one action (`SendHeartbeat`, `SendFence`,
`SendRelease`) and evaluated by another (`Heartbeat`, `Fence`, `Release`) at
any later time, in any order, or never (`Drop`): this is the network and the
driver's pool. Acquisition is its two statements, `TakeOver` and `CreateLock`.
A fence opens a transaction that holds the document (`writer`) until `Commit`
or `Abort`; every other write of the document waits for it. A write conflict
that aborts the other statement instead of making it wait, which is what
MongoDB does within a transaction, is a `Drop`. A retried callback is another
`SendFence`. `TtlDelete` removes the document `Retention` after it expired.

`until`, `grant` and `log` are history variables: the expiry a run was last
promised, the latest grant, the tokens of the committed transactions.

The header of `lockRepo.js` argues that tokens keep growing after the TTL index
deleted the document, because a token runs ahead of the clock by at most the
number of acquisitions within a millisecond, which is far less than a day. That
premise is the guard `NextToken <= now + Burst` and the assumption `Burst <
Retention`; the conclusion is the refinement below.

**Refinement.** `FencedStore` has no clock, document or crash: `Grant` raises
the token, `Commit` appends the token of the latest grant. `LeaseLock`
implements it with `epoch <- grant.token, holder <- grant.owner`: only the
latest grant's holder can commit.

### FplRequests

The state of `CircuitBreaker`, the attempt counter of `withRetry`, and the
limiter's FIFO queue and reservoir. An attempt is admitted (`Admit`), started by
the limiter (`Start`), and settles in one of three ways: `Succeed`,
`FailUpstream` (timeout, network, 429, 5xx) or `FailOther`. A call that settled
may be made again, so the model needs no bound on the number of calls. Time is
`Tick`; only the time since the circuit opened is kept, up to `ResetTimeout`.
The failure count is kept up to the threshold, where more makes no difference.

### SyncRun

A run's `pc` names what it does next; between two steps is an await, where
anything may happen. Locks are those of `LeaseLock` at a coarser grain: owner,
epoch, and whether the lease has run out (`expired`). A fenced transaction is
one step, which `LeaseLock` justifies: nobody gets the lock between the fence
and the commit.

| action | code |
|---|---|
| `Begin`, `Acquire`, `Enter`, `Mark`, `Insert`, `StartFails`, `EnterBody` | `runJob` 106-134, `withGroupLease` 176-186 |
| `Fetch`, `WaitBoot`, `T1`, `FreeBoot`, `Players` | `bootstrapStage` |
| `T2` | `membersStage`; for a "members" run the bodies of `registerGroup`, `addMembers` |
| `T3`, `EndT3` | `fetchMember`, `writeMember`, `membersSyncStage` |
| `Live`, `Semantics` | `liveStage`, `historyStage`, `syncGroup` 607-610 |
| `Finish`, `T4`, `Release` | `runJob` 140-165; `runT4` under `after` or `withGroupLease` |
| `Close`, `ShutdownMark`, `ShutdownRelease` | `shutdown` 199-211, called by `shutdown.js` |
| `Crash`, `Expire` | a process dies; `$$NOW` reaches `expiresAt` |

A run's job is one of `group` (syncGroupGameweek), `finalize` (the same, then
T4), `bootstrap`, `members` (registerGroup or addMembers) and `decision`
(override or recompute, without a run document). Ended runs lose their objects
(`Forget`), as the code's do. `gone` is a history variable. A shutdown handles
the runs of its map in any order; the code handles them one after the other.

What the code writes is abstracted to the set `written` of transactions that
committed. The writes outside transactions (players, live data, semantics) are
made after a heartbeat and may be stale; no property speaks of them.

### Decision

Everything that can meet in one gameweek of one group: finalizes, each with its
sync; overrides and recomputes; the syncs of another group with some of the same
members; edits of the group; the TTL indexes; the verify endpoint.

A MongoDB transaction reads the database as of its first statement, sees its own
writes, and fails when it writes a document that has changed since. `runT4` is
therefore two steps: `Fence` keeps in `view` what the rest will read (`Database`),
and `CommitFinalize`, `CommitOverride` or `CommitRecompute` writes what follows
from it (`Decide`), if the documents it writes are as it read them. `Retry` is the
driver's new attempt. The fence writes the lock document, so it excludes, until the
end of the transaction, every acquisition and every other fenced statement.

| action | code |
|---|---|
| `StartFinalize`, `StartDecision`, `StartOther` | `finalize` and `syncGroup`, `override` and `recompute`; `runJob` to the insertion of the run |
| `T1`, `T3`, `MemberFails`, `LiveStage` | what the sync's stages do to the gameweek, the members' rows and the live points |
| `Capture` | the recorder's chain: a stored response, with an expiry |
| `Finish`, `Fails` | `flush`, `finish`; the sync goes on to T4 whatever its status |
| `Fence`, `Commit...`, `Retry`, `GiveUp` | `runT4`: refusals and replays are `GiveUp` |
| `ExcludeMember`, `SetActive` | `updateMember`, `archive`, `unarchive` |
| `ExpireRun`, `ExpireRaw` | the TTL indexes |
| `AuditActions`, `AuditPointer` | `GET actions/verify` |

A reconciled row is "low" or "high", which is enough to have a winner, another
winner and a tie; a tie is shared. A member's row stands for its managerGameweeks,
managerSeasons and managers documents, which one T3 writes; its `raw` for the
responses behind it. That responses are stored from the fetch on and not from T3
makes no difference to a decision, which cites the run only once T3 has
committed. A hash is the content hashed. `fresh` is the comparison the gate makes of
startedAt and dataCheckedObservedAt. The deadline of the gameweek has passed, FPL
does not take back a row, and the group's rules do not change; the check of the
season's semantics, which the gate makes too, is in `Semantics`.

**Refinement.** `ResultLedger` has no lease, transaction, sync, view or audit: one
step appends a whole decision to a ledger and shows its winners. `Decision`
implements it (`ImplementsLedger`). The ledger is made of three collections, the
actions and what their snapshots declare, and the current result of the pointer and
its snapshot: so a commit writes all of them or none, each request is recorded at
most once, a finalize is the first decision or none and somebody wins it, and a
recompute without a note keeps the winners.

### Semantics

Two syncs of groups that share members store their rows (`WriteMember`, T3) and
apply the counts of what those proved to the season at their end
(`ApplySemanticsEvidence`), outside those transactions. `served` is what FPL
answers, which it may change. A run that dies in between (`Stop`) takes its counts
with it: `interrupted` remembers that, and `SemanticsFollowRows` promises nothing
after it, because the code does not: the rows are stored, are not new any more, and
never count again. The season then stays UNVERIFIED although a row proves a reading.

### FreshData

Of the data only the time of the fetch matters. `Answer` is `getOrLoad`; the
bootstrap is read before T1 applies it, so an older one may be applied after a
newer one. `Gate` compares the start of the run with `observedAt`, as
`settledFor` does.

### Snapshots

`upsertSnapshots` under T3: `Begin` is the transaction's reads, `Commit` its
write, `Retry` what the driver does after a conflict. `overwrote` is a history
variable. The live points are written by the same function without a
transaction; the model's plausible bug `NeverConflicts` is their case: see the
observations.

### GroupMembers, RequestLog, Migrations

`GroupMembers`: creation, addition and the members' stage of a sync are jobs
under the group's lease, with their reads before it; the administrator's edits
take none. `RequestLog`: the recorder's promise chain is `chain`, its head is the
write under way, in its two updates (`Push`, `Truncate`); `flush` waits for the
writes that were there (`owed`). `Migrations`: a process that stalls beyond its
lease goes on; only `_migrations`' unique key stops it. `Apply` is one step that brings
a migration into effect; in the code 001 loops over collections and indexes, which
may be cut short and is done again at the next boot, and 002's `createIndexes` can throw
on an index of the same name that differs. Neither is modelled.

### DbCheck

The database is written by jobs (`AddMember`, `SetMe`, `WriteRow`), by the recorders
of runs and by decisions, each transaction or statement one step. A recorder writes
behind its run (`recorder`): after `StartRun` it may `Store` a response with an expiry,
must `Log` its hash, and may `Lose` the entry (a write fails, the log is full, the run
has ended, the process dies). `Decide` may cite any run that is there, the decision's
own or that of another group which confirmed a shared row and may still be writing; it
keeps what there is of the run's evidence (`KeepEvidence`) and no more. `owes` is a
history variable: the codes under which the scan may report what the last decision
that cites a run left open (`OpenOf`). So a database that only the program wrote is not
always free of errors, and the property does not say so: see the observations.

One edit by hand (`Tamper`) may precede the scan. Those in `Faults` must be reported
under the codes of their kind (`CodesOf`); of those in `Unseen` (evidence gone, as if
it had expired in time; the last action taken back together with the pointer's move)
the scan must make nothing up. The scan reads some collections earlier than others
(`Early`), and `raced` tells a scan during which something was written: it may report a
document that refers to a newer one. The information lines of the report, and actions
and pointer of the gameweek before, are left out.

### SmokeTest

Its requests in their fixed order: the bootstrap, the gameweek, leagues with their
pages, entries. An answer is good, broken, unusable, refused or does not come; at most
`MaxTroubles` answers and verdicts are not as hoped. An entry that does not exist must
be answered 404; another refusal is a FAIL. `PassDecidesAll` relates the exit code to
the verdicts of all assumptions, those of each league and entry among them, which are
filed at different places.

### Anonymize

What the smoke test records (`fpl/smoke/anonymize.js`, the end of
`scripts/fplSmoke.js`) and what the seed serves from it (`ops/sampleFpl.js`). An
answer keeps the fields that name somebody or that two answers share; names are
sequences of words, so that a name inside a longer text is found. `IdMap` is the
map after the last answer: a number, once given, does not change.
`SamplesTellOneStory` composes the two files: the profile that the seed puts
together from the table is the profile that was sampled. `NobodyNamed` needs both
the anonymizer and the search that refuses its output: the phases of a profile's
league keep their `league_id` and a table keeps its ranks, and the search skips
small numbers, short names, and those who only join or run a league.

### Planner

The reducer-like state of the page and `lib/planner.js`: drafts, the active one, and
what local storage keeps of them across `Reload`. `evaluate`'s greedy eleven is compared
with every eleven the rules allow. `BestXi` says in closed form whom the loop takes (a
player, if those of his position who come before him leave him a place among the
minima, or else if the places above the minima are not yet given to better ones), so
that it can be reasoned about. All ids of a draft are taken to be known to the players
view: `squadOf` drops the others (`planner.js:18`), and that `add` counts them (`:35`)
is left out.

### The analytics

Each module is the functions of the files it maps, as operators over maps and
sequences; a missing value is `Null`, numbers are integers (points, tenths).
`MCAnalytics` enumerates the inputs and states the properties against reference
definitions: what a table, a captain or a price must be, said without the loop
that computes it.

A result is compared with snapshots of every declared set, so a recompute also follows
an override, where the winners change although nobody's standing did. The steps of
`explainDecision`'s trace and its reasons of ineligibility are left out.

`TransferPage` has two ends. The page offers and flags players by a plan and a list of
players that it fetched earlier and separately (the latter up to five minutes, from its
cache); the server loads everything again and judges position, ownership, club limit and
money. The property says what the two agree on when the page is up to date, and what
the server promises whatever the page showed. `PurchasePrice` takes the last of a
player's buys in the order of the code, which sorts by gameweek and then by `String` of
a date, that is, by the name of the weekday (`AsText`); the order of months, which
counts only within one weekday, is left out.

## 3. Runs

| run | instance | what it shows |
|---|---|---|
| `lease` | 2 runs whose processes may die, `Ttl` 1, `Retention` 2, grants until time 3, 2 commits | `MutualExclusion`, `LostIsFinal`, `FreedByHolderOrTime`, refinement of `FencedStore`, `DeadHolderYields` |
| `fpl_requests` | 3 calls, threshold 2, reset 2 ticks, 2 attempts, burst 2 | `SingleProbe`, `ClosedBelowThreshold`, `AdmitsAgain`, `CallsSettle`, no deadlock |
| `fpl_open` | the same | a violation: see findings |
| `sync_safety` | 2 runs of one group, at most one with the long body, 2 processes that crash, close and stall at any step, 1 member | `LeftoversRecovered`, `SuccessIsComplete`, `FinalIsFinal`, `StaleNeverWrites` |
| `sync_live` | a finalize and a bootstrap job over the bootstrap lock, 2 processes that crash, releases that fail | `LocksComeBack`, `RunsEnd` |
| `sync_stale` | the same two jobs, stalls and shutdowns | a violation: see findings |
| `decision_races` | 2 finalizes, the first may stall or die, a recompute, a sync of another group sharing one of 2 members, a verify request | `ChainValid`, refinement of `ResultLedger` (`ImplementsLedger`), `FinalTraceable`, `LeaseHoldsInputs`, `AlarmOnlyIfRaced` |
| `decision_life` | a finalize, an override and a recompute without a note, the other sync; failures, crashes, an edit, expiry, a data-checked flag that reverts | `SourcesRetained`, `ChangesNoted` |
| `decision_evidence`, `decision_inputs` | a finalize, an override or recompute, the other sync | violations: see findings |
| `components` | one of the smaller components, or one input of the analytics, chosen by the initial state (`focus`) | the table below |
| `final_unfresh` | a sync and a finalize that share a cache | a violation: see findings |

The small components do not interact with one another beyond what the larger modules
model, so one run looks at each from its own initial states and leaves the
others where they start.

| property of `components` | component | instance |
|---|---|---|
| `SemanticsFollowRows` | `Semantics` | 2 managers, 2 syncs of which one may be cut short, rows revised twice |
| `FinalAtMostTtlOld` | `FreshData` | a sync and a finalize, a lifetime of 2, time to 2 |
| `MembersSound`, `MembersKept` | `GroupMembers` | 2 jobs, one may stall; leagues that grow, shrink and repeat an entry |
| `RunsTellAll` | `RequestLog`, `Snapshots` | 4 calls, a log of 2, one failing write; 3 syncs, 2 versions of a row |
| `StartedIsMigrated` | `Migrations` | 2 servers of different releases, 2 migrations |
| `DraftsSound` | `Planner` | 4 players with a club clash and an unknown estimate, squads of 3, 2 drafts |
| `SmokeIsSound` | `SmokeTest`, `Anonymize` | a league of 2 pages, one explicit and one sampled entry, 1 trouble; answers about a table of 2 rows, 3 who join, up to 3 leagues in a profile |
| `ScanIsExact` | `DbCheck` | 1 member, 2 runs (one of the gameweek before), 2 decisions, recorders that lose an entry, every kind of edit, one collection read early or all at once |
| `PointsReconciled` | `Points`, `Normalize` | histories of up to 3 gameweeks with hits, gaps and earlier rows |
| `WinnersLeadTable` | `Winner`, `ResultModel` | 3 members with unknown, tied and missing values, all rules; every declared set, so that a recompute follows an override |
| `SquadsAddUp` | `Squad` | small squads with every captaincy, substitution, chip and minute |
| `RivalsMirror` | `Rivals` | 3 members, 3 gameweeks with gaps |
| `PlayersJudgedAlike` | `PlayerTools`, `TransferPage` | squads of 3, prices on both sides of the purchase, unknown prices, two buys in one gameweek; a page with an older plan or players |

**Bounds.** `lease`: an earlier holder with statements under way and the present
one; with `Ttl` 1 and grants until time 3 each of them can expire, be taken over
and, with `Retention` 2, see the document deleted. That a third run makes no
difference is what the proofs show. `Burst` 1 lets a token run ahead of the clock.
`fpl_requests`: three calls are two that open the circuit and one admitted before;
time and the number of successive calls are unbounded. `sync_*`: two runs, because
each property relates a run to one earlier or later run of its lock or to one it
waits for. One member that fails or is written tells success from partial failure.
`MayCrash`, `MayClose`, `MayFail` and `MayStall` name the processes and runs to
which each fault may happen; where a run leaves one out the others are explored in
full. `decision_*`: a finalize can only be the first decision, so two of them and a
recompute race for each place of the chain in `decision_races`, and three different
decisions follow one another in `decision_life`; two members, one shared, make a
tie, a winner and a loser. `Answers` and `Checked` say what each sync may find,
`Declared` and `Noted` what a request contains; the `May...` constants and
`MaxEdits`, `MaxAudits`, `Recorded` bound the rest. `components`: each instance has
what its hazard needs and one more: two writers and a row that changes twice, a
log that overflows while a write fails, a gap before and after a proof, two
players of one club. Sizes the code fixes (15 and 11 players, 38 gameweeks, 300
requests, 50 members) are constants, set to 2 or 3. Deadlock is not checked where
the system may stop: no run left to begin, the clock at its bound, an input that
has been evaluated.

**Fairness.** `lease`: time passes (`Tick`) and an open transaction ends,
because MongoDB aborts it after `transactionLifetimeLimitSeconds`; no run need
do anything. `fpl_requests`: timers fire. The limiter starts a queued job, the
request timeout ends a fetch, a backoff ends; new calls need not come.
`sync_live`: a run of a live process moves on, because fetches time out, polls
end and statements are answered; a lease nobody extends runs out. No fairness is
assumed of requests, shutdowns or crashes, and none in `components`.

## 4. Findings

* `fpl_open` / `StaysOpen`. `circuitBreaker.js:4` and `src/README.md:103` say
  an open circuit rejects requests until the reset timeout. An attempt admitted
  before the circuit opened and answered after closes it at once
  (`circuitBreaker.js:62-63`): `execute` does not look at the state in which it
  settles.
* `sync_stale` / `TransactionsUnderLease`. `src/docs/ARCHITECTURE.md:326` says
  that with the fence "a stale holder can never commit data after losing its
  lease", for every T1-T3 transaction, and `syncService.js:196` that after a
  shutdown in-flight work fails its next fence. T1 of a group run is fenced on
  the bootstrap lease alone, which no shutdown releases; the run commits T1
  after its own lease was given back. The data T1 writes are those of the
  season and not of the group, and `StaleNeverWrites` shows that everything
  fenced on the run's own lease (T2, T3, T4) is safe.

* `decision_evidence` / `EvidenceRetained`. "Everything the snapshot cites is
  retained permanently" (`resultService.js:86`), and `ops/dbCheck.js:164-167`
  reports evidence of a cited run that still expires as an error (I7). An override
  or recompute may cite a finalize of another group that is still running, whose
  recorder stores bodies after its rows; what is stored after the decision keeps
  its 14 days. `FinalTraceable` shows that a finalize does not have this problem with
  its own run: `flush` comes first.
* `decision_inputs` / `CommitsOnInputs`. `resultService.js:25-26`: "Finalize
  holds the lease from its FINALIZE sync through T4, so inputs cannot change
  between the gate and the commit." They can: by a sync of another group that
  shares a member, and by edits of the group, none of which takes this lease and none
  of which writes a document T4 writes. The result is still one the gate
  allowed on a consistent view. `LeaseHoldsInputs` shows what the lease does
  give: no sync of the same group comes between.

* `final_unfresh` / `FinalOnCheckedData`. `src/docs/ARCHITECTURE-v0.2.md:112`:
  "Finalization is allowed only when FPL reports data_checked = true and every
  eligible manager's data was synced after that flag was first observed." The gate
  compares the time the run started; the run may be answered from entries of
  `fpl/client.js`'s cache that were filled up to five minutes before that (an entry's
  history by another group's sync, before the flag was observed).
  `FinalAtMostTtlOld` is what holds instead.

Observations, made while modelling, that no run is spent on:

* A recompute previewed for one gameweek can be committed for another: the panel
  of `src/client/src/pages/Results.jsx:250-257` keeps its preview when the gameweek
  changes. "Preview first; nothing is written until you commit" still holds, and
  `ChangesNoted` shows that a change of winners always needs a note.
* Live points are upserted outside any transaction (`repositories/liveRepo.js:11`,
  `sync/syncService.js:411`), so a run that read before another one settled the
  document changes it without `SETTLED_ROW_CHANGED`, which
  `src/docs/ARCHITECTURE.md:339` promises. An older, unsettled run that confirms a
  row later also unsets `settled` (`snapshotUpsert.js:53`).
* After an interrupted sync the season may stay UNVERIFIED although a hit row has
  been reconciled.
* A sync that began before its group was archived still writes the members
  (`src/README.md:259`: archived groups are read-only); T2 does not look again.
* A migration recorded by another release during this one's boot is taken for
  applied, its checksum unseen (`db/migrations/index.js:52-53` against 7-9).
* The smoke test exits 1 without a report when reading a body fails
  (`fpl/smoke/runSmoke.js:85` is outside the try); a refused anonymisation likewise.
  A later standings page that is refused does not fail its check.
* A profile's leagues are renumbered, but `active_phases[].league_id` of the same
  league is not (`fpl/smoke/anonymize.js:70-76`; "entry and league IDs are remapped
  to synthetic IDs", :3). If that league was given on the command line, the search
  finds its ID and nothing is written.
* `db:check` reports evidence that may still expire, but not evidence that has
  expired already, nor a last action that was taken back together with the pointer's
  move (`Unseen` in `DbCheck`).
* A database that nobody edited can be reported as damaged: an override or recompute
  that cites a run whose recorder is still writing, or has lost an entry, leaves I6
  (a hash that is not in the run's log, `ops/dbCheck.js:136`) or I7 (evidence that
  expires, :164-167). This is `decision_evidence` seen from the scan.
* A recompute after an override changes the winners while no row of the result differs:
  `diffResults` then answers `winnersChanged` with an empty `changedEntryIds`
  (`services/resultModel.js:181-191`), because the override stored the computed
  standings.
* A player who was bought twice in one gameweek (a wildcard) may be given the price of
  the earlier buy: "latest transfer in" (`analytics/playerStats.js:81-82`) is found by
  comparing `String(time)` (:87), and `time` is a date.
* With a plan that is out of date the transfer page shows no warning for a player
  already owned or of another position: it shows those of the club limit and of money.
* A player of a double gameweek counts as settled when FPL lists only the first
  fixture (`sync/normalize.js:249-259`).

## 5. Proofs

`LeaseLockProofs`, from `LeaseAssumption` alone, for any set of runs and any
bounds. The inductive invariant `IInv` adds to `TypeOK` what the properties do
not say. `TokensCovered`: while the document is there it carries the latest
grant's token, which is ahead of the clock, and of the document's expiry, by at
most `Burst`; once it is gone the latest grant's token is below the clock (this
is where `Burst < Retention` enters, and why the next grant's token is higher).
`HolderGranted`: the run the document names is the one granted last, with that
token. `LiveIsHolder`: a run that still trusts its lease is the one the document
names, and the document expires no earlier than the run believes.
`ReleasesAnnounced`: a release statement is under way only for a run that gave
the lease up. `WriterIsHolder`: an open transaction that has fenced belongs to
the run the document names. `LostIsFinal` is checked by a run too. From it:
`TypeCorrect`, `AtMostOneLive`, `LostStaysLost`,
`FreedRightly`, `Refinement` (initial states map to initial states, each step to
`Grant`, `Commit` or a stutter) and `CommitOrder`, carried
over by the refinement from `StoreOrdered`: the abstract store's log never
decreases, because every logged token is at most `epoch`.

`DatabaseProofs`, two components in one module (`Migrations` is instantiated as
`Mig`). `ScanStaysExact`, for any members, runs and gameweeks, if `Past` is a run and
`Null` is no kind of edit. As long as nobody edited by hand, each collection is as the
program writes it (`Sound`), there are no snapshots but those of the chain and `Before`
(`Complete`), and the collections agree (`Joined`): rows and the administrator's entry
belong to managers (`Rooted`), actions, snapshots and pointer are one chain (`Headed`),
and a cited run is there and is kept, with an unlogged or expiring response only if a
decision owes it (`Supported`). The last holds because of how far each recorder is
(`Recording`): one that is still writing has its run there, and what is owed is not
forgotten before it is written. A scan at rest reports of such a database nothing but
what decisions owe (`NothingIsWrong`); one that raced read collections that are `Sound`
each but no longer agree, so it can only report references and marks
(`NothingIsFalse`). Each edit of `Faults` is reported under a code of its kind
(`TamperFound`, one lemma per kind), and those of `Unseen` leave a database that is
sound and joined (`GoneIsSound`, `UndoneIsSound`). `AlwaysMigrated`, for any servers
and releases: what a process has passed is recorded (`PassedIsRecorded`) whoever else
runs, because nothing takes a record back, and what it is about to record is in
effect; with `AppliedInOrder`, which is most of the property, this is inductive.

`SyncDataProofs`, likewise (`Snapshots` is `Snap`). `FinalDataRecent`, for any number
of syncs and any lifetime: a cached answer was fetched when it was cached and not in
the future (`CacheHonest`), no run started in the future (`StartsPast`).
`SettledRowsWarned`, for any runs and contents: the stored row names runs that are done
and is what they had fetched (`RowIsTraced`); only a warned run has replaced a settled
row (`OverwroteAreDone`). The step that needs an argument is `Commit`, which has just
seen that the row is as it was read.

`FplProofs`, the client and its smoke test (`SmokeTest` is `Smoke`). From
`RequestsAssumption`, for any set of calls: `IInv` adds to `TypeOK` and the two
properties that an attempt under way has counted (`AttemptLeft`) and that only an
attempt under way is a probe (`ProbeUnderWay`): `RequestsTyped`, `OneProbe`,
`ClosedCount`. `PassesDecideAll`, for any leagues and entries: a smoke test that exits
0 has a verdict on every assumption, of every league and entry. The invariant is that
as long as nothing logged speaks against a pass (`Clean`), everything asked so far is
decided: the general assumptions (`General`), those of the leagues that were had
(`Leagues`), of the entries that were had and of the present one up to its last request
(`Entries`), and those that combine the answers (`Finally`). Each request only adds
to the log (`Grows`), and either files its verdicts or spoils it (`LookedFiles`,
`RequestFiles`).

`EditingProofs`, what people edit while something else writes (`Planner` is `Plan`).
`MembersStaySound` and `MembersAreKept`, for any jobs, edits and leagues: a job leaves
the members it finds in their places, with their exclusions, and appends only entries
that are not there yet (`Grown`); that its lists have no repetitions is shown by
counting positions instead of by induction (`Places`, `AtIs`). `Prepared` says what a
job relies on across its awaits: a job that changes a group still finds it, one that
writes has a list. `DraftsStaySound`, for any players, limits and numbers of drafts:
the squad of every draft is within the limits of positions and clubs, its eleven is of
the squad (`Draft`), and local storage has nothing or what is shown (`Saved`), which is
what a reload needs.

`SyncRunProofs`, from `SyncAssumption`, for any runs, locks, processes and
members. `IInv` is `TypeOK` and:

* `Documented`: a run has no document before `Insert`, is RUNNING or ABANDONED
  until it finishes and final after it; a decision has none. Without it `TypeOK` is
  not inductive, since `Finish` takes over the status it finds.
* `Swept`: a shutdown knows a run only from `Enter` to its release. A run it has
  marked that is not final has not begun its body, or has failed already, and its
  process is closing: the next check of `closing` stops it. This is why a marked run
  never ends SUCCESS or PARTIAL (`FinalStays`).
* `Tokened`: a lock's epoch bounds the tokens of its runs, and the run it names has
  the epoch. A fenced step needs the lock to name its run, whose token is then the
  epoch: a run with a lower token than another of its lock cannot take one
  (`StaleStaysSilent`).
* `Recovered`: the runs that had ended when a run got the lock have lower tokens,
  so its `Mark`, which goes by the token, reaches all of them; once its document is
  there, none of theirs is RUNNING (`LeftoversAreRecovered`).
* `Earned`: as long as a body's outcome is SUCCESS, it has committed every stage it
  has passed (`SuccessIsEarned`).

The proof needs that no member is called like a stage (`T1`, `T2`, `T4`), because
`written` holds both; `SyncAssumption` says so.

`DecisionProofs`, from `DecisionAssumption`, for any members, deciders and other
runs. The parts of `IInv`, besides the properties themselves:

* `Chained`: the actions are numbered 1 to the pointer's `seq`, each names the one
  before and the pointer the last. `ChainStaysValid` follows once the actions are
  counted (`ChainVerifies`, by the cardinality of an interval).
* `Viewing`: an open transaction belongs to the lock's holder. Its chain and pointer
  are the present ones, its rows differ only where a run of another group wrote,
  and a run it saw succeed can at most have expired. While a view is open nobody
  else commits, so `prevHash`, the unique indexes and the pointer's version guard
  are a second line of defence: they matter only if the fence fails.
* `Confirmed`: a run is done with its evidence before it decides, and whoever
  confirmed a row has a document: what a decision makes permanent is there
  (`SourcesStay`).
* `Traced`: who finalized is done and permanent, so no later step can take from
  its rows, those of every member that counted and not of the winners alone, what
  `FinalTraceable` says of them.
* `Audited`: until a decision commits, what the verify endpoint has read are all
  actions (`AlarmsAreRaces`).

`DecisionsAreAtomic` is the refinement of `ResultLedger`: initial states map to its
initial state, each commit to the step of its name (`CommitIsStep`) and every other
step to a stutter, because snapshots the ledger refers to are never written again. It
needs one invariant more, `DecidedOnce`: who has decided does nothing any more
(`OnceInvariant`).

A commit must be the holder's and append to the chain it read; every other step
leaves actions, snapshots and pointer alone (`Quiet`, `HistoryKept`), and is proved
against the remaining parts only. The proof found the assumption that finalizes, overrides,
recomputes and other runs are disjoint stated too weakly (two sets were
allowed to be equal); it is corrected.

`SyncRecordProofs`, two components in one module (`Semantics` is instantiated as
`Season`). `LogTellsAll`, for any calls and any limit: a call that completed is logged,
waits in the chain, or was lost in a way the run knows of (`Placed`), is in one place
only (`Once`); a push refused by a RUNNING run found the log full (`Refused`); and
a body that returned waits for all writes, to which nothing is added (`Flushed`).
The last is why SUCCESS says more than FAILED: after a throw, calls go on.
`SeasonFollowsRows`, for any managers and syncs, when rows prove GROSS or NET or both:
proof in a stored row is in the season, in the tally of a sync under way, or was
lost with one (`ProofKnown`); a sync that rests has an empty tally (`RestEmpty`).
That `Applied` keeps what the season already knows is `AppliedKnows`, by the four
values it can start from. Of two syncs that write the same row, the second finds
it stored and does not count it: the first one's tally must.

What these theorems assume of the constants are hypotheses of the theorems, where
the module states no assumption. `Ttl` is positive; `MaxRequests` and the limits of
members, positions and clubs are numbers; `Null` is no content, run, edit or group, and
`Past` is a run;
rows prove no reading but GROSS and NET; releases are as `Releases` says; entries are
numbers. What an administrator types in are lists that are not empty (`Inputs`:
`validators/groups.js:21` requires one entry at least). The user's own squad is within
the limits (`Lawful(MySquad)`): the planner copies it from FPL, which enforces them at
a transfer. It may exceed the limit of a club when a player changes his, and the page
then shows that problem; no draft of such a squad is claimed to be lawful.

The modules of several components prove for all constants what the run `components`
checks of its instances; there the properties stand behind the choice of `focus`.

Only model-checked, and why:

* every liveness property (`DeadHolderYields`, `AdmitsAgain`, `CallsSettle`,
  `LocksComeBack`, `RunsEnd`): TLAPS does not reason about fairness and ENABLED here;
* the analytics, `ResultModel` and `Anonymize`: sums, sorts and folds over data need
  induction over their length, which the installed provers cannot instantiate; they
  are checked over bounded inputs. The same holds of the sum of estimates in
  `BestXiIsBest` of `Planner`;
* that a fenced transaction may be one step of `SyncRun` is argued from `LeaseLock`, where
  `Refinement` proves that only the latest grant's holder commits; no run checks it.

## 6. Plan

Everything of the plan that the provers reach is proved. What would be left is:

1. the exchange argument for `BestXiIsBest`, once sums over sets can be reasoned about;
2. `SyncRun` as a user of `FencedStore`, one instance for each lock, in place of
   the argument that a fenced transaction is one step.

## 7. Not modelled

Routes, authentication, mappers, validators and the pages that only show answers
keep no state over time that the properties could relate. `fpl/schemas.js` and the
two migrations are declarations: what they accept or create enters the models where a
property needs it (the members cap, unique keys, TTL indexes, row ids). Floating
point is left out: the analytics work on integers, so a threshold that is met
only up to rounding (`rivals.js`, 8.7 - 3.7 < 5) is not. Single flight of the cache,
the trimmed bootstrap, personal fields of a profile other than names, ranks and IDs,
and the text of reports are left out. Exceptions thrown by logging
hooks are swallowed by the code and left out. A process that crashes is a new process
when it restarts; its clock does not matter because leases use the server's. Errors
of single database statements are modelled where the code treats them
differently from a crash (`StartFails`, `Finish`, failing releases and marks,
`WriteFails`).
