# A verification project for dig-stellar

Dig Stellar is a monorepo: a NestJS API (`apps/api`), a batch indexer run by cron (`apps/indexer`), a
Vue web app (`apps/web`), a client package (`packages/sdk`) and a legacy Prisma schema
(`packages/db`). Everything is joined by one Postgres database, reached with raw SQL.

The specifications below were written from the code. Documents are quoted only where the code
disagrees with them. Paths are relative to the repository root; `api/` stands for
`apps/api/src/`, `indexer/` for `apps/indexer/src/`.

## Contents

1. [Parts of the system](#parts-of-the-system)
2. [Modules](#modules)
3. [What each run shows](#what-each-run-shows)
4. [Bounds](#bounds)
5. [Fairness](#fairness)
6. [Assumptions](#assumptions)
7. [Proofs](#proofs)
8. [Where the code and its documents disagree](#where-the-code-and-its-documents-disagree)
9. [Plan](#plan)
10. [Not modelled](#not-modelled)

## Parts of the system

The state each part keeps, what changes it, and what makes it correct.

| Part | State | Operations | Correct when | Model |
|---|---|---|---|---|
| Reward faucet, `api/modules/faucet` | `faucet_claims`; in memory: the serial promise chain and the treasury balance cache; outside: the treasury account on the ledger | claim, eligibility, payout, founder review of failed rows | no reward twice, the table accounts for every payout, budget and hourly brake, a failing claim blocks nobody | `Faucet`, `RewardOnce` |
| Alerting engine, `api/modules/alerts`, `api/scripts/83`, `indexer/scripts/82`, `81` | `alert_rules`, `alert_rule_state`, `alert_rule_subject_state`, `notifications`, `pool_status_state`, `wallet_pool_health` | rule create, patch and delete; health refresh; sweep over the families; pool-status protection | no repeated alert, none lost, bad rules stay isolated, a pool's change is told once | `AlertSweep` |
| Earn & Points campaign, `api/modules/campaign`, `api/scripts/84`, `indexer/scripts/85` | `campaign_enrollments`, `referrals`, `wallet_daily_checkins`, `social_task_claims`, `points_ledger`, `wallet_perks` | enrol, check-in, social claim and delete, award job | caps, streaks, referrals on both sides, the ledger nets out, everything due is paid in the end | `CampaignLedger` |
| Wallets, `api/modules/wallets` | `user_wallets`; in memory: `RefreshLimiter` | connect, recover, add, delete, set primary, set signer, pause, refresh | one primary and one signer per user, bounded refreshes | `WalletBook` |
| Ownership proofs, `api/modules/campaign` (auth) | `wallet_auth_challenges`, `wallet_ownership_proofs` | challenge, verify, bind, consume on recovery | a nonce works once, an account is handed out for a proof of its own address only | `WalletBook` |
| Action builder and witness, `api/modules/actions` | `action_events`, `action_witnesses` | build a transaction, verify an executed one | one witness per transaction, only for Dig's own builds | its insert, in `Faucet` and `CampaignLedger` |
| Refresh pipeline, `indexer/scripts/ingest/71`, `72` | `refresh_step_runs`, `rpc_metrics_runs`, `network_tvl_snapshots` | ordered steps, retries, per-entity loops | a failing step is recorded and stops no other | `RefreshPipeline` |
| Event ingestion, `indexer/lib/protocols/{soroswap,aquarius}` | `normalized_events` | window read, pagination, upsert | every event stored once | `PoolRefresh` |
| Pool reserves and metrics, same directories | `reserve_snapshots`, `pool_metrics_latest` | capture, price, publish | volumes and values are those of the day and of the market | `PoolRefresh` |
| Prices, `indexer/scripts/shared` | `asset_prices` | choose a source, sanity band, insert, age rule | a stale or out-of-band price is never used, a real move is accepted in the end | `PriceFeed` |
| Ops status, `api/modules/ops` | none | aggregate 24 h of step rows | the banner and the gaps tell what the runs did | `OpsStatus` |
| Other adapters, `indexer/lib/protocols/{blend,defindex,xoxno,...}` | snapshots, metrics | one read, one insert | decoding | by their exit code, in `RefreshPipeline` |
| Public read API, `api/modules/{stellar,bridge,network,openapi}` | `TtlCache` | queries | a value is no older than its TTL | no |
| Web app, client package, scripts | view state | polling, forms, envelope validators | | no |

How they interact. The witness endpoint writes `action_witnesses`; the faucet and the award job
read it. The award job never calls the API: it shares the tables. The health refresh (script 81) runs
inside the alert job before the evaluator, and also for one wallet at a time when a user presses
refresh. Users edit rules while the evaluator works on the rows it loaded. The refresh pipeline
writes the prices, pool snapshots and metrics the evaluator reads, and prices its assets from the
reserves an earlier cycle stored. The status page reads the rows the pipeline leaves. Recovery of an
account consumes an ownership proof that the campaign's endpoints made. Jobs are kept apart by `flock` in
the crontab only; the API runs as one pm2 process, except while a deploy overlaps two.

What makes the system hard: statements that are separate transactions and fail separately; facts
read several awaits before they are used; a payment network whose answer can be lost; processes
that die between two writes and resume nothing; idempotency that rests on partial unique indexes.
PROJECT.json lists each such place with its line, and the property that covers it or the reason
none does yet.

## Modules

### RewardOnce

The abstract promise of the faucet, ten lines of state machine: the set of rewards that reached the
ledger grows by one reward at a time, and never by one that shares its wallet or user (in one
action family) or its witness with an earlier one.

### Faucet

One action per await of `FaucetService.claimInner` and `FaucetPayoutService.pay`.

| Model | Code |
|---|---|
| `chain`, `Request`, `Start` | `FaucetService.claim`: the promise chain; `Start` includes the counting query of `campaignFacts` |
| `ReadWitnesses`, `ReadPrior` | the two queries of `walletFacts`; `DISTINCT ON`, the order and the "first user" choice are kept; each may throw, as the query of `Start` may, and ends the claim |
| `ReadTreasury`, `StoreTreasury` | `spendableXlm` and its 30 s cache, in two steps because the balance is fetched between them |
| `Refuse`, `Insert` | eligibility, the missing key, and the insert with the three unique indexes; the insert may be refused, fail, or commit and lose its reply |
| `LoadAccount`, `Submit`, `Answer` | the single payout attempt; Horizon answers success, a definite rejection, or nothing certain |
| `RecordPaid`, `RecordFailed` | the two UPDATEs; each may throw with or without effect |
| `ProbeTreasury`, `StoreProbe` | the eligibility GET, of which only the effect on the cache matters |
| `Land`, `Expire` | the network: the sequence number, the balance and the time bound decide |
| `VerifyWitness`, `Resolve`, `Restart`, `Tick` | the witness endpoint, the founder's review (`docs/runbooks.md`), pm2, time |

`Procs` may hold two processes, each with its own chain, cache and environment, over one table.

### AlertSweep

`sweep` holds the locals of one run of the job, so that a crash is one assignment. `Snapshot`,
`RefreshPool`, `SkipPool` and `AbortJob` are script 81 under script 82; `Load`, `NextFamily`,
`BeginRule`, `Upsert`, `Notify`, `EndRule` and `RuleFails` are script 83; `LoadPools` to `EndJob` are
the pool-status family. `Emission` and `NextEdge` are `evaluate.ts` and are pure.
The four market families share one model: their loops are equal and each reads one observation of
one subject. The health family differs, with many subjects and a nullable value, and is kept apart.
`Levels` are ordered values; thresholds and margins lie among them.

Four fields exist only in the model: `episode` and `changes` count crossings and status changes
so that a property can tell "the same alert" from "the next one"; `cooldown` and `newest` in a
notification record the rule and the health row at the time it was sent. No guard reads them.

### CampaignLedger

`Enroll`, `CheckIn` and `RemoveClaim` are single steps: each is one database transaction that holds
the wallet's enrolment row. A social claim takes two (`ClaimDecide`, then `ClaimCommit` or `ClaimAbort`) since other
wallets' claims are not kept out by that lock. The award job is a chain of single inserts:
`PlanAwards` reads and computes (`84-campaign-award.lib.ts`), one candidate at a time by a recursive function over
the sets of candidates left, oldest first; `InsertAward` writes one row,
`CreditReferral` is one transaction, `LoadBalances` and `InsertPerk` grant perks. `ledger` is a bag
because an adjustment has no unique key. `peak` is a history variable.

### WalletBook

Every SQL statement of the wallet calls is a step, and the calls of several clients interleave
between them: nothing runs in a transaction. The first read of a call (the ownership check) is one step with its
arrival.

| Model | Code |
|---|---|
| `Connect`, `ConnectAnew`, `Create`, `CreateAnew` | `connectWallet` and `createWallet`, with and without a session: attach, recover, or fork a new account |
| `Count`, `Insert`, `Revive` | `createWalletForUser`: the count that decides the primary flag, then the insert against `unique (user_id, chain, address)` |
| `Demote`, `Promote` | `promoteToActiveSigner`: two updates, backed by the index `user_wallets_one_signer_per_user` |
| `Clear`, `Crown` | `setPrimaryWallet` |
| `Heir`, `Enthrone`, `SetActive`, `Drop` | `setWalletActive` and `deleteWallet`: the primary goes to the oldest active wallet first |
| `Issue`, `Expire`, `Verify`, `Prove` | `issueChallenge`, `verifyChallenge`: the nonce is burnt before the signature is looked at; the proof is bound when there is a session |
| `Consume`, `Age` | `consumeUnboundProof`, with the unique index on (wallet, user) |
| `Admit`, `Balances`, `Positions`, `Tick` | `refreshWallet` behind `RefreshLimiter`: acquire, two child scripts, release |
| `Lose`, `Restart` | a statement that throws; pm2 |

`torn` records the users whose calls overlapped or were cut short: such a user can end with two primaries or
none, so `PrimaryKept` is about the others. `checks`, `handed` and `sinceStart` are
histories. Left open: which of several signers or fresh proofs the database returns first.
A mix is one instance of the book: the calls its clients make, its first rows and its bounds.

### PriceFeed, PoolRefresh, RefreshPipeline, OpsStatus

The refresh pipeline, one module per part, with one tick of time per ledger.

| Module | Models |
|---|---|
| `PriceFeed` | Operators: `selectPrice` over stored reserves, the sanity band, the age rules. The asset is USDY: one source, one band. USDC is the dollar and has a row of its own. |
| `PoolRefresh` | One child script for one AMM pool (`run-soroswap-pair-refresh.ts`; Aquarius has the same shape): read the state, take the ledger, page the events, upsert them one by one, store the reserves, publish the metrics. An event is its place in the pool's history; volumes count events. |
| `RefreshPipeline` | `71-refresh-all-metrics.ts`: the discoveries, the steps in order, three attempts per script, the outcomes, the rollup, the persisted rows, the exit. `Kill` ends it anywhere; `Tick` closes a ledger, with a cycle missed or late where the instance allows it. |
| `OpsStatus` | Operators: the axis, the leading, inner and trailing gaps, the missed cycles, the banner of `status.ts`. |

`whole` and `hole` are histories about the chain alone: up to which ledger the refreshes that met no cap reached, and
below which ledger some may have left the window before one came. `calm` is since when nothing failed, was late or
moved.

### MCFaucet, MCAlertSweep, MCCampaignLedger, MCWalletBook, MCRefreshPipeline

Constants for TLC: which wallet and family each transaction has, who owns a wallet, one
health rule and one price rule, scaled-down points, and for the wallets and the pipeline the
instances that one run covers. They add no behaviour.

### FaucetProofs, WalletProofs, RefreshProofs, StatusProofs, RecoveryProofs, AlertProofs, CampaignProofs, FoldProofs

Theorems about `Faucet`, `WalletBook`, the refresh pipeline (`RefreshProofs`; `StatusProofs` for its status page, `RecoveryProofs` for
its prices), `AlertSweep` and `CampaignLedger`; `FoldProofs` holds what the others need of sums and of recursion over finite sets.
See [Proofs](#proofs).

## What each run shows

| Run | Properties | Shows |
|---|---|---|
| `faucet_overlap` | TypeOK, BooksMatchLedger, PaidIsPaid, RewardsOnce | Two processes, a restart, lost answers, failing UPDATEs and founder reviews never reward anyone twice, and the table always accounts for what landed or may land. `RewardsOnce` is the refinement of `RewardOnce`. |
| `faucet_brakes` | BudgetHolds, VelocityHolds | With one process the promise chain makes the budget and the hourly brake exact although both counts are read long before the insert. |
| `faucet_queue` | ClaimsAnswered | No claim that throws, fails or is refused wedges the chain. |
| `alert_safe` | TypeOK, FeedBacked, NoRepeatedAlert, LossesAreFaults | Crashes, failures and edits between any two statements never repeat an alert, and an alert that is due goes missing only by a fault between the edge and its notification. |
| `alert_live` | PoolNewsIsNews, ChangesAreTold, BreachIsSeen | A rule that always throws silences no other; holders hear each pool change once, never a first sight or an Unknown; a recorded change has been told to every holder unless a fault fell between. |
| `alert_repaid`* | NoDebtNeverFires | A repaid position keeps firing. |
| `campaign_award` | TypeOK, CapsHold, StreakFixed, ReferralPaysBoth, ActionsArePaid, ReferralsArePaid | However the job dies and however late witnesses come, caps, multipliers and referrals come out as the final tables say they should, and everything due is paid. |
| `campaign_social` | OneHandlePerWallet, SocialBooks, SocialCapHolds, PerksEarned | Concurrent claims and deletes keep one handle per wallet, the gross daily cap, a ledger that nets to zero and perks that were earned. |
| `campaign_handle`* | OneWalletPerHandle | Two wallets can hold one handle. |
| `wallets` | TypeOK, PrimaryKept, OneSigner, NonceCheckedOnce, SlotsMatchRefreshes, PausedOnlyByPause, RecoveredByOwner, RefreshesSpaced | However the statements of several calls interleave, a user has one signer at most; calls one at a time keep one active primary; a nonce is checked once; an account goes only to who proved its address; no refresh slot leaks. |
| `wallet_recovery`* | FreshProofRecovers | An owner with a fresh proof can be refused. |
| `refresh` | TypeOK, NothingLost, VolumeIsTheDay, BannerHonest, MissedCyclesTrue, ValueIsRecent, PriceRecovers | Over retries, kills, caps, late and missed cycles the covered ledgers lose no event, the day's volume is exact, the status page says nothing a run did not do, and prices neither live on themselves nor stay refused. |

Runs marked * are expected to end in a counterexample; each is a finding below. Every other property
is matched with a small change of the code's own logic (a dropped guard, a missing index column, a
count in the wrong place) that makes it fail under the same configuration.

To run one: `tlc -config MCFaucetOverlap.cfg MCFaucet`. To check a component's proofs:
`tlapm FaucetProofs.tla`, and the same for the other seven modules of theorems.

## Bounds

| Bound | Value | Why it is enough |
|---|---|---|
| Faucet `Procs`, `Wallets`, `Users`, `Witnesses` | 2, 2, 2, 3 | Every uniqueness rule relates two rows; the first wallet has two owners and both families, so that each index is the only one in the way of some pair. |
| Faucet `MaxRequests`, `MaxRows` | 2, 2 (3 and 3 for the brakes) | A double reward needs two claims; a brake of one per hour over a budget of two needs a third. |
| Faucet `MaxCrashes`, `MaxProbes`, `MaxTime` | at most 1, 1, 2 | One restart at any point of a claim; one stale balance read; two hours so that the window slides. |
| Alerts `MaxFaults` | 1 | One fault at any statement, followed by runs that start over from the tables it left. The properties relate one notification, one edge and one later run, so a second fault would only repeat the first. |
| Alerts `MaxMoves`, `MaxEdits`, `MaxTime` | up to 3, 3, 2 | Into the breach, into the band, out again; create, patch, delete; a cooldown of two passes. |
| Alerts `Levels`, rules | 3 values, 1 or 2 rules | One level below the threshold, one in the margin, one recovered; a poisoned rule and its neighbour. |
| Campaign `Wallets`, `Txs`, `MaxDay` | 2, 2, 2 | A referrer and a referee; a cap of one and a second action; a streak of none and of one day before an action, and a day after the end. Longer streaks are left to the theorem `StreaksFixed`. |
| Campaign `MaxClaims`, `Requests`, tasks, handles | 3, 2, 2, 2 | Claim, delete, claim again, beside a concurrent claim of the same or another wallet. |
| Campaign caps and points | scaled down | The cap is reached by one award or two claims; 40 points unlock the perk, which one claim cannot and two can. |
| Wallets `OneAccount` | 1 user, 2 addresses, 3 row ids, 2 calls | Every flag operation moves a flag from one row to another, one row per address at a time; the third id is a row deleted and tracked again; two calls interleave at every statement. |
| Wallets `Recovery` | 2 users, 2 nonces | One address tracked by two users and signing for one; two proofs race for one account, or one for two calls. |
| Wallets `Refreshes` | 3 wallets, 3 calls, capacity 2, cooldown 1, one fault | The third refresh meets the capacity; one wallet is refreshed again while its mark, its slot and its row come and go. Deleting the primary of three chooses between two heirs. |
| Refresh `Events` | 7 ledgers, window 2, pages of 1, 2 pages | A ledger busy for the cap, a refresh that waits across ledgers, one cycle missed so that the window slides past, one failure. |
| Refresh `Faults` | 2 venues with a pool each, 4 failures, 3 ledgers | Three failures exhaust the attempts of one script and the fourth falls anywhere else; two runs follow each other. |
| Refresh `Clock` | 20 ledgers, window 12, cadence 2 | Every pattern of missed cycles over a window and beyond it. |
| Refresh `Prices` | 30 ledgers, three levels | A move within the band and one beyond it, cycles missed and late around them, then the band's memory and two cycles more. |
| Refresh `Struck` | 20 ledgers, two levels, one failure | The market moves as a cycle begins and a failure falls on that cycle's run, or on any other: the worst case of the recovery. |
| Refresh ages | 8, 6, 9 ledgers for 60 min, 45 min, 36 h | The order of the two age limits, and both below the band's memory, as in the code; the cadence of 2 divides them as 15 minutes does. |

Symmetry is used in `faucet_overlap`, over processes, and in the wallet runs, over the calls in progress: they
are equal in every definition. The other sets are told apart by the constants.

The faucet configurations switch deadlock checking off: when the bounded requests, rows and witnesses are used up,
nothing is left to do. So do the wallet and refresh ones: the clients have used up the row ids, or the last ledger
of the instance is reached. The alert and campaign jobs always start again, so their runs check it.

## Fairness

* `Faucet`: `WF(ClaimStep(p))`. Queries and Horizon calls resolve or throw, the SDK gives up a
  submit after 60 s, and the event loop runs what is ready. Nothing is assumed of requests, of the
  network, of the founder or of restarts.
* `AlertSweep`: `WF(JobStep)`. Cron starts the job every 15 minutes and each statement ends.
  Faults carry no fairness; they are bounded, which says that they do not go on for ever.
* `CampaignLedger`: `WF(JobStep)`, as above (minutes 3, 18, 33 and 48, under `flock`). The
  days may stop: the liveness properties do not need time to pass.
* `WalletBook` and `RefreshPipeline` state no liveness and assume no fairness. That prices come back
  is the bounded-time invariant `PriceRecovers`: cycles that are neither missed nor late are part of its premise.

## Assumptions

* Horizon answers 400 only for a transaction that will never be included.
* The founder resolves a row only when no payout of it can land any more and no claim works on it,
  as `docs/runbooks.md` prescribes.
* `flock` keeps one sweep and one award job running. Two award runs at once read the same daily
  counts and could together exceed a cap; the hazard is listed, no property denies it.
* The award job's reads are one step: no other code writes action rows. A check-in or an enrolment
  is one step: it holds the enrolment row, and Prisma ends a transaction after 5 s, well before the
  job at minute 3 could see the previous day change under it.
* Ids (`gen_random_uuid`, serials) are never reused. In the alert model the names of the two kinds of notification
  subjects, the absence of a rule and the rules themselves are told apart (`NamesAssumption`).
* Every wallet of the alert model is active (the evaluator does not look at the flag, the refresh
  does); every caller of the campaign owns the wallet.
* A session carries the id of an account that was handed to a client. The code asks of a session id only that it is a UUID
  (`optionalUserId`), so this is an assumption about the clients, not something the API enforces. Address case and labels
  play no part.
* `getEvents` answers the next events from a ledger or a cursor, up to the page limit, and its retention covers the
  lookback. A page with events carries a cursor that moves on, and an empty page means that there are no more: so the
  paging loop ends at an empty page or at the page cap, and its breaks on a missing cursor and on one that does not
  advance (`fetch-pair-events.ts:131-140`) are not taken. A node that answered otherwise would end the pages early
  without an error, and `NothingLost` and `VolumeIsTheDay` could then fail. Every event counts as a swap.
* `flock -n` keeps one refresh running (`docs/internal/evidence/lot-ac/ac2-execution.md:52`). Time passes only
  between runs and while a script waits for the chain: the other statements take a small part of a ledger.
* The three queries of the status page are read at one instant.
* A database that cannot be reached at the start of a run is a `Kill` at its first step: it leaves nothing.
* The clock is one for all parts. Campaign time is the UTC day, as in the code.
* Points and metrics are integers. `pointsFor` works in hundredths with integer rounding, which is
  kept; other float arithmetic is not modelled.

## Proofs

`FaucetProofs` proves, for all sets of processes, wallets, users and witnesses, all limits and any
number of restarts:

| Theorem | States |
|---|---|
| `TypeCorrect` | `Spec => []TypeOK` |
| `LedgerIsOnTheBooks` | `Spec => []BooksMatchLedger` |
| `PaidMeansLanded` | `Spec => []PaidIsPaid` |
| `OneRewardEach` | `Spec => RewardsOnce`: the faucet implements `RewardOnce` |

They rest on `FaucetConstants`, which gives the constants their types and keeps `None` apart from
them, and on nothing else.

The argument. None of these facts is inductive alone. `BooksMatchLedger` says that a payout which
landed or may land has its row. To keep it when a row is deleted by the founder or marked failed
"for a definite reason" one must know that no payout of that row can exist, so `IInv` adds:

* `RowsDistinct`: the unique indexes hold of the table;
* `OneAttempt`: no row is ever submitted twice;
* `OwnRows`: no two processes work on one row;
* `Knowledge`: what a process that is paying knows, step by step: before the submit its row has no
  attempt; while it waits, only its own; when it records "paid", a landed one;
* `Prepared`: on the way to the insert, a claim carries the wallet it was asked for and a
  witness comes with its user.

`Invariance` is `Spec => []IInv`, one lemma per action. `OneRewardEach` follows: when a payout lands
(`Land`), its row and the rows of all landed payouts are in the table and distinct (`RowsDistinct`,
`OneAttempt`), so the new reward conflicts with none of them; every other step leaves `landed` alone.

The two brakes read their counts several awaits before the insert:

| Theorem | States |
|---|---|
| `OvershootBounded` | for any finite, non-empty `Procs`: the rows are at most `MaxClaims`, and those of any hour at most `HourlyCap`, plus one for every process but one |
| `BudgetKept` | with one process, `Spec => []BudgetHolds` |
| `VelocityKept` | with one process, `Spec => []VelocityHolds` |

The invariant `LimitInv` is about places. `Budgeted` are the processes whose claim read a count of rows under the budget and has
not inserted yet. Rows plus `Budgeted` claims never exceed the budget and `Overlap`, the processes but one:
at the reading the count was below the limit and at most the other processes hold a place; an insert turns a place into a row;
everything else only frees places. The hourly brake is the same argument for the hour before the reading
(`BrakeInv`), and `WindowInv` carries it to the hour that ends at each row. The bound cannot be better: with two
processes TLC reaches one row too many. The second hypothesis of the two last theorems is what pm2 runs, outside a deploy.

`RefreshProofs` proves, for all sets of pools, windows, page sizes, caps, age limits, instances and any number of
faults:

| Theorem | States |
|---|---|
| `RefreshTypeCorrect` | `Spec => []TypeOK`, with one script at a time, for the pool the run is at |
| `NoEventLost` | `Spec => []NothingLost` |
| `ValuesAreRecent` | `Spec => []ValueIsRecent` |
| `VolumeOfTheDay` | `Spec => []VolumeIsTheDay` |
| `BannerIsHonest` | `Spec => []BannerHonest` |

They rest on `PriceAssumption`, `PoolAssumption` (finitely many pools, each with a depth), `PipelineAssumption` and, for the banner, `StatusAssumption`. The invariant `IInv` is `PoolInv /\ JobInv /\ OneScript`:

* `Growing`: a pool's events only grow with the ledgers, so "the events up to ledger l" never changes once l is past;
* `ScriptKnows`: what the running script holds. `Paged`: the pages it read are consecutive from the start of its
  window. `Reached`: a paging loop that ended below the cap has reached the head it was started for. What it says it wrote is stored;
* `PriceKnows`: the price row and the reserves are never newer than now, and a price was taken from reserves within their age limit;
* `JobInv`, `OneScript`: the run's place among the stages, and that a script runs only under a loop over pools.

`NothingLost` is then kept by `EventsStored`: the loop did not meet the cap (or met it exactly at the head), so all events of the window
are stored, and the window either joins the ledgers covered before or moves `hole` up to its start.
`ValueIsRecent` adds the two age limits at the one step that publishes a value.

`VolumeIsTheDay` is about a row that is never written again until the next refresh, while ledgers go on: it stays true because
the past of the chain does not change (`MetricsKnow` keeps the row's own ledgers in the past). At the step that publishes it
(`DayCounted`), the events summed are those stored with a ledger in the day: all of them exist, and those up to
`whole` are stored by `NothingLost`, so the count lies between the two.

`BannerHonest` relates the page to what a run did long before its rows were written. `BannerInv` follows the evidence from the
statement to the row:

* `ScriptHonest`, `StepHonest`: a script that ended well has published its pool, and the items of the step at work that are over did their work;
* `ResultsHonest`, `Discovered`: so did every outcome recorded as a success, unless the discovery of its venue failed. That failure is an earlier
  outcome of the same run (`FailedBefore`), so rows that were cut short still show it;
* `RolledUp`: after the rollup no metrics move, so the totals remain the sum;
* `RowsHonest`, `RunsApart`: the rows of a run say what its outcomes said, of a run that is told apart by when it began.

`StatusProofs` proves, for every cadence and window, with the invariant that a run begins on a cycle (`RunsOnCycles`):

| Theorem | States |
|---|---|
| `MissedAreTrue` | `Spec => []MissedCyclesTrue` |

The page rounds and adds up gaps; the property counts multiples of the cadence without a row. The two meet in three places.
Between two rows a rounded gap is exact, because both ends are cycles (`GapExact`), and the sum over the axis is the number of cycles without a
row between its first and its last (`InnerExact`, an induction over the axis with the sums of `FoldProofs`). Before the first row of a long history the end
of the window is no cycle, and the rounded gap is right or one short (`GapNear`). After the last row the floor of the open gap is right,
and below the threshold of 1.75 cycles one cycle goes unseen (`GapOpen`). The cycles of a span are counted by a bijection with their numbers.

`RecoveryProofs` proves, for all pools and depths, any band, memory and faults:

| Theorem | States |
|---|---|
| `PricesRecover` | if `Cadence <= ReservesMaxAge`, `Cadence < PriceMaxAge` and `BandMin > 0`, then `Spec => []PriceRecovers` |

The code has a cycle of 15 minutes against ages of 60 and 45, and a band that begins above zero. Without the first two the reserves of a cycle no longer
count at the next one, or a price dies between two runs, and the property is false. `RecoveryInv` follows the runs since the last disturbance:

* `Attended`: every cycle since then had its run, or is just due. A run that is not over when the next cycle begins is itself a disturbance (`InTime`);
* `RunClean`: what the last run has captured so far, stage by stage, is the market's; `RunBefore`: so is what the run before it left, no older than a cycle;
* `OldPrice`: a price that is not the market's was written no later than the first cycle after the disturbance, by a run that
  still read the reserves from before. This is where the two cycles of the bound come from: the reserves are captured after the
  prices of the same run;
* `PriceTaken`: a run past the memory of such a price finds reserves that qualify (`PriceFound`) and in the band
  (`PriceResolved`), and publishes every pool by their price.

The bound is the band's memory and *two* cycles. With one it is false: a run that dies right after the market moved costs
a cycle more (TLC finds it in the instance `Struck`).

`WalletProofs` proves, for all sets of users, addresses, rows, nonces and calls in progress, all starting books that keep
the two rules of the table, any capacity, cooldown and number of faults:

| Theorem | States |
|---|---|
| `WalletTypeCorrect` | `Spec => []TypeOK` |
| `OneSignerEach` | `Spec => []OneSigner` |
| `SignerPausedByPause` | `Spec => PausedOnlyByPause` |
| `SlotsAreRefreshes` | `Spec => []SlotsMatchRefreshes` |
| `RefreshesApart` | `Spec => RefreshesSpaced` |
| `OneCheckPerNonce` | `Spec => []NonceCheckedOnce` |
| `OnePrimaryKept` | `Spec => []PrimaryKept` |
| `RecoveredByItsOwner` | `Spec => RecoveredByOwner` |

They rest on `WalletAssumption`: finitely many calls are in progress at once, `None` and `Free` are no values, and a run starts from a
`GoodBook`, where a user signs with one wallet and has one active primary. The invariant:

* `Calls`: what a call carries between its statements. `Placed` ties the statement to the operation; `Knows` says the row a call read
  is still its user's with the same address, or gone: no statement changes the user or the address of a row, and no id is used twice (`Keeps`);
* `SignerIndex`: the partial unique index holds of the rows. The demotion alone would not keep it;
* `SlotInv`: the slots are the wallets of the refreshes that run, and no wallet has two;
* `MarkInv`: a mark in the limiter is as old as the wallet's last refresh, or it was pruned when the cooldown was over;
* `NonceInv`: a nonce that is unissued or open was not checked yet;
* `PrimInv`: two calls of one user tear him (`Alone`); a user who is not torn has one active primary while no call of his runs (`Kept`);
  and while one runs, `Stage` says what holds of his rows at its statement: no primary between `Clear` and `Crown`, two between
  `Enthrone` and the last statement of a pause or a deletion, one everywhere else;
* `LifeInv`: the life of a nonce. Checked, it leads to one proof of the challenged address, which one call at most writes and one
  recovery at most holds; once an account was handed out for it, no unused proof of it is left.

Every statement of a wallet call is described once by its effect on the rows (`Effect`: one row, three flags), so each invariant meets three
kinds of step and not nine.

`AlertProofs` proves, for all sets of rules, conditions, wallets, pools, markets, users and holders, all levels, and any number of faults,
edits and moves:

| Theorem | States |
|---|---|
| `AlertType` | `Spec => []TypeOK` |
| `FeedIsBacked` | `Spec => []FeedBacked` |
| `AlertsNotRepeated` | `Spec => []NoRepeatedAlert` |
| `LostAlertsAreFaults` | `Spec => []LossesAreFaults` |
| `PoolNewsOnce` | `Spec => []PoolNewsIsNews` |
| `HoldersAreTold` | `Spec => []ChangesAreTold` |

They rest on `ConditionsAssumption`, `DataAssumption` and `NamesAssumption`. The sweep acts on what it read several statements earlier, while users
edit the very rules. The invariant says why that is safe:

* `Orphanless`, `LoadedOK`: a deleted rule leaves no edge and no notification that names it, and a rule once loaded has an id no later row can take;
* `PriorFresh`: the edges read when a rule began are still the stored ones for every subject left;
* `NoteOK`: between the upsert and its notification, the stored edge is the one the notification tells of, and no notification
  before it tells the same, or it is a cooldown old;
* `LossInv`: the edges of which nothing was told, but for the one in hand, are at most the faults. Only a fault drops the one in hand;
* `Timely`: no stored time is later than the sweep's, or a cooldown would not be measured forwards;
* `LastFresh`, `TellOK`: a pool not yet checked is as it was loaded; while its holders are told, those left have not heard.

`CampaignProofs` proves, for all sets of wallets, transactions, kinds, tasks, handles and requests, all caps and points, any campaign
dates and any number of faults:

| Theorem | States |
|---|---|
| `CampaignType` | `Spec => []TypeOK` |
| `DailyCaps` | `Spec => []CapsHold` |
| `StreaksFixed` | `Spec => []StreakFixed` |
| `ReferralsPaid` | `Spec => []ReferralPaysBoth` |
| `OneHandle` | `Spec => []OneHandlePerWallet` |
| `BooksBalance` | `Spec => []SocialBooks` |
| `SocialCapKept` | `Spec => []SocialCapHolds` |
| `PerksWereEarned` | `Spec => []PerksEarned` |

They rest on `RulesAssumption`. The invariant:

* `RowsBacked`: what each ledger row refers to, and that no two rows of a unique key exist, so that the bag is a set;
* `Locked`: a claim between its decision and its commit holds its wallet's enrolment row, so what it read of the claims and of the day's points is
  still true;
* `AwardsDue`: the rows of a day and the awards still planned for it together keep the cap, and each is worth what the check-ins
  of the days before say; those are over, so they do not change;
* `ReferralsDue`: a link that the job is going to credit is uncredited;
* `PerksDue`: no balance exceeds its peak, and a perk in hand was reached.

The plan of a run is a recursive function over the sets of candidates left. That it keeps the caps (`PlanStep`) is an
induction over those sets. The library's induction theorems take an operator as a parameter, so `FoldProofs` states it with
a set instead: `SubsetInduction` (the strict subsets of a finite set are well founded, so a smallest counterexample exists), from
it that functions by recursion over subsets exist and are unique (`RecursionExists`, `RecursionUnique`), and that the sums of the community modules
do not depend on the order in which they pick (`SumAdd`, `SumRemove`, `SumSame`).

Every safety property of a passing run is a theorem. Only model-checked are `ActionsArePaid`, `ReferralsArePaid`, `BreachIsSeen` and
`ClaimsAnswered`: liveness under fairness, which is out of this prover's reach, as is ENABLED.

## Where the code and its documents disagree

With a run that shows it:

1. `alert_repaid`. `evaluate.ts:108` says a position without debt is never in breach.
   `alerts.repository.ts:345` drops the rows without debt before it takes the newest, so a repaid
   position is judged by its last debt for ever.
2. `campaign_handle`. `social-claims.ts:15` says a handle of another wallet is refused for any task,
   with the unique index as the backstop. That index includes the task.
3. `wallet_recovery`. `wallets.service.ts:608` asks for a fresh unbound proof and nothing else. An owner who holds a
   bound proof of the same wallet (an earlier recovery, or a verification with a session) meets the unique
   index when the fresh one is bound, and is refused with an error.

Seen while modelling, without a run of their own:

4. `docs/runbooks.md:1178` says `failure_reason` tells whether a failed row may have
   been paid. When the payout lands and the UPDATE that records it throws, the row is marked failed
   with `payout-error` (`api/modules/faucet/faucet.service.ts:304`). The row stays in the books, so
   nothing is paid twice; the founder is told too little.
5. `faucet-payout.service.ts:94` says every payout drops the cached balance. A payout
   with an ambiguous answer does not, nor does one that overlaps a balance read. For up to 30 s the
   treasury check uses the old balance; the ledger itself refuses what it cannot pay.
6. `83-evaluate-alerts.ts:12` promises a notification for each edge. The edge is
   stored first, in a statement of its own: a crash between the two loses it. `LossesAreFaults` states what is
   left of the promise.
7. `wallets.service.ts:1373` says there is no paused signer. `setWalletActive(false)` on the signer makes one;
   `PausedOnlyByPause` shows that nothing else does.
8. `status.ts:397` says the banner tells a failed latest run. The rpc rows are written before
   the step rows, and an error between them is swallowed: such a run shows as operational. `BannerHonest` states the banner's part
   only for runs whose rows are all there.

## Plan

Ordered by what matters most: money, then what users are told, then points, then bookkeeping.

| Order | Modules | Composes | State |
|---|---|---|---|
| 1 | `RewardOnce`, `Faucet`, `MCFaucet`, `FaucetProofs` | `Faucet` implements `RewardOnce` | done |
| 2 | `AlertSweep`, `MCAlertSweep` | job, users and outside world in one module: they meet in the tables | done |
| 3 | `CampaignLedger`, `MCCampaignLedger` | API and award job over one ledger | done |
| 4 | `WalletBook`, `MCWalletBook`: wallets, challenges, proofs, recovery, refresh limiter | the limiter under deletes, recovery over the proofs | done |
| 5 | `PriceFeed`, `PoolRefresh`, `OpsStatus`, `RefreshPipeline`, `MCRefreshPipeline` | job, script, prices and status page over one database | done |
| 6 | `RefreshProofs` | 5 | done |
| 7 | `WalletProofs` | 4 | done |
| 8 | `FoldProofs`, `CampaignProofs` | 3 | done |
| 9 | `AlertProofs` | 2 | done |
| 10 | `StatusProofs`, `RecoveryProofs` | 6, 8 | done |
| 11 | `AlertOnce`: the edge machine of one subject, as the abstract spec of `AlertSweep` | 2 | later |

Theorems left: that `AlertSweep` implements `AlertOnce`, once that is written.

## Not modelled

* The web app, the client package, the legacy Prisma tables, discovery and bootstrap scripts. The
  web app's composables have hazards of their own (an overview that answers after the user changed); they are
  display only.
* The list cache of the public API: it shares a load in flight and keeps a value for its TTL; nothing decides on it.
* Decoding of contract data, floating-point metrics, the XDR builders and validators: data, not
  control, covered by unit tests and outside TLC's reach.
* Response payloads, read-only lists, wording, logging, redaction, rate limits at nginx.
* In the faucet: the read-only counts of the eligibility answer.
* In the alerts: reading and marking notifications, wallets that are paused or deleted, the list of targets a rule may name.
* In the campaign: collisions of referral codes, leaderboards and metrics, adjustments the founder writes by hand.
* In the wallets: renaming (it writes only the label), child scripts that outlive a crashed API.
* In the pipeline: the adapters of Blend, DeFindex, XOXNO and Stellar native beyond their exit code;
  CoinGecko, Reflector and the two-hop prices; the bars, availability and rpc percentiles of the status page (a
  discovery leaves a row only when it fails, so its availability reads 0 % after one failure).
* In the witness: the answer to the loser of two verifications of one transaction.
