-------------------------- MODULE RefreshPipeline --------------------------
(***************************************************************************)
(* The refresh job: the cron starts a run every cycle unless one is still  *)
(* going, the run discovers its pools, takes its steps in order with every *)
(* script tried three times, goes on after a failure, folds the metrics    *)
(* into the totals, leaves its outcomes for the status page and exits.     *)
(* It may be killed anywhere, and the host may be down when a cycle is due.*)
(***************************************************************************)
EXTENDS PoolRefresh, OpsStatus, Sequences

CONSTANTS
  Entities, \* what a discovery may return: the pools, and what other adapters refresh
  Mixes,    \* the instances a run covers: their pools, faults and bounds
  Attempts  \* runTsxWithRetry

Stage(name, kind, venue) == [name |-> name, kind |-> kind, venue |-> venue]

Stages ==
  << Stage("discover:soroswap", "discover", "soroswap"),
     Stage("discover:blend", "discover", "blend"),
     Stage("discover:aquarius", "discover", "aquarius"),
     Stage("discover:defindex", "discover", "defindex"),
     Stage("discover:xoxno", "discover", "xoxno"),
     Stage("prices:reference", "prices", "one"),
     Stage("prices:soroswap-derived", "script", "soroswap"),
     Stage("blend", "script", "blend"),
     Stage("soroswap", "pools", "soroswap"),
     Stage("aquarius", "pools", "aquarius"),
     Stage("stellar-native", "script", "one"),
     Stage("defindex", "script", "defindex"),
     Stage("xoxno", "script", "xoxno"),
     Stage("protocol-metrics", "rollup", "one"),
     Stage("network-stats", "script", "one") >>

Venues == {"soroswap", "blend", "aquarius", "defindex", "xoxno"}
ASSUME PipelineAssumption ==
  /\ Attempts \in Nat \ {0}
  /\ Pools \subseteq Entities
  /\ \A m \in Mixes :
       /\ m.levels \subseteq Nat /\ m.news \in Nat
       /\ m.pools \in [Venues -> SUBSET Entities]
       /\ m.pools["soroswap"] \subseteq Pools /\ m.pools["aquarius"] \subseteq Pools

VARIABLES
  mix,      \* the instance: chosen once, never changed
  run,      \* the locals of 71-refresh-all-metrics
  totals,   \* network_tvl_snapshots: the latest
  ops,      \* refresh_step_runs and rpc_metrics_runs, by run
  lastRun,  \* history: when the last run began
  calm,     \* history: since when nothing failed, was late or moved
  faults

jobVars == <<run, totals, ops, lastRun>>
vars    == <<poolVars, mix, run, totals, ops, lastRun, calm, faults>>

AmmPools == mix.pools["soroswap"] \union mix.pools["aquarius"]

NoRun == [stage |-> 0, at |-> NoTime, found |-> [v \in Venues |-> {}], todo |-> {},
          attempt |-> 0, bad |-> FALSE, results |-> <<>>]

Running == run.stage # 0
Now     == Stages[run.stage]
InSteps == run.stage \in DOMAIN Stages

Init ==
  /\ mix \in Mixes
  /\ PoolInit
  /\ level \in mix.levels
  /\ run = NoRun
  /\ totals = [at |-> NoTime, tvl |-> 0]
  /\ ops = {}
  /\ lastRun = NoTime
  /\ calm = 0
  /\ faults = 0

Fault == faults < mix.faults /\ faults' = faults + 1 /\ calm' = now
Well  == UNCHANGED <<faults, calm>>

-----------------------------------------------------------------------------
\* The cron minute; flock -n gives up when a run holds the lock.
Due == now % Cadence = 0 /\ lastRun # now

Start ==
  /\ Due /\ ~Running
  /\ run' = [NoRun EXCEPT !.stage = 1, !.at = now]
  /\ lastRun' = now
  /\ UNCHANGED <<poolVars, mix, totals, ops, calm, faults>>

\* What a step has to do: its one script, or one script per pool discovered for it.
Items(stage, found) ==
  IF stage \notin DOMAIN Stages \/ Stages[stage].kind = "discover" THEN {}
  ELSE IF Stages[stage].venue = "one" THEN {"one"} ELSE found[Stages[stage].venue]

Outcome(name, ok) == [name |-> name, status |-> IF ok THEN "SUCCESS" ELSE "FAILED"]

Enter(stage, found, results) ==
  run' = [run EXCEPT !.stage = stage, !.found = found, !.results = results,
                     !.todo = Items(stage, found), !.attempt = 1, !.bad = FALSE]

\* Mutant: the failed discovery is logged only.
SilentDiscover ==
  /\ InSteps /\ Now.kind = "discover"
  /\ \/ /\ Enter(run.stage + 1, [run.found EXCEPT ![Now.venue] = mix.pools[Now.venue]],
                 run.results)
        /\ Well
     \/ Fault /\ Enter(run.stage + 1, run.found, run.results)
  /\ UNCHANGED <<poolVars, mix, totals, ops, lastRun>>

\* safeDiscover: a failed discovery is recorded, and its loops have nothing to do.
Discover ==
  /\ InSteps /\ Now.kind = "discover"
  /\ \/ /\ Enter(run.stage + 1, [run.found EXCEPT ![Now.venue] = mix.pools[Now.venue]],
                 run.results)
        /\ Well
     \/ /\ Fault
        /\ Enter(run.stage + 1, run.found, Append(run.results, Outcome(Now.name, FALSE)))
  /\ UNCHANGED <<poolVars, mix, totals, ops, lastRun>>

\* The scripts run one after another.  The database returns the pools by slug; no
\* property depends on which comes first.
Item == CHOOSE i \in run.todo : TRUE

NextItem(bad) == [run EXCEPT !.todo = @ \ {Item}, !.attempt = 1, !.bad = @ \/ bad]

\* runTsxWithRetry: an attempt failed; the last one fails the item, not the job.
AttemptFailed ==
  run' = IF run.attempt < Attempts THEN [run EXCEPT !.attempt = @ + 1] ELSE NextItem(TRUE)

Ends(ok) ==
  \/ ok /\ run' = NextItem(FALSE) /\ Well
  \/ ~ok /\ Fault /\ AttemptFailed

Working(kind) == InSteps /\ Now.kind = kind /\ run.todo # {}

\* A script of another adapter: only its outcome matters here.
OtherScript ==
  /\ Working("script")
  /\ \E ok \in BOOLEAN : Ends(ok)
  /\ UNCHANGED <<poolVars, mix, totals, ops, lastRun>>

\* 62-price-reference-assets: the rows are inserted one by one, USDC before USDY; an
\* attempt that fails may have written some.
ReferencePrices ==
  /\ Working("prices")
  /\ \E wrote \in 0..2 :
       /\ dollar' = IF wrote > 0 THEN now ELSE dollar
       /\ price' \in IF wrote > 1 THEN Resolved(reserves, price, now) ELSE {price}
       /\ \E ok \in BOOLEAN : (ok => wrote = 2) /\ Ends(ok)
  /\ UNCHANGED <<now, market, child, pooldb, mix, totals, ops, lastRun>>

\* 70-protocol-persist-metrics: a pool without a TVL counts for nothing.
Total == LET counted == {p \in AmmPools : metrics[p].tvl # Absent}
         IN SumFunctionOnSet([p \in counted |-> metrics[p].tvl], counted)

Rollup ==
  /\ Working("rollup")
  /\ \E ok, wrote \in BOOLEAN :
       /\ ok => wrote
       /\ totals' = IF wrote THEN [at |-> now, tvl |-> Total] ELSE totals
       /\ Ends(ok)
  /\ UNCHANGED <<poolVars, mix, ops, lastRun>>

\* The refresh of a pool, a child process of the run.
StartPool ==
  /\ Working("pools")
  /\ Launch(Item)
  /\ Well
  /\ UNCHANGED <<now, market, prices, pooldb, mix, jobVars>>

PoolStep == Script /\ Well /\ UNCHANGED <<mix, jobVars>>

PoolDone ==
  /\ child.pc = "done" /\ Ends(TRUE) /\ child' = Idle
  /\ UNCHANGED <<now, market, prices, pooldb, mix, totals, ops, lastRun>>

\* Mutant: the failing script is not waited for.
OrphanOnFailure ==
  /\ child.pc \notin {"idle", "done"} /\ Ends(FALSE)
  /\ UNCHANGED <<now, market, child, prices, pooldb, mix, totals, ops, lastRun>>

PoolFails ==
  /\ child.pc \notin {"idle", "done"} /\ Ends(FALSE) /\ child' = Idle
  /\ UNCHANGED <<now, market, prices, pooldb, mix, totals, ops, lastRun>>

\* track and trackEach: one outcome per step, FAILED when an item failed.
StepOver ==
  /\ InSteps /\ Now.kind # "discover" /\ run.todo = {}
  /\ Enter(run.stage + 1, run.found, Append(run.results, Outcome(Now.name, ~run.bad)))
  /\ UNCHANGED <<poolVars, mix, totals, ops, lastRun, calm, faults>>

\* persistOpsObservability and the exit: the rpc rows, then the step rows, one statement
\* each; an error is swallowed and leaves the rows written so far.
Failures == {i \in DOMAIN run.results : run.results[i].status = "FAILED"}

Persist ==
  /\ run.stage = Len(Stages) + 1
  /\ \E rpc \in BOOLEAN, k \in 0..Len(run.results) :
       /\ ~rpc => k = 0
       /\ IF k = Len(run.results) THEN Well ELSE Fault
       /\ ops' = IF rpc THEN ops \union {[at |-> run.at, steps |-> SubSeq(run.results, 1, k),
                                          whole |-> k = Len(run.results),
                                          code |-> IF Failures = {} THEN 0 ELSE 1]}
                 ELSE ops
  /\ run' = NoRun
  /\ UNCHANGED <<poolVars, mix, totals, lastRun>>

Kill ==
  /\ Running /\ Fault
  /\ run' = NoRun /\ child' = Idle
  /\ UNCHANGED <<now, market, prices, pooldb, mix, totals, ops, lastRun>>

-----------------------------------------------------------------------------
\* Time passes between runs and while a script waits for the chain.  A cycle that is due
\* begins, unless the host is down or the lock is held.  An instance says when scripts
\* may be slow, the host down, and the market moving.
Late == (Due /\ ~Running) \/ (Running /\ (now + 1) % Cadence = 0)

Tick ==
  /\ now < mix.until
  /\ Running => child.pc \in {"state", "page"} /\ now \in mix.slow
  /\ Due /\ ~Running => now \in mix.down
  /\ \E to \in mix.levels, news \in [Pools -> 0..mix.news] :
       /\ to # level => now \in mix.moves
       /\ \A p \in Pools : p \notin AmmPools => news[p] = 0
       /\ Close(news, to)
       /\ calm' = IF to # level \/ Late THEN now + 1 ELSE calm
  /\ UNCHANGED <<mix, jobVars, faults>>

Next ==
  \/ Start \/ Discover \/ OtherScript \/ ReferencePrices \/ StartPool \/ PoolStep
  \/ PoolDone \/ PoolFails \/ Rollup \/ StepOver \/ Persist \/ Kill \/ Tick

Spec == Init /\ [][Next]_vars

-----------------------------------------------------------------------------
(* Properties *)

Times == 0..now \union {Absent}
Results == [name : {Stages[i].name : i \in DOMAIN Stages}, status : {"SUCCESS", "FAILED"}]
Run == [stage : 0..Len(Stages) + 1, at : 0..now \union {NoTime},
        found : [Venues -> SUBSET Entities], todo : SUBSET (Entities \union {"one"}),
        attempt : 0..Attempts, bad : BOOLEAN, results : Seq(Results)]
Child == [pc : {"idle", "state", "ledger", "page", "events", "reserves", "metrics", "done"},
          pool : Pools \union {Absent}, level : Nat, head : 0..now, first : Nat, pos : Nat,
          pages : 0..MaxPages, wrote : Nat]

\* Every variable stays in its type; in particular one script runs at a time, for the
\* pool the run is at, and an event is stored only once it exists.
TypeOK ==
  /\ now \in Nat /\ level \in Nat /\ mix \in Mixes
  /\ chain \in [Pools -> [0..now -> Nat]]
  /\ stored \in [Pools -> SUBSET Nat]
  /\ \A p \in Pools : stored[p] \subseteq 1..chain[p][now]
  /\ whole \in [Pools -> -1..now] /\ hole \in [Pools -> -1..now]
  /\ reserves \in [Pools -> [level : Nat, at : Times]]
  /\ dollar \in Times /\ price \in [price : Nat, at : Times, from : Times]
  /\ DOMAIN metrics = Pools
  /\ \A p \in Pools : metrics[p].asOf \in Times /\ metrics[p].from \in Times
  /\ child \in Child /\ child.wrote \in child.first..child.pos
  /\ child # Idle => Working("pools") /\ child.pool = Item
  /\ run \in Run /\ (Running => run.at \in 0..now)
  /\ \A r \in ops : r.at \in 0..now
  /\ calm \in 0..now /\ faults \in Nat

\* What a step reported as done has done: a loop over pools for every active pool of its
\* venue, unless the discovery of the venue is reported as failed.
Reported(r, name, status) == \E i \in DOMAIN r.steps : r.steps[i] = Outcome(name, status = "SUCCESS")
Undiscovered(r, venue) ==
  \E j \in DOMAIN Stages : /\ Stages[j].kind = "discover" /\ Stages[j].venue = venue
                           /\ Reported(r, Stages[j].name, "FAILED")
Modelled == {Stages[i] : i \in {j \in DOMAIN Stages : Stages[j].kind \in {"prices", "pools", "rollup"}}}
Since(r, time) == time \notin {Absent, NoTime} /\ time >= r.at
Done(r, stage) ==
  /\ stage.kind = "prices" => Since(r, dollar)
  /\ stage.kind = "rollup" => Since(r, totals.at)
  /\ stage.kind = "pools" /\ ~Undiscovered(r, stage.venue) =>
       \A p \in mix.pools[stage.venue] : Since(r, metrics[p].asOf)

\* The page can be trusted: a step that the latest run reports as SUCCESS has done its
\* work, also in a degraded run and in one whose rows were not all written; and when
\* they were, operational says that the run exited 0 and that the totals are the sum of
\* what it wrote, degraded that it exited 1 (status.ts:413-422,
\* 71-refresh-all-metrics.ts:70-147: nothing that failed is reported as done).
BannerHonest ==
  LET r == LatestRun(ops, now)
      b == Banner(ops, now)
  IN b \in {"operational", "degraded"} =>
       /\ \A stage \in Modelled : Reported(r, stage.name, "SUCCESS") => Done(r, stage)
       /\ r.whole => (b = "operational") = (r.code = 0)
       /\ r.whole /\ b = "operational" /\ lastRun = r.at => totals.tvl = Total

\* The missed cycles of the page are the cycles that left no rows: never one too many,
\* and at most two too few, one at each end of the window (status.ts:279-321).
MissedCyclesTrue ==
  LET since  == HistorySince(ops)
      from   == IF since > now - Window THEN since ELSE now - Window
      missed == Cardinality({t \in from..now : t % Cadence = 0 /\ t \notin Axis(ops, now)})
      shown  == MissedCycles(ops, now)
  IN Axis(ops, now) # {} => shown <= missed /\ missed <= shown + 2

\* Once nothing failed, was late or moved for the band's memory and two cycles, the asset
\* has a fresh price, it is the market's, and every pool's TVL rests on it: neither the sanity band
\* nor the circle of prices and reserves keeps an asset without a price for longer
\* (62-price-reference-assets.ts:302-308, price-select.ts:73-81).
PriceRecovers ==
  now - calm > BandMemory + 2 * Cadence /\ level >= BandMin /\ level <= BandMax /\ ~Running =>
    \A p \in AmmPools : /\ price.price = level /\ IsFresh(price.at, now)
                       /\ metrics[p].tvl = 2 * level

=============================================================================
