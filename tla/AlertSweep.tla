------------------------------ MODULE AlertSweep ------------------------------
(***************************************************************************)
(* The alerting engine: one cron job (script 82) refreshes the health log  *)
(* (script 81) and then runs the evaluator (script 83) over every enabled  *)
(* rule, while users create, patch and delete rules through the API and    *)
(* refresh single wallets.  Every statement of the evaluator is a separate *)
(* step, because each one is a separate transaction that can fail.         *)
(***************************************************************************)
EXTENDS Integers, Sequences, FiniteSets

CONSTANTS
  RuleIds,      \* ids gen_random_uuid() will hand out; never reused
  Conditions,   \* the rule rows users may write
  Poisoned,     \* the rules whose own statements always throw
  Wallets, Pools, Users,
  Markets,      \* <<metric, target>>: the assets and pools with a market metric
  Holders,      \* [Pools -> SUBSET Users]: a position seen in the last 24 h
  Levels,       \* the values a metric can take
  Statuses,     \* the statuses a pool can take on chain
  MaxTime,      \* bound on the clock
  MaxMoves,     \* bound on the changes of the outside world
  MaxEdits,     \* bound on the users' writes to alert_rules
  MaxFaults,    \* bound on failing statements, skipped pools and crashes
  NoDebt,       \* wallet_pool_health.health_factor is null
  Absent,       \* no row, no position, or no usable observation
  Unused, Deleted, None

Positions == Wallets \X Pools
Subjects  == Positions \union Markets

Labels == {"Active", "On-Ice", "Frozen", "Setup", "Unknown"}

\* The order in which the evaluator visits the families.
Families == <<"health", "price", "tvl", "apy">>

Condition == [metric : {"health", "price", "tvl", "apy"},
              operator : {"lt", "lte", "gt", "gte"},
              threshold : Int, margin : Nat, cooldown : Nat \ {0},
              scope : SUBSET Subjects, enabled : BOOLEAN]

ASSUME ConditionsAssumption ==
  /\ Conditions \subseteq Condition
  /\ \A c \in Conditions :
       \/ c.metric = "health" /\ c.scope \subseteq Positions
       \/ c.metric # "health" /\ \E s \in Markets : s[1] = c.metric /\ c.scope = {s}

ASSUME DataAssumption ==
  /\ Levels \subseteq Int /\ Statuses \subseteq Labels
  /\ \A s \in Markets : s[1] \in {"price", "tvl", "apy"}
  /\ Poisoned \subseteq RuleIds
  /\ Holders \in [Pools -> SUBSET Users]
  /\ {MaxTime, MaxMoves, MaxEdits, MaxFaults} \subseteq Nat

\* A row is never one of the reasons for its absence; the names of the two kinds
\* of notification's subjects, and the ids of rules, are apart from everything else.
ASSUME NamesAssumption ==
  /\ Unused # Deleted /\ Unused \notin Conditions /\ Deleted \notin Conditions
  /\ None \notin RuleIds
  /\ "pool" \notin Wallets

VARIABLES
  rules,     \* alert_rules: a row, or why there is none
  edges,     \* alert_rule_state and alert_rule_subject_state
  feed,      \* notifications, in insertion order
  health,    \* wallet_pool_health: its newest row and newest debt-bearing row
  seen,      \* pool_status_state
  chain,     \* the positions as they are on chain
  market,    \* the usable observation of each market subject
  status,    \* the pools' status on chain
  sweep,     \* the locals of the running job
  clock, moves, edits, faults

vars == <<rules, edges, feed, health, seen, chain, market, status, sweep,
          clock, moves, edits, faults>>
world  == <<chain, market, status>>
tables == <<rules, edges, feed, health, seen>>
bounds == <<clock, moves, edits, faults>>

Unseen  == [label |-> Absent, changedAt |-> -1, changes |-> 0]
NoEdge  == [state |-> "none", firedAt |-> -1, episode |-> 0]
EdgeRow == [state : {"none", "ok", "breached"}, firedAt : Int, episode : Nat]

\* The locals of the job; everything is dropped when the process ends.
Idle == [pc |-> "idle", now |-> 0, pools |-> {}, partial |-> FALSE,
         loaded |-> << >>, latest |-> [k \in Positions |-> Absent],
         newest |-> [k \in Positions |-> Absent], family |-> 0,
         observed |-> [s \in Markets |-> Absent], todo |-> {}, rule |-> None,
         rows |-> {}, prior |-> [s \in Subjects |-> NoEdge], note |-> None,
         last |-> [p \in Pools |-> Unseen], users |-> {}]

Init ==
  /\ rules = [r \in RuleIds |-> Unused]
  /\ edges = [r \in RuleIds |-> [s \in Subjects |-> NoEdge]]
  /\ feed = << >>
  /\ health = [k \in Positions |-> [newest |-> Absent, debt |-> Absent]]
  /\ seen = [p \in Pools |-> Unseen]
  /\ chain = [k \in Positions |-> Absent]
  /\ market = [s \in Markets |-> Absent]
  /\ status = [p \in Pools |-> "Active"]
  /\ sweep = Idle
  /\ clock = 0 /\ moves = 0 /\ edits = 0 /\ faults = 0

-------------------------------------------------------------------------------
(* evaluate.ts: the pure edge machine.                                     *)

Breaches(c, v) ==
  \/ c.operator = "lt"  /\ v < c.threshold
  \/ c.operator = "lte" /\ v <= c.threshold
  \/ c.operator = "gt"  /\ v > c.threshold
  \/ c.operator = "gte" /\ v >= c.threshold

IsRecovered(c, v) ==
  IF c.operator \in {"lt", "lte"} THEN v >= c.threshold + c.margin
                                  ELSE v <= c.threshold - c.margin

\* Mutant: the cooldown is not converted from seconds.
ElapsedAnyway(c, e, now) == now - e.firedAt >= 0

Elapsed(c, e, now) == e.firedAt = -1 \/ now - e.firedAt >= c.cooldown

\* What to emit for the observation v of a subject whose stored edge is e.
Emission(c, v, e, now) ==
  IF v # NoDebt /\ Breaches(c, v)
  THEN IF e.state # "breached" \/ Elapsed(c, e, now) THEN "alert_fired" ELSE "nothing"
  ELSE IF e.state = "breached" /\ (v = NoDebt \/ IsRecovered(c, v))
       THEN "alert_resolved" ELSE "nothing"

\* Mutant: only the crossing, not a reminder, advances last_fired_at.
ForgetfulEdge(c, v, e, now) ==
  LET emit == Emission(c, v, e, now) IN
  [state   |-> IF emit = "alert_resolved" THEN "ok"
               ELSE IF emit = "alert_fired" \/ e.state = "breached" THEN "breached"
               ELSE "ok",
   firedAt |-> IF emit = "alert_fired" /\ e.state # "breached" THEN now ELSE e.firedAt,
   episode |-> IF emit = "alert_fired" /\ e.state # "breached" THEN e.episode + 1
               ELSE e.episode]

\* The edge to store.  episode is a history counter: the crossings so far.
NextEdge(c, v, e, now) ==
  LET emit == Emission(c, v, e, now) IN
  [state   |-> IF emit = "alert_resolved" THEN "ok"
               ELSE IF emit = "alert_fired" \/ e.state = "breached" THEN "breached"
               ELSE "ok",
   firedAt |-> IF emit = "alert_fired" THEN now ELSE e.firedAt,
   episode |-> IF emit = "alert_fired" /\ e.state # "breached" THEN e.episode + 1
               ELSE e.episode]

-------------------------------------------------------------------------------
(* Users, through the API.                                                 *)

Live(r) == rules[r] \in Conditions

CreateRule(r) ==
  /\ rules[r] = Unused /\ edits < MaxEdits
  /\ \E c \in Conditions : rules' = [rules EXCEPT ![r] = c]
  /\ edits' = edits + 1
  /\ UNCHANGED <<edges, feed, health, seen, world, sweep, clock, moves, faults>>

\* The metric is immutable; everything else, the scope included, may change.
UpdateRule(r) ==
  /\ Live(r) /\ edits < MaxEdits
  /\ \E c \in Conditions \ {rules[r]} :
       c.metric = rules[r].metric /\ rules' = [rules EXCEPT ![r] = c]
  /\ edits' = edits + 1
  /\ UNCHANGED <<edges, feed, health, seen, world, sweep, clock, moves, faults>>

\* Mutant: alert_rule_state without its on delete cascade.
DeleteRuleRow(r) ==
  /\ Live(r) /\ edits < MaxEdits
  /\ rules' = [rules EXCEPT ![r] = Deleted]
  /\ edits' = edits + 1
  /\ UNCHANGED <<edges, feed, health, seen, world, sweep, clock, moves, faults>>

\* The edges cascade; the notifications stay, with rule_id set to null.
DeleteRule(r) ==
  /\ Live(r) /\ edits < MaxEdits
  /\ rules' = [rules EXCEPT ![r] = Deleted]
  /\ edges' = [edges EXCEPT ![r] = [s \in Subjects |-> NoEdge]]
  /\ feed' = [i \in DOMAIN feed |->
                IF feed[i].rule = r THEN [feed[i] EXCEPT !.rule = None] ELSE feed[i]]
  /\ edits' = edits + 1
  /\ UNCHANGED <<health, seen, world, sweep, clock, moves, faults>>

-------------------------------------------------------------------------------
(* Script 81: one health row per open position, nothing for a closed one.  *)

Snapshot(k) == IF chain[k] = Absent THEN health[k]
               ELSE [newest |-> chain[k],
                     debt   |-> IF chain[k] = NoDebt THEN health[k].debt ELSE chain[k]]

WriteHealth(ks) == health' = [k \in Positions |-> IF k \in ks THEN Snapshot(k) ELSE health[k]]

\* POST /wallets/:id/refresh runs script 81 for one wallet.
RefreshWallet(w) ==
  /\ WriteHealth({w} \X Pools)
  /\ health' # health
  /\ UNCHANGED <<rules, edges, feed, seen, world, sweep, bounds>>

\* Script 82, under flock: one job at a time.
StartJob ==
  /\ sweep.pc = "idle"
  /\ sweep' = [Idle EXCEPT !.pc = "refresh", !.pools = Pools]
  /\ UNCHANGED <<tables, world, bounds>>

\* One wallet's failed write is logged and skipped: ks is what was written.
RefreshPool(p) ==
  /\ sweep.pc = "refresh" /\ p \in sweep.pools
  /\ \E ws \in SUBSET Wallets :
       /\ ws = Wallets \/ faults < MaxFaults
       /\ WriteHealth(ws \X {p})
       /\ faults' = IF ws = Wallets THEN faults ELSE faults + 1
  /\ sweep' = [sweep EXCEPT !.pools = @ \ {p}]
  /\ UNCHANGED <<rules, edges, feed, seen, world, clock, moves, edits>>

\* Its RPC batch failed: the pool keeps its previous rows.
SkipPool(p) ==
  /\ sweep.pc = "refresh" /\ p \in sweep.pools /\ faults < MaxFaults
  /\ sweep' = [sweep EXCEPT !.pools = @ \ {p}, !.partial = TRUE]
  /\ faults' = faults + 1
  /\ UNCHANGED <<tables, world, clock, moves, edits>>

\* A partial refresh exits 1 and script 82 does not run the evaluator.
AbortJob ==
  /\ sweep.pc = "refresh" /\ sweep.pools = {} /\ sweep.partial
  /\ sweep' = Idle
  /\ UNCHANGED <<tables, world, bounds>>

-------------------------------------------------------------------------------
(* Script 83, the families of user rules.                                  *)

\* getEnabledRules and latestPerKey, which reads only debt-bearing rows.
Load ==
  /\ sweep.pc = "refresh" /\ sweep.pools = {} /\ ~sweep.partial
  /\ sweep' = [sweep EXCEPT
       !.pc = "rules", !.now = clock,
       !.loaded = [r \in {q \in RuleIds : Live(q) /\ rules[q].enabled} |-> rules[r]],
       !.latest = [k \in Positions |-> health[k].debt],
       !.newest = [k \in Positions |-> health[k].newest]]
  /\ UNCHANGED <<tables, world, bounds>>

\* Each family loads its observations when its turn comes.
NextFamily ==
  /\ sweep.pc = "rules" /\ sweep.todo = {} /\ sweep.family < Len(Families)
  /\ sweep' = [sweep EXCEPT
       !.family = @ + 1, !.observed = market,
       !.todo = {r \in DOMAIN sweep.loaded :
                   sweep.loaded[r].metric = Families[sweep.family + 1]}]
  /\ UNCHANGED <<tables, world, bounds>>

Observation(s) == IF s \in Positions THEN sweep.latest[s] ELSE sweep.observed[s]

\* The subjects of rule r this sweep has a usable observation for.  A subject
\* with none is skipped: it neither fires nor resolves.
Matched(r) == {s \in sweep.loaded[r].scope : Observation(s) # Absent}

BeginRule(r) ==
  /\ sweep.pc = "rules" /\ r \in sweep.todo
  /\ sweep' = [sweep EXCEPT !.pc = "rows", !.rule = r, !.todo = @ \ {r},
                            !.prior = edges[r], !.rows = Matched(r)]
  /\ UNCHANGED <<tables, world, bounds>>

EndRule ==
  /\ sweep.pc = "rows" /\ sweep.rows = {}
  /\ sweep' = [sweep EXCEPT !.pc = "rules", !.rule = None, !.prior = Idle.prior]
  /\ UNCHANGED <<tables, world, bounds>>

\* The upsert, then, for an edge, the notification: two statements, no transaction.
Upsert(s) ==
  /\ sweep.pc = "rows" /\ s \in sweep.rows
  /\ Live(sweep.rule) /\ sweep.rule \notin Poisoned
  /\ LET c == sweep.loaded[sweep.rule]
         v == Observation(s)
         e == sweep.prior[s]
         emit == Emission(c, v, e, sweep.now)
         next == NextEdge(c, v, e, sweep.now)
         note == [rule |-> sweep.rule, about |-> s, kind |-> emit, at |-> sweep.now,
                  episode |-> next.episode, cooldown |-> c.cooldown,
                  newest |-> IF s \in Positions THEN sweep.newest[s] ELSE v]
     IN /\ edges' = [edges EXCEPT ![sweep.rule][s] = next]
        /\ sweep' = IF emit = "nothing" THEN [sweep EXCEPT !.rows = @ \ {s}]
                    ELSE [sweep EXCEPT !.pc = "notify", !.rows = @ \ {s}, !.note = note]
  /\ UNCHANGED <<rules, feed, health, seen, world, bounds>>

\* Mutant: the alert is dropped when the rule was edited since it was loaded.
NotifyUnedited ==
  /\ sweep.pc = "notify" /\ Live(sweep.rule)
  /\ feed' = IF rules[sweep.rule] = sweep.loaded[sweep.rule]
             THEN Append(feed, sweep.note) ELSE feed
  /\ sweep' = [sweep EXCEPT !.pc = "rows", !.note = None]
  /\ UNCHANGED <<rules, edges, health, seen, world, bounds>>

Notify ==
  /\ sweep.pc = "notify" /\ Live(sweep.rule)
  /\ feed' = Append(feed, sweep.note)
  /\ sweep' = [sweep EXCEPT !.pc = "rows", !.note = None]
  /\ UNCHANGED <<rules, edges, health, seen, world, bounds>>

\* Mutant: no try around the rule, so one bad rule ends the job.
RuleFailsAll ==
  /\ sweep.pc \in {"rows", "notify"} /\ (sweep.pc = "rows" => sweep.rows # {})
  /\ ~Live(sweep.rule) \/ sweep.rule \in Poisoned
  /\ sweep' = Idle
  /\ UNCHANGED <<tables, world, bounds>>

\* Either statement throws: the database fails, or the rule was deleted and a
\* foreign key refuses it.  The catch drops the remaining subjects of the rule.
RuleFails ==
  /\ sweep.pc \in {"rows", "notify"}
  /\ sweep.pc = "rows" => sweep.rows # {}
  /\ \/ (~Live(sweep.rule) \/ sweep.rule \in Poisoned) /\ UNCHANGED faults
     \/ faults < MaxFaults /\ faults' = faults + 1
  /\ sweep' = [sweep EXCEPT !.pc = "rules", !.rule = None, !.rows = {},
                            !.note = None, !.prior = Idle.prior]
  /\ UNCHANGED <<tables, world, clock, moves, edits>>

-------------------------------------------------------------------------------
(* Script 83, the automatic pool-status family.                            *)

\* Mutant: a pool seen for the first time counts as changed.
DiffSeeding(prev, cur) == IF prev = cur THEN "unchanged" ELSE "changed"

diffPoolStatus(prev, cur) ==
  IF prev = Absent THEN "seed"
  ELSE IF prev = cur THEN "unchanged"
  ELSE IF "Unknown" \in {prev, cur} THEN "suppressed" ELSE "changed"

LoadPools ==
  /\ sweep.pc = "rules" /\ sweep.todo = {} /\ sweep.family = Len(Families)
  /\ sweep' = [sweep EXCEPT !.pc = "pools", !.pools = Pools, !.last = seen]
  /\ UNCHANGED <<tables, world, bounds>>

\* One pool: upsert its state, then notify its holders one by one.  changes is
\* a history counter.
CheckPool(p) ==
  /\ sweep.pc = "pools" /\ p \in sweep.pools
  /\ LET from == sweep.last[p].label
         to == status[p]
         outcome == diffPoolStatus(from, to)
         next == [label |-> to,
                  changedAt |-> IF outcome = "unchanged" THEN sweep.last[p].changedAt
                                ELSE sweep.now,
                  changes |-> sweep.last[p].changes + (IF outcome = "changed" THEN 1 ELSE 0)]
     IN /\ seen' = [seen EXCEPT ![p] = next]
        /\ sweep' = IF outcome # "changed" THEN [sweep EXCEPT !.pools = @ \ {p}]
                    ELSE [sweep EXCEPT !.pc = "tell", !.pools = @ \ {p}, !.users = Holders[p],
                            !.note = [rule |-> None, about |-> <<"pool", p>>,
                                      kind |-> IF to = "Active" THEN "alert_resolved"
                                                                ELSE "alert_fired",
                                      at |-> sweep.now, episode |-> next.changes,
                                      from |-> from, to |-> to, user |-> None]]
  /\ UNCHANGED <<rules, edges, feed, health, world, bounds>>

\* PoolV2.load failed: the pool is skipped and its state kept.
MissPool(p) ==
  /\ sweep.pc = "pools" /\ p \in sweep.pools /\ faults < MaxFaults
  /\ sweep' = [sweep EXCEPT !.pools = @ \ {p}]
  /\ faults' = faults + 1
  /\ UNCHANGED <<tables, world, clock, moves, edits>>

\* Mutant: one notification for each change, whoever is told first.
TellUserOnce(u) ==
  /\ sweep.pc = "tell" /\ u \in sweep.users
  /\ feed' = IF \E i \in DOMAIN feed : /\ feed[i].about = sweep.note.about
                                       /\ feed[i].episode = sweep.note.episode
             THEN feed ELSE Append(feed, [sweep.note EXCEPT !.user = u])
  /\ sweep' = [sweep EXCEPT !.users = @ \ {u}]
  /\ UNCHANGED <<rules, edges, health, seen, world, bounds>>

TellUser(u) ==
  /\ sweep.pc = "tell" /\ u \in sweep.users
  /\ feed' = Append(feed, [sweep.note EXCEPT !.user = u])
  /\ sweep' = [sweep EXCEPT !.users = @ \ {u}]
  /\ UNCHANGED <<rules, edges, health, seen, world, bounds>>

EndPool ==
  /\ sweep.pc = "tell" /\ sweep.users = {}
  /\ sweep' = [sweep EXCEPT !.pc = "pools", !.note = None]
  /\ UNCHANGED <<tables, world, bounds>>

\* The family has one try: a failing statement ends it for every pool left.
PoolsFail ==
  /\ \/ sweep.pc = "pools" /\ sweep.pools # {}
     \/ sweep.pc = "tell" /\ sweep.users # {}
  /\ faults < MaxFaults
  /\ sweep' = Idle
  /\ faults' = faults + 1
  /\ UNCHANGED <<tables, world, clock, moves, edits>>

EndJob ==
  /\ sweep.pc = "pools" /\ sweep.pools = {}
  /\ sweep' = Idle
  /\ UNCHANGED <<tables, world, bounds>>

\* A crash, a kill or a lost database connection between two statements.
Crash ==
  /\ sweep.pc # "idle" /\ faults < MaxFaults
  /\ sweep' = Idle
  /\ faults' = faults + 1
  /\ UNCHANGED <<tables, world, clock, moves, edits>>

-------------------------------------------------------------------------------
(* The outside world.                                                      *)

Move ==
  /\ moves < MaxMoves /\ moves' = moves + 1
  /\ \/ \E k \in Positions, v \in Levels \union {NoDebt, Absent} :
          chain' = [chain EXCEPT ![k] = v] /\ UNCHANGED <<market, status>>
     \/ \E s \in Markets, v \in Levels \union {Absent} :
          market' = [market EXCEPT ![s] = v] /\ UNCHANGED <<chain, status>>
     \/ \E p \in Pools, l \in Statuses :
          status' = [status EXCEPT ![p] = l] /\ UNCHANGED <<chain, market>>
  /\ UNCHANGED <<tables, sweep, clock, edits, faults>>

Tick ==
  /\ clock < MaxTime /\ clock' = clock + 1
  /\ UNCHANGED <<tables, world, sweep, moves, edits, faults>>

EditRule == \E r \in RuleIds : CreateRule(r) \/ UpdateRule(r) \/ DeleteRule(r)

JobStep ==
  \/ StartJob \/ AbortJob \/ Load \/ NextFamily \/ EndRule \/ Notify \/ RuleFails
  \/ LoadPools \/ EndPool \/ EndJob
  \/ \E p \in Pools : RefreshPool(p) \/ CheckPool(p)
  \/ \E r \in RuleIds : BeginRule(r)
  \/ \E s \in Subjects : Upsert(s)
  \/ \E u \in Users : TellUser(u)

Fault == PoolsFail \/ Crash \/ \E p \in Pools : SkipPool(p) \/ MissPool(p)

Next == JobStep \/ Fault \/ EditRule \/ Move \/ Tick \/ \E w \in Wallets : RefreshWallet(w)

Spec == Init /\ [][Next]_vars

\* cron starts the job again and again, and a running statement ends.
FairSpec == Spec /\ WF_vars(JobStep)

-------------------------------------------------------------------------------
(* Properties.                                                             *)

Value == Levels \union {NoDebt, Absent}

RuleNote == [rule : RuleIds \union {None}, about : Subjects,
             kind : {"alert_fired", "alert_resolved"}, at : Nat, episode : Nat,
             cooldown : Nat, newest : Value]
PoolNote == [rule : {None}, about : {"pool"} \X Pools,
             kind : {"alert_fired", "alert_resolved"}, at : Nat, episode : Nat,
             from : Labels, to : Labels, user : Users]

\* The tables hold what their check constraints and foreign keys allow: a
\* deleted or never created rule has no edge and no notification refers to it.
TypeOK ==
  /\ rules \in [RuleIds -> Conditions \union {Unused, Deleted}]
  /\ edges \in [RuleIds -> [Subjects -> EdgeRow]]
  /\ \A r \in RuleIds : ~Live(r) =>
       /\ \A s \in Subjects : edges[r][s] = NoEdge
       /\ \A i \in DOMAIN feed : feed[i].rule # r
  /\ \A i \in DOMAIN feed : feed[i] \in RuleNote \union PoolNote
  /\ health \in [Positions -> [newest : Value, debt : Levels \union {Absent}]]
  /\ seen \in [Pools -> [label : Labels \union {Absent}, changedAt : Int, changes : Nat]]

RuleNotes == {i \in DOMAIN feed : feed[i].rule # None}
PoolNotes == {i \in DOMAIN feed : feed[i].about \in {"pool"} \X Pools}

\* The state table is never behind the feed, whatever crashes or fails between
\* the two statements of the evaluator: the cooldown and the edge of every
\* notification sent are on record, so a later sweep cannot send it again.
FeedBacked ==
  /\ \A i \in RuleNotes :
       LET n == feed[i]  e == edges[n.rule][n.about] IN
       /\ e.episode >= n.episode
       /\ n.kind = "alert_fired" => e.firedAt >= n.at
       /\ n.kind = "alert_resolved" /\ e.episode = n.episode => e.state = "ok"
  /\ \A i \in PoolNotes :
       LET now == seen[feed[i].about[2]] IN
       now.changedAt >= feed[i].at /\ now.changes >= feed[i].episode

\* A sustained breach is reminded of at most once per cooldown and a recovery
\* announced at most once, across sweeps, crashes, failures and rule edits.
NoRepeatedAlert ==
  \A i, j \in RuleNotes :
    LET m == feed[i]  n == feed[j] IN
    i < j /\ m.rule = n.rule /\ m.about = n.about /\ m.episode = n.episode =>
      /\ m.kind = "alert_fired"
      /\ n.kind = "alert_fired" => n.at - m.at >= n.cooldown

\* A holder is told of a pool's change only between two known statuses, never
\* of the status the pool was first seen with, and once for each change.
PoolNewsIsNews ==
  \A i \in PoolNotes :
    /\ feed[i].from # feed[i].to /\ {feed[i].from, feed[i].to} \subseteq Labels \ {"Unknown"}
    /\ \A j \in PoolNotes :
         /\ i # j /\ feed[i].user = feed[j].user /\ feed[i].about = feed[j].about
         => feed[i].episode # feed[j].episode

\* A lost alert costs a fault.  The edge is stored before its notification, so a fault
\* between the two loses one (83-evaluate-alerts.ts:143); nothing else does, an edit of
\* the rule during the sweep included.
Told(r, s) ==
  LET e == edges[r][s]
      sent(kind) == {i \in RuleNotes : /\ feed[i].rule = r /\ feed[i].about = s
                                       /\ feed[i].kind = kind /\ feed[i].episode = e.episode}
  IN IF e.state = "breached" THEN \E i \in sent("alert_fired") : feed[i].at = e.firedAt
     ELSE e.episode > 0 => sent("alert_resolved") # {}
LossesAreFaults ==
  LET untold == {x \in RuleIds \X Subjects : ~Told(x[1], x[2])}
  IN sweep.pc # "notify" => Cardinality(untold) <= faults

\* Every holder hears of every change of a pool's status, except of those that a fault
\* cut short: the status is stored first, then the holders are told one by one
\* (83-evaluate-alerts.ts:616-661).
ChangesAreTold ==
  \A p \in Pools : \A u \in Holders[p] :
    LET heard == {i \in PoolNotes : feed[i].about = <<"pool", p>> /\ feed[i].user = u}
        due   == IF sweep.pc = "tell" /\ sweep.note.about[2] = p /\ u \in sweep.users
                 THEN 1 ELSE 0
    IN seen[p].changes <= Cardinality(heard) + due + faults

\* A rule whose own evaluation keeps failing never silences another rule: an
\* enabled rule over a position that stays in breach ends up breached for good.
InBreach(r, k) ==
  /\ Live(r) /\ rules[r].enabled /\ k \in rules[r].scope
  /\ chain[k] \in Levels /\ Breaches(rules[r], chain[k])
BreachIsSeen ==
  \A r \in RuleIds \ Poisoned, k \in Positions :
    <>[]InBreach(r, k) => <>[](edges[r][k].state = "breached")

\* evaluate.ts:108, "No debt (current === null) - health factor is undefined,
\* never a breach": no rule fires over a position whose newest row has no debt.
NoDebtNeverFires ==
  \A i \in RuleNotes : feed[i].kind = "alert_fired" => feed[i].newest # NoDebt
===============================================================================
