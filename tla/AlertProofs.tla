------------------------------ MODULE AlertProofs ------------------------------
(***************************************************************************)
(* What the alerting engine promises of its feed, for every set of rules,  *)
(* wallets, pools and users: an alert is repeated at most once per         *)
(* cooldown, a lost one costs a fault, and a pool's holders hear of every  *)
(* change once.                                                            *)
(***************************************************************************)
EXTENDS AlertSweep, FiniteSetTheorems, SequenceTheorems, TLAPS

-------------------------------------------------------------------------------
(* The inductive invariant.                                                *)

SweepFields == {"pc", "now", "pools", "partial", "loaded", "latest", "newest", "family",
                "observed", "todo", "rule", "rows", "prior", "note", "last", "users"}

HealthRow == [newest : Value, debt : Levels \union {Absent}]
SeenRow   == [label : Labels \union {Absent}, changedAt : Int, changes : Nat]

\* A pool's notification before it is addressed to one of its holders.
News == [rule : {None}, about : {"pool"} \X Pools,
         kind : {"alert_fired", "alert_resolved"}, at : Nat, episode : Nat,
         from : Labels, to : Labels, user : {None}]

TablesOK ==
  /\ rules \in [RuleIds -> Conditions \union {Unused, Deleted}]
  /\ edges \in [RuleIds -> [Subjects -> EdgeRow]]
  /\ feed \in Seq(RuleNote \union PoolNote)
  /\ health \in [Positions -> HealthRow]
  /\ seen \in [Pools -> SeenRow]

WorldOK ==
  /\ chain \in [Positions -> Value]
  /\ market \in [Markets -> Value]
  /\ status \in [Pools -> Labels]
  /\ clock \in Nat /\ faults \in Nat

JobOK ==
  /\ DOMAIN sweep = SweepFields
  /\ sweep.pc \in {"idle", "refresh", "rules", "rows", "notify", "pools", "tell"}
  /\ sweep.now \in Nat /\ sweep.now <= clock
  /\ sweep.pools \subseteq Pools
  /\ sweep.latest \in [Positions -> Value]
  /\ sweep.newest \in [Positions -> Value]
  /\ sweep.observed \in [Markets -> Value]
  /\ sweep.users \subseteq Users
  /\ sweep.pc = "refresh" => sweep.todo = {}

\* A rule that is gone left no edge behind and no notification that names it.
Orphanless ==
  \A r \in RuleIds : ~Live(r) =>
    /\ \A s \in Subjects : edges[r][s] = NoEdge
    /\ \A i \in DOMAIN feed : feed[i].rule # r

\* A rule the sweep has loaded once had a row, so no later row can take its id.
LoadedOK ==
  sweep.pc \in {"rules", "rows", "notify"} =>
    /\ DOMAIN sweep.loaded \subseteq RuleIds /\ sweep.todo \subseteq DOMAIN sweep.loaded
    /\ \A r \in DOMAIN sweep.loaded : sweep.loaded[r] \in Conditions /\ rules[r] # Unused

\* The edges read when the rule began are still the stored ones for every subject
\* left: a second evaluator cannot run, and an edit of the rule leaves its edges.
PriorFresh ==
  sweep.pc \in {"rows", "notify"} =>
    /\ sweep.rule \in DOMAIN sweep.loaded
    /\ sweep.rows \subseteq Subjects
    /\ sweep.prior \in [Subjects -> EdgeRow]
    /\ Live(sweep.rule) => \A s \in sweep.rows : sweep.prior[s] = edges[sweep.rule][s]

\* Between the upsert and its notification, the stored edge is the one the
\* notification tells of, and no notification before it tells the same.
NoteOK ==
  sweep.pc = "notify" =>
    /\ sweep.note \in RuleNote /\ sweep.note.rule = sweep.rule /\ sweep.rule \notin Poisoned
    /\ Live(sweep.rule) =>
         /\ LET e == edges[sweep.rule][sweep.note.about] IN
              /\ e.episode = sweep.note.episode
              /\ sweep.note.kind = "alert_fired" =>
                   e.state = "breached" /\ e.firedAt = sweep.note.at
              /\ sweep.note.kind = "alert_resolved" => e.state = "ok"
         /\ \A i \in RuleNotes :
              /\ feed[i].rule = sweep.rule
              /\ feed[i].about = sweep.note.about
              /\ feed[i].episode = sweep.note.episode
              => /\ feed[i].kind = "alert_fired"
                 /\ sweep.note.kind = "alert_fired" =>
                      sweep.note.at - feed[i].at >= sweep.note.cooldown

\* No stored time is later than the clock, nor than the sweep that may replace it.
StoredBy(t) ==
  /\ \A r \in RuleIds, s \in Subjects : edges[r][s].firedAt <= t
  /\ \A p \in Pools : seen[p].changedAt <= t

Timely ==
  /\ StoredBy(clock)
  /\ sweep.pc \in {"rules", "rows", "notify", "pools", "tell"} => StoredBy(sweep.now)

\* The state of a pool not yet checked is still the one the family loaded.
LastFresh ==
  sweep.pc \in {"pools", "tell"} => \A p \in sweep.pools : sweep.last[p] = seen[p]

\* While the holders are told, the stored state is the one they are told of, and
\* those left have not heard of it.
TellOK ==
  sweep.pc = "tell" =>
    /\ sweep.note \in News
    /\ sweep.note.about[2] \notin sweep.pools
    /\ sweep.note.from # sweep.note.to
    /\ sweep.note.from # "Unknown" /\ sweep.note.to # "Unknown"
    /\ seen[sweep.note.about[2]].changes = sweep.note.episode
    /\ seen[sweep.note.about[2]].changedAt = sweep.note.at
    /\ \A i \in PoolNotes :
         feed[i].about = sweep.note.about /\ feed[i].user \in sweep.users
         => feed[i].episode # sweep.note.episode

\* The edges whose last crossing is in no notification, and the one in hand.
Untold  == {x \in RuleIds \X Subjects : ~Told(x[1], x[2])}
Pending == IF sweep.pc = "notify" THEN {<<sweep.rule, sweep.note.about>>} ELSE {}

LossInv == IsFiniteSet(Untold) /\ Cardinality(Untold \ Pending) <= faults

TypeInv == TablesOK /\ WorldOK /\ JobOK
RuleInv == Orphanless /\ LoadedOK /\ PriorFresh /\ NoteOK
PoolInv == LastFresh /\ TellOK
FeedInv == FeedBacked /\ NoRepeatedAlert /\ PoolNewsIsNews

IInv == TypeInv /\ RuleInv /\ Timely /\ PoolInv /\ FeedInv /\ LossInv /\ ChangesAreTold

-------------------------------------------------------------------------------
(* The edge machine and the feed.                                          *)

LEMMA NamesApart ==
  \A p \in Pools : <<"pool", p>> \notin Subjects
<1> TAKE p \in Pools
<1>1. <<"pool", p>> \notin Positions
  BY NamesAssumption DEF Positions
<1>2. <<"pool", p>> \notin Markets
  <2>1. SUFFICES ASSUME <<"pool", p>> \in Markets PROVE FALSE
    OBVIOUS
  <2>2. <<"pool", p>>[1] \in {"price", "tvl", "apy"}
    BY <2>1, DataAssumption
  <2> QED BY <2>2
<1> QED BY <1>1, <1>2 DEF Subjects

LEMMA ConditionFields ==
  ASSUME NEW c \in Conditions
  PROVE  /\ c.cooldown \in Nat \ {0} /\ c.margin \in Nat /\ c.threshold \in Int
         /\ c.scope \subseteq Subjects
BY ConditionsAssumption DEF Condition

LEMMA EmissionFacts ==
  ASSUME NEW c, NEW v, NEW e, NEW now
  PROVE  /\ Emission(c, v, e, now) \in {"alert_fired", "alert_resolved", "nothing"}
         /\ Emission(c, v, e, now) = "alert_fired"
              => e.state # "breached" \/ Elapsed(c, e, now)
         /\ Emission(c, v, e, now) = "alert_resolved" => e.state = "breached"
BY DEF Emission

LEMMA NextEdgeFields ==
  ASSUME NEW c, NEW v, NEW e \in EdgeRow, NEW now \in Nat
  PROVE  LET next == NextEdge(c, v, e, now)
             emit == Emission(c, v, e, now) IN
         /\ next \in EdgeRow
         /\ emit = "alert_fired" => next.state = "breached" /\ next.firedAt = now
         /\ emit # "alert_fired" => next.firedAt = e.firedAt /\ next.episode = e.episode
         /\ emit = "alert_resolved" => next.state = "ok"
         /\ emit = "nothing" => (next.state = "breached" <=> e.state = "breached")
         /\ e.state = "breached" => next.episode = e.episode
         /\ emit = "alert_fired" /\ e.state # "breached" => next.episode = e.episode + 1
         /\ next.state # "none"
<1> DEFINE emit == Emission(c, v, e, now)
           next == NextEdge(c, v, e, now)
<1>1. emit \in {"alert_fired", "alert_resolved", "nothing"}
  BY EmissionFacts
<1>2. next = [state   |-> IF emit = "alert_resolved" THEN "ok"
                          ELSE IF emit = "alert_fired" \/ e.state = "breached" THEN "breached"
                          ELSE "ok",
              firedAt |-> IF emit = "alert_fired" THEN now ELSE e.firedAt,
              episode |-> IF emit = "alert_fired" /\ e.state # "breached" THEN e.episode + 1
                          ELSE e.episode]
  BY DEF NextEdge
<1>3. /\ e.state \in {"none", "ok", "breached"} /\ e.firedAt \in Int /\ e.episode \in Nat
  BY DEF EdgeRow
<1> HIDE DEF emit, next
<1>4. next \in EdgeRow
  BY <1>1, <1>2, <1>3 DEF EdgeRow
<1> QED BY <1>1, <1>2, <1>3, <1>4 DEF emit, next

LEMMA Appended ==
  ASSUME NEW S, NEW q \in Seq(S), NEW n \in S
  PROVE  /\ Append(q, n) \in Seq(S)
         /\ DOMAIN Append(q, n) = DOMAIN q \union {Len(q) + 1}
         /\ Len(q) + 1 \notin DOMAIN q
         /\ \A i \in DOMAIN q : Append(q, n)[i] = q[i] /\ i < Len(q) + 1
         /\ Append(q, n)[Len(q) + 1] = n
         /\ \A i \in DOMAIN q : i \in Nat
BY AppendProperties

LEMMA NoEdgeIsEdge == NoEdge \in EdgeRow
BY DEF NoEdge, EdgeRow

LEMMA IdleFields ==
  /\ DOMAIN Idle = SweepFields
  /\ Idle.pc = "idle" /\ Idle.now = 0 /\ Idle.pools = {} /\ Idle.users = {}
  /\ Idle.latest = [k \in Positions |-> Absent]
  /\ Idle.newest = [k \in Positions |-> Absent]
  /\ Idle.observed = [s \in Markets |-> Absent]
BY DEF Idle, SweepFields

-------------------------------------------------------------------------------
(* What each step leaves in the locals of the job.                         *)

LEMMA JobEnds ==
  ASSUME TypeInv, sweep' = Idle, clock' = clock
  PROVE  JobOK' /\ sweep'.pc = "idle"
<1>1. Absent \in Value /\ clock \in Nat
  BY DEF Value, TypeInv, WorldOK
<1> QED BY <1>1, IdleFields DEF JobOK

LEMMA JobKept ==
  ASSUME TypeInv, sweep' = sweep, clock' \in Nat, clock <= clock'
  PROVE  JobOK'
BY DEF TypeInv, JobOK, WorldOK

LEMMA StartJobFields ==
  ASSUME TypeInv, StartJob
  PROVE  JobOK' /\ sweep'.pc = "refresh"
<1>1. Absent \in Value /\ clock \in Nat
  BY DEF Value, TypeInv, WorldOK
<1>2. Idle.todo = {}
  BY DEF Idle
<1>3. /\ DOMAIN sweep' = SweepFields /\ sweep'.pc = "refresh" /\ sweep'.pools = Pools
      /\ sweep'.now = 0 /\ sweep'.users = {} /\ sweep'.todo = {}
      /\ sweep'.latest = Idle.latest /\ sweep'.newest = Idle.newest
      /\ sweep'.observed = Idle.observed
  BY <1>2, IdleFields DEF StartJob, SweepFields
<1> QED BY <1>1, <1>3, IdleFields DEF JobOK, StartJob, bounds

LEMMA RefreshPoolFields ==
  ASSUME TypeInv, NEW p \in Pools, RefreshPool(p)
  PROVE  JobOK' /\ sweep'.pc = "refresh"
BY DEF TypeInv, JobOK, RefreshPool, SweepFields, WorldOK

LEMMA SkippedFields ==
  ASSUME NEW on, DOMAIN sweep = SweepFields, NEW p,
         sweep' = [sweep EXCEPT !.pools = @ \ {p}, !.partial = on]
  PROVE  /\ DOMAIN sweep' = SweepFields
         /\ sweep'.pools = sweep.pools \ {p}
         /\ \A f \in SweepFields \ {"pools", "partial"} : sweep'[f] = sweep[f]
BY DEF SweepFields

LEMMA SkipPoolFields ==
  ASSUME TypeInv, NEW p \in Pools, SkipPool(p)
  PROVE  JobOK' /\ sweep'.pc = "refresh"
<1>1. DOMAIN sweep = SweepFields /\ sweep' = [sweep EXCEPT !.pools = @ \ {p}, !.partial = TRUE]
  BY Zenon DEF TypeInv, JobOK, SkipPool
<1>2. /\ DOMAIN sweep' = SweepFields
      /\ sweep'.pools = sweep.pools \ {p}
      /\ \A f \in SweepFields \ {"pools", "partial"} : sweep'[f] = sweep[f]
  BY ONLY <1>1, SkippedFields, Zenon
<1>3. \A f \in {"pc", "now", "latest", "newest", "observed", "users", "todo"} :
        f \in SweepFields \ {"pools", "partial"}
  BY DEF SweepFields
<1>4. /\ sweep'.pc = sweep.pc /\ sweep'.now = sweep.now /\ sweep'.latest = sweep.latest
      /\ sweep'.newest = sweep.newest /\ sweep'.observed = sweep.observed
      /\ sweep'.users = sweep.users /\ sweep'.todo = sweep.todo
  BY <1>2, <1>3
<1>5. clock' = clock /\ sweep.pc = "refresh"
  BY Zenon DEF SkipPool
<1> QED BY <1>2, <1>4, <1>5 DEF TypeInv, JobOK

LEMMA LoadFields ==
  ASSUME TypeInv, Load
  PROVE  /\ JobOK' /\ sweep'.pc = "rules" /\ sweep'.now = clock /\ sweep'.todo = {}
         /\ sweep'.loaded = [r \in {q \in RuleIds : Live(q) /\ rules[q].enabled} |-> rules[r]]
<1> DEFINE L == [r \in {q \in RuleIds : Live(q) /\ rules[q].enabled} |-> rules[r]]
           D == [k \in Positions |-> health[k].debt]
           N == [k \in Positions |-> health[k].newest]
<1>1. D \in [Positions -> Value] /\ N \in [Positions -> Value]
  BY DEF TypeInv, TablesOK, HealthRow, Value
<1>2. sweep' = [sweep EXCEPT !.pc = "rules", !.now = clock, !.loaded = L, !.latest = D, !.newest = N]
  BY DEF Load
<1> HIDE DEF L, D, N
<1>3. /\ DOMAIN sweep' = SweepFields /\ sweep'.pc = "rules" /\ sweep'.now = clock
      /\ sweep'.loaded = L /\ sweep'.latest = D /\ sweep'.newest = N
      /\ sweep'.pools = sweep.pools /\ sweep'.observed = sweep.observed
      /\ sweep'.users = sweep.users /\ sweep'.todo = sweep.todo
  BY <1>2 DEF TypeInv, JobOK, SweepFields
<1>4. clock' = clock /\ sweep.pc = "refresh"
  BY DEF Load, bounds
<1>5. JobOK'
  BY <1>1, <1>3, <1>4 DEF TypeInv, JobOK, WorldOK
<1> QED BY <1>3, <1>4, <1>5 DEF L, TypeInv, JobOK

LEMMA NextFamilyFields ==
  ASSUME TypeInv, NextFamily
  PROVE  /\ JobOK' /\ sweep'.pc = "rules" /\ sweep'.now = sweep.now
         /\ sweep'.loaded = sweep.loaded /\ sweep'.todo \subseteq DOMAIN sweep.loaded
<1> DEFINE T == {r \in DOMAIN sweep.loaded :
                   sweep.loaded[r].metric = Families[sweep.family + 1]}
<1>1. sweep' = [sweep EXCEPT !.family = @ + 1, !.observed = market, !.todo = T]
  BY DEF NextFamily
<1>2. T \subseteq DOMAIN sweep.loaded
  OBVIOUS
<1> HIDE DEF T
<1>3. /\ DOMAIN sweep' = SweepFields /\ sweep'.pc = sweep.pc /\ sweep'.now = sweep.now
      /\ sweep'.loaded = sweep.loaded /\ sweep'.latest = sweep.latest
      /\ sweep'.newest = sweep.newest /\ sweep'.pools = sweep.pools
      /\ sweep'.observed = market /\ sweep'.users = sweep.users /\ sweep'.todo = T
  BY <1>1 DEF TypeInv, JobOK, SweepFields
<1>4. clock' = clock /\ sweep.pc = "rules"
  BY DEF NextFamily, bounds
<1> QED BY <1>2, <1>3, <1>4 DEF TypeInv, JobOK, WorldOK

LEMMA BeginRuleFields ==
  ASSUME TypeInv, NEW r, BeginRule(r)
  PROVE  /\ JobOK' /\ sweep'.pc = "rows" /\ sweep'.now = sweep.now
         /\ sweep'.loaded = sweep.loaded /\ sweep'.todo = sweep.todo \ {r}
         /\ sweep'.rule = r /\ sweep'.prior = edges[r] /\ sweep'.rows = Matched(r)
<1>1. sweep' = [sweep EXCEPT !.pc = "rows", !.rule = r, !.todo = @ \ {r},
                             !.prior = edges[r], !.rows = Matched(r)]
  BY DEF BeginRule
<1>2. /\ DOMAIN sweep' = SweepFields /\ sweep'.pc = "rows" /\ sweep'.now = sweep.now
      /\ sweep'.loaded = sweep.loaded /\ sweep'.latest = sweep.latest
      /\ sweep'.newest = sweep.newest /\ sweep'.pools = sweep.pools
      /\ sweep'.observed = sweep.observed /\ sweep'.users = sweep.users
      /\ sweep'.todo = sweep.todo \ {r}
      /\ sweep'.rule = r /\ sweep'.prior = edges[r] /\ sweep'.rows = Matched(r)
  BY <1>1 DEF TypeInv, JobOK, SweepFields
<1>3. clock' = clock
  BY DEF BeginRule, bounds
<1> QED BY <1>2, <1>3 DEF TypeInv, JobOK

LEMMA EndRuleFields ==
  ASSUME TypeInv, EndRule
  PROVE  /\ JobOK' /\ sweep'.pc = "rules" /\ sweep'.now = sweep.now
         /\ sweep'.loaded = sweep.loaded /\ sweep'.todo = sweep.todo
<1>1. /\ DOMAIN sweep' = SweepFields /\ sweep'.pc = "rules" /\ sweep'.now = sweep.now
      /\ sweep'.loaded = sweep.loaded /\ sweep'.latest = sweep.latest
      /\ sweep'.newest = sweep.newest /\ sweep'.pools = sweep.pools
      /\ sweep'.observed = sweep.observed /\ sweep'.users = sweep.users
      /\ sweep'.todo = sweep.todo
  BY DEF EndRule, TypeInv, JobOK, SweepFields
<1>2. clock' = clock
  BY DEF EndRule, bounds
<1> QED BY <1>1, <1>2 DEF TypeInv, JobOK

LEMMA RuleFailsFields ==
  ASSUME TypeInv, RuleFails
  PROVE  /\ JobOK' /\ sweep'.pc = "rules" /\ sweep'.now = sweep.now
         /\ sweep'.loaded = sweep.loaded /\ sweep'.todo = sweep.todo
<1>1. /\ DOMAIN sweep' = SweepFields /\ sweep'.pc = "rules" /\ sweep'.now = sweep.now
      /\ sweep'.loaded = sweep.loaded /\ sweep'.latest = sweep.latest
      /\ sweep'.newest = sweep.newest /\ sweep'.pools = sweep.pools
      /\ sweep'.observed = sweep.observed /\ sweep'.users = sweep.users
      /\ sweep'.todo = sweep.todo
  BY DEF RuleFails, TypeInv, JobOK, SweepFields
<1>2. clock' = clock
  BY DEF RuleFails
<1> QED BY <1>1, <1>2 DEF TypeInv, JobOK

LEMMA NotifyFields ==
  ASSUME TypeInv, Notify
  PROVE  /\ JobOK' /\ sweep'.pc = "rows" /\ sweep'.now = sweep.now
         /\ sweep'.loaded = sweep.loaded /\ sweep'.todo = sweep.todo
         /\ sweep'.rule = sweep.rule /\ sweep'.prior = sweep.prior /\ sweep'.rows = sweep.rows
<1>1. /\ DOMAIN sweep' = SweepFields /\ sweep'.pc = "rows" /\ sweep'.now = sweep.now
      /\ sweep'.loaded = sweep.loaded /\ sweep'.latest = sweep.latest
      /\ sweep'.newest = sweep.newest /\ sweep'.pools = sweep.pools
      /\ sweep'.observed = sweep.observed /\ sweep'.users = sweep.users
      /\ sweep'.todo = sweep.todo
      /\ sweep'.rule = sweep.rule /\ sweep'.prior = sweep.prior /\ sweep'.rows = sweep.rows
  BY DEF Notify, TypeInv, JobOK, SweepFields
<1>2. clock' = clock
  BY DEF Notify, bounds
<1> QED BY <1>1, <1>2 DEF TypeInv, JobOK

LEMMA LoadPoolsFields ==
  ASSUME TypeInv, LoadPools
  PROVE  /\ JobOK' /\ sweep'.pc = "pools" /\ sweep'.now = sweep.now /\ sweep'.last = seen
<1>1. /\ DOMAIN sweep' = SweepFields /\ sweep'.pc = "pools" /\ sweep'.now = sweep.now
      /\ sweep'.latest = sweep.latest /\ sweep'.newest = sweep.newest
      /\ sweep'.observed = sweep.observed /\ sweep'.users = sweep.users
      /\ sweep'.pools = Pools /\ sweep'.last = seen
  BY DEF LoadPools, TypeInv, JobOK, SweepFields
<1>2. clock' = clock
  BY DEF LoadPools, bounds
<1> QED BY <1>1, <1>2 DEF TypeInv, JobOK

LEMMA MissPoolFields ==
  ASSUME TypeInv, NEW p, MissPool(p)
  PROVE  /\ JobOK' /\ sweep'.pc = "pools" /\ sweep'.now = sweep.now
         /\ sweep'.last = sweep.last /\ sweep'.pools = sweep.pools \ {p}
<1>1. /\ DOMAIN sweep' = SweepFields /\ sweep'.pc = "pools" /\ sweep'.now = sweep.now
      /\ sweep'.latest = sweep.latest /\ sweep'.newest = sweep.newest
      /\ sweep'.observed = sweep.observed /\ sweep'.users = sweep.users
      /\ sweep'.pools = sweep.pools \ {p} /\ sweep'.last = sweep.last
  BY DEF MissPool, TypeInv, JobOK, SweepFields
<1>2. clock' = clock
  BY DEF MissPool
<1> QED BY <1>1, <1>2 DEF TypeInv, JobOK

LEMMA EndPoolFields ==
  ASSUME TypeInv, EndPool
  PROVE  /\ JobOK' /\ sweep'.pc = "pools" /\ sweep'.now = sweep.now
         /\ sweep'.last = sweep.last /\ sweep'.pools = sweep.pools
<1>1. /\ DOMAIN sweep' = SweepFields /\ sweep'.pc = "pools" /\ sweep'.now = sweep.now
      /\ sweep'.latest = sweep.latest /\ sweep'.newest = sweep.newest
      /\ sweep'.observed = sweep.observed /\ sweep'.users = sweep.users
      /\ sweep'.pools = sweep.pools /\ sweep'.last = sweep.last
  BY DEF EndPool, TypeInv, JobOK, SweepFields
<1>2. clock' = clock
  BY DEF EndPool, bounds
<1> QED BY <1>1, <1>2 DEF TypeInv, JobOK

LEMMA TellUserFields ==
  ASSUME TypeInv, NEW u, TellUser(u)
  PROVE  /\ JobOK' /\ sweep'.pc = "tell" /\ sweep'.now = sweep.now
         /\ sweep'.last = sweep.last /\ sweep'.pools = sweep.pools
         /\ sweep'.note = sweep.note /\ sweep'.users = sweep.users \ {u}
<1>1. /\ DOMAIN sweep' = SweepFields /\ sweep'.pc = "tell" /\ sweep'.now = sweep.now
      /\ sweep'.latest = sweep.latest /\ sweep'.newest = sweep.newest
      /\ sweep'.observed = sweep.observed /\ sweep'.users = sweep.users \ {u}
      /\ sweep'.pools = sweep.pools /\ sweep'.last = sweep.last /\ sweep'.note = sweep.note
  BY DEF TellUser, TypeInv, JobOK, SweepFields
<1>2. clock' = clock
  BY DEF TellUser, bounds
<1> QED BY <1>1, <1>2 DEF TypeInv, JobOK

LEMMA UpsertRows ==
  ASSUME TypeInv, NEW s, sweep' = [sweep EXCEPT !.rows = @ \ {s}], sweep.pc = "rows",
         clock' = clock
  PROVE  /\ JobOK' /\ sweep'.now = sweep.now /\ sweep'.pc = "rows"
         /\ sweep'.loaded = sweep.loaded /\ sweep'.todo = sweep.todo
         /\ sweep'.rule = sweep.rule /\ sweep'.prior = sweep.prior
         /\ sweep'.rows = sweep.rows \ {s}
<1>1. /\ DOMAIN sweep' = SweepFields /\ sweep'.pc = sweep.pc /\ sweep'.now = sweep.now
      /\ sweep'.loaded = sweep.loaded /\ sweep'.latest = sweep.latest
      /\ sweep'.newest = sweep.newest /\ sweep'.pools = sweep.pools
      /\ sweep'.observed = sweep.observed /\ sweep'.users = sweep.users
      /\ sweep'.todo = sweep.todo /\ sweep'.rule = sweep.rule
      /\ sweep'.prior = sweep.prior /\ sweep'.rows = sweep.rows \ {s}
  BY DEF TypeInv, JobOK, SweepFields
<1> QED BY <1>1 DEF TypeInv, JobOK

LEMMA UpsertNote ==
  ASSUME TypeInv, NEW s, NEW n,
         sweep' = [sweep EXCEPT !.pc = "notify", !.rows = @ \ {s}, !.note = n],
         clock' = clock
  PROVE  /\ JobOK' /\ sweep'.now = sweep.now /\ sweep'.pc = "notify" /\ sweep'.note = n
         /\ sweep'.loaded = sweep.loaded /\ sweep'.todo = sweep.todo
         /\ sweep'.rule = sweep.rule /\ sweep'.prior = sweep.prior
         /\ sweep'.rows = sweep.rows \ {s}
<1>1. /\ DOMAIN sweep' = SweepFields /\ sweep'.pc = "notify" /\ sweep'.now = sweep.now
      /\ sweep'.loaded = sweep.loaded /\ sweep'.latest = sweep.latest
      /\ sweep'.newest = sweep.newest /\ sweep'.pools = sweep.pools
      /\ sweep'.observed = sweep.observed /\ sweep'.users = sweep.users
      /\ sweep'.todo = sweep.todo /\ sweep'.rule = sweep.rule /\ sweep'.note = n
      /\ sweep'.prior = sweep.prior /\ sweep'.rows = sweep.rows \ {s}
  BY DEF TypeInv, JobOK, SweepFields
<1> QED BY <1>1 DEF TypeInv, JobOK

\* The note an upsert leaves to be sent, and the edge it stored.
NoteFor(c, v, e, s, newest) ==
  [rule |-> sweep.rule, about |-> s, kind |-> Emission(c, v, e, sweep.now), at |-> sweep.now,
   episode |-> NextEdge(c, v, e, sweep.now).episode, cooldown |-> c.cooldown,
   newest |-> newest]

LEMMA UpsertFields ==
  ASSUME TypeInv, LoadedOK, PriorFresh, NEW s, Upsert(s)
  PROVE  \E c \in Conditions, v \in Value, newest \in Value :
           LET e == edges[sweep.rule][s] IN
           /\ e \in EdgeRow /\ s \in Subjects /\ sweep.rule \in RuleIds
           /\ edges' = [edges EXCEPT ![sweep.rule][s] = NextEdge(c, v, e, sweep.now)]
           /\ JobOK' /\ sweep'.now = sweep.now
           /\ sweep'.loaded = sweep.loaded /\ sweep'.todo = sweep.todo
           /\ sweep'.rule = sweep.rule /\ sweep'.prior = sweep.prior
           /\ sweep'.rows = sweep.rows \ {s}
           /\ Emission(c, v, e, sweep.now) = "nothing" => sweep'.pc = "rows"
           /\ Emission(c, v, e, sweep.now) # "nothing" =>
                sweep'.pc = "notify" /\ sweep'.note = NoteFor(c, v, e, s, newest)
<1> DEFINE c == sweep.loaded[sweep.rule]
           v == Observation(s)
           e == sweep.prior[s]
           n == IF s \in Positions THEN sweep.newest[s] ELSE v
<1>1. /\ sweep.pc = "rows" /\ s \in sweep.rows /\ Live(sweep.rule) /\ clock' = clock
      /\ edges' = [edges EXCEPT ![sweep.rule][s] = NextEdge(c, v, e, sweep.now)]
      /\ sweep' = IF Emission(c, v, e, sweep.now) = "nothing"
                  THEN [sweep EXCEPT !.rows = @ \ {s}]
                  ELSE [sweep EXCEPT !.pc = "notify", !.rows = @ \ {s},
                                     !.note = NoteFor(c, v, e, s, n)]
  BY DEF Upsert, NoteFor, bounds
<1>2. /\ sweep.rule \in DOMAIN sweep.loaded /\ sweep.rows \subseteq Subjects
      /\ e = edges[sweep.rule][s] /\ DOMAIN sweep.loaded \subseteq RuleIds
      /\ c \in Conditions
  BY <1>1 DEF LoadedOK, PriorFresh
<1>3. s \in Subjects /\ sweep.rule \in RuleIds
  BY <1>1, <1>2
<1>4. e \in EdgeRow
  BY <1>2, <1>3 DEF TypeInv, TablesOK
<1>5. v \in Value /\ n \in Value
  BY <1>3 DEF TypeInv, JobOK, Observation, Subjects
<1> HIDE DEF c, v, e, n
<1>6. CASE Emission(c, v, e, sweep.now) = "nothing"
  <2>1. sweep' = [sweep EXCEPT !.rows = @ \ {s}]
    BY <1>1, <1>6
  <2>2. /\ JobOK' /\ sweep'.now = sweep.now /\ sweep'.pc = "rows"
        /\ sweep'.loaded = sweep.loaded /\ sweep'.todo = sweep.todo
        /\ sweep'.rule = sweep.rule /\ sweep'.prior = sweep.prior
        /\ sweep'.rows = sweep.rows \ {s}
    BY <2>1, <1>1, UpsertRows
  <2> QED BY <2>2, <1>1, <1>2, <1>3, <1>4, <1>5, <1>6
<1>7. CASE Emission(c, v, e, sweep.now) # "nothing"
  <2>1. PICK m : m = NoteFor(c, v, e, s, n)
    OBVIOUS
  <2>2. sweep' = [sweep EXCEPT !.pc = "notify", !.rows = @ \ {s}, !.note = m]
    BY <2>1, <1>1, <1>7
  <2>3. /\ JobOK' /\ sweep'.now = sweep.now /\ sweep'.pc = "notify" /\ sweep'.note = m
        /\ sweep'.loaded = sweep.loaded /\ sweep'.todo = sweep.todo
        /\ sweep'.rule = sweep.rule /\ sweep'.prior = sweep.prior
        /\ sweep'.rows = sweep.rows \ {s}
    BY <2>2, <1>1, UpsertNote
  <2> QED BY <2>1, <2>3, <1>1, <1>2, <1>3, <1>4, <1>5, <1>7
<1> QED BY <1>6, <1>7

LEMMA CheckedFields ==
  ASSUME TypeInv, NEW p, sweep' = [sweep EXCEPT !.pools = @ \ {p}], sweep.pc = "pools",
         clock' = clock
  PROVE  /\ JobOK' /\ sweep'.now = sweep.now /\ sweep'.pc = "pools"
         /\ sweep'.pools = sweep.pools \ {p} /\ sweep'.last = sweep.last
<1>1. /\ DOMAIN sweep' = SweepFields /\ sweep'.pc = sweep.pc /\ sweep'.now = sweep.now
      /\ sweep'.latest = sweep.latest /\ sweep'.newest = sweep.newest
      /\ sweep'.observed = sweep.observed /\ sweep'.users = sweep.users
      /\ sweep'.pools = sweep.pools \ {p} /\ sweep'.last = sweep.last
  BY DEF TypeInv, JobOK, SweepFields
<1> QED BY <1>1 DEF TypeInv, JobOK

LEMMA ChangedFields ==
  ASSUME TypeInv, NEW p, NEW n, NEW us, us \subseteq Users,
         sweep' = [sweep EXCEPT !.pc = "tell", !.pools = @ \ {p}, !.users = us, !.note = n],
         clock' = clock
  PROVE  /\ JobOK' /\ sweep'.now = sweep.now /\ sweep'.pc = "tell" /\ sweep'.note = n
         /\ sweep'.users = us
         /\ sweep'.pools = sweep.pools \ {p} /\ sweep'.last = sweep.last
<1>1. /\ DOMAIN sweep' = SweepFields /\ sweep'.pc = "tell" /\ sweep'.now = sweep.now
      /\ sweep'.latest = sweep.latest /\ sweep'.newest = sweep.newest
      /\ sweep'.observed = sweep.observed /\ sweep'.users = us /\ sweep'.note = n
      /\ sweep'.pools = sweep.pools \ {p} /\ sweep'.last = sweep.last
  BY DEF TypeInv, JobOK, SweepFields
<1> QED BY <1>1 DEF TypeInv, JobOK

\* The news of a pool whose status changed.
NewsFor(p, from, to, episode) ==
  [rule |-> None, about |-> <<"pool", p>>,
   kind |-> IF to = "Active" THEN "alert_resolved" ELSE "alert_fired",
   at |-> sweep.now, episode |-> episode, from |-> from, to |-> to, user |-> None]

LEMMA CheckPoolFields ==
  ASSUME TypeInv, LastFresh, NEW p \in Pools, CheckPool(p)
  PROVE  LET from == seen[p].label
             to == status[p]
             outcome == diffPoolStatus(from, to)
         IN /\ sweep.pc = "pools" /\ JobOK' /\ sweep'.now = sweep.now
            /\ sweep'.pools = sweep.pools \ {p} /\ sweep'.last = sweep.last
            /\ seen' = [seen EXCEPT ![p] =
                 [label |-> to,
                  changedAt |-> IF outcome = "unchanged" THEN seen[p].changedAt ELSE sweep.now,
                  changes |-> seen[p].changes + (IF outcome = "changed" THEN 1 ELSE 0)]]
            /\ outcome # "changed" => sweep'.pc = "pools"
            /\ outcome = "changed" =>
                 /\ sweep'.pc = "tell" /\ sweep'.users = Holders[p]
                 /\ sweep'.note = NewsFor(p, from, to, seen[p].changes + 1)
<1> DEFINE from == seen[p].label
           to == status[p]
           outcome == diffPoolStatus(from, to)
           next == [label |-> to,
                    changedAt |-> IF outcome = "unchanged" THEN seen[p].changedAt ELSE sweep.now,
                    changes |-> seen[p].changes + (IF outcome = "changed" THEN 1 ELSE 0)]
           n == NewsFor(p, from, to, next.changes)
<1>1. sweep.pc = "pools" /\ p \in sweep.pools /\ clock' = clock
  BY DEF CheckPool, bounds
<1>2. sweep.last[p] = seen[p]
  BY <1>1 DEF LastFresh
<1>3. /\ seen' = [seen EXCEPT ![p] = next]
      /\ sweep' = IF outcome # "changed" THEN [sweep EXCEPT !.pools = @ \ {p}]
                  ELSE [sweep EXCEPT !.pc = "tell", !.pools = @ \ {p}, !.users = Holders[p],
                                     !.note = n]
  BY <1>2 DEF CheckPool, NewsFor
<1>4. Holders[p] \subseteq Users
  BY DataAssumption
<1>5. outcome = "changed" => next.changes = seen[p].changes + 1
  OBVIOUS
<1>6. CASE outcome = "changed"
  <2>1. sweep' = [sweep EXCEPT !.pc = "tell", !.pools = @ \ {p}, !.users = Holders[p], !.note = n]
    BY <1>3, <1>6
  <2> HIDE DEF n
  <2>2. /\ JobOK' /\ sweep'.now = sweep.now /\ sweep'.pc = "tell" /\ sweep'.note = n
        /\ sweep'.users = Holders[p]
        /\ sweep'.pools = sweep.pools \ {p} /\ sweep'.last = sweep.last
    BY <2>1, <1>1, <1>4, ChangedFields
  <2> QED BY <2>2, <1>1, <1>3, <1>5, <1>6 DEF n
<1>7. CASE outcome # "changed"
  <2>1. sweep' = [sweep EXCEPT !.pools = @ \ {p}]
    BY <1>3, <1>7
  <2>2. /\ JobOK' /\ sweep'.now = sweep.now /\ sweep'.pc = "pools"
        /\ sweep'.pools = sweep.pools \ {p} /\ sweep'.last = sweep.last
    BY <2>1, <1>1, CheckedFields
  <2> QED BY <2>2, <1>1, <1>3, <1>7
<1> QED BY <1>6, <1>7

-------------------------------------------------------------------------------
(* What a step that leaves the tables alone preserves.                     *)

LEMMA StoredKept ==
  ASSUME TypeInv, UNCHANGED <<edges, seen>>, NEW t, NEW t1, t \in Nat, t1 \in Nat, t <= t1,
         StoredBy(t)
  PROVE  (\A r \in RuleIds, s \in Subjects : edges'[r][s].firedAt <= t1)
         /\ (\A p \in Pools : seen'[p].changedAt <= t1)
<1>1. \A r \in RuleIds, s \in Subjects : edges[r][s].firedAt \in Int
  BY DEF TypeInv, TablesOK, EdgeRow
<1>2. \A p \in Pools : seen[p].changedAt \in Int
  BY DEF TypeInv, TablesOK, SeenRow
<1> QED BY <1>1, <1>2 DEF StoredBy

LEMMA TimelyKept ==
  ASSUME TypeInv, Timely, UNCHANGED <<edges, seen>>, clock' \in Nat, clock <= clock',
         \/ sweep'.pc \in {"idle", "refresh"}
         \/ sweep'.now = clock'
         \/ /\ sweep.pc \in {"rules", "rows", "notify", "pools", "tell"}
            /\ sweep'.now = sweep.now
  PROVE  Timely'
<1>1. StoredBy(clock) /\ clock \in Nat
  BY DEF Timely, TypeInv, WorldOK
<1>2. StoredBy(clock')
  BY <1>1, StoredKept DEF StoredBy
<1>3. StoredBy(clock)'
  BY <1>1, StoredKept DEF StoredBy
<1>4. ASSUME sweep'.pc \in {"rules", "rows", "notify", "pools", "tell"}
      PROVE  StoredBy(sweep.now)'
  <2>1. CASE sweep'.now = clock'
    BY <2>1, <1>3 DEF StoredBy
  <2>2. CASE sweep.pc \in {"rules", "rows", "notify", "pools", "tell"} /\ sweep'.now = sweep.now
    <3>1. StoredBy(sweep.now)
      BY <2>2 DEF Timely
    <3> QED BY <3>1, <2>2 DEF StoredBy
  <2> QED BY <1>4, <2>1, <2>2
<1> QED BY <1>3, <1>4 DEF Timely

LEMMA FeedKept ==
  ASSUME UNCHANGED <<rules, edges, feed, seen>>
  PROVE  (Orphanless => Orphanless') /\ (FeedInv => FeedInv')
<1>1. Orphanless => Orphanless'
  BY DEF Orphanless, Live
<1>2. RuleNotes' = RuleNotes /\ PoolNotes' = PoolNotes
  BY DEF RuleNotes, PoolNotes
<1>3. FeedBacked => FeedBacked'
  BY <1>2 DEF FeedBacked
<1>4. NoRepeatedAlert => NoRepeatedAlert'
  BY <1>2 DEF NoRepeatedAlert
<1>5. PoolNewsIsNews => PoolNewsIsNews'
  BY <1>2 DEF PoolNewsIsNews
<1> QED BY <1>1, <1>3, <1>4, <1>5 DEF FeedInv

LEMMA UntoldKept ==
  ASSUME UNCHANGED <<edges, feed>>
  PROVE  Untold' = Untold
<1>1. RuleNotes' = RuleNotes
  BY DEF RuleNotes
<1>2. \A r, s : Told(r, s)' = Told(r, s)
  BY <1>1 DEF Told
<1> QED BY <1>2 DEF Untold

LEMMA PendingFinite ==
  /\ IsFiniteSet(Pending) /\ Cardinality(Pending) \in Nat /\ Cardinality(Pending) <= 1
  /\ sweep.pc # "notify" => Pending = {}
  /\ sweep.pc = "notify" => Pending = {<<sweep.rule, sweep.note.about>>}
<1>1. PICK x : x = <<sweep.rule, sweep.note.about>>
  OBVIOUS
<1>2. IsFiniteSet({x}) /\ Cardinality({x}) = 1
  BY FS_Singleton
<1>3. Pending = IF sweep.pc = "notify" THEN {x} ELSE {}
  BY <1>1 DEF Pending
<1> QED BY <1>1, <1>2, <1>3, FS_EmptySet

LEMMA LossLess ==
  ASSUME NEW U, NEW P, NEW V, NEW n \in Nat, NEW n1 \in Nat, IsFiniteSet(U),
         Cardinality(U \ P) <= n, n <= n1, V \subseteq U \ P
  PROVE  IsFiniteSet(V) /\ Cardinality(V) <= n1
<1>1. IsFiniteSet(U \ P)
  BY FS_Subset, U \ P \subseteq U
<1>2. IsFiniteSet(V) /\ Cardinality(V) <= Cardinality(U \ P)
  BY <1>1, FS_Subset
<1> QED BY <1>1, <1>2, FS_CardinalityType

LEMMA LossMore ==
  ASSUME NEW U, NEW P, NEW V, NEW n \in Nat, IsFiniteSet(U), IsFiniteSet(P),
         Cardinality(P) <= 1, Cardinality(U \ P) <= n, V \subseteq U
  PROVE  IsFiniteSet(V) /\ Cardinality(V) <= n + 1
<1>1. IsFiniteSet(U \ P)
  BY FS_Subset, U \ P \subseteq U
<1>2. /\ IsFiniteSet((U \ P) \union P)
      /\ Cardinality((U \ P) \union P) <= Cardinality(U \ P) + Cardinality(P)
  <2>1. IsFiniteSet((U \ P) \union P) /\ IsFiniteSet((U \ P) \intersect P)
        /\ Cardinality((U \ P) \union P)
             = Cardinality(U \ P) + Cardinality(P) - Cardinality((U \ P) \intersect P)
    BY <1>1, FS_Union, FS_Intersection
  <2> QED BY <2>1, <1>1, FS_CardinalityType
<1>3. V \subseteq (U \ P) \union P
  OBVIOUS
<1>4. IsFiniteSet(V) /\ Cardinality(V) <= Cardinality((U \ P) \union P)
  BY <1>2, <1>3, FS_Subset
<1> QED BY <1>1, <1>2, <1>4, FS_CardinalityType

LEMMA LossKept ==
  ASSUME LossInv, UNCHANGED <<edges, feed>>, faults \in Nat, faults' \in Nat,
         faults <= faults', Untold \intersect Pending \subseteq Pending'
  PROVE  LossInv'
<1>1. Untold' = Untold
  BY UntoldKept
<1>2. Untold' \ Pending' \subseteq Untold \ Pending
  BY <1>1
<1>3. IsFiniteSet(Untold) /\ Cardinality(Untold \ Pending) <= faults
  BY DEF LossInv
<1>4. Cardinality(Untold' \ Pending') <= faults'
  BY <1>2, <1>3, LossLess
<1> QED BY <1>1, <1>3, <1>4 DEF LossInv

LEMMA LossByFault ==
  ASSUME LossInv, UNCHANGED <<edges, feed>>, faults \in Nat, faults' = faults + 1
  PROVE  LossInv'
<1>1. Untold' = Untold
  BY UntoldKept
<1>2. Untold' \ Pending' \subseteq Untold
  BY <1>1
<1>3. IsFiniteSet(Untold) /\ Cardinality(Untold \ Pending) <= faults
  BY DEF LossInv
<1>4. IsFiniteSet(Pending) /\ Cardinality(Pending) <= 1
  BY PendingFinite
<1>5. Cardinality(Untold' \ Pending') <= faults + 1
  BY <1>2, <1>3, <1>4, LossMore
<1> QED BY <1>1, <1>3, <1>5 DEF LossInv

\* The notifications a holder has of a pool, and the one due to him.
Heard(p, u) == {i \in PoolNotes : feed[i].about = <<"pool", p>> /\ feed[i].user = u}
Due(p, u) ==
  IF sweep.pc = "tell" /\ sweep.note.about[2] = p /\ u \in sweep.users THEN 1 ELSE 0

LEMMA ChangesToldDef ==
  ChangesAreTold <=> \A p \in Pools : \A u \in Holders[p] :
    seen[p].changes <= Cardinality(Heard(p, u)) + Due(p, u) + faults
BY DEF ChangesAreTold, Heard, Due

LEMMA HeardFinite ==
  ASSUME TypeInv, NEW p, NEW u
  PROVE  IsFiniteSet(Heard(p, u)) /\ Cardinality(Heard(p, u)) \in Nat
<1>1. DOMAIN feed = 1 .. Len(feed) /\ Len(feed) \in Nat
  BY DEF TypeInv, TablesOK
<1>2. IsFiniteSet(DOMAIN feed)
  BY <1>1, FS_Interval
<1>3. Heard(p, u) \subseteq DOMAIN feed
  BY DEF Heard, PoolNotes
<1> QED BY <1>2, <1>3, FS_Subset, FS_CardinalityType

LEMMA ChangesKept ==
  ASSUME TypeInv, ChangesAreTold, UNCHANGED <<seen, feed>>, faults' \in Nat,
         \/ faults <= faults' /\ \A p \in Pools : \A u : Due(p, u) = 1 => Due(p, u)' = 1
         \/ faults' = faults + 1
  PROVE  ChangesAreTold'
<1>1. \A p \in Pools : seen[p].changes \in Nat
  BY DEF TypeInv, TablesOK, SeenRow
<1>2. faults \in Nat
  BY DEF TypeInv, WorldOK
<1>3. SUFFICES ASSUME NEW p \in Pools, NEW u \in Holders[p]
               PROVE  seen'[p].changes <= Cardinality(Heard(p, u)') + Due(p, u)' + faults'
  BY DEF ChangesAreTold, Heard, Due
<1>4. Heard(p, u)' = Heard(p, u) /\ seen' = seen
  BY DEF Heard, PoolNotes
<1>5. seen[p].changes <= Cardinality(Heard(p, u)) + Due(p, u) + faults
  BY ChangesToldDef
<1>6. Due(p, u) \in {0, 1} /\ Due(p, u)' \in {0, 1}
  BY DEF Due
<1>7. Cardinality(Heard(p, u)) \in Nat
  BY HeardFinite
<1> QED BY <1>1, <1>2, <1>4, <1>5, <1>6, <1>7

-------------------------------------------------------------------------------
(* The steps of the job that leave the rules, the edges, the feed and the  *)
(* pools' state as they are.                                               *)

quiet == <<rules, edges, feed, seen>>

LEMMA WorldKept ==
  ASSUME TypeInv, UNCHANGED <<world, clock>>, faults' = faults \/ faults' = faults + 1
  PROVE  /\ WorldOK' /\ faults \in Nat /\ faults' \in Nat /\ faults <= faults'
         /\ clock' \in Nat /\ clock <= clock'
BY DEF TypeInv, WorldOK, world

LEMMA TablesKept ==
  ASSUME TypeInv, UNCHANGED quiet, health' \in [Positions -> HealthRow]
  PROVE  TablesOK'
BY DEF TypeInv, TablesOK, quiet

LEMMA WriteHealthOK ==
  ASSUME TypeInv, NEW ks, WriteHealth(ks)
  PROVE  health' \in [Positions -> HealthRow]
<1>1. \A k \in Positions : Snapshot(k) \in HealthRow
  BY DEF TypeInv, TablesOK, WorldOK, Snapshot, HealthRow, Value
<1>2. health \in [Positions -> HealthRow]
  BY DEF TypeInv, TablesOK
<1> QED BY <1>1, <1>2 DEF WriteHealth

LEMMA HealthKept ==
  ASSUME TypeInv, UNCHANGED health
  PROVE  health' \in [Positions -> HealthRow]
BY DEF TypeInv, TablesOK

LEMMA NewSweep ==
  ASSUME IInv, UNCHANGED quiet, UNCHANGED <<world, clock>>,
         health' \in [Positions -> HealthRow], JobOK', sweep'.pc \in {"idle", "refresh"},
         \/ faults' = faults /\ sweep.pc # "notify" /\ (sweep.pc = "tell" => sweep.users = {})
         \/ faults' = faults + 1
  PROVE  IInv'
<1>1. TypeInv /\ Orphanless /\ Timely /\ FeedInv /\ LossInv /\ ChangesAreTold
  BY DEF IInv, RuleInv
<1>2. /\ WorldOK' /\ faults \in Nat /\ faults' \in Nat /\ faults <= faults'
      /\ clock' \in Nat /\ clock <= clock'
  BY <1>1, WorldKept
<1>3. TypeInv'
  BY <1>1, <1>2, TablesKept DEF TypeInv
<1>4. LoadedOK' /\ PriorFresh' /\ NoteOK' /\ LastFresh' /\ TellOK'
  BY DEF LoadedOK, PriorFresh, NoteOK, LastFresh, TellOK
<1>5. Orphanless' /\ FeedInv'
  BY <1>1, FeedKept DEF quiet
<1>6. Timely'
  BY <1>1, <1>2, TimelyKept DEF quiet
<1>7. LossInv'
  <2>1. CASE faults' = faults + 1
    BY <2>1, <1>1, <1>2, LossByFault DEF quiet
  <2>2. CASE sweep.pc # "notify"
    <3>1. Pending = {}
      BY <2>2, PendingFinite
    <3> QED BY <3>1, <1>1, <1>2, LossKept DEF quiet
  <2> QED BY <2>1, <2>2
<1>8. ChangesAreTold'
  <2>1. CASE faults' = faults + 1
    BY <2>1, <1>1, <1>2, ChangesKept DEF quiet
  <2>2. CASE sweep.pc = "tell" => sweep.users = {}
    <3>1. \A p \in Pools : \A u : Due(p, u) # 1
      BY <2>2 DEF Due
    <3> QED BY <3>1, <1>1, <1>2, ChangesKept DEF quiet
  <2> QED BY <2>1, <2>2
<1> QED BY <1>3, <1>4, <1>5, <1>6, <1>7, <1>8 DEF IInv, RuleInv, PoolInv

LEMMA StartJobInd == ASSUME IInv, StartJob PROVE IInv'
<1>1. TypeInv
  BY DEF IInv
<1>2. JobOK' /\ sweep'.pc = "refresh"
  BY <1>1, StartJobFields
<1>3. /\ UNCHANGED quiet /\ UNCHANGED <<world, clock>> /\ UNCHANGED health
      /\ faults' = faults /\ sweep.pc = "idle"
  BY DEF StartJob, quiet, tables, bounds
<1> QED BY <1>1, <1>2, <1>3, HealthKept, NewSweep

LEMMA RefreshPoolInd == ASSUME IInv, NEW p \in Pools, RefreshPool(p) PROVE IInv'
<1>1. TypeInv
  BY DEF IInv
<1>2. JobOK' /\ sweep'.pc = "refresh"
  BY <1>1, RefreshPoolFields
<1>3. PICK ws \in SUBSET Wallets :
        /\ WriteHealth(ws \X {p})
        /\ faults' = IF ws = Wallets THEN faults ELSE faults + 1
  BY DEF RefreshPool
<1>4. /\ UNCHANGED quiet /\ UNCHANGED <<world, clock>> /\ sweep.pc = "refresh"
  BY DEF RefreshPool, quiet
<1>5. health' \in [Positions -> HealthRow]
  BY <1>1, <1>3, WriteHealthOK
<1> QED BY <1>2, <1>3, <1>4, <1>5, NewSweep

LEMMA SkipPoolInd == ASSUME IInv, NEW p \in Pools, SkipPool(p) PROVE IInv'
<1>1. TypeInv
  BY DEF IInv
<1>2. JobOK' /\ sweep'.pc = "refresh"
  BY <1>1, SkipPoolFields
<1>3. /\ UNCHANGED quiet /\ UNCHANGED <<world, clock>> /\ UNCHANGED health
      /\ faults' = faults + 1
  BY Zenon DEF SkipPool, quiet, tables
<1> QED BY <1>1, <1>2, <1>3, HealthKept, NewSweep

LEMMA JobEndInd ==
  ASSUME IInv, AbortJob \/ PoolsFail \/ EndJob \/ Crash
  PROVE  IInv'
<1>1. TypeInv
  BY DEF IInv
<1>2. sweep' = Idle /\ clock' = clock
  BY DEF AbortJob, PoolsFail, EndJob, Crash, bounds
<1>3. JobOK' /\ sweep'.pc = "idle"
  BY <1>1, <1>2, JobEnds
<1>4. UNCHANGED quiet /\ UNCHANGED <<world, clock>> /\ UNCHANGED health
  BY DEF AbortJob, PoolsFail, EndJob, Crash, quiet, tables, bounds
<1>5. \/ faults' = faults /\ sweep.pc # "notify" /\ (sweep.pc = "tell" => sweep.users = {})
      \/ faults' = faults + 1
  BY DEF AbortJob, PoolsFail, EndJob, Crash, bounds
<1> QED BY <1>1, <1>3, <1>4, <1>5, HealthKept, NewSweep

LEMMA OutsideInd ==
  ASSUME IInv, UNCHANGED quiet, UNCHANGED <<sweep, faults>>,
         health' \in [Positions -> HealthRow], WorldOK', clock <= clock'
  PROVE  IInv'
<1>1. TypeInv /\ RuleInv /\ Timely /\ PoolInv /\ FeedInv /\ LossInv /\ ChangesAreTold
  BY DEF IInv
<1>2. clock' \in Nat /\ faults \in Nat /\ faults' \in Nat /\ faults <= faults'
  BY <1>1 DEF TypeInv, WorldOK
<1>3. TypeInv'
  <2>1. TablesOK'
    BY <1>1, TablesKept
  <2>2. JobOK'
    BY <1>1, <1>2, JobKept
  <2> QED BY <2>1, <2>2 DEF TypeInv
<1>4. Orphanless' /\ FeedInv'
  BY <1>1, FeedKept DEF quiet, RuleInv
<1>5. LoadedOK' /\ PriorFresh' /\ NoteOK' /\ LastFresh' /\ TellOK'
  BY <1>1 DEF RuleInv, PoolInv, LoadedOK, PriorFresh, NoteOK, LastFresh, TellOK, quiet, Live,
              RuleNotes, PoolNotes
<1>6. Timely'
  <2>1. StoredBy(clock) /\ clock \in Nat
    BY <1>1 DEF Timely, TypeInv, WorldOK
  <2>2. StoredBy(clock)'
    BY <1>1, <1>2, <2>1, StoredKept DEF quiet, StoredBy
  <2>3. StoredBy(sweep.now) => StoredBy(sweep.now)'
    BY DEF quiet, StoredBy
  <2> QED BY <1>1, <2>2, <2>3 DEF Timely
<1>7. LossInv'
  <2>1. Pending' = Pending
    BY DEF Pending
  <2> QED BY <2>1, <1>1, <1>2, LossKept DEF quiet
<1>8. ChangesAreTold'
  <2>1. \A p \in Pools : \A u : Due(p, u)' = Due(p, u)
    BY DEF Due
  <2> QED BY <2>1, <1>1, <1>2, ChangesKept DEF quiet
<1> QED BY <1>3, <1>4, <1>5, <1>6, <1>7, <1>8 DEF IInv, RuleInv, PoolInv

LEMMA MoveInd == ASSUME IInv, Move PROVE IInv'
<1>1. TypeInv
  BY DEF IInv
<1>2. UNCHANGED quiet /\ UNCHANGED <<sweep, faults, clock, health>>
  BY DEF Move, quiet, tables
<1>3. WorldOK'
  BY <1>1, <1>2, DataAssumption DEF TypeInv, WorldOK, Move, Value
<1>4. clock <= clock'
  BY <1>1, <1>2 DEF TypeInv, WorldOK
<1> QED BY <1>1, <1>2, <1>3, <1>4, HealthKept, OutsideInd

LEMMA TickInd == ASSUME IInv, Tick PROVE IInv'
<1>1. TypeInv
  BY DEF IInv
<1>2. UNCHANGED quiet /\ UNCHANGED <<sweep, faults, world, health>> /\ clock' = clock + 1
  BY DEF Tick, quiet, tables
<1>3. WorldOK' /\ clock <= clock'
  BY <1>1, <1>2 DEF TypeInv, WorldOK, world
<1> QED BY <1>1, <1>2, <1>3, HealthKept, OutsideInd

LEMMA RefreshWalletInd == ASSUME IInv, NEW w \in Wallets, RefreshWallet(w) PROVE IInv'
<1>1. TypeInv
  BY DEF IInv
<1>2. UNCHANGED quiet /\ UNCHANGED <<sweep, faults, world, clock>>
  BY DEF RefreshWallet, quiet, bounds
<1>3. WorldOK' /\ clock <= clock'
  BY <1>1, <1>2 DEF TypeInv, WorldOK, world
<1>4. health' \in [Positions -> HealthRow]
  BY <1>1, WriteHealthOK DEF RefreshWallet
<1> QED BY <1>2, <1>3, <1>4, OutsideInd

\* A step that ends between two rules or between two pools.
LEMMA QuietSweep ==
  ASSUME IInv, UNCHANGED quiet, UNCHANGED <<world, clock, health>>, JobOK',
         LoadedOK', PriorFresh', LastFresh', sweep'.pc \in {"rules", "rows", "pools"},
         \/ sweep'.now = clock'
         \/ /\ sweep.pc \in {"rules", "rows", "notify", "pools", "tell"}
            /\ sweep'.now = sweep.now,
         \/ faults' = faults /\ sweep.pc # "notify"
         \/ faults' = faults /\ sweep.pc = "notify" /\ <<sweep.rule, sweep.note.about>> \notin Untold
         \/ faults' = faults + 1,
         sweep.pc = "tell" => sweep.users = {}
  PROVE  IInv'
<1>1. TypeInv /\ Orphanless /\ Timely /\ FeedInv /\ LossInv /\ ChangesAreTold
  BY DEF IInv, RuleInv
<1>2. /\ WorldOK' /\ faults \in Nat /\ faults' \in Nat /\ faults <= faults'
      /\ clock' \in Nat /\ clock <= clock'
  BY <1>1, WorldKept
<1>3. TypeInv'
  BY <1>1, <1>2, TablesKept, HealthKept DEF TypeInv
<1>4. NoteOK' /\ TellOK'
  BY DEF NoteOK, TellOK
<1>5. Orphanless' /\ FeedInv'
  BY <1>1, FeedKept DEF quiet
<1>6. Timely'
  BY <1>1, <1>2, TimelyKept DEF quiet
<1>7. LossInv'
  <2>1. CASE faults' = faults + 1
    BY <2>1, <1>1, <1>2, LossByFault DEF quiet
  <2>2. CASE sweep.pc # "notify"
    <3>1. Pending = {}
      BY <2>2, PendingFinite
    <3> QED BY <3>1, <1>1, <1>2, LossKept DEF quiet
  <2>3. CASE sweep.pc = "notify" /\ <<sweep.rule, sweep.note.about>> \notin Untold
    <3>1. PICK x : x = <<sweep.rule, sweep.note.about>>
      OBVIOUS
    <3>2. Pending = {x} /\ x \notin Untold
      BY <2>3, <3>1, PendingFinite
    <3> QED BY <3>2, <1>1, <1>2, LossKept DEF quiet
  <2> QED BY <2>1, <2>2, <2>3
<1>8. ChangesAreTold'
  <2>1. \A p \in Pools : \A u : Due(p, u) # 1
    BY DEF Due
  <2> QED BY <2>1, <1>1, <1>2, ChangesKept DEF quiet
<1> QED BY <1>3, <1>4, <1>5, <1>6, <1>7, <1>8 DEF IInv, RuleInv, PoolInv

LEMMA LoadInd == ASSUME IInv, Load PROVE IInv'
<1>1. TypeInv
  BY DEF IInv
<1>2. /\ UNCHANGED quiet /\ UNCHANGED <<world, clock, health>>
      /\ faults' = faults /\ sweep.pc = "refresh"
  BY DEF Load, quiet, tables, bounds
<1>3. /\ JobOK' /\ sweep'.pc = "rules" /\ sweep'.now = clock /\ sweep'.todo = {}
      /\ sweep'.loaded = [r \in {q \in RuleIds : Live(q) /\ rules[q].enabled} |-> rules[r]]
  BY <1>1, LoadFields
<1>4. LoadedOK'
  <2>1. DOMAIN sweep'.loaded = {q \in RuleIds : Live(q) /\ rules[q].enabled}
    BY <1>3
  <2>2. ASSUME NEW r \in DOMAIN sweep'.loaded
        PROVE  sweep'.loaded[r] \in Conditions /\ rules'[r] # Unused
    <3>1. r \in RuleIds /\ rules[r] \in Conditions /\ sweep'.loaded[r] = rules[r]
      BY <2>1, <1>3 DEF Live
    <3> QED BY <3>1, <1>2, NamesAssumption DEF quiet
  <2>3. DOMAIN sweep'.loaded \subseteq RuleIds
    BY <2>1
  <2> QED BY <1>3, <2>2, <2>3 DEF LoadedOK
<1>5. PriorFresh' /\ LastFresh'
  BY <1>3 DEF PriorFresh, LastFresh
<1> QED BY <1>2, <1>3, <1>4, <1>5, QuietSweep

LEMMA NextFamilyInd == ASSUME IInv, NextFamily PROVE IInv'
<1>1. TypeInv /\ LoadedOK
  BY DEF IInv, RuleInv
<1>2. /\ UNCHANGED quiet /\ UNCHANGED <<world, clock, health>>
      /\ faults' = faults /\ sweep.pc = "rules"
  BY DEF NextFamily, quiet, tables, bounds
<1>3. /\ JobOK' /\ sweep'.pc = "rules" /\ sweep'.now = sweep.now
      /\ sweep'.loaded = sweep.loaded /\ sweep'.todo \subseteq DOMAIN sweep.loaded
  BY <1>1, NextFamilyFields
<1>4. LoadedOK' /\ PriorFresh' /\ LastFresh'
  BY <1>1, <1>2, <1>3 DEF LoadedOK, PriorFresh, LastFresh, quiet
<1> QED BY <1>2, <1>3, <1>4, QuietSweep

LEMMA BeginRuleInd == ASSUME IInv, NEW r \in RuleIds, BeginRule(r) PROVE IInv'
<1>1. TypeInv /\ LoadedOK
  BY DEF IInv, RuleInv
<1>2. /\ UNCHANGED quiet /\ UNCHANGED <<world, clock, health>>
      /\ faults' = faults /\ sweep.pc = "rules" /\ r \in sweep.todo
  BY DEF BeginRule, quiet, tables, bounds
<1>3. /\ JobOK' /\ sweep'.pc = "rows" /\ sweep'.now = sweep.now
      /\ sweep'.loaded = sweep.loaded /\ sweep'.todo = sweep.todo \ {r}
      /\ sweep'.rule = r /\ sweep'.prior = edges[r] /\ sweep'.rows = Matched(r)
  BY <1>1, BeginRuleFields
<1>4. LoadedOK' /\ LastFresh'
  BY <1>1, <1>2, <1>3 DEF LoadedOK, LastFresh, quiet
<1>5. r \in DOMAIN sweep.loaded /\ sweep.loaded[r] \in Conditions
  BY <1>1, <1>2 DEF LoadedOK
<1>6. Matched(r) \subseteq Subjects
  BY <1>5, ConditionFields DEF Matched
<1>7. edges[r] \in [Subjects -> EdgeRow]
  BY <1>1 DEF TypeInv, TablesOK
<1>8. PriorFresh'
  BY <1>2, <1>3, <1>5, <1>6, <1>7 DEF PriorFresh, quiet
<1> QED BY <1>2, <1>3, <1>4, <1>8, QuietSweep

LEMMA EndRuleInd == ASSUME IInv, EndRule PROVE IInv'
<1>1. TypeInv /\ LoadedOK
  BY DEF IInv, RuleInv
<1>2. /\ UNCHANGED quiet /\ UNCHANGED <<world, clock, health>>
      /\ faults' = faults /\ sweep.pc = "rows"
  BY DEF EndRule, quiet, tables, bounds
<1>3. /\ JobOK' /\ sweep'.pc = "rules" /\ sweep'.now = sweep.now
      /\ sweep'.loaded = sweep.loaded /\ sweep'.todo = sweep.todo
  BY <1>1, EndRuleFields
<1>4. LoadedOK' /\ PriorFresh' /\ LastFresh'
  BY <1>1, <1>2, <1>3 DEF LoadedOK, PriorFresh, LastFresh, quiet
<1> QED BY <1>2, <1>3, <1>4, QuietSweep

\* A rule that is gone has no edge left to tell of.
LEMMA GoneIsTold ==
  ASSUME Orphanless, NEW r \in RuleIds, ~Live(r), NEW s
  PROVE  <<r, s>> \notin Untold
<1>1. SUFFICES ASSUME s \in Subjects PROVE Told(r, s)
  BY DEF Untold
<1>2. edges[r][s] = NoEdge
  BY <1>1 DEF Orphanless
<1> QED BY <1>2 DEF Told, NoEdge

LEMMA RuleFailsInd == ASSUME IInv, RuleFails PROVE IInv'
<1>1. TypeInv /\ LoadedOK /\ Orphanless /\ NoteOK /\ PriorFresh
  BY DEF IInv, RuleInv
<1>2. /\ UNCHANGED quiet /\ UNCHANGED <<world, clock, health>>
      /\ sweep.pc \in {"rows", "notify"}
      /\ \/ (~Live(sweep.rule) \/ sweep.rule \in Poisoned) /\ faults' = faults
         \/ faults' = faults + 1
  BY DEF RuleFails, quiet, tables
<1>3. /\ JobOK' /\ sweep'.pc = "rules" /\ sweep'.now = sweep.now
      /\ sweep'.loaded = sweep.loaded /\ sweep'.todo = sweep.todo
  BY <1>1, RuleFailsFields
<1>4. LoadedOK' /\ PriorFresh' /\ LastFresh'
  BY <1>1, <1>2, <1>3 DEF LoadedOK, PriorFresh, LastFresh, quiet
<1>5. ASSUME sweep.pc = "notify", ~Live(sweep.rule) \/ sweep.rule \in Poisoned
      PROVE  <<sweep.rule, sweep.note.about>> \notin Untold
  <2>1. ~Live(sweep.rule)
    BY <1>1, <1>5 DEF NoteOK
  <2>2. sweep.rule \in RuleIds
    BY <1>1, <1>5 DEF PriorFresh, LoadedOK
  <2> QED BY <1>1, <2>1, <2>2, GoneIsTold
<1>6. \/ faults' = faults /\ sweep.pc # "notify"
      \/ faults' = faults /\ sweep.pc = "notify" /\ <<sweep.rule, sweep.note.about>> \notin Untold
      \/ faults' = faults + 1
  BY <1>2, <1>5
<1> QED BY <1>2, <1>3, <1>4, <1>6, QuietSweep

LEMMA LoadPoolsInd == ASSUME IInv, LoadPools PROVE IInv'
<1>1. TypeInv
  BY DEF IInv
<1>2. /\ UNCHANGED quiet /\ UNCHANGED <<world, clock, health>>
      /\ faults' = faults /\ sweep.pc = "rules"
  BY DEF LoadPools, quiet, tables, bounds
<1>3. JobOK' /\ sweep'.pc = "pools" /\ sweep'.now = sweep.now /\ sweep'.last = seen
  BY <1>1, LoadPoolsFields
<1>4. LoadedOK' /\ PriorFresh' /\ LastFresh'
  BY <1>2, <1>3 DEF LoadedOK, PriorFresh, LastFresh, quiet
<1> QED BY <1>2, <1>3, <1>4, QuietSweep

LEMMA MissPoolInd == ASSUME IInv, NEW p, MissPool(p) PROVE IInv'
<1>1. TypeInv /\ LastFresh
  BY DEF IInv, PoolInv
<1>2. /\ UNCHANGED quiet /\ UNCHANGED <<world, clock, health>>
      /\ faults' = faults + 1 /\ sweep.pc = "pools"
  BY DEF MissPool, quiet, tables
<1>3. /\ JobOK' /\ sweep'.pc = "pools" /\ sweep'.now = sweep.now
      /\ sweep'.last = sweep.last /\ sweep'.pools = sweep.pools \ {p}
  BY <1>1, MissPoolFields
<1>4. LoadedOK' /\ PriorFresh' /\ LastFresh'
  BY <1>1, <1>2, <1>3 DEF LoadedOK, PriorFresh, LastFresh, quiet
<1> QED BY <1>2, <1>3, <1>4, QuietSweep

LEMMA EndPoolInd == ASSUME IInv, EndPool PROVE IInv'
<1>1. TypeInv /\ LastFresh
  BY DEF IInv, PoolInv
<1>2. /\ UNCHANGED quiet /\ UNCHANGED <<world, clock, health>>
      /\ faults' = faults /\ sweep.pc = "tell" /\ sweep.users = {}
  BY DEF EndPool, quiet, tables, bounds
<1>3. /\ JobOK' /\ sweep'.pc = "pools" /\ sweep'.now = sweep.now
      /\ sweep'.last = sweep.last /\ sweep'.pools = sweep.pools
  BY <1>1, EndPoolFields
<1>4. LoadedOK' /\ PriorFresh' /\ LastFresh'
  BY <1>1, <1>2, <1>3 DEF LoadedOK, PriorFresh, LastFresh, quiet
<1> QED BY <1>2, <1>3, <1>4, QuietSweep

-------------------------------------------------------------------------------
(* The users' edits of the rules.                                          *)

LEMMA FeedInvKept ==
  ASSUME UNCHANGED <<edges, feed, seen>>, FeedInv
  PROVE  FeedInv'
<1>1. RuleNotes' = RuleNotes /\ PoolNotes' = PoolNotes
  BY DEF RuleNotes, PoolNotes
<1>2. FeedBacked'
  BY <1>1 DEF FeedBacked, FeedInv
<1>3. NoRepeatedAlert'
  BY <1>1 DEF NoRepeatedAlert, FeedInv
<1>4. PoolNewsIsNews'
  BY <1>1 DEF PoolNewsIsNews, FeedInv
<1> QED BY <1>2, <1>3, <1>4 DEF FeedInv

LEMMA SweepInPlace ==
  ASSUME TypeInv, UNCHANGED <<world, clock, faults, sweep>>, TablesOK'
  PROVE  TypeInv'
<1>1. WorldOK'
  BY DEF TypeInv, WorldOK, world
<1>2. JobOK'
  BY JobKept DEF TypeInv, WorldOK
<1> QED BY <1>1, <1>2 DEF TypeInv

LEMMA TimesInPlace ==
  ASSUME UNCHANGED <<edges, seen, clock, sweep>>, Timely
  PROVE  Timely'
<1>1. StoredBy(clock)' = StoredBy(clock) /\ StoredBy(sweep.now)' = StoredBy(sweep.now)
  BY DEF StoredBy
<1> QED BY <1>1 DEF Timely

LEMMA RowWritten ==
  ASSUME IInv, NEW r \in RuleIds, NEW c \in Conditions, rules[r] = Unused \/ Live(r),
         rules' = [rules EXCEPT ![r] = c],
         UNCHANGED <<edges, feed, health, seen, world, sweep, clock, faults>>
  PROVE  IInv'
<1>1. TypeInv /\ RuleInv /\ Timely /\ PoolInv /\ FeedInv /\ LossInv /\ ChangesAreTold
  BY DEF IInv
<1>2. rules \in [RuleIds -> Conditions \union {Unused, Deleted}]
  BY <1>1 DEF TypeInv, TablesOK
<1>3. rules'[r] = c /\ \A q \in RuleIds \ {r} : rules'[q] = rules[q]
  BY <1>2
<1>4. TypeInv'
  <2>1. TablesOK'
    BY <1>1, <1>2 DEF TypeInv, TablesOK
  <2> QED BY <1>1, <2>1, SweepInPlace
<1>5. Orphanless'
  BY <1>1, <1>3 DEF RuleInv, Orphanless, Live
<1>6. LoadedOK'
  BY <1>1, <1>3, NamesAssumption DEF RuleInv, LoadedOK
<1>7. ASSUME sweep.pc \in {"rows", "notify"}, Live(sweep.rule)'
      PROVE  Live(sweep.rule)
  <2>1. sweep.rule \in RuleIds /\ rules[sweep.rule] # Unused
    BY <1>1, <1>7 DEF RuleInv, PriorFresh, LoadedOK
  <2> QED BY <2>1, <1>3, <1>7 DEF Live
<1>8. PriorFresh'
  BY <1>1, <1>7 DEF RuleInv, PriorFresh
<1>9. RuleNotes' = RuleNotes
  BY DEF RuleNotes
<1>10. NoteOK'
  BY <1>1, <1>7, <1>9 DEF RuleInv, NoteOK
<1>11. PoolInv'
  BY <1>1 DEF PoolInv, LastFresh, TellOK, PoolNotes
<1>12. Timely' /\ FeedInv'
  BY <1>1, TimesInPlace, FeedInvKept
<1>13. LossInv'
  <2>1. Pending' = Pending
    BY DEF Pending
  <2>2. faults \in Nat /\ faults' = faults
    BY <1>1 DEF TypeInv, WorldOK
  <2> QED BY <1>1, <2>1, <2>2, LossKept
<1>14. ChangesAreTold'
  <2>1. \A p \in Pools : \A u : Due(p, u)' = Due(p, u)
    BY DEF Due
  <2>2. faults \in Nat /\ faults' = faults
    BY <1>1 DEF TypeInv, WorldOK
  <2> QED BY <1>1, <2>1, <2>2, ChangesKept
<1> QED BY <1>4, <1>5, <1>6, <1>8, <1>10, <1>11, <1>12, <1>13, <1>14 DEF IInv, RuleInv

LEMMA CreateRuleInd == ASSUME IInv, NEW r \in RuleIds, CreateRule(r) PROVE IInv'
<1>1. PICK c \in Conditions : rules' = [rules EXCEPT ![r] = c]
  BY DEF CreateRule
<1>2. /\ rules[r] = Unused
      /\ UNCHANGED <<edges, feed, health, seen, world, sweep, clock, faults>>
  BY DEF CreateRule
<1> QED BY <1>1, <1>2, RowWritten

LEMMA UpdateRuleInd == ASSUME IInv, NEW r \in RuleIds, UpdateRule(r) PROVE IInv'
<1>1. PICK c \in Conditions : rules' = [rules EXCEPT ![r] = c]
  BY DEF UpdateRule
<1>2. /\ Live(r)
      /\ UNCHANGED <<edges, feed, health, seen, world, sweep, clock, faults>>
  BY DEF UpdateRule
<1> QED BY <1>1, <1>2, RowWritten

\* Deleting a rule takes its name off its notifications and leaves the others.
LEMMA Relabelled ==
  ASSUME TypeInv, NEW r \in RuleIds, DeleteRule(r)
  PROVE  /\ feed' \in Seq(RuleNote \union PoolNote)
         /\ \A i \in DOMAIN feed' : feed'[i].rule # r /\ i \in DOMAIN feed
         /\ \A i \in DOMAIN feed' : feed'[i].rule \in {feed[i].rule, None}
         /\ RuleNotes' = {i \in RuleNotes : feed[i].rule # r}
         /\ \A i \in RuleNotes' : feed'[i] = feed[i]
         /\ PoolNotes' = PoolNotes
         /\ \A i \in PoolNotes : feed'[i] = feed[i]
<1>1. /\ DOMAIN feed = 1 .. Len(feed) /\ Len(feed) \in Nat
      /\ \A i \in DOMAIN feed : feed[i] \in RuleNote \union PoolNote
  BY DEF TypeInv, TablesOK
<1>2. /\ DOMAIN feed' = DOMAIN feed
      /\ \A i \in DOMAIN feed :
           feed'[i] = IF feed[i].rule = r THEN [feed[i] EXCEPT !.rule = None] ELSE feed[i]
      /\ feed' = [i \in 1 .. Len(feed) |->
                    IF feed[i].rule = r THEN [feed[i] EXCEPT !.rule = None] ELSE feed[i]]
  BY <1>1 DEF DeleteRule
<1>3. r # None
  BY NamesAssumption
<1>4. ASSUME NEW i \in DOMAIN feed, feed[i].rule = r
      PROVE  /\ feed[i] \in RuleNote /\ feed[i].about \in Subjects
             /\ feed'[i] \in RuleNote /\ feed'[i].rule = None
             /\ feed'[i].about = feed[i].about
  <2>1. feed[i] \in RuleNote
    BY <1>1, <1>3, <1>4 DEF PoolNote
  <2>2. feed'[i] = [feed[i] EXCEPT !.rule = None]
    BY <1>2, <1>4
  <2> QED BY <2>1, <2>2 DEF RuleNote
<1>5. \A i \in DOMAIN feed : feed'[i] \in RuleNote \union PoolNote
  BY <1>1, <1>2, <1>4
<1>6. feed' \in Seq(RuleNote \union PoolNote)
  <2> DEFINE F(i) == IF feed[i].rule = r THEN [feed[i] EXCEPT !.rule = None] ELSE feed[i]
  <2>1. feed' = [i \in 1 .. Len(feed) |-> F(i)]
    BY <1>2
  <2>2. \A i \in 1 .. Len(feed) : F(i) \in RuleNote \union PoolNote
    BY <1>1, <1>2, <1>5
  <2>3. feed' \in [1 .. Len(feed) -> RuleNote \union PoolNote]
    BY <2>1, <2>2
  <2> HIDE DEF F
  <2> QED BY <2>3, <1>1, SeqDef
<1>7. /\ \A i \in DOMAIN feed' : feed'[i].rule # r /\ i \in DOMAIN feed
      /\ \A i \in DOMAIN feed' : feed'[i].rule \in {feed[i].rule, None}
  BY <1>2, <1>3, <1>4
<1>8. /\ RuleNotes' = {i \in RuleNotes : feed[i].rule # r}
      /\ \A i \in RuleNotes' : feed'[i] = feed[i]
  BY <1>2, <1>4 DEF RuleNotes
<1>9. \A i \in DOMAIN feed : feed[i].rule = r =>
        feed[i].about \notin {"pool"} \X Pools /\ feed'[i].about \notin {"pool"} \X Pools
  BY <1>4, NamesApart
<1>10. /\ PoolNotes' = PoolNotes
       /\ \A i \in PoolNotes : feed'[i] = feed[i]
  BY <1>2, <1>9 DEF PoolNotes
<1> QED BY <1>6, <1>7, <1>8, <1>10

LEMMA DeleteRuleInd == ASSUME IInv, NEW r \in RuleIds, DeleteRule(r) PROVE IInv'
<1>1. TypeInv /\ RuleInv /\ Timely /\ PoolInv /\ FeedInv /\ LossInv /\ ChangesAreTold
  BY DEF IInv
<1>2. /\ rules \in [RuleIds -> Conditions \union {Unused, Deleted}]
      /\ edges \in [RuleIds -> [Subjects -> EdgeRow]]
      /\ clock \in Nat /\ sweep.now \in Nat /\ faults \in Nat
  BY <1>1 DEF TypeInv, TablesOK, WorldOK, JobOK
<1>3. /\ rules' = [rules EXCEPT ![r] = Deleted]
      /\ edges' = [edges EXCEPT ![r] = [s \in Subjects |-> NoEdge]]
      /\ UNCHANGED <<health, seen, world, sweep, clock, faults>> /\ Live(r)
  BY DEF DeleteRule
<1>4. /\ rules'[r] = Deleted /\ \A q \in RuleIds \ {r} : rules'[q] = rules[q]
      /\ edges'[r] = [s \in Subjects |-> NoEdge]
      /\ \A q \in RuleIds \ {r} : edges'[q] = edges[q]
  BY <1>2, <1>3
<1>5. ~Live(r)' /\ \A q \in RuleIds \ {r} : Live(q)' <=> Live(q)
  BY <1>4, NamesAssumption DEF Live
<1>6. /\ feed' \in Seq(RuleNote \union PoolNote)
      /\ \A i \in DOMAIN feed' : feed'[i].rule # r /\ i \in DOMAIN feed
      /\ \A i \in DOMAIN feed' : feed'[i].rule \in {feed[i].rule, None}
      /\ RuleNotes' = {i \in RuleNotes : feed[i].rule # r}
      /\ \A i \in RuleNotes' : feed'[i] = feed[i]
      /\ PoolNotes' = PoolNotes
      /\ \A i \in PoolNotes : feed'[i] = feed[i]
  BY <1>1, Relabelled
<1>7. TypeInv'
  <2>1. [s \in Subjects |-> NoEdge] \in [Subjects -> EdgeRow]
    BY NoEdgeIsEdge
  <2>2. TablesOK'
    BY <1>1, <1>2, <1>3, <1>6, <2>1 DEF TypeInv, TablesOK
  <2> QED BY <1>1, <1>3, <2>2, SweepInPlace
<1>8. Orphanless'
  BY <1>1, <1>4, <1>5, <1>6, NamesAssumption DEF RuleInv, Orphanless
<1>9. LoadedOK'
  BY <1>1, <1>3, <1>4, NamesAssumption DEF RuleInv, LoadedOK
<1>10. ASSUME sweep.pc \in {"rows", "notify"}, Live(sweep.rule)'
       PROVE  Live(sweep.rule) /\ sweep.rule \in RuleIds \ {r}
  <2>1. sweep.rule \in RuleIds
    BY <1>1, <1>10 DEF RuleInv, PriorFresh, LoadedOK
  <2> QED BY <2>1, <1>3, <1>5, <1>10
<1>11. PriorFresh'
  BY <1>1, <1>3, <1>4, <1>10 DEF RuleInv, PriorFresh
<1>12. NoteOK'
  BY <1>1, <1>3, <1>4, <1>6, <1>10 DEF RuleInv, NoteOK
<1>13. PoolInv'
  BY <1>1, <1>3, <1>6 DEF PoolInv, LastFresh, TellOK
<1>14. Timely'
  <2>1. ASSUME NEW t \in Nat, StoredBy(t)
        PROVE  (\A q \in RuleIds, s \in Subjects : edges'[q][s].firedAt <= t)
               /\ (\A p \in Pools : seen'[p].changedAt <= t)
    BY <1>3, <1>4, <2>1 DEF StoredBy, NoEdge
  <2>2. StoredBy(clock) => StoredBy(clock)'
    BY <1>2, <1>3, <2>1 DEF StoredBy
  <2>3. StoredBy(sweep.now) => StoredBy(sweep.now)'
    BY <1>2, <1>3, <2>1 DEF StoredBy
  <2> QED BY <1>1, <1>3, <2>2, <2>3 DEF Timely
<1>15. FeedInv'
  <2>1. ASSUME NEW i \in RuleNotes'
        PROVE  i \in RuleNotes /\ feed'[i] = feed[i] /\ edges'[feed[i].rule] = edges[feed[i].rule]
    <3>1. i \in RuleNotes /\ feed[i].rule # r /\ feed'[i] = feed[i]
      BY <1>6
    <3>2. feed[i].rule \in RuleIds
      BY <3>1, <1>1 DEF RuleNotes, TypeInv, TablesOK, RuleNote, PoolNote
    <3> QED BY <3>1, <3>2, <1>4
  <2>2. FeedBacked'
    BY <1>1, <1>3, <1>6, <2>1 DEF FeedInv, FeedBacked
  <2>3. NoRepeatedAlert'
    BY <1>1, <2>1 DEF FeedInv, NoRepeatedAlert
  <2>4. PoolNewsIsNews'
    BY <1>1, <1>6 DEF FeedInv, PoolNewsIsNews
  <2> QED BY <2>2, <2>3, <2>4 DEF FeedInv
<1>16. LossInv'
  <2>1. ASSUME NEW q \in RuleIds, NEW s \in Subjects, Told(q, s)
        PROVE  Told(q, s)'
    <3>1. CASE q = r
      <4>1. edges'[q][s] = NoEdge
        BY <3>1, <1>4
      <4> QED BY <4>1 DEF Told, NoEdge
    <3>2. CASE q # r
      <4>1. edges'[q][s] = edges[q][s]
        BY <3>2, <1>4
      <4>2. \A i \in RuleNotes : feed[i].rule = q => i \in RuleNotes' /\ feed'[i] = feed[i]
        BY <3>2, <1>6
      <4> QED BY <4>1, <4>2, <2>1 DEF Told
    <3> QED BY <3>1, <3>2
  <2>2. Untold' \subseteq Untold
    BY <2>1 DEF Untold
  <2>3. Pending' = Pending
    BY <1>3 DEF Pending
  <2>4. IsFiniteSet(Untold) /\ Cardinality(Untold \ Pending) <= faults
    BY <1>1 DEF LossInv
  <2>5. IsFiniteSet(Untold')
    BY <2>2, <2>4, FS_Subset
  <2>6. Untold' \ Pending' \subseteq Untold \ Pending
    BY <2>2, <2>3
  <2>7. Cardinality(Untold' \ Pending') <= faults
    <3>1. faults \in Nat /\ faults <= faults
      BY <1>2
    <3> QED BY ONLY <2>4, <2>6, <3>1, LossLess
  <2> QED BY <2>5, <2>7, <1>3 DEF LossInv
<1>17. ChangesAreTold'
  <2>1. \A p, u : Heard(p, u)' = Heard(p, u) /\ Due(p, u)' = Due(p, u)
    BY <1>3, <1>6 DEF Heard, Due
  <2>2. \A p \in Pools : \A u \in Holders[p] :
          seen'[p].changes <= Cardinality(Heard(p, u)') + Due(p, u)' + faults'
    BY <1>1, <1>3, <2>1, ChangesToldDef
  <2> QED BY <2>2 DEF ChangesAreTold, Heard, Due
<1> QED BY <1>7, <1>8, <1>9, <1>11, <1>12, <1>13, <1>14, <1>15, <1>16, <1>17
        DEF IInv, RuleInv

-------------------------------------------------------------------------------
(* The edge is stored, then told.                                          *)

\* What the feed holds of one subject of one rule is no further than its edge.
LEMMA BackedBy ==
  ASSUME TypeInv, FeedInv, NEW i \in RuleNotes
  PROVE  LET n == feed[i]  e == edges[n.rule][n.about] IN
         /\ n \in RuleNote /\ n.rule \in RuleIds /\ n.about \in Subjects
         /\ n.at \in Nat /\ n.episode \in Nat /\ n.kind \in {"alert_fired", "alert_resolved"}
         /\ e \in EdgeRow
         /\ e.episode >= n.episode
         /\ n.kind = "alert_fired" => e.firedAt >= n.at
         /\ n.kind = "alert_resolved" /\ e.episode = n.episode => e.state = "ok"
<1>1. i \in DOMAIN feed /\ feed[i].rule # None
  BY DEF RuleNotes
<1>2. feed[i] \in RuleNote
  BY <1>1 DEF TypeInv, TablesOK, PoolNote
<1>3. feed[i].rule \in RuleIds /\ feed[i].about \in Subjects
  BY <1>1, <1>2 DEF RuleNote
<1>4. edges[feed[i].rule][feed[i].about] \in EdgeRow
  BY <1>3 DEF TypeInv, TablesOK
<1> QED BY <1>2, <1>3, <1>4 DEF FeedInv, FeedBacked, RuleNote

\* An upsert replaces one edge of the current rule, with the sweep's time on it.
LEMMA UpsertEdges ==
  ASSUME TypeInv, NEW q \in RuleIds, NEW s \in Subjects, NEW next,
         edges' = [edges EXCEPT ![q][s] = next]
  PROVE  /\ edges'[q][s] = next
         /\ \A r \in RuleIds, t \in Subjects :
              r # q \/ t # s => edges'[r][t] = edges[r][t]
         /\ next \in EdgeRow => edges' \in [RuleIds -> [Subjects -> EdgeRow]]
BY DEF TypeInv, TablesOK

LEMMA UpsertFeed ==
  ASSUME TypeInv, FeedInv, Timely, NEW c, NEW v, NEW q \in RuleIds, NEW s \in Subjects,
         sweep.pc = "rows",
         edges' = [edges EXCEPT ![q][s] = NextEdge(c, v, edges[q][s], sweep.now)],
         UNCHANGED <<feed, seen>>
  PROVE  FeedInv'
<1> DEFINE e == edges[q][s]
           next == NextEdge(c, v, e, sweep.now)
           emit == Emission(c, v, e, sweep.now)
<1>1. e \in EdgeRow /\ sweep.now \in Nat
  BY DEF TypeInv, TablesOK, JobOK
<1>2. /\ edges'[q][s] = next
      /\ \A r \in RuleIds, t \in Subjects : r # q \/ t # s => edges'[r][t] = edges[r][t]
  <2>1. PICK w : w = next
    OBVIOUS
  <2>2. edges' = [edges EXCEPT ![q][s] = w]
    BY <2>1
  <2>3. /\ edges'[q][s] = w
        /\ \A r \in RuleIds, t \in Subjects : r # q \/ t # s => edges'[r][t] = edges[r][t]
    BY ONLY TypeInv, q \in RuleIds, s \in Subjects, <2>2, UpsertEdges
  <2> QED BY <2>1, <2>3
<1>3. RuleNotes' = RuleNotes /\ PoolNotes' = PoolNotes
  BY DEF RuleNotes, PoolNotes
<1>4. e.firedAt <= sweep.now
  BY DEF Timely, StoredBy
<1>5. ASSUME NEW i \in RuleNotes
      PROVE  LET n == feed[i]  f == edges'[n.rule][n.about] IN
             /\ f.episode >= n.episode
             /\ n.kind = "alert_fired" => f.firedAt >= n.at
             /\ n.kind = "alert_resolved" /\ f.episode = n.episode => f.state = "ok"
  <2> DEFINE n == feed[i]
  <2>1. /\ n.rule \in RuleIds /\ n.about \in Subjects /\ n.at \in Nat /\ n.episode \in Nat
        /\ edges[n.rule][n.about] \in EdgeRow
        /\ edges[n.rule][n.about].episode >= n.episode
        /\ n.kind = "alert_fired" => edges[n.rule][n.about].firedAt >= n.at
        /\ n.kind = "alert_resolved" /\ edges[n.rule][n.about].episode = n.episode
             => edges[n.rule][n.about].state = "ok"
    BY BackedBy
  <2>2. CASE n.rule # q \/ n.about # s
    BY <2>1, <2>2, <1>2
  <2>3. CASE n.rule = q /\ n.about = s
    <3>1. /\ next \in EdgeRow
          /\ emit = "alert_fired" => next.state = "breached" /\ next.firedAt = sweep.now
          /\ emit # "alert_fired" => next.firedAt = e.firedAt /\ next.episode = e.episode
          /\ emit = "alert_resolved" => next.state = "ok"
          /\ emit = "nothing" => (next.state = "breached" <=> e.state = "breached")
          /\ e.state = "breached" => next.episode = e.episode
          /\ emit = "alert_fired" /\ e.state # "breached" => next.episode = e.episode + 1
          /\ next.state # "none"
      BY <1>1, NextEdgeFields
    <3>2. emit \in {"alert_fired", "alert_resolved", "nothing"}
      BY EmissionFacts
    <3>3. emit = "alert_resolved" => e.state = "breached"
      BY EmissionFacts
    <3>4. /\ e.episode \in Nat /\ e.firedAt \in Int /\ next.state \in {"none", "ok", "breached"}
          /\ next.episode \in Nat
      BY <1>1, <3>1 DEF EdgeRow
    <3>5. edges'[n.rule][n.about] = next /\ edges[n.rule][n.about] = e
      BY <2>3, <1>2
    <3>6. /\ e.episode >= n.episode
          /\ n.kind = "alert_fired" => e.firedAt >= n.at
          /\ n.kind = "alert_resolved" /\ e.episode = n.episode => e.state = "ok"
      BY <2>1, <3>5
    <3> HIDE DEF e, next, emit
    <3>7. next.episode >= n.episode
      BY <2>1, <3>1, <3>2, <3>3, <3>4, <3>6
    <3>8. n.kind = "alert_fired" => next.firedAt >= n.at
      BY <2>1, <3>1, <3>2, <3>3, <3>4, <3>6, <1>4, <1>1 DEF e
    <3>9. n.kind = "alert_resolved" /\ next.episode = n.episode => next.state = "ok"
      BY <2>1, <3>1, <3>2, <3>3, <3>4, <3>6
    <3> QED BY <3>5, <3>7, <3>8, <3>9
  <2> QED BY <2>2, <2>3
<1>6. FeedBacked'
  BY <1>3, <1>5 DEF FeedBacked, FeedInv
<1>7. NoRepeatedAlert' /\ PoolNewsIsNews'
  BY <1>3 DEF FeedInv, NoRepeatedAlert, PoolNewsIsNews
<1> QED BY <1>6, <1>7 DEF FeedInv

\* The note in hand repeats nothing the feed holds but a breach whose cooldown is over.
LEMMA UpsertIsNews ==
  ASSUME TypeInv, FeedInv, NEW c \in Conditions, NEW v, NEW q \in RuleIds,
         NEW s \in Subjects,
         NEW i \in RuleNotes, feed[i].rule = q, feed[i].about = s,
         feed[i].episode = NextEdge(c, v, edges[q][s], sweep.now).episode,
         Emission(c, v, edges[q][s], sweep.now) # "nothing"
  PROVE  /\ feed[i].kind = "alert_fired"
         /\ Emission(c, v, edges[q][s], sweep.now) = "alert_fired"
              => sweep.now - feed[i].at >= c.cooldown
<1> DEFINE e == edges[q][s]
           next == NextEdge(c, v, e, sweep.now)
           emit == Emission(c, v, e, sweep.now)
           n == feed[i]
<1>1. e \in EdgeRow /\ sweep.now \in Nat
  BY DEF TypeInv, TablesOK, JobOK
<1>2. /\ emit # "alert_fired" => next.episode = e.episode
      /\ e.state = "breached" => next.episode = e.episode
      /\ emit = "alert_fired" /\ e.state # "breached" => next.episode = e.episode + 1
  BY <1>1, NextEdgeFields
<1>3. /\ emit \in {"alert_fired", "alert_resolved", "nothing"}
      /\ emit = "alert_fired" => e.state # "breached" \/ Elapsed(c, e, sweep.now)
      /\ emit = "alert_resolved" => e.state = "breached"
  BY EmissionFacts
<1>4. /\ n.at \in Nat /\ n.episode \in Nat /\ n.kind \in {"alert_fired", "alert_resolved"}
      /\ e.episode >= n.episode
      /\ n.kind = "alert_fired" => e.firedAt >= n.at
      /\ n.kind = "alert_resolved" /\ e.episode = n.episode => e.state = "ok"
  BY BackedBy
<1>5. e.episode \in Nat /\ e.firedAt \in Int
  BY <1>1 DEF EdgeRow
<1>6. n.episode = next.episode /\ emit # "nothing"
  OBVIOUS
<1>7. c.cooldown \in Nat
  BY ConditionFields
<1> HIDE DEF e, next, emit, n
<1>8. e.state = "breached" /\ next.episode = e.episode
  BY <1>2, <1>3, <1>4, <1>5, <1>6
<1>9. n.kind = "alert_fired"
  BY <1>4, <1>6, <1>8
<1>10. emit = "alert_fired" => sweep.now - n.at >= c.cooldown
  BY <1>1, <1>3, <1>4, <1>5, <1>7, <1>8, <1>9 DEF Elapsed
<1> QED BY <1>9, <1>10 DEF emit, n, e

LEMMA UpsertInd == ASSUME IInv, NEW s \in Subjects, Upsert(s) PROVE IInv'
<1>1. TypeInv /\ RuleInv /\ Timely /\ FeedInv /\ LossInv /\ ChangesAreTold
  BY DEF IInv
<1>2. LoadedOK /\ PriorFresh /\ Orphanless
  BY <1>1 DEF RuleInv
<1> DEFINE K == sweep.rule
           e == edges[K][s]
<1>3. PICK c \in Conditions, v \in Value, newest \in Value :
        /\ e \in EdgeRow /\ s \in Subjects /\ K \in RuleIds
        /\ edges' = [edges EXCEPT ![K][s] = NextEdge(c, v, e, sweep.now)]
        /\ JobOK' /\ sweep'.now = sweep.now
        /\ sweep'.loaded = sweep.loaded /\ sweep'.todo = sweep.todo
        /\ sweep'.rule = sweep.rule /\ sweep'.prior = sweep.prior
        /\ sweep'.rows = sweep.rows \ {s}
        /\ Emission(c, v, e, sweep.now) = "nothing" => sweep'.pc = "rows"
        /\ Emission(c, v, e, sweep.now) # "nothing" =>
             sweep'.pc = "notify" /\ sweep'.note = NoteFor(c, v, e, s, newest)
  BY <1>1, <1>2, UpsertFields
<1> DEFINE next == NextEdge(c, v, e, sweep.now)
           emit == Emission(c, v, e, sweep.now)
<1>4. /\ sweep.pc = "rows" /\ s \in sweep.rows /\ Live(K) /\ K \notin Poisoned
      /\ UNCHANGED <<rules, feed, health, seen, world, clock, faults>>
  BY DEF Upsert, bounds
<1>5. /\ next \in EdgeRow
      /\ emit = "alert_fired" => next.state = "breached" /\ next.firedAt = sweep.now
      /\ emit # "alert_fired" => next.firedAt = e.firedAt /\ next.episode = e.episode
      /\ emit = "alert_resolved" => next.state = "ok"
  <2>1. sweep.now \in Nat
    BY <1>1 DEF TypeInv, JobOK
  <2> QED BY <2>1, <1>3, NextEdgeFields
<1>6. emit \in {"alert_fired", "alert_resolved", "nothing"}
  BY EmissionFacts
<1>7. /\ edges'[K][s] = next
      /\ \A r \in RuleIds, t \in Subjects : r # K \/ t # s => edges'[r][t] = edges[r][t]
      /\ edges' \in [RuleIds -> [Subjects -> EdgeRow]]
  <2>1. PICK w : w = next
    OBVIOUS
  <2>2. edges' = [edges EXCEPT ![K][s] = w] /\ w \in EdgeRow /\ K \in RuleIds
    BY <2>1, <1>3, <1>5
  <2>3. /\ edges'[K][s] = w
        /\ \A r \in RuleIds, t \in Subjects : r # K \/ t # s => edges'[r][t] = edges[r][t]
        /\ edges' \in [RuleIds -> [Subjects -> EdgeRow]]
    BY ONLY <1>1, s \in Subjects, <2>2, UpsertEdges
  <2> QED BY <2>1, <2>3
<1>8. sweep'.pc \in {"rows", "notify"}
  BY <1>3
<1>9. TypeInv'
  <2>1. TablesOK'
    BY <1>1, <1>4, <1>7 DEF TypeInv, TablesOK
  <2>2. WorldOK'
    BY <1>1, <1>4 DEF TypeInv, WorldOK, world
  <2> QED BY <2>1, <2>2, <1>3 DEF TypeInv
<1>10. Orphanless'
  <2>1. \A r \in RuleIds : ~Live(r)' => r # K /\ ~Live(r)
    BY <1>4 DEF Live
  <2> QED BY <2>1, <1>2, <1>4, <1>7 DEF Orphanless
<1>11. LoadedOK'
  BY <1>2, <1>3, <1>4 DEF LoadedOK
<1>12. PriorFresh'
  <2>1. \A t \in sweep'.rows : t \in sweep.rows /\ t # s
    BY <1>3
  <2>2. sweep.rule \in DOMAIN sweep.loaded /\ sweep.rows \subseteq Subjects
        /\ sweep.prior \in [Subjects -> EdgeRow]
        /\ \A t \in sweep.rows : sweep.prior[t] = edges[K][t]
    BY <1>2, <1>4 DEF PriorFresh
  <2>3. \A t \in sweep'.rows : sweep'.prior[t] = edges'[sweep'.rule][t]
    BY <2>1, <2>2, <1>3, <1>7
  <2> HIDE DEF K
  <2> QED BY <2>1, <2>2, <2>3, <1>3 DEF PriorFresh
<1>13. RuleNotes' = RuleNotes
  BY <1>4 DEF RuleNotes
<1>14. NoteOK'
  <2>1. SUFFICES ASSUME sweep'.pc = "notify" PROVE NoteOK'
    BY DEF NoteOK
  <2>2. PICK n : n = NoteFor(c, v, e, s, newest)
    OBVIOUS
  <2>3. sweep'.note = n /\ emit # "nothing"
    BY <2>1, <2>2, <1>3
  <2>4. /\ n = [rule |-> K, about |-> s, kind |-> emit, at |-> sweep.now,
                episode |-> next.episode, cooldown |-> c.cooldown, newest |-> newest]
    BY <2>2 DEF NoteFor
  <2>5. /\ n.rule = K /\ n.about = s /\ n.kind = emit /\ n.at = sweep.now
        /\ n.episode = next.episode /\ n.cooldown = c.cooldown
    BY <2>4
  <2>6. n \in RuleNote
    <3>1. K \in RuleIds /\ sweep.now \in Nat /\ next.episode \in Nat /\ c.cooldown \in Nat
          /\ newest \in Value /\ emit \in {"alert_fired", "alert_resolved"}
      BY <1>1, <1>3, <1>5, <1>6, <2>3, ConditionFields DEF TypeInv, JobOK, EdgeRow
    <3> HIDE DEF K, next, emit
    <3> QED BY <3>1, <2>4 DEF RuleNote
  <2>7. ASSUME NEW i \in RuleNotes, feed[i].rule = K, feed[i].about = s,
               feed[i].episode = n.episode
        PROVE  /\ feed[i].kind = "alert_fired"
               /\ n.kind = "alert_fired" => n.at - feed[i].at >= n.cooldown
    BY <2>7, <2>3, <2>5, <1>1, <1>3, UpsertIsNews
  <2>8. LET f == edges'[K][s] IN
        /\ f.episode = n.episode
        /\ n.kind = "alert_fired" => f.state = "breached" /\ f.firedAt = n.at
        /\ n.kind = "alert_resolved" => f.state = "ok"
    BY <2>5, <1>5, <1>7
  <2>9. K \notin Poisoned
    BY <1>4
  <2>10. sweep'.rule = K /\ feed' = feed
    BY <1>3, <1>4
  <2> HIDE DEF K
  <2> QED BY <2>3, <2>5, <2>6, <2>7, <2>8, <2>9, <2>10, <1>13 DEF NoteOK
<1>15. Timely'
  <2>1. next.firedAt <= sweep.now /\ sweep.now <= clock /\ sweep.now \in Nat /\ clock \in Nat
        /\ next.firedAt \in Int
    <3>1. e.firedAt <= sweep.now
      BY <1>1, <1>3, <1>4 DEF Timely, StoredBy
    <3>2. sweep.now \in Nat /\ sweep.now <= clock /\ clock \in Nat
      BY <1>1 DEF TypeInv, JobOK, WorldOK
    <3>3. next.firedAt \in Int
      BY <1>5 DEF EdgeRow
    <3> HIDE DEF next, e, emit
    <3> QED BY <3>1, <3>2, <3>3, <1>5
  <2>2. ASSUME NEW t \in Nat, StoredBy(t), sweep.now <= t
        PROVE  (\A r \in RuleIds, x \in Subjects : edges'[r][x].firedAt <= t)
               /\ (\A p \in Pools : seen'[p].changedAt <= t)
    <3>1. next.firedAt <= t
      BY <2>1, <2>2
    <3> HIDE DEF next
    <3> QED BY <3>1, <2>2, <1>4, <1>7 DEF StoredBy
  <2>3. StoredBy(clock) /\ StoredBy(sweep.now)
    BY <1>1, <1>4 DEF Timely
  <2>4. StoredBy(clock)' /\ StoredBy(sweep.now)'
    BY <2>1, <2>2, <2>3, <1>3, <1>4 DEF StoredBy
  <2> QED BY <2>4 DEF Timely
<1>16. PoolInv'
  BY <1>8 DEF PoolInv, LastFresh, TellOK
<1>17. FeedInv'
  BY <1>1, <1>3, <1>4, UpsertFeed
<1>18. LossInv'
  <2>1. ASSUME NEW r \in RuleIds, NEW t \in Subjects, Told(r, t),
               r # K \/ t # s \/ emit = "nothing"
        PROVE  Told(r, t)'
    <3>1. CASE r # K \/ t # s
      <4>1. edges'[r][t] = edges[r][t]
        BY <3>1, <1>7
      <4> QED BY <4>1, <1>4, <1>13, <2>1 DEF Told
    <3>2. CASE r = K /\ t = s /\ emit = "nothing"
      <4>1. sweep.now \in Nat
        BY <1>1 DEF TypeInv, JobOK
      <4>2. /\ next.firedAt = e.firedAt /\ next.episode = e.episode
            /\ next.state = "breached" <=> e.state = "breached"
        BY <1>3, <3>2, <4>1, NextEdgeFields
      <4>3. edges'[r][t] = next /\ edges[r][t] = e
        BY <3>2, <1>7
      <4>4. /\ edges'[r][t].firedAt = edges[r][t].firedAt
            /\ edges'[r][t].episode = edges[r][t].episode
            /\ edges'[r][t].state = "breached" <=> edges[r][t].state = "breached"
        BY <4>2, <4>3
      <4>5. feed' = feed /\ RuleNotes' = RuleNotes /\ Told(r, t)
        BY <1>4, <1>13, <2>1
      <4> QED BY ONLY <4>4, <4>5 DEF Told
    <3> QED BY <2>1, <3>1, <3>2
  <2>2. IsFiniteSet(Untold) /\ Cardinality(Untold \ Pending) <= faults
    BY <1>1 DEF LossInv
  <2>3. Pending = {} /\ faults \in Nat /\ faults' = faults /\ faults <= faults
    BY <1>1, <1>4, PendingFinite DEF TypeInv, WorldOK
  <2>4. Untold' \ Pending' \subseteq Untold
    <3>1. CASE emit = "nothing"
      BY <3>1, <2>1 DEF Untold
    <3>2. CASE emit # "nothing"
      <4>1. Pending' = {<<K, s>>}
        BY <3>2, <1>3 DEF Pending, NoteFor
      <4> QED BY <4>1, <2>1 DEF Untold
    <3> QED BY <3>1, <3>2
  <2>5. Untold' \ Pending' \subseteq Untold \ Pending
    BY <2>3, <2>4
  <2>6. Cardinality(Untold' \ Pending') <= faults /\ IsFiniteSet(Untold' \ Pending')
    BY ONLY <2>2, <2>3, <2>5, LossLess
  <2>7. IsFiniteSet(Untold')
    <3>1. PICK x : x = <<K, s>>
      OBVIOUS
    <3>2. Untold' \subseteq Untold \union {x}
      BY <3>1, <2>1 DEF Untold
    <3>3. IsFiniteSet(Untold \union {x})
      BY <2>2, FS_AddElement
    <3> QED BY <3>2, <3>3, FS_Subset
  <2> QED BY <2>3, <2>6, <2>7 DEF LossInv
<1>19. ChangesAreTold'
  <2>1. \A p \in Pools : \A u : Due(p, u) # 1
    BY <1>4 DEF Due
  <2>2. faults \in Nat /\ faults' = faults
    BY <1>1, <1>4 DEF TypeInv, WorldOK
  <2> QED BY <2>1, <2>2, <1>1, <1>4, ChangesKept
<1> QED BY <1>9, <1>10, <1>11, <1>12, <1>14, <1>15, <1>16, <1>17, <1>18, <1>19
        DEF IInv, RuleInv

LEMMA NotifyFeed ==
  ASSUME IInv, Notify
  PROVE  /\ feed' \in Seq(RuleNote \union PoolNote)
         /\ DOMAIN feed' = DOMAIN feed \union {Len(feed) + 1}
         /\ Len(feed) + 1 \notin DOMAIN feed
         /\ \A i \in DOMAIN feed : feed'[i] = feed[i] /\ i < Len(feed) + 1 /\ i \in Nat
         /\ feed'[Len(feed) + 1] = sweep.note
         /\ RuleNotes' = RuleNotes \union {Len(feed) + 1}
         /\ PoolNotes' = PoolNotes
<1> DEFINE j == Len(feed) + 1
<1>1. feed \in Seq(RuleNote \union PoolNote)
  BY DEF IInv, TypeInv, TablesOK
<1>2. /\ sweep.note \in RuleNote /\ sweep.note.rule = sweep.rule
      /\ sweep.rule \in RuleIds /\ sweep.note.about \in Subjects
  <2>1. sweep.pc = "notify"
    BY DEF Notify
  <2> QED BY <2>1 DEF IInv, RuleInv, NoteOK, PriorFresh, LoadedOK, RuleNote
<1>3. feed' = Append(feed, sweep.note)
  BY DEF Notify
<1>4. /\ feed' \in Seq(RuleNote \union PoolNote)
      /\ DOMAIN feed' = DOMAIN feed \union {j}
      /\ j \notin DOMAIN feed
      /\ \A i \in DOMAIN feed : feed'[i] = feed[i] /\ i < j /\ i \in Nat
      /\ feed'[j] = sweep.note
  <2>1. PICK n \in RuleNote \union PoolNote : n = sweep.note
    BY <1>2
  <2>2. feed' = Append(feed, n)
    BY <2>1, <1>3
  <2> QED BY <2>1, <2>2, <1>1, Appended
<1> HIDE DEF j
<1>5. RuleNotes' = RuleNotes \union {j}
  BY <1>2, <1>4, NamesAssumption DEF RuleNotes
<1>6. PoolNotes' = PoolNotes
  BY <1>2, <1>4, NamesApart DEF PoolNotes
<1> QED BY <1>4, <1>5, <1>6 DEF j

LEMMA NotifyInd == ASSUME IInv, Notify PROVE IInv'
<1>1. TypeInv /\ RuleInv /\ Timely /\ FeedInv /\ LossInv /\ ChangesAreTold
  BY DEF IInv
<1>2. Orphanless /\ LoadedOK /\ PriorFresh /\ NoteOK
  BY <1>1 DEF RuleInv
<1> DEFINE K == sweep.rule
           n == sweep.note
           j == Len(feed) + 1
<1>3. /\ sweep.pc = "notify" /\ Live(K)
      /\ UNCHANGED <<rules, edges, health, seen, world, clock, faults>>
  BY DEF Notify, bounds
<1>4. /\ JobOK' /\ sweep'.pc = "rows" /\ sweep'.now = sweep.now
      /\ sweep'.loaded = sweep.loaded /\ sweep'.todo = sweep.todo
      /\ sweep'.rule = sweep.rule /\ sweep'.prior = sweep.prior /\ sweep'.rows = sweep.rows
  BY <1>1, NotifyFields
<1>5. /\ feed' \in Seq(RuleNote \union PoolNote)
      /\ DOMAIN feed' = DOMAIN feed \union {j}
      /\ j \notin DOMAIN feed
      /\ \A i \in DOMAIN feed : feed'[i] = feed[i] /\ i < j /\ i \in Nat
      /\ feed'[j] = n
      /\ RuleNotes' = RuleNotes \union {j}
      /\ PoolNotes' = PoolNotes
  BY NotifyFeed
<1>6. K \in RuleIds
  BY <1>2, <1>3 DEF PriorFresh, LoadedOK
<1>7. /\ n \in RuleNote /\ n.rule = K
      /\ edges[K][n.about].episode = n.episode
      /\ n.kind = "alert_fired" =>
           edges[K][n.about].state = "breached" /\ edges[K][n.about].firedAt = n.at
      /\ n.kind = "alert_resolved" => edges[K][n.about].state = "ok"
      /\ \A i \in RuleNotes :
           feed[i].rule = K /\ feed[i].about = n.about /\ feed[i].episode = n.episode
           => /\ feed[i].kind = "alert_fired"
              /\ n.kind = "alert_fired" => n.at - feed[i].at >= n.cooldown
  BY <1>2, <1>3 DEF NoteOK
<1>8. /\ n.kind \in {"alert_fired", "alert_resolved"} /\ n.at \in Nat /\ n.episode \in Nat
      /\ n.about \in Subjects
  BY <1>7 DEF RuleNote
<1>9. RuleNotes \subseteq DOMAIN feed /\ PoolNotes \subseteq DOMAIN feed
  BY DEF RuleNotes, PoolNotes
<1> HIDE DEF j
<1>10. TypeInv'
  <2>1. TablesOK'
    BY <1>1, <1>3, <1>5 DEF TypeInv, TablesOK
  <2>2. WorldOK'
    BY <1>1, <1>3 DEF TypeInv, WorldOK, world
  <2> QED BY <2>1, <2>2, <1>4 DEF TypeInv
<1>11. Orphanless'
  <2>1. ASSUME NEW r \in RuleIds, ~Live(r)'
        PROVE  /\ \A s \in Subjects : edges'[r][s] = NoEdge
               /\ \A i \in DOMAIN feed' : feed'[i].rule # r
    <3>1. ~Live(r) /\ r # K
      BY <2>1, <1>3 DEF Live
    <3> QED BY <3>1, <1>2, <1>3, <1>5, <1>7 DEF Orphanless
  <2> QED BY <2>1 DEF Orphanless
<1>12. LoadedOK' /\ PriorFresh'
  <2>1. Live(K)
    BY <1>3
  <2> QED BY <2>1, <1>2, <1>3, <1>4 DEF LoadedOK, PriorFresh
<1>13. NoteOK' /\ PoolInv'
  BY <1>4 DEF NoteOK, PoolInv, LastFresh, TellOK
<1>14. Timely'
  <2>1. clock' \in Nat /\ clock <= clock'
    BY <1>1, <1>3 DEF TypeInv, WorldOK
  <2> QED BY <2>1, <1>1, <1>3, <1>4, TimelyKept
<1>15. FeedInv'
  <2>1. ASSUME NEW i \in RuleNotes'
        PROVE  LET m == feed'[i]  e == edges[m.rule][m.about] IN
               /\ e.episode >= m.episode
               /\ m.kind = "alert_fired" => e.firedAt >= m.at
               /\ m.kind = "alert_resolved" /\ e.episode = m.episode => e.state = "ok"
    <3>1. CASE i \in RuleNotes
      <4>1. feed'[i] = feed[i]
        BY <3>1, <1>5, <1>9
      <4> QED BY <3>1, <4>1, <1>1 DEF FeedInv, FeedBacked
    <3>2. CASE i = j
      <4>1. feed'[i] = n
        BY <3>2, <1>5
      <4>2. n.rule = K
        BY <1>7
      <4> HIDE DEF n, K
      <4> QED BY <4>1, <4>2, <1>7, <1>8
    <3> QED BY <2>1, <3>1, <3>2, <1>5
  <2>2. \A i \in PoolNotes' : feed'[i] = feed[i] /\ i \in PoolNotes
    BY <1>5, <1>9
  <2>3. FeedBacked'
    BY <2>1, <2>2, <1>1, <1>3 DEF FeedBacked, FeedInv
  <2>4. PoolNewsIsNews'
    BY <2>2, <1>1, <1>5 DEF PoolNewsIsNews, FeedInv
  <2>5. ASSUME NEW i \in RuleNotes', NEW k \in RuleNotes',
               i < k, feed'[i].rule = feed'[k].rule, feed'[i].about = feed'[k].about,
               feed'[i].episode = feed'[k].episode
        PROVE  /\ feed'[i].kind = "alert_fired"
               /\ feed'[k].kind = "alert_fired"
                    => feed'[k].at - feed'[i].at >= feed'[k].cooldown
    <3>1. CASE k \in RuleNotes
      <4>1. i # j
        <5>1. k < j /\ k \in Nat /\ j \in Nat
          BY <3>1, <1>1, <1>5, <1>9 DEF j, TypeInv, TablesOK
        <5> QED BY <5>1, <2>5
      <4>2. i \in RuleNotes
        BY <4>1, <1>5
      <4>3. feed'[i] = feed[i] /\ feed'[k] = feed[k]
        BY <3>1, <4>2, <1>5, <1>9
      <4> QED BY <3>1, <4>2, <4>3, <2>5, <1>1 DEF FeedInv, NoRepeatedAlert
    <3>2. CASE k = j
      <4>1. i # j
        <5>1. j \in Nat
          BY <1>1 DEF j, TypeInv, TablesOK
        <5> QED BY <5>1, <3>2, <2>5
      <4>2. i \in RuleNotes
        BY <4>1, <1>5
      <4>3. feed'[i] = feed[i] /\ feed'[k] = n
        BY <3>2, <4>2, <1>5, <1>9
      <4>4. n.rule = K
        BY <1>7
      <4> HIDE DEF n, K
      <4> QED BY <4>2, <4>3, <4>4, <2>5, <1>7
    <3> QED BY <3>1, <3>2, <1>5
  <2>6. NoRepeatedAlert'
    BY <2>5 DEF NoRepeatedAlert
  <2> QED BY <2>3, <2>4, <2>6 DEF FeedInv
<1>16. LossInv'
  <2>1. \A i \in RuleNotes : i \in RuleNotes' /\ feed'[i] = feed[i]
    BY <1>5, <1>9
  <2>2. ASSUME NEW r \in RuleIds, NEW t \in Subjects, Told(r, t)
        PROVE  Told(r, t)'
    BY <2>1, <2>2, <1>3 DEF Told
  <2>3. PICK q \in RuleIds : q = K
    BY <1>6
  <2>4. PICK s \in Subjects : s = n.about
    BY <1>8
  <2>5. Told(q, s)'
    <3>1. /\ edges' = edges /\ feed'[j] = n /\ j \in RuleNotes'
          /\ n.kind \in {"alert_fired", "alert_resolved"}
      BY <1>3, <1>5, <1>8
    <3>2. /\ edges[q][s].episode = n.episode /\ n.rule = q /\ n.about = s
          /\ n.kind = "alert_fired" =>
               edges[q][s].state = "breached" /\ edges[q][s].firedAt = n.at
          /\ n.kind = "alert_resolved" => edges[q][s].state = "ok"
      BY <2>3, <2>4, <1>7
    <3>3. PICK m : m = n
      OBVIOUS
    <3>4. /\ edges' = edges /\ feed'[j] = m /\ j \in RuleNotes'
          /\ m.kind \in {"alert_fired", "alert_resolved"}
          /\ edges[q][s].episode = m.episode /\ m.rule = q /\ m.about = s
          /\ m.kind = "alert_fired" =>
               edges[q][s].state = "breached" /\ edges[q][s].firedAt = m.at
          /\ m.kind = "alert_resolved" => edges[q][s].state = "ok"
      BY <3>1, <3>2, <3>3
    <3>5. PICK k : k = j
      OBVIOUS
    <3>6. feed'[k] = m /\ k \in RuleNotes'
      BY <3>4, <3>5
    <3> QED BY ONLY <3>4, <3>6 DEF Told
  <2>6. Pending = {<<q, s>>} /\ Pending' = {}
    BY <1>3, <1>4, <2>3, <2>4 DEF Pending
  <2>7. Untold' \subseteq Untold \ Pending
    BY <2>2, <2>5, <2>6 DEF Untold
  <2>8. IsFiniteSet(Untold) /\ Cardinality(Untold \ Pending) <= faults
    BY <1>1 DEF LossInv
  <2>9. faults \in Nat /\ faults <= faults /\ faults' = faults
    BY <1>1, <1>3 DEF TypeInv, WorldOK
  <2>10. IsFiniteSet(Untold') /\ Cardinality(Untold') <= faults
    BY ONLY <2>7, <2>8, <2>9, LossLess
  <2>11. Untold' \ Pending' = Untold'
    BY <2>6
  <2> QED BY <2>9, <2>10, <2>11 DEF LossInv
<1>17. ChangesAreTold'
  <2>1. \A p, u : Heard(p, u)' = Heard(p, u) /\ Due(p, u)' = Due(p, u)
    <3>1. \A i \in PoolNotes : feed'[i] = feed[i]
      BY <1>5, <1>9
    <3>2. sweep.pc # "tell" /\ sweep'.pc # "tell"
      BY <1>3, <1>4
    <3> QED BY <3>1, <3>2, <1>5 DEF Heard, Due
  <2>2. \A p \in Pools : \A u \in Holders[p] :
          seen'[p].changes <= Cardinality(Heard(p, u)') + Due(p, u)' + faults'
    BY <1>1, <1>3, <2>1, ChangesToldDef
  <2> QED BY <2>2 DEF ChangesAreTold, Heard, Due
<1> QED BY <1>10, <1>11, <1>12, <1>13, <1>14, <1>15, <1>16, <1>17 DEF IInv, RuleInv

-------------------------------------------------------------------------------
(* The pool's new state is stored, then told to its holders.               *)

LEMMA PoolNoteFields ==
  ASSUME TypeInv, NEW i \in PoolNotes
  PROVE  /\ feed[i] \in PoolNote /\ feed[i].about = <<"pool", feed[i].about[2]>>
         /\ feed[i].about[2] \in Pools /\ feed[i].rule = None
         /\ feed[i].at \in Nat /\ feed[i].episode \in Nat
<1>1. i \in DOMAIN feed /\ feed[i].about \in {"pool"} \X Pools
  BY DEF PoolNotes
<1>2. feed[i] \in RuleNote \union PoolNote
  BY <1>1 DEF TypeInv, TablesOK
<1>3. feed[i] \notin RuleNote
  BY <1>1, NamesApart DEF RuleNote
<1>4. feed[i] \in PoolNote
  BY <1>2, <1>3
<1> QED BY <1>1, <1>4 DEF PoolNote

LEMMA DiffFacts ==
  ASSUME NEW prev, NEW cur
  PROVE  diffPoolStatus(prev, cur) = "changed" =>
           prev # Absent /\ prev # cur /\ prev # "Unknown" /\ cur # "Unknown"
BY DEF diffPoolStatus

LEMMA CheckPoolInd == ASSUME IInv, NEW p \in Pools, CheckPool(p) PROVE IInv'
<1>1. TypeInv /\ RuleInv /\ Timely /\ FeedInv /\ LossInv /\ ChangesAreTold /\ PoolInv
  BY DEF IInv
<1> DEFINE from == seen[p].label
           to == status[p]
           outcome == diffPoolStatus(from, to)
           row == [label |-> to,
                   changedAt |-> IF outcome = "unchanged" THEN seen[p].changedAt ELSE sweep.now,
                   changes |-> seen[p].changes + (IF outcome = "changed" THEN 1 ELSE 0)]
<1>2. /\ sweep.pc = "pools" /\ JobOK' /\ sweep'.now = sweep.now
      /\ sweep'.pools = sweep.pools \ {p} /\ sweep'.last = sweep.last
      /\ seen' = [seen EXCEPT ![p] = row]
      /\ outcome # "changed" => sweep'.pc = "pools"
      /\ outcome = "changed" =>
           /\ sweep'.pc = "tell" /\ sweep'.users = Holders[p]
           /\ sweep'.note = NewsFor(p, from, to, seen[p].changes + 1)
  BY <1>1, CheckPoolFields DEF PoolInv
<1>3. /\ UNCHANGED <<rules, edges, feed, health, world, clock, faults>>
      /\ p \in sweep.pools
  BY DEF CheckPool, bounds
<1>4. /\ seen \in [Pools -> SeenRow] /\ seen[p] \in SeenRow
      /\ from \in Labels \union {Absent} /\ seen[p].changedAt \in Int
      /\ seen[p].changes \in Nat /\ to \in Labels
      /\ sweep.now \in Nat /\ clock \in Nat /\ sweep.now <= clock
      /\ faults \in Nat
  BY <1>1 DEF TypeInv, TablesOK, WorldOK, JobOK, SeenRow
<1>5. StoredBy(sweep.now)
  BY <1>1, <1>2 DEF Timely
<1>6. seen[p].changedAt <= sweep.now
  BY <1>5 DEF StoredBy
<1>7. /\ row.label = to /\ row.changedAt \in {seen[p].changedAt, sweep.now}
      /\ outcome # "unchanged" => row.changedAt = sweep.now
      /\ outcome = "changed" => row.changes = seen[p].changes + 1
      /\ outcome # "changed" => row.changes = seen[p].changes
  <2> HIDE DEF outcome, to
  <2> QED BY <1>4
<1> HIDE DEF row, outcome
<1>8. /\ row \in SeenRow
  <2>1. row = [label |-> row.label, changedAt |-> row.changedAt, changes |-> row.changes]
    BY DEF row
  <2>2. row.label \in Labels /\ row.changedAt \in Int /\ row.changes \in Nat
    BY <1>4, <1>7
  <2> QED BY <2>1, <2>2 DEF SeenRow
<1>9. /\ seen'[p] = row /\ \A q \in Pools \ {p} : seen'[q] = seen[q]
      /\ seen' \in [Pools -> SeenRow]
  BY <1>2, <1>4, <1>8
<1>10. row.changedAt <= sweep.now /\ row.changedAt >= seen[p].changedAt
       /\ row.changes >= seen[p].changes
  BY <1>4, <1>6, <1>7
<1>11. TypeInv'
  <2>1. TablesOK'
    BY <1>1, <1>3, <1>9 DEF TypeInv, TablesOK
  <2>2. WorldOK'
    BY <1>1, <1>3 DEF TypeInv, WorldOK, world
  <2> QED BY <2>1, <2>2, <1>2 DEF TypeInv
<1>12. sweep'.pc \in {"pools", "tell"}
  BY <1>2
<1>13. RuleInv'
  <2>1. Orphanless'
    BY <1>1, <1>3 DEF RuleInv, Orphanless, Live
  <2> QED BY <2>1, <1>12 DEF RuleInv, LoadedOK, PriorFresh, NoteOK
<1>14. RuleNotes' = RuleNotes /\ PoolNotes' = PoolNotes
  BY <1>3 DEF RuleNotes, PoolNotes
<1>15. Timely'
  <2>1. ASSUME NEW t \in Nat, StoredBy(t), sweep.now <= t
        PROVE  (\A r \in RuleIds, x \in Subjects : edges'[r][x].firedAt <= t)
               /\ (\A q \in Pools : seen'[q].changedAt <= t)
    <3>1. row.changedAt <= t
      BY <2>1, <1>4, <1>7, <1>10
    <3> QED BY <3>1, <2>1, <1>3, <1>9 DEF StoredBy
  <2>2. StoredBy(clock)
    BY <1>1 DEF Timely
  <2>3. StoredBy(clock)' /\ StoredBy(sweep.now)'
    BY <2>1, <2>2, <1>2, <1>3, <1>4, <1>5 DEF StoredBy
  <2> QED BY <2>3 DEF Timely
<1>16. \A i \in PoolNotes : feed[i].about[2] \in Pools /\ feed[i].at \in Nat
         /\ feed[i].episode \in Nat
         /\ seen[feed[i].about[2]].changedAt >= feed[i].at
         /\ seen[feed[i].about[2]].changes >= feed[i].episode
  BY <1>1, PoolNoteFields DEF FeedInv, FeedBacked
<1>17. PoolInv'
  <2>1. LastFresh'
    BY <1>1, <1>2, <1>9 DEF PoolInv, LastFresh, TypeInv, JobOK
  <2>2. TellOK'
    <3>1. SUFFICES ASSUME sweep'.pc = "tell" PROVE TellOK'
      BY DEF TellOK
    <3>2. outcome = "changed"
      BY <3>1, <1>2
    <3>3. /\ from # to /\ from # "Unknown" /\ to # "Unknown" /\ from \in Labels
      BY <3>2, <1>4, DiffFacts DEF outcome
    <3>4. PICK n : n = NewsFor(p, from, to, seen[p].changes + 1)
      OBVIOUS
    <3>5. n = [rule |-> None, about |-> <<"pool", p>>,
               kind |-> IF to = "Active" THEN "alert_resolved" ELSE "alert_fired",
               at |-> sweep.now, episode |-> seen[p].changes + 1, from |-> from, to |-> to, user |-> None]
      BY <3>4 DEF NewsFor
    <3>6. n \in News
      BY <3>3, <3>5, <1>4 DEF News
    <3>7. /\ n.about = <<"pool", p>> /\ n.about[2] = p /\ n.from = from /\ n.to = to
          /\ n.at = sweep.now /\ n.episode = seen[p].changes + 1
      BY <3>5
    <3>8. sweep'.note = n
      BY <1>2, <3>2, <3>4
    <3>9. \A i \in PoolNotes : feed[i].about = n.about => feed[i].episode # n.episode
      BY <1>4, <1>16, <3>7
    <3>10. seen'[p].changes = n.episode /\ seen'[p].changedAt = n.at
      BY <3>2, <3>7, <1>7, <1>9
    <3>11. p \notin sweep'.pools
      BY <1>2
    <3> QED BY <3>3, <3>6, <3>7, <3>8, <3>9, <3>10, <3>11, <1>3, <1>14 DEF TellOK
  <2> QED BY <2>1, <2>2 DEF PoolInv
<1>18. FeedInv'
  <2>1. ASSUME NEW i \in PoolNotes
        PROVE  /\ seen'[feed[i].about[2]].changedAt >= feed[i].at
               /\ seen'[feed[i].about[2]].changes >= feed[i].episode
    <3>1. CASE feed[i].about[2] = p
      <4>1. /\ seen[p].changedAt >= feed[i].at /\ seen[p].changes >= feed[i].episode
            /\ feed[i].at \in Nat /\ feed[i].episode \in Nat
        BY <3>1, <1>16
      <4>2. row.changedAt \in Int /\ row.changes \in Nat
        BY <1>4, <1>7
      <4> QED BY <3>1, <4>1, <4>2, <1>4, <1>9, <1>10
    <3>2. CASE feed[i].about[2] # p
      <4>1. seen'[feed[i].about[2]] = seen[feed[i].about[2]]
        BY <3>2, <1>9, <1>16
      <4> QED BY <4>1, <1>16
    <3> QED BY <3>1, <3>2
  <2>2. FeedBacked'
    BY <2>1, <1>1, <1>3, <1>14 DEF FeedInv, FeedBacked
  <2>3. NoRepeatedAlert' /\ PoolNewsIsNews'
    BY <1>1, <1>3, <1>14 DEF FeedInv, NoRepeatedAlert, PoolNewsIsNews
  <2> QED BY <2>2, <2>3 DEF FeedInv
<1>19. LossInv'
  <2>1. Pending = {}
    BY <1>2, PendingFinite
  <2> QED BY <2>1, <1>1, <1>3, <1>4, LossKept
<1>20. ChangesAreTold'
  <2>1. ASSUME NEW q \in Pools, NEW u \in Holders[q]
        PROVE  seen'[q].changes <= Cardinality(Heard(q, u)') + Due(q, u)' + faults'
    <3>1. Heard(q, u)' = Heard(q, u)
      BY <1>3, <1>14 DEF Heard
    <3>2. Due(q, u) = 0 /\ Due(q, u)' \in {0, 1}
      BY <1>2 DEF Due
    <3>3. seen[q].changes <= Cardinality(Heard(q, u)) + Due(q, u) + faults
      BY <1>1, ChangesToldDef
    <3>4. Cardinality(Heard(q, u)) \in Nat /\ seen[q].changes \in Nat
      BY <1>1, HeardFinite DEF TypeInv, TablesOK, SeenRow
    <3>5. CASE q # p \/ outcome # "changed"
      <4>1. seen'[q].changes = seen[q].changes
        BY <3>5, <1>7, <1>9
      <4> QED BY <4>1, <3>1, <3>2, <3>3, <3>4, <1>3, <1>4
    <3>6. CASE q = p /\ outcome = "changed"
      <4>1. sweep'.pc = "tell" /\ u \in sweep'.users
        BY <3>6, <1>2
      <4>2. PICK n : n = NewsFor(p, from, to, seen[p].changes + 1)
        OBVIOUS
      <4>3. n.about[2] = p
        BY <4>2 DEF NewsFor
      <4>4. sweep'.note.about[2] = q
        BY <3>6, <4>2, <4>3, <1>2
      <4>5. Due(q, u)' = 1
        BY <4>1, <4>4 DEF Due
      <4>6. seen'[q].changes = seen[q].changes + 1
        BY <3>6, <1>7, <1>9
      <4> QED BY <4>5, <4>6, <3>1, <3>2, <3>3, <3>4, <1>3, <1>4
    <3> QED BY <3>5, <3>6
  <2> QED BY <2>1 DEF ChangesAreTold, Heard, Due
<1> QED BY <1>11, <1>13, <1>15, <1>17, <1>18, <1>19, <1>20 DEF IInv

LEMMA Addressed ==
  ASSUME NEW n \in News, NEW u \in Users
  PROVE  LET m == [n EXCEPT !.user = u] IN
         /\ m \in PoolNote /\ m.user = u /\ m.about = n.about /\ m.episode = n.episode
         /\ m.at = n.at /\ m.from = n.from /\ m.to = n.to /\ m.rule = None
BY DEF News, PoolNote

LEMMA TellUserInd == ASSUME IInv, NEW u \in Users, TellUser(u) PROVE IInv'
<1>1. TypeInv /\ RuleInv /\ Timely /\ FeedInv /\ LossInv /\ ChangesAreTold /\ PoolInv
  BY DEF IInv
<1>2. /\ sweep.pc = "tell" /\ u \in sweep.users
      /\ feed' = Append(feed, [sweep.note EXCEPT !.user = u])
      /\ UNCHANGED <<rules, edges, health, seen, world, clock, faults>>
  BY DEF TellUser, bounds
<1>3. /\ JobOK' /\ sweep'.pc = "tell" /\ sweep'.now = sweep.now
      /\ sweep'.last = sweep.last /\ sweep'.pools = sweep.pools
      /\ sweep'.note = sweep.note /\ sweep'.users = sweep.users \ {u}
  BY <1>1, TellUserFields
<1>4. PICK n \in News : n = sweep.note
  BY <1>1, <1>2 DEF PoolInv, TellOK
<1>5. /\ n.about[2] \notin sweep.pools /\ n.from # n.to
      /\ n.from # "Unknown" /\ n.to # "Unknown"
      /\ seen[n.about[2]].changes = n.episode /\ seen[n.about[2]].changedAt = n.at
      /\ \A i \in PoolNotes :
           feed[i].about = n.about /\ feed[i].user \in sweep.users
           => feed[i].episode # n.episode
  BY <1>1, <1>2, <1>4 DEF PoolInv, TellOK
<1>6. PICK m \in PoolNote :
        /\ m = [n EXCEPT !.user = u] /\ m.user = u /\ m.about = n.about /\ m.episode = n.episode
        /\ m.at = n.at /\ m.from = n.from /\ m.to = n.to /\ m.rule = None
  BY Addressed
<1>7. /\ n.about \in {"pool"} \X Pools /\ n.at \in Nat /\ n.episode \in Nat
      /\ n.from \in Labels /\ n.to \in Labels
  BY DEF News
<1>8. PICK p \in Pools : n.about = <<"pool", p>>
  BY <1>7
<1>9. PICK j : j = Len(feed) + 1
  OBVIOUS
<1>10. /\ feed' \in Seq(RuleNote \union PoolNote)
       /\ DOMAIN feed' = DOMAIN feed \union {j}
       /\ j \notin DOMAIN feed
       /\ \A i \in DOMAIN feed : feed'[i] = feed[i] /\ i < j /\ i \in Nat
       /\ feed'[j] = m
  <2>1. feed \in Seq(RuleNote \union PoolNote) /\ m \in RuleNote \union PoolNote
    BY <1>1 DEF TypeInv, TablesOK
  <2>2. feed' = Append(feed, m)
    BY <1>2, <1>4, <1>6
  <2> QED BY <2>1, <2>2, <1>9, Appended
<1>11. RuleNotes' = RuleNotes
  BY <1>6, <1>10 DEF RuleNotes
<1>12. PoolNotes' = PoolNotes \union {j}
  BY <1>6, <1>7, <1>10 DEF PoolNotes
<1>13. RuleNotes \subseteq DOMAIN feed /\ PoolNotes \subseteq DOMAIN feed
  BY DEF RuleNotes, PoolNotes
<1>14. TypeInv'
  <2>1. TablesOK'
    BY <1>1, <1>2, <1>10 DEF TypeInv, TablesOK
  <2>2. WorldOK'
    BY <1>1, <1>2 DEF TypeInv, WorldOK, world
  <2> QED BY <2>1, <2>2, <1>3 DEF TypeInv
<1>15. RuleInv'
  <2>1. Orphanless'
    <3>1. \A r \in RuleIds : m.rule # r
      BY <1>6, NamesAssumption
    <3> QED BY <3>1, <1>1, <1>2, <1>10 DEF RuleInv, Orphanless, Live
  <2> QED BY <2>1, <1>3 DEF RuleInv, LoadedOK, PriorFresh, NoteOK
<1>16. Timely'
  <2>1. clock' \in Nat /\ clock <= clock'
    BY <1>1, <1>2 DEF TypeInv, WorldOK
  <2> QED BY <2>1, <1>1, <1>2, <1>3, TimelyKept
<1>17. PoolInv'
  <2>1. LastFresh'
    BY <1>1, <1>2, <1>3 DEF PoolInv, LastFresh
  <2>2. ASSUME NEW i \in PoolNotes', feed'[i].about = n.about, feed'[i].user \in sweep'.users
        PROVE  feed'[i].episode # n.episode
    <3>1. i # j
      BY <2>2, <1>3, <1>6, <1>10
    <3>2. i \in PoolNotes /\ feed'[i] = feed[i]
      BY <3>1, <1>10, <1>12, <1>13
    <3> QED BY <3>2, <2>2, <1>3, <1>5
  <2>3. sweep'.note = n /\ seen' = seen /\ sweep'.pools = sweep.pools
    BY <1>2, <1>3, <1>4
  <2>4. TellOK'
    BY <2>2, <2>3, <1>4, <1>5 DEF TellOK
  <2> QED BY <2>1, <2>4 DEF PoolInv
<1>18. FeedInv'
  <2>1. \A i \in RuleNotes : feed'[i] = feed[i]
    BY <1>10, <1>13
  <2>2. \A i \in PoolNotes : feed'[i] = feed[i]
    BY <1>10, <1>13
  <2>3. NoRepeatedAlert'
    BY <2>1, <1>1, <1>11 DEF FeedInv, NoRepeatedAlert
  <2>4. ASSUME NEW i \in PoolNotes'
        PROVE  /\ seen[feed'[i].about[2]].changedAt >= feed'[i].at
               /\ seen[feed'[i].about[2]].changes >= feed'[i].episode
    <3>1. CASE i \in PoolNotes
      BY <3>1, <2>2, <1>1 DEF FeedInv, FeedBacked
    <3>2. CASE i = j
      BY <3>2, <1>5, <1>6, <1>7, <1>10
    <3> QED BY <3>1, <3>2, <1>12
  <2>5. FeedBacked'
    BY <2>1, <2>4, <1>1, <1>2, <1>11 DEF FeedInv, FeedBacked
  <2>6. ASSUME NEW i \in PoolNotes'
        PROVE  /\ feed'[i].from # feed'[i].to
               /\ {feed'[i].from, feed'[i].to} \subseteq Labels \ {"Unknown"}
    <3>1. CASE i \in PoolNotes
      BY <3>1, <2>2, <1>1 DEF FeedInv, PoolNewsIsNews
    <3>2. CASE i = j
      BY <3>2, <1>5, <1>6, <1>7, <1>10
    <3> QED BY <3>1, <3>2, <1>12
  <2>7. ASSUME NEW i \in PoolNotes
        PROVE  feed[i].user = u /\ feed[i].about = n.about => feed[i].episode # n.episode
    BY <1>2, <1>5
  <2>8. ASSUME NEW i \in PoolNotes', NEW k \in PoolNotes', i # k,
               feed'[i].user = feed'[k].user, feed'[i].about = feed'[k].about
        PROVE  feed'[i].episode # feed'[k].episode
    <3>1. CASE i \in PoolNotes /\ k \in PoolNotes
      BY <3>1, <2>2, <2>8, <1>1 DEF FeedInv, PoolNewsIsNews
    <3>2. CASE i \in PoolNotes /\ k = j
      BY <3>2, <2>2, <2>7, <2>8, <1>6, <1>10
    <3>3. CASE i = j /\ k \in PoolNotes
      BY <3>3, <2>2, <2>7, <2>8, <1>6, <1>10
    <3> QED BY <2>8, <3>1, <3>2, <3>3, <1>12
  <2>9. PoolNewsIsNews'
    BY <2>6, <2>8 DEF PoolNewsIsNews
  <2> QED BY <2>3, <2>5, <2>9 DEF FeedInv
<1>19. faults \in Nat /\ faults' = faults
  BY <1>1, <1>2 DEF TypeInv, WorldOK
<1>20. LossInv'
  <2>1. \A i \in RuleNotes : feed'[i] = feed[i]
    BY <1>10, <1>13
  <2>2. ASSUME NEW r \in RuleIds, NEW t \in Subjects, Told(r, t)
        PROVE  Told(r, t)'
    BY <2>1, <2>2, <1>2, <1>11 DEF Told
  <2>3. Untold' \subseteq Untold
    BY <2>2 DEF Untold
  <2>4. Pending = {} /\ Pending' = {}
    BY <1>2, <1>3 DEF Pending
  <2>5. IsFiniteSet(Untold) /\ Cardinality(Untold \ Pending) <= faults
    BY <1>1 DEF LossInv
  <2>6. Untold' \subseteq Untold \ Pending /\ Untold' \ Pending' = Untold'
    BY <2>3, <2>4
  <2>7. faults <= faults
    BY <1>19
  <2>8. IsFiniteSet(Untold') /\ Cardinality(Untold') <= faults
    BY ONLY <2>5, <2>6, <2>7, <1>19, LossLess
  <2> QED BY <2>6, <2>8, <1>19 DEF LossInv
<1>21. ChangesAreTold'
  <2>1. ASSUME NEW q \in Pools, NEW w \in Holders[q]
        PROVE  seen'[q].changes <= Cardinality(Heard(q, w)') + Due(q, w)' + faults'
    <3>1. seen[q].changes <= Cardinality(Heard(q, w)) + Due(q, w) + faults
      BY <1>1, ChangesToldDef
    <3>2. /\ IsFiniteSet(Heard(q, w)) /\ Cardinality(Heard(q, w)) \in Nat
          /\ seen[q].changes \in Nat
      BY <1>1, HeardFinite DEF TypeInv, TablesOK, SeenRow
    <3>3. Due(q, w) \in {0, 1} /\ Due(q, w)' \in {0, 1}
      BY DEF Due
    <3>4. CASE q = p /\ w = u
      <4>1. Heard(q, w)' = Heard(q, w) \union {j}
        BY <3>4, <1>6, <1>8, <1>10, <1>12, <1>13 DEF Heard
      <4>2. j \notin Heard(q, w)
        BY <1>10, <1>13 DEF Heard
      <4>3. Cardinality(Heard(q, w)') = Cardinality(Heard(q, w)) + 1
        BY <4>1, <4>2, <3>2, FS_AddElement
      <4> QED BY <4>3, <3>1, <3>2, <3>3, <1>2, <1>19
    <3>5. CASE q # p \/ w # u
      <4>1. Heard(q, w)' = Heard(q, w)
        <5>1. ~(m.about = <<"pool", q>> /\ m.user = w)
          BY <3>5, <1>6, <1>8
        <5>2. \A i \in PoolNotes : feed'[i] = feed[i]
          BY <1>10, <1>13
        <5>3. feed'[j] = m
          BY <1>10
        <5> QED BY ONLY <5>1, <5>2, <5>3, <1>12 DEF Heard
      <4>2. Due(q, w)' = Due(q, w)
        BY <3>5, <1>2, <1>3, <1>4, <1>8 DEF Due
      <4> QED BY <4>1, <4>2, <3>1, <1>2, <1>19
    <3> QED BY <3>4, <3>5
  <2> QED BY <2>1 DEF ChangesAreTold, Heard, Due
<1> QED BY <1>14, <1>15, <1>16, <1>17, <1>18, <1>20, <1>21 DEF IInv

-------------------------------------------------------------------------------
(* The invariant and its consequences.                                     *)

LEMMA InitInv == Init => IInv
<1> SUFFICES ASSUME Init PROVE IInv
  OBVIOUS
<1>1. Absent \in Value /\ NoEdge \in EdgeRow /\ Unseen \in SeenRow
  BY NoEdgeIsEdge DEF Value, Unseen, SeenRow
<1>2. /\ rules = [r \in RuleIds |-> Unused]
      /\ edges = [r \in RuleIds |-> [s \in Subjects |-> NoEdge]]
      /\ feed = << >>
      /\ health = [k \in Positions |-> [newest |-> Absent, debt |-> Absent]]
      /\ seen = [p \in Pools |-> Unseen]
      /\ chain = [k \in Positions |-> Absent] /\ market = [s \in Markets |-> Absent]
      /\ status = [p \in Pools |-> "Active"]
      /\ sweep = Idle /\ clock = 0 /\ faults = 0
  BY DEF Init
<1>3. DOMAIN feed = {} /\ RuleNotes = {} /\ PoolNotes = {}
  BY <1>2 DEF RuleNotes, PoolNotes
<1>4. TypeInv
  <2>1. [newest |-> Absent, debt |-> Absent] \in HealthRow
    BY <1>1 DEF HealthRow
  <2>2. TablesOK
    BY <1>1, <1>2, <2>1 DEF TablesOK
  <2>3. WorldOK
    BY <1>1, <1>2 DEF WorldOK, Labels
  <2>4. JobOK
    BY <1>1, <1>2, IdleFields DEF JobOK
  <2> QED BY <2>2, <2>3, <2>4 DEF TypeInv
<1>5. sweep.pc = "idle"
  BY <1>2, IdleFields
<1>6. RuleInv /\ PoolInv
  BY <1>2, <1>3, <1>5 DEF RuleInv, PoolInv, Orphanless, LoadedOK, PriorFresh, NoteOK,
                          LastFresh, TellOK
<1>7. Timely
  BY <1>2, <1>5 DEF Timely, StoredBy, NoEdge, Unseen
<1>8. FeedInv
  BY <1>3 DEF FeedInv, FeedBacked, NoRepeatedAlert, PoolNewsIsNews
<1>9. LossInv
  <2>1. Untold = {}
    BY <1>2 DEF Untold, Told, NoEdge
  <2>2. Untold \ Pending = {}
    BY <2>1
  <2> QED BY <2>1, <2>2, <1>2, FS_EmptySet DEF LossInv
<1>10. ChangesAreTold
  <2>1. \A p \in Pools : seen[p].changes = 0
    BY <1>2 DEF Unseen
  <2>2. \A p, u : Cardinality(Heard(p, u)) \in Nat /\ Due(p, u) \in {0, 1}
    BY <1>4, HeardFinite DEF Due
  <2> QED BY <2>1, <2>2, <1>2, ChangesToldDef
<1> QED BY <1>4, <1>6, <1>7, <1>8, <1>9, <1>10 DEF IInv

LEMMA StutterInv == ASSUME IInv, UNCHANGED vars PROVE IInv'
<1>1. UNCHANGED quiet /\ UNCHANGED <<sweep, faults, world, clock, health>>
  BY DEF vars, quiet, world
<1>2. health' \in [Positions -> HealthRow] /\ WorldOK' /\ clock <= clock'
  BY <1>1 DEF IInv, TypeInv, TablesOK, WorldOK, world
<1> QED BY <1>1, <1>2, OutsideInd

LEMMA NextInv == IInv /\ [Next]_vars => IInv'
<1> SUFFICES ASSUME IInv, [Next]_vars PROVE IInv'
  OBVIOUS
<1>1. CASE JobStep
  <2>1. CASE AbortJob \/ EndJob
    BY <2>1, JobEndInd
  <2>2. CASE StartJob \/ Load \/ NextFamily \/ EndRule \/ Notify \/ RuleFails
             \/ LoadPools \/ EndPool
    BY <2>2, StartJobInd, LoadInd, NextFamilyInd, EndRuleInd, NotifyInd, RuleFailsInd,
       LoadPoolsInd, EndPoolInd
  <2>3. CASE \E p \in Pools : RefreshPool(p) \/ CheckPool(p)
    BY <2>3, RefreshPoolInd, CheckPoolInd
  <2>4. CASE \E r \in RuleIds : BeginRule(r)
    BY <2>4, BeginRuleInd
  <2>5. CASE \E s \in Subjects : Upsert(s)
    BY <2>5, UpsertInd
  <2>6. CASE \E u \in Users : TellUser(u)
    BY <2>6, TellUserInd
  <2> QED BY <1>1, <2>1, <2>2, <2>3, <2>4, <2>5, <2>6 DEF JobStep
<1>2. CASE Fault
  <2>1. CASE PoolsFail \/ Crash
    BY <2>1, JobEndInd
  <2>2. CASE \E p \in Pools : SkipPool(p) \/ MissPool(p)
    BY <2>2, SkipPoolInd, MissPoolInd
  <2> QED BY <1>2, <2>1, <2>2 DEF Fault
<1>3. CASE EditRule
  BY <1>3, CreateRuleInd, UpdateRuleInd, DeleteRuleInd DEF EditRule
<1>4. CASE Move \/ Tick
  BY <1>4, MoveInd, TickInd
<1>5. CASE \E w \in Wallets : RefreshWallet(w)
  BY <1>5, RefreshWalletInd
<1>6. CASE UNCHANGED vars
  BY <1>6, StutterInv
<1> QED BY <1>1, <1>2, <1>3, <1>4, <1>5, <1>6 DEF Next

\* The inductive invariant of the alerting engine, for every set of rules, wallets,
\* pools and users, every number of faults and edits, and every clock.
THEOREM SpecIInv == Spec => []IInv
BY InitInv, NextInv, PTL DEF Spec

\* The tables hold what their constraints allow, and a deleted rule leaves neither an
\* edge nor a notification that names it (the on delete clauses of alert_rule_state,
\* alert_rule_subject_state and notifications).
THEOREM AlertType == Spec => []TypeOK
<1>1. IInv => TypeOK
  <2> SUFFICES ASSUME IInv PROVE TypeOK
    OBVIOUS
  <2>1. TablesOK /\ Orphanless
    BY DEF IInv, TypeInv, RuleInv
  <2>2. \A i \in DOMAIN feed : feed[i] \in RuleNote \union PoolNote
    BY <2>1 DEF TablesOK
  <2> QED BY <2>1, <2>2 DEF TablesOK, Orphanless, TypeOK, HealthRow, SeenRow
<1> QED BY <1>1, SpecIInv, PTL

\* The evaluator's state tables are never behind the feed: the upsert commits before
\* the notification is inserted, and an edited rule keeps its edges.
THEOREM FeedIsBacked == Spec => []FeedBacked
<1>1. IInv => FeedBacked
  BY DEF IInv, FeedInv
<1> QED BY <1>1, SpecIInv, PTL

\* evaluate() fires again on a sustained breach only after the cooldown, and resolves
\* once, whatever crashes, failures and edits come between two sweeps.
THEOREM AlertsNotRepeated == Spec => []NoRepeatedAlert
<1>1. IInv => NoRepeatedAlert
  BY DEF IInv, FeedInv
<1> QED BY <1>1, SpecIInv, PTL

\* diffPoolStatus seeds a pool silently and suppresses an unknown status, and the pool
\* family tells each holder of each change once.
THEOREM PoolNewsOnce == Spec => []PoolNewsIsNews
<1>1. IInv => PoolNewsIsNews
  BY DEF IInv, FeedInv
<1> QED BY <1>1, SpecIInv, PTL

\* Between two rules, the edges with no notification are at most the faults so far: a
\* crash or a failed insert after the upsert loses one alert, and nothing else does.
THEOREM LostAlertsAreFaults == Spec => []LossesAreFaults
<1>1. IInv => LossesAreFaults
  <2> SUFFICES ASSUME IInv, sweep.pc # "notify"
               PROVE  Cardinality(Untold) <= faults
    BY DEF LossesAreFaults, Untold
  <2>1. Untold \ Pending = Untold
    BY PendingFinite
  <2> QED BY <2>1 DEF IInv, LossInv
<1> QED BY <1>1, SpecIInv, PTL

\* evaluatePoolStatus() tells every holder of every change of a pool's status, save
\* those a fault cut short.
THEOREM HoldersAreTold == Spec => []ChangesAreTold
<1>1. IInv => ChangesAreTold
  BY DEF IInv
<1> QED BY <1>1, SpecIInv, PTL

===============================================================================
