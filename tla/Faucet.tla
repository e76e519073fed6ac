------------------------------ MODULE Faucet ------------------------------
(***************************************************************************)
(* The reward faucet of apps/api (modules/faucet): claim requests queue on *)
(* an in-process promise chain; the claim at its head re-reads every fact, *)
(* inserts a pending row, makes one payout attempt and records the result. *)
(* Every await of the code is a step of its own, so that the other API     *)
(* process, the eligibility GET, the ledger, the founder and a restart can *)
(* act in between.  Horizon, the ledger and the founder are external.      *)
(***************************************************************************)
EXTENDS Integers, Sequences, FiniteSets

CONSTANTS
  Procs,        \* API processes (pm2 runs one; a deploy may overlap two)
  Wallets, Users, Witnesses,
  TxOf,         \* what each witnessed transaction did: its wallet, family, close time
  Owners,       \* the users that registered each wallet
  MaxClaims, HourlyCap, StartsAt, EndsAt, Hour,
  Envs,         \* the environments an API process may be (re)started with
  Reward, ReserveBuffer, InitBalance, CacheTtl,
  None,         \* SQL null, JS null, "no row"
  MinNotionalChecks,                  \* outcomes of the witness's min-notional rule
  MaxRequests, MaxRows, MaxTime, MaxCrashes, MaxProbes      \* bounds of the model

Families == {"swap", "blend-supply"}

ASSUME FaucetConstants ==
  /\ MaxClaims \in Nat /\ HourlyCap \in Nat /\ Hour \in Nat
  /\ Reward \in Nat /\ ReserveBuffer \in Nat /\ InitBalance \in Nat /\ CacheTtl \in Nat
  /\ StartsAt \in Nat \union {None} /\ EndsAt \in Nat \union {None}
  /\ MaxRequests \in Nat /\ MaxRows \in Nat /\ MaxTime \in Nat /\ MaxCrashes \in Nat
  /\ MaxProbes \in Nat
  /\ MinNotionalChecks \subseteq BOOLEAN
  /\ TxOf \in [Witnesses -> [wallet: Wallets, family: Families, closed: Nat]]
  /\ Owners \in [Wallets -> SUBSET Users]
  /\ Envs \subseteq [enabled: BOOLEAN, key: BOOLEAN]
  /\ Envs # {}
  /\ None \notin Nat /\ None \notin Witnesses /\ None \notin Users

VARIABLES
  witnessed,    \* action_witnesses, in order of verified_at
  claims,       \* faucet_claims: row id -> row
  nextId,       \* the next row id; ids are never reused
  now,          \* the clock
  requests,     \* claim POSTs accepted so far
  crashes,      \* restarts so far
  probes,       \* eligibility GETs that read the treasury so far
  chain,        \* per process: the serial claim queue
  pc,           \* per process: where the claim at work stands
  job,          \* per process: the locals of that claim
  env,          \* per process: its environment
  cache,        \* per process: treasuryCache
  probe,        \* per process: the treasury read of an eligibility GET in flight
  acctSeq,      \* the treasury account's sequence number
  balance,      \* the treasury account's native balance
  inflight,     \* payout transactions submitted and still valid
  landed        \* payout transactions in a ledger

dbVars     == <<witnessed, claims, nextId>>
procVars   == <<chain, pc, job, env, cache, probe>>
ledgerVars == <<acctSeq, balance, inflight, landed>>
boundVars  == <<now, requests, crashes, probes>>
vars == <<dbVars, procVars, ledgerVars, boundVars>>

Statuses == {"pending", "paid", "failed"}
Reasons  == {None, "treasury-key-unavailable", "treasury-account-unavailable",
             "horizon-rejected", "submit-ambiguous", "payout-error"}
Row == [wallet: Wallets, user: Users, witness: Witnesses, family: Families,
        status: Statuses, reason: Reasons, created: Nat]
Rewarded == [wallet: Wallets, user: Users, family: Families, witness: Witnesses]
\* On the ledger a payout shows its destination wallet; "reward" is the row it pays.
Payout == [claim: Nat, seq: Nat, reward: Rewarded]
Job == [wallet: Wallets \union {None}, family: Families \union {None},
        counted: Nat, lastHour: Nat, at: Nat,
        witness: Witnesses \union {None}, user: Users \union {None}, meets: BOOLEAN,
        anyUser: Users \union {None}, prior: Statuses \union {None},
        spendable: Nat \union {None}, readAt: Nat, id: Nat, seq: Nat, reason: Reasons]
NoJob == [wallet |-> None, family |-> None, counted |-> 0, lastHour |-> 0, at |-> 0,
          witness |-> None, user |-> None, meets |-> FALSE, anyUser |-> None,
          prior |-> None, spendable |-> None, readAt |-> 0, id |-> 0, seq |-> 0, reason |-> None]
\* A claim that has a row of its own and has not yet finished with it.
Paying == {"load", "submit", "await", "record", "fail"}
Steps  == {"idle", "witnesses", "prior", "treasury", "store", "insert"} \union Paying

Query == [wallet: Wallets, family: Families]
WitnessRow == [tx: Witnesses, user: Users, meets: BOOLEAN]
TreasuryRead == [at: Nat, value: Nat \union {None}] \union {None}

DbType ==
  /\ witnessed \in Seq(WitnessRow)
  /\ nextId \in Nat \ {0}
  /\ DOMAIN claims \subseteq 1 .. (nextId - 1)
  /\ claims \in [DOMAIN claims -> Row]
ProcType ==
  /\ chain \in [Procs -> Seq(Query)]
  /\ pc \in [Procs -> Steps]
  /\ job \in [Procs -> Job]
  /\ env \in [Procs -> Envs]
  /\ cache \in [Procs -> TreasuryRead]
  /\ probe \in [Procs -> TreasuryRead]
LedgerType ==
  /\ acctSeq \in Nat /\ balance \in Nat
  /\ inflight \subseteq Payout /\ landed \subseteq Payout
BoundType == now \in Nat /\ requests \in Nat /\ crashes \in Nat /\ probes \in Nat
TypeOK == DbType /\ ProcType /\ LedgerType /\ BoundType

Init ==
  /\ witnessed = <<>> /\ claims = <<>> /\ nextId = 1
  /\ now = 0 /\ requests = 0 /\ crashes = 0 /\ probes = 0
  /\ chain = [p \in Procs |-> <<>>]
  /\ pc = [p \in Procs |-> "idle"]
  /\ job = [p \in Procs |-> NoJob]
  /\ env \in [Procs -> Envs]
  /\ cache = [p \in Procs |-> None]
  /\ probe = [p \in Procs |-> None]
  /\ acctSeq = 0 /\ balance = InitBalance /\ inflight = {} /\ landed = {}

---------------------------------------------------------------------------
(* The eligibility rules (faucet-eligibility.ts).                          *)

campaignNotStarted(t) == StartsAt = None \/ t < StartsAt
campaignEnded(t) == EndsAt # None /\ t >= EndsAt

\* Mutants of the rules: a budget and a velocity brake off by one, no witness required.
OverBudget(p) ==
  /\ env[p].enabled /\ job[p].counted <= MaxClaims /\ job[p].lastHour < HourlyCap
  /\ job[p].witness # None /\ job[p].meets /\ job[p].prior = None
OverVelocity(p) ==
  /\ env[p].enabled /\ job[p].counted < MaxClaims /\ job[p].lastHour <= HourlyCap
  /\ job[p].witness # None /\ job[p].meets /\ job[p].prior = None
Unwitnessed(p) ==
  /\ env[p].enabled /\ job[p].counted < MaxClaims /\ job[p].lastHour < HourlyCap
  /\ job[p].prior = None

walletEligibility(p) ==
  LET j == job[p] IN
  /\ env[p].enabled
  /\ ~campaignNotStarted(j.at)
  /\ ~campaignEnded(j.at)
  /\ j.counted < MaxClaims
  /\ j.lastHour < HourlyCap
  /\ j.witness # None /\ j.meets
  /\ j.prior = None
  /\ j.spendable # None /\ j.spendable >= Reward

---------------------------------------------------------------------------
(* The facts, as the queries of the service read them.                     *)

countedClaims == Cardinality(DOMAIN claims)
claimsLastHour == Cardinality({c \in DOMAIN claims : claims[c].created > now - Hour})

\* Order of preference of the DISTINCT ON query: meets_min_notional, then the latest.
Qualifying(w, f) ==
  {i \in DOMAIN witnessed :
     LET x == TxOf[witnessed[i].tx] IN
     x.wallet = w /\ x.family = f /\ StartsAt # None /\ x.closed >= StartsAt}
BestWitness(w, f) ==
  {i \in Qualifying(w, f) : \A k \in Qualifying(w, f) :
      \/ witnessed[i].meets /\ ~witnessed[k].meets
      \/ witnessed[i].meets = witnessed[k].meets /\ i >= k}

\* witnesses[0]: the rows come ordered by kind, and blend-deposit sorts first.
FirstUser(w) ==
  LET supply == BestWitness(w, "blend-supply")
      first == IF supply # {} THEN supply ELSE BestWitness(w, "swap")
  IN IF first = {} THEN {None} ELSE {witnessed[i].user : i \in first}

\* The status of the oldest claim of the wallet or the user (no user: the wallet alone).
PriorClaim(w, f, u) ==
  LET S == {c \in DOMAIN claims :
              claims[c].family = f /\ (claims[c].wallet = w \/ claims[c].user = u)}
  IN IF S = {} THEN {None}
     ELSE {claims[c].status : c \in {d \in S : \A e \in S : d <= e}}

\* Mutant: the migration that forgets uq_faucet_claims_user_family_campaign.
KeyWithoutUser(r, s) ==
  \/ r.family = s.family /\ r.wallet = s.wallet
  \/ r.witness = s.witness

\* The unique indexes: (wallet, family), (user, family) and the witness hash.
SameKey(r, s) ==
  \/ r.family = s.family /\ (r.wallet = s.wallet \/ r.user = s.user)
  \/ r.witness = s.witness
UniqueViolation(r) == \E c \in DOMAIN claims : SameKey(claims[c], r)

---------------------------------------------------------------------------
(* The claim POST: the serial queue and the steps of claimInner.           *)

Goto(p, step) == pc' = [pc EXCEPT ![p] = step]

Keep(p, locals) == job' = [job EXCEPT ![p] = locals]

\* The claim is answered (or throws to its own caller) and the next one may start.
Done(p) == Goto(p, "idle") /\ Keep(p, NoJob)

Request(p, w, f) ==
  /\ requests < MaxRequests
  /\ requests' = requests + 1
  /\ chain' = [chain EXCEPT ![p] = Append(@, [wallet |-> w, family |-> f])]
  /\ UNCHANGED <<dbVars, pc, job, env, cache, probe, ledgerVars, now, crashes, probes>>

\* Mutant: the chain goes on from fulfilled claims only, so one that throws wedges it.
WedgingStart(p) ==
  /\ pc[p] = "idle" /\ chain[p] # <<>>
  /\ chain' = [chain EXCEPT ![p] = Tail(@)]
  /\ Goto(p, "witnesses") \/ Goto(p, "wedged")
  /\ Keep(p, [NoJob EXCEPT !.wallet = Head(chain[p]).wallet, !.family = Head(chain[p]).family])
  /\ UNCHANGED <<dbVars, env, cache, probe, ledgerVars, boundVars>>

\* campaignFacts: the counting query; it may throw.
Start(p) ==
  /\ pc[p] = "idle" /\ chain[p] # <<>>
  /\ chain' = [chain EXCEPT ![p] = Tail(@)]
  /\ \/ /\ Goto(p, "witnesses")
        /\ Keep(p, [NoJob EXCEPT
             !.wallet = Head(chain[p]).wallet, !.family = Head(chain[p]).family,
             !.counted = countedClaims, !.lastHour = claimsLastHour, !.at = now])
     \/ Done(p)
  /\ UNCHANGED <<dbVars, env, cache, probe, ledgerVars, boundVars>>

\* walletFacts, first query; like the second, it may throw.
ReadWitnesses(p) ==
  /\ pc[p] = "witnesses"
  /\ \/ /\ \E u \in FirstUser(job[p].wallet) :
             LET best == BestWitness(job[p].wallet, job[p].family) IN
             \/ best = {} /\ Keep(p, [job[p] EXCEPT !.anyUser = u])
             \/ \E i \in best : Keep(p, [job[p] EXCEPT
                  !.anyUser = u, !.witness = witnessed[i].tx,
                  !.user = witnessed[i].user, !.meets = witnessed[i].meets])
        /\ Goto(p, "prior")
     \/ Done(p)
  /\ UNCHANGED <<dbVars, chain, env, cache, probe, ledgerVars, boundVars>>

\* walletFacts, second query.
ReadPrior(p) ==
  /\ pc[p] = "prior"
  /\ \/ /\ \E status \in PriorClaim(job[p].wallet, job[p].family, job[p].anyUser) :
             Keep(p, [job[p] EXCEPT !.prior = status])
        /\ Goto(p, "treasury")
     \/ Done(p)
  /\ UNCHANGED <<dbVars, chain, env, cache, probe, ledgerVars, boundVars>>

CacheFresh(p) == cache[p] # None /\ now - cache[p].at < CacheTtl

\* What a balance read can answer: null without the key or when Horizon fails.
Spendable == IF balance > ReserveBuffer THEN balance - ReserveBuffer ELSE 0
FetchResults(p) == {None} \union (IF env[p].key THEN {Spendable} ELSE {})

ReadTreasury(p) ==
  /\ pc[p] = "treasury"
  /\ \/ /\ CacheFresh(p)
        /\ Keep(p, [job[p] EXCEPT !.spendable = cache[p].value])
        /\ Goto(p, "insert")
     \/ /\ ~CacheFresh(p)
        /\ \E v \in FetchResults(p) :
             Keep(p, [job[p] EXCEPT !.spendable = v, !.readAt = now])
        /\ Goto(p, "store")
  /\ UNCHANGED <<dbVars, chain, env, cache, probe, ledgerVars, boundVars>>

StoreTreasury(p) ==
  /\ pc[p] = "store"
  /\ cache' = [cache EXCEPT ![p] = [at |-> job[p].readAt, value |-> job[p].spendable]]
  /\ Goto(p, "insert")
  /\ UNCHANGED <<dbVars, chain, job, env, probe, ledgerVars, boundVars>>

NewRow(p) ==
  [wallet |-> job[p].wallet, user |-> job[p].user, witness |-> job[p].witness,
   family |-> job[p].family, status |-> "pending", reason |-> None, created |-> now]
AddRow(r) ==
  /\ nextId <= MaxRows
  /\ claims' = [c \in DOMAIN claims \union {nextId} |-> IF c = nextId THEN r ELSE claims[c]]
  /\ nextId' = nextId + 1

\* Not eligible, or no key to sign with: answered before anything is inserted.
Refuse(p) ==
  /\ pc[p] = "insert"
  /\ ~(walletEligibility(p) /\ env[p].key)
  /\ Done(p)
  /\ UNCHANGED <<dbVars, chain, env, cache, probe, ledgerVars, boundVars>>

\* The insert: accepted; refused by a unique index; failed with or without effect.
Insert(p) ==
  /\ pc[p] = "insert"
  /\ walletEligibility(p) /\ env[p].key
  /\ \/ /\ ~UniqueViolation(NewRow(p))
        /\ AddRow(NewRow(p))
        /\ \/ Goto(p, "load") /\ Keep(p, [job[p] EXCEPT !.id = nextId])
           \/ Done(p)
     \/ Done(p) /\ UNCHANGED <<claims, nextId>>
  /\ UNCHANGED <<witnessed, chain, env, cache, probe, ledgerVars, boundVars>>

---------------------------------------------------------------------------
(* The payout: one attempt, then the row is updated.                       *)

LoadAccount(p) ==
  /\ pc[p] = "load"
  /\ \/ Goto(p, "submit") /\ Keep(p, [job[p] EXCEPT !.seq = acctSeq + 1])
     \/ Goto(p, "fail") /\ Keep(p, [job[p] EXCEPT !.reason = "treasury-account-unavailable"])
  /\ UNCHANGED <<dbVars, chain, env, cache, probe, ledgerVars, boundVars>>

AttemptOf(p) ==
  [claim |-> job[p].id, seq |-> job[p].seq,
   reward |-> [wallet |-> job[p].wallet, user |-> job[p].user, family |-> job[p].family,
               witness |-> job[p].witness]]

\* Built, signed and handed to Horizon; still valid for its 60 s time bound.
Submit(p) ==
  /\ pc[p] = "submit"
  /\ inflight' = inflight \union {AttemptOf(p)}
  /\ Goto(p, "await")
  /\ UNCHANGED <<dbVars, chain, job, env, cache, probe, acctSeq, balance, landed, boundVars>>

\* Mutants: an ambiguous answer is taken for success, or for a rejection.
TrustingAnswer(p) ==
  /\ pc[p] = "await" /\ Goto(p, "record")
  /\ UNCHANGED <<dbVars, chain, job, env, cache, probe, ledgerVars, boundVars>>
HastyAnswer(p) ==
  /\ pc[p] = "await" /\ Goto(p, "fail")
  /\ Keep(p, [job[p] EXCEPT !.reason = "horizon-rejected"])
  /\ UNCHANGED <<dbVars, chain, env, cache, probe, ledgerVars, boundVars>>

\* Horizon's answer.  Success means the transaction is in a ledger, a 400 that it can
\* never be in one; anything else says nothing.
Answer(p) ==
  /\ pc[p] = "await"
  /\ LET t == AttemptOf(p) IN
     \/ /\ t \in landed
        /\ cache' = [cache EXCEPT ![p] = None]
        /\ Goto(p, "record")
        /\ UNCHANGED <<job, inflight>>
     \/ /\ t \notin landed
        /\ inflight' = inflight \ {t}
        /\ Keep(p, [job[p] EXCEPT !.reason = "horizon-rejected"])
        /\ Goto(p, "fail")
        /\ UNCHANGED cache
     \/ /\ Keep(p, [job[p] EXCEPT !.reason = "submit-ambiguous"])
        /\ Goto(p, "fail")
        /\ UNCHANGED <<cache, inflight>>
  /\ UNCHANGED <<dbVars, chain, env, probe, acctSeq, balance, landed, boundVars>>

SetStatus(c, status, reason) ==
  claims' = [claims EXCEPT ![c].status = status, ![c].reason = reason]

\* The UPDATE that records the payment; if it throws (whether or not it was applied) the
\* catch block records a failure instead.
RecordPaid(p) ==
  /\ pc[p] = "record"
  /\ \/ SetStatus(job[p].id, "paid", None) /\ Done(p)
     \/ /\ SetStatus(job[p].id, "paid", None) \/ UNCHANGED claims
        /\ Goto(p, "fail")
        /\ Keep(p, [job[p] EXCEPT !.reason = "payout-error"])
  /\ UNCHANGED <<witnessed, nextId, chain, env, cache, probe, ledgerVars, boundVars>>

\* The UPDATE of the catch block; if it throws too the row keeps its status.
RecordFailed(p) ==
  /\ pc[p] = "fail"
  /\ SetStatus(job[p].id, "failed", job[p].reason) \/ UNCHANGED claims
  /\ Done(p)
  /\ UNCHANGED <<witnessed, nextId, chain, env, cache, probe, ledgerVars, boundVars>>

---------------------------------------------------------------------------
(* The eligibility GET: its only effect is on the treasury cache, which it *)
(* fills after an await.                                                   *)

ProbeTreasury(p) ==
  /\ probe[p] = None /\ ~CacheFresh(p)
  /\ probes < MaxProbes
  /\ probes' = probes + 1
  /\ \E v \in FetchResults(p) : probe' = [probe EXCEPT ![p] = [at |-> now, value |-> v]]
  /\ UNCHANGED <<dbVars, chain, pc, job, env, cache, ledgerVars, now, requests, crashes>>

StoreProbe(p) ==
  /\ probe[p] # None
  /\ cache' = [cache EXCEPT ![p] = probe[p]]
  /\ probe' = [probe EXCEPT ![p] = None]
  /\ UNCHANGED <<dbVars, chain, pc, job, env, ledgerVars, boundVars>>

---------------------------------------------------------------------------
(* The surroundings.                                                       *)

\* POST /v1/actions/witness accepts a transaction for one of the wallet's owners.
VerifyWitness(x, u, meets) ==
  /\ u \in Owners[TxOf[x].wallet]
  /\ \A i \in DOMAIN witnessed : witnessed[i].tx # x
  /\ TxOf[x].closed <= now
  /\ witnessed' = Append(witnessed, [tx |-> x, user |-> u, meets |-> meets])
  /\ UNCHANGED <<claims, nextId, procVars, ledgerVars, boundVars>>

\* pm2 restarts the process: queue, locals and cache are gone, the environment is re-read.
Restart(p) ==
  /\ crashes < MaxCrashes
  /\ crashes' = crashes + 1
  /\ chain' = [chain EXCEPT ![p] = <<>>]
  /\ Done(p)
  /\ cache' = [cache EXCEPT ![p] = None]
  /\ probe' = [probe EXCEPT ![p] = None]
  /\ \E e \in Envs : env' = [env EXCEPT ![p] = e]
  /\ UNCHANGED <<dbVars, ledgerVars, now, requests, probes>>

\* The network applies a payout: its sequence number is next and the funds are there.
Land(t) ==
  /\ t \in inflight
  /\ t.seq = acctSeq + 1 /\ balance >= Reward
  /\ acctSeq' = acctSeq + 1
  /\ balance' = balance - Reward
  /\ inflight' = inflight \ {t}
  /\ landed' = landed \union {t}
  /\ UNCHANGED <<dbVars, procVars, boundVars>>

\* The time bound passes, or the transaction never reached the network.
Expire(t) ==
  /\ t \in inflight
  /\ inflight' = inflight \ {t}
  /\ UNCHANGED <<dbVars, procVars, acctSeq, balance, landed, boundVars>>

\* Founder review (docs/runbooks.md): a failed row, or a pending one no claim is working
\* on, once no payout of it can land any more: paid if one landed, deleted if none did.
Resolve(c) ==
  /\ c \in DOMAIN claims /\ claims[c].status # "paid"
  /\ \A p \in Procs : ~(pc[p] \in Paying /\ job[p].id = c)
  /\ \A t \in inflight : t.claim # c
  /\ IF \E t \in landed : t.claim = c
     THEN SetStatus(c, "paid", claims[c].reason)
     ELSE claims' = [d \in DOMAIN claims \ {c} |-> claims[d]]
  /\ UNCHANGED <<witnessed, nextId, procVars, ledgerVars, boundVars>>

Tick ==
  /\ now < MaxTime
  /\ now' = now + 1
  /\ UNCHANGED <<dbVars, procVars, ledgerVars, requests, crashes, probes>>

ClaimStep(p) ==
  \/ Start(p) \/ ReadWitnesses(p) \/ ReadPrior(p) \/ ReadTreasury(p) \/ StoreTreasury(p)
  \/ Refuse(p) \/ Insert(p) \/ LoadAccount(p) \/ Submit(p) \/ Answer(p)
  \/ RecordPaid(p) \/ RecordFailed(p)

Next ==
  \/ \E p \in Procs :
       \/ \E w \in Wallets, f \in Families : Request(p, w, f)
       \/ ClaimStep(p) \/ ProbeTreasury(p) \/ StoreProbe(p) \/ Restart(p)
  \/ \E x \in Witnesses, u \in Users, meets \in MinNotionalChecks : VerifyWitness(x, u, meets)
  \/ \E t \in inflight : Land(t) \/ Expire(t)
  \/ \E c \in DOMAIN claims : Resolve(c)
  \/ Tick

Spec == Init /\ [][Next]_vars

\* Every await of a claim returns: the queries and Horizon calls resolve or throw
\* (submitTransaction gives up after 60 s), and the event loop runs what is ready.
FairSpec == Spec /\ \A p \in Procs : WF_vars(ClaimStep(p))

---------------------------------------------------------------------------
(* Properties.                                                             *)

\* INV-9.5: whatever the interleaving of processes, restarts, lost answers and founder
\* reviews, a landed payout never conflicts with another: one reward per wallet and per
\* user for a family, and one per witnessed transaction.
Rewards == INSTANCE RewardOnce WITH rewards <- {t.reward : t \in landed}
RewardsOnce == Rewards!Spec

\* A payout that may have been paid or may still be keeps its row, for the wallet, user
\* and witness it was built for, so that the unique indexes still see it; a row that
\* failed before the submit or by a definitive 400 has no such payout.
Attempts == inflight \union landed
BooksMatchLedger ==
  \A t \in Attempts :
    /\ t.claim \in DOMAIN claims
    /\ LET r == claims[t.claim] IN
       /\ t.reward = [wallet |-> r.wallet, user |-> r.user, family |-> r.family,
                      witness |-> r.witness]
       /\ r.status = "failed" => r.reason \in {"submit-ambiguous", "payout-error"}

\* A row is marked paid, by the service or by the founder, only for a landed payout.
PaidIsPaid ==
  \A c \in DOMAIN claims : claims[c].status = "paid" => \E t \in landed : t.claim = c

\* INV-9.6, one process: rows in the books (and so rewards) never exceed the budget, in
\* spite of rows inserted by a call that reported an error and of founder deletions.
BudgetHolds == Cardinality(DOMAIN claims) <= MaxClaims

\* INV-9.6, one process: in every window of an hour at most HourlyCap rows are accepted,
\* though the count is read several awaits before the insert.
VelocityHolds ==
  \A c \in DOMAIN claims :
    LET window == {d \in DOMAIN claims :
                     /\ claims[d].created <= claims[c].created
                     /\ claims[d].created > claims[c].created - Hour}
    IN Cardinality(window) <= HourlyCap

\* A claim that throws or fails never wedges the chain: every queued claim is eventually
\* taken off the queue and answered (or lost to a restart, which empties the queue).
ClaimsAnswered ==
  \A p \in Procs : chain[p] # <<>> ~> (chain[p] = <<>> /\ pc[p] = "idle")
===========================================================================
