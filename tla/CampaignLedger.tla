---------------------------- MODULE CampaignLedger ----------------------------
(***************************************************************************)
(* The points campaign: enrolment with a referral, the daily check-in, the *)
(* self-declared social tasks (claim and delete), and the award job that   *)
(* turns Horizon-verified actions into points, credits referrals and       *)
(* grants perks.  points_ledger is append-only: a bag of rows, guarded by  *)
(* its partial unique indexes.  Only wallets with an ownership proof call. *)
(***************************************************************************)
EXTENDS Integers, Sequences, FiniteSets, Functions, Bags

CONSTANTS
  Wallets,
  Txs,              \* transaction hashes, by rank: the query orders by them
  Requests,         \* social claims that may be in progress at once
  Tasks, Handles,   \* the task catalogue; what users type in
  BasePoints,       \* [kind -> points] of ACTION_RULES
  DailyCap,         \* [kind -> awards per wallet and day] of ACTION_RULES
  CheckinPoints, ReferrerPoints, RefereePoints,
  TaskPoints, SocialCap,
  Tiers,            \* [perk -> balance that unlocks it] of PERK_TIERS
  StartDay, EndDay, \* the campaign window, EndDay excluded
  MaxDay,           \* bound on the clock, in UTC days
  MaxClaims,        \* bound on the rows of social_task_claims
  MaxFaults,        \* bound on crashes of the job and lost connections
  Free, None, Scrubbed

Kinds == DOMAIN BasePoints
Days  == 0 .. MaxDay

ASSUME RulesAssumption ==
  /\ Txs \subseteq Nat
  /\ BasePoints \in [Kinds -> Nat \ {0}] /\ DailyCap \in [Kinds -> Nat \ {0}]
  /\ TaskPoints \in [Tasks -> Nat \ {0}]
  /\ Tiers \in [DOMAIN Tiers -> Nat \ {0}]
  /\ {CheckinPoints, ReferrerPoints, RefereePoints, SocialCap} \subseteq Nat
  /\ {StartDay, EndDay, MaxDay, MaxClaims, MaxFaults} \subseteq Nat

VARIABLES
  enrolled,   \* campaign_enrollments
  links,      \* referrals: [referee -> link]
  witnesses,  \* action_witnesses: [hash -> row]
  checkins,   \* wallet_daily_checkins
  claims,     \* social_task_claims, in insertion order; the index is the id
  ledger,     \* points_ledger, a bag of rows
  perks,      \* wallet_perks
  txn,        \* social claims between their decision and their commit
  job,        \* the locals of the award job
  day,        \* today, in UTC
  peak,       \* history: the highest balance a wallet ever had
  faults

vars   == <<enrolled, links, witnesses, checkins, claims, ledger, perks, txn, job,
            day, peak, faults>>
people == <<enrolled, links, checkins>>
social == <<claims, txn>>
books  == <<ledger, peak>>

\* Mutant: the unique index leaves the reason out.
KeyWithoutReason(L, row) ==
  /\ row.reason[1] # "adjust"
  /\ \E r \in DOMAIN L : r.ref = row.ref

\* The partial unique indexes: one row per reason and reference, and per wallet
\* too for a check-in.  An adjustment has no key.
KeyTaken(L, row) ==
  /\ row.reason[1] # "adjust"
  /\ \E r \in DOMAIN L : /\ r.reason = row.reason /\ r.ref = row.ref
                         /\ row.reason[1] = "streak" => r.address = row.address

AddRow(L, row) == L (+) SetToBag({row})

\* insert ... on conflict do nothing
InsertOnce(L, row) == IF KeyTaken(L, row) THEN L ELSE AddRow(L, row)

SumOf(L, rows) == SumFunction([r \in rows |-> r.points * L[r]])

\* The balance is always sum(points), never stored.
Balance(L, w) == SumOf(L, {r \in DOMAIN L : r.address = w})

\* Rows are only ever added.  peak is a history variable: it guides nothing.
Post(L) ==
  /\ ledger' = L
  /\ peak' = [w \in Wallets |-> IF Balance(L, w) > peak[w] THEN Balance(L, w)
                                                           ELSE peak[w]]

NoLink == [referrer |-> None, at |-> -1, credited |-> FALSE]

\* The job between two runs: everything it knew is gone with its process.
Idle == [pc |-> "idle", awards |-> << >>, todo |-> {}]

Init ==
  /\ enrolled = {}
  /\ links = [w \in Wallets |-> NoLink]
  /\ witnesses = [t \in Txs |-> None]
  /\ checkins = [w \in Wallets |-> {}]
  /\ claims = << >>
  /\ ledger = EmptyBag
  /\ perks = [w \in Wallets |-> {}]
  /\ txn = [q \in Requests |-> Free]
  /\ job = Idle
  /\ day = 0 /\ peak = [w \in Wallets |-> 0] /\ faults = 0

WithinWindow(d) == StartDay <= d /\ d < EndDay

-------------------------------------------------------------------------------
(* The API: one transaction per call, under the wallet's enrolment row.    *)

\* Mutant: the referrer is taken as given, not looked up by its code.
EnrollUnchecked(w, referrer) ==
  /\ WithinWindow(day)
  /\ w \notin enrolled
  /\ enrolled' = enrolled \union {w}
  /\ links' = IF referrer = None THEN links
              ELSE [links EXCEPT ![w] = [referrer |-> referrer, at |-> day,
                                         credited |-> FALSE]]
  /\ UNCHANGED <<witnesses, checkins, social, books, perks, job, day, faults>>

\* A referral code names a wallet that is enrolled, so never the caller.
Enroll(w, referrer) ==
  /\ WithinWindow(day)
  /\ w \notin enrolled /\ referrer \in enrolled \union {None}
  /\ enrolled' = enrolled \union {w}
  /\ links' = IF referrer = None THEN links
              ELSE [links EXCEPT ![w] = [referrer |-> referrer, at |-> day,
                                         credited |-> FALSE]]
  /\ UNCHANGED <<witnesses, checkins, social, books, perks, job, day, faults>>

\* SELECT ... FOR UPDATE on the enrolment row: granted when no open claim holds it.
LockFree(w) == ~\E q \in Requests : txn[q] # Free /\ txn[q].address = w

CheckIn(w) ==
  /\ WithinWindow(day)
  /\ w \in enrolled /\ LockFree(w)
  /\ day \notin checkins[w]
  /\ checkins' = [checkins EXCEPT ![w] = @ \union {day}]
  /\ Post(AddRow(ledger, [address |-> w, reason |-> <<"streak", "daily">>,
                          ref |-> day, points |-> CheckinPoints, day |-> day]))
  /\ UNCHANGED <<enrolled, links, witnesses, social, perks, job, day, faults>>

ClaimsOf(w) == {c \in DOMAIN claims : claims[c].address = w /\ claims[c].live}

\* Mutant: the cap is met by what the wallet still holds.
NetSocialPoints(w, d) ==
  SumFunction([c \in ClaimsOf(w) |-> TaskPoints[claims[c].task]])

\* Gross: a deleted claim still counts.
socialPointsAwardedOn(w, d) ==
  SumOf(ledger, {r \in DOMAIN ledger : /\ r.address = w /\ r.day = d
                                       /\ r.reason[1] = "social"})

HandleUsedByOther(w, handle) ==
  \E c \in DOMAIN claims : /\ claims[c].live /\ claims[c].handle = handle
                           /\ claims[c].address # w

SocialClaimEligible(w, task, handle) ==
  /\ \A c \in ClaimsOf(w) : claims[c].task # task /\ claims[c].handle = handle
  /\ ~HandleUsedByOther(w, handle)
  /\ socialPointsAwardedOn(w, day) + TaskPoints[task] <= SocialCap

RoomForClaim == Len(claims) + Cardinality({q \in Requests : txn[q] # Free}) < MaxClaims

\* Mutant: the decision is taken before the lock.
ClaimUnlocked(q, w, task, handle) ==
  /\ txn[q] = Free /\ WithinWindow(day)
  /\ w \in enrolled /\ RoomForClaim
  /\ SocialClaimEligible(w, task, handle)
  /\ txn' = [txn EXCEPT ![q] = [address |-> w, task |-> task, handle |-> handle,
                                day |-> day]]
  /\ UNCHANGED <<people, witnesses, claims, books, perks, job, day, faults>>

\* The lock, the reads and the decision; a refusal changes nothing.
ClaimDecide(q, w, task, handle) ==
  /\ txn[q] = Free /\ WithinWindow(day)
  /\ w \in enrolled /\ LockFree(w) /\ RoomForClaim
  /\ SocialClaimEligible(w, task, handle)
  /\ txn' = [txn EXCEPT ![q] = [address |-> w, task |-> task, handle |-> handle,
                                day |-> day]]
  /\ UNCHANGED <<people, witnesses, claims, books, perks, job, day, faults>>

\* The two unique indexes over the claims that are not deleted.
ClaimKeyTaken(x) ==
  \E c \in DOMAIN claims : /\ claims[c].live /\ claims[c].task = x.task
                           /\ claims[c].address = x.address \/ claims[c].handle = x.handle

\* The two inserts and the commit, or the roll-back on a unique violation.
ClaimCommit(q) ==
  /\ txn[q] # Free
  /\ txn' = [txn EXCEPT ![q] = Free]
  /\ IF ClaimKeyTaken(txn[q]) THEN UNCHANGED <<claims, books>>
     ELSE /\ claims' = Append(claims, [address |-> txn[q].address, task |-> txn[q].task,
                                       handle |-> txn[q].handle, live |-> TRUE])
          /\ Post(AddRow(ledger, [address |-> txn[q].address,
                                  reason |-> <<"social", txn[q].task>>,
                                  ref |-> Len(claims) + 1,
                                  points |-> TaskPoints[txn[q].task],
                                  day |-> txn[q].day]))
  /\ UNCHANGED <<people, witnesses, perks, job, day, faults>>

\* The connection is lost: the transaction is rolled back.
ClaimAbort(q) ==
  /\ txn[q] # Free /\ faults < MaxFaults
  /\ txn' = [txn EXCEPT ![q] = Free] /\ faults' = faults + 1
  /\ UNCHANGED <<people, witnesses, claims, books, perks, job, day>>

\* Mutant: a claim that is already deleted is found again.
OwnedEvenDeleted(c) == c \in DOMAIN claims

OwnedSocialClaim(c) == c \in DOMAIN claims /\ claims[c].live

\* A soft delete, and the negative row for what the claim was credited with.
\* It needs neither an open window nor a counted day.
RemoveClaim(c) ==
  /\ OwnedSocialClaim(c) /\ LockFree(claims[c].address)
  /\ claims' = [claims EXCEPT ![c].live = FALSE, ![c].handle = Scrubbed]
  /\ \E row \in DOMAIN ledger :
       /\ row.reason[1] = "social" /\ row.ref = c
       /\ Post(AddRow(ledger, [address |-> claims[c].address,
                               reason |-> <<"adjust", "social-delete">>, ref |-> c,
                               points |-> -row.points, day |-> None]))
  /\ UNCHANGED <<people, witnesses, txn, perks, job, day, faults>>

\* POST /v1/actions/witness: a verified transaction, at any time after it closed.
Witness(t, w, kind, meets, closed) ==
  /\ witnesses[t] = None /\ closed <= day
  /\ witnesses' = [witnesses EXCEPT ![t] = [address |-> w, kind |-> kind, meets |-> meets,
                                            closed |-> closed]]
  /\ UNCHANGED <<people, social, books, perks, job, day, faults>>

-------------------------------------------------------------------------------
(* The award job: script 84, one run at a time under flock.                *)

Min2(a, b) == IF a <= b THEN a ELSE b

\* Mutant: the streak counts the day of the action.
StreakOn(w, d) ==
  Cardinality({e \in 0 .. d : \A f \in e .. d : f \in checkins[w]})

\* Consecutive check-in days that end on the day before d.
streakLengthBefore(w, d) ==
  Cardinality({e \in 0 .. d - 1 : \A f \in e .. d - 1 : f \in checkins[w]})

\* The daily ramp, in hundredths, and the product rounded half up.
streakMultiplier(n) == Min2(100 + 5 * n, 135)
pointsFor(base, multiplier) == (base * multiplier + 50) \div 100

ActionRow(t) ==
  LET x == witnesses[t] IN
  [address |-> x.address, reason |-> <<"action", x.kind>>, ref |-> t,
   points |-> pointsFor(BasePoints[x.kind],
                        streakMultiplier(streakLengthBefore(x.address, x.closed))),
   day |-> x.closed]

SameCount(r, row) == r.address = row.address /\ r.reason = row.reason /\ r.day = row.day

\* Mutant: the plan counts its own awards only.
CountedThisRun(plan, row) == Cardinality({r \in Range(plan) : SameCount(r, row)})

\* The awards of the kind on the wallet's day: the stored ones and the planned ones.
countedSameDayBefore(plan, row) ==
  Cardinality({r \in DOMAIN ledger : SameCount(r, row)})
    + Cardinality({r \in Range(plan) : SameCount(r, row)})

\* Mutant: only what closed today is looked at.
CandidatesOfToday ==
  {t \in Txs : /\ witnesses[t] # None
               /\ witnesses[t].address \in enrolled
               /\ WithinWindow(witnesses[t].closed) /\ witnesses[t].closed = day
               /\ \A r \in DOMAIN ledger :
                    ~(r.reason = <<"action", witnesses[t].kind>> /\ r.ref = t)}

\* Witnesses of enrolled wallets in the window that have no ledger row yet.
ActionCandidates ==
  {t \in Txs : /\ witnesses[t] # None
               /\ witnesses[t].address \in enrolled
               /\ WithinWindow(witnesses[t].closed)
               /\ \A r \in DOMAIN ledger :
                    ~(r.reason = <<"action", witnesses[t].kind>> /\ r.ref = t)}

OldestFirst(s, t) ==
  \/ witnesses[s].closed < witnesses[t].closed
  \/ witnesses[s].closed = witnesses[t].closed /\ s < t

Newest(S) == CHOOSE t \in S : \A s \in S \ {t} : OldestFirst(s, t)

\* Every award in candidate order, the day's counts carried forward: plan[S] is the
\* plan once the candidates S, the oldest ones, are done.
planActionAwards ==
  LET plan[S \in SUBSET ActionCandidates] ==
        IF S = {} THEN << >>
        ELSE LET t == Newest(S)  before == plan[S \ {t}]
             IN  IF /\ witnesses[t].meets
                    /\ countedSameDayBefore(before, ActionRow(t)) < DailyCap[witnesses[t].kind]
                 THEN Append(before, ActionRow(t)) ELSE before
  IN  plan[ActionCandidates]

\* The three reads and the plan.  No other process writes action rows, so the
\* reads agree; a witness that comes later is for the next run.
PlanAwards ==
  /\ job.pc = "idle"
  /\ job' = [job EXCEPT !.pc = "award", !.awards = planActionAwards]
  /\ UNCHANGED <<people, witnesses, social, books, perks, day, faults>>

\* One insert, and no transaction around the loop.
InsertAward ==
  /\ job.pc = "award" /\ job.awards # << >>
  /\ Post(InsertOnce(ledger, Head(job.awards)))
  /\ job' = [job EXCEPT !.awards = Tail(@)]
  /\ UNCHANGED <<people, witnesses, social, perks, day, faults>>

LoadReferrals ==
  /\ job.pc = "award" /\ job.awards = << >>
  /\ job' = [job EXCEPT !.pc = "referral",
                        !.todo = {w \in Wallets : /\ links[w] # NoLink
                                                  /\ ~links[w].credited}]
  /\ UNCHANGED <<people, witnesses, social, books, perks, day, faults>>

\* Mutant: the query does not start at the link.
AnyQualifyingClose(w) ==
  {witnesses[t].closed : t \in {x \in Txs : /\ witnesses[x] # None
                                            /\ witnesses[x].address = w
                                            /\ witnesses[x].meets}}

\* The referee's qualifying witnesses at or after the link.
QualifyingCloses(w) ==
  {witnesses[t].closed : t \in {x \in Txs : /\ witnesses[x] # None
                                            /\ witnesses[x].address = w
                                            /\ witnesses[x].meets
                                            /\ witnesses[x].closed >= links[w].at}}

\* referralCredit, on the earliest of them.
ReferralCredit(w, c) ==
  /\ \A d \in QualifyingCloses(w) : c <= d
  /\ links[w].at <= c /\ WithinWindow(c)

ReferralRow(address, side, points, referee, d) ==
  [address |-> address, reason |-> <<"referral", side>>, ref |-> referee,
   points |-> points, day |-> d]

\* Both rows and the mark on the link, in one transaction.
CreditReferral(w) ==
  /\ job.pc = "referral" /\ w \in job.todo
  /\ job' = [job EXCEPT !.todo = @ \ {w}]
  /\ IF \A c \in QualifyingCloses(w) : ~ReferralCredit(w, c) THEN UNCHANGED <<links, books>>
     ELSE \E c \in QualifyingCloses(w) :
            /\ ReferralCredit(w, c)
            /\ links' = [links EXCEPT ![w].credited = TRUE]
            /\ Post(InsertOnce(InsertOnce(ledger,
                      ReferralRow(links[w].referrer, "referrer", ReferrerPoints, w, c)),
                      ReferralRow(w, "referee", RefereePoints, w, c)))
  /\ UNCHANGED <<enrolled, witnesses, checkins, social, perks, day, faults>>

\* Mutant: the sum leaves out the corrections.
GrossBalance(w) ==
  SumOf(ledger, {r \in DOMAIN ledger : r.address = w /\ r.points > 0})

balancesOfEnrolled(w) == Balance(ledger, w)

\* One select for all balances; perksFor picks the tiers reached.
LoadBalances ==
  /\ job.pc = "referral" /\ job.todo = {}
  /\ job' = [job EXCEPT !.pc = "perk",
                        !.todo = {x \in enrolled \X DOMAIN Tiers :
                                    balancesOfEnrolled(x[1]) >= Tiers[x[2]]}]
  /\ UNCHANGED <<people, witnesses, social, books, perks, day, faults>>

InsertPerk(w, p) ==
  /\ job.pc = "perk" /\ <<w, p>> \in job.todo
  /\ perks' = [perks EXCEPT ![w] = @ \union {p}]
  /\ job' = [job EXCEPT !.todo = @ \ {<<w, p>>}]
  /\ UNCHANGED <<people, witnesses, social, books, day, faults>>

EndJob ==
  /\ job.pc = "perk" /\ job.todo = {}
  /\ job' = Idle
  /\ UNCHANGED <<people, witnesses, social, books, perks, day, faults>>

\* A statement throws or the process dies: exit 1, the next cron tick starts over.
Crash ==
  /\ job.pc # "idle" /\ faults < MaxFaults
  /\ job' = Idle /\ faults' = faults + 1
  /\ UNCHANGED <<people, witnesses, social, books, perks, day>>

Tick ==
  /\ day < MaxDay /\ day' = day + 1
  /\ UNCHANGED <<people, witnesses, social, books, perks, job, faults>>

JobStep ==
  \/ PlanAwards \/ InsertAward \/ LoadReferrals \/ LoadBalances \/ EndJob
  \/ \E w \in Wallets : CreditReferral(w)
  \/ \E w \in Wallets, p \in DOMAIN Tiers : InsertPerk(w, p)

Next ==
  \/ \E w \in Wallets, r \in Wallets \union {None} : Enroll(w, r)
  \/ \E w \in Wallets : CheckIn(w)
  \/ \E q \in Requests, w \in Wallets, k \in Tasks, h \in Handles : ClaimDecide(q, w, k, h)
  \/ \E q \in Requests : ClaimCommit(q) \/ ClaimAbort(q)
  \/ \E c \in 1 .. MaxClaims : RemoveClaim(c)
  \/ \E t \in Txs, w \in Wallets, k \in Kinds, meets \in BOOLEAN, d \in Days :
       Witness(t, w, k, meets, d)
  \/ JobStep \/ Crash \/ Tick


Spec == Init /\ [][Next]_vars

\* Cron starts the job again and again, and each of its statements ends.
FairSpec == Spec /\ WF_vars(JobStep)

-------------------------------------------------------------------------------
(* Properties.                                                             *)

\* Every table holds rows of its schema: a claim credited once and reversed at
\* most once, a link only between enrolled wallets.
TypeOK ==
  /\ enrolled \subseteq Wallets
  /\ \A w \in Wallets : links[w] = NoLink \/ /\ {w, links[w].referrer} \subseteq enrolled
                                             /\ links[w].referrer # w
  /\ \A t \in Txs : witnesses[t] = None \/ witnesses[t] \in
        [address : Wallets, kind : Kinds, meets : BOOLEAN, closed : 0 .. day]
  /\ \A w \in Wallets : checkins[w] \subseteq 0 .. day /\ perks[w] \subseteq DOMAIN Tiers
  /\ claims \in Seq([address : Wallets, task : Tasks, handle : Handles \union {Scrubbed},
                      live : BOOLEAN])
  /\ \A r \in DOMAIN ledger :
        /\ r.address \in Wallets /\ r.points \in Int /\ r.day \in Days \union {None}
        /\ ledger[r] = 1
  /\ job.pc \in {"idle", "award", "referral", "perk"}
  /\ day \in Days /\ faults \in 0 .. MaxFaults

ActionRowsOf(w, k, d) ==
  {r \in DOMAIN ledger : r.address = w /\ r.reason = <<"action", k>> /\ r.day = d}

\* The daily caps of ACTION_RULES hold over all runs of the job together, however
\* often it dies between two inserts and however late a witness comes in.
CapsHold ==
  \A w \in Wallets, k \in Kinds, d \in Days :
    Cardinality(ActionRowsOf(w, k, d)) <= DailyCap[k]

\* What an action earned is what the final check-in record says it should have
\* earned: the award does not depend on when the job ran.
StreakFixed ==
  \A r \in DOMAIN ledger : r.reason[1] = "action" =>
    LET streak == Cardinality({e \in 0 .. r.day - 1 :
                                 \A f \in e .. r.day - 1 : f \in checkins[r.address]})
    IN  r.points = pointsFor(BasePoints[r.reason[2]], streakMultiplier(streak))

ReferralRows(w) ==
  {r \in DOMAIN ledger : r.reason[1] = "referral" /\ r.ref = w}

\* A link is marked exactly when both sides were paid, once each, and the referee
\* has a qualifying action at or after the link and inside the window.
ReferralPaysBoth ==
  \A w \in Wallets :
    IF links[w].credited
    THEN /\ {<<r.address, r.reason[2]>> : r \in ReferralRows(w)}
              = {<<w, "referee">>, <<links[w].referrer, "referrer">>}
         /\ Cardinality(ReferralRows(w)) = 2
         /\ \E t \in Txs : /\ witnesses[t] # None
                           /\ witnesses[t].address = w /\ witnesses[t].meets
                           /\ witnesses[t].closed >= links[w].at
                           /\ WithinWindow(witnesses[t].closed)
    ELSE ReferralRows(w) = {}

\* All active claims of a wallet carry the same handle.
OneHandlePerWallet ==
  \A c, d \in DOMAIN claims :
    (claims[c].live /\ claims[d].live /\ claims[c].address = claims[d].address)
      => claims[c].handle = claims[d].handle

\* A deleted claim is worth nothing and an active one its points: the social and
\* adjust rows of a wallet sum to what its active claims are worth.
SocialBooks ==
  \A w \in Wallets :
    SumOf(ledger, {r \in DOMAIN ledger : r.address = w /\ r.reason[1] \in {"social", "adjust"}})
      = SumFunction([c \in ClaimsOf(w) |-> TaskPoints[claims[c].task]])

\* The daily social cap is gross: claim, delete, claim again never exceeds it.
SocialCapHolds ==
  \A w \in Wallets, d \in Days :
    SumOf(ledger, {r \in DOMAIN ledger : /\ r.address = w /\ r.day = d
                                         /\ r.reason[1] = "social"}) <= SocialCap

\* A perk is held only by a wallet whose balance did reach its threshold.
PerksEarned ==
  \A w \in Wallets : \A p \in perks[w] : peak[w] >= Tiers[p]

Qualifies(t) ==
  /\ witnesses[t] # None
  /\ witnesses[t].meets /\ WithinWindow(witnesses[t].closed)

Paid(t) ==
  LET x == witnesses[t]  rows == ActionRowsOf(x.address, x.kind, x.closed)
  IN  (\E r \in rows : r.ref = t) \/ Cardinality(rows) >= DailyCap[x.kind]

\* The actions are settled again and again: every qualifying witness of an enrolled
\* wallet is awarded unless the wallet's day is full.  Crashes lose nothing, and a
\* witness that comes days later still counts.
ActionsArePaid ==
  []<>(\A t \in Txs : (Qualifies(t) /\ witnesses[t].address \in enrolled) => Paid(t))

\* So are the referrals: a link whose referee acted after it, inside the window, is
\* credited, whatever the referee did before it.
ReferralsArePaid ==
  []<>(\A w \in Wallets :
         (/\ links[w] # NoLink
          /\ \E t \in Txs : /\ Qualifies(t) /\ witnesses[t].address = w
                            /\ witnesses[t].closed >= links[w].at) => links[w].credited)

\* social-claims.ts: a handle already claimed by another wallet, for any task, is
\* refused, so no two wallets hold active claims with one handle.
OneWalletPerHandle ==
  \A c, d \in DOMAIN claims :
    (claims[c].live /\ claims[d].live /\ claims[c].handle = claims[d].handle)
      => claims[c].address = claims[d].address

===============================================================================
