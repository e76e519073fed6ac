---------------------------- MODULE CampaignProofs ----------------------------
(***************************************************************************)
(* What the campaign keeps for every number of wallets, transactions,      *)
(* tasks and points: the daily caps, the streak multiplier, the referrals, *)
(* the social books and cap, one handle per wallet, and the perks.         *)
(***************************************************************************)
EXTENDS CampaignLedger, FiniteSetTheorems, SequenceTheorems, FoldProofs, TLAPS

-------------------------------------------------------------------------------
(* The ledger as a set of rows: every row is there once.                   *)

BagOK(L) == IsFiniteSet(DOMAIN L) /\ L = [r \in DOMAIN L |-> 1]

LEMMA RowAdded ==
  ASSUME NEW L, BagOK(L), NEW row, row \notin DOMAIN L
  PROVE  /\ BagOK(AddRow(L, row))
         /\ DOMAIN AddRow(L, row) = DOMAIN L \union {row}
<1>1. AddRow(L, row) = [e \in DOMAIN L \union {row} |-> IF e = row THEN 1 ELSE L[e]]
  BY DEF AddRow, (+), SetToBag, BagOK
<1>2. DOMAIN AddRow(L, row) = DOMAIN L \union {row}
  BY <1>1
<1>3. AddRow(L, row) = [e \in DOMAIN L \union {row} |-> 1]
  BY <1>1 DEF BagOK
<1>4. IsFiniteSet(DOMAIN L \union {row})
  BY FS_AddElement DEF BagOK
<1> QED BY <1>2, <1>3, <1>4 DEF BagOK

LEMMA InsertRow ==
  ASSUME NEW L, BagOK(L), NEW row, row.reason[1] # "adjust"
  PROVE  /\ BagOK(InsertOnce(L, row))
         /\ KeyTaken(L, row) => InsertOnce(L, row) = L
         /\ ~KeyTaken(L, row) => /\ DOMAIN InsertOnce(L, row) = DOMAIN L \union {row}
                                 /\ row \notin DOMAIN L
<1>1. ~KeyTaken(L, row) => row \notin DOMAIN L
  BY DEF KeyTaken
<1> QED BY <1>1, RowAdded DEF InsertOnce

LEMMA EmptyLedger == BagOK(EmptyBag) /\ DOMAIN EmptyBag = {}
  BY FS_EmptySet DEF EmptyBag, SetToBag, BagOK

\* A sum over rows is an integer and depends on nothing but the rows.
IntRows(rows) == IsFiniteSet(rows) /\ \A r \in rows : r.points \in Int

LEMMA SumOfRows ==
  ASSUME NEW L, BagOK(L), NEW rows \in SUBSET DOMAIN L, IntRows(rows)
  PROVE  SumOf(L, rows) = SumFunctionOnSet([r \in rows |-> r.points], rows)
<1>1. \A r \in rows : r.points * L[r] = r.points
  BY DEF BagOK, IntRows
<1>2. [r \in rows |-> r.points * L[r]] = [r \in rows |-> r.points]
  BY <1>1
<1> QED BY <1>2 DEF SumOf, SumFunction

LEMMA SumOfInt ==
  ASSUME NEW L, BagOK(L), NEW rows \in SUBSET DOMAIN L, IntRows(rows)
  PROVE  SumOf(L, rows) \in Int
<1>1. \A r \in rows : [x \in rows |-> x.points][r] \in Int
  BY DEF IntRows
<1> QED BY <1>1, SumOfRows, SumType DEF IntRows

LEMMA SumOfSame ==
  ASSUME NEW L, BagOK(L), NEW M, BagOK(M),
         NEW rows, rows \subseteq DOMAIN L, rows \subseteq DOMAIN M, IntRows(rows)
  PROVE  SumOf(L, rows) = SumOf(M, rows)
  BY SumOfRows

LEMMA SumOfAdd ==
  ASSUME NEW L, BagOK(L), NEW rows \in SUBSET DOMAIN L, IntRows(rows),
         NEW row, row \notin DOMAIN L, row.points \in Int,
         NEW M, BagOK(M), DOMAIN M = DOMAIN L \union {row}
  PROVE  SumOf(M, rows \union {row}) = row.points + SumOf(L, rows)
<1> DEFINE more == rows \union {row}
           f == [r \in more |-> r.points]
           g == [r \in rows |-> r.points]
<1>1. IntRows(more)
  BY FS_AddElement DEF IntRows
<1>2. SumOf(M, more) = SumFunctionOnSet(f, more)
  BY <1>1, SumOfRows
<1>3. SumOf(L, rows) = SumFunctionOnSet(g, rows)
  BY SumOfRows
<1>4. SumFunctionOnSet(f, more) = f[row] + SumFunctionOnSet(f, rows)
  <2>1. row \notin rows /\ f[row] \in Int /\ IsFiniteSet(rows)
    BY DEF IntRows
  <2>2. \A y \in rows : f[y] \in Int
    BY DEF IntRows
  <2> HIDE DEF f
  <2> QED BY <2>1, <2>2, SumAdd
<1>5. SumFunctionOnSet(f, rows) = SumFunctionOnSet(g, rows)
  <2>1. \A x \in rows : g[x] \in Int /\ f[x] = g[x]
    BY DEF IntRows
  <2>2. IsFiniteSet(rows)
    BY DEF IntRows
  <2> HIDE DEF f, g
  <2> QED BY <2>1, <2>2, SumSame
<1>6. f[row] = row.points
  OBVIOUS
<1> QED BY <1>2, <1>3, <1>4, <1>5, <1>6

-------------------------------------------------------------------------------
(* Points and streaks.                                                     *)

\* The streak before a day does not see a check-in of that day or a later one.
LEMMA StreakStable ==
  ASSUME NEW d \in Nat, NEW D, NEW E, \A f \in 0 .. d - 1 : f \in D <=> f \in E
  PROVE  Cardinality({e \in 0 .. d - 1 : \A f \in e .. d - 1 : f \in D})
           = Cardinality({e \in 0 .. d - 1 : \A f \in e .. d - 1 : f \in E})
<1>1. {e \in 0 .. d - 1 : \A f \in e .. d - 1 : f \in D}
        = {e \in 0 .. d - 1 : \A f \in e .. d - 1 : f \in E}
  OBVIOUS
<1> QED BY <1>1

LEMMA PointsType ==
  ASSUME NEW base \in Nat, NEW n \in Nat
  PROVE  pointsFor(base, streakMultiplier(n)) \in Int
<1>1. streakMultiplier(n) \in Int
  BY DEF streakMultiplier, Min2
<1>2. base * streakMultiplier(n) \in Int
  BY <1>1
<1> QED BY <1>2 DEF pointsFor

LEMMA StreakType ==
  ASSUME NEW d \in Int, NEW D
  PROVE  Cardinality({e \in 0 .. d - 1 : \A f \in e .. d - 1 : f \in D}) \in Nat
<1>1. IsFiniteSet(0 .. d - 1)
  BY FS_Interval
<1>2. IsFiniteSet({e \in 0 .. d - 1 : \A f \in e .. d - 1 : f \in D})
  BY <1>1, FS_Subset
<1> QED BY <1>2, FS_CardinalityType

-------------------------------------------------------------------------------
(* The inductive invariant.                                                *)

Link    == [referrer : Wallets \union {None}, at : Int, credited : BOOLEAN]
Witnessed == [address : Wallets, kind : Kinds, meets : BOOLEAN, closed : Nat]
OpenClaim == [address : Wallets, task : Tasks, handle : Handles, day : Days]

CheckinRow == [address : Wallets, reason : {<<"streak", "daily">>}, ref : Nat,
               points : {CheckinPoints}, day : Days]
SocialRow  == [address : Wallets, reason : {"social"} \X Tasks, ref : Nat,
               points : Int, day : Days]
AdjustRow  == [address : Wallets, reason : {<<"adjust", "social-delete">>}, ref : Nat,
               points : Int, day : {None}]
AwardRow   == [address : Wallets, reason : {"action"} \X Kinds, ref : Txs,
               points : Int, day : Days]
PaidRow    == [address : Wallets, reason : {"referral"} \X {"referrer", "referee"},
               ref : Wallets, points : Int, day : Days]

Rows == CheckinRow \union SocialRow \union AdjustRow \union AwardRow \union PaidRow

ClaimRec == [address : Wallets, task : Tasks, handle : Handles \union {Scrubbed},
             live : BOOLEAN]

PeopleOK ==
  /\ enrolled \subseteq Wallets
  /\ links \in [Wallets -> Link]
  /\ \A w \in Wallets : links[w] # NoLink =>
       /\ {w, links[w].referrer} \subseteq enrolled
       /\ links[w].referrer # w
  /\ \A w \in Wallets : links[w] # NoLink => links[w].at \in 0 .. day
  /\ checkins \in [Wallets -> SUBSET Nat]
  /\ \A w \in Wallets : checkins[w] \subseteq 0 .. day

WitnessOK ==
  /\ witnesses \in [Txs -> Witnessed \union {None}]
  /\ \A t \in Txs : witnesses[t] # None => witnesses[t].closed <= day
  /\ IsFiniteSet({t \in Txs : witnesses[t] # None})

SocialOK ==
  /\ claims \in Seq(ClaimRec)
  /\ txn \in [Requests -> OpenClaim \union {Free}]

LedgerOK ==
  /\ BagOK(ledger)
  /\ DOMAIN ledger \subseteq Rows
  /\ peak \in [Wallets -> Int]

JobOK ==
  /\ job \in [pc : {"idle", "award", "referral", "perk"}, awards : Seq(AwardRow),
              todo : SUBSET (Wallets \union (Wallets \X DOMAIN Tiers))]
  /\ perks \in [Wallets -> SUBSET DOMAIN Tiers]

ClockOK == day \in Days /\ faults \in 0 .. MaxFaults

\* The state is made of records of the schema, and the ledger holds rows of the five
\* reasons, each once.
TypeInv ==
  /\ PeopleOK /\ WitnessOK /\ SocialOK
  /\ LedgerOK /\ JobOK /\ ClockOK

\* A check-in row is backed by its check-in, a social row by its claim, and only a
\* deleted claim has been reversed: so no row is ever posted twice.
RowsBacked ==
  \A r \in DOMAIN ledger :
    /\ r.reason[1] = "streak" => r.ref \in checkins[r.address]
    /\ r.reason[1] = "social" => /\ r.ref \in DOMAIN claims
                                 /\ r.points = TaskPoints[claims[r.ref].task]
    /\ r.reason[1] = "adjust" => /\ r.ref \in DOMAIN claims /\ ~claims[r.ref].live

\* One open claim per wallet, decided on what the wallet still holds.
Locked ==
  /\ \A p, q \in Requests :
       (txn[p] # Free /\ txn[q] # Free /\ txn[p].address = txn[q].address) => p = q
  /\ \A q \in Requests : txn[q] # Free =>
       /\ \A c \in ClaimsOf(txn[q].address) : claims[c].handle = txn[q].handle
       /\ socialPointsAwardedOn(txn[q].address, txn[q].day) + TaskPoints[txn[q].task]
            <= SocialCap

PointsDue(r) ==
  r.points = pointsFor(BasePoints[r.reason[2]],
                       streakMultiplier(streakLengthBefore(r.address, r.day)))

PlannedOf(w, k, d) ==
  {r \in Range(job.awards) : r.address = w /\ r.reason = <<"action", k>> /\ r.day = d}

\* The plan and the ledger together keep the caps, and every award, planned or
\* stored, is worth what the check-ins before its day say.
AwardsDue ==
  /\ job.pc # "award" => job.awards = << >>
  /\ \A w \in Wallets, k \in Kinds, d \in Days :
       Cardinality(ActionRowsOf(w, k, d) \union PlannedOf(w, k, d)) <= DailyCap[k]
  /\ \A r \in DOMAIN ledger \union Range(job.awards) :
       r.reason[1] = "action" => r.day <= day /\ PointsDue(r)

\* The job credits a link it found uncredited.
ReferralsDue ==
  job.pc = "referral" =>
    \A w \in job.todo : w \in Wallets /\ links[w] # NoLink /\ ~links[w].credited

\* A perk to be granted was reached when the balances were read.
PerksDue ==
  /\ \A w \in Wallets : Balance(ledger, w) <= peak[w]
  /\ job.pc = "perk" =>
       \A x \in job.todo : x \in Wallets \X DOMAIN Tiers /\ peak[x[1]] >= Tiers[x[2]]

SocialInv == Locked /\ OneHandlePerWallet /\ SocialBooks /\ SocialCapHolds

IInv ==
  /\ TypeInv /\ RowsBacked
  /\ SocialInv
  /\ AwardsDue
  /\ ReferralsDue /\ ReferralPaysBoth
  /\ PerksDue /\ PerksEarned

-------------------------------------------------------------------------------
(* Rows.                                                                   *)

LEMMA RowFacts ==
  ASSUME NEW r \in Rows
  PROVE  /\ r.address \in Wallets /\ r.points \in Int /\ r.day \in Days \union {None}
         /\ r.reason[1] = "streak" => r \in CheckinRow
         /\ r.reason[1] = "social" => r \in SocialRow
         /\ r.reason[1] = "adjust" => r \in AdjustRow
         /\ r.reason[1] = "action" => r \in AwardRow
         /\ r.reason[1] = "referral" => r \in PaidRow
<1>1. CheckinPoints \in Int
  BY RulesAssumption
<1>2. CASE r \in CheckinRow
  BY <1>1, <1>2 DEF CheckinRow
<1>3. CASE r \in SocialRow
  BY <1>3 DEF SocialRow
<1>4. CASE r \in AdjustRow
  BY <1>4 DEF AdjustRow
<1>5. CASE r \in AwardRow
  BY <1>5 DEF AwardRow
<1>6. CASE r \in PaidRow
  BY <1>6 DEF PaidRow
<1> QED BY <1>2, <1>3, <1>4, <1>5, <1>6 DEF Rows

LEMMA AwardFacts ==
  ASSUME NEW r \in AwardRow
  PROVE  /\ r \in Rows /\ r.reason[1] = "action" /\ r.reason = <<"action", r.reason[2]>>
         /\ r.reason[2] \in Kinds /\ r.ref \in Txs /\ r.day \in Days
  BY DEF AwardRow, Rows

LEMMA RowsAreInts ==
  ASSUME NEW L, BagOK(L), DOMAIN L \subseteq Rows, NEW rows \in SUBSET DOMAIN L
  PROVE  IntRows(rows)
<1>1. IsFiniteSet(rows)
  BY FS_Subset DEF BagOK
<1> QED BY <1>1, RowFacts DEF IntRows

LEMMA SumType2 ==
  ASSUME NEW L, BagOK(L), DOMAIN L \subseteq Rows, NEW rows \in SUBSET DOMAIN L
  PROVE  SumOf(L, rows) \in Int
  BY RowsAreInts, SumOfInt

\* The highest balance is one, and covers the balance of the day.
LEMMA PostPeak ==
  ASSUME peak \in [Wallets -> Int], NEW L, BagOK(L), DOMAIN L \subseteq Rows, Post(L)
  PROVE  /\ peak' \in [Wallets -> Int]
         /\ \A w \in Wallets : /\ peak'[w] >= peak[w]
                               /\ Balance(ledger', w) <= peak'[w]
<1>1. \A w \in Wallets : Balance(L, w) \in Int
  BY SumType2 DEF Balance
<1> DEFINE b(w) == Balance(L, w)
<1>2. ledger' = L /\ peak' = [w \in Wallets |-> IF b(w) > peak[w] THEN b(w) ELSE peak[w]]
  BY DEF Post
<1>3. \A w \in Wallets : b(w) \in Int /\ peak[w] \in Int
  BY <1>1
<1> HIDE DEF b
<1>4. /\ peak' \in [Wallets -> Int]
      /\ \A w \in Wallets : peak'[w] >= peak[w] /\ b(w) <= peak'[w]
  BY <1>2, <1>3
<1> QED BY <1>2, <1>4 DEF b

LEMMA DaysFacts == /\ Days = 0 .. MaxDay /\ MaxDay \in Nat /\ MaxFaults \in Nat
                   /\ CheckinPoints \in Nat /\ SocialCap \in Nat
                   /\ ReferrerPoints \in Nat /\ RefereePoints \in Nat
                   /\ TaskPoints \in [Tasks -> Nat \ {0}]
                   /\ BasePoints \in [Kinds -> Nat \ {0}]
                   /\ DailyCap \in [Kinds -> Nat \ {0}]
                   /\ Tiers \in [DOMAIN Tiers -> Nat \ {0}]
  BY RulesAssumption DEF Days

-------------------------------------------------------------------------------
(* Types.                                                                  *)

\* What the runs check of the types follows.
LEMMA TypeInvIsOK == TypeInv => TypeOK
<1> SUFFICES ASSUME TypeInv PROVE TypeOK
  OBVIOUS
<1>1. \A w \in Wallets :
        \/ links[w] = NoLink
        \/ {w, links[w].referrer} \subseteq enrolled /\ links[w].referrer # w
  BY DEF TypeInv, PeopleOK
<1>2. \A t \in Txs : witnesses[t] = None \/ witnesses[t] \in
        [address : Wallets, kind : Kinds, meets : BOOLEAN, closed : 0 .. day]
  <2>1. SUFFICES ASSUME NEW t \in Txs, witnesses[t] # None
                 PROVE  witnesses[t] \in
        [address : Wallets, kind : Kinds, meets : BOOLEAN, closed : 0 .. day]
    OBVIOUS
  <2>2. witnesses[t] \in Witnessed /\ witnesses[t].closed <= day /\ day \in Int
    BY <2>1, DaysFacts DEF TypeInv, WitnessOK, ClockOK
  <2>3. witnesses[t].closed \in 0 .. day
    BY <2>2 DEF Witnessed
  <2> QED BY <2>2, <2>3 DEF Witnessed
<1>3. \A w \in Wallets : checkins[w] \subseteq 0 .. day /\ perks[w] \subseteq DOMAIN Tiers
  BY DEF TypeInv, PeopleOK, JobOK
<1>4. claims \in Seq([address : Wallets, task : Tasks, handle : Handles \union {Scrubbed},
                      live : BOOLEAN])
  BY DEF TypeInv, SocialOK, ClaimRec
<1>5. \A r \in DOMAIN ledger :
        /\ r.address \in Wallets /\ r.points \in Int /\ r.day \in Days \union {None}
        /\ ledger[r] = 1
  BY RowFacts DEF TypeInv, LedgerOK, BagOK
<1>6. job.pc \in {"idle", "award", "referral", "perk"}
  BY DEF TypeInv, JobOK
<1> QED BY <1>1, <1>2, <1>3, <1>4, <1>5, <1>6 DEF TypeOK, TypeInv, PeopleOK, ClockOK

LEMMA InitType == Init => TypeInv
<1> SUFFICES ASSUME Init PROVE TypeInv
  OBVIOUS
<1>1. PeopleOK
  BY DEF Init, PeopleOK, Link, NoLink
<1>2. WitnessOK
  <2>1. {t \in Txs : witnesses[t] # None} = {}
    BY DEF Init
  <2> QED BY <2>1, FS_EmptySet DEF Init, WitnessOK
<1>3. SocialOK
  BY DEF Init, SocialOK
<1>4. LedgerOK
  BY EmptyLedger DEF Init, LedgerOK
<1>5. JobOK
  BY DEF Init, JobOK, Idle
<1>6. ClockOK
  BY DaysFacts DEF Init, ClockOK
<1> QED BY <1>1, <1>2, <1>3, <1>4, <1>5, <1>6 DEF TypeInv

\* What a step that adds the rows new to the ledger does.
Grown(new) ==
  /\ BagOK(ledger') /\ DOMAIN ledger' = DOMAIN ledger \union new
  /\ new \subseteq Rows /\ new \intersect DOMAIN ledger = {}
  /\ peak' \in [Wallets -> Int]
  /\ \A w \in Wallets : peak'[w] >= peak[w] /\ Balance(ledger', w) <= peak'[w]

LEMMA GrownOne ==
  ASSUME LedgerOK, NEW row \in Rows, row \notin DOMAIN ledger, Post(AddRow(ledger, row))
  PROVE  Grown({row})
<1> DEFINE L == AddRow(ledger, row)
<1>1. BagOK(L) /\ DOMAIN L = DOMAIN ledger \union {row}
  BY RowAdded DEF LedgerOK
<1>2. DOMAIN L \subseteq Rows
  BY <1>1 DEF LedgerOK
<1>3. Post(L) /\ ledger' = L
  BY DEF Post
<1> HIDE DEF L
<1>4. /\ peak' \in [Wallets -> Int]
      /\ \A w \in Wallets : peak'[w] >= peak[w] /\ Balance(ledger', w) <= peak'[w]
  BY <1>1, <1>2, <1>3, PostPeak DEF LedgerOK
<1> QED BY <1>1, <1>3, <1>4 DEF Grown

\* Nothing added: the highest balances are written again.
LEMMA GrownNone ==
  ASSUME LedgerOK, Post(ledger)
  PROVE  Grown({})
<1>1. /\ peak' \in [Wallets -> Int]
      /\ \A w \in Wallets : peak'[w] >= peak[w] /\ Balance(ledger', w) <= peak'[w]
  BY PostPeak DEF LedgerOK
<1>2. ledger' = ledger
  BY DEF Post
<1> QED BY <1>1, <1>2 DEF Grown, LedgerOK, BagOK

LEMMA GrownType ==
  ASSUME LedgerOK, NEW new, Grown(new)
  PROVE  LedgerOK'
<1>1. DOMAIN ledger' \subseteq Rows
  BY DEF LedgerOK, Grown
<1> QED BY <1>1 DEF LedgerOK, Grown, BagOK

LEMMA EnrollType ==
  ASSUME TypeInv, NEW w \in Wallets, NEW r \in Wallets \union {None}, Enroll(w, r)
  PROVE  TypeInv'
<1>1. PeopleOK'
  <2>1. enrolled' = enrolled \union {w} /\ enrolled' \subseteq Wallets
    BY DEF Enroll, TypeInv, PeopleOK
  <2>2. checkins' = checkins /\ day' = day /\ day \in Int /\ 0 <= day
    BY DaysFacts DEF Enroll, TypeInv, ClockOK
  <2>3. CASE r = None
    <3>1. links' = links
      BY <2>3 DEF Enroll
    <3> QED BY <2>1, <2>2, <3>1 DEF TypeInv, PeopleOK
  <2>4. CASE r # None
    <3> DEFINE l == [referrer |-> r, at |-> day, credited |-> FALSE]
    <3>1. links' = [links EXCEPT ![w] = l]
      BY <2>4 DEF Enroll
    <3>2. /\ l \in Link /\ l.referrer = r /\ l.at = day
          /\ r \in enrolled /\ w \notin enrolled
      BY <2>2, <2>4 DEF Enroll, Link
    <3> HIDE DEF l
    <3>3. links' \in [Wallets -> Link]
      BY <3>1, <3>2 DEF TypeInv, PeopleOK
    <3>4. ASSUME NEW v \in Wallets, links'[v] # NoLink
          PROVE  /\ {v, links'[v].referrer} \subseteq enrolled'
                 /\ links'[v].referrer # v /\ links'[v].at \in 0 .. day'
      BY <2>1, <2>2, <3>1, <3>2, <3>4 DEF TypeInv, PeopleOK
    <3> QED BY <2>1, <2>2, <3>3, <3>4 DEF TypeInv, PeopleOK
  <2> QED BY <2>3, <2>4
<1>2. UNCHANGED <<witnesses, social, books, perks, job, day, faults>>
  BY DEF Enroll
<1> QED BY <1>1, <1>2 DEF TypeInv, WitnessOK, SocialOK, LedgerOK, BagOK, JobOK, ClockOK,
                          social, books

LEMMA CheckInGrows ==
  ASSUME TypeInv, RowsBacked, NEW w \in Wallets, CheckIn(w)
  PROVE  \E row \in CheckinRow : Grown({row}) /\ row.address = w /\ row.ref = day
<1> DEFINE row == [address |-> w, reason |-> <<"streak", "daily">>,
                   ref |-> day, points |-> CheckinPoints, day |-> day]
<1>1. row \in CheckinRow /\ row.address = w /\ row.ref = day /\ row.reason[1] = "streak"
  BY DaysFacts DEF CheckinRow, TypeInv, ClockOK
<1>2. Post(AddRow(ledger, row)) /\ day \notin checkins[w]
  BY DEF CheckIn
<1> HIDE DEF row
<1>3. row \notin DOMAIN ledger
  BY <1>1, <1>2 DEF RowsBacked
<1>4. Grown({row})
  BY <1>1, <1>2, <1>3, GrownOne DEF TypeInv, Rows
<1> QED BY <1>1, <1>4

LEMMA CheckInType ==
  ASSUME TypeInv, RowsBacked, NEW w \in Wallets, CheckIn(w)
  PROVE  TypeInv'
<1>1. LedgerOK'
  BY CheckInGrows, GrownType DEF TypeInv
<1>2. PeopleOK'
  <2>1. /\ checkins' = [checkins EXCEPT ![w] = @ \union {day}]
        /\ UNCHANGED <<enrolled, links, day>>
    BY DEF CheckIn
  <2>2. day \in Nat
    BY DaysFacts DEF TypeInv, ClockOK
  <2> QED BY <2>1, <2>2 DEF TypeInv, PeopleOK
<1>3. UNCHANGED <<witnesses, social, perks, job, day, faults>>
  BY DEF CheckIn
<1> QED BY <1>1, <1>2, <1>3 DEF TypeInv, WitnessOK, SocialOK, JobOK, ClockOK, social

LEMMA ClaimDecideType ==
  ASSUME TypeInv, NEW q \in Requests, NEW w \in Wallets, NEW k \in Tasks, NEW h \in Handles,
         ClaimDecide(q, w, k, h)
  PROVE  TypeInv'
<1>1. SocialOK'
  <2> DEFINE x == [address |-> w, task |-> k, handle |-> h, day |-> day]
  <2>1. txn' = [txn EXCEPT ![q] = x] /\ claims' = claims
    BY DEF ClaimDecide
  <2>2. x \in OpenClaim
    BY DEF OpenClaim, TypeInv, ClockOK
  <2> HIDE DEF x
  <2> QED BY <2>1, <2>2 DEF TypeInv, SocialOK
<1>2. UNCHANGED <<people, witnesses, books, perks, job, day, faults>>
  BY DEF ClaimDecide
<1> QED BY <1>1, <1>2 DEF TypeInv, PeopleOK, WitnessOK, LedgerOK, BagOK, JobOK, ClockOK,
                          people, books

\* What a claim that is committed leaves behind.
LEMMA ClaimCommitGrows ==
  ASSUME TypeInv, RowsBacked, NEW q \in Requests, ClaimCommit(q), ~ClaimKeyTaken(txn[q])
  PROVE  \E row \in SocialRow, c \in ClaimRec :
           /\ Grown({row}) /\ claims' = Append(claims, c)
           /\ row.address = txn[q].address /\ row.day = txn[q].day
           /\ row.ref = Len(claims) + 1 /\ row.points = TaskPoints[txn[q].task]
           /\ row.reason[1] = "social"
           /\ c.live /\ c.address = txn[q].address
           /\ c.task = txn[q].task /\ c.handle = txn[q].handle
<1> DEFINE row == [address |-> txn[q].address, reason |-> <<"social", txn[q].task>>,
                   ref |-> Len(claims) + 1, points |-> TaskPoints[txn[q].task],
                   day |-> txn[q].day]
           c == [address |-> txn[q].address, task |-> txn[q].task,
                 handle |-> txn[q].handle, live |-> TRUE]
<1>1. /\ claims' = Append(claims, c) /\ Post(AddRow(ledger, row))
      /\ txn[q] \in OpenClaim
  BY DEF ClaimCommit, TypeInv, SocialOK
<1>2. c \in ClaimRec
  BY <1>1 DEF ClaimRec, OpenClaim
<1>3. row \in SocialRow
  <2>1. Len(claims) + 1 \in Nat
    BY LenProperties DEF TypeInv, SocialOK
  <2>2. TaskPoints[txn[q].task] \in Int
    BY <1>1, DaysFacts DEF OpenClaim
  <2> QED BY <1>1, <2>1, <2>2 DEF SocialRow, OpenClaim
<1>4. /\ row.ref = Len(claims) + 1 /\ row.reason[1] = "social"
      /\ row.address = txn[q].address /\ row.day = txn[q].day
      /\ row.points = TaskPoints[txn[q].task]
  OBVIOUS
<1>5. /\ c.live /\ c.address = txn[q].address
      /\ c.task = txn[q].task /\ c.handle = txn[q].handle
  OBVIOUS
<1> HIDE DEF row, c
<1>6. row \notin DOMAIN ledger
  <2>1. DOMAIN claims = 1 .. Len(claims) /\ Len(claims) \in Nat
    BY LenProperties DEF TypeInv, SocialOK
  <2> QED BY <1>4, <2>1 DEF RowsBacked
<1>7. Grown({row})
  BY <1>1, <1>3, <1>6, GrownOne DEF TypeInv, Rows
<1> QED BY <1>1, <1>2, <1>3, <1>4, <1>5, <1>7

LEMMA ClaimCommitType ==
  ASSUME TypeInv, RowsBacked, NEW q \in Requests, ClaimCommit(q)
  PROVE  TypeInv'
<1>1. SocialOK' /\ LedgerOK'
  <2>1. txn' = [txn EXCEPT ![q] = Free]
    BY DEF ClaimCommit
  <2>2. txn' \in [Requests -> OpenClaim \union {Free}]
    BY <2>1 DEF TypeInv, SocialOK
  <2>3. CASE ClaimKeyTaken(txn[q])
    <3>1. UNCHANGED <<claims, books>>
      BY <2>3 DEF ClaimCommit
    <3> QED BY <2>2, <3>1 DEF TypeInv, SocialOK, LedgerOK, BagOK, books
  <2>4. CASE ~ClaimKeyTaken(txn[q])
    <3>1. PICK row \in SocialRow, c \in ClaimRec : Grown({row}) /\ claims' = Append(claims, c)
      BY <2>4, ClaimCommitGrows
    <3>2. claims' \in Seq(ClaimRec)
      BY <3>1, AppendProperties DEF TypeInv, SocialOK
    <3>3. LedgerOK'
      BY <3>1, GrownType DEF TypeInv
    <3> QED BY <2>2, <3>2, <3>3 DEF SocialOK
  <2> QED BY <2>3, <2>4
<1>2. UNCHANGED <<people, witnesses, perks, job, day, faults>>
  BY DEF ClaimCommit
<1> QED BY <1>1, <1>2 DEF TypeInv, PeopleOK, WitnessOK, JobOK, ClockOK, people

LEMMA ClaimAbortType ==
  ASSUME TypeInv, NEW q \in Requests, ClaimAbort(q)
  PROVE  TypeInv'
<1>1. SocialOK'
  <2>1. txn' = [txn EXCEPT ![q] = Free] /\ claims' = claims
    BY DEF ClaimAbort
  <2> QED BY <2>1 DEF TypeInv, SocialOK
<1>2. ClockOK'
  BY DaysFacts DEF ClaimAbort, TypeInv, ClockOK
<1>3. UNCHANGED <<people, witnesses, books, perks, job, day>>
  BY DEF ClaimAbort
<1> QED BY <1>1, <1>2, <1>3 DEF TypeInv, PeopleOK, WitnessOK, LedgerOK, BagOK, JobOK,
                          people, books

LEMMA RemoveClaimGrows ==
  ASSUME TypeInv, RowsBacked, NEW c \in 1 .. MaxClaims, RemoveClaim(c)
  PROVE  \E row \in AdjustRow :
           /\ Grown({row})
           /\ row.address = claims[c].address /\ row.ref = c /\ row.reason[1] = "adjust"
           /\ row.points = -TaskPoints[claims[c].task]
<1>1. PICK paid \in DOMAIN ledger :
        /\ paid.reason[1] = "social" /\ paid.ref = c
        /\ Post(AddRow(ledger, [address |-> claims[c].address,
                                reason |-> <<"adjust", "social-delete">>, ref |-> c,
                                points |-> -paid.points, day |-> None]))
  BY DEF RemoveClaim
<1> DEFINE row == [address |-> claims[c].address, reason |-> <<"adjust", "social-delete">>,
                   ref |-> c, points |-> -paid.points, day |-> None]
<1>2. c \in DOMAIN claims /\ claims[c].live /\ claims[c] \in ClaimRec
  <2>1. c \in DOMAIN claims /\ claims[c].live
    BY DEF RemoveClaim, OwnedSocialClaim
  <2>2. claims[c] \in ClaimRec
    BY <2>1, ElementOfSeq DEF TypeInv, SocialOK
  <2> QED BY <2>1, <2>2
<1>3. paid.points = TaskPoints[claims[c].task] /\ paid.points \in Int
  <2>1. paid \in Rows
    BY DEF TypeInv, LedgerOK
  <2>2. paid.points \in Int
    BY <2>1, RowFacts
  <2> QED BY <1>1, <2>2 DEF RowsBacked
<1>4. row \in AdjustRow
  <2>1. c \in Nat /\ -paid.points \in Int /\ claims[c].address \in Wallets
    BY <1>2, <1>3, DaysFacts DEF ClaimRec
  <2> QED BY <2>1 DEF AdjustRow
<1>5. /\ row.address = claims[c].address /\ row.ref = c /\ row.reason[1] = "adjust"
      /\ row.points = -paid.points
  OBVIOUS
<1>6. Post(AddRow(ledger, row))
  BY <1>1
<1> HIDE DEF row
<1>7. row \notin DOMAIN ledger
  BY <1>2, <1>5 DEF RowsBacked
<1>8. Grown({row})
  BY <1>4, <1>6, <1>7, GrownOne DEF TypeInv, Rows
<1> QED BY <1>3, <1>4, <1>5, <1>8

\* A record with two fields set is the record of its values.
LEMMA ScrubClaim ==
  ASSUME NEW Flags, NEW old \in [address : Wallets, task : Tasks,
                                 handle : Handles \union {Scrubbed}, live : Flags],
         NEW off, NEW h
  PROVE  [old EXCEPT !.live = off, !.handle = h]
           = [address |-> old.address, task |-> old.task, handle |-> h, live |-> off]
<1> DEFINE R == [address : {old.address}, task : {old.task}, handle : {h}, live : {off}]
<1>1. [old EXCEPT !.live = off, !.handle = h] \in R
  OBVIOUS
<1>2. [address |-> old.address, task |-> old.task, handle |-> h, live |-> off] \in R
  OBVIOUS
<1> QED BY <1>1, <1>2

\* The deleted claim changes, its wallet and task do not, nor does any other claim.
LEMMA RemovedClaim ==
  ASSUME TypeInv, NEW c \in 1 .. MaxClaims, RemoveClaim(c)
  PROVE  /\ c \in DOMAIN claims /\ claims[c].live
         /\ claims' \in Seq(ClaimRec) /\ DOMAIN claims' = DOMAIN claims
         /\ \A d \in DOMAIN claims : d # c => claims'[d] = claims[d]
         /\ ~claims'[c].live
         /\ claims'[c].address = claims[c].address /\ claims'[c].task = claims[c].task
<1>1. /\ claims' = [claims EXCEPT ![c].live = FALSE, ![c].handle = Scrubbed]
      /\ c \in DOMAIN claims /\ claims[c].live
  BY DEF RemoveClaim, OwnedSocialClaim
<1> DEFINE x == [address |-> claims[c].address, task |-> claims[c].task,
                 handle |-> Scrubbed, live |-> FALSE]
<1>2. claims[c] \in ClaimRec /\ c \in 1 .. Len(claims)
  BY <1>1, ElementOfSeq, LenProperties DEF TypeInv, SocialOK
<1>3. x \in ClaimRec
  BY <1>2 DEF ClaimRec
<1>4. claims' = [claims EXCEPT ![c] = x]
  <2> DEFINE old == claims[c]
             off == [old EXCEPT !.live = FALSE]
             mid == [claims EXCEPT ![c] = off]
  <2>0. claims' = [mid EXCEPT ![c] = [mid[c] EXCEPT !.handle = Scrubbed]]
    BY <1>1, Zenon
  <2>1. claims' = [claims EXCEPT ![c] = [off EXCEPT !.handle = Scrubbed]]
    <3> HIDE DEF off
    <3> QED BY <1>1, <2>0
  <2>2. [off EXCEPT !.handle = Scrubbed] = x
    BY <1>2, ScrubClaim DEF ClaimRec
  <2> HIDE DEF off, x
  <2> QED BY <2>1, <2>2
<1>5. x.live = FALSE /\ x.address = claims[c].address /\ x.task = claims[c].task
  OBVIOUS
<1> HIDE DEF x
<1>6. claims \in Seq(ClaimRec)
  BY DEF TypeInv, SocialOK
<1>7. claims' \in Seq(ClaimRec)
  BY <1>2, <1>3, <1>4, <1>6, ExceptSeq
<1>8. DOMAIN claims' = DOMAIN claims /\ claims'[c] = x
      /\ \A d \in DOMAIN claims : d # c => claims'[d] = claims[d]
  BY <1>1, <1>4
<1> QED BY <1>1, <1>5, <1>7, <1>8

LEMMA RemoveClaimType ==
  ASSUME TypeInv, RowsBacked, NEW c \in 1 .. MaxClaims, RemoveClaim(c)
  PROVE  TypeInv'
<1>1. LedgerOK'
  BY RemoveClaimGrows, GrownType DEF TypeInv
<1>2. SocialOK'
  BY RemovedClaim DEF RemoveClaim, TypeInv, SocialOK
<1>3. UNCHANGED <<people, witnesses, perks, job, day, faults>>
  BY DEF RemoveClaim
<1> QED BY <1>1, <1>2, <1>3 DEF TypeInv, PeopleOK, WitnessOK, JobOK, ClockOK, people

\* The claim that is added is the last one.
LEMMA AddedClaim ==
  ASSUME claims \in Seq(ClaimRec), NEW c \in ClaimRec, claims' = Append(claims, c)
  PROVE  /\ Len(claims) + 1 \notin DOMAIN claims
         /\ DOMAIN claims' = DOMAIN claims \union {Len(claims) + 1}
         /\ claims'[Len(claims) + 1] = c
         /\ \A d \in DOMAIN claims : claims'[d] = claims[d]
<1> DEFINE n == Len(claims)
<1>1. n \in Nat /\ DOMAIN claims = 1 .. n
  BY LenProperties
<1>2. /\ claims' \in Seq(ClaimRec) /\ Len(claims') = n + 1
      /\ \A i \in 1 .. n : claims'[i] = claims[i]
      /\ claims'[n + 1] = c
  BY AppendProperties
<1>3. DOMAIN claims' = 1 .. n + 1
  BY <1>2, LenProperties
<1> HIDE DEF n
<1> QED BY <1>1, <1>2, <1>3 DEF n

LEMMA WitnessType ==
  ASSUME TypeInv, NEW t \in Txs, NEW w \in Wallets, NEW k \in Kinds, NEW meets \in BOOLEAN,
         NEW d \in Days, Witness(t, w, k, meets, d)
  PROVE  TypeInv'
<1>1. WitnessOK'
  <2> DEFINE x == [address |-> w, kind |-> k, meets |-> meets, closed |-> d]
  <2>1. witnesses' = [witnesses EXCEPT ![t] = x] /\ day' = day /\ d <= day
    BY DEF Witness
  <2>2. x \in Witnessed /\ x.closed = d
    BY DaysFacts DEF Witnessed
  <2> HIDE DEF x
  <2>3. witnesses' \in [Txs -> Witnessed \union {None}]
    BY <2>1, <2>2 DEF TypeInv, WitnessOK
  <2>4. \A s \in Txs : witnesses'[s] # None => witnesses'[s].closed <= day'
    BY <2>1, <2>2 DEF TypeInv, WitnessOK
  <2>5. IsFiniteSet({s \in Txs : witnesses'[s] # None})
    <3>1. {s \in Txs : witnesses'[s] # None}
            \subseteq {s \in Txs : witnesses[s] # None} \union {t}
      BY <2>1 DEF TypeInv, WitnessOK
    <3>2. IsFiniteSet({s \in Txs : witnesses[s] # None} \union {t})
      BY FS_AddElement DEF TypeInv, WitnessOK
    <3> QED BY <3>1, <3>2, FS_Subset
  <2> QED BY <2>3, <2>4, <2>5 DEF WitnessOK
<1>2. UNCHANGED <<people, social, books, perks, job, day, faults>>
  BY DEF Witness
<1> QED BY <1>1, <1>2 DEF TypeInv, PeopleOK, SocialOK, LedgerOK, BagOK, JobOK, ClockOK,
                          people, social, books

-------------------------------------------------------------------------------
(* The plan.  Candidates are taken oldest first, and one of them is the newest. *)

LEMMA OrderFacts ==
  ASSUME WitnessOK, NEW s \in Txs, NEW t \in Txs, NEW u \in Txs,
         witnesses[s] # None, witnesses[t] # None, witnesses[u] # None
  PROVE  /\ (OldestFirst(s, t) /\ OldestFirst(t, u)) => OldestFirst(s, u)
         /\ s # t => OldestFirst(s, t) \/ OldestFirst(t, s)
<1>1. /\ witnesses[s].closed \in Nat /\ witnesses[t].closed \in Nat
      /\ witnesses[u].closed \in Nat
  BY DEF WitnessOK, Witnessed
<1>2. s \in Nat /\ t \in Nat /\ u \in Nat
  BY RulesAssumption
<1> QED BY <1>1, <1>2 DEF OldestFirst

LEMMA CandidateFacts ==
  ASSUME WitnessOK
  PROVE  /\ IsFiniteSet(ActionCandidates)
         /\ \A t \in ActionCandidates :
              t \in Txs /\ witnesses[t] # None /\ witnesses[t] \in Witnessed
<1>1. ActionCandidates \subseteq {t \in Txs : witnesses[t] # None}
  BY DEF ActionCandidates
<1>2. IsFiniteSet(ActionCandidates)
  BY <1>1, FS_Subset DEF WitnessOK
<1> QED BY <1>1, <1>2 DEF WitnessOK

LEMMA NewestIn ==
  ASSUME WitnessOK
  PROVE  \A U \in SUBSET ActionCandidates : U # {} => Newest(U) \in U
<1> DEFINE C == ActionCandidates
           IsNewest(t, U) == t \in U /\ \A s \in U \ {t} : OldestFirst(s, t)
           G == {U \in SUBSET C : U # {} => \E t \in U : IsNewest(t, U)}
<1>1. ASSUME NEW U \in SUBSET C, \A V \in SUBSET U : V # U => V \in G
      PROVE  U \in G
  <2>1. SUFFICES ASSUME U # {} PROVE \E t \in U : IsNewest(t, U)
    OBVIOUS
  <2>2. PICK x \in U : TRUE
    BY <2>1
  <2>3. CASE U \ {x} = {}
    BY <2>3
  <2>4. CASE U \ {x} # {}
    <3>1. U \ {x} \in G
      BY <1>1
    <3>2. PICK y \in U \ {x} : \A s \in (U \ {x}) \ {y} : OldestFirst(s, y)
      BY <2>4, <3>1
    <3>3. \A s \in U : s \in Txs /\ witnesses[s] # None
      BY CandidateFacts
    <3>4. OldestFirst(x, y) \/ OldestFirst(y, x)
      BY <3>2, <3>3, OrderFacts
    <3>5. CASE OldestFirst(x, y)
      BY <3>2, <3>5
    <3>6. CASE OldestFirst(y, x)
      <4>1. \A s \in U \ {x} : OldestFirst(s, x)
        BY <3>2, <3>3, <3>6, OrderFacts
      <4> QED BY <4>1
    <3> QED BY <3>4, <3>5, <3>6
  <2> QED BY <2>3, <2>4
<1>2. \A U \in SUBSET C : U \in G
  <2>1. IsFiniteSet(C)
    BY CandidateFacts
  <2> HIDE DEF G, C
  <2> QED BY <1>1, <2>1, SubsetInduction
<1>3. SUFFICES ASSUME NEW U \in SUBSET C, U # {} PROVE Newest(U) \in U
  OBVIOUS
<1>4. \E t \in U : \A s \in U \ {t} : OldestFirst(s, t)
  BY <1>2, <1>3
<1> QED BY <1>4 DEF Newest

\* A planned award is a row of the ledger's schema, worth what is due.
LEMMA ActionRowFacts ==
  ASSUME TypeInv, NEW t \in ActionCandidates
  PROVE  /\ ActionRow(t) \in AwardRow
         /\ ActionRow(t).day <= day
         /\ PointsDue(ActionRow(t))
         /\ ActionRow(t).reason = <<"action", witnesses[t].kind>>
         /\ witnesses[t].kind \in Kinds
<1> DEFINE x == witnesses[t]
           n == streakLengthBefore(x.address, x.closed)
           p == pointsFor(BasePoints[x.kind], streakMultiplier(n))
           row == [address |-> x.address, reason |-> <<"action", x.kind>>, ref |-> t,
                   points |-> p, day |-> x.closed]
<1>1. ActionRow(t) = row
  BY DEF ActionRow
<1>2. t \in Txs /\ x \in Witnessed /\ x.closed <= day /\ day \in 0 .. MaxDay
  BY CandidateFacts DEF TypeInv, WitnessOK, ClockOK, Days
<1>3. x.address \in Wallets /\ x.kind \in Kinds /\ x.closed \in Nat /\ x.closed \in Days
  BY <1>2, DaysFacts DEF Witnessed
<1>4. n \in Nat
  BY <1>3, StreakType DEF streakLengthBefore
<1>5. p \in Int
  <2> HIDE DEF n
  <2> QED BY <1>3, <1>4, PointsType, DaysFacts
<1> HIDE DEF x, p
<1>6. row \in AwardRow /\ row.day = x.closed /\ row.points = p /\ row.address = x.address
      /\ row.reason = <<"action", x.kind>> /\ row.reason[2] = x.kind
  BY <1>2, <1>3, <1>5 DEF AwardRow
<1> HIDE DEF row, n
<1> QED BY <1>1, <1>2, <1>3, <1>6 DEF PointsDue, p, n, x

Fits(t, before) ==
  /\ witnesses[t].meets
  /\ countedSameDayBefore(before, ActionRow(t)) < DailyCap[witnesses[t].kind]

IsPlan(g) ==
  g = [S \in SUBSET ActionCandidates |->
         IF S = {} THEN << >>
         ELSE LET t == Newest(S)  before == g[S \ {t}]
              IN  IF Fits(t, before) THEN Append(before, ActionRow(t)) ELSE before]

LEMMA PlanIsChosen ==
  planActionAwards = (CHOOSE g : IsPlan(g))[ActionCandidates]
BY DEF planActionAwards, IsPlan, Fits

PlanStep ==
  [U \in SUBSET ActionCandidates |-> [p \in Seq(AwardRow) |->
     IF Fits(Newest(U), p) THEN Append(p, ActionRow(Newest(U))) ELSE p]]

\* The recursion of the plan has a solution, and its values are sequences of awards.
LEMMA PlanExists ==
  ASSUME TypeInv
  PROVE  \E g \in [SUBSET ActionCandidates -> Seq(AwardRow)] : IsPlan(g)
<1> DEFINE C == ActionCandidates
           step == PlanStep
           last == [U \in SUBSET C |-> Newest(U)]
<1>1. IsFiniteSet(C)
  BY CandidateFacts DEF TypeInv
<1>2. \A U \in SUBSET C : U # {} => last[U] \in U /\ last[U] = Newest(U)
  BY NewestIn DEF TypeInv
<1> HIDE DEF C, step, last
<1>3. PICK g : IsRecursive(g, C, << >>, step, last)
  BY <1>1, <1>2, RecursionExists
<1> DEFINE G == {U \in SUBSET C : g[U] \in Seq(AwardRow)}
<1>4. ASSUME NEW U \in SUBSET C, U # {}, g[U \ {last[U]}] \in Seq(AwardRow)
      PROVE  /\ g[U] = IF Fits(Newest(U), g[U \ {Newest(U)}])
                         THEN Append(g[U \ {Newest(U)}], ActionRow(Newest(U)))
                         ELSE g[U \ {Newest(U)}]
             /\ g[U] \in Seq(AwardRow)
  <2> DEFINE p == g[U \ {last[U]}]
  <2>1. g[U] = step[U][p]
    BY <1>3, <1>4, RecursionAt
  <2>2. last[U] = Newest(U) /\ Newest(U) \in C
    BY <1>2, <1>4
  <2>3. step[U][p] = IF Fits(Newest(U), p) THEN Append(p, ActionRow(Newest(U))) ELSE p
    BY <1>4 DEF step, PlanStep, C
  <2>4. ActionRow(Newest(U)) \in AwardRow
    BY <2>2, ActionRowFacts DEF C
  <2>5. Append(p, ActionRow(Newest(U))) \in Seq(AwardRow)
    BY <1>4, <2>4, AppendProperties
  <2> QED BY <2>1, <2>2, <2>3, <2>5, <1>4
<1>5. g[{}] = << >>
  BY <1>3, RecursionEmpty
<1>6. ASSUME NEW U \in SUBSET C, \A V \in SUBSET U : V # U => V \in G
      PROVE  U \in G
  <2>1. CASE U = {}
    BY <1>5, <2>1, EmptySeq
  <2>2. CASE U # {}
    <3>1. U \ {last[U]} \in G
      BY <1>2, <1>6, <2>2
    <3> QED BY <1>4, <2>2, <3>1
  <2> QED BY <2>1, <2>2
<1>7. \A U \in SUBSET C : g[U] \in Seq(AwardRow)
  <2> HIDE DEF G
  <2>1. \A U \in SUBSET C : U \in G
    BY <1>1, <1>6, SubsetInduction
  <2> QED BY <2>1 DEF G
<1>8. \A U \in SUBSET C :
        g[U] = IF U = {} THEN << >>
               ELSE IF Fits(Newest(U), g[U \ {Newest(U)}])
                    THEN Append(g[U \ {Newest(U)}], ActionRow(Newest(U)))
                    ELSE g[U \ {Newest(U)}]
  BY <1>2, <1>4, <1>5, <1>7
<1>9. g = [U \in SUBSET C |-> g[U]]
  BY <1>3 DEF IsRecursive
<1>10. g = [U \in SUBSET C |->
              IF U = {} THEN << >>
              ELSE IF Fits(Newest(U), g[U \ {Newest(U)}])
                   THEN Append(g[U \ {Newest(U)}], ActionRow(Newest(U)))
                   ELSE g[U \ {Newest(U)}]]
  BY <1>8, <1>9
<1>11. IsPlan(g)
  BY <1>10 DEF IsPlan, C
<1>12. g \in [SUBSET C -> Seq(AwardRow)]
  BY <1>7, <1>9
<1> QED BY <1>11, <1>12 DEF C

AwardsIn(rows, w, k, d) ==
  {r \in rows : r.address = w /\ r.reason = <<"action", k>> /\ r.day = d}

LEMMA RangeAppend ==
  ASSUME NEW S, NEW p \in Seq(S), NEW x \in S
  PROVE  Range(Append(p, x)) = Range(p) \union {x}
<1> DEFINE n == Len(p)
           q == Append(p, x)
<1>1. n \in Nat /\ DOMAIN p = 1 .. n
  BY LenProperties
<1>2. /\ q \in Seq(S) /\ Len(q) = n + 1 /\ q[n + 1] = x
      /\ \A i \in 1 .. n : q[i] = p[i]
  BY AppendProperties
<1>3. DOMAIN q = 1 .. n + 1
  BY <1>2, LenProperties
<1> HIDE DEF n, q
<1>4. Range(q) = Range(p) \union {x}
  <2>1. \A y \in Range(q) : y \in Range(p) \union {x}
    BY <1>1, <1>2, <1>3 DEF Range
  <2>2. \A y \in Range(p) : y \in Range(q)
    BY <1>1, <1>2, <1>3 DEF Range
  <2>3. x \in Range(q)
    BY <1>1, <1>2, <1>3 DEF Range
  <2> QED BY <2>1, <2>2, <2>3
<1> QED BY <1>4 DEF q

LEMMA OneMore ==
  ASSUME NEW S, IsFiniteSet(S), NEW x
  PROVE  Cardinality(S \union {x}) <= Cardinality(S) + 1
<1>1. Cardinality(S) \in Nat
  BY FS_CardinalityType
<1>2. Cardinality(S \union {x}) = IF x \in S THEN Cardinality(S) ELSE Cardinality(S) + 1
  BY FS_AddElement
<1> QED BY <1>1, <1>2

LEMMA RangeFinite ==
  ASSUME NEW S, NEW p \in Seq(S)
  PROVE  IsFiniteSet(Range(p)) /\ Range(p) \subseteq S
<1>1. DOMAIN p = 1 .. Len(p) /\ Len(p) \in Nat /\ \A i \in 1 .. Len(p) : p[i] \in S
  BY LenProperties, ElementOfSeq
<1>2. IsFiniteSet(DOMAIN p)
  BY <1>1, FS_Interval
<1>3. IsFiniteSet(Range(p))
  <2>1. p \in Surjection(DOMAIN p, Range(p))
    BY <1>1, LenProperties DEF Surjection, Range
  <2> QED BY <1>2, <2>1, FS_Surjection
<1>4. Range(p) \subseteq S
  BY <1>1 DEF Range
<1> QED BY <1>3, <1>4

\* Every solution is a function to sequences of awards.
LEMMA PlanTyped ==
  ASSUME TypeInv, NEW g, IsPlan(g)
  PROVE  g \in [SUBSET ActionCandidates -> Seq(AwardRow)]
<1> DEFINE C == ActionCandidates
           G == {U \in SUBSET C : g[U] \in Seq(AwardRow)}
<1>1. ASSUME NEW U \in SUBSET C, \A V \in SUBSET U : V # U => V \in G
      PROVE  U \in G
  <2>1. CASE U = {}
    <3>1. g[U] = << >>
      BY <2>1 DEF IsPlan
    <3> QED BY <3>1, EmptySeq
  <2>2. CASE U # {}
    <3> DEFINE t == Newest(U)
               p == g[U \ {t}]
    <3>1. t \in U /\ t \in C
      BY <2>2, NewestIn DEF TypeInv
    <3>2. p \in Seq(AwardRow)
      BY <1>1, <3>1
    <3>3. ActionRow(t) \in AwardRow
      BY <3>1, ActionRowFacts
    <3>4. g[U] = IF Fits(t, p) THEN Append(p, ActionRow(t)) ELSE p
      BY <2>2 DEF IsPlan
    <3>5. Append(p, ActionRow(t)) \in Seq(AwardRow)
      BY <3>2, <3>3, AppendProperties
    <3> QED BY <3>2, <3>4, <3>5
  <2> QED BY <2>1, <2>2
<1>2. IsFiniteSet(C)
  BY CandidateFacts DEF TypeInv
<1>3. \A U \in SUBSET C : U \in G
  <2> HIDE DEF G, C
  <2> QED BY <1>1, <1>2, SubsetInduction
<1>4. g = [U \in SUBSET C |-> g[U]]
  <2> HIDE DEF C
  <2> QED BY DEF IsPlan, C
<1> QED BY <1>3, <1>4

\* Every planned award is of a day that has come, and worth what is due.
LEMMA PlanPays ==
  ASSUME TypeInv,
         NEW g \in [SUBSET ActionCandidates -> Seq(AwardRow)], IsPlan(g)
  PROVE  \A U \in SUBSET ActionCandidates :
           \A r \in Range(g[U]) : r.day <= day /\ PointsDue(r)
<1> DEFINE C == ActionCandidates
           Due(U) == \A r \in Range(g[U]) : r.day <= day /\ PointsDue(r)
           G == {U \in SUBSET C : Due(U)}
<1>1. ASSUME NEW U \in SUBSET C, \A V \in SUBSET U : V # U => V \in G
      PROVE  U \in G
  <2>1. CASE U = {}
    <3>1. g[U] = << >>
      BY <2>1 DEF IsPlan
    <3>2. Range(g[U]) = {}
      BY <3>1 DEF Range
    <3> QED BY <3>2
  <2>2. CASE U # {}
    <3> DEFINE t == Newest(U)
               p == g[U \ {t}]
               row == ActionRow(t)
    <3>1. t \in U /\ t \in C
      BY <2>2, NewestIn DEF TypeInv
    <3>2. U \ {t} \in G /\ U \ {t} \in SUBSET C
      BY <1>1, <3>1
    <3>3. p \in Seq(AwardRow) /\ row \in AwardRow /\ row.day <= day /\ PointsDue(row)
      BY <3>1, <3>2, ActionRowFacts
    <3>4. g[U] = IF Fits(t, p) THEN Append(p, row) ELSE p
      BY <2>2 DEF IsPlan
    <3>5. Range(Append(p, row)) = Range(p) \union {row}
      BY <3>3, RangeAppend
    <3>6. Due(U \ {t})
      BY <3>2
    <3> QED BY <3>3, <3>4, <3>5, <3>6
  <2> QED BY <2>1, <2>2
<1>2. IsFiniteSet(C)
  BY CandidateFacts DEF TypeInv
<1>3. \A U \in SUBSET C : U \in G
  <2> HIDE DEF G, C
  <2> QED BY <1>1, <1>2, SubsetInduction
<1> QED BY <1>3

\* The plan keeps the daily caps, whatever part of the candidates is done.
LEMMA PlanKeepsCaps ==
  ASSUME TypeInv, AwardsDue, job.awards = << >>,
         NEW g \in [SUBSET ActionCandidates -> Seq(AwardRow)], IsPlan(g),
         NEW w \in Wallets, NEW k \in Kinds, NEW d \in Days
  PROVE  \A U \in SUBSET ActionCandidates :
           Cardinality(ActionRowsOf(w, k, d) \union AwardsIn(Range(g[U]), w, k, d))
             <= DailyCap[k]
<1> DEFINE C == ActionCandidates
           A == ActionRowsOf(w, k, d)
           B(U) == AwardsIn(Range(g[U]), w, k, d)
           cap == DailyCap[k]
           G == {U \in SUBSET C : Cardinality(A \union B(U)) <= cap}
<1>1. cap \in Nat
  BY DaysFacts
<1>2. IsFiniteSet(A) /\ Cardinality(A) <= cap
  <2>1. IsFiniteSet(A)
    BY FS_Subset DEF ActionRowsOf, TypeInv, LedgerOK, BagOK
  <2>2. PlannedOf(w, k, d) = {}
    BY DEF PlannedOf, Range
  <2>3. A \union PlannedOf(w, k, d) = A
    BY <2>2
  <2> QED BY <2>1, <2>3 DEF AwardsDue
<1>3. ASSUME NEW U \in SUBSET C, \A V \in SUBSET U : V # U => V \in G
      PROVE  U \in G
  <2>1. CASE U = {}
    <3>1. g[U] = << >>
      BY <2>1 DEF IsPlan
    <3>2. Range(g[U]) = {}
      BY <3>1 DEF Range
    <3>3. A \union B(U) = A
      BY <3>2 DEF AwardsIn
    <3> QED BY <1>2, <3>2, <3>3
  <2>2. CASE U # {}
    <3> DEFINE t == Newest(U)
               p == g[U \ {t}]
               row == ActionRow(t)
               P == Range(p)
    <3>1. t \in U /\ t \in C
      BY <2>2, NewestIn DEF TypeInv
    <3>2. U \ {t} \in G /\ U \ {t} \in SUBSET C
      BY <1>3, <3>1
    <3>3. p \in Seq(AwardRow) /\ row \in AwardRow
      BY <3>1, <3>2, ActionRowFacts
    <3>4. row.reason = <<"action", witnesses[t].kind>> /\ witnesses[t].kind \in Kinds
      BY <3>1, ActionRowFacts
    <3>5. IsFiniteSet(P)
      BY <3>3, RangeFinite
    <3>6. g[U] = IF Fits(t, p) THEN Append(p, row) ELSE p
      BY <2>2 DEF IsPlan
    <3>7. Cardinality(A \union AwardsIn(P, w, k, d)) <= cap
      BY <3>2
    <3>8. CASE ~Fits(t, p)
      BY <3>6, <3>7, <3>8
    <3>9. CASE Fits(t, p)
      <4>1. Range(g[U]) = P \union {row}
        BY <3>3, <3>6, <3>9, RangeAppend
      <4>3. CASE ~(row.address = w /\ row.reason = <<"action", k>> /\ row.day = d)
        <5>1. B(U) = AwardsIn(P, w, k, d)
          BY <4>1, <4>3 DEF AwardsIn
        <5> QED BY <3>7, <5>1
      <4>4. CASE row.address = w /\ row.reason = <<"action", k>> /\ row.day = d
        <5> DEFINE Q == AwardsIn(P, w, k, d)
        <5>1. {r \in DOMAIN ledger : SameCount(r, row)} = A
          BY <4>4 DEF SameCount, ActionRowsOf
        <5>2. {r \in P : SameCount(r, row)} = Q
          BY <4>4 DEF SameCount, AwardsIn
        <5>3. witnesses[t].kind = k
          BY <3>4, <4>4
        <5>4. Cardinality(A) + Cardinality(Q) < cap
          BY <3>9, <5>1, <5>2, <5>3 DEF Fits, countedSameDayBefore
        <5>5. IsFiniteSet(Q)
          BY <3>5, FS_Subset DEF AwardsIn
        <5>6. A \union B(U) = (A \union Q) \union {row}
          BY <4>1, <4>4 DEF AwardsIn
        <5> HIDE DEF A, Q
        <5>7. /\ IsFiniteSet(A \union Q) /\ Cardinality(A \union Q) \in Nat
              /\ Cardinality(A \union Q) <= Cardinality(A) + Cardinality(Q)
          <6>1. /\ IsFiniteSet(A \union Q)
                /\ Cardinality(A \union Q)
                     = Cardinality(A) + Cardinality(Q) - Cardinality(A \intersect Q)
            BY <1>2, <5>5, FS_Union
          <6>2. /\ Cardinality(A \intersect Q) \in Nat /\ Cardinality(A) \in Nat
                /\ Cardinality(Q) \in Nat
            BY <1>2, <5>5, FS_Intersection, FS_CardinalityType
          <6>3. Cardinality(A \union Q) \in Nat
            BY <6>1, FS_CardinalityType
          <6> QED BY <6>1, <6>2, <6>3
        <5>8. Cardinality((A \union Q) \union {row}) <= Cardinality(A \union Q) + 1
          BY <5>7, OneMore
        <5>9. /\ Cardinality(A) \in Nat /\ Cardinality(Q) \in Nat
              /\ Cardinality((A \union Q) \union {row}) \in Nat
          BY <1>2, <5>5, <5>7, FS_CardinalityType, FS_AddElement
        <5>10. Cardinality((A \union Q) \union {row}) <= cap
          BY <1>1, <5>4, <5>7, <5>8, <5>9
        <5> QED BY <5>6, <5>10
      <4> QED BY <4>3, <4>4
    <3> QED BY <3>8, <3>9
  <2> QED BY <2>1, <2>2
<1>4. IsFiniteSet(C)
  BY CandidateFacts DEF TypeInv
<1>5. \A U \in SUBSET C : U \in G
  <2> HIDE DEF G, C
  <2> QED BY <1>3, <1>4, SubsetInduction
<1> QED BY <1>5

\* So does the whole plan.
LEMMA PlanFacts ==
  ASSUME TypeInv, AwardsDue, job.awards = << >>
  PROVE  /\ planActionAwards \in Seq(AwardRow)
         /\ \A r \in Range(planActionAwards) : r.day <= day /\ PointsDue(r)
         /\ \A w \in Wallets, k \in Kinds, d \in Days :
              Cardinality(ActionRowsOf(w, k, d)
                            \union AwardsIn(Range(planActionAwards), w, k, d))
                <= DailyCap[k]
<1> DEFINE h == CHOOSE g : IsPlan(g)
<1>1. IsPlan(h)
  BY PlanExists
<1>2. planActionAwards = h[ActionCandidates]
  BY PlanIsChosen
<1> HIDE DEF h
<1>3. h \in [SUBSET ActionCandidates -> Seq(AwardRow)]
  BY <1>1, PlanTyped
<1>4. ActionCandidates \in SUBSET ActionCandidates
  OBVIOUS
<1>5. /\ h[ActionCandidates] \in Seq(AwardRow)
      /\ \A w \in Wallets, k \in Kinds, d \in Days :
           Cardinality(ActionRowsOf(w, k, d)
                         \union AwardsIn(Range(h[ActionCandidates]), w, k, d)) <= DailyCap[k]
  BY <1>1, <1>3, <1>4, PlanKeepsCaps
<1>6. \A r \in Range(h[ActionCandidates]) : r.day <= day /\ PointsDue(r)
  BY <1>1, <1>3, <1>4, PlanPays
<1> QED BY <1>2, <1>5, <1>6

-------------------------------------------------------------------------------
(* Types, continued: the job.                                              *)

\* The job with its fields set to values of their types.
LEMMA JobFields ==
  ASSUME TypeInv
  PROVE  /\ \A pc \in {"idle", "award", "referral", "perk"}, awards \in Seq(AwardRow) :
              [job EXCEPT !.pc = pc, !.awards = awards]
                = [pc |-> pc, awards |-> awards, todo |-> job.todo]
         /\ \A awards \in Seq(AwardRow) :
              [job EXCEPT !.awards = awards]
                = [pc |-> job.pc, awards |-> awards, todo |-> job.todo]
         /\ \A pc \in {"idle", "award", "referral", "perk"} : \A todo :
              [job EXCEPT !.pc = pc, !.todo = todo]
                = [pc |-> pc, awards |-> job.awards, todo |-> todo]
         /\ \A todo : [job EXCEPT !.todo = todo]
                        = [pc |-> job.pc, awards |-> job.awards, todo |-> todo]
<1> DEFINE T == [pc : {"idle", "award", "referral", "perk"}, awards : Seq(AwardRow),
                 todo : SUBSET (Wallets \union (Wallets \X DOMAIN Tiers))]
<1>1. job \in T
  BY DEF TypeInv, JobOK
<1>2. ASSUME NEW pc, NEW awards
      PROVE  [job EXCEPT !.pc = pc, !.awards = awards]
               = [pc |-> pc, awards |-> awards, todo |-> job.todo]
  <2> DEFINE R == [pc : {pc}, awards : {awards}, todo : {job.todo}]
  <2>1. [job EXCEPT !.pc = pc, !.awards = awards] \in R
    BY <1>1
  <2>2. [pc |-> pc, awards |-> awards, todo |-> job.todo] \in R
    OBVIOUS
  <2> QED BY <2>1, <2>2
<1>3. ASSUME NEW awards
      PROVE  [job EXCEPT !.awards = awards]
               = [pc |-> job.pc, awards |-> awards, todo |-> job.todo]
  BY <1>1
<1>4. ASSUME NEW pc, NEW todo
      PROVE  [job EXCEPT !.pc = pc, !.todo = todo]
               = [pc |-> pc, awards |-> job.awards, todo |-> todo]
  <2> DEFINE R == [pc : {pc}, awards : {job.awards}, todo : {todo}]
  <2>1. [job EXCEPT !.pc = pc, !.todo = todo] \in R
    BY <1>1
  <2>2. [pc |-> pc, awards |-> job.awards, todo |-> todo] \in R
    OBVIOUS
  <2> QED BY <2>1, <2>2
<1>5. ASSUME NEW todo
      PROVE  [job EXCEPT !.todo = todo]
               = [pc |-> job.pc, awards |-> job.awards, todo |-> todo]
  BY <1>1
<1> QED BY <1>2, <1>3, <1>4, <1>5

LEMMA PlanAwardsJob ==
  ASSUME TypeInv, AwardsDue, PlanAwards
  PROVE  /\ job.awards = << >>
         /\ job' = [pc |-> "award", awards |-> planActionAwards, todo |-> job.todo]
         /\ planActionAwards \in Seq(AwardRow)
<1>1. job.awards = << >>
  BY DEF PlanAwards, AwardsDue
<1>2. planActionAwards \in Seq(AwardRow)
  BY <1>1, PlanFacts
<1>3. job' = [job EXCEPT !.pc = "award", !.awards = planActionAwards]
  BY DEF PlanAwards
<1> QED BY <1>1, <1>2, <1>3, JobFields

LEMMA PlanAwardsType ==
  ASSUME TypeInv, AwardsDue, PlanAwards
  PROVE  TypeInv'
<1>1. JobOK'
  BY PlanAwardsJob DEF PlanAwards, TypeInv, JobOK
<1>2. UNCHANGED <<people, witnesses, social, books, perks, day, faults>>
  BY DEF PlanAwards
<1> QED BY <1>1, <1>2 DEF TypeInv, PeopleOK, WitnessOK, SocialOK, LedgerOK, BagOK, ClockOK,
                          people, social, books

\* The row that is inserted was planned; it is added unless the index refuses it.
LEMMA InsertAwardJob ==
  ASSUME TypeInv, InsertAward
  PROVE  /\ Head(job.awards) \in AwardRow /\ Head(job.awards) \in Range(job.awards)
         /\ Tail(job.awards) \in Seq(AwardRow)
         /\ Range(Tail(job.awards)) \subseteq Range(job.awards)
         /\ job.pc = "award"
         /\ job' = [pc |-> "award", awards |-> Tail(job.awards), todo |-> job.todo]
         /\ Grown({}) \/ Grown({Head(job.awards)})
<1> DEFINE p == job.awards
           row == Head(p)
<1>1. p \in Seq(AwardRow) /\ p # << >> /\ job.pc = "award"
  BY DEF InsertAward, TypeInv, JobOK
<1>2. /\ row \in AwardRow /\ Tail(p) \in Seq(AwardRow)
      /\ \A i \in 1 .. Len(Tail(p)) : Tail(p)[i] = p[i + 1]
      /\ Len(Tail(p)) = Len(p) - 1
  BY <1>1, HeadTailProperties
<1>3. row = p[1] /\ Len(p) \in Nat \ {0} /\ DOMAIN p = 1 .. Len(p)
  BY <1>1, EmptySeq, LenProperties
<1>4. DOMAIN Tail(p) = 1 .. Len(Tail(p)) /\ Len(Tail(p)) \in Nat
  BY <1>2, LenProperties
<1>5. row \in Range(p)
  BY <1>3 DEF Range
<1>6. Range(Tail(p)) \subseteq Range(p)
  <2>1. SUFFICES ASSUME NEW i \in 1 .. Len(Tail(p)) PROVE Tail(p)[i] \in Range(p)
    BY <1>4 DEF Range
  <2>2. i + 1 \in DOMAIN p
    BY <1>2, <1>3, <1>4
  <2> QED BY <1>2, <2>2 DEF Range
<1>7. job' = [pc |-> "award", awards |-> Tail(p), todo |-> job.todo]
  <2>1. job' = [job EXCEPT !.awards = Tail(p)]
    BY DEF InsertAward
  <2> QED BY <1>1, <1>2, <2>1, JobFields
<1>8. Grown({}) \/ Grown({row})
  <2>1. Post(InsertOnce(ledger, row))
    BY DEF InsertAward
  <2>2. row \in Rows /\ row.reason[1] # "adjust"
    BY <1>2, AwardFacts
  <2> HIDE DEF row
  <2>3. CASE KeyTaken(ledger, row)
    <3>1. Post(ledger)
      BY <2>1, <2>3 DEF InsertOnce
    <3> QED BY <3>1, GrownNone DEF TypeInv
  <2>4. CASE ~KeyTaken(ledger, row)
    <3>1. Post(AddRow(ledger, row)) /\ row \notin DOMAIN ledger
      BY <2>1, <2>2, <2>4, InsertRow DEF InsertOnce, TypeInv, LedgerOK
    <3> QED BY <2>2, <3>1, GrownOne DEF TypeInv
  <2> QED BY <2>3, <2>4
<1> QED BY <1>1, <1>2, <1>5, <1>6, <1>7, <1>8

LEMMA InsertAwardType ==
  ASSUME TypeInv, InsertAward
  PROVE  TypeInv'
<1>1. LedgerOK'
  BY InsertAwardJob, GrownType DEF TypeInv
<1>2. JobOK'
  BY InsertAwardJob DEF InsertAward, TypeInv, JobOK
<1>3. UNCHANGED <<people, witnesses, social, perks, day, faults>>
  BY DEF InsertAward
<1> QED BY <1>1, <1>2, <1>3 DEF TypeInv, PeopleOK, WitnessOK, SocialOK, ClockOK,
                          people, social

LEMMA LoadReferralsJob ==
  ASSUME TypeInv, LoadReferrals
  PROVE  job' = [pc |-> "referral", awards |-> << >>,
                 todo |-> {w \in Wallets : links[w] # NoLink /\ ~links[w].credited}]
<1>1. job' = [job EXCEPT !.pc = "referral",
                         !.todo = {w \in Wallets : links[w] # NoLink /\ ~links[w].credited}]
  BY DEF LoadReferrals
<1>2. job.awards = << >>
  BY DEF LoadReferrals
<1> QED BY <1>1, <1>2, JobFields

LEMMA LoadReferralsType ==
  ASSUME TypeInv, LoadReferrals
  PROVE  TypeInv'
<1>1. JobOK'
  BY LoadReferralsJob, EmptySeq DEF LoadReferrals, TypeInv, JobOK
<1>2. UNCHANGED <<people, witnesses, social, books, perks, day, faults>>
  BY DEF LoadReferrals
<1> QED BY <1>1, <1>2 DEF TypeInv, PeopleOK, WitnessOK, SocialOK, LedgerOK, BagOK, ClockOK,
                          people, social, books

\* Either nothing is paid, or both sides are, and the link is marked.
LEMMA CreditReferralPays ==
  ASSUME TypeInv, ReferralsDue, ReferralPaysBoth, NEW w \in Wallets, CreditReferral(w)
  PROVE  \/ UNCHANGED <<links, books>>
         \/ \E c \in QualifyingCloses(w), one \in PaidRow, two \in PaidRow :
              /\ links' = [links EXCEPT ![w].credited = TRUE]
              /\ links[w] # NoLink /\ ~links[w].credited
              /\ ReferralCredit(w, c)
              /\ Grown({one, two})
              /\ one.ref = w /\ two.ref = w
              /\ one.address = links[w].referrer /\ one.reason = <<"referral", "referrer">>
              /\ two.address = w /\ two.reason = <<"referral", "referee">>
<1>1. SUFFICES ASSUME ~UNCHANGED <<links, books>>
               PROVE  \E c \in QualifyingCloses(w), one \in PaidRow, two \in PaidRow :
                        /\ links' = [links EXCEPT ![w].credited = TRUE]
                        /\ links[w] # NoLink /\ ~links[w].credited
                        /\ ReferralCredit(w, c)
                        /\ Grown({one, two})
                        /\ one.ref = w /\ two.ref = w
                        /\ one.address = links[w].referrer
                        /\ one.reason = <<"referral", "referrer">>
                        /\ two.address = w /\ two.reason = <<"referral", "referee">>
  OBVIOUS
<1>2. PICK c \in QualifyingCloses(w) :
        /\ ReferralCredit(w, c)
        /\ links' = [links EXCEPT ![w].credited = TRUE]
        /\ Post(InsertOnce(InsertOnce(ledger,
                  ReferralRow(links[w].referrer, "referrer", ReferrerPoints, w, c)),
                  ReferralRow(w, "referee", RefereePoints, w, c)))
  BY <1>1 DEF CreditReferral
<1>3. links[w] # NoLink /\ ~links[w].credited
  BY DEF CreditReferral, ReferralsDue
<1> DEFINE one == ReferralRow(links[w].referrer, "referrer", ReferrerPoints, w, c)
           two == ReferralRow(w, "referee", RefereePoints, w, c)
           mid == InsertOnce(ledger, one)
<1>4. links[w].referrer \in Wallets
  BY <1>3 DEF TypeInv, PeopleOK
<1>5. c \in Days
  <2>1. PICK t \in Txs : witnesses[t] # None /\ c = witnesses[t].closed
    BY <1>2 DEF QualifyingCloses
  <2>2. c \in Nat /\ c <= day /\ day \in 0 .. MaxDay
    BY <2>1 DEF TypeInv, WitnessOK, Witnessed, ClockOK, Days
  <2> QED BY <2>2, DaysFacts
<1>6. /\ one \in PaidRow /\ two \in PaidRow /\ one.ref = w /\ two.ref = w
      /\ one.address = links[w].referrer /\ one.reason = <<"referral", "referrer">>
      /\ two.address = w /\ two.reason = <<"referral", "referee">>
  BY <1>4, <1>5, DaysFacts DEF ReferralRow, PaidRow
<1> HIDE DEF one, two
<1>7. /\ one \in Rows /\ two \in Rows /\ one.reason[1] = "referral" /\ two.reason[1] = "referral"
      /\ one.reason # two.reason
  BY <1>6 DEF Rows
<1>8. \A r \in DOMAIN ledger : ~(r.reason[1] = "referral" /\ r.ref = w)
  BY <1>3 DEF ReferralPaysBoth, ReferralRows
<1>9. ~KeyTaken(ledger, one)
  BY <1>6, <1>7, <1>8 DEF KeyTaken
<1>10. BagOK(mid) /\ DOMAIN mid = DOMAIN ledger \union {one} /\ one \notin DOMAIN ledger
  BY <1>7, <1>9, InsertRow DEF TypeInv, LedgerOK
<1> HIDE DEF mid
<1>11. ~KeyTaken(mid, two)
  BY <1>6, <1>7, <1>8, <1>10 DEF KeyTaken
<1> DEFINE L == InsertOnce(mid, two)
<1>12. BagOK(L) /\ DOMAIN L = DOMAIN mid \union {two} /\ two \notin DOMAIN mid
  BY <1>7, <1>10, <1>11, InsertRow
<1>13. Post(L)
  BY <1>2 DEF mid, one, two
<1> HIDE DEF L
<1>14. DOMAIN L = DOMAIN ledger \union {one, two} /\ {one, two} \intersect DOMAIN ledger = {}
  BY <1>10, <1>12
<1>15. DOMAIN L \subseteq Rows
  BY <1>7, <1>14 DEF TypeInv, LedgerOK
<1>16. /\ peak' \in [Wallets -> Int]
       /\ \A v \in Wallets : peak'[v] >= peak[v] /\ Balance(ledger', v) <= peak'[v]
  BY <1>12, <1>13, <1>15, PostPeak DEF TypeInv, LedgerOK
<1>17. ledger' = L
  BY <1>13 DEF Post
<1>18. Grown({one, two})
  BY <1>7, <1>12, <1>14, <1>16, <1>17 DEF Grown
<1> QED BY <1>2, <1>3, <1>6, <1>18

LEMMA CreditReferralJob ==
  ASSUME TypeInv, NEW w \in Wallets, CreditReferral(w)
  PROVE  /\ job.pc = "referral" /\ w \in job.todo
         /\ job' = [pc |-> "referral", awards |-> job.awards, todo |-> job.todo \ {w}]
<1>1. job' = [job EXCEPT !.todo = job.todo \ {w}] /\ job.pc = "referral"
  BY DEF CreditReferral
<1> QED BY <1>1, JobFields DEF CreditReferral

LEMMA MarkLink ==
  ASSUME NEW Flags, NEW old \in [referrer : Wallets \union {None}, at : Int, credited : Flags],
         NEW on
  PROVE  [old EXCEPT !.credited = on]
           = [referrer |-> old.referrer, at |-> old.at, credited |-> on]
<1> DEFINE R == [referrer : {old.referrer}, at : {old.at}, credited : {on}]
<1>1. [old EXCEPT !.credited = on] \in R
  OBVIOUS
<1>2. [referrer |-> old.referrer, at |-> old.at, credited |-> on] \in R
  OBVIOUS
<1> QED BY <1>1, <1>2

\* A link that is marked keeps the rest.
LEMMA MarkedLink ==
  ASSUME TypeInv, NEW w \in Wallets, links' = [links EXCEPT ![w].credited = TRUE]
  PROVE  /\ links' \in [Wallets -> Link]
         /\ \A v \in Wallets : /\ links'[v].referrer = links[v].referrer
                               /\ links'[v].at = links[v].at
                               /\ v # w => links'[v] = links[v]
         /\ links'[w].credited
<1> DEFINE x == [referrer |-> links[w].referrer, at |-> links[w].at, credited |-> TRUE]
<1>1. links \in [Wallets -> Link]
  BY DEF TypeInv, PeopleOK
<1>2. x \in Link
  BY <1>1 DEF Link
<1>3. links' = [links EXCEPT ![w] = x]
  <2> DEFINE old == links[w]
  <2>1. links' = [links EXCEPT ![w] = [old EXCEPT !.credited = TRUE]]
    OBVIOUS
  <2>2. [old EXCEPT !.credited = TRUE] = x
    BY <1>1, MarkLink DEF Link
  <2> HIDE DEF x
  <2> QED BY <2>1, <2>2
<1>4. x.referrer = links[w].referrer /\ x.at = links[w].at /\ x.credited = TRUE
  OBVIOUS
<1> HIDE DEF x
<1>5. links' \in [Wallets -> Link]
  BY <1>1, <1>2, <1>3
<1>6. links'[w] = x /\ \A v \in Wallets : v # w => links'[v] = links[v]
  BY <1>1, <1>3
<1> QED BY <1>4, <1>5, <1>6

LEMMA CreditReferralType ==
  ASSUME TypeInv, ReferralsDue, ReferralPaysBoth, NEW w \in Wallets, CreditReferral(w)
  PROVE  TypeInv'
<1>1. JobOK'
  BY CreditReferralJob DEF CreditReferral, TypeInv, JobOK
<1>2. UNCHANGED <<enrolled, witnesses, checkins, social, perks, day, faults>>
  BY DEF CreditReferral
<1>3. CASE UNCHANGED <<links, books>>
  <2>1. UNCHANGED <<links, ledger, peak>>
    BY <1>3 DEF books
  <2> QED BY <1>1, <1>2, <2>1 DEF TypeInv, PeopleOK, WitnessOK, SocialOK, LedgerOK, BagOK,
                                  ClockOK, social
<1>4. CASE ~UNCHANGED <<links, books>>
  <2>1. PICK c \in QualifyingCloses(w), one \in PaidRow, two \in PaidRow :
          /\ links' = [links EXCEPT ![w].credited = TRUE]
          /\ links[w] # NoLink /\ Grown({one, two})
    BY <1>4, CreditReferralPays
  <2>2. LedgerOK'
    BY <2>1, GrownType DEF TypeInv
  <2>3. PeopleOK'
    <3>1. \A v \in Wallets : links'[v] # NoLink => links[v] # NoLink
      BY <2>1, MarkedLink
    <3>2. /\ links' \in [Wallets -> Link]
          /\ \A v \in Wallets : links'[v].referrer = links[v].referrer
                                /\ links'[v].at = links[v].at
      BY <2>1, MarkedLink
    <3>3. \A v \in Wallets : links'[v] # NoLink =>
            /\ {v, links'[v].referrer} \subseteq enrolled'
            /\ links'[v].referrer # v /\ links'[v].at \in 0 .. day'
      BY <1>2, <3>1, <3>2 DEF TypeInv, PeopleOK
    <3> QED BY <1>2, <3>2, <3>3 DEF TypeInv, PeopleOK
  <2> QED BY <1>1, <1>2, <2>2, <2>3 DEF TypeInv, WitnessOK, SocialOK, ClockOK, social
<1> QED BY <1>3, <1>4

LEMMA LoadBalancesJob ==
  ASSUME TypeInv, LoadBalances
  PROVE  job' = [pc |-> "perk", awards |-> job.awards,
                 todo |-> {x \in enrolled \X DOMAIN Tiers :
                             balancesOfEnrolled(x[1]) >= Tiers[x[2]]}]
<1>1. job' = [job EXCEPT !.pc = "perk",
                         !.todo = {x \in enrolled \X DOMAIN Tiers :
                                     balancesOfEnrolled(x[1]) >= Tiers[x[2]]}]
  BY DEF LoadBalances
<1> QED BY <1>1, JobFields

LEMMA LoadBalancesType ==
  ASSUME TypeInv, LoadBalances
  PROVE  TypeInv'
<1>1. JobOK'
  BY LoadBalancesJob DEF LoadBalances, TypeInv, JobOK, PeopleOK
<1>2. UNCHANGED <<people, witnesses, social, books, perks, day, faults>>
  BY DEF LoadBalances
<1> QED BY <1>1, <1>2 DEF TypeInv, PeopleOK, WitnessOK, SocialOK, LedgerOK, BagOK, ClockOK,
                          people, social, books

LEMMA InsertPerkJob ==
  ASSUME TypeInv, NEW w \in Wallets, NEW p \in DOMAIN Tiers, InsertPerk(w, p)
  PROVE  job' = [pc |-> "perk", awards |-> job.awards, todo |-> job.todo \ {<<w, p>>}]
<1>1. job' = [job EXCEPT !.todo = job.todo \ {<<w, p>>}] /\ job.pc = "perk"
  BY DEF InsertPerk
<1> QED BY <1>1, JobFields

LEMMA InsertPerkType ==
  ASSUME TypeInv, NEW w \in Wallets, NEW p \in DOMAIN Tiers, InsertPerk(w, p)
  PROVE  TypeInv'
<1>1. JobOK'
  BY InsertPerkJob DEF InsertPerk, TypeInv, JobOK
<1>2. UNCHANGED <<people, witnesses, social, books, day, faults>>
  BY DEF InsertPerk
<1> QED BY <1>1, <1>2 DEF TypeInv, PeopleOK, WitnessOK, SocialOK, LedgerOK, BagOK, ClockOK,
                          people, social, books

LEMMA IdleType ==
  ASSUME TypeInv, job' = Idle, perks' = perks
  PROVE  JobOK'
  BY EmptySeq DEF TypeInv, JobOK, Idle

LEMMA EndJobType == ASSUME TypeInv, EndJob PROVE TypeInv'
<1>1. job' = Idle /\ UNCHANGED <<people, witnesses, social, books, perks, day, faults>>
  BY DEF EndJob
<1>2. JobOK'
  BY <1>1, IdleType
<1> QED BY <1>1, <1>2 DEF TypeInv, PeopleOK, WitnessOK, SocialOK, LedgerOK, BagOK, ClockOK,
                          people, social, books

LEMMA CrashType == ASSUME TypeInv, Crash PROVE TypeInv'
<1>1. /\ job' = Idle /\ faults < MaxFaults /\ faults' = faults + 1
      /\ UNCHANGED <<people, witnesses, social, books, perks, day>>
  BY DEF Crash
<1>2. JobOK'
  BY <1>1, IdleType
<1>3. ClockOK'
  BY <1>1, DaysFacts DEF TypeInv, ClockOK
<1> QED BY <1>1, <1>2, <1>3 DEF TypeInv, PeopleOK, WitnessOK, SocialOK, LedgerOK, BagOK,
                          people, social, books

LEMMA TickType == ASSUME TypeInv, Tick PROVE TypeInv'
<1>1. /\ day < MaxDay /\ day' = day + 1
      /\ UNCHANGED <<people, witnesses, social, books, perks, job, faults>>
  BY DEF Tick
<1>2. day \in Int /\ ClockOK'
  BY <1>1, DaysFacts DEF TypeInv, ClockOK
<1>3. PeopleOK'
  BY <1>1, <1>2 DEF TypeInv, PeopleOK, people
<1>4. WitnessOK'
  BY <1>1, <1>2 DEF TypeInv, WitnessOK, Witnessed
<1> QED BY <1>1, <1>2, <1>3, <1>4 DEF TypeInv, SocialOK, LedgerOK, BagOK, JobOK,
                          social, books

-------------------------------------------------------------------------------
(* What leaves each part of the invariant alone.                           *)

\* A step that does not post anything is one that adds no row.
LEMMA GrownStay ==
  ASSUME TypeInv, PerksDue, UNCHANGED books
  PROVE  Grown({})
<1>1. ledger' = ledger /\ peak' = peak
  BY DEF books
<1>2. \A w \in Wallets : peak'[w] >= peak[w] /\ Balance(ledger', w) <= peak'[w]
  BY <1>1 DEF TypeInv, LedgerOK, PerksDue
<1> QED BY <1>1, <1>2 DEF Grown, TypeInv, LedgerOK, BagOK

LEMMA RowsFrame ==
  ASSUME RowsBacked, UNCHANGED <<claims, checkins>>, NEW new, Grown(new),
         \A r \in new : r.reason[1] \in {"action", "referral"}
  PROVE  RowsBacked'
  BY DEF RowsBacked, Grown

LEMMA AwardsFrame ==
  ASSUME TypeInv, AwardsDue, day' \in Int, day <= day',
         \A r \in DOMAIN ledger' \union Range(job.awards)' :
           r.reason[1] = "action" => r \in DOMAIN ledger \union Range(job.awards),
         job.pc' # "award" => job.awards' = << >>,
         \A r \in AwardRow : (r.day <= day /\ PointsDue(r)) => PointsDue(r)'
  PROVE  AwardsDue'
<1>1. ASSUME NEW w \in Wallets, NEW k \in Kinds, NEW d \in Days
      PROVE  Cardinality(ActionRowsOf(w, k, d)' \union PlannedOf(w, k, d)') <= DailyCap[k]
  <2> DEFINE S == ActionRowsOf(w, k, d) \union PlannedOf(w, k, d)
             T == ActionRowsOf(w, k, d)' \union PlannedOf(w, k, d)'
  <2>1. T \subseteq S
    BY DEF ActionRowsOf, PlannedOf
  <2>2. IsFiniteSet(S)
    <3>1. IsFiniteSet(ActionRowsOf(w, k, d))
      BY FS_Subset DEF ActionRowsOf, TypeInv, LedgerOK, BagOK
    <3>2. IsFiniteSet(Range(job.awards))
      BY RangeFinite DEF TypeInv, JobOK
    <3>3. IsFiniteSet(PlannedOf(w, k, d))
      BY <3>2, FS_Subset DEF PlannedOf
    <3> QED BY <3>1, <3>3, FS_Union
  <2>3. Cardinality(S) <= DailyCap[k]
    BY DEF AwardsDue
  <2> HIDE DEF S, T
  <2>4. /\ Cardinality(T) <= Cardinality(S) /\ Cardinality(T) \in Nat
        /\ Cardinality(S) \in Nat /\ DailyCap[k] \in Nat
    BY <2>1, <2>2, FS_Subset, FS_CardinalityType, DaysFacts
  <2>5. Cardinality(T) <= DailyCap[k]
    BY <2>3, <2>4
  <2> QED BY <2>5 DEF T
<1>2. ASSUME NEW r \in DOMAIN ledger' \union Range(job.awards)', r.reason[1] = "action"
      PROVE  r.day <= day' /\ PointsDue(r)'
  <2>1. r \in DOMAIN ledger \union Range(job.awards)
    BY <1>2
  <2>2. r \in AwardRow
    <3>1. CASE r \in DOMAIN ledger
      BY <1>2, <3>1, RowFacts DEF TypeInv, LedgerOK
    <3>2. CASE r \in Range(job.awards)
      BY <3>2, RangeFinite DEF TypeInv, JobOK
    <3> QED BY <2>1, <3>1, <3>2
  <2>3. r.day <= day /\ PointsDue(r)
    BY <1>2, <2>1 DEF AwardsDue
  <2>4. r.day \in Int /\ day \in Int
    BY <2>2, AwardFacts, DaysFacts DEF TypeInv, ClockOK
  <2> QED BY <2>2, <2>3, <2>4
<1> QED BY <1>1, <1>2 DEF AwardsDue

LEMMA AwardsStay ==
  ASSUME TypeInv, AwardsDue, UNCHANGED <<job, checkins, day>>, NEW new, Grown(new),
         \A r \in new : r.reason[1] # "action"
  PROVE  AwardsDue'
<1>1. \A r \in AwardRow : PointsDue(r) => PointsDue(r)'
  BY DEF PointsDue, streakLengthBefore
<1>2. day \in Int
  BY DaysFacts DEF TypeInv, ClockOK
<1>3. \A r \in DOMAIN ledger' \union Range(job.awards)' :
        r.reason[1] = "action" => r \in DOMAIN ledger \union Range(job.awards)
  BY DEF Grown
<1>4. job.pc' # "award" => job.awards' = << >>
  BY DEF AwardsDue
<1> QED BY <1>1, <1>2, <1>3, <1>4, AwardsFrame

\* A job that plans nothing any more.
LEMMA AwardsDone ==
  ASSUME TypeInv, AwardsDue, UNCHANGED <<checkins, day>>, NEW new, Grown(new),
         \A r \in new : r.reason[1] # "action", job.awards' = << >>
  PROVE  AwardsDue'
<1>1. \A r \in AwardRow : PointsDue(r) => PointsDue(r)'
  BY DEF PointsDue, streakLengthBefore
<1>2. day \in Int
  BY DaysFacts DEF TypeInv, ClockOK
<1>3. Range(job.awards)' = {}
  BY DEF Range
<1>4. \A r \in DOMAIN ledger' \union Range(job.awards)' :
        r.reason[1] = "action" => r \in DOMAIN ledger \union Range(job.awards)
  BY <1>3 DEF Grown
<1> QED BY <1>1, <1>2, <1>4, AwardsFrame

LEMMA ReferralsFrame ==
  ASSUME ReferralsDue, UNCHANGED links,
         job.pc' = "referral" => job.pc = "referral" /\ job.todo' \subseteq job.todo
  PROVE  ReferralsDue'
  BY DEF ReferralsDue

LEMMA PaysFrame ==
  ASSUME TypeInv, ReferralPaysBoth, UNCHANGED links, NEW new, Grown(new),
         \A r \in new : r.reason[1] # "referral",
         \A t \in Txs : witnesses[t] # None => witnesses'[t] = witnesses[t]
  PROVE  ReferralPaysBoth'
<1>1. SUFFICES ASSUME NEW w \in Wallets
      PROVE  IF links[w].credited
             THEN /\ {<<r.address, r.reason[2]>> : r \in ReferralRows(w)'}
                       = {<<w, "referee">>, <<links[w].referrer, "referrer">>}
                  /\ Cardinality(ReferralRows(w)') = 2
                  /\ \E t \in Txs : /\ witnesses'[t] # None
                                    /\ witnesses'[t].address = w /\ witnesses'[t].meets
                                    /\ witnesses'[t].closed >= links[w].at
                                    /\ WithinWindow(witnesses'[t].closed)
             ELSE ReferralRows(w)' = {}
  BY DEF ReferralPaysBoth
<1>2. ReferralRows(w)' = ReferralRows(w)
  BY DEF ReferralRows, Grown
<1>3. CASE links[w].credited
  <2>1. PICK t \in Txs : /\ witnesses[t] # None
                         /\ witnesses[t].address = w /\ witnesses[t].meets
                         /\ witnesses[t].closed >= links[w].at
                         /\ WithinWindow(witnesses[t].closed)
    BY <1>3 DEF ReferralPaysBoth
  <2>2. /\ witnesses'[t] # None
        /\ witnesses'[t].address = w /\ witnesses'[t].meets
        /\ witnesses'[t].closed >= links[w].at
        /\ WithinWindow(witnesses'[t].closed)
    BY <2>1
  <2> QED BY <1>2, <1>3, <2>2 DEF ReferralPaysBoth
<1>4. CASE ~links[w].credited
  BY <1>2, <1>4 DEF ReferralPaysBoth
<1> QED BY <1>3, <1>4

LEMMA PerksFrame ==
  ASSUME TypeInv, PerksDue, PerksEarned, NEW new, Grown(new), UNCHANGED perks,
         job.pc' = "perk" => job.pc = "perk" /\ job.todo' \subseteq job.todo
  PROVE  PerksDue' /\ PerksEarned'
<1>1. \A w \in Wallets : /\ peak'[w] >= peak[w] /\ Balance(ledger', w) <= peak'[w]
                         /\ peak[w] \in Int /\ peak'[w] \in Int
  BY DEF Grown, TypeInv, LedgerOK
<1>2. \A p \in DOMAIN Tiers : Tiers[p] \in Int
  BY DaysFacts
<1>3. PerksDue'
  <2>1. ASSUME job.pc' = "perk", NEW x \in job.todo'
        PROVE  x \in Wallets \X DOMAIN Tiers /\ peak'[x[1]] >= Tiers[x[2]]
    <3>1. x \in Wallets \X DOMAIN Tiers /\ peak[x[1]] >= Tiers[x[2]]
      BY <2>1 DEF PerksDue
    <3> QED BY <3>1, <1>1, <1>2
  <2> QED BY <1>1, <2>1 DEF PerksDue
<1>4. PerksEarned'
  <2>1. SUFFICES ASSUME NEW w \in Wallets, NEW p \in perks[w] PROVE peak'[w] >= Tiers[p]
    BY DEF PerksEarned
  <2>2. peak[w] >= Tiers[p] /\ p \in DOMAIN Tiers
    BY DEF PerksEarned, TypeInv, JobOK
  <2> QED BY <1>1, <1>2, <2>2
<1> QED BY <1>3, <1>4

-------------------------------------------------------------------------------
(* The social books.                                                       *)

OnDay(L, w, d) == {r \in DOMAIN L : r.address = w /\ r.day = d /\ r.reason[1] = "social"}

Booked(L, w) == {r \in DOMAIN L : r.address = w /\ r.reason[1] \in {"social", "adjust"}}

Worth(w) == SumFunction([c \in ClaimsOf(w) |-> TaskPoints[claims[c].task]])

\* The three sums of the properties.
LEMMA SocialSums ==
  /\ \A w, d : socialPointsAwardedOn(w, d) = SumOf(ledger, OnDay(ledger, w, d))
  /\ SocialBooks <=> \A w \in Wallets : SumOf(ledger, Booked(ledger, w)) = Worth(w)
  /\ SocialCapHolds <=> \A w \in Wallets, d \in Days :
                          SumOf(ledger, OnDay(ledger, w, d)) <= SocialCap
  BY DEF socialPointsAwardedOn, SocialBooks, SocialCapHolds, OnDay, Booked, Worth

\* Rows that are neither social nor a correction leave the sums alone.
LEMMA SumsStay ==
  ASSUME TypeInv, NEW new, Grown(new), NEW w, NEW d
  PROVE  /\ (\A r \in new : ~(r.address = w /\ r.day = d /\ r.reason[1] = "social")) =>
              SumOf(ledger', OnDay(ledger', w, d)) = SumOf(ledger, OnDay(ledger, w, d))
         /\ (\A r \in new : ~(r.address = w /\ r.reason[1] \in {"social", "adjust"})) =>
              SumOf(ledger', Booked(ledger', w)) = SumOf(ledger, Booked(ledger, w))
<1>1. /\ BagOK(ledger) /\ BagOK(ledger') /\ DOMAIN ledger \subseteq Rows
      /\ DOMAIN ledger' = DOMAIN ledger \union new
  BY DEF TypeInv, LedgerOK, Grown
<1>2. ASSUME NEW rows \in SUBSET DOMAIN ledger
      PROVE  SumOf(ledger', rows) = SumOf(ledger, rows)
  <2>1. IntRows(rows)
    BY <1>1, RowsAreInts
  <2>2. rows \subseteq DOMAIN ledger'
    BY <1>1
  <2> QED BY <1>1, <2>1, <2>2, SumOfSame
<1>3. OnDay(ledger, w, d) \in SUBSET DOMAIN ledger /\ Booked(ledger, w) \in SUBSET DOMAIN ledger
  BY DEF OnDay, Booked
<1>4. (\A r \in new : ~(r.address = w /\ r.day = d /\ r.reason[1] = "social")) =>
        OnDay(ledger', w, d) = OnDay(ledger, w, d)
  BY <1>1 DEF OnDay
<1>5. (\A r \in new : ~(r.address = w /\ r.reason[1] \in {"social", "adjust"})) =>
        Booked(ledger', w) = Booked(ledger, w)
  BY <1>1 DEF Booked
<1> QED BY <1>2, <1>3, <1>4, <1>5

\* One more row adds its points.
LEMMA SumsRise ==
  ASSUME TypeInv, NEW row, Grown({row}), NEW w, NEW d
  PROVE  /\ (row.address = w /\ row.day = d /\ row.reason[1] = "social") =>
              SumOf(ledger', OnDay(ledger', w, d))
                = row.points + SumOf(ledger, OnDay(ledger, w, d))
         /\ (row.address = w /\ row.reason[1] \in {"social", "adjust"}) =>
              SumOf(ledger', Booked(ledger', w)) = row.points + SumOf(ledger, Booked(ledger, w))
<1>1. /\ BagOK(ledger) /\ BagOK(ledger') /\ DOMAIN ledger \subseteq Rows
      /\ DOMAIN ledger' = DOMAIN ledger \union {row} /\ row \notin DOMAIN ledger
      /\ row \in Rows
  BY DEF TypeInv, LedgerOK, Grown
<1>2. row.points \in Int
  BY <1>1, RowFacts
<1>3. ASSUME NEW rows \in SUBSET DOMAIN ledger
      PROVE  SumOf(ledger', rows \union {row}) = row.points + SumOf(ledger, rows)
  <2>1. IntRows(rows)
    BY <1>1, RowsAreInts
  <2> QED BY <1>1, <1>2, <2>1, SumOfAdd
<1>4. OnDay(ledger, w, d) \in SUBSET DOMAIN ledger /\ Booked(ledger, w) \in SUBSET DOMAIN ledger
  BY DEF OnDay, Booked
<1>5. (row.address = w /\ row.day = d /\ row.reason[1] = "social") =>
        OnDay(ledger', w, d) = OnDay(ledger, w, d) \union {row}
  BY <1>1 DEF OnDay
<1>6. (row.address = w /\ row.reason[1] \in {"social", "adjust"}) =>
        Booked(ledger', w) = Booked(ledger, w) \union {row}
  BY <1>1 DEF Booked
<1> QED BY <1>3, <1>4, <1>5, <1>6

\* What the active claims of a wallet are worth, with one claim more.
LEMMA WorthRises ==
  ASSUME NEW S, IsFiniteSet(S), NEW c, c \notin S, NEW f, DOMAIN f = S,
         NEW g, DOMAIN g = S \union {c}, g[c] \in Int,
         \A x \in S : f[x] \in Int /\ g[x] = f[x]
  PROVE  SumFunction(g) = g[c] + SumFunction(f)
<1>1. SumFunction(g) = SumFunctionOnSet(g, S \union {c})
  BY DEF SumFunction
<1>2. SumFunctionOnSet(g, S \union {c}) = g[c] + SumFunctionOnSet(g, S)
  BY SumAdd
<1>3. SumFunctionOnSet(g, S) = SumFunctionOnSet(f, S)
  BY SumSame
<1> QED BY <1>1, <1>2, <1>3 DEF SumFunction

LEMMA SocialFrame ==
  ASSUME TypeInv, SocialInv, UNCHANGED social, NEW new, Grown(new),
         \A r \in new : r.reason[1] \notin {"social", "adjust"}
  PROVE  SocialInv'
<1>1. claims' = claims /\ txn' = txn
  BY DEF social
<1>2. \A w, d : /\ SumOf(ledger', OnDay(ledger', w, d)) = SumOf(ledger, OnDay(ledger, w, d))
                /\ SumOf(ledger', Booked(ledger', w)) = SumOf(ledger, Booked(ledger, w))
  BY SumsStay
<1>3. \A w : ClaimsOf(w)' = ClaimsOf(w)
  BY <1>1 DEF ClaimsOf
<1>4. \A w, d : socialPointsAwardedOn(w, d)' = socialPointsAwardedOn(w, d)
  BY <1>2 DEF socialPointsAwardedOn, OnDay
<1>5. Locked'
  BY <1>1, <1>3, <1>4 DEF SocialInv, Locked
<1>6. SocialBooks'
  <2>1. \A w : Worth(w)' = Worth(w)
    BY <1>1, <1>3 DEF Worth
  <2>2. \A w \in Wallets : SumOf(ledger', Booked(ledger', w)) = Worth(w)'
    BY <1>2, <2>1 DEF SocialInv, SocialBooks, Booked, Worth
  <2> QED BY <2>2 DEF SocialBooks, Booked, Worth
<1>7. SocialCapHolds'
  <2>1. \A w \in Wallets, d \in Days : SumOf(ledger', OnDay(ledger', w, d)) <= SocialCap
    BY <1>2, SocialSums DEF SocialInv
  <2> QED BY <2>1 DEF SocialCapHolds, OnDay
<1> QED BY <1>1, <1>5, <1>6, <1>7 DEF SocialInv, OneHandlePerWallet

LEMMA ClaimsFinite ==
  ASSUME TypeInv
  PROVE  /\ \A w : IsFiniteSet(ClaimsOf(w))
         /\ \A c \in DOMAIN claims : claims[c] \in ClaimRec /\ TaskPoints[claims[c].task] \in Int
<1>1. DOMAIN claims = 1 .. Len(claims) /\ Len(claims) \in Nat
      /\ \A c \in 1 .. Len(claims) : claims[c] \in ClaimRec
  BY LenProperties, ElementOfSeq DEF TypeInv, SocialOK
<1>2. IsFiniteSet(DOMAIN claims)
  BY <1>1, FS_Interval
<1>3. \A w : IsFiniteSet(ClaimsOf(w))
  BY <1>2, FS_Subset DEF ClaimsOf
<1> QED BY <1>1, <1>3, DaysFacts DEF ClaimRec

LEMMA ClaimDecideSocial ==
  ASSUME TypeInv, SocialInv, NEW q \in Requests, NEW w \in Wallets, NEW k \in Tasks,
         NEW h \in Handles, ClaimDecide(q, w, k, h)
  PROVE  SocialInv'
<1> DEFINE x == [address |-> w, task |-> k, handle |-> h, day |-> day]
<1>1. /\ txn' = [txn EXCEPT ![q] = x] /\ claims' = claims /\ ledger' = ledger
      /\ LockFree(w) /\ SocialClaimEligible(w, k, h) /\ txn \in [Requests -> OpenClaim \union {Free}]
  BY DEF ClaimDecide, books, TypeInv, SocialOK
<1>2. x.address = w /\ x.task = k /\ x.handle = h /\ x.day = day
  OBVIOUS
<1> HIDE DEF x
<1>3. \A v : ClaimsOf(v)' = ClaimsOf(v)
  BY <1>1 DEF ClaimsOf
<1>4. \A v, d : socialPointsAwardedOn(v, d)' = socialPointsAwardedOn(v, d)
  BY <1>1 DEF socialPointsAwardedOn
<1>5. \A v : Worth(v)' = Worth(v)
  BY <1>1, <1>3 DEF Worth
<1>6. Locked'
  <2>1. ASSUME NEW p \in Requests, NEW r \in Requests, txn'[p] # Free, txn'[r] # Free,
               txn'[p].address = txn'[r].address
        PROVE  p = r
    BY <1>1, <1>2, <2>1 DEF LockFree, SocialInv, Locked
  <2>2. ASSUME NEW p \in Requests, txn'[p] # Free
        PROVE  /\ \A c \in ClaimsOf(txn'[p].address) : claims[c].handle = txn'[p].handle
               /\ socialPointsAwardedOn(txn'[p].address, txn'[p].day)
                    + TaskPoints[txn'[p].task] <= SocialCap
    <3>1. CASE p = q
      BY <1>1, <1>2, <3>1 DEF SocialClaimEligible
    <3>2. CASE p # q
      BY <1>1, <2>2, <3>2 DEF SocialInv, Locked
    <3> QED BY <3>1, <3>2
  <2> QED BY <1>1, <1>3, <1>4, <2>1, <2>2 DEF Locked
<1>7. SocialBooks' /\ SocialCapHolds' /\ OneHandlePerWallet'
  <2>1. \A v \in Wallets : SumOf(ledger', Booked(ledger', v)) = Worth(v)'
    BY <1>1, <1>5 DEF SocialInv, SocialBooks, Booked, Worth
  <2>2. SocialBooks'
    BY <2>1 DEF SocialBooks, Booked, Worth
  <2> QED BY <1>1, <2>2 DEF SocialInv, SocialCapHolds, OneHandlePerWallet
<1> QED BY <1>6, <1>7 DEF SocialInv

LEMMA ClaimCommitSocial ==
  ASSUME TypeInv, RowsBacked, SocialInv, NEW q \in Requests, ClaimCommit(q), txn[q] \in OpenClaim,
         ~ClaimKeyTaken(txn[q])
  PROVE  SocialInv'
<1>0. PICK w0, d0, pts, n : /\ w0 = txn[q].address /\ d0 = txn[q].day
                            /\ pts = TaskPoints[txn[q].task] /\ n = Len(claims) + 1
  OBVIOUS
<1>1. PICK row \in SocialRow, c \in ClaimRec :
        /\ Grown({row}) /\ claims' = Append(claims, c)
        /\ row.address = w0 /\ row.day = d0 /\ row.points = pts /\ row.reason[1] = "social"
        /\ c.live /\ c.address = w0 /\ c.task = txn[q].task /\ c.handle = txn[q].handle
  BY <1>0, ClaimCommitGrows
<1>2. /\ n \notin DOMAIN claims /\ DOMAIN claims' = DOMAIN claims \union {n} /\ claims'[n] = c
      /\ \A d \in DOMAIN claims : claims'[d] = claims[d]
  BY <1>0, <1>1, AddedClaim DEF TypeInv, SocialOK
<1>3. txn' = [txn EXCEPT ![q] = Free] /\ txn \in [Requests -> OpenClaim \union {Free}]
      /\ txn[q] # Free
  BY DEF ClaimCommit, TypeInv, SocialOK
<1>4. w0 \in Wallets /\ d0 \in Days /\ pts \in Int /\ txn[q].task \in Tasks
  BY <1>0, DaysFacts DEF OpenClaim
<1>5. ClaimsOf(w0)' = ClaimsOf(w0) \union {n} /\ n \notin ClaimsOf(w0)
      /\ \A w : w # w0 => ClaimsOf(w)' = ClaimsOf(w)
  BY <1>1, <1>2 DEF ClaimsOf
<1>6. Locked'
  <2>1. ASSUME NEW p \in Requests, txn'[p] # Free
        PROVE  p # q /\ txn'[p] = txn[p] /\ txn[p] # Free /\ txn[p].address # w0
    BY <1>0, <1>3, <2>1 DEF SocialInv, Locked
  <2>2. ASSUME NEW p \in Requests, txn'[p] # Free,
               NEW v, NEW d, NEW k, v = txn[p].address, d = txn[p].day, k = txn[p].task
        PROVE  /\ \A e \in ClaimsOf(v)' : claims'[e].handle = txn[p].handle
               /\ socialPointsAwardedOn(v, d)' + TaskPoints[k] <= SocialCap
    <3>1. v # w0 /\ txn[p] # Free
      BY <2>1, <2>2
    <3>2. SumOf(ledger', OnDay(ledger', v, d)) = SumOf(ledger, OnDay(ledger, v, d))
      BY <1>1, <3>1, SumsStay
    <3>3. socialPointsAwardedOn(v, d)' = socialPointsAwardedOn(v, d)
      BY <3>2 DEF socialPointsAwardedOn, OnDay
    <3>4. \A e \in ClaimsOf(v)' : e \in ClaimsOf(v) /\ claims'[e] = claims[e]
      BY <1>2, <1>5, <3>1 DEF ClaimsOf
    <3>5. /\ \A e \in ClaimsOf(v) : claims[e].handle = txn[p].handle
          /\ socialPointsAwardedOn(v, d) + TaskPoints[k] <= SocialCap
      BY <2>2, <3>1 DEF SocialInv, Locked
    <3> QED BY <3>3, <3>4, <3>5
  <2>3. ASSUME NEW p \in Requests, txn'[p] # Free
        PROVE  /\ \A e \in ClaimsOf(txn[p].address)' : claims'[e].handle = txn'[p].handle
               /\ socialPointsAwardedOn(txn[p].address, txn[p].day)'
                    + TaskPoints[txn'[p].task] <= SocialCap
    <3>1. txn'[p] = txn[p]
      BY <2>1, <2>3
    <3> QED BY <2>2, <2>3, <3>1
  <2> QED BY <2>1, <2>3 DEF SocialInv, Locked
<1>7. OneHandlePerWallet'
  <2>1. \A e \in ClaimsOf(w0) : claims[e].handle = c.handle
    BY <1>0, <1>1, <1>3 DEF SocialInv, Locked
  <2>2. ASSUME NEW a \in DOMAIN claims', NEW b \in DOMAIN claims', claims'[a].live,
               claims'[b].live, claims'[a].address = claims'[b].address
        PROVE  claims'[a].handle = claims'[b].handle
    <3>1. CASE a = n /\ b = n
      BY <3>1
    <3>2. CASE a = n /\ b # n
      BY <1>1, <1>2, <2>1, <2>2, <3>2 DEF ClaimsOf
    <3>3. CASE a # n /\ b = n
      BY <1>1, <1>2, <2>1, <2>2, <3>3 DEF ClaimsOf
    <3>4. CASE a # n /\ b # n
      BY <1>2, <2>2, <3>4 DEF SocialInv, OneHandlePerWallet
    <3> QED BY <3>1, <3>2, <3>3, <3>4
  <2> QED BY <2>2 DEF OneHandlePerWallet
<1>8. SocialBooks'
  <2>1. SUFFICES ASSUME NEW w \in Wallets
                 PROVE  SumOf(ledger', Booked(ledger', w)) = Worth(w)'
    BY DEF SocialBooks, Booked, Worth
  <2>2. SumOf(ledger, Booked(ledger, w)) = Worth(w)
    BY SocialSums DEF SocialInv
  <2>3. CASE w # w0
    <3>1. SumOf(ledger', Booked(ledger', w)) = SumOf(ledger, Booked(ledger, w))
      BY <1>1, <2>3, SumsStay
    <3>2. [e \in ClaimsOf(w)' |-> TaskPoints[claims'[e].task]]
            = [e \in ClaimsOf(w) |-> TaskPoints[claims[e].task]]
      <4>1. ClaimsOf(w)' = ClaimsOf(w)
        BY <1>5, <2>3
      <4>2. \A e \in ClaimsOf(w) : claims'[e] = claims[e]
        BY <1>2 DEF ClaimsOf
      <4> QED BY <4>1, <4>2
    <3> QED BY <2>2, <3>1, <3>2 DEF Worth
  <2>4. CASE w = w0
    <3> DEFINE S == ClaimsOf(w0)
               f == [e \in S |-> TaskPoints[claims[e].task]]
               g == [e \in ClaimsOf(w0)' |-> TaskPoints[claims'[e].task]]
    <3>1. SumOf(ledger', Booked(ledger', w)) = pts + SumOf(ledger, Booked(ledger, w))
      BY <1>1, <2>4, SumsRise
    <3>2. IsFiniteSet(S) /\ n \notin S /\ DOMAIN f = S /\ DOMAIN g = S \union {n}
      BY <1>5, ClaimsFinite
    <3>3. g[n] = pts /\ g[n] \in Int
      BY <1>0, <1>1, <1>2, <1>4, <1>5
    <3>4. \A e \in S : f[e] \in Int /\ g[e] = f[e]
      BY <1>2, <1>5, ClaimsFinite DEF ClaimsOf
    <3>5. Worth(w0) = SumFunction(f) /\ Worth(w0)' = SumFunction(g)
      BY DEF Worth
    <3> HIDE DEF S, f, g
    <3>6. SumFunction(g) = g[n] + SumFunction(f)
      <4>1. /\ IsFiniteSet(S) /\ n \notin S /\ DOMAIN f = S /\ DOMAIN g = S \union {n}
            /\ g[n] \in Int /\ \A e \in S : f[e] \in Int /\ g[e] = f[e]
        BY <3>2, <3>3, <3>4
      <4> QED BY ONLY <4>1, WorthRises
    <3> QED BY <2>2, <2>4, <3>1, <3>3, <3>5, <3>6
  <2> QED BY <2>3, <2>4
<1>9. SocialCapHolds'
  <2>1. SUFFICES ASSUME NEW w \in Wallets, NEW d \in Days
                 PROVE  SumOf(ledger', OnDay(ledger', w, d)) <= SocialCap
    BY DEF SocialCapHolds, OnDay
  <2>2. SumOf(ledger, OnDay(ledger, w, d)) <= SocialCap
    BY SocialSums DEF SocialInv
  <2>3. CASE ~(w = w0 /\ d = d0)
    <3>1. SumOf(ledger', OnDay(ledger', w, d)) = SumOf(ledger, OnDay(ledger, w, d))
      BY <1>1, <2>3, SumsStay
    <3> QED BY <2>2, <3>1
  <2>4. CASE w = w0 /\ d = d0
    <3>1. SumOf(ledger', OnDay(ledger', w, d)) = pts + SumOf(ledger, OnDay(ledger, w, d))
      BY <1>1, <2>4, SumsRise
    <3>2. socialPointsAwardedOn(w0, d0) + pts <= SocialCap
      BY <1>0, <1>3 DEF SocialInv, Locked
    <3>3. SumOf(ledger, OnDay(ledger, w, d)) + pts <= SocialCap
      BY <2>4, <3>2, SocialSums
    <3>4. SumOf(ledger, OnDay(ledger, w, d)) \in Int
      BY SumType2 DEF TypeInv, LedgerOK, OnDay
    <3> QED BY <1>4, <3>1, <3>3, <3>4
  <2> QED BY <2>3, <2>4
<1> QED BY <1>6, <1>7, <1>8, <1>9 DEF SocialInv

\* A transaction that ends without a claim gives its wallet back.
LEMMA ClaimEndSocial ==
  ASSUME TypeInv, SocialInv, NEW q \in Requests, txn' = [txn EXCEPT ![q] = Free],
         UNCHANGED <<claims, ledger>>
  PROVE  SocialInv'
<1>1. txn \in [Requests -> OpenClaim \union {Free}]
  BY DEF TypeInv, SocialOK
<1>2. \A p \in Requests : txn'[p] # Free => txn'[p] = txn[p]
  BY <1>1
<1>3. \A v : ClaimsOf(v)' = ClaimsOf(v)
  BY DEF ClaimsOf
<1>4. \A v, d : socialPointsAwardedOn(v, d)' = socialPointsAwardedOn(v, d)
  BY DEF socialPointsAwardedOn
<1>5. Locked'
  BY <1>2, <1>3, <1>4 DEF SocialInv, Locked
<1>6. SocialBooks'
  <2>1. \A v : Worth(v)' = Worth(v)
    BY <1>3 DEF Worth
  <2>2. \A v \in Wallets : SumOf(ledger', Booked(ledger', v)) = Worth(v)'
    BY <2>1 DEF SocialInv, SocialBooks, Booked, Worth
  <2> QED BY <2>2 DEF SocialBooks, Booked, Worth
<1> QED BY <1>5, <1>6 DEF SocialInv, SocialCapHolds, OneHandlePerWallet

LEMMA RemoveClaimSocial ==
  ASSUME TypeInv, RowsBacked, SocialInv, NEW c \in 1 .. MaxClaims, RemoveClaim(c)
  PROVE  SocialInv'
<1>0. PICK w0, pts : w0 = claims[c].address /\ pts = TaskPoints[claims[c].task]
  OBVIOUS
<1>1. PICK row \in AdjustRow :
        /\ Grown({row}) /\ row.address = w0 /\ row.reason[1] = "adjust" /\ row.points = -pts
  BY <1>0, RemoveClaimGrows
<1>2. /\ c \in DOMAIN claims /\ claims[c].live /\ DOMAIN claims' = DOMAIN claims
      /\ \A d \in DOMAIN claims : d # c => claims'[d] = claims[d]
      /\ ~claims'[c].live
      /\ claims'[c].address = claims[c].address /\ claims'[c].task = claims[c].task
  BY RemovedClaim
<1>3. txn' = txn
  BY DEF RemoveClaim
<1>4. w0 \in Wallets /\ pts \in Int
  BY <1>0, <1>2, ClaimsFinite DEF ClaimRec
<1>5. c \notin ClaimsOf(w0)' /\ ClaimsOf(w0) = ClaimsOf(w0)' \union {c}
      /\ \A w : w # w0 => ClaimsOf(w)' = ClaimsOf(w)
  BY <1>0, <1>2 DEF ClaimsOf
<1>6. \A w : \A e \in ClaimsOf(w)' : e \in ClaimsOf(w) /\ claims'[e] = claims[e]
  BY <1>2 DEF ClaimsOf
<1>7. \A w, d : SumOf(ledger', OnDay(ledger', w, d)) = SumOf(ledger, OnDay(ledger, w, d))
  BY <1>1, SumsStay
<1>8. Locked'
  <2>1. \A w, d : socialPointsAwardedOn(w, d)' = socialPointsAwardedOn(w, d)
    BY <1>7 DEF socialPointsAwardedOn, OnDay
  <2> QED BY <1>3, <1>6, <2>1 DEF SocialInv, Locked
<1>9. OneHandlePerWallet'
  BY <1>2 DEF SocialInv, OneHandlePerWallet
<1>10. SocialBooks'
  <2>1. SUFFICES ASSUME NEW w \in Wallets
                 PROVE  SumOf(ledger', Booked(ledger', w)) = Worth(w)'
    BY DEF SocialBooks, Booked, Worth
  <2>2. SumOf(ledger, Booked(ledger, w)) = Worth(w)
    BY SocialSums DEF SocialInv
  <2>3. CASE w # w0
    <3>1. SumOf(ledger', Booked(ledger', w)) = SumOf(ledger, Booked(ledger, w))
      BY <1>1, <2>3, SumsStay
    <3>2. [e \in ClaimsOf(w)' |-> TaskPoints[claims'[e].task]]
            = [e \in ClaimsOf(w) |-> TaskPoints[claims[e].task]]
      <4>1. ClaimsOf(w)' = ClaimsOf(w)
        BY <1>5, <2>3
      <4>2. \A e \in ClaimsOf(w) : claims'[e] = claims[e]
        BY <1>6, <4>1
      <4> QED BY <4>1, <4>2
    <3> QED BY <2>2, <3>1, <3>2 DEF Worth
  <2>4. CASE w = w0
    <3> DEFINE S == ClaimsOf(w0)'
               f == [e \in S |-> TaskPoints[claims'[e].task]]
               g == [e \in ClaimsOf(w0) |-> TaskPoints[claims[e].task]]
    <3>1. SumOf(ledger', Booked(ledger', w)) = (-pts) + SumOf(ledger, Booked(ledger, w))
      BY <1>1, <2>4, SumsRise
    <3>2. IsFiniteSet(ClaimsOf(w0)) /\ S \subseteq ClaimsOf(w0)
      BY <1>5, ClaimsFinite
    <3>3. IsFiniteSet(S) /\ c \notin S /\ DOMAIN f = S /\ DOMAIN g = S \union {c}
      BY <1>5, <3>2, FS_Subset
    <3>4. g[c] = pts
      BY <1>0, <1>5
    <3>5. \A e \in S : f[e] \in Int /\ g[e] = f[e]
      <4>1. \A e \in S : e \in ClaimsOf(w0) /\ e \in DOMAIN claims /\ claims'[e] = claims[e]
        BY <1>6 DEF ClaimsOf
      <4> QED BY <4>1, ClaimsFinite
    <3>6. Worth(w0) = SumFunction(g) /\ Worth(w0)' = SumFunction(f)
      BY DEF Worth
    <3>7. SumFunction(f) \in Int
      <4>1. \A e \in S : f[e] \in Int
        BY <3>5
      <4> HIDE DEF f, S
      <4> QED BY <3>3, <4>1, SumType DEF SumFunction
    <3> HIDE DEF S, f, g
    <3>8. SumFunction(g) = g[c] + SumFunction(f)
      BY <1>4, <3>3, <3>4, <3>5, WorthRises
    <3> QED BY <1>4, <2>2, <2>4, <3>1, <3>4, <3>6, <3>7, <3>8
  <2> QED BY <2>3, <2>4
<1>11. SocialCapHolds'
  <2>1. \A w \in Wallets, d \in Days : SumOf(ledger', OnDay(ledger', w, d)) <= SocialCap
    BY <1>7, SocialSums DEF SocialInv
  <2> QED BY <2>1 DEF SocialCapHolds, OnDay
<1> QED BY <1>8, <1>9, <1>10, <1>11 DEF SocialInv

-------------------------------------------------------------------------------
(* Every step keeps the invariant.                                         *)

LEMMA InitInv == Init => IInv
<1> SUFFICES ASSUME Init PROVE IInv
  OBVIOUS
<1>1. TypeInv
  BY InitType
<1>2. DOMAIN ledger = {} /\ BagOK(ledger) /\ claims = << >> /\ job = Idle /\ job.awards = << >>
      /\ job.pc = "idle"
  BY EmptyLedger DEF Init, Idle
<1>3. RowsBacked
  BY <1>2 DEF RowsBacked
<1>4. \A rows \in SUBSET DOMAIN ledger : SumOf(ledger, rows) = 0
  <2>1. SUFFICES ASSUME NEW rows \in SUBSET DOMAIN ledger PROVE SumOf(ledger, rows) = 0
    OBVIOUS
  <2>2. rows = {} /\ IntRows(rows)
    BY <1>2, FS_EmptySet DEF IntRows
  <2>3. SumOf(ledger, rows) = SumFunctionOnSet([r \in rows |-> r.points], rows)
    BY <1>2, <2>2, SumOfRows
  <2> QED BY <2>2, <2>3, SumEmpty
<1>5. SocialInv
  <2>1. Locked
    BY DEF Init, Locked
  <2>2. OneHandlePerWallet
    BY <1>2 DEF OneHandlePerWallet
  <2>3. SocialBooks
    <3>1. SUFFICES ASSUME NEW w \in Wallets PROVE SumOf(ledger, Booked(ledger, w)) = Worth(w)
      BY SocialSums
    <3>2. Booked(ledger, w) = {} /\ ClaimsOf(w) = {}
      BY <1>2 DEF Booked, ClaimsOf
    <3>3. Worth(w) = SumFunctionOnSet([c \in ClaimsOf(w) |-> TaskPoints[claims[c].task]], {})
      BY <3>2 DEF Worth, SumFunction
    <3> QED BY <1>4, <3>2, <3>3, SumEmpty
  <2>4. SocialCapHolds
    <3>1. \A w, d : OnDay(ledger, w, d) \in SUBSET DOMAIN ledger
      BY DEF OnDay
    <3>2. \A w, d : SumOf(ledger, OnDay(ledger, w, d)) = 0
      BY <1>4, <3>1
    <3> QED BY <3>2, SocialSums, DaysFacts
  <2> QED BY <2>1, <2>2, <2>3, <2>4 DEF SocialInv
<1>6. AwardsDue
  <2>1. Range(job.awards) = {}
    BY <1>2 DEF Range
  <2>2. \A w, k, d : ActionRowsOf(w, k, d) \union PlannedOf(w, k, d) = {}
    BY <1>2, <2>1 DEF ActionRowsOf, PlannedOf
  <2>3. Cardinality({}) = 0 /\ \A k \in Kinds : 0 <= DailyCap[k]
    BY FS_EmptySet, DaysFacts
  <2> QED BY <1>2, <2>1, <2>2, <2>3 DEF AwardsDue
<1>7. ReferralsDue
  BY <1>2 DEF ReferralsDue
<1>8. ReferralPaysBoth
  <2>1. \A w \in Wallets : ~links[w].credited
    BY DEF Init, NoLink
  <2> QED BY <1>2, <2>1 DEF ReferralPaysBoth, ReferralRows
<1>9. PerksDue
  <2>1. \A w : Balance(ledger, w) = 0
    BY <1>4 DEF Balance
  <2> QED BY <1>2, <2>1 DEF Init, PerksDue
<1>10. PerksEarned
  BY DEF Init, PerksEarned
<1> QED BY <1>1, <1>3, <1>5, <1>6, <1>7, <1>8, <1>9, <1>10 DEF IInv

LEMMA EnrollInd ==
  ASSUME IInv, NEW w \in Wallets, NEW r \in Wallets \union {None}, Enroll(w, r)
  PROVE  IInv'
<1>1. TypeInv'
  BY EnrollType DEF IInv
<1>2. UNCHANGED <<witnesses, checkins, social, books, perks, job, day, faults>>
      /\ w \notin enrolled
  BY DEF Enroll
<1>3. Grown({})
  BY <1>2, GrownStay DEF IInv
<1>4. RowsBacked' /\ SocialInv' /\ AwardsDue' /\ PerksDue' /\ PerksEarned'
  BY <1>2, <1>3, RowsFrame, SocialFrame, AwardsStay, PerksFrame DEF IInv, social
<1>5. links[w] = NoLink /\ ~links[w].credited
  BY <1>2 DEF IInv, TypeInv, PeopleOK, NoLink
<1>6. /\ \A v \in Wallets : v # w => links'[v] = links[v]
      /\ ~links'[w].credited
  BY <1>5 DEF Enroll, IInv, TypeInv, PeopleOK
<1>7. ReferralsDue'
  BY <1>2, <1>5, <1>6 DEF IInv, ReferralsDue
<1>8. ReferralPaysBoth'
  <2>1. ledger' = ledger /\ witnesses' = witnesses
    BY <1>2 DEF books
  <2>2. \A v : ReferralRows(v)' = ReferralRows(v)
    BY <2>1 DEF ReferralRows
  <2>3. ReferralRows(w) = {}
    BY <1>5 DEF IInv, ReferralPaysBoth
  <2> QED BY <1>6, <2>1, <2>2, <2>3 DEF IInv, ReferralPaysBoth
<1> QED BY <1>1, <1>4, <1>7, <1>8 DEF IInv

LEMMA CheckInInd ==
  ASSUME IInv, NEW w \in Wallets, CheckIn(w)
  PROVE  IInv'
<1>1. TypeInv'
  BY CheckInType DEF IInv
<1>2. PICK row \in CheckinRow : Grown({row}) /\ row.address = w /\ row.ref = day
  BY CheckInGrows DEF IInv
<1>3. row.reason[1] = "streak"
  BY DEF CheckinRow
<1>4. /\ UNCHANGED <<enrolled, links, witnesses, social, perks, job, day, faults>>
      /\ checkins' = [checkins EXCEPT ![w] = @ \union {day}]
  BY DEF CheckIn
<1>5. RowsBacked'
  <2>1. claims' = claims
    BY <1>4 DEF social
  <2>2. \A v \in Wallets : checkins[v] \subseteq checkins'[v]
    BY <1>4 DEF IInv, TypeInv, PeopleOK
  <2>3. day \in checkins'[w]
    BY <1>4 DEF IInv, TypeInv, PeopleOK
  <2>4. \A r \in DOMAIN ledger : r.address \in Wallets
    BY RowFacts DEF IInv, TypeInv, LedgerOK
  <2> QED BY <1>2, <1>3, <2>1, <2>2, <2>3, <2>4 DEF IInv, RowsBacked, Grown
<1>6. SocialInv'
  BY <1>2, <1>3, <1>4, SocialFrame DEF IInv
<1>7. AwardsDue'
  <2>1. day \in Int
    BY DaysFacts DEF IInv, TypeInv, ClockOK
  <2>2. \A r \in DOMAIN ledger' \union Range(job.awards)' :
          r.reason[1] = "action" => r \in DOMAIN ledger \union Range(job.awards)
    BY <1>2, <1>3, <1>4 DEF Grown
  <2>3. ASSUME NEW r \in AwardRow, r.day <= day, PointsDue(r)
        PROVE  PointsDue(r)'
    <3>1. r.day \in Nat /\ r.address \in Wallets
      BY AwardFacts, DaysFacts DEF AwardRow
    <3>2. \A f \in 0 .. r.day - 1 : f \in checkins[r.address] <=> f \in checkins'[r.address]
      BY <1>4, <2>1, <2>3, <3>1 DEF IInv, TypeInv, PeopleOK
    <3>3. streakLengthBefore(r.address, r.day)' = streakLengthBefore(r.address, r.day)
      <4> DEFINE D == checkins[r.address]
                 E == checkins'[r.address]
      <4>1. \A f \in 0 .. r.day - 1 : f \in D <=> f \in E
        BY <3>2
      <4> HIDE DEF D, E
      <4>2. Cardinality({e \in 0 .. r.day - 1 : \A f \in e .. r.day - 1 : f \in D})
              = Cardinality({e \in 0 .. r.day - 1 : \A f \in e .. r.day - 1 : f \in E})
        <5>1. PICK k : k = r.day
          OBVIOUS
        <5>2. k \in Nat /\ \A f \in 0 .. k - 1 : f \in D <=> f \in E
          BY <3>1, <4>1, <5>1
        <5>3. Cardinality({e \in 0 .. k - 1 : \A f \in e .. k - 1 : f \in D})
                = Cardinality({e \in 0 .. k - 1 : \A f \in e .. k - 1 : f \in E})
          BY ONLY <5>2, StreakStable
        <5> QED BY <5>1, <5>3
      <4> QED BY <4>2 DEF streakLengthBefore, D, E
    <3> QED BY <2>3, <3>3 DEF PointsDue
  <2>4. job.pc' # "award" => job.awards' = << >>
    BY <1>4 DEF IInv, AwardsDue
  <2> QED BY <1>4, <2>1, <2>2, <2>3, <2>4, AwardsFrame DEF IInv
<1>8. ReferralsDue' /\ ReferralPaysBoth' /\ PerksDue' /\ PerksEarned'
  BY <1>2, <1>3, <1>4, ReferralsFrame, PaysFrame, PerksFrame DEF IInv
<1> QED BY <1>1, <1>5, <1>6, <1>7, <1>8 DEF IInv

LEMMA ClaimDecideInd ==
  ASSUME IInv, NEW q \in Requests, NEW w \in Wallets, NEW k \in Tasks, NEW h \in Handles,
         ClaimDecide(q, w, k, h)
  PROVE  IInv'
<1>1. TypeInv' /\ SocialInv'
  BY ClaimDecideType, ClaimDecideSocial DEF IInv
<1>2. UNCHANGED <<people, witnesses, claims, books, perks, job, day, faults>>
  BY DEF ClaimDecide
<1>3. Grown({}) /\ UNCHANGED <<links, checkins>>
  BY <1>2, GrownStay DEF IInv, people
<1>4. RowsBacked' /\ AwardsDue' /\ ReferralsDue' /\ ReferralPaysBoth' /\ PerksDue' /\ PerksEarned'
  BY <1>2, <1>3, RowsFrame, AwardsStay, ReferralsFrame, PaysFrame, PerksFrame DEF IInv
<1> QED BY <1>1, <1>4 DEF IInv

LEMMA ClaimCommitInd ==
  ASSUME IInv, NEW q \in Requests, ClaimCommit(q)
  PROVE  IInv'
<1>1. TypeInv'
  BY ClaimCommitType DEF IInv
<1>2. UNCHANGED <<people, witnesses, perks, job, day, faults>> /\ UNCHANGED <<links, checkins>>
      /\ txn[q] # Free /\ txn[q] \in OpenClaim /\ txn' = [txn EXCEPT ![q] = Free]
  BY DEF ClaimCommit, people, IInv, TypeInv, SocialOK
<1>3. CASE ClaimKeyTaken(txn[q])
  <2>1. UNCHANGED <<claims, books, ledger>>
    BY <1>3 DEF ClaimCommit, books
  <2>2. Grown({})
    BY <2>1, GrownStay DEF IInv
  <2>3. RowsBacked' /\ AwardsDue' /\ ReferralsDue' /\ ReferralPaysBoth' /\ PerksDue' /\ PerksEarned'
    BY <1>2, <2>1, <2>2, RowsFrame, AwardsStay, ReferralsFrame, PaysFrame, PerksFrame DEF IInv
  <2>4. SocialInv'
    BY <1>2, <2>1, ClaimEndSocial DEF IInv
  <2> QED BY <1>1, <2>3, <2>4 DEF IInv
<1>4. CASE ~ClaimKeyTaken(txn[q])
  <2>1. SocialInv'
    BY <1>2, <1>4, ClaimCommitSocial DEF IInv
  <2>2. PICK row \in SocialRow, c \in ClaimRec :
          /\ Grown({row}) /\ claims' = Append(claims, c) /\ row.reason[1] = "social"
          /\ row.ref = Len(claims) + 1 /\ row.points = TaskPoints[txn[q].task]
          /\ c.task = txn[q].task
    BY <1>4, ClaimCommitGrows DEF IInv
  <2>3. AwardsDue' /\ ReferralsDue' /\ ReferralPaysBoth' /\ PerksDue' /\ PerksEarned'
    BY <1>2, <2>2, AwardsStay, ReferralsFrame, PaysFrame, PerksFrame DEF IInv
  <2>4. RowsBacked'
    <3>1. /\ DOMAIN claims' = DOMAIN claims \union {Len(claims) + 1}
          /\ claims'[Len(claims) + 1] = c
          /\ \A d \in DOMAIN claims : claims'[d] = claims[d]
      BY <2>2, AddedClaim DEF IInv, TypeInv, SocialOK
    <3> QED BY <1>2, <2>2, <3>1 DEF IInv, RowsBacked, Grown
  <2> QED BY <1>1, <2>1, <2>3, <2>4 DEF IInv
<1> QED BY <1>3, <1>4

LEMMA ClaimAbortInd ==
  ASSUME IInv, NEW q \in Requests, ClaimAbort(q)
  PROVE  IInv'
<1>1. TypeInv'
  BY ClaimAbortType DEF IInv
<1>2. /\ UNCHANGED <<people, witnesses, claims, books, perks, job, day>>
      /\ txn' = [txn EXCEPT ![q] = Free]
  BY DEF ClaimAbort
<1>3. Grown({}) /\ UNCHANGED <<links, checkins, ledger>>
  BY <1>2, GrownStay DEF IInv, people, books
<1>4. RowsBacked' /\ AwardsDue' /\ ReferralsDue' /\ ReferralPaysBoth' /\ PerksDue' /\ PerksEarned'
  BY <1>2, <1>3, RowsFrame, AwardsStay, ReferralsFrame, PaysFrame, PerksFrame DEF IInv
<1>5. SocialInv'
  BY <1>2, <1>3, ClaimEndSocial DEF IInv
<1> QED BY <1>1, <1>4, <1>5 DEF IInv

LEMMA RemoveClaimInd ==
  ASSUME IInv, NEW c \in 1 .. MaxClaims, RemoveClaim(c)
  PROVE  IInv'
<1>1. TypeInv' /\ SocialInv'
  BY RemoveClaimType, RemoveClaimSocial DEF IInv
<1>2. UNCHANGED <<people, witnesses, txn, perks, job, day, faults>> /\ UNCHANGED <<links, checkins>>
  BY DEF RemoveClaim, people
<1>3. PICK row \in AdjustRow : Grown({row}) /\ row.ref = c /\ row.reason[1] = "adjust"
  BY RemoveClaimGrows DEF IInv
<1>4. AwardsDue' /\ ReferralsDue' /\ ReferralPaysBoth' /\ PerksDue' /\ PerksEarned'
  BY <1>2, <1>3, AwardsStay, ReferralsFrame, PaysFrame, PerksFrame DEF IInv
<1>5. RowsBacked'
  <2>1. /\ c \in DOMAIN claims /\ DOMAIN claims' = DOMAIN claims /\ ~claims'[c].live
        /\ \A d \in DOMAIN claims : /\ claims'[d].task = claims[d].task
                                    /\ d # c => claims'[d] = claims[d]
    BY RemovedClaim DEF IInv
  <2> QED BY <1>2, <1>3, <2>1 DEF IInv, RowsBacked, Grown
<1> QED BY <1>1, <1>4, <1>5 DEF IInv

LEMMA WitnessInd ==
  ASSUME IInv, NEW t \in Txs, NEW w \in Wallets, NEW k \in Kinds, NEW meets \in BOOLEAN,
         NEW d \in Days, Witness(t, w, k, meets, d)
  PROVE  IInv'
<1>1. TypeInv'
  BY WitnessType DEF IInv
<1>2. UNCHANGED <<people, social, books, perks, job, day, faults>>
  BY DEF Witness
<1>3. Grown({}) /\ UNCHANGED <<links, checkins, claims>>
  BY <1>2, GrownStay DEF IInv, people, social
<1>4. \A s \in Txs : witnesses[s] # None => witnesses'[s] = witnesses[s]
  BY DEF Witness, IInv, TypeInv, WitnessOK
<1>5. RowsBacked' /\ SocialInv' /\ AwardsDue' /\ ReferralsDue' /\ PerksDue' /\ PerksEarned'
  BY <1>2, <1>3, RowsFrame, SocialFrame, AwardsStay, ReferralsFrame, PerksFrame DEF IInv
<1>6. ReferralPaysBoth'
  BY <1>3, <1>4, PaysFrame DEF IInv
<1> QED BY <1>1, <1>5, <1>6 DEF IInv

LEMMA PlanAwardsInd ==
  ASSUME IInv, PlanAwards
  PROVE  IInv'
<1>1. TypeInv'
  BY PlanAwardsType DEF IInv
<1>2. UNCHANGED <<people, witnesses, social, books, perks, day, faults>>
  BY DEF PlanAwards
<1>3. Grown({}) /\ UNCHANGED <<links, checkins, claims, ledger>>
  BY <1>2, GrownStay DEF IInv, people, social, books
<1>4. /\ job.awards = << >>
      /\ job' = [pc |-> "award", awards |-> planActionAwards, todo |-> job.todo]
  BY PlanAwardsJob DEF IInv
<1>5. RowsBacked' /\ SocialInv' /\ ReferralsDue' /\ ReferralPaysBoth' /\ PerksDue' /\ PerksEarned'
  BY <1>2, <1>3, <1>4, RowsFrame, SocialFrame, ReferralsFrame, PaysFrame, PerksFrame DEF IInv
<1>6. AwardsDue'
  <2>1. /\ \A r \in Range(planActionAwards) : r.day <= day /\ PointsDue(r)
        /\ \A w \in Wallets, k \in Kinds, d \in Days :
             Cardinality(ActionRowsOf(w, k, d)
                           \union AwardsIn(Range(planActionAwards), w, k, d)) <= DailyCap[k]
    BY <1>4, PlanFacts DEF IInv
  <2>2. PICK plan : plan = planActionAwards
    OBVIOUS
  <2>3. job.awards' = plan /\ job.pc' = "award"
    BY <1>4, <2>2
  <2>4. \A w, k, d : /\ ActionRowsOf(w, k, d)' = ActionRowsOf(w, k, d)
                     /\ PlannedOf(w, k, d)' = AwardsIn(Range(plan), w, k, d)
    BY <1>3, <2>3 DEF ActionRowsOf, PlannedOf, AwardsIn
  <2>5. \A r : PointsDue(r)' <=> PointsDue(r)
    BY <1>3 DEF PointsDue, streakLengthBefore
  <2>6. \A r \in DOMAIN ledger \union Range(plan) :
          r.reason[1] = "action" => r.day <= day /\ PointsDue(r)
    BY <2>1, <2>2 DEF IInv, AwardsDue
  <2>7. \A w \in Wallets, k \in Kinds, d \in Days :
          Cardinality(ActionRowsOf(w, k, d)' \union PlannedOf(w, k, d)') <= DailyCap[k]
    BY <2>1, <2>2, <2>4
  <2> QED BY <1>2, <1>3, <2>3, <2>5, <2>6, <2>7 DEF AwardsDue
<1> QED BY <1>1, <1>5, <1>6 DEF IInv

LEMMA InsertAwardInd ==
  ASSUME IInv, InsertAward
  PROVE  IInv'
<1>1. TypeInv'
  BY InsertAwardType DEF IInv
<1>2. UNCHANGED <<people, witnesses, social, perks, day, faults>>
      /\ UNCHANGED <<links, checkins, claims, day>>
  BY DEF InsertAward, people, social
<1>3. /\ Head(job.awards) \in AwardRow /\ Head(job.awards) \in Range(job.awards)
      /\ Range(Tail(job.awards)) \subseteq Range(job.awards)
      /\ job' = [pc |-> "award", awards |-> Tail(job.awards), todo |-> job.todo]
  BY InsertAwardJob DEF IInv
<1>4. PICK new : Grown(new) /\ new \subseteq {Head(job.awards)}
  BY InsertAwardJob DEF IInv
<1>5. \A r \in new : r.reason[1] = "action" /\ r \in Range(job.awards)
  BY <1>3, <1>4, AwardFacts
<1>6. job.pc' = "award" /\ job.awards' = Tail(job.awards)
  BY <1>3
<1>7. RowsBacked' /\ SocialInv' /\ ReferralsDue' /\ ReferralPaysBoth' /\ PerksDue' /\ PerksEarned'
  BY <1>2, <1>4, <1>5, <1>6, RowsFrame, SocialFrame, ReferralsFrame, PaysFrame, PerksFrame DEF IInv
<1>8. AwardsDue'
  <2>1. day' \in Int /\ day <= day'
    BY <1>2, DaysFacts DEF IInv, TypeInv, ClockOK
  <2>2. Range(job.awards)' \subseteq Range(job.awards)
    BY <1>3, <1>6
  <2>3. \A r \in DOMAIN ledger' \union Range(job.awards)' :
          r.reason[1] = "action" => r \in DOMAIN ledger \union Range(job.awards)
    BY <1>4, <1>5, <2>2 DEF Grown
  <2>4. \A r \in AwardRow : PointsDue(r) => PointsDue(r)'
    BY <1>2 DEF PointsDue, streakLengthBefore
  <2> QED BY <1>6, <2>1, <2>3, <2>4, AwardsFrame DEF IInv
<1> QED BY <1>1, <1>7, <1>8 DEF IInv

LEMMA LoadReferralsInd ==
  ASSUME IInv, LoadReferrals
  PROVE  IInv'
<1>1. TypeInv'
  BY LoadReferralsType DEF IInv
<1>2. UNCHANGED <<people, witnesses, social, books, perks, day, faults>>
  BY DEF LoadReferrals
<1>3. Grown({}) /\ UNCHANGED <<links, checkins, claims, day>>
  BY <1>2, GrownStay DEF IInv, people, social
<1>4. job' = [pc |-> "referral", awards |-> << >>,
              todo |-> {w \in Wallets : links[w] # NoLink /\ ~links[w].credited}]
  BY LoadReferralsJob DEF IInv
<1>5. RowsBacked' /\ SocialInv' /\ AwardsDue' /\ ReferralPaysBoth' /\ PerksDue' /\ PerksEarned'
  BY <1>2, <1>3, <1>4, RowsFrame, SocialFrame, AwardsDone, PaysFrame, PerksFrame DEF IInv
<1>6. ReferralsDue'
  BY <1>3, <1>4 DEF ReferralsDue
<1> QED BY <1>1, <1>5, <1>6 DEF IInv

LEMMA CreditReferralInd ==
  ASSUME IInv, NEW w \in Wallets, CreditReferral(w)
  PROVE  IInv'
<1>1. TypeInv'
  BY CreditReferralType DEF IInv
<1>2. UNCHANGED <<enrolled, witnesses, checkins, social, perks, day, faults>>
      /\ UNCHANGED claims
  BY DEF CreditReferral, social
<1>3. /\ job.pc = "referral" /\ job.awards = << >>
      /\ job.pc' = "referral" /\ job.awards' = << >> /\ job.todo' = job.todo \ {w}
  BY CreditReferralJob DEF IInv, AwardsDue
<1>4. CASE UNCHANGED <<links, books>>
  <2>1. Grown({}) /\ UNCHANGED links
    BY <1>4, GrownStay DEF IInv
  <2> QED BY <1>1, <1>2, <1>3, <2>1, RowsFrame, SocialFrame, AwardsDone, ReferralsFrame,
             PaysFrame, PerksFrame DEF IInv
<1>5. CASE ~UNCHANGED <<links, books>>
  <2>1. PICK c \in QualifyingCloses(w), one \in PaidRow, two \in PaidRow :
          /\ links' = [links EXCEPT ![w].credited = TRUE]
          /\ links[w] # NoLink /\ ~links[w].credited
          /\ ReferralCredit(w, c)
          /\ Grown({one, two})
          /\ one.ref = w /\ two.ref = w
          /\ one.address = links[w].referrer /\ one.reason = <<"referral", "referrer">>
          /\ two.address = w /\ two.reason = <<"referral", "referee">>
    BY <1>5, CreditReferralPays DEF IInv
  <2>2. one.reason[1] = "referral" /\ two.reason[1] = "referral"
    BY <2>1
  <2>3. /\ links'[w].credited
        /\ \A v \in Wallets : /\ links'[v].referrer = links[v].referrer
                              /\ links'[v].at = links[v].at
                              /\ v # w => links'[v] = links[v]
    BY <2>1, MarkedLink DEF IInv
  <2>4. RowsBacked' /\ SocialInv' /\ AwardsDue' /\ PerksDue' /\ PerksEarned'
    BY <1>2, <1>3, <2>1, <2>2, RowsFrame, SocialFrame, AwardsDone, PerksFrame DEF IInv
  <2>5. ReferralsDue'
    BY <1>3, <2>3 DEF IInv, ReferralsDue
  <2>6. ReferralPaysBoth'
    <3>1. SUFFICES ASSUME NEW v \in Wallets
          PROVE  IF links'[v].credited
                 THEN /\ {<<r.address, r.reason[2]>> : r \in ReferralRows(v)'}
                           = {<<v, "referee">>, <<links'[v].referrer, "referrer">>}
                      /\ Cardinality(ReferralRows(v)') = 2
                      /\ \E t \in Txs : /\ witnesses'[t] # None
                                        /\ witnesses'[t].address = v /\ witnesses'[t].meets
                                        /\ witnesses'[t].closed >= links'[v].at
                                        /\ WithinWindow(witnesses'[t].closed)
                 ELSE ReferralRows(v)' = {}
      BY DEF ReferralPaysBoth
    <3>2. CASE v # w
      <4>1. ReferralRows(v)' = ReferralRows(v)
        BY <2>1, <3>2 DEF ReferralRows, Grown
      <4>2. links'[v] = links[v] /\ witnesses' = witnesses
        BY <1>2, <2>3, <3>2
      <4> QED BY <4>1, <4>2 DEF IInv, ReferralPaysBoth
    <3>3. CASE v = w
      <4>1. ReferralRows(w) = {}
        BY <2>1 DEF IInv, ReferralPaysBoth
      <4>2. ReferralRows(w)' = {one, two}
        BY <2>1, <2>2, <4>1 DEF ReferralRows, Grown
      <4>3. one # two
        BY <2>1
      <4>4. Cardinality(ReferralRows(w)') = 2
        <5>1. IsFiniteSet({one}) /\ Cardinality({one}) = 1
          BY FS_Singleton
        <5>2. Cardinality({one} \union {two}) = 2
          BY <4>3, <5>1, FS_AddElement
        <5>3. {one, two} = {one} \union {two}
          OBVIOUS
        <5> QED BY <4>2, <5>2, <5>3
      <4>5. {<<r.address, r.reason[2]>> : r \in ReferralRows(w)'}
              = {<<w, "referee">>, <<links[w].referrer, "referrer">>}
        <5>1. /\ <<one.address, one.reason[2]>> = <<links[w].referrer, "referrer">>
              /\ <<two.address, two.reason[2]>> = <<w, "referee">>
          BY <2>1
        <5> QED BY <4>2, <5>1
      <4>6. PICK t \in Txs : /\ witnesses[t] # None /\ witnesses[t].address = w
                             /\ witnesses[t].meets /\ c = witnesses[t].closed
                             /\ witnesses[t].closed >= links[w].at
        BY <2>1 DEF QualifyingCloses
      <4>7. /\ witnesses'[t] # None /\ witnesses'[t].address = w /\ witnesses'[t].meets
            /\ witnesses'[t].closed >= links'[w].at /\ WithinWindow(witnesses'[t].closed)
        BY <1>2, <2>1, <2>3, <4>6 DEF ReferralCredit
      <4> QED BY <2>3, <3>3, <4>4, <4>5, <4>7
    <3> QED BY <3>2, <3>3
  <2> QED BY <1>1, <2>4, <2>5, <2>6 DEF IInv
<1> QED BY <1>4, <1>5

LEMMA LoadBalancesInd ==
  ASSUME IInv, LoadBalances
  PROVE  IInv'
<1>1. TypeInv'
  BY LoadBalancesType DEF IInv
<1>2. UNCHANGED <<people, witnesses, social, books, perks, day, faults>>
  BY DEF LoadBalances
<1>3. Grown({}) /\ UNCHANGED <<links, checkins, claims, ledger, peak>>
  BY <1>2, GrownStay DEF IInv, people, social, books
<1>4. /\ job' = [pc |-> "perk", awards |-> job.awards,
                 todo |-> {x \in enrolled \X DOMAIN Tiers :
                             balancesOfEnrolled(x[1]) >= Tiers[x[2]]}]
      /\ job.awards = << >>
  <2>1. job.awards = << >>
    BY DEF LoadBalances, IInv, AwardsDue
  <2> QED BY <2>1, LoadBalancesJob DEF IInv
<1>5. RowsBacked' /\ SocialInv' /\ AwardsDue' /\ ReferralsDue' /\ ReferralPaysBoth'
  BY <1>2, <1>3, <1>4, RowsFrame, SocialFrame, AwardsDone, ReferralsFrame, PaysFrame DEF IInv
<1>6. PerksDue'
  <2>1. \A w \in Wallets : Balance(ledger', w) <= peak'[w]
    BY DEF Grown, IInv, PerksDue, LoadBalances, books
  <2>2. ASSUME NEW x \in enrolled \X DOMAIN Tiers, balancesOfEnrolled(x[1]) >= Tiers[x[2]]
        PROVE  x \in Wallets \X DOMAIN Tiers /\ peak[x[1]] >= Tiers[x[2]]
    <3>1. x[1] \in Wallets /\ x[2] \in DOMAIN Tiers /\ x \in Wallets \X DOMAIN Tiers
      BY DEF IInv, TypeInv, PeopleOK
    <3>2. Balance(ledger, x[1]) <= peak[x[1]]
      BY <3>1 DEF IInv, PerksDue
    <3>3. Balance(ledger, x[1]) \in Int
      BY SumType2 DEF Balance, IInv, TypeInv, LedgerOK
    <3>4. peak[x[1]] \in Int /\ Tiers[x[2]] \in Int
      BY <3>1, DaysFacts DEF IInv, TypeInv, LedgerOK
    <3> QED BY <2>2, <3>1, <3>2, <3>3, <3>4 DEF balancesOfEnrolled
  <2> QED BY <1>3, <1>4, <2>1, <2>2 DEF PerksDue
<1>7. PerksEarned'
  BY <1>2, <1>3 DEF IInv, PerksEarned
<1> QED BY <1>1, <1>5, <1>6, <1>7 DEF IInv

LEMMA InsertPerkInd ==
  ASSUME IInv, NEW w \in Wallets, NEW p \in DOMAIN Tiers, InsertPerk(w, p)
  PROVE  IInv'
<1>1. TypeInv'
  BY InsertPerkType DEF IInv
<1>2. /\ UNCHANGED <<people, witnesses, social, books, day, faults>>
      /\ perks' = [perks EXCEPT ![w] = @ \union {p}]
      /\ job.pc = "perk" /\ <<w, p>> \in job.todo
  BY DEF InsertPerk
<1>3. Grown({}) /\ UNCHANGED <<links, checkins, claims, ledger, peak>>
  BY <1>2, GrownStay DEF IInv, people, social, books
<1>4. /\ job' = [pc |-> "perk", awards |-> job.awards, todo |-> job.todo \ {<<w, p>>}]
      /\ job.awards = << >>
  BY <1>2, InsertPerkJob DEF IInv, AwardsDue
<1>5. RowsBacked' /\ SocialInv' /\ AwardsDue' /\ ReferralsDue' /\ ReferralPaysBoth'
  BY <1>2, <1>3, <1>4, RowsFrame, SocialFrame, AwardsDone, ReferralsFrame, PaysFrame DEF IInv
<1>6. PerksDue'
  BY <1>2, <1>3, <1>4 DEF IInv, PerksDue
<1>7. PerksEarned'
  <2>1. peak[w] >= Tiers[p]
    BY <1>2 DEF IInv, PerksDue
  <2> QED BY <1>2, <1>3, <2>1 DEF IInv, PerksEarned, TypeInv, JobOK
<1> QED BY <1>1, <1>5, <1>6, <1>7 DEF IInv

\* The job is idle again, whether it ended or died.
LEMMA IdleInd ==
  ASSUME IInv, TypeInv', job' = Idle, UNCHANGED <<people, witnesses, social, books, perks, day>>
  PROVE  IInv'
<1>1. Grown({}) /\ UNCHANGED <<links, checkins, claims, day>>
  BY GrownStay DEF IInv, people, social
<1>2. job.pc' = "idle" /\ job.awards' = << >>
  BY DEF Idle
<1> QED BY <1>1, <1>2, RowsFrame, SocialFrame, AwardsDone, ReferralsFrame, PaysFrame,
           PerksFrame DEF IInv

LEMMA TickInd == ASSUME IInv, Tick PROVE IInv'
<1>1. TypeInv'
  BY TickType DEF IInv
<1>2. /\ UNCHANGED <<people, witnesses, social, books, perks, job, faults>>
      /\ day' = day + 1
  BY DEF Tick
<1>3. Grown({}) /\ UNCHANGED <<links, checkins, claims, ledger>>
  BY <1>2, GrownStay DEF IInv, people, social, books
<1>4. RowsBacked' /\ SocialInv' /\ ReferralsDue' /\ ReferralPaysBoth' /\ PerksDue' /\ PerksEarned'
  BY <1>2, <1>3, RowsFrame, SocialFrame, ReferralsFrame, PaysFrame, PerksFrame DEF IInv
<1>5. AwardsDue'
  <2>1. day' \in Int /\ day <= day'
    BY <1>2, DaysFacts DEF IInv, TypeInv, ClockOK
  <2>2. \A r \in AwardRow : PointsDue(r) => PointsDue(r)'
    BY <1>3 DEF PointsDue, streakLengthBefore
  <2> QED BY <1>2, <1>3, <2>1, <2>2, AwardsFrame DEF IInv, AwardsDue
<1> QED BY <1>1, <1>4, <1>5 DEF IInv

LEMMA StutterInd == ASSUME IInv, UNCHANGED vars PROVE IInv'
<1>1. UNCHANGED <<people, witnesses, social, books, perks, job, day, faults>>
  BY DEF vars, people, social, books
<1>2. Grown({}) /\ UNCHANGED <<links, checkins, claims, ledger>>
  BY <1>1, GrownStay DEF IInv, people, social, books
<1>3. TypeInv'
  BY <1>1 DEF IInv, TypeInv, PeopleOK, WitnessOK, SocialOK, LedgerOK, BagOK, JobOK, ClockOK,
              people, social, books
<1> QED BY <1>1, <1>2, <1>3, RowsFrame, SocialFrame, AwardsStay, ReferralsFrame, PaysFrame,
           PerksFrame DEF IInv

LEMMA NextInv == IInv /\ [Next]_vars => IInv'
<1> SUFFICES ASSUME IInv, [Next]_vars PROVE IInv'
  OBVIOUS
<1>1. CASE \E w \in Wallets, r \in Wallets \union {None} : Enroll(w, r)
  BY <1>1, EnrollInd
<1>2. CASE \E w \in Wallets : CheckIn(w)
  BY <1>2, CheckInInd
<1>3. CASE \E q \in Requests, w \in Wallets, k \in Tasks, h \in Handles :
             ClaimDecide(q, w, k, h)
  BY <1>3, ClaimDecideInd
<1>4. CASE \E q \in Requests : ClaimCommit(q) \/ ClaimAbort(q)
  BY <1>4, ClaimCommitInd, ClaimAbortInd
<1>5. CASE \E c \in 1 .. MaxClaims : RemoveClaim(c)
  BY <1>5, RemoveClaimInd
<1>6. CASE \E t \in Txs, w \in Wallets, k \in Kinds, meets \in BOOLEAN, d \in Days :
             Witness(t, w, k, meets, d)
  BY <1>6, WitnessInd
<1>7. CASE JobStep
  <2>1. CASE PlanAwards
    BY <2>1, PlanAwardsInd
  <2>2. CASE InsertAward
    BY <2>2, InsertAwardInd
  <2>3. CASE LoadReferrals
    BY <2>3, LoadReferralsInd
  <2>4. CASE LoadBalances
    BY <2>4, LoadBalancesInd
  <2>5. CASE EndJob
    BY <2>5, EndJobType, IdleInd DEF EndJob, IInv
  <2>6. CASE \E w \in Wallets : CreditReferral(w)
    BY <2>6, CreditReferralInd
  <2>7. CASE \E w \in Wallets, p \in DOMAIN Tiers : InsertPerk(w, p)
    BY <2>7, InsertPerkInd
  <2> QED BY <1>7, <2>1, <2>2, <2>3, <2>4, <2>5, <2>6, <2>7 DEF JobStep
<1>8. CASE Crash
  BY <1>8, CrashType, IdleInd DEF Crash, IInv
<1>9. CASE Tick
  BY <1>9, TickInd
<1>10. CASE UNCHANGED vars
  BY <1>10, StutterInd
<1> QED BY <1>1, <1>2, <1>3, <1>4, <1>5, <1>6, <1>7, <1>8, <1>9, <1>10 DEF Next

-------------------------------------------------------------------------------
(* What holds of every behaviour.                                          *)

\* The inductive invariant holds throughout.
THEOREM SpecIInv == Spec => []IInv
BY InitInv, NextInv, PTL DEF Spec

\* Every table holds rows of its schema: the inserts and updates of the repository and
\* the award script write no other.
THEOREM CampaignType == Spec => []TypeOK
<1>1. IInv => TypeOK
  BY TypeInvIsOK DEF IInv
<1> QED BY <1>1, SpecIInv, PTL

\* The daily caps hold over all runs of the award job together: it counts what is
\* stored before it plans, and what it planned before each further award.
THEOREM DailyCaps == Spec => []CapsHold
<1>1. IInv => CapsHold
  <2> SUFFICES ASSUME IInv, NEW w \in Wallets, NEW k \in Kinds, NEW d \in Days
               PROVE  Cardinality(ActionRowsOf(w, k, d)) <= DailyCap[k]
    BY DEF CapsHold
  <2> DEFINE A == ActionRowsOf(w, k, d)
             S == A \union PlannedOf(w, k, d)
  <2>1. Cardinality(S) <= DailyCap[k]
    BY DEF IInv, AwardsDue
  <2>2. IsFiniteSet(S)
    <3>1. IsFiniteSet(A)
      BY FS_Subset DEF ActionRowsOf, IInv, TypeInv, LedgerOK, BagOK
    <3>2. IsFiniteSet(Range(job.awards))
      BY RangeFinite DEF IInv, TypeInv, JobOK
    <3>3. IsFiniteSet(PlannedOf(w, k, d))
      BY <3>2, FS_Subset DEF PlannedOf
    <3> QED BY <3>1, <3>3, FS_Union
  <2>3. A \subseteq S
    OBVIOUS
  <2> HIDE DEF A, S
  <2>4. /\ Cardinality(A) <= Cardinality(S) /\ Cardinality(A) \in Nat
        /\ Cardinality(S) \in Nat /\ DailyCap[k] \in Nat
    BY <2>2, <2>3, FS_Subset, FS_CardinalityType, DaysFacts
  <2>5. Cardinality(A) <= DailyCap[k]
    BY <2>1, <2>4
  <2> QED BY <2>5 DEF A
<1> QED BY <1>1, SpecIInv, PTL

\* An award is worth what the final check-in record says, whenever the job ran: no
\* check-in can come for a day that is over.
THEOREM StreaksFixed == Spec => []StreakFixed
<1>1. IInv => StreakFixed
  BY DEF IInv, AwardsDue, StreakFixed, PointsDue, streakLengthBefore
<1> QED BY <1>1, SpecIInv, PTL

\* A link is marked in the transaction that pays both sides, once.
THEOREM ReferralsPaid == Spec => []ReferralPaysBoth
<1>1. IInv => ReferralPaysBoth
  BY DEF IInv
<1> QED BY <1>1, SpecIInv, PTL

\* The enrolment row's lock makes the reads of a claim still true at its commit.
THEOREM OneHandle == Spec => []OneHandlePerWallet
<1>1. IInv => OneHandlePerWallet
  BY DEF IInv, SocialInv
<1> QED BY <1>1, SpecIInv, PTL

\* Claims and their reversals balance: a claim is credited once and reversed at most
\* once, for what it was credited with.
THEOREM BooksBalance == Spec => []SocialBooks
<1>1. IInv => SocialBooks
  BY DEF IInv, SocialInv
<1> QED BY <1>1, SpecIInv, PTL

\* The daily social cap is gross, and two claims of one wallet cannot both pass it.
THEOREM SocialCapKept == Spec => []SocialCapHolds
<1>1. IInv => SocialCapHolds
  BY DEF IInv, SocialInv
<1> QED BY <1>1, SpecIInv, PTL

\* A perk was earned when the job read the balance, whatever was deleted since.
THEOREM PerksWereEarned == Spec => []PerksEarned
<1>1. IInv => PerksEarned
  BY DEF IInv
<1> QED BY <1>1, SpecIInv, PTL

===============================================================================
