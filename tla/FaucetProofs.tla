--------------------------- MODULE FaucetProofs ---------------------------
(***************************************************************************)
(* Proofs about Faucet, for every number of processes, wallets, users,     *)
(* witnesses and requests, whatever restarts, lost answers and founder     *)
(* reviews happen.                                                         *)
(***************************************************************************)
EXTENDS Faucet, FiniteSetTheorems, SequenceTheorems, TLAPS

(***************************************************************************)
(* The inductive invariant.  TypeOK, BooksMatchLedger and PaidIsPaid need  *)
(* three facts that only hold together with them: the unique indexes keep  *)
(* the rows apart, a row is attempted at most once, and a process that is  *)
(* paying owns its row and knows which attempt of it can exist.            *)
(***************************************************************************)

\* The unique indexes hold of the table.
RowsDistinct ==
  \A c, d \in DOMAIN claims : c # d => ~SameKey(claims[c], claims[d])

\* A row is never submitted twice.
OneAttempt == \A s, t \in Attempts : s.claim = t.claim => s = t

\* No two processes work on the same row.
OwnRows ==
  \A p, q \in Procs :
    p # q /\ pc[p] \in Paying /\ pc[q] \in Paying => job[p].id # job[q].id

Unattempted(c) == \A t \in Attempts : t.claim # c

\* What a process that is paying knows of its row and of its attempt.
PayingKnows(p) ==
  LET c == job[p].id IN
  /\ c \in DOMAIN claims
  /\ AttemptOf(p).reward = [wallet |-> claims[c].wallet, user |-> claims[c].user,
                            family |-> claims[c].family, witness |-> claims[c].witness]
  /\ AttemptOf(p) \in Payout
  /\ pc[p] # "fail" => claims[c].status = "pending"
  /\ pc[p] \in {"load", "submit"} => Unattempted(c)
  /\ pc[p] = "await" => \A t \in Attempts : t.claim = c => t = AttemptOf(p)
  /\ pc[p] = "record" => AttemptOf(p) \in landed
  /\ pc[p] = "fail" =>
       /\ claims[c].status \in {"pending", "paid"}
       /\ job[p].reason \in {"submit-ambiguous", "payout-error"} \/ Unattempted(c)
Knowledge == \A p \in Procs : pc[p] \in Paying => PayingKnows(p)

\* A claim on its way to the insert carries the wallet and family it was asked for, and a
\* witness it found comes with its user.
Prepared ==
  \A p \in Procs : pc[p] # "idle" =>
    /\ job[p].wallet \in Wallets /\ job[p].family \in Families
    /\ job[p].witness # None => job[p].witness \in Witnesses /\ job[p].user \in Users

IInv ==
  /\ TypeOK /\ BooksMatchLedger /\ PaidIsPaid
  /\ RowsDistinct /\ OneAttempt /\ OwnRows /\ Knowledge /\ Prepared

---------------------------------------------------------------------------
(* Type correctness.                                                       *)

LEMMA NoJobType == NoJob \in Job
  BY DEF NoJob, Job, Families, Statuses, Reasons

\* The locals stay well typed when one process keeps well-typed locals.
LEMMA KeepType ==
  ASSUME job \in [Procs -> Job], NEW p \in Procs, NEW j \in Job, Keep(p, j)
  PROVE  job' \in [Procs -> Job]
  BY DEF Keep

\* One local changes at a time.
LEMMA PriorUpdate ==
  ASSUME NEW j \in Job, NEW v \in Statuses \union {None}
  PROVE  [j EXCEPT !.prior = v] \in Job
  BY DEF Job

LEMMA SeqUpdate ==
  ASSUME NEW j \in Job, NEW v \in Nat
  PROVE  [j EXCEPT !.seq = v] \in Job
  BY DEF Job

LEMMA ReasonUpdate ==
  ASSUME NEW j \in Job, NEW v \in Reasons
  PROVE  [j EXCEPT !.reason = v] \in Job
  BY DEF Job

LEMMA SpendableUpdate ==
  ASSUME NEW j \in Job, NEW v \in Nat \union {None}
  PROVE  [j EXCEPT !.spendable = v] \in Job
  BY DEF Job

LEMMA ReadUpdate ==
  ASSUME NEW j \in Job, NEW v \in Nat \union {None}, NEW t \in Nat
  PROVE  [j EXCEPT !.spendable = v, !.readAt = t] \in Job
  <1>1. [j EXCEPT !.spendable = v, !.readAt = t] = [[j EXCEPT !.spendable = v] EXCEPT !.readAt = t]
    BY DEF Job
  <1>2. ASSUME NEW k \in Job PROVE [k EXCEPT !.readAt = t] \in Job
    BY DEF Job
  <1>3. QED
    BY <1>1, <1>2, SpendableUpdate

LEMMA IdUpdate ==
  ASSUME NEW j \in Job, NEW v \in Nat
  PROVE  [j EXCEPT !.id = v] \in Job
  BY DEF Job

LEMMA JobKnown == ASSUME TypeOK, NEW p \in Procs PROVE job[p] \in Job
  BY DEF TypeOK, ProcType

LEMMA GotoType ==
  ASSUME pc \in [Procs -> Steps], NEW p \in Procs, NEW step \in Steps, Goto(p, step)
  PROVE  pc' \in [Procs -> Steps]
  BY DEF Goto

LEMMA DoneType ==
  ASSUME ProcType, NEW p \in Procs, Done(p)
  PROVE  job' \in [Procs -> Job] /\ pc' \in [Procs -> Steps]
  BY NoJobType, KeepType, GotoType DEF ProcType, Done, Steps

\* The table is finite, so its rows can be counted.
LEMMA RowsFinite ==
  ASSUME DbType
  PROVE  /\ IsFiniteSet(DOMAIN claims)
         /\ countedClaims \in Nat /\ claimsLastHour \in Nat
  <1>1. IsFiniteSet(1 .. (nextId - 1))
    <2>1. nextId - 1 \in Int
      BY DEF DbType
    <2>2. QED
      BY <2>1, FS_Interval
  <1>2. IsFiniteSet(DOMAIN claims)
    BY <1>1, FS_Subset DEF DbType
  <1> DEFINE Recent == {c \in DOMAIN claims : claims[c].created > now - Hour}
  <1>3. IsFiniteSet(Recent)
    <2>1. Recent \in SUBSET DOMAIN claims
      OBVIOUS
    <2>2. QED
      BY <1>2, <2>1, FS_Subset
  <1>4. QED
    BY <1>2, <1>3, FS_CardinalityType DEF countedClaims, claimsLastHour

LEMMA InitType == Init => TypeOK
  <1> SUFFICES ASSUME Init PROVE TypeOK
    OBVIOUS
  <1>1. DbType
    BY DEF Init, DbType
  <1>2. ProcType
    BY NoJobType DEF Init, ProcType, Steps, TreasuryRead
  <1>3. LedgerType /\ BoundType
    BY FaucetConstants DEF Init, LedgerType, BoundType
  <1>4. QED
    BY <1>1, <1>2, <1>3 DEF TypeOK

LEMMA RequestType ==
  ASSUME TypeOK, NEW p \in Procs, NEW w \in Wallets, NEW f \in Families, Request(p, w, f)
  PROVE  TypeOK'
  <1>1. Append(chain[p], [wallet |-> w, family |-> f]) \in Seq(Query)
    BY AppendProperties DEF TypeOK, ProcType, Query
  <1>2. chain' \in [Procs -> Seq(Query)]
    BY <1>1 DEF Request, TypeOK, ProcType
  <1>3. ProcType'
    BY <1>2 DEF Request, TypeOK, ProcType
  <1>4. DbType' /\ LedgerType' /\ BoundType'
    BY DEF Request, TypeOK, DbType, LedgerType, BoundType, dbVars, ledgerVars
  <1>5. QED
    BY <1>3, <1>4 DEF TypeOK

LEMMA StartType == ASSUME TypeOK, NEW p \in Procs, Start(p) PROVE TypeOK'
  <1> USE DEF TypeOK
  <1>1. Head(chain[p]) \in Query /\ Tail(chain[p]) \in Seq(Query)
    BY HeadTailProperties DEF Start, ProcType
  <1>2. chain' \in [Procs -> Seq(Query)]
    BY <1>1 DEF Start, ProcType
  <1>3. job' \in [Procs -> Job] /\ pc' \in [Procs -> Steps]
    <2>1. CASE Done(p)
      BY <2>1, DoneType
    <2>2. CASE ~Done(p)
      <3> DEFINE j == [NoJob EXCEPT
             !.wallet = Head(chain[p]).wallet, !.family = Head(chain[p]).family,
             !.counted = countedClaims, !.lastHour = claimsLastHour, !.at = now]
      <3>1. j \in Job
        BY <1>1, NoJobType, RowsFinite DEF Job, Query, BoundType
      <3>2. Keep(p, j) /\ Goto(p, "witnesses")
        BY <2>2 DEF Start
      <3>3. QED
        BY <3>1, <3>2, KeepType, GotoType DEF ProcType, Steps
    <2>3. QED
      BY <2>1, <2>2
  <1>4. ProcType'
    BY <1>2, <1>3 DEF Start, ProcType
  <1>5. DbType' /\ LedgerType' /\ BoundType'
    BY DEF Start, DbType, LedgerType, BoundType, dbVars, ledgerVars, boundVars
  <1>6. QED
    BY <1>4, <1>5

LEMMA ReadWitnessesType == ASSUME TypeOK, NEW p \in Procs, ReadWitnesses(p) PROVE TypeOK'
  <1> USE DEF TypeOK
  <1>0. SUFFICES ASSUME ~Done(p) PROVE TypeOK'
    BY DoneType DEF ReadWitnesses, ProcType, DbType, LedgerType, BoundType,
                    dbVars, ledgerVars, boundVars
  <1>1. PICK u \in FirstUser(job[p].wallet) :
          \/ Keep(p, [job[p] EXCEPT !.anyUser = u])
          \/ \E i \in DOMAIN witnessed : Keep(p, [job[p] EXCEPT
               !.anyUser = u, !.witness = witnessed[i].tx,
               !.user = witnessed[i].user, !.meets = witnessed[i].meets])
    BY <1>0 DEF ReadWitnesses, BestWitness, Qualifying
  <1>2. \A i \in DOMAIN witnessed : witnessed[i] \in WitnessRow
    BY DEF DbType
  <1>3. u \in Users \union {None}
    <2>1. \A i \in DOMAIN witnessed : witnessed[i].user \in Users
      BY <1>2 DEF WitnessRow
    <2>2. u = None \/ \E f \in Families : \E i \in BestWitness(job[p].wallet, f) :
                        u = witnessed[i].user
      <3>1. {"swap", "blend-supply"} = Families
        BY DEF Families
      <3>2. QED
        BY <3>1 DEF FirstUser
    <2>3. \A f \in Families : BestWitness(job[p].wallet, f) \subseteq DOMAIN witnessed
      BY DEF BestWitness, Qualifying
    <2>4. QED
      BY <2>1, <2>2, <2>3
  <1>4. job[p] \in Job
    BY DEF ProcType
  <1>5. job' \in [Procs -> Job]
    <2>1. CASE Keep(p, [job[p] EXCEPT !.anyUser = u])
      <3>1. [job[p] EXCEPT !.anyUser = u] \in Job
        BY <1>3, <1>4 DEF Job
      <3>2. QED
        BY <2>1, <3>1, KeepType DEF ProcType
    <2>2. ASSUME NEW i \in DOMAIN witnessed, Keep(p, [job[p] EXCEPT
                   !.anyUser = u, !.witness = witnessed[i].tx,
                   !.user = witnessed[i].user, !.meets = witnessed[i].meets])
          PROVE  job' \in [Procs -> Job]
      <3>1. [job[p] EXCEPT !.anyUser = u, !.witness = witnessed[i].tx,
               !.user = witnessed[i].user, !.meets = witnessed[i].meets] \in Job
        BY <1>2, <1>3, <1>4 DEF Job, WitnessRow
      <3>2. QED
        BY <2>2, <3>1, KeepType DEF ProcType
    <2>3. QED
      BY <1>1, <2>1, <2>2
  <1>6. pc' \in [Procs -> Steps]
    BY <1>0, GotoType DEF ReadWitnesses, ProcType, Steps
  <1>7. QED
    BY <1>5, <1>6 DEF ReadWitnesses, ProcType, DbType, LedgerType, BoundType,
                      dbVars, ledgerVars, boundVars

LEMMA ReadPriorType == ASSUME TypeOK, NEW p \in Procs, ReadPrior(p) PROVE TypeOK'
  <1> USE DEF TypeOK
  <1>0. SUFFICES ASSUME ~Done(p) PROVE TypeOK'
    BY DoneType DEF ReadPrior, ProcType, DbType, LedgerType, BoundType,
                    dbVars, ledgerVars, boundVars
  <1>1. PICK status \in PriorClaim(job[p].wallet, job[p].family, job[p].anyUser) :
          Keep(p, [job[p] EXCEPT !.prior = status])
    BY <1>0 DEF ReadPrior
  <1>2. status \in Statuses \union {None}
    BY DEF PriorClaim, DbType, Row
  <1>3. [job[p] EXCEPT !.prior = status] \in Job
    BY <1>2, JobKnown, PriorUpdate
  <1>4. job' \in [Procs -> Job] /\ pc' \in [Procs -> Steps]
    BY <1>0, <1>1, <1>3, KeepType, GotoType DEF ReadPrior, ProcType, Steps
  <1>5. QED
    BY <1>4 DEF ReadPrior, ProcType, DbType, LedgerType, BoundType,
                dbVars, ledgerVars, boundVars

LEMMA ReadTreasuryType == ASSUME TypeOK, NEW p \in Procs, ReadTreasury(p) PROVE TypeOK'
  <1> USE DEF TypeOK
  <1>1. job[p] \in Job
    BY DEF ProcType
  <1>2. CASE CacheFresh(p) /\ Keep(p, [job[p] EXCEPT !.spendable = cache[p].value])
             /\ Goto(p, "insert")
    <2>1. cache[p].value \in Nat \union {None}
      BY <1>2 DEF CacheFresh, ProcType, TreasuryRead
    <2>2. [job[p] EXCEPT !.spendable = cache[p].value] \in Job
      BY <1>1, <2>1, SpendableUpdate
    <2>3. QED
      BY <1>2, <2>2, KeepType, GotoType DEF ReadTreasury, ProcType, Steps, DbType, LedgerType,
         BoundType, dbVars, ledgerVars, boundVars
  <1>3. ASSUME NEW v \in FetchResults(p), Goto(p, "store"),
               Keep(p, [job[p] EXCEPT !.spendable = v, !.readAt = now])
        PROVE  TypeOK'
    <2>1. v \in Nat \union {None}
      BY FaucetConstants DEF FetchResults, Spendable, LedgerType
    <2>2. [job[p] EXCEPT !.spendable = v, !.readAt = now] \in Job
      BY <1>1, <2>1, ReadUpdate DEF BoundType
    <2>3. QED
      BY <1>3, <2>2, KeepType, GotoType DEF ReadTreasury, ProcType, Steps, DbType, LedgerType,
         BoundType, dbVars, ledgerVars, boundVars
  <1>4. QED
    BY <1>2, <1>3 DEF ReadTreasury

LEMMA StoreTreasuryType == ASSUME TypeOK, NEW p \in Procs, StoreTreasury(p) PROVE TypeOK'
  <1> USE DEF TypeOK
  <1>1. [at |-> job[p].readAt, value |-> job[p].spendable] \in TreasuryRead
    BY DEF ProcType, Job, TreasuryRead
  <1>2. cache' \in [Procs -> TreasuryRead] /\ pc' \in [Procs -> Steps]
    BY <1>1, GotoType DEF StoreTreasury, ProcType, Steps
  <1>3. QED
    BY <1>2 DEF StoreTreasury, ProcType, DbType, LedgerType, BoundType,
                dbVars, ledgerVars, boundVars

LEMMA RefuseType == ASSUME TypeOK, NEW p \in Procs, Refuse(p) PROVE TypeOK'
  BY DoneType DEF TypeOK, Refuse, ProcType, DbType, LedgerType, BoundType,
                  dbVars, ledgerVars, boundVars

\* Changing the status of a row keeps the table well typed.
LEMMA SetStatusType ==
  ASSUME DbType, NEW c \in DOMAIN claims, NEW status \in Statuses, NEW reason \in Reasons,
         SetStatus(c, status, reason), UNCHANGED <<witnessed, nextId>>
  PROVE  DbType' /\ DOMAIN claims' = DOMAIN claims
  <1>1. claims[c] \in Row
    BY DEF DbType
  <1>2. [claims[c] EXCEPT !.status = status, !.reason = reason] \in Row
    BY <1>1 DEF Row
  <1>3. claims' = [claims EXCEPT ![c] = [claims[c] EXCEPT !.status = status, !.reason = reason]]
    BY <1>1 DEF SetStatus, Row, DbType
  <1>4. QED
    BY <1>2, <1>3 DEF DbType

LEMMA InsertType == ASSUME TypeOK, Prepared, NEW p \in Procs, Insert(p) PROVE TypeOK'
  <1> USE DEF TypeOK
  <1>1. NewRow(p) \in Row
    <2>1. pc[p] # "idle" /\ job[p].witness # None
      BY DEF Insert, walletEligibility
    <2>2. /\ job[p].wallet \in Wallets /\ job[p].family \in Families
          /\ job[p].witness \in Witnesses /\ job[p].user \in Users
      BY <2>1 DEF Prepared
    <2>3. QED
      BY <2>2 DEF NewRow, Row, Statuses, Reasons, BoundType
  <1>2. DbType'
    <2>1. CASE AddRow(NewRow(p))
      <3>1. nextId' \in Nat \ {0} /\ DOMAIN claims' = DOMAIN claims \union {nextId}
        BY <2>1 DEF AddRow, DbType
      <3>2. DOMAIN claims' \subseteq 1 .. (nextId' - 1)
        BY <2>1, <3>1 DEF AddRow, DbType
      <3>3. claims' \in [DOMAIN claims' -> Row]
        BY <1>1, <2>1 DEF AddRow, DbType
      <3>4. QED
        BY <3>1, <3>2, <3>3 DEF Insert, DbType
    <2>2. CASE UNCHANGED <<claims, nextId>>
      BY <2>2 DEF Insert, DbType
    <2>3. QED
      BY <2>1, <2>2 DEF Insert
  <1>3. job' \in [Procs -> Job] /\ pc' \in [Procs -> Steps]
    <2>1. CASE Done(p)
      BY <2>1, DoneType
    <2>2. CASE Goto(p, "load") /\ Keep(p, [job[p] EXCEPT !.id = nextId])
      <3>1. [job[p] EXCEPT !.id = nextId] \in Job
        <4>1. nextId \in Nat
          BY DEF DbType
        <4>2. QED
          BY <4>1, JobKnown, IdUpdate
      <3>2. QED
        BY <2>2, <3>1, KeepType, GotoType DEF ProcType, Steps, Paying
    <2>3. QED
      BY <2>1, <2>2 DEF Insert
  <1>4. QED
    BY <1>2, <1>3 DEF Insert, ProcType, LedgerType, BoundType, ledgerVars, boundVars

LEMMA LoadAccountType == ASSUME TypeOK, NEW p \in Procs, LoadAccount(p) PROVE TypeOK'
  <1> USE DEF TypeOK
  <1>1. [job[p] EXCEPT !.seq = acctSeq + 1] \in Job
    <2>1. acctSeq + 1 \in Nat
      BY DEF LedgerType
    <2>2. QED
      BY <2>1, JobKnown, SeqUpdate
  <1>2. [job[p] EXCEPT !.reason = "treasury-account-unavailable"] \in Job
    <2>1. "treasury-account-unavailable" \in Reasons
      BY DEF Reasons
    <2>2. QED
      BY <2>1, JobKnown, ReasonUpdate
  <1>3. job' \in [Procs -> Job] /\ pc' \in [Procs -> Steps]
    BY <1>1, <1>2, KeepType, GotoType DEF LoadAccount, ProcType, Steps, Paying
  <1>4. QED
    BY <1>3 DEF LoadAccount, ProcType, DbType, LedgerType, BoundType,
                dbVars, ledgerVars, boundVars

LEMMA SubmitType == ASSUME TypeOK, Knowledge, NEW p \in Procs, Submit(p) PROVE TypeOK'
  <1> USE DEF TypeOK
  <1>1. AttemptOf(p) \in Payout
    BY DEF Submit, Knowledge, PayingKnows, Paying
  <1>2. pc' \in [Procs -> Steps]
    BY GotoType DEF Submit, ProcType, Steps, Paying
  <1>3. QED
    BY <1>1, <1>2 DEF Submit, ProcType, DbType, LedgerType, BoundType, dbVars, boundVars

LEMMA AnswerType == ASSUME TypeOK, NEW p \in Procs, Answer(p) PROVE TypeOK'
  <1> USE DEF TypeOK
  <1>1. /\ [job[p] EXCEPT !.reason = "horizon-rejected"] \in Job
        /\ [job[p] EXCEPT !.reason = "submit-ambiguous"] \in Job
    <2>1. "horizon-rejected" \in Reasons /\ "submit-ambiguous" \in Reasons
      BY DEF Reasons
    <2>2. QED
      BY <2>1, JobKnown, ReasonUpdate
  <1>2. job' \in [Procs -> Job]
    BY <1>1, KeepType DEF Answer, ProcType
  <1>3. pc' \in [Procs -> Steps]
    BY GotoType DEF Answer, ProcType, Steps, Paying
  <1>4. cache' \in [Procs -> TreasuryRead] /\ inflight' \subseteq Payout
    BY DEF Answer, ProcType, LedgerType, TreasuryRead
  <1>5. QED
    BY <1>2, <1>3, <1>4 DEF Answer, ProcType, DbType, LedgerType, BoundType, dbVars, boundVars

LEMMA RecordPaidType == ASSUME TypeOK, Knowledge, NEW p \in Procs, RecordPaid(p) PROVE TypeOK'
  <1> USE DEF TypeOK
  <1>1. DbType'
    <2>1. job[p].id \in DOMAIN claims
      BY DEF RecordPaid, Knowledge, PayingKnows, Paying
    <2>2. QED
      BY <2>1, SetStatusType DEF RecordPaid, DbType, Statuses, Reasons
  <1>2. [job[p] EXCEPT !.reason = "payout-error"] \in Job
    <2>1. "payout-error" \in Reasons
      BY DEF Reasons
    <2>2. QED
      BY <2>1, JobKnown, ReasonUpdate
  <1>3. job' \in [Procs -> Job] /\ pc' \in [Procs -> Steps]
    BY <1>2, KeepType, GotoType, DoneType DEF RecordPaid, ProcType, Steps, Paying
  <1>4. QED
    BY <1>1, <1>3 DEF RecordPaid, ProcType, LedgerType, BoundType, ledgerVars, boundVars

LEMMA RecordFailedType ==
  ASSUME TypeOK, Knowledge, NEW p \in Procs, RecordFailed(p) PROVE TypeOK'
  <1> USE DEF TypeOK
  <1>1. DbType'
    <2>1. job[p].id \in DOMAIN claims /\ job[p].reason \in Reasons
      BY DEF RecordFailed, Knowledge, PayingKnows, Paying, ProcType, Job
    <2>2. QED
      BY <2>1, SetStatusType DEF RecordFailed, DbType, Statuses
  <1>2. job' \in [Procs -> Job] /\ pc' \in [Procs -> Steps]
    BY DoneType DEF RecordFailed
  <1>3. QED
    BY <1>1, <1>2 DEF RecordFailed, ProcType, LedgerType, BoundType, ledgerVars, boundVars

LEMMA SurroundingsType ==
  ASSUME TypeOK, NEW p \in Procs, ProbeTreasury(p) \/ StoreProbe(p) \/ Restart(p)
  PROVE  TypeOK'
  <1> USE DEF TypeOK
  <1>1. ASSUME ProbeTreasury(p) PROVE TypeOK'
    <2>1. PICK v \in FetchResults(p) : probe' = [probe EXCEPT ![p] = [at |-> now, value |-> v]]
      BY <1>1 DEF ProbeTreasury
    <2>2. v \in Nat \union {None}
      BY FaucetConstants DEF FetchResults, Spendable, LedgerType
    <2>3. probe' \in [Procs -> TreasuryRead]
      BY <2>1, <2>2 DEF ProcType, BoundType, TreasuryRead
    <2>4. QED
      BY <1>1, <2>3 DEF ProbeTreasury, ProcType, DbType, LedgerType, BoundType, dbVars, ledgerVars
  <1>2. ASSUME StoreProbe(p) PROVE TypeOK'
    <2>1. cache' \in [Procs -> TreasuryRead] /\ probe' \in [Procs -> TreasuryRead]
      BY <1>2 DEF StoreProbe, ProcType, TreasuryRead
    <2>2. QED
      BY <1>2, <2>1 DEF StoreProbe, ProcType, DbType, LedgerType, BoundType,
                        dbVars, ledgerVars, boundVars
  <1>3. ASSUME Restart(p) PROVE TypeOK'
    <2>1. job' \in [Procs -> Job] /\ pc' \in [Procs -> Steps]
      BY <1>3, DoneType DEF Restart
    <2>2. /\ chain' \in [Procs -> Seq(Query)] /\ env' \in [Procs -> Envs]
          /\ cache' \in [Procs -> TreasuryRead] /\ probe' \in [Procs -> TreasuryRead]
      BY <1>3 DEF Restart, ProcType, TreasuryRead
    <2>3. QED
      BY <1>3, <2>1, <2>2 DEF Restart, ProcType, DbType, LedgerType, BoundType, dbVars, ledgerVars
  <1>4. QED
    BY <1>1, <1>2, <1>3

LEMMA VerifyWitnessType ==
  ASSUME TypeOK, NEW x \in Witnesses, NEW u \in Users, NEW meets \in MinNotionalChecks,
         VerifyWitness(x, u, meets)
  PROVE  TypeOK'
  <1> USE DEF TypeOK
  <1>1. [tx |-> x, user |-> u, meets |-> meets] \in WitnessRow
    BY FaucetConstants DEF WitnessRow
  <1>2. witnessed' \in Seq(WitnessRow)
    BY <1>1, AppendProperties DEF VerifyWitness, DbType
  <1>3. QED
    BY <1>2 DEF VerifyWitness, ProcType, DbType, LedgerType, BoundType,
                procVars, ledgerVars, boundVars

LEMMA LedgerStepType ==
  ASSUME TypeOK, NEW t \in inflight, Land(t) \/ Expire(t)
  PROVE  TypeOK'
  <1> USE DEF TypeOK
  <1>1. LedgerType'
    <2>1. CASE Land(t)
      BY <2>1, FaucetConstants DEF Land, LedgerType
    <2>2. CASE Expire(t)
      BY <2>2 DEF Expire, LedgerType
    <2>3. QED
      BY <2>1, <2>2
  <1>2. QED
    BY <1>1 DEF Land, Expire, ProcType, DbType, BoundType, dbVars, procVars, boundVars

LEMMA ResolveType == ASSUME TypeOK, NEW c \in DOMAIN claims, Resolve(c) PROVE TypeOK'
  <1> USE DEF TypeOK
  <1>1. DbType'
    <2>1. CASE SetStatus(c, "paid", claims[c].reason)
      <3>1. claims[c].reason \in Reasons
        BY DEF DbType, Row
      <3>2. "paid" \in Statuses
        BY DEF Statuses
      <3>3. QED
        BY <2>1, <3>1, <3>2, SetStatusType DEF Resolve
    <2>2. CASE claims' = [d \in DOMAIN claims \ {c} |-> claims[d]]
      BY <2>2 DEF Resolve, DbType
    <2>3. QED
      BY <2>1, <2>2 DEF Resolve
  <1>2. QED
    BY <1>1 DEF Resolve, ProcType, LedgerType, BoundType, procVars, ledgerVars, boundVars

LEMMA TickType == ASSUME TypeOK, Tick PROVE TypeOK'
  BY DEF TypeOK, Tick, ProcType, DbType, LedgerType, BoundType, dbVars, procVars, ledgerVars

---------------------------------------------------------------------------
(* The books.                                                              *)

Books ==
  BooksMatchLedger /\ PaidIsPaid /\ RowsDistinct /\ OneAttempt /\ OwnRows /\ Knowledge

\* Only process p may have moved, and it keeps what it had or stops paying.
Others(p) == \A q \in Procs : q # p => pc'[q] = pc[q] /\ job'[q] = job[q]

LEMMA KeepOthers ==
  ASSUME ProcType, NEW p \in Procs, NEW step, NEW j, Goto(p, step), Keep(p, j)
  PROVE  Others(p) /\ pc'[p] = step /\ job'[p] = j
  BY DEF ProcType, Goto, Keep, Others

LEMMA GotoOthers ==
  ASSUME ProcType, NEW p \in Procs, NEW step, Goto(p, step), UNCHANGED job
  PROVE  Others(p) /\ pc'[p] = step /\ job'[p] = job[p]
  BY DEF ProcType, Goto, Others

\* A step that leaves the table and the attempts alone and is not one of a paying process.
LEMMA QuietStep ==
  ASSUME Books, UNCHANGED <<claims, inflight, landed>>,
         NEW p \in Procs, Others(p), pc'[p] \notin Paying
  PROVE  Books'
  <1> USE DEF Books
  <1>1. BooksMatchLedger' /\ PaidIsPaid' /\ RowsDistinct' /\ OneAttempt'
    BY DEF BooksMatchLedger, PaidIsPaid, RowsDistinct, OneAttempt, Attempts
  <1>2. OwnRows'
    BY DEF OwnRows, Others
  <1>3. Knowledge'
    <2> SUFFICES ASSUME NEW q \in Procs, pc'[q] \in Paying PROVE PayingKnows(q)'
      BY DEF Knowledge
    <2>1. q # p /\ pc'[q] = pc[q] /\ job'[q] = job[q] /\ PayingKnows(q)
      BY DEF Others, Knowledge
    <2>2. QED
      BY <2>1 DEF PayingKnows, AttemptOf, Attempts, Unattempted
  <1>4. QED
    BY <1>1, <1>2, <1>3

\* A step that changes no table, no attempt and no process.
LEMMA IdleStep ==
  ASSUME Books, UNCHANGED <<claims, inflight, landed, pc, job>>
  PROVE  Books'
  BY DEF Books, BooksMatchLedger, PaidIsPaid, RowsDistinct, OneAttempt, OwnRows, Knowledge,
         PayingKnows, AttemptOf, Attempts, Unattempted

LEMMA PreparationBooks ==
  ASSUME TypeOK, Books, NEW p \in Procs,
         \/ Start(p) \/ ReadWitnesses(p) \/ ReadPrior(p) \/ ReadTreasury(p)
         \/ StoreTreasury(p) \/ Refuse(p) \/ Restart(p)
  PROVE  Books'
  <1>1. UNCHANGED <<claims, inflight, landed>>
    BY DEF Start, ReadWitnesses, ReadPrior, ReadTreasury, StoreTreasury, Refuse, Restart,
           dbVars, ledgerVars
  <1>2. Others(p) /\ pc'[p] \notin Paying
    <2>1. \E step \in {"idle", "witnesses", "prior", "treasury", "store", "insert"} :
            Goto(p, step) /\ (UNCHANGED job \/ \E j : Keep(p, j))
      BY DEF Start, ReadWitnesses, ReadPrior, ReadTreasury, StoreTreasury, Refuse, Restart, Done
    <2>2. QED
      BY <2>1, KeepOthers, GotoOthers DEF TypeOK, Paying
  <1>3. QED
    BY <1>1, <1>2, QuietStep

\* A paying process that did not move still knows what it knew, as long as its row and the
\* attempts of its row are what they were.
LEMMA KnowledgeKept ==
  ASSUME NEW q \in Procs, PayingKnows(q), pc'[q] = pc[q], job'[q] = job[q],
         job[q].id \in DOMAIN claims', claims'[job[q].id] = claims[job[q].id],
         landed \subseteq landed',
         \A t \in Attempts' : t.claim = job[q].id => t \in Attempts
  PROVE  PayingKnows(q)'
  BY DEF PayingKnows, AttemptOf, Unattempted

LEMMA InsertBooks ==
  ASSUME TypeOK, Books, Prepared, NEW p \in Procs, Insert(p) PROVE Books'
  <1> USE DEF Books, TypeOK
  <1>1. UNCHANGED <<inflight, landed>> /\ Attempts' = Attempts
    BY DEF Insert, ledgerVars, Attempts
  <1>2. CASE UNCHANGED <<claims, nextId>> /\ Done(p)
    BY <1>1, <1>2, KeepOthers, QuietStep DEF Done, Paying
  <1>3. CASE /\ ~UniqueViolation(NewRow(p)) /\ AddRow(NewRow(p))
             /\ \/ Goto(p, "load") /\ Keep(p, [job[p] EXCEPT !.id = nextId])
                \/ Done(p)
    <2>1. nextId \notin DOMAIN claims /\ DOMAIN claims' = DOMAIN claims \union {nextId}
      BY <1>3 DEF AddRow, DbType
    <2>2. claims'[nextId] = NewRow(p) /\ \A c \in DOMAIN claims : claims'[c] = claims[c]
      BY <1>3, <2>1 DEF AddRow
    <2>3. Unattempted(nextId)
      BY <2>1 DEF BooksMatchLedger, Unattempted
    <2>4. Others(p) /\ (pc'[p] \in Paying => pc'[p] = "load" /\ job'[p] = [job[p] EXCEPT !.id = nextId])
      BY <1>3, KeepOthers DEF Done, Paying
    <2>5. BooksMatchLedger'
      BY <1>1, <2>1, <2>2 DEF BooksMatchLedger
    <2>6. PaidIsPaid'
      BY <1>1, <2>1, <2>2 DEF PaidIsPaid, NewRow
    <2>7. RowsDistinct'
      <3>1. \A c \in DOMAIN claims : ~SameKey(claims[c], NewRow(p)) /\ ~SameKey(NewRow(p), claims[c])
        BY <1>3 DEF UniqueViolation, SameKey
      <3>2. QED
        BY <2>1, <2>2, <3>1 DEF RowsDistinct
    <2>8. OneAttempt'
      BY <1>1 DEF OneAttempt
    <2>9. \A q \in Procs : q # p /\ pc[q] \in Paying => job[q].id \in DOMAIN claims
      BY DEF Knowledge, PayingKnows
    <2>10. OwnRows'
      <3>1. job[p] \in Job
        BY DEF ProcType
      <3>2. pc'[p] \in Paying => job'[p].id = nextId
        BY <2>4, <3>1 DEF Job
      <3>3. QED
        BY <2>1, <2>4, <2>9, <3>2 DEF OwnRows, Others
    <2>11. Knowledge'
      <3> SUFFICES ASSUME NEW q \in Procs, pc'[q] \in Paying PROVE PayingKnows(q)'
        BY DEF Knowledge
      <3>1. CASE q = p
        <4>1. job[p] \in Job
          BY DEF ProcType
        <4>2. /\ job'[p].id = nextId /\ job'[p].wallet = job[p].wallet
              /\ job'[p].user = job[p].user /\ job'[p].family = job[p].family
              /\ job'[p].witness = job[p].witness /\ job'[p].seq = job[p].seq
          BY <2>4, <3>1, <4>1 DEF Job
        <4>3. pc'[p] = "load" /\ pc[p] = "insert"
          BY <2>4, <3>1 DEF Insert
        <4>4. AttemptOf(p)' \in Payout
          <5>1. /\ job[p].wallet \in Wallets /\ job[p].family \in Families
                /\ job[p].witness \in Witnesses /\ job[p].user \in Users
            BY <4>3 DEF Prepared, Insert, walletEligibility
          <5>2. QED
            BY <4>1, <4>2, <5>1 DEF AttemptOf, Payout, Rewarded, Job, DbType
        <4>5. QED
          BY <1>1, <2>1, <2>2, <2>3, <3>1, <4>2, <4>3, <4>4
             DEF PayingKnows, AttemptOf, NewRow, Unattempted
      <3>2. CASE q # p
        <4>1. pc'[q] = pc[q] /\ job'[q] = job[q] /\ PayingKnows(q)
          BY <2>4, <3>2 DEF Others, Knowledge
        <4>2. job[q].id \in DOMAIN claims
          BY <4>1 DEF PayingKnows
        <4>3. QED
          BY <1>1, <2>1, <2>2, <4>1, <4>2, KnowledgeKept
      <3>3. QED
        BY <3>1, <3>2
    <2>12. QED
      BY <2>5, <2>6, <2>7, <2>8, <2>10, <2>11
  <1>4. QED
    BY <1>2, <1>3 DEF Insert

\* A process that is paying and keeps its row's id leaves every other process's row alone.
LEMMA PayingStep ==
  ASSUME OwnRows, NEW p \in Procs, Others(p), pc[p] \in Paying, job'[p].id = job[p].id
  PROVE  OwnRows'
  BY DEF OwnRows, Others

LEMMA LoadAccountBooks ==
  ASSUME TypeOK, Books, NEW p \in Procs, LoadAccount(p) PROVE Books'
  <1> USE DEF Books, TypeOK
  <1>1. UNCHANGED <<claims, inflight, landed>> /\ Attempts' = Attempts
    BY DEF LoadAccount, dbVars, ledgerVars, Attempts
  <1>2. BooksMatchLedger' /\ PaidIsPaid' /\ RowsDistinct' /\ OneAttempt'
    BY <1>1 DEF BooksMatchLedger, PaidIsPaid, RowsDistinct, OneAttempt
  <1>3. job[p] \in Job /\ acctSeq + 1 \in Nat
    BY DEF ProcType, LedgerType
  <1>4. /\ Others(p) /\ pc[p] = "load"
        /\ \/ pc'[p] = "submit" /\ job'[p] = [job[p] EXCEPT !.seq = acctSeq + 1]
           \/ pc'[p] = "fail" /\ job'[p] = [job[p] EXCEPT !.reason = "treasury-account-unavailable"]
    BY KeepOthers DEF LoadAccount
  <1>5. /\ job'[p].id = job[p].id /\ job'[p].wallet = job[p].wallet
        /\ job'[p].user = job[p].user /\ job'[p].family = job[p].family
        /\ job'[p].witness = job[p].witness /\ job'[p].seq \in Nat
    BY <1>3, <1>4 DEF Job
  <1>6. OwnRows'
    BY <1>4, <1>5, PayingStep DEF Paying
  <1>7. Knowledge'
    <2> SUFFICES ASSUME NEW q \in Procs, pc'[q] \in Paying PROVE PayingKnows(q)'
      BY DEF Knowledge
    <2>1. CASE q = p
      <3>1. PayingKnows(p)
        BY <1>4 DEF Knowledge, Paying
      <3>2. AttemptOf(p)' \in Payout
        BY <1>5, <3>1 DEF PayingKnows, AttemptOf, Payout
      <3>3. QED
        BY <1>1, <1>4, <1>5, <2>1, <3>1, <3>2 DEF PayingKnows, AttemptOf, Unattempted
    <2>2. CASE q # p
      <3>1. pc'[q] = pc[q] /\ job'[q] = job[q] /\ PayingKnows(q)
        BY <1>4, <2>2 DEF Others, Knowledge
      <3>2. QED
        BY <1>1, <3>1, KnowledgeKept DEF PayingKnows
    <2>3. QED
      BY <2>1, <2>2
  <1>8. QED
    BY <1>2, <1>6, <1>7

LEMMA SubmitBooks ==
  ASSUME TypeOK, Books, NEW p \in Procs, Submit(p) PROVE Books'
  <1> USE DEF Books, TypeOK
  <1>1. UNCHANGED <<claims, landed, job>>
    BY DEF Submit, dbVars
  <1>2. Others(p) /\ pc[p] = "submit" /\ pc'[p] = "await" /\ job'[p] = job[p]
    BY <1>1, GotoOthers DEF Submit
  <1>3. PayingKnows(p) /\ AttemptOf(p).claim = job[p].id /\ AttemptOf(p)' = AttemptOf(p)
    BY <1>1, <1>2 DEF Knowledge, Paying, AttemptOf
  <1>4. Attempts' = Attempts \union {AttemptOf(p)}
    BY <1>1 DEF Submit, Attempts
  <1>5. BooksMatchLedger'
    BY <1>1, <1>2, <1>3, <1>4 DEF BooksMatchLedger, PayingKnows
  <1>6. PaidIsPaid' /\ RowsDistinct'
    BY <1>1 DEF PaidIsPaid, RowsDistinct
  <1>7. OneAttempt'
    BY <1>2, <1>3, <1>4 DEF OneAttempt, PayingKnows, Unattempted
  <1>8. OwnRows'
    BY <1>1, <1>2, PayingStep DEF Paying
  <1>9. Knowledge'
    <2> SUFFICES ASSUME NEW q \in Procs, pc'[q] \in Paying PROVE PayingKnows(q)'
      BY DEF Knowledge
    <2>1. CASE q = p
      BY <1>1, <1>2, <1>3, <1>4, <2>1 DEF PayingKnows, Unattempted, AttemptOf
    <2>2. CASE q # p
      <3>1. pc'[q] = pc[q] /\ job'[q] = job[q] /\ PayingKnows(q) /\ job[q].id # job[p].id
        BY <1>2, <2>2 DEF Others, Knowledge, OwnRows, Paying
      <3>2. QED
        BY <1>1, <1>3, <1>4, <3>1, KnowledgeKept DEF PayingKnows
    <2>3. QED
      BY <2>1, <2>2
  <1>10. QED
    BY <1>5, <1>6, <1>7, <1>8, <1>9

LEMMA AnswerBooks ==
  ASSUME TypeOK, Books, NEW p \in Procs, Answer(p) PROVE Books'
  <1> USE DEF Books, TypeOK
  <1>1. UNCHANGED <<claims, landed>> /\ inflight' \subseteq inflight /\ Attempts' \subseteq Attempts
    BY DEF Answer, dbVars, Attempts
  <1>2. pc[p] = "await" /\ PayingKnows(p) /\ job[p] \in Job
    BY DEF Answer, Knowledge, Paying, ProcType
  <1>3. /\ Others(p)
        /\ \/ pc'[p] = "record" /\ job'[p] = job[p] /\ AttemptOf(p) \in landed
           \/ /\ pc'[p] = "fail" /\ job'[p] = [job[p] EXCEPT !.reason = "horizon-rejected"]
              /\ AttemptOf(p) \notin Attempts'
           \/ pc'[p] = "fail" /\ job'[p] = [job[p] EXCEPT !.reason = "submit-ambiguous"]
    BY KeepOthers, GotoOthers DEF Answer, Attempts
  <1>4. /\ job'[p].id = job[p].id /\ job'[p].wallet = job[p].wallet
        /\ job'[p].user = job[p].user /\ job'[p].family = job[p].family
        /\ job'[p].witness = job[p].witness /\ job'[p].seq = job[p].seq
    BY <1>2, <1>3 DEF Job
  <1>5. BooksMatchLedger' /\ PaidIsPaid' /\ RowsDistinct' /\ OneAttempt'
    BY <1>1 DEF BooksMatchLedger, PaidIsPaid, RowsDistinct, OneAttempt
  <1>6. OwnRows'
    BY <1>2, <1>3, <1>4, PayingStep DEF Paying
  <1>7. Knowledge'
    <2> SUFFICES ASSUME NEW q \in Procs, pc'[q] \in Paying PROVE PayingKnows(q)'
      BY DEF Knowledge
    <2>1. CASE q = p
      <3>1. AttemptOf(p)' = AttemptOf(p)
        BY <1>4 DEF AttemptOf
      <3>2. pc'[p] = "fail" =>
              job'[p].reason = "submit-ambiguous" \/ Unattempted(job[p].id)'
        BY <1>1, <1>2, <1>3 DEF PayingKnows, Unattempted, Job
      <3>3. QED
        BY <1>1, <1>2, <1>3, <1>4, <2>1, <3>1, <3>2 DEF PayingKnows, Unattempted
    <2>2. CASE q # p
      <3>1. pc'[q] = pc[q] /\ job'[q] = job[q] /\ PayingKnows(q)
        BY <1>3, <2>2 DEF Others, Knowledge
      <3>2. QED
        BY <1>1, <3>1, KnowledgeKept DEF PayingKnows
    <2>3. QED
      BY <2>1, <2>2
  <1>8. QED
    BY <1>5, <1>6, <1>7

\* What changing the status of a row leaves alone.
LEMMA SetStatusRows ==
  ASSUME DbType, NEW c \in DOMAIN claims, NEW status, NEW reason, SetStatus(c, status, reason)
  PROVE  /\ DOMAIN claims' = DOMAIN claims
         /\ claims'[c].status = status /\ claims'[c].reason = reason
         /\ \A d \in DOMAIN claims : d # c => claims'[d] = claims[d]
         /\ \A d \in DOMAIN claims :
              /\ claims'[d].wallet = claims[d].wallet /\ claims'[d].user = claims[d].user
              /\ claims'[d].family = claims[d].family /\ claims'[d].witness = claims[d].witness
         /\ RowsDistinct => RowsDistinct'
  <1>1. \A d \in DOMAIN claims : claims[d] \in Row
    BY DEF DbType
  <1>2. /\ DOMAIN claims' = DOMAIN claims
        /\ claims'[c].status = status /\ claims'[c].reason = reason
        /\ \A d \in DOMAIN claims : d # c => claims'[d] = claims[d]
    BY <1>1 DEF SetStatus, Row
  <1>3. \A d \in DOMAIN claims :
              /\ claims'[d].wallet = claims[d].wallet /\ claims'[d].user = claims[d].user
              /\ claims'[d].family = claims[d].family /\ claims'[d].witness = claims[d].witness
    BY <1>1 DEF SetStatus, Row
  <1>4. RowsDistinct => RowsDistinct'
    BY <1>2, <1>3 DEF RowsDistinct, SameKey
  <1>5. QED
    BY <1>2, <1>3, <1>4

LEMMA RecordPaidBooks ==
  ASSUME TypeOK, Books, NEW p \in Procs, RecordPaid(p) PROVE Books'
  <1> USE DEF Books, TypeOK
  <1>1. UNCHANGED <<inflight, landed>> /\ Attempts' = Attempts
    BY DEF RecordPaid, ledgerVars, Attempts
  <1> DEFINE c == job[p].id
  <1>2. pc[p] = "record" /\ PayingKnows(p) /\ job[p] \in Job
    BY DEF RecordPaid, Knowledge, Paying, ProcType
  <1>3. c \in DOMAIN claims /\ AttemptOf(p) \in landed /\ AttemptOf(p).claim = c
        /\ claims[c].status = "pending"
    BY <1>2 DEF PayingKnows, AttemptOf
  <1>4. /\ Others(p)
        /\ \/ pc'[p] = "idle"
           \/ pc'[p] = "fail" /\ job'[p] = [job[p] EXCEPT !.reason = "payout-error"]
    BY KeepOthers DEF RecordPaid, Done
  <1>5. /\ DOMAIN claims' = DOMAIN claims
        /\ claims'[c].status \in {"pending", "paid"}
        /\ \A d \in DOMAIN claims : d # c => claims'[d] = claims[d]
        /\ \A d \in DOMAIN claims :
             /\ claims'[d].wallet = claims[d].wallet /\ claims'[d].user = claims[d].user
             /\ claims'[d].family = claims[d].family /\ claims'[d].witness = claims[d].witness
        /\ RowsDistinct'
    <2>1. CASE SetStatus(c, "paid", None)
      BY <1>3, <2>1, SetStatusRows
    <2>2. CASE UNCHANGED claims
      BY <1>3, <2>2 DEF RowsDistinct
    <2>3. QED
      BY <2>1, <2>2 DEF RecordPaid
  <1>6. BooksMatchLedger'
    BY <1>1, <1>3, <1>5 DEF BooksMatchLedger
  <1>7. PaidIsPaid'
    BY <1>1, <1>3, <1>5 DEF PaidIsPaid
  <1>8. OneAttempt'
    BY <1>1 DEF OneAttempt
  <1>9. pc'[p] = "fail" =>
          /\ job'[p].id = c /\ job'[p].wallet = job[p].wallet
          /\ job'[p].user = job[p].user /\ job'[p].family = job[p].family
          /\ job'[p].witness = job[p].witness /\ job'[p].seq = job[p].seq
          /\ job'[p].reason = "payout-error"
    BY <1>2, <1>4 DEF Job
  <1>10. OwnRows'
    <2>1. CASE pc'[p] = "idle"
      BY <1>4, <2>1 DEF OwnRows, Others, Paying
    <2>2. CASE pc'[p] = "fail"
      BY <1>2, <1>4, <1>9, <2>2, PayingStep DEF Paying
    <2>3. QED
      BY <1>4, <2>1, <2>2
  <1>11. Knowledge'
    <2> SUFFICES ASSUME NEW q \in Procs, pc'[q] \in Paying PROVE PayingKnows(q)'
      BY DEF Knowledge
    <2>1. CASE q = p
      <3>1. pc'[p] = "fail"
        BY <1>4, <2>1 DEF Paying
      <3>2. AttemptOf(p)' = AttemptOf(p)
        BY <1>9, <3>1 DEF AttemptOf
      <3>3. QED
        BY <1>2, <1>3, <1>5, <1>9, <2>1, <3>1, <3>2 DEF PayingKnows
    <2>2. CASE q # p
      <3>1. pc'[q] = pc[q] /\ job'[q] = job[q] /\ PayingKnows(q) /\ job[q].id # c
        BY <1>2, <1>4, <2>2 DEF Others, Knowledge, OwnRows, Paying
      <3>2. QED
        BY <1>1, <1>5, <3>1, KnowledgeKept DEF PayingKnows
    <2>3. QED
      BY <2>1, <2>2
  <1>12. QED
    BY <1>5, <1>6, <1>7, <1>8, <1>10, <1>11

LEMMA RecordFailedBooks ==
  ASSUME TypeOK, Books, NEW p \in Procs, RecordFailed(p) PROVE Books'
  <1> USE DEF Books, TypeOK
  <1>1. UNCHANGED <<inflight, landed>> /\ Attempts' = Attempts
    BY DEF RecordFailed, ledgerVars, Attempts
  <1> DEFINE c == job[p].id
  <1>2. pc[p] = "fail" /\ PayingKnows(p)
    BY DEF RecordFailed, Knowledge, Paying
  <1>3. Others(p) /\ pc'[p] = "idle"
    BY KeepOthers DEF RecordFailed, Done
  <1>4. CASE UNCHANGED claims
    BY <1>1, <1>3, <1>4, QuietStep DEF Paying
  <1>5. CASE SetStatus(c, "failed", job[p].reason)
    <2>1. /\ DOMAIN claims' = DOMAIN claims
          /\ claims'[c].status = "failed" /\ claims'[c].reason = job[p].reason
          /\ \A d \in DOMAIN claims : d # c => claims'[d] = claims[d]
          /\ \A d \in DOMAIN claims :
               /\ claims'[d].wallet = claims[d].wallet /\ claims'[d].user = claims[d].user
               /\ claims'[d].family = claims[d].family /\ claims'[d].witness = claims[d].witness
          /\ RowsDistinct'
      BY <1>2, <1>5, SetStatusRows DEF PayingKnows
    <2>2. job[p].reason \in {"submit-ambiguous", "payout-error"} \/ Unattempted(c)
      BY <1>2 DEF PayingKnows
    <2>3. BooksMatchLedger'
      BY <1>1, <2>1, <2>2 DEF BooksMatchLedger, Unattempted
    <2>4. PaidIsPaid' /\ OneAttempt'
      BY <1>1, <2>1 DEF PaidIsPaid, OneAttempt
    <2>5. OwnRows'
      BY <1>3 DEF OwnRows, Others, Paying
    <2>6. Knowledge'
      <3> SUFFICES ASSUME NEW q \in Procs, pc'[q] \in Paying PROVE PayingKnows(q)'
        BY DEF Knowledge
      <3>1. pc'[q] = pc[q] /\ job'[q] = job[q] /\ PayingKnows(q) /\ job[q].id # c
        BY <1>2, <1>3 DEF Others, Knowledge, OwnRows, Paying
      <3>2. QED
        BY <1>1, <2>1, <3>1, KnowledgeKept DEF PayingKnows
    <2>7. QED
      BY <2>1, <2>3, <2>4, <2>5, <2>6
  <1>6. QED
    BY <1>4, <1>5 DEF RecordFailed

LEMMA LedgerStepBooks ==
  ASSUME TypeOK, Books, NEW t \in inflight, Land(t) \/ Expire(t) PROVE Books'
  <1> USE DEF Books
  <1>1. UNCHANGED <<claims, pc, job>> /\ landed \subseteq landed' /\ Attempts' \subseteq Attempts
    BY DEF Land, Expire, dbVars, procVars, Attempts
  <1>2. BooksMatchLedger' /\ PaidIsPaid' /\ RowsDistinct' /\ OneAttempt' /\ OwnRows'
    BY <1>1 DEF BooksMatchLedger, PaidIsPaid, RowsDistinct, OneAttempt, OwnRows
  <1>3. Knowledge'
    <2> SUFFICES ASSUME NEW q \in Procs, pc'[q] \in Paying PROVE PayingKnows(q)'
      BY DEF Knowledge
    <2>1. PayingKnows(q)
      BY <1>1 DEF Knowledge
    <2>2. QED
      BY <1>1, <2>1, KnowledgeKept DEF PayingKnows
  <1>4. QED
    BY <1>2, <1>3

LEMMA ResolveBooks ==
  ASSUME TypeOK, Books, NEW c \in DOMAIN claims, Resolve(c) PROVE Books'
  <1> USE DEF Books, TypeOK
  <1>1. UNCHANGED <<inflight, landed, pc, job>> /\ Attempts' = Attempts
    BY DEF Resolve, procVars, ledgerVars, Attempts
  <1>2. /\ \A d \in DOMAIN claims : d # c => d \in DOMAIN claims' /\ claims'[d] = claims[d]
        /\ DOMAIN claims' \subseteq DOMAIN claims /\ RowsDistinct'
        /\ \/ (\E t \in landed : t.claim = c) /\ c \in DOMAIN claims' /\ claims'[c].status = "paid"
              /\ claims'[c].wallet = claims[c].wallet /\ claims'[c].user = claims[c].user
              /\ claims'[c].family = claims[c].family /\ claims'[c].witness = claims[c].witness
           \/ c \notin DOMAIN claims' /\ Unattempted(c)
    <2>1. CASE \E t \in landed : t.claim = c
      BY <2>1, SetStatusRows DEF Resolve
    <2>2. CASE ~ \E t \in landed : t.claim = c
      BY <2>2 DEF Resolve, Unattempted, Attempts, RowsDistinct
    <2>3. QED
      BY <2>1, <2>2
  <1>3. BooksMatchLedger'
    <2> SUFFICES ASSUME NEW t \in Attempts
                 PROVE  /\ t.claim \in DOMAIN claims'
                        /\ LET r == claims'[t.claim] IN
                           /\ t.reward = [wallet |-> r.wallet, user |-> r.user,
                                          family |-> r.family, witness |-> r.witness]
                           /\ r.status = "failed" =>
                                r.reason \in {"submit-ambiguous", "payout-error"}
      BY <1>1 DEF BooksMatchLedger
    <2>1. CASE t.claim = c
      BY <1>2, <2>1 DEF BooksMatchLedger, Unattempted
    <2>2. CASE t.claim # c
      BY <1>2, <2>2 DEF BooksMatchLedger
    <2>3. QED
      BY <2>1, <2>2
  <1>4. PaidIsPaid' /\ OneAttempt' /\ OwnRows'
    BY <1>1, <1>2 DEF PaidIsPaid, OneAttempt, OwnRows
  <1>5. Knowledge'
    <2> SUFFICES ASSUME NEW q \in Procs, pc'[q] \in Paying PROVE PayingKnows(q)'
      BY DEF Knowledge
    <2>1. PayingKnows(q) /\ job[q].id # c
      BY <1>1 DEF Knowledge, Resolve
    <2>2. QED
      BY <1>1, <1>2, <2>1, KnowledgeKept DEF PayingKnows
  <1>6. QED
    BY <1>2, <1>3, <1>4, <1>5

---------------------------------------------------------------------------
(* The locals of a claim on its way to the insert.                         *)

PreparedJob(j) ==
  /\ j.wallet \in Wallets /\ j.family \in Families
  /\ j.witness # None => j.witness \in Witnesses /\ j.user \in Users

\* Updating a local that is neither the question nor the witness.
LEMMA PreparedUpdates ==
  ASSUME NEW j \in Job, PreparedJob(j), NEW v
  PROVE  /\ PreparedJob([j EXCEPT !.anyUser = v]) /\ PreparedJob([j EXCEPT !.prior = v])
         /\ PreparedJob([j EXCEPT !.spendable = v]) /\ PreparedJob([j EXCEPT !.id = v])
         /\ PreparedJob([j EXCEPT !.seq = v]) /\ PreparedJob([j EXCEPT !.reason = v])
         /\ \A w : PreparedJob([j EXCEPT !.spendable = v, !.readAt = w])
  BY DEF PreparedJob, Job

LEMMA PreparedKept ==
  ASSUME Prepared, NEW p \in Procs, Others(p),
         pc'[p] = "idle" \/ PreparedJob(job'[p])
  PROVE  Prepared'
  BY DEF Prepared, PreparedJob, Others

LEMMA PreparedStart ==
  ASSUME TypeOK, Prepared, NEW p \in Procs, Start(p) PROVE Prepared'
  <1> USE DEF TypeOK
  <1>1. CASE Done(p)
    BY <1>1, KeepOthers, PreparedKept DEF Done
  <1>2. CASE ~Done(p)
    <2> DEFINE j == [NoJob EXCEPT
             !.wallet = Head(chain[p]).wallet, !.family = Head(chain[p]).family,
             !.counted = countedClaims, !.lastHour = claimsLastHour, !.at = now]
    <2>1. Head(chain[p]) \in Query
      BY HeadTailProperties DEF Start, ProcType
    <2>2. PreparedJob(j)
      BY <2>1 DEF PreparedJob, NoJob, Query
    <2>3. Keep(p, j) /\ Goto(p, "witnesses")
      BY <1>2 DEF Start
    <2>4. QED
      BY <2>2, <2>3, KeepOthers, PreparedKept
  <1>3. QED
    BY <1>1, <1>2

LEMMA PreparedReadWitnesses ==
  ASSUME TypeOK, Prepared, NEW p \in Procs, ReadWitnesses(p) PROVE Prepared'
  <1> USE DEF TypeOK
  <1>0. SUFFICES ASSUME ~Done(p) PROVE Prepared'
    BY KeepOthers, PreparedKept DEF Done
  <1>1. job[p] \in Job /\ PreparedJob(job[p]) /\ Goto(p, "prior")
    BY <1>0 DEF ReadWitnesses, ProcType, Prepared, PreparedJob
  <1>2. PICK u \in FirstUser(job[p].wallet) :
          \/ Keep(p, [job[p] EXCEPT !.anyUser = u])
          \/ \E i \in DOMAIN witnessed : Keep(p, [job[p] EXCEPT
               !.anyUser = u, !.witness = witnessed[i].tx,
               !.user = witnessed[i].user, !.meets = witnessed[i].meets])
    BY <1>0 DEF ReadWitnesses, BestWitness, Qualifying
  <1>3. CASE Keep(p, [job[p] EXCEPT !.anyUser = u])
    <2>1. PreparedJob([job[p] EXCEPT !.anyUser = u])
      BY <1>1, PreparedUpdates
    <2>2. QED
      BY <1>1, <1>3, <2>1, KeepOthers, PreparedKept
  <1>4. ASSUME NEW i \in DOMAIN witnessed, Keep(p, [job[p] EXCEPT
               !.anyUser = u, !.witness = witnessed[i].tx,
               !.user = witnessed[i].user, !.meets = witnessed[i].meets])
        PROVE  Prepared'
    <2>1. witnessed[i] \in WitnessRow
      BY DEF DbType
    <2>2. PreparedJob([job[p] EXCEPT
               !.anyUser = u, !.witness = witnessed[i].tx,
               !.user = witnessed[i].user, !.meets = witnessed[i].meets])
      BY <1>1, <2>1 DEF PreparedJob, Job, WitnessRow
    <2>3. QED
      BY <1>1, <1>4, <2>2, KeepOthers, PreparedKept
  <1>5. QED
    BY <1>2, <1>3, <1>4

LEMMA PreparedClaimStep ==
  ASSUME TypeOK, Prepared, NEW p \in Procs,
         \/ ReadPrior(p) \/ ReadTreasury(p) \/ StoreTreasury(p) \/ Refuse(p) \/ Insert(p)
         \/ LoadAccount(p) \/ Submit(p) \/ Answer(p) \/ RecordPaid(p) \/ RecordFailed(p)
         \/ Restart(p)
  PROVE  Prepared'
  <1> USE DEF TypeOK
  <1>1. CASE Done(p)
    BY <1>1, KeepOthers, PreparedKept DEF Done
  <1>2. CASE ~Done(p)
    <2>1. job[p] \in Job /\ PreparedJob(job[p])
      BY <1>2 DEF ReadPrior, ReadTreasury, StoreTreasury, Refuse, Insert, LoadAccount, Submit,
                  Answer, RecordPaid, RecordFailed, Restart, ProcType, Prepared, PreparedJob
    <2>2. /\ \E step : Goto(p, step)
          /\ \/ UNCHANGED job
             \/ \E v : \/ Keep(p, [job[p] EXCEPT !.prior = v])
                       \/ Keep(p, [job[p] EXCEPT !.spendable = v])
                       \/ Keep(p, [job[p] EXCEPT !.id = v])
                       \/ Keep(p, [job[p] EXCEPT !.seq = v])
                       \/ Keep(p, [job[p] EXCEPT !.reason = v])
             \/ \E v, w : Keep(p, [job[p] EXCEPT !.spendable = v, !.readAt = w])
      BY <1>2 DEF ReadPrior, ReadTreasury, StoreTreasury, Refuse, Insert, LoadAccount, Submit,
                  Answer, RecordPaid, RecordFailed, Restart
    <2>3. UNCHANGED job \/ \E j : PreparedJob(j) /\ Keep(p, j)
      BY <2>1, <2>2, PreparedUpdates
    <2>4. Others(p) /\ PreparedJob(job'[p])
      BY <2>1, <2>2, <2>3, KeepOthers, GotoOthers
    <2>5. QED
      BY <2>4, PreparedKept
  <1>3. QED
    BY <1>1, <1>2

---------------------------------------------------------------------------
(* The invariant is inductive.                                             *)

LEMMA InitIInv == Init => IInv
  <1> SUFFICES ASSUME Init PROVE IInv
    OBVIOUS
  <1>1. TypeOK
    BY InitType
  <1>2. Attempts = {} /\ DOMAIN claims = {} /\ \A p \in Procs : pc[p] = "idle"
    BY DEF Init, Attempts
  <1>3. QED
    BY <1>1, <1>2 DEF IInv, BooksMatchLedger, PaidIsPaid, RowsDistinct, OneAttempt, OwnRows,
                      Knowledge, Prepared, Paying

LEMMA ClaimStepIInv ==
  ASSUME IInv, NEW p \in Procs, ClaimStep(p) \/ Restart(p) PROVE IInv'
  <1> USE DEF IInv
  <1>0. Books
    BY DEF Books
  <1>1. TypeOK'
    BY StartType, ReadWitnessesType, ReadPriorType, ReadTreasuryType, StoreTreasuryType,
       RefuseType, InsertType, LoadAccountType, SubmitType, AnswerType, RecordPaidType,
       RecordFailedType, SurroundingsType DEF ClaimStep
  <1>2. Books'
    BY <1>0, PreparationBooks, InsertBooks, LoadAccountBooks, SubmitBooks, AnswerBooks,
       RecordPaidBooks, RecordFailedBooks DEF ClaimStep
  <1>3. Prepared'
    BY PreparedStart, PreparedReadWitnesses, PreparedClaimStep DEF ClaimStep
  <1>4. QED
    BY <1>1, <1>2, <1>3 DEF Books

LEMMA NextIInv == IInv /\ [Next]_vars => IInv'
  <1> SUFFICES ASSUME IInv, [Next]_vars PROVE IInv'
    OBVIOUS
  <1> USE DEF IInv
  <1>0. Books
    BY DEF Books
  <1>1. ASSUME NEW p \in Procs, NEW w \in Wallets, NEW f \in Families, Request(p, w, f)
        PROVE  IInv'
    <2>1. UNCHANGED <<claims, inflight, landed, pc, job>>
      BY <1>1 DEF Request, dbVars, ledgerVars
    <2>2. QED
      BY <1>0, <1>1, <2>1, RequestType, IdleStep DEF Books, Prepared
  <1>2. ASSUME NEW p \in Procs, ClaimStep(p) \/ Restart(p) PROVE IInv'
    BY <1>2, ClaimStepIInv
  <1>3. ASSUME NEW p \in Procs, ProbeTreasury(p) \/ StoreProbe(p) PROVE IInv'
    <2>1. UNCHANGED <<claims, inflight, landed, pc, job>>
      BY <1>3 DEF ProbeTreasury, StoreProbe, dbVars, ledgerVars
    <2>2. QED
      BY <1>0, <1>3, <2>1, SurroundingsType, IdleStep DEF Books, Prepared
  <1>4. ASSUME NEW x \in Witnesses, NEW u \in Users, NEW meets \in MinNotionalChecks,
               VerifyWitness(x, u, meets)
        PROVE  IInv'
    <2>1. UNCHANGED <<claims, inflight, landed, pc, job>>
      BY <1>4 DEF VerifyWitness, procVars, ledgerVars
    <2>2. QED
      BY <1>0, <1>4, <2>1, VerifyWitnessType, IdleStep DEF Books, Prepared
  <1>5. ASSUME NEW t \in inflight, Land(t) \/ Expire(t) PROVE IInv'
    <2>1. UNCHANGED <<pc, job>>
      BY <1>5 DEF Land, Expire, procVars
    <2>2. QED
      BY <1>0, <1>5, <2>1, LedgerStepType, LedgerStepBooks DEF Books, Prepared
  <1>6. ASSUME NEW c \in DOMAIN claims, Resolve(c) PROVE IInv'
    <2>1. UNCHANGED <<pc, job>>
      BY <1>6 DEF Resolve, procVars
    <2>2. QED
      BY <1>0, <1>6, <2>1, ResolveType, ResolveBooks DEF Books, Prepared
  <1>7. CASE Tick
    <2>1. UNCHANGED <<claims, inflight, landed, pc, job>>
      BY <1>7 DEF Tick, dbVars, procVars, ledgerVars
    <2>2. QED
      BY <1>0, <1>7, <2>1, TickType, IdleStep DEF Books, Prepared
  <1>8. CASE UNCHANGED vars
    <2>1. UNCHANGED <<claims, inflight, landed, pc, job>>
      BY <1>8 DEF vars, dbVars, procVars, ledgerVars
    <2>2. TypeOK'
      BY <1>8 DEF vars, dbVars, procVars, ledgerVars, boundVars, TypeOK, DbType, ProcType,
                  LedgerType, BoundType
    <2>3. QED
      BY <1>0, <2>1, <2>2, IdleStep DEF Books, Prepared
  <1>9. QED
    BY <1>1, <1>2, <1>3, <1>4, <1>5, <1>6, <1>7, <1>8 DEF Next

THEOREM Invariance == Spec => []IInv
  BY InitIInv, NextIInv, PTL DEF Spec

---------------------------------------------------------------------------
(* The results.                                                            *)

\* Every variable of the faucet keeps its type.
THEOREM TypeCorrect == Spec => []TypeOK
  <1>1. IInv => TypeOK
    BY DEF IInv
  <1>2. QED
    BY <1>1, Invariance, PTL

\* A payout that landed, or may still land, always has the row it was built for, and a row
\* that failed for a definite reason has no such payout.
THEOREM LedgerIsOnTheBooks == Spec => []BooksMatchLedger
  <1>1. IInv => BooksMatchLedger
    BY DEF IInv
  <1>2. QED
    BY <1>1, Invariance, PTL

\* No row is ever marked paid without a landed payout of it.
THEOREM PaidMeansLanded == Spec => []PaidIsPaid
  <1>1. IInv => PaidIsPaid
    BY DEF IInv
  <1>2. QED
    BY <1>1, Invariance, PTL

LEMMA RewardsInit == Init => Rewards!Init
  BY DEF Init, Rewards!Init

\* A step of the faucet grants one reward that conflicts with none, or none at all.
LEMMA RewardsNext ==
  ASSUME IInv, [Next]_vars
  PROVE  Rewards!Next \/ UNCHANGED {t.reward : t \in landed}
  <1>1. CASE UNCHANGED landed
    BY <1>1
  <1>2. ASSUME NEW t \in inflight, Land(t)
        PROVE  Rewards!Next \/ UNCHANGED {s.reward : s \in landed}
    <2>1. landed' = landed \union {t}
      BY <1>2 DEF Land
    <2>2. CASE t \in landed
      BY <2>1, <2>2
    <2>3. CASE t \notin landed
      <3>1. t.reward \in Rewards!RewardSet
        BY DEF IInv, TypeOK, LedgerType, Payout, Rewarded, Rewards!RewardSet
      <3>2. ASSUME NEW s \in landed PROVE ~Rewards!Conflict(t.reward, s.reward)
        <4>1. s \in Attempts /\ t \in Attempts /\ s.claim # t.claim
          BY <2>3 DEF IInv, OneAttempt, Attempts
        <4>2. ~SameKey(claims[t.claim], claims[s.claim])
          BY <4>1 DEF IInv, RowsDistinct, BooksMatchLedger
        <4>3. \A a \in Attempts : LET r == claims[a.claim] IN
                /\ a.reward.wallet = r.wallet /\ a.reward.user = r.user
                /\ a.reward.family = r.family /\ a.reward.witness = r.witness
          <5> SUFFICES ASSUME NEW a \in Attempts
                       PROVE  LET r == claims[a.claim] IN
                              /\ a.reward.wallet = r.wallet /\ a.reward.user = r.user
                              /\ a.reward.family = r.family /\ a.reward.witness = r.witness
            OBVIOUS
          <5>1. a.reward = [wallet |-> claims[a.claim].wallet, user |-> claims[a.claim].user,
                            family |-> claims[a.claim].family,
                            witness |-> claims[a.claim].witness]
            BY DEF IInv, BooksMatchLedger
          <5>2. QED
            BY <5>1
        <4>4. QED
          BY <4>1, <4>2, <4>3 DEF SameKey, Rewards!Conflict
      <3>3. Rewards!Grant(t.reward)
        BY <2>1, <3>2 DEF Rewards!Grant
      <3>4. QED
        BY <3>1, <3>3 DEF Rewards!Next
    <2>4. QED
      BY <2>2, <2>3
  <1>3. (\E t \in inflight : Land(t)) \/ UNCHANGED landed
    BY DEF Next, vars, ClaimStep, Request, Start, ReadWitnesses, ReadPrior, ReadTreasury,
           StoreTreasury, Refuse, Insert, LoadAccount, Submit, Answer, RecordPaid, RecordFailed,
           ProbeTreasury, StoreProbe, Restart, VerifyWitness, Expire, Resolve, Tick, ledgerVars
  <1>4. QED
    BY <1>1, <1>2, <1>3

\* INV-9.5, for any number of processes, wallets, users and witnesses: the payouts that land
\* are at most one per wallet and family, per user and family, and per witness.
THEOREM OneRewardEach == Spec => RewardsOnce
  <1>1. IInv /\ [Next]_vars => [Rewards!Next]_({t.reward : t \in landed})
    BY RewardsNext
  <1>2. QED
    BY <1>1, RewardsInit, Invariance, PTL DEF Spec, RewardsOnce, Rewards!Spec

---------------------------------------------------------------------------
(* The budget and the velocity brake are read some awaits before the       *)
(* insert.  A claim that has read a count under the limit holds a place;   *)
(* the rows and the places together stay within the limit and one more     *)
(* place for every process but one.                                        *)

\* The claims that have read the counts and may still insert.
Reading == {p \in Procs : pc[p] \in {"witnesses", "prior", "treasury", "store", "insert"}}
Budgeted == {p \in Reading : job[p].counted < MaxClaims}
Unbraked == {p \in Reading : job[p].lastHour < HourlyCap}

Rows == DOMAIN claims
Recent == {c \in Rows : claims[c].created > now - Hour}
\* The hour that ends when row c is inserted.
Window(c) == {d \in Rows : /\ claims[d].created <= claims[c].created
                           /\ claims[d].created > claims[c].created - Hour}

\* What the other processes can add to a limit that one process keeps.
Overlap == Cardinality(Procs) - 1

BudgetInv == Cardinality(Rows) + Cardinality(Budgeted) <= MaxClaims + Overlap
BrakeInv == Cardinality(Recent) + Cardinality(Unbraked) <= HourlyCap + Overlap
WindowInv ==
  \A c \in Rows : claims[c].created <= now /\ Cardinality(Window(c)) <= HourlyCap + Overlap
LimitInv == BudgetInv /\ BrakeInv /\ WindowInv

\* Everything counted here is finite, and a process holds at most one place.
Counted ==
  /\ IsFiniteSet(Rows) /\ IsFiniteSet(Recent) /\ IsFiniteSet(Budgeted) /\ IsFiniteSet(Unbraked)
  /\ \A c : IsFiniteSet(Window(c)) /\ Cardinality(Window(c)) \in Nat
  /\ Cardinality(Rows) \in Nat /\ Cardinality(Recent) \in Nat
  /\ Cardinality(Budgeted) \in Nat /\ Cardinality(Unbraked) \in Nat
  /\ Cardinality(Procs) \in Nat
  /\ Cardinality(Budgeted) <= Cardinality(Procs)
  /\ Cardinality(Unbraked) <= Cardinality(Procs)

LEMMA CountsType == ASSUME TypeOK, IsFiniteSet(Procs) PROVE Counted
  <1>1. IsFiniteSet(Rows)
    BY RowsFinite DEF TypeOK, Rows
  <1>2. Recent \in SUBSET Rows /\ \A c : Window(c) \in SUBSET Rows
    BY DEF Recent, Window
  <1>3. IsFiniteSet(Recent) /\ \A c : IsFiniteSet(Window(c))
    BY <1>1, <1>2, FS_Subset
  <1>4. Budgeted \in SUBSET Procs /\ Unbraked \in SUBSET Procs
    BY DEF Budgeted, Unbraked, Reading
  <1>5. /\ IsFiniteSet(Budgeted) /\ IsFiniteSet(Unbraked)
        /\ Cardinality(Budgeted) <= Cardinality(Procs)
        /\ Cardinality(Unbraked) <= Cardinality(Procs)
    BY <1>4, FS_Subset
  <1>6. QED
    BY <1>1, <1>3, <1>5, FS_CardinalityType DEF Counted

LEMMA CountsTypeNext == ASSUME IsFiniteSet(Procs) PROVE TypeOK' => Counted'
  <1>1. TypeOK => Counted
    BY CountsType
  <1>2. QED
    BY <1>1, PTL

\* A step that adds no row, lets the clock run on and gives no claim a new count.
Shrunk ==
  /\ Rows' \subseteq Rows
  /\ \A c \in Rows' : claims'[c].created = claims[c].created
  /\ now <= now'
  /\ Reading' \subseteq Reading
  /\ \A q \in Reading' : /\ job'[q].counted = job[q].counted
                         /\ job'[q].lastHour = job[q].lastHour

LEMMA CreatedType ==
  ASSUME TypeOK PROVE now \in Nat /\ \A c \in Rows : claims[c].created \in Nat
  BY DEF TypeOK, DbType, BoundType, Row, Rows

\* A row that stays keeps a window no larger than it was.
LEMMA ShrunkRows ==
  ASSUME TypeOK, TypeOK', Shrunk
  PROVE  /\ Recent' \subseteq Recent
         /\ \A c \in Rows' : c \in Rows /\ Window(c)' \subseteq Window(c)
  <1>1. Rows' \subseteq Rows /\ now \in Nat /\ now' \in Nat /\ now <= now'
    BY CreatedType DEF Shrunk, TypeOK, BoundType
  <1>2. \A c \in Rows' : claims'[c].created = claims[c].created /\ claims[c].created \in Nat
    BY <1>1, CreatedType DEF Shrunk
  <1>3. Hour \in Nat
    BY FaucetConstants
  <1>4. Recent' \subseteq Recent
    BY <1>1, <1>2, <1>3 DEF Recent
  <1>5. ASSUME NEW c \in Rows' PROVE c \in Rows /\ Window(c)' \subseteq Window(c)
    BY <1>1, <1>2, <1>5 DEF Window
  <1>6. QED
    BY <1>4, <1>5

LEMMA ShrunkLimits ==
  ASSUME TypeOK, TypeOK', IsFiniteSet(Procs), LimitInv, Shrunk
  PROVE  LimitInv'
  <1>1. MaxClaims \in Nat /\ HourlyCap \in Nat
    BY FaucetConstants
  <1>2. /\ Budgeted' \in SUBSET Budgeted /\ Unbraked' \in SUBSET Unbraked
        /\ Recent' \in SUBSET Recent /\ Rows' \in SUBSET Rows
    BY ShrunkRows DEF Shrunk, Budgeted, Unbraked
  <1>3. /\ Cardinality(Budgeted') <= Cardinality(Budgeted)
        /\ Cardinality(Unbraked') <= Cardinality(Unbraked)
        /\ Cardinality(Recent') <= Cardinality(Recent)
        /\ Cardinality(Rows') <= Cardinality(Rows)
    BY <1>2, CountsType, FS_Subset DEF Counted
  <1>4. /\ Cardinality(Budgeted') \in Nat /\ Cardinality(Unbraked') \in Nat
        /\ Cardinality(Recent') \in Nat /\ Cardinality(Rows') \in Nat
    <2>1. /\ IsFiniteSet(Budgeted') /\ IsFiniteSet(Unbraked')
          /\ IsFiniteSet(Recent') /\ IsFiniteSet(Rows')
      BY <1>2, CountsType, FS_Subset DEF Counted
    <2>2. QED
      BY <2>1, FS_CardinalityType
  <1>5. BudgetInv' /\ BrakeInv'
    BY <1>1, <1>3, <1>4, CountsType DEF Counted, LimitInv, BudgetInv, BrakeInv, Overlap
  <1>6. ASSUME NEW c \in Rows'
        PROVE  claims'[c].created <= now' /\ Cardinality(Window(c)') <= HourlyCap + Overlap
    <2>1. c \in Rows /\ Window(c)' \in SUBSET Window(c)
      BY <1>6, ShrunkRows
    <2>2. claims[c].created <= now /\ Cardinality(Window(c)) <= HourlyCap + Overlap
      BY <2>1 DEF LimitInv, WindowInv
    <2>3. IsFiniteSet(Window(c)) /\ Cardinality(Window(c)) \in Nat /\ Cardinality(Procs) \in Nat
      BY CountsType DEF Counted
    <2>4. IsFiniteSet(Window(c)') /\ Cardinality(Window(c)') <= Cardinality(Window(c))
      BY <2>1, <2>3, FS_Subset
    <2>5. Cardinality(Window(c)') \in Nat
      BY <2>4, FS_CardinalityType
    <2>6. Cardinality(Window(c)') <= HourlyCap + Overlap
      BY <1>1, <2>2, <2>3, <2>4, <2>5 DEF Overlap
    <2>7. claims'[c].created = claims[c].created /\ now <= now'
      BY <1>6 DEF Shrunk
    <2>8. claims[c].created \in Nat /\ now \in Nat /\ now' \in Nat
      BY <2>1, CreatedType DEF TypeOK, BoundType
    <2>9. QED
      BY <2>2, <2>6, <2>7, <2>8
  <1>7. WindowInv'
    BY <1>6 DEF WindowInv, Overlap
  <1>8. QED
    BY <1>5, <1>7 DEF LimitInv

\* A process that leaves the waiting claims, or keeps the counts it read, gains no place.
LEMMA KeptReading ==
  ASSUME ProcType, NEW p \in Procs, Others(p),
         pc'[p] \in Steps,
         \/ pc'[p] \in {"idle"} \union Paying
         \/ /\ p \in Reading
            /\ job'[p].counted = job[p].counted /\ job'[p].lastHour = job[p].lastHour
  PROVE  /\ Reading' \subseteq Reading
         /\ \A q \in Reading' : /\ job'[q].counted = job[q].counted
                                /\ job'[q].lastHour = job[q].lastHour
  <1> SUFFICES ASSUME NEW q \in Reading'
               PROVE  /\ q \in Reading
                      /\ job'[q].counted = job[q].counted
                      /\ job'[q].lastHour = job[q].lastHour
    OBVIOUS
  <1>1. CASE q = p
    BY <1>1 DEF Reading, Paying
  <1>2. CASE q # p
    BY <1>2 DEF Reading, Others
  <1>3. QED
    BY <1>1, <1>2

LEMMA KeptTable ==
  ASSUME TypeOK, UNCHANGED <<claims, now>>
  PROVE  /\ Rows' \subseteq Rows
         /\ \A c \in Rows' : claims'[c].created = claims[c].created
         /\ now <= now'
  BY CreatedType DEF Rows

\* The steps of a claim before its insert, and a restart.
LEMMA ReadingShrinks ==
  ASSUME TypeOK, NEW p \in Procs,
         \/ (Start(p) /\ Done(p)) \/ ReadWitnesses(p) \/ ReadPrior(p) \/ ReadTreasury(p)
         \/ StoreTreasury(p) \/ Refuse(p) \/ Restart(p)
  PROVE  Shrunk
  <1>1. UNCHANGED <<claims, now>>
    BY DEF Start, ReadWitnesses, ReadPrior, ReadTreasury, StoreTreasury, Refuse, Restart,
           dbVars, boundVars
  <1>2. ProcType /\ job[p] \in Job
    BY JobKnown DEF TypeOK
  <1>3. CASE Done(p)
    <2>1. Others(p) /\ pc'[p] = "idle"
      BY <1>2, <1>3, KeepOthers DEF Done
    <2>2. QED
      BY <1>1, <1>2, <2>1, KeptReading, KeptTable DEF Shrunk, Steps
  <1>4. CASE /\ ~Done(p)
             /\ ReadWitnesses(p) \/ ReadPrior(p) \/ ReadTreasury(p) \/ StoreTreasury(p)
    <2>1. p \in Reading
      BY <1>4 DEF Reading, ReadWitnesses, ReadPrior, ReadTreasury, StoreTreasury
    <2>2. ASSUME NEW j, Keep(p, j), j.counted = job[p].counted, j.lastHour = job[p].lastHour,
                 NEW step \in {"prior", "treasury", "store", "insert"}, Goto(p, step)
          PROVE  Shrunk
      <3>1. Others(p) /\ pc'[p] = step /\ job'[p] = j
        BY <1>2, <2>2, KeepOthers
      <3>2. QED
        BY <1>1, <1>2, <2>1, <2>2, <3>1, KeptReading, KeptTable DEF Shrunk, Steps
    <2>3. CASE ReadWitnesses(p)
      <3>1. Goto(p, "prior")
        BY <1>4, <2>3 DEF ReadWitnesses
      <3>2. PICK u \in FirstUser(job[p].wallet) :
              LET best == BestWitness(job[p].wallet, job[p].family) IN
              \/ best = {} /\ Keep(p, [job[p] EXCEPT !.anyUser = u])
              \/ \E i \in best : Keep(p, [job[p] EXCEPT
                   !.anyUser = u, !.witness = witnessed[i].tx,
                   !.user = witnessed[i].user, !.meets = witnessed[i].meets])
        BY <1>4, <2>3 DEF ReadWitnesses
      <3>3. CASE Keep(p, [job[p] EXCEPT !.anyUser = u])
        <4>1. /\ [job[p] EXCEPT !.anyUser = u].counted = job[p].counted
              /\ [job[p] EXCEPT !.anyUser = u].lastHour = job[p].lastHour
          BY <1>2 DEF Job
        <4>2. QED
          BY <2>2, <3>1, <3>3, <4>1
      <3>4. ASSUME NEW x, NEW v, NEW meets,
                   Keep(p, [job[p] EXCEPT !.anyUser = u, !.witness = x,
                                          !.user = v, !.meets = meets])
            PROVE  Shrunk
        <4>1. PICK j : j = [job[p] EXCEPT !.anyUser = u, !.witness = x,
                                          !.user = v, !.meets = meets]
          OBVIOUS
        <4>2. j.counted = job[p].counted /\ j.lastHour = job[p].lastHour
          BY <1>2, <4>1 DEF Job
        <4>3. Keep(p, j)
          BY <3>4, <4>1
        <4>4. QED
          BY <2>2, <3>1, <4>2, <4>3
      <3>5. QED
        BY <3>2, <3>3, <3>4
    <2>4. CASE ReadPrior(p)
      <3>1. Goto(p, "treasury")
        BY <1>4, <2>4 DEF ReadPrior
      <3>2. PICK status : Keep(p, [job[p] EXCEPT !.prior = status])
        BY <1>4, <2>4 DEF ReadPrior
      <3>3. PICK j : Keep(p, j) /\ j.counted = job[p].counted /\ j.lastHour = job[p].lastHour
        BY <1>2, <3>2 DEF Job
      <3>4. QED
        BY <2>2, <3>1, <3>3
    <2>5. CASE ReadTreasury(p)
      <3>1. PICK v : \/ /\ Goto(p, "insert")
                        /\ Keep(p, [job[p] EXCEPT !.spendable = v])
                     \/ /\ Goto(p, "store")
                        /\ Keep(p, [job[p] EXCEPT !.spendable = v, !.readAt = now])
        <4>1. CASE Goto(p, "insert") /\ Keep(p, [job[p] EXCEPT !.spendable = cache[p].value])
          BY <4>1
        <4>2. CASE /\ \E v \in FetchResults(p) :
                        Keep(p, [job[p] EXCEPT !.spendable = v, !.readAt = now])
                   /\ Goto(p, "store")
          BY <4>2
        <4>3. QED
          BY <2>5, <4>1, <4>2 DEF ReadTreasury
      <3>2. PICK j : Keep(p, j) /\ j.counted = job[p].counted /\ j.lastHour = job[p].lastHour
        <4>1. PICK k \in {[job[p] EXCEPT !.spendable = v],
                         [job[p] EXCEPT !.spendable = v, !.readAt = now]} : Keep(p, k)
          BY <3>1
        <4>2. k.counted = job[p].counted /\ k.lastHour = job[p].lastHour
          <5>1. CASE k = [job[p] EXCEPT !.spendable = v]
            BY <1>2, <5>1 DEF Job
          <5>2. CASE k = [job[p] EXCEPT !.spendable = v, !.readAt = now]
            BY <1>2, <5>2 DEF Job
          <5>3. QED
            BY <4>1, <5>1, <5>2
        <4>3. QED
          BY <4>1, <4>2
      <3>3. PICK step \in {"store", "insert"} : Goto(p, step)
        BY <3>1
      <3>4. step \in {"prior", "treasury", "store", "insert"} /\ Goto(p, step)
        BY <3>3
      <3>5. QED
        BY <2>2, <3>2, <3>4
    <2>6. CASE StoreTreasury(p)
      <3>1. Others(p) /\ pc'[p] = "insert" /\ job'[p] = job[p]
        BY <1>2, <2>6, GotoOthers DEF StoreTreasury
      <3>2. QED
        BY <1>1, <1>2, <2>1, <3>1, KeptReading, KeptTable DEF Shrunk, Steps
    <2>7. QED
      BY <1>4, <2>3, <2>4, <2>5, <2>6
  <1>5. QED
    BY <1>3, <1>4 DEF Refuse, Restart

\* The steps of a claim that has its row: they may change its status, never its time.
LEMMA PayingShrinks ==
  ASSUME IInv, NEW p \in Procs,
         \/ LoadAccount(p) \/ Submit(p) \/ Answer(p) \/ RecordPaid(p) \/ RecordFailed(p)
  PROVE  Shrunk
  <1>1. TypeOK /\ ProcType /\ DbType /\ Knowledge
    BY DEF IInv, TypeOK
  <1>2. Others(p) /\ pc'[p] \in {"idle"} \union Paying
    <2>1. \E step \in {"idle"} \union Paying :
            Goto(p, step) /\ (UNCHANGED job \/ \E j : Keep(p, j))
      BY DEF LoadAccount, Submit, Answer, RecordPaid, RecordFailed, Done, Paying
    <2>2. QED
      BY <1>1, <2>1, KeepOthers, GotoOthers
  <1>3. now' = now
    BY DEF LoadAccount, Submit, Answer, RecordPaid, RecordFailed, boundVars
  <1>4. /\ Rows' \subseteq Rows
        /\ \A c \in Rows' : claims'[c].created = claims[c].created
    <2>1. CASE LoadAccount(p) \/ Submit(p) \/ Answer(p)
      BY <2>1 DEF LoadAccount, Submit, Answer, dbVars, Rows
    <2>2. CASE UNCHANGED claims
      BY <2>2 DEF Rows
    <2>3. ASSUME NEW status, NEW reason, SetStatus(job[p].id, status, reason), pc[p] \in Paying
          PROVE  /\ Rows' \subseteq Rows
                 /\ \A c \in Rows' : claims'[c].created = claims[c].created
      BY <1>1, <2>3 DEF SetStatus, Rows, DbType, Row
    <2>4. QED
      BY <2>1, <2>2, <2>3 DEF RecordPaid, RecordFailed, Paying
  <1>5. now <= now'
    BY <1>1, <1>3, CreatedType
  <1>6. pc'[p] \in Steps
    BY <1>2 DEF Steps
  <1>7. QED
    BY <1>1, <1>2, <1>4, <1>5, <1>6, KeptReading DEF Shrunk

\* The queue, the eligibility GET, the witness, the ledger, the founder and the clock.
LEMMA SurroundingsShrink ==
  ASSUME TypeOK,
         \/ \E p \in Procs : \/ \E w \in Wallets, f \in Families : Request(p, w, f)
                             \/ ProbeTreasury(p) \/ StoreProbe(p)
         \/ \E x \in Witnesses, u \in Users, meets \in MinNotionalChecks :
              VerifyWitness(x, u, meets)
         \/ \E t \in inflight : Land(t) \/ Expire(t)
         \/ \E c \in DOMAIN claims : Resolve(c)
         \/ Tick \/ UNCHANGED vars
  PROVE  Shrunk
  <1>1. UNCHANGED <<pc, job>>
    BY DEF Request, ProbeTreasury, StoreProbe, VerifyWitness, Land, Expire, Resolve, Tick,
           vars, procVars
  <1>2. /\ Reading' \subseteq Reading
        /\ \A q \in Reading' : /\ job'[q].counted = job[q].counted
                               /\ job'[q].lastHour = job[q].lastHour
    BY <1>1 DEF Reading
  <1>3. now <= now'
    <2>1. now \in Nat
      BY CreatedType
    <2>2. now' = now \/ now' = now + 1
      BY DEF Request, ProbeTreasury, StoreProbe, VerifyWitness, Land, Expire, Resolve, Tick,
             vars, boundVars
    <2>3. QED
      BY <2>1, <2>2
  <1>4. /\ Rows' \subseteq Rows
        /\ \A c \in Rows' : claims'[c].created = claims[c].created
    <2>1. CASE UNCHANGED claims
      BY <2>1 DEF Rows
    <2>2. ASSUME NEW c \in DOMAIN claims, Resolve(c)
          PROVE  /\ Rows' \subseteq Rows
                 /\ \A d \in Rows' : claims'[d].created = claims[d].created
      <3>1. CASE SetStatus(c, "paid", claims[c].reason)
        BY <2>2, <3>1 DEF SetStatus, Rows, TypeOK, DbType, Row
      <3>2. CASE claims' = [d \in DOMAIN claims \ {c} |-> claims[d]]
        BY <3>2 DEF Rows
      <3>3. QED
        BY <2>2, <3>1, <3>2 DEF Resolve
    <2>3. QED
      BY <2>1, <2>2 DEF Request, ProbeTreasury, StoreProbe, VerifyWitness, Land, Expire, Tick,
                        vars, dbVars
  <1>5. QED
    BY <1>2, <1>3, <1>4 DEF Shrunk

\* The counting query: a claim that reads a count under the limit takes a place, of which
\* there is at most one per process.
LEMMA StartLimits ==
  ASSUME TypeOK, TypeOK', IsFiniteSet(Procs), LimitInv, NEW p \in Procs, Start(p)
  PROVE  LimitInv'
  <1>1. CASE Done(p)
    BY <1>1, ReadingShrinks, ShrunkLimits
  <1>2. CASE /\ Goto(p, "witnesses")
             /\ Keep(p, [NoJob EXCEPT
                  !.wallet = Head(chain[p]).wallet, !.family = Head(chain[p]).family,
                  !.counted = countedClaims, !.lastHour = claimsLastHour, !.at = now])
    <2>1. PICK j : j = [NoJob EXCEPT
                  !.wallet = Head(chain[p]).wallet, !.family = Head(chain[p]).family,
                  !.counted = countedClaims, !.lastHour = claimsLastHour, !.at = now]
      OBVIOUS
    <2>2. j.counted = Cardinality(Rows) /\ j.lastHour = Cardinality(Recent)
      BY <2>1 DEF NoJob, countedClaims, claimsLastHour, Rows, Recent
    <2>3. Others(p) /\ pc'[p] = "witnesses" /\ job'[p] = j
      BY <1>2, <2>1, KeepOthers DEF TypeOK
    <2>4. claims' = claims /\ now' = now
      BY DEF Start, dbVars, boundVars
    <2>5. Rows' = Rows /\ Recent' = Recent /\ \A c : Window(c)' = Window(c)
      BY <2>4 DEF Rows, Recent, Window
    <2>6. MaxClaims \in Nat /\ HourlyCap \in Nat
      BY FaucetConstants
    <2>7. /\ Cardinality(Budgeted)' \in Nat /\ Cardinality(Budgeted)' <= Cardinality(Procs)
          /\ Cardinality(Unbraked)' \in Nat /\ Cardinality(Unbraked)' <= Cardinality(Procs)
          /\ Cardinality(Rows) \in Nat /\ Cardinality(Recent) \in Nat
          /\ Cardinality(Procs) \in Nat
      BY CountsType, CountsTypeNext DEF Counted
    <2>8. BudgetInv'
      <3>1. CASE Cardinality(Rows) < MaxClaims
        BY <2>5, <2>6, <2>7, <3>1 DEF BudgetInv, Overlap
      <3>2. CASE ~(Cardinality(Rows) < MaxClaims)
        <4>1. Budgeted' \in SUBSET Budgeted
          BY <2>2, <2>3, <3>2 DEF Budgeted, Reading, Others
        <4>2. Cardinality(Budgeted') <= Cardinality(Budgeted) /\ Cardinality(Budgeted) \in Nat
          BY <4>1, CountsType, FS_Subset DEF Counted
        <4>3. BudgetInv
          BY DEF LimitInv
        <4>4. QED
          BY <2>5, <2>6, <2>7, <4>2, <4>3 DEF BudgetInv, Overlap
      <3>3. QED
        BY <3>1, <3>2
    <2>9. BrakeInv'
      <3>1. CASE Cardinality(Recent) < HourlyCap
        BY <2>5, <2>6, <2>7, <3>1 DEF BrakeInv, Overlap
      <3>2. CASE ~(Cardinality(Recent) < HourlyCap)
        <4>1. Unbraked' \in SUBSET Unbraked
          BY <2>2, <2>3, <3>2 DEF Unbraked, Reading, Others
        <4>2. Cardinality(Unbraked') <= Cardinality(Unbraked) /\ Cardinality(Unbraked) \in Nat
          BY <4>1, CountsType, FS_Subset DEF Counted
        <4>3. BrakeInv
          BY DEF LimitInv
        <4>4. QED
          BY <2>5, <2>6, <2>7, <4>2, <4>3 DEF BrakeInv, Overlap
      <3>3. QED
        BY <3>1, <3>2
    <2>10. WindowInv'
      BY <2>4, <2>5 DEF LimitInv, WindowInv, Overlap
    <2>11. QED
      BY <2>8, <2>9, <2>10 DEF LimitInv
  <1>3. QED
    BY <1>1, <1>2 DEF Start

\* The insert: the row takes the place its claim held.
LEMMA InsertLimits ==
  ASSUME TypeOK, TypeOK', IsFiniteSet(Procs), LimitInv, NEW p \in Procs, Insert(p)
  PROVE  LimitInv'
  <1>1. now' = now /\ now \in Nat /\ ProcType
    BY CreatedType DEF Insert, boundVars, TypeOK
  <1>2. Others(p) /\ pc'[p] \in {"idle", "load"}
    <2>1. \E step \in {"idle", "load"} : Goto(p, step) /\ \E j : Keep(p, j)
      BY DEF Insert, Done
    <2>2. QED
      BY <1>1, <2>1, KeepOthers
  <1>3. CASE claims' = claims
    <2>1. Shrunk
      BY <1>1, <1>2, <1>3, KeptReading, KeptTable DEF Shrunk, Paying, Steps
    <2>2. QED
      BY <2>1, ShrunkLimits
  <1>4. CASE AddRow(NewRow(p))
    <2>1. /\ Rows' = Rows \union {nextId} /\ nextId \notin Rows
          /\ claims'[nextId].created = now
          /\ \A c \in Rows : claims'[c].created = claims[c].created
      <3>1. /\ claims' = [c \in DOMAIN claims \union {nextId} |->
                            IF c = nextId THEN NewRow(p) ELSE claims[c]]
            /\ NewRow(p).created = now
        BY <1>4 DEF AddRow, NewRow
      <3>2. nextId \notin DOMAIN claims
        BY DEF TypeOK, DbType
      <3>3. QED
        BY <3>1, <3>2 DEF Rows
    <2>2. p \in Budgeted /\ p \in Unbraked
      BY DEF Insert, walletEligibility, Budgeted, Unbraked, Reading
    <2>3. Budgeted' \in SUBSET (Budgeted \ {p}) /\ Unbraked' \in SUBSET (Unbraked \ {p})
      BY <1>2 DEF Budgeted, Unbraked, Reading, Others
    <2>4. /\ Cardinality(Budgeted') <= Cardinality(Budgeted) - 1
          /\ Cardinality(Unbraked') <= Cardinality(Unbraked) - 1
      <3>1. /\ IsFiniteSet(Budgeted \ {p}) /\ IsFiniteSet(Unbraked \ {p})
            /\ Cardinality(Budgeted \ {p}) = Cardinality(Budgeted) - 1
            /\ Cardinality(Unbraked \ {p}) = Cardinality(Unbraked) - 1
        BY <2>2, CountsType, FS_RemoveElement DEF Counted
      <3>2. QED
        BY <2>3, <3>1, FS_Subset
    <2>5. /\ Cardinality(Rows') = Cardinality(Rows) + 1
      BY <2>1, CountsType, FS_AddElement DEF Counted
    <2>6. \A c \in Rows : claims[c].created \in Nat
      BY CreatedType
    <2>7. MaxClaims \in Nat /\ HourlyCap \in Nat /\ Hour \in Nat
      BY FaucetConstants
    <2>8. Recent' \in SUBSET (Recent \union {nextId})
      BY <1>1, <2>1 DEF Recent
    <2>9. Cardinality(Recent') <= Cardinality(Recent) + 1
      <3>1. /\ IsFiniteSet(Recent \union {nextId})
            /\ Cardinality(Recent \union {nextId}) \in Nat
            /\ Cardinality(Recent \union {nextId}) <= Cardinality(Recent) + 1
        <4>1. IsFiniteSet(Recent) /\ Cardinality(Recent) \in Nat
          BY CountsType DEF Counted
        <4>2. /\ IsFiniteSet(Recent \union {nextId})
              /\ Cardinality(Recent \union {nextId}) =
                   IF nextId \in Recent THEN Cardinality(Recent) ELSE Cardinality(Recent) + 1
          BY <4>1, FS_AddElement
        <4>3. QED
          BY <4>1, <4>2, FS_CardinalityType
      <3>2. Cardinality(Recent') <= Cardinality(Recent \union {nextId})
        BY <2>8, <3>1, FS_Subset
      <3>3. Cardinality(Recent') \in Nat /\ Cardinality(Recent) \in Nat
        BY CountsType, CountsTypeNext DEF Counted
      <3>4. QED
        BY <3>1, <3>2, <3>3
    <2>10. /\ Cardinality(Budgeted) \in Nat /\ Cardinality(Unbraked) \in Nat
           /\ Cardinality(Rows) \in Nat /\ Cardinality(Recent) \in Nat
           /\ Cardinality(Procs) \in Nat
           /\ Cardinality(Budgeted') \in Nat /\ Cardinality(Unbraked') \in Nat
           /\ Cardinality(Recent') \in Nat
      <3>1. /\ IsFiniteSet(Budgeted') /\ IsFiniteSet(Unbraked') /\ IsFiniteSet(Recent')
        BY CountsTypeNext DEF Counted
      <3>2. QED
        BY <3>1, CountsType, FS_CardinalityType DEF Counted
    <2>11. BudgetInv' /\ BrakeInv'
      BY <2>4, <2>5, <2>7, <2>9, <2>10 DEF LimitInv, BudgetInv, BrakeInv, Overlap
    <2>12. Cardinality(Recent') <= HourlyCap + Overlap
      BY <2>7, <2>10, <2>11 DEF BrakeInv, Overlap
    <2>13. ASSUME NEW c \in Rows'
           PROVE  claims'[c].created <= now' /\ Cardinality(Window(c)') <= HourlyCap + Overlap
      <3>1. CASE claims'[c].created = now
        <4>1. Window(c)' \in SUBSET Recent'
          BY <1>1, <3>1 DEF Window, Recent
        <4>2. IsFiniteSet(Recent')
          BY CountsTypeNext DEF Counted
        <4>3. Cardinality(Window(c)') <= Cardinality(Recent') /\ Cardinality(Window(c)') \in Nat
          BY <4>1, <4>2, FS_Subset, FS_CardinalityType
        <4>4. QED
          BY <1>1, <2>7, <2>10, <2>12, <3>1, <4>3 DEF Overlap
      <3>2. CASE claims'[c].created # now
        <4>1. c \in Rows /\ claims'[c].created = claims[c].created
          BY <2>1, <2>13, <3>2
        <4>2. claims[c].created <= now /\ Cardinality(Window(c)) <= HourlyCap + Overlap
          BY <4>1 DEF LimitInv, WindowInv
        <4>3. Window(c)' = Window(c)
          BY <1>1, <2>1, <2>6, <3>2, <4>1, <4>2 DEF Window
        <4>4. QED
          BY <1>1, <4>1, <4>2, <4>3
      <3>3. QED
        BY <3>1, <3>2
    <2>14. WindowInv'
      BY <2>13 DEF WindowInv, Overlap
    <2>15. QED
      BY <2>11, <2>14 DEF LimitInv
  <1>5. QED
    BY <1>3, <1>4 DEF Insert

LEMMA InitLimits ==
  ASSUME Init, IsFiniteSet(Procs), Procs # {}
  PROVE  LimitInv
  <1>1. Rows = {} /\ Recent = {}
    BY DEF Init, Rows, Recent
  <1>2. Budgeted = {} /\ Unbraked = {}
    BY DEF Init, Budgeted, Unbraked, Reading
  <1>3. Cardinality(Procs) \in Nat /\ Cardinality(Procs) # 0
    BY FS_CardinalityType, FS_EmptySet
  <1>4. QED
    BY <1>1, <1>2, <1>3, FS_EmptySet, FaucetConstants
       DEF LimitInv, BudgetInv, BrakeInv, WindowInv, Overlap

LEMMA NextLimits ==
  ASSUME IInv, IInv', IsFiniteSet(Procs), LimitInv, [Next]_vars
  PROVE  LimitInv'
  <1>1. TypeOK /\ TypeOK'
    BY DEF IInv
  <1>2. ASSUME NEW p \in Procs, Start(p) \/ Insert(p) PROVE LimitInv'
    BY <1>1, <1>2, StartLimits, InsertLimits
  <1>3. ASSUME NEW p \in Procs, ClaimStep(p) \/ Restart(p), ~Start(p), ~Insert(p)
        PROVE  Shrunk
    BY <1>1, <1>3, ReadingShrinks, PayingShrinks DEF ClaimStep
  <1>4. CASE \/ \E p \in Procs : \/ \E w \in Wallets, f \in Families : Request(p, w, f)
                                 \/ ProbeTreasury(p) \/ StoreProbe(p)
             \/ \E x \in Witnesses, u \in Users, meets \in MinNotionalChecks :
                  VerifyWitness(x, u, meets)
             \/ \E t \in inflight : Land(t) \/ Expire(t)
             \/ \E c \in DOMAIN claims : Resolve(c)
             \/ Tick \/ UNCHANGED vars
    BY <1>1, <1>4, SurroundingsShrink, ShrunkLimits
  <1>5. CASE \E p \in Procs : ClaimStep(p) \/ Restart(p)
    BY <1>1, <1>2, <1>3, <1>5, ShrunkLimits
  <1>6. QED
    BY <1>4, <1>5 DEF Next

\* INV-9.6 for any finite number of API processes: the rows in the books exceed the budget,
\* and the rows of an hour the velocity brake, by at most one for every process beyond the
\* first, though each claim inserts on counts it read several awaits earlier.
THEOREM OvershootBounded ==
  ASSUME IsFiniteSet(Procs), Procs # {}
  PROVE  Spec => [](/\ Cardinality(DOMAIN claims) <= MaxClaims + Overlap
                    /\ \A c \in DOMAIN claims : Cardinality(Window(c)) <= HourlyCap + Overlap)
  <1> DEFINE Bounded == /\ Cardinality(DOMAIN claims) <= MaxClaims + Overlap
                        /\ \A c \in DOMAIN claims : Cardinality(Window(c)) <= HourlyCap + Overlap
  <1>1. Init => LimitInv
    BY InitLimits
  <1>2. IInv /\ IInv' /\ LimitInv /\ [Next]_vars => LimitInv'
    BY NextLimits
  <1>3. IInv /\ LimitInv => Bounded
    <2> SUFFICES ASSUME IInv, LimitInv PROVE Bounded
      OBVIOUS
    <2>1. /\ Cardinality(Rows) \in Nat /\ Cardinality(Budgeted) \in Nat
          /\ Cardinality(Procs) \in Nat /\ MaxClaims \in Nat
      BY CountsType, FaucetConstants DEF Counted, IInv
    <2>2. BudgetInv /\ WindowInv
      BY DEF LimitInv
    <2>3. Cardinality(DOMAIN claims) <= MaxClaims + Overlap
      BY <2>1, <2>2 DEF BudgetInv, Rows, Overlap
    <2>4. \A c \in DOMAIN claims : Cardinality(Window(c)) <= HourlyCap + Overlap
      BY <2>2 DEF WindowInv, Rows
    <2>5. QED
      BY <2>3, <2>4
  <1> HIDE DEF Bounded
  <1>4. Spec => []Bounded
    BY <1>1, <1>2, <1>3, Invariance, PTL DEF Spec
  <1>5. QED
    BY <1>4 DEF Bounded

\* INV-9.6 with the one API process pm2 runs: the books never exceed the budget.
THEOREM BudgetKept ==
  ASSUME NEW p, Procs = {p}
  PROVE  Spec => []BudgetHolds
  <1>1. IsFiniteSet(Procs) /\ Procs # {} /\ Cardinality(Procs) = 1
    BY FS_Singleton
  <1>2. MaxClaims \in Nat
    BY FaucetConstants
  <1>3. (/\ Cardinality(DOMAIN claims) <= MaxClaims + Overlap
         /\ \A c \in DOMAIN claims : Cardinality(Window(c)) <= HourlyCap + Overlap)
        => BudgetHolds
    BY <1>1, <1>2 DEF BudgetHolds, Overlap
  <1>4. QED
    BY <1>1, <1>3, OvershootBounded, PTL

\* INV-9.6 with the one API process pm2 runs: no hour takes more rows than the brake allows.
THEOREM VelocityKept ==
  ASSUME NEW p, Procs = {p}
  PROVE  Spec => []VelocityHolds
  <1>1. IsFiniteSet(Procs) /\ Procs # {} /\ Cardinality(Procs) = 1
    BY FS_Singleton
  <1>2. HourlyCap \in Nat
    BY FaucetConstants
  <1>3. (/\ Cardinality(DOMAIN claims) <= MaxClaims + Overlap
         /\ \A c \in DOMAIN claims : Cardinality(Window(c)) <= HourlyCap + Overlap)
        => VelocityHolds
    BY <1>1, <1>2 DEF VelocityHolds, Window, Rows, Overlap
  <1>4. QED
    BY <1>1, <1>3, OvershootBounded, PTL

===========================================================================
