------------------------------ MODULE WalletBook ------------------------------
(***************************************************************************)
(* The wallets of the beta users and who may act for them: connecting,     *)
(* tracking, renaming the primary and the signer, pausing, deleting; the   *)
(* ownership challenges and proofs; recovery of an account without a       *)
(* session; and the refresh of a wallet behind its in-memory limiter.      *)
(* No call runs in a transaction: every statement is a step of its own,    *)
(* and the calls of several clients interleave between statements.         *)
(***************************************************************************)
EXTENDS Integers, FiniteSets, FiniteSetsExt

CONSTANTS
  Users, Addresses,
  Requests,      \* calls that may be in progress at once
  Ids,           \* wallet row ids, in order of created_at
  Nonces,        \* challenge nonces
  Mixes,         \* the instances a run covers: the book they start from, the calls
                 \* their clients make, and the bounds
  MaxConcurrent, \* refreshes the process runs at once
  Cooldown,      \* ticks between two refreshes of one wallet
  None, Free

WalletOps == {"connect", "fork", "recover", "create", "primary", "signer", "activate",
              "pause", "delete"}

RowType  == [user : Users, address : Addresses, primary : BOOLEAN, active : BOOLEAN,
             signer : BOOLEAN]
CallType == [op : WalletOps \union {"verify", "refresh"}, user : Users \union {None},
             address : Addresses \union {None}, row : Ids \union {None},
             heir : Ids \union {None}, primary : BOOLEAN, nonce : Nonces \union {None},
             pc : {"count", "insert", "revive", "demote", "promote", "clear", "crown", "heir",
                   "enthrone", "setactive", "drop", "consume", "prove", "admit", "balances",
                   "positions"}]
ChallengeType == [address : Addresses, open : BOOLEAN]
ProofType     == [address : Addresses, user : Users \union {None}, consumed : BOOLEAN,
                  fresh : BOOLEAN]

\* A book to start from: a user signs with one wallet and has one active primary.
GoodBook(b) ==
  /\ \A i \in DOMAIN b : b[i] \in RowType
  /\ \A i, j \in DOMAIN b : b[i].user = b[j].user =>
       /\ b[i].signer /\ b[j].signer => i = j
       /\ b[i].primary /\ b[j].primary => i = j
  /\ \A i \in DOMAIN b : \E j \in DOMAIN b : b[j].user = b[i].user /\ b[j].primary /\ b[j].active

ASSUME WalletAssumption ==
  /\ Ids \subseteq Nat /\ IsFiniteSet(Requests)
  /\ MaxConcurrent \in Nat /\ Cooldown \in Nat
  /\ None \notin Users \union Addresses \union Ids \union Nonces
  /\ None \notin RowType /\ None \notin ChallengeType /\ None \notin ProofType
  /\ Free \notin CallType
  /\ \A m \in Mixes :
       /\ m.users \subseteq Users /\ m.addresses \subseteq Addresses /\ m.faults \in Nat
       /\ m.ids \subseteq Ids /\ DOMAIN m.book \subseteq Ids /\ GoodBook(m.book)

VARIABLES
  mix,        \* the instance: chosen once, never changed
  accounts,   \* user ids that clients hold
  rows,       \* user_wallets: [id -> row]
  created,    \* the ids that were handed out
  challenges, \* wallet_auth_challenges: [nonce -> row]
  proofs,     \* wallet_ownership_proofs by their (unique) nonce
  req,        \* the locals of each call in progress
  limiter,    \* [inFlight, startedAt] of the RefreshLimiter
  sinceStart, \* history: ticks since the last refresh of a wallet began
  checks,     \* history: signature checks made against a nonce
  handed,     \* history: accounts handed out for a proof, by its nonce
  torn,       \* history: users whose calls overlapped or were cut short
  faults

vars    == <<mix, accounts, rows, created, challenges, proofs, req, limiter, sinceStart,
             checks, handed, torn, faults>>
people  == <<mix, accounts, faults>>
book    == <<rows, created>>
auth    == <<challenges, proofs, checks>>
refresh == <<limiter, sinceStart>>

Row(u, a, primary) == [user |-> u, address |-> a, primary |-> primary, active |-> TRUE,
                       signer |-> FALSE]
RowsOf(u)     == {i \in Ids : rows[i] # None /\ rows[i].user = u}
Tracked(u, a) == {i \in RowsOf(u) : rows[i].address = a}
SignersAt(a)  == {i \in Ids : rows[i] # None /\ rows[i].address = a /\ rows[i].signer}
Exists(i, u)  == i \in RowsOf(u)

Oldest(S)     == {i \in S : \A j \in S : i <= j}

\* A call on the wallets of u is between two of its statements.
Busy(u) == \E r \in Requests : /\ req[r] # Free
                               /\ req[r].op \in WalletOps /\ req[r].user = u

NewLimiter == [inFlight |-> {}, startedAt |-> [i \in Ids |-> None]]

Init ==
  /\ mix \in Mixes
  /\ rows = [i \in Ids |-> IF i \in DOMAIN mix.book THEN mix.book[i] ELSE None]
  /\ created = DOMAIN mix.book
  /\ accounts = {rows[i].user : i \in created}
  /\ challenges = [n \in Nonces |-> None] /\ proofs = [n \in Nonces |-> None]
  /\ req = [r \in Requests |-> Free]
  /\ limiter = NewLimiter
  /\ sinceStart = [i \in Ids |-> None]
  /\ checks = [n \in Nonces |-> 0] /\ handed = [n \in Nonces |-> 0]
  /\ torn = {} /\ faults = 0

-------------------------------------------------------------------------------
(* Beginning and ending a call                                             *)

Call(op, u, a, pc) == [op |-> op, user |-> u, address |-> a, pc |-> pc, row |-> None,
                       heir |-> None, primary |-> FALSE, nonce |-> None]

Room == Cardinality({r \in Requests : req[r] # Free}) < mix.calls

\* The client's request arrives; its first statement runs at once.
Begin(r, call) ==
  /\ req[r] = Free /\ Room /\ call.op \in mix.ops
  /\ call.address \in mix.addresses \union {None}
  /\ req' = [req EXCEPT ![r] = call]
  /\ torn' = IF Busy(call.user) /\ call.op \in WalletOps THEN torn \union {call.user}
                                                        ELSE torn

Goto(r, pc) == req' = [req EXCEPT ![r].pc = pc]
End(r)      == req' = [req EXCEPT ![r] = Free]
At(r, pc)   == req[r] # Free /\ req[r].pc = pc

\* Mutant: the new user id is not returned to the client.
MintUnreturned(u) == u \in mix.users \ accounts /\ UNCHANGED accounts

\* A fresh random uuid: nobody else holds it; the answer tells it to the client.
Mint(u) == u \in mix.users \ accounts /\ accounts' = accounts \union {u}

\* connectWallet with a session attaches inside that account only.
Connect(r, u, a) ==
  /\ u \in accounts
  /\ \/ \E i \in Tracked(u, a) : Begin(r, [Call("connect", u, a, "demote") EXCEPT !.row = i])
     \/ Tracked(u, a) = {} /\ Begin(r, Call("connect", u, a, "count"))
  /\ UNCHANGED <<people, book, auth, refresh, handed>>

\* Without one, the account where the address signs may be recovered; an address
\* that signs nowhere forks a new account, whose count of wallets is zero.
ConnectAnew(r, a) ==
  /\ \/ /\ \E i \in SignersAt(a) :
             Begin(r, [Call("recover", rows[i].user, a, "consume") EXCEPT !.row = i])
        /\ UNCHANGED accounts
     \/ /\ SignersAt(a) = {}
        /\ \E u \in Users : /\ Mint(u)
                            /\ Begin(r, [Call("fork", u, a, "insert") EXCEPT !.primary = TRUE])
  /\ UNCHANGED <<mix, book, auth, refresh, handed, faults>>

\* createWallet tracks an address without promoting it; an already tracked one
\* is switched on again.
Create(r, u, a) ==
  /\ u \in accounts
  /\ \/ \E i \in Tracked(u, a) : Begin(r, [Call("create", u, a, "revive") EXCEPT !.row = i])
     \/ Tracked(u, a) = {} /\ Begin(r, Call("create", u, a, "count"))
  /\ UNCHANGED <<people, book, auth, refresh, handed>>

CreateAnew(r, a) ==
  /\ \E u \in Users : /\ Mint(u)
                      /\ Begin(r, [Call("create", u, a, "insert") EXCEPT !.primary = TRUE])
  /\ UNCHANGED <<mix, book, auth, refresh, handed, faults>>

\* The first statement after the ownership check of each call on one wallet.
FirstStep(op, row) ==
  CASE op = "primary" -> "clear"
    [] op = "signer"  -> "demote"
    [] op = "pause"   -> IF row.primary THEN "heir" ELSE "setactive"
    [] op = "activate" -> "setactive"
    [] op = "delete"  -> IF row.primary THEN "heir" ELSE "drop"
    [] op = "refresh" -> "admit"

\* setPrimaryWallet, setActiveSigner, setWalletActive, deleteWallet, refreshWallet:
\* getWalletOrThrow answers 404 for a wallet the caller does not own.
Manage(r, op, i) ==
  /\ rows[i] # None
  /\ Begin(r, [Call(op, rows[i].user, rows[i].address, FirstStep(op, rows[i]))
                 EXCEPT !.row = i])
  /\ UNCHANGED <<people, book, auth, refresh, handed>>

-------------------------------------------------------------------------------
(* The statements of the wallet calls                                      *)

Mine(r) == RowsOf(req[r].user)
Its(r)  == req[r].row

Quiet == UNCHANGED <<people, created, auth, refresh, handed, torn>>

Count(r) ==
  /\ At(r, "count")
  /\ req' = [req EXCEPT ![r].pc = "insert", ![r].primary = Mine(r) = {}]
  /\ UNCHANGED rows /\ Quiet

\* unique (user_id, chain, address): the loser of a race is answered an error.
Insert(r) ==
  /\ At(r, "insert")
  /\ \/ Tracked(req[r].user, req[r].address) # {} /\ End(r) /\ UNCHANGED book
     \/ /\ Tracked(req[r].user, req[r].address) = {}
        /\ \E i \in Oldest(mix.ids \ created) :
             /\ rows' = [rows EXCEPT ![i] = Row(req[r].user, req[r].address, req[r].primary)]
             /\ created' = created \union {i}
             /\ IF req[r].op = "create" THEN End(r)
                ELSE req' = [req EXCEPT ![r].pc = "demote", ![r].row = i]
  /\ UNCHANGED <<people, auth, refresh, handed, torn>>

Revive(r) ==
  /\ At(r, "revive")
  /\ rows' = IF rows[Its(r)] = None THEN rows ELSE [rows EXCEPT ![Its(r)].active = TRUE]
  /\ End(r) /\ Quiet

Demote(r) ==
  /\ At(r, "demote")
  /\ rows' = [i \in Ids |-> IF i \in Mine(r) \ {Its(r)} THEN [rows[i] EXCEPT !.signer = FALSE]
                                                       ELSE rows[i]]
  /\ Goto(r, "promote") /\ Quiet

\* Mutant: the update relies on the demotion alone, without the unique index.
PromoteUnindexed(r) ==
  /\ At(r, "promote")
  /\ Exists(Its(r), req[r].user)
  /\ rows' = [rows EXCEPT ![Its(r)].signer = TRUE, ![Its(r)].active = TRUE]
  /\ End(r)
  /\ UNCHANGED <<people, created, auth, refresh, handed, torn>>

\* Mutant: promoting leaves a paused wallet paused.
PromoteKeepsPause(r) ==
  /\ At(r, "promote")
  /\ Exists(Its(r), req[r].user) /\ ~ \E i \in Mine(r) \ {Its(r)} : rows[i].signer
  /\ rows' = [rows EXCEPT ![Its(r)].signer = TRUE]
  /\ End(r)
  /\ UNCHANGED <<people, created, auth, refresh, handed, torn>>

\* The wallet is gone, or another one took the index user_wallets_one_signer_per_user
\* since the demotion: the call fails.  A recovery that succeeds hands the account out.
Promote(r) ==
  /\ At(r, "promote")
  /\ IF Exists(Its(r), req[r].user) /\ ~ \E i \in Mine(r) \ {Its(r)} : rows[i].signer
     THEN /\ rows' = [rows EXCEPT ![Its(r)].signer = TRUE, ![Its(r)].active = TRUE]
          /\ handed' = IF req[r].op = "recover" THEN [handed EXCEPT ![req[r].nonce] = @ + 1]
                                                ELSE handed
     ELSE UNCHANGED <<rows, handed>>
  /\ End(r)
  /\ UNCHANGED <<people, created, auth, refresh, torn>>

Clear(r) ==
  /\ At(r, "clear")
  /\ rows' = [i \in Ids |-> IF i \in Mine(r) THEN [rows[i] EXCEPT !.primary = FALSE]
                                            ELSE rows[i]]
  /\ Goto(r, "crown") /\ Quiet

Crown(r) ==
  /\ At(r, "crown")
  /\ rows' = IF Exists(Its(r), req[r].user)
             THEN [rows EXCEPT ![Its(r)].primary = TRUE, ![Its(r)].active = TRUE] ELSE rows
  /\ End(r) /\ Quiet

\* Mutant: any other wallet inherits, paused or not.
HeirOfAnyState(r) ==
  /\ At(r, "heir")
  /\ LET others == Mine(r) \ {Its(r)}
     IN  \/ others = {} /\ End(r)
         \/ \E i \in Oldest(others) :
              req' = [req EXCEPT ![r].pc = "enthrone", ![r].heir = i]
  /\ UNCHANGED rows /\ Quiet

\* The primary goes to the oldest other active wallet; without one the call is refused.
Heir(r) ==
  /\ At(r, "heir")
  /\ LET others == {i \in Mine(r) \ {Its(r)} : rows[i].active}
     IN  \/ others = {} /\ End(r)
         \/ \E i \in Oldest(others) :
              req' = [req EXCEPT ![r].pc = "enthrone", ![r].heir = i]
  /\ UNCHANGED rows /\ Quiet

Enthrone(r) ==
  /\ At(r, "enthrone")
  /\ rows' = IF rows[req[r].heir] = None THEN rows
             ELSE [rows EXCEPT ![req[r].heir].primary = TRUE]
  /\ Goto(r, IF req[r].op = "delete" THEN "drop" ELSE "setactive") /\ Quiet

\* The signer flag is left alone: a paused wallet may be the signer.
SetActive(r) ==
  /\ At(r, "setactive")
  /\ rows' = IF ~Exists(Its(r), req[r].user) THEN rows
             ELSE IF req[r].op = "pause"
             THEN [rows EXCEPT ![Its(r)].active = FALSE, ![Its(r)].primary = FALSE]
             ELSE [rows EXCEPT ![Its(r)].active = TRUE]
  /\ End(r) /\ Quiet

Drop(r) ==
  /\ At(r, "drop")
  /\ rows' = IF Exists(Its(r), req[r].user) THEN [rows EXCEPT ![Its(r)] = None] ELSE rows
  /\ End(r) /\ Quiet

-------------------------------------------------------------------------------
(* Challenges and ownership proofs                                         *)

Unbound(a) == {n \in Nonces : /\ proofs[n] # None /\ proofs[n].address = a
                              /\ proofs[n].user = None /\ ~proofs[n].consumed}
FreshUnbound(a) == {n \in Unbound(a) : proofs[n].fresh}
BoundTo(a, u)   == {n \in Nonces : /\ proofs[n] # None /\ proofs[n].address = a
                                   /\ u # None /\ proofs[n].user = u}

\* Mutant: the proof is looked up but neither consumed nor bound.
ConsumeWithoutMark(r) ==
  /\ At(r, "consume")
  /\ \/ FreshUnbound(req[r].address) = {} /\ End(r) /\ UNCHANGED proofs
     \/ \E n \in FreshUnbound(req[r].address) :
          /\ req' = [req EXCEPT ![r].pc = "demote", ![r].nonce = n]
          /\ UNCHANGED proofs
  /\ UNCHANGED <<people, book, refresh, challenges, checks, handed, torn>>

\* One statement consumes a fresh unbound proof and binds it to the account; a proof
\* already bound to the same wallet and account holds the unique index, and the call
\* fails.  Which of several fresh proofs is the newest is left open.
Consume(r) ==
  /\ At(r, "consume")
  /\ LET a == req[r].address
         u == req[r].user
     IN  \/ /\ FreshUnbound(a) = {} \/ BoundTo(a, u) # {}
            /\ End(r) /\ UNCHANGED proofs
         \/ /\ BoundTo(a, u) = {}
            /\ \E n \in FreshUnbound(a) :
                 /\ proofs' = [proofs EXCEPT ![n].consumed = TRUE, ![n].user = u]
                 /\ req' = [req EXCEPT ![r].pc = "demote", ![r].nonce = n]
  /\ UNCHANGED <<people, book, refresh, challenges, checks, handed, torn>>

\* issueChallenge.  A challenge is open until it is used or it expires.
Issue(n, a) ==
  /\ "verify" \in mix.ops /\ a \in mix.addresses
  /\ challenges[n] = None
  /\ challenges' = [challenges EXCEPT ![n] = [address |-> a, open |-> TRUE]]
  /\ UNCHANGED <<people, book, refresh, proofs, checks, req, handed, torn>>

Expire(n) ==
  /\ challenges[n] # None /\ challenges[n].open
  /\ challenges' = [challenges EXCEPT ![n].open = FALSE]
  /\ UNCHANGED <<people, book, refresh, proofs, checks, req, handed, torn>>

\* Mutant: the nonce is burnt only by a signature that verifies.
VerifyBurnsOnSuccess(r, n, u, good) ==
  /\ challenges[n] # None /\ challenges[n].open
  /\ req[r] = Free /\ Room /\ "verify" \in mix.ops
  /\ checks' = [checks EXCEPT ![n] = @ + 1]
  /\ challenges' = [challenges EXCEPT ![n].open = ~good]
  /\ req' = IF good THEN [req EXCEPT ![r] = [Call("verify", u, challenges[n].address, "prove")
                                               EXCEPT !.nonce = n]]
            ELSE req
  /\ UNCHANGED <<people, book, refresh, proofs, handed, torn>>

\* verifyChallenge: the nonce is burnt first, in one statement, whatever the
\* signature is worth.
Verify(r, n, u, good) ==
  /\ challenges[n] # None /\ challenges[n].open
  /\ req[r] = Free /\ Room /\ "verify" \in mix.ops
  /\ checks' = [checks EXCEPT ![n] = @ + 1]
  /\ challenges' = [challenges EXCEPT ![n].open = FALSE]
  /\ req' = IF good THEN [req EXCEPT ![r] = [Call("verify", u, challenges[n].address, "prove")
                                               EXCEPT !.nonce = n]]
            ELSE req
  /\ UNCHANGED <<people, book, refresh, proofs, handed, torn>>

\* insertUnboundProof, or upsertBoundProof: the bound proof of the wallet and the
\* account is refreshed under the new nonce, and may be consumed again.
Prove(r) ==
  /\ At(r, "prove")
  /\ LET n == req[r].nonce
         a == req[r].address
         u == req[r].user
     IN  proofs' = IF proofs[n] # None THEN proofs
                   ELSE [m \in Nonces |->
                           IF m = n THEN [address |-> a, user |-> u, consumed |-> FALSE,
                                          fresh |-> TRUE]
                           ELSE IF m \in BoundTo(a, u) THEN None ELSE proofs[m]]
  /\ End(r)
  /\ UNCHANGED <<people, book, refresh, challenges, checks, handed, torn>>

\* RECOVERY_PROOF_MAX_AGE_SECONDS go by.
Age(n) ==
  /\ proofs[n] # None /\ proofs[n].fresh
  /\ proofs' = [proofs EXCEPT ![n].fresh = FALSE]
  /\ UNCHANGED <<people, book, refresh, challenges, checks, req, handed, torn>>

-------------------------------------------------------------------------------
(* Refreshing a wallet                                                     *)

Cooling(L, i) == L.startedAt[i] # None /\ L.startedAt[i] < Cooldown

\* Marks that expired are forgotten, except those of running refreshes.
Prune(L) == [L EXCEPT !.startedAt = [i \in Ids |->
               IF L.startedAt[i] # None /\ ~Cooling(L, i) /\ i \notin L.inFlight
               THEN None ELSE L.startedAt[i]]]

Admitted(L, i) ==
  /\ i \notin L.inFlight
  /\ ~Cooling(L, i)
  /\ Cardinality(L.inFlight) < MaxConcurrent

\* tryAcquire: single flight, cooldown and capacity, in one synchronous call.
\* The wallet may have been deleted since the ownership check.
Admit(r) ==
  /\ At(r, "admit")
  /\ LET L == Prune(limiter)
         i == Its(r)
     IN  IF Admitted(L, i)
         THEN /\ limiter' = [inFlight |-> L.inFlight \union {i},
                             startedAt |-> [L.startedAt EXCEPT ![i] = 0]]
              /\ sinceStart' = [sinceStart EXCEPT ![i] = 0]
              /\ Goto(r, "balances")
         ELSE limiter' = L /\ End(r) /\ UNCHANGED sinceStart
  /\ UNCHANGED <<people, book, auth, handed, torn>>

\* Mutant: giving the slot back forgets when the refresh began.
ReleaseForgets(r) ==
  limiter' = [inFlight |-> limiter.inFlight \ {Its(r)},
              startedAt |-> [limiter.startedAt EXCEPT ![Its(r)] = None]]

Release(r) == limiter' = [limiter EXCEPT !.inFlight = @ \ {Its(r)}]

\* Mutant: the slot is given back only by a refresh that succeeds.
BalancesKeepSlot(r) ==
  /\ At(r, "balances")
  /\ \/ Goto(r, "positions") /\ UNCHANGED limiter
     \/ End(r) /\ UNCHANGED limiter
  /\ UNCHANGED <<people, book, auth, sinceStart, handed, torn>>

\* Script 80: a failure fails the call, and gives the slot back.
Balances(r) ==
  /\ At(r, "balances")
  /\ \/ Goto(r, "positions") /\ UNCHANGED limiter
     \/ End(r) /\ Release(r)
  /\ UNCHANGED <<people, book, auth, sinceStart, handed, torn>>

\* Script 81, whose failure is not fatal.
Positions(r) ==
  /\ At(r, "positions")
  /\ End(r) /\ Release(r)
  /\ UNCHANGED <<people, book, auth, sinceStart, handed, torn>>

Older(age) == [i \in Ids |-> IF age[i] = None THEN None ELSE Min({age[i] + 1, Cooldown})]

Tick ==
  /\ \E i \in Ids : limiter.startedAt[i] # None \/ sinceStart[i] # None
  /\ limiter' = [limiter EXCEPT !.startedAt = Older(@)]
  /\ sinceStart' = Older(sinceStart)
  /\ UNCHANGED <<people, book, auth, req, handed, torn>>

-------------------------------------------------------------------------------
(* Failures                                                                *)

\* The database connection is lost before a statement; the call ends there.
Lose(r) ==
  /\ faults < mix.faults /\ faults' = faults + 1
  /\ req[r] # Free /\ req[r].op # "refresh"
  /\ torn' = IF req[r].op \in WalletOps THEN torn \union {req[r].user} ELSE torn
  /\ End(r)
  /\ UNCHANGED <<mix, accounts, book, auth, refresh, handed>>

\* The API restarts: every call is cut, and the limiter starts empty.
Restart ==
  /\ faults < mix.faults /\ faults' = faults + 1
  /\ torn' = torn \union {u \in accounts : Busy(u)}
  /\ req' = [r \in Requests |-> Free]
  /\ limiter' = NewLimiter /\ sinceStart' = [i \in Ids |-> None]
  /\ UNCHANGED <<mix, accounts, book, auth, handed>>

Statement(r) ==
  \/ Count(r) \/ Insert(r) \/ Revive(r) \/ Demote(r) \/ Promote(r) \/ Clear(r) \/ Crown(r)
  \/ Heir(r) \/ Enthrone(r) \/ SetActive(r) \/ Drop(r) \/ Consume(r) \/ Prove(r)
  \/ Admit(r) \/ Balances(r) \/ Positions(r) \/ Lose(r)

Arrive(r) ==
  \/ \E a \in Addresses : ConnectAnew(r, a) \/ CreateAnew(r, a)
  \/ \E u \in Users, a \in Addresses : Connect(r, u, a) \/ Create(r, u, a)
  \/ \E op \in {"primary", "signer", "pause", "activate", "delete", "refresh"}, i \in Ids :
       Manage(r, op, i)
  \/ \E n \in Nonces, u \in accounts \union {None}, good \in BOOLEAN : Verify(r, n, u, good)

Next ==
  \/ \E r \in Requests : Arrive(r) \/ Statement(r)
  \/ \E n \in Nonces, a \in Addresses : Issue(n, a)
  \/ \E n \in Nonces : Expire(n) \/ Age(n)
  \/ Tick \/ Restart

Spec == Init /\ [][Next]_vars

-------------------------------------------------------------------------------
(* Properties                                                              *)

\* The type of every variable (wallets.service.ts, campaign.repository.ts).
TypeOK ==
  /\ mix \in Mixes /\ accounts \subseteq Users /\ torn \subseteq accounts
  /\ rows \in [Ids -> RowType \union {None}]
  /\ \A i \in Ids : rows[i] # None => i \in created /\ rows[i].user \in accounts
  /\ created \subseteq Ids
  /\ challenges \in [Nonces -> ChallengeType \union {None}]
  /\ proofs \in [Nonces -> ProofType \union {None}]
  /\ req \in [Requests -> CallType \union {Free}]
  /\ limiter \in [inFlight : SUBSET Ids, startedAt : [Ids -> Nat \union {None}]]
  /\ sinceStart \in [Ids -> Nat \union {None}]
  /\ checks \in [Nonces -> Nat] /\ handed \in [Nonces -> Nat]
  /\ faults \in 0 .. mix.faults

\* A user whose calls never overlapped and were never cut short has exactly one
\* primary wallet between calls, and it is not paused (setPrimaryWallet,
\* setWalletActive, deleteWallet, createWalletForUser: two statements each).
PrimaryKept ==
  \A u \in accounts \ torn :
    ~Busy(u) /\ RowsOf(u) # {} =>
      /\ Cardinality({i \in RowsOf(u) : rows[i].primary}) = 1
      /\ \A i \in RowsOf(u) : rows[i].primary => rows[i].active

\* However the calls interleave, a user has at most one signer
\* (promoteToActiveSigner and the index user_wallets_one_signer_per_user).
OneSigner ==
  \A u \in Users : Cardinality({i \in RowsOf(u) : rows[i].signer}) <= 1

PausedSigner(i, R) == R[i] # None /\ R[i].signer /\ ~R[i].active

\* A signer is paused only by a pause of that very wallet, whatever runs beside it:
\* promoting, crowning and inheriting leave every signer active.
PausedOnlyByPause ==
  [][\A i \in Ids :
       ~PausedSigner(i, rows) /\ PausedSigner(i, rows')
         => \E r \in Requests : /\ At(r, "setactive") /\ req[r].op = "pause"
                                /\ Its(r) = i]_vars

\* A nonce is checked against one signature at most: a failed check burns it too,
\* and refreshing a bound proof does not free it (consumeChallenge).
NonceCheckedOnce == \A n \in Nonces : checks[n] <= 1

\* An account is handed to a caller without a session only for a proof of that very
\* address, which no other caller gets one for; and while the account's own calls do
\* not overlap, only where the address signs (connectWallet, consumeUnboundProof).
RecoveredByOwner ==
  [][\A n \in Nonces : handed'[n] # handed[n] =>
       /\ handed[n] = 0 /\ checks[n] = 1
       /\ \E r \in Requests :
            /\ At(r, "promote") /\ req[r].op = "recover" /\ req[r].nonce = n
            /\ challenges[n].address = rows[Its(r)].address
            /\ req[r].user \notin torn => rows[Its(r)].signer]_vars

\* A call without a session that finds a fresh unbound proof of a signer address
\* recovers the account: the proof is bound to it.
FreshProofRecovers ==
  [][\A r \in Requests :
       At(r, "consume") /\ FreshUnbound(req[r].address) # {} /\ req'[r] = Free
         => faults' # faults]_vars

\* The slots held are those of the refreshes that run, one per wallet and within the
\* capacity: no failure, deletion or restart leaks a slot or frees one twice.
SlotsMatchRefreshes ==
  LET running == {r \in Requests : At(r, "balances") \/ At(r, "positions")}
  IN  /\ limiter.inFlight = {Its(r) : r \in running}
      /\ Cardinality(limiter.inFlight) = Cardinality(running)
      /\ Cardinality(running) <= MaxConcurrent

\* A wallet's refreshes begin at least a cooldown apart, also when the mark of the
\* last one was pruned or another one still runs (RefreshLimiter).
RefreshesSpaced ==
  [][\A r \in Requests :
       At(r, "admit") /\ At(r, "balances")' /\ sinceStart[Its(r)] # None
         => sinceStart[Its(r)] >= Cooldown]_vars

===============================================================================
