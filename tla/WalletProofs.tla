---------------------------- MODULE WalletProofs ----------------------------
(***************************************************************************)
(* Proofs about the wallets, for every set of users, addresses, rows,      *)
(* nonces and calls in progress, every starting book that keeps its rules, *)
(* and every capacity and cooldown of the refresh limiter.                 *)
(***************************************************************************)
EXTENDS WalletBook, FiniteSetTheorems, TLAPS

(***************************************************************************)
(* What a call knows while it is between two statements.  A row of the     *)
(* book never changes its user or address, and an id is never used twice,  *)
(* so what the call read of its wallet stays true as long as the wallet is *)
(* there.                                                                  *)
(***************************************************************************)

Pcs == {"count", "insert", "revive", "demote", "promote", "clear", "crown", "heir", "enthrone",
        "setactive", "drop", "consume", "prove", "admit", "balances", "positions"}
Slots == {"admit", "balances", "positions"}
Rowed == Pcs \ {"count", "insert", "prove"}

\* Which statements a call of each kind goes through.
Placed(q) ==
  /\ q.pc = "prove" <=> q.op = "verify"
  /\ q.pc \in Slots <=> q.op = "refresh"
  /\ q.pc = "consume" => q.op = "recover"
  /\ q.pc \in {"count", "insert"} => q.op \in {"connect", "fork", "create"}
  /\ q.pc = "revive" => q.op = "create"
  /\ q.pc \in {"demote", "promote"} => q.op \in {"connect", "fork", "recover", "signer"}
  /\ q.pc \in {"clear", "crown"} => q.op = "primary"
  /\ q.pc \in {"heir", "enthrone"} => q.op \in {"pause", "delete"}
  /\ q.pc = "setactive" => q.op \in {"activate", "pause"}
  /\ q.pc = "drop" => q.op = "delete"
  /\ q.pc \in Rowed => q.row \in Ids
  /\ q.pc = "enthrone" => q.heir \in Ids
  /\ q.pc = "prove" => q.nonce \in Nonces
  /\ q.pc \in {"count", "insert", "prove", "consume"} => q.address \in Addresses

\* The rows it holds are its user's; A are the accounts, C the ids handed out, R the rows.
Knows(q, A, C, R) ==
  /\ q.op \in WalletOps => q.user \in A
  /\ q.row \in Ids => q.row \in C /\ (R[q.row] # None => /\ R[q.row].user = q.user
                                                        /\ R[q.row].address = q.address)
  /\ q.heir \in Ids => q.heir \in C /\ (R[q.heir] # None => R[q.heir].user = q.user)

Calls(Q, A, C, R) == \A r \in Requests : Q[r] # Free => Placed(Q[r]) /\ Knows(Q[r], A, C, R)

\* The rows of S are rows of R, with the user and the address they had.
Keeps(R, S, C) ==
  \A i \in C : S[i] # None => R[i] # None /\ S[i].user = R[i].user /\ S[i].address = R[i].address

TypeInv == TypeOK /\ Calls(req, accounts, created, rows)

-----------------------------------------------------------------------------
(* Facts about the calls.                                                  *)

LEMMA CallsStep ==
  ASSUME NEW Q, NEW Q2, NEW A, NEW A2, NEW C, NEW C2, NEW R, NEW R2, NEW r \in Requests,
         Calls(Q, A, C, R), A \subseteq A2, C \subseteq C2, Keeps(R, R2, C),
         \A s \in Requests \ {r} : Q2[s] = Q[s],
         Q2[r] # Free => Placed(Q2[r]) /\ Knows(Q2[r], A2, C2, R2)
  PROVE  Calls(Q2, A2, C2, R2)
  <1> SUFFICES ASSUME NEW s \in Requests, s # r, Q2[s] # Free
               PROVE  Placed(Q2[s]) /\ Knows(Q2[s], A2, C2, R2)
    BY DEF Calls
  <1>1. Q2[s] = Q[s] /\ Placed(Q[s]) /\ Knows(Q[s], A, C, R)
    BY DEF Calls
  <1>2. Knows(Q[s], A2, C2, R2)
    BY <1>1 DEF Knows, Keeps
  <1> QED BY <1>1, <1>2

LEMMA KeepsAll == \A C : Keeps(rows, rows, C)
  BY DEF Keeps

\* A call with these fields.
Fields(n, op, u, a, row, heir, primary, nonce, pc) ==
  /\ n \in CallType /\ n.op = op /\ n.user = u /\ n.address = a /\ n.row = row
  /\ n.heir = heir /\ n.primary = primary /\ n.nonce = nonce /\ n.pc = pc

LEMMA CallRecord ==
  ASSUME NEW op \in WalletOps \union {"verify", "refresh"}, NEW u \in Users \union {None},
         NEW a \in Addresses \union {None}, NEW pc \in Pcs
  PROVE  /\ Fields(Call(op, u, a, pc), op, u, a, None, None, FALSE, None, pc)
         /\ \A i \in Ids : Fields([Call(op, u, a, pc) EXCEPT !.row = i],
                                  op, u, a, i, None, FALSE, None, pc)
         /\ Fields([Call(op, u, a, pc) EXCEPT !.primary = TRUE],
                   op, u, a, None, None, TRUE, None, pc)
         /\ \A n \in Nonces : Fields([Call(op, u, a, pc) EXCEPT !.nonce = n],
                                     op, u, a, None, None, FALSE, n, pc)
  <1> USE DEF Call, CallType, Pcs, Fields
  <1>1. Fields(Call(op, u, a, pc), op, u, a, None, None, FALSE, None, pc)
    OBVIOUS
  <1>2. \A i \in Ids : Fields([Call(op, u, a, pc) EXCEPT !.row = i],
                              op, u, a, i, None, FALSE, None, pc)
    OBVIOUS
  <1>3. Fields([Call(op, u, a, pc) EXCEPT !.primary = TRUE],
               op, u, a, None, None, TRUE, None, pc)
    OBVIOUS
  <1>4. \A n \in Nonces : Fields([Call(op, u, a, pc) EXCEPT !.nonce = n],
                                 op, u, a, None, None, FALSE, n, pc)
    OBVIOUS
  <1> QED BY <1>1, <1>2, <1>3, <1>4

LEMMA CallWith ==
  ASSUME NEW q \in CallType
  PROVE  /\ \A v \in Pcs : Fields([q EXCEPT !.pc = v],
                q.op, q.user, q.address, q.row, q.heir, q.primary, q.nonce, v)
         /\ \A v \in Ids : Fields([q EXCEPT !.row = v],
                q.op, q.user, q.address, v, q.heir, q.primary, q.nonce, q.pc)
         /\ \A v \in Ids : Fields([q EXCEPT !.heir = v],
                q.op, q.user, q.address, q.row, v, q.primary, q.nonce, q.pc)
         /\ \A v \in Nonces : Fields([q EXCEPT !.nonce = v],
                q.op, q.user, q.address, q.row, q.heir, q.primary, v, q.pc)
         /\ \A v \in BOOLEAN : Fields([q EXCEPT !.primary = v],
                q.op, q.user, q.address, q.row, q.heir, v, q.nonce, q.pc)
  BY DEF CallType, Pcs, Fields

LEMMA CallFields ==
  ASSUME TypeInv, NEW r \in Requests, req[r] # Free
  PROVE  /\ req[r] \in CallType /\ Placed(req[r]) /\ Knows(req[r], accounts, created, rows)
         /\ req[r].op \in WalletOps \union {"verify", "refresh"} /\ req[r].pc \in Pcs
         /\ req[r].primary \in BOOLEAN
  BY DEF TypeInv, TypeOK, Calls, CallType, Pcs

\* A call goes on with the fields of n, or ends.
LEMMA Update ==
  ASSUME TypeInv, NEW r \in Requests, NEW n \in CallType \union {Free},
         req' = [req EXCEPT ![r] = n]
  PROVE  /\ req' \in [Requests -> CallType \union {Free}] /\ req'[r] = n
         /\ \A s \in Requests \ {r} : req'[s] = req[s]
  BY DEF TypeInv, TypeOK

-----------------------------------------------------------------------------
(* A call begins.                                                          *)

Entry(r, call) ==
  /\ Begin(r, call) /\ call \in CallType /\ Placed(call) /\ Knows(call, accounts', created, rows)
  /\ accounts \subseteq accounts' /\ accounts' \subseteq Users
  /\ UNCHANGED <<mix, book, auth, refresh, handed, faults>>
  /\ call.nonce = None /\ call.heir = None
  /\ call.pc \in {"count", "insert", "revive", "demote", "clear", "heir", "setactive", "drop",
                  "consume", "admit"}
  /\ call.row \in Ids => rows[call.row] # None
  /\ call.pc = "insert" => call.primary /\ call.user \notin accounts
  /\ call.op = "recover" => rows[call.row].signer
  /\ call.pc = "heir" => rows[call.row].primary
  /\ call.pc # "heir" /\ call.op \in {"pause", "delete"} => ~rows[call.row].primary

LEMMA EntryConnect ==
  ASSUME TypeInv, NEW r \in Requests, NEW u \in Users, NEW a \in Addresses,
         Connect(r, u, a) \/ Create(r, u, a)
  PROVE  \E call : Entry(r, call)
  <1> USE WalletAssumption
  <1>1. u \in accounts /\ UNCHANGED <<people, book, auth, refresh, handed>>
    BY DEF Connect, Create
  <1>2. ASSUME NEW i \in Tracked(u, a), NEW op \in {"connect", "create"}, NEW pc \in {"demote", "revive"},
               pc = "demote" <=> op = "connect",
               Begin(r, [Call(op, u, a, pc) EXCEPT !.row = i])
        PROVE  \E call : Entry(r, call)
    <2> DEFINE n == [Call(op, u, a, pc) EXCEPT !.row = i]
    <2>1. i \in Ids /\ i \in created /\ rows[i] # None /\ rows[i].user = u /\ rows[i].address = a
      BY DEF Tracked, RowsOf, TypeInv, TypeOK
    <2>2. Fields(n, op, u, a, i, None, FALSE, None, pc)
      <3>1. op \in WalletOps \union {"verify", "refresh"} /\ pc \in Pcs /\ i \in Ids
        BY <2>1 DEF WalletOps, Pcs
      <3> QED BY <3>1, CallRecord
    <2>3. Begin(r, n)
      BY <1>2
    <2> HIDE DEF n
    <2>4. Placed(n) /\ Knows(n, accounts, created, rows)
      BY <1>1, <1>2, <2>1, <2>2 DEF Fields, Placed, Knows, Rowed, Pcs, Slots
    <2>5. Entry(r, n)
      BY <1>1, <1>2, <2>1, <2>2, <2>3, <2>4 DEF Entry, Fields, people, TypeInv, TypeOK
    <2> QED BY <2>5
  <1>3. ASSUME NEW op \in {"connect", "create"}, Begin(r, Call(op, u, a, "count"))
        PROVE  \E call : Entry(r, call)
    <2> DEFINE n == Call(op, u, a, "count")
    <2>1. Fields(n, op, u, a, None, None, FALSE, None, "count")
      BY CallRecord DEF WalletOps, Pcs
    <2>2. Begin(r, n)
      BY <1>3
    <2> HIDE DEF n
    <2>3. Placed(n) /\ Knows(n, accounts, created, rows)
      BY <1>1, <2>1 DEF Fields, Placed, Knows, Rowed, Pcs, Slots
    <2>4. Entry(r, n)
      BY <1>1, <2>1, <2>2, <2>3 DEF Entry, Fields, people, TypeInv, TypeOK
    <2> QED BY <2>4
  <1> QED BY <1>2, <1>3 DEF Connect, Create

LEMMA EntryAnew ==
  ASSUME TypeInv, NEW r \in Requests, NEW a \in Addresses,
         ConnectAnew(r, a) \/ CreateAnew(r, a)
  PROVE  \E call : Entry(r, call)
  <1> USE WalletAssumption
  <1>1. UNCHANGED <<mix, book, auth, refresh, handed, faults>>
    BY DEF ConnectAnew, CreateAnew
  <1>2. ASSUME NEW i \in SignersAt(a), UNCHANGED accounts,
               Begin(r, [Call("recover", rows[i].user, a, "consume") EXCEPT !.row = i])
        PROVE  \E call : Entry(r, call)
    <2> DEFINE u == rows[i].user
               n == [Call("recover", u, a, "consume") EXCEPT !.row = i]
    <2>1. /\ i \in Ids /\ i \in created /\ rows[i] # None /\ rows[i].address = a
          /\ rows[i].signer /\ u \in accounts /\ u \in Users
      BY DEF SignersAt, TypeInv, TypeOK
    <2>2. Fields(n, "recover", u, a, i, None, FALSE, None, "consume")
      BY <2>1, CallRecord DEF WalletOps, Pcs
    <2>3. Begin(r, n)
      BY <1>2
    <2> HIDE DEF n
    <2>4. Placed(n) /\ Knows(n, accounts, created, rows)
      BY <2>1, <2>2 DEF Fields, Placed, Knows, Rowed, Pcs, Slots
    <2>5. Entry(r, n)
      BY <1>1, <1>2, <2>1, <2>2, <2>3, <2>4 DEF Entry, Fields, TypeInv, TypeOK
    <2> QED BY <2>5
  <1>3. ASSUME NEW u \in Users, Mint(u), NEW op \in {"fork", "create"},
               Begin(r, [Call(op, u, a, "insert") EXCEPT !.primary = TRUE])
        PROVE  \E call : Entry(r, call)
    <2> DEFINE n == [Call(op, u, a, "insert") EXCEPT !.primary = TRUE]
    <2>1. Fields(n, op, u, a, None, None, TRUE, None, "insert")
      BY CallRecord DEF WalletOps, Pcs
    <2>2. u \notin accounts /\ accounts' = accounts \union {u} /\ accounts \subseteq Users
      BY <1>3 DEF Mint, TypeInv, TypeOK
    <2>3. Begin(r, n)
      BY <1>3
    <2> HIDE DEF n
    <2>4. Placed(n) /\ Knows(n, accounts', created, rows)
      BY <2>1, <2>2 DEF Fields, Placed, Knows, Rowed, Pcs, Slots
    <2>5. Entry(r, n)
      BY <1>1, <2>1, <2>2, <2>3, <2>4 DEF Entry, Fields
    <2> QED BY <2>5
  <1> QED BY <1>2, <1>3 DEF ConnectAnew, CreateAnew

LEMMA EntryManage ==
  ASSUME TypeInv, NEW r \in Requests, NEW i \in Ids,
         NEW op \in {"primary", "signer", "pause", "activate", "delete", "refresh"},
         Manage(r, op, i)
  PROVE  \E call : Entry(r, call)
  <1> USE WalletAssumption
  <1> DEFINE u == rows[i].user
             a == rows[i].address
             pc == FirstStep(op, rows[i])
             n == [Call(op, u, a, pc) EXCEPT !.row = i]
  <1>1. /\ i \in created /\ rows[i] # None /\ u \in accounts /\ u \in Users /\ a \in Addresses
        /\ accounts \subseteq Users
    BY DEF Manage, TypeInv, TypeOK, RowType
  <1>2. /\ op = "primary" => pc = "clear"
        /\ op = "signer" => pc = "demote"
        /\ op = "activate" => pc = "setactive"
        /\ op = "refresh" => pc = "admit"
        /\ op = "pause" => pc = IF rows[i].primary THEN "heir" ELSE "setactive"
        /\ op = "delete" => pc = IF rows[i].primary THEN "heir" ELSE "drop"
    BY DEF FirstStep
  <1>3. pc \in Pcs /\ op \in WalletOps \union {"verify", "refresh"}
    BY <1>2 DEF Pcs, WalletOps
  <1>4. Fields(n, op, u, a, i, None, FALSE, None, pc)
    BY <1>1, <1>3, CallRecord
  <1>5. Begin(r, n) /\ UNCHANGED <<people, book, auth, refresh, handed>>
    BY DEF Manage
  <1> HIDE DEF n
  <1>6. Placed(n)
    BY <1>2, <1>4 DEF Fields, Placed, Rowed, Pcs, Slots
  <1>7. Knows(n, accounts, created, rows)
    BY <1>1, <1>4 DEF Fields, Knows, WalletOps
  <1>8. Entry(r, n)
    BY <1>1, <1>2, <1>4, <1>5, <1>6, <1>7 DEF Entry, Fields, people
  <1> QED BY <1>8

-----------------------------------------------------------------------------
(* Type correctness, in parts.                                             *)

BookType ==
  /\ mix \in Mixes /\ accounts \subseteq Users /\ torn \subseteq accounts
  /\ rows \in [Ids -> RowType \union {None}]
  /\ \A i \in Ids : rows[i] # None => i \in created /\ rows[i].user \in accounts
  /\ created \subseteq Ids /\ faults \in 0 .. mix.faults
AuthType ==
  /\ challenges \in [Nonces -> ChallengeType \union {None}]
  /\ proofs \in [Nonces -> ProofType \union {None}]
  /\ checks \in [Nonces -> Nat] /\ handed \in [Nonces -> Nat]
LimiterType ==
  /\ limiter \in [inFlight : SUBSET Ids, startedAt : [Ids -> Nat \union {None}]]
  /\ sinceStart \in [Ids -> Nat \union {None}]

LEMMA TypeParts == TypeInv => BookType /\ AuthType /\ LimiterType
  BY DEF TypeInv, TypeOK, BookType, AuthType, LimiterType

\* A call takes a step or ends.
LEMMA TypeStep ==
  ASSUME TypeInv, NEW r \in Requests, NEW n \in CallType \union {Free},
         req' = [req EXCEPT ![r] = n],
         BookType', AuthType', LimiterType', accounts' = accounts, created \subseteq created',
         Keeps(rows, rows', created),
         n # Free => Placed(n) /\ Knows(n, accounts, created', rows')
  PROVE  TypeInv'
  <1>1. /\ req' \in [Requests -> CallType \union {Free}] /\ req'[r] = n
        /\ \A s \in Requests \ {r} : req'[s] = req[s]
    BY Update
  <1>2. Calls(req', accounts', created', rows')
    <2>1. Calls(req, accounts, created, rows)
      BY DEF TypeInv
    <2> QED BY <1>1, <2>1, CallsStep
  <1>3. TypeOK'
    BY <1>1 DEF TypeOK, BookType, AuthType, LimiterType
  <1> QED BY <1>2, <1>3 DEF TypeInv

LEMMA TypeEntry ==
  ASSUME TypeInv, NEW r \in Requests, NEW call, Entry(r, call)
  PROVE  TypeInv'
  <1>1. /\ req' = [req EXCEPT ![r] = call] /\ call \in CallType
        /\ UNCHANGED <<mix, book, auth, refresh, handed, faults>>
    BY DEF Entry, Begin
  <1>2. torn' \subseteq accounts'
    <2>1. call.op \in WalletOps => call.user \in accounts'
      BY DEF Entry, Knows
    <2> QED BY <2>1 DEF Entry, Begin, TypeInv, TypeOK
  <1>3. /\ req' \in [Requests -> CallType \union {Free}] /\ req'[r] = call
        /\ \A s \in Requests \ {r} : req'[s] = req[s]
    BY <1>1, Update
  <1>4. Calls(req', accounts', created', rows')
    <2>1. Calls(req, accounts, created, rows) /\ accounts \subseteq accounts'
          /\ created' = created /\ rows' = rows
      BY <1>1 DEF TypeInv, Entry, book
    <2>2. Placed(call) /\ Knows(call, accounts', created', rows')
      BY <2>1 DEF Entry
    <2> QED BY <1>3, <2>1, <2>2, KeepsAll, CallsStep
  <1>5. TypeOK'
    BY <1>1, <1>2, <1>3 DEF TypeInv, TypeOK, Entry, book, auth, refresh
  <1> QED BY <1>4, <1>5 DEF TypeInv

LEMMA RowFields ==
  ASSUME BookType, NEW i \in Ids, rows[i] # None
  PROVE  /\ rows[i] \in RowType /\ rows[i].user \in Users /\ rows[i].address \in Addresses
         /\ rows[i].primary \in BOOLEAN /\ rows[i].active \in BOOLEAN
         /\ rows[i].signer \in BOOLEAN /\ i \in created /\ rows[i].user \in accounts
  BY DEF BookType, RowType

\* One row changes its flags and nothing else.
Effect(t, primary, active, signer) ==
  /\ rows[t] # None /\ rows'[t] # None
  /\ rows' \in [Ids -> RowType \union {None}] /\ Keeps(rows, rows', Ids)
  /\ rows'[t].primary = primary /\ rows'[t].active = active /\ rows'[t].signer = signer
  /\ \A i \in Ids \ {t} : rows'[i] = rows[i]

LEMMA Reflag ==
  ASSUME BookType, NEW t \in Ids, rows[t] # None, NEW row \in RowType,
         row.user = rows[t].user, row.address = rows[t].address,
         rows' = [rows EXCEPT ![t] = row]
  PROVE  Effect(t, row.primary, row.active, row.signer)
  <1>1. rows' \in [Ids -> RowType \union {None}] /\ rows'[t] = row
        /\ \A i \in Ids \ {t} : rows'[i] = rows[i]
    BY DEF BookType
  <1>2. row # None
    BY WalletAssumption
  <1> QED BY <1>1, <1>2 DEF Effect, Keeps

LEMMA ReflagOne ==
  ASSUME BookType, NEW t \in Ids, rows[t] # None
  PROVE  /\ rows' = [rows EXCEPT ![t].active = TRUE]
              => Effect(t, rows[t].primary, TRUE, rows[t].signer)
         /\ rows' = [rows EXCEPT ![t].primary = TRUE]
              => Effect(t, TRUE, rows[t].active, rows[t].signer)
         /\ rows' = [rows EXCEPT ![t].signer = TRUE, ![t].active = TRUE]
              => Effect(t, rows[t].primary, TRUE, TRUE)
         /\ rows' = [rows EXCEPT ![t].primary = TRUE, ![t].active = TRUE]
              => Effect(t, TRUE, TRUE, rows[t].signer)
         /\ rows' = [rows EXCEPT ![t].active = FALSE, ![t].primary = FALSE]
              => Effect(t, FALSE, FALSE, rows[t].signer)
  <1> DEFINE q == rows[t]
  <1>1. q \in RowType /\ rows \in [Ids -> RowType \union {None}]
    BY RowFields DEF BookType
  <1>2. ASSUME rows' = [rows EXCEPT ![t].active = TRUE]
        PROVE  Effect(t, q.primary, TRUE, q.signer)
    <2> DEFINE n == [q EXCEPT !.active = TRUE]
    <2>1. rows' = [rows EXCEPT ![t] = n]
      BY <1>1, <1>2
    <2>2. /\ n \in RowType /\ n.user = q.user /\ n.address = q.address
          /\ n.primary = q.primary /\ n.active = TRUE /\ n.signer = q.signer
      BY <1>1 DEF RowType
    <2> HIDE DEF n
    <2> QED BY <2>1, <2>2, Reflag
  <1>3. ASSUME rows' = [rows EXCEPT ![t].primary = TRUE]
        PROVE  Effect(t, TRUE, q.active, q.signer)
    <2> DEFINE n == [q EXCEPT !.primary = TRUE]
    <2>1. rows' = [rows EXCEPT ![t] = n]
      BY <1>1, <1>3
    <2>2. /\ n \in RowType /\ n.user = q.user /\ n.address = q.address
          /\ n.primary = TRUE /\ n.active = q.active /\ n.signer = q.signer
      BY <1>1 DEF RowType
    <2> HIDE DEF n
    <2> QED BY <2>1, <2>2, Reflag
  <1>4. ASSUME rows' = [rows EXCEPT ![t].signer = TRUE, ![t].active = TRUE]
        PROVE  Effect(t, q.primary, TRUE, TRUE)
    <2> DEFINE n == [[q EXCEPT !.signer = TRUE] EXCEPT !.active = TRUE]
    <2>1. rows' = [rows EXCEPT ![t] = n]
      BY <1>1, <1>4
    <2>2. /\ n \in RowType /\ n.user = q.user /\ n.address = q.address
          /\ n.primary = q.primary /\ n.active = TRUE /\ n.signer = TRUE
      BY <1>1 DEF RowType
    <2> HIDE DEF n
    <2> QED BY <2>1, <2>2, Reflag
  <1>5. ASSUME rows' = [rows EXCEPT ![t].primary = TRUE, ![t].active = TRUE]
        PROVE  Effect(t, TRUE, TRUE, q.signer)
    <2> DEFINE n == [[q EXCEPT !.primary = TRUE] EXCEPT !.active = TRUE]
    <2>1. rows' = [rows EXCEPT ![t] = n]
      BY <1>1, <1>5
    <2>2. /\ n \in RowType /\ n.user = q.user /\ n.address = q.address
          /\ n.primary = TRUE /\ n.active = TRUE /\ n.signer = q.signer
      BY <1>1 DEF RowType
    <2> HIDE DEF n
    <2> QED BY <2>1, <2>2, Reflag
  <1>6. ASSUME rows' = [rows EXCEPT ![t].active = FALSE, ![t].primary = FALSE]
        PROVE  Effect(t, FALSE, FALSE, q.signer)
    <2> DEFINE n == [[q EXCEPT !.active = FALSE] EXCEPT !.primary = FALSE]
    <2>1. rows' = [rows EXCEPT ![t] = n]
      BY <1>1, <1>6
    <2>2. /\ n \in RowType /\ n.user = q.user /\ n.address = q.address
          /\ n.primary = FALSE /\ n.active = FALSE /\ n.signer = q.signer
      BY <1>1 DEF RowType
    <2> HIDE DEF n
    <2> QED BY <2>1, <2>2, Reflag
  <1> QED BY <1>2, <1>3, <1>4, <1>5, <1>6

(***************************************************************************)
(* What the statements do to the rows.                                     *)
(***************************************************************************)

LEMMA DemoteRows ==
  ASSUME TypeInv, NEW r \in Requests, Demote(r)
  PROVE  /\ rows' \in [Ids -> RowType \union {None}] /\ Keeps(rows, rows', Ids)
         /\ \A i \in Ids : rows[i] # None =>
              /\ rows'[i] # None /\ rows'[i].primary = rows[i].primary
              /\ rows'[i].active = rows[i].active
              /\ rows'[i].signer = IF i \in Mine(r) \ {Its(r)} THEN FALSE ELSE rows[i].signer
  <1>1. \A i \in Ids : rows'[i] = IF i \in Mine(r) \ {Its(r)} THEN [rows[i] EXCEPT !.signer = FALSE]
                                                             ELSE rows[i]
    BY DEF Demote
  <1>2. ASSUME NEW i \in Ids
        PROVE  /\ rows'[i] \in RowType \union {None}
               /\ rows'[i] # None => /\ rows[i] # None /\ rows'[i].user = rows[i].user
                                     /\ rows'[i].address = rows[i].address
               /\ rows[i] # None =>
                    /\ rows'[i] # None /\ rows'[i].primary = rows[i].primary
                    /\ rows'[i].active = rows[i].active
                    /\ rows'[i].signer = IF i \in Mine(r) \ {Its(r)} THEN FALSE ELSE rows[i].signer
    <2>1. CASE i \in Mine(r) \ {Its(r)}
      <3>1. rows[i] # None /\ rows'[i] = [rows[i] EXCEPT !.signer = FALSE]
        BY <1>1, <2>1 DEF Mine, RowsOf
      <3>2. rows[i] \in RowType
        BY <3>1, RowFields, TypeParts
      <3> QED BY <2>1, <3>1, <3>2, WalletAssumption DEF RowType
    <2>2. CASE i \notin Mine(r) \ {Its(r)}
      <3>1. rows'[i] = rows[i] /\ rows[i] \in RowType \union {None}
        BY <1>1, <2>2, TypeParts DEF BookType
      <3> QED BY <2>2, <3>1
    <2> QED BY <2>1, <2>2
  <1>3. rows' = [i \in Ids |-> rows'[i]]
    BY DEF Demote
  <1> QED BY <1>2, <1>3 DEF Keeps

LEMMA ClearRows ==
  ASSUME TypeInv, NEW r \in Requests, Clear(r)
  PROVE  /\ rows' \in [Ids -> RowType \union {None}] /\ Keeps(rows, rows', Ids)
         /\ \A i \in Ids : rows[i] # None =>
              /\ rows'[i] # None /\ rows'[i].signer = rows[i].signer
              /\ rows'[i].active = rows[i].active
              /\ rows'[i].primary = IF i \in Mine(r) THEN FALSE ELSE rows[i].primary
  <1>1. \A i \in Ids : rows'[i] = IF i \in Mine(r) THEN [rows[i] EXCEPT !.primary = FALSE]
                                                  ELSE rows[i]
    BY DEF Clear
  <1>2. ASSUME NEW i \in Ids
        PROVE  /\ rows'[i] \in RowType \union {None}
               /\ rows'[i] # None => /\ rows[i] # None /\ rows'[i].user = rows[i].user
                                     /\ rows'[i].address = rows[i].address
               /\ rows[i] # None =>
                    /\ rows'[i] # None /\ rows'[i].signer = rows[i].signer
                    /\ rows'[i].active = rows[i].active
                    /\ rows'[i].primary = IF i \in Mine(r) THEN FALSE ELSE rows[i].primary
    <2>1. CASE i \in Mine(r)
      <3>1. rows[i] # None /\ rows'[i] = [rows[i] EXCEPT !.primary = FALSE]
        BY <1>1, <2>1 DEF Mine, RowsOf
      <3>2. rows[i] \in RowType
        BY <3>1, RowFields, TypeParts
      <3> QED BY <2>1, <3>1, <3>2, WalletAssumption DEF RowType
    <2>2. CASE i \notin Mine(r)
      <3>1. rows'[i] = rows[i] /\ rows[i] \in RowType \union {None}
        BY <1>1, <2>2, TypeParts DEF BookType
      <3> QED BY <2>2, <3>1
    <2> QED BY <2>1, <2>2
  <1>3. rows' = [i \in Ids |-> rows'[i]]
    BY DEF Clear
  <1> QED BY <1>2, <1>3 DEF Keeps

\* The call at the row it holds: the row is there and its user's, or it is gone.
LEMMA ItsRow ==
  ASSUME TypeInv, NEW r \in Requests, req[r] # Free, req[r].pc \in Rowed
  PROVE  /\ Its(r) \in Ids /\ Its(r) \in created
         /\ Exists(Its(r), req[r].user) <=> rows[Its(r)] # None
         /\ rows[Its(r)] # None => rows[Its(r)].user = req[r].user
         /\ rows[Its(r)] # None => rows[Its(r)].address = req[r].address
  BY CallFields DEF Placed, Knows, Its, Exists, RowsOf

LEMMA OneRow ==
  ASSUME TypeInv, NEW r \in Requests
  PROVE  /\ Revive(r) => rows' = rows \/ Effect(Its(r), rows[Its(r)].primary, TRUE, rows[Its(r)].signer)
         /\ Promote(r) =>
              \/ rows' = rows
              \/ /\ Effect(Its(r), rows[Its(r)].primary, TRUE, TRUE)
                 /\ ~ \E i \in Mine(r) \ {Its(r)} : rows[i].signer
         /\ Crown(r) => \/ rows' = rows /\ rows[Its(r)] = None
                        \/ Effect(Its(r), TRUE, TRUE, rows[Its(r)].signer)
         /\ Enthrone(r) => \/ rows' = rows /\ rows[req[r].heir] = None
                           \/ Effect(req[r].heir, TRUE, rows[req[r].heir].active,
                                     rows[req[r].heir].signer)
         /\ SetActive(r) =>
              \/ rows' = rows /\ rows[Its(r)] = None
              \/ req[r].op = "pause" /\ Effect(Its(r), FALSE, FALSE, rows[Its(r)].signer)
              \/ req[r].op # "pause" /\ Effect(Its(r), rows[Its(r)].primary, TRUE,
                                               rows[Its(r)].signer)
  <1>1. BookType
    BY TypeParts
  <1>2. ASSUME Revive(r)
        PROVE  rows' = rows \/ Effect(Its(r), rows[Its(r)].primary, TRUE, rows[Its(r)].signer)
    BY <1>1, <1>2, ItsRow, ReflagOne DEF Revive, At, Rowed, Pcs
  <1>3. ASSUME Promote(r)
        PROVE  \/ rows' = rows
               \/ /\ Effect(Its(r), rows[Its(r)].primary, TRUE, TRUE)
                  /\ ~ \E i \in Mine(r) \ {Its(r)} : rows[i].signer
    BY <1>1, <1>3, ItsRow, ReflagOne DEF Promote, At, Rowed, Pcs
  <1>4. ASSUME Crown(r)
        PROVE  \/ rows' = rows /\ rows[Its(r)] = None
               \/ Effect(Its(r), TRUE, TRUE, rows[Its(r)].signer)
    BY <1>1, <1>4, ItsRow, ReflagOne DEF Crown, At, Rowed, Pcs
  <1>5. ASSUME Enthrone(r)
        PROVE  \/ rows' = rows /\ rows[req[r].heir] = None
               \/ Effect(req[r].heir, TRUE, rows[req[r].heir].active, rows[req[r].heir].signer)
    BY <1>1, <1>5, CallFields, ReflagOne DEF Enthrone, At, Placed
  <1>6. ASSUME SetActive(r)
        PROVE  \/ rows' = rows /\ rows[Its(r)] = None
               \/ req[r].op = "pause" /\ Effect(Its(r), FALSE, FALSE, rows[Its(r)].signer)
               \/ req[r].op # "pause" /\ Effect(Its(r), rows[Its(r)].primary, TRUE,
                                                rows[Its(r)].signer)
    BY <1>1, <1>6, ItsRow, ReflagOne DEF SetActive, At, Rowed, Pcs
  <1> QED BY <1>2, <1>3, <1>4, <1>5, <1>6

LEMMA DropRows ==
  ASSUME TypeInv, NEW r \in Requests, Drop(r)
  PROVE  /\ rows' \in [Ids -> RowType \union {None}] /\ Keeps(rows, rows', Ids)
         /\ rows'[Its(r)] = None /\ \A i \in Ids \ {Its(r)} : rows'[i] = rows[i]
  BY ItsRow, TypeParts DEF Drop, At, Rowed, Pcs, BookType, Keeps

\* A statement that hands out no id and starts or ends no call.
LEMMA TypeOn ==
  ASSUME TypeInv, NEW r \in Requests, req[r] # Free, NEW n \in CallType,
         req' = [req EXCEPT ![r] = n], n.op = req[r].op, n.user = req[r].user,
         n.address = req[r].address, n.row = req[r].row, n.heir = req[r].heir, Placed(n),
         rows' \in [Ids -> RowType \union {None}], Keeps(rows, rows', Ids),
         UNCHANGED <<people, created, torn>>, AuthType', LimiterType'
  PROVE  TypeInv'
  <1>1. BookType' /\ Keeps(rows, rows', created)
    BY TypeParts DEF BookType, Keeps, people
  <1>2. Knows(n, accounts, created', rows')
    <2>1. Knows(req[r], accounts, created, rows) /\ created' = created
      BY CallFields
    <2> QED BY <1>1, <2>1 DEF Knows, Keeps
  <1> QED BY <1>1, <1>2, TypeStep DEF people

LEMMA TypeEnd ==
  ASSUME TypeInv, NEW r \in Requests, End(r),
         rows' \in [Ids -> RowType \union {None}], Keeps(rows, rows', Ids),
         UNCHANGED <<mix, accounts, created>>, torn' \subseteq accounts,
         faults' \in 0..mix.faults, AuthType', LimiterType'
  PROVE  TypeInv'
  <1>1. BookType' /\ Keeps(rows, rows', created)
    BY TypeParts DEF BookType, Keeps
  <1> QED BY <1>1, TypeStep DEF End

\* A call goes on at another statement.
Moves(r, pc) ==
  \E n \in CallType :
    /\ req' = [req EXCEPT ![r] = n]
    /\ Fields(n, req[r].op, req[r].user, req[r].address, req[r].row, req[r].heir,
              req[r].primary, req[r].nonce, pc)

LEMMA GotoFields ==
  ASSUME TypeInv, NEW r \in Requests, req[r] # Free, NEW pc \in Pcs, Goto(r, pc)
  PROVE  Moves(r, pc)
  <1> DEFINE n == [req[r] EXCEPT !.pc = pc]
  <1>1. req[r] \in CallType
    BY CallFields
  <1>2. Fields(n, req[r].op, req[r].user, req[r].address, req[r].row, req[r].heir,
               req[r].primary, req[r].nonce, pc)
    BY <1>1, CallWith
  <1>3. req' = [req EXCEPT ![r] = n] /\ n \in CallType
    BY <1>2 DEF Goto, Fields
  <1> QED BY <1>2, <1>3 DEF Moves

\* A statement on the rows that leaves the rest of the database alone.
LEMMA QuietTypes ==
  ASSUME TypeInv
  PROVE  /\ UNCHANGED auth /\ UNCHANGED handed => AuthType'
         /\ UNCHANGED refresh => LimiterType'
         /\ rows' = rows => rows' \in [Ids -> RowType \union {None}] /\ Keeps(rows, rows', Ids)
         /\ faults \in 0..mix.faults /\ torn \subseteq accounts
  <1>1. BookType /\ AuthType /\ LimiterType
    BY TypeParts
  <1>2. UNCHANGED auth /\ UNCHANGED handed => AuthType'
    BY <1>1 DEF AuthType, auth
  <1>3. UNCHANGED refresh => LimiterType'
    BY <1>1 DEF LimiterType, refresh
  <1>4. rows' = rows => rows' \in [Ids -> RowType \union {None}] /\ Keeps(rows, rows', Ids)
    BY <1>1 DEF BookType, Keeps
  <1> QED BY <1>1, <1>2, <1>3, <1>4 DEF BookType

LEMMA EffectTypes ==
  ASSUME NEW t, NEW p, NEW a, NEW s, Effect(t, p, a, s)
  PROVE  rows' \in [Ids -> RowType \union {None}] /\ Keeps(rows, rows', Ids)
  BY DEF Effect

-----------------------------------------------------------------------------
(* Type correctness, statement by statement.                               *)

LEMMA TypeGoto ==
  ASSUME TypeInv, NEW r \in Requests,
         Demote(r) \/ Clear(r) \/ Enthrone(r)
  PROVE  TypeInv'
  <1>1. /\ req[r] # Free /\ UNCHANGED <<people, created, auth, refresh, handed, torn>>
    BY DEF Demote, Clear, Enthrone, At, Quiet
  <1>2. rows' \in [Ids -> RowType \union {None}] /\ Keeps(rows, rows', Ids)
    BY DemoteRows, ClearRows, OneRow, EffectTypes, QuietTypes
  <1>3. PICK to \in Pcs : /\ Goto(r, to)
                          /\ req[r].pc = "demote" => to = "promote"
                          /\ req[r].pc = "clear" => to = "crown"
                          /\ req[r].pc = "enthrone" => to = IF req[r].op = "delete" THEN "drop" ELSE "setactive"
                          /\ req[r].pc \in {"demote", "clear", "enthrone"}
    BY DEF Demote, Clear, Enthrone, At, Pcs
  <1>4. PICK n \in CallType :
          /\ req' = [req EXCEPT ![r] = n]
          /\ Fields(n, req[r].op, req[r].user, req[r].address, req[r].row, req[r].heir,
                    req[r].primary, req[r].nonce, to)
    BY <1>1, <1>3, GotoFields DEF Moves
  <1>5. Placed(n)
    BY <1>1, <1>3, <1>4, CallFields DEF Placed, Fields, Rowed, Pcs, Slots
  <1> QED BY <1>1, <1>2, <1>4, <1>5, QuietTypes, TypeOn DEF Fields

LEMMA TypeEnds ==
  ASSUME TypeInv, NEW r \in Requests,
         Revive(r) \/ Promote(r) \/ Crown(r) \/ SetActive(r) \/ Drop(r)
  PROVE  TypeInv'
  <1>1. End(r) /\ UNCHANGED <<people, created, auth, refresh, torn>>
    BY DEF Revive, Promote, Crown, SetActive, Drop, Quiet
  <1>2. rows' \in [Ids -> RowType \union {None}] /\ Keeps(rows, rows', Ids)
    BY DropRows, OneRow, EffectTypes, QuietTypes
  <1>3. AuthType'
    <2>1. AuthType /\ (req[r] # Free => req[r] \in CallType)
      BY TypeParts, CallFields
    <2>2. handed' \in [Nonces -> Nat]
      BY <2>1 DEF Promote, Revive, Crown, SetActive, Drop, Quiet, AuthType, At, CallType
    <2> QED BY <1>1, <2>1, <2>2 DEF AuthType, auth
  <1> QED BY <1>1, <1>2, <1>3, QuietTypes, TypeEnd DEF people

LEMMA TypeCount ==
  ASSUME TypeInv, NEW r \in Requests, Count(r)
  PROVE  /\ TypeInv'
         /\ \E n \in CallType :
              /\ req' = [req EXCEPT ![r] = n]
              /\ Fields(n, req[r].op, req[r].user, req[r].address, req[r].row, req[r].heir,
                        Mine(r) = {}, req[r].nonce, "insert")
  <1> DEFINE m == [req[r] EXCEPT !.pc = "insert"]
             n == [m EXCEPT !.primary = Mine(r) = {}]
  <1>1. /\ req[r] # Free /\ req[r].pc = "count" /\ rows' = rows
        /\ UNCHANGED <<people, created, auth, refresh, handed, torn>>
    BY DEF Count, At, Quiet
  <1>2. Fields(m, req[r].op, req[r].user, req[r].address, req[r].row, req[r].heir,
               req[r].primary, req[r].nonce, "insert")
    BY <1>1, CallFields, CallWith DEF Pcs
  <1>3. Fields(n, req[r].op, req[r].user, req[r].address, req[r].row, req[r].heir,
               Mine(r) = {}, req[r].nonce, "insert")
    <2> DEFINE b == Mine(r) = {}
    <2>1. b \in BOOLEAN
      OBVIOUS
    <2> HIDE DEF m, b
    <2>2. Fields([m EXCEPT !.primary = b], req[r].op, req[r].user, req[r].address, req[r].row,
                 req[r].heir, b, req[r].nonce, "insert")
      BY <1>2, <2>1, CallWith DEF Fields
    <2> QED BY <2>2 DEF b
  <1>4. req' = [req EXCEPT ![r] = n]
    <2>1. req \in [Requests -> CallType \union {Free}] /\ req[r] \in CallType
      BY <1>1, CallFields DEF TypeInv, TypeOK
    <2> QED BY <2>1 DEF Count
  <1> HIDE DEF m, n
  <1>5. Placed(n) /\ n \in CallType
    BY <1>1, <1>3, CallFields DEF Placed, Fields, Rowed, Pcs, Slots
  <1> QED BY <1>1, <1>3, <1>4, <1>5, QuietTypes, TypeOn DEF Fields

LEMMA TypeHeir ==
  ASSUME TypeInv, NEW r \in Requests, Heir(r)
  PROVE  /\ TypeInv'
         /\ \/ End(r) /\ {i \in Mine(r) \ {Its(r)} : rows[i].active} = {}
            \/ \E i \in Mine(r) \ {Its(r)}, n \in CallType :
                 /\ rows[i].active /\ req' = [req EXCEPT ![r] = n]
                 /\ Fields(n, req[r].op, req[r].user, req[r].address, req[r].row, i,
                           req[r].primary, req[r].nonce, "enthrone")
  <1>1. /\ req[r] # Free /\ req[r].pc = "heir" /\ rows' = rows
        /\ UNCHANGED <<people, created, auth, refresh, handed, torn>>
    BY DEF Heir, At, Quiet
  <1>2. CASE End(r) /\ {i \in Mine(r) \ {Its(r)} : rows[i].active} = {}
    BY <1>1, <1>2, QuietTypes, TypeEnd DEF people
  <1>3. ASSUME NEW i \in Mine(r) \ {Its(r)}, rows[i].active,
               req' = [req EXCEPT ![r].pc = "enthrone", ![r].heir = i]
        PROVE  /\ TypeInv'
               /\ \E n \in CallType :
                    /\ rows[i].active /\ req' = [req EXCEPT ![r] = n]
                    /\ Fields(n, req[r].op, req[r].user, req[r].address, req[r].row, i,
                              req[r].primary, req[r].nonce, "enthrone")
    <2> DEFINE m == [req[r] EXCEPT !.pc = "enthrone"]
               n == [m EXCEPT !.heir = i]
    <2>1. i \in Ids /\ rows[i] # None /\ rows[i].user = req[r].user /\ i \in created
      BY TypeParts DEF Mine, RowsOf, BookType
    <2>2. Fields(m, req[r].op, req[r].user, req[r].address, req[r].row, req[r].heir,
                 req[r].primary, req[r].nonce, "enthrone")
      BY <1>1, CallFields, CallWith DEF Pcs
    <2>3. Fields(n, req[r].op, req[r].user, req[r].address, req[r].row, i,
                 req[r].primary, req[r].nonce, "enthrone")
      <3> HIDE DEF m
      <3> QED BY <2>1, <2>2, CallWith DEF Fields
    <2>4. req' = [req EXCEPT ![r] = n]
      <3>1. req \in [Requests -> CallType \union {Free}] /\ req[r] \in CallType
        BY <1>1, CallFields DEF TypeInv, TypeOK
      <3> QED BY <1>3, <3>1
    <2> HIDE DEF m, n
    <2>5. Placed(n) /\ n \in CallType
      BY <1>1, <2>1, <2>3, CallFields DEF Placed, Fields, Rowed, Pcs, Slots
    <2>6. Knows(n, accounts, created, rows)
      BY <1>1, <2>1, <2>3, CallFields DEF Knows, Fields
    <2>7. BookType' /\ Keeps(rows, rows', created) /\ created' = created /\ accounts' = accounts
      BY <1>1, TypeParts DEF BookType, Keeps, people
    <2> QED BY <1>1, <1>3, <2>3, <2>4, <2>5, <2>6, <2>7, QuietTypes, TypeStep
  <1>4. \/ End(r) /\ {i \in Mine(r) \ {Its(r)} : rows[i].active} = {}
        \/ \E i \in Mine(r) \ {Its(r)} : /\ rows[i].active
             /\ req' = [req EXCEPT ![r].pc = "enthrone", ![r].heir = i]
    BY DEF Heir, Oldest
  <1> QED BY <1>2, <1>3, <1>4

LEMMA TypeInsert ==
  ASSUME TypeInv, NEW r \in Requests, Insert(r)
  PROVE  /\ TypeInv'
         /\ \/ End(r) /\ UNCHANGED book
            \/ \E i \in Ids \ created :
                 /\ rows[i] = None /\ Tracked(req[r].user, req[r].address) = {}
                 /\ rows' = [rows EXCEPT ![i] = Row(req[r].user, req[r].address, req[r].primary)]
                 /\ created' = created \union {i}
                 /\ rows'[i] = Row(req[r].user, req[r].address, req[r].primary)
                 /\ rows'[i] \in RowType
                 /\ \/ End(r)
                    \/ /\ req[r].op # "create"
                       /\ \E n \in CallType :
                            /\ req' = [req EXCEPT ![r] = n]
                            /\ Fields(n, req[r].op, req[r].user, req[r].address, i, req[r].heir,
                                      req[r].primary, req[r].nonce, "demote")
  <1> DEFINE row == Row(req[r].user, req[r].address, req[r].primary)
  <1>1. /\ req[r] # Free /\ req[r].pc = "insert"
        /\ UNCHANGED <<people, auth, refresh, handed, torn>>
    BY DEF Insert, At
  <1>2. CASE End(r) /\ UNCHANGED book
    BY <1>1, <1>2, QuietTypes, TypeEnd DEF people, book
  <1>3. row \in RowType /\ row.user = req[r].user /\ req[r].user \in accounts
    <2>1. req[r].user \in accounts /\ accounts \subseteq Users /\ req[r].address \in Addresses
          /\ req[r].primary \in BOOLEAN
      BY <1>1, CallFields, TypeParts DEF Placed, Knows, BookType, WalletOps
    <2> QED BY <2>1 DEF Row, RowType
  <1>4. ASSUME NEW i \in Ids \ created, Tracked(req[r].user, req[r].address) = {},
               rows' = [rows EXCEPT ![i] = row], created' = created \union {i},
               \/ req[r].op = "create" /\ End(r)
               \/ /\ req[r].op # "create"
                  /\ req' = [req EXCEPT ![r].pc = "demote", ![r].row = i]
        PROVE  /\ TypeInv' /\ rows[i] = None /\ rows'[i] = row
               /\ \/ End(r)
                  \/ /\ req[r].op # "create"
                     /\ \E n \in CallType :
                          /\ req' = [req EXCEPT ![r] = n]
                          /\ Fields(n, req[r].op, req[r].user, req[r].address, i, req[r].heir,
                                    req[r].primary, req[r].nonce, "demote")
    <2> HIDE DEF row
    <2>1. rows[i] = None /\ rows \in [Ids -> RowType \union {None}]
      BY TypeParts DEF BookType
    <2>2. /\ rows' \in [Ids -> RowType \union {None}] /\ rows'[i] = row
          /\ \A j \in Ids \ {i} : rows'[j] = rows[j]
      BY <1>3, <1>4, <2>1
    <2>3. BookType' /\ Keeps(rows, rows', created) /\ accounts' = accounts /\ created \subseteq created'
      BY <1>1, <1>3, <1>4, <2>1, <2>2, TypeParts DEF BookType, Keeps, people
    <2>4. CASE End(r)
      BY <1>1, <2>1, <2>2, <2>3, <2>4, QuietTypes, TypeStep DEF End
    <2>5. CASE /\ req[r].op # "create"
               /\ req' = [req EXCEPT ![r].pc = "demote", ![r].row = i]
      <3> DEFINE m == [req[r] EXCEPT !.pc = "demote"]
                 n == [m EXCEPT !.row = i]
      <3>1. Fields(m, req[r].op, req[r].user, req[r].address, req[r].row, req[r].heir,
                   req[r].primary, req[r].nonce, "demote")
        BY <1>1, CallFields, CallWith DEF Pcs
      <3>2. Fields(n, req[r].op, req[r].user, req[r].address, i, req[r].heir,
                   req[r].primary, req[r].nonce, "demote")
        <4> HIDE DEF m
        <4> QED BY <3>1, CallWith DEF Fields
      <3>3. req' = [req EXCEPT ![r] = n]
        <4>1. req \in [Requests -> CallType \union {Free}] /\ req[r] \in CallType
          BY <1>1, CallFields DEF TypeInv, TypeOK
        <4> QED BY <2>5, <4>1
      <3> HIDE DEF m, n
      <3>4. Placed(n) /\ n \in CallType
        BY <1>1, <2>5, <3>2, CallFields DEF Placed, Fields, Rowed, Pcs, Slots
      <3>5. Knows(n, accounts, created', rows')
        <4>1. Knows(req[r], accounts, created, rows)
          BY <1>1, CallFields
        <4>2. row.address = req[r].address /\ row.user = req[r].user
          BY DEF row, Row
        <4> QED BY <1>4, <2>2, <2>3, <3>2, <4>1, <4>2 DEF Knows, Fields, Keeps
      <3> QED BY <1>1, <2>1, <2>2, <2>3, <2>5, <3>2, <3>3, <3>4, <3>5, QuietTypes, TypeStep
    <2> QED BY <1>4, <2>4, <2>5
  <1>5. \/ End(r) /\ UNCHANGED book
        \/ \E i \in Ids \ created :
             /\ Tracked(req[r].user, req[r].address) = {}
             /\ rows' = [rows EXCEPT ![i] = row] /\ created' = created \union {i}
             /\ \/ req[r].op = "create" /\ End(r)
                \/ /\ req[r].op # "create"
                   /\ req' = [req EXCEPT ![r].pc = "demote", ![r].row = i]
    <2>1. mix.ids \subseteq Ids
      BY TypeParts, WalletAssumption DEF BookType
    <2> QED BY <2>1 DEF Insert, Oldest
  <1> QED BY <1>2, <1>3, <1>4, <1>5

LEMMA AuthKeeps ==
  ASSUME TypeInv, UNCHANGED <<people, book, refresh, torn>>
  PROVE  /\ BookType' /\ LimiterType' /\ Keeps(rows, rows', created)
         /\ rows' \in [Ids -> RowType \union {None}] /\ Keeps(rows, rows', Ids)
         /\ accounts' = accounts /\ created' = created /\ rows' = rows
  BY TypeParts, QuietTypes, KeepsAll DEF BookType, people, book, refresh

LEMMA TypeConsume ==
  ASSUME TypeInv, NEW r \in Requests, Consume(r)
  PROVE  /\ TypeInv'
         /\ \/ End(r) /\ UNCHANGED proofs
            \/ \E m \in FreshUnbound(req[r].address), n \in CallType :
                 /\ proofs' = [proofs EXCEPT ![m].consumed = TRUE, ![m].user = req[r].user]
                 /\ req' = [req EXCEPT ![r] = n]
                 /\ Fields(n, req[r].op, req[r].user, req[r].address, req[r].row, req[r].heir,
                           req[r].primary, m, "demote")
  <1>1. /\ req[r] # Free /\ req[r].pc = "consume" /\ req[r].op = "recover"
        /\ UNCHANGED <<people, book, refresh, challenges, checks, handed, torn>>
    BY CallFields DEF Consume, At, Placed
  <1>2. CASE End(r) /\ UNCHANGED proofs
    BY <1>1, <1>2, AuthKeeps, QuietTypes, TypeEnd DEF people, book, auth
  <1>3. ASSUME NEW m \in FreshUnbound(req[r].address),
               proofs' = [proofs EXCEPT ![m].consumed = TRUE, ![m].user = req[r].user],
               req' = [req EXCEPT ![r].pc = "demote", ![r].nonce = m]
        PROVE  /\ TypeInv'
               /\ \E n \in CallType :
                    /\ req' = [req EXCEPT ![r] = n]
                    /\ Fields(n, req[r].op, req[r].user, req[r].address, req[r].row, req[r].heir,
                              req[r].primary, m, "demote")
    <2> DEFINE k == [req[r] EXCEPT !.pc = "demote"]
               n == [k EXCEPT !.nonce = m]
    <2>1. m \in Nonces /\ proofs[m] # None
      BY DEF FreshUnbound, Unbound
    <2>2. Fields(k, req[r].op, req[r].user, req[r].address, req[r].row, req[r].heir,
                 req[r].primary, req[r].nonce, "demote")
      BY <1>1, CallFields, CallWith DEF Pcs
    <2>3. Fields(n, req[r].op, req[r].user, req[r].address, req[r].row, req[r].heir,
                 req[r].primary, m, "demote")
      <3> HIDE DEF k
      <3> QED BY <2>1, <2>2, CallWith DEF Fields
    <2>4. req' = [req EXCEPT ![r] = n]
      <3>1. req \in [Requests -> CallType \union {Free}] /\ req[r] \in CallType
        BY <1>1, CallFields DEF TypeInv, TypeOK
      <3> QED BY <1>3, <3>1
    <2> HIDE DEF k, n
    <2>5. Placed(n) /\ n \in CallType
      BY <1>1, <2>1, <2>3, CallFields DEF Placed, Fields, Rowed, Pcs, Slots
    <2>6. AuthType'
      <3>1. AuthType /\ req[r].user \in Users \union {None}
        BY <1>1, TypeParts, CallFields DEF CallType
      <3>2. proofs[m] \in ProofType /\ proofs \in [Nonces -> ProofType \union {None}]
        BY <2>1, <3>1 DEF AuthType
      <3>3. proofs' \in [Nonces -> ProofType \union {None}]
        BY <1>3, <2>1, <3>1, <3>2 DEF ProofType
      <3> QED BY <1>1, <3>1, <3>3 DEF AuthType
    <2> QED BY <1>1, <2>3, <2>4, <2>5, <2>6, AuthKeeps, TypeOn DEF Fields
  <1> QED BY <1>2, <1>3 DEF Consume

\* Issue, Expire and Age touch one row of the challenges or proofs.
LEMMA TypeNonce ==
  ASSUME TypeInv,
         \/ \E n \in Nonces, a \in Addresses : Issue(n, a)
         \/ \E n \in Nonces : Expire(n) \/ Age(n)
  PROVE  TypeInv'
  <1>1. UNCHANGED <<people, book, refresh, checks, req, handed, torn>>
    BY DEF Issue, Expire, Age
  <1>2. AuthType'
    <2>1. AuthType
      BY TypeParts
    <2>2. ASSUME NEW n \in Nonces, NEW a \in Addresses, Issue(n, a)
          PROVE  AuthType'
      BY <2>1, <2>2 DEF Issue, AuthType, ChallengeType
    <2>3. ASSUME NEW n \in Nonces, Expire(n)
          PROVE  AuthType'
      <3>1. challenges[n] \in ChallengeType
        BY <2>1, <2>3 DEF Expire, AuthType
      <3>2. [challenges[n] EXCEPT !.open = FALSE] \in ChallengeType
        BY <3>1 DEF ChallengeType
      <3> QED BY <2>1, <2>3, <3>2 DEF Expire, AuthType
    <2>4. ASSUME NEW n \in Nonces, Age(n)
          PROVE  AuthType'
      <3>1. proofs[n] \in ProofType
        BY <2>1, <2>4 DEF Age, AuthType
      <3>2. [proofs[n] EXCEPT !.fresh = FALSE] \in ProofType
        BY <3>1 DEF ProofType
      <3> QED BY <2>1, <2>4, <3>2 DEF Age, AuthType
    <2> QED BY <2>2, <2>3, <2>4
  <1>3. Calls(req', accounts', created', rows')
    BY <1>1, AuthKeeps DEF TypeInv
  <1> QED BY <1>1, <1>2, <1>3, AuthKeeps DEF TypeInv, TypeOK, AuthType, BookType, LimiterType

LEMMA TypeVerify ==
  ASSUME TypeInv, NEW r \in Requests, NEW m \in Nonces, NEW u \in accounts \union {None},
         NEW good, Verify(r, m, u, good)
  PROVE  /\ TypeInv'
         /\ \/ UNCHANGED req
            \/ \E n \in CallType :
                 /\ req[r] = Free /\ req' = [req EXCEPT ![r] = n]
                 /\ Fields(n, "verify", u, challenges[m].address, None, None, FALSE, m, "prove")
  <1>1. /\ challenges[m] # None /\ req[r] = Free
        /\ UNCHANGED <<people, book, refresh, proofs, handed, torn>>
        /\ checks' = [checks EXCEPT ![m] = @ + 1]
        /\ challenges' = [challenges EXCEPT ![m].open = FALSE]
    BY DEF Verify
  <1>2. AuthType' /\ challenges[m].address \in Addresses
    <2>1. AuthType /\ challenges[m] \in ChallengeType
      BY <1>1, TypeParts DEF AuthType
    <2>2. challenges[m].address \in Addresses
          /\ [challenges[m] EXCEPT !.open = FALSE] \in ChallengeType
      BY <2>1 DEF ChallengeType
    <2> QED BY <1>1, <2>1, <2>2 DEF AuthType
  <1>3. CASE UNCHANGED req
    <2>1. Calls(req', accounts', created', rows')
      BY <1>1, <1>3, AuthKeeps DEF TypeInv
    <2> QED BY <1>1, <1>2, <1>3, <2>1, AuthKeeps
            DEF TypeInv, TypeOK, AuthType, BookType, LimiterType
  <1>4. ASSUME req' = [req EXCEPT ![r] = [Call("verify", u, challenges[m].address, "prove")
                                            EXCEPT !.nonce = m]]
        PROVE  /\ TypeInv'
               /\ \E n \in CallType :
                    /\ req[r] = Free /\ req' = [req EXCEPT ![r] = n]
                    /\ Fields(n, "verify", u, challenges[m].address, None, None, FALSE, m, "prove")
    <2> DEFINE a == challenges[m].address
               n == [Call("verify", u, a, "prove") EXCEPT !.nonce = m]
    <2>1. Fields(n, "verify", u, a, None, None, FALSE, m, "prove")
      <3>1. u \in Users \union {None} /\ a \in Addresses \union {None} /\ "prove" \in Pcs
        BY <1>2, TypeParts DEF BookType, Pcs
      <3> HIDE DEF a
      <3> QED BY <3>1, CallRecord
    <2>2. req' = [req EXCEPT ![r] = n]
      BY <1>4
    <2> HIDE DEF n
    <2>3. Placed(n) /\ n \in CallType
      BY <1>2, <2>1, WalletAssumption DEF Placed, Fields, Rowed, Pcs, Slots
    <2>4. Knows(n, accounts', created', rows')
      BY <2>1, WalletAssumption DEF Knows, Fields, WalletOps
    <2> QED BY <1>1, <1>2, <2>1, <2>2, <2>3, <2>4, AuthKeeps, TypeStep
  <1> QED BY <1>3, <1>4 DEF Verify

LEMMA TypeProve ==
  ASSUME TypeInv, NEW r \in Requests, Prove(r)
  PROVE  TypeInv'
  <1>1. /\ req[r] # Free /\ req[r].pc = "prove" /\ End(r)
        /\ UNCHANGED <<people, book, refresh, challenges, checks, handed, torn>>
    BY DEF Prove, At
  <1>2. AuthType'
    <2>1. /\ AuthType /\ req[r].nonce \in Nonces /\ req[r].address \in Addresses
          /\ req[r].user \in Users \union {None}
      BY <1>1, TypeParts, CallFields DEF Placed, CallType
    <2> DEFINE row == [address |-> req[r].address, user |-> req[r].user, consumed |-> FALSE,
                       fresh |-> TRUE]
    <2>2. row \in ProofType
      BY <2>1 DEF ProofType
    <2>3. \/ proofs' = proofs
          \/ proofs' = [m \in Nonces |-> IF m = req[r].nonce THEN row
                                         ELSE IF m \in BoundTo(req[r].address, req[r].user)
                                              THEN None ELSE proofs[m]]
      BY DEF Prove
    <2> HIDE DEF row
    <2>4. proofs' \in [Nonces -> ProofType \union {None}]
      BY <2>1, <2>2, <2>3 DEF AuthType
    <2> QED BY <1>1, <2>1, <2>4 DEF AuthType
  <1> QED BY <1>1, <1>2, AuthKeeps, QuietTypes, TypeEnd DEF people, book

-----------------------------------------------------------------------------
(* The limiter's statements, time and failures.                            *)

LEMMA Lesser ==
  ASSUME NEW a \in Nat, NEW b \in Nat
  PROVE  Min({a, b}) = IF a <= b THEN a ELSE b
  <1> DEFINE m == IF a <= b THEN a ELSE b
  <1>1. m \in {a, b} /\ \A y \in {a, b} : m <= y
    OBVIOUS
  <1>2. \A x \in {a, b} : (\A y \in {a, b} : x <= y) => x = m
    OBVIOUS
  <1> QED BY <1>1, <1>2 DEF Min

LEMMA OlderType ==
  ASSUME NEW age \in [Ids -> Nat \union {None}]
  PROVE  /\ Older(age) \in [Ids -> Nat \union {None}]
         /\ \A i \in Ids : Older(age)[i] = IF age[i] = None THEN None
                           ELSE IF age[i] + 1 <= Cooldown THEN age[i] + 1 ELSE Cooldown
  <1>1. ASSUME NEW i \in Ids, age[i] # None
        PROVE  Min({age[i] + 1, Cooldown}) = IF age[i] + 1 <= Cooldown THEN age[i] + 1 ELSE Cooldown
    BY <1>1, Lesser, WalletAssumption
  <1> QED BY <1>1, WalletAssumption DEF Older

LEMMA PruneType ==
  ASSUME LimiterType
  PROVE  /\ Prune(limiter).inFlight = limiter.inFlight
         /\ Prune(limiter) \in [inFlight : SUBSET Ids, startedAt : [Ids -> Nat \union {None}]]
         /\ \A i \in Ids :
              Prune(limiter).startedAt[i] =
                IF limiter.startedAt[i] # None /\ ~(limiter.startedAt[i] < Cooldown)
                   /\ i \notin limiter.inFlight
                THEN None ELSE limiter.startedAt[i]
  BY DEF LimiterType, Prune, Cooling

LEMMA TypeRefresh ==
  ASSUME TypeInv, NEW r \in Requests, Admit(r) \/ Balances(r) \/ Positions(r)
  PROVE  /\ TypeInv'
         /\ End(r) \/ (Admit(r) /\ Moves(r, "balances")) \/ (Balances(r) /\ Moves(r, "positions"))
  <1>1. /\ req[r] # Free /\ UNCHANGED <<people, book, auth, handed, torn>>
        /\ req[r].pc \in Slots
    BY DEF Admit, Balances, Positions, At, Slots
  <1>2. LimiterType'
    <2>1. LimiterType /\ Its(r) \in Ids
      BY <1>1, TypeParts, ItsRow DEF Rowed, Slots, Pcs
    <2>2. CASE Admit(r)
      <3>1. Prune(limiter) \in [inFlight : SUBSET Ids, startedAt : [Ids -> Nat \union {None}]]
        BY <2>1, PruneType
      <3>2. \/ limiter' = Prune(limiter) /\ UNCHANGED sinceStart
            \/ /\ limiter' = [inFlight |-> Prune(limiter).inFlight \union {Its(r)},
                              startedAt |-> [Prune(limiter).startedAt EXCEPT ![Its(r)] = 0]]
               /\ sinceStart' = [sinceStart EXCEPT ![Its(r)] = 0]
        BY <2>2 DEF Admit
      <3> QED BY <2>1, <3>1, <3>2 DEF LimiterType
    <2>3. CASE Balances(r) \/ Positions(r)
      <3>1. UNCHANGED sinceStart /\ (UNCHANGED limiter \/ Release(r))
        BY <2>3 DEF Balances, Positions
      <3> QED BY <2>1, <3>1 DEF LimiterType, Release
    <2> QED BY <2>2, <2>3
  <1>3. \/ End(r) \/ (Admit(r) /\ Goto(r, "balances")) \/ (Balances(r) /\ Goto(r, "positions"))
    BY DEF Admit, Balances, Positions
  <1>4. \/ End(r) \/ (Admit(r) /\ Moves(r, "balances")) \/ (Balances(r) /\ Moves(r, "positions"))
    BY <1>1, <1>3, GotoFields DEF Pcs
  <1>5. rows' = rows /\ UNCHANGED <<mix, accounts, created>> /\ AuthType' /\ torn' = torn /\ faults' = faults
    BY <1>1, QuietTypes DEF people, book
  <1>6. CASE End(r)
    BY <1>2, <1>5, <1>6, QuietTypes, TypeEnd
  <1>7. ASSUME NEW pc \in {"balances", "positions"}, Moves(r, pc)
        PROVE  TypeInv'
    <2>1. PICK n \in CallType :
            /\ req' = [req EXCEPT ![r] = n]
            /\ Fields(n, req[r].op, req[r].user, req[r].address, req[r].row, req[r].heir,
                      req[r].primary, req[r].nonce, pc)
      BY <1>7 DEF Moves
    <2>2. Placed(n)
      BY <1>1, <2>1, CallFields DEF Placed, Fields, Rowed, Pcs, Slots
    <2> QED BY <1>1, <1>2, <1>5, <2>1, <2>2, QuietTypes, TypeOn DEF Fields, people
  <1> QED BY <1>4, <1>6, <1>7

LEMMA TypeLose ==
  ASSUME TypeInv, NEW r \in Requests, Lose(r)
  PROVE  TypeInv'
  <1>1. End(r) /\ UNCHANGED <<mix, accounts, book, auth, refresh, handed>> /\ req[r] # Free
    BY DEF Lose
  <1>2. mix.faults \in Nat /\ faults \in 0..mix.faults /\ mix' = mix
    BY <1>1, TypeParts, WalletAssumption DEF BookType
  <1>3. torn' \subseteq accounts
    <2>1. torn \subseteq accounts /\ (req[r].op \in WalletOps => req[r].user \in accounts)
      BY <1>1, TypeParts, CallFields DEF BookType, Knows
    <2> QED BY <2>1 DEF Lose
  <1>4. faults' \in 0..mix.faults
    BY <1>2 DEF Lose
  <1> QED BY <1>1, <1>3, <1>4, QuietTypes, TypeEnd DEF book

LEMMA TypeRestart ==
  ASSUME TypeInv, Restart
  PROVE  TypeInv'
  <1>1. UNCHANGED <<mix, accounts, book, auth, handed>> /\ req' = [r \in Requests |-> Free]
    BY DEF Restart
  <1>2. mix.faults \in Nat /\ faults \in 0..mix.faults /\ BookType
    BY TypeParts, WalletAssumption DEF BookType
  <1>3. faults' \in 0..mix.faults /\ torn' \subseteq accounts
    BY <1>2 DEF Restart, BookType
  <1>4. BookType' /\ AuthType'
    BY <1>1, <1>2, <1>3, QuietTypes DEF BookType, book
  <1>5. LimiterType'
    BY DEF Restart, LimiterType, NewLimiter
  <1>6. Calls(req', accounts', created', rows') /\ req' \in [Requests -> CallType \union {Free}]
    BY <1>1 DEF Calls
  <1> QED BY <1>4, <1>5, <1>6 DEF TypeInv, TypeOK, BookType, AuthType, LimiterType

LEMMA TypeTick ==
  ASSUME TypeInv, Tick
  PROVE  TypeInv'
  <1>1. UNCHANGED <<people, book, auth, req, handed, torn>>
    BY DEF Tick
  <1>2. BookType' /\ AuthType'
    BY <1>1, TypeParts, QuietTypes DEF BookType, people, book
  <1>3. LimiterType'
    <2>1. /\ limiter' = [limiter EXCEPT !.startedAt = Older(limiter.startedAt)]
          /\ sinceStart' = Older(sinceStart)
      BY DEF Tick
    <2>2. LimiterType /\ limiter.startedAt \in [Ids -> Nat \union {None}]
      BY TypeParts DEF LimiterType
    <2>3. /\ Older(limiter.startedAt) \in [Ids -> Nat \union {None}]
          /\ Older(sinceStart) \in [Ids -> Nat \union {None}]
      BY <2>2, OlderType DEF LimiterType
    <2> QED BY <2>1, <2>2, <2>3 DEF LimiterType
  <1>4. Calls(req', accounts', created', rows')
    BY <1>1 DEF TypeInv, people, book
  <1> QED BY <1>1, <1>2, <1>3, <1>4 DEF TypeInv, TypeOK, BookType, AuthType, LimiterType

LEMMA TypeStutters ==
  ASSUME TypeInv, UNCHANGED vars
  PROVE  TypeInv'
  BY DEF TypeInv, TypeOK, vars

LEMMA TypeInit == Init => TypeInv
  <1> SUFFICES ASSUME Init PROVE TypeInv
    OBVIOUS
  <1> USE WalletAssumption
  <1> DEFINE b == mix.book
  <1>1. /\ mix \in Mixes /\ DOMAIN b \subseteq Ids /\ mix.faults \in Nat
        /\ \A i \in DOMAIN b : b[i] \in RowType
    BY DEF Init, GoodBook
  <1>2. rows = [i \in Ids |-> IF i \in DOMAIN b THEN b[i] ELSE None] /\ created = DOMAIN b
    BY DEF Init
  <1> HIDE DEF b
  <1>3. BookType
    <2>1. accounts = {rows[i].user : i \in created} /\ torn = {} /\ faults = 0
      BY DEF Init
    <2>2. \A i \in created : rows[i] \in RowType /\ rows[i].user \in Users
      BY <1>1, <1>2 DEF RowType
    <2>3. \A i \in Ids : rows[i] # None => i \in created
      BY <1>2
    <2>4. rows \in [Ids -> RowType \union {None}]
      BY <1>1, <1>2
    <2> QED BY <1>1, <1>2, <2>1, <2>2, <2>3, <2>4 DEF BookType
  <1>4. AuthType /\ LimiterType
    BY DEF Init, AuthType, LimiterType, NewLimiter
  <1>5. Calls(req, accounts, created, rows) /\ req \in [Requests -> CallType \union {Free}]
    BY DEF Init, Calls
  <1> QED BY <1>3, <1>4, <1>5 DEF TypeInv, TypeOK, BookType, AuthType, LimiterType

-----------------------------------------------------------------------------
(* The steps of the system.                                                *)

RowStep(r) ==
  \/ Insert(r) \/ Revive(r) \/ Demote(r) \/ Promote(r) \/ Clear(r) \/ Crown(r)
  \/ Enthrone(r) \/ SetActive(r) \/ Drop(r)

NonceStep ==
  \/ \E n \in Nonces, a \in Addresses : Issue(n, a)
  \/ \E n \in Nonces : Expire(n) \/ Age(n)

LEMMA Steps ==
  ASSUME TypeInv, [Next]_vars
  PROVE  \/ \E r \in Requests, call \in CallType : Entry(r, call)
         \/ \E r \in Requests : RowStep(r)
         \/ \E r \in Requests : Count(r) \/ Heir(r) \/ Consume(r) \/ Prove(r)
         \/ \E r \in Requests : Admit(r) \/ Balances(r) \/ Positions(r)
         \/ \E r \in Requests : Lose(r)
         \/ \E r \in Requests, m \in Nonces, u \in accounts \union {None}, good \in BOOLEAN :
              Verify(r, m, u, good)
         \/ NonceStep \/ Tick \/ Restart \/ UNCHANGED vars
  <1>1. ASSUME NEW r \in Requests, Arrive(r)
        PROVE  \/ \E call \in CallType : Entry(r, call)
               \/ \E m \in Nonces, u \in accounts \union {None}, good \in BOOLEAN :
                    Verify(r, m, u, good)
    <2>1. ASSUME NEW a \in Addresses, ConnectAnew(r, a) \/ CreateAnew(r, a)
          PROVE  \E call \in CallType : Entry(r, call)
      BY <2>1, EntryAnew DEF Entry
    <2>2. ASSUME NEW u \in Users, NEW a \in Addresses, Connect(r, u, a) \/ Create(r, u, a)
          PROVE  \E call \in CallType : Entry(r, call)
      BY <2>2, EntryConnect DEF Entry
    <2>3. ASSUME NEW op \in {"primary", "signer", "pause", "activate", "delete", "refresh"},
                 NEW i \in Ids, Manage(r, op, i)
          PROVE  \E call \in CallType : Entry(r, call)
      BY <2>3, EntryManage DEF Entry
    <2> QED BY <1>1, <2>1, <2>2, <2>3 DEF Arrive
  <1>2. ASSUME NEW r \in Requests, Statement(r)
        PROVE  \/ RowStep(r) \/ Count(r) \/ Heir(r) \/ Consume(r) \/ Prove(r)
               \/ Admit(r) \/ Balances(r) \/ Positions(r) \/ Lose(r)
    BY <1>2 DEF Statement, RowStep
  <1>3. CASE UNCHANGED vars
    BY <1>3
  <1>4. CASE Next
    BY <1>1, <1>2, <1>4 DEF Next, NonceStep
  <1> QED BY <1>3, <1>4

LEMMA TypeNext ==
  ASSUME TypeInv, [Next]_vars
  PROVE  TypeInv'
  <1>1. ASSUME NEW r \in Requests, RowStep(r)
        PROVE  TypeInv'
    BY <1>1, TypeInsert, TypeEnds, TypeGoto DEF RowStep
  <1>2. ASSUME NonceStep
        PROVE  TypeInv'
    BY <1>2, TypeNonce DEF NonceStep
  <1> QED BY <1>1, <1>2, Steps, TypeEntry, TypeCount, TypeHeir, TypeConsume, TypeProve,
             TypeRefresh, TypeLose, TypeVerify, TypeTick, TypeRestart, TypeStutters

LEMMA RowSteps ==
  ASSUME TypeInv, [Next]_vars
  PROVE  \/ rows' = rows
         \/ \E r \in Requests : RowStep(r)
  <1>1. ASSUME NEW r \in Requests, NEW call, Entry(r, call)
        PROVE  rows' = rows
    BY <1>1 DEF Entry, book
  <1>2. ASSUME NEW r \in Requests, Count(r) \/ Heir(r) \/ Consume(r) \/ Prove(r)
        PROVE  rows' = rows
    BY <1>2 DEF Count, Heir, Consume, Prove, book
  <1>3. ASSUME NEW r \in Requests, Admit(r) \/ Balances(r) \/ Positions(r) \/ Lose(r)
        PROVE  rows' = rows
    BY <1>3 DEF Admit, Balances, Positions, Lose, book
  <1>4. ASSUME NEW r \in Requests, NEW m, NEW u, NEW good, Verify(r, m, u, good)
        PROVE  rows' = rows
    BY <1>4 DEF Verify, book
  <1>5. NonceStep \/ Tick \/ Restart \/ UNCHANGED vars => rows' = rows
    BY DEF NonceStep, Issue, Expire, Age, Tick, Restart, vars, book
  <1> QED BY <1>1, <1>2, <1>3, <1>4, <1>5, Steps

-----------------------------------------------------------------------------
(* Signers.                                                                *)

\* The unique index user_wallets_one_signer_per_user holds of the rows.
SignerIndex ==
  \A i, j \in Ids : /\ rows[i] # None /\ rows[j] # None /\ rows[i].user = rows[j].user
                    /\ rows[i].signer /\ rows[j].signer
                    => i = j

\* Only Promote makes a signer, and it looks at the user's other rows.
LEMMA SignerRows ==
  ASSUME TypeInv, SignerIndex, NEW r \in Requests, RowStep(r)
  PROVE  SignerIndex'
  <1>1. BookType
    BY TypeParts
  <1>2. ASSUME Keeps(rows, rows', Ids),
               \A i \in Ids : rows'[i] # None /\ rows'[i].signer => rows[i].signer
        PROVE  SignerIndex'
    BY <1>2 DEF SignerIndex, Keeps
  <1>3. ASSUME NEW t \in Ids, NEW p, NEW a, Effect(t, p, a, rows[t].signer)
        PROVE  SignerIndex'
    BY <1>2, <1>3 DEF Effect
  <1>4. rows' = rows => SignerIndex'
    BY DEF SignerIndex
  <1>5. CASE Insert(r)
    <2>1. ASSUME NEW i \in Ids \ created, rows'[i] = Row(req[r].user, req[r].address, req[r].primary),
                 rows' = [rows EXCEPT ![i] = Row(req[r].user, req[r].address, req[r].primary)]
          PROVE  SignerIndex'
      <3>1. ~rows'[i].signer /\ \A j \in Ids \ {i} : rows'[j] = rows[j]
        BY <1>1, <2>1 DEF BookType, Row
      <3> QED BY <3>1 DEF SignerIndex
    <2> QED BY <1>4, <1>5, <2>1, TypeInsert DEF book
  <1>6. CASE Promote(r)
    <2>1. Its(r) \in Ids /\ (rows[Its(r)] # None => rows[Its(r)].user = req[r].user)
      BY <1>6, ItsRow DEF Promote, At, Rowed, Pcs
    <2>2. CASE /\ Effect(Its(r), rows[Its(r)].primary, TRUE, TRUE)
               /\ ~ \E i \in Mine(r) \ {Its(r)} : rows[i].signer
      BY <2>1, <2>2 DEF SignerIndex, Effect, Keeps, Mine, RowsOf
    <2> QED BY <1>4, <1>6, <2>2, OneRow
  <1>7. CASE Demote(r)
    BY <1>2, <1>7, DemoteRows DEF Keeps
  <1>8. CASE Clear(r)
    BY <1>2, <1>8, ClearRows DEF Keeps
  <1>9. CASE Drop(r)
    BY <1>2, <1>9, DropRows DEF Keeps
  <1>10. CASE Revive(r) \/ Crown(r) \/ SetActive(r)
    <2>1. Its(r) \in Ids
      BY <1>10, ItsRow DEF Revive, Crown, SetActive, At, Rowed, Pcs
    <2> QED BY <1>3, <1>4, <1>10, <2>1, OneRow
  <1>11. CASE Enthrone(r)
    <2>1. req[r].heir \in Ids
      BY <1>11, CallFields DEF Enthrone, At, Placed
    <2> QED BY <1>3, <1>4, <1>11, <2>1, OneRow
  <1> QED BY <1>5, <1>6, <1>7, <1>8, <1>9, <1>10, <1>11 DEF RowStep

LEMMA SignerInit == Init => SignerIndex
  BY WalletAssumption DEF Init, GoodBook, SignerIndex

LEMMA SignerNext ==
  ASSUME TypeInv, SignerIndex, [Next]_vars
  PROVE  SignerIndex'
  BY SignerRows, RowSteps DEF SignerIndex

LEMMA AtMostOne ==
  ASSUME NEW S, \A x, y \in S : x = y
  PROVE  Cardinality(S) <= 1
  <1>1. CASE S = {}
    BY <1>1, FS_EmptySet
  <1>2. CASE S # {}
    <2>1. PICK x \in S : TRUE
      BY <1>2
    <2>2. S = {x}
      BY <2>1
    <2> QED BY <2>2, FS_Singleton
  <1> QED BY <1>1, <1>2

LEMMA SignerSafe ==
  ASSUME TypeInv, SignerIndex
  PROVE  OneSigner
  BY AtMostOne DEF SignerIndex, OneSigner, RowsOf

\* A signer is paused only by a pause of that very wallet.
PauseStep ==
  \A i \in Ids :
    ~PausedSigner(i, rows) /\ PausedSigner(i, rows')
      => \E r \in Requests : At(r, "setactive") /\ req[r].op = "pause" /\ Its(r) = i

LEMMA PauseNext ==
  ASSUME TypeInv, [Next]_vars
  PROVE  PauseStep
  <1> SUFFICES ASSUME NEW i \in Ids, ~PausedSigner(i, rows), PausedSigner(i, rows')
               PROVE  \E r \in Requests : At(r, "setactive") /\ req[r].op = "pause" /\ Its(r) = i
    BY DEF PauseStep
  <1>1. rows'[i] # None /\ rows'[i].signer /\ ~rows'[i].active /\ BookType
    BY TypeParts DEF PausedSigner
  <1>2. PICK r \in Requests : RowStep(r)
    BY RowSteps
  <1>3. ASSUME NEW t \in Ids, NEW p, NEW a, NEW s, Effect(t, p, a, s)
        PROVE  i = t /\ ~a
    BY <1>1, <1>3 DEF Effect, PausedSigner
  <1>4. ~Insert(r)
    <2>1. ASSUME NEW j \in Ids \ created, rows'[j] = Row(req[r].user, req[r].address, req[r].primary),
                 rows' = [rows EXCEPT ![j] = Row(req[r].user, req[r].address, req[r].primary)]
          PROVE  FALSE
      BY <1>1, <2>1 DEF BookType, Row, PausedSigner
    <2> QED BY <2>1, TypeInsert DEF book
  <1>5. ~Demote(r) /\ ~Clear(r) /\ ~Drop(r)
    BY <1>1, DemoteRows, ClearRows, DropRows DEF Keeps, PausedSigner
  <1>6. ~Enthrone(r)
    <2>1. Enthrone(r) => req[r].heir \in Ids
      BY CallFields DEF Enthrone, At, Placed
    <2> QED BY <1>1, <1>3, <2>1, OneRow DEF Effect, PausedSigner
  <1>7. ~Revive(r) /\ ~Promote(r) /\ ~Crown(r)
    <2>1. Revive(r) \/ Promote(r) \/ Crown(r) => Its(r) \in Ids
      BY ItsRow DEF Revive, Promote, Crown, At, Rowed, Pcs
    <2> QED BY <1>1, <1>3, <2>1, OneRow DEF Effect, PausedSigner
  <1>8. SetActive(r)
    BY <1>2, <1>4, <1>5, <1>6, <1>7 DEF RowStep
  <1>9. Its(r) \in Ids /\ At(r, "setactive")
    BY <1>8, ItsRow DEF SetActive, At, Rowed, Pcs
  <1> QED BY <1>3, <1>8, <1>9, OneRow

-----------------------------------------------------------------------------
(* The refresh limiter.                                                    *)

LEMMA GotoSteps ==
  ASSUME TypeInv, NEW r \in Requests
  PROVE  /\ Demote(r) => Moves(r, "promote")
         /\ Clear(r) => Moves(r, "crown")
         /\ Enthrone(r) => Moves(r, IF req[r].op = "delete" THEN "drop" ELSE "setactive")
  BY GotoFields DEF Demote, Clear, Enthrone, At, Pcs

Inside == {"balances", "positions"}

\* Every other step leaves the limiter alone and moves no call in or out of a refresh.
LEMMA Outside ==
  ASSUME TypeInv, [Next]_vars
  PROVE  \/ \E r \in Requests : Admit(r) \/ Balances(r) \/ Positions(r)
         \/ Tick \/ Restart
         \/ UNCHANGED refresh /\ UNCHANGED req
         \/ /\ UNCHANGED refresh
            /\ \E r \in Requests, n \in CallType \union {Free} :
                 /\ req' = [req EXCEPT ![r] = n]
                 /\ req[r] # Free => req[r].pc \notin Slots
                 /\ n # Free => n.pc \notin Inside
  <1> DEFINE Away == \E r \in Requests, n \in CallType \union {Free} :
                       /\ req' = [req EXCEPT ![r] = n]
                       /\ req[r] # Free => req[r].pc \notin Slots
                       /\ n # Free => n.pc \notin Inside
  <1>1. ASSUME NEW r \in Requests, NEW call \in CallType, Entry(r, call)
        PROVE  UNCHANGED refresh /\ Away
    BY <1>1 DEF Entry, Begin, Inside
  <1>2. ASSUME NEW r \in Requests, NEW pc \in Pcs \ Inside, Moves(r, pc), req[r].pc \notin Slots
        PROVE  Away
    BY <1>2 DEF Moves, Fields
  <1>3. ASSUME NEW r \in Requests, End(r), req[r].pc \notin Slots
        PROVE  Away
    BY <1>3 DEF End
  <1>4. ASSUME NEW r \in Requests, RowStep(r)
        PROVE  UNCHANGED refresh /\ Away
    <2>1. UNCHANGED refresh /\ req[r].pc \notin Slots
      BY <1>4 DEF RowStep, Insert, Revive, Demote, Promote, Clear, Crown, Enthrone, SetActive,
                  Drop, Quiet, At, Slots
    <2>2. CASE Insert(r)
      BY <1>3, <2>1, <2>2, TypeInsert DEF Fields, Inside
    <2>3. CASE Demote(r) \/ Clear(r) \/ Enthrone(r)
      BY <1>2, <2>1, <2>3, GotoSteps DEF Pcs, Inside
    <2>4. CASE Revive(r) \/ Promote(r) \/ Crown(r) \/ SetActive(r) \/ Drop(r)
      BY <1>3, <2>1, <2>4 DEF Revive, Promote, Crown, SetActive, Drop
    <2> QED BY <1>4, <2>1, <2>2, <2>3, <2>4 DEF RowStep
  <1>5. ASSUME NEW r \in Requests, Count(r) \/ Heir(r) \/ Consume(r) \/ Prove(r)
        PROVE  UNCHANGED refresh /\ Away
    <2>1. UNCHANGED refresh /\ req[r].pc \notin Slots
      BY <1>5 DEF Count, Heir, Consume, Prove, Quiet, At, Slots
    <2>2. CASE Count(r)
      BY <2>1, <2>2, TypeCount DEF Fields, Inside
    <2>3. CASE Heir(r)
      BY <1>3, <2>1, <2>3, TypeHeir DEF Fields, Inside
    <2>4. CASE Consume(r)
      BY <1>3, <2>1, <2>4, TypeConsume DEF Fields, Inside
    <2>5. CASE Prove(r)
      BY <1>3, <2>1, <2>5 DEF Prove
    <2> QED BY <1>5, <2>1, <2>2, <2>3, <2>4, <2>5
  <1>6. ASSUME NEW r \in Requests, Lose(r)
        PROVE  UNCHANGED refresh /\ Away
    <2>1. UNCHANGED refresh /\ End(r) /\ req[r].pc \notin Slots
      BY <1>6, CallFields DEF Lose, Placed
    <2> QED BY <1>3, <2>1
  <1>7. ASSUME NEW r \in Requests, NEW m \in Nonces, NEW u \in accounts \union {None},
               NEW good, Verify(r, m, u, good)
        PROVE  UNCHANGED refresh /\ (UNCHANGED req \/ Away)
    <2>1. UNCHANGED refresh
      BY <1>7 DEF Verify
    <2>2. \/ UNCHANGED req
          \/ \E n \in CallType :
               /\ req[r] = Free /\ req' = [req EXCEPT ![r] = n]
               /\ Fields(n, "verify", u, challenges[m].address, None, None, FALSE, m, "prove")
      BY <1>7, TypeVerify
    <2> QED BY <2>1, <2>2 DEF Fields, Inside
  <1>8. NonceStep \/ UNCHANGED vars => UNCHANGED refresh /\ UNCHANGED req
    <2>1. ASSUME NEW n \in Nonces, NEW a \in Addresses, Issue(n, a) \/ Expire(n) \/ Age(n)
          PROVE  UNCHANGED refresh /\ UNCHANGED req
      BY <2>1 DEF Issue, Expire, Age
    <2>2. UNCHANGED vars => UNCHANGED refresh /\ UNCHANGED req
      BY DEF vars, refresh
    <2>3. ASSUME NEW n \in Nonces, Expire(n) \/ Age(n)
          PROVE  UNCHANGED refresh /\ UNCHANGED req
      BY <2>3 DEF Expire, Age
    <2> QED BY <2>1, <2>2, <2>3 DEF NonceStep
  <1> HIDE DEF Away
  <1>9. \/ \E r \in Requests : Admit(r) \/ Balances(r) \/ Positions(r)
        \/ Tick \/ Restart
        \/ UNCHANGED refresh /\ UNCHANGED req
        \/ UNCHANGED refresh /\ Away
    BY <1>1, <1>4, <1>5, <1>6, <1>7, <1>8, Steps
  <1> QED BY <1>9 DEF Away

Refreshing == {r \in Requests : At(r, "balances") \/ At(r, "positions")}

\* The slots are the wallets of the running refreshes, each by one call.
SlotInv ==
  /\ limiter.inFlight = {Its(r) : r \in Refreshing}
  /\ \A r, s \in Refreshing : Its(r) = Its(s) => r = s
  /\ Cardinality(Refreshing) <= MaxConcurrent

\* A wallet's mark is as old as its last refresh, or it was forgotten after the cooldown.
MarkInv ==
  \A i \in Ids : sinceStart[i] # None =>
    \/ limiter.startedAt[i] = sinceStart[i]
    \/ limiter.startedAt[i] = None /\ sinceStart[i] >= Cooldown

LEMMA Counting ==
  /\ IsFiniteSet(Refreshing) /\ Cardinality(Refreshing) \in Nat
  /\ SlotInv => Cardinality(limiter.inFlight) = Cardinality(Refreshing)
  <1>1. IsFiniteSet(Refreshing)
    BY WalletAssumption, FS_Subset DEF Refreshing
  <1>2. Cardinality(Refreshing) \in Nat
    BY <1>1, FS_CardinalityType
  <1>3. ASSUME SlotInv
        PROVE  Cardinality(limiter.inFlight) = Cardinality(Refreshing)
    <2> DEFINE T == {Its(r) : r \in Refreshing}
               f == [r \in Refreshing |-> Its(r)]
    <2>1. f \in Injection(Refreshing, T) /\ f \in Surjection(Refreshing, T)
      BY <1>3 DEF SlotInv, Injection, Surjection, IsInjective
    <2>2. Cardinality(T) = Cardinality(Refreshing)
      <3> HIDE DEF T, f
      <3> QED BY <1>1, <2>1, FS_Surjection
    <2> QED BY <1>3, <2>2 DEF SlotInv
  <1> QED BY <1>1, <1>2, <1>3

LEMMA SlotsSafe ==
  ASSUME SlotInv
  PROVE  SlotsMatchRefreshes
  BY Counting DEF SlotInv, SlotsMatchRefreshes, Refreshing

\* The refreshes that run, and their wallets, before and after a step.
LEMMA SlotsStay ==
  ASSUME SlotInv, limiter'.inFlight = limiter.inFlight, Refreshing' = Refreshing,
         \A r \in Refreshing : Its(r)' = Its(r)
  PROVE  SlotInv'
  <1>1. {Its(r)' : r \in Refreshing'} = {Its(r) : r \in Refreshing}
    OBVIOUS
  <1> QED BY <1>1 DEF SlotInv

LEMMA SlotNext ==
  ASSUME TypeInv, SlotInv, [Next]_vars
  PROVE  SlotInv'
  <1>1. CASE UNCHANGED refresh /\ UNCHANGED req
    BY <1>1 DEF refresh, SlotInv, Refreshing, At, Its
  <1>2. ASSUME UNCHANGED refresh, NEW r \in Requests, NEW n \in CallType \union {Free},
               req' = [req EXCEPT ![r] = n], req[r] # Free => req[r].pc \notin Slots,
               n # Free => n.pc \notin Inside
        PROVE  SlotInv'
    <2>1. req'[r] = n /\ \A s \in Requests \ {r} : req'[s] = req[s]
      BY <1>2, Update
    <2>2. Refreshing' = Refreshing /\ r \notin Refreshing
      BY <1>2, <2>1 DEF Refreshing, At, Slots, Inside
    <2>3. \A s \in Refreshing : Its(s)' = Its(s)
      BY <2>1, <2>2 DEF Refreshing, Its
    <2> QED BY <1>2, <2>2, <2>3, SlotsStay DEF refresh
  <1>3. CASE Tick
    <2>1. req' = req /\ limiter'.inFlight = limiter.inFlight
      BY <1>3, TypeParts DEF Tick, LimiterType
    <2> QED BY <2>1, SlotsStay DEF Refreshing, At, Its
  <1>4. CASE Restart
    <2>1. limiter'.inFlight = {} /\ req' = [r \in Requests |-> Free]
      BY <1>4 DEF Restart, NewLimiter
    <2>2. Refreshing' = {}
      BY <2>1 DEF Refreshing, At
    <2> QED BY <2>1, <2>2, FS_EmptySet, WalletAssumption DEF SlotInv
  <1>5. ASSUME NEW r \in Requests, Admit(r)
        PROVE  SlotInv'
    <2> DEFINE i == Its(r)
               L == Prune(limiter)
    <2>1. /\ LimiterType /\ i \in Ids /\ L.inFlight = limiter.inFlight
          /\ req[r] # Free /\ req[r].pc = "admit" /\ r \notin Refreshing
      BY <1>5, TypeParts, ItsRow, PruneType DEF Admit, At, Rowed, Pcs, Refreshing
    <2>2. CASE Admitted(L, i)
      <3>1. /\ limiter' = [inFlight |-> L.inFlight \union {i},
                           startedAt |-> [L.startedAt EXCEPT ![i] = 0]]
            /\ Goto(r, "balances")
        BY <1>5, <2>2 DEF Admit
      <3>2. limiter'.inFlight = limiter.inFlight \union {i} /\ i \notin limiter.inFlight
            /\ Cardinality(limiter.inFlight) < MaxConcurrent
        BY <2>1, <2>2, <3>1 DEF Admitted
      <3>3. PICK n \in CallType :
              /\ req' = [req EXCEPT ![r] = n]
              /\ Fields(n, req[r].op, req[r].user, req[r].address, req[r].row, req[r].heir,
                        req[r].primary, req[r].nonce, "balances")
        BY <2>1, <3>1, GotoFields DEF Moves, Pcs
      <3>4. req'[r] = n /\ \A s \in Requests \ {r} : req'[s] = req[s]
        BY <3>3, Update
      <3>5. Refreshing' = Refreshing \union {r}
        BY <3>3, <3>4, WalletAssumption DEF Refreshing, At, Fields
      <3>6. Its(r)' = i /\ \A s \in Refreshing : Its(s)' = Its(s)
        BY <2>1, <3>3, <3>4 DEF Its, Fields, Refreshing
      <3>7. limiter'.inFlight = {Its(s)' : s \in Refreshing'}
        BY <3>2, <3>5, <3>6 DEF SlotInv
      <3>8. \A s, t \in Refreshing' : Its(s)' = Its(t)' => s = t
        BY <3>2, <3>5, <3>6 DEF SlotInv
      <3>9. Cardinality(Refreshing') <= MaxConcurrent
        <4>1. Cardinality(Refreshing \union {r}) = Cardinality(Refreshing) + 1
          BY <2>1, Counting, FS_AddElement
        <4> QED BY <3>2, <3>5, <4>1, Counting, WalletAssumption
      <3> QED BY <3>7, <3>8, <3>9 DEF SlotInv
    <2>3. CASE ~Admitted(L, i)
      <3>1. limiter' = L /\ End(r)
        BY <1>5, <2>3 DEF Admit
      <3>2. req'[r] = Free /\ \A s \in Requests \ {r} : req'[s] = req[s]
        BY <3>1, Update DEF End
      <3>3. Refreshing' = Refreshing /\ \A s \in Refreshing : Its(s)' = Its(s)
        BY <2>1, <3>2 DEF Refreshing, At, Its
      <3> QED BY <2>1, <3>1, <3>3, SlotsStay
    <2> QED BY <2>2, <2>3
  <1>6. ASSUME NEW r \in Requests, r \in Refreshing, End(r), Release(r)
        PROVE  SlotInv'
    <2>1. req'[r] = Free /\ \A s \in Requests \ {r} : req'[s] = req[s]
      BY <1>6, Update DEF End
    <2>2. Refreshing' = Refreshing \ {r} /\ \A s \in Refreshing \ {r} : Its(s)' = Its(s)
      BY <2>1 DEF Refreshing, At, Its
    <2>3. limiter'.inFlight = limiter.inFlight \ {Its(r)}
      BY <1>6, TypeParts DEF Release, LimiterType
    <2>4. limiter'.inFlight = {Its(s)' : s \in Refreshing'}
      BY <1>6, <2>2, <2>3 DEF SlotInv
    <2>5. \A s, t \in Refreshing' : Its(s)' = Its(t)' => s = t
      BY <2>2 DEF SlotInv
    <2>6. Cardinality(Refreshing') <= MaxConcurrent
      <3>1. IsFiniteSet(Refreshing) /\ Refreshing' \in SUBSET Refreshing
        BY <2>2, Counting
      <3>2. /\ Cardinality(Refreshing') <= Cardinality(Refreshing)
            /\ Cardinality(Refreshing') \in Nat /\ Cardinality(Refreshing) \in Nat
        BY <3>1, FS_Subset, FS_CardinalityType
      <3> QED BY <3>2, WalletAssumption DEF SlotInv
    <2> QED BY <2>4, <2>5, <2>6 DEF SlotInv
  <1>7. ASSUME NEW r \in Requests, Balances(r) \/ Positions(r)
        PROVE  SlotInv'
    <2>1. r \in Refreshing
      BY <1>7 DEF Balances, Positions, Refreshing
    <2>2. CASE Goto(r, "positions") /\ UNCHANGED limiter
      <3>1. PICK n \in CallType :
              /\ req' = [req EXCEPT ![r] = n]
              /\ Fields(n, req[r].op, req[r].user, req[r].address, req[r].row, req[r].heir,
                        req[r].primary, req[r].nonce, "positions")
        BY <2>1, <2>2, GotoFields DEF Moves, Pcs, Refreshing, At
      <3>2. req'[r] = n /\ \A s \in Requests \ {r} : req'[s] = req[s]
        BY <3>1, Update
      <3>3. Refreshing' = Refreshing /\ \A s \in Refreshing : Its(s)' = Its(s)
        BY <2>1, <3>1, <3>2, WalletAssumption DEF Refreshing, At, Its, Fields
      <3> QED BY <2>2, <3>3, SlotsStay
    <2> QED BY <1>6, <1>7, <2>1, <2>2 DEF Balances, Positions
  <1> QED BY <1>1, <1>2, <1>3, <1>4, <1>5, <1>7, Outside

LEMMA SlotInit == Init => SlotInv
  <1> SUFFICES ASSUME Init PROVE SlotInv
    OBVIOUS
  <1>1. limiter.inFlight = {} /\ Refreshing = {}
    BY DEF Init, NewLimiter, Refreshing, At
  <1> QED BY <1>1, FS_EmptySet, WalletAssumption DEF SlotInv

LEMMA MarkInit == Init => MarkInv
  BY DEF Init, MarkInv

LEMMA MarkNext ==
  ASSUME TypeInv, MarkInv, [Next]_vars
  PROVE  MarkInv'
  <1> DEFINE S == limiter.startedAt
  <1>1. LimiterType /\ S \in [Ids -> Nat \union {None}] /\ Cooldown \in Nat /\ None \notin Ids
    BY TypeParts, WalletAssumption DEF LimiterType
  <1>2. CASE UNCHANGED refresh
    BY <1>2 DEF refresh, MarkInv
  <1>3. CASE Tick
    <2>1. limiter'.startedAt = Older(S) /\ sinceStart' = Older(sinceStart)
      BY <1>1, <1>3 DEF Tick, LimiterType
    <2>2. /\ \A i \in Ids : Older(S)[i] = IF S[i] = None THEN None
                              ELSE IF S[i] + 1 <= Cooldown THEN S[i] + 1 ELSE Cooldown
          /\ \A i \in Ids : Older(sinceStart)[i] = IF sinceStart[i] = None THEN None
                  ELSE IF sinceStart[i] + 1 <= Cooldown THEN sinceStart[i] + 1 ELSE Cooldown
      BY <1>1, OlderType DEF LimiterType
    <2> SUFFICES ASSUME NEW i \in Ids, sinceStart'[i] # None
                 PROVE  \/ limiter'.startedAt[i] = sinceStart'[i]
                        \/ limiter'.startedAt[i] = None /\ sinceStart'[i] >= Cooldown
      BY DEF MarkInv
    <2>3. sinceStart[i] # None /\ sinceStart[i] \in Nat
      BY <1>1, <2>1, <2>2 DEF LimiterType
    <2>4. CASE S[i] = sinceStart[i]
      BY <2>1, <2>2, <2>4
    <2>5. CASE S[i] = None /\ sinceStart[i] >= Cooldown
      BY <1>1, <2>1, <2>2, <2>3, <2>5
    <2> QED BY <2>3, <2>4, <2>5 DEF MarkInv
  <1>4. CASE Restart
    BY <1>4 DEF Restart, MarkInv
  <1>5. ASSUME NEW r \in Requests, Admit(r)
        PROVE  MarkInv'
    <2> DEFINE L == Prune(limiter)
               i == Its(r)
    <2>1. /\ i \in Ids /\ L.startedAt \in [Ids -> Nat \union {None}]
          /\ \A j \in Ids : L.startedAt[j] =
               IF S[j] # None /\ ~(S[j] < Cooldown) /\ j \notin limiter.inFlight
               THEN None ELSE S[j]
      BY <1>1, <1>5, ItsRow, PruneType DEF Admit, At, Rowed, Pcs
    <2>2. \A j \in Ids : sinceStart[j] # None =>
            \/ L.startedAt[j] = sinceStart[j]
            \/ L.startedAt[j] = None /\ sinceStart[j] >= Cooldown
      <3> SUFFICES ASSUME NEW j \in Ids, sinceStart[j] # None
                   PROVE  \/ L.startedAt[j] = sinceStart[j]
                          \/ L.startedAt[j] = None /\ sinceStart[j] >= Cooldown
        OBVIOUS
      <3>1. sinceStart[j] \in Nat
        BY <1>1 DEF LimiterType
      <3>2. S[j] = sinceStart[j] \/ (S[j] = None /\ sinceStart[j] >= Cooldown)
        BY DEF MarkInv
      <3> HIDE DEF L, S
      <3> QED BY <1>1, <2>1, <3>1, <3>2
    <2>3. CASE limiter' = L /\ UNCHANGED sinceStart
      BY <2>2, <2>3 DEF MarkInv
    <2>4. CASE /\ limiter' = [inFlight |-> L.inFlight \union {i},
                              startedAt |-> [L.startedAt EXCEPT ![i] = 0]]
               /\ sinceStart' = [sinceStart EXCEPT ![i] = 0]
      <3>1. /\ limiter'.startedAt[i] = 0 /\ sinceStart'[i] = 0
            /\ \A j \in Ids \ {i} : /\ limiter'.startedAt[j] = L.startedAt[j]
                                    /\ sinceStart'[j] = sinceStart[j]
        BY <1>1, <2>1, <2>4 DEF LimiterType
      <3> QED BY <2>2, <3>1 DEF MarkInv
    <2> QED BY <1>5, <2>3, <2>4 DEF Admit
  <1>6. ASSUME NEW r \in Requests, Balances(r) \/ Positions(r)
        PROVE  MarkInv'
    <2>1. sinceStart' = sinceStart /\ limiter'.startedAt = S
      BY <1>1, <1>6 DEF Balances, Positions, Release, LimiterType
    <2> QED BY <2>1 DEF MarkInv
  <1> QED BY <1>2, <1>3, <1>4, <1>5, <1>6, Outside

\* A call that is told its refresh may begin was let in by the limiter.
LEMMA SpacedNext ==
  ASSUME TypeInv, MarkInv, [Next]_vars, NEW r \in Requests,
         At(r, "admit"), At(r, "balances")', sinceStart[Its(r)] # None
  PROVE  sinceStart[Its(r)] >= Cooldown
  <1> DEFINE i == Its(r)
             S == limiter.startedAt
             L == Prune(limiter)
  <1>1. LimiterType /\ i \in Ids /\ Cooldown \in Nat /\ sinceStart[i] \in Nat /\ S[i] \in Nat \union {None}
    <2>1. LimiterType /\ i \in Ids
      BY TypeParts, ItsRow DEF At, Rowed, Pcs
    <2> QED BY <2>1, WalletAssumption DEF LimiterType
  <1>2. ASSUME NEW s \in Requests, NEW n \in CallType \union {Free},
               req' = [req EXCEPT ![s] = n], s # r
        PROVE  FALSE
    <2>1. req'[r] = req[r]
      BY <1>2, Update
    <2> QED BY <2>1 DEF At
  <1>3. ~(UNCHANGED req) /\ ~Tick /\ ~Restart
    BY DEF At, Tick, Restart
  <1>4. ASSUME NEW s \in Requests, Admit(s) \/ Balances(s) \/ Positions(s)
        PROVE  s = r /\ Admit(r)
    <2>1. \E n \in CallType \union {Free} : req' = [req EXCEPT ![s] = n]
      <3>1. End(s) \/ Moves(s, "balances") \/ Moves(s, "positions")
        BY <1>4, TypeRefresh
      <3> QED BY <3>1 DEF End, Moves
    <2> QED BY <1>2, <1>4, <2>1 DEF Balances, Positions, At
  <1>5. ASSUME NEW s \in Requests, NEW n \in CallType \union {Free}, req' = [req EXCEPT ![s] = n],
               req[s] # Free => req[s].pc \notin Slots
        PROVE  FALSE
    BY <1>2, <1>5 DEF At, Slots
  <1>6. Admit(r)
    BY <1>3, <1>4, <1>5, Outside
  <1>7. Admitted(L, i)
    <2>1. ~End(r)
      <3>1. End(r) => req'[r] = Free
        BY Update DEF End
      <3> QED BY <3>1 DEF At
    <2> QED BY <1>6, <2>1 DEF Admit
  <1>8. /\ L.inFlight = limiter.inFlight
        /\ L.startedAt[i] = IF S[i] # None /\ ~(S[i] < Cooldown) /\ i \notin limiter.inFlight
                            THEN None ELSE S[i]
    BY <1>1, PruneType
  <1>9. \/ S[i] = sinceStart[i]
        \/ S[i] = None /\ sinceStart[i] >= Cooldown
    BY <1>1 DEF MarkInv
  <1>10. CASE S[i] = sinceStart[i]
    BY <1>1, <1>7, <1>8, <1>10 DEF Admitted, Cooling
  <1> QED BY <1>9, <1>10

-----------------------------------------------------------------------------
(* Nonces.                                                                 *)

\* A nonce is open until its one check.
NonceInv ==
  \A n \in Nonces : /\ checks[n] <= 1
                    /\ challenges[n] = None \/ challenges[n].open => checks[n] = 0

LEMMA NonceInit == Init => NonceInv
  BY DEF Init, NonceInv

LEMMA NonceNext ==
  ASSUME TypeInv, NonceInv, [Next]_vars
  PROVE  NonceInv'
  <1>1. AuthType
    BY TypeParts
  <1>2. CASE UNCHANGED <<challenges, checks>>
    BY <1>2 DEF NonceInv
  <1>3. ASSUME NEW r \in Requests, NEW call \in CallType, Entry(r, call)
        PROVE  UNCHANGED <<challenges, checks>>
    BY <1>3 DEF Entry, auth
  <1>4. ASSUME NEW r \in Requests, RowStep(r)
        PROVE  UNCHANGED <<challenges, checks>>
    BY <1>4 DEF RowStep, Insert, Revive, Demote, Promote, Clear, Crown, Enthrone, SetActive, Drop,
                Quiet, auth
  <1>5. ASSUME NEW r \in Requests, Count(r) \/ Heir(r) \/ Consume(r) \/ Prove(r)
        PROVE  UNCHANGED <<challenges, checks>>
    BY <1>5 DEF Count, Heir, Consume, Prove, Quiet, auth
  <1>6. ASSUME NEW r \in Requests, Admit(r) \/ Balances(r) \/ Positions(r) \/ Lose(r)
        PROVE  UNCHANGED <<challenges, checks>>
    BY <1>6 DEF Admit, Balances, Positions, Lose, auth
  <1>7. Tick \/ Restart \/ UNCHANGED vars => UNCHANGED <<challenges, checks>>
    BY DEF Tick, Restart, vars, auth
  <1>8. ASSUME NEW r \in Requests, NEW m \in Nonces, NEW u, NEW good, Verify(r, m, u, good)
        PROVE  NonceInv'
    <2>1. /\ challenges[m] # None /\ challenges[m].open
          /\ checks' = [checks EXCEPT ![m] = @ + 1]
          /\ challenges' = [challenges EXCEPT ![m].open = FALSE]
      BY <1>8 DEF Verify
    <2>2. challenges[m] \in ChallengeType /\ checks[m] = 0
      BY <1>1, <2>1 DEF AuthType, NonceInv
    <2>3. [challenges[m] EXCEPT !.open = FALSE] \in ChallengeType
      BY <2>2 DEF ChallengeType
    <2>4. /\ checks'[m] = 1 /\ challenges'[m] # None /\ ~challenges'[m].open
          /\ \A n \in Nonces \ {m} : checks'[n] = checks[n] /\ challenges'[n] = challenges[n]
      <3> DEFINE c == [challenges[m] EXCEPT !.open = FALSE]
      <3>1. c \in ChallengeType /\ ~c.open /\ c # None
        BY <2>2, <2>3, WalletAssumption DEF ChallengeType
      <3>2. challenges' = [challenges EXCEPT ![m] = c]
        BY <1>1, <2>1 DEF AuthType
      <3> HIDE DEF c
      <3>3. challenges'[m] = c /\ \A n \in Nonces \ {m} : challenges'[n] = challenges[n]
        BY <1>1, <3>2 DEF AuthType
      <3>4. checks'[m] = 1 /\ \A n \in Nonces \ {m} : checks'[n] = checks[n]
        BY <1>1, <2>1, <2>2 DEF AuthType
      <3>5. challenges'[m] # None /\ ~challenges'[m].open
        BY <3>1, <3>3
      <3> QED BY <3>3, <3>4, <3>5
    <2> QED BY <2>4 DEF NonceInv
  <1>9. ASSUME NEW m \in Nonces, NEW a \in Addresses, Issue(m, a)
        PROVE  NonceInv'
    <2>1. /\ checks' = checks /\ challenges[m] = None /\ checks[m] = 0
          /\ \A n \in Nonces \ {m} : challenges'[n] = challenges[n]
      BY <1>1, <1>9 DEF Issue, AuthType, NonceInv
    <2> QED BY <2>1 DEF NonceInv
  <1>10. ASSUME NEW m \in Nonces, Expire(m) \/ Age(m)
         PROVE  NonceInv'
    <2>1. Age(m) => UNCHANGED <<challenges, checks>>
      BY DEF Age
    <2>2. CASE Expire(m)
      <3>1. /\ checks' = checks /\ challenges[m] # None /\ checks[m] = 0
            /\ \A n \in Nonces \ {m} : challenges'[n] = challenges[n]
        BY <1>1, <2>2 DEF Expire, AuthType, NonceInv
      <3> QED BY <3>1 DEF NonceInv
    <2> QED BY <1>2, <1>10, <2>1, <2>2
  <1>11. NonceStep => NonceInv'
    BY <1>9, <1>10 DEF NonceStep
  <1> QED BY <1>2, <1>3, <1>4, <1>5, <1>6, <1>7, <1>8, <1>11, Steps

-----------------------------------------------------------------------------
(* The primary of a user whose calls run one at a time.                    *)

WalletCall(q) == q # Free /\ q.op \in WalletOps

Owns(i, u, R) == i \in Ids /\ R[i] # None /\ R[i].user = u

\* One primary among the rows of u, and it is active.
Good(u, R) ==
  /\ \A i, j \in Ids : Owns(i, u, R) /\ Owns(j, u, R) /\ R[i].primary /\ R[j].primary => i = j
  /\ \A i \in Ids : Owns(i, u, R) /\ R[i].primary => R[i].active
  /\ \A i \in Ids : Owns(i, u, R) => \E j \in Ids : Owns(j, u, R) /\ R[j].primary

\* What holds of the rows of q's user at the statement q is at, when q is alone.
Stage(q, R) ==
  /\ q.pc \notin {"crown", "setactive", "drop"} => Good(q.user, R)
  /\ q.pc = "insert" => (q.primary <=> \A i \in Ids : ~Owns(i, q.user, R))
  /\ q.pc \in {"clear", "crown"} => Owns(q.row, q.user, R)
  /\ q.pc = "crown" => \A i \in Ids : Owns(i, q.user, R) => ~R[i].primary
  /\ q.pc \in {"heir", "enthrone"} => Owns(q.row, q.user, R) /\ R[q.row].primary
  /\ q.pc = "enthrone" => /\ Owns(q.heir, q.user, R) /\ R[q.heir].active
                          /\ q.heir # q.row
  /\ q.pc \in {"setactive", "drop"} /\ q.heir = None =>
       /\ Good(q.user, R)
       /\ q.op # "activate" /\ Owns(q.row, q.user, R) => ~R[q.row].primary
  /\ q.pc \in {"setactive", "drop"} /\ q.heir # None =>
       /\ q.op # "activate" /\ q.heir # q.row
       /\ Owns(q.heir, q.user, R) /\ R[q.heir].active /\ R[q.heir].primary
       /\ \A i \in Ids : Owns(i, q.user, R) /\ R[i].primary => i = q.heir \/ i = q.row
  /\ q.op = "recover" => Owns(q.row, q.user, R) /\ R[q.row].signer

\* Two calls of one user tear him.
Alone ==
  \A r, s \in Requests : /\ WalletCall(req[r]) /\ WalletCall(req[s])
                         /\ req[r].user = req[s].user /\ req[r].user \notin torn
                         => r = s
Kept   == \A u \in accounts \ torn : ~Busy(u) => Good(u, rows)
Stages == \A r \in Requests :
            WalletCall(req[r]) /\ req[r].user \notin torn => Stage(req[r], rows)

PrimInv == Alone /\ Kept /\ Stages

LEMMA SameRows ==
  ASSUME NEW u, NEW R, NEW R2, \A i \in Ids : Owns(i, u, R) \/ Owns(i, u, R2) => R2[i] = R[i]
  PROVE  /\ Good(u, R) => Good(u, R2)
         /\ \A q : q.user = u /\ Stage(q, R) => Stage(q, R2)
  <1>1. \A i : Owns(i, u, R) <=> Owns(i, u, R2)
    BY DEF Owns
  <1>2. \A i : Owns(i, u, R) => i \in Ids /\ R2[i] = R[i]
    BY DEF Owns
  <1>3. Good(u, R) <=> Good(u, R2)
    BY <1>1, <1>2 DEF Good
  <1>4. ASSUME NEW q, q.user = u, Stage(q, R)
        PROVE  Stage(q, R2)
    BY <1>1, <1>2, <1>3, <1>4 DEF Stage
  <1> QED BY <1>3, <1>4

\* A call on the wallets takes a step on its own user's rows, or ends.
LEMMA OneCall ==
  ASSUME TypeInv, PrimInv, NEW r \in Requests, WalletCall(req[r]),
         NEW n \in CallType \union {Free}, req' = [req EXCEPT ![r] = n],
         n # Free => n.op = req[r].op /\ n.user = req[r].user,
         accounts' = accounts, torn \subseteq torn',
         \A i \in Ids : \/ rows'[i] = rows[i]
                        \/ /\ rows[i] # None => rows[i].user = req[r].user
                           /\ rows'[i] # None => rows'[i].user = req[r].user,
         req[r].user \notin torn' => IF n = Free THEN Good(req[r].user, rows')
                                                 ELSE Stage(n, rows')
  PROVE  PrimInv'
  <1> DEFINE u == req[r].user
  <1>1. req'[r] = n /\ \A s \in Requests \ {r} : req'[s] = req[s]
    BY Update
  <1>2. \A s \in Requests : WalletCall(req'[s]) => WalletCall(req[s]) /\ req'[s].user = req[s].user
    BY <1>1 DEF WalletCall
  <1>3. ASSUME NEW v, v # u
        PROVE  /\ Good(v, rows) => Good(v, rows')
               /\ \A q : q.user = v /\ Stage(q, rows) => Stage(q, rows')
    <2>1. \A i \in Ids : Owns(i, v, rows) \/ Owns(i, v, rows') => rows'[i] = rows[i]
      BY <1>3 DEF Owns
    <2> QED BY <2>1, SameRows
  <1>4. Alone'
    BY <1>2 DEF PrimInv, Alone
  <1>5. Stages'
    <2> SUFFICES ASSUME NEW s \in Requests, WalletCall(req'[s]), req'[s].user \notin torn'
                 PROVE  Stage(req'[s], rows')
      BY DEF Stages
    <2>1. CASE s = r
      BY <1>1, <2>1 DEF WalletCall
    <2>2. CASE s # r
      <3>1. req'[s] = req[s] /\ req[s].user \notin torn /\ WalletCall(req[s])
        BY <1>1, <2>2
      <3>2. req[s].user # u /\ Stage(req[s], rows)
        BY <2>2, <3>1 DEF PrimInv, Alone, Stages
      <3> QED BY <1>3, <3>1, <3>2
    <2> QED BY <2>1, <2>2
  <1>6. Kept'
    <2> SUFFICES ASSUME NEW v \in accounts, v \notin torn', ~Busy(v)'
                 PROVE  Good(v, rows')
      BY DEF Kept
    <2>1. CASE v = u
      <3>1. n = Free
        BY <1>1, <2>1 DEF Busy, WalletCall
      <3> QED BY <2>1, <3>1
    <2>2. CASE v # u
      <3>1. ~Busy(v)
        BY <1>1, <2>2 DEF Busy
      <3> QED BY <1>3, <2>2, <3>1 DEF PrimInv, Kept
    <2> QED BY <2>1, <2>2
  <1> QED BY <1>4, <1>5, <1>6 DEF PrimInv

\* A refresh or a verification begins, goes on or ends.
LEMMA OtherCall ==
  ASSUME TypeInv, PrimInv, NEW r \in Requests, ~WalletCall(req[r]),
         NEW n \in CallType \union {Free}, req' = [req EXCEPT ![r] = n], ~WalletCall(n),
         accounts' = accounts, torn' = torn, rows' = rows
  PROVE  PrimInv'
  <1>1. req'[r] = n /\ \A s \in Requests \ {r} : req'[s] = req[s]
    BY Update
  <1>2. \A s \in Requests : WalletCall(req'[s]) \/ WalletCall(req[s]) => req'[s] = req[s]
    BY <1>1
  <1>3. \A v : Busy(v)' <=> Busy(v)
    BY <1>2 DEF Busy, WalletCall
  <1> QED BY <1>2, <1>3 DEF PrimInv, Alone, Kept, Stages

LEMMA PrimEntry ==
  ASSUME TypeInv, PrimInv, NEW r \in Requests, NEW call \in CallType, Entry(r, call)
  PROVE  PrimInv'
  <1> DEFINE u == call.user
  <1>1. /\ req[r] = Free /\ req'[r] = call /\ \A s \in Requests \ {r} : req'[s] = req[s]
        /\ rows' = rows /\ accounts \subseteq accounts' /\ torn \subseteq torn'
        /\ WalletCall(call) /\ Busy(u) => u \in torn'
    BY Update DEF Entry, Begin, book, WalletCall
  <1>2. ASSUME NEW v, v \notin accounts
        PROVE  Good(v, rows) /\ \A i \in Ids : ~Owns(i, v, rows)
    BY <1>2, TypeParts DEF BookType, Owns, Good
  <1>3. ASSUME WalletCall(call), u \notin torn'
        PROVE  Stage(call, rows)
    <2>1. Good(u, rows)
      BY <1>1, <1>2, <1>3 DEF PrimInv, Kept
    <2>2. Placed(call) /\ Knows(call, accounts', created, rows) /\ WalletAssumption
      BY WalletAssumption DEF Entry
    <2>3. call.pc \in Rowed => Owns(call.row, u, rows)
      BY <2>2 DEF Entry, Placed, Knows, Owns
    <2>4. call.pc = "insert" => (call.primary <=> \A i \in Ids : ~Owns(i, u, rows))
      BY <1>2 DEF Entry
    <2>5. call.pc \in {"clear", "crown"} => Owns(call.row, u, rows)
      BY <2>3 DEF Rowed, Pcs
    <2>6. call.pc \notin {"crown", "enthrone"} /\ call.heir = None
      BY DEF Entry
    <2>7. call.pc = "heir" => Owns(call.row, u, rows) /\ rows[call.row].primary
      BY <2>3 DEF Entry, Rowed, Pcs
    <2>8. call.pc \in {"setactive", "drop"} /\ call.op # "activate" => ~rows[call.row].primary
      BY <2>2 DEF Entry, Placed
    <2>9. call.op = "recover" => Owns(call.row, u, rows) /\ rows[call.row].signer
      <3>1. call.op = "recover" => call.pc \in Rowed
        BY <1>3, <2>2 DEF Entry, Placed, WalletCall, WalletOps, Slots, Rowed, Pcs
      <3> QED BY <2>3, <3>1 DEF Entry
    <2> QED BY <2>1, <2>4, <2>5, <2>6, <2>7, <2>8, <2>9 DEF Stage
  <1>4. Alone'
    <2> SUFFICES ASSUME NEW s \in Requests, NEW t \in Requests, WalletCall(req'[s]),
                        WalletCall(req'[t]), req'[s].user = req'[t].user,
                        req'[s].user \notin torn', s # t
                 PROVE  FALSE
      BY DEF Alone
    <2>1. ASSUME NEW x \in Requests \ {r}, WalletCall(req'[x]), req'[x].user = u, req'[r].op \in WalletOps,
                 u \notin torn'
          PROVE  FALSE
      BY <1>1, <2>1, WalletAssumption DEF Busy, WalletCall
    <2>2. s # r /\ t # r
      BY <1>1, <2>1 DEF WalletCall
    <2> QED BY <1>1, <2>2 DEF PrimInv, Alone
  <1>5. Stages'
    BY <1>1, <1>3 DEF PrimInv, Stages
  <1>6. Kept'
    <2> SUFFICES ASSUME NEW v \in accounts', v \notin torn', ~Busy(v)'
                 PROVE  Good(v, rows)
      BY <1>1 DEF Kept
    <2>1. ~Busy(v)
      BY <1>1 DEF Busy
    <2> QED BY <1>1, <1>2, <2>1 DEF PrimInv, Kept
  <1> QED BY <1>4, <1>5, <1>6 DEF PrimInv

\* A statement changes rows of its own user only.
LEMMA OwnRows ==
  ASSUME TypeInv, NEW r \in Requests, RowStep(r)
  PROVE  \A i \in Ids : \/ rows'[i] = rows[i]
                        \/ /\ rows[i] # None => rows[i].user = req[r].user
                           /\ rows'[i] # None => rows'[i].user = req[r].user
  <1> DEFINE Own == \A i \in Ids : \/ rows'[i] = rows[i]
                                   \/ /\ rows[i] # None => rows[i].user = req[r].user
                                      /\ rows'[i] # None => rows'[i].user = req[r].user
  <1>1. rows' = rows => Own
    OBVIOUS
  <1>2. ASSUME NEW t \in Ids, NEW p, NEW a, NEW s, Effect(t, p, a, s),
               rows[t].user = req[r].user
        PROVE  Own
    BY <1>2 DEF Effect, Keeps
  <1>3. CASE Insert(r)
    <2>1. ASSUME NEW i \in Ids \ created, rows[i] = None,
                 rows'[i] = Row(req[r].user, req[r].address, req[r].primary),
                 rows' = [rows EXCEPT ![i] = Row(req[r].user, req[r].address, req[r].primary)]
          PROVE  Own
      <3>1. rows'[i].user = req[r].user /\ \A j \in Ids \ {i} : rows'[j] = rows[j]
        BY <2>1, TypeParts DEF BookType, Row
      <3> QED BY <2>1, <3>1
    <2> QED BY <1>1, <1>3, <2>1, TypeInsert DEF book
  <1>4. CASE Demote(r)
    <2>1. \A i \in Ids \ Mine(r) : rows'[i] = rows[i]
      BY <1>4 DEF Demote
    <2>2. Keeps(rows, rows', Ids)
      BY <1>4, DemoteRows
    <2> QED BY <2>1, <2>2 DEF Mine, RowsOf, Keeps
  <1>5. CASE Clear(r)
    <2>1. \A i \in Ids \ Mine(r) : rows'[i] = rows[i]
      BY <1>5 DEF Clear
    <2>2. Keeps(rows, rows', Ids)
      BY <1>5, ClearRows
    <2> QED BY <2>1, <2>2 DEF Mine, RowsOf, Keeps
  <1>6. CASE Drop(r)
    <2>1. /\ rows'[Its(r)] = None /\ \A i \in Ids \ {Its(r)} : rows'[i] = rows[i]
          /\ rows[Its(r)] # None => rows[Its(r)].user = req[r].user
      BY <1>6, DropRows, ItsRow DEF Drop, At, Rowed, Pcs
    <2> QED BY <2>1
  <1>7. CASE Revive(r) \/ Promote(r) \/ Crown(r) \/ SetActive(r)
    <2>1. Its(r) \in Ids /\ (rows[Its(r)] # None => rows[Its(r)].user = req[r].user)
      BY <1>7, ItsRow DEF Revive, Promote, Crown, SetActive, At, Rowed, Pcs
    <2>2. rows' = rows \/ \E p, a, s : Effect(Its(r), p, a, s)
      BY <1>7, OneRow
    <2> QED BY <1>1, <1>2, <2>1, <2>2 DEF Effect
  <1>8. CASE Enthrone(r)
    <2>1. req[r].heir \in Ids /\ (rows[req[r].heir] # None => rows[req[r].heir].user = req[r].user)
      BY <1>8, CallFields DEF Enthrone, At, Placed, Knows
    <2>2. rows' = rows \/ \E p, a, s : Effect(req[r].heir, p, a, s)
      BY <1>8, OneRow
    <2> QED BY <1>1, <1>2, <2>1, <2>2 DEF Effect
  <1> QED BY <1>3, <1>4, <1>5, <1>6, <1>7, <1>8 DEF RowStep

\* The primary stays when the rows of u lose at most watch-only ones and none is paused.
LEMMA GoodStays ==
  ASSUME NEW u, NEW R, NEW R2, Good(u, R),
         \A i \in Ids : Owns(i, u, R2) => /\ Owns(i, u, R) /\ R2[i].primary = R[i].primary
                                          /\ R[i].primary /\ R[i].active => R2[i].active,
         \A i \in Ids : Owns(i, u, R) /\ R[i].primary => Owns(i, u, R2)
  PROVE  Good(u, R2)
  BY DEF Good

LEMMA GoodOne ==
  ASSUME NEW u, NEW R, NEW h \in Ids, Owns(h, u, R), R[h].primary, R[h].active,
         \A i \in Ids : Owns(i, u, R) /\ R[i].primary => i = h
  PROVE  Good(u, R)
  BY DEF Good

LEMMA EffectOwns ==
  ASSUME NEW t \in Ids, NEW p, NEW a, NEW s, Effect(t, p, a, s), NEW u
  PROVE  \A i \in Ids : /\ Owns(i, u, rows') <=> Owns(i, u, rows)
                        /\ i # t => rows'[i] = rows[i]
  BY DEF Effect, Keeps, Owns

\* The statements that leave the primary where it is.
LEMMA CalmRows ==
  ASSUME TypeInv, NEW r \in Requests, Revive(r) \/ Demote(r) \/ Promote(r), NEW u, Good(u, rows)
  PROVE  Good(u, rows')
  <1>1. ASSUME NEW t \in Ids, NEW s, Effect(t, rows[t].primary, TRUE, s)
        PROVE  Good(u, rows')
    <2>1. /\ rows'[t].primary = rows[t].primary /\ rows'[t].active
          /\ \A i \in Ids : /\ Owns(i, u, rows') <=> Owns(i, u, rows)
                            /\ i # t => rows'[i] = rows[i]
      BY <1>1, EffectOwns DEF Effect
    <2> QED BY <2>1, GoodStays
  <1>2. CASE Demote(r)
    <2>1. \A i \in Ids : /\ Owns(i, u, rows') <=> Owns(i, u, rows)
                         /\ Owns(i, u, rows) => /\ rows'[i].primary = rows[i].primary
                                                /\ rows'[i].active = rows[i].active
      BY <1>2, DemoteRows DEF Owns, Keeps
    <2> QED BY <2>1, GoodStays
  <1>3. CASE Revive(r) \/ Promote(r)
    <2>1. Its(r) \in Ids
      BY <1>3, ItsRow DEF Revive, Promote, At, Rowed, Pcs
    <2> QED BY <1>1, <1>3, <2>1, OneRow
  <1> QED BY <1>2, <1>3

LEMMA StageInsert ==
  ASSUME TypeInv, NEW r \in Requests, Insert(r), Stage(req[r], rows)
  PROVE  Good(req[r].user, rows')
  <1> DEFINE u == req[r].user
  <1>1. /\ req[r] # Free /\ req[r].pc = "insert"
        /\ Good(u, rows) /\ (req[r].primary <=> \A i \in Ids : ~Owns(i, u, rows))
    BY DEF Insert, At, Stage
  <1>2. ASSUME NEW i \in Ids \ created, rows[i] = None,
               rows'[i] = Row(u, req[r].address, req[r].primary),
               rows' = [rows EXCEPT ![i] = Row(u, req[r].address, req[r].primary)],
               rows'[i] \in RowType
        PROVE  Good(u, rows')
    <2>1. /\ rows'[i].user = u /\ rows'[i].primary = req[r].primary /\ rows'[i].active
          /\ rows'[i] # None /\ \A j \in Ids \ {i} : rows'[j] = rows[j]
      BY <1>2, TypeParts, WalletAssumption DEF BookType, Row
    <2>2. /\ ~Owns(i, u, rows) /\ Owns(i, u, rows')
          /\ \A j \in Ids \ {i} : Owns(j, u, rows') <=> Owns(j, u, rows)
      BY <1>2, <2>1 DEF Owns
    <2>3. CASE req[r].primary
      BY <1>1, <2>1, <2>2, <2>3, GoodOne
    <2>4. CASE ~req[r].primary
      BY <1>1, <2>1, <2>2, <2>4 DEF Good
    <2> QED BY <2>3, <2>4
  <1>3. CASE UNCHANGED book
    BY <1>1, <1>3 DEF book
  <1> QED BY <1>2, <1>3, TypeInsert

LEMMA StageCrown ==
  ASSUME TypeInv, NEW r \in Requests, Crown(r), Stage(req[r], rows)
  PROVE  Good(req[r].user, rows')
  <1> DEFINE u == req[r].user
             t == Its(r)
  <1>1. /\ req[r] # Free /\ req[r].pc = "crown" /\ Owns(t, u, rows)
        /\ \A i \in Ids : Owns(i, u, rows) => ~rows[i].primary
    BY DEF Crown, At, Stage, Its
  <1>2. t \in Ids /\ Effect(t, TRUE, TRUE, rows[t].signer)
    BY <1>1, OneRow DEF Owns
  <1> HIDE DEF t, u
  <1>3. /\ rows'[t].primary /\ rows'[t].active /\ Owns(t, u, rows')
        /\ \A i \in Ids : /\ Owns(i, u, rows') <=> Owns(i, u, rows)
                          /\ i # t => rows'[i] = rows[i]
    BY <1>1, <1>2, EffectOwns DEF Effect
  <1>4. Good(u, rows')
    BY <1>1, <1>2, <1>3, GoodOne
  <1> QED BY <1>4 DEF u

LEMMA StageEnthrone ==
  ASSUME TypeInv, NEW r \in Requests, Enthrone(r), Stage(req[r], rows), NEW n \in CallType,
         Placed(n), n.user = req[r].user, n.row = req[r].row, n.heir = req[r].heir,
         n.op = req[r].op, n.pc \in {"setactive", "drop"}
  PROVE  Stage(n, rows')
  <1> DEFINE u == req[r].user
             h == req[r].heir
             t == req[r].row
  <1>1. /\ req[r] # Free /\ req[r].pc = "enthrone" /\ Owns(h, u, rows) /\ rows[h].active
        /\ h # t /\ Owns(t, u, rows) /\ rows[t].primary /\ Good(u, rows)
        /\ h \in Ids /\ h # None
    BY WalletAssumption DEF Enthrone, At, Stage, Owns
  <1>2. req[r].op \in {"pause", "delete"}
    BY <1>1, CallFields DEF Placed
  <1>3. Effect(h, TRUE, rows[h].active, rows[h].signer)
    BY <1>1, OneRow DEF Owns
  <1>4. /\ rows'[h].primary /\ rows'[h].active /\ Owns(h, u, rows')
        /\ \A i \in Ids : /\ Owns(i, u, rows') <=> Owns(i, u, rows)
                          /\ i # h => rows'[i] = rows[i]
    <2> HIDE DEF h, u
    <2> QED BY <1>1, <1>3, EffectOwns DEF Effect
  <1>5. \A i \in Ids : Owns(i, u, rows') /\ rows'[i].primary => i = h \/ i = t
    BY <1>1, <1>4 DEF Good, Owns
  <1> QED BY <1>1, <1>2, <1>4, <1>5 DEF Stage

\* The last statement of a pause or a deletion leaves the heir, or the primary it had.
LEMMA StageLast ==
  ASSUME TypeInv, NEW r \in Requests, SetActive(r) \/ Drop(r), Stage(req[r], rows)
  PROVE  Good(req[r].user, rows')
  <1> DEFINE u == req[r].user
             h == req[r].heir
             t == req[r].row
  <1>1. /\ req[r] # Free /\ req[r].pc \in {"setactive", "drop"} /\ t = Its(r) /\ t \in Ids
        /\ Placed(req[r]) /\ (rows[t] # None => Owns(t, u, rows))
    BY ItsRow, CallFields DEF SetActive, Drop, At, Its, Rowed, Pcs, Owns
  <1>2. /\ h = None => /\ Good(u, rows)
                       /\ req[r].op # "activate" /\ Owns(t, u, rows) => ~rows[t].primary
        /\ h # None => /\ req[r].op # "activate" /\ h # t /\ h \in Ids
                       /\ Owns(h, u, rows) /\ rows[h].active /\ rows[h].primary
                       /\ \A i \in Ids : Owns(i, u, rows) /\ rows[i].primary => i = h \/ i = t
    BY <1>1 DEF Stage, Owns
  <1>3. \* The row itself is no primary afterwards, and the others stay.
        ASSUME req[r].op # "activate",
               \A i \in Ids \ {t} : rows'[i] = rows[i],
               Owns(t, u, rows') => Owns(t, u, rows) /\ ~rows'[t].primary
        PROVE  Good(u, rows')
    <2>1. \A i \in Ids \ {t} : Owns(i, u, rows') <=> Owns(i, u, rows)
      BY <1>3 DEF Owns
    <2>2. CASE h = None
      <3>1. Good(u, rows) /\ (Owns(t, u, rows) => ~rows[t].primary)
        BY <1>2, <1>3, <2>2
      <3> HIDE DEF u, t, h
      <3>2. \A i \in Ids : Owns(i, u, rows') => Owns(i, u, rows) /\ (rows'[i].primary => i # t)
        BY <1>3, <2>1
      <3> QED BY <1>3, <2>1, <3>1, <3>2 DEF Good
    <2>3. CASE h # None
      <3> HIDE DEF u, t, h
      <3>1. Owns(h, u, rows') /\ rows'[h].primary /\ rows'[h].active /\ h \in Ids
        BY <1>2, <1>3, <2>1, <2>3
      <3>2. \A i \in Ids : Owns(i, u, rows') /\ rows'[i].primary => i = h
        BY <1>2, <1>3, <2>1, <2>3
      <3> QED BY <3>1, <3>2, GoodOne
    <2> QED BY <2>2, <2>3
  <1>4. CASE Drop(r)
    <2>1. rows'[t] = None /\ \A i \in Ids \ {t} : rows'[i] = rows[i]
      BY <1>1, <1>4, DropRows
    <2>2. req[r].op = "delete"
      BY <1>1, <1>4 DEF Drop, At, Placed
    <2> QED BY <1>3, <2>1, <2>2 DEF Owns
  <1>5. CASE SetActive(r)
    <2>1. req[r].op \in {"activate", "pause"}
      BY <1>1, <1>5 DEF SetActive, At, Placed
    <2>2. CASE rows' = rows /\ rows[t] = None
      <3>1. CASE req[r].op = "activate"
        BY <1>2, <2>2, <3>1
      <3>2. CASE req[r].op # "activate"
        BY <1>3, <2>2, <3>2 DEF Owns
      <3> QED BY <3>1, <3>2
    <2>3. CASE req[r].op = "pause" /\ Effect(t, FALSE, FALSE, rows[t].signer)
      <3>1. ~rows'[t].primary /\ \A i \in Ids \ {t} : rows'[i] = rows[i]
        BY <2>3 DEF Effect
      <3>2. Owns(t, u, rows') => Owns(t, u, rows)
        BY <1>1, <2>3, EffectOwns
      <3> QED BY <1>3, <2>3, <3>1, <3>2
    <2>4. CASE req[r].op # "pause" /\ Effect(t, rows[t].primary, TRUE, rows[t].signer)
      <3>1. Good(u, rows)
        BY <1>2, <2>1, <2>4
      <3>2. /\ rows'[t].primary = rows[t].primary /\ rows'[t].active
            /\ \A i \in Ids : /\ Owns(i, u, rows') <=> Owns(i, u, rows)
                              /\ i # t => rows'[i] = rows[i]
        BY <1>1, <2>4, EffectOwns DEF Effect
      <3> HIDE DEF u, t
      <3>3. Good(u, rows')
        BY <3>1, <3>2, GoodStays
      <3> QED BY <3>3 DEF u
    <2> QED BY <1>1, <1>5, <2>2, <2>3, <2>4, OneRow
  <1> QED BY <1>4, <1>5

LEMMA StageClear ==
  ASSUME TypeInv, NEW r \in Requests, Clear(r), Stage(req[r], rows), NEW n \in CallType,
         n.user = req[r].user, n.row = req[r].row, n.pc = "crown", n.op # "recover"
  PROVE  Stage(n, rows')
  <1> DEFINE u == req[r].user
  <1>1. Owns(req[r].row, u, rows)
    BY DEF Clear, At, Stage
  <1>2. \A i \in Ids : Owns(i, u, rows') => Owns(i, u, rows)
    BY ClearRows DEF Owns, Keeps
  <1>3. \A i \in Ids : Owns(i, u, rows) => Owns(i, u, rows') /\ ~rows'[i].primary
    BY ClearRows DEF Owns, Keeps, Mine, RowsOf
  <1>4. Owns(req[r].row, u, rows')
    BY <1>1, <1>3 DEF Owns
  <1> QED BY <1>2, <1>3, <1>4 DEF Stage

LEMMA StageDemote ==
  ASSUME TypeInv, NEW r \in Requests, Demote(r), Stage(req[r], rows), NEW n \in CallType,
         n.user = req[r].user, n.row = req[r].row, n.op = req[r].op, n.pc = "promote"
  PROVE  Stage(n, rows')
  <1>1. Good(req[r].user, rows) /\ req[r].pc = "demote"
    BY DEF Demote, At, Stage
  <1>2. Good(n.user, rows')
    BY <1>1, CalmRows
  <1>3. n.op = "recover" => Owns(n.row, n.user, rows') /\ rows'[n.row].signer
    <2>1. n.op = "recover" => Owns(n.row, n.user, rows) /\ rows[n.row].signer /\ n.row = Its(r)
      BY DEF Stage, Its
    <2> QED BY <2>1, DemoteRows DEF Owns, Keeps
  <1> QED BY <1>2, <1>3 DEF Stage

LEMMA PrimRows ==
  ASSUME TypeInv, PrimInv, NEW r \in Requests, RowStep(r)
  PROVE  PrimInv'
  <1> DEFINE u == req[r].user
  <1>1. /\ req[r] # Free /\ accounts' = accounts /\ torn' = torn
        /\ req[r].pc \in {"insert", "revive", "demote", "promote", "clear", "crown", "enthrone",
                          "setactive", "drop"}
    BY DEF RowStep, Insert, Revive, Demote, Promote, Clear, Crown, Enthrone, SetActive, Drop,
           Quiet, At, people
  <1>2. Placed(req[r]) /\ WalletCall(req[r])
    BY <1>1, CallFields DEF Placed, WalletCall, WalletOps, Slots
  <1>3. u \notin torn => Stage(req[r], rows)
    BY <1>2 DEF PrimInv, Stages
  <1>4. ASSUME End(r), u \notin torn => Good(u, rows')
        PROVE  PrimInv'
    BY <1>1, <1>2, <1>4, OwnRows, OneCall DEF End
  <1>5. ASSUME NEW n \in CallType, req' = [req EXCEPT ![r] = n], n.op = req[r].op, n.user = u,
               u \notin torn => Stage(n, rows')
        PROVE  PrimInv'
    BY <1>1, <1>2, <1>5, OwnRows, OneCall, WalletAssumption
  <1>6. CASE Insert(r)
    <2>1. u \notin torn => Good(u, rows')
      BY <1>3, <1>6, StageInsert
    <2>2. ASSUME NEW i \in Ids, NEW n \in CallType, req' = [req EXCEPT ![r] = n],
                 Fields(n, req[r].op, u, req[r].address, i, req[r].heir, req[r].primary,
                        req[r].nonce, "demote")
          PROVE  PrimInv'
      <3>1. req[r].op # "recover"
        BY <1>2, <1>6 DEF Insert, At, Placed
      <3>2. u \notin torn => Stage(n, rows')
        BY <2>1, <2>2, <3>1 DEF Stage, Fields
      <3> QED BY <1>5, <2>2, <3>2 DEF Fields
    <2> QED BY <1>4, <1>6, <2>1, <2>2, TypeInsert
  <1>7. CASE Demote(r) \/ Clear(r) \/ Enthrone(r)
    <2>1. PICK n \in CallType :
            /\ req' = [req EXCEPT ![r] = n]
            /\ n.op = req[r].op /\ n.user = u /\ n.row = req[r].row /\ n.heir = req[r].heir
            /\ \/ Demote(r) /\ n.pc = "promote"
               \/ Clear(r) /\ n.pc = "crown"
               \/ Enthrone(r) /\ n.pc = IF req[r].op = "delete" THEN "drop" ELSE "setactive"
      BY <1>7, GotoSteps DEF Moves, Fields
    <2>2. TypeInv' /\ req'[r] = n /\ n # Free
      BY <1>7, <2>1, TypeGoto, Update, WalletAssumption
    <2>3. Placed(n)
      BY <2>2 DEF TypeInv, Calls
    <2>4. Clear(r) => n.op # "recover"
      BY <1>2, <2>1 DEF Clear, At, Placed
    <2>5. u \notin torn => Stage(n, rows')
      BY <1>3, <2>1, <2>3, <2>4, StageDemote, StageClear, StageEnthrone
    <2> QED BY <1>5, <2>1, <2>5
  <1>8. CASE Revive(r) \/ Promote(r)
    <2>1. End(r) /\ (u \notin torn => Good(u, rows))
      BY <1>3, <1>8 DEF Revive, Promote, At, Stage
    <2>2. Good(u, rows) => Good(u, rows')
      BY <1>8, CalmRows
    <2> QED BY <1>4, <2>1, <2>2
  <1>9. CASE Crown(r) \/ SetActive(r) \/ Drop(r)
    <2>1. End(r) /\ (u \notin torn => Good(u, rows'))
      BY <1>3, <1>9, StageCrown, StageLast DEF Crown, SetActive, Drop
    <2> QED BY <1>4, <2>1
  <1> QED BY <1>6, <1>7, <1>8, <1>9 DEF RowStep

LEMMA PrimReads ==
  ASSUME TypeInv, PrimInv, NEW r \in Requests, Count(r) \/ Heir(r) \/ Consume(r)
  PROVE  PrimInv'
  <1> DEFINE u == req[r].user
  <1>1. /\ req[r] # Free /\ accounts' = accounts /\ torn' = torn /\ rows' = rows
        /\ req[r].pc \in {"count", "heir", "consume"}
    BY DEF Count, Heir, Consume, Quiet, At, people, book
  <1>2. Placed(req[r]) /\ WalletCall(req[r])
    BY <1>1, CallFields DEF Placed, WalletCall, WalletOps, Slots
  <1>3. u \notin torn => Stage(req[r], rows) /\ Good(u, rows)
    BY <1>1, <1>2 DEF PrimInv, Stages, Stage
  <1>4. CASE End(r)
    BY <1>1, <1>2, <1>3, <1>4, OneCall DEF End
  <1>5. ASSUME NEW n \in CallType, req' = [req EXCEPT ![r] = n], n.op = req[r].op, n.user = u,
               u \notin torn => Stage(n, rows)
        PROVE  PrimInv'
    BY <1>1, <1>2, <1>5, OneCall, WalletAssumption
  <1>6. CASE Count(r)
    <2>1. PICK n \in CallType :
            /\ req' = [req EXCEPT ![r] = n]
            /\ Fields(n, req[r].op, u, req[r].address, req[r].row, req[r].heir,
                      Mine(r) = {}, req[r].nonce, "insert")
      BY <1>6, TypeCount
    <2>2. n.primary <=> \A i \in Ids : ~Owns(i, u, rows)
      BY <2>1 DEF Fields, Mine, RowsOf, Owns
    <2>3. req[r].op # "recover"
      BY <1>2, <1>6 DEF Count, At, Placed
    <2>4. u \notin torn => Stage(n, rows)
      BY <1>3, <2>1, <2>2, <2>3 DEF Stage, Fields
    <2> QED BY <1>5, <2>1, <2>4 DEF Fields
  <1>7. CASE Heir(r)
    <2>1. ASSUME NEW i \in Mine(r) \ {Its(r)}, NEW n \in CallType, rows[i].active,
                 req' = [req EXCEPT ![r] = n],
                 Fields(n, req[r].op, u, req[r].address, req[r].row, i,
                        req[r].primary, req[r].nonce, "enthrone")
          PROVE  PrimInv'
      <3>1. Owns(i, u, rows) /\ i # req[r].row
        BY <2>1 DEF Mine, RowsOf, Owns, Its
      <3>2. req[r].op # "recover" /\ req[r].pc = "heir"
        BY <1>2, <1>7 DEF Heir, At, Placed
      <3>3. u \notin torn => Stage(n, rows)
        BY <1>3, <2>1, <3>1, <3>2 DEF Stage, Fields
      <3> QED BY <1>5, <2>1, <3>3 DEF Fields
    <2> QED BY <1>4, <1>7, <2>1, TypeHeir
  <1>8. CASE Consume(r)
    <2>1. ASSUME NEW m, NEW n \in CallType, req' = [req EXCEPT ![r] = n],
                 Fields(n, req[r].op, u, req[r].address, req[r].row, req[r].heir,
                        req[r].primary, m, "demote")
          PROVE  PrimInv'
      <3>1. u \notin torn => Stage(n, rows)
        BY <1>3, <2>1 DEF Stage, Fields
      <3> QED BY <1>5, <2>1, <3>1 DEF Fields
    <2> QED BY <1>4, <1>8, <2>1, TypeConsume
  <1> QED BY <1>6, <1>7, <1>8

LEMMA PrimOthers ==
  ASSUME TypeInv, PrimInv, NEW r \in Requests,
         Prove(r) \/ Admit(r) \/ Balances(r) \/ Positions(r) \/ Lose(r)
  PROVE  PrimInv'
  <1>1. /\ req[r] # Free /\ accounts' = accounts /\ rows' = rows /\ torn \subseteq torn'
        /\ Placed(req[r])
    BY CallFields DEF Prove, Admit, Balances, Positions, Lose, At, people, book
  <1>2. CASE Prove(r)
    <2>1. ~WalletCall(req[r]) /\ torn' = torn /\ End(r) /\ ~WalletCall(Free)
      BY <1>1, <1>2 DEF Prove, At, Placed, WalletCall, WalletOps
    <2> QED BY <1>1, <2>1, OtherCall DEF End
  <1>3. CASE Admit(r) \/ Balances(r) \/ Positions(r)
    <2>1. ~WalletCall(req[r]) /\ torn' = torn /\ ~WalletCall(Free)
      BY <1>1, <1>3 DEF Admit, Balances, Positions, At, Placed, WalletCall, WalletOps, Slots
    <2>2. End(r) \/ Moves(r, "balances") \/ Moves(r, "positions")
      BY <1>3, TypeRefresh
    <2>3. \/ End(r)
          \/ \E n \in CallType : req' = [req EXCEPT ![r] = n] /\ n.op = req[r].op
      BY <2>2 DEF Moves, Fields
    <2>4. CASE End(r)
      BY <1>1, <2>1, <2>4, OtherCall DEF End
    <2>5. ASSUME NEW n \in CallType, req' = [req EXCEPT ![r] = n], n.op = req[r].op
          PROVE  PrimInv'
      <3>1. ~WalletCall(n)
        BY <1>1, <2>1, <2>5 DEF WalletCall
      <3> QED BY <1>1, <2>1, <2>5, <3>1, OtherCall
    <2> QED BY <2>3, <2>4, <2>5
  <1>4. CASE Lose(r)
    <2>1. End(r) /\ torn' = IF req[r].op \in WalletOps THEN torn \union {req[r].user} ELSE torn
      BY <1>4 DEF Lose
    <2>2. CASE WalletCall(req[r])
      <3>1. req[r].user \in torn'
        BY <2>1, <2>2 DEF WalletCall
      <3> QED BY <1>1, <2>1, <2>2, <3>1, OneCall DEF End
    <2>3. CASE ~WalletCall(req[r])
      <3>1. torn' = torn /\ ~WalletCall(Free)
        BY <1>1, <2>1, <2>3 DEF WalletCall
      <3> QED BY <1>1, <2>1, <2>3, <3>1, OtherCall DEF End
    <2> QED BY <2>2, <2>3
  <1> QED BY <1>2, <1>3, <1>4

LEMMA PrimNext ==
  ASSUME TypeInv, PrimInv, [Next]_vars
  PROVE  PrimInv'
  <1>1. CASE UNCHANGED <<accounts, rows, req, torn>>
    BY <1>1 DEF PrimInv, Alone, Kept, Stages, Busy
  <1>2. NonceStep => UNCHANGED <<accounts, rows, req, torn>>
    <2>1. ASSUME NEW n \in Nonces, NEW a \in Addresses, Issue(n, a)
          PROVE  UNCHANGED <<accounts, rows, req, torn>>
      BY <2>1 DEF Issue, people, book
    <2>2. ASSUME NEW n \in Nonces, Expire(n) \/ Age(n)
          PROVE  UNCHANGED <<accounts, rows, req, torn>>
      BY <2>2 DEF Expire, Age, people, book
    <2> QED BY <2>1, <2>2 DEF NonceStep
  <1>3. Tick \/ UNCHANGED vars => UNCHANGED <<accounts, rows, req, torn>>
    BY DEF Tick, vars, people, book
  <1>4. CASE Restart
    <2>1. /\ accounts' = accounts /\ rows' = rows /\ req' = [r \in Requests |-> Free]
          /\ torn' = torn \union {u \in accounts : Busy(u)}
      BY <1>4 DEF Restart, book
    <2>2. Alone' /\ Stages'
      BY <2>1 DEF Alone, Stages, WalletCall
    <2>3. Kept'
      BY <2>1 DEF PrimInv, Kept
    <2> QED BY <2>2, <2>3 DEF PrimInv
  <1>5. ASSUME NEW r \in Requests, NEW m \in Nonces, NEW u \in accounts \union {None}, NEW good,
               Verify(r, m, u, good)
        PROVE  PrimInv'
    <2>1. accounts' = accounts /\ rows' = rows /\ torn' = torn
      BY <1>5 DEF Verify, people, book
    <2>2. \/ UNCHANGED req
          \/ \E n \in CallType :
               /\ req[r] = Free /\ req' = [req EXCEPT ![r] = n]
               /\ Fields(n, "verify", u, challenges[m].address, None, None, FALSE, m, "prove")
      BY <1>5, TypeVerify
    <2>3. ASSUME NEW n \in CallType, req[r] = Free, req' = [req EXCEPT ![r] = n], n.op = "verify"
          PROVE  PrimInv'
      <3>1. ~WalletCall(n) /\ ~WalletCall(req[r])
        BY <2>3 DEF WalletCall, WalletOps
      <3> QED BY <2>1, <2>3, <3>1, OtherCall
    <2> QED BY <1>1, <2>1, <2>2, <2>3 DEF Fields
  <1> QED BY <1>1, <1>2, <1>3, <1>4, <1>5, PrimEntry, PrimRows, PrimReads, PrimOthers, Steps

LEMMA PrimInit == Init => PrimInv
  <1> SUFFICES ASSUME Init PROVE PrimInv
    OBVIOUS
  <1>1. /\ \A r \in Requests : req[r] = Free
        /\ rows = [i \in Ids |-> IF i \in DOMAIN mix.book THEN mix.book[i] ELSE None]
        /\ DOMAIN mix.book \subseteq Ids /\ GoodBook(mix.book)
    BY WalletAssumption DEF Init
  <1>2. Alone /\ Stages
    BY <1>1 DEF Alone, Stages, WalletCall
  <1>3. ASSUME NEW u
        PROVE  Good(u, rows)
    <2>1. \A i \in Ids : Owns(i, u, rows) => /\ i \in DOMAIN mix.book /\ rows[i] = mix.book[i]
                                             /\ mix.book[i].user = u
      BY <1>1 DEF Owns
    <2>2. \A i \in DOMAIN mix.book : rows[i] = mix.book[i] /\ rows[i] # None /\ i \in Ids
      BY <1>1, WalletAssumption DEF GoodBook
    <2> QED BY <1>1, <2>1, <2>2 DEF GoodBook, Good, Owns
  <1> QED BY <1>2, <1>3 DEF PrimInv, Kept

LEMMA PrimSafe ==
  ASSUME PrimInv
  PROVE  PrimaryKept
  <1> SUFFICES ASSUME NEW u \in accounts \ torn, ~Busy(u), RowsOf(u) # {}
               PROVE  /\ Cardinality({i \in RowsOf(u) : rows[i].primary}) = 1
                      /\ \A i \in RowsOf(u) : rows[i].primary => rows[i].active
    BY DEF PrimaryKept
  <1>1. Good(u, rows) /\ \A i : i \in RowsOf(u) <=> Owns(i, u, rows)
    BY DEF PrimInv, Kept, RowsOf, Owns
  <1>2. PICK h \in RowsOf(u) : rows[h].primary
    BY <1>1 DEF Good, Owns
  <1>3. {i \in RowsOf(u) : rows[i].primary} = {h}
    BY <1>1, <1>2 DEF Good, Owns
  <1>4. Cardinality({h}) = 1
    BY FS_Singleton
  <1> QED BY <1>1, <1>3, <1>4 DEF Good, Owns

-----------------------------------------------------------------------------
(* From a challenge to an account that is handed out.                      *)

Uses(q, n) == q # Free /\ q.nonce = n

\* A checked nonce leads to one proof of the challenged address, which one call at most
\* writes and later one call at most holds; it was handed out for once it is used up.
LifeOf(n) ==
  /\ proofs[n] # None => /\ checks[n] = 1 /\ challenges[n] # None
                         /\ proofs[n].address = challenges[n].address
  /\ \A r \in Requests : Uses(req[r], n) =>
       /\ checks[n] = 1 /\ challenges[n] # None
       /\ req[r].address = challenges[n].address /\ handed[n] = 0
       /\ IF req[r].pc = "prove" THEN proofs[n] = None
          ELSE proofs[n] = None \/ proofs[n].consumed
  /\ \A r, s \in Requests : Uses(req[r], n) /\ Uses(req[s], n) => r = s
  /\ handed[n] # 0 => checks[n] = 1 /\ (proofs[n] = None \/ proofs[n].consumed)

LifeInv == \A n \in Nonces : LifeOf(n)

\* The call n goes on with the nonce of q.
Same(n, q) ==
  n.nonce = q.nonce /\ n.address = q.address /\ (n.pc = "prove" <=> q.pc = "prove")

LEMMA LifeCall ==
  ASSUME TypeInv, LifeInv, NEW r \in Requests, NEW n \in CallType \union {Free},
         req' = [req EXCEPT ![r] = n], UNCHANGED auth, UNCHANGED handed,
         n # Free => n.nonce = None \/ (req[r] # Free /\ Same(n, req[r]))
  PROVE  LifeInv'
  <1>1. req'[r] = n /\ \A s \in Requests \ {r} : req'[s] = req[s]
    BY Update
  <1>2. UNCHANGED <<challenges, proofs, checks, handed>>
    BY DEF auth
  <1> SUFFICES ASSUME NEW m \in Nonces
               PROVE  LifeOf(m)'
    BY DEF LifeInv
  <1>3. LifeOf(m) /\ m # None
    BY WalletAssumption DEF LifeInv
  <1>4. \A s \in Requests : Uses(req'[s], m) =>
          /\ Uses(req[s], m) /\ req'[s].address = req[s].address
          /\ req'[s].pc = "prove" <=> req[s].pc = "prove"
    BY <1>1, <1>3 DEF Uses, Same
  <1> QED BY <1>2, <1>3, <1>4 DEF LifeOf

LEMMA LifeEnd ==
  ASSUME TypeInv, LifeInv, NEW r \in Requests, End(r), UNCHANGED auth, UNCHANGED handed
  PROVE  LifeInv'
  BY LifeCall DEF End

LEMMA LifeRows ==
  ASSUME TypeInv, LifeInv, NEW r \in Requests, RowStep(r)
  PROVE  LifeInv'
  <1>1. req[r] # Free /\ req[r].pc # "prove" /\ UNCHANGED auth
    BY DEF RowStep, Insert, Revive, Demote, Promote, Clear, Crown, Enthrone, SetActive, Drop,
           Quiet, At
  <1>2. ASSUME NEW n \in CallType, req' = [req EXCEPT ![r] = n], n.nonce = req[r].nonce,
               n.address = req[r].address, n.pc # "prove", UNCHANGED handed
        PROVE  LifeInv'
    BY <1>1, <1>2, LifeCall DEF Same
  <1>3. CASE Insert(r)
    <2>1. UNCHANGED handed
      BY <1>3 DEF Insert
    <2> QED BY <1>1, <1>2, <1>3, <2>1, LifeEnd, TypeInsert DEF Fields
  <1>4. CASE Demote(r) \/ Clear(r) \/ Enthrone(r)
    <2>1. UNCHANGED handed
      BY <1>4 DEF Demote, Clear, Enthrone, Quiet
    <2>2. \E pc \in Pcs \ {"prove"} : Moves(r, pc)
      BY <1>4, GotoSteps DEF Pcs
    <2> QED BY <1>2, <2>1, <2>2 DEF Moves, Fields
  <1>5. CASE Revive(r) \/ Crown(r) \/ SetActive(r) \/ Drop(r)
    BY <1>1, <1>5, LifeEnd DEF Revive, Crown, SetActive, Drop, Quiet
  <1>6. CASE Promote(r)
    <2>1. /\ End(r) /\ \/ UNCHANGED handed
                       \/ handed' = [handed EXCEPT ![req[r].nonce] = @ + 1]
      BY <1>6 DEF Promote
    <2>2. CASE UNCHANGED handed
      BY <1>1, <2>1, <2>2, LifeEnd
    <2>3. CASE handed' = [handed EXCEPT ![req[r].nonce] = @ + 1]
      <3>1. req'[r] = Free /\ \A s \in Requests \ {r} : req'[s] = req[s]
        BY <2>1, Update DEF End
      <3> SUFFICES ASSUME NEW m \in Nonces
                   PROVE  LifeOf(m)'
        BY DEF LifeInv
      <3>2. LifeOf(m) /\ UNCHANGED <<challenges, proofs, checks>>
        BY <1>1 DEF LifeInv, auth
      <3>3. \A s \in Requests : Uses(req'[s], m) => s # r /\ req'[s] = req[s]
        BY <3>1 DEF Uses
      <3>4. CASE req[r].nonce = m
        <4>1. Uses(req[r], m)
          BY <1>1, <3>4 DEF Uses
        <4>2. \A s \in Requests : ~Uses(req'[s], m)
          BY <3>2, <3>3, <4>1 DEF LifeOf
        <4> QED BY <1>1, <3>2, <4>1, <4>2 DEF LifeOf
      <3>5. CASE req[r].nonce # m
        <4>1. handed'[m] = handed[m]
          BY <2>3, <3>5, TypeParts DEF AuthType
        <4> QED BY <3>2, <3>3, <4>1 DEF LifeOf
      <3> QED BY <3>4, <3>5
    <2> QED BY <2>1, <2>2, <2>3
  <1> QED BY <1>3, <1>4, <1>5, <1>6 DEF RowStep

LEMMA LifeReads ==
  ASSUME TypeInv, LifeInv, NEW r \in Requests,
         Count(r) \/ Heir(r) \/ Admit(r) \/ Balances(r) \/ Positions(r) \/ Lose(r)
  PROVE  LifeInv'
  <1>1. req[r] # Free /\ UNCHANGED auth /\ UNCHANGED handed
    BY DEF Count, Heir, Admit, Balances, Positions, Lose, At, Quiet
  <1>2. CASE End(r)
    BY <1>1, <1>2, LifeEnd
  <1>3. ASSUME NEW n \in CallType, req' = [req EXCEPT ![r] = n], n.nonce = req[r].nonce,
               n.address = req[r].address, n.pc # "prove", req[r].pc # "prove"
        PROVE  LifeInv'
    BY <1>1, <1>3, LifeCall DEF Same
  <1>4. CASE Count(r) \/ Heir(r)
    <2>1. req[r].pc # "prove"
      BY <1>4 DEF Count, Heir, At
    <2> QED BY <1>2, <1>3, <1>4, <2>1, TypeCount, TypeHeir DEF Fields
  <1>5. CASE Admit(r) \/ Balances(r) \/ Positions(r)
    <2>1. req[r].pc # "prove"
      BY <1>5 DEF Admit, Balances, Positions, At
    <2>2. End(r) \/ Moves(r, "balances") \/ Moves(r, "positions")
      BY <1>5, TypeRefresh
    <2> QED BY <1>2, <1>3, <2>1, <2>2 DEF Moves, Fields
  <1>6. CASE Lose(r)
    BY <1>2, <1>6 DEF Lose
  <1> QED BY <1>4, <1>5, <1>6

LEMMA LifeConsume ==
  ASSUME TypeInv, LifeInv, NEW r \in Requests, Consume(r)
  PROVE  LifeInv'
  <1>1. req[r] # Free /\ req[r].pc = "consume" /\ UNCHANGED <<challenges, checks, handed>>
    BY DEF Consume, At
  <1>2. CASE End(r) /\ UNCHANGED proofs
    BY <1>1, <1>2, LifeEnd DEF auth
  <1>3. ASSUME NEW m \in FreshUnbound(req[r].address), NEW n \in CallType,
               proofs' = [proofs EXCEPT ![m].consumed = TRUE, ![m].user = req[r].user],
               req' = [req EXCEPT ![r] = n],
               Fields(n, req[r].op, req[r].user, req[r].address, req[r].row, req[r].heir,
                      req[r].primary, m, "demote")
        PROVE  LifeInv'
    <2>1. /\ m \in Nonces /\ proofs[m] # None /\ ~proofs[m].consumed
          /\ proofs[m].address = req[r].address
      BY DEF FreshUnbound, Unbound
    <2>2. /\ checks[m] = 1 /\ challenges[m] # None /\ proofs[m].address = challenges[m].address
          /\ handed[m] = 0 /\ \A s \in Requests : ~Uses(req[s], m)
      BY <2>1 DEF LifeInv, LifeOf
    <2>3. req'[r] = n /\ \A s \in Requests \ {r} : req'[s] = req[s]
      BY <1>3, Update
    <2>4. /\ proofs'[m] # None /\ proofs'[m].consumed /\ proofs'[m].address = proofs[m].address
          /\ \A k \in Nonces \ {m} : proofs'[k] = proofs[k]
      <3> DEFINE p == [[proofs[m] EXCEPT !.consumed = TRUE] EXCEPT !.user = req[r].user]
      <3>1. /\ proofs[m] \in ProofType /\ proofs \in [Nonces -> ProofType \union {None}]
            /\ req[r].user \in Users \union {None}
        BY <1>1, <2>1, TypeParts, CallFields DEF AuthType, CallType
      <3>2. proofs' = [proofs EXCEPT ![m] = p]
        BY <1>3, <2>1, <3>1
      <3>3. p \in ProofType /\ p.consumed /\ p.address = proofs[m].address
        BY <3>1 DEF ProofType
      <3> HIDE DEF p
      <3> QED BY <2>1, <3>1, <3>2, <3>3, WalletAssumption
    <2> SUFFICES ASSUME NEW k \in Nonces
                 PROVE  LifeOf(k)'
      BY DEF LifeInv
    <2>5. CASE k = m
      <3>1. \A s \in Requests : Uses(req'[s], m) => s = r
        BY <2>2, <2>3 DEF Uses
      <3>2. Uses(req'[r], m) => req'[r].address = challenges[m].address /\ req'[r].pc # "prove"
        BY <1>3, <2>1, <2>2, <2>3 DEF Fields
      <3> QED BY <1>1, <2>2, <2>4, <2>5, <3>1, <3>2 DEF LifeOf
    <2>6. CASE k # m
      <3>1. LifeOf(k) /\ proofs'[k] = proofs[k]
        BY <2>4, <2>6 DEF LifeInv
      <3>2. \A s \in Requests : Uses(req'[s], k) => s # r /\ req'[s] = req[s]
        BY <1>3, <2>3, <2>6 DEF Uses, Fields
      <3> QED BY <1>1, <3>1, <3>2 DEF LifeOf
    <2> QED BY <2>5, <2>6
  <1> QED BY <1>2, <1>3, TypeConsume

LEMMA LifeProve ==
  ASSUME TypeInv, LifeInv, NEW r \in Requests, Prove(r)
  PROVE  LifeInv'
  <1> DEFINE n == req[r].nonce
             a == req[r].address
             row == [address |-> a, user |-> req[r].user, consumed |-> FALSE, fresh |-> TRUE]
  <1>1. /\ req[r] # Free /\ req[r].pc = "prove" /\ End(r)
        /\ UNCHANGED <<challenges, checks, handed>>
    BY DEF Prove, At
  <1>2. req'[r] = Free /\ \A s \in Requests \ {r} : req'[s] = req[s]
    BY <1>1, Update DEF End
  <1>3. n \in Nonces /\ Uses(req[r], n)
    BY <1>1, CallFields DEF Placed, Uses
  <1>4. /\ checks[n] = 1 /\ challenges[n] # None /\ a = challenges[n].address /\ handed[n] = 0
        /\ proofs[n] = None /\ \A s \in Requests : Uses(req[s], n) => s = r
    BY <1>1, <1>3 DEF LifeInv, LifeOf
  <1>5. /\ proofs'[n] = row
        /\ \A k \in Nonces \ {n} : proofs'[k] \in {proofs[k], None}
    BY <1>3, <1>4 DEF Prove
  <1> SUFFICES ASSUME NEW k \in Nonces
               PROVE  LifeOf(k)'
    BY DEF LifeInv
  <1>6. \A s \in Requests : Uses(req'[s], k) => s # r /\ req'[s] = req[s]
    BY <1>2 DEF Uses
  <1>7. CASE k = n
    <2>1. \A s \in Requests : ~Uses(req'[s], n)
      BY <1>4, <1>6, <1>7
    <2>2. row.address = a
      OBVIOUS
    <2> HIDE DEF row, a, n
    <2> QED BY <1>1, <1>4, <1>5, <1>7, <2>1, <2>2 DEF LifeOf
  <1>8. CASE k # n
    <2>1. LifeOf(k) /\ proofs'[k] \in {proofs[k], None}
      BY <1>5, <1>8 DEF LifeInv
    <2> QED BY <1>1, <1>6, <2>1 DEF LifeOf
  <1> QED BY <1>7, <1>8

\* Before its check a nonce has led to nothing.
LEMMA Unchecked ==
  ASSUME LifeInv, NonceInv, NEW n \in Nonces, challenges[n] = None \/ challenges[n].open
  PROVE  /\ checks[n] = 0 /\ proofs[n] = None /\ handed[n] = 0
         /\ \A r \in Requests : ~Uses(req[r], n)
  BY DEF NonceInv, LifeInv, LifeOf

LEMMA LifeVerify ==
  ASSUME TypeInv, LifeInv, NonceInv, NEW r \in Requests, NEW m \in Nonces,
         NEW u \in accounts \union {None}, NEW good, Verify(r, m, u, good)
  PROVE  LifeInv'
  <1>1. /\ challenges[m] # None /\ challenges[m].open /\ req[r] = Free
        /\ UNCHANGED <<proofs, handed>> /\ checks' = [checks EXCEPT ![m] = @ + 1]
        /\ challenges' = [challenges EXCEPT ![m].open = FALSE]
    BY DEF Verify
  <1>2. /\ checks[m] = 0 /\ proofs[m] = None /\ handed[m] = 0
        /\ \A s \in Requests : ~Uses(req[s], m)
    BY <1>1, Unchecked
  <1>3. checks'[m] = 1 /\ \A k \in Nonces \ {m} : checks'[k] = checks[k]
    BY <1>1, <1>2, TypeParts DEF AuthType
  <1>4. /\ challenges'[m] # None /\ challenges'[m].address = challenges[m].address
        /\ \A k \in Nonces \ {m} : challenges'[k] = challenges[k]
    <2> DEFINE c == [challenges[m] EXCEPT !.open = FALSE]
    <2>1. challenges[m] \in ChallengeType /\ challenges \in [Nonces -> ChallengeType \union {None}]
      BY <1>1, TypeParts DEF AuthType
    <2>2. c \in ChallengeType /\ c.address = challenges[m].address
      BY <2>1 DEF ChallengeType
    <2>3. challenges' = [challenges EXCEPT ![m] = c]
      BY <1>1, <2>1
    <2> HIDE DEF c
    <2> QED BY <2>1, <2>2, <2>3, WalletAssumption
  <1>5. \/ req' = req
        \/ \E n \in CallType :
             /\ req' = [req EXCEPT ![r] = n]
             /\ Fields(n, "verify", u, challenges[m].address, None, None, FALSE, m, "prove")
    BY TypeVerify
  <1>6. \A s \in Requests : \/ req'[s] = req[s]
                            \/ /\ s = r /\ req'[s].nonce = m /\ req'[s].pc = "prove"
                               /\ req'[s].address = challenges[m].address
    <2>1. ASSUME NEW n \in CallType, req' = [req EXCEPT ![r] = n],
                 Fields(n, "verify", u, challenges[m].address, None, None, FALSE, m, "prove")
          PROVE  \A s \in Requests : \/ req'[s] = req[s]
                                     \/ /\ s = r /\ req'[s].nonce = m /\ req'[s].pc = "prove"
                                        /\ req'[s].address = challenges[m].address
      BY <2>1, Update DEF Fields
    <2> QED BY <1>5, <2>1
  <1> SUFFICES ASSUME NEW k \in Nonces
               PROVE  LifeOf(k)'
    BY DEF LifeInv
  <1>7. CASE k = m
    <2>1. \A s \in Requests : Uses(req'[s], m) =>
            /\ s = r /\ req'[s].pc = "prove" /\ req'[s].address = challenges[m].address
      BY <1>2, <1>6
    <2> QED BY <1>1, <1>2, <1>3, <1>4, <1>7, <2>1 DEF LifeOf
  <1>8. CASE k # m
    <2>1. \A s \in Requests : Uses(req'[s], k) => req'[s] = req[s]
      BY <1>6, <1>8 DEF Uses
    <2>2. LifeOf(k) /\ checks'[k] = checks[k] /\ challenges'[k] = challenges[k]
      BY <1>3, <1>4, <1>8 DEF LifeInv
    <2> QED BY <1>1, <2>1, <2>2 DEF LifeOf
  <1> QED BY <1>7, <1>8

LEMMA LifeNonce ==
  ASSUME TypeInv, LifeInv, NonceInv, NonceStep
  PROVE  LifeInv'
  <1>1. AuthType
    BY TypeParts
  <1>2. ASSUME NEW m \in Nonces, NEW a \in Addresses, Issue(m, a)
        PROVE  LifeInv'
    <2>1. /\ challenges[m] = None /\ UNCHANGED <<proofs, checks, req, handed>>
          /\ \A k \in Nonces \ {m} : challenges'[k] = challenges[k]
      BY <1>1, <1>2 DEF Issue, AuthType
    <2>2. checks[m] = 0 /\ proofs[m] = None /\ handed[m] = 0 /\ \A r \in Requests : ~Uses(req[r], m)
      BY <2>1, Unchecked
    <2> SUFFICES ASSUME NEW k \in Nonces
                 PROVE  LifeOf(k)'
      BY DEF LifeInv
    <2>3. CASE k = m
      BY <2>1, <2>2, <2>3 DEF LifeOf
    <2>4. CASE k # m
      <3>1. LifeOf(k) /\ challenges'[k] = challenges[k]
        BY <2>1, <2>4 DEF LifeInv
      <3> QED BY <2>1, <3>1 DEF LifeOf
    <2> QED BY <2>3, <2>4
  <1>3. ASSUME NEW m \in Nonces, Expire(m)
        PROVE  LifeInv'
    <2>1. /\ challenges[m] # None /\ UNCHANGED <<proofs, checks, req, handed>>
          /\ challenges' = [challenges EXCEPT ![m].open = FALSE]
      BY <1>3 DEF Expire
    <2>2. \A k \in Nonces : /\ challenges[k] # None => challenges'[k] # None
                            /\ challenges[k] # None => challenges'[k].address = challenges[k].address
      <3> DEFINE c == [challenges[m] EXCEPT !.open = FALSE]
      <3>1. challenges[m] \in ChallengeType /\ challenges \in [Nonces -> ChallengeType \union {None}]
        BY <1>1, <2>1 DEF AuthType
      <3>2. c \in ChallengeType /\ c.address = challenges[m].address
        BY <3>1 DEF ChallengeType
      <3>3. challenges' = [challenges EXCEPT ![m] = c]
        BY <2>1, <3>1
      <3> HIDE DEF c
      <3> QED BY <3>1, <3>2, <3>3, WalletAssumption
    <2> QED BY <2>1, <2>2 DEF LifeInv, LifeOf
  <1>4. ASSUME NEW m \in Nonces, Age(m)
        PROVE  LifeInv'
    <2>1. /\ proofs[m] # None /\ UNCHANGED <<challenges, checks, req, handed>>
          /\ proofs' = [proofs EXCEPT ![m].fresh = FALSE]
      BY <1>4 DEF Age
    <2>2. \A k \in Nonces : /\ proofs'[k] = None <=> proofs[k] = None
                            /\ proofs[k] # None => /\ proofs'[k].address = proofs[k].address
                                                   /\ proofs'[k].consumed = proofs[k].consumed
      <3> DEFINE p == [proofs[m] EXCEPT !.fresh = FALSE]
      <3>1. proofs[m] \in ProofType /\ proofs \in [Nonces -> ProofType \union {None}]
        BY <1>1, <2>1 DEF AuthType
      <3>2. p \in ProofType /\ p.address = proofs[m].address /\ p.consumed = proofs[m].consumed
        BY <3>1 DEF ProofType
      <3>3. proofs' = [proofs EXCEPT ![m] = p]
        BY <2>1, <3>1
      <3> HIDE DEF p
      <3>4. p # None
        BY <3>2, WalletAssumption
      <3>5. proofs'[m] = p /\ \A k \in Nonces \ {m} : proofs'[k] = proofs[k]
        BY <3>1, <3>3
      <3>6. ASSUME NEW k \in Nonces
            PROVE  /\ proofs'[k] = None <=> proofs[k] = None
                   /\ proofs[k] # None => /\ proofs'[k].address = proofs[k].address
                                          /\ proofs'[k].consumed = proofs[k].consumed
        <4>1. CASE k = m
          BY <2>1, <3>2, <3>4, <3>5, <4>1
        <4>2. CASE k # m
          BY <3>5, <4>2
        <4> QED BY <4>1, <4>2
      <3> QED BY <3>6
    <2> QED BY <2>1, <2>2 DEF LifeInv, LifeOf
  <1> QED BY <1>2, <1>3, <1>4 DEF NonceStep

LEMMA LifeNext ==
  ASSUME TypeInv, LifeInv, NonceInv, [Next]_vars
  PROVE  LifeInv'
  <1>1. ASSUME NEW r \in Requests, NEW call \in CallType, Entry(r, call)
        PROVE  LifeInv'
    <2>1. req' = [req EXCEPT ![r] = call] /\ call.nonce = None /\ UNCHANGED auth /\ UNCHANGED handed
      BY <1>1 DEF Entry, Begin
    <2> QED BY <2>1, LifeCall
  <1>2. Tick \/ UNCHANGED vars => LifeInv'
    <2>1. Tick \/ UNCHANGED vars => UNCHANGED <<challenges, proofs, checks, req, handed>>
      BY DEF Tick, vars, auth
    <2> QED BY <2>1 DEF LifeInv, LifeOf
  <1>3. CASE Restart
    <2>1. UNCHANGED <<challenges, proofs, checks, handed>> /\ \A r \in Requests : req'[r] = Free
      BY <1>3 DEF Restart, auth
    <2> QED BY <2>1 DEF LifeInv, LifeOf, Uses
  <1> QED BY <1>1, <1>2, <1>3, LifeRows, LifeReads, LifeConsume, LifeProve, LifeVerify,
             LifeNonce, Steps

LEMMA LifeInit == Init => LifeInv
  BY DEF Init, LifeInv, LifeOf, Uses

\* Only the promotion at the end of a recovery hands an account out.
LEMMA HandedBy ==
  ASSUME TypeInv, [Next]_vars
  PROVE  handed' = handed \/ \E r \in Requests : Promote(r)
  <1>1. ASSUME NEW r \in Requests, RowStep(r)
        PROVE  handed' = handed \/ Promote(r)
    BY <1>1 DEF RowStep, Insert, Revive, Demote, Clear, Crown, Enthrone, SetActive, Drop, Quiet
  <1>2. ASSUME NEW r \in Requests, Count(r) \/ Heir(r) \/ Consume(r) \/ Prove(r)
        PROVE  handed' = handed
    BY <1>2 DEF Count, Heir, Consume, Prove, Quiet
  <1>3. ASSUME NEW r \in Requests, Admit(r) \/ Balances(r) \/ Positions(r) \/ Lose(r)
        PROVE  handed' = handed
    BY <1>3 DEF Admit, Balances, Positions, Lose
  <1>4. ASSUME NEW r \in Requests, NEW call, Entry(r, call)
        PROVE  handed' = handed
    BY <1>4 DEF Entry
  <1>5. ASSUME NEW r, NEW m, NEW u, NEW good, Verify(r, m, u, good)
        PROVE  handed' = handed
    BY <1>5 DEF Verify
  <1>6. NonceStep => handed' = handed
    <2>1. ASSUME NEW n, NEW a, Issue(n, a)
          PROVE  handed' = handed
      BY <2>1 DEF Issue
    <2>2. ASSUME NEW n, Expire(n) \/ Age(n)
          PROVE  handed' = handed
      BY <2>2 DEF Expire, Age
    <2> QED BY <2>1, <2>2 DEF NonceStep
  <1>7. Tick \/ Restart \/ UNCHANGED vars => handed' = handed
    BY DEF Tick, Restart, vars
  <1> QED BY <1>1, <1>2, <1>3, <1>4, <1>5, <1>6, <1>7, Steps

LEMMA RecoverNext ==
  ASSUME TypeInv, LifeInv, PrimInv, [Next]_vars, NEW n \in Nonces, handed'[n] # handed[n]
  PROVE  /\ handed[n] = 0 /\ checks[n] = 1
         /\ \E r \in Requests :
              /\ At(r, "promote") /\ req[r].op = "recover" /\ req[r].nonce = n
              /\ challenges[n].address = rows[Its(r)].address
              /\ req[r].user \notin torn => rows[Its(r)].signer
  <1>1. PICK r \in Requests : Promote(r)
    BY HandedBy
  <1>2. /\ At(r, "promote") /\ req[r] # Free /\ req[r].pc = "promote"
        /\ Exists(Its(r), req[r].user)
        /\ handed' = IF req[r].op = "recover" THEN [handed EXCEPT ![req[r].nonce] = @ + 1]
                                              ELSE handed
    BY <1>1 DEF Promote, At
  <1>3. req[r].op = "recover" /\ req[r].nonce = n
    BY <1>2, TypeParts DEF AuthType
  <1>4. /\ checks[n] = 1 /\ handed[n] = 0 /\ req[r].address = challenges[n].address
    BY <1>2, <1>3 DEF LifeInv, LifeOf, Uses
  <1>5. rows[Its(r)].address = req[r].address
    BY <1>2, ItsRow DEF Rowed, Pcs
  <1>6. req[r].user \notin torn => rows[Its(r)].signer
    <2>1. WalletCall(req[r])
      BY <1>2, <1>3 DEF WalletCall, WalletOps
    <2> QED BY <1>3, <2>1 DEF PrimInv, Stages, Stage, Its
  <1> QED BY <1>2, <1>3, <1>4, <1>5, <1>6

-----------------------------------------------------------------------------
(* The theorems.                                                           *)

IInv == TypeInv /\ SignerIndex /\ SlotInv /\ MarkInv /\ NonceInv /\ PrimInv /\ LifeInv

LEMMA SpecIInv == Spec => []IInv
  <1>1. Init => IInv
    BY TypeInit, SignerInit, SlotInit, MarkInit, NonceInit, PrimInit, LifeInit DEF IInv
  <1>2. IInv /\ [Next]_vars => IInv'
    BY TypeNext, SignerNext, SlotNext, MarkNext, NonceNext, PrimNext, LifeNext DEF IInv
  <1> QED BY <1>1, <1>2, PTL DEF Spec

\* Every variable keeps its type, and a row always belongs to an account that was handed
\* to a client (wallets.service.ts).
THEOREM WalletTypeCorrect == Spec => []TypeOK
  <1>1. IInv => TypeOK
    BY DEF IInv, TypeInv
  <1> QED BY <1>1, SpecIInv, PTL

\* However many calls of a user interleave between their statements, one wallet at most
\* signs for him (promoteToActiveSigner).
THEOREM OneSignerEach == Spec => []OneSigner
  <1>1. IInv => OneSigner
    BY SignerSafe DEF IInv
  <1> QED BY <1>1, SpecIInv, PTL

\* The comment on promoteToActiveSigner, for every interleaving: of all the statements only
\* the pause of that wallet leaves a paused signer.
THEOREM SignerPausedByPause == Spec => PausedOnlyByPause
  <1>1. IInv /\ [Next]_vars =>
          [\A i \in Ids :
             ~PausedSigner(i, rows) /\ PausedSigner(i, rows')
               => \E r \in Requests : /\ At(r, "setactive") /\ req[r].op = "pause"
                                      /\ Its(r) = i]_vars
    BY PauseNext DEF IInv, PauseStep
  <1> QED BY <1>1, SpecIInv, PTL DEF Spec, PausedOnlyByPause

\* The RefreshLimiter never leaks a slot or frees one twice, for every number of calls and
\* every capacity: failures, deletions and restarts included.
THEOREM SlotsAreRefreshes == Spec => []SlotsMatchRefreshes
  <1>1. IInv => SlotsMatchRefreshes
    BY SlotsSafe DEF IInv
  <1> QED BY <1>1, SpecIInv, PTL

\* Two refreshes of a wallet begin a cooldown apart, for every cooldown: what tryAcquire
\* prunes it no longer needs.
THEOREM RefreshesApart == Spec => RefreshesSpaced
  <1>1. IInv /\ [Next]_vars =>
          [\A r \in Requests :
             At(r, "admit") /\ At(r, "balances")' /\ sinceStart[Its(r)] # None
               => sinceStart[Its(r)] >= Cooldown]_vars
    BY SpacedNext DEF IInv
  <1> QED BY <1>1, SpecIInv, PTL DEF Spec, RefreshesSpaced

\* A nonce is good for one signature check, valid or not (consumeChallenge).
THEOREM OneCheckPerNonce == Spec => []NonceCheckedOnce
  <1>1. IInv => NonceCheckedOnce
    BY DEF IInv, NonceInv, NonceCheckedOnce
  <1> QED BY <1>1, SpecIInv, PTL

\* A user whose calls run one at a time, uncut, has one active primary between them, for
\* any number of wallets and whatever other users do (setPrimaryWallet, setWalletActive,
\* deleteWallet, createWalletForUser).
THEOREM OnePrimaryKept == Spec => []PrimaryKept
  <1>1. IInv => PrimaryKept
    BY PrimSafe DEF IInv
  <1> QED BY <1>1, SpecIInv, PTL

\* An account is handed out for a proof of its own address, once, and to a call whose row
\* still signs when nothing else touched the account (connectWallet, consumeUnboundProof).
THEOREM RecoveredByItsOwner == Spec => RecoveredByOwner
  <1>1. IInv /\ [Next]_vars =>
          [\A n \in Nonces : handed'[n] # handed[n] =>
             /\ handed[n] = 0 /\ checks[n] = 1
             /\ \E r \in Requests :
                  /\ At(r, "promote") /\ req[r].op = "recover" /\ req[r].nonce = n
                  /\ challenges[n].address = rows[Its(r)].address
                  /\ req[r].user \notin torn => rows[Its(r)].signer]_vars
    BY RecoverNext DEF IInv
  <1> QED BY <1>1, SpecIInv, PTL DEF Spec, RecoveredByOwner

=============================================================================
