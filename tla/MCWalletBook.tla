---------------------------- MODULE MCWalletBook ----------------------------
(***************************************************************************)
(* Small instances of the wallets.  One run covers three: an account whose *)
(* own calls race; two accounts with one address, proofs and recovery; and *)
(* refreshes of wallets that come and go.                                  *)
(***************************************************************************)
EXTENDS WalletBook, TLC

CONSTANTS u1, u2, a1, a2, a3, r1, r2, r3

NoBook == [i \in {} |-> None]
Owned  == [i \in {1, 2, 3} |->
             Row(u1, IF i = 1 THEN a1 ELSE IF i = 2 THEN a2 ELSE a3, i = 1)]
Watched == [i \in {1, 2, 3} |->
              IF i = 1 THEN [Row(u1, a1, TRUE) EXCEPT !.signer = TRUE]
              ELSE IF i = 2 THEN Row(u2, a1, TRUE) ELSE Row(u1, a2, FALSE)]

OneAccount == [ops |-> {"connect", "fork", "create", "primary", "signer", "activate", "pause",
                       "delete"},
               users |-> {u1}, book |-> NoBook, ids |-> {1, 2, 3}, addresses |-> {a1, a2},
               calls |-> 2, faults |-> 0]
Recovery   == [ops |-> {"connect", "recover", "signer", "delete", "verify"},
               users |-> {u1, u2}, book |-> Watched, ids |-> {1, 2, 3},
               addresses |-> {a1}, calls |-> 2, faults |-> 0]
Refreshes  == [ops |-> {"delete", "refresh"},
               users |-> {u1}, book |-> Owned, ids |-> {1, 2, 3}, addresses |-> {a1, a2, a3},
               calls |-> 3, faults |-> 1]

RecoveryOnly == {Recovery}
AllMixes == {OneAccount, Recovery, Refreshes}
Callers  == Permutations(Requests)

=============================================================================
