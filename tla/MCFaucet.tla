----------------------------- MODULE MCFaucet -----------------------------
(* Instances of Faucet for TLC. *)
EXTENDS Faucet, TLC

CONSTANTS p1, p2, w1, w2, u1, u2, x1, x2, x3

\* x1 and x2 are swaps of the two wallets, x3 a Blend supply of the first one.
MCTxOf == [x \in Witnesses |->
  [wallet |-> IF x = x2 THEN w2 ELSE w1,
   family |-> IF x = x3 THEN "blend-supply" ELSE "swap",
   closed |-> 0]]
\* The first wallet is registered by both users, the second by one of them.
MCOwners == [w \in Wallets |-> IF w = w1 THEN {u1, u2} ELSE {u2}]
MCOwnersApart == [w \in Wallets |-> IF w = w1 THEN {u1} ELSE {u2}]
Live == [enabled |-> TRUE, key |-> TRUE]
Dark == [enabled |-> FALSE, key |-> FALSE]
MCEnvs == {Live}
MCEnvsAll == {Live, Dark}

\* The API processes are interchangeable.
ProcSymmetry == Permutations(Procs)
===========================================================================
