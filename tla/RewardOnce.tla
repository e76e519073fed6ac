---------------------------- MODULE RewardOnce ----------------------------
(***************************************************************************)
(* What the reward faucet promises (docs/security-invariants.md, INV-9.5): *)
(* a reward is a payment that has landed on the ledger, and no wallet, no  *)
(* user and no witnessed transaction is rewarded twice for one action      *)
(* family.  The order in which rewards land is unconstrained.              *)
(***************************************************************************)
CONSTANTS Wallets, Users, Families, Witnesses

VARIABLE rewards          \* the set of rewards that have reached the ledger

RewardSet == [wallet: Wallets, user: Users, family: Families, witness: Witnesses]

\* Two rewards that may not both be paid.
Conflict(a, b) ==
  \/ a.family = b.family /\ (a.wallet = b.wallet \/ a.user = b.user)
  \/ a.witness = b.witness

Init == rewards = {}

\* One reward lands; nothing ever takes it back.
Grant(r) ==
  /\ \A s \in rewards : ~Conflict(r, s)
  /\ rewards' = rewards \union {r}

Next == \E r \in RewardSet : Grant(r)

Spec == Init /\ [][Next]_rewards
===========================================================================
