---------------------------- MODULE MCAlertSweep ----------------------------
(* Instances of AlertSweep for TLC. *)
EXTENDS AlertSweep

CONSTANTS r1, r2, w1, w2, p1, a1, u1, u2

\* One asset's price and one pool's APY.
MCMarkets == {<<"price", a1>>, <<"apy", p1>>}

MCPrice == {<<"price", a1>>}
MCHolders == [p \in Pools |-> Users]

\* Levels 0 to 2: level 0 breaches LowHealth, 1 is in its band, 2 recovers.
LowHealth == [metric |-> "health", operator |-> "lt", threshold |-> 1, margin |-> 1,
              cooldown |-> 2, scope |-> Positions, enabled |-> TRUE]
HighPrice == [metric |-> "price", operator |-> "gte", threshold |-> 2, margin |-> 0,
              cooldown |-> 1, scope |-> {<<"price", a1>>}, enabled |-> TRUE]
MCConditions == {LowHealth, [LowHealth EXCEPT !.enabled = FALSE], HighPrice}
MCHealthOnly == {LowHealth}
=============================================================================
