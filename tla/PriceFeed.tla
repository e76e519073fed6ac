----------------------------- MODULE PriceFeed -----------------------------
(***************************************************************************)
(* The price of an asset whose only source is the pool the refresh itself  *)
(* captures (USDY): the price of a run comes from the reserves an earlier  *)
(* run stored, is held against a sanity band, and readers drop it once it  *)
(* is too old.  Prices are integers; 0 stands for a pool too thin to price.*)
(***************************************************************************)
EXTENDS Integers

CONSTANTS
  ReservesMaxAge, \* 60 minutes
  PriceMaxAge,    \* 45 minutes
  BandMemory,     \* 36 hours: how long the previous price binds the next
  BandMin, BandMax,
  Depth,          \* the pools of the asset by the value of their dollar side
  MaxMove,        \* the largest move against the previous price, in percent
  Absent          \* no row, no price

ASSUME PriceAssumption ==
  /\ ReservesMaxAge \in Nat /\ PriceMaxAge \in Nat /\ BandMemory \in Nat
  /\ BandMin \in Nat /\ BandMax \in Nat /\ MaxMove \in Nat
  /\ Absent \notin Nat

\* judgeCandidate: recent reserves of a pool deep enough.
Qualifies(r, now) == r.at # Absent /\ now - r.at <= ReservesMaxAge /\ r.level > 0

\* selectPrice: the deepest of the pools that qualify.
Best(sets, now) ==
  {p \in DOMAIN sets :
     /\ Qualifies(sets[p], now)
     /\ \A other \in DOMAIN sets : Qualifies(sets[other], now) => Depth[p] >= Depth[other]}

Moved(price, previous) ==
  LET move == IF price > previous THEN price - previous ELSE previous - price
  IN 100 * move > MaxMove * previous

\* Mutant: the previous price binds for ever.
InBandOfLast(price, previous, now) ==
  /\ price >= BandMin /\ price <= BandMax
  /\ ~(previous.at # Absent /\ previous.price > 0 /\ Moved(price, previous.price))

InBand(price, previous, now) ==
  /\ price >= BandMin /\ price <= BandMax
  /\ ~(/\ previous.at # Absent /\ previous.price > 0
       /\ now - previous.at <= BandMemory /\ Moved(price, previous.price))

\* The asset's latest row after a run: unchanged when nothing qualifies or the band
\* refuses.
Resolved(sets, previous, now) ==
  LET best == Best(sets, now)
  IN IF best = {} THEN {previous}
     ELSE {IF InBand(sets[p].level, previous, now)
           THEN [price |-> sets[p].level, at |-> now, from |-> sets[p].at]
           ELSE previous : p \in best}

\* Mutant: a reader without the age rule.
HasRow(at, now) == at # Absent

\* freshPriceSql
IsFresh(at, now) == at # Absent /\ now - at < PriceMaxAge

=============================================================================
