---------------------------- MODULE PoolRefresh ----------------------------
(***************************************************************************)
(* The script that refreshes one pool: it reads the pool's state, pages    *)
(* the pool's events of the last ledgers, stores them row by row, stores   *)
(* the reserves, and publishes the pool's metrics.  The chain grows while  *)
(* the script runs, and a script that fails is run again from the start.   *)
(* One ledger closes per tick, so a ledger number is also a time.          *)
(***************************************************************************)
EXTENDS PriceFeed, FiniteSets, FiniteSetsExt

CONSTANTS
  Pools,
  Lookback, \* LEDGER_LOOKBACK: ledgers a refresh looks back
  Limit,    \* EVENTS_LIMIT: events of a page
  MaxPages, \* MAX_EVENT_PAGES: pages of a refresh
  Day       \* the 24 hours of the published volume

ASSUME PoolAssumption ==
  /\ Lookback \in Nat /\ Limit \in Nat \ {0} /\ MaxPages \in Nat \ {0} /\ Day \in Nat
  /\ Absent \notin Pools
  /\ IsFiniteSet(Pools) /\ Depth \in [Pools -> Nat]

VARIABLES
  now,
  level,    \* the pools' ratio on chain, the price of the asset
  chain,    \* [pool -> [ledger -> its events up to that ledger]]; an event is its place
  child,    \* the locals of the running script
  dollar,   \* when the last USDC row was written
  price,    \* the last price row of the asset: [price, at], from: its reserves' time
  stored,   \* normalized_events: [pool -> events]
  reserves, \* reserve_snapshots: [pool -> latest batch]
  metrics,  \* pool_metrics_latest: [pool -> row]
  whole,    \* history: the head of the pool's last refresh that met no cap
  hole      \* history: ledgers up to here may have been missed for good

market  == <<level, chain>>
events  == <<stored, whole, hole>>
prices  == <<dollar, price>>
pooldb  == <<stored, reserves, metrics, whole, hole>>
poolVars == <<now, level, chain, child, dollar, price, stored, reserves, metrics, whole, hole>>

Idle == [pc |-> "idle", pool |-> Absent, level |-> 0, head |-> 0, first |-> 0, pos |-> 0,
         pages |-> 0, wrote |-> 0]

NoMetrics == [asOf |-> Absent, tvl |-> Absent, from |-> Absent, swaps |-> 0,
              whole |-> -1, hole |-> -1]

PoolInit ==
  /\ now = 0
  /\ chain = [p \in Pools |-> [l \in {0} |-> 0]]
  /\ child = Idle
  /\ dollar = Absent
  /\ price = [price |-> 0, at |-> Absent, from |-> Absent]
  /\ stored = [p \in Pools |-> {}]
  /\ reserves = [p \in Pools |-> [level |-> 0, at |-> Absent]]
  /\ metrics = [p \in Pools |-> NoMetrics]
  /\ whole = [p \in Pools |-> -1]
  /\ hole = [p \in Pools |-> -1]

-----------------------------------------------------------------------------
\* The events of a pool up to ledger l: they are 1..UpTo(p, l).
UpTo(p, l)        == IF l < 0 THEN 0 ELSE chain[p][l]
LateStart(head)   == head - Lookback + 1 \* mutant
StartLedger(head) == head - Lookback
Least(a, b)       == IF a < b THEN a ELSE b

Launch(p) ==
  /\ child = Idle
  /\ child' = [Idle EXCEPT !.pc = "state", !.pool = p]

ReadState ==
  /\ child.pc = "state"
  /\ child' = [child EXCEPT !.pc = "ledger", !.level = level]

ReadLedger ==
  /\ child.pc = "ledger"
  /\ child' = [child EXCEPT !.pc = "page", !.head = now]

\* One getEvents call: the first page by ledger, the next ones by cursor.
\* A page with events is assumed to carry a cursor that moves on, so the loop ends at an
\* empty page or at the page cap.
ReadPage ==
  LET p    == child.pool
      from == IF child.pages = 0 THEN UpTo(p, StartLedger(child.head) - 1) ELSE child.pos
      got  == Least(Limit, chain[p][now] - from)
      last == got = 0 \/ child.pages + 1 = MaxPages
  IN /\ child.pc = "page"
     /\ child' = [child EXCEPT !.pages = @ + 1, !.pos = from + got,
                               !.first = IF child.pages = 0 THEN from ELSE @,
                               !.wrote = IF child.pages = 0 THEN from ELSE @,
                               !.pc = IF last THEN "events" ELSE "page"]

\* One autocommitted upsert by (contract_address, event_id).
StoreEvent ==
  /\ child.pc = "events" /\ child.wrote < child.pos
  /\ stored' = [stored EXCEPT ![child.pool] = @ \union {child.wrote + 1}]
  /\ child' = [child EXCEPT !.wrote = @ + 1]
  /\ UNCHANGED <<whole, hole>>

\* The history is about the chain alone: did all the events that this refresh had to
\* find fit in its pages, and does its window join the ledgers already covered?
EventsStored ==
  LET p     == child.pool
      start == child.head - Lookback
      fits  == UpTo(p, child.head) - UpTo(p, start - 1) <= Limit * MaxPages
  IN /\ child.pc = "events" /\ child.wrote = child.pos
     /\ child' = [child EXCEPT !.pc = "reserves"]
     /\ whole' = IF fits THEN [whole EXCEPT ![p] = child.head] ELSE whole
     /\ hole' = IF fits /\ start > whole[p] + 1 THEN [hole EXCEPT ![p] = start - 1] ELSE hole
     /\ UNCHANGED stored

\* One transaction, one snapshot_at.
StoreReserves ==
  /\ child.pc = "reserves"
  /\ reserves' = [reserves EXCEPT ![child.pool] = [level |-> child.level, at |-> now]]
  /\ child' = [child EXCEPT !.pc = "metrics"]

\* tvlFromLegs: the priced legs, the dollars worth level and the asset worth its price.
Tvl(r) ==
  LET dollars == IsFresh(dollar, now)
      asset   == IsFresh(price.at, now)
  IN IF ~dollars /\ ~asset THEN Absent
     ELSE (IF dollars THEN r.level ELSE 0) + (IF asset THEN price.price ELSE 0)

\* Mutant: the oldest ledger of the day is left out.
ShortDay(p) == Cardinality({i \in stored[p] : i > UpTo(p, now - Day)})
Swaps(p) == Cardinality({i \in stored[p] : i > UpTo(p, now - Day - 1)})

StoreMetrics ==
  LET p == child.pool
  IN /\ child.pc = "metrics"
     /\ metrics' = [metrics EXCEPT ![p] =
          [asOf |-> now, tvl |-> Tvl(reserves[p]),
           from |-> IF IsFresh(price.at, now) THEN price.from ELSE Absent,
           swaps |-> Swaps(p), whole |-> whole[p], hole |-> hole[p]]]
     /\ child' = [child EXCEPT !.pc = "done"]

\* The steps of the script, each with what it leaves alone.
Script ==
  \/ ReadState     /\ UNCHANGED <<now, market, prices, pooldb>>
  \/ ReadLedger    /\ UNCHANGED <<now, market, prices, pooldb>>
  \/ ReadPage      /\ UNCHANGED <<now, market, prices, pooldb>>
  \/ StoreEvent    /\ UNCHANGED <<now, market, prices, reserves, metrics>>
  \/ EventsStored  /\ UNCHANGED <<now, market, prices, reserves, metrics>>
  \/ StoreReserves /\ UNCHANGED <<now, market, prices, events, metrics>>
  \/ StoreMetrics  /\ UNCHANGED <<now, market, prices, events, reserves>>

-----------------------------------------------------------------------------
\* A ledger closes with some events of the pools, and the ratio may have moved.
Close(news, to) ==
  /\ now' = now + 1
  /\ level' = to
  /\ chain' = [p \in Pools |-> [l \in 0..now + 1 |->
                 IF l <= now THEN chain[p][l] ELSE chain[p][now] + news[p]]]
  /\ UNCHANGED <<child, prices, pooldb>>

-----------------------------------------------------------------------------
(* Properties *)

\* No event is lost: over retries, kills, late starts and pages that end early, every
\* event up to the head of the last refresh that met no cap is stored, unless its ledger
\* had left the window before a refresh came (fetch-pair-events.ts, the paging loop).
NothingLost ==
  \A p \in Pools : UpTo(p, hole[p]) + 1 .. UpTo(p, whole[p]) \subseteq stored[p]

\* The published 24 h volume is the volume of the day: once the missed ledgers are a day
\* old it counts every swap up to the refresh's head, none twice and none of yesterday
\* (persist-pair-metrics.ts, the sum over normalized_events).
VolumeIsTheDay ==
  \A p \in Pools :
    LET m == metrics[p]
        swaps(from, to) == UpTo(p, to) - UpTo(p, from - 1)
    IN m.asOf # Absent /\ m.hole < m.asOf - Day =>
         /\ swaps(m.asOf - Day, m.whole) <= m.swaps
         /\ m.swaps <= swaps(m.asOf - Day, m.asOf)

\* A TVL never rests on an asset price whose reserves were captured longer ago than both
\* age limits together, whatever was retried, late or killed in between (prices.ts:14-20,
\* xlm-price.ts:124): the feedback of prices and reserves cannot keep itself alive.
ValueIsRecent ==
  \A p \in Pools : metrics[p].from # Absent =>
    metrics[p].asOf - metrics[p].from <= PriceMaxAge + ReservesMaxAge

=============================================================================
