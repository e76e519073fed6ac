--------------------------- MODULE RefreshProofs ---------------------------
(***************************************************************************)
(* Proofs about the refresh job, for every set of pools, every lookback,   *)
(* page size and page cap, every cadence and age limit, whatever scripts   *)
(* fail, runs are killed and cycles are missed.                            *)
(***************************************************************************)
EXTENDS RefreshPipeline, FiniteSetTheorems, TLAPS

(***************************************************************************)
(* The inductive invariant.  NothingLost needs what the script knows while *)
(* it works: where its window begins, how far its pages reach, and which   *)
(* of their events it has stored.  ValueIsRecent needs the age of the      *)
(* reserves behind the price row.                                          *)
(***************************************************************************)

\* The events up to a ledger only grow with the ledger.
Growing == \A p \in Pools : \A l, m \in 0..now : l <= m => chain[p][l] <= chain[p][m]

\* The pages read so far reach the head, or they were all full.
Reached ==
  \/ child.pos >= UpTo(child.pool, child.head)
  \/ child.pos >= child.first + child.pages * Limit

\* What the script knows once it has read a page.
Paged ==
  /\ child.first = UpTo(child.pool, StartLedger(child.head) - 1)
  /\ child.pos <= chain[child.pool][now]
  /\ Reached

ScriptKnows ==
  /\ child.pc # "idle" => child.pool \in Pools
  /\ child.pc \in {"state", "ledger"} => child.pages = 0
  /\ child.pc = "page" => child.pages < MaxPages
  /\ child.pc = "page" /\ child.pages > 0 => Paged /\ child.wrote = child.first
  /\ child.pc = "events" =>
       /\ Paged
       /\ child.first + 1 .. child.wrote \subseteq stored[child.pool]
       /\ child.pos >= UpTo(child.pool, child.head) \/ child.pages = MaxPages

\* The reserves behind the price row were young when the row was written.
PriceKnows ==
  price.at # Absent =>
    /\ price.from # Absent /\ price.from <= price.at
    /\ price.at - price.from <= ReservesMaxAge

PoolType ==
  /\ now \in Nat /\ level \in Nat
  /\ chain \in [Pools -> [0..now -> Nat]]
  /\ stored \in [Pools -> SUBSET Nat]
  /\ \A p \in Pools : stored[p] \subseteq 1..chain[p][now]
  /\ whole \in [Pools -> -1..now] /\ hole \in [Pools -> -1..now]
  /\ reserves \in [Pools -> [level : Nat, at : Times]]
  /\ dollar \in Times /\ price \in [price : Nat, at : Times, from : Times]
  /\ DOMAIN metrics = Pools
  /\ \A p \in Pools : metrics[p].asOf \in Times /\ metrics[p].from \in Times
  /\ child \in Child /\ child.wrote \in child.first..child.pos

\* The scripts of the pool stages are scripts of pools.
Found ==
  /\ run.found["soroswap"] \subseteq Pools /\ run.found["aquarius"] \subseteq Pools
  /\ InSteps /\ Now.kind = "pools" => run.todo \subseteq Pools

JobType ==
  /\ mix \in Mixes /\ run \in Run /\ (Running => run.at \in 0..now)
  /\ \A r \in ops : r.at \in 0..now
  /\ calm \in 0..now /\ faults \in Nat

OneScript == child # Idle => Working("pools") /\ child.pool = Item

PoolInv == PoolType /\ Growing /\ ScriptKnows /\ PriceKnows /\ NothingLost /\ ValueIsRecent
JobInv  == JobType /\ Found
IInv    == PoolInv /\ JobInv /\ OneScript

-----------------------------------------------------------------------------
(* Facts about the operators.                                              *)

LEMMA UpToType ==
  ASSUME PoolType, NEW p \in Pools, NEW l \in Int, l <= now
  PROVE  UpTo(p, l) \in Nat
  BY DEF PoolType, UpTo

LEMMA UpToGrows ==
  ASSUME PoolType, Growing, NEW p \in Pools, NEW l \in Int, NEW m \in Int, l <= m, m <= now
  PROVE  UpTo(p, l) <= UpTo(p, m)
  <1>1. CASE l < 0
    BY <1>1, UpToType DEF UpTo
  <1>2. CASE l >= 0
    BY <1>2 DEF UpTo, Growing, PoolType
  <1> QED BY <1>1, <1>2

LEMMA StageTable ==
  /\ DOMAIN Stages = 1..15 /\ Len(Stages) = 15
  /\ \A i \in 1..15 :
       /\ Stages[i].venue # "one" => Stages[i].venue \in Venues
       /\ Stages[i].kind = "discover" => Stages[i].venue # "one"
       /\ Stages[i].kind = "pools" => Stages[i].venue \in {"soroswap", "aquarius"}
  <1>1. DOMAIN Stages = 1..15 /\ Len(Stages) = 15
    BY DEF Stages
  <1>2. ASSUME NEW i \in 1..15
        PROVE  /\ Stages[i].venue # "one" => Stages[i].venue \in Venues
               /\ Stages[i].kind = "discover" => Stages[i].venue # "one"
               /\ Stages[i].kind = "pools" => Stages[i].venue \in {"soroswap", "aquarius"}
    <2>1. \/ i = 1 \/ i = 2 \/ i = 3 \/ i = 4 \/ i = 5 \/ i = 6 \/ i = 7 \/ i = 8
          \/ i = 9 \/ i = 10 \/ i = 11 \/ i = 12 \/ i = 13 \/ i = 14 \/ i = 15
      OBVIOUS
    <2> QED BY <2>1 DEF Stages, Stage, Venues
  <1> QED BY <1>1, <1>2

LEMMA IdleType == PoolType => Idle \in Child
  BY PoolAssumption DEF Idle, Child, PoolType

LEMMA ChildFields ==
  ASSUME PoolInv
  PROVE  /\ child \in Child /\ now \in Nat /\ child.head \in 0..now
         /\ child.first \in Nat /\ child.pos \in Nat /\ child.wrote \in Nat
         /\ child.first <= child.wrote /\ child.wrote <= child.pos
         /\ child.pages \in 0..MaxPages /\ child.level \in Nat
         /\ child.pc # "idle" => child.pool \in Pools
  <1>1. child \in Child /\ now \in Nat /\ child.wrote \in child.first..child.pos
    BY DEF PoolInv, PoolType
  <1>2. /\ child.head \in 0..now /\ child.first \in Nat /\ child.pos \in Nat
        /\ child.wrote \in Nat /\ child.pages \in 0..MaxPages /\ child.level \in Nat
    BY <1>1 DEF Child
  <1>3. child.pc # "idle" => child.pool \in Pools
    BY DEF PoolInv, ScriptKnows
  <1> QED BY <1>1, <1>2, <1>3

-----------------------------------------------------------------------------
(* The steps on the pool's state.                                          *)

\* The script ends, is given up or is killed.
LEMMA PoolStops ==
  ASSUME PoolInv, child' = Idle, UNCHANGED <<now, market, prices, pooldb>>
  PROVE  PoolInv'
  <1> USE DEF market, prices, pooldb
  <1>1. PoolType'
    <2>1. child' \in Child' /\ child'.wrote \in child'.first..child'.pos
      BY IdleType DEF PoolInv, Idle, Child
    <2> QED BY <2>1 DEF PoolInv, PoolType, Times
  <1>2. ScriptKnows'
    BY DEF ScriptKnows, Idle
  <1>3. Growing' /\ PriceKnows' /\ NothingLost' /\ ValueIsRecent'
    BY DEF PoolInv, Growing, PriceKnows, NothingLost, UpTo, ValueIsRecent
  <1> QED BY <1>1, <1>2, <1>3 DEF PoolInv

\* A step that leaves the pool's state alone.
LEMMA PoolRests ==
  ASSUME PoolInv, UNCHANGED poolVars
  PROVE  PoolInv'
  BY DEF PoolInv, poolVars, PoolType, Growing, ScriptKnows, Paged, Reached, StartLedger,
         PriceKnows, NothingLost, UpTo, ValueIsRecent, Times, Child

\* A script starts.
LEMMA PoolStarts ==
  ASSUME PoolInv, NEW p \in Pools, Launch(p), UNCHANGED <<now, market, prices, pooldb>>
  PROVE  PoolInv'
  <1> USE DEF market, prices, pooldb
  <1>0. child' = [Idle EXCEPT !.pc = "state", !.pool = p]
    BY DEF Launch
  <1>1. PoolType'
    <2>1. child' \in Child' /\ child'.wrote \in child'.first..child'.pos
      <3>1. child' = [pc |-> "state", pool |-> p, level |-> 0, head |-> 0, first |-> 0,
                      pos |-> 0, pages |-> 0, wrote |-> 0]
        BY <1>0 DEF Idle
      <3>2. now' \in Nat /\ MaxPages \in Nat
        BY PoolAssumption DEF PoolInv, PoolType
      <3> QED BY <3>1, <3>2 DEF Child
    <2> QED BY <2>1 DEF PoolInv, PoolType, Times
  <1>2. ScriptKnows'
    BY <1>0 DEF ScriptKnows, Idle
  <1>3. Growing' /\ PriceKnows' /\ NothingLost' /\ ValueIsRecent'
    BY DEF PoolInv, Growing, PriceKnows, NothingLost, UpTo, ValueIsRecent
  <1> QED BY <1>1, <1>2, <1>3 DEF PoolInv

\* The script reads the pool's state, or the latest ledger.
LEMMA PoolReads ==
  ASSUME PoolInv, ReadState \/ ReadLedger, UNCHANGED <<now, market, prices, pooldb>>
  PROVE  PoolInv'
  <1> USE DEF market, prices, pooldb
  <1>1. /\ child.pc # "idle"
        /\ \/ child' = [child EXCEPT !.pc = "ledger", !.level = level]
           \/ child' = [child EXCEPT !.pc = "page", !.head = now]
    BY DEF ReadState, ReadLedger
  <1>2. PoolType'
    <2>1. child \in Child /\ level \in Nat /\ now \in 0..now /\ child.wrote \in child.first..child.pos
      BY DEF PoolInv, PoolType
    <2>2. child' \in Child
      BY <1>1, <2>1 DEF Child
    <2>3. child'.wrote = child.wrote /\ child'.first = child.first /\ child'.pos = child.pos
      BY <1>1, <2>1 DEF Child
    <2>4. Child' = Child
      BY DEF Child
    <2> QED BY <2>1, <2>2, <2>3, <2>4 DEF PoolInv, PoolType, Times
  <1>3. ScriptKnows'
    <2>1. child.pc \in {"state", "ledger"} /\ child \in Child
      BY DEF ReadState, ReadLedger, PoolInv, PoolType
    <2>2. child'.pages = 0 /\ child'.pc \in {"ledger", "page"} /\ child'.pool = child.pool
      BY <1>1, <2>1 DEF PoolInv, ScriptKnows, Child
    <2> QED BY <2>1, <2>2, PoolAssumption DEF PoolInv, ScriptKnows
  <1>4. Growing' /\ PriceKnows' /\ NothingLost' /\ ValueIsRecent'
    BY DEF PoolInv, Growing, PriceKnows, NothingLost, UpTo, ValueIsRecent
  <1> QED BY <1>2, <1>3, <1>4 DEF PoolInv

\* One page.
LEMMA PoolPages ==
  ASSUME PoolInv, ReadPage, UNCHANGED <<now, market, prices, pooldb>>
  PROVE  PoolInv'
  <1> USE DEF market, prices, pooldb
  <1> DEFINE p == child.pool
             first == UpTo(p, StartLedger(child.head) - 1)
             from == IF child.pages = 0 THEN first ELSE child.pos
             got == Least(Limit, chain[p][now] - from)
             last == got = 0 \/ child.pages + 1 = MaxPages
  <1>1. /\ child.pc = "page" /\ p \in Pools /\ child \in Child /\ child.pages < MaxPages
        /\ child.pages \in Nat /\ child.head \in 0..now /\ now \in Nat
        /\ chain[p][now] \in Nat /\ Limit \in Nat \ {0} /\ MaxPages \in Nat
        /\ Lookback \in Nat
    <2>1. child.pc = "page"
      BY DEF ReadPage
    <2>2. child.pages < MaxPages /\ p \in Pools
      BY <2>1, ChildFields DEF PoolInv, ScriptKnows
    <2>3. chain[p][now] \in Nat
      BY <2>2, ChildFields DEF PoolInv, PoolType
    <2> QED BY <2>1, <2>2, <2>3, ChildFields, PoolAssumption
  <1>2. child' = [child EXCEPT !.pages = @ + 1, !.pos = from + got,
                               !.first = IF child.pages = 0 THEN from ELSE @,
                               !.wrote = IF child.pages = 0 THEN from ELSE @,
                               !.pc = IF last THEN "events" ELSE "page"]
    BY DEF ReadPage
  <1>3. /\ first \in Nat /\ UpTo(p, child.head) \in Nat
        /\ first <= chain[p][now] /\ UpTo(p, child.head) <= chain[p][now]
    <2>1. /\ StartLedger(child.head) - 1 \in Int /\ StartLedger(child.head) - 1 <= now
          /\ child.head \in Int /\ now \in Int /\ child.head <= now
      BY <1>1 DEF StartLedger
    <2>2. UpTo(p, now) = chain[p][now]
      BY <1>1 DEF UpTo
    <2> QED BY <1>1, <2>1, <2>2, UpToType, UpToGrows DEF PoolInv
  <1>4. /\ from \in Nat /\ from <= chain[p][now]
        /\ child.pages > 0 => child.first = first /\ child.wrote = first
                              /\ first <= child.pos
    <2>1. CASE child.pages = 0
      BY <2>1, <1>3
    <2>2. CASE child.pages > 0
      <3>1. Paged /\ child.wrote = child.first
        BY <2>2, <1>1 DEF PoolInv, ScriptKnows
      <3>2. child.first = first /\ child.pos <= chain[p][now]
        BY <3>1 DEF Paged
      <3> QED BY <2>2, <3>1, <3>2, <1>3, ChildFields
    <2> QED BY <2>1, <2>2, <1>1
  <1>5. /\ got \in Nat /\ from + got <= chain[p][now]
        /\ got = Limit \/ from + got = chain[p][now]
    BY <1>1, <1>4 DEF Least
  <1>6. /\ child'.pages = child.pages + 1 /\ child'.pos = from + got
        /\ child'.first = first /\ child'.wrote = first /\ first <= child'.pos
        /\ child'.pool = p /\ child'.head = child.head /\ child'.level = child.level
        /\ child'.pc = IF last THEN "events" ELSE "page"
        /\ child' \in Child
    <2> HIDE DEF first, got, last
    <2>1. (IF child.pages = 0 THEN from ELSE child.first) = first
          /\ (IF child.pages = 0 THEN from ELSE child.wrote) = first
      BY <1>1, <1>4 DEF Child
    <2> HIDE DEF from
    <2>2. child' = [pc |-> IF last THEN "events" ELSE "page", pool |-> p,
                    level |-> child.level, head |-> child.head, first |-> first,
                    pos |-> from + got, pages |-> child.pages + 1, wrote |-> first]
      BY <1>1, <1>2, <2>1 DEF Child
    <2>3. first <= from + got /\ from + got \in Nat /\ child.pages + 1 \in 0..MaxPages
      BY <1>1, <1>3, <1>4, <1>5 DEF from
    <2>4. child.level \in Nat /\ child.pool \in Pools
      BY <1>1 DEF Child
    <2> QED BY <2>2, <2>3, <2>4, <1>1, <1>3 DEF Child
  <1>7. PoolType'
    <2>1. child' \in Child' /\ child'.wrote \in child'.first..child'.pos
      BY <1>3, <1>5, <1>6, <1>1 DEF Child
    <2> QED BY <2>1 DEF PoolInv, PoolType, Times
  <1>8. ScriptKnows'
    <2>1. child'.pos >= UpTo(p, child.head)
          \/ child'.pos >= child'.first + child'.pages * Limit
      <3>1. CASE child.pages = 0
        BY <3>1, <1>1, <1>3, <1>5, <1>6
      <3>2. CASE child.pages > 0
        <4>1. child.pos >= UpTo(p, child.head) \/ child.pos >= first + child.pages * Limit
          BY <1>1, <1>4, <3>2 DEF PoolInv, ScriptKnows, Paged, Reached
        <4>2. (child.pages + 1) * Limit = child.pages * Limit + Limit
          BY <1>1
        <4>3. child.pages * Limit \in Nat
          BY <1>1
        <4> QED BY <4>1, <4>2, <4>3, <3>2, <1>1, <1>3, <1>4, <1>5, <1>6
      <3> QED BY <3>1, <3>2, <1>1
    <2>2. Paged'
      <3>1. UpTo(p, StartLedger(child.head) - 1)' = first /\ UpTo(p, child.head)' = UpTo(p, child.head)
        BY <1>6 DEF UpTo, StartLedger
      <3> QED BY <3>1, <2>1, <1>5, <1>6 DEF Paged, Reached, UpTo, StartLedger
    <2>3. child'.pc = "events" =>
            child'.pos >= UpTo(p, child.head) \/ child'.pages = MaxPages
      BY <1>1, <1>3, <1>4, <1>5, <1>6
    <2>4. child'.first + 1 .. child'.wrote = {}
      BY <1>6, <1>3
    <2> QED BY <2>2, <2>3, <2>4, <1>1, <1>6 DEF ScriptKnows, UpTo
  <1>9. Growing' /\ PriceKnows' /\ NothingLost' /\ ValueIsRecent'
    BY DEF PoolInv, Growing, PriceKnows, NothingLost, UpTo, ValueIsRecent
  <1> QED BY <1>7, <1>8, <1>9 DEF PoolInv

\* One event.
LEMMA PoolStoresEvent ==
  ASSUME PoolInv, StoreEvent, UNCHANGED <<now, market, prices, reserves, metrics>>
  PROVE  PoolInv'
  <1> USE DEF market, prices
  <1> DEFINE p == child.pool
             e == child.wrote + 1
  <1>1. /\ child \in Child /\ p \in Pools /\ child.pc = "events"
        /\ child.wrote \in Nat /\ child.pos \in Nat /\ child.first \in Nat
        /\ child.first <= child.wrote /\ child.wrote < child.pos
        /\ child.pos <= chain[p][now] /\ chain[p][now] \in Nat /\ now \in Nat
    <2>1. child.pc = "events" /\ child.wrote < child.pos
      BY DEF StoreEvent
    <2>2. child.pos <= chain[p][now]
      BY <2>1 DEF PoolInv, ScriptKnows, Paged
    <2>3. p \in Pools
      BY <2>1, ChildFields
    <2>4. chain[p][now] \in Nat
      BY <2>3 DEF PoolInv, PoolType
    <2> QED BY <2>1, <2>2, <2>3, <2>4, ChildFields
  <1>2. /\ stored' = [stored EXCEPT ![p] = @ \union {e}]
        /\ child' = [child EXCEPT !.wrote = @ + 1]
        /\ UNCHANGED <<whole, hole>>
    BY DEF StoreEvent
  <1>3. child' = [pc |-> "events", pool |-> p, level |-> child.level, head |-> child.head,
                  first |-> child.first, pos |-> child.pos, pages |-> child.pages,
                  wrote |-> e]
    BY <1>1, <1>2 DEF Child
  <1>4. /\ e \in 1..chain[p][now] /\ stored \in [Pools -> SUBSET Nat]
        /\ \A q \in Pools : stored[q] \subseteq 1..chain[q][now]
    <2>1. e \in 1..chain[p][now]
      BY <1>1
    <2>2. /\ stored \in [Pools -> SUBSET Nat]
          /\ \A q \in Pools : stored[q] \subseteq 1..chain[q][now]
      BY DEF PoolInv, PoolType
    <2> QED BY <2>1, <2>2
  <1>5. /\ stored' \in [Pools -> SUBSET Nat]
        /\ \A q \in Pools : stored[q] \subseteq stored'[q]
        /\ stored'[p] = stored[p] \union {e}
        /\ \A q \in Pools : stored'[q] \subseteq 1..chain[q][now]
    BY <1>1, <1>2, <1>4
  <1>6. PoolType'
    <2>1. child' \in Child
      BY <1>1, <1>3 DEF Child
    <2>2. Child' = Child
      BY DEF Child
    <2>3. child'.wrote \in child'.first..child'.pos
      BY <1>1, <1>3
    <2> QED BY <1>2, <1>5, <2>1, <2>2, <2>3 DEF PoolInv, PoolType, Times
  <1>7. ScriptKnows'
    <2>1. Paged'
      BY <1>1, <1>3 DEF PoolInv, ScriptKnows, Paged, Reached, UpTo, StartLedger
    <2>2. child'.first + 1 .. child'.wrote \subseteq stored'[child'.pool]
      <3>1. child.first + 1 .. child.wrote \subseteq stored[p]
        BY <1>1 DEF PoolInv, ScriptKnows
      <3>2. child.first + 1 .. e \subseteq stored[p] \union {e}
        BY <3>1, <1>1
      <3> QED BY <3>2, <1>3, <1>5
    <2>3. child.pos >= UpTo(child.pool, child.head) \/ child.pages = MaxPages
      BY <1>1 DEF PoolInv, ScriptKnows
    <2> QED BY <2>1, <2>2, <2>3, <1>1, <1>3 DEF ScriptKnows, UpTo
  <1>8. NothingLost'
    BY <1>2, <1>5 DEF PoolInv, NothingLost, UpTo
  <1>9. Growing' /\ PriceKnows' /\ ValueIsRecent'
    BY DEF PoolInv, Growing, PriceKnows, ValueIsRecent
  <1> QED BY <1>6, <1>7, <1>8, <1>9 DEF PoolInv

\* All of them.
LEMMA PoolEventsStored ==
  ASSUME PoolInv, EventsStored, UNCHANGED <<now, market, prices, reserves, metrics>>
  PROVE  PoolInv'
  <1> USE DEF market, prices
  <1> DEFINE p == child.pool
             start == child.head - Lookback
             fits == UpTo(p, child.head) - UpTo(p, start - 1) <= Limit * MaxPages
             gap == start > whole[p] + 1
  <1>1. /\ child \in Child /\ p \in Pools /\ child.pc = "events"
        /\ child.wrote \in Nat /\ child.pos \in Nat /\ child.first \in Nat
        /\ child.wrote = child.pos /\ child.head \in 0..now /\ now \in Nat
        /\ child.wrote \in child.first..child.pos
        /\ start \in Int /\ start - 1 < child.head
    <2>1. child.pc = "events" /\ child.wrote = child.pos
      BY DEF EventsStored
    <2> QED BY <2>1, ChildFields, PoolAssumption
  <1>2. /\ child' = [child EXCEPT !.pc = "reserves"]
        /\ whole' = IF fits THEN [whole EXCEPT ![p] = child.head] ELSE whole
        /\ hole' = IF fits /\ gap THEN [hole EXCEPT ![p] = start - 1] ELSE hole
        /\ UNCHANGED stored
    BY DEF EventsStored
  <1>3. whole \in [Pools -> -1..now] /\ hole \in [Pools -> -1..now]
    BY DEF PoolInv, PoolType
  <1>4. whole' \in [Pools -> -1..now] /\ hole' \in [Pools -> -1..now]
    <2>1. child.head \in -1..now
      BY <1>1
    <2>2. ASSUME fits, gap
          PROVE  start - 1 \in -1..now
      <3>1. whole[p] >= -1 /\ whole[p] \in Int
        BY <1>1, <1>3
      <3> QED BY <3>1, <2>2, <1>1
    <2> QED BY <1>1, <1>2, <1>3, <2>1, <2>2
  <1>5. PoolType'
    <2>1. child' \in Child /\ child'.wrote \in child'.first..child'.pos
      BY <1>1, <1>2 DEF Child
    <2>2. Child' = Child
      BY DEF Child
    <2> QED BY <1>2, <1>4, <2>1, <2>2 DEF PoolInv, PoolType, Times
  <1>6. ScriptKnows'
    <2>1. child'.pc = "reserves" /\ child'.pool = p
      BY <1>1, <1>2 DEF Child
    <2> QED BY <2>1, <1>1 DEF ScriptKnows
  <1>7. NothingLost'
    <2>1. UpTo(p, start - 1) \in Nat /\ UpTo(p, child.head) \in Nat
      BY <1>1, UpToType DEF PoolInv
    <2>2. child.first = UpTo(p, start - 1) /\ child.first + 1 .. child.pos \subseteq stored[p]
      BY <1>1 DEF PoolInv, ScriptKnows, Paged, StartLedger
    <2>3. ASSUME fits
          PROVE  UpTo(p, start - 1) + 1 .. UpTo(p, child.head) \subseteq stored[p]
      <3>1. child.pos >= UpTo(p, child.head)
        <4>1. CASE child.pages = MaxPages
          <5>1. child.pos >= UpTo(p, child.head) \/ child.pos >= child.first + MaxPages * Limit
            BY <4>1, <1>1 DEF PoolInv, ScriptKnows, Paged, Reached
          <5>2. MaxPages * Limit = Limit * MaxPages /\ Limit * MaxPages \in Nat
            BY PoolAssumption
          <5> QED BY <5>1, <5>2, <2>1, <2>2, <2>3, <1>1
        <4>2. CASE child.pages # MaxPages
          BY <4>2, <1>1 DEF PoolInv, ScriptKnows
        <4> QED BY <4>1, <4>2
      <3> QED BY <3>1, <2>1, <2>2, <1>1
    <2>4. SUFFICES ASSUME NEW q \in Pools
                   PROVE  UpTo(q, hole'[q]) + 1 .. UpTo(q, whole'[q]) \subseteq stored[q]
      <3>1. stored' = stored /\ chain' = chain
        BY <1>2
      <3> QED BY <2>4, <3>1 DEF NothingLost, UpTo
    <2>5. UpTo(q, hole[q]) + 1 .. UpTo(q, whole[q]) \subseteq stored[q]
      BY DEF PoolInv, NothingLost
    <2>6. CASE q # p \/ ~fits
      <3>1. hole'[q] = hole[q] /\ whole'[q] = whole[q]
        BY <2>6, <1>2, <1>3
      <3> QED BY <3>1, <2>5
    <2>7. CASE q = p /\ fits /\ gap
      <3>1. hole'[q] = start - 1 /\ whole'[q] = child.head
        BY <2>7, <1>1, <1>2, <1>3
      <3> QED BY <3>1, <2>3, <2>7
    <2>8. CASE q = p /\ fits /\ ~gap
      <3>1. hole'[q] = hole[q] /\ whole'[q] = child.head
        BY <2>8, <1>1, <1>2, <1>3
      <3>2. hole[q] \in Int /\ hole[q] <= now /\ whole[q] \in Int /\ whole[q] <= now
        BY <1>3
      <3>3. /\ UpTo(q, hole[q]) \in Nat /\ UpTo(q, whole[q]) \in Nat
            /\ UpTo(q, start - 1) <= UpTo(q, whole[q])
        BY <3>2, <2>8, <1>1, UpToType, UpToGrows DEF PoolInv
      <3> QED BY <3>1, <3>3, <2>1, <2>3, <2>5, <2>8
    <2> QED BY <2>6, <2>7, <2>8
  <1>8. Growing' /\ PriceKnows' /\ ValueIsRecent'
    BY DEF PoolInv, Growing, PriceKnows, ValueIsRecent
  <1> QED BY <1>5, <1>6, <1>7, <1>8 DEF PoolInv

\* The reserves.
LEMMA PoolStoresReserves ==
  ASSUME PoolInv, StoreReserves, UNCHANGED <<now, market, prices, events, metrics>>
  PROVE  PoolInv'
  <1> USE DEF market, prices, events
  <1>1. /\ child.pc = "reserves" /\ child.pool \in Pools
        /\ reserves' = [reserves EXCEPT ![child.pool] = [level |-> child.level, at |-> now]]
        /\ child' = [child EXCEPT !.pc = "metrics"]
    BY ChildFields DEF StoreReserves
  <1>2. PoolType'
    <2>1. child' \in Child /\ child'.wrote \in child'.first..child'.pos
      BY <1>1, ChildFields DEF Child
    <2>2. Child' = Child /\ Times' = Times
      BY DEF Child, Times
    <2>3. reserves' \in [Pools -> [level : Nat, at : Times]]
      <3>1. [level |-> child.level, at |-> now] \in [level : Nat, at : Times]
        BY ChildFields DEF Times
      <3>2. reserves \in [Pools -> [level : Nat, at : Times]]
        BY DEF PoolInv, PoolType
      <3> QED BY <3>1, <3>2, <1>1
    <2> QED BY <2>1, <2>2, <2>3 DEF PoolInv, PoolType
  <1>3. ScriptKnows'
    <2>1. child'.pc = "metrics" /\ child'.pool = child.pool
      BY <1>1, ChildFields DEF Child
    <2> QED BY <2>1, <1>1 DEF ScriptKnows
  <1>4. Growing' /\ PriceKnows' /\ NothingLost' /\ ValueIsRecent'
    BY DEF PoolInv, Growing, PriceKnows, NothingLost, UpTo, ValueIsRecent
  <1> QED BY <1>2, <1>3, <1>4 DEF PoolInv

\* The metrics.
LEMMA PoolStoresMetrics ==
  ASSUME PoolInv, StoreMetrics, UNCHANGED <<now, market, prices, events, reserves>>
  PROVE  PoolInv'
  <1> USE DEF market, prices, events
  <1> DEFINE p == child.pool
             from == IF IsFresh(price.at, now) THEN price.from ELSE Absent
             row == [asOf |-> now, tvl |-> Tvl(reserves[p]), from |-> from,
                     swaps |-> Swaps(p), whole |-> whole[p], hole |-> hole[p]]
  <1>1. /\ child.pc = "metrics" /\ p \in Pools
        /\ metrics' = [metrics EXCEPT ![p] = row]
        /\ child' = [child EXCEPT !.pc = "done"]
    BY ChildFields DEF StoreMetrics
  <1>2. /\ now \in Nat /\ DOMAIN metrics = Pools
        /\ price.at \in Times /\ price.from \in Times
    BY DEF PoolInv, PoolType
  <1>3. /\ DOMAIN metrics' = Pools /\ metrics'[p] = row
        /\ \A q \in Pools : q # p => metrics'[q] = metrics[q]
    <2> HIDE DEF row
    <2> QED BY <1>1, <1>2
  <1>4. row.asOf = now /\ row.from = from
    OBVIOUS
  <1>5. from \in Times /\ now \in Times
    BY <1>2 DEF Times
  <1>6. from # Absent => now - from <= PriceMaxAge + ReservesMaxAge
    <2>1. SUFFICES ASSUME from # Absent
                   PROVE  now - from <= PriceMaxAge + ReservesMaxAge
      OBVIOUS
    <2>2. /\ price.at # Absent /\ now - price.at < PriceMaxAge /\ from = price.from
      BY <2>1 DEF IsFresh
    <2>3. price.from # Absent /\ price.at - price.from <= ReservesMaxAge
      BY <2>2 DEF PoolInv, PriceKnows
    <2>4. price.at \in Nat /\ price.from \in Nat
      BY <2>2, <2>3, <1>2 DEF Times
    <2> HIDE DEF from
    <2> QED BY <2>2, <2>3, <2>4, <1>2, PriceAssumption
  <1> HIDE DEF row, from
  <1>7. PoolType'
    <2>1. child' \in Child /\ child'.wrote \in child'.first..child'.pos
      BY <1>1, ChildFields DEF Child
    <2>2. Child' = Child /\ Times' = Times
      BY DEF Child, Times
    <2>3. \A q \in Pools : metrics'[q].asOf \in Times /\ metrics'[q].from \in Times
      <3>1. \A q \in Pools : metrics[q].asOf \in Times /\ metrics[q].from \in Times
        BY DEF PoolInv, PoolType
      <3> QED BY <3>1, <1>3, <1>4, <1>5
    <2> QED BY <2>1, <2>2, <2>3, <1>3 DEF PoolInv, PoolType
  <1>8. ScriptKnows'
    <2>1. child'.pc = "done" /\ child'.pool = p
      BY <1>1, ChildFields DEF Child
    <2> QED BY <2>1, <1>1 DEF ScriptKnows
  <1>9. ValueIsRecent'
    <2>1. ValueIsRecent
      BY DEF PoolInv
    <2> QED BY <2>1, <1>3, <1>4, <1>6 DEF ValueIsRecent
  <1>10. Growing' /\ PriceKnows' /\ NothingLost'
    BY DEF PoolInv, Growing, PriceKnows, NothingLost, UpTo
  <1> QED BY <1>7, <1>8, <1>9, <1>10 DEF PoolInv

\* The prices step writes its rows.
LEMMA PricesWritten ==
  ASSUME PoolInv, dollar' \in {dollar, now}, UNCHANGED <<now, market, child, pooldb>>,
         price' \in Resolved(reserves, price, now) \union {price}
  PROVE  PoolInv'
  <1> USE DEF market, pooldb
  <1>1. now \in Nat /\ now \in Times /\ dollar' \in Times
    BY DEF PoolInv, PoolType, Times
  <1>2. CASE price' = price
    <2>1. PoolType'
      <3>1. Child' = Child /\ Times' = Times
        BY DEF Child, Times
      <3> QED BY <1>1, <1>2, <3>1 DEF PoolInv, PoolType
    <2> QED BY <1>2, <2>1 DEF PoolInv, Growing, ScriptKnows, Paged, Reached, StartLedger,
                              PriceKnows, NothingLost, UpTo, ValueIsRecent
  <1>3. CASE price' # price
    <2>1. PICK p \in Best(reserves, now) :
            price' = [price |-> reserves[p].level, at |-> now, from |-> reserves[p].at]
      BY <1>3 DEF Resolved
    <2>2. /\ reserves \in [Pools -> [level : Nat, at : Times]]
          /\ p \in Pools
      BY <2>1 DEF PoolInv, PoolType, Best
    <2>3. /\ reserves[p].at # Absent /\ now - reserves[p].at <= ReservesMaxAge
          /\ reserves[p].level \in Nat /\ reserves[p].at \in Times
      BY <2>1, <2>2 DEF Best, Qualifies
    <2>4. price' \in [price : Nat, at : Times, from : Times]
      BY <2>1, <2>3, <1>1
    <2>5. PriceKnows'
      <3>1. reserves[p].at <= now
        BY <2>3, <1>1 DEF Times
      <3> QED BY <3>1, <2>1, <2>3 DEF PriceKnows
    <2>6. PoolType'
      <3>1. Child' = Child /\ Times' = Times
        BY DEF Child, Times
      <3> QED BY <1>1, <2>4, <3>1 DEF PoolInv, PoolType
    <2>7. ScriptKnows'
      BY DEF PoolInv, ScriptKnows, Paged, Reached, StartLedger, UpTo
    <2>8. Growing' /\ NothingLost' /\ ValueIsRecent'
      BY DEF PoolInv, Growing, NothingLost, UpTo, ValueIsRecent
    <2> QED BY <2>5, <2>6, <2>7, <2>8 DEF PoolInv
  <1> QED BY <1>2, <1>3

\* A ledger closes.
LEMMA LedgerCloses ==
  ASSUME PoolInv, NEW news \in [Pools -> Nat], NEW to \in Nat, Close(news, to)
  PROVE  PoolInv'
  <1> USE DEF prices, pooldb
  <1>1. /\ now \in Nat /\ now' = now + 1 /\ level' = to
        /\ chain \in [Pools -> [0..now -> Nat]]
        /\ chain' = [p \in Pools |-> [l \in 0..now + 1 |->
                       IF l <= now THEN chain[p][l] ELSE chain[p][now] + news[p]]]
        /\ UNCHANGED <<child, prices, pooldb>>
    BY DEF Close, PoolInv, PoolType
  <1>2. ASSUME NEW p \in Pools
        PROVE  /\ \A l \in 0..now : chain'[p][l] = chain[p][l] /\ chain[p][l] \in Nat
               /\ chain'[p][now + 1] = chain[p][now] + news[p]
               /\ chain[p][now] \in Nat /\ news[p] \in Nat
    <2>1. chain'[p] = [l \in 0..now + 1 |->
                         IF l <= now THEN chain[p][l] ELSE chain[p][now] + news[p]]
      BY <1>1
    <2>2. chain[p] \in [0..now -> Nat]
      BY <1>1
    <2> QED BY <2>1, <2>2, <1>1
  <1>3. ASSUME NEW p \in Pools, NEW l \in Int, l <= now
        PROVE  UpTo(p, l)' = UpTo(p, l)
    BY <1>1, <1>2, <1>3 DEF UpTo
  <1>4. chain' \in [Pools -> [0..now + 1 -> Nat]]
    <2>1. \A p \in Pools : \A l \in 0..now + 1 :
            (IF l <= now THEN chain[p][l] ELSE chain[p][now] + news[p]) \in Nat
      BY <1>1, <1>2
    <2> QED BY <1>1, <2>1
  <1>5. Times \subseteq Times' /\ 0..now \subseteq 0..now' /\ -1..now \subseteq -1..now'
    BY <1>1 DEF Times
  <1>6. PoolType'
    <2>1. \A p \in Pools : stored[p] \subseteq 1..chain'[p][now']
      <3>1. SUFFICES ASSUME NEW p \in Pools
                     PROVE  stored[p] \subseteq 1..chain'[p][now']
        OBVIOUS
      <3>2. stored[p] \subseteq 1..chain[p][now]
        BY DEF PoolInv, PoolType
      <3>3. chain'[p][now'] = chain[p][now] + news[p] /\ chain[p][now] \in Nat
            /\ news[p] \in Nat
        BY <1>1, <1>2
      <3> QED BY <3>2, <3>3
    <2>2. child' \in Child' /\ child'.wrote \in child'.first..child'.pos
      <3>1. Child \subseteq Child'
        BY <1>5 DEF Child
      <3> QED BY <3>1, <1>1 DEF PoolInv, PoolType
    <2>3. whole' \in [Pools -> -1..now'] /\ hole' \in [Pools -> -1..now']
      BY <1>1, <1>5 DEF PoolInv, PoolType
    <2>4. reserves' \in [Pools -> [level : Nat, at : Times']]
      <3>1. [level : Nat, at : Times] \subseteq [level : Nat, at : Times']
        BY <1>5
      <3> QED BY <3>1, <1>1 DEF PoolInv, PoolType
    <2>5. dollar' \in Times' /\ price' \in [price : Nat, at : Times', from : Times']
      <3>1. [price : Nat, at : Times, from : Times]
              \subseteq [price : Nat, at : Times', from : Times']
        BY <1>5
      <3> QED BY <3>1, <1>1, <1>5 DEF PoolInv, PoolType
    <2>6. \A p \in Pools : metrics'[p].asOf \in Times' /\ metrics'[p].from \in Times'
      BY <1>1, <1>5 DEF PoolInv, PoolType
    <2>7. stored' \in [Pools -> SUBSET Nat] /\ DOMAIN metrics' = Pools /\ stored' = stored
      BY <1>1 DEF PoolInv, PoolType
    <2>8. now' \in Nat /\ level' \in Nat /\ chain' \in [Pools -> [0..now' -> Nat]]
      BY <1>1, <1>4
    <2> QED BY <2>1, <2>2, <2>3, <2>4, <2>5, <2>6, <2>7, <2>8 DEF PoolType
  <1>7. Growing'
    <2>1. SUFFICES ASSUME NEW p \in Pools, NEW l \in 0..now', NEW m \in 0..now', l <= m
                   PROVE  chain'[p][l] <= chain'[p][m]
      BY DEF Growing
    <2>2. \A k \in 0..now : chain[p][k] <= chain[p][now]
      BY <1>1 DEF PoolInv, Growing
    <2>3. CASE m <= now
      <3>1. l \in 0..now /\ m \in 0..now
        BY <2>1, <2>3, <1>1
      <3> QED BY <3>1, <1>2, <2>1 DEF PoolInv, Growing
    <2>4. CASE m > now /\ l <= now
      <3>1. l \in 0..now /\ m = now + 1
        BY <2>4, <1>1
      <3> QED BY <3>1, <1>2, <2>2
    <2>5. CASE l > now
      <3>1. l = m
        BY <2>1, <2>5, <1>1
      <3>2. m = now + 1
        BY <2>1, <2>5, <1>1
      <3> QED BY <3>1, <3>2, <1>2
    <2> QED BY <2>3, <2>4, <2>5, <1>1
  <1>8. ScriptKnows'
    <2>1. ASSUME child.pool \in Pools, Paged
          PROVE  Paged'
      <3>1. /\ StartLedger(child.head) - 1 \in Int /\ StartLedger(child.head) - 1 <= now
            /\ child.head \in Int /\ child.head <= now
        BY ChildFields, PoolAssumption DEF StartLedger
      <3>2. /\ UpTo(child.pool, StartLedger(child.head) - 1)'
                 = UpTo(child.pool, StartLedger(child.head) - 1)
            /\ UpTo(child.pool, child.head)' = UpTo(child.pool, child.head)
        <4> DEFINE l == StartLedger(child.head) - 1
        <4>1. l' = l /\ child' = child
          BY <1>1 DEF StartLedger
        <4>2. UpTo(child.pool, child.head)' = UpTo(child.pool, child.head)
          BY <3>1, <4>1, <1>1, <1>2, <2>1 DEF UpTo
        <4>3. UpTo(child.pool, l)' = UpTo(child.pool, l)
          BY <3>1, <4>1, <1>1, <1>2, <2>1 DEF UpTo
        <4> QED BY <4>2, <4>3
      <3>3. child.pos <= chain'[child.pool][now']
        <4>1. child.pos <= chain[child.pool][now]
          BY <2>1 DEF Paged
        <4>2. /\ chain'[child.pool][now'] = chain[child.pool][now] + news[child.pool]
              /\ chain[child.pool][now] \in Nat /\ news[child.pool] \in Nat
          BY <2>1, <1>1, <1>2
        <4> QED BY <4>1, <4>2, ChildFields
      <3> QED BY <3>2, <3>3, <2>1, <1>1 DEF Paged, Reached
    <2>2. ASSUME child.pool \in Pools
          PROVE  UpTo(child.pool, child.head)' = UpTo(child.pool, child.head)
      BY <2>2, <1>1, <1>2, ChildFields DEF UpTo
    <2> QED BY <2>1, <2>2, <1>1 DEF PoolInv, ScriptKnows
  <1>9. NothingLost'
    <2>1. SUFFICES ASSUME NEW p \in Pools
                   PROVE  (UpTo(p, hole[p]) + 1 .. UpTo(p, whole[p]))' \subseteq stored[p]
      BY <1>1 DEF NothingLost
    <2>2. hole[p] \in Int /\ hole[p] <= now /\ whole[p] \in Int /\ whole[p] <= now
      BY <1>1 DEF PoolInv, PoolType
    <2>3. UpTo(p, hole[p])' = UpTo(p, hole[p]) /\ UpTo(p, whole[p])' = UpTo(p, whole[p])
      BY <2>2, <1>1, <1>2 DEF UpTo
    <2> QED BY <2>3 DEF PoolInv, NothingLost
  <1>10. PriceKnows' /\ ValueIsRecent'
    BY <1>1 DEF PoolInv, PriceKnows, ValueIsRecent
  <1> QED BY <1>6, <1>7, <1>8, <1>9, <1>10 DEF PoolInv

-----------------------------------------------------------------------------
(* The steps of the job.                                                   *)

LEMMA RunFields ==
  ASSUME JobType
  PROVE  /\ run.stage \in 0..16 /\ run.at \in 0..now \union {NoTime}
         /\ run.found \in [Venues -> SUBSET Entities]
         /\ run.todo \in SUBSET (Entities \union {"one"})
         /\ run.attempt \in 0..Attempts /\ run.bad \in BOOLEAN /\ run.results \in Seq(Results)
         /\ run = [stage |-> run.stage, at |-> run.at, found |-> run.found,
                   todo |-> run.todo, attempt |-> run.attempt, bad |-> run.bad,
                   results |-> run.results]
         /\ InSteps <=> run.stage \in 1..15
  <1>1. run \in Run
    BY DEF JobType
  <1> QED BY <1>1, StageTable DEF Run, InSteps

LEMMA OutcomeType ==
  ASSUME InSteps, NEW ok \in BOOLEAN
  PROVE  Outcome(Now.name, ok) \in Results
  <1>1. Now.name \in {Stages[i].name : i \in DOMAIN Stages}
    BY DEF InSteps, Now
  <1>2. (IF ok THEN "SUCCESS" ELSE "FAILED") \in {"SUCCESS", "FAILED"}
    OBVIOUS
  <1> QED BY <1>1, <1>2 DEF Outcome, Results

LEMMA Appended ==
  ASSUME NEW S, NEW s \in Seq(S), NEW e \in S
  PROVE  Append(s, e) \in Seq(S)
  OBVIOUS

\* The job enters its next stage.
LEMMA StageEntered ==
  ASSUME JobInv, InSteps, NEW found \in [Venues -> SUBSET Entities],
         found["soroswap"] \subseteq Pools, found["aquarius"] \subseteq Pools,
         NEW results \in Seq(Results), Enter(run.stage + 1, found, results), now' = now
  PROVE  /\ run' \in Run' /\ run'.at = run.at /\ run'.stage = run.stage + 1 /\ Found'
         /\ run.stage \in 1..15
  <1> DEFINE todo == Items(run.stage + 1, found)
  <1>1. run.stage \in 1..15
    BY RunFields DEF JobInv
  <1>2. run' = [stage |-> run.stage + 1, at |-> run.at, found |-> found, todo |-> todo,
                attempt |-> 1, bad |-> FALSE, results |-> results]
    BY RunFields DEF Enter, JobInv
  <1>3. todo \subseteq Entities \union {"one"}
    BY StageTable DEF Items
  <1>4. (run.stage + 1 \in DOMAIN Stages /\ Stages[run.stage + 1].kind = "pools")
          => todo \subseteq Pools
    BY StageTable DEF Items
  <1> HIDE DEF todo
  <1>5. run' \in Run
    <2>1. 1 \in 0..Attempts /\ run.stage + 1 \in 0..Len(Stages) + 1
      BY <1>1, PipelineAssumption, StageTable
    <2>2. run.at \in 0..now \union {NoTime}
      BY RunFields DEF JobInv
    <2> QED BY <1>2, <1>3, <2>1, <2>2 DEF Run
  <1>6. Run' = Run
    BY DEF Run
  <1>7. Found'
    BY <1>2, <1>4 DEF Found, InSteps, Now
  <1> QED BY <1>1, <1>2, <1>5, <1>6, <1>7

\* An item of the stage ends.
LEMMA ItemEnds ==
  ASSUME JobInv, InSteps, NEW ok \in BOOLEAN, Ends(ok), now \in Nat, now' = now
  PROVE  /\ run' \in Run' /\ run'.at = run.at /\ run'.stage = run.stage /\ Found'
         /\ calm' \in 0..now /\ faults' \in Nat
  <1>1. calm' \in 0..now /\ faults' \in Nat
    <2>1. calm \in 0..now /\ faults \in Nat /\ now \in 0..now
      BY DEF JobInv, JobType
    <2>2. Well \/ Fault
      BY DEF Ends
    <2> QED BY <2>1, <2>2 DEF Well, Fault
  <1>2. \/ \E b \in BOOLEAN : run' = NextItem(b)
        \/ run.attempt < Attempts /\ run' = [run EXCEPT !.attempt = @ + 1]
    BY DEF Ends, AttemptFailed
  <1>3. /\ run' \in Run /\ run'.at = run.at /\ run'.stage = run.stage
        /\ run'.found = run.found /\ run'.todo \subseteq run.todo
    <2>1. /\ run \in Run /\ run.attempt \in Nat /\ Attempts \in Nat /\ 1 \in 0..Attempts
          /\ run.bad \in BOOLEAN
      BY RunFields, PipelineAssumption DEF JobInv, JobType
    <2>2. ASSUME NEW b \in BOOLEAN, run' = NextItem(b)
          PROVE  /\ run' \in Run /\ run'.at = run.at /\ run'.stage = run.stage
                 /\ run'.found = run.found /\ run'.todo \subseteq run.todo
      <3>1. (run.bad \/ b) \in BOOLEAN
        OBVIOUS
      <3>2. run' = [stage |-> run.stage, at |-> run.at, found |-> run.found,
                    todo |-> run.todo \ {Item}, attempt |-> 1, bad |-> (run.bad \/ b),
                    results |-> run.results]
        BY <2>2, RunFields DEF NextItem, JobInv
      <3>3. /\ run.stage \in 0..Len(Stages) + 1 /\ run.at \in 0..now \union {NoTime}
            /\ run.found \in [Venues -> SUBSET Entities] /\ run.results \in Seq(Results)
            /\ run.todo \ {Item} \in SUBSET (Entities \union {"one"})
        BY <2>1 DEF Run
      <3>4. run' \in Run
        BY <2>1, <3>1, <3>2, <3>3 DEF Run
      <3> QED BY <3>2, <3>4
    <2>3. ASSUME run.attempt < Attempts, run' = [run EXCEPT !.attempt = @ + 1]
          PROVE  /\ run' \in Run /\ run'.at = run.at /\ run'.stage = run.stage
                 /\ run'.found = run.found /\ run'.todo \subseteq run.todo
      BY <2>1, <2>3 DEF Run
    <2> QED BY <1>2, <2>2, <2>3
  <1>4. run' \in Run
    BY <1>3
  <1>5. Run' = Run
    BY DEF Run
  <1>6. Found'
    BY <1>3 DEF Found, InSteps, Now, JobInv
  <1> QED BY <1>1, <1>3, <1>4, <1>5, <1>6

\* Nothing but the run itself moved.
LEMMA JobGoesOn ==
  ASSUME JobInv, InSteps, now' = now, mix' = mix, ops' = ops,
         run' \in Run', run'.at = run.at, Found', calm' \in 0..now, faults' \in Nat
  PROVE  JobInv'
  <1>1. Running
    BY RunFields DEF Running, JobInv
  <1> QED BY <1>1 DEF JobInv, JobType

LEMMA JobEnds ==
  ASSUME JobInv, now \in Nat, now' = now, mix' = mix, run' = NoRun, Well \/ Fault,
         \A r \in ops' : r \in ops \/ r.at \in 0..now
  PROVE  JobInv'
  <1>1. calm' \in 0..now /\ faults' \in Nat
    BY DEF JobInv, JobType, Well, Fault
  <1>2. NoRun \in Run
    <2>1. /\ 0 \in 0..Len(Stages) + 1 /\ 0 \in 0..Attempts /\ <<>> \in Seq(Results)
          /\ [v \in Venues |-> {}] \in [Venues -> SUBSET Entities]
      BY PipelineAssumption, StageTable
    <2> QED BY <2>1 DEF NoRun, Run
  <1>3. Run' = Run
    BY DEF Run
  <1>4. ~Running' /\ Found'
    BY StageTable DEF NoRun, Running, Found, InSteps, Venues
  <1>5. \A r \in ops' : r.at \in 0..now
    BY DEF JobInv, JobType
  <1> QED BY <1>1, <1>2, <1>3, <1>4, <1>5 DEF JobInv, JobType

LEMMA ScriptPlace ==
  ASSUME IInv
  PROVE  /\ child.pc # "idle" => InSteps /\ Now.kind = "pools" /\ child.pool = Item
         /\ (InSteps => Now.kind # "pools" \/ run.todo = {}) => child = Idle
  BY DEF IInv, OneScript, Working, Idle

LEMMA InitIInv == Init => IInv
  <1> SUFFICES ASSUME Init PROVE IInv
    OBVIOUS
  <1>1. /\ mix \in Mixes /\ level \in mix.levels /\ run = NoRun /\ ops = {} /\ calm = 0
        /\ faults = 0 /\ now = 0 /\ child = Idle /\ dollar = Absent
        /\ chain = [p \in Pools |-> [l \in {0} |-> 0]]
        /\ price = [price |-> 0, at |-> Absent, from |-> Absent]
        /\ stored = [p \in Pools |-> {}]
        /\ reserves = [p \in Pools |-> [level |-> 0, at |-> Absent]]
        /\ metrics = [p \in Pools |-> NoMetrics]
        /\ whole = [p \in Pools |-> -1] /\ hole = [p \in Pools |-> -1]
    BY DEF Init, PoolInit
  <1>2. level \in Nat
    BY <1>1, PipelineAssumption
  <1>3. PoolType
    <2>1. child \in Child /\ child.wrote \in child.first..child.pos
      BY <1>1, PoolAssumption DEF Idle, Child
    <2>2. chain \in [Pools -> [0..now -> Nat]]
      BY <1>1
    <2>3. whole \in [Pools -> -1..now] /\ hole \in [Pools -> -1..now]
      BY <1>1
    <2>4. /\ dollar \in Times /\ price \in [price : Nat, at : Times, from : Times]
          /\ reserves \in [Pools -> [level : Nat, at : Times]]
      BY <1>1 DEF Times
    <2>5. /\ DOMAIN metrics = Pools
          /\ \A p \in Pools : metrics[p].asOf \in Times /\ metrics[p].from \in Times
      BY <1>1 DEF NoMetrics, Times
    <2>6. stored \in [Pools -> SUBSET Nat] /\ \A p \in Pools : stored[p] \subseteq 1..chain[p][now]
      BY <1>1
    <2> QED BY <1>1, <1>2, <2>1, <2>2, <2>3, <2>4, <2>5, <2>6 DEF PoolType
  <1>4. Growing
    BY <1>1 DEF Growing
  <1>5. ScriptKnows /\ PriceKnows
    BY <1>1 DEF ScriptKnows, Idle, PriceKnows
  <1>6. NothingLost
    BY <1>1 DEF NothingLost, UpTo
  <1>7. ValueIsRecent
    BY <1>1 DEF ValueIsRecent, NoMetrics
  <1>8. JobType /\ Found
    <2>1. NoRun \in Run
      <3>1. /\ 0 \in 0..Len(Stages) + 1 /\ 0 \in 0..Attempts /\ <<>> \in Seq(Results)
            /\ [v \in Venues |-> {}] \in [Venues -> SUBSET Entities]
        BY PipelineAssumption, StageTable
      <3> QED BY <3>1 DEF NoRun, Run
    <2>2. ~Running /\ Found
      BY <1>1, StageTable DEF NoRun, Running, Found, InSteps, Venues
    <2> QED BY <1>1, <2>1, <2>2 DEF JobType
  <1>9. OneScript
    BY <1>1 DEF OneScript
  <1> QED BY <1>3, <1>4, <1>5, <1>6, <1>7, <1>8, <1>9 DEF IInv, PoolInv, JobInv

LEMMA NextStart ==
  ASSUME IInv, Start
  PROVE  IInv'
  <1>1. /\ UNCHANGED poolVars /\ UNCHANGED <<mix, ops, calm, faults>>
        /\ ~Running /\ run' = [NoRun EXCEPT !.stage = 1, !.at = now]
    BY DEF Start
  <1>2. now \in Nat /\ now' = now
    BY <1>1 DEF IInv, PoolInv, PoolType, poolVars
  <1>3. run' = [stage |-> 1, at |-> now, found |-> [v \in Venues |-> {}], todo |-> {},
                attempt |-> 0, bad |-> FALSE, results |-> <<>>]
    BY <1>1 DEF NoRun
  <1>4. run' \in Run
    <2>1. /\ 1 \in 0..Len(Stages) + 1 /\ 0 \in 0..Attempts /\ <<>> \in Seq(Results)
          /\ [v \in Venues |-> {}] \in [Venues -> SUBSET Entities] /\ now \in 0..now
      BY <1>2, PipelineAssumption, StageTable
    <2> QED BY <1>3, <2>1 DEF Run
  <1>5. Run' = Run
    BY <1>2 DEF Run
  <1>6. Found'
    BY <1>3, StageTable DEF Found, Venues
  <1>7. JobInv'
    BY <1>1, <1>2, <1>3, <1>4, <1>5, <1>6 DEF IInv, JobInv, JobType
  <1>8. child = Idle /\ child' = Idle
    <2>1. ~InSteps
      BY <1>1, RunFields DEF Running, IInv, JobInv
    <2> QED BY <2>1, <1>1, ScriptPlace DEF poolVars
  <1> QED BY <1>1, <1>7, <1>8, PoolRests DEF IInv, OneScript

LEMMA NextDiscover ==
  ASSUME IInv, Discover
  PROVE  IInv'
  <1>1. /\ UNCHANGED poolVars /\ UNCHANGED <<mix, ops>> /\ now' = now
        /\ InSteps /\ Now.kind = "discover" /\ Now.venue \in Venues
    <2>1. run.stage \in 1..15 /\ Stages[run.stage].kind = "discover" => Stages[run.stage].venue \in Venues
      BY StageTable
    <2> QED BY <2>1, StageTable DEF Discover, poolVars, InSteps, Now
  <1>2. run.found \in [Venues -> SUBSET Entities] /\ run.results \in Seq(Results)
    BY RunFields DEF IInv, JobInv
  <1>3. run.found["soroswap"] \subseteq Pools /\ run.found["aquarius"] \subseteq Pools
    BY DEF IInv, JobInv, Found
  <1>4. /\ calm' \in 0..now /\ faults' \in Nat
    <2>1. calm \in 0..now /\ faults \in Nat /\ now \in 0..now
      BY DEF IInv, JobInv, JobType, PoolInv, PoolType
    <2>2. Well \/ Fault
      BY DEF Discover
    <2> QED BY <2>1, <2>2 DEF Well, Fault
  <1>5. PICK found, results :
          /\ Enter(run.stage + 1, found, results)
          /\ found \in [Venues -> SUBSET Entities] /\ results \in Seq(Results)
          /\ found["soroswap"] \subseteq Pools /\ found["aquarius"] \subseteq Pools
    <2>1. CASE Enter(run.stage + 1, [run.found EXCEPT ![Now.venue] = mix.pools[Now.venue]],
                     run.results)
      <3> DEFINE found == [run.found EXCEPT ![Now.venue] = mix.pools[Now.venue]]
      <3>1. /\ mix.pools \in [Venues -> SUBSET Entities]
            /\ mix.pools["soroswap"] \subseteq Pools /\ mix.pools["aquarius"] \subseteq Pools
        BY PipelineAssumption DEF IInv, JobInv, JobType
      <3>2. found \in [Venues -> SUBSET Entities]
        BY <1>1, <1>2, <3>1
      <3>3. found["soroswap"] \subseteq Pools /\ found["aquarius"] \subseteq Pools
        BY <1>1, <1>2, <1>3, <3>1 DEF Venues
      <3> QED BY <2>1, <3>2, <3>3, <1>2
    <2>2. CASE Enter(run.stage + 1, run.found, Append(run.results, Outcome(Now.name, FALSE)))
      <3>1. Append(run.results, Outcome(Now.name, FALSE)) \in Seq(Results)
        <4>1. Outcome(Now.name, FALSE) \in Results
          BY <1>1, OutcomeType
        <4> QED BY <4>1, <1>2, Appended
      <3> QED BY <2>2, <3>1, <1>2, <1>3
    <2> QED BY <2>1, <2>2 DEF Discover
  <1>6. JobInv'
    BY <1>1, <1>4, <1>5, StageEntered, JobGoesOn DEF IInv
  <1>7. child' = Idle
    BY <1>1, ScriptPlace DEF poolVars
  <1> QED BY <1>1, <1>6, <1>7, PoolRests DEF IInv, OneScript

LEMMA NextStepOver ==
  ASSUME IInv, StepOver
  PROVE  IInv'
  <1>1. /\ UNCHANGED poolVars /\ UNCHANGED <<mix, ops, calm, faults>> /\ now' = now
        /\ InSteps /\ run.todo = {}
        /\ Enter(run.stage + 1, run.found, Append(run.results, Outcome(Now.name, ~run.bad)))
    BY DEF StepOver, poolVars
  <1>2. /\ run.found \in [Venues -> SUBSET Entities] /\ run.results \in Seq(Results)
        /\ (~run.bad) \in BOOLEAN
    BY RunFields DEF IInv, JobInv
  <1>3. run.found["soroswap"] \subseteq Pools /\ run.found["aquarius"] \subseteq Pools
    BY DEF IInv, JobInv, Found
  <1>4. calm' \in 0..now /\ faults' \in Nat
    BY <1>1 DEF IInv, JobInv, JobType
  <1>5. Append(run.results, Outcome(Now.name, ~run.bad)) \in Seq(Results)
    <2>1. Outcome(Now.name, ~run.bad) \in Results
      BY <1>1, <1>2, OutcomeType
    <2> QED BY <2>1, <1>2, Appended
  <1>6. JobInv'
    BY <1>1, <1>2, <1>3, <1>4, <1>5, StageEntered, JobGoesOn DEF IInv
  <1>7. child' = Idle
    BY <1>1, ScriptPlace DEF poolVars
  <1> QED BY <1>1, <1>6, <1>7, PoolRests DEF IInv, OneScript

\* The steps on which one item of a stage without pool scripts ends.
LEMMA NextOther ==
  ASSUME IInv, OtherScript \/ Rollup
  PROVE  IInv'
  <1>1. PICK ok \in BOOLEAN : Ends(ok)
    BY DEF OtherScript, Rollup
  <1>2. /\ UNCHANGED poolVars /\ UNCHANGED <<mix, ops>> /\ now' = now
        /\ InSteps /\ Now.kind # "pools"
    BY DEF OtherScript, Rollup, Working, poolVars
  <1>3. JobInv'
    BY <1>1, <1>2, ItemEnds, JobGoesOn DEF IInv, PoolInv, PoolType
  <1>4. child' = Idle
    BY <1>2, ScriptPlace DEF poolVars
  <1> QED BY <1>2, <1>3, <1>4, PoolRests DEF IInv, OneScript

LEMMA NextPrices ==
  ASSUME IInv, ReferencePrices
  PROVE  IInv'
  <1>1. PICK ok \in BOOLEAN : Ends(ok)
    BY DEF ReferencePrices
  <1>2. /\ UNCHANGED <<now, market, child, pooldb>> /\ UNCHANGED <<mix, ops>> /\ now' = now
        /\ InSteps /\ Now.kind # "pools"
    BY DEF ReferencePrices, Working
  <1>3. dollar' \in {dollar, now} /\ price' \in Resolved(reserves, price, now) \union {price}
    BY DEF ReferencePrices
  <1>4. PoolInv'
    BY <1>2, <1>3, PricesWritten DEF IInv
  <1>5. JobInv'
    BY <1>1, <1>2, ItemEnds, JobGoesOn DEF IInv, PoolInv, PoolType
  <1>6. child' = Idle
    BY <1>2, ScriptPlace
  <1> QED BY <1>4, <1>5, <1>6 DEF IInv, OneScript

LEMMA NextStartPool ==
  ASSUME IInv, StartPool
  PROVE  IInv'
  <1>1. /\ Working("pools") /\ Launch(Item) /\ Well
        /\ UNCHANGED <<now, market, prices, pooldb>> /\ UNCHANGED <<mix, run, ops>>
        /\ now' = now
    BY DEF StartPool, jobVars
  <1>2. Item \in Pools
    <2>1. run.todo # {} /\ run.todo \subseteq Pools
      BY <1>1 DEF Working, IInv, JobInv, Found
    <2> QED BY <2>1 DEF Item
  <1>3. PoolInv'
    BY <1>1, <1>2, PoolStarts DEF IInv
  <1>4. JobInv'
    BY <1>1 DEF Well, IInv, JobInv, JobType, Found, InSteps, Now, Running, Run
  <1>5. Working("pools")' /\ Item' = Item
    BY <1>1 DEF Working, InSteps, Now, Item
  <1>6. child'.pool = Item
    BY <1>1 DEF Launch, Idle
  <1> QED BY <1>3, <1>4, <1>5, <1>6 DEF IInv, OneScript

LEMMA NextPoolStep ==
  ASSUME IInv, PoolStep
  PROVE  IInv'
  <1>1. Script /\ Well /\ UNCHANGED <<mix, run, ops>>
    BY DEF PoolStep, jobVars
  <1>2. PoolInv'
    BY <1>1, PoolReads, PoolPages, PoolStoresEvent, PoolEventsStored, PoolStoresReserves,
       PoolStoresMetrics DEF Script, IInv
  <1>3. /\ now' = now /\ child.pc # "idle" /\ child'.pool = child.pool
    <2>1. child \in Child
      BY ChildFields DEF IInv
    <2>2. now' = now /\ child.pc # "idle"
      BY <1>1 DEF Script, ReadState, ReadLedger, ReadPage, StoreEvent, EventsStored,
                  StoreReserves, StoreMetrics
    <2>3. child'.pool = child.pool
      BY <1>1, <2>1 DEF Script, ReadState, ReadLedger, ReadPage, StoreEvent, EventsStored,
                        StoreReserves, StoreMetrics, Child
    <2> QED BY <2>2, <2>3
  <1>4. JobInv'
    BY <1>1, <1>3 DEF Well, IInv, JobInv, JobType, Found, InSteps, Now, Running, Run
  <1>5. Working("pools")' = Working("pools") /\ Item' = Item
    BY <1>1 DEF Working, InSteps, Now, Item
  <1>6. Working("pools") /\ child.pool = Item
    BY <1>3 DEF IInv, OneScript, Idle
  <1> QED BY <1>2, <1>3, <1>4, <1>5, <1>6 DEF IInv, OneScript

\* The script ends or is given up.
LEMMA NextPoolEnds ==
  ASSUME IInv, PoolDone \/ PoolFails
  PROVE  IInv'
  <1>1. PICK ok \in BOOLEAN : Ends(ok)
    BY DEF PoolDone, PoolFails
  <1>2. /\ UNCHANGED <<now, market, prices, pooldb>> /\ UNCHANGED <<mix, ops>> /\ now' = now
        /\ child.pc # "idle" /\ child' = Idle
    BY DEF PoolDone, PoolFails
  <1>3. InSteps
    BY <1>2, ScriptPlace
  <1>4. JobInv'
    BY <1>1, <1>2, <1>3, ItemEnds, JobGoesOn DEF IInv, PoolInv, PoolType
  <1>5. PoolInv'
    BY <1>2, PoolStops DEF IInv
  <1> QED BY <1>2, <1>4, <1>5 DEF IInv, OneScript

LEMMA NextPersist ==
  ASSUME IInv, Persist
  PROVE  IInv'
  <1>1. /\ UNCHANGED poolVars /\ mix' = mix /\ now' = now /\ run' = NoRun
        /\ run.stage = 16 /\ (Well \/ Fault)
    BY StageTable DEF Persist, poolVars
  <1>2. PICK row : row.at = run.at /\ ops' \in {ops \union {row}, ops}
    <2>1. PICK k : ops' = ops \/ ops' = ops \union {[at |-> run.at,
                     steps |-> SubSeq(run.results, 1, k), whole |-> k = Len(run.results),
                     code |-> IF Failures = {} THEN 0 ELSE 1]}
      BY DEF Persist
    <2> DEFINE r == [at |-> run.at, steps |-> SubSeq(run.results, 1, k),
                     whole |-> k = Len(run.results),
                     code |-> IF Failures = {} THEN 0 ELSE 1]
    <2>2. r.at = run.at /\ ops' \in {ops \union {r}, ops}
      BY <2>1
    <2> QED BY <2>2
  <1>3. run.at \in 0..now
    BY <1>1 DEF IInv, JobInv, JobType, Running
  <1>4. JobInv'
    BY <1>1, <1>2, <1>3, JobEnds DEF IInv, PoolInv, PoolType
  <1>5. child' = Idle
    <2>1. ~InSteps
      BY <1>1, RunFields DEF IInv, JobInv
    <2> QED BY <2>1, <1>1, ScriptPlace DEF poolVars
  <1> QED BY <1>1, <1>4, <1>5, PoolRests DEF IInv, OneScript

LEMMA NextKill ==
  ASSUME IInv, Kill
  PROVE  IInv'
  <1>1. /\ UNCHANGED <<now, market, prices, pooldb>> /\ UNCHANGED <<mix, ops>> /\ now' = now
        /\ child' = Idle /\ run' = NoRun /\ Fault
    BY DEF Kill
  <1>2. PoolInv'
    BY <1>1, PoolStops DEF IInv
  <1>3. JobInv'
    BY <1>1, JobEnds DEF IInv, PoolInv, PoolType
  <1> QED BY <1>1, <1>2, <1>3 DEF IInv, OneScript

LEMMA NextTick ==
  ASSUME IInv, Tick
  PROVE  IInv'
  <1>1. PICK to \in mix.levels, news \in [Pools -> 0..mix.news] :
          Close(news, to) /\ calm' \in {now + 1, calm}
    BY DEF Tick
  <1>2. UNCHANGED <<mix, run, ops, faults>>
    BY DEF Tick, jobVars
  <1>3. to \in Nat /\ news \in [Pools -> Nat]
    BY PipelineAssumption DEF IInv, JobInv, JobType
  <1>4. PoolInv'
    BY <1>1, <1>3, LedgerCloses DEF IInv
  <1>5. now \in Nat /\ now' = now + 1 /\ child' = child
    BY <1>1 DEF Close, IInv, PoolInv, PoolType
  <1>6. JobInv'
    <2>1. Run \subseteq Run'
      <3>1. 0..now \union {NoTime} \subseteq 0..now' \union {NoTime}
        BY <1>5
      <3> QED BY <3>1 DEF Run
    <2>2. calm' \in 0..now' /\ faults' \in Nat
      BY <1>1, <1>2, <1>5 DEF IInv, JobInv, JobType
    <2>3. run' \in Run' /\ mix' \in Mixes
      BY <1>2, <2>1 DEF IInv, JobInv, JobType
    <2>4. (Running' => run'.at \in 0..now') /\ \A r \in ops' : r.at \in 0..now'
      BY <1>2, <1>5 DEF IInv, JobInv, JobType, Running
    <2>5. Found'
      BY <1>2 DEF IInv, JobInv, Found, InSteps, Now
    <2> QED BY <2>2, <2>3, <2>4, <2>5 DEF JobInv, JobType
  <1>7. OneScript'
    BY <1>2, <1>5 DEF IInv, OneScript, Working, InSteps, Now, Item, Idle
  <1> QED BY <1>4, <1>6, <1>7 DEF IInv

LEMMA NextIInv == IInv /\ [Next]_vars => IInv'
  <1> SUFFICES ASSUME IInv, [Next]_vars PROVE IInv'
    OBVIOUS
  <1>1. CASE UNCHANGED vars
    <2>1. UNCHANGED poolVars /\ UNCHANGED <<mix, run, ops, calm, faults>>
      BY <1>1 DEF vars
    <2>2. now' = now /\ child' = child
      BY <2>1 DEF poolVars
    <2>3. PoolInv'
      BY <2>1, PoolRests DEF IInv
    <2>4. JobInv' /\ OneScript'
      BY <2>1, <2>2 DEF IInv, JobInv, JobType, Found, InSteps, Now, Running, Run, OneScript,
                        Working, Item, Idle
    <2> QED BY <2>3, <2>4 DEF IInv
  <1>2. CASE Next
    BY <1>2, NextStart, NextDiscover, NextOther, NextPrices, NextStartPool, NextPoolStep,
       NextPoolEnds, NextStepOver, NextPersist, NextKill, NextTick DEF Next
  <1> QED BY <1>1, <1>2

LEMMA SpecIInv == Spec => []IInv
  BY InitIInv, NextIInv, PTL DEF Spec

-----------------------------------------------------------------------------
(* The theorems.                                                           *)

\* Every variable of the refresh job stays in its type; in particular one script runs at
\* a time, for the pool the run is at (71-refresh-all-metrics.ts, trackEach), and an event
\* is stored only once it exists.
THEOREM RefreshTypeCorrect == Spec => []TypeOK
  <1>1. IInv => TypeOK
    BY DEF IInv, PoolInv, PoolType, JobInv, JobType, OneScript, TypeOK
  <1> QED BY <1>1, SpecIInv, PTL

\* No event is lost by the paging loop of fetch-pair-events.ts: what the refreshes that met
\* no cap had to find is stored, whatever was retried, killed or late, for every lookback,
\* page size and page cap.
THEOREM NoEventLost == Spec => []NothingLost
  <1>1. IInv => NothingLost
    BY DEF IInv, PoolInv
  <1> QED BY <1>1, SpecIInv, PTL

\* No published TVL rests on reserves older than the two age limits together (prices.ts:
\* 14-20, xlm-price.ts:124), for every limit, however prices and reserves feed each other.
THEOREM ValuesAreRecent == Spec => []ValueIsRecent
  <1>1. IInv => ValueIsRecent
    BY DEF IInv, PoolInv
  <1> QED BY <1>1, SpecIInv, PTL

-----------------------------------------------------------------------------
(* The volume.  A metrics row remembers how far the events were whole when *)
(* it was written, and the past of the chain never changes.                *)

MetricsKnow ==
  \A p \in Pools : metrics[p].asOf # Absent =>
    /\ metrics[p].asOf \in 0..now
    /\ metrics[p].whole \in -1..now /\ metrics[p].hole \in -1..now
VolumeInv == MetricsKnow /\ VolumeIsTheDay

LEMMA VolumeInit == Init => VolumeInv
  BY DEF Init, PoolInit, NoMetrics, VolumeInv, MetricsKnow, VolumeIsTheDay

LEMMA VolumeRests ==
  ASSUME VolumeInv, UNCHANGED <<now, chain, metrics>>
  PROVE  VolumeInv'
  BY DEF VolumeInv, MetricsKnow, VolumeIsTheDay, UpTo

LEMMA VolumeCloses ==
  ASSUME PoolInv, VolumeInv, NEW news \in [Pools -> Nat], NEW to \in Nat, Close(news, to)
  PROVE  VolumeInv'
  <1>1. /\ now \in Nat /\ now' = now + 1 /\ metrics' = metrics /\ Day \in Nat
        /\ chain' = [p \in Pools |-> [l \in 0..now + 1 |->
                       IF l <= now THEN chain[p][l] ELSE chain[p][now] + news[p]]]
    BY PoolAssumption DEF Close, PoolInv, PoolType, pooldb
  <1>2. ASSUME NEW p \in Pools, NEW l \in Int, l <= now PROVE UpTo(p, l)' = UpTo(p, l)
    BY <1>1, <1>2 DEF UpTo
  <1>3. MetricsKnow'
    BY <1>1 DEF VolumeInv, MetricsKnow
  <1>4. ASSUME NEW p \in Pools, metrics[p].asOf # Absent
        PROVE  /\ UpTo(p, metrics[p].asOf)' = UpTo(p, metrics[p].asOf)
               /\ UpTo(p, metrics[p].whole)' = UpTo(p, metrics[p].whole)
               /\ UpTo(p, metrics[p].asOf - Day - 1)' = UpTo(p, metrics[p].asOf - Day - 1)
    <2>1. PICK a, w : a = metrics[p].asOf /\ w = metrics[p].whole
      OBVIOUS
    <2>2. a \in Int /\ w \in Int /\ a <= now /\ w <= now /\ a - Day - 1 \in Int /\ a - Day - 1 <= now
      BY <1>1, <1>4, <2>1 DEF VolumeInv, MetricsKnow
    <2>3. UpTo(p, a)' = UpTo(p, a) /\ UpTo(p, w)' = UpTo(p, w)
          /\ UpTo(p, a - Day - 1)' = UpTo(p, a - Day - 1)
      BY <1>2, <2>2
    <2> QED BY <1>1, <2>1, <2>3
  <1>5. VolumeIsTheDay'
    BY <1>1, <1>4 DEF VolumeInv, VolumeIsTheDay
  <1> QED BY <1>3, <1>5 DEF VolumeInv

LEMMA IntervalSize ==
  ASSUME NEW a \in Nat, NEW b \in Nat, a <= b
  PROVE  IsFiniteSet(a + 1 .. b) /\ Cardinality(a + 1 .. b) = b - a
  <1>1. a + 1 \in Int /\ b \in Int
    OBVIOUS
  <1>2. /\ IsFiniteSet(a + 1 .. b)
        /\ Cardinality(a + 1 .. b) = IF a + 1 > b THEN 0 ELSE b - (a + 1) + 1
    BY <1>1, FS_Interval
  <1> QED BY <1>2

\* The rows of the sum lie between the events that must be stored and those that exist.
LEMMA DayCounted ==
  ASSUME PoolInv, NEW p \in Pools, hole[p] < now - Day
  PROVE  /\ UpTo(p, whole[p]) - UpTo(p, now - Day - 1) <= Swaps(p)
         /\ Swaps(p) <= UpTo(p, now) - UpTo(p, now - Day - 1)
  <1> DEFINE old == UpTo(p, now - Day - 1)
             all == UpTo(p, now)
             in  == UpTo(p, whole[p])
             S   == {i \in stored[p] : i > old}
  <1>1. /\ now \in Nat /\ Day \in Nat /\ hole[p] \in -1..now /\ whole[p] \in -1..now
        /\ stored[p] \subseteq 1..chain[p][now]
    BY PoolAssumption DEF PoolInv, PoolType
  <1>2. old \in Nat /\ all \in Nat /\ in \in Nat /\ UpTo(p, hole[p]) \in Nat
    BY <1>1, UpToType DEF PoolInv
  <1>3. old <= all /\ UpTo(p, hole[p]) <= old
    BY <1>1, UpToGrows DEF PoolInv
  <1>4. all = chain[p][now]
    BY <1>1 DEF UpTo
  <1>5. UpTo(p, hole[p]) + 1 .. in \subseteq stored[p]
    BY DEF PoolInv, NothingLost
  <1>6. Swaps(p) = Cardinality(S)
    BY DEF Swaps
  <1> HIDE DEF old, all, in
  <1>7. (old + 1 .. in) \subseteq S /\ S \subseteq (old + 1 .. all)
    BY <1>1, <1>2, <1>3, <1>4, <1>5
  <1>8. /\ IsFiniteSet(old + 1 .. all)
        /\ Cardinality(old + 1 .. all) = all - old
    BY <1>2, <1>3, IntervalSize
  <1>9. IsFiniteSet(S) /\ Cardinality(S) <= all - old
    <2>1. S \in SUBSET (old + 1 .. all)
      BY <1>7
    <2> HIDE DEF S
    <2> QED BY <1>8, <2>1, FS_Subset
  <1>10. Cardinality(S) \in Nat
    BY <1>9, FS_CardinalityType
  <1>11. in - old <= Cardinality(S)
    <2>1. CASE in <= old
      BY <1>2, <1>10, <2>1
    <2>2. CASE old < in
      <3>1. Cardinality(old + 1 .. in) = in - old
        BY <1>2, <2>2, IntervalSize
      <3>2. (old + 1 .. in) \in SUBSET S
        BY <1>7
      <3> HIDE DEF S
      <3>3. IsFiniteSet(S)
        BY <1>9
      <3>4. Cardinality(old + 1 .. in) <= Cardinality(S)
        BY ONLY <3>2, <3>3, FS_Subset
      <3> QED BY <3>1, <3>4
    <2> QED BY <1>2, <2>1, <2>2
  <1> HIDE DEF S
  <1> QED BY <1>6, <1>9, <1>11 DEF old, all, in

LEMMA VolumeStored ==
  ASSUME PoolInv, VolumeInv, StoreMetrics, UNCHANGED <<now, market, prices, events, reserves>>
  PROVE  VolumeInv'
  <1> DEFINE p == child.pool
  <1>1. /\ p \in Pools /\ DOMAIN metrics = Pools /\ now \in Nat /\ Day \in Nat
        /\ whole[p] \in -1..now /\ hole[p] \in -1..now
    BY ChildFields, PoolAssumption DEF StoreMetrics, PoolInv, PoolType
  <1>2. PICK row : row = [asOf |-> now, tvl |-> Tvl(reserves[p]),
           from |-> IF IsFresh(price.at, now) THEN price.from ELSE Absent,
           swaps |-> Swaps(p), whole |-> whole[p], hole |-> hole[p]]
    OBVIOUS
  <1>3. /\ row.asOf = now /\ row.swaps = Swaps(p) /\ row.whole = whole[p]
        /\ row.hole = hole[p]
    BY <1>2
  <1>4. /\ metrics'[p] = row
        /\ \A q \in Pools : q # p => metrics'[q] = metrics[q]
    <2>1. metrics' = [metrics EXCEPT ![p] = row]
      BY <1>2 DEF StoreMetrics
    <2> QED BY <1>1, <2>1
  <1>5. now' = now /\ \A q, l : UpTo(q, l)' = UpTo(q, l)
    BY DEF market, UpTo
  <1>6. MetricsKnow'
    BY <1>1, <1>3, <1>4, <1>5 DEF VolumeInv, MetricsKnow
  <1>7. hole[p] < now - Day =>
          /\ UpTo(p, whole[p]) - UpTo(p, now - Day - 1) <= Swaps(p)
          /\ Swaps(p) <= UpTo(p, now) - UpTo(p, now - Day - 1)
    BY <1>1, DayCounted
  <1>8. VolumeIsTheDay'
    <2>1. SUFFICES ASSUME NEW q \in Pools, metrics'[q].asOf # Absent,
                          metrics'[q].hole < metrics'[q].asOf - Day
          PROVE /\ UpTo(q, metrics'[q].whole) - UpTo(q, metrics'[q].asOf - Day - 1)
                     <= metrics'[q].swaps
                /\ metrics'[q].swaps <= UpTo(q, metrics'[q].asOf) - UpTo(q, metrics'[q].asOf - Day - 1)
      BY <1>5 DEF VolumeIsTheDay, UpTo
    <2>2. CASE q = p
      BY <1>3, <1>4, <1>7, <2>1, <2>2
    <2>3. CASE q # p
      BY <1>4, <2>1, <2>3 DEF VolumeInv, VolumeIsTheDay
    <2> QED BY <2>2, <2>3
  <1> QED BY <1>6, <1>8 DEF VolumeInv

LEMMA VolumeNext ==
  ASSUME IInv, VolumeInv, [Next]_vars
  PROVE  VolumeInv'
  <1>1. CASE UNCHANGED <<now, chain, metrics>>
    BY <1>1, VolumeRests
  <1>2. CASE Tick
    <2>1. PICK to \in mix.levels, news \in [Pools -> 0..mix.news] : Close(news, to)
      BY <1>2 DEF Tick
    <2>2. to \in Nat /\ news \in [Pools -> Nat]
      BY PipelineAssumption DEF IInv, JobInv, JobType
    <2> QED BY <2>1, <2>2, VolumeCloses DEF IInv
  <1>3. CASE PoolStep
    BY <1>1, <1>3, VolumeStored DEF PoolStep, Script, market, pooldb, IInv
  <1>4. CASE Next /\ ~Tick /\ ~PoolStep
    <2>1. UNCHANGED <<now, chain, metrics>>
      BY <1>4 DEF Next, Start, Discover, OtherScript, ReferencePrices, StartPool, PoolDone,
                  PoolFails, Rollup, StepOver, Persist, Kill, poolVars, market, pooldb
    <2> QED BY <2>1, <1>1
  <1>5. CASE UNCHANGED vars
    BY <1>1, <1>5 DEF vars, poolVars
  <1> QED BY <1>2, <1>3, <1>4, <1>5

\* The published 24 h volume is the volume of the day (persist-pair-metrics.ts), for every
\* day, lookback, page size and page cap: once the missed ledgers are a day old, it counts
\* every swap up to the refresh's head, none twice and none of the day before.
THEOREM VolumeOfTheDay == Spec => []VolumeIsTheDay
  <1>1. Init => VolumeInv
    BY VolumeInit
  <1>2. IInv /\ VolumeInv /\ [Next]_vars => VolumeInv'
    BY VolumeNext
  <1>3. VolumeInv => VolumeIsTheDay
    BY DEF VolumeInv
  <1> QED BY <1>1, <1>2, <1>3, SpecIInv, PTL DEF Spec

-----------------------------------------------------------------------------
(* The banner.  What the latest run reports must be done, so the invariant *)
(* says it of every row and of the run that will write the next one: of    *)
(* each outcome so far, of the step it is at, and of the script it waits   *)
(* for.                                                                    *)

Success(name) == Outcome(name, TRUE)
Failure(name) == Outcome(name, FALSE)

\* Each run has a begin of its own, the last one the latest, and a row to show for it.
RunsApart ==
  /\ lastRun \in 0..now \union {NoTime}
  /\ \A r \in ops : lastRun # NoTime /\ r.at <= lastRun
  /\ Running => run.at = lastRun /\ \A r \in ops : r.at # run.at
  /\ ops # {} => \E r \in ops : \A other \in ops : other.at <= r.at

RowsHonest ==
  \A r \in ops :
    /\ \A stage \in Modelled : Reported(r, stage.name, "SUCCESS") => Done(r, stage)
    /\ r.whole => (FailedSteps(r) = {}) = (r.code = 0)
    /\ r.whole /\ FailedSteps(r) = {} /\ lastRun = r.at => totals.tvl = Total

\* A venue's discovery was reported as failed before outcome k, or found its pools.
FailedBefore(k, venue) ==
  \E j \in 1..k, i \in DOMAIN Stages :
    /\ Stages[i].kind = "discover" /\ Stages[i].venue = venue
    /\ run.results[j] = Failure(Stages[i].name)

\* What the outcomes of the run stand for.
ResultsHonest ==
  \A k \in DOMAIN run.results : \A stage \in Modelled :
    run.results[k] = Success(stage.name) =>
      /\ stage.kind = "prices" => Since(run, dollar)
      /\ stage.kind = "rollup" => Since(run, totals.at)
      /\ stage.kind = "pools" =>
           \/ FailedBefore(k, stage.venue)
           \/ \A p \in mix.pools[stage.venue] : Since(run, metrics[p].asOf)

\* A discovery that is over found its pools, or its failure is among the outcomes.
Discovered ==
  \A i \in DOMAIN Stages : i < run.stage /\ Stages[i].kind = "discover" =>
    \/ run.found[Stages[i].venue] = mix.pools[Stages[i].venue]
    \/ \E j \in DOMAIN run.results : run.results[j] = Failure(Stages[i].name)

\* What the items of the step at work, those that are over, have done.
StepHonest ==
  InSteps /\ ~run.bad =>
    /\ Now.kind = "prices" /\ run.todo = {} => Since(run, dollar)
    /\ Now.kind = "rollup" /\ run.todo = {} => Since(run, totals.at) /\ totals.tvl = Total
    /\ Now.kind = "pools" =>
         \A p \in run.found[Now.venue] \ run.todo : Since(run, metrics[p].asOf)

\* A script that is done has written the metrics of its pool.
ScriptHonest == child.pc = "done" => Since(run, metrics[child.pool].asOf)

\* After the rollup, a run without a failure has its totals.
RolledUp ==
  Running /\ Failures = {} /\ (\E i \in DOMAIN Stages : i < run.stage /\ Stages[i].kind = "rollup") =>
    totals.tvl = Total

BannerInv ==
  /\ RunsApart /\ RowsHonest /\ ResultsHonest /\ Discovered /\ StepHonest
  /\ ScriptHonest /\ RolledUp

\* The stages of the job, as far as the banner needs them.
LEMMA StageNames ==
  \A i, j \in 1..15 : Stages[i].name = Stages[j].name => i = j
  <1>1. /\ Stages[1].name = "discover:soroswap" /\ Stages[2].name = "discover:blend"
        /\ Stages[3].name = "discover:aquarius" /\ Stages[4].name = "discover:defindex"
        /\ Stages[5].name = "discover:xoxno" /\ Stages[6].name = "prices:reference"
        /\ Stages[7].name = "prices:soroswap-derived" /\ Stages[8].name = "blend"
        /\ Stages[9].name = "soroswap" /\ Stages[10].name = "aquarius"
        /\ Stages[11].name = "stellar-native" /\ Stages[12].name = "defindex"
        /\ Stages[13].name = "xoxno" /\ Stages[14].name = "protocol-metrics"
        /\ Stages[15].name = "network-stats"
    BY DEF Stages, Stage
  <1> QED BY <1>1

LEMMA StageOrder ==
  \A i \in 1..15 :
    /\ Stages[i].kind = "discover" => i <= 5
    /\ Stages[i].kind = "prices" => i = 6 /\ Stages[i].venue = "one"
    /\ Stages[i].kind = "pools" =>
         /\ i \in {9, 10}
         /\ \E d \in 1..5 : Stages[d].kind = "discover" /\ Stages[d].venue = Stages[i].venue
    /\ Stages[i].kind = "rollup" => i = 14 /\ Stages[i].venue = "one"
  <1>1. /\ Stages[1].kind = "discover" /\ Stages[1].venue = "soroswap"
        /\ Stages[3].kind = "discover" /\ Stages[3].venue = "aquarius"
    BY DEF Stages, Stage
  <1>2. SUFFICES ASSUME NEW i \in 1..15
        PROVE  /\ Stages[i].kind = "discover" => i <= 5
               /\ Stages[i].kind = "prices" => i = 6 /\ Stages[i].venue = "one"
               /\ Stages[i].kind = "pools" =>
                    i \in {9, 10} /\ Stages[i].venue \in {"soroswap", "aquarius"}
               /\ Stages[i].kind = "rollup" => i = 14 /\ Stages[i].venue = "one"
    BY <1>1
  <1>3. \/ i = 1 \/ i = 2 \/ i = 3 \/ i = 4 \/ i = 5 \/ i = 6 \/ i = 7 \/ i = 8
        \/ i = 9 \/ i = 10 \/ i = 11 \/ i = 12 \/ i = 13 \/ i = 14 \/ i = 15
    OBVIOUS
  <1> QED BY <1>3 DEF Stages, Stage

LEMMA OutcomesDiffer ==
  /\ \A n, m, ok : Outcome(n, TRUE) = Outcome(m, TRUE) => n = m
  /\ \A n, m : Success(n) # Failure(m)
  /\ \A n : Success(n).status = "SUCCESS" /\ Failure(n).status = "FAILED"
  BY DEF Outcome, Success, Failure

\* A modelled step is a stage of the job.
LEMMA ModelledStage ==
  ASSUME NEW stage \in Modelled
  PROVE  \E i \in 1..15 : stage = Stages[i] /\ stage.kind \in {"prices", "pools", "rollup"}
  BY StageTable DEF Modelled

-----------------------------------------------------------------------------
\* The stored times only move to the present.
Onward ==
  /\ mix' = mix /\ dollar' \in {dollar, now} /\ totals'.at \in {totals.at, now}
  /\ \A p \in Pools : metrics'[p].asOf \in {metrics[p].asOf, now}

LEMMA SinceNow ==
  ASSUME now \in Nat, NEW r, r.at <= now
  PROVE  Since(r, now)
  BY PriceAssumption, StatusAssumption DEF Since

LEMMA SinceOnward ==
  ASSUME now \in Nat, NEW r, r.at <= now, Onward
  PROVE  /\ Since(r, dollar) => Since(r, dollar')
         /\ Since(r, totals.at) => Since(r, totals'.at)
         /\ \A p \in Pools : Since(r, metrics[p].asOf) => Since(r, metrics'[p].asOf)
  <1>1. Since(r, now)
    BY SinceNow
  <1> QED BY <1>1 DEF Onward

\* The pools of the two venues have metrics.
LEMMA VenuePools ==
  ASSUME JobType, NEW stage \in Modelled, stage.kind = "pools"
  PROVE  mix.pools[stage.venue] \subseteq Pools
  <1>1. stage.venue \in {"soroswap", "aquarius"}
    BY ModelledStage, StageTable
  <1> QED BY <1>1, PipelineAssumption DEF JobType

\* The rows already written stay true.
LEMMA RowsOnward ==
  ASSUME IInv, RowsHonest, Onward, ops' = ops,
         \A r \in ops : lastRun' = r.at =>
           lastRun' = lastRun /\ totals'.tvl = totals.tvl /\ Total' = Total
  PROVE  RowsHonest'
  <1> SUFFICES ASSUME NEW r \in ops
               PROVE  /\ \A stage \in Modelled :
                           Reported(r, stage.name, "SUCCESS") => Done(r, stage)'
                      /\ r.whole => (FailedSteps(r) = {}) = (r.code = 0)
                      /\ r.whole /\ FailedSteps(r) = {} /\ lastRun' = r.at => totals'.tvl = Total'
    BY DEF RowsHonest
  <1>1. now \in Nat /\ r.at \in 0..now /\ JobType
    BY DEF IInv, PoolInv, PoolType, JobInv, JobType
  <1>2. ASSUME NEW stage \in Modelled, Reported(r, stage.name, "SUCCESS")
        PROVE  Done(r, stage)'
    <2>1. Done(r, stage)
      BY <1>2 DEF RowsHonest
    <2>2. r.at <= now
      BY <1>1
    <2>3. /\ Since(r, dollar) => Since(r, dollar')
          /\ Since(r, totals.at) => Since(r, totals'.at)
          /\ \A p \in Pools : Since(r, metrics[p].asOf) => Since(r, metrics'[p].asOf)
      BY <1>1, <2>2, SinceOnward
    <2>4. mix' = mix
      BY DEF Onward
    <2>5. stage.kind = "pools" => mix.pools[stage.venue] \subseteq Pools
      BY <1>1, VenuePools
    <2> QED BY <2>1, <2>3, <2>4, <2>5 DEF Done
  <1> QED BY <1>2 DEF RowsHonest

\* The outcomes of a run that goes on stay true.
LEMMA ResultsOnward ==
  ASSUME IInv, ResultsHonest, Onward, Running,
         run'.results = run.results, run'.at = run.at
  PROVE  ResultsHonest'
  <1>1. now \in Nat /\ run.at <= now /\ JobType
    BY DEF IInv, PoolInv, PoolType, JobInv, JobType
  <1>2. /\ Since(run, dollar) => Since(run, dollar')
        /\ Since(run, totals.at) => Since(run, totals'.at)
        /\ \A p \in Pools : Since(run, metrics[p].asOf) => Since(run, metrics'[p].asOf)
    BY <1>1, SinceOnward
  <1>3. \A time : Since(run, time) => Since(run', time)
    BY DEF Since
  <1>4. \A k, venue : FailedBefore(k, venue) => FailedBefore(k, venue)'
    BY DEF FailedBefore
  <1>5. mix' = mix /\ \A stage \in Modelled : stage.kind = "pools" => mix.pools[stage.venue] \subseteq Pools
    BY <1>1, VenuePools DEF Onward
  <1> SUFFICES ASSUME NEW k \in DOMAIN run.results, NEW stage \in Modelled,
                      run.results[k] = Success(stage.name)
               PROVE  /\ stage.kind = "prices" => Since(run', dollar')
                      /\ stage.kind = "rollup" => Since(run', totals'.at)
                      /\ stage.kind = "pools" =>
                           \/ FailedBefore(k, stage.venue)'
                           \/ \A p \in mix'.pools[stage.venue] : Since(run', metrics'[p].asOf)
    BY DEF ResultsHonest
  <1>6. /\ stage.kind = "prices" => Since(run, dollar)
        /\ stage.kind = "rollup" => Since(run, totals.at)
        /\ stage.kind = "pools" =>
             \/ FailedBefore(k, stage.venue)
             \/ \A p \in mix.pools[stage.venue] : Since(run, metrics[p].asOf)
    BY DEF ResultsHonest
  <1> QED BY <1>2, <1>3, <1>4, <1>5, <1>6

-----------------------------------------------------------------------------
(* The steps.                                                              *)

\* The totals of a state depend on the metrics and on the instance.
LEMMA SameTotal == ASSUME UNCHANGED <<metrics, mix>> PROVE Total' = Total
  BY DEF Total, AmmPools

\* A step that stores nothing the banner is about.
LEMMA QuietWorld ==
  ASSUME UNCHANGED <<mix, dollar, totals, metrics>>
  PROVE  Onward /\ Total' = Total
  BY SameTotal DEF Onward

\* A step of a run, or of the clock, writes no row and begins no run.
LEMMA RunsStay ==
  ASSUME IInv, RunsApart, UNCHANGED <<ops, lastRun>>, now' \in {now, now + 1},
         Running' => Running /\ run'.at = run.at
  PROVE  RunsApart'
  <1>1. now \in Nat
    BY DEF IInv, PoolInv, PoolType
  <1>2. lastRun' \in 0..now' \union {NoTime}
    BY <1>1 DEF RunsApart
  <1> QED BY <1>2 DEF RunsApart

\* While a run is at work no row is its own.
LEMMA RowsWhileRunning ==
  ASSUME IInv, RunsApart, RowsHonest, Onward, Running, UNCHANGED <<ops, lastRun>>
  PROVE  RowsHonest'
  <1>1. \A r \in ops : lastRun' # r.at
    BY DEF RunsApart
  <1> QED BY <1>1, RowsOnward

\* A stage of another kind, or before the rollup.
LEMMA NotRolledUp ==
  ASSUME InSteps, Now.kind \in {"discover", "prices", "pools", "rollup"}
  PROVE  ~ \E i \in DOMAIN Stages : i < run.stage /\ Stages[i].kind = "rollup"
  <1>1. run.stage \in 1..15 /\ Now = Stages[run.stage]
    BY StageTable DEF InSteps, Now
  <1>2. run.stage <= 14
    BY <1>1, StageOrder
  <1>3. \A i \in 1..15 : Stages[i].kind = "rollup" => i = 14
    BY StageOrder
  <1> QED BY <1>1, <1>2, <1>3, StageTable

\* The next stage begins with nothing done.
LEMMA StepBegins ==
  ASSUME JobInv, InSteps, NEW found, NEW results, Enter(run.stage + 1, found, results)
  PROVE  /\ run'.stage = run.stage + 1 /\ run'.at = run.at
         /\ run'.found = found /\ run'.results = results
         /\ Running /\ Running' /\ run.stage \in 1..15 /\ StepHonest'
  <1>1. /\ run.stage \in 1..15
        /\ run' = [stage |-> run.stage + 1, at |-> run.at, found |-> found,
                   todo |-> Items(run.stage + 1, found), attempt |-> 1, bad |-> FALSE,
                   results |-> results]
    BY RunFields DEF Enter, JobInv
  <1>2. StepHonest'
    <2> SUFFICES ASSUME run.stage + 1 \in 1..15
                 PROVE  LET stage == Stages[run.stage + 1] IN
                        /\ stage.kind \in {"prices", "rollup"} => Items(run.stage + 1, found) # {}
                        /\ stage.kind = "pools" =>
                             found[stage.venue] \subseteq Items(run.stage + 1, found)
      BY <1>1, StageTable DEF StepHonest, InSteps, Now
    <2>1. /\ Stages[run.stage + 1].kind \in {"prices", "rollup"} => Stages[run.stage + 1].venue = "one"
          /\ Stages[run.stage + 1].kind = "pools" => Stages[run.stage + 1].venue # "one"
      <3>1. Stages[run.stage + 1].kind \in {"prices", "rollup"} => Stages[run.stage + 1].venue = "one"
        BY StageOrder
      <3>2. Stages[run.stage + 1].kind = "pools" => Stages[run.stage + 1].venue # "one"
        BY StageTable
      <3> QED BY <3>1, <3>2
    <2> QED BY <2>1, StageTable DEF Items
  <1> QED BY <1>1, <1>2 DEF Running

\* A failed discovery before an outcome stays before it.
LEMMA FailedStays ==
  ASSUME NEW S, run.results \in Seq(S), NEW e, run'.results = Append(run.results, e),
         NEW k \in 0..Len(run.results), NEW venue, FailedBefore(k, venue)
  PROVE  FailedBefore(k, venue)'
  <1>1. PICK j \in 1..k, i \in DOMAIN Stages :
          /\ Stages[i].kind = "discover" /\ Stages[i].venue = venue
          /\ run.results[j] = Failure(Stages[i].name)
    BY DEF FailedBefore
  <1>2. run'.results[j] = run.results[j]
    BY <1>1
  <1> QED BY <1>1, <1>2 DEF FailedBefore

\* safeDiscover.
LEMMA BannerDiscover ==
  ASSUME IInv, BannerInv, Discover
  PROVE  BannerInv'
  <1> USE DEF BannerInv
  <1>0. /\ UNCHANGED poolVars /\ UNCHANGED <<mix, totals, ops, lastRun>>
        /\ InSteps /\ Now.kind = "discover"
    BY DEF Discover
  <1>1. /\ UNCHANGED <<now, mix, dollar, totals, metrics, child>>
        /\ UNCHANGED <<ops, lastRun>>
    BY <1>0 DEF poolVars
  <1>2. /\ run.stage \in 1..15 /\ Now = Stages[run.stage] /\ Now.venue \in Venues
        /\ run.found \in [Venues -> SUBSET Entities] /\ run.results \in Seq(Results)
        /\ JobInv
    <2>1. run.stage \in 1..15 /\ Now = Stages[run.stage]
      BY <1>0, StageTable DEF InSteps, Now
    <2>2. Now.venue \in Venues
      BY <1>0, <2>1, StageTable
    <2> QED BY <2>1, <2>2, RunFields DEF IInv, JobInv
  <1>3. PICK found, results :
          /\ Enter(run.stage + 1, found, results)
          /\ \/ /\ found = [run.found EXCEPT ![Now.venue] = mix.pools[Now.venue]]
                /\ results = run.results
             \/ /\ found = run.found
                /\ results = Append(run.results, Failure(Now.name))
    BY DEF Discover, Failure
  <1>4. /\ run'.stage = run.stage + 1 /\ run'.at = run.at
        /\ run'.found = found /\ run'.results = results
        /\ Running /\ Running' /\ StepHonest'
    BY <1>0, <1>2, <1>3, StepBegins
  <1>5. Onward
    BY <1>1, QuietWorld
  <1>6. RunsApart' /\ RowsHonest'
    BY <1>1, <1>4, <1>5, RunsStay, RowsWhileRunning
  <1>7. ResultsHonest'
    <2>1. CASE results = run.results
      BY <1>4, <1>5, <2>1, ResultsOnward
    <2>2. CASE results = Append(run.results, Failure(Now.name))
      <3> SUFFICES ASSUME NEW k \in DOMAIN run'.results, NEW stage \in Modelled,
                          run'.results[k] = Success(stage.name)
                   PROVE  /\ stage.kind = "prices" => Since(run', dollar')
                          /\ stage.kind = "rollup" => Since(run', totals'.at)
                          /\ stage.kind = "pools" =>
                               \/ FailedBefore(k, stage.venue)'
                               \/ \A p \in mix'.pools[stage.venue] : Since(run', metrics'[p].asOf)
        BY DEF ResultsHonest
      <3>1. k \in DOMAIN run.results /\ run.results[k] = Success(stage.name)
        <4>1. /\ DOMAIN run'.results = 1..Len(run.results) + 1
              /\ DOMAIN run.results = 1..Len(run.results)
              /\ run'.results[Len(run.results) + 1] = Failure(Now.name)
              /\ \A i \in 1..Len(run.results) : run'.results[i] = run.results[i]
          BY <1>2, <1>4, <2>2
        <4>2. k # Len(run.results) + 1
          BY <4>1, OutcomesDiffer
        <4> QED BY <1>2, <4>1, <4>2
      <3>2. /\ stage.kind = "prices" => Since(run, dollar)
            /\ stage.kind = "rollup" => Since(run, totals.at)
            /\ stage.kind = "pools" =>
                 \/ FailedBefore(k, stage.venue)
                 \/ \A p \in mix.pools[stage.venue] : Since(run, metrics[p].asOf)
        BY <3>1 DEF ResultsHonest
      <3>3. FailedBefore(k, stage.venue) => FailedBefore(k, stage.venue)'
        <4>1. k \in 0..Len(run.results)
          BY <1>2, <3>1
        <4> QED BY <1>2, <1>4, <2>2, <4>1, FailedStays
      <3> QED BY <1>1, <1>4, <3>2, <3>3 DEF Since
    <2> QED BY <1>3, <2>1, <2>2
  <1>8. Discovered'
    <2> SUFFICES ASSUME NEW i \in 1..15, i < run.stage + 1, Stages[i].kind = "discover"
                 PROVE  \/ found[Stages[i].venue] = mix.pools[Stages[i].venue]
                        \/ \E j \in DOMAIN results : results[j] = Failure(Stages[i].name)
      BY <1>1, <1>4, StageTable DEF Discovered
    <2>1. Stages[i].venue \in Venues
      BY StageTable
    <2>2. i < run.stage =>
            \/ run.found[Stages[i].venue] = mix.pools[Stages[i].venue]
            \/ \E j \in DOMAIN run.results : run.results[j] = Failure(Stages[i].name)
      BY StageTable DEF Discovered
    <2>3. i < run.stage \/ i = run.stage
      BY <1>2
    <2>4. CASE /\ found = [run.found EXCEPT ![Now.venue] = mix.pools[Now.venue]]
               /\ results = run.results
      BY <1>2, <2>1, <2>2, <2>3, <2>4
    <2>5. CASE /\ found = run.found
               /\ results = Append(run.results, Failure(Now.name))
      <3>1. /\ \A j \in DOMAIN run.results : j \in DOMAIN results /\ results[j] = run.results[j]
            /\ Len(run.results) + 1 \in DOMAIN results
            /\ results[Len(run.results) + 1] = Failure(Now.name)
        BY <1>2, <2>5
      <3> QED BY <1>2, <2>2, <2>3, <2>5, <3>1
    <2> QED BY <1>3, <2>4, <2>5
  <1>9. ScriptHonest'
    <2>1. child = Idle
      BY <1>0, ScriptPlace
    <2> QED BY <1>1, <2>1 DEF ScriptHonest, Idle
  <1>10. RolledUp'
    <2>1. run.stage <= 5
      BY <1>0, <1>2, StageOrder
    <2>2. \A i \in 1..15 : Stages[i].kind = "rollup" => i = 14
      BY StageOrder
    <2>3. ~ \E i \in DOMAIN Stages : i < run'.stage /\ Stages[i].kind = "rollup"
      BY <1>2, <1>4, <2>1, <2>2, StageTable
    <2> QED BY <2>3 DEF RolledUp
  <1> QED BY <1>4, <1>6, <1>7, <1>8, <1>9, <1>10

\* track and trackEach: the outcome of the step.
LEMMA BannerStepOver ==
  ASSUME IInv, BannerInv, StepOver
  PROVE  BannerInv'
  <1> USE DEF BannerInv
  <1> DEFINE results == Append(run.results, Outcome(Now.name, ~run.bad))
  <1>0. /\ UNCHANGED poolVars /\ UNCHANGED <<mix, totals, ops, lastRun>>
        /\ InSteps /\ Now.kind # "discover" /\ run.todo = {}
        /\ Enter(run.stage + 1, run.found, results)
    BY DEF StepOver
  <1>1. UNCHANGED <<now, mix, dollar, totals, metrics, child, ops, lastRun>>
    BY <1>0 DEF poolVars
  <1>2. /\ run.stage \in 1..15 /\ Now = Stages[run.stage] /\ run.bad \in BOOLEAN
        /\ run.results \in Seq(Results) /\ JobInv
    BY <1>0, StageTable, RunFields DEF InSteps, Now, IInv, JobInv
  <1>3. /\ run'.stage = run.stage + 1 /\ run'.at = run.at
        /\ run'.found = run.found /\ run'.results = results
        /\ Running /\ Running' /\ StepHonest'
    <2> HIDE DEF results
    <2> QED BY <1>0, <1>2, StepBegins
  <1>4. /\ DOMAIN results = 1..Len(run.results) + 1
        /\ DOMAIN run.results = 1..Len(run.results) /\ Len(run.results) \in Nat
        /\ results[Len(run.results) + 1] = Outcome(Now.name, ~run.bad)
        /\ \A i \in 1..Len(run.results) : results[i] = run.results[i]
    BY <1>2
  <1>5. Onward /\ Total' = Total
    BY <1>1, QuietWorld
  <1>6. RunsApart' /\ RowsHonest'
    BY <1>1, <1>3, <1>5, RunsStay, RowsWhileRunning
  <1>7. \A k \in 0..Len(run.results) : \A venue :
          FailedBefore(k, venue) => FailedBefore(k, venue)'
    BY <1>2, <1>3, FailedStays
  <1> HIDE DEF results
  <1>8. ResultsHonest'
    <2> SUFFICES ASSUME NEW k \in DOMAIN results, NEW stage \in Modelled,
                        results[k] = Success(stage.name)
                 PROVE  /\ stage.kind = "prices" => Since(run, dollar)
                        /\ stage.kind = "rollup" => Since(run, totals.at)
                        /\ stage.kind = "pools" =>
                             \/ FailedBefore(k, stage.venue)'
                             \/ \A p \in mix.pools[stage.venue] : Since(run, metrics[p].asOf)
      BY <1>1, <1>3 DEF ResultsHonest, Since
    <2>1. CASE k \in DOMAIN run.results
      <3>1. run.results[k] = Success(stage.name) /\ k \in 0..Len(run.results)
        BY <1>4, <2>1
      <3> QED BY <1>7, <2>1, <3>1 DEF ResultsHonest
    <2>2. CASE k = Len(run.results) + 1
      <3>1. Outcome(Now.name, ~run.bad) = Success(stage.name)
        BY <1>4, <2>2
      <3>2. ~run.bad /\ Now.name = stage.name
        BY <1>2, <3>1 DEF Outcome, Success
      <3>3. stage = Now
        <4>1. PICK i \in 1..15 : stage = Stages[i]
          BY ModelledStage
        <4> QED BY <1>2, <3>2, <4>1, StageNames
      <3>4. /\ stage.kind = "prices" => Since(run, dollar)
            /\ stage.kind = "rollup" => Since(run, totals.at)
        BY <1>0, <3>2, <3>3 DEF StepHonest
      <3>5. ASSUME stage.kind = "pools"
            PROVE  \/ FailedBefore(k, stage.venue)'
                   \/ \A p \in mix.pools[stage.venue] : Since(run, metrics[p].asOf)
        <4>1. \A p \in run.found[stage.venue] : Since(run, metrics[p].asOf)
          BY <1>0, <3>2, <3>3, <3>5 DEF StepHonest
        <4>2. PICK d \in 1..5 : Stages[d].kind = "discover" /\ Stages[d].venue = stage.venue
          BY <1>2, <3>3, <3>5, StageOrder
        <4>3. d < run.stage /\ d \in DOMAIN Stages
          BY <1>2, <3>3, <3>5, StageOrder, StageTable
        <4>4. \/ run.found[stage.venue] = mix.pools[stage.venue]
              \/ \E j \in DOMAIN run.results : run.results[j] = Failure(Stages[d].name)
          BY <4>2, <4>3 DEF Discovered
        <4>5. ASSUME NEW j \in DOMAIN run.results, run.results[j] = Failure(Stages[d].name)
              PROVE  FailedBefore(k, stage.venue)'
          <5>1. j \in 1..k /\ run'.results[j] = Failure(Stages[d].name)
            BY <1>3, <1>4, <2>2, <4>5
          <5> QED BY <4>2, <4>3, <5>1 DEF FailedBefore
        <4> QED BY <4>1, <4>4, <4>5
      <3> QED BY <3>4, <3>5
    <2> QED BY <1>4, <2>1, <2>2
  <1>9. Discovered'
    <2> SUFFICES ASSUME NEW i \in 1..15, i < run.stage + 1, Stages[i].kind = "discover"
                 PROVE  \/ run.found[Stages[i].venue] = mix.pools[Stages[i].venue]
                        \/ \E j \in DOMAIN results : results[j] = Failure(Stages[i].name)
      BY <1>1, <1>3, StageTable DEF Discovered
    <2>1. i < run.stage
      BY <1>0, <1>2
    <2>2. \/ run.found[Stages[i].venue] = mix.pools[Stages[i].venue]
          \/ \E j \in DOMAIN run.results : run.results[j] = Failure(Stages[i].name)
      BY <2>1, StageTable DEF Discovered
    <2> QED BY <1>4, <2>2
  <1>10. ScriptHonest'
    <2>1. child = Idle
      BY <1>0, ScriptPlace
    <2> QED BY <1>1, <2>1 DEF ScriptHonest, Idle
  <1>11. RolledUp'
    <2> SUFFICES ASSUME Failures' = {}, NEW i \in DOMAIN Stages, i < run.stage + 1,
                        Stages[i].kind = "rollup"
                 PROVE  totals.tvl = Total
      BY <1>1, <1>3, <1>5 DEF RolledUp
    <2>1. Failures = {} /\ ~run.bad
      <3>1. \A j \in DOMAIN results : results[j].status # "FAILED"
        BY <1>3 DEF Failures
      <3>2. Failures = {}
        BY <1>4, <3>1 DEF Failures
      <3>3. Outcome(Now.name, ~run.bad).status # "FAILED"
        BY <1>4, <3>1
      <3> QED BY <1>2, <3>2, <3>3 DEF Outcome
    <2>2. CASE i < run.stage
      BY <1>3, <2>1, <2>2 DEF RolledUp
    <2>3. CASE i = run.stage
      BY <1>0, <1>2, <2>1, <2>3 DEF StepHonest
    <2> QED BY <1>2, <2>2, <2>3, StageTable
  <1> QED BY <1>3, <1>6, <1>8, <1>9, <1>10, <1>11

\* One item of a step ends: what is left to do, and whether the step has failed.
LEMMA ItemOver ==
  ASSUME JobInv, InSteps, NEW ok \in BOOLEAN, Ends(ok)
  PROVE  /\ run'.stage = run.stage /\ run'.at = run.at /\ run'.found = run.found
         /\ run'.results = run.results /\ Running /\ Running' /\ InSteps' /\ Now' = Now
         /\ ~run'.bad => ~run.bad
         /\ ~run'.bad => \/ ok /\ run'.todo = run.todo \ {Item}
                         \/ ~ok /\ run'.todo = run.todo
  <1>1. /\ run = [stage |-> run.stage, at |-> run.at, found |-> run.found,
                  todo |-> run.todo, attempt |-> run.attempt, bad |-> run.bad,
                  results |-> run.results]
        /\ run.bad \in BOOLEAN /\ run.stage \in 1..15
    BY RunFields DEF JobInv
  <1>2. \/ ok /\ run' = NextItem(FALSE)
        \/ ~ok /\ run' = NextItem(TRUE)
        \/ ~ok /\ run' = [run EXCEPT !.attempt = @ + 1]
    BY DEF Ends, AttemptFailed
  <1>3. ASSUME NEW b \in BOOLEAN, run' = NextItem(b)
        PROVE  /\ run'.stage = run.stage /\ run'.at = run.at /\ run'.found = run.found
               /\ run'.results = run.results /\ run'.todo = run.todo \ {Item}
               /\ run'.bad = (run.bad \/ b)
    <2>1. (run.bad \/ b) \in BOOLEAN
      OBVIOUS
    <2>2. PICK bad \in BOOLEAN : bad = (run.bad \/ b)
      BY <2>1
    <2>3. run' = [stage |-> run.stage, at |-> run.at, found |-> run.found,
                  todo |-> run.todo \ {Item}, attempt |-> 1, bad |-> bad,
                  results |-> run.results]
      <3>1. run' = [run EXCEPT !.todo = @ \ {Item}, !.attempt = 1, !.bad = bad]
        BY <1>3, <2>2 DEF NextItem
      <3> QED BY <1>1, <3>1
    <2>4. run'.bad = bad
      BY ONLY <2>3
    <2> QED BY <2>2, <2>3, <2>4
  <1>4. ASSUME run' = [run EXCEPT !.attempt = @ + 1]
        PROVE  /\ run'.stage = run.stage /\ run'.at = run.at /\ run'.found = run.found
               /\ run'.results = run.results /\ run'.todo = run.todo /\ run'.bad = run.bad
    BY <1>1, <1>4
  <1>5. /\ run'.stage = run.stage /\ run'.at = run.at /\ run'.found = run.found
        /\ run'.results = run.results
    BY <1>2, <1>3, <1>4
  <1>6. /\ ~run'.bad => ~run.bad
        /\ ~run'.bad => \/ ok /\ run'.todo = run.todo \ {Item}
                        \/ ~ok /\ run'.todo = run.todo
    <2>1. CASE ok /\ run' = NextItem(FALSE)
      <3>1. run'.todo = run.todo \ {Item} /\ run'.bad = (run.bad \/ FALSE)
        BY <2>1, <1>3
      <3> QED BY <2>1, <3>1, Zenon
    <2>2. CASE ~ok /\ run' = NextItem(TRUE)
      <3>1. run'.bad = (run.bad \/ TRUE)
        BY <2>2, <1>3
      <3>2. run'.bad
        BY <3>1, Zenon
      <3> QED BY <3>2
    <2>3. CASE ~ok /\ run' = [run EXCEPT !.attempt = @ + 1]
      BY <2>3, <1>4
    <2> QED BY <1>2, <2>1, <2>2, <2>3
  <1> QED BY <1>1, <1>5, <1>6, StageTable DEF Running, InSteps, Now

\* What an item's end leaves true but for the step itself.
LEMMA BannerItem ==
  ASSUME IInv, BannerInv, InSteps, NEW ok \in BOOLEAN, Ends(ok), Onward,
         UNCHANGED <<ops, lastRun, now>>, child' = Idle, StepHonest',
         \/ Now.kind \in {"prices", "pools", "rollup"}
         \/ totals' = totals /\ Total' = Total
  PROVE  BannerInv'
  <1> USE DEF BannerInv
  <1>1. /\ run'.stage = run.stage /\ run'.at = run.at /\ run'.found = run.found
        /\ run'.results = run.results /\ Running /\ Running' /\ InSteps' /\ Now' = Now
    BY ItemOver DEF IInv
  <1>2. RunsApart' /\ RowsHonest' /\ ResultsHonest'
    BY <1>1, RunsStay, RowsWhileRunning, ResultsOnward
  <1>3. Discovered'
    BY <1>1 DEF Discovered, Onward
  <1>4. ScriptHonest'
    BY DEF ScriptHonest, Idle
  <1>5. RolledUp'
    <2>1. CASE Now.kind \in {"prices", "pools", "rollup"}
      <3>1. ~ \E i \in DOMAIN Stages : i < run'.stage /\ Stages[i].kind = "rollup"
        BY <1>1, <2>1, NotRolledUp
      <3> QED BY <3>1 DEF RolledUp
    <2>2. CASE totals' = totals /\ Total' = Total
      BY <1>1, <2>2 DEF RolledUp, Failures
    <2> QED BY <2>1, <2>2
  <1> QED BY <1>2, <1>3, <1>4, <1>5

LEMMA BannerOther ==
  ASSUME IInv, BannerInv, OtherScript
  PROVE  BannerInv'
  <1>1. PICK ok \in BOOLEAN : Ends(ok)
    BY DEF OtherScript
  <1>2. /\ UNCHANGED poolVars /\ UNCHANGED <<mix, totals, ops, lastRun>>
        /\ InSteps /\ Now.kind = "script"
    BY DEF OtherScript, Working
  <1>3. UNCHANGED <<now, mix, dollar, totals, metrics, child, ops, lastRun>>
    BY <1>2 DEF poolVars
  <1>4. Onward /\ Total' = Total /\ child' = Idle
    BY <1>2, <1>3, QuietWorld, ScriptPlace
  <1>5. StepHonest'
    <2>1. Now' = Now
      BY <1>1, <1>2, ItemOver DEF IInv
    <2> QED BY <1>2, <2>1 DEF StepHonest
  <1> QED BY <1>1, <1>2, <1>3, <1>4, <1>5, BannerItem

LEMMA BannerPrices ==
  ASSUME IInv, BannerInv, ReferencePrices
  PROVE  BannerInv'
  <1>1. PICK wrote \in 0..2, ok \in BOOLEAN :
          /\ dollar' = IF wrote > 0 THEN now ELSE dollar
          /\ ok => wrote = 2
          /\ Ends(ok)
    BY DEF ReferencePrices
  <1>2. /\ UNCHANGED <<now, child, metrics, mix, totals, ops, lastRun>>
        /\ InSteps /\ Now.kind = "prices" /\ run.todo # {}
    BY DEF ReferencePrices, Working, pooldb
  <1>3. Onward /\ child' = Idle
    BY <1>1, <1>2, ScriptPlace DEF Onward
  <1>4. /\ run'.at = run.at /\ Now' = Now /\ Running
        /\ ~run'.bad => ok \/ run'.todo = run.todo
    BY <1>1, <1>2, ItemOver DEF IInv
  <1>5. ok => Since(run', dollar')
    <2>1. now \in Nat /\ run'.at <= now
      BY <1>4 DEF IInv, PoolInv, PoolType, JobInv, JobType
    <2> QED BY <1>1, <2>1, SinceNow
  <1>6. StepHonest'
    BY <1>2, <1>4, <1>5 DEF StepHonest
  <1> QED BY <1>1, <1>2, <1>3, <1>6, BannerItem

LEMMA BannerRollup ==
  ASSUME IInv, BannerInv, Rollup
  PROVE  BannerInv'
  <1>1. PICK ok \in BOOLEAN, wrote \in BOOLEAN :
          /\ ok => wrote
          /\ totals' = IF wrote THEN [at |-> now, tvl |-> Total] ELSE totals
          /\ Ends(ok)
    BY DEF Rollup
  <1>2. /\ UNCHANGED poolVars /\ UNCHANGED <<mix, ops, lastRun>>
        /\ InSteps /\ Now.kind = "rollup" /\ run.todo # {}
    BY DEF Rollup, Working
  <1>3. /\ UNCHANGED <<now, child, metrics, mix, dollar, ops, lastRun>>
        /\ child' = Idle /\ Total' = Total
    BY <1>2, ScriptPlace, SameTotal DEF poolVars
  <1>4. Onward
    BY <1>1, <1>3 DEF Onward
  <1>5. /\ run'.at = run.at /\ Now' = Now /\ Running
        /\ ~run'.bad => ok \/ run'.todo = run.todo
    BY <1>1, <1>2, ItemOver DEF IInv
  <1>6. ok => Since(run', totals'.at) /\ totals'.tvl = Total'
    <2>1. now \in Nat /\ run'.at <= now
      BY <1>5 DEF IInv, PoolInv, PoolType, JobInv, JobType
    <2> QED BY <1>1, <1>3, <2>1, SinceNow
  <1>7. StepHonest'
    BY <1>2, <1>5, <1>6 DEF StepHonest
  <1> QED BY <1>1, <1>2, <1>3, <1>4, <1>7, BannerItem

\* The script of a pool ends, well or not.
LEMMA BannerPoolEnds ==
  ASSUME IInv, BannerInv, PoolDone \/ PoolFails
  PROVE  BannerInv'
  <1>1. PICK ok \in BOOLEAN : Ends(ok) /\ (ok => child.pc = "done")
    BY DEF PoolDone, PoolFails
  <1>2. /\ UNCHANGED <<now, dollar, metrics, mix, totals, ops, lastRun>>
        /\ child.pc # "idle" /\ child' = Idle
    BY DEF PoolDone, PoolFails, prices, pooldb
  <1>3. InSteps /\ Now.kind = "pools" /\ child.pool = Item
    BY <1>2, ScriptPlace
  <1>4. Onward
    BY <1>2, QuietWorld
  <1>5. /\ run'.at = run.at /\ run'.found = run.found /\ Now' = Now /\ InSteps
        /\ ~run'.bad => ~run.bad
        /\ ~run'.bad => \/ ok /\ run'.todo = run.todo \ {Item}
                        \/ ~ok /\ run'.todo = run.todo
    BY <1>1, <1>3, ItemOver DEF IInv
  <1>6. StepHonest'
    <2> SUFFICES ASSUME ~run'.bad, NEW p \in run.found[Now.venue] \ run'.todo
                 PROVE  Since(run, metrics[p].asOf)
      BY <1>2, <1>3, <1>5 DEF StepHonest, Since
    <2>1. CASE p \notin run.todo
      BY <1>3, <1>5, <2>1 DEF StepHonest, BannerInv
    <2>2. CASE p \in run.todo
      <3>1. ok /\ p = Item
        BY <1>5, <2>2
      <3> QED BY <1>1, <1>3, <3>1 DEF ScriptHonest, BannerInv
    <2> QED BY <2>1, <2>2
  <1> QED BY <1>1, <1>2, <1>3, <1>4, <1>6, BannerItem

\* A step of the scripts: only the last one stores what the banner is about.
LEMMA BannerScript ==
  ASSUME IInv, BannerInv, StartPool \/ PoolStep
  PROVE  BannerInv'
  <1> USE DEF BannerInv
  <1>1. UNCHANGED <<now, mix, run, totals, ops, lastRun, dollar>>
    BY DEF StartPool, PoolStep, Script, jobVars, prices
  <1>2. InSteps /\ Now.kind = "pools" /\ Running /\ JobInv
    <2>1. child.pc # "idle" \/ Working("pools")
      BY DEF StartPool, PoolStep, Script, ReadState, ReadLedger, ReadPage, StoreEvent,
             EventsStored, StoreReserves, StoreMetrics
    <2>2. InSteps /\ Now.kind = "pools" /\ JobInv
      BY <2>1, ScriptPlace DEF Working, IInv
    <2> QED BY <2>2, StageTable DEF InSteps, Running
  <1>3. now \in Nat /\ run.at <= now
    BY <1>2 DEF IInv, PoolInv, PoolType, JobInv, JobType
  <1>4. /\ Onward
        /\ child'.pc = "done" => metrics'[child'.pool].asOf = now
        /\ \A p \in Pools : metrics'[p].asOf \in {metrics[p].asOf, now}
    <2>1. CASE UNCHANGED metrics /\ child'.pc # "done"
      BY <1>1, <2>1, QuietWorld
    <2>2. CASE StoreMetrics
      <3>1. child.pool \in Pools /\ child'.pool = child.pool /\ DOMAIN metrics = Pools
        BY <2>2, ChildFields DEF StoreMetrics, IInv, PoolInv, PoolType, Child
      <3>2. PICK row : row = [asOf |-> now, tvl |-> Tvl(reserves[child.pool]),
           from |-> IF IsFresh(price.at, now) THEN price.from ELSE Absent,
           swaps |-> Swaps(child.pool), whole |-> whole[child.pool], hole |-> hole[child.pool]]
        OBVIOUS
      <3>3. metrics' = [metrics EXCEPT ![child.pool] = row] /\ row.asOf = now
        BY <2>2, <3>2 DEF StoreMetrics
      <3>4. \A p \in Pools : metrics'[p].asOf \in {metrics[p].asOf, now}
        BY <3>1, <3>3
      <3>5. metrics'[child'.pool].asOf = now
        BY <3>1, <3>3
      <3> QED BY <1>1, <3>4, <3>5 DEF Onward
    <2>3. CASE ~StoreMetrics
      <3>1. child \in Child
        BY ChildFields DEF IInv
      <3>2. UNCHANGED metrics
        BY <2>3 DEF StartPool, PoolStep, Script, pooldb
      <3>3. child'.pc # "done"
        <4>1. CASE StartPool
          BY <4>1 DEF StartPool, Launch, Idle
        <4>2. CASE PoolStep
          BY <2>3, <3>1, <4>2 DEF PoolStep, Script, ReadState, ReadLedger, ReadPage, StoreEvent,
                                  EventsStored, StoreReserves, Child
        <4> QED BY <4>1, <4>2
      <3> QED BY <2>1, <3>2, <3>3
    <2> QED BY <2>2, <2>3
  <1>5. Running' /\ run' = run /\ Now' = Now /\ InSteps' /\ run'.results = run.results
        /\ run'.at = run.at
    BY <1>1, <1>2 DEF Running, Now, InSteps
  <1>6. RunsApart' /\ RowsHonest' /\ ResultsHonest'
    BY <1>1, <1>2, <1>4, <1>5, RunsStay, RowsWhileRunning, ResultsOnward
  <1>7. Discovered'
    BY <1>1 DEF Discovered
  <1>8. StepHonest'
    <2> SUFFICES ASSUME ~run.bad, NEW p \in run.found[Now.venue] \ run.todo
                 PROVE  Since(run, metrics'[p].asOf)
      BY <1>1, <1>2, <1>5 DEF StepHonest
    <2>1. p \in Pools
      <3>1. run.stage \in 1..15 /\ Now = Stages[run.stage]
        BY <1>2, StageTable DEF InSteps, Now
      <3>2. Now.venue \in {"soroswap", "aquarius"}
        BY <1>2, <3>1, StageTable
      <3> QED BY <1>2, <3>2 DEF JobInv, Found
    <2>2. Since(run, metrics[p].asOf)
      BY <1>2 DEF StepHonest
    <2> QED BY <1>3, <1>4, <2>1, <2>2, SinceOnward
  <1>9. ScriptHonest'
    BY <1>1, <1>3, <1>4, SinceNow DEF ScriptHonest
  <1>10. RolledUp'
    <2>1. ~ \E i \in DOMAIN Stages : i < run'.stage /\ Stages[i].kind = "rollup"
      BY <1>2, <1>5, NotRolledUp
    <2> QED BY <2>1 DEF RolledUp
  <1> QED BY <1>6, <1>7, <1>8, <1>9, <1>10

\* No run is at work: only the rows speak.
LEMMA NoRunHonest ==
  ASSUME run' = NoRun, child' = Idle
  PROVE  /\ ResultsHonest' /\ Discovered' /\ StepHonest' /\ ScriptHonest' /\ RolledUp'
         /\ ~Running'
  <1>1. run'.stage = 0 /\ run'.results = <<>>
    BY DEF NoRun
  <1>2. ResultsHonest'
    BY <1>1 DEF ResultsHonest
  <1>3. Discovered' /\ StepHonest' /\ RolledUp' /\ ~Running'
    BY <1>1, StageTable DEF Discovered, StepHonest, InSteps, RolledUp, Running
  <1>4. ScriptHonest'
    BY DEF ScriptHonest, Idle
  <1> QED BY <1>2, <1>3, <1>4

\* The cron starts a run: the rows of the last one are not its own.
LEMMA BannerStart ==
  ASSUME IInv, BannerInv, Start
  PROVE  BannerInv'
  <1> USE DEF BannerInv
  <1>1. /\ UNCHANGED poolVars /\ UNCHANGED <<mix, totals, ops>> /\ ~Running
        /\ lastRun # now /\ lastRun' = now
        /\ run' = [stage |-> 1, at |-> now, found |-> [v \in Venues |-> {}], todo |-> {},
                   attempt |-> 0, bad |-> FALSE, results |-> <<>>]
    BY DEF Start, Due, NoRun
  <1>2. UNCHANGED <<now, dollar, metrics, child>> /\ now \in Nat
    BY <1>1 DEF poolVars, IInv, PoolInv, PoolType
  <1>3. \A r \in ops : r.at < now
    <2>1. \A r \in ops : r.at \in 0..now /\ lastRun # NoTime /\ r.at <= lastRun
      BY DEF RunsApart, IInv, JobInv, JobType
    <2>2. lastRun \in 0..now \union {NoTime}
      BY DEF RunsApart
    <2> QED BY <1>1, <1>2, <2>1, <2>2
  <1>4. \A r \in ops : r.at \in 0..now
    BY DEF IInv, JobInv, JobType
  <1>5. RunsApart'
    <2>1. now # NoTime
      BY <1>2, StatusAssumption
    <2>2. \A r \in ops : r.at <= now /\ r.at # now
      BY <1>2, <1>3, <1>4
    <2>3. ops # {} => \E r \in ops : \A other \in ops : other.at <= r.at
      BY DEF RunsApart
    <2>4. run'.at = now
      BY <1>1
    <2> QED BY <1>1, <1>2, <2>1, <2>2, <2>3, <2>4 DEF RunsApart
  <1>6. RowsHonest'
    <2>1. Onward
      BY <1>1, <1>2, QuietWorld
    <2>2. \A r \in ops : lastRun' # r.at
      BY <1>1, <1>2, <1>3, <1>4
    <2> QED BY <1>1, <2>1, <2>2, RowsOnward
  <1>7. /\ run'.stage = 1 /\ run'.results = <<>>
    BY <1>1
  <1>8. ResultsHonest'
    BY <1>7 DEF ResultsHonest
  <1>9. Discovered' /\ RolledUp'
    BY <1>7, StageTable DEF Discovered, RolledUp
  <1>10. StepHonest'
    <2>1. Stages[1].kind = "discover"
      BY DEF Stages, Stage
    <2> QED BY <1>7, <2>1 DEF StepHonest, Now
  <1>11. ScriptHonest'
    <2>1. child = Idle
      BY <1>1, ScriptPlace, RunFields DEF Running, IInv, JobInv
    <2> QED BY <1>2, <2>1 DEF ScriptHonest, Idle
  <1> QED BY <1>5, <1>6, <1>8, <1>9, <1>10, <1>11

LEMMA BannerKill ==
  ASSUME IInv, BannerInv, Kill
  PROVE  BannerInv'
  <1> USE DEF BannerInv
  <1>1. /\ UNCHANGED <<now, dollar, metrics, mix, totals, ops, lastRun>> /\ Running
        /\ run' = NoRun /\ child' = Idle
    BY DEF Kill, prices, pooldb
  <1>2. ~Running'
    BY <1>1, NoRunHonest
  <1>3. Onward
    BY <1>1, QuietWorld
  <1>4. RunsApart' /\ RowsHonest'
    BY <1>1, <1>2, <1>3, RunsStay, RowsWhileRunning
  <1> QED BY <1>1, <1>4, NoRunHonest

\* The rows of the run: its outcomes, all or the first of them.
LEMMA BannerPersist ==
  ASSUME IInv, BannerInv, Persist
  PROVE  BannerInv'
  <1> USE DEF BannerInv
  <1>1. /\ UNCHANGED poolVars /\ UNCHANGED <<mix, totals, lastRun>>
        /\ run.stage = 16 /\ run' = NoRun
    BY StageTable DEF Persist
  <1>2. UNCHANGED <<now, dollar, metrics, child>> /\ now \in Nat
    BY <1>1 DEF poolVars, IInv, PoolInv, PoolType
  <1>3. child' = Idle
    <2>1. ~InSteps
      BY <1>1, RunFields DEF IInv, JobInv
    <2> QED BY <1>2, <2>1, ScriptPlace
  <1>4. Running /\ ~Running' /\ run.results \in Seq(Results) /\ run.at \in 0..now
    <2>1. Running
      BY <1>1 DEF Running
    <2> QED BY <1>1, <1>3, <2>1, NoRunHonest, RunFields DEF IInv, JobInv, JobType
  <1>5. Onward /\ Total' = Total
    BY <1>1, <1>2, QuietWorld
  <1>6. CASE ops' = ops
    <2>1. RunsApart' /\ RowsHonest'
      BY <1>1, <1>2, <1>4, <1>5, <1>6, RunsStay, RowsWhileRunning
    <2> QED BY <1>1, <1>3, <2>1, NoRunHonest
  <1>7. CASE ops' # ops
    <2>1. PICK k \in 0..Len(run.results) :
            ops' = ops \union {[at |-> run.at, steps |-> SubSeq(run.results, 1, k),
                                whole |-> k = Len(run.results),
                                code |-> IF Failures = {} THEN 0 ELSE 1]}
      BY <1>7 DEF Persist
    <2>2. PICK row : row = [at |-> run.at, steps |-> SubSeq(run.results, 1, k),
                            whole |-> k = Len(run.results),
                            code |-> IF Failures = {} THEN 0 ELSE 1]
      OBVIOUS
    <2>3. /\ ops' = ops \union {row} /\ row.at = run.at
          /\ row.whole = (k = Len(run.results))
          /\ row.code = IF Failures = {} THEN 0 ELSE 1
      BY <2>1, <2>2
    <2>4. /\ DOMAIN row.steps = 1..k
          /\ \A i \in 1..k : row.steps[i] = run.results[i]
          /\ DOMAIN run.results = 1..Len(run.results) /\ Len(run.results) \in Nat
      BY <1>4, <2>2
    <2>5. ASSUME NEW stage \in Modelled, Reported(row, stage.name, "SUCCESS")
          PROVE  Done(row, stage)
      <3>1. PICK i \in 1..k : run.results[i] = Success(stage.name)
        <4>1. PICK i \in DOMAIN row.steps :
                row.steps[i] = Outcome(stage.name, "SUCCESS" = "SUCCESS")
          BY <2>5 DEF Reported
        <4>2. ("SUCCESS" = "SUCCESS") = TRUE
          OBVIOUS
        <4>3. row.steps[i] = Success(stage.name)
          BY <4>1, <4>2 DEF Success
        <4> QED BY <2>4, <4>3
      <3>2. i \in DOMAIN run.results
        BY <2>4
      <3>3. /\ stage.kind = "prices" => Since(run, dollar)
            /\ stage.kind = "rollup" => Since(run, totals.at)
            /\ stage.kind = "pools" =>
                 \/ FailedBefore(i, stage.venue)
                 \/ \A p \in mix.pools[stage.venue] : Since(run, metrics[p].asOf)
        BY <3>1, <3>2 DEF ResultsHonest
      <3>4. \A time : Since(run, time) => Since(row, time)
        BY <2>3 DEF Since
      <3>5. ASSUME FailedBefore(i, stage.venue)
            PROVE  Undiscovered(row, stage.venue)
        <4>1. PICK j \in 1..i, d \in DOMAIN Stages :
                /\ Stages[d].kind = "discover" /\ Stages[d].venue = stage.venue
                /\ run.results[j] = Failure(Stages[d].name)
          BY <3>5 DEF FailedBefore
        <4>2. j \in DOMAIN row.steps /\ row.steps[j] = Failure(Stages[d].name)
          BY <2>4, <4>1
        <4>3. ("FAILED" = "SUCCESS") = FALSE
          OBVIOUS
        <4>4. Reported(row, Stages[d].name, "FAILED")
          BY <4>2, <4>3 DEF Reported, Failure
        <4> QED BY <4>1, <4>4 DEF Undiscovered
      <3> QED BY <3>3, <3>4, <3>5 DEF Done
    <2>6. row.whole => (FailedSteps(row) = {}) = (Failures = {})
      <3> SUFFICES ASSUME row.whole PROVE FailedSteps(row) = Failures
        OBVIOUS
      <3>1. k = Len(run.results)
        BY <2>3
      <3> QED BY <2>4, <3>1 DEF FailedSteps, Failures
    <2>7. row.whole => (FailedSteps(row) = {}) = (row.code = 0)
      BY <2>3, <2>6
    <2>8. row.whole /\ FailedSteps(row) = {} => totals'.tvl = Total'
      <3>1. 14 < run.stage /\ 14 \in DOMAIN Stages /\ Stages[14].kind = "rollup"
        BY <1>1, StageTable DEF Stages, Stage
      <3>2. Failures = {} => totals.tvl = Total
        BY <1>4, <3>1 DEF RolledUp
      <3> QED BY <1>1, <1>5, <2>6, <3>2
    <2>9. \A stage \in Modelled : Done(row, stage) => Done(row, stage)'
      BY <1>1, <1>2 DEF Done, Undiscovered, Reported
    <2>10. RowsHonest'
      <3>1. ASSUME NEW r \in ops
            PROVE  /\ \A stage \in Modelled :
                        Reported(r, stage.name, "SUCCESS") => Done(r, stage)'
                   /\ r.whole => (FailedSteps(r) = {}) = (r.code = 0)
                   /\ lastRun' # r.at
        <4>1. \A stage \in Modelled : Done(r, stage) => Done(r, stage)'
          BY <1>1, <1>2 DEF Done, Undiscovered, Reported
        <4>2. lastRun' # r.at
          BY <1>1, <1>4 DEF RunsApart
        <4> QED BY <4>1, <4>2 DEF RowsHonest
      <3>2. /\ \A stage \in Modelled :
                 Reported(row, stage.name, "SUCCESS") => Done(row, stage)'
            /\ row.whole => (FailedSteps(row) = {}) = (row.code = 0)
            /\ row.whole /\ FailedSteps(row) = {} /\ lastRun' = row.at => totals'.tvl = Total'
        BY <2>5, <2>7, <2>8, <2>9
      <3>3. \A r \in ops' : r \in ops \/ r = row
        BY <2>3
      <3> QED BY <3>1, <3>2, <3>3 DEF RowsHonest
    <2>11. RunsApart'
      <3>1. run.at = lastRun /\ row.at = lastRun /\ lastRun # NoTime /\ lastRun \in 0..now
        BY <1>4, <2>3, StatusAssumption DEF RunsApart
      <3>2. \A r \in ops : r.at <= lastRun
        BY DEF RunsApart
      <3>3. \A other \in ops' : other.at <= row.at
        BY <2>3, <3>1, <3>2
      <3> QED BY <1>1, <1>2, <1>4, <2>3, <3>1, <3>3 DEF RunsApart
    <2> QED BY <1>1, <1>3, <2>10, <2>11, NoRunHonest
  <1> QED BY <1>6, <1>7

\* The clock, and a step that changes nothing.
LEMMA BannerTick ==
  ASSUME IInv, BannerInv, Tick \/ UNCHANGED vars
  PROVE  BannerInv'
  <1> USE DEF BannerInv
  <1>1. /\ UNCHANGED <<mix, run, totals, ops, lastRun, child, dollar, metrics>>
        /\ now' \in {now, now + 1}
    BY DEF Tick, Close, jobVars, prices, pooldb, vars, poolVars
  <1>2. Onward /\ Total' = Total
    BY <1>1, QuietWorld
  <1>3. RunsApart'
    BY <1>1, RunsStay DEF Running
  <1>4. RowsHonest'
    BY <1>1, <1>2, RowsOnward
  <1>5. ResultsHonest' /\ Discovered' /\ ScriptHonest' /\ StepHonest' /\ RolledUp'
    BY <1>1, <1>2 DEF ResultsHonest, FailedBefore, Discovered, ScriptHonest, StepHonest, InSteps,
                      Now, RolledUp, Failures, Running
  <1> QED BY <1>3, <1>4, <1>5

LEMMA BannerInit == Init => BannerInv
  <1> SUFFICES ASSUME Init PROVE BannerInv
    OBVIOUS
  <1>1. run.stage = 0 /\ run.results = <<>> /\ ops = {} /\ lastRun = NoTime /\ child = Idle
    BY DEF Init, PoolInit, NoRun
  <1>2. RunsApart /\ RowsHonest
    BY <1>1 DEF RunsApart, RowsHonest, Running
  <1>3. ResultsHonest
    BY <1>1 DEF ResultsHonest
  <1>4. Discovered /\ StepHonest /\ RolledUp
    BY <1>1, StageTable DEF Discovered, StepHonest, InSteps, RolledUp, Running
  <1>5. ScriptHonest
    BY <1>1 DEF ScriptHonest, Idle
  <1> QED BY <1>2, <1>3, <1>4, <1>5 DEF BannerInv

LEMMA BannerNext ==
  ASSUME IInv, BannerInv, [Next]_vars
  PROVE  BannerInv'
  BY BannerStart, BannerDiscover, BannerOther, BannerPrices, BannerScript, BannerPoolEnds,
     BannerRollup, BannerStepOver, BannerPersist, BannerKill, BannerTick DEF Next

\* The run the page calls the latest is a run of the table.
LEMMA LatestIsRow ==
  ASSUME IInv, RunsApart, Axis(ops, now) # {}
  PROVE  LatestRun(ops, now) \in ops
  <1>1. /\ now \in Nat /\ Window \in Nat /\ \A r \in ops : r.at \in 0..now
    BY StatusAssumption DEF IInv, PoolInv, PoolType, JobInv, JobType
  <1>2. PICK r \in ops : r.at >= now - Window
    BY DEF Axis, InWindow
  <1>3. PICK last \in ops : \A other \in ops : other.at <= last.at
    BY DEF RunsApart
  <1>4. last.at >= now - Window
    <2>1. r.at \in Int /\ last.at \in Int /\ r.at <= last.at
      BY <1>1, <1>3
    <2> QED BY <1>1, <1>2, <2>1
  <1>5. last.at \in Axis(ops, now)
    BY <1>4 DEF Axis, InWindow
  <1>6. \A t \in Axis(ops, now) : last.at >= t
    BY <1>1, <1>3 DEF Axis, InWindow
  <1>7. Max(Axis(ops, now)) \in Axis(ops, now)
    <2>1. \E x \in Axis(ops, now) : \A y \in Axis(ops, now) : x >= y
      BY <1>5, <1>6
    <2> QED BY <2>1 DEF Max
  <1>8. \E row \in InWindow(ops, now) : row.at = Max(Axis(ops, now))
    <2>1. PICK m : m = Max(Axis(ops, now))
      OBVIOUS
    <2> QED BY <1>7, <2>1 DEF Axis
  <1>9. LatestRun(ops, now) \in InWindow(ops, now)
    BY <1>8 DEF LatestRun
  <1> QED BY <1>9 DEF InWindow

\* The page can be trusted (status.ts:413-422, 71-refresh-all-metrics.ts:70-147), for every
\* set of pools, number of attempts, cadence and window: a step that the latest run reports
\* as SUCCESS has done its work, also when its rows were cut short, and operational and
\* degraded say how the run exited and whether the totals are the sum of what it wrote.
THEOREM BannerIsHonest == Spec => []BannerHonest
  <1>1. IInv /\ BannerInv /\ [Next]_vars => BannerInv'
    BY BannerNext
  <1>2. IInv /\ BannerInv => BannerHonest
    <2> SUFFICES ASSUME IInv, BannerInv, Banner(ops, now) \in {"operational", "degraded"},
                        NEW r, r = LatestRun(ops, now)
                 PROVE  /\ \A stage \in Modelled :
                             Reported(r, stage.name, "SUCCESS") => Done(r, stage)
                        /\ r.whole => (Banner(ops, now) = "operational") = (r.code = 0)
                        /\ r.whole /\ Banner(ops, now) = "operational" /\ lastRun = r.at =>
                             totals.tvl = Total
      BY DEF BannerHonest
    <2>1. Axis(ops, now) # {}
      BY DEF Banner
    <2>2. r \in ops
      BY <2>1, LatestIsRow DEF BannerInv
    <2>3. (Banner(ops, now) = "operational") = (FailedSteps(r) = {})
      <3>1. Banner(ops, now) = IF FailedSteps(r) # {} THEN "degraded" ELSE "operational"
        BY <2>1 DEF Banner
      <3> QED BY <3>1
    <2>4. /\ \A stage \in Modelled : Reported(r, stage.name, "SUCCESS") => Done(r, stage)
          /\ r.whole => (FailedSteps(r) = {}) = (r.code = 0)
          /\ r.whole /\ FailedSteps(r) = {} /\ lastRun = r.at => totals.tvl = Total
      BY <2>2 DEF BannerInv, RowsHonest
    <2> QED BY <2>3, <2>4
  <1> QED BY <1>1, <1>2, BannerInit, SpecIInv, PTL DEF Spec

=============================================================================
